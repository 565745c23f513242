\* Three calls, two slots; the bounds are those of MCCmdMgr.
SPECIFICATION Spec
CONSTANTS
  Calls = {c1, c2, c3}
  c1 = c1
  c2 = c2
  c3 = c3
  Worker = Worker
  Rx = Rx
  Remover = Remover
  None = None
  ArraySize = 2
  MaxQueued = 2
  Cfms = {"a", "b"}
  Kinds <- MixedKinds
  MayTimeout = TRUE
  MayFail = TRUE
  MayKill = FALSE
  MayRemove = TRUE
SYMMETRY Sym
CONSTRAINT BothKinds
ACTION_CONSTRAINT FailsAlone
INVARIANT SlotsApart
INVARIANT MutualExclusion
INVARIANT BufferAlive
INVARIANT BufferUntouched
INVARIANT AnswerEarned
PROPERTY ServiceKept
CHECK_DEADLOCK FALSE
