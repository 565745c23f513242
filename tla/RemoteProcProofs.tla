--------------------------- MODULE RemoteProcProofs ---------------------------
(***************************************************************************)
(* The properties of RemoteProc for any number of probes and of failed     *)
(* starts.  The inductive invariant is the conjunction of the properties   *)
(* with Steps; every action preserves it for reasons local to its step.    *)
(***************************************************************************)
EXTENDS RemoteProc, TLAPS

IInv == TypeOK /\ Steps /\ RunsPrepared /\ HeldUnlessRunning

\* The invariant holds in what the boot loader leaves.
LEMMA InitIInv == Init => IInv
<1> SUFFICES ASSUME Init PROVE IInv
  OBVIOUS
<1>1. TypeOK
  <2>1. mbox \in BOOLEAN /\ addr \in BOOLEAN
    BY Zenon DEF Init
  <2>2. clocks \in 0..MaxClocks /\ stranded \in 0..MaxClocks /\ binds \in 0..MaxBinds
    BY BoundsAssumption DEF Init
  <2> QED BY <2>1, <2>2, Zenon DEF Init, TypeOK
<1>2. Steps
  BY DEF Init, Steps
<1>3. RunsPrepared
  BY DEF Init, RunsPrepared
<1>4. HeldUnlessRunning
  BY Zenon DEF Init, HeldUnlessRunning
<1> QED BY <1>1, <1>2, <1>3, <1>4 DEF IInv

\* The steps of probe and remove keep the invariant.
LEMMA ProbingKeeps == ASSUME IInv, Probing PROVE IInv'
<1> USE BoundsAssumption DEF IInv, TypeOK, Steps, RunsPrepared, HeldUnlessRunning, core, mcu
<1>1. CASE Probe BY <1>1 DEF Probe
<1>2. CASE ProbeFails BY <1>2 DEF ProbeFails
<1>3. CASE RequestMailbox BY <1>3 DEF RequestMailbox
<1>4. CASE Add BY <1>4 DEF Add
<1>5. CASE AddFails BY <1>5 DEF AddFails
<1>6. CASE ProbeDone BY <1>6 DEF ProbeDone
<1> QED BY <1>1, <1>2, <1>3, <1>4, <1>5, <1>6 DEF Probing

LEMMA RemovingKeeps == ASSUME IInv, Removing PROVE IInv'
<1> USE BoundsAssumption DEF IInv, TypeOK, Steps, RunsPrepared, HeldUnlessRunning, core, mcu
<1>1. CASE Remove BY <1>1 DEF Remove
<1>2. CASE DeleteStops BY <1>2 DEF DeleteStops
<1>3. CASE Deleted BY <1>3 DEF Deleted
<1> QED BY <1>1, <1>2, <1>3 DEF Removing

\* The steps of a start keep it, those that fail included.
LEMMA StartingKeeps == ASSUME IInv, Starting PROVE IInv'
<1> USE BoundsAssumption DEF IInv, TypeOK, Steps, RunsPrepared, HeldUnlessRunning,
            core, mcu, SetEnabled
<1>1. CASE Boot BY <1>1 DEF Boot, Registered
<1>2. CASE ForceReset BY <1>2 DEF ForceReset
<1>3. CASE EnableClocks BY <1>3 DEF EnableClocks
<1>4. CASE ClocksFail BY <1>4 DEF ClocksFail
<1>5. CASE DeassertResets BY <1>5 DEF DeassertResets
<1>6. CASE SetAddress BY <1>6 DEF SetAddress
<1>7. CASE StartFails BY <1>7 DEF StartFails
<1>8. CASE Started BY <1>8 DEF Started
<1> QED BY <1>1, <1>2, <1>3, <1>4, <1>5, <1>6, <1>7, <1>8 DEF Starting

\* The steps of a stop keep it.
LEMMA StoppingKeeps == ASSUME IInv, Stopping PROVE IInv'
<1> USE BoundsAssumption DEF IInv, TypeOK, Steps, RunsPrepared, HeldUnlessRunning,
            core, mcu, SetEnabled
<1>1. CASE Shutdown BY <1>1 DEF Shutdown, Registered
<1>2. CASE StopProcessor BY <1>2 DEF StopProcessor
<1>3. CASE AssertResets BY <1>3 DEF AssertResets
<1>4. CASE DisableClocks BY <1>4 DEF DisableClocks
<1> QED BY <1>1, <1>2, <1>3, <1>4 DEF Stopping

\* So it holds in every reachable state.
LEMMA Invariance == Spec => []IInv
<1>1. ASSUME IInv, UNCHANGED vars PROVE IInv'
  BY <1>1 DEF vars, core, mcu, IInv, TypeOK, Steps, RunsPrepared, HeldUnlessRunning
<1>2. IInv /\ [Next]_vars => IInv'
  BY <1>1, ProbingKeeps, RemovingKeeps, StartingKeeps, StoppingKeeps DEF Next
<1> QED BY InitIInv, <1>2, PTL DEF Spec

\* A processor that the core takes for running runs from the firmware memory,
\* with clocks and out of reset (rk3506_rproc_start, whatever failed before).
THEOREM RunsPreparedHolds == Spec => []RunsPrepared
BY Invariance, PTL DEF IInv

\* Every variable keeps its type.
THEOREM TypeCorrect == Spec => []TypeOK
BY Invariance, PTL DEF IInv

\* The processor is released only while the core takes it for running.
THEOREM HeldUnlessRunningHolds == Spec => []HeldUnlessRunning
BY Invariance, PTL DEF IInv

\* Every failed start behind the clocks strands one enable count, and nothing
\* else ever unbalances them; the mailbox is held by a driver alone.
THEOREM ResourcesAccountedHolds == Spec => []ResourcesAccounted
<1>1. IInv => ResourcesAccounted BY DEF IInv, TypeOK, Steps, ResourcesAccounted
<1> QED BY Invariance, <1>1, PTL

-----------------------------------------------------------------------------
(* The driver implements ProcessorLife: each step is one of its steps, or  *)
(* changes nothing it sees.                                                *)

LifeStep == [Life!Next]_(Life!vars)

\* The invariant after a step is at hand: it gives the place of the clocks.
LEMMA ProbingLives == ASSUME IInv, IInv', Probing PROVE LifeStep
<1> USE DEF IInv, TypeOK, Steps, HeldUnlessRunning, core, mcu, LifeStep, Life!Next, Life!vars
<1>1. CASE Probe BY <1>1 DEF Probe
<1>2. CASE ProbeFails BY <1>2 DEF ProbeFails
<1>3. CASE RequestMailbox BY <1>3 DEF RequestMailbox
<1>4. CASE Add BY <1>4 DEF Add, Life!Come
<1>5. CASE AddFails BY <1>5 DEF AddFails
<1>6. CASE ProbeDone BY <1>6 DEF ProbeDone
<1> QED BY <1>1, <1>2, <1>3, <1>4, <1>5, <1>6 DEF Probing

LEMMA RemovingLives == ASSUME IInv, IInv', Removing PROVE LifeStep
<1> USE DEF IInv, TypeOK, Steps, HeldUnlessRunning, core, mcu, LifeStep, Life!Next, Life!vars
<1>1. CASE Remove BY <1>1 DEF Remove
<1>2. CASE DeleteStops BY <1>2 DEF DeleteStops
<1>3. CASE Deleted BY <1>3 DEF Deleted, Life!Go
<1> QED BY <1>1, <1>2, <1>3 DEF Removing

LEMMA StartingLives == ASSUME IInv, IInv', Starting PROVE LifeStep
<1> USE DEF IInv, TypeOK, Steps, HeldUnlessRunning, core, mcu, SetEnabled,
            LifeStep, Life!Next, Life!vars
<1>1. CASE Boot BY <1>1 DEF Boot
<1>2. CASE ForceReset BY <1>2 DEF ForceReset
<1>3. CASE EnableClocks BY <1>3 DEF EnableClocks, Life!PowerOn
<1>4. CASE ClocksFail BY <1>4 DEF ClocksFail
<1>5. CASE DeassertResets
  <2>1. clocks > stranded /\ ~enabled /\ reset' = FALSE
    BY <1>5 DEF DeassertResets
  <2>2. UNCHANGED <<rproc, clocks, stranded, enabled, addr>>
    BY <1>5 DEF DeassertResets
  <2>3. Life!Deassert
    BY <2>1, <2>2 DEF Life!Deassert
  <2> QED BY <2>3
<1>6. CASE SetAddress BY <1>6 DEF SetAddress
<1>7. CASE StartFails BY <1>7 DEF StartFails, Life!PowerOff
<1>8. CASE Started BY <1>8 DEF Started, Life!Release
<1> QED BY <1>1, <1>2, <1>3, <1>4, <1>5, <1>6, <1>7, <1>8 DEF Starting

LEMMA StoppingLives == ASSUME IInv, IInv', Stopping PROVE LifeStep
<1> USE DEF IInv, TypeOK, Steps, HeldUnlessRunning, core, mcu, SetEnabled,
            LifeStep, Life!Next, Life!vars
<1>1. CASE Shutdown BY <1>1 DEF Shutdown
<1>2. CASE StopProcessor BY <1>2 DEF StopProcessor, Life!Hold
<1>3. CASE AssertResets
  <2>1. clocks > stranded /\ ~enabled /\ reset' = TRUE
    BY <1>3 DEF AssertResets
  <2>2. UNCHANGED <<rproc, clocks, stranded, enabled, addr>>
    BY <1>3 DEF AssertResets
  <2>3. Life!Assert
    BY <2>1, <2>2 DEF Life!Assert
  <2> QED BY <2>3
<1>4. CASE DisableClocks BY <1>4 DEF DisableClocks, Life!PowerOff
<1> QED BY <1>1, <1>2, <1>3, <1>4 DEF Stopping

\* Whatever fails, the driver powers, resets, releases and holds the processor
\* in the order ProcessorLife demands, and leaves it without power.
THEOREM LifeKeptHolds == Spec => LifeKept
<1>1. Init => Life!Init
  <2>1. Init => rproc = "none" /\ ~addr /\ clocks = 0 /\ stranded = 0 /\ reset \in BOOLEAN
    BY DEF Init
  <2> QED BY <2>1 DEF Life!Init
<1>2. IInv /\ IInv' /\ [Next]_vars => [Life!Next]_(Life!vars)
  <2>1. ASSUME UNCHANGED vars PROVE LifeStep
    BY <2>1 DEF vars, core, mcu, LifeStep, Life!vars
  <2> QED BY <2>1, ProbingLives, RemovingLives, StartingLives, StoppingLives DEF Next, LifeStep
<1> QED BY Invariance, <1>1, <1>2, PTL DEF Spec, LifeKept, Life!Spec
=============================================================================
