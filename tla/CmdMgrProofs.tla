---------------------------- MODULE CmdMgrProofs ----------------------------
(***************************************************************************)
(* What is proved of the command manager for every value of the constants: *)
(* the lock excludes, slots have one owner, the list is what queue_sz      *)
(* counts and success needs an answer, whatever goes wrong with the        *)
(* transmissions; and when every message goes through the queue, one       *)
(* command is with the firmware at a time until a transmission goes wrong, *)
(* which makes the manager an implementation of CmdService.                *)
(***************************************************************************)
EXTENDS CmdMgr, SequenceTheorems, FiniteSetTheorems, TLAPS

\* Where a thread is that transmits, and its steps there.
Transmitting == {"fill", "write", "send", "submit", "sending", "kill"}

Transmit(t) ==
    \/ Fill(t) \/ Write(t) \/ TxMsg(t) \/ Submit(t)
    \/ Sending(t) \/ TxTimedOut(t) \/ KillUrb(t)

\* The steps of the removal before it takes the lock.
Teardown == CancelUrbs \/ FreeBuffer \/ StopRx

\* A transmission goes on or ends; only a sender that finds the buffer freed
\* comes to harm.
LEMMA TransmitMoves ==
    ASSUME NEW t \in Senders, Transmit(t)
    PROVE  /\ pc[t] \in Transmitting
           /\ UNCHANGED <<mgr, cmd, flags, done, bus, rxmsg, slot, kind, confirmedBy>>
           /\ \/ AfterSending(t)
              \/ /\ \E l \in {"write", "send", "submit", "sending", "kill", "oops"} :
                       Goto(t, l) /\ (l = "oops" => cmd_buf = "NULL")
                 /\ UNCHANGED <<used, ret>>
<1> USE DEF Transmitting, link, bulk, pool, calls
<1>1. CASE Fill(t) \/ Sending(t)
  BY <1>1 DEF Fill, Sending
<1>2. CASE Write(t)
  <2>1. PICK l \in {"send", "oops"} : Goto(t, l) /\ (l = "oops" => cmd_buf = "NULL")
    BY <1>2 DEF Write, Goto
  <2>2. QED
    BY <1>2, <2>1 DEF Write
<1>3. CASE TxMsg(t) \/ TxTimedOut(t)
  BY <1>3 DEF TxMsg, TxTimedOut, Eio
<1>4. CASE Submit(t) \/ KillUrb(t)
  BY <1>4 DEF Submit, KillUrb, Eio
<1>5. QED
  BY <1>1, <1>2, <1>3, <1>4 DEF Transmit

\* Nothing but the transfer changes when the controller gives the URB back, and
\* nothing but the transfer and the place of the remover in its first steps.
LEMMA TransferOnly ==
    ASSUME Transferred
    PROVE  UNCHANGED <<mgr, pool, bus, cmd_buf, rxmsg, pc, calls>>
BY DEF Transferred

LEMMA TeardownMoves ==
    ASSUME Teardown
    PROVE  /\ pc[Remover] \in {"cancel", "free", "stopRx"}
           /\ \E l \in {"free", "stopRx", "drainLock"} : Goto(Remover, l)
           /\ UNCHANGED <<mgr, pool, bus, rxmsg, calls>>
BY DEF Teardown, CancelUrbs, FreeBuffer, StopRx, link

\* MutualExclusion made inductive: the ticket that is passed over and the
\* unlock without the lock come only after a timeout.
LockInv ==
    /\ pc \in [Threads -> Loc]
    /\ Working =>
        /\ \A t \in Threads : pc[t] \in Critical => lock = t
        /\ \A c \in Calls : pc[c] # "unheld"
        /\ lock \in Threads \cup {None}

LEMMA InitLock == Init => LockInv
BY DEF Init, LockInv, Loc, Critical, Working, Threads

\* A body that unlocks: it may run only when its thread holds the lock.
LEMMA UnlockStep ==
    ASSUME LockInv, NEW t \in Threads, NEW l \in Loc \ Critical, l # "unheld",
           Working' => Working, Working => pc[t] \in Critical,
           Unlock, Goto(t, l)
    PROVE  LockInv'
BY ThreadsAssumption DEF LockInv, Unlock, Goto, Working, Threads

\* A step outside the lock.
LEMMA FreeStep ==
    ASSUME LockInv, NEW t \in Threads, NEW l \in Loc \ Critical,
           l = "unheld" => ~Working, UNCHANGED <<state, lock>>, Goto(t, l)
    PROVE  LockInv'
BY DEF LockInv, Goto, Working, Threads

LEMMA StepLock == LockInv /\ [Next]_vars => LockInv'
<1> SUFFICES ASSUME LockInv, [Next]_vars
             PROVE  LockInv'
  OBVIOUS
<1> USE DEF Loc, Locking, Critical, Threads, Senders
<1>1. ASSUME NEW t \in Threads, Acquire(t)
      PROVE  LockInv'
  <2>1. CASE lock = None /\ lock' = t /\ Goto(t, Entered(pc[t]))
    <3>1. Entered(pc[t]) \in Critical
      BY <1>1 DEF Acquire, Entered
    <3>2. Working => \A u \in Threads : pc[u] \notin Critical
      BY <2>1, ThreadsAssumption DEF LockInv
    <3>3. QED
      BY <1>1, <2>1, <3>1, <3>2 DEF Acquire, Goto, LockInv, Working
  <2>2. CASE lock = "lost" /\ lock' = None /\ Goto(t, "hung")
    <3>1. ~Working
      BY <2>2, ThreadsAssumption DEF LockInv
    <3>2. QED
      BY <1>1, <2>2, <3>1 DEF Acquire, Goto, LockInv, Working
  <2>3. QED
    BY <1>1, <2>1, <2>2 DEF Acquire
<1>2. ASSUME NEW c \in Calls, CallStep(c) \/ Start(c) \/ Killed(c)
      PROVE  LockInv'
  <2>1. CASE Spin(c) \/ Wake(c) \/ Rewake(c) \/ Start(c) \/ Killed(c)
    <3>1. PICK l \in Loc \ Critical :
            /\ Goto(c, l) /\ UNCHANGED <<state, lock>>
            /\ l = "unheld" => ~Working
      <4>1. CASE Spin(c)
        <5>1. PICK l \in {"unheld", "spinLock"} :
                /\ Goto(c, l) /\ (l = "unheld" => ~Working)
          BY <4>1 DEF Spin, Working
        <5>2. QED
          BY <4>1, <5>1 DEF Spin, mgr
      <4>2. CASE Wake(c) \/ Rewake(c)
        BY <4>2 DEF Wake, Rewake, Return
      <4>3. CASE Killed(c)
        BY <4>3 DEF Killed, mgr
      <4>4. CASE Start(c)
        <5>1. PICK l \in {"returned", "fill", "spin", "enqLock", "oops"} : Goto(c, l)
          BY <4>4 DEF Start, Return
        <5>2. QED
          BY <4>4, <5>1 DEF Start, mgr
      <4>5. QED
        BY <2>1, <4>1, <4>2, <4>3, <4>4
    <3>2. QED
      BY <3>1, FreeStep
  <2>2. CASE SpinAgain(c) \/ Refuse(c)
    <3>1. PICK l \in Loc \ Critical :
            /\ Goto(c, l) /\ Unlock /\ state' = state /\ pc[c] \in Critical
            /\ l # "unheld"
      BY <2>2 DEF SpinAgain, Refuse, AtEnqueue, Return
    <3>2. QED
      BY <3>1, UnlockStep DEF Working
  <2>3. CASE Enqueue(c)
    <3>1. PICK l \in Loc \ Critical :
            /\ Goto(c, l) /\ Unlock /\ state' = state /\ pc[c] \in Critical
            /\ l # "unheld"
      BY <2>3 DEF Enqueue, AtEnqueue
    <3>2. QED
      BY <3>1, UnlockStep DEF Working
  <2>4. CASE UnlockUnheld(c)
    <3>1. ~Working /\ ~Working'
      BY <2>4 DEF UnlockUnheld, LockInv, Working
    <3>2. QED
      BY <2>4, <3>1 DEF UnlockUnheld, LockInv, Return, Goto
  <2>5. QED
    BY <1>2, <2>1, <2>2, <2>3, <2>4 DEF CallStep
<1>3. ASSUME NEW t \in Senders, SenderStep(t)
      PROVE  LockInv'
  <2>1. CASE Transmit(t) \/ Completed(t) \/ TimedOut(t)
    <3>1. PICK l \in {"write", "send", "submit", "sending", "kill", "oops", "wait",
                      "returned", "delLock", "crashLock"} :
            Goto(t, l) /\ UNCHANGED <<state, lock>>
      <4>1. CASE Transmit(t)
        BY <4>1, TransmitMoves DEF AfterSending, Return, mgr
      <4>2. CASE Completed(t) \/ TimedOut(t)
        BY <4>2 DEF Completed, TimedOut, mgr
      <4>3. QED
        BY <2>1, <4>1, <4>2
    <3>2. QED
      BY <3>1, FreeStep
  <2>2. CASE Delete(t)
    <3>1. CASE Unlock /\ Goto(t, IF t = Worker THEN "lookLock" ELSE "rewake")
      BY <2>2, <3>1, UnlockStep DEF Delete, Working
    <3>2. CASE Goto(t, "oops") /\ lock' = lock
      BY <2>2, <3>2, FreeStep DEF Delete
    <3>3. QED
      BY <2>2, <3>1, <3>2 DEF Delete
  <2>3. CASE Crash(t)
    <3>1. PICK l \in Loc \ Critical :
            /\ Goto(t, l) /\ Unlock /\ pc[t] \in Critical
            /\ ~Working' /\ l # "unheld"
      BY <2>3 DEF Crash, Return, Working
    <3>2. QED
      BY <3>1, UnlockStep
  <2>4. QED
    BY <1>3, <2>1, <2>2, <2>3 DEF SenderStep, Transmit
<1>4. ASSUME WorkerStep \/ RxStep
      PROVE  LockInv'
  <2>1. CASE StartWork \/ Clear
    BY <2>1, FreeStep DEF StartWork, Clear, mgr
  <2>2. CASE Look
    <3>1. PICK l \in {"clear", "idle"} : Goto(Worker, l)
      BY <2>2 DEF Look
    <3>2. QED
      BY <2>2, <3>1, UnlockStep DEF Look, Working
  <2>3. CASE Confirm
    BY <2>3, FreeStep DEF Confirm, mgr
  <2>4. CASE Indicate
    BY <2>4, UnlockStep DEF Indicate, Working
  <2>5. QED
    BY <1>4, <2>1, <2>2, <2>3, <2>4 DEF WorkerStep, RxStep
<1>5. ASSUME RemoverStep \/ Stop \/ Transferred
      PROVE  LockInv'
  <2>1. CASE Drain
    BY <2>1, UnlockStep DEF Drain, Working
  <2>2. CASE Flush
    BY <2>2 DEF Flush, LockInv, Working, Goto
  <2>3. CASE Stop
    BY <2>3, FreeStep DEF Stop, mgr
  <2>4. CASE Teardown
    <3>1. PICK l \in {"free", "stopRx", "drainLock"} :
            Goto(Remover, l) /\ UNCHANGED <<state, lock>>
      BY <2>4, TeardownMoves DEF mgr
    <3>2. QED
      BY <3>1, FreeStep
  <2>5. CASE Transferred
    BY <2>5, TransferOnly DEF mgr, LockInv, Working
  <2>6. QED
    BY <1>5, <2>1, <2>2, <2>3, <2>4, <2>5 DEF RemoverStep, Teardown
<1>6. CASE UNCHANGED vars
  BY <1>6 DEF vars, mgr, LockInv, Working
<1>7. QED
  BY <1>1, <1>2, <1>3, <1>4, <1>5, <1>6 DEF Next, Step

\* Until a command times out, the lock of the manager excludes: every thread
\* between its spin_lock_bh and its spin_unlock_bh (rwnx_cmds.c) holds it.
THEOREM MutualExclusionHolds == Spec => []MutualExclusion
<1>1. LockInv => MutualExclusion
  BY DEF LockInv, MutualExclusion
<1>2. QED
  BY InitLock, StepLock, <1>1, PTL DEF Spec

-----------------------------------------------------------------------------
\* TypeOK made inductive: the size counts at least what is on the list, the
\* slots in use are filled, and whoever hands over or handles a message has one.
TypeInv ==
    /\ TypeOK
    /\ queue_sz >= Len(cmds)
    /\ \A i \in 1..Len(cmds) : cmd[cmds[i]] \in Calls
    /\ \A t \in Senders : AtWork(t) => slot[t] \in Slots /\ cmd[slot[t]] \in Calls
    /\ pc[Rx] \in {"indLock", "indicate"} => rxmsg \in Calls

\* list_del takes one command off the list and keeps the others in order.
LEMMA RemoveAtProperties ==
    ASSUME NEW S, NEW s \in Seq(S), NEW i \in 1..Len(s)
    PROVE  /\ RemoveAt(s, i) \in Seq(S)
           /\ Len(RemoveAt(s, i)) = Len(s) - 1
           /\ \A j \in 1..(Len(s) - 1) :
                 RemoveAt(s, i)[j] = s[IF j < i THEN j ELSE j + 1]
<1> DEFINE a == SubSeq(s, 1, i - 1)
           b == SubSeq(s, i + 1, Len(s))
<1> HIDE DEF a, b
<1>1. Len(s) \in Nat /\ \A j \in 1..Len(s) : s[j] \in S
  OBVIOUS
<1>2. a \in Seq(S) /\ Len(a) = i - 1 /\ \A j \in 1..(i - 1) : a[j] = s[j]
  <2>1. 1 \in Int /\ i - 1 \in Int /\ \A j \in 1..(i - 1) : s[j] \in S
    BY <1>1
  <2>2. QED
    BY <2>1, SubSeqProperties DEF a
<1>3. /\ b \in Seq(S) /\ Len(b) = Len(s) - i
      /\ \A j \in 1..(Len(s) - i) : b[j] = s[i + j]
  <2>1. i + 1 \in Int /\ Len(s) \in Int /\ \A j \in (i + 1)..Len(s) : s[j] \in S
    BY <1>1
  <2>2. /\ b \in Seq(S)
        /\ Len(b) = IF i + 1 <= Len(s) THEN Len(s) - (i + 1) + 1 ELSE 0
        /\ \A j \in 1..(Len(s) - (i + 1) + 1) : b[j] = s[i + 1 + j - 1]
    BY <2>1, SubSeqProperties DEF b
  <2>3. Len(s) - (i + 1) + 1 = Len(s) - i
    BY <1>1
  <2>4. ASSUME NEW j \in 1..(Len(s) - i)
        PROVE  b[j] = s[i + j]
    <3>0. j \in 1..(Len(s) - (i + 1) + 1)
      BY <2>3
    <3>1. b[j] = s[i + 1 + j - 1]
      BY <2>2, <3>0
    <3>2. i + 1 + j - 1 = i + j
      BY <1>1
    <3>3. QED
      BY <3>1, <3>2
  <2>5. Len(b) = Len(s) - i
    BY <1>1, <2>2
  <2>6. QED
    BY <2>2, <2>4, <2>5
<1>4. /\ a \o b \in Seq(S) /\ Len(a \o b) = Len(s) - 1
      /\ \A j \in 1..(Len(s) - 1) :
            (a \o b)[j] = IF j <= i - 1 THEN a[j] ELSE b[j - (i - 1)]
  <2>1. /\ a \o b \in Seq(S) /\ Len(a \o b) = Len(a) + Len(b)
        /\ \A j \in 1..(Len(a) + Len(b)) :
              (a \o b)[j] = IF j <= Len(a) THEN a[j] ELSE b[j - Len(a)]
    BY <1>2, <1>3, ConcatProperties
  <2>2. Len(a) + Len(b) = Len(s) - 1
    BY <1>1, <1>2, <1>3
  <2>3. QED
    BY <1>2, <2>1, <2>2
<1>5. RemoveAt(s, i) = a \o b
  BY DEF RemoveAt, a, b
<1>6. ASSUME NEW j \in 1..(Len(s) - 1)
      PROVE  (a \o b)[j] = s[IF j < i THEN j ELSE j + 1]
  <2>1. CASE j < i
    BY <1>1, <1>2, <1>4, <2>1
  <2>2. CASE ~(j < i)
    <3>1. j - (i - 1) \in 1..(Len(s) - i) /\ i + (j - (i - 1)) = j + 1
      BY <1>1, <2>2
    <3>2. (a \o b)[j] = b[j - (i - 1)]
      BY <1>1, <1>4, <2>2
    <3>3. QED
      BY <1>3, <2>2, <3>1, <3>2
  <2>3. QED
    BY <2>1, <2>2
<1>7. QED
  BY <1>4, <1>5, <1>6

LEMMA InitType == Init => TypeInv
<1> SUFFICES ASSUME Init
             PROVE  TypeInv
  OBVIOUS
<1> USE DEF Init, Threads, Senders
<1>1. TypeOK
  <2>1. cmds \in Seq(Slots) /\ fw \in Seq(Calls) /\ queue_sz \in Nat
    OBVIOUS
  <2>2. pc \in [Threads -> Loc]
    BY DEF Loc
  <2>3. QED
    BY <2>1, <2>2 DEF TypeOK
<1>2. \A t \in Senders : pc[t] = "idle"
  OBVIOUS
<1>3. QED
  BY <1>1, <1>2, ThreadsAssumption DEF TypeInv, AtWork

\* A step that changes neither the list, what the slots hold nor the message
\* in the buffers, and moves one thread, keeps the unprimed parts of TypeInv.
LEMMA MoveOnly ==
    ASSUME TypeInv, TypeOK', NEW t \in Threads, NEW l \in Loc, Goto(t, l),
           UNCHANGED <<cmds, queue_sz, cmd, slot, rxmsg>>,
           t \in Senders /\ AtWork(t)' => AtWork(t),
           l \in {"indLock", "indicate"} => pc[t] \in {"indLock", "indicate"}
    PROVE  TypeInv'
BY ThreadsAssumption DEF TypeInv, AtWork, Goto, Threads, Senders, TypeOK

\* What arrives at the firmware is a message of some call.
LEMMA ArrivesSeq ==
    ASSUME TypeOK, Arrives
    PROVE  fw' \in Seq(Calls)
<1>1. PICK m : fw' = fw \/ (m \in Calls /\ fw' = Append(fw, m))
  BY DEF Arrives
<1>2. fw \in Seq(Calls)
  BY DEF TypeOK
<1>3. QED
  BY <1>1, <1>2, AppendProperties

LEMMA StepType == TypeInv /\ [Next]_vars => TypeInv'
<1> SUFFICES ASSUME TypeInv, [Next]_vars
             PROVE  TypeInv'
  OBVIOUS
<1> USE ThreadsAssumption DEF mgr, pool, link, bulk, calls, Threads, Senders
<1>1. ASSUME NEW t \in Threads, Acquire(t)
      PROVE  TypeInv'
  <2>1. PICK l \in Critical \cup {"hung"} :
          /\ Goto(t, l) /\ lock' \in {t, None}
          /\ l \in {"check", "enqueue", "delete", "crash"} => AtWork(t)
          /\ l = "indicate" => pc[t] = "indLock"
    BY <1>1 DEF Acquire, Entered, Locking, Critical, AtWork
  <2>2. TypeOK'
    BY <1>1, <2>1 DEF Acquire, TypeInv, TypeOK, Goto, Loc
  <2>3. QED
    BY <1>1, <2>1, <2>2, MoveOnly DEF Acquire, AtWork, Goto, Loc, Critical, TypeInv, TypeOK
<1>2. ASSUME NEW c \in Calls, Start(c)
      PROVE  TypeInv'
  <2>1. CASE \E l \in {"returned", "oops"} : Goto(c, l) /\ UNCHANGED <<pool, slot>>
    <3>1. PICK l \in {"returned", "oops"} : Goto(c, l) /\ UNCHANGED <<pool, slot>>
      BY <2>1
    <3>2. TypeOK'
      BY <1>2, <3>1 DEF Start, Return, TypeInv, TypeOK, Goto, Loc
    <3>3. QED
      BY <1>2, <3>1, <3>2, MoveOnly DEF Start, AtWork, Goto, Loc, TypeInv, TypeOK
  <2>2. CASE \E s \in Free : /\ used' = [used EXCEPT ![s] = TRUE]
                             /\ cmd' = [cmd EXCEPT ![s] = c]
                             /\ slot' = [slot EXCEPT ![c] = s]
                             /\ UNCHANGED <<flags, done, ret>>
    <3>1. PICK s \in Free : /\ used' = [used EXCEPT ![s] = TRUE]
                             /\ cmd' = [cmd EXCEPT ![s] = c]
                             /\ slot' = [slot EXCEPT ![c] = s]
                             /\ UNCHANGED <<flags, done, ret>>
      BY <2>2
    <3> s \in Slots /\ ~used[s] /\ used'[s]
      BY <3>1 DEF Free, TypeInv, TypeOK
    <3>2. PICK l \in {"fill", "spin", "enqLock"} : Goto(c, l)
      BY <1>2, <3>1 DEF Start
    <3>3. TypeOK'
      BY <1>2, <3>1, <3>2 DEF Start, TypeInv, TypeOK, Goto, Loc, Locking
    <3>4. UNCHANGED <<cmds, queue_sz, rxmsg>>
      BY <1>2 DEF Start
    <3>5. cmd'[s] = c /\ \A u \in Slots : cmd[u] \in Calls => cmd'[u] \in Calls
      BY <3>1 DEF TypeInv, TypeOK
    <3>6. \A i \in 1..Len(cmds') : cmd'[cmds'[i]] \in Calls
      BY <3>4, <3>5 DEF TypeInv, TypeOK
    <3>7. ASSUME NEW t \in Senders, AtWork(t)'
          PROVE  slot'[t] \in Slots /\ cmd'[slot'[t]] \in Calls
      <4>1. CASE t = c
        BY <3>1, <3>5, <4>1 DEF TypeInv, TypeOK
      <4>2. CASE t # c
        <5>1. pc'[t] = pc[t] /\ slot'[t] = slot[t]
          BY <3>1, <3>2, <4>2 DEF Goto, TypeInv, TypeOK
        <5>2. AtWork(t)
          BY <3>7, <5>1 DEF AtWork
        <5>3. QED
          BY <3>5, <5>1, <5>2 DEF TypeInv
      <4>3. QED
        BY <4>1, <4>2
    <3>8. pc'[Rx] \in {"indLock", "indicate"} => rxmsg' \in Calls
      BY <3>2, <3>4 DEF Goto, TypeInv, TypeOK
    <3>9. QED
      BY <3>3, <3>4, <3>6, <3>7, <3>8 DEF TypeInv
  <2>3. QED
    BY <1>2, <2>1, <2>2 DEF Start, Return
<1>3. ASSUME NEW c \in Calls, Spin(c) \/ SpinAgain(c) \/ Wake(c) \/ Rewake(c) \/ Killed(c)
             \/ UnlockUnheld(c) \/ Refuse(c)
      PROVE  TypeInv'
  <2>1. PICK l \in {"unheld", "spinLock", "spin", "returned", "delLock"} :
          /\ Goto(c, l)
          /\ l # "returned" => AtWork(c)
    BY <1>3 DEF Spin, SpinAgain, Wake, Rewake, Killed, UnlockUnheld, Refuse,
                Return, AtWork
  <2>2. TypeOK'
    <3>1. pc' \in [Threads -> Loc]
      BY <2>1 DEF Goto, Loc, Locking, TypeInv, TypeOK
    <3>2. ret' \in [Calls -> {"none", "0", "EPIPE", "ENOMEM", "ETIMEDOUT"}]
      BY <1>3 DEF Spin, SpinAgain, Wake, Rewake, Killed, UnlockUnheld, Refuse,
         Return, TypeInv, TypeOK
    <3>3. used' \in [Slots -> BOOLEAN]
      BY <1>3 DEF Spin, SpinAgain, Wake, Rewake, Killed, UnlockUnheld, Refuse,
         FreeSlot, TypeInv, TypeOK
    <3>4. lock' \in Threads \cup {None, "lost"} /\ work' \in BOOLEAN
      BY <1>3 DEF Spin, SpinAgain, Wake, Rewake, Killed, UnlockUnheld, Refuse,
         Unlock, TypeInv, TypeOK
    <3>5. UNCHANGED <<state, cmds, queue_sz, cmd, flags, done, link, again, slot,
                      kind, confirmedBy>>
      BY <1>3 DEF Spin, SpinAgain, Wake, Rewake, Killed, UnlockUnheld, Refuse
    <3>6. QED
      BY <3>1, <3>2, <3>3, <3>4, <3>5 DEF TypeInv, TypeOK
  <2>3. UNCHANGED <<cmds, queue_sz, cmd, slot, rxmsg>>
    BY <1>3 DEF Spin, SpinAgain, Wake, Rewake, Killed, UnlockUnheld, Refuse
  <2>4. QED
    BY <2>1, <2>2, <2>3, MoveOnly DEF AtWork, Goto, Loc, Locking, TypeInv, TypeOK
<1>4. ASSUME NEW c \in Calls, Enqueue(c)
      PROVE  TypeInv'
  <2>1. PICK l \in {"wake", "fill"} : Goto(c, l)
    BY <1>4 DEF Enqueue
  <2>2. slot[c] \in Slots /\ cmd[slot[c]] \in Calls
    BY <1>4 DEF Enqueue, AtEnqueue, AtWork, TypeInv
  <2>3. /\ cmds' \in Seq(Slots) /\ Len(cmds') = Len(cmds) + 1
        /\ \A i \in 1..Len(cmds) : cmds'[i] = cmds[i]
        /\ cmds'[Len(cmds) + 1] = slot[c]
    <3>1. cmds' = Append(cmds, slot[c]) /\ cmds \in Seq(Slots)
      BY <1>4 DEF Enqueue, TypeInv, TypeOK
    <3>2. QED
      BY <2>2, <3>1, AppendProperties
  <2>4. \A i \in 1..Len(cmds') : cmd[cmds'[i]] \in Calls
    <3>1. Len(cmds) \in Nat /\ \A i \in 1..Len(cmds) : cmd[cmds[i]] \in Calls
      BY DEF TypeInv, TypeOK
    <3>2. \A i \in 1..Len(cmds') : i \in 1..Len(cmds) \/ i = Len(cmds) + 1
      BY <2>3, <3>1
    <3>3. QED
      BY <2>2, <2>3, <3>1, <3>2
  <2>5. TypeOK'
    BY <1>4, <2>1, <2>2, <2>3
       DEF Enqueue, Unlock, TypeInv, TypeOK, Goto, Loc, Flags
  <2>6. QED
    BY <1>4, <2>1, <2>2, <2>3, <2>4, <2>5
       DEF Enqueue, AtEnqueue, TypeInv, TypeOK, Goto, AtWork
<1>5. ASSUME NEW t \in Senders, Transmit(t)
      PROVE  TypeInv'
  <2>1. pc[t] \in Transmitting
        /\ UNCHANGED <<mgr, cmd, flags, done, bus, rxmsg, slot, kind, confirmedBy>>
    BY <1>5, TransmitMoves
  <2>2. AtWork(t) /\ slot[t] \in Slots /\ cmd[slot[t]] \in Calls
    BY <2>1 DEF AtWork, Transmitting, TypeInv
  <2>3. PICK l \in {"write", "send", "submit", "sending", "kill", "oops", "wait",
                    "returned"} : Goto(t, l)
    BY <1>5, TransmitMoves DEF AfterSending, Return
  <2>4. /\ ret' \in [Calls -> {"none", "0", "EPIPE", "ENOMEM", "ETIMEDOUT"}]
        /\ used' \in [Slots -> BOOLEAN]
    BY <1>5, TransmitMoves DEF AfterSending, Sent, FreeSlot, Return, TypeInv, TypeOK
  <2>5. again' \subseteq Senders
    BY <1>5 DEF Transmit, Fill, Write, TxMsg, Submit, Sending, TxTimedOut, KillUrb, Eio,
       AfterSending, TypeInv, TypeOK
  <2>6. fw' \in Seq(Calls)
    BY <1>5, ArrivesSeq DEF Transmit, Fill, Write, TxMsg, Submit, Sending, TxTimedOut,
       KillUrb, Cancelled, TypeInv, TypeOK
  <2>7. /\ cmd_buf' \in Calls \cup {None, "NULL"} /\ urb' \in Calls \cup {None, "NULL"}
        /\ finished' \in BOOLEAN /\ failed' \in BOOLEAN
    BY <1>5, <2>2 DEF Transmit, Fill, Write, TxMsg, Submit, Sending, TxTimedOut, KillUrb,
       Cancelled, TypeInv, TypeOK
  <2>8. pc' \in [Threads -> Loc]
    BY <2>3 DEF Goto, Loc, TypeInv, TypeOK
  <2>9. TypeOK'
    BY <2>1, <2>4, <2>5, <2>6, <2>7, <2>8 DEF TypeInv, TypeOK
  <2>10. QED
    BY <2>1, <2>2, <2>3, <2>9, MoveOnly DEF Loc, TypeInv, TypeOK
<1>6. ASSUME Transferred
      PROVE  TypeInv'
  <2>1. fw' \in Seq(Calls)
    BY <1>6, ArrivesSeq DEF Transferred, TypeInv, TypeOK
  <2>2. TypeOK'
    BY <1>6, <2>1 DEF Transferred, TypeInv, TypeOK
  <2>3. QED
    BY <1>6, <2>2 DEF Transferred, TypeInv, AtWork
<1>7. ASSUME NEW t \in Senders, Completed(t) \/ TimedOut(t) \/ Crash(t)
      PROVE  TypeInv'
  <2>1. PICK l \in {"returned", "delLock", "crashLock", "lookLock"} : Goto(t, l)
    BY <1>7 DEF Completed, TimedOut, Crash, Return
  <2>2. AtWork(t) /\ slot[t] \in Slots
    BY <1>7 DEF Completed, TimedOut, Crash, AtWork, TypeInv
  <2>3. flags' \in [Slots -> SUBSET Flags] /\ done' \in [Slots -> Nat]
    <3>1. CASE UNCHANGED <<flags, done>>
      BY <3>1 DEF TypeInv, TypeOK
    <3>2. CASE Completed(t)
      <4>1. done[slot[t]] \in Nat /\ done[slot[t]] > 0 /\ flags' = flags
            /\ done' = [done EXCEPT ![slot[t]] = @ - 1]
        BY <2>2, <3>2 DEF Completed, TypeInv, TypeOK
      <4>2. done[slot[t]] - 1 \in Nat
        BY <4>1
      <4>3. QED
        BY <4>1, <4>2 DEF TypeInv, TypeOK
    <3>3. CASE CmdComplete(slot[t], flags[slot[t]])
      <4>1. flags' \in [Slots -> SUBSET Flags]
        BY <2>2, <3>3 DEF CmdComplete, TypeInv, TypeOK, Flags
      <4>2. done' \in [Slots -> Nat]
        BY <2>2, <3>3 DEF CmdComplete, TypeInv, TypeOK
      <4>3. QED
        BY <4>1, <4>2
    <3>4. QED
      BY <1>7, <3>1, <3>2, <3>3 DEF TimedOut, Crash
  <2>4. TypeOK'
    <3>1. pc' \in [Threads -> Loc]
      BY <2>1 DEF Goto, Loc, Locking, TypeInv, TypeOK
    <3>2. ret' \in [Calls -> {"none", "0", "EPIPE", "ENOMEM", "ETIMEDOUT"}]
      BY <1>7 DEF Completed, TimedOut, Crash, Return, calls, TypeInv, TypeOK
    <3>3. used' \in [Slots -> BOOLEAN]
      BY <1>7 DEF Completed, TimedOut, Crash, FreeSlot, pool, TypeInv, TypeOK
    <3>4. state' \in {state, "CRASHED"}
      BY <1>7 DEF Completed, TimedOut, Crash, mgr
    <3>5. lock' = lock \/ Unlock
      BY <1>7 DEF Completed, TimedOut, Crash, mgr
    <3>6. UNCHANGED <<cmds, queue_sz, work, cmd, link, again, slot, kind,
                      confirmedBy>>
      BY <1>7 DEF Completed, TimedOut, Crash, mgr, pool, link, calls
    <3>7. QED
      BY <2>3, <3>1, <3>2, <3>3, <3>4, <3>5, <3>6 DEF Unlock, TypeInv, TypeOK
  <2>5. UNCHANGED <<cmds, queue_sz, cmd, slot, rxmsg>>
    BY <1>7 DEF Completed, TimedOut, Crash
  <2>6. QED
    BY <2>1, <2>2, <2>4, <2>5, MoveOnly DEF Loc, Locking, TypeInv, TypeOK
<1>8. ASSUME NEW t \in Senders, Delete(t)
      PROVE  TypeInv'
  <2>1. CASE Goto(t, "oops") /\ UNCHANGED <<lock, cmds, queue_sz, used>>
    <3>1. TypeOK'
      BY <1>8, <2>1 DEF Delete, TypeInv, TypeOK, Goto, Loc
    <3>2. QED
      BY <1>8, <2>1, <3>1, MoveOnly DEF Delete, Loc, AtWork, Goto, TypeInv, TypeOK
  <2>2. CASE /\ \E i \in 1..Len(cmds) : cmds' = RemoveAt(cmds, i)
             /\ queue_sz' = Uncount /\ Unlock /\ FreeSlot(slot[t])
             /\ Goto(t, IF t = Worker THEN "lookLock" ELSE "rewake")
    <3>1. PICK i \in 1..Len(cmds) : cmds' = RemoveAt(cmds, i)
      BY <2>2
    <3>2. cmds \in Seq(Slots) /\ Len(cmds) \in Nat
      BY DEF TypeInv, TypeOK
    <3>3. /\ cmds' \in Seq(Slots) /\ Len(cmds') = Len(cmds) - 1
          /\ \A j \in 1..(Len(cmds) - 1) : cmds'[j] = cmds[IF j < i THEN j ELSE j + 1]
      BY <3>1, <3>2, RemoveAtProperties
    <3>4. queue_sz' \in Nat /\ queue_sz' >= Len(cmds')
      BY <2>2, <3>2, <3>3 DEF Uncount, TypeInv, TypeOK
    <3>5. cmd' = cmd
      BY <1>8 DEF Delete
    <3>6. \A j \in 1..Len(cmds') : cmd'[cmds'[j]] \in Calls
      BY <3>2, <3>3, <3>5 DEF TypeInv
    <3>7. TypeOK'
      <4>1. pc' \in [Threads -> Loc]
        BY <2>2 DEF Goto, Loc, Locking, TypeInv, TypeOK
      <4>2. used' \in [Slots -> BOOLEAN]
        BY <2>2 DEF FreeSlot, TypeInv, TypeOK
      <4>3. lock' \in Threads \cup {None, "lost"}
        BY <2>2 DEF Unlock
      <4>4. QED
        BY <1>8, <3>3, <3>4, <4>1, <4>2, <4>3 DEF Delete, TypeInv, TypeOK
    <3>8. UNCHANGED <<cmd, slot, rxmsg>>
      BY <1>8 DEF Delete
    <3>9. /\ \A u \in Senders : AtWork(u)' => AtWork(u)
          /\ pc'[Rx] = pc[Rx]
      BY <2>2 DEF Goto, AtWork, TypeInv, TypeOK
    <3>10. QED
      BY <3>4, <3>6, <3>7, <3>8, <3>9 DEF TypeInv
  <2>3. QED
    BY <1>8, <2>1, <2>2 DEF Delete
<1>9. ASSUME WorkerStep
      PROVE  TypeInv'
  <2>1. CASE StartWork \/ Clear
    <3>1. PICK l \in {"lookLock", "fill"} : Goto(Worker, l) /\ (l = "fill" => AtWork(Worker))
      BY <2>1 DEF StartWork, Clear, AtWork
    <3>2. TypeOK'
      <4>0. pc' \in [Threads -> Loc]
        BY <3>1 DEF Goto, Loc, Locking, TypeInv, TypeOK
      <4>1. CASE StartWork
        <5>1. /\ UNCHANGED <<state, lock, cmds, queue_sz>> /\ work' \in BOOLEAN
              /\ UNCHANGED <<used, cmd, flags, done>>
              /\ UNCHANGED <<bus, cmd_buf, urb, finished, failed, fw, rxmsg>>
              /\ UNCHANGED <<again, slot, kind, ret, confirmedBy>>
          BY <4>1 DEF StartWork
        <5>2. TypeOK
          BY DEF TypeInv
        <5>3. QED
          BY <4>0, <5>1, <5>2 DEF TypeOK
      <4>2. CASE Clear
        <5>1. slot[Worker] \in Slots
          BY <4>2 DEF Clear, AtWork, TypeInv
        <5>2. flags' \in [Slots -> SUBSET Flags]
          BY <4>2, <5>1 DEF Clear, TypeInv, TypeOK
        <5>3. QED
          BY <4>0, <4>2, <5>2 DEF Clear, TypeInv, TypeOK
      <4>3. QED
        BY <2>1, <4>1, <4>2
    <3>3. QED
      BY <2>1, <3>1, <3>2, MoveOnly DEF StartWork, Clear, Loc, Locking, AtWork, Goto,
         TypeInv, TypeOK
  <2>2. CASE Look /\ Goto(Worker, "idle") /\ slot' = slot
    <3>1. TypeOK'
      BY <2>2 DEF Look, Unlock, TypeInv, TypeOK, Goto, Loc
    <3>2. QED
      BY <2>2, <3>1, MoveOnly DEF Look, Loc, AtWork, Goto, TypeInv, TypeOK
  <2>3. CASE Look /\ cmds # <<>> /\ slot' = [slot EXCEPT ![Worker] = Head(cmds)]
             /\ Goto(Worker, "clear")
    <3>1. Head(cmds) = cmds[1] /\ 1 \in 1..Len(cmds) /\ Head(cmds) \in Slots
      BY <2>3 DEF TypeInv, TypeOK
    <3>2. Head(cmds) \in Slots /\ cmd[Head(cmds)] \in Calls
      BY <3>1 DEF TypeInv
    <3>3. TypeOK'
      BY <2>3, <3>1 DEF Look, Unlock, TypeInv, TypeOK, Goto, Loc
    <3>4. QED
      BY <2>3, <3>2, <3>3 DEF Look, TypeInv, TypeOK, Goto, AtWork
  <2>4. QED
    BY <1>9, <2>1, <2>2, <2>3 DEF WorkerStep, Look
<1>10. ASSUME RxStep
      PROVE  TypeInv'
  <2>1. CASE Confirm
    <3>1. rxmsg' \in Calls /\ fw' \in Seq(Calls)
      BY <2>1, HeadTailProperties DEF Confirm, TypeInv, TypeOK
    <3>2. TypeOK'
      BY <2>1, <3>1 DEF Confirm, TypeInv, TypeOK, Goto, Loc, Locking
    <3>3. QED
      BY <2>1, <3>1, <3>2 DEF Confirm, TypeInv, TypeOK, Goto, AtWork
  <2>2. CASE Indicate
    <3>1. CASE UNCHANGED <<flags, done, confirmedBy>>
      <4>1. TypeOK'
        BY <2>2, <3>1 DEF Indicate, Unlock, TypeInv, TypeOK, Goto, Loc
      <4>2. QED
        BY <2>2, <3>1, <4>1 DEF Indicate, TypeInv, TypeOK, Goto, AtWork
    <3>2. CASE \E i \in 1..Len(cmds) :
                 /\ CmdComplete(cmds[i], flags[cmds[i]] \ {"WAIT_CFM"})
                 /\ confirmedBy' = [confirmedBy EXCEPT ![cmd[cmds[i]]] = rxmsg]
      <4>1. PICK i \in 1..Len(cmds) :
                 /\ CmdComplete(cmds[i], flags[cmds[i]] \ {"WAIT_CFM"})
                 /\ confirmedBy' = [confirmedBy EXCEPT ![cmd[cmds[i]]] = rxmsg]
        BY <3>2
      <4>2. cmds[i] \in Slots /\ cmd[cmds[i]] \in Calls
        BY DEF TypeInv, TypeOK
      <4>3. flags' \in [Slots -> SUBSET Flags]
        BY <4>1, <4>2 DEF CmdComplete, TypeInv, TypeOK, Flags
      <4>4. done' \in [Slots -> Nat]
        BY <4>1, <4>2 DEF CmdComplete, TypeInv, TypeOK
      <4>5. confirmedBy' \in [Calls -> Calls \cup {None}]
        BY <4>1, <4>2 DEF TypeInv, TypeOK
      <4>6. TypeOK'
        BY <2>2, <4>3, <4>4, <4>5 DEF Indicate, Unlock, TypeInv, TypeOK, Goto, Loc
      <4>7. QED
        BY <2>2, <4>6 DEF Indicate, TypeInv, TypeOK, Goto, AtWork
    <3>3. QED
      BY <2>2, <3>1, <3>2 DEF Indicate
  <2>3. QED
    BY <1>10, <2>1, <2>2 DEF RxStep
<1>11. ASSUME RemoverStep \/ Stop
      PROVE  TypeInv'
  <2>1. CASE Drain
    <3>1. cmds' \in Seq(Slots) /\ Len(cmds') = 0
      BY <2>1 DEF Drain
    <3>2. done' \in [Slots -> Nat]
      BY <2>1 DEF Drain, TypeInv, TypeOK
    <3>3. TypeOK'
      BY <2>1, <3>1, <3>2 DEF Drain, Unlock, TypeInv, TypeOK, Goto, Loc
    <3>4. QED
      BY <2>1, <3>1, <3>3 DEF Drain, AtWork, Goto, TypeInv, TypeOK
  <2>2. CASE Flush
    <3>1. cmds' \in Seq(Slots) /\ Len(cmds') = 0 /\ queue_sz' = 0
      BY <2>2 DEF Flush
    <3>2. TypeOK'
      BY <2>2, <3>1 DEF Flush, TypeInv, TypeOK, Goto, Loc
    <3>3. QED
      BY <2>2, <3>1, <3>2 DEF Flush, AtWork, Goto, TypeInv, TypeOK
  <2>3. CASE Stop
    <3>1. TypeOK'
      BY <2>3 DEF Stop, TypeInv, TypeOK, Goto, Loc, Locking
    <3>2. QED
      BY <2>3, <3>1, MoveOnly DEF Stop, Loc, Locking, AtWork, Goto, TypeInv, TypeOK
  <2>4. CASE Teardown
    <3>1. PICK l \in {"free", "stopRx", "drainLock"} :
            Goto(Remover, l) /\ UNCHANGED <<mgr, pool, bus, rxmsg, calls>>
      BY <2>4, TeardownMoves
    <3>2. fw' \in Seq(Calls)
      BY <2>4, ArrivesSeq DEF Teardown, CancelUrbs, FreeBuffer, StopRx, Cancelled,
         TypeInv, TypeOK
    <3>3. /\ cmd_buf' \in Calls \cup {None, "NULL"} /\ urb' \in Calls \cup {None, "NULL"}
          /\ finished' \in BOOLEAN /\ failed' \in BOOLEAN
      BY <2>4 DEF Teardown, CancelUrbs, FreeBuffer, StopRx, Cancelled, TypeInv, TypeOK
    <3>4. pc' \in [Threads -> Loc]
      BY <3>1 DEF Goto, Loc, Locking, TypeInv, TypeOK
    <3>5. TypeOK'
      BY <3>1, <3>2, <3>3, <3>4 DEF TypeInv, TypeOK
    <3>6. QED
      BY <3>1, <3>5, MoveOnly DEF Loc, Locking, AtWork, Goto, TypeInv, TypeOK
  <2>5. QED
    BY <1>11, <2>1, <2>2, <2>3, <2>4 DEF RemoverStep, Teardown
<1>12. CASE UNCHANGED vars
  BY <1>12 DEF vars, TypeInv, TypeOK, AtWork
<1>13. QED
  BY <1>1, <1>2, <1>3, <1>4, <1>5, <1>6, <1>7, <1>8, <1>9, <1>10, <1>11, <1>12
     DEF Next, Step, CallStep, SenderStep, Transmit

\* The types of the manager's state: no step puts a slot on the list that is
\* none, and queue_sz, an unsigned counter, never goes below zero, although
\* the drain empties the list without counting (rwnx_cmds.c).
THEOREM TypeCorrect == Spec => []TypeOK
<1>1. TypeInv => TypeOK
  BY DEF TypeInv
<1>2. QED
  BY InitType, StepType, <1>1, PTL DEF Spec

-----------------------------------------------------------------------------
(* What belongs to whom: the slots of cmd_array, the threads at work on    *)
(* them, and the list.                                                     *)

\* Where a caller's command is not on the list yet, and where it is.
Before == {"spin", "spinLock", "check", "unheld", "enqLock", "enqueue"}
Listed == {"fill", "write", "send", "submit", "sending", "kill", "wait", "delLock",
           "delete", "crashLock", "crash"}

\* The same, or dead in the middle of it.
Held == Listed \cup {"oops"}

Bypasses(t) == t \in Calls /\ kind[t].route = "direct"

\* Where a thread may be at all.
Allowed(t, l) ==
    /\ t = Worker => l \in {"idle", "lookLock", "look", "clear", "oops", "hung"} \cup Listed
    /\ t = Rx => l \in {"idle", "indLock", "indicate", "hung"}
    /\ t = Remover => l \in {"idle", "cancel", "free", "stopRx", "drainLock", "drain",
                           "flush", "returned", "hung"}
    /\ t \in Calls =>
        /\ l \in {"idle", "wake", "rewake", "returned", "oops", "hung"} \cup Before \cup Listed
        /\ Bypasses(t) => l \in {"idle", "returned", "oops"} \cup Transmitting
        /\ kind[t].reply => l \notin {"enqLock", "enqueue", "wake"}

PlaceInv ==
    /\ \A t \in Threads : Allowed(t, pc[t])
    /\ bus = "UP" => pc[Remover] = "idle"

LEMMA AtWorkIs == \A t : AtWork(t) <=> pc[t] \in Before \cup Listed \cup {"clear"}
BY DEF AtWork, Before, Listed

\* A step that takes one thread where it may be.
LEMMA MovePlace ==
    ASSUME PlaceInv, TypeInv, NEW t \in Threads, NEW l, Goto(t, l), Allowed(t, l),
           kind' = kind, t = Remover => bus' # "UP", bus' = "UP" => bus = "UP"
    PROVE  PlaceInv'
BY DEF PlaceInv, TypeInv, TypeOK, Goto, Allowed, Bypasses, Threads

\* Whatever a caller's message is, only one without confirmation and none that
\* wants a reply goes past the queue, and none that wants one is deferred.
LEMMA KindOf ==
    ASSUME TypeInv, NEW c \in Calls
    PROVE  /\ kind[c].reply \in BOOLEAN /\ kind[c].late \in BOOLEAN
           /\ kind[c].reply => kind[c].route = "queue" /\ ~kind[c].late
BY KindsAssumption DEF TypeInv, TypeOK, Kind

LEMMA StepPlace == ASSUME TypeInv, PlaceInv, [Next]_vars PROVE PlaceInv'
<1> USE ThreadsAssumption DEF mgr, pool, link, calls, Threads, Senders, Transmitting
<1>0. \A t \in Threads : Allowed(t, pc[t])
  BY DEF PlaceInv
<1>1. ASSUME NEW t \in Threads, Acquire(t)
      PROVE  PlaceInv'
  <2>1. PICK l : /\ Goto(t, l) /\ Allowed(t, l) /\ UNCHANGED <<kind, bus>>
                 /\ t = Remover => bus # "UP"
    BY <1>0, <1>1, KindsAssumption
       DEF Acquire, Entered, Locking, Allowed, Before, Listed, PlaceInv, Bypasses
  <2>2. QED
    BY <2>1, MovePlace
<1>2. ASSUME NEW c \in Calls, Start(c)
      PROVE  PlaceInv'
  <2>1. PICK l : /\ Goto(c, l) /\ Allowed(c, l) /\ UNCHANGED <<kind, bus>>
    BY <1>0, <1>2, KindOf DEF Start, Return, Allowed, Before, Listed, Bypasses
  <2>2. QED
    BY <2>1, MovePlace
<1>3. ASSUME NEW c \in Calls, Killed(c) \/ Spin(c) \/ SpinAgain(c) \/ UnlockUnheld(c)
             \/ Refuse(c) \/ Wake(c) \/ Rewake(c)
      PROVE  PlaceInv'
  <2>1. PICK l : /\ Goto(c, l) /\ Allowed(c, l) /\ UNCHANGED <<kind, bus>>
    BY <1>0, <1>3 DEF Killed, Spin, SpinAgain, UnlockUnheld, Refuse, Wake, Rewake, Return,
       AtEnqueue, Allowed, Before, Listed, Bypasses
  <2>2. QED
    BY <2>1, MovePlace
<1>4. ASSUME NEW c \in Calls, Enqueue(c)
      PROVE  PlaceInv'
  <2>1. kind[c].reply => ~LeftToWorker(c)
    BY <1>0, <1>4, KindOf DEF Enqueue, AtEnqueue, LeftToWorker, Allowed
  <2>2. PICK l : /\ Goto(c, l) /\ Allowed(c, l) /\ UNCHANGED <<kind, bus>>
    BY <1>0, <1>4, <2>1 DEF Enqueue, AtEnqueue, Allowed, Before, Listed, Bypasses
  <2>3. QED
    BY <2>2, MovePlace
<1>5. ASSUME NEW t \in Senders, SenderStep(t)
      PROVE  PlaceInv'
  <2>1. CASE Transmit(t)
    <3>1. /\ pc[t] \in Transmitting /\ UNCHANGED <<kind, bus>>
          /\ \/ AfterSending(t)
             \/ \E l \in {"write", "send", "submit", "sending", "kill", "oops"} : Goto(t, l)
      BY <2>1, TransmitMoves
    <3>2. PICK l : Goto(t, l) /\ Allowed(t, l)
      BY <1>0, <3>1 DEF AfterSending, Sent, Return, Allowed, Before, Listed, Bypasses,
         Transmitting
    <3>3. QED
      BY <3>1, <3>2, MovePlace
  <2>2. CASE Completed(t) \/ TimedOut(t) \/ Delete(t) \/ Crash(t)
    <3>1. PICK l : /\ Goto(t, l) /\ Allowed(t, l) /\ UNCHANGED <<kind, bus>>
      BY <1>0, <2>2 DEF Completed, TimedOut, Delete, Crash, Return, Allowed, Before,
         Listed, Bypasses, Transmitting
    <3>2. QED
      BY <3>1, MovePlace
  <2>3. QED
    BY <1>5, <2>1, <2>2 DEF SenderStep, Transmit
<1>6. ASSUME WorkerStep \/ RxStep
      PROVE  PlaceInv'
  <2>1. PICK t \in {Worker, Rx} :
            \E l : Goto(t, l) /\ Allowed(t, l) /\ UNCHANGED <<kind, bus>>
    BY <1>6 DEF WorkerStep, RxStep, StartWork, Look, Clear, Confirm, Indicate, Allowed,
       Listed
  <2>2. QED
    BY <2>1, MovePlace
<1>7. ASSUME RemoverStep \/ Stop
      PROVE  PlaceInv'
  <2>1. CASE Teardown
    <3>1. PICK l : Goto(Remover, l) /\ Allowed(Remover, l) /\ kind' = kind /\ bus' # "UP"
      BY <2>1, TeardownMoves DEF Allowed, PlaceInv
    <3>2. QED
      BY <3>1, MovePlace
  <2>2. CASE Drain \/ Flush \/ Stop
    <3>1. PICK l : Goto(Remover, l) /\ Allowed(Remover, l) /\ kind' = kind /\ bus' # "UP"
      BY <1>0, <2>2 DEF Drain, Flush, Stop, Allowed, PlaceInv
    <3>2. QED
      BY <3>1, MovePlace
  <2>3. QED
    BY <1>7, <2>1, <2>2 DEF RemoverStep, Teardown
<1>8. CASE Transferred \/ UNCHANGED vars
  BY <1>8 DEF Transferred, vars, PlaceInv, Allowed, Bypasses
<1>9. QED
  BY <1>1, <1>2, <1>3, <1>4, <1>5, <1>6, <1>7, <1>8 DEF Next, Step, CallStep

Calm == TypeInv /\ LockInv /\ PlaceInv

\* A thread at work has a slot in use, which holds its command if it is a call,
\* and sends it unless it has still to clear the flag; the worker's slot is no
\* caller's.  A slot that waits for the worker is in use, although flags are not
\* reset, and a slot holds the command of the call that took it last.
SlotInv ==
    /\ \A t \in Senders : AtWork(t) =>
          /\ used[slot[t]]
          /\ pc[t] # "clear" => "WAIT_PUSH" \notin flags[slot[t]]
          /\ t \in Calls => cmd[slot[t]] = t
    /\ AtWork(Worker) => \A c \in Calls : AtWork(c) => slot[c] # slot[Worker]
    /\ \A s \in Slots : "WAIT_PUSH" \in flags[s] => used[s]
    /\ \A s \in Slots : cmd[s] \in Calls => pc[cmd[s]] # "idle" /\ slot[cmd[s]] = s

\* A caller's command is not on the list before it is queued, and those at work
\* on a queued one find it there until the device is gone.
ListInv ==
    /\ IsInjective(cmds)
    /\ Working =>
        /\ \A s \in OnList : used[s]
        /\ \A c \in Calls : AtWork(c) /\ (pc[c] \in Before \/ Bypasses(c)) => slot[c] \notin OnList
        /\ \A s \in OnList : Message(s).reply => pc[cmd[s]] \in Held
    /\ bus = "UP" =>
        /\ queue_sz = Len(cmds) /\ queue_sz <= MaxQueued
        /\ \A t \in Senders : AtWork(t) /\ pc[t] \notin Before /\ ~Bypasses(t) => slot[t] \in OnList

SameUnsent == \A s \in Slots : "WAIT_PUSH" \in flags'[s] <=> "WAIT_PUSH" \in flags[s]

\* A step that leaves slots and list as they are, and moves a thread within
\* what it was doing.
Quiet(t, l) ==
    /\ Goto(t, l) /\ (l = "idle" => t \notin Calls)
    /\ UNCHANGED <<cmds, queue_sz, cmd, slot, kind, used>> /\ SameUnsent
    /\ bus' = "UP" => bus = "UP"
    /\ Working' => Working
    /\ l # "clear" /\ pc[t] \notin {"clear", "oops"}
    /\ l \in Before => pc[t] \in Before
    /\ l \in Listed => pc[t] \in Listed
    /\ t \in Calls /\ pc[t] \in Listed /\ l \notin Held => ~Working' \/ slot[t] \notin OnList

\* A step in which a thread gives its slot back, and one that leaves the list
\* as it is.
GivesBack(t, l) ==
    /\ Goto(t, l) /\ (l = "idle" => t \notin Calls)
    /\ t \in Senders /\ FreeSlot(slot[t])
    /\ UNCHANGED <<cmd, slot>> /\ SameUnsent
    /\ pc[t] \in Before \cup Listed /\ l \notin Before \cup Listed \cup {"clear"}

Freed(t, l) ==
    /\ GivesBack(t, l)
    /\ UNCHANGED <<cmds, queue_sz, kind, bus>>
    /\ Working' => Working
    /\ ~Working' \/ slot[t] \notin OnList

LEMMA QuietSlots ==
    ASSUME Calm, SlotInv, NEW t \in Threads, NEW l \in Loc, Quiet(t, l), Goto(t, l)
    PROVE  SlotInv'
<1> USE ThreadsAssumption DEF Threads, Senders
<1>1. /\ UNCHANGED <<cmd, slot, used>> /\ SameUnsent /\ l # "clear" /\ pc[t] # "clear"
      /\ (l = "idle" => t \notin Calls)
  BY DEF Quiet
<1>2. \A u \in Senders : pc'[u] = IF u = t THEN l ELSE pc[u]
  BY DEF Goto, Calm, TypeInv, TypeOK
<1>3. \A u \in Senders : AtWork(u)' => AtWork(u) /\ (pc[u] = "clear" => pc'[u] = "clear")
  BY <1>1, <1>2, AtWorkIs DEF AtWork, Quiet, Before, Listed
<1>4. \A u \in Senders : AtWork(u)' => slot[u] \in Slots
  BY <1>3 DEF Calm, TypeInv
<1>5. \A s \in Slots : cmd[s] \in Calls => pc'[cmd[s]] # "idle"
  BY <1>1, <1>2 DEF SlotInv
<1>6. QED
  BY <1>1, <1>3, <1>4, <1>5 DEF SlotInv, SameUnsent

LEMMA SlotsDiffer ==
    ASSUME SlotInv, NEW t \in Senders, NEW u \in Senders, t # u, AtWork(t), AtWork(u)
    PROVE  slot[t] # slot[u]
BY ThreadsAssumption DEF SlotInv, Senders, Threads

LEMMA GivesBackSlots ==
    ASSUME Calm, SlotInv, NEW t \in Senders, NEW l \in Loc, GivesBack(t, l), Goto(t, l)
    PROVE  SlotInv'
<1> USE ThreadsAssumption DEF Threads, Senders
<1>1. /\ UNCHANGED <<cmd, slot>> /\ SameUnsent /\ FreeSlot(slot[t])
      /\ (l = "idle" => t \notin Calls)
  BY DEF GivesBack
<1>2. \A u \in Senders : pc'[u] = IF u = t THEN l ELSE pc[u]
  BY DEF Goto, Calm, TypeInv, TypeOK
<1>3. AtWork(t) /\ ~AtWork(t)' /\ pc[t] # "clear"
  BY <1>2, AtWorkIs DEF AtWork, GivesBack, Before, Listed
<1>4. \A u \in Senders : AtWork(u)' => AtWork(u) /\ pc'[u] = pc[u] /\ u # t
  BY <1>2, <1>3 DEF AtWork
<1>5. slot[t] \in Slots /\ \A s \in Slots : used'[s] = IF s = slot[t] THEN FALSE ELSE used[s]
  BY <1>1, <1>3 DEF FreeSlot, Calm, TypeInv, TypeOK
<1>6. \A u \in Senders : AtWork(u)' => slot[u] \in Slots /\ slot[u] # slot[t] /\ used'[slot[u]]
  <2>1. ASSUME NEW u \in Senders, AtWork(u)'
        PROVE  slot[u] \in Slots /\ slot[u] # slot[t] /\ used'[slot[u]]
    <3>1. AtWork(u) /\ u # t
      BY <1>4, <2>1
    <3>2. slot[u] \in Slots /\ slot[u] # slot[t] /\ used[slot[u]]
      BY <1>3, <3>1, SlotsDiffer DEF Calm, TypeInv, SlotInv
    <3>3. QED
      BY <1>5, <3>2
  <2>2. QED
    BY <2>1
<1>7. \A s \in Slots : cmd[s] \in Calls => pc'[cmd[s]] # "idle"
  BY <1>1, <1>2 DEF SlotInv
<1>8. \A s \in Slots : "WAIT_PUSH" \in flags'[s] => used'[s]
  <2>1. "WAIT_PUSH" \notin flags[slot[t]]
    BY <1>3 DEF SlotInv
  <2>2. QED
    BY <1>1, <1>5, <2>1 DEF SlotInv, SameUnsent
<1>9. QED
  BY <1>1, <1>4, <1>6, <1>7, <1>8 DEF SlotInv, SameUnsent

LEMMA QuietList ==
    ASSUME Calm, SlotInv, ListInv, NEW t \in Threads, NEW l \in Loc, Quiet(t, l), Goto(t, l)
    PROVE  ListInv'
<1> USE ThreadsAssumption DEF Threads, Senders
<1>1. /\ UNCHANGED <<cmds, queue_sz, cmd, slot, used, kind>> /\ (bus' = "UP" => bus = "UP")
      /\ (Working' => Working) /\ OnList' = OnList
  BY DEF Quiet, OnList
<1>2. \A u \in Threads : pc'[u] = IF u = t THEN l ELSE pc[u]
  BY DEF Goto, Calm, TypeInv, TypeOK
<1>3. \A u \in Senders : AtWork(u)' => /\ AtWork(u) /\ (pc'[u] \in Before => pc[u] \in Before)
                                       /\ (pc'[u] \notin Before => pc[u] \notin Before)
                                       /\ Bypasses(u)' = Bypasses(u)
  BY <1>1, <1>2, AtWorkIs DEF AtWork, Quiet, Before, Listed, Bypasses
<1>4. ASSUME Working', NEW s \in OnList, Message(s).reply
      PROVE  pc'[cmd[s]] \in Held
  <2>1. pc[cmd[s]] \in Held /\ cmd[s] \in Threads
    BY <1>1, <1>4 DEF ListInv, Calm, TypeInv, OnList, ToSet
  <2>2. CASE cmd[s] = t /\ t \in Calls
    <3>1. slot[t] = s
      BY <1>4, <2>2 DEF SlotInv, Calm, TypeInv, TypeOK, OnList, ToSet
    <3>2. QED
      BY <1>2, <1>4, <2>1, <2>2, <3>1 DEF Quiet, Held
  <2>3. CASE cmd[s] # t
    BY <1>2, <2>1, <2>3
  <2>4. cmd[s] \in Calls
    BY DEF Calm, TypeInv, OnList, ToSet
  <2>5. QED
    BY <2>2, <2>3, <2>4
<1>5. QED
  BY <1>1, <1>3, <1>4 DEF ListInv, Message

LEMMA FreedList ==
    ASSUME Calm, SlotInv, ListInv, NEW t \in Senders, NEW l \in Loc, Freed(t, l), Goto(t, l)
    PROVE  ListInv'
<1> USE ThreadsAssumption DEF Threads, Senders
<1>1. /\ UNCHANGED <<cmds, queue_sz, cmd, slot, kind, bus>>
      /\ (Working' => Working) /\ OnList' = OnList /\ FreeSlot(slot[t])
      /\ (~Working' \/ slot[t] \notin OnList)
  BY DEF Freed, GivesBack, OnList
<1>2. \A u \in Threads : pc'[u] = IF u = t THEN l ELSE pc[u]
  BY DEF Goto, Calm, TypeInv, TypeOK
<1>3. \A u \in Senders : AtWork(u)' => AtWork(u) /\ pc'[u] = pc[u] /\ u # t
  BY <1>2, AtWorkIs DEF AtWork, Freed, GivesBack, Before, Listed
<1>4. OnList \subseteq Slots /\ \A s \in OnList : cmd[s] \in Calls
  BY DEF Calm, TypeInv, TypeOK, OnList, ToSet
<1>5. \A s \in Slots : s # slot[t] => used'[s] = used[s]
  BY <1>1 DEF FreeSlot, Calm, TypeInv, TypeOK
<1>6. ASSUME Working', NEW s \in OnList, Message(s).reply
      PROVE  pc'[cmd[s]] \in Held
  <2>1. cmd[s] # t
    BY <1>1, <1>4, <1>6 DEF SlotInv
  <2>2. QED
    BY <1>1, <1>2, <1>4, <1>6, <2>1 DEF ListInv
<1>7. QED
  BY <1>1, <1>3, <1>4, <1>5, <1>6 DEF ListInv, Message, Bypasses

\* The steps after which slots and list are as they were.
LEMMA QuietSteps ==
    ASSUME Calm, SlotInv, ListInv, NEW t \in Threads,
           \/ Acquire(t)
           \/ t \in Calls /\ (Killed(t) \/ Spin(t) \/ SpinAgain(t) \/ Wake(t) \/ Rewake(t))
           \/ t \in Senders /\ (Completed(t) \/ TimedOut(t))
           \/ t = Worker /\ StartWork
           \/ t = Rx /\ Confirm
           \/ t = Remover /\ (Stop \/ Teardown)
    PROVE  \E l \in Loc : Quiet(t, l)
<1> USE ThreadsAssumption DEF mgr, pool, link, calls, Threads, Senders, Held
<1>1. CASE Acquire(t)
  <2>1. SameUnsent /\ UNCHANGED <<state, cmds, queue_sz, cmd, slot, kind, used, bus>>
    BY <1>1 DEF Acquire, SameUnsent
  <2>2. CASE lock = None /\ lock' = t /\ Goto(t, Entered(pc[t]))
    <3>1. Quiet(t, Entered(pc[t]))
      BY <1>1, <2>1, <2>2 DEF Acquire, Entered, Locking, Quiet, Before, Listed, Working
    <3>2. Entered(pc[t]) \in Loc
      BY <1>1 DEF Acquire, Entered, Loc, Locking, Critical
    <3>3. QED
      BY <3>1, <3>2
  <2>3. CASE lock = "lost" /\ lock' = None /\ Goto(t, "hung")
    <3>1. ~Working /\ ~Working'
      BY <2>1, <2>3 DEF Calm, LockInv, Working
    <3>2. Quiet(t, "hung")
      BY <1>1, <2>1, <2>3, <3>1 DEF Acquire, Locking, Quiet, Before, Listed
    <3>3. QED
      BY <3>2 DEF Loc
  <2>4. QED
    BY <1>1, <2>2, <2>3 DEF Acquire
<1>2. CASE t \in Calls /\ (Killed(t) \/ Spin(t) \/ SpinAgain(t) \/ Wake(t) \/ Rewake(t))
  <2>1. SameUnsent /\ UNCHANGED <<state, cmds, queue_sz, cmd, slot, kind, used, bus>>
    BY <1>2 DEF Killed, Spin, SpinAgain, Wake, Rewake, SameUnsent
  <2>2. PICK l \in {"delLock", "unheld", "spinLock", "spin", "returned"} :
           /\ Goto(t, l)
           /\ \/ l = "delLock" /\ pc[t] \in Listed
              \/ l \in Before /\ pc[t] \in Before
              \/ l = "returned" /\ pc[t] \in {"wake", "rewake"}
    BY <1>2 DEF Killed, Spin, SpinAgain, Wake, Rewake, Return, Before, Listed
  <2>3. Quiet(t, l)
    BY <2>1, <2>2 DEF Quiet, Before, Listed, Working
  <2>4. QED
    BY <2>2, <2>3 DEF Loc, Locking
<1>3. CASE t \in Senders /\ (Completed(t) \/ TimedOut(t))
  <2>1. SameUnsent /\ UNCHANGED <<state, cmds, queue_sz, cmd, slot, kind, used, bus>>
    BY <1>3 DEF Completed, TimedOut, SameUnsent
  <2>2. PICK l \in {"delLock", "crashLock"} : Goto(t, l) /\ pc[t] \in Listed
    BY <1>3 DEF Completed, TimedOut, Listed
  <2>3. Quiet(t, l)
    BY <2>1, <2>2 DEF Quiet, Before, Listed, Working
  <2>4. QED
    BY <2>2, <2>3 DEF Loc, Locking
<1>4. CASE t = Worker /\ StartWork
  <2>1. Quiet(t, "lookLock")
    BY <1>4 DEF StartWork, Quiet, Before, Listed, Working, SameUnsent
  <2>2. QED
    BY <2>1 DEF Loc, Locking
<1>5. CASE t = Rx /\ Confirm
  <2>1. Quiet(t, "indLock")
    BY <1>5 DEF Confirm, Quiet, Before, Listed, Working, SameUnsent
  <2>2. QED
    BY <2>1 DEF Loc, Locking
<1>6. CASE t = Remover /\ (Stop \/ Teardown)
  <2>1. PICK l \in {"cancel", "free", "stopRx", "drainLock"} :
          /\ Goto(t, l) /\ pc[t] \in {"idle", "cancel", "free", "stopRx"}
          /\ UNCHANGED <<mgr, pool, calls>> /\ (bus' = "UP" => bus = "UP")
    BY <1>6, TeardownMoves DEF Stop
  <2>2. Quiet(t, l)
    BY <1>6, <2>1 DEF Quiet, Before, Listed, Working, SameUnsent
  <2>3. QED
    BY <2>1, <2>2 DEF Loc, Locking
<1>7. QED
  BY <1>1, <1>2, <1>3, <1>4, <1>5, <1>6

\* The same of a firmware message.
LEMMA QuietIndicate ==
    ASSUME Calm, Indicate
    PROVE  Quiet(Rx, "idle")
<1>1. pc[Rx] = "indicate" /\ Goto(Rx, "idle") /\ Rx \notin Calls
  BY ThreadsAssumption DEF Indicate
<1>2. UNCHANGED <<state, cmds, queue_sz, cmd, slot, kind, used, bus>>
  BY DEF Indicate
<1>3. SameUnsent
  <2>1. CASE flags' = flags
    BY <2>1 DEF SameUnsent
  <2>2. CASE \E i \in 1..Len(cmds) : CmdComplete(cmds[i], flags[cmds[i]] \ {"WAIT_CFM"})
    <3>1. PICK i \in 1..Len(cmds) : CmdComplete(cmds[i], flags[cmds[i]] \ {"WAIT_CFM"})
      BY <2>2
    <3>2. \A s \in Slots : flags'[s] = IF s = cmds[i]
                                       THEN (flags[cmds[i]] \ {"WAIT_CFM"}) \cup {"DONE"}
                                       ELSE flags[s]
      BY <3>1 DEF CmdComplete, Calm, TypeInv, TypeOK
    <3>3. QED
      BY <3>2 DEF SameUnsent
  <2>3. QED
    BY <2>1, <2>2 DEF Indicate
<1>4. QED
  BY <1>1, <1>2, <1>3 DEF Quiet, Before, Listed, Working

\* A slot of a caller that has not queued its command, or will not, is on no list.
LEMMA UnheldFreed ==
    ASSUME Calm, SlotInv, ListInv, NEW c \in Calls, UnlockUnheld(c) \/ Refuse(c)
    PROVE  Freed(c, "returned")
<1> USE ThreadsAssumption DEF mgr, pool, link, calls, Threads, Senders
<1>1. pc[c] \in Before /\ AtWork(c)
  BY DEF UnlockUnheld, Refuse, AtEnqueue, Before, AtWork
<1>2. /\ Goto(c, "returned") /\ FreeSlot(slot[c])
      /\ UNCHANGED <<state, cmds, queue_sz, cmd, flags, slot, kind, bus>>
  BY DEF UnlockUnheld, Refuse, Return
<1>3. ~Working' \/ slot[c] \notin OnList
  BY <1>1, <1>2 DEF ListInv, Working
<1>4. SameUnsent
  BY <1>2 DEF SameUnsent
<1>5. QED
  BY <1>1, <1>2, <1>3, <1>4 DEF Freed, GivesBack, Before, Listed, Working

\* Handing the message over is quiet, unless the message was sent past the
\* queue: its sender gives the slot back then.
LEMMA SendingSteps ==
    ASSUME Calm, SlotInv, ListInv, NEW t \in Senders, Transmit(t)
    PROVE  \E l \in Loc : Quiet(t, l) \/ Freed(t, l)
<1> USE ThreadsAssumption DEF mgr, pool, calls, Threads, Senders
<1>1. pc[t] \in Transmitting /\ pc[t] \in Listed /\ pc[t] \notin Before /\ AtWork(t)
  BY TransmitMoves DEF AtWork, Transmitting, Listed, Before
<1>2. UNCHANGED <<state, cmds, queue_sz, cmd, flags, slot, kind, bus>> /\ SameUnsent
  BY TransmitMoves DEF SameUnsent
<1>3. \/ \E l \in {"write", "send", "submit", "sending", "kill", "oops"} :
            Goto(t, l) /\ used' = used
      \/ AfterSending(t)
  BY TransmitMoves
<1>4. CASE AfterSending(t) /\ Sent(t) = "returned"
  <2>1. Goto(t, "returned") /\ FreeSlot(slot[t]) /\ Bypasses(t)
    BY <1>4 DEF AfterSending, Sent, Return, Bypasses
  <2>2. ~Working \/ slot[t] \notin OnList
    BY <1>1, <2>1 DEF ListInv, Bypasses
  <2>3. Freed(t, "returned")
    BY <1>1, <1>2, <2>1, <2>2 DEF Freed, GivesBack, Before, Listed, Working
  <2>4. QED
    BY <2>3 DEF Loc
<1>5. CASE \E l \in {"write", "send", "submit", "sending", "kill", "oops", "wait"} :
             Goto(t, l) /\ used' = used
  <2>1. PICK l \in {"write", "send", "submit", "sending", "kill", "oops", "wait"} :
          Goto(t, l) /\ used' = used
    BY <1>5
  <2>2. Quiet(t, l)
    BY <1>1, <1>2, <2>1 DEF Quiet, Before, Listed, Held, Transmitting, Working
  <2>3. QED
    BY <2>1, <2>2 DEF Loc
<1>6. QED
  BY <1>3, <1>4, <1>5 DEF AfterSending

\* So is the timeout, after which nothing is promised of the list.
LEMMA CrashSteps ==
    ASSUME Calm, SlotInv, ListInv, NEW t \in Senders, Crash(t)
    PROVE  \E l \in Loc : Quiet(t, l) \/ Freed(t, l)
<1> USE ThreadsAssumption DEF Threads, Senders
<1>1. pc[t] = "crash" /\ ~Working' /\ slot[t] \in Slots
  BY DEF Crash, Working, Calm, TypeInv, AtWork
<1>2. UNCHANGED <<cmds, queue_sz, cmd, slot, kind, bus>>
  BY DEF Crash, link
<1>3. SameUnsent
  <2>1. CASE flags' = flags
    BY <2>1 DEF SameUnsent
  <2>2. CASE CmdComplete(slot[t], flags[slot[t]])
    BY <1>1, <2>2 DEF CmdComplete, SameUnsent, Calm, TypeInv, TypeOK
  <2>3. QED
    BY <2>1, <2>2 DEF Crash
<1>4. CASE t = Worker
  <2>1. Quiet(t, "lookLock")
    BY <1>1, <1>2, <1>3, <1>4 DEF Crash, Quiet, Before, Listed
  <2>2. QED
    BY <2>1 DEF Loc, Locking
<1>5. CASE t # Worker
  <2>1. Freed(t, "returned")
    BY <1>1, <1>2, <1>3, <1>5 DEF Crash, Return, Freed, GivesBack, Before, Listed
  <2>2. QED
    BY <2>1 DEF Loc
<1>6. QED
  BY <1>4, <1>5

\* A command that is not on the list is not taken off it.
LEMMA DeleteNone ==
    ASSUME Calm, NEW t \in Senders, Delete(t), slot[t] \notin OnList
    PROVE  Quiet(t, "oops")
<1>1. slot[t] \notin ToSet(cmds) /\ Goto(t, "oops") /\ UNCHANGED <<cmds, queue_sz, used>>
  BY DEF Delete, OnList, ToSet, Calm, TypeInv, TypeOK
<1>2. QED
  BY <1>1 DEF Delete, Quiet, SameUnsent, Before, Listed, Working, OnList, link, calls

\* A command appended to the list, and one taken off it.
LEMMA AppendApart ==
    ASSUME NEW S, NEW q \in Seq(S), NEW s \in S, IsInjective(q), s \notin ToSet(q)
    PROVE  IsInjective(Append(q, s)) /\ ToSet(Append(q, s)) = ToSet(q) \cup {s}
<1>1. /\ Append(q, s) \in Seq(S) /\ Len(Append(q, s)) = Len(q) + 1
      /\ \A i \in 1..Len(q) : Append(q, s)[i] = q[i]
      /\ Append(q, s)[Len(q) + 1] = s
  BY AppendProperties
<1>2. Len(q) \in Nat /\ DOMAIN q = 1..Len(q) /\ DOMAIN Append(q, s) = 1..(Len(q) + 1)
  BY <1>1
<1>3. 1..(Len(q) + 1) = 1..Len(q) \cup {Len(q) + 1} /\ Len(q) + 1 \notin 1..Len(q)
  BY <1>2
<1>4. ToSet(Append(q, s)) = ToSet(q) \cup {s}
  BY <1>1, <1>2, <1>3 DEF ToSet
<1>5. \A i, j \in 1..(Len(q) + 1) : Append(q, s)[i] = Append(q, s)[j] => i = j
  <2>1. \A i, j \in 1..Len(q) : q[i] = q[j] => i = j
    BY <1>2 DEF IsInjective
  <2>2. \A i \in 1..Len(q) : q[i] # s
    BY <1>2 DEF ToSet
  <2>3. QED
    BY <1>1, <1>3, <2>1, <2>2
<1>6. QED
  BY <1>2, <1>4, <1>5 DEF IsInjective

LEMMA RemoveAtApart ==
    ASSUME NEW S, NEW q \in Seq(S), NEW i \in 1..Len(q), IsInjective(q)
    PROVE  IsInjective(RemoveAt(q, i)) /\ ToSet(RemoveAt(q, i)) = ToSet(q) \ {q[i]}
<1> DEFINE at(j) == IF j < i THEN j ELSE j + 1
<1>1. /\ RemoveAt(q, i) \in Seq(S) /\ Len(RemoveAt(q, i)) = Len(q) - 1
      /\ \A j \in 1..(Len(q) - 1) : RemoveAt(q, i)[j] = q[at(j)]
  BY RemoveAtProperties
<1>2. /\ Len(q) \in Nat /\ DOMAIN q = 1..Len(q)
      /\ DOMAIN RemoveAt(q, i) = 1..(Len(q) - 1)
      /\ \A j, k \in 1..Len(q) : q[j] = q[k] => j = k
  BY <1>1 DEF IsInjective
<1>3. /\ \A j \in 1..(Len(q) - 1) : at(j) \in 1..Len(q) /\ at(j) # i
      /\ \A j, k \in 1..(Len(q) - 1) : at(j) = at(k) => j = k
  BY <1>2
<1>4. \A k \in 1..Len(q) : k # i => \E j \in 1..(Len(q) - 1) : at(j) = k
  <2>1. ASSUME NEW k \in 1..Len(q), k # i
        PROVE  \E j \in 1..(Len(q) - 1) : at(j) = k
    <3>1. CASE k < i
      <4>1. k \in 1..(Len(q) - 1) /\ at(k) = k
        BY <1>2, <3>1
      <4>2. QED
        BY <4>1
    <3>2. CASE k > i
      <4>1. k - 1 \in 1..(Len(q) - 1) /\ at(k - 1) = k
        BY <1>2, <3>2
      <4>2. QED
        BY <4>1
    <3>3. QED
      BY <1>2, <2>1, <3>1, <3>2
  <2>2. QED
    BY <2>1
<1> HIDE DEF at
<1>5. IsInjective(RemoveAt(q, i))
  <2>1. ASSUME NEW j \in 1..(Len(q) - 1), NEW k \in 1..(Len(q) - 1),
               RemoveAt(q, i)[j] = RemoveAt(q, i)[k]
        PROVE  j = k
    <3>1. q[at(j)] = q[at(k)] /\ at(j) \in 1..Len(q) /\ at(k) \in 1..Len(q)
      BY <1>1, <1>3, <2>1
    <3>2. at(j) = at(k)
      BY <1>2, <3>1
    <3>3. QED
      BY <1>3, <3>2
  <2>2. QED
    BY <1>2, <2>1 DEF IsInjective
<1>6. ToSet(RemoveAt(q, i)) = ToSet(q) \ {q[i]}
  <2>1. ToSet(RemoveAt(q, i)) = {q[at(j)] : j \in 1..(Len(q) - 1)}
    BY <1>1, <1>2 DEF ToSet
  <2>2. ToSet(q) = {q[k] : k \in 1..Len(q)}
    BY <1>2 DEF ToSet
  <2>3. QED
    BY <1>2, <1>3, <1>4, <2>1, <2>2
<1>7. QED
  BY <1>5, <1>6

LEMMA OnListTyped == ASSUME TypeInv PROVE OnList \subseteq Slots /\ \A s \in OnList : cmd[s] \in Calls
BY DEF TypeInv, TypeOK, OnList, ToSet

\* The slot a call takes was nobody's and is on no list.
LEMMA StartSlots ==
    ASSUME Calm, SlotInv, ListInv, NEW c \in Calls, Start(c)
    PROVE  SlotInv' /\ ListInv'
<1> USE ThreadsAssumption DEF mgr, pool, link, calls, Threads, Senders
<1>1. CASE \E l \in {"returned", "oops"} : Goto(c, l) /\ UNCHANGED <<pool, slot>>
  <2>1. PICK l \in {"returned", "oops"} : Goto(c, l) /\ UNCHANGED <<pool, slot>>
    BY <1>1
  <2>2. Quiet(c, l) /\ l \in Loc
    BY <2>1 DEF Start, Quiet, SameUnsent, Before, Listed, Working, Loc
  <2>3. QED
    BY <2>1, <2>2, QuietSlots, QuietList
<1>2. CASE \E s \in Free : /\ used' = [used EXCEPT ![s] = TRUE]
                           /\ cmd' = [cmd EXCEPT ![s] = c]
                           /\ slot' = [slot EXCEPT ![c] = s]
                           /\ UNCHANGED flags
                           /\ Goto(c, CASE kind[c].route = "direct" -> "fill"
                                        [] kind[c].reply -> "spin"
                                        [] OTHER -> "enqLock")
  <2>1. PICK s \in Free : /\ used' = [used EXCEPT ![s] = TRUE]
                          /\ cmd' = [cmd EXCEPT ![s] = c]
                          /\ slot' = [slot EXCEPT ![c] = s]
                          /\ UNCHANGED flags
                          /\ Goto(c, CASE kind[c].route = "direct" -> "fill"
                                       [] kind[c].reply -> "spin"
                                       [] OTHER -> "enqLock")
    BY <1>2
  <2>2. PICK l \in {"fill", "spin", "enqLock"} :
          Goto(c, l) /\ (l \in Before \/ Bypasses(c)) /\ l # "clear"
    BY <2>1 DEF Before, Bypasses
  <2>3. /\ s \in Slots /\ ~used[s] /\ pc[c] = "idle"
        /\ \A r \in Slots : /\ used'[r] = IF r = s THEN TRUE ELSE used[r]
                            /\ cmd'[r] = IF r = s THEN c ELSE cmd[r]
        /\ \A u \in Senders : slot'[u] = IF u = c THEN s ELSE slot[u]
        /\ \A u \in Threads : pc'[u] = IF u = c THEN l ELSE pc[u]
    BY <2>1, <2>2 DEF Start, Free, Goto, Calm, TypeInv, TypeOK
  <2>4. UNCHANGED <<state, cmds, queue_sz, bus, kind, flags>>
    BY <2>1 DEF Start
  <2>5. "WAIT_PUSH" \notin flags[s]
    BY <2>3 DEF SlotInv
  <2>6. ASSUME NEW u \in Senders, u # c, AtWork(u)'
        PROVE  /\ AtWork(u) /\ pc'[u] = pc[u] /\ slot'[u] = slot[u]
               /\ slot[u] \in Slots /\ slot[u] # s
    <3>1. AtWork(u) /\ pc'[u] = pc[u] /\ slot'[u] = slot[u]
      BY <2>3, <2>6 DEF AtWork
    <3>2. QED
      BY <2>3, <3>1 DEF SlotInv, Calm, TypeInv
  <2>7. \A r \in Slots : r # s => cmd[r] # c
    BY <2>3 DEF SlotInv
  <2>8. SlotInv'
    <3>1. \A u \in Senders : AtWork(u)' =>
             /\ used'[slot'[u]]
             /\ pc'[u] # "clear" => "WAIT_PUSH" \notin flags'[slot'[u]]
             /\ u \in Calls => cmd'[slot'[u]] = u
      <4>1. ASSUME NEW u \in Senders, u # c, AtWork(u)'
            PROVE  /\ used'[slot'[u]]
                   /\ pc'[u] # "clear" => "WAIT_PUSH" \notin flags'[slot'[u]]
                   /\ u \in Calls => cmd'[slot'[u]] = u
        <5>1. /\ AtWork(u) /\ pc'[u] = pc[u] /\ slot'[u] = slot[u]
              /\ slot[u] \in Slots /\ slot[u] # s
          BY <2>6, <4>1
        <5>2. /\ used[slot[u]] /\ (u \in Calls => cmd[slot[u]] = u)
              /\ (pc[u] # "clear" => "WAIT_PUSH" \notin flags[slot[u]])
          BY <5>1 DEF SlotInv
        <5>3. used'[slot[u]] = used[slot[u]] /\ cmd'[slot[u]] = cmd[slot[u]]
          BY <2>3, <5>1
        <5>4. QED
          BY <2>4, <5>1, <5>2, <5>3
      <4>2. /\ used'[slot'[c]] /\ "WAIT_PUSH" \notin flags'[slot'[c]]
            /\ cmd'[slot'[c]] = c
        BY <2>3, <2>4, <2>5
      <4>3. QED
        BY <4>1, <4>2
    <3>2. AtWork(Worker)' => \A u \in Calls : AtWork(u)' => slot'[u] # slot'[Worker]
      BY <2>3, <2>6 DEF SlotInv
    <3>3. \A r \in Slots : "WAIT_PUSH" \in flags'[r] => used'[r]
      BY <2>3, <2>4 DEF SlotInv
    <3>4. \A r \in Slots : cmd'[r] \in Calls => pc'[cmd'[r]] # "idle" /\ slot'[cmd'[r]] = r
      <4>1. ASSUME NEW r \in Slots, r # s, cmd'[r] \in Calls
            PROVE  pc'[cmd'[r]] # "idle" /\ slot'[cmd'[r]] = r
        <5>1. cmd'[r] = cmd[r] /\ cmd[r] \in Calls /\ cmd[r] # c
          BY <2>3, <2>7, <4>1
        <5>2. pc[cmd[r]] # "idle" /\ slot[cmd[r]] = r
          BY <5>1 DEF SlotInv
        <5>3. pc'[cmd[r]] = pc[cmd[r]] /\ slot'[cmd[r]] = slot[cmd[r]]
          BY <2>3, <5>1
        <5>4. QED
          BY <5>1, <5>2, <5>3
      <4>2. l # "idle" /\ pc'[cmd'[s]] # "idle" /\ slot'[cmd'[s]] = s
        BY <2>2, <2>3
      <4>3. QED
        BY <4>1, <4>2
    <3>5. QED
      BY <3>1, <3>2, <3>3, <3>4 DEF SlotInv
  <2>9. ListInv'
    <3>1. OnList' = OnList /\ (Working' <=> Working) /\ (Working => s \notin OnList)
      BY <2>3, <2>4 DEF OnList, Working, ListInv
    <3>2. OnList \subseteq Slots /\ \A r \in OnList : cmd[r] \in Calls
      BY OnListTyped DEF Calm
    <3>3. IsInjective(cmds')
      BY <2>4 DEF ListInv
    <3>4. ASSUME Working
          PROVE  /\ \A r \in OnList : used'[r]
                 /\ \A u \in Calls : AtWork(u)' /\ (pc'[u] \in Before \/ Bypasses(u)')
                        => slot'[u] \notin OnList
                 /\ \A r \in OnList : Message(r)'.reply => pc'[cmd'[r]] \in Held
      <4>1. \A u \in Calls : Bypasses(u)' <=> Bypasses(u)
        BY <2>4 DEF Bypasses
      <4>2. \A u \in Calls : AtWork(u)' /\ (pc'[u] \in Before \/ Bypasses(u)')
                        => slot'[u] \notin OnList
        BY <2>3, <2>6, <3>1, <3>4, <4>1 DEF ListInv
      <4>3. \A r \in OnList : r # s
        BY <3>1, <3>4
      <4>4. \A r \in OnList : cmd'[r] = cmd[r] /\ cmd[r] # c /\ used'[r] = used[r]
        BY <2>3, <2>7, <3>2, <4>3
      <4>5. \A r \in OnList : pc'[cmd'[r]] = pc[cmd[r]] /\ Message(r)' = Message(r)
        BY <2>3, <2>4, <3>2, <4>4 DEF Message
      <4>6. QED
        BY <3>4, <4>2, <4>4, <4>5 DEF ListInv
    <3>5. ASSUME bus' = "UP"
          PROVE  /\ queue_sz' = Len(cmds') /\ queue_sz' <= MaxQueued
                 /\ \A u \in Senders : AtWork(u)' /\ pc'[u] \notin Before /\ ~Bypasses(u)'
                        => slot'[u] \in OnList
      BY <2>2, <2>3, <2>4, <2>6, <3>5 DEF ListInv, Bypasses
    <3>6. QED
      BY <3>1, <3>3, <3>4, <3>5 DEF ListInv
  <2>10. QED
    BY <2>8, <2>9
<1>3. QED
  BY <1>1, <1>2 DEF Start, Return

\* A command is queued: its slot was on no list, and is on this one from now on.
LEMMA EnqueueSlots ==
    ASSUME Calm, SlotInv, ListInv, state # "DEINIT", NEW c \in Calls, Enqueue(c)
    PROVE  SlotInv' /\ ListInv'
<1> USE ThreadsAssumption DEF mgr, pool, link, calls, Threads, Senders
<1> DEFINE s == slot[c]
<1>1. pc[c] \in {"enqueue", "check"} /\ pc[c] \in Before /\ AtWork(c) /\ Working
  BY DEF Enqueue, AtEnqueue, AtWork, Before, Accepting, Working, Calm, TypeInv, TypeOK
<1>2. s \in Slots /\ s \notin OnList /\ used[s] /\ cmd[s] = c /\ "WAIT_PUSH" \notin flags[s]
  BY <1>1 DEF SlotInv, ListInv, Calm, TypeInv
<1>3. UNCHANGED <<state, used, cmd, slot, kind, bus>>
  BY DEF Enqueue
<1>4. PICK l \in {"wake", "fill"} :
        Goto(c, l) /\ (LeftToWorker(c) <=> l = "wake")
  BY DEF Enqueue
<1>5. \A u \in Threads : pc'[u] = IF u = c THEN l ELSE pc[u]
  BY <1>4 DEF Goto, Calm, TypeInv, TypeOK
<1>6. \A r \in Slots : "WAIT_PUSH" \in flags'[r] <=>
         \/ r # s /\ "WAIT_PUSH" \in flags[r]
         \/ r = s /\ l = "wake"
  BY <1>2, <1>4 DEF Enqueue, Calm, TypeInv, TypeOK
<1>7. OnList' = OnList \cup {s} /\ IsInjective(cmds') /\ cmds' = Append(cmds, s)
  BY <1>2, AppendApart DEF Enqueue, OnList, Calm, TypeInv, TypeOK, ListInv
<1>8. \A u \in Senders : AtWork(u)' =>
         /\ AtWork(u)
         /\ u # c => pc'[u] = pc[u] /\ slot[u] # s
         /\ u = c => l = "fill"
  BY <1>1, <1>5, SlotsDiffer DEF AtWork
<1> HIDE DEF s
<1>9. SlotInv'
  <2>1. \A u \in Senders : AtWork(u)' =>
           /\ used'[slot'[u]]
           /\ pc'[u] # "clear" => "WAIT_PUSH" \notin flags'[slot'[u]]
           /\ u \in Calls => cmd'[slot'[u]] = u
    <3>1. ASSUME NEW u \in Senders, AtWork(u)'
          PROVE  AtWork(u) /\ slot[u] \in Slots /\ (pc'[u] # "clear" => pc[u] # "clear")
      BY <1>1, <1>8, <3>1 DEF Calm, TypeInv
    <3>2. s = slot[c]
      BY DEF s
    <3>3. QED
      BY <1>3, <1>6, <1>8, <3>1, <3>2 DEF SlotInv
  <2>2. AtWork(Worker)' => \A u \in Calls : AtWork(u)' => slot'[u] # slot'[Worker]
    BY <1>3, <1>8 DEF SlotInv
  <2>3. \A r \in Slots : "WAIT_PUSH" \in flags'[r] => used'[r]
    BY <1>2, <1>3, <1>6 DEF SlotInv
  <2>4. \A r \in Slots : cmd'[r] \in Calls => pc'[cmd'[r]] # "idle" /\ slot'[cmd'[r]] = r
    BY <1>3, <1>5 DEF SlotInv
  <2>5. QED
    BY <2>1, <2>2, <2>3, <2>4 DEF SlotInv
<1>10. ListInv'
  <2>1. OnList \subseteq Slots /\ \A r \in OnList : cmd[r] \in Calls
    BY OnListTyped DEF Calm
  <2>2. \A u \in Calls : Bypasses(u)' <=> Bypasses(u)
    BY <1>3 DEF Bypasses
  <2>3. ~Bypasses(c)
    BY <1>1 DEF Calm, PlaceInv, Allowed, Transmitting
  <2>4. \A r \in OnList' : used'[r]
    BY <1>1, <1>2, <1>3, <1>7 DEF ListInv
  <2>5. ASSUME NEW u \in Calls, AtWork(u)', pc'[u] \in Before \/ Bypasses(u)'
        PROVE  slot'[u] \notin OnList'
    <3>1. u # c
      BY <1>5, <1>8, <2>2, <2>3, <2>5 DEF Before
    <3>2. slot[u] \notin OnList /\ slot[u] # s
      BY <1>1, <1>8, <2>2, <2>5, <3>1 DEF ListInv
    <3>3. QED
      BY <1>3, <1>7, <3>2
  <2>6. ASSUME NEW r \in OnList', Message(r)'.reply
        PROVE  pc'[cmd'[r]] \in Held
    <3>1. Message(r).reply
      BY <1>3, <2>6 DEF Message
    <3>2. CASE r = s
      <4>1. kind[c].reply /\ cmd'[r] = c
        BY <1>2, <1>3, <3>1, <3>2 DEF Message
      <4>2. pc[c] = "check" \/ pc[c] \notin {"enqueue"}
        BY <1>1, <4>1 DEF Calm, PlaceInv, Allowed
      <4>3. ~LeftToWorker(c)
        BY <1>1, <4>1, <4>2, KindOf DEF Enqueue, AtEnqueue, LeftToWorker, Calm
      <4>4. QED
        BY <1>4, <1>5, <4>1, <4>3 DEF Listed, Held
    <3>3. CASE r # s
      <4>1. r \in OnList
        BY <1>7, <3>3
      <4>2. cmd[r] \in Calls /\ pc[cmd[r]] \in Held
        BY <1>1, <2>1, <3>1, <4>1 DEF ListInv
      <4>3. cmd[r] # c
        BY <1>1, <4>2 DEF Listed, Held
      <4>4. QED
        BY <1>3, <1>5, <4>2, <4>3
    <3>4. QED
      BY <3>2, <3>3
  <2>7. ASSUME bus' = "UP"
        PROVE  /\ queue_sz' = Len(cmds') /\ queue_sz' <= MaxQueued
               /\ \A u \in Senders : AtWork(u)' /\ pc'[u] \notin Before /\ ~Bypasses(u)'
                      => slot'[u] \in OnList'
    <3>1. queue_sz = Len(cmds) /\ queue_sz <= MaxQueued /\ queue_sz' = queue_sz + 1
      BY <1>3, <2>7 DEF ListInv, Enqueue
    <3>2. Len(cmds') = Len(cmds) + 1 /\ Len(cmds) \in Nat /\ (cmds = <<>> => Len(cmds) = 0)
      BY <1>2, <1>7, AppendProperties DEF Calm, TypeInv, TypeOK
    <3>3. cmds = <<>> \/ queue_sz # MaxQueued
      BY DEF Enqueue, Accepting, Full
    <3>4. queue_sz' = Len(cmds') /\ queue_sz' <= MaxQueued
      BY <3>1, <3>2, <3>3, BoundsAssumption
    <3>5. ASSUME NEW u \in Senders, AtWork(u)', pc'[u] \notin Before, ~Bypasses(u)'
          PROVE  slot'[u] \in OnList'
      <4>1. CASE u = c
        BY <1>3, <1>7, <4>1 DEF s
      <4>2. CASE u # c
        <5>1. AtWork(u) /\ pc[u] \notin Before /\ ~Bypasses(u)
          BY <1>3, <1>8, <3>5, <4>2 DEF Bypasses
        <5>2. QED
          BY <1>3, <1>7, <2>7, <5>1 DEF ListInv
      <4>3. QED
        BY <4>1, <4>2
    <3>6. QED
      BY <3>4, <3>5
  <2>8. QED
    BY <1>7, <2>4, <2>5, <2>6, <2>7 DEF ListInv
<1>11. QED
  BY <1>9, <1>10

\* A command is taken off the list, by the one whose slot it is in.
LEMMA DeleteSlots ==
    ASSUME Calm, SlotInv, ListInv, NEW t \in Senders, Delete(t), slot[t] \in OnList
    PROVE  SlotInv' /\ ListInv'
<1> USE ThreadsAssumption DEF link, calls, Threads, Senders
<1>1. pc[t] = "delete" /\ AtWork(t) /\ slot[t] \in Slots
  BY DEF Delete, AtWork, Calm, TypeInv
<1>2. PICK i \in 1..Len(cmds), l \in {"lookLock", "rewake"} :
        /\ cmds[i] = slot[t] /\ cmds' = RemoveAt(cmds, i) /\ queue_sz' = queue_sz - 1
        /\ FreeSlot(slot[t]) /\ Goto(t, l)
  BY DEF Delete, OnList, Uncount
<1>3. UNCHANGED <<state, cmd, flags, slot, kind, bus>>
  BY DEF Delete
<1>4. \A u \in Threads : pc'[u] = IF u = t THEN l ELSE pc[u]
  BY <1>2 DEF Goto, Calm, TypeInv, TypeOK
<1>5. /\ OnList' = OnList \ {slot[t]} /\ IsInjective(cmds')
      /\ Len(cmds') = Len(cmds) - 1 /\ Len(cmds) \in Nat
  BY <1>2, RemoveAtApart, RemoveAtProperties DEF OnList, Calm, TypeInv, TypeOK, ListInv
<1>6. GivesBack(t, l) /\ l \in Loc
  BY <1>1, <1>2, <1>3 DEF GivesBack, SameUnsent, Before, Listed, Loc, Locking
<1>7. SlotInv'
  BY <1>2, <1>6, GivesBackSlots
<1>8. \A u \in Senders : AtWork(u)' => /\ AtWork(u) /\ u # t /\ pc'[u] = pc[u]
                                       /\ slot[u] # slot[t]
  BY <1>1, <1>4, SlotsDiffer DEF AtWork
<1>9. OnList \subseteq Slots /\ \A r \in OnList : cmd[r] \in Calls
  BY OnListTyped DEF Calm
<1>10. ASSUME Working
       PROVE  /\ \A r \in OnList' : used'[r]
              /\ \A u \in Calls : AtWork(u)' /\ (pc'[u] \in Before \/ Bypasses(u)')
                     => slot'[u] \notin OnList'
              /\ \A r \in OnList' : Message(r)'.reply => pc'[cmd'[r]] \in Held
  <2>1. \A r \in OnList' : used'[r]
    BY <1>2, <1>5, <1>9, <1>10 DEF ListInv, FreeSlot, Calm, TypeInv, TypeOK
  <2>2. \A u \in Calls : AtWork(u)' /\ (pc'[u] \in Before \/ Bypasses(u)')
                     => slot'[u] \notin OnList'
    BY <1>3, <1>5, <1>8, <1>10 DEF ListInv, Bypasses
  <2>3. ASSUME NEW r \in OnList', Message(r)'.reply
        PROVE  pc'[cmd'[r]] \in Held
    <3>1. r \in OnList /\ r # slot[t] /\ r \in Slots /\ cmd[r] \in Calls
      BY <1>5, <1>9
    <3>2. cmd[r] # t
      BY <3>1 DEF SlotInv
    <3>3. pc[cmd[r]] \in Held
      BY <1>3, <1>10, <2>3, <3>1 DEF ListInv, Message
    <3>4. QED
      BY <1>3, <1>4, <3>1, <3>2, <3>3
  <2>4. QED
    BY <2>1, <2>2, <2>3
<1>11. ASSUME bus' = "UP"
       PROVE  /\ queue_sz' = Len(cmds') /\ queue_sz' <= MaxQueued
              /\ \A u \in Senders : AtWork(u)' /\ pc'[u] \notin Before /\ ~Bypasses(u)'
                     => slot'[u] \in OnList'
  <2>1. queue_sz' = Len(cmds') /\ queue_sz' <= MaxQueued
    BY <1>2, <1>3, <1>5, <1>11, BoundsAssumption DEF ListInv
  <2>2. \A u \in Senders : AtWork(u)' /\ pc'[u] \notin Before /\ ~Bypasses(u)'
                     => slot'[u] \in OnList'
    BY <1>3, <1>5, <1>8, <1>11 DEF ListInv, Bypasses
  <2>3. QED
    BY <2>1, <2>2
<1>12. ListInv'
  <2>1. Working' => Working
    BY <1>3 DEF Working
  <2>2. QED
    BY <1>5, <1>10, <1>11, <2>1 DEF ListInv
<1>13. QED
  BY <1>7, <1>12

\* The worker takes the first command of the list; its caller has left it.
LEMMA LookSlots ==
    ASSUME Calm, SlotInv, ListInv, Look
    PROVE  SlotInv' /\ ListInv'
<1> USE ThreadsAssumption DEF Threads, Senders
<1>1. CASE Goto(Worker, "idle") /\ slot' = slot
  <2>1. Quiet(Worker, "idle") /\ "idle" \in Loc
    BY <1>1 DEF Look, Quiet, SameUnsent, Before, Listed, Working, Loc, pool, link
  <2>2. QED
    BY <1>1, <2>1, QuietSlots, QuietList
<1>2. CASE cmds # <<>> /\ Unsent(Head(cmds)) /\ Goto(Worker, "clear")
           /\ slot' = [slot EXCEPT ![Worker] = Head(cmds)]
  <2> DEFINE h == Head(cmds)
  <2>1. h \in OnList /\ h \in Slots /\ "WAIT_PUSH" \in flags[h]
    <3>1. cmds[1] = h /\ 1 \in DOMAIN cmds
      BY <1>2 DEF Calm, TypeInv, TypeOK
    <3>2. QED
      BY <1>2, <3>1 DEF OnList, ToSet, Unsent, Calm, TypeInv, TypeOK
  <2> HIDE DEF h
  <2>2. UNCHANGED <<state, cmds, queue_sz, used, cmd, flags, bus, kind>> /\ OnList' = OnList
    BY DEF Look, OnList, pool, link
  <2>3. /\ \A u \in Threads : pc'[u] = IF u = Worker THEN "clear" ELSE pc[u]
        /\ \A u \in Senders : slot'[u] = IF u = Worker THEN h ELSE slot[u]
    BY <1>2 DEF h, Goto, Calm, TypeInv, TypeOK
  <2>4. \A u \in Calls : AtWork(u)' => /\ AtWork(u) /\ pc'[u] = pc[u] /\ slot'[u] = slot[u]
                                       /\ u # Worker /\ pc[u] # "clear"
    BY <2>3 DEF AtWork, Calm, PlaceInv, Allowed, Before, Listed
  <2>5. SlotInv'
    <3>1. ASSUME NEW u \in Calls, AtWork(u)'
          PROVE  /\ used'[slot'[u]] /\ "WAIT_PUSH" \notin flags'[slot'[u]]
                 /\ cmd'[slot'[u]] = u /\ slot'[u] # h
      BY <2>1, <2>2, <2>4, <3>1 DEF SlotInv
    <3>2. used'[h] /\ slot'[Worker] = h /\ pc'[Worker] = "clear" /\ Worker \notin Calls
      BY <2>1, <2>2, <2>3 DEF SlotInv
    <3>3. \A r \in Slots : "WAIT_PUSH" \in flags'[r] => used'[r]
      BY <2>2 DEF SlotInv
    <3>4. \A r \in Slots : cmd'[r] \in Calls => pc'[cmd'[r]] # "idle" /\ slot'[cmd'[r]] = r
      BY <2>2, <2>3, <3>2 DEF SlotInv
    <3>5. QED
      BY <3>1, <3>2, <3>3, <3>4 DEF SlotInv
  <2>6. ListInv'
    <3>1. IsInjective(cmds') /\ (Working' <=> Working)
      BY <2>2 DEF ListInv, Working
    <3>2. \A u \in Calls : (Bypasses(u)' <=> Bypasses(u)) /\ u # Worker
      BY <2>2 DEF Bypasses
    <3>3. OnList \subseteq Slots /\ \A r \in OnList : cmd[r] \in Calls
      BY OnListTyped DEF Calm
    <3>4. ASSUME Working
          PROVE  /\ \A r \in OnList : used'[r]
                 /\ \A u \in Calls : AtWork(u)' /\ (pc'[u] \in Before \/ Bypasses(u)')
                        => slot'[u] \notin OnList
                 /\ \A r \in OnList : Message(r)'.reply => pc'[cmd'[r]] \in Held
      BY <2>2, <2>3, <2>4, <3>2, <3>3, <3>4 DEF ListInv, Message
    <3>5. ASSUME bus' = "UP"
          PROVE  /\ queue_sz' = Len(cmds') /\ queue_sz' <= MaxQueued
                 /\ \A u \in Senders : AtWork(u)' /\ pc'[u] \notin Before /\ ~Bypasses(u)'
                        => slot'[u] \in OnList
      BY <2>1, <2>2, <2>3, <2>4, <3>2, <3>5 DEF ListInv
    <3>6. QED
      BY <2>2, <3>1, <3>4, <3>5 DEF ListInv
  <2>7. QED
    BY <2>5, <2>6
<1>3. QED
  BY <1>1, <1>2 DEF Look

\* It clears the flag and is then the sender of the command.
LEMMA ClearSlots ==
    ASSUME Calm, SlotInv, ListInv, Clear
    PROVE  SlotInv' /\ ListInv'
<1> USE ThreadsAssumption DEF Threads, Senders
<1>1. pc[Worker] = "clear" /\ AtWork(Worker) /\ slot[Worker] \in Slots
  BY DEF Clear, AtWork, Calm, TypeInv
<1>2. UNCHANGED <<state, cmds, queue_sz, used, cmd, slot, bus, kind>> /\ OnList' = OnList
  BY DEF Clear, OnList, mgr, link, calls
<1>3. \A u \in Threads : pc'[u] = IF u = Worker THEN "fill" ELSE pc[u]
  BY DEF Clear, Goto, Calm, TypeInv, TypeOK
<1>4. \A r \in Slots : "WAIT_PUSH" \in flags'[r] <=> r # slot[Worker] /\ "WAIT_PUSH" \in flags[r]
  BY <1>1 DEF Clear, Calm, TypeInv, TypeOK
<1>5. \A u \in Senders : AtWork(u)' => /\ AtWork(u) /\ (u # Worker => pc'[u] = pc[u])
                                       /\ slot[u] \in Slots
  BY <1>1, <1>3 DEF AtWork, Calm, TypeInv
<1>6. SlotInv'
  <2>1. ASSUME NEW u \in Senders, AtWork(u)'
        PROVE  /\ used'[slot'[u]]
               /\ pc'[u] # "clear" => "WAIT_PUSH" \notin flags'[slot'[u]]
               /\ u \in Calls => cmd'[slot'[u]] = u
    BY <1>2, <1>4, <1>5, <2>1 DEF SlotInv
  <2>2. AtWork(Worker)' => \A u \in Calls : AtWork(u)' => slot'[u] # slot'[Worker]
    BY <1>2, <1>5 DEF SlotInv
  <2>3. \A r \in Slots : "WAIT_PUSH" \in flags'[r] => used'[r]
    BY <1>2, <1>4 DEF SlotInv
  <2>4. \A r \in Slots : cmd'[r] \in Calls => pc'[cmd'[r]] # "idle" /\ slot'[cmd'[r]] = r
    BY <1>2, <1>3 DEF SlotInv
  <2>5. QED
    BY <2>1, <2>2, <2>3, <2>4 DEF SlotInv
<1>7. ListInv'
  <2>1. (Working' <=> Working) /\ \A u \in Calls : (Bypasses(u)' <=> Bypasses(u)) /\ u # Worker
    BY <1>2 DEF Bypasses, Working
  <2>2. OnList \subseteq Slots /\ \A r \in OnList : cmd[r] \in Calls
    BY OnListTyped DEF Calm
  <2>3. ASSUME Working
        PROVE  /\ \A u \in Calls : AtWork(u)' /\ (pc'[u] \in Before \/ Bypasses(u)')
                      => slot'[u] \notin OnList
               /\ \A r \in OnList : Message(r)'.reply => pc'[cmd'[r]] \in Held
    BY <1>2, <1>3, <1>5, <2>1, <2>2, <2>3 DEF ListInv, Message
  <2>4. ASSUME bus' = "UP"
        PROVE  \A u \in Senders : AtWork(u)' /\ pc'[u] \notin Before /\ ~Bypasses(u)'
                      => slot'[u] \in OnList
    BY <1>1, <1>2, <1>3, <1>5, <2>1, <2>4 DEF ListInv, Bypasses, Before
  <2>5. QED
    BY <1>2, <2>1, <2>3, <2>4 DEF ListInv
<1>8. QED
  BY <1>6, <1>7

\* The list is emptied when the device is gone.
LEMMA RemoverSlots ==
    ASSUME Calm, SlotInv, ListInv, Drain \/ Flush
    PROVE  SlotInv' /\ ListInv'
<1> USE ThreadsAssumption DEF Threads, Senders, pool, link, calls
<1>1. UNCHANGED <<used, cmd, flags, slot, bus, kind>> /\ cmds' = <<>> /\ (Working' => Working)
  BY DEF Drain, Flush, Working
<1>2. bus' # "UP"
  BY <1>1 DEF Drain, Flush, Calm, PlaceInv
<1>3. OnList' = {} /\ IsInjective(cmds')
  BY <1>1 DEF OnList, ToSet, IsInjective
<1>4. \A u \in Senders : pc'[u] = pc[u]
  BY DEF Drain, Flush, Goto, Calm, TypeInv, TypeOK
<1>5. \A u \in Senders : AtWork(u)' <=> AtWork(u)
  BY <1>4 DEF AtWork
<1>6. SlotInv'
  BY <1>1, <1>4, <1>5 DEF SlotInv
<1>7. ListInv'
  BY <1>2, <1>3 DEF ListInv
<1>8. QED
  BY <1>6, <1>7

LEMMA StepSlots ==
    ASSUME Calm, SlotInv, ListInv, [Next]_vars
    PROVE  SlotInv' /\ ListInv'
<1> USE DEF Threads, Senders
<1>1. ASSUME NEW t \in Threads, \E l \in Loc : Quiet(t, l)
      PROVE  SlotInv' /\ ListInv'
  <2>1. PICK l \in Loc : Quiet(t, l)
    BY <1>1
  <2>2. QED
    BY <2>1, QuietSlots, QuietList DEF Quiet
<1>2. ASSUME NEW t \in Senders, \E l \in Loc : Freed(t, l)
      PROVE  SlotInv' /\ ListInv'
  <2>1. PICK l \in Loc : Freed(t, l)
    BY <1>2
  <2>2. QED
    BY <2>1, GivesBackSlots, FreedList DEF Freed, GivesBack
<1>3. ASSUME NEW c \in Calls, CallStep(c) \/ Start(c) \/ Killed(c)
      PROVE  SlotInv' /\ ListInv'
  <2>1. CASE Killed(c) \/ Spin(c) \/ SpinAgain(c) \/ Wake(c) \/ Rewake(c)
    BY <2>1, <1>1, QuietSteps
  <2>2. CASE UnlockUnheld(c) \/ Refuse(c)
    <3>1. Freed(c, "returned") /\ "returned" \in Loc
      BY <2>2, UnheldFreed DEF Loc
    <3>2. QED
      BY <3>1, <1>2
  <2>3. CASE Enqueue(c)
    <3>1. state # "DEINIT"
      BY <2>3, ThreadsAssumption DEF Enqueue, AtEnqueue, Next, vars, Goto, Calm, TypeInv, TypeOK
    <3>2. QED
      BY <2>3, <3>1, EnqueueSlots
  <2>4. CASE Start(c)
    BY <2>4, StartSlots
  <2>5. QED
    BY <1>3, <2>1, <2>2, <2>3, <2>4 DEF CallStep
<1>4. ASSUME NEW t \in Senders, SenderStep(t)
      PROVE  SlotInv' /\ ListInv'
  <2>1. CASE Transmit(t)
    BY <2>1, <1>1, <1>2, SendingSteps
  <2>2. CASE Completed(t) \/ TimedOut(t)
    BY <2>2, <1>1, QuietSteps
  <2>3. CASE Delete(t)
    <3>1. CASE slot[t] \notin OnList
      <4>1. Quiet(t, "oops") /\ "oops" \in Loc
        BY <2>3, <3>1, DeleteNone DEF Loc
      <4>2. QED
        BY <4>1, <1>1
    <3>2. QED
      BY <2>3, <3>1, DeleteSlots
  <2>4. CASE Crash(t)
    BY <2>4, <1>1, <1>2, CrashSteps
  <2>5. QED
    BY <1>4, <2>1, <2>2, <2>3, <2>4 DEF SenderStep, Transmit
<1>5. ASSUME WorkerStep \/ RxStep \/ RemoverStep \/ Stop
      PROVE  SlotInv' /\ ListInv'
  <2>1. CASE StartWork \/ Confirm \/ Stop \/ Teardown
    BY <2>1, <1>1, QuietSteps
  <2>2. CASE Indicate
    <3>1. Quiet(Rx, "idle") /\ "idle" \in Loc
      BY <2>2, QuietIndicate DEF Loc
    <3>2. QED
      BY <3>1, <1>1
  <2>3. QED
    BY <1>5, <2>1, <2>2, LookSlots, ClearSlots, RemoverSlots
       DEF WorkerStep, RxStep, RemoverStep, Teardown
<1>6. ASSUME NEW t \in Threads, Acquire(t)
      PROVE  SlotInv' /\ ListInv'
  BY <1>1, <1>6, QuietSteps
<1>7. CASE Transferred \/ UNCHANGED vars
  <2>1. UNCHANGED <<state, cmds, queue_sz, used, cmd, flags, bus, pc, slot, kind>>
    BY <1>7 DEF Transferred, vars, mgr, pool, link, calls
  <2>2. SlotInv'
    BY <2>1 DEF SlotInv, AtWork
  <2>3. ListInv'
    BY <2>1 DEF ListInv, AtWork, Working, OnList, Message, Bypasses
  <2>4. QED
    BY <2>2, <2>3
<1>8. QED
  BY <1>3, <1>4, <1>5, <1>6, <1>7 DEF Next, Step

LEMMA InitSlots == Init => PlaceInv /\ SlotInv /\ ListInv
<1> SUFFICES ASSUME Init
             PROVE  PlaceInv /\ SlotInv /\ ListInv
  OBVIOUS
<1> USE ThreadsAssumption DEF Init, Threads, Senders
<1>1. PlaceInv
  BY DEF PlaceInv, Allowed
<1>2. \A t \in Senders : ~AtWork(t)
  BY DEF AtWork
<1>3. SlotInv
  BY <1>2 DEF SlotInv
<1>4. ListInv
  <2>1. OnList = {} /\ IsInjective(cmds) /\ Len(cmds) = 0
    BY DEF OnList, ToSet, IsInjective
  <2>2. QED
    BY <1>2, <2>1, BoundsAssumption DEF ListInv
<1>5. QED
  BY <1>1, <1>3, <1>4

Owned == Calm /\ SlotInv /\ ListInv

LEMMA OwnedAlways == Spec => []Owned
<1>1. Init => Owned
  BY InitType, InitLock, InitSlots DEF Owned, Calm
<1>2. Owned /\ [Next]_vars => Owned'
  BY StepType, StepLock, StepPlace, StepSlots DEF Owned, Calm
<1>3. QED
  BY <1>1, <1>2, PTL DEF Spec

\* No two threads of the driver are ever at work on the same entry of cmd_array,
\* whatever times out, is killed or is unplugged: rwnx_send_msg gives an entry
\* back only when nobody else will touch it for this command.
THEOREM SlotsApartHolds == Spec => []SlotsApart
<1>1. Owned => SlotsApart
  BY SlotsDiffer DEF Owned, SlotsApart
<1>2. QED
  BY OwnedAlways, <1>1, PTL

\* The list of commands is intact and queue_sz counts it (cmd_mgr_queue).
THEOREM ListIntactHolds == Spec => []ListIntact
<1>1. Owned => ListIntact
  BY DEF Owned, ListInv, ListIntact
<1>2. QED
  BY OwnedAlways, <1>1, PTL

\* Until the first timeout, the caller whose reply buffer cmd_mgr_msgind may
\* still write to has not returned from rwnx_send_msg.
THEOREM BufferAliveHolds == Spec => []BufferAlive
<1>1. Owned => BufferAlive
  BY DEF Owned, ListInv, BufferAlive, Listed, Held
<1>2. QED
  BY OwnedAlways, <1>1, PTL

-----------------------------------------------------------------------------
(* What survives a transmission that goes wrong: success needs an answer.   *)

Earned(c) == confirmedBy[c] # None /\ kind[confirmedBy[c]].cfm = kind[c].cfm

\* A caller has been told that its command is complete, or will be told.
Underway == Transmitting \cup {"wait"}
Told(c) ==
    \/ ret[c] = "0" \/ pc[c] \in {"delLock", "delete", "rewake"}
    \/ pc[c] \in Underway /\ done[slot[c]] > 0

\* AnswerEarned made inductive: with a confirmation the completion of a command
\* is counted up, and until the timeout and the drain by nothing else.
AnswerInv ==
    Working /\ bus = "UP" => \A c \in Calls : kind[c].reply /\ Told(c) => Earned(c)

LEMMA NobodyTold ==
    ASSUME AnswerInv, UNCHANGED <<kind, confirmedBy>>,
           Working' /\ bus' = "UP" => Working /\ bus = "UP",
           \A c \in Calls : kind[c].reply /\ Told(c)' => Told(c)
    PROVE  AnswerInv'
BY DEF AnswerInv, Earned

LEMMA MovesUntold ==
    ASSUME Owned, AnswerInv, UNCHANGED <<kind, confirmedBy, ret, done, slot>>,
           Working' /\ bus' = "UP" => Working /\ bus = "UP",
           NEW t \in Threads, NEW l, Goto(t, l),
           t \in Calls /\ kind[t].reply =>
               \/ l \notin Underway \cup {"delLock", "delete", "rewake"}
               \/ pc[t] \in Underway /\ l \in Underway
               \/ pc[t] \in {"delLock", "delete", "rewake"}
    PROVE  AnswerInv'
<1>1. ASSUME NEW c \in Calls, kind[c].reply, Told(c)'
      PROVE  Told(c)
  <2>1. pc \in [Threads -> Loc] /\ c \in Threads
    BY DEF Owned, Calm, TypeInv, TypeOK, Threads
  <2>2. CASE c = t
    <3>1. pc'[c] = l /\ ret'[c] = ret[c] /\ (done[slot[c]] > 0)' = (done[slot[c]] > 0)
      BY <2>1, <2>2 DEF Goto
    <3>2. QED
      BY <1>1, <2>2, <3>1 DEF Told, Underway, Transmitting
  <2>3. CASE c # t
    BY <1>1, <2>1, <2>3 DEF Told, Goto
  <2>4. QED
    BY <2>2, <2>3
<1>2. QED
  BY <1>1, NobodyTold

LEMMA IndicateTells == ASSUME Owned, AnswerInv, Indicate PROVE AnswerInv'
<1> USE ThreadsAssumption DEF Threads, Senders
<1>0. UNCHANGED <<state, bus, kind, ret, slot>> /\ Goto(Rx, "idle")
  BY DEF Indicate
<1>1. CASE UNCHANGED <<done, confirmedBy>>
  BY <1>0, <1>1, MovesUntold DEF Underway, Transmitting, Working
<1>2. ASSUME NEW i \in 1..Len(cmds), Confirmable(cmds[i]),
             CmdComplete(cmds[i], flags[cmds[i]] \ {"WAIT_CFM"}),
             confirmedBy' = [confirmedBy EXCEPT ![cmd[cmds[i]]] = rxmsg]
      PROVE  AnswerInv'
  <2>1. cmd[cmds[i]] \in Calls /\ cmds[i] \in Slots /\ rxmsg \in Calls
    BY DEF Owned, Calm, TypeInv, TypeOK, Indicate
  <2>2. /\ confirmedBy'[cmd[cmds[i]]] # None
        /\ kind[confirmedBy'[cmd[cmds[i]]]].cfm = kind[cmd[cmds[i]]].cfm
    <3>1. confirmedBy'[cmd[cmds[i]]] = rxmsg
      BY <1>2, <2>1 DEF Owned, Calm, TypeInv, TypeOK
    <3>2. kind[rxmsg].cfm = kind[cmd[cmds[i]]].cfm /\ rxmsg # None
      BY <1>2, <2>1 DEF Confirmable, Message
    <3>3. QED
      BY <3>1, <3>2
  <2>3. ASSUME NEW c \in Calls, c # cmd[cmds[i]], Told(c)'
        PROVE  Told(c) /\ confirmedBy'[c] = confirmedBy[c]
    <3>1. pc'[c] = pc[c] /\ ret'[c] = ret[c] /\ confirmedBy'[c] = confirmedBy[c]
      BY <1>0, <1>2, <2>3 DEF Goto, Owned, Calm, TypeInv, TypeOK
    <3>2. ASSUME pc[c] \in Underway
          PROVE  done'[slot'[c]] = done[slot[c]]
      <4>1. AtWork(c) /\ slot[c] \in Slots /\ cmd[slot[c]] = c
        BY <3>2 DEF Underway, Transmitting, AtWork, Owned, Calm, SlotInv, TypeInv
      <4>2. slot[c] # cmds[i]
        BY <2>3, <4>1
      <4>3. \E n : done' = [done EXCEPT ![cmds[i]] = n]
        BY <1>2 DEF CmdComplete
      <4>4. QED
        BY <1>0, <4>1, <4>2, <4>3 DEF Owned, Calm, TypeInv, TypeOK
    <3>3. QED
      BY <2>3, <3>1, <3>2 DEF Told
  <2>4. QED
    BY <1>0, <2>2, <2>3 DEF AnswerInv, Earned, Working
<1>3. QED
  BY <1>1, <1>2 DEF Indicate

LEMMA CallTells ==
    ASSUME Owned, AnswerInv, NEW d \in Calls, CallStep(d) \/ Start(d)
    PROVE  AnswerInv'
<1> USE ThreadsAssumption DEF Threads, Senders
<1>1. /\ UNCHANGED <<state, bus, kind, confirmedBy>>
      /\ Working' /\ bus' = "UP" => Working /\ bus = "UP"
  BY DEF CallStep, Spin, SpinAgain, UnlockUnheld, Refuse, Enqueue, Wake, Rewake, Start,
         link, mgr, calls, Working
<1>2. CASE bus # "UP"
  BY <1>1, <1>2 DEF AnswerInv
<1>3. ASSUME NEW c \in Calls, c # d, Told(c)', bus = "UP"
      PROVE  Told(c)
  <2>1. pc'[c] = pc[c] /\ ret'[c] = ret[c] /\ slot'[c] = slot[c]
    BY <1>3 DEF CallStep, Spin, SpinAgain, UnlockUnheld, Refuse, Enqueue, Wake, Rewake,
       Start, Return, Goto, calls, Owned, Calm, TypeInv, TypeOK
  <2>2. ASSUME pc[c] \in Underway, done'[slot[c]] > 0
        PROVE  done[slot[c]] > 0
    <3>1. slot[c] \in Slots
      BY <2>2 DEF Underway, Transmitting, AtWork, Owned, Calm, TypeInv
    <3>2. CASE Enqueue(d)
      BY <2>2, <3>1, <3>2 DEF Enqueue, Owned, Calm, TypeInv, TypeOK
    <3>3. CASE done' = done
      BY <2>2, <3>3
    <3>4. QED
      BY <3>2, <3>3 DEF CallStep, Spin, SpinAgain, UnlockUnheld, Refuse, Wake, Rewake,
         Start, pool
  <2>3. QED
    BY <1>3, <2>1, <2>2 DEF Told
<1>4. ASSUME kind[d].reply, Told(d)', bus = "UP"
      PROVE  Told(d)
  <2>1. kind[d].route = "queue" /\ pc[d] # "wake"
    BY <1>4, KindOf DEF Owned, Calm, PlaceInv, Allowed
  <2>2. CASE Spin(d) \/ SpinAgain(d) \/ UnlockUnheld(d) \/ Refuse(d)
    BY <1>4, <2>2 DEF Spin, SpinAgain, UnlockUnheld, Refuse, Told, Underway, Transmitting,
       Return, Goto, calls, Owned, Calm, TypeInv, TypeOK
  <2>3. CASE Enqueue(d)
    <3>1. done'[slot'[d]] = 0 /\ ret'[d] = ret[d] /\ pc'[d] \in {"wake", "fill"}
      BY <2>3 DEF Enqueue, AtEnqueue, AtWork, Goto, calls, Owned, Calm, TypeInv, TypeOK
    <3>2. QED
      BY <1>4, <3>1 DEF Told
  <2>4. CASE Rewake(d)
    BY <2>4 DEF Rewake, Told
  <2>5. CASE Start(d)
    <3>1. pc'[d] \in {"spin", "enqLock", "oops"} /\ ret' = ret
      BY <1>4, <2>1, <2>5 DEF Start, Goto, Owned, Calm, TypeInv, TypeOK
    <3>2. QED
      BY <1>4, <3>1 DEF Told, Underway, Transmitting
  <2>6. QED
    BY <2>1, <2>2, <2>3, <2>4, <2>5 DEF CallStep, Wake
<1>5. QED
  BY <1>1, <1>2, <1>3, <1>4, NobodyTold

LEMMA SenderTells ==
    ASSUME Owned, AnswerInv, NEW t \in Senders, SenderStep(t)
    PROVE  AnswerInv'
<1> USE ThreadsAssumption DEF Threads, Senders
<1>1. CASE Transmit(t)
  <2>1. /\ pc[t] \in Transmitting /\ UNCHANGED <<state, bus, kind, confirmedBy, done, slot>>
        /\ Working' = Working
    BY <1>1, TransmitMoves DEF mgr, Working
  <2>2. CASE Sent(t) = "returned" /\ AfterSending(t)
    <3>1. t \in Calls /\ kind[t].route = "direct" /\ Return(t, "0")
      BY <2>2 DEF AfterSending, Sent
    <3>2. ~kind[t].reply
      BY <3>1, KindOf DEF Owned, Calm
    <3>3. ASSUME NEW c \in Calls, kind[c].reply, Told(c)'
          PROVE  Told(c)
      BY <2>1, <3>1, <3>2, <3>3 DEF Return, Goto, Told, Owned, Calm, TypeInv, TypeOK
    <3>4. QED
      BY <2>1, <3>3, NobodyTold
  <2>3. ASSUME NEW l \in Transmitting \cup {"wait", "oops"}, Goto(t, l), ret' = ret
        PROVE  AnswerInv'
    BY <2>1, <2>3, MovesUntold DEF Underway, Transmitting
  <2>4. QED
    BY <1>1, <2>2, <2>3, TransmitMoves DEF AfterSending, Transmitting
<1>2. CASE Completed(t)
  <2>1. /\ UNCHANGED <<state, bus, kind, confirmedBy, ret, slot>> /\ Goto(t, "delLock")
        /\ pc[t] = "wait" /\ done[slot[t]] > 0
        /\ done' = [done EXCEPT ![slot[t]] = @ - 1]
    BY <1>2 DEF Completed, mgr, link, calls
  <2>2. slot[t] \in Slots
    BY <2>1 DEF AtWork, Owned, Calm, TypeInv
  <2>3. ASSUME NEW c \in Calls, Told(c)'
        PROVE  Told(c)
    <3>1. CASE c = t
      BY <2>1, <3>1 DEF Told, Underway
    <3>2. CASE c # t
      <4>1. pc'[c] = pc[c]
        BY <2>1, <3>2 DEF Goto, Owned, Calm, TypeInv, TypeOK
      <4>2. ASSUME pc[c] \in Underway, done'[slot[c]] > 0
            PROVE  done[slot[c]] > 0
        <5>1. slot[c] \in Slots
          BY <4>2 DEF Underway, Transmitting, AtWork, Owned, Calm, TypeInv
        <5>2. done[slot[c]] \in Nat
          BY <5>1 DEF Owned, Calm, TypeInv, TypeOK
        <5>3. QED
          BY <2>1, <2>2, <4>2, <5>1, <5>2 DEF Owned, Calm, TypeInv, TypeOK
      <4>3. QED
        BY <2>1, <2>3, <4>1, <4>2 DEF Told
    <3>3. QED
      BY <3>1, <3>2
  <2>4. QED
    BY <2>1, <2>3, NobodyTold DEF Working
<1>3. CASE TimedOut(t)
  BY <1>3, MovesUntold DEF TimedOut, Underway, Transmitting, mgr, pool, link, calls, Working
<1>4. CASE Delete(t)
  BY <1>4, MovesUntold DEF Delete, link, calls, Working, Underway, Transmitting
<1>5. CASE Crash(t)
  BY <1>5 DEF Crash, AnswerInv, Working
<1>6. QED
  BY <1>1, <1>2, <1>3, <1>4, <1>5 DEF SenderStep, Transmit

LEMMA StepTells ==
    ASSUME ~MayKill, Owned, AnswerInv, [Next]_vars
    PROVE  AnswerInv'
<1> USE ThreadsAssumption DEF Threads, Senders
<1>1. ASSUME NEW t \in Threads, Acquire(t)
      PROVE  AnswerInv'
  <2>1. PICK l : /\ Goto(t, l) /\ UNCHANGED <<state, bus, kind, confirmedBy, ret, done, slot>>
                 /\ l \in {Entered(pc[t]), "hung"} /\ pc[t] \in Locking
    BY <1>1 DEF Acquire, pool, link, calls
  <2>2. \/ pc[t] = "delLock"
        \/ l \notin Underway \cup {"delLock", "delete", "rewake"}
    BY <2>1 DEF Locking, Entered, Underway, Transmitting
  <2>3. QED
    BY <2>1, <2>2, MovesUntold DEF Working
<1>2. CASE Transferred \/ UNCHANGED vars
  <2>1. UNCHANGED <<state, bus, kind, confirmedBy, ret, done, slot, pc>>
    BY <1>2, TransferOnly DEF vars, mgr, pool, link, calls
  <2>2. QED
    BY <2>1 DEF AnswerInv, Told, Earned, Working
<1>3. CASE WorkerStep
  <2>1. /\ UNCHANGED <<state, bus, kind, confirmedBy, ret, done>> /\ \E l : Goto(Worker, l)
        /\ \A c \in Calls : slot'[c] = slot[c]
    BY <1>3 DEF WorkerStep, StartWork, Look, Clear, mgr, pool, link, calls, Owned, Calm,
       TypeInv, TypeOK
  <2>2. ASSUME NEW c \in Calls, Told(c)'
        PROVE  Told(c)
    BY <2>1, <2>2 DEF Told, Goto, Owned, Calm, TypeInv, TypeOK
  <2>3. QED
    BY <2>1, <2>2, NobodyTold DEF Working
<1>4. CASE Confirm
  BY <1>4, MovesUntold DEF Confirm, mgr, pool, calls, Working, Underway, Transmitting
<1>5. CASE RemoverStep \/ Stop
  BY <1>5 DEF RemoverStep, CancelUrbs, FreeBuffer, StopRx, Drain, Flush, Stop, link,
     AnswerInv, Owned, Calm, PlaceInv
<1>6. QED
  BY <1>1, <1>2, <1>3, <1>4, <1>5, CallTells, SenderTells, IndicateTells
     DEF Next, Step, RxStep, Killed

\* Until a command times out or the device goes, a call with a reply buffer
\* returns 0 from rwnx_send_msg only after cmd_mgr_msgind has met its command
\* with a confirmation of the id it waits for: whatever goes wrong with the
\* transmission, which aicwf_set_cmd_tx does not report, if nobody is killed.
THEOREM AnswerEarnedHolds == ASSUME ~MayKill PROVE Spec => []AnswerEarned
<1>1. Init => AnswerInv
  <2>1. ASSUME Init, NEW c \in Calls
        PROVE  ~Told(c)
    BY <2>1 DEF Init, Told, Underway, Transmitting, Threads
  <2>2. QED
    BY <2>1 DEF AnswerInv
<1>2. Owned /\ AnswerInv /\ [Next]_vars => AnswerInv'
  BY StepTells
<1>3. AnswerInv => AnswerEarned
  BY DEF AnswerInv, AnswerEarned, Told, Earned
<1>4. QED
  BY OwnedAlways, <1>1, <1>2, <1>3, PTL DEF Spec

-----------------------------------------------------------------------------
(* The shared buffer is there, and without faults no thread comes to harm.  *)

\* Nobody but the removal frees the buffer, and a sender writes a message to it.
BufferThere == bus = "UP" => cmd_buf # "NULL"

LEMMA StepThere == ASSUME Owned, BufferThere, [Next]_vars PROVE BufferThere'
<1> USE ThreadsAssumption DEF BufferThere, link, bulk, Threads, Senders
<1>1. ASSUME NEW t \in Senders, SenderStep(t)
      PROVE  BufferThere'
  <2>1. CASE Write(t)
    <3>1. cmd[slot[t]] \in Calls
      BY <2>1 DEF Write, AtWork, Owned, Calm, TypeInv
    <3>2. bus' = bus /\ (cmd_buf' = cmd[slot[t]] \/ cmd_buf' = cmd_buf)
      BY <2>1 DEF Write
    <3>3. QED
      BY <3>1, <3>2
  <2>2. CASE UNCHANGED <<bus, cmd_buf>>
    BY <2>2
  <2>3. QED
    BY <1>1, <2>1, <2>2 DEF SenderStep, Fill, TxMsg, Submit, Sending, TxTimedOut,
       KillUrb, Completed, TimedOut, Delete, Crash
<1>2. CASE FreeBuffer
  BY <1>2 DEF FreeBuffer, Owned, Calm, PlaceInv
<1>3. CASE Stop
  BY <1>3 DEF Stop
<1>4. CASE UNCHANGED <<bus, cmd_buf>>
  BY <1>4
<1>5. QED
  BY <1>1, <1>2, <1>3, <1>4
     DEF Next, Step, Acquire, CallStep, Spin, SpinAgain, UnlockUnheld, Refuse, Enqueue,
         Wake, Rewake, WorkerStep, StartWork, Look, Clear, RxStep, Confirm, Indicate,
         RemoverStep, CancelUrbs, StopRx, Drain, Flush, Start, Killed, Transferred, vars

\* Without timeouts and with the device in place nothing leaves the regular
\* course: every entry in use holds the command of a call that has begun.
Regular ==
    /\ state = "INITED" /\ bus = "UP"
    /\ \A t \in Threads : pc[t] \notin {"crashLock", "crash", "oops", "hung"}
    /\ \A s \in Slots : used[s] => cmd[s] \in Calls

\* There are as many entries as calls, and one call has not begun.
LEMMA FreeLeft ==
    ASSUME Calm, SlotInv, Regular, NEW c \in Calls, pc[c] = "idle",
           IsFiniteSet(Calls), Cardinality(Calls) <= ArraySize
    PROVE  Free # {}
<1> SUFFICES ASSUME Free = {}
             PROVE  FALSE
  OBVIOUS
<1>1. \A s \in Slots : cmd[s] \in Calls /\ pc[cmd[s]] # "idle" /\ slot[cmd[s]] = s
  BY DEF Free, Regular, SlotInv
<1> DEFINE others == Calls \ {c}
           f == [s \in Slots |-> cmd[s]]
<1>2. f \in [Slots -> others] /\ \A r, s \in Slots : f[r] = f[s] => r = s
  BY <1>1
<1>3. IsFiniteSet(others) /\ Cardinality(others) = Cardinality(Calls) - 1
  BY FS_RemoveElement
<1>4. IsFiniteSet(Slots) /\ Cardinality(Slots) = ArraySize
  <2>1. 0 \in Int /\ ArraySize - 1 \in Int /\ ArraySize \in Nat
    BY BoundsAssumption
  <2>2. /\ IsFiniteSet(0..(ArraySize - 1))
        /\ Cardinality(0..(ArraySize - 1)) =
              IF 0 > ArraySize - 1 THEN 0 ELSE (ArraySize - 1) - 0 + 1
    BY <2>1, FS_Interval
  <2>3. QED
    BY <2>1, <2>2 DEF Slots
<1>5. Cardinality(Calls) \in Nat
  BY FS_CardinalityType
<1>6. Cardinality(others) < Cardinality(Slots)
  BY <1>3, <1>4, <1>5, BoundsAssumption
<1> HIDE DEF f, others
<1>7. \E r, s \in Slots : r # s /\ f[r] = f[s]
  BY <1>2, <1>3, <1>4, <1>6, FS_PigeonHole
<1>8. QED
  BY <1>2, <1>7

LEMMA StepRegular ==
    ASSUME ~MayTimeout, ~MayRemove, IsFiniteSet(Calls), Cardinality(Calls) <= ArraySize,
           Owned, BufferThere, Regular, [Next]_vars
    PROVE  Regular'
<1> USE ThreadsAssumption DEF mgr, pool, link, calls, Threads, Senders
<1>1. Calm /\ SlotInv /\ ListInv
  BY DEF Owned
<1>2. ASSUME NEW t \in Threads, NEW l, Goto(t, l), UNCHANGED <<state, bus, cmd>>,
             l \notin {"crashLock", "crash", "oops", "hung"},
             \A s \in Slots : used'[s] => used[s]
      PROVE  Regular'
  BY <1>1, <1>2 DEF Regular, Goto, Calm, TypeInv, TypeOK
<1>3. pc[Remover] = "idle"
  BY <1>1 DEF Calm, PlaceInv, Regular
<1>4. \A t \in Senders : FreeSlot(slot[t]) => \A s \in Slots : used'[s] => used[s]
  BY <1>1 DEF FreeSlot, Calm, TypeInv, TypeOK
<1>5. ASSUME NEW t \in Threads, Acquire(t)
      PROVE  Regular'
  <2>1. lock # "lost"
    BY <1>1 DEF Calm, LockInv, Working, Regular
  <2>2. PICK l : Goto(t, l) /\ l \in {"enqueue", "check", "delete", "look", "indicate", "drain"}
    BY <1>5, <2>1 DEF Acquire, Entered, Locking, Regular
  <2>3. QED
    BY <1>2, <1>5, <2>2 DEF Acquire
<1>6. ASSUME NEW c \in Calls, Start(c)
      PROVE  Regular'
  <2>1. Free # {} /\ pc[c] = "idle"
    BY <1>1, <1>6, FreeLeft DEF Start
  <2>2. PICK s \in Free : /\ used' = [used EXCEPT ![s] = TRUE]
                          /\ cmd' = [cmd EXCEPT ![s] = c]
                          /\ Goto(c, CASE kind[c].route = "direct" -> "fill"
                                       [] kind[c].reply -> "spin"
                                       [] OTHER -> "enqLock")
    BY <1>6, <2>1 DEF Start, Regular
  <2>3. PICK l \in {"fill", "spin", "enqLock"} : Goto(c, l)
    BY <2>2
  <2>4. \A r \in Slots : used'[r] => cmd'[r] \in Calls
    BY <1>1, <2>2 DEF Regular, Calm, TypeInv, TypeOK
  <2>5. QED
    BY <1>1, <1>6, <2>3, <2>4 DEF Start, Regular, Goto, Calm, TypeInv, TypeOK
<1>7. ASSUME NEW c \in Calls, CallStep(c) \/ Killed(c)
      PROVE  Regular'
  <2>1. PICK l \in {"delLock", "spinLock", "spin", "returned", "wake", "fill", "unheld"} : Goto(c, l)
    BY <1>7 DEF CallStep, Killed, Spin, SpinAgain, UnlockUnheld, Refuse, Enqueue, Wake,
       Rewake, Return
  <2>2. UNCHANGED <<state, bus, cmd>> /\ (used' = used \/ FreeSlot(slot[c]))
    BY <1>7 DEF CallStep, Killed, Spin, SpinAgain, UnlockUnheld, Refuse, Enqueue, Wake,
       Rewake
  <2>3. QED
    BY <1>2, <1>4, <2>1, <2>2
<1>8. ASSUME NEW t \in Senders, SenderStep(t)
      PROVE  Regular'
  <2>1. CASE Transmit(t) \/ Completed(t)
    <3>1. PICK l \in {"write", "send", "submit", "sending", "kill", "wait", "returned",
                      "delLock"} :
            Goto(t, l) /\ (used' = used \/ FreeSlot(slot[t]))
      <4>1. CASE Transmit(t)
        <5>1. \/ AfterSending(t)
              \/ \E l \in {"write", "send", "submit", "sending", "kill"} :
                    Goto(t, l) /\ used' = used
          BY <4>1, TransmitMoves DEF Regular, BufferThere
        <5>2. QED
          BY <5>1 DEF AfterSending, Return
      <4>2. CASE Completed(t)
        BY <4>2 DEF Completed
      <4>3. QED
        BY <2>1, <4>1, <4>2
    <3>2. UNCHANGED <<state, bus, cmd>>
      BY <2>1, TransmitMoves DEF Completed
    <3>3. QED
      BY <1>2, <1>4, <3>1, <3>2
  <2>2. CASE Delete(t)
    <3>1. slot[t] \in OnList
      BY <1>1, <2>2 DEF Delete, ListInv, Regular, AtWork, Before, Bypasses, Calm, PlaceInv,
         Allowed, Transmitting
    <3>2. PICK l \in {"lookLock", "rewake"} : Goto(t, l) /\ FreeSlot(slot[t])
      BY <2>2, <3>1 DEF Delete, OnList
    <3>3. QED
      BY <1>2, <1>4, <2>2, <3>2 DEF Delete
  <2>3. ~TimedOut(t) /\ ~Crash(t)
    BY DEF TimedOut, Crash, Regular
  <2>4. QED
    BY <1>8, <2>1, <2>2, <2>3 DEF SenderStep, Transmit
<1>9. ASSUME WorkerStep \/ RxStep
      PROVE  Regular'
  <2>1. PICK t \in {Worker, Rx} : \E l \in {"lookLock", "clear", "fill", "indLock", "idle"} : Goto(t, l)
    BY <1>9 DEF WorkerStep, RxStep, StartWork, Look, Clear, Confirm, Indicate
  <2>2. PICK l \in {"lookLock", "clear", "fill", "indLock", "idle"} : Goto(t, l)
    BY <2>1
  <2>3. UNCHANGED <<state, bus, cmd, used>>
    BY <1>9 DEF WorkerStep, RxStep, StartWork, Look, Clear, Confirm, Indicate
  <2>4. QED
    BY <1>2, <2>2, <2>3
<1>10. ~RemoverStep /\ ~Stop
  BY <1>3 DEF RemoverStep, CancelUrbs, FreeBuffer, StopRx, Drain, Flush, Stop
<1>11. CASE Transferred \/ UNCHANGED vars
  BY <1>11, TransferOnly DEF vars, Regular
<1>12. QED
  BY <1>5, <1>6, <1>7, <1>8, <1>9, <1>10, <1>11 DEF Next, Step

\* With an entry of cmd_array for every call, no timeout and the device in place,
\* however many transmissions fail, no thread of the driver dies, on the null pointer rwnx_send_msg takes from
\* the exhausted pool or on the poisoned entry of a second list_del, and none
\* spins on the lock for ever.
THEOREM NoOopsHolds ==
    ASSUME ~MayTimeout, ~MayRemove, IsFiniteSet(Calls), Cardinality(Calls) <= ArraySize
    PROVE  Spec => []NoOops
<1>1. Init => Regular /\ BufferThere
  BY ThreadsAssumption DEF Init, Regular, BufferThere, Threads
<1>2. Owned /\ BufferThere /\ Regular /\ [Next]_vars => Regular' /\ BufferThere'
  BY StepRegular, StepThere
<1>3. Regular => NoOops
  BY DEF Regular, NoOops
<1>4. QED
  BY OwnedAlways, <1>1, <1>2, <1>3, PTL DEF Spec

-----------------------------------------------------------------------------
(* One command at a time.  From here on no caller is killed and every       *)
(* message goes through the queue: a killed caller takes a command off the  *)
(* list that the firmware has, and a message without confirmation is sent   *)
(* past the queue.  And the claims end with the first transmission that     *)
(* goes wrong: the second one takes the buffer as it then is.               *)

Smooth == bus = "UP" /\ ~failed
Queued == ~MayKill /\ \A k \in Kinds : k.route # "direct"

\* Where the message of a thread that transmits is not with the controller yet.
Filling == {"fill", "write", "send", "submit"}

\* A command that waits for its confirmation and for nothing else.
Pending(s) == "WAIT_CFM" \in flags[s] /\ "WAIT_PUSH" \notin flags[s]

\* Whatever comes after a command that waits for something is the worker's.
Ordered ==
    \A i, j \in 1..Len(cmds) :
        i < j /\ flags[cmds[i]] \cap Waiting # {} => "WAIT_PUSH" \in flags[cmds[j]]

\* The worker is at work on the first command.
WorkerFirst == AtWork(Worker) => cmds # <<>> /\ cmds[1] = slot[Worker]

\* A command about to be sent waits for an answer nobody was asked for yet; one
\* request at a time is with the controller, with the firmware or answered, that
\* of a command on the list; and a completed command waits for none.
Asking ==
    /\ \A t \in Senders : pc[t] \in {"clear"} \cup Filling =>
          "WAIT_CFM" \in flags[slot[t]] /\ ~Asked(cmd[slot[t]])
    /\ \A c \in Calls : Asked(c) => slot[c] \in OnList /\ cmd[slot[c]] = c /\ Pending(slot[c])
    /\ fw = <<>> \/ (Len(fw) = 1 /\ rxmsg = None /\ urb = None)
    /\ rxmsg = None \/ urb = None
    /\ \A s \in OnList : done[s] > 0 => "WAIT_CFM" \notin flags[s]
    /\ \A s \in OnList : "WAIT_PUSH" \in flags[s] => "WAIT_CFM" \in flags[s]
    /\ \A t \in Senders : pc[t] \in {"delLock", "delete"} => "WAIT_CFM" \notin flags[slot[t]]

\* One thread at a time has the buffer, and none while the controller has it.
\* After a timeout nobody begins to send: the first of the commands that nobody
\* will take off the list is before all that the worker should send.
Sole ==
    /\ \A t, u \in Senders : pc[t] \in Filling /\ pc[u] \in Filling => t = u
    /\ urb # None => \A t \in Senders : pc[t] \notin Filling

Stuck ==
    \E k \in 1..Len(cmds) :
        /\ \A i \in 1..k : "WAIT_PUSH" \notin flags[cmds[i]]
        /\ \A t \in Senders : pc[t] \in Listed => slot[t] # cmds[k]

SendInv ==
    Smooth =>
        /\ Ordered /\ WorkerFirst
        /\ Working => Asking
        /\ ~Working => Sole /\ pc[Worker] # "clear" /\ Stuck

\* BufferUntouched made inductive: the message is in the buffer from the moment
\* its sender has written it.
BufferInv ==
    Smooth =>
        /\ \A t \in Senders : pc[t] # "kill"
        /\ \A t \in Senders : pc[t] \in {"send", "submit"} => cmd_buf = cmd[slot[t]]
        /\ urb \in Calls \cup {None} /\ (urb # None => cmd_buf = urb)

LEMMA NoneBypasses == ASSUME Queued, TypeInv PROVE \A t : ~Bypasses(t)
BY DEF Queued, Bypasses, TypeInv, TypeOK

\* A slot at work that is past the queue is on the list.
LEMMA OnListAtWork ==
    ASSUME Queued, Owned, bus = "UP", NEW t \in Senders, pc[t] \in Listed \cup {"clear"}
    PROVE  AtWork(t) /\ slot[t] \in OnList /\ slot[t] \in Slots /\ cmd[slot[t]] \in Calls
BY NoneBypasses DEF Owned, Calm, ListInv, TypeInv, AtWork, Listed, Before

\* Every place of the list holds a slot, and every slot of the list has a place.
LEMMA Places ==
    ASSUME TypeInv
    PROVE  /\ Len(cmds) \in Nat /\ \A i \in 1..Len(cmds) : cmds[i] \in Slots /\ cmds[i] \in OnList
           /\ \A s \in OnList : \E i \in 1..Len(cmds) : cmds[i] = s
BY DEF TypeInv, TypeOK, OnList, ToSet

\* At most one command on the list is pending, and a pending one comes after
\* none that waits for anything.
LEMMA OnePending ==
    ASSUME TypeInv, Ordered, NEW r \in OnList, NEW s \in OnList, Pending(r), Pending(s)
    PROVE  r = s
<1>1. PICK i \in 1..Len(cmds), j \in 1..Len(cmds) : cmds[i] = r /\ cmds[j] = s
  BY Places
<1>2. flags[r] \cap Waiting # {} /\ flags[s] \cap Waiting # {}
  BY DEF Pending, Waiting
<1>3. ~(i < j) /\ ~(j < i)
  BY <1>1, <1>2 DEF Ordered, Pending
<1>4. i = j
  BY <1>3, Places
<1>5. QED
  BY <1>1, <1>4

LEMMA SentPrefix ==
    ASSUME TypeInv, Ordered, NEW k \in 1..Len(cmds), "WAIT_PUSH" \notin flags[cmds[k]]
    PROVE  \A i \in 1..k : "WAIT_PUSH" \notin flags[cmds[i]] /\
                           (i < k => flags[cmds[i]] \cap Waiting = {})
<1>1. \A i \in 1..k : i \in 1..Len(cmds) /\ (i < k \/ i = k)
  BY Places
<1>2. QED
  BY <1>1 DEF Ordered, Waiting

\* Until a timeout one thread sends at a time, and nothing is asked for then.
LEMMA NoneAsked ==
    ASSUME Queued, Owned, SendInv, BufferInv, Smooth, Working,
           NEW t \in Senders, pc[t] \in Filling
    PROVE  fw = <<>> /\ rxmsg = None /\ urb = None /\ \A c \in Calls : ~Asked(c)
<1>1. slot[t] \in OnList /\ slot[t] \in Slots /\ AtWork(t) /\ cmd[slot[t]] \in Calls
  BY OnListAtWork DEF Listed, Filling, Smooth
<1>2. Pending(slot[t]) /\ ~Asked(cmd[slot[t]])
  BY <1>1 DEF SendInv, Asking, Pending, Owned, SlotInv, Filling
<1>3. ASSUME NEW c \in Calls, Asked(c)
      PROVE  FALSE
  <2>1. slot[c] \in OnList /\ cmd[slot[c]] = c /\ Pending(slot[c])
    BY <1>3 DEF SendInv, Asking
  <2>2. slot[c] = slot[t]
    BY <1>1, <1>2, <2>1, OnePending DEF SendInv, Owned, Calm
  <2>3. QED
    BY <1>2, <1>3, <2>1, <2>2
<1>4. rxmsg = None /\ urb = None
  BY <1>3 DEF Asked, BufferInv, Owned, Calm, TypeInv, TypeOK
<1>5. fw = <<>>
  <2>1. SUFFICES ASSUME fw # <<>>
                 PROVE  FALSE
    OBVIOUS
  <2>2. fw \in Seq(Calls) /\ Head(fw) \in Calls /\ Head(fw) \in ToSet(fw)
    BY <2>1 DEF Owned, Calm, TypeInv, TypeOK, ToSet
  <2>3. QED
    BY <1>3, <2>2 DEF Asked
<1>6. QED
  BY <1>3, <1>4, <1>5

LEMMA SoleSender ==
    ASSUME Queued, Owned, SendInv, BufferInv, Smooth
    PROVE  Sole
<1>1. CASE ~Working
  BY <1>1 DEF SendInv
<1>2. CASE Working
  <2>1. ASSUME NEW t \in Senders, NEW u \in Senders,
               pc[t] \in Filling, pc[u] \in Filling
        PROVE  t = u
    <3>1. /\ AtWork(t) /\ slot[t] \in OnList /\ AtWork(u) /\ slot[u] \in OnList
          /\ slot[t] \in Slots /\ slot[u] \in Slots
      BY <2>1, OnListAtWork DEF Listed, Filling, Smooth
    <3>2. Pending(slot[t]) /\ Pending(slot[u])
      BY <1>2, <2>1, <3>1 DEF SendInv, Asking, Pending, Owned, SlotInv, Filling
    <3>3. slot[t] = slot[u]
      BY <1>2, <3>1, <3>2, OnePending DEF SendInv, Owned, Calm
    <3>4. QED
      BY <3>1, <3>3, SlotsDiffer DEF Owned
  <2>2. urb # None => \A t \in Senders : pc[t] \notin Filling
    BY <1>2, NoneAsked
  <2>3. QED
    BY <2>1, <2>2 DEF Sole
<1>3. QED
  BY <1>1, <1>2

-----------------------------------------------------------------------------
\* A step that sends nothing, completes nothing and answers nothing.
Aside(t, l) ==
    /\ Goto(t, l) /\ l \notin {"clear", "fill", "delLock"}
    /\ l = "delete" => pc[t] = "delLock"
    /\ l \in Filling => pc[t] \in Filling
    /\ l \in Listed => pc[t] \in Listed
    /\ t = Worker => (l \in Before \cup Listed => pc[t] \in Before \cup Listed \cup {"clear"})
    /\ UNCHANGED <<state, cmds, cmd, slot, flags, done, urb, fw, rxmsg>>
    /\ Smooth' => Smooth

LEMMA AsideSend ==
    ASSUME Owned, SendInv, NEW t \in Threads, NEW l, Aside(t, l)
    PROVE  SendInv'
<1> USE ThreadsAssumption DEF Threads, Senders, Filling, Smooth
<1> SUFFICES ASSUME Smooth'
             PROVE  /\ Ordered' /\ WorkerFirst'
                    /\ Working' => Asking'
                    /\ ~Working' => Sole' /\ pc'[Worker] # "clear" /\ Stuck'
  BY DEF SendInv
<1>1. /\ Smooth /\ (Working' <=> Working) /\ OnList' = OnList
      /\ UNCHANGED <<state, cmds, cmd, slot, flags, done, urb, fw, rxmsg>>
  BY DEF Aside, Working, OnList
<1>2. \A u \in Threads : pc'[u] = IF u = t THEN l ELSE pc[u]
  BY DEF Aside, Goto, Owned, Calm, TypeInv, TypeOK
<1>3. \A u \in Senders : /\ pc'[u] = "clear" => pc[u] = "clear"
                         /\ pc'[u] \in Filling => pc[u] \in Filling
                         /\ pc'[u] \in {"delLock", "delete"} => pc[u] \in {"delLock", "delete"}
                         /\ pc'[u] \in Listed => pc[u] \in Listed
  BY <1>2 DEF Aside
<1>4. Ordered' /\ WorkerFirst'
  <2>1. AtWork(Worker)' => AtWork(Worker)
    BY <1>2, AtWorkIs DEF AtWork, Aside, Before, Listed
  <2>2. QED
    BY <1>1, <2>1 DEF SendInv, Ordered, WorkerFirst
<1>5. Working => Asking'
  BY <1>1, <1>3 DEF SendInv, Asking, Asked, Pending
<1>6. ~Working => Sole' /\ pc'[Worker] # "clear" /\ Stuck'
  BY <1>1, <1>3 DEF SendInv, Sole, Stuck
<1>7. QED
  BY <1>1, <1>4, <1>5, <1>6

\* A call takes a slot.
LEMMA StartSend ==
    ASSUME Queued, Owned, SendInv, NEW c \in Calls, Start(c)
    PROVE  SendInv'
<1> USE ThreadsAssumption DEF mgr, pool, link, bulk, calls, Threads, Senders, Filling, Smooth
<1>1. CASE \E l \in {"returned", "oops"} : Goto(c, l) /\ UNCHANGED <<pool, slot>>
  <2>1. PICK l \in {"returned", "oops"} : Goto(c, l) /\ UNCHANGED <<pool, slot>>
    BY <1>1
  <2>2. Aside(c, l)
    BY <2>1 DEF Start, Aside, Before, Listed
  <2>3. QED
    BY <2>2, AsideSend
<1>2. CASE \E s \in Free : /\ used' = [used EXCEPT ![s] = TRUE]
                           /\ cmd' = [cmd EXCEPT ![s] = c]
                           /\ slot' = [slot EXCEPT ![c] = s]
                           /\ UNCHANGED <<flags, done>>
                           /\ Goto(c, CASE kind[c].route = "direct" -> "fill"
                                        [] kind[c].reply -> "spin"
                                        [] OTHER -> "enqLock")
  <2>1. PICK s \in Free : /\ used' = [used EXCEPT ![s] = TRUE]
                          /\ cmd' = [cmd EXCEPT ![s] = c]
                          /\ slot' = [slot EXCEPT ![c] = s]
                          /\ UNCHANGED <<flags, done>>
                          /\ Goto(c, CASE kind[c].route = "direct" -> "fill"
                                       [] kind[c].reply -> "spin"
                                       [] OTHER -> "enqLock")
    BY <1>2
  <2>2. PICK l \in {"spin", "enqLock"} : Goto(c, l)
    BY <2>1 DEF Queued, Owned, Calm, TypeInv, TypeOK
  <2>3. /\ s \in Slots /\ ~used[s] /\ pc[c] = "idle"
        /\ \A r \in Slots : cmd'[r] = IF r = s THEN c ELSE cmd[r]
        /\ \A u \in Senders : slot'[u] = IF u = c THEN s ELSE slot[u]
        /\ \A u \in Threads : pc'[u] = IF u = c THEN l ELSE pc[u]
    BY <2>1, <2>2 DEF Start, Free, Goto, Owned, Calm, TypeInv, TypeOK
  <2>4. UNCHANGED <<state, cmds, bus, failed, flags, done, urb, fw, rxmsg>> /\ OnList' = OnList
    BY <2>1 DEF Start, OnList
  <2>5. ASSUME NEW u \in Senders, pc'[u] \in Listed \cup {"clear"}
        PROVE  /\ pc'[u] = pc[u] /\ slot'[u] = slot[u] /\ slot[u] \in Slots
               /\ cmd'[slot[u]] = cmd[slot[u]]
    <3>1. u # c /\ pc'[u] = pc[u] /\ slot'[u] = slot[u]
      BY <2>3, <2>5 DEF Listed
    <3>2. AtWork(u)
      BY <2>5, <3>1 DEF AtWork, Listed
    <3>3. slot[u] # s
      BY <2>3, <3>2 DEF Owned, SlotInv
    <3>4. QED
      BY <2>3, <3>1, <3>2, <3>3 DEF Owned, Calm, TypeInv
  <2>6. ASSUME Smooth'
        PROVE  /\ Ordered' /\ WorkerFirst'
               /\ Working' => Asking'
               /\ ~Working' => Sole' /\ pc'[Worker] # "clear" /\ Stuck'
    <3>1. Smooth /\ (Working' <=> Working)
      BY <2>4, <2>6 DEF Working
    <3>2. Ordered' /\ WorkerFirst'
      BY <2>3, <2>4, <3>1 DEF SendInv, Ordered, WorkerFirst, AtWork
    <3>3. ASSUME Working
          PROVE  Asking'
      <4>1. s \notin OnList /\ OnList \subseteq Slots
        BY <2>3, <3>3, OnListTyped DEF Owned, Calm, ListInv
      <4>2. \A d : Asked(d)' <=> Asked(d)
        BY <2>4 DEF Asked
      <4>3. \A u \in Senders : pc'[u] \in {"clear"} \cup Filling =>
               "WAIT_CFM" \in flags'[slot'[u]] /\ ~Asked(cmd[slot[u]])'
        BY <2>4, <2>5, <3>1, <3>3 DEF SendInv, Asking, Asked, Listed
      <4>4. ASSUME NEW d \in Calls, Asked(d)
            PROVE  slot'[d] \in OnList /\ cmd'[slot'[d]] = d /\ Pending(slot[d])'
        <5>1. slot[d] \in OnList /\ cmd[slot[d]] = d /\ Pending(slot[d])
          BY <3>1, <3>3, <4>4 DEF SendInv, Asking
        <5>2. d # c
          BY <2>3, <4>1, <5>1 DEF Owned, SlotInv
        <5>3. slot'[d] = slot[d] /\ slot[d] # s /\ slot[d] \in Slots
          BY <2>3, <4>1, <5>1, <5>2
        <5>4. QED
          BY <2>3, <2>4, <5>1, <5>3 DEF Pending
      <4>5. \A u \in Senders : pc'[u] \in {"delLock", "delete"} =>
               "WAIT_CFM" \notin flags'[slot'[u]]
        BY <2>4, <2>5, <3>1, <3>3 DEF SendInv, Asking, Listed
      <4>6. QED
        BY <2>4, <3>1, <3>3, <4>2, <4>3, <4>4, <4>5 DEF SendInv, Asking
    <3>4. ASSUME ~Working
          PROVE  Sole' /\ pc'[Worker] # "clear" /\ Stuck'
      BY <2>3, <2>4, <2>5, <3>1, <3>4 DEF SendInv, Sole, Stuck, Listed
    <3>5. QED
      BY <3>1, <3>2, <3>3, <3>4
  <2>7. QED
    BY <2>6 DEF SendInv
<1>3. QED
  BY <1>1, <1>2 DEF Start, Return

\* A command is queued: it waits for the worker if the last one waits.
LEMMA EnqueueSend ==
    ASSUME Queued, Owned, SendInv, state # "DEINIT", NEW c \in Calls, Enqueue(c)
    PROVE  SendInv'
<1> USE ThreadsAssumption DEF mgr, pool, link, bulk, calls, Threads, Senders, Filling, Smooth
<1> DEFINE s == slot[c]
<1> SUFFICES ASSUME Smooth'
             PROVE  /\ Ordered' /\ WorkerFirst' /\ Working' /\ Asking'
  BY DEF SendInv
<1>1. pc[c] \in Before /\ AtWork(c) /\ Working /\ Working' /\ Smooth
  BY DEF Enqueue, AtEnqueue, AtWork, Before, Accepting, Working, Owned, Calm, TypeInv, TypeOK
<1>2. s \in Slots /\ s \notin OnList /\ cmd[s] = c /\ OnList \subseteq Slots
  BY <1>1, OnListTyped DEF Owned, SlotInv, ListInv, Calm, TypeInv
<1>3. UNCHANGED <<state, cmd, slot, urb, fw, rxmsg>> /\ \A d : Asked(d)' <=> Asked(d)
  BY DEF Enqueue, Asked
<1>4. PICK l \in {"wake", "fill"} : Goto(c, l)
  BY DEF Enqueue
<1>5. \A u \in Threads : pc'[u] = IF u = c THEN l ELSE pc[u]
  BY <1>4 DEF Goto, Owned, Calm, TypeInv, TypeOK
<1>6. /\ \A r \in Slots : r # s => flags'[r] = flags[r] /\ done'[r] = done[r]
      /\ "WAIT_CFM" \in flags'[s] /\ done'[s] = 0
      /\ LeftToWorker(c) => "WAIT_PUSH" \in flags'[s]
  BY <1>2 DEF Enqueue, Owned, Calm, TypeInv, TypeOK
<1>7. /\ OnList' = OnList \cup {s} /\ Len(cmds') = Len(cmds) + 1 /\ Len(cmds) \in Nat
      /\ \A i \in 1..Len(cmds) : cmds'[i] = cmds[i] /\ cmds[i] \in OnList
      /\ cmds'[Len(cmds) + 1] = s
  <2>1. cmds' = Append(cmds, s) /\ cmds \in Seq(Slots)
    BY DEF Enqueue, Owned, Calm, TypeInv, TypeOK
  <2>2. IsInjective(cmds) /\ s \notin ToSet(cmds)
    BY <1>2 DEF OnList, Owned, ListInv
  <2>3. ToSet(cmds') = ToSet(cmds) \cup {s}
    BY <1>2, <2>1, <2>2, AppendApart
  <2>4. /\ Len(cmds') = Len(cmds) + 1 /\ cmds'[Len(cmds) + 1] = s
        /\ \A i \in 1..Len(cmds) : cmds'[i] = cmds[i]
    BY <1>2, <2>1, AppendProperties
  <2>5. OnList' = OnList \cup {s}
    BY <2>3 DEF OnList
  <2>6. Len(cmds) \in Nat /\ \A i \in 1..Len(cmds) : cmds[i] \in OnList
    BY Places DEF Owned, Calm
  <2>7. QED
    BY <2>4, <2>5, <2>6
<1>8. \A u \in Senders : u # c /\ pc[u] \in Listed \cup {"clear"} => slot[u] # s
  <2>1. ASSUME NEW u \in Senders, u # c, pc[u] \in Listed \cup {"clear"}
        PROVE  slot[u] # s
    <3>1. AtWork(u)
      BY <2>1, OnListAtWork, <1>1 DEF Smooth
    <3>2. QED
      BY <1>1, <2>1, <3>1, SlotsDiffer DEF Owned
  <2>2. QED
    BY <2>1
<1> HIDE DEF s
<1>9. Ordered'
  <2>1. ASSUME NEW i \in 1..Len(cmds'), NEW j \in 1..Len(cmds'), i < j,
               flags'[cmds'[i]] \cap Waiting # {}
        PROVE  "WAIT_PUSH" \in flags'[cmds'[j]]
    <3>1. i \in 1..Len(cmds) /\ (j \in 1..Len(cmds) \/ j = Len(cmds) + 1)
      BY <1>7, <2>1
    <3>2. flags[cmds[i]] \cap Waiting # {}
      BY <1>2, <1>6, <1>7, <2>1, <3>1
    <3>3. CASE j \in 1..Len(cmds)
      BY <1>1, <1>2, <1>6, <1>7, <2>1, <3>1, <3>2, <3>3 DEF SendInv, Ordered
    <3>4. CASE j = Len(cmds) + 1
      <4>1. Len(cmds) \in 1..Len(cmds) /\ Last(cmds) = cmds[Len(cmds)] /\ cmds # <<>>
        BY <1>7, <3>1 DEF Last
      <4>2. flags[Last(cmds)] \cap Waiting # {}
        <5>1. CASE i = Len(cmds)
          BY <3>2, <4>1, <5>1
        <5>2. CASE i < Len(cmds)
          <6>1. "WAIT_PUSH" \in flags[cmds[Len(cmds)]]
            BY <1>1, <3>1, <3>2, <4>1, <5>2 DEF SendInv, Ordered
          <6>2. QED
            BY <4>1, <6>1 DEF Waiting
        <5>3. QED
          BY <1>7, <3>1, <5>1, <5>2
      <4>3. LeftToWorker(c)
        BY <4>1, <4>2 DEF LeftToWorker
      <4>4. QED
        BY <1>6, <1>7, <3>4, <4>3
    <3>5. QED
      BY <3>1, <3>3, <3>4
  <2>2. QED
    BY <2>1 DEF Ordered
<1>10. WorkerFirst'
  <2>1. ASSUME AtWork(Worker)'
        PROVE  cmds' # <<>> /\ cmds'[1] = slot'[Worker]
    <3>1. AtWork(Worker)
      BY <1>5, <2>1 DEF AtWork
    <3>2. cmds # <<>> /\ cmds[1] = slot[Worker]
      BY <1>1, <3>1 DEF SendInv, WorkerFirst
    <3>3. 1 \in 1..Len(cmds)
      BY <1>7, <3>2 DEF Owned, Calm, TypeInv, TypeOK
    <3>4. cmds'[1] = cmds[1] /\ Len(cmds') # 0
      BY <1>7, <3>3
    <3>5. QED
      BY <1>3, <3>2, <3>4
  <2>2. QED
    BY <2>1 DEF WorkerFirst
<1>11. Asking'
  <2>1. Asking
    BY <1>1 DEF SendInv
  <2>2. ASSUME NEW u \in Senders, pc'[u] \in {"clear"} \cup Filling
        PROVE  "WAIT_CFM" \in flags'[slot'[u]] /\ ~Asked(cmd[slot[u]])'
    <3>1. CASE u = c
      <4>1. ~Asked(c)
        BY <1>2, <2>1 DEF Asking, s
      <4>2. QED
        BY <1>2, <1>3, <1>6, <3>1, <4>1 DEF s, Asked
    <3>2. CASE u # c
      <4>1. pc[u] = pc'[u] /\ slot[u] # s /\ slot[u] \in Slots
        BY <1>1, <1>5, <1>8, <2>2, <3>2, OnListAtWork DEF Listed
      <4>2. QED
        BY <1>3, <1>6, <2>1, <2>2, <4>1 DEF Asking, Asked
    <3>3. QED
      BY <3>1, <3>2
  <2>3. ASSUME NEW d \in Calls, Asked(d)'
        PROVE  slot'[d] \in OnList' /\ cmd'[slot'[d]] = d /\ Pending(slot[d])'
    BY <1>2, <1>3, <1>6, <1>7, <2>1, <2>3 DEF Asking, Pending
  <2>4. /\ \A r \in OnList' : done'[r] > 0 => "WAIT_CFM" \notin flags'[r]
        /\ \A r \in OnList' : "WAIT_PUSH" \in flags'[r] => "WAIT_CFM" \in flags'[r]
    BY <1>2, <1>6, <1>7, <2>1 DEF Asking
  <2>5. ASSUME NEW u \in Senders, pc'[u] \in {"delLock", "delete"}
        PROVE  "WAIT_CFM" \notin flags'[slot'[u]]
    <3>1. u # c /\ pc'[u] = pc[u]
      BY <1>5, <2>5
    <3>2. slot[u] # s /\ slot[u] \in Slots
      BY <1>1, <1>8, <2>5, <3>1, OnListAtWork DEF Listed
    <3>3. QED
      BY <1>3, <1>6, <2>1, <2>5, <3>1, <3>2 DEF Asking
  <2>6. /\ fw' = <<>> \/ (Len(fw') = 1 /\ rxmsg' = None /\ urb' = None)
        /\ rxmsg' = None \/ urb' = None
    BY <1>3, <2>1 DEF Asking
  <2>7. QED
    BY <2>2, <2>3, <2>4, <2>5, <2>6 DEF Asking
<1>12. QED
  BY <1>1, <1>9, <1>10, <1>11

\* A message is handed over, the only one on its way then.
LEMMA SubmitSend ==
    ASSUME Queued, Owned, SendInv, BufferInv, Smooth, NEW t \in Senders, Submit(t)
    PROVE  SendInv'
<1> USE ThreadsAssumption DEF mgr, pool, link, bulk, calls, Threads, Senders, Filling, Smooth
<1> SUFFICES ASSUME Smooth'
             PROVE  SendInv'
  BY DEF SendInv
<1>1. /\ pc[t] = "submit" /\ AtWork(t) /\ slot[t] \in OnList /\ slot[t] \in Slots
      /\ cmd_buf = cmd[slot[t]] /\ cmd_buf \in Calls
  BY OnListAtWork DEF Submit, Listed, BufferInv
<1>2. /\ UNCHANGED <<state, cmds, cmd, flags, done, bus, slot, fw, rxmsg>> /\ OnList' = OnList
      /\ urb' = cmd_buf /\ Goto(t, "sending") /\ (Working' <=> Working)
  BY DEF Submit, OnList, Working
<1>3. \A u \in Threads : pc'[u] = IF u = t THEN "sending" ELSE pc[u]
  BY <1>2 DEF Goto, Owned, Calm, TypeInv, TypeOK
<1>4. Ordered' /\ WorkerFirst'
  BY <1>1, <1>2, <1>3 DEF SendInv, Ordered, WorkerFirst, AtWork
<1>5. ASSUME ~Working
      PROVE  Sole' /\ pc'[Worker] # "clear" /\ Stuck'
  <2>1. Sole /\ pc[Worker] # "clear" /\ Stuck
    BY <1>5 DEF SendInv
  <2>2. \A u \in Senders : pc'[u] \notin Filling
    BY <1>1, <1>3, <2>1 DEF Sole
  <2>3. Stuck'
    BY <1>1, <1>2, <1>3, <2>1 DEF Stuck, Listed
  <2>4. QED
    BY <1>3, <2>1, <2>2, <2>3 DEF Sole
<1>6. ASSUME Working
      PROVE  Asking'
  <2>1. Asking
    BY <1>6 DEF SendInv
  <2>2. fw = <<>> /\ rxmsg = None /\ \A d \in Calls : ~Asked(d)
    BY <1>1, <1>6, NoneAsked
  <2>3. fw' = <<>> /\ ToSet(fw') = {} /\ rxmsg' = None
    BY <1>2, <2>2 DEF ToSet
  <2>4. \A d \in Calls : Asked(d)' <=> d = cmd_buf
    BY <1>2, <2>3 DEF Asked
  <2>5. ASSUME NEW u \in Senders, pc'[u] \in {"clear"} \cup Filling
        PROVE  "WAIT_CFM" \in flags'[slot'[u]] /\ ~Asked(cmd[slot[u]])'
    <3>1. u # t /\ pc[u] = pc'[u]
      BY <1>3, <2>5
    <3>2. AtWork(u) /\ slot[u] \in Slots /\ cmd[slot[u]] \in Calls
      BY <2>5, <3>1, OnListAtWork DEF Listed
    <3>3. slot[u] # slot[t]
      BY <1>1, <3>1, <3>2, SlotsDiffer DEF Owned
    <3>4. cmd[slot[u]] # cmd[slot[t]]
      BY <1>1, <3>2, <3>3 DEF Owned, SlotInv
    <3>5. cmd'[slot'[u]] # cmd_buf /\ cmd'[slot'[u]] \in Calls
      BY <1>1, <1>2, <3>2, <3>4
    <3>6. "WAIT_CFM" \in flags'[slot'[u]]
      BY <1>2, <2>1, <2>5, <3>1 DEF Asking
    <3>7. QED
      BY <1>2, <2>3, <3>5, <3>6 DEF Asked
  <2>6. ASSUME NEW d \in Calls, Asked(d)'
        PROVE  slot'[d] \in OnList' /\ cmd'[slot'[d]] = d /\ Pending(slot[d])'
    <3>1. d = cmd[slot[t]]
      BY <1>1, <2>4, <2>6
    <3>2. slot[d] = slot[t]
      BY <1>1, <3>1 DEF Owned, SlotInv
    <3>3. Pending(slot[t])
      BY <1>1, <2>1 DEF Asking, Pending, Owned, SlotInv
    <3>4. QED
      BY <1>1, <1>2, <3>1, <3>2, <3>3 DEF Pending
  <2>7. \A u \in Senders : pc'[u] \in {"delLock", "delete"} =>
           "WAIT_CFM" \notin flags'[slot'[u]]
    BY <1>2, <1>3, <2>1 DEF Asking
  <2>8. QED
    BY <1>2, <2>1, <2>3, <2>5, <2>6, <2>7 DEF Asking
<1>7. QED
  BY <1>2, <1>4, <1>5, <1>6 DEF SendInv

\* The controller gives the message to the firmware, which owes an answer now.
LEMMA TransferredSend ==
    ASSUME Queued, Owned, SendInv, BufferInv, Transferred
    PROVE  /\ SendInv'
           /\ Smooth' => Smooth /\ (Working => \A c \in Calls : Asked(c)' <=> Asked(c))
<1> USE ThreadsAssumption DEF mgr, pool, link, bulk, calls, Threads, Senders, Filling, Smooth
<1> SUFFICES ASSUME Smooth'
             PROVE  /\ SendInv'
                    /\ Smooth /\ (Working => \A c \in Calls : Asked(c)' <=> Asked(c))
  BY DEF SendInv
<1>1. /\ UNCHANGED <<state, cmds, cmd, flags, done, bus, failed, slot, rxmsg, pc>>
      /\ OnList' = OnList /\ Arrives /\ urb # None /\ urb' = None
      /\ (Working' <=> Working) /\ Smooth
  BY DEF Transferred, OnList, Working
<1>2. urb \in Calls /\ cmd_buf = urb /\ fw' = Append(fw, urb)
  <2>1. urb \in Calls /\ cmd_buf = urb
    BY <1>1 DEF BufferInv
  <2>2. kind[urb].route # "direct"
    BY <2>1 DEF Queued, Owned, Calm, TypeInv, TypeOK
  <2>3. QED
    BY <1>1, <2>1, <2>2 DEF Arrives
<1>3. Ordered' /\ WorkerFirst'
  BY <1>1 DEF SendInv, Ordered, WorkerFirst, AtWork
<1>4. ASSUME ~Working
      PROVE  Sole' /\ pc'[Worker] # "clear" /\ Stuck'
  BY <1>1, <1>4 DEF SendInv, Sole, Stuck
<1>5. ASSUME Working
      PROVE  Asking' /\ \A c \in Calls : Asked(c)' <=> Asked(c)
  <2>1. Asking
    BY <1>1, <1>5 DEF SendInv
  <2>2. fw = <<>> /\ rxmsg = None
    BY <1>1, <2>1 DEF Asking
  <2>3. /\ fw' = <<urb>> /\ Len(fw') = 1 /\ ToSet(fw') = {urb} /\ ToSet(fw) = {}
        /\ rxmsg' = None
    BY <1>1, <1>2, <2>2 DEF ToSet
  <2>4. \A c \in Calls : Asked(c)' <=> Asked(c)
    BY <1>1, <1>2, <2>2, <2>3 DEF Asked
  <2>5. ASSUME NEW u \in Senders, pc'[u] \in {"clear"} \cup Filling
        PROVE  "WAIT_CFM" \in flags'[slot'[u]] /\ ~Asked(cmd[slot[u]])'
    <3>1. "WAIT_CFM" \in flags[slot[u]] /\ ~Asked(cmd[slot[u]])
      BY <1>1, <2>1, <2>5 DEF Asking
    <3>2. cmd[slot[u]] \in Calls
      BY <1>1, <2>5, OnListAtWork DEF Listed
    <3>3. QED
      BY <1>1, <2>4, <3>1, <3>2 DEF Asked
  <2>6. \A d \in Calls : Asked(d)' =>
           slot'[d] \in OnList' /\ cmd'[slot'[d]] = d /\ Pending(slot[d])'
    BY <1>1, <2>1, <2>4 DEF Asking, Pending
  <2>7. \A u \in Senders : pc'[u] \in {"delLock", "delete"} =>
           "WAIT_CFM" \notin flags'[slot'[u]]
    BY <1>1, <2>1 DEF Asking
  <2>8. QED
    BY <1>1, <2>1, <2>3, <2>4, <2>5, <2>6, <2>7 DEF Asking
<1>6. QED
  BY <1>1, <1>3, <1>4, <1>5 DEF SendInv

\* A caller notices that its command is complete.
LEMMA CompletedSend ==
    ASSUME Queued, Owned, SendInv, NEW t \in Senders, Completed(t)
    PROVE  SendInv'
<1> USE ThreadsAssumption DEF mgr, pool, link, bulk, calls, Threads, Senders, Filling, Smooth
<1> SUFFICES ASSUME Smooth'
             PROVE  /\ Ordered' /\ WorkerFirst'
                    /\ Working' => Asking'
                    /\ ~Working' => Sole' /\ pc'[Worker] # "clear" /\ Stuck'
  BY DEF SendInv
<1>1. /\ UNCHANGED <<state, cmds, cmd, flags, bus, failed, slot, urb, fw, rxmsg>> /\ OnList' = OnList
      /\ Goto(t, "delLock") /\ (Working' <=> Working) /\ Smooth
  BY DEF Completed, OnList, Working
<1>2. pc[t] = "wait" /\ AtWork(t) /\ slot[t] \in OnList /\ slot[t] \in Slots /\ done[slot[t]] > 0
  BY <1>1, OnListAtWork DEF Completed, Listed
<1>3. \A u \in Threads : pc'[u] = IF u = t THEN "delLock" ELSE pc[u]
  BY <1>1 DEF Goto, Owned, Calm, TypeInv, TypeOK
<1>4. Ordered' /\ WorkerFirst'
  BY <1>1, <1>2, <1>3 DEF SendInv, Ordered, WorkerFirst, AtWork
<1>5. ASSUME ~Working
      PROVE  Sole' /\ pc'[Worker] # "clear" /\ Stuck'
  BY <1>1, <1>2, <1>3, <1>5 DEF SendInv, Sole, Stuck, Listed
<1>6. ASSUME Working
      PROVE  Asking'
  <2>1. Asking
    BY <1>1, <1>6 DEF SendInv
  <2>2. \A s \in Slots : done'[s] > 0 => done[s] > 0
    <3>1. \A s \in Slots : done'[s] = IF s = slot[t] THEN done[s] - 1 ELSE done[s]
      BY <1>2 DEF Completed, Owned, Calm, TypeInv, TypeOK
    <3>2. QED
      BY <1>2, <3>1
  <2>3. \A u \in Senders : pc'[u] \in {"clear"} \cup Filling =>
           "WAIT_CFM" \in flags'[slot'[u]] /\ ~Asked(cmd[slot[u]])'
    BY <1>1, <1>3, <2>1 DEF Asking, Asked
  <2>4. \A d \in Calls : Asked(d)' =>
           slot'[d] \in OnList' /\ cmd'[slot'[d]] = d /\ Pending(slot[d])'
    BY <1>1, <2>1 DEF Asking, Asked, Pending
  <2>5. \A s \in OnList' : done'[s] > 0 => "WAIT_CFM" \notin flags'[s]
    BY <1>1, <2>1, <2>2, OnListTyped DEF Asking, Owned, Calm
  <2>6. \A u \in Senders : pc'[u] \in {"delLock", "delete"} =>
           "WAIT_CFM" \notin flags'[slot'[u]]
    BY <1>1, <1>2, <1>3, <2>1 DEF Asking
  <2>7. QED
    BY <1>1, <2>1, <2>3, <2>4, <2>5, <2>6 DEF Asking
<1>7. QED
  BY <1>1, <1>4, <1>5, <1>6

\* A command is taken off the list: the others stay in order.
LEMMA DeleteSend ==
    ASSUME Queued, Owned, SendInv, NEW t \in Senders, Delete(t), slot[t] \in OnList
    PROVE  SendInv'
<1> USE ThreadsAssumption DEF link, bulk, calls, Threads, Senders, Filling, Smooth
<1> SUFFICES ASSUME Smooth'
             PROVE  /\ Ordered' /\ WorkerFirst'
                    /\ Working' => Asking'
                    /\ ~Working' => Sole' /\ pc'[Worker] # "clear" /\ Stuck'
  BY DEF SendInv
<1>1. PICK i \in 1..Len(cmds), l \in {"lookLock", "rewake"} :
        cmds[i] = slot[t] /\ cmds' = RemoveAt(cmds, i) /\ Goto(t, l)
  BY DEF Delete, OnList
<1>2. UNCHANGED <<state, cmd, flags, done, slot, bus, failed, urb, fw, rxmsg>> /\ (Working' <=> Working)
      /\ Smooth
  BY DEF Delete, Working
<1>3. \A u \in Threads : pc'[u] = IF u = t THEN l ELSE pc[u]
  BY <1>1 DEF Goto, Owned, Calm, TypeInv, TypeOK
<1>4. pc[t] = "delete" /\ AtWork(t) /\ slot[t] \in Slots
  BY DEF Delete, AtWork, Owned, Calm, TypeInv
<1>5. /\ OnList' = OnList \ {slot[t]} /\ Len(cmds) \in Nat
      /\ Len(cmds') = Len(cmds) - 1
      /\ \A j \in 1..(Len(cmds) - 1) : cmds'[j] = cmds[IF j < i THEN j ELSE j + 1]
  <2>1. cmds \in Seq(Slots) /\ IsInjective(cmds)
    BY DEF Owned, Calm, TypeInv, TypeOK, ListInv
  <2>2. ToSet(cmds') = ToSet(cmds) \ {slot[t]}
    BY <1>1, <2>1, RemoveAtApart
  <2>3. /\ Len(cmds') = Len(cmds) - 1
        /\ \A j \in 1..(Len(cmds) - 1) : cmds'[j] = cmds[IF j < i THEN j ELSE j + 1]
    BY <1>1, <2>1, RemoveAtProperties
  <2>4. QED
    BY <2>1, <2>2, <2>3 DEF OnList
<1>6. \A u \in Senders : pc'[u] \in Listed \cup {"clear"} =>
         u # t /\ pc[u] = pc'[u] /\ AtWork(u) /\ slot[u] # slot[t]
  BY <1>2, <1>3, <1>4, OnListAtWork, SlotsDiffer DEF Owned, Listed
<1>7. Ordered'
  <2>1. ASSUME NEW j \in 1..Len(cmds'), NEW k \in 1..Len(cmds'), j < k,
               flags'[cmds'[j]] \cap Waiting # {}
        PROVE  "WAIT_PUSH" \in flags'[cmds'[k]]
    <3>1. PICK m \in 1..Len(cmds), n \in 1..Len(cmds) :
            m < n /\ cmds'[j] = cmds[m] /\ cmds'[k] = cmds[n]
      <4>1. j \in 1..(Len(cmds) - 1) /\ k \in 1..(Len(cmds) - 1)
        BY <1>5
      <4>2. /\ (IF j < i THEN j ELSE j + 1) \in 1..Len(cmds)
            /\ (IF k < i THEN k ELSE k + 1) \in 1..Len(cmds)
            /\ (IF j < i THEN j ELSE j + 1) < (IF k < i THEN k ELSE k + 1)
        BY <1>5, <2>1, <4>1
      <4>3. QED
        BY <1>5, <4>1, <4>2
    <3>2. QED
      BY <1>2, <2>1, <3>1 DEF SendInv, Ordered
  <2>2. QED
    BY <2>1 DEF Ordered
<1>8. WorkerFirst'
  <2>1. ASSUME AtWork(Worker)'
        PROVE  cmds' # <<>> /\ cmds'[1] = slot'[Worker]
    <3>1. AtWork(Worker) /\ Worker # t
      BY <1>1, <1>3, <2>1, <1>6 DEF AtWork, Owned, Calm, PlaceInv, Allowed
    <3>2. cmds # <<>> /\ cmds[1] = slot[Worker] /\ slot[Worker] # slot[t]
      BY <1>2, <1>4, <3>1, SlotsDiffer DEF SendInv, WorkerFirst, Owned
    <3>3. i # 1 /\ 1 < i /\ 1 \in 1..(Len(cmds) - 1)
      BY <1>1, <1>5, <3>2
    <3>4. cmds'[1] = cmds[1] /\ Len(cmds') # 0
      BY <1>5, <3>3
    <3>5. QED
      BY <1>2, <3>2, <3>4
  <2>2. QED
    BY <2>1 DEF WorkerFirst
<1>9. ASSUME ~Working
      PROVE  Sole' /\ pc'[Worker] # "clear" /\ Stuck'
  <2>1. Sole' /\ pc'[Worker] # "clear"
    BY <1>2, <1>3, <1>6, <1>9 DEF SendInv, Sole, Listed
  <2>2. PICK k \in 1..Len(cmds) :
          /\ \A j \in 1..k : "WAIT_PUSH" \notin flags[cmds[j]]
          /\ \A u \in Senders : pc[u] \in Listed => slot[u] # cmds[k]
    BY <1>2, <1>9 DEF SendInv, Stuck
  <2>3. k # i
    BY <1>1, <1>4, <2>2 DEF Listed
  <2>4. PICK n \in 1..(Len(cmds) - 1) : (IF n < i THEN n ELSE n + 1) = k
    <3>1. CASE k < i
      <4>1. k \in 1..(Len(cmds) - 1) /\ (IF k < i THEN k ELSE k + 1) = k
        BY <1>5, <3>1
      <4>2. QED
        BY <4>1
    <3>2. CASE k > i
      <4>1. k - 1 \in 1..(Len(cmds) - 1) /\ (IF k - 1 < i THEN k - 1 ELSE (k - 1) + 1) = k
        BY <1>5, <3>2
      <4>2. QED
        BY <4>1
    <3>3. QED
      BY <1>5, <2>3, <3>1, <3>2
  <2>5. n \in 1..Len(cmds') /\ cmds'[n] = cmds[k]
    BY <1>5, <2>4
  <2>6. ASSUME NEW j \in 1..n
        PROVE  "WAIT_PUSH" \notin flags'[cmds'[j]]
    <3>1. (IF j < i THEN j ELSE j + 1) \in 1..k /\ j \in 1..(Len(cmds) - 1)
      BY <1>5, <2>4
    <3>2. QED
      BY <1>2, <1>5, <2>2, <3>1
  <2>7. \A u \in Senders : pc'[u] \in Listed => slot'[u] # cmds'[n]
    BY <1>2, <1>6, <2>2, <2>5
  <2>8. QED
    BY <2>1, <2>5, <2>6, <2>7 DEF Stuck
<1>10. ASSUME Working
       PROVE  Asking'
  <2>1. Asking
    BY <1>2, <1>10 DEF SendInv
  <2>2. \A u \in Senders : pc'[u] \in {"clear"} \cup Filling =>
           "WAIT_CFM" \in flags'[slot'[u]] /\ ~Asked(cmd[slot[u]])'
    BY <1>2, <1>3, <2>1 DEF Asking, Asked
  <2>3. "WAIT_CFM" \notin flags[slot[t]]
    BY <1>4, <2>1 DEF Asking
  <2>4. \A d \in Calls : Asked(d)' =>
           slot'[d] \in OnList' /\ cmd'[slot'[d]] = d /\ Pending(slot[d])'
    BY <1>2, <1>5, <2>1, <2>3 DEF Asking, Asked, Pending
  <2>5. \A u \in Senders : pc'[u] \in {"delLock", "delete"} =>
           "WAIT_CFM" \notin flags'[slot'[u]]
    BY <1>2, <1>3, <2>1 DEF Asking
  <2>6. QED
    BY <1>2, <1>5, <2>1, <2>2, <2>4, <2>5 DEF Asking
<1>11. QED
  BY <1>2, <1>7, <1>8, <1>9, <1>10

\* The first timeout: the command stays on the list, and what comes before it
\* waits for nothing.
LEMMA CrashSend ==
    ASSUME Queued, Owned, SendInv, BufferInv, NEW t \in Senders, Crash(t)
    PROVE  SendInv'
<1> USE ThreadsAssumption DEF link, bulk, Threads, Senders, Filling, Smooth
<1> SUFFICES ASSUME Smooth'
             PROVE  /\ Ordered' /\ WorkerFirst' /\ ~Working'
                    /\ Sole' /\ pc'[Worker] # "clear" /\ Stuck'
  BY DEF SendInv
<1>1. UNCHANGED <<cmds, cmd, slot, bus, failed, urb>> /\ ~Working' /\ Smooth /\ pc[t] = "crash"
  BY DEF Crash, Working
<1>2. AtWork(t) /\ slot[t] \in OnList /\ slot[t] \in Slots
  BY <1>1, OnListAtWork DEF Listed
<1>3. \A s \in Slots : flags'[s] \cap Waiting = flags[s] \cap Waiting
  <2>1. CASE flags' = flags
    BY <2>1
  <2>2. CASE CmdComplete(slot[t], flags[slot[t]])
    <3>1. \A s \in Slots : flags'[s] = IF s = slot[t] THEN flags[s] \cup {"DONE"} ELSE flags[s]
      BY <1>2, <2>2 DEF CmdComplete, Owned, Calm, TypeInv, TypeOK
    <3>2. QED
      BY <3>1 DEF Waiting
  <2>3. QED
    BY <2>1, <2>2 DEF Crash
<1>4. \A s \in Slots : "WAIT_PUSH" \in flags'[s] <=> "WAIT_PUSH" \in flags[s]
  BY <1>3 DEF Waiting
<1>5. PICK l \in {"lookLock", "returned"} : Goto(t, l)
  BY DEF Crash, Return
<1>6. \A u \in Threads : pc'[u] = IF u = t THEN l ELSE pc[u]
  BY <1>5 DEF Goto, Owned, Calm, TypeInv, TypeOK
<1>7. Ordered' /\ WorkerFirst'
  <2>1. Ordered'
    BY <1>1, <1>3, <1>4, Places DEF SendInv, Ordered, Owned, Calm
  <2>2. WorkerFirst'
    BY <1>1, <1>6 DEF SendInv, WorkerFirst, AtWork
  <2>3. QED
    BY <2>1, <2>2
<1>8. Sole'
  BY <1>1, <1>6, SoleSender DEF Sole
<1>9. \A u \in Senders : pc'[u] \in Listed => u # t /\ pc[u] = pc'[u] /\ slot[u] # slot[t]
  BY <1>1, <1>2, <1>6, OnListAtWork, SlotsDiffer DEF Owned, Listed
<1>10. CASE ~Working
  BY <1>1, <1>4, <1>6, <1>7, <1>8, <1>9, <1>10, Places DEF SendInv, Stuck, Owned, Calm
<1>11. CASE Working
  <2>1. PICK k \in 1..Len(cmds) : cmds[k] = slot[t]
    BY <1>2, Places DEF Owned, Calm
  <2>2. "WAIT_PUSH" \notin flags[cmds[k]]
    BY <1>1, <1>2, <2>1 DEF Owned, SlotInv
  <2>3. \A i \in 1..k : /\ "WAIT_PUSH" \notin flags[cmds[i]]
                        /\ i < k => flags[cmds[i]] \cap Waiting = {}
    BY <1>1, <2>2, SentPrefix DEF SendInv, Owned, Calm
  <2>4. pc[Worker] # "clear"
    <3>1. SUFFICES ASSUME pc[Worker] = "clear"
                   PROVE  FALSE
      OBVIOUS
    <3>2. Worker # t /\ AtWork(Worker) /\ slot[Worker] # slot[t]
      BY <1>1, <1>2, <3>1, SlotsDiffer DEF AtWork, Owned
    <3>3. cmds[1] = slot[Worker] /\ "WAIT_CFM" \in flags[slot[Worker]]
      BY <1>1, <1>11, <3>1, <3>2 DEF SendInv, WorkerFirst, Asking
    <3>4. 1 \in 1..k /\ 1 < k
      BY <2>1, <3>2, <3>3
    <3>5. QED
      BY <2>3, <3>3, <3>4 DEF Waiting
  <2>5. pc'[Worker] # "clear"
    BY <1>6, <2>4
  <2>6. Stuck'
    <3>1. \A i \in 1..k : "WAIT_PUSH" \notin flags'[cmds'[i]]
      BY <1>1, <1>4, <2>3, Places DEF Owned, Calm
    <3>2. \A u \in Senders : pc'[u] \in Listed => slot'[u] # cmds'[k]
      BY <1>1, <1>9, <2>1
    <3>3. QED
      BY <1>1, <3>1, <3>2 DEF Stuck
  <2>7. QED
    BY <1>1, <1>7, <1>8, <2>5, <2>6
<1>12. QED
  BY <1>10, <1>11

\* The worker takes the first command, and is the one to send it.
LEMMA LookSend ==
    ASSUME Queued, Owned, SendInv, Look
    PROVE  SendInv'
<1> USE ThreadsAssumption DEF pool, link, bulk, Threads, Senders, Filling, Smooth
<1>1. CASE Goto(Worker, "idle") /\ slot' = slot
  <2>1. Aside(Worker, "idle")
    BY <1>1 DEF Look, Aside, Before, Listed
  <2>2. QED
    BY <2>1, AsideSend
<1>2. CASE cmds # <<>> /\ Unsent(Head(cmds)) /\ Goto(Worker, "clear")
           /\ slot' = [slot EXCEPT ![Worker] = Head(cmds)]
  <2> DEFINE h == Head(cmds)
  <2>1. h = cmds[1] /\ 1 \in 1..Len(cmds) /\ h \in OnList /\ h \in Slots /\ "WAIT_PUSH" \in flags[h]
    <3>1. cmds[1] = h /\ 1 \in DOMAIN cmds /\ 1 \in 1..Len(cmds)
      BY <1>2 DEF Owned, Calm, TypeInv, TypeOK
    <3>2. QED
      BY <1>2, <3>1 DEF OnList, ToSet, Unsent, Owned, Calm, TypeInv, TypeOK
  <2> HIDE DEF h
  <2>2. UNCHANGED <<state, cmds, cmd, flags, done, bus, failed, urb, fw, rxmsg>> /\ OnList' = OnList
        /\ (Working' <=> Working)
    BY DEF Look, OnList, Working
  <2>3. /\ \A u \in Threads : pc'[u] = IF u = Worker THEN "clear" ELSE pc[u]
        /\ \A u \in Senders : slot'[u] = IF u = Worker THEN h ELSE slot[u]
    BY <1>2 DEF h, Goto, Owned, Calm, TypeInv, TypeOK
  <2>4. ASSUME Smooth'
        PROVE  Ordered' /\ WorkerFirst' /\ Working /\ Asking'
    <3>1. Smooth /\ Working
      BY <2>1, <2>2, <2>4 DEF SendInv, Stuck
    <3>2. Ordered' /\ WorkerFirst'
      BY <1>2, <2>1, <2>2, <2>3, <3>1 DEF SendInv, Ordered, WorkerFirst
    <3>3. Asking
      BY <3>1 DEF SendInv
    <3>4. "WAIT_CFM" \in flags[h] /\ cmd[h] \in Calls /\ slot[cmd[h]] = h /\ ~Asked(cmd[h])
      BY <2>1, <3>3, OnListTyped DEF Asking, Owned, Calm, SlotInv, Pending
    <3>5. \A u \in Senders : pc'[u] \in {"clear"} \cup Filling =>
             "WAIT_CFM" \in flags'[slot'[u]] /\ ~Asked(cmd[slot[u]])'
      BY <2>2, <2>3, <3>3, <3>4 DEF Asking, Asked
    <3>6. \A d \in Calls : Asked(d)' =>
             slot'[d] \in OnList' /\ cmd'[slot'[d]] = d /\ Pending(slot[d])'
      BY <2>2, <2>3, <3>3 DEF Asking, Asked, Pending
    <3>7. \A u \in Senders : pc'[u] \in {"delLock", "delete"} =>
             "WAIT_CFM" \notin flags'[slot'[u]]
      BY <2>2, <2>3, <3>3 DEF Asking
    <3>8. QED
      BY <2>2, <3>1, <3>2, <3>3, <3>5, <3>6, <3>7 DEF Asking
  <2>5. QED
    BY <2>2, <2>4 DEF SendInv
<1>3. QED
  BY <1>1, <1>2 DEF Look

\* It clears the flag: now the first command may be pending.
LEMMA ClearSend ==
    ASSUME Queued, Owned, SendInv, Clear
    PROVE  SendInv'
<1> USE ThreadsAssumption DEF mgr, link, bulk, calls, Threads, Senders, Filling, Smooth
<1> SUFFICES ASSUME Smooth'
             PROVE  Ordered' /\ WorkerFirst' /\ Working' /\ Asking'
  BY DEF SendInv
<1>1. UNCHANGED <<state, cmds, cmd, done, slot, bus, failed, urb, fw, rxmsg>> /\ OnList' = OnList
      /\ pc[Worker] = "clear" /\ Smooth
  BY DEF Clear, OnList
<1>2. Working /\ Working' /\ Asking
  BY <1>1 DEF SendInv, Working
<1>3. AtWork(Worker) /\ slot[Worker] \in OnList /\ slot[Worker] \in Slots /\ cmd[slot[Worker]] \in Calls
      /\ cmds[1] = slot[Worker] /\ cmds # <<>>
  BY <1>1, OnListAtWork DEF SendInv, WorkerFirst
<1>4. \A s \in Slots : flags'[s] = IF s = slot[Worker] THEN flags[s] \ {"WAIT_PUSH"} ELSE flags[s]
  BY <1>3 DEF Clear, Owned, Calm, TypeInv, TypeOK
<1>5. \A u \in Threads : pc'[u] = IF u = Worker THEN "fill" ELSE pc[u]
  BY DEF Clear, Goto, Owned, Calm, TypeInv, TypeOK
<1>6. Ordered'
  <2>1. ASSUME NEW i \in 1..Len(cmds), NEW j \in 1..Len(cmds), i < j,
               flags'[cmds[i]] \cap Waiting # {}
        PROVE  "WAIT_PUSH" \in flags'[cmds[j]]
    <3>1. cmds[i] \in Slots /\ cmds[j] \in Slots /\ 1 \in 1..Len(cmds) /\ j # 1
      BY <2>1, Places DEF Owned, Calm
    <3>2. flags[cmds[i]] \cap Waiting # {}
      BY <1>4, <2>1, <3>1
    <3>3. "WAIT_PUSH" \in flags[cmds[j]]
      BY <1>1, <2>1, <3>2 DEF SendInv, Ordered
    <3>4. cmds[j] # cmds[1]
      BY <3>1 DEF Owned, ListInv, IsInjective, Calm, TypeInv, TypeOK
    <3>5. QED
      BY <1>3, <1>4, <3>1, <3>3, <3>4
  <2>2. QED
    BY <1>1, <2>1 DEF Ordered
<1>7. WorkerFirst'
  BY <1>1, <1>3 DEF WorkerFirst
<1>8. Asking'
  <2>1. ~Asked(cmd[slot[Worker]]) /\ "WAIT_CFM" \in flags[slot[Worker]]
    BY <1>1, <1>2 DEF Asking
  <2>2. \A s \in Slots : "WAIT_CFM" \in flags'[s] <=> "WAIT_CFM" \in flags[s]
    BY <1>4
  <2>3. ASSUME NEW u \in Senders, pc'[u] \in {"clear"} \cup Filling
        PROVE  "WAIT_CFM" \in flags'[slot'[u]] /\ ~Asked(cmd[slot[u]])'
    <3>1. pc[u] \in {"clear"} \cup Filling /\ slot[u] \in Slots
      BY <1>1, <1>5, <2>3, OnListAtWork DEF Listed
    <3>2. QED
      BY <1>1, <1>2, <2>2, <3>1 DEF Asking, Asked
  <2>4. ASSUME NEW d \in Calls, Asked(d)'
        PROVE  slot'[d] \in OnList' /\ cmd'[slot'[d]] = d /\ Pending(slot[d])'
    <3>1. Asked(d)
      BY <1>1, <2>4 DEF Asked
    <3>2. slot[d] \in OnList /\ cmd[slot[d]] = d /\ Pending(slot[d])
      BY <1>2, <3>1 DEF Asking
    <3>3. slot[d] # slot[Worker] /\ slot[d] \in Slots
      BY <2>1, <3>1, <3>2, OnListTyped DEF Owned, Calm
    <3>4. flags'[slot[d]] = flags[slot[d]]
      BY <1>4, <3>3
    <3>5. QED
      BY <1>1, <3>2, <3>4 DEF Pending
  <2>5. \A u \in Senders : pc'[u] \in {"delLock", "delete"} =>
           "WAIT_CFM" \notin flags'[slot'[u]]
    <3>1. ASSUME NEW u \in Senders, pc'[u] \in {"delLock", "delete"}
          PROVE  "WAIT_CFM" \notin flags'[slot'[u]]
      <4>1. pc[u] = pc'[u] /\ slot[u] \in Slots
        BY <1>1, <1>5, <3>1, OnListAtWork DEF Listed
      <4>2. QED
        BY <1>1, <1>2, <2>2, <3>1, <4>1 DEF Asking
    <3>2. QED
      BY <3>1
  <2>6. \A s \in OnList : /\ done'[s] > 0 => "WAIT_CFM" \notin flags'[s]
                          /\ "WAIT_PUSH" \in flags'[s] => "WAIT_CFM" \in flags'[s]
    BY <1>1, <1>2, <1>4, <2>2, OnListTyped DEF Asking, Owned, Calm
  <2>7. QED
    BY <1>1, <1>2, <2>3, <2>4, <2>5, <2>6 DEF Asking
<1>9. QED
  BY <1>2, <1>6, <1>7, <1>8

\* The one answer arrives.
LEMMA ConfirmSend ==
    ASSUME Queued, Owned, SendInv, Confirm
    PROVE  SendInv' /\ (Smooth /\ Working => \A c \in Calls : Asked(c)' <=> Asked(c))
<1> USE ThreadsAssumption DEF mgr, pool, bulk, calls, Threads, Senders, Filling, Smooth
<1>1. UNCHANGED <<state, cmds, cmd, flags, done, slot, bus, failed, urb>> /\ OnList' = OnList
      /\ (Working' <=> Working)
  BY DEF Confirm, OnList, Working
<1>2. \A u \in Senders : pc'[u] = pc[u]
  BY DEF Confirm, Goto, Owned, Calm, TypeInv, TypeOK
<1>3. Ordered /\ WorkerFirst => Ordered' /\ WorkerFirst'
  BY <1>1, <1>2 DEF Ordered, WorkerFirst, AtWork
<1>4. Sole /\ pc[Worker] # "clear" /\ Stuck => Sole' /\ pc'[Worker] # "clear" /\ Stuck'
  BY <1>1, <1>2 DEF Sole, Stuck
<1>5. ASSUME Asking
      PROVE  Asking' /\ \A c \in Calls : Asked(c)' <=> Asked(c)
  <2>1. Len(fw) = 1 /\ rxmsg = None /\ urb = None /\ fw \in Seq(Calls)
    BY <1>5 DEF Confirm, Asking, Owned, Calm, TypeInv, TypeOK
  <2>2. fw = <<Head(fw)>> /\ Head(fw) \in Calls
    BY <2>1
  <2>3. fw' = <<>> /\ rxmsg' = Head(fw) /\ ToSet(fw) = {Head(fw)} /\ ToSet(fw') = {}
    BY <2>1, <2>2 DEF Confirm, ToSet
  <2>4. \A c \in Calls : Asked(c)' <=> Asked(c)
    BY <1>1, <2>1, <2>3 DEF Asked
  <2>5. None \notin Calls
    OBVIOUS
  <2>6. \A u \in Senders : pc'[u] \in {"clear"} \cup Filling =>
           "WAIT_CFM" \in flags'[slot'[u]] /\ ~Asked(cmd[slot[u]])'
    <3>1. ASSUME NEW u \in Senders, pc'[u] \in {"clear"} \cup Filling
          PROVE  "WAIT_CFM" \in flags'[slot'[u]] /\ ~Asked(cmd[slot[u]])'
      <4>1. "WAIT_CFM" \in flags[slot[u]] /\ ~Asked(cmd[slot[u]])
        BY <1>2, <1>5, <3>1 DEF Asking
      <4>2. QED
        BY <1>1, <2>1, <2>3, <4>1 DEF Asked
    <3>2. QED
      BY <3>1
  <2>7. \A d \in Calls : Asked(d)' =>
           slot'[d] \in OnList' /\ cmd'[slot'[d]] = d /\ Pending(slot[d])'
    BY <1>1, <1>5, <2>4 DEF Asking, Pending
  <2>8. \A u \in Senders : pc'[u] \in {"delLock", "delete"} =>
           "WAIT_CFM" \notin flags'[slot'[u]]
    BY <1>1, <1>2, <1>5 DEF Asking
  <2>9. QED
    BY <1>1, <1>5, <2>3, <2>4, <2>6, <2>7, <2>8 DEF Asking
<1>6. QED
  BY <1>1, <1>3, <1>4, <1>5 DEF SendInv

\* cmd_mgr_msgind finds the command that was asked for, however many wait for
\* a confirmation of the same id.
LEMMA IndicateFinds ==
    ASSUME Queued, Owned, SendInv, Indicate, Smooth, Working
    PROVE  /\ rxmsg \in Calls /\ Asked(rxmsg) /\ fw = <<>> /\ urb = None
           /\ slot[rxmsg] \in OnList /\ slot[rxmsg] \in Slots
           /\ CmdComplete(slot[rxmsg], flags[slot[rxmsg]] \ {"WAIT_CFM"})
<1>1. rxmsg \in Calls /\ Asked(rxmsg) /\ rxmsg # None
  BY ThreadsAssumption DEF Indicate, Asked, Owned, Calm, TypeInv, Threads
<1>2. slot[rxmsg] \in OnList /\ cmd[slot[rxmsg]] = rxmsg /\ Pending(slot[rxmsg])
      /\ fw = <<>> /\ urb = None
  BY <1>1 DEF SendInv, Asking
<1>3. PICK k \in 1..Len(cmds) : cmds[k] = slot[rxmsg]
  BY <1>2, Places DEF Owned, Calm
<1>4. Confirmable(cmds[k])
  BY <1>2, <1>3 DEF Confirmable, Message, Pending
<1>5. \E i \in {n \in 1..Len(cmds) : Confirmable(cmds[n])} :
         /\ \A j \in {n \in 1..Len(cmds) : Confirmable(cmds[n])} : i <= j
         /\ CmdComplete(cmds[i], flags[cmds[i]] \ {"WAIT_CFM"})
  BY <1>3, <1>4 DEF Indicate
<1>6. PICK i \in 1..Len(cmds) :
         /\ Confirmable(cmds[i]) /\ i <= k
         /\ CmdComplete(cmds[i], flags[cmds[i]] \ {"WAIT_CFM"})
  BY <1>3, <1>4, <1>5
<1>7. \A j \in 1..k : j < k => flags[cmds[j]] \cap Waiting = {}
  BY <1>2, <1>3, SentPrefix DEF SendInv, Pending, Owned, Calm
<1>8. i = k
  <2>1. i \in 1..k /\ ~(i < k)
    BY <1>6, <1>7 DEF Confirmable, Waiting
  <2>2. QED
    BY <2>1
<1>9. QED
  BY <1>1, <1>2, <1>3, <1>6, <1>8, OnListTyped DEF Owned, Calm

LEMMA IndicateSend ==
    ASSUME Queued, Owned, SendInv, Indicate
    PROVE  SendInv'
<1> USE ThreadsAssumption DEF bulk, Threads, Senders, Filling, Smooth
<1>1. UNCHANGED <<state, cmds, cmd, slot, bus, failed, urb, fw>> /\ OnList' = OnList /\ rxmsg' = None
      /\ (Working' <=> Working)
  BY DEF Indicate, OnList, Working
<1>2. \A u \in Senders : pc'[u] = pc[u]
  BY DEF Indicate, Goto, Owned, Calm, TypeInv, TypeOK
<1>3. SameUnsent
  BY QuietIndicate DEF Quiet, Owned
<1>4. \A s \in Slots : "WAIT_CFM" \in flags'[s] => "WAIT_CFM" \in flags[s]
  <2>1. CASE flags' = flags
    BY <2>1
  <2>2. CASE \E i \in 1..Len(cmds) : CmdComplete(cmds[i], flags[cmds[i]] \ {"WAIT_CFM"})
    <3>1. PICK i \in 1..Len(cmds) : CmdComplete(cmds[i], flags[cmds[i]] \ {"WAIT_CFM"})
      BY <2>2
    <3>2. \A s \in Slots : flags'[s] = IF s = cmds[i]
                                       THEN (flags[cmds[i]] \ {"WAIT_CFM"}) \cup {"DONE"}
                                       ELSE flags[s]
      BY <3>1 DEF CmdComplete, Owned, Calm, TypeInv, TypeOK
    <3>3. QED
      BY <3>2
  <2>3. QED
    BY <2>1, <2>2 DEF Indicate
<1>5. \A i \in 1..Len(cmds) : cmds[i] \in Slots
  BY Places DEF Owned, Calm
<1>6. Ordered => Ordered'
  BY <1>1, <1>3, <1>4, <1>5 DEF Ordered, SameUnsent, Waiting
<1>7. WorkerFirst => WorkerFirst'
  BY <1>1, <1>2 DEF WorkerFirst, AtWork
<1>8. Sole /\ pc[Worker] # "clear" /\ Stuck => Sole' /\ pc'[Worker] # "clear" /\ Stuck'
  BY <1>1, <1>2, <1>3, <1>5 DEF Sole, Stuck, SameUnsent
<1>9. ASSUME Smooth, Working
      PROVE  Asking'
  <2> DEFINE a == slot[rxmsg]
  <2>1. /\ rxmsg \in Calls /\ Asked(rxmsg) /\ fw = <<>> /\ urb = None
        /\ a \in OnList /\ a \in Slots
        /\ CmdComplete(a, flags[a] \ {"WAIT_CFM"})
    BY <1>9, IndicateFinds
  <2>2. Asking /\ cmd[a] = rxmsg /\ Pending(a)
    BY <1>9, <2>1 DEF SendInv, Asking
  <2>3. /\ \A s \in Slots : s # a => flags'[s] = flags[s] /\ done'[s] = done[s]
        /\ flags'[a] = (flags[a] \ {"WAIT_CFM"}) \cup {"DONE"}
    BY <2>1 DEF CmdComplete, Owned, Calm, TypeInv, TypeOK
  <2> HIDE DEF a
  <2>4. "WAIT_CFM" \notin flags'[a] /\ "WAIT_PUSH" \notin flags'[a]
    BY <2>2, <2>3 DEF Pending
  <2>5. ToSet(fw') = {} /\ \A d \in Calls : ~Asked(d)'
    BY <1>1, <2>1 DEF Asked, ToSet
  <2>6. ASSUME NEW u \in Senders, pc'[u] \in {"clear"} \cup Filling
        PROVE  "WAIT_CFM" \in flags'[slot'[u]] /\ ~Asked(cmd[slot[u]])'
    <3>1. slot[u] \in Slots /\ cmd[slot[u]] \in Calls
      BY <1>2, <1>9, <2>6, OnListAtWork DEF Listed
    <3>2. "WAIT_CFM" \in flags[slot[u]] /\ ~Asked(cmd[slot[u]])
      BY <1>2, <2>2, <2>6 DEF Asking
    <3>3. slot[u] # a
      BY <2>1, <2>2, <3>2
    <3>4. cmd'[slot'[u]] \in Calls /\ flags'[slot'[u]] = flags[slot[u]]
      BY <1>1, <2>3, <3>1, <3>3
    <3>5. cmd'[slot'[u]] \notin ToSet(fw') \cup {rxmsg', urb'}
      BY <1>1, <2>1, <2>5, <3>4, ThreadsAssumption
    <3>6. QED
      BY <3>2, <3>4, <3>5 DEF Asked
  <2>7. ASSUME NEW s \in OnList
        PROVE  /\ done'[s] > 0 => "WAIT_CFM" \notin flags'[s]
               /\ "WAIT_PUSH" \in flags'[s] => "WAIT_CFM" \in flags'[s]
    <3>1. s \in Slots
      BY OnListTyped DEF Owned, Calm
    <3>2. CASE s = a
      BY <2>4, <3>2
    <3>3. CASE s # a
      BY <2>2, <2>3, <3>1, <3>3 DEF Asking
    <3>4. QED
      BY <3>2, <3>3
  <2>8. ASSUME NEW u \in Senders, pc'[u] \in {"delLock", "delete"}
        PROVE  "WAIT_CFM" \notin flags'[slot'[u]]
    <3>1. slot[u] \in Slots
      BY <1>2, <1>9, <2>8, OnListAtWork DEF Listed
    <3>2. QED
      BY <1>1, <1>2, <1>4, <2>2, <2>8, <3>1 DEF Asking
  <2>9. QED
    BY <1>1, <2>1, <2>5, <2>6, <2>7, <2>8 DEF Asking
<1>10. QED
  BY <1>1, <1>6, <1>7, <1>8, <1>9 DEF SendInv

\* What transmits is still smooth only if it got on.
LEMMA SmoothTransmit ==
    ASSUME Queued, Owned, BufferInv, BufferThere, NEW t \in Senders, Transmit(t), Smooth'
    PROVE  /\ Smooth /\ UNCHANGED <<mgr, cmd, flags, done, fw, rxmsg, slot, ret>>
           /\ \/ Fill(t) /\ Goto(t, "write") /\ UNCHANGED <<cmd_buf, urb>>
              \/ Write(t) /\ Goto(t, "send") /\ cmd_buf' = cmd[slot[t]] /\ urb' = urb
              \/ TxMsg(t) /\ Goto(t, "submit") /\ UNCHANGED <<cmd_buf, urb>>
              \/ Submit(t) /\ Goto(t, "sending") /\ urb = None /\ urb' = cmd_buf
                           /\ cmd_buf' = cmd_buf
              \/ Sending(t) /\ Goto(t, "wait") /\ UNCHANGED <<cmd_buf, urb>>
<1> USE ThreadsAssumption DEF pool, link, bulk, calls, Smooth
<1>1. ~(t \in Calls /\ kind[t].route = "direct")
  BY NoneBypasses DEF Bypasses, Owned, Calm
<1>2. AfterSending(t) => Goto(t, "wait") /\ ret' = ret
  BY <1>1 DEF AfterSending, Sent
<1>3. CASE Fill(t)
  BY <1>3 DEF Fill
<1>4. CASE Write(t)
  BY <1>4 DEF Write, BufferThere
<1>5. CASE TxMsg(t)
  BY <1>5 DEF TxMsg
<1>6. CASE Submit(t)
  BY <1>6 DEF Submit
<1>7. CASE Sending(t)
  BY <1>2, <1>7 DEF Sending
<1>8. ~TxTimedOut(t)
  BY DEF TxTimedOut
<1>9. ~KillUrb(t)
  BY DEF KillUrb, BufferInv
<1>10. QED
  BY <1>3, <1>4, <1>5, <1>6, <1>7, <1>8, <1>9 DEF Transmit

\* All the other steps.
LEMMA AsideSteps ==
    ASSUME Queued, Owned, BufferInv, BufferThere, Smooth', NEW t \in Threads,
           \/ Acquire(t)
           \/ t \in Calls /\ \/ Spin(t) \/ SpinAgain(t) \/ UnlockUnheld(t) \/ Refuse(t)
                             \/ Wake(t) \/ Rewake(t)
           \/ t \in Senders /\ (TimedOut(t) \/ (Transmit(t) /\ ~Submit(t)))
           \/ t = Worker /\ StartWork
    PROVE  \E l : Aside(t, l)
<1> USE ThreadsAssumption DEF mgr, pool, link, bulk, calls, Threads, Senders, Filling, Smooth
<1>1. CASE Acquire(t)
  <2>1. PICK l : Goto(t, l) /\ l \in {Entered(pc[t]), "hung"}
    BY <1>1 DEF Acquire
  <2>2. Aside(t, l)
    BY <1>1, <2>1 DEF Acquire, Entered, Locking, Aside, Before, Listed
  <2>3. QED
    BY <2>2
<1>2. CASE t \in Calls /\ \/ Spin(t) \/ SpinAgain(t) \/ UnlockUnheld(t) \/ Refuse(t)
                          \/ Wake(t) \/ Rewake(t)
  <2>1. PICK l \in {"unheld", "spinLock", "spin", "returned"} : Goto(t, l)
    BY <1>2 DEF Spin, SpinAgain, UnlockUnheld, Refuse, Wake, Rewake, Return
  <2>2. UNCHANGED <<state, cmds, cmd, slot, flags, done, urb, fw, rxmsg, bus, failed>>
    BY <1>2 DEF Spin, SpinAgain, UnlockUnheld, Refuse, Wake, Rewake
  <2>3. Aside(t, l)
    BY <1>2, <2>1, <2>2 DEF Aside, Listed
  <2>4. QED
    BY <2>3
<1>3. CASE t \in Senders /\ Transmit(t) /\ ~Submit(t)
  <2>1. /\ Smooth /\ UNCHANGED <<state, cmds, cmd, flags, done, urb, fw, rxmsg, slot>>
        /\ \E l \in {"write", "send", "submit", "wait"} :
              Goto(t, l) /\ (l = "wait" \/ pc[t] \in Filling)
    BY <1>3, SmoothTransmit DEF Fill, Write, TxMsg
  <2>2. pc[t] \in Listed
    BY <1>3, TransmitMoves DEF Transmitting, Listed
  <2>3. PICK l \in {"write", "send", "submit", "wait"} :
          Goto(t, l) /\ (l = "wait" \/ pc[t] \in Filling)
    BY <2>1
  <2>4. Aside(t, l)
    BY <2>1, <2>2, <2>3 DEF Aside
  <2>5. QED
    BY <2>4
<1>4. CASE t \in Senders /\ TimedOut(t)
  <2>1. Aside(t, "crashLock")
    BY <1>4 DEF TimedOut, Aside, Listed
  <2>2. QED
    BY <2>1
<1>5. CASE t = Worker /\ StartWork
  <2>1. Aside(t, "lookLock")
    BY <1>5 DEF StartWork, Aside, Before, Listed
  <2>2. QED
    BY <2>1
<1>6. QED
  BY <1>1, <1>2, <1>3, <1>4, <1>5

LEMMA StepSend ==
    ASSUME Queued, Owned, SendInv, BufferInv, BufferThere, [Next]_vars
    PROVE  SendInv'
<1> SUFFICES ASSUME Smooth'
             PROVE  SendInv'
  BY DEF SendInv
<1> USE DEF Threads, Senders
<1>1. ASSUME NEW t \in Threads, \E l : Aside(t, l)
      PROVE  SendInv'
  BY <1>1, AsideSend
<1>2. ASSUME NEW t \in Threads, Acquire(t)
      PROVE  SendInv'
  BY <1>1, <1>2, AsideSteps
<1>3. ASSUME NEW c \in Calls, CallStep(c) \/ Start(c) \/ Killed(c)
      PROVE  SendInv'
  <2>1. CASE Enqueue(c)
    <3>1. state # "DEINIT"
      BY <2>1, ThreadsAssumption DEF Enqueue, AtEnqueue, Next, vars, Goto, Owned, Calm,
         TypeInv, TypeOK
    <3>2. QED
      BY <2>1, <3>1, EnqueueSend
  <2>2. CASE Start(c)
    BY <2>2, StartSend
  <2>3. ~Killed(c)
    BY DEF Killed, Queued
  <2>4. CASE Spin(c) \/ SpinAgain(c) \/ UnlockUnheld(c) \/ Refuse(c) \/ Wake(c) \/ Rewake(c)
    BY <2>4, <1>1, AsideSteps
  <2>5. QED
    BY <1>3, <2>1, <2>2, <2>3, <2>4 DEF CallStep
<1>4. ASSUME NEW t \in Senders, SenderStep(t)
      PROVE  SendInv'
  <2>1. CASE TimedOut(t) \/ (Transmit(t) /\ ~Submit(t))
    BY <2>1, <1>1, AsideSteps
  <2>2. CASE Submit(t)
    <3>1. Smooth
      BY <2>2, SmoothTransmit DEF Transmit
    <3>2. QED
      BY <2>2, <3>1, SubmitSend
  <2>3. CASE Completed(t)
    BY <2>3, CompletedSend
  <2>4. CASE Delete(t) /\ slot[t] \in OnList
    BY <2>4, DeleteSend
  <2>5. CASE Delete(t) /\ slot[t] \notin OnList
    <3>1. Quiet(t, "oops")
      BY <2>5, DeleteNone DEF Owned
    <3>2. Aside(t, "oops")
      BY <2>5, <3>1 DEF Delete, Quiet, Aside, Before, Listed, Filling, Smooth, link, bulk,
         calls
    <3>3. QED
      BY <3>2, AsideSend
  <2>6. CASE Crash(t)
    BY <2>6, CrashSend
  <2>7. QED
    BY <1>4, <2>1, <2>2, <2>3, <2>4, <2>5, <2>6 DEF SenderStep, Transmit
<1>5. ASSUME WorkerStep \/ RxStep
      PROVE  SendInv'
  <2>1. CASE StartWork
    BY <2>1, <1>1, AsideSteps
  <2>2. QED
    BY <1>5, <2>1, LookSend, ClearSend, ConfirmSend, IndicateSend DEF WorkerStep, RxStep
<1>6. ~RemoverStep /\ ~Stop
  BY DEF RemoverStep, CancelUrbs, FreeBuffer, StopRx, Drain, Flush, Stop, Owned, Calm,
     PlaceInv, link, Smooth
<1>7. CASE Transferred
  BY <1>7, TransferredSend
<1>8. CASE UNCHANGED vars
  <2>1. UNCHANGED <<state, cmds, cmd, flags, done, bus, failed, urb, fw, rxmsg, pc, slot>>
    BY <1>8 DEF vars, mgr, pool, link, bulk, calls
  <2>2. QED
    BY <2>1 DEF SendInv, Smooth, Ordered, WorkerFirst, Asking, Sole, Stuck, AtWork,
       Working, OnList, Asked, Pending
<1>9. QED
  BY <1>2, <1>3, <1>4, <1>5, <1>6, <1>7, <1>8 DEF Next, Step

\* A step that leaves the buffer alone, and the slots of those about to submit.
LEMMA StepBuffer ==
    ASSUME Queued, Owned, SendInv, BufferInv, BufferThere, [Next]_vars
    PROVE  BufferInv'
<1> SUFFICES ASSUME Smooth'
             PROVE  BufferInv'
  BY DEF BufferInv
<1> USE ThreadsAssumption DEF mgr, pool, link, bulk, calls, Threads, Senders
<1>1. ASSUME Smooth, UNCHANGED <<cmd_buf, urb>>,
             \A t \in Senders : /\ pc'[t] = "kill" => pc[t] = "kill"
                                /\ pc'[t] \in {"send", "submit"} =>
                                      /\ pc[t] \in {"send", "submit"}
                                      /\ cmd'[slot'[t]] = cmd[slot[t]]
      PROVE  BufferInv'
  BY <1>1 DEF BufferInv
<1>2. ASSUME Smooth, NEW t \in Threads, NEW l, Goto(t, l), l # "kill",
             l \in {"send", "submit"} => pc[t] \in {"send", "submit"},
             UNCHANGED <<cmd_buf, urb, cmd, slot>>
      PROVE  BufferInv'
  <2>1. \A u \in Senders : pc'[u] = IF u = t THEN l ELSE pc[u]
    BY <1>2 DEF Goto, Owned, Calm, TypeInv, TypeOK
  <2>2. QED
    BY <1>1, <1>2, <2>1
<1>3. ASSUME NEW t \in Senders, Transmit(t)
      PROVE  BufferInv'
  <2>1. /\ Smooth /\ UNCHANGED <<cmd, slot>>
        /\ \/ \E l \in {"write", "submit", "wait"} :
                 /\ Goto(t, l) /\ UNCHANGED <<cmd_buf, urb>>
                 /\ l = "submit" => pc[t] = "send"
           \/ /\ pc[t] = "write" /\ cmd_buf' = cmd[slot[t]] /\ urb' = urb
              /\ Goto(t, "send")
           \/ /\ pc[t] = "submit" /\ urb' = cmd_buf /\ cmd_buf' = cmd_buf
              /\ Goto(t, "sending")
    BY <1>3, SmoothTransmit DEF Write, TxMsg, Submit
  <2>2. CASE \E l \in {"write", "submit", "wait"} :
               /\ Goto(t, l) /\ UNCHANGED <<cmd_buf, urb>>
               /\ l = "submit" => pc[t] = "send"
    BY <1>2, <2>1, <2>2
  <2>3. CASE pc[t] = "write" /\ cmd_buf' = cmd[slot[t]] /\ urb' = urb /\ Goto(t, "send")
    <3>1. \A u \in Senders : pc'[u] = IF u = t THEN "send" ELSE pc[u]
      BY <2>3 DEF Goto, Owned, Calm, TypeInv, TypeOK
    <3>2. urb = None /\ \A u \in Senders : u # t => pc[u] \notin Filling
      BY <2>1, <2>3, SoleSender DEF Sole, Filling
    <3>3. QED
      BY <2>1, <2>3, <3>1, <3>2 DEF BufferInv, Filling
  <2>4. CASE pc[t] = "submit" /\ urb' = cmd_buf /\ cmd_buf' = cmd_buf /\ Goto(t, "sending")
    <3>1. \A u \in Senders : pc'[u] = IF u = t THEN "sending" ELSE pc[u]
      BY <2>4 DEF Goto, Owned, Calm, TypeInv, TypeOK
    <3>2. AtWork(t) /\ cmd[slot[t]] \in Calls
      BY <2>4 DEF AtWork, Owned, Calm, TypeInv
    <3>3. QED
      BY <2>1, <2>4, <3>1, <3>2 DEF BufferInv
  <2>5. QED
    BY <2>1, <2>2, <2>3, <2>4
<1>4. ASSUME NEW c \in Calls, Start(c)
      PROVE  BufferInv'
  <2>1. /\ pc[c] = "idle" /\ UNCHANGED <<cmd_buf, urb>> /\ Smooth
        /\ \/ UNCHANGED <<cmd, slot>>
           \/ \E s \in Free : cmd' = [cmd EXCEPT ![s] = c] /\ slot' = [slot EXCEPT ![c] = s]
    BY <1>4 DEF Start, Smooth
  <2>2. PICK l : Goto(c, l) /\ l \notin {"kill", "send", "submit"}
    BY <1>4 DEF Start, Return
  <2>3. \A u \in Senders : pc'[u] = IF u = c THEN l ELSE pc[u]
    BY <2>2 DEF Goto, Owned, Calm, TypeInv, TypeOK
  <2>4. ASSUME NEW t \in Senders, pc'[t] \in {"send", "submit"}
        PROVE  pc[t] \in {"send", "submit"} /\ cmd'[slot'[t]] = cmd[slot[t]]
    <3>1. t # c /\ pc[t] \in {"send", "submit"}
      BY <2>2, <2>3, <2>4
    <3>2. used[slot[t]] /\ slot[t] \in Slots
      BY <3>1 DEF AtWork, Owned, SlotInv, Calm, TypeInv
    <3>3. QED
      BY <2>1, <3>1, <3>2 DEF Free, Owned, Calm, TypeInv, TypeOK
  <2>5. QED
    BY <1>1, <2>1, <2>2, <2>3, <2>4
<1>5. ASSUME Look
      PROVE  BufferInv'
  <2>1. UNCHANGED <<cmd_buf, urb, cmd>> /\ Smooth /\ \A u \in Calls : slot'[u] = slot[u]
    BY <1>5 DEF Look, Smooth, Owned, Calm, TypeInv, TypeOK
  <2>2. PICK l \in {"clear", "idle"} : Goto(Worker, l)
    BY <1>5 DEF Look
  <2>3. QED
    BY <1>1, <2>1, <2>2 DEF Goto, Owned, Calm, TypeInv, TypeOK
<1>6. ASSUME NEW t \in Threads, Acquire(t)
      PROVE  BufferInv'
  <2>1. PICK l : Goto(t, l) /\ l \notin {"kill", "send", "submit"}
    BY <1>6 DEF Acquire, Entered, Locking
  <2>2. Smooth /\ UNCHANGED <<cmd_buf, urb, cmd, slot>>
    BY <1>6 DEF Acquire, Smooth
  <2>3. QED
    BY <1>2, <2>1, <2>2
<1>7. ASSUME NEW c \in Calls, CallStep(c) \/ Killed(c)
      PROVE  BufferInv'
  <2>1. PICK l : Goto(c, l) /\ l \notin {"kill", "send", "submit"}
    BY <1>7 DEF CallStep, Killed, Spin, SpinAgain, UnlockUnheld, Refuse, Enqueue, Wake,
       Rewake, Return
  <2>2. Smooth /\ UNCHANGED <<cmd_buf, urb, cmd, slot>>
    BY <1>7 DEF CallStep, Killed, Spin, SpinAgain, UnlockUnheld, Refuse, Enqueue, Wake,
       Rewake, Smooth
  <2>3. QED
    BY <1>2, <2>1, <2>2
<1>8. ASSUME NEW t \in Senders, Completed(t) \/ TimedOut(t) \/ Delete(t) \/ Crash(t)
      PROVE  BufferInv'
  <2>1. PICK l : Goto(t, l) /\ l \notin {"kill", "send", "submit"}
    BY <1>8 DEF Completed, TimedOut, Delete, Crash, Return
  <2>2. Smooth /\ UNCHANGED <<cmd_buf, urb, cmd, slot>>
    BY <1>8 DEF Completed, TimedOut, Delete, Crash, Smooth
  <2>3. QED
    BY <1>2, <2>1, <2>2
<1>9. ASSUME StartWork \/ Clear \/ RxStep
      PROVE  BufferInv'
  <2>1. PICK t \in {Worker, Rx} : \E l : Goto(t, l) /\ l \notin {"kill", "send", "submit"}
    BY <1>9 DEF StartWork, Clear, RxStep, Confirm, Indicate
  <2>2. Smooth /\ UNCHANGED <<cmd_buf, urb, cmd, slot>>
    BY <1>9 DEF StartWork, Clear, RxStep, Confirm, Indicate, Smooth
  <2>3. QED
    BY <1>2, <2>1, <2>2
<1>10. ~RemoverStep /\ ~Stop
  BY DEF RemoverStep, CancelUrbs, FreeBuffer, StopRx, Drain, Flush, Stop, Owned, Calm,
     PlaceInv, Smooth
<1>11. CASE Transferred
  <2>1. Smooth /\ UNCHANGED <<pc, cmd, slot, cmd_buf>> /\ urb' = None
    BY <1>11 DEF Transferred, Smooth
  <2>2. QED
    BY <2>1 DEF BufferInv
<1>12. CASE UNCHANGED vars
  BY <1>12 DEF vars, BufferInv, Smooth
<1>13. QED
  BY <1>3, <1>4, <1>5, <1>6, <1>7, <1>8, <1>9, <1>10, <1>11, <1>12
     DEF Next, Step, SenderStep, Transmit, WorkerStep

LEMMA InitSend == Init => SendInv /\ BufferInv /\ BufferThere
<1> SUFFICES ASSUME Init
             PROVE  SendInv /\ BufferInv /\ BufferThere
  OBVIOUS
<1> USE ThreadsAssumption DEF Init, Threads, Senders
<1>1. OnList = {} /\ Len(cmds) = 0 /\ Working /\ ToSet(fw) = {}
  BY DEF OnList, ToSet, Working
<1>2. Ordered /\ WorkerFirst /\ BufferInv /\ BufferThere
  BY <1>1 DEF Ordered, WorkerFirst, AtWork, BufferInv, BufferThere
<1>3. Asking
  BY <1>1 DEF Asking, Asked, Filling
<1>4. QED
  BY <1>1, <1>2, <1>3 DEF SendInv

OneAtATime == Owned /\ SendInv /\ BufferInv /\ BufferThere

LEMMA OneAtATimeAlways == ASSUME Queued PROVE Spec => []OneAtATime
<1>1. Init /\ Owned => OneAtATime
  BY InitSend DEF OneAtATime
<1>2. OneAtATime /\ Owned' /\ [Next]_vars => OneAtATime'
  BY StepSend, StepBuffer, StepThere DEF OneAtATime
<1>3. QED
  BY OwnedAlways, <1>1, <1>2, PTL DEF Spec

\* The one buffer of the USB bus (cmd_buf) holds, when it is handed to the
\* controller, the message of the thread that hands it over, the one URB is free
\* then, and nobody writes to the buffer while the controller has it, although no
\* lock covers any of this: if every message goes through the queue and no caller
\* is killed, until a transmission goes wrong or the device is gone, and also
\* after the timeout of a command.
THEOREM BufferUntouchedHolds == ASSUME Queued PROVE Spec => []BufferUntouched
<1>1. OneAtATime => BufferUntouched
  <2>1. SUFFICES ASSUME OneAtATime, Smooth
                 PROVE  BufferUntouched
    BY DEF BufferUntouched, Smooth
  <2>2. Sole
    BY <2>1, SoleSender DEF OneAtATime
  <2>3. QED
    BY <2>1, <2>2 DEF OneAtATime, BufferInv, Sole, Filling, BufferUntouched
<1>2. QED
  BY OneAtATimeAlways, <1>1, PTL

-----------------------------------------------------------------------------
(* The refinement: the command manager implements CmdService.              *)

Fine == Working /\ Smooth

\* A call's command is on the list, and still open.
Here(c) == slot[c] \in OnList /\ cmd[slot[c]] = c
Open(c) == "WAIT_CFM" \in flags[slot[c]]

\* The phase of a call's command, by its own slot.
PhaseAt(c) ==
    IF Here(c)
    THEN IF Open(c) THEN IF Asked(c) THEN "sent" ELSE "listed" ELSE "answered"
    ELSE IF pc[c] \in {"wake", "rewake"} \/ ret[c] = "0" THEN "closed" ELSE "new"

\* A call has a result once it has returned; the caller of a command on the
\* list is at work on it, or has left it to the worker and succeeds.
ServInv ==
    /\ \A c \in Calls : ret[c] # "none" => pc[c] = "returned"
    /\ Fine => \A c \in Calls : Here(c) =>
          \/ pc[c] \in Listed \cup {"wake"}
          \/ pc[c] = "returned" /\ ret[c] = "0"

LEMMA PhaseIs == Owned => \A c \in Calls : PhaseOf(c) = PhaseAt(c)
<1> SUFFICES ASSUME Owned, NEW c \in Calls
             PROVE  PhaseOf(c) = PhaseAt(c)
  OBVIOUS
<1>1. \A s \in OnList : cmd[s] = c => slot[c] = s
  BY OnListTyped DEF Owned, Calm, SlotInv
<1>2. IsListed(c) <=> Here(c)
  BY <1>1 DEF IsListed, Here
<1>3. (\E s \in OnList : cmd[s] = c /\ "WAIT_CFM" \in flags[s]) <=> Here(c) /\ Open(c)
  BY <1>1 DEF Here, Open
<1>4. QED
  BY <1>2, <1>3 DEF PhaseOf, PhaseAt

\* What a step does to the phases: nothing, or it moves one command.
ResultsSame == \A d \in Calls : ret'[d] = "0" <=> ret[d] = "0"
Still == ResultsSame /\ \A d \in Calls : PhaseAt(d)' = PhaseAt(d)
Moves(c, from, to) ==
    /\ c \in Calls /\ ResultsSame
    /\ PhaseAt(c) = from /\ PhaseAt(c)' = to
    /\ \A d \in Calls : d # c => PhaseAt(d)' = PhaseAt(d)
Succeeds(c) ==
    /\ c \in Calls /\ \A d \in Calls : PhaseAt(d)' = PhaseAt(d)
    /\ ret[c] # "0" /\ \A d \in Calls : ret'[d] = "0" <=> ret[d] = "0" \/ d = c
    /\ PhaseAt(c) # "new" /\ (kind[c].reply => PhaseAt(c) = "closed")

\* A step of a thread within what it was doing keeps the invariant, if it
\* neither puts commands on the list nor takes them off.
LEMMA FrameInv ==
    ASSUME Owned, ServInv, Fine, NEW t \in Threads, NEW l, Goto(t, l), ret' = ret,
           pc[t] # "returned", t \in Calls /\ pc[t] \in Listed \cup {"wake"} => l \in Listed,
           \A d \in Calls : Here(d)' => Here(d)
    PROVE  ServInv'
<1>1. \A u \in Threads : pc'[u] = IF u = t THEN l ELSE pc[u]
  BY DEF Goto, Owned, Calm, TypeInv, TypeOK
<1>2. \A c \in Calls : ret'[c] # "none" => pc'[c] = "returned"
  BY <1>1 DEF ServInv, Threads
<1>3. ASSUME NEW c \in Calls, Here(c)'
      PROVE  \/ pc'[c] \in Listed \cup {"wake"}
             \/ pc'[c] = "returned" /\ ret'[c] = "0"
  <2>1. \/ pc[c] \in Listed \cup {"wake"}
        \/ pc[c] = "returned" /\ ret[c] = "0"
    BY <1>3 DEF ServInv
  <2>2. QED
    BY <1>1, <2>1 DEF Threads
<1>4. QED
  BY <1>2, <1>3 DEF ServInv

LEMMA FramePhase ==
    ASSUME Owned, NEW t \in Threads, NEW l, Goto(t, l), ret' = ret,
           t \in Calls => pc[t] \notin {"wake", "rewake"} /\ l \notin {"wake", "rewake"},
           \A d \in Calls : /\ Here(d)' <=> Here(d)
                            /\ Here(d) => (Open(d)' <=> Open(d)) /\ (Asked(d)' <=> Asked(d))
    PROVE  Still
<1>1. \A u \in Threads : pc'[u] = IF u = t THEN l ELSE pc[u]
  BY DEF Goto, Owned, Calm, TypeInv, TypeOK
<1>2. \A d \in Calls : pc'[d] \in {"wake", "rewake"} <=> pc[d] \in {"wake", "rewake"}
  BY <1>1 DEF Threads
<1>3. QED
  BY <1>2 DEF Still, ResultsSame, PhaseAt

\* A caller whose command is not queued has none on the list.
LEMMA BeforeNotHere ==
    ASSUME Owned, Working, NEW c \in Calls, pc[c] \in Before \cup {"idle"}
    PROVE  ~Here(c)
<1>1. CASE pc[c] = "idle"
  BY <1>1, OnListTyped DEF Here, Owned, Calm, SlotInv
<1>2. CASE pc[c] \in Before
  <2>1. AtWork(c)
    BY <1>2, AtWorkIs
  <2>2. QED
    BY <1>2, <2>1 DEF Here, Owned, ListInv
<1>3. QED
  BY <1>1, <1>2

-----------------------------------------------------------------------------
\* Sending and waiting, and the work before a command is queued.
LEMMA AsideServ ==
    ASSUME Queued, OneAtATime, ServInv, Fine, Fine', NEW t \in Threads,
           \/ Acquire(t)
           \/ t \in Calls /\ (Spin(t) \/ SpinAgain(t))
           \/ t \in Senders /\ (TimedOut(t) \/ (Transmit(t) /\ ~Submit(t)))
           \/ t = Worker /\ StartWork
    PROVE  ServInv' /\ Still
<1> USE ThreadsAssumption DEF mgr, pool, link, bulk, calls, Threads, Senders
<1>1. Owned /\ lock # "lost"
  BY DEF OneAtATime, Owned, Calm, LockInv, Fine
<1>2. t \in Senders /\ Transmit(t) /\ ~Submit(t) =>
         /\ UNCHANGED <<cmds, cmd, slot, flags, urb, fw, rxmsg, ret>>
         /\ pc[t] \in Transmitting
         /\ \E l \in {"write", "send", "submit", "wait"} : Goto(t, l)
  <2>1. SUFFICES ASSUME t \in Senders, Transmit(t), ~Submit(t)
                 PROVE  /\ UNCHANGED <<cmds, cmd, slot, flags, urb, fw, rxmsg, ret>>
                        /\ pc[t] \in Transmitting
                        /\ \E l \in {"write", "send", "submit", "wait"} : Goto(t, l)
    OBVIOUS
  <2>2. Smooth' /\ BufferInv /\ BufferThere
    BY DEF Fine, OneAtATime
  <2>3. QED
    BY <1>1, <2>1, <2>2, SmoothTransmit, TransmitMoves
<1>3. PICK l : /\ Goto(t, l) /\ l \notin {"wake", "rewake"}
               /\ pc[t] \notin {"wake", "rewake", "returned"}
               /\ t \in Calls /\ pc[t] \in Listed => l \in Listed
  <2>1. CASE Acquire(t)
    <3>1. Goto(t, Entered(pc[t]))
      BY <1>1, <2>1 DEF Acquire
    <3>2. QED
      BY <2>1, <3>1 DEF Acquire, Entered, Locking, Listed
  <2>2. CASE t \in Calls /\ (Spin(t) \/ SpinAgain(t))
    BY <2>2 DEF Spin, SpinAgain, Listed
  <2>3. CASE t \in Senders /\ Transmit(t) /\ ~Submit(t)
    BY <1>2, <2>3 DEF Transmitting, Listed
  <2>4. CASE t \in Senders /\ TimedOut(t)
    BY <2>4 DEF TimedOut, Listed
  <2>5. CASE t = Worker /\ StartWork
    BY <2>5 DEF StartWork, Listed
  <2>6. QED
    BY <2>1, <2>2, <2>3, <2>4, <2>5
<1>4. UNCHANGED <<cmds, cmd, slot, flags, urb, fw, rxmsg, ret>>
  BY <1>2 DEF Acquire, Spin, SpinAgain, TimedOut, StartWork
<1>5. \A d \in Calls : /\ Here(d)' <=> Here(d)
                       /\ (Open(d)' <=> Open(d)) /\ (Asked(d)' <=> Asked(d))
  BY <1>4 DEF Here, OnList, Open, Asked
<1>6. ServInv'
  BY <1>1, <1>3, <1>4, <1>5, FrameInv
<1>7. Still
  BY <1>1, <1>3, <1>4, <1>5, FramePhase
<1>8. QED
  BY <1>6, <1>7

\* A caller returns without having queued its command, or leaves it to the
\* worker, or has had it confirmed.
LEMMA RefuseServ ==
    ASSUME Owned, ServInv, Fine, Fine', NEW c \in Calls, Refuse(c)
    PROVE  ServInv' /\ Still
<1> USE ThreadsAssumption DEF Threads, Senders
<1>1. /\ UNCHANGED <<cmds, cmd, slot, flags, link>> /\ pc[c] \in Before
      /\ Return(c, "ENOMEM")
  BY DEF Refuse, AtEnqueue, Before, Fine, Working
<1>2. /\ \A d \in Calls : ret'[d] = IF d = c THEN "ENOMEM" ELSE ret[d]
      /\ \A u \in Threads : pc'[u] = IF u = c THEN "returned" ELSE pc[u]
  BY <1>1 DEF Return, Goto, Owned, Calm, TypeInv, TypeOK
<1>3. \A d \in Calls : /\ Here(d)' <=> Here(d)
                       /\ (Open(d)' <=> Open(d)) /\ (Asked(d)' <=> Asked(d))
  BY <1>1 DEF Here, OnList, Open, Asked, link, bulk
<1>4. ~Here(c) /\ ret[c] # "0"
  BY <1>1, BeforeNotHere DEF Fine, ServInv, Before
<1>5. ServInv'
  BY <1>2, <1>3, <1>4 DEF ServInv
<1>6. Still
  <2>1. PhaseAt(c) = "new" /\ PhaseAt(c)' = "new"
    BY <1>1, <1>2, <1>3, <1>4 DEF PhaseAt, Before
  <2>2. \A d \in Calls : d # c => PhaseAt(d)' = PhaseAt(d)
    BY <1>2, <1>3 DEF PhaseAt
  <2>3. ResultsSame
    BY <1>2, <1>4 DEF ResultsSame
  <2>4. QED
    BY <2>1, <2>2, <2>3 DEF Still
<1>7. QED
  BY <1>5, <1>6

LEMMA WakeServ ==
    ASSUME Owned, ServInv, Fine, Fine', NEW c \in Calls, Wake(c) \/ Rewake(c)
    PROVE  ServInv' /\ Succeeds(c)
<1> USE ThreadsAssumption DEF Threads, Senders
<1>1. /\ UNCHANGED <<cmds, cmd, slot, flags, link, kind>> /\ pc[c] \in {"wake", "rewake"}
      /\ Return(c, "0")
  BY DEF Wake, Rewake, pool
<1>2. /\ \A d \in Calls : ret'[d] = IF d = c THEN "0" ELSE ret[d]
      /\ \A u \in Threads : pc'[u] = IF u = c THEN "returned" ELSE pc[u]
  BY <1>1 DEF Return, Goto, Owned, Calm, TypeInv, TypeOK
<1>3. \A d \in Calls : /\ Here(d)' <=> Here(d)
                       /\ (Open(d)' <=> Open(d)) /\ (Asked(d)' <=> Asked(d))
  BY <1>1 DEF Here, OnList, Open, Asked, link, bulk
<1>4. ServInv'
  BY <1>2, <1>3 DEF ServInv
<1>5. \A d \in Calls : PhaseAt(d)' = PhaseAt(d)
  BY <1>1, <1>2, <1>3 DEF PhaseAt
<1>6. ret[c] # "0"
  BY <1>1 DEF ServInv
<1>7. PhaseAt(c) # "new" /\ (kind[c].reply => PhaseAt(c) = "closed")
  <2>1. kind[c].reply => pc[c] = "rewake"
    BY <1>1 DEF Owned, Calm, PlaceInv, Allowed
  <2>2. pc[c] = "rewake" => ~Here(c)
    BY DEF ServInv, Listed
  <2>3. QED
    BY <1>1, <2>1, <2>2 DEF PhaseAt
<1>8. QED
  BY <1>2, <1>4, <1>5, <1>6, <1>7 DEF Succeeds

LEMMA StartServ ==
    ASSUME Owned, ServInv, Fine, Fine', NEW c \in Calls, Start(c)
    PROVE  ServInv' /\ Still
<1> USE ThreadsAssumption DEF mgr, pool, link, bulk, calls, Threads, Senders
<1>1. pc[c] = "idle" /\ UNCHANGED <<cmds, flags, urb, fw, rxmsg, ret>> /\ OnList' = OnList
      /\ \/ UNCHANGED <<cmd, slot>>
         \/ \E s \in Free : cmd' = [cmd EXCEPT ![s] = c] /\ slot' = [slot EXCEPT ![c] = s]
  BY DEF Start, Fine, Smooth, OnList
<1>2. PICK l : Goto(c, l) /\ l \notin {"wake", "rewake"}
  BY DEF Start, Return
<1>3. ~Here(c)
  BY <1>1, BeforeNotHere DEF Fine
<1>4. \A s \in Free : s \in Slots /\ s \notin OnList
  BY DEF Free, Fine, Smooth, Owned, ListInv
<1>5. OnList \subseteq Slots
  BY OnListTyped DEF Owned, Calm
<1>6. ASSUME NEW d \in Calls
      PROVE  /\ Here(d)' <=> Here(d)
             /\ Here(d) => (Open(d)' <=> Open(d)) /\ (Asked(d)' <=> Asked(d))
  <2>1. CASE UNCHANGED <<cmd, slot>>
    BY <1>1, <2>1 DEF Here, Open, Asked
  <2>2. CASE \E s \in Free : cmd' = [cmd EXCEPT ![s] = c] /\ slot' = [slot EXCEPT ![c] = s]
    <3>1. PICK s \in Free : cmd' = [cmd EXCEPT ![s] = c] /\ slot' = [slot EXCEPT ![c] = s]
      BY <2>2
    <3>2. /\ \A r \in Slots : cmd'[r] = IF r = s THEN c ELSE cmd[r]
          /\ \A u \in Calls : slot'[u] = IF u = c THEN s ELSE slot[u]
      BY <1>4, <3>1 DEF Owned, Calm, TypeInv, TypeOK
    <3>3. CASE d = c
      BY <1>1, <1>3, <1>4, <3>2, <3>3 DEF Here
    <3>4. CASE d # c
      BY <1>1, <1>4, <1>5, <3>2, <3>4 DEF Here, Open, Asked
    <3>5. QED
      BY <3>3, <3>4
  <2>3. QED
    BY <1>1, <2>1, <2>2
<1>7. ServInv'
  BY <1>1, <1>2, <1>6, FrameInv DEF Listed
<1>8. Still
  BY <1>1, <1>2, <1>6, FramePhase
<1>9. QED
  BY <1>7, <1>8

\* A command is queued.
LEMMA EnqueueServ ==
    ASSUME OneAtATime, ServInv, Fine, Fine', NEW c \in Calls, Enqueue(c)
    PROVE  ServInv' /\ Moves(c, "new", "listed")
<1> USE ThreadsAssumption DEF Threads, Senders
<1>1. Owned /\ Asking
  BY DEF OneAtATime, SendInv, Fine
<1>2. PICK s : s = slot[c]
  OBVIOUS
<1>3. pc[c] \in {"enqueue", "check"} /\ pc[c] \in Before /\ AtWork(c)
  BY DEF Enqueue, AtEnqueue, AtWork, Before
<1>4. s \in Slots /\ s \notin OnList /\ cmd[s] = c
  BY <1>1, <1>2, <1>3 DEF Fine, Owned, SlotInv, ListInv, Calm, TypeInv
<1>5. UNCHANGED <<cmd, slot, ret, link>> /\ \A d : Asked(d)' <=> Asked(d)
  BY DEF Enqueue, calls, link, bulk, Asked
<1>6. PICK l \in {"wake", "fill"} : Goto(c, l)
  BY DEF Enqueue
<1>7. \A u \in Threads : pc'[u] = IF u = c THEN l ELSE pc[u]
  BY <1>1, <1>6 DEF Goto, Owned, Calm, TypeInv, TypeOK
<1>8. "WAIT_CFM" \in flags'[s] /\ \A r \in Slots : r # s => flags'[r] = flags[r]
  BY <1>1, <1>2, <1>4 DEF Enqueue, Owned, Calm, TypeInv, TypeOK
<1>9. OnList' = OnList \cup {s} /\ OnList \subseteq Slots
  BY <1>1, <1>2, <1>4, AppendApart, OnListTyped
     DEF Enqueue, OnList, Owned, Calm, TypeInv, TypeOK, ListInv
<1>10. \A d \in Calls : d # c => /\ Here(d)' <=> Here(d)
                                 /\ Here(d) => (Open(d)' <=> Open(d))
  BY <1>4, <1>5, <1>8, <1>9 DEF Here, Open
<1>11. ~Here(c) /\ Here(c)' /\ Open(c)' /\ ~Asked(c) /\ ret[c] = "none"
  BY <1>1, <1>2, <1>3, <1>4, <1>5, <1>8, <1>9 DEF Here, Open, Asking, ServInv
<1>12. ServInv'
  <2>1. \A d \in Calls : ret'[d] # "none" => pc'[d] = "returned"
    BY <1>5, <1>7, <1>11 DEF ServInv
  <2>2. ASSUME NEW d \in Calls, Here(d)'
        PROVE  \/ pc'[d] \in Listed \cup {"wake"}
               \/ pc'[d] = "returned" /\ ret'[d] = "0"
    BY <1>5, <1>7, <1>10, <2>2 DEF ServInv, Listed
  <2>3. QED
    BY <2>1, <2>2 DEF ServInv
<1>13. Moves(c, "new", "listed")
  <2>1. PhaseAt(c) = "new"
    BY <1>3, <1>11 DEF PhaseAt
  <2>2. PhaseAt(c)' = "listed"
    BY <1>5, <1>11 DEF PhaseAt
  <2>3. \A d \in Calls : d # c => PhaseAt(d)' = PhaseAt(d)
    BY <1>5, <1>7, <1>10 DEF PhaseAt
  <2>4. QED
    BY <1>5, <2>1, <2>2, <2>3 DEF Moves, ResultsSame
<1>14. QED
  BY <1>12, <1>13

\* It is handed over, when nothing else is with the firmware.
LEMMA SubmitServ ==
    ASSUME Queued, OneAtATime, ServInv, Fine, Fine', NEW t \in Senders, Submit(t)
    PROVE  /\ ServInv' /\ Moves(cmd[slot[t]], "listed", "sent")
           /\ \A d \in Calls : PhaseAt(d) # "sent"
<1> USE ThreadsAssumption DEF mgr, link, bulk, Threads, Senders
<1>1. Owned /\ SendInv /\ Asking /\ BufferInv /\ Smooth /\ Smooth' /\ Working
  BY DEF OneAtATime, SendInv, Fine
<1>2. PICK c : c = cmd[slot[t]]
  OBVIOUS
<1>3. pc[t] = "submit" /\ AtWork(t) /\ slot[t] \in OnList /\ slot[t] \in Slots /\ c \in Calls
      /\ cmd_buf = c /\ slot[c] = slot[t]
  BY <1>1, <1>2, OnListAtWork DEF Submit, Listed, BufferInv, Smooth, Owned, SlotInv
<1>4. fw = <<>> /\ rxmsg = None /\ urb = None /\ \A d \in Calls : ~Asked(d)
  BY <1>1, <1>3, NoneAsked DEF Filling
<1>5. Here(c) /\ Open(c)
  BY <1>1, <1>2, <1>3 DEF Here, Open, Asking, Filling
<1>6. /\ UNCHANGED <<cmds, cmd, slot, flags, fw, rxmsg, ret>> /\ Goto(t, "sending")
      /\ urb' = c
  BY <1>1, <1>3 DEF Submit, Smooth
<1>7. \A d \in Calls : Asked(d)' <=> d = c
  BY <1>4, <1>6 DEF Asked, ToSet
<1>8. \A d \in Calls : (Here(d)' <=> Here(d)) /\ (Open(d)' <=> Open(d))
  BY <1>6 DEF Here, OnList, Open
<1>9. \A d \in Calls : pc'[d] \in {"wake", "rewake"} <=> pc[d] \in {"wake", "rewake"}
  BY <1>1, <1>3, <1>6 DEF Goto, Owned, Calm, TypeInv, TypeOK
<1>10. ServInv'
  BY <1>1, <1>3, <1>6, <1>8, FrameInv DEF Listed
<1>11. Moves(c, "listed", "sent")
  BY <1>3, <1>4, <1>5, <1>6, <1>7, <1>8, <1>9 DEF Moves, ResultsSame, PhaseAt
<1>12. \A d \in Calls : PhaseAt(d) # "sent"
  BY <1>4 DEF PhaseAt
<1>13. QED
  BY <1>2, <1>10, <1>11, <1>12

\* The controller gives it to the firmware, which is nothing to the service.
LEMMA TransferredServ ==
    ASSUME Queued, OneAtATime, ServInv, Fine, Fine', Transferred
    PROVE  ServInv' /\ Still
<1>1. UNCHANGED <<cmds, cmd, flags, pc, slot, ret>>
  BY DEF Transferred, mgr, pool, calls
<1>2. \A d \in Calls : Asked(d)' <=> Asked(d)
  BY TransferredSend DEF OneAtATime, Fine
<1>3. \A d \in Calls : (Here(d)' <=> Here(d)) /\ (Open(d)' <=> Open(d))
  BY <1>1 DEF Here, OnList, Open
<1>4. QED
  BY <1>1, <1>2, <1>3 DEF ServInv, Still, ResultsSame, PhaseAt

\* It is answered.
LEMMA IndicateServ ==
    ASSUME Queued, OneAtATime, ServInv, Fine, Fine', Indicate
    PROVE  ServInv' /\ Moves(rxmsg, "sent", "answered")
<1> USE ThreadsAssumption DEF bulk, Threads, Senders
<1>1. Owned /\ SendInv /\ Asking /\ Smooth /\ Working
  BY DEF OneAtATime, SendInv, Fine
<1>2. PICK c, a : c = rxmsg /\ a = slot[rxmsg]
  OBVIOUS
<1>3. /\ c \in Calls /\ Asked(c) /\ fw = <<>> /\ urb = None /\ a \in OnList /\ a \in Slots
      /\ CmdComplete(a, flags[a] \ {"WAIT_CFM"})
  BY <1>1, <1>2, IndicateFinds
<1>4. cmd[a] = c /\ slot[c] = a /\ Here(c) /\ Open(c)
  BY <1>1, <1>2, <1>3 DEF Asking, Pending, Here, Open
<1>5. UNCHANGED <<cmds, cmd, slot, urb, fw, ret>> /\ rxmsg' = None /\ Goto(Rx, "idle")
  BY DEF Indicate
<1>6. "WAIT_CFM" \notin flags'[a] /\ \A s \in Slots : s # a => flags'[s] = flags[s]
  BY <1>1, <1>3 DEF CmdComplete, Owned, Calm, TypeInv, TypeOK
<1>7. \A d \in Calls : Here(d)' <=> Here(d)
  BY <1>5 DEF Here, OnList
<1>8. \A d \in Calls : d # c => ~Asked(d) /\ ~Asked(d)'
  BY <1>2, <1>3, <1>5 DEF Asked, ToSet
<1>9. OnList \subseteq Slots
  BY <1>1, OnListTyped DEF Owned, Calm
<1>10. \A d \in Calls : d # c /\ Here(d) => (Open(d)' <=> Open(d))
  BY <1>4, <1>5, <1>6, <1>9 DEF Here, Open
<1>11. \A d \in Calls : pc'[d] = pc[d]
  BY <1>1, <1>5 DEF Goto, Owned, Calm, TypeInv, TypeOK
<1>12. Rx \notin Calls /\ pc[Rx] # "returned"
  BY DEF Indicate
<1>13. ServInv'
  BY <1>1, <1>5, <1>7, <1>12, FrameInv
<1>14. Here(c)' /\ ~Open(c)'
  BY <1>3, <1>4, <1>5, <1>6, <1>7 DEF Open
<1>15. Moves(c, "sent", "answered")
  BY <1>3, <1>4, <1>5, <1>7, <1>8, <1>10, <1>11, <1>14 DEF Moves, ResultsSame, PhaseAt
<1>16. QED
  BY <1>2, <1>13, <1>15

\* It is taken off the list, and its caller succeeds, or already has.
LEMMA DeleteServ ==
    ASSUME Queued, OneAtATime, ServInv, Fine, Fine', NEW t \in Senders, Delete(t)
    PROVE  ServInv' /\ Moves(cmd[slot[t]], "answered", "closed")
<1> USE ThreadsAssumption DEF link, bulk, calls, Threads, Senders
<1>1. Owned /\ Asking /\ Smooth /\ Working
  BY DEF OneAtATime, SendInv, Fine
<1>2. PICK c : c = cmd[slot[t]]
  OBVIOUS
<1>3. pc[t] = "delete" /\ AtWork(t) /\ slot[t] \in OnList /\ slot[t] \in Slots /\ c \in Calls
      /\ slot[c] = slot[t]
  BY <1>1, <1>2, OnListAtWork DEF Delete, Listed, Smooth, Owned, SlotInv
<1>4. PICK i \in 1..Len(cmds) : cmds[i] = slot[t] /\ cmds' = RemoveAt(cmds, i)
  BY <1>3 DEF Delete, OnList
<1>5. PICK l : Goto(t, l) /\ l = IF t = Worker THEN "lookLock" ELSE "rewake"
  BY <1>3 DEF Delete, OnList
<1>6. UNCHANGED <<cmd, flags, urb, fw, rxmsg, slot, ret>>
  BY DEF Delete
<1>7. OnList' = OnList \ {slot[t]}
  BY <1>1, <1>4, RemoveAtApart DEF OnList, Owned, Calm, TypeInv, TypeOK, ListInv
<1>8. \A u \in Threads : pc'[u] = IF u = t THEN l ELSE pc[u]
  BY <1>1, <1>5 DEF Goto, Owned, Calm, TypeInv, TypeOK
<1>9. Here(c) /\ ~Open(c) /\ ~Here(c)'
  BY <1>1, <1>2, <1>3, <1>6, <1>7 DEF Here, Open, Asking
<1>10. t \in Calls => t = c
  BY <1>1, <1>2, <1>3 DEF Owned, SlotInv
<1>11. ASSUME NEW d \in Calls, d # c
       PROVE  /\ Here(d)' <=> Here(d)
              /\ (Open(d)' <=> Open(d)) /\ (Asked(d)' <=> Asked(d)) /\ pc'[d] = pc[d]
  BY <1>2, <1>6, <1>7, <1>8, <1>10, <1>11 DEF Here, Open, Asked
<1>12. pc'[c] = "rewake" \/ (pc'[c] = "wake" \/ ret'[c] = "0")
  <2>1. CASE t \in Calls
    BY <1>5, <1>8, <1>10, <2>1
  <2>2. CASE t \notin Calls
    <3>1. t = Worker /\ c # t
      BY <1>3, <2>2
    <3>2. pc[c] \notin Listed
      <4>1. SUFFICES ASSUME pc[c] \in Listed
                     PROVE  FALSE
        OBVIOUS
      <4>2. AtWork(c)
        BY <4>1, AtWorkIs
      <4>3. QED
        BY <1>1, <1>3, <3>1, <4>2, SlotsDiffer DEF Owned
    <3>3. QED
      BY <1>3, <1>6, <1>8, <1>9, <3>1, <3>2 DEF ServInv
  <2>3. QED
    BY <2>1, <2>2
<1>13. ServInv'
  <2>1. \A d \in Calls : ret'[d] # "none" => pc'[d] = "returned"
    <3>1. ASSUME NEW d \in Calls, ret[d] # "none"
          PROVE  pc'[d] = "returned"
      BY <1>3, <1>8, <3>1 DEF ServInv
    <3>2. QED
      BY <1>6, <3>1
  <2>2. ASSUME NEW d \in Calls, Here(d)'
        PROVE  \/ pc'[d] \in Listed \cup {"wake"}
               \/ pc'[d] = "returned" /\ ret'[d] = "0"
    <3>1. d # c
      BY <1>9, <2>2
    <3>2. QED
      BY <1>6, <1>11, <2>2, <3>1 DEF ServInv
  <2>3. QED
    BY <2>1, <2>2 DEF ServInv
<1>14. Moves(c, "answered", "closed")
  <2>1. PhaseAt(c) = "answered"
    BY <1>9 DEF PhaseAt
  <2>2. PhaseAt(c)' = "closed"
    BY <1>9, <1>12 DEF PhaseAt
  <2>3. \A d \in Calls : d # c => PhaseAt(d)' = PhaseAt(d)
    BY <1>6, <1>11 DEF PhaseAt
  <2>4. QED
    BY <1>3, <1>6, <2>1, <2>2, <2>3 DEF Moves, ResultsSame
<1>15. QED
  BY <1>2, <1>13, <1>14

\* The steps that leave every command where it is.
LEMMA RestServ ==
    ASSUME Queued, OneAtATime, ServInv, Fine, Fine', NEW t \in Threads,
           \/ t \in Senders /\ Completed(t)
           \/ t = Worker /\ (Look \/ Clear)
           \/ t = Rx /\ Confirm
    PROVE  ServInv' /\ Still
<1> USE ThreadsAssumption DEF mgr, pool, link, bulk, calls, Threads, Senders
<1>1. Owned /\ SendInv /\ Smooth /\ Working
  BY DEF OneAtATime, Fine
<1>2. PICK l : /\ Goto(t, l) /\ l \notin {"wake", "rewake"}
               /\ pc[t] \notin {"wake", "rewake", "returned"}
               /\ t \in Calls /\ pc[t] \in Listed => l \in Listed
  BY DEF Completed, Look, Clear, Confirm, Listed
<1>3. UNCHANGED <<cmds, cmd, ret>> /\ \A d \in Calls : slot'[d] = slot[d]
  BY <1>1 DEF Completed, Look, Clear, Confirm, Owned, Calm, TypeInv, TypeOK
<1>4. \A d \in Calls : Asked(d)' <=> Asked(d)
  <2>1. CASE Confirm
    BY <1>1, <2>1, ConfirmSend
  <2>2. CASE UNCHANGED <<urb, fw, rxmsg>>
    BY <2>2 DEF Asked
  <2>3. QED
    BY <2>1, <2>2 DEF Completed, Look, Clear
<1>5. \A s \in Slots : "WAIT_CFM" \in flags'[s] <=> "WAIT_CFM" \in flags[s]
  <2>1. CASE Clear
    BY <1>1, <2>1 DEF Clear, Owned, Calm, TypeInv, TypeOK
  <2>2. CASE flags' = flags
    BY <2>2
  <2>3. QED
    BY <2>1, <2>2 DEF Completed, Look, Confirm
<1>6. OnList \subseteq Slots
  BY <1>1, OnListTyped DEF Owned, Calm
<1>7. \A d \in Calls : /\ Here(d)' <=> Here(d)
                       /\ Here(d) => (Open(d)' <=> Open(d)) /\ (Asked(d)' <=> Asked(d))
  BY <1>3, <1>4, <1>5, <1>6 DEF Here, OnList, Open
<1>8. ServInv'
  BY <1>1, <1>2, <1>3, <1>7, FrameInv
<1>9. Still
  BY <1>1, <1>2, <1>3, <1>7, FramePhase
<1>10. QED
  BY <1>8, <1>9

\* A result is the last thing a call does.
LEMMA StepReturns ==
    ASSUME Owned, ServInv, [Next]_vars, NEW c \in Calls, ret'[c] # "none"
    PROVE  pc'[c] = "returned"
<1> USE ThreadsAssumption DEF calls, Threads, Senders
<1>1. ASSUME NEW t \in Threads, NEW l, Goto(t, l), ret' = ret, pc[t] # "returned"
      PROVE  pc'[c] = "returned"
  <2>1. c # t /\ pc[c] = "returned"
    BY <1>1 DEF ServInv
  <2>2. QED
    BY <1>1, <2>1 DEF Goto, Owned, Calm, TypeInv, TypeOK
<1>2. ASSUME NEW d \in Calls, NEW r, Return(d, r)
      PROVE  pc'[c] = "returned"
  <2>1. c = d \/ ret[c] # "none"
    BY <1>2 DEF Return, Owned, Calm, TypeInv, TypeOK
  <2>2. QED
    BY <1>2, <2>1 DEF Return, Goto, ServInv, Owned, Calm, TypeInv, TypeOK
<1>3. ASSUME NEW t \in Threads, Acquire(t)
      PROVE  pc'[c] = "returned"
  <2>1. PICK l : Goto(t, l)
    BY <1>3 DEF Acquire
  <2>2. QED
    BY <1>1, <1>3, <2>1 DEF Acquire, Locking
<1>4. ASSUME NEW d \in Calls, CallStep(d) \/ Start(d) \/ Killed(d)
      PROVE  pc'[c] = "returned"
  <2>1. CASE UnlockUnheld(d) \/ Refuse(d) \/ Wake(d) \/ Rewake(d)
    BY <1>2, <2>1 DEF UnlockUnheld, Refuse, Wake, Rewake
  <2>2. CASE Spin(d) \/ SpinAgain(d) \/ Enqueue(d) \/ Killed(d)
    <3>1. /\ \E l : Goto(d, l)
          /\ ret' = ret /\ pc[d] # "returned"
      BY <2>2 DEF Spin, SpinAgain, Enqueue, AtEnqueue, Killed
    <3>2. QED
      BY <1>1, <3>1
  <2>3. CASE Start(d)
    <3>1. (\E l : Goto(d, l) /\ ret' = ret) \/ (\E r : Return(d, r))
      BY <2>3 DEF Start
    <3>2. pc[d] # "returned"
      BY <2>3 DEF Start
    <3>3. QED
      BY <1>1, <1>2, <3>1, <3>2
  <2>4. QED
    BY <1>4, <2>1, <2>2, <2>3 DEF CallStep
<1>5. ASSUME NEW t \in Senders, SenderStep(t)
      PROVE  pc'[c] = "returned"
  <2>1. pc[t] # "returned"
    BY <1>5, TransmitMoves
       DEF SenderStep, Transmit, Transmitting, Completed, TimedOut, Delete, Crash
  <2>2. CASE Transmit(t)
    <3>1. (\E l : Goto(t, l) /\ ret' = ret) \/ (t \in Calls /\ \E r : Return(t, r))
      BY <2>2, TransmitMoves DEF AfterSending, Sent
    <3>2. QED
      BY <1>1, <1>2, <2>1, <3>1
  <2>3. CASE Completed(t) \/ TimedOut(t) \/ Delete(t)
    <3>1. \E l : Goto(t, l) /\ ret' = ret
      BY <2>3 DEF Completed, TimedOut, Delete
    <3>2. QED
      BY <1>1, <2>1, <3>1
  <2>4. CASE Crash(t)
    <3>1. (\E l : Goto(t, l) /\ ret' = ret) \/ (t \in Calls /\ \E r : Return(t, r))
      BY <2>4 DEF Crash
    <3>2. QED
      BY <1>1, <1>2, <2>1, <3>1
  <2>5. QED
    BY <1>5, <2>2, <2>3, <2>4 DEF SenderStep, Transmit
<1>6. ASSUME WorkerStep \/ RxStep \/ RemoverStep \/ Stop
      PROVE  pc'[c] = "returned"
  <2>1. PICK t \in {Worker, Rx, Remover} : /\ \E l : Goto(t, l)
                                           /\ ret' = ret /\ pc[t] # "returned"
    BY <1>6 DEF WorkerStep, StartWork, Look, Clear, RxStep, Confirm, Indicate,
       RemoverStep, CancelUrbs, FreeBuffer, StopRx, Drain, Flush, Stop
  <2>2. QED
    BY <1>1, <2>1
<1>7. CASE Transferred \/ UNCHANGED vars
  BY <1>7 DEF Transferred, vars, ServInv
<1>8. QED
  BY <1>3, <1>4, <1>5, <1>6, <1>7 DEF Next, Step

\* What a step of the manager is to the service.
Serves ==
    \/ Still
    \/ \E c \in Calls :
          \/ Moves(c, "new", "listed")
          \/ Moves(c, "listed", "sent") /\ \A d \in Calls : PhaseAt(d) # "sent"
          \/ Moves(c, "sent", "answered")
          \/ Moves(c, "answered", "closed")
          \/ Succeeds(c)

LEMMA StaysFine == [Next]_vars /\ Fine' => Fine
<1> SUFFICES ASSUME [Next]_vars, Fine'
             PROVE  Fine
  OBVIOUS
<1> USE DEF Fine, Smooth, Working, mgr, link, bulk
<1>1. CASE UNCHANGED vars
  BY <1>1 DEF vars
<1>2. CASE Next
  BY <1>2 DEF Next, Step, Acquire, CallStep, Spin, SpinAgain, UnlockUnheld, Refuse,
     Enqueue, Wake, Rewake, SenderStep, Fill, Write, TxMsg, Submit, Sending, TxTimedOut, KillUrb,
     Completed, TimedOut,
     Delete, Crash, WorkerStep, StartWork, Look, Clear, RxStep, Confirm, Indicate,
     RemoverStep, CancelUrbs, FreeBuffer, StopRx, Drain, Flush, Start, Killed,
     Transferred, Stop
<1>3. QED
  BY <1>1, <1>2

LEMMA FineServ ==
    ASSUME Queued, OneAtATime, ServInv, [Next]_vars, Fine, Fine'
    PROVE  ServInv' /\ Serves
<1> USE DEF Threads, Senders, Serves
<1>1. Owned /\ Working /\ bus = "UP" /\ bus' = "UP" /\ Working'
  BY DEF OneAtATime, Fine, Smooth
<1>2. ASSUME NEW t \in Threads, Acquire(t)
      PROVE  ServInv' /\ Serves
  BY <1>1, <1>2, AsideServ
<1>3. ASSUME NEW c \in Calls, CallStep(c) \/ Start(c) \/ Killed(c)
      PROVE  ServInv' /\ Serves
  <2>1. CASE Spin(c) \/ SpinAgain(c)
    BY <1>1, <2>1, AsideServ
  <2>2. ~UnlockUnheld(c) /\ ~Killed(c)
    BY <1>1 DEF UnlockUnheld, Killed, Queued, Owned, Calm, LockInv
  <2>3. CASE Refuse(c)
    BY <1>1, <2>3, RefuseServ
  <2>4. CASE Wake(c) \/ Rewake(c)
    BY <1>1, <2>4, WakeServ
  <2>5. CASE Enqueue(c)
    BY <2>5, EnqueueServ
  <2>6. CASE Start(c)
    BY <1>1, <2>6, StartServ
  <2>7. QED
    BY <1>3, <2>1, <2>2, <2>3, <2>4, <2>5, <2>6 DEF CallStep
<1>4. ASSUME NEW t \in Senders, SenderStep(t)
      PROVE  ServInv' /\ Serves
  <2>1. CASE TimedOut(t) \/ (Transmit(t) /\ ~Submit(t))
    BY <2>1, AsideServ
  <2>2. CASE Submit(t)
    <3>1. /\ ServInv' /\ Moves(cmd[slot[t]], "listed", "sent")
          /\ \A d \in Calls : PhaseAt(d) # "sent"
      BY <2>2, SubmitServ
    <3>2. cmd[slot[t]] \in Calls
      BY <3>1 DEF Moves
    <3>3. QED
      BY <3>1, <3>2
  <2>3. CASE Completed(t)
    BY <2>3, RestServ
  <2>4. CASE Delete(t)
    <3>1. ServInv' /\ Moves(cmd[slot[t]], "answered", "closed")
      BY <2>4, DeleteServ
    <3>2. cmd[slot[t]] \in Calls
      BY <3>1 DEF Moves
    <3>3. QED
      BY <3>1, <3>2
  <2>5. ~Crash(t)
    BY <1>1 DEF Crash, Working
  <2>6. QED
    BY <1>4, <2>1, <2>2, <2>3, <2>4, <2>5 DEF SenderStep, Transmit
<1>5. ASSUME WorkerStep \/ RxStep
      PROVE  ServInv' /\ Serves
  <2>1. CASE StartWork
    BY <1>1, <2>1, AsideServ
  <2>2. CASE Look \/ Clear \/ Confirm
    BY <2>2, RestServ
  <2>3. CASE Indicate
    <3>1. ServInv' /\ Moves(rxmsg, "sent", "answered")
      BY <2>3, IndicateServ
    <3>2. rxmsg \in Calls
      BY <3>1 DEF Moves
    <3>3. QED
      BY <3>1, <3>2
  <2>4. QED
    BY <1>5, <2>1, <2>2, <2>3 DEF WorkerStep, RxStep
<1>6. ~RemoverStep /\ ~Stop
  BY <1>1 DEF RemoverStep, CancelUrbs, FreeBuffer, StopRx, Drain, Flush, Stop, Owned,
     Calm, PlaceInv, link
<1>7. CASE UNCHANGED vars
  <2>1. UNCHANGED <<cmds, cmd, flags, urb, fw, rxmsg, pc, slot, ret>>
    BY <1>7 DEF vars, mgr, pool, link, bulk, calls
  <2>2. \A d \in Calls : PhaseAt(d)' = PhaseAt(d)
    BY <2>1 DEF PhaseAt, Here, OnList, Open, Asked
  <2>3. ServInv'
    BY <2>1 DEF ServInv, Here, OnList
  <2>4. QED
    BY <2>1, <2>2, <2>3 DEF Still, ResultsSame
<1>8. CASE Transferred
  BY <1>8, TransferredServ
<1>9. QED
  BY <1>2, <1>3, <1>4, <1>5, <1>6, <1>7, <1>8 DEF Next, Step

LEMMA StepServ ==
    ASSUME Queued, OneAtATime, ServInv, [Next]_vars
    PROVE  ServInv' /\ (Fine' => Fine /\ Serves)
<1>1. CASE Fine'
  BY <1>1, StaysFine, FineServ
<1>2. CASE ~Fine'
  BY <1>2, StepReturns DEF ServInv, OneAtATime
<1>3. QED
  BY <1>1, <1>2

LEMMA InitServ == Init => ServInv
BY DEF Init, ServInv, Here, OnList, ToSet

-----------------------------------------------------------------------------
LEMMA PhaseIsNext == Owned' => (\A c \in Calls : PhaseOf(c) = PhaseAt(c))'
BY PhaseIs, PTL

LEMMA KindKept == [Next]_vars => kind' = kind
BY DEF Next, Step, Acquire, CallStep, Spin, SpinAgain, UnlockUnheld, Refuse,
   Enqueue, Wake, Rewake, SenderStep, Fill, Write, TxMsg, Submit, Sending, TxTimedOut, KillUrb,
     Completed, TimedOut,
   Delete, Crash, WorkerStep, StartWork, Look, Clear, RxStep, Confirm, Indicate,
   RemoverStep, CancelUrbs, FreeBuffer, StopRx, Drain, Flush, Start, Killed,
     Transferred, Stop, vars, calls

\* Every step of the manager is one of the service, or leaves it alone.
LEMMA ServiceStep ==
    ASSUME Queued, OneAtATime, OneAtATime', ServInv, [Next]_vars
    PROVE  [Service!Next]_(Service!vars)
<1>1. \A c \in Calls : PhaseOf(c) = PhaseAt(c)
  BY PhaseIs DEF OneAtATime
<1>2. \A c \in Calls : PhaseOf(c)' = PhaseAt(c)'
  BY PhaseIsNext DEF OneAtATime
<1>3. {c \in Calls : kind'[c].reply} = {c \in Calls : kind[c].reply}
  BY KindKept
<1>4. CASE ~Fine'
  <2>1. \A c \in Calls : PhaseOf(c)' \in {"new", "listed", "sent", "answered", "closed"}
    BY <1>2 DEF PhaseAt
  <2>2. [c \in Calls |-> PhaseOf(c)'] \in [Calls -> Service!Phases]
    BY <2>1 DEF Service!Phases
  <2>3. Service!Break
    BY <1>3, <1>4, <2>2 DEF Service!Break, Fine, Smooth
  <2>4. QED
    BY <2>3 DEF Service!Next
<1>5. CASE Fine'
  <2>1. Fine /\ Serves
    BY <1>5, StepServ
  <2>2. CASE Still
    <3>1. \A c \in Calls : PhaseOf(c)' = PhaseOf(c)
      BY <1>1, <1>2, <2>2 DEF Still
    <3>2. [c \in Calls |-> PhaseOf(c)'] = [c \in Calls |-> PhaseOf(c)]
      BY <3>1
    <3>3. {c \in Calls : ret'[c] = "0"} = {c \in Calls : ret[c] = "0"}
      BY <2>2 DEF Still, ResultsSame
    <3>4. QED
      BY <1>3, <1>5, <2>1, <3>2, <3>3 DEF Service!vars, Fine, Smooth
  <2>3. ASSUME NEW c \in Calls, NEW from, NEW to, Moves(c, from, to)
        PROVE  Service!Move(c, from, to)
    <3>1. PhaseOf(c) = from /\ \A d \in Calls : PhaseOf(d)' = IF d = c THEN to ELSE PhaseOf(d)
      BY <1>1, <1>2, <2>3 DEF Moves
    <3>2. [d \in Calls |-> PhaseOf(d)'] = [[d \in Calls |-> PhaseOf(d)] EXCEPT ![c] = to]
      BY <3>1
    <3>3. {d \in Calls : ret'[d] = "0"} = {d \in Calls : ret[d] = "0"}
      BY <2>3 DEF Moves, ResultsSame
    <3>4. QED
      BY <1>3, <1>5, <2>1, <3>1, <3>2, <3>3 DEF Service!Move, Fine, Smooth
  <2>4. ASSUME NEW c \in Calls, Moves(c, "listed", "sent"),
               \A d \in Calls : PhaseAt(d) # "sent"
        PROVE  Service!Send(c)
    <3>1. \A d \in Calls : [e \in Calls |-> PhaseOf(e)][d] # "sent"
      BY <1>1, <2>4
    <3>2. QED
      BY <2>3, <2>4, <3>1 DEF Service!Send
  <2>5. ASSUME NEW c \in Calls, Succeeds(c)
        PROVE  Service!Succeed(c)
    <3>1. [d \in Calls |-> PhaseOf(d)'] = [d \in Calls |-> PhaseOf(d)]
      BY <1>1, <1>2, <2>5 DEF Succeeds
    <3>2. PhaseOf(c) # "new" /\ (kind[c].reply => PhaseOf(c) = "closed")
      BY <1>1, <2>5 DEF Succeeds
    <3>3. {d \in Calls : ret'[d] = "0"} = {d \in Calls : ret[d] = "0"} \cup {c}
      BY <2>5 DEF Succeeds
    <3>4. c \notin {d \in Calls : ret[d] = "0"}
      BY <2>5 DEF Succeeds
    <3>5. QED
      BY <1>3, <1>5, <2>1, <3>1, <3>2, <3>3, <3>4 DEF Service!Succeed, Fine, Smooth
  <2>6. Service!Next \/ Still
    BY <2>1, <2>3, <2>4, <2>5
       DEF Serves, Service!Next, Service!List, Service!Answer, Service!Close
  <2>7. QED
    BY <2>2, <2>6
<1>6. QED
  BY <1>4, <1>5

LEMMA ServiceInit == Init => Service!Init
<1> SUFFICES ASSUME Init
             PROVE  Service!Init
  OBVIOUS
<1>1. OnList = {} /\ Working /\ bus = "UP" /\ ~failed
  BY DEF Init, OnList, ToSet, Working
<1>2. \A c \in Calls : ret[c] = "none" /\ pc[c] = "idle"
  BY DEF Init, Threads
<1>3. \A c \in Calls : PhaseOf(c) = "new"
  BY <1>1, <1>2 DEF PhaseOf, IsListed
<1>4. [c \in Calls |-> PhaseOf(c)] = [c \in Calls |-> "new"]
  BY <1>3
<1>5. {c \in Calls : ret[c] = "0"} = {}
  BY <1>2
<1>6. QED
  BY <1>1, <1>4, <1>5 DEF Service!Init

\* The command manager (cmd_mgr_queue, its worker, cmd_mgr_msgind) implements
\* the service of CmdService: every command is listed, sent, answered and
\* closed in this order, one at a time is with the firmware, a confirmation
\* reaches the command it answers among any number that wait for the same id,
\* and a caller with a reply buffer succeeds only with its answer.  For any
\* number of calls and slots, if every message goes through the queue and no
\* caller is killed, until a command times out, a transmission goes wrong or the
\* device is gone.
THEOREM ServiceKeptHolds == ASSUME Queued PROVE Spec => ServiceKept
<1>1. Init => Service!Init /\ ServInv
  BY ServiceInit, InitServ
<1>2. OneAtATime /\ ServInv /\ [Next]_vars => ServInv'
  BY StepServ
<1>3. OneAtATime /\ OneAtATime' /\ ServInv /\ [Next]_vars => [Service!Next]_(Service!vars)
  BY ServiceStep
<1>4. QED
  BY OneAtATimeAlways, <1>1, <1>2, <1>3, PTL DEF Spec, ServiceKept, Service!Spec

=============================================================================
