----------------------------- MODULE UsbTxProofs -----------------------------
(***************************************************************************)
(* Every URB is in one place, every posted frame keeps its trigger and no  *)
(* wake-up is missed: for any number of senders, URBs, failures and        *)
(* suspensions.  The counts of senders change by one with each step of a   *)
(* sender; the rest is arithmetic, action by action.                       *)
(***************************************************************************)
EXTENDS UsbTx, FiniteSetTheorems, TLAPS

\* TriggerPending with the trigger a round of the thread has consumed
Triggered ==
    /\ pm \in {"awake", "stopped", "prepare", "unpost", "put", "wake"} => state = "UP"
    /\ pm \in {"awake", "stopped", "wake"} =>
           post <= tokens + Cardinality(At("signal"))
                     + (IF thr \in {"loop", "take"} THEN 1 ELSE 0)

\* Who stopped the queues answers for waking them
Answered ==
    /\ gone => fails > 0
    /\ (stopped /\ pm = "awake" /\ ~lateStop) => tbusy

IInv == TypeOK /\ PoolWhole /\ Triggered /\ Answered /\ WakePending

-----------------------------------------------------------------------------
\* The senders at a step are finitely many.
LEMMA AtFinite ==
    ASSUME NEW step PROVE IsFiniteSet(At(step)) /\ Cardinality(At(step)) \in Nat
<1>1. At(step) \subseteq Senders
  BY DEF At
<1>2. IsFiniteSet(At(step))
  BY <1>1, UsbTxAssumption, FS_Subset
<1> QED BY <1>2, FS_CardinalityType

\* A sender that moves changes the count of the step it leaves and of the one
\* it reaches by one, and no other.
LEMMA AtMoves ==
    ASSUME TypeOK, NEW s \in Senders, NEW a, NEW b, a # b, snd[s] = a, Goto(s, b)
    PROVE  /\ Cardinality(At(a)') = Cardinality(At(a)) - 1
           /\ Cardinality(At(b)') = Cardinality(At(b)) + 1
           /\ \A c : c # a /\ c # b => At(c)' = At(c)
<1>1. At(a)' = At(a) \ {s} /\ s \in At(a)
  BY DEF At, Goto, TypeOK
<1>2. At(b)' = At(b) \cup {s} /\ s \notin At(b)
  BY DEF At, Goto, TypeOK
<1>3. \A c : c # a /\ c # b => At(c)' = At(c)
  BY DEF At, Goto, TypeOK
<1>4. Cardinality(At(a)') = Cardinality(At(a)) - 1
  BY <1>1, AtFinite, FS_RemoveElement
<1>5. Cardinality(At(b)') = Cardinality(At(b)) + 1
  BY <1>2, AtFinite, FS_AddElement
<1> QED BY <1>3, <1>4, <1>5

\* A step of something else leaves every count alone.
LEMMA AtStays ==
    ASSUME UNCHANGED snd, NEW c PROVE At(c)' = At(c)
BY DEF At

\* The marks are in order.
LEMMA MarksOrdered == LOW \in Nat /\ HIGH \in Nat /\ LOW <= HIGH
BY UsbTxAssumption, SMT DEF LOW, HIGH

-----------------------------------------------------------------------------
\* Right after probe the invariant holds.
LEMMA InitIInv == Init => IInv
<1> SUFFICES ASSUME Init PROVE IInv
  OBVIOUS
<1> USE UsbTxAssumption
<1>1. \A step \in {"post", "signal"} : At(step) = {}
  BY DEF Init, At
<1>2. Cardinality(At("post")) = 0 /\ Cardinality(At("signal")) = 0
  BY <1>1, FS_EmptySet, Zenon
<1>3. TypeOK
  BY DEF Init, TypeOK, SndSteps, ThrSteps, PmSteps
<1>4. PoolWhole
  BY <1>2 DEF Init, PoolWhole
<1>5. Triggered
  BY <1>2 DEF Init, Triggered
<1>6. Answered /\ WakePending
  BY DEF Init, Answered, WakePending
<1> QED BY <1>3, <1>4, <1>5, <1>6 DEF IInv

\* The steps of a sender keep the invariant.
LEMMA SenderKeeps ==
    ASSUME IInv, NEW s \in Senders, FrameTx(s) \/ Sends(s) PROVE IInv'
<1> USE UsbTxAssumption, MarksOrdered
<1> DEFINE P == Cardinality(At("post"))
           S == Cardinality(At("signal"))
<1>0. P \in Nat /\ S \in Nat
  BY AtFinite
<1> HIDE DEF P, S
<1> USE DEF IInv, TypeOK, PoolWhole, Triggered, Answered, WakePending, SndSteps,
        lists, flow, hist
<1>1. CASE FrameTx(s)
  <2>1. snd[s] = "idle" /\ (Goto(s, "take") \/ Goto(s, "down"))
    BY <1>1 DEF FrameTx
  <2>2. Goto(s, "take") => P' = P /\ S' = S
    BY <2>1, AtMoves DEF P, S
  <2>3. Goto(s, "down") => P' = P /\ S' = S
    BY <2>1, AtMoves DEF P, S
  <2>4. P' = P /\ S' = S
    BY <2>1, <2>2, <2>3
  <2> QED BY <1>0, <1>1, <2>4 DEF FrameTx, Goto, P, S
<1>2. CASE FrameTxDown(s)
  <2>1. P' = P /\ S' = S
    BY <1>2, AtMoves DEF FrameTxDown, P, S
  <2> QED BY <1>0, <1>2, <2>1 DEF FrameTxDown, Goto, P, S
<1>3. CASE Take(s)
  <2>1. P' = P + 1 /\ S' = S
    BY <1>3, AtMoves DEF Take, P, S
  <2> QED BY <1>0, <1>3, <2>1 DEF Take, Goto, P, S
<1>4. CASE NoUrb(s)
  <2>1. P' = P /\ S' = S
    BY <1>4, AtMoves DEF NoUrb, P, S
  <2> QED BY <1>0, <1>4, <2>1 DEF NoUrb, Goto, P, S
<1>5. CASE Post(s)
  <2>1. P' = P - 1 /\ S' = S + 1
    BY <1>5, AtMoves DEF Post, P, S
  <2> QED BY <1>0, <1>5, <2>1 DEF Post, Goto, P, S
<1>6. CASE Signal(s)
  <2>1. P' = P /\ S' = S - 1
    BY <1>6, AtMoves DEF Signal, P, S
  <2> QED BY <1>0, <1>6, <2>1 DEF Signal, Goto, P, S
<1>7. CASE FlowStop(s)
  <2>1. P' = P /\ S' = S
    BY <1>7, AtMoves DEF FlowStop, P, S
  <2> QED BY <1>0, <1>7, <2>1 DEF FlowStop, Goto, P, S
<1> QED BY <1>1, <1>2, <1>3, <1>4, <1>5, <1>6, <1>7 DEF Sends

\* So do those of the transmit thread.
LEMMA ThreadKeeps == ASSUME IInv, Thread PROVE IInv'
<1> USE UsbTxAssumption, MarksOrdered
<1> DEFINE P == Cardinality(At("post"))
           S == Cardinality(At("signal"))
<1>0. UNCHANGED snd /\ P \in Nat /\ S \in Nat /\ P' = P /\ S' = S
  <2>1. UNCHANGED snd
    BY DEF Thread, ThreadWakes, ThreadChecks, ThreadTakes, Submit, SubmitFails, SubmitNoDevice
  <2> QED BY <2>1, AtFinite, AtStays
<1> HIDE DEF P, S
<1> USE <1>0 DEF IInv, TypeOK, PoolWhole, Triggered, Answered, WakePending, ThrSteps,
        lists, flow, hist
<1>1. CASE ThreadWakes BY <1>1 DEF ThreadWakes, P, S
<1>2. CASE ThreadChecks BY <1>2 DEF ThreadChecks, P, S
<1>3. CASE ThreadTakes BY <1>3 DEF ThreadTakes, P, S
<1>4. CASE Submit BY <1>4 DEF Submit, P, S
<1>5. CASE SubmitFails BY <1>5 DEF SubmitFails, P, S
<1>6. CASE SubmitNoDevice BY <1>6 DEF SubmitNoDevice, P, S
<1> QED BY <1>1, <1>2, <1>3, <1>4, <1>5, <1>6 DEF Thread

\* So do the completions.
LEMMA ControllerKeeps == ASSUME IInv, Controller PROVE IInv'
<1> USE UsbTxAssumption, MarksOrdered
<1> DEFINE P == Cardinality(At("post"))
           S == Cardinality(At("signal"))
<1>0. UNCHANGED snd /\ P \in Nat /\ S \in Nat /\ P' = P /\ S' = S
  <2>1. UNCHANGED snd
    BY DEF Controller, Complete, FlowWake
  <2> QED BY <2>1, AtFinite, AtStays
<1> HIDE DEF P, S
<1> USE <1>0 DEF IInv, TypeOK, PoolWhole, Triggered, Answered, WakePending,
        lists, flow, hist
<1>1. CASE Complete BY <1>1 DEF Complete, P, S
<1>2. CASE FlowWake BY <1>2 DEF FlowWake, P, S
<1> QED BY <1>1, <1>2 DEF Controller

\* So do suspend and resume, and the unplugging.
LEMMA PmKeeps == ASSUME IInv, StopQueues \/ Suspends \/ Resumes \/ Unplug PROVE IInv'
<1> USE UsbTxAssumption, MarksOrdered
<1> DEFINE P == Cardinality(At("post"))
           S == Cardinality(At("signal"))
<1>0. UNCHANGED snd /\ P \in Nat /\ S \in Nat /\ P' = P /\ S' = S
  <2>1. UNCHANGED snd
    BY DEF StopQueues, Suspends, Resumes, Unplug, Sleep, BusStop, Detach, Suspended,
           Attach, BusStart, Prepare, Unpost, Put, WakeQueues, Pm
  <2> QED BY <2>1, AtFinite, AtStays
<1> HIDE DEF P, S
<1> USE <1>0 DEF IInv, TypeOK, PoolWhole, Triggered, Answered, WakePending, PmSteps,
        Pm, lists, flow, hist
<1>1. CASE StopQueues BY <1>1 DEF StopQueues, P, S
<1>2. CASE Sleep BY <1>2 DEF Sleep, P, S
<1>3. CASE BusStop BY <1>3 DEF BusStop, P, S
<1>4. CASE Detach BY <1>4 DEF Detach, P, S
<1>5. CASE Suspended BY <1>5 DEF Suspended, P, S
<1>6. CASE Attach BY <1>6 DEF Attach, P, S
<1>7. CASE BusStart BY <1>7 DEF BusStart, P, S
<1>8. CASE Prepare BY <1>8 DEF Prepare, P, S
<1>9. CASE Unpost BY <1>9 DEF Unpost, P, S
<1>10. CASE Put BY <1>10 DEF Put, P, S
<1>11. CASE WakeQueues BY <1>11 DEF WakeQueues, P, S
<1>12. CASE Unplug BY <1>12 DEF Unplug, P, S
<1> QED BY <1>1, <1>2, <1>3, <1>4, <1>5, <1>6, <1>7, <1>8, <1>9, <1>10, <1>11, <1>12
        DEF Suspends, Resumes

\* The invariant is inductive.
LEMMA Inductive == IInv /\ [Next]_vars => IInv'
<1> SUFFICES ASSUME IInv, [Next]_vars PROVE IInv'
  OBVIOUS
<1>1. CASE \E s \in Senders : FrameTx(s) \/ Sends(s)
  BY <1>1, SenderKeeps
<1>2. CASE Thread BY <1>2, ThreadKeeps
<1>3. CASE Controller BY <1>3, ControllerKeeps
<1>4. CASE StopQueues \/ Suspends \/ Resumes \/ Unplug BY <1>4, PmKeeps
<1>5. CASE UNCHANGED vars
  <2>1. At("post")' = At("post") /\ At("signal")' = At("signal")
    BY <1>5 DEF vars, At
  <2> QED BY <1>5, <2>1 DEF vars, lists, flow, hist, IInv, TypeOK, PoolWhole, Triggered,
             Answered, WakePending
<1> QED BY <1>1, <1>2, <1>3, <1>4, <1>5 DEF Next

LEMMA Invariance == Spec => []IInv
<1> QED BY InitIInv, Inductive, PTL DEF Spec

\* No URB is lost or listed twice, whatever fails, and across suspensions
\* (aicwf_usb_tx_dequeue and aicwf_usb_tx_queue always come in pairs).
THEOREM PoolWholeHolds == Spec => []PoolWhole
<1>1. IInv => PoolWhole
  BY DEF IInv
<1> QED BY <1>1, Invariance, PTL

\* While the transmit thread waits with the bus up, every posted frame has its
\* trigger (complete follows each aicwf_usb_tx_queue on the post list).
THEOREM TriggerPendingHolds == Spec => []TriggerPending
<1>1. IInv => TriggerPending
  BY AtFinite DEF IInv, TypeOK, Triggered, TriggerPending
<1> QED BY <1>1, Invariance, PTL

\* Queues that are stopped above the high mark are about to be woken
\* (aicwf_usb_tx_complete looks at the mark after it has freed the URB).
THEOREM WakePendingHolds == Spec => []WakePending
<1>1. IInv => WakePending
  BY DEF IInv
<1> QED BY <1>1, Invariance, PTL
=============================================================================
