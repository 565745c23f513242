----------------------------- MODULE UsbRxProofs -----------------------------
(***************************************************************************)
(* No URB is lost but by an overflow, reception stays armed and no frame   *)
(* is stranded: for any number of URBs, any length of the queue and any    *)
(* number of faults and suspensions.  The data endpoint needs that its     *)
(* count is exact, the message endpoint that every frame has a trigger.    *)
(***************************************************************************)
EXTENDS UsbRx, TLAPS

\* The device is up when a resume refills, and when nothing suspends it
Up == pm \in {"awake", "refill", "submit"} => state = "UP"

\* URBs are left free only while someone is about to submit them
Refilling ==
    (free > 0 /\ faults = 0 /\ pm = "awake") => hcd \in {"refill", "submit"}
NoneHeld ==
    /\ pm = "asleep" => flight = 0 /\ hcd = "idle"
    /\ (pm \in {"awake", "refill", "submit"} /\ faults = 0) => hcd # "return"

\* rx_cnt is exact but for the frame being queued and the one being handled
CountExact ==
    (chan = "data" /\ faults = 0)
        => cnt = queue + (IF thr = "busy" THEN 1 ELSE 0) - (IF hcd = "inc" THEN 1 ELSE 0)

\* Only the first frame is ever without a trigger, and it is about to get it
FirstTriggers ==
    (chan = "data" /\ faults = 0 /\ thr = "wait" /\ queue > 0 /\ tokens = 0)
        => (queue = 1 /\ hcd \in {"inc", "signal"})

\* Each frame of the message endpoint brings its trigger
EachTriggers ==
    (chan = "msg" /\ thr # "exit")
        => queue <= tokens + (IF hcd \in {"inc", "signal"} THEN 1 ELSE 0)
                           + (IF thr = "loop" THEN 1 ELSE 0)

IInv == /\ TypeOK /\ PoolWhole /\ Up /\ Refilling /\ NoneHeld
        /\ CountExact /\ FirstTriggers /\ EachTriggers

-----------------------------------------------------------------------------
\* Right after probe the invariant holds.
LEMMA InitIInv == Init => IInv
BY UsbRxAssumption DEF Init, IInv, TypeOK, PoolWhole, Up, Refilling, NoneHeld, CountExact,
   FirstTriggers, EachTriggers, HcdSteps, PmSteps

\* The steps of the completion handler up to the refill keep it.
LEMMA HandlerKeeps ==
    ASSUME IInv, \/ Completes \/ CompletesEmpty \/ CompletesInError
                 \/ Enqueue \/ Overflow \/ NotUp \/ CountIn \/ Signal \/ Put \/ PutOnly
    PROVE  IInv'
<1> USE UsbRxAssumption DEF IInv, TypeOK, PoolWhole, Up, Refilling, NoneHeld, CountExact,
        FirstTriggers, EachTriggers, HcdSteps, PmSteps, Hcd, Fault, urbs, rx
<1>1. CASE Completes BY <1>1 DEF Completes
<1>2. CASE CompletesEmpty BY <1>2 DEF CompletesEmpty
<1>3. CASE CompletesInError BY <1>3 DEF CompletesInError
<1>4. CASE Enqueue BY <1>4 DEF Enqueue
<1>5. CASE Overflow BY <1>5 DEF Overflow
<1>6. CASE NotUp BY <1>6 DEF NotUp
<1>7. CASE CountIn BY <1>7 DEF CountIn
<1>8. CASE Signal BY <1>8 DEF Signal
<1>9. CASE Put BY <1>9 DEF Put
<1>10. CASE PutOnly BY <1>10 DEF PutOnly
<1> QED BY <1>1, <1>2, <1>3, <1>4, <1>5, <1>6, <1>7, <1>8, <1>9, <1>10

\* So does a refill, by the handler or by a resume.
LEMMA RefillKeeps ==
    ASSUME IInv, NEW h \in BOOLEAN,
           Get(h) \/ Refilled(h) \/ Submit(h) \/ SubmitFails(h) \/ SubmitNotUp(h)
    PROVE  IInv'
<1> USE UsbRxAssumption DEF IInv, TypeOK, PoolWhole, Up, Refilling, NoneHeld, CountExact,
        FirstTriggers, EachTriggers, HcdSteps, PmSteps, InRefill, RefillGoto, RefillEnd,
        Fault, urbs, rx
<1>1. CASE Get(h) BY <1>1 DEF Get
<1>2. CASE Refilled(h) BY <1>2 DEF Refilled
<1>3. CASE Submit(h) BY <1>3 DEF Submit
<1>4. CASE SubmitFails(h) BY <1>4 DEF SubmitFails
<1>5. CASE SubmitNotUp(h) BY <1>5 DEF SubmitNotUp
<1> QED BY <1>1, <1>2, <1>3, <1>4, <1>5

\* So do the receive thread, suspend and resume.
LEMMA OthersKeep ==
    ASSUME IInv, Thread \/ NoMemory \/ Sleep \/ BusStop \/ Suspended \/ BusStart
    PROVE  IInv'
<1> USE UsbRxAssumption DEF IInv, TypeOK, PoolWhole, Up, Refilling, NoneHeld, CountExact,
        FirstTriggers, EachTriggers, HcdSteps, PmSteps, Thr, Pm, Fault, urbs, rx
<1>1. CASE Wakes BY <1>1 DEF Wakes
<1>2. CASE Dequeue BY <1>2 DEF Dequeue
<1>3. CASE Empty BY <1>3 DEF Empty
<1>4. CASE Handled BY <1>4 DEF Handled
<1>5. CASE NoMemory BY <1>5 DEF NoMemory
<1>6. CASE Sleep BY <1>6 DEF Sleep
<1>7. CASE BusStop BY <1>7 DEF BusStop
<1>8. CASE Suspended BY <1>8 DEF Suspended
<1>9. CASE BusStart BY <1>9 DEF BusStart
<1> QED BY <1>1, <1>2, <1>3, <1>4, <1>5, <1>6, <1>7, <1>8, <1>9 DEF Thread

\* The invariant is inductive.
LEMMA Inductive == IInv /\ [Next]_vars => IInv'
<1> SUFFICES ASSUME IInv, [Next]_vars PROVE IInv'
  OBVIOUS
<1>1. CASE \E h \in BOOLEAN : Get(h) \/ Refilled(h) \/ Submit(h) \/ SubmitFails(h) \/ SubmitNotUp(h)
  BY <1>1, RefillKeeps
<1>2. CASE \/ Completes \/ CompletesEmpty \/ CompletesInError
           \/ Enqueue \/ Overflow \/ NotUp \/ CountIn \/ Signal \/ Put \/ PutOnly
  BY <1>2, HandlerKeeps
<1>3. CASE Thread \/ NoMemory \/ Sleep \/ BusStop \/ Suspended \/ BusStart
  BY <1>3, OthersKeep
<1>4. CASE UNCHANGED vars
  BY <1>4 DEF vars, urbs, rx, hist, IInv, TypeOK, PoolWhole, Up, Refilling, NoneHeld,
     CountExact, FirstTriggers, EachTriggers
<1> QED BY <1>1, <1>2, <1>3, <1>4 DEF Next, Handler, Resume

LEMMA Invariance == Spec => []IInv
<1> QED BY InitIInv, Inductive, PTL DEF Spec

\* The URBs of an endpoint (aicwf_usb_rx_buf_get and aicwf_usb_rx_buf_put) are
\* all accounted for, and only an overflow of the message queue loses one.
THEOREM PoolWholeHolds == Spec => []PoolWhole
<1>1. IInv => PoolWhole
  BY DEF IInv
<1> QED BY <1>1, Invariance, PTL

\* Between completions every URB is submitted unless something failed
\* (aicwf_usb_rx_submit_all_urb goes on until the free list is empty).
THEOREM ArmedHolds == Spec => []Armed
<1>1. IInv => Armed
  BY DEF IInv, TypeOK, Refilling, Armed
<1> QED BY <1>1, Invariance, PTL

\* A queued frame always has a trigger while the thread waits: rx_cnt read as 1
\* is enough on the data endpoint, as its handler is the only one that counts up.
THEOREM NoneStrandedHolds == Spec => []NoneStranded
<1>1. IInv => NoneStranded
  BY DEF IInv, TypeOK, FirstTriggers, EachTriggers, NoneStranded
<1> QED BY <1>1, Invariance, PTL
=============================================================================
