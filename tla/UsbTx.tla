-------------------------------- MODULE UsbTx --------------------------------
(***************************************************************************)
(* Transmission over USB (aicwf_usb.c, aicwf_txrxif.c): senders take a     *)
(* request block (URB) from the free list and post it, the transmit thread *)
(* submits what is posted, the completion puts it back; two marks on the   *)
(* free list stop and wake the queues of the network device, and suspend   *)
(* and resume go through the same lists.                                   *)
(*                                                                         *)
(* The URBs of a list are alike, so a list is its count, which is also     *)
(* what the code compares with the marks.  Each action is what one lock    *)
(* (tx_free_lock, tx_post_lock, tx_flow_lock) protects, or one read.       *)
(***************************************************************************)
EXTENDS Naturals, FiniteSets

CONSTANTS Senders,     \* threads that may be inside aicwf_frame_tx at once
          Mgmt,        \* those of them that send management frames, which no
                       \* stopped queue holds back
          Urbs,        \* AICWF_USB_TX_URBS
          MaxTokens,   \* bound: a transmission starts only below it
          MaxFaults    \* bound: suspensions, submissions refused for a passing
                       \* reason and the unplugging of the device, together

ASSUME UsbTxAssumption ==
    /\ IsFiniteSet(Senders) /\ Mgmt \subseteq Senders
    /\ Urbs \in Nat \ {0} /\ MaxTokens \in Nat \ {0}
    /\ MaxFaults \in Nat

LOW      == Urbs \div 4  \* AICWF_USB_TX_LOW_WATER
HIGHFull == LOW * 4
HIGH     == LOW * 3       \* AICWF_USB_TX_HIGH_WATER

VARIABLES
    state,    \* usb_dev->state; bus_if->state is DOWN exactly when it is
    free,     \* tx_free_count
    post,     \* tx_post_count
    flight,   \* submitted and not completed
    tbusy,    \* flow control has stopped the queues
    stopped,  \* the queues of the device are stopped
    tokens,   \* the count of the completion bustx_trgg
    snd,      \* the step of each sender
    thr,      \* the step of usb_bustx_thread
    hcd,      \* the step of aicwf_usb_tx_complete; the host controller runs
              \* one completion at a time
    pm,       \* the step of aicwf_usb_suspend and aicwf_usb_resume
    gone,     \* the device was unplugged
    lateStop, \* history: a sender that saw the bus down stopped the queues
              \* after the resume had woken them
    fails, suspends

lists == <<free, post, flight>>
flow  == <<tbusy, stopped>>
hist  == <<lateStop, fails, suspends>>
vars  == <<state, lists, flow, tokens, snd, thr, hcd, pm, gone, hist>>

SndSteps == {"idle", "down", "take", "post", "signal", "flow"}
ThrSteps == {"wait", "loop", "take", "submit", "exit"}
PmSteps  == {"awake", "stopped", "sleep", "detach", "detached", "asleep", "up",
             "prepare", "unpost", "put", "wake", "oops"}

TypeOK ==
    /\ state \in {"UP", "SLEEP", "DOWN"}
    /\ free \in Nat /\ post \in Nat /\ flight \in Nat /\ tokens \in Nat
    /\ tbusy \in BOOLEAN /\ stopped \in BOOLEAN /\ gone \in BOOLEAN
    /\ snd \in [Senders -> SndSteps] /\ thr \in ThrSteps
    /\ hcd \in {"idle", "flow"} /\ pm \in PmSteps
    /\ lateStop \in BOOLEAN /\ fails \in Nat /\ suspends \in Nat

\* After probe: all URBs are free, the bus is up, the thread waits
Init ==
    /\ state = "UP" /\ free = Urbs /\ post = 0 /\ flight = 0
    /\ tbusy = FALSE /\ stopped = FALSE /\ tokens = 0
    /\ snd = [s \in Senders |-> "idle"] /\ thr = "wait" /\ hcd = "idle"
    /\ pm = "awake" /\ gone = FALSE /\ lateStop = FALSE /\ fails = 0 /\ suspends = 0

At(step) == {s \in Senders : snd[s] = step}
Goto(s, step) == snd' = [snd EXCEPT ![s] = step]

MayFault == fails + suspends < MaxFaults

Detached == pm \in {"detached", "asleep"}  \* netif_device_detach to attach

-----------------------------------------------------------------------------
(* aicwf_frame_tx and aicwf_usb_bus_txdata.                                *)

\* The queues hold data frames back.  The two reads of the state are one: a
\* device that goes down in between looks as if it had just gone to sleep.
FrameTx(s) ==
    /\ snd[s] = "idle" /\ tokens < MaxTokens
    /\ s \in Mgmt \/ (~stopped /\ ~Detached)
    /\ state # "SLEEP"   \* asleep, bus_txdata drops the frame
    /\ Goto(s, IF state = "UP" THEN "take" ELSE "down")
    /\ UNCHANGED <<state, lists, flow, tokens, thr, hcd, pm, gone, hist>>

\* The queues stop without tbusy, and so without anyone who would wake them
FrameTxDown(s) ==
    /\ snd[s] = "down"
    /\ stopped' = (stopped \/ ~tbusy)
    /\ lateStop' = (lateStop \/ (~stopped /\ ~tbusy /\ pm = "awake"))
    /\ Goto(s, "idle")
    /\ UNCHANGED <<state, lists, tbusy, tokens, thr, hcd, pm, gone, fails, suspends>>

Take(s) ==
    /\ snd[s] = "take" /\ free > 0
    /\ free' = free - 1 /\ Goto(s, "post")
    /\ UNCHANGED <<state, post, flight, flow, tokens, thr, hcd, pm, gone, hist>>

NoUrb(s) ==
    /\ snd[s] = "take" /\ free = 0
    /\ Goto(s, "flow")
    /\ UNCHANGED <<state, lists, flow, tokens, thr, hcd, pm, gone, hist>>

\* The frame is copied or mapped, and the URB filled.  The variant triggers
\* the thread only for the first frame on the list.
PostFirst(s) ==
    /\ snd[s] = "post"
    /\ post' = post + 1 /\ Goto(s, IF post = 0 THEN "signal" ELSE "flow")
    /\ UNCHANGED <<state, free, flight, flow, tokens, thr, hcd, pm, gone, hist>>
Post(s) ==
    /\ snd[s] = "post"
    /\ post' = post + 1 /\ Goto(s, "signal")
    /\ UNCHANGED <<state, free, flight, flow, tokens, thr, hcd, pm, gone, hist>>

Signal(s) ==
    /\ snd[s] = "signal"
    /\ tokens' = tokens + 1 /\ Goto(s, "flow")
    /\ UNCHANGED <<state, lists, flow, thr, hcd, pm, gone, hist>>

\* Below the low mark, under tx_flow_lock.  The variant leaves tbusy alone.
FlowStopQuiet(s) ==
    /\ snd[s] = "flow"
    /\ stopped' = (stopped \/ free < LOW)
    /\ Goto(s, "idle")
    /\ UNCHANGED <<state, lists, tbusy, tokens, thr, hcd, pm, gone, hist>>
FlowStop(s) ==
    /\ snd[s] = "flow"
    /\ tbusy' = (tbusy \/ free < LOW)
    /\ stopped' = (stopped \/ free < LOW)
    /\ Goto(s, "idle")
    /\ UNCHANGED <<state, lists, tokens, thr, hcd, pm, gone, hist>>

-----------------------------------------------------------------------------
(* usb_bustx_thread and aicwf_usb_tx_process.                              *)

\* A trigger that finds the bus down ends the thread; nothing starts it again
ThreadWakes ==
    /\ thr = "wait" /\ tokens > 0
    /\ tokens' = tokens - 1
    /\ thr' = CASE state = "DOWN" -> "exit"
                [] state # "DOWN" /\ post > 0 -> "loop"
                [] OTHER -> "wait"
    /\ UNCHANGED <<state, lists, flow, snd, hcd, pm, gone, hist>>

\* The list is read without its lock, and the state without any
ThreadChecks ==
    /\ thr = "loop"
    /\ thr' = IF post > 0 /\ state = "UP" THEN "take" ELSE "wait"
    /\ UNCHANGED <<state, lists, flow, tokens, snd, hcd, pm, gone, hist>>

ThreadTakes ==
    /\ thr = "take"
    /\ \/ post > 0 /\ post' = post - 1 /\ thr' = "submit"
       \/ post = 0 /\ thr' = "wait" /\ UNCHANGED post
    /\ UNCHANGED <<state, free, flight, flow, tokens, snd, hcd, pm, gone, hist>>

Submit ==
    /\ thr = "submit" /\ ~gone /\ pm # "asleep"
    /\ flight' = flight + 1 /\ thr' = "loop"
    /\ UNCHANGED <<state, free, post, flow, tokens, snd, hcd, pm, gone, hist>>

\* The URB returns to the free list and the next frame is tried, but no one
\* looks at the marks
SubmitFails ==
    /\ thr = "submit" /\ ~gone
    /\ free' = free + 1 /\ thr' = "loop"
    /\ \/ pm = "asleep" /\ UNCHANGED fails
       \/ pm # "asleep" /\ MayFault /\ fails' = fails + 1
    /\ UNCHANGED <<state, post, flight, flow, tokens, snd, hcd, pm, gone, lateStop, suspends>>

\* -ENODEV ends the round.  The variant keeps the URB.
SubmitLeaks ==
    /\ thr = "submit" /\ gone /\ thr' = "wait"
    /\ UNCHANGED <<state, lists, flow, tokens, snd, hcd, pm, gone, hist>>
SubmitNoDevice ==
    /\ thr = "submit" /\ gone
    /\ free' = free + 1 /\ thr' = "wait"
    /\ UNCHANGED <<state, post, flight, flow, tokens, snd, hcd, pm, gone, hist>>

-----------------------------------------------------------------------------
(* aicwf_usb_tx_complete, called for every URB that was submitted.         *)

Complete ==
    /\ hcd = "idle" /\ flight > 0
    /\ flight' = flight - 1 /\ free' = free + 1 /\ hcd' = "flow"
    /\ UNCHANGED <<state, post, flow, tokens, snd, thr, pm, gone, hist>>

\* Above the high mark, under tx_flow_lock
FlowWake ==
    /\ hcd = "flow" /\ hcd' = "idle"
    /\ tbusy' = (tbusy /\ free <= HIGH)
    /\ stopped' = (stopped /\ ~(tbusy /\ free > HIGH))
    /\ UNCHANGED <<state, lists, tokens, snd, thr, pm, gone, hist>>

-----------------------------------------------------------------------------
(* aicwf_usb_suspend and aicwf_usb_resume.                                 *)

Pm(from, to) == pm = from /\ pm' = to /\ UNCHANGED <<flight, tokens, snd, thr, hcd, gone>>

StopQueues ==
    /\ Pm("awake", "stopped") /\ MayFault
    /\ suspends' = suspends + 1 /\ stopped' = TRUE
    /\ UNCHANGED <<state, free, post, tbusy, lateStop, fails>>

Sleep ==
    /\ Pm("stopped", "sleep") /\ state' = "SLEEP"
    /\ UNCHANGED <<free, post, flow, hist>>

BusStop ==
    /\ Pm("sleep", "detach") /\ state' = "DOWN"
    /\ UNCHANGED <<free, post, flow, hist>>

Detach ==
    /\ Pm("detach", "detached") /\ stopped' = TRUE
    /\ UNCHANGED <<state, free, post, tbusy, hist>>

\* The USB core has given back every URB and accepts no other
Suspended ==
    /\ Pm("detached", "asleep") /\ flight = 0 /\ hcd = "idle"
    /\ UNCHANGED <<state, free, post, flow, hist>>

\* netif_device_attach wakes the queues, before the bus is up
Attach ==
    /\ Pm("asleep", "up") /\ stopped' = FALSE
    /\ UNCHANGED <<state, free, post, tbusy, hist>>

BusStart ==
    /\ Pm("up", "prepare") /\ state' = "UP"
    /\ UNCHANGED <<free, post, flow, hist>>

\* aicwf_usb_tx_prepare drops what was posted: it reads the list without its
\* lock, and takes the first URB without looking whether there is one
Prepare ==
    /\ Pm("prepare", IF post > 0 THEN "unpost" ELSE "wake")
    /\ UNCHANGED <<state, free, post, flow, hist>>

Unpost ==
    /\ Pm("unpost", IF post > 0 THEN "put" ELSE "oops")
    /\ post' = IF post > 0 THEN post - 1 ELSE 0
    /\ UNCHANGED <<state, free, flow, hist>>

Put ==
    /\ Pm("put", "prepare") /\ free' = free + 1
    /\ UNCHANGED <<state, post, flow, hist>>

WakeQueues ==
    /\ Pm("wake", "awake") /\ stopped' = FALSE
    /\ UNCHANGED <<state, free, post, tbusy, hist>>

Unplug ==
    /\ ~gone /\ gone' = TRUE /\ pm = "awake"
    /\ MayFault /\ fails' = fails + 1
    /\ UNCHANGED <<state, lists, flow, tokens, snd, thr, hcd, pm, lateStop, suspends>>

-----------------------------------------------------------------------------
Sends(s) == FrameTxDown(s) \/ Take(s) \/ NoUrb(s) \/ Post(s) \/ Signal(s) \/ FlowStop(s)
Thread == ThreadWakes \/ ThreadChecks \/ ThreadTakes \/ Submit \/ SubmitFails \/ SubmitNoDevice
Controller == Complete \/ FlowWake
Suspends == Sleep \/ BusStop \/ Detach \/ Suspended
Resumes == Attach \/ BusStart \/ Prepare \/ Unpost \/ Put \/ WakeQueues

Next ==
    \/ \E s \in Senders : FrameTx(s) \/ Sends(s)
    \/ Thread \/ Controller
    \/ StopQueues \/ Suspends \/ Resumes
    \/ Unplug

\* A sender that has started finishes, the thread runs when triggered, the
\* controller gives back what it was given, and the machine wakes up again.
\* That a frame comes, a suspension or a failure is not promised.
Spec ==
    /\ Init /\ [][Next]_vars
    /\ \A s \in Senders : WF_vars(Sends(s))
    /\ WF_vars(Thread) /\ WF_vars(Controller) /\ WF_vars(Suspends \/ Resumes)

-----------------------------------------------------------------------------
\* Every URB is in exactly one place: on a list, at the controller, or with
\* the one thread that took it.  An URB lost or listed twice breaks the sum;
\* senders, thread, completion and resume each move it in two steps.
PoolWhole ==
    Urbs = free + post + flight + Cardinality(At("post"))
             + (IF thr = "submit" THEN 1 ELSE 0) + (IF pm = "put" THEN 1 ELSE 0)

\* The wake-up is never missed: if the queues are stopped while more than HIGH
\* URBs are free, the completion that will wake them is on its way.  Only a
\* failed submission, or a sender that saw the bus down, leaves them stopped.
WakePending ==
    (stopped /\ pm = "awake" /\ free > HIGH /\ fails = 0 /\ ~lateStop)
        => (tbusy /\ hcd = "flow")

\* No frame waits for the next one: while the thread waits, every posted frame
\* has its trigger, given or about to be, also after a resume dropped frames
\* and left their triggers behind, and after rounds that were broken off.
TriggerPending ==
    (thr = "wait" /\ state = "UP" /\ pm \in {"awake", "stopped", "wake"})
        => post <= tokens + Cardinality(At("signal"))

\* The queues wake up again and again, unless management frames keep the URBs,
\* as long as nothing fails, no sender stops the queues late, and the thread and
\* the resume survive.
QueueWoken ==
    ( /\ [](fails = 0 /\ ~lateStop /\ thr # "exit" /\ pm # "oops")
      /\ <>[](\A s \in Mgmt : snd[s] = "idle") )
    => []<>~stopped
=============================================================================
