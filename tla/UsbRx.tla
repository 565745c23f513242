-------------------------------- MODULE UsbRx --------------------------------
(***************************************************************************)
(* Reception over USB (aicwf_usb.c, aicwf_txrxif.c), on the data endpoint  *)
(* or on the message endpoint: a completed request block (URB) queues its  *)
(* frame, triggers the receive thread, and submits every free URB again;   *)
(* a resume submits them too.  The data endpoint triggers the thread only  *)
(* when its count of frames reads 1, the message endpoint for every frame. *)
(*                                                                         *)
(* The two endpoints share nothing, so one behaviour is about one of them. *)
(* URBs, and frames, are alike: lists and queues are counts.               *)
(***************************************************************************)
EXTENDS Integers

CONSTANTS Urbs,        \* AICWF_USB_RX_URBS, AICWF_USB_MSG_RX_URBS
          MaxQueue,    \* MAX_RXQLEN
          MaxTokens,   \* bound: no frame arrives from there on
          MaxFaults,   \* bound: allocations and submissions that fail, and
                       \* URBs that end with an error
          MaxSuspends  \* bound: how often the device is suspended

ASSUME UsbRxAssumption ==
    /\ Urbs \in Nat \ {0} /\ MaxQueue \in Nat \ {0} /\ MaxTokens \in Nat \ {0}
    /\ MaxFaults \in Nat /\ MaxSuspends \in Nat

VARIABLES
    chan,     \* the endpoint: "data" or "msg"
    state,    \* usb_dev->state; bus_if->state is DOWN exactly when it is
    free,     \* the length of rx_free_list or msg_rx_free_list
    flight,   \* submitted and not completed
    lost,     \* history: URBs that are on no list and never come back
    queue,    \* the length of rxq or msg_rxq
    cnt,      \* rx_cnt or msg_rx_cnt
    tokens,   \* the count of busrx_trgg or msg_busrx_trgg
    hcd,      \* the step of the completion handler, one at a time
    thr,      \* the step of usb_busrx_thread or usb_msg_busrx_thread
    pm,       \* the step of suspend and resume
    faults, suspends

urbs == <<free, flight, lost>>
rx   == <<queue, cnt, tokens>>
hist == <<faults, suspends>>
vars == <<chan, state, urbs, rx, hcd, thr, pm, hist>>

HcdSteps == {"idle", "got", "inc", "signal", "put", "return", "refill", "submit"}
PmSteps  == {"awake", "sleep", "down", "asleep", "refill", "submit"}

TypeOK ==
    /\ chan \in {"data", "msg"} /\ state \in {"UP", "SLEEP", "DOWN"}
    /\ free \in Nat /\ flight \in Nat /\ lost \in Nat
    /\ queue \in 0..MaxQueue /\ cnt \in Int /\ tokens \in Nat
    /\ hcd \in HcdSteps /\ pm \in PmSteps
    /\ thr \in {"wait", "loop", "busy", "exit"}
    /\ faults \in 0..MaxFaults /\ suspends \in 0..MaxSuspends

\* After probe: the bus is up and every URB has been submitted
Init ==
    /\ chan \in {"data", "msg"} /\ state = "UP"
    /\ free = 0 /\ flight = Urbs /\ lost = 0
    /\ queue = 0 /\ cnt = 0 /\ tokens = 0
    /\ hcd = "idle" /\ thr = "wait" /\ pm = "awake"
    /\ faults = 0 /\ suspends = 0

Fault == faults < MaxFaults /\ faults' = faults + 1

-----------------------------------------------------------------------------
(* aicwf_usb_rx_complete and aicwf_usb_msg_rx_complete.                    *)

Hcd(from, to) == hcd = from /\ hcd' = to /\ UNCHANGED <<chan, state, thr, pm, suspends>>

Completes ==
    /\ Hcd("idle", "got") /\ flight > 0 /\ tokens < MaxTokens
    /\ flight' = flight - 1
    /\ UNCHANGED <<free, lost, rx, faults>>

\* Nothing was received, or too much: the URB is only submitted again
CompletesEmpty ==
    /\ Hcd("idle", "put") /\ flight > 0
    /\ flight' = flight - 1
    /\ UNCHANGED <<free, lost, rx, faults>>

\* After an error no URB is submitted.  Every URB ends so once the device is
\* suspended.
CompletesInError ==
    /\ Hcd("idle", "return") /\ flight > 0
    /\ flight' = flight - 1
    /\ \/ pm = "down" /\ UNCHANGED faults
       \/ pm # "down" /\ Fault
    /\ UNCHANGED <<free, lost, rx>>

Enqueue ==
    /\ Hcd("got", "inc") /\ state = "UP" /\ queue < MaxQueue
    /\ queue' = queue + 1
    /\ UNCHANGED <<urbs, cnt, tokens, faults>>

\* The frame is dropped; the message endpoint forgets the URB with it
Overflow ==
    /\ hcd = "got" /\ state = "UP" /\ queue = MaxQueue
    /\ \/ chan = "data" /\ Hcd("got", "put") /\ UNCHANGED lost
       \/ chan = "msg" /\ Hcd("got", "idle") /\ lost' = lost + 1
    /\ UNCHANGED <<free, flight, rx, faults>>

NotUp ==
    /\ Hcd("got", "return") /\ state # "UP"
    /\ UNCHANGED <<urbs, rx, faults>>

CountIn ==
    /\ Hcd("inc", "signal") /\ cnt' = cnt + 1
    /\ UNCHANGED <<urbs, queue, tokens, faults>>

\* The data endpoint relies on the count.  The variants trigger a thread that
\* waits, and rely on the count on either endpoint.
SignalIdle ==
    /\ Hcd("signal", "put")
    /\ tokens' = IF thr = "wait" THEN tokens + 1 ELSE tokens
    /\ UNCHANGED <<urbs, queue, cnt, faults>>
SignalCount ==
    /\ Hcd("signal", "put")
    /\ tokens' = IF cnt = 1 THEN tokens + 1 ELSE tokens
    /\ UNCHANGED <<urbs, queue, cnt, faults>>
Signal ==
    /\ Hcd("signal", "put")
    /\ tokens' = IF chan = "msg" \/ cnt = 1 THEN tokens + 1 ELSE tokens
    /\ UNCHANGED <<urbs, queue, cnt, faults>>

Put ==
    /\ Hcd("put", "refill") /\ free' = free + 1
    /\ UNCHANGED <<flight, lost, rx, faults>>

\* The variant forgets the URB
PutNot ==
    /\ Hcd("return", "idle")
    /\ UNCHANGED <<urbs, rx, faults>>
PutOnly ==
    /\ Hcd("return", "idle") /\ free' = free + 1
    /\ UNCHANGED <<flight, lost, rx, faults>>

-----------------------------------------------------------------------------
(* aicwf_usb_rx_submit_all_urb and aicwf_usb_msg_rx_submit_all_urb, which  *)
(* the completion handler (h) and the resume (~h) may run at the same time *)

InRefill(h, step) == IF h THEN hcd = step ELSE pm = step
RefillGoto(h, step) ==
    /\ IF h THEN hcd' = step /\ UNCHANGED pm ELSE pm' = step /\ UNCHANGED hcd
    /\ UNCHANGED <<chan, state, lost, rx, thr, suspends>>
RefillEnd(h) == RefillGoto(h, IF h THEN "idle" ELSE "awake")

Get(h) ==
    /\ InRefill(h, "refill") /\ state = "UP" /\ free > 0
    /\ free' = free - 1 /\ RefillGoto(h, "submit")
    /\ UNCHANGED <<flight, faults>>

Refilled(h) ==
    /\ InRefill(h, "refill") /\ (state # "UP" \/ free = 0)
    /\ RefillEnd(h)
    /\ UNCHANGED <<free, flight, faults>>

\* The variant takes one URB per completion
SubmitOne(h) ==
    /\ InRefill(h, "submit") /\ state = "UP"
    /\ flight' = flight + 1 /\ RefillEnd(h)
    /\ UNCHANGED <<free, faults>>
Submit(h) ==
    /\ InRefill(h, "submit") /\ state = "UP"
    /\ flight' = flight + 1 /\ RefillGoto(h, "refill")
    /\ UNCHANGED <<free, faults>>

\* The URB goes back, and the data endpoint stops here, the message endpoint
\* tries again
SubmitFails(h) ==
    /\ InRefill(h, "submit") /\ state = "UP" /\ Fault
    /\ free' = free + 1
    /\ IF chan = "data" THEN RefillEnd(h) ELSE RefillGoto(h, "refill")
    /\ UNCHANGED flight

SubmitNotUp(h) ==
    /\ InRefill(h, "submit") /\ state # "UP"
    /\ free' = free + 1 /\ RefillEnd(h)
    /\ UNCHANGED <<flight, faults>>

-----------------------------------------------------------------------------
(* The receive thread with aicwf_process_rxframes or its message twin.     *)

Thr(from, to) == thr = from /\ thr' = to /\ UNCHANGED <<chan, state, urbs, hcd, pm, suspends>>

Wakes ==
    /\ tokens > 0 /\ tokens' = tokens - 1
    /\ Thr("wait", IF state = "DOWN" THEN "exit" ELSE "loop")
    /\ UNCHANGED <<queue, cnt, faults>>

Dequeue ==
    /\ queue > 0 /\ queue' = queue - 1 /\ Thr("loop", "busy")
    /\ UNCHANGED <<cnt, tokens, faults>>

Empty ==
    /\ queue = 0 /\ Thr("loop", "wait")
    /\ UNCHANGED <<rx, faults>>

Handled ==
    /\ Thr("busy", "loop") /\ cnt' = cnt - 1
    /\ UNCHANGED <<queue, tokens, faults>>

\* No memory for the copy of a confirmation: the thread waits again, and the frame stays counted
NoMemory ==
    /\ Thr("busy", "wait") /\ Fault
    /\ UNCHANGED rx

-----------------------------------------------------------------------------
(* aicwf_usb_suspend and aicwf_usb_resume.                                 *)

Pm(from, to) == pm = from /\ pm' = to /\ UNCHANGED <<chan, urbs, rx, hcd, thr, faults>>

Sleep ==
    /\ Pm("awake", "sleep") /\ suspends < MaxSuspends
    /\ suspends' = suspends + 1 /\ state' = "SLEEP"

BusStop ==
    /\ Pm("sleep", "down") /\ state' = "DOWN"
    /\ UNCHANGED suspends

\* The USB core has given back every URB
Suspended ==
    /\ Pm("down", "asleep") /\ flight = 0 /\ hcd = "idle"
    /\ UNCHANGED <<state, suspends>>

BusStart ==
    /\ Pm("asleep", "refill") /\ state' = "UP"
    /\ UNCHANGED suspends

-----------------------------------------------------------------------------
Handler ==
    \/ Enqueue \/ Overflow \/ NotUp \/ CountIn \/ Signal \/ Put \/ PutOnly
    \/ Get(TRUE) \/ Refilled(TRUE) \/ Submit(TRUE) \/ SubmitNotUp(TRUE)
Thread == Wakes \/ Dequeue \/ Empty \/ Handled
Resume ==
    \/ BusStop \/ Suspended \/ BusStart
    \/ Get(FALSE) \/ Refilled(FALSE) \/ Submit(FALSE) \/ SubmitNotUp(FALSE)

Next ==
    \/ Completes \/ CompletesEmpty \/ CompletesInError
    \/ Handler \/ Thread \/ Resume \/ Sleep
    \/ SubmitFails(TRUE) \/ SubmitFails(FALSE) \/ NoMemory

\* The handler, the thread and the machine go on; that something is received,
\* suspended or refused is not promised.  Once the device goes to sleep, the
\* core ends every URB.
Spec ==
    /\ Init /\ [][Next]_vars
    /\ WF_vars(Handler) /\ WF_vars(Thread) /\ WF_vars(Resume)
    /\ WF_vars(CompletesInError /\ pm = "down")

-----------------------------------------------------------------------------
\* Every URB is in exactly one place, and only the message endpoint loses one,
\* when its queue is full: the handler and a resume move them at once.
PoolWhole ==
    /\ Urbs = free + flight + lost
                + (IF hcd \in {"idle", "refill"} THEN 0 ELSE 1)
                + (IF pm = "submit" THEN 1 ELSE 0)
    /\ lost > 0 => chan = "msg"

\* Reception stays armed: between completions, no URB is left on the free list
\* unless something failed, also after a resume refilled at the same time.
Armed == (hcd = "idle" /\ pm = "awake" /\ faults = 0) => free = 0

\* No frame is stranded: while the thread waits and frames are queued, a
\* trigger is given or about to be; on the message endpoint whatever fails, on
\* the data endpoint, which counts, as long as no copy failed.
NoneStranded ==
    (thr = "wait" /\ queue > 0 /\ (chan = "msg" \/ faults = 0))
        => (tokens > 0 \/ hcd \in {"inc", "signal"})

\* A queued frame reaches the thread, if the thread survives the suspensions
\* and, on the data endpoint, nothing fails.
Served ==
    [](thr # "exit" /\ (chan = "msg" \/ faults = 0)) => (queue > 0 ~> thr = "busy")
=============================================================================
