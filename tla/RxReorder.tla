------------------------------ MODULE RxReorder ------------------------------
(***************************************************************************)
(* Receive reordering of the Wi-Fi driver (rwnx_rx.c): one control of one  *)
(* station and TID.  The bus thread puts data frames in sequence order,    *)
(* a timer and the work it schedules give up on a gap, a frame outside the *)
(* block-ack session flushes the buffer, and another thread (a station     *)
(* removed, the bus going down) tears the control down.                    *)
(*                                                                         *)
(* A frame is its position in the sender's stream, a number of Frames; the *)
(* code only sees Sn(n), its sequence number modulo SeqSpace.  Everything  *)
(* done under reord_list_lock is one step.                                 *)
(***************************************************************************)
EXTENDS Integers, FiniteSets, SequencesExt

CONSTANTS
    SeqSpace,   \* sequence numbers are modulo this (0x1000 in the code)
    Window,     \* AICWF_REORDER_WINSIZE
    PoolSize,   \* MAX_REORD_RXFRAME
    FirstPos,    \* position of the first frame of the stream
    LastPos,       \* position of the last one
    Rtp,        \* the frames that the driver takes for RTP
    Direct,     \* the EAPOL and multicast frames
    MaxFaults   \* bound: frames lost, frames received once more, frames outside
                \* the block-ack session and teardowns, together

Faults  == {"loss", "copy", "flush", "deinit"}
Frames  == FirstPos..LastPos
FirstSn == 16 * SeqSpace - 1        \* ind_sn = 0xffff: no frame seen yet
NoFrame == FirstPos - 1

ASSUME SeqAssumption ==
    /\ SeqSpace \in Nat /\ SeqSpace % 2 = 0 /\ Window \in 1..(SeqSpace \div 2)
    /\ FirstPos \in Nat /\ LastPos \in Nat /\ PoolSize \in Nat \ {0}
    /\ Rtp \subseteq Frames /\ Direct \subseteq Frames
    /\ MaxFaults \in Nat
    \* the sender never runs half the sequence space ahead of the receiver
    /\ 2 * Window + MaxFaults + Cardinality(Direct) < SeqSpace \div 2

VARIABLES
    air,    \* frames the sender has not yet settled: neither acknowledged
            \* nor given up
    used,   \* how much of MaxFaults is used for what
    free,   \* receive descriptors in rxframes_freequeue
    ctl,    \* reord_ctrl: linked, enable, ind_sn
    buf,    \* reord_list
    timer,  \* reord_timer is pending
    irq,    \* reord_timeout_handler is running, before schedule_work
    work,   \* reord_timer_work is pending
    worker, \* reord_timeout_worker is running, before it has the lock
    down,   \* the bus is down
    rx,     \* where the bus thread is
    hand,   \* the frame it holds
    de,     \* where reord_deinit_sta is
    got,    \* history: frames that got a descriptor
    out,    \* history: frames given to the network stack
    gone,   \* history: frames freed by a teardown, or late RTP frames
    passed  \* history: positions the receiver decided not to wait for

net   == <<air, used>>
clock == <<timer, irq, work, worker>>
hist  == <<got, out, gone, passed>>
vars  == <<net, free, ctl, buf, clock, down, rx, hand, de, hist>>

Sn(n)      == n % SeqSpace
Waiting    == ToSet(buf)
Fresh      == [linked |-> TRUE, enable |-> TRUE, ind |-> FirstSn]
Absent     == [linked |-> FALSE, enable |-> FALSE, ind |-> FirstSn]

TypeOK ==
    /\ air \subseteq Frames
    /\ used \in [Faults -> Nat]
    /\ free \in 0..PoolSize
    /\ DOMAIN ctl = DOMAIN Fresh /\ {ctl.linked, ctl.enable} \subseteq BOOLEAN
    /\ buf \in Seq(Frames)
    /\ {irq, work, worker, down} \subseteq BOOLEAN
    /\ rx \in {"idle", "found", "flush", "stop_timer", "stop_work", "undefined"}
    /\ hand \in Frames \cup {NoFrame}
    /\ de \in {"idle", "timer", "work", "list", "free", "dangling"}
    /\ {got, out, gone, passed} \subseteq SUBSET Frames

Init ==
    /\ air = Frames /\ free = PoolSize
    /\ used = [f \in Faults |-> 0]
    /\ ctl = Absent /\ buf = <<>> /\ rx = "idle" /\ hand = NoFrame /\ de = "idle"
    /\ timer = FALSE /\ irq = FALSE /\ work = FALSE /\ worker = FALSE /\ down = FALSE
    /\ got = {} /\ out = {} /\ gone = {} /\ passed = {}

-----------------------------------------------------------------------------
(* The arithmetic of sequence numbers and the operations on the buffer.    *)

\* SN_LESS; the variant compares plain numbers.
LessPlain(a, b) == a < b
Less(a, b) == (a - b) % SeqSpace >= SeqSpace \div 2

\* The next sequence number
Succ(sn) == (sn + 1) % SeqSpace

\* Is sn above the window that starts at ind?  The variant always says so.
PastWindowAlways(ind, sn) == sn # ind
PastWindow(ind, sn) == Less((ind + Window - 1) % SeqSpace, sn)

\* Where the window that ends with sn starts.
MovedTo(sn) == (sn - (Window - 1)) % SeqSpace

\* reord_need_check: whether the frame is late, and what ind_sn becomes
NeedCheck(ind, sn) ==
    LET at == IF ind = FirstSn THEN sn ELSE ind
    IN  IF Less(sn, at) THEN [late |-> TRUE, ind |-> at]
        ELSE [late |-> FALSE,
              ind  |-> IF sn = at THEN Succ(at)
                       ELSE IF PastWindow(at, sn) THEN MovedTo(sn) ELSE at]

\* reord_rxframe_enqueue: where a frame goes, whether it is there already (the
\* variant takes every frame for new), and the buffer with it
Place(q, n)   == SelectInSeq(q, LAMBDA m : ~Less(Sn(m), Sn(n)))
KnownNever(q, n) == FALSE
Known(q, n)   == Place(q, n) # 0 /\ Sn(q[Place(q, n)]) = Sn(n)
Enqueue(q, n) == IF Place(q, n) = 0 THEN Append(q, n)
                 ELSE InsertAt(q, Place(q, n), n)

\* reord_rxframes_process: ind_sn advanced over the frames that are there,
\* and whether some frame has to wait
Advance(acc, sn) ==
    [ind  |-> IF ~acc.more /\ acc.ind = sn THEN Succ(sn) ELSE acc.ind,
     more |-> acc.more \/ Less(acc.ind, sn)]
Process(ind, q) ==
    LET past[i \in 0..Len(q)] == IF i = 0 THEN [ind |-> ind, more |-> FALSE]
                                 ELSE Advance(past[i - 1], Sn(q[i]))
    IN  past[Len(q)]

\* reord_rxframes_ind: how many frames of the buffer are due
Due(ind, q) ==
    LET stop == SelectInSeq(q, LAMBDA n : Less(ind, Sn(n)))
    IN  IF stop = 0 THEN Len(q) ELSE stop - 1

\* reord_single_frame_ind for the first k frames of q: the stack has them
Indicate(q, k) == out' = out \cup ToSet(SubSeq(q, 1, k)) /\ buf' = SubSeq(q, k + 1, Len(q))

Below(n) == FirstPos..(n - 1)

-----------------------------------------------------------------------------
(* The sender and the air (external).  Frames within Window of the oldest  *)
(* unsettled one are sent; they arrive in any order, may be given up, and  *)
(* may arrive once more when the acknowledgement is lost.                  *)

Sent == {n \in air : \A m \in air : n < m + Window}

Use(f) ==
    /\ used["loss"] + used["copy"] + used["flush"] + used["deinit"] < MaxFaults
    /\ used' = [used EXCEPT ![f] = @ + 1]

GiveUp ==
    /\ Use("loss")
    /\ \E n \in Sent : air' = air \ {n}
    /\ UNCHANGED <<free, ctl, buf, clock, down, rx, hand, de, hist>>

-----------------------------------------------------------------------------
(* The bus thread: rwnx_rxdataind_aicwf and reord_process_unit.            *)

\* A frame of the block-ack session arrives and a descriptor is there for it
Arrives(n, acked) ==
    /\ rx = "idle" /\ n \in Sent /\ free > 0
    /\ IF acked THEN air' = air \ {n} /\ UNCHANGED used
                ELSE Use("copy") /\ UNCHANGED air
    /\ got' = got \cup {n}

\* "no pframe": the frame is freed
ReceiveNoDescriptor ==
    /\ rx = "idle" /\ free = 0
    /\ Use("loss")
    /\ \E n \in Sent : air' = air \ {n}
    /\ UNCHANGED <<free, ctl, buf, clock, down, rx, hand, de, hist>>

\* EAPOL and multicast frames are never reordered
ReceiveDirect(n, acked) ==
    /\ Arrives(n, acked) /\ n \in Direct
    /\ out' = out \cup {n}
    /\ UNCHANGED <<free, ctl, buf, clock, down, rx, hand, de, gone, passed>>

\* reord_init_sta fails (bus down, no memory): the frame goes up at once
ReceiveNoControl(n, acked) ==
    /\ Arrives(n, acked) /\ n \notin Direct /\ ~ctl.linked
    /\ out' = out \cup {n}
    /\ passed' = passed \cup Below(n)
    /\ UNCHANGED <<free, ctl, buf, clock, down, rx, hand, de, gone>>

\* Under stas_reord_lock the control is found, created or enabled again
Receive(n, acked) ==
    /\ Arrives(n, acked) /\ n \notin Direct /\ (ctl.linked \/ ~down)
    /\ rx' = "found" /\ hand' = n /\ free' = free - 1
    /\ ctl' = IF ctl.enable THEN ctl ELSE Fresh
    /\ UNCHANGED <<buf, clock, down, de, out, gone, passed>>

\* The frame in hand is done with: its descriptor is free again.  The variant
\* frees the frame alone.
DoneLeaking == UNCHANGED free /\ rx' = "idle" /\ hand' = NoFrame
Done == free' = free + 1 /\ rx' = "idle" /\ hand' = NoFrame

\* It goes to the stack without passing through the buffer
IndicateHand == out' = out \cup {hand} /\ Done /\ UNCHANGED <<buf>>

\* The control was disabled after the lookup (by a teardown)
ProcessDisabled ==
    /\ rx = "found" /\ ~ctl.enable
    /\ IndicateHand
    /\ ctl' = [ctl EXCEPT !.ind = Succ(Sn(hand))]
    /\ passed' = passed \cup Below(hand)
    /\ UNCHANGED <<net, clock, down, de, got, gone>>

Check == NeedCheck(ctl.ind, Sn(hand))

\* Which late frames are freed: RTP frames.  The variant frees all of them.
LateFreedAll == TRUE
LateFreed == hand \in Rtp /\ Sn(hand) # Check.ind

\* A frame below ind_sn goes up out of order, or is freed
ProcessLate ==
    /\ rx = "found" /\ ctl.enable /\ Check.late
    /\ IF LateFreed
       THEN gone' = gone \cup {hand} /\ Done /\ UNCHANGED <<buf, out>>
       ELSE IndicateHand /\ UNCHANGED gone
    /\ UNCHANGED <<net, ctl, clock, down, de, got, passed>>

\* What the receiver gives up on by looking at the frame in hand: all before
\* the first frame of all, or before the window that ends with this frame
PassedBy(n) == IF ctl.ind = FirstSn THEN Below(n)
               ELSE IF PastWindow(ctl.ind, Sn(n)) THEN Below(n - (Window - 1)) ELSE {}

\* A copy of a frame that waits in the buffer is freed
ProcessCopy ==
    /\ rx = "found" /\ ctl.enable /\ ~Check.late /\ Known(buf, hand)
    /\ ctl' = [ctl EXCEPT !.ind = Check.ind]
    /\ passed' = passed \cup PassedBy(hand)
    /\ Done
    /\ UNCHANGED <<net, buf, clock, down, de, got, out, gone>>

\* Enqueued; then everything due is indicated, and the timer runs exactly
\* when some frame has to wait
ProcessFrame ==
    /\ rx = "found" /\ ctl.enable /\ ~Check.late /\ ~Known(buf, hand)
    /\ LET q == Enqueue(buf, hand)
           p == Process(Check.ind, q)
       IN  /\ ctl' = [ctl EXCEPT !.ind = p.ind]
           /\ timer' = p.more
           /\ Indicate(q, Due(p.ind, q))
           /\ free' = free + Due(p.ind, q)
    /\ passed' = passed \cup PassedBy(hand)
    /\ rx' = "idle" /\ hand' = NoFrame
    /\ UNCHANGED <<net, irq, work, worker, down, de, got, gone>>

-----------------------------------------------------------------------------
(* reord_flush_tid, for a frame outside the block-ack session.             *)

FlushLookup ==
    /\ rx = "idle" /\ ctl.linked /\ ctl.enable
    /\ Use("flush")
    /\ rx' = "flush"
    /\ UNCHANGED <<air, free, ctl, buf, clock, down, hand, de, hist>>

\* Everything goes up, gaps or not, and the control is disabled
FlushBuffer ==
    /\ rx = "flush"
    /\ Indicate(buf, Len(buf))
    /\ free' = free + Len(buf)
    /\ passed' = passed \cup (IF buf = <<>> THEN {} ELSE Below(buf[Len(buf)]))
    /\ ctl' = [ctl EXCEPT !.enable = FALSE]
    /\ rx' = "stop_timer"
    /\ UNCHANGED <<net, clock, down, hand, de, got, gone>>

\* timer_pending and del_timer_sync: a handler that already runs is only
\* waited for when the timer is pending again
StopTimer == (timer => ~irq) /\ timer' = FALSE /\ UNCHANGED <<irq, work, worker>>

\* cancel_work_sync
CancelWork == ~worker /\ work' = FALSE /\ UNCHANGED <<timer, irq, worker>>

FlushStopTimer ==
    /\ rx = "stop_timer" /\ StopTimer /\ rx' = "stop_work"
    /\ UNCHANGED <<net, free, ctl, buf, down, hand, de, hist>>

FlushCancelWork ==
    /\ rx = "stop_work" /\ CancelWork /\ rx' = "idle"
    /\ UNCHANGED <<net, free, ctl, buf, down, hand, de, hist>>

-----------------------------------------------------------------------------
(* The timer, its handler and the work.                                    *)

TimerExpires ==
    /\ timer /\ ~irq /\ timer' = FALSE /\ irq' = TRUE
    /\ UNCHANGED <<net, free, ctl, buf, work, worker, down, rx, hand, de, hist>>

\* reord_timeout_handler
TimeoutHandler ==
    /\ irq /\ irq' = FALSE
    /\ work' = (work \/ ~down)
    /\ UNCHANGED <<net, free, ctl, buf, timer, worker, down, rx, hand, de, hist>>

WorkStarts ==
    /\ work /\ ~worker /\ work' = FALSE /\ worker' = TRUE
    /\ UNCHANGED <<net, free, ctl, buf, timer, irq, down, rx, hand, de, hist>>

\* Forced, ind_sn is that of the first frame that waits; the variant leaves it.
ForcedNot == ctl.ind
Forced == IF buf = <<>> THEN ctl.ind ELSE Sn(Head(buf))

\* Whether the timer is pending afterwards; the variant does not start it for
\* the frames behind a second gap.
RearmedNot(more) == timer
Rearmed(more) == timer \/ more

\* reord_timeout_worker
TimeoutWorker ==
    /\ worker /\ worker' = FALSE
    /\ LET p == Process(Forced, buf)
       IN  /\ ctl' = [ctl EXCEPT !.ind = p.ind]
           /\ timer' = Rearmed(p.more)
           /\ Indicate(buf, Due(p.ind, buf))
           /\ free' = free + Due(p.ind, buf)
    /\ passed' = passed \cup (IF buf = <<>> THEN {} ELSE Below(Head(buf)))
    /\ UNCHANGED <<net, irq, work, down, rx, hand, de, got, gone>>

-----------------------------------------------------------------------------
(* reord_deinit_sta, in a thread that removes the station or the bus.      *)

BusDown ==
    /\ ~down /\ down' = TRUE
    /\ UNCHANGED <<net, free, ctl, buf, clock, rx, hand, de, hist>>

DeinitStart ==
    /\ de = "idle" /\ ctl.linked
    /\ Use("deinit")
    /\ de' = IF ctl.enable THEN "timer" ELSE "list"
    /\ ctl' = [ctl EXCEPT !.enable = FALSE]
    /\ UNCHANGED <<air, free, buf, clock, down, rx, hand, hist>>

DeinitStopTimer ==
    /\ de = "timer" /\ StopTimer /\ de' = "work"
    /\ UNCHANGED <<net, free, ctl, buf, down, rx, hand, hist>>

DeinitCancelWork ==
    /\ de = "work" /\ CancelWork /\ de' = "list"
    /\ UNCHANGED <<net, free, ctl, buf, down, rx, hand, hist>>

DeinitList ==
    /\ de = "list" /\ de' = "free"
    /\ gone' = gone \cup ToSet(buf)
    /\ buf' = <<>> /\ free' = free + Len(buf)
    /\ UNCHANGED <<net, ctl, clock, down, rx, hand, got, out, passed>>

\* Something still refers to the control that is about to be freed
InUse == rx # "idle" \/ timer \/ irq \/ work \/ worker \/ buf # <<>>

\* list_del and kfree
DeinitFree ==
    /\ de = "free" /\ ~InUse /\ de' = "idle"
    /\ ctl' = Absent
    /\ UNCHANGED <<net, free, buf, clock, down, rx, hand, hist>>

\* What the driver does once memory in use is gone is undefined, so the
\* modelled behaviour ends here: no thread, timer or work goes on.
DeinitDangling ==
    /\ de = "free" /\ InUse /\ de' = "dangling"
    /\ ctl' = Absent /\ rx' = "undefined"
    /\ timer' = FALSE /\ irq' = FALSE /\ work' = FALSE /\ worker' = FALSE
    /\ UNCHANGED <<net, free, buf, down, hand, hist>>

-----------------------------------------------------------------------------
BusThread ==
    \/ \E n \in Frames, acked \in BOOLEAN :
          ReceiveDirect(n, acked) \/ ReceiveNoControl(n, acked) \/ Receive(n, acked)
    \/ ReceiveNoDescriptor
    \/ ProcessDisabled \/ ProcessLate \/ ProcessCopy \/ ProcessFrame
    \/ FlushLookup \/ FlushBuffer \/ FlushStopTimer \/ FlushCancelWork

Timeout == TimerExpires \/ TimeoutHandler \/ WorkStarts \/ TimeoutWorker

Teardown ==
    \/ DeinitStart \/ DeinitStopTimer \/ DeinitCancelWork \/ DeinitList
    \/ DeinitFree \/ DeinitDangling

Next == GiveUp \/ BusThread \/ Timeout \/ BusDown \/ Teardown

Spec == Init /\ [][Next]_vars

\* The timer expires, softirqs and the workqueue run.  Nothing else has to.
FairSpec ==
    /\ Spec
    /\ WF_vars(TimerExpires) /\ WF_vars(TimeoutHandler)
    /\ WF_vars(WorkStarts) /\ WF_vars(TimeoutWorker)

-----------------------------------------------------------------------------
(* Properties.                                                             *)

\* Nothing reaches the stack ahead of an earlier frame, unless the receiver
\* had decided not to wait for that one: it was before the first frame, below
\* a window moved by a newer frame, or below a buffer that timed out or was
\* flushed.  A teardown in progress may let frames that still wait be overtaken
\* (the control is enabled afresh over the old buffer), but they are out or
\* freed when it ends.  The sequence numbers wrap around within the stream.
Settled == out \cup passed \cup gone \cup (IF de = "idle" THEN {} ELSE Waiting)
InOrder == \A n \in out \ Direct : Below(n) \subseteq Settled

\* Between two steps under the lock the buffer is in stream order without
\* copies and, unless a teardown is under way, holds only frames above ind_sn
\* and inside the window that starts there.
BufferOrdered ==
    /\ \A i, j \in 1..Len(buf) : i < j => buf[i] < buf[j]
    /\ de = "idle" /\ ctl.linked =>
         \A n \in Waiting : (Sn(n) - ctl.ind) % SeqSpace \in 1..(Window - 1)

\* As long as the control stays enabled and no teardown is under way ind_sn never
\* moves back, around the wrap included: a frame already given cannot be waited
\* for, or buffered and given, once more.
NeverBack ==
    [][de = "idle" /\ ctl.enable /\ ctl'.enable /\ FirstSn \notin {ctl.ind, ctl'.ind}
         => (ctl'.ind - ctl.ind) % SeqSpace < SeqSpace \div 2]_ctl

\* Every frame that got a descriptor is with the stack, in the buffer or in
\* hand; only a teardown or the rule for late RTP frames frees one.
NothingLost ==
    /\ got \subseteq out \cup Waiting \cup gone \cup {hand}
    /\ gone \ Rtp # {} => used["deinit"] > 0

\* No descriptor leaks: each is free, in the buffer or in hand.
PoolWhole ==
    rx # "undefined" => free + Len(buf) + (IF rx = "found" THEN 1 ELSE 0) = PoolSize

\* While a frame waits, something is on its way to give up on the gap: the
\* timer, its handler or the work.  Only a bus that is down (the handler
\* returns early) or a teardown may leave frames in the buffer.
GapWatched ==
    buf # <<>> /\ de = "idle" /\ ~down => timer \/ irq \/ work \/ worker

\* No frame waits forever, however the gap before it came about: once frames
\* wait the buffer is empty again at some later time.
Drained == buf # <<>> ~> (buf = <<>> \/ down \/ de # "idle")
=============================================================================
