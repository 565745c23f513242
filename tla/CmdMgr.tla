------------------------------- MODULE CmdMgr -------------------------------
(***************************************************************************)
(* The command manager of the aic8800 Wi-Fi driver: rwnx_send_msg and the  *)
(* pool of command structures (rwnx_msg_tx.c), cmd_mgr_queue, the worker   *)
(* cmd_mgr_task_process, cmd_mgr_msgind, cmd_mgr_drain (rwnx_cmds.c), and  *)
(* the firmware at the other end of the USB bus.                           *)
(*                                                                         *)
(* A call is one execution of rwnx_send_msg in the context of some kernel  *)
(* thread; it is made once, so the set Calls bounds a behaviour.  Every    *)
(* section of code under cmd_mgr->lock is two steps, Acquire and the body  *)
(* that ends in the unlock: the body is atomic only as long as the lock    *)
(* really excludes the others, and the code has one path on which it does  *)
(* not.                                                                    *)
(***************************************************************************)
EXTENDS Naturals, Sequences, FiniteSets, SequencesExt

CONSTANTS Calls,        \* the calls of rwnx_send_msg a behaviour may make
          Worker,       \* the thread of cmd_wq
          Rx,           \* the thread that handles the messages of the firmware
          Remover,      \* the thread that takes the device away
          ArraySize,    \* RWNX_CMD_ARRAY_SIZE, the number of entries of cmd_array
          MaxQueued,    \* cmd_mgr->max_queue_sz
          Cfms,         \* the ids of the confirmations
          Kinds,        \* the kinds of message the calls send
          None,         \* no thread, no slot, no message
          MayTimeout,   \* a confirmation may come later than the caller waits
          MayFail,      \* a transmission may be refused, fail or time out
          MayKill,      \* a caller may receive a fatal signal
          MayRemove     \* the device may be unplugged

Threads == Calls \cup {Worker, Rx, Remover}
Senders == Calls \cup {Worker}
Slots == 0..(ArraySize - 1)

\* route: "queue" is rwnx_send_msg with a confirmation, "defer" goes through
\*        cmd_mgr_queue_force_defer, "direct" asks for no confirmation;
\* reply: the caller passes a buffer for the confirmation (e2a_msg);
\* late:  one of the two messages cmd_mgr_queue always leaves to the worker.
Kind == [route : {"queue", "defer", "direct"}, reply : BOOLEAN,
         late : BOOLEAN, cfm : Cfms]

ASSUME ThreadsAssumption ==
    /\ Worker # Rx /\ Worker # Remover /\ Rx # Remover
    /\ {Worker, Rx, Remover} \cap Calls = {}
    /\ None \notin Threads \cup Slots /\ "lost" \notin Threads \cup {None}
    /\ "NULL" \notin Threads \cup {None}

ASSUME KindsAssumption ==
    /\ Kinds \subseteq Kind
    /\ \A k \in Kinds : k.reply => k.route = "queue" /\ ~k.late

ASSUME BoundsAssumption ==
    /\ MaxQueued \in Nat \ {0} /\ ArraySize \in Nat
    /\ {MayTimeout, MayFail, MayKill, MayRemove} \subseteq BOOLEAN

Flags == {"WAIT_PUSH", "WAIT_CFM", "DONE"}
Waiting == {"WAIT_PUSH", "WAIT_CFM"}

VARIABLES
    \* --- struct rwnx_cmd_mgr
    state,      \* "INITED", "CRASHED" or "DEINIT"
    lock,       \* the thread that took the spinlock, or None
    cmds,       \* the list of commands, as a sequence of slots
    queue_sz,
    work,       \* cmdWork is queued
    \* --- cmd_array
    used,       \* the used flag of every slot
    cmd,        \* the call whose id, reqid, a2e_msg and e2a_msg a slot holds
    flags,      \* the flags of every slot; nothing resets them on reuse
    done,       \* the count of every slot's completion
    \* --- the bus and the firmware
    bus,        \* usbdev->state: "UP" or not
    cmd_buf,    \* the message in the one buffer all senders share, or "NULL"
    urb,        \* the message the host controller has in msg_out_urb, or None
    finished,   \* usbdev->msg_finished
    failed,     \* a transmission was refused, has failed or timed out (history)
    fw,         \* the calls whose request the firmware has still to confirm
    rxmsg,      \* the confirmation Rx is handling, named by its call
    \* --- the threads
    pc,
    again,      \* the senders that transmit for the second time
    slot,       \* the command a call or the worker is at work on
    kind,       \* what a call sends
    ret,        \* what a call returned
    confirmedBy \* the call whose confirmation was given to a call's command

mgr == <<state, lock, cmds, queue_sz, work>>
pool == <<used, cmd, flags, done>>
bulk == <<cmd_buf, urb, finished, failed>>
link == <<bus, bulk, fw, rxmsg>>
calls == <<again, slot, kind, ret, confirmedBy>>
vars == <<mgr, pool, link, pc, calls>>

-----------------------------------------------------------------------------
(* Where a thread waits for the lock, and where it is once it has it. *)

Locking == {"enqLock", "spinLock", "delLock", "crashLock", "lookLock",
            "indLock", "drainLock"}

Critical == {"enqueue", "check", "delete", "crash", "look", "indicate", "drain"}

Entered(l) == CASE l = "enqLock"   -> "enqueue"
                [] l = "spinLock"  -> "check"
                [] l = "delLock"   -> "delete"
                [] l = "crashLock" -> "crash"
                [] l = "lookLock"  -> "look"
                [] l = "indLock"   -> "indicate"
                [] l = "drainLock" -> "drain"

Loc == Locking \cup Critical \cup
       {"idle", "spin", "unheld", "wait", "wake", "rewake", "clear",
        "fill", "write", "send", "submit", "sending", "kill",
        "cancel", "free", "stopRx", "flush", "returned", "hung", "oops"}

TypeOK ==
    /\ state \in {"INITED", "CRASHED", "DEINIT"}
    /\ lock \in Threads \cup {None, "lost"}
    /\ cmds \in Seq(Slots) /\ queue_sz \in Nat /\ work \in BOOLEAN
    /\ used \in [Slots -> BOOLEAN]
    /\ cmd \in [Slots -> Calls \cup {None}]
    /\ flags \in [Slots -> SUBSET Flags]
    /\ done \in [Slots -> Nat]
    /\ bus \in {"UP", "DOWN"}
    /\ cmd_buf \in Calls \cup {None, "NULL"} /\ urb \in Calls \cup {None, "NULL"}
    /\ finished \in BOOLEAN /\ failed \in BOOLEAN
    /\ fw \in Seq(Calls) /\ rxmsg \in Calls \cup {None}
    /\ pc \in [Threads -> Loc]
    /\ again \subseteq Senders
    /\ slot \in [Senders -> Slots \cup {None}]
    /\ kind \in [Calls -> Kinds]
    /\ ret \in [Calls -> {"none", "0", "EPIPE", "ENOMEM", "ETIMEDOUT"}]
    /\ confirmedBy \in [Calls -> Calls \cup {None}]

-----------------------------------------------------------------------------
(* rwnx_cmd_mgr_init and rwnx_init_cmd_array; every call is yet to come. *)

Init ==
    /\ state = "INITED" /\ lock = None
    /\ cmds = <<>> /\ queue_sz = 0 /\ work = FALSE
    /\ used = [s \in Slots |-> FALSE]
    /\ cmd = [s \in Slots |-> None]
    /\ flags = [s \in Slots |-> {}]
    /\ done = [s \in Slots |-> 0]
    /\ bus = "UP" /\ cmd_buf = None /\ urb = None
    /\ finished = FALSE /\ failed = FALSE
    /\ fw = <<>> /\ rxmsg = None
    /\ pc = [t \in Threads |-> "idle"]
    /\ again = {}
    /\ slot = [t \in Senders |-> None]
    /\ kind \in [Calls -> Kinds]
    /\ ret = [c \in Calls |-> "none"]
    /\ confirmedBy = [c \in Calls |-> None]

Goto(t, l) == pc' = [pc EXCEPT ![t] = l]
Message(s) == kind[cmd[s]]

\* A slot is given back, and rwnx_send_msg returns r.
FreeSlot(s) == used' = [used EXCEPT ![s] = FALSE]
Return(c, r) == Goto(c, "returned") /\ ret' = [ret EXCEPT ![c] = r]

\* spin_lock_bh and spin_unlock_bh, a ticket lock on this machine.  An unlock
\* gives the lock to the next ticket, whoever holds it; one that finds the
\* lock free passes over the next ticket, and its thread spins for ever.
Acquire(t) ==
    /\ pc[t] \in Locking
    /\ \/ lock = None /\ lock' = t /\ Goto(t, Entered(pc[t]))
       \/ lock = "lost" /\ lock' = None /\ Goto(t, "hung")
    /\ UNCHANGED <<state, cmds, queue_sz, work, pool, link, calls>>

Unlock == lock' = IF lock \in Threads THEN None ELSE "lost"

\* queue_sz after a list_del; the variant forgets the count.
UncountNone == queue_sz
Uncount == queue_sz - 1

-----------------------------------------------------------------------------
(* rwnx_send_msg, rwnx_send_msg1 and cmd_mgr_queue *)

Free == {s \in Slots : ~used[s]}

\* rwnx_send_msg up to the choice of the route.  Flags other than REQ_CFM,
\* which every queued command has, stay as the last user of the slot left
\* them.  Without a free slot the code dereferences the null pointer.
Start(c) ==
    /\ pc[c] = "idle"
    /\ IF bus = "DOWN"
       THEN Return(c, "0") /\ UNCHANGED <<pool, slot>>
       ELSE \/ \E s \in Free :
                 /\ \A r \in Free : s <= r
                 /\ used' = [used EXCEPT ![s] = TRUE]
                 /\ cmd' = [cmd EXCEPT ![s] = c]
                 /\ slot' = [slot EXCEPT ![c] = s]
                 /\ Goto(c, CASE kind[c].route = "direct" -> "fill"
                              [] kind[c].reply -> "spin"
                              [] OTHER -> "enqLock")
                 /\ UNCHANGED <<flags, done, ret>>
            \/ Free = {} /\ Goto(c, "oops") /\ UNCHANGED <<pool, slot, ret>>
    /\ UNCHANGED <<mgr, link, again, kind, confirmedBy>>

\* A caller with a reply buffer polls until the list is empty and then keeps
\* the lock; it looks at the state before it takes the lock, and leaves the
\* loop without the lock when the manager has crashed.
\* Variant: the list is polled without the lock.
SpinNoLock(c) ==
    /\ pc[c] = "spin"
    /\ Goto(c, IF state = "CRASHED" THEN "unheld" ELSE "check")
    /\ UNCHANGED <<mgr, pool, link, calls>>

Spin(c) ==
    /\ pc[c] = "spin"
    /\ Goto(c, IF state = "CRASHED" THEN "unheld" ELSE "spinLock")
    /\ UNCHANGED <<mgr, pool, link, calls>>

SpinAgain(c) ==
    /\ pc[c] = "check" /\ cmds # <<>>
    /\ Unlock /\ Goto(c, "spin")
    /\ UNCHANGED <<state, cmds, queue_sz, work, pool, link, calls>>

\* The check of the state after the loop: it returns through an unlock.
UnlockUnheld(c) ==
    /\ pc[c] = "unheld"
    /\ Unlock /\ FreeSlot(slot[c]) /\ Return(c, "EPIPE")
    /\ UNCHANGED <<state, cmds, queue_sz, work, cmd, flags, done, link,
                   again, slot, kind, confirmedBy>>

\* Where a command may be put on the list; the variant does not wait for the
\* empty list.
AtEnqueueAnyway(c) == pc[c] \in {"enqueue", "check"}
AtEnqueue(c) == pc[c] = "enqueue" \/ (pc[c] = "check" /\ cmds = <<>>)

\* Any queueing is refused while the list is full or once the manager has
\* crashed.
Full == cmds # <<>> /\ queue_sz = MaxQueued
Accepting == state # "CRASHED" /\ ~Full

Refuse(c) ==
    /\ AtEnqueue(c)
    /\ \/ state = "CRASHED" /\ Return(c, "EPIPE")
       \/ state # "CRASHED" /\ Full /\ Return(c, "ENOMEM")
    /\ Unlock /\ FreeSlot(slot[c])
    /\ UNCHANGED <<state, cmds, queue_sz, work, cmd, flags, done, link,
                   again, slot, kind, confirmedBy>>

\* Variant: only the sending of the last command is waited for.
LeftToWorkerSent(c) ==
    \/ kind[c].route = "defer" \/ kind[c].late
    \/ cmds # <<>> /\ "WAIT_PUSH" \in flags[Last(cmds)]

\* Who sends the command: the worker, when the last command of the list is
\* still waiting for something or the message is one of those always left to
\* it, and otherwise the caller.
LeftToWorker(c) ==
    \/ kind[c].route = "defer" \/ kind[c].late
    \/ cmds # <<>> /\ flags[Last(cmds)] \cap Waiting # {}

Enqueue(c) ==
    /\ AtEnqueue(c) /\ Accepting
    /\ LET s == slot[c] IN
       /\ flags' = [flags EXCEPT ![s] = @ \cup {"WAIT_CFM"} \cup
                        IF LeftToWorker(c) THEN {"WAIT_PUSH"} ELSE {}]
       /\ done' = [done EXCEPT ![s] = 0]
       /\ cmds' = Append(cmds, s)
    /\ queue_sz' = queue_sz + 1
    /\ Unlock /\ Goto(c, IF LeftToWorker(c) THEN "wake" ELSE "fill")
    /\ UNCHANGED <<state, work, used, cmd, link, calls>>

\* Variants: the worker is woken for an empty queue only; the slot is freed.
WakeTooFew(c) ==
    /\ pc[c] = "wake"
    /\ work' = (work \/ queue_sz < 1) /\ Return(c, "0")
    /\ UNCHANGED <<state, lock, cmds, queue_sz, pool, link, again,
                   slot, kind, confirmedBy>>

WakeAndFree(c) ==
    /\ pc[c] = "wake"
    /\ work' = (work \/ kind[c].route = "defer" \/ queue_sz <= 1)
    /\ Return(c, "0") /\ FreeSlot(slot[c])
    /\ UNCHANGED <<state, lock, cmds, queue_sz, cmd, flags, done, link,
                   again, slot, kind, confirmedBy>>

\* A command left to the worker is the worker's from here on.  The size is
\* read after the unlock; cmd_mgr_queue_force_defer does not look at it.
Wake(c) ==
    /\ pc[c] = "wake"
    /\ work' = (work \/ kind[c].route = "defer" \/ queue_sz <= 1)
    /\ Return(c, "0")
    /\ UNCHANGED <<state, lock, cmds, queue_sz, pool, link, again,
                   slot, kind, confirmedBy>>

-----------------------------------------------------------------------------
(* aicwf_set_cmd_tx and aicwf_usb_bus_txmsg, of a caller or of the worker.   *)
(* All senders share one buffer, one URB and one flag, and nothing but the   *)
(* queue keeps two of them apart.                                            *)

Sent(t) == IF t \in Calls /\ kind[t].route = "direct" THEN "returned" ELSE "wait"

\* What follows the transmission, however it ended: aicwf_set_cmd_tx returns
\* nothing, and a message without confirmation is done.
AfterSending(t) ==
    /\ again' = again \ {t}
    /\ IF Sent(t) = "returned"
       THEN Return(t, "0") /\ FreeSlot(slot[t])
       ELSE Goto(t, "wait") /\ UNCHANGED <<ret, used>>

\* aicwf_set_cmd_tx answers the first -EIO by transmitting the buffer again, as
\* it then is, and ignores the result of the second transmission.
Eio(t) ==
    \/ t \in again /\ AfterSending(t)
    \/ t \notin again /\ again' = again \cup {t}
       /\ Goto(t, "send") /\ UNCHANGED <<ret, used>>

\* aicwf_set_cmd_tx looks at the bus ...
Fill(t) ==
    /\ pc[t] = "fill"
    /\ \/ bus = "DOWN" /\ AfterSending(t)
       \/ bus = "UP" /\ Goto(t, "write") /\ UNCHANGED <<again, ret, used>>
    /\ UNCHANGED <<mgr, cmd, flags, done, link, slot, kind, confirmedBy>>

\* ... and fills the buffer.  When the removal frees it in between, the code
\* writes through a null pointer, or goes on in freed memory.
Write(t) ==
    /\ pc[t] = "write"
    /\ \/ cmd_buf # "NULL" /\ cmd_buf' = cmd[slot[t]] /\ Goto(t, "send")
       \/ cmd_buf = "NULL" /\ UNCHANGED cmd_buf /\ pc' \in
              {[pc EXCEPT ![t] = l] : l \in {"send", "oops"}}
    /\ UNCHANGED <<mgr, pool, bus, urb, finished, failed, fw, rxmsg, calls>>

\* aicwf_usb_bus_txmsg up to the submission: it clears the flag, also that of
\* a sender that still waits for it.
TxMsg(t) ==
    /\ pc[t] = "send"
    /\ \/ bus = "DOWN" /\ Eio(t) /\ UNCHANGED finished
       \/ bus = "UP" /\ finished' = FALSE /\ Goto(t, "submit")
          /\ UNCHANGED <<again, ret, used>>
    /\ UNCHANGED <<mgr, cmd, flags, done, bus, cmd_buf, urb, failed, fw, rxmsg,
                   slot, kind, confirmedBy>>

\* usb_submit_urb: it is refused while the URB is with the controller, and may
\* be refused for reasons of its own, of which only -EIO is tried again.
Submit(t) ==
    /\ pc[t] = "submit"
    /\ \/ /\ urb = None
          /\ urb' = cmd_buf /\ Goto(t, "sending")
          /\ UNCHANGED <<again, ret, used, failed>>
       \/ /\ MayFail \/ bus = "DOWN" \/ urb # None
          /\ failed' = TRUE /\ UNCHANGED urb
          /\ AfterSending(t) \/ (MayFail /\ Eio(t))
    /\ UNCHANGED <<mgr, cmd, flags, done, bus, cmd_buf, finished, fw, rxmsg,
                   slot, kind, confirmedBy>>

\* The transfer of some sender is complete, and this one has noticed.
Sending(t) ==
    /\ pc[t] = "sending" /\ finished
    /\ AfterSending(t)
    /\ UNCHANGED <<mgr, cmd, flags, done, link, slot, kind, confirmedBy>>

\* CMD_TX_TIMEOUT passes: whatever is in the URB is cancelled.
TxTimedOut(t) ==
    /\ pc[t] = "sending" /\ ~finished
    /\ MayFail \/ bus = "DOWN"
    /\ failed' = TRUE /\ Goto(t, "kill")
    /\ UNCHANGED <<mgr, pool, bus, cmd_buf, urb, finished, fw, rxmsg, calls>>

\* The firmware has read a message, that of the submission or the one that is
\* in the buffer meanwhile, and owes a confirmation if it asks for one.
Arrives ==
    \E m \in {urb, cmd_buf} :
        fw' = IF m \in Calls /\ kind[m].route # "direct" THEN Append(fw, m) ELSE fw

\* usb_kill_urb gives the URB back, before or after the device has read the
\* message; aicwf_usb_send_msg_complete takes it for a success either way.
Cancelled ==
    \/ urb = None /\ UNCHANGED <<urb, finished, fw>>
    \/ urb # None /\ urb' = None /\ finished' = TRUE /\ (Arrives \/ UNCHANGED fw)

KillUrb(t) ==
    /\ pc[t] = "kill"
    /\ Cancelled /\ Eio(t)
    /\ UNCHANGED <<mgr, cmd, flags, done, bus, cmd_buf, failed, rxmsg, slot,
                   kind, confirmedBy>>

\* The host controller gives the URB back: aicwf_usb_send_msg_complete does not
\* look at its status.
Transferred ==
    /\ urb # None /\ urb' = None /\ finished' = TRUE
    /\ \/ Arrives /\ UNCHANGED failed
       \/ MayFail /\ failed' = TRUE /\ UNCHANGED fw
    /\ UNCHANGED <<mgr, pool, bus, cmd_buf, rxmsg, pc, calls>>

-----------------------------------------------------------------------------
(* wait_for_completion_killable_timeout and what follows it *)

Completed(t) ==
    /\ pc[t] = "wait" /\ done[slot[t]] > 0
    /\ done' = [done EXCEPT ![slot[t]] = @ - 1]
    /\ Goto(t, "delLock")
    /\ UNCHANGED <<mgr, used, cmd, flags, link, calls>>

\* A fatal signal: the result is not zero, so it is taken for a completion.
\* A worker of a workqueue gets no signals.
Killed(c) ==
    /\ MayKill /\ pc[c] = "wait"
    /\ Goto(c, "delLock")
    /\ UNCHANGED <<mgr, pool, link, calls>>

TimedOut(t) ==
    /\ MayTimeout /\ pc[t] = "wait" /\ done[slot[t]] = 0
    /\ Goto(t, "crashLock")
    /\ UNCHANGED <<mgr, pool, link, calls>>

\* list_del of an entry that is on no list follows a poisoned pointer.
Delete(t) ==
    /\ pc[t] = "delete"
    /\ \/ /\ \E i \in 1..Len(cmds) :
             cmds[i] = slot[t] /\ cmds' = RemoveAt(cmds, i)
          /\ queue_sz' = Uncount
          /\ Unlock /\ FreeSlot(slot[t])
          /\ Goto(t, IF t = Worker THEN "lookLock" ELSE "rewake")
       \/ /\ slot[t] \notin ToSet(cmds)
          /\ Goto(t, "oops") /\ UNCHANGED <<lock, cmds, queue_sz, used>>
    /\ UNCHANGED <<state, work, cmd, flags, done, link, calls>>

\* Variant: as if the deleted command were still on the list.
RewakeTooFew(c) ==
    /\ pc[c] = "rewake"
    /\ work' = (work \/ (Len(cmds) > 1 /\ bus = "UP"))
    /\ Return(c, "0")
    /\ UNCHANGED <<state, lock, cmds, queue_sz, pool, link, again,
                   slot, kind, confirmedBy>>

Rewake(c) ==
    /\ pc[c] = "rewake"
    /\ work' = (work \/ (cmds # <<>> /\ bus = "UP"))
    /\ Return(c, "0")
    /\ UNCHANGED <<state, lock, cmds, queue_sz, pool, link, again,
                   slot, kind, confirmedBy>>

\* cmd_complete: sets DONE, and completes the command unless it still waits
\* for its confirmation; the second argument is the flags before the call.
CmdComplete(s, f) ==
    /\ flags' = [flags EXCEPT ![s] = f \cup {"DONE"}]
    /\ done' = [done EXCEPT ![s] = IF "WAIT_CFM" \in f THEN @ ELSE @ + 1]

\* The command stays on the list and counted; rwnx_send_msg frees its slot.
Crash(t) ==
    /\ pc[t] = "crash"
    /\ state' = "CRASHED"
    /\ IF "DONE" \in flags[slot[t]] THEN UNCHANGED <<flags, done>>
       ELSE CmdComplete(slot[t], flags[slot[t]])
    /\ Unlock
    /\ IF t = Worker THEN Goto(t, "lookLock") /\ UNCHANGED <<used, ret>>
       ELSE Return(t, "ETIMEDOUT") /\ FreeSlot(slot[t])
    /\ UNCHANGED <<cmds, queue_sz, work, cmd, link, again, slot, kind,
                   confirmedBy>>

-----------------------------------------------------------------------------
(* cmd_mgr_task_process, the worker *)

StartWork ==
    /\ pc[Worker] = "idle" /\ work
    /\ work' = FALSE /\ Goto(Worker, "lookLock")
    /\ UNCHANGED <<state, lock, cmds, queue_sz, pool, link, calls>>

\* Only the first command of the list is looked at; the variant takes it in
\* any case.
UnsentAnyway(s) == TRUE
Unsent(s) == "WAIT_PUSH" \in flags[s]

Look ==
    /\ pc[Worker] = "look"
    /\ Unlock
    /\ IF cmds # <<>> /\ Unsent(Head(cmds))
       THEN slot' = [slot EXCEPT ![Worker] = Head(cmds)] /\ Goto(Worker, "clear")
       ELSE Goto(Worker, "idle") /\ UNCHANGED slot
    /\ UNCHANGED <<state, cmds, queue_sz, work, pool, link, again, kind, ret,
                   confirmedBy>>

\* After the unlock.
Clear ==
    /\ pc[Worker] = "clear"
    /\ flags' = [flags EXCEPT ![slot[Worker]] = @ \ {"WAIT_PUSH"}]
    /\ Goto(Worker, "fill")
    /\ UNCHANGED <<mgr, used, cmd, done, link, calls>>

-----------------------------------------------------------------------------
(* The firmware's confirmations, and cmd_mgr_msgind *)

\* Until the removal stops the threads that receive.
Confirm ==
    /\ pc[Rx] = "idle" /\ fw # <<>>
    /\ pc[Remover] \in {"idle", "cancel", "free", "stopRx"}
    /\ rxmsg' = Head(fw) /\ fw' = Tail(fw)
    /\ Goto(Rx, "indLock")
    /\ UNCHANGED <<mgr, pool, bus, bulk, calls>>

\* The first command of the list that waits for a confirmation of this id; the
\* variants compare the ids only, or no ids at all.
ConfirmableFirst(s) == "WAIT_CFM" \in flags[s]
ConfirmableAgain(s) == Message(s).cfm = kind[rxmsg].cfm
Confirmable(s) == Message(s).cfm = kind[rxmsg].cfm /\ "WAIT_CFM" \in flags[s]

Indicate ==
    /\ pc[Rx] = "indicate"
    /\ LET hits == {i \in 1..Len(cmds) : Confirmable(cmds[i])} IN
       \/ hits = {} /\ UNCHANGED <<flags, done, confirmedBy>>
       \/ \E i \in hits :
             /\ \A j \in hits : i <= j
             /\ CmdComplete(cmds[i], flags[cmds[i]] \ {"WAIT_CFM"})
             /\ confirmedBy' = [confirmedBy EXCEPT ![cmd[cmds[i]]] = rxmsg]
    /\ rxmsg' = None
    /\ Unlock /\ Goto(Rx, "idle")
    /\ UNCHANGED <<state, cmds, queue_sz, work, used, cmd, bus, bulk, fw,
                   again, slot, kind, ret>>

-----------------------------------------------------------------------------
(* aicwf_bus_deinit: the bus is stopped, the URBs are cancelled, the shared  *)
(* buffer is freed, the threads that receive are stopped, and the manager    *)
(* goes last.                                                                *)

Stop ==
    /\ MayRemove /\ pc[Remover] = "idle"
    /\ bus' = "DOWN" /\ Goto(Remover, "cancel")
    /\ UNCHANGED <<mgr, pool, bulk, fw, rxmsg, calls>>

CancelUrbs ==
    /\ pc[Remover] = "cancel"
    /\ Cancelled /\ Goto(Remover, "free")
    /\ UNCHANGED <<mgr, pool, bus, cmd_buf, failed, rxmsg, calls>>

FreeBuffer ==
    /\ pc[Remover] = "free"
    /\ cmd_buf' = "NULL" /\ Goto(Remover, "stopRx")
    /\ UNCHANGED <<mgr, pool, bus, urb, finished, failed, fw, rxmsg, calls>>

StopRx ==
    /\ pc[Remover] = "stopRx" /\ pc[Rx] = "idle"
    /\ Goto(Remover, "drainLock")
    /\ UNCHANGED <<mgr, pool, link, calls>>

\* cmd_mgr_drain takes every command off the list, completes it, and leaves
\* queue_sz alone.
Drain ==
    /\ pc[Remover] = "drain"
    /\ done' = [s \in Slots |-> IF s \in ToSet(cmds) THEN done[s] + 1 ELSE done[s]]
    /\ cmds' = <<>>
    /\ Unlock /\ Goto(Remover, "flush")
    /\ UNCHANGED <<state, queue_sz, work, used, cmd, flags, link, calls>>

\* flush_workqueue waits for the worker; the manager is then zeroed and the
\* model ends, for what follows uses freed memory.
Flush ==
    /\ pc[Remover] = "flush" /\ pc[Worker] = "idle" /\ ~work
    /\ state' = "DEINIT" /\ lock' = None /\ cmds' = <<>> /\ queue_sz' = 0
    /\ Goto(Remover, "returned")
    /\ UNCHANGED <<work, pool, link, calls>>

-----------------------------------------------------------------------------
CallStep(c) ==
    \/ Spin(c) \/ SpinAgain(c) \/ UnlockUnheld(c)
    \/ Refuse(c) \/ Enqueue(c) \/ Wake(c) \/ Rewake(c)

SenderStep(t) ==
    \/ Fill(t) \/ Write(t) \/ TxMsg(t) \/ Submit(t)
    \/ Sending(t) \/ TxTimedOut(t) \/ KillUrb(t)
    \/ Completed(t) \/ TimedOut(t) \/ Delete(t) \/ Crash(t)

WorkerStep == StartWork \/ Look \/ Clear
RxStep == Confirm \/ Indicate
RemoverStep == CancelUrbs \/ FreeBuffer \/ StopRx \/ Drain \/ Flush

\* What a thread does of its own accord once it has begun.
Step(t) ==
    \/ Acquire(t)
    \/ t \in Calls /\ CallStep(t)
    \/ t \in Senders /\ SenderStep(t)
    \/ t = Worker /\ WorkerStep
    \/ t = Rx /\ RxStep
    \/ t = Remover /\ RemoverStep

Next ==
    /\ state # "DEINIT"
    /\ \/ \E t \in Threads : Step(t)
       \/ \E c \in Calls : Start(c) \/ Killed(c)
       \/ Transferred \/ Stop

Spec == Init /\ [][Next]_vars

\* The scheduler runs every thread, the ticket lock serves those that wait,
\* the controller gives back what it has, the firmware answers what it received
\* and timers fire.  Nothing obliges a caller to call, a user to kill, or the
\* device to be unplugged.
Fairness ==
    /\ \A t \in Threads : SF_vars(state # "DEINIT" /\ Step(t))
    /\ WF_vars(state # "DEINIT" /\ Transferred)

FairSpec == Spec /\ Fairness

-----------------------------------------------------------------------------
(* What is promised.  The timeout of one command ends the service: the       *)
(* manager is CRASHED for good, and what is promised until then is weakened. *)

Working == state = "INITED"
OnList == ToSet(cmds)

\* Until a command times out, whoever is between spin_lock_bh and
\* spin_unlock_bh of the manager holds its lock.
MutualExclusion ==
    Working => \A t \in Threads : pc[t] \in Critical => lock = t

\* The same without the condition: what cmd_complete asserts with
\* lockdep_assert_held (rwnx_cmds.c:48) for the threads that may call it.
LockHeldInComplete ==
    \A t \in Threads : pc[t] \in {"crash", "indicate"} => lock = t

\* Until a timeout or the drain, the list holds no command twice and none
\* whose slot was given back, and queue_sz, by which commands are refused,
\* counts it and respects the limit.
ListIntact ==
    Working /\ bus = "UP" =>
        /\ IsInjective(cmds)
        /\ \A s \in OnList : used[s]
        /\ queue_sz = Len(cmds)
        /\ queue_sz <= MaxQueued

\* A slot belongs to one thread: no two calls, nor a call and the worker,
\* are at work on the same command, not even after a timeout.
AtWork(t) == pc[t] \in {"spin", "spinLock", "check", "unheld", "enqLock", "enqueue",
                        "clear", "fill", "write", "send", "submit", "sending",
                        "kill", "wait", "delLock", "delete", "crashLock", "crash"}

SlotsApart ==
    \A t, u \in Senders :
        t # u /\ AtWork(t) /\ AtWork(u) => slot[t] # slot[u]

\* The command manager implements the service of CmdService: as long as nobody
\* kills a caller and no transmission goes wrong, every command is listed, sent,
\* answered and closed in this order, one is with the firmware at a time, a
\* confirmation reaches the very command it answers, and a caller with a reply
\* buffer reports success only with its answer.
IsListed(c) == \E s \in OnList : cmd[s] = c
Asked(c) == c \in ToSet(fw) \cup {rxmsg, urb}
PhaseOf(c) ==
    LET open == \E s \in OnList : cmd[s] = c /\ "WAIT_CFM" \in flags[s] IN
    CASE open /\ Asked(c)  -> "sent"
      [] open /\ ~Asked(c) -> "listed"
      [] ~open /\ IsListed(c) -> "answered"
      [] ~IsListed(c) /\ (pc[c] \in {"wake", "rewake"} \/ ret[c] = "0") -> "closed"
      [] OTHER -> "new"

Service == INSTANCE CmdService WITH
    phase <- [c \in Calls |-> PhaseOf(c)],
    waits <- {c \in Calls : kind[c].reply},
    success <- {c \in Calls : ret[c] = "0"},
    broken <- ~(Working /\ bus = "UP" /\ ~failed)

ServiceKept == Service!Spec

\* As long as a command with a reply buffer can be confirmed, the caller whose
\* buffer it is has not returned.
BufferAlive ==
    Working => \A s \in OnList :
        Message(s).reply /\ "WAIT_CFM" \in flags[s] => pc[cmd[s]] # "returned"

\* A caller with a reply buffer reports success only after a confirmation of
\* the id it waits for was given to its command, until the first timeout and as
\* long as nobody kills a caller, also when its request was sent twice, or never.
AnswerEarned ==
    Working /\ bus = "UP" =>
        \A c \in Calls :
            kind[c].reply /\ ret[c] = "0" =>
                /\ confirmedBy[c] # None
                /\ kind[confirmedBy[c]].cfm = kind[c].cfm

\* As long as every transmission goes well, what is handed to the controller is
\* the message of the thread that hands it over, the one URB is free for it, and
\* nobody fills the one buffer all senders share before the controller is done
\* with it.  The second transmission after a failure has no such claim: a
\* confirmation may have let another sender fill the buffer in between.
BufferUntouched ==
    bus = "UP" /\ ~failed =>
        /\ \A t \in Senders :
              pc[t] = "submit" => urb = None /\ cmd_buf = cmd[slot[t]]
        /\ urb # None => cmd_buf = urb

\* No thread dies in the driver or spins on the lock for ever.
NoOops == \A t \in Threads : pc[t] \notin {"oops", "hung"}

\* A message without confirmation is sent past the queue and may overwrite the
\* request in the shared buffer, whose sender then waits for an answer to a
\* request the firmware never saw.
NoBypass == \A c \in Calls : kind[c].route # "direct"

\* Every call that begins returns, if none bypasses the queue.
CallsReturn == NoBypass => []<>(\A c \in Calls : pc[c] \in {"idle", "returned"})

\* The list empties: the commands left to the worker are sent, although the
\* worker looks at the head of the list only and callers wake it only sometimes;
\* again if none bypasses the queue.
ListEmpties == NoBypass => []<>(cmds = <<>>)

\* "wait for cmd queue empty" (rwnx_cmds.c:156): whoever polls for the empty
\* list stops polling.
PollingEnds ==
    \A c \in Calls : pc[c] = "spin" ~> pc[c] \notin {"spin", "spinLock", "check"}
=============================================================================
