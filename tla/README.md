# A TLA+ model of debian-lyra

debian-lyra builds Debian images for the Luckfox Lyra boards (Rockchip RK3506) and ships the
packages those images need. This directory holds TLA+ specifications of the parts of it that keep
state and can go wrong in more ways than a test would try, TLC configurations that check them on
small instances, and proofs of what matters most for every value of the constants.
`PROJECT.json` lists the components, the runs, the mutants of every property, the source lines of
every definition, the hazards and the theorems.

Paths below are relative to the repository; `fdrv` stands for
`packages/aic8800/usr/src/aic8800-1.0.8/aic8800_fdrv`.

## 1. The system

| Component | State it keeps | Operations | What is hard | What makes it correct |
|---|---|---|---|---|
| Overlay tool, runs and installation (`packages/lyra-overlays/lyra_overlays/cli.py`, `build.py`) | installed configuration, overlay directory, backup, `30-lyra-overlays.conf`, the boot configuration; per run: options, temporary configuration and overlays | a run is Prepare, Config, Compile, Check, InstallOverlays, InstallConfig, InstallUBoot, each optional by options, repeated after a failed check | installation in place, file by file; crash or failure between any two writes; a run repeats itself with what the last try left | a run that reports success leaves all five in agreement; overlays of two configurations never mix; nothing unchecked is installed |
| Overlay tool, pin check (`build.py` class `Check`, `devicetree.py`) | the users of every pin found so far | walk over the tree, one entry per pin of each pinctrl group, verdict | order of the walk, pins named through different groups, disabled nodes, unreadable groups | passes only trees in which no pin is used by two nodes; refuses only trees with a real clash |
| Overlay tool, rules and configurations (`sources.py`, `resources.py`, `discover.py`, `interact.py`, `overlays/`) | the kconfiglib object | parse Lbuild, load and write configurations, evaluate conditions | data; warnings promoted to errors | the options of a board cannot be switched off |
| Wi-Fi driver, command manager (`fdrv/rwnx_cmds.c`, `rwnx_msg_tx.c`, `aicwf_usb.c`, `aicwf_txrxif.c`) | list of commands, counter, spinlock, state, pool of slots, one transmit buffer and URB, worker | send with or without confirmation, repeat a failed transmission, worker, indication of a confirmation, timeout, kill, drain | any number of callers, a worker, the receive thread and the removal of the device, all with their own idea of who sends the next command, over one buffer that nothing but the queue protects | as long as transmissions go well one request at a time, each met by its confirmation; whatever happens, slots have one owner and success needs an answer; callers return |
| Wi-Fi driver, USB transmission (`fdrv/aicwf_usb.c`, `aicwf_txrxif.c`) | free and posted URBs, flow-control flag, stopped queues, bus state, trigger of the thread | send, transmit thread, completion, suspend, resume | completion in interrupt context against senders and thread; failing submission; suspend between any two steps; unplugging | URBs are conserved; no posted frame is forgotten; stopped queues are woken again |
| Wi-Fi driver, USB reception (same files) | free URBs, queue of received frames, counter, trigger of the thread | completion, receive thread, refill, suspend, resume | the trigger depends on a counter that two threads change; refill from the completion and from the resume at once; overflow | URBs are conserved; reception stays armed; no queued frame is stranded |
| Wi-Fi driver, receive reordering (`fdrv/rwnx_rx.c`) | per station and TID: window start, list of frames, timer | frame, block-ack request, timer, flush, deletion of a station | 12-bit sequence numbers, timer against frames | frames are delivered once and in order |
| Wi-Fi driver, queues and credits (`rwnx_txq.c`, `rwnx_tx.c`), TCP filter (`aicwf_tcp_ack.c`), cfg80211 glue, firmware loader (`aic_load_fw`) | many | | | |
| Remote processor driver (`packages/rk3506-remoteproc`) | clocks, resets, enable bit, mailbox | probe, start, stop, remove, address translation | failing steps of start; order of release | never runs without clocks; resources balanced |
| USB gadget service (`packages/lyra-usb-gadget`) | the configfs tree of the gadget | enable, disable, install, uninstall | `set -e`: any command may end the script half-way | after uninstall a new enable works |
| Image build, device trees, system files (`build.sh`, `scripts/`, `configs/`, `overlays/`) | none at run time | straight sequences of external tools | | |

Interaction: the overlay tool runs the pin check as one of its steps; the device trees that the
boot loader assembles from its output are what the drivers bind to. Inside the Wi-Fi driver the
command manager, the data path and the reordering share the USB device and its state, and
otherwise interact through calls.

## 2. Modules

| Module | Models | Run by |
|---|---|---|
| `CmdService` | abstract: what the command manager promises its callers | as `ServiceKept` of `CmdMgr` |
| `CmdMgr` | the command manager, the pool of slots, the firmware as far as it answers | `MCCmdMgr` (four runs) |
| `CmdMgrProofs` | its safety properties and the refinement | |
| `UsbTx` | transmission over USB: senders, thread, completion, suspend and resume | `MCUsbTx` (one run) |
| `UsbTxProofs` | conservation of URBs, triggers, wake-ups | |
| `UsbRx` | reception over USB, on either endpoint | `MCUsbRx` (one run) |
| `UsbRxProofs` | conservation of URBs, armed reception, triggers | |
| `RxReorder` | receive reordering of one station and TID, with its timer, flush and teardown | `MCRxReorder` (one run) |
| `RxReorderProofs` | its safety properties | |
| `OverlayBuild` | runs of the overlay tool, with failures and crashes | `MCOverlayBuild` (one run) |
| `OverlayBuildProofs` | its safety properties | |
| `PinCheck` | the pin check | `MCPinCheck` (two runs) |
| `PinCheckProofs` | a passed tree shares no pin, a refused one does | |
| `ProcessorLife` | abstract: what a driver owes a remote processor | as `LifeKept` of `RemoteProc` |
| `RemoteProc` | probe, start, stop and remove of the remote processor | `MCRemoteProc` (one run) |
| `RemoteProcProofs` | its safety properties and the refinement | |
| `UsbGadget` | the gadget script and its unit over configfs | `MCUsbGadget` (one run) |
| `UsbGadgetProofs` | a bound gadget is whole; what an enable and an uninstall leave | |

`CmdMgr` implements `CmdService` and `RemoteProc` implements `ProcessorLife`, each by an `INSTANCE`
with a refinement mapping. The other modules are independent: the components meet only through calls that each module
takes as its inputs (`Clashing` of `OverlayBuild` is what `PinCheck` decides; the frames that
`UsbRx` hands over are the arrivals of `RxReorder`; `CmdMgr` sends on an endpoint of its own).

Every module has a type invariant `TypeOK`. Where it is proved (section 3) no run repeats it.

Definitions named after another one with a suffix (`SpinNoLock`, `RearmedNot`, ...) are
mutated forms of it, kept to show that each property notices a plausible slip; no specification
uses them.

### CmdMgr

*State.* `state`, `lock`, `cmds`, `queue_sz`, `work` are the fields of `struct rwnx_cmd_mgr` and
whether its work is queued; `used`, `cmd`, `flags`, `done` are the fields of the slots of
`cmd_array`; `bus`, `cmd_buf`, `urb`, `finished` are those of the USB device that all senders share: its
state, the message in the buffer ("NULL" once it is freed), the one in `msg_out_urb`, and
`msg_finished`. `fw` and `rxmsg` hold what the firmware has still to confirm and the confirmation being
handled. `pc`, `again` (who transmits for the second time), `slot`, `kind`, `ret` are the threads' own.
History variables are `confirmedBy`, whose confirmation was given to a call, and `failed`: a
transmission was refused, has failed or timed out.

*Actions.* Each thread of the driver has a program counter. A section of code under
`cmd_mgr->lock` is two steps: `Acquire` takes the lock, the body runs and unlocks. The body is not
simply made atomic, because the code has a path (`UnlockUnheld`) that unlocks without holding the
lock. `Start` is `rwnx_send_msg` up to the queue, `Spin`/`SpinAgain` the polling for the empty
list, `Refuse`/`Enqueue` the section that queues, `Wake` and `Rewake` the two places that wake the
worker (with the read of `queue_sz` outside the lock), `Completed`, `TimedOut`, `Killed`, `Delete`,
`Crash` the wait and its ends, `StartWork`, `Look`, `Clear` the worker, `Indicate` `cmd_mgr_msgind`.
`Confirm` is the firmware: it answers the requests it received in order, one confirmation each, so a
request that arrives twice is confirmed twice.

*Transmission.* `aicwf_set_cmd_tx` looks at the bus (`Fill`), writes the message into the buffer (`Write`)
and calls `aicwf_usb_bus_txmsg`, which clears `msg_finished` (`TxMsg`), submits the URB (`Submit`) and
waits (`Sending`). Between any two of these another sender, the controller and the removal may run.
The first transmission that ends in -EIO (a bus that is down, a refusal, or `TxTimedOut` and the kill
of the URB in `KillUrb`) goes back to `TxMsg` with the buffer as it then is (`Eio`); the second, and
any other error, ends like a success, since nobody looks at the result. `Transferred` is the completion
handler, which sets `msg_finished` without looking at the status of the URB. What reaches the device is
the message of the submission or, if the buffer was changed since, the one that is there (`Arrives`);
of a failed or cancelled transfer it may be nothing.

*Removal.* `Stop` sets the state of the bus, `CancelUrbs` kills `msg_out_urb`, `FreeBuffer` frees
`cmd_buf` and sets it to NULL, `StopRx` stops the threads that receive, `Drain` and `Flush` are
`rwnx_cmd_mgr_deinit`; all of it while callers and the worker go on. A sender that finds the buffer
freed writes through a null pointer ("oops") or goes on in freed memory.

*Assumed of the environment.* The controller gives a URB back before the firmware's answer to what
it carried is handled, as it does on one bus (`Arrives` is part of `Transferred`); the answer may still
overtake the wake-up of the sender. If two senders write the buffer at once, the last one wins as a
whole. A submission after the removal began may be refused or not.

*Left out.* Contents of messages, the callback of a confirmation (it does not touch the manager),
`cmd_mgr_llind` (never called with this bus), `RWNX_CMD_FLAG_NONBLOCK` (never set), the token
(written, never compared on this path), the wake lock, and the suspended state of the bus, in which
`aicwf_usb_bus_txmsg` fails as it does on a bus that is down. What happens after the manager is
zeroed (`DEINIT`) is not modelled: it is a use of freed memory.

*Abstraction.* `CmdService` is the view of a caller: a command is listed, sent, answered and closed
in this order, the firmware works on one at a time, and a caller that waits reports success only
for a closed command. `ServiceKept` maps the list and the flags to these phases (`PhaseOf`): an
open element the firmware was asked is "sent", one it was not asked is "listed", and so on. A
timeout, a transmission that goes wrong or an unplugged device maps to the abstract step `Break`,
behind which nothing is promised.

*What a failed transmission breaks.* The code promises nothing about it, and the model shows why the
promises end there: a sender that waits for a transfer may be overtaken by the confirmation of its
request, the next sender is let in and fills the buffer, and the first one's second transmission then
sends the second one's request; or the request of a transfer that timed out had been read after all, is
sent once more, and its second confirmation answers the next command with that id. So `BufferUntouched`
and `ServiceKept` hold until `failed`, and are violated without that condition. What does survive is
`AnswerEarned`: a caller with a reply buffer never takes a lost request for a success.

*Runs.* They have two ids of confirmation and a queue limit of two, so that calls share ids, and the
list holds a command in flight and one left to the worker while a third caller polls. `cm_queue` has
three calls, some of which poll and some not (`BothKinds`), timeouts of commands, the removal of the
device, transmissions that go wrong any number of times, and fewer slots than calls, so that the pool
runs dry. To keep it small, a transmission that goes wrong while the device is there is the only fault
of its behaviour (`FailsAlone`; all other faults combine, and after the removal all do); the theorems
have no such bound. `cm_live` has two calls, fatal signals and every route of a message, and checks
liveness: two calls fill the queue. `cm_lost_wake` and `cm_lockdep` show disagreements (section 5). A
call that is refused because the list is full takes three slots, which only `cm_lockdep` has; that the
limit is kept is proved (`ListIntactHolds`). Deadlock is not checked: a behaviour ends when every call
was made.

*Fairness.* `FairSpec` has strong fairness of every thread's own steps and weak fairness of the
transfer. The kernel runs every thread, its queued spinlock serves waiters in order (hence strong
fairness for a step that waits for the lock), the controller gives URBs back, the firmware answers, and
timers fire. Starting a call, killing one and unplugging the device are never forced.

*Until the first timeout.* The timeout of a command sets the state to CRASHED for good; several
invariants hold only before (`Working`). The reason is in the code: the timed-out command stays on the
list while its slot returns to the pool. `SlotsApart` and `BufferUntouched` hold afterwards, too.

### UsbTx

*State.* `free`, `post` and `flight` are the lengths of `tx_free_list` and `tx_post_list` and the
URBs at the controller; URBs are alike, and the code itself compares only their count with the
marks. `tbusy` and `stopped` are the flow control and the queues of the network device; `tokens` is
the count of the completion `bustx_trgg`; `snd`, `thr`, `hcd` and `pm` are the steps of the senders, the thread,
the completion handler and suspend or resume. `lateStop`, `fails` and `suspends` are history
variables: they name what the code does not promise to survive.

*Actions.* One action per section under one lock, or per unlocked read. `FrameTx` ... `FlowStop`
are `aicwf_frame_tx` and `aicwf_usb_bus_txdata`, `ThreadWakes` ... `SubmitNoDevice` are
`usb_bustx_thread` and `aicwf_usb_tx_process`, `Complete` and `FlowWake` `aicwf_usb_tx_complete`,
`StopQueues` ... `Suspended` the suspend, `Attach` ... `WakeQueues` the resume with
`aicwf_usb_tx_prepare`, whose unlocked look at the list may find it emptied (`Unpost` to "oops").

*Run.* `usb_tx`: eight URBs give a low mark of two and a high mark of six, as far apart as a
behaviour can cross them; one sender of data and one of management frames, which no stopped queue
holds back; one suspension, refused submission or unplugging. Transmissions start while fewer than
two triggers are pending. Deadlock is not checked: frames need not come.

*Fairness.* A sender that has started finishes, the thread runs when triggered, the controller gives
back what it was given, and a machine that suspends goes on and resumes. The first two are the
scheduler's, the third is the contract of USB host controllers, also for a device that is gone.

*Left out.* The optional builds (`CONFIG_USB_TX_AGGR`, per-station flow control, tasklets,
preallocated receive buffers), the contents of frames, probe and disconnect.

### UsbRx

*State.* `chan` is the endpoint a behaviour is about: data and messages share nothing and differ in
when they trigger and what an overflow costs. `free`, `flight` and `lost` count URBs, `queue` the
frames in `rxq`, `cnt` is `rx_cnt`, which is counted up after the queue and down after the work, so it may be off by one on either
side; `tokens`, `hcd`, `thr` and `pm` are as in `UsbTx`.

*Actions.* `Completes` ... `PutOnly` are the completion handler, `Get` ... `SubmitNotUp` the refill
that the handler and the resume share (the parameter says which), `Wakes` ... `NoMemory` the
receive thread, `Sleep` ... `BusStart` suspend and resume.

*Run.* `usb_rx`: three URBs and a queue of two, so that it overflows; two failures of any kind and
two suspensions. Received frames stop while three triggers are pending. Deadlock is not checked:
frames need not come.

*Fairness.* As in `UsbTx`; a suspended device gets all its URBs back.

### OverlayBuild

*State.* `cfg`, `out`, `bak`, `conf`, `boot` are what outlives a run: the installed configuration,
the overlay directory, the backup, the overlays `30-lyra-overlays.conf` names, and those the boot
configuration got from it. `args`, `pc`, `todo`, `local_cfg`, `cfg_updated`, `build` are those of a
run. `dtbo_updated` is always true when it is read and is left out. A configuration is the content
of a file; `NormOf` is what loading it yields.

*Actions.* `Start` is the parsing of the options; `Prepare` ... `Update` are the steps, with one
action per file for `Compile`, `Wipe` and `InstallOverlay`; `Reconfigure` and `GiveUp` answer the
prompt; `Fail` is any exception or exit before the installation. `Crash` cuts a run off anywhere,
and cuts the file being written: an overlay without content, a prefix of a configuration (a member
of `Cuts`), a conf file that names nothing. An exception during the installation (a full disk) is a
crash, too.

`whole` and `checked` are history variables: whether an installation was completed since the
last one began, and whether the last one to copy overlays had been checked.

*Runs.* `ov_runs` has six configurations over four rules: an empty file and the generic board it
loads as, one overlay, two, two that share a pin, two of one file name. That is one of each
case the code distinguishes; the number of runs is not bounded. It cannot deadlock: a run at rest
may be followed by another.

*Left out.* `-o` and its companions (they redirect the same writes; with `-o` u-boot-update is not
run), the README file, the mixture of an old `conf` with a partly written `boot` (u-boot-update is
external), the versions of the kernel's device-tree directories.

### PinCheck

*State.* The `tree` as the sequence of its nodes in the order of `Node.walk`, the place of the walk
(`node`, `use`), the `pinmap` and the `verdict`. `NextNode` and `CheckPinctrl` are the loops of
`_check_pins`, with `_check_pinctrl` inlined; `Judge` is the loop over the pin map.

*Runs.* `pin_check`: all trees of one node with up to three uses and of two nodes with up to two,
over two properties and five groups: a pin, a pin of the same number under another letter, both,
one twice, an unreadable one, with nodes that are enabled, disabled, or have the status "ok", which
the check does not take for enabled. Two nodes are enough for a clash, three uses for the third user of
one pin; `pin_distinct` shows a disagreement (section 5).

### RxReorder

*State.* `ctl` is the control of the station and TID (whether it exists, `enable`, `ind_sn`), `buf`
its list; `timer`, `irq`, `work`, `worker` say where a timeout is: pending, in the handler, as
pending work, in the worker before it has the lock. `free` counts the descriptors in
`rxframes_freequeue`. `rx` and `hand` are the bus thread between the lookup under
`stas_reord_lock` and the section under `reord_list_lock`, `de` the thread that removes the
station. A frame is its position in the stream of the sender; the code sees only `Sn(n)`, the
position modulo `SeqSpace`, and 0xffff for "no frame yet" is `FirstSn`. `got`, `out`, `gone` and `passed` are history
variables: frames received, delivered, freed, and positions the receiver decided not to wait for.

*Actions.* `Receive...` is `rwnx_rxdataind_aicwf` and the first half of `reord_process_unit`,
`Process...` its second half, one action per outcome; `NeedCheck`, `Enqueue`, `Process` and `Due`
are the four functions on the list. `Flush...` is `reord_flush_tid`, `TimerExpires` ...
`TimeoutWorker` the timeout, `Deinit...` `reord_deinit_sta`. The sender (`Sent`, `GiveUp`) is
external: it stays within a window of its oldest unsettled frame, which is what makes half the
sequence space enough to tell old from new (`SeqAssumption`: two windows, and as many frames as may
be lost or go around the window, make less than half the space; two windows are 128 of 2048 in the
code).

*After a use of freed memory.* The teardown may free a control that the timer, the work or the bus
thread still uses (see the hazard at `fdrv/rwnx_rx.c:1620`). What follows is undefined, so
`DeinitDangling` ends the behaviour; the properties say what holds until then.

*In a teardown.* A frame may enable the control afresh while `reord_deinit_sta` is still on its way
to the buffer (`fdrv/rwnx_rx.c:1982`). The frames of the old stream then wait behind an `ind_sn`
that knows nothing of them: a copy of one of them moves it past the frame, others go up ahead of what
waits, and the timeout moves `ind_sn` back. So `NeverBack` and the window of `BufferOrdered` are about
a control that is not being torn down, and `InOrder` lets a frame overtake those that the teardown
is about to free (`Settled`).

*Run.* `rx_reorder`: six frames whose sequence numbers wrap from 31 to 0 after the second, a window
of four, so that the last frame lies above the window while the second is waited for; one frame is
taken for RTP, one bypasses the list. Three descriptors are as few as let two
frames wait while the bus thread holds a third, which the interleaving above takes, and as many as
three frames behind a gap use up, so that the pool runs dry. Two faults of any kind (a loss, a copy,
a flush, a teardown) are enough for two gaps behind each other, a late copy after a timeout, and a
copy or a flush during a teardown. Deadlock is not checked: the stream is finite.

*Fairness.* `FairSpec` has weak fairness of the timer, its handler, the start of the work and the
worker: timers expire, softirqs and workqueues run. Frames need not arrive.

*Left out.* Other TIDs (they share only the pool), splitting of aggregated frames, access-point
mode, in which a delivered frame may be sent back to another station.

### RemoteProc

*State.* `drv` is where probe or remove is, `rproc` and `op` the core's state and the step of the
start or stop that runs under its lock; `enabled`, `masked`, `clocks`, `reset`, `addr`, `mbox` are
the hardware and the resources. `stranded` counts starts that failed behind the clocks (history).
One action per call of `rk3506_rproc_start`, `_stop`, `_probe` and `_remove`, each of which may
fail; `Boot`, `Shutdown`, `DeleteStops` and `Deleted` are the remoteproc core (external).

*Abstraction.* `ProcessorLife` is the order a processor needs: power, out of reset, release, and
back. `LifeKept` maps "powered" to the clocks beyond those that a failed start left enabled and
"free" to the enable bit with a start address of the driver, since the boot loader may leave the
bit set.

*Run.* `remote_proc`: three probes and up to four enable counts, so that a start may fail twice and succeed
afterwards, in every state probe and remove can be in. The boot loader's state is arbitrary. `RunsPrepared`, which the
order of `LifeKept` nearly implies, is proved and not run.

### UsbGadget

*State.* `tree` is what exists below `usb_gadget`, `bound` and `udc` the controller, `unit` the
systemd unit, `todo` the commands the running script has still to run. A subcommand is the sequence
of those of its commands that may fail on their own or that others depend on; every action executes
the next command under `set -e`, `Refused` is a command that the state of the tree lets fail, `Fault` one
that fails for a reason outside, `Kill` the end of the script between two commands. configfs
(`Inside`, `Target`, `CanMake`, `CanRemove`) and systemd are external. `began`, `hurt`, `result` and
`noid` are history variables.

*Run.* `usb_gadget`: the unit and the administrator start scripts in any order, without bound; one
fault and one kill may cut two scripts, which reaches every partial tree. Deadlock is checked.

*Only one script at a time.* systemd runs one command of the unit at a time; that nobody runs the
script by hand during it is an assumption (nothing in the script locks).

## 3. What is proved

All of it is checked by TLAPS with Z3, Zenon and LS4, for every value of the constants that meets
the named assumptions of the modules.

* `CmdMgrProofs!TypeCorrect`: `Spec => []TypeOK`, by the invariant `TypeInv`, which adds that only
  slots with a call are listed and that threads at work have a slot; needed because `Delete`
  removes a list element and decrements a natural number.
* `CmdMgrProofs!MutualExclusionHolds`: `Spec => []MutualExclusion`, by `LockInv`. It adds to the
  property that the lock is never "lost" and nobody is at `UnlockUnheld` before the first timeout;
  without that, an unlock by a thread that does not hold the lock could not be excluded.
* `CmdMgrProofs!SlotsApartHolds`, `ListIntactHolds`, `BufferAliveHolds`: by `Owned`, which is the two
  invariants above with `SlotInv` and `ListInv`. `SlotInv` says whose a slot is: a thread at work has
  one in use that holds its own command, and the worker's is no caller's. `ListInv` says who is on the
  list: a caller is from its enqueueing to its deletion, and not before. No fault is excluded. That
  the list holds no slot twice and slots stay apart needs no `Working`: it holds through timeouts.
* `CmdMgrProofs!AnswerEarnedHolds`: `Spec => []AnswerEarned` when no caller is killed, by `AnswerInv`: until
  the timeout and the drain only `cmd_mgr_msgind` counts the completion of a command up, and it does so
  with a confirmation of its id. Transmissions may fail in any way; a killed caller reports success
  without an answer, so the hypothesis is needed.
* `CmdMgrProofs!NoOopsHolds`: `Spec => []NoOops` when there are no timeouts, the device stays and
  there is a slot for every call; transmissions may fail. Each hypothesis is needed: a timeout lets a
  thread spin on a lock that is never given back, the removal lets a caller delete a command the drain
  took off the list, or fill a buffer that was freed, and an empty pool is a null pointer. The run
  `cm_live` has the same limits.
* `CmdMgrProofs!BufferUntouchedHolds`, `ServiceKeptHolds`: under `Queued` (no message bypasses the queue,
  no caller is killed), with every fault enabled, until a transmission goes wrong or the device goes
  (`Smooth`), by `OneAtATime`, which is `Owned` with `SendInv`, `BufferInv` and `BufferThere`. `SendInv` is
  the discipline of the queue: behind a command that waits for something
  all are left to the worker (`Ordered`), the worker has the first (`WorkerFirst`), the firmware is
  asked for one answer at a time, which is that of a listed command (`Asking`), and after a timeout
  there is one sender for good, since the abandoned command blocks the list (`Sole`, `Stuck`).
  `BufferInv` says what that is worth to the buffer: the message is in it from `Write` to the submission,
  and as long as the controller has it. A sender whose confirmation has overtaken it may still be
  waiting for its transfer, but only one thread is ever between `Fill` and the submission.
  `BufferThere` is that only the removal frees the buffer. `Queued`
  is needed: a message without confirmation may fill the buffer another sender is using, and a
  killed caller deletes a command the firmware still has, so the next one is sent on top of it.
  `ServiceKept` is the refinement of `CmdService`: under `OneAtATime` and `ServInv`, which ties results
  to places, every step is a step of the service or changes nothing it sees, `Break` included.
* `OverlayBuildProofs!SuccessAgreesHolds`, `OneGenerationHolds`, `NeverClashingHolds`,
  `BootLoadableHolds`: by one
  invariant `OvInv`: at every step of a run the temporary directory holds what was compiled so far
  of one configuration, and the disk holds what was installed so far of it. Nothing is assumed of
  the disk at the start of a run, which is why crashes do not matter.
* `OverlayBuildProofs!DuplicateIsRealHolds`, `EditsKeptHolds`: by the same invariant. What was compiled
  so far is what the active rules already taken give, so a name that is there is that of another of
  them; and `ConfigInv` says which configuration a run is about at each step.
* `PinCheckProofs!NoSharingHolds`: by `PinInv`: every use the walk is past has left an entry of its
  node under the name of each of its pins. The comparison with the first user alone is then
  enough for nodes (equality of nodes is transitive), though not for properties.
* `PinCheckProofs!VerdictEarnedHolds`: by `Earned`, the converse: every entry of the pin map comes from
  a use the walk is past, two entries from two uses or from one group that names the pin twice, and no
  group the walk is past is broken.
* `UsbTxProofs!PoolWholeHolds`, `TriggerPendingHolds`, `WakePendingHolds`: by `IInv`. `Triggered`
  adds the trigger that a round of the thread has consumed to the pending ones, since the property
  speaks of a thread that waits; `Answered` says who stopped the queues, which decides whether a
  completion will wake them. Steps of the senders change the counts of senders at a step; lemma
  `AtMoves` says by how much, and the rest is arithmetic. No bound is assumed on senders or URBs.
* `UsbRxProofs!PoolWholeHolds`, `ArmedHolds`, `NoneStrandedHolds`: by `IInv`. On the data endpoint
  `CountExact` says by how much `rx_cnt` differs from the queue at each step, and `FirstTriggers` that
  only the first frame is ever without a trigger; on the message endpoint `EachTriggers` counts
  triggers and frames. `Refilling` and `NoneHeld` say who still has to submit free URBs.
* `RxReorderProofs!PoolWholeHolds`, `TypeCorrect`: by `IInv`, which adds `Steps`: the bus thread has a
  frame in hand exactly between the lookup and the lock, and nothing runs after a use of freed
  memory. Of the sequence arithmetic it needs only that a frame goes to some place of the
  list and that some number of frames is due (`PlaceRange`, `DueRange`).
* `RxReorderProofs!InOrderHolds`, `NothingLostHolds`, `BufferOrderedHolds`, `GapWatchedHolds`,
  `NeverBackHolds`: by `RInv`. The code compares sequence numbers, the properties speak of positions in
  the stream, and the two agree within half the sequence space (`LessIs`, `SameIs`, `PastIs`). So `At(p)`
  gives `ind_sn` a position: what waits is within the window around it and all below it is settled.
  That what is compared with it lies within half the space is `HandNear`: of the frames that arrived,
  only the one in hand, and one that a teardown let pass, may be a window or more ahead of p (`Near`);
  so the positions between the window and the frame in hand hold frames that were lost, are direct or
  were let pass, and those are counted (`Budget`). `ProcessIs` says what the scan over the list
  computes, by induction over the least frame at which it could differ: it ends at the first gap; and
  `IndicateDue` what goes up. Then each step either leaves p or moves it to a gap further on. The
  theorems hold for streams of any length with fewer faults and direct frames than `SeqAssumption`
  admits, and for any pool: the attempt to prove the unqualified `NeverBack` and `InOrder` is what
  led to the teardown described above, which two descriptors are too few to show.
* `RemoteProcProofs!RunsPreparedHolds`, `HeldUnlessRunningHolds`, `ResourcesAccountedHolds`,
  `TypeCorrect`: by the invariant `IInv`. It adds `Steps` to the properties: which steps of a
  start have which of clocks, resets and address behind them; the properties speak of the time
  between operations, so they are not inductive without it.
* `RemoteProcProofs!LifeKeptHolds`: `Spec => LifeKept`, the refinement: under `IInv` every step of
  the driver is a step of `ProcessorLife` or changes nothing it sees.
* `UsbGadgetProofs!BoundWholeHolds`, `TypeCorrect`: by `IInv`. `Built` says that the tree is closed
  (what an entry is inside of or points to exists, which configfs keeps), and that in the commands
  still to run the link to the function comes directly after its addresses. So the proof needs no
  place in the script, and a script may end at any of its commands.
* `UsbGadgetProofs!UninstallRepairsHolds`, `EnableCompletesHolds`, `FailedStartUndoneHolds`: by `CourseInv`
  on top of `IInv`. These are about a whole script, so the place counts: `OnCourse` says that what is
  still to be run is the rest of the subcommand's commands, `Enabling` and `Uninstalling` what exists
  when so many have been run (`EnableAt`, `UninstallAt` are the places of the commands that make and
  remove each entry), and `Repaired` keeps what was reached once the script has ended.

Every safety property that a passing run checks is proved. Only model-checked is liveness under
fairness (`CallsReturn`, `ListEmpties`, `PollingEnds`, `Drained`, `QueueWoken`, `Served`), which is
out of the prover's reach; and what `CmdMgr` keeps beyond the hypotheses of `NoOopsHolds`,
`BufferUntouchedHolds` and `ServiceKeptHolds`, as far as the runs `cm_queue` and `cm_live` go.

## 4. Runs, and what is not modelled

| Run | Question |
|---|---|
| `cm_queue` | is the service of `CmdService` kept until something goes wrong, and do slots, lock and buffers keep to one owner, through timeouts, repeated transmissions, an empty pool and the removal of the device? |
| `cm_live` | do fatal signals and messages without confirmation leave the list intact, and does every call return? |
| `cm_lost_wake`, `cm_lockdep`, `pin_distinct` | disagreements (section 5) |
| `pin_check` | is the verdict right for every small tree? |
| `ov_runs` | do success, crashes and repeated runs keep the disk consistent? |
| `rx_reorder` | are frames delivered in order, none lost, leaked or waited for for ever? |
| `usb_tx` | are URBs, triggers and wake-ups conserved through suspension, failures and unplugging? |
| `usb_rx` | does either endpoint stay armed, and does every queued frame reach the thread? |
| `remote_proc` | does the processor run only as a completed start left it, in the order `ProcessorLife` demands? |
| `usb_gadget` | does an uninstall repair whatever a script left? |

Where the code itself does not promise an outcome, the property names the exception and the model
still reaches it: a thread that ends on a left-over trigger while the bus is down, and the first URB
taken from an emptied list (`QueueWoken`, `Served`); queues that a sender stops after the resume
woke them (`lateStop`); URBs that an overflow of the message queue forgets (`PoolWhole` of `UsbRx`);
a control freed while its timer may still be armed (`DeinitDangling`); the second transmission of a
shared buffer, and the buffer freed under a sender (`failed` and `bus` in `BufferUntouched`).

Not modelled, and why:

* Nearly all of the Wi-Fi driver by lines: cfg80211 glue, message contents, register tables, the
  regulatory database, debugfs and platform code. They translate calls into messages and data into
  data; what they do to the state that threads share goes through the components above.
* The firmware loader (`aic_load_fw`): a straight sequence of uploads over an older copy of the same
  bus code.
* Transmit queues and credits (`rwnx_txq.c`) and the TCP acknowledgement filter
  (`aicwf_tcp_ack.c`): stages in front of `UsbTx`, with state per station that none of the other
  components reads. They are the next to be modelled.
* Of the USB path: aggregation, per-station flow control, tasklets and preallocated receive buffers
  (switched off in the driver's Makefile), splitting of aggregated frames, probe and disconnect.
* The image build (a sequence of external tools), device trees, Kconfig files, Lbuild rules and
  packaging (data), resource search and terminal input (pure I/O).

## 5. Disagreements with the code's own comments

* `cm_lost_wake`: `cmd_mgr_queue` reads `queue_sz` after the unlock (`fdrv/rwnx_cmds.c:237`); with a
  message that is always deferred, two callers can both read 2 and wake nobody; whoever waits "for
  cmd queue empty" (line 156) waits for ever.
* `cm_lockdep`: `cmd_complete` asserts that the lock is held (line 48); after a timeout a polling
  caller releases the lock of another thread (lines 142 and 165).
* `pin_distinct`: the comment at `build.py:287-289` requires all properties to be distinct; the code
  compares each with the first only.

## 6. What could come next

1. `Txq`: queues and credits per station and TID, in front of `UsbTx`; a queue with frames and
   credits is always on a list of the scheduler.
2. A version of `ServiceKept` with killed callers and repeated transmissions: `CmdService` would have to
   let a caller withdraw a command that the firmware goes on with, and a request be sent twice, and say
   what the next answer then means.
3. `BoardConfig`: the Kconfig files as functions; no configuration of a board switches its base
   devices off unless `MODIFY_BASE`; composed with `PinCheck`.
4. The TCP acknowledgement filter with its timers.
