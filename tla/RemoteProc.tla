------------------------------ MODULE RemoteProc ------------------------------
(***************************************************************************)
(* The remote processor driver (rk3506_remoteproc.c) under the remoteproc  *)
(* core: probing, the steps of a start and a stop, and removal while the   *)
(* processor may run.  The mailbox callback only logs.  The core is external: it starts   *)
(* and stops one processor at a time under its lock, from sysfs, by itself *)
(* when the processor is registered, and once more when it is deleted.     *)
(***************************************************************************)
EXTENDS Naturals

CONSTANTS MaxClocks,  \* bound: how often the clocks are enabled without being
                      \* disabled; the kernel's count is an int
          MaxBinds    \* bound: how often the driver is probed

ASSUME BoundsAssumption == MaxClocks \in Nat \ {0} /\ MaxBinds \in Nat \ {0}

VARIABLES
    drv,      \* the driver: where probe or remove is
    rproc,    \* the core: "none", "offline", "running"
    op,       \* the step of start or stop that runs under the core's lock
    mbox,     \* the mailbox channel is requested
    enabled,  \* MCU_RST_DIS_CFG
    masked,   \* GLB_INT_MASK_MCU
    clocks,   \* the prepare and enable count of the clocks
    reset,    \* the resets are asserted
    addr,     \* the start address is that of the firmware memory
    stranded, \* history: starts that failed after the clocks were enabled
    binds

core == <<rproc, op>>
mcu  == <<enabled, masked, clocks, reset, addr>>
vars == <<drv, core, mbox, mcu, stranded, binds>>

TypeOK ==
    /\ drv \in {"unbound", "probe", "add", "added", "bound", "removing"}
    /\ rproc \in {"none", "offline", "running"}
    /\ op \in {"none", "start", "clocks", "resets", "address", "enable", "stop", "assert", "disable"}
    /\ mbox \in BOOLEAN /\ enabled \in BOOLEAN /\ masked \in BOOLEAN
    /\ reset \in BOOLEAN /\ addr \in BOOLEAN
    /\ clocks \in 0..MaxClocks /\ stranded \in 0..MaxClocks
    /\ binds \in 0..MaxBinds

\* What the boot loader left is unknown, except that no driver holds anything
Init ==
    /\ drv = "unbound" /\ rproc = "none" /\ op = "none" /\ mbox = FALSE
    /\ enabled \in BOOLEAN /\ masked \in BOOLEAN /\ reset \in BOOLEAN
    /\ clocks = 0 /\ addr = FALSE /\ stranded = 0 /\ binds = 0

-----------------------------------------------------------------------------
(* rk3506_rproc_probe and rk3506_rproc_remove.                             *)

\* Everything up to the mailbox is managed by devres: a failure leaves nothing
Probe ==
    /\ drv = "unbound" /\ binds < MaxBinds /\ binds' = binds + 1
    /\ drv' = "probe"
    /\ UNCHANGED <<core, mbox, mcu, stranded>>

ProbeFails ==
    /\ drv = "probe" /\ drv' = "unbound"
    /\ UNCHANGED <<core, mbox, mcu, stranded, binds>>

\* mbox_request_channel: the channel has one owner.  (It failing is ProbeFails.)
RequestMailbox ==
    /\ drv = "probe" /\ ~mbox /\ mbox' = TRUE /\ drv' = "add"
    /\ UNCHANGED <<core, mcu, stranded, binds>>

\* devm_rproc_add: from here on the core may start the processor, before
\* probe has returned
Add ==
    /\ drv = "add" /\ rproc' = "offline" /\ drv' = "added"
    /\ UNCHANGED <<op, mbox, mcu, stranded, binds>>

\* The label free_mbox
AddFails ==
    /\ drv = "add" /\ mbox' = FALSE /\ drv' = "unbound"
    /\ UNCHANGED <<core, mcu, stranded, binds>>

ProbeDone ==
    /\ drv = "added" /\ drv' = "bound"
    /\ UNCHANGED <<core, mbox, mcu, stranded, binds>>

\* remove frees the mailbox while the processor may still run
Remove ==
    /\ drv = "bound" /\ mbox' = FALSE /\ drv' = "removing"
    /\ UNCHANGED <<core, mcu, stranded, binds>>

\* Then devres deletes the processor, which the core stops first
DeleteStops ==
    /\ drv = "removing" /\ rproc = "running" /\ op = "none" /\ op' = "stop"
    /\ UNCHANGED <<drv, rproc, mbox, mcu, stranded, binds>>

Deleted ==
    /\ drv = "removing" /\ rproc = "offline" /\ op = "none"
    /\ rproc' = "none" /\ drv' = "unbound"
    /\ UNCHANGED <<op, mbox, mcu, stranded, binds>>

-----------------------------------------------------------------------------
(* rk3506_rproc_start: each call may fail, and nothing is undone.          *)

Registered == drv \in {"added", "bound", "removing"} /\ rproc \in {"offline", "running"}

Boot ==
    /\ Registered /\ rproc = "offline" /\ op = "none" /\ op' = "start"
    /\ UNCHANGED <<drv, rproc, mbox, mcu, stranded, binds>>

\* rk3506_rproc_set_enabled
SetEnabled(en) == enabled' = en /\ masked' = ~en

\* "Stop the processor if it's running to force a reset."  The variant does not.
ForceResetNot ==
    /\ op = "start" /\ op' = "clocks"
    /\ UNCHANGED <<drv, rproc, mbox, mcu, stranded, binds>>
ForceReset ==
    /\ op = "start" /\ op' = "clocks"
    /\ SetEnabled(FALSE)
    /\ UNCHANGED <<drv, rproc, mbox, clocks, reset, addr, stranded, binds>>

EnableClocks ==
    /\ op = "clocks" /\ clocks < MaxClocks
    /\ clocks' = clocks + 1 /\ op' = "resets"
    /\ UNCHANGED <<drv, rproc, mbox, enabled, masked, reset, addr, stranded, binds>>

ClocksFail ==
    /\ op = "clocks" /\ op' = "none"
    /\ UNCHANGED <<drv, rproc, mbox, mcu, stranded, binds>>

DeassertResets ==
    /\ op = "resets" /\ reset' = FALSE /\ op' = "address"
    /\ UNCHANGED <<drv, rproc, mbox, enabled, masked, clocks, addr, stranded, binds>>

SetAddress ==
    /\ op = "address" /\ addr' = TRUE /\ op' = "enable"
    /\ UNCHANGED <<drv, rproc, mbox, enabled, masked, clocks, reset, stranded, binds>>

\* The resets or the secure call fail: the clocks stay enabled
StartFails ==
    /\ op \in {"resets", "address"} /\ op' = "none"
    /\ stranded' = stranded + 1
    /\ UNCHANGED <<drv, rproc, mbox, mcu, binds>>

Started ==
    /\ op = "enable" /\ op' = "none" /\ rproc' = "running"
    /\ SetEnabled(TRUE)
    /\ UNCHANGED <<drv, mbox, clocks, reset, addr, stranded, binds>>

-----------------------------------------------------------------------------
(* rk3506_rproc_stop                                                       *)

Shutdown ==
    /\ Registered /\ rproc = "running" /\ op = "none" /\ op' = "stop"
    /\ UNCHANGED <<drv, rproc, mbox, mcu, stranded, binds>>

\* The variant leaves it running while its resets and clocks go.
StopProcessorNot ==
    /\ op = "stop" /\ op' = "assert"
    /\ UNCHANGED <<drv, rproc, mbox, mcu, stranded, binds>>
StopProcessor ==
    /\ op = "stop" /\ op' = "assert"
    /\ SetEnabled(FALSE)
    /\ UNCHANGED <<drv, rproc, mbox, clocks, reset, addr, stranded, binds>>

AssertResets ==
    /\ op = "assert" /\ reset' = TRUE /\ op' = "disable"
    /\ UNCHANGED <<drv, rproc, mbox, enabled, masked, clocks, addr, stranded, binds>>

\* The variant leaves the clocks enabled.
DisableClocksNot ==
    /\ op = "disable" /\ op' = "none" /\ rproc' = "offline"
    /\ UNCHANGED <<drv, mbox, mcu, stranded, binds>>
DisableClocks ==
    /\ op = "disable" /\ clocks' = clocks - 1
    /\ op' = "none" /\ rproc' = "offline"
    /\ UNCHANGED <<drv, mbox, enabled, masked, reset, addr, stranded, binds>>

-----------------------------------------------------------------------------
Probing  == Probe \/ ProbeFails \/ RequestMailbox \/ Add \/ AddFails \/ ProbeDone
Removing == Remove \/ DeleteStops \/ Deleted
Starting == Boot \/ ForceReset \/ EnableClocks \/ ClocksFail \/ DeassertResets
            \/ SetAddress \/ StartFails \/ Started
Stopping == Shutdown \/ StopProcessor \/ AssertResets \/ DisableClocks

Next == Probing \/ Removing \/ Starting \/ Stopping
Spec == Init /\ [][Next]_vars

-----------------------------------------------------------------------------
(* Properties.                                                             *)

\* What holds between the steps of an operation (the inductive invariant is
\* this together with the properties below): the core only works for a driver
\* that is registered, a start keeps the processor held until its last step, and
\* the clocks it enabled are accounted for.
Steps ==
    /\ rproc = "none" <=> drv \in {"unbound", "probe", "add"}
    /\ rproc = "none" => op = "none"
    /\ op \in {"start", "clocks", "resets", "address", "enable"} => rproc = "offline"
    /\ op \in {"stop", "assert", "disable"} => rproc = "running"
    /\ op \in {"clocks", "resets", "address", "enable", "assert", "disable"} => ~enabled
    /\ op \in {"address", "enable"} => ~reset
    /\ op = "enable" => addr
    /\ mbox <=> drv \in {"add", "added", "bound"}
    /\ clocks = stranded + (IF rproc = "running" \/ op \in {"resets", "address", "enable"}
                            THEN 1 ELSE 0)

\* A processor that the core takes for running does run, with its clocks and
\* out of reset, from the firmware memory.
RunsPrepared ==
    rproc = "running" /\ op \in {"none", "stop"} =>
        enabled /\ ~masked /\ clocks > 0 /\ ~reset /\ addr

\* Once the driver has set a start address the processor is only released
\* while the core takes it for running: not before a start is complete, not
\* after one that failed, and not when the driver is gone.
HeldUnlessRunning == enabled /\ addr => rproc = "running" /\ drv # "unbound"

\* What is held is accounted for.  Between two operations the clocks are enabled
\* once for a processor that runs, and once more for every start that failed
\* behind them: those are never disabled again.  The mailbox channel is held
\* exactly by a driver that is bound or about to be, so that a probe that failed
\* late can be repeated.
ResourcesAccounted ==
    /\ op = "none" => clocks = stranded + (IF rproc = "running" THEN 1 ELSE 0)
    /\ mbox <=> drv \in {"add", "added", "bound"}

\* The driver implements ProcessorLife: powered are clocks beyond those that a
\* failed start left enabled, free is enabled with a start address of the driver.
Life == INSTANCE ProcessorLife WITH
    here <- rproc # "none",
    powered <- clocks > stranded,
    free <- enabled /\ addr

LifeKept == Life!Spec
=============================================================================
