------------------------------ MODULE UsbGadget ------------------------------
(***************************************************************************)
(* The USB gadget service: the script lyra-usb-gadget, which builds and    *)
(* removes a tree in configfs, and the unit that runs it.  The script runs *)
(* under "set -e": a command that fails ends it.  It may also be killed    *)
(* between any two commands, and any command may fail.  systemd runs one   *)
(* command of the unit at a time; an administrator uses the script only    *)
(* while the unit does not.                                                *)
(*                                                                         *)
(* tree holds the entries that the script makes below usb_gadget:          *)
(*   gadget    lyra/               cstrings  configs/c.1/strings/0x409/    *)
(*   strings   strings/0x409/      function  functions/rndis.lyra/         *)
(*   config    configs/c.1/        fnlink    configs/c.1/rndis.lyra        *)
(*   oslink    os_desc/c.1                                                 *)
(***************************************************************************)
EXTENDS Naturals, Sequences, SequencesExt

CONSTANTS
    MaxFaults,  \* bound: commands that fail although they could succeed
    MaxKills    \* bound: scripts killed

ASSUME BoundsAssumption == MaxFaults \in Nat /\ MaxKills \in Nat

VARIABLES
    tree,    \* the entries that exist
    bound,   \* the UDC attribute names a controller
    udc,     \* a controller is in /sys/class/udc
    mac,     \* the addresses of the function: "random" or "stable"
    unit,    \* the state of lyra-usb-gadget.service
    todo,    \* the commands the running script has still to run
    job,     \* the subcommand it was started with, or "none"
    usb,     \* USB_UDC: a controller was there when the script started
    began,   \* history: tree when the script started
    hurt,    \* history: a command failed for an outside reason, or the
             \* controller went away, since then
    result,  \* history: how the last script ended
    noid,    \* history: systemd-id128 failed since the function was made
    faults, kills

script == <<todo, job, usb, began, hurt, result>>
outside == <<udc, unit, faults, kills>>
vars   == <<tree, bound, udc, mac, unit, script, noid, faults, kills>>

Entries == {"gadget", "strings", "config", "oslink", "cstrings", "function", "fnlink"}

Jobs == {"install", "enable", "disable", "uninstall"}

TypeOK ==
    /\ tree \subseteq Entries /\ began \subseteq Entries
    /\ {bound, udc, usb, hurt, noid} \subseteq BOOLEAN /\ mac \in {"random", "stable"}
    /\ unit \in {"inactive", "starting", "active", "stopping", "undoing", "failed"}
    /\ job \in Jobs \cup {"none"} /\ (job = "none" <=> todo = <<>>)
    /\ result \in [job : Jobs \cup {"none"}, how : {"ok", "failed", "killed"}]
    /\ faults \in 0..MaxFaults /\ kills \in 0..MaxKills

Init ==
    /\ tree = {} /\ bound = FALSE /\ udc \in BOOLEAN /\ mac = "random"
    /\ unit = "inactive" /\ todo = <<>> /\ job = "none" /\ usb = FALSE
    /\ began = {} /\ hurt = FALSE /\ result = [job |-> "none", how |-> "ok"]
    /\ noid = FALSE /\ faults = 0 /\ kills = 0

-----------------------------------------------------------------------------
(* configfs (external).                                                    *)

\* What an entry is inside of, and what a link points to
Inside == [e \in Entries |->
    CASE e = "gadget" -> {}
      [] e \in {"strings", "config", "oslink", "function"} -> {"gadget"}
      [] e = "cstrings" -> {"config"}
      [] e = "fnlink" -> {"config"}]
Target == [e \in Entries |->
    CASE e = "oslink" -> {"config"} [] e = "fnlink" -> {"function"} [] OTHER -> {}]

CanMake(e)   == Inside[e] \cup Target[e] \subseteq tree
\* An entry with others inside, or that a link points to, cannot be removed
CanRemove(e) == \A f \in tree : e \notin Inside[f] \cup Target[f]

-----------------------------------------------------------------------------
(* The script, as the commands of each subcommand in their order.  Writes  *)
(* of attributes are part of the command that makes their directory,       *)
(* except those that can go wrong on their own.                            *)

\* The variants make the link to the configuration before it, and leave out the
\* addresses.
InstallEarly == << <<"modprobe">>, <<"mkdir", "gadget">>, <<"mkdir", "strings">>,
    <<"ln", "oslink">>, <<"mkdir", "config">>, <<"mkdir", "cstrings">>,
    <<"mkdir", "function">>, <<"mac">>, <<"ln", "fnlink">> >>
InstallNoMac == << <<"modprobe">>, <<"mkdir", "gadget">>, <<"mkdir", "strings">>,
    <<"mkdir", "config">>, <<"ln", "oslink">>, <<"mkdir", "cstrings">>,
    <<"mkdir", "function">>, <<"ln", "fnlink">> >>
InstallCmds == << <<"modprobe">>, <<"mkdir", "gadget">>, <<"mkdir", "strings">>,
    <<"mkdir", "config">>, <<"ln", "oslink">>, <<"mkdir", "cstrings">>,
    <<"mkdir", "function">>, <<"mac">>, <<"ln", "fnlink">> >>

DisableCmds == << <<"cd">>, <<"unbind">> >>

EnableCmds == InstallCmds \o << <<"cd">>, <<"bind">> >>

\* The variant removes the configuration before the link to it.
UninstallLate == DisableCmds \o << <<"cd">>, <<"delete", "fnlink">>,
    <<"delete", "cstrings">>, <<"delete", "config">>, <<"delete", "oslink">>,
    <<"delete", "function">>, <<"delete", "strings">>, <<"rmdir", "gadget">> >>
UninstallCmds == DisableCmds \o << <<"cd">>, <<"delete", "oslink">>,
    <<"delete", "fnlink">>, <<"delete", "cstrings">>, <<"delete", "config">>,
    <<"delete", "function">>, <<"delete", "strings">>, <<"rmdir", "gadget">> >>

Commands(j) == CASE j = "install" -> InstallCmds [] j = "enable" -> EnableCmds
                 [] j = "disable" -> DisableCmds [] j = "uninstall" -> UninstallCmds

Run(j) ==
    /\ job = "none" /\ job' = j /\ todo' = Commands(j)
    /\ usb' = udc /\ began' = tree /\ hurt' = FALSE /\ UNCHANGED result

\* The script ends; what the unit does then is in UnitGoesOn
Exit(how) ==
    /\ job' = "none" /\ todo' = <<>> /\ UNCHANGED <<usb, began, hurt>>
    /\ result' = [job |-> job, how |-> how]

\* The command is done
Goes == IF Len(todo) = 1 THEN Exit("ok")
        ELSE todo' = Tail(todo) /\ UNCHANGED <<job, usb, began, hurt, result>>

Next1(cmd) == todo # <<>> /\ Head(todo)[1] = cmd
Arg == Head(todo)[2]

\* modprobe, cd, and the writes that need nothing but the directory
Plain ==
    /\ Next1("modprobe") \/ (Next1("cd") /\ "gadget" \in tree)
    /\ Goes /\ UNCHANGED <<tree, bound, mac, noid>>
    /\ UNCHANGED outside

\* mkdir -p succeeds when the directory is there
MakeDir ==
    /\ Next1("mkdir") /\ CanMake(Arg)
    /\ tree' = tree \cup {Arg}
    /\ IF Arg = "function" /\ Arg \notin tree
       THEN mac' = "random" /\ noid' = FALSE ELSE UNCHANGED <<mac, noid>>
    /\ Goes /\ UNCHANGED bound
    /\ UNCHANGED outside

\* ln -s fails when the link is there
FreshLink(e) == e \notin tree

MakeLink ==
    /\ Next1("ln") /\ CanMake(Arg) /\ FreshLink(Arg)
    /\ tree' = tree \cup {Arg}
    /\ Goes /\ UNCHANGED <<bound, mac, noid>>
    /\ UNCHANGED outside

\* generate_mac into dev_addr and host_addr: without pipefail a failure of
\* systemd-id128 writes nothing and ends nothing.  The addresses of a function
\* in use cannot be written.
WriteMac ==
    /\ Next1("mac") /\ "function" \in tree /\ ~bound
    /\ \/ mac' = "stable" /\ UNCHANGED noid
       \/ noid' = TRUE /\ UNCHANGED mac
    /\ Goes /\ UNCHANGED <<tree, bound>>
    /\ UNCHANGED outside

\* The kernel takes the controller only for a configuration with a function
Bind ==
    /\ Next1("bind") /\ "gadget" \in tree /\ ~bound /\ usb /\ udc
    /\ "fnlink" \in tree /\ bound' = TRUE
    /\ Goes /\ UNCHANGED <<tree, mac, noid>>
    /\ UNCHANGED outside

\* echo -n "" > UDC writes no byte: whether anything is unbound is left open,
\* and it does not fail
Unbind ==
    /\ Next1("unbind") /\ "gadget" \in tree
    /\ bound' \in {bound, FALSE}
    /\ Goes /\ UNCHANGED <<tree, mac, noid>>
    /\ UNCHANGED outside

\* find -delete, which finds nothing when the entry is not there, and rmdir.
\* Unlinking the function of a bound gadget unbinds it (external).
Delete ==
    /\ Next1("delete") \/ (Next1("rmdir") /\ Arg \in tree)
    /\ Arg \in tree => CanRemove(Arg)
    /\ tree' = tree \ {Arg}
    /\ bound' = (bound /\ Arg # "fnlink")
    /\ Goes /\ UNCHANGED <<mac, noid>>
    /\ UNCHANGED outside

\* None of these works in this state: set -e ends the script
Refused ==
    /\ todo # <<>>
    /\ CASE Next1("modprobe") -> FALSE
         [] Next1("cd")       -> "gadget" \notin tree
         [] Next1("mkdir")    -> ~CanMake(Arg)
         [] Next1("ln")       -> ~(CanMake(Arg) /\ FreshLink(Arg))
         [] Next1("mac")      -> "function" \notin tree \/ bound
         [] Next1("bind")     -> "fnlink" \notin tree \/ bound \/ ~usb \/ ~udc
         [] Next1("unbind")   -> "gadget" \notin tree
         [] Next1("delete")   -> Arg \in tree /\ ~CanRemove(Arg)
         [] Next1("rmdir")    -> Arg \notin tree \/ ~CanRemove(Arg)
    /\ Exit("failed")
    /\ UNCHANGED <<tree, bound, udc, mac, unit, noid, faults, kills>>

\* A command fails for a reason outside the script
Fault ==
    /\ todo # <<>> /\ faults < MaxFaults /\ faults' = faults + 1
    /\ job' = "none" /\ todo' = <<>> /\ hurt' = TRUE
    /\ result' = [job |-> job, how |-> "failed"]
    /\ UNCHANGED <<tree, bound, udc, mac, unit, usb, began, noid, kills>>

Kill ==
    /\ todo # <<>> /\ kills < MaxKills /\ kills' = kills + 1
    /\ Exit("killed")
    /\ UNCHANGED <<tree, bound, udc, mac, unit, noid, faults>>

-----------------------------------------------------------------------------
(* The unit, the administrator, and the controller.                        *)

RunNow(j) == Run(j) /\ UNCHANGED <<tree, bound, udc, mac, noid, faults, kills>>

\* ExecStart, under ConditionDirectoryNotEmpty
UnitStart ==
    /\ unit \in {"inactive", "failed"} /\ udc /\ unit' = "starting"
    /\ RunNow("enable")

UnitStarted ==
    /\ unit = "starting" /\ job = "none" /\ result.how = "ok" /\ unit' = "active"
    /\ UNCHANGED <<tree, bound, udc, mac, script, noid, faults, kills>>

\* ExecStopPost also runs after a start that failed; the variant is an ExecStop,
\* which does not.
UnitNoUndo ==
    /\ unit = "starting" /\ job = "none" /\ result.how # "ok" /\ unit' = "undoing"
    /\ UNCHANGED <<tree, bound, udc, mac, script, noid, faults, kills>>

UnitUndo ==
    /\ unit = "starting" /\ job = "none" /\ result.how # "ok" /\ unit' = "undoing"
    /\ RunNow("uninstall")

UnitStop ==
    /\ unit = "active" /\ unit' = "stopping"
    /\ RunNow("uninstall")

UnitStopped ==
    /\ unit \in {"stopping", "undoing"} /\ job = "none"
    /\ unit' = IF unit = "stopping" /\ result.how = "ok" THEN "inactive" ELSE "failed"
    /\ UNCHANGED <<tree, bound, udc, mac, script, noid, faults, kills>>

\* The script run by hand
ByHand ==
    /\ unit \in {"inactive", "active", "failed"} /\ UNCHANGED unit
    /\ \E j \in Jobs : RunNow(j)

\* The controller's driver is bound or unbound; without it nothing is bound
UdcChanges ==
    /\ udc' = ~udc /\ bound' = FALSE
    /\ hurt' = (hurt \/ job # "none")
    /\ UNCHANGED <<tree, mac, unit, todo, job, usb, began, result, noid, faults, kills>>

Next ==
    \/ Plain \/ MakeDir \/ MakeLink \/ WriteMac \/ Bind \/ Unbind \/ Delete
    \/ Refused \/ Fault \/ Kill
    \/ UnitStart \/ UnitStarted \/ UnitUndo \/ UnitStop \/ UnitStopped
    \/ ByHand \/ UdcChanges

Spec == Init /\ [][Next]_vars

-----------------------------------------------------------------------------
(* Properties.                                                             *)

Ended(j, how) == job = "none" /\ result = [job |-> j, how |-> how]

\* From whatever tree an installation or a removal left behind when it failed
\* or was killed, an uninstall that nothing disturbs gets through: only the
\* cd of a gadget that is not there ends it.  One that got through leaves
\* nothing, and nothing bound.
UninstallRepairs ==
    /\ Ended("uninstall", "failed") /\ ~hurt => "gadget" \notin began
    /\ Ended("uninstall", "ok") => tree = {} /\ ~bound

\* An enable that nothing disturbs fails only without a controller or when one
\* of the two links was left by somebody else (ln -s does not replace it).
EnableCompletes ==
    Ended("enable", "failed") /\ ~hurt => ~usb \/ began \cap {"oslink", "fnlink"} # {}

\* So a unit whose start failed is repaired by its own ExecStopPost: unless
\* that was disturbed too, the next start finds an empty tree.
FailedStartUndone ==
    unit = "undoing" /\ job = "none" /\ ~hurt /\ result.how # "killed" => tree = {}

\* The host never sees a gadget without its function, and the addresses it
\* sees are derived from the machine id unless systemd-id128 failed.
BoundWhole ==
    bound => {"gadget", "config", "function", "fnlink"} \subseteq tree
             /\ (mac = "stable" \/ noid)
=============================================================================
