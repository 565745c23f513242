---------------------------- MODULE OverlayBuild ----------------------------
(***************************************************************************)
(* The lyra-overlays tool: main_with (cli.py) and the steps it runs        *)
(* (build.py), run after run.  A run configures, compiles and checks in a  *)
(* temporary directory and then installs in place, file by file; it may be *)
(* cut off anywhere, and the next run finds what it left.                  *)
(*                                                                         *)
(* A configuration is the content of a .config file; loading one gives     *)
(* every symbol a value, which is the configuration NormOf names.          *)
(***************************************************************************)
EXTENDS FiniteSets, Naturals

CONSTANTS Configs,      \* the contents of configuration files
          NormOf,       \* what loading a configuration makes of it
          Cuts,         \* what is left of one that was cut while it was written
          Guesses,      \* what Prepare may write when no configuration is installed
          Rules,        \* the .dtso rules of the Lbuild files
          ActiveOf,     \* the rules active under a configuration
          OutputOf,     \* the file name a rule's overlay gets
          Clashing,     \* the configurations whose overlays share a pin
          None

Outputs == {OutputOf[r] : r \in Rules}
Dtbo == [name : Outputs, cfg : Configs \cup {None}]

ASSUME ConfigsAssumption ==
    /\ NormOf \in [Configs -> Configs] /\ \A c \in Configs : NormOf[NormOf[c]] = NormOf[c]
    /\ Cuts \subseteq Configs /\ Guesses \subseteq Configs
    /\ None \notin Configs
    /\ ActiveOf \in [Configs -> SUBSET Rules] /\ DOMAIN OutputOf = Rules
    /\ \A c \in Configs : ActiveOf[c] = ActiveOf[NormOf[c]]
    /\ Clashing \subseteq Configs /\ \A c \in Configs : c \in Clashing <=> NormOf[c] \in Clashing

Args == [skipConfig : BOOLEAN, skipCheck : BOOLEAN, batch : BOOLEAN, dryRun : BOOLEAN]

VARIABLES
    \* --- what outlives a run
    cfg,        \* /etc/lyra-overlays.config, or None
    out,        \* the .dtbo files in the overlay directory
    bak,        \* lyra-overlays.config.bak
    conf,       \* the overlays 30-lyra-overlays.conf names
    boot,       \* those u-boot-update put into the boot configuration
    \* --- a run
    args,
    pc,
    todo,       \* the active rules the current step has still to handle
    local_cfg,
    cfg_updated,
    build,      \* the .dtbo files in the temporary directory
    \* --- history
    whole,      \* no installation has begun since one was completed
    checked     \* the last one to copy overlays had not skipped the check

disk == <<cfg, out, bak, conf, boot>>
run == <<args, pc, todo, local_cfg, cfg_updated, build>>
history == <<whole, checked>>
vars == <<disk, run, history>>

AtRest == {"off", "done", "failed", "duplicate"}
Busy == {"prepare", "menu", "genconfig", "compile", "check", "prompt", "wipe",
         "install", "backup", "config", "conf", "update"}

TypeOK ==
    /\ cfg \in Configs \cup {None} /\ bak \in Configs \cup {None}
    /\ out \subseteq Dtbo /\ build \subseteq Dtbo
    /\ conf \subseteq Outputs /\ boot \subseteq Outputs
    /\ args \in Args /\ whole \in BOOLEAN /\ checked \in BOOLEAN
    /\ pc \in AtRest \cup Busy
    /\ todo \subseteq Rules
    /\ local_cfg \in Configs \cup {None} /\ cfg_updated \in BOOLEAN
    /\ pc \in Busy \ {"prepare"} => local_cfg \in Configs

Named(rules) == {OutputOf[r] : r \in rules}
Built(rules, c) == [name : Named(rules), cfg : {c}]
Active == ActiveOf[local_cfg]
Goto(l) == pc' = l

\* A machine on which the tool has never run.
Init ==
    /\ cfg = None /\ out = {} /\ bak = None /\ conf = {} /\ boot = {}
    /\ args = [skipConfig |-> FALSE, skipCheck |-> FALSE, batch |-> FALSE, dryRun |-> FALSE]
    /\ pc = "off" /\ todo = {} /\ local_cfg = None /\ cfg_updated = FALSE /\ build = {}
    /\ whole = TRUE /\ checked = TRUE

-----------------------------------------------------------------------------
(* main_with *)

\* The options of a run are parsed; --batch implies --skip-config.
Start ==
    /\ pc \in AtRest
    /\ \E a \in Args : args' = [a EXCEPT !.skipConfig = @ \/ a.batch]
    /\ todo' = {} /\ local_cfg' = None /\ cfg_updated' = FALSE /\ build' = {}
    /\ Goto("prepare") /\ UNCHANGED <<disk, history>>

\* The steps after Compile, in order, with those left out that the options
\* exclude.
AfterCompile == IF args.skipCheck THEN (IF args.dryRun THEN "done" ELSE "wipe") ELSE "check"
AfterCheck == IF args.dryRun THEN "done" ELSE "wipe"
AfterInstall == IF args.skipConfig THEN "conf" ELSE "config"

\* Variant: the overlays of the last try are left in the build directory.
ReconfigureNoClean ==
    /\ pc = "prompt" /\ Goto("prepare")
    /\ UNCHANGED <<disk, history, args, todo, local_cfg, cfg_updated, build>>

Reconfigure ==
    /\ pc = "prompt" /\ Goto("prepare") /\ build' = {}
    /\ UNCHANGED <<disk, history, args, todo, local_cfg, cfg_updated>>

GiveUp ==
    /\ pc = "prompt" /\ Goto("failed")
    /\ UNCHANGED <<disk, history, args, todo, local_cfg, cfg_updated, build>>

\* An unknown board, a warning of kconfig, menuconfig, dtc or fdtoverlay: the
\* exception or the exit ends the run before it has installed anything.
Fail ==
    /\ pc \in {"prepare", "menu", "genconfig", "compile", "check"} /\ Goto("failed")
    /\ UNCHANGED <<disk, history, args, todo, local_cfg, cfg_updated, build>>

-----------------------------------------------------------------------------
(* Prepare, Config, Compile, Check *)

\* What Prepare starts from: the installed configuration or a guess
Initial == IF cfg # None THEN {NormOf[cfg]} ELSE Guesses

\* Variant: what was edited in this run is forgotten.
PrepareAgain ==
    /\ pc = "prepare"
    /\ local_cfg' \in Initial
    /\ Goto(IF args.skipConfig THEN "genconfig" ELSE "menu")
    /\ UNCHANGED <<disk, history, args, todo, cfg_updated, build>>

Prepare ==
    /\ pc = "prepare"
    /\ IF cfg_updated THEN UNCHANGED local_cfg ELSE local_cfg' \in Initial
    /\ Goto(IF args.skipConfig THEN "genconfig" ELSE "menu")
    /\ UNCHANGED <<disk, history, args, todo, cfg_updated, build>>

\* menuconfig saves what the user chose, or leaves the file alone; it counts
\* as updated in either case.
Menu ==
    /\ pc = "menu"
    /\ \/ local_cfg' \in {NormOf[c] : c \in Configs}
       \/ UNCHANGED local_cfg
    /\ cfg_updated' = TRUE /\ Goto("genconfig")
    /\ UNCHANGED <<disk, history, args, todo, build>>

Genconfig ==
    /\ pc = "genconfig"
    /\ todo' = Active /\ Goto("compile")
    /\ UNCHANGED <<disk, history, args, local_cfg, cfg_updated, build>>

\* One rule of Compile; the order among the active rules is left open.
Compile ==
    /\ pc = "compile"
    /\ \/ \E r \in todo :
            IF OutputOf[r] \in {d.name : d \in build}
            THEN Goto("duplicate") /\ UNCHANGED <<todo, build>>
            ELSE /\ build' = build \cup Built({r}, NormOf[local_cfg])
                 /\ todo' = todo \ {r} /\ UNCHANGED pc
       \/ todo = {} /\ Goto(AfterCompile) /\ UNCHANGED <<todo, build>>
    /\ UNCHANGED <<disk, history, args, local_cfg, cfg_updated>>

\* Check applies the overlays to a copy of the base tree and looks at the
\* pins; only an interactive run asks what to do about a clash.  Variant: the
\* installed configuration is checked.
ClashesInstalled == cfg \in Clashing
Clashes == local_cfg \in Clashing

Check ==
    /\ pc = "check"
    /\ Goto(IF ~Clashes THEN AfterCheck
            ELSE IF args.skipConfig \/ args.batch THEN "failed" ELSE "prompt")
    /\ UNCHANGED <<disk, history, args, todo, local_cfg, cfg_updated, build>>

-----------------------------------------------------------------------------
(* InstallOverlays, InstallConfig, InstallUBoot *)

\* Variant: only the overlays that will be replaced are removed.
WipeReplaced ==
    /\ pc = "wipe"
    /\ \/ \E d \in out : d.name \in Named(Active) /\ out' = out \ {d} /\ UNCHANGED <<todo, pc, checked>>
       \/ /\ \A d \in out : d.name \notin Named(Active)
          /\ todo' = Active /\ Goto("install") /\ UNCHANGED out
          /\ checked' = ~args.skipCheck
    /\ whole' = FALSE
    /\ UNCHANGED <<cfg, bak, conf, boot, args, local_cfg, cfg_updated, build>>

\* The installed overlays are removed one after the other.
Wipe ==
    /\ pc = "wipe"
    /\ \/ \E d \in out : out' = out \ {d} /\ UNCHANGED <<todo, pc, checked>>
       \/ /\ out = {} /\ todo' = Active /\ Goto("install") /\ UNCHANGED out
          /\ checked' = ~args.skipCheck
    /\ whole' = FALSE
    /\ UNCHANGED <<cfg, bak, conf, boot, args, local_cfg, cfg_updated, build>>

InstallOverlay ==
    /\ pc = "install"
    /\ \/ \E r \in todo, d \in build :
            /\ d.name = OutputOf[r]
            /\ out' = {e \in out : e.name # d.name} \cup {d}
            /\ todo' = todo \ {r} /\ UNCHANGED pc
       \/ todo = {} /\ Goto("backup") /\ UNCHANGED <<out, todo>>
    /\ UNCHANGED <<cfg, bak, conf, boot, args, local_cfg, cfg_updated, build, history>>

Backup ==
    /\ pc = "backup" /\ bak' = local_cfg /\ Goto(AfterInstall)
    /\ UNCHANGED <<cfg, out, conf, boot, args, todo, local_cfg, cfg_updated, build, history>>

InstallConfig ==
    /\ pc = "config" /\ Goto("conf")
    /\ cfg' = IF cfg_updated THEN local_cfg ELSE cfg
    /\ UNCHANGED <<out, bak, conf, boot, args, todo, local_cfg, cfg_updated, build, history>>

InstallConf ==
    /\ pc = "conf" /\ conf' = Named(Active) /\ Goto("update")
    /\ UNCHANGED <<cfg, out, bak, boot, args, todo, local_cfg, cfg_updated, build, history>>

\* Variant: the exit code of u-boot-update is not looked at.
UpdateUnchecked ==
    /\ pc = "update" /\ boot' \in {conf, boot} /\ whole' = TRUE /\ Goto("done")
    /\ UNCHANGED <<cfg, out, bak, conf, args, todo, local_cfg, cfg_updated, build, checked>>

\* u-boot-update reads the file and writes the boot configuration, or fails.
Update ==
    /\ pc = "update"
    /\ \/ boot' = conf /\ whole' = TRUE /\ Goto("done")
       \/ Goto("failed") /\ UNCHANGED <<boot, whole>>
    /\ UNCHANGED <<cfg, out, bak, conf, args, todo, local_cfg, cfg_updated, build, checked>>

\* Power fails, the disk is full or the tool is killed: the run is gone with its
\* temporary directory.  A file that is being written is cut: an overlay without
\* its content, some of a configuration, no list of overlays.
Crash ==
    /\ pc \in Busy /\ Goto("off")
    /\ \/ UNCHANGED <<cfg, out, bak, conf>>
       \/ /\ pc = "install"
          /\ \E r \in todo : out' = {e \in out : e.name # OutputOf[r]} \cup Built({r}, None)
          /\ UNCHANGED <<cfg, bak, conf>>
       \/ pc = "backup" /\ bak' \in Cuts /\ UNCHANGED <<cfg, out, conf>>
       \/ pc = "config" /\ cfg' \in Cuts /\ UNCHANGED <<out, bak, conf>>
       \/ pc = "conf" /\ conf' = {} /\ UNCHANGED <<cfg, out, bak>>
    /\ todo' = {} /\ local_cfg' = None /\ cfg_updated' = FALSE /\ build' = {}
    /\ UNCHANGED <<boot, args, history>>

-----------------------------------------------------------------------------
Next ==
    \/ Start \/ Reconfigure \/ GiveUp \/ Fail
    \/ Prepare \/ Menu \/ Genconfig \/ Compile \/ Check
    \/ Wipe \/ InstallOverlay \/ Backup \/ InstallConfig \/ InstallConf \/ Update
    \/ Crash

Spec == Init /\ [][Next]_vars

-----------------------------------------------------------------------------
(* What is promised. *)

\* When a run that installs reports success, whatever earlier runs left behind:
\* the overlay directory holds exactly the overlays of its configuration, the
\* boot configuration names exactly these, and the backup and the installed
\* configuration are the ones they were made from.
SuccessAgrees ==
    pc = "done" /\ ~args.dryRun =>
        /\ out = Built(Active, NormOf[local_cfg])
        /\ conf = Named(Active) /\ boot = conf
        /\ bak = local_cfg
        /\ cfg # None => NormOf[cfg] = NormOf[local_cfg]

\* The overlay directory never mixes the overlays of two configurations, not
\* even after a crash.
OneGeneration == \A d, e \in out : d.cfg # None /\ e.cfg # None => d.cfg = e.cfg

\* No installed overlay comes from a configuration that uses a pin twice,
\* unless the run that installed it skipped the check.
NeverClashing == checked => \A d \in out : d.cfg \notin Clashing

\* From the end of a complete installation until the next one begins to remove
\* overlays, through runs that fail, are given up or crash, the boot
\* configuration names no missing overlay.
BootLoadable == whole => boot \subseteq {d.name : d \in out}

\* "duplicate overlay name detected" (build.py) is reported only when two
\* active rules have the same name, however often the user reconfigures.
DuplicateIsReal ==
    pc = "duplicate" => \E r, s \in Active : r # s /\ OutputOf[r] = OutputOf[s]

\* What the user edited in a run is what the next try of that run starts from.
EditsKept ==
    [][cfg_updated /\ cfg_updated' /\ pc # "menu" => local_cfg' = local_cfg]_vars
=============================================================================
