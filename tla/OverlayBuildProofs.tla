------------------------- MODULE OverlayBuildProofs -------------------------
(* A successful run of lyra-overlays leaves overlays, boot configuration and *)
(* configuration in agreement, after any history of failed, interrupted and  *)
(* successful runs.                                                          *)
EXTENDS OverlayBuild, TLAPS

Installing == {"wipe", "install", "backup", "config", "conf", "update"}
Norm == NormOf[local_cfg]

\* Which configuration a run is about: with --skip-config the installed one,
\* otherwise the one that went through the menu.
ConfigInv ==
    /\ args.skipConfig /\ pc \in Busy => ~cfg_updated
    /\ cfg_updated => local_cfg \in Configs
    /\ args.skipConfig => pc \notin {"menu", "prompt", "config"}
    /\ ~args.skipConfig /\ pc \in Busy \ {"prepare", "menu"} => cfg_updated
    /\ args.skipConfig /\ pc \in Busy \ {"prepare"} /\ cfg # None => NormOf[cfg] = Norm

\* The build directory follows the progress of the compilation.
BuildInv ==
    /\ pc \in {"prepare", "menu", "genconfig"} => build = {}
    /\ pc = "compile" => todo \subseteq Active /\ build = Built(Active \ todo, Norm)
    /\ pc \in {"check", "prompt"} \cup Installing => build = Built(Active, Norm)

\* The disk follows the progress of the installation.
DiskInv ==
    /\ pc = "install" => todo \subseteq Active /\ out = Built(Active \ todo, Norm)
    /\ pc \in {"backup", "config", "conf", "update"} => out = Built(Active, Norm)
    /\ pc \in {"config", "conf", "update"} => bak = local_cfg
    /\ pc \in {"conf", "update"} /\ cfg # None => NormOf[cfg] = Norm
    /\ pc = "update" => conf = Named(Active)

\* Nothing is installed that did not pass the check, unless it was skipped.
CheckedInv ==
    /\ ~args.skipCheck /\ pc \in Installing => Norm \notin Clashing
    /\ pc \in Installing \ {"wipe"} => ~whole /\ checked = ~args.skipCheck

OvInv ==
    /\ TypeOK /\ ConfigInv /\ BuildInv /\ DiskInv /\ CheckedInv
    /\ SuccessAgrees /\ OneGeneration /\ NeverClashing /\ BootLoadable

LEMMA InitOv == Init => OvInv
<1> SUFFICES ASSUME Init
             PROVE  OvInv
  OBVIOUS
<1> USE DEF Args
<1>1. TypeOK
  BY DEF Init, TypeOK, AtRest, Busy
<1>2. ConfigInv /\ BuildInv /\ DiskInv
  BY DEF Init, ConfigInv, BuildInv, DiskInv, Busy, Installing
<1>3. CheckedInv
  BY DEF Init, CheckedInv, Installing
<1>4. SuccessAgrees /\ OneGeneration /\ NeverClashing /\ BootLoadable
  BY DEF Init, SuccessAgrees, OneGeneration, NeverClashing, BootLoadable
<1>5. QED
  BY <1>1, <1>2, <1>3, <1>4 DEF OvInv

\* What is built from one rule, and from some rules and one more.
LEMMA BuiltOne ==
    ASSUME NEW r, NEW c
    PROVE  Built({r}, c) = {[name |-> OutputOf[r], cfg |-> c]}
<1>1. \A x : x \in Named({r}) <=> x = OutputOf[r]
  BY DEF Named
<1>2. \A e : e \in Built({r}, c) => e = [name |-> OutputOf[r], cfg |-> c]
  <2> SUFFICES ASSUME NEW e \in [name : Named({r}), cfg : {c}]
               PROVE  e = [name |-> OutputOf[r], cfg |-> c]
    BY DEF Built
  <2>1. e.name = OutputOf[r] /\ e.cfg = c /\ e = [name |-> e.name, cfg |-> e.cfg]
    BY <1>1
  <2>2. QED
    BY <2>1
<1>3. [name |-> OutputOf[r], cfg |-> c] \in Built({r}, c)
  BY <1>1 DEF Built
<1>4. QED
  BY <1>2, <1>3

LEMMA BuiltMore ==
    ASSUME NEW S, NEW T, NEW r, NEW c, \A x : x \in T <=> x \in S \/ x = r
    PROVE  Built(T, c) = Built(S, c) \cup {[name |-> OutputOf[r], cfg |-> c]}
<1>1. \A x : x \in Named(T) <=> x \in Named(S) \/ x = OutputOf[r]
  BY DEF Named
<1>2. ASSUME NEW e \in [name : Named(T), cfg : {c}]
      PROVE  e \in Built(S, c) \cup {[name |-> OutputOf[r], cfg |-> c]}
  <2>1. /\ e = [name |-> e.name, cfg |-> e.cfg] /\ e.cfg = c
        /\ e.name \in Named(S) \/ e.name = OutputOf[r]
    BY <1>1
  <2>2. CASE e.name \in Named(S)
    BY <2>1, <2>2 DEF Built
  <2>3. CASE e.name = OutputOf[r]
    BY <2>1, <2>3
  <2>4. QED
    BY <2>1, <2>2, <2>3
<1>3. Built(S, c) \subseteq Built(T, c) /\ [name |-> OutputOf[r], cfg |-> c] \in Built(T, c)
  BY <1>1 DEF Built
<1>4. QED
  BY <1>2, <1>3 DEF Built

LEMMA BuiltType ==
    ASSUME NEW S \in SUBSET Rules, NEW c \in Configs \cup {None}
    PROVE  Built(S, c) \subseteq Dtbo /\ Named(S) \subseteq Outputs
BY DEF Built, Named, Dtbo, Outputs

LEMMA BuiltNames ==
    ASSUME NEW S, NEW c
    PROVE  Named(S) \subseteq {d.name : d \in Built(S, c)}
<1> SUFFICES ASSUME NEW n \in Named(S)
             PROVE  \E d \in Built(S, c) : n = d.name
  OBVIOUS
<1>1. [name |-> n, cfg |-> c] \in Built(S, c)
  BY DEF Built
<1>2. QED
  BY <1>1

\* A step that leaves the disk alone keeps what is said of it.
LEMMA DiskUntouched ==
    ASSUME OvInv, UNCHANGED disk, UNCHANGED history, pc' \notin {"install", "backup", "config", "conf", "update"},
           pc' = "done" => args'.dryRun
    PROVE  DiskInv' /\ SuccessAgrees' /\ OneGeneration' /\ NeverClashing' /\ BootLoadable'
BY DEF OvInv, DiskInv, SuccessAgrees, OneGeneration, NeverClashing, BootLoadable, disk, history

\* A run begins, is given up, or fails before it has installed anything.
LEMMA StepEnds == OvInv /\ (Start \/ Reconfigure \/ GiveUp \/ Fail) => OvInv'
<1> USE ConfigsAssumption DEF Args, history
<1>1. ASSUME OvInv, Start
      PROVE  OvInv'
  <2>1. PICK a \in Args : args' = [a EXCEPT !.skipConfig = @ \/ a.batch]
    BY <1>1 DEF Start
  <2>2. args' \in Args
    BY <2>1 DEF Args
  <2>3. TypeOK'
    BY <1>1, <2>2 DEF Start, OvInv, TypeOK, disk, AtRest, Busy, Goto
  <2>4. ConfigInv' /\ BuildInv' /\ CheckedInv'
    BY <1>1, <2>2 DEF Start, ConfigInv, BuildInv, CheckedInv, Goto, Busy, Installing
  <2>5. QED
    BY <1>1, <2>3, <2>4, DiskUntouched DEF OvInv, Start, Goto
<1>2. ASSUME OvInv, Reconfigure
      PROVE  OvInv'
  <2>1. TypeOK'
    BY <1>2 DEF Reconfigure, OvInv, TypeOK, disk, AtRest, Busy, Goto
  <2>2. ConfigInv' /\ BuildInv' /\ CheckedInv'
    BY <1>2 DEF Reconfigure, OvInv, ConfigInv, BuildInv, CheckedInv, Goto, Busy, Installing
  <2>3. QED
    BY <1>2, <2>1, <2>2, DiskUntouched DEF OvInv, Reconfigure, Goto
<1>3. ASSUME OvInv, GiveUp \/ Fail
      PROVE  OvInv'
  <2>1. TypeOK'
    BY <1>3 DEF GiveUp, Fail, OvInv, TypeOK, disk, AtRest, Busy, Goto
  <2>2. ConfigInv' /\ BuildInv' /\ CheckedInv'
    BY <1>3 DEF GiveUp, Fail, OvInv, ConfigInv, BuildInv, CheckedInv, Goto, Busy, Installing
  <2>3. QED
    BY <1>3, <2>1, <2>2, DiskUntouched DEF OvInv, GiveUp, Fail, Goto
<1>4. QED
  BY <1>1, <1>2, <1>3

\* The configuration is prepared and edited.
LEMMA StepConfigures == OvInv /\ (Prepare \/ Menu \/ Genconfig) => OvInv'
<1> SUFFICES ASSUME OvInv, Prepare \/ Menu \/ Genconfig
             PROVE  OvInv'
  OBVIOUS
<1> USE ConfigsAssumption DEF Args, history
<1>1. CASE Prepare
  <2>1. /\ local_cfg' \in Configs
        /\ ~cfg_updated /\ cfg # None => local_cfg' = NormOf[cfg]
    <3>1. CASE cfg_updated
      BY <1>1, <3>1 DEF Prepare, OvInv, TypeOK, ConfigInv, Busy
    <3>2. CASE ~cfg_updated
      BY <1>1, <3>2 DEF Prepare, Initial, OvInv, TypeOK
    <3>3. QED
      BY <3>1, <3>2
  <2>2. TypeOK'
    BY <1>1, <2>1 DEF Prepare, OvInv, TypeOK, disk, AtRest, Busy, Goto
  <2>3. ConfigInv'
    <3>1. NormOf[local_cfg'] = local_cfg' \/ cfg_updated \/ cfg = None
      BY <2>1 DEF OvInv, TypeOK
    <3>2. args.skipConfig => ~cfg_updated
      BY <1>1 DEF Prepare, OvInv, ConfigInv, Busy
    <3>3. args.skipConfig /\ cfg # None => NormOf[cfg] = NormOf[local_cfg']
      BY <2>1, <3>1, <3>2
    <3>4. QED
      BY <1>1, <2>1, <3>2, <3>3 DEF Prepare, OvInv, ConfigInv, Goto, Busy, Norm, disk
  <2>4. BuildInv' /\ CheckedInv'
    BY <1>1 DEF Prepare, OvInv, BuildInv, CheckedInv, Goto, Busy, Installing
  <2>5. QED
    BY <1>1, <2>2, <2>3, <2>4, DiskUntouched DEF OvInv, Prepare, Goto
<1>2. CASE Menu
  <2>1. local_cfg' \in Configs /\ cfg_updated' /\ ~args.skipConfig
    BY <1>2 DEF Menu, OvInv, TypeOK, ConfigInv, Busy
  <2>2. TypeOK'
    BY <1>2, <2>1 DEF Menu, OvInv, TypeOK, disk, AtRest, Busy, Goto
  <2>3. ConfigInv' /\ BuildInv' /\ CheckedInv'
    BY <1>2, <2>1 DEF Menu, OvInv, ConfigInv, BuildInv, CheckedInv, Goto, Busy, Installing
  <2>4. QED
    BY <1>2, <2>2, <2>3, DiskUntouched DEF OvInv, Menu, Goto
<1>3. CASE Genconfig
  <2>1. local_cfg \in Configs /\ Active \subseteq Rules
    BY <1>3 DEF Genconfig, OvInv, TypeOK, Busy, Active
  <2>2. TypeOK'
    BY <1>3, <2>1 DEF Genconfig, OvInv, TypeOK, disk, AtRest, Busy, Goto
  <2>3. ConfigInv' /\ CheckedInv'
    BY <1>3 DEF Genconfig, OvInv, ConfigInv, CheckedInv, Goto, Busy, Installing, Norm, disk
  <2>4. BuildInv'
    <3>1. build = {} /\ Built(Active \ Active, Norm) = {}
      BY <1>3 DEF Genconfig, OvInv, BuildInv, Built, Named
    <3>2. QED
      BY <1>3, <3>1 DEF Genconfig, BuildInv, Goto, Active, Norm, Installing
  <2>5. QED
    BY <1>3, <2>2, <2>3, <2>4, DiskUntouched DEF OvInv, Genconfig, Goto
<1>4. QED
  BY <1>1, <1>2, <1>3

\* The overlays are compiled and checked.
LEMMA StepBuilds == OvInv /\ (Compile \/ Check) => OvInv'
<1> SUFFICES ASSUME OvInv, Compile \/ Check
             PROVE  OvInv'
  OBVIOUS
<1> USE ConfigsAssumption DEF Args, history
<1>1. /\ local_cfg \in Configs /\ Norm \in Configs /\ Active \subseteq Rules
      /\ Active' = Active /\ Norm' = Norm /\ UNCHANGED <<disk, history>> /\ args' = args
      /\ UNCHANGED <<local_cfg, cfg_updated>>
  BY DEF Compile, Check, OvInv, TypeOK, Busy, Active, Norm, AtRest, disk
<1>2. CASE Compile /\ UNCHANGED pc
  <2>1. PICK r \in todo : /\ build' = build \cup Built({r}, Norm) /\ todo' = todo \ {r}
    <3>1. pc = "compile" /\ pc' = "compile"
      BY <1>2 DEF Compile
    <3>2. AfterCompile # "compile"
      BY DEF AfterCompile
    <3>3. \E r \in todo : IF OutputOf[r] \in {d.name : d \in build}
                         THEN pc' = "duplicate"
                         ELSE build' = build \cup Built({r}, Norm) /\ todo' = todo \ {r}
      BY <1>2, <3>1, <3>2 DEF Compile, Goto, Norm
    <3>4. QED
      BY <3>1, <3>3
  <2>2. todo \subseteq Active /\ build = Built(Active \ todo, Norm) /\ pc = "compile"
    BY <1>2 DEF Compile, OvInv, BuildInv
  <2>3. build' = Built(Active \ todo', Norm)
    <3>1. \A x : x \in Active \ todo' <=> x \in Active \ todo \/ x = r
      BY <2>1, <2>2
    <3>2. Built({r}, Norm) = {[name |-> OutputOf[r], cfg |-> Norm]}
      BY BuiltOne
    <3>3. ASSUME NEW S, NEW T, S = Active \ todo, T = Active \ todo'
          PROVE  Built(T, Norm) = Built(S, Norm) \cup {[name |-> OutputOf[r], cfg |-> Norm]}
      <4>1. \A x : x \in T <=> x \in S \/ x = r
        BY <3>1, <3>3
      <4>2. QED
        BY <4>1, BuiltMore
    <3>4. QED
      BY <2>1, <2>2, <3>2, <3>3
  <2>4. TypeOK'
    <3>1. build' \subseteq Dtbo
      BY <1>1, <2>3, BuiltType
    <3>2. QED
      BY <1>1, <1>2, <2>1, <3>1 DEF OvInv, TypeOK, disk
  <2>5. ConfigInv' /\ BuildInv' /\ CheckedInv'
    BY <1>1, <1>2, <2>1, <2>2, <2>3 DEF OvInv, ConfigInv, BuildInv, CheckedInv, disk,
       Installing
  <2>6. QED
    BY <1>1, <1>2, <2>2, <2>4, <2>5, DiskUntouched DEF OvInv
<1>3. CASE Compile /\ pc' = "duplicate" /\ UNCHANGED <<todo, build>>
  <2>1. TypeOK' /\ ConfigInv' /\ BuildInv' /\ CheckedInv'
    BY <1>1, <1>3 DEF OvInv, TypeOK, ConfigInv, BuildInv, CheckedInv, disk, AtRest, Busy,
       Installing
  <2>2. QED
    BY <1>1, <1>3, <2>1, DiskUntouched DEF OvInv
<1>4. CASE Compile /\ todo = {} /\ Goto(AfterCompile) /\ UNCHANGED <<todo, build>>
  <2>1. build = Built(Active, Norm) /\ pc = "compile"
    BY <1>4 DEF Compile, OvInv, BuildInv
  <2>2. /\ pc' \in {"done", "wipe", "check"} /\ (pc' = "done" => args.dryRun)
        /\ pc' # "check" => args.skipCheck
    BY <1>4 DEF AfterCompile, Goto
  <2>3. TypeOK'
    BY <1>1, <1>4, <2>2 DEF OvInv, TypeOK, disk, AtRest, Busy
  <2>4. ConfigInv' /\ BuildInv'
    BY <1>1, <1>4, <2>1, <2>2 DEF OvInv, ConfigInv, BuildInv, disk, Busy, Installing
  <2>5. CheckedInv'
    BY <1>1, <2>2 DEF OvInv, CheckedInv, Installing
  <2>6. QED
    BY <1>1, <2>2, <2>3, <2>4, <2>5, DiskUntouched DEF OvInv
<1>5. CASE Check
  <2>1. build = Built(Active, Norm) /\ pc = "check" /\ UNCHANGED <<todo, build>>
    BY <1>5 DEF Check, OvInv, BuildInv
  <2>2. /\ pc' \in {"done", "wipe", "failed", "prompt"} /\ (pc' = "done" => args.dryRun)
        /\ pc' = "wipe" => local_cfg \notin Clashing
        /\ pc' = "prompt" => ~args.skipConfig
    BY <1>5 DEF Check, AfterCheck, Clashes, Goto
  <2>3. TypeOK'
    BY <1>1, <2>1, <2>2 DEF OvInv, TypeOK, disk, AtRest, Busy
  <2>4. ConfigInv' /\ BuildInv'
    BY <1>1, <2>1, <2>2 DEF OvInv, ConfigInv, BuildInv, disk, Busy, Installing
  <2>5. CheckedInv'
    BY <1>1, <2>2 DEF OvInv, CheckedInv, Installing, Norm
  <2>6. QED
    BY <1>1, <2>2, <2>3, <2>4, <2>5, DiskUntouched DEF OvInv
<1>6. QED
  BY <1>2, <1>3, <1>4, <1>5 DEF Compile, Goto

\* The installation, step by step.
LEMMA StepInstalls ==
    OvInv /\ (Wipe \/ InstallOverlay \/ Backup \/ InstallConfig \/ InstallConf \/ Update)
        => OvInv'
<1> SUFFICES ASSUME OvInv, Wipe \/ InstallOverlay \/ Backup \/ InstallConfig
                           \/ InstallConf \/ Update
             PROVE  OvInv'
  OBVIOUS
<1> USE ConfigsAssumption DEF Args, history
<1>1. /\ local_cfg \in Configs /\ Norm \in Configs /\ Active \subseteq Rules
      /\ Active' = Active /\ Norm' = Norm /\ args' = args
      /\ UNCHANGED <<local_cfg, cfg_updated, build>> /\ pc \in Installing
      /\ build = Built(Active, Norm)
  BY DEF Wipe, InstallOverlay, Backup, InstallConfig, InstallConf, Update, OvInv, TypeOK,
     BuildInv, Busy, Active, Norm, AtRest, Installing
<1>2. ~args.skipCheck => Norm \notin Clashing
  BY <1>1 DEF OvInv, CheckedInv
<1>3. \A S \in SUBSET Rules : \A d \in Built(S, Norm) : d.cfg = Norm
  BY DEF Built
<1>4. CASE Wipe
  <2>1. out' \subseteq out /\ UNCHANGED <<cfg, bak, conf, boot>>
    BY <1>4 DEF Wipe
  <2>2. whole' \in BOOLEAN /\ ~whole'
    BY <1>4, Zenon DEF Wipe
  <2>3. checked' \in BOOLEAN
    BY <1>4 DEF Wipe, OvInv, TypeOK
  <2>4. CASE UNCHANGED <<todo, pc, checked>>
    <3>1. TypeOK' /\ ConfigInv' /\ BuildInv' /\ DiskInv' /\ CheckedInv'
      BY <1>1, <1>4, <2>1, <2>2, <2>3, <2>4 DEF Wipe, OvInv, TypeOK, ConfigInv, BuildInv, DiskInv,
         CheckedInv, Busy, AtRest, Installing
    <3>2. SuccessAgrees' /\ OneGeneration' /\ NeverClashing' /\ BootLoadable'
      BY <1>4, <2>1, <2>2, <2>3, <2>4 DEF Wipe, OvInv, SuccessAgrees, OneGeneration, NeverClashing, BootLoadable
    <3>3. QED
      BY <3>1, <3>2 DEF OvInv
  <2>5. CASE /\ out = {} /\ todo' = Active /\ Goto("install") /\ UNCHANGED out
             /\ checked' = ~args.skipCheck
    <3>1. TypeOK' /\ ConfigInv' /\ BuildInv' /\ CheckedInv'
      BY <1>1, <1>4, <2>1, <2>2, <2>3, <2>5 DEF Wipe, OvInv, TypeOK, ConfigInv, BuildInv,
         CheckedInv, Busy, AtRest, Installing, Goto
    <3>2. DiskInv'
      BY <1>1, <2>5 DEF DiskInv, Goto, Built, Named
    <3>3. SuccessAgrees' /\ OneGeneration' /\ NeverClashing' /\ BootLoadable'
      BY <2>1, <2>2, <2>3, <2>5 DEF Goto, OvInv, SuccessAgrees, OneGeneration, NeverClashing, BootLoadable
    <3>4. QED
      BY <3>1, <3>2, <3>3 DEF OvInv
  <2>6. QED
    BY <1>4, <2>4, <2>5 DEF Wipe
<1>5. CASE InstallOverlay
  <2>1. /\ todo \subseteq Active /\ out = Built(Active \ todo, Norm) /\ pc = "install"
        /\ UNCHANGED <<cfg, bak, conf, boot, whole, checked>>
        /\ ~whole /\ checked = ~args.skipCheck
    BY <1>5 DEF InstallOverlay, OvInv, DiskInv, CheckedInv, Installing
  <2>2. CASE \E r \in todo, d \in build :
               /\ d.name = OutputOf[r] /\ out' = {e \in out : e.name # d.name} \cup {d}
               /\ todo' = todo \ {r} /\ UNCHANGED pc
    <3>1. PICK r \in todo, d \in build :
               /\ d.name = OutputOf[r] /\ out' = {e \in out : e.name # d.name} \cup {d}
               /\ todo' = todo \ {r} /\ UNCHANGED pc
      BY <2>2
    <3>2. d = [name |-> OutputOf[r], cfg |-> Norm]
      <4>1. d \in [name : Named(Active), cfg : {Norm}] /\ d.name = OutputOf[r]
        BY <1>1, <3>1 DEF Built
      <4>2. d = [name |-> d.name, cfg |-> d.cfg] /\ d.cfg = Norm
        BY <4>1
      <4>3. QED
        BY <4>1, <4>2
    <3>3. \A e \in out : e.name = d.name => e = d
      BY <1>1, <2>1 DEF Built
    <3>4. out' = out \cup {d}
      BY <3>1, <3>3
    <3>5. out' = Built(Active \ todo', Norm)
      <4>1. \A x : x \in Active \ todo' <=> x \in Active \ todo \/ x = r
        BY <2>1, <3>1
      <4>2. QED
        BY <2>1, <3>2, <3>4, <4>1, BuiltMore
    <3>6. todo' \subseteq Active
      BY <2>1, <3>1
    <3>7. out' \subseteq Dtbo
      BY <1>1, <3>5, BuiltType
    <3>8. TypeOK' /\ ConfigInv' /\ BuildInv' /\ DiskInv' /\ CheckedInv'
      BY <1>1, <2>1, <3>1, <3>5, <3>6, <3>7 DEF OvInv, TypeOK, ConfigInv, BuildInv,
         DiskInv, CheckedInv, Busy, Installing
    <3>9. \A e \in out' : e.cfg = Norm
      BY <1>1, <1>3, <3>5
    <3>10. SuccessAgrees' /\ OneGeneration' /\ NeverClashing' /\ BootLoadable'
      BY <1>2, <2>1, <3>1, <3>9 DEF SuccessAgrees, OneGeneration, NeverClashing, BootLoadable
    <3>11. QED
      BY <3>8, <3>10 DEF OvInv
  <2>3. CASE todo = {} /\ Goto("backup") /\ UNCHANGED <<out, todo>>
    <3>1. out' = Built(Active, Norm)
      BY <2>1, <2>3
    <3>2. TypeOK' /\ ConfigInv' /\ BuildInv' /\ DiskInv' /\ CheckedInv'
      BY <1>1, <2>1, <2>3, <3>1 DEF OvInv, TypeOK, ConfigInv, BuildInv, DiskInv,
         CheckedInv, Busy, Installing, Goto
    <3>3. SuccessAgrees' /\ OneGeneration' /\ NeverClashing' /\ BootLoadable'
      BY <2>1, <2>3 DEF OvInv, SuccessAgrees, OneGeneration, NeverClashing, BootLoadable, Goto
    <3>4. QED
      BY <3>2, <3>3 DEF OvInv
  <2>4. QED
    BY <1>5, <2>2, <2>3 DEF InstallOverlay
<1>6. CASE Backup \/ InstallConfig \/ InstallConf
  <2>1. /\ out' = Built(Active, Norm) /\ UNCHANGED <<out, todo>>
        /\ pc' \in {"config", "conf", "update"}
        /\ UNCHANGED <<whole, checked>> /\ ~whole /\ checked = ~args.skipCheck
    BY <1>6 DEF Backup, InstallConfig, InstallConf, AfterInstall, OvInv, DiskInv, Goto,
       CheckedInv, Installing
  <2>2. TypeOK'
    BY <1>1, <1>6, <2>1, BuiltType DEF Backup, InstallConfig, InstallConf, OvInv, TypeOK,
       Busy, AtRest
  <2>3. ConfigInv' /\ BuildInv' /\ CheckedInv'
    BY <1>1, <1>6, <2>1 DEF Backup, InstallConfig, InstallConf, AfterInstall, OvInv,
       ConfigInv, BuildInv, CheckedInv, Busy, Installing, Goto, TypeOK
  <2>4. DiskInv'
    BY <1>1, <1>6, <2>1 DEF Backup, InstallConfig, InstallConf, AfterInstall, OvInv,
       DiskInv, ConfigInv, Busy, Goto, Norm
  <2>5. SuccessAgrees' /\ OneGeneration' /\ NeverClashing' /\ BootLoadable'
    BY <2>1 DEF OvInv, SuccessAgrees, OneGeneration, NeverClashing, BootLoadable
  <2>6. QED
    BY <2>2, <2>3, <2>4, <2>5 DEF OvInv
<1>7. CASE Update
  <2>1. /\ out = Built(Active, Norm) /\ bak = local_cfg /\ conf = Named(Active)
        /\ cfg # None => NormOf[cfg] = Norm
        /\ UNCHANGED <<cfg, out, bak, conf, todo, checked>>
        /\ pc' \in {"done", "failed"} /\ boot' \in {boot, conf}
        /\ pc' = "done" => boot' = conf
        /\ checked = ~args.skipCheck
    BY <1>7 DEF Update, OvInv, TypeOK, DiskInv, CheckedInv, Installing, Goto
  <2>2. whole' \in BOOLEAN /\ (whole' => boot' = conf)
    <3>1. whole \in BOOLEAN /\ ~whole
      BY <1>7 DEF Update, OvInv, TypeOK, CheckedInv, Installing
    <3>2. CASE boot' = conf /\ whole' = TRUE
      BY <3>2
    <3>3. CASE UNCHANGED whole
      BY <3>1, <3>3
    <3>4. QED
      BY <1>7, <3>2, <3>3, Zenon DEF Update
  <2>3. TypeOK'
    BY <1>1, <2>1, <2>2 DEF OvInv, TypeOK, Busy, AtRest
  <2>4. ConfigInv' /\ BuildInv' /\ DiskInv' /\ CheckedInv'
    BY <1>1, <2>1 DEF OvInv, ConfigInv, BuildInv, DiskInv, CheckedInv, Busy, Installing
  <2>5. SuccessAgrees' /\ OneGeneration' /\ NeverClashing' /\ BootLoadable'
    <3>1. conf \subseteq {d.name : d \in out}
      BY <2>1, BuiltNames
    <3>2. QED
      BY <1>1, <2>1, <2>2, <3>1 DEF OvInv, SuccessAgrees, OneGeneration, NeverClashing, BootLoadable, Norm
  <2>6. QED
    BY <2>3, <2>4, <2>5 DEF OvInv
<1>8. QED
  BY <1>4, <1>5, <1>6, <1>7

\* The run is cut off.
LEMMA StepCrash == OvInv /\ Crash => OvInv'
<1> SUFFICES ASSUME OvInv, Crash
             PROVE  OvInv'
  OBVIOUS
<1> USE ConfigsAssumption DEF Args, history
<1>1. /\ pc' = "off" /\ UNCHANGED <<args, boot, history>>
      /\ todo' = {} /\ local_cfg' = None /\ cfg_updated' = FALSE /\ build' = {}
      /\ cfg' \in {cfg} \cup Configs /\ bak' \in {bak} \cup Configs /\ conf' \in {conf, {}}
  BY DEF Crash, Goto
<1>2. out' \subseteq Dtbo /\ \A d \in out' : d \in out \/ d.cfg = None
  <2>1. CASE UNCHANGED out
    BY <2>1 DEF OvInv, TypeOK
  <2>2. CASE \E r \in todo : out' = {e \in out : e.name # OutputOf[r]} \cup Built({r}, None)
    <3>1. PICK r \in todo : out' = {e \in out : e.name # OutputOf[r]} \cup Built({r}, None)
      BY <2>2
    <3>2. {r} \in SUBSET Rules
      BY DEF OvInv, TypeOK
    <3>3. Built({r}, None) \subseteq Dtbo /\ \A d \in Built({r}, None) : d.cfg = None
      BY <3>2, BuiltType DEF Built
    <3>4. QED
      BY <3>1, <3>3 DEF OvInv, TypeOK
  <2>3. QED
    BY <2>1, <2>2 DEF Crash
<1>3. TypeOK'
  BY <1>1, <1>2 DEF OvInv, TypeOK, AtRest, Busy
<1>4. whole => out' = out
  BY DEF Crash, OvInv, CheckedInv, Installing
<1>5. ConfigInv' /\ BuildInv' /\ DiskInv' /\ CheckedInv'
  BY <1>1 DEF OvInv, ConfigInv, BuildInv, DiskInv, CheckedInv, Busy, Installing
<1>6. SuccessAgrees' /\ OneGeneration' /\ NeverClashing' /\ BootLoadable'
  BY <1>1, <1>2, <1>4 DEF OvInv, SuccessAgrees, OneGeneration, NeverClashing, BootLoadable
<1>7. QED
  BY <1>3, <1>5, <1>6 DEF OvInv

LEMMA OvInvariant == Spec => []OvInv
<1>1. OvInv /\ UNCHANGED vars => OvInv'
  BY DEF vars, disk, run, history, OvInv, TypeOK, ConfigInv, BuildInv, DiskInv, CheckedInv,
     SuccessAgrees, OneGeneration, NeverClashing, BootLoadable, Active, Norm
<1>2. OvInv /\ [Next]_vars => OvInv'
  BY <1>1, StepEnds, StepConfigures, StepBuilds, StepInstalls, StepCrash DEF Next
<1>3. QED
  BY InitOv, <1>2, PTL DEF Spec

\* Whatever earlier runs left behind, a run of main_with that installs and
\* reports success leaves overlays, boot configuration, backup and installed
\* configuration in agreement.
THEOREM SuccessAgreesHolds == Spec => []SuccessAgrees
<1>1. OvInv => SuccessAgrees
  BY DEF OvInv
<1>2. QED
  BY OvInvariant, <1>1, PTL

\* InstallOverlays never leaves the overlays of two configurations side by
\* side, wherever it is cut off.
THEOREM OneGenerationHolds == Spec => []OneGeneration
<1>1. OvInv => OneGeneration
  BY DEF OvInv
<1>2. QED
  BY OvInvariant, <1>1, PTL

\* Unless the run that installed it skipped the check, no overlay of a
\* configuration that fails the pin check (build.py, Check.run) is installed.
THEOREM NeverClashingHolds == Spec => []NeverClashing
<1>1. OvInv => NeverClashing
  BY DEF OvInv
<1>2. QED
  BY OvInvariant, <1>1, PTL

\* The boot configuration names no missing overlay, through runs that fail, are
\* given up or are cut off, until an installation begins to remove overlays
\* (build.py, InstallOverlays.run), and again when one is complete.
THEOREM BootLoadableHolds == Spec => []BootLoadable
<1>1. OvInv => BootLoadable
  BY DEF OvInv
<1>2. QED
  BY OvInvariant, <1>1, PTL

\* A rule that is refused has the name of another active rule, whose overlay
\* was made in this very try: the build directory holds no others.
LEMMA RefusedTwice ==
    ASSUME OvInv, pc = "compile", NEW r \in todo, OutputOf[r] \in {d.name : d \in build}
    PROVE  \E q, s \in Active : q # s /\ OutputOf[q] = OutputOf[s]
<1>1. todo \subseteq Active /\ build = [name : Named(Active \ todo), cfg : {Norm}]
  BY DEF OvInv, BuildInv, Built
<1>2. PICK d \in build : OutputOf[r] = d.name
  OBVIOUS
<1>3. d.name \in Named(Active \ todo)
  BY <1>1, <1>2
<1>4. PICK s \in Active \ todo : d.name = OutputOf[s]
  BY <1>3 DEF Named
<1>5. r \in Active /\ s \in Active /\ r # s
  BY <1>1, <1>4
<1>6. QED
  BY <1>2, <1>4, <1>5

LEMMA StepDuplicate == OvInv /\ DuplicateIsReal /\ [Next]_vars => DuplicateIsReal'
<1> SUFFICES ASSUME OvInv, DuplicateIsReal, [Next]_vars, pc' = "duplicate"
             PROVE  \E r, s \in Active' : r # s /\ OutputOf[r] = OutputOf[s]
  BY DEF DuplicateIsReal
<1>1. CASE Compile /\ pc # "duplicate"
  <2>1. pc = "compile" /\ Active' = Active
    BY <1>1 DEF Compile, Active
  <2>2. AfterCompile # "duplicate"
    BY DEF AfterCompile
  <2>3. PICK r \in todo : OutputOf[r] \in {d.name : d \in build}
    BY <1>1, <2>1, <2>2 DEF Compile, Goto
  <2>4. QED
    BY <2>1, <2>3, RefusedTwice
<1>2. CASE ~Compile
  <2>1. UNCHANGED <<pc, local_cfg>>
    BY <1>2 DEF Next, vars, run, Goto, Start, Reconfigure, GiveUp, Fail, Prepare, Menu,
       Genconfig, Check, AfterCheck, Wipe, InstallOverlay, Backup, AfterInstall,
       InstallConfig, InstallConf, Update, Crash
  <2>2. QED
    BY <2>1 DEF DuplicateIsReal, Active
<1>3. QED
  BY <1>1, <1>2 DEF Compile

\* However often the user reconfigures, main_with reports a duplicate name
\* (build.py, Compile) only of two rules that are both active: what an earlier
\* try compiled is never taken for one.
THEOREM DuplicateIsRealHolds == Spec => []DuplicateIsReal
<1>1. Init => DuplicateIsReal
  BY DEF Init, DuplicateIsReal
<1>2. QED
  BY OvInvariant, StepDuplicate, <1>1, PTL DEF Spec

\* A run never loses what the user edited: after a refused try Prepare starts
\* from the edited configuration, and no other step touches it.
THEOREM EditsKeptHolds == Spec => EditsKept
<1>1. [Next]_vars => [cfg_updated /\ cfg_updated' /\ pc # "menu" => local_cfg' = local_cfg]_vars
  BY DEF Next, vars, run, Start, Reconfigure, GiveUp, Fail, Prepare, Menu, Genconfig,
     Compile, Check, Wipe, InstallOverlay, Backup, InstallConfig, InstallConf, Update, Crash
<1>2. QED
  BY <1>1, PTL DEF Spec, EditsKept
=============================================================================
