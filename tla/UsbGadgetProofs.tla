--------------------------- MODULE UsbGadgetProofs ---------------------------
(* A gadget that is bound is whole, for any number of failures and kills:  *)
(* the script may end anywhere, and what it leaves is still built in order;*)
(* an uninstall that nothing disturbs clears it away.                      *)
EXTENDS UsbGadget, SequenceTheorems, TLAPS

\* The commands, by name and argument
Plains   == {<<"modprobe">>, <<"cd">>, <<"mac">>, <<"bind">>, <<"unbind">>}
OnEntry  == ({"mkdir"} \X (Entries \ {"oslink", "fnlink"}))
                \cup ({"ln", "delete", "rmdir"} \X Entries)
Command  == Plains \cup OnEntry

\* The command at i links the function to the configuration, or writes the
\* addresses.
LinksFunction(s, i) == s[i][1] = "ln" /\ s[i][2] = "fnlink"
WritesMac(s, i)     == s[i][1] = "mac"

Addressed == mac = "stable" \/ noid

\* The function is linked only after its addresses were written.
InOrder(s) == \A i \in 2..Len(s) : LinksFunction(s, i) => WritesMac(s, i - 1)

Closed(t) == \A e \in t : Inside[e] \cup Target[e] \subseteq t

\* The kernel keeps the tree closed and unbinds a gadget without a function;
\* the script writes the addresses just before the link.
Built ==
    /\ Closed(tree)
    /\ bound => "fnlink" \in tree
    /\ "fnlink" \in tree => Addressed
    /\ InOrder(todo)
    /\ todo # <<>> /\ LinksFunction(todo, 1) => Addressed

Typed == TypeOK /\ todo \in Seq(Command)

IInv == Typed /\ Built

-----------------------------------------------------------------------------
LEMMA InstallTyped ==
    /\ InstallCmds \in Seq(Command) /\ InstallCmds # <<>>
    /\ InOrder(InstallCmds) /\ ~LinksFunction(InstallCmds, 1)
<1>1. InstallCmds \in Seq(Command) /\ InstallCmds # <<>>
  BY DEF InstallCmds, Command, Plains, OnEntry, Entries
<1>2. InOrder(InstallCmds)
  BY DEF InstallCmds, InOrder, LinksFunction, WritesMac
<1>3. ~LinksFunction(InstallCmds, 1)
  BY DEF InstallCmds, LinksFunction
<1>4. QED
  BY <1>1, <1>2, <1>3

\* Commands that are run after others, none of which links the function
LEMMA Joined ==
    ASSUME NEW s \in Seq(Command), NEW t \in Seq(Command), InOrder(s),
           s # <<>>, ~LinksFunction(s, 1), \A i \in 1..Len(t) : ~LinksFunction(t, i)
    PROVE  /\ s \o t \in Seq(Command) /\ s \o t # <<>> /\ InOrder(s \o t)
           /\ ~LinksFunction(s \o t, 1)
<1>1. s \o t \in Seq(Command)
  OBVIOUS
<1>2. ASSUME NEW i \in 2..Len(s \o t), LinksFunction(s \o t, i) PROVE WritesMac(s \o t, i - 1)
  <2>1. CASE i =< Len(s)
    BY <1>2, <2>1 DEF InOrder, LinksFunction, WritesMac
  <2>2. CASE i > Len(s)
    <3>1. i - Len(s) \in 1..Len(t) /\ (s \o t)[i] = t[i - Len(s)]
      BY <2>2
    <3>2. QED
      BY <1>2, <3>1 DEF LinksFunction
  <2>3. QED
    BY <2>1, <2>2
<1>3. s \o t # <<>> /\ (s \o t)[1] = s[1]
  OBVIOUS
<1>4. QED
  BY <1>1, <1>2, <1>3 DEF InOrder, LinksFunction

LEMMA CommandsTyped ==
    ASSUME NEW j \in Jobs
    PROVE  /\ Commands(j) \in Seq(Command) /\ Commands(j) # <<>> /\ InOrder(Commands(j))
           /\ ~LinksFunction(Commands(j), 1)
<1> DEFINE bindCmds == << <<"cd">>, <<"bind">> >>
           removeCmds == << <<"cd">>, <<"delete", "oslink">>,
               <<"delete", "fnlink">>, <<"delete", "cstrings">>, <<"delete", "config">>,
               <<"delete", "function">>, <<"delete", "strings">>, <<"rmdir", "gadget">> >>
<1>1. CASE j = "install"
  BY <1>1, InstallTyped DEF Commands
<1>2. CASE j = "enable"
  <2>1. bindCmds \in Seq(Command) /\ \A i \in 1..Len(bindCmds) : ~LinksFunction(bindCmds, i)
    BY DEF Command, Plains, LinksFunction
  <2>2. Commands(j) = InstallCmds \o bindCmds
    BY <1>2 DEF Commands, EnableCmds
  <2> HIDE DEF bindCmds
  <2>3. QED
    BY <2>1, <2>2, InstallTyped, Joined
<1>3. DisableCmds \in Seq(Command) /\ DisableCmds # <<>> /\ InOrder(DisableCmds)
      /\ ~LinksFunction(DisableCmds, 1)
  BY DEF DisableCmds, Command, Plains, InOrder, LinksFunction
<1>4. CASE j = "disable"
  BY <1>3, <1>4 DEF Commands
<1>5. CASE j = "uninstall"
  <2>1. removeCmds \in Seq(Command)
    BY DEF Command, Plains, OnEntry, Entries
  <2>2. \A i \in 1..Len(removeCmds) : ~LinksFunction(removeCmds, i)
    BY DEF LinksFunction
  <2>3. Commands(j) = DisableCmds \o removeCmds
    BY <1>5 DEF Commands, UninstallCmds
  <2> HIDE DEF removeCmds
  <2>4. QED
    BY <1>3, <2>1, <2>2, <2>3, Joined
<1>6. QED
  BY <1>1, <1>2, <1>4, <1>5 DEF Jobs
-----------------------------------------------------------------------------
\* What a type says of the script's own variables
ScriptTyped ==
    /\ began \subseteq Entries /\ {usb, hurt} \subseteq BOOLEAN
    /\ (job = "none" <=> todo = <<>>) /\ job \in Jobs \cup {"none"}
    /\ result \in [job : Jobs \cup {"none"}, how : {"ok", "failed", "killed"}]
    /\ todo \in Seq(Command)

LEMMA SplitTyped ==
    Typed <=> /\ ScriptTyped /\ tree \subseteq Entries /\ {bound, udc, noid} \subseteq BOOLEAN
              /\ mac \in {"random", "stable"}
              /\ unit \in {"inactive", "starting", "active", "stopping", "undoing", "failed"}
              /\ faults \in 0..MaxFaults /\ kills \in 0..MaxKills
BY DEF Typed, TypeOK, ScriptTyped

LEMMA ExitTyped ==
    ASSUME ScriptTyped, NEW how \in {"ok", "failed", "killed"}, Exit(how)
    PROVE  ScriptTyped' /\ todo' = <<>> /\ InOrder(todo')
BY DEF ScriptTyped, Exit, InOrder

\* After a command the next one links the function only if this one wrote
\* the addresses.
LEMMA GoesTyped ==
    ASSUME ScriptTyped, InOrder(todo), todo # <<>>, Goes
    PROVE  /\ ScriptTyped' /\ InOrder(todo')
           /\ todo' # <<>> /\ LinksFunction(todo', 1) => WritesMac(todo, 1)
<1>1. CASE Len(todo) = 1
  <2>1. Exit("ok")
    BY <1>1 DEF Goes
  <2>2. QED
    BY <2>1, ExitTyped
<1>2. CASE Len(todo) # 1
  <2>1. todo' = Tail(todo) /\ UNCHANGED <<job, usb, began, hurt, result>>
    BY <1>2 DEF Goes
  <2>2. todo \in Seq(Command)
    BY DEF ScriptTyped
  <2>3. Len(todo) \in Nat /\ Len(todo) # 0
    <3>1. \A s \in Seq(Command) : (s # <<>>) => (Len(s) \in Nat \ {0})
      BY EmptySeq, Zenon
    <3>2. Len(todo) \in Nat \ {0}
      BY <2>2, <3>1, Zenon
    <3>3. QED
      BY <3>2
  <2>4. todo \in Seq(Command) /\ Len(todo) \in Nat /\ Len(todo) > 1
    <3>1. \A n \in Nat : n # 0 /\ n # 1 => n > 1
      OBVIOUS
    <3>2. QED
      BY <1>2, <2>2, <2>3, <3>1, Zenon
  <2>5. /\ todo' \in Seq(Command) /\ Len(todo') = Len(todo) - 1 /\ todo' # <<>>
        /\ \A i \in 1..Len(todo') : todo'[i] = todo[i + 1]
    BY <2>1, <2>4
  <2>6. ScriptTyped'
    BY <2>1, <2>4, <2>5 DEF ScriptTyped
  <2>7. ASSUME NEW i \in 2..Len(todo'), LinksFunction(todo', i) PROVE WritesMac(todo', i - 1)
    <3>1. i + 1 \in 2..Len(todo) /\ todo'[i] = todo[i + 1] /\ todo'[i - 1] = todo[i]
      BY <2>4, <2>5
    <3>2. WritesMac(todo, (i + 1) - 1)
      BY <2>7, <3>1 DEF InOrder, LinksFunction
    <3>3. QED
      BY <3>1, <3>2 DEF WritesMac
  <2>8. LinksFunction(todo', 1) => WritesMac(todo, 1)
    <3>1. 2 \in 2..Len(todo) /\ todo'[1] = todo[2]
      BY <2>4, <2>5
    <3>2. LinksFunction(todo, 2) => WritesMac(todo, 1)
      BY <3>1 DEF InOrder
    <3>3. QED
      BY <3>1, <3>2 DEF LinksFunction
  <2>9. QED
    BY <2>6, <2>7, <2>8 DEF InOrder
<1>3. QED
  BY <1>1, <1>2

\* The argument of the command at the head
LEMMA ArgTyped ==
    ASSUME todo \in Seq(Command), todo # <<>>, Head(todo)[1] \in {"mkdir", "ln", "delete", "rmdir"}
    PROVE  Arg \in Entries /\ (Head(todo)[1] = "mkdir" => Arg # "fnlink")
<1>1. Head(todo) \in Command
  OBVIOUS
<1>2. Head(todo) \notin Plains
  BY DEF Plains
<1>3. Head(todo) \in OnEntry
  BY <1>1, <1>2 DEF Command
<1>4. QED
  BY <1>3 DEF Arg, OnEntry

LEMMA HeadIs == ASSUME todo \in Seq(Command), todo # <<>> PROVE Head(todo) = todo[1]
OBVIOUS

\* What an entry is made in or linked to is made already.
LEMMA MadeClosed ==
    ASSUME Closed(tree), NEW e \in Entries, CanMake(e)
    PROVE  Closed(tree \cup {e})
BY DEF Closed, CanMake

\* Nothing that is still needed is removed.
LEMMA RemovedClosed ==
    ASSUME Closed(tree), NEW e \in Entries, e \in tree => CanRemove(e)
    PROVE  Closed(tree \ {e})
BY DEF Closed, CanRemove

\* A linked function is in the tree.
LEMMA LinkNeeds ==
    ASSUME Closed(tree), "fnlink" \in tree
    PROVE  {"gadget", "config", "function"} \subseteq tree
<1>1. "config" \in Inside["fnlink"] /\ "function" \in Target["fnlink"] /\ "gadget" \in Inside["config"]
  BY DEF Inside, Target, Entries
<1>2. QED
  BY <1>1 DEF Closed

-----------------------------------------------------------------------------
LEMMA InitIInv == Init => IInv
<1> SUFFICES ASSUME Init PROVE IInv
  OBVIOUS
<1>1. ScriptTyped
  <2>1. todo = <<>> /\ job = "none" /\ result = [job |-> "none", how |-> "ok"]
        /\ began = {} /\ usb = FALSE /\ hurt = FALSE
    BY DEF Init
  <2>2. todo \in Seq(Command)
    BY <2>1
  <2>3. result \in [job : Jobs \cup {"none"}, how : {"ok", "failed", "killed"}]
    BY <2>1
  <2>4. QED
    BY <2>1, <2>2, <2>3 DEF ScriptTyped
<1>2. faults \in 0..MaxFaults /\ kills \in 0..MaxKills
  BY BoundsAssumption DEF Init
<1>3. Typed
  BY <1>1, <1>2, SplitTyped DEF Init
<1>4. Built
  BY DEF Init, Built, Closed, InOrder
<1>5. QED
  BY <1>3, <1>4 DEF IInv

\* A command that leaves the addresses of a linked function alone
LEMMA CommandKeeps ==
    ASSUME IInv, todo # <<>>, Goes, UNCHANGED outside, ~WritesMac(todo, 1),
           tree' \subseteq Entries, Closed(tree'), bound' \in BOOLEAN, noid' \in BOOLEAN,
           mac' \in {"random", "stable"},
           bound' => "fnlink" \in tree', "fnlink" \in tree' => Addressed'
    PROVE  IInv'
<1>1. ScriptTyped /\ InOrder(todo)
  BY SplitTyped DEF IInv, Built
<1>2. /\ ScriptTyped' /\ InOrder(todo')
      /\ todo' # <<>> /\ LinksFunction(todo', 1) => WritesMac(todo, 1)
  BY <1>1, GoesTyped
<1>3. Typed'
  BY <1>2, SplitTyped DEF IInv, outside, Typed, TypeOK, ScriptTyped
<1>4. Built'
  BY <1>2 DEF Built
<1>5. QED
  BY <1>3, <1>4 DEF IInv

\* Whatever an unbind does, nothing is bound by it.
LEMMA Unbound == ASSUME bound \in BOOLEAN, bound' \in {bound, FALSE}
                 PROVE  bound' \in BOOLEAN /\ (bound' => bound)
<1>1. CASE bound' = bound
  BY <1>1
<1>2. CASE bound' = FALSE
  BY <1>2
<1>3. QED
  BY <1>1, <1>2, Zenon

LEMMA ScriptKeeps ==
    ASSUME IInv, Plain \/ MakeDir \/ MakeLink \/ WriteMac \/ Bind \/ Unbind \/ Delete
    PROVE  IInv'
<1>1. /\ todo # <<>> /\ todo \in Seq(Command) /\ Head(todo) = todo[1]
      /\ Goes /\ UNCHANGED outside
  BY HeadIs DEF IInv, Typed, Plain, MakeDir, MakeLink, WriteMac, Bind, Unbind, Delete, Next1
<1>2. /\ tree \subseteq Entries /\ bound \in BOOLEAN /\ noid \in BOOLEAN
      /\ mac \in {"random", "stable"}
  BY DEF IInv, Typed, TypeOK
<1>3. /\ Closed(tree) /\ (bound => "fnlink" \in tree) /\ ("fnlink" \in tree => Addressed)
      /\ (LinksFunction(todo, 1) => Addressed)
  BY <1>1 DEF IInv, Built
<1>4. CASE Plain
  <2>1. ~WritesMac(todo, 1) /\ UNCHANGED <<tree, bound, mac, noid>>
    BY <1>1, <1>4 DEF Plain, Next1, WritesMac
  <2>2. QED
    BY <1>1, <1>2, <1>3, <2>1, CommandKeeps DEF Closed, Addressed
<1>5. CASE MakeDir
  <2>1. /\ ~WritesMac(todo, 1) /\ CanMake(Arg) /\ tree' = tree \cup {Arg} /\ UNCHANGED bound
        /\ Head(todo)[1] = "mkdir"
    BY <1>1, <1>5 DEF MakeDir, Next1, WritesMac
  <2>2. Arg \in Entries /\ Arg # "fnlink"
    BY <1>1, <2>1, ArgTyped
  <2>3. Closed(tree')
    BY <1>3, <2>1, <2>2, MadeClosed
  <2>4. "fnlink" \in tree' => Addressed' /\ "fnlink" \in tree
    <3>1. SUFFICES ASSUME "fnlink" \in tree' PROVE Addressed' /\ "fnlink" \in tree
      OBVIOUS
    <3>2. "fnlink" \in tree /\ "function" \in tree
      BY <1>3, <2>1, <2>2, <3>1, LinkNeeds
    <3>3. UNCHANGED <<mac, noid>>
      BY <1>5, <3>2 DEF MakeDir
    <3>4. QED
      BY <1>3, <3>2, <3>3 DEF Addressed
  <2>5. mac' \in {"random", "stable"} /\ noid' \in BOOLEAN
    BY <1>2, <1>5 DEF MakeDir
  <2>6. bound' => "fnlink" \in tree'
    BY <1>3, <2>1
  <2>7. QED
    BY <1>1, <1>2, <2>1, <2>2, <2>3, <2>4, <2>5, <2>6, CommandKeeps
<1>6. CASE MakeLink
  <2>1. /\ ~WritesMac(todo, 1) /\ CanMake(Arg) /\ tree' = tree \cup {Arg}
        /\ UNCHANGED <<bound, mac, noid>> /\ Head(todo)[1] = "ln"
    BY <1>1, <1>6 DEF MakeLink, Next1, WritesMac
  <2>2. Arg \in Entries
    BY <1>1, <2>1, ArgTyped
  <2>3. Closed(tree')
    BY <1>3, <2>1, <2>2, MadeClosed
  <2>4. Arg = "fnlink" => Addressed
    BY <1>1, <1>3, <2>1 DEF Arg, LinksFunction
  <2>5. "fnlink" \in tree' => Addressed'
    BY <1>3, <2>1, <2>4 DEF Addressed
  <2>6. QED
    BY <1>1, <1>2, <1>3, <2>1, <2>2, <2>3, <2>5, CommandKeeps
<1>7. CASE WriteMac
  <2>1. UNCHANGED <<tree, bound>> /\ Addressed' /\ mac' \in {"random", "stable"} /\ noid' \in BOOLEAN
    BY <1>2, <1>7 DEF WriteMac, Addressed
  <2>2. ScriptTyped' /\ InOrder(todo')
    BY <1>1, GoesTyped, SplitTyped DEF IInv, Built
  <2>3. Typed'
    BY <1>1, <2>1, <2>2, SplitTyped DEF IInv, outside, Typed, TypeOK, ScriptTyped
  <2>4. Built'
    BY <1>3, <2>1, <2>2 DEF Built, Closed
  <2>5. QED
    BY <2>3, <2>4 DEF IInv
<1>8. CASE Bind \/ Unbind
  <2>1. /\ ~WritesMac(todo, 1) /\ UNCHANGED <<tree, mac, noid>> /\ bound' \in BOOLEAN
        /\ (bound' => "fnlink" \in tree)
    <3>1. CASE Bind
      BY <1>1, <3>1 DEF Bind, Next1, WritesMac
    <3>2. CASE Unbind
      <4>1. Head(todo)[1] = "unbind" /\ bound' \in {bound, FALSE} /\ UNCHANGED <<tree, mac, noid>>
        BY <3>2 DEF Unbind, Next1
      <4>2. ~WritesMac(todo, 1)
        BY <1>1, <4>1 DEF WritesMac
      <4>3. bound' \in BOOLEAN /\ (bound' => bound)
        BY <1>2, <4>1, Unbound
      <4>4. QED
        BY <1>3, <4>1, <4>2, <4>3
    <3>3. QED
      BY <1>8, <3>1, <3>2
  <2>2. QED
    BY <1>1, <1>2, <1>3, <2>1, CommandKeeps DEF Closed, Addressed
<1>9. CASE Delete
  <2>1. /\ ~WritesMac(todo, 1) /\ (Arg \in tree => CanRemove(Arg)) /\ tree' = tree \ {Arg}
        /\ bound' = (bound /\ Arg # "fnlink") /\ UNCHANGED <<mac, noid>>
        /\ Head(todo)[1] \in {"delete", "rmdir"}
    BY <1>1, <1>9 DEF Delete, Next1, WritesMac
  <2>2. Arg \in Entries
    BY <1>1, <2>1, ArgTyped
  <2>3. Closed(tree')
    BY <1>3, <2>1, <2>2, RemovedClosed
  <2>4. "fnlink" \in tree' => Addressed'
    BY <1>3, <2>1 DEF Addressed
  <2>5. bound' \in BOOLEAN /\ (bound' => "fnlink" \in tree')
    BY <1>2, <1>3, <2>1
  <2>6. QED
    BY <1>1, <1>2, <2>1, <2>3, <2>4, <2>5, CommandKeeps
<1>10. QED
  BY <1>4, <1>5, <1>6, <1>7, <1>8, <1>9

\* The script starts, ends, or something happens around it.
LEMMA AroundKeeps ==
    ASSUME IInv, ScriptTyped', InOrder(todo'), UNCHANGED <<tree, mac, noid>>,
           todo' = <<>> \/ ~LinksFunction(todo', 1) \/ UNCHANGED todo,
           bound' \in {bound, FALSE}, udc' \in BOOLEAN,
           unit' \in {"inactive", "starting", "active", "stopping", "undoing", "failed"},
           faults' \in 0..MaxFaults, kills' \in 0..MaxKills
    PROVE  IInv'
<1>1. /\ tree \subseteq Entries /\ bound \in BOOLEAN /\ noid \in BOOLEAN
      /\ mac \in {"random", "stable"}
  BY SplitTyped DEF IInv
<1>2. bound' \in BOOLEAN /\ (bound' => bound)
  BY <1>1, Unbound
<1>3. Typed'
  <2>1. {bound', udc', noid'} \subseteq BOOLEAN
    BY <1>1, <1>2
  <2>2. tree' \subseteq Entries /\ mac' \in {"random", "stable"}
    BY <1>1
  <2>3. QED
    BY <2>1, <2>2 DEF Typed, TypeOK, ScriptTyped
<1>4. Closed(tree') /\ ("fnlink" \in tree' => Addressed') /\ (bound' => "fnlink" \in tree')
  BY <1>2 DEF IInv, Built, Closed, Addressed
<1>5. todo' # <<>> /\ LinksFunction(todo', 1) => Addressed'
  <2>1. todo # <<>> /\ LinksFunction(todo, 1) => Addressed
    BY DEF IInv, Built
  <2>2. Addressed' = Addressed
    BY DEF Addressed
  <2>3. CASE UNCHANGED todo
    BY <2>1, <2>2, <2>3, Zenon DEF LinksFunction
  <2>4. QED
    BY <2>3
<1>6. Built'
  BY <1>4, <1>5 DEF Built
<1>7. QED
  BY <1>3, <1>6 DEF IInv

LEMMA RunTyped ==
    ASSUME ScriptTyped, tree \subseteq Entries, udc \in BOOLEAN, NEW j \in Jobs, Run(j)
    PROVE  ScriptTyped' /\ InOrder(todo') /\ ~LinksFunction(todo', 1)
BY CommandsTyped DEF ScriptTyped, Run, Jobs

LEMMA OtherKeeps ==
    ASSUME IInv,
           \/ Refused \/ Fault \/ Kill \/ UnitStart \/ UnitStarted \/ UnitUndo
           \/ UnitStop \/ UnitStopped \/ ByHand \/ UdcChanges
    PROVE  IInv'
<1>1. /\ ScriptTyped /\ InOrder(todo) /\ tree \subseteq Entries /\ udc \in BOOLEAN
      /\ unit \in {"inactive", "starting", "active", "stopping", "undoing", "failed"}
      /\ faults \in 0..MaxFaults /\ kills \in 0..MaxKills
  BY SplitTyped DEF IInv, Built
<1>2. CASE Refused \/ Kill
  <2>1. \E how \in {"ok", "failed", "killed"} : Exit(how)
    BY <1>2 DEF Refused, Kill
  <2>2. ScriptTyped' /\ todo' = <<>> /\ InOrder(todo')
    BY <1>1, <2>1, ExitTyped
  <2>3. faults' \in 0..MaxFaults /\ kills' \in 0..MaxKills
    <3>1. UNCHANGED faults /\ (UNCHANGED kills \/ (kills < MaxKills /\ kills' = kills + 1))
      BY <1>2 DEF Refused, Kill
    <3>2. QED
      BY <1>1, <3>1, BoundsAssumption
  <2>4. QED
    BY <1>1, <1>2, <2>2, <2>3, AroundKeeps DEF Refused, Kill
<1>3. CASE Fault
  <2>1. ScriptTyped' /\ todo' = <<>> /\ InOrder(todo')
    BY <1>1, <1>3 DEF Fault, ScriptTyped, InOrder
  <2>2. faults' \in 0..MaxFaults /\ kills' \in 0..MaxKills
    BY <1>1, <1>3, BoundsAssumption DEF Fault
  <2>3. QED
    BY <1>1, <1>3, <2>1, <2>2, AroundKeeps DEF Fault
<1>4. CASE UnitStart \/ UnitUndo \/ UnitStop \/ ByHand
  <2>1. PICK j \in Jobs : RunNow(j)
    BY <1>4 DEF UnitStart, UnitUndo, UnitStop, ByHand, Jobs
  <2>2. ScriptTyped' /\ InOrder(todo') /\ ~LinksFunction(todo', 1)
    BY <1>1, <2>1, RunTyped DEF RunNow
  <2>3. unit' \in {"inactive", "starting", "active", "stopping", "undoing", "failed"}
    BY <1>1, <1>4 DEF UnitStart, UnitUndo, UnitStop, ByHand
  <2>4. QED
    BY <1>1, <2>1, <2>2, <2>3, AroundKeeps DEF RunNow
<1>5. CASE UnitStarted \/ UnitStopped
  <2>1. unit' \in {"inactive", "starting", "active", "stopping", "undoing", "failed"}
    BY <1>5 DEF UnitStarted, UnitStopped
  <2>2. UNCHANGED <<tree, bound, udc, mac, script, noid, faults, kills>>
    BY <1>5 DEF UnitStarted, UnitStopped
  <2>3. ScriptTyped' /\ InOrder(todo')
    BY <1>1, <2>2 DEF script, ScriptTyped, InOrder, LinksFunction, WritesMac
  <2>4. QED
    BY <1>1, <2>1, <2>2, <2>3, AroundKeeps DEF script
<1>6. CASE UdcChanges
  <2>1. ScriptTyped' /\ InOrder(todo')
    BY <1>1, <1>6 DEF UdcChanges, ScriptTyped, InOrder, LinksFunction, WritesMac
  <2>2. QED
    BY <1>1, <1>6, <2>1, AroundKeeps DEF UdcChanges
<1>7. QED
  BY <1>2, <1>3, <1>4, <1>5, <1>6

-----------------------------------------------------------------------------
LEMMA Inductive == ASSUME IInv, [Next]_vars PROVE IInv'
<1>1. CASE Next
  BY <1>1, ScriptKeeps, OtherKeeps DEF Next
<1>2. CASE UNCHANGED vars
  BY <1>2 DEF vars, script, IInv, Typed, TypeOK, Built, Closed, Addressed,
              InOrder, LinksFunction, WritesMac
<1>3. QED
  BY <1>1, <1>2

LEMMA Invariance == Spec => []IInv
BY InitIInv, Inductive, PTL DEF Spec

\* Every variable of the gadget keeps its type.
THEOREM TypeCorrect == Spec => []TypeOK
<1>1. IInv => TypeOK
  BY DEF IInv, Typed
<1>2. QED
  BY <1>1, Invariance, PTL

\* The host sees no gadget that lyra-usb-gadget left half built or half
\* removed, wherever the script failed or was killed, and none with random
\* addresses unless systemd-id128 failed.
THEOREM BoundWholeHolds == Spec => []BoundWhole
<1>1. IInv => BoundWhole
  BY LinkNeeds DEF IInv, Built, Addressed, BoundWhole
<1>2. QED
  BY <1>1, Invariance, PTL

-----------------------------------------------------------------------------
(* How the scripts end: where a script is in its list of commands, what it  *)
(* has made or removed by then, and what is true once it has ended.        *)

\* The place in enable of the command that makes an entry, and in uninstall of
\* the command that removes it
EnableAt == [e \in Entries |->
    CASE e = "gadget" -> 2 [] e = "strings" -> 3 [] e = "config" -> 4 [] e = "oslink" -> 5
      [] e = "cstrings" -> 6 [] e = "function" -> 7 [] e = "fnlink" -> 9]
UninstallAt == [e \in Entries |->
    CASE e = "oslink" -> 4 [] e = "fnlink" -> 5 [] e = "cstrings" -> 6 [] e = "config" -> 7
      [] e = "function" -> 8 [] e = "strings" -> 9 [] e = "gadget" -> 10]

Links == {"oslink", "fnlink"}

\* How many commands of its subcommand the script has run
Done == Len(Commands(job)) - Len(todo)

\* The script runs the commands of its subcommand and no others.
OnCourse ==
    job # "none" =>
        /\ Done \in 0..(Len(Commands(job)) - 1)
        /\ \A i \in 1..Len(todo) : todo[i] = Commands(job)[Done + i]

\* What enable has made so far, if nothing disturbed it and it may succeed
Enabling ==
    job = "enable" /\ ~hurt /\ usb /\ began \cap Links = {} =>
        /\ udc /\ ~bound
        /\ \A e \in Entries : EnableAt[e] <= Done => e \in tree
        /\ \A e \in Links : e \in tree => EnableAt[e] <= Done

\* What uninstall has left so far, disturbed or not
Uninstalling ==
    job = "uninstall" =>
        /\ \A e \in tree : Done < UninstallAt[e]
        /\ "gadget" \in tree <=> "gadget" \in began
        /\ Done > 0 => "gadget" \in tree

\* How it ended
Repaired ==
    /\ UninstallRepairs /\ EnableCompletes
    /\ Ended("uninstall", "failed") /\ ~hurt => tree = {}
    /\ unit = "undoing" => job = "uninstall" \/ (job = "none" /\ result.job = "uninstall")

-----------------------------------------------------------------------------
\* enable makes what an entry needs before it, and what a command needs besides.
LEMMA EnableIs ==
    /\ Len(EnableCmds) = 11
    /\ EnableCmds[1] = <<"modprobe">>         /\ EnableCmds[2] = <<"mkdir", "gadget">>
    /\ EnableCmds[3] = <<"mkdir", "strings">> /\ EnableCmds[4] = <<"mkdir", "config">>
    /\ EnableCmds[5] = <<"ln", "oslink">>     /\ EnableCmds[6] = <<"mkdir", "cstrings">>
    /\ EnableCmds[7] = <<"mkdir", "function">> /\ EnableCmds[8] = <<"mac">>
    /\ EnableCmds[9] = <<"ln", "fnlink">>     /\ EnableCmds[10] = <<"cd">>
    /\ EnableCmds[11] = <<"bind">>
BY DEF EnableCmds, InstallCmds

LEMMA EnableOrder ==
    /\ \A e \in Entries : \A f \in Inside[e] \cup Target[e] : f \in Entries /\ EnableAt[f] < EnableAt[e]
    /\ \A i \in 1..11 :
          /\ EnableCmds[i][1] \in {"modprobe", "mkdir", "ln", "mac", "cd", "bind"}
          /\ EnableCmds[i][1] \in {"mkdir", "ln"} =>
                EnableCmds[i][2] \in Entries /\ EnableAt[EnableCmds[i][2]] = i
          /\ EnableCmds[i][1] = "ln" <=> \E e \in Links : EnableAt[e] = i
          /\ EnableCmds[i][1] = "cd" => EnableAt["gadget"] < i
          /\ EnableCmds[i][1] = "mac" => EnableAt["function"] < i
          /\ EnableCmds[i][1] = "bind" => EnableAt["fnlink"] < i /\ EnableAt["gadget"] < i /\ i = 11
          /\ \A e \in Entries : EnableAt[e] = i => EnableCmds[i][1] \in {"mkdir", "ln"}
    /\ \A e, f \in Entries : EnableAt[e] = EnableAt[f] => e = f
    /\ \A e \in Entries : EnableAt[e] \in 1..10
<1>1. \A e \in Entries : \A f \in Inside[e] \cup Target[e] : f \in Entries /\ EnableAt[f] < EnableAt[e]
  BY DEF Inside, Target, Entries, EnableAt
<1>2. /\ \A e, f \in Entries : EnableAt[e] = EnableAt[f] => e = f
      /\ \A e \in Entries : EnableAt[e] \in 1..10
  BY DEF EnableAt, Entries
<1>3. ASSUME NEW i \in 1..11
      PROVE  /\ EnableCmds[i][1] \in {"modprobe", "mkdir", "ln", "mac", "cd", "bind"}
             /\ EnableCmds[i][1] \in {"mkdir", "ln"} =>
                   EnableCmds[i][2] \in Entries /\ EnableAt[EnableCmds[i][2]] = i
             /\ EnableCmds[i][1] = "ln" <=> \E e \in Links : EnableAt[e] = i
             /\ EnableCmds[i][1] = "cd" => EnableAt["gadget"] < i
             /\ EnableCmds[i][1] = "mac" => EnableAt["function"] < i
             /\ EnableCmds[i][1] = "bind" => EnableAt["fnlink"] < i /\ EnableAt["gadget"] < i /\ i = 11
             /\ \A e \in Entries : EnableAt[e] = i => EnableCmds[i][1] \in {"mkdir", "ln"}
  <2>1. i \in {1, 2, 3, 4, 5, 6, 7, 8, 9, 10, 11}
    OBVIOUS
  <2>2. QED
    BY <2>1, EnableIs DEF EnableAt, Entries, Links
<1>4. QED
  BY <1>1, <1>2, <1>3

LEMMA UninstallIs ==
    /\ Len(UninstallCmds) = 10
    /\ UninstallCmds[1] = <<"cd">>                 /\ UninstallCmds[2] = <<"unbind">>
    /\ UninstallCmds[3] = <<"cd">>                 /\ UninstallCmds[4] = <<"delete", "oslink">>
    /\ UninstallCmds[5] = <<"delete", "fnlink">>   /\ UninstallCmds[6] = <<"delete", "cstrings">>
    /\ UninstallCmds[7] = <<"delete", "config">>   /\ UninstallCmds[8] = <<"delete", "function">>
    /\ UninstallCmds[9] = <<"delete", "strings">>  /\ UninstallCmds[10] = <<"rmdir", "gadget">>
BY DEF UninstallCmds, DisableCmds

\* uninstall removes what is inside an entry, and the links to it, before it.
LEMMA UninstallOrder ==
    /\ \A f \in Entries : \A e \in Inside[f] \cup Target[f] : UninstallAt[f] < UninstallAt[e]
    /\ \A i \in 1..10 :
          /\ UninstallCmds[i][1] \in {"cd", "unbind", "delete", "rmdir"}
          /\ UninstallCmds[i][1] \in {"delete", "rmdir"} =>
                UninstallCmds[i][2] \in Entries /\ UninstallAt[UninstallCmds[i][2]] = i
          /\ UninstallCmds[i][1] = "unbind" => i # 1
          /\ UninstallCmds[i][1] = "rmdir" => UninstallCmds[i][2] = "gadget"
          /\ i = 10 => UninstallCmds[i][2] = "gadget"
          /\ i = 1 => UninstallCmds[i][1] = "cd"
          /\ UninstallCmds[i][1] \in {"cd", "unbind"} => \A e \in Entries : UninstallAt[e] # i
    /\ \A e, f \in Entries : UninstallAt[e] = UninstallAt[f] => e = f
    /\ \A e \in Entries : UninstallAt[e] \in 4..10
<1>1. \A f \in Entries : \A e \in Inside[f] \cup Target[f] : UninstallAt[f] < UninstallAt[e]
  BY DEF Inside, Target, Entries, UninstallAt
<1>2. /\ \A e, f \in Entries : UninstallAt[e] = UninstallAt[f] => e = f
      /\ \A e \in Entries : UninstallAt[e] \in 4..10
  BY DEF UninstallAt, Entries
<1>3. ASSUME NEW i \in 1..10
      PROVE  /\ UninstallCmds[i][1] \in {"cd", "unbind", "delete", "rmdir"}
             /\ UninstallCmds[i][1] \in {"delete", "rmdir"} =>
                   UninstallCmds[i][2] \in Entries /\ UninstallAt[UninstallCmds[i][2]] = i
             /\ UninstallCmds[i][1] = "unbind" => i # 1
             /\ UninstallCmds[i][1] = "rmdir" => UninstallCmds[i][2] = "gadget"
             /\ i = 10 => UninstallCmds[i][2] = "gadget"
             /\ i = 1 => UninstallCmds[i][1] = "cd"
             /\ UninstallCmds[i][1] \in {"cd", "unbind"} => \A e \in Entries : UninstallAt[e] # i
  <2>1. i \in {1, 2, 3, 4, 5, 6, 7, 8, 9, 10}
    OBVIOUS
  <2>2. QED
    BY <2>1, UninstallIs DEF UninstallAt, Entries
<1>4. QED
  BY <1>1, <1>2, <1>3

LEMMA LengthIs == ASSUME NEW j \in Jobs PROVE Len(Commands(j)) \in Nat /\ Len(Commands(j)) > 0
<1>1. Commands(j) \in Seq(Command) /\ Commands(j) # <<>>
  BY CommandsTyped
<1>2. \A s \in Seq(Command) : s # <<>> => Len(s) \in Nat /\ Len(s) # 0
  BY EmptySeq, Zenon
<1>3. Len(Commands(j)) \in Nat /\ Len(Commands(j)) # 0
  BY <1>1, <1>2, Zenon
<1>4. QED
  BY <1>3

-----------------------------------------------------------------------------
\* The command at the head, and the one after it
LEMMA Course ==
    ASSUME IInv, OnCourse, todo # <<>>
    PROVE  /\ job \in Jobs /\ Len(Commands(job)) \in Nat /\ Done \in 0..(Len(Commands(job)) - 1)
           /\ Len(todo) = Len(Commands(job)) - Done /\ Done + 1 \in 1..Len(Commands(job))
           /\ Head(todo) = Commands(job)[Done + 1]
<1>1. job \in Jobs /\ todo \in Seq(Command)
  BY DEF IInv, Typed, TypeOK
<1>2. job # "none"
  BY <1>1 DEF Jobs
<1>3. Len(todo) \in Nat /\ Len(Commands(job)) \in Nat
  BY <1>1, LengthIs
<1>4. Done \in 0..(Len(Commands(job)) - 1) /\ \A i \in 1..Len(todo) : todo[i] = Commands(job)[Done + i]
  BY <1>2 DEF OnCourse
<1>5. Len(todo) = Len(Commands(job)) - Done
  BY <1>3 DEF Done
<1>6. 1 \in 1..Len(todo)
  BY <1>3, <1>4, <1>5
<1>7. Head(todo) = todo[1]
  BY <1>1, HeadIs
<1>8. QED
  BY <1>1, <1>3, <1>4, <1>5, <1>6, <1>7

LEMMA GoesCourse ==
    ASSUME IInv, OnCourse, todo # <<>>, Goes
    PROVE  /\ OnCourse'
           /\ \/ Done + 1 = Len(Commands(job)) /\ Exit("ok")
              \/ UNCHANGED <<job, usb, began, hurt, result>> /\ Done' = Done + 1
<1>1. /\ job \in Jobs /\ Len(Commands(job)) \in Nat /\ Done \in 0..(Len(Commands(job)) - 1)
      /\ Len(todo) = Len(Commands(job)) - Done
  BY Course
<1>2. CASE Len(todo) = 1
  <2>1. Exit("ok")
    BY <1>2 DEF Goes
  <2>2. OnCourse'
    BY <2>1 DEF Exit, OnCourse
  <2>3. Done + 1 = Len(Commands(job))
    <3>1. \A n, d, l \in Int : l = n - d /\ l = 1 => d + 1 = n
      OBVIOUS
    <3>2. Len(Commands(job)) \in Int /\ Done \in Int /\ Len(todo) \in Int
      BY <1>1, <1>2
    <3>3. QED
      BY <1>1, <1>2, <3>1, <3>2, Zenon
  <2>4. QED
    BY <2>1, <2>2, <2>3
<1>3. CASE Len(todo) # 1
  <2>1. todo' = Tail(todo) /\ UNCHANGED <<job, usb, began, hurt, result>>
    BY <1>3 DEF Goes
  <2>2. todo \in Seq(Command)
    BY DEF IInv, Typed
  <2>3. Len(todo) \in Nat /\ Len(todo) > 1
    BY <1>1, <1>3
  <2>4. Len(todo') = Len(todo) - 1 /\ \A i \in 1..Len(todo') : todo'[i] = todo[i + 1]
    BY <2>1, <2>2, <2>3
  <2>5. Commands(job)' = Commands(job)
    BY <2>1
  <2>6. Done' = Len(Commands(job)) - Len(todo')
    BY <2>5 DEF Done
  <2>7. Done' = Done + 1
    BY <1>1, <2>3, <2>4, <2>6
  <2>8. Done' \in 0..(Len(Commands(job)) - 1)
    BY <1>1, <2>3, <2>7
  <2>9. \A i \in 1..Len(todo') : todo'[i] = Commands(job)[Done' + i]
    <3>1. ASSUME NEW i \in 1..Len(todo')
          PROVE  todo'[i] = Commands(job)[Done' + i]
      <4>1. i + 1 \in 1..Len(todo) /\ Done' + i = Done + (i + 1)
        BY <1>1, <2>3, <2>4, <2>7
      <4>2. todo[i + 1] = Commands(job)[Done + (i + 1)]
        BY <1>1, <4>1 DEF OnCourse, Jobs
      <4>3. QED
        BY <2>4, <4>1, <4>2
    <3>2. QED
      BY <3>1
  <2>10. OnCourse'
    BY <2>1, <2>5, <2>8, <2>9 DEF OnCourse
  <2>11. QED
    BY <2>1, <2>7, <2>10
<1>4. QED
  BY <1>2, <1>3

LEMMA EnableHead ==
    ASSUME IInv, OnCourse, job = "enable"
    PROVE  /\ todo # <<>> /\ Done \in 0..10 /\ Done + 1 \in 1..11
           /\ Head(todo) = EnableCmds[Done + 1]
<1>1. todo # <<>> /\ Commands(job) = EnableCmds
  BY DEF IInv, Typed, TypeOK, Commands
<1>2. QED
  BY <1>1, Course, EnableIs

LEMMA UninstallHead ==
    ASSUME IInv, OnCourse, job = "uninstall"
    PROVE  /\ todo # <<>> /\ Done \in 0..9 /\ Done + 1 \in 1..10
           /\ Head(todo) = UninstallCmds[Done + 1]
<1>1. todo # <<>> /\ Commands(job) = UninstallCmds
  BY DEF IInv, Typed, TypeOK, Commands
<1>2. QED
  BY <1>1, Course, UninstallIs

\* What an undisturbed enable still needs is there.
LEMMA EnableGoes ==
    ASSUME IInv, OnCourse, Enabling, job = "enable", ~hurt, usb, began \cap Links = {}
    PROVE  ~Refused
<1>1. /\ udc /\ ~bound
      /\ \A e \in Entries : EnableAt[e] <= Done => e \in tree
      /\ \A e \in Links : e \in tree => EnableAt[e] <= Done
  BY DEF Enabling
<1>2. /\ Done \in 0..10 /\ Done + 1 \in 1..11 /\ Head(todo) = EnableCmds[Done + 1]
  BY EnableHead
<1>3. \A e \in Entries : EnableAt[e] \in 1..10
  BY EnableOrder
<1>4. \A e \in Entries : EnableAt[e] < Done + 1 => e \in tree
  BY <1>1, <1>2, <1>3
<1>5. {"gadget", "function", "fnlink"} \subseteq Entries
  BY DEF Entries
<1>6. Head(todo)[1] = "cd" => "gadget" \in tree
  BY <1>2, <1>4, <1>5, EnableOrder
<1>7. Head(todo)[1] = "mac" => "function" \in tree
  BY <1>2, <1>4, <1>5, EnableOrder
<1>8. Head(todo)[1] = "bind" => "fnlink" \in tree
  BY <1>2, <1>4, <1>5, EnableOrder
<1>9. Head(todo)[1] \in {"mkdir", "ln"} => Arg \in Entries /\ EnableAt[Arg] = Done + 1
  BY <1>2, EnableOrder DEF Arg
<1>10. Head(todo)[1] \in {"mkdir", "ln"} => CanMake(Arg)
  <2>1. ASSUME Arg \in Entries, EnableAt[Arg] = Done + 1, NEW f \in Inside[Arg] \cup Target[Arg]
        PROVE  f \in tree
    BY <1>4, <2>1, EnableOrder
  <2>2. QED
    BY <1>9, <2>1 DEF CanMake
<1>11. Head(todo)[1] = "ln" => FreshLink(Arg)
  <2>1. SUFFICES ASSUME Head(todo)[1] = "ln", Arg \in tree
                 PROVE  FALSE
    BY DEF FreshLink
  <2>2. PICK e \in Links : EnableAt[e] = Done + 1
    BY <1>2, <2>1, EnableOrder
  <2>3. e \in Entries
    BY <2>2 DEF Links, Entries
  <2>4. e = Arg
    BY <1>9, <2>1, <2>2, <2>3, EnableOrder
  <2>5. EnableAt[Arg] <= Done
    BY <1>1, <2>1, <2>2, <2>4
  <2>6. QED
    BY <1>2, <1>9, <2>1, <2>5
<1>12. Head(todo)[1] \in {"modprobe", "mkdir", "ln", "mac", "cd", "bind"}
  BY <1>2, EnableOrder
<1>13. QED
  BY <1>1, <1>6, <1>7, <1>8, <1>10, <1>11, <1>12 DEF Refused, Next1

\* uninstall is refused at once or not at all.
LEMMA UninstallGoes ==
    ASSUME IInv, OnCourse, Uninstalling, job = "uninstall", Refused
    PROVE  "gadget" \notin tree /\ "gadget" \notin began
<1>1. /\ \A e \in tree : Done < UninstallAt[e]
      /\ "gadget" \in tree <=> "gadget" \in began
      /\ Done > 0 => "gadget" \in tree
  BY DEF Uninstalling
<1>2. /\ Done \in 0..9 /\ Done + 1 \in 1..10 /\ Head(todo) = UninstallCmds[Done + 1]
  BY UninstallHead
<1>3. Head(todo)[1] \in {"delete", "rmdir"} => Arg \in Entries /\ UninstallAt[Arg] = Done + 1
  BY <1>2, UninstallOrder DEF Arg
<1>4. tree \subseteq Entries
  BY DEF IInv, Typed, TypeOK
<1>5. Head(todo)[1] \in {"delete", "rmdir"} => CanRemove(Arg)
  <2>1. ASSUME Arg \in Entries, UninstallAt[Arg] = Done + 1, NEW f \in tree,
               Arg \in Inside[f] \cup Target[f]
        PROVE  FALSE
    <3>1. UninstallAt[f] < UninstallAt[Arg]
      BY <1>4, <2>1, UninstallOrder
    <3>2. Done < UninstallAt[f] /\ UninstallAt[f] \in 4..10
      BY <1>1, <1>4, UninstallOrder
    <3>3. QED
      BY <1>2, <2>1, <3>1, <3>2
  <2>2. QED
    BY <1>3, <2>1 DEF CanRemove
<1>6. Head(todo)[1] = "rmdir" => Arg = "gadget" /\ Done > 0
  <2>1. Head(todo)[1] = "rmdir" => Arg = "gadget"
    BY <1>2, UninstallOrder DEF Arg
  <2>2. Head(todo)[1] = "rmdir" => Done + 1 # 1
    BY <1>2, UninstallOrder
  <2>3. QED
    BY <1>2, <2>1, <2>2
<1>7. Head(todo)[1] \in {"cd", "unbind", "delete", "rmdir"}
  BY <1>2, UninstallOrder
<1>8. QED
  BY <1>1, <1>5, <1>6, <1>7 DEF Refused, Next1

\* Without the gadget there is nothing at all.
LEMMA GadgetHolds == ASSUME IInv, "gadget" \notin tree PROVE tree = {}
<1>1. tree \subseteq Entries /\ Closed(tree)
  BY DEF IInv, Typed, TypeOK, Built
<1>2. /\ Inside["strings"] = {"gadget"} /\ Inside["config"] = {"gadget"}
      /\ Inside["oslink"] = {"gadget"} /\ Inside["function"] = {"gadget"}
      /\ Inside["cstrings"] = {"config"} /\ Inside["fnlink"] = {"config"}
  BY DEF Inside, Entries
<1>3. \A e \in tree : Inside[e] \subseteq tree
  BY <1>1 DEF Closed
<1>4. QED
  BY <1>1, <1>2, <1>3 DEF Entries

\* The invariant of a run of the script
CourseInv == OnCourse /\ Enabling /\ Uninstalling /\ Repaired

ScriptCommand == Plain \/ MakeDir \/ MakeLink \/ WriteMac \/ Bind \/ Unbind \/ Delete

\* What a command does to the tree
LEMMA CommandTree ==
    ASSUME IInv, ScriptCommand
    PROVE  /\ todo # <<>> /\ Goes /\ UNCHANGED outside
           /\ \/ Head(todo)[1] \in {"mkdir", "ln"} /\ tree' = tree \cup {Arg}
              \/ Head(todo)[1] \in {"delete", "rmdir"} /\ tree' = tree \ {Arg}
              \/ Head(todo)[1] \in {"modprobe", "mac", "bind"} /\ tree' = tree
              \/ Head(todo)[1] \in {"cd", "unbind"} /\ tree' = tree /\ "gadget" \in tree
           /\ bound' => bound \/ Head(todo)[1] = "bind"
<1>1. todo # <<>> /\ Goes /\ UNCHANGED outside
  BY DEF ScriptCommand, Plain, MakeDir, MakeLink, WriteMac, Bind, Unbind, Delete, Next1
<1>2. \/ Head(todo)[1] \in {"mkdir", "ln"} /\ tree' = tree \cup {Arg}
      \/ Head(todo)[1] \in {"delete", "rmdir"} /\ tree' = tree \ {Arg}
      \/ Head(todo)[1] \in {"modprobe", "mac", "bind"} /\ tree' = tree
      \/ Head(todo)[1] \in {"cd", "unbind"} /\ tree' = tree /\ "gadget" \in tree
  BY DEF ScriptCommand, Plain, MakeDir, MakeLink, WriteMac, Bind, Unbind, Delete, Next1
<1>3. bound \in BOOLEAN
  BY DEF IInv, Typed, TypeOK
<1>4. bound' => bound \/ Head(todo)[1] = "bind"
  <2>1. CASE Unbind
    BY <1>3, <2>1, Unbound DEF Unbind
  <2>2. CASE ~Unbind
    BY <1>3, <2>2 DEF ScriptCommand, Plain, MakeDir, MakeLink, WriteMac, Bind, Delete, Next1
  <2>3. QED
    BY <2>1, <2>2
<1>5. QED
  BY <1>1, <1>2, <1>4

LEMMA CommandEnabling ==
    ASSUME IInv, CourseInv, ScriptCommand, OnCourse',
           UNCHANGED <<job, usb, began, hurt, result>>, Done' = Done + 1
    PROVE  Enabling'
<1> SUFFICES ASSUME job = "enable", ~hurt, usb, began \cap Links = {}
             PROVE  /\ udc' /\ ~bound'
                    /\ \A e \in Entries : EnableAt[e] <= Done' => e \in tree'
                    /\ \A e \in Links : e \in tree' => EnableAt[e] <= Done'
  BY DEF Enabling
<1>1. /\ udc /\ ~bound
      /\ \A e \in Entries : EnableAt[e] <= Done => e \in tree
      /\ \A e \in Links : e \in tree => EnableAt[e] <= Done
  BY DEF Enabling, CourseInv
<1>2. /\ Done \in 0..10 /\ Done + 1 \in 1..11 /\ Head(todo) = EnableCmds[Done + 1]
      /\ \A e \in Entries : EnableAt[e] \in 1..10
  BY EnableHead, EnableOrder DEF CourseInv
<1>3. Head(todo)[1] # "bind"
  <2>1. Commands(job)' = EnableCmds
    BY DEF Commands
  <2>2. Done' \in 0..(Len(Commands(job)') - 1)
    BY DEF OnCourse
  <2>3. Done' <= 10
    <3>1. Len(Commands(job)') = 11
      BY <2>1, EnableIs
    <3>2. \A n, d : n = 11 /\ d \in 0..(n - 1) => d <= 10
      OBVIOUS
    <3>3. QED
      BY <2>2, <3>1, <3>2, Zenon
  <2>4. Done + 1 # 11
    BY <1>2, <2>3
  <2>5. QED
    BY <1>2, <2>4, EnableOrder
<1>4. udc' /\ ~bound'
  BY <1>1, <1>3, CommandTree DEF outside
<1>5. CASE Head(todo)[1] \in {"mkdir", "ln"}
  <2>1. Arg \in Entries /\ EnableAt[Arg] = Done + 1 /\ tree' = tree \cup {Arg}
    BY <1>2, <1>5, EnableOrder, CommandTree DEF Arg
  <2>2. ASSUME NEW e \in Entries, EnableAt[e] <= Done'
        PROVE  e \in tree'
    <3>1. EnableAt[e] <= Done \/ EnableAt[e] = EnableAt[Arg]
      BY <1>2, <2>1, <2>2
    <3>2. QED
      BY <1>1, <2>1, <3>1, EnableOrder
  <2>3. ASSUME NEW e \in Links, e \in tree'
        PROVE  EnableAt[e] <= Done'
    <3>1. e \in Entries
      BY DEF Links, Entries
    <3>2. EnableAt[e] <= Done \/ e = Arg
      BY <1>1, <2>1, <2>3
    <3>3. QED
      BY <1>2, <2>1, <3>1, <3>2
  <2>4. QED
    BY <1>4, <2>2, <2>3
<1>6. CASE Head(todo)[1] \notin {"mkdir", "ln"}
  <2>1. tree' = tree
    BY <1>2, <1>6, EnableOrder, CommandTree
  <2>2. \A e \in Entries : EnableAt[e] # Done + 1
    BY <1>2, <1>6, EnableOrder
  <2>3. ASSUME NEW e \in Entries, EnableAt[e] <= Done'
        PROVE  e \in tree'
    BY <1>1, <1>2, <2>1, <2>2, <2>3
  <2>4. ASSUME NEW e \in Links, e \in tree'
        PROVE  EnableAt[e] <= Done'
    <3>1. e \in Entries
      BY DEF Links, Entries
    <3>2. QED
      BY <1>1, <1>2, <2>1, <2>4, <3>1
  <2>5. QED
    BY <1>4, <2>3, <2>4
<1>7. QED
  BY <1>5, <1>6

LEMMA CommandUninstalling ==
    ASSUME IInv, CourseInv, ScriptCommand, OnCourse',
           UNCHANGED <<job, usb, began, hurt, result>>, Done' = Done + 1
    PROVE  Uninstalling'
<1> SUFFICES ASSUME job = "uninstall"
             PROVE  /\ \A e \in tree' : Done' < UninstallAt[e]
                    /\ "gadget" \in tree' <=> "gadget" \in began'
                    /\ Done' > 0 => "gadget" \in tree'
  BY DEF Uninstalling
<1>1. /\ \A e \in tree : Done < UninstallAt[e]
      /\ "gadget" \in tree <=> "gadget" \in began
      /\ Done > 0 => "gadget" \in tree
  BY DEF Uninstalling, CourseInv
<1>2. /\ Done \in 0..9 /\ Done + 1 \in 1..10 /\ Head(todo) = UninstallCmds[Done + 1]
      /\ \A e \in Entries : UninstallAt[e] \in 4..10
  BY UninstallHead, UninstallOrder DEF CourseInv
<1>3. tree \subseteq Entries /\ "gadget" \in Entries
  BY DEF IInv, Typed, TypeOK, Entries
<1>4. Done' <= 9
  <2>1. Commands(job)' = UninstallCmds
    BY DEF Commands
  <2>2. Done' \in 0..(Len(Commands(job)') - 1)
    BY DEF OnCourse
  <2>3. Len(Commands(job)') = 10
    BY <2>1, UninstallIs
  <2>4. \A n, d : n = 10 /\ d \in 0..(n - 1) => d <= 9
    OBVIOUS
  <2>5. QED
    BY <2>2, <2>3, <2>4, Zenon
<1>5. Head(todo)[1] \in {"cd", "unbind", "delete", "rmdir"}
  BY <1>2, UninstallOrder
<1>6. CASE Head(todo)[1] \in {"cd", "unbind"}
  <2>1. tree' = tree /\ "gadget" \in tree
    BY <1>6, CommandTree
  <2>2. \A e \in Entries : UninstallAt[e] # Done + 1
    BY <1>2, <1>6, UninstallOrder
  <2>3. \A e \in tree : Done + 1 < UninstallAt[e]
    BY <1>1, <1>2, <1>3, <2>2
  <2>4. QED
    BY <1>1, <2>1, <2>3
<1>7. CASE Head(todo)[1] \in {"delete", "rmdir"}
  <2>1. tree' = tree \ {Arg}
    BY <1>7, CommandTree
  <2>2. Arg \in Entries /\ UninstallAt[Arg] = Done + 1
    BY <1>2, <1>7, UninstallOrder DEF Arg
  <2>3. Done > 0
    BY <1>2, <1>7, UninstallOrder
  <2>4. Arg # "gadget"
    <3>1. UninstallAt["gadget"] = 10
      BY DEF UninstallAt, Entries
    <3>2. QED
      BY <1>2, <1>4, <2>2, <3>1
  <2>5. \A e \in tree' : Done + 1 < UninstallAt[e]
    <3>1. ASSUME NEW e \in tree'
          PROVE  Done + 1 < UninstallAt[e]
      <4>1. e \in tree /\ e \in Entries /\ e # Arg
        BY <1>3, <2>1
      <4>2. UninstallAt[e] # Done + 1
        BY <2>2, <4>1, UninstallOrder
      <4>3. QED
        BY <1>1, <1>2, <4>1, <4>2
    <3>2. QED
      BY <3>1
  <2>6. QED
    BY <1>1, <2>1, <2>3, <2>4, <2>5
<1>8. QED
  BY <1>5, <1>6, <1>7

\* An uninstall that gets through has removed everything.
LEMMA LastCommand ==
    ASSUME IInv, IInv', CourseInv, ScriptCommand, job = "uninstall",
           Done + 1 = Len(Commands(job))
    PROVE  tree' = {} /\ ~bound'
<1>1. Done + 1 = 10
  BY UninstallIs DEF Commands
<1>2. /\ Done \in 0..9 /\ Head(todo) = UninstallCmds[10]
      /\ \A e \in Entries : UninstallAt[e] \in 4..10
  BY <1>1, UninstallHead, UninstallOrder DEF CourseInv
<1>3. Head(todo)[1] = "rmdir" /\ Arg = "gadget"
  BY <1>2, UninstallIs DEF Arg
<1>4. tree' = tree \ {"gadget"}
  BY <1>3, CommandTree
<1>5. tree \subseteq Entries /\ UninstallAt["gadget"] = 10 /\ "gadget" \in Entries
  BY DEF IInv, Typed, TypeOK, UninstallAt, Entries
<1>6. \A e \in tree : Done < UninstallAt[e]
  BY DEF Uninstalling, CourseInv
<1>7. \A e \in tree : UninstallAt[e] = 10
  BY <1>1, <1>2, <1>5, <1>6
<1>8. tree' = {}
  BY <1>4, <1>5, <1>7, UninstallOrder
<1>9. ~bound'
  BY <1>8 DEF IInv, Built
<1>10. QED
  BY <1>8, <1>9

\* What is said of how a script ended, while one runs
LEMMA NotEnded ==
    ASSUME job' # "none", unit' = "undoing" => job' = "uninstall"
    PROVE  Repaired'
BY DEF Repaired, UninstallRepairs, EnableCompletes, Ended

LEMMA CommandCourse ==
    ASSUME IInv, IInv', CourseInv, ScriptCommand
    PROVE  CourseInv'
<1>1. /\ todo # <<>> /\ Goes /\ UNCHANGED unit
  BY CommandTree DEF outside
<1>2. /\ OnCourse'
      /\ \/ Done + 1 = Len(Commands(job)) /\ Exit("ok")
         \/ UNCHANGED <<job, usb, began, hurt, result>> /\ Done' = Done + 1
  BY <1>1, GoesCourse DEF CourseInv
<1>3. job # "none" /\ (unit = "undoing" => job = "uninstall")
  BY <1>1 DEF IInv, Typed, TypeOK, CourseInv, Repaired
<1>4. CASE UNCHANGED <<job, usb, began, hurt, result>> /\ Done' = Done + 1
  <2>1. Repaired'
    BY <1>1, <1>3, <1>4, NotEnded
  <2>2. QED
    BY <1>2, <1>4, <2>1, CommandEnabling, CommandUninstalling DEF CourseInv
<1>5. CASE Done + 1 = Len(Commands(job)) /\ Exit("ok")
  <2>1. job' = "none" /\ result' = [job |-> job, how |-> "ok"]
    BY <1>5 DEF Exit
  <2>2. Enabling' /\ Uninstalling'
    BY <2>1 DEF Enabling, Uninstalling
  <2>3. job = "uninstall" => tree' = {} /\ ~bound'
    BY <1>5, LastCommand
  <2>4. Repaired'
    BY <1>1, <1>3, <2>1, <2>3 DEF Repaired, UninstallRepairs, EnableCompletes, Ended
  <2>5. QED
    BY <1>2, <2>2, <2>4 DEF CourseInv
<1>6. QED
  BY <1>2, <1>4, <1>5

\* A script starts.
LEMMA RunCourse ==
    ASSUME IInv, NEW j \in Jobs, RunNow(j), unit' = "undoing" => j = "uninstall"
    PROVE  CourseInv'
<1>1. /\ job' = j /\ todo' = Commands(j) /\ usb' = udc /\ began' = tree /\ hurt' = FALSE
      /\ UNCHANGED <<tree, bound, udc>>
  BY DEF RunNow, Run
<1>2. Len(Commands(j)) \in Nat /\ Len(Commands(j)) > 0
  BY LengthIs
<1>3. Commands(job)' = Commands(j) /\ j # "none"
  BY <1>1 DEF Jobs
<1>4. Done' = 0
  <2>1. Done' = Len(Commands(j)) - Len(Commands(j))
    BY <1>1, <1>3 DEF Done
  <2>2. QED
    BY <1>2, <2>1
<1>5. OnCourse'
  <2>1. Done' \in 0..(Len(Commands(j)) - 1)
    BY <1>2, <1>4
  <2>2. \A i \in 1..Len(Commands(j)) : 0 + i = i
    BY <1>2
  <2>3. \A i \in 1..Len(todo') : todo'[i] = Commands(j)[Done' + i]
    BY <1>1, <1>4, <2>2
  <2>4. QED
    BY <1>3, <2>1, <2>3 DEF OnCourse
<1>6. Enabling'
  <2>1. bound => "fnlink" \in tree
    BY DEF IInv, Built
  <2>2. \A e \in Entries : EnableAt[e] \in 1..10
    BY EnableOrder
  <2>3. QED
    BY <1>1, <1>4, <2>1, <2>2 DEF Enabling, Links
<1>7. Uninstalling'
  <2>1. \A e \in tree : UninstallAt[e] \in 4..10
    BY UninstallOrder DEF IInv, Typed, TypeOK
  <2>2. QED
    BY <1>1, <1>4, <2>1 DEF Uninstalling
<1>8. Repaired'
  BY <1>1, <1>3, NotEnded
<1>9. QED
  BY <1>5, <1>6, <1>7, <1>8 DEF CourseInv

\* A script ends before its time.
LEMMA StopCourse ==
    ASSUME IInv, CourseInv, Refused \/ Fault \/ Kill
    PROVE  CourseInv'
<1>1. /\ todo # <<>> /\ job' = "none" /\ UNCHANGED <<tree, bound, unit, usb, began>>
      /\ \E how \in {"failed", "killed"} : result' = [job |-> job, how |-> how]
  BY DEF Refused, Fault, Kill, Exit
<1>2. OnCourse' /\ Enabling' /\ Uninstalling'
  BY <1>1 DEF OnCourse, Enabling, Uninstalling
<1>3. job # "none" /\ (unit = "undoing" => job = "uninstall")
  BY <1>1 DEF IInv, Typed, TypeOK, CourseInv, Repaired
<1>4. CASE Refused
  <2>1. job = "uninstall" => tree = {} /\ "gadget" \notin began
    BY <1>4, UninstallGoes, GadgetHolds DEF CourseInv
  <2>2. job = "enable" /\ ~hurt => ~usb \/ began \cap Links # {}
    BY <1>4, EnableGoes DEF CourseInv
  <2>3. result' = [job |-> job, how |-> "failed"] /\ hurt' = hurt
    BY <1>4 DEF Refused, Exit
  <2>4. Repaired'
    BY <1>1, <1>3, <2>1, <2>2, <2>3
       DEF Repaired, UninstallRepairs, EnableCompletes, Ended, Links
  <2>5. QED
    BY <1>2, <2>4 DEF CourseInv
<1>5. CASE Fault \/ Kill
  <2>1. hurt' \/ result' = [job |-> job, how |-> "killed"]
    BY <1>5 DEF Fault, Kill, Exit
  <2>2. Repaired'
    BY <1>1, <1>3, <2>1 DEF Repaired, UninstallRepairs, EnableCompletes, Ended
  <2>3. QED
    BY <1>2, <2>2 DEF CourseInv
<1>6. QED
  BY <1>4, <1>5

LEMMA StepCourse ==
    ASSUME IInv, IInv', CourseInv, [Next]_vars
    PROVE  CourseInv'
<1>1. CASE ScriptCommand
  BY <1>1, CommandCourse
<1>2. CASE Refused \/ Fault \/ Kill
  BY <1>2, StopCourse
<1>3. CASE UnitStart \/ UnitUndo \/ UnitStop \/ ByHand
  <2>1. PICK j \in Jobs : RunNow(j) /\ (unit' = "undoing" => j = "uninstall")
    BY <1>3 DEF UnitStart, UnitUndo, UnitStop, ByHand, Jobs
  <2>2. QED
    BY <2>1, RunCourse
<1>4. CASE UnitStarted \/ UnitStopped
  <2>1. UNCHANGED <<tree, bound, udc, script>> /\ unit' # "undoing"
    BY <1>4 DEF UnitStarted, UnitStopped
  <2>2. QED
    BY <2>1 DEF CourseInv, OnCourse, Enabling, Uninstalling, Repaired, Done, script,
       UninstallRepairs, EnableCompletes, Ended
<1>5. CASE UdcChanges
  <2>1. UNCHANGED <<tree, unit, todo, job, usb, began, result>> /\ ~bound'
    BY <1>5 DEF UdcChanges
  <2>2. hurt' = (hurt \/ job # "none")
    BY <1>5 DEF UdcChanges
  <2>3. OnCourse' /\ Enabling' /\ Uninstalling'
    BY <2>1, <2>2 DEF CourseInv, OnCourse, Enabling, Uninstalling, Done
  <2>4. Repaired'
    BY <2>1, <2>2 DEF CourseInv, Repaired, UninstallRepairs, EnableCompletes, Ended
  <2>5. QED
    BY <2>3, <2>4 DEF CourseInv
<1>6. CASE UNCHANGED vars
  BY <1>6 DEF vars, outside, CourseInv, OnCourse, Enabling, Uninstalling, Repaired, Done,
     script, UninstallRepairs, EnableCompletes, Ended
<1>7. QED
  BY <1>1, <1>2, <1>3, <1>4, <1>5, <1>6 DEF Next, ScriptCommand

LEMMA InitCourse == Init => CourseInv
BY DEF Init, CourseInv, OnCourse, Enabling, Uninstalling, Repaired, UninstallRepairs,
   EnableCompletes, Ended

LEMMA CourseAlways == Spec => []CourseInv
BY Invariance, InitCourse, StepCourse, PTL DEF Spec

\* However an installation or a removal was cut short, by any number of failures
\* and kills, the uninstall of lyra-usb-gadget that nothing disturbs gets
\* through, unless there is no gadget at all, and leaves nothing.
THEOREM UninstallRepairsHolds == Spec => []UninstallRepairs
<1>1. CourseInv => UninstallRepairs
  BY DEF CourseInv, Repaired
<1>2. QED
  BY <1>1, CourseAlways, PTL

\* The enable of lyra-usb-gadget that nothing disturbs fails only without a
\* controller or over one of its links that is already there.
THEOREM EnableCompletesHolds == Spec => []EnableCompletes
<1>1. CourseInv => EnableCompletes
  BY DEF CourseInv, Repaired
<1>2. QED
  BY <1>1, CourseAlways, PTL

\* A start of lyra-usb-gadget.service that failed is undone by its ExecStopPost.
THEOREM FailedStartUndoneHolds == Spec => []FailedStartUndone
<1>1. IInv /\ CourseInv => FailedStartUndone
  <2>1. IInv => result \in [job : Jobs \cup {"none"}, how : {"ok", "failed", "killed"}]
    BY DEF IInv, Typed, TypeOK
  <2>2. QED
    BY <2>1 DEF CourseInv, Repaired, UninstallRepairs, Ended, FailedStartUndone
<1>2. QED
  BY <1>1, CourseAlways, Invariance, PTL
=============================================================================
