------------------------------ MODULE PinCheck ------------------------------
(***************************************************************************)
(* The pin check of lyra-overlays (class Check, build.py): a walk over the *)
(* nodes of the device tree with all overlays applied collects, for every  *)
(* pin, who uses it, and a verdict says whether some pin is used in a way  *)
(* it must not be.                                                         *)
(*                                                                         *)
(* A tree is the sequence of its nodes in the order of the walk.  A node   *)
(* has a status and the sequence of its pinctrl uses, in the order of its  *)
(* properties; a use is a property and one of the pinctrl groups it names. *)
(***************************************************************************)
EXTENDS Naturals, Sequences, FiniteSets

CONSTANTS Trees,    \* the trees a behaviour may start with
          Props,    \* the properties pinctrl-0, pinctrl-1, ...
          Groups,   \* the pinctrl nodes of the tree
          Pins,     \* the pins, as the pair of a bank and an index
          PinsOf,   \* the pins a group names, in order
          Broken    \* the groups that are missing, have no pins or a bad format

\* What properties.get('status') may be: absent is read as okay, and the short
\* form "ok" is not.
Statuses == {"absent", "okay", "ok", "disabled"}

Use == [prop : Props, group : Groups]
Node == [status : Statuses, uses : Seq(Use)]

ASSUME TreesAssumption ==
    /\ Trees \subseteq Seq(Node)
    /\ PinsOf \in [Groups -> Seq(Pins)]
    /\ Pins \subseteq Nat \X Nat
    /\ Broken \subseteq Groups

VARIABLES tree,     \* the tree that is checked; never changed
          node,     \* the node the walk is at
          use,      \* the use of that node it is at
          pinmap,   \* the users of every name of a pin, in the order found
          verdict   \* "none" until the walk is over

vars == <<tree, node, use, pinmap, verdict>>

\* The name of a pin: its bank, the letter and the number within the letter.
\* The variant drops the letter.
NameNoLetter(p) == <<p[1], 0, p[2] % 8>>
Name(p) == <<p[1], p[2] \div 8, p[2] % 8>>

Names == {Name(p) : p \in Pins}
User == [node : Nat, prop : Props]

\* How often a group names a pin of this name, and the entries it adds.
Count(g, n) == Cardinality({i \in 1..Len(PinsOf[g]) : Name(PinsOf[g][i]) = n})
Entries(g, n, user) == [i \in 1..Count(g, n) |-> user]

TypeOK ==
    /\ tree \in Seq(Node)
    /\ node \in 1..(Len(tree) + 1) /\ use \in Nat \ {0}
    /\ node <= Len(tree) => use <= Len(tree[node].uses) + 1
    /\ pinmap \in [Names -> Seq(User)]
    /\ verdict \in {"none", "ok", "conflict", "error"}

Init ==
    /\ tree \in Trees
    /\ node = 1 /\ use = 1
    /\ pinmap = [n \in Names |-> <<>>]
    /\ verdict = "none"

\* A node is looked at if its status is okay.
Enabled(s) == s.status \in {"absent", "okay"}

\* The next node; the nodes below a disabled one are walked all the same.
NextNode ==
    /\ verdict = "none" /\ node <= Len(tree)
    /\ ~Enabled(tree[node]) \/ use > Len(tree[node].uses)
    /\ node' = node + 1 /\ use' = 1
    /\ UNCHANGED <<tree, pinmap, verdict>>

\* _check_pinctrl for one phandle: one entry for every pin of the group, or
\* an exception that ends the run of the tool.
Sound(g) == g \notin Broken

CheckPinctrl ==
    /\ verdict = "none" /\ node <= Len(tree)
    /\ Enabled(tree[node]) /\ use <= Len(tree[node].uses)
    /\ LET u == tree[node].uses[use] IN
       \/ /\ Sound(u.group)
          /\ pinmap' = [n \in Names |->
                 pinmap[n] \o Entries(u.group, n, [node |-> node, prop |-> u.prop])]
          /\ use' = use + 1 /\ verdict' = verdict
       \/ ~Sound(u.group) /\ verdict' = "error" /\ UNCHANGED <<pinmap, use>>
    /\ UNCHANGED <<tree, node>>

\* Whether the users of a pin may share it: each but the first is compared with
\* the first.  Variant: the nodes are not compared.
FineAnyNode(us) == \A i \in 2..Len(us) : us[i].prop # us[1].prop
Fine(us) ==
    \A i \in 2..Len(us) : us[i].node = us[1].node /\ us[i].prop # us[1].prop

Judge ==
    /\ verdict = "none" /\ node > Len(tree)
    /\ verdict' = IF \A n \in Names : Fine(pinmap[n]) THEN "ok" ELSE "conflict"
    /\ UNCHANGED <<tree, node, use, pinmap>>

Next == NextNode \/ CheckPinctrl \/ Judge

Spec == Init /\ [][Next]_vars

-----------------------------------------------------------------------------
(* What the verdict must say, in terms of the tree and of the pins. *)

\* The uses of the nodes without status or with status "okay", each named by
\* its place in the tree.
Places ==
    UNION {{i} \X (1..Len(tree[i].uses)) :
              i \in {j \in 1..Len(tree) : tree[j].status \notin {"ok", "disabled"}}}

UseAt(r) == tree[r[1]].uses[r[2]]
PinsAt(r) == PinsOf[UseAt(r).group]
UsesOf(p) == {r \in Places : \E i \in 1..Len(PinsAt(r)) : PinsAt(r)[i] = p}
Twice(p, r) == \E i, j \in 1..Len(PinsAt(r)) :
                  i # j /\ PinsAt(r)[i] = p /\ PinsAt(r)[j] = p

\* A tree is passed only if no pin is used by two enabled nodes, in whatever
\* order the walk meets them.
NoSharing ==
    verdict = "ok" => \A p \in Pins : \A r, s \in UsesOf(p) : r[1] = s[1]

\* A tree is judged only when all its pinctrl groups can be read, and a
\* refused tree has a pin that two uses may not share: of two nodes, or of the
\* same property, or twice within one group.
VerdictEarned ==
    /\ verdict \in {"ok", "conflict"} => \A r \in Places : UseAt(r).group \notin Broken
    /\ verdict = "conflict" => \E p \in Pins : \E r, s \in UsesOf(p) :
           \/ r[1] # s[1]
           \/ r # s /\ UseAt(r).prop = UseAt(s).prop
           \/ Twice(p, r)

\* The comment over the comparison, "more than one user is fine as long as
\* all of them are the same node, all of them are distinct properties"
\* (build.py:287-289): no property of a passed tree uses a pin twice.
DistinctProperties ==
    verdict = "ok" => \A p \in Pins : \A r, s \in UsesOf(p) :
        r # s => UseAt(r).prop # UseAt(s).prop
=============================================================================
