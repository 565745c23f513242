--------------------------- MODULE PinCheckProofs ---------------------------
(* A passed tree has no pin used by two nodes, and a refused one has a pin   *)
(* that two uses may not share, for every set of trees.                      *)
EXTENDS PinCheck, FiniteSetTheorems, SequenceTheorems, TLAPS

\* The walk is past a use.
Seen(r) == r[1] < node \/ (r[1] = node /\ r[2] < use)

\* Every use the walk is past has left an entry of its node with its pin.
Collected ==
    \A p \in Pins : \A r \in UsesOf(p) :
        Seen(r) => \E i \in 1..Len(pinmap[Name(p)]) : pinmap[Name(p)][i].node = r[1]

\* A tree is passed only at the end of the walk.
Judged ==
    verdict = "ok" => node > Len(tree) /\ \A n \in Names : Fine(pinmap[n])

PinInv == TypeOK /\ Collected /\ Judged

\* A node of a tree has a sequence of uses.
LEMMA NodeProperties ==
    ASSUME NEW t \in Seq(Node), NEW i \in 1..Len(t)
    PROVE  t[i].uses \in Seq(Use) /\ Len(t[i].uses) \in Nat /\ t[i].status \in Statuses
<1>1. t[i] \in Node
  OBVIOUS
<1>2. t[i].uses \in Seq(Use) /\ t[i].status \in Statuses
  BY <1>1 DEF Node
<1>3. QED
  BY <1>2

\* A place is that of a use of an enabled node.
LEMMA PlaceProperties ==
    ASSUME TypeOK, NEW r \in Places
    PROVE  /\ r[1] \in 1..Len(tree) /\ r[2] \in 1..Len(tree[r[1]].uses)
           /\ Enabled(tree[r[1]])
           /\ tree[r[1]].uses[r[2]] \in Use
<1>1. PICK i \in 1..Len(tree) : tree[i].status \notin {"ok", "disabled"} /\ r \in {i} \X (1..Len(tree[i].uses))
  BY DEF Places
<1>2. r[1] = i /\ r[2] \in 1..Len(tree[i].uses)
  BY <1>1
<1>3. tree[i] \in Node
  BY DEF TypeOK
<1>4. tree[i].status \in Statuses /\ tree[i].uses \in Seq(Use)
  BY <1>3 DEF Node
<1>5. Enabled(tree[i])
  BY <1>1, <1>4 DEF Enabled, Statuses
<1>6. tree[i].uses[r[2]] \in Use
  BY <1>2, <1>4
<1>7. QED
  BY <1>1, <1>2, <1>5, <1>6

\* A group that names a pin adds an entry for its name.
LEMMA EntriesProperties ==
    ASSUME NEW g \in Groups, NEW n, NEW u \in User
    PROVE  /\ Count(g, n) \in Nat
           /\ Entries(g, n, u) \in Seq(User) /\ Len(Entries(g, n, u)) = Count(g, n)
           /\ \A i \in 1..Count(g, n) : Entries(g, n, u)[i] = u
           /\ (\E i \in 1..Len(PinsOf[g]) : Name(PinsOf[g][i]) = n) => Count(g, n) > 0
<1> DEFINE I == {i \in 1..Len(PinsOf[g]) : Name(PinsOf[g][i]) = n}
<1>1. Len(PinsOf[g]) \in Nat
  BY TreesAssumption
<1>2. IsFiniteSet(1..Len(PinsOf[g]))
  BY <1>1, FS_Interval
<1>3. IsFiniteSet(I)
  BY <1>2, FS_Subset
<1>4. Cardinality(I) \in Nat /\ (I # {} => Cardinality(I) # 0)
  BY <1>3, FS_CardinalityType, FS_EmptySet
<1>5. Count(g, n) = Cardinality(I)
  BY DEF Count
<1> HIDE DEF I
<1>6. Count(g, n) \in Nat /\ (I # {} => Count(g, n) > 0)
  BY <1>4, <1>5
<1>7. Entries(g, n, u) = [i \in 1..Count(g, n) |-> u]
  BY DEF Entries
<1>8. QED
  BY <1>6, <1>7 DEF I

LEMMA InitPin == Init => PinInv
<1> SUFFICES ASSUME Init
             PROVE  PinInv
  OBVIOUS
<1>1. tree \in Seq(Node) /\ Len(tree) \in Nat
  BY TreesAssumption DEF Init
<1>2. 1 <= Len(tree) => Len(tree[1].uses) \in Nat
  BY <1>1, NodeProperties
<1>3. TypeOK
  BY <1>1, <1>2 DEF Init, TypeOK
<1>4. Collected
  <2>1. ASSUME NEW r \in Places
        PROVE  ~Seen(r)
    BY <1>1, <1>3, <2>1, PlaceProperties DEF Init, Seen
  <2>2. QED
    BY <2>1 DEF Collected, UsesOf
<1>5. QED
  BY <1>3, <1>4 DEF PinInv, Judged, Init

\* A step to the next node.
LEMMA StepNextNode == PinInv /\ NextNode => PinInv'
<1> SUFFICES ASSUME PinInv, NextNode
             PROVE  PinInv'
  OBVIOUS
<1>1. Len(tree) \in Nat /\ tree' = tree /\ node \in Nat /\ use \in Nat
  BY DEF PinInv, TypeOK, NextNode
<1>2. TypeOK'
  <2>1. node' \in 1..(Len(tree) + 1) /\ use' = 1
    BY <1>1 DEF PinInv, TypeOK, NextNode
  <2>2. node' <= Len(tree) => Len(tree[node'].uses) \in Nat
    <3>1. tree \in Seq(Node) /\ (node' <= Len(tree) => node' \in 1..Len(tree))
      BY <1>1, <2>1 DEF PinInv, TypeOK
    <3>2. QED
      BY <3>1, NodeProperties
  <2>3. QED
    BY <1>1, <2>1, <2>2 DEF PinInv, TypeOK, NextNode
<1>3. ASSUME NEW r \in Places, Seen(r)'
      PROVE  Seen(r)
  <2>1. /\ r[1] \in 1..Len(tree) /\ r[2] \in 1..Len(tree[r[1]].uses)
        /\ Enabled(tree[r[1]])
    BY PlaceProperties DEF PinInv
  <2>2. r[1] < node + 1
    BY <1>1, <1>3, <2>1 DEF Seen, NextNode
  <2>3. CASE r[1] = node
    <3>1. use > Len(tree[node].uses)
      BY <2>1, <2>3 DEF NextNode
    <3>2. tree[node].uses \in Seq(Use)
      BY <2>1, <2>3, NodeProperties DEF PinInv, TypeOK
    <3>3. r[2] < use
      BY <1>1, <2>1, <2>3, <3>1, <3>2
    <3>4. QED
      BY <2>3, <3>3 DEF Seen
  <2>4. QED
    BY <1>1, <2>1, <2>2, <2>3 DEF Seen
<1>4. Collected'
  BY <1>1, <1>3 DEF PinInv, Collected, UsesOf, Places, UseAt, PinsAt, NextNode
<1>5. QED
  BY <1>2, <1>4 DEF PinInv, Judged, NextNode

\* The use the walk is at.
Here  == tree[node].uses[use]
Entry == [node |-> node, prop |-> Here.prop]

LEMMA HereTyped ==
    ASSUME TypeOK, CheckPinctrl
    PROVE  /\ Len(tree) \in Nat /\ tree' = tree /\ node' = node
           /\ node \in 1..Len(tree) /\ node \in Nat /\ use \in Nat
           /\ tree[node].uses \in Seq(Use) /\ Here \in Use /\ use \in 1..Len(tree[node].uses)
           /\ verdict' \notin {"ok", "conflict"}
           /\ Here.group \in Groups /\ Entry \in User
<1>1. /\ tree \in Seq(Node) /\ Len(tree) \in Nat /\ node \in 1..Len(tree)
      /\ use \in Nat \ {0} /\ use <= Len(tree[node].uses)
  BY DEF TypeOK, CheckPinctrl
<1>2. tree[node].uses \in Seq(Use) /\ use \in 1..Len(tree[node].uses)
  BY <1>1, NodeProperties
<1>3. tree' = tree /\ node' = node /\ verdict' \notin {"ok", "conflict"}
  BY DEF CheckPinctrl
<1>4. Here \in Use
  BY <1>2 DEF Here
<1>5. Here.group \in Groups /\ Entry \in User
  BY <1>1, <1>4 DEF Use, User, Entry
<1>6. QED
  BY <1>1, <1>2, <1>3, <1>4, <1>5

\* What a group that can be read adds to the users of a name.
LEMMA EntriesAdded ==
    ASSUME TypeOK, CheckPinctrl, verdict' = "none"
    PROVE  /\ pinmap' \in [Names -> Seq(User)]
           /\ \A n \in Names :
               /\ Len(pinmap'[n]) = Len(pinmap[n]) + Count(Here.group, n)
               /\ \A i \in 1..Len(pinmap[n]) : pinmap'[n][i] = pinmap[n][i]
               /\ \A i \in 1..Count(Here.group, n) : pinmap'[n][Len(pinmap[n]) + i] = Entry
               /\ Len(pinmap[n]) \in Nat /\ Count(Here.group, n) \in Nat
<1>1. pinmap' = [m \in Names |-> pinmap[m] \o Entries(Here.group, m, Entry)]
  BY DEF CheckPinctrl, Here, Entry
<1>2. ASSUME NEW m \in Names
      PROVE  /\ Count(Here.group, m) \in Nat
             /\ Entries(Here.group, m, Entry) \in Seq(User)
             /\ Len(Entries(Here.group, m, Entry)) = Count(Here.group, m)
             /\ \A i \in 1..Count(Here.group, m) : Entries(Here.group, m, Entry)[i] = Entry
  BY HereTyped, EntriesProperties
<1>3. pinmap' \in [Names -> Seq(User)]
  <2>1. ASSUME NEW m \in Names PROVE pinmap[m] \o Entries(Here.group, m, Entry) \in Seq(User)
    <3>1. pinmap[m] \in Seq(User) /\ Entries(Here.group, m, Entry) \in Seq(User)
      BY <1>2 DEF TypeOK
    <3>2. QED
      BY <3>1, ConcatProperties
  <2>2. QED
    BY <1>1, <2>1
<1>4. ASSUME NEW n \in Names
      PROVE  /\ Len(pinmap'[n]) = Len(pinmap[n]) + Count(Here.group, n)
             /\ \A i \in 1..Len(pinmap[n]) : pinmap'[n][i] = pinmap[n][i]
             /\ \A i \in 1..Count(Here.group, n) : pinmap'[n][Len(pinmap[n]) + i] = Entry
             /\ Len(pinmap[n]) \in Nat /\ Count(Here.group, n) \in Nat
  <2> DEFINE a == pinmap[n]
             b == Entries(Here.group, n, Entry)
  <2>1. a \in Seq(User) /\ b \in Seq(User) /\ pinmap'[n] = a \o b
    BY <1>1, <1>2 DEF TypeOK
  <2> HIDE DEF a, b
  <2>2. /\ a \o b \in Seq(User) /\ Len(a \o b) = Len(a) + Len(b)
        /\ Len(a) \in Nat /\ Len(b) \in Nat
        /\ \A i \in 1..(Len(a) + Len(b)) :
              (a \o b)[i] = IF i <= Len(a) THEN a[i] ELSE b[i - Len(a)]
    BY <2>1, ConcatProperties
  <2>3. \A i \in 1..Len(b) : (a \o b)[Len(a) + i] = b[i]
    BY <2>2
  <2>4. \A i \in 1..Len(a) : (a \o b)[i] = a[i]
    BY <2>2
  <2>5. QED
    BY <1>2, <2>1, <2>2, <2>3, <2>4 DEF a, b
<1>5. QED
  BY <1>3, <1>4

\* A step over one use.
LEMMA StepCheckPinctrl == PinInv /\ CheckPinctrl => PinInv'
<1> SUFFICES ASSUME PinInv, CheckPinctrl
             PROVE  PinInv'
  OBVIOUS
<1>1. /\ TypeOK /\ Len(tree) \in Nat /\ tree' = tree /\ node' = node
      /\ node \in 1..Len(tree) /\ node \in Nat /\ use \in Nat
      /\ use \in 1..Len(tree[node].uses) /\ verdict' # "ok" /\ Here.group \in Groups
      /\ Entry \in User /\ tree[node].uses \in Seq(Use)
  BY HereTyped DEF PinInv
<1>3. CASE UNCHANGED <<pinmap, use>> /\ verdict' = "error"
  <2>1. TypeOK'
    BY <1>1, <1>3 DEF TypeOK
  <2>2. Collected'
    BY <1>1, <1>3 DEF PinInv, Collected, UsesOf, Places, UseAt, PinsAt, Seen
  <2>3. QED
    BY <1>1, <2>1, <2>2 DEF PinInv, Judged
<1>4. CASE use' = use + 1 /\ verdict' = "none"
  <2>1. ASSUME NEW n \in Names
        PROVE  /\ Len(pinmap'[n]) = Len(pinmap[n]) + Count(Here.group, n)
               /\ \A i \in 1..Len(pinmap[n]) : pinmap'[n][i] = pinmap[n][i]
               /\ \A i \in 1..Count(Here.group, n) : pinmap'[n][Len(pinmap[n]) + i] = Entry
               /\ Len(pinmap[n]) \in Nat /\ Count(Here.group, n) \in Nat
    BY <1>1, <1>4, EntriesAdded
  <2>2. TypeOK'
    <3>1. pinmap' \in [Names -> Seq(User)]
      BY <1>1, <1>4, EntriesAdded
    <3>2. use' \in Nat \ {0} /\ (node' <= Len(tree') => use' <= Len(tree'[node'].uses) + 1)
      BY <1>1, <1>4
    <3>3. QED
      BY <1>1, <1>4, <3>1, <3>2 DEF TypeOK
  <2>3. ASSUME NEW p \in Pins, NEW r \in UsesOf(p), Seen(r)'
        PROVE  \E i \in 1..Len(pinmap'[Name(p)]) : pinmap'[Name(p)][i].node = r[1]
    <3>1. Name(p) \in Names /\ r \in Places
      BY DEF Names, UsesOf
    <3>2. CASE Seen(r)
      <4>1. PICK i \in 1..Len(pinmap[Name(p)]) : pinmap[Name(p)][i].node = r[1]
        BY <3>2 DEF PinInv, Collected
      <4>2. i \in 1..Len(pinmap'[Name(p)]) /\ pinmap'[Name(p)][i] = pinmap[Name(p)][i]
        BY <2>1, <3>1
      <4>3. QED
        BY <4>1, <4>2
    <3>3. CASE ~Seen(r)
      <4>1. r[1] \in 1..Len(tree) /\ r[2] \in 1..Len(tree[r[1]].uses)
        BY <3>1, PlaceProperties DEF PinInv
      <4>2. r[1] = node /\ r[2] \in Nat
        BY <1>1, <2>3, <3>3, <4>1 DEF Seen
      <4>3. r[2] = use
        BY <1>1, <1>4, <2>3, <3>3, <4>2 DEF Seen
      <4>4. PICK i \in 1..Len(PinsOf[Here.group]) : PinsOf[Here.group][i] = p
        BY <4>2, <4>3 DEF UsesOf, PinsAt, UseAt, Here
      <4>5. Count(Here.group, Name(p)) > 0
        BY <1>1, <4>4, EntriesProperties
      <4>6. /\ Len(pinmap[Name(p)]) + 1 \in 1..Len(pinmap'[Name(p)])
            /\ pinmap'[Name(p)][Len(pinmap[Name(p)]) + 1] = Entry
        BY <2>1, <3>1, <4>5
      <4>7. Entry.node = r[1]
        BY <4>2 DEF Entry
      <4>8. QED
        BY <4>6, <4>7
    <3>4. QED
      BY <3>2, <3>3
  <2>4. Collected'
    BY <1>1, <2>3 DEF Collected, UsesOf, Places, UseAt, PinsAt
  <2>5. QED
    BY <1>1, <2>2, <2>4 DEF PinInv, Judged
<1>5. QED
  BY <1>3, <1>4 DEF CheckPinctrl

LEMMA StepPin == PinInv /\ [Next]_vars => PinInv'
<1> SUFFICES ASSUME PinInv, [Next]_vars
             PROVE  PinInv'
  OBVIOUS
<1>1. CASE Judge
  BY <1>1 DEF Judge, PinInv, TypeOK, Collected, Judged, Seen, UsesOf, Places, UseAt, PinsAt
<1>2. CASE UNCHANGED vars
  BY <1>2 DEF vars, PinInv, TypeOK, Collected, Judged, Seen, UsesOf, Places, UseAt, PinsAt
<1>3. QED
  BY <1>1, <1>2, StepNextNode, StepCheckPinctrl DEF Next

\* The check of build.py passes a tree only if no pin is used by two enabled
\* nodes, whatever the tree, the groups and the pins: the comparison with the
\* first user alone is enough for that.
THEOREM NoSharingHolds == Spec => []NoSharing
<1>1. PinInv => NoSharing
  <2> SUFFICES ASSUME PinInv, verdict = "ok",
                      NEW p \in Pins, NEW r \in UsesOf(p), NEW s \in UsesOf(p)
               PROVE  r[1] = s[1]
    BY DEF NoSharing
  <2> DEFINE us == pinmap[Name(p)]
  <2>1. Name(p) \in Names /\ r \in Places /\ s \in Places
    BY DEF Names, UsesOf
  <2>2. Fine(us) /\ node > Len(tree)
    BY <2>1 DEF PinInv, Judged
  <2>3. Seen(r) /\ Seen(s)
    BY <2>1, <2>2, PlaceProperties DEF PinInv, Seen, TypeOK
  <2>4. PICK i \in 1..Len(us) : us[i].node = r[1]
    BY <2>3 DEF PinInv, Collected
  <2>5. PICK j \in 1..Len(us) : us[j].node = s[1]
    BY <2>3 DEF PinInv, Collected
  <2>6. Len(us) \in Nat
    BY <2>1 DEF PinInv, TypeOK
  <2>7. us[i].node = us[1].node /\ us[j].node = us[1].node
    BY <2>2, <2>6 DEF Fine
  <2>8. QED
    BY <2>4, <2>5, <2>7
<1>2. QED
  BY InitPin, StepPin, <1>1, PTL DEF Spec

-----------------------------------------------------------------------------
(* The other direction: what is said of the tree against it is true.       *)

Names1(g, n, k) == k \in 1..Len(PinsOf[g]) /\ Name(PinsOf[g][k]) = n

\* An entry in the list of a name comes from a use the walk is past.
Backed(n, i, r) ==
    /\ r \in Places /\ Seen(r)
    /\ pinmap[n][i] = [node |-> r[1], prop |-> UseAt(r).prop]
    /\ \E k : Names1(UseAt(r).group, n, k)

\* Two entries come from two uses, or from one whose group names the pin twice.
BackedApart(n, i, j) ==
    \E r, s : /\ Backed(n, i, r) /\ Backed(n, j, s)
              /\ r = s => \E k, l : k # l /\ Names1(UseAt(r).group, n, k)
                                           /\ Names1(UseAt(r).group, n, l)

Earned ==
    /\ \A r \in Places : Seen(r) => UseAt(r).group \notin Broken
    /\ \A n \in Names : \A i \in 1..Len(pinmap[n]) : \E r : Backed(n, i, r)
    /\ \A n \in Names : \A i, j \in 1..Len(pinmap[n]) : i # j => BackedApart(n, i, j)
    /\ verdict \in {"ok", "conflict"} => node > Len(tree)
    /\ verdict = "conflict" => \E n \in Names : ~Fine(pinmap[n])

\* A name is that of one pin.
LEMMA NameInjective ==
    ASSUME NEW p \in Pins, NEW q \in Pins, Name(p) = Name(q)
    PROVE  p = q
<1>1. /\ p = <<p[1], p[2]>> /\ q = <<q[1], q[2]>>
      /\ p[2] \in Nat /\ q[2] \in Nat
  BY TreesAssumption
<1>2. p[1] = q[1] /\ p[2] \div 8 = q[2] \div 8 /\ p[2] % 8 = q[2] % 8
  BY DEF Name
<1>3. \A m \in Nat : m = 8 * (m \div 8) + (m % 8)
  OBVIOUS
<1>4. p[2] = q[2]
  BY <1>1, <1>2, <1>3
<1>5. QED
  BY <1>1, <1>2, <1>4

\* A group with an entry for a name names it, and with two names it twice.
LEMMA EntriesEarned ==
    ASSUME NEW g \in Groups, NEW n
    PROVE  /\ Count(g, n) > 0 => \E k : Names1(g, n, k)
           /\ Count(g, n) > 1 => \E k, l : k # l /\ Names1(g, n, k) /\ Names1(g, n, l)
<1> DEFINE I == {i \in 1..Len(PinsOf[g]) : Name(PinsOf[g][i]) = n}
<1>1. Len(PinsOf[g]) \in Nat
  BY TreesAssumption
<1>2. IsFiniteSet(I)
  <2>1. IsFiniteSet(1..Len(PinsOf[g]))
    BY <1>1, FS_Interval
  <2>2. QED
    BY <2>1, FS_Subset
<1>3. Count(g, n) = Cardinality(I) /\ \A k : k \in I <=> Names1(g, n, k)
  BY DEF Count, Names1
<1> HIDE DEF I
<1>4. Cardinality(I) > 0 => I # {}
  BY <1>2, FS_EmptySet
<1>5. Cardinality(I) > 1 => I # {} /\ \A x : I # {x}
  BY <1>2, FS_EmptySet, FS_Singleton
<1>6. I # {} /\ (\A x : I # {x}) => \E k, l \in I : k # l
  OBVIOUS
<1>7. QED
  BY <1>3, <1>4, <1>5, <1>6

\* What the walk is past stays so.
LEMMA BackedKept ==
    ASSUME TypeOK, NEW n \in Names, NEW i \in 1..Len(pinmap[n]), NEW r,
           Backed(n, i, r), tree' = tree, Seen(r)', pinmap'[n][i] = pinmap[n][i]
    PROVE  Backed(n, i, r)'
BY DEF Backed, UseAt, Places

\* A step that leaves the walk where it is.
LEMMA EarnedKept ==
    ASSUME Earned, UNCHANGED <<tree, node, use, pinmap>>,
           verdict' \in {"ok", "conflict"} => node > Len(tree),
           verdict' = "conflict" => \E n \in Names : ~Fine(pinmap[n])
    PROVE  Earned'
<1>1. /\ Places' = Places /\ \A r : UseAt(r)' = UseAt(r)
      /\ \A r : Seen(r)' <=> Seen(r)
  BY DEF Places, UseAt, Seen
<1>2. \A n, i, r : Backed(n, i, r) => Backed(n, i, r)'
  BY <1>1 DEF Backed
<1>3. \A n, i, j : BackedApart(n, i, j) => BackedApart(n, i, j)'
  BY <1>1, <1>2 DEF BackedApart
<1>4. QED
  BY <1>1, <1>2, <1>3 DEF Earned

LEMMA InitEarned == Init => Earned
<1> SUFFICES ASSUME Init
             PROVE  Earned
  OBVIOUS
<1>1. ASSUME NEW r \in Places
      PROVE  ~Seen(r)
  BY InitPin, PlaceProperties DEF PinInv, Init, Seen
<1>2. \A n \in Names : Len(pinmap[n]) = 0
  BY DEF Init
<1>3. QED
  BY <1>1, <1>2 DEF Init, Earned

LEMMA StepEarned == PinInv /\ Earned /\ [Next]_vars => Earned'
<1> SUFFICES ASSUME PinInv, Earned, [Next]_vars
             PROVE  Earned'
  OBVIOUS
<1> USE DEF PinInv
<1>1. CASE NextNode
  <2>1. tree' = tree /\ pinmap' = pinmap /\ verdict' = verdict /\ verdict = "none"
    BY <1>1 DEF NextNode
  <2>2. ASSUME NEW r \in Places
        PROVE  Seen(r) <=> Seen(r)'
    <3>1. /\ r[1] \in 1..Len(tree) /\ r[2] \in 1..Len(tree[r[1]].uses)
          /\ Enabled(tree[r[1]]) /\ node \in Nat /\ use \in Nat
          /\ r[1] \in Nat /\ r[2] \in Nat /\ r[2] > 0
      BY PlaceProperties DEF TypeOK
    <3>2. r[1] = node => Len(tree[node].uses) \in Nat /\ use > Len(tree[node].uses)
      BY <1>1, <3>1, NodeProperties DEF NextNode, TypeOK
    <3>3. node' = node + 1 /\ use' = 1
      BY <1>1 DEF NextNode
    <3>4. QED
      BY <3>1, <3>2, <3>3 DEF Seen
  <2>3. \A n, i, r : Backed(n, i, r) => Backed(n, i, r)'
    BY <2>1, <2>2 DEF Backed, UseAt, Places
  <2>4. \A n, i, j : BackedApart(n, i, j) => BackedApart(n, i, j)'
    BY <2>1, <2>3 DEF BackedApart, UseAt
  <2>5. \A r \in Places' : Seen(r)' => UseAt(r)'.group \notin Broken
    BY <2>1, <2>2 DEF Earned, UseAt, Places
  <2>6. QED
    BY <2>1, <2>3, <2>4, <2>5 DEF Earned
<1>2. CASE CheckPinctrl /\ verdict' = "none"
  <2>1. /\ Len(tree) \in Nat /\ tree' = tree /\ node' = node /\ use' = use + 1
        /\ node \in 1..Len(tree) /\ node \in Nat /\ use \in Nat
        /\ use \in 1..Len(tree[node].uses) /\ Here.group \in Groups
        /\ Here.group \notin Broken /\ Enabled(tree[node])
    BY <1>2, HereTyped DEF CheckPinctrl, Sound, Here
  <2> PICK h \in Nat \X Nat : h = <<node, use>>
    BY <2>1
  <2>2. h \in Places /\ UseAt(h) = Here /\ Seen(h)' /\ ~Seen(h)
    <3>1. node \in {j \in 1..Len(tree) : tree[j].status \notin {"ok", "disabled"}}
      BY <2>1 DEF Enabled
    <3>2. h \in {node} \X (1..Len(tree[node].uses))
      BY <2>1
    <3>3. h \in Places
      BY <3>1, <3>2 DEF Places
    <3>4. h[1] = node /\ h[2] = use
      OBVIOUS
    <3>5. QED
      BY <2>1, <3>3, <3>4 DEF UseAt, Here, Seen
  <2>3. ASSUME NEW r \in Places
        PROVE  Seen(r)' <=> (Seen(r) \/ r = h)
    <3>1. r = <<r[1], r[2]>> /\ r[1] \in Nat /\ r[2] \in Nat
      <4>1. PICK i \in 1..Len(tree) : r \in {i} \X (1..Len(tree[i].uses))
        BY DEF Places
      <4>2. QED
        BY <4>1
    <3>2. QED
      BY <2>1, <3>1 DEF Seen
  <2>4. ASSUME NEW n \in Names
        PROVE  /\ Len(pinmap'[n]) = Len(pinmap[n]) + Count(Here.group, n)
               /\ \A i \in 1..Len(pinmap[n]) : pinmap'[n][i] = pinmap[n][i]
               /\ \A i \in 1..Count(Here.group, n) : pinmap'[n][Len(pinmap[n]) + i] = Entry
               /\ Len(pinmap[n]) \in Nat /\ Count(Here.group, n) \in Nat
    BY <1>2, EntriesAdded
  <2>5. ASSUME NEW n \in Names, NEW i \in 1..Len(pinmap[n]), NEW r, Backed(n, i, r)
        PROVE  Backed(n, i, r)' /\ r # h
    <3>1. Seen(r)' /\ r # h
      BY <2>2, <2>3, <2>5 DEF Backed
    <3>2. QED
      BY <2>1, <2>4, <2>5, <3>1, BackedKept
  <2>6. ASSUME NEW n \in Names, NEW i \in 1..Len(pinmap'[n]), i \notin 1..Len(pinmap[n])
        PROVE  Backed(n, i, h)' /\ Count(Here.group, n) > 0
    <3>1. /\ i - Len(pinmap[n]) \in 1..Count(Here.group, n)
          /\ Len(pinmap[n]) + (i - Len(pinmap[n])) = i /\ Count(Here.group, n) > 0
      <4>1. i \in 1..(Len(pinmap[n]) + Count(Here.group, n))
            /\ Len(pinmap[n]) \in Nat /\ Count(Here.group, n) \in Nat
        BY <2>4
      <4>2. QED
        BY <2>6, <4>1
    <3>2. pinmap'[n][i] = [node |-> h[1], prop |-> Here.prop]
      BY <2>4, <3>1 DEF Entry
    <3>3. \E k : Names1(Here.group, n, k)
      BY <2>1, <3>1, EntriesEarned
    <3>4. UseAt(h)' = Here /\ Places' = Places
      <4>1. UseAt(h)' = UseAt(h)
        BY <2>1 DEF UseAt
      <4>2. QED
        BY <2>1, <2>2, <4>1 DEF Places
    <3>5. QED
      BY <2>2, <3>1, <3>2, <3>3, <3>4 DEF Backed
  <2>7. ASSUME NEW n \in Names, NEW i \in 1..Len(pinmap'[n]), NEW j \in 1..Len(pinmap'[n]), i # j
        PROVE  BackedApart(n, i, j)'
    <3>1. CASE i \in 1..Len(pinmap[n]) /\ j \in 1..Len(pinmap[n])
      <4>1. BackedApart(n, i, j)
        BY <2>7, <3>1 DEF Earned
      <4>2. QED
        BY <2>1, <2>5, <3>1, <4>1 DEF BackedApart, UseAt
    <3>2. CASE i \in 1..Len(pinmap[n]) /\ j \notin 1..Len(pinmap[n])
      <4>1. PICK r : Backed(n, i, r)
        BY <3>2 DEF Earned
      <4>2. Backed(n, i, r)' /\ Backed(n, j, h)' /\ r # h
        BY <2>5, <2>6, <3>2, <4>1
      <4>3. QED
        BY <4>2 DEF BackedApart
    <3>3. CASE i \notin 1..Len(pinmap[n]) /\ j \in 1..Len(pinmap[n])
      <4>1. PICK r : Backed(n, j, r)
        BY <3>3 DEF Earned
      <4>2. Backed(n, j, r)' /\ Backed(n, i, h)' /\ r # h
        BY <2>5, <2>6, <3>3, <4>1
      <4>3. QED
        BY <4>2 DEF BackedApart
    <3>4. CASE i \notin 1..Len(pinmap[n]) /\ j \notin 1..Len(pinmap[n])
      <4>1. Backed(n, i, h)' /\ Backed(n, j, h)'
        BY <2>6, <3>4
      <4>2. Count(Here.group, n) > 1
        BY <2>4, <2>7, <3>4
      <4>3. \E k, l : k # l /\ Names1(Here.group, n, k) /\ Names1(Here.group, n, l)
        BY <2>1, <4>2, EntriesEarned
      <4>4. UseAt(h)' = Here
        <5>1. UseAt(h)' = UseAt(h)
          BY <2>1 DEF UseAt
        <5>2. QED
          BY <2>2, <5>1
      <4>5. QED
        BY <4>1, <4>3, <4>4 DEF BackedApart
    <3>5. QED
      BY <3>1, <3>2, <3>3, <3>4
  <2>8. \A r \in Places' : Seen(r)' => UseAt(r)'.group \notin Broken
    BY <2>1, <2>2, <2>3 DEF Earned, UseAt, Places
  <2>9. \A n \in Names : \A i \in 1..Len(pinmap'[n]) : \E r : Backed(n, i, r)'
    BY <2>5, <2>6 DEF Earned
  <2>10. QED
    BY <1>2, <2>7, <2>8, <2>9 DEF Earned
<1>3. CASE CheckPinctrl /\ verdict' = "error"
  <2>1. UNCHANGED <<tree, node, use, pinmap>>
    BY <1>3 DEF CheckPinctrl
  <2>2. QED
    BY <1>3, <2>1, EarnedKept
<1>4. CASE Judge
  <2>1. UNCHANGED <<tree, node, use, pinmap>> /\ node > Len(tree)
    BY <1>4 DEF Judge
  <2>2. verdict' = "conflict" => \E n \in Names : ~Fine(pinmap[n])
    BY <1>4 DEF Judge
  <2>3. QED
    BY <2>1, <2>2, EarnedKept
<1>5. CASE UNCHANGED vars
  <2>1. UNCHANGED <<tree, node, use, pinmap, verdict>>
    BY <1>5 DEF vars
  <2>2. QED
    BY <2>1, EarnedKept DEF Earned
<1>6. QED
  BY <1>1, <1>2, <1>3, <1>4, <1>5 DEF Next, CheckPinctrl

\* The tool of build.py judges a tree only when it could read every group that
\* is in use, and refuses one only for a pin that is named twice in a way the
\* rule forbids: comparing with the first user alone accuses nobody wrongly.
THEOREM VerdictEarnedHolds == Spec => []VerdictEarned
<1>1. PinInv /\ Earned => VerdictEarned
  <2> SUFFICES ASSUME PinInv, Earned
               PROVE  VerdictEarned
    OBVIOUS
  <2>1. ASSUME verdict \in {"ok", "conflict"}, NEW r \in Places
        PROVE  UseAt(r).group \notin Broken
    <3>1. Seen(r)
      BY <2>1, PlaceProperties DEF PinInv, TypeOK, Earned, Seen
    <3>2. QED
      BY <3>1 DEF Earned
  <2>2. ASSUME verdict = "conflict"
        PROVE  \E p \in Pins : \E r, s \in UsesOf(p) :
                  r[1] # s[1] \/ (r # s /\ UseAt(r).prop = UseAt(s).prop) \/ Twice(p, r)
    <3>1. PICK n \in Names : ~Fine(pinmap[n])
      BY <2>2 DEF Earned
    <3>2. PICK p \in Pins : n = Name(p)
      BY DEF Names
    <3>3. Len(pinmap[n]) \in Nat
      BY DEF PinInv, TypeOK
    <3>4. PICK i \in 2..Len(pinmap[n]) :
             ~(pinmap[n][i].node = pinmap[n][1].node /\ pinmap[n][i].prop # pinmap[n][1].prop)
      BY <3>1 DEF Fine
    <3>5. i \in 1..Len(pinmap[n]) /\ 1 \in 1..Len(pinmap[n]) /\ i # 1
      BY <3>3
    <3>6. PICK r, s : /\ Backed(n, i, r) /\ Backed(n, 1, s)
                      /\ r = s => \E k, l : k # l /\ Names1(UseAt(r).group, n, k)
                                                   /\ Names1(UseAt(r).group, n, l)
      BY <3>5 DEF Earned, BackedApart
    <3>7. ASSUME NEW q \in Places, NEW k, Names1(UseAt(q).group, n, k)
          PROVE  k \in 1..Len(PinsAt(q)) /\ PinsAt(q)[k] = p
      <4>1. UseAt(q).group \in Groups
        BY PlaceProperties DEF PinInv, Use, UseAt
      <4>2. k \in 1..Len(PinsAt(q)) /\ PinsAt(q)[k] \in Pins /\ Name(PinsAt(q)[k]) = Name(p)
        BY <3>2, <3>7, <4>1, TreesAssumption DEF Names1, PinsAt
      <4>3. QED
        BY <4>2, NameInjective
    <3>8. r \in UsesOf(p) /\ s \in UsesOf(p)
      BY <3>6, <3>7 DEF Backed, UsesOf
    <3>9. CASE r = s
      <4>1. PICK k, l : k # l /\ Names1(UseAt(r).group, n, k) /\ Names1(UseAt(r).group, n, l)
        BY <3>6, <3>9
      <4>2. /\ k \in 1..Len(PinsAt(r)) /\ PinsAt(r)[k] = p
            /\ l \in 1..Len(PinsAt(r)) /\ PinsAt(r)[l] = p
        BY <3>6, <3>7, <4>1 DEF Backed
      <4> Twice(p, r)
        BY <4>1, <4>2 DEF Twice
      <4>3. QED
        BY <3>8
    <3>10. CASE r # s
      <4>1. r[1] # s[1] \/ UseAt(r).prop = UseAt(s).prop
        BY <3>4, <3>6 DEF Backed
      <4>2. QED
        BY <3>8, <3>10, <4>1
    <3>11. QED
      BY <3>9, <3>10
  <2>3. QED
    BY <2>1, <2>2 DEF VerdictEarned
<1>2. QED
  BY InitPin, StepPin, InitEarned, StepEarned, <1>1, PTL DEF Spec
=============================================================================
