----------------------------- MODULE MCPinCheck -----------------------------
(* Every tree of two nodes with up to three uses, over two properties and    *)
(* five groups: one pin, another of the same bank and number but another     *)
(* letter, both of them, the latter twice, and one that cannot be read.      *)
EXTENDS PinCheck

P1 == <<0, 1>>
P2 == <<0, 9>>

MCProps == {"pinctrl-0", "pinctrl-1"}
MCPins == {P1, P2}
MCPinsOf == [one |-> <<P1>>, two |-> <<P2>>, both |-> <<P1, P2>>, dup |-> <<P2, P2>>,
            broken |-> <<>>]
MCGroups == DOMAIN MCPinsOf
MCBroken == {"broken"}

MCUse == [prop : MCProps, group : MCGroups]
UpTo(n) == UNION {[1..k -> MCUse] : k \in 0..n}
MCNode(n) == [status : Statuses, uses : UpTo(n)]

\* The properties of a node are met one after the other.
Sorted(n) == \A i, j \in 1..Len(n.uses) :
    i < j /\ n.uses[i].prop = "pinctrl-1" => n.uses[j].prop = "pinctrl-1"

MCTrees ==
    {<<a>> : a \in {n \in MCNode(3) : Sorted(n)}} \cup
    {<<a, b>> : a \in {n \in MCNode(2) : Sorted(n)}, b \in {n \in MCNode(2) : Sorted(n)}}
=============================================================================
