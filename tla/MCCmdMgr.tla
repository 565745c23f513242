------------------------------ MODULE MCCmdMgr ------------------------------
(* Instances of CmdMgr for TLC: the kinds of message and the symmetry. *)
EXTENDS CmdMgr, TLC

K(route, reply, late, cfm) ==
    [route |-> route, reply |-> reply, late |-> late, cfm |-> cfm]

\* A caller that polls for the empty list and one that does not, which wait for
\* different confirmations; the third one's message is always left to the worker.
MixedKinds == {K("queue", TRUE, FALSE, "a"), K("queue", FALSE, FALSE, "b")}
QueuedKinds == MixedKinds \cup {K("queue", FALSE, TRUE, "a")}

\* Bounds of cm_queue: there are callers of both kinds, and a transmission that
\* goes wrong while the device is there is the only fault of its behaviour.
BothKinds == {kind[c] : c \in Calls} = MixedKinds

FailsAlone ==
    /\ bus = "UP" /\ failed => bus' = "UP"
    /\ bus' = "UP" /\ failed' => state' = "INITED"

\* With fatal signals: every route, the message without confirmation too, but
\* none of the late messages, whose wake-up may be lost.
LiveKinds ==
    {K("queue", TRUE, FALSE, "a"), K("queue", FALSE, FALSE, "a"),
     K("queue", FALSE, FALSE, "b"), K("defer", FALSE, FALSE, "a"),
     K("direct", FALSE, FALSE, "a")}

\* The callers that poll, and those whose message enters even the empty list
\* for the worker.
LateKinds == {K("queue", TRUE, FALSE, "a"), K("queue", FALSE, TRUE, "a")}

Sym == Permutations(Calls)
=============================================================================
