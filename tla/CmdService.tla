----------------------------- MODULE CmdService -----------------------------
(***************************************************************************)
(* What the command manager promises to those who call rwnx_send_msg with  *)
(* a confirmation to wait for: every command is listed, sent, answered and *)
(* closed, in this order; the firmware works on one command at a time; and *)
(* a caller that waits for its answer reports success only when it has it. *)
(* A timeout, a transmission that went wrong or an unplugged device ends   *)
(* every promise.                                                          *)
(***************************************************************************)
CONSTANT Calls

VARIABLES
    phase,   \* how far the command of each call is
    waits,   \* the calls whose callers wait for the answer
    success, \* the calls that have reported success
    broken   \* a command or a transmission failed, or the device is gone

vars == <<phase, waits, success, broken>>

Phases == {"new", "listed", "sent", "answered", "closed"}

Init ==
    /\ phase = [c \in Calls |-> "new"]
    /\ waits \in SUBSET Calls /\ success = {} /\ broken = FALSE

Move(c, from, to) ==
    /\ ~broken /\ phase[c] = from /\ phase' = [phase EXCEPT ![c] = to]
    /\ UNCHANGED <<waits, success, broken>>

List(c)   == Move(c, "new", "listed")
Send(c)   == Move(c, "listed", "sent") /\ \A d \in Calls : phase[d] # "sent"
Answer(c) == Move(c, "sent", "answered")
Close(c)  == Move(c, "answered", "closed")

Succeed(c) ==
    /\ ~broken /\ c \notin success
    /\ phase[c] # "new" /\ (c \in waits => phase[c] = "closed")
    /\ success' = success \cup {c}
    /\ UNCHANGED <<phase, waits, broken>>

\* From here on anything goes, but the service stays broken.
Break ==
    /\ broken' = TRUE /\ phase' \in [Calls -> Phases] /\ success' \in SUBSET Calls
    /\ UNCHANGED waits

Next ==
    \/ \E c \in Calls : List(c) \/ Send(c) \/ Answer(c) \/ Close(c) \/ Succeed(c)
    \/ Break

Spec == Init /\ [][Next]_vars
=============================================================================
