---------------------------- MODULE ProcessorLife ----------------------------
(***************************************************************************)
(* What a driver of a remote processor owes the hardware and the core: the *)
(* processor is powered, taken out of reset and released in this order; it *)
(* is held before it is reset or its power is cut, and it has neither      *)
(* power nor freedom when nobody looks after it.                           *)
(***************************************************************************)
VARIABLES
    here,    \* a driver looks after the processor
    powered, \* its clocks run for its sake
    reset,   \* it is in reset
    free     \* it was released, and executes its firmware

vars == <<here, powered, reset, free>>

Init == here = FALSE /\ powered = FALSE /\ reset \in BOOLEAN /\ free = FALSE

Come     == ~here /\ here' = TRUE /\ UNCHANGED <<powered, reset, free>>
Go       == here /\ ~powered /\ ~free /\ here' = FALSE /\ UNCHANGED <<powered, reset, free>>
PowerOn  == here /\ ~powered /\ powered' = TRUE /\ UNCHANGED <<here, reset, free>>
PowerOff == powered /\ ~free /\ powered' = FALSE /\ UNCHANGED <<here, reset, free>>
Deassert == powered /\ ~free /\ reset' = FALSE /\ UNCHANGED <<here, powered, free>>
Assert   == powered /\ ~free /\ reset' = TRUE /\ UNCHANGED <<here, powered, free>>
Release  == powered /\ ~reset /\ ~free /\ free' = TRUE /\ UNCHANGED <<here, powered, reset>>
Hold     == free /\ free' = FALSE /\ UNCHANGED <<here, powered, reset>>

Next == Come \/ Go \/ PowerOn \/ PowerOff \/ Deassert \/ Assert \/ Release \/ Hold
Spec == Init /\ [][Next]_vars
=============================================================================
