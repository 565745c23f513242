---------------------------- MODULE MCRxReorder ----------------------------
(* Instances of RxReorder for TLC: a short stream around the point where   *)
(* the sequence numbers wrap.                                              *)
EXTENDS RxReorder
=============================================================================
