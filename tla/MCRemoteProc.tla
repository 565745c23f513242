---------------------------- MODULE MCRemoteProc ----------------------------
(* The instance of RemoteProc for TLC.                                     *)
EXTENDS RemoteProc
=============================================================================
