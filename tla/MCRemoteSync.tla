---------------------------- MODULE MCRemoteSync ----------------------------
(* Instances of RemoteSync for TLC. *)
EXTENDS RemoteSync
=============================================================================
