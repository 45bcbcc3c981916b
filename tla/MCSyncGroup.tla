---------------------------- MODULE MCSyncGroup ----------------------------
(* The instances of SyncGroup that TLC checks. *)
EXTENDS SyncGroup

=============================================================================
