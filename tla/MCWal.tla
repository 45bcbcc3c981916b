------------------------------- MODULE MCWal -------------------------------
(* The instances of Wal that TLC checks. *)
EXTENDS Wal
=============================================================================
