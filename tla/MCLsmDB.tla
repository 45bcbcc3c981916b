------------------------------ MODULE MCLsmDB ------------------------------
(* The instances of LsmDB that TLC checks. *)
EXTENDS LsmDB
=============================================================================
