-------------------------- MODULE MCSchemaRegistry --------------------------
(* The instances of SchemaRegistry that TLC checks. *)
EXTENDS SchemaRegistry

\* The registry treats all type names alike.
Symmetry == Permutations(Types)
=============================================================================
