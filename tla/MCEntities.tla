----------------------------- MODULE MCEntities -----------------------------
(* Entities instantiated for TLC.  No symmetry: the run checks a liveness   *)
(* property.                                                                *)

EXTENDS Entities

=============================================================================
