------------------------------ MODULE MCIntent ------------------------------
(***************************************************************************)
(* Intent for TLC.  Nothing in Jlfs or Intent tells one name or one sector *)
(* value from another, so both sets are symmetric; every property of the   *)
(* run is a safety property.                                               *)
(***************************************************************************)
EXTENDS Intent, TLC

Symmetry == Permutations(Names) \cup Permutations(Values)
=============================================================================
