---------------------------- MODULE MCBlockPath ----------------------------
(***************************************************************************)
(* Threads that use the disk are alike.                                    *)
(***************************************************************************)
EXTENDS BlockPath, TLC

Threads == Permutations(Clients)
=============================================================================
