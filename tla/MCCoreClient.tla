---------------------------- MODULE MCCoreClient ----------------------------
(***************************************************************************)
(* The client with a few calls and cores.                                  *)
(***************************************************************************)
EXTENDS CoreClient, TLC

Symmetry == Permutations(Calls) \cup Permutations(Sessions)

=============================================================================
