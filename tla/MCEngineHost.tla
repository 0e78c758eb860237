---------------------------- MODULE MCEngineHost ----------------------------
(***************************************************************************)
(* The host with two sidecars: one that ends late and one that follows it. *)
(***************************************************************************)
EXTENDS EngineHost, TLC

RunSymmetry == Permutations(Runs)

=============================================================================
