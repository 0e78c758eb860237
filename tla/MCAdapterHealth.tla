-------------------------- MODULE MCAdapterHealth --------------------------
(***************************************************************************)
(* Two adapters, the second without IPv6.                                  *)
(***************************************************************************)
EXTENDS AdapterHealth, TLC

CONSTANTS a1, a2

MCOrder == <<a1, a2>>

MCWeight == (a1 :> 1) @@ (a2 :> 2)

MCBackoff == <<1, 2>>

DialSymmetry == Permutations(Dials)

=============================================================================
