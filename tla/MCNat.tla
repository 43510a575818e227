--------------------------------- MODULE MCNat ---------------------------------
(* The redirection table on a small instance.                                *)
EXTENDS Nat, TLC

\* Ports and destinations are only compared, so renaming them changes nothing.
Symmetric == Permutations(Ports) \cup Permutations(Dsts)
=============================================================================
