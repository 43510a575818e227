------------------------------- MODULE MCRedirect -------------------------------
(* Instances of Redirect: two source ports, two destinations. *)
EXTENDS Redirect, TLC

\* Ports and destinations are only compared, so renaming them changes nothing.
Symmetric == Permutations(Ports) \cup Permutations(Dsts)
=============================================================================
