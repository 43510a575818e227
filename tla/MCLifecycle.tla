---------------------------- MODULE MCLifecycle ----------------------------
(* One relay at a time, or two where one can be forgotten, and two connections. *)
EXTENDS Lifecycle
CONSTANTS r1, r2, c1, c2
=============================================================================
