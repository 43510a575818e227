---------------------------- MODULE MCHealthWatch ----------------------------
(* Instances of HealthWatch: two proxies, a tunnel where one matters, and the *)
(* policies that differ in what the watcher does with an observation.         *)
EXTENDS HealthWatch

CONSTANTS p1, p2, vpn, unguarded

TwoProxies == <<p1, p2>>
OneProxy   == <<p1>>

Pol(mode, verified, trip, restore) ==
  [mode |-> mode, until_verified |-> verified, guards |-> unguarded,
   trip |-> trip, restore |-> restore]

\* The default policy, an off switch and the explicit fail-open.
DefaultAndOpen == {Pol("closed", TRUE, 2, 2), Pol("open", FALSE, 2, 2), Pol("off", TRUE, 2, 2)}
Verified       == {Pol("closed", TRUE, 2, 2)}
Optimistic     == {Pol("closed", FALSE, 2, 2), Pol("off", FALSE, 2, 2)}
Eager          == {Pol("closed", TRUE, 1, 1)}

AllAllowlists       == SUBSET {p1, p2, vpn}
AllTunnelAllowlists == SUBSET {p1, vpn}
=============================================================================
