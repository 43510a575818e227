----------------------------- MODULE MCVpnRunner -----------------------------
(* Two slots for three tunnels, or for four: two OpenVPN ones, and WireGuard ones, of which *)
(* two files of the same base name would share a service.                      *)
EXTENDS VpnRunner, TLC

CONSTANTS i1, i2, i3, i4, o1, o2, w1, w2, home

Files4   == i1 :> o1 @@ i2 :> o2 @@ i3 :> w1 @@ i4 :> w2
Files3   == i1 :> o1 @@ i2 :> o2 @@ i3 :> w1
Services == [c \in Configs |-> home]
Children == 1..2
=============================================================================
