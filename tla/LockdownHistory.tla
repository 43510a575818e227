--------------------------- MODULE LockdownHistory ---------------------------
(***************************************************************************)
(* Lockdown with a history variable: the observations on_health took into  *)
(* account since the last reconcile.  It constrains nothing; with it, the  *)
(* two counters of pmx_lockdown.c are shown to implement Hysteresis.       *)
(***************************************************************************)
EXTENDS Lockdown, Sequences

VARIABLE log

View == CASE state = "inactive" -> "off"
          [] state = "armed_healthy" -> "good"
          [] OTHER -> "bad"

Evidence == INSTANCE Hysteresis WITH
  view <- View, trip <- policy.trip, restore <- policy.restore, Window <- CounterCap

HistInit == Init /\ log = <<>>

HistNext ==
  \/ (\E pol \in Policies : Create(pol)) /\ UNCHANGED log
  \/ Destroy /\ log' = <<>>
  \/ /\ \E pol \in Policies : SetPolicy(pol)
     /\ log' = IF armed /\ policy'.mode # policy.mode THEN <<>> ELSE log
  \/ (\E alw \in Allowlists : SetAllowlist(alw)) /\ UNCHANGED log
  \/ Arm /\ log' = <<>>
  \/ Disarm /\ UNCHANGED log
  \/ \E healthy \in BOOLEAN :
       /\ OnHealth(healthy)
       /\ log' = IF armed /\ policy.mode # "off" THEN Evidence!Remember(log, healthy) ELSE log

HistSpec == HistInit /\ [][HistNext]_<<vars, log>>

(***************************************************************************)
(* The counters implement the log: a trip or a restore happens exactly on  *)
(* a run of observations of the length the policy asks for, none of them   *)
(* older than the last arm or change of mode.                              *)
(***************************************************************************)
ImplementsHysteresis == Evidence!HSpec

=============================================================================
