------------------------------ MODULE Lockdown ------------------------------
(***************************************************************************)
(* The kill-switch controller of src/src/core/pmx_lockdown.c: a policy, a  *)
(* borrowed firewall, an allowlist, two hysteresis counters and a label    *)
(* (state) that the user reads as "what is protecting me right now".       *)
(*                                                                         *)
(* Every entry point runs on the GUI thread, so each is one action.  The   *)
(* firewall is external: it may be missing (a NULL pointer) and, when      *)
(* FirewallMayRefuse, any engage may fail, leaving it as it was -- the     *)
(* contract of pmx_lockdown.h and of the fake firewall in                  *)
(* tests/test_chain_failover.c.                                            *)
(***************************************************************************)
EXTENDS Naturals

CONSTANTS
  Allowlists,         \* what set_allowlist may be given
  NoEndpoints,        \* the empty allowlist
  Guards,             \* settings of the leak guards: block_dns_leak, block_ipv6
  NoGuards,           \* both guards off
  Thresholds,         \* values of failures_before_trip, successes_before_restore
  CounterCap,         \* bound: the hysteresis counters saturate here
  FirewallMayRefuse   \* FALSE: the stub firewall, whose engage always succeeds

\* A counter is only ever compared with a threshold, so saturating it at a cap
\* no threshold exceeds changes nothing the code can observe.
ASSUME LockdownAssumption ==
  /\ NoEndpoints \in Allowlists
  /\ NoGuards \in Guards
  /\ CounterCap \in Nat \ {0}
  /\ Thresholds # {} /\ Thresholds \subseteq 1..CounterCap
  /\ FirewallMayRefuse \in BOOLEAN

Modes  == {"off", "closed", "backup", "open", "unknown"}
States == {"inactive", "armed_healthy", "tripped", "failing_over", "failed_open"}

Policies == [mode: Modes, until_verified: BOOLEAN, guards: Guards,
             trip: Thresholds, restore: Thresholds]

\* What the firewall enforces: what the last engage that succeeded was given.
Rules   == [allow: Allowlists, guards: Guards]
NoRules == [allow |-> NoEndpoints, guards |-> NoGuards]

VARIABLES
  alive,      \* the controller exists
  policy,     \* pmx_lockdown.policy
  allow,      \* pmx_lockdown.allow
  state,      \* pmx_lockdown.state
  fails,      \* pmx_lockdown.fails
  succ,       \* pmx_lockdown.succ
  armed,      \* pmx_lockdown.armed
  fw,         \* "absent" (NULL), "open" or "engaged"
  rules       \* the rules in force, NoRules unless fw is engaged

counters == <<fails, succ>>
fwVars   == <<fw, rules>>
vars     == <<alive, policy, allow, state, fails, succ, armed, fw, rules>>

-----------------------------------------------------------------------------
\* Both modes in which losing the proxy must cut off all other egress.
Blocks(mode) == mode \in {"closed", "backup"}

\* A mode the enum does not know must block, never mean "never block".
Sanitize(pol) == IF pol.mode = "unknown" THEN [pol EXCEPT !.mode = "closed"] ELSE pol

Bump(n) == IF n < CounterCap THEN n + 1 ELSE n

EngageOk(pol, alw) ==
  /\ fw # "absent"
  /\ fw' = "engaged"
  /\ rules' = [allow |-> alw, guards |-> pol.guards]

EngageFails ==
  /\ FirewallMayRefuse \/ fw = "absent"
  /\ UNCHANGED fwVars

Disengage_Forgotten == UNCHANGED fwVars
Disengage ==
  /\ fw' = IF fw = "engaged" THEN "open" ELSE fw
  /\ rules' = NoRules

\* Engage unless already engaged. The label tells the truth about the outcome:
\* a refused engage is failed_open, whatever the caller would have shown.
EnsureEngaged_StatusIgnored(pol, alw, label) ==
  /\ state' = label
  /\ IF fw = "engaged" THEN UNCHANGED fwVars ELSE EngageOk(pol, alw) \/ EngageFails
EnsureEngaged(pol, alw, label) ==
  \/ fw = "engaged" /\ UNCHANGED fwVars /\ state' = label
  \/ fw # "engaged" /\ EngageOk(pol, alw) /\ state' = label
  \/ fw # "engaged" /\ EngageFails /\ state' = "failed_open"

ResetCounters_Forgotten == UNCHANGED counters
ResetCounters == fails' = 0 /\ succ' = 0

\* Bring the firewall and the label in line with a policy just adopted.
Reconcile(pol, alw) ==
  /\ ResetCounters
  /\ \/ /\ Blocks(pol.mode)
        /\ EnsureEngaged(pol, alw, IF pol.until_verified THEN "tripped" ELSE "armed_healthy")
     \/ pol.mode = "off" /\ Disengage /\ state' = "inactive"
     \/ pol.mode = "open" /\ Disengage /\ state' = "armed_healthy"

-----------------------------------------------------------------------------
Create(pol) ==
  /\ ~alive
  /\ alive' = TRUE /\ policy' = pol
  /\ UNCHANGED <<allow, state, counters, armed, fwVars>>

\* The controller is freed; its fields are what a calloc gives the next one.
Destroy ==
  /\ alive
  /\ IF armed /\ fw = "engaged" THEN Disengage ELSE UNCHANGED fwVars
  /\ alive' = FALSE /\ allow' = NoEndpoints /\ state' = "inactive"
  /\ fails' = 0 /\ succ' = 0 /\ armed' = FALSE
  /\ UNCHANGED policy

\* Only a change of mode while armed re-applies enforcement.
SetPolicy_CopyOnly(pol) ==
  /\ alive
  /\ policy' = Sanitize(pol)
  /\ UNCHANGED <<state, counters, fwVars, alive, allow, armed>>
SetPolicy(pol) ==
  /\ alive
  /\ policy' = Sanitize(pol)
  /\ IF armed /\ policy'.mode # policy.mode
       THEN Reconcile(policy', allow)
       ELSE UNCHANGED <<state, counters, fwVars>>
  /\ UNCHANGED <<alive, allow, armed>>

\* Re-applied live while enforcing; the status of that engage is not looked at.
SetAllowlist_NextEngageOnly(alw) ==
  /\ alive
  /\ allow' = alw
  /\ UNCHANGED <<alive, policy, state, counters, armed, fwVars>>
SetAllowlist(alw) ==
  /\ alive
  /\ allow' = alw
  /\ IF armed /\ fw = "engaged" THEN EngageOk(policy, alw) \/ EngageFails
                                ELSE UNCHANGED fwVars
  /\ UNCHANGED <<alive, policy, state, counters, armed>>

Arm ==
  /\ alive
  /\ armed' = TRUE
  /\ policy' = Sanitize(policy)
  /\ Reconcile(policy', allow)
  /\ UNCHANGED <<alive, allow>>

\* The counters keep their values; the next Arm clears them.
Disarm ==
  /\ alive
  /\ armed' = FALSE /\ state' = "inactive"
  /\ Disengage
  /\ UNCHANGED <<alive, policy, allow, counters>>

CountObservation(healthy) ==
  IF healthy THEN succ' = Bump(succ) /\ fails' = 0
             ELSE fails' = Bump(fails) /\ succ' = 0

Trip ==
  \/ policy.mode = "closed" /\ EnsureEngaged(policy, allow, "tripped")
  \/ policy.mode = "backup" /\ EnsureEngaged(policy, allow, "failing_over")
  \/ policy.mode = "open" /\ Disengage /\ state' = "failed_open"

Restore ==
  /\ state' = "armed_healthy"
  /\ IF policy.mode = "open" THEN Disengage ELSE UNCHANGED fwVars

TripDue == fails' >= policy.trip

\* One observation of the proxy path: count it, then trip, restore or stay.
OnHealth(healthy) ==
  LET recovers == healthy /\ state # "armed_healthy" /\ succ' >= policy.restore
      goesDown == ~healthy /\ state = "armed_healthy" /\ TripDue
  IN  /\ alive
      /\ \/ /\ ~armed \/ policy.mode = "off"
            /\ UNCHANGED <<counters, state, fwVars>>
         \/ /\ armed /\ policy.mode # "off"
            /\ CountObservation(healthy)
            /\ \/ recovers /\ Restore
               \/ goesDown /\ Trip
               \/ ~recovers /\ ~goesDown /\ UNCHANGED <<state, fwVars>>
      /\ UNCHANGED <<alive, policy, allow, armed>>

Init ==
  /\ alive = TRUE
  /\ policy \in Policies
  /\ allow = NoEndpoints
  /\ state = "inactive"
  /\ fails = 0 /\ succ = 0
  /\ armed = FALSE
  /\ fw \in {"absent", "open"}
  /\ rules = NoRules

Next ==
  \/ \E pol \in Policies : Create(pol)
  \/ Destroy
  \/ \E pol \in Policies : SetPolicy(pol)
  \/ \E alw \in Allowlists : SetAllowlist(alw)
  \/ Arm
  \/ Disarm
  \/ \E healthy \in BOOLEAN : OnHealth(healthy)

Spec == Init /\ [][Next]_vars

-----------------------------------------------------------------------------
TypeOK ==
  /\ alive \in BOOLEAN /\ armed \in BOOLEAN
  /\ policy \in Policies
  /\ allow \in Allowlists
  /\ state \in States
  /\ fails \in 0..CounterCap /\ succ \in 0..CounterCap
  /\ fw \in {"absent", "open", "engaged"}
  /\ rules \in Rules

(***************************************************************************)
(* A label that says traffic is blocked is true: the firewall is engaged.  *)
(* The bug fixed in apply_engage's callers, where a failed or missing      *)
(* engage was reported as "Tripped -- blocking".                           *)
(***************************************************************************)
BlockingLabelIsTrue == state \in {"tripped", "failing_over"} => fw = "engaged"

(***************************************************************************)
(* Rules are never left behind: the firewall is engaged only by an armed   *)
(* controller whose mode blocks.  Reconcile, Disarm and Destroy each owe a *)
(* disengage, on whichever path armed enforcement ends.                    *)
(***************************************************************************)
NoStrandedRules ==
  /\ fw = "engaged" => alive /\ armed /\ Blocks(policy.mode)
  /\ fw # "engaged" => rules = NoRules

(***************************************************************************)
(* The label follows the policy in force, whatever the order of set_policy *)
(* and arm: inactive exactly when disarmed or off, and a mode that came in *)
(* unknown is never the one enforced.                                      *)
(***************************************************************************)
LabelFollowsPolicy ==
  /\ (state = "inactive") <=> (~armed \/ policy.mode = "off")
  /\ armed => policy.mode # "unknown"

(***************************************************************************)
(* With a firewall that never refuses, an armed blocking policy is         *)
(* enforced in every label, healthy included, and with the allowlist last  *)
(* set -- through every order of arm, set_policy, set_allowlist, on_health.*)
(***************************************************************************)
EnforcedWhileArmed ==
  ~FirewallMayRefuse /\ fw # "absent" /\ armed /\ Blocks(policy.mode)
    => fw = "engaged" /\ rules.allow = allow

\* What panel_lockdown.c and the enum's comments tell the user: an armed kill
\* switch that reports healthy lets nothing but the allowlist out.
HealthyMeansEnforced ==
  fw # "absent" /\ armed /\ Blocks(policy.mode) /\ state = "armed_healthy"
    => fw = "engaged"

\* What pmx_lockdown.h says of the guards: block_ipv6 blocks IPv6 egress and
\* block_dns_leak blocks :53 -- so while engaged, as the policy now has them.
GuardsInForce == fw = "engaged" => rules.guards = policy.guards

=============================================================================
