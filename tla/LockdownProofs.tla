--------------------------- MODULE LockdownProofs ---------------------------
(***************************************************************************)
(* Theorems about Lockdown, for every set of allowlists, guard settings    *)
(* and thresholds, and for a firewall that may or may not refuse; and, of  *)
(* its two counters, that they implement Hysteresis.                       *)
(***************************************************************************)
EXTENDS LockdownHistory, TLAPS

\* A freed controller holds nothing: what Create starts from.
FreedIsReset == ~alive => ~armed /\ state = "inactive"

\* The inductive invariant: each part leans on the others.
IInv ==
  /\ TypeOK
  /\ FreedIsReset
  /\ BlockingLabelIsTrue
  /\ NoStrandedRules
  /\ LabelFollowsPolicy
  /\ EnforcedWhileArmed

(***************************************************************************)
(* sanitize_mode returns a policy whose mode the enum knows, and changes   *)
(* nothing else.                                                           *)
(***************************************************************************)
LEMMA SanitizeKnows ==
  ASSUME NEW pol \in Policies
  PROVE  /\ Sanitize(pol) \in Policies
         /\ Sanitize(pol).mode \in Modes \ {"unknown"}
         /\ pol.mode # "unknown" => Sanitize(pol) = pol
  BY DEF Sanitize, Policies, Modes

(***************************************************************************)
(* Bump keeps a counter in range.                                          *)
(***************************************************************************)
LEMMA BumpInRange ==
  ASSUME NEW n \in 0..CounterCap
  PROVE  Bump(n) \in 0..CounterCap
  BY LockdownAssumption DEF Bump

(***************************************************************************)
(* What EnsureEngaged leaves: rules of the right type, in force exactly    *)
(* when the firewall is engaged, and the label asked for only if it is.    *)
(***************************************************************************)
LEMMA EnsureEngagedTellsTheTruth ==
  ASSUME IInv,
         NEW pol \in Policies, NEW label \in States, label # "failed_open",
         EnsureEngaged(pol, allow, label)
  PROVE  /\ fw' \in {"absent", "open", "engaged"} /\ rules' \in Rules
         /\ state' \in {label, "failed_open"}
         /\ state' = label => fw' = "engaged"
         /\ fw' # "engaged" => rules' = NoRules
         /\ ~FirewallMayRefuse /\ fw' # "absent" => fw' = "engaged"
         /\ fw = "engaged" => UNCHANGED fwVars
         /\ fw # "engaged" /\ fw' = "engaged" => rules'.allow = allow
  BY LockdownAssumption
     DEF IInv, TypeOK, NoStrandedRules, EnsureEngaged, EngageOk, EngageFails,
         fwVars, Rules, NoRules, Policies

(***************************************************************************)
(* What Disengage leaves: nothing.                                         *)
(***************************************************************************)
LEMMA DisengageClears ==
  ASSUME TypeOK, Disengage
  PROVE  /\ fw' \in {"absent", "open"} /\ rules' = NoRules /\ rules' \in Rules
  BY LockdownAssumption DEF TypeOK, Disengage, NoRules, Rules

(***************************************************************************)
(* lockdown_reconcile re-establishes every part of the invariant from the  *)
(* policy it is given, whatever mode it replaces.                          *)
(***************************************************************************)
LEMMA ReconcileEstablishes ==
  ASSUME IInv,
         NEW pol \in Policies, pol.mode # "unknown",
         Reconcile(pol, allow),
         alive, alive' = TRUE, armed' = TRUE, allow' = allow, policy' = pol
  PROVE  IInv'
<1> USE DEF Blocks, BlockingLabelIsTrue, NoStrandedRules, LabelFollowsPolicy,
            EnforcedWhileArmed, FreedIsReset
<1>1. fails' \in 0..CounterCap /\ succ' \in 0..CounterCap
  BY LockdownAssumption DEF Reconcile, ResetCounters
<1>2. CASE pol.mode \in {"closed", "backup"}
  <2> DEFINE label == IF pol.until_verified THEN "tripped" ELSE "armed_healthy"
  <2>1. label \in States /\ label \notin {"inactive", "failed_open"}
    BY DEF States
  <2>2. EnsureEngaged(pol, allow, label)
    BY <1>2 DEF Reconcile
  <2>3. /\ fw' \in {"absent", "open", "engaged"} /\ rules' \in Rules
        /\ state' \in {label, "failed_open"}
        /\ state' = label => fw' = "engaged"
        /\ fw' # "engaged" => rules' = NoRules
        /\ ~FirewallMayRefuse /\ fw' # "absent" => fw' = "engaged"
        /\ fw = "engaged" => UNCHANGED fwVars
        /\ fw # "engaged" /\ fw' = "engaged" => rules'.allow = allow
    BY <2>1, <2>2, EnsureEngagedTellsTheTruth
  <2>4. TypeOK'
    BY <1>1, <2>1, <2>3 DEF TypeOK, IInv, States
  <2>5. EnforcedWhileArmed'
    BY <2>3 DEF IInv, fwVars
  <2>6. QED
    BY <1>2, <2>1, <2>3, <2>4, <2>5 DEF IInv
<1>3. CASE pol.mode \in {"off", "open"}
  <2>1. /\ Disengage
        /\ state' = IF pol.mode = "off" THEN "inactive" ELSE "armed_healthy"
    BY <1>3 DEF Reconcile
  <2>2. fw' \in {"absent", "open"} /\ rules' = NoRules /\ rules' \in Rules
    BY <2>1, DisengageClears DEF IInv
  <2>3. TypeOK'
    BY <1>1, <2>1, <2>2 DEF TypeOK, IInv, States
  <2>4. QED
    BY <1>3, <2>1, <2>2, <2>3 DEF IInv
<1>4. QED
  BY <1>2, <1>3 DEF Policies, Modes

(***************************************************************************)
(* One health observation keeps the invariant: on_health touches the       *)
(* firewall only through EnsureEngaged and Disengage.                      *)
(***************************************************************************)
LEMMA ObservationKeepsInvariant ==
  ASSUME IInv, NEW healthy \in BOOLEAN, OnHealth(healthy)
  PROVE  IInv'
<1> USE DEF IInv, FreedIsReset, BlockingLabelIsTrue, NoStrandedRules,
            LabelFollowsPolicy, EnforcedWhileArmed, Blocks
<1>1. UNCHANGED <<alive, policy, allow, armed>>
  BY DEF OnHealth
<1>2. CASE ~armed \/ policy.mode = "off"
  <2>1. UNCHANGED <<fails, succ, state, fw, rules>>
    BY <1>2 DEF OnHealth, counters, fwVars
  <2>2. QED
    BY <1>1, <2>1 DEF TypeOK
<1>3. CASE armed /\ policy.mode # "off"
  <2>1. fails' \in 0..CounterCap /\ succ' \in 0..CounterCap
    <3>1. CountObservation(healthy)
      BY <1>3 DEF OnHealth
    <3>2. Bump(fails) \in 0..CounterCap /\ Bump(succ) \in 0..CounterCap
      BY BumpInRange DEF TypeOK
    <3>3. QED
      BY <3>1, <3>2, LockdownAssumption DEF CountObservation
  <2>2. policy \in Policies /\ policy.mode \in Modes \ {"off", "unknown"}
    BY <1>3 DEF TypeOK, Policies
  <2>3. Restore \/ Trip \/ UNCHANGED <<state, fw, rules>>
    BY <1>3 DEF OnHealth, fwVars
  <2>4. CASE Restore
    <3>1. CASE policy.mode = "open"
      <4>1. fw' \in {"absent", "open"} /\ rules' = NoRules /\ rules' \in Rules
        BY <2>4, <3>1, DisengageClears DEF Restore
      <4>2. TypeOK'
        BY <1>1, <2>1, <2>4, <4>1 DEF Restore, TypeOK, States
      <4>3. QED
        BY <1>1, <1>3, <2>4, <3>1, <4>1, <4>2 DEF Restore
    <3>2. CASE policy.mode # "open"
      <4>1. UNCHANGED <<fw, rules>> /\ state' = "armed_healthy"
        BY <2>4, <3>2 DEF Restore, fwVars
      <4>2. TypeOK'
        BY <1>1, <2>1, <4>1 DEF TypeOK, States
      <4>3. QED
        BY <1>1, <1>3, <4>1, <4>2
    <3>3. QED
      BY <3>1, <3>2
  <2>5. CASE Trip
    <3>1. CASE policy.mode = "open"
      <4>1. Disengage /\ state' = "failed_open"
        BY <2>5, <3>1 DEF Trip
      <4>2. fw' \in {"absent", "open"} /\ rules' = NoRules /\ rules' \in Rules
        BY <4>1, DisengageClears
      <4>3. TypeOK'
        BY <1>1, <2>1, <4>1, <4>2 DEF TypeOK, States
      <4>4. QED
        BY <1>1, <1>3, <3>1, <4>1, <4>2, <4>3
    <3>2. CASE policy.mode # "open"
      <4>1. PICK label \in {"tripped", "failing_over"} : EnsureEngaged(policy, allow, label)
        BY <2>5, <3>2 DEF Trip
      <4>2. /\ fw' \in {"absent", "open", "engaged"} /\ rules' \in Rules
            /\ state' \in {label, "failed_open"}
            /\ state' = label => fw' = "engaged"
            /\ fw' # "engaged" => rules' = NoRules
            /\ ~FirewallMayRefuse /\ fw' # "absent" => fw' = "engaged"
            /\ fw = "engaged" => UNCHANGED fwVars
            /\ fw # "engaged" /\ fw' = "engaged" => rules'.allow = allow
        BY <2>2, <4>1, EnsureEngagedTellsTheTruth DEF States
      <4>3. TypeOK'
        BY <1>1, <2>1, <4>2 DEF TypeOK, States
      <4>4. policy.mode \in {"closed", "backup"}
        BY <2>2, <3>2 DEF Modes
      <4>5. EnforcedWhileArmed'
        BY <1>1, <4>2 DEF fwVars
      <4>6. QED
        BY <1>1, <1>3, <4>2, <4>3, <4>4, <4>5
    <3>3. QED
      BY <3>1, <3>2
  <2>6. CASE UNCHANGED <<state, fw, rules>>
    BY <1>1, <2>1, <2>6 DEF TypeOK
  <2>7. QED
    BY <2>3, <2>4, <2>5, <2>6
<1>4. QED
  BY <1>2, <1>3

(***************************************************************************)
(* Every action keeps the invariant.                                       *)
(***************************************************************************)
LEMMA StepKeepsInvariant == IInv /\ [Next]_vars => IInv'
<1> SUFFICES ASSUME IInv, [Next]_vars PROVE IInv'
  OBVIOUS
<1> USE DEF IInv, FreedIsReset, BlockingLabelIsTrue, NoStrandedRules,
            LabelFollowsPolicy, EnforcedWhileArmed, Blocks
<1>1. ASSUME NEW pol \in Policies, Create(pol) PROVE IInv'
  BY <1>1 DEF Create, TypeOK, counters, fwVars
<1>2. CASE Destroy
  <2>1. fw' \in {"absent", "open"} /\ rules' = NoRules /\ rules' \in Rules
    <3>1. CASE armed /\ fw = "engaged"
      BY <1>2, <3>1, DisengageClears DEF Destroy
    <3>2. CASE ~(armed /\ fw = "engaged")
      BY <1>2, <3>2 DEF Destroy, fwVars, TypeOK
    <3>3. QED
      BY <3>1, <3>2
  <2>2. TypeOK'
    <3>1. 0 \in 0..CounterCap
      BY LockdownAssumption
    <3>2. NoEndpoints \in Allowlists
      BY LockdownAssumption
    <3>3. QED
      BY <1>2, <2>1, <3>1, <3>2 DEF Destroy, TypeOK, States
  <2>3. QED
    BY <1>2, <2>1, <2>2 DEF Destroy
<1>3. ASSUME NEW pol \in Policies, SetPolicy(pol) PROVE IInv'
  <2>1. /\ Sanitize(pol) \in Policies
        /\ Sanitize(pol).mode \in Modes \ {"unknown"}
    BY SanitizeKnows
  <2>2. alive /\ alive' = TRUE /\ allow' = allow /\ armed' = armed /\ policy' = Sanitize(pol)
    BY <1>3 DEF SetPolicy, TypeOK
  <2>3. CASE armed /\ policy'.mode # policy.mode
    <3>1. Reconcile(Sanitize(pol), allow)
      BY <1>3, <2>2, <2>3 DEF SetPolicy
    <3>2. QED
      BY <2>1, <2>2, <2>3, <3>1, ReconcileEstablishes
  <2>4. CASE ~(armed /\ policy'.mode # policy.mode)
    <3>1. UNCHANGED <<state, fails, succ, fw, rules>>
      BY <1>3, <2>4 DEF SetPolicy, counters, fwVars
    <3>2. QED
      BY <2>1, <2>2, <2>4, <3>1 DEF TypeOK
  <2>5. QED
    BY <2>3, <2>4
<1>4. ASSUME NEW alw \in Allowlists, SetAllowlist(alw) PROVE IInv'
  <2>1. UNCHANGED <<alive, policy, state, fails, succ, armed>> /\ allow' = alw
    BY <1>4 DEF SetAllowlist, counters
  <2>2. CASE armed /\ fw = "engaged"
    <3>1. /\ fw' = "engaged" /\ rules' \in Rules
          /\ ~FirewallMayRefuse => rules'.allow = alw
      BY <1>4, <2>2 DEF SetAllowlist, EngageOk, EngageFails, fwVars, Rules, TypeOK, Policies
    <3>2. QED
      BY <2>1, <2>2, <3>1 DEF TypeOK
  <2>3. CASE ~(armed /\ fw = "engaged")
    <3>1. UNCHANGED <<fw, rules>>
      BY <1>4, <2>3 DEF SetAllowlist, fwVars
    <3>2. QED
      BY <2>1, <2>3, <3>1 DEF TypeOK
  <2>4. QED
    BY <2>2, <2>3
<1>5. CASE Arm
  <2>1. /\ Sanitize(policy) \in Policies
        /\ Sanitize(policy).mode \in Modes \ {"unknown"}
    BY SanitizeKnows DEF TypeOK
  <2>2. /\ alive /\ alive' = TRUE /\ allow' = allow /\ armed' = TRUE
        /\ policy' = Sanitize(policy) /\ Reconcile(Sanitize(policy), allow)
    BY <1>5 DEF Arm, TypeOK
  <2>3. QED
    BY <2>1, <2>2, ReconcileEstablishes
<1>6. CASE Disarm
  <2>1. fw' \in {"absent", "open"} /\ rules' = NoRules /\ rules' \in Rules
    BY <1>6, DisengageClears DEF Disarm
  <2>2. TypeOK'
    BY <1>6, <2>1 DEF Disarm, TypeOK, States, counters
  <2>3. QED
    BY <1>6, <2>1, <2>2 DEF Disarm
<1>7. ASSUME NEW healthy \in BOOLEAN, OnHealth(healthy) PROVE IInv'
  BY <1>7, ObservationKeepsInvariant
<1>8. CASE UNCHANGED vars
  BY <1>8 DEF vars, TypeOK
<1>9. QED
  BY <1>1, <1>2, <1>3, <1>4, <1>5, <1>6, <1>7, <1>8 DEF Next

(***************************************************************************)
(* The initial states satisfy it.                                          *)
(***************************************************************************)
LEMMA InitEstablishesInvariant == Init => IInv
<1> SUFFICES ASSUME Init PROVE IInv
  OBVIOUS
<1>1. 0 \in 0..CounterCap
  BY LockdownAssumption
<1>2. NoRules \in Rules /\ NoEndpoints \in Allowlists
  BY LockdownAssumption DEF NoRules, Rules
<1>3. TypeOK
  BY <1>1, <1>2 DEF Init, TypeOK, States
<1>4. QED
  BY <1>3 DEF Init, IInv, FreedIsReset, BlockingLabelIsTrue, NoStrandedRules,
              LabelFollowsPolicy, EnforcedWhileArmed

(***************************************************************************)
(* pmx_lockdown.c keeps its fields in range: no order of calls leaves a    *)
(* counter, a label or the rules outside what the code means by them.      *)
(***************************************************************************)
THEOREM TypeCorrect == Spec => []TypeOK
<1>1. IInv => TypeOK
  BY DEF IInv
<1>2. QED
  BY <1>1, InitEstablishesInvariant, StepKeepsInvariant, PTL DEF Spec

(***************************************************************************)
(* A blocking label is true of the firewall, even of one that may refuse.  *)
(***************************************************************************)
THEOREM BlockingLabelIsAlwaysTrue == Spec => []BlockingLabelIsTrue
<1>1. IInv => BlockingLabelIsTrue
  BY DEF IInv
<1>2. QED
  BY <1>1, InitEstablishesInvariant, StepKeepsInvariant, PTL DEF Spec

(***************************************************************************)
(* Disarm, Destroy and every change of mode away from blocking remove the  *)
(* firewall's rules.                                                       *)
(***************************************************************************)
THEOREM RulesAreNeverStranded == Spec => []NoStrandedRules
<1>1. IInv => NoStrandedRules
  BY DEF IInv
<1>2. QED
  BY <1>1, InitEstablishesInvariant, StepKeepsInvariant, PTL DEF Spec

(***************************************************************************)
(* The label is inactive exactly when the controller is disarmed or off,   *)
(* and an unknown mode is never in force.                                  *)
(***************************************************************************)
THEOREM LabelAlwaysFollowsPolicy == Spec => []LabelFollowsPolicy
<1>1. IInv => LabelFollowsPolicy
  BY DEF IInv
<1>2. QED
  BY <1>1, InitEstablishesInvariant, StepKeepsInvariant, PTL DEF Spec

(***************************************************************************)
(* With a firewall that never refuses, arming a blocking mode means being  *)
(* blocked down to the current allowlist until disarmed or switched over.  *)
(***************************************************************************)
THEOREM ArmedIsEnforced == Spec => []EnforcedWhileArmed
<1>1. IInv => EnforcedWhileArmed
  BY DEF IInv
<1>2. QED
  BY <1>1, InitEstablishesInvariant, StepKeepsInvariant, PTL DEF Spec



-----------------------------------------------------------------------------
\* A counter holds n exactly when the last n observations logged agree.
Counts(counter, obs) ==
  \A n \in 1..CounterCap : Evidence!EndsWith(log, n, obs) <=> n <= counter

\* What ties the two counters to the log of the observations they count.
CountersReadTheLog ==
  /\ log \in Seq(BOOLEAN) /\ Len(log) <= CounterCap
  /\ Counts(fails, FALSE)
  /\ Counts(succ, TRUE)

HistInv == IInv /\ CountersReadTheLog


(***************************************************************************)
(* The log keeps its last CounterCap entries, the newest of them last.     *)
(***************************************************************************)
LEMMA RememberAppends ==
  ASSUME NEW l \in Seq(BOOLEAN), Len(l) <= CounterCap, NEW obs \in BOOLEAN
  PROVE  LET m == Evidence!Remember(l, obs)
             dropped == Len(l) + 1 - Len(m)
         IN  /\ m \in Seq(BOOLEAN) /\ Len(m) \in 1..CounterCap
             /\ dropped \in {0, 1} /\ (dropped = 1 => Len(m) = CounterCap)
             /\ m[Len(m)] = obs
             /\ \A i \in 1..Len(m) - 1 : m[i] = l[i + dropped]
<1> CounterCap \in Nat \ {0}
  BY LockdownAssumption
<1> DEFINE longer == Append(l, obs)
<1>1. /\ longer \in Seq(BOOLEAN) /\ Len(longer) = Len(l) + 1 /\ Len(l) \in Nat
      /\ longer[Len(l) + 1] = obs
      /\ \A i \in 1..Len(l) : longer[i] = l[i]
  OBVIOUS
<1>2. CASE Len(longer) > CounterCap
  <2>1. Evidence!Remember(l, obs) = Tail(longer)
    BY <1>2 DEF Evidence!Remember
  <2>2. /\ Tail(longer) \in Seq(BOOLEAN) /\ Len(Tail(longer)) = Len(l)
        /\ \A i \in 1..Len(l) : Tail(longer)[i] = longer[i + 1]
    BY <1>1, <1>2
  <2>3. Len(l) = CounterCap
    BY <1>1, <1>2
  <2>4. Tail(longer)[Len(l)] = obs
    BY <1>1, <2>2, <2>3
  <2>5. \A i \in 1..Len(l) - 1 : Tail(longer)[i] = l[i + 1]
    BY <1>1, <2>2
  <2> DEFINE m == Tail(longer)
  <2>6. /\ m \in Seq(BOOLEAN) /\ Len(m) = Len(l) /\ Len(m) \in 1..CounterCap
        /\ Len(l) + 1 - Len(m) = 1 /\ Len(m) = CounterCap
        /\ m[Len(m)] = obs
        /\ \A i \in 1..Len(m) - 1 : m[i] = l[i + 1]
    BY <1>1, <2>2, <2>3, <2>4, <2>5
  <2> HIDE DEF m
  <2>7. QED
    BY <2>1, <2>6 DEF m
<1>3. CASE Len(longer) <= CounterCap
  <2>1. Evidence!Remember(l, obs) = longer
    BY <1>1, <1>3 DEF Evidence!Remember
  <2>2. QED
    BY <1>1, <1>3, <2>1
<1>4. QED
  BY <1>1, <1>2, <1>3

(***************************************************************************)
(* A longer log ends with n equal observations when the new one is such    *)
(* and the log before it ended with n - 1 of them.                         *)
(***************************************************************************)
LEMMA RememberExtendsTheRun ==
  ASSUME NEW l \in Seq(BOOLEAN), Len(l) <= CounterCap, NEW obs \in BOOLEAN,
         NEW n \in 1..CounterCap, NEW seen \in BOOLEAN
  PROVE  Evidence!EndsWith(Evidence!Remember(l, obs), n, seen)
           <=> obs = seen /\ (n = 1 \/ Evidence!EndsWith(l, n - 1, seen))
<1> CounterCap \in Nat \ {0} /\ Len(l) \in Nat
  BY LockdownAssumption
<1> DEFINE m == Evidence!Remember(l, obs)
           dropped == Len(l) + 1 - Len(m)
<1>1. /\ m \in Seq(BOOLEAN) /\ Len(m) \in 1..CounterCap
      /\ dropped \in {0, 1} /\ (dropped = 1 => Len(m) = CounterCap)
      /\ m[Len(m)] = obs
      /\ \A i \in 1..Len(m) - 1 : m[i] = l[i + dropped]
  BY RememberAppends
<1> HIDE DEF m
<1>2. Evidence!EndsWith(m, n, seen) <=>
        Len(m) >= n /\ \A i \in Len(m) - n + 1 .. Len(m) : m[i] = seen
  BY DEF Evidence!EndsWith
<1>3. CASE n = 1
  <2>1. (\A i \in Len(m) - n + 1 .. Len(m) : m[i] = seen) <=> obs = seen
    BY <1>1, <1>3
  <2>2. QED
    BY <1>1, <1>2, <1>3, <2>1 DEF m
<1>4. CASE n > 1
  <2>1. Evidence!EndsWith(l, n - 1, seen) <=>
          Len(l) >= n - 1 /\ \A i \in Len(l) - n + 2 .. Len(l) : l[i] = seen
    BY <1>4 DEF Evidence!EndsWith
  <2>2. Len(m) >= n <=> Len(l) >= n - 1
    BY <1>1, <1>4
  <2>3. ASSUME Len(m) >= n, \A i \in Len(m) - n + 1 .. Len(m) : m[i] = seen
        PROVE  obs = seen /\ \A i \in Len(l) - n + 2 .. Len(l) : l[i] = seen
    <3>1. obs = seen
      BY <1>1, <2>3
    <3>2. ASSUME NEW i \in Len(l) - n + 2 .. Len(l) PROVE l[i] = seen
      <4>1. /\ i - dropped \in Len(m) - n + 1 .. Len(m) /\ i - dropped \in 1..Len(m) - 1
            /\ (i - dropped) + dropped = i
        BY <1>1, <2>3
      <4>2. QED
        BY <1>1, <2>3, <4>1
    <3>3. QED
      BY <3>1, <3>2
  <2>4. ASSUME obs = seen, Len(l) >= n - 1, \A i \in Len(l) - n + 2 .. Len(l) : l[i] = seen
        PROVE  \A i \in Len(m) - n + 1 .. Len(m) : m[i] = seen
    <3>1. SUFFICES ASSUME NEW i \in Len(m) - n + 1 .. Len(m), i # Len(m) PROVE m[i] = seen
      BY <1>1, <2>4
    <3>2. i \in 1..Len(m) - 1 /\ i + dropped \in Len(l) - n + 2 .. Len(l)
      BY <1>1, <2>2, <2>4, <3>1
    <3>3. QED
      BY <1>1, <2>4, <3>2
  <2>5. QED
    BY <1>2, <1>4, <2>1, <2>2, <2>3, <2>4 DEF m
<1>5. QED
  BY <1>3, <1>4

(***************************************************************************)
(* What a counter says of a shorter run.                                   *)
(***************************************************************************)
LEMMA CounterReads ==
  ASSUME NEW n \in 1..CounterCap, n # 1, NEW counter, NEW obs, Counts(counter, obs)
  PROVE  Evidence!EndsWith(log, n - 1, obs) <=> n - 1 <= counter
<1>1. n - 1 \in 1..CounterCap
  BY LockdownAssumption
<1>2. QED
  BY <1>1, Zenon DEF Counts

(***************************************************************************)
(* Counting an observation keeps both counters in step with the log.       *)
(***************************************************************************)
LEMMA CountingReadsTheLog ==
  ASSUME HistInv, NEW healthy \in BOOLEAN, CountObservation(healthy),
         log' = Evidence!Remember(log, healthy)
  PROVE  CountersReadTheLog'
<1> CounterCap \in Nat \ {0} /\ fails \in 0..CounterCap /\ succ \in 0..CounterCap
  BY LockdownAssumption DEF HistInv, IInv, TypeOK
<1>1. log \in Seq(BOOLEAN) /\ Len(log) <= CounterCap
  BY DEF HistInv, CountersReadTheLog
<1>2. log' \in Seq(BOOLEAN) /\ Len(log') <= CounterCap
  BY <1>1, RememberAppends
<1>3. ASSUME NEW n \in 1..CounterCap, NEW obs \in BOOLEAN
      PROVE  Evidence!EndsWith(log', n, obs)
               <=> healthy = obs /\ (n = 1 \/ Evidence!EndsWith(log, n - 1, obs))
  BY <1>1, RememberExtendsTheRun
<1>4. ASSUME NEW n \in 1..CounterCap
      PROVE  Evidence!EndsWith(log', n, FALSE) <=> n <= fails'
  <2>1. n # 1 => (Evidence!EndsWith(log, n - 1, FALSE) <=> n - 1 <= fails)
    BY CounterReads DEF HistInv, CountersReadTheLog
  <2>2. fails' = IF healthy THEN 0 ELSE IF fails < CounterCap THEN fails + 1 ELSE fails
    BY DEF CountObservation, Bump
  <2>3. Evidence!EndsWith(log', n, FALSE)
          <=> healthy = FALSE /\ (n = 1 \/ Evidence!EndsWith(log, n - 1, FALSE))
    BY <1>3
  <2>4. n <= fails' <=> healthy = FALSE /\ (n = 1 \/ n - 1 <= fails)
    BY <2>2
  <2>5. QED
    BY <2>1, <2>3, <2>4, Zenon
<1>5. ASSUME NEW n \in 1..CounterCap
      PROVE  Evidence!EndsWith(log', n, TRUE) <=> n <= succ'
  <2>1. n # 1 => (Evidence!EndsWith(log, n - 1, TRUE) <=> n - 1 <= succ)
    BY CounterReads DEF HistInv, CountersReadTheLog
  <2>2. succ' = IF healthy THEN IF succ < CounterCap THEN succ + 1 ELSE succ ELSE 0
    BY DEF CountObservation, Bump
  <2>3. Evidence!EndsWith(log', n, TRUE)
          <=> healthy = TRUE /\ (n = 1 \/ Evidence!EndsWith(log, n - 1, TRUE))
    BY <1>3
  <2>4. n <= succ' <=> healthy = TRUE /\ (n = 1 \/ n - 1 <= succ)
    BY <2>2
  <2>5. QED
    BY <2>1, <2>3, <2>4, Zenon
<1>6. QED
  BY <1>2, <1>4, <1>5, Zenon DEF CountersReadTheLog, Counts

(***************************************************************************)
(* An empty log ends with no run of observations.                          *)
(***************************************************************************)
LEMMA NothingEndsTheEmptyLog ==
  ASSUME NEW l, l = <<>>, NEW n \in 1..CounterCap, NEW obs \in BOOLEAN
  PROVE  ~Evidence!EndsWith(l, n, obs)
  BY LockdownAssumption DEF Evidence!EndsWith

(***************************************************************************)
(* Counters at zero are what an empty log means.                           *)
(***************************************************************************)
LEMMA EmptyLogCountsNothing ==
  ASSUME fails = 0, succ = 0, log = <<>>
  PROVE  CountersReadTheLog
<1> CounterCap \in Nat \ {0}
  BY LockdownAssumption
<1>1. log \in Seq(BOOLEAN) /\ Len(log) <= CounterCap
  OBVIOUS
<1>2. ASSUME NEW n \in 1..CounterCap
      PROVE  ~Evidence!EndsWith(log, n, FALSE) /\ ~Evidence!EndsWith(log, n, TRUE)
  BY NothingEndsTheEmptyLog
<1>3. \A n \in 1..CounterCap : ~(n <= fails) /\ ~(n <= succ)
  OBVIOUS
<1>4. Counts(fails, FALSE) /\ Counts(succ, TRUE)
  BY <1>2, <1>3, Zenon DEF Counts
<1>5. QED
  BY <1>1, <1>4 DEF CountersReadTheLog

(***************************************************************************)
(* And after a step that clears all three.                                 *)
(***************************************************************************)
LEMMA ResetCountsNothing ==
  ASSUME fails' = 0, succ' = 0, log' = <<>>
  PROVE  CountersReadTheLog'
<1> CounterCap \in Nat \ {0}
  BY LockdownAssumption
<1>1. log' \in Seq(BOOLEAN) /\ Len(log') <= CounterCap
  OBVIOUS
<1>2. ASSUME NEW n \in 1..CounterCap
      PROVE  ~Evidence!EndsWith(log', n, FALSE) /\ ~Evidence!EndsWith(log', n, TRUE)
  BY NothingEndsTheEmptyLog
<1>3. \A n \in 1..CounterCap : ~(n <= fails') /\ ~(n <= succ')
  OBVIOUS
<1>4. Counts(fails, FALSE)' /\ Counts(succ, TRUE)'
  BY <1>2, <1>3, Zenon DEF Counts
<1>5. QED
  BY <1>1, <1>4 DEF CountersReadTheLog

(***************************************************************************)
(* A step of the history is a step of the controller.                      *)
(***************************************************************************)
LEMMA HistoryOnlyWatches == [HistNext]_<<vars, log>> => [Next]_vars
  BY DEF HistNext, Next, vars

(***************************************************************************)
(* Every action keeps the counters in step with the log.                   *)
(***************************************************************************)
LEMMA StepKeepsHistory == HistInv /\ [HistNext]_<<vars, log>> => HistInv'
<1> SUFFICES ASSUME HistInv, [HistNext]_<<vars, log>> PROVE HistInv'
  OBVIOUS
<1>1. IInv'
  BY StepKeepsInvariant, HistoryOnlyWatches DEF HistInv
<1>2. ASSUME UNCHANGED <<fails, succ, log>> PROVE CountersReadTheLog'
  BY <1>2 DEF HistInv, CountersReadTheLog, Counts
<1>3. ASSUME NEW pol \in Policies, Create(pol), UNCHANGED log PROVE CountersReadTheLog'
  BY <1>2, <1>3 DEF Create, counters
<1>4. ASSUME Destroy, log' = <<>> PROVE CountersReadTheLog'
  BY <1>4, ResetCountsNothing DEF Destroy
<1>5. ASSUME NEW pol \in Policies, SetPolicy(pol),
             log' = IF armed /\ policy'.mode # policy.mode THEN <<>> ELSE log
      PROVE  CountersReadTheLog'
  <2>1. CASE armed /\ policy'.mode # policy.mode
    BY <1>5, <2>1, ResetCountsNothing DEF SetPolicy, Reconcile, ResetCounters
  <2>2. CASE ~(armed /\ policy'.mode # policy.mode)
    BY <1>2, <1>5, <2>2 DEF SetPolicy, counters
  <2>3. QED
    BY <2>1, <2>2
<1>6. ASSUME NEW alw \in Allowlists, SetAllowlist(alw), UNCHANGED log
      PROVE  CountersReadTheLog'
  BY <1>2, <1>6 DEF SetAllowlist, counters
<1>7. ASSUME Arm, log' = <<>> PROVE CountersReadTheLog'
  BY <1>7, ResetCountsNothing DEF Arm, Reconcile, ResetCounters
<1>8. ASSUME Disarm, UNCHANGED log PROVE CountersReadTheLog'
  BY <1>2, <1>8 DEF Disarm, counters
<1>9. ASSUME NEW healthy \in BOOLEAN, OnHealth(healthy),
             log' = IF armed /\ policy.mode # "off"
                      THEN Evidence!Remember(log, healthy) ELSE log
      PROVE  CountersReadTheLog'
  <2>1. CASE armed /\ policy.mode # "off"
    BY <1>9, <2>1, CountingReadsTheLog DEF OnHealth
  <2>2. CASE ~(armed /\ policy.mode # "off")
    BY <1>2, <1>9, <2>2 DEF OnHealth, counters
  <2>3. QED
    BY <2>1, <2>2
<1>10. ASSUME UNCHANGED <<vars, log>> PROVE CountersReadTheLog'
  BY <1>2, <1>10 DEF vars
<1>11. CountersReadTheLog'
  BY <1>3, <1>4, <1>5, <1>6, <1>7, <1>8, <1>9, <1>10 DEF HistNext
<1>12. QED
  BY <1>1, <1>11 DEF HistInv


(***************************************************************************)
(* The log is empty before the first observation.                          *)
(***************************************************************************)
LEMMA HistInitEstablishesInvariant == HistInit => HistInv
<1> SUFFICES ASSUME HistInit PROVE HistInv
  OBVIOUS
<1>1. IInv
  BY InitEstablishesInvariant DEF HistInit
<1>2. CountersReadTheLog
  BY EmptyLogCountsNothing DEF HistInit, Init
<1>3. QED
  BY <1>1, <1>2 DEF HistInv

(***************************************************************************)
(* The view the label gives: off, good or bad.                             *)
(***************************************************************************)
LEMMA ViewOfTheLabel ==
  ASSUME state \in States
  PROVE  /\ View \in {"off", "good", "bad"}
         /\ View = "off" <=> state = "inactive"
         /\ View = "good" <=> state = "armed_healthy"
  BY DEF View, States

(***************************************************************************)
(* And after a step.                                                       *)
(***************************************************************************)
LEMMA ViewOfTheNextLabel ==
  ASSUME state' \in States
  PROVE  /\ View' \in {"off", "good", "bad"}
         /\ View' = "off" <=> state' = "inactive"
         /\ View' = "good" <=> state' = "armed_healthy"
  BY DEF View, States

(***************************************************************************)
(* A policy asks for runs a counter can tell.                              *)
(***************************************************************************)
LEMMA PoliciesAskForRuns ==
  ASSUME NEW pol \in Policies
  PROVE  pol.trip \in Thresholds /\ pol.restore \in Thresholds
  BY DEF Policies

(***************************************************************************)
(* An observation the controller takes into account is one the promise     *)
(* allows: the label changes exactly when the run asked for is complete.   *)
(***************************************************************************)
LEMMA ObservationsDecideAsPromised ==
  ASSUME HistInv, HistInv', NEW healthy \in BOOLEAN, OnHealth(healthy),
         armed, policy.mode # "off", log' = Evidence!Remember(log, healthy)
  PROVE  Evidence!Observe(healthy)
<1>1. /\ state \in States /\ state' \in States
      /\ policy \in Policies /\ policy' = policy
      /\ state # "inactive" /\ policy.mode \in {"closed", "backup", "open"}
  BY DEF HistInv, IInv, TypeOK, LabelFollowsPolicy, OnHealth, Policies, Modes
<1>2. policy.trip \in 1..CounterCap /\ policy.restore \in 1..CounterCap
  BY <1>1, PoliciesAskForRuns, LockdownAssumption
<1>3. /\ View \in {"good", "bad"} /\ View' \in {"off", "good", "bad"}
      /\ View = "good" <=> state = "armed_healthy"
      /\ View' = "off" <=> state' = "inactive"
      /\ View' = "good" <=> state' = "armed_healthy"
  BY <1>1, ViewOfTheLabel, ViewOfTheNextLabel
<1>4. /\ Evidence!EndsWith(log', policy.trip, FALSE) <=> policy.trip <= fails'
      /\ Evidence!EndsWith(log', policy.restore, TRUE) <=> policy.restore <= succ'
  <2>1. Counts(fails, FALSE)' /\ Counts(succ, TRUE)'
    BY DEF HistInv, CountersReadTheLog
  <2>2. QED
    BY <1>2, <2>1, Zenon DEF Counts
<1>5. /\ healthy => fails' = 0
      /\ ~healthy => succ' = 0
  BY DEF OnHealth, CountObservation
<1>6. /\ policy.trip <= fails' => ~healthy
      /\ policy.restore <= succ' => healthy
  BY <1>2, <1>5, LockdownAssumption
<1>7. CASE healthy /\ state # "armed_healthy" /\ succ' >= policy.restore
  <2>1. state' = "armed_healthy"
    BY <1>7 DEF OnHealth, Restore
  <2>2. policy.restore <= succ'
    BY <1>2, <1>7, LockdownAssumption DEF HistInv, IInv, TypeOK
  <2>3. View = "bad" /\ View' = "good"
    BY <1>3, <1>7, <2>1
  <2>4. QED
    BY <1>1, <1>4, <2>2, <2>3 DEF Evidence!Observe
<1>8. CASE ~healthy /\ state = "armed_healthy" /\ fails' >= policy.trip
  <2>1. Trip
    BY <1>8 DEF OnHealth, TripDue
  <2>2. state' \in {"tripped", "failing_over", "failed_open"}
    BY <2>1 DEF Trip, EnsureEngaged
  <2>3. policy.trip <= fails'
    BY <1>2, <1>8, LockdownAssumption DEF HistInv, IInv, TypeOK
  <2>4. View = "good" /\ View' = "bad"
    BY <1>3, <1>8, <2>2
  <2>5. QED
    BY <1>1, <1>4, <2>3, <2>4 DEF Evidence!Observe
<1>9. CASE /\ ~(healthy /\ state # "armed_healthy" /\ succ' >= policy.restore)
           /\ ~(~healthy /\ state = "armed_healthy" /\ fails' >= policy.trip)
  <2>1. state' = state
    BY <1>9 DEF OnHealth, TripDue
  <2>2. View' = View
    BY <2>1 DEF View
  <2>3. /\ policy.trip <= fails' => fails' >= policy.trip
        /\ policy.restore <= succ' => succ' >= policy.restore
    BY <1>2, LockdownAssumption DEF HistInv, IInv, TypeOK
  <2>4. View = "good" => ~(policy.trip <= fails')
    BY <1>3, <1>6, <1>9, <2>3
  <2>5. View = "bad" => ~(policy.restore <= succ')
    BY <1>3, <1>6, <1>9, <2>3
  <2>6. QED
    BY <1>1, <1>3, <1>4, <2>2, <2>4, <2>5 DEF Evidence!Observe
<1>10. QED
  BY <1>7, <1>8, <1>9

(***************************************************************************)
(* Every step of the controller is one the promise allows, or none.        *)
(***************************************************************************)
LEMMA StepsImplementHysteresis ==
  HistInv /\ [HistNext]_<<vars, log>> => [Evidence!HNext]_(Evidence!hVars)
<1> SUFFICES ASSUME HistInv, [HistNext]_<<vars, log>>
             PROVE  [Evidence!HNext]_(Evidence!hVars)
  OBVIOUS
<1>1. HistInv'
  BY StepKeepsHistory
<1>2. /\ state \in States /\ state' \in States
      /\ policy \in Policies /\ policy' \in Policies
  BY <1>1 DEF HistInv, IInv, TypeOK
<1>3. /\ policy.trip \in Thresholds /\ policy.restore \in Thresholds
      /\ policy'.trip \in Thresholds /\ policy'.restore \in Thresholds
  BY <1>2, PoliciesAskForRuns
<1>4. /\ View' \in {"off", "good", "bad"}
      /\ View' = "off" <=> state' = "inactive"
  BY <1>2, ViewOfTheNextLabel
<1>5. ASSUME log' = <<>> PROVE Evidence!Restart
  BY <1>3, <1>4, <1>5 DEF Evidence!Restart
<1>6. ASSUME UNCHANGED <<state, log>> PROVE Evidence!Retune
  BY <1>3, <1>6 DEF Evidence!Retune, View
<1>7. ASSUME UNCHANGED <<policy, state, log>> PROVE UNCHANGED Evidence!hVars
  BY <1>7 DEF Evidence!hVars, View
<1>8. ASSUME NEW pol \in Policies, Create(pol), UNCHANGED log PROVE Evidence!Retune
  BY <1>6, <1>8 DEF Create
<1>9. ASSUME NEW pol \in Policies, SetPolicy(pol),
             log' = IF armed /\ policy'.mode # policy.mode THEN <<>> ELSE log
      PROVE  Evidence!HNext
  <2>1. CASE armed /\ policy'.mode # policy.mode
    BY <1>5, <1>9, <2>1 DEF Evidence!HNext
  <2>2. CASE ~(armed /\ policy'.mode # policy.mode)
    BY <1>6, <1>9, <2>2 DEF SetPolicy, Evidence!HNext
  <2>3. QED
    BY <2>1, <2>2
<1>10. ASSUME NEW alw \in Allowlists, SetAllowlist(alw), UNCHANGED log
       PROVE  UNCHANGED Evidence!hVars
  BY <1>7, <1>10 DEF SetAllowlist
<1>11. ASSUME Disarm, UNCHANGED log PROVE Evidence!StopWatching
  BY <1>4, <1>11 DEF Disarm, Evidence!StopWatching
<1>12. ASSUME NEW healthy \in BOOLEAN, OnHealth(healthy),
              log' = IF armed /\ policy.mode # "off"
                       THEN Evidence!Remember(log, healthy) ELSE log
       PROVE  [Evidence!HNext]_(Evidence!hVars)
  <2>1. CASE armed /\ policy.mode # "off"
    BY <1>1, <1>12, <2>1, ObservationsDecideAsPromised DEF Evidence!HNext
  <2>2. CASE ~(armed /\ policy.mode # "off")
    BY <1>7, <1>12, <2>2 DEF OnHealth
  <2>3. QED
    BY <2>1, <2>2
<1>13. ASSUME UNCHANGED <<vars, log>> PROVE UNCHANGED Evidence!hVars
  BY <1>7, <1>13 DEF vars
<1>14. QED
  BY <1>5, <1>8, <1>9, <1>10, <1>11, <1>12, <1>13 DEF HistNext, Evidence!HNext

(***************************************************************************)
(* The two counters implement the log: the kill switch trips and restores  *)
(* exactly on the runs of observations its policy asks for, none of them   *)
(* older than the last arm or change of mode, and never otherwise.         *)
(***************************************************************************)
THEOREM CountersFollowTheEvidence == HistSpec => ImplementsHysteresis
<1>1. HistInit => Evidence!HInit
  <2> SUFFICES ASSUME HistInit PROVE Evidence!HInit
    OBVIOUS
  <2>1. policy \in Policies /\ state = "inactive" /\ log = <<>>
    BY DEF HistInit, Init
  <2>2. QED
    BY <2>1, PoliciesAskForRuns DEF Evidence!HInit, View
<1>2. QED
  BY <1>1, HistInitEstablishesInvariant, StepKeepsHistory, StepsImplementHysteresis, PTL
     DEF HistSpec, ImplementsHysteresis, Evidence!HSpec
=============================================================================
