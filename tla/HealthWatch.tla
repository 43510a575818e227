----------------------------- MODULE HealthWatch -----------------------------
(***************************************************************************)
(* The kill switch as pmx_engine.c runs it: Lockdown composed with the     *)
(* engine's start, stop and pump, the profile the GUI edits in place, and  *)
(* the background checker (health_check) that probes the watched proxy.    *)
(*                                                                         *)
(* Two threads.  The GUI thread edits, starts, stops and pumps; the pump   *)
(* is split where the worker can get in between (pc).  The worker takes a  *)
(* while over each probe and publishes the result and the decrement of     *)
(* pending under one lock, so that is one step.  The network decides which *)
(* proxies answer (up).                                                    *)
(*                                                                         *)
(* Lockdown's allowlists are here sets of endpoints: the enabled proxies   *)
(* and the endpoints of enabled VPN profiles.                              *)
(***************************************************************************)
EXTENDS Lockdown, FiniteSets, Sequences, SequencesExt

CONSTANTS
  ProxyList,      \* the profile's proxies, in profile order
  Tunnels,        \* endpoints of its VPN profiles
  MaxAllowlist,   \* PMX_MAX_ALLOWLIST
  WatchPolicies,  \* the lockdown policies a user of this instance chooses from
  NoProxy         \* PMX_ID_NONE

Proxies   == Range(ProxyList)
Endpoints == Proxies \cup Tunnels

ASSUME HealthWatchAssumption ==
  /\ IsInjective(ProxyList)
  /\ Proxies \cap Tunnels = {} /\ NoProxy \notin Endpoints
  /\ MaxAllowlist \in Nat
  /\ WatchPolicies \subseteq Policies
  /\ SUBSET Endpoints \subseteq Allowlists /\ NoEndpoints = {}

VARIABLES
  enabled,     \* the enabled proxies and tunnels of the profile
  profPolicy,  \* profile.lockdown
  running,     \* engine.running
  healthId,    \* engine.health_proxy_id
  applied,     \* engine.allow_applied
  due,         \* a health interval has passed since last_health_submit_ms
  pc,          \* the pump: "gui" (not pumping), "probe", "drain"
  jobs,        \* the checker's pending jobs: the one being run, then the queue
  results,     \* the checker's result queue
  up           \* the proxies that answer a probe

engineVars == <<enabled, profPolicy, running, healthId, applied, due, pc>>
watchVars  == <<jobs, results, up>>
allVars    == <<vars, engineVars, watchVars>>

\* `fresh' is a history mark: the probe was submitted since lockdown was armed.
Jobs    == [proxy: Proxies, fresh: BOOLEAN]
Results == [ok: BOOLEAN, fresh: BOOLEAN]

-----------------------------------------------------------------------------
\* The first enabled proxy in profile order is the one to watch.
WatchTarget(on) ==
  LET candidates == SelectSeq(ProxyList, LAMBDA p : p \in on)
  IN  IF candidates = <<>> THEN NoProxy ELSE Head(candidates)

\* Proxies first, then tunnels, as far as the fixed-size array reaches.
AllowlistFor(on) ==
  LET proxies == ToSet(SelectSeq(ProxyList, LAMBDA p : p \in on))
      tunnels == on \cap Tunnels
      room    == MaxAllowlist - Cardinality(proxies)
  IN  IF Cardinality(proxies) >= MaxAllowlist
        THEN ToSet(SubSeq(SelectSeq(ProxyList, LAMBDA p : p \in on), 1, MaxAllowlist))
        ELSE proxies \cup (IF Cardinality(tunnels) <= room
                             THEN tunnels
                             ELSE CHOOSE s \in SUBSET tunnels : Cardinality(s) = room)

\* Pushed only when it changed -- except that the comparison reads the bytes
\* after each host's NUL in an uninitialized array, so equal non-empty lists may
\* also compare as different.
RebuildAllowlist_CountOnly ==
  /\ applied' = AllowlistFor(enabled)
  /\ healthId' = WatchTarget(enabled)
  /\ IF Cardinality(applied') # Cardinality(applied) THEN SetAllowlist(applied')
                                                     ELSE UNCHANGED vars
RebuildAllowlist ==
  /\ applied' = AllowlistFor(enabled)
  /\ healthId' = WatchTarget(enabled)
  /\ \/ applied' # applied /\ SetAllowlist(applied')
     \/ applied' = applied /\ UNCHANGED vars
     \/ applied' = applied /\ applied # {} /\ SetAllowlist(applied)

Stale(probes) == [i \in DOMAIN probes |-> [probes[i] EXCEPT !.fresh = FALSE]]

Watching == running /\ profPolicy.mode # "off" /\ healthId # NoProxy

-----------------------------------------------------------------------------
\* The GUI thread between frames.

\* A panel enables or disables a proxy or a VPN profile, in place.
ToggleEndpoint(e) ==
  /\ pc = "gui"
  /\ enabled' = IF e \in enabled THEN enabled \ {e} ELSE enabled \cup {e}
  /\ UNCHANGED <<vars, profPolicy, running, healthId, applied, due, pc, watchVars>>

\* panel_lockdown: the profile is edited and the policy handed over.
EditPolicy(pol) ==
  /\ pc = "gui"
  /\ profPolicy' = pol
  /\ SetPolicy(pol)
  /\ UNCHANGED <<enabled, running, healthId, applied, due, pc, watchVars>>

\* A started backend, then rebuild_allowlist, set_policy and arm.  Not yet
\* armed, the first two only assign.
Start ==
  /\ pc = "gui" /\ ~running
  /\ running' = TRUE /\ due' = TRUE
  /\ applied' = AllowlistFor(enabled) /\ healthId' = WatchTarget(enabled)
  /\ allow' = applied'
  /\ policy' = Sanitize(profPolicy)
  /\ armed' = TRUE
  /\ Reconcile(policy', allow')
  /\ jobs' = Stale(jobs) /\ results' = Stale(results)
  /\ UNCHANGED <<alive, enabled, profPolicy, pc, up>>

Stop ==
  /\ pc = "gui" /\ running
  /\ running' = FALSE
  /\ Disarm
  /\ UNCHANGED <<enabled, profPolicy, healthId, applied, due, pc, watchVars>>

-----------------------------------------------------------------------------
\* The pump's health watcher.

\* One frame.  A due tick with no probe pending re-derives what to watch.
PumpTick_OnlyWhileHealthy ==
  /\ pc = "gui" /\ Watching /\ state = "armed_healthy"
  /\ due /\ jobs = <<>>
  /\ RebuildAllowlist
  /\ due' = FALSE
  /\ pc' = "probe"
  /\ UNCHANGED <<enabled, profPolicy, running, watchVars>>
PumpTick ==
  /\ pc = "gui" /\ Watching
  /\ due /\ jobs = <<>>
  /\ RebuildAllowlist
  /\ due' = FALSE
  /\ pc' = "probe"
  /\ UNCHANGED <<enabled, profPolicy, running, watchVars>>

PumpNoTick ==
  /\ pc = "gui" /\ Watching
  /\ ~(due /\ jobs = <<>>)
  /\ pc' = "drain"
  /\ UNCHANGED <<vars, enabled, profPolicy, running, healthId, applied, due, watchVars>>

\* Nothing to watch counts as one failure.
Probe ==
  /\ pc = "probe"
  /\ pc' = "drain"
  /\ IF healthId # NoProxy
       THEN jobs' = Append(jobs, [proxy |-> healthId, fresh |-> TRUE]) /\ UNCHANGED vars
       ELSE OnHealth(FALSE) /\ UNCHANGED jobs
  /\ UNCHANGED <<enabled, profPolicy, running, healthId, applied, due, results, up>>

\* Every result in the queue, whichever proxy and whichever run it came from.
DrainOne_SuccessesOnly ==
  /\ pc = "drain" /\ results # <<>>
  /\ IF Head(results).ok THEN OnHealth(TRUE) ELSE UNCHANGED vars
  /\ results' = Tail(results)
  /\ UNCHANGED <<engineVars, jobs, up>>
DrainOne ==
  /\ pc = "drain" /\ results # <<>>
  /\ OnHealth(Head(results).ok)
  /\ results' = Tail(results)
  /\ UNCHANGED <<engineVars, jobs, up>>

DrainDone ==
  /\ pc = "drain" /\ results = <<>>
  /\ pc' = "gui"
  /\ UNCHANGED <<vars, enabled, profPolicy, running, healthId, applied, due, watchVars>>

-----------------------------------------------------------------------------
\* The worker, the clock and the network.

Publish ==
  /\ jobs # <<>>
  /\ results' = Append(results, [ok |-> Head(jobs).proxy \in up, fresh |-> Head(jobs).fresh])
  /\ jobs' = Tail(jobs)
  /\ UNCHANGED <<vars, engineVars, up>>

IntervalPasses ==
  /\ ~due
  /\ due' = TRUE
  /\ UNCHANGED <<vars, enabled, profPolicy, running, healthId, applied, pc, watchVars>>

ProxyGoesUpOrDown(p) ==
  /\ up' = IF p \in up THEN up \ {p} ELSE up \cup {p}
  /\ UNCHANGED <<vars, engineVars, jobs, results>>

WatchInit ==
  /\ alive = TRUE /\ armed = FALSE /\ state = "inactive"
  /\ fails = 0 /\ succ = 0 /\ allow = NoEndpoints /\ rules = NoRules
  /\ fw \in {"absent", "open"}
  /\ profPolicy \in WatchPolicies /\ policy = Sanitize(profPolicy)
  /\ enabled \in SUBSET Endpoints
  /\ running = FALSE /\ healthId = NoProxy /\ applied = {} /\ due = FALSE
  /\ pc = "gui" /\ jobs = <<>> /\ results = <<>>
  /\ up \in SUBSET Proxies

Pump == PumpTick \/ PumpNoTick \/ Probe \/ DrainOne \/ DrainDone

WatchNext ==
  \/ \E e \in Endpoints : ToggleEndpoint(e)
  \/ \E pol \in WatchPolicies : EditPolicy(pol)
  \/ Start
  \/ Stop
  \/ PumpTick
  \/ PumpNoTick
  \/ Probe
  \/ DrainOne
  \/ DrainDone
  \/ Publish
  \/ IntervalPasses
  \/ \E p \in Proxies : ProxyGoesUpOrDown(p)

WatchSpec == WatchInit /\ [][WatchNext]_allVars

\* The main loop pumps every frame, the worker returns within its timeouts,
\* and time passes.  Users and networks owe nothing.
FairWatchSpec ==
  /\ WatchSpec
  /\ WF_allVars(Pump)
  /\ WF_allVars(Publish)
  /\ WF_allVars(IntervalPasses)

-----------------------------------------------------------------------------
(***************************************************************************)
(* Types.  The lockdown is armed exactly while the engine runs, a pump is  *)
(* in progress only then, and the list the engine believes it applied is   *)
(* the controller's: rebuild_allowlist's change test compares with it.     *)
(***************************************************************************)
WatchTypeOK ==
  /\ TypeOK
  /\ enabled \subseteq Endpoints /\ applied \subseteq Endpoints
  /\ profPolicy \in WatchPolicies
  /\ running = armed /\ (running => allow = applied)
  /\ healthId \in Proxies \cup {NoProxy}
  /\ due \in BOOLEAN
  /\ pc \in {"gui", "probe", "drain"} /\ (pc # "gui" => running)
  /\ jobs \in Seq(Jobs)
  /\ results \in Seq(Results)
  /\ up \subseteq Proxies

(***************************************************************************)
(* Probes never pile up, although nothing empties the queue while stopped  *)
(* or off: pending == 0 gates the tick, and every tick is followed by a    *)
(* drain.                                                                  *)
(***************************************************************************)
ProbesNeverPileUp ==
  Len(jobs) + Len(results) <= 2

(***************************************************************************)
(* A watched proxy path that stays down is noticed: the label does not stay*)
(* healthy.  Submission, worker, queue and hysteresis all have to move.    *)
(***************************************************************************)
WatchedDownIsNoticed ==
  \A pol \in WatchPolicies :
    <>[](Watching /\ profPolicy = pol /\ up = {}) => <>[](state # "armed_healthy")

(***************************************************************************)
(* A watched proxy path that stays up restores the healthy label, whatever *)
(* stale failures were queued and whatever proxy was watched before.       *)
(***************************************************************************)
WatchedUpIsRestored ==
  \A pol \in WatchPolicies :
    <>[](Watching /\ profPolicy = pol /\ up = Proxies) => <>[](state = "armed_healthy")

(***************************************************************************)
(* The watch is live in both directions: no stale count, queued probe or   *)
(* gate that only a tick recomputes keeps the label from the watched path. *)
(***************************************************************************)
LabelFollowsThePath == WatchedDownIsNoticed /\ WatchedUpIsRestored

(***************************************************************************)
(* While something is watched, an edit of the profile reaches the firewall:*)
(* what is enabled after Start, tunnel or proxy, becomes reachable through *)
(* an engaged one, and what is disabled no longer is -- as far as the      *)
(* enabled endpoints fit the allowlist's fixed size.                       *)
(***************************************************************************)
EditsReachTheAllowlist ==
  \A on \in SUBSET Endpoints :
    Cardinality(on) <= MaxAllowlist /\ <>[](Watching /\ enabled = on)
      => <>[](allow = on /\ (fw = "engaged" => rules.allow = on))

-----------------------------------------------------------------------------
\* "... and trips when there is nothing left to watch" (release notes v0.2.0).
NothingToWatchTrips ==
  \A pol \in WatchPolicies :
    <>[](running /\ profPolicy = pol /\ pol.mode # "off" /\ enabled = {})
      => <>[](state # "armed_healthy")

\* "It now re-derives continuously" (release notes v0.2.0).
WatchResumes ==
  \A p \in Proxies :
    <>[](running /\ profPolicy.mode # "off" /\ enabled = {p}) => <>[](healthId = p)

\* "block egress at startup until proxy proven up" (pmx_lockdown.h): the label
\* leaves tripped only on probes made since lockdown was armed.
VerifiedSinceArm ==
  [][state = "tripped" /\ state' = "armed_healthy" /\ pc = "drain"
       => Head(results).fresh]_allVars

\* "the tunnel's own endpoint MUST stay reachable" (pmx_lockdown.h): once the
\* allowlist has been rebuilt, an engaged firewall lets every enabled tunnel out.
TunnelsStayReachable ==
  pc = "probe" /\ fw = "engaged" => enabled \cap Tunnels \subseteq rules.allow

=============================================================================
