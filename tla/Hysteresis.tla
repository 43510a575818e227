----------------------------- MODULE Hysteresis -----------------------------
(***************************************************************************)
(* What the kill switch promises about evidence, with no counters: over a  *)
(* log of the observations made since the watch (re)started, a good view   *)
(* turns bad exactly when the last `trip' of them all failed, a bad one    *)
(* turns good exactly when the last `restore' all succeeded.  The          *)
(* controller of Lockdown is shown to implement this.                      *)
(***************************************************************************)
EXTENDS Integers, Sequences

CONSTANTS Window,       \* how much of the log is kept
          Thresholds    \* the run lengths a policy may ask for, none above Window

VARIABLES view,     \* "off", "good" or "bad"
          trip, restore,
          log       \* the last Window observations, oldest first

hVars == <<view, trip, restore, log>>

Remember(l, obs) ==
  LET longer == Append(l, obs) IN
  IF Len(longer) > Window THEN Tail(longer) ELSE longer

\* The last n entries of l exist and all read obs.
EndsWith(l, n, obs) ==
  Len(l) >= n /\ \A i \in Len(l) - n + 1 .. Len(l) : l[i] = obs

HInit == view = "off" /\ log = <<>> /\ trip \in Thresholds /\ restore \in Thresholds

Observe(obs) ==
  /\ view # "off"
  /\ log' = Remember(log, obs)
  /\ view' = CASE view = "good" /\ EndsWith(log', trip, FALSE) -> "bad"
               [] view = "bad" /\ EndsWith(log', restore, TRUE) -> "good"
               [] OTHER -> view
  /\ UNCHANGED <<trip, restore>>

\* A watch that starts afresh owes nothing to what was seen before.
Restart ==
  /\ log' = <<>>
  /\ view' \in {"off", "good", "bad"}
  /\ trip' \in Thresholds /\ restore' \in Thresholds

\* Other lengths may be asked for at any time, on the log as it is.
Retune == trip' \in Thresholds /\ restore' \in Thresholds /\ UNCHANGED <<view, log>>

StopWatching == view' = "off" /\ UNCHANGED <<trip, restore, log>>

HNext == (\E obs \in BOOLEAN : Observe(obs)) \/ Restart \/ Retune \/ StopWatching

HSpec == HInit /\ [][HNext]_hVars

=============================================================================
