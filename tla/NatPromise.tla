------------------------------ MODULE NatPromise ------------------------------
(***************************************************************************)
(* What the redirection table promises its callers (pmx_nat.h), without    *)
(* slots: a finite map from source ports to flows.  It is full at Capacity *)
(* flows, and then a new flow is refused unless some flow is finished or   *)
(* idle, in which case one of those -- the promise does not say which -- is *)
(* forgotten.                                                              *)
(***************************************************************************)
EXTENDS Naturals, FiniteSets, Functions

CONSTANTS Capacity, TTL, Ports, NoPort, Dsts, Lag

VARIABLES flows, reply, now

promiseVars == <<flows, reply, now>>

Flow(d, seen, closed) == [dst |-> d, seen |-> seen, closed |-> closed]

Idle(f, t) == t > f.seen /\ t - f.seen > TTL

Mapped == DOMAIN flows

Readings == {t \in 0..now : now - t <= Lag}

With(fs, p, f) == [q \in (DOMAIN fs) \cup {p} |-> IF q = p THEN f ELSE fs[q]]

Accept(p, d, t) ==
  /\ p \in Ports
  /\ \/ /\ p \in Mapped \/ Cardinality(Mapped) < Capacity
        /\ flows' = With(flows, p, Flow(d, t, FALSE))
     \/ /\ p \notin Mapped /\ Cardinality(Mapped) = Capacity
        /\ \E q \in Mapped :
             /\ flows[q].closed \/ Idle(flows[q], t)
             /\ flows' = With(Restrict(flows, Mapped \ {q}), p, Flow(d, t, FALSE))
  /\ reply' = "ok"

Refuse(p, t) ==
  /\ \/ p = NoPort /\ reply' = "invalid"
     \/ /\ p \in Ports \ Mapped /\ Cardinality(Mapped) = Capacity
        /\ \A q \in Mapped : ~flows[q].closed /\ ~Idle(flows[q], t)
        /\ reply' = "refused"
  /\ UNCHANGED flows

\* A lookup answers with the destination last recorded for the port.
LookUp(p, t) ==
  \/ /\ p \in Mapped /\ ~Idle(flows[p], t)
     /\ reply' = flows[p].dst
     /\ flows' = IF flows[p].closed THEN flows ELSE [flows EXCEPT ![p].seen = t]
  \/ /\ p \in Mapped => Idle(flows[p], t)
     /\ reply' = "miss" /\ UNCHANGED flows

Finish(p) ==
  /\ p \in Mapped
  /\ flows' = [flows EXCEPT ![p].closed = TRUE]
  /\ UNCHANGED reply

Forget(P) == flows' = Restrict(flows, Mapped \ P) /\ UNCHANGED reply

TimePasses == now' > now /\ UNCHANGED <<flows, reply>>

PromiseInit == flows = [p \in {} |-> p] /\ reply = "miss" /\ now = 0

PromiseNext ==
  \/ /\ \E p \in Ports \cup {NoPort}, t \in Readings :
          \/ \E d \in Dsts : Accept(p, d, t)
          \/ Refuse(p, t)
          \/ LookUp(p, t)
          \/ Finish(p)
          \/ Forget({p})
          \/ Forget({q \in Mapped : Idle(flows[q], t)})
     /\ UNCHANGED now
  \/ TimePasses

PromiseSpec == PromiseInit /\ [][PromiseNext]_promiseVars
=============================================================================
