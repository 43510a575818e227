---------------------------------- MODULE Nat ----------------------------------
(***************************************************************************)
(* The redirection table of src/src/core/pmx_nat.c: a fixed array of slots *)
(* that remembers, per source port, where a proxied connection was really  *)
(* going.  A packet is rewritten to the relay only when find hits, so what *)
(* the table forgets egresses direct.                                      *)
(*                                                                         *)
(* Every operation holds the table's mutex throughout and is one action.   *)
(* Callers read the clock before they take the mutex, so the time they     *)
(* pass may be old by then: up to Lag, a bound.                            *)
(***************************************************************************)
EXTENDS Naturals, FiniteSets

CONSTANTS
  Capacity,   \* slots of the table
  TTL,        \* ttl_ms: the idle time a mapping survives
  Ports,      \* source ports that occur
  NoPort,     \* port 0
  Dsts,       \* original destinations (address and port)
  NoDst,      \* a zeroed destination
  Lag,        \* bound: the oldest clock reading a caller may still pass
  MaxTime     \* bound: the clock stops here

Statuses == {"ok", "refused", "invalid", "miss"}

\* A destination is no status.
ASSUME NatAssumption ==
  /\ Capacity \in Nat \ {0} /\ TTL \in Nat \ {0}
  /\ Lag \in Nat /\ MaxTime \in Nat
  /\ NoPort \notin Ports /\ NoDst \notin Dsts /\ Statuses \cap Dsts = {}

Slots   == 1..Capacity
Entries == [port: Ports, dst: Dsts, created: Nat, seen: Nat, closed: BOOLEAN]

\* An unused slot is zeroed: by calloc, by remove or by expire.
Free == [port |-> NoPort, dst |-> NoDst, created |-> 0, seen |-> 0, closed |-> FALSE]

VARIABLES
  slots,    \* pmx_nat.slots
  count,    \* pmx_nat.count
  reply,    \* what the last add or find returned: a status, or the destination found
  now       \* pmx_now_ms()

natVars == <<slots, count, reply, now>>

-----------------------------------------------------------------------------
Used == {i \in Slots : slots[i] # Free}

\* find_slot.  More than one element would mean a duplicated port.
SlotsOf(p) == {i \in Used : slots[i].port = p}

\* Idle for longer than the TTL; a reading older than the last lookup is not.
Expired_ByAge(e, t) == t > e.created /\ t - e.created > TTL
Expired(e, t) == t > e.seen /\ t - e.seen > TTL

Lowest(S) == {i \in S : \A j \in S : i <= j}

\* Expired, or a flow whose relay side finished.  Never a live one.
Reclaimable(t) == {i \in Used : Expired(slots[i], t) \/ slots[i].closed}

Oldest(S) == {i \in S : \A j \in S : slots[i].created <= slots[j].created}

\* The port's own slot, else the first free one, else the oldest reclaimable.
AddSlot_FreeFirst(p, t) ==
  IF Used # Slots THEN Lowest(Slots \ Used) ELSE Lowest(Oldest(Reclaimable(t)))
AddSlot(p, t) ==
  IF SlotsOf(p) # {} THEN SlotsOf(p)
  ELSE IF Used # Slots THEN Lowest(Slots \ Used)
  ELSE Lowest(Oldest(Reclaimable(t)))

TimesRead == {t \in 0..now : now - t <= Lag}

-----------------------------------------------------------------------------
\* Full of live flows is refused: never evict one.  A reused slot starts live.
Add(p, d, t) ==
  \/ p = NoPort /\ reply' = "invalid" /\ UNCHANGED <<slots, count>>
  \/ /\ p # NoPort
     /\ \/ \E i \in AddSlot(p, t) :
             /\ slots' = [slots EXCEPT ![i] = [port |-> p, dst |-> d, created |-> t,
                                               seen |-> t, closed |-> FALSE]]
             /\ count' = IF i \in Used THEN count ELSE count + 1
             /\ reply' = "ok"
        \/ AddSlot(p, t) = {} /\ reply' = "refused" /\ UNCHANGED <<slots, count>>

\* A hit is the activity that keeps a mapping alive -- unless it is closed.
Find_RefreshesClosed(p, t) ==
  \/ \E i \in SlotsOf(p) :
       /\ ~Expired(slots[i], t)
       /\ reply' = slots[i].dst
       /\ slots' = [slots EXCEPT ![i].seen = t]
       /\ UNCHANGED count
  \/ /\ \A i \in SlotsOf(p) : Expired(slots[i], t)
     /\ reply' = "miss"
     /\ UNCHANGED <<slots, count>>
Find(p, t) ==
  \/ \E i \in SlotsOf(p) :
       /\ ~Expired(slots[i], t)
       /\ reply' = slots[i].dst
       /\ slots' = IF slots[i].closed THEN slots ELSE [slots EXCEPT ![i].seen = t]
       /\ UNCHANGED count
  \/ /\ \A i \in SlotsOf(p) : Expired(slots[i], t)
     /\ reply' = "miss"
     /\ UNCHANGED <<slots, count>>

MarkClosed(p) ==
  /\ slots' = [i \in Slots |-> IF i \in SlotsOf(p) THEN [slots[i] EXCEPT !.closed = TRUE]
                                                   ELSE slots[i]]
  /\ UNCHANGED <<count, reply>>

\* Zero a set of used slots.
Drop(S) ==
  /\ slots' = [i \in Slots |-> IF i \in S THEN Free ELSE slots[i]]
  /\ count' = IF count >= Cardinality(S) THEN count - Cardinality(S) ELSE 0

Remove(p) == Drop(SlotsOf(p)) /\ UNCHANGED reply

Expire(t) == Drop({i \in Used : Expired(slots[i], t)}) /\ UNCHANGED reply

Tick ==
  /\ now < MaxTime
  /\ now' = now + 1
  /\ UNCHANGED <<slots, count, reply>>

NatInit ==
  /\ slots = [i \in Slots |-> Free]
  /\ count = 0
  /\ reply = "miss"
  /\ now = 0

NatNext ==
  \/ \E p \in Ports \cup {NoPort}, d \in Dsts, t \in TimesRead : Add(p, d, t) /\ UNCHANGED now
  \/ \E p \in Ports \cup {NoPort}, t \in TimesRead : Find(p, t) /\ UNCHANGED now
  \/ \E p \in Ports \cup {NoPort} : MarkClosed(p) /\ UNCHANGED now
  \/ \E p \in Ports \cup {NoPort} : Remove(p) /\ UNCHANGED now
  \/ \E t \in TimesRead : Expire(t) /\ UNCHANGED now
  \/ Tick

NatSpec == NatInit /\ [][NatNext]_natVars

-----------------------------------------------------------------------------
NatTypeOK ==
  /\ slots \in [Slots -> Entries \cup {Free}]
  /\ count \in Nat
  /\ reply \in Statuses \cup Dsts
  /\ now \in Nat
  /\ \A i \in Slots : slots[i].seen <= now /\ slots[i].created <= now

(***************************************************************************)
(* find_slot's answer is the only one: recycling a port replaces its entry *)
(* and never leaves two, whichever slots remove, expire and reclaim freed. *)
(***************************************************************************)
OneMappingPerPort ==
  \A i, j \in Used : slots[i].port = slots[j].port => i = j

(***************************************************************************)
(* The count kept by hand in add, remove and expire is the number of used  *)
(* slots, so the guards against an underflow never fire.                   *)
(***************************************************************************)
CountIsUsed == count = Cardinality(Used)

(***************************************************************************)
(* "A flow that is still passing traffic must never lose its mapping": a   *)
(* mapping that is not closed and not idle past the TTL survives every     *)
(* step, with its destination, except an add or a remove of its own port.  *)
(***************************************************************************)
Live(i) == slots[i] # Free /\ ~slots[i].closed /\ now - slots[i].seen <= TTL

Survives(i) ==
  \/ slots'[i] # Free /\ slots'[i].port = slots[i].port /\ slots'[i].dst = slots[i].dst
  \/ \E t \in TimesRead, d \in Dsts : Add(slots[i].port, d, t)
  \/ Remove(slots[i].port)

LiveMappingsSurvive == [][\A i \in Slots : Live(i) => Survives(i)]_natVars

-----------------------------------------------------------------------------
\* The slots in use, read as a map from their ports.
MappedFlows ==
  LET slot(p) == CHOOSE i \in SlotsOf(p) : TRUE
  IN  [p \in {slots[i].port : i \in Used} |->
         [dst |-> slots[slot(p)].dst, seen |-> slots[slot(p)].seen,
          closed |-> slots[slot(p)].closed]]

Promise == INSTANCE NatPromise WITH flows <- MappedFlows

(***************************************************************************)
(* The array of slots implements the map: a lookup returns what was last   *)
(* added for the port, a new flow is refused only when every slot belongs  *)
(* to another live flow, and only a finished or idle flow is ever evicted. *)
(***************************************************************************)
ImplementsPromise == Promise!PromiseSpec
=============================================================================
