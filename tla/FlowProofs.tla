------------------------------ MODULE FlowProofs ------------------------------
(***************************************************************************)
(* The path of a flow: its redirection (the table by itself, and the       *)
(* pumps, relay and table together) and, at the end, its verdict and its   *)
(* row in the event ring (Verdicts).                                       *)
(*                                                                         *)
(* For every capacity, TTL, set of ports and reading lag: the table has    *)
(* its type, one mapping per port and a truthful count, a live mapping     *)
(* survives every step but an add or a remove of its port, and the table   *)
(* implements the map of NatPromise, step by step.  The inductive          *)
(* invariant is the conjunction of the three invariants.  Uniqueness is    *)
(* what makes remove drop one slot at most and find answer with the entry  *)
(* the port was given; the count needs the finiteness of the slot set and  *)
(* the cardinality lemmas of the library.                                  *)
(*                                                                         *)
(* For every table, relay and number of connections, and with ports reused *)
(* only when the relay is done with them: a flow that passes traffic stays *)
(* redirected, and the relay's registrations are right.  Both are about    *)
(* what a source port means at a moment: it names the same flow to the     *)
(* application, the two tables, the relay's connections and its close      *)
(* callbacks (PortsAreOwn).  Given that, the two tables agree on a flow's  *)
(* destination except between the two registrations (TablesAgree), a       *)
(* released flow's registration can only age out (RegisteredUntilTaken),   *)
(* and its mapping is at least as fresh as its latest packet               *)
(* (MappingsAreFresh), so neither expiry nor reclaim nor a close callback  *)
(* can take it.                                                            *)
(*                                                                         *)
(* For every inbox and ring size, however many flows and edits there are:  *)
(* every flow handed over has a row, waits, or is a counted loss; the ring *)
(* shows the newest rows, in order; the snapshot is some whole profile.    *)
(*                                                                         *)
(* The counts add up because a flow is in one place at a time              *)
(* (FlowsInOrder: rows before waiting flows before flows still to come),   *)
(* the cap holds because nobody but the one backend thread appends between *)
(* its two critical sections (RoomIsKept), and the rows are the newest     *)
(* because the ring mirrors the end of the log wherever its head is        *)
(* (RingMirrorsLog).                                                       *)
(***************************************************************************)
EXTENDS Redirect, Verdicts, Functions, FiniteSetTheorems, WellFoundedInduction, TLAPS

-----------------------------------------------------------------------------
(* The table.                                                              *)

NatInv == NatTypeOK /\ OneMappingPerPort /\ CountIsUsed

\* The slot set is finite, and so is every set of used slots.
LEMMA SlotsFinite ==
  ASSUME NEW S \in SUBSET Slots
  PROVE  IsFiniteSet(S) /\ Cardinality(S) \in Nat
<1>1. IsFiniteSet(Slots)
  BY NatAssumption, FS_Interval DEF Slots
<1> QED
  BY <1>1, FS_Subset, FS_CardinalityType

\* A zeroed slot is no entry, and an entry's port is a real port.
LEMMA FreeIsNoEntry == Free \notin Entries
BY NatAssumption DEF Free, Entries

\* What add may take: a slot of the table, and a used one only if it is the
\* port's own, or expired or closed with no slot of the port and none free.
LEMMA AddSlotChoice ==
  ASSUME NatTypeOK, NEW p, NEW t, NEW i \in AddSlot(p, t)
  PROVE  /\ i \in Slots
         /\ \/ i \in SlotsOf(p)
            \/ SlotsOf(p) = {} /\ i \notin Used
            \/ SlotsOf(p) = {} /\ i \in Used /\ (Expired(slots[i], t) \/ slots[i].closed)
BY DEF AddSlot, SlotsOf, Used, Lowest, Oldest, Reclaimable

\* What add writes into the slot it takes.
Written(p, d, t) == [port |-> p, dst |-> d, created |-> t, seen |-> t, closed |-> FALSE]

\* Adding one used slot adds one to the count, zeroing some takes as many off.
LEMMA UsedGrows ==
  ASSUME NEW i \in Slots, NEW S \in SUBSET Slots, i \notin S
  PROVE  Cardinality(S \cup {i}) = Cardinality(S) + 1
BY SlotsFinite, FS_AddElement

\* Emptying some slots takes their number from the count.
LEMMA UsedShrinks ==
  ASSUME NEW S \in SUBSET Slots, NEW T \in SUBSET S
  PROVE  /\ Cardinality(S \ T) = Cardinality(S) - Cardinality(T)
         /\ Cardinality(T) <= Cardinality(S)
<1>1. IsFiniteSet(S) /\ IsFiniteSet(T) /\ S \cap T = T
  BY SlotsFinite
<1>2. Cardinality(S \ T) = Cardinality(S) - Cardinality(S \cap T)
  BY <1>1, FS_Difference
<1>3. Cardinality(T) <= Cardinality(S)
  BY <1>1, FS_Subset
<1> QED
  BY <1>1, <1>2, <1>3

\* An add that succeeds writes one slot; one that fails changes nothing.
LEMMA AddWrites ==
  ASSUME NatTypeOK, NEW p \in Ports \cup {NoPort}, NEW d \in Dsts, NEW t \in TimesRead,
         Add(p, d, t), slots' # slots
  PROVE  \E i \in Slots :
           /\ p \in Ports /\ i \in AddSlot(p, t)
           /\ slots' = [slots EXCEPT ![i] = Written(p, d, t)]
           /\ Written(p, d, t) \in Entries /\ Written(p, d, t) # Free
           /\ count' = IF i \in Used THEN count ELSE count + 1
<1>1. PICK i \in AddSlot(p, t) :
        /\ slots' = [slots EXCEPT ![i] = Written(p, d, t)]
        /\ count' = IF i \in Used THEN count ELSE count + 1
        /\ p # NoPort
  BY DEF Add, Written
<1>2. i \in Slots
  BY AddSlotChoice
<1>3. t \in Nat
  BY DEF TimesRead, NatTypeOK
<1>4. Written(p, d, t) \in Entries
  BY <1>1, <1>3 DEF Written, Entries
<1> QED
  BY <1>1, <1>2, <1>4, FreeIsNoEntry

\* Registering a flow keeps the invariant, whichever slot it takes, ...
LEMMA AddPreservesInv ==
  ASSUME NatInv, NEW p \in Ports \cup {NoPort}, NEW d \in Dsts, NEW t \in TimesRead,
         Add(p, d, t), now' = now
  PROVE  NatInv'
<1> USE DEF NatInv
<1>0. reply' \in Statuses \cup Dsts
  BY DEF Add, Statuses
<1>1. CASE slots' = slots
  <2>1. count' = count
    <3>1. CASE UNCHANGED <<slots, count>>
      BY <3>1
    <3>2. CASE ~UNCHANGED <<slots, count>>
      <4>1. PICK i \in AddSlot(p, t) :
              /\ slots' = [slots EXCEPT ![i] = Written(p, d, t)]
              /\ count' = IF i \in Used THEN count ELSE count + 1
              /\ p # NoPort
        BY <3>2 DEF Add, Written
      <4>2. i \in Slots /\ slots[i] = Written(p, d, t)
        BY <1>1, <4>1, AddSlotChoice DEF NatTypeOK
      <4>3. Written(p, d, t) # Free
        BY <4>1 DEF Written, Free
      <4> QED
        BY <4>1, <4>2, <4>3 DEF Used
    <3> QED
      BY <3>1, <3>2
  <2> QED
    BY <1>0, <1>1, <2>1 DEF NatTypeOK, OneMappingPerPort, CountIsUsed, Used
<1>2. CASE slots' # slots
  <2>1. PICK i \in Slots :
           /\ p \in Ports /\ i \in AddSlot(p, t)
           /\ slots' = [slots EXCEPT ![i] = Written(p, d, t)]
           /\ Written(p, d, t) \in Entries /\ Written(p, d, t) # Free
           /\ count' = IF i \in Used THEN count ELSE count + 1
    BY <1>2, AddWrites
  <2>2. t \in Nat /\ t <= now
    BY DEF TimesRead, NatTypeOK
  <2>3. slots' \in [Slots -> Entries \cup {Free}] /\ slots'[i] = Written(p, d, t)
    BY <2>1 DEF NatTypeOK
  <2>4. NatTypeOK'
    BY <1>0, <2>1, <2>2, <2>3 DEF NatTypeOK, Written
  <2>5. OneMappingPerPort'
    <3>1. i \in SlotsOf(p) \/ SlotsOf(p) = {}
      BY <2>1, AddSlotChoice
    <3>2. \A j \in Used : j # i => slots[j].port # p
      BY <3>1 DEF SlotsOf, OneMappingPerPort
    <3>3. \A j \in Used' : j # i => j \in Used /\ slots'[j] = slots[j]
      BY <2>1 DEF Used, NatTypeOK
    <3>4. slots'[i].port = p
      BY <2>3 DEF Written
    <3> QED
      BY <3>2, <3>3, <3>4 DEF OneMappingPerPort
  <2>6. CountIsUsed'
    <3>1. Used' = Used \cup {i} /\ Used \in SUBSET Slots
      BY <2>1, <2>3 DEF Used, NatTypeOK
    <3>2. CASE i \in Used
      BY <2>1, <3>1, <3>2 DEF CountIsUsed
    <3>3. CASE i \notin Used
      BY <2>1, <3>1, <3>3, UsedGrows DEF CountIsUsed
    <3> QED
      BY <3>2, <3>3
  <2> QED
    BY <2>4, <2>5, <2>6
<1> QED
  BY <1>1, <1>2

\* ... dropping any set of entries does, ...
LEMMA DropPreservesInv ==
  ASSUME NatInv, NEW S \in SUBSET Used, Drop(S), UNCHANGED <<reply, now>>
  PROVE  NatInv'
<1> USE DEF NatInv
<1>1. \A i \in Slots : slots'[i] = IF i \in S THEN Free ELSE slots[i]
  BY DEF Drop
<1>2. Used' = Used \ S /\ Used \in SUBSET Slots
  BY <1>1 DEF Used
<1>3. /\ Cardinality(Used \ S) = Cardinality(Used) - Cardinality(S)
      /\ Cardinality(S) <= Cardinality(Used)
      /\ Cardinality(S) \in Nat
  <2>1. S \in SUBSET Slots
    BY <1>2
  <2> QED
    BY <1>2, <2>1, UsedShrinks, SlotsFinite
<1>4. count' = count - Cardinality(S) /\ count' \in Nat
  BY <1>3 DEF Drop, CountIsUsed, NatTypeOK
<1>5. NatTypeOK'
  BY <1>1, <1>4 DEF NatTypeOK, Drop, Free
<1>6. OneMappingPerPort'
  BY <1>1, <1>2 DEF OneMappingPerPort
<1>7. CountIsUsed'
  BY <1>2, <1>3, <1>4 DEF CountIsUsed
<1> QED
  BY <1>5, <1>6, <1>7

\* Find and mark_closed rewrite entries in place: same ports, same used slots.
LEMMA InPlacePreservesInv ==
  ASSUME NatInv, NatTypeOK',
         \A i \in Slots : slots[i] = Free <=> slots'[i] = Free,
         \A i \in Slots : slots'[i].port = slots[i].port,
         count' = count
  PROVE  NatInv'
<1>1. Used' = Used /\ Used \subseteq Slots
  BY DEF Used
<1> QED
  BY <1>1 DEF NatInv, OneMappingPerPort, CountIsUsed

\* ... a lookup does, which refreshes an entry or changes nothing, ...
LEMMA FindPreservesInv ==
  ASSUME NatInv, NEW p \in Ports \cup {NoPort}, NEW t \in TimesRead,
         Find(p, t), now' = now
  PROVE  NatInv'
<1> USE DEF NatInv
<1>1. CASE UNCHANGED <<slots, count>>
  <2>1. reply' \in Statuses \cup Dsts
    BY FreeIsNoEntry DEF Find, Statuses, SlotsOf, Used, NatTypeOK, Entries
  <2> QED
    BY <1>1, <2>1 DEF NatTypeOK, OneMappingPerPort, CountIsUsed, Used
<1>2. CASE ~UNCHANGED <<slots, count>>
  <2>1. PICK i \in SlotsOf(p) :
          /\ reply' = slots[i].dst
          /\ slots' = [slots EXCEPT ![i].seen = t]
          /\ count' = count
    BY <1>2 DEF Find
  <2>2. i \in Slots /\ slots[i] \in Entries
    BY <2>1 DEF SlotsOf, Used, NatTypeOK
  <2>3. t \in Nat /\ t <= now
    BY DEF TimesRead, NatTypeOK
  <2>4. /\ slots'[i] = [slots[i] EXCEPT !.seen = t]
        /\ slots'[i] \in Entries
        /\ slots'[i].port = slots[i].port /\ slots'[i].created = slots[i].created
        /\ slots'[i].seen = t
    BY <2>1, <2>2, <2>3 DEF NatTypeOK, Entries
  <2>5. \A j \in Slots : j # i => slots'[j] = slots[j]
    BY <2>1 DEF NatTypeOK
  <2>6. NatTypeOK'
    BY <2>1, <2>2, <2>3, <2>4, <2>5 DEF NatTypeOK, Entries
  <2>7. slots[i] # Free /\ slots'[i] # Free
    BY <2>2, <2>4, FreeIsNoEntry
  <2> QED
    BY <2>1, <2>4, <2>5, <2>6, <2>7, InPlacePreservesInv
<1> QED
  BY <1>1, <1>2

\* ... and so does marking a flow closed.
LEMMA MarkClosedPreservesInv ==
  ASSUME NatInv, NEW p \in Ports \cup {NoPort}, MarkClosed(p), now' = now
  PROVE  NatInv'
<1> USE DEF NatInv
<1>1. \A i \in Slots : slots'[i] = IF i \in SlotsOf(p) THEN [slots[i] EXCEPT !.closed = TRUE]
                                                       ELSE slots[i]
  BY DEF MarkClosed
<1>2. \A i \in SlotsOf(p) : i \in Slots /\ slots[i] \in Entries
  BY DEF SlotsOf, Used, NatTypeOK
<1>3. \A i \in SlotsOf(p) :
        /\ slots'[i] \in Entries
        /\ slots'[i].port = slots[i].port
        /\ slots'[i].seen = slots[i].seen /\ slots'[i].created = slots[i].created
  BY <1>1, <1>2 DEF Entries
<1>4. NatTypeOK'
  BY <1>1, <1>3 DEF NatTypeOK, MarkClosed
<1>5. \A i \in Slots : slots[i] = Free <=> slots'[i] = Free
  BY <1>1, <1>2, <1>3, FreeIsNoEntry
<1> QED
  BY <1>1, <1>3, <1>4, <1>5, InPlacePreservesInv DEF MarkClosed

\* The inductive step, one case per operation of the table.
LEMMA NatInvInductive ==
  ASSUME NatInv, [NatNext]_natVars
  PROVE  NatInv'
<1>1. CASE \E p \in Ports \cup {NoPort}, d \in Dsts, t \in TimesRead :
             Add(p, d, t) /\ UNCHANGED now
  BY <1>1, AddPreservesInv
<1>2. CASE \E p \in Ports \cup {NoPort}, t \in TimesRead : Find(p, t) /\ UNCHANGED now
  BY <1>2, FindPreservesInv
<1>3. CASE \E p \in Ports \cup {NoPort} : MarkClosed(p) /\ UNCHANGED now
  BY <1>3, MarkClosedPreservesInv
<1>4. CASE \E p \in Ports \cup {NoPort} : Remove(p) /\ UNCHANGED now
  BY <1>4, DropPreservesInv DEF Remove, SlotsOf
<1>5. CASE \E t \in TimesRead : Expire(t) /\ UNCHANGED now
  BY <1>5, DropPreservesInv DEF Expire
<1>6. CASE Tick
  <2>1. \A i \in Slots : slots[i].seen \in Nat /\ slots[i].created \in Nat
    BY DEF NatInv, NatTypeOK, Entries, Free
  <2> QED
    BY <1>6, <2>1 DEF Tick, NatInv, NatTypeOK, OneMappingPerPort, CountIsUsed, Used
<1>7. CASE UNCHANGED natVars
  BY <1>7 DEF natVars, NatInv, NatTypeOK, OneMappingPerPort, CountIsUsed, Used
<1> QED
  BY <1>1, <1>2, <1>3, <1>4, <1>5, <1>6, <1>7 DEF NatNext

\* The table starts empty.
LEMMA NatInvInitially == NatInit => NatInv
<1> SUFFICES ASSUME NatInit PROVE NatInv
  OBVIOUS
<1>1. Used = {}
  BY DEF NatInit, Used
<1>2. Cardinality(Used) = 0
  BY <1>1, FS_EmptySet
<1> QED
  BY <1>1, <1>2 DEF NatInit, NatInv, NatTypeOK, OneMappingPerPort, CountIsUsed, Statuses, Free

\* The invariant holds at every step.
LEMMA NatInvAlways == NatSpec => []NatInv
<1> QED
  BY NatInvInitially, NatInvInductive, PTL DEF NatSpec

\* The table keeps its type: no entry for port 0, no time stamp from the future.
THEOREM NatTypeCorrect == NatSpec => []NatTypeOK
BY NatInvAlways, PTL DEF NatInv

\* pmx_nat_add replaces a recycled port's entry and never leaves two.
THEOREM PortsAreUnique == NatSpec => []OneMappingPerPort
BY NatInvAlways, PTL DEF NatInv

\* pmx_nat_count is the number of used slots through every add, remove, expire.
THEOREM CountIsTrue == NatSpec => []CountIsUsed
BY NatInvAlways, PTL DEF NatInv

\* A caller's clock reading is never ahead, so what looks expired to it is.
LEMMA ExpiredIsNotLive ==
  ASSUME NatTypeOK, NEW i \in Slots, NEW t \in TimesRead, Expired(slots[i], t)
  PROVE  ~Live(i)
<1>1. slots[i].seen \in Nat /\ now \in Nat /\ t \in Nat /\ t <= now /\ TTL \in Nat
  BY NatAssumption DEF NatTypeOK, Entries, Free, TimesRead
<1> QED
  BY <1>1 DEF Expired, Live

\* A live mapping outlives every step but its own removal.
LEMMA LiveSurvivesStep ==
  ASSUME NatInv, NatNext, NEW i \in Slots, Live(i)
  PROVE  Survives(i)
<1> USE DEF NatInv
<1>0. slots[i] \in Entries /\ slots[i] # Free /\ i \in Used
  BY DEF Live, NatTypeOK, Used
<1>1. ASSUME NEW p \in Ports \cup {NoPort}, NEW d \in Dsts, NEW t \in TimesRead, Add(p, d, t)
      PROVE  Survives(i)
  <2>1. CASE slots' = slots
    BY <1>0, <2>1 DEF Survives
  <2>2. CASE slots' # slots
    <3>1. PICK j \in Slots :
             /\ p \in Ports /\ j \in AddSlot(p, t)
             /\ slots' = [slots EXCEPT ![j] = Written(p, d, t)]
      BY <1>1, <2>2, AddWrites
    <3>2. CASE j # i
      BY <1>0, <3>1, <3>2 DEF Survives, NatTypeOK
    <3>3. CASE j = i
      <4>1. ~Expired(slots[i], t) /\ ~slots[i].closed
        BY ExpiredIsNotLive DEF Live
      <4>2. i \in SlotsOf(p)
        BY <1>0, <3>1, <3>3, <4>1, AddSlotChoice
      <4>3. slots[i].port = p
        BY <4>2 DEF SlotsOf
      <4> QED
        BY <1>1, <4>3 DEF Survives
    <3> QED
      BY <3>2, <3>3
  <2> QED
    BY <2>1, <2>2
<1>2. ASSUME NEW p \in Ports \cup {NoPort}, NEW t \in TimesRead, Find(p, t)
      PROVE  Survives(i)
  <2>1. CASE slots' = slots
    BY <1>0, <2>1 DEF Survives
  <2>2. CASE slots' # slots
    <3>1. PICK j \in SlotsOf(p) : slots' = [slots EXCEPT ![j].seen = t]
      BY <1>2, <2>2 DEF Find
    <3>2. slots'[i].port = slots[i].port /\ slots'[i].dst = slots[i].dst /\ slots'[i] # Free
      BY <1>0, <3>1, NatAssumption DEF NatTypeOK, Entries, Free
    <3> QED
      BY <3>2 DEF Survives
  <2> QED
    BY <2>1, <2>2
<1>3. ASSUME NEW p \in Ports \cup {NoPort}, MarkClosed(p)
      PROVE  Survives(i)
  <2>1. slots'[i].port = slots[i].port /\ slots'[i].dst = slots[i].dst /\ slots'[i] # Free
    BY <1>0, <1>3, NatAssumption DEF MarkClosed, NatTypeOK, Entries, Free
  <2> QED
    BY <2>1 DEF Survives
<1>4. ASSUME NEW p \in Ports \cup {NoPort}, Remove(p)
      PROVE  Survives(i)
  <2>1. CASE i \in SlotsOf(p)
    BY <1>4, <2>1 DEF Survives, SlotsOf
  <2>2. CASE i \notin SlotsOf(p)
    BY <1>0, <1>4, <2>2 DEF Survives, Remove, Drop
  <2> QED
    BY <2>1, <2>2
<1>5. ASSUME NEW t \in TimesRead, Expire(t)
      PROVE  Survives(i)
  <2>1. ~Expired(slots[i], t)
    BY ExpiredIsNotLive
  <2> QED
    BY <1>0, <1>5, <2>1 DEF Survives, Expire, Drop
<1>6. ASSUME Tick
      PROVE  Survives(i)
  BY <1>0, <1>6 DEF Survives, Tick
<1> QED
  BY <1>1, <1>2, <1>3, <1>4, <1>5, <1>6 DEF NatNext

\* pmx_nat.h's promise: a flow still passing traffic never loses its mapping,
\* for every capacity and TTL, except to an add or a remove of its own port.
THEOREM LiveMappingsAlwaysSurvive == NatSpec => LiveMappingsSurvive
<1>1. NatInv /\ [NatNext]_natVars => [\A i \in Slots : Live(i) => Survives(i)]_natVars
  BY LiveSurvivesStep
<1> QED
  BY <1>1, NatInvAlways, PTL DEF NatSpec, LiveMappingsSurvive

-----------------------------------------------------------------------------
\* The rest: the slots implement the map of NatPromise.

\* What the map holds of an entry.
FlowAt(e) == [dst |-> e.dst, seen |-> e.seen, closed |-> e.closed]

\* With one mapping per port, the map answers for each slot in use.
LEMMA MappedFlowsRead ==
  ASSUME OneMappingPerPort
  PROVE  /\ DOMAIN MappedFlows = {slots[i].port : i \in Used}
         /\ MappedFlows = [p \in DOMAIN MappedFlows |-> MappedFlows[p]]
         /\ \A i \in Used : MappedFlows[slots[i].port] = FlowAt(slots[i])
<1>1. ASSUME NEW i \in Used
      PROVE  (CHOOSE j \in SlotsOf(slots[i].port) : TRUE) = i
  <2>1. SlotsOf(slots[i].port) = {i}
    BY DEF SlotsOf, OneMappingPerPort
  <2> QED
    BY <2>1
<1>2. ASSUME NEW i \in Used
      PROVE  MappedFlows[slots[i].port] = FlowAt(slots[i])
  BY <1>1 DEF MappedFlows, FlowAt
<1>3. /\ DOMAIN MappedFlows = {slots[i].port : i \in Used}
      /\ MappedFlows = [p \in DOMAIN MappedFlows |-> MappedFlows[p]]
  BY DEF MappedFlows
<1> QED
  BY <1>2, <1>3

\* And after a step: a function that answers so is the map.
LEMMA MappedFlowsNext ==
  ASSUME OneMappingPerPort', NEW D, NEW f, f = [p \in D |-> f[p]],
         D = {slots'[i].port : i \in Used'},
         \A i \in Used' : f[slots'[i].port] = FlowAt(slots'[i])
  PROVE  MappedFlows' = f
<1>1. ASSUME NEW i \in Used'
      PROVE  (CHOOSE j \in SlotsOf(slots[i].port)' : TRUE) = i
  <2>1. SlotsOf(slots[i].port)' = {i}
    BY DEF SlotsOf, OneMappingPerPort
  <2> QED
    BY <2>1
<1>2. ASSUME NEW i \in Used'
      PROVE  MappedFlows'[slots'[i].port] = FlowAt(slots'[i])
  BY <1>1 DEF MappedFlows, FlowAt, SlotsOf
<1>3. /\ DOMAIN MappedFlows' = D
      /\ MappedFlows' = [p \in D |-> MappedFlows'[p]]
  BY DEF MappedFlows
<1>4. \A p \in D : MappedFlows'[p] = f[p]
  BY <1>2
<1> QED
  BY <1>3, <1>4

\* As many ports are mapped as slots are in use: capacity means the same.
LEMMA MappedAsUsed ==
  ASSUME OneMappingPerPort
  PROVE  /\ Cardinality(DOMAIN MappedFlows) = Cardinality(Used)
         /\ Cardinality(Used) <= Capacity
         /\ Cardinality(Used) = Capacity <=> Used = Slots
         /\ Cardinality(Used) \in Nat
<1>1. IsFiniteSet(Slots) /\ Cardinality(Slots) = Capacity
  BY NatAssumption, FS_Interval DEF Slots
<1>2. /\ IsFiniteSet(Used) /\ Cardinality(Used) <= Capacity /\ Cardinality(Used) \in Nat
      /\ Cardinality(Used) = Capacity <=> Used = Slots
  <2>1. Used \in SUBSET Slots
    BY DEF Used
  <2> QED
    BY <1>1, <2>1, FS_Subset, FS_CardinalityType
<1>3. Cardinality(DOMAIN MappedFlows) = Cardinality(Used)
  <2> DEFINE f == [i \in Used |-> slots[i].port]
  <2>1. f \in Bijection(Used, DOMAIN MappedFlows)
    BY MappedFlowsRead DEF Bijection, Injection, Surjection, IsInjective, OneMappingPerPort
  <2>2. ExistsBijection(Used, DOMAIN MappedFlows)
    BY <2>1 DEF ExistsBijection
  <2> QED
    BY <1>2, <2>2, FS_Bijection
<1> QED
  BY <1>2, <1>3

\* A set of natural numbers that is not empty has a least one.  The library's
\* induction theorems take an operator; that strict inclusion of finite sets is
\* well-founded does not, and the intervals from 0 are ordered by it as their ends.
LEMMA LeastOf ==
  ASSUME NEW S \in SUBSET Nat, S # {}
  PROVE  \E n \in S : \A m \in S : n <= m
<1> DEFINE Initials == {B \in SUBSET Nat : \E n \in S : B = 0..n}
<1>1. Initials \subseteq FiniteSubsetsOf(Nat) /\ Initials # {}
  <2>1. ASSUME NEW n \in S PROVE IsFiniteSet(0..n) /\ 0..n \in SUBSET Nat
    BY FS_Interval
  <2>2. PICK n \in S : TRUE
    OBVIOUS
  <2>3. 0..n \in Initials
    BY <2>1
  <2> QED
    BY <2>1, <2>3 DEF FiniteSubsetsOf
<1>2. PICK B \in Initials : \A C \in Initials : ~ (<<C, B>> \in StrictSubsetOrdering(Nat))
  <2> HIDE DEF Initials
  <2> QED
    BY <1>1, FS_StrictSubsetOrderingWellFounded, WFMin
<1>3. PICK n \in S : B = 0..n
  BY <1>2
<1>4. ASSUME NEW m \in S, m < n
      PROVE  FALSE
  <2>1. 0..m \in Initials /\ 0..n \in SUBSET Nat /\ 0..m \in SUBSET Nat
    OBVIOUS
  <2>2. 0..m \subseteq 0..n /\ n \in 0..n /\ n \notin 0..m
    BY <1>4
  <2>3. <<0..m, 0..n>> \in StrictSubsetOrdering(Nat)
    BY <2>1, <2>2, Zenon DEF StrictSubsetOrdering
  <2> QED
    BY <1>2, <1>3, <2>1, <2>3
<1> QED
  BY <1>4

\* So add finds a slot whenever one is free, idle past the TTL or closed.
LEMMA AddSlotExists ==
  ASSUME NatTypeOK, NEW p, NEW t,
         SlotsOf(p) # {} \/ Used # Slots \/ Reclaimable(t) # {}
  PROVE  AddSlot(p, t) # {}
<1>1. ASSUME NEW S \in SUBSET Slots, S # {}
      PROVE  Lowest(S) # {}
  <2>1. S \in SUBSET Nat
    BY NatAssumption DEF Slots
  <2> QED
    BY <1>1, <2>1, LeastOf DEF Lowest
<1>2. ASSUME NEW S \in SUBSET Slots, S # {}
      PROVE  Oldest(S) # {} /\ Oldest(S) \in SUBSET Slots
  <2>1. \A i \in Slots : slots[i].created \in Nat
    BY DEF NatTypeOK, Entries, Free
  <2>2. {slots[i].created : i \in S} \in SUBSET Nat /\ {slots[i].created : i \in S} # {}
    BY <1>2, <2>1
  <2>3. PICK n \in {slots[i].created : i \in S} : \A m \in {slots[i].created : i \in S} : n <= m
    BY <2>2, LeastOf
  <2>4. PICK i \in S : n = slots[i].created
    BY <2>3
  <2> QED
    BY <2>3, <2>4 DEF Oldest
<1>3. Used \in SUBSET Slots /\ Reclaimable(t) \in SUBSET Slots
  BY DEF Used, Reclaimable
<1>4. CASE SlotsOf(p) # {}
  BY <1>4 DEF AddSlot
<1>5. CASE SlotsOf(p) = {} /\ Used # Slots
  BY <1>1, <1>3, <1>5 DEF AddSlot
<1>6. CASE SlotsOf(p) = {} /\ Used = Slots /\ Reclaimable(t) # {}
  BY <1>1, <1>2, <1>3, <1>6 DEF AddSlot
<1> QED
  BY <1>4, <1>5, <1>6

\* A slot in use holds an entry, with a real port and a state of its own.
LEMMA UsedHoldsEntry ==
  ASSUME NatTypeOK, NEW i \in Used
  PROVE  i \in Slots /\ slots[i] \in Entries /\ slots[i].port \in Ports /\ slots[i] # Free
  BY DEF Used, NatTypeOK, Entries

\* A port is mapped when it has a slot, which is then its only one.
LEMMA MappedPort ==
  ASSUME NatInv, NEW p
  PROVE  /\ p \in DOMAIN MappedFlows <=> SlotsOf(p) # {}
         /\ \A i \in SlotsOf(p) : /\ i \in Used /\ slots[i].port = p /\ SlotsOf(p) = {i}
                                  /\ MappedFlows[p] = FlowAt(slots[i])
<1>1. /\ DOMAIN MappedFlows = {slots[i].port : i \in Used}
      /\ \A i \in Used : MappedFlows[slots[i].port] = FlowAt(slots[i])
  BY MappedFlowsRead DEF NatInv
<1> QED
  BY <1>1 DEF SlotsOf, NatInv, OneMappingPerPort

\* The map and the slots agree on what is idle.
LEMMA IdleIsExpired ==
  ASSUME NEW i, NEW t
  PROVE  Promise!Idle(FlowAt(slots[i]), t) <=> Expired(slots[i], t)
  BY DEF Promise!Idle, FlowAt, Expired

\* Zeroing slots forgets their ports.
LEMMA DropForgets ==
  ASSUME NatInv, NatInv', NEW S \in SUBSET Used, Drop(S), NEW P,
         \A i \in Used : i \in S <=> slots[i].port \in P
  PROVE  MappedFlows' = Promise!Restrict(MappedFlows, DOMAIN MappedFlows \ P)
<1> DEFINE D == DOMAIN MappedFlows \ P
           f == [p \in D |-> MappedFlows[p]]
<1>1. /\ DOMAIN MappedFlows = {slots[i].port : i \in Used}
      /\ \A i \in Used : MappedFlows[slots[i].port] = FlowAt(slots[i])
  BY MappedFlowsRead DEF NatInv
<1>2. Used' = Used \ S /\ \A i \in Used' : slots'[i] = slots[i]
  BY DEF Drop, Used
<1>3. D = {slots'[i].port : i \in Used'}
  BY <1>1, <1>2
<1>4. \A i \in Used' : f[slots'[i].port] = FlowAt(slots'[i])
  BY <1>1, <1>2, <1>3
<1>5. f = [p \in D |-> f[p]] /\ OneMappingPerPort'
  BY DEF NatInv
<1>6. MappedFlows' = f
  <2> HIDE DEF f, D
  <2> QED
    BY <1>3, <1>4, <1>5, MappedFlowsNext
<1> QED
  BY <1>6 DEF Promise!Restrict

\* Writing a slot maps its port, and forgets the one it was written over.
LEMMA WriteMaps ==
  ASSUME NatInv, NatInv', NEW i \in Slots, NEW e \in Entries, e # Free,
         slots' = [slots EXCEPT ![i] = e],
         \A j \in Used : slots[j].port = e.port => j = i,
         NEW old, old = IF i \in Used THEN {slots[i].port} ELSE {}
  PROVE  /\ MappedFlows'
              = Promise!With(Promise!Restrict(MappedFlows, DOMAIN MappedFlows \ old),
                             e.port, FlowAt(e))
         /\ old \subseteq {e.port}
              => MappedFlows' = Promise!With(MappedFlows, e.port, FlowAt(e))
<1> DEFINE D == (DOMAIN MappedFlows \ old) \cup {e.port}
           f == [p \in D |-> IF p = e.port THEN FlowAt(e) ELSE MappedFlows[p]]
<1>1. /\ DOMAIN MappedFlows = {slots[j].port : j \in Used}
      /\ \A j \in Used : MappedFlows[slots[j].port] = FlowAt(slots[j])
  BY MappedFlowsRead DEF NatInv
<1>2. /\ Used' = Used \cup {i} /\ slots'[i] = e
      /\ \A j \in Slots : j # i => slots'[j] = slots[j]
      /\ Used \subseteq Slots
  BY DEF NatInv, NatTypeOK, Used
<1>3. \A j \in Used : j # i => slots[j].port \notin old
  BY DEF NatInv, OneMappingPerPort
<1>4. D = {slots'[j].port : j \in Used'}
  <2>1. ASSUME NEW p \in D PROVE \E j \in Used' : p = slots'[j].port
    BY <1>1, <1>2
  <2>2. ASSUME NEW j \in Used' PROVE slots'[j].port \in D
    BY <1>1, <1>2, <1>3
  <2> QED
    BY <2>1, <2>2
<1>5. \A j \in Used' : f[slots'[j].port] = FlowAt(slots'[j])
  <2>1. ASSUME NEW j \in Used', j # i PROVE slots'[j].port # e.port /\ slots'[j] = slots[j] /\ j \in Used
    BY <1>2, <2>1
  <2>2. ASSUME NEW j \in Used', j # i PROVE f[slots'[j].port] = FlowAt(slots'[j])
    BY <1>1, <1>4, <2>1, <2>2
  <2>3. f[slots'[i].port] = FlowAt(slots'[i])
    BY <1>2
  <2> QED
    BY <2>2, <2>3
<1>6. f = [p \in D |-> f[p]] /\ OneMappingPerPort'
  BY DEF NatInv
<1>7. MappedFlows' = f
  <2> HIDE DEF f, D
  <2> QED
    BY <1>4, <1>5, <1>6, MappedFlowsNext
<1>8. f = Promise!With(Promise!Restrict(MappedFlows, DOMAIN MappedFlows \ old), e.port, FlowAt(e))
  BY DEF Promise!With, Promise!Restrict
<1>9. ASSUME old \subseteq {e.port}
      PROVE  f = Promise!With(MappedFlows, e.port, FlowAt(e))
  <2>1. D = DOMAIN MappedFlows \cup {e.port}
    BY <1>9
  <2> QED
    BY <2>1 DEF Promise!With
<1> QED
  BY <1>7, <1>8, <1>9

\* The promise counts as the table does.
LEMMA SameCardinality ==
  ASSUME NEW S
  PROVE  Promise!Cardinality(S) = Cardinality(S)
BY DEF Promise!Cardinality, Cardinality

\* Add accepts a flow as the map does, or refuses it as the map does.
LEMMA AddAsPromised ==
  ASSUME NatInv, NatInv', NEW p \in Ports \cup {NoPort}, NEW d \in Dsts, NEW t \in TimesRead,
         Add(p, d, t)
  PROVE  Promise!Accept(p, d, t) \/ Promise!Refuse(p, t)
<1> DEFINE M == DOMAIN MappedFlows
<1>1. /\ M = {slots[i].port : i \in Used}
      /\ \A i \in Used : MappedFlows[slots[i].port] = FlowAt(slots[i])
  BY MappedFlowsRead DEF NatInv
<1>2. /\ Cardinality(M) = Cardinality(Used) /\ Cardinality(Used) <= Capacity
      /\ Cardinality(Used) = Capacity <=> Used = Slots
      /\ Cardinality(Used) \in Nat /\ Capacity \in Nat
  BY MappedAsUsed, NatAssumption DEF NatInv
<1>3. CASE p = NoPort
  BY <1>3, NatAssumption DEF Add, Promise!Refuse, MappedFlows, SlotsOf, Used
<1>4. ASSUME p # NoPort, AddSlot(p, t) = {}, reply' = "refused", UNCHANGED <<slots, count>>
      PROVE  Promise!Refuse(p, t)
  <2>1. SlotsOf(p) = {} /\ Used = Slots /\ Reclaimable(t) = {}
    BY <1>4, AddSlotExists DEF NatInv
  <2>2. p \in Ports \ M /\ Cardinality(M) = Capacity
    BY <1>2, <1>4, <2>1, MappedPort
  <2>3. \A q \in M : ~MappedFlows[q].closed /\ ~Promise!Idle(MappedFlows[q], t)
    <3>1. ASSUME NEW i \in Used
          PROVE  ~FlowAt(slots[i]).closed /\ ~Promise!Idle(FlowAt(slots[i]), t)
      <4>1. ~slots[i].closed /\ ~Expired(slots[i], t)
        BY <2>1 DEF Reclaimable
      <4> QED
        BY <4>1, IdleIsExpired DEF FlowAt
    <3> QED
      BY <1>1, <3>1
  <2>4. MappedFlows' = MappedFlows
    BY <1>4 DEF MappedFlows, SlotsOf, Used
  <2> QED
    BY <1>4, <2>2, <2>3, <2>4, SameCardinality, Zenon DEF Promise!Refuse, Promise!Mapped
<1>5. ASSUME p # NoPort, NEW i \in AddSlot(p, t),
             slots' = [slots EXCEPT ![i] = Written(p, d, t)], reply' = "ok"
      PROVE  Promise!Accept(p, d, t)
  <2> DEFINE e == Written(p, d, t)
             old == IF i \in Used THEN {slots[i].port} ELSE {}
  <2>1. p \in Ports /\ t \in Nat
    BY <1>5 DEF TimesRead, NatInv, NatTypeOK
  <2>2. /\ e \in Entries /\ e # Free /\ e.port = p
        /\ FlowAt(e) = Promise!Flow(d, t, FALSE)
    <3>1. e = [port |-> p, dst |-> d, created |-> t, seen |-> t, closed |-> FALSE]
      BY DEF Written
    <3>2. e \in Entries /\ e.port = p /\ e.dst = d /\ e.seen = t /\ e.closed = FALSE
      BY <2>1, <3>1 DEF Entries
    <3> HIDE DEF e
    <3>3. FlowAt(e) = Promise!Flow(d, t, FALSE)
      BY <3>2 DEF FlowAt, Promise!Flow
    <3> QED
      BY <3>2, <3>3, FreeIsNoEntry
  <2>3. i \in Slots
    BY AddSlotChoice DEF NatInv
  <2>4. \A j \in Used : slots[j].port = p => j = i
    <3>1. i \in SlotsOf(p) \/ SlotsOf(p) = {}
      BY AddSlotChoice DEF NatInv
    <3> QED
      BY <3>1 DEF SlotsOf, NatInv, OneMappingPerPort
  <2>5. /\ MappedFlows' = Promise!With(Promise!Restrict(MappedFlows, M \ old), p, Promise!Flow(d, t, FALSE))
        /\ old \subseteq {p} => MappedFlows' = Promise!With(MappedFlows, p, Promise!Flow(d, t, FALSE))
    <3> HIDE DEF e, old
    <3>1. old = IF i \in Used THEN {slots[i].port} ELSE {}
      BY DEF old
    <3>2. slots' = [slots EXCEPT ![i] = e]
      BY <1>5 DEF e
    <3> QED
      BY <2>2, <2>3, <2>4, <3>1, <3>2, WriteMaps
  <2>6. CASE SlotsOf(p) # {}
    <3>1. p \in M /\ old = {p}
      BY <2>6, MappedPort DEF AddSlot
    <3> QED
      BY <1>5, <2>1, <2>5, <3>1 DEF Promise!Accept, Promise!Mapped
  <2>7. CASE SlotsOf(p) = {} /\ Used # Slots
    <3>1. i \notin Used
      BY <2>7 DEF AddSlot, Lowest
    <3>2. Cardinality(M) < Capacity
      BY <1>2, <2>7
    <3>3. MappedFlows' = Promise!With(MappedFlows, p, Promise!Flow(d, t, FALSE))
      BY <2>5, <3>1
    <3> QED
      BY <1>5, <2>1, <3>2, <3>3, SameCardinality, Zenon DEF Promise!Accept, Promise!Mapped
  <2>8. CASE SlotsOf(p) = {} /\ Used = Slots
    <3>1. i \in Used /\ (Expired(slots[i], t) \/ slots[i].closed)
      BY <2>3, <2>8, AddSlotChoice DEF NatInv, SlotsOf
    <3>2. p \notin M /\ Cardinality(M) = Capacity
      BY <1>2, <2>8, MappedPort
    <3>3. slots[i].port \in M /\ MappedFlows[slots[i].port] = FlowAt(slots[i])
      BY <1>1, <3>1
    <3>4. FlowAt(slots[i]).closed \/ Promise!Idle(FlowAt(slots[i]), t)
      BY <3>1, IdleIsExpired DEF FlowAt
    <3>5. old = {slots[i].port}
      BY <3>1
    <3>6. MappedFlows' = Promise!With(Promise!Restrict(MappedFlows, M \ {slots[i].port}),
                                      p, Promise!Flow(d, t, FALSE))
      BY <2>5, <3>5
    <3> QED
      BY <1>5, <2>1, <3>2, <3>3, <3>4, <3>6, SameCardinality, Zenon DEF Promise!Accept, Promise!Mapped
  <2> QED
    BY <2>6, <2>7, <2>8
<1> QED
  BY <1>3, <1>4, <1>5 DEF Add, Written

\* The map is a function of the slots alone.
LEMMA SameSlotsSameMap ==
  ASSUME slots' = slots
  PROVE  MappedFlows' = MappedFlows
BY DEF MappedFlows, SlotsOf, Used

\* Changing a slot in place changes its port's flow, and no other.
LEMMA InPlaceUpdates ==
  ASSUME NatInv, NatInv', NEW p, NEW i \in SlotsOf(p), NEW e \in Entries, e.port = p,
         slots' = [slots EXCEPT ![i] = e]
  PROVE  MappedFlows' = [MappedFlows EXCEPT ![p] = FlowAt(e)]
<1>1. /\ i \in Used /\ i \in Slots /\ slots[i].port = p /\ SlotsOf(p) = {i}
      /\ e # Free
  BY UsedHoldsEntry, MappedPort, FreeIsNoEntry DEF NatInv
<1>2. p \in DOMAIN MappedFlows /\ MappedFlows = [q \in DOMAIN MappedFlows |-> MappedFlows[q]]
  BY MappedPort, MappedFlowsRead DEF NatInv
<1>3. \A j \in Used : slots[j].port = e.port => j = i
  BY <1>1 DEF SlotsOf
<1>4. {slots[i].port} = IF i \in Used THEN {slots[i].port} ELSE {}
  BY <1>1
<1>5. MappedFlows' = Promise!With(MappedFlows, p, FlowAt(e))
  BY <1>1, <1>3, <1>4, WriteMaps
<1> QED
  BY <1>2, <1>5 DEF Promise!With

\* Find answers, and keeps a flow alive, as the map does.
LEMMA FindAsPromised ==
  ASSUME NatInv, NatInv', NEW p \in Ports \cup {NoPort}, NEW t \in TimesRead, Find(p, t)
  PROVE  Promise!LookUp(p, t)
<1>1. ASSUME NEW i \in SlotsOf(p), ~Expired(slots[i], t), reply' = slots[i].dst,
             slots' = IF slots[i].closed THEN slots ELSE [slots EXCEPT ![i].seen = t]
      PROVE  Promise!LookUp(p, t)
  <2>1. /\ p \in DOMAIN MappedFlows /\ MappedFlows[p] = FlowAt(slots[i])
        /\ slots[i].port = p
    BY MappedPort
  <2>2. i \in Slots /\ slots[i] \in Entries
    BY UsedHoldsEntry, MappedPort DEF NatInv
  <2>3. ~Promise!Idle(MappedFlows[p], t) /\ reply' = MappedFlows[p].dst
    BY <1>1, <2>1, IdleIsExpired DEF FlowAt
  <2>4. MappedFlows[p].closed = slots[i].closed
    BY <2>1 DEF FlowAt
  <2>5. CASE slots[i].closed
    <3>1. MappedFlows' = MappedFlows
      BY <1>1, <2>5, SameSlotsSameMap
    <3> QED
      BY <2>1, <2>3, <2>4, <2>5, <3>1 DEF Promise!LookUp, Promise!Mapped
  <2>6. CASE ~slots[i].closed
    <3> DEFINE e == [slots[i] EXCEPT !.seen = t]
    <3>1. slots' = [slots EXCEPT ![i] = e]
      BY <1>1, <2>6
    <3>2. e \in Entries /\ e.port = p
      BY <2>1, <2>2 DEF Entries, TimesRead
    <3>3. FlowAt(e) = [FlowAt(slots[i]) EXCEPT !.seen = t]
      BY <2>2 DEF FlowAt, Entries
    <3>4. MappedFlows' = [MappedFlows EXCEPT ![p] = FlowAt(e)]
      <4> HIDE DEF e
      <4> QED
        BY <3>1, <3>2, InPlaceUpdates
    <3>5. MappedFlows' = [MappedFlows EXCEPT ![p].seen = t]
      <4> HIDE DEF e
      <4> QED
        BY <2>1, <3>3, <3>4
    <3> QED
      BY <2>1, <2>3, <2>4, <2>6, <3>5 DEF Promise!LookUp, Promise!Mapped
  <2> QED
    BY <2>5, <2>6
<1>2. ASSUME \A i \in SlotsOf(p) : Expired(slots[i], t), reply' = "miss", slots' = slots
      PROVE  Promise!LookUp(p, t)
  <2>1. p \in DOMAIN MappedFlows => Promise!Idle(MappedFlows[p], t)
    <3>1. SUFFICES ASSUME p \in DOMAIN MappedFlows PROVE Promise!Idle(MappedFlows[p], t)
      OBVIOUS
    <3>2. PICK i \in SlotsOf(p) : TRUE
      BY <3>1, MappedPort
    <3> QED
      BY <1>2, <3>2, MappedPort, IdleIsExpired
  <2>2. MappedFlows' = MappedFlows
    BY <1>2, SameSlotsSameMap
  <2> QED
    BY <1>2, <2>1, <2>2 DEF Promise!LookUp, Promise!Mapped
<1> QED
  BY <1>1, <1>2 DEF Find

\* Marking a mapped port finishes its flow, and any other changes nothing.
LEMMA MarkClosedAsPromised ==
  ASSUME NatInv, NatInv', NEW p \in Ports \cup {NoPort}, MarkClosed(p)
  PROVE  \/ Promise!Finish(p)
         \/ MappedFlows' = MappedFlows /\ reply' = reply
<1>1. ASSUME NEW i \in SlotsOf(p)
      PROVE  Promise!Finish(p)
  <2> DEFINE e == [slots[i] EXCEPT !.closed = TRUE]
  <2>1. /\ p \in DOMAIN MappedFlows /\ MappedFlows[p] = FlowAt(slots[i])
        /\ slots[i].port = p /\ SlotsOf(p) = {i}
    BY MappedPort
  <2>2. i \in Slots /\ slots[i] \in Entries
    BY UsedHoldsEntry, MappedPort DEF NatInv
  <2>3. slots' = [slots EXCEPT ![i] = e]
    BY <2>1, <2>2 DEF MarkClosed, NatInv, NatTypeOK
  <2>4. e \in Entries /\ e.port = p
    BY <2>1, <2>2 DEF Entries
  <2>5. FlowAt(e) = [FlowAt(slots[i]) EXCEPT !.closed = TRUE]
    <3>1. e.dst = slots[i].dst /\ e.seen = slots[i].seen /\ e.closed = TRUE
      BY <2>2 DEF Entries
    <3> HIDE DEF e
    <3>2. FlowAt(e) = [dst |-> slots[i].dst, seen |-> slots[i].seen, closed |-> TRUE]
      BY <3>1, Zenon DEF FlowAt
    <3>3. [FlowAt(slots[i]) EXCEPT !.closed = TRUE]
             = [dst |-> slots[i].dst, seen |-> slots[i].seen, closed |-> TRUE]
      <4>1. ASSUME NEW c
            PROVE  [FlowAt(slots[i]) EXCEPT !.closed = c]
                     = [dst |-> slots[i].dst, seen |-> slots[i].seen, closed |-> c]
        BY DEF FlowAt
      <4> QED
        BY <4>1
    <3> QED
      BY <3>2, <3>3
  <2> HIDE DEF e
  <2>6. MappedFlows' = [MappedFlows EXCEPT ![p] = FlowAt(e)]
    BY <2>3, <2>4, InPlaceUpdates
  <2>7. MappedFlows' = [MappedFlows EXCEPT ![p].closed = TRUE]
    BY <2>1, <2>5, <2>6
  <2> QED
    BY <2>1, <2>7 DEF MarkClosed, Promise!Finish, Promise!Mapped
<1>2. ASSUME SlotsOf(p) = {}
      PROVE  MappedFlows' = MappedFlows /\ reply' = reply
  <2>1. slots' = slots
    BY <1>2 DEF MarkClosed, NatInv, NatTypeOK
  <2> QED
    BY <2>1, SameSlotsSameMap DEF MarkClosed
<1> QED
  BY <1>1, <1>2

\* Remove forgets the port, and expire exactly the ports idle past the TTL.
LEMMA RemoveAsPromised ==
  ASSUME NatInv, NatInv', NEW p \in Ports \cup {NoPort}, Remove(p)
  PROVE  Promise!Forget({p})
<1>1. SlotsOf(p) \in SUBSET Used /\ \A i \in Used : i \in SlotsOf(p) <=> slots[i].port \in {p}
  BY DEF SlotsOf
<1>2. MappedFlows' = Promise!Restrict(MappedFlows, DOMAIN MappedFlows \ {p})
  BY <1>1, DropForgets DEF Remove
<1> QED
  BY <1>2 DEF Remove, Promise!Forget, Promise!Mapped

\* An expiry sweep forgets exactly the idle ports of the promised map.
LEMMA ExpireAsPromised ==
  ASSUME NatInv, NatInv', NEW t \in TimesRead, Expire(t)
  PROVE  Promise!Forget({q \in Promise!Mapped : Promise!Idle(MappedFlows[q], t)})
<1> DEFINE P == {q \in Promise!Mapped : Promise!Idle(MappedFlows[q], t)}
           S == {i \in Used : Expired(slots[i], t)}
<1>1. ASSUME NEW i \in Used
      PROVE  i \in S <=> slots[i].port \in P
  BY MappedFlowsRead, IdleIsExpired DEF NatInv, Promise!Mapped
<1>2. S \in SUBSET Used /\ Drop(S)
  BY DEF Expire
<1>3. MappedFlows' = Promise!Restrict(MappedFlows, DOMAIN MappedFlows \ P)
  <2> HIDE DEF S, P
  <2> QED
    BY <1>1, <1>2, DropForgets
<1> QED
  BY <1>3 DEF Expire, Promise!Forget, Promise!Mapped

\* Every step of the table is one of the map, or none.
LEMMA StepsKeepThePromise ==
  NatInv /\ [NatNext]_natVars => [Promise!PromiseNext]_(Promise!promiseVars)
<1> SUFFICES ASSUME NatInv, [NatNext]_natVars
             PROVE  [Promise!PromiseNext]_(Promise!promiseVars)
  OBVIOUS
<1>1. NatInv'
  BY NatInvInductive
<1>2. Promise!Readings = TimesRead
  BY DEF Promise!Readings, TimesRead
<1>3. ASSUME MappedFlows' = MappedFlows, reply' = reply, now' = now
      PROVE  UNCHANGED Promise!promiseVars
  BY <1>3 DEF Promise!promiseVars
<1>4. ASSUME NEW p \in Ports \cup {NoPort}, NEW d \in Dsts, NEW t \in TimesRead,
             Add(p, d, t), UNCHANGED now
      PROVE  Promise!PromiseNext
  BY <1>1, <1>2, <1>4, AddAsPromised DEF Promise!PromiseNext
<1>5. ASSUME NEW p \in Ports \cup {NoPort}, NEW t \in TimesRead, Find(p, t), UNCHANGED now
      PROVE  Promise!PromiseNext
  BY <1>1, <1>2, <1>5, FindAsPromised DEF Promise!PromiseNext
<1>6. 0 \in Nat /\ now \in Nat /\ now \in TimesRead
  BY NatAssumption DEF NatInv, NatTypeOK, TimesRead
<1>7. ASSUME NEW p \in Ports \cup {NoPort}, MarkClosed(p), UNCHANGED now
      PROVE  [Promise!PromiseNext]_(Promise!promiseVars)
  BY <1>1, <1>2, <1>3, <1>6, <1>7, MarkClosedAsPromised DEF Promise!PromiseNext
<1>8. ASSUME NEW p \in Ports \cup {NoPort}, Remove(p), UNCHANGED now
      PROVE  Promise!PromiseNext
  BY <1>1, <1>2, <1>6, <1>8, RemoveAsPromised DEF Promise!PromiseNext
<1>9. ASSUME NEW t \in TimesRead, Expire(t), UNCHANGED now
      PROVE  Promise!PromiseNext
  <2>1. NoPort \in Ports \cup {NoPort}
    OBVIOUS
  <2> QED
    BY <1>1, <1>2, <1>9, <2>1, ExpireAsPromised DEF Promise!PromiseNext
<1>10. ASSUME Tick
       PROVE  Promise!PromiseNext
  <2>1. now' > now
    BY <1>6, <1>10 DEF Tick
  <2>2. MappedFlows' = MappedFlows /\ reply' = reply
    BY <1>10, SameSlotsSameMap DEF Tick
  <2> QED
    BY <2>1, <2>2 DEF Promise!PromiseNext, Promise!TimePasses
<1>11. ASSUME UNCHANGED natVars
       PROVE  UNCHANGED Promise!promiseVars
  BY <1>3, <1>11, SameSlotsSameMap DEF natVars
<1> QED
  BY <1>4, <1>5, <1>7, <1>8, <1>9, <1>10, <1>11 DEF NatNext

\* An empty table is the empty map.
LEMMA InitKeepsThePromise == NatInit => Promise!PromiseInit
<1> SUFFICES ASSUME NatInit PROVE Promise!PromiseInit
  OBVIOUS
<1>1. Used = {}
  BY DEF NatInit, Used
<1>2. OneMappingPerPort
  BY <1>1 DEF OneMappingPerPort
<1>3. /\ DOMAIN MappedFlows = {}
      /\ MappedFlows = [p \in DOMAIN MappedFlows |-> MappedFlows[p]]
  BY <1>1, <1>2, MappedFlowsRead
<1>4. MappedFlows = [p \in {} |-> p]
  BY <1>3
<1> QED
  BY <1>4 DEF NatInit, Promise!PromiseInit

\* pmx_nat.h's contract as a whole, for every capacity, TTL and reading lag: the
\* table answers as a finite map would, refuses a new flow only when full of live
\* ones, and evicts none but a finished or idle flow.
THEOREM TableKeepsItsPromise == NatSpec => ImplementsPromise
BY NatInvAlways, InitKeepsThePromise, StepsKeepThePromise, PTL
   DEF NatSpec, ImplementsPromise, Promise!PromiseSpec

-----------------------------------------------------------------------------
(* Redirection.                                                            *)

\* What holds whether or not ports are recycled: where the threads are, and
\* the identifiers given out.
ThreadsAreKnown ==
  /\ pump \in [pc: {"idle", "register", "add", "release"}, port: Ports \cup {NoPort}]
  /\ pump.pc # "idle" => pump.port \in Ports
  /\ acceptor \in {"idle", "joining"} /\ (acceptor = "joining" => backlog # <<>>)
  /\ opens \in 0..MaxOpens

IdsAreGiven ==
  /\ \A p \in Ports : app[p].id \in 0..opens
  /\ \A p \in Ports : app[p].phase # "closed" => app[p].id # 0 /\ app[p].dst \in Dsts
  /\ \A p, q \in Ports : app[p].id = app[q].id /\ app[p].id # 0 => p = q
  /\ \A i \in 1..Len(backlog) : backlog[i].id <= opens
  /\ \A c \in conns : c.id <= opens

\* A connection the relay has is the one its port's application means.
IdsNamePorts ==
  /\ \A i \in 1..Len(backlog), p \in Ports : backlog[i].id = app[p].id => backlog[i].port = p
  /\ \A c \in conns, p \in Ports : c.id = app[p].id => c.port = p

RedirectTypeInv ==
  /\ NatInv /\ RedirectTypeOK /\ ThreadsAreKnown /\ IdsAreGiven /\ IdsNamePorts
  /\ IsFiniteSet(pending) /\ IsFiniteSet(conns)

\* At most one connection of a port is anywhere in the relay, none while its
\* application is still connecting or was let out direct, its own when it is up.
PortsAreOwn ==
  /\ \A i, j \in 1..Len(backlog) : backlog[i].port = backlog[j].port => i = j
  /\ \A i \in 1..Len(backlog) :
       /\ \A c \in conns : c.port = backlog[i].port => c.done
       /\ \A e \in exiting : e.port # backlog[i].port
  /\ \A c, d \in conns : ~c.done /\ ~d.done /\ c.port = d.port => c = d
  /\ \A c \in conns, e \in exiting : ~c.done => e.port # c.port
  /\ \A p \in Ports : app[p].phase \in {"asking", "deciding", "syn", "direct"} => Quiet(p)
  /\ \A p \in Ports : app[p].phase = "up" =>
       /\ \A i \in 1..Len(backlog) : backlog[i].port = p => backlog[i].id = app[p].id
       /\ \A c \in conns : c.port = p /\ ~c.done => c.id = app[p].id

\* Mapping, registration and the connection between them have one destination.
TablesAgree ==
  /\ \A i \in Used, e \in pending : slots[i].port = e.port =>
       slots[i].dst = e.dst \/ (pump.pc = "add" /\ pump.port = e.port)
  /\ \A i \in 1..Len(backlog), e \in pending : backlog[i].port = e.port => backlog[i].dst = e.dst
  /\ \A e \in pending : pump.pc \in {"add", "release"} /\ pump.port = e.port => e.dst = app[e.port].dst
  /\ RightDestination

\* From its registration until its first packet.
AwaitsRelay(p) ==
  \/ app[p].phase = "syn" /\ app[p].verdict = "proxy"
  \/ pump.pc \in {"add", "release"} /\ pump.port = p

\* Its registration has its destination, unless that aged out.
IsRegistered(p) ==
  \/ \E e \in pending : e.port = p /\ e.dst = app[p].dst /\ e.added >= app[p].last
  \/ now - app[p].last >= PendingTTL

RegisteredUntilTaken == \A p \in Ports : AwaitsRelay(p) => IsRegistered(p)

\* From its mapping until the relay ends it.
IsRedirected(p) ==
  \/ app[p].verdict = "proxy" /\ app[p].phase = "syn"
  \/ app[p].verdict = "proxy" /\ app[p].phase = "up" /\ RelaySideOpen(p)
  \/ pump.pc = "release" /\ pump.port = p

IsFresh(p) == now - app[p].last <= TTL

\* The mapping a flow has, as fresh as the flow.
Shields(i, p) ==
  i \in SlotsOf(p) /\ slots[i].dst = app[p].dst /\ ~slots[i].closed /\ slots[i].seen >= app[p].last

MappingsAreFresh ==
  \A p \in Ports : IsRedirected(p) /\ IsFresh(p) => \E i \in Slots : Shields(i, p)

\* And in the backlog.
HasEntry(b) ==
  \/ \E e \in pending : e.port = b.port /\ e.dst = b.dst /\ e.added >= b.since
  \/ now - b.since >= PendingTTL

BacklogIsRegistered == \A i \in 1..Len(backlog) : backlog[i].verdict = "proxy" => HasEntry(backlog[i])

RedirectInv ==
  /\ RedirectTypeInv /\ PortsAreOwn /\ TablesAgree /\ RegisteredUntilTaken /\ BacklogIsRegistered
  /\ MappingsAreFresh

-----------------------------------------------------------------------------
\* Types part by part, as the steps below use them.
AppFlows == [phase: Phases, id: Ids \cup {0}, dst: Dsts \cup {NoDst}, verdict: Verdicts, last: Nat]
Waiting  == [id: Ids, port: Ports, dst: Dsts, verdict: Verdicts, since: Nat]
Relayed  == [id: Ids, port: Ports, dst: Dsts, client: Dsts, done: BOOLEAN]
Recorded == [port: Ports, dst: Dsts, added: Nat]

PumpIsBusy == \A p \in Ports : (app[p].phase = "deciding") <=> (pump.pc # "idle" /\ pump.port = p)

PendingIsTyped ==
  /\ pending \subseteq Recorded /\ IsFiniteSet(pending) /\ Cardinality(pending) <= MaxPending
  /\ \A e, f \in pending : e.port = f.port => e = f

RelayIsTyped ==
  /\ backlog \in Seq(Waiting) /\ exiting \subseteq [id: Ids, port: Ports]
  /\ conns \subseteq Relayed /\ IsFiniteSet(conns) /\ Cardinality(conns) <= MaxConns

\* The type invariant is these parts, now ...
LEMMA TypeParts ==
  RedirectTypeInv <=> /\ NatInv /\ app \in [Ports -> AppFlows] /\ PumpIsBusy /\ PendingIsTyped
                      /\ RelayIsTyped /\ ThreadsAreKnown /\ IdsAreGiven /\ IdsNamePorts
BY DEF RedirectTypeInv, RedirectTypeOK, NatInv, AppFlows, Waiting, Relayed, Recorded, PumpIsBusy,
       PendingIsTyped, RelayIsTyped

\* ... and after a step.
LEMMA TypePartsNext ==
  ASSUME NatInv', app' \in [Ports -> AppFlows], PumpIsBusy', PendingIsTyped', RelayIsTyped',
         ThreadsAreKnown', IdsAreGiven', IdsNamePorts'
  PROVE  RedirectTypeInv'
BY DEF RedirectTypeInv, RedirectTypeOK, NatInv, AppFlows, Waiting, Relayed, Recorded, PumpIsBusy,
       PendingIsTyped, RelayIsTyped

\* Constants in the form the steps below use them.
LEMMA RedirectConstants ==
  /\ MaxPending \in Nat \ {0} /\ PendingTTL \in Nat \ {0} /\ MaxConns \in Nat \ {0} /\ MaxOpens \in Nat
  /\ TTL \in Nat \ {0} /\ NoPort \notin Ports /\ NoDst \notin Dsts
  /\ \A d \in Dsts : d # "miss"
  /\ \A n \in Ids : n \in Nat /\ n # 0
BY RedirectAssumption, NatAssumption DEF Ids, Statuses

\* The fields of a flow, and of what the relay keeps.
LEMMA Fields ==
  ASSUME RedirectTypeInv
  PROVE  /\ \A p \in Ports :
              /\ app[p] \in AppFlows /\ app[p].phase \in Phases /\ app[p].id \in Ids \cup {0}
              /\ app[p].id \in Nat /\ app[p].verdict \in Verdicts /\ app[p].last \in Nat
              /\ app[p].dst \in Dsts \cup {NoDst}
         /\ \A i \in 1..Len(backlog) :
              /\ backlog[i] \in Waiting /\ backlog[i].id \in Ids /\ backlog[i].port \in Ports
              /\ backlog[i].dst \in Dsts /\ backlog[i].since \in Nat
         /\ Len(backlog) \in Nat
         /\ \A c \in conns : c \in Relayed /\ c.id \in Ids /\ c.port \in Ports /\ c.done \in BOOLEAN
         /\ \A e \in exiting : e.id \in Ids /\ e.port \in Ports
         /\ \A e \in pending : e \in Recorded /\ e.port \in Ports /\ e.dst \in Dsts /\ e.added \in Nat
         /\ now \in Nat
<1>1. /\ app \in [Ports -> AppFlows] /\ RelayIsTyped /\ PendingIsTyped /\ now \in Nat
  BY TypeParts DEF NatInv, NatTypeOK
<1>2. \A p \in Ports :
        /\ app[p] \in AppFlows /\ app[p].phase \in Phases /\ app[p].id \in Ids \cup {0}
        /\ app[p].id \in Nat /\ app[p].verdict \in Verdicts /\ app[p].last \in Nat
        /\ app[p].dst \in Dsts \cup {NoDst}
  BY <1>1, RedirectConstants DEF AppFlows
<1>3. Len(backlog) \in Nat /\ \A i \in 1..Len(backlog) : backlog[i] \in Waiting
  BY <1>1 DEF RelayIsTyped
<1>4. \A b \in Waiting : b.id \in Ids /\ b.port \in Ports /\ b.dst \in Dsts /\ b.since \in Nat
  BY DEF Waiting
<1>5. \A c \in conns : c \in Relayed /\ c.id \in Ids /\ c.port \in Ports /\ c.done \in BOOLEAN
  BY <1>1 DEF RelayIsTyped, Relayed
<1>6. \A e \in exiting : e.id \in Ids /\ e.port \in Ports
  BY <1>1 DEF RelayIsTyped
<1>7. \A e \in pending : e \in Recorded /\ e.port \in Ports /\ e.dst \in Dsts /\ e.added \in Nat
  BY <1>1 DEF PendingIsTyped, Recorded
<1> QED
  BY <1>1, <1>2, <1>3, <1>4, <1>5, <1>6, <1>7

\* One port's flow changes.
LEMMA FlowChange ==
  ASSUME app \in [Ports -> AppFlows], NEW p \in Ports, NEW f \in AppFlows, app' = [app EXCEPT ![p] = f]
  PROVE  /\ app' \in [Ports -> AppFlows] /\ app'[p] = f
         /\ \A q \in Ports : q # p => app'[q] = app[q]
OBVIOUS

\* The flow stays what it is, but for its phase, verdict or latest packet, or is gone.
Same(p) == app'[p].id = app[p].id /\ app'[p].dst = app[p].dst
OthersKept(p) == \A q \in Ports : q # p => app'[q] = app[q]

\* The SYN is let out.
LEMMA LetFacts ==
  ASSUME RedirectTypeInv, NEW p \in Ports, NEW v \in Verdicts, Let(p, v)
  PROVE  /\ app' \in [Ports -> AppFlows] /\ Same(p) /\ OthersKept(p)
         /\ app'[p].phase = "syn" /\ app'[p].verdict = v /\ app'[p].last = app[p].last
<1> DEFINE f == [app[p] EXCEPT !.phase = "syn", !.verdict = v]
<1>1. app \in [Ports -> AppFlows]
  BY TypeParts
<1>2. app' = [app EXCEPT ![p] = f]
  BY DEF Let
<1>3. /\ f \in AppFlows /\ f.phase = "syn" /\ f.verdict = v /\ f.last = app[p].last
      /\ f.id = app[p].id /\ f.dst = app[p].dst
  BY <1>1 DEF AppFlows, Phases
<1> HIDE DEF f
<1> QED
  BY <1>1, <1>2, <1>3, FlowChange DEF Same, OthersKept

\* The connect or the flow is gone from its port.
LEMMA NoFlowFacts ==
  ASSUME app \in [Ports -> AppFlows], NEW p \in Ports, app' = [app EXCEPT ![p] = NoFlow]
  PROVE  /\ app' \in [Ports -> AppFlows] /\ OthersKept(p)
         /\ app'[p].phase = "closed" /\ app'[p].id = 0
<1>1. NoFlow \in AppFlows /\ NoFlow.phase = "closed" /\ NoFlow.id = 0
  BY DEF NoFlow, AppFlows, Phases, Verdicts
<1> QED
  BY <1>1, FlowChange DEF OthersKept

\* A flow that cannot be redirected is gone, or let out without the relay.
LEMMA CannotProxyFacts ==
  ASSUME RedirectTypeInv, NEW p \in Ports, CannotProxy(p)
  PROVE  /\ app' \in [Ports -> AppFlows] /\ OthersKept(p)
         /\ \/ app'[p].phase = "closed" /\ app'[p].id = 0
            \/ app'[p].phase = "syn" /\ app'[p].verdict = "leaky" /\ Same(p)
<1>1. app \in [Ports -> AppFlows]
  BY TypeParts
<1> QED
  BY <1>1, LetFacts, NoFlowFacts DEF CannotProxy, Drop1, Verdicts

\* The flow's latest packet is noted.
LEMMA PassedIsTime ==
  ASSUME RedirectTypeInv, NEW p \in Ports, NEW t \in TimesRead
  PROVE  Passed(app[p], t) \in Nat /\ t \in Nat /\ t <= now
BY Fields DEF Passed, TimesRead

-----------------------------------------------------------------------------
\* Identifiers: no flow gets another's, and the relay's connections keep theirs.
Fewer ==
  \A q \in Ports :
    /\ app'[q].id \in {0, app[q].id}
    /\ app'[q].phase # "closed" => app[q].phase # "closed" /\ Same(q)

\* A connection the relay has, or the one an application now has on the port.
Known(id, p) ==
  \/ \E i \in 1..Len(backlog) : backlog[i].id = id /\ backlog[i].port = p
  \/ \E c \in conns : c.id = id /\ c.port = p
  \/ p \in Ports /\ app[p].id = id /\ id # 0

Inherited ==
  /\ \A i \in 1..Len(backlog') : Known(backlog'[i].id, backlog'[i].port)
  /\ \A c \in conns' : Known(c.id, c.port)

\* Identifiers keep naming their ports when nothing unknown enters the relay.
LEMMA IdsKept ==
  ASSUME RedirectTypeInv, UNCHANGED opens, Fewer, Inherited
  PROVE  IdsAreGiven' /\ IdsNamePorts'
<1>1. IdsAreGiven /\ IdsNamePorts /\ opens \in Nat
  BY TypeParts DEF ThreadsAreKnown
<1>2. \A q \in Ports : app'[q].id \in 0..opens /\ app[q].id \in 0..opens
  BY <1>1 DEF IdsAreGiven, Fewer
<1>3. /\ \A i \in 1..Len(backlog) : backlog[i].id # 0
      /\ \A c \in conns : c.id # 0
  BY Fields, RedirectConstants
<1>4. ASSUME NEW id, NEW q, Known(id, q)
      PROVE  id <= opens /\ \A p \in Ports : app'[p].id = id => q = p
  <2>1. id # 0 /\ id <= opens
    BY <1>1, <1>2, <1>3, <1>4 DEF Known, IdsAreGiven
  <2>2. ASSUME NEW p \in Ports, app'[p].id = id
        PROVE  q = p
    <3>1. app[p].id = id
      BY <2>1, <2>2 DEF Fewer
    <3> QED
      BY <1>1, <1>4, <2>1, <3>1 DEF Known, IdsAreGiven, IdsNamePorts
  <2> QED
    BY <2>1, <2>2
<1>5. IdsAreGiven'
  <2>1. \A p \in Ports : app'[p].phase # "closed" => app'[p].id # 0 /\ app'[p].dst \in Dsts
    BY <1>1 DEF IdsAreGiven, Fewer, Same
  <2>2. \A p, q \in Ports : app'[p].id = app'[q].id /\ app'[p].id # 0 => p = q
    BY <1>1 DEF IdsAreGiven, Fewer
  <2>3. /\ \A i \in 1..Len(backlog') : backlog'[i].id <= opens
        /\ \A c \in conns' : c.id <= opens
    BY <1>4 DEF Inherited
  <2> QED
    BY <1>2, <2>1, <2>2, <2>3 DEF IdsAreGiven
<1>6. IdsNamePorts'
  BY <1>4 DEF Inherited, IdsNamePorts
<1> QED
  BY <1>5, <1>6

\* Nothing in the relay changes.
LEMMA RelayKept ==
  ASSUME RedirectTypeInv, UNCHANGED <<backlog, conns, exiting>>
  PROVE  RelayIsTyped' /\ Inherited
BY TypeParts DEF RelayIsTyped, Inherited, Known

\* The flow of one port goes on, or is gone.
LEMMA FewerThrough ==
  ASSUME RedirectTypeInv, NEW p \in Ports, OthersKept(p),
         (app'[p].phase = "closed" /\ app'[p].id = 0) \/ (app[p].phase # "closed" /\ Same(p))
  PROVE  Fewer
BY DEF Fewer, OthersKept, Same

-----------------------------------------------------------------------------
\* The table's steps.
LEMMA FindFacts ==
  ASSUME NatInv, NEW p \in Ports, NEW t \in TimesRead, Find(p, t)
  PROVE  /\ Used' = Used
         /\ \A i \in Used : /\ slots'[i].port = slots[i].port /\ slots'[i].dst = slots[i].dst
                            /\ slots'[i].closed = slots[i].closed
                            /\ slots[i].port # p => slots'[i] = slots[i]
         /\ \A i \in SlotsOf(p) : ~Expired(slots[i], t) =>
              reply' = slots[i].dst /\ (~slots[i].closed => slots'[i].seen = t)
         /\ reply' # "miss" => \E i \in SlotsOf(p) : reply' = slots[i].dst
<1> USE DEF NatInv
<1>1. \A i, j \in SlotsOf(p) : i = j
  BY DEF SlotsOf, OneMappingPerPort
<1>2. CASE UNCHANGED <<slots, count>> /\ reply' = "miss" /\ \A i \in SlotsOf(p) : Expired(slots[i], t)
  BY <1>2 DEF Used
<1>3. CASE \E i \in SlotsOf(p) :
             /\ ~Expired(slots[i], t) /\ reply' = slots[i].dst
             /\ slots' = IF slots[i].closed THEN slots ELSE [slots EXCEPT ![i].seen = t]
  <2>1. PICK i \in SlotsOf(p) :
             /\ ~Expired(slots[i], t) /\ reply' = slots[i].dst
             /\ slots' = IF slots[i].closed THEN slots ELSE [slots EXCEPT ![i].seen = t]
    BY <1>3
  <2>2. i \in Used /\ i \in Slots /\ slots[i] \in Entries /\ slots[i].port = p
    BY <2>1 DEF SlotsOf, Used, NatTypeOK
  <2>3. t \in Nat
    BY DEF TimesRead, NatTypeOK
  <2>4. CASE slots[i].closed
    BY <1>1, <2>1, <2>2, <2>4 DEF Used
  <2>5. CASE ~slots[i].closed
    <3>1. slots' = [slots EXCEPT ![i].seen = t]
      BY <2>1, <2>5
    <3>2. /\ slots'[i] \in Entries /\ slots'[i].port = slots[i].port /\ slots'[i].dst = slots[i].dst
          /\ slots'[i].closed = slots[i].closed /\ slots'[i].seen = t
      BY <2>2, <2>3, <3>1 DEF NatTypeOK, Entries
    <3>3. \A j \in Slots : j # i => slots'[j] = slots[j]
      BY <3>1 DEF NatTypeOK
    <3>4. Used' = Used
      BY <2>2, <3>2, <3>3, FreeIsNoEntry DEF Used
    <3>5. Used \subseteq Slots
      BY DEF Used
    <3> QED
      BY <1>1, <2>1, <2>2, <3>2, <3>3, <3>4, <3>5
  <2> QED
    BY <2>4, <2>5
<1> QED
  BY <1>2, <1>3 DEF Find

\* The close callback writes nothing but the mapping of its port.
LEMMA MarkClosedFacts ==
  ASSUME NatInv, NEW p \in Ports, MarkClosed(p)
  PROVE  /\ Used' = Used
         /\ \A i \in Used : /\ slots'[i].port = slots[i].port /\ slots'[i].dst = slots[i].dst
                            /\ slots[i].port # p => slots'[i] = slots[i]
<1> USE DEF NatInv
<1>1. \A i \in Slots : slots'[i] = IF i \in SlotsOf(p) THEN [slots[i] EXCEPT !.closed = TRUE]
                                                       ELSE slots[i]
  BY DEF MarkClosed
<1>2. \A i \in SlotsOf(p) : i \in Slots /\ slots[i] \in Entries
  BY DEF SlotsOf, Used, NatTypeOK
<1>3. \A i \in SlotsOf(p) : /\ slots'[i] \in Entries /\ slots'[i].port = slots[i].port
                            /\ slots'[i].dst = slots[i].dst
  BY <1>1, <1>2 DEF Entries
<1>4. Used' = Used
  BY <1>1, <1>2, <1>3, FreeIsNoEntry DEF Used
<1>5. \A i \in Used : i \in Slots /\ (slots[i].port # p => i \notin SlotsOf(p))
  BY DEF Used, SlotsOf
<1> QED
  BY <1>1, <1>3, <1>4, <1>5

\* An add takes no slot of a live mapping of another port, and is refused only for a
\* port that has none.
LEMMA AddFacts ==
  ASSUME NatInv, NEW p \in Ports, NEW d \in Dsts, NEW t \in TimesRead, Add(p, d, t)
  PROVE  /\ reply' = "ok" =>
              \E i \in Slots :
                /\ i \in Used' /\ slots'[i].port = p /\ slots'[i].dst = d /\ ~slots'[i].closed
                /\ slots'[i].seen = t
                /\ \A j \in Used' : j # i => j \in Used /\ slots'[j] = slots[j]
                /\ \A j \in Used : /\ slots[j].port # p /\ ~slots[j].closed /\ ~Expired(slots[j], t)
                                   => j # i /\ j \in Used' /\ slots'[j] = slots[j]
         /\ reply' # "ok" => UNCHANGED slots /\ SlotsOf(p) = {}
<1> USE DEF NatInv
<1>1. p # NoPort
  BY NatAssumption
<1>2. CASE AddSlot(p, t) = {} /\ reply' = "refused" /\ UNCHANGED <<slots, count>>
  BY <1>2 DEF AddSlot
<1>3. CASE \E i \in AddSlot(p, t) :
             /\ slots' = [slots EXCEPT ![i] = Written(p, d, t)]
             /\ reply' = "ok"
  <2>1. PICK i \in AddSlot(p, t) : slots' = [slots EXCEPT ![i] = Written(p, d, t)] /\ reply' = "ok"
    BY <1>3
  <2>2. /\ i \in Slots
        /\ \/ i \in SlotsOf(p) \/ i \notin Used \/ Expired(slots[i], t) \/ slots[i].closed
    BY AddSlotChoice
  <2>3. t \in Nat
    BY DEF TimesRead, NatTypeOK
  <2>4. /\ Written(p, d, t) \in Entries /\ Written(p, d, t).port = p /\ Written(p, d, t).dst = d
        /\ ~Written(p, d, t).closed /\ Written(p, d, t).seen = t
    BY <2>3 DEF Written, Entries
  <2>5. slots'[i] = Written(p, d, t) /\ \A j \in Slots : j # i => slots'[j] = slots[j]
    BY <2>1, <2>2 DEF NatTypeOK
  <2>6. i \in Used' /\ \A j \in Slots : j # i => (j \in Used' <=> j \in Used)
    BY <2>2, <2>4, <2>5, FreeIsNoEntry DEF Used
  <2>7. Used \subseteq Slots /\ Used' \subseteq Slots
    BY DEF Used
  <2>8. \A j \in Used : /\ slots[j].port # p /\ ~slots[j].closed /\ ~Expired(slots[j], t)
                        => j # i
    BY <2>2 DEF SlotsOf
  <2> QED
    BY <2>1, <2>2, <2>4, <2>5, <2>6, <2>7, <2>8
<1> QED
  BY <1>1, <1>2, <1>3 DEF Add, Written

-----------------------------------------------------------------------------
\* The types, action by action.
LEMMA NatKept ==
  ASSUME RedirectTypeInv, UNCHANGED natVars
  PROVE  NatInv'
BY TypeParts, NatInvInductive

\* The application's steps, the verdict and the release of a connect.
LEMMA ConnectKeepsTypes ==
  ASSUME RedirectTypeInv, NEW p \in Ports, NEW d \in Dsts, Connect(p, d)
  PROVE  RedirectTypeInv'
<1> DEFINE f == [phase |-> "asking", id |-> opens + 1, dst |-> d, verdict |-> "undecided", last |-> now]
<1>1. /\ app[p].phase = "closed" /\ opens < MaxOpens /\ opens' = opens + 1
      /\ app' = [app EXCEPT ![p] = f]
      /\ UNCHANGED <<natVars, pump, pending, backlog, acceptor, harvest, conns, exiting>>
  BY DEF Connect, relayVars
<1>2. opens \in Nat /\ opens + 1 \in Ids /\ MaxOpens \in Nat
  BY <1>1, TypeParts, RedirectConstants DEF ThreadsAreKnown, Ids
<1>3. f \in AppFlows /\ f.phase = "asking" /\ f.id = opens + 1 /\ f.dst = d
  BY <1>2, Fields DEF AppFlows, Phases, Verdicts
<1> HIDE DEF f
<1>4. /\ app' \in [Ports -> AppFlows] /\ app'[p] = f
      /\ \A q \in Ports : q # p => app'[q] = app[q]
  BY <1>1, <1>3, TypeParts, FlowChange
<1>5. NatInv' /\ RelayIsTyped' /\ PendingIsTyped' /\ ThreadsAreKnown'
  BY <1>1, <1>2, TypeParts, NatKept, RelayKept DEF PendingIsTyped, ThreadsAreKnown
<1>6. PumpIsBusy'
  BY <1>1, <1>3, <1>4, TypeParts DEF PumpIsBusy
<1>7. IdsAreGiven'
  <2>1. /\ \A q \in Ports : app[q].id \in Nat /\ app[q].id <= opens
        /\ \A i \in 1..Len(backlog) : backlog[i].id \in Nat /\ backlog[i].id <= opens
        /\ \A c \in conns : c.id \in Nat /\ c.id <= opens
    BY TypeParts, Fields, RedirectConstants DEF IdsAreGiven
  <2>2. \A q \in Ports : app'[q].id \in 0..opens'
    BY <1>1, <1>2, <1>3, <1>4, <2>1
  <2>3. \A q \in Ports : app'[q].phase # "closed" => app'[q].id # 0 /\ app'[q].dst \in Dsts
    BY <1>2, <1>3, <1>4, TypeParts, RedirectConstants DEF IdsAreGiven
  <2>4. \A q, r \in Ports : app'[q].id = app'[r].id /\ app'[q].id # 0 => q = r
    <3>1. \A q \in Ports : q # p => app'[q].id # app'[p].id
      BY <1>2, <1>3, <1>4, <2>1
    <3> QED
      BY <1>4, <3>1, TypeParts DEF IdsAreGiven
  <2>5. /\ \A i \in 1..Len(backlog') : backlog'[i].id <= opens'
        /\ \A c \in conns' : c.id <= opens'
    BY <1>1, <1>2, <2>1
  <2> QED
    BY <2>2, <2>3, <2>4, <2>5 DEF IdsAreGiven
<1>8. IdsNamePorts'
  <2>1. /\ \A i \in 1..Len(backlog) : backlog[i].id # f.id
        /\ \A c \in conns : c.id # f.id
    BY <1>2, <1>3, TypeParts, Fields, RedirectConstants DEF IdsAreGiven
  <2> QED
    BY <1>1, <1>4, <2>1, TypeParts DEF IdsNamePorts
<1> QED
  BY <1>4, <1>5, <1>6, <1>7, <1>8, TypePartsNext

\* What a step of an application or of the pump leaves as it is.
LEMMA AppStepKeepsTypes ==
  ASSUME RedirectTypeInv, app' \in [Ports -> AppFlows], Fewer, PumpIsBusy',
         UNCHANGED <<opens, backlog, acceptor, conns, exiting>>, NatInv', PendingIsTyped',
         pump' \in [pc: {"idle", "register", "add", "release"}, port: Ports \cup {NoPort}],
         pump'.pc # "idle" => pump'.port \in Ports
  PROVE  RedirectTypeInv'
<1>1. RelayIsTyped' /\ Inherited
  BY RelayKept
<1>2. IdsAreGiven' /\ IdsNamePorts'
  BY <1>1, IdsKept
<1>3. ThreadsAreKnown'
  BY TypeParts DEF ThreadsAreKnown
<1> QED
  BY <1>1, <1>2, <1>3, TypePartsNext

\* An idle pump is a pump.
LEMMA IdlingIsKnown ==
  /\ Idling \in [pc: {"idle", "register", "add", "release"}, port: Ports \cup {NoPort}]
  /\ Idling.pc = "idle"
BY DEF Idling

\* The pump as it is known.
LEMMA PumpFacts ==
  ASSUME RedirectTypeInv
  PROVE  /\ pump \in [pc: {"idle", "register", "add", "release"}, port: Ports \cup {NoPort}]
         /\ pump.pc # "idle" => pump.port \in Ports /\ app[pump.port].phase = "deciding"
         /\ \A p \in Ports : app[p].phase = "deciding" => pump.pc # "idle" /\ pump.port = p
         /\ \A pc \in {"register", "add", "release"} :
              /\ [pump EXCEPT !.pc = pc] \in [pc: {"idle", "register", "add", "release"},
                                              port: Ports \cup {NoPort}]
              /\ [pump EXCEPT !.pc = pc].pc = pc /\ [pump EXCEPT !.pc = pc].port = pump.port
BY TypeParts DEF ThreadsAreKnown, PumpIsBusy

\* An application closes.
LEMMA AppClosesKeepsTypes ==
  ASSUME RedirectTypeInv, NEW p \in Ports, AppCloses(p)
  PROVE  RedirectTypeInv'
<1>1. /\ app[p].phase \in {"syn", "up", "direct"} /\ app' = [app EXCEPT ![p] = NoFlow]
      /\ UNCHANGED <<natVars, opens, pump, pending, backlog, acceptor, harvest, conns, exiting>>
  BY DEF AppCloses, relayVars
<1>2. /\ app' \in [Ports -> AppFlows] /\ OthersKept(p)
      /\ app'[p].phase = "closed" /\ app'[p].id = 0
  BY <1>1, TypeParts, NoFlowFacts
<1>3. Fewer
  BY <1>2, FewerThrough
<1>4. PumpIsBusy' /\ PendingIsTyped' /\ NatInv'
  <2>1. PumpIsBusy'
    BY <1>1, <1>2, TypeParts DEF PumpIsBusy, OthersKept
  <2> QED
    BY <1>1, <2>1, TypeParts, NatKept DEF PendingIsTyped
<1> QED
  BY <1>1, <1>2, <1>3, <1>4, PumpFacts, AppStepKeepsTypes

\* A verdict, and what it may change.
LEMMA DecideFacts ==
  ASSUME RedirectTypeInv, NEW p \in Ports, Decide(p)
  PROVE  /\ pump.pc = "idle" /\ app[p].phase = "asking"
         /\ UNCHANGED <<natVars, opens, pending, backlog, acceptor, harvest, conns, exiting>>
         /\ app' \in [Ports -> AppFlows] /\ OthersKept(p)
         /\ \/ UNCHANGED pump /\ app'[p].phase = "closed" /\ app'[p].id = 0
            \/ UNCHANGED pump /\ app'[p].phase = "syn" /\ app'[p].verdict # "proxy" /\ Same(p)
            \/ /\ pump'.pc = "register" /\ pump'.port = p
               /\ pump' \in [pc: {"idle", "register", "add", "release"}, port: Ports \cup {NoPort}]
               /\ app'[p].phase = "deciding" /\ Same(p)
<1>1. /\ pump.pc = "idle" /\ app[p].phase = "asking"
      /\ UNCHANGED <<natVars, opens, pending, backlog, acceptor, harvest, conns, exiting>>
  BY DEF Decide, relayVars
<1>2. CASE Let(p, "direct") /\ UNCHANGED pump
  BY <1>1, <1>2, LetFacts DEF Verdicts
<1>3. CASE Drop1(p) /\ UNCHANGED pump
  BY <1>1, <1>3, TypeParts, NoFlowFacts DEF Drop1
<1>4. CASE CannotProxy(p) /\ UNCHANGED pump
  BY <1>1, <1>4, CannotProxyFacts
<1>5. CASE app' = [app EXCEPT ![p].phase = "deciding"] /\ pump' = [pc |-> "register", port |-> p]
  <2> DEFINE f == [app[p] EXCEPT !.phase = "deciding"]
  <2>1. app' = [app EXCEPT ![p] = f] /\ app \in [Ports -> AppFlows]
    BY <1>5, TypeParts
  <2>2. /\ f \in AppFlows /\ f.phase = "deciding" /\ f.id = app[p].id /\ f.dst = app[p].dst
    BY <2>1 DEF AppFlows, Phases
  <2> HIDE DEF f
  <2>3. app' \in [Ports -> AppFlows] /\ app'[p] = f /\ OthersKept(p)
    BY <2>1, <2>2, FlowChange DEF OthersKept
  <2> QED
    BY <1>1, <1>5, <2>2, <2>3 DEF Same
<1> QED
  BY <1>2, <1>3, <1>4, <1>5 DEF Decide

\* A verdict is given.
LEMMA DecideKeepsTypes ==
  ASSUME RedirectTypeInv, NEW p \in Ports, Decide(p)
  PROVE  RedirectTypeInv'
<1>1. Fewer
  BY DecideFacts, FewerThrough
<1>2. PumpIsBusy'
  BY DecideFacts, TypeParts DEF PumpIsBusy, OthersKept
<1>3. PendingIsTyped' /\ NatInv'
  BY DecideFacts, TypeParts, NatKept DEF PendingIsTyped
<1> QED
  BY <1>1, <1>2, <1>3, DecideFacts, PumpFacts, AppStepKeepsTypes

\* The release of a SYN, and what it may change.
LEMMA ReleaseFacts ==
  ASSUME RedirectTypeInv, Release
  PROVE  /\ pump.pc = "release" /\ pump' = Idling /\ pump.port \in Ports
         /\ UNCHANGED <<natVars, opens, pending, backlog, acceptor, harvest, conns, exiting>>
         /\ app' \in [Ports -> AppFlows] /\ OthersKept(pump.port) /\ Same(pump.port)
         /\ app[pump.port].phase = "deciding" /\ app'[pump.port].phase = "syn"
         /\ app'[pump.port].verdict = "proxy" /\ app'[pump.port].last = app[pump.port].last
<1>1. /\ pump.pc = "release" /\ pump' = Idling /\ Let(pump.port, "proxy")
      /\ UNCHANGED <<natVars, opens, pending, backlog, acceptor, harvest, conns, exiting>>
  BY DEF Release, relayVars
<1> QED
  BY <1>1, PumpFacts, LetFacts DEF Verdicts

\* A SYN is released.
LEMMA ReleaseKeepsTypes ==
  ASSUME RedirectTypeInv, Release
  PROVE  RedirectTypeInv'
<1>1. Fewer
  BY ReleaseFacts, FewerThrough
<1>2. PumpIsBusy'
  BY ReleaseFacts, IdlingIsKnown, TypeParts DEF PumpIsBusy, OthersKept
<1>3. PendingIsTyped' /\ NatInv'
  BY ReleaseFacts, TypeParts, NatKept DEF PendingIsTyped
<1> QED
  BY <1>1, <1>2, <1>3, ReleaseFacts, IdlingIsKnown, AppStepKeepsTypes

\* Registrations that are dropped keep the rest as it is.
LEMMA FewerPending ==
  ASSUME RedirectTypeInv, NEW S \in SUBSET pending
  PROVE  /\ IsFiniteSet(S) /\ Cardinality(S) \in Nat /\ Cardinality(S) <= Cardinality(pending)
         /\ pending' = S => PendingIsTyped'
<1>1. PendingIsTyped
  BY TypeParts
<1>2. IsFiniteSet(S) /\ Cardinality(S) \in Nat /\ Cardinality(S) <= Cardinality(pending)
      /\ Cardinality(pending) \in Nat
  BY <1>1, FS_Subset, FS_CardinalityType DEF PendingIsTyped
<1>3. ASSUME pending' = S
      PROVE  PendingIsTyped'
  <2>1. Cardinality(S) <= MaxPending
    BY <1>1, <1>2, RedirectConstants DEF PendingIsTyped
  <2> QED
    BY <1>1, <1>2, <1>3, <2>1 DEF PendingIsTyped
<1> QED
  BY <1>2, <1>3

\* One more element makes a set at most one larger.
LEMMA OneMore ==
  ASSUME NEW S, IsFiniteSet(S), NEW x
  PROVE  /\ IsFiniteSet(S \cup {x}) /\ Cardinality(S \cup {x}) \in Nat
         /\ Cardinality(S \cup {x}) <= Cardinality(S) + 1
<1> DEFINE n == Cardinality(S)
           m == Cardinality(S \cup {x})
<1>1. IsFiniteSet(S \cup {x}) /\ m = IF x \in S THEN n ELSE n + 1
  BY FS_AddElement
<1>2. n \in Nat /\ m \in Nat
  BY <1>1, FS_CardinalityType
<1> HIDE DEF n, m
<1>3. m <= n + 1
  BY <1>1, <1>2
<1> QED
  BY <1>1, <1>2, <1>3 DEF n, m

\* A registration replaces the port's own, or takes a place that is free.
LEMMA RegistrationFits ==
  ASSUME RedirectTypeInv, NEW p \in Ports, NEW e \in Recorded, e.port = p,
         NEW mine, mine = {f \in Unexpired : f.port = p},
         mine # {} \/ Cardinality(Unexpired) < MaxPending,
         pending' = (Unexpired \ mine) \cup {e}
  PROVE  PendingIsTyped'
<1> DEFINE S == Unexpired \ mine
<1>1. Unexpired \in SUBSET pending /\ S \in SUBSET pending /\ PendingIsTyped
  BY TypeParts DEF Unexpired
<1>2. IsFiniteSet(pending) /\ IsFiniteSet(S) /\ IsFiniteSet(Unexpired)
      /\ Cardinality(S) \in Nat /\ Cardinality(pending) \in Nat /\ Cardinality(Unexpired) \in Nat
      /\ Cardinality(S) <= Cardinality(Unexpired)
  <2>1. S \subseteq Unexpired
    OBVIOUS
  <2> QED
    BY <1>1, <2>1, FewerPending, FS_Subset, FS_CardinalityType DEF PendingIsTyped
<1>3. IsFiniteSet(S \cup {e}) /\ Cardinality(S \cup {e}) <= Cardinality(S) + 1
  BY <1>2, OneMore
<1>4. Cardinality(S) + 1 <= MaxPending
  <2>1. CASE mine # {}
    <3>1. PICK m \in mine : m \in pending
      BY <1>1, <2>1
    <3>2. S \subseteq pending \ {m}
      BY <1>1, <3>1
    <3>3. IsFiniteSet(pending \ {m}) /\ Cardinality(pending \ {m}) = Cardinality(pending) - 1
      BY <1>2, <3>1, FS_RemoveElement
    <3>4. Cardinality(S) <= Cardinality(pending \ {m})
      BY <3>2, <3>3, FS_Subset
    <3> QED
      BY <1>1, <1>2, <3>3, <3>4, RedirectConstants DEF PendingIsTyped
  <2>2. CASE Cardinality(Unexpired) < MaxPending
    BY <1>2, <2>2, RedirectConstants
  <2> QED
    BY <2>1, <2>2
<1>5. \A f \in S : f \in pending /\ f.port # p
  BY <1>1
<1>6. Cardinality(S \cup {e}) <= MaxPending
  <2>1. Cardinality(S \cup {e}) \in Nat
    BY <1>3, FS_CardinalityType
  <2> QED
    BY <1>2, <1>3, <1>4, <2>1, RedirectConstants
<1> HIDE DEF S
<1>7. pending' = S \cup {e}
  BY DEF S
<1>8. \A f, g \in S \cup {e} : f.port = g.port => f = g
  BY <1>1, <1>5 DEF PendingIsTyped
<1>9. S \cup {e} \subseteq Recorded
  BY <1>1, <1>5 DEF PendingIsTyped
<1> QED
  BY <1>3, <1>6, <1>7, <1>8, <1>9 DEF PendingIsTyped

\* A registration with the relay: kept with the flow's destination, or refused.
LEMMA RegisterFacts ==
  ASSUME RedirectTypeInv, Register
  PROVE  LET p == pump.port IN
         /\ pump.pc = "register" /\ p \in Ports /\ app[p].phase = "deciding"
         /\ UNCHANGED <<natVars, opens, backlog, acceptor, harvest, conns, exiting>>
         /\ app' \in [Ports -> AppFlows] /\ OthersKept(p) /\ PendingIsTyped'
         /\ \A e \in pending : e.port # p /\ e \notin pending' => now - e.added >= PendingTTL
         /\ \A e \in pending' : e.port # p => e \in pending
         /\ \/ /\ pump'.pc = "add" /\ pump'.port = p
               /\ pump' \in [pc: {"idle", "register", "add", "release"}, port: Ports \cup {NoPort}]
               /\ Same(p) /\ app'[p].phase = "deciding" /\ app'[p].last = now
               /\ \E e \in pending' : e.port = p /\ e.dst = app[p].dst /\ e.added = now
               /\ \A e \in pending' : e.port = p => e.dst = app[p].dst
            \/ /\ pump' = Idling /\ pending' \subseteq pending
               /\ \/ app'[p].phase = "closed" /\ app'[p].id = 0
                  \/ app'[p].phase = "syn" /\ app'[p].verdict = "leaky" /\ Same(p)
<1> DEFINE p == pump.port
           mine == {e \in Unexpired : e.port = p}
           new == [port |-> p, dst |-> app[p].dst, added |-> now]
<1>1. /\ pump.pc = "register"
      /\ UNCHANGED <<natVars, opens, backlog, acceptor, harvest, conns, exiting>>
  BY DEF Register
<1>2. p \in Ports /\ app[p].phase = "deciding" /\ app \in [Ports -> AppFlows]
  BY <1>1, PumpFacts, TypeParts
<1>3. app[p].dst \in Dsts /\ now \in Nat
  BY <1>2, TypeParts, Fields DEF IdsAreGiven
<1>4. new \in Recorded /\ new.port = p /\ new.dst = app[p].dst /\ new.added = now
  BY <1>2, <1>3 DEF Recorded
<1>5. Unexpired \subseteq pending /\ \A e \in pending : e \notin Unexpired => now - e.added >= PendingTTL
  BY <1>3, Fields, RedirectConstants DEF Unexpired
<1>6. CASE /\ mine # {} \/ Cardinality(Unexpired) < MaxPending
           /\ pending' = (Unexpired \ mine) \cup {new}
           /\ pump' = [pump EXCEPT !.pc = "add"] /\ app' = [app EXCEPT ![p].last = now]
  <2> DEFINE f == [app[p] EXCEPT !.last = now]
  <2>1. app' = [app EXCEPT ![p] = f]
    BY <1>6
  <2>2. /\ f \in AppFlows /\ f.phase = "deciding" /\ f.id = app[p].id /\ f.dst = app[p].dst
        /\ f.last = now
    BY <1>2, <1>3 DEF AppFlows
  <2> HIDE DEF f
  <2>3. app' \in [Ports -> AppFlows] /\ app'[p] = f /\ OthersKept(p)
    BY <1>2, <2>1, <2>2, FlowChange DEF OthersKept
  <2>4. PendingIsTyped'
    BY <1>2, <1>4, <1>6, RegistrationFits
  <2>5. /\ pump'.pc = "add" /\ pump'.port = p
        /\ pump' \in [pc: {"idle", "register", "add", "release"}, port: Ports \cup {NoPort}]
    BY <1>6, PumpFacts
  <2> HIDE DEF new
  <2>6. /\ \A e \in pending' : e = new \/ (e \in pending /\ e.port # p)
        /\ \A e \in pending : e \in pending' \/ e.port = p \/ e \notin Unexpired
        /\ new \in pending'
    BY <1>5, <1>6
  <2> QED
    BY <1>1, <1>2, <1>4, <1>5, <2>2, <2>3, <2>4, <2>5, <2>6 DEF Same
<1>7. CASE pending' = Unexpired /\ pump' = Idling /\ CannotProxy(p)
  <2>1. PendingIsTyped'
    BY <1>5, <1>7, FewerPending
  <2> QED
    BY <1>1, <1>2, <1>5, <1>7, <2>1, CannotProxyFacts
<1> QED
  BY <1>6, <1>7 DEF Register

\* A registration is made or refused.
LEMMA RegisterKeepsTypes ==
  ASSUME RedirectTypeInv, Register
  PROVE  RedirectTypeInv'
<1>1. Fewer
  BY RegisterFacts, FewerThrough
<1>2. PumpIsBusy'
  BY RegisterFacts, IdlingIsKnown, TypeParts DEF PumpIsBusy, OthersKept
<1>3. NatInv'
  BY RegisterFacts, NatKept
<1> QED
  BY <1>1, <1>2, <1>3, RegisterFacts, IdlingIsKnown, AppStepKeepsTypes

\* An add to the table: answered, or refused and the flow with it.
LEMMA AddMappingFacts ==
  ASSUME RedirectTypeInv, NEW t \in TimesRead, AddMapping(t)
  PROVE  LET p == pump.port IN
         /\ pump.pc = "add" /\ p \in Ports /\ app[p].phase = "deciding" /\ app[p].dst \in Dsts
         /\ t >= app[p].last /\ Add(p, app[p].dst, t)
         /\ UNCHANGED <<now, opens, pending, backlog, acceptor, harvest, conns, exiting>>
         /\ app' \in [Ports -> AppFlows] /\ OthersKept(p) /\ NatInv'
         /\ \/ /\ reply' = "ok" /\ UNCHANGED app
               /\ pump'.pc = "release" /\ pump'.port = p
               /\ pump' \in [pc: {"idle", "register", "add", "release"}, port: Ports \cup {NoPort}]
            \/ /\ reply' # "ok" /\ pump' = Idling
               /\ \/ app'[p].phase = "closed" /\ app'[p].id = 0
                  \/ app'[p].phase = "syn" /\ app'[p].verdict = "leaky" /\ Same(p)
<1> DEFINE p == pump.port
<1>1. /\ pump.pc = "add" /\ t >= app[p].last /\ Add(p, app[p].dst, t)
      /\ UNCHANGED <<now, opens, pending, backlog, acceptor, harvest, conns, exiting>>
  BY DEF AddMapping, relayVars
<1>2. p \in Ports /\ app[p].phase = "deciding" /\ app \in [Ports -> AppFlows] /\ app[p].dst \in Dsts
  BY <1>1, PumpFacts, TypeParts DEF IdsAreGiven
<1>3. NatInv'
  BY <1>1, <1>2, TypeParts, AddPreservesInv
<1>4. CASE reply' = "ok"
  <2>1. UNCHANGED app /\ pump' = [pump EXCEPT !.pc = "release"]
    BY <1>4 DEF AddMapping
  <2> QED
    BY <1>1, <1>2, <1>3, <1>4, <2>1, PumpFacts DEF OthersKept
<1>5. CASE reply' # "ok"
  <2>1. pump' = Idling /\ CannotProxy(p)
    BY <1>5 DEF AddMapping
  <2> QED
    BY <1>1, <1>2, <1>3, <1>5, <2>1, CannotProxyFacts
<1> QED
  BY <1>4, <1>5

\* A mapping is added or refused.
LEMMA AddMappingKeepsTypes ==
  ASSUME RedirectTypeInv, NEW t \in TimesRead, AddMapping(t)
  PROVE  RedirectTypeInv'
<1>1. Fewer
  BY AddMappingFacts, FewerThrough DEF Fewer, Same
<1>2. PumpIsBusy'
  BY AddMappingFacts, IdlingIsKnown, TypeParts DEF PumpIsBusy, OthersKept
<1>3. PendingIsTyped'
  BY AddMappingFacts, TypeParts DEF PendingIsTyped
<1> QED
  BY <1>1, <1>2, <1>3, AddMappingFacts, IdlingIsKnown, AppStepKeepsTypes

\* The fields of what arrives at the relay.
LEMMA ArrivingFacts ==
  ASSUME RedirectTypeInv, NEW p \in Ports, app[p].phase \in {"syn", "up", "direct"}
  PROVE  /\ Arriving(p) \in Waiting /\ Arriving(p).id = app[p].id /\ Arriving(p).id # 0
         /\ Arriving(p).port = p /\ Arriving(p).dst = app[p].dst
         /\ Arriving(p).verdict = app[p].verdict /\ Arriving(p).since = app[p].last
BY TypeParts, Fields DEF Arriving, Waiting, IdsAreGiven

\* A packet of an application, and what it may change.
LEMMA AppSendsFacts ==
  ASSUME RedirectTypeInv, NEW p \in Ports, NEW t \in TimesRead, AppSends(p, t)
  PROVE  /\ app[p].phase \in {"syn", "up", "direct"} /\ Find(p, t)
         /\ UNCHANGED <<now, opens, pump, pending, acceptor, harvest, conns, exiting>>
         /\ app' \in [Ports -> AppFlows] /\ OthersKept(p) /\ Same(p)
         /\ app'[p].verdict = app[p].verdict /\ app'[p].last = Passed(app[p], t)
         /\ \/ /\ app[p].phase = "syn" /\ reply' = app[p].dst /\ app'[p].phase = "up"
               /\ backlog' = Append(backlog, Arriving(p))
            \/ app[p].phase = "syn" /\ app'[p].phase = "direct" /\ UNCHANGED backlog
            \/ app[p].phase # "syn" /\ app'[p].phase = app[p].phase /\ UNCHANGED backlog
<1> DEFINE f(phase) == [app[p] EXCEPT !.phase = phase, !.last = Passed(app[p], t)]
           b == Arriving(p)
<1>1. /\ app[p].phase \in {"syn", "up", "direct"} /\ Find(p, t)
      /\ UNCHANGED <<now, opens, pump, pending, acceptor, harvest, conns, exiting>>
  BY DEF AppSends
<1>2. app \in [Ports -> AppFlows] /\ app[p] \in AppFlows /\ Passed(app[p], t) \in Nat
  BY TypeParts, Fields, PassedIsTime
<1>3. ASSUME NEW phase \in Phases
      PROVE  /\ f(phase) \in AppFlows /\ f(phase).phase = phase /\ f(phase).id = app[p].id
             /\ f(phase).dst = app[p].dst /\ f(phase).verdict = app[p].verdict
             /\ f(phase).last = Passed(app[p], t)
  BY <1>2 DEF AppFlows
<1>4. \/ app[p].phase = "syn" /\ reply' = app[p].dst /\ app' = [app EXCEPT ![p] = f("up")]
         /\ backlog' = Append(backlog, b)
      \/ app[p].phase = "syn" /\ app' = [app EXCEPT ![p] = f("direct")] /\ UNCHANGED backlog
      \/ app[p].phase # "syn" /\ app' = [app EXCEPT ![p] = f(app[p].phase)] /\ UNCHANGED backlog
  <2>1. CASE app[p].phase = "syn" /\ Rewritten(p)
             /\ app' = [app EXCEPT ![p].phase = "up", ![p].last = Passed(app[p], t)]
             /\ backlog' = Append(backlog, b)
    BY <1>2, <2>1 DEF Rewritten
  <2>2. CASE app[p].phase = "syn" /\ ~Rewritten(p)
             /\ app' = [app EXCEPT ![p].phase = "direct", ![p].last = Passed(app[p], t)]
             /\ UNCHANGED backlog
    BY <1>2, <2>2
  <2>3. CASE app[p].phase # "syn" /\ app' = [app EXCEPT ![p].last = Passed(app[p], t)]
             /\ UNCHANGED backlog
    <3>1. f(app[p].phase) = [app[p] EXCEPT !.last = Passed(app[p], t)]
      BY <1>2 DEF AppFlows
    <3> QED
      BY <1>2, <2>3, <3>1
  <2> QED
    BY <2>1, <2>2, <2>3 DEF AppSends
<1>5. "up" \in Phases /\ "direct" \in Phases /\ app[p].phase \in Phases
  BY Fields DEF Phases
<1>6. ASSUME NEW phase \in Phases, app' = [app EXCEPT ![p] = f(phase)]
      PROVE  /\ app' \in [Ports -> AppFlows] /\ OthersKept(p) /\ Same(p)
             /\ app'[p].verdict = app[p].verdict /\ app'[p].last = Passed(app[p], t)
             /\ app'[p].phase = phase
  <2> DEFINE g == f(phase)
  <2>1. app' = [app EXCEPT ![p] = g]
    BY <1>6
  <2>2. g \in AppFlows
    BY <1>3
  <2>3. /\ g.phase = phase /\ g.id = app[p].id /\ g.dst = app[p].dst
        /\ g.verdict = app[p].verdict /\ g.last = Passed(app[p], t)
    BY <1>3
  <2> HIDE DEF g
  <2> QED
    BY <1>2, <2>1, <2>2, <2>3, FlowChange DEF OthersKept, Same
<1> HIDE DEF f
<1> QED
  BY <1>1, <1>4, <1>5, <1>6

\* The backlog grows at its end.
LEMMA BacklogGrows ==
  ASSUME backlog \in Seq(Waiting), NEW b \in Waiting, backlog' = Append(backlog, b)
  PROVE  /\ backlog' \in Seq(Waiting) /\ Len(backlog') = Len(backlog) + 1 /\ Len(backlog) \in Nat
         /\ \A i \in 1..Len(backlog) : i \in 1..Len(backlog') /\ backlog'[i] = backlog[i]
         /\ \A i \in 1..Len(backlog') : (i = Len(backlog) + 1 /\ backlog'[i] = b)
                                        \/ (i \in 1..Len(backlog) /\ backlog'[i] = backlog[i])
         /\ Len(backlog) + 1 \in 1..Len(backlog')
OBVIOUS

\* An application sends.
LEMMA AppSendsKeepsTypes ==
  ASSUME RedirectTypeInv, NEW p \in Ports, NEW t \in TimesRead, AppSends(p, t)
  PROVE  RedirectTypeInv'
<1> DEFINE b == Arriving(p)
<1>1. /\ app[p].phase \in {"syn", "up", "direct"} /\ app'[p].phase # "deciding"
      /\ UNCHANGED <<opens, pump, pending, acceptor, conns, exiting>>
      /\ app' \in [Ports -> AppFlows] /\ OthersKept(p) /\ Same(p)
      /\ (UNCHANGED backlog) \/ backlog' = Append(backlog, b)
  BY AppSendsFacts
<1>2. Fewer
  BY <1>1, FewerThrough
<1>3. PumpIsBusy'
  BY <1>1, TypeParts DEF PumpIsBusy, OthersKept
<1>4. NatInv'
  BY AppSendsFacts, TypeParts, FindPreservesInv
<1>5. PendingIsTyped' /\ ThreadsAreKnown'
  <2>1. backlog # <<>> => backlog' # <<>>
    <3>1. backlog \in Seq(Waiting)
      BY TypeParts DEF RelayIsTyped
    <3> QED
      BY <1>1, <3>1
  <2> QED
    BY <1>1, <2>1, TypeParts DEF PendingIsTyped, ThreadsAreKnown
<1>6. b \in Waiting /\ b.id = app[p].id /\ b.id # 0 /\ b.port = p
  BY <1>1, ArrivingFacts
<1> HIDE DEF b
<1>7. RelayIsTyped' /\ Inherited
  <2>1. CASE UNCHANGED backlog
    BY <1>1, <2>1, RelayKept
  <2>2. CASE backlog' = Append(backlog, b)
    <3>1. RelayIsTyped
      BY TypeParts
    <3>2. RelayIsTyped'
      BY <1>1, <1>6, <2>2, <3>1, BacklogGrows DEF RelayIsTyped
    <3>3. \A i \in 1..Len(backlog') : backlog'[i] = b \/ (i \in 1..Len(backlog) /\ backlog'[i] = backlog[i])
      BY <1>6, <2>2, <3>1, BacklogGrows DEF RelayIsTyped
    <3> QED
      BY <1>1, <1>6, <3>2, <3>3 DEF Inherited, Known
  <2> QED
    BY <1>1, <2>1, <2>2
<1> QED
  BY <1>1, <1>2, <1>3, <1>4, <1>5, <1>7, IdsKept, TypePartsNext

\* A reply of the relay, and what it may change.
LEMMA RelaySendsFacts ==
  ASSUME RedirectTypeInv, NEW c \in conns, NEW t \in TimesRead, RelaySends(c, t)
  PROVE  /\ ~c.done /\ c.port \in Ports /\ Find(c.port, t)
         /\ UNCHANGED <<now, opens, pump, pending, backlog, acceptor, harvest, conns, exiting>>
         /\ app' \in [Ports -> AppFlows] /\ OthersKept(c.port) /\ Same(c.port)
         /\ app'[c.port].verdict = app[c.port].verdict /\ app'[c.port].phase = app[c.port].phase
         /\ \/ app'[c.port].last = app[c.port].last /\ app[c.port].id # c.id
            \/ app'[c.port].last = Passed(app[c.port], t) /\ app[c.port].id = c.id
<1> DEFINE p == c.port
           f == [app[p] EXCEPT !.last = Passed(app[p], t)]
<1>1. /\ ~c.done /\ Find(p, t)
      /\ UNCHANGED <<now, opens, pump, pending, backlog, acceptor, harvest, conns, exiting>>
      /\ app' = IF app[p].id = c.id THEN [app EXCEPT ![p] = f] ELSE app
  BY DEF RelaySends, relayVars
<1>2. p \in Ports /\ app \in [Ports -> AppFlows]
  BY Fields, TypeParts
<1>3. app[p] \in AppFlows /\ Passed(app[p], t) \in Nat
  BY <1>2, Fields, PassedIsTime
<1>4. /\ f \in AppFlows /\ f.phase = app[p].phase /\ f.id = app[p].id /\ f.dst = app[p].dst
      /\ f.verdict = app[p].verdict /\ f.last = Passed(app[p], t)
  BY <1>3 DEF AppFlows
<1> HIDE DEF f
<1>5. CASE app[p].id = c.id
  BY <1>1, <1>2, <1>4, <1>5, FlowChange DEF OthersKept, Same
<1>6. CASE app[p].id # c.id
  BY <1>1, <1>2, <1>6 DEF OthersKept, Same
<1> QED
  BY <1>5, <1>6

\* The relay sends.
LEMMA RelaySendsKeepsTypes ==
  ASSUME RedirectTypeInv, NEW c \in conns, NEW t \in TimesRead, RelaySends(c, t)
  PROVE  RedirectTypeInv'
<1>1. c.port \in Ports /\ OthersKept(c.port) /\ Same(c.port) /\ app'[c.port].phase = app[c.port].phase
  BY RelaySendsFacts
<1>2. Fewer
  BY <1>1 DEF Fewer, OthersKept, Same
<1>3. PumpIsBusy'
  BY <1>1, RelaySendsFacts, TypeParts DEF PumpIsBusy, OthersKept
<1>4. NatInv'
  BY RelaySendsFacts, TypeParts, FindPreservesInv
<1>5. PendingIsTyped'
  BY RelaySendsFacts, TypeParts DEF PendingIsTyped
<1> QED
  BY <1>2, <1>3, <1>4, <1>5, RelaySendsFacts, PumpFacts, AppStepKeepsTypes

-----------------------------------------------------------------------------
\* The relay's steps.
LEMMA ReapFacts ==
  ASSUME Reap
  PROVE  /\ conns' = {c \in conns : ~c.done} /\ acceptor' = "joining" /\ backlog # <<>>
         /\ UNCHANGED <<natVars, app, opens, pump, pending, backlog, exiting>>
BY DEF Reap, appVars

\* relay_take, on a backlog that reap found filled.
LEMMA TakeFacts ==
  ASSUME RedirectTypeInv, Take
  PROVE  LET b == Head(backlog)
             mine == {e \in Unexpired : e.port = b.port}
         IN /\ backlog # <<>> /\ backlog' = Tail(backlog) /\ acceptor' = "idle"
            /\ pending' = Unexpired \ mine
            /\ UNCHANGED <<natVars, app, opens, pump, exiting>>
            /\ \/ UNCHANGED conns
               \/ /\ Cardinality(conns) < MaxConns
                  /\ \E e \in mine, done \in BOOLEAN :
                       conns' = conns \cup {[id |-> b.id, port |-> b.port, dst |-> e.dst,
                                             client |-> b.dst, done |-> done]}
BY TypeParts DEF Take, appVars, ThreadsAreKnown

\* The backlog shrinks at its front.
LEMMA BacklogShrinks ==
  ASSUME backlog \in Seq(Waiting), backlog # <<>>, backlog' = Tail(backlog)
  PROVE  /\ backlog' \in Seq(Waiting) /\ Len(backlog') = Len(backlog) - 1
         /\ Len(backlog) \in Nat \ {0} /\ Head(backlog) = backlog[1]
         /\ \A i \in 1..Len(backlog') : i + 1 \in 1..Len(backlog) /\ backlog'[i] = backlog[i + 1]
         /\ 1 \in 1..Len(backlog)
<1>1. Len(backlog) \in Nat \ {0} /\ Head(backlog) = backlog[1] /\ Head(backlog) \in Waiting
  OBVIOUS
<1>2. backlog' \in Seq(Waiting) /\ Len(backlog') = Len(backlog) - 1
  OBVIOUS
<1>3. \A i \in 1..Len(backlog') : i + 1 \in 1..Len(backlog) /\ backlog'[i] = backlog[i + 1]
  BY <1>1, <1>2
<1> QED
  BY <1>1, <1>2, <1>3

\* A step of the relay leaves the application and the pump as they are.
LEMMA RelayStepKeepsTypes ==
  ASSUME RedirectTypeInv, UNCHANGED <<app, opens, pump>>, NatInv', PendingIsTyped',
         RelayIsTyped', Inherited, acceptor' \in {"idle", "joining"},
         acceptor' = "joining" => backlog' # <<>>
  PROVE  RedirectTypeInv'
<1>1. Fewer
  BY Fields DEF Fewer, Same
<1>2. PumpIsBusy' /\ ThreadsAreKnown' /\ app' \in [Ports -> AppFlows]
  BY TypeParts DEF PumpIsBusy, ThreadsAreKnown
<1> QED
  BY <1>1, <1>2, IdsKept, TypePartsNext

\* Finished connections leave the table.
LEMMA ReapKeepsTypes ==
  ASSUME RedirectTypeInv, Reap
  PROVE  RedirectTypeInv'
<1>1. NatInv' /\ PendingIsTyped'
  BY ReapFacts, NatKept, TypeParts DEF PendingIsTyped
<1>2. Inherited
  BY ReapFacts DEF Inherited, Known
<1>3. conns' \subseteq conns /\ RelayIsTyped
  BY ReapFacts, TypeParts
<1>4. /\ IsFiniteSet(conns') /\ Cardinality(conns') <= Cardinality(conns)
      /\ Cardinality(conns') \in Nat /\ Cardinality(conns) \in Nat
  BY <1>3, FS_Subset, FS_CardinalityType DEF RelayIsTyped
<1>5. Cardinality(conns') <= MaxConns
  BY <1>3, <1>4, RedirectConstants DEF RelayIsTyped
<1>6. RelayIsTyped'
  BY <1>3, <1>4, <1>5, ReapFacts DEF RelayIsTyped
<1> QED
  BY <1>1, <1>2, <1>6, ReapFacts, RelayStepKeepsTypes

\* A connection is taken, with or without a worker: the table keeps its size.
LEMMA TakeKeepsTypes ==
  ASSUME RedirectTypeInv, Take
  PROVE  RedirectTypeInv'
<1> DEFINE b == Head(backlog)
           mine == {e \in Unexpired : e.port = b.port}
<1>1. RelayIsTyped /\ Unexpired \in SUBSET pending
  BY TypeParts DEF Unexpired
<1>2. /\ backlog' \in Seq(Waiting) /\ b = backlog[1] /\ 1 \in 1..Len(backlog) /\ b \in Waiting
      /\ \A i \in 1..Len(backlog') : i + 1 \in 1..Len(backlog) /\ backlog'[i] = backlog[i + 1]
  BY <1>1, TakeFacts, BacklogShrinks DEF RelayIsTyped
<1>3. NatInv' /\ PendingIsTyped'
  <2>1. Unexpired \ mine \in SUBSET pending
    BY <1>1
  <2> QED
    BY <2>1, TakeFacts, FewerPending, NatKept
<1>4. \A e \in mine : e.dst \in Dsts
  BY <1>1, Fields
<1> HIDE DEF b, mine
<1>5. /\ conns' \subseteq Relayed /\ IsFiniteSet(conns') /\ Cardinality(conns') <= MaxConns
      /\ \A c \in conns' : c \in conns \/ (c.id = b.id /\ c.port = b.port)
  <2>1. CASE UNCHANGED conns
    BY <1>1, <2>1 DEF RelayIsTyped
  <2>2. CASE /\ Cardinality(conns) < MaxConns
             /\ \E e \in mine, done \in BOOLEAN :
                  conns' = conns \cup {[id |-> b.id, port |-> b.port, dst |-> e.dst,
                                        client |-> b.dst, done |-> done]}
    <3>1. PICK e \in mine, done \in BOOLEAN :
                 conns' = conns \cup {[id |-> b.id, port |-> b.port, dst |-> e.dst,
                                       client |-> b.dst, done |-> done]}
      BY <2>2
    <3> DEFINE c == [id |-> b.id, port |-> b.port, dst |-> e.dst, client |-> b.dst, done |-> done]
    <3>2. c \in Relayed /\ c.id = b.id /\ c.port = b.port
      BY <1>2, <1>4 DEF Relayed, Waiting
    <3>3. conns' = conns \cup {c}
      BY <3>1
    <3> HIDE DEF c
    <3>4. /\ IsFiniteSet(conns') /\ Cardinality(conns') \in Nat /\ Cardinality(conns) \in Nat
          /\ Cardinality(conns') <= Cardinality(conns) + 1
      BY <1>1, <3>3, OneMore, FS_CardinalityType DEF RelayIsTyped
    <3>5. Cardinality(conns') <= MaxConns
      BY <2>2, <3>4, RedirectConstants
    <3> QED
      BY <1>1, <3>2, <3>3, <3>4, <3>5 DEF RelayIsTyped
  <2> QED
    BY <2>1, <2>2, TakeFacts DEF b, mine
<1>6. RelayIsTyped'
  BY <1>1, <1>2, <1>5, TakeFacts DEF RelayIsTyped
<1>7. Inherited
  BY <1>2, <1>5 DEF Inherited, Known
<1> QED
  BY <1>3, <1>6, <1>7, TakeFacts, RelayStepKeepsTypes

\* A worker is done: the same connection, and a close callback to come.
LEMMA WorkerEndsFacts ==
  ASSUME RedirectTypeInv, NEW c \in conns, WorkerEnds(c)
  PROVE  \E d \in Relayed :
           /\ d.id = c.id /\ d.port = c.port /\ d.dst = c.dst /\ d.client = c.client /\ d.done
           /\ ~c.done /\ conns' = (conns \ {c}) \cup {d}
           /\ exiting' = exiting \cup {[id |-> c.id, port |-> c.port]}
           /\ UNCHANGED <<natVars, app, opens, pump, pending, backlog, acceptor, harvest>>
<1> DEFINE d == [c EXCEPT !.done = TRUE]
<1>1. c \in Relayed
  BY Fields
<1>2. /\ d \in Relayed /\ d.id = c.id /\ d.port = c.port /\ d.dst = c.dst /\ d.client = c.client
      /\ d.done
  BY <1>1 DEF Relayed
<1>3. /\ ~c.done /\ conns' = (conns \ {c}) \cup {d}
      /\ exiting' = exiting \cup {[id |-> c.id, port |-> c.port]}
      /\ UNCHANGED <<natVars, app, opens, pump, pending, backlog, acceptor, harvest>>
  BY DEF WorkerEnds, appVars
<1> HIDE DEF d
<1> QED
  BY <1>2, <1>3

\* A worker ends.
LEMMA WorkerEndsKeepsTypes ==
  ASSUME RedirectTypeInv, NEW c \in conns, WorkerEnds(c)
  PROVE  RedirectTypeInv'
<1>1. PICK d \in Relayed :
        /\ d.id = c.id /\ d.port = c.port /\ conns' = (conns \ {c}) \cup {d}
        /\ exiting' = exiting \cup {[id |-> c.id, port |-> c.port]}
        /\ UNCHANGED <<natVars, app, opens, pump, pending, backlog, acceptor, harvest>>
  BY WorkerEndsFacts
<1>2. RelayIsTyped /\ c.id \in Ids /\ c.port \in Ports
  BY TypeParts, Fields
<1>3. NatInv' /\ PendingIsTyped'
  BY <1>1, NatKept, TypeParts DEF PendingIsTyped
<1>4. Inherited
  BY <1>1 DEF Inherited, Known
<1>5. IsFiniteSet(conns') /\ Cardinality(conns') <= MaxConns
  <2>1. /\ IsFiniteSet(conns) /\ IsFiniteSet(conns \ {c}) /\ Cardinality(conns) \in Nat
        /\ Cardinality(conns \ {c}) = Cardinality(conns) - 1
    BY <1>2, FS_RemoveElement, FS_CardinalityType DEF RelayIsTyped
  <2>2. /\ IsFiniteSet(conns') /\ Cardinality(conns') \in Nat
        /\ Cardinality(conns') <= Cardinality(conns \ {c}) + 1
    BY <1>1, <2>1, OneMore
  <2> QED
    BY <1>2, <2>1, <2>2, RedirectConstants DEF RelayIsTyped
<1>6. RelayIsTyped'
  BY <1>1, <1>2, <1>5 DEF RelayIsTyped
<1>7. ThreadsAreKnown
  BY TypeParts
<1> QED
  BY <1>1, <1>3, <1>4, <1>6, <1>7, RelayStepKeepsTypes DEF ThreadsAreKnown

\* wd_on_flow_end, and what it may change.
LEMMA CloseCallbackFacts ==
  ASSUME RedirectTypeInv, NEW e \in exiting, CloseCallback(e)
  PROVE  /\ MarkClosed(e.port) /\ exiting' = exiting \ {e} /\ e.port \in Ports
         /\ UNCHANGED <<now, app, opens, pump, pending, backlog, acceptor, harvest, conns>>
BY Fields DEF CloseCallback, appVars

\* A close callback is made.
LEMMA CloseCallbackKeepsTypes ==
  ASSUME RedirectTypeInv, NEW e \in exiting, CloseCallback(e)
  PROVE  RedirectTypeInv'
<1>1. NatInv' /\ PendingIsTyped'
  BY CloseCallbackFacts, MarkClosedPreservesInv, TypeParts DEF PendingIsTyped
<1>2. Inherited /\ RelayIsTyped'
  BY CloseCallbackFacts, TypeParts DEF Inherited, Known, RelayIsTyped
<1>3. ThreadsAreKnown
  BY TypeParts
<1> QED
  BY <1>1, <1>2, <1>3, CloseCallbackFacts, RelayStepKeepsTypes DEF ThreadsAreKnown

\* Time passes, or nothing happens.
LEMMA TimeFacts ==
  ASSUME RedirectTypeInv, TimePasses \/ UNCHANGED redirectVars
  PROVE  /\ UNCHANGED <<slots, count, reply, app, opens, pump, pending, backlog, acceptor, harvest,
                        conns, exiting>>
         /\ now' \in Nat /\ now' >= now
<1>1. CASE TimePasses
  BY <1>1, Fields DEF TimePasses, Tick, appVars, relayVars
<1>2. CASE UNCHANGED redirectVars
  BY <1>2, Fields DEF redirectVars, natVars, appVars, relayVars
<1> QED
  BY <1>1, <1>2

\* The clock moves, or nothing does.
LEMMA TimeKeepsTypes ==
  ASSUME RedirectTypeInv, TimePasses \/ UNCHANGED redirectVars
  PROVE  RedirectTypeInv'
<1>1. NatInv'
  BY TypeParts, NatInvInductive DEF TimePasses, NatNext, redirectVars
<1>2. PendingIsTyped' /\ RelayIsTyped' /\ Inherited /\ ThreadsAreKnown
  BY TimeFacts, TypeParts DEF PendingIsTyped, RelayIsTyped, Inherited, Known
<1> QED
  BY <1>1, <1>2, TimeFacts, RelayStepKeepsTypes DEF ThreadsAreKnown

\* The inductive step, one case per action.
LEMMA RedirectTypeInvInductive ==
  ASSUME RedirectTypeInv, [RedirectNext]_redirectVars
  PROVE  RedirectTypeInv'
<1>1. CASE \E p \in Ports, d \in Dsts : Connect(p, d)
  BY <1>1, ConnectKeepsTypes
<1>2. CASE \E p \in Ports : AppCloses(p)
  BY <1>2, AppClosesKeepsTypes
<1>3. CASE \E p \in Ports : Decide(p)
  BY <1>3, DecideKeepsTypes
<1>4. CASE Register
  BY <1>4, RegisterKeepsTypes
<1>5. CASE \E t \in TimesRead : AddMapping(t)
  BY <1>5, AddMappingKeepsTypes
<1>6. CASE Release
  BY <1>6, ReleaseKeepsTypes
<1>7. CASE \E p \in Ports, t \in TimesRead : AppSends(p, t)
  BY <1>7, AppSendsKeepsTypes
<1>8. CASE \E c \in conns, t \in TimesRead : RelaySends(c, t)
  BY <1>8, RelaySendsKeepsTypes
<1>9. CASE Reap
  BY <1>9, ReapKeepsTypes
<1>10. CASE Take
  BY <1>10, TakeKeepsTypes
<1>11. CASE \E c \in conns : WorkerEnds(c)
  BY <1>11, WorkerEndsKeepsTypes
<1>12. CASE \E e \in exiting : CloseCallback(e)
  BY <1>12, CloseCallbackKeepsTypes
<1>13. CASE TimePasses \/ UNCHANGED redirectVars
  BY <1>13, TimeKeepsTypes
<1> QED
  BY <1>1, <1>2, <1>3, <1>4, <1>5, <1>6, <1>7, <1>8, <1>9, <1>10, <1>11, <1>12, <1>13 DEF RedirectNext

\* It holds at the start ...
LEMMA RedirectTypeInvInitially == RedirectInit => RedirectTypeInv
<1> SUFFICES ASSUME RedirectInit PROVE RedirectTypeInv
  OBVIOUS
<1>1. NatInv
  BY NatInvInitially DEF RedirectInit
<1>2. NoFlow \in AppFlows /\ NoFlow.phase = "closed" /\ NoFlow.id = 0
  BY DEF NoFlow, AppFlows, Phases, Verdicts
<1>3. /\ \A p \in Ports : app[p] = NoFlow
      /\ app \in [Ports -> AppFlows] /\ opens = 0 /\ pump = Idling /\ pending = {}
      /\ backlog = <<>> /\ Len(backlog) = 0 /\ acceptor = "idle" /\ conns = {} /\ exiting = {}
  BY <1>2 DEF RedirectInit
<1>4. /\ IsFiniteSet(pending) /\ IsFiniteSet(conns)
      /\ Cardinality(pending) <= MaxPending /\ Cardinality(conns) <= MaxConns
  BY <1>3, FS_EmptySet, RedirectConstants
<1>5. PendingIsTyped /\ RelayIsTyped
  BY <1>3, <1>4 DEF PendingIsTyped, RelayIsTyped
<1>6. PumpIsBusy /\ ThreadsAreKnown
  BY <1>2, <1>3, IdlingIsKnown, RedirectConstants DEF PumpIsBusy, ThreadsAreKnown
<1>7. IdsAreGiven /\ IdsNamePorts
  BY <1>2, <1>3 DEF IdsAreGiven, IdsNamePorts
<1> QED
  BY <1>1, <1>3, <1>5, <1>6, <1>7, TypeParts

\* ... and always.
LEMMA RedirectTypeInvAlways == RedirectSpec => []RedirectTypeInv
<1> QED
  BY RedirectTypeInvInitially, RedirectTypeInvInductive, PTL DEF RedirectSpec

\* The pumps, the relay and the table keep their types, recycled ports or not: the
\* relay's two tables never outgrow PMX_RELAY_MAX_PENDING and PMX_RELAY_MAX_CONNS,
\* and a busy socket pump means a connect is waiting at the socket layer.
THEOREM RedirectTypeCorrect == RedirectSpec => []RedirectTypeOK
BY RedirectTypeInvAlways, PTL DEF RedirectTypeInv

-----------------------------------------------------------------------------
\* What an application's connect and close change.
LEMMA ConnectFacts ==
  ASSUME RedirectTypeInv, ~RecyclePorts, NEW p \in Ports, NEW d \in Dsts, Connect(p, d)
  PROVE  /\ app[p].phase = "closed" /\ Quiet(p) /\ app'[p].phase = "asking" /\ OthersKept(p)
         /\ UNCHANGED <<slots, now, pump, pending, backlog, conns, exiting>>
<1> DEFINE f == [phase |-> "asking", id |-> opens', dst |-> d, verdict |-> "undecided", last |-> now]
<1>1. app \in [Ports -> AppFlows] /\ f.phase = "asking"
  BY TypeParts
<1>2. /\ app[p].phase = "closed" /\ Quiet(p) /\ app' = [app EXCEPT ![p] = f]
      /\ UNCHANGED <<slots, now, pump, pending, backlog, conns, exiting>>
  BY DEF Connect, relayVars, natVars
<1> HIDE DEF f
<1>3. app'[p] = f /\ \A q \in Ports : q # p => app'[q] = app[q]
  BY <1>1, <1>2
<1> QED
  BY <1>1, <1>2, <1>3 DEF OthersKept

\* ... and its close.
LEMMA AppClosesFacts ==
  ASSUME RedirectTypeInv, NEW p \in Ports, AppCloses(p)
  PROVE  /\ app[p].phase \in {"syn", "up", "direct"} /\ app'[p].phase = "closed" /\ OthersKept(p)
         /\ UNCHANGED <<slots, now, pump, pending, backlog, conns, exiting>>
BY TypeParts, NoFlowFacts DEF AppCloses, relayVars, natVars

-----------------------------------------------------------------------------
\* A port's connections are its own.
Early == {"asking", "deciding", "syn", "direct"}

\* The relay's side is as it was, no flow starts on a busy port, none comes up.
LEMMA PortsKept ==
  ASSUME PortsAreOwn, UNCHANGED <<backlog, conns, exiting>>,
         \A p \in Ports : app'[p].phase \in Early => app[p].phase \in Early \/ Quiet(p),
         \A p \in Ports : app'[p].phase = "up" => app[p].phase = "up" /\ Same(p)
  PROVE  PortsAreOwn'
<1>1. \A p \in Ports : Quiet(p)' <=> Quiet(p)
  BY DEF Quiet
<1>2. \A p \in Ports : app'[p].phase \in Early => Quiet(p)'
  BY <1>1 DEF PortsAreOwn, Early
<1>3. \A p \in Ports : app'[p].phase = "up" =>
        /\ \A i \in 1..Len(backlog) : backlog[i].port = p => backlog[i].id = app'[p].id
        /\ \A c \in conns : c.port = p /\ ~c.done => c.id = app'[p].id
  BY DEF PortsAreOwn, Same
<1> QED
  BY <1>2, <1>3 DEF PortsAreOwn, Early

\* The flow of one port changes, the relay's side does not.
LEMMA PortsKeptThrough ==
  ASSUME PortsAreOwn, UNCHANGED <<backlog, conns, exiting>>, NEW p \in Ports, OthersKept(p),
         app'[p].phase \in Early => app[p].phase \in Early \/ Quiet(p),
         app'[p].phase = "up" => app[p].phase = "up" /\ Same(p)
  PROVE  PortsAreOwn'
<1>1. \A q \in Ports : q # p => app'[q] = app[q]
  BY DEF OthersKept
<1> QED
  BY <1>1, PortsKept DEF Same

\* A redirected SYN reaches the listener: its port was quiet.
LEMMA FirstPacketKeepsPorts ==
  ASSUME RedirectTypeInv, PortsAreOwn, NEW p \in Ports, app[p].phase = "syn", OthersKept(p), Same(p),
         app'[p].phase = "up", UNCHANGED <<conns, exiting>>,
         backlog' = Append(backlog, Arriving(p))
  PROVE  PortsAreOwn'
<1> DEFINE b == Arriving(p)
<1>1. b \in Waiting /\ b.port = p /\ b.id = app'[p].id
  BY ArrivingFacts DEF Same
<1> HIDE DEF b
<1>2. backlog \in Seq(Waiting) /\ backlog' = Append(backlog, b)
  BY TypeParts DEF RelayIsTyped, b
<1>3. /\ Len(backlog') = Len(backlog) + 1 /\ Len(backlog) \in Nat
      /\ \A i \in 1..Len(backlog') : (i = Len(backlog) + 1 /\ backlog'[i] = b)
                                     \/ (i \in 1..Len(backlog) /\ backlog'[i] = backlog[i])
  BY <1>1, <1>2, BacklogGrows
<1>4. Quiet(p)
  BY DEF PortsAreOwn
<1>5. \A i, j \in 1..Len(backlog') : backlog'[i].port = backlog'[j].port => i = j
  BY <1>1, <1>3, <1>4 DEF PortsAreOwn, Quiet
<1>6. \A i \in 1..Len(backlog') :
        /\ \A c \in conns : c.port = backlog'[i].port => c.done
        /\ \A e \in exiting : e.port # backlog'[i].port
  BY <1>1, <1>3, <1>4 DEF PortsAreOwn, Quiet
<1>7. ASSUME NEW q \in Ports, app'[q].phase \in Early
      PROVE  Quiet(q)'
  <2>1. q # p /\ app[q].phase \in Early
    BY <1>7 DEF OthersKept, Early
  <2>2. Quiet(q)
    BY <2>1 DEF PortsAreOwn, Early
  <2> QED
    BY <1>1, <1>3, <2>1, <2>2 DEF Quiet
<1>8. ASSUME NEW q \in Ports, app'[q].phase = "up"
      PROVE  /\ \A i \in 1..Len(backlog') : backlog'[i].port = q => backlog'[i].id = app'[q].id
             /\ \A c \in conns : c.port = q /\ ~c.done => c.id = app'[q].id
  <2>1. CASE q = p
    BY <1>1, <1>3, <1>4, <2>1 DEF Quiet
  <2>2. CASE q # p
    BY <1>1, <1>3, <1>8, <2>2 DEF PortsAreOwn, OthersKept
  <2> QED
    BY <2>1, <2>2
<1> QED
  BY <1>5, <1>6, <1>7, <1>8 DEF PortsAreOwn, Early

\* A connection's worker takes its place, alive or already done.
LEMMA TakeKeepsPorts ==
  ASSUME RedirectTypeInv, PortsAreOwn, Take
  PROVE  PortsAreOwn'
<1> DEFINE b == Head(backlog)
<1>1. /\ backlog \in Seq(Waiting) /\ backlog # <<>> /\ backlog' = Tail(backlog)
      /\ UNCHANGED <<app, exiting>>
  BY TakeFacts, TypeParts DEF RelayIsTyped
<1>2. /\ b = backlog[1] /\ 1 \in 1..Len(backlog) /\ Len(backlog) \in Nat
      /\ \A i \in 1..Len(backlog') : /\ i + 1 \in 1..Len(backlog) /\ backlog'[i] = backlog[i + 1]
                                     /\ i + 1 # 1
  BY <1>1, BacklogShrinks
<1>3. \A c \in conns' : c \in conns \/ (c.id = b.id /\ c.port = b.port)
  BY TakeFacts
<1>4. \A c \in conns' : c \in conns \/ \A d \in conns' : d \in conns \/ d = c
  BY TakeFacts
<1> HIDE DEF b
<1>5. /\ \A i \in 1..Len(backlog') : backlog'[i].port # b.port
      /\ \A c \in conns : c.port = b.port => c.done
      /\ \A e \in exiting : e.port # b.port
  BY <1>2 DEF PortsAreOwn
<1>6. \A i, j \in 1..Len(backlog') : backlog'[i].port = backlog'[j].port => i = j
  BY <1>2 DEF PortsAreOwn
<1>7. \A i \in 1..Len(backlog') :
        /\ \A c \in conns' : c.port = backlog'[i].port => c.done
        /\ \A e \in exiting : e.port # backlog'[i].port
  BY <1>2, <1>3, <1>5 DEF PortsAreOwn
<1>8. /\ \A c, d \in conns' : ~c.done /\ ~d.done /\ c.port = d.port => c = d
      /\ \A c \in conns', e \in exiting : ~c.done => e.port # c.port
  BY <1>3, <1>4, <1>5 DEF PortsAreOwn
<1>9. ASSUME NEW p \in Ports, app'[p].phase \in Early
      PROVE  Quiet(p)'
  <2>1. Quiet(p)
    BY <1>1, <1>9 DEF PortsAreOwn, Early
  <2> QED
    BY <1>1, <1>2, <1>3, <2>1 DEF Quiet
<1>10. ASSUME NEW p \in Ports, app'[p].phase = "up"
       PROVE  /\ \A i \in 1..Len(backlog') : backlog'[i].port = p => backlog'[i].id = app'[p].id
              /\ \A c \in conns' : c.port = p /\ ~c.done => c.id = app'[p].id
  BY <1>1, <1>2, <1>3, <1>10 DEF PortsAreOwn
<1> QED
  BY <1>1, <1>6, <1>7, <1>8, <1>9, <1>10 DEF PortsAreOwn, Early

\* A worker that is done leaves its port to its close callback.
LEMMA WorkerEndsKeepsPorts ==
  ASSUME RedirectTypeInv, PortsAreOwn, NEW c \in conns, WorkerEnds(c)
  PROVE  PortsAreOwn'
<1>1. PICK d \in Relayed :
        /\ d.id = c.id /\ d.port = c.port /\ d.done /\ ~c.done /\ conns' = (conns \ {c}) \cup {d}
        /\ exiting' = exiting \cup {[id |-> c.id, port |-> c.port]}
        /\ UNCHANGED <<app, backlog>>
  BY WorkerEndsFacts
<1>2. /\ \A a \in conns' : a.done \/ (a \in conns /\ a # c)
      /\ \A a \in conns' : a \in conns \/ a = d
      /\ \A e \in exiting' : e \in exiting \/ e.port = c.port
  BY <1>1
<1>3. /\ \A i \in 1..Len(backlog) : backlog[i].port # c.port
      /\ \A a \in conns' : ~a.done => a.port # c.port
      /\ \A p \in Ports : app[p].phase \in Early => p # c.port
  BY <1>1, <1>2 DEF PortsAreOwn, Early, Quiet
<1>4. \A i \in 1..Len(backlog') :
        /\ \A a \in conns' : a.port = backlog'[i].port => a.done
        /\ \A e \in exiting' : e.port # backlog'[i].port
  BY <1>1, <1>2, <1>3 DEF PortsAreOwn
<1>5. /\ \A a, b \in conns' : ~a.done /\ ~b.done /\ a.port = b.port => a = b
      /\ \A a \in conns', e \in exiting' : ~a.done => e.port # a.port
  BY <1>2, <1>3 DEF PortsAreOwn
<1>6. ASSUME NEW p \in Ports, app'[p].phase \in Early
      PROVE  Quiet(p)'
  <2>1. Quiet(p)
    BY <1>1, <1>6 DEF PortsAreOwn, Early
  <2> QED
    BY <1>1, <1>2, <1>3, <1>6, <2>1 DEF Quiet
<1> QED
  BY <1>1, <1>2, <1>4, <1>5, <1>6 DEF PortsAreOwn, Early

\* Every step keeps the ports their own.
LEMMA PortsStayOwn ==
  ASSUME RedirectTypeInv, PortsAreOwn, ~RecyclePorts, [RedirectNext]_redirectVars
  PROVE  PortsAreOwn'
<1>1. CASE \E p \in Ports, d \in Dsts : Connect(p, d)
  BY <1>1, ConnectFacts, PortsKeptThrough
<1>2. CASE \E p \in Ports : AppCloses(p)
  BY <1>2, AppClosesFacts, PortsKeptThrough DEF Early
<1>3. CASE \E p \in Ports : Decide(p)
  BY <1>3, DecideFacts, PortsKeptThrough DEF Early
<1>4. CASE Register
  BY <1>4, RegisterFacts, PortsKeptThrough DEF Early
<1>5. CASE \E t \in TimesRead : AddMapping(t)
  BY <1>5, AddMappingFacts, PortsKeptThrough DEF Early
<1>6. CASE Release
  BY <1>6, ReleaseFacts, PortsKeptThrough DEF Early
<1>7. CASE \E p \in Ports, t \in TimesRead : AppSends(p, t)
  <2>1. PICK p \in Ports, t \in TimesRead : AppSends(p, t)
    BY <1>7
  <2>2. CASE app[p].phase = "syn" /\ app'[p].phase = "up"
    <3>1. app[p].phase # "up"
      BY <2>2
    <3> QED
      BY <2>1, <2>2, <3>1, AppSendsFacts, FirstPacketKeepsPorts
  <2>3. CASE UNCHANGED backlog /\ ~(app[p].phase = "syn" /\ app'[p].phase = "up")
    BY <2>1, <2>3, AppSendsFacts, PortsKeptThrough DEF Early
  <2> QED
    BY <2>1, <2>2, <2>3, AppSendsFacts
<1>8. CASE \E c \in conns, t \in TimesRead : RelaySends(c, t)
  BY <1>8, RelaySendsFacts, PortsKeptThrough DEF Early
<1>9. CASE Reap
  BY <1>9, ReapFacts DEF PortsAreOwn, Quiet
<1>10. CASE Take
  BY <1>10, TakeKeepsPorts
<1>11. CASE \E c \in conns : WorkerEnds(c)
  BY <1>11, WorkerEndsKeepsPorts
<1>12. CASE \E e \in exiting : CloseCallback(e)
  <2>1. exiting' \subseteq exiting /\ UNCHANGED <<app, backlog, conns>>
    BY <1>12, CloseCallbackFacts
  <2> QED
    BY <2>1 DEF PortsAreOwn, Quiet
<1>13. CASE TimePasses \/ UNCHANGED redirectVars
  BY <1>13, TimeFacts, PortsKept DEF Same
<1> QED
  BY <1>1, <1>2, <1>3, <1>4, <1>5, <1>6, <1>7, <1>8, <1>9, <1>10, <1>11, <1>12, <1>13 DEF RedirectNext

-----------------------------------------------------------------------------
\* The tables agree.

\* What is mapped, registered or on its way in is what was, and its port means the same.
LEMMA TablesKept ==
  ASSUME TablesAgree, RightDestination', pending' \subseteq pending,
         \A i \in Used' : i \in Used /\ slots'[i].port = slots[i].port /\ slots'[i].dst = slots[i].dst,
         \A i \in 1..Len(backlog') : \E j \in 1..Len(backlog) : backlog'[i] = backlog[j],
         \/ UNCHANGED pump
         \/ pump.pc # "add" /\ pump'.pc \notin {"add", "release"},
         pump.pc # "idle" /\ UNCHANGED pump => app'[pump.port].dst = app[pump.port].dst
  PROVE  TablesAgree'
<1>1. \A i \in Used', e \in pending' : slots'[i].port = e.port =>
        slots'[i].dst = e.dst \/ (pump'.pc = "add" /\ pump'.port = e.port)
  BY DEF TablesAgree
<1>2. \A i \in 1..Len(backlog'), e \in pending' : backlog'[i].port = e.port => backlog'[i].dst = e.dst
  BY DEF TablesAgree
<1>3. \A e \in pending' : pump'.pc \in {"add", "release"} /\ pump'.port = e.port =>
        e.dst = app'[e.port].dst
  BY DEF TablesAgree
<1> QED
  BY <1>1, <1>2, <1>3 DEF TablesAgree

\* ... when only one port's flow changes, and not the one the pump is busy with.
LEMMA TablesKeptThrough ==
  ASSUME RedirectTypeInv, TablesAgree, NEW p \in Ports, OthersKept(p), app[p].phase # "deciding",
         UNCHANGED <<slots, pump, pending, backlog, conns>>
  PROVE  TablesAgree'
<1>1. pump.pc # "idle" => app'[pump.port].dst = app[pump.port].dst
  BY PumpFacts DEF OthersKept
<1>2. RightDestination' /\ Used' = Used
  BY DEF TablesAgree, RightDestination, Used
<1> QED
  BY <1>1, <1>2, TablesKept

\* A registration: a table may still have the port's old mapping, until the add.
LEMMA RegisterKeepsTables ==
  ASSUME RedirectTypeInv, PortsAreOwn, TablesAgree, Register
  PROVE  TablesAgree'
<1> DEFINE p == pump.port
<1>1. /\ pump.pc = "register" /\ p \in Ports /\ app[p].phase = "deciding"
      /\ UNCHANGED <<slots, backlog, conns>> /\ \A e \in pending' : e.port # p => e \in pending
  BY RegisterFacts DEF natVars
<1>2. RightDestination' /\ Used' = Used
  BY <1>1 DEF TablesAgree, RightDestination, Used
<1>3. CASE /\ pump'.pc = "add" /\ pump'.port = p /\ Same(p)
           /\ \A e \in pending' : e.port = p => e.dst = app[p].dst
  <2>1. Quiet(p)
    BY <1>1 DEF PortsAreOwn
  <2>2. \A i \in 1..Len(backlog), e \in pending' : backlog[i].port = e.port => backlog[i].dst = e.dst
    BY <1>1, <2>1 DEF Quiet, TablesAgree
  <2>3. \A i \in Used, e \in pending' : slots[i].port = e.port => slots[i].dst = e.dst \/ p = e.port
    BY <1>1 DEF TablesAgree
  <2> HIDE DEF p
  <2> QED
    BY <1>1, <1>2, <1>3, <2>2, <2>3 DEF TablesAgree, Same
<1>4. CASE pump' = Idling /\ pending' \subseteq pending
  <2>1. pump' # pump
    BY <1>1, <1>4, IdlingIsKnown
  <2> QED
    BY <1>1, <1>2, <1>4, <2>1, IdlingIsKnown, TablesKept
<1> QED
  BY <1>3, <1>4, RegisterFacts

\* The add: it takes the registration's destination, or finds no mapping of the port.
LEMMA AddMappingKeepsTables ==
  ASSUME RedirectTypeInv, TablesAgree, NEW t \in TimesRead, AddMapping(t)
  PROVE  TablesAgree'
<1> DEFINE p == pump.port
<1>1. /\ pump.pc = "add" /\ p \in Ports /\ app[p].phase = "deciding" /\ app[p].dst \in Dsts
      /\ Add(p, app[p].dst, t) /\ UNCHANGED <<pending, backlog, conns>> /\ NatInv'
  BY AddMappingFacts
<1>2. RightDestination' /\ NatInv
  BY <1>1, TypeParts DEF TablesAgree, RightDestination
<1>3. \A e \in pending : e.port = p => e.dst = app[p].dst
  BY <1>1 DEF TablesAgree
<1>4. CASE reply' = "ok"
  <2>1. UNCHANGED app /\ pump'.pc = "release" /\ pump'.port = p
    BY <1>4, AddMappingFacts
  <2>2. PICK i \in Slots : /\ i \in Used' /\ slots'[i].port = p /\ slots'[i].dst = app[p].dst
                           /\ \A j \in Used' : j # i => j \in Used /\ slots'[j] = slots[j]
    BY <1>1, <1>2, <1>4, AddFacts
  <2>3. \A j \in Used' : slots'[j].port = p => j = i
    BY <1>1, <2>2 DEF NatInv, OneMappingPerPort
  <2>4. \A j \in Used', e \in pending : slots'[j].port = e.port => slots'[j].dst = e.dst
    BY <1>1, <1>3, <2>2, <2>3 DEF TablesAgree
  <2> HIDE DEF p
  <2> QED
    BY <1>1, <1>2, <1>3, <2>1, <2>4 DEF TablesAgree
<1>5. CASE reply' # "ok"
  <2>1. UNCHANGED slots /\ SlotsOf(p) = {}
    BY <1>1, <1>2, <1>5, AddFacts
  <2>2. Used' = Used /\ \A i \in Used : slots[i].port # p
    BY <2>1 DEF Used, SlotsOf
  <2>3. pump'.pc = "idle"
    BY <1>5, AddMappingFacts, IdlingIsKnown
  <2>4. \A i \in Used, e \in pending : slots[i].port = e.port => slots[i].dst = e.dst
    BY <2>2 DEF TablesAgree
  <2> HIDE DEF p
  <2> QED
    BY <1>1, <1>2, <2>1, <2>2, <2>3, <2>4 DEF TablesAgree
<1> QED
  BY <1>4, <1>5

\* A connection reaches the listener with the destination of its mapping.
LEMMA FirstPacketKeepsTables ==
  ASSUME RedirectTypeInv, TablesAgree, NEW p \in Ports, NEW t \in TimesRead, AppSends(p, t),
         app[p].phase = "syn", app'[p].phase = "up"
  PROVE  TablesAgree'
<1> DEFINE b == Arriving(p)
<1>1. /\ Find(p, t) /\ UNCHANGED <<pump, pending, conns>> /\ reply' = app[p].dst /\ OthersKept(p)
      /\ backlog' = Append(backlog, b)
  BY AppSendsFacts
<1>2. NatInv /\ backlog \in Seq(Waiting) /\ b \in Waiting /\ b.port = p /\ b.dst = app[p].dst
      /\ app[p].dst # "miss"
  BY ArrivingFacts, TypeParts, Fields, RedirectConstants DEF RelayIsTyped, IdsAreGiven
<1> HIDE DEF b
<1>3. /\ Used' = Used
      /\ \A i \in Used : slots'[i].port = slots[i].port /\ slots'[i].dst = slots[i].dst
  BY <1>1, <1>2, FindFacts
<1>4. PICK i \in SlotsOf(p) : app[p].dst = slots[i].dst
  BY <1>1, <1>2, FindFacts
<1>5. ~(pump.pc # "idle" /\ pump.port = p)
  BY PumpFacts
<1>6. \A e \in pending : e.port = p => e.dst = b.dst
  BY <1>2, <1>4, <1>5 DEF TablesAgree, SlotsOf
<1>7. \A j \in 1..Len(backlog') : backlog'[j] = b \/ (j \in 1..Len(backlog) /\ backlog'[j] = backlog[j])
  BY <1>1, <1>2, BacklogGrows
<1>8. \A j \in 1..Len(backlog'), e \in pending : backlog'[j].port = e.port => backlog'[j].dst = e.dst
  BY <1>2, <1>6, <1>7 DEF TablesAgree
<1>9. \A e \in pending : pump.pc \in {"add", "release"} /\ pump.port = e.port => e.dst = app'[e.port].dst
  BY <1>1, <1>5, PumpFacts DEF TablesAgree, OthersKept
<1>10. RightDestination'
  BY <1>1 DEF TablesAgree, RightDestination
<1> QED
  BY <1>1, <1>3, <1>8, <1>9, <1>10 DEF TablesAgree

\* The worker asks for the destination of the registration taken.
LEMMA TakeKeepsTables ==
  ASSUME RedirectTypeInv, TablesAgree, Take
  PROVE  TablesAgree'
<1> DEFINE b == Head(backlog)
           mine == {e \in Unexpired : e.port = b.port}
<1>1. /\ backlog \in Seq(Waiting) /\ backlog # <<>> /\ backlog' = Tail(backlog)
      /\ pending' = Unexpired \ mine /\ UNCHANGED <<slots, app, pump>>
  BY TakeFacts, TypeParts DEF RelayIsTyped, natVars
<1>2. pending' \subseteq pending /\ \A e \in mine : e \in pending /\ e.port = b.port
  BY <1>1 DEF Unexpired
<1>3. /\ b = backlog[1] /\ 1 \in 1..Len(backlog)
      /\ \A i \in 1..Len(backlog') : i + 1 \in 1..Len(backlog) /\ backlog'[i] = backlog[i + 1]
  BY <1>1, BacklogShrinks
<1>4. \A e \in mine : e.dst = b.dst
  BY <1>2, <1>3 DEF TablesAgree
<1>5. \A c \in conns' : c \in conns \/ \E e \in mine : c.dst = e.dst /\ c.client = b.dst
  BY TakeFacts
<1>6. RightDestination'
  BY <1>4, <1>5 DEF TablesAgree, RightDestination
<1>7. Used' = Used
  BY <1>1 DEF Used
<1> QED
  BY <1>1, <1>2, <1>3, <1>6, <1>7, TablesKept

\* Every step keeps the tables agreed.
LEMMA TablesStayAgreed ==
  ASSUME RedirectTypeInv, PortsAreOwn, TablesAgree, ~RecyclePorts, [RedirectNext]_redirectVars
  PROVE  TablesAgree'
<1>0. RightDestination
  BY DEF TablesAgree
<1>1. CASE \E p \in Ports, d \in Dsts : Connect(p, d)
  BY <1>1, ConnectFacts, TablesKeptThrough
<1>2. CASE \E p \in Ports : AppCloses(p)
  BY <1>2, AppClosesFacts, TablesKeptThrough
<1>3. CASE \E p \in Ports : Decide(p)
  <2>1. PICK p \in Ports : Decide(p)
    BY <1>3
  <2>2. UNCHANGED <<slots, pending, backlog, conns>> /\ pump.pc = "idle"
        /\ ((UNCHANGED pump) \/ pump'.pc = "register")
    BY <2>1, DecideFacts DEF natVars
  <2>3. RightDestination' /\ Used' = Used
    BY <1>0, <2>2 DEF RightDestination, Used
  <2> QED
    BY <2>2, <2>3, TablesKept
<1>4. CASE Register
  BY <1>4, RegisterKeepsTables
<1>5. CASE \E t \in TimesRead : AddMapping(t)
  BY <1>5, AddMappingKeepsTables
<1>6. CASE Release
  <2>1. UNCHANGED <<slots, pending, backlog, conns>> /\ pump.pc = "release" /\ pump'.pc = "idle"
    BY <1>6, ReleaseFacts, IdlingIsKnown DEF natVars
  <2>2. RightDestination' /\ Used' = Used
    BY <1>0, <2>1 DEF RightDestination, Used
  <2> QED
    BY <2>1, <2>2, TablesKept
<1>7. CASE \E p \in Ports, t \in TimesRead : AppSends(p, t)
  <2>1. PICK p \in Ports, t \in TimesRead : AppSends(p, t)
    BY <1>7
  <2>2. CASE app[p].phase = "syn" /\ app'[p].phase = "up"
    BY <2>1, <2>2, FirstPacketKeepsTables
  <2>3. CASE UNCHANGED backlog
    <3>1. Find(p, t) /\ UNCHANGED <<pump, pending, conns>> /\ app'[p].dst = app[p].dst /\ OthersKept(p)
      BY <2>1, AppSendsFacts DEF Same
    <3>2. /\ Used' = Used
          /\ \A i \in Used : slots'[i].port = slots[i].port /\ slots'[i].dst = slots[i].dst
      BY <3>1, TypeParts, FindFacts
    <3>3. RightDestination' /\ (pump.pc # "idle" => app'[pump.port].dst = app[pump.port].dst)
      BY <1>0, <3>1, PumpFacts DEF RightDestination, OthersKept
    <3> QED
      BY <2>3, <3>1, <3>2, <3>3, TablesKept
  <2> QED
    BY <2>1, <2>2, <2>3, AppSendsFacts
<1>8. CASE \E c \in conns, t \in TimesRead : RelaySends(c, t)
  <2>1. PICK c \in conns, t \in TimesRead : RelaySends(c, t)
    BY <1>8
  <2>2. /\ c.port \in Ports /\ Find(c.port, t) /\ UNCHANGED <<pump, pending, backlog, conns>>
        /\ app'[c.port].dst = app[c.port].dst /\ OthersKept(c.port)
    BY <2>1, RelaySendsFacts DEF Same
  <2>3. /\ Used' = Used
        /\ \A i \in Used : slots'[i].port = slots[i].port /\ slots'[i].dst = slots[i].dst
    BY <2>2, TypeParts, FindFacts
  <2>4. RightDestination' /\ (pump.pc # "idle" => app'[pump.port].dst = app[pump.port].dst)
    BY <1>0, <2>2, PumpFacts DEF RightDestination, OthersKept
  <2> QED
    BY <2>2, <2>3, <2>4, TablesKept
<1>9. CASE Reap
  <2>1. conns' \subseteq conns /\ UNCHANGED <<slots, app, pump, pending, backlog>>
    BY <1>9, ReapFacts DEF natVars
  <2>2. RightDestination' /\ Used' = Used
    BY <1>0, <2>1 DEF RightDestination, Used
  <2> QED
    BY <2>1, <2>2, TablesKept
<1>10. CASE Take
  BY <1>10, TakeKeepsTables
<1>11. CASE \E c \in conns : WorkerEnds(c)
  <2>1. PICK c \in conns : WorkerEnds(c)
    BY <1>11
  <2>2. PICK d \in Relayed : d.dst = c.dst /\ d.client = c.client /\ conns' = (conns \ {c}) \cup {d}
                             /\ UNCHANGED <<slots, app, pump, pending, backlog>>
    BY <2>1, WorkerEndsFacts DEF natVars
  <2>3. RightDestination' /\ Used' = Used
    BY <1>0, <2>2 DEF RightDestination, Used
  <2> QED
    BY <2>2, <2>3, TablesKept
<1>12. CASE \E e \in exiting : CloseCallback(e)
  <2>1. PICK e \in exiting : CloseCallback(e)
    BY <1>12
  <2>2. MarkClosed(e.port) /\ e.port \in Ports /\ UNCHANGED <<app, pump, pending, backlog, conns>>
    BY <2>1, CloseCallbackFacts
  <2>3. /\ Used' = Used
        /\ \A i \in Used : slots'[i].port = slots[i].port /\ slots'[i].dst = slots[i].dst
    BY <2>2, TypeParts, MarkClosedFacts
  <2>4. RightDestination'
    BY <1>0, <2>2 DEF RightDestination
  <2> QED
    BY <2>2, <2>3, <2>4, TablesKept
<1>13. CASE TimePasses \/ UNCHANGED redirectVars
  <2>1. UNCHANGED <<slots, app, pump, pending, backlog, conns>>
    BY <1>13, TimeFacts
  <2>2. RightDestination' /\ Used' = Used
    BY <1>0, <2>1 DEF RightDestination, Used
  <2> QED
    BY <2>1, <2>2, TablesKept
<1> QED
  BY <1>1, <1>2, <1>3, <1>4, <1>5, <1>6, <1>7, <1>8, <1>9, <1>10, <1>11, <1>12, <1>13 DEF RedirectNext

-----------------------------------------------------------------------------
\* A released flow keeps its registration.

\* A flow that awaits the relay is early: nothing of its port is in the relay.
LEMMA AwaitingIsQuiet ==
  ASSUME RedirectTypeInv, PortsAreOwn, NEW p \in Ports, AwaitsRelay(p)
  PROVE  app[p].phase \in {"syn", "deciding"} /\ Quiet(p)
BY PumpFacts DEF AwaitsRelay, PortsAreOwn

\* It awaited the relay as it does now, and its registration is there or aged out.
LEMMA RegistrationKept ==
  ASSUME RedirectTypeInv, RegisteredUntilTaken, NEW p \in Ports, AwaitsRelay(p),
         Same(p), app'[p].last = app[p].last, now' \in Nat, now' >= now,
         \A e \in pending : e.port = p => e \in pending' \/ now - e.added >= PendingTTL
  PROVE  IsRegistered(p)'
<1>1. /\ now \in Nat /\ app[p].last \in Nat /\ PendingTTL \in Nat
      /\ \A e \in pending : e.added \in Nat
  BY Fields, RedirectConstants
<1>2. CASE now - app[p].last >= PendingTTL
  <2>1. now' - app'[p].last >= PendingTTL
    BY <1>1, <1>2
  <2> QED
    BY <2>1 DEF IsRegistered
<1>3. CASE \E e \in pending : e.port = p /\ e.dst = app[p].dst /\ e.added >= app[p].last
  <2>1. PICK e \in pending : e.port = p /\ e.dst = app[p].dst /\ e.added >= app[p].last
    BY <1>3
  <2>2. CASE e \in pending'
    BY <2>1, <2>2 DEF IsRegistered, Same
  <2>3. CASE now - e.added >= PendingTTL
    <3>1. now' - app'[p].last >= PendingTTL
      BY <1>1, <2>1, <2>3
    <3> QED
      BY <3>1 DEF IsRegistered
  <2> QED
    BY <2>1, <2>2, <2>3
<1> QED
  BY <1>2, <1>3 DEF RegisteredUntilTaken, IsRegistered

\* Only the flow of one port changes, and it does not await the relay after the step.
LEMMA RegistrationsKeptThrough ==
  ASSUME RedirectTypeInv, RegisteredUntilTaken, NEW p \in Ports, OthersKept(p),
         ~AwaitsRelay(p)', now' = now,
         \/ UNCHANGED pump \/ pump'.pc \notin {"add", "release"},
         \A e \in pending : e.port # p => e \in pending' \/ now - e.added >= PendingTTL
  PROVE  RegisteredUntilTaken'
<1>1. ASSUME NEW q \in Ports, AwaitsRelay(q)'
      PROVE  IsRegistered(q)'
  <2>1. q # p
    BY <1>1
  <2>2. app'[q] = app[q] /\ AwaitsRelay(q)
    BY <1>1, <2>1 DEF OthersKept, AwaitsRelay
  <2>3. Same(q) /\ app'[q].last = app[q].last /\ now' \in Nat /\ now' >= now
    BY <2>2, Fields DEF Same
  <2> QED
    BY <2>1, <2>2, <2>3, RegistrationKept
<1> QED
  BY <1>1 DEF RegisteredUntilTaken

\* The relay or the clock moves on: no flow, nor the pump, changes.
LEMMA RegistrationsKeptMeanwhile ==
  ASSUME RedirectTypeInv, RegisteredUntilTaken, UNCHANGED <<app, pump>>, now' \in Nat, now' >= now,
         \A p \in Ports, e \in pending : AwaitsRelay(p) /\ e.port = p =>
           e \in pending' \/ now - e.added >= PendingTTL
  PROVE  RegisteredUntilTaken'
<1>1. ASSUME NEW p \in Ports, AwaitsRelay(p)'
      PROVE  IsRegistered(p)'
  <2>1. AwaitsRelay(p) /\ Same(p)
    BY <1>1 DEF AwaitsRelay, Same
  <2> QED
    BY <2>1, RegistrationKept
<1> QED
  BY <1>1 DEF RegisteredUntilTaken

\* Every step keeps released flows registered.
LEMMA FlowsStayRegistered ==
  ASSUME RedirectTypeInv, PortsAreOwn, RegisteredUntilTaken, ~RecyclePorts, [RedirectNext]_redirectVars
  PROVE  RegisteredUntilTaken'
<1>0. now \in Nat /\ now >= now /\ PendingTTL \in Nat
  BY Fields, RedirectConstants
<1>1. CASE \E p \in Ports, d \in Dsts : Connect(p, d)
  <2>1. PICK p \in Ports, d \in Dsts : Connect(p, d)
    BY <1>1
  <2>2. ~AwaitsRelay(p)'
    BY <2>1, ConnectFacts, PumpFacts DEF AwaitsRelay
  <2> QED
    BY <2>1, <2>2, ConnectFacts, RegistrationsKeptThrough
<1>2. CASE \E p \in Ports : AppCloses(p)
  <2>1. PICK p \in Ports : AppCloses(p)
    BY <1>2
  <2>2. ~AwaitsRelay(p)'
    BY <2>1, AppClosesFacts, PumpFacts DEF AwaitsRelay
  <2> QED
    BY <2>1, <2>2, AppClosesFacts, RegistrationsKeptThrough
<1>3. CASE \E p \in Ports : Decide(p)
  <2>1. PICK p \in Ports : Decide(p)
    BY <1>3
  <2>2. pump'.pc \notin {"add", "release"} /\ now' = now /\ pending' = pending /\ OthersKept(p)
    BY <2>1, DecideFacts DEF natVars
  <2>3. ~AwaitsRelay(p)'
    BY <2>1, <2>2, DecideFacts DEF AwaitsRelay
  <2> QED
    BY <2>2, <2>3, RegistrationsKeptThrough
<1>4. CASE Register
  <2>0. PICK p \in Ports : p = pump.port
    BY <1>4, RegisterFacts
  <2>1. /\ p \in Ports /\ now' = now /\ OthersKept(p) /\ pump.pc = "register"
        /\ \A e \in pending : e.port # p => e \in pending' \/ now - e.added >= PendingTTL
    BY <1>4, <2>0, RegisterFacts DEF natVars
  <2>2. CASE /\ pump'.pc = "add" /\ pump'.port = p /\ Same(p) /\ app'[p].last = now
             /\ \E e \in pending' : e.port = p /\ e.dst = app[p].dst /\ e.added = now
    <3>1. IsRegistered(p)'
      BY <1>0, <2>2 DEF IsRegistered, Same
    <3>2. ASSUME NEW q \in Ports, q # p, AwaitsRelay(q)'
          PROVE  IsRegistered(q)'
      <4>1. app'[q] = app[q]
        BY <2>1, <3>2 DEF OthersKept
      <4>2. AwaitsRelay(q) /\ Same(q) /\ app'[q].last = app[q].last
        BY <2>2, <3>2, <4>1 DEF AwaitsRelay, Same
      <4>3. \A e \in pending : e.port = q => e \in pending' \/ now - e.added >= PendingTTL
        BY <2>1, <3>2
      <4> QED
        BY <1>0, <2>1, <4>2, <4>3, RegistrationKept
    <3> QED
      BY <3>1, <3>2 DEF RegisteredUntilTaken
  <2>3. CASE /\ pump' = Idling
             /\ \/ app'[p].phase = "closed"
                \/ app'[p].phase = "syn" /\ app'[p].verdict = "leaky"
    <3>1. pump'.pc = "idle"
      BY <2>3, IdlingIsKnown
    <3>2. ~AwaitsRelay(p)'
      BY <2>3, <3>1 DEF AwaitsRelay
    <3> QED
      BY <2>1, <3>1, <3>2, RegistrationsKeptThrough
  <2> QED
    BY <1>4, <2>0, <2>2, <2>3, RegisterFacts
<1>5. CASE \E t \in TimesRead : AddMapping(t)
  <2>0. PICK p \in Ports : p = pump.port
    BY <1>5, AddMappingFacts
  <2>1. PICK t \in TimesRead : AddMapping(t)
    BY <1>5
  <2>2. p \in Ports /\ now' = now /\ pending' = pending /\ OthersKept(p) /\ pump.pc = "add" /\ pump.port = p
    BY <2>0, <2>1, AddMappingFacts
  <2>3. CASE UNCHANGED app /\ pump'.pc = "release" /\ pump'.port = p
    <3>1. ASSUME NEW q \in Ports, AwaitsRelay(q)'
          PROVE  IsRegistered(q)'
      <4>1. AwaitsRelay(q) /\ Same(q) /\ app'[q].last = app[q].last
        BY <2>2, <2>3, <3>1 DEF AwaitsRelay, Same
      <4> QED
        BY <1>0, <2>2, <4>1, RegistrationKept
    <3> QED
      BY <3>1 DEF RegisteredUntilTaken
  <2>4. CASE /\ pump' = Idling
             /\ \/ app'[p].phase = "closed"
                \/ app'[p].phase = "syn" /\ app'[p].verdict = "leaky"
    <3>1. pump'.pc = "idle"
      BY <2>4, IdlingIsKnown
    <3>2. ~AwaitsRelay(p)'
      BY <2>4, <3>1 DEF AwaitsRelay
    <3> QED
      BY <2>2, <3>1, <3>2, RegistrationsKeptThrough
  <2> QED
    BY <2>0, <2>1, <2>3, <2>4, AddMappingFacts
<1>6. CASE Release
  <2>0. PICK p \in Ports : p = pump.port
    BY <1>6, ReleaseFacts
  <2>1. /\ p \in Ports /\ pump.pc = "release" /\ pump.port = p /\ pump'.pc = "idle" /\ now' = now
        /\ pending' = pending /\ OthersKept(p) /\ Same(p) /\ app'[p].last = app[p].last
    BY <1>6, <2>0, ReleaseFacts, IdlingIsKnown DEF natVars
  <2>2. ASSUME NEW q \in Ports, AwaitsRelay(q)'
        PROVE  IsRegistered(q)'
    <3>1. AwaitsRelay(q) /\ Same(q) /\ app'[q].last = app[q].last
      BY <2>1, <2>2 DEF AwaitsRelay, Same, OthersKept
    <3> QED
      BY <1>0, <2>1, <3>1, RegistrationKept
  <2> QED
    BY <2>2 DEF RegisteredUntilTaken
<1>7. CASE \E p \in Ports, t \in TimesRead : AppSends(p, t)
  <2>1. PICK p \in Ports, t \in TimesRead : AppSends(p, t)
    BY <1>7
  <2>2. /\ UNCHANGED <<now, pump, pending>> /\ OthersKept(p) /\ app[p].phase # "deciding"
        /\ app'[p].phase # "syn"
    BY <2>1, AppSendsFacts
  <2>3. ~AwaitsRelay(p)'
    BY <2>2, PumpFacts DEF AwaitsRelay
  <2> QED
    BY <2>2, <2>3, RegistrationsKeptThrough
<1>8. CASE \E c \in conns, t \in TimesRead : RelaySends(c, t)
  <2>1. PICK c \in conns, t \in TimesRead : RelaySends(c, t)
    BY <1>8
  <2>2. /\ UNCHANGED <<now, pump, pending>> /\ OthersKept(c.port) /\ ~c.done /\ c.port \in Ports
        /\ app'[c.port].phase = app[c.port].phase /\ app'[c.port].verdict = app[c.port].verdict
    BY <2>1, RelaySendsFacts
  <2>3. ~AwaitsRelay(c.port)
    BY <2>2, AwaitingIsQuiet DEF Quiet
  <2>4. ~AwaitsRelay(c.port)'
    BY <2>2, <2>3 DEF AwaitsRelay
  <2> QED
    BY <2>2, <2>4, RegistrationsKeptThrough
<1>9. CASE Reap
  BY <1>0, <1>9, ReapFacts, RegistrationsKeptMeanwhile DEF natVars
<1>10. CASE Take
  <2> DEFINE b == Head(backlog)
             mine == {e \in Unexpired : e.port = b.port}
  <2>1. /\ backlog \in Seq(Waiting) /\ backlog # <<>> /\ backlog' = Tail(backlog)
        /\ pending' = Unexpired \ mine /\ UNCHANGED <<now, app, pump>>
    BY <1>10, TakeFacts, TypeParts DEF RelayIsTyped, natVars
  <2>2. b = backlog[1] /\ 1 \in 1..Len(backlog)
    BY <2>1, BacklogShrinks
  <2>3. \A p \in Ports : AwaitsRelay(p) => b.port # p
    BY <2>2, AwaitingIsQuiet DEF Quiet
  <2>4. \A e \in pending : e \in Unexpired \/ now - e.added >= PendingTTL
    BY <1>0, Fields DEF Unexpired
  <2> HIDE DEF b
  <2>5. \A p \in Ports, e \in pending : AwaitsRelay(p) /\ e.port = p =>
          e \in pending' \/ now - e.added >= PendingTTL
    BY <2>1, <2>3, <2>4
  <2> QED
    BY <1>0, <2>1, <2>5, RegistrationsKeptMeanwhile
<1>11. CASE \E c \in conns : WorkerEnds(c)
  <2>1. UNCHANGED <<now, app, pump, pending>>
    BY <1>11, WorkerEndsFacts DEF natVars
  <2> QED
    BY <1>0, <2>1, RegistrationsKeptMeanwhile
<1>12. CASE \E e \in exiting : CloseCallback(e)
  <2>1. UNCHANGED <<now, app, pump, pending>>
    BY <1>12, CloseCallbackFacts
  <2> QED
    BY <1>0, <2>1, RegistrationsKeptMeanwhile
<1>13. CASE TimePasses \/ UNCHANGED redirectVars
  BY <1>13, TimeFacts, RegistrationsKeptMeanwhile
<1> QED
  BY <1>1, <1>2, <1>3, <1>4, <1>5, <1>6, <1>7, <1>8, <1>9, <1>10, <1>11, <1>12, <1>13 DEF RedirectNext

-----------------------------------------------------------------------------
\* A redirected flow keeps a mapping as fresh as itself.

\* Where a redirected flow's connection is, nothing else of its port is.
LEMMA RedirectedOwnsPort ==
  ASSUME RedirectTypeInv, PortsAreOwn, NEW p \in Ports, IsRedirected(p)
  PROVE  /\ \A e \in exiting : e.port # p
         /\ \A c \in conns : c.port = p /\ ~c.done => app[p].phase = "up" /\ c.id = app[p].id
<1>1. CASE app[p].phase \in {"syn", "deciding"}
  BY <1>1 DEF PortsAreOwn, Quiet
<1>2. CASE app[p].phase = "up" /\ RelaySideOpen(p)
  <2>1. \A e \in exiting : e.port # p
    <3>1. CASE \E i \in 1..Len(backlog) : backlog[i].id = app[p].id
      BY <3>1, TypeParts DEF IdsNamePorts, PortsAreOwn
    <3>2. CASE \E c \in conns : c.id = app[p].id /\ ~c.done
      BY <3>2, TypeParts DEF IdsNamePorts, PortsAreOwn
    <3> QED
      BY <1>2, <3>1, <3>2 DEF RelaySideOpen
  <2> QED
    BY <1>2, <2>1 DEF PortsAreOwn
<1> QED
  BY <1>1, <1>2, PumpFacts DEF IsRedirected

\* What a flow's mapping is made of.
LEMMA ShieldFacts ==
  ASSUME RedirectTypeInv, NEW p \in Ports, NEW i, Shields(i, p), IsFresh(p)
  PROVE  /\ i \in Used /\ i \in Slots /\ i \in SlotsOf(p) /\ slots[i].port = p /\ slots[i].dst = app[p].dst
         /\ ~slots[i].closed /\ slots[i].seen >= app[p].last
         /\ \A t \in TimesRead : ~Expired(slots[i], t)
<1>1. /\ i \in Used /\ i \in Slots /\ i \in SlotsOf(p) /\ slots[i].port = p /\ slots[i].dst = app[p].dst
      /\ ~slots[i].closed /\ slots[i].seen >= app[p].last
  BY DEF Shields, SlotsOf, Used
<1>2. slots[i].seen \in Nat
  BY <1>1, TypeParts DEF NatInv, NatTypeOK, Used, Entries
<1>3. ASSUME NEW t \in TimesRead
      PROVE  ~Expired(slots[i], t)
  <2>1. t \in Nat /\ t <= now /\ now \in Nat /\ app[p].last \in Nat /\ TTL \in Nat
    BY Fields, RedirectConstants DEF TimesRead
  <2> QED
    BY <1>1, <1>2, <2>1 DEF Expired, IsFresh
<1> QED
  BY <1>1, <1>3

\* The flow was redirected as it is now, and its slot is what it was.
LEMMA MappingKept ==
  ASSUME RedirectTypeInv, MappingsAreFresh, NEW p \in Ports, IsRedirected(p), Same(p),
         app'[p].last = app[p].last, now' \in Nat, now' >= now, IsFresh(p)',
         \A i \in Used : /\ slots[i].port = p /\ ~slots[i].closed
                         /\ \A t \in TimesRead : ~Expired(slots[i], t)
                         => i \in Used' /\ slots'[i] = slots[i]
  PROVE  \E i \in Slots : Shields(i, p)'
<1>1. IsFresh(p)
  <2>1. now \in Nat /\ app[p].last \in Nat /\ TTL \in Nat
    BY Fields, RedirectConstants
  <2> QED
    BY <2>1 DEF IsFresh
<1>2. PICK i \in Slots : Shields(i, p)
  BY <1>1 DEF MappingsAreFresh
<1>3. i \in Used' /\ slots'[i] = slots[i]
  BY <1>1, <1>2, ShieldFacts
<1>4. Shields(i, p)'
  BY <1>1, <1>2, <1>3, ShieldFacts DEF Shields, SlotsOf, Same
<1> QED
  BY <1>4

\* The lookup of the flow's own packet: its mapping answers, and is as fresh as the packet.
LEMMA PacketFindsMapping ==
  ASSUME RedirectTypeInv, MappingsAreFresh, NEW p \in Ports, NEW t \in TimesRead, Find(p, t),
         IsRedirected(p), IsFresh(p)
  PROVE  /\ reply' = app[p].dst
         /\ Same(p) /\ app'[p].last = t => \E i \in Slots : Shields(i, p)'
<1>1. PICK i \in Slots : Shields(i, p)
  BY DEF MappingsAreFresh
<1>2. /\ i \in Used /\ i \in SlotsOf(p) /\ slots[i].port = p /\ slots[i].dst = app[p].dst
      /\ ~slots[i].closed /\ ~Expired(slots[i], t)
  BY <1>1, ShieldFacts
<1>3. /\ reply' = slots[i].dst /\ slots'[i].seen = t /\ Used' = Used
      /\ slots'[i].port = slots[i].port /\ slots'[i].dst = slots[i].dst
      /\ slots'[i].closed = slots[i].closed
  BY <1>2, TypeParts, FindFacts
<1>4. t >= t
  BY Fields DEF TimesRead
<1>5. ASSUME Same(p), app'[p].last = t
      PROVE  Shields(i, p)'
  BY <1>2, <1>3, <1>4, <1>5 DEF Shields, SlotsOf, Same
<1> QED
  BY <1>2, <1>3, <1>5

\* ... and a packet that keeps the flow fresh found it fresh.
LEMMA PacketKeepsMapping ==
  ASSUME RedirectTypeInv, MappingsAreFresh, NEW p \in Ports, NEW t \in TimesRead, Find(p, t),
         IsRedirected(p), Same(p), app'[p].last = Passed(app[p], t), now' = now, IsFresh(p)'
  PROVE  \E i \in Slots : Shields(i, p)'
<1>1. IsFresh(p) /\ app'[p].last = t
  <2>1. now \in Nat /\ app[p].last \in Nat /\ TTL \in Nat /\ t \in Nat
    BY Fields, RedirectConstants, PassedIsTime
  <2> QED
    BY <2>1 DEF IsFresh, Passed
<1> QED
  BY <1>1, PacketFindsMapping

\* Only the flow of one port changes, and it is not redirected after the step.
LEMMA MappingsKeptThrough ==
  ASSUME RedirectTypeInv, MappingsAreFresh, NEW p \in Ports, OthersKept(p), ~IsRedirected(p)',
         \/ UNCHANGED pump \/ pump'.pc # "release",
         UNCHANGED <<slots, now, backlog, conns>>
  PROVE  MappingsAreFresh'
<1>1. ASSUME NEW q \in Ports, IsRedirected(q)', IsFresh(q)'
      PROVE  \E i \in Slots : Shields(i, q)'
  <2>1. q # p
    BY <1>1
  <2>2. app'[q] = app[q] /\ IsRedirected(q)
    BY <1>1, <2>1 DEF OthersKept, IsRedirected, RelaySideOpen
  <2>3. /\ Same(q) /\ app'[q].last = app[q].last /\ now' \in Nat /\ now' >= now
        /\ Used' = Used
    BY <2>2, Fields DEF Same, Used
  <2> QED
    BY <1>1, <2>2, <2>3, MappingKept
<1> QED
  BY <1>1 DEF MappingsAreFresh

\* The relay or the clock moves on, and opens no connection.
LEMMA MappingsKeptMeanwhile ==
  ASSUME RedirectTypeInv, MappingsAreFresh, UNCHANGED <<app, pump>>, now' \in Nat, now' >= now,
         \A p \in Ports : RelaySideOpen(p)' => RelaySideOpen(p),
         \A p \in Ports, i \in Used : IsRedirected(p) /\ slots[i].port = p =>
           i \in Used' /\ slots'[i] = slots[i]
  PROVE  MappingsAreFresh'
<1>1. ASSUME NEW p \in Ports, IsRedirected(p)', IsFresh(p)'
      PROVE  \E i \in Slots : Shields(i, p)'
  <2>1. IsRedirected(p) /\ Same(p) /\ app'[p].last = app[p].last
    BY <1>1 DEF IsRedirected, Same
  <2> QED
    BY <1>1, <2>1, MappingKept
<1> QED
  BY <1>1 DEF MappingsAreFresh

\* Every step keeps the mappings of redirected flows as fresh as the flows.
LEMMA MappingsStayFresh ==
  ASSUME RedirectTypeInv, PortsAreOwn, MappingsAreFresh, ~RecyclePorts, [RedirectNext]_redirectVars
  PROVE  MappingsAreFresh'
<1>1. now \in Nat /\ now >= now /\ NatInv
  BY Fields, TypeParts
<1>2. CASE \E p \in Ports, d \in Dsts : Connect(p, d)
  <2>1. PICK p \in Ports, d \in Dsts : Connect(p, d)
    BY <1>2
  <2>2. ~IsRedirected(p)'
    BY <2>1, ConnectFacts, PumpFacts DEF IsRedirected
  <2> QED
    BY <2>1, <2>2, ConnectFacts, MappingsKeptThrough
<1>3. CASE \E p \in Ports : AppCloses(p)
  <2>1. PICK p \in Ports : AppCloses(p)
    BY <1>3
  <2>2. ~IsRedirected(p)'
    BY <2>1, AppClosesFacts, PumpFacts DEF IsRedirected
  <2> QED
    BY <2>1, <2>2, AppClosesFacts, MappingsKeptThrough
<1>4. CASE \E p \in Ports : Decide(p)
  <2>1. PICK p \in Ports : Decide(p)
    BY <1>4
  <2>2. pump'.pc # "release" /\ UNCHANGED <<slots, now, backlog, conns>> /\ OthersKept(p)
    BY <2>1, DecideFacts DEF natVars
  <2>3. ~IsRedirected(p)'
    BY <2>1, <2>2, DecideFacts DEF IsRedirected
  <2> QED
    BY <2>2, <2>3, MappingsKeptThrough
<1>5. CASE Register
  <2>1. PICK p \in Ports : p = pump.port
    BY <1>5, RegisterFacts
  <2>2. UNCHANGED <<slots, now, backlog, conns>> /\ OthersKept(p) /\ pump'.pc # "release"
    BY <1>5, <2>1, RegisterFacts, IdlingIsKnown DEF natVars
  <2>3. ~IsRedirected(p)'
    BY <1>5, <2>1, <2>2, RegisterFacts DEF IsRedirected
  <2> QED
    BY <2>2, <2>3, MappingsKeptThrough
<1>6. CASE \E t \in TimesRead : AddMapping(t)
  <2>1. PICK t \in TimesRead : AddMapping(t)
    BY <1>6
  <2>2. PICK p \in Ports : p = pump.port
    BY <2>1, AddMappingFacts
  <2>3. /\ app[p].dst \in Dsts /\ t >= app[p].last /\ Add(p, app[p].dst, t) /\ OthersKept(p)
        /\ UNCHANGED <<now, backlog, conns>>
    BY <2>1, <2>2, AddMappingFacts
  <2>4. CASE reply' = "ok"
    <3>1. UNCHANGED app /\ pump'.pc = "release" /\ pump'.port = p
      BY <2>1, <2>2, <2>4, AddMappingFacts
    <3>2. PICK i \in Slots :
            /\ i \in Used' /\ slots'[i].port = p /\ slots'[i].dst = app[p].dst /\ ~slots'[i].closed
            /\ slots'[i].seen = t
            /\ \A j \in Used : /\ slots[j].port # p /\ ~slots[j].closed /\ ~Expired(slots[j], t)
                               => j # i /\ j \in Used' /\ slots'[j] = slots[j]
      BY <1>1, <2>3, <2>4, AddFacts
    <3>3. Shields(i, p)'
      BY <2>3, <3>1, <3>2 DEF Shields, SlotsOf
    <3>4. ASSUME NEW q \in Ports, q # p, IsRedirected(q)', IsFresh(q)'
          PROVE  \E j \in Slots : Shields(j, q)'
      <4>1. IsRedirected(q) /\ Same(q) /\ app'[q].last = app[q].last
        BY <2>3, <3>1, <3>4 DEF IsRedirected, RelaySideOpen, Same
      <4>2. \A j \in Used : /\ slots[j].port = q /\ ~slots[j].closed
                            /\ \A s \in TimesRead : ~Expired(slots[j], s)
                            => j \in Used' /\ slots'[j] = slots[j]
        BY <3>2, <3>4
      <4> QED
        BY <1>1, <2>3, <3>4, <4>1, <4>2, MappingKept
    <3> QED
      BY <3>3, <3>4 DEF MappingsAreFresh
  <2>5. CASE reply' # "ok"
    <3>1. UNCHANGED slots
      BY <1>1, <2>3, <2>5, AddFacts
    <3>2. pump'.pc = "idle"
      BY <2>1, <2>5, AddMappingFacts, IdlingIsKnown
    <3>3. ~IsRedirected(p)'
      BY <2>1, <2>2, <2>5, <3>2, AddMappingFacts DEF IsRedirected
    <3> QED
      BY <2>3, <3>1, <3>2, <3>3, MappingsKeptThrough
  <2> QED
    BY <2>4, <2>5
<1>7. CASE Release
  <2>1. PICK p \in Ports : p = pump.port
    BY <1>7, ReleaseFacts
  <2>2. /\ pump.pc = "release" /\ pump.port = p /\ pump'.pc = "idle" /\ OthersKept(p) /\ Same(p)
        /\ app'[p].last = app[p].last /\ UNCHANGED <<slots, now, backlog, conns>>
    BY <1>7, <2>1, ReleaseFacts, IdlingIsKnown DEF natVars
  <2>3. ASSUME NEW q \in Ports, IsRedirected(q)', IsFresh(q)'
        PROVE  \E i \in Slots : Shields(i, q)'
    <3>1. IsRedirected(q) /\ Same(q) /\ app'[q].last = app[q].last
      BY <2>2, <2>3 DEF IsRedirected, RelaySideOpen, OthersKept, Same
    <3>2. Used' = Used
      BY <2>2 DEF Used
    <3> QED
      BY <1>1, <2>2, <2>3, <3>1, <3>2, MappingKept
  <2> QED
    BY <2>3 DEF MappingsAreFresh
<1>8. CASE \E p \in Ports, t \in TimesRead : AppSends(p, t)
  <2>1. PICK p \in Ports, t \in TimesRead : AppSends(p, t)
    BY <1>8
  <2>2. /\ Find(p, t) /\ UNCHANGED <<now, pump, conns>> /\ OthersKept(p) /\ Same(p)
        /\ app[p].phase \in {"syn", "up", "direct"}
        /\ app'[p].verdict = app[p].verdict /\ app'[p].last = Passed(app[p], t)
        /\ app'[p].phase = "up" => app[p].phase = "syn" \/ (app[p].phase = "up" /\ UNCHANGED backlog)
        /\ app'[p].phase # "syn"
    BY <2>1, AppSendsFacts
  <2>3. ASSUME IsRedirected(p)', IsFresh(p)'
        PROVE  \E i \in Slots : Shields(i, p)'
    <3>1. ~(pump.pc = "release" /\ pump.port = p)
      BY <2>2, PumpFacts
    <3>2. IsRedirected(p)
      BY <2>2, <2>3, <3>1 DEF IsRedirected, RelaySideOpen, Same
    <3> QED
      BY <2>2, <2>3, <3>2, PacketKeepsMapping
  <2>4. ASSUME NEW q \in Ports, q # p, IsRedirected(q)', IsFresh(q)'
        PROVE  \E i \in Slots : Shields(i, q)'
    <3>1. app'[q] = app[q]
      BY <2>2, <2>4 DEF OthersKept
    <3>2. RelaySideOpen(q)' => RelaySideOpen(q)
      <4>1. CASE UNCHANGED backlog
        BY <2>2, <3>1, <4>1 DEF RelaySideOpen
      <4>2. CASE backlog' = Append(backlog, Arriving(p))
        <5> DEFINE b == Arriving(p)
        <5>1. backlog \in Seq(Waiting) /\ b \in Waiting /\ b.id = app[p].id
          BY <2>2, ArrivingFacts, TypeParts DEF RelayIsTyped
        <5>2. app[q].id # b.id
          BY <2>2, <2>4, <5>1, TypeParts DEF IdsAreGiven
        <5> HIDE DEF b
        <5>3. \A i \in 1..Len(backlog') :
                backlog'[i] = b \/ (i \in 1..Len(backlog) /\ backlog'[i] = backlog[i])
          BY <4>2, <5>1, BacklogGrows DEF b
        <5> QED
          BY <2>2, <3>1, <5>2, <5>3 DEF RelaySideOpen
      <4> QED
        BY <2>1, <4>1, <4>2, AppSendsFacts
    <3>3. IsRedirected(q) /\ Same(q) /\ app'[q].last = app[q].last
      BY <2>2, <2>4, <3>1, <3>2 DEF IsRedirected, Same
    <3>4. /\ Used' = Used
          /\ \A i \in Used : slots[i].port = q => slots'[i] = slots[i]
      BY <1>1, <2>2, <2>4, FindFacts
    <3> QED
      BY <1>1, <2>2, <2>4, <3>3, <3>4, MappingKept
  <2> QED
    BY <2>3, <2>4 DEF MappingsAreFresh
<1>9. CASE \E c \in conns, t \in TimesRead : RelaySends(c, t)
  <2>1. PICK c \in conns, t \in TimesRead : RelaySends(c, t)
    BY <1>9
  <2>2. /\ ~c.done /\ c.port \in Ports /\ Find(c.port, t) /\ UNCHANGED <<now, pump, backlog, conns>>
        /\ OthersKept(c.port) /\ Same(c.port)
        /\ app'[c.port].verdict = app[c.port].verdict /\ app'[c.port].phase = app[c.port].phase
        /\ app[c.port].id # c.id \/ app'[c.port].last = Passed(app[c.port], t)
    BY <2>1, RelaySendsFacts
  <2>3. ASSUME NEW p \in Ports, IsRedirected(p)', IsFresh(p)'
        PROVE  \E i \in Slots : Shields(i, p)'
    <3>1. IsRedirected(p)
      BY <2>2, <2>3 DEF IsRedirected, RelaySideOpen, OthersKept, Same
    <3>2. CASE p = c.port
      <4>1. app'[p].last = Passed(app[p], t)
        BY <2>2, <3>1, <3>2, RedirectedOwnsPort
      <4> QED
        BY <2>2, <2>3, <3>1, <3>2, <4>1, PacketKeepsMapping
    <3>3. CASE p # c.port
      <4>1. Same(p) /\ app'[p].last = app[p].last
        BY <2>2, <3>3 DEF OthersKept, Same
      <4>2. Used' = Used /\ \A i \in Used : slots[i].port = p => slots'[i] = slots[i]
        BY <1>1, <2>2, <3>3, FindFacts
      <4> QED
        BY <1>1, <2>2, <2>3, <3>1, <4>1, <4>2, MappingKept
    <3> QED
      BY <3>2, <3>3
  <2> QED
    BY <2>3 DEF MappingsAreFresh
<1>10. CASE Reap
  <2>1. /\ conns' = {c \in conns : ~c.done} /\ UNCHANGED <<slots, now, app, pump, backlog>>
    BY <1>10, ReapFacts DEF natVars
  <2>2. Used' = Used /\ \A p \in Ports : RelaySideOpen(p)' => RelaySideOpen(p)
    BY <2>1 DEF Used, RelaySideOpen
  <2> QED
    BY <1>1, <2>1, <2>2, MappingsKeptMeanwhile
<1>11. CASE Take
  <2> DEFINE b == Head(backlog)
  <2>1. /\ backlog \in Seq(Waiting) /\ backlog # <<>> /\ backlog' = Tail(backlog)
        /\ UNCHANGED <<slots, now, app, pump>>
    BY <1>11, TakeFacts, TypeParts DEF RelayIsTyped, natVars
  <2>2. /\ b = backlog[1] /\ 1 \in 1..Len(backlog)
        /\ \A i \in 1..Len(backlog') : i + 1 \in 1..Len(backlog) /\ backlog'[i] = backlog[i + 1]
    BY <2>1, BacklogShrinks
  <2>3. \A c \in conns' : c \in conns \/ c.id = b.id
    BY <1>11, TakeFacts
  <2> HIDE DEF b
  <2>4. Used' = Used /\ \A p \in Ports : RelaySideOpen(p)' => RelaySideOpen(p)
    BY <2>1, <2>2, <2>3 DEF Used, RelaySideOpen
  <2> QED
    BY <1>1, <2>1, <2>4, MappingsKeptMeanwhile
<1>12. CASE \E c \in conns : WorkerEnds(c)
  <2>1. PICK c \in conns : WorkerEnds(c)
    BY <1>12
  <2>2. PICK d \in Relayed : d.done /\ conns' = (conns \ {c}) \cup {d}
                             /\ UNCHANGED <<slots, now, app, pump, backlog>>
    BY <2>1, WorkerEndsFacts DEF natVars
  <2>3. Used' = Used /\ \A p \in Ports : RelaySideOpen(p)' => RelaySideOpen(p)
    BY <2>2 DEF Used, RelaySideOpen
  <2> QED
    BY <1>1, <2>2, <2>3, MappingsKeptMeanwhile
<1>13. CASE \E e \in exiting : CloseCallback(e)
  <2>1. PICK e \in exiting : CloseCallback(e)
    BY <1>13
  <2>2. MarkClosed(e.port) /\ e.port \in Ports /\ UNCHANGED <<now, app, pump, backlog, conns>>
    BY <2>1, CloseCallbackFacts
  <2>3. Used' = Used /\ \A i \in Used : slots[i].port # e.port => slots'[i] = slots[i]
    BY <1>1, <2>2, MarkClosedFacts
  <2>4. \A p \in Ports : IsRedirected(p) => e.port # p
    BY RedirectedOwnsPort
  <2>5. \A p \in Ports : RelaySideOpen(p)' => RelaySideOpen(p)
    BY <2>2 DEF RelaySideOpen
  <2> QED
    BY <1>1, <2>2, <2>3, <2>4, <2>5, MappingsKeptMeanwhile
<1>14. CASE TimePasses \/ UNCHANGED redirectVars
  <2>1. UNCHANGED <<slots, app, pump, backlog, conns>> /\ now' \in Nat /\ now' >= now
    BY <1>14, TimeFacts
  <2>2. Used' = Used /\ \A p \in Ports : RelaySideOpen(p)' => RelaySideOpen(p)
    BY <2>1 DEF Used, RelaySideOpen
  <2> QED
    BY <2>1, <2>2, MappingsKeptMeanwhile
<1> QED
  BY <1>2, <1>3, <1>4, <1>5, <1>6, <1>7, <1>8, <1>9, <1>10, <1>11, <1>12, <1>13, <1>14 DEF RedirectNext

-----------------------------------------------------------------------------
\* And keeps it in the backlog.

\* A waiting connection's registration is there after the step, or aged out.
LEMMA EntryKept ==
  ASSUME RedirectTypeInv, NEW b \in Waiting, HasEntry(b), now' \in Nat, now' >= now,
         \A e \in pending : e.port = b.port => e \in pending' \/ now - e.added >= PendingTTL
  PROVE  HasEntry(b)'
<1>1. /\ now \in Nat /\ b.since \in Nat /\ PendingTTL \in Nat
      /\ \A e \in pending : e.added \in Nat
  BY Fields, RedirectConstants DEF Waiting
<1>2. CASE now - b.since >= PendingTTL
  <2>1. now' - b.since >= PendingTTL
    BY <1>1, <1>2
  <2> QED
    BY <2>1 DEF HasEntry
<1>3. CASE \E e \in pending : e.port = b.port /\ e.dst = b.dst /\ e.added >= b.since
  <2>1. PICK e \in pending : e.port = b.port /\ e.dst = b.dst /\ e.added >= b.since
    BY <1>3
  <2>2. CASE e \in pending'
    BY <2>1, <2>2 DEF HasEntry
  <2>3. CASE now - e.added >= PendingTTL
    <3>1. now' - b.since >= PendingTTL
      BY <1>1, <2>1, <2>3
    <3> QED
      BY <3>1 DEF HasEntry
  <2> QED
    BY <2>1, <2>2, <2>3
<1> QED
  BY <1>2, <1>3 DEF HasEntry

\* No connection joins the backlog, and registrations go only with those they are for.
LEMMA BacklogKept ==
  ASSUME RedirectTypeInv, BacklogIsRegistered, now' \in Nat, now' >= now,
         \A i \in 1..Len(backlog') :
           \E j \in 1..Len(backlog) :
             /\ backlog'[i] = backlog[j]
             /\ \A e \in pending :
                  e.port = backlog[j].port => e \in pending' \/ now - e.added >= PendingTTL
  PROVE  BacklogIsRegistered'
<1>1. ASSUME NEW i \in 1..Len(backlog'), backlog'[i].verdict = "proxy"
      PROVE  HasEntry(backlog[i])'
  <2>1. PICK j \in 1..Len(backlog) :
          /\ backlog'[i] = backlog[j]
          /\ \A e \in pending :
               e.port = backlog[j].port => e \in pending' \/ now - e.added >= PendingTTL
    OBVIOUS
  <2>2. PICK b \in Waiting : b = backlog[j]
    BY Fields
  <2>3. HasEntry(b)
    BY <1>1, <2>1, <2>2 DEF BacklogIsRegistered
  <2>4. HasEntry(b)'
    BY <2>1, <2>2, <2>3, EntryKept
  <2> QED
    BY <2>1, <2>2, <2>4 DEF HasEntry
<1> QED
  BY <1>1 DEF BacklogIsRegistered

\* Neither the relay's listener nor its registrations are touched.
LEMMA BacklogUntouched ==
  ASSUME RedirectTypeInv, BacklogIsRegistered, UNCHANGED <<pending, backlog>>, now' \in Nat, now' >= now
  PROVE  BacklogIsRegistered'
BY BacklogKept

\* Every step keeps the flows in the backlog registered.
LEMMA BacklogStaysRegistered ==
  ASSUME RedirectTypeInv, PortsAreOwn, RegisteredUntilTaken, BacklogIsRegistered, ~RecyclePorts,
         [RedirectNext]_redirectVars
  PROVE  BacklogIsRegistered'
<1>0. now \in Nat /\ now >= now
  BY Fields
<1>1. CASE \/ \E p \in Ports, d \in Dsts : Connect(p, d)
           \/ \E p \in Ports : AppCloses(p)
           \/ \E p \in Ports : Decide(p)
           \/ \E t \in TimesRead : AddMapping(t)
           \/ Release
  BY <1>0, <1>1, ConnectFacts, AppClosesFacts, DecideFacts, AddMappingFacts, ReleaseFacts,
     BacklogUntouched DEF natVars
<1>2. CASE \/ \E c \in conns, t \in TimesRead : RelaySends(c, t)
           \/ Reap
           \/ \E c \in conns : WorkerEnds(c)
           \/ \E e \in exiting : CloseCallback(e)
           \/ TimePasses
           \/ UNCHANGED redirectVars
  BY <1>0, <1>2, RelaySendsFacts, ReapFacts, WorkerEndsFacts, CloseCallbackFacts, TimeFacts,
     BacklogUntouched DEF natVars
<1>3. CASE Register
  <2>1. PICK p \in Ports : p = pump.port
    BY <1>3, RegisterFacts
  <2>2. /\ now' = now /\ backlog' = backlog /\ app[p].phase = "deciding"
        /\ \A e \in pending : e.port # p => e \in pending' \/ now - e.added >= PendingTTL
    BY <1>3, <2>1, RegisterFacts DEF natVars
  <2>3. \A i \in 1..Len(backlog) : backlog[i].port # p
    BY <2>2 DEF PortsAreOwn, Quiet
  <2> QED
    BY <1>0, <2>2, <2>3, BacklogKept
<1>4. CASE \E p \in Ports, t \in TimesRead : AppSends(p, t)
  <2>1. PICK p \in Ports, t \in TimesRead : AppSends(p, t)
    BY <1>4
  <2>2. UNCHANGED <<now, pending>> /\ app[p].phase \in {"syn", "up", "direct"}
    BY <2>1, AppSendsFacts
  <2>3. CASE UNCHANGED backlog
    BY <1>0, <2>2, <2>3, BacklogUntouched
  <2>4. CASE app[p].phase = "syn" /\ backlog' = Append(backlog, Arriving(p))
    <3>1. PICK b \in Waiting :
            b = Arriving(p) /\ b.port = p /\ b.dst = app[p].dst /\ b.verdict = app[p].verdict
            /\ b.since = app[p].last
      BY <2>2, ArrivingFacts
    <3>2. b.verdict = "proxy" => HasEntry(b)
      <4>1. b.verdict = "proxy" => IsRegistered(p)
        BY <2>4, <3>1 DEF RegisteredUntilTaken, AwaitsRelay
      <4> QED
        BY <3>1, <4>1 DEF IsRegistered, HasEntry
    <3>3. \A i \in 1..Len(backlog') :
            backlog'[i] = b \/ (i \in 1..Len(backlog) /\ backlog'[i] = backlog[i])
      <4>1. backlog \in Seq(Waiting) /\ backlog' = Append(backlog, b)
        BY <2>4, <3>1, TypeParts DEF RelayIsTyped
      <4> QED
        BY <4>1, BacklogGrows
    <3> QED
      BY <2>2, <3>2, <3>3 DEF BacklogIsRegistered, HasEntry
  <2> QED
    BY <2>1, <2>3, <2>4, AppSendsFacts
<1>5. CASE Take
  <2> DEFINE b == Head(backlog)
             mine == {e \in Unexpired : e.port = b.port}
  <2>1. /\ backlog \in Seq(Waiting) /\ backlog # <<>> /\ backlog' = Tail(backlog)
        /\ pending' = Unexpired \ mine /\ UNCHANGED now
    BY <1>5, TakeFacts, TypeParts DEF RelayIsTyped, natVars
  <2>2. /\ b = backlog[1] /\ 1 \in 1..Len(backlog) /\ Len(backlog) \in Nat
        /\ \A i \in 1..Len(backlog') : i + 1 \in 1..Len(backlog) /\ backlog'[i] = backlog[i + 1]
    BY <2>1, BacklogShrinks
  <2>3. \A e \in pending : e \in Unexpired \/ now - e.added >= PendingTTL
    BY <1>0, Fields, RedirectConstants DEF Unexpired
  <2> HIDE DEF b
  <2>4. ASSUME NEW i \in 1..Len(backlog')
        PROVE  /\ i + 1 \in 1..Len(backlog) /\ backlog'[i] = backlog[i + 1]
               /\ \A e \in pending :
                    e.port = backlog[i + 1].port => e \in pending' \/ now - e.added >= PendingTTL
    <3>1. i + 1 \in 1..Len(backlog) /\ i + 1 # 1 /\ backlog'[i] = backlog[i + 1]
      BY <2>2
    <3>2. backlog[i + 1].port # b.port
      BY <2>2, <3>1 DEF PortsAreOwn
    <3> QED
      BY <2>1, <2>3, <3>1, <3>2
  <2> QED
    BY <1>0, <2>1, <2>4, BacklogKept
<1> QED
  BY <1>1, <1>2, <1>3, <1>4, <1>5 DEF RedirectNext

-----------------------------------------------------------------------------
\* The inductive invariant and what follows from it.
LEMMA RedirectInvInitially == RedirectInit => RedirectInv
<1> SUFFICES ASSUME RedirectInit PROVE RedirectInv
  OBVIOUS
<1>1. /\ \A p \in Ports : app[p] = NoFlow
      /\ pump = Idling /\ pending = {} /\ backlog = <<>> /\ Len(backlog) = 0
      /\ conns = {} /\ exiting = {}
  BY DEF RedirectInit
<1>2. \A p \in Ports : app[p].phase = "closed" /\ app[p].verdict = "undecided" /\ pump.pc = "idle"
  BY <1>1 DEF NoFlow, Idling
<1>3. PortsAreOwn
  BY <1>1, <1>2 DEF PortsAreOwn
<1>4. TablesAgree
  BY <1>1 DEF TablesAgree, RightDestination
<1>5. RegisteredUntilTaken /\ BacklogIsRegistered /\ MappingsAreFresh
  BY <1>1, <1>2 DEF RegisteredUntilTaken, AwaitsRelay, BacklogIsRegistered, MappingsAreFresh, IsRedirected
<1> QED
  BY <1>3, <1>4, <1>5, RedirectTypeInvInitially DEF RedirectInv

\* ... and the five layers carry it through every step ...
LEMMA RedirectInvInductive ==
  ASSUME RedirectInv, ~RecyclePorts, [RedirectNext]_redirectVars
  PROVE  RedirectInv'
BY RedirectTypeInvInductive, PortsStayOwn, TablesStayAgreed, FlowsStayRegistered,
   BacklogStaysRegistered, MappingsStayFresh DEF RedirectInv

\* ... so it always holds.
LEMMA RedirectInvAlways ==
  ASSUME ~RecyclePorts
  PROVE  RedirectSpec => []RedirectInv
<1>1. RedirectInv /\ [RedirectNext]_redirectVars => RedirectInv'
  BY RedirectInvInductive
<1> QED
  BY <1>1, RedirectInvInitially, PTL DEF RedirectSpec

\* The registrations are right in every such state.
LEMMA RegistrationsFollow ==
  ASSUME RedirectInv
  PROVE  RegistrationsAreRight
<1>1. RightDestination
  BY DEF RedirectInv, TablesAgree
<1>2. ASSUME NEW p \in Ports, app[p].phase = "syn", app[p].verdict = "proxy"
      PROVE  Registered(p, app[p].dst, app[p].last)
  BY <1>2 DEF RedirectInv, RegisteredUntilTaken, AwaitsRelay, IsRegistered, Registered
<1>3. ASSUME NEW i \in 1..Len(backlog), backlog[i].verdict = "proxy"
      PROVE  Registered(backlog[i].port, backlog[i].dst, backlog[i].since)
  BY <1>3 DEF RedirectInv, BacklogIsRegistered, HasEntry, Registered
<1> QED
  BY <1>1, <1>2, <1>3 DEF RegistrationsAreRight, ReleasedFlowsAreRegistered

\* For every size of the table and of the relay, every TTL and clock lag, and with ports
\* that are reused only when the relay is done with them: relay_take never hands a
\* connection another one's registration, and a flow whose SYN was released has its own
\* until the relay takes it, also in the accept backlog, or it ages out.
THEOREM RegistrationsAreAlwaysRight == ~RecyclePorts => (RedirectSpec => []RegistrationsAreRight)
<1> SUFFICES ASSUME ~RecyclePorts PROVE RedirectSpec => []RegistrationsAreRight
  OBVIOUS
<1> QED
  BY RedirectInvAlways, RegistrationsFollow, PTL

\* What the pump's lookup answers to a packet of a flow in use.
LEMMA ProtectedIsRewritten ==
  ASSUME RedirectInv, NEW p \in Ports, Protected(p), NEW t \in TimesRead, AppSends(p, t)
  PROVE  reply' = app[p].dst
<1>1. RedirectTypeInv /\ MappingsAreFresh
  BY DEF RedirectInv
<1>2. IsRedirected(p) /\ IsFresh(p)
  BY DEF Protected, IsRedirected, IsFresh
<1> QED
  BY <1>1, <1>2, PacketFindsMapping DEF AppSends

\* A packet of a proxied flow that is passing traffic is always rewritten to the relay:
\* not the expiry of its mapping, the reclaim of its slot for another flow nor the close
\* callback of another connection lets it egress direct.
THEOREM LiveFlowsAlwaysRedirected == ~RecyclePorts => (RedirectSpec => LiveFlowsStayRedirected)
<1> SUFFICES ASSUME ~RecyclePorts PROVE RedirectSpec => LiveFlowsStayRedirected
  OBVIOUS
<1>1. RedirectInv /\ [RedirectNext]_redirectVars =>
        [\A p \in Ports : Protected(p) /\ (\E t \in TimesRead : AppSends(p, t))
           => reply' = app[p].dst]_redirectVars
  BY ProtectedIsRewritten
<1> QED
  BY <1>1, RedirectInvAlways, PTL DEF RedirectSpec, LiveFlowsStayRedirected

-----------------------------------------------------------------------------
(* The verdict and the row of a flow.                                      *)

\* The backend thread has looked at the cap, and appends.
RoomIsKept == backend.pc = "enqueue" => Len(inbox) < InboxMax /\ backend.flow > 0

\* Rows, waiting flows and those to come, in the order of the reports; only flows
\* that left the inbox have a row.
FlowsInOrder ==
  /\ \A i, j \in 1..Len(log) : i < j => log[i] < log[j]
  /\ \A i, j \in 1..Len(inbox) : i < j => inbox[i] < inbox[j]
  /\ \A i \in 1..Len(log) : log[i] <= Handed
  /\ \A i \in 1..Len(inbox) : inbox[i] <= Handed
  /\ \A i \in 1..Len(log), j \in 1..Len(inbox) : log[i] < inbox[j]
  /\ \A j \in 1..Len(inbox) : logged[inbox[j]] = Nothing
  /\ \A f \in Flows : f > Handed => logged[f] = Nothing

\* A ring's index.
Wrapped(a) == a % RingSize

\* Position i of the ring, from its oldest row, is the log's len - i rows from the end.
RingMirrorsLog ==
  /\ len = IF Len(log) < RingSize THEN Len(log) ELSE RingSize
  /\ \A i \in 0..(len - 1) : events[Wrapped(head + i)] = log[Len(log) - len + i + 1]

VerdictsInv ==
  /\ VerdictsTypeOK /\ live \in past /\ SnapshotIsConsistent
  /\ RoomIsKept /\ FlowsInOrder /\ FlowsAccounted /\ RingMirrorsLog

\* The flows that have a row.
Shown == {f \in Flows : logged[f] # Nothing}

-----------------------------------------------------------------------------
\* What % does for indexes of a ring: they wrap at most once.
LEMMA WrapOnce ==
  ASSUME NEW a \in Nat, a < RingSize + RingSize
  PROVE  Wrapped(a) = IF a < RingSize THEN a ELSE a - RingSize
BY VerdictsAssumption DEF Wrapped

\* Constants in the form the steps below use them.
LEMMA VerdictConstants ==
  /\ InboxMax \in Nat \ {0} /\ RingSize \in Nat \ {0} /\ MaxFlows \in Nat /\ MaxEdits \in Nat
  /\ Nothing \notin Profiles
<1>1. \A pf \in Profiles : pf.proxies # MaxEdits + 1
  BY VerdictsAssumption DEF Profiles
<1>2. Nothing.proxies = MaxEdits + 1
  BY DEF Nothing
<1> QED
  BY <1>1, <1>2, VerdictsAssumption

\* The rows can be counted.
LEMMA RowsAreFinite == IsFiniteSet(Shown) /\ Rows \in Nat
<1>1. IsFiniteSet(Flows)
  BY VerdictConstants, FS_Interval DEF Flows
<1>2. IsFiniteSet(Shown)
  BY <1>1, FS_Subset DEF Shown
<1> QED
  BY <1>2, FS_CardinalityType DEF Rows, Shown

\* Flows are numbers.
LEMMA FlowsAreNumbers ==
  ASSUME VerdictsTypeOK
  PROVE  /\ \A i \in 1..Len(inbox) : inbox[i] \in Flows
         /\ \A i \in 1..Len(log) : log[i] \in Flows
         /\ \A f \in Flows : f \in Nat /\ f > 0 /\ f <= MaxFlows
         /\ inbox \in Seq(Flows) /\ log \in Seq(Flows)
         /\ Len(inbox) \in Nat /\ Len(log) \in Nat
<1>1. inbox \in Seq(Flows) /\ log \in Seq(Flows)
  BY DEF VerdictsTypeOK
<1>2. \A f \in Flows : f \in Nat /\ f > 0 /\ f <= MaxFlows
  BY VerdictConstants DEF Flows
<1> QED
  BY <1>1, <1>2

\* The account in the names used here.
LEMMA Account ==
  ASSUME VerdictsTypeOK
  PROVE  /\ FlowsAccounted <=> /\ Rows + Len(inbox) + dropped <= Handed
                               /\ ample => Rows + Len(inbox) + dropped = Handed
         /\ Rows \in Nat /\ Len(inbox) \in Nat /\ dropped \in Nat
         /\ Handed \in Int /\ Handed <= MaxFlows
         /\ backend.flow \in 0..MaxFlows /\ backend.pc \in {"idle", "enqueue", "decide"}
<1>1. FlowsAccounted <=> /\ Rows + Len(inbox) + dropped <= Handed
                         /\ ample => Rows + Len(inbox) + dropped = Handed
  BY DEF FlowsAccounted
<1>2. /\ backend.flow \in 0..MaxFlows /\ backend.pc \in {"idle", "enqueue", "decide"}
      /\ Len(inbox) \in Nat /\ dropped \in Nat
  BY DEF VerdictsTypeOK
<1>3. Handed \in Int /\ Handed <= MaxFlows
  BY <1>2, VerdictConstants DEF Handed
<1> QED
  BY <1>1, <1>2, <1>3, RowsAreFinite

\* Parts of the invariant whose variables keep still.
LEMMA Kept ==
  ASSUME VerdictsInv
  PROVE  /\ UNCHANGED ringVars => RingMirrorsLog'
         /\ UNCHANGED <<log, logged, inbox>> /\ Handed' = Handed => FlowsInOrder'
         /\ UNCHANGED <<ample, inboxVars, logged>> /\ Handed' = Handed => FlowsAccounted'
         /\ UNCHANGED <<live, snap, past>> => (live \in past)' /\ SnapshotIsConsistent'
<1> USE DEF VerdictsInv
<1>1. UNCHANGED ringVars => RingMirrorsLog'
  BY DEF RingMirrorsLog, ringVars
<1>2. UNCHANGED <<log, logged, inbox>> /\ Handed' = Handed => FlowsInOrder'
  BY DEF FlowsInOrder
<1>3. UNCHANGED <<ample, inboxVars, logged>> /\ Handed' = Handed => FlowsAccounted'
  BY DEF FlowsAccounted, Rows, inboxVars
<1>4. UNCHANGED <<live, snap, past>> => (live \in past)' /\ SnapshotIsConsistent'
  BY DEF SnapshotIsConsistent
<1> QED
  BY <1>1, <1>2, <1>3, <1>4

-----------------------------------------------------------------------------
\* engine_on_flow's first critical section: the flow is counted, or is to be appended.
LEMMA ReportKeepsInv ==
  ASSUME VerdictsInv, Report, UNCHANGED ample
  PROVE  VerdictsInv'
<1>0. VerdictsTypeOK /\ RoomIsKept /\ FlowsInOrder /\ FlowsAccounted
  BY DEF VerdictsInv
<1>1. /\ backend.pc = "idle" /\ backend.flow \in 0..MaxFlows /\ backend.flow < MaxFlows
      /\ Handed = backend.flow
  BY <1>0, Account DEF Report, Handed
<1>2. /\ UNCHANGED <<ample, live, edits, snap, running, inbox, inboxLen, draining, past, enforced>>
      /\ UNCHANGED ringVars /\ UNCHANGED <<log, logged>>
  BY DEF Report, ringVars
<1>3. /\ Rows + Len(inbox) + dropped <= backend.flow
      /\ ample => Rows + Len(inbox) + dropped = backend.flow
  BY <1>0, <1>1, Account
<1>4. UNCHANGED Rows
  BY <1>2 DEF Rows, Shown
<1>5. CASE inboxLen >= InboxMax
  <2>1. dropped' = dropped + 1 /\ backend' = [pc |-> "decide", flow |-> backend.flow + 1]
    BY <1>5 DEF Report
  <2>2. backend'.pc = "decide" /\ backend'.flow = backend.flow + 1 /\ Handed' = Handed + 1
    BY <1>1, <2>1 DEF Handed
  <2>3. dropped + 1 \in 0..MaxFlows
    BY <1>1, <1>3, <1>0, Account, VerdictConstants
  <2>4. VerdictsTypeOK'
    BY <1>0, <1>1, <1>2, <2>1, <2>3, VerdictConstants DEF VerdictsTypeOK, ringVars
  <2>5. FlowsInOrder'
    <3>1. \A i \in 1..Len(log) : log[i] \in Nat /\ log[i] <= Handed
      BY <1>0, FlowsAreNumbers DEF FlowsInOrder
    <3>2. \A i \in 1..Len(inbox) : inbox[i] \in Nat /\ inbox[i] <= Handed
      BY <1>0, FlowsAreNumbers DEF FlowsInOrder
    <3>3. \A f \in Flows : f > Handed + 1 => f > Handed
      BY <1>0, <1>1, FlowsAreNumbers
    <3>4. Handed \in Nat
      BY <1>1
    <3> QED
      BY <1>0, <1>2, <2>2, <3>1, <3>2, <3>3, <3>4 DEF FlowsInOrder
  <2>6. FlowsAccounted'
    <3>1. Rows' = Rows
      BY <1>4
    <3>2. /\ Rows' + Len(inbox') + dropped' <= Handed'
          /\ ample' => Rows' + Len(inbox') + dropped' = Handed'
      BY <1>1, <1>2, <1>3, <2>1, <2>2, <3>1, <1>0, Account
    <3> QED
      BY <3>2 DEF FlowsAccounted
  <2> QED
    BY <1>0, <1>2, <2>2, <2>4, <2>5, <2>6, Kept DEF RoomIsKept, VerdictsInv
<1>6. CASE ~(inboxLen >= InboxMax)
  <2>1. UNCHANGED dropped /\ backend' = [pc |-> "enqueue", flow |-> backend.flow + 1]
    BY <1>6 DEF Report
  <2>2. /\ backend'.pc = "enqueue" /\ backend'.flow = backend.flow + 1
        /\ Handed' = Handed
    BY <1>1, <2>1 DEF Handed
  <2>3. Len(inbox) < InboxMax /\ backend.flow + 1 > 0
    BY <1>0, <1>1, <1>6, VerdictConstants DEF VerdictsTypeOK
  <2>4. VerdictsTypeOK'
    BY <1>0, <1>1, <1>2, <2>1, VerdictConstants DEF VerdictsTypeOK, ringVars
  <2>5. RoomIsKept'
    BY <1>0, <1>2, <2>2, <2>3 DEF RoomIsKept
  <2> QED
    BY <1>0, <1>2, <2>1, <2>2, <2>4, <2>5, Kept DEF inboxVars, VerdictsInv
<1> QED
  BY <1>5, <1>6

\* Its second: the flow comes behind all that wait.
LEMMA EnqueueKeepsInv ==
  ASSUME VerdictsInv, Enqueue, UNCHANGED ample
  PROVE  VerdictsInv'
<1> DEFINE f == backend.flow
<1>0. VerdictsTypeOK /\ RoomIsKept /\ FlowsInOrder /\ FlowsAccounted
  BY DEF VerdictsInv
<1>1. /\ backend.pc = "enqueue" /\ f \in 1..MaxFlows /\ Len(inbox) < InboxMax
      /\ Handed = f - 1
  BY <1>0, Account DEF Enqueue, RoomIsKept, Handed
<1>2. /\ UNCHANGED <<ample, live, edits, snap, running, dropped, draining, past, enforced>>
      /\ UNCHANGED ringVars /\ UNCHANGED <<log, logged>>
      /\ backend' = [backend EXCEPT !.pc = "decide"]
  BY DEF Enqueue, ringVars
<1>3. backend'.pc = "decide" /\ backend'.flow = f /\ Handed' = f
  BY <1>0, <1>1, <1>2 DEF Handed, VerdictsTypeOK
<1>4. /\ Rows + Len(inbox) + dropped <= f - 1
      /\ ample => Rows + Len(inbox) + dropped = f - 1
  BY <1>0, <1>1, Account
<1>5. Rows' = Rows
  BY <1>2 DEF Rows, Shown
<1>6. inbox \in Seq(Flows) /\ \A i \in 1..Len(inbox) : inbox[i] \in Nat /\ inbox[i] <= f - 1
  BY <1>0, <1>1, FlowsAreNumbers DEF FlowsInOrder
<1>7. \A i \in 1..Len(log) : log[i] \in Nat /\ log[i] <= f - 1
  BY <1>0, <1>1, FlowsAreNumbers DEF FlowsInOrder
<1>8. f \in Flows /\ logged[f] = Nothing
  BY <1>0, <1>1 DEF FlowsInOrder, Flows
<1>9. CASE inbox' = Append(inbox, backend.flow) /\ inboxLen' = inboxLen + 1
  <2> HIDE DEF f
  <2>1. /\ inbox' \in Seq(Flows) /\ Len(inbox') = Len(inbox) + 1 /\ inbox'[Len(inbox) + 1] = f
        /\ \A i \in 1..Len(inbox) : inbox'[i] = inbox[i]
    BY <1>6, <1>8, <1>9 DEF f
  <2>2. VerdictsTypeOK'
    <3>1. inboxLen' = Len(inbox') /\ inboxLen' <= InboxMax
      BY <1>0, <1>1, <1>9, <2>1, VerdictConstants DEF VerdictsTypeOK
    <3> QED
      BY <1>0, <1>1, <1>2, <1>9, <2>1, <3>1 DEF VerdictsTypeOK, ringVars
  <2>3. FlowsInOrder'
    <3>1. Len(inbox) \in Nat /\ f \in Nat
      BY <1>1, <1>6
    <3>2. \A i \in 1..Len(inbox') : i \in 1..Len(inbox) \/ inbox'[i] = f
      BY <2>1, <3>1
    <3>3. ASSUME NEW i \in 1..Len(inbox'), NEW j \in 1..Len(inbox'), i < j
          PROVE  inbox'[i] < inbox'[j]
      <4>1. i \in 1..Len(inbox) /\ inbox'[i] = inbox[i] /\ inbox[i] \in Nat /\ inbox[i] <= f - 1
        BY <1>6, <2>1, <3>1, <3>3
      <4>2. CASE j \in 1..Len(inbox)
        BY <1>0, <2>1, <3>3, <4>1, <4>2 DEF FlowsInOrder
      <4>3. CASE inbox'[j] = f
        BY <3>1, <4>1, <4>3
      <4> QED
        BY <3>2, <4>2, <4>3
    <3>4. \A i \in 1..Len(inbox') : inbox'[i] <= f /\ logged[inbox'[i]] = Nothing
      BY <1>0, <1>6, <1>8, <2>1, <3>1, <3>2 DEF FlowsInOrder
    <3>5. \A i \in 1..Len(log), j \in 1..Len(inbox') : log[i] < inbox'[j]
      BY <1>0, <1>7, <2>1, <3>1, <3>2 DEF FlowsInOrder
    <3>6. /\ \A i, j \in 1..Len(log) : i < j => log[i] < log[j]
          /\ \A i \in 1..Len(log) : log[i] <= f
      BY <1>0, <1>7, <3>1 DEF FlowsInOrder
    <3>7. \A g \in Flows : g > f => logged[g] = Nothing
      BY <1>0, <1>1, <3>1 DEF FlowsInOrder, Flows
    <3> QED
      BY <1>0, <1>2, <1>3, <3>3, <3>4, <3>5, <3>6, <3>7 DEF FlowsInOrder, f
  <2>4. FlowsAccounted'
    <3>1. /\ Rows' + Len(inbox') + dropped' <= Handed'
          /\ ample' => Rows' + Len(inbox') + dropped' = Handed'
      <4>1. Rows + Len(inbox) + dropped <= f - 1 /\ (ample => Rows + Len(inbox) + dropped = f - 1)
        BY <1>4
      <4>2. Rows' = Rows /\ Len(inbox') = Len(inbox) + 1 /\ dropped' = dropped /\ ample' = ample
        BY <1>2, <1>5, <2>1
      <4>3. Rows \in Nat /\ Len(inbox) \in Nat /\ dropped \in Nat /\ f \in Nat /\ Handed' = f
        BY <1>0, <1>1, <1>3, Account DEF f
      <4> QED
        BY <4>1, <4>2, <4>3
    <3> QED
      BY <3>1 DEF FlowsAccounted
  <2> QED
    BY <1>0, <1>2, <1>3, <2>2, <2>3, <2>4, Kept DEF RoomIsKept, VerdictsInv
<1>10. CASE ~ample /\ UNCHANGED <<inbox, inboxLen>>
  <2>2. VerdictsTypeOK'
    BY <1>0, <1>1, <1>2, <1>10 DEF VerdictsTypeOK, ringVars
  <2>3. FlowsInOrder'
    <3>1. \A g \in Flows : g > f => logged[g] = Nothing
      BY <1>0, <1>1 DEF FlowsInOrder, Flows
    <3>2. \A i \in 1..Len(inbox) : inbox[i] <= f
      BY <1>1, <1>6
    <3>3. \A i \in 1..Len(log) : log[i] <= f
      BY <1>1, <1>7
    <3> QED
      BY <1>0, <1>2, <1>3, <1>10, <3>1, <3>2, <3>3 DEF FlowsInOrder
  <2>4. FlowsAccounted'
    <3>1. /\ Rows' + Len(inbox') + dropped' <= Handed'
          /\ ample' => Rows' + Len(inbox') + dropped' = Handed'
      BY <1>1, <1>2, <1>3, <1>4, <1>5, <1>10, <1>0, Account
    <3> QED
      BY <3>1 DEF FlowsAccounted
  <2> QED
    BY <1>0, <1>2, <1>3, <2>2, <2>3, <2>4, Kept DEF RoomIsKept, VerdictsInv
<1> QED
  BY <1>9, <1>10 DEF Enqueue

-----------------------------------------------------------------------------
\* record_event: the ring goes on mirroring the log's end.
LEMMA RecordKeepsMirror ==
  ASSUME VerdictsTypeOK, RingMirrorsLog, NEW f \in Flows, Record(f), log' = Append(log, f)
  PROVE  /\ events' \in [0..(RingSize - 1) -> Flows \cup {0}]
         /\ head' \in 0..(RingSize - 1) /\ len' \in 0..RingSize
         /\ RingMirrorsLog'
<1>1. /\ RingSize \in Nat \ {0} /\ head \in 0..(RingSize - 1) /\ len \in 0..RingSize
      /\ events \in [0..(RingSize - 1) -> Flows \cup {0}] /\ Len(log) \in Nat
  BY VerdictConstants, FlowsAreNumbers DEF VerdictsTypeOK
<1>2. /\ Len(log') = Len(log) + 1 /\ log'[Len(log) + 1] = f
      /\ \A i \in 1..Len(log) : log'[i] = log[i]
  BY FlowsAreNumbers
<1>3. /\ len = IF Len(log) < RingSize THEN Len(log) ELSE RingSize
      /\ \A i \in 0..(len - 1) : events[Wrapped(head + i)] = log[Len(log) - len + i + 1]
  BY DEF RingMirrorsLog
<1>4. CASE len < RingSize
  <2> DEFINE at == Wrapped(head + len)
  <2>1. /\ events' = [events EXCEPT ![at] = f] /\ len' = len + 1 /\ head' = head
    BY <1>4 DEF Record, Wrapped
  <2>2. at = IF head + len < RingSize THEN head + len ELSE head + len - RingSize
    BY <1>1, <1>4, WrapOnce
  <2>3. at \in 0..(RingSize - 1)
    BY <1>1, <1>4, <2>2
  <2>4. len = Len(log) /\ len' = IF Len(log') < RingSize THEN Len(log') ELSE RingSize
    BY <1>1, <1>2, <1>3, <1>4, <2>1
  <2>5. ASSUME NEW i \in 0..(len' - 1)
        PROVE  events'[Wrapped(head' + i)] = log'[Len(log') - len' + i + 1]
    <3>1. i \in 0..len /\ Len(log') - len' + i + 1 = i + 1
      BY <1>1, <1>2, <2>1, <2>4
    <3>2. CASE i = len
      <4>1. Wrapped(head' + i) = at
        BY <2>1, <3>2
      <4>2. events'[at] = f
        BY <1>1, <2>1, <2>3
      <4> QED
        BY <1>2, <2>4, <3>1, <3>2, <4>1, <4>2
    <3>3. CASE i < len
      <4> DEFINE k == Wrapped(head + i)
      <4>1. k = IF head + i < RingSize THEN head + i ELSE head + i - RingSize
        BY <1>1, <1>4, <3>1, <3>3, WrapOnce
      <4>2. k # at /\ k \in 0..(RingSize - 1)
        BY <1>1, <1>4, <2>2, <3>1, <3>3, <4>1
      <4> HIDE DEF k, at
      <4>3. events'[k] = events[k]
        BY <1>1, <2>1, <4>2
      <4>4. events[k] = log[i + 1]
        <5>1. i \in 0..(len - 1) /\ Len(log) - len + i + 1 = i + 1
          BY <1>1, <2>4, <3>1, <3>3
        <5> QED
          BY <1>3, <5>1 DEF k
      <4>5. log'[i + 1] = log[i + 1]
        BY <1>1, <1>2, <2>4, <3>1, <3>3
      <4>6. Wrapped(head' + i) = k
        BY <2>1 DEF k
      <4> QED
        BY <3>1, <4>3, <4>4, <4>5, <4>6
    <3> QED
      BY <1>1, <2>1, <3>1, <3>2, <3>3
  <2> HIDE DEF at
  <2>6. events' \in [0..(RingSize - 1) -> Flows \cup {0}] /\ len' \in 0..RingSize
    BY <1>1, <1>4, <2>1
  <2> QED
    BY <1>1, <2>1, <2>4, <2>5, <2>6 DEF RingMirrorsLog
<1>5. CASE len = RingSize
  <2>1. /\ events' = [events EXCEPT ![head] = f] /\ len' = len /\ head' = Wrapped(head + 1)
    BY <1>1, <1>5 DEF Record, Wrapped
  <2>2. head' = IF head + 1 < RingSize THEN head + 1 ELSE 0
    <3>1. head + 1 \in Nat /\ head + 1 < RingSize + RingSize /\ head + 1 <= RingSize
      BY <1>1
    <3>2. Wrapped(head + 1) = IF head + 1 < RingSize THEN head + 1 ELSE head + 1 - RingSize
      BY <1>1, <3>1, WrapOnce
    <3> QED
      BY <1>1, <2>1, <3>1, <3>2
  <2>3. head' \in 0..(RingSize - 1)
    BY <1>1, <2>2
  <2>4. Len(log) >= RingSize /\ len' = IF Len(log') < RingSize THEN Len(log') ELSE RingSize
    BY <1>1, <1>2, <1>3, <1>5, <2>1
  <2>5. ASSUME NEW i \in 0..(len' - 1)
        PROVE  events'[Wrapped(head' + i)] = log'[Len(log') - len' + i + 1]
    <3> DEFINE k == Wrapped(head' + i)
    <3>1. i \in 0..(RingSize - 1) /\ Len(log') - len' + i + 1 = Len(log) - RingSize + i + 2
      BY <1>1, <1>2, <1>5, <2>1
    <3>2. k = IF head' + i < RingSize THEN head' + i ELSE head' + i - RingSize
      BY <1>1, <2>3, <3>1, WrapOnce
    <3>3. CASE i = RingSize - 1
      <4>1. k = head
        BY <1>1, <2>2, <3>2, <3>3
      <4>2. events'[head] = f
        BY <1>1, <2>1
      <4>3. Len(log) - RingSize + i + 2 = Len(log) + 1
        BY <1>1, <3>3
      <4> QED
        BY <1>2, <3>1, <4>1, <4>2, <4>3
    <3>4. CASE i < RingSize - 1
      <4> DEFINE m == Wrapped(head + (i + 1))
      <4>1. m = IF head + (i + 1) < RingSize THEN head + (i + 1) ELSE head + (i + 1) - RingSize
        BY <1>1, <3>1, <3>4, WrapOnce
      <4>2. k = m /\ m # head /\ m \in 0..(RingSize - 1)
        BY <1>1, <2>2, <3>1, <3>2, <3>4, <4>1
      <4>3. events[m] = log[Len(log) - len + (i + 1) + 1]
        <5>1. i + 1 \in 0..(len - 1)
          BY <1>1, <1>5, <3>1, <3>4
        <5> QED
          BY <1>3, <5>1
      <4>4. Len(log) - len + (i + 1) + 1 = Len(log) - RingSize + i + 2
        BY <1>1, <1>5, <3>1
      <4>5. Len(log) - RingSize + i + 2 \in 1..Len(log)
        BY <1>1, <2>4, <3>1, <3>4
      <4> HIDE DEF k, m
      <4>6. events'[k] = events[m]
        BY <1>1, <2>1, <4>2
      <4> QED
        BY <1>2, <3>1, <4>3, <4>4, <4>5, <4>6 DEF k
    <3> QED
      BY <1>1, <3>1, <3>3, <3>4
  <2>6. events' \in [0..(RingSize - 1) -> Flows \cup {0}] /\ len' \in 0..RingSize
    BY <1>1, <2>1
  <2> QED
    BY <2>3, <2>4, <2>5, <2>6 DEF RingMirrorsLog
<1> QED
  BY <1>1, <1>4, <1>5

\* The drain loop: the first of the waiting flows gets its row, the newest.
LEMMA DrainKeepsInv ==
  ASSUME VerdictsInv, DrainFlow, UNCHANGED ample
  PROVE  VerdictsInv'
<1> DEFINE f == Head(inbox)
<1>0. VerdictsTypeOK /\ RoomIsKept /\ FlowsInOrder /\ FlowsAccounted /\ RingMirrorsLog
  BY DEF VerdictsInv
<1>1. inbox # <<>> /\ inbox \in Seq(Flows) /\ log \in Seq(Flows)
  BY <1>0, FlowsAreNumbers DEF DrainFlow
<1>2. /\ Len(inbox) \in Nat \ {0} /\ f = inbox[1] /\ f \in Flows
      /\ inbox' = Tail(inbox) /\ inbox' \in Seq(Flows) /\ Len(inbox') = Len(inbox) - 1
      /\ \A j \in 1..Len(inbox') : inbox'[j] = inbox[j + 1]
  BY <1>1 DEF DrainFlow
<1>3. /\ log' = Append(log, f) /\ log' \in Seq(Flows) /\ Len(log') = Len(log) + 1
      /\ log'[Len(log) + 1] = f /\ \A i \in 1..Len(log) : log'[i] = log[i]
      /\ Len(log) \in Nat
  BY <1>1, <1>2 DEF DrainFlow
<1>4. /\ UNCHANGED <<ample, live, edits, snap, running, backend, dropped, draining, past, enforced>>
      /\ Record(f) /\ logged' = [logged EXCEPT ![f] = live]
      /\ inboxLen' = IF inboxLen > 0 THEN inboxLen - 1 ELSE inboxLen
      /\ Handed' = Handed
  BY DEF DrainFlow, Handed
<1> HIDE DEF f
<1>5. f \in Nat /\ f <= Handed /\ logged[f] = Nothing
  BY <1>0, <1>2, FlowsAreNumbers DEF FlowsInOrder
<1>6. /\ events' \in [0..(RingSize - 1) -> Flows \cup {0}]
      /\ head' \in 0..(RingSize - 1) /\ len' \in 0..RingSize
      /\ RingMirrorsLog'
  BY <1>0, <1>2, <1>3, <1>4, RecordKeepsMirror
<1>7. live \in Profiles /\ live # Nothing
  BY <1>0, VerdictConstants DEF VerdictsTypeOK
<1>8. logged \in [Flows -> Profiles \cup {Nothing}] /\ logged'[f] = live
      /\ \A g \in Flows : g # f => logged'[g] = logged[g]
  BY <1>0, <1>2, <1>4 DEF VerdictsTypeOK
<1>9. inboxLen' = Len(inbox') /\ inboxLen' <= InboxMax /\ Len(inbox') < Len(inbox)
  BY <1>0, <1>2, <1>4, VerdictConstants DEF VerdictsTypeOK
<1>10. VerdictsTypeOK'
  <2>1. logged' \in [Flows -> Profiles \cup {Nothing}]
    BY <1>4, <1>7, <1>8
  <2> QED
    BY <1>0, <1>2, <1>3, <1>4, <1>6, <1>9, <2>1 DEF VerdictsTypeOK
<1>11. FlowsInOrder'
  <2>1. /\ \A j \in 1..Len(inbox) : inbox[j] \in Nat /\ inbox[j] \in Flows
        /\ \A i \in 1..Len(log) : log[i] \in Nat /\ log[i] < f
    BY <1>0, <1>2, FlowsAreNumbers DEF FlowsInOrder
  <2>2. \A j \in 1..Len(inbox') : j + 1 \in 1..Len(inbox) /\ 1 < j + 1
    BY <1>2
  <2>3. \A j \in 1..Len(inbox') : f < inbox'[j] /\ inbox'[j] # f /\ inbox'[j] \in Flows
    <3>1. \A j \in 1..Len(inbox) : 1 < j => inbox[1] < inbox[j]
      BY <1>0, <1>2 DEF FlowsInOrder
    <3> QED
      BY <1>2, <1>5, <2>1, <2>2, <3>1
  <2>4. ASSUME NEW i \in 1..Len(inbox'), NEW j \in 1..Len(inbox'), i < j
        PROVE  inbox'[i] < inbox'[j]
    <3>1. i + 1 \in 1..Len(inbox) /\ j + 1 \in 1..Len(inbox) /\ i + 1 < j + 1
      BY <1>2, <2>2, <2>4
    <3>2. inbox[i + 1] < inbox[j + 1]
      BY <1>0, <3>1 DEF FlowsInOrder
    <3> QED
      BY <1>2, <3>2
  <2>5. \A j \in 1..Len(inbox') : inbox'[j] <= Handed /\ logged'[inbox'[j]] = Nothing
    <3>1. \A j \in 1..Len(inbox) : inbox[j] <= Handed /\ logged[inbox[j]] = Nothing
      BY <1>0 DEF FlowsInOrder
    <3> QED
      BY <1>2, <1>8, <2>2, <2>3, <3>1
  <2>6. \A i \in 1..Len(log') : i \in 1..Len(log) \/ i = Len(log) + 1
    BY <1>3
  <2>7. \A i \in 1..Len(log') : log'[i] \in Nat /\ log'[i] <= f
    BY <1>3, <1>5, <2>1, <2>6
  <2>8. ASSUME NEW i \in 1..Len(log'), NEW j \in 1..Len(log'), i < j
        PROVE  log'[i] < log'[j]
    <3>1. i \in 1..Len(log) /\ log'[i] = log[i] /\ log[i] < f
      BY <1>3, <2>1, <2>8
    <3>2. CASE j = Len(log) + 1
      BY <1>3, <3>1, <3>2
    <3>3. CASE j \in 1..Len(log)
      BY <1>0, <1>3, <2>8, <3>1, <3>3 DEF FlowsInOrder
    <3> QED
      BY <2>6, <3>2, <3>3
  <2>9. \A i \in 1..Len(log') : log'[i] <= Handed
    <3>1. Handed \in Int
      BY <1>0, Account
    <3> QED
      BY <1>5, <2>7, <3>1
  <2>10. ASSUME NEW i \in 1..Len(log'), NEW j \in 1..Len(inbox')
         PROVE  log'[i] < inbox'[j]
    <3>1. inbox'[j] \in Nat
      BY <2>3, FlowsAreNumbers, <1>0
    <3> QED
      BY <1>5, <2>3, <2>7, <3>1
  <2>11. \A g \in Flows : g > Handed => logged'[g] = Nothing
    <3>1. \A g \in Flows : g > Handed => g # f
      <4>1. Handed \in Int
        BY <1>0, Account
      <4> QED
        BY <1>0, <1>5, <4>1, FlowsAreNumbers
    <3> QED
      BY <1>0, <1>8, <3>1 DEF FlowsInOrder
  <2> QED
    BY <1>4, <2>4, <2>5, <2>8, <2>9, <2>10, <2>11 DEF FlowsInOrder
<1>12. FlowsAccounted'
  <2>1. Shown' = Shown \cup {f} /\ f \notin Shown
    BY <1>2, <1>5, <1>7, <1>8 DEF Shown
  <2>2. Rows' = Rows + 1
    BY <2>1, RowsAreFinite, FS_AddElement DEF Rows, Shown
  <2>3. /\ Rows' + Len(inbox') + dropped' <= Handed'
        /\ ample' => Rows' + Len(inbox') + dropped' = Handed'
    <3>1. /\ Rows + Len(inbox) + dropped <= Handed
          /\ ample => Rows + Len(inbox) + dropped = Handed
      BY <1>0, Account
    <3> QED
      <4>1. Len(inbox') = Len(inbox) - 1 /\ dropped' = dropped /\ ample' = ample /\ Handed' = Handed
        BY <1>2, <1>4
      <4>2. Rows \in Nat /\ Len(inbox) \in Nat /\ dropped \in Nat /\ Handed \in Int
        BY <1>0, Account
      <4> QED
        BY <2>2, <3>1, <4>1, <4>2
  <2> QED
    BY <2>3 DEF FlowsAccounted
<1>13. RoomIsKept' /\ (live \in past)' /\ SnapshotIsConsistent'
  <2>1. RoomIsKept'
    BY <1>0, <1>2, <1>4, <1>9, VerdictConstants DEF RoomIsKept
  <2> QED
    BY <1>4, <2>1 DEF VerdictsInv, SnapshotIsConsistent
<1> QED
  BY <1>6, <1>10, <1>11, <1>12, <1>13 DEF VerdictsInv

\* Steps that hand over no flow and drain none: edits, publishing, starts and stops,
\* inline verdicts, and clearing the ring, whose log is then empty.
LEMMA QuietKeepsInv ==
  ASSUME VerdictsInv,
         \/ UNCHANGED verdictVars
         \/ /\ UNCHANGED ample
            /\ \/ DecideInline \/ Edit \/ LoadProfile \/ StartOrStop \/ Pump \/ DrainEmpty
               \/ ClearEvents
  PROVE  VerdictsInv'
<1>0. VerdictsTypeOK /\ RoomIsKept /\ FlowsInOrder /\ FlowsAccounted /\ live \in past /\ snap \in past
  BY DEF VerdictsInv, SnapshotIsConsistent
<1>1. UNCHANGED <<inboxVars, logged, ample, inbox, inboxLen, dropped>>
  BY DEF DecideInline, Edit, LoadProfile, StartOrStop, Pump, DrainEmpty, ClearEvents, verdictVars,
         ringVars, inboxVars
<1>2. /\ backend' \in [pc: {"idle", "enqueue", "decide"}, flow: 0..MaxFlows]
      /\ backend'.flow = backend.flow /\ (backend'.pc = "enqueue" <=> backend.pc = "enqueue")
  <2>1. (backend' = backend) \/ (backend.pc = "decide" /\ backend' = [backend EXCEPT !.pc = "idle"])
    <3>1. CASE DecideInline
      BY <3>1 DEF DecideInline
    <3>2. CASE Edit \/ LoadProfile \/ StartOrStop
      BY <3>2 DEF Edit, LoadProfile, StartOrStop
    <3>3. CASE Pump \/ DrainEmpty \/ ClearEvents
      BY <3>3 DEF Pump, DrainEmpty, ClearEvents
    <3>4. CASE UNCHANGED verdictVars
      BY <3>4 DEF verdictVars
    <3> QED
      BY <3>1, <3>2, <3>3, <3>4
  <2>2. backend \in [pc: {"idle", "enqueue", "decide"}, flow: 0..MaxFlows]
    BY <1>0 DEF VerdictsTypeOK
  <2> QED
    BY <2>1, <2>2
<1>3. Handed' = Handed
  BY <1>2 DEF Handed
<1>4. FlowsAccounted' /\ RoomIsKept'
  <2>1. RoomIsKept'
    BY <1>0, <1>1, <1>2 DEF RoomIsKept
  <2> QED
    BY <1>1, <1>3, <2>1, Kept
<1>5. /\ live' \in Profiles /\ snap' \in Profiles /\ edits' \in 0..MaxEdits /\ past' \subseteq Profiles
      /\ live' \in past' /\ snap' \in past'
  <2>1. live \in Profiles /\ snap \in Profiles /\ edits \in 0..MaxEdits /\ past \subseteq Profiles
    BY <1>0 DEF VerdictsTypeOK
  <2>2. CASE UNCHANGED <<live, edits, past>> /\ snap' \in {snap, live}
    BY <1>0, <2>1, <2>2
  <2>3. CASE Edit \/ LoadProfile
    <3>1. edits' \in 0..MaxEdits
      BY <2>1, <2>3, VerdictConstants DEF Edit, LoadProfile
    <3>2. live' \in Profiles
      BY <2>1, <2>3, <3>1 DEF Edit, LoadProfile, Profiles
    <3>3. past' = past \cup {live'} /\ snap' \in {snap, live'}
      BY <2>3 DEF Edit, LoadProfile, Refresh
    <3> QED
      BY <1>0, <2>1, <3>1, <3>2, <3>3
  <2> QED
    BY <2>2, <2>3 DEF DecideInline, StartOrStop, Pump, DrainEmpty, ClearEvents, verdictVars, Refresh
<1>6. running' \in BOOLEAN /\ draining' \in BOOLEAN /\ enforced' \in [Flows -> Profiles \cup {Nothing}]
  <2>1. running \in BOOLEAN /\ draining \in BOOLEAN
    BY <1>0 DEF VerdictsTypeOK
  <2>2. running' \in {running, ~running} /\ draining' \in {draining, TRUE, FALSE}
    BY DEF DecideInline, Edit, LoadProfile, StartOrStop, Pump, DrainEmpty, ClearEvents, verdictVars
  <2>3. enforced \in [Flows -> Profiles \cup {Nothing}] /\ snap \in Profiles
    BY <1>0 DEF VerdictsTypeOK
  <2>4. UNCHANGED enforced \/ enforced' = [enforced EXCEPT ![backend.flow] = snap]
    BY DEF DecideInline, Edit, LoadProfile, StartOrStop, Pump, DrainEmpty, ClearEvents, verdictVars
  <2> QED
    BY <2>1, <2>2, <2>3, <2>4
<1>7. CASE UNCHANGED ringVars
  <2>1. RingMirrorsLog'
    BY <1>7, Kept
  <2>2. UNCHANGED <<events, head, len, log, logged>>
    BY <1>7 DEF ringVars
  <2>3. FlowsInOrder'
    BY <1>1, <1>3, <2>2, Kept
  <2>4. VerdictsTypeOK'
    BY <1>0, <1>1, <1>2, <1>5, <1>6, <2>2 DEF VerdictsTypeOK
  <2> QED
    BY <1>4, <1>5, <2>1, <2>3, <2>4 DEF VerdictsInv, SnapshotIsConsistent
<1>8. CASE ClearEvents
  <2>1. head' = 0 /\ len' = 0 /\ log' = <<>> /\ UNCHANGED <<events, logged>> /\ Len(log') = 0
    BY <1>8 DEF ClearEvents
  <2>2. RingMirrorsLog'
    BY <2>1, VerdictConstants DEF RingMirrorsLog
  <2>3. FlowsInOrder'
    BY <1>0, <1>1, <1>3, <2>1 DEF FlowsInOrder
  <2>4. VerdictsTypeOK'
    <3>1. head' \in 0..(RingSize - 1) /\ len' \in 0..RingSize /\ log' \in Seq(Flows)
      BY <2>1, VerdictConstants
    <3> QED
      BY <1>0, <1>1, <1>2, <1>5, <1>6, <2>1, <3>1 DEF VerdictsTypeOK
  <2> QED
    BY <1>4, <1>5, <2>2, <2>3, <2>4 DEF VerdictsInv, SnapshotIsConsistent
<1> QED
  BY <1>7, <1>8 DEF DecideInline, Edit, LoadProfile, StartOrStop, Pump, DrainEmpty, verdictVars

-----------------------------------------------------------------------------
\* The engine is created with everything empty and the profile published.
LEMMA VerdictsStart == VerdictsInit => VerdictsInv
<1> SUFFICES ASSUME VerdictsInit
             PROVE  VerdictsInv
  OBVIOUS
<1>1. /\ inbox = <<>> /\ Len(inbox) = 0 /\ log = <<>> /\ Len(log) = 0 /\ len = 0 /\ head = 0
      /\ inboxLen = 0 /\ dropped = 0 /\ edits = 0
      /\ backend = [pc |-> "idle", flow |-> 0] /\ Handed = 0
      /\ logged = [f \in Flows |-> Nothing] /\ enforced = [f \in Flows |-> Nothing]
      /\ live = [proxies |-> 0, rules |-> 0] /\ snap = live /\ past = {live}
      /\ events = [i \in 0..(RingSize - 1) |-> 0]
      /\ ample \in BOOLEAN /\ running = FALSE /\ draining = FALSE
  BY DEF VerdictsInit, Handed
<1>2. VerdictsTypeOK
  <2>1. live \in Profiles
    BY <1>1, VerdictConstants DEF Profiles
  <2>2. backend \in [pc: {"idle", "enqueue", "decide"}, flow: 0..MaxFlows]
    BY <1>1, VerdictConstants
  <2>3. inbox \in Seq(Flows) /\ log \in Seq(Flows)
    BY <1>1
  <2>4. /\ head \in 0..(RingSize - 1) /\ len \in 0..RingSize /\ inboxLen <= InboxMax
        /\ dropped \in 0..MaxFlows /\ edits \in 0..MaxEdits
    BY <1>1, VerdictConstants
  <2>5. /\ logged \in [Flows -> Profiles \cup {Nothing}]
        /\ enforced \in [Flows -> Profiles \cup {Nothing}]
        /\ events \in [0..(RingSize - 1) -> Flows \cup {0}]
    BY <1>1
  <2> QED
    BY <1>1, <2>1, <2>2, <2>3, <2>4, <2>5 DEF VerdictsTypeOK
<1>3. Rows = 0
  <2>1. Shown = {}
    BY <1>1 DEF Shown
  <2> QED
    BY <2>1, FS_EmptySet DEF Rows, Shown
<1>4. FlowsAccounted
  BY <1>1, <1>2, <1>3, Account
<1>5. RoomIsKept /\ FlowsInOrder /\ SnapshotIsConsistent /\ live \in past
  BY <1>1 DEF RoomIsKept, FlowsInOrder, SnapshotIsConsistent
<1>6. RingMirrorsLog
  BY <1>1, VerdictConstants DEF RingMirrorsLog
<1> QED
  BY <1>2, <1>4, <1>5, <1>6 DEF VerdictsInv

\* Every step keeps the invariant.
LEMMA VerdictsStep == VerdictsInv /\ [VerdictsNext]_verdictVars => VerdictsInv'
BY ReportKeepsInv, EnqueueKeepsInv, DrainKeepsInv, QuietKeepsInv DEF VerdictsNext, Step

\* The invariant holds at every step.
LEMMA VerdictsInvariant == VerdictsSpec => []VerdictsInv
BY VerdictsStart, VerdictsStep, PTL DEF VerdictsSpec

\* The rows pmx_engine_recent_events returns are the end of the log.
LEMMA RecentIsNewest ==
  ASSUME VerdictsInv
  PROVE  RingKeepsNewest
<1> SUFFICES ASSUME NEW most \in 1..(RingSize + 1)
             PROVE  LET m == IF most < RingSize THEN most ELSE RingSize
                        n == IF Len(log) < m THEN Len(log) ELSE m
                    IN  /\ Recent(most) = [i \in 1..n |-> log[Len(log) - n + i]]
                        /\ \A i, j \in 1..n : i < j => Recent(most)[i] < Recent(most)[j]
  BY DEF RingKeepsNewest
<1> DEFINE m == IF most < RingSize THEN most ELSE RingSize
           n == IF Len(log) < m THEN Len(log) ELSE m
<1>1. /\ VerdictsTypeOK /\ FlowsInOrder /\ RingSize \in Nat \ {0} /\ Len(log) \in Nat
      /\ head \in 0..(RingSize - 1) /\ len \in 0..RingSize
  BY FlowsAreNumbers, VerdictConstants DEF VerdictsInv, VerdictsTypeOK
<1>2. /\ len = IF Len(log) < RingSize THEN Len(log) ELSE RingSize
      /\ \A i \in 0..(len - 1) : events[Wrapped(head + i)] = log[Len(log) - len + i + 1]
  BY DEF VerdictsInv, RingMirrorsLog
<1>3. n = (IF len < most THEN len ELSE most) /\ n \in 0..len /\ n <= Len(log)
  BY <1>1, <1>2
<1> HIDE DEF n
<1>4. Recent(most) = [i \in 1..n |-> events[Wrapped(head + (len - n) + (i - 1))]]
  BY <1>3 DEF Recent, Wrapped
<1>5. ASSUME NEW i \in 1..n
      PROVE  events[Wrapped(head + (len - n) + (i - 1))] = log[Len(log) - n + i]
  <2>1. len - n + i - 1 \in 0..(len - 1)
    BY <1>1, <1>3
  <2>2. events[Wrapped(head + (len - n + i - 1))] = log[Len(log) - len + (len - n + i - 1) + 1]
    BY <1>2, <2>1
  <2>3. /\ head + (len - n) + (i - 1) = head + (len - n + i - 1)
        /\ Len(log) - len + (len - n + i - 1) + 1 = Len(log) - n + i
    BY <1>1, <1>3
  <2> QED
    BY <2>2, <2>3
<1>6. Recent(most) = [i \in 1..n |-> log[Len(log) - n + i]]
  BY <1>4, <1>5
<1>7. ASSUME NEW i \in 1..n, NEW j \in 1..n, i < j
      PROVE  Recent(most)[i] < Recent(most)[j]
  <2>1. Len(log) - n + i \in 1..Len(log) /\ Len(log) - n + j \in 1..Len(log)
        /\ Len(log) - n + i < Len(log) - n + j
    BY <1>1, <1>3, <1>7
  <2>2. log[Len(log) - n + i] < log[Len(log) - n + j]
    BY <1>1, <2>1 DEF FlowsInOrder
  <2> QED
    BY <1>6, <2>2
<1> QED
  BY <1>6, <1>7 DEF n

-----------------------------------------------------------------------------
\* Types; the inbox stays within its cap (PMX_INBOX_MAX) though engine_on_flow looks at
\* it in one critical section and appends in another.
THEOREM VerdictsTypeCorrect == VerdictsSpec => []VerdictsTypeOK
<1>1. VerdictsInv => VerdictsTypeOK
  BY DEF VerdictsInv
<1> QED
  BY <1>1, VerdictsInvariant, PTL

\* What the window and the backend can trust at every moment: a flow engine_on_flow
\* took is a row, waits or is a counted loss; recent_events returns the newest rows, in
\* order; and pmx_engine_decide never sees a mixture of two profiles.
THEOREM VerdictsAreAlwaysSound == VerdictsSpec => []VerdictsAreSound
<1>1. VerdictsInv => VerdictsAreSound
  BY RecentIsNewest DEF VerdictsInv, VerdictsAreSound
<1> QED
  BY <1>1, VerdictsInvariant, PTL

=============================================================================
