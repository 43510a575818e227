---------------------------- MODULE VpnRunnerProofs ----------------------------
(***************************************************************************)
(* For every number of tunnels, slots and children, whatever services      *)
(* share a name, and whatever ends, fails or is clicked when: labels are   *)
(* true, every child is in the hands of one entry, a verification is the   *)
(* tunnel's own, and no command is killed for what it writes.              *)
(*                                                                         *)
(* A label is true because of what the slots, the system's processes and   *)
(* services, and the command under way say of each other, so the inductive *)
(* invariant ties each of them to the entry it belongs to: slots to their  *)
(* tunnel and port (SlotsAreOwn), children to their entry                  *)
(* (ChildrenAreOwned), services to the running entry (ServicesAreOwn), the *)
(* command to the state its entry was put in (CommandIsOwn).               *)
(***************************************************************************)
EXTENDS VpnRunner, FiniteSetTheorems, TLAPS

\* An entry belongs to one tunnel, and its port, once it has one, to its slot.
SlotsAreOwn ==
  /\ \A s \in Slots :
       /\ entries[s].used => entries[s].id \in Ids
       /\ ~entries[s].used => entries[s] = Unused
       /\ entries[s].port \in {0, PortBase + s - 1}
       /\ entries[s].name # None =>
            /\ entries[s].used /\ Kind(entries[s].id) = "wireguard"
            /\ entries[s].name = Service[config[entries[s].id]]
  /\ \A s, t \in Slots :
       entries[s].used /\ entries[t].used /\ entries[s].id = entries[t].id => s = t

\* A child and the entry that holds it know each other; an entry is up as long as
\* it holds one.
ChildrenAreOwned ==
  /\ \A s \in Slots : entries[s].proc # None =>
       /\ entries[s].used /\ Kind(entries[s].id) = "openvpn" /\ entries[s].state \in Up
       /\ entries[s].port = PortBase + s - 1
       /\ procs[entries[s].proc] # None
       /\ procs[entries[s].proc].config = config[entries[s].id]
       /\ procs[entries[s].proc].port = entries[s].port
       /\ \A t \in Slots : entries[t].proc = entries[s].proc => t = s
  /\ \A s \in Slots :
       entries[s].used /\ Kind(entries[s].id) = "openvpn" /\ entries[s].state \in Up
         => entries[s].proc # None
  /\ \A p \in Pids : procs[p] # None => \E s \in Slots : entries[s].proc = p

WireGuardUp(s, state) ==
  entries[s].used /\ Kind(entries[s].id) = "wireguard" /\ entries[s].state = state

\* A running WireGuard tunnel has a service to itself, and one that is starting is
\* being installed.
ServicesAreOwn ==
  /\ \A s \in Slots : WireGuardUp(s, "starting") => run # None /\ run.what = "install" /\ run.slot = s
  /\ \A s \in Slots : WireGuardUp(s, "running") =>
       entries[s].name # None /\ services[entries[s].name] = config[entries[s].id]
  /\ \A s, t \in Slots :
       WireGuardUp(s, "running") /\ WireGuardUp(t, "running") /\ entries[s].name = entries[t].name
         => s = t

\* Nothing touches a command's entry while the window waits for it.
CommandIsOwn ==
  run # None =>
    /\ entries[run.slot].id = run.id /\ entries[run.slot].name # None
    /\ WireGuardUp(run.slot, IF run.what = "install" THEN "starting" ELSE "running")
    /\ run.what = "show" => status.valid /\ status.id = run.id

\* What is left of a command's output shrinks by a pipe a turn.
OutputIsBounded ==
  run # None => run.left = 0 \/ run.left + PipeSize * run.turn <= MaxOutput

AnswersAreOwn ==
  status.valid => status.id \in Ids /\ status.from \in {None, config[status.id]}

\* The client that gave the answer, as long as it is there, is that of the tunnel asked
\* about.
AnswererIsOwn ==
  status.valid /\ status.by # None =>
    IF Kind(status.id) = "wireguard"
      THEN status.by = Service[config[status.id]]
      ELSE \E s \in Slots :
             entries[s].used /\ entries[s].id = status.id /\ entries[s].proc = status.by

VpnInv ==
  /\ VpnTypeOK /\ SlotsAreOwn /\ ChildrenAreOwned /\ ServicesAreOwn /\ CommandIsOwn
  /\ OutputIsBounded /\ AnswersAreOwn /\ AnswererIsOwn

-----------------------------------------------------------------------------
\* The first of some slots is one of them.  The library's induction theorems take an
\* operator; that strict inclusion of finite sets is well-founded does not, and the
\* sets of slots up to a given one are ordered by it as the slots are.
LEMMA MinIsMember ==
  ASSUME NEW S \in SUBSET Slots, S # {}
  PROVE  Min(S) \in S
<1> DEFINE Below(x) == {y \in S : y =< x}
<1> DEFINE Initials == {B \in SUBSET S : \E x \in S : B = Below(x)}
<1>0. \A x \in S : x \in Int
  BY DEF Slots
<1>1. IsFiniteSet(S)
  <2>1. MaxTracked \in Int
    BY VpnAssumption
  <2>2. IsFiniteSet(Slots)
    BY <2>1, FS_Interval DEF Slots
  <2> QED
    BY <2>2, FS_Subset
<1>2. Initials \subseteq FiniteSubsetsOf(S) /\ Initials # {}
  <2>1. FiniteSubsetsOf(S) = SUBSET S
    BY <1>1, FS_FiniteSubsetsOfFinite
  <2>2. PICK x \in S : TRUE
    OBVIOUS
  <2>3. Below(x) \in Initials
    OBVIOUS
  <2> QED
    BY <2>1, <2>3
<1>3. PICK B \in Initials : \A C \in Initials : ~ (<<C, B>> \in StrictSubsetOrdering(S))
  <2> HIDE DEF Initials
  <2> QED
    BY <1>1, <1>2, FS_StrictSubsetOrderingWellFounded, WFMin
<1>4. PICK x \in S : B = Below(x)
  BY <1>3
<1>5. ASSUME NEW y \in S, ~(x =< y)
      PROVE  FALSE
  <2>1. y < x
    BY <1>0, <1>5
  <2>2. \A z \in S : z =< y => z =< x
    BY <1>0, <2>1
  <2>3. x \in Below(x) /\ x \notin Below(y)
    BY <1>0, <1>5
  <2>4. Below(y) \in Initials /\ Below(x) \in SUBSET S /\ Below(y) \subseteq Below(x)
    BY <2>2
  <2>5. <<Below(y), Below(x)>> \in StrictSubsetOrdering(S)
    <3> HIDE DEF Below
    <3> QED
      BY <2>3, <2>4 DEF StrictSubsetOrdering
  <2> QED
    BY <1>3, <1>4, <2>4, <2>5
<1> QED
  BY <1>5 DEF Min

\* Constants in the form the steps below use them.
LEMMA Constants ==
  /\ PortBase \in Nat \ {0} /\ PipeSize \in Nat \ {0} /\ MaxTurns \in Nat \ {0}
  /\ MaxOutput \in Nat /\ MaxTracked \in Nat \ {0}
  /\ None \notin Ids /\ None \notin Configs /\ None \notin Pids /\ None \notin Names
  /\ None \notin Processes /\ None \notin Commands
  /\ OpenVpn \subseteq Configs
  /\ \A c \in Configs : Service[c] \in Names /\ Service[c] # None
BY VpnAssumption DEF Names

\* The slot of a tunnel that has one.
LEMMA KnownSlot ==
  ASSUME NEW id, Known(id) # {}
  PROVE  /\ Min(Known(id)) \in Slots
         /\ entries[Min(Known(id))].used /\ entries[Min(Known(id))].id = id
         /\ Label(id) = entries[Min(Known(id))].state
<1>1. Min(Known(id)) \in Known(id)
  BY MinIsMember DEF Known
<1> QED
  BY <1>1 DEF Known, Label

\* The slot a connect takes, and the entry it starts from: no other slot is the
\* tunnel's, and no child is behind this one.
LEMMA ConnectSlot ==
  ASSUME VpnInv, run = None, NEW id \in Ids, Label(id) \notin Up, Candidates(id) # {}
  PROVE  LET s == Min(Candidates(id))
             f == EntryFor(id, s)
         IN  /\ s \in Slots /\ entries[s].proc = None
             /\ \A t \in Slots : entries[t].used /\ entries[t].id = id => t = s
             /\ f \in Entries /\ f.used /\ f.id = id /\ f.proc = None
             /\ f.port \in {0, PortBase + s - 1}
             /\ f.name # None => Kind(id) = "wireguard" /\ f.name = Service[config[id]]
<1> DEFINE s == Min(Candidates(id))
<1> USE DEF VpnInv
<1>1. s \in Candidates(id) /\ s \in Slots
  <2>1. Candidates(id) \in SUBSET Slots
    BY DEF Candidates, Known, Finished
  <2> QED
    BY <2>1, MinIsMember
<1>2. CASE Known(id) # {}
  <2>1. entries[s].used /\ entries[s].id = id
    BY <1>1, <1>2 DEF Candidates, Known
  <2>2. s = Min(Known(id)) /\ entries[s].state \notin Up
    BY <1>2, KnownSlot DEF Candidates
  <2>3. entries[s].proc = None
    BY <1>1, <2>2 DEF ChildrenAreOwned
  <2>4. EntryFor(id, s) = entries[s]
    BY <1>2 DEF EntryFor
  <2> QED
    BY <1>1, <2>1, <2>3, <2>4 DEF SlotsAreOwn, VpnTypeOK
<1>3. CASE Known(id) = {}
  <2>1. entries[s].proc = None
    BY <1>1, <1>3 DEF Candidates, Finished, SlotsAreOwn, Unused
  <2>2. EntryFor(id, s) = [Unused EXCEPT !.used = TRUE, !.id = id]
    BY <1>3 DEF EntryFor
  <2>3. \A t \in Slots : ~(entries[t].used /\ entries[t].id = id)
    BY <1>3 DEF Known
  <2>4. EntryFor(id, s) = [used |-> TRUE, id |-> id, state |-> "down", name |-> None, proc |-> None,
                           port |-> 0, stopping |-> FALSE]
    BY <2>2 DEF Unused
  <2> HIDE DEF s
  <2>5. /\ EntryFor(id, s) \in Entries /\ EntryFor(id, s).used /\ EntryFor(id, s).id = id
        /\ EntryFor(id, s).proc = None /\ EntryFor(id, s).port = 0 /\ EntryFor(id, s).name = None
    BY <2>4 DEF Entries
  <2> QED
    BY <1>1, <2>1, <2>3, <2>5 DEF s
<1> QED
  BY <1>2, <1>3

-----------------------------------------------------------------------------
\* The parts of the invariant that speak of one variable more than the entries.
\* While entries and tunnels keep still, each part needs only its own variable to.
LEMMA Frame ==
  ASSUME VpnInv, UNCHANGED <<config, entries>>
  PROVE  /\ SlotsAreOwn'
         /\ UNCHANGED procs => ChildrenAreOwned'
         /\ UNCHANGED <<services, run>> => ServicesAreOwn'
         /\ UNCHANGED <<run, status>> => CommandIsOwn'
         /\ UNCHANGED run => OutputIsBounded'
         /\ UNCHANGED status => AnswersAreOwn' /\ AnswererIsOwn'
<1> USE DEF VpnInv
<1>1. SlotsAreOwn'
  BY DEF SlotsAreOwn, Kind
<1>2. UNCHANGED procs => ChildrenAreOwned'
  BY DEF ChildrenAreOwned, Kind
<1>3. UNCHANGED <<services, run>> => ServicesAreOwn'
  BY DEF ServicesAreOwn, WireGuardUp, Kind
<1>4. UNCHANGED <<run, status>> => CommandIsOwn'
  BY DEF CommandIsOwn, WireGuardUp, Kind
<1>5. UNCHANGED run => OutputIsBounded'
  BY DEF OutputIsBounded
<1>6. UNCHANGED status => AnswersAreOwn' /\ AnswererIsOwn'
  BY DEF AnswersAreOwn, AnswererIsOwn, Kind
<1> QED
  BY <1>1, <1>2, <1>3, <1>4, <1>5, <1>6

\* The answer stays, with or without the client that gave it, and so does the entry
\* that holds that client.
LEMMA AnswererKeeps ==
  ASSUME VpnInv, UNCHANGED config, status'.valid => status.valid, status'.id = status.id,
         status'.by # None => status'.by = status.by,
         \A s \in Slots : status'.by # None /\ entries[s].proc = status'.by =>
           /\ entries'[s].used = entries[s].used /\ entries'[s].id = entries[s].id
           /\ entries'[s].proc = entries[s].proc
  PROVE  AnswererIsOwn'
<1> USE DEF VpnInv
<1> SUFFICES ASSUME status'.valid, status'.by # None
             PROVE  IF Kind(status.id) = "wireguard"
                      THEN status'.by = Service[config[status.id]]
                      ELSE \E s \in Slots : /\ entries'[s].used /\ entries'[s].id = status.id
                                            /\ entries'[s].proc = status'.by
  BY DEF AnswererIsOwn, Kind
<1>1. CASE Kind(status.id) = "wireguard"
  BY <1>1 DEF AnswererIsOwn
<1>2. CASE Kind(status.id) # "wireguard"
  <2>1. PICK s \in Slots :
          entries[s].used /\ entries[s].id = status.id /\ entries[s].proc = status'.by
    BY <1>2 DEF AnswererIsOwn
  <2> QED
    BY <1>2, <2>1
<1> QED
  BY <1>1, <1>2

\* A client that goes leaves the answer as it is.
LEMMA GoneKeeps ==
  ASSUME VpnInv, UNCHANGED config, NEW clients, Gone(clients)
  PROVE  /\ status' \in Statuses /\ AnswersAreOwn'
         /\ status'.valid = status.valid /\ status'.id = status.id
         /\ status'.by # None => status'.by = status.by /\ status.by \notin clients
<1>1. status \in Statuses /\ AnswersAreOwn
  BY DEF VpnInv, VpnTypeOK
<1>2. PICK by \in {None, status.by} :
        /\ status' = [status EXCEPT !.by = by]
        /\ by # None => by = status.by /\ status.by \notin clients
  BY DEF Gone
<1>3. /\ status' \in Statuses /\ status'.valid = status.valid /\ status'.id = status.id
      /\ status'.from = status.from /\ status'.by = by
  BY <1>1, <1>2 DEF Statuses
<1> QED
  BY <1>1, <1>2, <1>3 DEF AnswersAreOwn

\* A command that starts has all its output and all its turns before it.
LEMMA StartedCommand ==
  ASSUME NEW what \in {"install", "uninstall", "show"}, NEW id \in Ids, NEW s \in Slots,
         Start(what, id, s)
  PROVE  /\ run' \in Commands /\ run' # None
         /\ run'.what = what /\ run'.id = id /\ run'.slot = s
         /\ OutputIsBounded'
<1>1. PICK n \in 0..MaxOutput, hangs \in BOOLEAN :
        run' = [what |-> what, id |-> id, slot |-> s, left |-> n, piped |-> 0, turn |-> 0,
                hangs |-> hangs]
  BY DEF Start
<1>2. run' \in Commands
  BY <1>1, Constants DEF Commands
<1>3. run' # None
  BY <1>2, Constants
<1>4. run'.left \in 0..MaxOutput /\ run'.turn = 0
  BY <1>1
<1>5. PipeSize * 0 = 0
  BY Constants
<1>6. OutputIsBounded'
  BY <1>4, <1>5, Constants DEF OutputIsBounded
<1> QED
  BY <1>1, <1>2, <1>3, <1>6

\* A turn of the loop of pmx_proc_run reads a pipe's worth, or the rest.
LEMMA TurnKeepsInv ==
  ASSUME VpnInv, Turn
  PROVE  VpnInv'
<1> USE DEF VpnInv
<1>1. run \in Commands /\ run # None
  BY DEF Turn, VpnTypeOK
<1>2. /\ run.left \in 0..MaxOutput /\ run.turn \in 0..(MaxTurns - 1) /\ run.slot \in Slots
      /\ run.what \in {"install", "uninstall", "show"} /\ run.id \in Ids /\ run.hangs \in BOOLEAN
  BY <1>1 DEF Commands
<1>3. run.turn + 1 < MaxTurns
  BY <1>2, Constants DEF Turn, Endings
<1> DEFINE w == Wrote
<1>4. w \in 0..PipeSize /\ w <= run.left /\ (w = run.left \/ w = PipeSize)
  BY <1>2, Constants DEF Wrote, Drained
<1> HIDE DEF w
<1>5. run' = [run EXCEPT !.left = @ - w, !.piped = 0 + w, !.turn = @ + 1]
  BY DEF Turn, w, Drained
<1>6. /\ run'.what = run.what /\ run'.id = run.id /\ run'.slot = run.slot
      /\ run'.left = run.left - w /\ run'.turn = run.turn + 1
  BY <1>1, <1>5 DEF Commands
<1>7. run' \in Commands
  <2>1. run.left - w \in 0..MaxOutput /\ run.turn + 1 \in 0..(MaxTurns - 1) /\ 0 + w \in 0..PipeSize
    BY <1>2, <1>3, <1>4, Constants
  <2> QED
    BY <1>1, <1>5, <2>1 DEF Commands
<1>8. run' # None
  BY <1>7, Constants
<1>9. VpnTypeOK'
  BY <1>7 DEF Turn, VpnTypeOK, worldVars
<1>10. SlotsAreOwn' /\ ChildrenAreOwned' /\ AnswersAreOwn' /\ AnswererIsOwn'
  BY Frame DEF Turn, worldVars
<1>11. ServicesAreOwn'
  BY <1>1, <1>6, <1>8 DEF Turn, ServicesAreOwn, WireGuardUp, Kind, worldVars
<1>12. CommandIsOwn'
  BY <1>1, <1>6, <1>8 DEF Turn, CommandIsOwn, WireGuardUp, Kind, worldVars
<1>13. OutputIsBounded'
  <2>1. run'.left = run.left - w /\ run'.turn = run.turn + 1
    BY <1>6
  <2>2. PipeSize * (run.turn + 1) = PipeSize * run.turn + PipeSize
    BY <1>2, Constants
  <2>3. PipeSize * run.turn \in Int
    BY <1>2, Constants
  <2> QED
    BY <1>1, <1>2, <1>4, <2>1, <2>2, <2>3, Constants DEF OutputIsBounded
<1> QED
  BY <1>9, <1>10, <1>11, <1>12, <1>13

-----------------------------------------------------------------------------
\* What is known of the entry a command works on.
LEMMA CommandEntry ==
  ASSUME VpnInv, run # None
  PROVE  /\ run \in Commands /\ run.slot \in Slots /\ run.id \in Ids
         /\ entries[run.slot].used /\ entries[run.slot].id = run.id /\ Kind(run.id) = "wireguard"
         /\ entries[run.slot].name \in Names /\ entries[run.slot].name = Service[config[run.id]]
         /\ entries[run.slot].proc = None
         /\ config[run.id] \in Configs /\ config[run.id] # None
<1>1. run \in Commands /\ run.slot \in Slots /\ run.id \in Ids
  BY DEF VpnInv, VpnTypeOK, Commands
<1>2. /\ entries[run.slot].used /\ entries[run.slot].id = run.id /\ Kind(run.id) = "wireguard"
      /\ entries[run.slot].name # None
  BY DEF VpnInv, CommandIsOwn, WireGuardUp
<1>3. entries[run.slot].proc = None
  BY <1>1, <1>2 DEF VpnInv, ChildrenAreOwned, Kind
<1>4. config[run.id] \in Configs /\ config[run.id] # None
  BY <1>1, Constants DEF VpnInv, VpnTypeOK
<1> QED
  BY <1>1, <1>2, <1>3, <1>4, Constants DEF VpnInv, SlotsAreOwn

\* Giving a WireGuard entry another state leaves slots and children as they are.
LEMMA StateChange ==
  ASSUME VpnInv, NEW s \in Slots, NEW st \in {"down", "starting", "running", "failed"},
         entries[s].used, entries[s].proc = None, Kind(entries[s].id) = "wireguard",
         entries' = [entries EXCEPT ![s].state = st], UNCHANGED <<config, procs>>
  PROVE  /\ entries' \in [Slots -> Entries]
         /\ SlotsAreOwn' /\ ChildrenAreOwned'
         /\ \A t \in Slots : t # s => entries'[t] = entries[t]
         /\ entries'[s].state = st /\ entries'[s].name = entries[s].name
         /\ entries'[s].id = entries[s].id /\ entries'[s].used
<1> USE DEF VpnInv
<1>1. /\ \A t \in Slots : t # s => entries'[t] = entries[t]
      /\ entries'[s] = [entries[s] EXCEPT !.state = st]
      /\ entries' \in [Slots -> Entries]
  BY DEF VpnTypeOK, Entries
<1>2. entries[s] \in Entries
  BY DEF VpnTypeOK
<1>3. /\ entries'[s].state = st /\ entries'[s].used = entries[s].used
      /\ entries'[s].id = entries[s].id /\ entries'[s].name = entries[s].name
      /\ entries'[s].proc = entries[s].proc /\ entries'[s].port = entries[s].port
  BY <1>1, <1>2 DEF Entries
<1>4. \A t \in Slots :
        /\ entries'[t].used = entries[t].used
        /\ entries'[t].id = entries[t].id /\ entries'[t].name = entries[t].name
        /\ entries'[t].proc = entries[t].proc /\ entries'[t].port = entries[t].port
  BY <1>1, <1>3
<1>5. SlotsAreOwn'
  BY <1>1, <1>4 DEF SlotsAreOwn, Kind
<1>6. ChildrenAreOwned'
  BY <1>1, <1>3, <1>4 DEF ChildrenAreOwned, Kind
<1> QED
  BY <1>1, <1>3, <1>5, <1>6

\* The service of a running tunnel runs its configuration.
LEMMA RunningService ==
  ASSUME VpnInv, NEW t \in Slots, WireGuardUp(t, "running")
  PROVE  /\ entries[t].name \in Names /\ entries[t].name # None
         /\ services[entries[t].name] = config[entries[t].id]
         /\ services[entries[t].name] # None
<1>1. entries[t].id \in Ids
  BY DEF VpnInv, SlotsAreOwn, WireGuardUp
<1>2. config[entries[t].id] \in Configs
  BY <1>1 DEF VpnInv, VpnTypeOK
<1>3. entries[t].name \in Names \cup {None}
  BY DEF VpnInv, VpnTypeOK, Entries
<1> QED
  BY <1>2, <1>3, Constants DEF VpnInv, ServicesAreOwn

\* An installation that ends well found its name free, so no other tunnel runs there;
\* one that was killed may have left a service behind, under an entry that failed.
LEMMA InstallEndsKeepsInv ==
  ASSUME VpnInv, InstallEnds
  PROVE  VpnInv'
<1> USE DEF VpnInv
<1> DEFINE s == run.slot
           n == entries[run.slot].name
<1>1. run # None /\ run.what = "install" /\ run' = None
  BY DEF InstallEnds
<1>2. /\ s \in Slots /\ entries[s].used /\ entries[s].id = run.id /\ Kind(run.id) = "wireguard"
      /\ n \in Names /\ entries[s].proc = None /\ config[run.id] \in Configs /\ run.id \in Ids
  BY <1>1, CommandEntry
<1>3. PICK end \in Endings :
        /\ end = "ok" => services[n] = None
        /\ \/ /\ services[n] = None
              /\ services' = [services EXCEPT ![n] = config[run.id]]
           \/ end # "ok" /\ UNCHANGED services
        /\ entries' = [entries EXCEPT ![s].state = IF end = "ok" THEN "running" ELSE "failed"]
  BY DEF InstallEnds
<1>4. UNCHANGED <<profile, config, elevated, found, procs, status, clicked>>
  BY DEF InstallEnds, worldVars
<1> DEFINE st == IF end = "ok" THEN "running" ELSE "failed"
<1>5. services \in [Names -> Configs \cup {None}]
  BY DEF VpnTypeOK
<1>6. st \in {"down", "starting", "running", "failed"}
  OBVIOUS
<1>7. /\ entries' \in [Slots -> Entries] /\ SlotsAreOwn' /\ ChildrenAreOwned'
      /\ \A t \in Slots : t # s => entries'[t] = entries[t]
      /\ entries'[s].state = st /\ entries'[s].name = n
      /\ entries'[s].id = run.id /\ entries'[s].used
  <2> HIDE DEF st
  <2>1. entries' = [entries EXCEPT ![s].state = st]
    BY <1>3 DEF st
  <2> QED
    BY <1>2, <1>4, <1>6, <2>1, StateChange
<1>8. services' \in [Names -> Configs \cup {None}]
  BY <1>2, <1>3 DEF VpnTypeOK
<1>9. VpnTypeOK'
  BY <1>1, <1>4, <1>7, <1>8 DEF VpnTypeOK
<1>10. ServicesAreOwn'
  <2>1. \A t \in Slots : ~WireGuardUp(t, "starting")'
    BY <1>1, <1>2, <1>4, <1>7 DEF ServicesAreOwn, WireGuardUp, Kind
  <2>2. \A t \in Slots : t # s =>
          (WireGuardUp(t, "running")' <=> WireGuardUp(t, "running"))
    BY <1>4, <1>7 DEF WireGuardUp, Kind
  <2>3. \A t \in Slots : t = s /\ WireGuardUp(t, "running")' => end = "ok"
    BY <1>7 DEF WireGuardUp
  <2>4. services[n] = None => \A t \in Slots : WireGuardUp(t, "running") => entries[t].name # n
    BY RunningService
  <2>5. \A t \in Slots : WireGuardUp(t, "running")' =>
          entries'[t].name # None /\ services'[entries'[t].name] = config'[entries'[t].id]
    <3> SUFFICES ASSUME NEW t \in Slots, WireGuardUp(t, "running")'
                 PROVE  entries'[t].name # None /\ services'[entries'[t].name] = config'[entries'[t].id]
      OBVIOUS
    <3>1. CASE t = s
      <4>1. services[n] = None /\ services' = [services EXCEPT ![n] = config[run.id]]
        BY <1>3, <2>3, <3>1
      <4>2. services'[n] = config[run.id]
        BY <1>5, <1>2, <4>1
      <4> QED
        BY <1>2, <1>4, <1>7, <3>1, <4>2, Constants
    <3>2. CASE t # s
      <4>1. WireGuardUp(t, "running") /\ entries'[t] = entries[t]
        BY <1>7, <2>2, <3>2
      <4>2. services'[entries[t].name] = services[entries[t].name]
        BY <1>5, <1>2, <1>3, <2>4, <4>1, RunningService
      <4> QED
        BY <1>4, <4>1, <4>2 DEF ServicesAreOwn
    <3> QED
      BY <3>1, <3>2
  <2>6. \A t, u \in Slots : WireGuardUp(t, "running")' /\ WireGuardUp(u, "running")'
                             /\ entries'[t].name = entries'[u].name => t = u
    <3> SUFFICES ASSUME NEW t \in Slots, NEW u \in Slots, t # u,
                        WireGuardUp(t, "running")', WireGuardUp(u, "running")',
                        entries'[t].name = entries'[u].name
                 PROVE  FALSE
      OBVIOUS
    <3>1. CASE t = s
      BY <1>3, <1>7, <2>2, <2>3, <2>4, <3>1
    <3>2. CASE u = s
      BY <1>3, <1>7, <2>2, <2>3, <2>4, <3>2
    <3>3. CASE t # s /\ u # s
      BY <1>7, <2>2, <3>3 DEF ServicesAreOwn
    <3> QED
      BY <3>1, <3>2, <3>3
  <2> QED
    BY <2>1, <2>5, <2>6 DEF ServicesAreOwn
<1>11. CommandIsOwn' /\ OutputIsBounded'
  BY <1>1 DEF CommandIsOwn, OutputIsBounded
<1>12. AnswersAreOwn' /\ AnswererIsOwn'
  BY <1>2, <1>4, <1>7, AnswererKeeps DEF AnswersAreOwn
<1> QED
  BY <1>7, <1>9, <1>10, <1>11, <1>12

\* An uninstallation takes the label down with it, whatever became of the service.
LEMMA UninstallEndsKeepsInv ==
  ASSUME VpnInv, UninstallEnds
  PROVE  VpnInv'
<1> USE DEF VpnInv
<1> DEFINE s == run.slot
           n == entries[run.slot].name
<1>1. run # None /\ run.what = "uninstall" /\ run' = None
  BY DEF UninstallEnds
<1>2. /\ s \in Slots /\ entries[s].used /\ entries[s].id = run.id /\ Kind(run.id) = "wireguard"
      /\ n \in Names /\ entries[s].proc = None
  BY <1>1, CommandEntry
<1>3. WireGuardUp(s, "running")
  BY <1>1 DEF CommandIsOwn
<1>4. /\ \/ services' = [services EXCEPT ![n] = None] /\ Gone({n})
         \/ UNCHANGED <<services, status>>
      /\ entries' = [entries EXCEPT ![s].state = "down"]
      /\ UNCHANGED <<profile, config, elevated, found, procs, clicked>>
  BY DEF UninstallEnds, worldVars
<1>5. /\ entries' \in [Slots -> Entries] /\ SlotsAreOwn' /\ ChildrenAreOwned'
      /\ \A t \in Slots : t # s => entries'[t] = entries[t]
      /\ entries'[s].state = "down"
  BY <1>2, <1>4, StateChange
<1>6. services' \in [Names -> Configs \cup {None}]
  BY <1>2, <1>4 DEF VpnTypeOK
<1>7. /\ status' \in Statuses /\ AnswersAreOwn'
      /\ status'.valid = status.valid /\ status'.id = status.id
      /\ status'.by # None => status'.by = status.by
  BY <1>4, GoneKeeps DEF VpnTypeOK, AnswersAreOwn
<1>8. VpnTypeOK'
  BY <1>1, <1>4, <1>5, <1>6, <1>7 DEF VpnTypeOK
<1>9. ServicesAreOwn'
  <2>1. \A t \in Slots : \A state \in Up :
          WireGuardUp(t, state)' => t # s /\ WireGuardUp(t, state) /\ entries'[t] = entries[t]
    BY <1>4, <1>5 DEF WireGuardUp, Kind, Up
  <2>2. \A t \in Slots : t # s /\ WireGuardUp(t, "running") =>
          services'[entries[t].name] = services[entries[t].name]
    <3> SUFFICES ASSUME NEW t \in Slots, t # s, WireGuardUp(t, "running")
                 PROVE  services'[entries[t].name] = services[entries[t].name]
      OBVIOUS
    <3>1. entries[t].name # n /\ entries[t].name \in Names
      BY <1>2, <1>3, RunningService DEF ServicesAreOwn
    <3>2. services \in [Names -> Configs \cup {None}]
      BY DEF VpnTypeOK
    <3> QED
      BY <1>2, <1>4, <3>1, <3>2
  <2>3. \A t \in Slots : ~WireGuardUp(t, "starting")'
    BY <1>1, <2>1 DEF ServicesAreOwn, Up
  <2>4. \A t \in Slots : WireGuardUp(t, "running")' =>
          entries'[t].name # None /\ services'[entries'[t].name] = config'[entries'[t].id]
    BY <1>4, <2>1, <2>2 DEF ServicesAreOwn, Up
  <2>5. \A t, u \in Slots : WireGuardUp(t, "running")' /\ WireGuardUp(u, "running")'
                             /\ entries'[t].name = entries'[u].name => t = u
    BY <2>1 DEF ServicesAreOwn, Up
  <2> QED
    BY <2>3, <2>4, <2>5 DEF ServicesAreOwn
<1>10. CommandIsOwn' /\ OutputIsBounded'
  BY <1>1 DEF CommandIsOwn, OutputIsBounded
<1>11. AnswererIsOwn'
  BY <1>2, <1>4, <1>5, <1>7, AnswererKeeps
<1> QED
  BY <1>5, <1>7, <1>8, <1>9, <1>10, <1>11

\* "wg show" answers for the service of the running entry that was asked about.
LEMMA ShowEndsKeepsInv ==
  ASSUME VpnInv, ShowEnds
  PROVE  VpnInv'
<1> USE DEF VpnInv
<1> DEFINE n == entries[run.slot].name
<1>1. run # None /\ run.what = "show" /\ run' = None
  BY DEF ShowEnds
<1>2. /\ services[n] = config[run.id] /\ config[run.id] \in Configs
      /\ n \in Names /\ n = Service[config[run.id]] /\ Kind(run.id) = "wireguard"
  BY <1>1, CommandEntry DEF CommandIsOwn, ServicesAreOwn, SlotsAreOwn
<1>3. status.valid /\ status.id = run.id /\ run.id \in Ids
  BY <1>1, CommandEntry DEF CommandIsOwn
<1>4. PICK from \in {None, config[run.id]}, by \in {None, n} :
        status' = [status EXCEPT !.from = from, !.by = by]
  BY <1>2 DEF ShowEnds
<1>5. status' \in Statuses /\ status'.id = run.id /\ status'.from = from /\ status'.by = by
  BY <1>2, <1>3, <1>4 DEF VpnTypeOK, Statuses
<1>6. UNCHANGED <<profile, config, elevated, found, entries, procs, services, clicked>>
  BY DEF ShowEnds, worldVars
<1>7. VpnTypeOK'
  BY <1>1, <1>5, <1>6 DEF VpnTypeOK
<1>8. SlotsAreOwn' /\ ChildrenAreOwned'
  BY <1>6, Frame
<1>9. ServicesAreOwn'
  BY <1>1, <1>6 DEF ServicesAreOwn, WireGuardUp, Kind
<1>10. CommandIsOwn' /\ OutputIsBounded'
  BY <1>1 DEF CommandIsOwn, OutputIsBounded
<1>11. AnswersAreOwn' /\ AnswererIsOwn'
  BY <1>2, <1>3, <1>5, <1>6 DEF AnswersAreOwn, AnswererIsOwn, Kind
<1> QED
  BY <1>7, <1>8, <1>9, <1>10, <1>11

-----------------------------------------------------------------------------
\* An entry for a tunnel in a slot, and no other slot is the tunnel's.
Fits(e, s, id) ==
  /\ e \in Entries /\ e.used /\ e.id = id
  /\ e.port \in {0, PortBase + s - 1}
  /\ e.name # None => Kind(id) = "wireguard" /\ e.name = Service[config[id]]
  /\ \A t \in Slots : entries[t].used /\ entries[t].id = id => t = s

\* Putting such an entry there leaves the slots one tunnel's each.
LEMMA EntryPut ==
  ASSUME VpnInv, NEW s \in Slots, NEW id \in Ids, NEW e, Fits(e, s, id),
         entries' = [entries EXCEPT ![s] = e], UNCHANGED config
  PROVE  /\ entries' \in [Slots -> Entries] /\ entries'[s] = e
         /\ \A t \in Slots : t # s => entries'[t] = entries[t]
         /\ SlotsAreOwn'
<1> USE DEF VpnInv, Fits
<1>1. /\ entries' \in [Slots -> Entries] /\ entries'[s] = e
      /\ \A t \in Slots : t # s => entries'[t] = entries[t]
  BY DEF VpnTypeOK
<1>2. SlotsAreOwn'
  <2>1. \A t \in Slots :
          /\ entries'[t].used => entries'[t].id \in Ids
          /\ ~entries'[t].used => entries'[t] = Unused
          /\ entries'[t].port \in {0, PortBase + t - 1}
          /\ entries'[t].name # None =>
               /\ entries'[t].used /\ Kind(entries'[t].id) = "wireguard"
               /\ entries'[t].name = Service[config[entries'[t].id]]
    BY <1>1 DEF SlotsAreOwn
  <2>2. \A t, u \in Slots :
          entries'[t].used /\ entries'[u].used /\ entries'[t].id = entries'[u].id => t = u
    BY <1>1 DEF SlotsAreOwn
  <2> QED
    BY <2>1, <2>2 DEF SlotsAreOwn, Kind
<1> QED
  BY <1>1, <1>2

\* No command runs and none is started: the parts of the invariant about commands.
LEMMA NoCommand ==
  ASSUME run' = None
  PROVE  CommandIsOwn' /\ OutputIsBounded'
BY DEF CommandIsOwn, OutputIsBounded

\* A slot that holds an entry which is not up: children and services of the others
\* are as they were.
LEMMA DownEntryPut ==
  ASSUME VpnInv, run = None, run' = None, NEW s \in Slots, entries[s].proc = None,
         entries'[s].proc = None, entries'[s].state \notin Up,
         \A t \in Slots : t # s => entries'[t] = entries[t],
         UNCHANGED <<config, procs, services>>
  PROVE  ChildrenAreOwned' /\ ServicesAreOwn'
<1> USE DEF VpnInv
<1>1. ChildrenAreOwned'
  <2>1. \A t \in Slots : entries'[t].proc # None => t # s /\ entries'[t] = entries[t]
    OBVIOUS
  <2>2. \A t \in Slots : entries'[t].proc # None =>
          /\ entries'[t].used /\ Kind(entries'[t].id) = "openvpn" /\ entries'[t].state \in Up
          /\ entries'[t].port = PortBase + t - 1
          /\ procs[entries'[t].proc] # None
          /\ procs[entries'[t].proc].config = config[entries'[t].id]
          /\ procs[entries'[t].proc].port = entries'[t].port
          /\ \A u \in Slots : entries'[u].proc = entries'[t].proc => u = t
    BY <2>1 DEF ChildrenAreOwned
  <2>3. \A t \in Slots :
          entries'[t].used /\ Kind(entries'[t].id) = "openvpn" /\ entries'[t].state \in Up
            => entries'[t].proc # None
    BY <2>1 DEF ChildrenAreOwned
  <2>4. \A p \in Pids : procs[p] # None => \E t \in Slots : entries'[t].proc = p
    <3> SUFFICES ASSUME NEW p \in Pids, procs[p] # None
                 PROVE  \E t \in Slots : entries'[t].proc = p
      OBVIOUS
    <3>1. PICK t \in Slots : entries[t].proc = p
      BY DEF ChildrenAreOwned
    <3> QED
      BY <3>1, Constants
  <2> QED
    BY <2>2, <2>3, <2>4 DEF ChildrenAreOwned, Kind
<1>2. ServicesAreOwn'
  <2>1. \A t \in Slots : \A state \in Up :
          WireGuardUp(t, state)' => t # s /\ WireGuardUp(t, state) /\ entries'[t] = entries[t]
    BY DEF WireGuardUp, Kind
  <2> QED
    BY <2>1 DEF ServicesAreOwn, Up
<1> QED
  BY <1>1, <1>2

\* Connect, WireGuard: without the rights the entry fails, with them it is named after
\* its service and the installation begins.
LEMMA InstallKeepsInv ==
  ASSUME VpnInv, run = None, NEW id \in Ids, Label(id) \notin Up, Install(id), clicked' \in BOOLEAN,
         UNCHANGED <<profile, config, elevated, found, services>>
  PROVE  VpnInv'
<1> USE DEF VpnInv
<1> DEFINE f == EntryFor(id, Min(Candidates(id)))
<1>1. PICK s \in Slots : s = Min(Candidates(id))
  BY ConnectSlot DEF Install
<1>2. /\ entries[s].proc = None
      /\ \A t \in Slots : entries[t].used /\ entries[t].id = id => t = s
      /\ f \in Entries /\ f.used /\ f.id = id /\ f.proc = None
      /\ f.port \in {0, PortBase + s - 1}
      /\ f.name # None => Kind(id) = "wireguard" /\ f.name = Service[config[id]]
  BY <1>1, ConnectSlot DEF Install
<1>3. Kind(id) = "wireguard" /\ UNCHANGED procs /\ config[id] \in Configs
  BY DEF Install, VpnTypeOK
<1>4. UNCHANGED status
  BY DEF Install
<1>5. CASE /\ ~elevated /\ UNCHANGED run
           /\ entries' = [entries EXCEPT ![s] = [f EXCEPT !.stopping = FALSE, !.state = "failed"]]
  <2> DEFINE e == [f EXCEPT !.stopping = FALSE, !.state = "failed"]
  <2>1. /\ e \in Entries /\ e.used /\ e.id = id /\ e.proc = None /\ e.state = "failed"
        /\ e.port = f.port /\ e.name = f.name
    BY <1>2 DEF Entries
  <2>2. entries' = [entries EXCEPT ![s] = e]
    BY <1>5
  <2> HIDE DEF e, f
  <2>3. Fits(e, s, id)
    BY <1>2, <2>1 DEF Fits
  <2>4. /\ entries' \in [Slots -> Entries] /\ entries'[s] = e
        /\ \A t \in Slots : t # s => entries'[t] = entries[t]
        /\ SlotsAreOwn'
    BY <2>2, <2>3, EntryPut
  <2>5. e.state \notin Up
    BY <2>1 DEF Up
  <2>6. ChildrenAreOwned' /\ ServicesAreOwn'
    BY <1>2, <1>3, <1>5, <2>1, <2>4, <2>5, DownEntryPut
  <2>7. AnswersAreOwn' /\ AnswererIsOwn'
    BY <1>2, <1>4, <2>4, AnswererKeeps DEF AnswersAreOwn
  <2> QED
    BY <1>3, <1>5, <2>4, <1>4, <2>6, <2>7, NoCommand DEF VpnTypeOK
<1>6. CASE /\ elevated /\ Start("install", id, s)
           /\ entries' = [entries EXCEPT ![s] = [f EXCEPT !.stopping = FALSE, !.state = "starting",
                                                          !.name = Service[config[id]]]]
  <2> DEFINE e == [f EXCEPT !.stopping = FALSE, !.state = "starting", !.name = Service[config[id]]]
  <2>1. /\ e \in Entries /\ e.used /\ e.id = id /\ e.proc = None /\ e.state = "starting"
        /\ e.port = f.port /\ e.name = Service[config[id]] /\ e.name # None
    BY <1>2, <1>3, Constants DEF Entries
  <2>2. entries' = [entries EXCEPT ![s] = e]
    BY <1>6
  <2> HIDE DEF e, f
  <2>3. /\ entries' \in [Slots -> Entries] /\ entries'[s] = e
        /\ \A t \in Slots : t # s => entries'[t] = entries[t]
        /\ SlotsAreOwn'
    <3>1. Fits(e, s, id)
      BY <1>2, <1>3, <2>1 DEF Fits
    <3> QED
      BY <2>2, <3>1, EntryPut
  <2>4. /\ run' \in Commands /\ run' # None /\ run'.what = "install" /\ run'.id = id /\ run'.slot = s
        /\ OutputIsBounded'
    BY <1>6, StartedCommand
  <2>5. ChildrenAreOwned'
    <3>1. \A t \in Slots : entries'[t].proc = entries[t].proc
      BY <1>2, <2>1, <2>3
    <3>2. \A t \in Slots : t # s => entries'[t] = entries[t]
      BY <2>3
    <3>3. entries'[s].used /\ entries'[s].id = id /\ Kind(id) # "openvpn"
      BY <1>3, <2>1, <2>3
    <3> QED
      BY <1>2, <1>3, <3>1, <3>2, <3>3 DEF ChildrenAreOwned, Kind
  <2>6. ServicesAreOwn'
    <3>1. \A t \in Slots : t # s => entries'[t] = entries[t] /\ ~WireGuardUp(t, "starting")
      BY <2>3 DEF ServicesAreOwn
    <3>2. \A t \in Slots : WireGuardUp(t, "starting")' => t = s
      BY <3>1 DEF WireGuardUp, Kind
    <3>3. \A t \in Slots : WireGuardUp(t, "running")' => t # s /\ WireGuardUp(t, "running")
      BY <2>1, <2>3, <3>1 DEF WireGuardUp, Kind
    <3> QED
      BY <2>4, <3>1, <3>2, <3>3 DEF ServicesAreOwn
  <2>7. CommandIsOwn'
    BY <1>3, <2>1, <2>3, <2>4 DEF CommandIsOwn, WireGuardUp, Kind
  <2>8. AnswersAreOwn' /\ AnswererIsOwn'
    BY <1>2, <1>4, <2>3, AnswererKeeps DEF AnswersAreOwn
  <2> QED
    BY <1>3, <1>4, <2>3, <2>4, <2>5, <2>6, <2>7, <2>8 DEF VpnTypeOK
<1> QED
  BY <1>1, <1>5, <1>6 DEF Install

\* Connect, OpenVPN: no child is behind the slot, so freeing it ends none, and the new
\* child listens on the port of the slot.
LEMMA SpawnKeepsInv ==
  ASSUME VpnInv, run = None, NEW id \in Ids, Label(id) \notin Up, Spawn(id), clicked' \in BOOLEAN,
         UNCHANGED <<profile, config, elevated, found, services>>
  PROVE  VpnInv'
<1> USE DEF VpnInv
<1> DEFINE f == EntryFor(id, Min(Candidates(id)))
<1>1. PICK s \in Slots : s = Min(Candidates(id))
  BY ConnectSlot DEF Spawn
<1>2. /\ entries[s].proc = None
      /\ \A t \in Slots : entries[t].used /\ entries[t].id = id => t = s
      /\ f \in Entries /\ f.used /\ f.id = id /\ f.proc = None
      /\ f.port \in {0, PortBase + s - 1}
      /\ f.name # None => Kind(id) = "wireguard" /\ f.name = Service[config[id]]
  BY <1>1, ConnectSlot DEF Spawn
<1>3. Kind(id) = "openvpn" /\ run' = None /\ config[id] \in OpenVpn
  BY DEF Spawn, Kind
<1> DEFINE port == IF f.port = 0 THEN PortBase + s - 1 ELSE f.port
           e == [f EXCEPT !.stopping = FALSE, !.port = port]
<1>4. port = PortBase + s - 1 /\ port \in Nat
  BY <1>2, Constants DEF Slots
<1>5. e \in Entries /\ e.used /\ e.id = id /\ e.proc = None /\ e.port = port /\ e.name = None
  <2> HIDE DEF port
  <2>1. f.name = None
    BY <1>2, <1>3
  <2> HIDE DEF f
  <2> QED
    BY <1>2, <1>4, <2>1 DEF Entries
<1>6. Freed(e.proc) = procs
  BY <1>5, Constants DEF Freed, VpnTypeOK
<1>7. /\ status' \in Statuses /\ AnswersAreOwn'
      /\ status'.valid = status.valid /\ status'.id = status.id
      /\ status'.by # None => status'.by = status.by
  <2>1. Gone({e.proc})
    BY <1>1 DEF Spawn
  <2> QED
    BY <2>1, GoneKeeps
<1>8. \/ /\ entries' = [entries EXCEPT ![s] = [e EXCEPT !.state = "failed", !.proc = None]]
         /\ procs' = procs
      \/ \E p \in Pids :
           /\ procs[p] = None
           /\ procs' = [procs EXCEPT ![p] = [config |-> config[id], port |-> e.port, alive |-> TRUE]]
           /\ entries' = [entries EXCEPT ![s] = [e EXCEPT !.state = "starting", !.proc = p]]
  BY <1>1, <1>6 DEF Spawn
<1> HIDE DEF f, port, e
<1>9. CASE /\ entries' = [entries EXCEPT ![s] = [e EXCEPT !.state = "failed", !.proc = None]]
           /\ procs' = procs
  <2> DEFINE g == [e EXCEPT !.state = "failed", !.proc = None]
  <2>1. /\ g \in Entries /\ g.used /\ g.id = id /\ g.port = port /\ g.name = None
        /\ g.proc = None /\ g.state = "failed"
    BY <1>5 DEF Entries
  <2>2. entries' = [entries EXCEPT ![s] = g]
    BY <1>9
  <2> HIDE DEF g
  <2>3. Fits(g, s, id)
    BY <1>2, <1>4, <2>1 DEF Fits
  <2>4. /\ entries' \in [Slots -> Entries] /\ entries'[s] = g
        /\ \A t \in Slots : t # s => entries'[t] = entries[t]
        /\ SlotsAreOwn'
    BY <2>2, <2>3, EntryPut
  <2>5. g.state \notin Up
    BY <2>1 DEF Up
  <2>6. ChildrenAreOwned' /\ ServicesAreOwn'
    BY <1>2, <1>3, <1>9, <2>1, <2>4, <2>5, DownEntryPut
  <2>7. AnswererIsOwn'
    BY <1>2, <1>7, <2>4, AnswererKeeps
  <2> QED
    BY <1>3, <1>7, <1>9, <2>4, <2>6, <2>7, NoCommand DEF VpnTypeOK
<1>10. ASSUME NEW p \in Pids, procs[p] = None,
              procs' = [procs EXCEPT ![p] = [config |-> config[id], port |-> e.port, alive |-> TRUE]],
              entries' = [entries EXCEPT ![s] = [e EXCEPT !.state = "starting", !.proc = p]]
       PROVE  VpnInv'
  <2> DEFINE g == [e EXCEPT !.state = "starting", !.proc = p]
             c == [config |-> config[id], port |-> e.port, alive |-> TRUE]
  <2>1. /\ g \in Entries /\ g.used /\ g.id = id /\ g.port = port /\ g.name = None
        /\ g.proc = p /\ g.state = "starting"
    BY <1>5 DEF Entries
  <2>2. entries' = [entries EXCEPT ![s] = g]
    BY <1>10
  <2>3. c \in Processes /\ c.config = config[id] /\ c.port = port
    BY <1>3, <1>4, <1>5 DEF Processes
  <2>4. procs' = [procs EXCEPT ![p] = c]
    BY <1>10
  <2> HIDE DEF g, c
  <2>5. Fits(g, s, id)
    BY <1>2, <1>4, <2>1 DEF Fits
  <2>6. /\ entries' \in [Slots -> Entries] /\ entries'[s] = g
        /\ \A t \in Slots : t # s => entries'[t] = entries[t]
        /\ SlotsAreOwn'
    BY <2>2, <2>5, EntryPut
  <2>7. /\ procs' \in [Pids -> Processes \cup {None}] /\ procs'[p] = c
        /\ \A q \in Pids : q # p => procs'[q] = procs[q]
    BY <2>3, <2>4 DEF VpnTypeOK
  <2>8. c # None /\ p # None
    BY <2>3, Constants
  <2>9. \A t \in Slots : entries[t].proc # p
    BY <1>10, <2>8 DEF ChildrenAreOwned
  <2>10. \A t \in Slots : t # s => entries'[t] = entries[t]
    BY <2>6
  <2>11. ChildrenAreOwned'
    <3>1. ASSUME NEW t \in Slots, entries'[t].proc # None
          PROVE  /\ entries'[t].used /\ Kind(entries'[t].id) = "openvpn" /\ entries'[t].state \in Up
                 /\ entries'[t].port = PortBase + t - 1
                 /\ procs'[entries'[t].proc] # None
                 /\ procs'[entries'[t].proc].config = config[entries'[t].id]
                 /\ procs'[entries'[t].proc].port = entries'[t].port
                 /\ \A u \in Slots : entries'[u].proc = entries'[t].proc => u = t
      <4>1. CASE t = s
        <5>1. \A u \in Slots : u # s => entries'[u].proc # p
          BY <2>9, <2>10
        <5> QED
          BY <1>3, <1>4, <2>1, <2>3, <2>6, <2>7, <2>8, <4>1, <5>1 DEF Up
      <4>2. CASE t # s
        <5>1. entries'[t] = entries[t] /\ entries[t].proc # p
          BY <2>9, <2>10, <4>2
        <5>2. entries[t].proc \in Pids /\ procs'[entries[t].proc] = procs[entries[t].proc]
          BY <2>7, <3>1, <5>1 DEF VpnTypeOK, Entries
        <5>3. \A u \in Slots : entries'[u].proc = entries[t].proc => u = t
          BY <2>1, <2>6, <2>10, <3>1, <5>1 DEF ChildrenAreOwned
        <5> QED
          BY <3>1, <5>1, <5>2, <5>3 DEF ChildrenAreOwned
      <4> QED
        BY <4>1, <4>2
    <3>2. \A t \in Slots :
            entries'[t].used /\ Kind(entries'[t].id) = "openvpn" /\ entries'[t].state \in Up
              => entries'[t].proc # None
      BY <2>1, <2>6, <2>8 DEF ChildrenAreOwned
    <3>3. ASSUME NEW q \in Pids, procs'[q] # None
          PROVE  \E t \in Slots : entries'[t].proc = q
      <4>1. CASE q = p
        BY <2>1, <2>6, <4>1
      <4>2. CASE q # p
        <5>1. PICK t \in Slots : entries[t].proc = q
          BY <2>7, <3>3, <4>2 DEF ChildrenAreOwned
        <5>2. t # s
          BY <1>2, <5>1, Constants
        <5> QED
          BY <2>10, <5>1, <5>2
      <4> QED
        BY <4>1, <4>2
    <3> QED
      BY <3>1, <3>2, <3>3 DEF ChildrenAreOwned, Kind
  <2>12. ServicesAreOwn'
    <3>1. \A t \in Slots : \A state \in Up : WireGuardUp(t, state)' => t # s
      BY <1>3, <2>1, <2>6 DEF WireGuardUp, Kind
    <3>2. \A t \in Slots : t # s => \A state \in Up : (WireGuardUp(t, state)' <=> WireGuardUp(t, state))
      BY <2>10 DEF WireGuardUp, Kind
    <3> QED
      BY <1>3, <2>10, <3>1, <3>2 DEF ServicesAreOwn, Up
  <2>13. AnswererIsOwn'
    BY <1>2, <1>7, <2>6, AnswererKeeps
  <2> QED
    BY <1>3, <1>7, <2>6, <2>7, <2>11, <2>12, <2>13, NoCommand DEF VpnTypeOK
<1> QED
  BY <1>8, <1>9, <1>10

\* Slots stay their tunnels' own when what says so stays.
LEMMA SlotsKeep ==
  ASSUME SlotsAreOwn, UNCHANGED config,
         \A t \in Slots :
           /\ entries'[t].used = entries[t].used /\ entries'[t].id = entries[t].id
           /\ entries'[t].name = entries[t].name /\ entries'[t].port = entries[t].port
           /\ ~entries[t].used => entries'[t] = entries[t]
  PROVE  SlotsAreOwn'
<1>1. \A t \in Slots :
        /\ entries'[t].used => entries'[t].id \in Ids
        /\ ~entries'[t].used => entries'[t] = Unused
        /\ entries'[t].port \in {0, PortBase + t - 1}
        /\ entries'[t].name # None =>
             /\ entries'[t].used /\ Kind(entries'[t].id) = "wireguard"
             /\ entries'[t].name = Service[config[entries'[t].id]]
  BY DEF SlotsAreOwn
<1>2. \A t, u \in Slots :
        entries'[t].used /\ entries'[u].used /\ entries'[t].id = entries'[u].id => t = u
  BY DEF SlotsAreOwn
<1> QED
  BY <1>1, <1>2 DEF SlotsAreOwn, Kind

\* Disconnect, WireGuard: a running entry has its name, so only its stopping mark
\* changes, and the removal begins if the client is there.
LEMMA UninstallKeepsInv ==
  ASSUME VpnInv, run = None, NEW id \in Ids, NEW s \in Slots,
         entries[s].used, entries[s].id = id, entries[s].state \in Up, Kind(id) = "wireguard",
         Uninstall(id, s), clicked' \in BOOLEAN,
         UNCHANGED <<profile, config, elevated, found, services>>
  PROVE  VpnInv'
<1> USE DEF VpnInv
<1>1. WireGuardUp(s, "running")
  BY DEF ServicesAreOwn, WireGuardUp, Up
<1>2. entries[s].name # None /\ entries[s] \in Entries
  BY <1>1, RunningService DEF VpnTypeOK
<1>3. UNCHANGED <<procs, status>>
  BY DEF Uninstall
<1>4. entries' = [entries EXCEPT ![s].stopping = TRUE, ![s].name = entries[s].name]
  BY <1>2 DEF Uninstall
<1>5. /\ entries' \in [Slots -> Entries]
      /\ \A t \in Slots : t # s => entries'[t] = entries[t]
      /\ entries'[s].used = entries[s].used /\ entries'[s].id = entries[s].id
      /\ entries'[s].state = entries[s].state /\ entries'[s].name = entries[s].name
      /\ entries'[s].proc = entries[s].proc /\ entries'[s].port = entries[s].port
  BY <1>2, <1>4 DEF VpnTypeOK, Entries
<1>6. \A t \in Slots :
        /\ entries'[t].used = entries[t].used /\ entries'[t].id = entries[t].id
        /\ entries'[t].state = entries[t].state /\ entries'[t].name = entries[t].name
        /\ entries'[t].proc = entries[t].proc /\ entries'[t].port = entries[t].port
  BY <1>5
<1>7. SlotsAreOwn'
  BY <1>5, <1>6 DEF SlotsAreOwn, Kind
<1>8. ChildrenAreOwned'
  BY <1>3, <1>6 DEF ChildrenAreOwned, Kind
<1>9. \A t \in Slots : \A state \in Up : (WireGuardUp(t, state)' <=> WireGuardUp(t, state))
  BY <1>6 DEF WireGuardUp, Kind
<1>10. ServicesAreOwn'
  <2>1. \A t \in Slots : ~WireGuardUp(t, "starting")
    BY DEF ServicesAreOwn
  <2> QED
    BY <1>6, <1>9, <2>1 DEF ServicesAreOwn, Up
<1>11. AnswersAreOwn' /\ AnswererIsOwn'
  BY <1>3, <1>6, AnswererKeeps DEF AnswersAreOwn
<1>12. CASE Start("uninstall", id, s)
  <2>1. /\ run' \in Commands /\ run' # None /\ run'.what = "uninstall" /\ run'.id = id /\ run'.slot = s
        /\ OutputIsBounded'
    BY <1>12, StartedCommand
  <2>2. CommandIsOwn'
    BY <1>1, <1>2, <1>6, <2>1 DEF CommandIsOwn, WireGuardUp, Kind
  <2> QED
    BY <1>3, <1>5, <1>7, <1>8, <1>10, <1>11, <2>1, <2>2 DEF VpnTypeOK
<1>13. CASE UNCHANGED run
  BY <1>3, <1>5, <1>7, <1>8, <1>10, <1>11, <1>13, NoCommand DEF VpnTypeOK
<1> QED
  BY <1>12, <1>13 DEF Uninstall

\* Disconnect, OpenVPN: the child is killed and let go of in one step.
LEMMA StopKeepsInv ==
  ASSUME VpnInv, run = None, NEW id \in Ids, NEW s \in Slots,
         entries[s].used, entries[s].id = id, Kind(id) = "openvpn",
         Stop(id, s), clicked' \in BOOLEAN,
         UNCHANGED <<profile, config, elevated, found, services>>
  PROVE  VpnInv'
<1> USE DEF VpnInv
<1>1. entries[s] \in Entries /\ run' = None
  BY DEF VpnTypeOK, Stop
<1>2. entries' = [entries EXCEPT ![s].stopping = TRUE, ![s].state = "down", ![s].proc = None]
  BY DEF Stop
<1>3. /\ entries' \in [Slots -> Entries]
      /\ \A t \in Slots : t # s => entries'[t] = entries[t]
      /\ entries'[s].used = entries[s].used /\ entries'[s].id = entries[s].id
      /\ entries'[s].state = "down" /\ entries'[s].name = entries[s].name
      /\ entries'[s].proc = None /\ entries'[s].port = entries[s].port
  BY <1>1, <1>2 DEF VpnTypeOK, Entries
<1>4. /\ procs' \in [Pids -> Processes \cup {None}]
      /\ \A p \in Pids : procs'[p] = IF p = entries[s].proc THEN None ELSE procs[p]
  BY DEF Stop, Freed, VpnTypeOK
<1>5. SlotsAreOwn'
  <2>1. \A t \in Slots :
          /\ entries'[t].used = entries[t].used /\ entries'[t].id = entries[t].id
          /\ entries'[t].name = entries[t].name /\ entries'[t].port = entries[t].port
          /\ ~entries[t].used => entries'[t] = entries[t]
    BY <1>3
  <2> QED
    BY <2>1, SlotsKeep
<1>6. ChildrenAreOwned'
  <2>1. \A t \in Slots : entries'[t].proc # None => t # s /\ entries'[t] = entries[t]
    BY <1>3
  <2>2. ASSUME NEW t \in Slots, entries'[t].proc # None
        PROVE  procs'[entries'[t].proc] = procs[entries[t].proc]
    <3>1. entries[t].proc \in Pids /\ entries[t].proc # entries[s].proc
      BY <2>1, <2>2 DEF ChildrenAreOwned, VpnTypeOK, Entries
    <3> QED
      BY <1>4, <2>1, <2>2, <3>1
  <2>3. \A t, u \in Slots : entries'[t].proc # None /\ entries'[u].proc = entries'[t].proc => u = t
    BY <2>1 DEF ChildrenAreOwned
  <2>4. \A t \in Slots : entries'[t].proc # None =>
          /\ entries'[t].used /\ Kind(entries'[t].id) = "openvpn" /\ entries'[t].state \in Up
          /\ entries'[t].port = PortBase + t - 1
          /\ procs'[entries'[t].proc] # None
          /\ procs'[entries'[t].proc].config = config[entries'[t].id]
          /\ procs'[entries'[t].proc].port = entries'[t].port
    BY <2>1, <2>2 DEF ChildrenAreOwned
  <2>5. \A t \in Slots :
          entries'[t].used /\ Kind(entries'[t].id) = "openvpn" /\ entries'[t].state \in Up
            => entries'[t].proc # None
    BY <1>3 DEF ChildrenAreOwned, Up
  <2>6. ASSUME NEW p \in Pids, procs'[p] # None
        PROVE  \E t \in Slots : entries'[t].proc = p
    <3>1. p # entries[s].proc /\ procs[p] # None
      BY <1>4, <2>6
    <3>2. PICK t \in Slots : entries[t].proc = p
      BY <3>1 DEF ChildrenAreOwned
    <3> QED
      BY <1>3, <3>1, <3>2
  <2> QED
    BY <2>3, <2>4, <2>5, <2>6 DEF ChildrenAreOwned, Kind
<1>7. ServicesAreOwn'
  <2>1. \A t \in Slots : \A state \in Up :
          WireGuardUp(t, state)' => t # s /\ WireGuardUp(t, state) /\ entries'[t] = entries[t]
    BY <1>3 DEF WireGuardUp, Kind, Up
  <2> QED
    BY <1>1, <2>1 DEF ServicesAreOwn, Up
<1>8. /\ status' \in Statuses /\ AnswersAreOwn'
      /\ status'.valid = status.valid /\ status'.id = status.id
      /\ status'.by # None => status'.by = status.by /\ status.by # entries[s].proc
  BY GoneKeeps DEF Stop
<1>9. AnswererIsOwn'
  BY <1>3, <1>8, AnswererKeeps
<1> QED
  BY <1>1, <1>3, <1>4, <1>5, <1>6, <1>7, <1>8, <1>9, NoCommand DEF VpnTypeOK

\* The poll takes the children that ended on their own from entries and system alike.
LEMMA PollKeepsInv ==
  ASSUME VpnInv, Poll
  PROVE  VpnInv'
<1> USE DEF VpnInv
<1>1. run = None /\ run' = None /\ clicked' \in BOOLEAN
      /\ UNCHANGED <<profile, config, elevated, found, services>>
  BY DEF Poll, worldVars
<1>2. ASSUME NEW s \in Slots
      PROVE  /\ entries'[s] \in Entries
             /\ entries'[s].used = entries[s].used /\ entries'[s].id = entries[s].id
             /\ entries'[s].name = entries[s].name /\ entries'[s].port = entries[s].port
             /\ entries'[s].proc = IF Exited(entries[s]) THEN None ELSE entries[s].proc
             /\ Exited(entries[s]) => entries'[s].state \notin Up
             /\ ~Exited(entries[s]) =>
                  (entries'[s].state \in Up <=> entries[s].state \in Up)
             /\ entries[s].proc = None => entries'[s] = entries[s]
  <2>1. entries[s] \in Entries /\ entries'[s] = Polled(entries[s])
    BY DEF VpnTypeOK, Poll
  <2>2. CASE Exited(entries[s])
    <3> DEFINE st == IF entries[s].stopping THEN "down" ELSE "failed"
    <3>1. Polled(entries[s]) = [entries[s] EXCEPT !.proc = None, !.state = st]
      BY <2>2 DEF Polled
    <3>2. st \in {"down", "failed"}
      OBVIOUS
    <3> HIDE DEF st
    <3>3. /\ entries'[s] \in Entries
          /\ entries'[s].used = entries[s].used /\ entries'[s].id = entries[s].id
          /\ entries'[s].name = entries[s].name /\ entries'[s].port = entries[s].port
          /\ entries'[s].proc = None /\ entries'[s].state \in {"down", "failed"}
      BY <2>1, <3>1, <3>2 DEF Entries
    <3>4. entries[s].proc # None
      BY <2>2 DEF Exited
    <3> QED
      BY <2>2, <3>3, <3>4 DEF Up
  <2>3. CASE ~Exited(entries[s]) /\ entries[s].proc # None /\ entries[s].state = "starting"
    <3>1. Polled(entries[s]) = [entries[s] EXCEPT !.state = "running"]
      BY <2>3 DEF Polled
    <3> QED
      BY <2>1, <2>3, <3>1 DEF Entries, Up
  <2>4. CASE ~Exited(entries[s]) /\ ~(entries[s].proc # None /\ entries[s].state = "starting")
    <3>1. Polled(entries[s]) = entries[s]
      BY <2>4 DEF Polled
    <3> QED
      BY <2>1, <2>4, <3>1
  <2> QED
    BY <2>2, <2>3, <2>4
<1>3. entries' \in [Slots -> Entries]
  BY <1>2 DEF Poll
<1>4. /\ procs' \in [Pids -> Processes \cup {None}]
      /\ \A p \in Pids : procs'[p] = IF \E s \in Slots : Exited(entries[s]) /\ entries[s].proc = p
                                       THEN None ELSE procs[p]
  BY DEF Poll, VpnTypeOK
<1>5. SlotsAreOwn'
  <2>1. \A s \in Slots : ~entries[s].used => entries[s].proc = None
    BY DEF SlotsAreOwn, Unused
  <2>2. \A s \in Slots : ~entries[s].used => entries'[s] = entries[s]
    BY <1>2, <2>1
  <2>3. \A t \in Slots :
          /\ entries'[t].used = entries[t].used /\ entries'[t].id = entries[t].id
          /\ entries'[t].name = entries[t].name /\ entries'[t].port = entries[t].port
    BY <1>2
  <2> QED
    BY <1>1, <2>2, <2>3, SlotsKeep
<1>6. ChildrenAreOwned'
  <2>1. \A s \in Slots : entries'[s].proc # None =>
          ~Exited(entries[s]) /\ entries'[s].proc = entries[s].proc
    BY <1>2
  <2>2. ASSUME NEW s \in Slots, entries'[s].proc # None
        PROVE  procs'[entries'[s].proc] = procs[entries[s].proc]
    <3>1. entries[s].proc \in Pids
      BY <2>1, <2>2 DEF VpnTypeOK, Entries
    <3>2. ~ \E t \in Slots : Exited(entries[t]) /\ entries[t].proc = entries[s].proc
      BY <2>1, <2>2 DEF ChildrenAreOwned
    <3> QED
      BY <1>4, <2>1, <2>2, <3>1, <3>2
  <2>3. \A t, u \in Slots : entries'[t].proc # None /\ entries'[u].proc = entries'[t].proc => u = t
    BY <2>1 DEF ChildrenAreOwned
  <2>4. \A s \in Slots : entries'[s].proc # None =>
          /\ entries'[s].used /\ Kind(entries'[s].id) = "openvpn" /\ entries'[s].state \in Up
          /\ entries'[s].port = PortBase + s - 1
          /\ procs'[entries'[s].proc] # None
          /\ procs'[entries'[s].proc].config = config[entries'[s].id]
          /\ procs'[entries'[s].proc].port = entries'[s].port
    BY <1>2, <2>1, <2>2 DEF ChildrenAreOwned
  <2>5. \A s \in Slots :
          entries'[s].used /\ Kind(entries'[s].id) = "openvpn" /\ entries'[s].state \in Up
            => entries'[s].proc # None
    BY <1>2 DEF ChildrenAreOwned
  <2>6. ASSUME NEW p \in Pids, procs'[p] # None
        PROVE  \E s \in Slots : entries'[s].proc = p
    <3>1. procs[p] # None /\ ~ \E s \in Slots : Exited(entries[s]) /\ entries[s].proc = p
      BY <1>4, <2>6
    <3>2. PICK s \in Slots : entries[s].proc = p
      BY <3>1 DEF ChildrenAreOwned
    <3> QED
      BY <1>2, <3>1, <3>2
  <2> QED
    BY <1>1, <2>3, <2>4, <2>5, <2>6 DEF ChildrenAreOwned, Kind
<1>7. ServicesAreOwn'
  <2>1. \A s \in Slots : entries'[s].used /\ Kind(entries'[s].id) = "wireguard" => entries'[s] = entries[s]
    BY <1>2 DEF ChildrenAreOwned
  <2>2. \A s \in Slots : \A state \in Up :
          WireGuardUp(s, state)' => WireGuardUp(s, state) /\ entries'[s] = entries[s]
    BY <1>1, <2>1 DEF WireGuardUp, Kind
  <2> QED
    BY <1>1, <2>2 DEF ServicesAreOwn, Up
<1>8. /\ status' \in Statuses /\ AnswersAreOwn'
      /\ status'.valid = status.valid /\ status'.id = status.id
      /\ status'.by # None =>
           status'.by = status.by /\ \A s \in Slots : Exited(entries[s]) => entries[s].proc # status.by
  <2>1. Gone({entries[s].proc : s \in {t \in Slots : Exited(entries[t])}})
    BY DEF Poll
  <2> QED
    BY <1>1, <2>1, GoneKeeps
<1>9. AnswererIsOwn'
  BY <1>1, <1>2, <1>8, AnswererKeeps
<1> QED
  BY <1>1, <1>3, <1>4, <1>5, <1>6, <1>7, <1>8, <1>9, NoCommand DEF VpnTypeOK

-----------------------------------------------------------------------------
\* Asking: only the entry's own child listens on the entry's port, so the answer is
\* of the tunnel that was asked about.
LEMMA AskKeepsInv ==
  ASSUME VpnInv, NEW id \in Ids, Ask(id)
  PROVE  VpnInv'
<1> USE DEF VpnInv
<1> DEFINE s == Min(Known(id))
<1>1. /\ run = None /\ clicked' \in BOOLEAN /\ Label(id) = "running"
      /\ UNCHANGED <<profile, config, elevated, found, procs, services>>
  BY DEF Ask, Click, worldVars
<1>2. s \in Slots /\ entries[s].used /\ entries[s].id = id /\ entries[s].state = "running"
  <2>1. Known(id) # {}
    BY <1>1 DEF Label
  <2> QED
    BY <1>1, <2>1, KnownSlot
<1>3. entries[s] \in Entries /\ config[id] \in Configs
  BY <1>2 DEF VpnTypeOK
<1>4. CASE Kind(id) = "wireguard" /\ "wireguard" \in found
  <2>1. /\ entries' = [entries EXCEPT ![s].name = IF @ = None THEN Service[config[id]] ELSE @]
        /\ status' = [NoAnswer EXCEPT !.valid = TRUE, !.id = id]
        /\ Start("show", id, s)
    BY <1>4 DEF Ask
  <2> HIDE DEF s
  <2>2. WireGuardUp(s, "running") /\ entries[s].name # None
    BY <1>2, <1>4 DEF WireGuardUp, ServicesAreOwn
  <2>3. entries' = [entries EXCEPT ![s].name = entries[s].name]
    BY <2>1, <2>2
  <2>4. UNCHANGED entries
    BY <1>2, <1>3, <2>3 DEF VpnTypeOK, Entries
  <2>5. SlotsAreOwn' /\ ChildrenAreOwned'
    BY <1>1, <2>4, Frame
  <2>6. /\ run' \in Commands /\ run' # None /\ run'.what = "show" /\ run'.id = id /\ run'.slot = s
        /\ OutputIsBounded'
    BY <1>2, <2>1, StartedCommand
  <2>7. ServicesAreOwn'
    <3>1. \A t \in Slots : ~WireGuardUp(t, "starting")
      BY <1>1 DEF ServicesAreOwn
    <3> QED
      BY <1>1, <2>4, <3>1 DEF ServicesAreOwn, WireGuardUp, Kind
  <2>8. CommandIsOwn'
    BY <1>1, <1>2, <2>1, <2>2, <2>4, <2>6 DEF CommandIsOwn, WireGuardUp, Kind, NoAnswer
  <2>9. AnswersAreOwn' /\ AnswererIsOwn' /\ status' \in Statuses
    BY <2>1 DEF AnswersAreOwn, AnswererIsOwn, NoAnswer, Statuses
  <2> QED
    BY <1>1, <2>4, <2>5, <2>6, <2>7, <2>8, <2>9 DEF VpnTypeOK
<1>5. CASE ~(Kind(id) = "wireguard" /\ "wireguard" \in found)
  <2>1. UNCHANGED <<entries, run>>
    BY <1>5 DEF Ask
  <2> HIDE DEF s
  <2>2. \/ status' = [NoAnswer EXCEPT !.valid = TRUE, !.id = id]
        \/ \E p \in Answering(entries[s].port) :
             /\ Kind(id) = "openvpn"
             /\ status' = [valid |-> TRUE, id |-> id, from |-> procs[p].config, by |-> p]
    BY <1>5 DEF Ask, s
  <2>3. ASSUME NEW p \in Answering(entries[s].port)
        PROVE  p \in Pids /\ procs[p].config = config[id] /\ entries[s].proc = p
    <3>1. p \in Pids /\ procs[p] # None /\ procs[p].port = entries[s].port
      BY <2>3 DEF Answering
    <3>2. PICK t \in Slots : entries[t].proc = p
      BY <3>1 DEF ChildrenAreOwned
    <3>3. entries[t].port = PortBase + t - 1 /\ entries[t].port = entries[s].port
          /\ procs[p].config = config[entries[t].id]
      BY <3>1, <3>2, Constants DEF ChildrenAreOwned
    <3>4. entries[s].port = 0 \/ entries[s].port = PortBase + s - 1
      BY <1>2 DEF SlotsAreOwn
    <3>5. t = s
      BY <1>2, <3>3, <3>4, Constants DEF Slots
    <3> QED
      BY <1>2, <3>1, <3>2, <3>3, <3>5
  <2>4. ASSUME status' = [NoAnswer EXCEPT !.valid = TRUE, !.id = id]
        PROVE  AnswersAreOwn' /\ AnswererIsOwn' /\ status' \in Statuses
    BY <2>4 DEF AnswersAreOwn, AnswererIsOwn, NoAnswer, Statuses
  <2>5. ASSUME NEW p \in Answering(entries[s].port), Kind(id) = "openvpn",
               status' = [valid |-> TRUE, id |-> id, from |-> procs[p].config, by |-> p]
        PROVE  AnswersAreOwn' /\ AnswererIsOwn' /\ status' \in Statuses
    <3>1. /\ status'.valid /\ status'.id = id /\ status'.from = config[id] /\ status'.by = p
          /\ entries'[s].used /\ entries'[s].id = id /\ entries'[s].proc = p
      BY <1>2, <2>1, <2>3, <2>5
    <3>2. status' \in Statuses
      BY <1>3, <2>3, <2>5 DEF Statuses
    <3>3. AnswersAreOwn'
      BY <1>1, <3>1 DEF AnswersAreOwn
    <3>4. AnswererIsOwn'
      BY <1>1, <1>2, <2>5, <3>1 DEF AnswererIsOwn, Kind
    <3> QED
      BY <3>2, <3>3, <3>4
  <2>6. AnswersAreOwn' /\ AnswererIsOwn' /\ status' \in Statuses
    BY <2>2, <2>4, <2>5
  <2>7. SlotsAreOwn' /\ ChildrenAreOwned' /\ ServicesAreOwn'
    BY <1>1, <2>1, Frame
  <2> QED
    BY <1>1, <2>1, <2>6, <2>7, NoCommand DEF VpnTypeOK
<1> QED
  BY <1>4, <1>5

\* A child that ends stays its entry's until the next poll.
LEMMA ChildExitsKeepsInv ==
  ASSUME VpnInv, ChildExits
  PROVE  VpnInv'
<1> USE DEF VpnInv
<1>1. PICK p \in Pids : procs[p] # None /\ procs' = [procs EXCEPT ![p].alive = FALSE]
  BY DEF ChildExits
<1>2. UNCHANGED <<profile, config, elevated, found, entries, run, services, status, clicked>>
  BY DEF ChildExits, worldVars
<1>3. procs[p] \in Processes
  BY <1>1 DEF VpnTypeOK
<1>4. /\ procs' \in [Pids -> Processes \cup {None}] /\ procs'[p] \in Processes
      /\ procs'[p].config = procs[p].config /\ procs'[p].port = procs[p].port
      /\ \A q \in Pids : q # p => procs'[q] = procs[q]
  BY <1>1, <1>3 DEF VpnTypeOK, Processes
<1>5. \A q \in Pids :
        /\ procs'[q] # None <=> procs[q] # None
        /\ procs'[q].config = procs[q].config /\ procs'[q].port = procs[q].port
  BY <1>1, <1>4, Constants
<1>6. ChildrenAreOwned'
  <2>1. \A s \in Slots : entries[s].proc # None => entries[s].proc \in Pids
    BY DEF VpnTypeOK, Entries
  <2> QED
    BY <1>2, <1>5, <2>1 DEF ChildrenAreOwned, Kind
<1>7. /\ SlotsAreOwn' /\ ServicesAreOwn' /\ CommandIsOwn' /\ OutputIsBounded'
      /\ AnswersAreOwn' /\ AnswererIsOwn'
  BY <1>2, Frame
<1> QED
  BY <1>2, <1>4, <1>6, <1>7 DEF VpnTypeOK

\* Closing the program ends every child: there is none that no entry holds.
LEMMA ReopenKeepsInv ==
  ASSUME VpnInv, Reopen
  PROVE  VpnInv'
<1> USE DEF VpnInv
<1>1. /\ run = None /\ run' = None /\ clicked' \in BOOLEAN /\ elevated' \in BOOLEAN
      /\ status' = NoAnswer /\ entries' = [s \in Slots |-> Unused]
      /\ UNCHANGED <<profile, config, found, services>>
  BY DEF Reopen, Click
<1>2. procs' \in [Pids -> Processes \cup {None}] /\ \A p \in Pids : procs'[p] = None
  BY DEF Reopen, ChildrenAreOwned, VpnTypeOK
<1>3. /\ Unused \in Entries /\ ~Unused.used /\ Unused.proc = None /\ Unused.name = None
      /\ Unused.port = 0
  BY DEF Unused, Entries
<1> HIDE DEF VpnInv
<1>4. /\ entries' \in [Slots -> Entries] /\ \A s \in Slots : entries'[s] = Unused
  BY <1>1, <1>3
<1>5. SlotsAreOwn' /\ ChildrenAreOwned' /\ ServicesAreOwn'
  BY <1>2, <1>3, <1>4 DEF SlotsAreOwn, ChildrenAreOwned, ServicesAreOwn, WireGuardUp
<1>6. AnswersAreOwn' /\ AnswererIsOwn' /\ status' \in Statuses
  BY <1>1 DEF AnswersAreOwn, AnswererIsOwn, NoAnswer, Statuses
<1> QED
  BY <1>1, <1>2, <1>4, <1>5, <1>6, NoCommand DEF VpnTypeOK, VpnInv

\* The Connect button takes a slot no other tunnel has and no child is behind.
LEMMA ConnectKeepsInv ==
  ASSUME VpnInv, NEW id \in Ids, Connect(id)
  PROVE  VpnInv'
<1>1. /\ run = None /\ clicked' \in BOOLEAN /\ Label(id) \notin Up
      /\ UNCHANGED <<profile, config, elevated, found, services>>
  BY DEF Connect, Click, worldVars
<1>2. CASE Install(id)
  BY <1>1, <1>2, InstallKeepsInv
<1>3. CASE Spawn(id)
  BY <1>1, <1>3, SpawnKeepsInv
<1> QED
  BY <1>2, <1>3 DEF Connect

\* The Disconnect button is drawn for a tunnel that is up, which has a slot.
LEMMA DisconnectKeepsInv ==
  ASSUME VpnInv, NEW id \in Ids, Disconnect(id)
  PROVE  VpnInv'
<1> DEFINE s == Min(Known(id))
<1>1. /\ run = None /\ clicked' \in BOOLEAN /\ Label(id) \in Up
      /\ UNCHANGED <<profile, config, elevated, found, services>>
  BY DEF Disconnect, Click, worldVars
<1>2. s \in Slots /\ entries[s].used /\ entries[s].id = id /\ entries[s].state \in Up
  <2>1. Known(id) # {}
    BY <1>1 DEF Label, Up
  <2> QED
    BY <1>1, <2>1, KnownSlot
<1>3. CASE Kind(id) = "wireguard"
  <2>1. Uninstall(id, s)
    BY <1>3 DEF Disconnect
  <2> HIDE DEF s
  <2> QED
    BY <1>1, <1>2, <1>3, <2>1, UninstallKeepsInv
<1>4. CASE Kind(id) # "wireguard"
  <2>1. Stop(id, s) /\ Kind(id) = "openvpn"
    BY <1>4 DEF Disconnect, Kind
  <2> HIDE DEF s
  <2> QED
    BY <1>1, <1>2, <2>1, StopKeepsInv
<1> QED
  BY <1>3, <1>4

\* The steps that touch no entry, child or command.
LEMMA QuietKeepsInv ==
  ASSUME VpnInv,
         \/ Expire \/ ClientsChange \/ UNCHANGED vpnVars
         \/ \E id \in Ids : RemoveTunnel(id)
  PROVE  VpnInv'
<1> USE DEF VpnInv
<1>1. /\ UNCHANGED <<config, elevated, entries, procs, run, services>>
      /\ profile' \subseteq Ids /\ found' \subseteq Kinds /\ clicked' \in BOOLEAN
  BY DEF Expire, ClientsChange, RemoveTunnel, Click, vpnVars, worldVars, runnerVars, VpnTypeOK
<1>2. (run' = None /\ status' = NoAnswer) \/ UNCHANGED status
  BY DEF Expire, ClientsChange, RemoveTunnel, Click, vpnVars, worldVars, runnerVars
<1>3. SlotsAreOwn' /\ ChildrenAreOwned' /\ ServicesAreOwn' /\ OutputIsBounded'
  BY <1>1, Frame
<1>4. CASE UNCHANGED status
  <2>1. CommandIsOwn' /\ AnswersAreOwn' /\ AnswererIsOwn'
    BY <1>1, <1>4, Frame
  <2> QED
    BY <1>1, <1>3, <1>4, <2>1 DEF VpnTypeOK
<1>5. CASE run' = None /\ status' = NoAnswer
  <2>1. AnswersAreOwn' /\ AnswererIsOwn' /\ status' \in Statuses
    BY <1>5 DEF AnswersAreOwn, AnswererIsOwn, NoAnswer, Statuses
  <2> QED
    BY <1>1, <1>3, <1>5, <2>1, NoCommand DEF VpnTypeOK
<1> QED
  BY <1>2, <1>4, <1>5

\* Every step keeps the invariant.
LEMMA VpnStep == VpnInv /\ [VpnNext]_vpnVars => VpnInv'
<1> SUFFICES ASSUME VpnInv, [VpnNext]_vpnVars
             PROVE  VpnInv'
  OBVIOUS
<1>1. ASSUME NEW id \in Ids, Connect(id) \/ Disconnect(id) \/ Ask(id)
      PROVE  VpnInv'
  BY <1>1, ConnectKeepsInv, DisconnectKeepsInv, AskKeepsInv
<1>2. CASE Poll \/ Turn \/ ChildExits \/ Reopen
  BY <1>2, PollKeepsInv, TurnKeepsInv, ChildExitsKeepsInv, ReopenKeepsInv
<1>3. CASE CommandEnds
  BY <1>3, InstallEndsKeepsInv, UninstallEndsKeepsInv, ShowEndsKeepsInv DEF CommandEnds
<1>4. CASE \/ Expire \/ ClientsChange \/ UNCHANGED vpnVars
           \/ \E id \in Ids : RemoveTunnel(id)
  BY <1>4, QuietKeepsInv
<1> QED
  BY <1>1, <1>2, <1>3, <1>4 DEF VpnNext

\* The runner starts with no entry, no child and no service.
LEMMA VpnStart == VpnInit => VpnInv
<1> SUFFICES ASSUME VpnInit
             PROVE  VpnInv
  OBVIOUS
<1>1. /\ entries = [s \in Slots |-> Unused] /\ procs = [p \in Pids |-> None] /\ run = None
      /\ clicked = FALSE /\ status = NoAnswer /\ services = [n \in Names |-> None]
      /\ profile = Ids /\ config = File /\ elevated \in BOOLEAN /\ found \subseteq Kinds
  BY DEF VpnInit
<1>2. /\ Unused \in Entries /\ ~Unused.used /\ Unused.proc = None /\ Unused.name = None
      /\ Unused.port = 0
  BY DEF Unused, Entries
<1>3. VpnTypeOK
  BY <1>1, <1>2, VpnAssumption DEF VpnTypeOK, NoAnswer, Statuses
<1>4. SlotsAreOwn /\ ChildrenAreOwned /\ ServicesAreOwn
  BY <1>1, <1>2 DEF SlotsAreOwn, ChildrenAreOwned, ServicesAreOwn, WireGuardUp
<1> QED
  BY <1>1, <1>3, <1>4 DEF VpnInv, CommandIsOwn, OutputIsBounded, AnswersAreOwn, AnswererIsOwn, NoAnswer

\* The invariant holds at every step.
LEMMA VpnInvariant == VpnSpec => []VpnInv
BY VpnStart, VpnStep, PTL DEF VpnSpec

-----------------------------------------------------------------------------
\* Entries, processes, services and the command under way keep their types.
THEOREM VpnTypeCorrect == VpnSpec => []VpnTypeOK
<1>1. VpnInv => VpnTypeOK
  BY DEF VpnInv
<1> QED
  BY <1>1, VpnInvariant, PTL

\* A label says what is so: pmx_vpn_run.c reports a tunnel up exactly as long as it
\* has a child, and running only with its service installed.
THEOREM LabelsAreAlwaysTrue == VpnSpec => []LabelsAreTrue
<1>1. VpnInv => LabelsAreTrue
  <2> SUFFICES ASSUME VpnInv, NEW s \in Slots, entries[s].used
               PROVE  IF Kind(entries[s].id) = "openvpn"
                        THEN /\ entries[s].proc # None <=> entries[s].state \in Up
                             /\ entries[s].proc # None => procs[entries[s].proc] # None
                        ELSE /\ entries[s].proc = None
                             /\ entries[s].state = "running"
                                  => services[entries[s].name] = config[entries[s].id]
    BY DEF LabelsAreTrue
  <2>1. Kind(entries[s].id) \in Kinds
    BY DEF Kind, Kinds
  <2> QED
    BY <2>1 DEF VpnInv, ChildrenAreOwned, ServicesAreOwn, WireGuardUp, Kinds
<1> QED
  BY <1>1, VpnInvariant, PTL

\* Every child is in the hands of one entry, and no two share a management port:
\* pmx_vpn_up starts nothing twice and entry_for hands on no slot with a child.
THEOREM ClientsAreAlwaysTracked == VpnSpec => []ClientsAreTracked
<1>1. VpnInv => ClientsAreTracked
  <2> SUFFICES ASSUME VpnInv
               PROVE  ClientsAreTracked
    OBVIOUS
  <2>1. ASSUME NEW p \in Pids, procs[p] # None
        PROVE  \E s \in Slots :
                 /\ entries[s].used /\ entries[s].proc = p /\ entries[s].port = procs[p].port
                 /\ config[entries[s].id] = procs[p].config
                 /\ procs[p].port = PortBase + s - 1
                 /\ \A t \in Slots \ {s} : entries[t].proc # p
    <3>1. PICK s \in Slots : entries[s].proc = p
      BY <2>1 DEF VpnInv, ChildrenAreOwned
    <3> QED
      BY <2>1, <3>1, Constants DEF VpnInv, ChildrenAreOwned
  <2>2. ASSUME NEW p \in Pids, NEW q \in Pids, p # q, procs[p] # None, procs[q] # None
        PROVE  procs[p].port # procs[q].port
    <3>1. PICK s \in Slots : entries[s].proc = p /\ procs[p].port = PortBase + s - 1
      BY <2>1, <2>2
    <3>2. PICK t \in Slots : entries[t].proc = q /\ procs[q].port = PortBase + t - 1
      BY <2>1, <2>2
    <3> QED
      BY <2>2, <3>1, <3>2, Constants DEF Slots
  <2> QED
    BY <2>1, <2>2 DEF ClientsAreTracked
<1> QED
  BY <1>1, VpnInvariant, PTL

\* "Handshake verified" is the answer of a client of the tunnel's own configuration, and
\* of no other client that is there: panel_vpn.c keeps it with the tunnel it was asked
\* for, and the port it is asked on is the tunnel's own.
THEOREM StatusIsAlwaysOwn == VpnSpec => []StatusIsOwn
<1>1. VpnInv => StatusIsOwn
  <2> SUFFICES ASSUME VpnInv, NEW id \in Ids, Label(id) = "running", ~Stale(id)
               PROVE  status.from \in {None, config[id]} /\ status.by \in {None, Client(id)}
    BY DEF StatusIsOwn
  <2>1. status.valid /\ status.id = id
    BY DEF Stale
  <2>2. status.from \in {None, config[id]}
    BY <2>1 DEF VpnInv, AnswersAreOwn
  <2>3. ASSUME status.by # None, Kind(id) # "wireguard"
        PROVE  status.by = entries[Min(Known(id))].proc
    <3>1. PICK s \in Slots : entries[s].used /\ entries[s].id = id /\ entries[s].proc = status.by
      BY <2>1, <2>3 DEF VpnInv, AnswererIsOwn
    <3>2. Known(id) # {}
      BY <3>1 DEF Known
    <3>3. Min(Known(id)) = s
      BY <3>1, <3>2, KnownSlot DEF VpnInv, SlotsAreOwn
    <3> QED
      BY <3>1, <3>3
  <2>4. status.by \in {None, Client(id)}
    BY <2>1, <2>3 DEF VpnInv, AnswererIsOwn, Client
  <2> QED
    BY <2>2, <2>4
<1> QED
  BY <1>1, VpnInvariant, PTL

\* pmx_proc_run kills only a command that hangs: what it writes fits what its turns
\* read.
THEOREM CommandsAreNeverCutShort == VpnSpec => []CommandsAreNotCutShort
<1>1. VpnInv => CommandsAreNotCutShort
  <2> SUFFICES ASSUME VpnInv, run # None, "killed" \in Endings, ~run.hangs
               PROVE  FALSE
    BY DEF CommandsAreNotCutShort, VpnInv, VpnTypeOK, Commands
  <2>1. /\ run.left \in 0..MaxOutput /\ run.turn \in 0..(MaxTurns - 1)
    BY DEF VpnInv, VpnTypeOK, Commands
  <2>2. run.left # Wrote /\ run.turn + 1 >= MaxTurns
    BY DEF Endings
  <2>3. run.left >= PipeSize /\ run.left # PipeSize
    BY <2>1, <2>2, Constants DEF Wrote, Drained
  <2>4. run.turn = MaxTurns - 1
    BY <2>1, <2>2, Constants
  <2>5. PipeSize * (MaxTurns - 1) = PipeSize * MaxTurns - PipeSize /\ PipeSize * MaxTurns \in Int
    BY Constants
  <2>6. run.left + PipeSize * run.turn <= MaxOutput
    BY <2>1, <2>3, Constants DEF VpnInv, OutputIsBounded
  <2> QED
    BY <2>1, <2>3, <2>4, <2>5, <2>6, Constants, VpnAssumption
<1> QED
  BY <1>1, VpnInvariant, PTL
=============================================================================
