------------------------------- MODULE Verdicts -------------------------------
(***************************************************************************)
(* The path of a flow through the engine (pmx_engine.c): the backend       *)
(* thread reports it to the bounded inbox and then decides it inline       *)
(* against the published snapshot of the profile; the GUI thread edits the *)
(* live profile, republishes it and drains the inbox into the event ring,  *)
(* resolving every flow once more for display.                             *)
(*                                                                         *)
(* A profile is known by the generations of two of its arrays, and a       *)
(* verdict by the profile it was resolved against.  One backend thread     *)
(* reports flows at a time.                                                *)
(***************************************************************************)
EXTENDS Naturals, Sequences, FiniteSets

CONSTANTS
  InboxMax,       \* PMX_INBOX_MAX
  RingSize,       \* PMX_EVENT_RING
  MaxFlows,       \* bound: flows reported
  MaxEdits        \* bound: changes to the profile

ASSUME VerdictsAssumption ==
  /\ InboxMax \in Nat \ {0} /\ RingSize \in Nat \ {0}
  /\ MaxFlows \in Nat /\ MaxEdits \in Nat

Flows    == 1..MaxFlows
Profiles == [proxies: 0..MaxEdits, rules: 0..MaxEdits]
Nothing  == [proxies |-> MaxEdits + 1, rules |-> MaxEdits + 1]   \* not resolved (yet)

VARIABLES
  ample,      \* allocations never fail in this behaviour
  live,       \* engine.profile, edited by the GUI thread only
  edits,      \* changes made so far
  snap,       \* engine.snap
  running,    \* engine.running
  backend,    \* backend thread: [pc, flow]
  inbox,      \* flow_head .. flow_tail
  inboxLen,   \* engine.inbox_len
  dropped,    \* engine.inbox_dropped
  draining,   \* the pump is in its drain loop
  events, head, len,   \* the event ring
  past,       \* history: every profile there was
  log,        \* history: flows recorded since the last clear
  logged,     \* history: per flow, the profile of its row
  enforced    \* history: per flow, the profile of its inline verdict

inboxVars   == <<inbox, inboxLen, dropped>>
ringVars    == <<events, head, len, log, logged>>
verdictVars == <<ample, live, edits, snap, running, backend, inboxVars, draining, ringVars,
                 past, enforced>>

-----------------------------------------------------------------------------
\* The backend thread.  engine_on_flow looks at the cap in one critical section ...
Report ==
  /\ running /\ backend.pc = "idle" /\ backend.flow < MaxFlows
  /\ IF inboxLen >= InboxMax
       THEN dropped' = dropped + 1 /\ backend' = [pc |-> "decide", flow |-> backend.flow + 1]
       ELSE UNCHANGED dropped /\ backend' = [pc |-> "enqueue", flow |-> backend.flow + 1]
  /\ UNCHANGED <<live, edits, snap, running, inbox, inboxLen, draining, ringVars, past,
                 enforced>>

\* ... and appends in another; without memory for the node it returns, and nothing says so.
Enqueue_OverOldest ==
  /\ backend.pc = "enqueue"
  /\ backend' = [backend EXCEPT !.pc = "decide"]
  /\ \/ /\ inbox' = IF inboxLen = 0 THEN <<backend.flow>> ELSE Append(Tail(inbox), backend.flow)
        /\ inboxLen' = inboxLen + (IF inboxLen = 0 THEN 1 ELSE 0)
     \/ ~ample /\ UNCHANGED <<inbox, inboxLen>>
  /\ UNCHANGED <<live, edits, snap, running, dropped, draining, ringVars, past, enforced>>
Enqueue ==
  /\ backend.pc = "enqueue"
  /\ backend' = [backend EXCEPT !.pc = "decide"]
  /\ \/ inbox' = Append(inbox, backend.flow) /\ inboxLen' = inboxLen + 1
     \/ ~ample /\ UNCHANGED <<inbox, inboxLen>>
  /\ UNCHANGED <<live, edits, snap, running, dropped, draining, ringVars, past, enforced>>

\* pmx_engine_decide: from the snapshot, under its mutex.
DecideInline ==
  /\ backend.pc = "decide"
  /\ enforced' = [enforced EXCEPT ![backend.flow] = snap]
  /\ backend' = [backend EXCEPT !.pc = "idle"]
  /\ UNCHANGED <<live, edits, snap, running, inboxVars, draining, ringVars, past>>

-----------------------------------------------------------------------------
\* engine_refresh_snapshot of a profile.  pmx_profile_copy reserves every array
\* before it assigns any: without memory the old snapshot stands.
Refresh_OnePass(pf) ==
  \/ snap' = pf
  \/ ~ample /\ snap' = [snap EXCEPT !.proxies = pf.proxies]
Refresh(pf) == snap' = pf \/ (~ample /\ UNCHANGED snap)

\* An edit in a panel, between two pumps; deleting a proxy touches both arrays.
Edit ==
  /\ ~draining /\ edits < MaxEdits
  /\ edits' = edits + 1
  /\ live' \in {[live EXCEPT !.proxies = edits'], [live EXCEPT !.rules = edits'],
                [proxies |-> edits', rules |-> edits']}
  /\ past' = past \cup {live'}
  /\ UNCHANGED <<snap, running, backend, inboxVars, draining, ringVars, enforced>>

\* pmx_engine_load_profile, refused while running: another profile, published at once.
LoadProfile ==
  /\ ~draining /\ ~running /\ edits < MaxEdits
  /\ edits' = edits + 1
  /\ live' = [proxies |-> edits', rules |-> edits']
  /\ past' = past \cup {live'}
  /\ Refresh(live')
  /\ UNCHANGED <<running, backend, inboxVars, draining, ringVars, enforced>>

\* Start publishes nothing; stop joins the backend's thread.
StartOrStop ==
  /\ ~draining /\ backend.pc = "idle"
  /\ running' = ~running
  /\ UNCHANGED <<live, edits, snap, backend, inboxVars, draining, ringVars, past, enforced>>

\* The pump first republishes the profile, running or not, ...
Pump_WhileRunning ==
  /\ ~draining
  /\ IF running THEN Refresh(live) ELSE UNCHANGED snap
  /\ draining' = TRUE
  /\ UNCHANGED <<live, edits, running, backend, inboxVars, ringVars, past, enforced>>
Pump ==
  /\ ~draining
  /\ Refresh(live)
  /\ draining' = TRUE
  /\ UNCHANGED <<live, edits, running, backend, inboxVars, ringVars, past, enforced>>

\* record_event: append, or overwrite the oldest.
Record_HeadKept(f) ==
  /\ IF len < RingSize
       THEN /\ events' = [events EXCEPT ![(head + len) % RingSize] = f]
            /\ len' = len + 1
       ELSE events' = [events EXCEPT ![head] = f] /\ UNCHANGED len
  /\ UNCHANGED head
Record(f) ==
  IF len < RingSize
    THEN /\ events' = [events EXCEPT ![(head + len) % RingSize] = f]
         /\ len' = len + 1 /\ UNCHANGED head
    ELSE /\ events' = [events EXCEPT ![head] = f]
         /\ head' = (head + 1) % RingSize /\ UNCHANGED len

\* ... then pops, resolves against the live profile and records, until it finds
\* the inbox empty.
DrainFlow ==
  /\ draining /\ inbox # <<>>
  /\ inbox' = Tail(inbox)
  /\ inboxLen' = IF inboxLen > 0 THEN inboxLen - 1 ELSE inboxLen
  /\ Record(Head(inbox))
  /\ log' = Append(log, Head(inbox))
  /\ logged' = [logged EXCEPT ![Head(inbox)] = live]
  /\ UNCHANGED <<live, edits, snap, running, backend, dropped, draining, past, enforced>>

DrainEmpty ==
  /\ draining /\ inbox = <<>>
  /\ draining' = FALSE
  /\ UNCHANGED <<live, edits, snap, running, backend, inboxVars, ringVars, past, enforced>>

\* pmx_engine_clear_events.
ClearEvents ==
  /\ ~draining
  /\ head' = 0 /\ len' = 0 /\ log' = <<>>
  /\ UNCHANGED <<live, edits, snap, running, backend, inboxVars, draining, events, logged, past,
                 enforced>>

\* pmx_engine_recent_events: the newest `most' rows, oldest of them first.
Recent(most) ==
  LET n == IF len < most THEN len ELSE most
  IN  [i \in 1..n |-> events[(head + (len - n) + (i - 1)) % RingSize]]

VerdictsInit ==
  /\ ample \in BOOLEAN
  /\ live = [proxies |-> 0, rules |-> 0] /\ edits = 0 /\ snap = live /\ past = {live}
  /\ running = FALSE
  /\ backend = [pc |-> "idle", flow |-> 0]
  /\ inbox = <<>> /\ inboxLen = 0 /\ dropped = 0
  /\ draining = FALSE
  /\ events = [i \in 0..(RingSize - 1) |-> 0] /\ head = 0 /\ len = 0 /\ log = <<>>
  /\ logged = [f \in Flows |-> Nothing] /\ enforced = [f \in Flows |-> Nothing]

Step ==
  \/ Report \/ Enqueue \/ DecideInline
  \/ Edit \/ LoadProfile \/ StartOrStop
  \/ Pump \/ DrainFlow \/ DrainEmpty
  \/ ClearEvents

VerdictsNext == Step /\ UNCHANGED ample

VerdictsSpec == VerdictsInit /\ [][VerdictsNext]_verdictVars

\* The main loop pumps once per frame, and a pump runs to its end.
FairVerdictsSpec ==
  VerdictsSpec /\ WF_verdictVars((Pump \/ DrainFlow \/ DrainEmpty) /\ UNCHANGED ample)

-----------------------------------------------------------------------------
(***************************************************************************)
(* Types; inbox_len is the length of the list, and the inbox stays within  *)
(* its cap although the cap is looked at in one critical section and the   *)
(* node appended in another.                                               *)
(***************************************************************************)
VerdictsTypeOK ==
  /\ ample \in BOOLEAN
  /\ live \in Profiles /\ snap \in Profiles /\ edits \in 0..MaxEdits /\ past \subseteq Profiles
  /\ running \in BOOLEAN /\ draining \in BOOLEAN
  /\ backend \in [pc: {"idle", "enqueue", "decide"}, flow: 0..MaxFlows]
  /\ inbox \in Seq(Flows) /\ inboxLen = Len(inbox) /\ inboxLen <= InboxMax
  /\ dropped \in 0..MaxFlows
  /\ events \in [0..(RingSize - 1) -> Flows \cup {0}]
  /\ head \in 0..(RingSize - 1) /\ len \in 0..RingSize
  /\ log \in Seq(Flows)
  /\ logged \in [Flows -> Profiles \cup {Nothing}]
  /\ enforced \in [Flows -> Profiles \cup {Nothing}]

(***************************************************************************)
(* The Connections view and its counter account for the flows reported: as *)
(* long as memory lasts every one has got a row, waits in the inbox or was *)
(* counted as dropped.  Without memory some are missing, none is there     *)
(* twice (engine_on_flow, record_event).                                   *)
(***************************************************************************)
Rows == Cardinality({f \in Flows : logged[f] # Nothing})
Handed == IF backend.pc = "enqueue" THEN backend.flow - 1 ELSE backend.flow
FlowsAccounted ==
  /\ Rows + Len(inbox) + dropped <= Handed
  /\ ample => Rows + Len(inbox) + dropped = Handed

(***************************************************************************)
(* Backend threads never resolve against a mixture of two profiles: the    *)
(* snapshot is some profile the user had, whole -- also when a copy fails. *)
(***************************************************************************)
SnapshotIsConsistent == snap \in past

(***************************************************************************)
(* The Connections view shows the newest rows, in the order the flows were *)
(* reported, however often the ring wrapped and whenever it was cleared.   *)
(***************************************************************************)
RingKeepsNewest ==
  \A most \in 1..(RingSize + 1) :
    LET m == IF most < RingSize THEN most ELSE RingSize
        n == IF Len(log) < m THEN Len(log) ELSE m
    IN  /\ Recent(most) = [i \in 1..n |-> log[Len(log) - n + i]]
        /\ \A i, j \in 1..n : i < j => Recent(most)[i] < Recent(most)[j]

(***************************************************************************)
(* "Edits made in the GUI take effect on the next pump": once the user is  *)
(* done, inline verdicts come from the profile on the screen, as long as   *)
(* memory lasts and flows do not keep the pump in its drain loop for ever. *)
(***************************************************************************)
EditsTakeEffect == ample => <>[](snap = live)

(***************************************************************************)
(* What can be trusted at every moment: the rows, the inbox and the drop   *)
(* counter account for the flows handed over, as long as memory lasts; the *)
(* rows shown are the newest, in order; and the verdicts given inline come *)
(* from one whole profile.                                                 *)
(***************************************************************************)
VerdictsAreSound == FlowsAccounted /\ RingKeepsNewest /\ SnapshotIsConsistent

-----------------------------------------------------------------------------
(* What does not hold; see the README.                                     *)

\* "A counter nobody looks at is the same as dropping them silently": a flow that got no row and does
\* not wait was counted, also when there was no memory for it.
NothingIsDroppedSilently == Rows + Len(inbox) + dropped = Handed

\* "the engine re-resolves it there for display, which is redundant"
\* (backend_windivert.c): the row shows the verdict that was enforced.
LogSaysWhatWasDone ==
  \A f \in Flows :
    logged[f] # Nothing /\ enforced[f] # Nothing => logged[f] = enforced[f]
=============================================================================
