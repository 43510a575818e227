---------------------------- MODULE LifecycleProofs ----------------------------
(***************************************************************************)
(* For every set of relays and connections: Winsock stays up for whoever   *)
(* uses sockets; and, while Start is not clicked again after a pump's      *)
(* thread could not be started (~MayRetry: wd_start then opens a second    *)
(* relay and forgets the first), no thread uses what has been freed, and   *)
(* no relay is left that a stop would not end.                             *)
(*                                                                         *)
(* The invariants say little of the steps that lead there.  What has been  *)
(* made and taken down depends on where the GUI thread's program is, so    *)
(* the proof first shows what programs there can be: a list in which each  *)
(* step may follow the one before it (Edge), for the goal the list ends    *)
(* with.  A step done then leads to one of a few (Follows), a click or a   *)
(* failure to the first step of another program (Turns), and the inductive *)
(* invariants speak of the step the thread is At and of its Goal:          *)
(*                                                                         *)
(*   CountInv  the types, which objects exist at each step, and g_wsa_refs *)
(*             is never below the number of those who hold Winsock;        *)
(*   OrderInv  CountInv, that the backend's relay is the only one and all  *)
(*             the workers are its own (OneRelay), what has been made or   *)
(*             taken down at each step (Progress), that the pumps rest     *)
(*             unless they may use the backend (PumpsInv), and that the    *)
(*             sink goes before the application does (SinkInv).            *)
(***************************************************************************)
EXTENDS Lifecycle, SequenceTheorems, FiniteSetTheorems, TLAPS

\* The GUI thread's steps.
Steps ==
  {"acquire", "create_engine", "open_window", "create_app",
   "start_demo", "open_relay", "create_nat", "open_net", "start_pump", "start_net_pump", "started",
   "stop_pumps", "join_pumps", "close_listener", "join_acceptor", "join_workers", "free_relay",
   "free_nat", "stopped", "free_backend", "other_backend",
   "stop_checker", "join_checker", "release_engine",
   "drop_sink", "cancel_trace", "join_trace", "start_trace", "free_app", "release_main", "end"}

\* The steps a program may end with.
Goals == {"create_app", "started", "stopped", "other_backend", "start_trace", "free_relay", "end"}

\* The first step of a list and its last; "frame" when there is none.
First(l) == IF l = <<>> THEN "frame" ELSE l[1]
Final(l) == IF l = <<>> THEN "frame" ELSE l[Len(l)]

\* The step the GUI thread is at, and the last one of its program.
At   == First(todo)
Goal == Final(todo)

\* The steps that may follow one another in a program that ends with goal.
Edge(goal, s, t) ==
  \/ s = "acquire"       /\ t = "create_engine" /\ goal = "create_app"
  \/ s = "create_engine" /\ t = "open_window"   /\ goal = "create_app"
  \/ s = "open_window"   /\ t = "create_app"    /\ goal = "create_app"
  \/ s = "start_demo"    /\ t = "started"       /\ goal = "started"
  \/ s = "open_relay"    /\ t = "create_nat"    /\ goal = "started"
  \/ s = "create_nat"    /\ t = "open_net"      /\ goal = "started"
  \/ s = "open_net"      /\ t = "start_pump"    /\ goal = "started"
  \/ s = "start_pump"    /\ t = "start_net_pump" /\ goal = "started"
  \/ s = "start_net_pump" /\ t = "started"      /\ goal = "started"
  \/ s = "stop_pumps"    /\ t = "join_pumps"    /\ goal \in {"stopped", "other_backend", "end"}
  \/ s = "join_pumps"    /\ t = "close_listener" /\ goal \in {"stopped", "other_backend", "end"}
  \/ s = "close_listener" /\ t = "join_acceptor" /\ goal \in {"stopped", "other_backend", "end", "free_relay"}
  \/ s = "join_acceptor" /\ t = "join_workers"  /\ goal \in {"stopped", "other_backend", "end", "free_relay"}
  \/ s = "join_workers"  /\ t = "free_relay"    /\ goal \in {"stopped", "other_backend", "end", "free_relay"}
  \/ s = "free_relay"    /\ t = "free_nat"      /\ goal \in {"stopped", "other_backend", "end"}
  \/ s = "free_nat"      /\ t = "close_listener" /\ goal = "free_relay"
  \/ s = "free_nat"      /\ t = "stopped"       /\ goal \in {"stopped", "end"}
  \/ s = "free_nat"      /\ t = "free_backend"  /\ goal \in {"other_backend", "end"}
  \/ s = "stopped"       /\ t = "stop_pumps"    /\ goal = "end"
  \/ s = "free_backend"  /\ t = "other_backend" /\ goal = "other_backend"
  \/ s = "free_backend"  /\ t = "stop_checker"  /\ goal = "end"
  \/ s = "stop_checker"  /\ t = "join_checker"  /\ goal = "end"
  \/ s = "join_checker"  /\ t = "release_engine" /\ goal = "end"
  \/ s = "release_engine" /\ t \in {"drop_sink", "release_main"} /\ goal = "end"
  \/ s = "drop_sink"     /\ t = "cancel_trace"  /\ goal = "end"
  \/ s = "cancel_trace"  /\ t = "join_trace"    /\ goal \in {"start_trace", "end"}
  \/ s = "join_trace"    /\ t = "start_trace"   /\ goal = "start_trace"
  \/ s = "join_trace"    /\ t = "free_app"      /\ goal = "end"
  \/ s = "free_app"      /\ t = "release_main"  /\ goal = "end"
  \/ s = "release_main"  /\ t = "end"           /\ goal = "end"

\* A list of steps is a program when each step may follow the one before it.
Program(l) ==
  /\ l \in Seq(Steps) /\ (l # <<>> => Final(l) \in Goals)
  /\ \A i \in 1..(Len(l) - 1) : Edge(Final(l), l[i], l[i + 1])

\* A piece of a program that ends with goal: from the step a to the step z.
Piece(goal, l, a, z) ==
  /\ l \in Seq(Steps) /\ l # <<>> /\ l[1] = a /\ l[Len(l)] = z
  /\ \A i \in 1..(Len(l) - 1) : Edge(goal, l[i], l[i + 1])

\* Where the program has no engine (any more), no backend, and no backend that still works.
EngineGone   == At \in {"drop_sink", "free_app", "release_main", "end"}
                \/ (At \in {"cancel_trace", "join_trace"} /\ Goal = "end")
EngineThere  == ~(At \in {"acquire", "create_engine"} \/ EngineGone)
BackendThere == EngineThere /\ At \notin {"other_backend", "stop_checker", "join_checker", "release_engine"}
MainThere    == At \notin {"acquire", "end"}

LiveRelays == {r \in Relays : relays[r].alive}
One(b)     == IF b THEN 1 ELSE 0

\* Who holds Winsock: main, the engine, every relay, a check and a trace.
Held == One(MainThere) + One(EngineThere) + Cardinality(LiveRelays)
        + One(checker.state = "check") + One(trace.state = "run")

RelayRecs == [alive : BOOLEAN, running : BOOLEAN, pending : BOOLEAN]
Traces    == [state : {"none", "begun", "run", "ended"}, cancel : BOOLEAN]
Checkers  == [state : {"none", "wait", "check", "ended"}, running : BOOLEAN]

Types ==
  /\ running \in BOOLEAN /\ failed \in BOOLEAN /\ app \in BOOLEAN /\ sink \in BOOLEAN
  /\ backend \in Backends \cup {None}
  /\ relays \in [Relays -> RelayRecs]
  /\ acceptor \in [Relays -> {"none", "accept", "reap", "logging", "ended"}]
  /\ harvest \in [Relays -> SUBSET Conns]
  /\ conns \in [Conns -> [state : Alive \cup {"none", "ended"}, relay : Relays \cup {None}]]
  /\ pumps \in [Pumps -> {"none", "run", "logging", "ended"}]
  /\ trace \in Traces
  /\ checker \in Checkers
  /\ refs \in Nat

TypeOK == Program(todo) /\ Types

Objects ==
  /\ BackendThere <=> backend # None
  /\ Own # None => relays[Own].alive
  /\ At \in {"acquire", "create_engine"} => checker.state = "none"
  /\ At = "start_trace" => trace.state = "none"

CountInv == TypeOK /\ Objects /\ refs >= Held

PumpsRest == \A p \in Pumps : pumps[p] \in {"none", "ended"}
MayPump   == \/ At \in {"started", "stop_pumps", "join_pumps", "start_net_pump"}
             \/ /\ running \/ failed
                /\ \/ At \in {"frame", "start_trace"}
                   \/ At \in {"cancel_trace", "join_trace"} /\ Goal = "start_trace"
NoConns   == \A c \in Conns : conns[c].state = "none"

\* The backend's own relay is the only one, and every worker belongs to it.
OneRelay ==
  /\ \A r \in Relays : relays[r].alive => Own = r
  /\ \A r \in Relays : relays[r].alive <=> acceptor[r] # "none"
  /\ \A c \in Conns : conns[c].state # "none" => conns[c].relay # None /\ conns[c].relay = Own
  /\ \A c \in Conns : conns[c].state = "closing" => backend # None /\ backend.nat

\* What has been made or taken down at each step.
Progress ==
  /\ At \in {"open_window", "create_app", "open_relay", "free_backend", "stopped"}
     \/ (At = "free_nat" /\ Goal # "free_relay") => Own = None
  /\ At \in {"create_nat", "open_net", "start_pump", "start_net_pump"} => Own # None
  /\ At \in {"open_net", "start_pump", "start_net_pump"} => backend.nat
  /\ At \in {"create_nat", "open_net"} \/ (At = "free_nat" /\ Goal = "free_relay") =>
       NoConns /\ \A r \in Relays : relays[r].alive => ~relays[r].pending
  /\ At \in {"join_workers", "free_relay"} /\ Own # None => acceptor[Own] = "ended"
  /\ At = "free_relay" => NoConns
  /\ At = "start_demo" => backend.kind = "stub"
  /\ At \in {"frame", "start_trace", "cancel_trace", "join_trace"} => Own = None \/ running \/ failed

PumpsInv ==
  /\ MayPump \/ PumpsRest
  /\ \A p \in Pumps : pumps[p] \in {"run", "logging"} =>
       backend # None /\ (backend.kind = "windivert" => backend.nat /\ backend.relay # None)

SinkInv ==
  /\ sink => app
  /\ At = "free_app" \/ (At \in {"cancel_trace", "join_trace"} /\ Goal = "end") => ~sink
  /\ Logging => app

OrderInv == CountInv /\ OneRelay /\ Progress /\ PumpsInv /\ SinkInv
-----------------------------------------------------------------------------
(* Programs and their pieces.                                              *)

\* Two pieces make one where the first step of the second may follow the last of the first.
LEMMA JoinsPieces ==
  ASSUME NEW goal, NEW l, NEW m, NEW a, NEW b, NEW c, NEW z,
         Piece(goal, l, a, b), Piece(goal, m, c, z), Edge(goal, b, c)
  PROVE  Piece(goal, l \o m, a, z)
<1>1. l \in Seq(Steps) /\ m \in Seq(Steps) /\ l # <<>> /\ m # <<>>
  BY DEF Piece
<1>2. Len(l) \in Nat \ {0} /\ Len(m) \in Nat \ {0}
  BY <1>1, EmptySeq
<1>3. /\ l \o m \in Seq(Steps)
      /\ Len(l \o m) = Len(l) + Len(m)
      /\ \A i \in 1..Len(l) + Len(m) : (l \o m)[i] = IF i <= Len(l) THEN l[i] ELSE m[i - Len(l)]
  BY <1>1, ConcatProperties
<1>4. l \o m # <<>>
  BY <1>1, ConcatEqualIffEmpty
<1>5. (l \o m)[1] = a /\ (l \o m)[Len(l \o m)] = z
  BY <1>2, <1>3 DEF Piece
<1>6. ASSUME NEW i \in 1..(Len(l \o m) - 1)
      PROVE  Edge(goal, (l \o m)[i], (l \o m)[i + 1])
  <2>1. CASE i < Len(l)
    <3>1. i \in 1..(Len(l) - 1) /\ (l \o m)[i] = l[i] /\ (l \o m)[i + 1] = l[i + 1]
      BY <2>1, <1>2, <1>3
    <3> QED
      BY <3>1 DEF Piece
  <2>2. CASE i = Len(l)
    <3>1. (l \o m)[i] = l[Len(l)] /\ (l \o m)[i + 1] = m[1]
      BY <2>2, <1>2, <1>3
    <3> QED
      BY <3>1 DEF Piece
  <2>3. CASE i > Len(l)
    <3>1. /\ i - Len(l) \in 1..(Len(m) - 1)
          /\ (l \o m)[i] = m[i - Len(l)] /\ (l \o m)[i + 1] = m[(i - Len(l)) + 1]
      BY <2>3, <1>2, <1>3
    <3> QED
      BY <3>1 DEF Piece
  <2> QED
    BY <2>1, <2>2, <2>3, <1>2, <1>3
<1> QED
  BY <1>1, <1>3, <1>4, <1>5, <1>6 DEF Piece

\* A step alone is a piece.
LEMMA OneStep ==
  ASSUME NEW goal, NEW s \in Steps
  PROVE  Piece(goal, <<s>>, s, s)
BY DEF Piece

\* pmx_relay_stop's steps, wherever it is called from.
LEMMA RelayStopIsAPiece ==
  ASSUME NEW goal \in {"stopped", "other_backend", "end", "free_relay"}
  PROVE  Piece(goal, RelayStop, "close_listener", "free_relay")
BY DEF Piece, RelayStop, Edge, Steps

\* wd_stop's steps, in a stop, a change of backend and the end of main.
LEMMA BackendStopIsAPiece ==
  ASSUME NEW goal \in {"stopped", "other_backend", "end"}
  PROVE  Piece(goal, BackendStop, "stop_pumps", "free_nat")
<1>1. Piece(goal, <<"stop_pumps", "join_pumps">>, "stop_pumps", "join_pumps")
  BY DEF Piece, Edge, Steps
<1>2. Piece(goal, <<"stop_pumps", "join_pumps">> \o RelayStop, "stop_pumps", "free_relay")
  BY <1>1, RelayStopIsAPiece, JoinsPieces DEF Edge
<1>3. Piece(goal, <<"free_nat">>, "free_nat", "free_nat")
  BY OneStep DEF Steps
<1> QED
  BY <1>2, <1>3, JoinsPieces DEF Edge, BackendStop

\* pmx_engine_destroy's steps, to the count it gives back.
LEMMA EngineDestroyIsAPiece == Piece("end", EngineDestroy, "stop_pumps", "release_engine")
<1>1. Piece("end", <<"free_backend", "stop_checker", "join_checker", "release_engine">>,
            "free_backend", "release_engine")
  BY DEF Piece, Edge, Steps
<1> QED
  BY <1>1, BackendStopIsAPiece, JoinsPieces DEF Edge, EngineDestroy

\* The end of main when the window or the application could not be made.
LEMMA EarlyExitIsAPiece == Piece("end", EngineDestroy \o <<"release_main", "end">>, "stop_pumps", "end")
<1>1. Piece("end", <<"release_main", "end">>, "release_main", "end")
  BY DEF Piece, Edge, Steps
<1> QED
  BY <1>1, EngineDestroyIsAPiece, JoinsPieces DEF Edge

\* The end of main.
LEMMA ExitIsAPiece == Piece("end", Exit, "stop_pumps", "end")
<1>1. Piece("end", <<"drop_sink">>, "drop_sink", "drop_sink")
  BY OneStep DEF Steps
<1>2. Piece("end", EngineDestroy \o <<"drop_sink">>, "stop_pumps", "drop_sink")
  BY <1>1, EngineDestroyIsAPiece, JoinsPieces DEF Edge
<1>3. Piece("end", TraceFree, "cancel_trace", "join_trace")
  BY DEF Piece, Edge, Steps, TraceFree
<1>4. Piece("end", EngineDestroy \o <<"drop_sink">> \o TraceFree, "stop_pumps", "join_trace")
  BY <1>2, <1>3, JoinsPieces DEF Edge
<1>5. Piece("end", <<"free_app", "release_main", "end">>, "free_app", "end")
  BY DEF Piece, Edge, Steps
<1> QED
  BY <1>4, <1>5, JoinsPieces DEF Edge, Exit

\* A piece that ends with its goal is a program.
LEMMA PieceIsAProgram ==
  ASSUME NEW l, NEW a, NEW z \in Goals, Piece(z, l, a, z)
  PROVE  Program(l) /\ First(l) = a /\ Final(l) = z
BY DEF Piece, Program, First, Final

\* A step done is followed by the next one of the program, or by the next frame.
Follows(s) ==
  /\ At = s /\ Goal \in Goals
  /\ \/ At' = "frame" /\ Goal' = "frame" /\ Goal = s
     \/ Goal' = Goal /\ Edge(Goal, s, At')

\* At the step s the program is exchanged for one from a to z.
Turns(s, a, z) == At = s /\ At' = a /\ Goal' = z

\* The program is over: the GUI thread is between two frames.
LEMMA NothingTurns ==
  ASSUME todo' = <<>>
  PROVE  Program(todo') /\ At' = "frame" /\ Goal' = "frame"
BY DEF Program, At, Goal, First, Final

\* Tail takes the program to the step that follows.
LEMMA DoneFollows ==
  ASSUME Program(todo), NEW s, Next_(s), Done
  PROVE  Program(todo') /\ Follows(s)
<1>1. /\ todo # <<>> /\ todo[1] = s /\ todo' = Tail(todo) /\ todo \in Seq(Steps)
      /\ Final(todo) \in Goals
  BY DEF Next_, Done, Program
<1>2. /\ Len(todo) \in Nat \ {0} /\ todo' \in Seq(Steps) /\ Len(todo') = Len(todo) - 1
      /\ \A i \in 1..Len(todo') : todo'[i] = todo[i + 1]
  BY <1>1, HeadTailProperties, EmptySeq
<1>3. CASE todo' = <<>>
  <2>1. Len(todo) = 1
    BY <1>2, <1>3
  <2>2. Follows(s)
    BY <1>1, <1>3, <2>1 DEF Follows, At, Goal, First, Final
  <2> QED
    BY <1>3, <2>2, NothingTurns
<1>4. CASE todo' # <<>>
  <2>1. Len(todo') \in Nat \ {0}
    BY <1>2, <1>4, EmptySeq
  <2>2. todo'[1] = todo[2] /\ todo'[Len(todo')] = todo[Len(todo)] /\ 1 \in 1..(Len(todo) - 1)
    BY <1>2, <2>1
  <2>3. Final(todo') = Final(todo) /\ First(todo') = todo[2] /\ First(todo) = s
    BY <2>2, <1>1, <1>4 DEF First, Final
  <2>4. Edge(Final(todo), s, First(todo'))
    BY <2>2, <2>3, <1>1 DEF Program
  <2>5. Follows(s)
    BY <1>1, <2>3, <2>4 DEF Follows, At, Goal
  <2>6. ASSUME NEW i \in 1..(Len(todo') - 1)
        PROVE  Edge(Final(todo'), todo'[i], todo'[i + 1])
    <3>1. i + 1 \in 1..(Len(todo) - 1) /\ todo'[i] = todo[i + 1] /\ todo'[i + 1] = todo[(i + 1) + 1]
      BY <1>2, <2>1
    <3> QED
      BY <3>1, <2>3 DEF Program
  <2> QED
    BY <1>1, <1>2, <2>3, <2>5, <2>6 DEF Program
<1> QED
  BY <1>3, <1>4

\* A list that is a piece, taken from a step or from a frame.
LEMMA PieceTurns ==
  ASSUME NEW a, NEW z \in Goals, Piece(z, todo', a, z)
  PROVE  Program(todo') /\ At' = a /\ Goal' = z
BY PieceIsAProgram DEF At, Goal

\* The step that is next.
LEMMA NextIsAt == ASSUME NEW s, Next_(s) PROVE At = s
BY DEF Next_, At, First

\* Between two frames.
LEMMA FrameIsAt == Frame => At = "frame" /\ Goal = "frame"
BY DEF Frame, At, Goal, First, Final

\* A thread leaves the GUI thread's program alone.
LEMMA StepStays ==
  ASSUME UNCHANGED todo
  PROVE  At' = At /\ Goal' = Goal /\ (Program(todo) => Program(todo'))
BY DEF At, Goal

\* Where each step that cannot fail leads.
LEMMA PlainSteps ==
  ASSUME Program(todo)
  PROVE  /\ Acquires => Program(todo') /\ Follows("acquire")
         /\ StopsPumps => Program(todo') /\ Follows("stop_pumps")
         /\ JoinsPumps => Program(todo') /\ Follows("join_pumps")
         /\ ClosesListener => Program(todo') /\ Follows("close_listener")
         /\ JoinsAcceptor => Program(todo') /\ Follows("join_acceptor")
         /\ JoinsWorkers => Program(todo') /\ Follows("join_workers")
         /\ FreesRelay => Program(todo') /\ Follows("free_relay")
         /\ FreesNat => Program(todo') /\ Follows("free_nat")
         /\ FreesBackend => Program(todo') /\ Follows("free_backend")
         /\ OtherBackend => Program(todo') /\ Follows("other_backend")
         /\ Stopped => Program(todo') /\ Follows("stopped")
         /\ StopsChecker => Program(todo') /\ Follows("stop_checker")
         /\ JoinsChecker => Program(todo') /\ Follows("join_checker")
         /\ DropsSink => Program(todo') /\ Follows("drop_sink")
         /\ FreesApp => Program(todo') /\ Follows("free_app")
         /\ StartsTrace => Program(todo') /\ Follows("start_trace")
         /\ CancelsTrace => Program(todo') /\ Follows("cancel_trace")
         /\ JoinsTrace => Program(todo') /\ Follows("join_trace")
         /\ StartsDemo => Program(todo') /\ Follows("start_demo")
         /\ Started => Program(todo') /\ Follows("started")
         /\ Releases => Program(todo') /\ (Follows("release_engine") \/ Follows("release_main"))
<1>1. Acquires => Program(todo') /\ Follows("acquire")
  BY DoneFollows DEF Acquires
<1>2. StopsPumps => Program(todo') /\ Follows("stop_pumps")
  BY DoneFollows DEF StopsPumps
<1>3. JoinsPumps => Program(todo') /\ Follows("join_pumps")
  BY DoneFollows DEF JoinsPumps
<1>4. ClosesListener => Program(todo') /\ Follows("close_listener")
  BY DoneFollows DEF ClosesListener
<1>5. JoinsAcceptor => Program(todo') /\ Follows("join_acceptor")
  BY DoneFollows DEF JoinsAcceptor
<1>6. JoinsWorkers => Program(todo') /\ Follows("join_workers")
  BY DoneFollows DEF JoinsWorkers
<1>7. FreesRelay => Program(todo') /\ Follows("free_relay")
  BY DoneFollows DEF FreesRelay
<1>8. FreesNat => Program(todo') /\ Follows("free_nat")
  BY DoneFollows DEF FreesNat
<1>9. FreesBackend => Program(todo') /\ Follows("free_backend")
  BY DoneFollows DEF FreesBackend
<1>10. OtherBackend => Program(todo') /\ Follows("other_backend")
  BY DoneFollows DEF OtherBackend
<1>11. Stopped => Program(todo') /\ Follows("stopped")
  BY DoneFollows DEF Stopped
<1>12. StopsChecker => Program(todo') /\ Follows("stop_checker")
  BY DoneFollows DEF StopsChecker
<1>13. JoinsChecker => Program(todo') /\ Follows("join_checker")
  BY DoneFollows DEF JoinsChecker
<1>14. DropsSink => Program(todo') /\ Follows("drop_sink")
  BY DoneFollows DEF DropsSink
<1>15. FreesApp => Program(todo') /\ Follows("free_app")
  BY DoneFollows DEF FreesApp
<1>16. StartsTrace => Program(todo') /\ Follows("start_trace")
  BY DoneFollows DEF StartsTrace
<1>17. CancelsTrace => Program(todo') /\ Follows("cancel_trace")
  BY DoneFollows DEF CancelsTrace
<1>18. JoinsTrace => Program(todo') /\ Follows("join_trace")
  BY DoneFollows DEF JoinsTrace
<1>19. StartsDemo => Program(todo') /\ Follows("start_demo")
  BY DoneFollows DEF StartsDemo
<1>20. Started => Program(todo') /\ Follows("started")
  BY DoneFollows DEF Started
<1>21. Releases => Program(todo') /\ (Follows("release_engine") \/ Follows("release_main"))
  BY DoneFollows DEF Releases
<1> QED
  BY <1>1, <1>2, <1>3, <1>4, <1>5, <1>6, <1>7, <1>8, <1>9, <1>10, <1>11, <1>12, <1>13, <1>14, <1>15,
     <1>16, <1>17, <1>18, <1>19, <1>20, <1>21

\* Where the steps that may fail lead: to the next step, or where the failure is handled.
LEMMA CreatesEngineFlows ==
  ASSUME Program(todo), CreatesEngine
  PROVE  /\ Program(todo')
         /\ Done => Follows("create_engine")
         /\ Instead(<<"end">>) => Turns("create_engine", "end", "end")
<1>1. Done => Program(todo') /\ Follows("create_engine")
  BY DoneFollows DEF CreatesEngine
<1>2. ASSUME Instead(<<"end">>) PROVE Program(todo') /\ Turns("create_engine", "end", "end")
  <2>1. Piece("end", todo', "end", "end")
    BY <1>2, OneStep DEF Instead, Steps
  <2> QED
    BY <2>1, PieceTurns, NextIsAt DEF Goals, CreatesEngine, Turns
<1> QED
  BY <1>1, <1>2 DEF CreatesEngine

\* No window: the engine is destroyed and main ends.
LEMMA OpensWindowFlows ==
  ASSUME Program(todo), OpensWindow
  PROVE  /\ Program(todo')
         /\ Done => Follows("open_window")
         /\ Instead(EngineDestroy \o <<"release_main", "end">>) => Turns("open_window", "stop_pumps", "end")
<1>1. Done => Program(todo') /\ Follows("open_window")
  BY DoneFollows DEF OpensWindow
<1>2. ASSUME Instead(EngineDestroy \o <<"release_main", "end">>)
      PROVE  Program(todo') /\ Turns("open_window", "stop_pumps", "end")
  <2>1. Piece("end", todo', "stop_pumps", "end")
    BY <1>2, EarlyExitIsAPiece DEF Instead
  <2> QED
    BY <2>1, PieceTurns, NextIsAt DEF Goals, OpensWindow, Turns
<1> QED
  BY <1>1, <1>2 DEF OpensWindow

\* No application: the engine is destroyed and main ends.
LEMMA CreatesAppFlows ==
  ASSUME Program(todo), CreatesApp
  PROVE  /\ Program(todo')
         /\ Done => Follows("create_app")
         /\ Instead(EngineDestroy \o <<"release_main", "end">>) => Turns("create_app", "stop_pumps", "end")
<1>1. Done => Program(todo') /\ Follows("create_app")
  BY DoneFollows DEF CreatesApp
<1>2. ASSUME Instead(EngineDestroy \o <<"release_main", "end">>)
      PROVE  Program(todo') /\ Turns("create_app", "stop_pumps", "end")
  <2>1. Piece("end", todo', "stop_pumps", "end")
    BY <1>2, EarlyExitIsAPiece DEF Instead
  <2> QED
    BY <2>1, PieceTurns, NextIsAt DEF Goals, CreatesApp, Turns
<1> QED
  BY <1>1, <1>2 DEF CreatesApp

\* No table: the relay is stopped.
LEMMA CreatesNatFlows ==
  ASSUME Program(todo), CreatesNat
  PROVE  /\ Program(todo')
         /\ Done => Follows("create_nat")
         /\ Instead(RelayStop) => Turns("create_nat", "close_listener", "free_relay")
<1>1. Done => Program(todo') /\ Follows("create_nat")
  BY DoneFollows DEF CreatesNat
<1>2. ASSUME Instead(RelayStop) PROVE Program(todo') /\ Turns("create_nat", "close_listener", "free_relay")
  <2>1. Piece("free_relay", todo', "close_listener", "free_relay")
    BY <1>2, RelayStopIsAPiece DEF Instead
  <2> QED
    BY <2>1, PieceTurns, NextIsAt DEF Goals, CreatesNat, Turns
<1> QED
  BY <1>1, <1>2 DEF CreatesNat

\* No network layer: the table is freed and the relay stopped.
LEMMA OpensNetFlows ==
  ASSUME Program(todo), OpensNet
  PROVE  /\ Program(todo')
         /\ Done => Follows("open_net")
         /\ Instead(NetFails) => Turns("open_net", "free_nat", "free_relay")
<1>1. Done => Program(todo') /\ Follows("open_net")
  BY DoneFollows DEF OpensNet
<1>2. ASSUME Instead(NetFails) PROVE Program(todo') /\ Turns("open_net", "free_nat", "free_relay")
  <2>1. Piece("free_relay", <<"free_nat">>, "free_nat", "free_nat")
    BY OneStep DEF Steps
  <2>2. Piece("free_relay", todo', "free_nat", "free_relay")
    BY <1>2, <2>1, RelayStopIsAPiece, JoinsPieces DEF Instead, NetFails, Edge
  <2> QED
    BY <2>2, PieceTurns, NextIsAt DEF Goals, OpensNet, Turns
<1> QED
  BY <1>1, <1>2 DEF OpensNet

\* No relay: nothing was made.
LEMMA OpensRelayFlows ==
  ASSUME Program(todo), OpensRelay
  PROVE  /\ Program(todo')
         /\ Done => Follows("open_relay")
         /\ Instead(<<>>) => Turns("open_relay", "frame", "frame")
<1>1. Done => Program(todo') /\ Follows("open_relay")
  BY DoneFollows DEF OpensRelay
<1>2. ASSUME Instead(<<>>) PROVE Program(todo') /\ Turns("open_relay", "frame", "frame")
  BY <1>2, NothingTurns, NextIsAt DEF OpensRelay, Instead, Turns
<1> QED
  BY <1>1, <1>2 DEF OpensRelay

\* The step that starts a pump.
StartOf(p) == IF p = "pump" THEN "start_pump" ELSE "start_net_pump"

\* No thread: the start is over.
LEMMA StartsPumpFlows ==
  ASSUME Program(todo), NEW p \in Pumps, StartsPump(p)
  PROVE  /\ Program(todo')
         /\ Done => Follows(StartOf(p))
         /\ Instead(<<>>) => Turns(StartOf(p), "frame", "frame")
<1>1. Done => Program(todo') /\ Follows(StartOf(p))
  BY DoneFollows DEF StartsPump, StartOf
<1>2. ASSUME Instead(<<>>) PROVE Program(todo') /\ Turns(StartOf(p), "frame", "frame")
  BY <1>2, NothingTurns, NextIsAt DEF StartsPump, StartOf, Instead, Turns
<1> QED
  BY <1>1, <1>2 DEF StartsPump

\* Where each click leads.
LEMMA ClickStartFlows ==
  ASSUME ClickStart
  PROVE  /\ Program(todo')
         /\ IF backend.kind = "stub" THEN Turns("frame", "start_demo", "started")
            ELSE Turns("frame", "open_relay", "started")
<1>1. At = "frame"
  BY FrameIsAt DEF ClickStart
<1>2. CASE backend.kind = "stub"
  <2>1. Piece("started", todo', "start_demo", "started")
    BY <1>2 DEF ClickStart, Piece, Edge, Steps
  <2> QED
    BY <1>1, <1>2, <2>1, PieceTurns DEF Goals, Turns
<1>3. CASE backend.kind # "stub"
  <2>1. Piece("started", todo', "open_relay", "started")
    BY <1>3 DEF ClickStart, Piece, Edge, Steps
  <2> QED
    BY <1>1, <1>3, <2>1, PieceTurns DEF Goals, Turns
<1> QED
  BY <1>2, <1>3

\* A stop.
LEMMA ClickStopFlows ==
  ASSUME ClickStop
  PROVE  Program(todo') /\ Turns("frame", "stop_pumps", "stopped")
<1>1. Piece("stopped", <<"stopped">>, "stopped", "stopped")
  BY OneStep DEF Steps
<1>2. Piece("stopped", todo', "stop_pumps", "stopped")
  BY <1>1, BackendStopIsAPiece, JoinsPieces DEF ClickStop, Edge
<1> QED
  BY <1>2, PieceTurns, FrameIsAt DEF Goals, ClickStop, Turns

\* A change of backend.
LEMMA ClickBackendFlows ==
  ASSUME ClickBackend
  PROVE  Program(todo') /\ Turns("frame", "stop_pumps", "other_backend")
<1>1. Piece("other_backend", <<"free_backend", "other_backend">>, "free_backend", "other_backend")
  BY DEF Piece, Edge, Steps
<1>2. Piece("other_backend", todo', "stop_pumps", "other_backend")
  BY <1>1, BackendStopIsAPiece, JoinsPieces DEF ClickBackend, Edge
<1> QED
  BY <1>2, PieceTurns, FrameIsAt DEF Goals, ClickBackend, Turns

\* A scan.
LEMMA ClickTraceFlows ==
  ASSUME ClickTrace
  PROVE  /\ Program(todo')
         /\ IF trace.state = "none" THEN Turns("frame", "start_trace", "start_trace")
            ELSE Turns("frame", "cancel_trace", "start_trace")
<1>1. At = "frame"
  BY FrameIsAt DEF ClickTrace
<1>2. Piece("start_trace", <<"start_trace">>, "start_trace", "start_trace")
  BY OneStep DEF Steps
<1>3. CASE trace.state = "none"
  <2>1. todo' = <<"start_trace">>
    BY <1>3, ConcatEmptySeq DEF ClickTrace
  <2> QED
    BY <1>1, <1>2, <1>3, <2>1, PieceTurns DEF Goals, Turns
<1>4. CASE trace.state # "none"
  <2>1. Piece("start_trace", TraceFree, "cancel_trace", "join_trace")
    BY DEF Piece, Edge, Steps, TraceFree
  <2>2. Piece("start_trace", todo', "cancel_trace", "start_trace")
    BY <1>2, <1>4, <2>1, JoinsPieces DEF ClickTrace, Edge
  <2> QED
    BY <1>1, <1>4, <2>2, PieceTurns DEF Goals, Turns
<1> QED
  BY <1>3, <1>4

\* The end of the frame loop.
LEMMA CloseWindowFlows ==
  ASSUME CloseWindow
  PROVE  Program(todo') /\ Turns("frame", "stop_pumps", "end")
<1>1. CASE running
  <2>1. Piece("end", <<"stopped">>, "stopped", "stopped")
    BY OneStep DEF Steps
  <2>2. Piece("end", BackendStop \o <<"stopped">>, "stop_pumps", "stopped")
    BY <2>1, BackendStopIsAPiece, JoinsPieces DEF Edge
  <2>3. Piece("end", todo', "stop_pumps", "end")
    BY <1>1, <2>2, ExitIsAPiece, JoinsPieces DEF CloseWindow, Edge
  <2> QED
    BY <2>3, PieceTurns, FrameIsAt DEF Goals, CloseWindow, Turns
<1>2. CASE ~running
  <2>1. todo' = Exit
    BY <1>2, ExitIsAPiece, ConcatEmptySeq DEF CloseWindow, Piece
  <2> QED
    BY <2>1, ExitIsAPiece, PieceTurns, FrameIsAt DEF Goals, CloseWindow, Turns
<1> QED
  BY <1>1, <1>2

-----------------------------------------------------------------------------
(* Types.                                                                  *)

\* Where a step uses the backend there is one.
LEMMA BackendAt ==
  ASSUME Types, Objects,
         At \in {"frame", "start_demo", "open_relay", "create_nat", "open_net", "start_pump",
                "start_net_pump", "stop_pumps", "free_relay", "free_nat"}
  PROVE  backend \in Backends /\ backend # None
BY DEF Types, Objects, BackendThere, EngineThere, EngineGone

\* A click changes the program only.
LEMMA ClickIsSmall ==
  ASSUME Click
  PROVE  UNCHANGED <<mainVars, relayVars, pumps, trace, checker, refs, app, sink>>
BY DEF Click, ClickStart, ClickStop, ClickBackend, ClickTrace, CloseWindow

\* What the records of the backend, a relay, the trace and a checker become.
LEMMA RecordTypes ==
  /\ \A k \in {"stub", "windivert"} :
       [kind |-> k, running |-> FALSE, relay |-> None, nat |-> FALSE] \in Backends
  /\ [state |-> "begun", cancel |-> FALSE] \in Traces
  /\ [state |-> "none", cancel |-> FALSE] \in Traces
  /\ [state |-> "wait", running |-> TRUE] \in Checkers
<1>1. \A k \in {"stub", "windivert"} :
        [kind |-> k, running |-> FALSE, relay |-> None, nat |-> FALSE] \in Backends
  BY DEF Backends
<1>2. [state |-> "begun", cancel |-> FALSE] \in Traces
  BY DEF Traces
<1>3. [state |-> "none", cancel |-> FALSE] \in Traces
  BY DEF Traces
<1>4. [state |-> "wait", running |-> TRUE] \in Checkers
  BY DEF Checkers
<1> QED
  BY <1>1, <1>2, <1>3, <1>4

\* What is done to the relays keeps their type: one is opened, closed, freed, given a destination
\* or asked for it.
LEMMA RelaysTypes ==
  ASSUME NEW f \in [Relays -> RelayRecs]
  PROVE  /\ \A r \in Relays : [f EXCEPT ![r] = [alive |-> TRUE, running |-> TRUE, pending |-> FALSE]]
                            \in [Relays -> RelayRecs]
         /\ \A r \in Relays : [f EXCEPT ![r].alive = FALSE] \in [Relays -> RelayRecs]
         /\ \A r \in Relays : [f EXCEPT ![r].pending = TRUE] \in [Relays -> RelayRecs]
         /\ \A r \in Relays : [f EXCEPT ![r].pending = FALSE] \in [Relays -> RelayRecs]
<1> USE DEF RelayRecs
<1>1. \A r \in Relays : [f EXCEPT ![r] = [alive |-> TRUE, running |-> TRUE, pending |-> FALSE]]
                      \in [Relays -> RelayRecs]
  OBVIOUS
<1>2. \A r \in Relays : [f EXCEPT ![r].alive = FALSE] \in [Relays -> RelayRecs]
  OBVIOUS
<1>3. \A r \in Relays : [f EXCEPT ![r].pending = TRUE] \in [Relays -> RelayRecs]
  OBVIOUS
<1>4. \A r \in Relays : [f EXCEPT ![r].pending = FALSE] \in [Relays -> RelayRecs]
  OBVIOUS
<1> QED
  BY <1>1, <1>2, <1>3, <1>4

\* What the GUI thread does keeps the types.
LEMMA MainTypes ==
  ASSUME Types, Objects, Main
  PROVE  Types'
<1> USE DEF mainVars, relayVars
<1>1. ASSUME Acquires PROVE Types'
  BY <1>1 DEF Acquires, Acquire, Types
<1>2. ASSUME CreatesEngine PROVE Types'
  <2>1. backend' \in Backends \cup {None}
    BY <1>2, RecordTypes DEF CreatesEngine, Types
  <2>2. checker' \in Checkers
    BY <1>2, RecordTypes DEF CreatesEngine, Types
  <2>3. refs' \in Nat
    BY <1>2 DEF CreatesEngine, Acquire, Types
  <2> QED
    BY <1>2, <2>1, <2>2, <2>3 DEF CreatesEngine, Types
<1>3. ASSUME OpensWindow PROVE Types'
  BY <1>3 DEF OpensWindow, Types
<1>4. ASSUME CreatesApp PROVE Types'
  BY <1>4 DEF CreatesApp, Types
<1>5. ASSUME OpensRelay PROVE Types'
  <2>1. backend \in Backends
    BY <1>5, NextIsAt, BackendAt DEF OpensRelay
  <2>2. backend' \in Backends \cup {None}
    BY <1>5, <2>1 DEF OpensRelay, Types, Backends
  <2>3. relays' \in [Relays -> RelayRecs]
    <3>1. relays' = relays \/ \E r \in Relays :
            relays' = [relays EXCEPT ![r] = [alive |-> TRUE, running |-> TRUE, pending |-> FALSE]]
      BY <1>5 DEF OpensRelay
    <3>2. relays \in [Relays -> RelayRecs]
      BY DEF Types
    <3>3. ASSUME NEW r \in Relays,
                 relays' = [relays EXCEPT ![r] = [alive |-> TRUE, running |-> TRUE, pending |-> FALSE]]
          PROVE  relays' \in [Relays -> RelayRecs]
      BY <3>2, <3>3 DEF RelayRecs
    <3> QED
      BY <3>1, <3>2, <3>3
  <2>4. acceptor' \in [Relays -> {"none", "accept", "reap", "logging", "ended"}]
    BY <1>5 DEF OpensRelay, Types
  <2>5. refs' \in Nat
    BY <1>5 DEF OpensRelay, Acquire, RelayFails, Types
  <2> QED
    BY <1>5, <2>2, <2>3, <2>4, <2>5 DEF OpensRelay, Types
<1>6. ASSUME CreatesNat PROVE Types'
  <2>1. backend \in Backends
    BY <1>6, NextIsAt, BackendAt DEF CreatesNat
  <2> QED
    BY <1>6, <2>1 DEF CreatesNat, Types, Backends
<1>7. ASSUME OpensNet PROVE Types'
  <2>1. backend \in Backends
    BY <1>7, NextIsAt, BackendAt DEF OpensNet
  <2> QED
    BY <1>7, <2>1 DEF OpensNet, Types, Backends
<1>8. ASSUME NEW p \in Pumps, StartsPump(p) PROVE Types'
  <2>1. backend \in Backends
    BY <1>8, NextIsAt, BackendAt DEF StartsPump
  <2> QED
    BY <1>8, <2>1 DEF StartsPump, Types, Backends
<1>9. ASSUME StartsDemo PROVE Types'
  <2>1. backend \in Backends
    BY <1>9, NextIsAt, BackendAt DEF StartsDemo
  <2> QED
    BY <1>9, <2>1 DEF StartsDemo, Types, Backends
<1>10. ASSUME Started PROVE Types'
  BY <1>10 DEF Started, Types
<1>11. ASSUME StopsPumps PROVE Types'
  <2>1. backend \in Backends
    BY <1>11, NextIsAt, BackendAt DEF StopsPumps
  <2> QED
    BY <1>11, <2>1 DEF StopsPumps, Types, Backends
<1>12. ASSUME JoinsPumps PROVE Types'
  BY <1>12 DEF JoinsPumps, Types
<1>13. ASSUME ClosesListener PROVE Types'
  <2>1. relays \in [Relays -> RelayRecs]
    BY DEF Types
  <2>2. \A r \in Relays : (IF r = Own THEN [relays[r] EXCEPT !.running = FALSE] ELSE relays[r]) \in RelayRecs
    BY <2>1 DEF RelayRecs
  <2>3. relays' \in [Relays -> RelayRecs]
    BY <1>13, <2>2 DEF ClosesListener
  <2> QED
    BY <1>13, <2>3 DEF ClosesListener, Types
<1>14. ASSUME JoinsAcceptor PROVE Types'
  BY <1>14 DEF JoinsAcceptor, Types
<1>15. ASSUME JoinsWorkers PROVE Types'
  BY <1>15 DEF JoinsWorkers, Free, Types
<1>16. ASSUME FreesRelay PROVE Types'
  <2>1. backend \in Backends
    BY <1>16, NextIsAt, BackendAt DEF FreesRelay
  <2>2. backend' \in Backends \cup {None}
    BY <1>16, <2>1 DEF FreesRelay, Types, Backends
  <2>3. relays' \in [Relays -> RelayRecs]
    BY <1>16, RelaysTypes DEF FreesRelay, Types
  <2>4. acceptor' \in [Relays -> {"none", "accept", "reap", "logging", "ended"}]
    BY <1>16 DEF FreesRelay, Types
  <2>5. refs' \in Nat
    <3>1. refs' = refs \/ Release
      BY <1>16 DEF FreesRelay
    <3> QED
      BY <3>1 DEF Release, Types
  <2> QED
    BY <1>16, <2>2, <2>3, <2>4, <2>5 DEF FreesRelay, Types
<1>17. ASSUME FreesNat PROVE Types'
  <2>1. backend \in Backends
    BY <1>17, NextIsAt, BackendAt DEF FreesNat
  <2> QED
    BY <1>17, <2>1 DEF FreesNat, Types, Backends
<1>18. ASSUME FreesBackend PROVE Types'
  BY <1>18 DEF FreesBackend, Types
<1>19. ASSUME OtherBackend PROVE Types'
  <2>1. backend' \in Backends \cup {None}
    BY <1>19, RecordTypes DEF OtherBackend
  <2> QED
    BY <1>19, <2>1 DEF OtherBackend, Types
<1>20. ASSUME Stopped PROVE Types'
  BY <1>20 DEF Stopped, Types
<1>21. ASSUME StopsChecker PROVE Types'
  BY <1>21 DEF StopsChecker, Types, Checkers
<1>22. ASSUME JoinsChecker PROVE Types'
  BY <1>22 DEF JoinsChecker, Types
<1>23. ASSUME DropsSink PROVE Types'
  BY <1>23 DEF DropsSink, Types
<1>24. ASSUME FreesApp PROVE Types'
  BY <1>24 DEF FreesApp, Types
<1>25. ASSUME Releases PROVE Types'
  BY <1>25 DEF Releases, Release, Types
<1>26. ASSUME StartsTrace PROVE Types'
  <2>1. trace' \in Traces
    BY <1>26, RecordTypes DEF StartsTrace, Types
  <2> QED
    BY <1>26, <2>1 DEF StartsTrace, Types
<1>27. ASSUME CancelsTrace PROVE Types'
  BY <1>27 DEF CancelsTrace, Types, Traces
<1>28. ASSUME JoinsTrace PROVE Types'
  BY <1>28, RecordTypes DEF JoinsTrace, Types
<1> QED
  BY <1>1, <1>2, <1>3, <1>4, <1>5, <1>6, <1>7, <1>8, <1>9, <1>10, <1>11, <1>12, <1>13, <1>14, <1>15,
     <1>16, <1>17, <1>18, <1>19, <1>20, <1>21, <1>22, <1>23, <1>24, <1>25, <1>26, <1>27, <1>28
     DEF Main, Startup, Starting, Stopping, Tracing

\* A worker's next state.
LEMMA WorkerTypes ==
  ASSUME Types, NEW c \in Conns, NEW from, NEW to \in Alive \cup {"none", "ended"}, Worker(c, from, to)
  PROVE  Types'
BY DEF Worker, Types, mainVars

\* The acceptor's client is sent away, or one that is expected gets the place of a free connection.
LEMMA ServesGives ==
  ASSUME NEW r \in Relays, Serves(r)
  PROVE  \/ conns' = Reaped(r)
         \/ /\ relays[r].pending
            /\ \E d \in Conns, s \in {"dial", "ended"} :
                 Reaped(r)[d].state = "none" /\ conns' = [Reaped(r) EXCEPT ![d] = [state |-> s, relay |-> r]]
BY DEF Serves, Destined

\* So does what the threads do.
LEMMA ThreadTypes ==
  ASSUME Types, ThreadsStep
  PROVE  Types'
<1> USE DEF mainVars, relayVars
<1>1. ASSUME NEW p \in Pumps, PumpLogs(p) PROVE Types'
  BY <1>1 DEF PumpLogs, Types
<1>2. ASSUME NEW p \in Pumps, PumpLogged(p) PROVE Types'
  BY <1>2 DEF PumpLogged, Types
<1>3. ASSUME PumpRegisters PROVE Types'
  BY <1>3 DEF PumpRegisters, Types, RelayRecs, Backends
<1>4. ASSUME NEW p \in Pumps, PumpEnds(p) PROVE Types'
  BY <1>4 DEF PumpEnds, Types
<1>5. ASSUME NEW r \in Relays, Accepts(r) PROVE Types'
  BY <1>5 DEF Accepts, Types
<1>6. ASSUME NEW r \in Relays, Serves(r) PROVE Types'
  <2> DEFINE Types1 == [state : Alive \cup {"none", "ended"}, relay : Relays \cup {None}]
  <2>1. conns \in [Conns -> Types1] /\ Free \in Types1
    BY DEF Types, Free, Alive
  <2>2. Reaped(r) \in [Conns -> Types1]
    BY <2>1, Zenon DEF Reaped
  <2>3. \A s \in {"dial", "ended"} : [state |-> s, relay |-> r] \in Types1
    BY DEF Alive
  <2>4. ASSUME NEW d \in Conns, NEW s \in {"dial", "ended"}
        PROVE  [Reaped(r) EXCEPT ![d] = [state |-> s, relay |-> r]] \in [Conns -> Types1]
    BY <2>2, <2>3
  <2>5. conns' = Reaped(r) \/ \E d \in Conns, s \in {"dial", "ended"} :
                               conns' = [Reaped(r) EXCEPT ![d] = [state |-> s, relay |-> r]]
    BY <1>6, ServesGives
  <2>6. conns' \in [Conns -> Types1]
    <3> HIDE DEF Types1
    <3> QED
      BY <2>2, <2>4, <2>5
  <2>7. relays' \in [Relays -> RelayRecs]
    BY <1>6, RelaysTypes DEF Serves, Types
  <2>8. acceptor' \in [Relays -> {"none", "accept", "reap", "logging", "ended"}] /\ harvest' \in [Relays -> SUBSET Conns]
    BY <1>6 DEF Serves, Types
  <2> QED
    BY <1>6, <2>6, <2>7, <2>8 DEF Serves, Types
<1>7. ASSUME NEW r \in Relays, AcceptorLogged(r) \/ AcceptorEnds(r) PROVE Types'
  BY <1>7 DEF AcceptorLogged, AcceptorEnds, Types
<1>8. ASSUME NEW c \in Conns, Dials(c) PROVE Types'
  BY <1>8, WorkerTypes DEF Dials, Alive
<1>9. ASSUME NEW c \in Conns, Logs(c) PROVE Types'
  BY <1>9, WorkerTypes DEF Logs, Alive
<1>10. ASSUME NEW c \in Conns, Moves(c) \/ Moved(c) \/ FlowEnds(c) PROVE Types'
  BY <1>10, WorkerTypes DEF Moves, Moved, FlowEnds, Alive
<1>11. ASSUME NEW c \in Conns, Quiet(c) PROVE Types'
  BY <1>11, WorkerTypes DEF Quiet, Alive
<1>12. ASSUME NEW c \in Conns, Calls(c) PROVE Types'
  BY <1>12, WorkerTypes DEF Calls, Alive
<1>13. ASSUME NEW c \in Conns, Marks(c) PROVE Types'
  BY <1>13, WorkerTypes DEF Marks, Alive
<1>14. ASSUME CheckerStep PROVE Types'
  BY <1>14 DEF CheckerStep, Types, Checkers, Acquire, Release
<1>15. ASSUME TraceStep PROVE Types'
  <2>1. trace' \in Traces
    BY <1>15 DEF TraceStep, Types, Traces
  <2>2. refs' \in Nat
    BY <1>15 DEF TraceStep, Acquire, Release, Types
  <2> QED
    BY <1>15, <2>1, <2>2 DEF TraceStep, Types
<1> QED
  BY <1>1, <1>2, <1>3, <1>4, <1>5, <1>6, <1>7, <1>8, <1>9, <1>10, <1>11, <1>12, <1>13, <1>14, <1>15
     DEF ThreadsStep

-----------------------------------------------------------------------------
(* What there is at each step.                                             *)

\* Every step leaves a program.
LEMMA ProgramKept ==
  ASSUME Program(todo), LifecycleNext
  PROVE  Program(todo')
<1>1. CASE Click
  BY <1>1, ClickStartFlows, ClickStopFlows, ClickBackendFlows, ClickTraceFlows, CloseWindowFlows DEF Click
<1>2. CASE Startup
  BY <1>2, PlainSteps, CreatesEngineFlows, OpensWindowFlows, CreatesAppFlows DEF Startup
<1>3. CASE Starting
  BY <1>3, PlainSteps, OpensRelayFlows, CreatesNatFlows, OpensNetFlows, StartsPumpFlows DEF Starting
<1>4. CASE Stopping
  BY <1>4, PlainSteps DEF Stopping
<1>5. CASE Tracing
  BY <1>5, PlainSteps DEF Tracing
<1>6. CASE ThreadsStep
  <2>1. UNCHANGED todo
    BY <1>6 DEF ThreadsStep, PumpLogs, PumpLogged, PumpRegisters, PumpEnds, Accepts, Serves,
         AcceptorLogged, AcceptorEnds,
         Dials, Logs, Moves, Moved, FlowEnds, Quiet, Calls, Marks, Worker, CheckerStep, TraceStep
  <2> QED
    BY <2>1
<1> QED
  BY <1>1, <1>2, <1>3, <1>4, <1>5, <1>6 DEF LifecycleNext, Main

\* A thread takes no step of the GUI thread, and opens and frees no relay.
LEMMA ThreadsKeep ==
  ASSUME Types, ThreadsStep
  PROVE  /\ UNCHANGED <<todo, mainVars, app, sink>>
         /\ At' = At /\ Goal' = Goal /\ Own' = Own
         /\ \A r \in Relays : relays'[r].alive = relays[r].alive
<1> USE DEF mainVars
<1>1. UNCHANGED <<todo, mainVars, app, sink>>
  BY DEF ThreadsStep, PumpLogs, PumpLogged, PumpRegisters, PumpEnds, Accepts, Serves,
         AcceptorLogged, AcceptorEnds,
         Dials, Logs, Moves, Moved, FlowEnds, Quiet, Calls, Marks, Worker, CheckerStep, TraceStep
<1>2. \/ relays' = relays
      \/ \E r \in Relays : relays' = [relays EXCEPT ![r].pending = FALSE]
      \/ \E r \in Relays : relays' = [relays EXCEPT ![r].pending = TRUE]
  <2>1. CASE PumpRegisters
    <3>1. backend.relay \in Relays
      BY <2>1 DEF PumpRegisters, Types, Backends
    <3> QED
      BY <2>1, <3>1 DEF PumpRegisters
  <2>2. CASE \E r \in Relays : Serves(r)
    BY <2>2 DEF Serves
  <2>3. CASE ~PumpRegisters /\ ~\E r \in Relays : Serves(r)
    BY <2>3 DEF ThreadsStep, PumpLogs, PumpLogged, PumpEnds, Accepts, AcceptorLogged, AcceptorEnds, relayVars,
         Dials, Logs, Moves, Moved, FlowEnds, Quiet, Calls, Marks, Worker, CheckerStep, TraceStep
  <2> QED
    BY <2>1, <2>2, <2>3
<1>3. \A r \in Relays : relays'[r].alive = relays[r].alive
  <2>1. relays \in [Relays -> RelayRecs]
    BY DEF Types
  <2>2. ASSUME NEW o \in Relays, NEW r \in Relays
        PROVE  /\ [relays EXCEPT ![o].pending = FALSE][r].alive = relays[r].alive
               /\ [relays EXCEPT ![o].pending = TRUE][r].alive = relays[r].alive
    BY <2>1 DEF RelayRecs
  <2>3. ASSUME NEW r \in Relays PROVE relays'[r].alive = relays[r].alive
    <3>1. CASE relays' = relays
      BY <3>1
    <3>2. CASE \E o \in Relays : relays' = [relays EXCEPT ![o].pending = FALSE]
      BY <3>2, <2>2
    <3>3. CASE \E o \in Relays : relays' = [relays EXCEPT ![o].pending = TRUE]
      BY <3>3, <2>2
    <3> QED
      BY <1>2, <3>1, <3>2, <3>3
  <2> QED
    BY <2>3
<1>4. At' = At /\ Goal' = Goal
  BY <1>1, StepStays
<1>5. Own' = Own
  BY <1>1 DEF Own
<1> QED
  BY <1>1, <1>3, <1>4, <1>5

\* What is written to a backend leaves it one.
LEMMA BackendTypes ==
  ASSUME NEW b \in Backends
  PROVE  /\ [b EXCEPT !.running = TRUE] \in Backends
         /\ [b EXCEPT !.running = FALSE] \in Backends
         /\ [b EXCEPT !.nat = TRUE] \in Backends
         /\ [b EXCEPT !.nat = FALSE] \in Backends
         /\ \A r \in Relays \cup {None} : [b EXCEPT !.relay = r] \in Backends
<1>1. [b EXCEPT !.running = TRUE] \in Backends
  BY DEF Backends
<1>2. [b EXCEPT !.running = FALSE] \in Backends
  BY DEF Backends
<1>3. [b EXCEPT !.nat = TRUE] \in Backends
  BY DEF Backends
<1>4. [b EXCEPT !.nat = FALSE] \in Backends
  BY DEF Backends
<1>5. \A r \in Relays \cup {None} : [b EXCEPT !.relay = r] \in Backends
  BY DEF Backends
<1> QED
  BY <1>1, <1>2, <1>3, <1>4, <1>5

\* A step that writes to the backend finds one and leaves one.
LEMMA BackendStays ==
  ASSUME Types, Objects,
         OpensRelay \/ CreatesNat \/ OpensNet \/ (\E p \in Pumps : StartsPump(p)) \/ StartsDemo
         \/ StopsPumps \/ FreesRelay \/ FreesNat
  PROVE  backend \in Backends /\ backend' \in Backends
<1>1. backend \in Backends
  BY NextIsAt, BackendAt
     DEF OpensRelay, CreatesNat, OpensNet, StartsPump, StartsDemo, StopsPumps, FreesRelay, FreesNat
<1>2. \/ backend' = backend
      \/ backend' = [backend EXCEPT !.running = TRUE]
      \/ backend' = [backend EXCEPT !.running = FALSE]
      \/ backend' = [backend EXCEPT !.nat = TRUE]
      \/ backend' = [backend EXCEPT !.nat = FALSE]
      \/ \E r \in Relays \cup {None} : backend' = [backend EXCEPT !.relay = r]
  BY DEF OpensRelay, CreatesNat, OpensNet, StartsPump, StartsDemo, StopsPumps, FreesRelay, FreesNat
<1> QED
  BY <1>1, <1>2, BackendTypes

\* There is a backend where the program says so.
LEMMA BackendWhere ==
  ASSUME Program(todo), Types, Objects, LifecycleNext
  PROVE  (BackendThere <=> backend # None)'
<1>1. ASSUME Acquires PROVE (BackendThere <=> backend # None)'
  <2>1. Follows("acquire")
    BY <1>1, PlainSteps
  <2>2. backend' = backend
    BY <1>1 DEF Acquires, mainVars
  <2> QED
    BY <2>1, <2>2 DEF Objects, BackendThere, EngineThere, EngineGone, Follows, Turns, Edge, Goals
<1>2. ASSUME CreatesEngine PROVE (BackendThere <=> backend # None)'
  <2>2. CASE Done /\ backend' = [kind |-> "stub", running |-> FALSE, relay |-> None, nat |-> FALSE]
    <3>1. Follows("create_engine") /\ backend' # None
      BY <1>2, <2>2, CreatesEngineFlows, RecordTypes, LifecycleAssumption
    <3> QED
      BY <3>1 DEF BackendThere, EngineThere, EngineGone, Follows, Turns, Edge, Goals
  <2>3. CASE Instead(<<"end">>) /\ backend' = backend
    <3>1. Turns("create_engine", "end", "end")
      BY <1>2, <2>3, CreatesEngineFlows
    <3> QED
      BY <2>3, <3>1 DEF Objects, BackendThere, EngineThere, EngineGone, Follows, Turns, Edge, Goals
  <2> QED
    BY <1>2, <2>2, <2>3 DEF CreatesEngine
<1>3. ASSUME OpensWindow PROVE (BackendThere <=> backend # None)'
  <2>1. Follows("open_window") \/ Turns("open_window", "stop_pumps", "end")
    BY <1>3, OpensWindowFlows DEF OpensWindow
  <2>2. backend' = backend
    BY <1>3 DEF OpensWindow, mainVars
  <2> QED
    BY <2>1, <2>2 DEF Objects, BackendThere, EngineThere, EngineGone, Follows, Turns, Edge, Goals
<1>4. ASSUME CreatesApp PROVE (BackendThere <=> backend # None)'
  <2>1. Follows("create_app") \/ Turns("create_app", "stop_pumps", "end")
    BY <1>4, CreatesAppFlows DEF CreatesApp
  <2>2. backend' = backend
    BY <1>4 DEF CreatesApp, mainVars
  <2> QED
    BY <2>1, <2>2 DEF Objects, BackendThere, EngineThere, EngineGone, Follows, Turns, Edge, Goals
<1>5. ASSUME OpensRelay PROVE (BackendThere <=> backend # None)'
  <2>1. Follows("open_relay") \/ Turns("open_relay", "frame", "frame")
    BY <1>5, OpensRelayFlows DEF OpensRelay
  <2>2. backend # None /\ backend' # None
    BY <1>5, BackendStays, LifecycleAssumption
  <2> QED
    BY <2>1, <2>2 DEF BackendThere, EngineThere, EngineGone, Follows, Turns, Edge, Goals
<1>6. ASSUME CreatesNat PROVE (BackendThere <=> backend # None)'
  <2>1. Follows("create_nat") \/ Turns("create_nat", "close_listener", "free_relay")
    BY <1>6, CreatesNatFlows DEF CreatesNat
  <2>2. backend # None /\ backend' # None
    BY <1>6, BackendStays, LifecycleAssumption
  <2> QED
    BY <2>1, <2>2 DEF BackendThere, EngineThere, EngineGone, Follows, Turns, Edge, Goals
<1>7. ASSUME OpensNet PROVE (BackendThere <=> backend # None)'
  <2>1. Follows("open_net") \/ Turns("open_net", "free_nat", "free_relay")
    BY <1>7, OpensNetFlows DEF OpensNet
  <2>2. backend # None /\ backend' # None
    BY <1>7, BackendStays, LifecycleAssumption
  <2> QED
    BY <2>1, <2>2 DEF BackendThere, EngineThere, EngineGone, Follows, Turns, Edge, Goals
<1>8. ASSUME NEW p \in Pumps, StartsPump(p) PROVE (BackendThere <=> backend # None)'
  <2>1. Follows(StartOf(p)) \/ Turns(StartOf(p), "frame", "frame")
    BY <1>8, StartsPumpFlows DEF StartsPump
  <2>2. backend # None /\ backend' # None
    BY <1>8, BackendStays, LifecycleAssumption
  <2> QED
    BY <2>1, <2>2 DEF BackendThere, EngineThere, EngineGone, Follows, Turns, Edge, Goals, StartOf
<1>9. ASSUME StartsDemo PROVE (BackendThere <=> backend # None)'
  <2>1. Follows("start_demo")
    BY <1>9, PlainSteps
  <2>2. backend # None /\ backend' # None
    BY <1>9, BackendStays, LifecycleAssumption
  <2> QED
    BY <2>1, <2>2 DEF BackendThere, EngineThere, EngineGone, Follows, Turns, Edge, Goals
<1>10. ASSUME Started PROVE (BackendThere <=> backend # None)'
  <2>1. Follows("started")
    BY <1>10, PlainSteps
  <2>2. backend' = backend
    BY <1>10 DEF Started, mainVars
  <2> QED
    BY <2>1, <2>2 DEF Objects, BackendThere, EngineThere, EngineGone, Follows, Turns, Edge, Goals
<1>11. ASSUME StopsPumps PROVE (BackendThere <=> backend # None)'
  <2>1. Follows("stop_pumps")
    BY <1>11, PlainSteps
  <2>2. backend # None /\ backend' # None
    BY <1>11, BackendStays, LifecycleAssumption
  <2> QED
    BY <2>1, <2>2 DEF BackendThere, EngineThere, EngineGone, Follows, Turns, Edge, Goals
<1>12. ASSUME JoinsPumps PROVE (BackendThere <=> backend # None)'
  <2>1. Follows("join_pumps")
    BY <1>12, PlainSteps
  <2>2. backend' = backend
    BY <1>12 DEF JoinsPumps, mainVars
  <2> QED
    BY <2>1, <2>2 DEF Objects, BackendThere, EngineThere, EngineGone, Follows, Turns, Edge, Goals
<1>13. ASSUME ClosesListener PROVE (BackendThere <=> backend # None)'
  <2>1. Follows("close_listener")
    BY <1>13, PlainSteps
  <2>2. backend' = backend
    BY <1>13 DEF ClosesListener, mainVars
  <2> QED
    BY <2>1, <2>2 DEF Objects, BackendThere, EngineThere, EngineGone, Follows, Turns, Edge, Goals
<1>14. ASSUME JoinsAcceptor PROVE (BackendThere <=> backend # None)'
  <2>1. Follows("join_acceptor")
    BY <1>14, PlainSteps
  <2>2. backend' = backend
    BY <1>14 DEF JoinsAcceptor, mainVars
  <2> QED
    BY <2>1, <2>2 DEF Objects, BackendThere, EngineThere, EngineGone, Follows, Turns, Edge, Goals
<1>15. ASSUME JoinsWorkers PROVE (BackendThere <=> backend # None)'
  <2>1. Follows("join_workers")
    BY <1>15, PlainSteps
  <2>2. backend' = backend
    BY <1>15 DEF JoinsWorkers, mainVars
  <2> QED
    BY <2>1, <2>2 DEF Objects, BackendThere, EngineThere, EngineGone, Follows, Turns, Edge, Goals
<1>16. ASSUME FreesRelay PROVE (BackendThere <=> backend # None)'
  <2>1. Follows("free_relay")
    BY <1>16, PlainSteps
  <2>2. backend # None /\ backend' # None
    BY <1>16, BackendStays, LifecycleAssumption
  <2> QED
    BY <2>1, <2>2 DEF BackendThere, EngineThere, EngineGone, Follows, Turns, Edge, Goals
<1>17. ASSUME FreesNat PROVE (BackendThere <=> backend # None)'
  <2>1. Follows("free_nat")
    BY <1>17, PlainSteps
  <2>2. backend # None /\ backend' # None
    BY <1>17, BackendStays, LifecycleAssumption
  <2> QED
    BY <2>1, <2>2 DEF BackendThere, EngineThere, EngineGone, Follows, Turns, Edge, Goals
<1>18. ASSUME FreesBackend PROVE (BackendThere <=> backend # None)'
  <2>1. Follows("free_backend")
    BY <1>18, PlainSteps
  <2> QED
    BY <1>18, <2>1 DEF FreesBackend, Objects, BackendThere, EngineThere, EngineGone, Follows, Turns, Edge, Goals
<1>19. ASSUME OtherBackend PROVE (BackendThere <=> backend # None)'
  <2>1. Follows("other_backend")
    BY <1>19, PlainSteps
  <2>2. backend' # None
    BY <1>19, RecordTypes, LifecycleAssumption DEF OtherBackend
  <2> QED
    BY <1>19, <2>1, <2>2 DEF OtherBackend, Objects, BackendThere, EngineThere, EngineGone, Follows, Turns, Edge, Goals
<1>20. ASSUME Stopped PROVE (BackendThere <=> backend # None)'
  <2>1. Follows("stopped")
    BY <1>20, PlainSteps
  <2>2. backend' = backend
    BY <1>20 DEF Stopped, mainVars
  <2> QED
    BY <2>1, <2>2 DEF Objects, BackendThere, EngineThere, EngineGone, Follows, Turns, Edge, Goals
<1>21. ASSUME StopsChecker PROVE (BackendThere <=> backend # None)'
  <2>1. Follows("stop_checker")
    BY <1>21, PlainSteps
  <2>2. backend' = backend
    BY <1>21 DEF StopsChecker, mainVars
  <2> QED
    BY <2>1, <2>2 DEF Objects, BackendThere, EngineThere, EngineGone, Follows, Turns, Edge, Goals
<1>22. ASSUME JoinsChecker PROVE (BackendThere <=> backend # None)'
  <2>1. Follows("join_checker")
    BY <1>22, PlainSteps
  <2>2. backend' = backend
    BY <1>22 DEF JoinsChecker, mainVars
  <2> QED
    BY <2>1, <2>2 DEF Objects, BackendThere, EngineThere, EngineGone, Follows, Turns, Edge, Goals
<1>23. ASSUME DropsSink PROVE (BackendThere <=> backend # None)'
  <2>1. Follows("drop_sink")
    BY <1>23, PlainSteps
  <2>2. backend' = backend
    BY <1>23 DEF DropsSink, mainVars
  <2> QED
    BY <2>1, <2>2 DEF Objects, BackendThere, EngineThere, EngineGone, Follows, Turns, Edge, Goals
<1>24. ASSUME FreesApp PROVE (BackendThere <=> backend # None)'
  <2>1. Follows("free_app")
    BY <1>24, PlainSteps
  <2>2. backend' = backend
    BY <1>24 DEF FreesApp, mainVars
  <2> QED
    BY <2>1, <2>2 DEF Objects, BackendThere, EngineThere, EngineGone, Follows, Turns, Edge, Goals
<1>25. ASSUME Releases PROVE (BackendThere <=> backend # None)'
  <2>1. Follows("release_engine") \/ Follows("release_main")
    BY <1>25, PlainSteps
  <2>2. backend' = backend
    BY <1>25 DEF Releases, mainVars
  <2> QED
    BY <2>1, <2>2 DEF Objects, BackendThere, EngineThere, EngineGone, Follows, Turns, Edge, Goals
<1>26. ASSUME StartsTrace PROVE (BackendThere <=> backend # None)'
  <2>1. Follows("start_trace")
    BY <1>26, PlainSteps
  <2>2. backend' = backend
    BY <1>26 DEF StartsTrace, mainVars
  <2> QED
    BY <2>1, <2>2 DEF Objects, BackendThere, EngineThere, EngineGone, Follows, Turns, Edge, Goals
<1>27. ASSUME CancelsTrace PROVE (BackendThere <=> backend # None)'
  <2>1. Follows("cancel_trace")
    BY <1>27, PlainSteps
  <2>2. backend' = backend
    BY <1>27 DEF CancelsTrace, mainVars
  <2> QED
    BY <2>1, <2>2 DEF Objects, BackendThere, EngineThere, EngineGone, Follows, Turns, Edge, Goals
<1>28. ASSUME JoinsTrace PROVE (BackendThere <=> backend # None)'
  <2>1. Follows("join_trace")
    BY <1>28, PlainSteps
  <2>2. backend' = backend
    BY <1>28 DEF JoinsTrace, mainVars
  <2> QED
    BY <2>1, <2>2 DEF Objects, BackendThere, EngineThere, EngineGone, Follows, Turns, Edge, Goals
<1>29. ASSUME Click PROVE (BackendThere <=> backend # None)'
  <2>1. At = "frame" /\ At' \in {"start_demo", "open_relay", "stop_pumps", "start_trace", "cancel_trace"}
        /\ (At' = "cancel_trace" => Goal' = "start_trace")
    BY <1>29, ClickStartFlows, ClickStopFlows, ClickBackendFlows, ClickTraceFlows, CloseWindowFlows
       DEF Click, Turns
  <2>2. backend' = backend
    BY <1>29, ClickIsSmall DEF mainVars
  <2> QED
    BY <2>1, <2>2 DEF Objects, BackendThere, EngineThere, EngineGone
<1>30. ASSUME ThreadsStep PROVE (BackendThere <=> backend # None)'
  <2>1. backend' = backend /\ At' = At /\ Goal' = Goal
    BY <1>30, ThreadsKeep DEF mainVars
  <2> QED
    BY <2>1 DEF Objects, BackendThere, EngineThere, EngineGone
<1> QED
  BY <1>1, <1>2, <1>3, <1>4, <1>5, <1>6, <1>7, <1>8, <1>9, <1>10, <1>11, <1>12, <1>13, <1>14, <1>15,
     <1>16, <1>17, <1>18, <1>19, <1>20, <1>21, <1>22, <1>23, <1>24, <1>25, <1>26, <1>27, <1>28, <1>29,
     <1>30
     DEF LifecycleNext, Main, Startup, Starting, Stopping, Tracing

\* Where the GUI thread starts from and where it ends, where it waits for nothing else, and what
\* stands between.
LEMMA Arrivals ==
  ASSUME Program(todo), Main
  PROVE  /\ At' # "acquire" /\ (At' = "create_engine" => Acquires)
         /\ At' = "start_trace" => JoinsTrace
<1>1. ASSUME Acquires
     PROVE  At' # "acquire" /\ (At' = "create_engine" => Acquires) /\ (At' = "start_trace" => JoinsTrace)
  <2>1. Follows("acquire")
    BY <1>1, PlainSteps
  <2> QED
    BY <1>1, <2>1 DEF Follows, Turns, Edge, Goals
<1>2. ASSUME CreatesEngine
     PROVE  At' # "acquire" /\ (At' = "create_engine" => Acquires) /\ (At' = "start_trace" => JoinsTrace)
  <2>1. Follows("create_engine") \/ Turns("create_engine", "end", "end")
    BY <1>2, CreatesEngineFlows DEF CreatesEngine
  <2> QED
    BY <1>2, <2>1 DEF Follows, Turns, Edge, Goals
<1>3. ASSUME OpensWindow
     PROVE  At' # "acquire" /\ (At' = "create_engine" => Acquires) /\ (At' = "start_trace" => JoinsTrace)
  <2>1. Follows("open_window") \/ Turns("open_window", "stop_pumps", "end")
    BY <1>3, OpensWindowFlows DEF OpensWindow
  <2> QED
    BY <1>3, <2>1 DEF Follows, Turns, Edge, Goals
<1>4. ASSUME CreatesApp
     PROVE  At' # "acquire" /\ (At' = "create_engine" => Acquires) /\ (At' = "start_trace" => JoinsTrace)
  <2>1. Follows("create_app") \/ Turns("create_app", "stop_pumps", "end")
    BY <1>4, CreatesAppFlows DEF CreatesApp
  <2> QED
    BY <1>4, <2>1 DEF Follows, Turns, Edge, Goals
<1>5. ASSUME OpensRelay
     PROVE  At' # "acquire" /\ (At' = "create_engine" => Acquires) /\ (At' = "start_trace" => JoinsTrace)
  <2>1. Follows("open_relay") \/ Turns("open_relay", "frame", "frame")
    BY <1>5, OpensRelayFlows DEF OpensRelay
  <2> QED
    BY <1>5, <2>1 DEF Follows, Turns, Edge, Goals
<1>6. ASSUME CreatesNat
     PROVE  At' # "acquire" /\ (At' = "create_engine" => Acquires) /\ (At' = "start_trace" => JoinsTrace)
  <2>1. Follows("create_nat") \/ Turns("create_nat", "close_listener", "free_relay")
    BY <1>6, CreatesNatFlows DEF CreatesNat
  <2> QED
    BY <1>6, <2>1 DEF Follows, Turns, Edge, Goals
<1>7. ASSUME OpensNet
     PROVE  At' # "acquire" /\ (At' = "create_engine" => Acquires) /\ (At' = "start_trace" => JoinsTrace)
  <2>1. Follows("open_net") \/ Turns("open_net", "free_nat", "free_relay")
    BY <1>7, OpensNetFlows DEF OpensNet
  <2> QED
    BY <1>7, <2>1 DEF Follows, Turns, Edge, Goals
<1>8. ASSUME NEW p \in Pumps, StartsPump(p)
     PROVE  At' # "acquire" /\ (At' = "create_engine" => Acquires) /\ (At' = "start_trace" => JoinsTrace)
  <2>1. Follows(StartOf(p)) \/ Turns(StartOf(p), "frame", "frame")
    BY <1>8, StartsPumpFlows DEF StartsPump
  <2> QED
    BY <1>8, <2>1 DEF Follows, Turns, Edge, Goals, StartOf
<1>9. ASSUME StartsDemo
     PROVE  At' # "acquire" /\ (At' = "create_engine" => Acquires) /\ (At' = "start_trace" => JoinsTrace)
  <2>1. Follows("start_demo")
    BY <1>9, PlainSteps
  <2> QED
    BY <1>9, <2>1 DEF Follows, Turns, Edge, Goals
<1>10. ASSUME Started
     PROVE  At' # "acquire" /\ (At' = "create_engine" => Acquires) /\ (At' = "start_trace" => JoinsTrace)
  <2>1. Follows("started")
    BY <1>10, PlainSteps
  <2> QED
    BY <1>10, <2>1 DEF Follows, Turns, Edge, Goals
<1>11. ASSUME StopsPumps
     PROVE  At' # "acquire" /\ (At' = "create_engine" => Acquires) /\ (At' = "start_trace" => JoinsTrace)
  <2>1. Follows("stop_pumps")
    BY <1>11, PlainSteps
  <2> QED
    BY <1>11, <2>1 DEF Follows, Turns, Edge, Goals
<1>12. ASSUME JoinsPumps
     PROVE  At' # "acquire" /\ (At' = "create_engine" => Acquires) /\ (At' = "start_trace" => JoinsTrace)
  <2>1. Follows("join_pumps")
    BY <1>12, PlainSteps
  <2> QED
    BY <1>12, <2>1 DEF Follows, Turns, Edge, Goals
<1>13. ASSUME ClosesListener
     PROVE  At' # "acquire" /\ (At' = "create_engine" => Acquires) /\ (At' = "start_trace" => JoinsTrace)
  <2>1. Follows("close_listener")
    BY <1>13, PlainSteps
  <2> QED
    BY <1>13, <2>1 DEF Follows, Turns, Edge, Goals
<1>14. ASSUME JoinsAcceptor
     PROVE  At' # "acquire" /\ (At' = "create_engine" => Acquires) /\ (At' = "start_trace" => JoinsTrace)
  <2>1. Follows("join_acceptor")
    BY <1>14, PlainSteps
  <2> QED
    BY <1>14, <2>1 DEF Follows, Turns, Edge, Goals
<1>15. ASSUME JoinsWorkers
     PROVE  At' # "acquire" /\ (At' = "create_engine" => Acquires) /\ (At' = "start_trace" => JoinsTrace)
  <2>1. Follows("join_workers")
    BY <1>15, PlainSteps
  <2> QED
    BY <1>15, <2>1 DEF Follows, Turns, Edge, Goals
<1>16. ASSUME FreesRelay
     PROVE  At' # "acquire" /\ (At' = "create_engine" => Acquires) /\ (At' = "start_trace" => JoinsTrace)
  <2>1. Follows("free_relay")
    BY <1>16, PlainSteps
  <2> QED
    BY <1>16, <2>1 DEF Follows, Turns, Edge, Goals
<1>17. ASSUME FreesNat
     PROVE  At' # "acquire" /\ (At' = "create_engine" => Acquires) /\ (At' = "start_trace" => JoinsTrace)
  <2>1. Follows("free_nat")
    BY <1>17, PlainSteps
  <2> QED
    BY <1>17, <2>1 DEF Follows, Turns, Edge, Goals
<1>18. ASSUME FreesBackend
     PROVE  At' # "acquire" /\ (At' = "create_engine" => Acquires) /\ (At' = "start_trace" => JoinsTrace)
  <2>1. Follows("free_backend")
    BY <1>18, PlainSteps
  <2> QED
    BY <1>18, <2>1 DEF Follows, Turns, Edge, Goals
<1>19. ASSUME OtherBackend
     PROVE  At' # "acquire" /\ (At' = "create_engine" => Acquires) /\ (At' = "start_trace" => JoinsTrace)
  <2>1. Follows("other_backend")
    BY <1>19, PlainSteps
  <2> QED
    BY <1>19, <2>1 DEF Follows, Turns, Edge, Goals
<1>20. ASSUME Stopped
     PROVE  At' # "acquire" /\ (At' = "create_engine" => Acquires) /\ (At' = "start_trace" => JoinsTrace)
  <2>1. Follows("stopped")
    BY <1>20, PlainSteps
  <2> QED
    BY <1>20, <2>1 DEF Follows, Turns, Edge, Goals
<1>21. ASSUME StopsChecker
     PROVE  At' # "acquire" /\ (At' = "create_engine" => Acquires) /\ (At' = "start_trace" => JoinsTrace)
  <2>1. Follows("stop_checker")
    BY <1>21, PlainSteps
  <2> QED
    BY <1>21, <2>1 DEF Follows, Turns, Edge, Goals
<1>22. ASSUME JoinsChecker
     PROVE  At' # "acquire" /\ (At' = "create_engine" => Acquires) /\ (At' = "start_trace" => JoinsTrace)
  <2>1. Follows("join_checker")
    BY <1>22, PlainSteps
  <2> QED
    BY <1>22, <2>1 DEF Follows, Turns, Edge, Goals
<1>23. ASSUME DropsSink
     PROVE  At' # "acquire" /\ (At' = "create_engine" => Acquires) /\ (At' = "start_trace" => JoinsTrace)
  <2>1. Follows("drop_sink")
    BY <1>23, PlainSteps
  <2> QED
    BY <1>23, <2>1 DEF Follows, Turns, Edge, Goals
<1>24. ASSUME FreesApp
     PROVE  At' # "acquire" /\ (At' = "create_engine" => Acquires) /\ (At' = "start_trace" => JoinsTrace)
  <2>1. Follows("free_app")
    BY <1>24, PlainSteps
  <2> QED
    BY <1>24, <2>1 DEF Follows, Turns, Edge, Goals
<1>25. ASSUME Releases
     PROVE  At' # "acquire" /\ (At' = "create_engine" => Acquires) /\ (At' = "start_trace" => JoinsTrace)
  <2>1. Follows("release_engine") \/ Follows("release_main")
    BY <1>25, PlainSteps
  <2> QED
    BY <1>25, <2>1 DEF Follows, Turns, Edge, Goals
<1>26. ASSUME StartsTrace
     PROVE  At' # "acquire" /\ (At' = "create_engine" => Acquires) /\ (At' = "start_trace" => JoinsTrace)
  <2>1. Follows("start_trace")
    BY <1>26, PlainSteps
  <2> QED
    BY <1>26, <2>1 DEF Follows, Turns, Edge, Goals
<1>27. ASSUME CancelsTrace
     PROVE  At' # "acquire" /\ (At' = "create_engine" => Acquires) /\ (At' = "start_trace" => JoinsTrace)
  <2>1. Follows("cancel_trace")
    BY <1>27, PlainSteps
  <2> QED
    BY <1>27, <2>1 DEF Follows, Turns, Edge, Goals
<1>28. ASSUME JoinsTrace
     PROVE  At' # "acquire" /\ (At' = "create_engine" => Acquires) /\ (At' = "start_trace" => JoinsTrace)
  <2>1. Follows("join_trace")
    BY <1>28, PlainSteps
  <2> QED
    BY <1>28, <2>1 DEF Follows, Turns, Edge, Goals
<1> QED
  BY <1>1, <1>2, <1>3, <1>4, <1>5, <1>6, <1>7, <1>8, <1>9, <1>10, <1>11, <1>12, <1>13, <1>14, <1>15,
     <1>16, <1>17, <1>18, <1>19, <1>20, <1>21, <1>22, <1>23, <1>24, <1>25, <1>26, <1>27, <1>28
     DEF Main, Startup, Starting, Stopping, Tracing

\* The relay the backend knows is one that has not been freed.
LEMMA OwnIsAlive ==
  ASSUME Program(todo), Types, Objects, LifecycleNext
  PROVE  (Own # None => relays[Own].alive)'
<1> USE DEF mainVars, relayVars
<1>1. CASE OpensRelay
  <2>1. backend \in Backends /\ backend' \in Backends
    BY <1>1, BackendStays
  <2>2. CASE UNCHANGED <<relays, backend>>
    BY <2>2 DEF Objects, Own
  <2>3. ASSUME NEW r \in Relays,
               relays' = [relays EXCEPT ![r] = [alive |-> TRUE, running |-> TRUE, pending |-> FALSE]],
               backend' = [backend EXCEPT !.relay = r]
        PROVE  (Own # None => relays[Own].alive)'
    <3>1. relays'[r].alive
      BY <2>3 DEF Types
    <3>2. Own' = r
      BY <2>1, <2>3, LifecycleAssumption DEF Own, Backends
    <3> QED
      BY <3>1, <3>2
  <2> QED
    BY <1>1, <2>2, <2>3 DEF OpensRelay
<1>2. CASE FreesRelay
  <2>1. backend \in Backends /\ backend' \in Backends
    BY <1>2, BackendStays
  <2>2. Own' = None
    <3>1. CASE Own = None
      BY <1>2, <3>1 DEF FreesRelay, Own
    <3>2. CASE Own # None
      <4>1. backend' = [backend EXCEPT !.relay = None]
        BY <1>2, <3>2 DEF FreesRelay
      <4> QED
        BY <2>1, <4>1 DEF Own, Backends
    <3> QED
      BY <3>1, <3>2
  <2> QED
    BY <2>2
<1>3. CASE CreatesEngine
  BY <1>3 DEF CreatesEngine, Own, Objects
<1>4. CASE OtherBackend
  BY <1>4 DEF OtherBackend, Own
<1>5. CASE FreesBackend
  BY <1>5 DEF FreesBackend, Own
<1>6. CASE ClosesListener
  <2>1. Own' = Own
    BY <1>6 DEF ClosesListener, Own
  <2>2. \A r \in Relays : relays'[r].alive = relays[r].alive
    BY <1>6 DEF ClosesListener, Types, RelayRecs
  <2>3. Own # None => Own \in Relays
    BY DEF Own, Types, Backends
  <2> QED
    BY <2>1, <2>2, <2>3 DEF Objects
<1>7. CASE ThreadsStep
  <2>1. Own' = Own /\ \A r \in Relays : relays'[r].alive = relays[r].alive
    BY <1>7, ThreadsKeep
  <2>2. Own # None => Own \in Relays
    BY DEF Own, Types, Backends
  <2> QED
    BY <2>1, <2>2 DEF Objects
<1>8. CASE CreatesNat \/ OpensNet \/ (\E p \in Pumps : StartsPump(p)) \/ StartsDemo \/ StopsPumps \/ FreesNat
  <2>1. backend \in Backends /\ backend' \in Backends
    BY <1>8, BackendStays
  <2>2. relays' = relays
    BY <1>8 DEF CreatesNat, OpensNet, StartsPump, StartsDemo, StopsPumps, FreesNat
  <2>3. backend'.relay = backend.relay
    BY <1>8, <2>1 DEF CreatesNat, OpensNet, StartsPump, StartsDemo, StopsPumps, FreesNat, Backends
  <2>4. Own' = Own
    BY <2>1, <2>3, LifecycleAssumption DEF Own
  <2> QED
    BY <2>2, <2>4 DEF Objects
<1>9. CASE \/ Acquires \/ OpensWindow \/ CreatesApp \/ Started \/ JoinsPumps \/ JoinsAcceptor \/ JoinsWorkers
           \/ Stopped \/ StopsChecker \/ JoinsChecker \/ DropsSink \/ FreesApp \/ Releases \/ Tracing \/ Click
  <2>1. backend' = backend /\ relays' = relays
    BY <1>9, ClickIsSmall
       DEF Acquires, OpensWindow, CreatesApp, Started, JoinsPumps, JoinsAcceptor, JoinsWorkers, Stopped,
           StopsChecker, JoinsChecker, DropsSink, FreesApp, Releases, Tracing, StartsTrace, CancelsTrace, JoinsTrace
  <2> QED
    BY <2>1 DEF Own, Objects
<1> QED
  BY <1>1, <1>2, <1>3, <1>4, <1>5, <1>6, <1>7, <1>8, <1>9
     DEF LifecycleNext, Main, Startup, Starting, Stopping

\* The checker has not been made while the program starts, and a scan starts when the one before
\* has been freed.
LEMMA StartsFresh ==
  ASSUME Program(todo), Types, Objects, LifecycleNext
  PROVE  /\ (At \in {"acquire", "create_engine"} => checker.state = "none")'
         /\ (At = "start_trace" => trace.state = "none")'
<1>1. CASE Main
  <2>1. At' \in {"acquire", "create_engine"} => checker'.state = "none"
    <3>1. Acquires => checker' = checker /\ At = "acquire"
      BY NextIsAt DEF Acquires
    <3> QED
      BY <1>1, <3>1, Arrivals DEF Objects
  <2>2. At' = "start_trace" => trace'.state = "none"
    <3>1. JoinsTrace => trace'.state = "none"
      BY DEF JoinsTrace
    <3> QED
      BY <1>1, <3>1, Arrivals
  <2> QED
    BY <2>1, <2>2
<1>2. CASE Click
  <2>1. checker' = checker /\ trace' = trace
    BY <1>2, ClickIsSmall
  <2>2. At' \notin {"acquire", "create_engine"} /\ (At' = "start_trace" => trace.state = "none")
    BY <1>2, ClickStartFlows, ClickStopFlows, ClickBackendFlows, ClickTraceFlows, CloseWindowFlows
       DEF Click, Turns
  <2> QED
    BY <2>1, <2>2
<1>3. CASE ThreadsStep
  <2>1. At' = At
    BY <1>3, ThreadsKeep
  <2>2. (checker.state = "none" => checker' = checker) /\ (trace.state = "none" => trace' = trace)
    BY <1>3 DEF ThreadsStep, PumpLogs, PumpLogged, PumpRegisters, PumpEnds, Accepts, Serves,
         AcceptorLogged, AcceptorEnds,
         Dials, Logs, Moves, Moved, FlowEnds, Quiet, Calls, Marks, Worker, CheckerStep, TraceStep
  <2> QED
    BY <2>1, <2>2 DEF Objects
<1> QED
  BY <1>1, <1>2, <1>3 DEF LifecycleNext

\* What there is at each step stays true of every step.
LEMMA ObjectsKept ==
  ASSUME Program(todo), Types, Objects, LifecycleNext
  PROVE  Objects'
BY BackendWhere, OwnIsAlive, StartsFresh DEF Objects

-----------------------------------------------------------------------------
(* Winsock's users.                                                        *)

\* The relays that are open can be counted.
LEMMA LiveCount ==
  ASSUME Types
  PROVE  /\ IsFiniteSet(LiveRelays) /\ Cardinality(LiveRelays) \in Nat
         /\ (\E r \in Relays : relays[r].alive) => Cardinality(LiveRelays) > 0
<1>1. IsFiniteSet(LiveRelays)
  BY FS_Subset, LifecycleAssumption DEF LiveRelays
<1>2. Cardinality(LiveRelays) \in Nat
  BY <1>1, FS_CardinalityType
<1>3. (\E r \in Relays : relays[r].alive) => Cardinality(LiveRelays) # 0
  BY <1>1, FS_EmptySet DEF LiveRelays
<1> QED
  BY <1>1, <1>2, <1>3

\* A step with as many users as before, or fewer, and the same count.
LEMMA SameUsers ==
  ASSUME Types, refs >= Held, refs' = refs,
         MainThere' => MainThere, EngineThere' => EngineThere,
         \A r \in Relays : relays'[r].alive = relays[r].alive,
         checker'.state = "check" => checker.state = "check",
         trace'.state = "run" => trace.state = "run"
  PROVE  (refs >= Held)'
<1>1. LiveRelays' = LiveRelays
  BY DEF LiveRelays
<1>2. Cardinality(LiveRelays) \in Nat /\ refs \in Nat
  BY LiveCount DEF Types
<1> QED
  BY <1>1, <1>2 DEF Held, One

\* The steps that leave the count alone let nobody in.
LEMMA NobodyEnters ==
  ASSUME Program(todo), OpensWindow \/ CreatesApp \/ CreatesNat \/ OpensNet \/ (\E p \in Pumps : StartsPump(p))
         \/ StartsDemo \/ Started \/ StopsPumps \/ JoinsPumps \/ ClosesListener \/ JoinsAcceptor \/ JoinsWorkers
         \/ FreesNat \/ FreesBackend \/ OtherBackend \/ Stopped \/ StopsChecker \/ JoinsChecker
         \/ DropsSink \/ FreesApp \/ Tracing
  PROVE  (MainThere' => MainThere) /\ (EngineThere' => EngineThere)
<1>1. ASSUME OpensWindow PROVE (MainThere' => MainThere) /\ (EngineThere' => EngineThere)
  <2>1. Follows("open_window") \/ Turns("open_window", "stop_pumps", "end")
    BY <1>1, OpensWindowFlows DEF OpensWindow
  <2> QED
    BY <2>1 DEF MainThere, EngineThere, EngineGone, Follows, Turns, Edge, Goals
<1>2. ASSUME CreatesApp PROVE (MainThere' => MainThere) /\ (EngineThere' => EngineThere)
  <2>1. Follows("create_app") \/ Turns("create_app", "stop_pumps", "end")
    BY <1>2, CreatesAppFlows DEF CreatesApp
  <2> QED
    BY <2>1 DEF MainThere, EngineThere, EngineGone, Follows, Turns, Edge, Goals
<1>3. ASSUME CreatesNat PROVE (MainThere' => MainThere) /\ (EngineThere' => EngineThere)
  <2>1. Follows("create_nat") \/ Turns("create_nat", "close_listener", "free_relay")
    BY <1>3, CreatesNatFlows DEF CreatesNat
  <2> QED
    BY <2>1 DEF MainThere, EngineThere, EngineGone, Follows, Turns, Edge, Goals
<1>4. ASSUME OpensNet PROVE (MainThere' => MainThere) /\ (EngineThere' => EngineThere)
  <2>1. Follows("open_net") \/ Turns("open_net", "free_nat", "free_relay")
    BY <1>4, OpensNetFlows DEF OpensNet
  <2> QED
    BY <2>1 DEF MainThere, EngineThere, EngineGone, Follows, Turns, Edge, Goals
<1>5. ASSUME NEW p \in Pumps, StartsPump(p) PROVE (MainThere' => MainThere) /\ (EngineThere' => EngineThere)
  <2>1. Follows(StartOf(p)) \/ Turns(StartOf(p), "frame", "frame")
    BY <1>5, StartsPumpFlows DEF StartsPump
  <2> QED
    BY <2>1 DEF MainThere, EngineThere, EngineGone, Follows, Turns, Edge, Goals, StartOf
<1>6. ASSUME StartsDemo PROVE (MainThere' => MainThere) /\ (EngineThere' => EngineThere)
  <2>1. Follows("start_demo")
    BY <1>6, PlainSteps
  <2> QED
    BY <2>1 DEF MainThere, EngineThere, EngineGone, Follows, Turns, Edge, Goals
<1>7. ASSUME Started PROVE (MainThere' => MainThere) /\ (EngineThere' => EngineThere)
  <2>1. Follows("started")
    BY <1>7, PlainSteps
  <2> QED
    BY <2>1 DEF MainThere, EngineThere, EngineGone, Follows, Turns, Edge, Goals
<1>8. ASSUME StopsPumps PROVE (MainThere' => MainThere) /\ (EngineThere' => EngineThere)
  <2>1. Follows("stop_pumps")
    BY <1>8, PlainSteps
  <2> QED
    BY <2>1 DEF MainThere, EngineThere, EngineGone, Follows, Turns, Edge, Goals
<1>9. ASSUME JoinsPumps PROVE (MainThere' => MainThere) /\ (EngineThere' => EngineThere)
  <2>1. Follows("join_pumps")
    BY <1>9, PlainSteps
  <2> QED
    BY <2>1 DEF MainThere, EngineThere, EngineGone, Follows, Turns, Edge, Goals
<1>10. ASSUME ClosesListener PROVE (MainThere' => MainThere) /\ (EngineThere' => EngineThere)
  <2>1. Follows("close_listener")
    BY <1>10, PlainSteps
  <2> QED
    BY <2>1 DEF MainThere, EngineThere, EngineGone, Follows, Turns, Edge, Goals
<1>11. ASSUME JoinsAcceptor PROVE (MainThere' => MainThere) /\ (EngineThere' => EngineThere)
  <2>1. Follows("join_acceptor")
    BY <1>11, PlainSteps
  <2> QED
    BY <2>1 DEF MainThere, EngineThere, EngineGone, Follows, Turns, Edge, Goals
<1>12. ASSUME JoinsWorkers PROVE (MainThere' => MainThere) /\ (EngineThere' => EngineThere)
  <2>1. Follows("join_workers")
    BY <1>12, PlainSteps
  <2> QED
    BY <2>1 DEF MainThere, EngineThere, EngineGone, Follows, Turns, Edge, Goals
<1>13. ASSUME FreesNat PROVE (MainThere' => MainThere) /\ (EngineThere' => EngineThere)
  <2>1. Follows("free_nat")
    BY <1>13, PlainSteps
  <2> QED
    BY <2>1 DEF MainThere, EngineThere, EngineGone, Follows, Turns, Edge, Goals
<1>14. ASSUME FreesBackend PROVE (MainThere' => MainThere) /\ (EngineThere' => EngineThere)
  <2>1. Follows("free_backend")
    BY <1>14, PlainSteps
  <2> QED
    BY <2>1 DEF MainThere, EngineThere, EngineGone, Follows, Turns, Edge, Goals
<1>15. ASSUME OtherBackend PROVE (MainThere' => MainThere) /\ (EngineThere' => EngineThere)
  <2>1. Follows("other_backend")
    BY <1>15, PlainSteps
  <2> QED
    BY <2>1 DEF MainThere, EngineThere, EngineGone, Follows, Turns, Edge, Goals
<1>16. ASSUME Stopped PROVE (MainThere' => MainThere) /\ (EngineThere' => EngineThere)
  <2>1. Follows("stopped")
    BY <1>16, PlainSteps
  <2> QED
    BY <2>1 DEF MainThere, EngineThere, EngineGone, Follows, Turns, Edge, Goals
<1>17. ASSUME StopsChecker PROVE (MainThere' => MainThere) /\ (EngineThere' => EngineThere)
  <2>1. Follows("stop_checker")
    BY <1>17, PlainSteps
  <2> QED
    BY <2>1 DEF MainThere, EngineThere, EngineGone, Follows, Turns, Edge, Goals
<1>18. ASSUME JoinsChecker PROVE (MainThere' => MainThere) /\ (EngineThere' => EngineThere)
  <2>1. Follows("join_checker")
    BY <1>18, PlainSteps
  <2> QED
    BY <2>1 DEF MainThere, EngineThere, EngineGone, Follows, Turns, Edge, Goals
<1>19. ASSUME DropsSink PROVE (MainThere' => MainThere) /\ (EngineThere' => EngineThere)
  <2>1. Follows("drop_sink")
    BY <1>19, PlainSteps
  <2> QED
    BY <2>1 DEF MainThere, EngineThere, EngineGone, Follows, Turns, Edge, Goals
<1>20. ASSUME FreesApp PROVE (MainThere' => MainThere) /\ (EngineThere' => EngineThere)
  <2>1. Follows("free_app")
    BY <1>20, PlainSteps
  <2> QED
    BY <2>1 DEF MainThere, EngineThere, EngineGone, Follows, Turns, Edge, Goals
<1>21. ASSUME StartsTrace PROVE (MainThere' => MainThere) /\ (EngineThere' => EngineThere)
  <2>1. Follows("start_trace")
    BY <1>21, PlainSteps
  <2> QED
    BY <2>1 DEF MainThere, EngineThere, EngineGone, Follows, Turns, Edge, Goals
<1>22. ASSUME CancelsTrace PROVE (MainThere' => MainThere) /\ (EngineThere' => EngineThere)
  <2>1. Follows("cancel_trace")
    BY <1>22, PlainSteps
  <2> QED
    BY <2>1 DEF MainThere, EngineThere, EngineGone, Follows, Turns, Edge, Goals
<1>23. ASSUME JoinsTrace PROVE (MainThere' => MainThere) /\ (EngineThere' => EngineThere)
  <2>1. Follows("join_trace")
    BY <1>23, PlainSteps
  <2> QED
    BY <2>1 DEF MainThere, EngineThere, EngineGone, Follows, Turns, Edge, Goals
<1> QED
  BY <1>1, <1>2, <1>3, <1>4, <1>5, <1>6, <1>7, <1>8, <1>9, <1>10, <1>11, <1>12, <1>13, <1>14, <1>15,
     <1>16, <1>17, <1>18, <1>19, <1>20, <1>21, <1>22, <1>23
     DEF Tracing

\* What those steps do to the relays, the checker and the trace.
LEMMA NobodyCounts ==
  ASSUME Types, OpensWindow \/ CreatesApp \/ CreatesNat \/ OpensNet \/ (\E p \in Pumps : StartsPump(p))
         \/ StartsDemo \/ Started \/ StopsPumps \/ JoinsPumps \/ ClosesListener \/ JoinsAcceptor \/ JoinsWorkers
         \/ FreesNat \/ FreesBackend \/ OtherBackend \/ Stopped \/ StopsChecker \/ JoinsChecker
         \/ DropsSink \/ FreesApp \/ Tracing
  PROVE  /\ refs' = refs
         /\ \A r \in Relays : relays'[r].alive = relays[r].alive
         /\ checker'.state = checker.state
         /\ trace'.state = "run" => trace.state = "run"
<1> USE DEF relayVars
<1>1. CASE ClosesListener
  BY <1>1 DEF ClosesListener, Types, RelayRecs
<1>2. CASE StopsChecker
  BY <1>2 DEF StopsChecker, Types, Checkers
<1>3. CASE Tracing
  BY <1>3 DEF Tracing, StartsTrace, CancelsTrace, JoinsTrace, Types, Traces
<1>4. CASE \/ OpensWindow \/ CreatesApp \/ CreatesNat \/ OpensNet \/ (\E p \in Pumps : StartsPump(p))
           \/ StartsDemo \/ Started \/ StopsPumps \/ JoinsPumps \/ JoinsAcceptor \/ JoinsWorkers \/ FreesNat
           \/ FreesBackend \/ OtherBackend \/ Stopped \/ JoinsChecker \/ DropsSink \/ FreesApp
  BY <1>4 DEF OpensWindow, CreatesApp, CreatesNat, OpensNet, StartsPump, StartsDemo, Started, StopsPumps,
              JoinsPumps, JoinsAcceptor, JoinsWorkers, FreesNat, FreesBackend, OtherBackend, Stopped,
              JoinsChecker, DropsSink, FreesApp
<1> QED
  BY <1>1, <1>2, <1>3, <1>4

\* The count is never below the number of the users.
LEMMA CountKept ==
  ASSUME CountInv, LifecycleNext
  PROVE  (refs >= Held)'
<1> USE DEF CountInv, TypeOK
<1>1. refs \in Nat /\ Cardinality(LiveRelays) \in Nat /\ IsFiniteSet(LiveRelays)
  BY LiveCount DEF Types
<1>2. CASE Acquires
  <2>1. Follows("acquire")
    BY <1>2, PlainSteps
  <2>2. ~MainThere /\ MainThere' /\ ~EngineThere /\ ~EngineThere'
    BY <2>1 DEF MainThere, EngineThere, EngineGone, Follows, Edge, Goals
  <2>3. refs' = refs + 1 /\ UNCHANGED <<relays, checker, trace>>
    BY <1>2 DEF Acquires, Acquire, relayVars
  <2>4. LiveRelays' = LiveRelays
    BY <2>3 DEF LiveRelays
  <2> QED
    BY <1>1, <2>2, <2>3, <2>4 DEF Held, One
<1>3. CASE CreatesEngine
  <2>1. UNCHANGED <<relays, trace>>
    BY <1>3 DEF CreatesEngine, relayVars
  <2>2. LiveRelays' = LiveRelays
    BY <2>1 DEF LiveRelays
  <2>3. CASE Done /\ Acquire /\ checker' = [state |-> "wait", running |-> TRUE]
    <3>1. Follows("create_engine")
      BY <1>3, <2>3, CreatesEngineFlows
    <3>2. MainThere /\ MainThere' /\ ~EngineThere /\ EngineThere'
      BY <3>1 DEF MainThere, EngineThere, EngineGone, Follows, Edge, Goals
    <3>3. refs' = refs + 1 /\ checker'.state # "check"
      BY <2>3 DEF Acquire
    <3> QED
      BY <1>1, <2>1, <2>2, <3>2, <3>3 DEF Held, One
  <2>4. CASE Instead(<<"end">>) /\ UNCHANGED <<refs, checker>>
    <3>1. Turns("create_engine", "end", "end")
      BY <1>3, <2>4, CreatesEngineFlows
    <3>2. ~MainThere' /\ ~EngineThere'
      BY <3>1 DEF MainThere, EngineThere, EngineGone, Turns
    <3> QED
      BY <1>1, <2>1, <2>2, <2>4, <3>2 DEF Held, One
  <2> QED
    BY <1>3, <2>3, <2>4 DEF CreatesEngine
<1>4. CASE Releases
  <2>1. Release /\ UNCHANGED <<relays, checker, trace>>
    BY <1>4 DEF Releases, relayVars
  <2>2. LiveRelays' = LiveRelays
    BY <2>1 DEF LiveRelays
  <2>3. \/ MainThere /\ MainThere' /\ EngineThere /\ ~EngineThere'
        \/ MainThere /\ ~MainThere' /\ ~EngineThere /\ ~EngineThere'
    <3>1. Follows("release_engine") \/ Follows("release_main")
      BY <1>4, PlainSteps
    <3> QED
      BY <3>1 DEF MainThere, EngineThere, EngineGone, Follows, Edge, Goals
  <2>4. refs > 0 /\ refs' = refs - 1
    <3>1. refs > 0
      BY <1>1, <2>3 DEF Held, One
    <3> QED
      BY <1>1, <2>1, <3>1 DEF Release
  <2> QED
    BY <1>1, <2>1, <2>2, <2>3, <2>4 DEF Held, One
<1>5. CASE OpensRelay
  <2>1. UNCHANGED <<checker, trace>>
    BY <1>5 DEF OpensRelay
  <2>2. (MainThere' => MainThere) /\ (EngineThere' => EngineThere)
    <3>1. Follows("open_relay") \/ Turns("open_relay", "frame", "frame")
      BY <1>5, OpensRelayFlows DEF OpensRelay
    <3> QED
      BY <3>1 DEF MainThere, EngineThere, EngineGone, Follows, Turns, Edge, Goals
  <2>3. CASE UNCHANGED <<relays, refs>>
    BY <2>1, <2>2, <2>3, SameUsers
  <2>4. ASSUME NEW r \in Relays, ~relays[r].alive, Acquire,
               relays' = [relays EXCEPT ![r] = [alive |-> TRUE, running |-> TRUE, pending |-> FALSE]]
        PROVE  (refs >= Held)'
    <3>1. LiveRelays' = LiveRelays \cup {r} /\ r \notin LiveRelays
      BY <2>4 DEF LiveRelays, Types
    <3>2. Cardinality(LiveRelays') = Cardinality(LiveRelays) + 1
      BY <1>1, <3>1, FS_AddElement
    <3> QED
      BY <1>1, <2>1, <2>2, <2>4, <3>2 DEF Held, One, Acquire
  <2> QED
    BY <1>5, <2>3, <2>4 DEF OpensRelay, RelayFails
<1>6. CASE FreesRelay
  <2>1. UNCHANGED <<checker, trace>>
    BY <1>6 DEF FreesRelay
  <2>2. (MainThere' => MainThere) /\ (EngineThere' => EngineThere)
    <3>1. Follows("free_relay")
      BY <1>6, PlainSteps
    <3> QED
      BY <3>1 DEF MainThere, EngineThere, EngineGone, Follows, Edge, Goals
  <2>3. CASE Own = None
    BY <1>6, <2>1, <2>2, <2>3, SameUsers DEF FreesRelay
  <2>4. CASE Own # None
    <3>1. relays' = [relays EXCEPT ![Own].alive = FALSE] /\ Release
      BY <1>6, <2>4 DEF FreesRelay
    <3>2. Own \in Relays
      BY <2>4 DEF Own, Types, Backends
    <3>3. relays[Own].alive
      BY <2>4 DEF Objects
    <3>4. LiveRelays' = LiveRelays \ {Own} /\ Own \in LiveRelays
      BY <3>1, <3>2, <3>3 DEF LiveRelays, Types, RelayRecs
    <3>5. Cardinality(LiveRelays') = Cardinality(LiveRelays) - 1 /\ Cardinality(LiveRelays) > 0
      BY <1>1, <3>4, FS_RemoveElement, FS_EmptySet
    <3>6. refs > 0 /\ refs' = refs - 1
      <4>1. refs > 0
        BY <1>1, <3>5 DEF Held, One
      <4> QED
        BY <1>1, <3>1, <4>1 DEF Release
    <3> QED
      BY <1>1, <2>1, <2>2, <3>5, <3>6 DEF Held, One
  <2> QED
    BY <2>3, <2>4
<1>7. CASE Click
  <2>1. UNCHANGED <<relays, checker, trace, refs>>
    BY <1>7, ClickIsSmall DEF relayVars
  <2>2. MainThere /\ EngineThere
    BY <1>7, FrameIsAt DEF Click, ClickStart, ClickStop, ClickBackend, ClickTrace, CloseWindow,
                           MainThere, EngineThere, EngineGone
  <2> QED
    BY <2>1, <2>2, SameUsers
<1>8. CASE CheckerStep \/ TraceStep
  <2>1. At' = At /\ Goal' = Goal /\ UNCHANGED relays
    <3>1. ThreadsStep
      BY <1>8 DEF ThreadsStep
    <3> QED
      BY <1>8, <3>1, ThreadsKeep DEF CheckerStep, TraceStep, relayVars
  <2>2. LiveRelays' = LiveRelays /\ MainThere' = MainThere /\ EngineThere' = EngineThere
    BY <2>1 DEF LiveRelays, MainThere, EngineThere, EngineGone
  <2>3. CASE CheckerStep
    <3>1. trace' = trace
      BY <2>3 DEF CheckerStep
    <3>2. \/ checker.state # "check" /\ checker'.state = "check" /\ Acquire
          \/ checker.state = "check" /\ checker'.state # "check" /\ Release
          \/ checker.state # "check" /\ checker'.state # "check" /\ UNCHANGED refs
      BY <2>3 DEF CheckerStep, Types, Checkers
    <3> QED
      BY <1>1, <2>2, <3>1, <3>2 DEF Held, One, Acquire, Release
  <2>4. CASE TraceStep
    <3>1. checker' = checker
      BY <2>4 DEF TraceStep
    <3>2. \/ trace.state # "run" /\ trace'.state = "run" /\ Acquire
          \/ trace.state = "run" /\ trace'.state # "run" /\ Release
      BY <2>4 DEF TraceStep, Types, Traces
    <3> QED
      BY <1>1, <2>2, <3>1, <3>2 DEF Held, One, Acquire, Release
  <2> QED
    BY <1>8, <2>3, <2>4
<1>9. CASE ThreadsStep /\ ~CheckerStep /\ ~TraceStep
  <2>1. At' = At /\ Goal' = Goal /\ \A r \in Relays : relays'[r].alive = relays[r].alive
    BY <1>9, ThreadsKeep
  <2>2. UNCHANGED <<refs, checker, trace>>
    BY <1>9 DEF ThreadsStep, PumpLogs, PumpLogged, PumpRegisters, PumpEnds, Accepts, Serves,
         AcceptorLogged, AcceptorEnds,
         Dials, Logs, Moves, Moved, FlowEnds, Quiet, Calls, Marks, Worker
  <2>3. MainThere' = MainThere /\ EngineThere' = EngineThere
    BY <2>1 DEF MainThere, EngineThere, EngineGone
  <2> QED
    BY <2>1, <2>2, <2>3, SameUsers
<1>10. CASE Main /\ ~Acquires /\ ~CreatesEngine /\ ~Releases /\ ~OpensRelay /\ ~FreesRelay
  <2>1. OpensWindow \/ CreatesApp \/ CreatesNat \/ OpensNet \/ (\E p \in Pumps : StartsPump(p))
         \/ StartsDemo \/ Started \/ StopsPumps \/ JoinsPumps \/ ClosesListener \/ JoinsAcceptor \/ JoinsWorkers
         \/ FreesNat \/ FreesBackend \/ OtherBackend \/ Stopped \/ StopsChecker \/ JoinsChecker
         \/ DropsSink \/ FreesApp \/ Tracing
    BY <1>10 DEF Main, Startup, Starting, Stopping
  <2> QED
    BY <2>1, NobodyEnters, NobodyCounts, SameUsers
<1> QED
  BY <1>2, <1>3, <1>4, <1>5, <1>6, <1>7, <1>8, <1>9, <1>10 DEF LifecycleNext

\* A step that changes nothing.
LEMMA NothingMoves ==
  ASSUME UNCHANGED lifecycleVars
  PROVE  /\ At' = At /\ Goal' = Goal /\ Own' = Own
         /\ UNCHANGED <<todo, running, backend, failed, relays, acceptor, harvest, conns, pumps, trace,
                       checker, refs, app, sink>>
BY DEF lifecycleVars, mainVars, relayVars, At, Goal, Own

\* Where the program begins nothing has been made.
LEMMA InitTypes == LifecycleInit => TypeOK /\ Objects /\ At = "acquire" /\ Goal = "create_app"
<1> SUFFICES ASSUME LifecycleInit PROVE TypeOK /\ Objects /\ At = "acquire" /\ Goal = "create_app"
  OBVIOUS
<1>1. Piece("create_app", todo, "acquire", "create_app")
  BY DEF LifecycleInit, Boot, Piece, Edge, Steps
<1>2. Program(todo) /\ At = "acquire" /\ Goal = "create_app"
  BY <1>1, PieceIsAProgram DEF At, Goal, Goals
<1>3. relays \in [Relays -> RelayRecs]
  BY DEF LifecycleInit, RelayRecs
<1>4. trace \in Traces /\ checker \in Checkers
  BY DEF LifecycleInit, Traces, Checkers
<1>5. Types
  BY <1>3, <1>4 DEF LifecycleInit, Types, Free
<1>6. Objects
  BY <1>2 DEF LifecycleInit, Objects, BackendThere, EngineThere, EngineGone, Own
<1> QED
  BY <1>2, <1>5, <1>6 DEF TypeOK

\* Nobody uses Winsock before main does.
LEMMA InitCount == LifecycleInit => CountInv
<1> SUFFICES ASSUME LifecycleInit PROVE refs >= Held
  BY InitTypes DEF CountInv
<1>1. LiveRelays = {}
  BY DEF LifecycleInit, LiveRelays
<1>2. Cardinality(LiveRelays) = 0
  BY <1>1, FS_EmptySet
<1>3. ~MainThere /\ ~EngineThere
  BY InitTypes DEF MainThere, EngineThere
<1> QED
  BY <1>2, <1>3 DEF LifecycleInit, Held, One

\* The types, what there is at each step and the count are kept by every step.
LEMMA CountInvKept ==
  ASSUME CountInv, [LifecycleNext]_lifecycleVars
  PROVE  CountInv'
<1>1. CASE LifecycleNext
  <2>1. Program(todo')
    BY <1>1, ProgramKept DEF CountInv, TypeOK
  <2>2. Types'
    <3>1. CASE Click
      BY <3>1, ClickIsSmall DEF Types, mainVars, relayVars, CountInv, TypeOK
    <3> QED
      BY <1>1, <3>1, MainTypes, ThreadTypes DEF LifecycleNext, CountInv, TypeOK
  <2>3. Objects'
    BY <1>1, ObjectsKept DEF CountInv, TypeOK
  <2>4. (refs >= Held)'
    BY <1>1, CountKept
  <2> QED
    BY <2>1, <2>2, <2>3, <2>4 DEF CountInv, TypeOK
<1>2. CASE UNCHANGED lifecycleVars
  <2>1. /\ At' = At /\ Goal' = Goal /\ Own' = Own
        /\ UNCHANGED <<todo, running, backend, failed, relays, acceptor, harvest, conns, pumps, trace,
                      checker, refs, app, sink>>
    BY <1>2, NothingMoves
  <2>2. TypeOK'
    BY <2>1 DEF CountInv, TypeOK, Types
  <2>3. Objects'
    BY <2>1 DEF CountInv, Objects, BackendThere, EngineThere, EngineGone
  <2>4. (refs >= Held)'
    BY <2>1 DEF CountInv, Held, LiveRelays, MainThere, EngineThere, EngineGone
  <2> QED
    BY <2>2, <2>3, <2>4 DEF CountInv
<1> QED
  BY <1>1, <1>2

\* The program's invariant: types, what exists at each step, and a count (pmx_net.c) that is never
\* below the number of those who hold Winsock.
THEOREM CountInvHolds == LifecycleSpec => []CountInv
<1>1. LifecycleInit => CountInv
  BY InitCount
<1>2. CountInv /\ [LifecycleNext]_lifecycleVars => CountInv'
  BY CountInvKept
<1> QED
  BY <1>1, <1>2, PTL DEF LifecycleSpec

\* Whoever uses sockets holds Winsock up (pmx_net_init counts its users).
THEOREM WinsockIsHeld == LifecycleSpec => []WinsockHeld
<1>1. CountInv => WinsockHeld
  <2> SUFFICES ASSUME CountInv,
                      (\E r \in Relays : relays[r].alive) \/ checker.state = "check" \/ trace.state = "run"
               PROVE  refs > 0
    BY DEF WinsockHeld
  <2>1. /\ refs \in Nat /\ Cardinality(LiveRelays) \in Nat
        /\ (\E r \in Relays : relays[r].alive) => Cardinality(LiveRelays) > 0
    BY LiveCount DEF CountInv, TypeOK, Types
  <2> QED
    BY <2>1 DEF CountInv, Held, One
<1> QED
  BY <1>1, CountInvHolds, PTL

-----------------------------------------------------------------------------
(* What the threads may do.                                                *)

\* The connections a step leaves: those there were, and perhaps one for a client whose destination
\* the relay knows.
KeepsConns ==
  \A c \in Conns : conns'[c].state # "none" =>
    \/ conns[c].state # "none" /\ conns'[c].relay = conns[c].relay
    \/ \E r \in Relays : relays[r].pending /\ acceptor[r] = "reap" /\ conns'[c].relay = r

\* A worker calls the backend back when it has seen a table, and logs when it has seen a sink.
CallsWhatItSaw ==
  /\ \A c \in Conns : conns'[c].state = "closing" => conns[c].state = "closing" \/ (backend # None /\ backend.nat)
  /\ \A c \in Conns : conns'[c].state = "logging" => conns[c].state = "logging" \/ sink

\* What a worker does to its connection.
LEMMA WorkerStep ==
  ASSUME Types, NEW d \in Conns, NEW from, from # "none", NEW to, Worker(d, from, to),
         to = "closing" => backend # None /\ backend.nat, to = "logging" => sink
  PROVE  KeepsConns /\ CallsWhatItSaw /\ UNCHANGED <<relays, acceptor, pumps>>
<1>1. conns' = [conns EXCEPT ![d].state = to] /\ conns[d].state = from
  BY DEF Worker
<1>2. /\ \A c \in Conns : conns'[c].relay = conns[c].relay
      /\ \A c \in Conns : c # d => conns'[c].state = conns[c].state
      /\ conns'[d].state = to
  BY <1>1 DEF Types
<1>3. KeepsConns
  BY <1>1, <1>2 DEF KeepsConns
<1>4. CallsWhatItSaw
  BY <1>2 DEF CallsWhatItSaw
<1> QED
  BY <1>3, <1>4 DEF Worker

\* The workers: none comes from nowhere.
LEMMA WorkersStep ==
  ASSUME Types, NEW c \in Conns,
         Dials(c) \/ Logs(c) \/ Moves(c) \/ Moved(c) \/ FlowEnds(c) \/ Quiet(c) \/ Calls(c) \/ Marks(c)
  PROVE  KeepsConns /\ CallsWhatItSaw /\ UNCHANGED <<relays, acceptor, pumps>>
<1>1. CASE Dials(c)
  BY <1>1, WorkerStep DEF Dials
<1>2. CASE Logs(c)
  BY <1>2, WorkerStep DEF Logs
<1>3. CASE Moves(c) \/ Moved(c) \/ FlowEnds(c)
  BY <1>3, WorkerStep DEF Moves, Moved, FlowEnds
<1>4. CASE Quiet(c)
  BY <1>4, WorkerStep DEF Quiet
<1>5. CASE Calls(c)
  BY <1>5, WorkerStep DEF Calls
<1>6. CASE Marks(c)
  BY <1>6, WorkerStep DEF Marks
<1> QED
  BY <1>1, <1>2, <1>3, <1>4, <1>5, <1>6

\* The acceptor: a finished connection is taken out, a client that is expected gets a free one.
LEMMA ServesStep ==
  ASSUME Types, NEW r \in Relays, Serves(r)
  PROVE  KeepsConns /\ CallsWhatItSaw
<1> DEFINE R == Reaped(r)
<1>1. \A c \in Conns : R[c].state # "none" => R[c] = conns[c]
  BY DEF Reaped, Free
<1>2. \/ conns' = R
      \/ /\ relays[r].pending
         /\ \E d \in Conns, s \in {"dial", "ended"} :
              R[d].state = "none" /\ conns' = [R EXCEPT ![d] = [state |-> s, relay |-> r]]
  BY ServesGives
<1>3. acceptor[r] = "reap"
  BY DEF Serves
<1>4. R \in [Conns -> [state : Alive \cup {"none", "ended"}, relay : Relays \cup {None}]]
  BY DEF Reaped, Free, Types, Alive
<1> HIDE DEF R
<1>5. CASE conns' = R
  BY <1>1, <1>5 DEF KeepsConns, CallsWhatItSaw
<1>6. ASSUME relays[r].pending, NEW d \in Conns, NEW s \in {"dial", "ended"},
             conns' = [R EXCEPT ![d] = [state |-> s, relay |-> r]]
      PROVE  KeepsConns /\ CallsWhatItSaw
  <2>1. conns'[d].state = s /\ conns'[d].relay = r /\ \A c \in Conns : c # d => conns'[c] = R[c]
    BY <1>4, <1>6
  <2>2. KeepsConns
    BY <1>1, <1>3, <1>6, <2>1 DEF KeepsConns
  <2>3. CallsWhatItSaw
    BY <1>1, <2>1 DEF CallsWhatItSaw
  <2> QED
    BY <2>2, <2>3
<1> QED
  BY <1>2, <1>5, <1>6

\* A relay's acceptor neither begins nor comes back, it logs when it has seen a sink, and only the
\* pump tells it of a client.
KeepsRelays ==
  /\ \A r \in Relays : acceptor'[r] = acceptor[r]
       \/ (acceptor[r] \in Accepting /\ acceptor'[r] \in Accepting \cup {"ended"})
  /\ \A r \in Relays : acceptor'[r] = "logging" => acceptor[r] = "logging" \/ sink
  /\ \A r \in Relays : relays'[r].pending => relays[r].pending \/ pumps["pump"] = "run"

\* No pump begins by itself, and one that logs has seen the sink.
KeepsPumps ==
  /\ \A p \in Pumps : pumps'[p] \in {"run", "logging"} => pumps[p] \in {"run", "logging"}
  /\ \A p \in Pumps : pumps'[p] = "logging" => pumps[p] = "logging" \/ sink

\* What any thread's step may do.
LEMMA ThreadEffects ==
  ASSUME Types, ThreadsStep
  PROVE  KeepsConns /\ CallsWhatItSaw /\ KeepsRelays /\ KeepsPumps
<1> USE DEF relayVars
<1>1. ASSUME UNCHANGED <<relays, acceptor>> PROVE KeepsRelays
  BY <1>1 DEF KeepsRelays
<1>2. ASSUME UNCHANGED pumps PROVE KeepsPumps
  BY <1>2 DEF KeepsPumps
<1>3. ASSUME UNCHANGED conns PROVE KeepsConns /\ CallsWhatItSaw
  BY <1>3 DEF KeepsConns, CallsWhatItSaw
<1>4. CASE \E p \in Pumps : PumpLogs(p) \/ PumpLogged(p) \/ PumpEnds(p)
  <2>1. KeepsPumps
    BY <1>4 DEF PumpLogs, PumpLogged, PumpEnds, Types, KeepsPumps, Pumps
  <2>2. UNCHANGED <<relays, acceptor, conns>>
    BY <1>4 DEF PumpLogs, PumpLogged, PumpEnds
  <2> QED
    BY <2>1, <2>2, <1>1, <1>3
<1>5. CASE PumpRegisters
  <2>1. UNCHANGED <<acceptor, conns, pumps>> /\ pumps["pump"] = "run"
    BY <1>5 DEF PumpRegisters
  <2>2. KeepsRelays
    BY <2>1 DEF KeepsRelays
  <2> QED
    BY <2>1, <2>2, <1>2, <1>3
<1>6. ASSUME NEW r \in Relays, Accepts(r) \/ AcceptorLogged(r) \/ AcceptorEnds(r)
      PROVE  KeepsRelays /\ UNCHANGED <<conns, pumps>>
  BY <1>6 DEF Accepts, AcceptorLogged, AcceptorEnds, KeepsRelays, Types, Accepting
<1>7. ASSUME NEW r \in Relays, Serves(r) PROVE KeepsRelays /\ UNCHANGED pumps
  <2>1. \A q \in Relays : relays'[q].pending => relays[q].pending
    BY <1>7 DEF Serves, Types, RelayRecs
  <2>2. /\ acceptor[r] = "reap" /\ UNCHANGED pumps
        /\ \/ acceptor' = [acceptor EXCEPT ![r] = "accept"]
           \/ sink /\ acceptor' = [acceptor EXCEPT ![r] = "logging"]
    BY <1>7 DEF Serves
  <2> QED
    BY <2>1, <2>2 DEF KeepsRelays, Types, Accepting
<1>8. CASE CheckerStep \/ TraceStep
  <2>1. UNCHANGED <<relays, acceptor, conns, pumps>>
    BY <1>8 DEF CheckerStep, TraceStep
  <2> QED
    BY <2>1, <1>1, <1>2, <1>3
<1>9. ASSUME NEW r \in Relays, Accepts(r) \/ Serves(r) \/ AcceptorLogged(r) \/ AcceptorEnds(r)
      PROVE  KeepsConns /\ CallsWhatItSaw /\ KeepsRelays /\ KeepsPumps
  BY <1>9, <1>6, <1>7, <1>2, <1>3, ServesStep
<1>10. ASSUME NEW c \in Conns,
              Dials(c) \/ Logs(c) \/ Moves(c) \/ Moved(c) \/ FlowEnds(c) \/ Quiet(c) \/ Calls(c) \/ Marks(c)
       PROVE  KeepsConns /\ CallsWhatItSaw /\ KeepsRelays /\ KeepsPumps
  BY <1>10, WorkersStep, <1>1, <1>2
<1> QED
  BY <1>4, <1>5, <1>8, <1>9, <1>10 DEF ThreadsStep

\* The threads keep the order of things.
LEMMA ThreadsKeepOrder ==
  ASSUME OrderInv, CountInv', ThreadsStep
  PROVE  OrderInv'
<1>1. Types /\ Types'
  BY DEF OrderInv, CountInv, TypeOK
<1>2. /\ UNCHANGED <<backend, running, failed, app, sink>>
      /\ At' = At /\ Goal' = Goal /\ Own' = Own
      /\ \A r \in Relays : relays'[r].alive = relays[r].alive
  BY <1>1, ThreadsKeep DEF mainVars
<1>3. KeepsConns /\ CallsWhatItSaw /\ KeepsRelays /\ KeepsPumps
  BY <1>1, ThreadEffects
<1>4. OneRelay'
  <2>1. \A r \in Relays : acceptor'[r] # "none" <=> acceptor[r] # "none"
    BY <1>3 DEF KeepsRelays, Accepting
  <2>2. \A r \in Relays : relays'[r].alive <=> acceptor'[r] # "none"
    BY <1>2, <2>1 DEF OrderInv, OneRelay
  <2>3. \A r \in Relays : relays'[r].alive => Own' = r
    BY <1>2 DEF OrderInv, OneRelay
  <2>4. \A c \in Conns : conns'[c].state # "none" => conns'[c].relay # None /\ conns'[c].relay = Own'
    <3>1. \A r \in Relays : acceptor[r] = "reap" => Own = r /\ r # None
      BY LifecycleAssumption DEF OrderInv, OneRelay
    <3> QED
      BY <1>2, <1>3, <3>1 DEF KeepsConns, OrderInv, OneRelay
  <2>5. \A c \in Conns : conns'[c].state = "closing" => backend' # None /\ backend'.nat
    BY <1>2, <1>3 DEF CallsWhatItSaw, OrderInv, OneRelay
  <2> QED
    BY <2>2, <2>3, <2>4, <2>5 DEF OneRelay
<1>5. PumpsRest => PumpsRest'
  BY <1>1, <1>3 DEF PumpsRest, KeepsPumps, Types, Pumps
<1>6. PumpsInv'
  BY <1>2, <1>3, <1>5 DEF PumpsInv, KeepsPumps, MayPump, OrderInv
<1>7. SinkInv'
  BY <1>2, <1>3 DEF SinkInv, Logging, KeepsPumps, KeepsRelays, CallsWhatItSaw, OrderInv
<1>8. Progress'
  <2>1. ASSUME At \in {"create_nat", "open_net"} \/ (At = "free_nat" /\ Goal = "free_relay")
        PROVE  NoConns' /\ \A r \in Relays : relays'[r].alive => ~relays'[r].pending
    <3>1. NoConns /\ \A r \in Relays : relays[r].alive => ~relays[r].pending
      BY <2>1 DEF OrderInv, Progress
    <3>2. PumpsRest
      BY <2>1 DEF OrderInv, PumpsInv, MayPump
    <3>3. pumps["pump"] # "run"
      BY <3>2 DEF PumpsRest, Pumps
    <3>4. \A r \in Relays : acceptor[r] = "reap" => relays[r].alive
      BY DEF OrderInv, OneRelay
    <3>5. NoConns'
      BY <1>3, <3>1, <3>4 DEF KeepsConns, NoConns
    <3> QED
      BY <1>2, <1>3, <3>1, <3>3, <3>5 DEF KeepsRelays
  <2>2. ASSUME At \in {"join_workers", "free_relay"}, Own # None
        PROVE  acceptor'[Own] = "ended"
    <3>1. Own \in Relays
      BY <1>1, <2>2 DEF Own, Types, Backends
    <3> QED
      BY <1>3, <2>2, <3>1 DEF KeepsRelays, OrderInv, Progress, Accepting
  <2>3. ASSUME At = "free_relay"
        PROVE  NoConns'
    <3>1. \A r \in Relays : acceptor[r] # "reap"
      BY <2>3, LifecycleAssumption DEF OrderInv, OneRelay, Progress
    <3> QED
      BY <1>3, <2>3, <3>1 DEF KeepsConns, NoConns, OrderInv, Progress
  <2> QED
    BY <1>2, <2>1, <2>2, <2>3 DEF OrderInv, Progress
<1> QED
  BY <1>4, <1>6, <1>7, <1>8 DEF OrderInv

-----------------------------------------------------------------------------
(* What the GUI thread may do.                                             *)

\* Where nothing is touched that the order is about.
Untouched == UNCHANGED <<backend, relays, acceptor, conns, running, failed>>

\* Then only the step changes.
LEMMA UntouchedStays ==
  ASSUME Untouched
  PROVE  /\ Own' = Own /\ (NoConns <=> NoConns')
         /\ (OneRelay => OneRelay')
BY DEF Untouched, Own, NoConns, OneRelay

\* The steps that leave the backend, the relays and the connections alone.
LEMMA WhoTouchesNothing ==
  ASSUME \/ Acquires \/ OpensWindow \/ CreatesApp \/ JoinsPumps \/ JoinsAcceptor \/ StopsChecker \/ JoinsChecker
         \/ DropsSink \/ FreesApp \/ Releases \/ Tracing \/ Click
  PROVE  Untouched
BY ClickIsSmall DEF Acquires, OpensWindow, CreatesApp, JoinsPumps, JoinsAcceptor, StopsChecker, JoinsChecker,
   DropsSink, FreesApp, Releases, Tracing, StartsTrace, CancelsTrace, JoinsTrace, Untouched, mainVars, relayVars

\* Where there is no backend there is no relay.
LEMMA NoBackend ==
  ASSUME OneRelay, Own = None
  PROVE  NoConns /\ \A r \in Relays : ~relays[r].alive
<1>1. \A r \in Relays : ~relays[r].alive
  BY LifecycleAssumption DEF OneRelay
<1>2. NoConns
  BY DEF OneRelay, NoConns
<1> QED
  BY <1>1, <1>2

\* A step that sets or clears the backend's flag leaves its relay and its table.
LEMMA FlagWritten ==
  ASSUME Types, Objects, OpensNet \/ (\E p \in Pumps : StartsPump(p)) \/ StartsDemo \/ StopsPumps
  PROVE  /\ backend \in Backends /\ backend' \in Backends /\ backend # None /\ backend' # None
         /\ Own' = Own /\ backend'.nat = backend.nat /\ backend'.kind = backend.kind
         /\ UNCHANGED <<relays, acceptor, conns, running>>
<1>1. backend \in Backends /\ backend' \in Backends
  BY BackendStays
<1>2. \/ backend' = backend
      \/ backend' = [backend EXCEPT !.running = TRUE]
      \/ backend' = [backend EXCEPT !.running = FALSE]
  BY DEF OpensNet, StartsPump, StartsDemo, StopsPumps
<1>3. backend'.relay = backend.relay /\ backend'.nat = backend.nat /\ backend'.kind = backend.kind
  BY <1>1, <1>2 DEF Backends
<1>4. backend # None /\ backend' # None
  BY <1>1, LifecycleAssumption
<1>5. Own' = Own
  BY <1>3, <1>4 DEF Own
<1>6. UNCHANGED <<relays, acceptor, conns, running>>
  BY DEF OpensNet, StartsPump, StartsDemo, StopsPumps, relayVars
<1> QED
  BY <1>1, <1>3, <1>4, <1>5, <1>6

\* So does a step that makes or frees the table leave the relay.
LEMMA NatWritten ==
  ASSUME Types, Objects, CreatesNat \/ FreesNat
  PROVE  /\ backend \in Backends /\ backend' \in Backends /\ backend # None /\ backend' # None
         /\ Own' = Own /\ backend'.kind = backend.kind
         /\ UNCHANGED <<relays, acceptor, conns, running, failed>>
         /\ CreatesNat => (backend'.nat /\ Done) \/ (backend' = backend /\ Instead(RelayStop))
<1>1. backend \in Backends /\ backend' \in Backends
  BY BackendStays
<1>2. \/ backend' = backend
      \/ backend' = [backend EXCEPT !.nat = TRUE]
      \/ backend' = [backend EXCEPT !.nat = FALSE]
  BY DEF CreatesNat, FreesNat
<1>3. backend'.relay = backend.relay /\ backend'.kind = backend.kind
  BY <1>1, <1>2 DEF Backends
<1>4. backend # None /\ backend' # None
  BY <1>1, LifecycleAssumption
<1>5. Own' = Own
  BY <1>3, <1>4 DEF Own
<1>6. UNCHANGED <<relays, acceptor, conns, running, failed>>
  BY DEF CreatesNat, FreesNat, relayVars
<1>7. CreatesNat => (backend'.nat /\ Done) \/ (backend' = backend /\ Instead(RelayStop))
  BY <1>1 DEF CreatesNat, Backends
<1> QED
  BY <1>1, <1>3, <1>4, <1>5, <1>6, <1>7

\* The relay that is opened is the only one; the one that is freed was.
LEMMA OpensRelayDoes ==
  ASSUME OrderInv, OpensRelay, Own = None
  PROVE  \/ Untouched /\ Instead(<<>>)
         \/ /\ Done /\ Own' # None /\ NoConns' /\ OneRelay' /\ UNCHANGED <<running, failed>>
            /\ \A r \in Relays : relays'[r].alive => ~relays'[r].pending
<1>1. backend \in Backends /\ backend' \in Backends /\ Types
  BY BackendStays DEF OrderInv, CountInv, TypeOK
<1>2. NoConns /\ (\A r \in Relays : ~relays[r].alive) /\ OneRelay
  BY NoBackend DEF OrderInv
<1>3. CASE Instead(<<>>) /\ UNCHANGED <<relays, acceptor, backend>>
  BY <1>3 DEF OpensRelay, Untouched
<1>4. ASSUME NEW r \in Relays, Done,
             relays' = [relays EXCEPT ![r] = [alive |-> TRUE, running |-> TRUE, pending |-> FALSE]],
             acceptor' = [acceptor EXCEPT ![r] = "accept"],
             backend' = [backend EXCEPT !.relay = r]
      PROVE  /\ Done /\ Own' # None /\ NoConns' /\ OneRelay' /\ UNCHANGED <<running, failed>>
             /\ \A q \in Relays : relays'[q].alive => ~relays'[q].pending
  <2>1. backend' # None /\ backend'.relay = r
    BY <1>1, <1>4, LifecycleAssumption DEF Backends
  <2>2. Own' = r /\ r # None
    BY <2>1, LifecycleAssumption DEF Own
  <2>3. /\ relays'[r].alive /\ ~relays'[r].pending
        /\ \A q \in Relays : q # r => relays'[q] = relays[q]
    BY <1>1, <1>4 DEF Types
  <2>4. acceptor'[r] = "accept" /\ \A q \in Relays : q # r => acceptor'[q] = acceptor[q]
    BY <1>1, <1>4 DEF Types
  <2>5. UNCHANGED <<conns, running, failed>>
    BY DEF OpensRelay
  <2>6. NoConns'
    BY <1>2, <2>5 DEF NoConns
  <2>7. \A q \in Relays : relays'[q].alive => Own' = q
    BY <1>2, <2>2, <2>3
  <2>8. \A q \in Relays : relays'[q].alive <=> acceptor'[q] # "none"
    BY <1>2, <2>3, <2>4 DEF OneRelay
  <2>9. OneRelay'
    BY <2>6, <2>7, <2>8 DEF OneRelay, NoConns
  <2>10. \A q \in Relays : relays'[q].alive => ~relays'[q].pending
    BY <1>2, <2>3
  <2> QED
    BY <1>4, <2>2, <2>5, <2>6, <2>9, <2>10
<1> QED
  BY <1>3, <1>4 DEF OpensRelay

\* Afterwards there is none.
LEMMA FreesRelayDoes ==
  ASSUME OrderInv, FreesRelay
  PROVE  /\ Own' = None /\ NoConns' /\ OneRelay' /\ UNCHANGED <<running, failed>>
         /\ backend # None /\ backend' # None /\ backend'.nat = backend.nat /\ backend'.kind = backend.kind
<1>1. backend \in Backends /\ backend' \in Backends /\ Types
  BY BackendStays DEF OrderInv, CountInv, TypeOK
<1>2. backend # None /\ backend' # None
  BY <1>1, LifecycleAssumption
<1>3. NoConns /\ UNCHANGED <<conns, running, failed>>
  BY NextIsAt DEF FreesRelay, OrderInv, Progress
<1>4. NoConns'
  BY <1>3 DEF NoConns
<1>5. CASE Own = None
  <2>1. UNCHANGED <<backend, relays, acceptor>>
    BY <1>5 DEF FreesRelay
  <2>2. Own' = Own /\ OneRelay'
    BY <1>3, <2>1, UntouchedStays DEF Untouched, OrderInv
  <2> QED
    BY <1>2, <1>3, <1>4, <1>5, <2>1, <2>2
<1>6. CASE Own # None
  <2>1. /\ relays' = [relays EXCEPT ![Own].alive = FALSE]
        /\ acceptor' = [acceptor EXCEPT ![Own] = "none"]
        /\ backend' = [backend EXCEPT !.relay = None]
    BY <1>6 DEF FreesRelay
  <2>2. backend'.relay = None /\ backend'.nat = backend.nat /\ backend'.kind = backend.kind
    BY <1>1, <2>1 DEF Backends
  <2>3. Own' = None
    BY <2>2 DEF Own
  <2>4. Own \in Relays
    BY <1>1, <1>6 DEF Own, Backends
  <2>5. \A q \in Relays : relays[q].alive => q = Own
    BY DEF OrderInv, OneRelay
  <2>6. \A q \in Relays : ~relays'[q].alive
    BY <1>1, <2>1, <2>4, <2>5 DEF Types, RelayRecs
  <2>7. \A q \in Relays : acceptor'[q] = "none"
    BY <1>1, <2>1, <2>4, <2>5 DEF Types, OrderInv, OneRelay
  <2>8. OneRelay'
    BY <1>4, <2>6, <2>7 DEF OneRelay, NoConns
  <2> QED
    BY <1>2, <1>3, <1>4, <2>2, <2>3, <2>8
<1> QED
  BY <1>5, <1>6

\* Afterwards no worker is left.
LEMMA JoinsWorkersDoes ==
  ASSUME OrderInv, JoinsWorkers
  PROVE  /\ NoConns' /\ OneRelay' /\ Own' = Own
         /\ UNCHANGED <<backend, relays, acceptor, running, failed>>
<1>1. UNCHANGED <<backend, relays, acceptor, running, failed>>
  BY DEF JoinsWorkers, mainVars
<1>2. Own' = Own
  BY <1>1 DEF Own
<1>3. \A c \in Conns : conns'[c] = IF conns[c].relay = Own THEN Free ELSE conns[c]
  BY DEF JoinsWorkers
<1>4. NoConns'
  BY <1>3 DEF NoConns, OrderInv, OneRelay, Free
<1>5. OneRelay'
  BY <1>1, <1>2, <1>4 DEF OneRelay, NoConns, OrderInv
<1> QED
  BY <1>1, <1>2, <1>4, <1>5

\* A backend that comes or goes has no relay.
LEMMA NewBackendDoes ==
  ASSUME OrderInv, CreatesEngine \/ OtherBackend \/ FreesBackend
  PROVE  Own = None /\ Own' = None /\ NoConns' /\ OneRelay' /\ UNCHANGED running
<1>1. Own = None
  <2>1. CASE CreatesEngine \/ OtherBackend
    <3>1. backend = None
      BY <2>1, NextIsAt DEF CreatesEngine, OtherBackend, OrderInv, CountInv, Objects, BackendThere, EngineThere
    <3> QED
      BY <3>1 DEF Own
  <2>2. CASE FreesBackend
    BY <2>2, NextIsAt DEF FreesBackend, OrderInv, Progress
  <2> QED
    BY <2>1, <2>2
<1>2. Own' = None
  <2>1. \/ backend' = None \/ backend' = backend
        \/ \E k \in {"stub", "windivert"} :
             backend' = [kind |-> k, running |-> FALSE, relay |-> None, nat |-> FALSE]
    BY DEF CreatesEngine, OtherBackend, FreesBackend
  <2> QED
    BY <1>1, <2>1 DEF Own
<1>3. UNCHANGED <<relays, acceptor, conns, running>>
  BY DEF CreatesEngine, OtherBackend, FreesBackend, relayVars
<1>4. NoConns /\ \A r \in Relays : ~relays[r].alive
  BY <1>1, NoBackend DEF OrderInv
<1>5. NoConns'
  BY <1>3, <1>4 DEF NoConns
<1>6. OneRelay'
  BY <1>3, <1>4, <1>5 DEF OneRelay, NoConns, OrderInv
<1> QED
  BY <1>1, <1>2, <1>3, <1>5, <1>6

-----------------------------------------------------------------------------
(* One relay at most, and it is the backend's.                             *)

\* Only the owner of the engine's state is written by these two.
LEMMA EngineWritten ==
  ASSUME Started \/ Stopped
  PROVE  UNCHANGED <<backend, relays, acceptor, conns, failed>> /\ Own' = Own
BY DEF Started, Stopped, relayVars, Own

\* pmx_relay_stop clears the relay's flag first.
LEMMA ListenerCloses ==
  ASSUME Types, ClosesListener
  PROVE  /\ UNCHANGED <<backend, acceptor, conns, running, failed>> /\ Own' = Own
         /\ \A r \in Relays : relays'[r].alive = relays[r].alive /\ relays'[r].pending = relays[r].pending
<1>1. UNCHANGED <<backend, acceptor, conns, running, failed>> /\ Own' = Own
  BY DEF ClosesListener, mainVars, Own
<1>2. \A r \in Relays : relays'[r] = IF r = Own THEN [relays[r] EXCEPT !.running = FALSE] ELSE relays[r]
  BY DEF ClosesListener
<1>3. \A r \in Relays : relays[r] \in RelayRecs
  BY DEF Types
<1>4. \A x \in RelayRecs : [x EXCEPT !.running = FALSE].alive = x.alive /\ [x EXCEPT !.running = FALSE].pending = x.pending
  BY DEF RelayRecs
<1> QED
  BY <1>1, <1>2, <1>3, <1>4

\* The table is freed when no worker calls it.
LEMMA NobodyCalls ==
  ASSUME OrderInv, FreesNat
  PROVE  NoConns
<1>1. At = "free_nat"
  BY NextIsAt DEF FreesNat
<1>2. CASE Goal = "free_relay"
  BY <1>1, <1>2 DEF OrderInv, Progress
<1>3. CASE Goal # "free_relay"
  BY <1>1, <1>3, NoBackend DEF OrderInv, Progress
<1> QED
  BY <1>2, <1>3

\* No step leaves a relay that the backend has forgotten.
LEMMA OneRelayKept ==
  ASSUME OrderInv, CountInv', ~MayRetry, LifecycleNext
  PROVE  OneRelay'
<1> USE DEF OrderInv
<1>1. ASSUME Acquires PROVE OneRelay'
  BY <1>1, WhoTouchesNothing, UntouchedStays
<1>2. ASSUME CreatesEngine PROVE OneRelay'
  BY <1>2, NewBackendDoes
<1>3. ASSUME OpensWindow PROVE OneRelay'
  BY <1>3, WhoTouchesNothing, UntouchedStays
<1>4. ASSUME CreatesApp PROVE OneRelay'
  BY <1>4, WhoTouchesNothing, UntouchedStays
<1>5. ASSUME OpensRelay PROVE OneRelay'
  <2>1. Own = None
    BY <1>5, NextIsAt DEF OpensRelay, Progress
  <2> QED
    BY <1>5, <2>1, OpensRelayDoes, UntouchedStays
<1>6. ASSUME CreatesNat PROVE OneRelay'
  <2>1. Own' = Own /\ backend' # None /\ (backend.nat => backend'.nat) /\ UNCHANGED <<relays, acceptor, conns>>
    BY <1>6, NatWritten DEF CountInv, TypeOK
  <2> QED
    BY <2>1 DEF OneRelay
<1>7. ASSUME OpensNet PROVE OneRelay'
  <2>1. Own' = Own /\ backend' # None /\ backend'.nat = backend.nat /\ UNCHANGED <<relays, acceptor, conns>>
    BY <1>7, FlagWritten DEF CountInv, TypeOK
  <2> QED
    BY <2>1 DEF OneRelay
<1>8. ASSUME NEW p \in Pumps, StartsPump(p) PROVE OneRelay'
  <2>1. Own' = Own /\ backend' # None /\ backend'.nat = backend.nat /\ UNCHANGED <<relays, acceptor, conns>>
    BY <1>8, FlagWritten DEF CountInv, TypeOK
  <2> QED
    BY <2>1 DEF OneRelay
<1>9. ASSUME StartsDemo PROVE OneRelay'
  <2>1. Own' = Own /\ backend' # None /\ backend'.nat = backend.nat /\ UNCHANGED <<relays, acceptor, conns>>
    BY <1>9, FlagWritten DEF CountInv, TypeOK
  <2> QED
    BY <2>1 DEF OneRelay
<1>10. ASSUME Started PROVE OneRelay'
  BY <1>10, EngineWritten DEF OneRelay
<1>11. ASSUME StopsPumps PROVE OneRelay'
  <2>1. Own' = Own /\ backend' # None /\ backend'.nat = backend.nat /\ UNCHANGED <<relays, acceptor, conns>>
    BY <1>11, FlagWritten DEF CountInv, TypeOK
  <2> QED
    BY <2>1 DEF OneRelay
<1>12. ASSUME JoinsPumps PROVE OneRelay'
  BY <1>12, WhoTouchesNothing, UntouchedStays
<1>13. ASSUME ClosesListener PROVE OneRelay'
  BY <1>13, ListenerCloses DEF OneRelay, CountInv, TypeOK
<1>14. ASSUME JoinsAcceptor PROVE OneRelay'
  BY <1>14, WhoTouchesNothing, UntouchedStays
<1>15. ASSUME JoinsWorkers PROVE OneRelay'
  BY <1>15, JoinsWorkersDoes
<1>16. ASSUME FreesRelay PROVE OneRelay'
  BY <1>16, FreesRelayDoes
<1>17. ASSUME FreesNat PROVE OneRelay'
  <2>1. Own' = Own /\ NoConns /\ UNCHANGED <<relays, acceptor, conns>>
    BY <1>17, NatWritten, NobodyCalls DEF CountInv, TypeOK
  <2> QED
    BY <2>1 DEF OneRelay, NoConns
<1>18. ASSUME FreesBackend PROVE OneRelay'
  BY <1>18, NewBackendDoes
<1>19. ASSUME OtherBackend PROVE OneRelay'
  BY <1>19, NewBackendDoes
<1>20. ASSUME Stopped PROVE OneRelay'
  BY <1>20, EngineWritten DEF OneRelay
<1>21. ASSUME StopsChecker PROVE OneRelay'
  BY <1>21, WhoTouchesNothing, UntouchedStays
<1>22. ASSUME JoinsChecker PROVE OneRelay'
  BY <1>22, WhoTouchesNothing, UntouchedStays
<1>23. ASSUME DropsSink PROVE OneRelay'
  BY <1>23, WhoTouchesNothing, UntouchedStays
<1>24. ASSUME FreesApp PROVE OneRelay'
  BY <1>24, WhoTouchesNothing, UntouchedStays
<1>25. ASSUME Releases PROVE OneRelay'
  BY <1>25, WhoTouchesNothing, UntouchedStays
<1>26. ASSUME StartsTrace PROVE OneRelay'
  BY <1>26, WhoTouchesNothing, UntouchedStays DEF Tracing
<1>27. ASSUME CancelsTrace PROVE OneRelay'
  BY <1>27, WhoTouchesNothing, UntouchedStays DEF Tracing
<1>28. ASSUME JoinsTrace PROVE OneRelay'
  BY <1>28, WhoTouchesNothing, UntouchedStays DEF Tracing
<1>29. ASSUME Click PROVE OneRelay'
  BY <1>29, WhoTouchesNothing, UntouchedStays
<1>30. ASSUME ThreadsStep PROVE OneRelay'
  BY <1>30, ThreadsKeepOrder DEF OrderInv
<1> QED
  BY <1>1, <1>2, <1>3, <1>4, <1>5, <1>6, <1>7, <1>8, <1>9, <1>10, <1>11, <1>12, <1>13, <1>14, <1>15,
     <1>16, <1>17, <1>18, <1>19, <1>20, <1>21, <1>22, <1>23, <1>24, <1>25, <1>26, <1>27, <1>28, <1>29,
     <1>30
     DEF LifecycleNext, Main, Startup, Starting, Stopping, Tracing

-----------------------------------------------------------------------------
(* What has been made, and what has been taken down.                       *)

\* Every step leaves what the next one needs.
LEMMA ProgressKept ==
  ASSUME OrderInv, CountInv', ~MayRetry, LifecycleNext
  PROVE  Progress'
<1> USE DEF OrderInv
<1>1. ASSUME Acquires PROVE Progress'
  <2>1. Follows("acquire")
    BY <1>1, PlainSteps DEF CountInv, TypeOK
  <2>2. Untouched /\ Own' = Own /\ (NoConns <=> NoConns')
    BY <1>1, WhoTouchesNothing, UntouchedStays
  <2> QED
    BY <2>1, <2>2 DEF Untouched, Progress, Follows, Turns, Edge, Goals
<1>2. ASSUME CreatesEngine PROVE Progress'
  <2>1. Follows("create_engine") \/ Turns("create_engine", "end", "end")
    BY <1>2, CreatesEngineFlows DEF CountInv, TypeOK, CreatesEngine
  <2>2. Own' = None
    BY <1>2, NewBackendDoes
  <2> QED
    BY <2>1, <2>2 DEF Progress, Follows, Turns, Edge, Goals
<1>3. ASSUME OpensWindow PROVE Progress'
  <2>1. Follows("open_window") \/ Turns("open_window", "stop_pumps", "end")
    BY <1>3, OpensWindowFlows DEF CountInv, TypeOK, OpensWindow
  <2>2. Untouched /\ Own' = Own /\ (NoConns <=> NoConns')
    BY <1>3, WhoTouchesNothing, UntouchedStays
  <2> QED
    BY <2>1, <2>2 DEF Untouched, Progress, Follows, Turns, Edge, Goals
<1>4. ASSUME CreatesApp PROVE Progress'
  <2>1. Follows("create_app") \/ Turns("create_app", "stop_pumps", "end")
    BY <1>4, CreatesAppFlows DEF CountInv, TypeOK, CreatesApp
  <2>2. Untouched /\ Own' = Own /\ (NoConns <=> NoConns')
    BY <1>4, WhoTouchesNothing, UntouchedStays
  <2> QED
    BY <2>1, <2>2 DEF Untouched, Progress, Follows, Turns, Edge, Goals
<1>5. ASSUME OpensRelay PROVE Progress'
  <2>1. Own = None
    BY <1>5, NextIsAt DEF OpensRelay, Progress
  <2>2. CASE Untouched /\ Instead(<<>>)
    <3>1. Turns("open_relay", "frame", "frame")
      BY <1>5, <2>2, OpensRelayFlows DEF CountInv, TypeOK
    <3>2. Own' = None
      BY <2>1, <2>2, UntouchedStays
    <3> QED
      BY <3>1, <3>2 DEF Progress, Follows, Turns, Edge, Goals
  <2>3. CASE /\ Done /\ Own' # None /\ NoConns'
             /\ \A r \in Relays : relays'[r].alive => ~relays'[r].pending
    <3>1. Follows("open_relay")
      BY <1>5, <2>3, OpensRelayFlows DEF CountInv, TypeOK
    <3> QED
      BY <2>3, <3>1 DEF Progress, Follows, Turns, Edge, Goals
  <2> QED
    BY <1>5, <2>1, <2>2, <2>3, OpensRelayDoes
<1>6. ASSUME CreatesNat PROVE Progress'
  <2>1. (Follows("create_nat") /\ backend'.nat) \/ Turns("create_nat", "close_listener", "free_relay")
    BY <1>6, CreatesNatFlows, NatWritten DEF CountInv, TypeOK
  <2>2. Own' = Own /\ UNCHANGED <<relays, acceptor, conns, running, failed>>
    BY <1>6, NatWritten DEF CountInv, TypeOK
  <2>3. NoConns' = NoConns
    BY <2>2 DEF NoConns
  <2> QED
    BY <2>1, <2>2, <2>3 DEF Progress, Follows, Turns, Edge, Goals
<1>7. ASSUME OpensNet PROVE Progress'
  <2>1. Follows("open_net") \/ Turns("open_net", "free_nat", "free_relay")
    BY <1>7, OpensNetFlows DEF CountInv, TypeOK, OpensNet
  <2>2. Own' = Own /\ backend'.nat = backend.nat /\ UNCHANGED <<relays, acceptor, conns, running>>
    BY <1>7, FlagWritten DEF CountInv, TypeOK
  <2>3. NoConns' = NoConns
    BY <2>2 DEF NoConns
  <2> QED
    BY <2>1, <2>2, <2>3 DEF Progress, Follows, Turns, Edge, Goals
<1>8. ASSUME NEW p \in Pumps, StartsPump(p) PROVE Progress'
  <2>1. Follows(StartOf(p)) \/ (Turns(StartOf(p), "frame", "frame") /\ failed')
    BY <1>8, StartsPumpFlows DEF CountInv, TypeOK, StartsPump
  <2>2. Own' = Own /\ backend'.nat = backend.nat /\ UNCHANGED <<relays, acceptor, conns, running>>
    BY <1>8, FlagWritten DEF CountInv, TypeOK
  <2> QED
    BY <2>1, <2>2 DEF Progress, Follows, Turns, Edge, Goals, StartOf
<1>9. ASSUME StartsDemo PROVE Progress'
  <2>1. Follows("start_demo")
    BY <1>9, PlainSteps DEF CountInv, TypeOK
  <2>2. Own' = Own /\ backend'.nat = backend.nat /\ UNCHANGED <<relays, acceptor, conns, running>>
    BY <1>9, FlagWritten DEF CountInv, TypeOK
  <2>3. NoConns' = NoConns
    BY <2>2 DEF NoConns
  <2> QED
    BY <2>1, <2>2, <2>3 DEF Progress, Follows, Turns, Edge, Goals
<1>10. ASSUME Started PROVE Progress'
  <2>1. Follows("started")
    BY <1>10, PlainSteps DEF CountInv, TypeOK
  <2>2. running'
    BY <1>10 DEF Started
  <2> QED
    BY <2>1, <2>2 DEF Progress, Follows, Turns, Edge, Goals
<1>11. ASSUME StopsPumps PROVE Progress'
  <2>1. Follows("stop_pumps")
    BY <1>11, PlainSteps DEF CountInv, TypeOK
  <2>2. Own' = Own /\ backend'.nat = backend.nat /\ UNCHANGED <<relays, acceptor, conns, running>>
    BY <1>11, FlagWritten DEF CountInv, TypeOK
  <2>3. NoConns' = NoConns
    BY <2>2 DEF NoConns
  <2> QED
    BY <2>1, <2>2, <2>3 DEF Progress, Follows, Turns, Edge, Goals
<1>12. ASSUME JoinsPumps PROVE Progress'
  <2>1. Follows("join_pumps")
    BY <1>12, PlainSteps DEF CountInv, TypeOK
  <2>2. Untouched /\ Own' = Own /\ (NoConns <=> NoConns')
    BY <1>12, WhoTouchesNothing, UntouchedStays
  <2> QED
    BY <2>1, <2>2 DEF Untouched, Progress, Follows, Turns, Edge, Goals
<1>13. ASSUME ClosesListener PROVE Progress'
  <2>1. Follows("close_listener")
    BY <1>13, PlainSteps DEF CountInv, TypeOK
  <2> QED
    BY <2>1 DEF Progress, Follows, Turns, Edge, Goals
<1>14. ASSUME JoinsAcceptor PROVE Progress'
  <2>1. Follows("join_acceptor")
    BY <1>14, PlainSteps DEF CountInv, TypeOK
  <2>2. Untouched /\ Own' = Own /\ (Own # None => acceptor[Own] = "ended")
    BY <1>14, WhoTouchesNothing, UntouchedStays DEF JoinsAcceptor
  <2> QED
    BY <2>1, <2>2 DEF Untouched, Progress, Follows, Turns, Edge, Goals
<1>15. ASSUME JoinsWorkers PROVE Progress'
  <2>1. Follows("join_workers")
    BY <1>15, PlainSteps DEF CountInv, TypeOK
  <2>2. NoConns' /\ Own' = Own /\ UNCHANGED acceptor
    BY <1>15, JoinsWorkersDoes
  <2> QED
    BY <2>1, <2>2 DEF Progress, Follows, Turns, Edge, Goals
<1>16. ASSUME FreesRelay PROVE Progress'
  <2>1. Follows("free_relay")
    BY <1>16, PlainSteps DEF CountInv, TypeOK
  <2>2. Own' = None
    BY <1>16, FreesRelayDoes
  <2> QED
    BY <2>1, <2>2 DEF Progress, Follows, Turns, Edge, Goals
<1>17. ASSUME FreesNat PROVE Progress'
  <2>1. Follows("free_nat")
    BY <1>17, PlainSteps DEF CountInv, TypeOK
  <2>2. Own' = Own /\ UNCHANGED <<relays, acceptor, conns, running, failed>>
    BY <1>17, NatWritten DEF CountInv, TypeOK
  <2> QED
    BY <2>1, <2>2 DEF Progress, Follows, Turns, Edge, Goals
<1>18. ASSUME FreesBackend PROVE Progress'
  <2>1. Follows("free_backend")
    BY <1>18, PlainSteps DEF CountInv, TypeOK
  <2>2. Own' = None
    BY <1>18, NewBackendDoes
  <2> QED
    BY <2>1, <2>2 DEF Progress, Follows, Turns, Edge, Goals
<1>19. ASSUME OtherBackend PROVE Progress'
  <2>1. Follows("other_backend")
    BY <1>19, PlainSteps DEF CountInv, TypeOK
  <2>2. Own' = None
    BY <1>19, NewBackendDoes
  <2> QED
    BY <2>1, <2>2 DEF Progress, Follows, Turns, Edge, Goals
<1>20. ASSUME Stopped PROVE Progress'
  <2>1. Follows("stopped")
    BY <1>20, PlainSteps DEF CountInv, TypeOK
  <2>2. Own' = Own
    BY <1>20, EngineWritten
  <2> QED
    BY <2>1, <2>2 DEF Progress, Follows, Turns, Edge, Goals
<1>21. ASSUME StopsChecker PROVE Progress'
  <2>1. Follows("stop_checker")
    BY <1>21, PlainSteps DEF CountInv, TypeOK
  <2>2. Untouched /\ Own' = Own /\ (NoConns <=> NoConns')
    BY <1>21, WhoTouchesNothing, UntouchedStays
  <2> QED
    BY <2>1, <2>2 DEF Untouched, Progress, Follows, Turns, Edge, Goals
<1>22. ASSUME JoinsChecker PROVE Progress'
  <2>1. Follows("join_checker")
    BY <1>22, PlainSteps DEF CountInv, TypeOK
  <2>2. Untouched /\ Own' = Own /\ (NoConns <=> NoConns')
    BY <1>22, WhoTouchesNothing, UntouchedStays
  <2> QED
    BY <2>1, <2>2 DEF Untouched, Progress, Follows, Turns, Edge, Goals
<1>23. ASSUME DropsSink PROVE Progress'
  <2>1. Follows("drop_sink")
    BY <1>23, PlainSteps DEF CountInv, TypeOK
  <2>2. Own = None
    BY <2>1 DEF CountInv, Objects, BackendThere, EngineThere, EngineGone, Follows, Own
  <2>3. Untouched /\ Own' = Own
    BY <1>23, WhoTouchesNothing, UntouchedStays
  <2> QED
    BY <2>1, <2>2, <2>3 DEF Progress, Follows, Turns, Edge, Goals
<1>24. ASSUME FreesApp PROVE Progress'
  <2>1. Follows("free_app")
    BY <1>24, PlainSteps DEF CountInv, TypeOK
  <2>2. Untouched /\ Own' = Own /\ (NoConns <=> NoConns')
    BY <1>24, WhoTouchesNothing, UntouchedStays
  <2> QED
    BY <2>1, <2>2 DEF Untouched, Progress, Follows, Turns, Edge, Goals
<1>25. ASSUME Releases PROVE Progress'
  <2>1. Follows("release_engine") \/ Follows("release_main")
    BY <1>25, PlainSteps DEF CountInv, TypeOK
  <2>2. Untouched /\ Own' = Own /\ (NoConns <=> NoConns')
    BY <1>25, WhoTouchesNothing, UntouchedStays
  <2> QED
    BY <2>1, <2>2 DEF Untouched, Progress, Follows, Turns, Edge, Goals
<1>26. ASSUME StartsTrace PROVE Progress'
  <2>1. Follows("start_trace")
    BY <1>26, PlainSteps DEF CountInv, TypeOK
  <2>2. Untouched /\ Own' = Own /\ (NoConns <=> NoConns')
    BY <1>26, WhoTouchesNothing, UntouchedStays DEF Tracing
  <2> QED
    BY <2>1, <2>2 DEF Untouched, Progress, Follows, Turns, Edge, Goals
<1>27. ASSUME CancelsTrace PROVE Progress'
  <2>1. Follows("cancel_trace")
    BY <1>27, PlainSteps DEF CountInv, TypeOK
  <2>2. Untouched /\ Own' = Own /\ (NoConns <=> NoConns')
    BY <1>27, WhoTouchesNothing, UntouchedStays DEF Tracing
  <2> QED
    BY <2>1, <2>2 DEF Untouched, Progress, Follows, Turns, Edge, Goals
<1>28. ASSUME JoinsTrace PROVE Progress'
  <2>1. Follows("join_trace")
    BY <1>28, PlainSteps DEF CountInv, TypeOK
  <2>2. Untouched /\ Own' = Own /\ (NoConns <=> NoConns')
    BY <1>28, WhoTouchesNothing, UntouchedStays DEF Tracing
  <2> QED
    BY <2>1, <2>2 DEF Untouched, Progress, Follows, Turns, Edge, Goals
<1>29. ASSUME Click PROVE Progress'
  <2>1. Untouched /\ Own' = Own
    BY <1>29, WhoTouchesNothing, UntouchedStays
  <2>2. At = "frame" /\ (Own = None \/ running \/ failed)
    BY <1>29, FrameIsAt DEF Click, ClickStart, ClickStop, ClickBackend, ClickTrace, CloseWindow, Progress
  <2>3. CASE ClickStart
    <3>1. Own' = None
      BY <2>1, <2>2, <2>3 DEF ClickStart
    <3>2. (backend.kind = "stub" /\ At' = "start_demo") \/ At' = "open_relay"
      BY <2>3, ClickStartFlows DEF CountInv, TypeOK, Turns
    <3> QED
      BY <2>1, <3>1, <3>2 DEF Progress, Untouched
  <2>4. CASE ClickStop \/ ClickBackend \/ ClickTrace \/ CloseWindow
    <3>1. At' \in {"stop_pumps", "start_trace", "cancel_trace"}
      BY <2>4, ClickStopFlows, ClickBackendFlows, ClickTraceFlows, CloseWindowFlows DEF CountInv, TypeOK, Turns
    <3> QED
      BY <2>1, <2>2, <3>1 DEF Progress, Untouched
  <2> QED
    BY <1>29, <2>3, <2>4 DEF Click
<1>30. ASSUME ThreadsStep PROVE Progress'
  BY <1>30, ThreadsKeepOrder DEF OrderInv
<1> QED
  BY <1>1, <1>2, <1>3, <1>4, <1>5, <1>6, <1>7, <1>8, <1>9, <1>10, <1>11, <1>12, <1>13, <1>14, <1>15,
     <1>16, <1>17, <1>18, <1>19, <1>20, <1>21, <1>22, <1>23, <1>24, <1>25, <1>26, <1>27, <1>28, <1>29,
     <1>30
     DEF LifecycleNext, Main, Startup, Starting, Stopping, Tracing

-----------------------------------------------------------------------------
(* The pumps.                                                              *)

\* Where there may be no pump there is still none.
LEMMA PumpsStayAtRest ==
  ASSUME PumpsInv, ~MayPump, UNCHANGED pumps
  PROVE  PumpsInv'
BY DEF PumpsInv, PumpsRest

\* Where there may be one, its backend has not changed.
LEMMA PumpsGoOn ==
  ASSUME PumpsInv, UNCHANGED <<pumps, backend>>, MayPump'
  PROVE  PumpsInv'
BY DEF PumpsInv

\* No step takes the table or the relay from a pump.
LEMMA PumpsKept ==
  ASSUME OrderInv, CountInv', ~MayRetry, LifecycleNext
  PROVE  PumpsInv'
<1> USE DEF OrderInv
<1>1. ASSUME Acquires PROVE PumpsInv'
  <2>1. ~MayPump /\ UNCHANGED pumps
    BY <1>1, NextIsAt DEF Acquires, MayPump
  <2> QED
    BY <2>1, PumpsStayAtRest
<1>2. ASSUME CreatesEngine PROVE PumpsInv'
  <2>1. ~MayPump /\ UNCHANGED pumps
    BY <1>2, NextIsAt DEF CreatesEngine, MayPump
  <2> QED
    BY <2>1, PumpsStayAtRest
<1>3. ASSUME OpensWindow PROVE PumpsInv'
  <2>1. ~MayPump /\ UNCHANGED pumps
    BY <1>3, NextIsAt DEF OpensWindow, MayPump
  <2> QED
    BY <2>1, PumpsStayAtRest
<1>4. ASSUME CreatesApp PROVE PumpsInv'
  <2>1. ~MayPump /\ UNCHANGED pumps
    BY <1>4, NextIsAt DEF CreatesApp, MayPump
  <2> QED
    BY <2>1, PumpsStayAtRest
<1>5. ASSUME OpensRelay PROVE PumpsInv'
  <2>1. ~MayPump /\ UNCHANGED pumps
    BY <1>5, NextIsAt DEF OpensRelay, MayPump
  <2> QED
    BY <2>1, PumpsStayAtRest
<1>6. ASSUME CreatesNat PROVE PumpsInv'
  <2>1. ~MayPump /\ UNCHANGED pumps
    BY <1>6, NextIsAt DEF CreatesNat, MayPump
  <2> QED
    BY <2>1, PumpsStayAtRest
<1>7. ASSUME OpensNet PROVE PumpsInv'
  <2>1. ~MayPump /\ UNCHANGED pumps
    BY <1>7, NextIsAt DEF OpensNet, MayPump
  <2> QED
    BY <2>1, PumpsStayAtRest
<1>8. ASSUME NEW p \in Pumps, StartsPump(p) PROVE PumpsInv'
  <2>1. Follows(StartOf(p)) \/ Turns(StartOf(p), "frame", "frame")
    BY <1>8, StartsPumpFlows DEF CountInv, TypeOK, StartsPump
  <2>2. MayPump'
    <3>1. Follows(StartOf(p)) \/ (At' = "frame" /\ failed')
      BY <1>8, StartsPumpFlows DEF CountInv, TypeOK, StartsPump, Turns
    <3> QED
      BY <3>1 DEF MayPump, Follows, Edge, Goals, StartOf
  <2>3. backend' # None /\ backend'.nat /\ backend'.relay # None
    BY <1>8, <2>1, FlagWritten DEF CountInv, TypeOK, Progress, Follows, Turns, StartOf, Own
  <2> QED
    BY <2>2, <2>3 DEF PumpsInv
<1>9. ASSUME StartsDemo PROVE PumpsInv'
  <2>1. Follows("start_demo")
    BY <1>9, PlainSteps DEF CountInv, TypeOK
  <2>2. MayPump'
    BY <2>1 DEF MayPump, Follows, Edge, Goals
  <2>3. backend' # None /\ backend'.kind = "stub"
    BY <1>9, <2>1, FlagWritten DEF CountInv, TypeOK, Progress, Follows
  <2> QED
    BY <2>2, <2>3 DEF PumpsInv
<1>10. ASSUME Started PROVE PumpsInv'
  <2>1. Follows("started")
    BY <1>10, PlainSteps DEF CountInv, TypeOK
  <2>2. MayPump'
    BY <1>10, <2>1 DEF Started, MayPump, Follows, Edge
  <2> QED
    BY <1>10, <2>2, PumpsGoOn DEF Started, mainVars
<1>11. ASSUME StopsPumps PROVE PumpsInv'
  <2>1. Follows("stop_pumps")
    BY <1>11, PlainSteps DEF CountInv, TypeOK
  <2>2. MayPump'
    BY <2>1 DEF MayPump, Follows, Edge, Goals
  <2>3. /\ UNCHANGED pumps /\ backend # None /\ backend' # None
        /\ backend'.relay = backend.relay /\ backend'.nat = backend.nat /\ backend'.kind = backend.kind
    BY <1>11, FlagWritten DEF CountInv, TypeOK, StopsPumps, Own
  <2> QED
    BY <2>2, <2>3 DEF PumpsInv
<1>12. ASSUME JoinsPumps PROVE PumpsInv'
  BY <1>12 DEF JoinsPumps, PumpsInv, PumpsRest
<1>13. ASSUME ClosesListener PROVE PumpsInv'
  <2>1. ~MayPump /\ UNCHANGED pumps
    BY <1>13, NextIsAt DEF ClosesListener, MayPump
  <2> QED
    BY <2>1, PumpsStayAtRest
<1>14. ASSUME JoinsAcceptor PROVE PumpsInv'
  <2>1. ~MayPump /\ UNCHANGED pumps
    BY <1>14, NextIsAt DEF JoinsAcceptor, MayPump
  <2> QED
    BY <2>1, PumpsStayAtRest
<1>15. ASSUME JoinsWorkers PROVE PumpsInv'
  <2>1. ~MayPump /\ UNCHANGED pumps
    BY <1>15, NextIsAt DEF JoinsWorkers, MayPump
  <2> QED
    BY <2>1, PumpsStayAtRest
<1>16. ASSUME FreesRelay PROVE PumpsInv'
  <2>1. ~MayPump /\ UNCHANGED pumps
    BY <1>16, NextIsAt DEF FreesRelay, MayPump
  <2> QED
    BY <2>1, PumpsStayAtRest
<1>17. ASSUME FreesNat PROVE PumpsInv'
  <2>1. ~MayPump /\ UNCHANGED pumps
    BY <1>17, NextIsAt DEF FreesNat, MayPump
  <2> QED
    BY <2>1, PumpsStayAtRest
<1>18. ASSUME FreesBackend PROVE PumpsInv'
  <2>1. ~MayPump /\ UNCHANGED pumps
    BY <1>18, NextIsAt DEF FreesBackend, MayPump
  <2> QED
    BY <2>1, PumpsStayAtRest
<1>19. ASSUME OtherBackend PROVE PumpsInv'
  <2>1. ~MayPump /\ UNCHANGED pumps
    BY <1>19, NextIsAt DEF OtherBackend, MayPump
  <2> QED
    BY <2>1, PumpsStayAtRest
<1>20. ASSUME Stopped PROVE PumpsInv'
  <2>1. ~MayPump /\ UNCHANGED pumps
    BY <1>20, NextIsAt DEF Stopped, MayPump
  <2> QED
    BY <2>1, PumpsStayAtRest
<1>21. ASSUME StopsChecker PROVE PumpsInv'
  <2>1. ~MayPump /\ UNCHANGED pumps
    BY <1>21, NextIsAt DEF StopsChecker, MayPump
  <2> QED
    BY <2>1, PumpsStayAtRest
<1>22. ASSUME JoinsChecker PROVE PumpsInv'
  <2>1. ~MayPump /\ UNCHANGED pumps
    BY <1>22, NextIsAt DEF JoinsChecker, MayPump
  <2> QED
    BY <2>1, PumpsStayAtRest
<1>23. ASSUME DropsSink PROVE PumpsInv'
  <2>1. ~MayPump /\ UNCHANGED pumps
    BY <1>23, NextIsAt DEF DropsSink, MayPump
  <2> QED
    BY <2>1, PumpsStayAtRest
<1>24. ASSUME FreesApp PROVE PumpsInv'
  <2>1. ~MayPump /\ UNCHANGED pumps
    BY <1>24, NextIsAt DEF FreesApp, MayPump
  <2> QED
    BY <2>1, PumpsStayAtRest
<1>25. ASSUME Releases PROVE PumpsInv'
  <2>1. ~MayPump /\ UNCHANGED pumps
    BY <1>25, NextIsAt DEF Releases, MayPump
  <2> QED
    BY <2>1, PumpsStayAtRest
<1>26. ASSUME StartsTrace PROVE PumpsInv'
  <2>1. Follows("start_trace")
    BY <1>26, PlainSteps DEF CountInv, TypeOK
  <2>2. CASE MayPump
    <3>1. MayPump'
      BY <1>26, <2>1, <2>2 DEF StartsTrace, mainVars, MayPump, Follows, Edge
    <3> QED
      BY <1>26, <3>1, PumpsGoOn DEF StartsTrace, mainVars
  <2>3. CASE ~MayPump
    BY <1>26, <2>3, PumpsStayAtRest DEF StartsTrace
  <2> QED
    BY <2>2, <2>3
<1>27. ASSUME CancelsTrace PROVE PumpsInv'
  <2>1. Follows("cancel_trace")
    BY <1>27, PlainSteps DEF CountInv, TypeOK
  <2>2. CASE MayPump
    <3>1. MayPump'
      BY <1>27, <2>1, <2>2 DEF CancelsTrace, mainVars, MayPump, Follows, Edge, Goals
    <3> QED
      BY <1>27, <3>1, PumpsGoOn DEF CancelsTrace, mainVars
  <2>3. CASE ~MayPump
    BY <1>27, <2>3, PumpsStayAtRest DEF CancelsTrace
  <2> QED
    BY <2>2, <2>3
<1>28. ASSUME JoinsTrace PROVE PumpsInv'
  <2>1. Follows("join_trace")
    BY <1>28, PlainSteps DEF CountInv, TypeOK
  <2>2. CASE MayPump
    <3>1. MayPump'
      BY <1>28, <2>1, <2>2 DEF JoinsTrace, mainVars, MayPump, Follows, Edge, Goals
    <3> QED
      BY <1>28, <3>1, PumpsGoOn DEF JoinsTrace, mainVars
  <2>3. CASE ~MayPump
    BY <1>28, <2>3, PumpsStayAtRest DEF JoinsTrace
  <2> QED
    BY <2>2, <2>3
<1>29. ASSUME Click PROVE PumpsInv'
  <2>1. UNCHANGED <<pumps, backend>>
    BY <1>29, ClickIsSmall DEF mainVars
  <2>2. CASE ~MayPump
    BY <2>1, <2>2, PumpsStayAtRest
  <2>3. CASE MayPump
    <3>1. running' = running /\ failed' = failed /\ At = "frame"
      BY <1>29, ClickIsSmall, FrameIsAt DEF mainVars, Click, ClickStart, ClickStop, ClickBackend, ClickTrace, CloseWindow
    <3>2. running \/ failed
      BY <2>3, <3>1 DEF MayPump
    <3>3. ~ClickStart
      BY <3>2 DEF ClickStart
    <3>4. MayPump'
      BY <1>29, <3>1, <3>2, <3>3, ClickStopFlows, ClickBackendFlows, ClickTraceFlows, CloseWindowFlows
         DEF CountInv, TypeOK, Click, Turns, MayPump
    <3> QED
      BY <2>1, <3>4, PumpsGoOn
  <2> QED
    BY <2>2, <2>3
<1>30. ASSUME ThreadsStep PROVE PumpsInv'
  BY <1>30, ThreadsKeepOrder DEF OrderInv
<1> QED
  BY <1>1, <1>2, <1>3, <1>4, <1>5, <1>6, <1>7, <1>8, <1>9, <1>10, <1>11, <1>12, <1>13, <1>14, <1>15,
     <1>16, <1>17, <1>18, <1>19, <1>20, <1>21, <1>22, <1>23, <1>24, <1>25, <1>26, <1>27, <1>28, <1>29,
     <1>30
     DEF LifecycleNext, Main, Startup, Starting, Stopping, Tracing

-----------------------------------------------------------------------------
(* The log's sink.                                                         *)

\* The GUI thread makes nobody log.
LEMMA MainDoesNotLog ==
  ASSUME OrderInv, Main
  PROVE  Logging' => Logging
<1> USE DEF OrderInv
<1>1. CASE JoinsWorkers
  <2>1. NoConns' /\ UNCHANGED <<pumps, acceptor>>
    BY <1>1, JoinsWorkersDoes DEF JoinsWorkers
  <2> QED
    BY <2>1 DEF Logging, NoConns
<1>2. CASE JoinsPumps
  BY <1>2 DEF JoinsPumps, Logging, relayVars
<1>3. ASSUME NEW p \in Pumps, StartsPump(p) PROVE Logging' => Logging
  <2>1. pumps \in [Pumps -> {"none", "run", "logging", "ended"}]
    BY DEF CountInv, TypeOK, Types
  <2>2. pumps' = [pumps EXCEPT ![p] = "run"] \/ UNCHANGED pumps
    BY <1>3 DEF StartsPump
  <2>3. \A q \in Pumps : pumps'[q] = "logging" => pumps[q] = "logging"
    BY <2>1, <2>2
  <2>4. UNCHANGED <<conns, acceptor>>
    BY <1>3 DEF StartsPump, relayVars
  <2> QED
    BY <2>3, <2>4 DEF Logging
<1>4. CASE StartsDemo
  BY <1>4 DEF StartsDemo, Logging, relayVars, CountInv, TypeOK, Types
<1>5. CASE UNCHANGED <<conns, pumps, acceptor>>
  BY <1>5 DEF Logging
<1>6. ASSUME UNCHANGED <<conns, pumps>>, \A r \in Relays : acceptor'[r] = "logging" => acceptor[r] = "logging"
      PROVE  Logging' => Logging
  BY <1>6 DEF Logging
<1>7. CASE OpensRelay
  <2>1. \A r \in Relays : acceptor'[r] = "logging" => acceptor[r] = "logging"
    BY <1>7 DEF OpensRelay, CountInv, TypeOK, Types
  <2> QED
    BY <1>6, <1>7, <2>1 DEF OpensRelay
<1>8. CASE FreesRelay
  <2>1. \A r \in Relays : acceptor'[r] = "logging" => acceptor[r] = "logging"
    BY <1>8 DEF FreesRelay, CountInv, TypeOK, Types
  <2> QED
    BY <1>6, <1>8, <2>1 DEF FreesRelay
<1> QED
  BY <1>1, <1>2, <1>3, <1>4, <1>5, <1>7, <1>8
     DEF Main, Startup, Starting, Stopping, Tracing, relayVars,
         Acquires, CreatesEngine, OpensWindow, CreatesApp, CreatesNat, OpensNet, Started,
         StopsPumps, ClosesListener, JoinsAcceptor, FreesNat, FreesBackend, OtherBackend, Stopped,
         StopsChecker, JoinsChecker, DropsSink, FreesApp, Releases, StartsTrace, CancelsTrace, JoinsTrace

\* A step that neither sets nor drops the sink, and frees no application.
LEMMA SinkStays ==
  ASSUME SinkInv, UNCHANGED <<app, sink>>, Logging' => Logging,
         At' \in {"free_app", "cancel_trace", "join_trace"} => At' = "cancel_trace" /\ Goal' = "start_trace"
  PROVE  SinkInv'
BY DEF SinkInv, Logging

\* The sink is dropped before the application it points to, and nobody is still calling it then.
LEMMA SinkKept ==
  ASSUME OrderInv, CountInv', ~MayRetry, LifecycleNext
  PROVE  SinkInv'
<1> USE DEF OrderInv
<1>1. ASSUME Acquires PROVE SinkInv'
  <2>1. Follows("acquire")
    BY <1>1, PlainSteps DEF CountInv, TypeOK
  <2>2. Logging' => Logging
    BY <1>1, MainDoesNotLog DEF Main, Startup, Starting, Stopping, Tracing
  <2>3. UNCHANGED <<app, sink>>
    BY <1>1 DEF Acquires
  <2>4. At' \notin {"free_app", "cancel_trace", "join_trace"}
    BY <2>1 DEF Follows, Turns, Edge, Goals
  <2> QED
    BY <2>2, <2>3, <2>4, SinkStays
<1>2. ASSUME CreatesEngine PROVE SinkInv'
  <2>1. Follows("create_engine") \/ Turns("create_engine", "end", "end")
    BY <1>2, CreatesEngineFlows DEF CountInv, TypeOK, CreatesEngine
  <2>2. Logging' => Logging
    BY <1>2, MainDoesNotLog DEF Main, Startup, Starting, Stopping, Tracing
  <2>3. UNCHANGED <<app, sink>>
    BY <1>2 DEF CreatesEngine
  <2>4. At' \notin {"free_app", "cancel_trace", "join_trace"}
    BY <2>1 DEF Follows, Turns, Edge, Goals
  <2> QED
    BY <2>2, <2>3, <2>4, SinkStays
<1>3. ASSUME OpensWindow PROVE SinkInv'
  <2>1. Follows("open_window") \/ Turns("open_window", "stop_pumps", "end")
    BY <1>3, OpensWindowFlows DEF CountInv, TypeOK, OpensWindow
  <2>2. Logging' => Logging
    BY <1>3, MainDoesNotLog DEF Main, Startup, Starting, Stopping, Tracing
  <2>3. UNCHANGED <<app, sink>>
    BY <1>3 DEF OpensWindow
  <2>4. At' \notin {"free_app", "cancel_trace", "join_trace"}
    BY <2>1 DEF Follows, Turns, Edge, Goals
  <2> QED
    BY <2>2, <2>3, <2>4, SinkStays
<1>4. ASSUME CreatesApp PROVE SinkInv'
  <2>1. Follows("create_app") \/ Turns("create_app", "stop_pumps", "end")
    BY <1>4, CreatesAppFlows DEF CountInv, TypeOK, CreatesApp
  <2>2. Logging' => Logging
    BY <1>4, MainDoesNotLog DEF Main, Startup, Starting, Stopping, Tracing
  <2>3. (app' /\ sink') \/ UNCHANGED <<app, sink>>
    BY <1>4 DEF CreatesApp
  <2> QED
    BY <2>1, <2>2, <2>3 DEF SinkInv, Logging, Follows, Turns, Edge
<1>5. ASSUME OpensRelay PROVE SinkInv'
  <2>1. Follows("open_relay") \/ Turns("open_relay", "frame", "frame")
    BY <1>5, OpensRelayFlows DEF CountInv, TypeOK, OpensRelay
  <2>2. Logging' => Logging
    BY <1>5, MainDoesNotLog DEF Main, Startup, Starting, Stopping, Tracing
  <2>3. UNCHANGED <<app, sink>>
    BY <1>5 DEF OpensRelay
  <2>4. At' \notin {"free_app", "cancel_trace", "join_trace"}
    BY <2>1 DEF Follows, Turns, Edge, Goals
  <2> QED
    BY <2>2, <2>3, <2>4, SinkStays
<1>6. ASSUME CreatesNat PROVE SinkInv'
  <2>1. Follows("create_nat") \/ Turns("create_nat", "close_listener", "free_relay")
    BY <1>6, CreatesNatFlows DEF CountInv, TypeOK, CreatesNat
  <2>2. Logging' => Logging
    BY <1>6, MainDoesNotLog DEF Main, Startup, Starting, Stopping, Tracing
  <2>3. UNCHANGED <<app, sink>>
    BY <1>6 DEF CreatesNat
  <2>4. At' \notin {"free_app", "cancel_trace", "join_trace"}
    BY <2>1 DEF Follows, Turns, Edge, Goals
  <2> QED
    BY <2>2, <2>3, <2>4, SinkStays
<1>7. ASSUME OpensNet PROVE SinkInv'
  <2>1. Follows("open_net") \/ Turns("open_net", "free_nat", "free_relay")
    BY <1>7, OpensNetFlows DEF CountInv, TypeOK, OpensNet
  <2>2. Logging' => Logging
    BY <1>7, MainDoesNotLog DEF Main, Startup, Starting, Stopping, Tracing
  <2>3. UNCHANGED <<app, sink>>
    BY <1>7 DEF OpensNet
  <2>4. At' \notin {"free_app", "cancel_trace", "join_trace"}
    BY <2>1 DEF Follows, Turns, Edge, Goals
  <2> QED
    BY <2>2, <2>3, <2>4, SinkStays
<1>8. ASSUME NEW p \in Pumps, StartsPump(p) PROVE SinkInv'
  <2>1. Follows(StartOf(p)) \/ Turns(StartOf(p), "frame", "frame")
    BY <1>8, StartsPumpFlows DEF CountInv, TypeOK, StartsPump
  <2>2. Logging' => Logging
    BY <1>8, MainDoesNotLog DEF Main, Startup, Starting, Stopping, Tracing
  <2>3. UNCHANGED <<app, sink>>
    BY <1>8 DEF StartsPump
  <2>4. At' \notin {"free_app", "cancel_trace", "join_trace"}
    BY <2>1 DEF Follows, Turns, Edge, Goals, StartOf
  <2> QED
    BY <2>2, <2>3, <2>4, SinkStays
<1>9. ASSUME StartsDemo PROVE SinkInv'
  <2>1. Follows("start_demo")
    BY <1>9, PlainSteps DEF CountInv, TypeOK
  <2>2. Logging' => Logging
    BY <1>9, MainDoesNotLog DEF Main, Startup, Starting, Stopping, Tracing
  <2>3. UNCHANGED <<app, sink>>
    BY <1>9 DEF StartsDemo
  <2>4. At' \notin {"free_app", "cancel_trace", "join_trace"}
    BY <2>1 DEF Follows, Turns, Edge, Goals
  <2> QED
    BY <2>2, <2>3, <2>4, SinkStays
<1>10. ASSUME Started PROVE SinkInv'
  <2>1. Follows("started")
    BY <1>10, PlainSteps DEF CountInv, TypeOK
  <2>2. Logging' => Logging
    BY <1>10, MainDoesNotLog DEF Main, Startup, Starting, Stopping, Tracing
  <2>3. UNCHANGED <<app, sink>>
    BY <1>10 DEF Started
  <2>4. At' \notin {"free_app", "cancel_trace", "join_trace"}
    BY <2>1 DEF Follows, Turns, Edge, Goals
  <2> QED
    BY <2>2, <2>3, <2>4, SinkStays
<1>11. ASSUME StopsPumps PROVE SinkInv'
  <2>1. Follows("stop_pumps")
    BY <1>11, PlainSteps DEF CountInv, TypeOK
  <2>2. Logging' => Logging
    BY <1>11, MainDoesNotLog DEF Main, Startup, Starting, Stopping, Tracing
  <2>3. UNCHANGED <<app, sink>>
    BY <1>11 DEF StopsPumps
  <2>4. At' \notin {"free_app", "cancel_trace", "join_trace"}
    BY <2>1 DEF Follows, Turns, Edge, Goals
  <2> QED
    BY <2>2, <2>3, <2>4, SinkStays
<1>12. ASSUME JoinsPumps PROVE SinkInv'
  <2>1. Follows("join_pumps")
    BY <1>12, PlainSteps DEF CountInv, TypeOK
  <2>2. Logging' => Logging
    BY <1>12, MainDoesNotLog DEF Main, Startup, Starting, Stopping, Tracing
  <2>3. UNCHANGED <<app, sink>>
    BY <1>12 DEF JoinsPumps
  <2>4. At' \notin {"free_app", "cancel_trace", "join_trace"}
    BY <2>1 DEF Follows, Turns, Edge, Goals
  <2> QED
    BY <2>2, <2>3, <2>4, SinkStays
<1>13. ASSUME ClosesListener PROVE SinkInv'
  <2>1. Follows("close_listener")
    BY <1>13, PlainSteps DEF CountInv, TypeOK
  <2>2. Logging' => Logging
    BY <1>13, MainDoesNotLog DEF Main, Startup, Starting, Stopping, Tracing
  <2>3. UNCHANGED <<app, sink>>
    BY <1>13 DEF ClosesListener
  <2>4. At' \notin {"free_app", "cancel_trace", "join_trace"}
    BY <2>1 DEF Follows, Turns, Edge, Goals
  <2> QED
    BY <2>2, <2>3, <2>4, SinkStays
<1>14. ASSUME JoinsAcceptor PROVE SinkInv'
  <2>1. Follows("join_acceptor")
    BY <1>14, PlainSteps DEF CountInv, TypeOK
  <2>2. Logging' => Logging
    BY <1>14, MainDoesNotLog DEF Main, Startup, Starting, Stopping, Tracing
  <2>3. UNCHANGED <<app, sink>>
    BY <1>14 DEF JoinsAcceptor
  <2>4. At' \notin {"free_app", "cancel_trace", "join_trace"}
    BY <2>1 DEF Follows, Turns, Edge, Goals
  <2> QED
    BY <2>2, <2>3, <2>4, SinkStays
<1>15. ASSUME JoinsWorkers PROVE SinkInv'
  <2>1. Follows("join_workers")
    BY <1>15, PlainSteps DEF CountInv, TypeOK
  <2>2. Logging' => Logging
    BY <1>15, MainDoesNotLog DEF Main, Startup, Starting, Stopping, Tracing
  <2>3. UNCHANGED <<app, sink>>
    BY <1>15 DEF JoinsWorkers
  <2>4. At' \notin {"free_app", "cancel_trace", "join_trace"}
    BY <2>1 DEF Follows, Turns, Edge, Goals
  <2> QED
    BY <2>2, <2>3, <2>4, SinkStays
<1>16. ASSUME FreesRelay PROVE SinkInv'
  <2>1. Follows("free_relay")
    BY <1>16, PlainSteps DEF CountInv, TypeOK
  <2>2. Logging' => Logging
    BY <1>16, MainDoesNotLog DEF Main, Startup, Starting, Stopping, Tracing
  <2>3. UNCHANGED <<app, sink>>
    BY <1>16 DEF FreesRelay
  <2>4. At' \notin {"free_app", "cancel_trace", "join_trace"}
    BY <2>1 DEF Follows, Turns, Edge, Goals
  <2> QED
    BY <2>2, <2>3, <2>4, SinkStays
<1>17. ASSUME FreesNat PROVE SinkInv'
  <2>1. Follows("free_nat")
    BY <1>17, PlainSteps DEF CountInv, TypeOK
  <2>2. Logging' => Logging
    BY <1>17, MainDoesNotLog DEF Main, Startup, Starting, Stopping, Tracing
  <2>3. UNCHANGED <<app, sink>>
    BY <1>17 DEF FreesNat
  <2>4. At' \notin {"free_app", "cancel_trace", "join_trace"}
    BY <2>1 DEF Follows, Turns, Edge, Goals
  <2> QED
    BY <2>2, <2>3, <2>4, SinkStays
<1>18. ASSUME FreesBackend PROVE SinkInv'
  <2>1. Follows("free_backend")
    BY <1>18, PlainSteps DEF CountInv, TypeOK
  <2>2. Logging' => Logging
    BY <1>18, MainDoesNotLog DEF Main, Startup, Starting, Stopping, Tracing
  <2>3. UNCHANGED <<app, sink>>
    BY <1>18 DEF FreesBackend
  <2>4. At' \notin {"free_app", "cancel_trace", "join_trace"}
    BY <2>1 DEF Follows, Turns, Edge, Goals
  <2> QED
    BY <2>2, <2>3, <2>4, SinkStays
<1>19. ASSUME OtherBackend PROVE SinkInv'
  <2>1. Follows("other_backend")
    BY <1>19, PlainSteps DEF CountInv, TypeOK
  <2>2. Logging' => Logging
    BY <1>19, MainDoesNotLog DEF Main, Startup, Starting, Stopping, Tracing
  <2>3. UNCHANGED <<app, sink>>
    BY <1>19 DEF OtherBackend
  <2>4. At' \notin {"free_app", "cancel_trace", "join_trace"}
    BY <2>1 DEF Follows, Turns, Edge, Goals
  <2> QED
    BY <2>2, <2>3, <2>4, SinkStays
<1>20. ASSUME Stopped PROVE SinkInv'
  <2>1. Follows("stopped")
    BY <1>20, PlainSteps DEF CountInv, TypeOK
  <2>2. Logging' => Logging
    BY <1>20, MainDoesNotLog DEF Main, Startup, Starting, Stopping, Tracing
  <2>3. UNCHANGED <<app, sink>>
    BY <1>20 DEF Stopped
  <2>4. At' \notin {"free_app", "cancel_trace", "join_trace"}
    BY <2>1 DEF Follows, Turns, Edge, Goals
  <2> QED
    BY <2>2, <2>3, <2>4, SinkStays
<1>21. ASSUME StopsChecker PROVE SinkInv'
  <2>1. Follows("stop_checker")
    BY <1>21, PlainSteps DEF CountInv, TypeOK
  <2>2. Logging' => Logging
    BY <1>21, MainDoesNotLog DEF Main, Startup, Starting, Stopping, Tracing
  <2>3. UNCHANGED <<app, sink>>
    BY <1>21 DEF StopsChecker
  <2>4. At' \notin {"free_app", "cancel_trace", "join_trace"}
    BY <2>1 DEF Follows, Turns, Edge, Goals
  <2> QED
    BY <2>2, <2>3, <2>4, SinkStays
<1>22. ASSUME JoinsChecker PROVE SinkInv'
  <2>1. Follows("join_checker")
    BY <1>22, PlainSteps DEF CountInv, TypeOK
  <2>2. Logging' => Logging
    BY <1>22, MainDoesNotLog DEF Main, Startup, Starting, Stopping, Tracing
  <2>3. UNCHANGED <<app, sink>>
    BY <1>22 DEF JoinsChecker
  <2>4. At' \notin {"free_app", "cancel_trace", "join_trace"}
    BY <2>1 DEF Follows, Turns, Edge, Goals
  <2> QED
    BY <2>2, <2>3, <2>4, SinkStays
<1>23. ASSUME DropsSink PROVE SinkInv'
  <2>1. Follows("drop_sink")
    BY <1>23, PlainSteps DEF CountInv, TypeOK
  <2>2. Logging' => Logging
    BY <1>23, MainDoesNotLog DEF Main, Startup, Starting, Stopping, Tracing
  <2> QED
    BY <1>23, <2>2 DEF DropsSink, SinkInv, Logging
<1>24. ASSUME FreesApp PROVE SinkInv'
  <2>1. Follows("free_app")
    BY <1>24, PlainSteps DEF CountInv, TypeOK
  <2>2. Own = None
    BY <2>1 DEF CountInv, Objects, BackendThere, EngineThere, EngineGone, Follows, Own
  <2>3. NoConns /\ PumpsRest /\ ~sink /\ \A r \in Relays : acceptor[r] = "none"
    BY <2>1, <2>2, NoBackend DEF OneRelay, PumpsInv, MayPump, SinkInv, Follows
  <2>4. UNCHANGED <<conns, acceptor, pumps, sink>>
    BY <1>24 DEF FreesApp, relayVars
  <2> QED
    BY <2>3, <2>4 DEF SinkInv, Logging, NoConns, PumpsRest
<1>25. ASSUME Releases PROVE SinkInv'
  <2>1. Follows("release_engine") \/ Follows("release_main")
    BY <1>25, PlainSteps DEF CountInv, TypeOK
  <2>2. Logging' => Logging
    BY <1>25, MainDoesNotLog DEF Main, Startup, Starting, Stopping, Tracing
  <2>3. UNCHANGED <<app, sink>>
    BY <1>25 DEF Releases
  <2>4. At' \notin {"free_app", "cancel_trace", "join_trace"}
    BY <2>1 DEF Follows, Turns, Edge, Goals
  <2> QED
    BY <2>2, <2>3, <2>4, SinkStays
<1>26. ASSUME StartsTrace PROVE SinkInv'
  <2>1. Follows("start_trace")
    BY <1>26, PlainSteps DEF CountInv, TypeOK
  <2>2. Logging' => Logging
    BY <1>26, MainDoesNotLog DEF Main, Startup, Starting, Stopping, Tracing
  <2>3. UNCHANGED <<app, sink>>
    BY <1>26 DEF StartsTrace
  <2>4. At' \notin {"free_app", "cancel_trace", "join_trace"}
    BY <2>1 DEF Follows, Turns, Edge, Goals
  <2> QED
    BY <2>2, <2>3, <2>4, SinkStays
<1>27. ASSUME CancelsTrace PROVE SinkInv'
  <2>1. Follows("cancel_trace")
    BY <1>27, PlainSteps DEF CountInv, TypeOK
  <2>2. Logging' => Logging
    BY <1>27, MainDoesNotLog DEF Main, Startup, Starting, Stopping, Tracing
  <2>3. UNCHANGED <<app, sink>>
    BY <1>27 DEF CancelsTrace
  <2> QED
    BY <2>1, <2>2, <2>3 DEF SinkInv, Logging, Follows, Edge, Goals
<1>28. ASSUME JoinsTrace PROVE SinkInv'
  <2>1. Follows("join_trace")
    BY <1>28, PlainSteps DEF CountInv, TypeOK
  <2>2. Logging' => Logging
    BY <1>28, MainDoesNotLog DEF Main, Startup, Starting, Stopping, Tracing
  <2>3. UNCHANGED <<app, sink>>
    BY <1>28 DEF JoinsTrace
  <2> QED
    BY <2>1, <2>2, <2>3 DEF SinkInv, Logging, Follows, Edge, Goals
<1>29. ASSUME Click PROVE SinkInv'
  <2>1. UNCHANGED <<app, sink>> /\ (Logging' => Logging)
    BY <1>29, ClickIsSmall DEF Logging, relayVars
  <2>2. At' \in {"free_app", "cancel_trace", "join_trace"} => At' = "cancel_trace" /\ Goal' = "start_trace"
    BY <1>29, ClickStartFlows, ClickStopFlows, ClickBackendFlows, ClickTraceFlows, CloseWindowFlows
       DEF CountInv, TypeOK, Turns, Click
  <2> QED
    BY <2>1, <2>2, SinkStays
<1>30. ASSUME ThreadsStep PROVE SinkInv'
  BY <1>30, ThreadsKeepOrder DEF OrderInv
<1> QED
  BY <1>1, <1>2, <1>3, <1>4, <1>5, <1>6, <1>7, <1>8, <1>9, <1>10, <1>11, <1>12, <1>13, <1>14, <1>15,
     <1>16, <1>17, <1>18, <1>19, <1>20, <1>21, <1>22, <1>23, <1>24, <1>25, <1>26, <1>27, <1>28, <1>29,
     <1>30
     DEF LifecycleNext, Main, Startup, Starting, Stopping, Tracing

-----------------------------------------------------------------------------
(* The theorems.                                                           *)

\* Nothing has been made when main begins.
LEMMA InitOrder == LifecycleInit => OrderInv
<1> SUFFICES ASSUME LifecycleInit PROVE OrderInv
  OBVIOUS
<1>1. CountInv /\ At = "acquire" /\ Goal = "create_app"
  BY InitCount, InitTypes
<1>2. /\ \A r \in Relays : ~relays[r].alive /\ acceptor[r] = "none"
      /\ \A c \in Conns : conns[c].state = "none"
      /\ \A p \in Pumps : pumps[p] = "none"
      /\ ~sink /\ Own = None
  BY DEF LifecycleInit, Free, Own
<1>3. OneRelay /\ Progress
  BY <1>1, <1>2 DEF OneRelay, Progress
<1>4. PumpsInv /\ SinkInv
  BY <1>1, <1>2 DEF PumpsInv, PumpsRest, SinkInv, Logging
<1> QED
  BY <1>1, <1>3, <1>4 DEF OrderInv

\* Every step keeps the order.
LEMMA OrderInvKept ==
  ASSUME OrderInv, ~MayRetry, [LifecycleNext]_lifecycleVars
  PROVE  OrderInv'
<1>1. CASE LifecycleNext
  <2>1. CountInv'
    BY <1>1, CountInvKept DEF OrderInv
  <2> QED
    BY <1>1, <2>1, OneRelayKept, ProgressKept, PumpsKept, SinkKept DEF OrderInv
<1>2. CASE UNCHANGED lifecycleVars
  <2>1. UNCHANGED <<todo, backend, relays, acceptor, conns, pumps, app, sink, running, failed>> /\ CountInv'
    BY <1>2, CountInvKept DEF lifecycleVars, mainVars, relayVars, OrderInv
  <2>2. At' = At /\ Goal' = Goal /\ Own' = Own
    BY <2>1 DEF At, Goal, Own
  <2> QED
    BY <2>1, <2>2 DEF OrderInv, OneRelay, Progress, NoConns, PumpsInv, PumpsRest, MayPump, SinkInv, Logging
<1> QED
  BY <1>1, <1>2

\* The order in which relays, tables, pumps, the sink and the application come and go, while Start
\* is not clicked again after a pump's thread could not be started (wd_start, wd_stop,
\* pmx_relay_stop, gui_app_destroy).
THEOREM OrderInvHolds == ~MayRetry => (LifecycleSpec => []OrderInv)
<1> SUFFICES ASSUME ~MayRetry PROVE LifecycleSpec => []OrderInv
  OBVIOUS
<1>1. LifecycleInit => OrderInv
  BY InitOrder
<1>2. OrderInv /\ [LifecycleNext]_lifecycleVars => OrderInv'
  BY OrderInvKept
<1> QED
  BY <1>1, <1>2, PTL DEF LifecycleSpec

\* What a thread points to is there.
LEMMA OrderMeansAlive == OrderInv => NothingUsedAfterFree
<1> SUFFICES ASSUME OrderInv PROVE NothingUsedAfterFree
  OBVIOUS
<1>1. OneRelay /\ PumpsInv /\ SinkInv /\ Objects /\ Types
  BY DEF OrderInv, CountInv, TypeOK
<1>2. Own # None => backend # None /\ relays[Own].alive /\ Own \in Relays
  BY <1>1 DEF Own, Objects, Types, Backends
<1>3. \A c \in Conns : conns[c].state \in Alive => relays[conns[c].relay].alive /\ backend # None
  BY <1>1, <1>2 DEF OneRelay, Alive
<1>4. \A c \in Conns : conns[c].state = "closing" => backend.nat
  BY <1>1 DEF OneRelay
<1>5. \A r \in Relays : acceptor[r] \in Accepting => relays[r].alive /\ todo # <<"end">>
  <2>1. \A r \in Relays : acceptor[r] \in Accepting => relays[r].alive /\ backend # None
    BY <1>1, <1>2, LifecycleAssumption DEF OneRelay, Accepting
  <2>2. backend # None => todo # <<"end">>
    BY <1>1 DEF Objects, BackendThere, EngineThere, EngineGone, At, First
  <2> QED
    BY <2>1, <2>2
<1>6. \A p \in Pumps : pumps[p] \in {"run", "logging"} =>
        backend # None /\ (backend.kind = "windivert" => backend.nat /\ backend.relay # None)
  BY <1>1 DEF PumpsInv
<1>7. Logging => app
  BY <1>1 DEF SinkInv
<1> QED
  BY <1>3, <1>4, <1>5, <1>6, <1>7 DEF NothingUsedAfterFree

\* A worker, an acceptor, a pump or whoever logs finds the relay, the backend, the table and the
\* application it points to: the joins of pmx_relay_stop, wd_stop and gui_app_destroy come before
\* what they free, on every path that ends a start, a stop or the program.
THEOREM NothingIsUsedAfterFree == ~MayRetry => (LifecycleSpec => []NothingUsedAfterFree)
<1> SUFFICES ASSUME ~MayRetry PROVE LifecycleSpec => []NothingUsedAfterFree
  OBVIOUS
<1>1. LifecycleSpec => []OrderInv
  BY OrderInvHolds
<1> QED
  BY <1>1, OrderMeansAlive, PTL

\* Between two frames a relay that lives is the backend's own.
LEMMA OrderMeansKnown == OrderInv => NothingIsStranded
<1> SUFFICES ASSUME OrderInv, Frame, NEW r \in Relays, relays[r].alive
             PROVE  backend.relay = r /\ (running \/ failed)
  BY DEF NothingIsStranded
<1>1. Own = r /\ r # None
  BY LifecycleAssumption DEF OrderInv, OneRelay
<1>2. backend.relay = r
  BY <1>1 DEF Own
<1>3. running \/ failed
  BY <1>1, FrameIsAt DEF OrderInv, Progress
<1> QED
  BY <1>2, <1>3

\* A start that fails leaves no relay behind, but the one whose pump's thread could not be started;
\* and a relay that lives is one that the next stop ends (wd_start's error paths, wd_stop).
THEOREM NothingStaysStranded == ~MayRetry => (LifecycleSpec => []NothingIsStranded)
<1> SUFFICES ASSUME ~MayRetry PROVE LifecycleSpec => []NothingIsStranded
  OBVIOUS
<1>1. LifecycleSpec => []OrderInv
  BY OrderInvHolds
<1> QED
  BY <1>1, OrderMeansKnown, PTL

=============================================================================
