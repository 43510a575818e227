----------------------------- MODULE Lifecycle -----------------------------
(***************************************************************************)
(* Who owns which thread and which object, and in which order they come    *)
(* and go: the entry point (gui_main.c), the application (gui_app.c), the  *)
(* engine (pmx_engine.c), its two backends (backend_windivert.c,           *)
(* backend_stub.c), the relay and its workers (pmx_relay.c), the checker's *)
(* worker, a route trace (pmx_netpath.c), the log's sink (pmx_log.c) and   *)
(* the count that keeps Winsock up (pmx_net.c).                            *)
(*                                                                         *)
(* The GUI thread's code is the list of the steps it still has to take:    *)
(* a click, or the end of the frame loop, gives it a list, and a step that *)
(* fails exchanges the rest.  A join is a step that waits.  What the       *)
(* threads do for the flows is in Redirect, Dial, Verdicts and Checker;    *)
(* here a thread only lives, uses what it points to, logs, and ends.       *)
(***************************************************************************)
EXTENDS Integers, Sequences, FiniteSets

CONSTANTS
  Relays,      \* relays there may be, live ones and forgotten ones
  Conns,       \* PMX_RELAY_MAX_CONNS connections, fewer here
  MayRetry,    \* Start is clicked again after a pump's thread could not be started
  None

\* What the engine's backend can be.
Backends == [kind : {"stub", "windivert"}, running : BOOLEAN, relay : Relays \cup {None}, nat : BOOLEAN]

ASSUME LifecycleAssumption ==
  /\ MayRetry \in BOOLEAN /\ IsFiniteSet(Relays) /\ IsFiniteSet(Conns)
  /\ None \notin Relays /\ None \notin Backends

VARIABLES
  todo,      \* steps the GUI thread has yet to take
  running,   \* engine.running
  backend,   \* [kind, running, relay, nat]: the wd_impl or the stub_impl, or None
  failed,    \* a pump's thread could not be started
  relays,    \* [alive, running] of each relay; pending: a destination waits in its table
  acceptor,  \* its accept thread
  harvest,   \* the finished connections relay_reap is joining
  conns,     \* connections: [state, relay]
  pumps,     \* the backend's threads; the stub has one
  trace,     \* the MTR job: [state, cancel]
  checker,   \* a checker's worker: [state, running]
  refs,      \* g_wsa_refs
  app,       \* the application exists
  sink       \* the log's sink points to it

mainVars      == <<running, backend, failed>>
relayVars     == <<relays, acceptor, harvest, conns>>
lifecycleVars == <<todo, mainVars, relayVars, pumps, trace, checker, refs, app, sink>>

Pumps == {"pump", "net_pump"}
Accepting == {"accept", "reap", "logging"}
Free  == [state |-> "none", relay |-> None]
Alive == {"dial", "logging", "splice", "busy", "done", "closing"}

-----------------------------------------------------------------------------
(* The GUI thread's programs.                                              *)

\* pmx_relay_stop.
RelayStop_JoinFirst == <<"join_acceptor", "close_listener", "join_workers", "free_relay">>
RelayStop == <<"close_listener", "join_acceptor", "join_workers", "free_relay">>

\* wd_stop and stub_stop.
BackendStop == <<"stop_pumps", "join_pumps">> \o RelayStop \o <<"free_nat">>

\* pmx_engine_destroy, wd_destroy and pmx_checker_destroy.
EngineDestroy ==
  BackendStop \o <<"free_backend", "stop_checker", "join_checker", "release_engine">>

\* pmx_mtr_free.
TraceFree == <<"cancel_trace", "join_trace">>

\* The end of main; gui_app_destroy.
Exit == EngineDestroy \o <<"drop_sink">> \o TraceFree \o <<"free_app", "release_main", "end">>

\* The beginning of main, up to the frame loop.
Boot == <<"acquire", "create_engine", "open_window", "create_app">>

LifecycleInit ==
  /\ todo = Boot
  /\ running = FALSE /\ backend = None /\ failed = FALSE
  /\ relays = [r \in Relays |-> [alive |-> FALSE, running |-> FALSE, pending |-> FALSE]]
  /\ acceptor = [r \in Relays |-> "none"] /\ harvest = [r \in Relays |-> {}]
  /\ conns = [c \in Conns |-> Free]
  /\ pumps = [p \in Pumps |-> "none"]
  /\ trace = [state |-> "none", cancel |-> FALSE]
  /\ checker = [state |-> "none", running |-> FALSE]
  /\ refs = 0 /\ app = FALSE /\ sink = FALSE

\* The next step, and the rest of the program.
Next_(step) == todo # <<>> /\ Head(todo) = step
Done        == todo' = Tail(todo)
Instead(l)  == todo' = l

\* pmx_net_init and pmx_net_shutdown, which clamps at zero; a failed WSAStartup is left out.
Acquire == refs' = refs + 1
Release == refs' = IF refs = 0 THEN 0 ELSE refs - 1

Acquires ==
  /\ Next_("acquire") /\ Acquire /\ Done
  /\ UNCHANGED <<mainVars, relayVars, pumps, trace, checker, app, sink>>

Releases ==
  /\ Next_("release_engine") \/ Next_("release_main")
  /\ Release /\ Done
  /\ UNCHANGED <<mainVars, relayVars, pumps, trace, checker, app, sink>>

\* An engine is created with the stub behind it, or not at all: what was made of it is then
\* destroyed, and main ends.
CreatesEngine ==
  /\ Next_("create_engine")
  /\ \/ /\ Acquire /\ Done
        /\ backend' = [kind |-> "stub", running |-> FALSE, relay |-> None, nat |-> FALSE]
        /\ checker' = [state |-> "wait", running |-> TRUE]
     \/ Instead(<<"end">>) /\ UNCHANGED <<refs, backend, checker>>
  /\ UNCHANGED <<running, failed, relayVars, pumps, trace, app, sink>>

OpensWindow ==
  /\ Next_("open_window")
  /\ Done \/ Instead(EngineDestroy \o <<"release_main", "end">>)
  /\ UNCHANGED <<mainVars, relayVars, pumps, trace, checker, refs, app, sink>>

CreatesApp ==
  /\ Next_("create_app")
  /\ \/ Done /\ app' = TRUE /\ sink' = TRUE
     \/ Instead(EngineDestroy \o <<"release_main", "end">>) /\ UNCHANGED <<app, sink>>
  /\ UNCHANGED <<mainVars, relayVars, pumps, trace, checker, refs>>

Startup == Acquires \/ CreatesEngine \/ OpensWindow \/ CreatesApp

-----------------------------------------------------------------------------
(* Clicks, and the end of the frame loop.                                  *)

\* The frame loop is at rest between two frames.
Frame == todo = <<>>

ClickStart ==
  /\ Frame /\ ~running /\ (failed => MayRetry)
  /\ todo' = IF backend.kind = "stub" THEN <<"start_demo", "started">>
             ELSE <<"open_relay", "create_nat", "open_net", "start_pump", "start_net_pump", "started">>
  /\ UNCHANGED <<mainVars, relayVars, pumps, trace, checker, refs, app, sink>>

ClickStop ==
  /\ Frame /\ running
  /\ todo' = BackendStop \o <<"stopped">>
  /\ UNCHANGED <<mainVars, relayVars, pumps, trace, checker, refs, app, sink>>

\* Settings switches the backend of a stopped engine: pmx_engine_set_backend.
ClickBackend ==
  /\ Frame /\ ~running
  /\ todo' = BackendStop \o <<"free_backend", "other_backend">>
  /\ UNCHANGED <<mainVars, relayVars, pumps, trace, checker, refs, app, sink>>

\* gui_app_start_path_scan: the job of the scan before is freed first.
ClickTrace ==
  /\ Frame
  /\ todo' = (IF trace.state = "none" THEN <<>> ELSE TraceFree) \o <<"start_trace">>
  /\ UNCHANGED <<mainVars, relayVars, pumps, trace, checker, refs, app, sink>>

CloseWindow ==
  /\ Frame
  /\ todo' = (IF running THEN BackendStop \o <<"stopped">> ELSE <<>>) \o Exit
  /\ UNCHANGED <<mainVars, relayVars, pumps, trace, checker, refs, app, sink>>

Click == ClickStart \/ ClickStop \/ ClickBackend \/ ClickTrace \/ CloseWindow

-----------------------------------------------------------------------------
(* Starting: wd_start, stub_start, pmx_relay_start, pmx_engine_start.      *)

\* pmx_relay_start gives back what it took when it cannot listen, or has no thread.
RelayFails_Unbalanced == Release
RelayFails == UNCHANGED refs

\* The relay that is opened, and forgotten when there already was one.
OpensRelay ==
  /\ Next_("open_relay")
  /\ \/ \E r \in Relays :
          /\ ~relays[r].alive
          /\ relays' = [relays EXCEPT ![r] = [alive |-> TRUE, running |-> TRUE, pending |-> FALSE]]
          /\ acceptor' = [acceptor EXCEPT ![r] = "accept"]
          /\ backend' = [backend EXCEPT !.relay = r]
          /\ Acquire /\ Done
     \/ Instead(<<>>) /\ RelayFails /\ UNCHANGED <<relays, acceptor, backend>>
  /\ UNCHANGED <<running, failed, harvest, conns, pumps, trace, checker, app, sink>>

CreatesNat ==
  /\ Next_("create_nat")
  /\ \/ backend' = [backend EXCEPT !.nat = TRUE] /\ Done
     \/ Instead(RelayStop) /\ UNCHANGED backend
  /\ UNCHANGED <<running, failed, relayVars, pumps, trace, checker, refs, app, sink>>

\* The network layer is opened, or everything made so far is undone.
NetFails_KeepsRelay == <<"free_nat">>
NetFails == <<"free_nat">> \o RelayStop

OpensNet ==
  /\ Next_("open_net")
  /\ \/ Done /\ backend' = [backend EXCEPT !.running = TRUE]
     \/ Instead(NetFails) /\ UNCHANGED backend
  /\ UNCHANGED <<running, failed, relayVars, pumps, trace, checker, refs, app, sink>>

\* A pump's thread starts; when it cannot, the relay and the table stay, and so does the
\* first pump, which sees that it is to end.
StartsPump(p) ==
  /\ Next_(IF p = "pump" THEN "start_pump" ELSE "start_net_pump")
  /\ \/ Done /\ pumps' = [pumps EXCEPT ![p] = "run"] /\ UNCHANGED <<backend, failed>>
     \/ /\ Instead(<<>>) /\ failed' = TRUE
        /\ backend' = [backend EXCEPT !.running = FALSE] /\ UNCHANGED pumps
  /\ UNCHANGED <<running, relayVars, trace, checker, refs, app, sink>>

\* The stub runs without its thread when that cannot be started, or demo traffic is off.
StartsDemo ==
  /\ Next_("start_demo") /\ Done
  /\ backend' = [backend EXCEPT !.running = TRUE]
  /\ pumps' \in {pumps, [pumps EXCEPT !["pump"] = "run"]}
  /\ UNCHANGED <<running, failed, relayVars, trace, checker, refs, app, sink>>

Started ==
  /\ Next_("started") /\ Done /\ running' = TRUE
  /\ UNCHANGED <<backend, failed, relayVars, pumps, trace, checker, refs, app, sink>>

Starting == OpensRelay \/ CreatesNat \/ OpensNet \/ (\E p \in Pumps : StartsPump(p)) \/ StartsDemo \/ Started

-----------------------------------------------------------------------------
(* Stopping.                                                               *)

StopsPumps ==
  /\ Next_("stop_pumps") /\ Done
  /\ backend' = [backend EXCEPT !.running = FALSE]
  /\ UNCHANGED <<running, failed, relayVars, pumps, trace, checker, refs, app, sink>>

JoinsPumps ==
  /\ Next_("join_pumps") /\ Done
  /\ \A p \in Pumps : pumps[p] \in {"none", "ended"}
  /\ pumps' = [p \in Pumps |-> "none"]
  /\ UNCHANGED <<mainVars, relayVars, trace, checker, refs, app, sink>>

Own == IF backend = None THEN None ELSE backend.relay

ClosesListener ==
  /\ Next_("close_listener") /\ Done
  /\ relays' = [r \in Relays |-> IF r = Own THEN [relays[r] EXCEPT !.running = FALSE] ELSE relays[r]]
  /\ UNCHANGED <<mainVars, acceptor, harvest, conns, pumps, trace, checker, refs, app, sink>>

JoinsAcceptor ==
  /\ Next_("join_acceptor") /\ Done
  /\ Own # None => acceptor[Own] = "ended"
  /\ UNCHANGED <<mainVars, relayVars, pumps, trace, checker, refs, app, sink>>

\* For two seconds the workers that have finished are joined, then all the others.
JoinsWorkers ==
  /\ Next_("join_workers") /\ Done
  /\ \A c \in Conns : conns[c].relay = Own /\ Own # None => conns[c].state = "ended"
  /\ conns' = [c \in Conns |-> IF conns[c].relay = Own THEN Free ELSE conns[c]]
  /\ UNCHANGED <<mainVars, relays, acceptor, harvest, pumps, trace, checker, refs, app, sink>>

FreesRelay ==
  /\ Next_("free_relay") /\ Done
  /\ IF Own = None THEN UNCHANGED <<backend, relays, acceptor, refs>>
     ELSE /\ relays' = [relays EXCEPT ![Own].alive = FALSE]
          /\ acceptor' = [acceptor EXCEPT ![Own] = "none"]
          /\ backend' = [backend EXCEPT !.relay = None]
          /\ Release
  /\ UNCHANGED <<running, failed, harvest, conns, pumps, trace, checker, app, sink>>

FreesNat ==
  /\ Next_("free_nat") /\ Done
  /\ backend' = [backend EXCEPT !.nat = FALSE]
  /\ UNCHANGED <<running, failed, relayVars, pumps, trace, checker, refs, app, sink>>

FreesBackend ==
  /\ Next_("free_backend") /\ Done
  /\ backend' = None
  /\ UNCHANGED <<running, failed, relayVars, pumps, trace, checker, refs, app, sink>>

OtherBackend ==
  /\ Next_("other_backend") /\ Done
  /\ \E k \in {"stub", "windivert"} :
       backend' = [kind |-> k, running |-> FALSE, relay |-> None, nat |-> FALSE]
  /\ failed' = FALSE
  /\ UNCHANGED <<running, relayVars, pumps, trace, checker, refs, app, sink>>

Stopped ==
  /\ Next_("stopped") /\ Done /\ running' = FALSE
  /\ UNCHANGED <<backend, failed, relayVars, pumps, trace, checker, refs, app, sink>>

StopsChecker ==
  /\ Next_("stop_checker") /\ Done
  /\ checker' = [checker EXCEPT !.running = FALSE]
  /\ UNCHANGED <<mainVars, relayVars, pumps, trace, refs, app, sink>>

JoinsChecker ==
  /\ Next_("join_checker") /\ Done /\ checker.state = "ended"
  /\ UNCHANGED <<mainVars, relayVars, pumps, trace, checker, refs, app, sink>>

DropsSink ==
  /\ Next_("drop_sink") /\ Done /\ sink' = FALSE
  /\ UNCHANGED <<mainVars, relayVars, pumps, trace, checker, refs, app>>

FreesApp ==
  /\ Next_("free_app") /\ Done /\ app' = FALSE
  /\ UNCHANGED <<mainVars, relayVars, pumps, trace, checker, refs, sink>>

Stopping ==
  \/ StopsPumps \/ JoinsPumps \/ ClosesListener \/ JoinsAcceptor \/ JoinsWorkers \/ FreesRelay
  \/ FreesNat \/ FreesBackend \/ OtherBackend \/ Stopped \/ StopsChecker \/ JoinsChecker
  \/ DropsSink \/ FreesApp \/ Releases

StartsTrace ==
  /\ Next_("start_trace") /\ Done
  /\ trace' \in {trace, [state |-> "begun", cancel |-> FALSE]}
  /\ UNCHANGED <<mainVars, relayVars, pumps, checker, refs, app, sink>>

CancelsTrace ==
  /\ Next_("cancel_trace") /\ Done
  /\ trace' = [trace EXCEPT !.cancel = TRUE]
  /\ UNCHANGED <<mainVars, relayVars, pumps, checker, refs, app, sink>>

JoinsTrace ==
  /\ Next_("join_trace") /\ Done /\ trace.state \in {"none", "ended"}
  /\ trace' = [state |-> "none", cancel |-> FALSE]
  /\ UNCHANGED <<mainVars, relayVars, pumps, checker, refs, app, sink>>

Tracing == StartsTrace \/ CancelsTrace \/ JoinsTrace

Main == Startup \/ Starting \/ Stopping \/ Tracing

-----------------------------------------------------------------------------
(* The threads.                                                            *)

\* wd_pump, wd_net_pump and demo_worker log now and then.  pmx_logv takes the sink under the
\* log's mutex and calls it outside.
PumpLogs(p) ==
  /\ pumps[p] = "run" /\ sink
  /\ pumps' = [pumps EXCEPT ![p] = "logging"]
  /\ UNCHANGED <<todo, mainVars, relayVars, trace, checker, refs, app, sink>>

PumpLogged(p) ==
  /\ pumps[p] = "logging"
  /\ pumps' = [pumps EXCEPT ![p] = IF backend # None /\ backend.running THEN "run" ELSE "ended"]
  /\ UNCHANGED <<todo, mainVars, relayVars, trace, checker, refs, app, sink>>

\* The pump registers a flow's destination with the relay (pmx_relay_register).
PumpRegisters ==
  /\ pumps["pump"] = "run" /\ backend # None /\ backend.kind = "windivert" /\ backend.relay # None
  /\ ~relays[backend.relay].pending
  /\ relays' = [relays EXCEPT ![backend.relay].pending = TRUE]
  /\ UNCHANGED <<todo, mainVars, acceptor, harvest, conns, pumps, trace, checker, refs, app, sink>>

PumpEnds(p) ==
  /\ pumps[p] = "run" /\ (backend # None => ~backend.running)
  /\ pumps' = [pumps EXCEPT ![p] = "ended"]
  /\ UNCHANGED <<todo, mainVars, relayVars, trace, checker, refs, app, sink>>

\* relay_accept_worker: a client is accepted, the finished connections are joined, and the client
\* gets a worker.
Accepts(r) ==
  /\ acceptor[r] = "accept" /\ relays[r].running
  /\ acceptor' = [acceptor EXCEPT ![r] = "reap"]
  /\ harvest' = [harvest EXCEPT ![r] = {c \in Conns : conns[c].relay = r /\ conns[c].state \in {"done", "closing", "ended"}}]
  /\ UNCHANGED <<todo, mainVars, relays, conns, pumps, trace, checker, refs, app, sink>>

\* relay_reap: the connections once the finished ones have been joined.
Reaped(r) == [c \in Conns |-> IF c \in harvest[r] THEN Free ELSE conns[c]]

\* A client without a destination is sent away; one with a destination takes it (relay_take), and
\* may still find no room or no thread.  The log is told of a client that gets no worker, unless
\* there is no memory for one.
Destined_Anyone(r) == TRUE
Destined(r) == relays[r].pending

Serves(r) ==
  /\ acceptor[r] = "reap" /\ \A c \in harvest[r] : conns[c].state = "ended"
  /\ \/ /\ conns' = Reaped(r) /\ UNCHANGED relays
        /\ acceptor' = [acceptor EXCEPT ![r] = IF sink THEN "logging" ELSE "accept"]
     \/ /\ Destined(r)
        /\ \/ conns' = Reaped(r) /\ acceptor' = [acceptor EXCEPT ![r] = "accept"]
           \/ conns' = Reaped(r) /\ sink /\ acceptor' = [acceptor EXCEPT ![r] = "logging"]
           \/ \E c \in Conns, s \in {"dial", "ended"} :
                /\ Reaped(r)[c].state = "none"
                /\ conns' = [Reaped(r) EXCEPT ![c] = [state |-> s, relay |-> r]]
                /\ acceptor' = [acceptor EXCEPT ![r] = IF s = "ended" /\ sink THEN "logging" ELSE "accept"]
        /\ relays' = [relays EXCEPT ![r].pending = FALSE]
  /\ harvest' = [harvest EXCEPT ![r] = {}]
  /\ UNCHANGED <<todo, mainVars, pumps, trace, checker, refs, app, sink>>

AcceptorLogged(r) ==
  /\ acceptor[r] = "logging"
  /\ acceptor' = [acceptor EXCEPT ![r] = "accept"]
  /\ UNCHANGED <<todo, mainVars, relays, harvest, conns, pumps, trace, checker, refs, app, sink>>

AcceptorEnds(r) ==
  /\ acceptor[r] = "accept" /\ ~relays[r].running
  /\ acceptor' = [acceptor EXCEPT ![r] = "ended"]
  /\ UNCHANGED <<todo, mainVars, relays, harvest, conns, pumps, trace, checker, refs, app, sink>>

\* A connection's worker goes from one state to another.
Worker(c, from, to) ==
  /\ conns[c].state = from
  /\ conns' = [conns EXCEPT ![c].state = to]
  /\ UNCHANGED <<todo, mainVars, relays, acceptor, harvest, pumps, trace, checker, refs, app, sink>>

\* relay_conn_worker: it dials, logs how that went, splices, and tells the backend that the flow
\* has ended after it has said so to the relay.
Dials(c)  == IF sink THEN Worker(c, "dial", "logging")
             ELSE Worker(c, "dial", "splice") \/ Worker(c, "dial", "done")
Logs(c)   == Worker(c, "logging", "splice") \/ Worker(c, "logging", "done")

\* The splice loop: bytes come in from one end and go out at the other, which may take as long as
\* that end likes (pmx_send_all), or fail; only a tick without any asks whether the relay is to end.
Moves(c)    == Worker(c, "splice", "busy")
Moved(c)    == Worker(c, "busy", "splice")
FlowEnds(c) == Worker(c, "splice", "done") \/ Worker(c, "busy", "done")
Quiet(c)    == conns[c].relay # None /\ ~relays[conns[c].relay].running /\ Worker(c, "splice", "done")

\* wd_on_flow_end looks for the table, then marks the mapping.
Calls(c)  == Worker(c, "done", IF backend # None /\ backend.nat THEN "closing" ELSE "ended")
Marks(c)  == Worker(c, "closing", "ended")

\* A check needs Winsock, and so does a trace.
CheckerStep ==
  /\ \/ /\ checker.state = "wait" /\ checker.running
        /\ checker' = [checker EXCEPT !.state = "check"] /\ Acquire
     \/ checker.state = "check" /\ checker' = [checker EXCEPT !.state = "wait"] /\ Release
     \/ /\ checker.state = "wait" /\ ~checker.running
        /\ checker' = [checker EXCEPT !.state = "ended"] /\ UNCHANGED refs
  /\ UNCHANGED <<todo, mainVars, relayVars, pumps, trace, app, sink>>

\* mtr_worker: it ends by itself, or sees that it is cancelled.
TraceStep ==
  /\ \/ trace.state = "begun" /\ trace' = [trace EXCEPT !.state = "run"] /\ Acquire
     \/ trace.state = "run" /\ trace' = [trace EXCEPT !.state = "ended"] /\ Release
  /\ UNCHANGED <<todo, mainVars, relayVars, pumps, checker, app, sink>>

ThreadsStep ==
  \/ PumpRegisters \/ \E p \in Pumps : PumpLogs(p) \/ PumpLogged(p) \/ PumpEnds(p)
  \/ \E r \in Relays : Accepts(r) \/ Serves(r) \/ AcceptorLogged(r) \/ AcceptorEnds(r)
  \/ \E c \in Conns : \/ Dials(c) \/ Logs(c) \/ Moves(c) \/ Moved(c) \/ FlowEnds(c) \/ Quiet(c)
                       \/ Calls(c) \/ Marks(c)
  \/ CheckerStep \/ TraceStep

LifecycleNext == Click \/ Main \/ ThreadsStep
LifecycleSpec == LifecycleInit /\ [][LifecycleNext]_lifecycleVars

\* Every thread is scheduled, and what it waits for outside the program has a limit: a dial, a check
\* and a probe have time limits, and waiting for bytes is waiting for a tick.  Moving bytes has none:
\* a flow may be busy for ever, tick by tick or in one pmx_send_all.
FairLifecycleSpec ==
  /\ LifecycleSpec
  /\ WF_lifecycleVars(Main)
  /\ \A p \in Pumps : WF_lifecycleVars(PumpLogged(p)) /\ WF_lifecycleVars(PumpEnds(p))
  /\ \A r \in Relays : /\ WF_lifecycleVars(Serves(r)) /\ WF_lifecycleVars(AcceptorLogged(r))
                       /\ WF_lifecycleVars(AcceptorEnds(r))
  /\ \A c \in Conns : /\ WF_lifecycleVars(Dials(c)) /\ WF_lifecycleVars(Logs(c))
                      /\ WF_lifecycleVars(Quiet(c))
                      /\ WF_lifecycleVars(Calls(c)) /\ WF_lifecycleVars(Marks(c))
  /\ WF_lifecycleVars(CheckerStep) /\ WF_lifecycleVars(TraceStep)

-----------------------------------------------------------------------------
\* Whoever is calling the sink.
Logging ==
  \/ \E p \in Pumps : pumps[p] = "logging"
  \/ \E r \in Relays : acceptor[r] = "logging"
  \/ \E c \in Conns : conns[c].state = "logging"

\* The threads that use what the main thread frees, while it is there: the workers and their
\* acceptor the relay, a worker's callback and the pumps the backend and the table, whoever is
\* calling the sink the application.
NothingUsedAfterFree ==
  /\ \A c \in Conns : conns[c].state \in Alive => relays[conns[c].relay].alive /\ backend # None
  /\ \A c \in Conns : conns[c].state = "closing" => backend.nat
  /\ \A r \in Relays : acceptor[r] \in Accepting => relays[r].alive /\ todo # <<"end">>
  /\ \A p \in Pumps : pumps[p] \in {"run", "logging"} =>
       backend # None /\ (backend.kind = "windivert" => backend.nat /\ backend.relay # None)
  /\ Logging => app

\* Whoever uses sockets holds Winsock up (pmx_net_init counts its users): the count is not zero
\* while a relay, a check or a trace is at work.
WinsockHeld ==
  (\E r \in Relays : relays[r].alive) \/ checker.state = "check" \/ trace.state = "run" => refs > 0

\* Between two frames a relay that runs is one the backend knows, so that a later stop ends it, and
\* it runs for an engine that does: a start that failed has undone itself (wd_start's error paths),
\* but for one whose pump's thread could not be started, which leaves its relay to the next stop.
NothingIsStranded ==
  Frame => \A r \in Relays : relays[r].alive => backend.relay = r /\ (running \/ failed)

\* The GUI thread comes back from every stop, exit and scan (the joins of pmx_relay_stop, wd_stop,
\* pmx_checker_destroy and pmx_mtr_free), unless it waits for a worker whose flow is never done
\* moving bytes: no thread it waits for waits for it, or for anything else that does not come.
Returned == todo = <<>> \/ todo = <<"end">>
WaitsForBusy(c) == Next_("join_workers") /\ conns[c].relay = Own /\ conns[c].state = "busy"

MainReturns == []<>Returned \/ \E c \in Conns : []<>WaitsForBusy(c)

-----------------------------------------------------------------------------
(* What does not hold; see the README.                                     *)

\* "Workers notice !running within one splice tick" (pmx_relay_stop): the GUI thread comes back
\* whatever the flows do.
MainAlwaysReturns == []<>Returned
=============================================================================
