-------------------------------- MODULE Redirect --------------------------------
(***************************************************************************)
(* Transparent redirection: the Windows backend's two packet pumps         *)
(* (backend_windivert.c), the local relay (pmx_relay.c) and the            *)
(* redirection table (Nat), with the applications and the operating        *)
(* system's ports around them.                                             *)
(*                                                                         *)
(* Threads: the socket pump gives each connect its verdict and, for a      *)
(* proxied one, registers it with the relay and then with the table before *)
(* it lets the SYN out; the network pump rewrites packets; the relay's     *)
(* accept thread reaps, takes registrations and starts workers; a worker   *)
(* ends its connection in two steps, done under the relay's mutex and then *)
(* the close callback.  Each step below holds at most one mutex.           *)
(***************************************************************************)
EXTENDS Nat, Sequences

CONSTANTS
  MaxPending,     \* PMX_RELAY_MAX_PENDING
  PendingTTL,     \* PMX_RELAY_ENTRY_TTL_MS
  MaxConns,       \* PMX_RELAY_MAX_CONNS
  FailClosed,     \* block_when_cannot_proxy
  RecyclePorts,   \* FALSE: a port is reused only when the relay is done with it
  MaxOpens        \* bound: connections the applications open

ASSUME RedirectAssumption ==
  /\ MaxPending \in Nat \ {0} /\ PendingTTL \in Nat \ {0} /\ MaxConns \in Nat \ {0}
  /\ FailClosed \in BOOLEAN /\ RecyclePorts \in BOOLEAN
  /\ MaxOpens \in Nat

Ids      == 1..MaxOpens
Verdicts == {"undecided", "direct", "proxy", "leaky"}
Phases   == {"closed", "asking", "deciding", "syn", "up", "direct"}

VARIABLES
  app,        \* per port: the connection an application has there
  opens,      \* connections opened so far
  pump,       \* socket pump: [pc, port]
  pending,    \* pmx_relay.pending
  backlog,    \* connections the kernel completed to the relay's listener
  acceptor,   \* accept thread: "idle" or "joining"
  harvest,    \* ids of the workers it is joining
  conns,      \* pmx_relay.conns
  exiting     \* workers between done = true and the end of the close callback

appVars   == <<app, opens>>
relayVars == <<pending, backlog, acceptor, harvest, conns, exiting>>
redirectVars == <<natVars, appVars, pump, relayVars>>

NoFlow == [phase |-> "closed", id |-> 0, dst |-> NoDst, verdict |-> "undecided", last |-> 0]
Idling == [pc |-> "idle", port |-> NoPort]

-----------------------------------------------------------------------------
\* The relay is finished with every connection this port ever carried.
Quiet(p) ==
  /\ \A i \in 1..Len(backlog) : backlog[i].port # p
  /\ \A c \in conns : c.port = p => c.done
  /\ \A e \in exiting : e.port # p

\* An application connects.  Its connect waits at the socket layer.
Connect(p, d) ==
  /\ app[p].phase = "closed" /\ opens < MaxOpens
  /\ RecyclePorts \/ Quiet(p)
  /\ opens' = opens + 1
  /\ app' = [app EXCEPT ![p] = [phase |-> "asking", id |-> opens', dst |-> d,
                                verdict |-> "undecided", last |-> now]]
  /\ UNCHANGED <<natVars, pump, relayVars>>

AppCloses(p) ==
  /\ app[p].phase \in {"syn", "up", "direct"}
  /\ app' = [app EXCEPT ![p] = NoFlow]
  /\ UNCHANGED <<natVars, opens, pump, relayVars>>

-----------------------------------------------------------------------------
\* The socket pump.

Let(p, verdict) == app' = [app EXCEPT ![p].phase = "syn", ![p].verdict = verdict]
Drop1(p)        == app' = [app EXCEPT ![p] = NoFlow]

\* A flow that cannot be redirected: blocked, or let out if fail-open.
CannotProxy(p) == IF FailClosed THEN Drop1(p) ELSE Let(p, "leaky")

\* The verdict.  A proxied flow is routable unless it is IPv6, UDP, has no
\* source port or resolved to no proxy.
Decide(p) ==
  /\ pump.pc = "idle" /\ app[p].phase = "asking"
  /\ \/ Let(p, "direct") /\ UNCHANGED pump
     \/ Drop1(p) /\ UNCHANGED pump
     \/ CannotProxy(p) /\ UNCHANGED pump
     \/ /\ app' = [app EXCEPT ![p].phase = "deciding"]
        /\ pump' = [pc |-> "register", port |-> p]
  /\ UNCHANGED <<natVars, opens, relayVars>>

\* expire_locked, run by every register and take.
Unexpired == {e \in pending : now - e.added < PendingTTL}

\* pmx_relay_register: one entry per port, at most MaxPending.
Register_EvictsWhenFull ==
  LET p    == pump.port
      kept == {e \in Unexpired : e.port # p}
  IN  /\ pump.pc = "register"
      /\ pending' = {[port |-> p, dst |-> app[p].dst, added |-> now]} \cup
                      (IF Cardinality(kept) < MaxPending THEN kept ELSE {})
      /\ pump' = [pump EXCEPT !.pc = "add"] /\ app' = [app EXCEPT ![p].last = now]
      /\ UNCHANGED <<natVars, opens, backlog, acceptor, harvest, conns, exiting>>
Register ==
  LET p    == pump.port
      mine == {e \in Unexpired : e.port = p}
  IN  /\ pump.pc = "register"
      /\ IF mine # {} \/ Cardinality(Unexpired) < MaxPending
           THEN /\ pending' = (Unexpired \ mine) \cup
                                {[port |-> p, dst |-> app[p].dst, added |-> now]}
                /\ pump' = [pump EXCEPT !.pc = "add"] /\ app' = [app EXCEPT ![p].last = now]
           ELSE pending' = Unexpired /\ pump' = Idling /\ CannotProxy(p)
      /\ UNCHANGED <<natVars, opens, backlog, acceptor, harvest, conns, exiting>>

\* pmx_nat_add, its clock read after the registration, which stays behind if
\* the table refuses.
AddMapping_StatusIgnored(t) ==
  LET p == pump.port
  IN  /\ pump.pc = "add"
      /\ t >= app[p].last /\ Add(p, app[p].dst, t)
      /\ pump' = [pump EXCEPT !.pc = "release"]
      /\ UNCHANGED <<now, appVars, relayVars>>
AddMapping(t) ==
  LET p == pump.port
  IN  /\ pump.pc = "add"
      /\ t >= app[p].last /\ Add(p, app[p].dst, t)
      /\ IF reply' = "ok"
           THEN pump' = [pump EXCEPT !.pc = "release"] /\ UNCHANGED app
           ELSE pump' = Idling /\ CannotProxy(p)
      /\ UNCHANGED <<now, opens, relayVars>>

\* wd_allow: both registrations are in place, the SYN may go.
Release ==
  /\ pump.pc = "release"
  /\ Let(pump.port, "proxy")
  /\ pump' = Idling
  /\ UNCHANGED <<natVars, opens, relayVars>>

-----------------------------------------------------------------------------
\* The network pump.

\* `last' is a history mark: the latest packet of an unbroken run, no two of
\* them more than the TTL apart.
Passed(f, t) == IF now - f.last > TTL THEN f.last ELSE t

\* A source-port match is rewritten only if the destination matches too.
Rewritten_PortOnly(p) == reply' # "miss"
Rewritten(p) == reply' = app[p].dst

\* What the kernel completes to the relay; `verdict' and `since', the time of the
\* registration, are history.
Arriving(p) == [id |-> app[p].id, port |-> p, dst |-> app[p].dst,
               verdict |-> app[p].verdict, since |-> app[p].last]

\* An outbound packet.  The first one reaches the relay's listener or the real
\* destination; one for a relay connection that is gone may come back a reset.
AppSends(p, t) ==
  /\ app[p].phase \in {"syn", "up", "direct"}
  /\ Find(p, t)
  /\ \/ /\ app[p].phase = "syn" /\ Rewritten(p)
        /\ app' = [app EXCEPT ![p].phase = "up", ![p].last = Passed(app[p], t)]
        /\ backlog' = Append(backlog, Arriving(p))
     \/ /\ app[p].phase = "syn" /\ ~Rewritten(p)
        /\ app' = [app EXCEPT ![p].phase = "direct", ![p].last = Passed(app[p], t)]
        /\ UNCHANGED backlog
     \/ /\ app[p].phase # "syn"
        /\ app' = [app EXCEPT ![p].last = Passed(app[p], t)]
        /\ UNCHANGED backlog
  /\ UNCHANGED <<now, opens, pump, pending, acceptor, harvest, conns, exiting>>

\* A reply from the relay: the lookup refreshes the mapping of its port.
RelaySends(c, t) ==
  /\ ~c.done
  /\ Find(c.port, t)
  /\ app' = IF app[c.port].id = c.id THEN [app EXCEPT ![c.port].last = Passed(app[c.port], t)]
                                     ELSE app
  /\ UNCHANGED <<now, opens, pump, relayVars>>

-----------------------------------------------------------------------------
\* The relay.

\* accept, then relay_reap: finished connections leave the table at once, their
\* threads are joined outside the lock.
Reap ==
  /\ acceptor = "idle" /\ backlog # <<>>
  /\ harvest' = {c.id : c \in {c \in conns : c.done}}
  /\ conns' = {c \in conns : ~c.done}
  /\ acceptor' = "joining"
  /\ UNCHANGED <<natVars, appVars, pump, pending, backlog, exiting>>

\* A worker has left when its close callback returned.  Then relay_take and a
\* worker of its own for the connection -- unless there is no registration, the
\* table is full, or memory or the thread is refused.  Only a worker that ran
\* makes the close callback.
Take ==
  LET b    == Head(backlog)
      mine == {e \in Unexpired : e.port = b.port}
  IN  /\ acceptor = "joining" /\ \A e \in exiting : e.id \notin harvest
      /\ pending' = Unexpired \ mine
      /\ \/ UNCHANGED conns
         \/ /\ Cardinality(conns) < MaxConns
            /\ \E e \in mine, done \in BOOLEAN :
                 conns' = conns \cup {[id |-> b.id, port |-> b.port, dst |-> e.dst,
                                       client |-> b.dst, done |-> done]}
      /\ backlog' = Tail(backlog) /\ acceptor' = "idle" /\ harvest' = {}
      /\ UNCHANGED <<natVars, appVars, pump, exiting>>

\* The handshake fails, or either side closes: done, under the relay's mutex ...
WorkerEnds(c) ==
  /\ ~c.done
  /\ conns' = (conns \ {c}) \cup {[c EXCEPT !.done = TRUE]}
  /\ exiting' = exiting \cup {[id |-> c.id, port |-> c.port]}
  /\ UNCHANGED <<natVars, appVars, pump, pending, backlog, acceptor, harvest>>

\* ... and then wd_on_flow_end, outside it, with nothing but the port.
CloseCallback(e) ==
  /\ MarkClosed(e.port)
  /\ exiting' = exiting \ {e}
  /\ UNCHANGED <<now, appVars, pump, pending, backlog, acceptor, harvest, conns>>

TimePasses == Tick /\ UNCHANGED <<appVars, pump, relayVars>>

RedirectInit ==
  /\ NatInit
  /\ app = [p \in Ports |-> NoFlow] /\ opens = 0
  /\ pump = Idling
  /\ pending = {} /\ backlog = <<>>
  /\ acceptor = "idle" /\ harvest = {}
  /\ conns = {} /\ exiting = {}

RedirectNext ==
  \/ \E p \in Ports, d \in Dsts : Connect(p, d)
  \/ \E p \in Ports : AppCloses(p)
  \/ \E p \in Ports : Decide(p)
  \/ Register
  \/ \E t \in TimesRead : AddMapping(t)
  \/ Release
  \/ \E p \in Ports, t \in TimesRead : AppSends(p, t)
  \/ \E c \in conns, t \in TimesRead : RelaySends(c, t)
  \/ Reap
  \/ Take
  \/ \E c \in conns : WorkerEnds(c)
  \/ \E e \in exiting : CloseCallback(e)
  \/ TimePasses

RedirectSpec == RedirectInit /\ [][RedirectNext]_redirectVars

-----------------------------------------------------------------------------
(***************************************************************************)
(* Types; a socket pump busy with a port means a connect is waiting there, *)
(* and the relay's two tables respect their sizes.                         *)
(***************************************************************************)
RedirectTypeOK ==
  /\ NatTypeOK
  /\ app \in [Ports -> [phase: Phases, id: Ids \cup {0}, dst: Dsts \cup {NoDst},
                        verdict: Verdicts, last: Nat]]
  /\ \A p \in Ports : (app[p].phase = "deciding") <=> (pump.pc # "idle" /\ pump.port = p)
  /\ pending \subseteq [port: Ports, dst: Dsts, added: Nat]
  /\ \A e, f \in pending : e.port = f.port => e = f
  /\ Cardinality(pending) <= MaxPending /\ Cardinality(conns) <= MaxConns
  /\ backlog \in Seq([id: Ids, port: Ports, dst: Dsts, verdict: Verdicts, since: Nat])
  /\ conns \subseteq [id: Ids, port: Ports, dst: Dsts, client: Dsts, done: BOOLEAN]
  /\ exiting \subseteq [id: Ids, port: Ports]

RelaySideOpen(p) ==
  \/ \E i \in 1..Len(backlog) : backlog[i].id = app[p].id
  \/ \E c \in conns : c.id = app[p].id /\ ~c.done

\* Proxied, passing traffic within the TTL, and the relay has not ended it.
Protected(p) ==
  /\ app[p].verdict = "proxy"
  /\ app[p].phase = "syn" \/ (app[p].phase = "up" /\ RelaySideOpen(p))
  /\ now - app[p].last <= TTL

(***************************************************************************)
(* "A flow that is still passing traffic must never lose its mapping,      *)
(* because an unmapped flow is not blocked, it egresses direct": a packet  *)
(* of a protected flow is always rewritten to the relay, whatever other    *)
(* flows, expiries, reclaims and close callbacks do to the table.          *)
(***************************************************************************)
LiveFlowsStayRedirected ==
  [][\A p \in Ports : Protected(p) /\ (\E t \in TimesRead : AppSends(p, t))
       => reply' = app[p].dst]_redirectVars

(***************************************************************************)
(* The relay asks the proxy for the destination its client asked for:      *)
(* no connection is ever handed another connection's registration.         *)
(***************************************************************************)
RightDestination == \A c \in conns : c.dst = c.client

(***************************************************************************)
(* From the moment its SYN may leave until the relay takes it, also while  *)
(* it waits in the accept backlog and when its application has closed, a   *)
(* proxied flow has its registration, with its own destination, unless     *)
(* that aged out -- so the relay never drops it for want of one.           *)
(***************************************************************************)
Registered(p, d, since) ==
  \/ \E e \in pending : e.port = p /\ e.dst = d
  \/ now - since >= PendingTTL

ReleasedFlowsAreRegistered ==
  /\ \A p \in Ports :
       app[p].phase = "syn" /\ app[p].verdict = "proxy" => Registered(p, app[p].dst, app[p].last)
  /\ \A i \in 1..Len(backlog) :
       backlog[i].verdict = "proxy" => Registered(backlog[i].port, backlog[i].dst, backlog[i].since)

(***************************************************************************)
(* The relay's registrations, from the SYN that is held while one is made  *)
(* to the accept that consumes it: none is missing and none is mistaken.   *)
(***************************************************************************)
RegistrationsAreRight == RightDestination /\ ReleasedFlowsAreRegistered

\* "DIRECT -> allow" (backend_windivert.c): a direct flow's packets are left
\* alone; "a source-port match alone is NOT proof this is the flow we registered".
DirectGoesDirect ==
  \A i \in 1..Len(backlog), p \in Ports :
    backlog[i].id = app[p].id => app[p].verdict # "direct"
=============================================================================
