-------------------------------- MODULE Dial --------------------------------
(***************************************************************************)
(* One dial: a connection to a proxy, and the handshakes that make it a    *)
(* tunnel through a chain of proxies (pmx_net.c, pmx_proxy.c, pmx_socks.c, *)
(* pmx_http_connect.c), as a relay worker (pmx_relay.c) and a check        *)
(* (pmx_checker.c) make it.                                                *)
(*                                                                         *)
(* What comes back is a stream of cells, each written by one peer: the     *)
(* proxy the stream reaches at that time, or the destination behind the    *)
(* last one.  The stream arrives in pieces of any length, the client reads *)
(* the number of cells it expects, and what it leaves in the stream is     *)
(* what its next read finds.  A cell stands for a field of an answer, so   *)
(* that answers keep their structure and their relative lengths; requests  *)
(* are records.                                                            *)
(***************************************************************************)
EXTENDS Integers, Sequences

CONSTANTS
  Chains,        \* chains of hops: [kind, host, creds], host is "ip" or "name"
  Timeout,       \* ticks of timeout_ms
  MaxAddresses,  \* addresses a name resolves to
  Attempts,      \* 8 reads of an HTTP answer or of a page, fewer here
  StatusLine,    \* cells of an HTTP status line, more than Attempts as 12 bytes are more than 8
  None

Proxies ==
  [kind: {"socks5", "socks4", "socks4a", "http", "https"}, host: {"ip", "name"}, creds: {"none", "short", "long"}]

Messages ==
  [what: {"greeting"}, auth: BOOLEAN] \cup [what: {"password", "get"}]
    \cup [what: {"connect_socks5", "connect_socks4", "connect_http"}, to: Nat]

Statuses == {"ok", "dns", "refused", "timeout", "net", "unsupported", "handshake", "auth"}

ASSUME DialAssumption ==
  /\ {Timeout, MaxAddresses, Attempts} \subseteq Nat \ {0} /\ StatusLine \in Nat /\ StatusLine > 1
  /\ \A ch \in Chains : ch # <<>> /\ ch \in Seq(Proxies)
  /\ None \notin Nat \cup Messages \cup Statuses

VARIABLES
  purpose,   \* "relay", "check", or "egress": the second dial of a check, and its "page"
  chain,     \* rc->chain, or the proxy that is checked
  pc,        \* what the client is doing; "over" when it is done
  hop,       \* the hop it shakes hands with
  addresses, \* addresses of the first hop that are left to try
  got,       \* cells of the present read
  tries,     \* attempts at an HTTP answer or a page
  waited,    \* ticks since the present connect or read began
  limit,     \* the tick at which its select() gives up
  reads,     \* history: reads of the present handshake
  took,      \* history: ticks of the present handshake
  status,    \* the pmx_status of the dial
  egress,    \* the egress address of a check
  peer,      \* the hop at the far end of the stream, or Len(chain) + 1: the destination
  route,     \* history: the hops it reaches it through
  request,   \* the request it has yet to answer
  wire,      \* cells on their way
  buffer,    \* cells that have arrived
  closed,    \* the far end has closed the stream
  fault      \* history: some peer refused, lied, closed or was too slow

worldVars  == <<peer, route, request, wire, buffer, closed>>
clientVars == <<purpose, chain, pc, hop, addresses, got, tries, waited, limit, reads, took, status, egress>>
dialVars   == <<clientVars, worldVars, fault>>

Destination == Len(chain) + 1
Hop         == chain[hop]
Cells(by, whats) == [i \in 1..Len(whats) |-> [by |-> by, is |-> whats[i]]]

\* What the hop is asked for: the next hop, or the destination after the last one, which a flow
\* knows by its address and a check by its name.
Onward_Skips(h) == IF h + 2 < Destination THEN h + 2 ELSE Destination
Onward(h) == IF h < Len(chain) THEN h + 1 ELSE Destination

HostOf(t) == IF t # Destination THEN chain[t].host ELSE IF purpose = "relay" THEN "ip" ELSE "name"

\* recv_exact's and tcp_connect's budget: what the whole of a read, or of a connect, has left.
Remaining_PerRecv == Timeout
Remaining == Timeout - waited

Fresh ==
  /\ pc = "resolve" /\ hop = 1 /\ addresses = 0 /\ got = <<>> /\ tries = 0
  /\ waited = 0 /\ limit = Timeout /\ reads = 0 /\ took = 0 /\ status = None
  /\ peer = None /\ route = <<>> /\ request = None /\ wire = <<>> /\ buffer = <<>> /\ closed = FALSE

\* pmx_proxy_validate keeps no proxy out of a chain: a check or a flow may meet any kind.
DialInit ==
  /\ chain \in Chains
  /\ purpose = "relay" \/ (purpose = "check" /\ Len(chain) = 1)
  /\ Fresh /\ egress = None /\ fault = FALSE

Over(st) == pc' = "over" /\ status' = st

-----------------------------------------------------------------------------
(* Connecting to the first hop: pmx_tcp_connect.                           *)

Resolve ==
  /\ pc = "resolve"
  /\ \/ \E n \in 1..MaxAddresses : addresses' = n /\ pc' = "connect" /\ UNCHANGED <<status, fault>>
     \/ Over("dns") /\ fault' = TRUE /\ UNCHANGED addresses
  /\ UNCHANGED <<purpose, chain, hop, got, tries, waited, limit, reads, took, egress, worldVars>>

\* An address refuses, and the next one has what is left of the time.
Refused ==
  /\ pc = "connect" /\ waited < limit
  /\ addresses' = addresses - 1 /\ limit' = waited + Remaining
  /\ IF addresses = 1 THEN Over("refused") /\ fault' = TRUE ELSE UNCHANGED <<pc, status, fault>>
  /\ UNCHANGED <<purpose, chain, hop, got, tries, waited, reads, took, egress, worldVars>>

\* An address does not answer: the next one is tried only while the budget lasts.
ConnectTimesOut ==
  /\ pc = "connect" /\ waited = limit
  /\ IF Remaining <= 0 \/ addresses = 1
       THEN Over("timeout") /\ fault' = TRUE /\ UNCHANGED <<addresses, limit>>
       ELSE addresses' = addresses - 1 /\ limit' = waited + Remaining /\ UNCHANGED <<pc, status, fault>>
  /\ UNCHANGED <<purpose, chain, hop, got, tries, waited, reads, took, egress, worldVars>>

Connected ==
  /\ pc = "connect" /\ waited < limit
  /\ pc' = "begin" /\ peer' = 1
  /\ UNCHANGED <<purpose, chain, hop, addresses, got, tries, waited, limit, reads, took, status, egress,
                 route, request, wire, buffer, closed, fault>>

Connecting == Resolve \/ Refused \/ ConnectTimesOut \/ Connected

-----------------------------------------------------------------------------
(* Reads.                                                                  *)

\* A read begins: it has the whole time limit again.
Await(next) ==
  /\ pc' = next /\ got' = <<>> /\ waited' = 0 /\ limit' = Timeout /\ reads' = reads + 1

\* send_all, and the read after it.  A stream that is closed fails one or the other.
SendAndAwait(message, next) ==
  \/ Await(next) /\ request' = message /\ UNCHANGED status
  \/ closed /\ Over("net") /\ UNCHANGED <<got, waited, limit, reads, request>>

\* Cells of the address in a SOCKS5 answer: 4 bytes, 16 bytes, or as many as a length byte says.
Size_V4Only(type) == 1
Size(type) == CASE type = "v4" -> 1 [] type = "v6" -> 2 [] type = "name" -> 1

\* Cells a read of recv_exact waits for; "rest" is the address and the port.
Rest(n) == IF n = 1 THEN "rest_1" ELSE "rest_2"
Wanted ==
  CASE pc \in {"method", "auth", "head", "reply"} -> 2
    [] pc = "length" -> 1
    [] pc = "rest_1" -> 2
    [] pc = "rest_2" -> 3
    [] OTHER -> 1
Some    == pc \in {"status", "page"}
Reading == pc \notin {"resolve", "connect", "begin", "reconnect", "over"}
Waiting == pc = "connect" \/ (Reading /\ (Some \/ Len(got) < Wanted))

\* One recv(), after select() has seen cells: recv_exact takes what it still wants, recv_some
\* whatever is there.
Recv ==
  /\ Reading /\ Waiting /\ ~Some /\ buffer # <<>> /\ Remaining > 0 /\ waited < limit
  /\ LET n == IF Len(buffer) < Wanted - Len(got) THEN Len(buffer) ELSE Wanted - Len(got) IN
     /\ got' = got \o SubSeq(buffer, 1, n)
     /\ buffer' = SubSeq(buffer, n + 1, Len(buffer))
  /\ limit' = waited + Remaining
  /\ UNCHANGED <<purpose, chain, pc, hop, addresses, tries, waited, reads, took, status, egress,
                 peer, route, request, wire, closed, fault>>

\* A read gives up at its limit, or at the end of the stream.  A page ends with its stream.
ReadFails ==
  /\ Reading /\ Waiting /\ pc # "page"
  /\ \/ waited >= limit /\ Over("timeout")
     \/ closed /\ buffer = <<>> /\ wire = <<>> /\ Over("net")
  /\ UNCHANGED <<purpose, chain, hop, addresses, got, tries, waited, limit, reads, took, egress, worldVars, fault>>

Complete(where) == pc = where /\ Len(got) = Wanted

\* A handshake ends: with the next hop's, or with the last one's.
Granted ==
  /\ IF hop = Len(chain) THEN Over("ok") /\ UNCHANGED hop ELSE hop' = hop + 1 /\ pc' = "begin" /\ UNCHANGED status
  /\ UNCHANGED <<got, waited, limit, reads, request>>

Fails(st) == Over(st) /\ UNCHANGED <<hop, got, waited, limit, reads, request>>

-----------------------------------------------------------------------------
(* Handshakes: pmx_proxy_handshake.                                        *)

Target == Onward(hop)

\* A SOCKS4 hop cannot be asked for a name, and TLS to the proxy is not there.
Unsupported == Hop.kind = "https" \/ (Hop.kind = "socks4" /\ HostOf(Target) = "name")

\* Credentials that do not fit cut the header short, and the blank line after it becomes its end.
Ends(message) == ~(message.what = "connect_http" /\ Hop.creds = "long")

Connect(what) == [what |-> what, to |-> Target]

Begin ==
  /\ pc = "begin" /\ tries' = 0 /\ took' = 0
  /\ \/ Unsupported /\ Over("unsupported") /\ UNCHANGED <<got, waited, limit, reads, request>>
     \/ /\ ~Unsupported
        /\ LET message == CASE Hop.kind = "socks5" -> [what |-> "greeting", auth |-> Hop.creds # "none"]
                            [] Hop.kind = "http"   -> Connect("connect_http")
                            [] OTHER               -> Connect("connect_socks4")
               next == CASE Hop.kind = "socks5" -> "method" [] Hop.kind = "http" -> "status" [] OTHER -> "reply"
           IN \/ /\ pc' = next /\ got' = <<>> /\ waited' = 0 /\ limit' = Timeout /\ reads' = 1
                 /\ request' = IF Ends(message) THEN message ELSE None
                 /\ UNCHANGED status
              \/ closed /\ Over("net") /\ UNCHANGED <<got, waited, limit, reads, request>>
  /\ UNCHANGED <<purpose, chain, hop, addresses, egress, peer, route, wire, buffer, closed, fault>>

\* socks5_handshake, from the method to the end of the answer.
Socks5 ==
  /\ \/ /\ Complete("method")
        /\ LET m == got[2].is IN
           IF got[1].is # "v5" THEN Fails("handshake")
           ELSE CASE m = "password"    -> SendAndAwait([what |-> "password"], "auth") /\ UNCHANGED hop
                  [] m = "no_password" -> SendAndAwait(Connect("connect_socks5"), "head") /\ UNCHANGED hop
                  [] OTHER             -> Fails("auth")
     \/ /\ Complete("auth")
        /\ IF got[2].is = "granted" THEN SendAndAwait(Connect("connect_socks5"), "head") /\ UNCHANGED hop
           ELSE Fails("auth")
     \/ /\ Complete("head")
        /\ LET type == got[2].is IN
           IF got[1].is # "granted" THEN Fails("refused")
           ELSE CASE type \in {"v4", "v6"} -> Await(Rest(Size(type))) /\ UNCHANGED <<hop, status, request>>
                  [] type = "name"         -> Await("length") /\ UNCHANGED <<hop, status, request>>
                  [] OTHER                 -> Fails("handshake")
     \/ Complete("length") /\ Await(Rest(Size("name"))) /\ UNCHANGED <<hop, status, request>>
     \/ \E n \in {1, 2} : Complete(Rest(n)) /\ Granted
  /\ UNCHANGED <<purpose, chain, addresses, tries, took, egress, peer, route, wire, buffer, closed, fault>>

Socks4 ==
  /\ Complete("reply")
  /\ IF got[2].is = "granted" THEN Granted ELSE Fails("refused")
  /\ UNCHANGED <<purpose, chain, addresses, tries, took, egress, peer, route, wire, buffer, closed, fault>>

\* pmx_http_parse_connect_reply: nothing can be said of less than a status line.
Unparsable(cells) == Len(cells) < StatusLine \/ cells[1].is # "HTTP"

\* http_handshake: up to Attempts reads of whatever has arrived, until they hold a status line.
Http ==
  /\ pc = "status" /\ buffer # <<>> /\ waited < limit
  /\ LET all == got \o buffer IN
     /\ buffer' = <<>> /\ tries' = tries + 1
     /\ CASE Unparsable(all) /\ tries + 1 < Attempts ->
               got' = all /\ waited' = 0 /\ limit' = Timeout /\ reads' = reads + 1
               /\ UNCHANGED <<pc, hop, status, request>>
          [] Unparsable(all) /\ tries + 1 = Attempts -> Fails("handshake")
          [] all[StatusLine].is = "granted" /\ ~Unparsable(all) -> Granted
          [] OTHER -> Fails("refused")
  /\ UNCHANGED <<purpose, chain, addresses, took, egress, peer, route, wire, closed, fault>>

Handshake == Begin \/ Recv \/ ReadFails \/ Socks5 \/ Socks4 \/ Http

-----------------------------------------------------------------------------
(* The second dial of a check: measure_egress.                             *)

CheckAgain ==
  /\ purpose = "check" /\ pc = "over" /\ status = "ok"
  /\ purpose' = "egress" /\ pc' = "resolve" /\ hop' = 1 /\ status' = None
  /\ got' = <<>> /\ tries' = 0 /\ waited' = 0 /\ limit' = Timeout /\ reads' = 0 /\ took' = 0
  /\ peer' = None /\ route' = <<>> /\ request' = None /\ wire' = <<>> /\ buffer' = <<>> /\ closed' = FALSE
  /\ UNCHANGED <<chain, addresses, egress, fault>>

AsksPage ==
  /\ purpose = "egress" /\ pc = "over" /\ status = "ok" /\ purpose' = "page"
  /\ \/ pc' = "page" /\ request' = [what |-> "get"] /\ got' = <<>> /\ waited' = 0 /\ tries' = 1 /\ limit' = Timeout
     \/ closed /\ UNCHANGED <<pc, request, got, waited, tries, limit>>
  /\ UNCHANGED <<chain, hop, addresses, reads, took, status, egress, peer, route, wire, buffer, closed, fault>>

\* What comes after the first blank line of a page, up to a space.
Address(cells) ==
  LET blanks == {i \in 1..Len(cells) : cells[i].is = "blank"} IN
  IF blanks = {} THEN None
  ELSE LET b == CHOOSE i \in blanks : \A j \in blanks : i <= j IN
       IF b = Len(cells) THEN None ELSE cells[b + 1].is

ReadPage ==
  /\ pc = "page"
  /\ \/ /\ buffer # <<>> /\ waited < limit
        /\ got' = got \o buffer /\ buffer' = <<>> /\ waited' = 0 /\ limit' = Timeout /\ tries' = tries + 1
        /\ IF tries = Attempts THEN pc' = "over" /\ egress' = Address(got \o buffer) ELSE UNCHANGED <<pc, egress>>
     \/ /\ waited >= limit \/ (closed /\ buffer = <<>> /\ wire = <<>>)
        /\ pc' = "over" /\ egress' = Address(got)
        /\ UNCHANGED <<got, buffer, waited, limit, tries>>
  /\ UNCHANGED <<purpose, chain, hop, addresses, reads, took, status, peer, route, request, wire, closed, fault>>

Checking == CheckAgain \/ AsksPage \/ ReadPage

-----------------------------------------------------------------------------
(* The far end.  Every peer answers as its protocol says, or refuses, or   *)
(* answers something else, or closes, or stays silent.                     *)

StatusLineOf(word) == [i \in 1..StatusLine |-> IF i = 1 THEN "HTTP" ELSE IF i = StatusLine THEN word ELSE "text"]

Reply(kind, type) ==
  CASE kind = "socks5" /\ type = "v4"   -> <<"granted", "v4", "address", "port">>
    [] kind = "socks5" /\ type = "v6"   -> <<"granted", "v6", "address", "address", "port">>
    [] kind = "socks5" /\ type = "name" -> <<"granted", "name", "length", "address", "port">>
    [] kind = "socks4" -> <<"v4_reply", "granted">>
    [] kind = "http"   -> StatusLineOf("granted") \o <<"header", "blank">>

\* Answers that grant what a request asks for, those of a proxy of the request's protocol.
Grants(m) ==
  CASE m.what = "greeting" -> {<<"v5", "no_password">>} \cup (IF m.auth THEN {<<"v5", "password">>} ELSE {})
    [] m.what = "password" -> {<<"v1", "granted">>}
    [] m.what = "connect_socks5" -> {Reply("socks5", t) : t \in {"v4", "v6", "name"}}
    [] m.what = "connect_socks4" -> {Reply("socks4", None)}
    [] m.what = "connect_http" -> {Reply("http", None)}
    [] m.what = "get" -> {<<"page", "blank", "address">>}

\* Answers that do not.
Refusals(m) ==
  CASE m.what = "greeting" -> {<<"v5", "none">>, <<"v5", "password">>, <<"HTTP", "text">>} \ Grants(m)
    [] m.what = "password" -> {<<"v1", "refused">>}
    [] m.what = "connect_http" -> {StatusLineOf("refused"), <<"junk", "junk">>}
    [] m.what = "get" -> {<<"page">>}
    [] OTHER -> {<<"refused", "v4">>, <<"granted", "junk">>, <<"junk", "refused">>}

\* A hop speaks its own protocol, and only when it is asked; the destination may be anything.
Speaks(kind) ==
  CASE kind = "socks5" -> {"greeting", "password", "connect_socks5"}
    [] kind \in {"socks4", "socks4a"} -> {"connect_socks4"}
    [] kind = "http" -> {"connect_http"}
    [] OTHER -> {}
Understands(m) == IF peer = Destination THEN TRUE ELSE m.what \in Speaks(chain[peer].kind)

\* The destination may speak first, as a mail server does.
Answers ==
  /\ request # None /\ ~closed /\ request' = None
  /\ \/ /\ Understands(request)
        /\ \E a \in Grants(request) :
             LET through == "to" \in DOMAIN request /\ peer # Destination IN
             /\ IF through THEN peer' = request.to /\ route' = Append(route, peer) ELSE UNCHANGED <<peer, route>>
             /\ \E hello \in IF through /\ request.to = Destination THEN {<<>>, <<"hello">>} ELSE {<<>>} :
                  wire' = wire \o Cells(peer, a) \o Cells(Destination, hello)
        /\ closed' = (request.what = "get")
        /\ UNCHANGED fault
     \/ /\ \E a \in Refusals(request) : wire' = wire \o Cells(peer, a)
        /\ fault' = TRUE /\ UNCHANGED <<peer, route, closed>>
     \/ fault' = TRUE /\ UNCHANGED <<peer, route, wire, closed>>
  /\ UNCHANGED <<clientVars, buffer>>

Arrive ==
  /\ \E n \in {1, Len(wire)} :
       n \in 1..Len(wire) /\ buffer' = buffer \o SubSeq(wire, 1, n) /\ wire' = SubSeq(wire, n + 1, Len(wire))
  /\ UNCHANGED <<clientVars, peer, route, request, closed, fault>>

Closes ==
  /\ peer # None /\ pc # "over" /\ ~closed /\ closed' = TRUE /\ fault' = TRUE
  /\ UNCHANGED <<clientVars, peer, route, request, wire, buffer>>

\* Time passes while the client waits; a peer is too slow when the limit comes.
Tick ==
  /\ Waiting /\ waited < limit /\ buffer = <<>>
  /\ waited' = waited + 1 /\ took' = took + 1 /\ fault' = (fault \/ waited' = limit)
  /\ UNCHANGED <<purpose, chain, pc, hop, addresses, got, tries, limit, reads, status, egress, worldVars>>

World == Answers \/ Arrive \/ Closes \/ Tick

DialNext == Connecting \/ Handshake \/ Checking \/ World
DialSpec == DialInit /\ [][DialNext]_dialVars

-----------------------------------------------------------------------------
\* http_handshake stops reading at the status line: headers that come after it are left in the stream.
LeavesHeaders(last) == \E h \in 1..last : chain[h].kind = "http"

\* pmx_proxy_handshake returns PMX_OK hop after hop: the stream then reaches the destination, through
\* every hop of the chain in order, and not a hop of it or a server that answers like one.
OkMeansTunnel == status = "ok" /\ ~LeavesHeaders(hop - 1) =>
  peer = Destination /\ route = [h \in 1..Len(chain) |-> h]

\* Of a tunnel without an HTTP hop, every answer of every hop has been read to its end and nothing
\* of the destination's: what the splice finds first is the destination's first word.
TunnelStartsClean ==
  /\ pc = "over" /\ status = "ok" /\ ~LeavesHeaders(hop) =>
       \A i \in 1..Len(buffer \o wire) : (buffer \o wire)[i].by = Destination
  /\ Reading /\ pc # "page" /\ ~LeavesHeaders(hop - 1) => \A i \in 1..Len(got) : got[i].by = hop

\* A dial fails because of what a peer did or did not do in time, because the protocol cannot carry
\* the request, or because an HTTP answer came in more pieces than are read; never by misreading
\* the answers of proxies that grant everything, the headers an HTTP hop left behind aside.
FailuresAreReal ==
  pc = "over" /\ status # "ok" /\ ~LeavesHeaders(hop - 1) => fault \/ status = "unsupported" \/ (Hop.kind = "http" /\ tries = Attempts)

\* No connect and no single read takes longer than timeout_ms, however the peer spreads its
\* addresses or its bytes, and a handshake has no more reads than its protocol has answers
\* (the comments of recv_exact and pmx_tcp_connect).
DialIsBounded ==
  /\ waited <= Timeout
  /\ Reading /\ pc # "page" => reads <= (IF Hop.kind = "socks5" THEN 5 ELSE IF Hop.kind = "http" THEN Attempts ELSE 1)

-----------------------------------------------------------------------------
(* What does not hold; see the README.                                     *)

\* pmx_proxy.h: afterward the socket carries a tunnel to the destination.
TunnelIsWhole ==
  pc = "over" /\ status = "ok" => \A i \in 1..Len(buffer \o wire) : (buffer \o wire)[i].by = Destination

\* pmx_proxy.h: a handshake is bounded by timeout_ms.
HandshakeIsTimely == Reading /\ pc # "page" => took <= Timeout

\* The egress address of a check is an address.
EgressIsAnAddress == egress \in {None, "address"}

\* Every request is a complete one, which the hop it is sent to can answer.
RequestsEnd == pc = "status" /\ reads = 1 => Ends(Connect("connect_http"))
=============================================================================
