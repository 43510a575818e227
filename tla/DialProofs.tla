----------------------------- MODULE DialProofs -----------------------------
(***************************************************************************)
(* For every set of chains, of any length and of any kinds of hops, every  *)
(* time limit and every number of attempts: no read or connect outlasts    *)
(* the limit and no handshake reads more often than its protocol answers;  *)
(* a success is a tunnel to the destination through every hop in order,    *)
(* whose first unread word is the destination's; a failure has a cause.    *)
(*                                                                         *)
(* The inductive invariant has two parts.  The client's is inductive of    *)
(* itself: where the client is agrees with the kind of the hop, the reads, *)
(* the limit and the outstanding request.  The stream's says what is in    *)
(* got, buffer and wire together: nothing, while the hop has not answered; *)
(* two cells or a status line of the hop, when it refuses or agrees to go  *)
(* on; or the rest of a granting answer, with nothing behind it but the    *)
(* destination's words and those only at the last hop.  It speaks of the   *)
(* cells the present read has taken and of those still to come as one      *)
(* sequence, because reads may end anywhere and arrivals come in pieces.   *)
(* An HTTP hop leaves headers in the stream, so behind one it says nothing.*)
(***************************************************************************)
EXTENDS Dial, SequenceTheorems, TLAPS

-----------------------------------------------------------------------------
\* Reads of a handshake, by what the client reads.
Socks5Reads == {"method", "auth", "head", "length", "rest_1", "rest_2"}
AnswerReads == Socks5Reads \cup {"reply", "status"}

\* Where the client is belongs to the hop it talks to and to what the dial is for.
PlaceFits ==
  /\ chain \in Chains /\ hop \in 1..Len(chain)
  /\ pc \in {"resolve", "connect", "begin", "page", "over"} \cup AnswerReads
  /\ pc \in Socks5Reads => Hop.kind = "socks5"
  /\ pc = "reply" => Hop.kind \in {"socks4", "socks4a"}
  /\ pc = "status" => Hop.kind = "http"
  /\ pc \notin {"page", "over"} => status = None
  /\ status = "ok" => hop = Len(chain)
  /\ purpose \in {"relay", "check", "egress", "page"}
  /\ pc = "page" => purpose = "page"
  /\ purpose = "page" => status = "ok" /\ pc \in {"page", "over"}

\* Every select() is given what is left of one limit; a limit that is reached, and
\* a stream that ends within a handshake, are some peer's doing.
TimeFits ==
  /\ limit = Timeout /\ waited \in 0..Timeout
  /\ fault \in BOOLEAN /\ closed \in BOOLEAN
  /\ waited = Timeout => fault
  /\ closed => fault \/ purpose = "page"

\* As many reads as the answers of the protocol so far.
ReadsFit ==
  /\ reads \in Nat /\ tries \in Nat
  /\ pc \in {"method", "reply"} => reads = 1
  /\ pc = "auth" => reads = 2
  /\ pc = "head" => reads <= 3
  /\ pc = "length" => reads <= 4
  /\ pc \in {"rest_1", "rest_2"} => reads <= 5
  /\ pc = "status" => reads = tries + 1 /\ tries < Attempts

\* There is somebody to ask, but before the first connect has succeeded.
RequestFits ==
  /\ request \in Messages \cup {None} /\ peer \in Nat \cup {None}
  /\ peer = None => request = None /\ status # "ok" /\ pc \in {"resolve", "connect", "over"}
  /\ request # None /\ request.what = "get" => purpose = "page"

ClientInv == PlaceFits /\ TimeFits /\ ReadsFit /\ RequestFits

-----------------------------------------------------------------------------
(* The stream.                                                             *)

Words ==
  {"v5", "v1", "no_password", "password", "none", "granted", "refused", "junk", "v4", "v6", "name",
   "v4_reply", "length", "address", "port", "HTTP", "text", "header", "blank", "page", "hello"}

Cell == [by: Nat, is: Words]

\* What the client has not read, and all of it since its present read began.
Unread == buffer \o wire
Stream == got \o Unread

StreamIsTyped == got \in Seq(Cell) /\ buffer \in Seq(Cell) /\ wire \in Seq(Cell)

\* No hop before this one has left headers behind.
Clean   == ~LeavesHeaders(hop - 1)
Upto(n) == [h \in 1..n |-> h]
Quiet   == request = None /\ buffer = <<>> /\ wire = <<>>
Begun   == pc \in {"method", "auth", "head", "reply", "status"}

\* The request of the present read.
Asks(m) ==
  CASE pc = "method" -> m.what = "greeting"
    [] pc = "auth"   -> m.what = "password"
    [] pc = "head"   -> m.what = "connect_socks5" /\ m.to = Target
    [] pc = "reply"  -> m.what = "connect_socks4" /\ m.to = Target
    [] pc = "status" -> m.what = "connect_http" /\ m.to = Target
    [] OTHER -> FALSE

\* The hop has not answered.
Asking ==
  /\ Begun /\ peer = hop /\ route = Upto(hop - 1)
  /\ got = <<>> /\ buffer = <<>> /\ wire = <<>>
  /\ request # None => Asks(request)

\* The hop has answered within its handshake, and every cell is its own.
Answered ==
  /\ Begun /\ peer = hop /\ route = Upto(hop - 1) /\ request = None
  /\ \A i \in 1..Len(Stream) : Stream[i].by = hop
  /\ pc # "status" => Len(Stream) = 2

\* It has refused, or has answered something else.
Refusing ==
  /\ Answered /\ fault
  /\ pc = "auth"   => Stream[2].is # "granted"
  /\ pc = "head"   => Stream[1].is # "granted" \/ Stream[2].is \notin {"v4", "v6", "name"}
  /\ pc = "reply"  => Stream[2].is # "granted"
  /\ pc = "status" => Unparsable(Stream) \/ Stream[StatusLine].is # "granted"

\* It agrees to a method, or to a password, and is to be asked for more.
Agreeing ==
  /\ Answered /\ pc \in {"method", "auth"}
  /\ pc = "method" => Stream[1].is = "v5" /\ Stream[2].is \in {"no_password", "password"}
  /\ pc = "auth" => Stream[2].is = "granted"

\* What is left of a granting answer where the present read begins.
Answer ==
  CASE pc = "head"   -> {Reply("socks5", t) : t \in {"v4", "v6", "name"}}
    [] pc = "length" -> {<<"length", "address", "port">>}
    [] pc = "rest_1" -> {<<"address", "port">>}
    [] pc = "rest_2" -> {<<"address", "address", "port">>}
    [] pc = "reply"  -> {Reply("socks4", None)}
    [] pc = "status" -> {Reply("http", None)}
    [] OTHER -> {}

\* A stream begins with an answer of a hop, and what is behind it is the destination's.
Begins(s, whats, h) ==
  /\ Len(s) >= Len(whats)
  /\ \A i \in 1..Len(whats) : s[i].by = h /\ s[i].is = whats[i]
  /\ \A i \in (Len(whats) + 1)..Len(s) : s[i].by = Destination
  /\ Len(s) > Len(whats) => h = Len(chain)

\* The hop has granted the request: the far end is what it was asked for.
Granting ==
  /\ peer = Target /\ route = Upto(hop) /\ request = None
  /\ \E whats \in Answer : Begins(Stream, whats, hop)

\* Before the first hop is reached nothing is on its way.
Unreached == hop = 1 /\ peer = None /\ route = <<>> /\ Quiet

Tunnel ==
  /\ peer = Destination /\ route = Upto(Len(chain))
  /\ request # None => request.what = "get"
  /\ Hop.kind # "http" => \A i \in 1..Len(Unread) : Unread[i].by = Destination

StreamFits ==
  /\ pc \in {"resolve", "connect"} => Unreached
  /\ Clean /\ pc = "begin" => peer = hop /\ route = Upto(hop - 1) /\ Quiet
  /\ Clean /\ pc \in AnswerReads =>
       /\ Asking \/ Refusing \/ Agreeing \/ Granting
       /\ IF pc = "status" THEN Unparsable(got) ELSE Len(got) <= Wanted
  /\ Clean /\ status = "ok" => Tunnel

DialInv == ClientInv /\ StreamIsTyped /\ StreamFits /\ FailuresAreReal

-----------------------------------------------------------------------------
\* The hop is one of the chain's, of a kind there is.
LEMMA HopIsProxy ==
  ASSUME NEW ch \in Chains
  PROVE  /\ Len(ch) \in Nat \ {0}
         /\ \A h \in 1..Len(ch) : ch[h] \in Proxies
<1>1. ch # <<>> /\ ch \in Seq(Proxies)
  BY DialAssumption
<1> QED
  BY <1>1

\* None is none of what it stands for the lack of.
LEMMA NoneIsNothing ==
  /\ None \notin Messages /\ \A n \in Nat : n # None
  /\ \A st \in Statuses : st # None
BY DialAssumption

\* What a hop is asked for is a hop or the destination.
LEMMA TargetIsReal ==
  ASSUME PlaceFits
  PROVE  /\ Len(chain) \in Nat \ {0} /\ Hop \in Proxies /\ hop \in Nat \ {0}
         /\ Destination = Len(chain) + 1 /\ Target \in Nat
         /\ Target = hop + 1 /\ Target # hop
         /\ Target = Destination <=> hop = Len(chain)
BY HopIsProxy DEF PlaceFits, Hop, Target, Onward, Destination

\* A limit begins before it ends.
LEMMA LimitBegins == Timeout \in Nat /\ 0 \in 0..Timeout /\ 0 # Timeout
BY DialAssumption

\* Counting reads.
LEMMA OneMoreRead ==
  \A n \in Nat : /\ n + 1 \in Nat /\ (n = 1 => n + 1 <= 3) /\ (n = 1 => n + 1 = 2) /\ (n = 2 => n + 1 <= 3)
                 /\ (n <= 3 => n + 1 <= 4) /\ (n <= 3 => n + 1 <= 5) /\ (n <= 4 => n + 1 <= 5)
OBVIOUS

\* What the client asks are messages, and none of these asks for a page.
LEMMA RequestsAreMessages ==
  /\ \A a \in BOOLEAN : LET m == [what |-> "greeting", auth |-> a] IN m \in Messages /\ m.what = "greeting"
  /\ [what |-> "password"] \in Messages
  /\ [what |-> "get"] \in Messages
  /\ \A w \in {"connect_socks5", "connect_socks4", "connect_http"} :
       Target \in Nat => Connect(w) \in Messages /\ Connect(w).what = w /\ Connect(w).to = Target
BY DEF Messages, Connect

\* Whoever is asked for somebody is asked for a hop or the destination.
LEMMA RequestsAreForHops ==
  ASSUME NEW m \in Messages, "to" \in DOMAIN m
  PROVE  m.to \in Nat /\ m.what \in {"connect_socks5", "connect_socks4", "connect_http"}
<1>1. CASE m \in [what: {"greeting"}, auth: BOOLEAN]
  <2>1. DOMAIN m = {"what", "auth"}
    BY <1>1
  <2> QED
    BY <2>1
<1>2. CASE m \in [what: {"password", "get"}]
  <2>1. DOMAIN m = {"what"}
    BY <1>2
  <2> QED
    BY <2>1
<1>3. CASE m \in [what: {"connect_socks5", "connect_socks4", "connect_http"}, to: Nat]
  BY <1>3
<1> QED
  BY <1>1, <1>2, <1>3 DEF Messages

\* A dial begins so.
LEMMA ClientStarts == DialInit => ClientInv
<1> SUFFICES ASSUME DialInit PROVE ClientInv
  OBVIOUS
<1>1. chain \in Chains /\ Len(chain) \in Nat \ {0} /\ Timeout \in Nat \ {0}
  BY HopIsProxy, DialAssumption DEF DialInit
<1>2. PlaceFits
  BY <1>1, NoneIsNothing DEF DialInit, Fresh, PlaceFits, AnswerReads, Socks5Reads, Statuses
<1>3. TimeFits
  <2>1. limit = Timeout /\ waited = 0 /\ fault = FALSE /\ closed = FALSE
    BY DEF DialInit, Fresh
  <2>2. waited \in 0..Timeout /\ waited # Timeout
    BY <1>1, <2>1
  <2> QED
    BY <2>1, <2>2 DEF TimeFits
<1>4. ReadsFit
  BY DEF DialInit, Fresh, ReadsFit
<1>5. RequestFits
  BY NoneIsNothing DEF DialInit, Fresh, RequestFits, Statuses
<1> QED
  BY <1>2, <1>3, <1>4, <1>5 DEF ClientInv

-----------------------------------------------------------------------------
\* Connecting keeps the client's part of the invariant.
LEMMA ConnectingKeepsClient ==
  ASSUME ClientInv, Connecting
  PROVE  ClientInv'
<1> USE DEF ClientInv
<1>1. Timeout \in Nat \ {0} /\ chain' = chain /\ hop' = hop /\ purpose' = purpose /\ closed' = closed
  BY DialAssumption DEF Connecting, Resolve, Refused, ConnectTimesOut, Connected, worldVars
<1>2. /\ pc \in {"resolve", "connect"} /\ pc' \in {"resolve", "connect", "begin", "over"}
      /\ status' = status \/ (pc' = "over" /\ status' \in {"dns", "refused", "timeout"})
      /\ pc' # "over" => status' = status
  BY DEF Connecting, Resolve, Refused, ConnectTimesOut, Connected, Over
<1>3. PlaceFits'
  BY <1>1, <1>2, NoneIsNothing DEF PlaceFits, AnswerReads, Socks5Reads, Statuses
<1>4. TimeFits'
  <2>0. Timeout \in Int /\ waited \in Int /\ limit = Timeout /\ waited + (Timeout - waited) = Timeout
    BY <1>1 DEF TimeFits
  <2>1. limit' = Timeout
    BY <2>0 DEF Connecting, Resolve, Refused, ConnectTimesOut, Connected, Remaining
  <2>2. waited' = waited
    BY DEF Connecting, Resolve, Refused, ConnectTimesOut, Connected
  <2>3. fault' = fault \/ fault' = TRUE
    BY DEF Connecting, Resolve, Refused, ConnectTimesOut, Connected
  <2> QED
    BY <1>1, <2>1, <2>2, <2>3 DEF TimeFits
<1>5. ReadsFit'
  <2>1. reads' = reads /\ tries' = tries
    BY DEF Connecting, Resolve, Refused, ConnectTimesOut, Connected
  <2> QED
    BY <1>2, <2>1 DEF ReadsFit
<1>6. RequestFits'
  <2>1. request' = request /\ ((peer' = peer /\ pc' # "begin") \/ peer' = 1)
    BY DEF Connecting, Resolve, Refused, ConnectTimesOut, Connected, Over, worldVars
  <2>2. status' # "ok"
    BY <1>2, NoneIsNothing DEF PlaceFits, AnswerReads, Socks5Reads, Statuses
  <2> QED
    BY <1>1, <1>2, <2>1, <2>2, NoneIsNothing DEF RequestFits
<1> QED
  BY <1>3, <1>4, <1>5, <1>6

\* A handshake that begins asks its first question, or does not.
LEMMA BeginKeepsClient ==
  ASSUME ClientInv, Begin
  PROVE  ClientInv'
<1> USE DEF ClientInv
<1>0. /\ Timeout \in Nat \ {0} /\ Attempts \in Nat \ {0}
      /\ pc = "begin" /\ purpose # "page" /\ status = None /\ Hop \in Proxies /\ Target \in Nat
  BY DialAssumption, TargetIsReal DEF Begin, PlaceFits, AnswerReads, Socks5Reads
<1>1. /\ chain' = chain /\ hop' = hop /\ purpose' = purpose /\ closed' = closed /\ fault' = fault
      /\ peer' = peer /\ tries' = 0
  BY DEF Begin
<1>2. CASE pc' = "over" /\ status' \in {"unsupported", "net"} /\ UNCHANGED <<got, waited, limit, reads, request>>
  <2>1. PlaceFits'
    BY <1>0, <1>1, <1>2 DEF PlaceFits, AnswerReads, Socks5Reads
  <2>2. TimeFits' /\ ReadsFit' /\ RequestFits'
    BY <1>0, <1>1, <1>2 DEF TimeFits, ReadsFit, RequestFits
  <2> QED
    BY <2>1, <2>2
<1>3. CASE /\ pc' = CASE Hop.kind = "socks5" -> "method" [] Hop.kind = "http" -> "status" [] OTHER -> "reply"
           /\ ~Unsupported /\ waited' = 0 /\ limit' = Timeout /\ reads' = 1 /\ status' = status
           /\ \/ request' = None
              \/ request' = [what |-> "greeting", auth |-> Hop.creds # "none"]
              \/ request' = Connect("connect_http")
              \/ request' = Connect("connect_socks4")
  <2>1. Hop.kind \in {"socks5", "socks4", "socks4a", "http"} /\ Hop' = Hop
    BY <1>0, <1>1, <1>3 DEF Unsupported, Proxies, Hop
  <2>2. PlaceFits'
    BY <1>0, <1>1, <1>3, <2>1, NoneIsNothing DEF PlaceFits, AnswerReads, Socks5Reads, Statuses
  <2>3. TimeFits'
    <3>1. 0 \in 0..Timeout /\ 0 # Timeout
      BY <1>0
    <3> QED
      BY <1>1, <1>3, <3>1 DEF TimeFits
  <2>4. ReadsFit'
    <3>1. reads' = 1 /\ tries' = 0
      BY <1>1, <1>3
    <3>2. pc' \in {"method", "status", "reply"}
      BY <1>3, <2>1
    <3>3. 1 = 0 + 1 /\ 0 < Attempts
      BY <1>0
    <3> QED
      BY <3>1, <3>2, <3>3 DEF ReadsFit
  <2>5. RequestFits'
    <3>1. peer # None /\ peer' = peer
      BY <1>0, <1>1 DEF RequestFits
    <3>2. request' = None \/ (request' \in Messages /\ request'.what # "get")
      BY <1>0, <1>3, RequestsAreMessages
    <3> QED
      BY <3>1, <3>2 DEF RequestFits
  <2> QED
    BY <2>2, <2>3, <2>4, <2>5
<1> QED
  BY <1>2, <1>3 DEF Begin, Over

\* Reads take nothing from what is known of the client.
LEMMA ReadingKeepsClient ==
  ASSUME ClientInv, Recv \/ ReadFails
  PROVE  ClientInv'
<1> USE DEF ClientInv
<1>0. Timeout \in Int /\ waited \in Int /\ limit = Timeout /\ waited + (Timeout - waited) = Timeout
  BY DialAssumption DEF TimeFits
<1>1. /\ chain' = chain /\ hop' = hop /\ purpose' = purpose /\ closed' = closed /\ fault' = fault
      /\ peer' = peer /\ tries' = tries /\ waited' = waited /\ limit' = limit /\ reads' = reads /\ request' = request
  BY <1>0 DEF Recv, ReadFails, worldVars, Remaining
<1>2. pc \in AnswerReads /\ purpose # "page" /\ status = None
  BY DEF Recv, ReadFails, Reading, Some, PlaceFits, AnswerReads, Socks5Reads
<1>3. (pc' = pc /\ status' = status) \/ (pc' = "over" /\ status' \in {"timeout", "net"})
  BY DEF Recv, ReadFails, Over
<1>4. PlaceFits'
  BY <1>1, <1>2, <1>3 DEF PlaceFits, AnswerReads, Socks5Reads, Hop
<1>5. TimeFits' /\ RequestFits'
  BY <1>0, <1>1, <1>2, <1>3 DEF TimeFits, RequestFits, AnswerReads, Socks5Reads
<1>6. ReadsFit'
  BY <1>1, <1>3 DEF ReadsFit
<1> QED
  BY <1>4, <1>5, <1>6

\* A handshake that fails ends the dial.
LEMMA FailingKeepsClient ==
  ASSUME ClientInv, pc \in AnswerReads, tries' \in Nat,
         NEW st \in Statuses \ {"ok"}, Over(st),
         UNCHANGED <<purpose, chain, hop, waited, limit, reads, request, peer, closed, fault>>
  PROVE  ClientInv'
<1> USE DEF ClientInv
<1>1. pc' = "over" /\ status' # "ok" /\ purpose # "page" /\ peer # None
  BY NoneIsNothing DEF Over, PlaceFits, RequestFits, Statuses, AnswerReads, Socks5Reads
<1>2. PlaceFits'
  BY <1>1 DEF PlaceFits, AnswerReads, Socks5Reads
<1>3. TimeFits' /\ RequestFits'
  BY <1>1 DEF TimeFits, RequestFits
<1>4. ReadsFit'
  BY <1>1 DEF ReadsFit
<1> QED
  BY <1>2, <1>3, <1>4

\* A handshake that succeeds ends the dial, or begins that with the next hop.
LEMMA GrantedKeepsClient ==
  ASSUME ClientInv, pc \in AnswerReads, tries' \in Nat, Granted,
         UNCHANGED <<purpose, chain, peer, closed, fault>>
  PROVE  ClientInv'
<1> USE DEF ClientInv
<1>0. /\ Len(chain) \in Nat /\ hop \in 1..Len(chain) /\ purpose # "page" /\ peer # None /\ status = None
      /\ None # "ok"
  BY HopIsProxy, NoneIsNothing DEF PlaceFits, RequestFits, Statuses, AnswerReads, Socks5Reads
<1>1. /\ UNCHANGED <<waited, limit, reads, request>>
      /\ \/ hop = Len(chain) /\ hop' = hop /\ pc' = "over" /\ status' = "ok"
         \/ hop # Len(chain) /\ hop' = hop + 1 /\ pc' = "begin" /\ status' = status
  BY DEF Granted, Over
<1>2. PlaceFits'
  <2>1. hop' \in 1..Len(chain)
    BY <1>0, <1>1
  <2> QED
    BY <1>0, <1>1, <2>1 DEF PlaceFits, AnswerReads, Socks5Reads
<1>3. TimeFits' /\ RequestFits'
  BY <1>0, <1>1 DEF TimeFits, RequestFits
<1>4. ReadsFit'
  BY <1>1 DEF ReadsFit
<1> QED
  BY <1>2, <1>3, <1>4

\* The next read has its limit again, and is one more.
LEMMA AwaitingKeepsClient ==
  ASSUME ClientInv, NEW next \in Socks5Reads, Await(next), Hop.kind = "socks5",
         UNCHANGED <<purpose, chain, hop, tries, status, peer, closed, fault>>,
         \/ request' = request
         \/ request' \in Messages /\ request'.what # "get",
         \/ pc = "method" /\ next \in {"auth", "head"}
         \/ pc = "auth" /\ next = "head"
         \/ pc = "head" /\ next \in {"length", "rest_1", "rest_2"}
         \/ pc = "length" /\ next \in {"rest_1", "rest_2"}
  PROVE  ClientInv'
<1> USE DEF ClientInv
<1>0. purpose # "page" /\ peer # None /\ status = None /\ Timeout \in Nat \ {0} /\ reads \in Nat /\ Hop' = Hop
  BY DialAssumption DEF PlaceFits, RequestFits, AnswerReads, Socks5Reads, ReadsFit, Hop
<1>1. pc' = next /\ waited' = 0 /\ limit' = Timeout /\ reads' = reads + 1
  BY DEF Await
<1>2. PlaceFits'
  BY <1>0, <1>1 DEF PlaceFits, AnswerReads, Socks5Reads
<1>3. TimeFits'
  BY <1>1, LimitBegins DEF TimeFits
<1>4. ReadsFit'
  BY <1>0, <1>1, OneMoreRead DEF ReadsFit, Socks5Reads
<1>5. RequestFits'
  BY <1>0, <1>1 DEF RequestFits
<1> QED
  BY <1>2, <1>3, <1>4, <1>5

\* A SOCKS5 handshake keeps the client's part of the invariant.
LEMMA Socks5KeepsClient ==
  ASSUME ClientInv, Socks5
  PROVE  ClientInv'
<1>0. /\ pc \in Socks5Reads /\ pc \in AnswerReads /\ Hop.kind = "socks5" /\ Target \in Nat
      /\ tries \in Nat /\ tries' = tries /\ UNCHANGED <<purpose, chain, peer, closed, fault>>
  <2>1. pc \in Socks5Reads
    BY DEF Socks5, Complete, Rest, Socks5Reads
  <2> QED
    BY <2>1, TargetIsReal DEF ClientInv, PlaceFits, AnswerReads, ReadsFit, Socks5
<1>1. ASSUME NEW st \in {"handshake", "auth", "refused"}, Fails(st) PROVE ClientInv'
  BY <1>0, <1>1, FailingKeepsClient DEF Fails, Statuses
<1>2. ASSUME NEW m \in Messages, m.what # "get", NEW next \in {"auth", "head"}, SendAndAwait(m, next), hop' = hop,
             pc = "method" \/ (pc = "auth" /\ next = "head")
      PROVE  ClientInv'
  <2>1. CASE closed /\ Over("net") /\ UNCHANGED <<got, waited, limit, reads, request>>
    BY <1>0, <1>2, <2>1, FailingKeepsClient DEF Statuses
  <2>2. CASE Await(next) /\ request' = m /\ UNCHANGED status
    BY <1>0, <1>2, <2>2, AwaitingKeepsClient DEF Socks5Reads
  <2> QED
    BY <1>2, <2>1, <2>2 DEF SendAndAwait
<1>3. ASSUME NEW next \in {"length", "rest_1", "rest_2"}, Await(next), UNCHANGED <<hop, status, request>>,
             pc = "head" \/ (pc = "length" /\ next # "length")
      PROVE  ClientInv'
  BY <1>0, <1>3, AwaitingKeepsClient DEF Socks5Reads
<1>4. /\ [what |-> "password"] \in Messages /\ Connect("connect_socks5") \in Messages
      /\ [what |-> "password"].what # "get" /\ Connect("connect_socks5").what # "get"
  BY <1>0, RequestsAreMessages
<1>5. CASE Complete("method")
  BY <1>1, <1>2, <1>4, <1>5 DEF Socks5, Complete, Rest
<1>6. CASE Complete("auth")
  BY <1>1, <1>2, <1>4, <1>6 DEF Socks5, Complete, Rest
<1>7. CASE Complete("head")
  <2>1. \A t \in {"v4", "v6"} : Rest(Size(t)) \in {"rest_1", "rest_2"}
    BY DEF Rest, Size
  <2> QED
    BY <1>1, <1>3, <1>7, <2>1 DEF Socks5, Complete, Rest
<1>8. CASE Complete("length") /\ Await(Rest(Size("name"))) /\ UNCHANGED <<hop, status, request>>
  BY <1>3, <1>8 DEF Complete, Rest, Size
<1>9. CASE Granted
  BY <1>0, <1>9, GrantedKeepsClient
<1> QED
  BY <1>5, <1>6, <1>7, <1>8, <1>9 DEF Socks5

\* A SOCKS4 handshake keeps the client's part of the invariant.
LEMMA Socks4KeepsClient ==
  ASSUME ClientInv, Socks4
  PROVE  ClientInv'
<1>0. /\ pc = "reply" /\ pc \in AnswerReads /\ tries' = tries /\ tries \in Nat
      /\ UNCHANGED <<purpose, chain, peer, closed, fault>>
  BY DEF Socks4, Complete, AnswerReads, ClientInv, ReadsFit
<1>1. CASE Granted
  BY <1>0, <1>1, GrantedKeepsClient
<1>2. CASE Fails("refused")
  BY <1>0, <1>2, FailingKeepsClient DEF Fails, Statuses
<1> QED
  BY <1>1, <1>2 DEF Socks4

\* A HTTP handshake reads again, as often as it may.
LEMMA HttpKeepsClient ==
  ASSUME ClientInv, Http
  PROVE  ClientInv'
<1>0. /\ pc = "status" /\ pc \in AnswerReads /\ tries' = tries + 1 /\ tries \in Nat /\ reads \in Nat
      /\ Attempts \in Nat /\ reads = tries + 1
      /\ UNCHANGED <<purpose, chain, peer, closed, fault>>
  BY DialAssumption DEF Http, AnswerReads, ClientInv, ReadsFit
<1>1. tries' \in Nat
  BY <1>0
<1>2. CASE Granted
  BY <1>0, <1>1, <1>2, GrantedKeepsClient
<1>3. ASSUME NEW st \in {"handshake", "refused"}, Fails(st) PROVE ClientInv'
  BY <1>0, <1>1, <1>3, FailingKeepsClient DEF Fails, Statuses
<1>4. CASE /\ tries + 1 < Attempts /\ waited' = 0 /\ limit' = Timeout /\ reads' = reads + 1
           /\ UNCHANGED <<pc, hop, status, request>>
  <2>1. PlaceFits' /\ RequestFits'
    BY <1>0, <1>4 DEF ClientInv, PlaceFits, RequestFits, AnswerReads, Socks5Reads, Hop
  <2>2. TimeFits'
    BY <1>0, <1>4, LimitBegins DEF ClientInv, TimeFits
  <2>3. reads' \in Nat /\ reads' = tries' + 1 /\ tries' < Attempts /\ pc' = "status"
    BY <1>0, <1>4
  <2> QED
    BY <1>1, <2>1, <2>2, <2>3 DEF ClientInv, ReadsFit
<1> QED
  BY <1>2, <1>3, <1>4 DEF Http

\* What a check does after a dial keeps the client's part of the invariant.
LEMMA CheckingKeepsClient ==
  ASSUME ClientInv, Checking
  PROVE  ClientInv'
<1> USE DEF ClientInv
<1>0. 1 \in 1..Len(chain) /\ tries + 1 \in Nat
  <2>1. Len(chain) \in Nat \ {0} /\ tries \in Nat
    BY HopIsProxy DEF PlaceFits, ReadsFit
  <2> QED
    BY <2>1
<1>1. CASE CheckAgain
  <2>1. PlaceFits' /\ RequestFits'
    BY <1>0, <1>1, NoneIsNothing DEF CheckAgain, PlaceFits, RequestFits, AnswerReads, Socks5Reads, Statuses
  <2>2. TimeFits'
    BY <1>1, LimitBegins DEF CheckAgain, TimeFits
  <2>3. ReadsFit'
    BY <1>1 DEF CheckAgain, ReadsFit
  <2> QED
    BY <2>1, <2>2, <2>3
<1>2. CASE AsksPage
  <2>1. /\ UNCHANGED <<chain, hop, reads, status, peer, closed, fault>> /\ purpose' = "page"
        /\ status = "ok" /\ pc = "over" /\ peer # None
    BY <1>2 DEF AsksPage, RequestFits
  <2>2. CASE pc' = "page" /\ request' = [what |-> "get"] /\ waited' = 0 /\ tries' = 1 /\ limit' = Timeout
    <3>1. PlaceFits'
      BY <2>1, <2>2, NoneIsNothing DEF PlaceFits, AnswerReads, Socks5Reads, Statuses
    <3>2. RequestFits'
      BY <2>1, <2>2, RequestsAreMessages DEF RequestFits
    <3>3. TimeFits'
      BY <2>1, <2>2, LimitBegins DEF TimeFits
    <3>4. ReadsFit'
      BY <2>1, <2>2 DEF ReadsFit
    <3> QED
      BY <3>1, <3>2, <3>3, <3>4
  <2>3. CASE closed /\ UNCHANGED <<pc, request, got, waited, tries, limit>>
    <3>1. PlaceFits'
      BY <2>1, <2>3 DEF PlaceFits, AnswerReads, Socks5Reads
    <3>2. RequestFits' /\ TimeFits' /\ ReadsFit'
      BY <2>1, <2>3 DEF RequestFits, TimeFits, ReadsFit
    <3> QED
      BY <3>1, <3>2
  <2> QED
    BY <1>2, <2>2, <2>3 DEF AsksPage
<1>3. CASE ReadPage
  <2>1. /\ UNCHANGED <<purpose, chain, hop, reads, status, peer, closed, fault, request>>
        /\ pc = "page" /\ pc' \in {"page", "over"} /\ tries' \in {tries, tries + 1}
        /\ \/ waited' = 0 /\ limit' = Timeout
           \/ UNCHANGED <<waited, limit>>
    BY <1>3 DEF ReadPage
  <2>2. PlaceFits' /\ RequestFits'
    BY <2>1 DEF PlaceFits, RequestFits, AnswerReads, Socks5Reads
  <2>3. TimeFits'
    BY <2>1, LimitBegins DEF TimeFits
  <2>4. ReadsFit'
    BY <1>0, <2>1 DEF ReadsFit
  <2> QED
    BY <2>2, <2>3, <2>4
<1> QED
  BY <1>1, <1>2, <1>3 DEF Checking

\* What the peers and the clock do keeps the client's part of the invariant.
LEMMA WorldKeepsClient ==
  ASSUME ClientInv, World
  PROVE  ClientInv'
<1> USE DEF ClientInv
<1>1. CASE Tick
  <2>1. /\ UNCHANGED <<purpose, chain, pc, hop, tries, reads, status, request, peer, closed>> /\ limit' = limit
        /\ waited < limit /\ waited' = waited + 1 /\ fault' = (fault \/ waited' = limit)
    BY <1>1 DEF Tick, worldVars
  <2>2. PlaceFits' /\ RequestFits'
    BY <2>1 DEF PlaceFits, RequestFits, AnswerReads, Socks5Reads, Hop
  <2>3. ReadsFit'
    BY <2>1 DEF ReadsFit
  <2>4. waited' \in 0..Timeout
    BY <2>1, LimitBegins DEF TimeFits
  <2> QED
    BY <2>1, <2>2, <2>4, <2>3 DEF TimeFits
<1>2. CASE Answers \/ Arrive \/ Closes
  <2>1. UNCHANGED clientVars
    BY <1>2 DEF Answers, Arrive, Closes
  <2>2. PlaceFits' /\ ReadsFit'
    BY <2>1 DEF clientVars, PlaceFits, ReadsFit, AnswerReads, Socks5Reads, Hop
  <2>3. fault' \in BOOLEAN /\ (fault => fault') /\ closed' \in BOOLEAN /\ (closed' => closed \/ fault' \/ purpose = "page")
    <3>1. CASE Answers
      <4>1. fault' \in {fault, TRUE} /\ closed' \in {closed, request.what = "get"} /\ request # None
        BY <3>1 DEF Answers
      <4>2. fault' \in BOOLEAN /\ (fault => fault')
        <5>1. CASE fault' = fault
          BY <5>1 DEF TimeFits
        <5>2. CASE fault' = TRUE
          BY <5>2
        <5> QED
          BY <4>1, <5>1, <5>2
      <4>3. closed' \in BOOLEAN
        <5>1. CASE closed' = closed
          BY <5>1 DEF TimeFits
        <5>2. CASE closed' = (request.what = "get")
          BY <5>2
        <5> QED
          BY <4>1, <5>1, <5>2
      <4>4. closed' => closed \/ purpose = "page"
        BY <4>1 DEF RequestFits
      <4> QED
        BY <4>2, <4>4, <4>3
    <3>2. CASE Arrive
      BY <3>2 DEF Arrive, TimeFits
    <3>3. CASE Closes
      BY <3>3 DEF Closes, TimeFits
    <3> QED
      BY <1>2, <3>1, <3>2, <3>3
  <2>4. TimeFits'
    BY <2>1, <2>3 DEF clientVars, TimeFits
  <2>5. peer' \in Nat \cup {None} /\ request' \in {request, None} /\ (peer = None <=> peer' = None)
    <3>1. CASE Answers
      <4>1. request # None /\ peer # None /\ request' = None
        BY <3>1 DEF Answers, RequestFits
      <4>2. peer' = peer \/ ("to" \in DOMAIN request /\ peer' = request.to)
        BY <3>1 DEF Answers
      <4>3. "to" \in DOMAIN request => request.to \in Nat
        BY <4>1, RequestsAreForHops DEF RequestFits
      <4> QED
        BY <4>1, <4>2, <4>3, NoneIsNothing DEF RequestFits
    <3> QED
      BY <1>2, <3>1 DEF Arrive, Closes, RequestFits
  <2>6. RequestFits'
    BY <2>1, <2>5 DEF clientVars, RequestFits
  <2> QED
    BY <2>2, <2>4, <2>6
<1> QED
  BY <1>1, <1>2 DEF World

\* The client's part of the invariant is inductive of itself.
LEMMA ClientKept == ClientInv /\ [DialNext]_dialVars => ClientInv'
<1> SUFFICES ASSUME ClientInv, [DialNext]_dialVars PROVE ClientInv'
  OBVIOUS
<1>1. CASE UNCHANGED dialVars
  <2>1. UNCHANGED <<purpose, chain, pc, hop, tries, waited, limit, reads, status, peer, request, closed, fault>>
    BY <1>1 DEF dialVars, clientVars, worldVars
  <2>2. PlaceFits' /\ RequestFits'
    BY <2>1 DEF ClientInv, PlaceFits, RequestFits, AnswerReads, Socks5Reads, Hop
  <2>3. TimeFits'
    BY <2>1 DEF ClientInv, TimeFits
  <2>4. ReadsFit'
    BY <2>1 DEF ClientInv, ReadsFit
  <2> QED
    BY <2>2, <2>3, <2>4 DEF ClientInv
<1>2. CASE DialNext
  BY <1>2, ConnectingKeepsClient, BeginKeepsClient, ReadingKeepsClient, Socks5KeepsClient, Socks4KeepsClient,
     HttpKeepsClient, CheckingKeepsClient, WorldKeepsClient DEF DialNext, Handshake
<1> QED
  BY <1>1, <1>2

\* pmx_tcp_connect and recv_exact keep to timeout_ms, and a handshake has as many reads as its
\* protocol has answers, whatever the peers do.
THEOREM BoundedThm == DialSpec => []DialIsBounded
<1>1. ClientInv => DialIsBounded
  <2> SUFFICES ASSUME ClientInv PROVE DialIsBounded
    OBVIOUS
  <2>1. waited <= Timeout
    BY LimitBegins DEF ClientInv, TimeFits
  <2>2. \A n \in Nat : (n = 1 \/ n = 2 \/ n <= 3 \/ n <= 4 => n <= 5) /\ (n = 1 => n <= 1)
    OBVIOUS
  <2>3. pc = "status" => reads <= Attempts
    BY DialAssumption DEF ClientInv, ReadsFit
  <2>4. ASSUME Reading, pc # "page" PROVE pc \in AnswerReads
    BY <2>4 DEF Reading, ClientInv, PlaceFits
  <2>5. ASSUME pc \in AnswerReads
        PROVE  reads <= (IF Hop.kind = "socks5" THEN 5 ELSE IF Hop.kind = "http" THEN Attempts ELSE 1)
    <3>1. CASE pc \in Socks5Reads
      BY <2>2, <3>1 DEF ClientInv, PlaceFits, ReadsFit, Socks5Reads
    <3>2. CASE pc = "status"
      BY <2>3, <3>2 DEF ClientInv, PlaceFits
    <3>3. CASE pc = "reply"
      BY <2>2, <3>3 DEF ClientInv, PlaceFits, ReadsFit
    <3> QED
      BY <2>5, <3>1, <3>2, <3>3 DEF AnswerReads
  <2> QED
    BY <2>1, <2>4, <2>5 DEF DialIsBounded
<1> QED
  BY <1>1, ClientStarts, ClientKept, PTL DEF DialSpec

-----------------------------------------------------------------------------
\* A stream in parts: what is got, buffered and on its way.
LEMMA StreamShape ==
  ASSUME NEW g \in Seq(Cell), NEW b \in Seq(Cell), NEW w \in Seq(Cell)
  PROVE  /\ b \o w \in Seq(Cell) /\ Len(b \o w) = Len(b) + Len(w)
         /\ g \o (b \o w) \in Seq(Cell) /\ Len(g \o (b \o w)) = Len(g) + Len(b) + Len(w)
         /\ \A i \in 1..Len(g) : (g \o (b \o w))[i] = g[i]
         /\ \A i \in 1..Len(b \o w) : (g \o (b \o w))[Len(g) + i] = (b \o w)[i]
         /\ {Len(g), Len(b), Len(w)} \subseteq Nat
<1> HIDE DEF Cell
<1>1. {Len(g), Len(b), Len(w)} \subseteq Nat
  BY LenProperties
<1>2. b \o w \in Seq(Cell) /\ Len(b \o w) = Len(b) + Len(w)
  BY ConcatProperties
<1> DEFINE u == b \o w
<1>3. u \in Seq(Cell) /\ Len(u) = Len(b) + Len(w)
  BY <1>2
<1> HIDE DEF u
<1>4. /\ g \o u \in Seq(Cell) /\ Len(g \o u) = Len(g) + Len(u)
      /\ \A i \in 1..(Len(g) + Len(u)) : (g \o u)[i] = IF i <= Len(g) THEN g[i] ELSE u[i - Len(g)]
  BY <1>3, ConcatProperties
<1>5. Len(g) \in Nat /\ Len(u) \in Nat
  BY <1>1, <1>3
<1>6. ASSUME NEW i \in 1..Len(u)
      PROVE  (g \o u)[Len(g) + i] = u[i]
  <2>1. Len(g) + i \in 1..(Len(g) + Len(u)) /\ ~(Len(g) + i <= Len(g)) /\ (Len(g) + i) - Len(g) = i
    BY <1>5
  <2> QED
    BY <1>4, <2>1
<1>7. ASSUME NEW i \in 1..Len(g)
      PROVE  (g \o u)[i] = g[i]
  <2>1. i \in 1..(Len(g) + Len(u)) /\ i <= Len(g)
    BY <1>5
  <2> QED
    BY <1>4, <2>1
<1>8. Len(g \o u) = Len(g) + Len(b) + Len(w)
  BY <1>1, <1>3, <1>4
<1> QED
  BY <1>1, <1>2, <1>4, <1>6, <1>7, <1>8 DEF u

\* Nothing is behind an empty sequence of cells.
LEMMA EmptyCells ==
  /\ <<>> \in Seq(Cell) /\ Len(<<>>) = 0
  /\ \A s \in Seq(Cell) : Len(s) \in Nat /\ (Len(s) = 0 <=> s = <<>>) /\ s \o <<>> = s /\ <<>> \o s = s
BY EmptySeq, LenProperties, ConcatEmptySeq

\* A sequence is its beginning and the rest of it.
LEMMA CutCells ==
  ASSUME NEW s \in Seq(Cell), NEW n \in 0..Len(s)
  PROVE  /\ SubSeq(s, 1, n) \in Seq(Cell) /\ Len(SubSeq(s, 1, n)) = n
         /\ SubSeq(s, n + 1, Len(s)) \in Seq(Cell) /\ Len(SubSeq(s, n + 1, Len(s))) = Len(s) - n
         /\ SubSeq(s, 1, n) \o SubSeq(s, n + 1, Len(s)) = s
<1> HIDE DEF Cell
<1>1. Len(s) \in Nat /\ n \in Int /\ n <= Len(s) /\ \A i \in 1..Len(s) : s[i] \in Cell
  BY ElementOfSeq, LenProperties
<1>2. SubSeq(s, 1, n) \in Seq(Cell) /\ Len(SubSeq(s, 1, n)) = IF 1 <= n THEN n - 1 + 1 ELSE 0
  <2>1. \A i \in 1..n : s[i] \in Cell
    BY <1>1
  <2> QED
    BY <1>1, <2>1, SubSeqProperties
<1>3. /\ SubSeq(s, n + 1, Len(s)) \in Seq(Cell)
      /\ Len(SubSeq(s, n + 1, Len(s))) = IF n + 1 <= Len(s) THEN Len(s) - (n + 1) + 1 ELSE 0
  <2>1. (\A i \in (n + 1)..Len(s) : s[i] \in Cell) /\ n + 1 \in Int /\ Len(s) \in Int
    BY <1>1
  <2> QED
    BY <2>1, SubSeqProperties
<1>4. SubSeq(s, 1, n) \o SubSeq(s, n + 1, Len(s)) = SubSeq(s, 1, Len(s))
  <2>1. 1 \in 1..Len(s) + 1 /\ n \in 1-1..Len(s) /\ Len(s) \in n..Len(s)
    BY <1>1
  <2> QED
    BY <2>1, ConcatAdjacentSubSeq
<1>5. SubSeq(s, 1, Len(s)) = s
  BY SubSeqFull
<1>6. Len(SubSeq(s, 1, n)) = n
  BY <1>1, <1>2
<1>7. Len(SubSeq(s, n + 1, Len(s))) = Len(s) - n
  BY <1>1, <1>3
<1>8. SubSeq(s, 1, n) \o SubSeq(s, n + 1, Len(s)) = s
  BY <1>4, <1>5
<1> QED
  BY <1>2, <1>3, <1>6, <1>7, <1>8

\* Parts of a stream may be joined in any order.
Joined(s, t) == s \o t

\* Joining is associative, and what is joined of cells is of cells.
LEMMA JoinedCells ==
  ASSUME NEW g \in Seq(Cell), NEW x \in Seq(Cell), NEW y \in Seq(Cell)
  PROVE  Joined(x, y) \in Seq(Cell) /\ Joined(Joined(g, x), y) = Joined(g, Joined(x, y))
BY ConcatAssociative, ConcatProperties DEF Joined

\* So a part of one may be moved to the other.
LEMMA MovedPart ==
  ASSUME NEW g \in Seq(Cell), NEW b \in Seq(Cell), NEW w \in Seq(Cell), NEW n \in 0..Len(b)
  PROVE  /\ (g \o SubSeq(b, 1, n)) \o SubSeq(b, n + 1, Len(b)) = g \o b
         /\ (g \o SubSeq(b, 1, n)) \o (SubSeq(b, n + 1, Len(b)) \o w) = g \o (b \o w)
<1> HIDE DEF Cell
<1>1. \A x, y \in Seq(Cell) : Joined(x, y) = b =>
        Joined(Joined(g, x), y) = Joined(g, b) /\ Joined(Joined(g, x), Joined(y, w)) = Joined(g, Joined(b, w))
  BY JoinedCells
<1>2. PICK x \in Seq(Cell) : x = SubSeq(b, 1, n)
  BY CutCells
<1>3. PICK y \in Seq(Cell) : y = SubSeq(b, n + 1, Len(b))
  BY CutCells
<1>4. Joined(x, y) = b
  BY <1>2, <1>3, CutCells DEF Joined
<1>5. Joined(Joined(g, x), y) = Joined(g, b) /\ Joined(Joined(g, x), Joined(y, w)) = Joined(g, Joined(b, w))
  BY <1>1, <1>4
<1> QED
  BY <1>2, <1>3, <1>5 DEF Joined

\* Cells move along the stream, from the wire to the buffer and from there to the client.
LEMMA MovedCells ==
  ASSUME NEW g \in Seq(Cell), NEW b \in Seq(Cell), NEW w \in Seq(Cell)
  PROVE  /\ \A n \in 0..Len(b) : (g \o SubSeq(b, 1, n)) \o (SubSeq(b, n + 1, Len(b)) \o w) = g \o (b \o w)
         /\ \A n \in 0..Len(w) : (b \o SubSeq(w, 1, n)) \o SubSeq(w, n + 1, Len(w)) = b \o w
         /\ (g \o b) \o (<<>> \o w) = g \o (b \o w)
<1> HIDE DEF Cell
<1>1. ASSUME NEW n \in 0..Len(b)
      PROVE  (g \o SubSeq(b, 1, n)) \o (SubSeq(b, n + 1, Len(b)) \o w) = g \o (b \o w)
  BY MovedPart
<1>2. ASSUME NEW n \in 0..Len(w)
      PROVE  (b \o SubSeq(w, 1, n)) \o SubSeq(w, n + 1, Len(w)) = b \o w
  BY MovedPart
<1>3. (g \o b) \o (<<>> \o w) = g \o (b \o w)
  <2>1. <<>> \o w = w
    BY EmptyCells
  <2>2. (g \o b) \o w = g \o (b \o w)
    BY JoinedCells DEF Joined
  <2> QED
    BY <2>1, <2>2
<1> QED
  BY <1>1, <1>2, <1>3

-----------------------------------------------------------------------------
\* A status line has its word at its end.
LEMMA StatusLines ==
  ASSUME NEW w \in Words
  PROVE  /\ StatusLineOf(w) \in Seq(Words) /\ Len(StatusLineOf(w)) = StatusLine
         /\ 1 \in 1..StatusLine /\ StatusLine \in 1..StatusLine /\ StatusLine \in Nat
         /\ StatusLineOf(w)[1] = "HTTP" /\ StatusLineOf(w)[StatusLine] = w
<1>1. StatusLine \in Nat /\ StatusLine > 1 /\ 1 \in 1..StatusLine /\ StatusLine \in 1..StatusLine
  BY DialAssumption
<1>2. "HTTP" \in Words /\ "text" \in Words
  BY DEF Words
<1> HIDE DEF Words
<1>3. StatusLineOf(w) \in [1..StatusLine -> Words]
  BY <1>2 DEF StatusLineOf
<1>4. StatusLineOf(w) \in Seq(Words) /\ Len(StatusLineOf(w)) = StatusLine
  BY <1>1, <1>3
<1>5. StatusLineOf(w)[1] = "HTTP" /\ StatusLineOf(w)[StatusLine] = w
  BY <1>1 DEF StatusLineOf
<1> QED
  BY <1>1, <1>4, <1>5

\* The answer of an HTTP proxy that grants is a status line and more.
LEMMA HttpReply ==
  /\ Reply("http", None) \in Seq(Words) /\ Len(Reply("http", None)) = StatusLine + 2 /\ StatusLine \in Nat
  /\ Reply("http", None)[1] = "HTTP" /\ Reply("http", None)[StatusLine] = "granted"
<1>1. "granted" \in Words /\ <<"header", "blank">> \in Seq(Words) /\ Len(<<"header", "blank">>) = 2
  BY DEF Words
<1> HIDE DEF Words
<1>2. /\ StatusLineOf("granted") \in Seq(Words) /\ Len(StatusLineOf("granted")) = StatusLine
      /\ 1 \in 1..StatusLine /\ StatusLine \in 1..StatusLine /\ StatusLine \in Nat
      /\ StatusLineOf("granted")[1] = "HTTP" /\ StatusLineOf("granted")[StatusLine] = "granted"
  BY <1>1, StatusLines
<1>3. Reply("http", None) = StatusLineOf("granted") \o <<"header", "blank">>
  BY DEF Reply
<1> DEFINE l == StatusLineOf("granted")
           r == <<"header", "blank">>
<1>4. l \in Seq(Words) /\ r \in Seq(Words) /\ Len(l) = StatusLine /\ Len(r) = 2
  BY <1>1, <1>2
<1> HIDE DEF l, r
<1>5. /\ l \o r \in Seq(Words) /\ Len(l \o r) = Len(l) + Len(r)
      /\ \A i \in 1..Len(l) + Len(r) : (l \o r)[i] = IF i <= Len(l) THEN l[i] ELSE r[i - Len(l)]
  BY <1>4, ConcatProperties
<1>6. /\ 1 \in 1..Len(l) + Len(r) /\ StatusLine \in 1..Len(l) + Len(r) /\ 1 <= Len(l) /\ StatusLine <= Len(l)
      /\ Len(l) + Len(r) = StatusLine + 2
  BY <1>2, <1>4
<1>7. (l \o r)[1] = l[1] /\ (l \o r)[StatusLine] = l[StatusLine]
  BY <1>5, <1>6
<1> QED
  BY <1>2, <1>3, <1>5, <1>6, <1>7 DEF l, r

\* A SOCKS proxy's answer is of one of four shapes.
LEMMA SocksReplies ==
  /\ \A t \in {"v4", "v6", "name"} :
       LET a == Reply("socks5", t) IN
       /\ a \in Seq(Words) /\ a[1] = "granted" /\ a[2] = t
       /\ t = "v4" => a = <<"granted", "v4", "address", "port">>
       /\ t = "v6" => a = <<"granted", "v6", "address", "address", "port">>
       /\ t = "name" => a = <<"granted", "name", "length", "address", "port">>
  /\ Reply("socks4", None) \in Seq(Words) /\ Reply("socks4", None) = <<"v4_reply", "granted">>
<1>1. /\ <<"granted", "v4", "address", "port">> \in Seq(Words)
      /\ <<"granted", "v6", "address", "address", "port">> \in Seq(Words)
      /\ <<"granted", "name", "length", "address", "port">> \in Seq(Words)
      /\ <<"v4_reply", "granted">> \in Seq(Words)
  BY DEF Words
<1>2. /\ Reply("socks5", "v4") = <<"granted", "v4", "address", "port">>
      /\ Reply("socks5", "v6") = <<"granted", "v6", "address", "address", "port">>
      /\ Reply("socks5", "name") = <<"granted", "name", "length", "address", "port">>
      /\ Reply("socks4", None) = <<"v4_reply", "granted">>
  BY DEF Reply
<1>3. /\ <<"granted", "v4", "address", "port">>[1] = "granted" /\ <<"granted", "v4", "address", "port">>[2] = "v4"
      /\ <<"granted", "v6", "address", "address", "port">>[1] = "granted"
      /\ <<"granted", "v6", "address", "address", "port">>[2] = "v6"
      /\ <<"granted", "name", "length", "address", "port">>[1] = "granted"
      /\ <<"granted", "name", "length", "address", "port">>[2] = "name"
  OBVIOUS
<1>4. "v4" # "v6" /\ "v6" # "name" /\ "v4" # "name"
  OBVIOUS
<1>5. ASSUME NEW t \in {"v4", "v6", "name"}
      PROVE  /\ Reply("socks5", t) \in Seq(Words) /\ Reply("socks5", t)[1] = "granted" /\ Reply("socks5", t)[2] = t
             /\ t = "v4" => Reply("socks5", t) = <<"granted", "v4", "address", "port">>
             /\ t = "v6" => Reply("socks5", t) = <<"granted", "v6", "address", "address", "port">>
             /\ t = "name" => Reply("socks5", t) = <<"granted", "name", "length", "address", "port">>
  <2>1. CASE t = "v4"
    BY <1>1, <1>2, <1>3, <1>4, <2>1, Zenon
  <2>2. CASE t = "v6"
    BY <1>1, <1>2, <1>3, <1>4, <2>2, Zenon
  <2>3. CASE t = "name"
    BY <1>1, <1>2, <1>3, <1>4, <2>3, Zenon
  <2> QED
    BY <2>1, <2>2, <2>3
<1> QED
  BY <1>1, <1>2, <1>5

\* Every answer is of words.
LEMMA AnswersAreWords ==
  ASSUME NEW m \in Messages, NEW a \in Grants(m) \cup Refusals(m)
  PROVE  a \in Seq(Words)
<1>1. /\ \A s \in {<<"v5", "no_password">>, <<"v5", "password">>, <<"v1", "granted">>, <<"page", "blank", "address">>,
                   <<"v5", "none">>, <<"HTTP", "text">>, <<"v1", "refused">>, <<"junk", "junk">>, <<"page">>,
                   <<"refused", "v4">>, <<"granted", "junk">>, <<"junk", "refused">>} : s \in Seq(Words)
      /\ "refused" \in Words
  BY DEF Words
<1> HIDE DEF Words
<1>2. StatusLineOf("refused") \in Seq(Words) /\ Reply("http", None) \in Seq(Words)
  BY <1>1, StatusLines, HttpReply
<1>3. Reply("socks4", None) \in Seq(Words) /\ \A t \in {"v4", "v6", "name"} : Reply("socks5", t) \in Seq(Words)
  BY SocksReplies
<1>4. m.what \in {"greeting", "password", "get", "connect_socks5", "connect_socks4", "connect_http"}
  BY DEF Messages
<1>5. CASE a \in Grants(m)
  BY <1>1, <1>2, <1>3, <1>4, <1>5 DEF Grants
<1>6. CASE a \in Refusals(m)
  BY <1>1, <1>2, <1>4, <1>6 DEF Refusals
<1> QED
  BY <1>5, <1>6

\* A peer's cells are its own.
LEMMA CellsAreOwn ==
  ASSUME NEW by \in Nat, NEW a \in Seq(Words)
  PROVE  /\ Cells(by, a) \in Seq(Cell) /\ Len(Cells(by, a)) = Len(a) /\ Len(a) \in Nat
         /\ \A i \in 1..Len(a) : Cells(by, a)[i].by = by /\ Cells(by, a)[i].is = a[i]
<1>1. Len(a) \in Nat /\ \A i \in 1..Len(a) : a[i] \in Words
  BY LenProperties, ElementOfSeq
<1> HIDE DEF Words
<1>2. Cells(by, a) \in [1..Len(a) -> Cell]
  BY <1>1 DEF Cells, Cell
<1>3. Cells(by, a) \in Seq(Cell) /\ Len(Cells(by, a)) = Len(a)
  BY <1>1, <1>2
<1> QED
  BY <1>1, <1>3 DEF Cells

-----------------------------------------------------------------------------
\* recv_exact takes what it still wants, and the stream is as it was.
LEMMA RecvTakes ==
  ASSUME StreamIsTyped, Recv
  PROVE  StreamIsTyped' /\ Stream' = Stream /\ Len(got') <= Wanted
<1> HIDE DEF Cell
<1>1. got \in Seq(Cell) /\ buffer \in Seq(Cell) /\ wire \in Seq(Cell) /\ wire' = wire
  BY DEF StreamIsTyped, Recv
<1>2. Wanted \in Nat /\ Len(got) \in Nat /\ Len(got) < Wanted /\ Len(buffer) \in Nat
  <2>1. Wanted \in Nat
    BY DEF Wanted
  <2>2. Len(got) < Wanted
    BY DEF Recv, Waiting, Reading
  <2> QED
    BY <1>1, <2>1, <2>2, LenProperties
<1> DEFINE n == IF Len(buffer) < Wanted - Len(got) THEN Len(buffer) ELSE Wanted - Len(got)
<1>3. n \in 0..Len(buffer) /\ Len(got) + n <= Wanted
  BY <1>2
<1>4. got' = got \o SubSeq(buffer, 1, n) /\ buffer' = SubSeq(buffer, n + 1, Len(buffer))
  BY DEF Recv
<1> HIDE DEF n
<1>5. /\ SubSeq(buffer, 1, n) \in Seq(Cell) /\ Len(SubSeq(buffer, 1, n)) = n /\ buffer' \in Seq(Cell)
  BY <1>1, <1>3, <1>4, CutCells
<1>6. got' \in Seq(Cell) /\ Len(got') = Len(got) + n
  BY <1>1, <1>4, <1>5, ConcatProperties
<1>7. got' \o (buffer' \o wire) = got \o (buffer \o wire)
  BY <1>1, <1>3, <1>4, MovedCells
<1> QED
  BY <1>1, <1>3, <1>5, <1>6, <1>7 DEF StreamIsTyped, Stream, Unread

\* What arrives was on its way.
LEMMA ArriveMoves ==
  ASSUME StreamIsTyped, Arrive
  PROVE  StreamIsTyped' /\ Unread' = Unread /\ Stream' = Stream /\ wire # <<>>
<1> HIDE DEF Cell
<1>1. got \in Seq(Cell) /\ buffer \in Seq(Cell) /\ wire \in Seq(Cell) /\ got' = got
  BY DEF StreamIsTyped, Arrive, clientVars
<1>2. PICK n \in 1..Len(wire) : buffer' = buffer \o SubSeq(wire, 1, n) /\ wire' = SubSeq(wire, n + 1, Len(wire))
  BY DEF Arrive
<1>3. n \in 0..Len(wire) /\ Len(wire) # 0
  BY <1>1, LenProperties
<1>4. SubSeq(wire, 1, n) \in Seq(Cell) /\ wire' \in Seq(Cell)
  BY <1>1, <1>2, <1>3, CutCells
<1>5. buffer' \in Seq(Cell)
  BY <1>1, <1>2, <1>4, ConcatProperties
<1>6. buffer' \o wire' = buffer \o wire
  BY <1>1, <1>2, <1>3, MovedCells
<1>7. wire # <<>>
  BY <1>1, <1>3, EmptyCells
<1> QED
  BY <1>1, <1>4, <1>5, <1>6, <1>7 DEF StreamIsTyped, Stream, Unread

\* What is read of an HTTP answer is kept with what was read before.
LEMMA HttpTakes ==
  ASSUME StreamIsTyped
  PROVE  /\ got \o buffer \in Seq(Cell) /\ <<>> \in Seq(Cell)
         /\ (got \o buffer) \o (<<>> \o wire) = Stream /\ <<>> \o wire = wire
         /\ Len(got \o buffer) \in Nat /\ Len(got \o buffer) <= Len(Stream) /\ Len(Stream) \in Nat
         /\ \A i \in 1..Len(got \o buffer) : Stream[i] = (got \o buffer)[i]
         /\ \A i \in 1..Len(wire) : wire[i] = Stream[Len(got \o buffer) + i]
<1> HIDE DEF Cell
<1>1. got \in Seq(Cell) /\ buffer \in Seq(Cell) /\ wire \in Seq(Cell) /\ <<>> \in Seq(Cell)
  BY EmptyCells DEF StreamIsTyped
<1>2. (got \o buffer) \o (<<>> \o wire) = Stream /\ <<>> \o wire = wire
  BY <1>1, MovedCells, EmptyCells DEF Stream, Unread
<1>3. PICK all \in Seq(Cell) : all = got \o buffer
  BY <1>1, ConcatProperties
<1>4. /\ Len(all) \in Nat /\ Len(wire) \in Nat
      /\ all \o wire \in Seq(Cell) /\ Len(all \o wire) = Len(all) + Len(wire)
      /\ \A i \in 1..Len(all) + Len(wire) : (all \o wire)[i] = IF i <= Len(all) THEN all[i] ELSE wire[i - Len(all)]
  BY <1>1, ConcatProperties, LenProperties
<1>5. all \o wire = Stream
  BY <1>2, <1>3
<1>6. \A i \in 1..Len(all) : i \in 1..Len(all) + Len(wire) /\ i <= Len(all)
  BY <1>4
<1>7. \A i \in 1..Len(wire) : /\ Len(all) + i \in 1..Len(all) + Len(wire) /\ ~(Len(all) + i <= Len(all))
                              /\ (Len(all) + i) - Len(all) = i
  BY <1>4
<1>8. Len(all) <= Len(Stream) /\ Len(Stream) \in Nat
  BY <1>4, <1>5
<1>9. (\A i \in 1..Len(all) : Stream[i] = all[i]) /\ (\A i \in 1..Len(wire) : wire[i] = Stream[Len(all) + i])
  BY <1>4, <1>5, <1>6, <1>7
<1> QED
  BY <1>1, <1>2, <1>3, <1>4, <1>8, <1>9

\* What a peer adds to the stream is its own.
Adds(s, w, p, a) ==
  /\ s \in Seq(Cell) /\ Len(s) = Len(w) + Len(a) /\ Len(w) \in Nat /\ Len(a) \in Nat
  /\ \A i \in 1..Len(w) : s[i] = w[i]
  /\ \A i \in 1..Len(a) : s[Len(w) + i].by = p /\ s[Len(w) + i].is = a[i]

\* An answer behind what is on its way leaves that as it was.
LEMMA AddedCells ==
  ASSUME NEW p \in Nat, NEW w \in Seq(Cell), NEW a \in Seq(Words)
  PROVE  Adds(w \o Cells(p, a), w, p, a)
<1> HIDE DEF Cell, Words
<1>1. PICK c \in Seq(Cell) : c = Cells(p, a)
  BY CellsAreOwn
<1>2. Len(c) = Len(a) /\ Len(a) \in Nat /\ \A i \in 1..Len(a) : c[i].by = p /\ c[i].is = a[i]
  BY <1>1, CellsAreOwn
<1>3. /\ w \o c \in Seq(Cell) /\ Len(w \o c) = Len(w) + Len(c) /\ Len(w) \in Nat
      /\ \A i \in 1..Len(w) + Len(c) : (w \o c)[i] = IF i <= Len(w) THEN w[i] ELSE c[i - Len(w)]
  BY ConcatProperties, LenProperties
<1>4. \A i \in 1..Len(w) : i \in 1..Len(w) + Len(c) /\ i <= Len(w)
  BY <1>2, <1>3
<1>5. \A i \in 1..Len(a) : Len(w) + i \in 1..Len(w) + Len(c) /\ ~(Len(w) + i <= Len(w)) /\ (Len(w) + i) - Len(w) = i
  BY <1>2, <1>3
<1>6. \A i \in 1..Len(a) : (w \o c)[Len(w) + i] = c[i]
  BY <1>3, <1>5
<1>7. \A i \in 1..Len(w) : (w \o c)[i] = w[i]
  BY <1>3, <1>4
<1> QED
  BY <1>1, <1>2, <1>3, <1>6, <1>7 DEF Adds

\* The destination's first word.
LEMMA HelloIsAWord == <<"hello">> \in Seq(Words) /\ Len(<<"hello">>) = 1 /\ <<"hello">> # <<>>
BY DEF Words

\* An answer, and what the destination may say behind it.
AddsBoth(s, w, p, a, q, e) ==
  /\ s \in Seq(Cell) /\ {Len(w), Len(a), Len(e)} \subseteq Nat /\ Len(s) = Len(w) + Len(a) + Len(e)
  /\ \A i \in 1..Len(w) : s[i] = w[i]
  /\ \A i \in 1..Len(a) : s[Len(w) + i].by = p /\ s[Len(w) + i].is = a[i]
  /\ \A i \in (Len(w) + Len(a) + 1)..Len(s) : s[i].by = q
  /\ Len(e) = 0 <=> e = <<>>

\* So does an answer with a greeting of the destination behind it.
LEMMA AnsweredCells ==
  ASSUME NEW p \in Nat, NEW q \in Nat, NEW w \in Seq(Cell), NEW a \in Seq(Words), NEW e \in {<<>>, <<"hello">>}
  PROVE  AddsBoth(w \o Cells(p, a) \o Cells(q, e), w, p, a, q, e)
<1>1. e \in Seq(Words) /\ (Len(e) = 0 <=> e = <<>>) /\ Len(e) \in Nat
  <2>1. CASE e = <<>>
    BY <2>1
  <2>2. CASE e = <<"hello">>
    BY <2>2, HelloIsAWord
  <2> QED
    BY <2>1, <2>2
<1> HIDE DEF Cell, Words
<1>2. PICK v : v = w \o Cells(p, a) /\ Adds(v, w, p, a)
  BY AddedCells
<1>3. {Len(w), Len(a)} \subseteq Nat
  BY <1>2 DEF Adds
<1>4. PICK s : s = v \o Cells(q, e) /\ Adds(s, v, q, e)
  <2>1. v \in Seq(Cell)
    BY <1>2 DEF Adds
  <2> QED
    BY <1>1, <2>1, AddedCells
<1>5. Len(s) = Len(v) + Len(e) /\ Len(v) = Len(w) + Len(a) /\ Len(v) \in Nat
  BY <1>2, <1>4 DEF Adds
<1>6. \A i \in 1..Len(w) : i \in 1..Len(v)
  BY <1>3, <1>5
<1>7. \A i \in 1..Len(a) : Len(w) + i \in 1..Len(v)
  BY <1>3, <1>5
<1>8. ASSUME NEW i \in (Len(w) + Len(a) + 1)..Len(s)
      PROVE  s[i].by = q
  <2>1. i - Len(v) \in 1..Len(e) /\ Len(v) + (i - Len(v)) = i
    BY <1>1, <1>3, <1>5
  <2> QED
    BY <1>4, <2>1 DEF Adds
<1>9. Len(s) = Len(w) + Len(a) + Len(e)
  BY <1>3, <1>5
<1>10. (\A i \in 1..Len(w) : s[i] = w[i]) /\ \A i \in 1..Len(a) : s[Len(w) + i].by = p /\ s[Len(w) + i].is = a[i]
  <2>1. (\A i \in 1..Len(v) : s[i] = v[i]) /\ \A i \in 1..Len(w) : v[i] = w[i]
    BY <1>2, <1>4 DEF Adds
  <2>2. \A i \in 1..Len(a) : v[Len(w) + i].by = p /\ v[Len(w) + i].is = a[i]
    BY <1>2 DEF Adds
  <2> QED
    BY <1>6, <1>7, <2>1, <2>2
<1>11. s = w \o Cells(p, a) \o Cells(q, e)
  BY <1>2, <1>4
<1>12. s \in Seq(Cell)
  BY <1>4 DEF Adds
<1> QED
  BY <1>1, <1>3, <1>8, <1>9, <1>10, <1>11, <1>12 DEF AddsBoth

\* The cells of the stream stay cells.
LEMMA TypedKept ==
  ASSUME ClientInv, StreamIsTyped, [DialNext]_dialVars
  PROVE  StreamIsTyped'
<1> HIDE DEF Cell
<1>0. got \in Seq(Cell) /\ buffer \in Seq(Cell) /\ wire \in Seq(Cell) /\ <<>> \in Seq(Cell)
  BY EmptyCells DEF StreamIsTyped
<1>1. CASE Recv
  BY <1>1, RecvTakes
<1>2. CASE Arrive
  BY <1>2, ArriveMoves
<1>3. CASE Http
  <2>1. got' \in {got, got \o buffer} /\ buffer' = <<>> /\ wire' = wire
    BY <1>3 DEF Http, Granted, Fails
  <2> QED
    BY <1>0, <2>1, HttpTakes DEF StreamIsTyped
<1>4. CASE ReadPage
  <2>1. got' \in {got, got \o buffer} /\ buffer' \in {buffer, <<>>} /\ wire' = wire
    BY <1>4 DEF ReadPage
  <2> QED
    BY <1>0, <2>1, HttpTakes DEF StreamIsTyped
<1>5. CASE Answers
  <2>1. request \in Messages /\ peer \in Nat /\ Destination \in Nat /\ got' = got /\ buffer' = buffer
    BY <1>5, TargetIsReal DEF Answers, clientVars, ClientInv, RequestFits
  <2>2. CASE wire' = wire
    BY <1>0, <2>1, <2>2 DEF StreamIsTyped
  <2>3. ASSUME NEW a \in Refusals(request), wire' = wire \o Cells(peer, a) PROVE StreamIsTyped'
    <3>1. a \in Seq(Words)
      BY <2>1, AnswersAreWords
    <3> QED
      BY <1>0, <2>1, <2>3, <3>1, AddedCells DEF StreamIsTyped, Adds
  <2>4. ASSUME NEW a \in Grants(request), NEW hello \in {<<>>, <<"hello">>},
               wire' = wire \o Cells(peer, a) \o Cells(Destination, hello)
        PROVE  StreamIsTyped'
    <3>1. a \in Seq(Words)
      BY <2>1, AnswersAreWords
    <3> QED
      BY <1>0, <2>1, <2>4, <3>1, AnsweredCells DEF StreamIsTyped, AddsBoth
  <2> QED
    BY <1>5, <2>2, <2>3, <2>4 DEF Answers
<1>6. CASE \/ Connecting \/ Begin \/ ReadFails \/ Socks5 \/ Socks4 \/ CheckAgain \/ AsksPage \/ Closes \/ Tick
           \/ UNCHANGED dialVars
  <2>1. got' \in {got, <<>>} /\ buffer' \in {buffer, <<>>} /\ wire' \in {wire, <<>>}
    <3>1. CASE Connecting
      BY <3>1 DEF Connecting, Resolve, Refused, ConnectTimesOut, Connected, worldVars
    <3>2. CASE Begin \/ ReadFails
      BY <3>2 DEF Begin, ReadFails, worldVars
    <3>3. CASE Socks5 \/ Socks4
      BY <3>3 DEF Socks5, Socks4, SendAndAwait, Await, Granted, Fails
    <3>4. CASE CheckAgain \/ AsksPage
      BY <3>4 DEF CheckAgain, AsksPage
    <3>5. CASE Closes \/ Tick \/ UNCHANGED dialVars
      BY <3>5 DEF Closes, Tick, dialVars, clientVars, worldVars
    <3> QED
      BY <1>6, <3>1, <3>2, <3>3, <3>4, <3>5
  <2> QED
    BY <1>0, <2>1 DEF StreamIsTyped
<1> QED
  BY <1>1, <1>2, <1>3, <1>4, <1>5, <1>6 DEF DialNext, Handshake, Checking, World

-----------------------------------------------------------------------------
(* The hops and the stream.                                                *)

\* No hop is behind the first one.
LEMMA NoHopBefore ==
  /\ Upto(0) = <<>> /\ Unparsable(<<>>) /\ Len(<<>>) = 0
  /\ \A h \in Nat : Append(Upto(h), h + 1) = Upto(h + 1)
<1>1. Upto(0) = <<>>
  BY DEF Upto
<1>2. Unparsable(<<>>) /\ Len(<<>>) = 0
  BY DialAssumption DEF Unparsable
<1>3. ASSUME NEW h \in Nat PROVE Append(Upto(h), h + 1) = Upto(h + 1)
  <2>1. Upto(h) \in Seq(Nat) /\ Upto(h + 1) \in Seq(Nat) /\ Len(Upto(h)) = h /\ Len(Upto(h + 1)) = h + 1
    BY DEF Upto
  <2>2. /\ Append(Upto(h), h + 1) \in Seq(Nat) /\ Len(Append(Upto(h), h + 1)) = h + 1
        /\ \A i \in 1..h : Append(Upto(h), h + 1)[i] = Upto(h)[i]
        /\ Append(Upto(h), h + 1)[h + 1] = h + 1
    BY <2>1, AppendProperties
  <2>3. \A i \in 1..h + 1 : Append(Upto(h), h + 1)[i] = Upto(h + 1)[i]
    BY <2>2 DEF Upto
  <2> QED
    BY <2>1, <2>2, <2>3, SeqEqual
<1> QED
  BY <1>1, <1>2, <1>3

\* Where the hop is the same, so are what it is asked for and what comes before it.
LEMMA SameHop ==
  ASSUME UNCHANGED <<chain, hop>>
  PROVE  /\ Clean' = Clean /\ Target' = Target /\ Hop' = Hop /\ Destination' = Destination
         /\ LeavesHeaders(hop - 1)' = LeavesHeaders(hop - 1)
BY DEF Clean, LeavesHeaders, Target, Onward, Hop, Destination

\* What a hop has answered it has answered until the client goes on.
LEMMA AnswersStay ==
  ASSUME Stream' = Stream, UNCHANGED <<pc, hop, chain, peer, route, request>>, fault => fault'
  PROVE  (Refusing => Refusing') /\ (Agreeing => Agreeing') /\ (Granting => Granting')
<1>1. Target' = Target /\ Destination' = Destination
  BY SameHop
<1>2. Answered => Answered'
  BY DEF Answered, Begun, Upto
<1>3. Answer' = Answer
  BY DEF Answer
<1> QED
  BY <1>1, <1>2, <1>3 DEF Refusing, Agreeing, Granting, Begins, Unparsable, Upto

\* Cells that move, time that passes and a stream that closes change nothing of it.
LEMMA StreamStays ==
  ASSUME DialInv, Stream' = Stream, UNCHANGED <<purpose, pc, hop, chain, peer, route, request, status, tries>>,
         fault => fault',
         Unread' = Unread \/ status # "ok",
         got = <<>> => got' = <<>> \/ buffer # <<>>,
         buffer = <<>> /\ wire = <<>> => buffer' = <<>> /\ wire' = <<>>,
         got' = got \/ (pc \notin {"status", "page"} /\ Len(got') <= Wanted)
  PROVE  StreamFits' /\ FailuresAreReal'
<1>1. /\ Clean' = Clean /\ Target' = Target /\ Hop' = Hop /\ Destination' = Destination /\ Wanted' = Wanted
      /\ LeavesHeaders(hop - 1)' = LeavesHeaders(hop - 1)
  BY SameHop DEF Wanted
<1>2. FailuresAreReal'
  BY <1>1 DEF DialInv, FailuresAreReal
<1>3. (pc \in {"resolve", "connect"} => Unreached)' /\ (Clean /\ pc = "begin" => peer = hop /\ route = Upto(hop - 1) /\ Quiet)'
  BY <1>1 DEF DialInv, StreamFits, Unreached, Quiet, Upto
<1>4. (Clean /\ status = "ok" => Tunnel)'
  BY <1>1 DEF DialInv, StreamFits, Tunnel, Upto
<1>5. (Clean /\ pc \in AnswerReads => Asking \/ Refusing \/ Agreeing \/ Granting)'
  <2>1. Asking => Asking'
    BY <1>1 DEF Asking, Begun, Upto, Asks
  <2> QED
    BY <1>1, <2>1, AnswersStay DEF DialInv, StreamFits
<1>6. (Clean /\ pc \in AnswerReads => IF pc = "status" THEN Unparsable(got) ELSE Len(got) <= Wanted)'
  BY <1>1 DEF DialInv, StreamFits, Unparsable
<1> QED
  BY <1>2, <1>3, <1>4, <1>5, <1>6 DEF StreamFits

\* recv, an arrival, a close and a tick keep the stream and the hops together.
LEMMA MovesKeepStream ==
  ASSUME DialInv, Recv \/ Arrive \/ Closes \/ Tick \/ UNCHANGED dialVars
  PROVE  StreamFits' /\ FailuresAreReal'
<1>1. CASE Recv
  <2>1. Stream' = Stream /\ Len(got') <= Wanted
    BY <1>1, RecvTakes DEF DialInv
  <2>2. /\ UNCHANGED <<purpose, pc, hop, chain, peer, route, request, status, tries, fault>>
        /\ buffer # <<>> /\ pc \notin {"status", "page"} /\ pc \in AnswerReads /\ status # "ok"
    BY <1>1, NoneIsNothing DEF Recv, Some, Reading, DialInv, ClientInv, PlaceFits, AnswerReads, Socks5Reads, Statuses
  <2> QED
    BY <2>1, <2>2, StreamStays
<1>2. CASE Arrive
  <2>1. Stream' = Stream /\ Unread' = Unread /\ wire # <<>>
    BY <1>2, ArriveMoves DEF DialInv
  <2>2. UNCHANGED <<purpose, pc, hop, chain, peer, route, request, status, tries, fault, got>>
    BY <1>2 DEF Arrive, clientVars
  <2> QED
    BY <2>1, <2>2, StreamStays
<1>3. CASE Closes \/ Tick \/ UNCHANGED dialVars
  <2>1. UNCHANGED <<purpose, pc, hop, chain, peer, route, request, status, tries, got, buffer, wire>>
    BY <1>3 DEF Closes, Tick, dialVars, clientVars, worldVars
  <2>2. fault => fault'
    <3>1. CASE Closes
      BY <3>1 DEF Closes
    <3>2. CASE Tick
      BY <3>2 DEF Tick
    <3>3. CASE UNCHANGED dialVars
      BY <3>3 DEF dialVars
    <3> QED
      BY <1>3, <3>1, <3>2, <3>3
  <2>3. Stream' = Stream /\ Unread' = Unread
    BY <2>1 DEF Stream, Unread
  <2> QED
    BY <2>1, <2>3, <2>2, StreamStays
<1> QED
  BY <1>1, <1>2, <1>3

\* Before a first hop is reached nothing is said.
LEMMA ConnectingKeepsStream ==
  ASSUME DialInv, Connecting
  PROVE  StreamFits' /\ FailuresAreReal'
<1>0. /\ UNCHANGED <<chain, hop, route, request, buffer, wire>> /\ Unreached /\ pc \in {"resolve", "connect"}
      /\ \/ UNCHANGED <<peer, status>> /\ pc' \in {"resolve", "connect"}
         \/ UNCHANGED status /\ peer' = 1 /\ pc' = "begin"
         \/ pc' = "over" /\ status' \in {"dns", "refused", "timeout"} /\ fault' = TRUE
  BY DEF Connecting, Resolve, Refused, ConnectTimesOut, Connected, Over, worldVars, DialInv, StreamFits
<1>1. status # "ok"
  BY <1>0, NoneIsNothing DEF DialInv, ClientInv, PlaceFits, AnswerReads, Socks5Reads, Statuses
<1>2. FailuresAreReal'
  BY <1>0 DEF FailuresAreReal
<1>3. (pc' # "begin" /\ pc' \notin AnswerReads /\ status' # "ok") \/ (pc' = "begin" /\ peer' = 1 /\ status' # "ok")
  BY <1>0, <1>1 DEF AnswerReads, Socks5Reads
<1>4. hop = 1 /\ route = Upto(hop - 1) /\ Quiet
  <2>1. hop = 1 /\ 1 - 1 = 0
    BY <1>0 DEF Unreached
  <2> QED
    BY <1>0, <2>1, NoHopBefore DEF Unreached
<1>5. (pc \in {"resolve", "connect"} => Unreached)'
  BY <1>0 DEF Unreached, Quiet
<1>6. (Clean /\ pc = "begin" => peer = hop /\ route = Upto(hop - 1) /\ Quiet)'
  BY <1>0, <1>3, <1>4 DEF Quiet, Upto
<1> QED
  BY <1>2, <1>3, <1>5, <1>6 DEF StreamFits, AnswerReads, Socks5Reads

\* A dial that ends without success ends for a reason.
LEMMA FailureKeepsStream ==
  ASSUME pc' = "over", status' # "ok", UNCHANGED <<chain, hop>>,
         \/ fault' \/ status' = "unsupported"
         \/ Hop.kind = "http" /\ tries' = Attempts
         \/ ~Clean
  PROVE  StreamFits' /\ FailuresAreReal'
<1>1. Clean' = Clean /\ Hop' = Hop /\ LeavesHeaders(hop - 1)' = LeavesHeaders(hop - 1)
  BY SameHop
<1>2. StreamFits'
  BY DEF StreamFits, AnswerReads, Socks5Reads
<1>3. FailuresAreReal'
  BY <1>1 DEF FailuresAreReal, Clean
<1> QED
  BY <1>2, <1>3

\* A closed stream is somebody's doing, and so is a limit that is reached.
LEMMA EndsHaveCauses ==
  ASSUME DialInv, pc \notin {"page", "over"}
  PROVE  (closed => fault) /\ (waited >= limit => fault) /\ status = None /\ status # "ok" /\ purpose # "page"
<1>1. Timeout \in Int /\ waited \in 0..Timeout /\ limit = Timeout
  BY LimitBegins DEF DialInv, ClientInv, TimeFits
<1>2. waited >= limit => waited = Timeout
  BY <1>1
<1> QED
  BY <1>2, NoneIsNothing DEF DialInv, ClientInv, TimeFits, PlaceFits, Statuses, AnswerReads, Socks5Reads

\* A read that fails does so at its limit, or at the end of the stream.
LEMMA ReadFailsKeepsStream ==
  ASSUME DialInv, ReadFails
  PROVE  StreamFits' /\ FailuresAreReal'
<1>1. /\ pc \notin {"page", "over"} /\ pc' = "over" /\ status' \in {"timeout", "net"}
      /\ UNCHANGED <<chain, hop>> /\ fault' = fault /\ (waited >= limit \/ closed)
  BY DEF ReadFails, Reading, Over
<1> QED
  BY <1>1, EndsHaveCauses, FailureKeepsStream

\* A handshake begins with a question to the hop, which has said nothing yet.
LEMMA BeginKeepsStream ==
  ASSUME DialInv, Begin
  PROVE  StreamFits' /\ FailuresAreReal'
<1>0. /\ pc = "begin" /\ UNCHANGED <<purpose, chain, hop, peer, route, buffer, wire, closed, fault>>
      /\ status = None /\ status # "ok" /\ Hop \in Proxies /\ Target \in Nat /\ (closed => fault)
  <2>1. pc = "begin" /\ UNCHANGED <<purpose, chain, hop, peer, route, buffer, wire, closed, fault>>
    BY DEF Begin
  <2> QED
    BY <2>1, EndsHaveCauses, TargetIsReal DEF DialInv, ClientInv
<1>1. CASE Unsupported /\ Over("unsupported")
  BY <1>0, <1>1, FailureKeepsStream DEF Over
<1>2. CASE closed /\ Over("net")
  BY <1>0, <1>2, FailureKeepsStream DEF Over
<1>3. CASE /\ ~Unsupported /\ got' = <<>> /\ status' = status
           /\ pc' = CASE Hop.kind = "socks5" -> "method" [] Hop.kind = "http" -> "status" [] OTHER -> "reply"
           /\ LET message == CASE Hop.kind = "socks5" -> [what |-> "greeting", auth |-> Hop.creds # "none"]
                               [] Hop.kind = "http"   -> Connect("connect_http")
                               [] OTHER               -> Connect("connect_socks4")
              IN request' = IF Ends(message) THEN message ELSE None
  <2>1. /\ Clean' = Clean /\ Target' = Target
        /\ pc' \in {"method", "status", "reply"} /\ pc' \in AnswerReads /\ status' # "ok"
    BY <1>0, <1>3, SameHop DEF AnswerReads, Socks5Reads
  <2>2. FailuresAreReal'
    BY <2>1 DEF FailuresAreReal
  <2>3. ASSUME Clean' PROVE Asking'
    <3>1. peer = hop /\ route = Upto(hop - 1) /\ Quiet
      BY <1>0, <2>1, <2>3 DEF DialInv, StreamFits
    <3>2. request' # None => Asks(request)'
      <4>1. CASE Hop.kind = "socks5"
        <5>1. pc' = "method" /\ request' \in {None, [what |-> "greeting", auth |-> Hop.creds # "none"]}
          BY <1>3, <4>1
        <5> QED
          BY <5>1 DEF Asks
      <4>2. CASE Hop.kind = "http"
        <5>1. pc' = "status" /\ request' \in {None, Connect("connect_http")}
          BY <1>3, <4>2
        <5> QED
          BY <1>0, <2>1, <5>1, RequestsAreMessages DEF Asks
      <4>3. CASE Hop.kind \notin {"socks5", "http"}
        <5>1. pc' = "reply" /\ request' \in {None, Connect("connect_socks4")}
          BY <1>3, <4>3
        <5> QED
          BY <1>0, <2>1, <5>1, RequestsAreMessages DEF Asks
      <4> QED
        BY <4>1, <4>2, <4>3
    <3> QED
      BY <1>0, <1>3, <2>1, <3>1, <3>2 DEF Asking, Begun, Quiet, Upto
  <2>4. (IF pc = "status" THEN Unparsable(got) ELSE Len(got) <= Wanted)'
    <3>1. Wanted' \in Nat
      BY DEF Wanted
    <3>2. Len(got') = 0 /\ Unparsable(got')
      BY <1>3, NoHopBefore
    <3>3. Len(got') <= Wanted'
      BY <3>1, <3>2
    <3> QED
      BY <3>2, <3>3 DEF Unparsable
  <2> QED
    BY <2>1, <2>2, <2>3, <2>4 DEF StreamFits
<1> QED
  BY <1>1, <1>2, <1>3 DEF Begin

\* Behind a hop that leaves headers nothing is said of the stream.
LEMMA UncleanStays ==
  ASSUME ~Clean, UNCHANGED <<chain, hop>>, pc' \notin {"resolve", "connect"}
  PROVE  StreamFits' /\ FailuresAreReal'
<1>1. ~Clean'
  BY SameHop
<1> QED
  BY <1>1 DEF StreamFits, FailuresAreReal, Clean

-----------------------------------------------------------------------------
(* Handshakes that go on, and end.                                         *)

\* A handshake is over when its answer has been read to the end; the stream is then at the hop
\* or the destination that was asked for.
LEMMA GrantedKeepsStream ==
  ASSUME DialInv, pc \in AnswerReads, Granted, UNCHANGED <<chain, peer, route, wire>>,
         Clean => /\ peer = Target /\ route = Upto(hop) /\ request = None
                  /\ Hop.kind # "http" => /\ \A i \in 1..Len(Unread') : Unread'[i].by = Destination
                                          /\ hop # Len(chain) => buffer' = <<>> /\ wire' = <<>>
  PROVE  StreamFits' /\ FailuresAreReal'
<1>0. /\ Len(chain) \in Nat \ {0} /\ hop \in 1..Len(chain) /\ status # "ok" /\ Destination' = Destination
      /\ Target = hop + 1 /\ (hop = Len(chain) => Target = Destination)
  BY TargetIsReal, NoneIsNothing DEF DialInv, ClientInv, PlaceFits, AnswerReads, Socks5Reads, Statuses, Destination
<1>1. CASE hop = Len(chain)
  <2>1. hop' = hop /\ pc' = "over" /\ status' = "ok" /\ request' = request
    BY <1>1 DEF Granted, Over
  <2>2. Clean' = Clean /\ Hop' = Hop
    BY <2>1, SameHop
  <2>3. Clean => Tunnel'
    BY <1>0, <1>1, <2>1, <2>2 DEF Tunnel, Upto
  <2> QED
    BY <2>1, <2>2, <2>3 DEF StreamFits, FailuresAreReal, AnswerReads, Socks5Reads
<1>2. CASE hop # Len(chain)
  <2>1. hop' = hop + 1 /\ pc' = "begin" /\ status' = status /\ request' = request
    BY <1>2 DEF Granted
  <2>2. hop' - 1 = hop /\ hop \in 1..hop /\ \A h \in 1..hop - 1 : h \in 1..hop
    BY <1>0, <2>1
  <2>3. Clean' => Clean /\ Hop.kind # "http"
    <3>1. Clean' => \A h \in 1..hop : chain[h].kind # "http"
      BY <2>2 DEF Clean, LeavesHeaders
    <3> QED
      BY <2>2, <3>1 DEF Clean, LeavesHeaders, Hop
  <2>4. Clean' => (peer = hop /\ route = Upto(hop - 1) /\ Quiet)'
    BY <1>0, <1>2, <2>1, <2>2, <2>3 DEF Quiet, Upto
  <2> QED
    BY <1>0, <2>1, <2>4 DEF StreamFits, FailuresAreReal, AnswerReads, Socks5Reads
<1> QED
  BY <1>1, <1>2

\* When as many cells have been read as were wanted, the hop has answered, and the rest of the stream
\* is what follows them.
LEMMA ReadToTheEnd ==
  ASSUME DialInv, Clean, pc \in Socks5Reads \cup {"reply"}, Len(got) = Wanted
  PROVE  /\ Refusing \/ Agreeing \/ Granting
         /\ \A i \in 1..Wanted : got[i] = Stream[i]
         /\ Unread \in Seq(Cell) /\ Stream \in Seq(Cell) /\ Len(Stream) = Wanted + Len(Unread)
         /\ Wanted \in {1, 2, 3} /\ Len(Unread) \in Nat
         /\ \A i \in 1..Len(Unread) : Unread[i] = Stream[Wanted + i]
         /\ Len(Unread) = 0 => buffer = <<>> /\ wire = <<>>
         /\ <<>> \o Unread = Unread
<1> HIDE DEF Cell
<1>1. got \in Seq(Cell) /\ buffer \in Seq(Cell) /\ wire \in Seq(Cell)
  BY DEF DialInv, StreamIsTyped
<1>2. Wanted \in {1, 2, 3}
  BY DEF Wanted
<1>3. Refusing \/ Agreeing \/ Granting
  <2>1. got # <<>>
    BY <1>2, NoHopBefore
  <2> QED
    BY <2>1 DEF DialInv, StreamFits, AnswerReads, Asking
<1>4. /\ Unread \in Seq(Cell) /\ Len(Unread) = Len(buffer) + Len(wire)
      /\ Stream \in Seq(Cell) /\ Len(Stream) = Len(got) + Len(buffer) + Len(wire)
      /\ \A i \in 1..Len(got) : Stream[i] = got[i]
      /\ \A i \in 1..Len(Unread) : Stream[Len(got) + i] = Unread[i]
      /\ {Len(got), Len(buffer), Len(wire)} \subseteq Nat
  BY <1>1, StreamShape DEF Stream, Unread
<1>5. Len(Stream) = Wanted + Len(Unread) /\ Len(Unread) \in Nat
  BY <1>2, <1>4
<1>6. Len(Unread) = 0 => buffer = <<>> /\ wire = <<>>
  <2>1. Len(Unread) = 0 => Len(buffer) = 0 /\ Len(wire) = 0
    BY <1>4
  <2> QED
    BY <1>1, <2>1, EmptyCells
<1>7. <<>> \o Unread = Unread
  BY <1>4, EmptyCells
<1> QED
  BY <1>2, <1>3, <1>4, <1>5, <1>6, <1>7

\* What follows the beginning of an answer begins with the rest of it.
LEMMA BeginsAgain ==
  ASSUME NEW s \in Seq(Cell), NEW u \in Seq(Cell), NEW n \in Nat, Len(s) = n + Len(u), Len(u) \in Nat,
         \A i \in 1..Len(u) : u[i] = s[n + i],
         NEW w, NEW v, NEW h, Begins(s, w, h), Len(v) \in Nat, Len(w) = n + Len(v),
         \A i \in 1..Len(v) : v[i] = w[n + i]
  PROVE  Begins(u, v, h)
<1> HIDE DEF Cell
<1>1. /\ Len(s) >= Len(w) /\ (Len(s) > Len(w) => h = Len(chain))
      /\ \A i \in 1..Len(w) : s[i].by = h /\ s[i].is = w[i]
      /\ \A i \in (Len(w) + 1)..Len(s) : s[i].by = Destination
  BY DEF Begins
<1>2. Len(u) >= Len(v) /\ (Len(u) > Len(v) => Len(s) > Len(w))
  BY <1>1
<1>3. (\A i \in 1..Len(v) : n + i \in 1..Len(w) /\ i \in 1..Len(u))
  BY <1>2
<1>4. \A i \in (Len(v) + 1)..Len(u) : n + i \in (Len(w) + 1)..Len(s) /\ i \in 1..Len(u)
  BY <1>2
<1>5. \A i \in 1..Len(v) : u[i].by = h /\ u[i].is = v[i]
  BY <1>1, <1>3
<1>6. \A i \in (Len(v) + 1)..Len(u) : u[i].by = Destination
  BY <1>1, <1>4
<1> QED
  BY <1>1, <1>2, <1>5, <1>6 DEF Begins

\* The parts of an answer, as they are read.
LEMMA AnswerParts ==
  /\ Len(Reply("socks5", "v4")) = 2 + Len(<<"address", "port">>)
  /\ \A i \in 1..Len(<<"address", "port">>) : <<"address", "port">>[i] = Reply("socks5", "v4")[2 + i]
  /\ Len(Reply("socks5", "v6")) = 2 + Len(<<"address", "address", "port">>)
  /\ \A i \in 1..Len(<<"address", "address", "port">>) : <<"address", "address", "port">>[i] = Reply("socks5", "v6")[2 + i]
  /\ Len(Reply("socks5", "name")) = 2 + Len(<<"length", "address", "port">>)
  /\ \A i \in 1..Len(<<"length", "address", "port">>) : <<"length", "address", "port">>[i] = Reply("socks5", "name")[2 + i]
  /\ Len(<<"length", "address", "port">>) = 1 + Len(<<"address", "port">>)
  /\ \A i \in 1..Len(<<"address", "port">>) : <<"address", "port">>[i] = <<"length", "address", "port">>[1 + i]
  /\ Len(<<"address", "port">>) = 2 /\ Len(<<"address", "address", "port">>) = 3 /\ Len(Reply("socks4", None)) = 2
  /\ Len(<<"length", "address", "port">>) = 3
<1>1. /\ Reply("socks5", "v4") = <<"granted", "v4", "address", "port">>
      /\ Reply("socks5", "v6") = <<"granted", "v6", "address", "address", "port">>
      /\ Reply("socks5", "name") = <<"granted", "name", "length", "address", "port">>
      /\ Reply("socks4", None) = <<"v4_reply", "granted">>
  BY SocksReplies
<1>2. /\ Len(<<"address", "port">>) = 2 /\ Len(<<"address", "address", "port">>) = 3
      /\ Len(<<"length", "address", "port">>) = 3 /\ Len(<<"v4_reply", "granted">>) = 2
      /\ Len(<<"granted", "v4", "address", "port">>) = 4
      /\ Len(<<"granted", "v6", "address", "address", "port">>) = 5
      /\ Len(<<"granted", "name", "length", "address", "port">>) = 5
  OBVIOUS
<1>3. \A i \in 1..2 : i = 1 \/ i = 2
  OBVIOUS
<1>4. \A i \in 1..3 : i = 1 \/ i = 2 \/ i = 3
  OBVIOUS
<1>5. ASSUME NEW i \in 1..2
      PROVE  /\ <<"address", "port">>[i] = <<"granted", "v4", "address", "port">>[2 + i]
             /\ <<"address", "port">>[i] = <<"length", "address", "port">>[1 + i]
  <2>1. CASE i = 1
    BY <2>1
  <2>2. CASE i = 2
    BY <2>2
  <2> QED
    BY <1>3, <2>1, <2>2
<1>6. ASSUME NEW i \in 1..3
      PROVE  /\ <<"address", "address", "port">>[i] = <<"granted", "v6", "address", "address", "port">>[2 + i]
             /\ <<"length", "address", "port">>[i] = <<"granted", "name", "length", "address", "port">>[2 + i]
  <2>1. CASE i = 1
    BY <2>1
  <2>2. CASE i = 2
    BY <2>2
  <2>3. CASE i = 3
    BY <2>3
  <2> QED
    BY <1>4, <2>1, <2>2, <2>3
<1>7. 4 = 2 + 2 /\ 5 = 2 + 3 /\ 3 = 1 + 2
  OBVIOUS
<1> QED
  BY <1>1, <1>2, <1>5, <1>6, <1>7, Zenon

\* They are words, and an answer has a second one.
LEMMA PartsAreWords ==
  /\ <<"address", "port">> \in Seq(Words) /\ <<"address", "address", "port">> \in Seq(Words)
  /\ <<"length", "address", "port">> \in Seq(Words) /\ <<>> \in Seq(Words)
BY DEF Words

\* A SOCKS5 answer has an address type, its second cell.
LEMMA AnswersHaveTypes == \A t \in {"v4", "v6", "name"} : 2 \in 1..Len(Reply("socks5", t)) /\ 2 \in 1..2
<1>1. 2 \in 1..(2 + 2) /\ 2 \in 1..(2 + 3) /\ 2 \in 1..2
  OBVIOUS
<1> QED
  BY <1>1, AnswerParts

\* A granting answer that is not at its end is read on.
LEMMA GrantingReadsOn ==
  ASSUME DialInv, Clean, pc \in {"head", "length"}, Granting, Len(got) = Wanted,
         got' = <<>>, UNCHANGED <<buffer, wire, chain, hop, peer, route, request>>,
         \/ pc = "head" /\ got[2].is = "v4" /\ pc' = "rest_1"
         \/ pc = "head" /\ got[2].is = "v6" /\ pc' = "rest_2"
         \/ pc = "head" /\ got[2].is = "name" /\ pc' = "length"
         \/ pc = "length" /\ pc' = "rest_1"
  PROVE  Granting'
<1> HIDE DEF Cell
<1>1. PICK whats \in Answer : Begins(Stream, whats, hop)
  BY DEF Granting
<1>2. /\ Unread \in Seq(Cell) /\ Stream \in Seq(Cell) /\ Len(Stream) = Wanted + Len(Unread) /\ Len(Unread) \in Nat
      /\ \A i \in 1..Len(Unread) : Unread[i] = Stream[Wanted + i]
      /\ \A i \in 1..Wanted : got[i] = Stream[i]
      /\ <<>> \o Unread = Unread
  BY ReadToTheEnd DEF Socks5Reads
<1>3. /\ Stream' = Unread /\ Target' = Target /\ Destination' = Destination
  BY <1>2, SameHop DEF Stream, Unread
<1>4. ASSUME NEW v \in Seq(Words), Len(whats) = Wanted + Len(v), \A i \in 1..Len(v) : v[i] = whats[Wanted + i]
      PROVE  Begins(Unread, v, hop)
  <2>1. Wanted \in Nat /\ Len(v) \in Nat
    BY LenProperties DEF Wanted
  <2> QED
    BY <1>1, <1>2, <1>4, <2>1, BeginsAgain
<1>5. ASSUME NEW v \in Answer', Begins(Unread, v, hop) PROVE Granting'
  <2>1. Begins(Stream, v, hop)'
    BY <1>3, <1>5 DEF Begins
  <2> QED
    BY <1>3, <2>1 DEF Granting, Upto
<1>6. /\ <<"address", "port">> \in Seq(Words) /\ <<"address", "address", "port">> \in Seq(Words)
      /\ <<"length", "address", "port">> \in Seq(Words)
  BY PartsAreWords
<1> HIDE DEF Words
<1>7. CASE pc = "length"
  <2>1. Wanted = 1 /\ whats = <<"length", "address", "port">> /\ pc' = "rest_1"
    BY <1>1, <1>7 DEF Wanted, Answer
  <2>2. <<"address", "port">> \in Answer'
    BY <2>1 DEF Answer
  <2>3. Begins(Unread, <<"address", "port">>, hop)
    BY <1>4, <1>6, <2>1, AnswerParts
  <2> QED
    BY <1>5, <2>2, <2>3
<1>8. CASE pc = "head"
  <2>1. Wanted = 2 /\ whats \in {Reply("socks5", t) : t \in {"v4", "v6", "name"}}
    BY <1>1, <1>8 DEF Wanted, Answer
  <2>2. PICK t \in {"v4", "v6", "name"} : whats = Reply("socks5", t)
    BY <2>1
  <2>3. got[2].is = t
    <3>1. 2 \in 1..Wanted /\ got[2] = Stream[2]
      BY <1>2, <2>1, AnswersHaveTypes
    <3>2. 2 \in 1..Len(whats)
      BY <2>2, AnswersHaveTypes
    <3>3. Stream[2].is = whats[2]
      BY <1>1, <3>2 DEF Begins
    <3>4. whats[2] = t
      BY <2>2, SocksReplies
    <3> QED
      BY <3>1, <3>3, <3>4
  <2>4. CASE t = "v4"
    <3>1. pc' = "rest_1" /\ <<"address", "port">> \in Answer'
      BY <1>8, <2>3, <2>4 DEF Answer
    <3>2. Begins(Unread, <<"address", "port">>, hop)
      BY <1>4, <1>6, <2>1, <2>2, <2>4, AnswerParts
    <3> QED
      BY <1>5, <3>1, <3>2
  <2>5. CASE t = "v6"
    <3>1. pc' = "rest_2" /\ <<"address", "address", "port">> \in Answer'
      BY <1>8, <2>3, <2>5 DEF Answer
    <3>2. Begins(Unread, <<"address", "address", "port">>, hop)
      BY <1>4, <1>6, <2>1, <2>2, <2>5, AnswerParts
    <3> QED
      BY <1>5, <3>1, <3>2
  <2>6. CASE t = "name"
    <3>1. pc' = "length" /\ <<"length", "address", "port">> \in Answer'
      BY <1>8, <2>3, <2>6 DEF Answer
    <3>2. Begins(Unread, <<"length", "address", "port">>, hop)
      BY <1>4, <1>6, <2>1, <2>2, <2>6, AnswerParts
    <3> QED
      BY <1>5, <3>1, <3>2
  <2> QED
    BY <2>4, <2>5, <2>6
<1> QED
  BY <1>7, <1>8

\* A granting answer that has been read leaves only the destination's words in the stream.
LEMMA GrantingEnds ==
  ASSUME DialInv, Clean, pc \in {"rest_1", "rest_2", "reply"}, Granting, Len(got) = Wanted
  PROVE  /\ \A i \in 1..Len(Unread) : Unread[i].by = Destination
         /\ hop # Len(chain) => buffer = <<>> /\ wire = <<>>
<1> HIDE DEF Cell
<1>1. PICK whats \in Answer : Begins(Stream, whats, hop)
  BY DEF Granting
<1>2. /\ Unread \in Seq(Cell) /\ Stream \in Seq(Cell) /\ Len(Stream) = Wanted + Len(Unread) /\ Len(Unread) \in Nat
      /\ \A i \in 1..Len(Unread) : Unread[i] = Stream[Wanted + i]
      /\ Len(Unread) = 0 => buffer = <<>> /\ wire = <<>>
  BY ReadToTheEnd DEF Socks5Reads
<1>3. Len(whats) = Wanted /\ Wanted \in Nat
  BY <1>1, AnswerParts DEF Answer, Wanted
<1>4. Len(Stream) = Wanted + Len(Unread) /\ Len(Unread) \in Nat
  BY <1>2
<1>5. \A i \in 1..Len(Unread) : Wanted + i \in (Len(whats) + 1)..Len(Stream)
  BY <1>3, <1>4
<1>6. \A i \in 1..Len(Unread) : Unread[i].by = Destination
  BY <1>1, <1>2, <1>5 DEF Begins
<1>7. Len(Unread) = 0 \/ Len(Stream) > Len(whats)
  BY <1>3, <1>4
<1> QED
  BY <1>1, <1>2, <1>6, <1>7 DEF Begins

\* Asked for more, a hop has said nothing that was not read.
LEMMA SendingKeepsStream ==
  ASSUME DialInv, Clean, pc \in {"method", "auth"}, Len(got) = Wanted, NEW m, NEW next, SendAndAwait(m, next),
         UNCHANGED <<hop, chain, peer, route, buffer, wire, fault>>,
         \/ next = "auth" /\ m = [what |-> "password"]
         \/ next = "head" /\ m = Connect("connect_socks5")
  PROVE  StreamFits' /\ FailuresAreReal'
<1> HIDE DEF Cell
<1>1. /\ Clean' = Clean /\ Target' = Target /\ Target \in Nat /\ (closed => fault) /\ status # "ok"
  BY SameHop, TargetIsReal, EndsHaveCauses DEF DialInv, ClientInv
<1>2. CASE closed /\ Over("net")
  BY <1>1, <1>2, FailureKeepsStream DEF Over
<1>3. CASE Await(next) /\ request' = m /\ UNCHANGED status
  <2>1. pc' = next /\ got' = <<>> /\ pc' \in {"auth", "head"} /\ pc' \in AnswerReads /\ status' # "ok"
    BY <1>1, <1>3 DEF Await, AnswerReads, Socks5Reads
  <2>2. FailuresAreReal'
    BY <2>1 DEF FailuresAreReal
  <2>3. Answered
    <3>1. Refusing \/ Agreeing \/ Granting
      BY ReadToTheEnd DEF Socks5Reads
    <3>2. ~Granting
      BY DEF Granting, Answer
    <3> QED
      BY <3>1, <3>2 DEF Refusing, Agreeing
  <2>4. buffer = <<>> /\ wire = <<>>
    <3>1. Wanted = 2 /\ Len(Stream) = 2
      BY <2>3 DEF Wanted, Answered
    <3>2. /\ Len(Stream) = Wanted + Len(Unread) /\ Len(Unread) \in Nat
          /\ Len(Unread) = 0 => buffer = <<>> /\ wire = <<>>
      BY ReadToTheEnd DEF Socks5Reads
    <3>3. Len(Stream) = 2 + Len(Unread) /\ Len(Unread) \in Nat
      BY <3>1, <3>2
    <3>4. \A n \in Nat : 2 = 2 + n => n = 0
      OBVIOUS
    <3>5. Len(Unread) = 0
      BY <3>1, <3>3, <3>4, Zenon
    <3> QED
      BY <3>2, <3>5
  <2>5. Asks(request)'
    <3>1. CASE next = "auth"
      BY <1>3, <2>1, <3>1 DEF Asks
    <3>2. CASE next = "head"
      BY <1>1, <1>3, <2>1, <3>2, RequestsAreMessages DEF Asks
    <3> QED
      BY <3>1, <3>2
  <2>6. Asking'
    BY <2>1, <2>3, <2>4, <2>5 DEF Asking, Answered, Begun, Upto
  <2>7. (IF pc = "status" THEN Unparsable(got) ELSE Len(got) <= Wanted)'
    <3>1. Wanted' \in Nat
      BY DEF Wanted
    <3>2. Len(got') = 0
      BY <2>1, NoHopBefore
    <3>3. Len(got') <= Wanted'
      BY <3>1, <3>2
    <3> QED
      BY <2>1, <3>3
  <2> QED
    BY <2>1, <2>2, <2>6, <2>7 DEF StreamFits, AnswerReads, Socks5Reads
<1> QED
  BY <1>2, <1>3 DEF SendAndAwait

\* The first two cells of an answer say what it is.
LEMMA AnswerIsRead ==
  ASSUME DialInv, Clean, pc \in {"method", "auth", "head", "reply"}, Len(got) = Wanted
  PROVE  \/ fault /\ Refusing /\ got[1].is = Stream[1].is /\ got[2].is = Stream[2].is
         \/ pc = "method" /\ got[1].is = "v5" /\ got[2].is \in {"no_password", "password"}
         \/ pc = "auth" /\ got[2].is = "granted"
         \/ pc = "head" /\ got[1].is = "granted" /\ got[2].is \in {"v4", "v6", "name"} /\ Granting
         \/ pc = "reply" /\ got[2].is = "granted" /\ Granting
<1>1. Wanted = 2
  BY DEF Wanted
<1>2. 1 \in 1..2 /\ 2 \in 1..2
  OBVIOUS
<1>3. got[1] = Stream[1] /\ got[2] = Stream[2] /\ (Refusing \/ Agreeing \/ Granting)
  BY <1>1, <1>2, ReadToTheEnd DEF Socks5Reads
<1>4. CASE Refusing
  BY <1>3, <1>4 DEF Refusing
<1>5. CASE Agreeing
  BY <1>3, <1>5 DEF Agreeing
<1>6. CASE Granting
  <2>1. PICK whats \in Answer : Begins(Stream, whats, hop)
    BY <1>6 DEF Granting
  <2>2. CASE pc = "head"
    <3>1. PICK t \in {"v4", "v6", "name"} : whats = Reply("socks5", t)
      BY <2>1, <2>2 DEF Answer
    <3>2. 1 \in 1..Len(whats) /\ 2 \in 1..Len(whats)
      BY <3>1, AnswersHaveTypes
    <3>3. whats[1] = "granted" /\ whats[2] = t
      BY <3>1, SocksReplies
    <3> QED
      BY <1>3, <1>6, <2>1, <2>2, <3>2, <3>3 DEF Begins
  <2>3. CASE pc = "reply"
    <3>1. whats = Reply("socks4", None) /\ Len(whats) = 2 /\ whats = <<"v4_reply", "granted">>
      BY <2>1, <2>3, AnswerParts, SocksReplies DEF Answer
    <3>2. whats[2] = "granted"
      BY <3>1
    <3>3. 2 \in 1..Len(whats)
      BY <1>2, <3>1
    <3> QED
      BY <1>3, <1>6, <2>1, <2>3, <3>2, <3>3 DEF Begins
  <2>4. pc \notin {"method", "auth"}
    BY <2>1 DEF Answer
  <2> QED
    BY <2>2, <2>3, <2>4
<1> QED
  BY <1>3, <1>4, <1>5, <1>6

\* A SOCKS5 handshake keeps the stream and the hops together.
LEMMA Socks5KeepsStream ==
  ASSUME DialInv, Socks5
  PROVE  StreamFits' /\ FailuresAreReal'
<1>0. /\ pc \in Socks5Reads /\ pc \in AnswerReads /\ Hop.kind = "socks5" /\ status # "ok"
      /\ UNCHANGED <<purpose, chain, peer, route, buffer, wire, fault>>
  <2>1. pc \in Socks5Reads /\ UNCHANGED <<purpose, chain, peer, route, buffer, wire, fault>>
    BY DEF Socks5, Complete, Rest, Socks5Reads
  <2>2. pc \notin {"page", "over"}
    BY <2>1 DEF Socks5Reads
  <2> QED
    BY <2>1, <2>2, EndsHaveCauses DEF DialInv, ClientInv, PlaceFits, AnswerReads
<1>1. CASE (\E n \in {1, 2} : Complete(Rest(n))) /\ Granted
  <2>1. Len(got) = Wanted /\ pc \in {"rest_1", "rest_2"}
    BY <1>1 DEF Complete, Rest
  <2>2. ASSUME Clean PROVE Granting
    <3>1. Refusing \/ Agreeing \/ Granting
      BY <2>1, <2>2, ReadToTheEnd DEF Socks5Reads
    <3> QED
      BY <2>1, <3>1 DEF Refusing, Agreeing, Answered, Begun
  <2>3. Unread' = Unread
    BY <1>0 DEF Unread
  <2>4. Clean => /\ \A i \in 1..Len(Unread) : Unread[i].by = Destination
                 /\ hop # Len(chain) => buffer = <<>> /\ wire = <<>>
    BY <2>1, <2>2, GrantingEnds
  <2>5. Clean => peer = Target /\ route = Upto(hop) /\ request = None
    BY <2>2 DEF Granting
  <2> QED
    BY <1>0, <1>1, <2>3, <2>4, <2>5, GrantedKeepsStream
<1>2. CASE ~Clean /\ UNCHANGED hop
  <2>1. pc' \notin {"resolve", "connect"}
    BY DEF Socks5, SendAndAwait, Await, Granted, Fails, Over, Rest
  <2> QED
    BY <1>0, <1>2, <2>1, UncleanStays
<1>3. CASE Clean /\ Complete("method")
  <2>1. Len(got) = Wanted /\ pc = "method"
    BY <1>3 DEF Complete
  <2>2. fault \/ (got[1].is = "v5" /\ got[2].is \in {"no_password", "password"})
    BY <1>3, <2>1, AnswerIsRead
  <2>3. \/ SendAndAwait([what |-> "password"], "auth") /\ UNCHANGED hop
        \/ SendAndAwait(Connect("connect_socks5"), "head") /\ UNCHANGED hop
        \/ fault /\ (Fails("handshake") \/ Fails("auth"))
    BY <2>1, <2>2 DEF Socks5, Complete, Rest
  <2>4. ASSUME Fails("handshake") \/ Fails("auth"), fault PROVE StreamFits' /\ FailuresAreReal'
    BY <1>0, <2>4, FailureKeepsStream DEF Fails, Over
  <2> QED
    BY <1>0, <1>3, <2>1, <2>3, <2>4, SendingKeepsStream
<1>4. CASE Clean /\ Complete("auth")
  <2>1. Len(got) = Wanted /\ pc = "auth"
    BY <1>4 DEF Complete
  <2>2. fault \/ got[2].is = "granted"
    BY <1>4, <2>1, AnswerIsRead
  <2>3. \/ SendAndAwait(Connect("connect_socks5"), "head") /\ UNCHANGED hop
        \/ fault /\ Fails("auth")
    BY <2>1, <2>2 DEF Socks5, Complete, Rest
  <2>4. ASSUME Fails("auth"), fault PROVE StreamFits' /\ FailuresAreReal'
    BY <1>0, <2>4, FailureKeepsStream DEF Fails, Over
  <2> QED
    BY <1>0, <1>4, <2>1, <2>3, <2>4, SendingKeepsStream
<1>5. ASSUME Clean, pc \in {"head", "length"}, Len(got) = Wanted, Granting, NEW next, Await(next),
             UNCHANGED <<hop, status, request>>,
             \/ pc = "head" /\ got[2].is = "v4" /\ next = "rest_1"
             \/ pc = "head" /\ got[2].is = "v6" /\ next = "rest_2"
             \/ pc = "head" /\ got[2].is = "name" /\ next = "length"
             \/ pc = "length" /\ next = "rest_1"
      PROVE  StreamFits' /\ FailuresAreReal'
  <2>1. got' = <<>> /\ pc' = next /\ pc' \in AnswerReads /\ pc' \notin {"status", "over"} /\ status' # "ok"
    BY <1>0, <1>5 DEF Await, AnswerReads, Socks5Reads
  <2>2. Granting'
    BY <1>0, <1>5, <2>1, GrantingReadsOn
  <2>3. Len(got') <= Wanted'
    <3>1. Wanted' \in Nat
      BY DEF Wanted
    <3>2. Len(got') = 0
      BY <2>1, NoHopBefore
    <3> QED
      BY <3>1, <3>2
  <2>4. FailuresAreReal'
    BY <2>1 DEF FailuresAreReal
  <2> QED
    BY <2>1, <2>2, <2>3, <2>4 DEF StreamFits, AnswerReads, Socks5Reads
<1>6. CASE Clean /\ Complete("head")
  <2>1. Len(got) = Wanted /\ pc = "head"
    BY <1>6 DEF Complete
  <2>2. \/ fault /\ Refusing /\ got[1].is = Stream[1].is /\ got[2].is = Stream[2].is
        \/ got[1].is = "granted" /\ got[2].is \in {"v4", "v6", "name"} /\ Granting
    BY <1>6, <2>1, AnswerIsRead
  <2>3. \/ fault /\ (got[1].is # "granted" \/ got[2].is \notin {"v4", "v6", "name"})
        \/ got[1].is = "granted" /\ got[2].is \in {"v4", "v6", "name"} /\ Granting
    BY <2>1, <2>2 DEF Refusing
  <2>4. Rest(Size("v4")) = "rest_1" /\ Rest(Size("v6")) = "rest_2"
    BY DEF Rest, Size
  <2>5. ASSUME Fails("refused") \/ Fails("handshake"), fault PROVE StreamFits' /\ FailuresAreReal'
    BY <1>0, <2>5, FailureKeepsStream DEF Fails, Over
  <2>6. LET type == got[2].is IN
        IF got[1].is # "granted" THEN Fails("refused")
        ELSE CASE type \in {"v4", "v6"} -> Await(Rest(Size(type))) /\ UNCHANGED <<hop, status, request>>
               [] type = "name"         -> Await("length") /\ UNCHANGED <<hop, status, request>>
               [] OTHER                 -> Fails("handshake")
    BY <2>1 DEF Socks5, Complete, Rest
  <2>7. CASE got[1].is # "granted"
    <3>1. Fails("refused")
      BY <2>6, <2>7
    <3>2. fault
      BY <2>3, <2>7
    <3> QED
      BY <2>5, <3>1, <3>2
  <2>8. CASE got[1].is = "granted" /\ got[2].is = "v4"
    <3>1. Await("rest_1") /\ UNCHANGED <<hop, status, request>>
      BY <2>4, <2>6, <2>8
    <3> QED
      BY <1>5, <1>6, <2>1, <2>3, <2>8, <3>1
  <2>9. CASE got[1].is = "granted" /\ got[2].is = "v6"
    <3>1. Await("rest_2") /\ UNCHANGED <<hop, status, request>>
      BY <2>4, <2>6, <2>9
    <3> QED
      BY <1>5, <1>6, <2>1, <2>3, <2>9, <3>1
  <2>10. CASE got[1].is = "granted" /\ got[2].is = "name"
    <3>1. Await("length") /\ UNCHANGED <<hop, status, request>>
      BY <2>6, <2>10
    <3> QED
      BY <1>5, <1>6, <2>1, <2>3, <2>10, <3>1
  <2>11. CASE got[1].is = "granted" /\ got[2].is \notin {"v4", "v6", "name"}
    BY <2>3, <2>5, <2>6, <2>11
  <2> QED
    BY <2>7, <2>8, <2>9, <2>10, <2>11
<1>7. CASE Clean /\ Complete("length") /\ Await(Rest(Size("name"))) /\ UNCHANGED <<hop, status, request>>
  <2>1. Len(got) = Wanted /\ pc = "length" /\ Rest(Size("name")) = "rest_1"
    BY <1>7 DEF Complete, Rest, Size
  <2>2. Granting
    <3>1. Refusing \/ Agreeing \/ Granting
      BY <1>7, <2>1, ReadToTheEnd DEF Socks5Reads
    <3> QED
      BY <2>1, <3>1 DEF Refusing, Agreeing, Answered, Begun
  <2> QED
    BY <1>5, <1>7, <2>1, <2>2
<1> QED
  BY <1>1, <1>2, <1>3, <1>4, <1>6, <1>7 DEF Socks5, SendAndAwait, Fails

\* So does a SOCKS4 handshake.
LEMMA Socks4KeepsStream ==
  ASSUME DialInv, Socks4
  PROVE  StreamFits' /\ FailuresAreReal'
<1>0. /\ pc = "reply" /\ pc \in AnswerReads /\ Len(got) = Wanted
      /\ UNCHANGED <<purpose, chain, peer, route, buffer, wire, fault>>
  BY DEF Socks4, Complete, AnswerReads
<1>1. Clean => (fault /\ got[2].is # "granted") \/ (got[2].is = "granted" /\ Granting)
  <2>1. ASSUME Clean, fault, Refusing, got[2].is = Stream[2].is PROVE got[2].is # "granted"
    BY <1>0, <2>1 DEF Refusing
  <2> QED
    BY <1>0, <2>1, AnswerIsRead
<1>2. CASE got[2].is = "granted"
  <2>1. Granted
    BY <1>2 DEF Socks4
  <2>2. Clean => Granting
    BY <1>1, <1>2
  <2>3. Unread' = Unread
    BY <1>0 DEF Unread
  <2>4. Clean => /\ \A i \in 1..Len(Unread) : Unread[i].by = Destination
                 /\ hop # Len(chain) => buffer = <<>> /\ wire = <<>>
    BY <1>0, <2>2, GrantingEnds
  <2>5. Clean => peer = Target /\ route = Upto(hop) /\ request = None
    BY <2>2 DEF Granting
  <2> QED
    BY <1>0, <2>1, <2>3, <2>4, <2>5, GrantedKeepsStream
<1>3. CASE got[2].is # "granted"
  <2>1. Fails("refused")
    BY <1>3 DEF Socks4
  <2> QED
    BY <1>0, <1>1, <1>3, <2>1, FailureKeepsStream DEF Fails, Over
<1> QED
  BY <1>2, <1>3

\* So does a HTTP handshake, which keeps what it has read until it can tell.
LEMMA HttpKeepsStream ==
  ASSUME DialInv, Http
  PROVE  StreamFits' /\ FailuresAreReal'
<1> HIDE DEF Cell
<1>0. /\ pc = "status" /\ pc \in AnswerReads /\ Hop.kind = "http" /\ buffer # <<>> /\ tries < Attempts
      /\ tries' = tries + 1 /\ UNCHANGED <<purpose, chain, peer, route, wire, fault>> /\ status # "ok"
      /\ tries \in Nat /\ Attempts \in Nat
  <2>1. status # "ok"
    BY EndsHaveCauses DEF Http
  <2> QED
    BY <2>1, DialAssumption DEF Http, DialInv, ClientInv, PlaceFits, ReadsFit, AnswerReads, Socks5Reads
<1> DEFINE all == got \o buffer
<1>1. /\ all \o (<<>> \o wire) = Stream
      /\ Len(all) \in Nat /\ Len(all) <= Len(Stream) /\ Len(Stream) \in Nat
      /\ \A i \in 1..Len(all) : Stream[i] = all[i]
  BY HttpTakes DEF DialInv
<1>2. \/ /\ Unparsable(all) /\ got' = all /\ buffer' = <<>> /\ UNCHANGED <<pc, hop, status, request>>
      \/ Unparsable(all) /\ tries + 1 = Attempts /\ Fails("handshake")
      \/ ~Unparsable(all) /\ all[StatusLine].is = "granted" /\ Granted
      \/ ~Unparsable(all) /\ all[StatusLine].is # "granted" /\ Fails("refused")
  <2>1. tries + 1 < Attempts \/ tries + 1 = Attempts
    BY <1>0
  <2> QED
    BY <2>1 DEF Http
<1> HIDE DEF all
<1>3. ASSUME Clean PROVE Refusing \/ Granting
  <2>1. Asking \/ Refusing \/ Agreeing \/ Granting
    BY <1>0, <1>3 DEF DialInv, StreamFits
  <2> QED
    BY <1>0, <2>1 DEF Asking, Agreeing
<1>4. ASSUME ~Unparsable(all)
      PROVE  ~Unparsable(Stream) /\ Stream[StatusLine] = all[StatusLine]
  <2>1. StatusLine \in Nat /\ StatusLine > 1
    BY DialAssumption
  <2>2. ~(Len(all) < StatusLine) /\ all[1].is = "HTTP"
    BY <1>4 DEF Unparsable
  <2>3. 1 \in 1..Len(all) /\ StatusLine \in 1..Len(all) /\ ~(Len(Stream) < StatusLine)
    BY <1>1, <2>1, <2>2
  <2> QED
    BY <1>1, <2>2, <2>3 DEF Unparsable
<1>5. ASSUME Granting PROVE Stream[StatusLine].is = "granted"
  <2>1. PICK whats \in Answer : Begins(Stream, whats, hop)
    BY <1>5 DEF Granting
  <2>2. whats = Reply("http", None)
    BY <1>0, <2>1 DEF Answer
  <2>3. StatusLine \in 1..Len(whats) /\ whats[StatusLine] = "granted"
    <3>1. StatusLine \in Nat /\ StatusLine > 1 /\ Len(whats) = StatusLine + 2 /\ whats[StatusLine] = "granted"
      BY <2>2, DialAssumption, HttpReply
    <3> QED
      BY <3>1
  <2> QED
    BY <2>1, <2>3 DEF Begins
<1>6. CASE Unparsable(all) /\ got' = all /\ buffer' = <<>> /\ UNCHANGED <<pc, hop, status, request>>
  <2>1. Stream' = Stream
    BY <1>0, <1>1, <1>6 DEF Stream, Unread
  <2>2. Clean' = Clean
    BY <1>0, <1>6, SameHop
  <2>3. Clean => Refusing' \/ Granting'
    BY <1>0, <1>3, <1>6, <2>1, AnswersStay
  <2>4. Unparsable(got)'
    BY <1>6 DEF Unparsable
  <2>5. FailuresAreReal'
    BY <1>0, <1>6 DEF FailuresAreReal
  <2> QED
    BY <1>0, <1>6, <2>2, <2>3, <2>4, <2>5 DEF StreamFits
<1>7. CASE tries + 1 = Attempts /\ Fails("handshake")
  BY <1>0, <1>7, FailureKeepsStream DEF Fails, Over
<1>8. CASE ~Unparsable(all) /\ all[StatusLine].is = "granted" /\ Granted
  <2>1. Clean => Granting
    BY <1>0, <1>3, <1>4, <1>8 DEF Refusing
  <2>2. Clean => peer = Target /\ route = Upto(hop) /\ request = None
    BY <2>1 DEF Granting
  <2> QED
    BY <1>0, <1>8, <2>2, GrantedKeepsStream
<1>9. CASE ~Unparsable(all) /\ all[StatusLine].is # "granted" /\ Fails("refused")
  <2>1. Clean => fault
    BY <1>3, <1>4, <1>5, <1>9 DEF Refusing
  <2> QED
    BY <1>0, <1>9, <2>1, FailureKeepsStream DEF Fails, Over
<1> QED
  BY <1>2, <1>6, <1>7, <1>8, <1>9

\* After the first dial of a check comes a second, and a page through its tunnel.
LEMMA CheckingKeepsStream ==
  ASSUME DialInv, Checking
  PROVE  StreamFits' /\ FailuresAreReal'
<1> HIDE DEF Cell
<1>1. CASE CheckAgain
  BY <1>1, NoneIsNothing DEF CheckAgain, StreamFits, FailuresAreReal, Unreached, Quiet, AnswerReads, Socks5Reads, Statuses
<1>2. CASE AsksPage
  <2>1. /\ UNCHANGED <<chain, hop, status, peer, route, buffer, wire>> /\ status = "ok"
        /\ pc' \in {"page", "over"} /\ request' \in {request, [what |-> "get"]}
    BY <1>2 DEF AsksPage
  <2>2. Clean' = Clean /\ Destination' = Destination /\ Hop' = Hop
    BY <2>1, SameHop
  <2>3. Unread' = Unread
    BY <2>1 DEF Unread
  <2>4. Clean => Tunnel'
    BY <2>1, <2>2, <2>3 DEF DialInv, StreamFits, Tunnel, Upto
  <2> QED
    BY <2>1, <2>2, <2>4 DEF StreamFits, FailuresAreReal, AnswerReads, Socks5Reads
<1>3. CASE ReadPage
  <2>1. /\ UNCHANGED <<chain, hop, status, peer, route, request, wire>> /\ pc = "page"
        /\ pc' \in {"page", "over"} /\ buffer' \in {buffer, <<>>}
    BY <1>3 DEF ReadPage
  <2>2. status = "ok"
    BY <2>1 DEF DialInv, ClientInv, PlaceFits
  <2>3. Clean' = Clean /\ Destination' = Destination /\ Hop' = Hop
    BY <2>1, SameHop
  <2>4. (\A i \in 1..Len(Unread) : Unread[i].by = Destination) => \A i \in 1..Len(Unread') : Unread'[i].by = Destination
    <3>1. CASE buffer' = buffer
      BY <2>1, <3>1 DEF Unread
    <3>2. CASE buffer' = <<>>
      <4>1. buffer \in Seq(Cell) /\ wire \in Seq(Cell)
        BY DEF DialInv, StreamIsTyped
      <4>2. Unread' = wire
        BY <2>1, <3>2, <4>1, EmptyCells DEF Unread
      <4>3. /\ Len(buffer) \in Nat /\ Len(wire) \in Nat /\ Len(Unread) = Len(buffer) + Len(wire)
            /\ \A i \in 1..Len(buffer) + Len(wire) :
                 Unread[i] = IF i <= Len(buffer) THEN buffer[i] ELSE wire[i - Len(buffer)]
        BY <4>1, ConcatProperties, LenProperties DEF Unread
      <4>4. ASSUME NEW i \in 1..Len(wire)
            PROVE  Len(buffer) + i \in 1..Len(Unread) /\ Unread[Len(buffer) + i] = wire[i]
        <5>1. /\ Len(buffer) + i \in 1..Len(buffer) + Len(wire) /\ ~(Len(buffer) + i <= Len(buffer))
              /\ (Len(buffer) + i) - Len(buffer) = i
          BY <4>3
        <5> QED
          BY <4>3, <5>1
      <4> QED
        BY <4>2, <4>4
    <3> QED
      BY <2>1, <3>1, <3>2
  <2>5. Clean => Tunnel'
    BY <2>1, <2>2, <2>3, <2>4 DEF DialInv, StreamFits, Tunnel, Upto
  <2> QED
    BY <2>1, <2>2, <2>3, <2>5 DEF StreamFits, FailuresAreReal, AnswerReads, Socks5Reads
<1> QED
  BY <1>1, <1>2, <1>3 DEF Checking

-----------------------------------------------------------------------------
(* The far end answers.                                                    *)

\* Who wrote the cells of a stream wrote those of its parts.
OwnedBy(s, d) == \A i \in 1..Len(s) : s[i].by = d

\* A joined stream is one peer's when both of its parts are.
LEMMA OwnedParts ==
  ASSUME NEW s \in Seq(Cell), NEW t \in Seq(Cell), NEW d
  PROVE  OwnedBy(s \o t, d) <=> OwnedBy(s, d) /\ OwnedBy(t, d)
<1> HIDE DEF Cell
<1>1. /\ Len(s) \in Nat /\ Len(t) \in Nat /\ Len(s \o t) = Len(s) + Len(t)
      /\ \A i \in 1..Len(s) + Len(t) : (s \o t)[i] = IF i <= Len(s) THEN s[i] ELSE t[i - Len(s)]
  BY ConcatProperties, LenProperties
<1>2. ASSUME OwnedBy(s \o t, d) PROVE OwnedBy(s, d) /\ OwnedBy(t, d)
  <2>1. ASSUME NEW i \in 1..Len(s) PROVE s[i].by = d
    <3>1. i \in 1..Len(s) + Len(t) /\ i <= Len(s)
      BY <1>1
    <3> QED
      BY <1>1, <1>2, <3>1 DEF OwnedBy
  <2>2. ASSUME NEW i \in 1..Len(t) PROVE t[i].by = d
    <3>1. Len(s) + i \in 1..Len(s) + Len(t) /\ ~(Len(s) + i <= Len(s)) /\ (Len(s) + i) - Len(s) = i
      BY <1>1
    <3> QED
      BY <1>1, <1>2, <3>1 DEF OwnedBy
  <2> QED
    BY <2>1, <2>2 DEF OwnedBy
<1>3. ASSUME OwnedBy(s, d), OwnedBy(t, d) PROVE OwnedBy(s \o t, d)
  <2>1. ASSUME NEW i \in 1..Len(s) + Len(t) PROVE (s \o t)[i].by = d
    <3>1. CASE i <= Len(s)
      <4>1. i \in 1..Len(s)
        BY <1>1, <3>1
      <4> QED
        BY <1>1, <1>3, <3>1, <4>1 DEF OwnedBy
    <3>2. CASE ~(i <= Len(s))
      <4>1. i - Len(s) \in 1..Len(t)
        BY <1>1, <3>2
      <4> QED
        BY <1>1, <1>3, <3>2, <4>1 DEF OwnedBy
    <3> QED
      BY <3>1, <3>2
  <2> QED
    BY <1>1, <2>1 DEF OwnedBy
<1> QED
  BY <1>2, <1>3

\* Who asks for a hop or the destination names it.
LEMMA RequestsName ==
  ASSUME NEW m \in Messages
  PROVE  /\ m.what \in {"greeting", "password", "get", "connect_socks5", "connect_socks4", "connect_http"}
         /\ "to" \in DOMAIN m <=> m.what \in {"connect_socks5", "connect_socks4", "connect_http"}
<1>1. CASE m \in [what: {"greeting"}, auth: BOOLEAN]
  <2>1. DOMAIN m = {"what", "auth"} /\ m.what = "greeting"
    BY <1>1
  <2> QED
    BY <2>1
<1>2. CASE m \in [what: {"password", "get"}]
  <2>1. DOMAIN m = {"what"} /\ m.what \in {"password", "get"}
    BY <1>2
  <2> QED
    BY <2>1
<1>3. CASE m \in [what: {"connect_socks5", "connect_socks4", "connect_http"}, to: Nat]
  <2>1. DOMAIN m = {"what", "to"} /\ m.what \in {"connect_socks5", "connect_socks4", "connect_http"}
    BY <1>3
  <2> QED
    BY <2>1
<1> QED
  BY <1>1, <1>2, <1>3 DEF Messages

\* Refusals are as long as the client reads, or hold no status line that grants.
LEMMA RefusalsRefuse ==
  ASSUME NEW m \in Messages, NEW a \in Refusals(m)
  PROVE  /\ m.what \in {"greeting", "password", "connect_socks5", "connect_socks4"} => Len(a) = 2
         /\ m.what = "password" => a[2] # "granted"
         /\ m.what = "connect_socks5" => a[1] # "granted" \/ a[2] \notin {"v4", "v6", "name"}
         /\ m.what = "connect_socks4" => a[2] # "granted"
         /\ m.what = "connect_http" => /\ 1 \in 1..Len(a) /\ Len(a) \in Nat
                                       /\ Len(a) < StatusLine \/ a[1] # "HTTP" \/ a[StatusLine] # "granted"
<1>1. CASE m.what = "greeting"
  <2>1. a \in {<<"v5", "none">>, <<"v5", "password">>, <<"HTTP", "text">>}
    BY <1>1 DEF Refusals
  <2> QED
    BY <1>1, <2>1
<1>2. CASE m.what = "password"
  <2>1. a = <<"v1", "refused">>
    BY <1>2 DEF Refusals
  <2> QED
    BY <1>2, <2>1
<1>3. CASE m.what \in {"connect_socks5", "connect_socks4"}
  <2>1. a \in {<<"refused", "v4">>, <<"granted", "junk">>, <<"junk", "refused">>}
    BY <1>3 DEF Refusals
  <2>2. Len(a) = 2
    BY <2>1
  <2>3. a[2] # "granted" /\ (a[1] # "granted" \/ a[2] \notin {"v4", "v6", "name"})
    BY <2>1
  <2> QED
    BY <1>3, <2>2, <2>3
<1>4. CASE m.what = "connect_http"
  <2>1. a = StatusLineOf("refused") \/ a = <<"junk", "junk">>
    BY <1>4 DEF Refusals
  <2>2. CASE a = StatusLineOf("refused")
    <3>1. "refused" \in Words
      BY DEF Words
    <3>2. Len(a) = StatusLine /\ StatusLine \in Nat /\ 1 \in 1..StatusLine /\ a[StatusLine] = "refused"
      BY <2>2, <3>1, StatusLines
    <3> QED
      BY <1>4, <3>2
  <2>3. CASE a = <<"junk", "junk">>
    <3>1. Len(a) = 2 /\ a[1] = "junk"
      BY <2>3
    <3> QED
      BY <1>4, <3>1
  <2> QED
    BY <2>1, <2>2, <2>3
<1>5. CASE m.what = "get"
  BY <1>5
<1> QED
  BY <1>1, <1>2, <1>3, <1>4, <1>5, RequestsName


\* What is said into an empty stream is all there is of it.
Says(s, p, a) ==
  /\ s \in Seq(Cell) /\ Len(s) = Len(a) /\ Len(a) \in Nat
  /\ \A i \in 1..Len(a) : s[i].by = p /\ s[i].is = a[i]

\* An answer into an empty stream is its beginning, and a greeting of the destination's follows it.
LEMMA FirstAnswer ==
  ASSUME NEW p \in Nat, Destination \in Nat, NEW a \in Seq(Words), NEW e \in {<<>>, <<"hello">>},
         e # <<>> => p = Len(chain)
  PROVE  /\ Says(<<>> \o Cells(p, a), p, a)
         /\ LET s == <<>> \o Cells(p, a) \o Cells(Destination, e) IN
            s \in Seq(Cell) /\ Begins(s, a, p) /\ (e = <<>> => Says(s, p, a))
<1>1. /\ Len(<<>>) = 0 /\ <<>> \in Seq(Cell)
      /\ \A n \in Nat : 0 + n = n /\ \A k \in Nat : 0 + n + k = n + k /\ (n + k > n => k # 0) /\ n + k >= n
      /\ \A i \in Nat : 0 + i = i
  BY NoHopBefore, EmptyCells
<1>2. Len(a) \in Nat /\ \A i \in 1..Len(a) : i \in Nat
  BY LenProperties
<1> HIDE DEF Cell, Words
<1>3. PICK c : c = <<>> \o Cells(p, a) /\ Adds(c, <<>>, p, a)
  BY <1>1, AddedCells
<1>4. Says(c, p, a)
  BY <1>1, <1>2, <1>3 DEF Adds, Says
<1>5. PICK s : s = <<>> \o Cells(p, a) \o Cells(Destination, e) /\ AddsBoth(s, <<>>, p, a, Destination, e)
  BY <1>1, AnsweredCells
<1>6. Len(s) = Len(a) + Len(e) /\ \A i \in 1..Len(a) : s[i].by = p /\ s[i].is = a[i]
  BY <1>1, <1>2, <1>5 DEF AddsBoth
<1>7. \A i \in (Len(a) + 1)..Len(s) : s[i].by = Destination
  BY <1>1, <1>2, <1>5 DEF AddsBoth
<1>8. Len(s) >= Len(a) /\ (Len(s) > Len(a) => Len(e) # 0)
  BY <1>2, <1>5, <1>6 DEF AddsBoth
<1>9. Len(s) > Len(a) => p = Len(chain)
  BY <1>5, <1>8 DEF AddsBoth
<1>10. Begins(s, a, p)
  BY <1>6, <1>7, <1>8, <1>9 DEF Begins
<1>11. e = <<>> => Says(s, p, a)
  <2>1. e = <<>> => Len(s) = Len(a)
    BY <1>2, <1>5, <1>6 DEF AddsBoth
  <2> QED
    BY <1>2, <1>5, <1>6, <2>1 DEF Says, AddsBoth
<1> QED
  BY <1>3, <1>4, <1>5, <1>10, <1>11 DEF AddsBoth

\* What follows a question is the whole stream.
LEMMA AllOfIt ==
  ASSUME got' = <<>>, buffer' = <<>>, wire' \in Seq(Cell)
  PROVE  Stream' = wire'
BY EmptyCells DEF Stream, Unread

\* A hop that refuses says so to the client, who has read nothing of it.
LEMMA RefusalIsRefusing ==
  ASSUME DialInv, Asking, request # None, UNCHANGED <<clientVars, buffer, peer, route>>,
         NEW a \in Refusals(request), wire' = wire \o Cells(peer, a), request' = None, fault'
  PROVE  Refusing'
<1> HIDE DEF Cell, Words
<1>1. /\ request \in Messages /\ peer = hop /\ hop \in Nat /\ route = Upto(hop - 1) /\ Asks(request)
      /\ got' = <<>> /\ buffer' = <<>> /\ wire = <<>> /\ UNCHANGED <<pc, hop, chain>> /\ Begun
      /\ Destination \in Nat
  BY TargetIsReal DEF Asking, DialInv, ClientInv, RequestFits, PlaceFits, clientVars
<1>2. a \in Seq(Words)
  BY <1>1, AnswersAreWords
<1>3. Says(wire', hop, a)
  BY <1>1, <1>2, FirstAnswer
<1>4. Stream' = wire'
  BY <1>1, <1>3, AllOfIt DEF Says
<1>5. /\ Len(Stream') = Len(a) /\ Len(a) \in Nat /\ \A i \in 1..Len(a) : Stream'[i].by = hop' /\ Stream'[i].is = a[i]
  BY <1>1, <1>3, <1>4 DEF Says
<1>6. Answered'
  <2>1. pc # "status" => Len(a) = 2
    BY <1>1, RefusalsRefuse DEF Asks, Begun
  <2> QED
    BY <1>1, <1>5, <2>1 DEF Answered, Begun, Upto
<1>7. 1 \in 1..2 /\ 2 \in 1..2
  OBVIOUS
<1>8. CASE pc \in {"method", "auth", "head", "reply"}
  <2>1. Len(a) = 2
    BY <1>1, <1>8, RefusalsRefuse DEF Asks
  <2>2. Stream'[1].is = a[1] /\ Stream'[2].is = a[2]
    BY <1>5, <1>7, <2>1
  <2>3. /\ pc = "auth"  => a[2] # "granted"
        /\ pc = "head"  => a[1] # "granted" \/ a[2] \notin {"v4", "v6", "name"}
        /\ pc = "reply" => a[2] # "granted"
    BY <1>1, RefusalsRefuse DEF Asks
  <2> QED
    BY <1>1, <1>6, <1>8, <2>2, <2>3 DEF Refusing
<1>9. CASE pc = "status"
  <2>1. /\ 1 \in 1..Len(a) /\ (Len(a) < StatusLine \/ a[1] # "HTTP" \/ a[StatusLine] # "granted")
    BY <1>1, <1>9, RefusalsRefuse DEF Asks
  <2>2. ASSUME ~(Len(a) < StatusLine) PROVE StatusLine \in 1..Len(a)
    BY <1>5, <2>2, DialAssumption
  <2>3. Stream'[1].is = a[1] /\ (~(Len(a) < StatusLine) => Stream'[StatusLine].is = a[StatusLine])
    BY <1>5, <2>1, <2>2
  <2>4. (Unparsable(Stream) \/ Stream[StatusLine].is # "granted")'
    BY <1>5, <2>1, <2>3 DEF Unparsable
  <2> QED
    BY <1>1, <1>6, <1>9, <2>4 DEF Refusing
<1> QED
  BY <1>1, <1>8, <1>9 DEF Begun

\* What agrees to a method, or to a password.
LEMMA GrantsAgree ==
  ASSUME NEW m \in Messages, NEW a \in Grants(m)
  PROVE  /\ m.what = "greeting" => Len(a) = 2 /\ a[1] = "v5" /\ a[2] \in {"no_password", "password"}
         /\ m.what = "password" => Len(a) = 2 /\ a[2] = "granted"
<1>1. CASE m.what = "greeting"
  <2>1. a \in {<<"v5", "no_password">>, <<"v5", "password">>}
    BY <1>1 DEF Grants
  <2> QED
    BY <1>1, <2>1
<1>2. CASE m.what = "password"
  <2>1. a = <<"v1", "granted">>
    BY <1>2 DEF Grants
  <2> QED
    BY <1>2, <2>1
<1> QED
  BY <1>1, <1>2

\* A hop that grants agrees to go on, or has become the way to what it was asked for.
LEMMA GrantIsGranting ==
  ASSUME DialInv, Asking, request # None, UNCHANGED <<clientVars, buffer>>, request' = None,
         NEW a \in Grants(request), NEW hello \in {<<>>, <<"hello">>},
         LET through == "to" \in DOMAIN request /\ peer # Destination IN
         /\ IF through THEN peer' = request.to /\ route' = Append(route, peer) ELSE UNCHANGED <<peer, route>>
         /\ hello # <<>> => through /\ request.to = Destination,
         wire' = wire \o Cells(peer, a) \o Cells(Destination, hello)
  PROVE  Agreeing' \/ Granting'
<1> HIDE DEF Cell, Words
<1>1. /\ request \in Messages /\ peer = hop /\ hop \in 1..Len(chain) /\ hop \in Nat /\ hop - 1 \in Nat /\ hop - 1 + 1 = hop
      /\ route = Upto(hop - 1) /\ Asks(request)
      /\ got' = <<>> /\ buffer' = <<>> /\ wire = <<>> /\ UNCHANGED <<pc, hop, chain>> /\ Begun
      /\ Destination \in Nat /\ Destination # hop /\ (Target = Destination <=> hop = Len(chain))
  BY TargetIsReal DEF Asking, DialInv, ClientInv, RequestFits, PlaceFits, clientVars
<1>2. a \in Seq(Words)
  BY <1>1, AnswersAreWords
<1>3. Target' = Target /\ Destination' = Destination
  BY <1>1, SameHop
<1>4. CASE pc \in {"method", "auth"}
  <2>1. request.what \in {"greeting", "password"}
    BY <1>1, <1>4 DEF Asks
  <2>2. UNCHANGED <<peer, route>> /\ hello = <<>>
    BY <1>1, <2>1, RequestsName
  <2>3. Says(wire', hop, a)
    BY <1>1, <1>2, <2>2, FirstAnswer
  <2>4. Stream' = wire'
    BY <1>1, <2>3, AllOfIt DEF Says
  <2>5. Len(a) = 2
    BY <1>1, <2>1, GrantsAgree
  <2>6. Len(Stream') = 2 /\ \A i \in 1..2 : Stream'[i].by = hop' /\ Stream'[i].is = a[i]
    BY <1>1, <2>3, <2>4, <2>5 DEF Says
  <2>7. Answered'
    BY <1>1, <2>2, <2>6 DEF Answered, Begun, Upto
  <2>8. Stream'[1].is = a[1] /\ Stream'[2].is = a[2]
    BY <2>6
  <2>9. (pc = "method" => a[1] = "v5" /\ a[2] \in {"no_password", "password"}) /\ (pc = "auth" => a[2] = "granted")
    BY <1>1, GrantsAgree DEF Asks
  <2> QED
    BY <1>1, <1>4, <2>7, <2>8, <2>9 DEF Agreeing
<1>5. CASE pc \in {"head", "reply", "status"}
  <2>1. request.what \in {"connect_socks5", "connect_socks4", "connect_http"} /\ request.to = Target
    BY <1>1, <1>5 DEF Asks
  <2>2. peer' = Target /\ route' = Append(Upto(hop - 1), hop) /\ (hello # <<>> => hop = Len(chain))
    BY <1>1, <2>1, RequestsName
  <2>3. route' = Upto(hop)
    <3>1. Append(Upto(hop - 1), hop - 1 + 1) = Upto(hop - 1 + 1)
      BY <1>1, NoHopBefore
    <3> QED
      BY <1>1, <2>2, <3>1
  <2>4. wire' \in Seq(Cell) /\ Begins(wire', a, hop)
    BY <1>1, <1>2, <2>2, FirstAnswer
  <2>5. Stream' = wire'
    BY <1>1, <2>4, AllOfIt
  <2>6. Begins(Stream, a, hop)'
    BY <1>1, <1>3, <2>4, <2>5 DEF Begins
  <2>7. a \in Answer'
    <3>1. CASE pc = "head"
      BY <1>1, <3>1 DEF Asks, Grants, Answer
    <3>2. CASE pc = "reply"
      BY <1>1, <3>2 DEF Asks, Grants, Answer
    <3>3. CASE pc = "status"
      BY <1>1, <3>3 DEF Asks, Grants, Answer
    <3> QED
      BY <1>5, <3>1, <3>2, <3>3
  <2> QED
    BY <1>1, <1>3, <2>2, <2>3, <2>6, <2>7 DEF Granting, Upto
<1> QED
  BY <1>1, <1>4, <1>5 DEF Begun

\* What the destination says into its tunnel is its own.
LEMMA TunnelStays ==
  ASSUME DialInv, Answers, Clean, status = "ok"
  PROVE  Tunnel'
<1> HIDE DEF Cell, Words
<1>1. /\ Tunnel /\ request \in Messages /\ request # None /\ request' = None /\ UNCHANGED <<chain, hop, buffer>>
      /\ peer = Destination /\ Destination \in Nat /\ request.what = "get"
      /\ buffer \in Seq(Cell) /\ wire \in Seq(Cell)
  <2>1. Tunnel /\ request # None /\ request' = None /\ UNCHANGED <<chain, hop, buffer>>
    BY DEF DialInv, StreamFits, Answers, clientVars
  <2> QED
    BY <2>1, TargetIsReal DEF Tunnel, DialInv, ClientInv, RequestFits, StreamIsTyped
<1>2. Destination' = Destination /\ Hop' = Hop
  BY <1>1, SameHop
<1>3. peer' = peer /\ route' = route
  BY <1>1 DEF Answers
<1>4. wire' \in Seq(Cell) /\ (OwnedBy(wire, Destination) => OwnedBy(wire', Destination))
  <2>1. CASE wire' = wire
    BY <1>1, <2>1
  <2>2. ASSUME NEW a \in Refusals(request) \cup Grants(request), wire' = wire \o Cells(Destination, a)
        PROVE  wire' \in Seq(Cell) /\ (OwnedBy(wire, Destination) => OwnedBy(wire', Destination))
    <3>1. a \in Seq(Words)
      BY <1>1, AnswersAreWords
    <3>2. PICK c \in Seq(Cell) : c = Cells(Destination, a) /\ OwnedBy(c, Destination)
      <4>1. PICK c \in Seq(Cell) : c = Cells(Destination, a)
        BY <1>1, <3>1, CellsAreOwn
      <4>2. Len(c) = Len(a) /\ \A i \in 1..Len(a) : c[i].by = Destination
        BY <1>1, <3>1, <4>1, CellsAreOwn
      <4> QED
        BY <4>1, <4>2 DEF OwnedBy
    <3> QED
      BY <1>1, <2>2, <3>2, OwnedParts, ConcatProperties
  <2>3. ASSUME NEW a \in Grants(request), wire' = wire \o Cells(Destination, a) \o Cells(Destination, <<>>)
        PROVE  wire' = wire \o Cells(Destination, a)
    <3>1. a \in Seq(Words)
      BY <1>1, AnswersAreWords
    <3>2. wire \o Cells(Destination, a) \in Seq(Cell)
      BY <1>1, <3>1, AddedCells DEF Adds
    <3>3. Cells(Destination, <<>>) = <<>>
      BY NoHopBefore DEF Cells
    <3> QED
      BY <2>3, <3>2, <3>3, EmptyCells
  <2>4. \/ wire' = wire
        \/ \E a \in Refusals(request) : wire' = wire \o Cells(Destination, a)
        \/ \E a \in Grants(request) : wire' = wire \o Cells(Destination, a) \o Cells(Destination, <<>>)
    BY <1>1 DEF Answers
  <2> QED
    BY <2>1, <2>2, <2>3, <2>4
<1>5. OwnedBy(Unread, Destination) => OwnedBy(Unread', Destination)
  <2>1. Unread' = buffer \o wire' /\ Unread = buffer \o wire
    BY <1>1 DEF Unread
  <2>2. OwnedBy(buffer \o wire, Destination) => OwnedBy(buffer \o wire', Destination)
    BY <1>1, <1>4, OwnedParts
  <2> QED
    BY <2>1, <2>2
<1> QED
  BY <1>1, <1>2, <1>3, <1>5 DEF Tunnel, OwnedBy, Upto

\* A peer that answers, refuses or stays silent keeps the stream and the hops together.
LEMMA AnswersKeepStream ==
  ASSUME DialInv, Answers
  PROVE  StreamFits' /\ FailuresAreReal'
<1>1. /\ UNCHANGED clientVars /\ UNCHANGED <<pc, hop, chain, got, buffer, status, tries, purpose>>
      /\ request # None /\ request' = None
  BY DEF Answers, clientVars
<1>2. fault => fault'
  BY DEF Answers
<1>3. /\ Clean' = Clean /\ Target' = Target /\ Hop' = Hop /\ Destination' = Destination
      /\ LeavesHeaders(hop - 1)' = LeavesHeaders(hop - 1)
  BY <1>1, SameHop
<1>4. FailuresAreReal'
  BY <1>1, <1>2, <1>3 DEF DialInv, FailuresAreReal
<1>5. pc \notin {"resolve", "connect"} /\ (Clean => pc # "begin")
  BY <1>1 DEF DialInv, StreamFits, Unreached, Quiet
<1>6. CASE ~Clean
  BY <1>1, <1>5, <1>6, UncleanStays
<1>7. CASE Clean
  <2>1. Clean /\ status = "ok" => Tunnel'
    BY TunnelStays
  <2>2. ASSUME pc \in AnswerReads PROVE Asking
    <3>1. Asking \/ Refusing \/ Agreeing \/ Granting
      BY <1>7, <2>2 DEF DialInv, StreamFits
    <3> QED
      BY <1>1, <3>1 DEF Refusing, Agreeing, Answered, Granting
  <2>3. ASSUME pc \in AnswerReads PROVE Asking' \/ Refusing' \/ Agreeing' \/ Granting'
    <3>1. CASE UNCHANGED <<peer, route, wire>>
      BY <1>1, <1>3, <2>2, <2>3, <3>1 DEF Asking, Begun, Upto
    <3>2. ASSUME NEW a \in Refusals(request), wire' = wire \o Cells(peer, a), fault', UNCHANGED <<peer, route>>
          PROVE  Refusing'
      BY <1>1, <2>2, <2>3, <3>2, RefusalIsRefusing
    <3>3. ASSUME NEW a \in Grants(request), NEW hello \in {<<>>, <<"hello">>},
                 LET through == "to" \in DOMAIN request /\ peer # Destination IN
                 /\ IF through THEN peer' = request.to /\ route' = Append(route, peer) ELSE UNCHANGED <<peer, route>>
                 /\ hello # <<>> => through /\ request.to = Destination,
                 wire' = wire \o Cells(peer, a) \o Cells(Destination, hello)
          PROVE  Agreeing' \/ Granting'
      BY <1>1, <2>2, <2>3, <3>3, GrantIsGranting
    <3>4. \/ UNCHANGED <<peer, route, wire>>
          \/ \E a \in Refusals(request) : wire' = wire \o Cells(peer, a) /\ fault' /\ UNCHANGED <<peer, route>>
          \/ \E a \in Grants(request), hello \in {<<>>, <<"hello">>} :
               /\ LET through == "to" \in DOMAIN request /\ peer # Destination IN
                  /\ IF through THEN peer' = request.to /\ route' = Append(route, peer) ELSE UNCHANGED <<peer, route>>
                  /\ hello # <<>> => through /\ request.to = Destination
               /\ wire' = wire \o Cells(peer, a) \o Cells(Destination, hello)
      BY DEF Answers
    <3> QED
      BY <3>1, <3>2, <3>3, <3>4
  <2>4. (Clean /\ pc \in AnswerReads => IF pc = "status" THEN Unparsable(got) ELSE Len(got) <= Wanted)'
    BY <1>1, <1>3 DEF DialInv, StreamFits, Unparsable, Wanted
  <2> QED
    BY <1>1, <1>4, <1>5, <1>7, <2>1, <2>3, <2>4 DEF StreamFits
<1> QED
  BY <1>6, <1>7


-----------------------------------------------------------------------------
(* The invariant, and what it says of a dial.                              *)

\* A dial starts with nothing said.
LEMMA DialInvStarts == DialInit => DialInv
<1> SUFFICES ASSUME DialInit PROVE DialInv
  OBVIOUS
<1>1. /\ pc = "resolve" /\ hop = 1 /\ got = <<>> /\ buffer = <<>> /\ wire = <<>> /\ status = None
      /\ peer = None /\ route = <<>> /\ request = None
  BY DEF DialInit, Fresh
<1>2. StreamIsTyped
  BY <1>1, EmptyCells DEF StreamIsTyped
<1>3. status # "ok"
  BY <1>1, NoneIsNothing DEF Statuses
<1>4. StreamFits /\ FailuresAreReal
  BY <1>1, <1>3 DEF StreamFits, FailuresAreReal, Unreached, Quiet, AnswerReads, Socks5Reads
<1> QED
  BY <1>2, <1>4, ClientStarts DEF DialInv

\* Every step of the client, of a peer or of the clock keeps it.
LEMMA DialInvKept == DialInv /\ [DialNext]_dialVars => DialInv'
<1> SUFFICES ASSUME DialInv, [DialNext]_dialVars PROVE DialInv'
  OBVIOUS
<1>1. ClientInv'
  BY ClientKept DEF DialInv
<1>2. StreamIsTyped'
  BY TypedKept DEF DialInv
<1>3. StreamFits' /\ FailuresAreReal'
  <2>1. CASE Recv \/ Arrive \/ Closes \/ Tick \/ UNCHANGED dialVars
    BY <2>1, MovesKeepStream
  <2>2. CASE Connecting \/ Checking
    BY <2>2, ConnectingKeepsStream, CheckingKeepsStream
  <2>3. CASE Begin \/ ReadFails
    BY <2>3, BeginKeepsStream, ReadFailsKeepsStream
  <2>4. CASE Socks5 \/ Socks4 \/ Http
    BY <2>4, Socks5KeepsStream, Socks4KeepsStream, HttpKeepsStream
  <2>5. CASE Answers
    BY <2>5, AnswersKeepStream
  <2> QED
    BY <2>1, <2>2, <2>3, <2>4, <2>5 DEF DialNext, Handshake, World
<1> QED
  BY <1>1, <1>2, <1>3 DEF DialInv

\* Where the client is, what the stream holds and what the peers have been asked fit together.
THEOREM DialInvThm == DialSpec => []DialInv
<1> QED
  BY DialInvStarts, DialInvKept, PTL DEF DialSpec

\* A dial that pmx_proxy_handshake calls a success reaches the destination through every hop of
\* the chain in order, if no hop before the last was an HTTP proxy.
THEOREM TunnelThm == DialSpec => []OkMeansTunnel
<1>1. DialInv => OkMeansTunnel
  BY DEF DialInv, StreamFits, Tunnel, Clean, Upto, OkMeansTunnel
<1> QED
  BY <1>1, DialInvThm, PTL

\* A dial fails because of what a peer did or did not do in time, because the protocol cannot carry
\* the request, or because an HTTP answer came in too many pieces; never by misreading a grant.
THEOREM FailuresThm == DialSpec => []FailuresAreReal
<1>1. DialInv => FailuresAreReal
  BY DEF DialInv
<1> QED
  BY <1>1, DialInvThm, PTL

\* What a read has taken so far is the hop's.
LEMMA ReadsAreTheHops ==
  ASSUME DialInv, Clean, pc \in AnswerReads
  PROVE  \A i \in 1..Len(got) : got[i].by = hop
<1> HIDE DEF Cell
<1>1. got \in Seq(Cell) /\ buffer \in Seq(Cell) /\ wire \in Seq(Cell)
  BY DEF DialInv, StreamIsTyped
<1>2. /\ \A i \in 1..Len(got) : Stream[i] = got[i]
      /\ Len(got) \in Nat /\ Len(Stream) \in Nat /\ Len(got) <= Len(Stream)
  <2>1. /\ Len(Stream) = Len(got) + Len(buffer) + Len(wire) /\ \A i \in 1..Len(got) : Stream[i] = got[i]
        /\ {Len(got), Len(buffer), Len(wire)} \subseteq Nat
    BY <1>1, StreamShape DEF Stream, Unread
  <2> QED
    BY <2>1
<1>3. CASE Asking
  BY <1>3, NoHopBefore DEF Asking
<1>4. CASE Answered
  <2>1. \A i \in 1..Len(got) : i \in 1..Len(Stream)
    BY <1>2
  <2> QED
    BY <1>2, <1>4, <2>1 DEF Answered
<1>5. CASE Granting
  <2>1. PICK whats \in Answer : Begins(Stream, whats, hop)
    BY <1>5 DEF Granting
  <2>2. Len(whats) \in Nat /\ Len(got) <= Len(whats)
    <3>1. CASE pc = "status"
      <4>1. whats = Reply("http", None)
        BY <2>1, <3>1 DEF Answer
      <4>2. /\ Len(whats) = StatusLine + 2 /\ whats[1] = "HTTP" /\ StatusLine \in Nat
        BY <4>1, HttpReply
      <4>3. Unparsable(got)
        BY <3>1 DEF DialInv, StreamFits, AnswerReads
      <4>4. CASE Len(got) < StatusLine
        BY <1>2, <4>2, <4>4
      <4>5. CASE ~(Len(got) < StatusLine)
        <5>1. 1 \in 1..Len(got) /\ 1 \in 1..Len(whats)
          BY <1>2, <4>2, <4>5, DialAssumption
        <5>2. got[1].is = "HTTP"
          BY <1>2, <2>1, <4>2, <5>1 DEF Begins
        <5> QED
          BY <4>3, <4>5, <5>2 DEF Unparsable
      <4> QED
        BY <4>4, <4>5
    <3>2. CASE pc # "status"
      <4>1. Len(got) <= Wanted
        BY <3>2 DEF DialInv, StreamFits
      <4>2. Wanted \in Nat /\ Len(whats) \in Nat /\ Wanted <= Len(whats)
        <5>1. CASE pc = "head"
          <6>1. PICK t \in {"v4", "v6", "name"} : whats = Reply("socks5", t)
            BY <2>1, <5>1 DEF Answer
          <6>2. Len(whats) \in {2 + 2, 2 + 3}
            BY <6>1, AnswerParts
          <6>3. Wanted = 2
            BY <5>1 DEF Wanted
          <6> QED
            BY <6>2, <6>3
        <5>2. CASE pc # "head"
          <6>1. Len(whats) = Wanted \/ (Len(whats) = 3 /\ Wanted = 1)
            BY <2>1, <3>2, <5>2, AnswerParts DEF Answer, Wanted
          <6>2. Wanted \in {1, 2, 3}
            BY DEF Wanted
          <6>3. 1 <= 3 /\ 3 \in Nat /\ \A n \in {1, 2, 3} : n \in Nat /\ n <= n
            OBVIOUS
          <6> QED
            BY <6>1, <6>2, <6>3, Zenon
        <5> QED
          BY <5>1, <5>2
      <4> QED
        BY <1>2, <4>1, <4>2
    <3> QED
      BY <3>1, <3>2
  <2>3. \A i \in 1..Len(got) : i \in 1..Len(whats)
    BY <1>2, <2>2
  <2> QED
    BY <1>2, <2>1, <2>3 DEF Begins
<1> QED
  BY <1>3, <1>4, <1>5 DEF DialInv, StreamFits, Refusing, Agreeing

\* A tunnel starts with the destination's first word, and a read takes words of the hop it reads.
THEOREM CleanThm == DialSpec => []TunnelStartsClean
<1>1. DialInv => TunnelStartsClean
  <2> SUFFICES ASSUME DialInv PROVE TunnelStartsClean
    OBVIOUS
  <2>1. ASSUME pc = "over", status = "ok", ~LeavesHeaders(hop)
        PROVE  \A i \in 1..Len(buffer \o wire) : (buffer \o wire)[i].by = Destination
    <3>1. hop \in 1..hop /\ \A h \in 1..hop - 1 : h \in 1..hop
      BY TargetIsReal DEF DialInv, ClientInv
    <3>2. Clean /\ Hop.kind # "http"
      BY <2>1, <3>1 DEF LeavesHeaders, Clean, Hop
    <3> QED
      BY <2>1, <3>2 DEF DialInv, StreamFits, Tunnel, Unread
  <2>2. ASSUME Reading, pc # "page", ~LeavesHeaders(hop - 1)
        PROVE  \A i \in 1..Len(got) : got[i].by = hop
    <3>1. pc \in AnswerReads
      BY <2>2 DEF Reading, DialInv, ClientInv, PlaceFits
    <3> QED
      BY <2>2, <3>1, ReadsAreTheHops DEF Clean
  <2> QED
    BY <2>1, <2>2 DEF TunnelStartsClean
<1> QED
  BY <1>1, DialInvThm, PTL
=============================================================================
