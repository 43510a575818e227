------------------------------- MODULE MCText -------------------------------
(* The two texts the program reads of a user's: the patterns of a rule,    *)
(* and a VPN configuration.  A behaviour reads one of them.                *)
EXTENDS Rules, VpnConfig

SeqsUpTo(s, n) == UNION {[1..k -> s] : k \in 0..n}

McLower == [c \in {"a", "b", "B", "*", "?"} |-> IF c = "B" THEN "b" ELSE c]
McTexts == SeqsUpTo({"a", "b"}, 4)
McLists == {<<>>} \cup {<<x>> : x \in SeqsUpTo({"*", "?", "a", "B"}, 4)}
           \cup {<<x, y>> : x, y \in SeqsUpTo({"*", "a", "B"}, 2)}

\* Numbers are ports, or larger; no two of them stand side by side.
McValue == [c \in {"1", "3", "70000"} |-> CASE c = "1" -> 1 [] c = "3" -> 3 [] OTHER -> 70000]
Sizes   == DOMAIN McValue
McPorts == {0, 1, 2, 3, 4}
McSpecs == {s \in SeqsUpTo(Marks \cup Sizes, 5) :
              \A i \in 1..(Len(s) - 1) : ~(s[i] \in Sizes /\ s[i + 1] \in Sizes)}

McLowerCase(w) ==
  CASE w = "CA" -> "ca" [] w = "Connection" -> "connection" [] w = "Remote" -> "remote" [] w = "Endpoint" -> "endpoint"
    [] w \in {"Interface", "INTERFACE"} -> "interface" [] w = "Peer" -> "peer" [] w = "AllowedIPs" -> "allowedips"
    [] OTHER -> w

Open(tag)     == [is |-> "open", name |-> tag]
Close(tag)    == [is |-> "close", name |-> tag]
Heading(name) == [is |-> "section", name |-> name]
Comment(name) == [is |-> "comment", name |-> name]
Dial(name, host, p_, proto) == [is |-> "option", name |-> name, host |-> host, port |-> p_, proto |-> proto]
Peer(p_)      == [is |-> "option", name |-> "Endpoint", host |-> "h1", port |-> p_]
Allowed(v)    == [is |-> "option", name |-> "AllowedIPs", value |-> v]
OvpnLines ==
  {Open("ca"), Close("ca"), Close("CA"), Open("key"), Open("connection"), Close("connection"), Open("Connection"),
   Dial("remote", "h1", 0, NoValue), Dial("remote", "h2", 443, "tcp"), Dial("remote", "h2", 65616, NoValue),
   [is |-> "option", name |-> "proto", proto |-> "tcp"], [is |-> "option", name |-> "port", port |-> 1195],
   [is |-> "option", name |-> "redirect-gateway"]}
WgLines ==
  {Heading(n) : n \in {"Interface", "Peer", "Other"}} \cup {Peer(n) : n \in {0, 51820}}
  \cup {Allowed(v) : v \in {{"0.0.0.0/0"}, {"0.0.0.0/1", "128.0.0.0/1"}, {"0.0.0.0/1"}, {"128.0.0.0/1"}, {"8000::/1"}}}

\* What either parser may meet of the other's, and spellings the one or the other does not know.
MixedLines ==
  {Open("ca"), Close("ca"), Heading("Interface"), Heading("INTERFACE"), Heading("Peer"), Heading("peer"), Comment("interface"),
   Comment("remote"), [is |-> "option", name |-> "client"], Dial("remote", "h2", 443, "tcp"), Dial("Remote", "h3", 443, "tcp"),
   Peer(51820), Allowed({"0.0.0.0/0"})}
McFiles == SeqsUpTo(OvpnLines, 4) \cup SeqsUpTo(WgLines, 5) \cup SeqsUpTo(MixedLines, 4)

NoMatch  == list = None /\ text = None /\ segment = 1 /\ p = 1 /\ t = 1 /\ starP = None /\ starT = None
            /\ spec = None /\ port = None /\ verdict = None
NoFile   == file = NoValue /\ at = 1 /\ kind = NoValue /\ section = NoValue /\ skipping = NoValue /\ defaults = NoValue
            /\ vpn = NoValue /\ parsed = NoValue
TextInit == (MatchInit /\ NoFile) \/ (ConfigInit /\ NoMatch)
TextNext == \/ MatchNext /\ UNCHANGED configVars
            \/ file # NoValue /\ ConfigNext /\ UNCHANGED rulesVars
TextSpec == TextInit /\ [][TextNext]_<<rulesVars, configVars>>
=============================================================================
