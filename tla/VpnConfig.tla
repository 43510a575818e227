----------------------------- MODULE VpnConfig -----------------------------
(***************************************************************************)
(* Importing a VPN configuration (pmx_vpn.c): the parsers of OpenVPN and   *)
(* WireGuard files, one line per step.  What the parser says of a file is  *)
(* what the kill switch will let through, so it must agree with what the   *)
(* VPN client reads in the same file.                                      *)
(*                                                                         *)
(* A line is a record: what it is at first sight ("open" and "close" for   *)
(* tags, "section", "comment", and "option" for everything else) and a     *)
(* name, with its case: of the tag, the section or the option, or of what  *)
(* a comment mentions.  Spacing, the byte order mark and the values        *)
(* nothing depends on (cipher, MTU, DNS) are left out.                     *)
(***************************************************************************)
EXTENDS Integers, Sequences, FiniteSets

CONSTANTS
  Files,          \* files: sequences of lines
  MaxEndpoints,   \* PMX_MAX_VPN_ENDPOINTS, fewer here
  PortBits,       \* 2^16
  LowerCase(_),   \* a name in lower case
  NoValue         \* no value

ASSUME ConfigAssumption ==
  /\ MaxEndpoints \in Nat \ {0} /\ PortBits \in Nat \ {0}
  /\ NoValue \notin {"ok", "error", "peer", "openvpn", "wireguard"}
  /\ \A w \in {"redirect-gateway", "key"} : LowerCase(w) = w
  /\ \A f \in Files :
       /\ Len(f) \in Nat
       /\ \A i \in 1..Len(f) :
            /\ f[i].is = "option" /\ LowerCase(f[i].name) \in {"remote", "port", "endpoint"} => f[i].port \in Int
            /\ f[i].is = "open" => f[i].name # NoValue

VARIABLES
  file,       \* its lines
  at,         \* the line that is read next
  kind,       \* what it was sniffed to be, or NoValue
  section,    \* section of a WireGuard file
  skipping,   \* inline block of an OpenVPN file that is being skipped, or NoValue
  defaults,   \* [udp, port] of remotes that do not say
  vpn,        \* the pmx_vpn: [endpoints, truncated, secret, full]
  parsed      \* "ok", "error", or NoValue before the end

configVars == <<file, at, kind, section, skipping, defaults, vpn, parsed>>

\* pmx_vpn_sniff looks for a text anywhere in the file, in inline files and comments too, and in two
\* spellings only: "[Interface]" first, then the options that make it OpenVPN's.
Mentioned(f, is, names) == \E i \in 1..Len(f) : f[i].is \in is /\ f[i].name \in names
Sniffed(f) ==
  IF Mentioned(f, {"section", "comment"}, {"Interface", "interface"}) THEN "wireguard"
  ELSE IF Mentioned(f, {"option"}, {"client"}) \/ Mentioned(f, {"option", "comment"}, {"remote", "proto", "dev"}) THEN "openvpn"
  ELSE NoValue

ConfigInit ==
  /\ file \in Files /\ at = 1 /\ kind = Sniffed(file)
  /\ section = NoValue /\ skipping = NoValue
  /\ defaults = [udp |-> TRUE, port |-> 1194]
  /\ vpn = [endpoints |-> <<>>, truncated |-> FALSE, secret |-> FALSE, full |-> FALSE]
  /\ parsed = IF kind = NoValue THEN "error" ELSE NoValue

Line        == file[at]
Reads(what) == parsed = NoValue /\ at <= Len(file) /\ Line.is = what /\ at' = at + 1
Named(name) == LowerCase(Line.name) = name
Keeps       == UNCHANGED <<file, kind, parsed>>

\* add_endpoint: a remote that finds no room is remembered as such.
Added(host, port, udp) ==
  IF Len(vpn.endpoints) >= MaxEndpoints THEN [vpn EXCEPT !.truncated = TRUE]
  ELSE [vpn EXCEPT !.endpoints = Append(@, [host |-> host, port |-> port, udp |-> udp])]

-----------------------------------------------------------------------------
(* OpenVPN.                                                                *)

Openvpn(what) == kind = "openvpn" /\ Reads(what) /\ UNCHANGED section
Parsing       == skipping = NoValue

\* Tags that hold secrets, whatever their case.
Secret(tag)   == LowerCase(tag) \in {"key", "tls-auth", "tls-crypt", "tls-crypt-v2", "secret", "pkcs12"}

\* Only the body of <connection>, spelt like this, is configuration.
Container_AnyCase(tag) == LowerCase(tag) = "connection"
Container(tag) == tag = "connection"

\* Every other block is skipped to its own closing tag.
Closes(tag) == tag = skipping

Opens ==
  /\ Openvpn("open")
  /\ IF Parsing /\ ~Container(Line.name)
       THEN /\ skipping' = Line.name
            /\ vpn' = [vpn EXCEPT !.secret = @ \/ Secret(Line.name)]
       ELSE UNCHANGED <<skipping, vpn>>
  /\ Keeps /\ UNCHANGED defaults

Closing ==
  /\ Openvpn("close")
  /\ skipping' = IF ~Parsing /\ Closes(Line.name) THEN NoValue ELSE skipping
  /\ Keeps /\ UNCHANGED <<defaults, vpn>>

\* A port is cast to 16 bits.  A remote that does not name its protocol has that of the last "proto".
Port(n)     == n % PortBits
Udp(proto)  == IF proto = NoValue THEN defaults.udp ELSE proto = "udp"

Remote ==
  /\ Openvpn("option") /\ Named("remote")
  /\ vpn' = IF Parsing THEN Added(Line.host, Port(Line.port), Udp(Line.proto)) ELSE vpn
  /\ Keeps /\ UNCHANGED <<skipping, defaults>>

Default ==
  /\ Openvpn("option")
  /\ \/ Named("proto") /\ defaults' = IF Parsing THEN [defaults EXCEPT !.udp = Line.proto = "udp"] ELSE defaults
     \/ Named("port")  /\ defaults' = IF Parsing THEN [defaults EXCEPT !.port = Port(Line.port)] ELSE defaults
  /\ Keeps /\ UNCHANGED <<skipping, vpn>>

RedirectGateway ==
  /\ Openvpn("option") /\ Named("redirect-gateway")
  /\ vpn' = [vpn EXCEPT !.full = @ \/ Parsing]
  /\ Keeps /\ UNCHANGED <<skipping, defaults>>

\* Any other line is passed over.
OtherDirective ==
  /\ \/ Openvpn("section") \/ Openvpn("comment")
     \/ Openvpn("option") /\ \A name \in {"remote", "proto", "port", "redirect-gateway"} : ~Named(name)
  /\ Keeps /\ UNCHANGED <<skipping, defaults, vpn>>

\* The end of the file gives a port to the remotes without one.
Ported(e) == IF e.port # 0 THEN e ELSE [e EXCEPT !.port = IF defaults.port # 0 THEN defaults.port ELSE 1194]

-----------------------------------------------------------------------------
(* WireGuard.                                                              *)

Wireguard(what) == kind = "wireguard" /\ Reads(what) /\ UNCHANGED <<skipping, defaults>>

Section ==
  /\ Wireguard("section")
  /\ section' = IF Named("interface") \/ Named("peer") THEN LowerCase(Line.name) ELSE NoValue
  /\ Keeps /\ UNCHANGED vpn

\* allowed_ips_is_full_tunnel looks for the text of a prefix anywhere in the value: that of "::/1" is
\* in "8000::/1", that of "0.0.0.0/1" in "10.0.0.0/16".
Mentions(value) ==
  value \cup (IF "8000::/1" \in value THEN {"::/1"} ELSE {})
        \cup (IF "10.0.0.0/16" \in value THEN {"0.0.0.0/1"} ELSE {})

WholeSpace == {{"0.0.0.0/0"}, {"::/0"}, {"0.0.0.0/1", "128.0.0.0/1"}, {"::/1", "8000::/1"}}
Full_OnePrefix(value) == value \cap {"0.0.0.0/0", "::/0"} # {}
Full(value) == \E s \in WholeSpace : s \subseteq Mentions(value)

InPeer == section = "peer"

AllowedIPs ==
  /\ Wireguard("option") /\ Named("allowedips")
  /\ vpn' = [vpn EXCEPT !.full = @ \/ (InPeer /\ Full(Line.value))]
  /\ Keeps /\ UNCHANGED section

\* parse_hostport: an endpoint without a port in range is no endpoint.
Endpoint ==
  /\ Wireguard("option") /\ Named("endpoint")
  /\ vpn' = IF InPeer /\ Line.port \in 1..(PortBits - 1) THEN Added(Line.host, Line.port, TRUE) ELSE vpn
  /\ Keeps /\ UNCHANGED section

\* Any other line is passed over; a tag or a directive is a line without "=".
OtherKey ==
  /\ \/ Wireguard("open") \/ Wireguard("close") \/ Wireguard("comment")
     \/ Wireguard("option") /\ ~Named("allowedips") /\ ~Named("endpoint")
  /\ Keeps /\ UNCHANGED <<section, vpn>>

-----------------------------------------------------------------------------
Ends ==
  /\ parsed = NoValue /\ at > Len(file)
  /\ parsed' = IF vpn.endpoints = <<>> THEN "error" ELSE "ok"
  /\ vpn' = IF kind = "openvpn" THEN [vpn EXCEPT !.endpoints = [i \in DOMAIN @ |-> Ported(@[i])]] ELSE vpn
  /\ UNCHANGED <<file, at, kind, section, skipping, defaults>>

ConfigNext ==
  \/ Opens \/ Closing \/ Remote \/ Default \/ RedirectGateway \/ OtherDirective
  \/ Section \/ AllowedIPs \/ Endpoint \/ OtherKey \/ Ends
ConfigSpec == ConfigInit /\ [][ConfigNext]_configVars

-----------------------------------------------------------------------------
(* What the clients read in a file.                                        *)

\* OpenVPN: a line is configuration unless it is in the body of an inline file, which begins at a
\* <tag> that is configuration and lasts to the same </tag>; <connection> is no inline file.
Configuration ==
  LET c[i \in 1..Len(file)] ==
        ~\E k \in 1..(i - 1) :
           /\ c[k] /\ file[k].is = "open" /\ file[k].name # "connection"
           /\ \A j \in (k + 1)..(i - 1) : ~(file[j].is = "close" /\ file[j].name = file[k].name)
  IN {i \in 1..Len(file) : c[i]}

\* Its option names have no other case than theirs, and it runs no file with a name it does not know.
Directive(i, name) == file[i].is = "option" /\ file[i].name = name /\ i \in Configuration
SpeltRight == \A i \in Configuration : file[i].is = "option" => LowerCase(file[i].name) = file[i].name

\* WireGuard: a line belongs to the section that was opened last; names have any case.
PeerLines ==
  {i \in 1..Len(file) : \E k \in 1..(i - 1) :
     /\ file[k].is = "section" /\ LowerCase(file[k].name) = "peer"
     /\ \A j \in (k + 1)..i : file[j].is # "section"}
PeerKey(i, name) == file[i].is = "option" /\ LowerCase(file[i].name) = name /\ i \in PeerLines

\* A port that can be one.
InRange(n) == n \in 1..(PortBits - 1)

\* The lines that name a remote for the client the file is sniffed to be for, in their order.
RemoteSet ==
  {i \in 1..Len(file) : \/ kind = "openvpn" /\ Directive(i, "remote")
                        \/ kind = "wireguard" /\ PeerKey(i, "endpoint") /\ InRange(file[i].port)}
RemoteLines ==
  LET r[n \in 0..Len(file)] == IF n = 0 THEN <<>> ELSE IF n \in RemoteSet THEN Append(r[n - 1], n) ELSE r[n - 1]
  IN r[Len(file)]

\* The port of a remote: its own, or the last "port" of the file.
GlobalPort ==
  LET ports == {i \in 1..Len(file) : Directive(i, "port")} IN
  IF ports = {} THEN 1194 ELSE file[CHOOSE i \in ports : \A j \in ports : j <= i].port
PortOf(i) == IF file[i].port # 0 THEN file[i].port ELSE GlobalPort

\* The endpoints of an import, which the kill switch lets through, are the remotes its client itself
\* reads in the file, none hidden in an inline block and none left out, in their order and with
\* their ports; those there is no room for are admitted to (add_endpoint, is_parsed_container_tag).
\* It speaks of the client the file is sniffed to be for, and not of files OpenVPN refuses for an
\* option name.
EndpointsAreConfigured ==
  parsed # NoValue /\ (kind = "openvpn" => SpeltRight) =>
    LET kept == IF Len(RemoteLines) < MaxEndpoints THEN Len(RemoteLines) ELSE MaxEndpoints IN
    /\ (parsed = "ok") = (RemoteLines # <<>>)
    /\ vpn.truncated = (Len(RemoteLines) > MaxEndpoints)
    /\ Len(vpn.endpoints) = kept
    /\ \A e \in 1..kept : LET i == RemoteLines[e] IN
         /\ vpn.endpoints[e].host = file[i].host
         /\ InRange(PortOf(i)) => vpn.endpoints[e].port = PortOf(i)

\* A tunnel that carries everything is never called a split one (the comment of
\* allowed_ips_is_full_tunnel), and no block of secrets goes unseen.
FullTunnelIsSaid ==
  parsed = "ok" =>
    /\ kind = "openvpn" /\ vpn.full = FALSE => \A i \in 1..Len(file) : ~Directive(i, "redirect-gateway")
    /\ kind = "wireguard" /\ vpn.full = FALSE => \A i \in 1..Len(file) :
         PeerKey(i, "allowedips") => \A s \in WholeSpace : ~(s \subseteq file[i].value)
    /\ kind = "openvpn" /\ vpn.secret = FALSE =>
         \A i \in Configuration : file[i].is = "open" => file[i].name # "key"

\* What an import tells the engine of a file (endpoints to keep reachable, routes, secrets) is what
\* the file says, as far as the kill switch and the panel rely on it.
ImportIsFaithful == EndpointsAreConfigured /\ FullTunnelIsSaid

-----------------------------------------------------------------------------
(* What does not hold; see the README.                                     *)

\* "OpenVPN matches option names case-sensitively" (the comment of is_parsed_container_tag): no
\* endpoint comes from a line that is no remote for OpenVPN.
OptionNamesKeepTheirCase ==
  parsed = "ok" => \A e \in 1..Len(vpn.endpoints) : \E i \in RemoteSet : vpn.endpoints[e].host = file[i].host

\* "OpenVPN treats ANY <tag> ... </tag> as an inline file whose body is data": no endpoint comes out of
\* such a body, also not in a file whose inline block mentions [Interface].
InlineFilesAreData == parsed = "ok" => RemoteSet \subseteq Configuration

\* "Apply the global proto/port to remotes that didn't specify one."
ProtoIsGlobal ==
  parsed = "ok" /\ kind = "openvpn" =>
    \A i, j \in Configuration :
      /\ Directive(i, "proto") /\ Directive(j, "remote") /\ file[j].proto = NoValue
      /\ {k \in Configuration : Directive(k, "proto")} = {i}
      => \A e \in 1..Len(vpn.endpoints) : RemoteLines[e] = j => vpn.endpoints[e].udp = (file[i].proto = "udp")

\* A tunnel that is called full carries everything.
FullIsEverything ==
  parsed = "ok" /\ kind = "wireguard" /\ vpn.full =>
    \E i \in 1..Len(file) : PeerKey(i, "allowedips") /\ \E s \in WholeSpace : s \subseteq file[i].value

\* A tunnel whose whole space is spread over two AllowedIPs lines is called a full one.
HalvesAddUp ==
  parsed = "ok" /\ kind = "wireguard" /\ ~vpn.full =>
    \A s \in WholeSpace : ~(s \subseteq UNION {file[i].value : i \in {i \in 1..Len(file) : PeerKey(i, "allowedips")}})
=============================================================================
