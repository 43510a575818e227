------------------------------- MODULE MCDial -------------------------------
(* Every kind of hop alone, and chains of two hops.                        *)
EXTENDS Dial
CONSTANT Creds
H(kind, host, creds) == [kind |-> kind, host |-> host, creds |-> creds]
Alone == {H(k, "name", c) : k \in {"socks5", "socks4", "socks4a", "http", "https"}, c \in Creds}
First == {H("socks5", "ip", "none"), H("socks4a", "ip", "none"), H("http", "ip", "none")}
Last  == {H("socks5", "name", "short"), H("socks4", "ip", "none"), H("http", "name", "none")}
McChains == {<<h>> : h \in Alone} \cup {<<a, b>> : a \in First, b \in Last}
=============================================================================
