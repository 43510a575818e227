------------------------------- MODULE MCProfile -------------------------------
(* Profiles a session may start from: the seeded defaults                     *)
(* (pmx_profile_seed_defaults), and files a user wrote by hand, with what no  *)
(* panel can set (a default rule that proxies) or with no next_id.            *)
EXTENDS Profile

CONSTANTS lan, web

Conns == {lan, web}

ProxyAt(id, on) == [id |-> id, who |-> id, enabled |-> on]
RuleTo(id, m, a, k, t) ==
  [id |-> id, enabled |-> TRUE, match |-> m, action |-> a, kind |-> k, target |-> t, meant |-> t]
DirectDefault == [RuleTo(1, Conns, "direct", "none", 0) EXCEPT !.id = 0]

Seeded ==
  [next |-> 5, proxies |-> <<ProxyAt(1, TRUE), ProxyAt(2, FALSE)>>, chains |-> <<>>, vpns |-> <<>>,
   rules |-> <<RuleTo(3, {lan}, "direct", "none", 0), RuleTo(4, {web}, "proxy", "proxy", 1)>>,
   default |-> DirectDefault]

DefaultProxied ==
  [next |-> 2, proxies |-> <<ProxyAt(1, TRUE)>>, chains |-> <<>>, vpns |-> <<>>, rules |-> <<>>,
   default |-> RuleTo(0, Conns, "proxy", "proxy", 1)]

\* Without next_id, which then defaults to 1.
Chained ==
  [next |-> 1, proxies |-> <<ProxyAt(1, TRUE), ProxyAt(2, TRUE)>>, vpns |-> <<>>,
   chains |-> <<[id |-> 3, who |-> 3, mode |-> "sequential", enabled |-> TRUE,
                 hops |-> <<[id |-> 1, who |-> 1], [id |-> 2, who |-> 2]>>]>>,
   rules |-> <<RuleTo(4, Conns, "proxy", "chain", 3)>>, default |-> DirectDefault]

Tunnelled ==
  [next |-> 1, proxies |-> <<>>, chains |-> <<>>, rules |-> <<>>, vpns |-> <<[id |-> 1]>>,
   default |-> DirectDefault]

MCFiles  == {Seeded, DefaultProxied, Chained}
VpnFiles == {Tunnelled}

\* What ProfileProofs asks of the files a session may start from.
ASSUME MCFilesAreSound == \A f \in MCFiles : FileIsSound(f)
=============================================================================
