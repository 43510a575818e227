------------------------------- MODULE Profile -------------------------------
(***************************************************************************)
(* What a profile holds and what it refers to: identifiers across add,     *)
(* remove and reload, the references that removals leave behind, the edits *)
(* the panels make, and the resolution of a connection to a route          *)
(* (pmx_profile.c, pmx_chain.c, pmx_engine.c, panel_rules.c,               *)
(* panel_chains.c).  One thread: the GUI's.                                *)
(*                                                                         *)
(* Objects refer to each other by identifier.  So that a reference can be  *)
(* told from the thing meant by it, every proxy and chain also carries a   *)
(* "who", never given twice, and every rule and hop the "who" its user     *)
(* picked: history, which no step of the code reads.                       *)
(***************************************************************************)
EXTENDS Naturals, SequencesExt

CONSTANTS
  Files,          \* profiles a session may start from, as their JSON says
  Queries,        \* connections, as far as patterns tell them apart
  MaxHops,        \* PMX_MAX_CHAIN_HOPS
  MaxEdits        \* bound: operations in one behaviour

ASSUME ProfileAssumption == MaxHops \in Nat \ {0} /\ MaxEdits \in Nat

NoId    == 0
Actions == {"direct", "proxy", "block"}
Kinds   == {"none", "proxy", "chain"}
Patterns == {Queries} \cup {{q} : q \in Queries}     \* blank, or one connection

VARIABLES
  pf,        \* engine.profile
  file,      \* the profile file
  made,      \* history: proxies and chains made so far
  edits      \* operations so far

profileVars == <<pf, file, made, edits>>

Edit == edits < MaxEdits /\ edits' = edits + 1

-----------------------------------------------------------------------------
\* pmx_profile_find_proxy and its siblings: the first with that identifier.
IndexOf(s, id) == {i \in DOMAIN s : s[i].id = id}
Find(s, id) == {s[i] : i \in {j \in IndexOf(s, id) : id # NoId /\ \A k \in IndexOf(s, id) : j <= k}}

Without(s, id) == RemoveAt(s, Min(IndexOf(s, id)))
Moved(s, from, to) == InsertAt(RemoveAt(s, from), to, s[from])

NewId(p) == IF p.next = NoId THEN 1 ELSE p.next

IdsIn(s) == {s[i].id : i \in DOMAIN s}

\* pmx_profile_from_json: as many hops as there is room for, and the stored
\* next_id raised above the stored proxies, rules and chains.
Cropped(c) == [c EXCEPT !.hops = SubSeq(@, 1, Min({Len(@), MaxHops}))]
FromJson_ProxiesOnly(f) ==
  [f EXCEPT !.chains = [c \in DOMAIN @ |-> Cropped(@[c])],
            !.next = Max({f.next} \cup {i + 1 : i \in IdsIn(f.proxies)})]
FromJson(f) ==
  [f EXCEPT !.chains = [c \in DOMAIN @ |-> Cropped(@[c])],
            !.next = Max({f.next} \cup {i + 1 : i \in IdsIn(f.proxies) \cup IdsIn(f.rules) \cup IdsIn(f.chains)})]

-----------------------------------------------------------------------------
\* Resolution (pmx_resolve_with_profile).
Usable(p, id) == {x \in Find(p.proxies, id) : x.enabled}

\* All hops or none; of a redundancy chain, then the first.
Traversable(p, c) == c.enabled /\ c.hops # <<>> /\ \A h \in DOMAIN c.hops : Usable(p, c.hops[h].id) # {}
Through(p, c, hops) ==
  LET used == IF c.mode = "redundancy" THEN 1..1 ELSE DOMAIN hops
  IN  [h \in used |-> (CHOOSE x \in Usable(p, hops[h].id) : TRUE).who]

Path_AliveHops(p, c) ==
  LET alive == SelectSeq(c.hops, LAMBDA h : Usable(p, h.id) # {})
  IN  IF c.enabled /\ alive # <<>> THEN {Through(p, c, alive)} ELSE {}
Path(p, c) == IF Traversable(p, c) THEN {Through(p, c, c.hops)} ELSE {}

\* The route a proxying rule gives: one path, or none (un-routable).
Via(p, r) ==
  IF r.kind = "chain" THEN UNION {Path(p, c) : c \in Find(p.chains, r.target)}
  ELSE {<<x.who>> : x \in {y \in Usable(p, r.target) : r.kind = "proxy"}}

\* The first enabled rule that matches, else the default rule.
Chosen(p, q) ==
  LET hits == {i \in DOMAIN p.rules : p.rules[i].enabled /\ q \in p.rules[i].match}
  IN  IF hits = {} THEN p.default ELSE p.rules[Min(hits)]

Decide(p, q) ==
  LET r == Chosen(p, q)
  IN  [verdict |-> r.action, via |-> IF r.action = "proxy" THEN Via(p, r) ELSE {}]

-----------------------------------------------------------------------------
\* Proxies.
AddProxy ==
  /\ pf' = [pf EXCEPT !.next = NewId(pf) + 1,
                      !.proxies = Append(@, [id |-> NewId(pf), who |-> made + 1, enabled |-> TRUE])]
  /\ made' = made + 1 /\ UNCHANGED file /\ Edit

\* Every hop but that proxy's, each moved down to follow the one kept before it.
Compacted(hops, id) ==
  LET kept     == {h \in DOMAIN hops : hops[h].id # id}
      place(h) == Cardinality({k \in kept : k <= h})
  IN  [n \in 1..Cardinality(kept) |-> hops[CHOOSE h \in kept : place(h) = n]]

\* A path keeps its length and loses the flow; a set of alternatives shrinks.
Forget_Compacts(c, id) == [c EXCEPT !.hops = Compacted(@, id)]
Forget(c, id) ==
  IF c.mode = "redundancy" THEN [c EXCEPT !.hops = Compacted(@, id)]
  ELSE [c EXCEPT !.hops = [h \in DOMAIN @ |-> IF @[h].id = id THEN [@[h] EXCEPT !.id = NoId] ELSE @[h]]]

\* Rules that pointed there point nowhere; the default rule is not visited.
Untarget(rules, kind, id) ==
  [i \in DOMAIN rules |-> IF rules[i].kind = kind /\ rules[i].target = id
                          THEN [rules[i] EXCEPT !.target = NoId] ELSE rules[i]]

RemoveProxy(id) ==
  /\ IndexOf(pf.proxies, id) # {}
  /\ pf' = [pf EXCEPT !.proxies = Without(@, id),
                      !.chains = [c \in DOMAIN @ |-> Forget(@[c], id)],
                      !.rules = Untarget(@, "proxy", id)]
  /\ UNCHANGED <<file, made>> /\ Edit

ToggleProxy(i) ==
  /\ pf' = [pf EXCEPT !.proxies[i].enabled = ~@]
  /\ UNCHANGED <<file, made>> /\ Edit

-----------------------------------------------------------------------------
\* Chains.
AddChain ==
  /\ pf' = [pf EXCEPT !.next = NewId(pf) + 1,
                      !.chains = Append(@, [id |-> NewId(pf), who |-> made + 1, mode |-> "sequential",
                                            enabled |-> TRUE, hops |-> <<>>])]
  /\ made' = made + 1 /\ UNCHANGED file /\ Edit

RemoveChain(id) ==
  /\ IndexOf(pf.chains, id) # {}
  /\ pf' = [pf EXCEPT !.chains = Without(@, id), !.rules = Untarget(@, "chain", id)]
  /\ UNCHANGED <<file, made>> /\ Edit

AddHop(c, x) ==
  [c EXCEPT !.hops = IF Len(@) < MaxHops THEN Append(@, [id |-> x.id, who |-> x.who]) ELSE @]

\* chain_editor: one click of a frame.
ChainClicks(c) ==
  {[c EXCEPT !.mode = m] : m \in {"sequential", "redundancy"} \ {c.mode}}
    \cup {[c EXCEPT !.enabled = ~@]}
    \cup {AddHop(c, x) : x \in Range(pf.proxies)}
    \cup {[c EXCEPT !.hops = RemoveAt(@, h)] : h \in DOMAIN c.hops}
    \cup {[c EXCEPT !.hops = Moved(@, h, h + 1)] : h \in 1..(Len(c.hops) - 1)}
    \cup {[c EXCEPT !.hops = Moved(@, h, h - 1)] : h \in 2..Len(c.hops)}

EditChain(i) ==
  /\ \E c \in ChainClicks(pf.chains[i]) : pf' = [pf EXCEPT !.chains[i] = c]
  /\ UNCHANGED <<file, made>> /\ Edit

-----------------------------------------------------------------------------
\* Rules.
AddRule ==
  /\ pf' = [pf EXCEPT !.next = NewId(pf) + 1,
                      !.rules = Append(@, [id |-> NewId(pf), enabled |-> TRUE, match |-> Queries,
                                           action |-> "direct", kind |-> "none", target |-> NoId,
                                           meant |-> NoId])]
  /\ UNCHANGED <<file, made>> /\ Edit

RemoveRule(id) ==
  /\ IndexOf(pf.rules, id) # {}
  /\ pf' = [pf EXCEPT !.rules = Without(@, id)]
  /\ UNCHANGED <<file, made>> /\ Edit

MoveRule(from, to) ==
  /\ from # to
  /\ pf' = [pf EXCEPT !.rules = Moved(@, from, to)]
  /\ UNCHANGED <<file, made>> /\ Edit

\* rule_editor draws the selected rule and reacts to one click; drawing repairs
\* a missing kind, and fills in the first candidate where no target is set.  The
\* table's toggle draws no editor.
Candidates(r) == IF r.kind = "chain" THEN pf.chains ELSE pf.proxies
Picked(r, x) == [r EXCEPT !.target = x.id, !.meant = x.who]
Repaired(r) == IF r.action = "proxy" /\ r.kind = "none" THEN [r EXCEPT !.kind = "proxy"] ELSE r
FilledIn(r) ==
  IF r.action = "proxy" /\ r.target = NoId /\ Candidates(r) # <<>> THEN Picked(r, Candidates(r)[1]) ELSE r

\* The candidate the combo shows as current: the target, or else the first.
Shown(r) == Max({1} \cup IndexOf(Candidates(r), r.target))

ActionClicked(r, a) == [r EXCEPT !.action = a, !.kind = IF a = "proxy" THEN @ ELSE "none"]
RouteClicks(r) ==
  {FilledIn([r EXCEPT !.kind = k, !.target = NoId]) : k \in {"proxy", "chain"} \ {r.kind}}
    \cup {Picked(r, Candidates(r)[n]) : n \in DOMAIN Candidates(r) \ {Shown(r)}}

RuleClicks(r) ==
  LET drawn == FilledIn(Repaired(r))
  IN  {drawn, [drawn EXCEPT !.enabled = ~@], [r EXCEPT !.enabled = ~@]}
        \cup {[drawn EXCEPT !.match = m] : m \in Patterns}
        \cup {FilledIn(Repaired(ActionClicked(r, a))) : a \in Actions \ {r.action}}
        \cup UNION {RouteClicks(Repaired(x)) : x \in {y \in {r} : y.action = "proxy"}}

EditRule(i) ==
  /\ \E r \in RuleClicks(pf.rules[i]) : pf' = [pf EXCEPT !.rules[i] = r]
  /\ UNCHANGED <<file, made>> /\ Edit

-----------------------------------------------------------------------------
\* Tunnels.
ImportVpn ==
  /\ pf' = [pf EXCEPT !.next = NewId(pf) + 1, !.vpns = Append(@, [id |-> NewId(pf)])]
  /\ UNCHANGED <<file, made>> /\ Edit

RemoveVpn(id) ==
  /\ IndexOf(pf.vpns, id) # {}
  /\ pf' = [pf EXCEPT !.vpns = Without(@, id)]
  /\ UNCHANGED <<file, made>> /\ Edit

-----------------------------------------------------------------------------
\* The file, when nothing fails (ProfileStore has the failures).
Save   == file' = pf /\ UNCHANGED <<pf, made>> /\ Edit
Reload == pf' = FromJson(file) /\ UNCHANGED <<file, made>> /\ Edit

ProfileInit ==
  /\ file \in Files
  /\ pf = FromJson(file)
  /\ made = Len(file.proxies) + Len(file.chains)
  /\ edits = 0

ProfileNext ==
  \/ AddProxy \/ AddChain \/ AddRule \/ ImportVpn \/ Save \/ Reload
  \/ \E id \in IdsIn(pf.proxies) : RemoveProxy(id)
  \/ \E id \in IdsIn(pf.chains) : RemoveChain(id)
  \/ \E id \in IdsIn(pf.rules) : RemoveRule(id)
  \/ \E id \in IdsIn(pf.vpns) : RemoveVpn(id)
  \/ \E i \in DOMAIN pf.proxies : ToggleProxy(i)
  \/ \E i \in DOMAIN pf.chains : EditChain(i)
  \/ \E i \in DOMAIN pf.rules : EditRule(i)
  \/ \E from, to \in DOMAIN pf.rules : MoveRule(from, to)

ProfileSpec == ProfileInit /\ [][ProfileNext]_profileVars

-----------------------------------------------------------------------------
\* What a profile is made of, when m proxies and chains have been made.
Rules(n, m)   == [id: 0..n, enabled: BOOLEAN, match: Patterns, action: Actions,
                  kind: Kinds, target: 0..n, meant: 0..m]
Proxies(n, m) == [id: 1..n, who: 1..m, enabled: BOOLEAN]
Chains(n, m)  == [id: 1..n, who: 1..m, mode: {"sequential", "redundancy"}, enabled: BOOLEAN,
                  hops: BoundedSeq([id: 0..n, who: 1..m], MaxHops)]

Profiles(n, m) ==
  [next: {n + 1}, proxies: Seq(Proxies(n, m)), chains: Seq(Chains(n, m)),
   rules: Seq(Rules(n, m)), default: Rules(n, m), vpns: Seq([id: 1..n])]

Typed(p, m) ==
  /\ p.next \in Nat \ {0} /\ p \in Profiles(p.next - 1, m)
  /\ \A i \in DOMAIN p.rules : p.rules[i].id # NoId

\* What an identifier names in a list, if anything, is the object meant by it.
Names(s, id, who) == \A i \in DOMAIN s : s[i].id = id => s[i].who = who

MeantBy(p, r) == Names(p.proxies, r.target, r.meant) /\ Names(p.chains, r.target, r.meant)

RefsAreMeant(p) ==
  /\ \A i \in DOMAIN p.rules : MeantBy(p, p.rules[i])
  /\ MeantBy(p, p.default)
  /\ \A c \in DOMAIN p.chains : \A h \in DOMAIN p.chains[c].hops :
       Names(p.proxies, p.chains[c].hops[h].id, p.chains[c].hops[h].who)

OneEach(s)  == \A i, j \in DOMAIN s : s[i].id = s[j].id => i = j
Apart(s, t) == \A i \in DOMAIN s, j \in DOMAIN t : s[i].id # t[j].id

IdsAreOwn(p) ==
  /\ OneEach(p.proxies) /\ OneEach(p.chains) /\ OneEach(p.rules) /\ OneEach(p.vpns)
  /\ Apart(p.proxies, p.chains) /\ Apart(p.proxies, p.rules) /\ Apart(p.proxies, p.vpns)
  /\ Apart(p.chains, p.rules) /\ Apart(p.chains, p.vpns) /\ Apart(p.rules, p.vpns)

Sound(p, m) == Typed(p, m) /\ IdsAreOwn(p) /\ RefsAreMeant(p)

\* A file is sound whose next_id, or an identifier of its proxies, rules and chains,
\* bounds all the others, those of its tunnels and dangling references included.
FileIsSound(f) ==
  \E n \in {f.next - 1} \cup IdsIn(f.proxies) \cup IdsIn(f.rules) \cup IdsIn(f.chains) :
    /\ f.next \in 0..n + 1 /\ Len(f.proxies) + Len(f.chains) \in Nat
    /\ Sound([f EXCEPT !.chains = [c \in DOMAIN @ |-> Cropped(@[c])], !.next = n + 1],
             Len(f.proxies) + Len(f.chains))

(***************************************************************************)
(* Types: every identifier in use or referred to is below next_id, and no  *)
(* chain outgrows its array (pmx_chain_add_hop, pmx_profile_from_json).    *)
(***************************************************************************)
ProfileTypeOK ==
  /\ made \in Nat /\ edits \in 0..MaxEdits
  /\ Typed(pf, made)

(***************************************************************************)
(* No identifier names two objects, of one kind or of two, whatever is     *)
(* added, removed, saved and reloaded: lookups take the first match, and   *)
(* the panels key selections, deletions and check results by identifier.   *)
(***************************************************************************)
IdsNeverCollide ==
  LET lists == <<pf.proxies, pf.chains, pf.rules, pf.vpns>>
  IN  \A a, b \in DOMAIN lists : \A i \in DOMAIN lists[a], j \in DOMAIN lists[b] :
        lists[a][i].id = lists[b][j].id => a = b /\ i = j

(***************************************************************************)
(* A proxying rule, the default one included, leads to the very proxy or   *)
(* chain it was pointed at, and through a sequential chain by every hop in *)
(* order, or it leads nowhere ("all or nothing -- never under-proxy",      *)
(* pmx_engine.c): no removal, new object, reload or change of kind makes a *)
(* stale reference come to life as something else.                         *)
(***************************************************************************)
RoutesAreMeant ==
  \A r \in Range(pf.rules) \cup {pf.default} : r.action = "proxy" =>
    \A path \in Via(pf, r) :
      \/ r.kind = "proxy" /\ path = <<r.meant>>
      \/ /\ r.kind = "chain"
         /\ \E c \in Range(pf.chains) :
              /\ c.who = r.meant
              /\ LET meant == [h \in DOMAIN c.hops |-> c.hops[h].who]
                 IN  IF c.mode = "sequential" THEN path = meant ELSE path = <<meant[1]>>

(***************************************************************************)
(* Deleting a proxy or a chain changes no verdict, and each connection     *)
(* keeps its route or becomes un-routable, which fails closed; only where  *)
(* it goes by a redundancy chain may it move to another hop                *)
(* (pmx_profile_remove_proxy).                                             *)
(***************************************************************************)
ByAlternatives(p, q) ==
  /\ Chosen(p, q).kind = "chain"
  /\ \E c \in Find(p.chains, Chosen(p, q).target) : c.mode = "redundancy"

RemovalsNeverReroute ==
  [][(\E id \in IdsIn(pf.proxies) : RemoveProxy(id)) \/ (\E id \in IdsIn(pf.chains) : RemoveChain(id))
     => \A q \in Queries :
          /\ Decide(pf', q).verdict = Decide(pf, q).verdict
          /\ Decide(pf', q).via \subseteq Decide(pf, q).via \/ ByAlternatives(pf, q)]_profileVars

(***************************************************************************)
(* What the code's comments promise and the code does not do.              *)
(*                                                                         *)
(* A rule just added "behaves like the default rule" until it is edited    *)
(* (pmx_rule_init).                                                        *)
(***************************************************************************)
NewRulesAreInert == [][AddRule => \A q \in Queries : Decide(pf', q) = Decide(pf, q)]_profileVars

(***************************************************************************)
(* The editor never shows a target picked while the engine resolves the    *)
(* rule to nothing (rule_editor): once drawn, a proxying rule with         *)
(* candidates points at one of them.                                       *)
(***************************************************************************)
ShownTargetIsReal ==
  [][\A i \in DOMAIN pf.rules : EditRule(i) =>
       LET r == pf.rules[i]'
       IN  r.action = "proxy" /\ Candidates(r) # <<>> => IndexOf(Candidates(r), r.target) # {}]_profileVars

(***************************************************************************)
(* A redundancy chain "currently behaves like a one-hop chain"             *)
(* (pmx_chain.h): its first hop being usable, it leads there.              *)
(***************************************************************************)
RedundancyIsOneHop ==
  \A c \in Range(pf.chains) :
    c.enabled /\ c.mode = "redundancy" /\ c.hops # <<>> /\ Usable(pf, c.hops[1].id) # {}
      => Path(pf, c) # {}
=============================================================================
