------------------------------- MODULE Rules -------------------------------
(***************************************************************************)
(* Matching a flow against the patterns of a rule (pmx_rule.c): the globs  *)
(* of an application or host list, and the ports of a port specification.  *)
(* A list is the sequence of its segments, already trimmed and cut at the  *)
(* ";"; a pattern is a sequence of "*", "?" and letters; a specification   *)
(* is a sequence of numbers and separators.                                *)
(***************************************************************************)
EXTENDS Integers, Sequences, FiniteSets

CONSTANTS
  Lists,    \* pattern lists
  Texts,    \* names, paths and addresses to match
  Specs,    \* port specifications
  Ports,    \* ports to match
  Lower,    \* tolower
  Value,    \* the numbers a specification is written with, and what they are
  None

\* What a specification is written with besides numbers; "other" is any other character.
Marks == {"space", "comma", "dash", "plus", "other"}

ASSUME RulesAssumption ==
  /\ Lists \subseteq Seq(Seq(DOMAIN Lower)) /\ Texts \subseteq Seq(DOMAIN Lower)
  /\ Specs \subseteq Seq(DOMAIN Value \cup Marks) /\ Ports \subseteq Int
  /\ DOMAIN Value \cap (Marks \cup {"end"}) = {} /\ \A c \in DOMAIN Value : Value[c] \in Nat
  /\ None \notin Lists /\ None \notin Specs /\ None \notin Int

VARIABLES
  list, text,     \* a list and what it is matched against, or None
  segment,        \* segment of the list that is being matched
  p, t,           \* positions in the segment and the text, from 1
  starP, starT,   \* the last "*" seen, and how far it reaches
  spec, port,     \* a specification and a port, or None
  verdict         \* the answer, or None

globVars  == <<list, text, segment, p, t, starP, starT>>
portVars  == <<spec, port>>
rulesVars == <<globVars, portVars, verdict>>

MatchInit ==
  /\ segment = 1 /\ p = 1 /\ t = 1 /\ starP = None /\ starT = None /\ verdict = None
  /\ \/ list \in Lists /\ text \in Texts /\ spec = None /\ port = None
     \/ list = None /\ text = None /\ spec \in Specs /\ port \in Ports

Says(answer) == verdict' = answer /\ UNCHANGED globVars

-----------------------------------------------------------------------------
(* Globs: pmx_glob_match and pmx_glob_list_match, without regard to case.  *)

Globbing    == list # None /\ verdict = None
Pattern     == list[segment]
Same(a, b)  == Lower[a] = Lower[b]

\* The next segment is tried when this one does not match; a blank one is passed over.
NextSegment ==
  IF segment = Len(list) THEN Says(FALSE)
  ELSE /\ segment' = segment + 1 /\ p' = 1 /\ t' = 1 /\ starP' = None /\ starT' = None
       /\ UNCHANGED <<list, text, verdict>>

AnyMatches  == Globbing /\ list = <<>> /\ Says(TRUE)
SkipsBlank  == Globbing /\ list # <<>> /\ Pattern = <<>> /\ NextSegment
Looping     == Globbing /\ list # <<>> /\ Pattern # <<>>
InText      == Looping /\ t <= Len(text)
At(c)       == p <= Len(Pattern) /\ Pattern[p] = c
Fits        == p <= Len(Pattern) /\ Pattern[p] # "*" /\ (Pattern[p] = "?" \/ Same(Pattern[p], text[t]))

\* The place to come back to is the last star.
Star_First == IF starP = None THEN p ELSE starP
Star == p

SeesStar ==
  /\ InText /\ At("*")
  /\ starP' = Star /\ starT' = t /\ p' = p + 1
  /\ UNCHANGED <<list, text, segment, t, verdict>>

StepsOn ==
  /\ InText /\ Fits
  /\ p' = p + 1 /\ t' = t + 1
  /\ UNCHANGED <<list, text, segment, starP, starT, verdict>>

Backtracks ==
  /\ InText /\ ~At("*") /\ ~Fits
  /\ IF starP = None THEN NextSegment
     ELSE p' = starP + 1 /\ starT' = starT + 1 /\ t' = starT'
          /\ UNCHANGED <<list, text, segment, starP, verdict>>

\* At the end of the text only stars may be left of the pattern.
EndsText ==
  /\ Looping /\ t > Len(text)
  /\ IF \A i \in p..Len(Pattern) : Pattern[i] = "*" THEN Says(TRUE) ELSE NextSegment

GlobStep == AnyMatches \/ SkipsBlank \/ SeesStar \/ StepsOn \/ Backtracks \/ EndsText

\* What one element of a pattern makes of the positions reached before it.
Onward(c, x, from) ==
  IF c = "*" THEN {k \in 0..Len(x) : \E j \in from : j <= k}
  ELSE {k \in 1..Len(x) : k - 1 \in from /\ (c = "?" \/ Same(c, x[k]))}

\* What a pattern means: the text positions it can reach, one element after the other.
Reach(pattern, x) ==
  LET r[i \in 0..Len(pattern)] == IF i = 0 THEN {0} ELSE Onward(pattern[i], x, r[i - 1])
  IN r[Len(pattern)]

-----------------------------------------------------------------------------
(* Ports: pmx_port_spec_match and pmx_port_spec_validate.                  *)

At_(s, i)   == IF i <= Len(s) THEN s[i] ELSE "end"
Number(c)   == c \in DOMAIN Value

\* The first position from i that holds none of some characters.
Past(s, i, chars) == CHOOSE j \in i..(Len(s) + 1) : At_(s, j) \notin chars /\ \A k \in i..(j - 1) : s[k] \in chars

\* strtol: [value, end], end = i when there is no number.  A dash or a plus before digits is their sign.
StrToL(s, i) ==
  LET j == Past(s, i, {"space"}) IN
  IF Number(At_(s, j)) THEN [value |-> Value[s[j]], end |-> j + 1]
  ELSE IF At_(s, j) \in {"dash", "plus"} /\ Number(At_(s, j + 1))
    THEN [value |-> IF At_(s, j) = "plus" THEN Value[s[j + 1]] ELSE 0 - Value[s[j + 1]], end |-> j + 2]
  ELSE [value |-> 0, end |-> i]

\* Spaces around the dash of a range are passed over, in both functions.
Dash_Tight(s, i) == i
Dash(s, i) == Past(s, i, {"space"})

\* The range that begins at a number a, and the position after it.
RangeAfter(s, a) ==
  LET d == Dash(s, a.end) IN
  IF At_(s, d) # "dash" THEN [from |-> a.value, to |-> a.value, end |-> d]
  ELSE LET b == StrToL(s, d + 1) IN
       IF b.end = d + 1 THEN [from |-> a.value, to |-> a.value, end |-> Past(s, d + 1, {"space"})]
       ELSE IF a.value > b.value THEN [from |-> b.value, to |-> a.value, end |-> b.end]
       ELSE [from |-> a.value, to |-> b.value, end |-> b.end]

PortMatches(s, x) ==
  LET m[i \in 1..(Len(s) + 1)] ==
        LET j == Past(s, i, {"space", "comma"}) IN
        IF j > Len(s) THEN FALSE
        ELSE LET a == StrToL(s, j) IN
             IF a.end = j THEN m[j + 1]
             ELSE LET r == RangeAfter(s, a) IN x \in r.from..r.to \/ m[r.end]
  IN s = <<>> \/ m[1]

IsPort(n) == n \in 0..65535

Validates(s) ==
  LET v[i \in 1..(Len(s) + 1)] ==
        LET j == Past(s, i, {"space", "comma"}) IN
        IF j > Len(s) THEN TRUE
        ELSE LET a == StrToL(s, j)  d == Past(s, a.end, {"space"})  b == StrToL(s, d + 1)
                 e == Past(s, IF At_(s, d) = "dash" THEN b.end ELSE d, {"space"})
             IN /\ a.end # j /\ IsPort(a.value)
                /\ At_(s, d) = "dash" => b.end # d + 1 /\ IsPort(b.value)
                /\ At_(s, e) \in {"end", "comma"}
                /\ v[e]
  IN s = <<>> \/ (v[1] /\ \E i \in 1..Len(s) : Number(s[i]))

PortStep ==
  /\ spec # None /\ verdict = None
  /\ verdict' = PortMatches(spec, port) /\ UNCHANGED globVars

\* What a specification means: between two commas, a port or the two ends of a range.
Names(s, x) ==
  \E i, j \in 1..Len(s) :
    /\ i = 1 \/ s[i - 1] = "comma"
    /\ j = Len(s) \/ s[j + 1] = "comma"
    /\ \A k \in i..j : s[k] # "comma"
    /\ \E a, b \in {k \in i..j : Number(s[k])} : Value[s[a]] <= x /\ x <= Value[s[b]]

-----------------------------------------------------------------------------
MatchNext == (GlobStep \/ PortStep) /\ UNCHANGED portVars
MatchSpec == MatchInit /\ [][MatchNext]_rulesVars

\* A list matches a text exactly when the list is empty or one of its segments describes the text:
\* the matcher's return to the last star misses nothing and never matches too much (pmx_glob_match).
GlobsAreMeant ==
  list # None /\ verdict # None =>
    verdict = (list = <<>> \/ \E s \in 1..Len(list) : list[s] # <<>> /\ Len(text) \in Reach(list[s], text))

\* A specification that validates matches exactly the ports it names, however it is spaced: a Block
\* rule on a range lets nothing of it out (the comment of pmx_port_spec_match).
PortsAreMeant ==
  spec # None /\ verdict # None /\ spec # <<>> /\ Validates(spec) => verdict = Names(spec, port)

\* A rule matches what its two text fields mean, whatever they and the connection look like.
RulesMatchAsMeant == GlobsAreMeant /\ PortsAreMeant
=============================================================================
