---------------------------- MODULE TextProofs ----------------------------
(***************************************************************************)
(* What the program reads in a user's text is what the text means: the     *)
(* fields of a rule, for every alphabet, list, text, specification and     *)
(* port, and a VPN configuration, for every file of lines.                 *)
(*                                                                         *)
(* Globs.  What a pattern means is the table of the positions its elements *)
(* reach (Rows).  The matcher keeps one place to come back to, the last    *)
(* star, and how far it reaches, and forgets the stars before it.  The     *)
(* invariant (SearchInv) says why nothing is lost: the elements since that *)
(* star are laid on the text, and from every smaller reach of it the text  *)
(* cannot be matched, which shows before the next star (Dead, Attempt).    *)
(* At the next star the positions reached are then those from here on, the *)
(* least there is (LeastReached), so the earlier stars can be forgotten.   *)
(*                                                                         *)
(* Ports.  The validation and the match read the same entries.  An entry   *)
(* the validation accepts holds one number or two and no comma, and the    *)
(* match asks for the range between them (Entry); what follows it is       *)
(* smaller, so both read on to the end (MatchedFrom, MatchedAll).          *)
(*                                                                         *)
(* Configurations.  The parser of OpenVPN files skips exactly the lines in *)
(* an inline file (SkipInv): behind a line that is not hidden only that    *)
(* line can hide (HiddenNext), so the one tag it remembers is enough.      *)
(* What is gathered from the lines read is then what the client reads in   *)
(* them: the default port (DefaultInv), the section of a WireGuard file    *)
(* (SectionInv), the remotes in their order, as far as there is room       *)
(* (EndpointInv), and full tunnels and keys (SaidInv).                     *)
(*                                                                         *)
(* Induction over a text is by its first counterexample (FirstIndex).      *)
(***************************************************************************)
EXTENDS Rules, VpnConfig, FiniteSetTheorems, WellFoundedInduction, SequenceTheorems, TLAPS

-----------------------------------------------------------------------------
(* Induction.                                                              *)

\* There is a first of some indices: strict inclusion of finite sets is well-founded, and the sets
\* of indices up to a given one are ordered by it as the indices are.
LEMMA FirstIndex ==
  ASSUME NEW S \in SUBSET Int, IsFiniteSet(S), S # {}
  PROVE  \E x \in S : \A y \in S : x <= y
<1> DEFINE Upto(x) == {y \in S : y <= x}
           Parts   == {B \in SUBSET S : \E x \in S : B = Upto(x)}
<1>1. Parts \subseteq FiniteSubsetsOf(S) /\ Parts # {}
  <2>1. FiniteSubsetsOf(S) = SUBSET S
    BY FS_FiniteSubsetsOfFinite
  <2>2. PICK x \in S : TRUE
    OBVIOUS
  <2>3. Upto(x) \in Parts
    OBVIOUS
  <2> QED
    BY <2>1, <2>3
<1>2. PICK B \in Parts : \A C \in Parts : ~ (<<C, B>> \in StrictSubsetOrdering(S))
  <2> HIDE DEF Parts
  <2> QED
    BY <1>1, FS_StrictSubsetOrderingWellFounded, WFMin
<1>3. PICK x \in S : B = Upto(x)
  BY <1>2
<1>4. ASSUME NEW y \in S, ~(x <= y) PROVE FALSE
  <2>1. y < x /\ \A z \in S : z <= y => z <= x
    BY <1>4
  <2>2. x \in Upto(x) /\ x \notin Upto(y)
    BY <1>4
  <2>3. Upto(y) \in Parts /\ Upto(x) \in SUBSET S /\ Upto(y) \subseteq Upto(x)
    BY <2>1
  <2>4. <<Upto(y), Upto(x)>> \in StrictSubsetOrdering(S)
    <3> HIDE DEF Upto
    <3> QED
      BY <2>2, <2>3 DEF StrictSubsetOrdering
  <2> QED
    BY <1>2, <1>3, <2>3, <2>4
<1> QED
  BY <1>4

\* What holds of the first index, and of the next one when of one, holds of all.
LEMMA Induction ==
  ASSUME NEW a \in Int, NEW b \in Int, NEW S, a <= b => a \in S,
         \A i \in a..(b - 1) : i \in S => i + 1 \in S
  PROVE  a..b \subseteq S
<1> DEFINE T == {i \in a..b : i \notin S}
<1>1. SUFFICES ASSUME T # {} PROVE FALSE
  OBVIOUS
<1>2. T \in SUBSET Int /\ IsFiniteSet(T)
  <2>1. T \subseteq a..b /\ IsFiniteSet(a..b) /\ a..b \subseteq Int
    BY FS_Interval
  <2> HIDE DEF T
  <2> QED
    BY <2>1, FS_Subset
<1>3. PICK x \in T : \A y \in T : x <= y
  BY <1>1, <1>2, FirstIndex
<1>4. x \in a..b /\ x # a /\ x \notin S
  BY <1>3
<1>5. x - 1 \in a..(b - 1) /\ x - 1 \notin T /\ x - 1 + 1 = x
  BY <1>3, <1>4
<1>6. x - 1 \in S
  BY <1>5
<1> QED
  BY <1>4, <1>5, <1>6

-----------------------------------------------------------------------------
(* What a pattern reaches.                                                 *)

\* The positions reached after each element.
Rows(P, X) == CHOOSE r : r = [i \in 0..Len(P) |-> IF i = 0 THEN {0} ELSE Onward(P[i], X, r[i - 1])]

\* They are the rows of a table, each from the one before.
LEMMA RowsAre ==
  ASSUME NEW A, NEW P \in Seq(A), NEW X
  PROVE  /\ Rows(P, X)[0] = {0}
         /\ \A i \in 1..Len(P) : Rows(P, X)[i] = Onward(P[i], X, Rows(P, X)[i - 1])
         /\ Reach(P, X) = Rows(P, X)[Len(P)]
<1> DEFINE m == Len(P)
           Upto(n, r) == r = [i \in 0..n |-> IF i = 0 THEN {0} ELSE Onward(P[i], X, r[i - 1])]
           S == {n \in 0..m : \E r : Upto(n, r)}
<1>0. m \in Nat
  OBVIOUS
<1>1. 0 \in S
  <2>1. Upto(0, [i \in 0..0 |-> {0}]) /\ 0 \in 0..m
    BY <1>0
  <2> HIDE DEF Upto, m
  <2> QED
    BY <2>1
<1>2. ASSUME NEW n \in 0..(m - 1), n \in S PROVE n + 1 \in S
  <2>1. PICK r : Upto(n, r)
    BY <1>2
  <2> DEFINE q == [i \in 0..(n + 1) |-> IF i = n + 1 THEN Onward(P[n + 1], X, r[n]) ELSE r[i]]
  <2>2. \A i \in 0..n : q[i] = r[i]
    BY <1>0
  <2>3. \A i \in 0..n : r[i] = IF i = 0 THEN {0} ELSE Onward(P[i], X, r[i - 1])
    BY <2>1
  <2>4. \A i \in 0..(n + 1) : q[i] = IF i = 0 THEN {0} ELSE Onward(P[i], X, q[i - 1])
    <3>1. ASSUME NEW i \in 0..(n + 1) PROVE q[i] = IF i = 0 THEN {0} ELSE Onward(P[i], X, q[i - 1])
      <4>1. CASE i = n + 1
        <5>1. q[i] = Onward(P[i], X, r[n]) /\ n \in 0..n /\ i - 1 = n /\ i # 0
          BY <1>0, <4>1
        <5> HIDE DEF q
        <5> QED
          BY <5>1, <2>2
      <4>2. CASE i \in 0..n
        <5>1. i # 0 => i - 1 \in 0..n
          BY <4>2, <1>0
        <5> HIDE DEF q
        <5> QED
          BY <4>2, <5>1, <2>2, <2>3
      <4> QED
        BY <1>0, <4>1, <4>2
    <3> QED
      BY <3>1
  <2>5. Upto(n + 1, q)
    <3>1. q = [i \in 0..(n + 1) |-> q[i]]
      OBVIOUS
    <3> HIDE DEF q
    <3> QED
      BY <2>4, <3>1
  <2>6. n + 1 \in 0..m
    BY <1>0
  <2> HIDE DEF q, Upto
  <2> QED
    BY <2>5, <2>6
<1>3. 0..m \subseteq S
  <2> HIDE DEF S, m
  <2> QED
    BY <1>0, <1>1, <1>2, Induction
<1>4. m \in S
  BY <1>0, <1>3
<1>5. PICK r : Upto(m, r)
  BY <1>4
<1>6. Rows(P, X) = [i \in 0..m |-> IF i = 0 THEN {0} ELSE Onward(P[i], X, Rows(P, X)[i - 1])]
  BY <1>5 DEF Rows
<1>7. Reach(P, X) = Rows(P, X)[Len(P)]
  BY DEF Reach, Rows
<1>8. \A i \in 0..m : Rows(P, X)[i] = IF i = 0 THEN {0} ELSE Onward(P[i], X, Rows(P, X)[i - 1])
  BY <1>6
<1>9. 0 \in 0..m /\ \A i \in 1..m : i \in 0..m /\ i # 0
  BY <1>0
<1> QED
  BY <1>7, <1>8, <1>9

-----------------------------------------------------------------------------
(* Ways through a pattern.                                                 *)

\* An element that is no star takes the k-th character.
Fit(c, X, k) == k \in 1..Len(X) /\ (c = "?" \/ Same(c, X[k]))

\* The elements from i to j hold no star, or nothing else.
Starless(P, i, j) == \A q \in i..j : P[q] # "*"
Stars(P, i, j)    == \A q \in i..j : P[q] = "*"

\* The elements after s, up to j, laid on the text behind position k.
Laid(P, X, s, j, k) == \A q \in (s + 1)..j : Fit(P[q], X, k + (q - s))

\* One element: a star lets every later position be reached, another takes one character.
LEMMA OneRow ==
  ASSUME NEW A, NEW P \in Seq(A), NEW X \in Seq(A), NEW i \in 1..Len(P), NEW k
  PROVE  k \in Rows(P, X)[i] <=>
           IF P[i] = "*" THEN k \in 0..Len(X) /\ \E j \in Rows(P, X)[i - 1] : j <= k
           ELSE Fit(P[i], X, k) /\ k - 1 \in Rows(P, X)[i - 1]
<1>1. Rows(P, X)[i] = Onward(P[i], X, Rows(P, X)[i - 1])
  BY RowsAre
<1>2. CASE P[i] = "*"
  BY <1>1, <1>2 DEF Onward
<1>3. CASE P[i] # "*"
  BY <1>1, <1>3 DEF Onward, Fit
<1> QED
  BY <1>2, <1>3

\* The positions are positions of the text.
LEMMA RowsInText ==
  ASSUME NEW A, NEW P \in Seq(A), NEW X \in Seq(A), NEW i \in 0..Len(P)
  PROVE  Rows(P, X)[i] \subseteq 0..Len(X)
<1>0. Len(P) \in Nat /\ Len(X) \in Nat
  OBVIOUS
<1>1. CASE i = 0
  BY <1>0, <1>1, RowsAre
<1>2. CASE i # 0
  BY <1>0, <1>2, OneRow DEF Fit
<1> QED
  BY <1>1, <1>2

\* What is laid leads on.
LEMMA LaidLeads ==
  ASSUME NEW A, NEW P \in Seq(A), NEW X \in Seq(A), NEW i \in 0..Len(P), NEW j \in i..Len(P),
         NEW k \in Rows(P, X)[i], Starless(P, i + 1, j), Laid(P, X, i, j, k)
  PROVE  k + (j - i) \in Rows(P, X)[j]
<1> DEFINE S == {q \in i..j : k + (q - i) \in Rows(P, X)[q]}
<1>0. Len(P) \in Nat /\ k \in Int
  BY RowsInText
<1>1. i \in S
  BY <1>0
<1>2. ASSUME NEW q \in i..(j - 1), q \in S PROVE q + 1 \in S
  <2>1. q + 1 \in (i + 1)..j /\ q + 1 \in 1..Len(P) /\ q + 1 - 1 = q /\ (k + ((q + 1) - i)) - 1 = k + (q - i)
    BY <1>0
  <2>2. P[q + 1] # "*" /\ Fit(P[q + 1], X, k + ((q + 1) - i))
    BY <2>1 DEF Starless, Laid
  <2>3. k + ((q + 1) - i) \in Rows(P, X)[q + 1]
    BY <1>2, <2>1, <2>2, OneRow
  <2> QED
    BY <1>0, <2>1, <2>3
<1>3. i..j \subseteq S
  <2>1. i \in Int /\ j \in Int
    BY <1>0
  <2> HIDE DEF S
  <2> QED
    BY <1>1, <1>2, <2>1, Induction
<1> QED
  BY <1>0, <1>3

\* Stars lead on without taking anything.
LEMMA StarsLead ==
  ASSUME NEW A, NEW P \in Seq(A), NEW X \in Seq(A), NEW i \in 0..Len(P), NEW j \in i..Len(P),
         NEW k \in Rows(P, X)[i], Stars(P, i + 1, j)
  PROVE  k \in Rows(P, X)[j]
<1> DEFINE S == {q \in i..j : k \in Rows(P, X)[q]}
<1>0. Len(P) \in Nat /\ k \in 0..Len(X) /\ k <= k
  BY RowsInText
<1>1. i \in S
  BY <1>0
<1>2. ASSUME NEW q \in i..(j - 1), q \in S PROVE q + 1 \in S
  <2>1. q + 1 \in (i + 1)..j /\ q + 1 \in 1..Len(P) /\ q + 1 - 1 = q
    BY <1>0
  <2>2. P[q + 1] = "*"
    BY <2>1 DEF Stars
  <2>3. \E y \in Rows(P, X)[q + 1 - 1] : y <= k
    BY <1>0, <1>2, <2>1
  <2>4. k \in Rows(P, X)[q + 1] <=> k \in 0..Len(X) /\ \E y \in Rows(P, X)[q + 1 - 1] : y <= k
    <3> HIDE DEF S
    <3> QED
      BY <2>1, <2>2, OneRow
  <2>5. k \in Rows(P, X)[q + 1]
    BY <1>0, <2>3, <2>4
  <2> QED
    BY <1>0, <2>1, <2>5
<1>3. i..j \subseteq S
  <2>1. i \in Int /\ j \in Int
    BY <1>0
  <2> HIDE DEF S
  <2> QED
    BY <1>1, <1>2, <2>1, Induction
<1> QED
  BY <1>0, <1>3

\* A way to position k after element j that was at k0 after element i.
Way(P, X, i, j, k0, k) ==
  /\ k0 \in Rows(P, X)[i] /\ k0 <= k
  /\ ~Stars(P, i + 1, j) => k0 < k
  /\ Starless(P, i + 1, j) => k = k0 + (j - i) /\ Laid(P, X, i, j, k0)

\* Whatever is reached was reached by a way that passes every element before.
LEMMA WayBack ==
  ASSUME NEW A, NEW P \in Seq(A), NEW X \in Seq(A), NEW i \in 0..Len(P), NEW j \in i..Len(P),
         NEW k \in Rows(P, X)[j]
  PROVE  \E k0 \in Rows(P, X)[i] : Way(P, X, i, j, k0, k)
<1> DEFINE S == {q \in i..j : \A x \in Rows(P, X)[q] : \E k0 \in Rows(P, X)[i] : Way(P, X, i, q, k0, x)}
<1>0. /\ Len(P) \in Nat /\ Len(X) \in Nat
      /\ \A q \in i..j : q \in 0..Len(P) /\ Rows(P, X)[q] \subseteq Int
  BY RowsInText
<1>1. i \in S
  <2>1. ASSUME NEW x \in Rows(P, X)[i] PROVE Way(P, X, i, i, x, x)
    BY <1>0 DEF Way, Stars, Starless, Laid
  <2> QED
    BY <1>0, <2>1
<1>2. ASSUME NEW q \in i..(j - 1), q \in S PROVE q + 1 \in S
  <2>1. q + 1 \in (i + 1)..j /\ q + 1 \in i..j /\ q \in i..j /\ q + 1 \in 1..Len(P) /\ q + 1 - 1 = q
        /\ (i + 1)..(q + 1) = ((i + 1)..q) \cup {q + 1}
    BY <1>0
  <2>2. ASSUME NEW x \in Rows(P, X)[q + 1]
        PROVE  \E k0 \in Rows(P, X)[i] : Way(P, X, i, q + 1, k0, x)
    <3>1. CASE P[q + 1] = "*"
      <4>1. PICK y \in Rows(P, X)[q] : y <= x
        BY <2>1, <2>2, <3>1, OneRow
      <4>2. PICK k0 \in Rows(P, X)[i] : Way(P, X, i, q, k0, y)
        BY <1>2
      <4>3. k0 \in Int /\ y \in Int /\ x \in Int
        BY <1>0, <2>1
      <4>4. ~Starless(P, i + 1, q + 1) /\ (~Stars(P, i + 1, q + 1) => ~Stars(P, i + 1, q))
        BY <2>1, <3>1 DEF Starless, Stars
      <4>5. Way(P, X, i, q + 1, k0, x)
        BY <4>1, <4>2, <4>3, <4>4 DEF Way
      <4> QED
        BY <4>5
    <3>2. CASE P[q + 1] # "*"
      <4>1. x - 1 \in Rows(P, X)[q] /\ Fit(P[q + 1], X, x)
        BY <2>1, <2>2, <3>2, OneRow
      <4>2. PICK k0 \in Rows(P, X)[i] : Way(P, X, i, q, k0, x - 1)
        BY <1>2, <4>1
      <4>3. k0 \in Int /\ x \in Int
        BY <1>0, <2>1
      <4>4. k0 < x
        BY <4>2, <4>3 DEF Way
      <4>5. ASSUME Starless(P, i + 1, q + 1) PROVE x = k0 + ((q + 1) - i) /\ Laid(P, X, i, q + 1, k0)
        <5>1. Starless(P, i + 1, q)
          BY <2>1, <4>5 DEF Starless
        <5>2. x - 1 = k0 + (q - i) /\ Laid(P, X, i, q, k0)
          BY <4>2, <5>1 DEF Way
        <5>3. x = k0 + ((q + 1) - i)
          <6>1. q \in Int /\ i \in Int /\ x - 1 = k0 + (q - i)
            BY <1>0, <5>2
          <6> QED
            BY <4>3, <6>1
        <5> QED
          BY <2>1, <4>1, <5>2, <5>3 DEF Laid
      <4>6. Way(P, X, i, q + 1, k0, x)
        BY <4>3, <4>4, <4>5 DEF Way
      <4> QED
        BY <4>6
    <3> QED
      BY <3>1, <3>2
  <2> QED
    BY <2>1, <2>2
<1>3. i..j \subseteq S
  <2>1. i \in Int /\ j \in Int /\ i <= j
    BY <1>0
  <2> HIDE DEF S
  <2> QED
    BY <1>1, <1>2, <2>1, Induction
<1>4. j \in S
  BY <1>0, <1>3
<1> QED
  BY <1>4

-----------------------------------------------------------------------------
(* The search.                                                             *)

\* From position k after element s the text cannot be matched, which shows before the next star.
Dead(P, X, s, k) ==
  \/ \E q \in (s + 1)..Len(P) : Starless(P, s + 1, q) /\ ~Fit(P[q], X, k + (q - s))
  \/ Starless(P, s + 1, Len(P)) /\ k + (Len(P) - s) # Len(X)

\* The attempt from position k after element s has come to element e; those before were in vain.
Attempt(P, X, s, e, k) ==
  /\ s \in 0..Len(P) /\ e \in s..Len(P) /\ k \in Rows(P, X)[s]
  /\ Starless(P, s + 1, e) /\ Laid(P, X, s, e, k)
  /\ \A x \in Rows(P, X)[s] : x < k => Dead(P, X, s, x)

\* There is a first star, if there is one.
LEMMA FirstStar ==
  ASSUME NEW P, NEW a \in Int, NEW b \in Int, ~Starless(P, a, b)
  PROVE  \E u \in a..b : P[u] = "*" /\ Starless(P, a, u - 1)
<1> DEFINE T == {u \in a..b : P[u] = "*"}
<1>1. T \in SUBSET Int /\ IsFiniteSet(T) /\ T # {}
  <2>1. T \subseteq a..b /\ IsFiniteSet(a..b) /\ a..b \subseteq Int
    BY FS_Interval
  <2>2. T # {}
    BY DEF Starless
  <2> HIDE DEF T
  <2> QED
    BY <2>1, <2>2, FS_Subset
<1>2. PICK u \in T : \A y \in T : u <= y
  <2> HIDE DEF T
  <2> QED
    BY <1>1, FirstIndex
<1>3. \A q \in a..(u - 1) : q \in a..b /\ ~(u <= q)
  BY <1>2
<1>4. Starless(P, a, u - 1)
  BY <1>2, <1>3 DEF Starless
<1> QED
  BY <1>2, <1>4

\* A way without stars does not begin where everything is dead, whatever comes behind it.
LEMMA DeadEnds ==
  ASSUME NEW A, NEW P \in Seq(A), NEW X \in Seq(A), NEW s \in 0..Len(P), NEW e \in s..Len(P),
         NEW k0 \in Rows(P, X)[s], Laid(P, X, s, e, k0),
         e = Len(P) => k0 + (e - s) = Len(X),
         e < Len(P) => P[e + 1] = "*"
  PROVE  ~Dead(P, X, s, k0)
<1>0. Len(P) \in Nat /\ s \in Int /\ e \in Int
  OBVIOUS
<1>1. ASSUME NEW q \in (s + 1)..Len(P), Starless(P, s + 1, q), ~Fit(P[q], X, k0 + (q - s))
      PROVE  FALSE
  <2>1. CASE q \in (s + 1)..e
    BY <1>1, <2>1 DEF Laid
  <2>2. CASE q > e
    <3>1. e + 1 \in (s + 1)..q /\ e < Len(P)
      BY <1>0, <2>2
    <3> QED
      BY <1>1, <3>1 DEF Starless
  <2> QED
    BY <1>0, <2>1, <2>2
<1>2. ASSUME Starless(P, s + 1, Len(P)), k0 + (Len(P) - s) # Len(X)
      PROVE  FALSE
  <2>1. e < Len(P) /\ e + 1 \in (s + 1)..Len(P)
    BY <1>0, <1>2
  <2> QED
    BY <1>2, <2>1 DEF Starless
<1> QED
  BY <1>1, <1>2 DEF Dead

\* When everything is dead there is no match.
LEMMA AllDead ==
  ASSUME NEW A, NEW P \in Seq(A), NEW X \in Seq(A), NEW s \in 0..Len(P),
         \A x \in Rows(P, X)[s] : Dead(P, X, s, x)
  PROVE  Len(X) \notin Rows(P, X)[Len(P)]
<1> SUFFICES ASSUME Len(X) \in Rows(P, X)[Len(P)] PROVE FALSE
  OBVIOUS
<1>0. Len(P) \in Nat /\ s \in Int /\ s + 1 \in Int /\ Len(P) \in Int /\ Len(P) \in s..Len(P)
  OBVIOUS
<1>1. CASE Starless(P, s + 1, Len(P))
  <2>1. PICK k0 \in Rows(P, X)[s] : Way(P, X, s, Len(P), k0, Len(X))
    BY <1>0, WayBack
  <2>2. Len(X) = k0 + (Len(P) - s) /\ Laid(P, X, s, Len(P), k0)
    BY <1>1, <2>1 DEF Way
  <2>3. ~Dead(P, X, s, k0)
    BY <1>0, <2>2, DeadEnds
  <2> QED
    BY <2>3
<1>2. CASE ~Starless(P, s + 1, Len(P))
  <2>1. PICK u \in (s + 1)..Len(P) : P[u] = "*" /\ Starless(P, s + 1, u - 1)
    BY <1>0, <1>2, FirstStar
  <2>2. u - 1 \in s..Len(P) /\ u - 1 \in 0..Len(P) /\ Len(P) \in (u - 1)..Len(P) /\ u - 1 < Len(P) /\ u - 1 + 1 = u
        /\ u - 1 # Len(P)
    BY <1>0, <2>1
  <2>3. PICK k1 \in Rows(P, X)[u - 1] : Way(P, X, u - 1, Len(P), k1, Len(X))
    BY <2>2, WayBack
  <2>4. PICK k0 \in Rows(P, X)[s] : Way(P, X, s, u - 1, k0, k1)
    BY <2>2, WayBack
  <2>5. Laid(P, X, s, u - 1, k0)
    BY <2>1, <2>4 DEF Way
  <2>6. ~Dead(P, X, s, k0)
    BY <2>1, <2>2, <2>5, DeadEnds
  <2> QED
    BY <2>6
<1> QED
  BY <1>1, <1>2

\* What is reached in front of a star was reached by the attempt or by a later one.
LEMMA LeastReached ==
  ASSUME NEW A, NEW P \in Seq(A), NEW X \in Seq(A), NEW s, NEW e, NEW k, Attempt(P, X, s, e, k),
         e < Len(P), P[e + 1] = "*", NEW y \in Rows(P, X)[e]
  PROVE  y >= k + (e - s)
<1>0. /\ Len(P) \in Nat /\ s \in 0..Len(P) /\ e \in s..Len(P) /\ e \in 0..Len(P) /\ e # Len(P)
      /\ Rows(P, X)[s] \subseteq Int /\ k \in Rows(P, X)[s] /\ s \in Int /\ e \in Int
  BY RowsInText DEF Attempt
<1>1. PICK k0 \in Rows(P, X)[s] : Way(P, X, s, e, k0, y)
  BY <1>0, WayBack
<1>2. y = k0 + (e - s) /\ Laid(P, X, s, e, k0)
  BY <1>1 DEF Way, Attempt
<1>3. ~Dead(P, X, s, k0)
  BY <1>0, <1>2, DeadEnds
<1>4. ~(k0 < k)
  BY <1>3 DEF Attempt
<1>5. k0 \in Int /\ k \in Int
  BY <1>0
<1> QED
  BY <1>0, <1>2, <1>4, <1>5

\* At a star the search begins anew behind it.
LEMMA StarTaken ==
  ASSUME NEW A, NEW P \in Seq(A), NEW X \in Seq(A), NEW s, NEW e, NEW k, Attempt(P, X, s, e, k),
         e < Len(P), P[e + 1] = "*"
  PROVE  Attempt(P, X, e + 1, e + 1, k + (e - s))
<1> DEFINE t1 == k + (e - s)
<1>0. /\ Len(P) \in Nat /\ s \in 0..Len(P) /\ e \in s..Len(P) /\ e \in 0..Len(P) /\ e + 1 \in 1..Len(P)
      /\ e + 1 \in 0..Len(P) /\ e + 1 \in (e + 1)..Len(P) /\ e + 1 - 1 = e
      /\ Rows(P, X)[s] \subseteq Int /\ k \in Rows(P, X)[s] /\ s \in Int /\ e \in Int
  BY RowsInText DEF Attempt
<1>1. t1 \in Rows(P, X)[e]
  BY <1>0, LaidLeads DEF Attempt
<1>2. t1 \in 0..Len(X) /\ t1 <= t1
  BY <1>0, <1>1, RowsInText
<1>3. t1 \in Rows(P, X)[e + 1]
  BY <1>0, <1>1, <1>2, OneRow
<1>4. ASSUME NEW x \in Rows(P, X)[e + 1] PROVE ~(x < t1)
  <2>1. PICK y \in Rows(P, X)[e] : y <= x /\ x \in 0..Len(X)
    BY <1>0, OneRow
  <2>2. y >= t1
    BY LeastReached
  <2>3. y \in Int /\ x \in Int
    BY <1>0, <2>1, RowsInText
  <2> QED
    BY <1>2, <2>1, <2>2, <2>3
<1>5. Starless(P, e + 1 + 1, e + 1) /\ Laid(P, X, e + 1, e + 1, t1)
  BY <1>0 DEF Starless, Laid
<1> QED
  BY <1>0, <1>3, <1>4, <1>5 DEF Attempt

\* An element that fits takes the attempt further.
LEMMA ElementTaken ==
  ASSUME NEW A, NEW P \in Seq(A), NEW X \in Seq(A), NEW s, NEW e, NEW k, Attempt(P, X, s, e, k),
         e < Len(P), P[e + 1] # "*", Fit(P[e + 1], X, k + ((e + 1) - s))
  PROVE  Attempt(P, X, s, e + 1, k)
<1>1. /\ e \in s..Len(P) /\ s \in Int /\ e \in Int /\ e + 1 \in s..Len(P)
      /\ (s + 1)..(e + 1) = ((s + 1)..e) \cup {e + 1}
  BY DEF Attempt
<1>2. Starless(P, s + 1, e + 1)
  BY <1>1 DEF Attempt, Starless
<1>3. Laid(P, X, s, e + 1, k)
  BY <1>1 DEF Attempt, Laid
<1> QED
  BY <1>1, <1>2, <1>3 DEF Attempt

\* One that does not, or text left behind the last one, ends it.
LEMMA AttemptDies ==
  ASSUME NEW A, NEW P \in Seq(A), NEW X \in Seq(A), NEW s, NEW e, NEW k, Attempt(P, X, s, e, k),
         \/ e = Len(P) /\ k + (e - s) # Len(X)
         \/ e < Len(P) /\ P[e + 1] # "*" /\ ~Fit(P[e + 1], X, k + ((e + 1) - s))
  PROVE  Dead(P, X, s, k)
<1>1. Len(P) \in Nat /\ e \in s..Len(P) /\ s \in Int /\ e \in Int
  BY DEF Attempt
<1>2. CASE e = Len(P) /\ k + (e - s) # Len(X)
  BY <1>2 DEF Dead, Attempt
<1>3. CASE e < Len(P) /\ P[e + 1] # "*" /\ ~Fit(P[e + 1], X, k + ((e + 1) - s))
  <2>1. e + 1 \in (s + 1)..Len(P) /\ (s + 1)..(e + 1) = ((s + 1)..e) \cup {e + 1}
    BY <1>1, <1>3
  <2>2. Starless(P, s + 1, e + 1)
    BY <1>3, <2>1 DEF Attempt, Starless
  <2>3. \E q \in (s + 1)..Len(P) : Starless(P, s + 1, q) /\ ~Fit(P[q], X, k + (q - s))
    BY <1>3, <2>1, <2>2, Zenon
  <2> QED
    BY <2>3 DEF Dead
<1> QED
  BY <1>2, <1>3

\* The next attempt lets the star take one character more.
LEMMA NextAttempt ==
  ASSUME NEW A, NEW P \in Seq(A), NEW X \in Seq(A), NEW s, NEW e, NEW k, Attempt(P, X, s, e, k),
         s >= 1, P[s] = "*", k < Len(X), Dead(P, X, s, k)
  PROVE  Attempt(P, X, s, s, k + 1)
<1>1. /\ Len(P) \in Nat /\ s \in 1..Len(P) /\ s \in 0..Len(P) /\ k \in Rows(P, X)[s] /\ Len(X) \in Nat
      /\ s \in s..Len(P)
  BY DEF Attempt
<1>2. Rows(P, X)[s] \subseteq 0..Len(X)
  BY <1>1, RowsInText
<1>3. k \in 0..Len(X) /\ k + 1 \in 0..Len(X)
  BY <1>1, <1>2
<1>4. PICK y \in Rows(P, X)[s - 1] : y <= k
  BY <1>1, OneRow
<1>5. y \in Int
  <2>1. s - 1 \in 0..Len(P)
    BY <1>1
  <2> QED
    BY <2>1, RowsInText
<1>6. y <= k + 1
  BY <1>3, <1>4, <1>5
<1>7. k + 1 \in Rows(P, X)[s]
  BY <1>1, <1>3, <1>6, OneRow
<1>8. ASSUME NEW x \in Rows(P, X)[s], x < k + 1 PROVE Dead(P, X, s, x)
  <2>1. x < k \/ x = k
    BY <1>2, <1>3, <1>8
  <2> QED
    BY <2>1 DEF Attempt
<1>9. Starless(P, s + 1, s) /\ Laid(P, X, s, s, k + 1)
  BY <1>1 DEF Starless, Laid
<1> QED
  BY <1>1, <1>7, <1>8, <1>9 DEF Attempt

\* Without a star there is no next one.
LEMMA OnlyAttempt ==
  ASSUME NEW A, NEW P \in Seq(A), NEW X \in Seq(A), NEW e, NEW k, Attempt(P, X, 0, e, k), Dead(P, X, 0, k)
  PROVE  Len(X) \notin Rows(P, X)[Len(P)]
<1>1. Rows(P, X)[0] = {0} /\ k = 0 /\ 0 \in 0..Len(P)
  BY RowsAre DEF Attempt
<1> QED
  BY <1>1, AllDead

\* At the end of the text the rest of the pattern decides: stars match nothing too.
LEMMA TextEnds ==
  ASSUME NEW A, NEW P \in Seq(A), NEW X \in Seq(A), NEW s, NEW e, NEW k, Attempt(P, X, s, e, k),
         k + (e - s) = Len(X)
  PROVE  Len(X) \in Rows(P, X)[Len(P)] <=> Stars(P, e + 1, Len(P))
<1>0. /\ Len(P) \in Nat /\ s \in 0..Len(P) /\ e \in s..Len(P) /\ e \in 0..Len(P)
      /\ Len(P) \in e..Len(P)
      /\ Rows(P, X)[s] \subseteq Int /\ k \in Rows(P, X)[s] /\ s \in Int /\ e \in Int /\ Len(X) \in Nat /\ k \in Int
  BY RowsInText DEF Attempt
<1>1. ASSUME Stars(P, e + 1, Len(P)) PROVE Len(X) \in Rows(P, X)[Len(P)]
  <2>1. k + (e - s) \in Rows(P, X)[e]
    BY <1>0, LaidLeads DEF Attempt
  <2> QED
    BY <1>0, <1>1, <2>1, StarsLead
<1>2. ASSUME ~Stars(P, e + 1, Len(P)) PROVE Len(X) \notin Rows(P, X)[Len(P)]
  <2>1. e < Len(P) /\ e + 1 \in (s + 1)..Len(P)
    BY <1>0, <1>2 DEF Stars
  <2>2. CASE P[e + 1] = "*"
    <3>1. ASSUME Len(X) \in Rows(P, X)[Len(P)] PROVE FALSE
      <4>1. PICK y \in Rows(P, X)[e] : Way(P, X, e, Len(P), y, Len(X))
        BY <1>0, <3>1, WayBack
      <4>2. y < Len(X) /\ y \in Int
        BY <1>0, <1>2, <4>1, RowsInText DEF Way
      <4>3. y >= k + (e - s)
        BY <2>1, <2>2, LeastReached
      <4> QED
        BY <4>2, <4>3
    <3> QED
      BY <3>1
  <2>3. CASE P[e + 1] # "*"
    <3>1. (s + 1)..(e + 1) = ((s + 1)..e) \cup {e + 1}
      BY <1>0, <2>1
    <3>2. Starless(P, s + 1, e + 1)
      BY <2>3, <3>1 DEF Attempt, Starless
    <3>3. ASSUME NEW x \in Rows(P, X)[s] PROVE Dead(P, X, s, x)
      <4>1. CASE x < k
        BY <4>1 DEF Attempt
      <4>2. CASE ~(x < k)
        <5>1. x + ((e + 1) - s) > Len(X)
          BY <1>0, <4>2
        <5>2. ~Fit(P[e + 1], X, x + ((e + 1) - s))
          BY <1>0, <5>1 DEF Fit
        <5>3. \E q \in (s + 1)..Len(P) : Starless(P, s + 1, q) /\ ~Fit(P[q], X, x + (q - s))
          BY <2>1, <3>2, <5>2, Zenon
        <5> QED
          BY <5>3 DEF Dead
      <4> QED
        BY <4>1, <4>2
    <3> QED
      BY <1>0, <3>3, AllDead
  <2> QED
    BY <2>2, <2>3
<1> QED
  BY <1>1, <1>2

-----------------------------------------------------------------------------
(* The matcher.                                                            *)

\* The element behind which the attempt began, and where.
From  == IF starP = None THEN 0 ELSE starP
Start == IF starP = None THEN 0 ELSE starT - 1

\* The attempt under way has taken the pattern up to p and the text up to t.
SearchInv ==
  /\ p \in Int /\ t \in Int /\ t <= Len(text) + 1
  /\ Attempt(list[segment], text, From, p - 1, Start)
  /\ t - 1 = Start + ((p - 1) - From)
  /\ starP # None => starT \in Int /\ starP >= 1 /\ list[segment][starP] = "*"

\* What a segment describes.
Describes(s) == list[s] # <<>> /\ Len(text) \in Reach(list[s], text)

GlobInv ==
  /\ list # None => list \in Lists /\ text \in Texts /\ spec = None
  /\ Globbing /\ list # <<>> =>
       /\ segment \in 1..Len(list) /\ SearchInv
       /\ \A s \in 1..(segment - 1) : ~Describes(s)
  /\ GlobsAreMeant

\* A segment is tried from its beginning and the text's.
LEMMA SegmentBegins ==
  ASSUME NEW A, NEW P \in Seq(A), NEW X \in Seq(A)
  PROVE  Attempt(P, X, 0, 0, 0)
<1>1. Len(P) \in Nat /\ Rows(P, X)[0] = {0}
  BY RowsAre
<1> QED
  BY <1>1 DEF Attempt, Starless, Laid

\* What is in a pattern and a text.
LEMMA GlobTypes ==
  ASSUME GlobInv, Globbing, list # <<>>
  PROVE  /\ list \in Seq(Seq(DOMAIN Lower)) /\ Len(list) \in Nat /\ segment \in 1..Len(list)
         /\ Pattern \in Seq(DOMAIN Lower) /\ text \in Seq(DOMAIN Lower)
         /\ Len(Pattern) \in Nat /\ Len(text) \in Nat
         /\ Reach(Pattern, text) = Rows(Pattern, text)[Len(Pattern)]
<1>1. /\ list \in Seq(Seq(DOMAIN Lower)) /\ Len(list) \in Nat /\ segment \in 1..Len(list)
      /\ text \in Seq(DOMAIN Lower)
  BY RulesAssumption DEF GlobInv, Globbing
<1>2. Pattern \in Seq(DOMAIN Lower)
  BY <1>1 DEF Pattern
<1> QED
  BY <1>1, <1>2, RowsAre

\* A segment that does not describe the text is passed by.
LEMMA SegmentFails ==
  ASSUME GlobInv, Globbing, list # <<>>, ~Describes(segment), NextSegment, UNCHANGED portVars
  PROVE  GlobInv'
<1>0. list \in Seq(Seq(DOMAIN Lower)) /\ text \in Seq(DOMAIN Lower) /\ Len(list) \in Nat /\ segment \in 1..Len(list)
  BY GlobTypes
<1>1. CASE segment = Len(list)
  <2>1. UNCHANGED <<list, text, segment, p, t, starP, starT, spec>> /\ verdict' = FALSE
    BY <1>1 DEF NextSegment, Says, globVars, portVars
  <2>2. \A s \in 1..Len(list) : ~Describes(s)
    BY <1>0, <1>1 DEF GlobInv
  <2>3. GlobsAreMeant'
    BY <2>1, <2>2 DEF GlobsAreMeant, Describes
  <2>4. SearchInv' = SearchInv /\ \A s : Describes(s)' = Describes(s)
    BY <2>1 DEF SearchInv, From, Start, Describes
  <2> QED
    BY <2>1, <2>3, <2>4 DEF GlobInv, Globbing
<1>2. CASE segment # Len(list)
  <2>1. /\ UNCHANGED <<list, text, verdict, spec>>
        /\ segment' = segment + 1 /\ p' = 1 /\ t' = 1 /\ starP' = None /\ starT' = None
    BY <1>2 DEF NextSegment, portVars
  <2>2. segment' \in 1..Len(list) /\ list[segment'] \in Seq(DOMAIN Lower)
    BY <1>0, <1>2, <2>1
  <2>3. Attempt(list[segment'], text, 0, 0, 0)
    BY <1>0, <2>2, SegmentBegins
  <2>4. Attempt(list'[segment'], text', 0, 0, 0)
    BY <2>1, <2>3
  <2>5. From' = 0 /\ Start' = 0 /\ p' - 1 = 0 /\ t' - 1 = 0 /\ t' <= Len(text') + 1
    BY <1>0, <2>1 DEF From, Start
  <2>6. SearchInv'
    BY <2>1, <2>4, <2>5 DEF SearchInv
  <2>7. \A s \in 1..(segment' - 1) : ~Describes(s)'
    <3>1. \A s \in 1..(segment' - 1) : s \in 1..(segment - 1) \/ s = segment
      BY <1>0, <2>1
    <3>2. \A s : Describes(s)' = Describes(s)
      BY <2>1 DEF Describes
    <3> QED
      BY <3>1, <3>2 DEF GlobInv
  <2>8. GlobsAreMeant'
    BY <2>1 DEF GlobInv, GlobsAreMeant
  <2> QED
    BY <2>1, <2>2, <2>6, <2>7, <2>8 DEF GlobInv
<1> QED
  BY <1>1, <1>2

\* One that does is the answer.
LEMMA SegmentMatches ==
  ASSUME GlobInv, Globbing, list # <<>>, Describes(segment), Says(TRUE), UNCHANGED portVars
  PROVE  GlobInv'
<1>1. UNCHANGED <<list, text, segment, p, t, starP, starT, spec>> /\ verdict' = TRUE
  BY DEF Says, globVars, portVars
<1>2. segment \in 1..Len(list)
  BY GlobTypes
<1>3. GlobsAreMeant'
  BY <1>1, <1>2 DEF GlobsAreMeant, Describes
<1>4. SearchInv' = SearchInv /\ \A s : Describes(s)' = Describes(s)
  BY <1>1 DEF SearchInv, From, Start, Describes
<1> QED
  BY <1>1, <1>3, <1>4 DEF GlobInv, Globbing

\* A step of the loop in a segment stays in it.
LEMMA SearchGoesOn ==
  ASSUME GlobInv, Globbing, list # <<>>, UNCHANGED <<list, text, segment, verdict, spec>>, SearchInv'
  PROVE  GlobInv'
<1>1. GlobsAreMeant' /\ \A s : Describes(s)' = Describes(s)
  BY DEF GlobInv, GlobsAreMeant, Describes
<1> QED
  BY <1>1 DEF GlobInv, Globbing

\* A star.
LEMMA SeesStarKeeps ==
  ASSUME GlobInv, SeesStar, UNCHANGED portVars
  PROVE  GlobInv'
<1>1. /\ Globbing /\ list # <<>> /\ UNCHANGED <<list, text, segment, t, verdict, spec>>
      /\ starP' = p /\ starT' = t /\ p' = p + 1 /\ t <= Len(text)
      /\ p <= Len(Pattern) /\ Pattern[p] = "*"
  BY DEF SeesStar, InText, Looping, At, Star, portVars
<1>2. /\ p \in Int /\ t \in Int /\ Attempt(Pattern, text, From, p - 1, Start)
      /\ t - 1 = Start + ((p - 1) - From) /\ SearchInv
  BY <1>1 DEF GlobInv, SearchInv, Pattern
<1>3. Pattern \in Seq(DOMAIN Lower) /\ text \in Seq(DOMAIN Lower) /\ Len(text) \in Nat /\ Len(Pattern) \in Nat
  BY <1>1, GlobTypes
<1>4. p - 1 + 1 = p /\ p - 1 < Len(Pattern)
  BY <1>1, <1>2, <1>3
<1>5. Attempt(Pattern, text, p, p, t - 1)
  BY <1>1, <1>2, <1>3, <1>4, StarTaken
<1>6. p >= 1
  BY <1>2, <1>3 DEF Attempt
<1>7. From' = p /\ Start' = t - 1 /\ p' - 1 = p
  BY <1>1, <1>2, RulesAssumption DEF From, Start
<1>8. SearchInv'
  BY <1>1, <1>2, <1>5, <1>6, <1>7 DEF SearchInv, Pattern
<1> QED
  BY <1>1, <1>8, SearchGoesOn

\* An element that takes a character.
LEMMA StepsOnKeeps ==
  ASSUME GlobInv, StepsOn, UNCHANGED portVars
  PROVE  GlobInv'
<1>1. /\ Globbing /\ list # <<>> /\ UNCHANGED <<list, text, segment, starP, starT, verdict, spec>>
      /\ p' = p + 1 /\ t' = t + 1 /\ t <= Len(text)
      /\ p <= Len(Pattern) /\ Pattern[p] # "*" /\ (Pattern[p] = "?" \/ Same(Pattern[p], text[t]))
  BY DEF StepsOn, InText, Looping, Fits, portVars
<1>2. /\ p \in Int /\ t \in Int /\ Attempt(Pattern, text, From, p - 1, Start)
      /\ t - 1 = Start + ((p - 1) - From) /\ SearchInv
  BY <1>1 DEF GlobInv, SearchInv, Pattern
<1>3. Pattern \in Seq(DOMAIN Lower) /\ text \in Seq(DOMAIN Lower) /\ Len(text) \in Nat /\ Len(Pattern) \in Nat
  BY <1>1, GlobTypes
<1>4. From \in Int /\ Start \in 0..Len(text) /\ From <= p - 1
  BY <1>2, <1>3, RowsInText DEF Attempt
<1>5. /\ p - 1 + 1 = p /\ p - 1 < Len(Pattern) /\ Start + ((p - 1 + 1) - From) = t /\ t \in 1..Len(text)
  BY <1>1, <1>2, <1>3, <1>4
<1>6. Fit(Pattern[p - 1 + 1], text, Start + ((p - 1 + 1) - From))
  BY <1>1, <1>5 DEF Fit
<1>7. Attempt(Pattern, text, From, p, Start)
  BY <1>1, <1>2, <1>3, <1>5, <1>6, ElementTaken
<1>8. From' = From /\ Start' = Start /\ p' - 1 = p /\ t' - 1 = Start + (p - From) /\ t' <= Len(text) + 1
  BY <1>1, <1>2, <1>3, <1>4 DEF From, Start
<1>9. SearchInv'
  BY <1>1, <1>2, <1>7, <1>8 DEF SearchInv, Pattern
<1> QED
  BY <1>1, <1>9, SearchGoesOn

\* The return to the last star, or to none.
LEMMA BacktracksKeeps ==
  ASSUME GlobInv, Backtracks, UNCHANGED portVars
  PROVE  GlobInv'
<1>1. /\ Globbing /\ list # <<>> /\ Pattern # <<>> /\ t <= Len(text)
      /\ ~(p <= Len(Pattern) /\ Pattern[p] = "*")
      /\ ~(p <= Len(Pattern) /\ Pattern[p] # "*" /\ (Pattern[p] = "?" \/ Same(Pattern[p], text[t])))
  BY DEF Backtracks, InText, Looping, At, Fits
<1>2. /\ p \in Int /\ t \in Int /\ Attempt(Pattern, text, From, p - 1, Start)
      /\ t - 1 = Start + ((p - 1) - From) /\ SearchInv
  BY <1>1 DEF GlobInv, SearchInv, Pattern
<1>3. /\ Pattern \in Seq(DOMAIN Lower) /\ text \in Seq(DOMAIN Lower) /\ Len(text) \in Nat /\ Len(Pattern) \in Nat
      /\ Reach(Pattern, text) = Rows(Pattern, text)[Len(Pattern)]
  BY <1>1, GlobTypes
<1>4. From \in Int /\ Start \in 0..Len(text) /\ From <= p - 1 /\ p - 1 <= Len(Pattern) /\ From \in 0..Len(Pattern)
  BY <1>2, <1>3, RowsInText DEF Attempt
<1>5. p - 1 + 1 = p /\ Start + ((p - 1 + 1) - From) = t
  BY <1>2, <1>4
<1>6. Dead(Pattern, text, From, Start)
  <2>1. CASE p <= Len(Pattern)
    <3>1. p - 1 < Len(Pattern) /\ Pattern[p - 1 + 1] # "*" /\ ~Fit(Pattern[p - 1 + 1], text, Start + ((p - 1 + 1) - From))
      BY <1>1, <1>2, <1>3, <1>5, <2>1 DEF Fit
    <3> QED
      BY <1>2, <1>3, <3>1, AttemptDies
  <2>2. CASE ~(p <= Len(Pattern))
    <3>1. p - 1 = Len(Pattern) /\ Start + ((p - 1) - From) # Len(text)
      BY <1>1, <1>2, <1>3, <1>4, <2>2
    <3> QED
      BY <1>2, <1>3, <3>1, AttemptDies
  <2> QED
    BY <2>1, <2>2
<1>7. CASE starP = None
  <2>1. From = 0 /\ NextSegment
    BY <1>7 DEF From, Backtracks
  <2>2. Len(text) \notin Rows(Pattern, text)[Len(Pattern)]
    BY <1>2, <1>3, <1>6, <2>1, OnlyAttempt
  <2>3. ~Describes(segment)
    BY <1>3, <2>2 DEF Describes, Pattern
  <2> QED
    BY <1>1, <2>1, <2>3, SegmentFails
<1>8. CASE starP # None
  <2>1. /\ p' = starP + 1 /\ starT' = starT + 1 /\ t' = starT + 1
        /\ UNCHANGED <<list, text, segment, starP, verdict, spec>>
    BY <1>8 DEF Backtracks, portVars
  <2>2. From = starP /\ Start = starT - 1 /\ starP >= 1 /\ Pattern[starP] = "*" /\ starT \in Int
    BY <1>2, <1>8 DEF From, Start, SearchInv, Pattern
  <2>3. Start < Len(text)
    BY <1>1, <1>2, <1>3, <1>4
  <2>4. Attempt(Pattern, text, From, From, Start + 1)
    BY <1>2, <1>3, <1>6, <2>2, <2>3, NextAttempt
  <2>5. From' = From /\ Start' = Start + 1 /\ p' - 1 = From /\ t' - 1 = Start' + ((p' - 1) - From')
        /\ t' <= Len(text) + 1
    BY <1>3, <1>4, <1>8, <2>1, <2>2, <2>3 DEF From, Start
  <2>6. SearchInv'
    BY <1>4, <1>8, <2>1, <2>2, <2>4, <2>5 DEF SearchInv, Pattern
  <2> QED
    BY <1>1, <2>1, <2>6, SearchGoesOn
<1> QED
  BY <1>7, <1>8

\* The end of the text.
LEMMA EndsTextKeeps ==
  ASSUME GlobInv, EndsText, UNCHANGED portVars
  PROVE  GlobInv'
<1>1. Globbing /\ list # <<>> /\ Pattern # <<>> /\ t > Len(text)
  BY DEF EndsText, Looping
<1>2. /\ p \in Int /\ t \in Int /\ Attempt(Pattern, text, From, p - 1, Start)
      /\ t - 1 = Start + ((p - 1) - From) /\ t <= Len(text) + 1
  BY <1>1 DEF GlobInv, SearchInv, Pattern
<1>3. /\ Pattern \in Seq(DOMAIN Lower) /\ text \in Seq(DOMAIN Lower) /\ Len(text) \in Nat /\ Len(Pattern) \in Nat
      /\ Reach(Pattern, text) = Rows(Pattern, text)[Len(Pattern)]
  BY <1>1, GlobTypes
<1>4. Start + ((p - 1) - From) = Len(text) /\ p - 1 + 1 = p
  BY <1>1, <1>2, <1>3
<1>5. Len(text) \in Rows(Pattern, text)[Len(Pattern)] <=> Stars(Pattern, p, Len(Pattern))
  BY <1>2, <1>3, <1>4, TextEnds
<1>6. Describes(segment) <=> Stars(Pattern, p, Len(Pattern))
  BY <1>1, <1>3, <1>5 DEF Describes, Pattern
<1>7. CASE Stars(Pattern, p, Len(Pattern))
  BY <1>1, <1>6, <1>7, SegmentMatches DEF EndsText, Stars
<1>8. CASE ~Stars(Pattern, p, Len(Pattern))
  BY <1>1, <1>6, <1>8, SegmentFails DEF EndsText, Stars
<1> QED
  BY <1>7, <1>8

\* Every step keeps the invariant.
LEMMA GlobInvKept ==
  ASSUME GlobInv, [MatchNext]_rulesVars
  PROVE  GlobInv'
<1>1. CASE AnyMatches /\ UNCHANGED portVars
  <2>1. UNCHANGED <<list, text, spec>> /\ verdict' = TRUE /\ list = <<>>
    BY <1>1 DEF AnyMatches, Says, globVars, portVars
  <2> QED
    BY <2>1 DEF GlobInv, GlobsAreMeant, Globbing
<1>2. CASE SkipsBlank /\ UNCHANGED portVars
  BY <1>2, SegmentFails DEF SkipsBlank, Describes, Pattern
<1>3. CASE SeesStar /\ UNCHANGED portVars
  BY <1>3, SeesStarKeeps
<1>4. CASE StepsOn /\ UNCHANGED portVars
  BY <1>4, StepsOnKeeps
<1>5. CASE Backtracks /\ UNCHANGED portVars
  BY <1>5, BacktracksKeeps
<1>6. CASE EndsText /\ UNCHANGED portVars
  BY <1>6, EndsTextKeeps
<1>7. CASE PortStep /\ UNCHANGED portVars
  <2>1. list = None /\ list' = None
    BY <1>7 DEF PortStep, GlobInv, globVars
  <2> QED
    BY <2>1 DEF GlobInv, GlobsAreMeant, Globbing
<1>8. CASE UNCHANGED rulesVars
  <2>1. UNCHANGED <<list, text, segment, p, t, starP, starT, spec, port, verdict>>
    BY <1>8 DEF rulesVars, globVars, portVars
  <2> QED
    BY <2>1 DEF GlobInv, GlobsAreMeant, Globbing, SearchInv, From, Start, Describes
<1> QED
  BY <1>1, <1>2, <1>3, <1>4, <1>5, <1>6, <1>7, <1>8 DEF MatchNext, GlobStep

\* A match begins with an attempt.
LEMMA GlobInvInit == MatchInit => GlobInv
<1> SUFFICES ASSUME MatchInit PROVE GlobInv
  OBVIOUS
<1>1. segment = 1 /\ p = 1 /\ t = 1 /\ starP = None /\ verdict = None
  BY DEF MatchInit
<1>2. CASE list = None
  BY <1>1, <1>2 DEF GlobInv, GlobsAreMeant, Globbing
<1>3. CASE list # None
  <2>1. list \in Lists /\ text \in Texts /\ spec = None
    BY <1>3 DEF MatchInit
  <2>2. ASSUME list # <<>> PROVE segment \in 1..Len(list) /\ SearchInv
    <3>1. list \in Seq(Seq(DOMAIN Lower)) /\ text \in Seq(DOMAIN Lower) /\ Len(text) \in Nat
      BY <2>1, RulesAssumption
    <3>2. 1 \in 1..Len(list) /\ list[1] \in Seq(DOMAIN Lower)
      BY <2>2, <3>1, EmptySeq
    <3>3. Attempt(list[segment], text, 0, 0, 0)
      BY <1>1, <3>1, <3>2, SegmentBegins
    <3>4. From = 0 /\ Start = 0 /\ p - 1 = 0 /\ t - 1 = 0
      BY <1>1 DEF From, Start
    <3> QED
      BY <1>1, <3>1, <3>2, <3>3, <3>4 DEF SearchInv
  <2> QED
    BY <1>1, <2>1, <2>2 DEF GlobInv, GlobsAreMeant
<1> QED
  BY <1>2, <1>3

\* The matcher of globs means what its patterns mean, for every list and every text: one return to
\* the last star is enough, and an unmatched segment hides no other (pmx_glob_match,
\* pmx_glob_list_match).
THEOREM GlobsAreAlwaysMeant == MatchSpec => []GlobsAreMeant
<1>1. MatchInit => GlobInv
  BY GlobInvInit
<1>2. GlobInv /\ [MatchNext]_rulesVars => GlobInv'
  BY GlobInvKept
<1>3. GlobInv => GlobsAreMeant
  BY DEF GlobInv
<1> QED
  BY <1>1, <1>2, <1>3, PTL DEF MatchSpec


-----------------------------------------------------------------------------
(* Reading a port specification.                                           *)

\* A specification, and a place to read it from: a character, or the end.
IsSpec(s)   == s \in Seq(DOMAIN Value \cup Marks)
Places(s)   == 1..(Len(s) + 1)

\* The character at a place is a number, a mark or the end, and these are different things.
LEMMA AtPlace ==
  ASSUME NEW s, IsSpec(s)
  PROVE  /\ Len(s) \in Nat
         /\ \A i \in 1..Len(s) : s[i] \in DOMAIN Value \cup Marks /\ At_(s, i) = s[i]
         /\ \A i \in Int : i > Len(s) => At_(s, i) = "end"
         /\ \A c \in Marks \cup {"end"} : ~Number(c)
         /\ \A c \in DOMAIN Value : Value[c] \in Nat
BY RulesAssumption DEF IsSpec, At_, Number, Marks

\* What is passed over is what comes before the first other character.
LEMMA PastIs ==
  ASSUME NEW s, IsSpec(s), NEW i \in Places(s), NEW chars, "end" \notin chars
  PROVE  /\ Past(s, i, chars) \in i..(Len(s) + 1)
         /\ At_(s, Past(s, i, chars)) \notin chars
         /\ \A k \in i..(Past(s, i, chars) - 1) : s[k] \in chars
<1> DEFINE S == {j \in i..(Len(s) + 1) : At_(s, j) \notin chars}
<1>0. Len(s) \in Nat /\ i \in Int /\ i <= Len(s) + 1 /\ 1 <= i
  BY AtPlace DEF Places
<1>1. S \in SUBSET Int /\ IsFiniteSet(S) /\ S # {}
  <2>1. S \subseteq i..(Len(s) + 1) /\ IsFiniteSet(i..(Len(s) + 1)) /\ i..(Len(s) + 1) \subseteq Int
    BY <1>0, FS_Interval
  <2>2. Len(s) + 1 \in S
    BY <1>0, AtPlace
  <2> HIDE DEF S
  <2> QED
    BY <2>1, <2>2, FS_Subset
<1>2. PICK j \in S : \A k \in S : j <= k
  <2> HIDE DEF S
  <2> QED
    BY <1>1, FirstIndex
<1>3. j \in i..(Len(s) + 1) /\ At_(s, j) \notin chars
  BY <1>2
<1>4. ASSUME NEW k \in i..(j - 1) PROVE s[k] \in chars
  <2>1. k \in i..(Len(s) + 1) /\ k \in 1..Len(s) /\ k < j
    BY <1>0, <1>3
  <2>2. k \notin S
    BY <1>2, <1>3, <2>1
  <2> QED
    BY <2>1, <2>2, AtPlace
<1> QED
  BY <1>3, <1>4 DEF Past

\* There is one such place, so what begins in what is passed over ends where it ends.
LEMMA PastSame ==
  ASSUME NEW s, IsSpec(s), NEW i \in Places(s), NEW chars, "end" \notin chars,
         NEW j \in i..(Len(s) + 1), \A k \in i..(j - 1) : s[k] \in chars
  PROVE  Past(s, j, chars) = Past(s, i, chars)
<1> DEFINE x == Past(s, i, chars)
           y == Past(s, j, chars)
<1>0. Len(s) \in Nat /\ i \in Int /\ 1 <= i /\ j \in Places(s) /\ j \in Int /\ i <= j /\ j <= Len(s) + 1
  BY AtPlace DEF Places
<1>1. x \in i..(Len(s) + 1) /\ At_(s, x) \notin chars /\ \A k \in i..(x - 1) : s[k] \in chars
  BY PastIs
<1>2. y \in j..(Len(s) + 1) /\ At_(s, y) \notin chars /\ \A k \in j..(y - 1) : s[k] \in chars
  BY <1>0, PastIs
<1>3. ~(x < j)
  <2>1. SUFFICES ASSUME x < j PROVE FALSE
    OBVIOUS
  <2>2. x \in i..(j - 1) /\ x \in 1..Len(s)
    BY <1>0, <1>1, <2>1
  <2> QED
    BY <1>1, <2>2, AtPlace
<1>4. ~(x < y)
  <2>1. SUFFICES ASSUME x < y PROVE FALSE
    OBVIOUS
  <2>2. x \in j..(y - 1) /\ x \in 1..Len(s)
    BY <1>0, <1>1, <1>2, <1>3, <2>1
  <2> QED
    BY <1>1, <1>2, <2>2, AtPlace
<1>5. ~(y < x)
  <2>1. SUFFICES ASSUME y < x PROVE FALSE
    OBVIOUS
  <2>2. y \in i..(x - 1) /\ y \in 1..Len(s)
    BY <1>0, <1>1, <1>2, <2>1
  <2> QED
    BY <1>1, <1>2, <2>2, AtPlace
<1> QED
  BY <1>0, <1>1, <1>2, <1>4, <1>5

\* The places from i to just before e hold one number, of this value or its opposite, and no comma.
OneNumber(s, i, e, n, value) ==
  /\ n \in i..(e - 1) /\ Number(s[n]) /\ (value = Value[s[n]] \/ value = 0 - Value[s[n]])
  /\ \A k \in i..(e - 1) : k # n => s[k] \in {"space", "dash", "plus"}

\* strtol reads one number, or stays where it is.
LEMMA NumberRead ==
  ASSUME NEW s, IsSpec(s), NEW i \in Places(s)
  PROVE  /\ StrToL(s, i).end \in i..(Len(s) + 1) /\ StrToL(s, i).value \in Int
         /\ StrToL(s, i).end # i => \E n \in 1..Len(s) : OneNumber(s, i, StrToL(s, i).end, n, StrToL(s, i).value)
<1> DEFINE j == Past(s, i, {"space"})
<1>0. Len(s) \in Nat /\ i \in Int /\ 1 <= i /\ i <= Len(s) + 1
  BY AtPlace DEF Places
<1>1. j \in i..(Len(s) + 1) /\ \A k \in i..(j - 1) : s[k] = "space"
  BY PastIs
<1> HIDE DEF j
<1>2. CASE Number(At_(s, j))
  <2>1. StrToL(s, i) = [value |-> Value[s[j]], end |-> j + 1]
    BY <1>2 DEF StrToL, j
  <2>2. j \in 1..Len(s) /\ Number(s[j]) /\ Value[s[j]] \in Nat
    BY <1>0, <1>1, <1>2, AtPlace DEF Number
  <2>3. OneNumber(s, i, j + 1, j, Value[s[j]])
    BY <1>0, <1>1, <2>2 DEF OneNumber
  <2> QED
    BY <1>0, <1>1, <2>1, <2>2, <2>3
<1>3. CASE ~Number(At_(s, j)) /\ At_(s, j) \in {"dash", "plus"} /\ Number(At_(s, j + 1))
  <2> DEFINE v == IF At_(s, j) = "plus" THEN Value[s[j + 1]] ELSE 0 - Value[s[j + 1]]
  <2>1. StrToL(s, i) = [value |-> v, end |-> j + 2]
    BY <1>3 DEF StrToL, j
  <2>2. j + 1 \in 1..Len(s) /\ Number(s[j + 1]) /\ Value[s[j + 1]] \in Nat /\ s[j] \in {"dash", "plus"}
    <3>1. j + 1 <= Len(s)
      BY <1>0, <1>1, <1>3, AtPlace
    <3> QED
      BY <1>0, <1>1, <1>3, <3>1, AtPlace DEF Number
  <2>4. v \in Int /\ (v = Value[s[j + 1]] \/ v = 0 - Value[s[j + 1]])
    BY <2>2
  <2> HIDE DEF v
  <2>3. OneNumber(s, i, j + 2, j + 1, v)
    <3>1. \A k \in i..((j + 2) - 1) : k # j + 1 => k \in i..(j - 1) \/ k = j
      BY <1>0, <1>1
    <3>2. j + 1 \in i..((j + 2) - 1)
      BY <1>0, <1>1
    <3> QED
      BY <1>1, <2>2, <2>4, <3>1, <3>2 DEF OneNumber
  <2> QED
    BY <1>0, <1>1, <2>1, <2>2, <2>3, <2>4
<1>4. CASE ~Number(At_(s, j)) /\ ~(At_(s, j) \in {"dash", "plus"} /\ Number(At_(s, j + 1)))
  <2>1. StrToL(s, i) = [value |-> 0, end |-> i]
    BY <1>4 DEF StrToL, j
  <2> QED
    BY <1>0, <2>1
<1> QED
  BY <1>2, <1>3, <1>4


\* The places of one entry of a specification: where it begins, its first number, the dash behind
\* it, its second number, and where it ends.
Begin(s, i) == Past(s, i, {"space", "comma"})
First(s, i) == StrToL(s, Begin(s, i))
Mid(s, i)   == Past(s, First(s, i).end, {"space"})
Other(s, i) == StrToL(s, Mid(s, i) + 1)
End(s, i)   == Past(s, IF At_(s, Mid(s, i)) = "dash" THEN Other(s, i).end ELSE Mid(s, i), {"space"})

\* What the validation asks of an entry.
Sound(s, i) ==
  /\ First(s, i).end # Begin(s, i) /\ IsPort(First(s, i).value)
  /\ At_(s, Mid(s, i)) = "dash" => Other(s, i).end # Mid(s, i) + 1 /\ IsPort(Other(s, i).value)
  /\ At_(s, End(s, i)) \in {"end", "comma"}

\* The places from i to just before e hold the numbers at a and b, no other, and no comma.
Holds(s, i, e, a, b) ==
  /\ a \in i..(e - 1) /\ b \in i..(e - 1) /\ Number(s[a]) /\ Number(s[b])
  /\ \A k \in i..(e - 1) : s[k] # "comma" /\ (Number(s[k]) => k = a \/ k = b)

\* A number that is read as a port is that port: a sign before it leaves it a port only when it is 0.
LEMMA PortRead ==
  ASSUME NEW s, IsSpec(s), NEW i, NEW e, NEW n \in 1..Len(s), NEW value, OneNumber(s, i, e, n, value), IsPort(value)
  PROVE  value = Value[s[n]] /\ Value[s[n]] \in Nat
<1>1. Number(s[n]) /\ (value = Value[s[n]] \/ value = 0 - Value[s[n]])
  BY DEF OneNumber
<1>2. Value[s[n]] \in Nat
  BY <1>1, AtPlace DEF Number
<1>3. value >= 0
  BY DEF IsPort
<1>4. ASSUME NEW v \in Nat, NEW u, u = 0 - v, u >= 0 PROVE u = v
  BY <1>4
<1> QED
  BY <1>1, <1>2, <1>3, <1>4

\* An entry the validation accepts holds one number or two, and matches the range between them.
LEMMA Entry ==
  ASSUME NEW s, IsSpec(s), NEW i \in Places(s), Begin(s, i) <= Len(s), Sound(s, i)
  PROVE  /\ Begin(s, i) \in i..Len(s) /\ End(s, i) \in (Begin(s, i) + 1)..(Len(s) + 1)
         /\ RangeAfter(s, First(s, i)).end \in (Begin(s, i) + 1)..End(s, i)
         /\ \A k \in RangeAfter(s, First(s, i)).end..(End(s, i) - 1) : s[k] = "space"
         /\ \E a, b \in 1..Len(s) :
              /\ Holds(s, Begin(s, i), End(s, i), a, b)
              /\ Value[s[a]] \in Nat /\ Value[s[b]] \in Nat
              /\ RangeAfter(s, First(s, i)).from
                   = IF Value[s[a]] <= Value[s[b]] THEN Value[s[a]] ELSE Value[s[b]]
              /\ RangeAfter(s, First(s, i)).to
                   = IF Value[s[a]] <= Value[s[b]] THEN Value[s[b]] ELSE Value[s[a]]
<1> DEFINE j == Begin(s, i)
           x == First(s, i)
           d == Mid(s, i)
           y == Other(s, i)
           e == End(s, i)
           r == RangeAfter(s, x)
<1>0. Len(s) \in Nat /\ i \in Int /\ 1 <= i /\ i <= Len(s) + 1
  BY AtPlace DEF Places
<1>1. j \in i..Len(s) /\ j \in Places(s)
  <2>1. j \in i..(Len(s) + 1)
    BY PastIs DEF Begin
  <2> QED
    BY <1>0, <2>1 DEF Places
<1>2. x.end \in (j + 1)..(Len(s) + 1) /\ x.value \in Int /\ x.end \in Places(s)
  <2>1. x.end \in j..(Len(s) + 1) /\ x.end # j /\ x.value \in Int
    BY <1>1, NumberRead DEF First, Sound
  <2> QED
    BY <1>0, <1>1, <2>1 DEF Places
<1>3. PICK a \in 1..Len(s) : OneNumber(s, j, x.end, a, x.value)
  BY <1>1, NumberRead DEF First, Sound
<1>4. x.value = Value[s[a]] /\ Value[s[a]] \in Nat
  BY <1>3, PortRead DEF Sound
<1>5. d \in x.end..(Len(s) + 1) /\ (\A k \in x.end..(d - 1) : s[k] = "space") /\ d \in Places(s)
  <2>1. d \in x.end..(Len(s) + 1) /\ \A k \in x.end..(d - 1) : s[k] = "space"
    BY <1>2, PastIs DEF Mid
  <2> QED
    BY <1>0, <1>2, <2>1 DEF Places
<1>6. ASSUME NEW k \in j..(d - 1) PROVE s[k] # "comma" /\ (Number(s[k]) => k = a)
  <2>1. CASE k < x.end
    BY <1>1, <1>2, <1>3, <1>6, <2>1, AtPlace DEF OneNumber, Marks
  <2>2. CASE x.end <= k
    BY <1>1, <1>2, <1>5, <1>6, <2>2, AtPlace DEF Marks
  <2> QED
    BY <1>1, <1>2, <1>6, <2>1, <2>2
<1>7. CASE At_(s, d) # "dash"
  <2>1. e = Past(s, d, {"space"})
    BY <1>7 DEF End
  <2>2. e = d
    <3>1. e = Past(s, x.end, {"space"})
      BY <1>2, <1>5, <2>1, PastSame
    <3> QED
      BY <3>1 DEF Mid
  <2>3. r = [from |-> x.value, to |-> x.value, end |-> d]
    BY <1>7 DEF RangeAfter, Dash, Mid
  <2>4. Holds(s, j, e, a, a)
    BY <1>1, <1>2, <1>3, <1>5, <1>6, <2>2 DEF Holds, OneNumber
  <2> HIDE DEF j, x, d, y, e, r
  <2>5. r.end = e /\ r.from = x.value /\ r.to = x.value /\ e \in (j + 1)..(Len(s) + 1)
    BY <1>1, <1>2, <1>5, <2>2, <2>3
  <2>6. Value[s[a]] <= Value[s[a]]
    BY <1>4
  <2> QED
    BY <1>0, <1>1, <1>4, <2>4, <2>5, <2>6 DEF j, x, e, r
<1>8. CASE At_(s, d) = "dash"
  <2>1. d \in 1..Len(s) /\ d + 1 \in Places(s) /\ s[d] = "dash"
    BY <1>0, <1>5, <1>8, AtPlace DEF Places
  <2>2. y.end \in (d + 2)..(Len(s) + 1) /\ y.value \in Int /\ y.end \in Places(s)
    <3>1. y.end \in (d + 1)..(Len(s) + 1) /\ y.end # d + 1 /\ y.value \in Int
      BY <1>8, <2>1, NumberRead DEF Other, Sound
    <3> QED
      BY <1>0, <2>1, <3>1 DEF Places
  <2>3. PICK b \in 1..Len(s) : OneNumber(s, d + 1, y.end, b, y.value)
    BY <1>8, <2>1, NumberRead DEF Other, Sound
  <2>4. y.value = Value[s[b]] /\ Value[s[b]] \in Nat
    BY <1>8, <2>3, PortRead DEF Sound
  <2>5. e \in y.end..(Len(s) + 1) /\ \A k \in y.end..(e - 1) : s[k] = "space"
    <3>1. e = Past(s, y.end, {"space"})
      BY <1>8 DEF End
    <3> QED
      BY <2>2, <3>1, PastIs
  <2>6. ASSUME NEW k \in j..(e - 1) PROVE s[k] # "comma" /\ (Number(s[k]) => k = a \/ k = b)
    <3>0. k \in Int /\ j <= k /\ k <= e - 1 /\ d \in Int /\ e \in Int /\ y.end \in Int /\ j \in Int
      BY <1>0, <1>1, <1>5, <2>2, <2>5, <2>6
    <3>1. CASE k < d
      <4>1. k \in j..(d - 1)
        BY <3>0, <3>1
      <4> QED
        BY <1>6, <4>1
    <3>2. CASE k = d
      BY <2>1, <3>2, AtPlace DEF Marks
    <3>3. CASE d < k /\ k < y.end
      <4>1. k \in (d + 1)..(y.end - 1)
        BY <3>0, <3>3
      <4>2. k = b \/ s[k] \in {"space", "dash", "plus"}
        BY <2>3, <4>1 DEF OneNumber
      <4>3. s[k] # "comma" \/ k = b
        BY <4>2
      <4>4. Number(s[b]) /\ ~Number("comma") /\ ~Number("space") /\ ~Number("dash") /\ ~Number("plus")
        BY <2>3, AtPlace DEF OneNumber, Marks
      <4> QED
        BY <4>2, <4>4
    <3>4. CASE y.end <= k
      BY <2>2, <2>5, <2>6, <3>4, AtPlace DEF Marks
    <3> QED
      BY <1>1, <2>1, <2>2, <2>6, <3>1, <3>2, <3>3, <3>4
  <2>7. Holds(s, j, e, a, b)
    <3>1. a \in j..(x.end - 1) /\ b \in (d + 1)..(y.end - 1) /\ Number(s[a]) /\ Number(s[b])
      BY <1>3, <2>3 DEF OneNumber
    <3> HIDE DEF j, x, d, y, e
    <3>2. a \in j..(e - 1) /\ b \in j..(e - 1)
      BY <1>0, <1>1, <1>2, <1>5, <2>1, <2>2, <2>5, <3>1
    <3> QED
      BY <2>6, <3>1, <3>2 DEF Holds
  <2>8. r = IF x.value > y.value THEN [from |-> y.value, to |-> x.value, end |-> y.end]
            ELSE [from |-> x.value, to |-> y.value, end |-> y.end]
    <3>1. y.end # d + 1
      BY <2>1, <2>2
    <3> QED
      BY <1>8, <3>1 DEF RangeAfter, Dash, Mid, Other
  <2> HIDE DEF j, x, d, y, e, r
  <2>9. r.end = y.end /\ y.end \in (j + 1)..e /\ e \in (j + 1)..(Len(s) + 1)
    BY <1>1, <1>2, <1>5, <2>1, <2>2, <2>5, <2>8
  <2>10. /\ r.from = IF Value[s[a]] <= Value[s[b]] THEN Value[s[a]] ELSE Value[s[b]]
         /\ r.to = IF Value[s[a]] <= Value[s[b]] THEN Value[s[b]] ELSE Value[s[a]]
    BY <1>4, <2>4, <2>8
  <2> QED
    BY <1>1, <1>4, <2>4, <2>5, <2>7, <2>9, <2>10 DEF j, x, e, r
<1> QED
  BY <1>7, <1>8

-----------------------------------------------------------------------------
(* The tables of pmx_port_spec_match and pmx_port_spec_validate.           *)

\* A table whose entry for a place is known, or is the one for a later place, exists.
LEMMA Chain ==
  ASSUME NEW n \in Nat, NEW Stop, NEW Yes, NEW next, \A i \in 1..n : i \notin Stop => next[i] \in (i + 1)..n
  PROVE  \E T \in SUBSET (1..n) : \A i \in 1..n : i \in T <=> IF i \in Stop THEN i \in Yes ELSE next[i] \in T
<1> DEFINE Known(k, T) == \A i \in ((n + 1) - k)..n : i \in T <=> IF i \in Stop THEN i \in Yes ELSE next[i] \in T
           S == {k \in 0..n : \E T \in SUBSET (1..n) : Known(k, T)}
<1>1. 0 \in S
  <2>1. Known(0, {})
    OBVIOUS
  <2> HIDE DEF Known
  <2> QED
    BY <2>1
<1>2. ASSUME NEW k \in 0..(n - 1), k \in S PROVE k + 1 \in S
  <2>1. PICK T \in SUBSET (1..n) : Known(k, T)
    BY <1>2
  <2> DEFINE i == n - k
             U == {j \in T : j # i} \cup (IF (IF i \in Stop THEN i \in Yes ELSE next[i] \in T) THEN {i} ELSE {})
  <2>2. i \in 1..n /\ (n + 1) - (k + 1) = i /\ (n + 1) - k = i + 1
    OBVIOUS
  <2>3. \A j \in 1..n : j # i => (j \in U <=> j \in T)
    OBVIOUS
  <2>4. i \in U <=> IF i \in Stop THEN i \in Yes ELSE next[i] \in T
    BY <2>2
  <2>5. i \notin Stop => next[i] \in 1..n /\ next[i] # i
    BY <2>2
  <2>6. \A j \in (i + 1)..n : j \in 1..n /\ j # i /\ (j \notin Stop => next[j] \in 1..n /\ next[j] # i)
    BY <2>2
  <2>7. \A j \in (i + 1)..n : j \in T <=> IF j \in Stop THEN j \in Yes ELSE next[j] \in T
    BY <2>1, <2>2
  <2>8. \A j \in i..n : j = i \/ j \in (i + 1)..n
    BY <2>2
  <2>9. U \in SUBSET (1..n)
    BY <2>2
  <2> HIDE DEF U, i, Known
  <2>10. \A j \in i..n : j \in U <=> IF j \in Stop THEN j \in Yes ELSE next[j] \in U
    BY <2>3, <2>4, <2>5, <2>6, <2>7, <2>8
  <2>11. Known(k + 1, U)
    BY <2>2, <2>10 DEF Known
  <2>12. k + 1 \in 0..n
    OBVIOUS
  <2> QED
    BY <2>9, <2>11, <2>12
<1>3. 0..n \subseteq S
  <2> HIDE DEF S
  <2> QED
    BY <1>1, <1>2, Induction
<1>4. PICK T \in SUBSET (1..n) : Known(n, T)
  <2>1. n \in S
    BY <1>3
  <2> HIDE DEF Known
  <2> QED
    BY <2>1
<1>5. (n + 1) - n = 1
  OBVIOUS
<1> QED
  BY <1>4, <1>5


\* Whether a specification is valid from a place on, asked place by place.
ValidStep(s, v, i) ==
  LET j == Past(s, i, {"space", "comma"}) IN
  IF j > Len(s) THEN TRUE
  ELSE LET a == StrToL(s, j)  d == Past(s, a.end, {"space"})  b == StrToL(s, d + 1)
           e == Past(s, IF At_(s, d) = "dash" THEN b.end ELSE d, {"space"})
       IN /\ a.end # j /\ IsPort(a.value)
          /\ At_(s, d) = "dash" => b.end # d + 1 /\ IsPort(b.value)
          /\ At_(s, e) \in {"end", "comma"}
          /\ v[e]
Valid(s) == CHOOSE v : v = [i \in 1..(Len(s) + 1) |-> ValidStep(s, v, i)]

\* Whether a specification matches a port from a place on.
MatchStep(s, x, m, i) ==
  LET j == Past(s, i, {"space", "comma"}) IN
  IF j > Len(s) THEN FALSE
  ELSE LET a == StrToL(s, j) IN
       IF a.end = j THEN m[j + 1]
       ELSE LET r == RangeAfter(s, a) IN x \in r.from..r.to \/ m[r.end]
Matched(s, x) == CHOOSE m : m = [i \in 1..(Len(s) + 1) |-> MatchStep(s, x, m, i)]

\* The same steps, by the names of their places.
LEMMA ValidStepIs ==
  ASSUME NEW s, NEW i, NEW v
  PROVE  ValidStep(s, v, i) <=> (Begin(s, i) > Len(s) \/ (Sound(s, i) /\ v[End(s, i)]))
BY DEF ValidStep, Sound, Begin, First, Mid, Other, End

LEMMA MatchStepIs ==
  ASSUME NEW s, NEW x, NEW i, NEW m
  PROVE  MatchStep(s, x, m, i) =
           IF Begin(s, i) > Len(s) THEN FALSE
           ELSE IF First(s, i).end = Begin(s, i) THEN m[Begin(s, i) + 1]
           ELSE x \in RangeAfter(s, First(s, i)).from..RangeAfter(s, First(s, i)).to
                \/ m[RangeAfter(s, First(s, i)).end]
BY DEF MatchStep, Begin, First

\* Where an entry of any specification ends, valid or not: behind the place it is looked for from.
LEMMA EntryEnds ==
  ASSUME NEW s, IsSpec(s), NEW i \in Places(s), Begin(s, i) <= Len(s)
  PROVE  /\ Begin(s, i) + 1 \in (i + 1)..(Len(s) + 1)
         /\ First(s, i).end # Begin(s, i) => RangeAfter(s, First(s, i)).end \in (i + 1)..(Len(s) + 1)
<1> DEFINE j == Begin(s, i)
           x == First(s, i)
           d == Mid(s, i)
           y == Other(s, i)
           r == RangeAfter(s, x)
<1>0. Len(s) \in Nat /\ i \in Int /\ 1 <= i /\ i <= Len(s) + 1
  BY AtPlace DEF Places
<1>1. j \in i..Len(s) /\ j \in Places(s)
  <2>1. j \in i..(Len(s) + 1)
    BY PastIs DEF Begin
  <2> QED
    BY <1>0, <2>1 DEF Places
<1>2. ASSUME x.end # j PROVE r.end \in (i + 1)..(Len(s) + 1)
  <2>1. x.end \in (j + 1)..(Len(s) + 1) /\ x.end \in Places(s)
    <3>1. x.end \in j..(Len(s) + 1)
      BY <1>1, NumberRead DEF First
    <3> QED
      BY <1>0, <1>1, <1>2, <3>1 DEF Places
  <2>2. d \in x.end..(Len(s) + 1)
    BY <2>1, PastIs DEF Mid
  <2>3. CASE At_(s, d) # "dash"
    <3>1. r.end = d
      BY <2>3 DEF RangeAfter, Dash, Mid
    <3> HIDE DEF j, x, d, r
    <3> QED
      BY <1>0, <1>1, <2>1, <2>2, <3>1
  <2>4. CASE At_(s, d) = "dash"
    <3>1. d \in 1..Len(s) /\ d + 1 \in Places(s)
      <4>1. d <= Len(s)
        BY <1>0, <1>1, <2>1, <2>2, <2>4, AtPlace
      <4> HIDE DEF j, x, d
      <4> QED
        BY <1>0, <1>1, <2>1, <2>2, <4>1 DEF Places
    <3>2. r.end \in {Past(s, d + 1, {"space"}), y.end}
      BY <2>4 DEF RangeAfter, Dash, Mid, Other
    <3>3. Past(s, d + 1, {"space"}) \in (d + 1)..(Len(s) + 1) /\ y.end \in (d + 1)..(Len(s) + 1)
      BY <3>1, PastIs, NumberRead DEF Other
    <3>4. r.end \in (d + 1)..(Len(s) + 1)
      BY <3>2, <3>3
    <3> HIDE DEF j, x, d, y, r
    <3> QED
      BY <1>0, <1>1, <2>1, <2>2, <3>1, <3>4
  <2> QED
    BY <2>3, <2>4
<1>3. j + 1 \in (i + 1)..(Len(s) + 1)
  <2> HIDE DEF j
  <2> QED
    BY <1>0, <1>1
<1> QED
  BY <1>2, <1>3

\* The validation's table exists, and is what its steps say.
LEMMA ValidIs ==
  ASSUME NEW s, IsSpec(s)
  PROVE  /\ Validates(s) <=> s = <<>> \/ (Valid(s)[1] /\ \E i \in 1..Len(s) : Number(s[i]))
         /\ \A i \in Places(s) : Valid(s)[i] <=> (Begin(s, i) > Len(s) \/ (Sound(s, i) /\ Valid(s)[End(s, i)]))
<1> DEFINE n == Len(s) + 1
           Stop == {i \in 1..n : Begin(s, i) > Len(s) \/ ~Sound(s, i)}
           Yes  == {i \in 1..n : Begin(s, i) > Len(s)}
           next == [i \in 1..n |-> End(s, i)]
<1>1. n \in Nat
  BY AtPlace
<1>2. \A i \in 1..n : i \notin Stop => next[i] \in (i + 1)..n
  <2>1. SUFFICES ASSUME NEW i \in 1..n, i \notin Stop PROVE End(s, i) \in (i + 1)..n
    OBVIOUS
  <2>2. Len(s) \in Nat /\ i \in Places(s) /\ Sound(s, i) /\ ~(Begin(s, i) > Len(s))
    BY <2>1, AtPlace DEF Places
  <2>3. Begin(s, i) \in i..(Len(s) + 1)
    BY <2>2, PastIs DEF Begin
  <2>4. Begin(s, i) \in i..Len(s) /\ End(s, i) \in (Begin(s, i) + 1)..(Len(s) + 1)
    BY <2>2, <2>3, Entry
  <2> QED
    BY <2>2, <2>4
<1>3. PICK T \in SUBSET (1..n) : \A i \in 1..n : i \in T <=> IF i \in Stop THEN i \in Yes ELSE next[i] \in T
  <2> HIDE DEF n, Stop, Yes, next
  <2> QED
    BY <1>1, <1>2, Chain
<1>4. \A i \in 1..n : i \in T <=> (Begin(s, i) > Len(s) \/ (Sound(s, i) /\ End(s, i) \in T))
  BY <1>3
<1>5. \A i \in 1..n : Sound(s, i) /\ ~(Begin(s, i) > Len(s)) => End(s, i) \in 1..n
  <2>1. SUFFICES ASSUME NEW i \in 1..n, Sound(s, i), ~(Begin(s, i) > Len(s)) PROVE End(s, i) \in 1..n
    OBVIOUS
  <2>2. next[i] \in (i + 1)..n /\ next[i] = End(s, i) /\ i \in 1..n
    BY <1>2, <2>1
  <2> HIDE DEF next, n
  <2> QED
    BY <1>1, <2>2
<1> DEFINE w == [i \in 1..n |-> i \in T]
<1>6. w = [i \in 1..n |-> ValidStep(s, w, i)]
  <2>1. ASSUME NEW i \in 1..n PROVE (i \in T) = ValidStep(s, w, i)
    <3>1. ValidStep(s, w, i) <=> (Begin(s, i) > Len(s) \/ (Sound(s, i) /\ w[End(s, i)]))
      BY ValidStepIs
    <3>2. ValidStep(s, w, i) \in BOOLEAN
      BY Zenon DEF ValidStep
    <3>3. Sound(s, i) /\ ~(Begin(s, i) > Len(s)) => (w[End(s, i)] <=> End(s, i) \in T)
      BY <1>5
    <3> HIDE DEF w, n
    <3>4. (i \in T) <=> ValidStep(s, w, i)
      BY <1>4, <3>1, <3>3
    <3> QED
      BY <3>2, <3>4
  <2> QED
    BY <2>1, Zenon
<1>7. Valid(s) = [i \in 1..(Len(s) + 1) |-> ValidStep(s, Valid(s), i)]
  <2> HIDE DEF w
  <2> QED
    BY <1>6 DEF Valid
<1>8. Validates(s) <=> s = <<>> \/ (Valid(s)[1] /\ \E i \in 1..Len(s) : Number(s[i]))
  BY DEF Validates, Valid, ValidStep
<1>9. \A i \in Places(s) : Valid(s)[i] = ValidStep(s, Valid(s), i)
  BY <1>7 DEF Places
<1> QED
  BY <1>8, <1>9, ValidStepIs, Zenon


\* The match's table exists, and is what its steps say.
LEMMA MatchedIs ==
  ASSUME NEW s, IsSpec(s), NEW x
  PROVE  /\ PortMatches(s, x) <=> s = <<>> \/ Matched(s, x)[1]
         /\ \A i \in Places(s) : Matched(s, x)[i] = MatchStep(s, x, Matched(s, x), i)
<1> DEFINE n == Len(s) + 1
           Span(i) == RangeAfter(s, First(s, i))
           Yes  == {i \in 1..n : /\ ~(Begin(s, i) > Len(s)) /\ First(s, i).end # Begin(s, i)
                                 /\ x \in Span(i).from..Span(i).to}
           Stop == {i \in 1..n : Begin(s, i) > Len(s)} \cup Yes
           next == [i \in 1..n |-> IF First(s, i).end = Begin(s, i) THEN Begin(s, i) + 1 ELSE Span(i).end]
<1>1. n \in Nat
  BY AtPlace
<1>2. ASSUME NEW i \in 1..n, ~(Begin(s, i) > Len(s)) PROVE next[i] \in (i + 1)..n
  <2>1. Len(s) \in Nat /\ i \in Places(s)
    BY AtPlace DEF Places
  <2>2. Begin(s, i) \in i..(Len(s) + 1)
    BY <2>1, PastIs DEF Begin
  <2>3. Begin(s, i) <= Len(s)
    BY <1>2, <2>1, <2>2
  <2>4. next[i] = IF First(s, i).end = Begin(s, i) THEN Begin(s, i) + 1 ELSE Span(i).end
    OBVIOUS
  <2> HIDE DEF next
  <2> QED
    BY <2>1, <2>3, <2>4, EntryEnds
<1>3. PICK T \in SUBSET (1..n) : \A i \in 1..n : i \in T <=> IF i \in Stop THEN i \in Yes ELSE next[i] \in T
  <2>1. \A i \in 1..n : i \notin Stop => next[i] \in (i + 1)..n
    <3>1. \A i \in 1..n : i \notin Stop => ~(Begin(s, i) > Len(s))
      OBVIOUS
    <3> HIDE DEF n, Stop, Yes, next
    <3> QED
      BY <1>2, <3>1
  <2> HIDE DEF n, Stop, Yes, next
  <2> QED
    BY <1>1, <2>1, Chain
<1> DEFINE w == [i \in 1..n |-> i \in T]
<1>4. w = [i \in 1..n |-> MatchStep(s, x, w, i)]
  <2>1. ASSUME NEW i \in 1..n PROVE (i \in T) = MatchStep(s, x, w, i)
    <3>1. CASE Begin(s, i) > Len(s)
      <4>1. MatchStep(s, x, w, i) = FALSE
        BY <3>1, MatchStepIs
      <4>2. i \in Stop /\ i \notin Yes
        BY <3>1
      <4>3. i \notin T
        BY <1>3, <4>2
      <4>4. MatchStep(s, x, w, i) \in BOOLEAN /\ ~MatchStep(s, x, w, i)
        BY <4>1, Zenon
      <4>5. (i \in T) <=> MatchStep(s, x, w, i)
        BY <4>3, <4>4
      <4> QED
        BY <4>4, <4>5
    <3>2. CASE ~(Begin(s, i) > Len(s)) /\ First(s, i).end = Begin(s, i)
      <4>1. MatchStep(s, x, w, i) = w[Begin(s, i) + 1]
        BY <3>2, MatchStepIs
      <4>2. i \notin Stop /\ next[i] = Begin(s, i) + 1
        BY <3>2
      <4>3. next[i] \in 1..n
        <5>1. next[i] \in (i + 1)..n
          BY <1>2, <3>2
        <5> HIDE DEF next, n
        <5> QED
          BY <1>1, <5>1
      <4>4. w[Begin(s, i) + 1] = (next[i] \in T)
        BY <4>2, <4>3
      <4>5. i \in T <=> next[i] \in T
        BY <1>3, <4>2
      <4> HIDE DEF w, next, Stop, n
      <4> QED
        BY <4>1, <4>4, <4>5
    <3>3. CASE ~(Begin(s, i) > Len(s)) /\ First(s, i).end # Begin(s, i)
      <4>1. MatchStep(s, x, w, i) = (x \in Span(i).from..Span(i).to \/ w[Span(i).end])
        BY <3>3, MatchStepIs
      <4>2. next[i] = Span(i).end /\ (i \in Stop <=> i \in Yes) /\ (i \in Yes <=> x \in Span(i).from..Span(i).to)
        BY <3>3
      <4>3. next[i] \in 1..n
        <5>1. next[i] \in (i + 1)..n
          BY <1>2, <3>3
        <5> HIDE DEF next, n
        <5> QED
          BY <1>1, <5>1
      <4>4. w[Span(i).end] = (next[i] \in T)
        BY <4>2, <4>3
      <4>5. i \in T <=> (i \in Yes \/ next[i] \in T)
        BY <1>3, <4>2
      <4> HIDE DEF w, next, Stop, Yes, n, Span
      <4>6. MatchStep(s, x, w, i) <=> i \in Yes \/ next[i] \in T
        BY <4>1, <4>2, <4>4, Zenon
      <4>7. MatchStep(s, x, w, i) \in BOOLEAN
        BY <4>1, Zenon
      <4>8. (i \in T) <=> MatchStep(s, x, w, i)
        BY <4>5, <4>6
      <4> QED
        BY <4>7, <4>8
    <3> QED
      BY <3>1, <3>2, <3>3
  <2> QED
    BY <2>1, Zenon
<1>5. Matched(s, x) = [i \in 1..(Len(s) + 1) |-> MatchStep(s, x, Matched(s, x), i)]
  <2> HIDE DEF w
  <2> QED
    BY <1>4 DEF Matched
<1>6. PortMatches(s, x) <=> s = <<>> \/ Matched(s, x)[1]
  BY DEF PortMatches, Matched, MatchStep
<1>7. \A i \in Places(s) : Matched(s, x)[i] = MatchStep(s, x, Matched(s, x), i)
  BY <1>5 DEF Places
<1> QED
  BY <1>6, <1>7, Zenon

\* What a match from a place on depends on is only what follows the separators there.
LEMMA MatchedSkips ==
  ASSUME NEW s, IsSpec(s), NEW x, NEW i \in Places(s), NEW e \in Places(s), i <= e,
         \A k \in i..(e - 1) : s[k] = "space"
  PROVE  Matched(s, x)[i] <=> Matched(s, x)[e]
<1>1. Begin(s, i) = Begin(s, e)
  <2>1. e \in i..(Len(s) + 1)
    BY AtPlace DEF Places
  <2> QED
    BY <2>1, PastSame DEF Begin
<1>2. MatchStep(s, x, Matched(s, x), i) <=> MatchStep(s, x, Matched(s, x), e)
  BY <1>1, Zenon DEF MatchStep, Begin
<1>3. Matched(s, x)[i] = MatchStep(s, x, Matched(s, x), i)
  BY MatchedIs
<1>4. Matched(s, x)[e] = MatchStep(s, x, Matched(s, x), e)
  BY MatchedIs
<1> QED
  BY <1>2, <1>3, <1>4, Zenon

-----------------------------------------------------------------------------
(* What a specification names.                                             *)

\* Two numbers behind a place, no comma between them, that x lies between.
Between(s, a, b) == \A k \in Places(s) : (a <= k /\ k <= b) \/ (b <= k /\ k <= a) => At_(s, k) # "comma"
NamesFrom(s, x, i) ==
  \E a, b \in i..Len(s) : /\ Number(s[a]) /\ Number(s[b]) /\ Between(s, a, b)
                          /\ Value[s[a]] <= x /\ x <= Value[s[b]]

\* Separators name nothing.
LEMMA NamesSkips ==
  ASSUME NEW s, IsSpec(s), NEW x \in Int, NEW i \in Places(s), NEW j \in i..(Len(s) + 1),
         \A k \in i..(j - 1) : s[k] \in {"space", "comma"}
  PROVE  NamesFrom(s, x, i) <=> NamesFrom(s, x, j)
<1>0. Len(s) \in Nat /\ i \in 1..(Len(s) + 1)
  BY AtPlace DEF Places
<1>1. \A k \in i..Len(s) : Number(s[k]) => k \in j..Len(s)
  <2>1. SUFFICES ASSUME NEW k \in i..Len(s), Number(s[k]), k < j PROVE FALSE
    BY <1>0
  <2>2. s[k] \in {"space", "comma"}
    BY <1>0, <2>1
  <2> QED
    BY <2>1, <2>2, AtPlace DEF Marks
<1>2. \A k \in j..Len(s) : k \in i..Len(s)
  BY <1>0
<1> QED
  BY <1>1, <1>2 DEF NamesFrom

\* A place and what follows an entry there name what the entry's range and the rest name.
LEMMA NamesEntry ==
  ASSUME NEW s, IsSpec(s), NEW x \in Int, NEW j \in Places(s), NEW e \in (j + 1)..(Len(s) + 1),
         NEW a \in 1..Len(s), NEW b \in 1..Len(s), Holds(s, j, e, a, b), At_(s, e) \in {"end", "comma"}
  PROVE  NamesFrom(s, x, j) <=>
           \/ Value[s[a]] <= x /\ x <= Value[s[b]]
           \/ Value[s[b]] <= x /\ x <= Value[s[a]]
           \/ NamesFrom(s, x, e)
<1>0. Len(s) \in Nat /\ j \in 1..(Len(s) + 1) /\ e \in 1..(Len(s) + 1) /\ j < e
  BY AtPlace DEF Places
<1>1. ASSUME NamesFrom(s, x, e) PROVE NamesFrom(s, x, j)
  <2>1. \A k \in e..Len(s) : k \in j..Len(s)
    BY <1>0
  <2> QED
    BY <1>1, <2>1 DEF NamesFrom
<1>2. ASSUME NEW c \in {a, b}, NEW d \in {a, b}, Value[s[c]] <= x, x <= Value[s[d]] PROVE NamesFrom(s, x, j)
  <2>1. c \in j..(e - 1) /\ d \in j..(e - 1) /\ Number(s[c]) /\ Number(s[d])
    BY DEF Holds
  <2>2. c \in j..Len(s) /\ d \in j..Len(s)
    BY <1>0, <2>1
  <2>3. Between(s, c, d)
    <3>1. ASSUME NEW k \in Places(s), (c <= k /\ k <= d) \/ (d <= k /\ k <= c) PROVE At_(s, k) # "comma"
      <4>1. k \in j..(e - 1) /\ k \in 1..Len(s)
        BY <1>0, <2>1, <3>1 DEF Places
      <4> QED
        BY <4>1, AtPlace DEF Holds
    <3> QED
      BY <3>1 DEF Between
  <2> QED
    BY <1>2, <2>1, <2>2, <2>3 DEF NamesFrom
<1>3. ASSUME NamesFrom(s, x, j), ~NamesFrom(s, x, e)
      PROVE \/ Value[s[a]] <= x /\ x <= Value[s[b]]
            \/ Value[s[b]] <= x /\ x <= Value[s[a]]
  <2>1. PICK c, d \in j..Len(s) : /\ Number(s[c]) /\ Number(s[d]) /\ Between(s, c, d)
                                  /\ Value[s[c]] <= x /\ x <= Value[s[d]]
    BY <1>3 DEF NamesFrom
  <2>2. ~(c >= e /\ d >= e)
    <3>1. SUFFICES ASSUME c >= e, d >= e PROVE FALSE
      OBVIOUS
    <3>2. c \in e..Len(s) /\ d \in e..Len(s)
      BY <1>0, <3>1
    <3> QED
      BY <1>3, <2>1, <3>2 DEF NamesFrom
  <2>3. ~(c < e /\ d >= e) /\ ~(d < e /\ c >= e)
    <3>1. SUFFICES ASSUME (c < e /\ d >= e) \/ (d < e /\ c >= e) PROVE FALSE
      OBVIOUS
    <3>2. e <= Len(s) /\ e \in Places(s) /\ e \in 1..Len(s)
      BY <1>0, <3>1 DEF Places
    <3>3. (c <= e /\ e <= d) \/ (d <= e /\ e <= c)
      BY <1>0, <3>1
    <3>4. At_(s, e) # "comma"
      BY <2>1, <3>2, <3>3 DEF Between
    <3>5. At_(s, e) \in DOMAIN Value \cup Marks /\ At_(s, e) = "end"
      BY <3>2, <3>4, AtPlace
    <3>6. "end" \notin DOMAIN Value \cup Marks
      BY RulesAssumption DEF Marks
    <3> QED
      BY <3>5, <3>6
  <2>4. c \in j..(e - 1) /\ d \in j..(e - 1)
    BY <1>0, <2>2, <2>3
  <2>5. c \in {a, b} /\ d \in {a, b}
    BY <2>1, <2>4 DEF Holds
  <2>6. Value[s[a]] \in Nat /\ Value[s[b]] \in Nat
    BY AtPlace DEF Holds, Number
  <2>7. CASE c # d
    BY <2>1, <2>5, <2>7
  <2>8. CASE c = d
    BY <2>1, <2>5, <2>6, <2>8
  <2> QED
    BY <2>7, <2>8
<1> QED
  BY <1>1, <1>2, <1>3


\* From any place a valid specification is read from, the match finds what is named there: by the
\* last place it would not, since an entry ends behind where it begins.
LEMMA MatchedFrom ==
  ASSUME NEW s, IsSpec(s), NEW x \in Int, NEW i \in Places(s), Valid(s)[i],
         \A e \in (i + 1)..(Len(s) + 1) : Valid(s)[e] => (Matched(s, x)[e] <=> NamesFrom(s, x, e))
  PROVE  Matched(s, x)[i] <=> NamesFrom(s, x, i)
<1> DEFINE j == Begin(s, i)
           e == End(s, i)
           r == RangeAfter(s, First(s, i))
<1>0. Len(s) \in Nat /\ i \in 1..(Len(s) + 1)
  BY AtPlace DEF Places
<1>1. j \in i..(Len(s) + 1) /\ \A k \in i..(j - 1) : s[k] \in {"space", "comma"}
  BY PastIs DEF Begin
<1>2. NamesFrom(s, x, i) <=> NamesFrom(s, x, j)
  BY <1>1, NamesSkips
<1>3. Matched(s, x)[i] = MatchStep(s, x, Matched(s, x), i)
  BY MatchedIs
<1>4. CASE j > Len(s)
  <2>1. ~NamesFrom(s, x, j)
    <3> HIDE DEF j
    <3> QED
      BY <1>0, <1>1, <1>4 DEF NamesFrom
  <2>2. MatchStep(s, x, Matched(s, x), i) = FALSE
    BY <1>4, MatchStepIs
  <2> QED
    BY <1>2, <1>3, <2>1, <2>2
<1>5. CASE j <= Len(s)
  <2>0. ~(j > Len(s)) /\ j \in Places(s)
    <3> HIDE DEF j
    <3> QED
      BY <1>0, <1>1, <1>5 DEF Places
  <2>1. Sound(s, i) /\ Valid(s)[e]
    BY <2>0, ValidIs
  <2>2. /\ e \in (j + 1)..(Len(s) + 1) /\ r.end \in (j + 1)..e
        /\ \A k \in r.end..(e - 1) : s[k] = "space"
    BY <1>5, <2>1, Entry
  <2>3. PICK a, b \in 1..Len(s) :
          /\ Holds(s, j, e, a, b)
          /\ Value[s[a]] \in Nat /\ Value[s[b]] \in Nat
          /\ r.from = IF Value[s[a]] <= Value[s[b]] THEN Value[s[a]] ELSE Value[s[b]]
          /\ r.to = IF Value[s[a]] <= Value[s[b]] THEN Value[s[b]] ELSE Value[s[a]]
    BY <1>5, <2>1, Entry
  <2>4. MatchStep(s, x, Matched(s, x), i) = (x \in r.from..r.to \/ Matched(s, x)[r.end])
    BY <2>0, <2>1, MatchStepIs DEF Sound
  <2>5. e \in Places(s) /\ r.end \in Places(s) /\ r.end <= e /\ e \in (i + 1)..(Len(s) + 1)
    <3> HIDE DEF j, e, r
    <3> QED
      BY <1>0, <1>1, <2>2 DEF Places
  <2>6. Matched(s, x)[r.end] <=> Matched(s, x)[e]
    BY <2>2, <2>5, MatchedSkips
  <2>7. Matched(s, x)[e] <=> NamesFrom(s, x, e)
    BY <2>1, <2>5
  <2>8. NamesFrom(s, x, j) <=>
          \/ Value[s[a]] <= x /\ x <= Value[s[b]]
          \/ Value[s[b]] <= x /\ x <= Value[s[a]]
          \/ NamesFrom(s, x, e)
    BY <2>0, <2>1, <2>2, <2>3, NamesEntry DEF Sound
  <2>9. x \in r.from..r.to <=> \/ Value[s[a]] <= x /\ x <= Value[s[b]]
                               \/ Value[s[b]] <= x /\ x <= Value[s[a]]
    <3> HIDE DEF r
    <3>1. ASSUME NEW u \in Nat, NEW v \in Nat, NEW f, NEW g,
                 f = (IF u <= v THEN u ELSE v), g = IF u <= v THEN v ELSE u
          PROVE x \in f..g <=> (u <= x /\ x <= v) \/ (v <= x /\ x <= u)
      BY <3>1
    <3> QED
      BY <2>3, <3>1
  <2> QED
    BY <1>2, <1>3, <2>4, <2>6, <2>7, <2>8, <2>9, Zenon
<1> QED
  BY <1>0, <1>1, <1>4, <1>5

\* So it does from the first.
LEMMA MatchedAll ==
  ASSUME NEW s, IsSpec(s), NEW x \in Int, Valid(s)[1]
  PROVE  Matched(s, x)[1] <=> NamesFrom(s, x, 1)
<1> DEFINE Right(i) == Valid(s)[i] => (Matched(s, x)[i] <=> NamesFrom(s, x, i))
           n == Len(s) + 1
           S == {k \in 0..n : \A i \in ((n + 1) - k)..n : Right(i)}
<1>1. n \in Nat /\ n >= 1
  BY AtPlace
<1>2. 0 \in S
  BY <1>1
<1>3. ASSUME NEW k \in 0..(n - 1), k \in S PROVE k + 1 \in S
  <2> DEFINE i == n - k
  <2>1. i \in Places(s) /\ i \in Int /\ (n + 1) - (k + 1) = i /\ (n + 1) - k = i + 1 /\ k + 1 \in 0..n
    BY <1>1 DEF Places
  <2>2. \A e \in (i + 1)..(Len(s) + 1) : Right(e)
    BY <1>3, <2>1
  <2>3. Right(i)
    <3> HIDE DEF i, n, S
    <3> QED
      BY <2>1, <2>2, MatchedFrom
  <2>4. \A e \in i..n : e = i \/ e \in (i + 1)..n
    BY <1>1, <2>1
  <2> HIDE DEF i, Right
  <2> QED
    BY <2>1, <2>2, <2>3, <2>4
<1>4. 0..n \subseteq S
  <2> HIDE DEF S, n
  <2> QED
    BY <1>1, <1>2, <1>3, Induction
<1>5. n \in S /\ (n + 1) - n = 1 /\ 1 \in 1..n
  <2>1. n \in 0..n /\ (n + 1) - n = 1 /\ 1 \in 1..n
    BY <1>1
  <2> HIDE DEF S, n
  <2> QED
    BY <1>4, <2>1
<1>6. Right(1)
  <2> HIDE DEF n, Right
  <2> QED
    BY <1>5
<1> QED
  BY <1>6

\* The stretch of a specification between two commas around some places without one.
LEMMA Stretch ==
  ASSUME NEW s, IsSpec(s), NEW u \in 1..Len(s), NEW v \in u..Len(s), \A k \in u..v : s[k] # "comma"
  PROVE  \E i \in 1..u, j \in v..Len(s) :
           /\ i = 1 \/ s[i - 1] = "comma"
           /\ j = Len(s) \/ s[j + 1] = "comma"
           /\ \A k \in i..j : s[k] # "comma"
<1> DEFINE S == {i \in 1..u : \A k \in i..u : s[k] # "comma"}
           T == {j \in v..Len(s) : j = Len(s) \/ s[j + 1] = "comma"}
<1>0. Len(s) \in Nat /\ u \in Int /\ v \in Int /\ 1 <= u /\ u <= v /\ v <= Len(s)
  BY AtPlace
<1>1. S \in SUBSET Int /\ IsFiniteSet(S) /\ S # {}
  <2>1. S \subseteq 1..u /\ IsFiniteSet(1..u) /\ 1..u \subseteq Int
    BY <1>0, FS_Interval
  <2>2. u \in S
    <3>1. \A k \in u..u : k \in u..v
      BY <1>0
    <3> QED
      BY <1>0, <3>1
  <2> HIDE DEF S
  <2> QED
    BY <2>1, <2>2, FS_Subset
<1>2. PICK i \in S : \A k \in S : i <= k
  <2> HIDE DEF S
  <2> QED
    BY <1>1, FirstIndex
<1>3. i \in 1..u /\ \A k \in i..u : s[k] # "comma"
  BY <1>2
<1>4. i = 1 \/ s[i - 1] = "comma"
  <2>1. SUFFICES ASSUME i # 1, s[i - 1] # "comma" PROVE FALSE
    OBVIOUS
  <2>2. i - 1 \in 1..u /\ \A k \in (i - 1)..u : k = i - 1 \/ k \in i..u
    BY <1>0, <1>3, <2>1
  <2>3. i - 1 \in S
    BY <1>3, <2>1, <2>2
  <2> HIDE DEF S
  <2> QED
    BY <1>0, <1>2, <1>3, <2>3
<1>5. T \in SUBSET Int /\ IsFiniteSet(T) /\ T # {}
  <2>1. T \subseteq v..Len(s) /\ IsFiniteSet(v..Len(s)) /\ v..Len(s) \subseteq Int
    BY <1>0, FS_Interval
  <2>2. Len(s) \in T
    BY <1>0
  <2> HIDE DEF T
  <2> QED
    BY <2>1, <2>2, FS_Subset
<1>6. PICK j \in T : \A k \in T : j <= k
  <2> HIDE DEF T
  <2> QED
    BY <1>5, FirstIndex
<1>7. j \in v..Len(s) /\ (j = Len(s) \/ s[j + 1] = "comma")
  BY <1>6
<1>8. ASSUME NEW k \in i..j, s[k] = "comma" PROVE FALSE
  <2>1. CASE k <= u
    BY <1>3, <1>8, <2>1
  <2>2. CASE u <= k /\ k <= v
    BY <1>8, <2>2
  <2>3. CASE v < k
    <3>1. k - 1 \in v..Len(s) /\ (k - 1) + 1 = k /\ k - 1 < j
      BY <1>0, <1>7, <1>3, <2>3
    <3>2. k - 1 \in T
      BY <1>8, <3>1
    <3> HIDE DEF T
    <3> QED
      BY <1>6, <1>7, <3>1, <3>2
  <2> QED
    BY <1>0, <1>3, <1>7, <2>1, <2>2, <2>3
<1> QED
  BY <1>3, <1>4, <1>7, <1>8

\* What is named from the first place is what the specification names.
LEMMA NamesAll ==
  ASSUME NEW s, IsSpec(s), NEW x \in Int
  PROVE  NamesFrom(s, x, 1) <=> Names(s, x)
<1>0. Len(s) \in Nat
  BY AtPlace
<1>1. ASSUME Names(s, x) PROVE NamesFrom(s, x, 1)
  <2>1. PICK i, j \in 1..Len(s) :
          /\ \A k \in i..j : s[k] # "comma"
          /\ \E a, b \in {k \in i..j : Number(s[k])} : Value[s[a]] <= x /\ x <= Value[s[b]]
    BY <1>1 DEF Names
  <2>2. PICK a, b \in i..j : Number(s[a]) /\ Number(s[b]) /\ Value[s[a]] <= x /\ x <= Value[s[b]]
    BY <2>1
  <2>3. a \in 1..Len(s) /\ b \in 1..Len(s)
    BY <1>0
  <2>4. Between(s, a, b)
    <3>1. ASSUME NEW k \in Places(s), (a <= k /\ k <= b) \/ (b <= k /\ k <= a) PROVE At_(s, k) # "comma"
      <4>1. k \in i..j /\ k \in 1..Len(s)
        BY <1>0, <3>1 DEF Places
      <4> QED
        BY <2>1, <4>1, AtPlace
    <3> QED
      BY <3>1 DEF Between
  <2> QED
    BY <2>2, <2>3, <2>4 DEF NamesFrom
<1>2. ASSUME NamesFrom(s, x, 1) PROVE Names(s, x)
  <2>1. PICK a, b \in 1..Len(s) : /\ Number(s[a]) /\ Number(s[b]) /\ Between(s, a, b)
                                  /\ Value[s[a]] <= x /\ x <= Value[s[b]]
    BY <1>2 DEF NamesFrom
  <2> DEFINE u == IF a <= b THEN a ELSE b
             v == IF a <= b THEN b ELSE a
  <2>2. u \in 1..Len(s) /\ v \in u..Len(s) /\ a \in u..v /\ b \in u..v
    BY <1>0
  <2>3. ASSUME NEW k \in u..v PROVE s[k] # "comma"
    <3>1. k \in 1..Len(s) /\ k \in Places(s) /\ ((a <= k /\ k <= b) \/ (b <= k /\ k <= a))
      BY <1>0, <2>2, <2>3 DEF Places
    <3> QED
      BY <2>1, <3>1, AtPlace DEF Between
  <2>4. PICK i \in 1..u, j \in v..Len(s) :
          /\ i = 1 \/ s[i - 1] = "comma"
          /\ j = Len(s) \/ s[j + 1] = "comma"
          /\ \A k \in i..j : s[k] # "comma"
    <3> HIDE DEF u, v
    <3> QED
      BY <2>2, <2>3, Stretch
  <2>5. i \in 1..Len(s) /\ j \in 1..Len(s) /\ a \in i..j /\ b \in i..j
    BY <1>0, <2>2, <2>4
  <2> HIDE DEF u, v
  <2> QED
    BY <2>1, <2>4, <2>5 DEF Names
<1> QED
  BY <1>1, <1>2

\* A specification that validates matches the ports it names, and no other.
LEMMA PortsMatch ==
  ASSUME NEW s, IsSpec(s), s # <<>>, NEW x \in Int, Validates(s)
  PROVE  PortMatches(s, x) = Names(s, x)
<1>1. Valid(s)[1]
  BY ValidIs
<1>2. PortMatches(s, x) <=> Matched(s, x)[1]
  BY MatchedIs
<1>3. PortMatches(s, x) <=> Names(s, x)
  BY <1>1, <1>2, MatchedAll, NamesAll
<1>4. PortMatches(s, x) \in BOOLEAN /\ Names(s, x) \in BOOLEAN
  BY Zenon DEF PortMatches, Names
<1> QED
  BY <1>3, <1>4

-----------------------------------------------------------------------------
(* Whatever is asked.                                                      *)

\* An answer about a port is the match's.
PortInv ==
  spec # None =>
    /\ spec \in Specs /\ port \in Ports /\ list = None
    /\ verdict # None => verdict = PortMatches(spec, port)

\* It is so from the question to the answer.
LEMMA PortInvHolds == MatchSpec => []PortInv
<1>1. MatchInit => PortInv
  BY RulesAssumption DEF MatchInit, PortInv
<1>2. PortInv /\ [MatchNext]_rulesVars => PortInv'
  <2> SUFFICES ASSUME PortInv, [MatchNext]_rulesVars PROVE PortInv'
    OBVIOUS
  <2>1. CASE GlobStep /\ UNCHANGED portVars
    <3>1. list # None
      BY <2>1 DEF GlobStep, AnyMatches, SkipsBlank, SeesStar, StepsOn, Backtracks, EndsText, InText, Looping, Globbing
    <3>2. spec = None /\ spec' = spec
      BY <2>1, <3>1 DEF PortInv, portVars
    <3> QED
      BY <3>2 DEF PortInv
  <2>2. CASE PortStep /\ UNCHANGED portVars
    BY <2>2 DEF PortStep, PortInv, portVars, globVars
  <2>3. CASE UNCHANGED rulesVars
    BY <2>3 DEF PortInv, rulesVars, portVars, globVars
  <2> QED
    BY <2>1, <2>2, <2>3 DEF MatchNext
<1> QED
  BY <1>1, <1>2, PTL DEF MatchSpec

\* A port specification that validates matches exactly the ports it names, for every specification
\* and every port, however it is spaced and whatever way a range is turned (pmx_port_spec_match,
\* pmx_port_spec_validate).
THEOREM PortsAreAlwaysMeant == MatchSpec => []PortsAreMeant
<1>1. PortInv => PortsAreMeant
  <2> SUFFICES ASSUME PortInv, spec # None, verdict # None, spec # <<>>, Validates(spec)
               PROVE  verdict = Names(spec, port)
    BY DEF PortsAreMeant
  <2>1. IsSpec(spec) /\ port \in Int /\ verdict = PortMatches(spec, port)
    BY RulesAssumption DEF PortInv, IsSpec
  <2> QED
    BY <2>1, PortsMatch
<1> QED
  BY <1>1, PortInvHolds, PTL

\* What the two text fields of a rule match is what they mean, for every alphabet and every text.
THEOREM RulesAreAlwaysMeant == MatchSpec => []RulesMatchAsMeant
<1>1. GlobsAreMeant /\ PortsAreMeant => RulesMatchAsMeant
  BY DEF RulesMatchAsMeant
<1> QED
  BY <1>1, GlobsAreAlwaysMeant, PortsAreAlwaysMeant, PTL

-----------------------------------------------------------------------------
(* What a client reads in a file.                                          *)

\* While line k is the last to have opened an inline file, line i is in it.
Hides(f, k, i) ==
  /\ f[k].is = "open" /\ f[k].name # "connection"
  /\ \A j \in (k + 1)..(i - 1) : ~(f[j].is = "close" /\ f[j].name = f[k].name)

\* Whether each line of a file is configuration.
ConfigTable(f) ==
  CHOOSE c : c = [i \in 1..Len(f) |->
                    ~\E k \in 1..(i - 1) :
                       /\ c[k] /\ f[k].is = "open" /\ f[k].name # "connection"
                       /\ \A j \in (k + 1)..(i - 1) : ~(f[j].is = "close" /\ f[j].name = f[k].name)]
Configured(f) == {i \in 1..Len(f) : ConfigTable(f)[i]}

\* A line is configuration when no line of configuration hides it.
LEMMA ConfiguredIs ==
  ASSUME NEW f, Len(f) \in Nat
  PROVE  \A i \in 1..Len(f) : i \in Configured(f) <=> ~\E k \in 1..(i - 1) : k \in Configured(f) /\ Hides(f, k, i)
<1> DEFINE n == Len(f)
           Right(T, i) == i \in T <=> ~\E k \in 1..(i - 1) : k \in T /\ Hides(f, k, i)
           S == {m \in 0..n : \E T \in SUBSET (1..m) : \A i \in 1..m : Right(T, i)}
<1>1. 0 \in S
  <2>1. {} \in SUBSET (1..0) /\ \A i \in 1..0 : Right({}, i)
    OBVIOUS
  <2> HIDE DEF Right
  <2> QED
    BY <2>1
<1>2. ASSUME NEW m \in 0..(n - 1), m \in S PROVE m + 1 \in S
  <2>1. PICK T \in SUBSET (1..m) : \A i \in 1..m : Right(T, i)
    BY <1>2
  <2> DEFINE U == T \cup (IF \E k \in 1..m : k \in T /\ Hides(f, k, m + 1) THEN {} ELSE {m + 1})
  <2>2. U \in SUBSET (1..(m + 1)) /\ m + 1 \in 0..n
    OBVIOUS
  <2>3. \A k \in 1..m : k \in U <=> k \in T
    OBVIOUS
  <2>4. m + 1 \in U <=> ~\E k \in 1..m : k \in T /\ Hides(f, k, m + 1)
    <3>1. m + 1 \notin T
      OBVIOUS
    <3> QED
      BY <3>1
  <2> HIDE DEF U
  <2>5. ASSUME NEW i \in 1..(m + 1) PROVE Right(U, i)
    <3>1. CASE i \in 1..m
      <4>1. \A k \in 1..(i - 1) : k \in 1..m
        BY <3>1
      <4>2. i \in T <=> ~\E k \in 1..(i - 1) : k \in T /\ Hides(f, k, i)
        BY <2>1, <3>1
      <4> QED
        BY <2>3, <3>1, <4>1, <4>2
    <3>2. CASE i = m + 1
      <4>1. i - 1 = m
        BY <3>2
      <4> QED
        BY <2>3, <2>4, <3>2, <4>1
    <3> QED
      BY <3>1, <3>2
  <2> HIDE DEF Right
  <2> QED
    BY <2>2, <2>5
<1>3. n \in S
  <2>0. n \in Nat
    OBVIOUS
  <2>1. 0..n \subseteq S
    <3> HIDE DEF S, n
    <3> QED
      BY <1>1, <1>2, <2>0, Induction
  <2> HIDE DEF S
  <2> QED
    BY <2>1
<1>4. PICK T \in SUBSET (1..n) : \A i \in 1..n : Right(T, i)
  BY <1>3
<1> DEFINE w == [i \in 1..n |-> i \in T]
           Body(c, i) == ~\E k \in 1..(i - 1) :
                            /\ c[k] /\ f[k].is = "open" /\ f[k].name # "connection"
                            /\ \A j \in (k + 1)..(i - 1) : ~(f[j].is = "close" /\ f[j].name = f[k].name)
<1>5. \A c, i : Body(c, i) <=> ~\E k \in 1..(i - 1) : c[k] /\ Hides(f, k, i)
  BY DEF Hides
<1>6. w = [i \in 1..n |-> Body(w, i)]
  <2>1. ASSUME NEW i \in 1..n PROVE (i \in T) = Body(w, i)
    <3>1. \A k \in 1..(i - 1) : k \in 1..n
      OBVIOUS
    <3>2. \A k \in 1..(i - 1) : w[k] <=> k \in T
      BY <3>1
    <3>3. Body(w, i) <=> ~\E k \in 1..(i - 1) : w[k] /\ Hides(f, k, i)
      BY <1>5
    <3>4. Body(w, i) \in BOOLEAN
      BY Zenon
    <3>5. i \in T <=> ~\E k \in 1..(i - 1) : k \in T /\ Hides(f, k, i)
      BY <1>4
    <3> HIDE DEF w, Body
    <3>6. (i \in T) <=> Body(w, i)
      BY <3>2, <3>3, <3>5
    <3> QED
      BY <3>4, <3>6
  <2> HIDE DEF Body
  <2> QED
    BY <2>1, Zenon
<1>7. ConfigTable(f) = [i \in 1..n |-> Body(ConfigTable(f), i)]
  <2> HIDE DEF w
  <2> QED
    BY <1>6 DEF ConfigTable
<1>8. \A i \in 1..n : ConfigTable(f)[i] <=> Body(ConfigTable(f), i)
  <2> HIDE DEF Body
  <2> QED
    BY <1>7
<1>9. ASSUME NEW i \in 1..n
      PROVE i \in Configured(f) <=> ~\E k \in 1..(i - 1) : k \in Configured(f) /\ Hides(f, k, i)
  <2>1. \A k \in 1..(i - 1) : k \in 1..n
    OBVIOUS
  <2>2. Body(ConfigTable(f), i) <=> ~\E k \in 1..(i - 1) : ConfigTable(f)[k] /\ Hides(f, k, i)
    BY <1>5
  <2>3. \A k \in 1..n : k \in Configured(f) <=> ConfigTable(f)[k]
    BY DEF Configured
  <2> HIDE DEF Body
  <2> QED
    BY <1>8, <2>1, <2>2, <2>3
<1> QED
  BY <1>9

\* Line i of a file of a kind names a remote, for a parser that takes names in any case.
InPeers(f) ==
  {i \in 1..Len(f) : \E k \in 1..(i - 1) :
     /\ f[k].is = "section" /\ LowerCase(f[k].name) = "peer"
     /\ \A j \in (k + 1)..i : f[j].is # "section"}
Is(f, i, name) == f[i].is = "option" /\ LowerCase(f[i].name) = name
NamesRemote(f, kd, i) ==
  \/ kd = "openvpn" /\ Is(f, i, "remote") /\ i \in Configured(f)
  \/ kd = "wireguard" /\ Is(f, i, "endpoint") /\ InRange(f[i].port) /\ i \in InPeers(f)
Naming(f, kd) == {i \in 1..Len(f) : NamesRemote(f, kd, i)}

\* The lines up to each that do, in their order.
Listed(f, S) ==
  CHOOSE r : r = [n \in 0..Len(f) |-> IF n = 0 THEN <<>> ELSE IF n \in S THEN Append(r[n - 1], n) ELSE r[n - 1]]
Remotes(f, kd) == Listed(f, Naming(f, kd))

\* They are found one after the other.
LEMMA RemotesAre ==
  ASSUME NEW f, Len(f) \in Nat, NEW kd
  PROVE  /\ Remotes(f, kd)[0] = <<>>
         /\ \A i \in 1..Len(f) : Remotes(f, kd)[i] = IF NamesRemote(f, kd, i) THEN Append(Remotes(f, kd)[i - 1], i)
                                                     ELSE Remotes(f, kd)[i - 1]
         /\ \A i \in 0..Len(f) : Remotes(f, kd)[i] \in Seq(1..i)
<1> DEFINE m == Len(f)
           Step(r, i) == IF i = 0 THEN <<>> ELSE IF i \in Naming(f, kd) THEN Append(r[i - 1], i) ELSE r[i - 1]
           Upto(n, r) == r = [i \in 0..n |-> Step(r, i)]
           S == {n \in 0..m : \E r : Upto(n, r)}
<1>1. 0 \in S
  <2>1. Upto(0, [i \in 0..0 |-> <<>>])
    OBVIOUS
  <2> HIDE DEF Upto
  <2> QED
    BY <2>1
<1>2. ASSUME NEW n \in 0..(m - 1), n \in S PROVE n + 1 \in S
  <2>1. PICK r : Upto(n, r)
    BY <1>2
  <2> DEFINE q == [i \in 0..(n + 1) |-> IF i = n + 1 THEN Step(r, n + 1) ELSE r[i]]
  <2>2. q[n + 1] = Step(r, n + 1) /\ \A i \in 0..n : q[i] = r[i]
    OBVIOUS
  <2>3. \A i \in 0..n : r[i] = Step(r, i)
    <3> HIDE DEF Step
    <3> QED
      BY <2>1
  <2>4. ASSUME NEW i \in 0..(n + 1) PROVE q[i] = Step(q, i)
    <3>1. i # 0 => i - 1 \in 0..n
      OBVIOUS
    <3>2. i = n + 1 \/ i \in 0..n
      OBVIOUS
    <3>3. Step(q, i) = Step(r, i)
      <4> HIDE DEF q
      <4> QED
        BY <2>2, <3>1
    <3> HIDE DEF q, Step
    <3> QED
      BY <2>2, <2>3, <3>2, <3>3
  <2>5. q = [i \in 0..(n + 1) |-> q[i]]
    OBVIOUS
  <2>6. Upto(n + 1, q)
    <3> HIDE DEF q, Step
    <3> QED
      BY <2>4, <2>5
  <2>7. n + 1 \in 0..m
    OBVIOUS
  <2> HIDE DEF Upto, q
  <2> QED
    BY <2>6, <2>7
<1>0. m \in Nat
  OBVIOUS
<1>3. 0..m \subseteq S
  <2> HIDE DEF S, m
  <2> QED
    BY <1>0, <1>1, <1>2, Induction
<1>4. PICK r : Upto(m, r)
  <2>1. m \in S
    BY <1>3
  <2> HIDE DEF Upto
  <2> QED
    BY <2>1
<1>5. Remotes(f, kd) = [i \in 0..m |-> Step(Remotes(f, kd), i)]
  BY <1>4 DEF Remotes, Listed
<1>6. \A i \in 0..m : Remotes(f, kd)[i] = Step(Remotes(f, kd), i)
  <2> HIDE DEF Step
  <2> QED
    BY <1>5
<1>7. Remotes(f, kd)[0] = <<>>
  BY <1>6
<1>8. \A i \in 1..m : Remotes(f, kd)[i] = IF NamesRemote(f, kd, i) THEN Append(Remotes(f, kd)[i - 1], i)
                                          ELSE Remotes(f, kd)[i - 1]
  <2>1. \A i \in 1..m : i \in 0..m /\ i # 0
    OBVIOUS
  <2>2. \A i \in 1..m : i \in Naming(f, kd) <=> NamesRemote(f, kd, i)
    BY DEF Naming
  <2> QED
    BY <1>6, <2>1, <2>2
<1> DEFINE Q == {n \in 0..m : Remotes(f, kd)[n] \in Seq(1..n)}
<1>9. 0 \in Q
  <2>1. <<>> \in Seq(1..0) /\ 0 \in 0..m
    OBVIOUS
  <2> QED
    BY <1>7, <2>1
<1>10. ASSUME NEW n \in 0..(m - 1), n \in Q PROVE n + 1 \in Q
  <2>1. n + 1 \in 1..m /\ n + 1 \in 0..m /\ (n + 1) - 1 = n /\ 1..n \subseteq 1..(n + 1) /\ n + 1 \in 1..(n + 1)
    OBVIOUS
  <2>2. Remotes(f, kd)[n] \in Seq(1..(n + 1))
    <3>1. Remotes(f, kd)[n] \in Seq(1..n)
      BY <1>10
    <3> QED
      BY <2>1, <3>1
  <2>3. Append(Remotes(f, kd)[n], n + 1) \in Seq(1..(n + 1))
    BY <2>1, <2>2, AppendProperties
  <2>4. Remotes(f, kd)[n + 1] \in Seq(1..(n + 1))
    BY <1>8, <2>1, <2>2, <2>3
  <2> QED
    BY <2>1, <2>4
<1>11. 0..m \subseteq Q
  <2> HIDE DEF Q, m
  <2> QED
    BY <1>0, <1>9, <1>10, Induction
<1> QED
  BY <1>7, <1>8, <1>11

\* Each of them names a remote.
LEMMA RemotesName ==
  ASSUME NEW f, Len(f) \in Nat, NEW kd
  PROVE  \A e \in 1..Len(Remotes(f, kd)[Len(f)]) : NamesRemote(f, kd, Remotes(f, kd)[Len(f)][e])
<1> DEFINE r(i) == Remotes(f, kd)[i]
           m    == Len(f)
           S    == {n \in 0..m : \A e \in 1..Len(r(n)) : NamesRemote(f, kd, r(n)[e])}
<1>1. r(0) = <<>> /\ \A i \in 0..Len(f) : r(i) \in Seq(1..i)
  BY RemotesAre
<1>2. \A i \in 1..Len(f) : r(i) = IF NamesRemote(f, kd, i) THEN Append(r(i - 1), i) ELSE r(i - 1)
  BY RemotesAre
<1> HIDE DEF r
<1>0. m \in Nat /\ m \in 0..m
  OBVIOUS
<1>3. 0 \in S
  <2>1. Len(r(0)) = 0
    BY <1>1
  <2> QED
    BY <2>1
<1>4. ASSUME NEW n \in 0..(m - 1), n \in S PROVE n + 1 \in S
  <2>1. n + 1 \in 1..Len(f) /\ n + 1 \in 0..Len(f) /\ (n + 1) - 1 = n /\ n \in 0..Len(f)
    OBVIOUS
  <2>2. r(n) \in Seq(1..n) /\ Len(r(n)) \in Nat
    BY <1>1, <2>1
  <2>3. r(n + 1) = IF NamesRemote(f, kd, n + 1) THEN Append(r(n), n + 1) ELSE r(n)
    BY <1>2, <2>1
  <2>4. \A e \in 1..Len(r(n)) : NamesRemote(f, kd, r(n)[e])
    BY <1>4
  <2>5. CASE NamesRemote(f, kd, n + 1)
    <3>1. /\ Len(r(n + 1)) = Len(r(n)) + 1 /\ r(n + 1)[Len(r(n)) + 1] = n + 1
          /\ \A e \in 1..Len(r(n)) : r(n + 1)[e] = r(n)[e]
      <4>1. r(n + 1) = Append(r(n), n + 1) /\ r(n) \in Seq(Int) /\ n + 1 \in Int
        BY <2>1, <2>2, <2>3, <2>5
      <4> QED
        BY <4>1, AppendProperties
    <3>2. \A e \in 1..(Len(r(n)) + 1) : e = Len(r(n)) + 1 \/ e \in 1..Len(r(n))
      BY <2>2
    <3> QED
      BY <2>1, <2>4, <2>5, <3>1, <3>2
  <2>6. CASE ~NamesRemote(f, kd, n + 1)
    BY <2>1, <2>3, <2>4, <2>6
  <2> QED
    BY <2>5, <2>6
<1>5. 0..m \subseteq S
  <2> HIDE DEF S, m
  <2> QED
    BY <1>0, <1>3, <1>4, Induction
<1>6. m \in S
  <2> HIDE DEF S, m
  <2> QED
    BY <1>0, <1>5
<1> QED
  BY <1>6 DEF r

\* These are what the module says of its file, which is one that OpenVPN does not refuse for a name.
LEMMA FileIs ==
  /\ Configuration = Configured(file) /\ PeerLines = InPeers(file)
  /\ \A i, name : PeerKey(i, name) <=> Is(file, i, name) /\ i \in InPeers(file)
  /\ \A i, name : SpeltRight => (Directive(i, name) <=> Is(file, i, name) /\ i \in Configured(file))
  /\ (kind = "openvpn" => SpeltRight) => /\ RemoteSet = Naming(file, kind)
                                         /\ RemoteLines = Remotes(file, kind)[Len(file)]
<1>1. Configuration = Configured(file)
  BY DEF Configuration, Configured, ConfigTable
<1>2. PeerLines = InPeers(file)
  BY DEF PeerLines, InPeers
<1>3. \A i, name : PeerKey(i, name) <=> Is(file, i, name) /\ i \in InPeers(file)
  BY <1>2 DEF PeerKey, Is
<1>4. \A i, name : SpeltRight => (Directive(i, name) <=> Is(file, i, name) /\ i \in Configured(file))
  BY <1>1 DEF SpeltRight, Directive, Is
<1>5. (kind = "openvpn" => SpeltRight) => RemoteSet = Naming(file, kind)
  BY <1>3, <1>4 DEF RemoteSet, Naming, NamesRemote
<1>6. RemoteLines = Listed(file, RemoteSet)[Len(file)]
  BY DEF RemoteLines, Listed
<1> QED
  BY <1>1, <1>2, <1>3, <1>4, <1>5, <1>6 DEF Remotes

-----------------------------------------------------------------------------
(* What the parser knows of the lines it has read.                         *)

\* An inline file that is not closed before a line.
Hidden(i) == \E k \in 1..(i - 1) : k \in Configured(file) /\ Hides(file, k, i)

\* The parser skips exactly what is hidden, and waits for the tag that hides it.
SkipInv ==
  /\ skipping = NoValue => ~Hidden(at)
  /\ skipping # NoValue =>
       \E k \in 1..(at - 1) : k \in Configured(file) /\ Hides(file, k, at) /\ file[k].name = skipping

\* The default port is the last that was configured.
DefaultInv ==
  LET ports == {i \in 1..(at - 1) : i \in Configured(file) /\ Is(file, i, "port")} IN
  \/ ports = {} /\ defaults.port = 1194
  \/ \E i \in ports : (\A j \in ports : j <= i) /\ defaults.port = Port(file[i].port)

\* A section is a peer's if the last one opened is.
SectionInv ==
  InPeer <=> \E k \in 1..(at - 1) : /\ file[k].is = "section" /\ LowerCase(file[k].name) = "peer"
                                    /\ \A j \in (k + 1)..(at - 1) : file[j].is # "section"

\* The endpoints are the remotes read, as far as there is room.
WrittenPort(i) == IF kind = "openvpn" THEN Port(file[i].port) ELSE file[i].port
Room(n)     == IF n < MaxEndpoints THEN n ELSE MaxEndpoints
EndpointInv ==
  LET r == Remotes(file, kind)[at - 1] IN
  /\ Len(vpn.endpoints) = Room(Len(r)) /\ (vpn.truncated <=> Len(r) > MaxEndpoints)
  /\ \A e \in 1..Len(vpn.endpoints) :
       vpn.endpoints[e].host = file[r[e]].host /\ vpn.endpoints[e].port = WrittenPort(r[e])

\* What is not said to be a full tunnel has given no reason to, and no secret was missed.
SaidInv ==
  /\ kind = "openvpn" /\ ~vpn.full => \A i \in 1..(at - 1) :
       ~(Is(file, i, "redirect-gateway") /\ i \in Configured(file))
  /\ kind = "wireguard" /\ ~vpn.full => \A i \in 1..(at - 1) :
       Is(file, i, "allowedips") /\ i \in InPeers(file) => \A s \in WholeSpace : ~(s \subseteq file[i].value)
  /\ kind = "openvpn" /\ ~vpn.secret => \A i \in 1..(at - 1) :
       i \in Configured(file) /\ file[i].is = "open" => file[i].name # "key"

EndpointSet == [host : {file[i].host : i \in 1..Len(file)}, port : Int, udp : BOOLEAN]
VpnType == [endpoints : Seq(EndpointSet), truncated : BOOLEAN, secret : BOOLEAN, full : BOOLEAN]
ConfigTypes ==
  /\ at \in 1..(Len(file) + 1)
  /\ defaults \in [udp : BOOLEAN, port : Int]
  /\ vpn \in VpnType

ConfigInv ==
  /\ file \in Files /\ kind = Sniffed(file)
  /\ parsed = NoValue =>
       /\ kind \in {"openvpn", "wireguard"}
       /\ ConfigTypes /\ EndpointInv /\ SaidInv
       /\ kind = "openvpn" => SkipInv /\ DefaultInv
       /\ kind = "wireguard" => SectionInv
  /\ ImportIsFaithful

-----------------------------------------------------------------------------
(* One line more.                                                          *)

\* A line was read.
Advances ==
  /\ Len(file) \in Nat /\ at \in 1..Len(file) /\ at' = at + 1 /\ UNCHANGED <<file, kind, parsed>>

\* The remotes up to it.
LEMMA RemotesOn ==
  ASSUME Advances
  PROVE  /\ Remotes(file, kind)[at - 1] \in Seq(1..Len(file)) /\ Len(Remotes(file, kind)[at - 1]) \in Nat
         /\ Remotes(file', kind')[at' - 1] = IF NamesRemote(file, kind, at) THEN Append(Remotes(file, kind)[at - 1], at)
                                             ELSE Remotes(file, kind)[at - 1]
<1>1. Len(file) \in Nat /\ at \in 1..Len(file) /\ at' = at + 1 /\ file' = file /\ kind' = kind
  BY DEF Advances
<1>2. at - 1 \in 0..Len(file) /\ at' - 1 = at /\ 1..(at - 1) \subseteq 1..Len(file)
  BY <1>1
<1>3. Remotes(file, kind)[at - 1] \in Seq(1..(at - 1))
  BY <1>1, <1>2, RemotesAre
<1>4. Remotes(file, kind)[at] = IF NamesRemote(file, kind, at) THEN Append(Remotes(file, kind)[at - 1], at)
                                ELSE Remotes(file, kind)[at - 1]
  BY <1>1, RemotesAre
<1>5. Remotes(file, kind)[at - 1] \in Seq(1..Len(file))
  BY <1>2, <1>3
<1>6. Len(Remotes(file, kind)[at - 1]) \in Nat
  BY <1>5
<1> QED
  BY <1>1, <1>2, <1>4, <1>5, <1>6

\* A line that names no remote adds no endpoint.
LEMMA NoEndpoint ==
  ASSUME Advances, EndpointInv, ~NamesRemote(file, kind, at),
         vpn'.endpoints = vpn.endpoints, vpn'.truncated = vpn.truncated
  PROVE  EndpointInv'
<1>1. Remotes(file', kind')[at' - 1] = Remotes(file, kind)[at - 1]
  BY RemotesOn
<1>2. file' = file /\ kind' = kind
  BY DEF Advances
<1>3. \A i : WrittenPort(i)' = WrittenPort(i)
  BY <1>2 DEF WrittenPort, Port
<1> QED
  BY <1>1, <1>2, <1>3 DEF EndpointInv, Room

\* A line that names one adds it, or is remembered.
LEMMA OneEndpoint ==
  ASSUME Advances, ConfigTypes, EndpointInv, NamesRemote(file, kind, at), NEW u \in BOOLEAN,
         WrittenPort(at) \in Int, vpn' = Added(file[at].host, WrittenPort(at), u)
  PROVE  /\ EndpointInv' /\ vpn' \in VpnType
         /\ vpn'.full = vpn.full /\ vpn'.secret = vpn.secret
<1> DEFINE r == Remotes(file, kind)[at - 1]
           es == vpn.endpoints
           one == [host |-> file[at].host, port |-> WrittenPort(at), udp |-> u]
<1>0. MaxEndpoints \in Nat \ {0}
  BY ConfigAssumption
<1>1. /\ Remotes(file', kind')[at' - 1] = Append(r, at) /\ r \in Seq(1..Len(file)) /\ Len(r) \in Nat
      /\ file' = file /\ kind' = kind /\ at \in 1..Len(file)
  BY RemotesOn DEF Advances
<1>2. vpn \in VpnType
  BY DEF ConfigTypes
<1>3. es \in Seq(EndpointSet) /\ Len(es) \in Nat
  BY <1>2 DEF VpnType
<1>4. one \in EndpointSet
  BY <1>1 DEF EndpointSet
<1>5. \A i : WrittenPort(i)' = WrittenPort(i)
  BY <1>1 DEF WrittenPort, Port
<1>6. /\ Len(es) = Room(Len(r)) /\ (vpn.truncated <=> Len(r) > MaxEndpoints)
      /\ \A e \in 1..Len(es) : es[e].host = file[r[e]].host /\ es[e].port = WrittenPort(r[e])
  BY DEF EndpointInv
<1>7. /\ Len(Append(r, at)) = Len(r) + 1 /\ Append(r, at)[Len(r) + 1] = at
      /\ \A e \in 1..Len(r) : Append(r, at)[e] = r[e]
  BY <1>1
<1>8. CASE Len(es) >= MaxEndpoints
  <2>1. vpn' = [vpn EXCEPT !.truncated = TRUE]
    BY <1>8 DEF Added
  <2>2. /\ vpn' \in VpnType
        /\ vpn'.full = vpn.full /\ vpn'.secret = vpn.secret /\ vpn'.truncated /\ vpn'.endpoints = es
    BY <1>2, <2>1 DEF VpnType
  <2>3. Len(r) >= MaxEndpoints /\ Len(es) = Room(Len(r) + 1) /\ Len(r) + 1 > MaxEndpoints /\ 1..Len(es) \subseteq 1..Len(r)
    BY <1>0, <1>1, <1>3, <1>6, <1>8 DEF Room
  <2> HIDE DEF r, es
  <2>4. EndpointInv'
    <3>1. \A e \in 1..Len(es) : Append(r, at)[e] = r[e]
      BY <1>7, <2>3
    <3>2. Len(vpn'.endpoints) = Room(Len(Append(r, at))) /\ vpn'.truncated /\ Len(Append(r, at)) > MaxEndpoints
      BY <1>7, <2>2, <2>3 DEF Room
    <3>3. \A e \in 1..Len(es) : /\ vpn'.endpoints[e].host = file'[Append(r, at)[e]].host
                                 /\ vpn'.endpoints[e].port = WrittenPort(Append(r, at)[e])
      BY <1>1, <1>6, <2>2, <3>1
    <3> QED
      BY <1>1, <1>5, <2>2, <2>3, <1>7, <3>2, <3>3 DEF EndpointInv, Room
  <2> QED
    BY <2>2, <2>4
<1>9. CASE ~(Len(es) >= MaxEndpoints)
  <2>1. vpn' = [vpn EXCEPT !.endpoints = Append(es, one)]
    BY <1>9 DEF Added
  <2>2. Append(es, one) \in Seq(EndpointSet) /\ Len(Append(es, one)) = Len(es) + 1
        /\ Append(es, one)[Len(es) + 1] = one /\ \A e \in 1..Len(es) : Append(es, one)[e] = es[e]
    <3> HIDE DEF one, es
    <3> QED
      BY <1>3, <1>4, AppendProperties
  <2>3. /\ vpn' \in VpnType
        /\ vpn'.full = vpn.full /\ vpn'.secret = vpn.secret /\ vpn'.truncated = vpn.truncated
        /\ vpn'.endpoints = Append(es, one)
    <3> HIDE DEF one, es
    <3> QED
      BY <1>2, <2>1, <2>2 DEF VpnType
  <2>4. Len(r) = Len(es) /\ Len(es) + 1 = Room(Len(r) + 1) /\ ~(Len(r) + 1 > MaxEndpoints) /\ ~vpn.truncated
    BY <1>0, <1>1, <1>3, <1>6, <1>9 DEF Room
  <2>5. one.host = file[at].host /\ one.port = WrittenPort(at)
    OBVIOUS
  <2>6. \A e \in 1..(Len(es) + 1) : e = Len(es) + 1 \/ e \in 1..Len(es)
    BY <1>3
  <2> HIDE DEF r, es, one
  <2>7. \A e \in 1..(Len(es) + 1) : /\ Append(es, one)[e].host = file[Append(r, at)[e]].host
                                    /\ Append(es, one)[e].port = WrittenPort(Append(r, at)[e])
    BY <1>6, <1>7, <2>2, <2>4, <2>5, <2>6
  <2>8. EndpointInv'
    BY <1>1, <1>5, <1>7, <2>2, <2>3, <2>4, <2>7 DEF EndpointInv, Room
  <2> QED
    BY <2>3, <2>8
<1> QED
  BY <1>8, <1>9

\* A line is taken for configuration when it is.
LEMMA ParsingIsRight ==
  ASSUME Advances, SkipInv
  PROVE  Parsing <=> at \in Configured(file)
<1>1. Len(file) \in Nat /\ at \in 1..Len(file)
  BY DEF Advances
<1>2. at \in Configured(file) <=> ~Hidden(at)
  BY <1>1, ConfiguredIs DEF Hidden
<1>3. skipping # NoValue => Hidden(at)
  BY DEF SkipInv, Hidden
<1> QED
  BY <1>2, <1>3 DEF SkipInv, Parsing

\* What hides a line hides the next, unless it is closed there.
LEMMA HidesOn ==
  ASSUME Advances, NEW k \in 1..(at - 1), Hides(file, k, at)
  PROVE  Hides(file, k, at + 1) <=> ~(file[at].is = "close" /\ file[at].name = file[k].name)
<1>1. at \in Int /\ k \in Int /\ k + 1 <= at
  BY DEF Advances
<1>2. \A j \in (k + 1)..((at + 1) - 1) : j = at \/ j \in (k + 1)..(at - 1)
  BY <1>1
<1>3. at \in (k + 1)..((at + 1) - 1)
  BY <1>1
<1> QED
  BY <1>2, <1>3 DEF Hides

\* Behind a line that is not hidden, only that line can hide.
LEMMA HiddenNext ==
  ASSUME Advances, ~Hidden(at)
  PROVE  Hidden(at + 1) <=> file[at].is = "open" /\ file[at].name # "connection"
<1>1. Len(file) \in Nat /\ at \in 1..Len(file) /\ (at + 1) - 1 = at /\ at \in Int
  BY DEF Advances
<1>2. at \in Configured(file)
  BY <1>1, ConfiguredIs DEF Hidden
<1>3. Hides(file, at, at + 1) <=> file[at].is = "open" /\ file[at].name # "connection"
  <2>1. \A j \in (at + 1)..((at + 1) - 1) : FALSE
    BY <1>1
  <2> QED
    BY <2>1 DEF Hides
<1>4. ASSUME NEW k \in 1..(at - 1), k \in Configured(file), Hides(file, k, at + 1) PROVE FALSE
  <2>1. \A j \in (k + 1)..(at - 1) : j \in (k + 1)..((at + 1) - 1)
    BY <1>1
  <2>2. Hides(file, k, at)
    BY <1>4, <2>1 DEF Hides
  <2> QED
    BY <1>4, <2>2 DEF Hidden
<1>5. \A k \in 1..((at + 1) - 1) : k = at \/ k \in 1..(at - 1)
  BY <1>1
<1>6. at \in 1..((at + 1) - 1)
  BY <1>1
<1> QED
  BY <1>2, <1>3, <1>4, <1>5, <1>6 DEF Hidden

\* Behind the end of an inline file nothing is hidden: it was the only one.
LEMMA HiddenEnds ==
  ASSUME Advances, NEW k \in 1..(at - 1), k \in Configured(file), Hides(file, k, at),
         file[at].is = "close", file[at].name = file[k].name
  PROVE  ~Hidden(at + 1)
<1>1. Len(file) \in Nat /\ at \in 1..Len(file) /\ (at + 1) - 1 = at /\ at \in Int /\ k \in 1..Len(file) /\ k < at
  BY DEF Advances
<1>2. SUFFICES ASSUME NEW m \in 1..at, m \in Configured(file), Hides(file, m, at + 1) PROVE FALSE
  BY <1>1 DEF Hidden
<1>3. CASE m = k
  <2>1. at \in (k + 1)..((at + 1) - 1)
    BY <1>1
  <2> QED
    BY <1>2, <1>3, <2>1 DEF Hides
<1>4. CASE m < k
  <2>1. m \in 1..(k - 1) /\ \A j \in (m + 1)..(k - 1) : j \in (m + 1)..((at + 1) - 1)
    BY <1>1, <1>4
  <2>2. Hides(file, m, k)
    BY <1>2, <2>1 DEF Hides
  <2> QED
    BY <1>1, <1>2, <2>1, <2>2, ConfiguredIs
<1>5. CASE k < m
  <2>1. m \in 1..Len(file) /\ k \in 1..(m - 1) /\ \A j \in (k + 1)..(m - 1) : j \in (k + 1)..(at - 1)
    BY <1>1, <1>5
  <2>2. Hides(file, k, m)
    BY <2>1 DEF Hides
  <2> QED
    BY <1>1, <1>2, <2>1, <2>2, ConfiguredIs
<1> QED
  BY <1>1, <1>3, <1>4, <1>5

\* What the parser makes of a tag.
NextSkipping ==
  IF file[at].is = "open" /\ Parsing /\ file[at].name # "connection" THEN file[at].name
  ELSE IF file[at].is = "close" /\ ~Parsing /\ file[at].name = skipping THEN NoValue
  ELSE skipping

\* It skips on exactly what is hidden.
LEMMA SkipKept ==
  ASSUME Advances, SkipInv, skipping' = NextSkipping, file[at].is = "open" => file[at].name # NoValue
  PROVE  SkipInv'
<1>1. Len(file) \in Nat /\ at \in 1..Len(file) /\ at' = at + 1 /\ file' = file /\ (at + 1) - 1 = at /\ at \in Int
  BY DEF Advances
<1>2. Hidden(at)' <=> Hidden(at + 1)
  BY <1>1 DEF Hidden
<1>3. SUFFICES /\ skipping' = NoValue => ~Hidden(at + 1)
               /\ skipping' # NoValue => \E k \in 1..at : /\ k \in Configured(file) /\ Hides(file, k, at + 1)
                                                          /\ file[k].name = skipping'
  BY <1>1, <1>2 DEF SkipInv
<1>4. CASE skipping = NoValue
  <2>1. ~Hidden(at) /\ Parsing
    BY <1>4 DEF SkipInv, Parsing
  <2>2. at \in Configured(file)
    BY <2>1, ParsingIsRight
  <2>3. CASE file[at].is = "open" /\ file[at].name # "connection"
    <3>1. skipping' = file[at].name /\ skipping' # NoValue
      BY <2>1, <2>3 DEF NextSkipping
    <3>2. \A j \in (at + 1)..((at + 1) - 1) : FALSE
      BY <1>1
    <3>3. Hides(file, at, at + 1) /\ at \in 1..at
      BY <1>1, <2>3, <3>2 DEF Hides
    <3> QED
      BY <2>2, <3>1, <3>3
  <2>4. CASE ~(file[at].is = "open" /\ file[at].name # "connection")
    <3>1. skipping' = NoValue
      BY <1>4, <2>1, <2>4 DEF NextSkipping
    <3>2. ~Hidden(at + 1)
      BY <2>1, <2>4, HiddenNext
    <3> QED
      BY <3>1, <3>2
  <2> QED
    BY <2>3, <2>4
<1>5. CASE skipping # NoValue
  <2>1. PICK k \in 1..(at - 1) : k \in Configured(file) /\ Hides(file, k, at) /\ file[k].name = skipping
    BY <1>5 DEF SkipInv
  <2>2. ~Parsing /\ k \in 1..at
    BY <1>1, <1>5 DEF Parsing
  <2>3. CASE file[at].is = "close" /\ file[at].name = skipping
    <3>1. skipping' = NoValue
      BY <2>2, <2>3 DEF NextSkipping
    <3>2. ~Hidden(at + 1)
      BY <2>1, <2>3, HiddenEnds
    <3> QED
      BY <3>1, <3>2
  <2>4. CASE ~(file[at].is = "close" /\ file[at].name = skipping)
    <3>1. skipping' = skipping
      BY <2>2, <2>4 DEF NextSkipping
    <3>2. Hides(file, k, at + 1)
      BY <2>1, <2>4, HidesOn
    <3> QED
      BY <1>5, <2>1, <2>2, <3>1, <3>2
  <2> QED
    BY <2>3, <2>4
<1> QED
  BY <1>4, <1>5

\* The default port follows the lines that configure it.
LEMMA DefaultKept ==
  ASSUME Advances, DefaultInv,
         defaults'.port = IF at \in Configured(file) /\ Is(file, at, "port") THEN Port(file[at].port) ELSE defaults.port
  PROVE  DefaultInv'
<1> DEFINE ports == {i \in 1..(at - 1) : i \in Configured(file) /\ Is(file, i, "port")}
           now   == {i \in 1..at : i \in Configured(file) /\ Is(file, i, "port")}
<1>1. at \in Int /\ at >= 1 /\ at' - 1 = at /\ file' = file
  BY DEF Advances
<1>2. \A n : Port(n)' = Port(n)
  BY DEF Port
<1>3. SUFFICES \/ now = {} /\ defaults'.port = 1194
               \/ \E i \in now : (\A j \in now : j <= i) /\ defaults'.port = Port(file[i].port)
  BY <1>1 DEF DefaultInv, Port
<1>4. \/ ports = {} /\ defaults.port = 1194
      \/ \E i \in ports : (\A j \in ports : j <= i) /\ defaults.port = Port(file[i].port)
  BY DEF DefaultInv
<1>5. CASE at \in Configured(file) /\ Is(file, at, "port")
  <2>1. at \in now /\ \A j \in now : j <= at
    BY <1>1, <1>5
  <2> QED
    BY <1>5, <2>1
<1>6. CASE ~(at \in Configured(file) /\ Is(file, at, "port"))
  <2>1. now = ports
    BY <1>1, <1>6
  <2> HIDE DEF now, ports
  <2> QED
    BY <1>4, <1>6, <2>1
<1> QED
  BY <1>5, <1>6

\* What is said stays true of one line more, if it is true of that line.
LEMMA SaidKept ==
  ASSUME Advances, SaidInv, vpn.full \in BOOLEAN, vpn.secret \in BOOLEAN,
         ~vpn'.full => ~vpn.full, ~vpn'.secret => ~vpn.secret,
         kind = "openvpn" /\ ~vpn'.full => ~(Is(file, at, "redirect-gateway") /\ at \in Configured(file)),
         kind = "wireguard" /\ ~vpn'.full =>
           (Is(file, at, "allowedips") /\ at \in InPeers(file) => \A s \in WholeSpace : ~(s \subseteq file[at].value)),
         kind = "openvpn" /\ ~vpn'.secret => (at \in Configured(file) /\ file[at].is = "open" => file[at].name # "key")
  PROVE  SaidInv'
<1>1. at \in Int /\ at' - 1 = at /\ file' = file /\ kind' = kind
  BY DEF Advances
<1>2. \A i \in 1..at : i = at \/ i \in 1..(at - 1)
  BY <1>1
<1>3. WholeSpace' = WholeSpace
  BY DEF WholeSpace
<1> QED
  BY <1>1, <1>2, <1>3 DEF SaidInv, Is

\* A line belongs to a peer when its section does.
LEMMA PeerIsRight ==
  ASSUME Advances, SectionInv, file[at].is # "section"
  PROVE  InPeer <=> at \in InPeers(file)
<1>1. at \in Int /\ at \in 1..Len(file)
  BY DEF Advances
<1>2. ASSUME NEW k \in 1..(at - 1)
      PROVE (\A j \in (k + 1)..(at - 1) : file[j].is # "section") <=> (\A j \in (k + 1)..at : file[j].is # "section")
  <2>1. \A j \in (k + 1)..at : j = at \/ j \in (k + 1)..(at - 1)
    BY <1>1
  <2>2. \A j \in (k + 1)..(at - 1) : j \in (k + 1)..at
    BY <1>1
  <2> QED
    BY <2>1, <2>2
<1> QED
  BY <1>1, <1>2 DEF SectionInv, InPeers

\* The section is the last one opened.
LEMMA SectionKept ==
  ASSUME Advances, SectionInv,
         section' = IF file[at].is # "section" THEN section
                    ELSE IF LowerCase(file[at].name) \in {"interface", "peer"} THEN LowerCase(file[at].name) ELSE NoValue
  PROVE  SectionInv'
<1>1. at \in Int /\ at >= 1 /\ at' - 1 = at /\ file' = file
  BY DEF Advances
<1>2. SUFFICES section' = "peer" <=>
                 \E k \in 1..at : /\ file[k].is = "section" /\ LowerCase(file[k].name) = "peer"
                                  /\ \A j \in (k + 1)..at : file[j].is # "section"
  BY <1>1 DEF SectionInv, InPeer
<1>3. CASE file[at].is = "section"
  <2>1. section' = "peer" <=> LowerCase(file[at].name) = "peer"
    BY <1>3, ConfigAssumption
  <2>2. \A j \in (at + 1)..at : FALSE
    BY <1>1
  <2>3. \A k \in 1..at : k = at \/ at \in (k + 1)..at
    BY <1>1
  <2>4. at \in 1..at
    BY <1>1
  <2> QED
    BY <1>3, <2>1, <2>2, <2>3, <2>4
<1>4. CASE file[at].is # "section"
  <2>1. \A k \in 1..at : k = at \/ k \in 1..(at - 1)
    BY <1>1
  <2>2. \A k \in 1..(at - 1) : k \in 1..at
    BY <1>1
  <2>3. ASSUME NEW k \in 1..(at - 1)
        PROVE (\A j \in (k + 1)..(at - 1) : file[j].is # "section") <=> (\A j \in (k + 1)..at : file[j].is # "section")
    <3>1. \A j \in (k + 1)..at : j = at \/ j \in (k + 1)..(at - 1)
      BY <1>1
    <3>2. \A j \in (k + 1)..(at - 1) : j \in (k + 1)..at
      BY <1>1
    <3> QED
      BY <1>4, <3>1, <3>2
  <2> QED
    BY <1>4, <2>1, <2>2, <2>3 DEF SectionInv, InPeer
<1> QED
  BY <1>3, <1>4

\* Before a line is read, and when it is.
LEMMA Reading ==
  ASSUME ConfigInv, parsed = NoValue, at <= Len(file), at' = at + 1, UNCHANGED <<file, kind, parsed>>
  PROVE  /\ Advances /\ ConfigTypes /\ EndpointInv /\ SaidInv
         /\ kind = "openvpn" => SkipInv /\ DefaultInv
         /\ kind = "wireguard" => SectionInv
         /\ kind \in {"openvpn", "wireguard"}
         /\ \A name \in {"remote", "port", "endpoint"} : Is(file, at, name) => file[at].port \in Int
         /\ file[at].is = "open" => file[at].name # NoValue
         /\ PortBits \in Nat \ {0}
<1>1. file \in Files /\ kind = Sniffed(file) /\ ConfigTypes /\ EndpointInv /\ SaidInv
  BY DEF ConfigInv
<1>2. Len(file) \in Nat /\ PortBits \in Nat \ {0}
  BY <1>1, ConfigAssumption
<1>3. at \in 1..Len(file)
  BY <1>1, <1>2 DEF ConfigTypes
<1>4. Advances
  BY <1>2, <1>3 DEF Advances
<1>5. /\ \A name \in {"remote", "port", "endpoint"} : Is(file, at, name) => file[at].port \in Int
      /\ file[at].is = "open" => file[at].name # NoValue
  BY <1>1, <1>3, ConfigAssumption DEF Is
<1> QED
  BY <1>1, <1>2, <1>4, <1>5 DEF ConfigInv

\* Nothing else is asked of it.
LEMMA LineKept ==
  ASSUME ConfigInv, parsed = NoValue, Advances, defaults' \in [udp : BOOLEAN, port : Int],
         vpn' \in VpnType,
         EndpointInv', SaidInv', kind = "openvpn" => SkipInv' /\ DefaultInv',
         kind = "wireguard" => SectionInv'
  PROVE  ConfigInv'
<1>1. Len(file) \in Nat /\ at \in 1..Len(file) /\ at' = at + 1 /\ file' = file /\ kind' = kind /\ parsed' = NoValue
  BY DEF Advances
<1>2. VpnType' = VpnType
  BY <1>1 DEF VpnType, EndpointSet
<1>3. at' \in 1..(Len(file') + 1)
  BY <1>1
<1>4. ConfigTypes'
  BY <1>2, <1>3 DEF ConfigTypes
<1>5. file' \in Files /\ kind' = Sniffed(file')
  BY <1>1 DEF ConfigInv, Sniffed, Mentioned
<1>6. ImportIsFaithful'
  BY <1>1, ConfigAssumption DEF ImportIsFaithful, EndpointsAreConfigured, FullTunnelIsSaid
<1> QED
  BY <1>1, <1>4, <1>5, <1>6 DEF ConfigInv

\* A line of an OpenVPN file that adds no endpoint.
LEMMA OpenvpnKept ==
  ASSUME ConfigInv, NEW what \in {"open", "close", "section", "comment", "option"}, Openvpn(what), Keeps,
         skipping' = NextSkipping, defaults' \in [udp : BOOLEAN, port : Int],
         defaults'.port = IF at \in Configured(file) /\ Is(file, at, "port") THEN Port(file[at].port) ELSE defaults.port,
         vpn' \in VpnType, EndpointInv',
         ~vpn'.full => ~vpn.full, ~vpn'.secret => ~vpn.secret,
         Is(file, at, "redirect-gateway") /\ at \in Configured(file) => vpn'.full,
         what = "open" /\ at \in Configured(file) /\ file[at].name = "key" => vpn'.secret
  PROVE  ConfigInv'
<1>1. /\ kind = "openvpn" /\ kind # "wireguard" /\ parsed = NoValue /\ at <= Len(file) /\ at' = at + 1
      /\ file[at].is = what /\ UNCHANGED <<file, kind, parsed>>
  BY DEF Openvpn, Reads, Line, Keeps
<1>2. /\ Advances /\ ConfigTypes /\ SaidInv /\ SkipInv /\ DefaultInv
      /\ file[at].is = "open" => file[at].name # NoValue
  BY <1>1, Reading
<1>3. SkipInv'
  BY <1>2, SkipKept
<1>4. DefaultInv'
  BY <1>1, <1>2, DefaultKept
<1>5. SaidInv'
  <2>1. vpn.full \in BOOLEAN /\ vpn.secret \in BOOLEAN
    BY <1>2 DEF ConfigTypes, VpnType
  <2> QED
    BY <1>1, <1>2, <2>1, SaidKept
<1> QED
  BY <1>1, <1>2, <1>3, <1>4, <1>5, LineKept

\* A line of a WireGuard file that adds no endpoint.
LEMMA WireguardKept ==
  ASSUME ConfigInv, NEW what \in {"open", "close", "section", "comment", "option"}, Wireguard(what), Keeps,
         section' = IF what # "section" THEN section
                    ELSE IF LowerCase(file[at].name) \in {"interface", "peer"} THEN LowerCase(file[at].name) ELSE NoValue,
         vpn' \in VpnType, EndpointInv',
         ~vpn'.full => ~vpn.full, vpn'.secret = vpn.secret,
         ~vpn'.full /\ Is(file, at, "allowedips") /\ InPeer => \A s \in WholeSpace : ~(s \subseteq file[at].value)
  PROVE  ConfigInv'
<1>1. /\ kind = "wireguard" /\ kind # "openvpn" /\ parsed = NoValue /\ at <= Len(file) /\ at' = at + 1
      /\ file[at].is = what /\ UNCHANGED <<file, kind, parsed, skipping, defaults>>
  BY DEF Wireguard, Reads, Line, Keeps
<1>2. Advances /\ ConfigTypes /\ SaidInv /\ SectionInv
  BY <1>1, Reading
<1>3. SectionInv'
  BY <1>1, <1>2, SectionKept
<1>4. SaidInv'
  <2>1. vpn.full \in BOOLEAN /\ vpn.secret \in BOOLEAN
    BY <1>2 DEF ConfigTypes, VpnType
  <2>2. Is(file, at, "allowedips") => (InPeer <=> at \in InPeers(file))
    BY <1>1, <1>2, PeerIsRight DEF Is
  <2> QED
    BY <1>1, <1>2, <2>1, <2>2, SaidKept
<1>5. defaults' \in [udp : BOOLEAN, port : Int]
  BY <1>1, <1>2 DEF ConfigTypes
<1> QED
  BY <1>1, <1>2, <1>3, <1>4, <1>5, LineKept

-----------------------------------------------------------------------------
(* The lines.                                                              *)

\* The opening tag of a block.
LEMMA OpensKeeps == ConfigInv /\ Opens => ConfigInv'
<1> SUFFICES ASSUME ConfigInv, Opens PROVE ConfigInv'
  OBVIOUS
<1>1. /\ Openvpn("open") /\ Keeps /\ UNCHANGED defaults
      /\ IF Parsing /\ ~Container(file[at].name)
           THEN skipping' = file[at].name /\ vpn' = [vpn EXCEPT !.secret = @ \/ Secret(file[at].name)]
           ELSE UNCHANGED <<skipping, vpn>>
  BY DEF Opens, Line
<1>2. /\ kind = "openvpn" /\ parsed = NoValue /\ at <= Len(file) /\ at' = at + 1 /\ file[at].is = "open"
      /\ UNCHANGED <<file, kind, parsed>>
  BY <1>1 DEF Openvpn, Reads, Line, Keeps
<1>3. Advances /\ ConfigTypes /\ EndpointInv /\ SkipInv
  BY <1>2, Reading
<1>4. skipping' = NextSkipping
  BY <1>1, <1>2 DEF NextSkipping, Container
<1>5. vpn \in VpnType /\ defaults \in [udp : BOOLEAN, port : Int]
  BY <1>3 DEF ConfigTypes
<1>6. /\ vpn' \in VpnType /\ vpn'.endpoints = vpn.endpoints /\ vpn'.truncated = vpn.truncated /\ vpn'.full = vpn.full
      /\ vpn.secret => vpn'.secret
      /\ Parsing /\ ~Container(file[at].name) /\ Secret(file[at].name) => vpn'.secret
  <2>1. CASE Parsing /\ ~Container(file[at].name)
    <3>1. (vpn.secret \/ Secret(file[at].name)) \in BOOLEAN
      OBVIOUS
    <3>2. vpn' = [vpn EXCEPT !.secret = vpn.secret \/ Secret(file[at].name)]
      BY <1>1, <2>1
    <3> QED
      BY <1>5, <3>1, <3>2 DEF VpnType
  <2>2. CASE ~(Parsing /\ ~Container(file[at].name))
    BY <1>1, <1>5, <2>2
  <2> QED
    BY <2>1, <2>2
<1>7. EndpointInv'
  BY <1>2, <1>3, <1>6, NoEndpoint DEF NamesRemote, Is
<1>8. at \in Configured(file) /\ file[at].name = "key" => vpn'.secret
  <2>1. ASSUME file[at].name = "key" PROVE Secret(file[at].name) /\ ~Container(file[at].name)
    BY <2>1, ConfigAssumption DEF Secret, Container
  <2> QED
    BY <1>3, <1>6, <2>1, ParsingIsRight
<1> QED
  BY <1>1, <1>2, <1>4, <1>5, <1>6, <1>7, <1>8, OpenvpnKept DEF Is

\* A closing tag.
LEMMA ClosingKeeps == ConfigInv /\ Closing => ConfigInv'
<1> SUFFICES ASSUME ConfigInv, Closing PROVE ConfigInv'
  OBVIOUS
<1>1. /\ Openvpn("close") /\ Keeps /\ UNCHANGED <<defaults, vpn>>
      /\ skipping' = IF ~Parsing /\ file[at].name = skipping THEN NoValue ELSE skipping
  BY DEF Closing, Line, Closes
<1>2. /\ kind = "openvpn" /\ parsed = NoValue /\ at <= Len(file) /\ at' = at + 1 /\ file[at].is = "close"
      /\ UNCHANGED <<file, kind, parsed>>
  BY <1>1 DEF Openvpn, Reads, Line, Keeps
<1>3. Advances /\ ConfigTypes /\ EndpointInv
  BY <1>2, Reading
<1>4. skipping' = NextSkipping
  BY <1>1, <1>2 DEF NextSkipping
<1>5. vpn \in VpnType /\ defaults \in [udp : BOOLEAN, port : Int]
  BY <1>3 DEF ConfigTypes
<1>6. EndpointInv'
  BY <1>1, <1>2, <1>3, NoEndpoint DEF NamesRemote, Is
<1> QED
  BY <1>1, <1>2, <1>4, <1>5, <1>6, OpenvpnKept DEF Is

\* A remote.
LEMMA RemoteKeeps == ConfigInv /\ Remote => ConfigInv'
<1> SUFFICES ASSUME ConfigInv, Remote PROVE ConfigInv'
  OBVIOUS
<1>1. /\ Openvpn("option") /\ Named("remote") /\ Keeps /\ UNCHANGED <<skipping, defaults>>
      /\ vpn' = IF Parsing THEN Added(file[at].host, Port(file[at].port), Udp(file[at].proto)) ELSE vpn
  BY DEF Remote, Line
<1>2. /\ kind = "openvpn" /\ parsed = NoValue /\ at <= Len(file) /\ at' = at + 1 /\ Is(file, at, "remote")
      /\ UNCHANGED <<file, kind, parsed>>
  BY <1>1 DEF Openvpn, Reads, Line, Keeps, Named, Is
<1>3. Advances /\ ConfigTypes /\ EndpointInv /\ SkipInv /\ file[at].port \in Int /\ PortBits \in Nat \ {0}
  BY <1>2, Reading
<1>4. skipping' = NextSkipping
  BY <1>1, <1>2 DEF NextSkipping, Is
<1>5. vpn \in VpnType /\ defaults \in [udp : BOOLEAN, port : Int]
  BY <1>3 DEF ConfigTypes
<1>6. Parsing <=> NamesRemote(file, kind, at)
  BY <1>2, <1>3, ParsingIsRight DEF NamesRemote
<1>7. EndpointInv' /\ vpn' \in VpnType /\ vpn'.full = vpn.full /\ vpn'.secret = vpn.secret
  <2>1. CASE Parsing
    <3>1. WrittenPort(at) = Port(file[at].port) /\ WrittenPort(at) \in Int
      BY <1>2, <1>3 DEF WrittenPort, Port
    <3>2. Udp(file[at].proto) \in BOOLEAN
      BY <1>5 DEF Udp
    <3>3. vpn' = Added(file[at].host, WrittenPort(at), Udp(file[at].proto))
      BY <1>1, <2>1, <3>1
    <3> QED
      BY <1>3, <1>6, <2>1, <3>1, <3>2, <3>3, OneEndpoint
  <2>2. CASE ~Parsing
    BY <1>1, <1>3, <1>5, <1>6, <2>2, NoEndpoint
  <2> QED
    BY <2>1, <2>2
<1> QED
  BY <1>1, <1>2, <1>4, <1>5, <1>7, OpenvpnKept DEF Is

\* A default.
LEMMA DefaultKeeps == ConfigInv /\ Default => ConfigInv'
<1> SUFFICES ASSUME ConfigInv, Default PROVE ConfigInv'
  OBVIOUS
<1>1. PICK what \in {"proto", "port"} :
        /\ Openvpn("option") /\ Named(what) /\ Keeps /\ UNCHANGED <<skipping, vpn>>
        /\ defaults' = IF ~Parsing THEN defaults
                       ELSE IF what = "proto" THEN [defaults EXCEPT !.udp = file[at].proto = "udp"]
                       ELSE [defaults EXCEPT !.port = Port(file[at].port)]
  BY DEF Default, Line
<1>2. /\ kind = "openvpn" /\ parsed = NoValue /\ at <= Len(file) /\ at' = at + 1 /\ Is(file, at, what)
      /\ UNCHANGED <<file, kind, parsed>>
  BY <1>1 DEF Openvpn, Reads, Line, Keeps, Named, Is
<1>3. /\ Advances /\ ConfigTypes /\ EndpointInv /\ SkipInv /\ PortBits \in Nat \ {0}
      /\ what = "port" => file[at].port \in Int
  BY <1>2, Reading
<1>4. skipping' = NextSkipping
  BY <1>1, <1>2 DEF NextSkipping, Is
<1>5. vpn \in VpnType /\ defaults \in [udp : BOOLEAN, port : Int]
  BY <1>3 DEF ConfigTypes
<1>6. Parsing <=> at \in Configured(file)
  BY <1>3, ParsingIsRight
<1>7. what = "port" => Port(file[at].port) \in Int
  BY <1>3 DEF Port
<1>8. /\ defaults' \in [udp : BOOLEAN, port : Int]
      /\ defaults'.port = IF at \in Configured(file) /\ what = "port" THEN Port(file[at].port) ELSE defaults.port
  <2>1. (file[at].proto = "udp") \in BOOLEAN
    OBVIOUS
  <2> QED
    BY <1>1, <1>5, <1>6, <1>7, <2>1
<1>9. EndpointInv'
  BY <1>1, <1>2, <1>3, NoEndpoint DEF NamesRemote, Is
<1> QED
  BY <1>1, <1>2, <1>4, <1>5, <1>8, <1>9, OpenvpnKept DEF Is

\* A redirected gateway.
LEMMA RedirectGatewayKeeps == ConfigInv /\ RedirectGateway => ConfigInv'
<1> SUFFICES ASSUME ConfigInv, RedirectGateway PROVE ConfigInv'
  OBVIOUS
<1>1. /\ Openvpn("option") /\ Named("redirect-gateway") /\ Keeps /\ UNCHANGED <<skipping, defaults>>
      /\ vpn' = [vpn EXCEPT !.full = vpn.full \/ Parsing]
  BY DEF RedirectGateway
<1>2. /\ kind = "openvpn" /\ parsed = NoValue /\ at <= Len(file) /\ at' = at + 1 /\ Is(file, at, "redirect-gateway")
      /\ UNCHANGED <<file, kind, parsed>>
  BY <1>1 DEF Openvpn, Reads, Line, Keeps, Named, Is
<1>3. Advances /\ ConfigTypes /\ EndpointInv /\ SkipInv
  BY <1>2, Reading
<1>4. skipping' = NextSkipping
  BY <1>1, <1>2 DEF NextSkipping, Is
<1>5. vpn \in VpnType /\ defaults \in [udp : BOOLEAN, port : Int]
  BY <1>3 DEF ConfigTypes
<1>6. /\ vpn' \in VpnType /\ vpn'.endpoints = vpn.endpoints /\ vpn'.truncated = vpn.truncated /\ vpn'.secret = vpn.secret
      /\ vpn'.full <=> vpn.full \/ Parsing
  <2>1. (vpn.full \/ Parsing) \in BOOLEAN
    OBVIOUS
  <2> QED
    BY <1>1, <1>5, <2>1 DEF VpnType
<1>7. EndpointInv'
  BY <1>2, <1>3, <1>6, NoEndpoint DEF NamesRemote, Is
<1>8. at \in Configured(file) => vpn'.full
  BY <1>3, <1>6, ParsingIsRight
<1> QED
  BY <1>1, <1>2, <1>4, <1>5, <1>6, <1>7, <1>8, OpenvpnKept DEF Is

\* Any other line of an OpenVPN file.
LEMMA OtherDirectiveKeeps == ConfigInv /\ OtherDirective => ConfigInv'
<1> SUFFICES ASSUME ConfigInv, OtherDirective PROVE ConfigInv'
  OBVIOUS
<1>1. PICK what \in {"section", "comment", "option"} :
        /\ Openvpn(what) /\ Keeps /\ UNCHANGED <<skipping, defaults, vpn>>
        /\ what = "option" => \A name \in {"remote", "proto", "port", "redirect-gateway"} : ~Named(name)
  BY DEF OtherDirective
<1>2. /\ kind = "openvpn" /\ parsed = NoValue /\ at <= Len(file) /\ at' = at + 1 /\ file[at].is = what
      /\ UNCHANGED <<file, kind, parsed>>
      /\ \A name \in {"remote", "proto", "port", "redirect-gateway"} : ~Is(file, at, name)
  BY <1>1 DEF Openvpn, Reads, Line, Keeps, Named, Is
<1>3. Advances /\ ConfigTypes /\ EndpointInv
  BY <1>2, Reading
<1>4. skipping' = NextSkipping
  BY <1>1, <1>2 DEF NextSkipping
<1>5. vpn \in VpnType /\ defaults \in [udp : BOOLEAN, port : Int]
  BY <1>3 DEF ConfigTypes
<1>6. EndpointInv'
  BY <1>1, <1>2, <1>3, NoEndpoint DEF NamesRemote
<1> QED
  BY <1>1, <1>2, <1>4, <1>5, <1>6, OpenvpnKept

\* A section of a WireGuard file.
LEMMA SectionKeeps == ConfigInv /\ Section => ConfigInv'
<1> SUFFICES ASSUME ConfigInv, Section PROVE ConfigInv'
  OBVIOUS
<1>1. /\ Wireguard("section") /\ Keeps /\ UNCHANGED vpn
      /\ section' = IF LowerCase(file[at].name) \in {"interface", "peer"} THEN LowerCase(file[at].name) ELSE NoValue
  BY DEF Section, Line, Named
<1>2. /\ kind = "wireguard" /\ parsed = NoValue /\ at <= Len(file) /\ at' = at + 1 /\ file[at].is = "section"
      /\ UNCHANGED <<file, kind, parsed>>
  BY <1>1 DEF Wireguard, Reads, Line, Keeps, Named, Is
<1>3. Advances /\ ConfigTypes /\ EndpointInv
  BY <1>2, Reading
<1>4. vpn \in VpnType
  BY <1>3 DEF ConfigTypes
<1>5. EndpointInv'
  BY <1>1, <1>2, <1>3, NoEndpoint DEF NamesRemote, Is
<1> QED
  BY <1>1, <1>2, <1>4, <1>5, WireguardKept DEF Is

\* The allowed addresses of a peer.
LEMMA AllowedKeeps == ConfigInv /\ AllowedIPs => ConfigInv'
<1> SUFFICES ASSUME ConfigInv, AllowedIPs PROVE ConfigInv'
  OBVIOUS
<1>1. /\ Wireguard("option") /\ Named("allowedips") /\ Keeps /\ UNCHANGED section
      /\ vpn' = [vpn EXCEPT !.full = vpn.full \/ (InPeer /\ Full(file[at].value))]
  BY DEF AllowedIPs, Line
<1>2. /\ kind = "wireguard" /\ parsed = NoValue /\ at <= Len(file) /\ at' = at + 1 /\ Is(file, at, "allowedips")
      /\ UNCHANGED <<file, kind, parsed>>
  BY <1>1 DEF Wireguard, Reads, Line, Keeps, Named, Is
<1>3. Advances /\ ConfigTypes /\ EndpointInv
  BY <1>2, Reading
<1>4. vpn \in VpnType
  BY <1>3 DEF ConfigTypes
<1>5. /\ vpn' \in VpnType /\ vpn'.endpoints = vpn.endpoints /\ vpn'.truncated = vpn.truncated /\ vpn'.secret = vpn.secret
      /\ vpn'.full <=> vpn.full \/ (InPeer /\ Full(file[at].value))
  <2>1. (vpn.full \/ (InPeer /\ Full(file[at].value))) \in BOOLEAN
    OBVIOUS
  <2> QED
    BY <1>1, <1>4, <2>1 DEF VpnType
<1>6. EndpointInv'
  BY <1>2, <1>3, <1>5, NoEndpoint DEF NamesRemote, Is
<1>7. ASSUME NEW s \in WholeSpace, s \subseteq file[at].value PROVE Full(file[at].value)
  <2>1. file[at].value \subseteq Mentions(file[at].value)
    BY DEF Mentions
  <2> QED
    BY <1>7, <2>1 DEF Full
<1>8. ~vpn'.full /\ InPeer => \A s \in WholeSpace : ~(s \subseteq file[at].value)
  BY <1>5, <1>7
<1>9. ~vpn'.full => ~vpn.full
  BY <1>5
<1> QED
  BY <1>1, <1>2, <1>5, <1>6, <1>8, <1>9, WireguardKept

\* The endpoint of a peer.
LEMMA EndpointKeeps == ConfigInv /\ Endpoint => ConfigInv'
<1> SUFFICES ASSUME ConfigInv, Endpoint PROVE ConfigInv'
  OBVIOUS
<1>1. /\ Wireguard("option") /\ Named("endpoint") /\ Keeps /\ UNCHANGED section
      /\ vpn' = IF InPeer /\ InRange(file[at].port) THEN Added(file[at].host, file[at].port, TRUE) ELSE vpn
  BY DEF Endpoint, Line, InRange
<1>2. /\ kind = "wireguard" /\ kind # "openvpn" /\ parsed = NoValue /\ at <= Len(file) /\ at' = at + 1
      /\ Is(file, at, "endpoint") /\ file[at].is # "section" /\ UNCHANGED <<file, kind, parsed>>
  BY <1>1 DEF Wireguard, Reads, Line, Keeps, Named, Is
<1>3. Advances /\ ConfigTypes /\ EndpointInv /\ SectionInv /\ file[at].port \in Int
  BY <1>2, Reading
<1>4. vpn \in VpnType
  BY <1>3 DEF ConfigTypes
<1>5. InPeer /\ InRange(file[at].port) <=> NamesRemote(file, kind, at)
  BY <1>2, <1>3, PeerIsRight DEF NamesRemote
<1>6. EndpointInv' /\ vpn' \in VpnType /\ vpn'.full = vpn.full /\ vpn'.secret = vpn.secret
  <2>1. CASE InPeer /\ InRange(file[at].port)
    <3>1. WrittenPort(at) = file[at].port /\ TRUE \in BOOLEAN
      BY <1>2 DEF WrittenPort
    <3>2. vpn' = Added(file[at].host, WrittenPort(at), TRUE)
      BY <1>1, <2>1, <3>1
    <3> QED
      BY <1>3, <1>5, <2>1, <3>1, <3>2, OneEndpoint
  <2>2. CASE ~(InPeer /\ InRange(file[at].port))
    BY <1>1, <1>3, <1>4, <1>5, <2>2, NoEndpoint
  <2> QED
    BY <2>1, <2>2
<1> QED
  BY <1>1, <1>2, <1>6, WireguardKept DEF Is

\* Any other line of a WireGuard file.
LEMMA OtherKeyKeeps == ConfigInv /\ OtherKey => ConfigInv'
<1> SUFFICES ASSUME ConfigInv, OtherKey PROVE ConfigInv'
  OBVIOUS
<1>1. PICK what \in {"open", "close", "comment", "option"} :
        /\ Wireguard(what) /\ Keeps /\ UNCHANGED <<section, vpn>>
        /\ what = "option" => ~Named("allowedips") /\ ~Named("endpoint")
  BY DEF OtherKey
<1>2. /\ kind = "wireguard" /\ parsed = NoValue /\ at <= Len(file) /\ at' = at + 1 /\ file[at].is = what
      /\ UNCHANGED <<file, kind, parsed>> /\ ~Is(file, at, "allowedips") /\ ~Is(file, at, "endpoint")
  BY <1>1 DEF Wireguard, Reads, Line, Keeps, Named, Is
<1>3. Advances /\ ConfigTypes /\ EndpointInv
  BY <1>2, Reading
<1>4. vpn \in VpnType
  BY <1>3 DEF ConfigTypes
<1>5. EndpointInv'
  BY <1>1, <1>2, <1>3, NoEndpoint DEF NamesRemote
<1> QED
  BY <1>1, <1>2, <1>4, <1>5, WireguardKept

-----------------------------------------------------------------------------
(* The end.                                                                *)

\* A remote's port at the end is the one the client reads.
LEMMA PortIsRight ==
  ASSUME ConfigInv, parsed = NoValue, at = Len(file) + 1, Len(file) \in Nat, kind = "openvpn", SpeltRight,
         NEW i \in 1..Len(file), file[i].port \in Int, InRange(PortOf(i))
  PROVE  PortOf(i) = IF Port(file[i].port) # 0 THEN Port(file[i].port)
                     ELSE IF defaults.port # 0 THEN defaults.port ELSE 1194
<1> DEFINE ports == {j \in 1..Len(file) : Directive(j, "port")}
<1>0. PortBits \in Nat \ {0} /\ file \in Files /\ DefaultInv
  BY ConfigAssumption DEF ConfigInv
<1>1. GlobalPort = IF ports = {} THEN 1194 ELSE file[CHOOSE j \in ports : \A l \in ports : l <= j].port
  BY DEF GlobalPort
<1>2. ports = {j \in 1..(at - 1) : j \in Configured(file) /\ Is(file, j, "port")}
  BY FileIs
<1>3. \/ ports = {} /\ defaults.port = 1194
      \/ \E j \in ports : (\A l \in ports : l <= j) /\ defaults.port = Port(file[j].port)
  <2> HIDE DEF ports
  <2> QED
    BY <1>0, <1>2 DEF DefaultInv
<1>4. \/ GlobalPort = 1194 /\ defaults.port = 1194
      \/ \E j \in ports : GlobalPort = file[j].port /\ defaults.port = Port(file[j].port)
  <2>1. CASE ports = {}
    <3> HIDE DEF ports
    <3> QED
      BY <1>1, <1>3, <2>1
  <2>2. ASSUME NEW j \in ports, \A l \in ports : l <= j PROVE GlobalPort = file[j].port
    <3>1. ports \subseteq Int
      OBVIOUS
    <3> HIDE DEF ports
    <3>2. \A m \in ports : (\A l \in ports : l <= m) => m = j
      BY <2>2, <3>1
    <3>3. (CHOOSE m \in ports : \A l \in ports : l <= m) = j
      BY <2>2, <3>2
    <3>4. ports # {}
      BY <2>2
    <3> QED
      BY <1>1, <3>3, <3>4
  <2> HIDE DEF ports
  <2> QED
    BY <1>3, <2>1, <2>2
<1>5. \A n \in 1..(PortBits - 1) : Port(n) = n
  BY <1>0 DEF Port
<1>6. Port(0) = 0
  BY <1>0 DEF Port
<1>7. CASE file[i].port # 0
  <2>1. PortOf(i) = file[i].port /\ file[i].port \in 1..(PortBits - 1)
    BY <1>7 DEF PortOf, InRange
  <2> QED
    BY <1>5, <2>1
<1>8. CASE file[i].port = 0
  <2>1. PortOf(i) = GlobalPort /\ GlobalPort \in 1..(PortBits - 1)
    BY <1>8 DEF PortOf, InRange
  <2>2. defaults.port = GlobalPort
    <3> HIDE DEF ports
    <3> QED
      BY <1>4, <1>5, <2>1
  <2> QED
    BY <1>6, <1>8, <2>1, <2>2
<1> QED
  BY <1>7, <1>8

\* What the clients read depends on the file alone.
LEMMA SameFile ==
  ASSUME file' = file, kind' = kind
  PROVE  /\ Configuration' = Configuration /\ PeerLines' = PeerLines /\ RemoteLines' = RemoteLines
         /\ GlobalPort' = GlobalPort /\ SpeltRight' = SpeltRight
         /\ \A i : PortOf(i)' = PortOf(i)
         /\ \A i, name : Directive(i, name)' = Directive(i, name) /\ PeerKey(i, name)' = PeerKey(i, name)
<1>1. Configuration' = Configured(file') /\ Configuration = Configured(file)
  BY DEF Configuration, Configured, ConfigTable
<1>2. PeerLines' = InPeers(file') /\ PeerLines = InPeers(file)
  BY DEF PeerLines, InPeers
<1>3. Configuration' = Configuration /\ PeerLines' = PeerLines
  BY <1>1, <1>2
<1>4. \A i, name : Directive(i, name)' = Directive(i, name) /\ PeerKey(i, name)' = PeerKey(i, name)
  BY <1>3 DEF Directive, PeerKey
<1>5. RemoteSet' = RemoteSet
  BY <1>4 DEF RemoteSet, InRange
<1>6. RemoteLines' = Listed(file', RemoteSet')[Len(file')] /\ RemoteLines = Listed(file, RemoteSet)[Len(file)]
  BY DEF RemoteLines, Listed
<1>7. RemoteLines' = RemoteLines
  BY <1>5, <1>6
<1>8. GlobalPort' = GlobalPort
  <2>1. {i \in 1..Len(file') : Directive(i, "port")'} = {i \in 1..Len(file) : Directive(i, "port")}
    BY <1>4
  <2> DEFINE S == {i \in 1..Len(file) : Directive(i, "port")}
             G(f, ports) == IF ports = {} THEN 1194 ELSE f[CHOOSE i \in ports : \A j \in ports : j <= i].port
  <2>2. GlobalPort = G(file, S) /\ GlobalPort' = G(file', {i \in 1..Len(file') : Directive(i, "port")'})
    BY DEF GlobalPort
  <2> HIDE DEF G
  <2> QED
    BY <2>1, <2>2
<1>9. SpeltRight' = SpeltRight
  BY <1>3 DEF SpeltRight
<1> QED
  BY <1>3, <1>4, <1>7, <1>8, <1>9 DEF PortOf

\* An endpoint that is given a port keeps its host.
LEMMA PortedIs ==
  ASSUME NEW e \in EndpointSet
  PROVE  /\ Ported(e).host = e.host
         /\ Ported(e).port = IF e.port # 0 THEN e.port ELSE IF defaults.port # 0 THEN defaults.port ELSE 1194
BY DEF Ported, EndpointSet

\* At the end the import says what the file says.
LEMMA EndsKeeps == ConfigInv /\ Ends => ConfigInv'
<1> SUFFICES ASSUME ConfigInv, Ends PROVE ConfigInv'
  OBVIOUS
<1> DEFINE r  == Remotes(file, kind)[Len(file)]
           es == vpn.endpoints
<1>1. /\ parsed = NoValue /\ at > Len(file) /\ UNCHANGED <<file, at, kind, section, skipping, defaults>>
      /\ parsed' = IF es = <<>> THEN "error" ELSE "ok"
      /\ vpn' = IF kind = "openvpn" THEN [vpn EXCEPT !.endpoints = [i \in DOMAIN es |-> Ported(es[i])]] ELSE vpn
  BY DEF Ends
<1>2. /\ file \in Files /\ kind = Sniffed(file) /\ kind \in {"openvpn", "wireguard"}
      /\ ConfigTypes /\ EndpointInv /\ SaidInv
  BY <1>1 DEF ConfigInv
<1>3. /\ Len(file) \in Nat /\ MaxEndpoints \in Nat \ {0} /\ NoValue \notin {"ok", "error"}
      /\ \A i \in 1..Len(file), name \in {"remote", "port", "endpoint"} : Is(file, i, name) => file[i].port \in Int
  BY <1>2, ConfigAssumption DEF Is
<1>4. at = Len(file) + 1 /\ at - 1 = Len(file)
  BY <1>1, <1>2, <1>3 DEF ConfigTypes
<1>5. vpn \in VpnType /\ es \in Seq(EndpointSet) /\ Len(es) \in Nat /\ DOMAIN es = 1..Len(es)
  BY <1>2 DEF ConfigTypes, VpnType
<1>6. parsed' # NoValue /\ (parsed' = "ok" <=> es # <<>>)
  BY <1>1, <1>3
<1>7. r = Remotes(file, kind)[at - 1] /\ r \in Seq(1..Len(file)) /\ Len(r) \in Nat
  <2>1. Len(file) \in 0..Len(file)
    BY <1>3
  <2>2. Remotes(file, kind)[Len(file)] \in Seq(1..Len(file))
    BY <1>3, <2>1, RemotesAre
  <2> QED
    BY <1>4, <2>1, <2>2
<1>8. /\ Len(es) = Room(Len(r)) /\ (vpn.truncated <=> Len(r) > MaxEndpoints)
      /\ \A e \in 1..Len(es) : es[e].host = file[r[e]].host /\ es[e].port = WrittenPort(r[e])
  <2> HIDE DEF r
  <2> QED
    BY <1>2, <1>7 DEF EndpointInv
<1>9. /\ Configuration' = Configuration /\ PeerLines' = PeerLines /\ SpeltRight' = SpeltRight
      /\ GlobalPort' = GlobalPort /\ file' = file /\ kind' = kind
      /\ (kind = "openvpn" => SpeltRight) => RemoteLines' = r
      /\ \A i, name : Directive(i, name)' = Directive(i, name) /\ PeerKey(i, name)' = PeerKey(i, name)
      /\ \A i : PortOf(i)' = PortOf(i)
  BY <1>1, FileIs, SameFile
<1>10. /\ vpn'.truncated = vpn.truncated /\ vpn'.full = vpn.full /\ vpn'.secret = vpn.secret
       /\ Len(vpn'.endpoints) = Len(es)
       /\ \A e \in 1..Len(es) : vpn'.endpoints[e] = IF kind = "openvpn" THEN Ported(es[e]) ELSE es[e]
  <2>1. CASE kind = "openvpn"
    <3>1. vpn' = [vpn EXCEPT !.endpoints = [i \in 1..Len(es) |-> Ported(es[i])]]
      BY <1>1, <1>5, <2>1
    <3> DEFINE given == [i \in 1..Len(es) |-> Ported(es[i])]
    <3>2. Len(given) = Len(es) /\ \A e \in 1..Len(es) : given[e] = Ported(es[e])
      <4> HIDE DEF es
      <4> QED
        BY <1>5
    <3>3. /\ vpn'.endpoints = given /\ vpn'.truncated = vpn.truncated /\ vpn'.full = vpn.full
          /\ vpn'.secret = vpn.secret
      <4> HIDE DEF given
      <4> QED
        BY <1>5, <3>1 DEF VpnType, given
    <3> HIDE DEF given, es
    <3> QED
      BY <2>1, <3>2, <3>3
  <2>2. CASE kind # "openvpn"
    BY <1>1, <2>2
  <2> QED
    BY <2>1, <2>2
<1>11. ASSUME NEW e \in 1..Len(es), NEW i, i = r[e], kind = "openvpn" => SpeltRight
       PROVE  /\ vpn'.endpoints[e].host = file[i].host
              /\ InRange(PortOf(i)) => vpn'.endpoints[e].port = PortOf(i)
  <2>1. es[e] \in EndpointSet /\ es[e].host = file[i].host /\ es[e].port = WrittenPort(i)
    BY <1>5, <1>8, <1>11
  <2>2. i \in 1..Len(file) /\ NamesRemote(file, kind, i)
    <3>1. e \in 1..Len(r)
      <4> HIDE DEF r, es
      <4> QED
        BY <1>3, <1>5, <1>7, <1>8, <1>11 DEF Room
    <3>2. i \in 1..Len(file)
      <4> HIDE DEF r
      <4> QED
        BY <1>7, <1>11, <3>1
    <3>3. NamesRemote(file, kind, i)
      BY <1>3, <1>7, <1>11, <3>1, RemotesName
    <3> QED
      BY <3>2, <3>3
  <2>3. file[i].port \in Int
    BY <1>3, <2>2 DEF NamesRemote
  <2>4. CASE kind = "openvpn"
    <3>1. vpn'.endpoints[e] = Ported(es[e]) /\ WrittenPort(i) = Port(file[i].port)
      BY <1>10, <1>11, <2>4 DEF WrittenPort
    <3>2. /\ Ported(es[e]).host = es[e].host
          /\ Ported(es[e]).port = IF es[e].port # 0 THEN es[e].port ELSE IF defaults.port # 0 THEN defaults.port ELSE 1194
      BY <2>1, PortedIs
    <3>3. InRange(PortOf(i)) => PortOf(i) = IF Port(file[i].port) # 0 THEN Port(file[i].port)
                                            ELSE IF defaults.port # 0 THEN defaults.port ELSE 1194
      BY <1>1, <1>3, <1>4, <1>11, <2>2, <2>3, <2>4, PortIsRight
    <3> HIDE DEF r, es
    <3> QED
      BY <2>1, <3>1, <3>2, <3>3
  <2>5. CASE kind # "openvpn"
    <3>1. vpn'.endpoints[e] = es[e] /\ WrittenPort(i) = file[i].port
      BY <1>10, <1>11, <2>5 DEF WrittenPort
    <3>2. file[i].port # 0
      BY <1>2, <2>2, <2>5 DEF NamesRemote, InRange
    <3>3. PortOf(i) = file[i].port
      BY <3>2 DEF PortOf
    <3> HIDE DEF r, es
    <3> QED
      BY <2>1, <3>1, <3>3
  <2> QED
    BY <2>4, <2>5
<1>12. EndpointsAreConfigured'
  <2>0. SUFFICES ASSUME kind = "openvpn" => SpeltRight
                 PROVE  /\ (parsed' = "ok") = (RemoteLines' # <<>>)
                        /\ vpn'.truncated = (Len(RemoteLines') > MaxEndpoints)
                        /\ Len(vpn'.endpoints) = Room(Len(RemoteLines'))
                        /\ \A e \in 1..Room(Len(RemoteLines')) :
                             /\ vpn'.endpoints[e].host = file'[RemoteLines'[e]].host
                             /\ InRange(PortOf(RemoteLines'[e])) =>
                                  vpn'.endpoints[e].port = PortOf(RemoteLines'[e])
    BY <1>9 DEF EndpointsAreConfigured, Room, InRange, PortOf
  <2>1. es # <<>> <=> r # <<>>
    <3>1. es # <<>> <=> Len(es) # 0
      BY <1>5
    <3>2. r # <<>> <=> Len(r) # 0
      <4> HIDE DEF r
      <4> QED
        BY <1>7
    <3> HIDE DEF r, es
    <3> QED
      BY <1>3, <1>5, <1>7, <1>8, <3>1, <3>2 DEF Room
  <2>2. RemoteLines' = r
    BY <1>9, <2>0
  <2>3. vpn'.truncated = (Len(RemoteLines') > MaxEndpoints)
    <3>1. vpn.truncated \in BOOLEAN
      BY <1>5 DEF VpnType
    <3> HIDE DEF r, es
    <3>2. vpn.truncated = (Len(r) > MaxEndpoints)
      BY <1>3, <1>7, <1>8, <3>1
    <3> QED
      BY <1>10, <2>2, <3>2
  <2>4. Len(vpn'.endpoints) = Room(Len(RemoteLines'))
    BY <1>8, <1>10, <2>2
  <2>5. \A e \in 1..Room(Len(r)) :
          /\ vpn'.endpoints[e].host = file[r[e]].host
          /\ InRange(PortOf(r[e])) => vpn'.endpoints[e].port = PortOf(r[e])
    <3> HIDE DEF r, es
    <3> QED
      BY <1>8, <1>11, <2>0
  <2> HIDE DEF r, es
  <2> QED
    BY <1>6, <1>9, <2>1, <2>2, <2>3, <2>4, <2>5
<1>13. FullTunnelIsSaid'
  <2>1. Configuration = Configured(file)
    BY FileIs
  <2>2. \A i : Directive(i, "redirect-gateway") => Is(file, i, "redirect-gateway") /\ i \in Configured(file)
    BY <2>1, ConfigAssumption DEF Directive, Is
  <2>3. \A i : PeerKey(i, "allowedips") <=> Is(file, i, "allowedips") /\ i \in InPeers(file)
    BY FileIs
  <2>4. /\ kind = "openvpn" /\ ~vpn.full => \A i \in 1..Len(file) : ~Directive(i, "redirect-gateway")
        /\ kind = "wireguard" /\ ~vpn.full => \A i \in 1..Len(file) :
             PeerKey(i, "allowedips") => \A s \in WholeSpace : ~(s \subseteq file[i].value)
    BY <1>2, <1>4, <2>2, <2>3 DEF SaidInv
  <2>5. kind = "openvpn" /\ ~vpn.secret => \A i \in Configuration : file[i].is = "open" => file[i].name # "key"
    <3>1. Configured(file) \subseteq 1..Len(file)
      BY DEF Configured
    <3> QED
      BY <1>2, <1>4, <2>1, <3>1 DEF SaidInv
  <2>6. WholeSpace' = WholeSpace
    BY DEF WholeSpace
  <2> QED
    BY <1>9, <1>10, <2>4, <2>5, <2>6 DEF FullTunnelIsSaid
<1>14. ImportIsFaithful'
  BY <1>12, <1>13 DEF ImportIsFaithful
<1> QED
  BY <1>1, <1>2, <1>6, <1>14 DEF ConfigInv, Sniffed, Mentioned

\* Every line adds to what the parser knows.
LEMMA ConfigInvKept == ConfigInv /\ [ConfigNext]_configVars => ConfigInv'
<1> SUFFICES ASSUME ConfigInv, [ConfigNext]_configVars PROVE ConfigInv'
  OBVIOUS
<1>1. CASE UNCHANGED configVars
  <2>1. UNCHANGED <<file, at, kind, section, skipping, defaults, vpn, parsed>>
    BY <1>1 DEF configVars
  <2>2. ConfigTypes /\ EndpointInv /\ SaidInv => (ConfigTypes /\ EndpointInv /\ SaidInv)'
    BY <2>1 DEF ConfigTypes, VpnType, EndpointSet, EndpointInv, SaidInv, Room, WrittenPort, Port, WholeSpace
  <2>3. SkipInv /\ DefaultInv => (SkipInv /\ DefaultInv)'
    BY <2>1 DEF SkipInv, DefaultInv, Hidden, Port
  <2>4. SectionInv => SectionInv'
    BY <2>1 DEF SectionInv, InPeer
  <2>5. ImportIsFaithful => ImportIsFaithful'
    BY <2>1, SameFile DEF ImportIsFaithful, EndpointsAreConfigured, FullTunnelIsSaid, InRange, WholeSpace
  <2> QED
    BY <2>1, <2>2, <2>3, <2>4, <2>5 DEF ConfigInv, Sniffed, Mentioned
<1> QED
  BY <1>1, OpensKeeps, ClosingKeeps, RemoteKeeps, DefaultKeeps, RedirectGatewayKeeps, OtherDirectiveKeeps,
     SectionKeeps, AllowedKeeps, EndpointKeeps, OtherKeyKeeps, EndsKeeps DEF ConfigNext

\* Before the first line it knows nothing.
LEMMA ConfigInvInit == ConfigInit => ConfigInv
<1> SUFFICES ASSUME ConfigInit PROVE ConfigInv
  OBVIOUS
<1>1. /\ file \in Files /\ at = 1 /\ kind = Sniffed(file) /\ section = NoValue /\ skipping = NoValue
      /\ parsed = IF kind = NoValue THEN "error" ELSE NoValue
      /\ defaults = [udp |-> TRUE, port |-> 1194]
      /\ vpn = [endpoints |-> <<>>, truncated |-> FALSE, secret |-> FALSE, full |-> FALSE]
  BY DEF ConfigInit
<1>2. Len(file) \in Nat /\ MaxEndpoints \in Nat \ {0} /\ NoValue \notin {"ok", "error", "peer", "openvpn", "wireguard"}
  BY <1>1, ConfigAssumption
<1>3. \A i \in 1..(at - 1) : FALSE
  BY <1>1
<1>4. ConfigTypes
  <2>1. <<>> \in Seq(EndpointSet)
    OBVIOUS
  <2> QED
    BY <1>1, <1>2, <2>1 DEF ConfigTypes, VpnType
<1>5. SaidInv
  BY <1>3 DEF SaidInv
<1>6. EndpointInv
  <2>1. Remotes(file, kind)[at - 1] = <<>>
    BY <1>1, <1>2, RemotesAre
  <2> QED
    BY <1>1, <1>2, <2>1 DEF EndpointInv, Room
<1>7. SkipInv /\ DefaultInv /\ SectionInv
  BY <1>1, <1>2, <1>3 DEF SkipInv, Hidden, DefaultInv, SectionInv, InPeer
<1>8. ImportIsFaithful
  <2>1. CASE parsed = NoValue
    BY <1>2, <2>1 DEF ImportIsFaithful, EndpointsAreConfigured, FullTunnelIsSaid
  <2>2. CASE parsed # NoValue
    <3>1. parsed = "error" /\ kind = NoValue /\ kind # "openvpn" /\ kind # "wireguard"
      BY <1>1, <1>2, <2>2
    <3>2. RemoteLines = Remotes(file, kind)[Len(file)] /\ \A i : ~NamesRemote(file, kind, i)
      BY <3>1, FileIs DEF NamesRemote
    <3>3. RemoteLines \in Seq(1..Len(file))
      <4>1. Len(file) \in 0..Len(file)
        BY <1>2
      <4> QED
        BY <1>2, <3>2, <4>1, RemotesAre
    <3>4. \A e \in 1..Len(RemoteLines) : FALSE
      BY <1>2, <3>2, RemotesName
    <3>5. RemoteLines = <<>> /\ Len(RemoteLines) = 0
      <4>1. Len(RemoteLines) \in Nat
        BY <3>3
      <4>2. Len(RemoteLines) = 0
        BY <3>4, <4>1
      <4> QED
        BY <3>3, <4>2
    <3>6. Len(vpn.endpoints) = 0 /\ vpn.truncated = FALSE
      BY <1>1
    <3>7. /\ (parsed = "ok") = (RemoteLines # <<>>)
          /\ vpn.truncated = (Len(RemoteLines) > MaxEndpoints)
          /\ 0 < MaxEndpoints
      <4>1. ~(Len(RemoteLines) > MaxEndpoints) /\ 0 < MaxEndpoints
        BY <1>2, <3>5
      <4>2. ~(parsed = "ok") /\ ~(RemoteLines # <<>>)
        BY <3>1, <3>5
      <4>3. (parsed = "ok") = (RemoteLines # <<>>)
        BY <4>2
      <4>4. vpn.truncated = (Len(RemoteLines) > MaxEndpoints)
        <5>1. (Len(RemoteLines) > MaxEndpoints) = FALSE
          BY <4>1
        <5> QED
          BY <3>6, <5>1
      <4> QED
        BY <4>1, <4>3, <4>4
    <3>8. EndpointsAreConfigured
      <4>1. \A e \in 1..0 : FALSE
        OBVIOUS
      <4> QED
        BY <3>5, <3>6, <3>7, <4>1 DEF EndpointsAreConfigured
    <3>9. FullTunnelIsSaid
      BY <3>1 DEF FullTunnelIsSaid
    <3> QED
      BY <3>8, <3>9 DEF ImportIsFaithful
  <2> QED
    BY <2>1, <2>2
<1>9. parsed = NoValue => kind \in {"openvpn", "wireguard"}
  BY <1>1, <1>2 DEF Sniffed
<1> QED
  BY <1>1, <1>4, <1>5, <1>6, <1>7, <1>8, <1>9 DEF ConfigInv

\* An import says what its file says, for every file of lines of any kind in any mixture, however long
\* it is and however its blocks nest: the endpoints the kill switch lets through are the remotes that
\* the client the file is sniffed to be for reads in it, in order and as far as there is room (of an
\* OpenVPN file, if its option names are spelt as OpenVPN knows them); no full tunnel is called split;
\* no key goes unseen (pmx_vpn_sniff, pmx_vpn_parse_openvpn, pmx_vpn_parse_wireguard).
THEOREM ImportIsAlwaysFaithful == ConfigSpec => []ImportIsFaithful
<1>1. ConfigInv => ImportIsFaithful
  BY DEF ConfigInv
<1> QED
  BY <1>1, ConfigInvInit, ConfigInvKept, PTL DEF ConfigSpec
=============================================================================
