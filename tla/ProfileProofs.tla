---------------------------- MODULE ProfileProofs ----------------------------
(***************************************************************************)
(* What is proved of the profile: of its contents (Profile), and at the    *)
(* end of its file (ProfileStore).                                         *)
(*                                                                         *)
(* The contents, for every set of queries and patterns, every hop limit    *)
(* and number of edits: the types, that no identifier names two objects,   *)
(* that a proxying rule leads to what it was pointed at, and that a        *)
(* removal opens no route.                                                 *)
(*                                                                         *)
(* The theorems assume of each of Files that it is sound (FileIsSound):    *)
(* its identifiers are distinct, its references name what they were meant  *)
(* to, and next_id, or an identifier of a proxy, a rule or a chain, bounds *)
(* them all.  pmx_profile_from_json raises next_id above those three, but  *)
(* not above a tunnel: with one and no next_id identifiers do collide      *)
(* (ProfileVpnIds.cfg).                                                    *)
(*                                                                         *)
(* The invariants are not inductive.  That a fresh identifier is unused    *)
(* needs every identifier, a dangling reference's too, to be below         *)
(* next_id; and Reload brings back what the file holds.  ProfileInv says   *)
(* of the profile in memory, and of the file as it would be loaded, that   *)
(* it is Sound.                                                            *)
(*                                                                         *)
(* What an operation leaves of a list is drawn from it, each element once  *)
(* (Draws): its identifiers and names are among the list's.                *)
(***************************************************************************)
EXTENDS Profile, ProfileStore, SequenceTheorems, FiniteSetTheorems, WellFoundedInduction, TLAPS

-----------------------------------------------------------------------------
\* The lesser of two numbers.
LEMMA LesserOf ==
  ASSUME NEW a \in Int, NEW b \in Int
  PROVE  Min({a, b}) = IF a <= b THEN a ELSE b
<1>1. ASSUME NEW x \in {a, b}, \A y \in {a, b} : x <= y
      PROVE  x = IF a <= b THEN a ELSE b
  BY <1>1
<1>2. \E x \in {a, b} : \A y \in {a, b} : x <= y
  OBVIOUS
<1> QED
  BY <1>1, <1>2 DEF Min

\* The greatest of some numbers is the one no other exceeds.
LEMMA GreatestIs ==
  ASSUME NEW S \in SUBSET Int, NEW n \in S, \A m \in S : m <= n
  PROVE  Max(S) = n
<1>1. ASSUME NEW x \in S, \A y \in S : x >= y
      PROVE  x = n
  BY <1>1
<1> QED
  BY <1>1 DEF Max

\* The first of some indices is one of them and comes before the others.  The
\* library's induction theorems take an operator; that strict inclusion of finite
\* sets is well-founded does not, and the sets of indices up to a given one are
\* ordered by it as the indices are.
LEMMA MinIsMember ==
  ASSUME NEW S \in SUBSET Int, IsFiniteSet(S), S # {}
  PROVE  Min(S) \in S /\ \A y \in S : Min(S) =< y
<1> DEFINE Below(x) == {y \in S : y =< x}
<1> DEFINE Initials == {B \in SUBSET S : \E x \in S : B = Below(x)}
<1>1. Initials \subseteq FiniteSubsetsOf(S) /\ Initials # {}
  <2>1. FiniteSubsetsOf(S) = SUBSET S
    BY FS_FiniteSubsetsOfFinite
  <2>2. PICK x \in S : TRUE
    OBVIOUS
  <2>3. Below(x) \in Initials
    OBVIOUS
  <2> QED
    BY <2>1, <2>3
<1>2. PICK B \in Initials : \A C \in Initials : ~ (<<C, B>> \in StrictSubsetOrdering(S))
  <2> HIDE DEF Initials
  <2> QED
    BY <1>1, FS_StrictSubsetOrderingWellFounded, WFMin
<1>3. PICK x \in S : B = Below(x)
  BY <1>2
<1>4. ASSUME NEW y \in S, ~(x =< y)
      PROVE  FALSE
  <2>1. y < x
    BY <1>4
  <2>2. \A z \in S : z =< y => z =< x
    BY <2>1
  <2>3. x \in Below(x) /\ x \notin Below(y)
    BY <1>4
  <2>4. Below(y) \in Initials /\ Below(x) \in SUBSET S /\ Below(y) \subseteq Below(x)
    BY <2>2
  <2>5. <<Below(y), Below(x)>> \in StrictSubsetOrdering(S)
    <3> HIDE DEF Below
    <3> QED
      BY <2>3, <2>4 DEF StrictSubsetOrdering
  <2> QED
    BY <1>2, <1>3, <2>4, <2>5
<1> QED
  BY <1>4 DEF Min

\* remove's shift: one element less, the others in their order.
LEMMA RemoveAtShifts ==
  ASSUME NEW S, NEW s \in Seq(S), NEW i \in DOMAIN s
  PROVE  /\ RemoveAt(s, i) \in Seq(S) /\ Len(RemoveAt(s, i)) = Len(s) - 1
         /\ \A j \in 1..Len(s) - 1 : RemoveAt(s, i)[j] = IF j < i THEN s[j] ELSE s[j + 1]
<1>0. Len(s) \in Nat /\ DOMAIN s = 1..Len(s) /\ i \in 1..Len(s) /\ i \in Int
  BY LenProperties
<1> DEFINE a == SubSeq(s, 1, i - 1)
           b == SubSeq(s, i + 1, Len(s))
<1>1. /\ a \in Seq(S) /\ Len(a) = i - 1
      /\ \A j \in 1..i - 1 : a[j] = s[j]
  BY <1>0
<1>2. /\ b \in Seq(S) /\ Len(b) = Len(s) - i
      /\ \A j \in 1..Len(s) - i : b[j] = s[i + j]
  BY <1>0
<1>3. RemoveAt(s, i) = a \o b
  BY DEF RemoveAt
<1> HIDE DEF a, b
<1>4. /\ a \o b \in Seq(S) /\ Len(a \o b) = Len(a) + Len(b)
      /\ \A j \in 1..Len(a) + Len(b) : (a \o b)[j] = IF j <= Len(a) THEN a[j] ELSE b[j - Len(a)]
  BY <1>1, <1>2, ConcatProperties
<1>5. Len(a) + Len(b) = Len(s) - 1
  BY <1>0, <1>1, <1>2
<1>6. ASSUME NEW j \in 1..Len(s) - 1
      PROVE  (a \o b)[j] = IF j < i THEN s[j] ELSE s[j + 1]
  <2>0. j \in Int /\ (a \o b)[j] = IF j <= i - 1 THEN a[j] ELSE b[j - (i - 1)]
    BY <1>0, <1>1, <1>4, <1>5
  <2>1. ASSUME j < i PROVE (a \o b)[j] = s[j]
    <3>1. j <= i - 1 /\ j \in 1..i - 1
      BY <1>0, <2>1
    <3> QED
      BY <1>1, <2>0, <3>1
  <2>2. ASSUME ~(j < i) PROVE (a \o b)[j] = s[j + 1]
    <3>1. ~(j <= i - 1) /\ j - (i - 1) \in 1..Len(s) - i /\ i + (j - (i - 1)) = j + 1
      BY <1>0, <2>2
    <3>2. (a \o b)[j] = b[j - (i - 1)]
      BY <2>0, <3>1
    <3>3. b[j - (i - 1)] = s[i + (j - (i - 1))]
      BY <1>2, <3>1
    <3> QED
      BY <3>1, <3>2, <3>3
  <2> QED
    BY <2>1, <2>2
<1> QED
  BY <1>3, <1>4, <1>5, <1>6

\* One element more, at its place.
LEMMA InsertAtShifts ==
  ASSUME NEW S, NEW s \in Seq(S), NEW i \in 1..Len(s) + 1, NEW e \in S
  PROVE  /\ InsertAt(s, i, e) \in Seq(S) /\ Len(InsertAt(s, i, e)) = Len(s) + 1
         /\ \A j \in 1..Len(s) + 1 :
              InsertAt(s, i, e)[j] = IF j < i THEN s[j] ELSE IF j = i THEN e ELSE s[j - 1]
<1>0. Len(s) \in Nat /\ DOMAIN s = 1..Len(s) /\ i \in Int
  BY LenProperties
<1> DEFINE a == SubSeq(s, 1, i - 1)
           b == SubSeq(s, i, Len(s))
           ae == Append(a, e)
<1>1. /\ a \in Seq(S) /\ Len(a) = i - 1
      /\ \A j \in 1..i - 1 : a[j] = s[j]
  BY <1>0
<1>2. /\ b \in Seq(S) /\ Len(b) = Len(s) - i + 1
      /\ \A j \in 1..Len(s) - i + 1 : b[j] = s[i + j - 1]
  BY <1>0
<1>3. InsertAt(s, i, e) = (a \o <<e>>) \o b
  BY DEF InsertAt
<1>4. a \o <<e>> = Append(a, e)
  <2> HIDE DEF a
  <2> QED
    BY <1>1
<1>5. /\ ae \in Seq(S) /\ Len(ae) = i
      /\ \A j \in 1..i - 1 : ae[j] = s[j]
      /\ ae[i] = e
  <2> HIDE DEF a
  <2> QED
    BY <1>0, <1>1
<1>6. InsertAt(s, i, e) = ae \o b
  BY <1>3, <1>4
<1> HIDE DEF a, b, ae
<1>7. /\ ae \o b \in Seq(S) /\ Len(ae \o b) = Len(ae) + Len(b)
      /\ \A j \in 1..Len(ae) + Len(b) : (ae \o b)[j] = IF j <= Len(ae) THEN ae[j] ELSE b[j - Len(ae)]
  BY <1>2, <1>5, ConcatProperties
<1>8. Len(ae) + Len(b) = Len(s) + 1
  BY <1>0, <1>2, <1>5
<1>9. ASSUME NEW j \in 1..Len(s) + 1
      PROVE  (ae \o b)[j] = IF j < i THEN s[j] ELSE IF j = i THEN e ELSE s[j - 1]
  <2>0. j \in Int /\ (ae \o b)[j] = IF j <= i THEN ae[j] ELSE b[j - i]
    BY <1>0, <1>5, <1>7, <1>8
  <2>1. ASSUME j < i PROVE (ae \o b)[j] = s[j]
    <3>1. j <= i /\ j \in 1..i - 1
      BY <1>0, <2>1
    <3> QED
      BY <1>5, <2>0, <3>1
  <2>2. ASSUME j = i PROVE (ae \o b)[j] = e
    <3>1. j <= i
      BY <1>0, <2>2
    <3> QED
      BY <1>5, <2>0, <2>2, <3>1
  <2>3. ASSUME ~(j < i), j # i PROVE (ae \o b)[j] = s[j - 1]
    <3>1. ~(j <= i) /\ j - i \in 1..Len(s) - i + 1 /\ i + (j - i) - 1 = j - 1
      BY <1>0, <2>3
    <3>2. (ae \o b)[j] = b[j - i]
      BY <2>0, <3>1
    <3>3. b[j - i] = s[i + (j - i) - 1]
      BY <1>2, <3>1
    <3> QED
      BY <3>1, <3>2, <3>3
  <2> QED
    BY <2>1, <2>2, <2>3
<1> QED
  BY <1>6, <1>7, <1>8, <1>9

\* Every element of t is one of s's, no two of them the same one.
Draws(t, s) ==
  \E f \in [DOMAIN t -> DOMAIN s] :
    /\ \A i, j \in DOMAIN t : f[i] = f[j] => i = j
    /\ \A i \in DOMAIN t : t[i] = s[f[i]]

\* Removing an element draws the others, each once.
LEMMA RemoveAtDraws ==
  ASSUME NEW S, NEW s \in Seq(S), NEW i \in DOMAIN s
  PROVE  RemoveAt(s, i) \in Seq(S) /\ Draws(RemoveAt(s, i), s)
<1> DEFINE t == RemoveAt(s, i)
           f == [j \in DOMAIN t |-> IF j < i THEN j ELSE j + 1]
<1>1. /\ t \in Seq(S) /\ Len(t) = Len(s) - 1
      /\ \A j \in 1..Len(s) - 1 : t[j] = IF j < i THEN s[j] ELSE s[j + 1]
  BY RemoveAtShifts
<1> HIDE DEF t
<1>2. Len(s) \in Nat /\ DOMAIN s = 1..Len(s) /\ DOMAIN t = 1..Len(s) - 1 /\ i \in 1..Len(s)
  BY <1>1, LenProperties
<1>3. f \in [DOMAIN t -> DOMAIN s]
  BY <1>2
<1>4. \A j, k \in DOMAIN t : f[j] = f[k] => j = k
  BY <1>2
<1>5. \A j \in DOMAIN t : t[j] = s[f[j]]
  BY <1>1, <1>2
<1> HIDE DEF f
<1>6. t \in Seq(S) /\ Draws(t, s)
  BY <1>1, <1>3, <1>4, <1>5 DEF Draws
<1> QED
  BY <1>6 DEF t

\* Moving an element draws all of them, each once.
LEMMA MovedDraws ==
  ASSUME NEW S, NEW s \in Seq(S), NEW from \in DOMAIN s, NEW to \in DOMAIN s
  PROVE  Moved(s, from, to) \in Seq(S) /\ Len(Moved(s, from, to)) = Len(s) /\ Draws(Moved(s, from, to), s)
<1> DEFINE r == RemoveAt(s, from)
           t == InsertAt(r, to, s[from])
           before(j) == IF j < from THEN j ELSE j + 1
           f == [j \in DOMAIN t |-> IF j < to THEN before(j) ELSE IF j = to THEN from ELSE before(j - 1)]
<1>1. /\ Len(s) \in Nat /\ DOMAIN s = 1..Len(s)
      /\ from \in 1..Len(s) /\ to \in 1..Len(s)
      /\ from \in Int /\ to \in Int /\ s[from] \in S
  BY LenProperties, ElementOfSeq
<1>2. /\ r \in Seq(S) /\ Len(r) = Len(s) - 1
      /\ \A j \in 1..Len(s) - 1 : r[j] = s[before(j)]
  BY RemoveAtShifts
<1>3. to \in 1..Len(r) + 1
  BY <1>1, <1>2
<1> HIDE DEF r
<1>4. /\ t \in Seq(S) /\ Len(t) = Len(r) + 1
      /\ \A j \in 1..Len(r) + 1 : t[j] = IF j < to THEN r[j] ELSE IF j = to THEN s[from] ELSE r[j - 1]
  <2> DEFINE e == s[from]
  <2>1. r \in Seq(S) /\ to \in 1..Len(r) + 1 /\ e \in S
    BY <1>1, <1>2, <1>3
  <2> HIDE DEF e
  <2>2. InsertAt(r, to, e) \in Seq(S)
    BY <2>1, InsertAtShifts
  <2>3. Len(InsertAt(r, to, e)) = Len(r) + 1
    BY <2>1, InsertAtShifts
  <2>4. ASSUME NEW j \in 1..Len(r) + 1
        PROVE  InsertAt(r, to, e)[j] = IF j < to THEN r[j] ELSE IF j = to THEN e ELSE r[j - 1]
    <3>1. ASSUME NEW u \in Seq(S), NEW i \in 1..Len(u) + 1, NEW x \in S
          PROVE  \A n \in 1..Len(u) + 1 :
                   InsertAt(u, i, x)[n] = IF n < i THEN u[n] ELSE IF n = i THEN x ELSE u[n - 1]
      BY InsertAtShifts
    <3> QED
      BY <2>1, <3>1
  <2> QED
    BY <2>2, <2>3, <2>4 DEF e
<1> HIDE DEF t
<1>5. Len(t) = Len(s) /\ DOMAIN t = 1..Len(s)
  BY <1>1, <1>2, <1>4, LenProperties
<1>6. f \in [DOMAIN t -> DOMAIN s]
  BY <1>1, <1>5
<1>7. \A j, k \in DOMAIN t : f[j] = f[k] => j = k
  BY <1>1, <1>5
<1>8. ASSUME NEW j \in DOMAIN t
      PROVE  t[j] = s[f[j]]
  <2>0. j \in Int /\ 1 <= j /\ j <= Len(s)
    BY <1>1, <1>5
  <2>1. t[j] = IF j < to THEN r[j] ELSE IF j = to THEN s[from] ELSE r[j - 1]
    BY <1>1, <1>2, <1>4, <1>5
  <2>2. CASE j < to
    BY <1>1, <1>2, <1>5, <2>0, <2>1, <2>2
  <2>3. CASE j = to
    BY <1>1, <1>5, <2>0, <2>1, <2>3
  <2>4. ASSUME ~(j < to), j # to
        PROVE  t[j] = s[f[j]]
    <3>1. j - 1 \in 1..Len(s) - 1 /\ f[j] = before(j - 1) /\ t[j] = r[j - 1]
      BY <1>1, <1>5, <2>0, <2>1, <2>4
    <3> HIDE DEF before, f
    <3> QED
      BY <1>2, <3>1
  <2> QED
    BY <2>2, <2>3, <2>4
<1> HIDE DEF f
<1>9. Draws(t, s)
  BY <1>6, <1>7, <1>8 DEF Draws
<1> QED
  BY <1>4, <1>5, <1>9 DEF t, r, Moved

\* The index of a lookup: the first of those with that identifier.
LEMMA FirstOfIndices ==
  ASSUME NEW S, NEW s \in Seq(S), NEW id, IndexOf(s, id) # {}
  PROVE  /\ Min(IndexOf(s, id)) \in DOMAIN s /\ s[Min(IndexOf(s, id))].id = id
         /\ \A k \in IndexOf(s, id) : Min(IndexOf(s, id)) =< k
<1>1. Len(s) \in Nat /\ DOMAIN s = 1..Len(s) /\ IndexOf(s, id) \in SUBSET (1..Len(s))
  BY LenProperties DEF IndexOf
<1>2. IsFiniteSet(IndexOf(s, id)) /\ IndexOf(s, id) \in SUBSET Int
  <2>1. IsFiniteSet(1..Len(s))
    BY <1>1, FS_Interval
  <2>2. \A x \in 1..Len(s) : x \in Int
    OBVIOUS
  <2> QED
    BY <1>1, <2>1, <2>2, FS_Subset
<1>3. Min(IndexOf(s, id)) \in IndexOf(s, id) /\ \A k \in IndexOf(s, id) : Min(IndexOf(s, id)) =< k
  BY <1>2, MinIsMember
<1> QED
  BY <1>3 DEF IndexOf

\* What compaction keeps are elements that were there, in no greater number.
LEMMA CompactedIsPart ==
  ASSUME NEW S, NEW hops \in Seq(S), NEW id
  PROVE  /\ Compacted(hops, id) \in Seq(S) /\ Len(Compacted(hops, id)) <= Len(hops)
         /\ \A n \in DOMAIN Compacted(hops, id) : \E h \in DOMAIN hops : Compacted(hops, id)[n] = hops[h]
<1> DEFINE kept == {h \in DOMAIN hops : hops[h].id # id}
           upTo(h) == {k \in kept : k <= h}
           place(h) == Cardinality(upTo(h))
           N == Cardinality(kept)
           rank == [h \in kept |-> place(h)]
           c == [n \in 1..N |-> hops[CHOOSE h \in kept : place(h) = n]]
<1>1. Len(hops) \in Nat /\ DOMAIN hops = 1..Len(hops) /\ \A h \in DOMAIN hops : hops[h] \in S
  BY LenProperties, ElementOfSeq
<1>2. IsFiniteSet(kept) /\ N \in Nat /\ N <= Len(hops) /\ kept \in SUBSET Nat
  <2>1. IsFiniteSet(1..Len(hops)) /\ Cardinality(1..Len(hops)) = Len(hops)
    BY <1>1, FS_Interval
  <2>2. kept \in SUBSET (1..Len(hops))
    BY <1>1
  <2> QED
    BY <1>1, <2>1, <2>2, FS_Subset, FS_CardinalityType
<1> HIDE DEF kept
<1>3. ASSUME NEW h \in kept
      PROVE  place(h) \in 1..N
  <2>1. upTo(h) \in SUBSET kept /\ h \in upTo(h)
    BY <1>2
  <2>2. IsFiniteSet(upTo(h)) /\ place(h) <= N /\ place(h) \in Nat
    BY <1>2, <2>1, FS_Subset, FS_CardinalityType
  <2>3. place(h) # 0
    BY <2>1, <2>2, FS_EmptySet
  <2> QED
    BY <1>2, <2>2, <2>3
<1>4. ASSUME NEW h \in kept, NEW k \in kept, h < k
      PROVE  place(h) # place(k)
  <2>1. upTo(h) \in SUBSET upTo(k) /\ k \in upTo(k) /\ k \notin upTo(h) /\ upTo(k) \in SUBSET kept
    <3>1. h \in Int /\ k \in Int /\ \A x \in kept : x \in Int
      BY <1>2
    <3>2. ~(k <= h) /\ k <= k /\ \A x \in kept : x <= h => x <= k
      BY <1>4, <3>1
    <3> QED
      BY <3>2
  <2>2. IsFiniteSet(upTo(k))
    BY <1>2, <2>1, FS_Subset
  <2> HIDE DEF upTo
  <2> QED
    BY <2>1, <2>2, FS_Subset
<1>5. rank \in Injection(kept, 1..N)
  <2>1. rank \in [kept -> 1..N]
    BY <1>3
  <2>2. ASSUME NEW h \in kept, NEW k \in kept, rank[h] = rank[k]
        PROVE  h = k
    <3>1. place(h) = place(k)
      BY <2>2
    <3>2. h \in Int /\ k \in Int
      BY <1>2
    <3> HIDE DEF place
    <3> QED
      BY <1>4, <3>1, <3>2
  <2> HIDE DEF rank
  <2> QED
    BY <2>1, <2>2 DEF Injection, IsInjective
<1>6. rank \in Surjection(kept, 1..N)
  <2>1. IsFiniteSet(1..N) /\ Cardinality(1..N) = N
    BY <1>2, FS_Interval
  <2> HIDE DEF rank
  <2> QED
    BY <1>5, <2>1, FS_Injection
<1>7. \A n \in 1..N : \E h \in kept : place(h) = n
  <2>1. \A n \in 1..N : \E h \in kept : rank[h] = n
    <3> HIDE DEF rank
    <3> QED
      BY <1>6 DEF Surjection
  <2>2. \A h \in kept : rank[h] = place(h)
    OBVIOUS
  <2> HIDE DEF place, rank
  <2> QED
    BY <2>1, <2>2
<1>8. \A n \in 1..N : (CHOOSE h \in kept : place(h) = n) \in kept
  <2> HIDE DEF place
  <2> QED
    BY <1>7
<1>9. kept \in SUBSET (DOMAIN hops)
  BY DEF kept
<1>10. \A n \in 1..N : \E h \in DOMAIN hops : c[n] = hops[h]
  <2> HIDE DEF place
  <2> QED
    BY <1>8, <1>9
<1>11. DOMAIN c = 1..N
  OBVIOUS
<1>12. Compacted(hops, id) = c
  BY DEF Compacted, kept
<1>13. c \in [1..N -> S]
  <2> HIDE DEF place
  <2> QED
    BY <1>1, <1>8, <1>9
<1> HIDE DEF c
<1>14. c \in Seq(S) /\ Len(c) = N
  BY <1>2, <1>13
<1> QED
  BY <1>2, <1>10, <1>11, <1>12, <1>14

-----------------------------------------------------------------------------
\* t has no identifier but s's, each once if s does; and names nothing anew.
IdsFrom(t, s) ==
  \E f \in [DOMAIN t -> DOMAIN s] :
    /\ \A i, j \in DOMAIN t : f[i] = f[j] => i = j
    /\ \A i \in DOMAIN t : t[i].id = s[f[i]].id

NamesFrom(t, s) == \A i \in DOMAIN t : \E j \in DOMAIN s : t[i].id = s[j].id /\ t[i].who = s[j].who

\* What is drawn from a list takes its identifiers and its names from it.
LEMMA DrawnIds ==
  ASSUME NEW s, NEW t, Draws(t, s)
  PROVE  IdsFrom(t, s) /\ NamesFrom(t, s)
<1>1. PICK f \in [DOMAIN t -> DOMAIN s] :
        /\ \A i, j \in DOMAIN t : f[i] = f[j] => i = j
        /\ \A i \in DOMAIN t : t[i] = s[f[i]]
  BY DEF Draws
<1>2. IdsFrom(t, s)
  BY <1>1 DEF IdsFrom
<1>3. NamesFrom(t, s)
  BY <1>1 DEF NamesFrom
<1> QED
  BY <1>2, <1>3

\* So does a list whose elements keep their identifiers, ...
LEMMA SameIds ==
  ASSUME NEW s, NEW t, DOMAIN t = DOMAIN s, \A i \in DOMAIN s : t[i].id = s[i].id
  PROVE  IdsFrom(t, s)
<1> DEFINE f == [i \in DOMAIN t |-> i]
<1>1. f \in [DOMAIN t -> DOMAIN s]
  OBVIOUS
<1>2. \A i, j \in DOMAIN t : f[i] = f[j] => i = j
  OBVIOUS
<1>3. \A i \in DOMAIN t : t[i].id = s[f[i]].id
  OBVIOUS
<1> HIDE DEF f
<1> QED
  BY <1>1, <1>2, <1>3 DEF IdsFrom

\* ... and the list itself.
LEMMA SameList ==
  ASSUME NEW s
  PROVE  IdsFrom(s, s) /\ NamesFrom(s, s)
BY SameIds DEF NamesFrom

\* With fewer identifiers, each is as much its object's own, ...
LEMMA OneEachStays ==
  ASSUME NEW s, NEW t, IdsFrom(t, s), OneEach(s)
  PROVE  OneEach(t)
<1>1. PICK f \in [DOMAIN t -> DOMAIN s] :
        /\ \A i, j \in DOMAIN t : f[i] = f[j] => i = j
        /\ \A i \in DOMAIN t : t[i].id = s[f[i]].id
  BY DEF IdsFrom
<1> QED
  BY <1>1 DEF OneEach

\* ... as far from another list's, ...
LEMMA ApartStays ==
  ASSUME NEW s, NEW t, NEW s2, NEW t2, IdsFrom(t, s), IdsFrom(t2, s2), Apart(s, s2)
  PROVE  Apart(t, t2)
<1>1. \A i \in DOMAIN t : \E j \in DOMAIN s : t[i].id = s[j].id
  BY DEF IdsFrom
<1>2. \A i \in DOMAIN t2 : \E j \in DOMAIN s2 : t2[i].id = s2[j].id
  BY DEF IdsFrom
<1> QED
  BY <1>1, <1>2 DEF Apart

\* ... and the profile's as much its own.
LEMMA IdsStayOwn ==
  ASSUME NEW p, NEW q, IdsAreOwn(p),
         IdsFrom(q.proxies, p.proxies), IdsFrom(q.chains, p.chains),
         IdsFrom(q.rules, p.rules), IdsFrom(q.vpns, p.vpns)
  PROVE  IdsAreOwn(q)
<1>1. OneEach(q.proxies) /\ OneEach(q.chains) /\ OneEach(q.rules) /\ OneEach(q.vpns)
  BY OneEachStays DEF IdsAreOwn
<1>2. Apart(q.proxies, q.chains) /\ Apart(q.proxies, q.rules) /\ Apart(q.proxies, q.vpns)
  BY ApartStays DEF IdsAreOwn
<1>3. Apart(q.chains, q.rules) /\ Apart(q.chains, q.vpns) /\ Apart(q.rules, q.vpns)
  BY ApartStays DEF IdsAreOwn
<1> QED
  BY <1>1, <1>2, <1>3 DEF IdsAreOwn

\* ... and a reference means what it meant.
LEMMA NamesStay ==
  ASSUME NEW s, NEW t, NEW id, NEW who, NamesFrom(t, s), Names(s, id, who)
  PROVE  Names(t, id, who)
BY DEF NamesFrom, Names

\* A rule means with fewer objects what it meant before.
LEMMA MeaningStays ==
  ASSUME NEW p, NEW q, NEW r, MeantBy(p, r),
         NamesFrom(q.proxies, p.proxies), NamesFrom(q.chains, p.chains)
  PROVE  MeantBy(q, r)
BY NamesStay DEF MeantBy

\* A profile is as sound with fewer objects and only references that are meant.
LEMMA SoundStays ==
  ASSUME NEW p, NEW q, NEW m, Sound(p, m), Typed(q, m),
         IdsFrom(q.proxies, p.proxies), IdsFrom(q.chains, p.chains),
         IdsFrom(q.rules, p.rules), IdsFrom(q.vpns, p.vpns),
         NamesFrom(q.proxies, p.proxies), NamesFrom(q.chains, p.chains),
         \A i \in DOMAIN q.rules : MeantBy(p, q.rules[i]),
         MeantBy(p, q.default),
         \A c \in DOMAIN q.chains : \A h \in DOMAIN q.chains[c].hops :
           Names(p.proxies, q.chains[c].hops[h].id, q.chains[c].hops[h].who)
  PROVE  Sound(q, m)
<1>1. IdsAreOwn(q)
  BY IdsStayOwn DEF Sound
<1>2. \A i \in DOMAIN q.rules : MeantBy(q, q.rules[i])
  BY MeaningStays
<1>3. MeantBy(q, q.default)
  BY MeaningStays
<1>4. \A c \in DOMAIN q.chains : \A h \in DOMAIN q.chains[c].hops :
        Names(q.proxies, q.chains[c].hops[h].id, q.chains[c].hops[h].who)
  BY NamesStay
<1> QED
  BY <1>1, <1>2, <1>3, <1>4 DEF Sound, RefsAreMeant

-----------------------------------------------------------------------------
\* A profile is its six parts.
LEMMA PartsOf ==
  ASSUME NEW p, NEW m, Typed(p, m)
  PROVE  LET n == p.next - 1
         IN  /\ p.next \in Nat /\ n \in Nat /\ p.next = n + 1 /\ p.next # NoId /\ NewId(p) = p.next
             /\ p.proxies \in Seq(Proxies(n, m)) /\ p.chains \in Seq(Chains(n, m))
             /\ p.rules \in Seq(Rules(n, m)) /\ p.default \in Rules(n, m)
             /\ p.vpns \in Seq([id: 1..n])
             /\ p \in Profiles(n, m)
             /\ \A i \in DOMAIN p.rules : p.rules[i].id # NoId
<1>1. p.next \in Nat \ {0} /\ p \in Profiles(p.next - 1, m)
  BY DEF Typed
<1>2. p.next # NoId /\ NewId(p) = p.next
  BY <1>1 DEF NoId, NewId
<1>3. /\ p.proxies \in Seq(Proxies(p.next - 1, m)) /\ p.chains \in Seq(Chains(p.next - 1, m))
      /\ p.rules \in Seq(Rules(p.next - 1, m)) /\ p.default \in Rules(p.next - 1, m)
      /\ p.vpns \in Seq([id: 1..(p.next - 1)])
  BY <1>1 DEF Profiles
<1> QED
  BY <1>1, <1>2, <1>3 DEF Typed

\* What is made below n and m is made below any greater numbers.
LEMMA KindsGrow ==
  ASSUME NEW n \in Nat, NEW m \in Nat, NEW n2 \in Nat, NEW m2 \in Nat, n <= n2, m <= m2
  PROVE  /\ Proxies(n, m) \subseteq Proxies(n2, m2) /\ Chains(n, m) \subseteq Chains(n2, m2)
         /\ Rules(n, m) \subseteq Rules(n2, m2) /\ [id: 1..n] \subseteq [id: 1..n2]
<1>1. 0..n \subseteq 0..n2 /\ 1..n \subseteq 1..n2 /\ 0..m \subseteq 0..m2 /\ 1..m \subseteq 1..m2
  OBVIOUS
<1>2. Proxies(n, m) \subseteq Proxies(n2, m2)
  BY <1>1 DEF Proxies
<1>3. Rules(n, m) \subseteq Rules(n2, m2)
  BY <1>1 DEF Rules
<1>4. BoundedSeq([id: 0..n, who: 1..m], MaxHops) \subseteq BoundedSeq([id: 0..n2, who: 1..m2], MaxHops)
  <2>1. [id: 0..n, who: 1..m] \subseteq [id: 0..n2, who: 1..m2]
    BY <1>1
  <2> DEFINE A == [id: 0..n, who: 1..m]
             B == [id: 0..n2, who: 1..m2]
  <2> HIDE DEF A, B
  <2>2. A \subseteq B
    BY <2>1 DEF A, B
  <2>3. BoundedSeq(A, MaxHops) \subseteq BoundedSeq(B, MaxHops)
    BY <2>2 DEF BoundedSeq, SeqOf
  <2> QED
    BY <2>3 DEF A, B
<1>5. Chains(n, m) \subseteq Chains(n2, m2)
  <2> DEFINE A == BoundedSeq([id: 0..n, who: 1..m], MaxHops)
             B == BoundedSeq([id: 0..n2, who: 1..m2], MaxHops)
             ns == 1..n
             ms == 1..m
             ns2 == 1..n2
             ms2 == 1..m2
  <2>1. A \subseteq B /\ ns \subseteq ns2 /\ ms \subseteq ms2
    BY <1>1, <1>4
  <2>2. /\ Chains(n, m) = [id: ns, who: ms, mode: {"sequential", "redundancy"}, enabled: BOOLEAN, hops: A]
        /\ Chains(n2, m2) = [id: ns2, who: ms2, mode: {"sequential", "redundancy"}, enabled: BOOLEAN, hops: B]
    BY DEF Chains
  <2> HIDE DEF A, B, ns, ms, ns2, ms2
  <2> QED
    BY <2>1, <2>2
<1>6. [id: 1..n] \subseteq [id: 1..n2]
  BY <1>1
<1> QED
  BY <1>2, <1>3, <1>5, <1>6

\* The lists of a profile are lists under any greater bounds, ...
LEMMA PartsGrow ==
  ASSUME NEW p, NEW m \in Nat, Typed(p, m), NEW n2 \in Nat, NEW m2 \in Nat, p.next - 1 <= n2, m <= m2
  PROVE  /\ p.proxies \in Seq(Proxies(n2, m2)) /\ p.chains \in Seq(Chains(n2, m2))
         /\ p.rules \in Seq(Rules(n2, m2)) /\ p.default \in Rules(n2, m2)
         /\ p.vpns \in Seq([id: 1..n2])
<1> DEFINE n == p.next - 1
<1>1. /\ n \in Nat
      /\ p.proxies \in Seq(Proxies(n, m)) /\ p.chains \in Seq(Chains(n, m))
      /\ p.rules \in Seq(Rules(n, m)) /\ p.default \in Rules(n, m)
      /\ p.vpns \in Seq([id: 1..n])
  BY PartsOf
<1> DEFINE V == [id: 1..n]
           V2 == [id: 1..n2]
<1>2. /\ Proxies(n, m) \subseteq Proxies(n2, m2) /\ Chains(n, m) \subseteq Chains(n2, m2)
      /\ Rules(n, m) \subseteq Rules(n2, m2) /\ V \subseteq V2
  <2> HIDE DEF n
  <2>1. n <= n2
    BY DEF n
  <2> QED
    BY <1>1, <2>1, KindsGrow
<1>3. p.vpns \in Seq(V)
  BY <1>1
<1> HIDE DEF n, V, V2
<1>4. p.vpns \in Seq(V2)
  BY <1>2, <1>3, SeqMonotonic
<1>5. /\ p.proxies \in Seq(Proxies(n2, m2)) /\ p.chains \in Seq(Chains(n2, m2))
      /\ p.rules \in Seq(Rules(n2, m2)) /\ p.default \in Rules(n2, m2)
  BY <1>1, <1>2, SeqMonotonic
<1> QED
  BY <1>4, <1>5 DEF V2

\* ... and the profile is as typed, ...
LEMMA TypedGrows ==
  ASSUME NEW p, NEW m \in Nat, NEW m2 \in Nat, m <= m2, Typed(p, m)
  PROVE  Typed(p, m2)
<1> DEFINE n == p.next - 1
<1>1. n \in Nat /\ p.next = n + 1 /\ p.next \in Nat \ {0} /\ p \in Profiles(n, m)
  BY PartsOf DEF Typed
<1>2. n \in Nat /\ p.next - 1 <= n
  BY <1>1
<1> HIDE DEF n
<1>3. /\ p.proxies \in Seq(Proxies(n, m2)) /\ p.chains \in Seq(Chains(n, m2))
      /\ p.rules \in Seq(Rules(n, m2)) /\ p.default \in Rules(n, m2)
      /\ p.vpns \in Seq([id: 1..n])
  BY <1>2, PartsGrow
<1>4. p \in Profiles(n, m2)
  BY <1>1, <1>3 DEF Profiles
<1> QED
  BY <1>1, <1>4 DEF Typed, n

\* ... and as sound, when more objects have been made.
LEMMA SoundGrows ==
  ASSUME NEW p, NEW m \in Nat, NEW m2 \in Nat, m <= m2, Sound(p, m)
  PROVE  Sound(p, m2)
BY TypedGrows DEF Sound

\* Every identifier, in use or referred to, is below the next; those in use are real.
LEMMA IdsBelowNext ==
  ASSUME NEW p, NEW m, Typed(p, m)
  PROVE  LET N == p.next
         IN  /\ \A i \in DOMAIN p.proxies : p.proxies[i].id # N /\ p.proxies[i].id # NoId
             /\ \A i \in DOMAIN p.chains : p.chains[i].id # N /\ p.chains[i].id # NoId
             /\ \A i \in DOMAIN p.rules : p.rules[i].id # N /\ p.rules[i].target # N
             /\ \A i \in DOMAIN p.vpns : p.vpns[i].id # N
             /\ p.default.target # N
             /\ \A c \in DOMAIN p.chains : \A h \in DOMAIN p.chains[c].hops : p.chains[c].hops[h].id # N
<1> DEFINE n == p.next - 1
<1>1. /\ n \in Nat /\ p.next = n + 1
      /\ p.proxies \in Seq(Proxies(n, m)) /\ p.chains \in Seq(Chains(n, m))
      /\ p.rules \in Seq(Rules(n, m)) /\ p.default \in Rules(n, m)
      /\ p.vpns \in Seq([id: 1..n])
  BY PartsOf
<1> HIDE DEF n
<1>2. \A i \in DOMAIN p.proxies : p.proxies[i] \in Proxies(n, m)
  BY <1>1, LenProperties, ElementOfSeq
<1>3. \A i \in DOMAIN p.chains : p.chains[i] \in Chains(n, m)
  BY <1>1, LenProperties, ElementOfSeq
<1>4. \A i \in DOMAIN p.rules : p.rules[i] \in Rules(n, m)
  BY <1>1, LenProperties, ElementOfSeq
<1>5. \A i \in DOMAIN p.vpns : p.vpns[i] \in [id: 1..n]
  BY <1>1, LenProperties, ElementOfSeq
<1>6. \A i \in DOMAIN p.proxies : p.proxies[i].id # n + 1 /\ p.proxies[i].id # NoId
  BY <1>1, <1>2 DEF Proxies, NoId
<1>7. \A i \in DOMAIN p.chains : p.chains[i].id # n + 1 /\ p.chains[i].id # NoId
  BY <1>1, <1>3 DEF Chains, NoId
<1>8. \A r \in Rules(n, m) : r.id # n + 1 /\ r.target # n + 1
  BY <1>1 DEF Rules
<1>9. \A i \in DOMAIN p.vpns : p.vpns[i].id # n + 1
  BY <1>1, <1>5
<1>10. ASSUME NEW c \in DOMAIN p.chains, NEW h \in DOMAIN p.chains[c].hops
       PROVE  p.chains[c].hops[h].id # n + 1
  <2>1. PICK k \in 0..MaxHops : p.chains[c].hops \in [1..k -> [id: 0..n, who: 1..m]]
    BY <1>3 DEF Chains, BoundedSeq, SeqOf
  <2>2. p.chains[c].hops[h] \in [id: 0..n, who: 1..m]
    BY <2>1
  <2> QED
    BY <1>1, <2>2
<1> QED
  BY <1>1, <1>4, <1>6, <1>7, <1>8, <1>9, <1>10

\* What append leaves at each index.
LEMMA AppendShape ==
  ASSUME NEW S, NEW s \in Seq(S), NEW x
  PROVE  /\ \A i \in DOMAIN Append(s, x) :
              (i \in DOMAIN s /\ Append(s, x)[i] = s[i]) \/ (i = Len(s) + 1 /\ Append(s, x)[i] = x)
         /\ \A i \in DOMAIN s : i \in DOMAIN Append(s, x) /\ Append(s, x)[i] = s[i]
<1> DEFINE T == S \cup {x}
           a == Append(s, x)
           l == Len(s)
<1>1. s \in Seq(T) /\ x \in T
  BY SeqMonotonic
<1> HIDE DEF T
<1>2. /\ a \in Seq(T) /\ Len(a) = l + 1
      /\ \A i \in 1..l : a[i] = s[i]
      /\ a[l + 1] = x
  BY <1>1, AppendProperties
<1>3. l \in Nat /\ DOMAIN s = 1..l /\ DOMAIN a = 1..l + 1
  BY <1>1, <1>2, LenProperties
<1> HIDE DEF a, l
<1>4. \A i \in DOMAIN a : i \in DOMAIN s \/ i = l + 1
  BY <1>3
<1>5. \A i \in DOMAIN s : i \in DOMAIN a
  BY <1>3
<1>6. \A i \in DOMAIN s : a[i] = s[i]
  BY <1>2, <1>3
<1>7. \A i \in DOMAIN a : (i \in DOMAIN s /\ a[i] = s[i]) \/ (i = l + 1 /\ a[i] = x)
  BY <1>2, <1>4, <1>6
<1> QED
  BY <1>5, <1>6, <1>7 DEF a, l

\* One more object, under an identifier of its own.
LEMMA AppendOwn ==
  ASSUME NEW S, NEW s \in Seq(S), NEW x, OneEach(s), \A i \in DOMAIN s : s[i].id # x.id
  PROVE  OneEach(Append(s, x))
BY AppendShape DEF OneEach

\* ... apart from any list that lacks it, ...
LEMMA AppendApart ==
  ASSUME NEW S, NEW s \in Seq(S), NEW x, NEW t, Apart(s, t), \A i \in DOMAIN t : t[i].id # x.id
  PROVE  Apart(Append(s, x), t)
BY AppendShape DEF Apart

\* Two lists are apart in either order.
LEMMA ApartBothWays ==
  ASSUME NEW s, NEW t, Apart(s, t)
  PROVE  Apart(t, s)
BY DEF Apart

\* An object appended under a new identifier takes no name from another.
LEMMA AppendNames ==
  ASSUME NEW S, NEW s \in Seq(S), NEW x, NEW id, NEW who, Names(s, id, who), x.id # id
  PROVE  Names(Append(s, x), id, who)
BY AppendShape DEF Names

-----------------------------------------------------------------------------
\* The additions: the new object's identifier is the next one, which nothing has
\* or refers to.
LEMMA AddProxyStep ==
  ASSUME NEW p, NEW m \in Nat, Sound(p, m)
  PROVE  Sound([p EXCEPT !.next = NewId(p) + 1,
                         !.proxies = Append(@, [id |-> NewId(p), who |-> m + 1, enabled |-> TRUE])], m + 1)
<1> DEFINE n == p.next
           x == [id |-> n, who |-> m + 1, enabled |-> TRUE]
           q == [p EXCEPT !.next = n + 1, !.proxies = Append(p.proxies, x)]
<1>1. /\ n \in Nat /\ n # 0 /\ NewId(p) = n /\ p \in Profiles(n - 1, m) /\ Typed(p, m)
      /\ p.proxies \in Seq(Proxies(n - 1, m))
      /\ \A i \in DOMAIN p.rules : p.rules[i].id # NoId
  BY PartsOf DEF Sound, NoId
<1>2. /\ p.proxies \in Seq(Proxies(n, m + 1)) /\ p.chains \in Seq(Chains(n, m + 1))
      /\ p.rules \in Seq(Rules(n, m + 1)) /\ p.default \in Rules(n, m + 1)
      /\ p.vpns \in Seq([id: 1..n])
  <2> HIDE DEF n
  <2>1. n \in Nat /\ m + 1 \in Nat /\ p.next - 1 <= n /\ m <= m + 1
    BY <1>1 DEF n
  <2> QED
    BY <1>1, <2>1, PartsGrow
<1>3. x \in Proxies(n, m + 1) /\ x.id = n
  BY <1>1 DEF Proxies
<1> HIDE DEF x
<1>4. Append(p.proxies, x) \in Seq(Proxies(n, m + 1))
  BY <1>2, <1>3
<1>5. /\ q.next = n + 1 /\ q.proxies = Append(p.proxies, x) /\ q.default = p.default
      /\ q.chains = p.chains /\ q.rules = p.rules /\ q.vpns = p.vpns
      /\ q \in [next: {n + 1}, proxies: Seq(Proxies(n, m + 1)), chains: Seq(Chains(n, m + 1)),
                rules: Seq(Rules(n, m + 1)), default: Rules(n, m + 1), vpns: Seq([id: 1..n])]
  BY <1>1, <1>2, <1>4 DEF Profiles
<1>6. q = [p EXCEPT !.next = NewId(p) + 1,
                    !.proxies = Append(@, [id |-> NewId(p), who |-> m + 1, enabled |-> TRUE])]
  BY <1>1 DEF x
<1> HIDE DEF q
<1>7. Typed(q, m + 1)
  <2>1. q.next \in Nat \ {0} /\ q.next - 1 = n
    BY <1>1, <1>5
  <2>2. q \in Profiles(q.next - 1, m + 1)
    BY <1>5, <2>1 DEF Profiles
  <2> QED
    BY <1>1, <1>5, <2>1, <2>2 DEF Typed
<1>8. /\ \A i \in DOMAIN p.proxies : p.proxies[i].id # n /\ p.proxies[i].id # NoId
      /\ \A i \in DOMAIN p.chains : p.chains[i].id # n /\ p.chains[i].id # NoId
      /\ \A i \in DOMAIN p.rules : p.rules[i].id # n /\ p.rules[i].target # n
      /\ \A i \in DOMAIN p.vpns : p.vpns[i].id # n
      /\ p.default.target # n
      /\ \A c \in DOMAIN p.chains : \A h \in DOMAIN p.chains[c].hops : p.chains[c].hops[h].id # n
  BY <1>1, IdsBelowNext
<1> HIDE DEF n
<1>9. IdsAreOwn(q)
  <2>1. /\ OneEach(p.proxies) /\ OneEach(p.chains) /\ OneEach(p.rules) /\ OneEach(p.vpns)
        /\ Apart(p.proxies, p.chains) /\ Apart(p.proxies, p.rules) /\ Apart(p.proxies, p.vpns)
        /\ Apart(p.chains, p.rules) /\ Apart(p.chains, p.vpns) /\ Apart(p.rules, p.vpns)
    BY ApartBothWays DEF Sound, IdsAreOwn
  <2>2. /\ \A i \in DOMAIN p.proxies : p.proxies[i].id # x.id
        /\ \A i \in DOMAIN p.chains : p.chains[i].id # x.id
        /\ \A i \in DOMAIN p.rules : p.rules[i].id # x.id
        /\ \A i \in DOMAIN p.vpns : p.vpns[i].id # x.id
    BY <1>3, <1>8
  <2>3. /\ p.proxies \in Seq(Proxies(n - 1, m)) /\ q.proxies = Append(p.proxies, x)
        /\ q.chains = p.chains /\ q.rules = p.rules /\ q.vpns = p.vpns
    BY <1>1, <1>5
  <2>4. Apart(q.proxies, q.chains)
    BY <2>1, <2>2, <2>3, AppendApart
  <2>5. Apart(q.proxies, q.rules)
    BY <2>1, <2>2, <2>3, AppendApart
  <2>6. Apart(q.proxies, q.vpns)
    BY <2>1, <2>2, <2>3, AppendApart
  <2>7. OneEach(q.proxies)
    BY <2>1, <2>2, <2>3, AppendOwn
  <2> QED
    BY <2>1, <2>3, <2>4, <2>5, <2>6, <2>7 DEF IdsAreOwn
<1>10. ASSUME NEW id, NEW who, id # n, Names(p.proxies, id, who)
       PROVE  Names(q.proxies, id, who)
  BY <1>1, <1>3, <1>5, <1>10, AppendNames
<1>11. RefsAreMeant(q)
  <2>1. \A i \in DOMAIN q.rules : MeantBy(q, q.rules[i])
    BY <1>5, <1>8, <1>10 DEF Sound, RefsAreMeant, MeantBy
  <2>2. MeantBy(q, q.default)
    BY <1>5, <1>8, <1>10 DEF Sound, RefsAreMeant, MeantBy
  <2>3. \A c \in DOMAIN q.chains : \A h \in DOMAIN q.chains[c].hops :
          Names(q.proxies, q.chains[c].hops[h].id, q.chains[c].hops[h].who)
    BY <1>5, <1>8, <1>10 DEF Sound, RefsAreMeant
  <2> QED
    BY <2>1, <2>2, <2>3 DEF RefsAreMeant
<1> QED
  BY <1>6, <1>7, <1>9, <1>11 DEF Sound

\* pmx_profile_add_chain keeps a profile sound, ...
LEMMA AddChainStep ==
  ASSUME NEW p, NEW m \in Nat, Sound(p, m)
  PROVE  Sound([p EXCEPT !.next = NewId(p) + 1,
                         !.chains = Append(@, [id |-> NewId(p), who |-> m + 1, mode |-> "sequential", enabled |-> TRUE, hops |-> <<>>])], m + 1)
<1> DEFINE n == p.next
           x == [id |-> n, who |-> m + 1, mode |-> "sequential", enabled |-> TRUE, hops |-> <<>>]
           q == [p EXCEPT !.next = n + 1, !.chains = Append(p.chains, x)]
<1>1. /\ n \in Nat /\ n # 0 /\ NewId(p) = n /\ p \in Profiles(n - 1, m) /\ Typed(p, m)
      /\ p.chains \in Seq(Chains(n - 1, m))
      /\ \A i \in DOMAIN p.rules : p.rules[i].id # NoId
  BY PartsOf DEF Sound, NoId
<1>2. /\ p.proxies \in Seq(Proxies(n, m + 1)) /\ p.chains \in Seq(Chains(n, m + 1))
      /\ p.rules \in Seq(Rules(n, m + 1)) /\ p.default \in Rules(n, m + 1)
      /\ p.vpns \in Seq([id: 1..n])
  <2> HIDE DEF n
  <2>1. n \in Nat /\ m + 1 \in Nat /\ p.next - 1 <= n /\ m <= m + 1
    BY <1>1 DEF n
  <2> QED
    BY <1>1, <2>1, PartsGrow
<1>3. x \in Chains(n, m + 1) /\ x.id = n
  <2>1. <<>> \in BoundedSeq([id: 0..n, who: 1..m + 1], MaxHops)
    <3>1. <<>> \in [1..0 -> [id: 0..n, who: 1..m + 1]] /\ 0 \in 0..MaxHops
      BY ProfileAssumption
    <3> QED
      BY <3>1 DEF BoundedSeq, SeqOf
  <2> QED
    BY <1>1, <2>1 DEF Chains
<1> HIDE DEF x
<1>4. Append(p.chains, x) \in Seq(Chains(n, m + 1))
  BY <1>2, <1>3
<1>5. /\ q.next = n + 1 /\ q.chains = Append(p.chains, x) /\ q.default = p.default
      /\ q.proxies = p.proxies /\ q.rules = p.rules /\ q.vpns = p.vpns
      /\ q \in [next: {n + 1}, proxies: Seq(Proxies(n, m + 1)), chains: Seq(Chains(n, m + 1)),
                rules: Seq(Rules(n, m + 1)), default: Rules(n, m + 1), vpns: Seq([id: 1..n])]
  BY <1>1, <1>2, <1>4 DEF Profiles
<1>6. q = [p EXCEPT !.next = NewId(p) + 1,
                    !.chains = Append(@, [id |-> NewId(p), who |-> m + 1, mode |-> "sequential", enabled |-> TRUE, hops |-> <<>>])]
  BY <1>1 DEF x
<1> HIDE DEF q
<1>7. Typed(q, m + 1)
  <2>1. q.next \in Nat \ {0} /\ q.next - 1 = n
    BY <1>1, <1>5
  <2>2. q \in Profiles(q.next - 1, m + 1)
    BY <1>5, <2>1 DEF Profiles
  <2> QED
    BY <1>1, <1>5, <2>1, <2>2 DEF Typed
<1>8. /\ \A i \in DOMAIN p.proxies : p.proxies[i].id # n /\ p.proxies[i].id # NoId
      /\ \A i \in DOMAIN p.chains : p.chains[i].id # n /\ p.chains[i].id # NoId
      /\ \A i \in DOMAIN p.rules : p.rules[i].id # n /\ p.rules[i].target # n
      /\ \A i \in DOMAIN p.vpns : p.vpns[i].id # n
      /\ p.default.target # n
      /\ \A c \in DOMAIN p.chains : \A h \in DOMAIN p.chains[c].hops : p.chains[c].hops[h].id # n
  BY <1>1, IdsBelowNext
<1> HIDE DEF n
<1>9. IdsAreOwn(q)
  <2>1. /\ OneEach(p.proxies) /\ OneEach(p.chains) /\ OneEach(p.rules) /\ OneEach(p.vpns)
        /\ Apart(p.proxies, p.chains) /\ Apart(p.proxies, p.rules) /\ Apart(p.proxies, p.vpns)
        /\ Apart(p.chains, p.rules) /\ Apart(p.chains, p.vpns) /\ Apart(p.rules, p.vpns)
        /\ Apart(p.chains, p.proxies)
    BY ApartBothWays DEF Sound, IdsAreOwn
  <2>2. /\ \A i \in DOMAIN p.proxies : p.proxies[i].id # x.id
        /\ \A i \in DOMAIN p.chains : p.chains[i].id # x.id
        /\ \A i \in DOMAIN p.rules : p.rules[i].id # x.id
        /\ \A i \in DOMAIN p.vpns : p.vpns[i].id # x.id
    BY <1>3, <1>8
  <2>3. /\ p.chains \in Seq(Chains(n - 1, m)) /\ q.chains = Append(p.chains, x)
        /\ q.proxies = p.proxies /\ q.rules = p.rules /\ q.vpns = p.vpns
    BY <1>1, <1>5
  <2>4. Apart(q.proxies, q.chains)
    BY <2>1, <2>2, <2>3, AppendApart, ApartBothWays
  <2>5. Apart(q.chains, q.rules)
    BY <2>1, <2>2, <2>3, AppendApart
  <2>6. Apart(q.chains, q.vpns)
    BY <2>1, <2>2, <2>3, AppendApart
  <2>7. OneEach(q.chains)
    BY <2>1, <2>2, <2>3, AppendOwn
  <2> QED
    BY <2>1, <2>3, <2>4, <2>5, <2>6, <2>7 DEF IdsAreOwn
<1>10. ASSUME NEW id, NEW who, id # n, Names(p.chains, id, who)
       PROVE  Names(q.chains, id, who)
  BY <1>1, <1>3, <1>5, <1>10, AppendNames
<1>11. RefsAreMeant(q)
  <2>1. \A i \in DOMAIN q.rules : MeantBy(q, q.rules[i])
    BY <1>5, <1>8, <1>10 DEF Sound, RefsAreMeant, MeantBy
  <2>2. MeantBy(q, q.default)
    BY <1>5, <1>8, <1>10 DEF Sound, RefsAreMeant, MeantBy
  <2>3. ASSUME NEW c \in DOMAIN q.chains, NEW h \in DOMAIN q.chains[c].hops
        PROVE  Names(q.proxies, q.chains[c].hops[h].id, q.chains[c].hops[h].who)
    <3>1. \/ c \in DOMAIN p.chains /\ q.chains[c] = p.chains[c]
          \/ q.chains[c] = x
      BY <1>1, <1>5, AppendShape
    <3>2. x.hops = <<>> /\ DOMAIN <<>> = {}
      BY DEF x
    <3> QED
      BY <1>5, <3>1, <3>2 DEF Sound, RefsAreMeant
  <2> QED
    BY <2>1, <2>2, <2>3 DEF RefsAreMeant
<1> QED
  BY <1>6, <1>7, <1>9, <1>11 DEF Sound

\* ... and so does pmx_profile_add_rule, whose rule points nowhere yet, ...
LEMMA AddRuleStep ==
  ASSUME NEW p, NEW m \in Nat, Sound(p, m)
  PROVE  Sound([p EXCEPT !.next = NewId(p) + 1,
                         !.rules = Append(@, [id |-> NewId(p), enabled |-> TRUE, match |-> Queries,
                                                 action |-> "direct", kind |-> "none",
                                                 target |-> NoId, meant |-> NoId])], m)
<1> DEFINE n == p.next
           x == [id |-> n, enabled |-> TRUE, match |-> Queries,
                                                 action |-> "direct", kind |-> "none",
                                                 target |-> NoId, meant |-> NoId]
           q == [p EXCEPT !.next = n + 1, !.rules = Append(p.rules, x)]
<1>1. /\ n \in Nat /\ n # 0 /\ NewId(p) = n /\ p \in Profiles(n - 1, m) /\ Typed(p, m)
      /\ p.rules \in Seq(Rules(n - 1, m))
      /\ \A i \in DOMAIN p.rules : p.rules[i].id # NoId
  BY PartsOf DEF Sound, NoId
<1>2. /\ p.proxies \in Seq(Proxies(n, m)) /\ p.chains \in Seq(Chains(n, m))
      /\ p.rules \in Seq(Rules(n, m)) /\ p.default \in Rules(n, m)
      /\ p.vpns \in Seq([id: 1..n])
  <2> HIDE DEF n
  <2>1. n \in Nat /\ m \in Nat /\ p.next - 1 <= n /\ m <= m
    BY <1>1 DEF n
  <2> QED
    BY <1>1, <2>1, PartsGrow
<1>3. x \in Rules(n, m) /\ x.id = n
  BY <1>1 DEF Rules, Patterns, Actions, Kinds, NoId
<1> HIDE DEF x
<1>4. Append(p.rules, x) \in Seq(Rules(n, m))
  BY <1>2, <1>3
<1>5. /\ q.next = n + 1 /\ q.rules = Append(p.rules, x) /\ q.default = p.default
      /\ q.proxies = p.proxies /\ q.chains = p.chains /\ q.vpns = p.vpns
      /\ q \in [next: {n + 1}, proxies: Seq(Proxies(n, m)), chains: Seq(Chains(n, m)),
                rules: Seq(Rules(n, m)), default: Rules(n, m), vpns: Seq([id: 1..n])]
  BY <1>1, <1>2, <1>4 DEF Profiles
<1>6. q = [p EXCEPT !.next = NewId(p) + 1,
                    !.rules = Append(@, [id |-> NewId(p), enabled |-> TRUE, match |-> Queries,
                                                 action |-> "direct", kind |-> "none",
                                                 target |-> NoId, meant |-> NoId])]
  BY <1>1 DEF x
<1> HIDE DEF q
<1>7. Typed(q, m)
  <2>1. q.next \in Nat \ {0} /\ q.next - 1 = n
    BY <1>1, <1>5
  <2>2. q \in Profiles(q.next - 1, m)
    BY <1>5, <2>1 DEF Profiles
  <2>3. ASSUME NEW i \in DOMAIN q.rules
        PROVE  q.rules[i].id # NoId
    BY <1>1, <1>3, <1>5, AppendShape DEF NoId
  <2> QED
    BY <2>1, <2>2, <2>3 DEF Typed
<1>8. /\ \A i \in DOMAIN p.proxies : p.proxies[i].id # n /\ p.proxies[i].id # NoId
      /\ \A i \in DOMAIN p.chains : p.chains[i].id # n /\ p.chains[i].id # NoId
      /\ \A i \in DOMAIN p.rules : p.rules[i].id # n /\ p.rules[i].target # n
      /\ \A i \in DOMAIN p.vpns : p.vpns[i].id # n
      /\ p.default.target # n
      /\ \A c \in DOMAIN p.chains : \A h \in DOMAIN p.chains[c].hops : p.chains[c].hops[h].id # n
  BY <1>1, IdsBelowNext
<1> HIDE DEF n
<1>9. IdsAreOwn(q)
  <2>1. /\ OneEach(p.proxies) /\ OneEach(p.chains) /\ OneEach(p.rules) /\ OneEach(p.vpns)
        /\ Apart(p.proxies, p.chains) /\ Apart(p.proxies, p.rules) /\ Apart(p.proxies, p.vpns)
        /\ Apart(p.chains, p.rules) /\ Apart(p.chains, p.vpns) /\ Apart(p.rules, p.vpns)
        /\ Apart(p.rules, p.proxies) /\ Apart(p.rules, p.chains)
    BY ApartBothWays DEF Sound, IdsAreOwn
  <2>2. /\ \A i \in DOMAIN p.proxies : p.proxies[i].id # x.id
        /\ \A i \in DOMAIN p.chains : p.chains[i].id # x.id
        /\ \A i \in DOMAIN p.rules : p.rules[i].id # x.id
        /\ \A i \in DOMAIN p.vpns : p.vpns[i].id # x.id
    BY <1>3, <1>8
  <2>3. /\ p.rules \in Seq(Rules(n - 1, m)) /\ q.rules = Append(p.rules, x)
        /\ q.proxies = p.proxies /\ q.chains = p.chains /\ q.vpns = p.vpns
    BY <1>1, <1>5
  <2>4. Apart(q.proxies, q.rules)
    BY <2>1, <2>2, <2>3, AppendApart, ApartBothWays
  <2>5. Apart(q.chains, q.rules)
    BY <2>1, <2>2, <2>3, AppendApart, ApartBothWays
  <2>6. Apart(q.rules, q.vpns)
    BY <2>1, <2>2, <2>3, AppendApart
  <2>7. OneEach(q.rules)
    BY <2>1, <2>2, <2>3, AppendOwn
  <2> QED
    BY <2>1, <2>3, <2>4, <2>5, <2>6, <2>7 DEF IdsAreOwn
<1>10. MeantBy(q, x)
  <2>1. x.target = NoId
    BY DEF x
  <2> QED
    BY <1>5, <1>8, <2>1 DEF MeantBy, Names
<1>11. RefsAreMeant(q)
  <2>1. ASSUME NEW i \in DOMAIN q.rules
        PROVE  MeantBy(q, q.rules[i])
    <3>1. \/ i \in DOMAIN p.rules /\ q.rules[i] = p.rules[i]
          \/ q.rules[i] = x
      BY <1>1, <1>5, AppendShape
    <3> QED
      BY <1>5, <1>10, <3>1 DEF Sound, RefsAreMeant, MeantBy
  <2>2. MeantBy(q, q.default)
    BY <1>5 DEF Sound, RefsAreMeant, MeantBy
  <2>3. \A c \in DOMAIN q.chains : \A h \in DOMAIN q.chains[c].hops :
          Names(q.proxies, q.chains[c].hops[h].id, q.chains[c].hops[h].who)
    BY <1>5 DEF Sound, RefsAreMeant
  <2> QED
    BY <2>1, <2>2, <2>3 DEF RefsAreMeant
<1> QED
  BY <1>6, <1>7, <1>9, <1>11 DEF Sound

\* ... and importing a tunnel.
LEMMA ImportVpnStep ==
  ASSUME NEW p, NEW m \in Nat, Sound(p, m)
  PROVE  Sound([p EXCEPT !.next = NewId(p) + 1,
                         !.vpns = Append(@, [id |-> NewId(p)])], m)
<1> DEFINE n == p.next
           x == [id |-> n]
           q == [p EXCEPT !.next = n + 1, !.vpns = Append(p.vpns, x)]
<1>1. /\ n \in Nat /\ n # 0 /\ NewId(p) = n /\ p \in Profiles(n - 1, m) /\ Typed(p, m)
      /\ p.vpns \in Seq([id: 1..(n - 1)])
      /\ \A i \in DOMAIN p.rules : p.rules[i].id # NoId
  BY PartsOf DEF Sound, NoId
<1>2. /\ p.proxies \in Seq(Proxies(n, m)) /\ p.chains \in Seq(Chains(n, m))
      /\ p.rules \in Seq(Rules(n, m)) /\ p.default \in Rules(n, m)
      /\ p.vpns \in Seq([id: 1..n])
  <2> HIDE DEF n
  <2>1. n \in Nat /\ m \in Nat /\ p.next - 1 <= n /\ m <= m
    BY <1>1 DEF n
  <2> QED
    BY <1>1, <2>1, PartsGrow
<1>3. x \in [id: 1..n] /\ x.id = n
  BY <1>1
<1> HIDE DEF x
<1>4. Append(p.vpns, x) \in Seq([id: 1..n])
  BY <1>2, <1>3
<1>5. /\ q.next = n + 1 /\ q.vpns = Append(p.vpns, x) /\ q.default = p.default
      /\ q.proxies = p.proxies /\ q.chains = p.chains /\ q.rules = p.rules
      /\ q \in [next: {n + 1}, proxies: Seq(Proxies(n, m)), chains: Seq(Chains(n, m)),
                rules: Seq(Rules(n, m)), default: Rules(n, m), vpns: Seq([id: 1..n])]
  BY <1>1, <1>2, <1>4 DEF Profiles
<1>6. q = [p EXCEPT !.next = NewId(p) + 1,
                    !.vpns = Append(@, [id |-> NewId(p)])]
  BY <1>1 DEF x
<1> HIDE DEF q
<1>7. Typed(q, m)
  <2>1. q.next \in Nat \ {0} /\ q.next - 1 = n
    BY <1>1, <1>5
  <2>2. q \in Profiles(q.next - 1, m)
    BY <1>5, <2>1 DEF Profiles
  <2> QED
    BY <1>1, <1>5, <2>1, <2>2 DEF Typed
<1>8. /\ \A i \in DOMAIN p.proxies : p.proxies[i].id # n /\ p.proxies[i].id # NoId
      /\ \A i \in DOMAIN p.chains : p.chains[i].id # n /\ p.chains[i].id # NoId
      /\ \A i \in DOMAIN p.rules : p.rules[i].id # n /\ p.rules[i].target # n
      /\ \A i \in DOMAIN p.vpns : p.vpns[i].id # n
      /\ p.default.target # n
      /\ \A c \in DOMAIN p.chains : \A h \in DOMAIN p.chains[c].hops : p.chains[c].hops[h].id # n
  BY <1>1, IdsBelowNext
<1> HIDE DEF n
<1>9. IdsAreOwn(q)
  <2>1. /\ OneEach(p.proxies) /\ OneEach(p.chains) /\ OneEach(p.rules) /\ OneEach(p.vpns)
        /\ Apart(p.proxies, p.chains) /\ Apart(p.proxies, p.rules) /\ Apart(p.proxies, p.vpns)
        /\ Apart(p.chains, p.rules) /\ Apart(p.chains, p.vpns) /\ Apart(p.rules, p.vpns)
        /\ Apart(p.vpns, p.proxies) /\ Apart(p.vpns, p.chains) /\ Apart(p.vpns, p.rules)
    BY ApartBothWays DEF Sound, IdsAreOwn
  <2>2. /\ \A i \in DOMAIN p.proxies : p.proxies[i].id # x.id
        /\ \A i \in DOMAIN p.chains : p.chains[i].id # x.id
        /\ \A i \in DOMAIN p.rules : p.rules[i].id # x.id
        /\ \A i \in DOMAIN p.vpns : p.vpns[i].id # x.id
    BY <1>3, <1>8
  <2>3. /\ p.vpns \in Seq([id: 1..(n - 1)]) /\ q.vpns = Append(p.vpns, x)
        /\ q.proxies = p.proxies /\ q.chains = p.chains /\ q.rules = p.rules
    BY <1>1, <1>5
  <2>4. Apart(q.proxies, q.vpns)
    BY <2>1, <2>2, <2>3, AppendApart, ApartBothWays
  <2>5. Apart(q.chains, q.vpns)
    BY <2>1, <2>2, <2>3, AppendApart, ApartBothWays
  <2>6. Apart(q.rules, q.vpns)
    BY <2>1, <2>2, <2>3, AppendApart, ApartBothWays
  <2>7. OneEach(q.vpns)
    BY <2>1, <2>2, <2>3, AppendOwn
  <2> QED
    BY <2>1, <2>3, <2>4, <2>5, <2>6, <2>7 DEF IdsAreOwn
<1>10. RefsAreMeant(q)
  BY <1>5 DEF Sound, RefsAreMeant, MeantBy
<1> QED
  BY <1>6, <1>7, <1>9, <1>10 DEF Sound

-----------------------------------------------------------------------------
\* Saving and loading: what the program holds, it loads as it saved it.
LEMMA FromJsonKeeps ==
  ASSUME NEW p, NEW m, Typed(p, m)
  PROVE  FromJson(p) = p
<1> DEFINE n == p.next - 1
           ids == {i + 1 : i \in IdsIn(p.proxies) \cup IdsIn(p.rules) \cup IdsIn(p.chains)}
           chains == [c \in DOMAIN p.chains |-> Cropped(p.chains[c])]
<1>1. /\ n \in Nat /\ p.next = n + 1 /\ p \in Profiles(n, m)
      /\ p.proxies \in Seq(Proxies(n, m)) /\ p.chains \in Seq(Chains(n, m))
      /\ p.rules \in Seq(Rules(n, m))
  BY PartsOf
<1> HIDE DEF n
<1>2. \A i \in DOMAIN p.proxies : p.proxies[i] \in Proxies(n, m)
  BY <1>1, LenProperties, ElementOfSeq
<1>3. \A i \in DOMAIN p.chains : p.chains[i] \in Chains(n, m)
  BY <1>1, LenProperties, ElementOfSeq
<1>4. \A i \in DOMAIN p.rules : p.rules[i] \in Rules(n, m)
  BY <1>1, LenProperties, ElementOfSeq
<1>5. IdsIn(p.proxies) \subseteq 0..n /\ IdsIn(p.rules) \subseteq 0..n /\ IdsIn(p.chains) \subseteq 0..n
  <2>1. IdsIn(p.proxies) \subseteq 0..n
    BY <1>2 DEF IdsIn, Proxies
  <2>2. IdsIn(p.rules) \subseteq 0..n
    BY <1>4 DEF IdsIn, Rules
  <2>3. IdsIn(p.chains) \subseteq 0..n
    BY <1>3 DEF IdsIn, Chains
  <2> QED
    BY <2>1, <2>2, <2>3
<1>6. Max({p.next} \cup ids) = p.next
  <2>1. {p.next} \cup ids \in SUBSET Int /\ p.next \in {p.next} \cup ids
        /\ \A k \in {p.next} \cup ids : k <= p.next
    BY <1>1, <1>5
  <2> HIDE DEF ids
  <2> QED
    BY <2>1, GreatestIs
<1>7. ASSUME NEW c \in Chains(n, m)
      PROVE  Cropped(c) = c
  <2>1. PICK k \in 0..MaxHops : c.hops \in [1..k -> [id: 0..n, who: 1..m]]
    BY DEF Chains, BoundedSeq, SeqOf
  <2>2. c.hops \in Seq([id: 0..n, who: 1..m]) /\ Len(c.hops) = k /\ k <= MaxHops /\ k \in Int /\ MaxHops \in Int
    <3> DEFINE H == [id: 0..n, who: 1..m]
    <3>1. c.hops \in [1..k -> H] /\ k \in 0..MaxHops /\ MaxHops \in Nat
      BY <2>1, ProfileAssumption
    <3> HIDE DEF H
    <3>2. c.hops \in Seq(H) /\ Len(c.hops) = k /\ k <= MaxHops /\ k \in Int /\ MaxHops \in Int
      BY <3>1
    <3> QED
      BY <3>2 DEF H
  <2>3. Min({Len(c.hops), MaxHops}) = Len(c.hops)
    BY <2>2, LesserOf
  <2>4. SubSeq(c.hops, 1, Len(c.hops)) = c.hops
    BY <2>2, SubSeqFull
  <2>5. [c EXCEPT !.hops = c.hops] = c
    BY DEF Chains
  <2> QED
    BY <2>3, <2>4, <2>5 DEF Cropped
<1>8. chains = p.chains
  <2>1. p.chains = [c \in DOMAIN p.chains |-> p.chains[c]]
    BY <1>1
  <2> QED
    BY <1>3, <1>7, <2>1
<1>9. FromJson(p) = [p EXCEPT !.chains = chains, !.next = Max({p.next} \cup ids)]
  BY DEF FromJson
<1> HIDE DEF chains, ids
<1> QED
  BY <1>1, <1>6, <1>8, <1>9 DEF Profiles

-----------------------------------------------------------------------------
\* The removals.  Which list loses an element, and what is left of the others.
LEMMA WithoutDraws ==
  ASSUME NEW S, NEW s \in Seq(S), NEW id, IndexOf(s, id) # {}
  PROVE  Without(s, id) \in Seq(S) /\ Draws(Without(s, id), s)
BY FirstOfIndices, RemoveAtDraws DEF Without

\* Untargeting changes no rule but its target, to what it was or to nothing.
LEMMA UntargetShape ==
  ASSUME NEW n \in Nat, NEW m, NEW rules \in Seq(Rules(n, m)), NEW kind, NEW id
  PROVE  LET u == Untarget(rules, kind, id)
         IN  /\ u \in Seq(Rules(n, m)) /\ DOMAIN u = DOMAIN rules
             /\ \A i \in DOMAIN rules :
                  /\ u[i] \in Rules(n, m)
                  /\ u[i].id = rules[i].id /\ u[i].meant = rules[i].meant
                  /\ u[i].target = rules[i].target \/ u[i].target = NoId
<1> DEFINE u == Untarget(rules, kind, id)
<1>0. ASSUME NEW r \in Rules(n, m)
      PROVE  /\ [r EXCEPT !.target = NoId] \in Rules(n, m) /\ [r EXCEPT !.target = NoId].id = r.id
             /\ [r EXCEPT !.target = NoId].meant = r.meant /\ [r EXCEPT !.target = NoId].target = NoId
  <2>1. ASSUME NEW t \in 0..n
        PROVE  /\ [r EXCEPT !.target = t] \in Rules(n, m) /\ [r EXCEPT !.target = t].id = r.id
               /\ [r EXCEPT !.target = t].meant = r.meant /\ [r EXCEPT !.target = t].target = t
    BY DEF Rules
  <2>2. NoId \in 0..n
    BY DEF NoId
  <2> QED
    BY <2>1, <2>2
<1>1. \A i \in DOMAIN rules : rules[i] \in Rules(n, m)
  BY LenProperties, ElementOfSeq
<1>2. DOMAIN u = DOMAIN rules /\ DOMAIN rules = 1..Len(rules) /\ Len(rules) \in Nat
  BY LenProperties DEF Untarget
<1>3. ASSUME NEW i \in DOMAIN rules
      PROVE  /\ u[i] \in Rules(n, m)
             /\ u[i].id = rules[i].id /\ u[i].meant = rules[i].meant
             /\ u[i].target = rules[i].target \/ u[i].target = NoId
  <2>1. CASE rules[i].kind = kind /\ rules[i].target = id
    <3>1. u[i] = [rules[i] EXCEPT !.target = NoId]
      BY <2>1 DEF Untarget
    <3> HIDE DEF u
    <3> QED
      BY <1>0, <1>1, <3>1
  <2>2. CASE ~(rules[i].kind = kind /\ rules[i].target = id)
    <3>1. u[i] = rules[i]
      BY <2>2 DEF Untarget
    <3> HIDE DEF u
    <3> QED
      BY <1>1, <3>1
  <2> QED
    BY <2>1, <2>2
<1>4. u = [i \in 1..Len(rules) |-> u[i]]
  BY <1>2 DEF Untarget
<1> HIDE DEF u
<1>5. u \in [1..Len(rules) -> Rules(n, m)]
  BY <1>2, <1>3, <1>4
<1>6. u \in Seq(Rules(n, m))
  BY <1>2, <1>5
<1> QED
  BY <1>2, <1>3, <1>6 DEF u

\* A chain keeps its type and what it is, and each hop of it is one it had, or one
\* it had with nothing in it.
LEMMA ForgetShape ==
  ASSUME NEW n \in Nat, NEW m, NEW c \in Chains(n, m), NEW id
  PROVE  /\ Forget(c, id) \in Chains(n, m)
         /\ Forget(c, id).id = c.id /\ Forget(c, id).who = c.who
         /\ \A h \in DOMAIN Forget(c, id).hops : \E k \in DOMAIN c.hops :
              /\ Forget(c, id).hops[h].who = c.hops[k].who
              /\ Forget(c, id).hops[h].id = c.hops[k].id \/ Forget(c, id).hops[h].id = NoId
<1> DEFINE H == [id: 0..n, who: 1..m]
           cut == [h \in DOMAIN c.hops |-> IF c.hops[h].id = id THEN [c.hops[h] EXCEPT !.id = NoId] ELSE c.hops[h]]
<1>1. PICK l \in 0..MaxHops : c.hops \in [1..l -> H]
  BY DEF Chains, BoundedSeq, SeqOf
<1>2. c.hops \in Seq(H) /\ Len(c.hops) = l /\ DOMAIN c.hops = 1..l /\ l \in Nat /\ l <= MaxHops /\ MaxHops \in Nat
  <2> HIDE DEF H
  <2> QED
    BY <1>1, ProfileAssumption
<1>3. ASSUME NEW hops \in BoundedSeq(H, MaxHops)
      PROVE  [c EXCEPT !.hops = hops] \in Chains(n, m)
  BY DEF Chains
<1>4. CASE c.mode = "redundancy"
  <2> DEFINE d == Compacted(c.hops, id)
  <2>1. /\ d \in Seq(H) /\ Len(d) <= Len(c.hops)
        /\ \A h \in DOMAIN d : \E k \in DOMAIN c.hops : d[h] = c.hops[k]
    <3> HIDE DEF H
    <3> QED
      BY <1>2, CompactedIsPart
  <2> HIDE DEF d, H
  <2>2. Len(d) \in 0..MaxHops /\ d \in [1..Len(d) -> H]
    BY <1>2, <2>1, LenProperties
  <2>3. d \in BoundedSeq(H, MaxHops)
    BY <2>2 DEF BoundedSeq, SeqOf
  <2>4. Forget(c, id) = [c EXCEPT !.hops = d]
    BY <1>4 DEF Forget, d
  <2>5. [c EXCEPT !.hops = d] \in Chains(n, m)
    BY <1>3, <2>3
  <2>6. [c EXCEPT !.hops = d].hops = d /\ [c EXCEPT !.hops = d].id = c.id /\ [c EXCEPT !.hops = d].who = c.who
    BY DEF Chains
  <2>7. Forget(c, id).hops = d
    BY <2>4, <2>6
  <2>8. \A h \in DOMAIN d : \E k \in DOMAIN c.hops : d[h].who = c.hops[k].who /\ d[h].id = c.hops[k].id
    BY <2>1
  <2> QED
    BY <2>4, <2>5, <2>6, <2>7, <2>8
<1>5. CASE c.mode # "redundancy"
  <2>1. ASSUME NEW h \in DOMAIN c.hops
        PROVE  /\ cut[h] \in H /\ cut[h].who = c.hops[h].who
               /\ cut[h].id = c.hops[h].id \/ cut[h].id = NoId
    <3>1. c.hops[h] \in H
      BY <1>1, <1>2
    <3>2. CASE c.hops[h].id = id
      <4>1. cut[h] = [c.hops[h] EXCEPT !.id = NoId]
        BY <3>2
      <4> HIDE DEF cut
      <4> QED
        BY <3>1, <4>1 DEF NoId
    <3>3. CASE c.hops[h].id # id
      <4>1. cut[h] = c.hops[h]
        BY <3>3
      <4> HIDE DEF cut
      <4> QED
        BY <3>1, <4>1
    <3> QED
      BY <3>2, <3>3
  <2>2. DOMAIN cut = 1..l /\ cut = [h \in 1..l |-> cut[h]]
    BY <1>2
  <2>3. Forget(c, id) = [c EXCEPT !.hops = cut]
    BY <1>5 DEF Forget
  <2> HIDE DEF cut, H
  <2>4. cut \in [1..l -> H]
    BY <1>2, <2>1, <2>2
  <2>5. cut \in BoundedSeq(H, MaxHops)
    BY <2>4 DEF BoundedSeq, SeqOf
  <2>6. [c EXCEPT !.hops = cut] \in Chains(n, m)
    BY <1>3, <2>5
  <2>7. [c EXCEPT !.hops = cut].hops = cut /\ [c EXCEPT !.hops = cut].id = c.id /\ [c EXCEPT !.hops = cut].who = c.who
    BY DEF Chains
  <2> QED
    BY <1>2, <2>1, <2>2, <2>3, <2>6, <2>7
<1> QED
  BY <1>4, <1>5

\* What the parts of a sound profile mean, and no reference to nothing means anything.
LEMMA SoundParts ==
  ASSUME NEW p, NEW m, Sound(p, m)
  PROVE  /\ Typed(p, m) /\ IdsAreOwn(p) /\ RefsAreMeant(p)
         /\ \A who : Names(p.proxies, NoId, who) /\ Names(p.chains, NoId, who)
BY IdsBelowNext DEF Sound, Names

\* pmx_profile_remove_proxy keeps a profile sound: every hop and every rule that
\* named the proxy forgets it in the same call.
LEMMA RemoveProxyStep ==
  ASSUME NEW p, NEW m, Sound(p, m), NEW id, IndexOf(p.proxies, id) # {}
  PROVE  Sound([p EXCEPT !.proxies = Without(@, id),
                         !.chains = [c \in DOMAIN @ |-> Forget(@[c], id)],
                         !.rules = Untarget(@, "proxy", id)], m)
<1> DEFINE n == p.next - 1
           ps == Without(p.proxies, id)
           cs == [c \in DOMAIN p.chains |-> Forget(p.chains[c], id)]
           rs == Untarget(p.rules, "proxy", id)
           q == [p EXCEPT !.proxies = ps, !.chains = cs, !.rules = rs]
<1>1. /\ p.next \in Nat \ {0} /\ n \in Nat /\ p.next = n + 1 /\ p \in Profiles(n, m) /\ Typed(p, m)
      /\ p.proxies \in Seq(Proxies(n, m)) /\ p.chains \in Seq(Chains(n, m)) /\ p.rules \in Seq(Rules(n, m))
      /\ \A i \in DOMAIN p.rules : p.rules[i].id # NoId
  BY SoundParts, PartsOf DEF Typed
<1> HIDE DEF n
<1>2. ps \in Seq(Proxies(n, m)) /\ IdsFrom(ps, p.proxies) /\ NamesFrom(ps, p.proxies)
  BY <1>1, WithoutDraws, DrawnIds
<1>3. /\ cs \in Seq(Chains(n, m)) /\ DOMAIN cs = DOMAIN p.chains
      /\ \A c \in DOMAIN p.chains :
           /\ cs[c].id = p.chains[c].id /\ cs[c].who = p.chains[c].who
           /\ \A h \in DOMAIN cs[c].hops : \E k \in DOMAIN p.chains[c].hops :
                /\ cs[c].hops[h].who = p.chains[c].hops[k].who
                /\ cs[c].hops[h].id = p.chains[c].hops[k].id \/ cs[c].hops[h].id = NoId
  <2>1. \A c \in DOMAIN p.chains : p.chains[c] \in Chains(n, m)
    BY <1>1, LenProperties, ElementOfSeq
  <2>2. Len(p.chains) \in Nat /\ DOMAIN p.chains = 1..Len(p.chains)
    BY <1>1, LenProperties
  <2>3. \A c \in DOMAIN p.chains : cs[c] = Forget(p.chains[c], id)
    OBVIOUS
  <2>4. \A c \in DOMAIN p.chains : cs[c] \in Chains(n, m)
    BY <1>1, <2>1, <2>3, ForgetShape
  <2>5. DOMAIN cs = DOMAIN p.chains /\ cs = [c \in 1..Len(p.chains) |-> cs[c]]
    BY <2>2
  <2> HIDE DEF cs
  <2>6. cs \in [1..Len(p.chains) -> Chains(n, m)]
    BY <2>2, <2>4, <2>5
  <2>7. cs \in Seq(Chains(n, m))
    BY <2>2, <2>6
  <2>8. ASSUME NEW c \in DOMAIN p.chains
        PROVE  /\ cs[c].id = p.chains[c].id /\ cs[c].who = p.chains[c].who
               /\ \A h \in DOMAIN cs[c].hops : \E k \in DOMAIN p.chains[c].hops :
                    /\ cs[c].hops[h].who = p.chains[c].hops[k].who
                    /\ cs[c].hops[h].id = p.chains[c].hops[k].id \/ cs[c].hops[h].id = NoId
    <3> DEFINE d == p.chains[c]
    <3>1. d \in Chains(n, m) /\ cs[c] = Forget(d, id)
      BY <2>1, <2>3
    <3> HIDE DEF d
    <3> QED
      BY <1>1, <3>1, ForgetShape DEF d
  <2> QED
    BY <2>5, <2>7, <2>8
<1>4. /\ rs \in Seq(Rules(n, m)) /\ DOMAIN rs = DOMAIN p.rules
      /\ \A i \in DOMAIN p.rules :
           /\ rs[i].id = p.rules[i].id /\ rs[i].meant = p.rules[i].meant
           /\ rs[i].target = p.rules[i].target \/ rs[i].target = NoId
  BY <1>1, UntargetShape
<1> HIDE DEF ps, cs, rs
<1>5. /\ q.proxies = ps /\ q.chains = cs /\ q.rules = rs /\ q.vpns = p.vpns /\ q.default = p.default
      /\ q.next = p.next /\ q \in Profiles(n, m)
  BY <1>1, <1>2, <1>3, <1>4 DEF Profiles
<1>6. q = [p EXCEPT !.proxies = Without(@, id),
                    !.chains = [c \in DOMAIN @ |-> Forget(@[c], id)],
                    !.rules = Untarget(@, "proxy", id)]
  BY DEF ps, cs, rs
<1> HIDE DEF q
<1>7. Typed(q, m)
  BY <1>1, <1>4, <1>5 DEF Typed, n
<1>8. /\ IdsFrom(q.proxies, p.proxies) /\ IdsFrom(q.chains, p.chains)
      /\ IdsFrom(q.rules, p.rules) /\ IdsFrom(q.vpns, p.vpns)
  BY <1>2, <1>3, <1>4, <1>5, SameIds, SameList
<1>9. NamesFrom(q.proxies, p.proxies) /\ NamesFrom(q.chains, p.chains)
  BY <1>2, <1>3, <1>5 DEF NamesFrom
<1>10. /\ \A i \in DOMAIN p.rules : MeantBy(p, p.rules[i])
       /\ MeantBy(p, p.default)
       /\ \A c \in DOMAIN p.chains : \A h \in DOMAIN p.chains[c].hops :
            Names(p.proxies, p.chains[c].hops[h].id, p.chains[c].hops[h].who)
       /\ \A who : Names(p.proxies, NoId, who) /\ Names(p.chains, NoId, who)
  BY SoundParts DEF RefsAreMeant
<1>11. \A i \in DOMAIN q.rules : MeantBy(p, q.rules[i])
  BY <1>4, <1>5, <1>10 DEF MeantBy
<1>12. \A c \in DOMAIN q.chains : \A h \in DOMAIN q.chains[c].hops :
         Names(p.proxies, q.chains[c].hops[h].id, q.chains[c].hops[h].who)
  BY <1>3, <1>5, <1>10
<1>13. Sound(q, m)
  BY <1>5, <1>7, <1>8, <1>9, <1>10, <1>11, <1>12, SoundStays
<1> QED
  BY <1>6, <1>13

\* pmx_profile_remove_chain keeps it sound, untargeting the rules likewise, ...
LEMMA RemoveChainStep ==
  ASSUME NEW p, NEW m, Sound(p, m), NEW id, IndexOf(p.chains, id) # {}
  PROVE  Sound([p EXCEPT !.chains = Without(@, id), !.rules = Untarget(@, "chain", id)], m)
<1> DEFINE n == p.next - 1
           cs == Without(p.chains, id)
           rs == Untarget(p.rules, "chain", id)
           q == [p EXCEPT !.chains = cs, !.rules = rs]
<1>1. /\ p.next \in Nat \ {0} /\ n \in Nat /\ p.next = n + 1 /\ p \in Profiles(n, m) /\ Typed(p, m)
      /\ p.chains \in Seq(Chains(n, m)) /\ p.rules \in Seq(Rules(n, m))
      /\ \A i \in DOMAIN p.rules : p.rules[i].id # NoId
  BY SoundParts, PartsOf DEF Typed
<1> HIDE DEF n
<1>2. cs \in Seq(Chains(n, m)) /\ IdsFrom(cs, p.chains) /\ NamesFrom(cs, p.chains) /\ Draws(cs, p.chains)
  BY <1>1, WithoutDraws, DrawnIds
<1>3. \A c \in DOMAIN cs : \E d \in DOMAIN p.chains : cs[c] = p.chains[d]
  BY <1>2 DEF Draws
<1>4. /\ rs \in Seq(Rules(n, m)) /\ DOMAIN rs = DOMAIN p.rules
      /\ \A i \in DOMAIN p.rules :
           /\ rs[i].id = p.rules[i].id /\ rs[i].meant = p.rules[i].meant
           /\ rs[i].target = p.rules[i].target \/ rs[i].target = NoId
  BY <1>1, UntargetShape
<1> HIDE DEF cs, rs
<1>5. /\ q.proxies = p.proxies /\ q.chains = cs /\ q.rules = rs /\ q.vpns = p.vpns /\ q.default = p.default
      /\ q.next = p.next /\ q \in Profiles(n, m)
  BY <1>1, <1>2, <1>4 DEF Profiles
<1>6. q = [p EXCEPT !.chains = Without(@, id), !.rules = Untarget(@, "chain", id)]
  BY DEF cs, rs
<1> HIDE DEF q
<1>7. Typed(q, m)
  BY <1>1, <1>4, <1>5 DEF Typed, n
<1>8. /\ IdsFrom(q.proxies, p.proxies) /\ IdsFrom(q.chains, p.chains)
      /\ IdsFrom(q.rules, p.rules) /\ IdsFrom(q.vpns, p.vpns)
  BY <1>2, <1>4, <1>5, SameIds, SameList
<1>9. NamesFrom(q.proxies, p.proxies) /\ NamesFrom(q.chains, p.chains)
  BY <1>2, <1>5, SameList
<1>10. /\ \A i \in DOMAIN p.rules : MeantBy(p, p.rules[i])
       /\ MeantBy(p, p.default)
       /\ \A c \in DOMAIN p.chains : \A h \in DOMAIN p.chains[c].hops :
            Names(p.proxies, p.chains[c].hops[h].id, p.chains[c].hops[h].who)
       /\ \A who : Names(p.proxies, NoId, who) /\ Names(p.chains, NoId, who)
  BY SoundParts DEF RefsAreMeant
<1>11. \A i \in DOMAIN q.rules : MeantBy(p, q.rules[i])
  BY <1>4, <1>5, <1>10 DEF MeantBy
<1>12. \A c \in DOMAIN q.chains : \A h \in DOMAIN q.chains[c].hops :
         Names(p.proxies, q.chains[c].hops[h].id, q.chains[c].hops[h].who)
  BY <1>3, <1>5, <1>10
<1>13. Sound(q, m)
  BY <1>5, <1>7, <1>8, <1>9, <1>10, <1>11, <1>12, SoundStays
<1> QED
  BY <1>6, <1>13

\* Rules fewer or in another order; a tunnel less.
LEMMA RulesStep ==
  ASSUME NEW p, NEW m, Sound(p, m), NEW rs,
         rs \in Seq(Rules(p.next - 1, m)), Draws(rs, p.rules)
  PROVE  Sound([p EXCEPT !.rules = rs], m)
<1> DEFINE n == p.next - 1
           q == [p EXCEPT !.rules = rs]
<1>1. /\ p.next \in Nat \ {0} /\ n \in Nat /\ p.next = n + 1 /\ p \in Profiles(n, m)
      /\ \A i \in DOMAIN p.rules : p.rules[i].id # NoId
  BY SoundParts, PartsOf DEF Typed
<1>2. rs \in Seq(Rules(n, m)) /\ IdsFrom(rs, p.rules)
  BY DrawnIds
<1> HIDE DEF n
<1>3. \A i \in DOMAIN rs : \E j \in DOMAIN p.rules : rs[i] = p.rules[j]
  BY DEF Draws
<1>4. /\ q.proxies = p.proxies /\ q.chains = p.chains /\ q.rules = rs /\ q.vpns = p.vpns
      /\ q.default = p.default /\ q.next = p.next /\ q \in Profiles(n, m)
  BY <1>1, <1>2 DEF Profiles
<1> HIDE DEF q
<1>5. Typed(q, m)
  BY <1>1, <1>3, <1>4 DEF Typed, n
<1>6. /\ IdsFrom(q.proxies, p.proxies) /\ IdsFrom(q.chains, p.chains)
      /\ IdsFrom(q.rules, p.rules) /\ IdsFrom(q.vpns, p.vpns)
      /\ NamesFrom(q.proxies, p.proxies) /\ NamesFrom(q.chains, p.chains)
  BY <1>2, <1>4, SameList
<1>7. /\ \A i \in DOMAIN q.rules : MeantBy(p, q.rules[i])
      /\ MeantBy(p, q.default)
      /\ \A c \in DOMAIN q.chains : \A h \in DOMAIN q.chains[c].hops :
           Names(p.proxies, q.chains[c].hops[h].id, q.chains[c].hops[h].who)
  BY <1>3, <1>4, SoundParts DEF RefsAreMeant
<1>8. Sound(q, m)
  BY <1>5, <1>6, <1>7, SoundStays
<1> QED
  BY <1>8 DEF q

\* ... and so does removing a tunnel, which nothing in a profile refers to.
LEMMA RemoveVpnStep ==
  ASSUME NEW p, NEW m, Sound(p, m), NEW id, IndexOf(p.vpns, id) # {}
  PROVE  Sound([p EXCEPT !.vpns = Without(@, id)], m)
<1> DEFINE n == p.next - 1
           V == [id: 1..n]
           vs == Without(p.vpns, id)
           q == [p EXCEPT !.vpns = vs]
<1>1. /\ p.next \in Nat \ {0} /\ n \in Nat /\ p.next = n + 1 /\ p \in Profiles(n, m) /\ Typed(p, m)
      /\ p.vpns \in Seq(V)
      /\ \A i \in DOMAIN p.rules : p.rules[i].id # NoId
  BY SoundParts, PartsOf DEF Typed
<1> HIDE DEF n, V
<1>2. vs \in Seq(V) /\ IdsFrom(vs, p.vpns)
  BY <1>1, WithoutDraws, DrawnIds
<1> HIDE DEF vs
<1>3. /\ q.proxies = p.proxies /\ q.chains = p.chains /\ q.rules = p.rules /\ q.vpns = vs
      /\ q.default = p.default /\ q.next = p.next /\ q \in Profiles(n, m)
  BY <1>1, <1>2 DEF Profiles, V
<1> HIDE DEF q
<1>4. Typed(q, m)
  BY <1>1, <1>3 DEF Typed, n
<1>5. /\ IdsFrom(q.proxies, p.proxies) /\ IdsFrom(q.chains, p.chains)
      /\ IdsFrom(q.rules, p.rules) /\ IdsFrom(q.vpns, p.vpns)
      /\ NamesFrom(q.proxies, p.proxies) /\ NamesFrom(q.chains, p.chains)
  BY <1>2, <1>3, SameList
<1>6. /\ \A i \in DOMAIN q.rules : MeantBy(p, q.rules[i])
      /\ MeantBy(p, q.default)
      /\ \A c \in DOMAIN q.chains : \A h \in DOMAIN q.chains[c].hops :
           Names(p.proxies, q.chains[c].hops[h].id, q.chains[c].hops[h].who)
  BY <1>3, SoundParts DEF RefsAreMeant
<1>7. Sound(q, m)
  BY <1>4, <1>5, <1>6, SoundStays
<1> QED
  BY <1>7 DEF q, vs

-----------------------------------------------------------------------------
\* The edits: one proxy, chain or rule becomes another of the same identity.
LEMMA ProxyStep ==
  ASSUME NEW p, NEW m, Sound(p, m), NEW i \in DOMAIN p.proxies, NEW x \in Proxies(p.next - 1, m),
         x.id = p.proxies[i].id, x.who = p.proxies[i].who
  PROVE  Sound([p EXCEPT !.proxies[i] = x], m)
<1> DEFINE n == p.next - 1
           ps == [p.proxies EXCEPT ![i] = x]
           q == [p EXCEPT !.proxies = ps]
<1>1. /\ p.next \in Nat \ {0} /\ n \in Nat /\ p.next = n + 1 /\ p \in Profiles(n, m) /\ Typed(p, m)
      /\ p.proxies \in Seq(Proxies(n, m))
      /\ \A j \in DOMAIN p.rules : p.rules[j].id # NoId
  BY SoundParts, PartsOf DEF Typed
<1>2. x \in Proxies(n, m)
  OBVIOUS
<1> HIDE DEF n
<1>3. /\ ps \in Seq(Proxies(n, m)) /\ DOMAIN ps = DOMAIN p.proxies
      /\ \A j \in DOMAIN ps : ps[j].id = p.proxies[j].id /\ ps[j].who = p.proxies[j].who
  <2>1. ps \in Seq(Proxies(n, m))
    BY <1>1, <1>2, LenProperties, ExceptSeq
  <2> QED
    BY <2>1
<1>4. q = [p EXCEPT !.proxies[i] = x]
  BY <1>1 DEF Profiles
<1> HIDE DEF ps
<1>5. /\ q.proxies = ps /\ q.chains = p.chains /\ q.rules = p.rules /\ q.vpns = p.vpns
      /\ q.default = p.default /\ q.next = p.next /\ q \in Profiles(n, m)
  BY <1>1, <1>3 DEF Profiles
<1> HIDE DEF q
<1>6. Typed(q, m)
  BY <1>1, <1>5 DEF Typed, n
<1>7. /\ IdsFrom(q.proxies, p.proxies) /\ IdsFrom(q.chains, p.chains)
      /\ IdsFrom(q.rules, p.rules) /\ IdsFrom(q.vpns, p.vpns)
  BY <1>3, <1>5, SameIds, SameList
<1>8. NamesFrom(q.proxies, p.proxies) /\ NamesFrom(q.chains, p.chains)
  BY <1>3, <1>5, SameList DEF NamesFrom
<1>9. /\ \A j \in DOMAIN q.rules : MeantBy(p, q.rules[j])
      /\ MeantBy(p, q.default)
      /\ \A c \in DOMAIN q.chains : \A h \in DOMAIN q.chains[c].hops :
           Names(p.proxies, q.chains[c].hops[h].id, q.chains[c].hops[h].who)
  BY <1>5, SoundParts DEF RefsAreMeant
<1>10. Sound(q, m)
  BY <1>6, <1>7, <1>8, <1>9, SoundStays
<1> QED
  BY <1>4, <1>10

\* A chain may be edited to any hops that name proxies of the profile, ...
LEMMA ChainStep ==
  ASSUME NEW p, NEW m, Sound(p, m), NEW i \in DOMAIN p.chains, NEW x \in Chains(p.next - 1, m),
         x.id = p.chains[i].id, x.who = p.chains[i].who,
         \A h \in DOMAIN x.hops : Names(p.proxies, x.hops[h].id, x.hops[h].who)
  PROVE  Sound([p EXCEPT !.chains[i] = x], m)
<1> DEFINE n == p.next - 1
           cs == [p.chains EXCEPT ![i] = x]
           q == [p EXCEPT !.chains = cs]
<1>1. /\ p.next \in Nat \ {0} /\ n \in Nat /\ p.next = n + 1 /\ p \in Profiles(n, m) /\ Typed(p, m)
      /\ p.chains \in Seq(Chains(n, m))
      /\ \A j \in DOMAIN p.rules : p.rules[j].id # NoId
  BY SoundParts, PartsOf DEF Typed
<1>2. x \in Chains(n, m)
  OBVIOUS
<1> HIDE DEF n
<1>3. /\ cs \in Seq(Chains(n, m)) /\ DOMAIN cs = DOMAIN p.chains
      /\ \A j \in DOMAIN cs : cs[j].id = p.chains[j].id /\ cs[j].who = p.chains[j].who
      /\ \A j \in DOMAIN cs : cs[j] = p.chains[j] \/ cs[j] = x
  <2>1. cs \in Seq(Chains(n, m))
    BY <1>1, <1>2, LenProperties, ExceptSeq
  <2> QED
    BY <2>1
<1>4. q = [p EXCEPT !.chains[i] = x]
  BY <1>1 DEF Profiles
<1> HIDE DEF cs
<1>5. /\ q.proxies = p.proxies /\ q.chains = cs /\ q.rules = p.rules /\ q.vpns = p.vpns
      /\ q.default = p.default /\ q.next = p.next /\ q \in Profiles(n, m)
  BY <1>1, <1>3 DEF Profiles
<1> HIDE DEF q
<1>6. Typed(q, m)
  BY <1>1, <1>5 DEF Typed, n
<1>7. /\ IdsFrom(q.proxies, p.proxies) /\ IdsFrom(q.chains, p.chains)
      /\ IdsFrom(q.rules, p.rules) /\ IdsFrom(q.vpns, p.vpns)
  BY <1>3, <1>5, SameIds, SameList
<1>8. NamesFrom(q.proxies, p.proxies) /\ NamesFrom(q.chains, p.chains)
  BY <1>3, <1>5, SameList DEF NamesFrom
<1>9. (\A j \in DOMAIN q.rules : MeantBy(p, q.rules[j])) /\ MeantBy(p, q.default)
  BY <1>5, SoundParts DEF RefsAreMeant
<1>10. ASSUME NEW c \in DOMAIN q.chains, NEW h \in DOMAIN q.chains[c].hops
       PROVE  Names(p.proxies, q.chains[c].hops[h].id, q.chains[c].hops[h].who)
  BY <1>3, <1>5, SoundParts DEF RefsAreMeant
<1>11. Sound(q, m)
  BY <1>6, <1>7, <1>8, <1>9, <1>10, SoundStays
<1> QED
  BY <1>4, <1>11

\* ... and a rule to any target that is meant.
LEMMA RuleStep ==
  ASSUME NEW p, NEW m, Sound(p, m), NEW i \in DOMAIN p.rules, NEW x \in Rules(p.next - 1, m),
         x.id = p.rules[i].id, MeantBy(p, x)
  PROVE  Sound([p EXCEPT !.rules[i] = x], m)
<1> DEFINE n == p.next - 1
           rs == [p.rules EXCEPT ![i] = x]
           q == [p EXCEPT !.rules = rs]
<1>1. /\ p.next \in Nat \ {0} /\ n \in Nat /\ p.next = n + 1 /\ p \in Profiles(n, m) /\ Typed(p, m)
      /\ p.rules \in Seq(Rules(n, m))
      /\ \A j \in DOMAIN p.rules : p.rules[j].id # NoId
  BY SoundParts, PartsOf DEF Typed
<1>2. x \in Rules(n, m)
  OBVIOUS
<1> HIDE DEF n
<1>3. /\ rs \in Seq(Rules(n, m)) /\ DOMAIN rs = DOMAIN p.rules
      /\ \A j \in DOMAIN rs : rs[j].id = p.rules[j].id
      /\ \A j \in DOMAIN rs : rs[j] = p.rules[j] \/ rs[j] = x
  <2>1. rs \in Seq(Rules(n, m))
    BY <1>1, <1>2, LenProperties, ExceptSeq
  <2> QED
    BY <2>1
<1>4. q = [p EXCEPT !.rules[i] = x]
  BY <1>1 DEF Profiles
<1> HIDE DEF rs
<1>5. /\ q.proxies = p.proxies /\ q.chains = p.chains /\ q.rules = rs /\ q.vpns = p.vpns
      /\ q.default = p.default /\ q.next = p.next /\ q \in Profiles(n, m)
  BY <1>1, <1>3 DEF Profiles
<1> HIDE DEF q
<1>6. Typed(q, m)
  BY <1>1, <1>3, <1>5 DEF Typed, n
<1>7. /\ IdsFrom(q.proxies, p.proxies) /\ IdsFrom(q.chains, p.chains)
      /\ IdsFrom(q.rules, p.rules) /\ IdsFrom(q.vpns, p.vpns)
      /\ NamesFrom(q.proxies, p.proxies) /\ NamesFrom(q.chains, p.chains)
  BY <1>3, <1>5, SameIds, SameList
<1>8. \A j \in DOMAIN q.rules : MeantBy(p, q.rules[j])
  BY <1>3, <1>5, SoundParts DEF RefsAreMeant
<1>9. /\ MeantBy(p, q.default)
      /\ \A c \in DOMAIN q.chains : \A h \in DOMAIN q.chains[c].hops :
           Names(p.proxies, q.chains[c].hops[h].id, q.chains[c].hops[h].who)
  BY <1>5, SoundParts DEF RefsAreMeant
<1>10. Sound(q, m)
  BY <1>6, <1>7, <1>8, <1>9, SoundStays
<1> QED
  BY <1>4, <1>10

\* What the panels' clicks make of a chain: of its type, the same chain, and by
\* hops it had, or by one more that is a proxy of the list.
LEMMA ClickedChain ==
  ASSUME NEW m, Sound(pf, m), NEW i \in DOMAIN pf.chains, NEW x \in ChainClicks(pf.chains[i])
  PROVE  /\ x \in Chains(pf.next - 1, m) /\ x.id = pf.chains[i].id /\ x.who = pf.chains[i].who
         /\ \A h \in DOMAIN x.hops : Names(pf.proxies, x.hops[h].id, x.hops[h].who)
<1> DEFINE n == pf.next - 1
           c == pf.chains[i]
           H == [id: 0..n, who: 1..m]
           Meant(hops) == \A h \in DOMAIN hops : Names(pf.proxies, hops[h].id, hops[h].who)
           Good(d) == d \in Chains(n, m) /\ d.id = c.id /\ d.who = c.who /\ Meant(d.hops)
<1>1. n \in Nat /\ pf.chains \in Seq(Chains(n, m)) /\ pf.proxies \in Seq(Proxies(n, m))
  BY SoundParts, PartsOf
<1> HIDE DEF n
<1>2. c \in Chains(n, m) /\ Meant(c.hops)
  BY <1>1, LenProperties, ElementOfSeq, SoundParts DEF RefsAreMeant
<1> HIDE DEF c
<1>3. /\ c.hops \in Seq(H) /\ Len(c.hops) \in Nat /\ Len(c.hops) <= MaxHops /\ DOMAIN c.hops = 1..Len(c.hops)
      /\ MaxHops \in Nat
  <2>1. PICK l \in 0..MaxHops : c.hops \in [1..l -> H]
    BY <1>2 DEF Chains, BoundedSeq, SeqOf
  <2> HIDE DEF H
  <2> QED
    BY <2>1, ProfileAssumption
<1>4. ASSUME NEW hops \in Seq(H), Len(hops) <= MaxHops, Meant(hops)
      PROVE  Good([c EXCEPT !.hops = hops])
  <2>1. hops \in BoundedSeq(H, MaxHops)
    <3> HIDE DEF H
    <3>1. Len(hops) \in 0..MaxHops /\ hops \in [1..Len(hops) -> H]
      BY <1>3, <1>4, LenProperties
    <3> QED
      BY <3>1 DEF BoundedSeq, SeqOf
  <2>2. /\ [c EXCEPT !.hops = hops] \in Chains(n, m) /\ [c EXCEPT !.hops = hops].id = c.id
        /\ [c EXCEPT !.hops = hops].who = c.who /\ [c EXCEPT !.hops = hops].hops = hops
    <3> HIDE DEF Meant
    <3> QED
      BY <1>2, <2>1 DEF Chains
  <2> QED
    BY <1>4, <2>2
<1>5. Good(c)
  BY <1>2
<1>6. ASSUME NEW t \in {"sequential", "redundancy"}
      PROVE  Good([c EXCEPT !.mode = t])
  <2>1. /\ [c EXCEPT !.mode = t] \in Chains(n, m) /\ [c EXCEPT !.mode = t].id = c.id
        /\ [c EXCEPT !.mode = t].who = c.who /\ [c EXCEPT !.mode = t].hops = c.hops
    BY <1>2 DEF Chains
  <2> QED
    BY <1>2, <2>1
<1>7. Good([c EXCEPT !.enabled = ~@])
  <2>1. ASSUME NEW b \in BOOLEAN
        PROVE  /\ [c EXCEPT !.enabled = b] \in Chains(n, m) /\ [c EXCEPT !.enabled = b].id = c.id
               /\ [c EXCEPT !.enabled = b].who = c.who /\ [c EXCEPT !.enabled = b].hops = c.hops
    BY <1>2 DEF Chains
  <2>2. (~ c.enabled) \in BOOLEAN
    OBVIOUS
  <2>3. /\ [c EXCEPT !.enabled = ~@] \in Chains(n, m) /\ [c EXCEPT !.enabled = ~@].id = c.id
        /\ [c EXCEPT !.enabled = ~@].who = c.who /\ [c EXCEPT !.enabled = ~@].hops = c.hops
    BY <2>1, <2>2
  <2> QED
    BY <1>2, <2>3
<1>8. ASSUME NEW y \in Range(pf.proxies)
      PROVE  Good(AddHop(c, y))
  <2>1. PICK j \in DOMAIN pf.proxies : y = pf.proxies[j]
    BY DEF Range
  <2>2. y \in Proxies(n, m)
    BY <1>1, <2>1, LenProperties, ElementOfSeq
  <2> DEFINE e == [id |-> y.id, who |-> y.who]
             hops == Append(c.hops, e)
  <2>3. e \in H
    BY <1>1, <2>2 DEF Proxies
  <2>4. Names(pf.proxies, e.id, e.who)
    BY <2>1, SoundParts DEF Names, IdsAreOwn, OneEach
  <2> HIDE DEF e
  <2>5. CASE Len(c.hops) < MaxHops
    <3>1. hops \in Seq(H) /\ Len(hops) <= MaxHops
      <4> HIDE DEF H
      <4> QED
        BY <1>3, <2>3, <2>5
    <3>2. Meant(hops)
      <4>1. \A h \in DOMAIN hops : (h \in DOMAIN c.hops /\ hops[h] = c.hops[h]) \/ hops[h] = e
        BY <1>3, AppendShape
      <4> HIDE DEF hops
      <4> QED
        BY <1>2, <2>4, <4>1
    <3>3. AddHop(c, y) = [c EXCEPT !.hops = hops]
      BY <2>5 DEF AddHop, e
    <3> HIDE DEF hops
    <3> QED
      BY <1>4, <3>1, <3>2, <3>3
  <2>6. CASE ~(Len(c.hops) < MaxHops)
    <3>1. AddHop(c, y) = [c EXCEPT !.hops = c.hops]
      BY <2>6 DEF AddHop
    <3> HIDE DEF H, Good, Meant
    <3> QED
      BY <1>2, <1>3, <1>4, <3>1
  <2> QED
    BY <2>5, <2>6
<1>9. ASSUME NEW hops \in Seq(H), Len(hops) <= MaxHops, Draws(hops, c.hops)
      PROVE  Good([c EXCEPT !.hops = hops])
  <2>1. Meant(hops)
    BY <1>2, <1>9 DEF Draws
  <2> QED
    BY <1>4, <1>9, <2>1
<1>10. ASSUME NEW h \in DOMAIN c.hops
       PROVE  Good([c EXCEPT !.hops = RemoveAt(@, h)])
  <2> DEFINE hops == RemoveAt(c.hops, h)
  <2>1. hops \in Seq(H) /\ Len(hops) = Len(c.hops) - 1 /\ Draws(hops, c.hops)
    <3> HIDE DEF H
    <3> QED
      BY <1>3, RemoveAtDraws, RemoveAtShifts
  <2> HIDE DEF hops, H
  <2>2. Good([c EXCEPT !.hops = hops])
    BY <1>3, <1>9, <2>1
  <2> QED
    BY <2>2 DEF hops
<1>11. ASSUME NEW h \in DOMAIN c.hops, NEW k \in DOMAIN c.hops
       PROVE  Good([c EXCEPT !.hops = Moved(@, h, k)])
  <2> DEFINE hops == Moved(c.hops, h, k)
  <2>1. hops \in Seq(H) /\ Len(hops) = Len(c.hops) /\ Draws(hops, c.hops)
    <3> HIDE DEF H
    <3> QED
      BY <1>3, MovedDraws
  <2> HIDE DEF hops, H
  <2>2. Good([c EXCEPT !.hops = hops])
    BY <1>3, <1>9, <2>1
  <2> QED
    BY <2>2 DEF hops
<1>12. x \in ChainClicks(c)
  BY DEF c
<1> HIDE DEF Good
<1>13. Good(x)
  <2>1. CASE \E t \in {"sequential", "redundancy"} \ {c.mode} : x = [c EXCEPT !.mode = t]
    BY <1>6, <2>1
  <2>2. CASE x = [c EXCEPT !.enabled = ~@]
    BY <1>7, <2>2
  <2>3. CASE \E y \in Range(pf.proxies) : x = AddHop(c, y)
    BY <1>8, <2>3
  <2>4. CASE \E h \in DOMAIN c.hops : x = [c EXCEPT !.hops = RemoveAt(@, h)]
    BY <1>10, <2>4
  <2>5. CASE \E h \in 1..(Len(c.hops) - 1) : x = [c EXCEPT !.hops = Moved(@, h, h + 1)]
    <3>1. PICK h \in 1..(Len(c.hops) - 1) : x = [c EXCEPT !.hops = Moved(@, h, h + 1)]
      BY <2>5
    <3>2. h \in DOMAIN c.hops /\ h + 1 \in DOMAIN c.hops
      BY <1>3
    <3> QED
      BY <1>11, <3>1, <3>2
  <2>6. CASE \E h \in 2..Len(c.hops) : x = [c EXCEPT !.hops = Moved(@, h, h - 1)]
    <3>1. PICK h \in 2..Len(c.hops) : x = [c EXCEPT !.hops = Moved(@, h, h - 1)]
      BY <2>6
    <3>2. h \in DOMAIN c.hops /\ h - 1 \in DOMAIN c.hops
      BY <1>3
    <3> QED
      BY <1>11, <3>1, <3>2
  <2> QED
    BY <1>12, <2>1, <2>2, <2>3, <2>4, <2>5, <2>6 DEF ChainClicks
<1> QED
  BY <1>13 DEF Good, n, c

\* What the panels' clicks make of a rule: of its type, the same rule, and pointed
\* at what it was, at nothing, or at an element of a list under its identifier.
LEMMA ClickedRule ==
  ASSUME NEW m, Sound(pf, m), NEW i \in DOMAIN pf.rules, NEW x \in RuleClicks(pf.rules[i])
  PROVE  x \in Rules(pf.next - 1, m) /\ x.id = pf.rules[i].id /\ MeantBy(pf, x)
<1> DEFINE n == pf.next - 1
           r0 == pf.rules[i]
           Good(r) == r \in Rules(n, m) /\ r.id = r0.id /\ MeantBy(pf, r)
           Alike(r, s) == r.id = s.id /\ r.target = s.target /\ r.meant = s.meant
           Blank(r, s) == r.id = s.id /\ r.target = NoId
<1>1. /\ n \in Nat /\ pf.chains \in Seq(Chains(n, m)) /\ pf.proxies \in Seq(Proxies(n, m))
      /\ pf.rules \in Seq(Rules(n, m))
  BY SoundParts, PartsOf
<1> HIDE DEF n
<1>2. /\ \A j \in DOMAIN pf.proxies : pf.proxies[j].id \in 0..n /\ pf.proxies[j].who \in 0..m
      /\ \A j \in DOMAIN pf.chains : pf.chains[j].id \in 0..n /\ pf.chains[j].who \in 0..m
  <2>1. \A j \in DOMAIN pf.proxies : pf.proxies[j] \in Proxies(n, m)
    BY <1>1, LenProperties, ElementOfSeq
  <2>2. \A j \in DOMAIN pf.chains : pf.chains[j] \in Chains(n, m)
    BY <1>1, LenProperties, ElementOfSeq
  <2>3. 1..n \subseteq 0..n /\ 1..m \subseteq 0..m
    OBVIOUS
  <2> QED
    BY <2>1, <2>2, <2>3 DEF Proxies, Chains
<1>3. Good(r0)
  BY <1>1, LenProperties, ElementOfSeq, SoundParts DEF RefsAreMeant
<1> HIDE DEF r0
<1>4. ASSUME NEW r, Good(r), NEW s \in Rules(n, m), Alike(s, r)
      PROVE  Good(s)
  BY <1>4 DEF MeantBy
<1>5. ASSUME NEW r, Good(r), NEW s \in Rules(n, m), Blank(s, r)
      PROVE  Good(s)
  BY <1>5, SoundParts DEF MeantBy
<1>6. ASSUME NEW r \in Rules(n, m)
      PROVE  /\ \A b \in BOOLEAN : [r EXCEPT !.enabled = b] \in Rules(n, m) /\ Alike([r EXCEPT !.enabled = b], r)
             /\ \A k \in Kinds : [r EXCEPT !.kind = k] \in Rules(n, m) /\ Alike([r EXCEPT !.kind = k], r)
             /\ \A a \in Actions, k \in Kinds :
                  [r EXCEPT !.action = a, !.kind = k] \in Rules(n, m) /\ Alike([r EXCEPT !.action = a, !.kind = k], r)
  BY DEF Rules
<1>7. ASSUME NEW r \in Rules(n, m), NEW q \in Patterns
       PROVE  [r EXCEPT !.match = q] \in Rules(n, m) /\ Alike([r EXCEPT !.match = q], r)
  BY DEF Rules
<1>8. ASSUME NEW r \in Rules(n, m), NEW k \in Kinds, NEW t \in 0..n
       PROVE  /\ [r EXCEPT !.kind = k, !.target = t] \in Rules(n, m)
              /\ [r EXCEPT !.kind = k, !.target = t].id = r.id
              /\ [r EXCEPT !.kind = k, !.target = t].target = t
  BY DEF Rules
<1>9. ASSUME NEW r, Good(r), NEW k \in DOMAIN Candidates(r)
      PROVE  Good(Picked(r, Candidates(r)[k]))
  <2> DEFINE y == Candidates(r)[k]
             s == Picked(r, y)
  <2>1. y.id \in 0..n /\ y.who \in 0..m
    BY <1>2 DEF Candidates
  <2>2. Names(pf.proxies, y.id, y.who) /\ Names(pf.chains, y.id, y.who)
    <3>1. OneEach(pf.proxies) /\ OneEach(pf.chains) /\ Apart(pf.proxies, pf.chains)
      BY SoundParts DEF IdsAreOwn
    <3> QED
      BY <3>1 DEF Candidates, Names, OneEach, Apart
  <2> HIDE DEF y
  <2>3. s \in Rules(n, m) /\ s.id = r.id /\ s.target = y.id /\ s.meant = y.who
    <3> DEFINE t == y.id
               w == y.who
    <3>1. r \in Rules(n, m) /\ t \in 0..n /\ w \in 0..m
      BY <1>9, <2>1
    <3>2. s = [r EXCEPT !.target = t, !.meant = w]
      BY DEF Picked
    <3> HIDE DEF s, t, w
    <3>3. s \in Rules(n, m) /\ s.id = r.id /\ s.target = t /\ s.meant = w
      BY <3>1, <3>2 DEF Rules
    <3> QED
      BY <3>3 DEF t, w
  <2> HIDE DEF s
  <2>4. Good(s)
    BY <1>9, <2>2, <2>3 DEF MeantBy
  <2> QED
    BY <2>4 DEF s, y
<1>10. ASSUME NEW r, Good(r)
      PROVE  Good(Repaired(r))
  <2>1. "proxy" \in Kinds
    BY DEF Kinds
  <2>2. Good([r EXCEPT !.kind = "proxy"])
    <3> HIDE DEF Good, Alike
    <3>1. r \in Rules(n, m)
      BY <1>10 DEF Good
    <3> QED
      BY <1>4, <1>6, <1>10, <2>1, <3>1
  <2> HIDE DEF Good
  <2> QED
    BY <1>10, <2>2 DEF Repaired
<1>11. ASSUME NEW r, Good(r)
      PROVE  Good(FilledIn(r))
  <2> HIDE DEF Good
  <2>1. CASE r.action = "proxy" /\ r.target = NoId /\ Candidates(r) # <<>>
    <3>1. Candidates(r) \in Seq(Proxies(n, m)) \/ Candidates(r) \in Seq(Chains(n, m))
      BY <1>1 DEF Candidates
    <3>2. 1 \in DOMAIN Candidates(r)
      BY <2>1, <3>1
    <3>3. FilledIn(r) = Picked(r, Candidates(r)[1])
      BY <2>1 DEF FilledIn
    <3> QED
      BY <1>9, <1>11, <3>2, <3>3
  <2>2. CASE ~(r.action = "proxy" /\ r.target = NoId /\ Candidates(r) # <<>>)
    BY <1>11, <2>2 DEF FilledIn
  <2> QED
    BY <2>1, <2>2
<1>12. ASSUME NEW r, Good(r), NEW a \in Actions
       PROVE  Good(ActionClicked(r, a))
  <2> DEFINE k == IF a = "proxy" THEN r.kind ELSE "none"
  <2>1. r \in Rules(n, m) /\ k \in Kinds
    BY <1>12 DEF Kinds, Rules
  <2>2. ActionClicked(r, a) = [r EXCEPT !.action = a, !.kind = k]
    BY DEF ActionClicked
  <2> HIDE DEF k, Alike, Good
  <2>3. Good([r EXCEPT !.action = a, !.kind = k])
    BY <1>4, <1>6, <1>12, <2>1
  <2> QED
    BY <2>2, <2>3
<1>13. ASSUME NEW r, Good(r), NEW k \in {"proxy", "chain"}
       PROVE  Good([r EXCEPT !.kind = k, !.target = NoId])
  <2>1. r \in Rules(n, m) /\ k \in Kinds /\ NoId \in 0..n
    BY <1>1, <1>13 DEF Kinds, NoId
  <2>2. /\ [r EXCEPT !.kind = k, !.target = NoId] \in Rules(n, m)
        /\ Blank([r EXCEPT !.kind = k, !.target = NoId], r)
    <3> DEFINE t == NoId
    <3>1. t \in 0..n /\ [r EXCEPT !.kind = k, !.target = NoId] = [r EXCEPT !.kind = k, !.target = t]
      BY <2>1
    <3> HIDE DEF t
    <3>2. [r EXCEPT !.kind = k, !.target = t] \in Rules(n, m)
      BY <1>8, <2>1, <3>1
    <3>3. [r EXCEPT !.kind = k, !.target = t].id = r.id
      BY <2>1, <3>1 DEF Rules
    <3>4. [r EXCEPT !.kind = k, !.target = t].target = t
      BY <2>1, <3>1 DEF Rules
    <3> QED
      BY <3>1, <3>2, <3>3, <3>4 DEF t
  <2> HIDE DEF Good, Blank
  <2> QED
    BY <1>5, <1>13, <2>2
<1>14. ASSUME NEW r, Good(r), NEW s \in RouteClicks(r)
       PROVE  Good(s)
  <2> HIDE DEF Good
  <2>1. CASE \E k \in {"proxy", "chain"} \ {r.kind} : s = FilledIn([r EXCEPT !.kind = k, !.target = NoId])
    <3>1. PICK k \in {"proxy", "chain"} : s = FilledIn([r EXCEPT !.kind = k, !.target = NoId])
      BY <2>1
    <3>2. Good([r EXCEPT !.kind = k, !.target = NoId])
      BY <1>13, <1>14
    <3> QED
      BY <1>11, <3>1, <3>2
  <2>2. CASE \E k \in DOMAIN Candidates(r) \ {Shown(r)} : s = Picked(r, Candidates(r)[k])
    BY <1>9, <1>14, <2>2
  <2> QED
    BY <1>14, <2>1, <2>2 DEF RouteClicks
<1>15. Good(x)
  <2> DEFINE drawn == FilledIn(Repaired(r0))
  <2> HIDE DEF Good
  <2>1. Good(drawn)
    BY <1>3, <1>10, <1>11
  <2> HIDE DEF drawn
  <2>2. drawn \in Rules(n, m)
    BY <2>1 DEF Good
  <2>3. CASE x = drawn
    BY <2>1, <2>3
  <2>4. CASE x = [drawn EXCEPT !.enabled = ~@]
    <3> HIDE DEF Alike
    <3>1. (~ drawn.enabled) \in BOOLEAN
      OBVIOUS
    <3>2. x \in Rules(n, m) /\ Alike(x, drawn)
      BY <1>6, <2>2, <2>4, <3>1
    <3> QED
      BY <1>4, <2>1, <3>2
  <2>9. CASE x = [r0 EXCEPT !.enabled = ~@]
    <3> HIDE DEF Alike
    <3>1. (~ r0.enabled) \in BOOLEAN /\ r0 \in Rules(n, m)
      BY <1>3 DEF Good
    <3>2. x \in Rules(n, m) /\ Alike(x, r0)
      BY <1>6, <2>9, <3>1
    <3> QED
      BY <1>3, <1>4, <3>2
  <2>5. CASE \E q \in Patterns : x = [drawn EXCEPT !.match = q]
    <3> HIDE DEF Alike
    <3>1. x \in Rules(n, m) /\ Alike(x, drawn)
      BY <1>7, <2>2, <2>5
    <3> QED
      BY <1>4, <2>1, <3>1
  <2>6. CASE \E a \in Actions \ {r0.action} : x = FilledIn(Repaired(ActionClicked(r0, a)))
    <3>1. PICK a \in Actions : x = FilledIn(Repaired(ActionClicked(r0, a)))
      BY <2>6
    <3>2. Good(ActionClicked(r0, a))
      BY <1>3, <1>12
    <3>3. Good(Repaired(ActionClicked(r0, a)))
      BY <1>10, <3>2
    <3> QED
      BY <1>11, <3>1, <3>3
  <2>7. CASE \E y \in {z \in {r0} : z.action = "proxy"} : x \in RouteClicks(Repaired(y))
    <3>1. x \in RouteClicks(Repaired(r0))
      BY <2>7
    <3>2. Good(Repaired(r0))
      BY <1>3, <1>10
    <3> QED
      BY <1>14, <3>1, <3>2
  <2>8. x \in RuleClicks(r0)
    BY DEF r0
  <2> QED
    BY <2>3, <2>4, <2>5, <2>6, <2>7, <2>8, <2>9 DEF RuleClicks, drawn
<1> QED
  BY <1>15 DEF n, r0

-----------------------------------------------------------------------------

\* The inductive invariant: what is in memory is sound, and what is in the file will
\* be when it is loaded, whenever that is.
ProfileInv ==
  /\ made \in Nat /\ edits \in 0..MaxEdits
  /\ Sound(pf, made)
  /\ Sound(FromJson(file), made)

\* Loading raises next_id above whatever a sound file holds.
LEMMA SoundFileLoads ==
  ASSUME NEW f, FileIsSound(f)
  PROVE  LET m == Len(f.proxies) + Len(f.chains)
         IN  m \in Nat /\ Sound(FromJson(f), m)
<1> DEFINE m == Len(f.proxies) + Len(f.chains)
           ids == IdsIn(f.proxies) \cup IdsIn(f.rules) \cup IdsIn(f.chains)
           chains == [c \in DOMAIN f.chains |-> Cropped(f.chains[c])]
           loaded(k) == [f EXCEPT !.chains = chains, !.next = k]
           tops == {f.next} \cup {i + 1 : i \in ids}
<1>1. PICK n \in {f.next - 1} \cup ids : f.next \in 0..n + 1 /\ m \in Nat /\ Sound(loaded(n + 1), m)
  BY DEF FileIsSound
<1> DEFINE q == loaded(n + 1)
<1>2. /\ DOMAIN q = DOMAIN f /\ DOMAIN q = {"next", "proxies", "chains", "rules", "default", "vpns"}
      /\ Typed(q, m) /\ q \in Profiles(q.next - 1, m)
  BY <1>1 DEF Sound, Typed, Profiles
<1>3. q.proxies = f.proxies /\ q.rules = f.rules /\ q.next = n + 1 /\ q.chains = chains
  BY <1>2
<1>4. /\ n + 1 \in Nat /\ q.proxies \in Seq(Proxies(n + 1 - 1, m)) /\ q.rules \in Seq(Rules(n + 1 - 1, m))
      /\ q.chains \in Seq(Chains(n + 1 - 1, m))
  <2> HIDE DEF q
  <2>1. /\ q.next \in Nat
        /\ q.proxies \in Seq(Proxies(q.next - 1, m)) /\ q.rules \in Seq(Rules(q.next - 1, m))
        /\ q.chains \in Seq(Chains(q.next - 1, m))
    BY <1>2, PartsOf
  <2> DEFINE k == n + 1
  <2>2. q.next = k
    BY <1>3
  <2> HIDE DEF m, k
  <2>3. k \in Nat
    BY <2>1, <2>2
  <2>4. /\ q.proxies \in Seq(Proxies(k - 1, m)) /\ q.rules \in Seq(Rules(k - 1, m))
        /\ q.chains \in Seq(Chains(k - 1, m))
    BY <2>1, <2>2
  <2> QED
    BY <2>3, <2>4 DEF k
<1> HIDE DEF q
<1>5. \A k \in ids : k \in Int /\ k <= n + 1 - 1
  <2>1. \A i \in DOMAIN f.proxies : f.proxies[i] \in Proxies(n + 1 - 1, m)
    BY <1>3, <1>4, LenProperties, ElementOfSeq
  <2>2. \A i \in DOMAIN f.rules : f.rules[i] \in Rules(n + 1 - 1, m)
    BY <1>3, <1>4, LenProperties, ElementOfSeq
  <2>3. \A i \in DOMAIN chains : chains[i] \in Chains(n + 1 - 1, m)
    BY <1>3, <1>4, LenProperties, ElementOfSeq
  <2>4. \A i \in DOMAIN f.chains : chains[i].id = f.chains[i].id
    <3>1. ASSUME NEW i \in DOMAIN f.chains
          PROVE  chains[i].id = f.chains[i].id
      <4>1. chains[i] = [f.chains[i] EXCEPT !.hops = chains[i].hops]
        BY <2>3 DEF Cropped, Chains
      <4>2. chains[i] \in Chains(n + 1 - 1, m)
        BY <2>3
      <4> QED
        BY <4>1, <4>2 DEF Chains
    <3> QED
      BY <3>1
  <2>5. DOMAIN chains = DOMAIN f.chains
    OBVIOUS
  <2> HIDE DEF chains
  <2>6. \A i \in DOMAIN f.proxies : f.proxies[i].id \in 0..n + 1 - 1
    BY <2>1 DEF Proxies
  <2>7. \A i \in DOMAIN f.rules : f.rules[i].id \in 0..n + 1 - 1
    BY <2>2 DEF Rules
  <2>8. \A i \in DOMAIN f.chains : f.chains[i].id \in 0..n + 1 - 1
    <3>1. \A i \in DOMAIN chains : chains[i].id \in 1..n + 1 - 1
      BY <2>3 DEF Chains
    <3>2. 1..n + 1 - 1 \subseteq 0..n + 1 - 1
      BY <1>4
    <3> QED
      BY <2>4, <2>5, <3>1, <3>2
  <2>9. \A k \in ids : k \in 0..n + 1 - 1
    BY <2>6, <2>7, <2>8 DEF IdsIn
  <2> QED
    BY <1>4, <2>9
<1>6. n \in Int /\ f.next \in Int /\ f.next <= n + 1
  BY <1>1, <1>5
<1>7. Max(tops) = n + 1
  <2> HIDE DEF ids
  <2>1. tops \in SUBSET Int /\ n + 1 \in tops /\ \A k \in tops : k <= n + 1
    BY <1>1, <1>5, <1>6
  <2> HIDE DEF tops
  <2> QED
    BY <2>1, GreatestIs
<1>8. FromJson(f) = loaded(Max(tops))
  BY DEF FromJson
<1> QED
  BY <1>1, <1>7, <1>8 DEF q

\* A sound file is loaded into a sound profile.
LEMMA InitKeeps ==
  ASSUME \A f \in Files : FileIsSound(f)
  PROVE  ProfileInit => ProfileInv
<1> SUFFICES ASSUME ProfileInit
             PROVE  ProfileInv
  OBVIOUS
<1>1. edits \in 0..MaxEdits
  BY ProfileAssumption DEF ProfileInit
<1>2. FileIsSound(file)
  BY DEF ProfileInit
<1>3. made \in Nat /\ Sound(FromJson(file), made)
  BY <1>2, SoundFileLoads DEF ProfileInit
<1> QED
  BY <1>1, <1>3 DEF ProfileInit, ProfileInv

\* An operation that makes no object, or makes one, and leaves the file alone.
LEMMA StepKeeps ==
  ASSUME ProfileInv, Edit, UNCHANGED file, made' \in {made, made + 1}, Sound(pf', made')
  PROVE  ProfileInv'
<1>1. edits' \in 0..MaxEdits
  BY ProfileAssumption DEF ProfileInv, Edit
<1>2. made \in Nat /\ made' \in Nat /\ made <= made'
  BY DEF ProfileInv
<1>3. FromJson(file)' = FromJson(file)
  BY DEF FromJson, Cropped, IdsIn, NoId
<1>4. Sound(FromJson(file), made')
  BY <1>2, SoundGrows DEF ProfileInv
<1> QED
  BY <1>1, <1>2, <1>3, <1>4 DEF ProfileInv

\* Every step keeps the profile sound, and the file, loaded again, sound.
LEMMA NextKeeps ==
  ASSUME ProfileInv, [ProfileNext]_profileVars
  PROVE  ProfileInv'
<1>1. made \in Nat /\ Sound(pf, made) /\ Sound(FromJson(file), made)
  BY DEF ProfileInv
<1>2. CASE UNCHANGED profileVars
  BY <1>2 DEF ProfileInv, profileVars
<1>3. CASE AddProxy
  <2>1. Sound(pf', made')
    <3> DEFINE q == [pf EXCEPT !.next = NewId(pf) + 1,
                               !.proxies = Append(@, [id |-> NewId(pf), who |-> made + 1, enabled |-> TRUE])]
    <3>1. Sound(q, made + 1)
      BY <1>1, AddProxyStep, Zenon
    <3>2. pf' = q /\ made' = made + 1
      BY <1>3 DEF AddProxy
    <3> HIDE DEF q
    <3> QED
      BY <3>1, <3>2
  <2> QED
    BY <1>3, <2>1, StepKeeps DEF AddProxy
<1>4. CASE AddChain
  <2>1. Sound(pf', made')
    BY <1>1, <1>4, AddChainStep DEF AddChain
  <2> QED
    BY <1>4, <2>1, StepKeeps DEF AddChain
<1>5. CASE AddRule
  <2>1. Sound(pf', made')
    BY <1>1, <1>5, AddRuleStep DEF AddRule
  <2> QED
    BY <1>5, <2>1, StepKeeps DEF AddRule
<1>6. CASE ImportVpn
  <2>1. Sound(pf', made')
    BY <1>1, <1>6, ImportVpnStep DEF ImportVpn
  <2> QED
    BY <1>6, <2>1, StepKeeps DEF ImportVpn
<1>7. CASE Save
  <2>1. FromJson(pf) = pf
    BY <1>1, SoundParts, FromJsonKeeps
  <2>2. file' = pf /\ pf' = pf /\ made' = made /\ edits' \in 0..MaxEdits
    BY <1>7, ProfileAssumption DEF Save, ProfileInv, Edit
  <2>3. FromJson(file)' = FromJson(pf)
    BY <2>2 DEF FromJson, Cropped, IdsIn
  <2> QED
    BY <1>1, <2>1, <2>2, <2>3 DEF ProfileInv
<1>8. CASE Reload
  <2>1. Sound(pf', made')
    BY <1>1, <1>8 DEF Reload
  <2> QED
    BY <1>8, <2>1, StepKeeps DEF Reload
<1>9. CASE \E id \in IdsIn(pf.proxies) : RemoveProxy(id)
  <2>1. PICK id \in IdsIn(pf.proxies) : RemoveProxy(id)
    BY <1>9
  <2>2. Sound(pf', made')
    BY <1>1, <2>1, RemoveProxyStep DEF RemoveProxy
  <2> QED
    BY <2>1, <2>2, StepKeeps DEF RemoveProxy
<1>10. CASE \E id \in IdsIn(pf.chains) : RemoveChain(id)
  <2>1. PICK id \in IdsIn(pf.chains) : RemoveChain(id)
    BY <1>10
  <2>2. Sound(pf', made')
    BY <1>1, <2>1, RemoveChainStep DEF RemoveChain
  <2> QED
    BY <2>1, <2>2, StepKeeps DEF RemoveChain
<1>11. CASE \E id \in IdsIn(pf.rules) : RemoveRule(id)
  <2>1. PICK id \in IdsIn(pf.rules) : RemoveRule(id)
    BY <1>11
  <2>2. IndexOf(pf.rules, id) # {} /\ pf.rules \in Seq(Rules(pf.next - 1, made))
    BY <1>1, <2>1, SoundParts, PartsOf DEF RemoveRule
  <2>3. /\ Without(pf.rules, id) \in Seq(Rules(pf.next - 1, made))
        /\ Draws(Without(pf.rules, id), pf.rules)
    BY <2>2, WithoutDraws
  <2>4. Sound(pf', made')
    BY <1>1, <2>1, <2>3, RulesStep DEF RemoveRule
  <2> QED
    BY <2>1, <2>4, StepKeeps DEF RemoveRule
<1>12. CASE \E id \in IdsIn(pf.vpns) : RemoveVpn(id)
  <2>1. PICK id \in IdsIn(pf.vpns) : RemoveVpn(id)
    BY <1>12
  <2>2. Sound(pf', made')
    BY <1>1, <2>1, RemoveVpnStep DEF RemoveVpn
  <2> QED
    BY <2>1, <2>2, StepKeeps DEF RemoveVpn
<1>13. CASE \E i \in DOMAIN pf.proxies : ToggleProxy(i)
  <2>1. PICK i \in DOMAIN pf.proxies : ToggleProxy(i)
    BY <1>13
  <2> DEFINE n == pf.next - 1
             b == ~ pf.proxies[i].enabled
             x == [pf.proxies[i] EXCEPT !.enabled = b]
  <2>2. pf.proxies[i] \in Proxies(n, made) /\ pf \in Profiles(n, made) /\ pf.proxies \in Seq(Proxies(n, made))
    BY <1>1, SoundParts, PartsOf, LenProperties, ElementOfSeq
  <2>3. x \in Proxies(n, made) /\ x.id = pf.proxies[i].id /\ x.who = pf.proxies[i].who
    <3>1. b \in BOOLEAN
      OBVIOUS
    <3> HIDE DEF n, b
    <3> QED
      BY <2>2, <3>1 DEF Proxies
  <2>4. pf' = [pf EXCEPT !.proxies[i] = x]
    BY <2>1 DEF ToggleProxy
  <2> HIDE DEF x
  <2>5. Sound(pf', made')
    BY <1>1, <2>1, <2>3, <2>4, ProxyStep DEF ToggleProxy
  <2> QED
    BY <2>1, <2>5, StepKeeps DEF ToggleProxy
<1>14. CASE \E i \in DOMAIN pf.chains : EditChain(i)
  <2>1. PICK i \in DOMAIN pf.chains : EditChain(i)
    BY <1>14
  <2>2. PICK x \in ChainClicks(pf.chains[i]) : pf' = [pf EXCEPT !.chains[i] = x]
    BY <2>1 DEF EditChain
  <2>3. Sound(pf', made')
    BY <1>1, <2>1, <2>2, ClickedChain, ChainStep DEF EditChain
  <2> QED
    BY <2>1, <2>3, StepKeeps DEF EditChain
<1>15. CASE \E i \in DOMAIN pf.rules : EditRule(i)
  <2>1. PICK i \in DOMAIN pf.rules : EditRule(i)
    BY <1>15
  <2>2. PICK x \in RuleClicks(pf.rules[i]) : pf' = [pf EXCEPT !.rules[i] = x]
    BY <2>1 DEF EditRule
  <2>3. Sound(pf', made')
    BY <1>1, <2>1, <2>2, ClickedRule, RuleStep DEF EditRule
  <2> QED
    BY <2>1, <2>3, StepKeeps DEF EditRule
<1>16. CASE \E from, to \in DOMAIN pf.rules : MoveRule(from, to)
  <2>1. PICK from \in DOMAIN pf.rules, to \in DOMAIN pf.rules : MoveRule(from, to)
    BY <1>16
  <2>2. pf.rules \in Seq(Rules(pf.next - 1, made))
    BY <1>1, SoundParts, PartsOf
  <2>3. /\ Moved(pf.rules, from, to) \in Seq(Rules(pf.next - 1, made))
        /\ Draws(Moved(pf.rules, from, to), pf.rules)
    BY <2>2, MovedDraws
  <2>4. Sound(pf', made')
    BY <1>1, <2>1, <2>3, RulesStep DEF MoveRule
  <2> QED
    BY <2>1, <2>4, StepKeeps DEF MoveRule
<1> QED
  BY <1>2, <1>3, <1>4, <1>5, <1>6, <1>7, <1>8, <1>9, <1>10, <1>11, <1>12, <1>13, <1>14, <1>15, <1>16
     DEF ProfileNext

-----------------------------------------------------------------------------
\* The profile in memory and the one on disk are sound at every step.
LEMMA ProfileInvariant ==
  ASSUME \A f \in Files : FileIsSound(f)
  PROVE  ProfileSpec => []ProfileInv
<1>1. ProfileInit => ProfileInv
  BY InitKeeps
<1>2. ProfileInv /\ [ProfileNext]_profileVars => ProfileInv'
  BY NextKeeps
<1> QED
  BY <1>1, <1>2, PTL DEF ProfileSpec

\* Types: whatever is added, removed, edited, saved and reloaded, every identifier in
\* use or referred to is below next_id and no chain outgrows its array.
THEOREM ProfileTypes ==
  ASSUME \A f \in Files : FileIsSound(f)
  PROVE  ProfileSpec => []ProfileTypeOK
<1>1. ProfileInv => ProfileTypeOK
  BY DEF ProfileInv, ProfileTypeOK, Sound
<1> QED
  BY <1>1, ProfileInvariant, PTL

\* No identifier names two objects, of one kind or of two (pmx_profile_find_*, and
\* the panels, take the first match).
THEOREM IdentifiersNeverCollide ==
  ASSUME \A f \in Files : FileIsSound(f)
  PROVE  ProfileSpec => []IdsNeverCollide
<1>1. ProfileInv => IdsNeverCollide
  <2> SUFFICES ASSUME ProfileInv
               PROVE  IdsNeverCollide
    OBVIOUS
  <2> DEFINE lists == <<pf.proxies, pf.chains, pf.rules, pf.vpns>>
  <2>1. /\ OneEach(pf.proxies) /\ OneEach(pf.chains) /\ OneEach(pf.rules) /\ OneEach(pf.vpns)
        /\ Apart(pf.proxies, pf.chains) /\ Apart(pf.proxies, pf.rules) /\ Apart(pf.proxies, pf.vpns)
        /\ Apart(pf.chains, pf.rules) /\ Apart(pf.chains, pf.vpns) /\ Apart(pf.rules, pf.vpns)
    BY DEF ProfileInv, Sound, IdsAreOwn
  <2>2. \A a \in 1..4 : OneEach(lists[a])
    BY <2>1
  <2>3. ASSUME NEW a \in 1..4, NEW b \in 1..4, a # b
        PROVE  Apart(lists[a], lists[b])
    <3>1. \A s, t : Apart(s, t) => Apart(t, s)
      BY ApartBothWays
    <3> QED
      BY <2>1, <2>3, <3>1
  <2>4. ASSUME NEW a \in 1..4, NEW b \in 1..4, NEW i \in DOMAIN lists[a], NEW j \in DOMAIN lists[b],
               lists[a][i].id = lists[b][j].id
        PROVE  a = b /\ i = j
    <3> HIDE DEF lists
    <3>1. a = b
      BY <2>3, <2>4 DEF Apart
    <3>2. i = j
      BY <2>2, <2>4, <3>1 DEF OneEach
    <3> QED
      BY <3>1, <3>2
  <2>5. DOMAIN lists = 1..4
    OBVIOUS
  <2> HIDE DEF lists
  <2>6. \A a, b \in DOMAIN lists : \A i \in DOMAIN lists[a], j \in DOMAIN lists[b] :
          lists[a][i].id = lists[b][j].id => a = b /\ i = j
    BY <2>4, <2>5
  <2> QED
    BY <2>6 DEF IdsNeverCollide, lists
<1> QED
  BY <1>1, ProfileInvariant, PTL

\* What a lookup finds is in the list under that identifier.
LEMMA FoundIs ==
  ASSUME NEW s, NEW id, NEW x \in Find(s, id)
  PROVE  \E i \in DOMAIN s : x = s[i] /\ s[i].id = id
BY DEF Find, IndexOf

\* The path through a chain is that of the proxies its hops were picked as.
LEMMA PathsAreMeant ==
  ASSUME NEW m, Sound(pf, m), NEW k \in DOMAIN pf.chains, NEW path \in Path(pf, pf.chains[k])
  PROVE  LET c     == pf.chains[k]
             meant == [h \in DOMAIN c.hops |-> c.hops[h].who]
         IN  IF c.mode = "sequential" THEN path = meant ELSE path = <<meant[1]>>
<1> DEFINE c == pf.chains[k]
           H == [id: 0..(pf.next - 1), who: 1..m]
           meant == [h \in DOMAIN c.hops |-> c.hops[h].who]
           at(h) == (CHOOSE x \in Usable(pf, c.hops[h].id) : TRUE).who
           used == IF c.mode = "redundancy" THEN 1..1 ELSE DOMAIN c.hops
<1>1. c \in Chains(pf.next - 1, m)
  BY SoundParts, PartsOf, LenProperties, ElementOfSeq
<1>2. c.mode \in {"sequential", "redundancy"} /\ c.hops \in Seq(H)
  <2>1. PICK l \in 0..MaxHops : c.hops \in [1..l -> H]
    BY <1>1 DEF Chains, BoundedSeq, SeqOf
  <2>2. c.hops \in Seq(H)
    <3> HIDE DEF H, c
    <3> QED
      BY <2>1, ProfileAssumption
  <2> QED
    BY <1>1, <2>2 DEF Chains
<1>3. Traversable(pf, c) /\ path = [h \in used |-> at(h)]
  BY DEF Path, Through
<1>4. ASSUME NEW h \in DOMAIN c.hops
      PROVE  at(h) = c.hops[h].who
  <2>1. PICK x \in Usable(pf, c.hops[h].id) : x = CHOOSE y \in Usable(pf, c.hops[h].id) : TRUE
    BY <1>3 DEF Traversable
  <2>2. PICK i \in DOMAIN pf.proxies : x = pf.proxies[i] /\ pf.proxies[i].id = c.hops[h].id
    BY FoundIs DEF Usable
  <2>3. Names(pf.proxies, c.hops[h].id, c.hops[h].who)
    BY SoundParts DEF RefsAreMeant
  <2> QED
    BY <2>1, <2>2, <2>3 DEF Names
<1>5. c.hops # <<>>
  BY <1>3 DEF Traversable
<1> HIDE DEF c, at
<1>6. CASE c.mode = "sequential"
  <2>1. path = meant
    BY <1>3, <1>4, <1>6
  <2> QED
    BY <1>6, <2>1 DEF c
<1>7. CASE c.mode = "redundancy"
  <2>1. 1 \in DOMAIN c.hops
    BY <1>2, <1>5
  <2>2. at(1) = meant[1]
    BY <1>4, <2>1
  <2>3. path = [h \in 1..1 |-> at(h)]
    BY <1>3, <1>7
  <2> HIDE DEF meant
  <2>4. path = <<meant[1]>>
    <3>1. DOMAIN <<meant[1]>> = 1..1 /\ \A h \in 1..1 : h = 1
      OBVIOUS
    <3> QED
      BY <2>2, <2>3, <3>1
  <2> QED
    BY <1>7, <2>4 DEF c, meant
<1> QED
  BY <1>2, <1>6, <1>7 DEF c

\* A proxying rule leads to the very proxy or chain it was pointed at, by every hop
\* of a sequential chain in order, or nowhere (pmx_resolve_with_profile).
THEOREM ProxyingRulesAreMeant ==
  ASSUME \A f \in Files : FileIsSound(f)
  PROVE  ProfileSpec => []RoutesAreMeant
<1>1. ProfileInv => RoutesAreMeant
  <2> SUFFICES ASSUME ProfileInv
               PROVE  RoutesAreMeant
    OBVIOUS
  <2>1. Sound(pf, made)
    BY DEF ProfileInv
  <2> SUFFICES ASSUME NEW r \in Range(pf.rules) \cup {pf.default}, NEW path \in Via(pf, r)
               PROVE  \/ r.kind = "proxy" /\ path = <<r.meant>>
                      \/ /\ r.kind = "chain"
                         /\ \E c \in Range(pf.chains) :
                              /\ c.who = r.meant
                              /\ LET meant == [h \in DOMAIN c.hops |-> c.hops[h].who]
                                 IN  IF c.mode = "sequential" THEN path = meant ELSE path = <<meant[1]>>
    BY DEF RoutesAreMeant
  <2>2. MeantBy(pf, r)
    BY <2>1, SoundParts DEF RefsAreMeant, Range
  <2>3. CASE r.kind = "chain"
    <3>1. PICK c \in Find(pf.chains, r.target) : path \in Path(pf, c)
      BY <2>3 DEF Via
    <3>2. PICK k \in DOMAIN pf.chains : c = pf.chains[k] /\ pf.chains[k].id = r.target
      BY FoundIs
    <3>3. c \in Range(pf.chains) /\ c.who = r.meant
      BY <2>2, <3>2 DEF MeantBy, Names, Range
    <3>4. LET meant == [h \in DOMAIN c.hops |-> c.hops[h].who]
          IN  IF c.mode = "sequential" THEN path = meant ELSE path = <<meant[1]>>
      BY <2>1, <3>1, <3>2, PathsAreMeant
    <3> QED
      BY <2>3, <3>3, <3>4
  <2>4. CASE r.kind # "chain"
    <3>1. PICK x \in Usable(pf, r.target) : r.kind = "proxy" /\ path = <<x.who>>
      BY <2>4 DEF Via
    <3>2. PICK i \in DOMAIN pf.proxies : x = pf.proxies[i] /\ pf.proxies[i].id = r.target
      BY FoundIs DEF Usable
    <3>3. x.who = r.meant
      BY <2>2, <3>2 DEF MeantBy, Names
    <3> QED
      BY <3>1, <3>3
  <2> QED
    BY <2>3, <2>4
<1> QED
  BY <1>1, ProfileInvariant, PTL

-----------------------------------------------------------------------------
\* Where no identifier is given twice, a lookup finds what has it.
LEMMA FindIs ==
  ASSUME NEW S, NEW s \in Seq(S), OneEach(s), NEW id, id # NoId, NEW i \in DOMAIN s, s[i].id = id
  PROVE  s[i] \in Find(s, id)
<1>1. i \in IndexOf(s, id) /\ \A k \in IndexOf(s, id) : k = i
  BY DEF IndexOf, OneEach
<1>2. i <= i
  <2>1. i \in Int
    BY LenProperties
  <2> QED
    BY <2>1
<1>3. \A k \in IndexOf(s, id) : i <= k
  BY <1>1, <1>2
<1> QED
  BY <1>1, <1>3 DEF Find

\* A lookup finds at most one object, ...
LEMMA FindsOne ==
  ASSUME NEW s, OneEach(s), NEW id, NEW x \in Find(s, id), NEW y \in Find(s, id)
  PROVE  x = y
BY FoundIs DEF OneEach

\* ... and none under the identifier of nothing.
LEMMA FindsNothing ==
  ASSUME NEW s
  PROVE  Find(s, NoId) = {}
BY DEF Find

\* Removing leaves lookups with what they found before, or with less.
LEMMA FindShrinks ==
  ASSUME NEW S, NEW s \in Seq(S), OneEach(s), NEW t, Draws(t, s), NEW id
  PROVE  Find(t, id) \subseteq Find(s, id)
<1> SUFFICES ASSUME NEW x \in Find(t, id)
             PROVE  x \in Find(s, id)
  OBVIOUS
<1>1. id # NoId
  BY FindsNothing
<1>2. PICK i \in DOMAIN t : x = t[i] /\ t[i].id = id
  BY FoundIs
<1>3. PICK j \in DOMAIN s : t[i] = s[j]
  BY DEF Draws
<1> QED
  BY <1>1, <1>2, <1>3, FindIs

Untargeted(p2, p, kind, id) == p2.rules = Untarget(p.rules, kind, id) /\ p2.default = p.default

\* The rule a connection meets, once some rules point nowhere: the one it met, or that
\* one pointing nowhere.
LEMMA SameRuleIsMet ==
  ASSUME NEW p, NEW p2, NEW n \in Nat, NEW m, NEW kd, NEW id, NEW q,
         p.rules \in Seq(Rules(n, m)), Untargeted(p2, p, kd, id)
  PROVE  \/ Chosen(p2, q) = Chosen(p, q)
         \/ /\ Chosen(p2, q).kind = Chosen(p, q).kind
            /\ Chosen(p2, q).action = Chosen(p, q).action
            /\ Chosen(p2, q).target = NoId
<1> DEFINE hits  == {i \in DOMAIN p.rules : p.rules[i].enabled /\ q \in p.rules[i].match}
           hits2 == {i \in DOMAIN p2.rules : p2.rules[i].enabled /\ q \in p2.rules[i].match}
<1>1. \A i \in DOMAIN p.rules : p.rules[i] \in Rules(n, m)
  BY LenProperties, ElementOfSeq
<1>2. ASSUME NEW r \in Rules(n, m)
      PROVE  /\ [r EXCEPT !.target = NoId].enabled = r.enabled /\ [r EXCEPT !.target = NoId].match = r.match
             /\ [r EXCEPT !.target = NoId].kind = r.kind /\ [r EXCEPT !.target = NoId].action = r.action
             /\ [r EXCEPT !.target = NoId].target = NoId
  BY DEF Rules
<1>3. DOMAIN p2.rules = DOMAIN p.rules
  BY DEF Untargeted, Untarget
<1>4. ASSUME NEW i \in DOMAIN p.rules
      PROVE  p2.rules[i] = p.rules[i] \/ p2.rules[i] = [p.rules[i] EXCEPT !.target = NoId]
  BY DEF Untargeted, Untarget
<1>5. hits2 = hits
  <2>1. \A i \in DOMAIN p.rules : p2.rules[i].enabled = p.rules[i].enabled /\ p2.rules[i].match = p.rules[i].match
    BY <1>1, <1>2, <1>4
  <2> QED
    BY <1>3, <2>1
<1>6. CASE hits = {}
  BY <1>5, <1>6 DEF Chosen, Untargeted
<1>7. CASE hits # {}
  <2>1. Min(hits) \in DOMAIN p.rules
    <3>1. Len(p.rules) \in Nat /\ DOMAIN p.rules = 1..Len(p.rules)
      BY LenProperties
    <3>2. hits \in SUBSET (1..Len(p.rules)) /\ IsFiniteSet(1..Len(p.rules))
      BY <3>1, FS_Interval
    <3>3. hits \in SUBSET Int /\ IsFiniteSet(hits)
      <4>1. \A i \in 1..Len(p.rules) : i \in Int
        OBVIOUS
      <4> HIDE DEF hits
      <4> QED
        BY <3>2, <4>1, FS_Subset
    <3>4. Min(hits) \in hits
      <4> HIDE DEF hits
      <4> QED
        BY <1>7, <3>3, MinIsMember
    <3> QED
      BY <3>4
  <2>2. Chosen(p, q) = p.rules[Min(hits)] /\ Chosen(p2, q) = p2.rules[Min(hits)]
    BY <1>5, <1>7 DEF Chosen
  <2> DEFINE r == p.rules[Min(hits)]
  <2> HIDE DEF hits
  <2>3. r \in Rules(n, m) /\ (p2.rules[Min(hits)] = r \/ p2.rules[Min(hits)] = [r EXCEPT !.target = NoId])
    BY <1>1, <1>4, <2>1
  <2> HIDE DEF r
  <2>4. Chosen(p, q) = r /\ (Chosen(p2, q) = r \/ Chosen(p2, q) = [r EXCEPT !.target = NoId])
    BY <2>2, <2>3 DEF r
  <2> QED
    BY <1>2, <2>3, <2>4
<1> QED
  BY <1>6, <1>7

\* A rule that points nowhere has no route.
LEMMA NowhereHasNoRoute ==
  ASSUME NEW p, NEW r, r.target = NoId
  PROVE  Via(p, r) = {}
BY FindsNothing DEF Via, Usable

\* A sequential chain that lost a proxy has no path, one that did not has the path it
\* had: a hop pointed nowhere is no proxy, and the others find the same ones.
LEMMA ForgottenPaths ==
  ASSUME NEW p, NEW p2, NEW n \in Nat, NEW m, NEW c \in Chains(n, m), NEW id, c.mode # "redundancy",
         OneEach(p.proxies),
         \A x : Find(p2.proxies, x) \subseteq Find(p.proxies, x)
  PROVE  Path(p2, Forget(c, id)) \subseteq Path(p, c)
<1> DEFINE d == Forget(c, id)
           cut == [h \in DOMAIN c.hops |-> IF c.hops[h].id = id THEN [c.hops[h] EXCEPT !.id = NoId] ELSE c.hops[h]]
           H == [id: 0..n, who: 1..m]
<1> SUFFICES ASSUME NEW path \in Path(p2, d)
             PROVE  path \in Path(p, c)
  OBVIOUS
<1>1. PICK l \in 0..MaxHops : c.hops \in [1..l -> H]
  BY DEF Chains, BoundedSeq, SeqOf
<1>2. d = [c EXCEPT !.hops = cut]
  BY DEF Forget
<1>3. d.hops = cut /\ d.mode = c.mode /\ d.enabled = c.enabled
  <2> HIDE DEF cut, d
  <2> QED
    BY <1>2 DEF Chains
<1>4. \A h \in DOMAIN c.hops : Usable(p2, cut[h].id) # {}
  <2>1. Traversable(p2, d)
    BY DEF Path
  <2>2. DOMAIN cut = DOMAIN c.hops
    OBVIOUS
  <2> HIDE DEF cut, d
  <2> QED
    BY <1>3, <2>1, <2>2 DEF Traversable
<1>5. ASSUME NEW h \in DOMAIN c.hops
      PROVE  cut[h] = c.hops[h]
  <2>1. c.hops[h] \in H
    BY <1>1
  <2>2. [c.hops[h] EXCEPT !.id = NoId].id = NoId
    BY <2>1
  <2>3. cut[h].id # NoId
    <3> HIDE DEF cut
    <3> QED
      BY <1>4, FindsNothing DEF Usable
  <2>4. cut[h] = IF c.hops[h].id = id THEN [c.hops[h] EXCEPT !.id = NoId] ELSE c.hops[h]
    OBVIOUS
  <2> HIDE DEF cut
  <2> QED
    BY <2>2, <2>3, <2>4
<1>6. cut = c.hops
  <2>1. cut = [h \in DOMAIN c.hops |-> cut[h]]
    OBVIOUS
  <2>2. c.hops = [h \in DOMAIN c.hops |-> c.hops[h]]
    BY <1>1
  <2> HIDE DEF cut
  <2> QED
    BY <1>5, <2>1, <2>2
<1>7. d = c
  <2> HIDE DEF cut, d
  <2> QED
    BY <1>2, <1>6 DEF Chains
<1>8. ASSUME NEW h \in DOMAIN c.hops
      PROVE  Usable(p2, c.hops[h].id) # {} /\ Usable(p2, c.hops[h].id) = Usable(p, c.hops[h].id)
  <2>1. Usable(p2, c.hops[h].id) # {}
    BY <1>4, <1>6
  <2>2. \A x, y \in Usable(p, c.hops[h].id) : x = y
    BY FindsOne DEF Usable
  <2>3. Usable(p2, c.hops[h].id) \subseteq Usable(p, c.hops[h].id)
    BY DEF Usable
  <2> QED
    BY <2>1, <2>2, <2>3
<1>9. Traversable(p2, c) /\ path = Through(p2, c, c.hops)
  BY <1>7 DEF Path
<1>10. Traversable(p, c)
  BY <1>8, <1>9 DEF Traversable
<1>11. Through(p, c, c.hops) = Through(p2, c, c.hops)
  <2>1. Through(p, c, c.hops) = [h \in DOMAIN c.hops |-> (CHOOSE x \in Usable(p, c.hops[h].id) : TRUE).who]
    BY DEF Through
  <2>2. Through(p2, c, c.hops) = [h \in DOMAIN c.hops |-> (CHOOSE x \in Usable(p2, c.hops[h].id) : TRUE).who]
    BY DEF Through
  <2> QED
    BY <1>8, <2>1, <2>2
<1> QED
  BY <1>9, <1>10, <1>11 DEF Path

\* Deleting a proxy: each rule's routes are those it had, but by alternatives.
LEMMA ProxyRemovalNarrows ==
  ASSUME NEW m, Sound(pf, m), NEW id, RemoveProxy(id), NEW q
  PROVE  /\ Decide(pf', q).verdict = Decide(pf, q).verdict
         /\ Decide(pf', q).via \subseteq Decide(pf, q).via \/ ByAlternatives(pf, q)
<1> DEFINE n == pf.next - 1
           r == Chosen(pf, q)
           r2 == Chosen(pf', q)
<1>1. /\ n \in Nat /\ pf \in Profiles(n, m)
      /\ pf.proxies \in Seq(Proxies(n, m)) /\ pf.chains \in Seq(Chains(n, m)) /\ pf.rules \in Seq(Rules(n, m))
      /\ OneEach(pf.proxies) /\ OneEach(pf.chains)
  BY SoundParts, PartsOf DEF IdsAreOwn
<1>2. /\ pf'.proxies = Without(pf.proxies, id)
      /\ pf'.chains = [c \in DOMAIN pf.chains |-> Forget(pf.chains[c], id)]
      /\ pf'.rules = Untarget(pf.rules, "proxy", id) /\ pf'.default = pf.default
      /\ IndexOf(pf.proxies, id) # {}
  BY <1>1 DEF RemoveProxy, Profiles
<1> HIDE DEF n
<1>3. \A x : Find(pf'.proxies, x) \subseteq Find(pf.proxies, x)
  BY <1>1, <1>2, WithoutDraws, FindShrinks
<1>4. \/ r2 = r
      \/ r2.kind = r.kind /\ r2.action = r.action /\ r2.target = NoId
  <2> DEFINE p2 == pf'
  <2>1. n \in Nat /\ pf.rules \in Seq(Rules(n, m)) /\ Untargeted(p2, pf, "proxy", id)
    BY <1>1, <1>2 DEF Untargeted
  <2> HIDE DEF p2
  <2>2. \/ Chosen(p2, q) = Chosen(pf, q)
        \/ /\ Chosen(p2, q).kind = Chosen(pf, q).kind
           /\ Chosen(p2, q).action = Chosen(pf, q).action
           /\ Chosen(p2, q).target = NoId
    BY <2>1, SameRuleIsMet
  <2> QED
    BY <2>2 DEF p2
<1>5. Decide(pf', q).verdict = Decide(pf, q).verdict
  BY <1>4 DEF Decide
<1>6. Via(pf', r2) \subseteq Via(pf, r) \/ ByAlternatives(pf, q)
  <2>1. CASE r2.target = NoId
    BY <2>1, NowhereHasNoRoute
  <2>2. CASE r2 = r /\ r.kind = "chain" /\ ~ ByAlternatives(pf, q)
    <3> HIDE DEF r, r2
    <3> SUFFICES ASSUME NEW path \in Via(pf', r)
                 PROVE  path \in Via(pf, r)
      BY <2>2
    <3>1. PICK d \in Find(pf'.chains, r.target) : path \in Path(pf', d)
      BY <2>2 DEF Via
    <3>2. PICK k \in DOMAIN pf'.chains : d = pf'.chains[k] /\ pf'.chains[k].id = r.target
      BY <3>1, FoundIs
    <3> DEFINE c == pf.chains[k]
    <3>3. k \in DOMAIN pf.chains /\ d = Forget(c, id)
      BY <1>2, <3>2
    <3>4. c \in Chains(n, m)
      BY <1>1, <3>3, LenProperties, ElementOfSeq
    <3> HIDE DEF c
    <3>5. c.id = r.target /\ r.target # NoId
      BY <1>1, <3>1, <3>2, <3>3, <3>4, ForgetShape, FindsNothing
    <3>6. c \in Find(pf.chains, r.target)
      BY <1>1, <3>3, <3>5, FindIs DEF c
    <3>7. c.mode # "redundancy"
      BY <2>2, <3>6 DEF ByAlternatives, r
    <3>8. path \in Path(pf, c)
      BY <1>1, <1>3, <3>1, <3>3, <3>4, <3>7, ForgottenPaths
    <3> QED
      BY <2>2, <3>6, <3>8 DEF Via
  <2>3. CASE r2 = r /\ r.kind # "chain"
    BY <1>3, <2>3 DEF Via, Usable
  <2> QED
    BY <1>4, <2>1, <2>2, <2>3
<1>7. Decide(pf', q).via \subseteq Decide(pf, q).via \/ ByAlternatives(pf, q)
  BY <1>4, <1>6 DEF Decide
<1> QED
  BY <1>5, <1>7

\* Deleting a chain: the proxies are what they were, and so are the others' paths.
LEMMA ChainRemovalNarrows ==
  ASSUME NEW m, Sound(pf, m), NEW id, RemoveChain(id), NEW q
  PROVE  /\ Decide(pf', q).verdict = Decide(pf, q).verdict
         /\ Decide(pf', q).via \subseteq Decide(pf, q).via
<1> DEFINE n == pf.next - 1
           r == Chosen(pf, q)
           r2 == Chosen(pf', q)
<1>1. /\ n \in Nat /\ pf \in Profiles(n, m)
      /\ pf.chains \in Seq(Chains(n, m)) /\ pf.rules \in Seq(Rules(n, m)) /\ OneEach(pf.chains)
  BY SoundParts, PartsOf DEF IdsAreOwn
<1>2. /\ pf'.proxies = pf.proxies /\ pf'.chains = Without(pf.chains, id)
      /\ pf'.rules = Untarget(pf.rules, "chain", id) /\ pf'.default = pf.default
      /\ IndexOf(pf.chains, id) # {}
  BY <1>1 DEF RemoveChain, Profiles
<1> HIDE DEF n
<1>3. \A x : Find(pf'.chains, x) \subseteq Find(pf.chains, x)
  BY <1>1, <1>2, WithoutDraws, FindShrinks
<1>4. \A x : Usable(pf', x) = Usable(pf, x)
  BY <1>2 DEF Usable
<1>5. \A c : Path(pf', c) = Path(pf, c)
  <2>1. \A c : Traversable(pf', c) <=> Traversable(pf, c)
    BY <1>4 DEF Traversable
  <2>2. ASSUME NEW c
        PROVE  Through(pf', c, c.hops) = Through(pf, c, c.hops)
    <3> DEFINE used == IF c.mode = "redundancy" THEN 1..1 ELSE DOMAIN c.hops
    <3>1. Through(pf', c, c.hops) = [h \in used |-> (CHOOSE x \in Usable(pf', c.hops[h].id) : TRUE).who]
      BY DEF Through
    <3>2. Through(pf, c, c.hops) = [h \in used |-> (CHOOSE x \in Usable(pf, c.hops[h].id) : TRUE).who]
      BY DEF Through
    <3> HIDE DEF used
    <3> QED
      BY <1>4, <3>1, <3>2
  <2> QED
    BY <2>1, <2>2 DEF Path
<1>6. \/ r2 = r
      \/ r2.kind = r.kind /\ r2.action = r.action /\ r2.target = NoId
  <2> DEFINE p2 == pf'
  <2>1. n \in Nat /\ pf.rules \in Seq(Rules(n, m)) /\ Untargeted(p2, pf, "chain", id)
    BY <1>1, <1>2 DEF Untargeted
  <2> HIDE DEF p2
  <2>2. \/ Chosen(p2, q) = Chosen(pf, q)
        \/ /\ Chosen(p2, q).kind = Chosen(pf, q).kind
           /\ Chosen(p2, q).action = Chosen(pf, q).action
           /\ Chosen(p2, q).target = NoId
    BY <2>1, SameRuleIsMet
  <2> QED
    BY <2>2 DEF p2
<1>7. Via(pf', r2) \subseteq Via(pf, r)
  <2>1. CASE r2.target = NoId
    BY <2>1, NowhereHasNoRoute
  <2>2. CASE r2 = r
    BY <1>3, <1>4, <1>5, <2>2 DEF Via
  <2> QED
    BY <1>6, <2>1, <2>2
<1> QED
  BY <1>6, <1>7 DEF Decide

\* Deleting a proxy or a chain changes no verdict and opens no route, but among the
\* alternatives of a redundancy chain (pmx_profile_remove_proxy).
THEOREM RemovalsOpenNoRoute ==
  ASSUME \A f \in Files : FileIsSound(f)
  PROVE  ProfileSpec => RemovalsNeverReroute
<1> DEFINE Narrows ==
             (\E id \in IdsIn(pf.proxies) : RemoveProxy(id)) \/ (\E id \in IdsIn(pf.chains) : RemoveChain(id))
               => \A q \in Queries :
                    /\ Decide(pf', q).verdict = Decide(pf, q).verdict
                    /\ Decide(pf', q).via \subseteq Decide(pf, q).via \/ ByAlternatives(pf, q)
<1>1. ProfileInv /\ [ProfileNext]_profileVars => [Narrows]_profileVars
  <2> SUFFICES ASSUME ProfileInv
               PROVE  Narrows
    OBVIOUS
  <2>1. Sound(pf, made)
    BY DEF ProfileInv
  <2>2. ASSUME NEW id \in IdsIn(pf.proxies), RemoveProxy(id), NEW q \in Queries
        PROVE  /\ Decide(pf', q).verdict = Decide(pf, q).verdict
               /\ Decide(pf', q).via \subseteq Decide(pf, q).via \/ ByAlternatives(pf, q)
    BY <2>1, <2>2, ProxyRemovalNarrows
  <2>3. ASSUME NEW id \in IdsIn(pf.chains), RemoveChain(id), NEW q \in Queries
        PROVE  /\ Decide(pf', q).verdict = Decide(pf, q).verdict
               /\ Decide(pf', q).via \subseteq Decide(pf, q).via
    BY <2>1, <2>3, ChainRemovalNarrows
  <2> QED
    BY <2>2, <2>3
<1> QED
  BY <1>1, ProfileInvariant, PTL DEF ProfileSpec, RemovalsNeverReroute

-----------------------------------------------------------------------------
(***************************************************************************)
(* The file.  For every set of profiles, with or without an encryption     *)
(* provider, and for every choice of faults: a save leaves a complete      *)
(* profile at the path and no cleartext anywhere, a load that migrates     *)
(* keeps the data, and a file is replaced only in a session that knows     *)
(* what it replaces.                                                       *)
(*                                                                         *)
(* The properties speak of one step, the rename; what they need was set up *)
(* several steps earlier.  The inductive invariant says it: what the       *)
(* temporary file holds at each step of a save (TmpIsOurs), that a         *)
(* migration still has in memory what is on disk (MigrationIsFaithful),    *)
(* and that a session which may save has seen the file (SaversKnow).       *)
(***************************************************************************)
Saving == pc \in {"seal", "open", "write", "rename"}

\* With a provider the temporary file is sealed wherever it came from; before the
\* rename it holds the whole of engine.profile, unless the flush may lose its end.
TmpIsOurs ==
  /\ Provider => tmp.form # "plain"
  /\ pc \in {"write", "rename"} => tmp # Absent /\ tmp.ours /\ tmp.data = mem
  /\ pc = "rename" /\ "flush" \notin faults => tmp.whole

\* A load that migrates has adopted what is on disk, and nothing changes either
\* before the save is over.
MigrationIsFaithful == Saving /\ why = "migrate" => disk # Absent /\ disk.data = mem

\* Where existing files can be opened, whoever may save knows the file: it was
\* loaded, written, seen to be missing -- or its load failed and locked the session.
SaversKnow ==
  "open" \notin faults =>
    /\ ~held
    /\ Saving \/ (pc = "idle" /\ ~locked) => known

StoreInv == StoreTypeOK /\ TmpIsOurs /\ MigrationIsFaithful /\ SaversKnow

-----------------------------------------------------------------------------
\* A file is contents or no file, and no file has no contents.
LEMMA FilesAreContents ==
  /\ Absent \notin Contents
  /\ \A f \in DiskFiles : f # Absent => f \in Contents
  /\ \A f \in Contents : f # Absent /\ f.form \in {"sealed", "plain"} /\ f.data \in Data
  /\ Absent.form = "none" /\ Absent \in DiskFiles
BY DEF DiskFiles, Contents, Absent

\* What a save means to write is a file of ours, whole, and sealed when that can be.
LEMMA WholeIsAFile ==
  ASSUME NEW d \in Data
  PROVE  /\ Whole(d) \in Contents /\ Whole(d).data = d /\ Whole(d).whole
         /\ [Whole(d) EXCEPT !.whole = FALSE] \in Contents
         /\ [Whole(d) EXCEPT !.whole = FALSE].data = d
         /\ Whole(d).ours /\ [Whole(d) EXCEPT !.whole = FALSE].ours
         /\ [Whole(d) EXCEPT !.whole = FALSE].form = Whole(d).form
         /\ Provider => Whole(d).form = "sealed"
BY DEF Whole, Contents

-----------------------------------------------------------------------------
\* A load, at start or on request: it leaves a locked session, one that knows the
\* file, or one that was kept from opening it -- and starts the save of a migration
\* with what it has read.
LEMMA LoadKeepsInv ==
  ASSUME StoreInv, pc \in {"load", "idle"}, Load, UNCHANGED <<faults, disk, tmp, held, running>>
  PROVE  StoreInv'
<1> USE DEF StoreInv
<1>1. CASE ~CanOpen /\ locked' = FALSE /\ known' = (disk = Absent) /\ pc' = "idle"
           /\ UNCHANGED <<why, mem>>
  <2>1. "open" \notin faults => known'
    BY <1>1 DEF CanOpen, SaversKnow
  <2> QED
    BY <1>1, <2>1 DEF StoreTypeOK, TmpIsOurs, MigrationIsFaithful, SaversKnow, Saving
<1>2. CASE locked' = TRUE /\ known' = FALSE /\ pc' = "idle" /\ UNCHANGED <<why, mem>>
  BY <1>2 DEF StoreTypeOK, TmpIsOurs, MigrationIsFaithful, SaversKnow, Saving
<1>3. CASE /\ CanOpen /\ mem' = disk.data /\ locked' = FALSE /\ known' = TRUE
           /\ \/ Provider /\ pc' = "seal" /\ why' = "migrate"
              \/ pc' = "idle" /\ UNCHANGED why
  <2>1. disk # Absent /\ disk.data \in Data
    BY <1>3, FilesAreContents DEF CanOpen, StoreTypeOK
  <2> QED
    BY <1>3, <2>1 DEF StoreTypeOK, TmpIsOurs, MigrationIsFaithful, SaversKnow, Saving
<1> QED
  BY <1>1, <1>2, <1>3 DEF Load

\* A step of the program keeps the invariant.
LEMMA ProgramKeepsInv ==
  ASSUME StoreInv, Program, UNCHANGED faults
  PROVE  StoreInv'
<1> USE DEF StoreInv
<1>1. CASE Launch
  BY <1>1, StoreAssumption DEF Launch, StoreTypeOK, TmpIsOurs, MigrationIsFaithful, SaversKnow, Saving
<1>2. CASE LoadAtStart
  BY <1>2, LoadKeepsInv DEF LoadAtStart
<1>3. CASE ReloadFromDisk
  BY <1>3, LoadKeepsInv DEF ReloadFromDisk
<1>4. ASSUME NEW d \in Data, EditProfile(d)
      PROVE  StoreInv'
  BY <1>4 DEF EditProfile, StoreTypeOK, TmpIsOurs, MigrationIsFaithful, SaversKnow, Saving
<1>5. CASE StartOrStop
  BY <1>5 DEF StartOrStop, StoreTypeOK, TmpIsOurs, MigrationIsFaithful, SaversKnow, Saving
<1>6. ASSUME NEW reason \in {"user", "exit"}, SaveProfile(reason)
      PROVE  StoreInv'
  BY <1>6 DEF SaveProfile, sessionVars, StoreTypeOK, TmpIsOurs, MigrationIsFaithful, SaversKnow, Saving
<1>7. CASE Seal
  BY <1>7 DEF Seal, Done, sessionVars, StoreTypeOK, TmpIsOurs, MigrationIsFaithful, SaversKnow, Saving
<1>8. CASE OpenTmp
  <2>1. mem \in Data
    BY DEF StoreTypeOK
  <2>2. CASE tmp' = [Whole(mem) EXCEPT !.whole = FALSE] /\ pc' = "write"
    <3>1. tmp' \in DiskFiles /\ tmp' # Absent /\ tmp'.ours /\ tmp'.data = mem /\ (Provider => tmp'.form = "sealed")
      BY <2>1, <2>2, WholeIsAFile, FilesAreContents DEF DiskFiles
    <3> QED
      BY <1>8, <2>2, <3>1
         DEF OpenTmp, sessionVars, StoreTypeOK, TmpIsOurs, MigrationIsFaithful, SaversKnow, Saving
  <2>3. CASE Done /\ UNCHANGED tmp
    BY <1>8, <2>3
       DEF OpenTmp, Done, sessionVars, StoreTypeOK, TmpIsOurs, MigrationIsFaithful, SaversKnow, Saving
  <2> QED
    BY <1>8, <2>2, <2>3 DEF OpenTmp
<1>9. CASE WriteTmp
  <2>1. mem \in Data
    BY DEF StoreTypeOK
  <2>2. CASE tmp' = Whole(mem) /\ pc' = "rename"
    <3>1. /\ tmp' \in DiskFiles /\ tmp' # Absent /\ tmp'.ours /\ tmp'.data = mem /\ tmp'.whole
          /\ Provider => tmp'.form = "sealed"
      BY <2>1, <2>2, WholeIsAFile, FilesAreContents DEF DiskFiles
    <3> QED
      BY <1>9, <2>2, <3>1
         DEF WriteTmp, sessionVars, StoreTypeOK, TmpIsOurs, MigrationIsFaithful, SaversKnow, Saving
  <2>3. CASE "flush" \in faults /\ pc' = "rename" /\ UNCHANGED tmp
    BY <1>9, <2>3
       DEF WriteTmp, sessionVars, StoreTypeOK, TmpIsOurs, MigrationIsFaithful, SaversKnow, Saving
  <2>4. CASE tmp' = Absent /\ Done
    BY <1>9, <2>4, FilesAreContents
       DEF WriteTmp, Done, sessionVars, StoreTypeOK, TmpIsOurs, MigrationIsFaithful, SaversKnow, Saving
  <2> QED
    BY <1>9, <2>2, <2>3, <2>4 DEF WriteTmp
<1>10. CASE Rename
  BY <1>10, FilesAreContents
     DEF Rename, Done, sessionVars, StoreTypeOK, TmpIsOurs, MigrationIsFaithful, SaversKnow, Saving
<1> QED
  BY <1>1, <1>2, <1>3, <1>4, <1>5, <1>6, <1>7, <1>8, <1>9, <1>10 DEF Program

\* So does every other step: a death, a file held, a file put there by the user.
LEMMA StoreStep ==
  ASSUME StoreInv, [StoreNext]_storeVars
  PROVE  StoreInv'
<1> USE DEF StoreInv
<1>1. CASE Program /\ UNCHANGED faults
  BY <1>1, ProgramKeepsInv
<1>2. CASE Crash /\ UNCHANGED faults
  BY <1>2 DEF Crash, sessionVars, StoreTypeOK, TmpIsOurs, MigrationIsFaithful, SaversKnow, Saving
<1>3. CASE HoldOrLetGo /\ UNCHANGED faults
  BY <1>3 DEF HoldOrLetGo, sessionVars, StoreTypeOK, TmpIsOurs, MigrationIsFaithful, SaversKnow, Saving
<1>4. ASSUME NEW f \in DiskFiles, UserPuts(f), UNCHANGED faults
      PROVE  StoreInv'
  BY <1>4 DEF UserPuts, sessionVars, StoreTypeOK, TmpIsOurs, MigrationIsFaithful, SaversKnow, Saving
<1>5. CASE UNCHANGED storeVars
  BY <1>5 DEF storeVars, StoreTypeOK, TmpIsOurs, MigrationIsFaithful, SaversKnow, Saving
<1> QED
  BY <1>1, <1>2, <1>3, <1>4, <1>5 DEF StoreNext, World

\* The invariant holds at every step.
LEMMA StoreInvariant == StoreSpec => []StoreInv
<1>1. StoreInit => StoreInv
  BY StoreAssumption, FilesAreContents
     DEF StoreInit, StoreInv, StoreTypeOK, TmpIsOurs, MigrationIsFaithful, SaversKnow, Saving
<1> QED
  BY <1>1, StoreStep, PTL DEF StoreSpec

-----------------------------------------------------------------------------
\* Only a rename changes the file at the path, unless the user does; only opening,
\* writing and renaming change the temporary one.
LEMMA OnlySavesWrite ==
  ASSUME [StoreNext]_storeVars, ~(\E f \in DiskFiles : UserPuts(f))
  PROVE  /\ disk' # disk => Rename
         /\ tmp' # tmp => OpenTmp \/ WriteTmp \/ Rename
BY DEF StoreNext, Program, World, Launch, LoadAtStart, ReloadFromDisk, EditProfile, StartOrStop, SaveProfile, Seal,
       OpenTmp, WriteTmp, Rename, Crash, HoldOrLetGo, storeVars

\* Types: at every moment the files, the session and the place in a save are ones
\* the program can be in, and no locked session is saving (pmx_engine_save_profile).
THEOREM StoreTypeCorrect == StoreSpec => []StoreTypeOK
<1>1. StoreInv => StoreTypeOK
  BY DEF StoreInv
<1> QED
  BY <1>1, StoreInvariant, PTL

\* One step of a save neither tears the file nor writes cleartext.
LEMMA SavesAreSafeStep ==
  ASSUME StoreInv, [StoreNext]_storeVars, ~(\E f \in DiskFiles : UserPuts(f))
  PROVE  /\ disk # Absent /\ disk.whole /\ "flush" \notin faults => disk' # Absent /\ disk'.whole
         /\ Provider => /\ disk' # disk => disk'.form # "plain"
                        /\ tmp' # tmp => tmp'.form # "plain"
<1>1. disk' # disk => pc = "rename" /\ disk' = tmp
  BY OnlySavesWrite DEF Rename
<1>2. Provider => tmp.form # "plain" /\ tmp'.form # "plain"
  BY StoreStep DEF StoreInv, TmpIsOurs
<1>3. pc = "rename" /\ "flush" \notin faults => tmp # Absent /\ tmp.whole
  BY DEF StoreInv, TmpIsOurs
<1> QED
  BY <1>1, <1>2, <1>3

(***************************************************************************)
(* A save that dies, fails or is cut short at any step leaves a complete   *)
(* profile where there was one, as long as flushes succeed, and never a    *)
(* cleartext byte in either file where there is a provider to seal with    *)
(* (pmx_profile.c: temp file, flush, rename; pmx_protect.c).               *)
(***************************************************************************)
THEOREM SavesAreAlwaysSafe == StoreSpec => SavesAreSafe
<1>1. StoreInv /\ [StoreNext]_storeVars =>
        [disk # Absent /\ disk.whole /\ ~(\E f \in DiskFiles : UserPuts(f)) /\ "flush" \notin faults
           => disk' # Absent /\ disk'.whole]_storeVars
  BY SavesAreSafeStep
<1>2. StoreInv /\ [StoreNext]_storeVars =>
        [Provider /\ ~(\E f \in DiskFiles : UserPuts(f)) =>
           /\ disk' # disk => disk'.form # "plain"
           /\ tmp' # tmp => tmp'.form # "plain"]_storeVars
  BY SavesAreSafeStep
<1>3. StoreSpec => SavesAreAtomic
  BY <1>1, StoreInvariant, PTL DEF StoreSpec, SavesAreAtomic
<1>4. StoreSpec => NoCleartextWritten
  BY <1>2, StoreInvariant, PTL DEF StoreSpec, NoCleartextWritten
<1> QED
  BY <1>3, <1>4 DEF SavesAreSafe

\* Opening the program loses nothing: the save inside a migrating load writes what
\* that load has read, and where flushes succeed a file the next load can read
\* (pmx_engine_load_profile).
THEOREM LoadsAlwaysKeepData == StoreSpec => LoadKeepsData
<1>1. ASSUME StoreInv, [StoreNext]_storeVars, why = "migrate", disk' # disk,
             ~(\E f \in DiskFiles : UserPuts(f))
      PROVE  /\ disk' # Absent /\ disk'.data = disk.data
             /\ "flush" \notin faults => Readable(disk')
  <2>1. pc = "rename" /\ disk' = tmp
    BY <1>1, OnlySavesWrite DEF Rename
  <2> QED
    BY <1>1, <2>1 DEF StoreInv, StoreTypeOK, TmpIsOurs, MigrationIsFaithful, Saving, Readable
<1>2. StoreInv /\ [StoreNext]_storeVars =>
        [why = "migrate" /\ disk' # disk /\ ~(\E f \in DiskFiles : UserPuts(f)) =>
           /\ disk' # Absent /\ disk'.data = disk.data
           /\ "flush" \notin faults => Readable(disk')]_storeVars
  BY <1>1
<1> QED
  BY <1>2, StoreInvariant, PTL DEF StoreSpec, LoadKeepsData

\* While existing files can be opened, the program replaces the file only in a
\* session that read it, wrote it or saw there was none (engine.profile_locked).
THEOREM OpenableIsNeverClobbered == StoreSpec => NeverClobbersOpenable
<1>1. ASSUME StoreInv, [StoreNext]_storeVars, disk' # disk, "open" \notin faults,
             ~(\E f \in DiskFiles : UserPuts(f))
      PROVE  known
  <2>1. pc = "rename"
    BY <1>1, OnlySavesWrite DEF Rename
  <2> QED
    BY <1>1, <2>1 DEF StoreInv, SaversKnow, Saving
<1>2. StoreInv /\ [StoreNext]_storeVars =>
        [disk' # disk /\ ~(\E f \in DiskFiles : UserPuts(f)) /\ "open" \notin faults => known]_storeVars
  BY <1>1
<1> QED
  BY <1>2, StoreInvariant, PTL DEF StoreSpec, NeverClobbersOpenable
=============================================================================
