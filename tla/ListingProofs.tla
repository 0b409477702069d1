--------------------------- MODULE ListingProofs ---------------------------
(***************************************************************************)
(* The listings for every value of their constants: any number of calls,   *)
(* any page size, floor and cap, any document and any number of edits.     *)
(*                                                                         *)
(* The properties speak of what a listing hands on, so the invariant says  *)
(* what a pass under way has in hand (InPass): rows in order, the token at *)
(* the last of them, and every lasting object up to the token.  For the    *)
(* guard it says what a listing already made is worth (Vouched): it saw    *)
(* every lasting object of the page, or the call's time is over.           *)
(***************************************************************************)
EXTENDS Listing, FiniteSetTheorems, TLAPS

Guarded == {"tables", "controls", "formulas"}

\* The document: finitely many objects, those of `lasting` among them.
DocumentIsFinite ==
  /\ edits \in Nat
  /\ \A k \in Kind : IsFiniteSet(objects[k])
  /\ lasting \in [Calls -> [Kind -> SUBSET Nat]]
  /\ \A c \in Calls, k \in Kind : lasting[c][k] \subseteq objects[k]

\* What is left to list, and where a call can stand with it.
Itinerary(c) ==
  /\ pc[c] \in {"lookup", "loop", "flight"} =>
       \/ tool[c] = "find_rows" /\ todo[c] \in {<<"columns", "rows">>, <<"rows">>}
       \/ /\ tool[c] = "overwrite_page"
          /\ todo[c] \in {<<"tables", "controls", "formulas">>,
                          <<"controls", "formulas">>, <<"formulas">>}
  /\ pc[c] \in {"write", "sent"} => tool[c] \in {"overwrite_page", "overwrite_page_force"}
  /\ result[c] # None => pc[c] = "returned"

Increasing(s) == \A i, j \in DOMAIN s : i < j => s[i] < s[j]

\* What a pass under way has in hand.
InPass(c) ==
  /\ Increasing(collected[c])
  /\ pc[c] \in {"loop", "flight"} =>
       /\ token[c] = IF collected[c] = << >> THEN None ELSE Last(collected[c])
       /\ Capped(c) => Len(collected[c]) < Limit
       /\ \A n \in lasting[c][Now(c)] :
            token[c] # None /\ n <= token[c] => n \in ToSet(collected[c])

\* What find_rows returned.
Returned(c) ==
  result[c] # None =>
    /\ Increasing(result[c].rows)
    /\ Len(result[c].rows) <= Limit
    /\ result[c].complete /\ Len(result[c].rows) < Limit =>
         lasting[c]["rows"] \subseteq ToSet(result[c].rows)

\* A listing the guard has behind it saw every lasting object of the page, or
\* the time of the call is over.
Seen(c, k) == \A n \in lasting[c][k] \intersect Owned : <<k, n>> \in found[c]

Vouched(c) ==
  tool[c] = "overwrite_page" =>
    /\ pc[c] \in {"lookup", "loop", "flight"} /\ ~ expired[c] =>
         \A k \in Guarded \ ToSet(todo[c]) : Seen(c, k)
    /\ pc[c] = "write" => found[c] = {} /\ (expired[c] \/ \A k \in Guarded : Seen(c, k))
    /\ pc[c] = "sent" => \A k \in Guarded : lasting[c][k] \intersect Owned = {}

IInv ==
  /\ TypeOK
  /\ DocumentIsFinite
  /\ \A c \in Calls : Itinerary(c)
  /\ \A c \in Calls : InPass(c)
  /\ \A c \in Calls : Returned(c)
  /\ \A c \in Calls : Vouched(c)

CallInv(c) == Itinerary(c) /\ InPass(c) /\ Returned(c) /\ Vouched(c)

-----------------------------------------------------------------------------
(* Sets of numbers in order *)

\* A finite set of numbers can be counted through from below.
LEMMA CountedFromBelow ==
  ASSUME NEW S, S \subseteq Nat, IsFiniteSet(S)
  PROVE  \E s \in [1 .. Cardinality(S) -> S] :
           /\ \A i, j \in DOMAIN s : i < j => s[i] < s[j]
           /\ \A n \in S : \E i \in DOMAIN s : s[i] = n
PROOF
<1> DEFINE UpTo(n) == {m \in S : m <= n}
           rank == [n \in S |-> Cardinality(UpTo(n))]
           N == Cardinality(S)
<1>1. N \in Nat
  BY FS_CardinalityType
<1>2. ASSUME NEW n \in S
      PROVE  IsFiniteSet(UpTo(n)) /\ Cardinality(UpTo(n)) \in 1 .. N
  <2>1. UpTo(n) \in SUBSET S
    OBVIOUS
  <2>2. IsFiniteSet(UpTo(n)) /\ Cardinality(UpTo(n)) <= N
    BY <2>1, FS_Subset
  <2>3. Cardinality(UpTo(n)) \in Nat
    BY <2>2, FS_CardinalityType
  <2>4. n \in UpTo(n)
    OBVIOUS
  <2>5. Cardinality(UpTo(n)) # 0
    BY <2>2, <2>4, FS_EmptySet
  <2> QED
    BY <2>2, <2>3, <2>5, <1>1
<1>3. ASSUME NEW m \in S, NEW n \in S, m < n
      PROVE  rank[m] < rank[n]
  <2>1. UpTo(m) \in SUBSET UpTo(n)
    <3> SUFFICES ASSUME NEW x \in S, x <= m
                 PROVE  x <= n
      OBVIOUS
    <3>1. x \in Nat /\ m \in Nat /\ n \in Nat
      OBVIOUS
    <3> QED
      BY <3>1, <1>3
  <2>2. IsFiniteSet(UpTo(n)) /\ Cardinality(UpTo(n)) \in 1 .. N
    BY <1>2
  <2>3. Cardinality(UpTo(m)) \in 1 .. N
    BY <1>2
  <2>4. n \in UpTo(n) /\ n \notin UpTo(m)
    BY <1>3
  <2>5. Cardinality(UpTo(m)) <= Cardinality(UpTo(n))
    BY <2>1, <2>2, FS_Subset
  <2>6. Cardinality(UpTo(m)) # Cardinality(UpTo(n))
    BY <2>1, <2>2, <2>4, FS_Subset
  <2> HIDE DEF UpTo
  <2> QED
    BY <2>2, <2>3, <2>5, <2>6
<1> HIDE DEF UpTo
<1>4. rank \in [S -> 1 .. N]
  BY <1>2
<1> HIDE DEF rank
<1>5. \A m, n \in S : rank[m] = rank[n] => m = n
  <2> SUFFICES ASSUME NEW m \in S, NEW n \in S, rank[m] = rank[n], m # n
               PROVE  FALSE
    OBVIOUS
  <2>1. rank[m] \in 1 .. N /\ rank[n] \in 1 .. N
    BY <1>4
  <2>2. CASE m < n
    BY <2>1, <2>2, <1>3, <1>1
  <2>3. CASE n < m
    BY <2>1, <2>3, <1>3, <1>1
  <2> QED
    BY <2>2, <2>3
<1>6. rank \in Injection(S, 1 .. N)
  BY <1>4, <1>5 DEF Injection, IsInjective
<1>7. IsFiniteSet(1 .. N) /\ Cardinality(1 .. N) = N
  BY <1>1, FS_Interval
<1>8. rank \in Surjection(S, 1 .. N)
  BY <1>6, <1>7, FS_Injection
<1>9. \A i \in 1 .. N : \E n \in S : rank[n] = i
  BY <1>8 DEF Surjection
<1> DEFINE s == [i \in 1 .. N |-> CHOOSE n \in S : rank[n] = i]
<1>10. \A i \in 1 .. N : s[i] \in S /\ rank[s[i]] = i
  BY <1>9
<1>11. s \in [1 .. N -> S]
  BY <1>10
<1> HIDE DEF s
<1>12. DOMAIN s = 1 .. N
  BY <1>11
<1>13. ASSUME NEW i \in 1 .. N, NEW j \in 1 .. N, i < j
       PROVE  s[i] < s[j]
  <2>1. s[i] \in S /\ s[j] \in S /\ rank[s[i]] = i /\ rank[s[j]] = j
    BY <1>10
  <2>2. CASE s[i] = s[j]
    BY <2>1, <2>2, <1>13
  <2>3. CASE s[j] < s[i]
    <3>1. rank[s[j]] < rank[s[i]]
      BY <2>1, <2>3, <1>3
    <3> QED
      BY <3>1, <2>1, <1>13
  <2>4. s[i] \in Nat /\ s[j] \in Nat
    BY <2>1
  <2> QED
    BY <2>2, <2>3, <2>4
<1>14. ASSUME NEW n \in S
       PROVE  \E i \in 1 .. N : s[i] = n
  <2>1. rank[n] \in 1 .. N
    BY <1>4
  <2>2. s[rank[n]] \in S /\ rank[s[rank[n]]] = rank[n]
    BY <2>1, <1>10
  <2>3. s[rank[n]] = n
    BY <2>2, <1>5
  <2> QED
    BY <2>1, <2>3
<1> QED
  BY <1>11, <1>12, <1>13, <1>14

\* What two enumerations from below have in common: there is only one.
LEMMA InOrderProps ==
  ASSUME NEW S, S \subseteq Nat, IsFiniteSet(S)
  PROVE  /\ InOrder(S) \in [1 .. Cardinality(S) -> S]
         /\ Increasing(InOrder(S))
         /\ \A n \in S : \E i \in 1 .. Cardinality(S) : InOrder(S)[i] = n
PROOF
<1> DEFINE N == Cardinality(S)
           s == InOrder(S)
<1>1. N \in Nat
  BY FS_CardinalityType
<1>2. \E t \in [1 .. N -> S] : \A i, j \in DOMAIN t : i < j => t[i] < t[j]
  BY CountedFromBelow
<1>3. s \in [1 .. N -> S] /\ \A i, j \in DOMAIN s : i < j => s[i] < s[j]
  BY <1>2 DEF InOrder
<1> HIDE DEF s
<1>4. \A i, j \in 1 .. N : s[i] = s[j] => i = j
  <2> SUFFICES ASSUME NEW i \in 1 .. N, NEW j \in 1 .. N, s[i] = s[j], i # j
               PROVE  FALSE
    OBVIOUS
  <2>1. s[i] \in Nat /\ s[j] \in Nat
    BY <1>3
  <2>2. CASE i < j
    BY <2>1, <2>2, <1>3
  <2>3. CASE j < i
    BY <2>1, <2>3, <1>3
  <2> QED
    BY <2>2, <2>3
<1>5. s \in Injection(1 .. N, S)
  BY <1>3, <1>4 DEF Injection, IsInjective
<1>6. IsFiniteSet(1 .. N) /\ Cardinality(1 .. N) = N
  BY <1>1, FS_Interval
<1>7. s \in Surjection(1 .. N, S)
  BY <1>5, <1>6, FS_Injection
<1>8. \A n \in S : \E i \in 1 .. N : s[i] = n
  BY <1>7 DEF Surjection
<1> QED
  BY <1>3, <1>8 DEF s, Increasing

\* The first k of a set in order: the whole of it, or all up to the last.
FirstOf(S, k) == SubSeq(InOrder(S), 1, IF Cardinality(S) < k THEN Cardinality(S) ELSE k)

IsFirstOf(p, S, k) ==
  /\ p \in Seq(Nat)
  /\ Len(p) <= k
  /\ Increasing(p)
  /\ \A i \in 1 .. Len(p) : p[i] \in S
  /\ Len(p) = Cardinality(S) => \A n \in S : \E i \in 1 .. Len(p) : p[i] = n
  /\ Len(p) # Cardinality(S) =>
       /\ Len(p) > 0
       /\ \A n \in S : n <= p[Len(p)] => \E i \in 1 .. Len(p) : p[i] = n

LEMMA FirstOfProps ==
  ASSUME NEW S, S \subseteq Nat, IsFiniteSet(S), NEW k \in Nat \ {0}
  PROVE  IsFirstOf(FirstOf(S, k), S, k)
PROOF
<1> DEFINE N == Cardinality(S)
           s == InOrder(S)
           L == IF N < k THEN N ELSE k
           p == FirstOf(S, k)
<1>1. N \in Nat
  BY FS_CardinalityType
<1>2. /\ s \in [1 .. N -> S]
      /\ \A i, j \in DOMAIN s : i < j => s[i] < s[j]
      /\ \A n \in S : \E i \in 1 .. N : s[i] = n
  BY InOrderProps DEF Increasing
<1> HIDE DEF N
<1>3. s \in Seq(Nat) /\ Len(s) = N
  <2>1. s \in [1 .. N -> Nat]
    BY <1>2
  <2> QED
    BY <2>1, <1>1
<1>4. p = SubSeq(s, 1, L)
  BY DEF FirstOf, N
<1> HIDE DEF s, p
<1>5. L \in Nat /\ L <= N /\ L <= k /\ (L # N => L = k /\ L > 0)
  BY <1>1
<1> HIDE DEF L, N
<1>6. p \in Seq(Nat) /\ Len(p) = L /\ \A i \in 1 .. L : p[i] = s[i]
  BY <1>1, <1>3, <1>4, <1>5
<1>7. \A i \in 1 .. L : i \in 1 .. N
  BY <1>1, <1>5
<1>8. \A i \in 1 .. L : p[i] \in S
  BY <1>2, <1>6, <1>7
<1>9. \A i, j \in 1 .. L : i < j => p[i] < p[j]
  BY <1>2, <1>6, <1>7
<1>10. ASSUME L = N
       PROVE  \A n \in S : \E i \in 1 .. L : p[i] = n
  BY <1>2, <1>6, <1>10
<1>11. ASSUME L # N, NEW n \in S, n <= p[L]
       PROVE  \E i \in 1 .. L : p[i] = n
  <2>1. PICK i \in 1 .. N : s[i] = n
    BY <1>2
  <2>2. L \in 1 .. L /\ L \in 1 .. N
    BY <1>5, <1>7, <1>11
  <2>3. p[L] = s[L]
    BY <2>2, <1>6
  <2>4. CASE i <= L
    BY <2>1, <2>4, <1>6, <1>5, <1>1
  <2>5. CASE L < i
    <3>1. s[L] < s[i]
      BY <2>1, <2>2, <2>5, <1>2
    <3>2. s[L] \in Nat /\ n \in Nat
      BY <1>2, <2>2
    <3> QED
      BY <3>1, <3>2, <2>1, <2>3, <1>11
  <2> QED
    BY <2>1, <2>4, <2>5, <1>5, <1>1
<1>12. DOMAIN p = 1 .. L
  BY <1>6
<1> QED
  BY <1>5, <1>6, <1>8, <1>9, <1>10, <1>11, <1>12 DEF p, N, Increasing, IsFirstOf

\* Rows in order, and after the last of them a page in order.
LEMMA PageAppended ==
  ASSUME NEW s \in Seq(Nat), NEW t \in Seq(Nat), Increasing(s), Increasing(t),
         s # << >> => \A i \in 1 .. Len(t) : t[i] > s[Len(s)]
  PROVE  /\ s \o t \in Seq(Nat) /\ Len(s \o t) = Len(s) + Len(t)
         /\ Increasing(s \o t)
         /\ ToSet(s \o t) = ToSet(s) \union ToSet(t)
         /\ Len(t) > 0 => Last(s \o t) = t[Len(t)] /\ s \o t # << >>
PROOF
<1> DEFINE u == s \o t
<1>1. /\ u \in Seq(Nat) /\ Len(u) = Len(s) + Len(t)
      /\ \A i \in 1 .. Len(s) : u[i] = s[i]
      /\ \A i \in 1 .. Len(t) : u[Len(s) + i] = t[i]
  OBVIOUS
<1>2. Len(s) \in Nat /\ Len(t) \in Nat
  OBVIOUS
<1> HIDE DEF u
<1>3. \A i \in 1 .. Len(s) : s[i] \in Nat
  OBVIOUS
<1>4. \A i \in 1 .. Len(t) : t[i] \in Nat
  OBVIOUS
<1>5. \A i, j \in 1 .. Len(s) : i < j => s[i] < s[j]
  BY DEF Increasing
<1>6. \A i, j \in 1 .. Len(t) : i < j => t[i] < t[j]
  BY DEF Increasing
<1>7. \A i \in 1 .. Len(s), j \in 1 .. Len(t) : s[i] < t[j]
  <2> SUFFICES ASSUME NEW i \in 1 .. Len(s), NEW j \in 1 .. Len(t)
               PROVE  s[i] < t[j]
    OBVIOUS
  <2>1. Len(s) \in 1 .. Len(s) /\ s # << >>
    BY <1>2
  <2>2. t[j] > s[Len(s)]
    BY <2>1
  <2>3. i = Len(s) \/ s[i] < s[Len(s)]
    BY <2>1, <1>5, <1>2
  <2>4. s[i] \in Nat /\ s[Len(s)] \in Nat /\ t[j] \in Nat
    BY <2>1, <1>3, <1>4
  <2> QED
    BY <2>2, <2>3, <2>4
<1>8. \A i \in 1 .. Len(u) :
        \/ i \in 1 .. Len(s) /\ u[i] = s[i]
        \/ i - Len(s) \in 1 .. Len(t) /\ i > Len(s) /\ u[i] = t[i - Len(s)]
  <2> SUFFICES ASSUME NEW i \in 1 .. Len(u), i > Len(s)
               PROVE  i - Len(s) \in 1 .. Len(t) /\ u[i] = t[i - Len(s)]
    BY <1>1, <1>2
  <2>1. i - Len(s) \in 1 .. Len(t)
    BY <1>1, <1>2
  <2>2. u[Len(s) + (i - Len(s))] = t[i - Len(s)]
    BY <2>1, <1>1
  <2>3. Len(s) + (i - Len(s)) = i
    BY <1>2
  <2> QED
    BY <2>1, <2>2, <2>3
<1>9. ASSUME NEW i \in 1 .. Len(u), NEW j \in 1 .. Len(u), i < j
      PROVE  u[i] < u[j]
  <2>1. CASE i > Len(s)
    <3>1. i - Len(s) \in 1 .. Len(t) /\ u[i] = t[i - Len(s)]
      BY <2>1, <1>8, <1>2
    <3>2. j > Len(s)
      BY <2>1, <1>9, <1>2
    <3>3. j - Len(s) \in 1 .. Len(t) /\ u[j] = t[j - Len(s)]
      BY <3>2, <1>8, <1>2
    <3>4. i - Len(s) < j - Len(s)
      BY <1>9, <1>2
    <3> QED
      BY <3>1, <3>3, <3>4, <1>6
  <2>2. CASE i <= Len(s)
    <3>1. i \in 1 .. Len(s) /\ u[i] = s[i]
      BY <2>2, <1>8, <1>2
    <3>2. CASE j \in 1 .. Len(s)
      BY <3>1, <3>2, <1>1, <1>5, <1>9
    <3>3. CASE j \notin 1 .. Len(s)
      <4>1. j - Len(s) \in 1 .. Len(t) /\ u[j] = t[j - Len(s)]
        BY <3>3, <1>8
      <4> QED
        BY <4>1, <3>1, <1>7
    <3> QED
      BY <3>2, <3>3
  <2> QED
    BY <2>1, <2>2, <1>2
<1>10. Increasing(u)
  BY <1>1, <1>9 DEF Increasing
<1>11. DOMAIN u = 1 .. Len(u) /\ DOMAIN s = 1 .. Len(s) /\ DOMAIN t = 1 .. Len(t)
  BY <1>1
<1>12. ToSet(u) \subseteq ToSet(s) \union ToSet(t)
  BY <1>8, <1>11 DEF ToSet
<1>13. ToSet(s) \subseteq ToSet(u)
  <2>1. \A i \in 1 .. Len(s) : i \in 1 .. Len(u)
    BY <1>1, <1>2
  <2> QED
    BY <2>1, <1>1, <1>11 DEF ToSet
<1>14. ToSet(t) \subseteq ToSet(u)
  <2>1. \A i \in 1 .. Len(t) : Len(s) + i \in 1 .. Len(u)
    BY <1>1, <1>2
  <2> QED
    BY <2>1, <1>1, <1>11 DEF ToSet
<1>15. ASSUME Len(t) > 0
       PROVE  Last(u) = t[Len(t)] /\ u # << >>
  <2>1. Len(t) \in 1 .. Len(t) /\ Len(u) > 0
    BY <1>1, <1>2, <1>15
  <2>2. u[Len(s) + Len(t)] = t[Len(t)]
    BY <2>1, <1>1
  <2> QED
    BY <2>1, <2>2, <1>1 DEF Last
<1> QED
  BY <1>1, <1>10, <1>12, <1>13, <1>14, <1>15 DEF u

-----------------------------------------------------------------------------
(* The state the steps start from *)

LEMMA Words ==
  /\ PageSize \in Nat \ {0} /\ Floor \in Nat \ {0} /\ Floor <= PageSize
  /\ Limit \in Nat \ {0}
  /\ First \in [Kind -> Nat]
  /\ None \notin Nat
BY ListingAssumption

\* A call in a listing: what it lists, and with which types.
LEMMA InAListing ==
  ASSUME IInv, NEW c \in Calls, pc[c] \in {"lookup", "loop", "flight"}
  PROVE  /\ todo[c] \in Seq(Kind) /\ todo[c] # << >>
         /\ Now(c) \in Kind
         /\ Now(c) = "rows" <=> todo[c] = <<"rows">>
         /\ Now(c) = "columns" <=> todo[c] = <<"columns", "rows">>
         /\ Now(c) = "formulas" <=> todo[c] = <<"formulas">>
         /\ Now(c) = "controls" <=> todo[c] = <<"controls", "formulas">>
         /\ Now(c) = "tables" <=> todo[c] = <<"tables", "controls", "formulas">>
         /\ result[c] = None
         /\ Itinerary(c) /\ InPass(c) /\ Returned(c) /\ Vouched(c)
PROOF
<1>1. /\ Itinerary(c) /\ InPass(c) /\ Returned(c) /\ Vouched(c)
  BY DEF IInv
<1>2. todo[c] \in {<<"columns", "rows">>, <<"rows">>,
                   <<"tables", "controls", "formulas">>,
                   <<"controls", "formulas">>, <<"formulas">>}
  BY <1>1 DEF Itinerary
<1>3. result[c] = None
  BY <1>1 DEF Itinerary
<1>4. \A t : t = <<"columns", "rows">> => Head(t) = "columns"
  OBVIOUS
<1>5. \A t : t = <<"rows">> => Head(t) = "rows"
  OBVIOUS
<1>6. \A t : t = <<"tables", "controls", "formulas">> => Head(t) = "tables"
  OBVIOUS
<1>7. \A t : t = <<"controls", "formulas">> => Head(t) = "controls"
  OBVIOUS
<1>8. \A t : t = <<"formulas">> => Head(t) = "formulas"
  OBVIOUS
<1>9. /\ todo[c] \in Seq(Kind)
      /\ \A a, b, d : <<a, b>> # << >> /\ <<a>> # << >> /\ <<a, b, d>> # << >>
  BY DEF IInv, TypeOK
<1>10. todo[c] # << >>
  BY <1>2, <1>9
<1> QED
  BY <1>1, <1>2, <1>3, <1>4, <1>5, <1>6, <1>7, <1>8, <1>9, <1>10 DEF Now, Kind

\* What the answer to a page request adds to the rows in hand.
LEMMA TheNextPage ==
  ASSUME IInv, NEW c \in Calls, pc[c] = "flight",
         NEW given \in 1 .. Asked(c)
  PROVE  /\ Page(c, given) \in Seq(Nat)
         /\ collected[c] \o Page(c, given) \in Seq(Nat)
         /\ Increasing(collected[c] \o Page(c, given))
         /\ Capped(c) => Len(collected[c] \o Page(c, given)) <= Limit
         /\ Len(Page(c, given)) = Cardinality(After(c)) =>
              lasting[c][Now(c)] \subseteq ToSet(collected[c] \o Page(c, given))
         /\ Len(Page(c, given)) # Cardinality(After(c)) =>
              /\ collected[c] \o Page(c, given) # << >>
              /\ Last(collected[c] \o Page(c, given)) = Last(Page(c, given))
              /\ Last(Page(c, given)) \in Nat /\ Last(Page(c, given)) \in After(c)
              /\ \A n \in lasting[c][Now(c)] :
                   n <= Last(Page(c, given)) => n \in ToSet(collected[c] \o Page(c, given))
PROOF
<1> DEFINE k == Now(c)
           S == After(c)
           page == Page(c, given)
           rows == collected[c] \o page
           upto == collected[c]
<1>1. /\ k \in Kind
      /\ InPass(c)
  BY InAListing
<1>2. /\ objects[k] \subseteq Nat /\ IsFiniteSet(objects[k])
      /\ lasting[c][k] \subseteq objects[k]
  BY <1>1 DEF IInv, TypeOK, DocumentIsFinite
<1>3. /\ upto \in Seq(Nat) /\ size[c] \in Floor .. PageSize
      /\ token[c] \in Nat \union {None}
  BY DEF IInv, TypeOK
<1>4. /\ Increasing(upto)
      /\ token[c] = IF upto = << >> THEN None ELSE Last(upto)
      /\ Capped(c) => Len(upto) < Limit
      /\ \A n \in lasting[c][k] : token[c] # None /\ n <= token[c] => n \in ToSet(upto)
  BY <1>1 DEF InPass
<1>5. S = {n \in objects[k] : token[c] = None \/ n > token[c]}
  BY DEF After
<1>6. S \subseteq Nat /\ IsFiniteSet(S)
  <2>1. S \in SUBSET objects[k]
    BY <1>5
  <2> QED
    BY <2>1, <1>2, FS_Subset
<1>7. Asked(c) \in Nat \ {0} /\ (Capped(c) => Asked(c) <= Limit - Len(upto))
  <2>1. size[c] \in Nat \ {0}
    BY <1>3, Words
  <2>2. Len(upto) \in Nat
    BY <1>3
  <2> QED
    BY <2>1, <2>2, <1>4, Words DEF Asked
<1>8. /\ page = FirstOf(S, given)
      /\ given \in Nat \ {0} /\ given <= Asked(c)
  BY <1>7 DEF Page, FirstOf
<1> HIDE DEF S, page, k, upto
<1>9. /\ page \in Seq(Nat)
      /\ Len(page) <= Asked(c)
      /\ Increasing(page)
      /\ \A i \in 1 .. Len(page) : page[i] \in S
      /\ Len(page) = Cardinality(S) => \A n \in S : \E i \in 1 .. Len(page) : page[i] = n
      /\ Len(page) # Cardinality(S) =>
           /\ Len(page) > 0
           /\ \A n \in S : n <= page[Len(page)] => \E i \in 1 .. Len(page) : page[i] = n
  <2>1. IsFirstOf(FirstOf(S, given), S, given)
    BY <1>6, <1>8, FirstOfProps
  <2> QED
    BY <2>1, <1>7, <1>8 DEF IsFirstOf
<1>10. upto # << >> => \A i \in 1 .. Len(page) : page[i] > upto[Len(upto)]
  <2> SUFFICES ASSUME upto # << >>, NEW i \in 1 .. Len(page)
               PROVE  page[i] > upto[Len(upto)]
    OBVIOUS
  <2>1. token[c] = upto[Len(upto)]
    BY <1>4 DEF Last
  <2>2. upto[Len(upto)] \in Nat
    BY <1>3
  <2>3. token[c] # None
    BY <2>1, <2>2, Words
  <2>4. page[i] \in S
    BY <1>9
  <2> QED
    BY <2>1, <2>3, <2>4, <1>5
<1>11. /\ rows \in Seq(Nat) /\ Len(rows) = Len(upto) + Len(page)
       /\ Increasing(rows)
       /\ ToSet(rows) = ToSet(upto) \union ToSet(page)
       /\ Len(page) > 0 => Last(rows) = page[Len(page)] /\ rows # << >>
  <2>1. /\ upto \o page \in Seq(Nat) /\ Len(upto \o page) = Len(upto) + Len(page)
        /\ Increasing(upto \o page)
        /\ ToSet(upto \o page) = ToSet(upto) \union ToSet(page)
        /\ Len(page) > 0 => Last(upto \o page) = page[Len(page)] /\ upto \o page # << >>
    BY <1>3, <1>4, <1>9, <1>10, PageAppended
  <2> QED
    BY <2>1 DEF upto
<1> HIDE DEF rows
<1>12. Capped(c) => Len(rows) <= Limit
  <2>1. Len(upto) \in Nat /\ Len(page) \in Nat /\ Limit \in Nat
    BY <1>3, <1>9, Words
  <2> QED
    BY <2>1, <1>7, <1>9, <1>11
<1>13. \A n : (\E i \in 1 .. Len(page) : page[i] = n) => n \in ToSet(page)
  BY <1>9 DEF ToSet
<1>14. \A n \in lasting[c][k] : n \in S \/ n \in ToSet(upto)
  <2> SUFFICES ASSUME NEW n \in lasting[c][k], n \notin S
               PROVE  n \in ToSet(upto)
    OBVIOUS
  <2>1. n \in objects[k] /\ n \in Nat
    BY <1>2
  <2>2. token[c] # None /\ ~ n > token[c]
    BY <2>1, <1>5
  <2>3. n <= token[c]
    BY <2>1, <2>2, <1>3
  <2> QED
    BY <2>2, <2>3, <1>4
<1>15. ASSUME Len(page) = Cardinality(S)
       PROVE  lasting[c][k] \subseteq ToSet(rows)
  BY <1>15, <1>9, <1>11, <1>13, <1>14
<1>16. ASSUME Len(page) # Cardinality(S)
       PROVE  /\ rows # << >> /\ Last(rows) = Last(page)
              /\ Last(page) \in Nat /\ Last(page) \in S
              /\ \A n \in lasting[c][k] : n <= Last(page) => n \in ToSet(rows)
  <2>1. Len(page) > 0 /\ Last(page) = page[Len(page)]
    BY <1>9, <1>16 DEF Last
  <2>2. Last(page) \in Nat /\ Last(page) \in S
    <3>1. Len(page) \in 1 .. Len(page)
      BY <2>1, <1>9
    <3> QED
      BY <3>1, <2>1, <1>9
  <2>3. \A n \in lasting[c][k] : n <= Last(page) => n \in ToSet(rows)
    BY <2>1, <1>16, <1>9, <1>11, <1>13, <1>14
  <2> QED
    BY <2>1, <2>2, <2>3, <1>11
<1> QED
  BY <1>9, <1>11, <1>12, <1>15, <1>16 DEF rows, upto, k, S, page

-----------------------------------------------------------------------------
(* How a step preserves the invariant *)

\* Nothing of the call is touched.
Untouched(d) ==
  /\ tool'[d] = tool[d] /\ pc'[d] = pc[d] /\ todo'[d] = todo[d]
  /\ size'[d] = size[d] /\ token'[d] = token[d] /\ collected'[d] = collected[d]
  /\ expired'[d] = expired[d] /\ found'[d] = found[d] /\ result'[d] = result[d]
  /\ lasting'[d] = lasting[d]

LEMMA UntouchedKept ==
  ASSUME NEW d \in Calls, CallInv(d), Untouched(d)
  PROVE  CallInv(d)'
PROOF
<1>1. Itinerary(d)'
  BY DEF CallInv, Itinerary, Untouched
<1>2. Now(d)' = Now(d)
  BY DEF Now, Untouched
<1>3. Capped(d)' <=> Capped(d)
  BY <1>2 DEF Capped
<1>4. InPass(d)'
  BY <1>2, <1>3 DEF CallInv, InPass, Untouched
<1>5. Returned(d)'
  BY DEF CallInv, Returned, Untouched
<1>6. Vouched(d)'
  BY DEF CallInv, Vouched, Seen, Untouched
<1> QED
  BY <1>1, <1>4, <1>5, <1>6 DEF CallInv

\* One call's step leaves every other call alone.
LEMMA OneCallMoves ==
  ASSUME IInv, NEW c \in Calls, TypeOK', DocumentIsFinite', CallInv(c)',
         \A d \in Calls : d # c => Untouched(d)
  PROVE  IInv'
PROOF
<1>1. ASSUME NEW d \in Calls
      PROVE  CallInv(d)'
  <2>1. CASE d = c
    BY <2>1
  <2>2. CASE d # c
    <3>1. CallInv(d)
      BY DEF IInv, CallInv
    <3> QED
      BY <2>2, <3>1, UntouchedKept
  <2> QED
    BY <2>1, <2>2
<1>2. \A d \in Calls : Itinerary(d)' /\ InPass(d)' /\ Returned(d)' /\ Vouched(d)'
  BY <1>1 DEF CallInv
<1> QED
  BY <1>2 DEF IInv

LEMMA DocumentStays ==
  ASSUME IInv, UNCHANGED <<objects, edits, lasting>>
  PROVE  DocumentIsFinite'
BY DEF IInv, DocumentIsFinite

\* What a listing hands on: in order, within the cap, and whole if it says so
\* or if somebody relies on it while there is time.
Deliverable(c, rows, complete) ==
  /\ rows \in Seq(Nat) /\ complete \in BOOLEAN
  /\ Increasing(rows)
  /\ Now(c) = "rows" => Len(rows) <= Limit
  /\ Now(c) = "rows" /\ complete /\ Len(rows) < Limit =>
       lasting[c]["rows"] \subseteq ToSet(rows)
  /\ Now(c) \in Guarded => expired[c] \/ lasting[c][Now(c)] \subseteq ToSet(rows)

LEMMA DeliverKeeps ==
  ASSUME IInv, NEW c \in Calls, pc[c] \in {"loop", "flight"},
         NEW rows, NEW complete, Deliverable(c, rows, complete),
         Deliver(c, rows, complete), UNCHANGED <<objects, edits>>
  PROVE  IInv'
PROOF
<1> DEFINE k == Now(c)
           owned == OwnedBy(k, rows)
<1>1. /\ TypeOK /\ k \in Kind /\ todo[c] \in Seq(Kind) /\ todo[c] # << >>
      /\ k = "rows" <=> todo[c] = <<"rows">>
      /\ k = "columns" <=> todo[c] = <<"columns", "rows">>
      /\ k = "formulas" <=> todo[c] = <<"formulas">>
      /\ k = "controls" <=> todo[c] = <<"controls", "formulas">>
      /\ k = "tables" <=> todo[c] = <<"tables", "controls", "formulas">>
      /\ result[c] = None
      /\ Itinerary(c) /\ InPass(c) /\ Returned(c) /\ Vouched(c)
  BY InAListing DEF IInv
<1>2. /\ rows \in Seq(Nat) /\ complete \in BOOLEAN
      /\ Increasing(rows)
      /\ k = "rows" => Len(rows) <= Limit
      /\ k = "rows" /\ complete /\ Len(rows) < Limit => lasting[c]["rows"] \subseteq ToSet(rows)
      /\ k \in Guarded => expired[c] \/ lasting[c][k] \subseteq ToSet(rows)
  BY DEF Deliverable
<1>3. owned \in SUBSET (Kind \X Nat)
  <2>1. ToSet(rows) \subseteq Nat
    BY <1>2 DEF ToSet
  <2> QED
    BY <2>1, <1>1 DEF OwnedBy
<1>4. /\ todo' = [todo EXCEPT ![c] = Tail(todo[c])]
      /\ found' = IF k \in Guarded THEN [found EXCEPT ![c] = found[c] \union owned] ELSE found
      /\ schema' = IF k = "columns" THEN rows ELSE schema
      /\ result' = IF k = "rows"
                   THEN [result EXCEPT ![c] = [rows |-> rows, complete |-> complete]]
                   ELSE result
      /\ pc' = [pc EXCEPT ![c] =
                  CASE k = "rows" -> "returned"
                    [] k = "formulas" -> IF found'[c] = {} THEN "write" ELSE "raised"
                    [] OTHER -> "lookup"]
      /\ UNCHANGED <<objects, edits, tool, size, token, expired, lasting>>
      /\ collected' = [collected EXCEPT ![c] = << >>]
  BY DEF Deliver, doc, Guarded
<1> HIDE DEF k, owned
<1>5. /\ tool \in [Calls -> Tools \union {None}]
      /\ pc \in [Calls -> {"idle", "lookup", "loop", "flight", "write", "sent",
                            "returned", "raised"}]
      /\ todo \in [Calls -> Seq(Kind)]
      /\ collected \in [Calls -> Seq(Nat)]
      /\ found \in [Calls -> SUBSET (Kind \X Nat)]
  BY <1>1 DEF TypeOK
<1>6. todo'[c] = Tail(todo[c]) /\ todo' \in [Calls -> Seq(Kind)]
  BY <1>1, <1>4, <1>5
<1>7. /\ found' \in [Calls -> SUBSET (Kind \X Nat)]
      /\ k \in Guarded => found'[c] = found[c] \union owned
      /\ k \notin Guarded => found'[c] = found[c]
  BY <1>3, <1>4, <1>5
<1>8. /\ k = "rows" => pc'[c] = "returned"
      /\ k = "formulas" => pc'[c] = IF found'[c] = {} THEN "write" ELSE "raised"
      /\ k \notin {"rows", "formulas"} => pc'[c] = "lookup"
  BY <1>4, <1>5
<1>9. pc' \in [Calls -> {"idle", "lookup", "loop", "flight", "write", "sent",
                          "returned", "raised"}]
  BY <1>4, <1>5
<1>10. collected' \in [Calls -> Seq(Nat)] /\ collected'[c] = << >>
  <2>1. << >> \in Seq(Nat)
    OBVIOUS
  <2> QED
    BY <2>1, <1>4, <1>5
<1>11. ASSUME NEW d \in Calls, result'[d] # None
       PROVE  result'[d] \in [rows : Seq(Nat), complete : BOOLEAN]
  <2>1. CASE k = "rows" /\ d = c /\ c \in DOMAIN result
    BY <2>1, <1>2, <1>4
  <2>2. CASE ~ (k = "rows" /\ d = c /\ c \in DOMAIN result)
    <3>1. result'[d] = result[d]
      BY <2>2, <1>4
    <3> QED
      BY <3>1, <1>1, <1>11 DEF TypeOK
  <2> QED
    BY <2>1, <2>2
<1>12. schema' = None \/ schema' \in Seq(Nat)
  BY <1>1, <1>2, <1>4 DEF TypeOK
<1>13. TypeOK'
  BY <1>1, <1>4, <1>6, <1>7, <1>9, <1>10, <1>11, <1>12 DEF TypeOK
<1>14. DocumentIsFinite'
  BY <1>4, DocumentStays
<1>15. /\ k = "columns" => todo'[c] = <<"rows">>
       /\ k = "controls" => todo'[c] = <<"formulas">>
       /\ k = "tables" => todo'[c] = <<"controls", "formulas">>
       /\ k = "formulas" => todo'[c] = << >>
  <2>1. \A t : t = <<"columns", "rows">> => Tail(t) = <<"rows">>
    OBVIOUS
  <2>2. \A t : t = <<"tables", "controls", "formulas">> => Tail(t) = <<"controls", "formulas">>
    OBVIOUS
  <2>3. \A t : t = <<"controls", "formulas">> => Tail(t) = <<"formulas">>
    OBVIOUS
  <2>4. \A t : t = <<"formulas">> => Tail(t) = << >>
    OBVIOUS
  <2> QED
    BY <2>1, <2>2, <2>3, <2>4, <1>1, <1>6
<1>16. tool'[c] = tool[c] /\ expired'[c] = expired[c] /\ lasting'[c] = lasting[c]
  BY <1>4
<1>17. /\ tool[c] = "find_rows" => k \in {"columns", "rows"}
       /\ tool[c] = "overwrite_page" => k \in Guarded
       /\ tool[c] \in {"find_rows", "overwrite_page"}
  BY <1>1 DEF Itinerary, Guarded
<1>18. result'[c] # None => k = "rows"
  BY <1>1, <1>4
<1>19. Itinerary(c)'
  BY <1>8, <1>15, <1>16, <1>17, <1>18, <1>1 DEF Itinerary, Guarded, Kind
<1>20. InPass(c)'
  <2>1. pc'[c] \notin {"loop", "flight"}
    BY <1>8
  <2>2. Increasing(collected'[c])
    BY <1>10 DEF Increasing
  <2> QED
    BY <2>1, <2>2 DEF InPass
<1>21. Returned(c)'
  <2>1. ASSUME result'[c] # None
        PROVE  result'[c] = [rows |-> rows, complete |-> complete] /\ k = "rows"
    BY <2>1, <1>1, <1>4
  <2>2. ASSUME result'[c] # None
        PROVE  result'[c].rows = rows /\ result'[c].complete = complete /\ k = "rows"
    BY <2>1, <2>2
  <2> QED
    BY <2>2, <1>2, <1>16 DEF Returned
<1>22. Vouched(c)'
  <2> SUFFICES ASSUME tool[c] = "overwrite_page"
               PROVE  /\ pc'[c] \in {"lookup", "loop", "flight"} /\ ~ expired[c] =>
                           \A g \in Guarded \ ToSet(todo'[c]) : Seen(c, g)'
                      /\ pc'[c] = "write" =>
                           found'[c] = {} /\ (expired[c] \/ \A g \in Guarded : Seen(c, g)')
                      /\ pc'[c] # "sent"
    BY <1>16 DEF Vouched
  <2>1. k \in Guarded /\ found'[c] = found[c] \union owned
    BY <1>7, <1>17
  <2>2. expired[c] \/ \A g \in Guarded \ ToSet(todo[c]) : Seen(c, g)
    BY <1>1 DEF Vouched
  <2>3. \A g \in Guarded : Seen(c, g) => Seen(c, g)'
    BY <2>1, <1>16 DEF Seen
  <2>4. expired[c] \/ \A g \in Guarded : g = k => Seen(c, g)'
    <3> SUFFICES ASSUME ~ expired[c], NEW g \in Guarded, g = k,
                        NEW n \in lasting[c][g] \intersect Owned
                 PROVE  <<g, n>> \in found'[c]
      BY <1>16 DEF Seen
    <3>1. n \in ToSet(rows) \intersect Owned
      BY <2>1, <1>2
    <3> QED
      BY <3>1, <2>1 DEF owned, OwnedBy
  <2>5. Guarded \ ToSet(todo'[c]) \subseteq (Guarded \ ToSet(todo[c])) \union {k}
    <3>2. \A g : g \in ToSet(todo[c]) => g = k \/ g \in ToSet(todo'[c])
      <4>1. todo'[c] = Tail(todo[c]) /\ k = Head(todo[c])
        BY <1>6 DEF k, Now
      <4>2. \A i \in DOMAIN todo[c] :
              todo[c][i] = k \/ (i - 1 \in DOMAIN todo'[c] /\ todo'[c][i - 1] = todo[c][i])
        BY <4>1, <1>1, <1>6
      <4> QED
        BY <4>2 DEF ToSet
    <3> QED
      BY <3>2
  <2>6. expired[c] \/ \A g \in Guarded \ ToSet(todo'[c]) : Seen(c, g)'
    BY <2>2, <2>3, <2>4, <2>5
  <2>7. pc'[c] # "sent"
    BY <1>8
  <2>8. ASSUME pc'[c] = "write"
        PROVE  found'[c] = {} /\ (expired[c] \/ \A g \in Guarded : Seen(c, g)')
    <3>1. k = "formulas"
      BY <2>8, <1>8
    <3>2. found'[c] = {}
      BY <2>8, <3>1, <1>8
    <3>3. todo'[c] = << >>
      BY <3>1, <1>15
    <3>4. ToSet(todo'[c]) = {}
      BY <3>3 DEF ToSet
    <3> QED
      BY <3>2, <3>4, <2>6
  <2> QED
    BY <2>6, <2>7, <2>8
<1>23. \A d \in Calls : d # c => Untouched(d)
  BY <1>4 DEF Untouched
<1>24. CallInv(c)'
  BY <1>19, <1>20, <1>21, <1>22 DEF CallInv
<1> QED
  BY <1>13, <1>14, <1>23, <1>24, OneCallMoves

-----------------------------------------------------------------------------
(* The steps of a call *)

LEMMA Types ==
  ASSUME IInv
  PROVE  /\ objects \in [Kind -> SUBSET Nat]
         /\ tool \in [Calls -> Tools \union {None}]
         /\ pc \in [Calls -> {"idle", "lookup", "loop", "flight", "write", "sent",
                               "returned", "raised"}]
         /\ todo \in [Calls -> Seq(Kind)]
         /\ size \in [Calls -> Floor .. PageSize]
         /\ token \in [Calls -> Nat \union {None}]
         /\ collected \in [Calls -> Seq(Nat)]
         /\ expired \in [Calls -> BOOLEAN]
         /\ found \in [Calls -> SUBSET (Kind \X Nat)]
BY DEF IInv, TypeOK

\* A call that raises: whatever it had is of no use to anybody.
LEMMA RaiseKeeps ==
  ASSUME IInv, NEW c \in Calls,
         pc[c] \in {"loop", "flight", "write"}, Raise(c)
  PROVE  IInv'
PROOF
<1>1. /\ pc' = [pc EXCEPT ![c] = "raised"]
      /\ UNCHANGED <<objects, edits, tool, todo, size, token, collected, expired,
                     found, result, schema, lasting>>
  BY DEF Raise, doc, listing
<1>2. pc' \in [Calls -> {"idle", "lookup", "loop", "flight", "write", "sent",
                          "returned", "raised"}] /\ pc'[c] = "raised"
  BY <1>1, Types
<1>3. TypeOK'
  BY <1>1, <1>2 DEF IInv, TypeOK
<1>4. DocumentIsFinite'
  BY <1>1, DocumentStays
<1>5. Itinerary(c) /\ InPass(c)
  BY DEF IInv
<1>6. result[c] = None
  BY <1>5 DEF Itinerary
<1>7. CallInv(c)'
  BY <1>1, <1>2, <1>5, <1>6 DEF CallInv, Itinerary, InPass, Returned, Vouched
<1>8. \A d \in Calls : d # c => Untouched(d)
  BY <1>1, Types DEF Untouched
<1> QED
  BY <1>3, <1>4, <1>7, <1>8, OneCallMoves

LEMMA StartKeeps ==
  ASSUME IInv, NEW c \in Calls, NEW t \in Tools, Start(c, t)
  PROVE  IInv'
PROOF
<1>1. /\ pc[c] = "idle"
      /\ tool' = [tool EXCEPT ![c] = t]
      /\ todo' = [todo EXCEPT ![c] = Plan(t)]
      /\ pc' = [pc EXCEPT ![c] = IF Plan(t) = << >> THEN "write" ELSE "lookup"]
      /\ lasting' = [lasting EXCEPT ![c] = objects]
      /\ UNCHANGED <<objects, edits, size, token, collected, expired, found, result, schema>>
  BY DEF Start, doc, listing
<1>2. \/ t = "find_rows" /\ Plan(t) = <<"columns", "rows">>
      \/ t = "overwrite_page" /\ Plan(t) = <<"tables", "controls", "formulas">>
      \/ t = "overwrite_page_force" /\ Plan(t) = << >>
  BY DEF Plan, Tools
<1>3. Plan(t) \in Seq(Kind) /\ (Plan(t) = << >> <=> t = "overwrite_page_force")
  <2>1. <<"columns", "rows">> \in Seq(Kind) /\ <<"columns", "rows">> # << >>
    BY DEF Kind
  <2>2. /\ <<"tables", "controls", "formulas">> \in Seq(Kind)
        /\ <<"tables", "controls", "formulas">> # << >>
    BY DEF Kind
  <2>3. << >> \in Seq(Kind)
    OBVIOUS
  <2> QED
    BY <1>2, <2>1, <2>2, <2>3
<1> DEFINE next == IF Plan(t) = << >> THEN "write" ELSE "lookup"
<1>4. next \in {"write", "lookup"} /\ (next = "write" <=> t = "overwrite_page_force")
  BY <1>3
<1>5. /\ tool' \in [Calls -> Tools \union {None}] /\ tool'[c] = t
      /\ todo' \in [Calls -> Seq(Kind)] /\ todo'[c] = Plan(t)
      /\ pc'[c] = next
  BY <1>1, <1>3, Types
<1>6. pc' \in [Calls -> {"idle", "lookup", "loop", "flight", "write", "sent",
                          "returned", "raised"}]
  <2>1. pc' = [pc EXCEPT ![c] = next]
    BY <1>1
  <2> HIDE DEF next
  <2> QED
    BY <2>1, <1>4, Types
<1> HIDE DEF next
<1>7. TypeOK'
  BY <1>1, <1>5, <1>6 DEF IInv, TypeOK
<1>8. DocumentIsFinite'
  BY <1>1, Types DEF IInv, DocumentIsFinite
<1>9. Itinerary(c) /\ InPass(c) /\ Returned(c)
  BY DEF IInv
<1>10. Itinerary(c)'
  BY <1>1, <1>2, <1>4, <1>5, <1>9 DEF Itinerary, Tools
<1>11. InPass(c)'
  BY <1>1, <1>4, <1>5, <1>9 DEF InPass
<1>12. Returned(c)'
  BY <1>1, <1>9 DEF Returned, Itinerary
<1>13. Vouched(c)'
  <2> SUFFICES ASSUME t = "overwrite_page"
               PROVE  \A k \in Guarded \ ToSet(Plan(t)) : FALSE
    BY <1>4, <1>5 DEF Vouched
  <2>1. Plan(t) = <<"tables", "controls", "formulas">>
    BY <1>2
  <2>2. ToSet(<<"tables", "controls", "formulas">>) = {"tables", "controls", "formulas"}
    BY DEF ToSet
  <2> QED
    BY <2>1, <2>2 DEF Guarded
<1>14. CallInv(c)'
  BY <1>10, <1>11, <1>12, <1>13 DEF CallInv
<1>15. \A d \in Calls : d # c => Untouched(d)
  BY <1>1, Types DEF Untouched, IInv, DocumentIsFinite
<1> QED
  BY <1>7, <1>8, <1>14, <1>15, OneCallMoves

LEMMA CachedKeeps ==
  ASSUME IInv, NEW c \in Calls, Cached(c)
  PROVE  IInv'
PROOF
<1>1. /\ pc[c] = "lookup" /\ Now(c) = "columns"
      /\ todo' = [todo EXCEPT ![c] = Tail(todo[c])]
      /\ UNCHANGED <<objects, edits, tool, pc, size, token, collected, expired,
                     found, result, schema, lasting>>
  BY DEF Cached, doc, listing
<1>2. /\ todo[c] = <<"columns", "rows">> /\ CallInv(c)
  BY <1>1, InAListing DEF CallInv
<1>3. Tail(todo[c]) = <<"rows">> /\ <<"rows">> \in Seq(Kind)
  BY <1>2 DEF Kind
<1>4. todo'[c] = <<"rows">> /\ todo' \in [Calls -> Seq(Kind)]
  BY <1>1, <1>3, Types
<1>5. tool[c] = "find_rows"
  BY <1>1, <1>2 DEF CallInv, Itinerary
<1>6. TypeOK'
  BY <1>1, <1>4 DEF IInv, TypeOK
<1>7. DocumentIsFinite'
  BY <1>1, DocumentStays
<1>8. CallInv(c)'
  BY <1>1, <1>2, <1>4, <1>5 DEF CallInv, Itinerary, InPass, Returned, Vouched
<1>9. \A d \in Calls : d # c => Untouched(d)
  BY <1>1, Types DEF Untouched
<1> QED
  BY <1>6, <1>7, <1>8, <1>9, OneCallMoves

LEMMA BeginListingKeeps ==
  ASSUME IInv, NEW c \in Calls, BeginListing(c)
  PROVE  IInv'
PROOF
<1>1. /\ pc[c] = "lookup"
      /\ pc' = [pc EXCEPT ![c] = "loop"]
      /\ size' = [size EXCEPT ![c] = PageSize]
      /\ token' = [token EXCEPT ![c] = None]
      /\ collected' = [collected EXCEPT ![c] = << >>]
      /\ UNCHANGED <<objects, edits, tool, todo, expired, found, result, schema, lasting>>
  BY DEF BeginListing, doc
<1>2. /\ pc' \in [Calls -> {"idle", "lookup", "loop", "flight", "write", "sent",
                             "returned", "raised"}] /\ pc'[c] = "loop"
      /\ token' \in [Calls -> Nat \union {None}] /\ token'[c] = None
  BY <1>1, Types
<1>3. collected' \in [Calls -> Seq(Nat)] /\ collected'[c] = << >>
  <2>1. << >> \in Seq(Nat)
    OBVIOUS
  <2> QED
    BY <2>1, <1>1, Types
<1>4. size' \in [Calls -> Floor .. PageSize]
  <2>1. PageSize \in Floor .. PageSize
    BY Words
  <2> QED
    BY <2>1, <1>1, Types
<1>5. TypeOK'
  BY <1>1, <1>2, <1>3, <1>4 DEF IInv, TypeOK
<1>6. DocumentIsFinite'
  BY <1>1, DocumentStays
<1>7. CallInv(c)
  BY <1>1, InAListing DEF CallInv
<1>8. Itinerary(c)' /\ Returned(c)' /\ Vouched(c)'
  BY <1>1, <1>2, <1>7 DEF CallInv, Itinerary, Returned, Vouched, Seen
<1>9. InPass(c)'
  <2>1. Len(collected'[c]) = 0 /\ Increasing(collected'[c])
    BY <1>3 DEF Increasing
  <2> QED
    BY <2>1, <1>2, <1>3, Words DEF InPass
<1>10. CallInv(c)'
  BY <1>8, <1>9 DEF CallInv
<1>11. \A d \in Calls : d # c => Untouched(d)
  BY <1>1, Types DEF Untouched
<1> QED
  BY <1>5, <1>6, <1>10, <1>11, OneCallMoves

LEMMA SendKeeps ==
  ASSUME IInv, NEW c \in Calls, Send(c)
  PROVE  IInv'
PROOF
<1>1. /\ pc[c] = "loop"
      /\ pc' = [pc EXCEPT ![c] = "flight"]
      /\ UNCHANGED <<objects, edits, tool, todo, size, token, collected, expired,
                     found, result, schema, lasting>>
  BY DEF Send, doc, listing
<1>2. /\ pc' \in [Calls -> {"idle", "lookup", "loop", "flight", "write", "sent",
                             "returned", "raised"}] /\ pc'[c] = "flight"
  BY <1>1, Types
<1>3. TypeOK'
  BY <1>1, <1>2 DEF IInv, TypeOK
<1>4. DocumentIsFinite'
  BY <1>1, DocumentStays
<1>5. CallInv(c)
  BY <1>1, InAListing DEF CallInv
<1>6. Now(c)' = Now(c) /\ (Capped(c)' <=> Capped(c))
  BY <1>1 DEF Now, Capped
<1>7. CallInv(c)'
  BY <1>1, <1>2, <1>5, <1>6 DEF CallInv, Itinerary, InPass, Returned, Vouched, Seen
<1>8. \A d \in Calls : d # c => Untouched(d)
  BY <1>1, Types DEF Untouched
<1> QED
  BY <1>3, <1>4, <1>7, <1>8, OneCallMoves

\* Cut short, the rows go out unfinished, and nobody has time to act on them.
LEMMA CutShortKeeps ==
  ASSUME IInv, NEW c \in Calls, CutShort(c)
  PROVE  IInv'
PROOF
<1>1. pc[c] = "loop" /\ expired[c] /\ Deliver(c, collected[c], FALSE)
  BY DEF CutShort
<1>2. InPass(c) /\ collected[c] \in Seq(Nat)
  BY Types DEF IInv
<1>3. Now(c) = "rows" => Len(collected[c]) <= Limit
  <2>1. Len(collected[c]) \in Nat /\ Limit \in Nat
    BY <1>2, Words
  <2> QED
    BY <2>1, <1>1, <1>2 DEF InPass, Capped
<1>4. Deliverable(c, collected[c], FALSE)
  BY <1>1, <1>2, <1>3 DEF Deliverable, InPass
<1>5. UNCHANGED <<objects, edits>>
  BY <1>1 DEF Deliver, doc
<1> QED
  BY <1>1, <1>4, <1>5, DeliverKeeps

LEMMA AnsweredKeeps ==
  ASSUME IInv, NEW c \in Calls, Answered(c)
  PROVE  IInv'
PROOF
<1>0. pc[c] = "flight" /\ \E n \in 1 .. Asked(c) : PageArrives(c, Page(c, n))
  BY DEF Answered
<1>1. pc[c] = "flight"
  BY <1>0
<1> PICK given \in 1 .. Asked(c) : PageArrives(c, Page(c, given))
  BY <1>0
<1> DEFINE page == Page(c, given)
           rows == collected[c] \o page
<1>2. /\ page \in Seq(Nat) /\ rows \in Seq(Nat) /\ Increasing(rows)
      /\ Capped(c) => Len(rows) <= Limit
      /\ Len(page) = Cardinality(After(c)) => lasting[c][Now(c)] \subseteq ToSet(rows)
      /\ Len(page) # Cardinality(After(c)) =>
           /\ rows # << >> /\ Last(rows) = Last(page) /\ Last(page) \in Nat
           /\ \A n \in lasting[c][Now(c)] : n <= Last(page) => n \in ToSet(rows)
  BY <1>1, TheNextPage
<1>3. IF Len(page) = Cardinality(After(c)) \/ (Capped(c) /\ Len(rows) >= Limit)
      THEN Deliver(c, rows, TRUE)
      ELSE /\ pc' = [pc EXCEPT ![c] = "loop"]
           /\ token' = [token EXCEPT ![c] = Last(page)]
           /\ collected' = [collected EXCEPT ![c] = rows]
           /\ UNCHANGED <<doc, tool, todo, size, expired, found, result, schema, lasting>>
  BY DEF PageArrives
<1> HIDE DEF page, rows
<1>4. Capped(c) <=> Now(c) = "rows"
  BY DEF Capped
<1>5. Len(rows) \in Nat /\ Limit \in Nat
  BY <1>2, Words
<1>6. CASE Len(page) = Cardinality(After(c)) \/ (Capped(c) /\ Len(rows) >= Limit)
  <2>1. Deliver(c, rows, TRUE)
    BY <1>3, <1>6
  <2>2. Now(c) = "rows" /\ Len(rows) < Limit => lasting[c]["rows"] \subseteq ToSet(rows)
    BY <1>2, <1>4, <1>5, <1>6
  <2>3. Now(c) \in Guarded => lasting[c][Now(c)] \subseteq ToSet(rows)
    BY <1>2, <1>4, <1>6 DEF Guarded
  <2>4. Deliverable(c, rows, TRUE)
    BY <1>2, <1>4, <2>2, <2>3 DEF Deliverable
  <2>5. UNCHANGED <<objects, edits>>
    BY <2>1 DEF Deliver, doc
  <2> QED
    BY <1>1, <2>1, <2>4, <2>5, DeliverKeeps
<1>7. CASE ~ (Len(page) = Cardinality(After(c)) \/ (Capped(c) /\ Len(rows) >= Limit))
  <2>1. /\ pc' = [pc EXCEPT ![c] = "loop"]
        /\ token' = [token EXCEPT ![c] = Last(page)]
        /\ collected' = [collected EXCEPT ![c] = rows]
        /\ UNCHANGED <<objects, edits, tool, todo, size, expired, found, result, schema, lasting>>
    BY <1>3, <1>7 DEF doc
  <2>2. /\ pc' \in [Calls -> {"idle", "lookup", "loop", "flight", "write", "sent",
                               "returned", "raised"}] /\ pc'[c] = "loop"
    BY <2>1, Types
  <2>3. token' \in [Calls -> Nat \union {None}] /\ token'[c] = Last(page)
    BY <2>1, <1>2, <1>7, Types
  <2>4. collected' \in [Calls -> Seq(Nat)] /\ collected'[c] = rows
    BY <2>1, <1>2, Types
  <2>5. TypeOK'
    BY <2>1, <2>2, <2>3, <2>4 DEF IInv, TypeOK
  <2>6. DocumentIsFinite'
    BY <2>1, DocumentStays
  <2>7. CallInv(c)
    BY <1>1, InAListing DEF CallInv
  <2>8. Now(c)' = Now(c) /\ (Capped(c)' <=> Capped(c))
    BY <2>1 DEF Now, Capped
  <2>9. Itinerary(c)' /\ Returned(c)' /\ Vouched(c)'
    BY <1>1, <2>1, <2>2, <2>7 DEF CallInv, Itinerary, Returned, Vouched, Seen
  <2>10. InPass(c)'
    <3>1. Capped(c) => Len(rows) < Limit
      BY <1>5, <1>7
    <3>2. token'[c] = IF collected'[c] = << >> THEN None ELSE Last(collected'[c])
      BY <2>3, <2>4, <1>2, <1>7
    <3>3. \A n \in lasting'[c][Now(c)'] :
            token'[c] # None /\ n <= token'[c] => n \in ToSet(collected'[c])
      BY <2>1, <2>3, <2>4, <2>8, <1>2, <1>7
    <3> QED
      BY <3>1, <3>2, <3>3, <2>4, <2>8, <1>2 DEF InPass
  <2>11. CallInv(c)'
    BY <2>9, <2>10 DEF CallInv
  <2>12. \A d \in Calls : d # c => Untouched(d)
    BY <2>1, Types DEF Untouched
  <2> QED
    BY <2>5, <2>6, <2>11, <2>12, OneCallMoves
<1> QED
  BY <1>6, <1>7

LEMMA GatewayTimeoutKeeps ==
  ASSUME IInv, NEW c \in Calls, GatewayTimeout(c)
  PROVE  IInv'
PROOF
<1>1. pc[c] = "flight"
  BY DEF GatewayTimeout
<1>2. CASE Now(c) # "rows" \/ size[c] \div 2 < Floor
  <2>1. Raise(c)
    BY <1>2 DEF GatewayTimeout
  <2> QED
    BY <1>1, <2>1, RaiseKeeps
<1>3. CASE ~ (Now(c) # "rows" \/ size[c] \div 2 < Floor)
  <2>1. /\ size' = [size EXCEPT ![c] = size[c] \div 2]
        /\ token' = [token EXCEPT ![c] = None]
        /\ collected' = [collected EXCEPT ![c] = << >>]
        /\ pc' = [pc EXCEPT ![c] = "loop"]
        /\ UNCHANGED <<objects, edits, tool, todo, expired, found, result, schema, lasting>>
    BY <1>3 DEF GatewayTimeout, Restart, doc
  <2>2. /\ pc' \in [Calls -> {"idle", "lookup", "loop", "flight", "write", "sent",
                               "returned", "raised"}] /\ pc'[c] = "loop"
        /\ token' \in [Calls -> Nat \union {None}] /\ token'[c] = None
    BY <2>1, Types
  <2>3. collected' \in [Calls -> Seq(Nat)] /\ collected'[c] = << >>
    <3>1. << >> \in Seq(Nat)
      OBVIOUS
    <3> QED
      BY <3>1, <2>1, Types
  <2>4. size' \in [Calls -> Floor .. PageSize]
    <3>1. size[c] \in Floor .. PageSize /\ Floor \in Nat /\ PageSize \in Nat
      BY Types, Words
    <3>2. size[c] \div 2 \in Floor .. PageSize
      BY <3>1, <1>3
    <3> QED
      BY <3>2, <2>1, Types
  <2>5. TypeOK'
    BY <2>1, <2>2, <2>3, <2>4 DEF IInv, TypeOK
  <2>6. DocumentIsFinite'
    BY <2>1, DocumentStays
  <2>7. CallInv(c)
    BY <1>1, InAListing DEF CallInv
  <2>8. Itinerary(c)' /\ Returned(c)' /\ Vouched(c)'
    BY <1>1, <2>1, <2>2, <2>7 DEF CallInv, Itinerary, Returned, Vouched, Seen
  <2>9. InPass(c)'
    <3>1. Len(collected'[c]) = 0 /\ Increasing(collected'[c])
      BY <2>3 DEF Increasing
    <3> QED
      BY <3>1, <2>2, <2>3, Words DEF InPass
  <2>10. CallInv(c)'
    BY <2>8, <2>9 DEF CallInv
  <2>11. \A d \in Calls : d # c => Untouched(d)
    BY <2>1, Types DEF Untouched
  <2> QED
    BY <2>5, <2>6, <2>10, <2>11, OneCallMoves
<1> QED
  BY <1>2, <1>3

\* The write goes out while there is time: every listing was whole.
LEMMA WriteSentKeeps ==
  ASSUME IInv, NEW c \in Calls, WriteSent(c)
  PROVE  IInv'
PROOF
<1>1. /\ pc[c] = "write" /\ ~ expired[c]
      /\ pc' = [pc EXCEPT ![c] = "sent"]
      /\ UNCHANGED <<objects, edits, tool, todo, size, token, collected, expired,
                     found, result, schema, lasting>>
  BY DEF WriteSent, doc, listing
<1>2. /\ pc' \in [Calls -> {"idle", "lookup", "loop", "flight", "write", "sent",
                             "returned", "raised"}] /\ pc'[c] = "sent"
  BY <1>1, Types
<1>3. TypeOK'
  BY <1>1, <1>2 DEF IInv, TypeOK
<1>4. DocumentIsFinite'
  BY <1>1, DocumentStays
<1>5. Itinerary(c) /\ InPass(c) /\ Returned(c) /\ Vouched(c)
  BY DEF IInv
<1>6. Itinerary(c)' /\ InPass(c)' /\ Returned(c)'
  BY <1>1, <1>2, <1>5 DEF Itinerary, InPass, Returned
<1>7. Vouched(c)'
  <2> SUFFICES ASSUME tool[c] = "overwrite_page"
               PROVE  \A k \in Guarded : lasting[c][k] \intersect Owned = {}
    BY <1>1, <1>2 DEF Vouched
  <2>1. found[c] = {} /\ \A k \in Guarded : Seen(c, k)
    BY <1>1, <1>5 DEF Vouched
  <2> QED
    BY <2>1 DEF Seen
<1>8. CallInv(c)'
  BY <1>6, <1>7 DEF CallInv
<1>9. \A d \in Calls : d # c => Untouched(d)
  BY <1>1, Types DEF Untouched
<1> QED
  BY <1>3, <1>4, <1>8, <1>9, OneCallMoves

LEMMA ExpireKeeps ==
  ASSUME IInv, NEW c \in Calls, Expire(c)
  PROVE  IInv'
PROOF
<1>1. /\ pc[c] \in {"lookup", "loop", "flight", "write"}
      /\ expired' = [expired EXCEPT ![c] = TRUE]
      /\ UNCHANGED <<objects, edits, tool, pc, todo, size, token, collected,
                     found, result, schema, lasting>>
  BY DEF Expire, doc, listing
<1>2. expired' \in [Calls -> BOOLEAN] /\ expired'[c]
  BY <1>1, Types
<1>3. TypeOK'
  BY <1>1, <1>2 DEF IInv, TypeOK
<1>4. DocumentIsFinite'
  BY <1>1, DocumentStays
<1>5. Itinerary(c) /\ InPass(c) /\ Returned(c) /\ Vouched(c)
  BY DEF IInv
<1>6. Now(c)' = Now(c) /\ (Capped(c)' <=> Capped(c))
  BY <1>1 DEF Now, Capped
<1>7. Itinerary(c)' /\ InPass(c)' /\ Returned(c)'
  BY <1>1, <1>5, <1>6 DEF Itinerary, InPass, Returned
<1>8. Vouched(c)'
  BY <1>1, <1>2, <1>5 DEF Vouched
<1>9. CallInv(c)'
  BY <1>7, <1>8 DEF CallInv
<1>10. \A d \in Calls : d # c => Untouched(d)
  BY <1>1, Types DEF Untouched
<1> QED
  BY <1>3, <1>4, <1>9, <1>10, OneCallMoves

-----------------------------------------------------------------------------
(* The edits of others *)

LEMMA AddKeeps ==
  ASSUME IInv, NEW k \in Kind, Add(k)
  PROVE  IInv'
PROOF
<1> DEFINE n == 1 + First[k] + edits
<1>1. /\ edits' = edits + 1
      /\ objects' = [objects EXCEPT ![k] = objects[k] \union {n}]
      /\ UNCHANGED <<tool, pc, todo, size, token, collected, expired, found,
                     result, schema, lasting>>
  BY DEF Add, listing
<1>2. n \in Nat /\ edits' \in Nat
  BY <1>1, Words DEF IInv, DocumentIsFinite
<1> HIDE DEF n
<1>3. objects' \in [Kind -> SUBSET Nat]
  BY <1>1, <1>2, Types
<1>4. TypeOK'
  BY <1>1, <1>3 DEF IInv, TypeOK
<1>5. \A j \in Kind : objects[j] \subseteq objects'[j]
  BY <1>1, Types
<1>6. IsFiniteSet(objects[k] \union {n})
  BY FS_AddElement DEF IInv, DocumentIsFinite
<1>7. \A j \in Kind : IsFiniteSet(objects'[j])
  BY <1>1, <1>6, Types DEF IInv, DocumentIsFinite
<1>8. \A c \in Calls, j \in Kind : lasting'[c][j] \subseteq objects'[j]
  BY <1>1, <1>5 DEF IInv, DocumentIsFinite
<1>9. DocumentIsFinite'
  BY <1>1, <1>2, <1>7, <1>8 DEF IInv, DocumentIsFinite
<1>10. ASSUME NEW d \in Calls
       PROVE  CallInv(d)'
  <2>1. CallInv(d) /\ Untouched(d)
    BY <1>1 DEF IInv, CallInv, Untouched
  <2> QED
    BY <2>1, UntouchedKept
<1>11. \A d \in Calls : Itinerary(d)' /\ InPass(d)' /\ Returned(d)' /\ Vouched(d)'
  BY <1>10 DEF CallInv
<1> QED
  BY <1>4, <1>9, <1>11 DEF IInv

\* What is deleted does not last: less is owed to every call.
LEMMA DeleteKeeps ==
  ASSUME IInv, NEW k \in Kind, NEW n \in objects[k], Delete(k, n)
  PROVE  IInv'
PROOF
<1>1. /\ edits' = edits + 1
      /\ objects' = [objects EXCEPT ![k] = objects[k] \ {n}]
      /\ lasting' = [c \in Calls |-> [lasting[c] EXCEPT ![k] = lasting[c][k] \ {n}]]
      /\ UNCHANGED <<tool, pc, todo, size, token, collected, expired, found, result, schema>>
  BY DEF Delete, listing
<1>2. /\ edits \in Nat /\ objects \in [Kind -> SUBSET Nat]
      /\ \A j \in Kind : IsFiniteSet(objects[j])
      /\ lasting \in [Calls -> [Kind -> SUBSET Nat]]
      /\ \A c \in Calls, j \in Kind : lasting[c][j] \subseteq objects[j]
  BY DEF IInv, TypeOK, DocumentIsFinite
<1>3. objects' \in [Kind -> SUBSET Nat] /\ edits' \in Nat
  BY <1>1, <1>2
<1>4. TypeOK'
  BY <1>1, <1>3 DEF IInv, TypeOK
<1>5. /\ lasting' \in [Calls -> [Kind -> SUBSET Nat]]
      /\ \A c \in Calls, j \in Kind :
           lasting'[c][j] = IF j = k THEN lasting[c][j] \ {n} ELSE lasting[c][j]
  BY <1>1, <1>2
<1>6. \A j \in Kind : objects'[j] = IF j = k THEN objects[j] \ {n} ELSE objects[j]
  BY <1>1, <1>2
<1>7. IsFiniteSet(objects[k] \ {n})
  BY <1>2, FS_RemoveElement
<1>8. \A j \in Kind : IsFiniteSet(objects'[j])
  BY <1>2, <1>6, <1>7
<1>9. \A c \in Calls, j \in Kind : lasting'[c][j] \subseteq objects'[j]
  BY <1>2, <1>5, <1>6
<1>10. DocumentIsFinite'
  BY <1>3, <1>5, <1>8, <1>9 DEF DocumentIsFinite
<1>11. \A c \in Calls, j \in Kind : lasting'[c][j] \subseteq lasting[c][j]
  BY <1>5
<1>12. ASSUME NEW d \in Calls
       PROVE  Itinerary(d)' /\ InPass(d)' /\ Returned(d)' /\ Vouched(d)'
  <2>1. Itinerary(d) /\ InPass(d) /\ Returned(d) /\ Vouched(d)
    BY DEF IInv
  <2>2. Itinerary(d)'
    BY <1>1, <2>1 DEF Itinerary
  <2>3. Now(d)' = Now(d) /\ (Capped(d)' <=> Capped(d))
    BY <1>1 DEF Now, Capped
  <2>4. pc[d] \in {"loop", "flight"} => lasting'[d][Now(d)] \subseteq lasting[d][Now(d)]
    BY <1>11, InAListing
  <2>5. InPass(d)'
    BY <1>1, <2>1, <2>3, <2>4 DEF InPass
  <2>6. lasting'[d]["rows"] \subseteq lasting[d]["rows"]
    BY <1>11 DEF Kind
  <2>7. Returned(d)'
    BY <1>1, <2>1, <2>6 DEF Returned
  <2>8. \A g \in Guarded : lasting'[d][g] \subseteq lasting[d][g]
    BY <1>11 DEF Kind, Guarded
  <2>9. \A g \in Guarded : Seen(d, g) => Seen(d, g)'
    BY <1>1, <2>8 DEF Seen
  <2>10. Vouched(d)'
    <3>1. tool' = tool /\ pc' = pc /\ todo' = todo /\ expired' = expired /\ found' = found
      BY <1>1
    <3>2. pc[d] = "sent" /\ tool[d] = "overwrite_page" =>
            \A g \in Guarded : lasting'[d][g] \intersect Owned = {}
      BY <2>1, <2>8 DEF Vouched
    <3> QED
      BY <2>1, <2>9, <3>1, <3>2 DEF Vouched
  <2> QED
    BY <2>2, <2>5, <2>7, <2>10
<1> QED
  BY <1>4, <1>10, <1>12 DEF IInv

-----------------------------------------------------------------------------
(* The theorems *)

LEMMA InitHolds == Init => IInv
PROOF
<1> SUFFICES ASSUME Init PROVE IInv
  OBVIOUS
<1>1. \A k \in Kind : First[k] \in Nat /\ 1 .. First[k] \subseteq Nat
  BY Words
<1>2. \A k \in Kind : IsFiniteSet(1 .. First[k])
  BY <1>1, FS_Interval
<1>3. << >> \in Seq(Kind) /\ << >> \in Seq(Nat) /\ PageSize \in Floor .. PageSize
  BY Words
<1>4. TypeOK
  BY <1>1, <1>3, Words DEF Init, TypeOK
<1>5. DocumentIsFinite
  BY <1>2 DEF Init, DocumentIsFinite
<1>6. ASSUME NEW c \in Calls
      PROVE  Itinerary(c) /\ InPass(c) /\ Returned(c) /\ Vouched(c)
  <2>1. /\ pc[c] = "idle" /\ collected[c] = << >> /\ result[c] = None /\ tool[c] = None
    BY DEF Init
  <2>2. Increasing(collected[c])
    BY <2>1 DEF Increasing
  <2> QED
    BY <2>1, <2>2 DEF Itinerary, InPass, Returned, Vouched
<1> QED
  BY <1>4, <1>5, <1>6 DEF IInv

LEMMA StutterKeeps == IInv /\ UNCHANGED vars => IInv'
PROOF
<1> SUFFICES ASSUME IInv, UNCHANGED vars PROVE IInv'
  OBVIOUS
<1>1. UNCHANGED <<objects, edits, tool, pc, todo, size, token, collected, expired,
                  found, result, schema, lasting>>
  BY DEF vars
<1>2. TypeOK'
  BY <1>1 DEF IInv, TypeOK
<1>3. DocumentIsFinite'
  BY <1>1, DocumentStays
<1>4. ASSUME NEW d \in Calls
      PROVE  Itinerary(d)' /\ InPass(d)' /\ Returned(d)' /\ Vouched(d)'
  <2>1. CallInv(d) /\ Untouched(d)
    BY <1>1 DEF IInv, CallInv, Untouched
  <2> QED
    BY <2>1, UntouchedKept DEF CallInv
<1> QED
  BY <1>2, <1>3, <1>4 DEF IInv

\* Every step of every call, of its clock and of the document's editors keeps
\* the invariant.
THEOREM InvariantHolds == Spec => []IInv
PROOF
<1>1. IInv /\ Next => IInv'
  <2> SUFFICES ASSUME IInv, Next PROVE IInv'
    OBVIOUS
  <2>1. CASE \E c \in Calls : \/ \E t \in Tools : Start(c, t)
                              \/ Step(c)
                              \/ Expire(c)
    <3> PICK c \in Calls : \/ \E t \in Tools : Start(c, t)
                           \/ Step(c)
                           \/ Expire(c)
      BY <2>1
    <3>1. CASE \E t \in Tools : Start(c, t)
      BY <3>1, StartKeeps
    <3>2. CASE Expire(c)
      BY <3>2, ExpireKeeps
    <3>3. CASE Cached(c)
      BY <3>3, CachedKeeps
    <3>4. CASE BeginListing(c)
      BY <3>4, BeginListingKeeps
    <3>5. CASE CutShort(c)
      BY <3>5, CutShortKeeps
    <3>6. CASE Send(c)
      BY <3>6, SendKeeps
    <3>7. CASE Refused(c)
      BY <3>7, RaiseKeeps DEF Refused
    <3>8. CASE Answered(c)
      BY <3>8, AnsweredKeeps
    <3>9. CASE RequestFails(c)
      BY <3>9, RaiseKeeps DEF RequestFails
    <3>10. CASE GatewayTimeout(c)
      BY <3>10, GatewayTimeoutKeeps
    <3>11. CASE WriteSent(c)
      BY <3>11, WriteSentKeeps
    <3>12. CASE WriteRefused(c)
      BY <3>12, RaiseKeeps DEF WriteRefused
    <3> QED
      BY <3>1, <3>2, <3>3, <3>4, <3>5, <3>6, <3>7, <3>8, <3>9, <3>10, <3>11, <3>12
      DEF Step
  <2>2. CASE \E k \in Edited : Add(k) \/ \E n \in objects[k] : Delete(k, n)
    BY <2>2, AddKeeps, DeleteKeeps DEF Edited
  <2> QED
    BY <2>1, <2>2 DEF Next
<1>2. IInv /\ [Next]_vars => IInv'
  BY <1>1, StutterKeeps
<1> QED
  BY InitHolds, <1>2, PTL DEF Spec

\* Every variable keeps its type; in particular the ladder never asks for a
\* page below the floor.
THEOREM TypeCorrect == Spec => []TypeOK
PROOF
<1>1. IInv => TypeOK
  BY DEF IInv
<1> QED
  BY <1>1, InvariantHolds, PTL

\* A listing called complete that the cap did not end holds every row that was
\* there throughout the call, whatever was restarted, added or deleted.
THEOREM CompleteListingsAreWhole == Spec => []CompleteMeansWhole
PROOF
<1>1. IInv => CompleteMeansWhole
  BY DEF IInv, Returned, CompleteMeansWhole
<1> QED
  BY <1>1, InvariantHolds, PTL

\* No row comes twice or out of order, in hand or returned, and no answer is
\* longer than its caller's cap.
THEOREM EveryRowComesOnce == Spec => []RowsComeOnce
PROOF
<1>1. IInv => RowsComeOnce
  <2> SUFFICES ASSUME IInv, NEW c \in Calls
               PROVE  LET rows == IF result[c] # None THEN result[c].rows ELSE collected[c] IN
                        /\ \A i, j \in DOMAIN rows : i < j => rows[i] < rows[j]
                        /\ result[c] # None => Len(rows) <= Limit
    BY DEF RowsComeOnce
  <2>1. Increasing(collected[c]) /\ Returned(c)
    BY DEF IInv, InPass
  <2>2. CASE result[c] # None
    BY <2>1, <2>2 DEF Returned, Increasing
  <2>3. CASE result[c] = None
    BY <2>1, <2>3 DEF Increasing
  <2> QED
    BY <2>2, <2>3
<1> QED
  BY <1>1, InvariantHolds, PTL

\* An unforced page write goes out only over a page that owned nothing hidden
\* all along: dropping a listing's `complete` costs the guard nothing.
THEOREM TheGuardMissesNothing == Spec => []GuardMissesNothing
PROOF
<1>1. IInv => GuardMissesNothing
  BY DEF IInv, Vouched, Guarded, GuardMissesNothing
<1> QED
  BY <1>1, InvariantHolds, PTL
-----------------------------------------------------------------------------
(* Every call runs out of listings *)

\* A step of a call ends it or a listing of it, begins a listing, starts the
\* pass again with smaller pages, leaves fewer objects to list, or asks for
\* the next page.
Advances(c) ==
  \/ pc'[c] \in {"sent", "returned", "raised"}
  \/ todo[c] # << >> /\ todo'[c] = Tail(todo[c])
  \/ todo'[c] = todo[c] /\ pc[c] = "lookup" /\ pc'[c] = "loop"
  \/ /\ todo'[c] = todo[c] /\ pc[c] = "flight" /\ pc'[c] = "loop"
     /\ \/ size'[c] < size[c]
        \/ size'[c] = size[c] /\ After(c)' \subseteq After(c) /\ After(c)' # After(c)
  \/ /\ todo'[c] = todo[c] /\ pc[c] = "loop" /\ pc'[c] = "flight"
     /\ size'[c] = size[c] /\ After(c)' = After(c)

LEMMA AnsweredAdvances ==
  ASSUME IInv, NEW c \in Calls, Answered(c)
  PROVE  Advances(c)
PROOF
<1>0. pc[c] = "flight" /\ \E n \in 1 .. Asked(c) : PageArrives(c, Page(c, n))
  BY DEF Answered
<1>1. pc[c] = "flight" /\ todo[c] # << >>
  BY <1>0, InAListing
<1> PICK given \in 1 .. Asked(c) : PageArrives(c, Page(c, given))
  BY <1>0
<1> DEFINE page == Page(c, given)
           rows == collected[c] \o page
<1>2. CASE Deliver(c, rows, TRUE)
  BY <1>1, <1>2, Types DEF Deliver, Advances
<1>3. CASE /\ Len(page) # Cardinality(After(c))
           /\ pc' = [pc EXCEPT ![c] = "loop"]
           /\ token' = [token EXCEPT ![c] = Last(page)]
           /\ UNCHANGED <<objects, todo, size>>
  <2>1. Last(page) \in Nat /\ Last(page) \in After(c)
    BY <1>1, <1>3, TheNextPage
  <2> HIDE DEF page
  <2>2. /\ token'[c] = Last(page) /\ pc'[c] = "loop"
        /\ token[c] \in Nat \union {None} /\ Now(c)' = Now(c)
    BY <1>3, Types DEF Now
  <2>3. Now(c) \in Kind
    BY <1>1, InAListing
  <2>4. objects[Now(c)] \subseteq Nat
    BY <2>3, Types
  <2>5. After(c)' = {n \in objects[Now(c)] : n > Last(page)}
    <3>1. Last(page) # None
      BY <2>1, Words
    <3> QED
      BY <1>3, <2>2, <3>1 DEF After
  <2>6. After(c)' \subseteq After(c)
    <3> SUFFICES ASSUME NEW n \in objects[Now(c)], n > Last(page), token[c] # None
                 PROVE  n > token[c]
      BY <2>5 DEF After
    <3>1. token[c] \in Nat /\ Last(page) > token[c] /\ n \in Nat
      BY <2>1, <2>2, <2>4 DEF After
    <3> QED
      BY <2>1, <3>1
  <2>7. Last(page) \notin After(c)'
    BY <2>1, <2>5
  <2> QED
    BY <1>1, <1>3, <2>1, <2>2, <2>6, <2>7 DEF Advances
<1> QED
  BY <1>2, <1>3 DEF PageArrives, doc

LEMMA StepAdvances ==
  ASSUME IInv, NEW c \in Calls, Step(c)
  PROVE  Advances(c)
PROOF
<1>1. CASE Cached(c)
  BY <1>1, InAListing, Types DEF Cached, Advances
<1>2. CASE BeginListing(c)
  BY <1>2, Types DEF BeginListing, Advances
<1>3. CASE CutShort(c)
  <2>1. pc[c] = "loop" /\ todo[c] # << >>
    BY <1>3, InAListing DEF CutShort
  <2> QED
    BY <1>3, <2>1, Types DEF CutShort, Deliver, Advances
<1>4. CASE Send(c)
  <2>1. /\ pc[c] = "loop" /\ pc'[c] = "flight"
        /\ UNCHANGED <<objects, todo, size, token>>
    BY <1>4, Types DEF Send, doc, listing
  <2> QED
    BY <2>1 DEF Advances, After, Now
<1>5. CASE Refused(c) \/ RequestFails(c) \/ WriteRefused(c)
  BY <1>5, Types DEF Refused, RequestFails, WriteRefused, Raise, Advances
<1>6. CASE Answered(c)
  BY <1>6, AnsweredAdvances
<1>7. CASE GatewayTimeout(c)
  <2>1. CASE Raise(c)
    BY <2>1, Types DEF Raise, Advances
  <2>2. CASE Restart(c) /\ pc' = [pc EXCEPT ![c] = "loop"] /\ UNCHANGED todo
    <3>1. size[c] \in Floor .. PageSize
      BY DEF IInv, TypeOK
    <3>2. size'[c] = size[c] \div 2 /\ size[c] \in Nat \ {0}
      <4>1. size'[c] = size[c] \div 2
        BY <2>2, Types DEF Restart
      <4> QED
        BY <3>1, <4>1, Words
    <3>3. size'[c] < size[c]
      BY <3>2
    <3> QED
      BY <1>7, <2>2, <3>3, Types DEF GatewayTimeout, Advances
  <2> QED
    BY <1>7, <2>1, <2>2 DEF GatewayTimeout
<1>8. CASE WriteSent(c)
  BY <1>8, Types DEF WriteSent, Advances
<1> QED
  BY <1>1, <1>2, <1>3, <1>4, <1>5, <1>6, <1>7, <1>8 DEF Step

\* No listing goes round in circles, whatever is refused, restarted or edited:
\* each step of a call advances it, along a page size with a floor and a finite
\* number of objects still to list, which only an addition by others raises.
THEOREM ListingsAdvance ==
  Spec => /\ [](\A c \in Calls : pc[c] \in {"loop", "flight"} => IsFiniteSet(After(c)))
          /\ [][\A c \in Calls : Step(c) => Advances(c)]_vars
PROOF
<1>1. IInv => \A c \in Calls : pc[c] \in {"loop", "flight"} => IsFiniteSet(After(c))
  <2> SUFFICES ASSUME IInv, NEW c \in Calls, pc[c] \in {"loop", "flight"}
               PROVE  IsFiniteSet(After(c))
    OBVIOUS
  <2>1. IsFiniteSet(objects[Now(c)])
    BY InAListing DEF IInv, DocumentIsFinite
  <2>2. After(c) \in SUBSET objects[Now(c)]
    BY DEF After
  <2> QED
    BY <2>1, <2>2, FS_Subset
<1>2. IInv /\ [Next]_vars => [\A c \in Calls : Step(c) => Advances(c)]_vars
  BY StepAdvances
<1> QED
  BY InvariantHolds, <1>1, <1>2, PTL DEF Spec
=============================================================================
