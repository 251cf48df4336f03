----------------------------- MODULE TextProofs -----------------------------
(***************************************************************************)
(* What holds of every text, of every header and of every log, of whatever *)
(* length.                                                                 *)
(***************************************************************************)
EXTENDS Text, SequenceTheorems, WellFoundedInduction, TLAPS

TextInv ==
    /\ text \in Seq(Letters)
    /\ header \in Seq(Preferences)
    /\ log \in Seq({"a", "\n"})

(* Whatever grows is a sequence of what it may be made of.                   *)
LEMMA InvText == Spec => []TextInv
<1>1. Init => TextInv
  BY DEF Init, TextInv
<1>2. TextInv /\ [Next]_vars => TextInv'
  <2> SUFFICES ASSUME TextInv, [Next]_vars PROVE TextInv'
    OBVIOUS
  <2>1. ASSUME NEW c \in Letters, Type(c) PROVE TextInv'
    BY <2>1 DEF TextInv, Type
  <2>2. ASSUME NEW p \in Preferences, Ask(p) PROVE TextInv'
    BY <2>2 DEF TextInv, Ask
  <2>3. ASSUME NEW c \in {"a", "\n"}, Write(c) PROVE TextInv'
    BY <2>3 DEF TextInv, Write
  <2>4. CASE UNCHANGED vars
    BY <2>4 DEF TextInv, vars
  <2> QED
    BY <2>1, <2>2, <2>3, <2>4 DEF Next
<1> QED
  BY <1>1, <1>2, PTL DEF Spec

-----------------------------------------------------------------------------
(* Numbers and sequences.                                                  *)

(* A set of numbers has a least one.                                       *)
LEMMA LeastOne ==
    ASSUME NEW T \in SUBSET Nat, T # {}
    PROVE  \E m \in T : \A n \in T : m <= n
<1> DEFINE R == {ss \in Nat \X Nat : ss[1] < ss[2]}
<1>1. R = OpToRel(<, Nat)
  BY Zenon DEF OpToRel
<1>2. IsWellFoundedOn(R, Nat)
  BY <1>1, NatLessThanWellFounded
<1>3. \A x, y \in Nat : <<y, x>> \notin R => x <= y
  OBVIOUS
<1> HIDE DEF R
<1>4. \E x \in T : \A y \in T : ~(<<y, x>> \in R)
  BY <1>2, WFMin
<1> QED
  BY <1>3, <1>4

(* What holds of 0, and of a number whenever it holds of the one before, up*)
(* to a bound, holds of every number up to there.                          *)
LEMMA UpTo ==
    ASSUME NEW N \in Nat, NEW T, 0 \in T, \A k \in 0..N : k # 0 /\ k - 1 \in T => k \in T
    PROVE  0..N \subseteq T
<1> DEFINE B == (0..N) \ T
<1>1. SUFFICES ASSUME B # {} PROVE FALSE
  OBVIOUS
<1>2. PICK m \in B : \A n \in B : m <= n
  <2>1. B \in SUBSET Nat
    OBVIOUS
  <2> QED
    BY <1>1, <2>1, LeastOne
<1>3. m \in 0..N /\ m \notin T /\ m # 0
  OBVIOUS
<1>4. m - 1 \in 0..N /\ ~(m <= m - 1)
  BY <1>3
<1>5. m - 1 \in T
  BY <1>2, <1>4
<1> QED
  BY <1>3, <1>5

(* The first index with a property is one, and 0 says that there is none.  *)
LEMMA FirstIndex ==
    ASSUME NEW I \in SUBSET Nat
    PROVE  /\ (IF I # {} THEN Min(I) ELSE 0) \in I \cup {0}
           /\ I # {} => Min(I) \in I /\ \A i \in I : Min(I) <= i
<1>1. CASE I # {}
  <2>1. \E m \in I : \A n \in I : m <= n
    BY <1>1, LeastOne
  <2>2. Min(I) \in I /\ \A i \in I : Min(I) <= i
    BY <2>1 DEF Min
  <2> QED
    BY <2>2
<1> QED
  BY <1>1

(* A set of numbers with a bound has a greatest one.                        *)
LEMMA GreatestOne ==
    ASSUME NEW N \in Nat, NEW T \in SUBSET (1..N), T # {}
    PROVE  \E m \in T : \A n \in T : m >= n
<1> DEFINE B == {k \in 0..N : N - k \in T}
<1>1. B \in SUBSET Nat /\ B # {}
  <2>1. PICK x \in T : TRUE
    OBVIOUS
  <2>2. N - x \in 0..N /\ N - (N - x) = x
    BY <2>1
  <2>3. N - x \in B
    BY <2>1, <2>2
  <2>4. B \in SUBSET Nat
    OBVIOUS
  <2> HIDE DEF B
  <2> QED
    BY <2>3, <2>4
<1>2. PICK k \in B : \A l \in B : k <= l
  <2> HIDE DEF B
  <2> QED
    BY <1>1, LeastOne
<1>3. ASSUME NEW n \in T PROVE N - k >= n
  <2>1. N - n \in 0..N /\ N - (N - n) = n
    OBVIOUS
  <2>2. N - n \in B
    BY <2>1
  <2> QED
    BY <1>2, <2>1, <2>2
<1> QED
  BY <1>2, <1>3

(* Max is that one.                                                        *)
LEMMA GreatestIsMax ==
    ASSUME NEW N \in Nat, NEW T \in SUBSET (1..N), T # {}
    PROVE  Max(T) \in T /\ \A n \in T : Max(T) >= n
<1>1. \E m \in T : \A n \in T : m >= n
  BY GreatestOne
<1> QED
  BY <1>1 DEF Max

(* Two sequences, one behind the other.                                    *)
LEMMA JoinIs ==
    ASSUME NEW S, NEW s \in Seq(S), NEW t \in Seq(S)
    PROVE  /\ s \o t \in Seq(S) /\ Len(s \o t) = Len(s) + Len(t)
           /\ \A i \in 1..Len(s) : (s \o t)[i] = s[i]
           /\ \A i \in 1..Len(t) : (s \o t)[Len(s) + i] = t[i]
<1>1. Len(s) \in Nat /\ Len(t) \in Nat
  OBVIOUS
<1>2. s \o t \in Seq(S) /\ Len(s \o t) = Len(s) + Len(t)
  OBVIOUS
<1>3. \A i \in 1..Len(s) : (s \o t)[i] = s[i]
  BY <1>1
<1>4. \A i \in 1..Len(t) : (s \o t)[Len(s) + i] = t[i]
  BY <1>1
<1> QED
  BY <1>2, <1>3, <1>4

(* A preference put in at a place.                                         *)
Inserted(s, at, e, t) ==
    /\ t \in Seq(Preferences) /\ Len(t) = Len(s) + 1
    /\ \A j \in 1..at - 1 : t[j] = s[j]
    /\ t[at] = e
    /\ \A j \in at + 1..Len(s) + 1 : t[j] = s[j - 1]

LEMMA InsertIs ==
    ASSUME NEW s \in Seq(Preferences), NEW e \in Preferences, NEW at \in 1..Len(s) + 1
    PROVE  Inserted(s, at, e, InsertAt(s, at, e))
<1> DEFINE a == SubSeq(s, 1, at - 1)
           b == SubSeq(s, at, Len(s))
           t == InsertAt(s, at, e)
<1>1. /\ a \in Seq(Preferences) /\ Len(a) = at - 1
      /\ \A j \in 1..at - 1 : a[j] = s[j]
  OBVIOUS
<1>2. /\ b \in Seq(Preferences) /\ Len(b) = Len(s) - at + 1
      /\ \A j \in 1..Len(b) : b[j] = s[at + j - 1]
  OBVIOUS
<1> DEFINE ae == a \o <<e>>
<1>3. t = ae \o b
  BY DEF InsertAt
<1> HIDE DEF a, b, t
<1>4. /\ ae \in Seq(Preferences) /\ Len(ae) = at
      /\ \A j \in 1..at - 1 : ae[j] = s[j]
      /\ ae[at] = e
  BY <1>1
<1> HIDE DEF ae
<1>5. /\ t \in Seq(Preferences) /\ Len(t) = Len(s) + 1
      /\ \A j \in 1..at : t[j] = ae[j]
      /\ \A j \in 1..Len(b) : t[at + j] = b[j]
  <2>1. /\ t \in Seq(Preferences) /\ Len(t) = Len(ae) + Len(b)
        /\ \A j \in 1..Len(ae) : t[j] = ae[j]
        /\ \A j \in 1..Len(b) : t[Len(ae) + j] = b[j]
    BY <1>2, <1>3, <1>4, JoinIs
  <2> QED
    BY <1>2, <1>4, <2>1
<1>6. ASSUME NEW j \in at + 1..Len(s) + 1 PROVE t[j] = s[j - 1]
  <2>1. j - at \in 1..Len(b) /\ j = at + (j - at) /\ at + (j - at) - 1 = j - 1
    BY <1>2
  <2>2. t[at + (j - at)] = b[j - at] /\ b[j - at] = s[at + (j - at) - 1]
    BY <1>2, <1>5, <2>1
  <2> QED
    BY <2>1, <2>2
<1> QED
  BY <1>4, <1>5, <1>6 DEF t, Inserted

-----------------------------------------------------------------------------
(* Languages.                                                              *)

(* Preferences are sorted one after the other: there is the sequence of    *)
(* what is sorted so far.                                                  *)
SortedInSteps(prefs, sorted) ==
    /\ sorted[0] = <<>>
    /\ \A i \in 1..Len(prefs) : sorted[i] = Placed(sorted[i - 1], prefs[i])
    /\ Sorted(prefs) = sorted[Len(prefs)]

(* This recursive function exists.                                         *)
LEMMA SortedSteps ==
    ASSUME NEW S, NEW prefs \in Seq(S)
    PROVE  \E sorted : SortedInSteps(prefs, sorted)
<1> DEFINE F(t, i) == Placed(t, prefs[i])
           Way(k, g) == g = [i \in 0..k |-> IF i = 0 THEN <<>> ELSE F(g[i - 1], i)]
           sorted == CHOOSE g : Way(Len(prefs), g)
           T == {k \in 0..Len(prefs) : \E g : Way(k, g)}
<1>1. Sorted(prefs) = sorted[Len(prefs)]
  BY DEF Sorted
<1>2. \A t, i : F(t, i) = Placed(t, prefs[i])
  OBVIOUS
<1>3. Len(prefs) \in Nat
  OBVIOUS
<1> HIDE DEF F, sorted
<1>4. 0 \in T
  <2> DEFINE g == [i \in 0..0 |-> <<>>]
  <2>1. Way(0, g)
    OBVIOUS
  <2> HIDE DEF g, Way
  <2>2. 0 \in 0..Len(prefs) /\ \E gg : Way(0, gg)
    BY <1>3, <2>1
  <2> QED
    BY <2>2
<1>5. ASSUME NEW k \in 0..Len(prefs), k # 0, k - 1 \in T PROVE k \in T
  <2>1. PICK g : Way(k - 1, g)
    BY <1>5
  <2> DEFINE h == [i \in 0..k |-> IF i = k THEN F(g[k - 1], k) ELSE g[i]]
  <2>2. \A i \in 0..k - 1 : g[i] = IF i = 0 THEN <<>> ELSE F(g[i - 1], i)
    BY <2>1
  <2>3. \A i \in 0..k - 1 : h[i] = g[i]
    BY <1>5
  <2>4. h[k] = F(h[k - 1], k)
    <3>1. k \in 0..k /\ k - 1 \in 0..k - 1
      BY <1>5
    <3> QED
      BY <2>3, <3>1
  <2>5. ASSUME NEW i \in 0..k PROVE h[i] = IF i = 0 THEN <<>> ELSE F(h[i - 1], i)
    <3>1. CASE i = k
      BY <1>5, <2>4, <3>1
    <3>2. CASE i # k
      <4>1. i \in 0..k - 1 /\ (i # 0 => i - 1 \in 0..k - 1)
        BY <1>5, <3>2
      <4> QED
        BY <2>2, <2>3, <4>1
    <3> QED
      BY <3>1, <3>2
  <2>6. h = [i \in 0..k |-> h[i]]
    OBVIOUS
  <2> HIDE DEF h
  <2>7. Way(k, h)
    BY <2>5, <2>6
  <2> QED
    BY <2>7
<1> HIDE DEF T
<1>6. 0..Len(prefs) \subseteq T
  BY <1>3, <1>4, <1>5, UpTo
<1>7. \E g : Way(Len(prefs), g)
  <2>1. Len(prefs) \in T
    BY <1>3, <1>6
  <2> QED
    BY <2>1 DEF T
<1>8. Way(Len(prefs), sorted)
  <2> HIDE DEF Way
  <2> QED
    BY <1>7, Zenon DEF sorted
<1>9. sorted[0] = <<>>
  BY <1>3, <1>8
<1>10. ASSUME NEW i \in 1..Len(prefs)
       PROVE  sorted[i] = Placed(sorted[i - 1], prefs[i])
  <2>1. sorted[i] = F(sorted[i - 1], i)
    BY <1>3, <1>8
  <2> QED
    BY <1>2, <2>1
<1>11. SortedInSteps(prefs, sorted)
  BY <1>1, <1>9, <1>10 DEF SortedInSteps
<1> QED
  BY <1>11

(* Weights are numbers, as the assumption on the constants has it.         *)
LEMMA WeightsAreNumbers == \A x \in Preferences : x.q \in Nat
<1>1. Weights \subseteq Nat
  BY LanguagesAssumption, Zenon DEF LanguagesAssumption
<1>2. \A x \in Preferences : x.q \in Weights
  BY DEF Preferences
<1> QED
  BY <1>1, <1>2

(* Two numbers that another one keeps apart.                               *)
LEMMA Apart == \A x, y, z \in Nat : x < y => x <= y /\ (y <= z => x <= z)
OBVIOUS

Falling(s) == \A i, j \in DOMAIN s : i <= j => s[j].q <= s[i].q

(* A preference comes behind all that weigh as much, before all others.    *)
LEMMA PlacedIs ==
    ASSUME NEW s \in Seq(Preferences), NEW p \in Preferences, Falling(s)
    PROVE  LET t == Placed(s, p)
           IN  /\ t \in Seq(Preferences) /\ Len(t) = Len(s) + 1
               /\ \E at \in 1..Len(s) + 1 :
                     /\ \A j \in 1..at - 1 : t[j] = s[j] /\ p.q <= s[j].q
                     /\ t[at] = p
                     /\ \A j \in at + 1..Len(s) + 1 : t[j] = s[j - 1] /\ s[j - 1].q < p.q
<1> DEFINE I == {i \in 1..Len(s) : s[i].q < p.q}
           place == PlaceOf(s, p.q)
           t == Placed(s, p)
<1>1. p.q \in Nat /\ \A i \in 1..Len(s) : s[i].q \in Nat
  BY WeightsAreNumbers
<1>2. I \in SUBSET Nat
  OBVIOUS
<1>3. place = IF I # {} THEN Min(I) ELSE 0
  BY DEF PlaceOf, SelectInSeq
<1> HIDE DEF place
<1>4. place \in I \cup {0} /\ (I # {} => place \in I /\ \A i \in I : place <= i)
  BY <1>2, <1>3, FirstIndex
<1>5. CASE place = 0
  <2>1. I = {}
    BY <1>4, <1>5
  <2>2. t = Append(s, p)
    BY <1>5 DEF Placed, place
  <2>3. \A j \in 1..Len(s) : p.q <= s[j].q
    BY <1>1, <2>1
  <2>4. /\ t \in Seq(Preferences) /\ Len(t) = Len(s) + 1 /\ t[Len(s) + 1] = p
        /\ \A j \in 1..Len(s) : t[j] = s[j]
    BY <2>2
  <2>5. Len(s) + 1 \in 1..Len(s) + 1 /\ Len(s) + 1 - 1 = Len(s)
    OBVIOUS
  <2> HIDE DEF t, I
  <2> QED
    BY <2>3, <2>4, <2>5 DEF t
<1>6. CASE place # 0
  <2>1. place \in I /\ place \in 1..Len(s) + 1
    BY <1>4, <1>6
  <2>2. t = InsertAt(s, place, p)
    BY <1>6 DEF Placed, place
  <2>3. \A j \in 1..place - 1 : p.q <= s[j].q
    BY <1>1, <1>4, <2>1
  <2>4. \A j \in place + 1..Len(s) + 1 : s[j - 1].q < p.q
    <3> SUFFICES ASSUME NEW j \in place + 1..Len(s) + 1 PROVE s[j - 1].q < p.q
      OBVIOUS
    <3>1. j - 1 \in DOMAIN s /\ place \in DOMAIN s /\ place <= j - 1
      BY <2>1
    <3>2. s[j - 1].q <= s[place].q /\ s[place].q < p.q
      BY <2>1, <3>1 DEF Falling
    <3> QED
      BY <1>1, <3>1, <3>2
  <2>5. /\ t \in Seq(Preferences) /\ Len(t) = Len(s) + 1
        /\ \A j \in 1..place - 1 : t[j] = s[j]
        /\ t[place] = p
        /\ \A j \in place + 1..Len(s) + 1 : t[j] = s[j - 1]
    <3> HIDE DEF I, t
    <3>1. place \in 1..Len(s) + 1
      BY <2>1
    <3>2. Inserted(s, place, p, t)
      BY <2>2, <3>1, InsertIs
    <3> QED
      BY <3>2 DEF Inserted
  <2> HIDE DEF t, I
  <2> QED
    BY <2>1, <2>3, <2>4, <2>5 DEF t
<1> QED
  BY <1>5, <1>6

(* Of the first k preferences, i is the one to go by.                      *)
Best(prefs, k, i) ==
    /\ i \in 1..k /\ Has(prefs[i].tag)
    /\ \A j \in 1..k : Has(prefs[j].tag)
          => prefs[j].q <= prefs[i].q /\ (prefs[j].q = prefs[i].q => i <= j)

FirstAnswered(s, f) ==
    /\ f \in 1..Len(s) /\ Has(s[f].tag)
    /\ \A g \in 1..f - 1 : ~Has(s[g].tag)

(* What is sorted falls, and the first in it that there is a catalog for   *)
(* is the one to go by.                                                    *)
SortedInv(prefs, k, s) ==
    /\ s \in Seq(Preferences) /\ Falling(s)
    /\ \/ /\ \A j \in 1..k : ~Has(prefs[j].tag)
          /\ \A g \in 1..Len(s) : ~Has(s[g].tag)
       \/ \E i, f \in Nat : Best(prefs, k, i) /\ FirstAnswered(s, f) /\ s[f] = prefs[i]

(* The next preference, put in its place, keeps this so.                   *)
LEMMA PlacedKeepsInv ==
    ASSUME NEW prefs \in Seq(Preferences), NEW k \in 1..Len(prefs), NEW s,
           SortedInv(prefs, k - 1, s)
    PROVE  SortedInv(prefs, k, Placed(s, prefs[k]))
<1> DEFINE p == prefs[k]
           t == Placed(s, p)
<1>1. s \in Seq(Preferences) /\ Falling(s) /\ p \in Preferences
  BY DEF SortedInv
<1>2. PICK at \in 1..Len(s) + 1 :
        /\ \A j \in 1..at - 1 : t[j] = s[j] /\ p.q <= s[j].q
        /\ t[at] = p
        /\ \A j \in at + 1..Len(s) + 1 : t[j] = s[j - 1] /\ s[j - 1].q < p.q
  BY <1>1, PlacedIs
<1>3. t \in Seq(Preferences) /\ Len(t) = Len(s) + 1
  BY <1>1, PlacedIs
<1>4. \A x \in Preferences : x.q \in Nat
  BY WeightsAreNumbers
<1>5. p.q \in Nat /\ \A j \in 1..Len(s) : s[j].q \in Nat
  BY <1>1, <1>4
<1> HIDE DEF p, t
<1>6. Falling(t)
  <2> SUFFICES ASSUME NEW i \in 1..Len(t), NEW j \in 1..Len(t), i <= j PROVE t[j].q <= t[i].q
    BY <1>3 DEF Falling
  <2>1. \A g, h \in 1..Len(s) : g <= h => s[h].q <= s[g].q
    BY <1>1 DEF Falling
  <2>2. CASE i < at
    <3>1. i \in 1..at - 1 /\ i \in 1..Len(s)
      BY <1>3, <2>2
    <3>2. CASE j < at
      <4>1. j \in 1..at - 1 /\ j \in 1..Len(s)
        BY <1>3, <3>2
      <4>2. t[i] = s[i] /\ t[j] = s[j]
        BY <1>2, <3>1, <4>1
      <4>3. s[j].q <= s[i].q
        BY <2>1, <3>1, <4>1
      <4> QED
        BY <4>2, <4>3
    <3>3. CASE j = at
      BY <1>2, <3>1, <3>3
    <3>4. CASE at < j
      <4>1. j \in at + 1..Len(s) + 1 /\ j - 1 \in 1..Len(s)
        BY <1>3, <3>4
      <4> QED
        <5>1. t[i] = s[i] /\ p.q <= s[i].q /\ t[j] = s[j - 1] /\ s[j - 1].q < p.q
          BY <1>2, <3>1, <4>1
        <5>2. s[i].q \in Nat /\ s[j - 1].q \in Nat /\ p.q \in Nat
          BY <1>5, <3>1, <4>1
        <5>3. s[j - 1].q <= s[i].q
          BY <5>1, <5>2, Apart
        <5> QED
          BY <5>1, <5>3
    <3> QED
      BY <1>3, <3>2, <3>3, <3>4
  <2>3. CASE i = at
    <3>1. CASE j = at
      BY <1>2, <1>5, <2>3, <3>1
    <3>2. CASE at < j
      <4>1. j \in at + 1..Len(s) + 1 /\ j - 1 \in 1..Len(s)
        BY <1>3, <3>2
      <4>2. t[i] = p /\ t[j] = s[j - 1] /\ s[j - 1].q < p.q
        BY <1>2, <2>3, <4>1
      <4>3. s[j - 1].q <= p.q
        <5>1. s[j - 1].q \in Nat /\ p.q \in Nat
          BY <1>5, <4>1
        <5> QED
          BY <4>2, <5>1, Apart
      <4> QED
        BY <4>2, <4>3
    <3> QED
      BY <1>3, <2>3, <3>1, <3>2
  <2>4. CASE at < i
    <3>1. /\ i \in at + 1..Len(s) + 1 /\ i - 1 \in 1..Len(s)
          /\ j \in at + 1..Len(s) + 1 /\ j - 1 \in 1..Len(s)
          /\ i - 1 <= j - 1
      BY <1>3, <2>4
    <3> QED
      BY <1>2, <2>1, <3>1
  <2> QED
    BY <1>3, <2>2, <2>3, <2>4
<1>7. /\ \A g \in 1..Len(s) : ~Has(s[g].tag)
      /\ \A j \in 1..k - 1 : ~Has(prefs[j].tag)
      => \/ /\ \A j \in 1..k : ~Has(prefs[j].tag)
            /\ \A g \in 1..Len(t) : ~Has(t[g].tag)
         \/ Best(prefs, k, k) /\ FirstAnswered(t, at) /\ t[at] = prefs[k]
  <2> SUFFICES ASSUME \A g \in 1..Len(s) : ~Has(s[g].tag),
                      \A j \in 1..k - 1 : ~Has(prefs[j].tag)
               PROVE  \/ /\ \A j \in 1..k : ~Has(prefs[j].tag)
                         /\ \A g \in 1..Len(t) : ~Has(t[g].tag)
                      \/ Best(prefs, k, k) /\ FirstAnswered(t, at) /\ t[at] = prefs[k]
    OBVIOUS
  <2>1. \A g \in 1..Len(t) : g # at => ~Has(t[g].tag)
    <3> SUFFICES ASSUME NEW g \in 1..Len(t), g # at PROVE ~Has(t[g].tag)
      OBVIOUS
    <3>1. CASE g < at
      <4>1. g \in 1..at - 1 /\ g \in 1..Len(s)
        BY <1>3, <3>1
      <4> QED
        BY <1>2, <4>1
    <3>2. CASE at < g
      <4>1. g \in at + 1..Len(s) + 1 /\ g - 1 \in 1..Len(s)
        BY <1>3, <3>2
      <4> QED
        BY <1>2, <4>1
    <3> QED
      BY <1>3, <3>1, <3>2
  <2>2. at \in 1..Len(t) /\ t[at] = p /\ p = prefs[k]
    BY <1>2, <1>3 DEF p
  <2>3. \A j \in 1..k : j = k \/ j \in 1..k - 1
    OBVIOUS
  <2>4. CASE Has(p.tag)
    <3>1. Best(prefs, k, k)
      BY <1>5, <2>2, <2>3, <2>4 DEF Best
    <3>2. FirstAnswered(t, at)
      <4>1. \A g \in 1..at - 1 : g \in 1..Len(t) /\ g # at
        BY <1>3
      <4> QED
        BY <2>1, <2>2, <2>4, <4>1 DEF FirstAnswered
    <3> QED
      BY <2>2, <3>1, <3>2
  <2>5. CASE ~Has(p.tag)
    BY <2>1, <2>2, <2>3, <2>5
  <2> QED
    BY <2>4, <2>5
<1>8. ASSUME NEW i \in Nat, NEW f \in Nat,
             Best(prefs, k - 1, i), FirstAnswered(s, f), s[f] = prefs[i]
      PROVE  \E i2, f2 \in Nat : Best(prefs, k, i2) /\ FirstAnswered(t, f2) /\ t[f2] = prefs[i2]
  <2>1. /\ f \in 1..Len(s) /\ Has(s[f].tag)
        /\ \A g \in 1..f - 1 : ~Has(s[g].tag)
    BY <1>8 DEF FirstAnswered
  <2>2. /\ i \in 1..k - 1 /\ Has(prefs[i].tag)
        /\ \A j \in 1..k - 1 : Has(prefs[j].tag)
             => prefs[j].q <= prefs[i].q /\ (prefs[j].q = prefs[i].q => i <= j)
    BY <1>8 DEF Best
  <2>3. \A j \in 1..k : prefs[j].q \in Nat
    BY <1>4
  <2>4. \A j \in 1..k : j = k \/ j \in 1..k - 1
    OBVIOUS
  <2>5. \A g, h \in 1..Len(s) : g <= h => s[h].q <= s[g].q
    BY <1>1 DEF Falling
  <2>6. CASE Has(p.tag) /\ prefs[i].q < p.q
    <3>1. at <= f
      <4>1. SUFFICES ASSUME f < at PROVE FALSE
        BY <2>1
      <4>2. f \in 1..at - 1
        BY <2>1, <4>1
      <4> QED
        BY <1>2, <1>5, <1>8, <2>1, <2>6, <4>2
    <3>2. FirstAnswered(t, at)
      <4>1. \A g \in 1..at - 1 : g \in 1..f - 1 /\ t[g] = s[g]
        BY <1>2, <2>1, <3>1
      <4> QED
        BY <1>2, <1>3, <2>1, <2>6, <4>1 DEF FirstAnswered
    <3>3. Best(prefs, k, k)
      <4>1. SUFFICES ASSUME NEW j \in 1..k, Has(prefs[j].tag)
                     PROVE  prefs[j].q <= prefs[k].q /\ (prefs[j].q = prefs[k].q => k <= j)
        BY <2>6 DEF Best, p
      <4>2. CASE j = k
        BY <2>3, <4>2
      <4>3. CASE j \in 1..k - 1
        <5>1. prefs[j].q <= prefs[i].q /\ prefs[i].q < prefs[k].q
          BY <2>2, <2>6, <4>1, <4>3 DEF p
        <5>2. prefs[j].q \in Nat /\ prefs[i].q \in Nat /\ prefs[k].q \in Nat
          BY <2>2, <2>3
        <5> QED
          BY <5>1, <5>2, SMTT(30)
      <4> QED
        BY <2>4, <4>2, <4>3
    <3> QED
      BY <1>2, <3>2, <3>3 DEF p
  <2>7. CASE ~(Has(p.tag) /\ prefs[i].q < p.q)
    <3>1. Best(prefs, k, i)
      <4>1. SUFFICES ASSUME NEW j \in 1..k, Has(prefs[j].tag)
                     PROVE  prefs[j].q <= prefs[i].q /\ (prefs[j].q = prefs[i].q => i <= j)
        BY <2>2 DEF Best
      <4>2. CASE j = k
        <5>1. ~(prefs[i].q < p.q) /\ p = prefs[k]
          BY <2>7, <4>1, <4>2 DEF p
        <5> QED
          BY <2>2, <2>3, <4>2, <5>1
      <4>3. CASE j \in 1..k - 1
        BY <2>2, <4>1, <4>3
      <4> QED
        BY <2>4, <4>2, <4>3
    <3>2. CASE f < at
      <4>1. FirstAnswered(t, f) /\ t[f] = s[f]
        <5>1. f \in 1..at - 1 /\ f \in 1..Len(t) /\ \A g \in 1..f - 1 : g \in 1..at - 1
          BY <1>3, <2>1, <3>2
        <5> QED
          BY <1>2, <2>1, <5>1 DEF FirstAnswered
      <4> QED
        BY <1>8, <3>1, <4>1
    <3>3. CASE at <= f
      <4>1. ~Has(p.tag)
        <5>1. f + 1 \in at + 1..Len(s) + 1 /\ f + 1 - 1 = f
          BY <2>1, <3>3
        <5>2. s[f].q < p.q
          BY <1>2, <5>1
        <5> QED
          BY <1>8, <2>7, <5>2
      <4>2. t[f + 1] = s[f] /\ f + 1 \in 1..Len(t)
        <5>1. f + 1 \in at + 1..Len(s) + 1 /\ f + 1 - 1 = f
          BY <2>1, <3>3
        <5> QED
          BY <1>2, <1>3, <5>1
      <4>3. ASSUME NEW g \in 1..f PROVE ~Has(t[g].tag)
        <5>1. CASE g < at
          <6>1. g \in 1..at - 1 /\ g \in 1..f - 1
            BY <3>3, <5>1
          <6> QED
            BY <1>2, <2>1, <6>1
        <5>2. CASE g = at
          BY <1>2, <4>1, <5>2
        <5>3. CASE at < g
          <6>1. g \in at + 1..Len(s) + 1 /\ g - 1 \in 1..f - 1
            BY <2>1, <5>3
          <6> QED
            BY <1>2, <2>1, <6>1
        <5> QED
          BY <5>1, <5>2, <5>3
      <4>4. FirstAnswered(t, f + 1)
        <5>1. f + 1 - 1 = f
          OBVIOUS
        <5> QED
          BY <2>1, <4>2, <4>3, <5>1 DEF FirstAnswered
      <4>5. f + 1 \in Nat
        OBVIOUS
      <4> QED
        BY <1>8, <3>1, <4>2, <4>4, <4>5
    <3>4. f < at \/ at <= f
      BY <2>1
    <3> QED
      BY <3>2, <3>3, <3>4, Zenon
  <2> QED
    BY <2>6, <2>7, Zenon
<1>9. at \in Nat /\ k \in Nat
  OBVIOUS
<1>10. \/ /\ \A j \in 1..k : ~Has(prefs[j].tag)
           /\ \A g \in 1..Len(t) : ~Has(t[g].tag)
       \/ \E i, f \in Nat : Best(prefs, k, i) /\ FirstAnswered(t, f) /\ t[f] = prefs[i]
  BY <1>7, <1>8, <1>9 DEF SortedInv
<1>11. SortedInv(prefs, k, t)
  BY <1>3, <1>6, <1>10 DEF SortedInv
<1> QED
  BY <1>11 DEF t, p

(* So it is of all that is sorted.                                         *)
LEMMA SortedIs ==
    ASSUME NEW prefs \in Seq(Preferences)
    PROVE  SortedInv(prefs, Len(prefs), Sorted(prefs))
<1>1. PICK sorted : SortedInSteps(prefs, sorted)
  BY SortedSteps
<1>2. /\ sorted[0] = <<>>
      /\ \A i \in 1..Len(prefs) : sorted[i] = Placed(sorted[i - 1], prefs[i])
      /\ Sorted(prefs) = sorted[Len(prefs)]
  BY <1>1 DEF SortedInSteps
<1> DEFINE T == {k \in 0..Len(prefs) : SortedInv(prefs, k, sorted[k])}
<1>3. Len(prefs) \in Nat
  OBVIOUS
<1>4. 0 \in T
  <2>1. <<>> \in Seq(Preferences) /\ Falling(<<>>)
    BY DEF Falling
  <2>2. SortedInv(prefs, 0, <<>>)
    BY <2>1 DEF SortedInv
  <2> QED
    BY <1>2, <1>3, <2>2
<1>5. ASSUME NEW k \in 0..Len(prefs), k # 0, k - 1 \in T PROVE k \in T
  <2>1. k \in 1..Len(prefs) /\ SortedInv(prefs, k - 1, sorted[k - 1])
    BY <1>5
  <2>2. SortedInv(prefs, k, sorted[k])
    BY <1>2, <2>1, PlacedKeepsInv
  <2> QED
    BY <2>2
<1> HIDE DEF T
<1>6. Len(prefs) \in T
  <2>1. 0..Len(prefs) \subseteq T
    BY <1>3, <1>4, <1>5, UpTo
  <2> QED
    BY <1>3, <2>1
<1> QED
  BY <1>2, <1>6 DEF T

(* Of a header's preferences that a catalog answers, the one to go by is   *)
(* taken, without its region.                                              *)
MatchOf(h, match) ==
    \/ (\A j \in DOMAIN h : ~Has(Base[h[j].tag])) /\ match = NoTag
    \/ \E i \in DOMAIN h :
          /\ Has(Base[h[i].tag]) /\ match = Base[h[i].tag]
          /\ \A j \in DOMAIN h : Has(Base[h[j].tag])
                => h[j].q <= h[i].q /\ (h[j].q = h[i].q => i <= j)

LEMMA MatchIs ==
    ASSUME NEW h \in Seq(Preferences)
    PROVE  MatchOf(h, MatchHeader(h))
<1> DEFINE prefs == [i \in DOMAIN h |-> [h[i] EXCEPT !.tag = Base[@]]]
           sorted == Sorted(prefs)
           I == {g \in 1..Len(sorted) : Has(sorted[g].tag)}
           first == IF I # {} THEN Min(I) ELSE 0
<1>1. \A x \in Preferences :
        /\ [x EXCEPT !.tag = Base[@]] \in Preferences
        /\ [x EXCEPT !.tag = Base[@]].tag = Base[x.tag] /\ [x EXCEPT !.tag = Base[@]].q = x.q
  <2>1. Base \in [Tags -> Tags]
    BY LanguagesAssumption, Zenon DEF LanguagesAssumption
  <2> QED
    BY <2>1 DEF Preferences
<1>2. \A j \in DOMAIN h : h[j] \in Preferences
  OBVIOUS
<1>3. /\ prefs \in Seq(Preferences) /\ Len(prefs) = Len(h)
      /\ \A j \in DOMAIN h : prefs[j] = [h[j] EXCEPT !.tag = Base[@]]
  <2>1. Len(h) \in Nat /\ DOMAIN h = 1..Len(h)
    OBVIOUS
  <2>2. prefs \in [1..Len(h) -> Preferences]
    BY <1>1, <1>2, <2>1
  <2> QED
    BY <2>1, <2>2
<1>4. \A j \in DOMAIN h : prefs[j].tag = Base[h[j].tag] /\ prefs[j].q = h[j].q
  BY <1>1, <1>2, <1>3
<1>5. MatchHeader(h) = IF first = 0 THEN NoTag ELSE sorted[first].tag
  BY DEF MatchHeader, SelectInSeq
<1> HIDE DEF prefs
<1>6. SortedInv(prefs, Len(prefs), sorted)
  BY <1>3, SortedIs
<1> HIDE DEF sorted
<1>7. first \in I \cup {0} /\ (I # {} => Min(I) \in I /\ \A g \in I : Min(I) <= g)
  <2>1. I \in SUBSET Nat
    OBVIOUS
  <2> HIDE DEF I
  <2> QED
    BY <2>1, FirstIndex
<1>8. CASE \A g \in 1..Len(sorted) : ~Has(sorted[g].tag)
  <2>1. first = 0
    BY <1>7, <1>8
  <2>2. \A j \in 1..Len(prefs) : ~Has(prefs[j].tag)
    <3>1. ASSUME NEW f, FirstAnswered(sorted, f) PROVE FALSE
      BY <1>8, <3>1 DEF FirstAnswered
    <3> QED
      BY <1>6, <3>1 DEF SortedInv
  <2>3. \A j \in DOMAIN h : ~Has(Base[h[j].tag])
    BY <1>3, <1>4, <2>2
  <2> QED
    BY <1>5, <2>1, <2>3 DEF MatchOf
<1>9. CASE ~ \A g \in 1..Len(sorted) : ~Has(sorted[g].tag)
  <2>1. PICK i \in Nat, f \in Nat :
          Best(prefs, Len(prefs), i) /\ FirstAnswered(sorted, f) /\ sorted[f] = prefs[i]
    BY <1>6, <1>9 DEF SortedInv
  <2>2. f \in I /\ \A g \in I : f <= g
    <3>1. f \in I
      BY <2>1 DEF FirstAnswered
    <3>2. ASSUME NEW g \in I PROVE f <= g
      <4>1. SUFFICES ASSUME g < f PROVE FALSE
        BY <3>1
      <4>2. g \in 1..f - 1
        BY <4>1
      <4> QED
        BY <2>1, <4>2 DEF FirstAnswered
    <3> QED
      BY <3>1, <3>2
  <2>3. first = f /\ f # 0
    <3>1. first \in I /\ first <= f /\ f <= first /\ f # 0
      BY <1>7, <2>2
    <3> HIDE DEF first
    <3> QED
      BY <3>1
  <2>4. MatchHeader(h) = prefs[i].tag
    <3> HIDE DEF first
    <3> QED
      BY <1>5, <2>1, <2>3
  <2>5. /\ i \in DOMAIN h /\ Has(prefs[i].tag)
        /\ \A j \in DOMAIN h : Has(prefs[j].tag)
             => prefs[j].q <= prefs[i].q /\ (prefs[j].q = prefs[i].q => i <= j)
    BY <1>3, <2>1 DEF Best
  <2>6. /\ Has(Base[h[i].tag]) /\ MatchHeader(h) = Base[h[i].tag]
        /\ \A j \in DOMAIN h : Has(Base[h[j].tag])
             => h[j].q <= h[i].q /\ (h[j].q = h[i].q => i <= j)
    BY <1>4, <2>4, <2>5
  <2> QED
    BY <2>5, <2>6 DEF MatchOf
<1> QED
  BY <1>8, <1>9

(* Whatever a browser sends, however long: a page is in a language there   *)
(* is a catalog for, the reader's before the browser's before the          *)
(* instance's, and of the browser's one that weighs most, the first of     *)
(* these, unless that is one for a region with a catalog of its own, or    *)
(* weighs nothing (i18n.go:98-145).                                        *)
THEOREM LanguagesFit == Spec => []LanguageChosen
<1>1. ASSUME TextInv, NEW cookie, NEW deflt
      PROVE  LET t == Pick(cookie, header, deflt)
             IN  /\ Has(t)
                 /\ Has(cookie) => t = cookie
                 /\ ~Has(cookie) => \A i \in DOMAIN header :
                       Foremost(i) /\ header[i].q # 0 => t \in Fits(i) \/ Regional(header[i].tag)
                 /\ ~Has(cookie) /\ Answered = {} /\ Has(deflt) => t = deflt
  <2> DEFINE match == MatchHeader(header)
             t == Pick(cookie, header, deflt)
             asked == IF Has(cookie) THEN cookie
                      ELSE IF match # NoTag THEN match
                      ELSE IF Has(deflt) THEN deflt ELSE DefaultTag
  <2>1. MatchOf(header, match)
    BY <1>1, MatchIs DEF TextInv
  <2>2. Has(DefaultTag) /\ ~Has(NoTag)
    BY LanguagesAssumption, Zenon DEF LanguagesAssumption, Has
  <2>3. t = IF Has(asked) THEN asked ELSE DefaultTag
    BY Zenon DEF Pick, Locale
  <2> HIDE DEF match, t
  <2>4. Has(t) /\ (Has(cookie) => t = cookie)
    <3>1. Has(match) \/ match = NoTag
      BY <2>1 DEF MatchOf
    <3> QED
      BY <2>2, <2>3, <3>1 DEF t
  <2>5. ASSUME ~Has(cookie), Answered = {}, Has(deflt)
        PROVE  t = deflt
    <3>1. \A i \in DOMAIN header : ~Has(Base[header[i].tag])
      BY <2>5 DEF Answered, Fits, Has
    <3>2. match = NoTag
      BY <2>1, <3>1 DEF MatchOf
    <3> QED
      BY <2>3, <2>5, <3>2 DEF t
  <2>6. ASSUME ~Has(cookie), NEW k \in DOMAIN header, Foremost(k), ~Regional(header[k].tag)
        PROVE  t \in Fits(k)
    <3>1. Has(Base[header[k].tag])
      BY <2>6 DEF Foremost, Answered, Fits, Regional, Has
    <3>2. PICK i \in DOMAIN header :
            /\ Has(Base[header[i].tag]) /\ match = Base[header[i].tag]
            /\ \A j \in DOMAIN header : Has(Base[header[j].tag])
                  => header[j].q <= header[i].q /\ (header[j].q = header[i].q => i <= j)
      BY <2>1, <3>1 DEF MatchOf
    <3>3. i \in Answered
      BY <3>2 DEF Answered, Fits, Has
    <3>4. i = k
      <4>1. header[i].q <= header[k].q /\ (header[i].q = header[k].q => k <= i)
        BY <2>6, <3>3 DEF Foremost
      <4>2. header[k].q <= header[i].q /\ (header[k].q = header[i].q => i <= k)
        BY <3>1, <3>2
      <4>3. header[i].q \in Nat /\ header[k].q \in Nat /\ i \in Nat /\ k \in Nat
        BY <1>1, WeightsAreNumbers DEF TextInv
      <4> QED
        BY <4>1, <4>2, <4>3
    <3>5. Has(match) /\ match # NoTag
      BY <2>2, <3>2
    <3>6. t = match
      BY <2>3, <2>6, <3>5 DEF t
    <3> QED
      BY <3>1, <3>2, <3>4, <3>6 DEF Fits, Has
  <2> QED
    BY <2>4, <2>5, <2>6 DEF t
<1>2. TextInv => LanguageChosen
  BY <1>1, Zenon DEF LanguageChosen
<1> QED
  BY <1>2, InvText, PTL

-----------------------------------------------------------------------------
(* The log.                                                                *)

(* A text is split one letter after the other: there is the sequence of    *)
(* the pieces so far.                                                      *)
SplitInSteps(s, sep, pieces) ==
    /\ pieces[0] = << <<>> >>
    /\ \A i \in 1..Len(s) : pieces[i] = Piece(pieces[i - 1], s[i], sep)
    /\ SplitAt(s, sep) = pieces[Len(s)]

(* This one exists, too.                                                   *)
LEMMA SplitSteps ==
    ASSUME NEW S, NEW s \in Seq(S), NEW sep
    PROVE  \E pieces : SplitInSteps(s, sep, pieces)
<1> DEFINE F(t, i) == Piece(t, s[i], sep)
           Way(k, g) == g = [i \in 0..k |-> IF i = 0 THEN << <<>> >> ELSE F(g[i - 1], i)]
           pieces == CHOOSE g : Way(Len(s), g)
           T == {k \in 0..Len(s) : \E g : Way(k, g)}
<1>1. SplitAt(s, sep) = pieces[Len(s)]
  BY DEF SplitAt
<1>2. \A t, i : F(t, i) = Piece(t, s[i], sep)
  OBVIOUS
<1>3. Len(s) \in Nat
  OBVIOUS
<1> HIDE DEF F, pieces
<1>4. 0 \in T
  <2> DEFINE g == [i \in 0..0 |-> << <<>> >>]
  <2>1. Way(0, g)
    OBVIOUS
  <2> HIDE DEF g, Way
  <2>2. 0 \in 0..Len(s) /\ \E gg : Way(0, gg)
    BY <1>3, <2>1
  <2> QED
    BY <2>2
<1>5. ASSUME NEW k \in 0..Len(s), k # 0, k - 1 \in T PROVE k \in T
  <2>1. PICK g : Way(k - 1, g)
    BY <1>5
  <2> DEFINE h == [i \in 0..k |-> IF i = k THEN F(g[k - 1], k) ELSE g[i]]
  <2>2. \A i \in 0..k - 1 : g[i] = IF i = 0 THEN << <<>> >> ELSE F(g[i - 1], i)
    BY <2>1
  <2>3. \A i \in 0..k - 1 : h[i] = g[i]
    BY <1>5
  <2>4. h[k] = F(h[k - 1], k)
    <3>1. k \in 0..k /\ k - 1 \in 0..k - 1
      BY <1>5
    <3> QED
      BY <2>3, <3>1
  <2>5. ASSUME NEW i \in 0..k PROVE h[i] = IF i = 0 THEN << <<>> >> ELSE F(h[i - 1], i)
    <3>1. CASE i = k
      BY <1>5, <2>4, <3>1
    <3>2. CASE i # k
      <4>1. i \in 0..k - 1 /\ (i # 0 => i - 1 \in 0..k - 1)
        BY <1>5, <3>2
      <4> QED
        BY <2>2, <2>3, <4>1
    <3> QED
      BY <3>1, <3>2
  <2>6. h = [i \in 0..k |-> h[i]]
    OBVIOUS
  <2> HIDE DEF h
  <2>7. Way(k, h)
    BY <2>5, <2>6
  <2> QED
    BY <2>7
<1> HIDE DEF T
<1>6. 0..Len(s) \subseteq T
  BY <1>3, <1>4, <1>5, UpTo
<1>7. \E g : Way(Len(s), g)
  <2>1. Len(s) \in T
    BY <1>3, <1>6
  <2> QED
    BY <2>1 DEF T
<1>8. Way(Len(s), pieces)
  <2> HIDE DEF Way
  <2> QED
    BY <1>7, Zenon DEF pieces
<1>9. pieces[0] = << <<>> >>
  BY <1>3, <1>8
<1>10. ASSUME NEW i \in 1..Len(s)
       PROVE  pieces[i] = Piece(pieces[i - 1], s[i], sep)
  <2>1. pieces[i] = F(pieces[i - 1], i)
    BY <1>3, <1>8
  <2> QED
    BY <1>2, <2>1
<1>11. SplitInSteps(s, sep, pieces)
  BY <1>1, <1>9, <1>10 DEF SplitInSteps
<1> QED
  BY <1>11

(* Another letter leaves all pieces but the last alone.                    *)
LEMMA PieceIs ==
    ASSUME NEW S, NEW d \in Seq(Seq(S)), d # <<>>, NEW c \in S, NEW sep
    PROVE  /\ Piece(d, c, sep) \in Seq(Seq(S)) /\ Piece(d, c, sep) # <<>>
           /\ \A a \in Seq(Seq(S)) : Piece(a \o d, c, sep) = a \o Piece(d, c, sep)
<1> DEFINE X == Seq(S)
<1>1. <<>> \in X /\ \A w \in X : Append(w, c) \in X
  OBVIOUS
<1>2. d \in Seq(X)
  OBVIOUS
<1>3. Piece(d, c, sep) = IF c = sep THEN Append(d, <<>>) ELSE Append(Front(d), Append(Last(d), c))
  BY DEF Piece
<1>4. ASSUME NEW a \in Seq(X)
      PROVE  Piece(a \o d, c, sep) = IF c = sep THEN Append(a \o d, <<>>)
                                     ELSE Append(Front(a \o d), Append(Last(a \o d), c))
  BY DEF Piece
<1> HIDE DEF X
<1>5. Front(d) \in Seq(X) /\ Last(d) \in X
  BY <1>2 DEF Front, Last
<1>6. Piece(d, c, sep) \in Seq(X) /\ Piece(d, c, sep) # <<>>
  <2>1. CASE c = sep
    BY <1>1, <1>2, <1>3, <2>1
  <2>2. CASE c # sep
    <3>1. Append(Last(d), c) \in X
      BY <1>1, <1>5
    <3>2. \A u \in Seq(X), w \in X : Append(u, w) \in Seq(X) /\ Append(u, w) # <<>>
      BY AppendProperties
    <3> QED
      BY <1>3, <1>5, <2>2, <3>1, <3>2
  <2> QED
    BY <2>1, <2>2
<1>7. ASSUME NEW a \in Seq(X) PROVE Piece(a \o d, c, sep) = a \o Piece(d, c, sep)
  <2>1. \A u \in Seq(X), w \in X : Append(a \o u, w) = a \o Append(u, w)
    <3> SUFFICES ASSUME NEW u \in Seq(X), NEW w \in X PROVE Append(a \o u, w) = a \o Append(u, w)
      OBVIOUS
    <3>1. a \o u \in Seq(X) /\ <<w>> \in Seq(X)
      OBVIOUS
    <3>2. Append(a \o u, w) = (a \o u) \o <<w>> /\ Append(u, w) = u \o <<w>>
      BY <3>1, AppendIsConcat
    <3>3. (a \o u) \o <<w>> = a \o (u \o <<w>>)
      <4> DEFINE e == <<w>>
      <4>1. a \in Seq(X) /\ u \in Seq(X) /\ e \in Seq(X)
        BY <3>1
      <4> HIDE DEF e
      <4>2. (a \o u) \o e = a \o (u \o e)
        BY <4>1, ConcatAssociative
      <4> QED
        BY <4>2 DEF e
    <3> QED
      BY <3>2, <3>3
  <2>2. Front(a \o d) = a \o Front(d)
    BY <1>2, SMTT(30) DEF Front
  <2>3. Last(a \o d) = Last(d)
    BY <1>2 DEF Last
  <2>4. CASE c = sep
    BY <1>1, <1>2, <1>3, <1>4, <2>1, <2>4
  <2>5. CASE c # sep
    <3>1. Append(Last(d), c) \in X
      BY <1>1, <1>5
    <3> QED
      BY <1>3, <1>4, <1>5, <2>1, <2>2, <2>3, <2>5, <3>1
  <2> QED
    BY <2>4, <2>5
<1> QED
  BY <1>6, <1>7 DEF X

(* There is always a piece.                                                *)
LEMMA SplitIs ==
    ASSUME NEW S, NEW s \in Seq(S), NEW sep
    PROVE  SplitAt(s, sep) \in Seq(Seq(S)) /\ SplitAt(s, sep) # <<>>
<1>1. PICK pieces : SplitInSteps(s, sep, pieces)
  BY SplitSteps
<1> DEFINE T == {k \in 0..Len(s) : pieces[k] \in Seq(Seq(S)) /\ pieces[k] # <<>>}
<1>2. /\ pieces[0] = << <<>> >>
      /\ \A i \in 1..Len(s) : pieces[i] = Piece(pieces[i - 1], s[i], sep)
      /\ SplitAt(s, sep) = pieces[Len(s)]
  BY <1>1 DEF SplitInSteps
<1>3. Len(s) \in Nat
  OBVIOUS
<1>4. 0 \in T
  <2>1. << <<>> >> \in Seq(Seq(S)) /\ << <<>> >> # <<>>
    OBVIOUS
  <2>2. pieces[0] \in Seq(Seq(S)) /\ pieces[0] # <<>>
    BY <1>2, <2>1, Zenon
  <2>3. 0 \in 0..Len(s)
    BY <1>3
  <2> QED
    BY <2>2, <2>3
<1>5. ASSUME NEW k \in 0..Len(s), k # 0, k - 1 \in T PROVE k \in T
  <2>1. k \in 1..Len(s) /\ s[k] \in S
    BY <1>5
  <2>2. pieces[k - 1] \in Seq(Seq(S)) /\ pieces[k - 1] # <<>>
    BY <1>5
  <2>3. pieces[k] \in Seq(Seq(S)) /\ pieces[k] # <<>>
    BY <1>2, <2>1, <2>2, PieceIs
  <2> QED
    BY <2>3
<1> HIDE DEF T
<1>6. Len(s) \in T
  <2>1. 0..Len(s) \subseteq T
    BY <1>3, <1>4, <1>5, UpTo
  <2> QED
    BY <1>3, <2>1
<1> QED
  BY <1>2, <1>6 DEF T

(* What is split in two places is split in the one, then in the other.     *)
LEMMA SplitBoth ==
    ASSUME NEW S, NEW s \in Seq(S), NEW q \in 1..Len(s), NEW e \in q..Len(s)
    PROVE  SplitAt(SubSeq(s, 1, e), s[q]) =
             SplitAt(SubSeq(s, 1, q - 1), s[q]) \o SplitAt(SubSeq(s, q + 1, e), s[q])
<1> DEFINE sep == s[q]
           w == SubSeq(s, 1, e)
           x == SubSeq(s, 1, q - 1)
           y == SubSeq(s, q + 1, e)
<1>1. /\ w \in Seq(S) /\ Len(w) = e /\ \A i \in 1..e : w[i] = s[i]
      /\ x \in Seq(S) /\ Len(x) = q - 1 /\ \A i \in 1..q - 1 : x[i] = s[i]
      /\ y \in Seq(S) /\ Len(y) = e - q /\ \A i \in 1..e - q : y[i] = s[q + i]
  OBVIOUS
<1>2. sep \in S
  OBVIOUS
<1> HIDE DEF w, x, y, sep
<1>3. PICK F : SplitInSteps(w, sep, F)
  BY <1>1, SplitSteps
<1>4. PICK G : SplitInSteps(x, sep, G)
  BY <1>1, SplitSteps
<1>5. PICK H : SplitInSteps(y, sep, H)
  BY <1>1, SplitSteps
<1>6. /\ F[0] = << <<>> >> /\ SplitAt(w, sep) = F[e]
      /\ \A i \in 1..e : F[i] = Piece(F[i - 1], s[i], sep)
  BY <1>1, <1>3 DEF SplitInSteps
<1>7. /\ G[0] = << <<>> >> /\ SplitAt(x, sep) = G[q - 1]
      /\ \A i \in 1..q - 1 : G[i] = Piece(G[i - 1], s[i], sep)
  BY <1>1, <1>4 DEF SplitInSteps
<1>8. /\ H[0] = << <<>> >> /\ SplitAt(y, sep) = H[e - q]
      /\ \A i \in 1..e - q : H[i] = Piece(H[i - 1], s[q + i], sep)
  BY <1>1, <1>5 DEF SplitInSteps
<1>9. F[q - 1] = G[q - 1]
  <2> DEFINE T == {k \in 0..q - 1 : F[k] = G[k]}
  <2>1. q - 1 \in Nat /\ 0 \in T
    <3>1. F[0] = G[0]
      BY <1>6, <1>7
    <3>2. q - 1 \in Nat /\ 0 \in 0..q - 1
      OBVIOUS
    <3> QED
      BY <3>1, <3>2
  <2>2. ASSUME NEW k \in 0..q - 1, k # 0, k - 1 \in T PROVE k \in T
    <3>1. k \in 1..q - 1 /\ k \in 1..e /\ F[k - 1] = G[k - 1]
      BY <2>2
    <3> QED
      BY <1>6, <1>7, <3>1
  <2> HIDE DEF T
  <2>3. 0..q - 1 \subseteq T
    BY <2>1, <2>2, UpTo
  <2>4. q - 1 \in T
    BY <2>1, <2>3
  <2> QED
    BY <2>4 DEF T
<1> DEFINE A == SplitAt(x, sep)
<1>10. A \in Seq(Seq(S)) /\ A # <<>>
  BY <1>1, SplitIs
<1>11. F[q] = A \o H[0]
  <2>1. q \in 1..e /\ s[q] = sep
    BY DEF sep
  <2>2. F[q] = Append(A, <<>>)
    BY <1>6, <1>7, <1>9, <2>1 DEF Piece
  <2> HIDE DEF A
  <2>3. Append(A, <<>>) = A \o << <<>> >>
    BY <1>10
  <2> QED
    BY <1>8, <2>2, <2>3
<1> HIDE DEF A
<1> DEFINE T == {k \in 0..e - q : /\ F[q + k] = A \o H[k]
                                 /\ H[k] \in Seq(Seq(S)) /\ H[k] # <<>>}
<1>12. 0 \in T /\ e - q \in Nat
  <2>1. << <<>> >> \in Seq(Seq(S)) /\ << <<>> >> # <<>>
    OBVIOUS
  <2>2. H[0] \in Seq(Seq(S)) /\ H[0] # <<>>
    BY <1>8, <2>1, Zenon
  <2>3. q + 0 = q /\ 0 \in 0..e - q /\ e - q \in Nat
    OBVIOUS
  <2> QED
    BY <1>11, <2>2, <2>3
<1>13. ASSUME NEW k \in 0..e - q, k # 0, k - 1 \in T PROVE k \in T
  <2>1. k \in 1..e - q /\ q + k \in 1..e /\ q + k - 1 = q + (k - 1) /\ s[q + k] \in S
    BY <1>13
  <2>2. F[q + (k - 1)] = A \o H[k - 1] /\ H[k - 1] \in Seq(Seq(S)) /\ H[k - 1] # <<>>
    BY <1>13
  <2>3. F[q + k] = Piece(A \o H[k - 1], s[q + k], sep)
    <3>1. F[q + k] = Piece(F[q + k - 1], s[q + k], sep)
      <4>1. \A i \in 1..e : F[i] = Piece(F[i - 1], s[i], sep)
        BY <1>6, Zenon
      <4> QED
        BY <2>1, <4>1
    <3> QED
      BY <2>1, <2>2, <3>1
  <2>4. H[k] = Piece(H[k - 1], s[q + k], sep)
    BY <1>8, <2>1
  <2> DEFINE d == H[k - 1]
             c == s[q + k]
  <2>5. d \in Seq(Seq(S)) /\ d # <<>> /\ c \in S
    BY <2>1, <2>2
  <2> HIDE DEF d, c
  <2>6. /\ Piece(d, c, sep) \in Seq(Seq(S)) /\ Piece(d, c, sep) # <<>>
        /\ Piece(A \o d, c, sep) = A \o Piece(d, c, sep)
    BY <1>10, <2>5, PieceIs, SMTT(30)
  <2>7. F[q + k] = A \o H[k] /\ H[k] \in Seq(Seq(S)) /\ H[k] # <<>>
    BY <2>3, <2>4, <2>6 DEF d, c
  <2> QED
    BY <2>7
<1> HIDE DEF T
<1>14. e - q \in T
  <2>1. 0..e - q \subseteq T
    BY <1>12, <1>13, UpTo
  <2> QED
    BY <1>12, <2>1
<1>15. F[e] = A \o H[e - q]
  <2>1. q + (e - q) = e
    OBVIOUS
  <2> QED
    BY <1>14, <2>1 DEF T
<1> QED
  BY <1>6, <1>8, <1>15 DEF A, w, x, y, sep

(* What ends another text is a suffix of it.                               *)
LEMMA EndIsSuffix ==
    ASSUME NEW X, NEW s \in Seq(X), NEW t \in Seq(X), Len(s) <= Len(t),
           \A i \in 1..Len(s) : s[i] = t[Len(t) - Len(s) + i]
    PROVE  IsSuffix(s, t)
<1> DEFINE r == Reverse(s)
           v == Reverse(t)
<1>1. /\ r \in Seq(X) /\ Len(r) = Len(s)
      /\ \A i \in 1..Len(s) : r[i] = s[Len(s) - i + 1]
  BY DEF Reverse
<1>2. /\ v \in Seq(X) /\ Len(v) = Len(t)
      /\ \A i \in 1..Len(t) : v[i] = t[Len(t) - i + 1]
  BY DEF Reverse
<1> HIDE DEF r, v
<1>3. ASSUME NEW i \in 1..Len(s) PROVE r[i] = v[i]
  <2>1. Len(s) - i + 1 \in 1..Len(s) /\ Len(t) - Len(s) + (Len(s) - i + 1) = Len(t) - i + 1
    OBVIOUS
  <2>2. s[Len(s) - i + 1] = t[Len(t) - i + 1]
    BY <2>1
  <2> QED
    BY <1>1, <1>2, <2>2
<1>4. SubSeq(r, 1, Len(r)) = SubSeq(v, 1, Len(r))
  <2>1. /\ SubSeq(r, 1, Len(r)) \in Seq(X) /\ Len(SubSeq(r, 1, Len(r))) = Len(s)
        /\ \A i \in 1..Len(s) : SubSeq(r, 1, Len(r))[i] = r[i]
    BY <1>1
  <2>2. /\ SubSeq(v, 1, Len(r)) \in Seq(X) /\ Len(SubSeq(v, 1, Len(r))) = Len(s)
        /\ \A i \in 1..Len(s) : SubSeq(v, 1, Len(r))[i] = v[i]
    BY <1>1, <1>2
  <2> DEFINE rr == SubSeq(r, 1, Len(r))
             vv == SubSeq(v, 1, Len(r))
  <2>3. rr \in Seq(X) /\ vv \in Seq(X) /\ Len(rr) = Len(vv) /\ \A i \in 1..Len(rr) : rr[i] = vv[i]
    BY <1>3, <2>1, <2>2
  <2> HIDE DEF rr, vv
  <2>4. rr = vv
    BY <2>3
  <2> QED
    BY <2>4 DEF rr, vv
<1> QED
  BY <1>1, <1>2, <1>4 DEF IsSuffix, IsPrefix, r, v

(* The last lines of less are the last of the last lines of more.          *)
LEMMA LastLines ==
    ASSUME NEW X, NEW a \in Seq(X), NEW b \in Seq(X), NEW m \in Nat
    PROVE  LET c == a \o b
           IN  IsSuffix(IF Len(b) > m THEN From(b, Len(b) - m + 1) ELSE b,
                        IF Len(c) > m THEN From(c, Len(c) - m + 1) ELSE c)
<1> DEFINE c == a \o b
           s == IF Len(b) > m THEN From(b, Len(b) - m + 1) ELSE b
           t == IF Len(c) > m THEN From(c, Len(c) - m + 1) ELSE c
<1>1. /\ c \in Seq(X) /\ Len(c) = Len(a) + Len(b)
      /\ \A i \in 1..Len(b) : c[Len(a) + i] = b[i]
  BY JoinIs
<1> HIDE DEF c
<1>2. ASSUME NEW x \in Seq(X), Len(x) > m
      PROVE  LET u == From(x, Len(x) - m + 1)
             IN  u \in Seq(X) /\ Len(u) = m /\ \A i \in 1..m : u[i] = x[Len(x) - m + i]
  BY <1>2 DEF From
<1> DEFINE n == IF Len(b) > m THEN m ELSE Len(b)
           k == IF Len(c) > m THEN m ELSE Len(c)
<1>3. s \in Seq(X) /\ Len(s) = n /\ \A i \in 1..n : s[i] = b[Len(b) - n + i]
  <2>1. CASE Len(b) > m
    BY <1>2, <2>1
  <2>2. CASE ~(Len(b) > m)
    BY <2>2
  <2> QED
    BY <2>1, <2>2
<1>4. t \in Seq(X) /\ Len(t) = k /\ \A i \in 1..k : t[i] = c[Len(c) - k + i]
  <2>1. CASE Len(c) > m
    BY <1>1, <1>2, <2>1
  <2>2. CASE ~(Len(c) > m)
    BY <1>1, <2>2
  <2> QED
    BY <2>1, <2>2
<1> HIDE DEF s, t
<1>5. /\ n \in Nat /\ k \in Nat /\ n <= k /\ n <= Len(b) /\ k <= Len(c)
      /\ Len(a) \in Nat /\ Len(b) \in Nat /\ Len(c) = Len(a) + Len(b)
  BY <1>1
<1> HIDE DEF n, k
<1>6. ASSUME NEW i \in 1..Len(s) PROVE s[i] = t[Len(t) - Len(s) + i]
  <2>1. i \in 1..n /\ k - n + i \in 1..k /\ Len(b) - n + i \in 1..Len(b)
    BY <1>3, <1>5
  <2>2. Len(c) - k + (k - n + i) = Len(a) + (Len(b) - n + i)
    BY <1>5
  <2>3. t[k - n + i] = c[Len(a) + (Len(b) - n + i)]
    BY <1>4, <2>1, <2>2
  <2>4. s[i] = b[Len(b) - n + i]
    BY <1>3, <2>1
  <2> QED
    BY <1>1, <1>3, <1>4, <2>1, <2>3, <2>4
<1>7. IsSuffix(s, t)
  BY <1>3, <1>4, <1>5, <1>6, EndIsSuffix
<1> QED
  BY <1>7 DEF s, t, c

(* Where the last line that is not empty ends.                             *)
LEMMA LastEndsAre ==
    ASSUME NEW S, NEW s \in Seq(S), NEW e \in 1..Len(s), s[e] # "\n",
           \A i \in e + 1..Len(s) : s[i] = "\n"
    PROVE  WithoutLastEnds(s) = SubSeq(s, 1, e)
<1> DEFINE I == {i \in 1..Len(s) : s[i] # "\n"}
<1>1. e \in I /\ \A i \in I : i <= e
  OBVIOUS
<1>2. I \in SUBSET (1..Len(s)) /\ I # {} /\ Len(s) \in Nat
  BY <1>1
<1>3. WithoutLastEnds(s) = SubSeq(s, 1, IF I # {} THEN Max(I) ELSE 0)
  BY DEF WithoutLastEnds, SelectLastInSeq
<1> HIDE DEF I
<1>4. Max(I) \in I /\ \A i \in I : Max(I) >= i
  BY <1>2, GreatestIsMax
<1>5. Max(I) = e
  <2>1. Max(I) \in 1..Len(s)
    BY <1>2, <1>4
  <2>2. Max(I) >= e /\ Max(I) <= e
    BY <1>1, <1>4
  <2> QED
    BY <2>1, <2>2
<1> QED
  BY <1>2, <1>3, <1>5

(* What is left without them is a text.                                    *)
LEMMA TrimmedIsText ==
    ASSUME NEW S, NEW s \in Seq(S)
    PROVE  WithoutLastEnds(s) \in Seq(S)
<1> DEFINE I == {i \in 1..Len(s) : s[i] # "\n"}
           e == IF I # {} THEN Max(I) ELSE 0
<1>1. WithoutLastEnds(s) = SubSeq(s, 1, e)
  BY DEF WithoutLastEnds, SelectLastInSeq
<1>2. I \in SUBSET (1..Len(s)) /\ Len(s) \in Nat
  OBVIOUS
<1> HIDE DEF I
<1>3. e \in 0..Len(s)
  <2>1. CASE I = {}
    BY <1>2, <2>1
  <2>2. CASE I # {}
    <3>1. Max(I) \in I
      BY <1>2, <2>2, GreatestIsMax
    <3>2. Max(I) \in 1..Len(s)
      BY <1>2, <3>1
    <3> QED
      BY <1>2, <2>2, <3>2
  <2> QED
    BY <2>1, <2>2
<1> HIDE DEF e
<1> QED
  BY <1>1, <1>3

(* A log that is cut is cut at an end of a line, in its last half.         *)
LEMMA CutIs ==
    ASSUME NEW S, NEW s \in Seq(S), Len(s) > LogMaxBytes,
           NEW p \in 1..Len(s), s[p] = "\n", Len(s) - p < LogMaxBytes \div 2
    PROVE  \E q \in 1..p : s[q] = "\n" /\ OpenLog(s) = SubSeq(s, q + 1, Len(s))
<1> DEFINE H == LogMaxBytes \div 2
           L == Len(s)
           b == From(s, L - H + 1)
           I == {i \in 1..Len(b) : b[i] = "\n"}
           m == Index(b, "\n")
<1>1. H \in Nat /\ H <= LogMaxBytes /\ LogMaxBytes \in Nat
  <2>1. LogMaxBytes \in Nat
    BY WatchLogAssumption, Zenon DEF WatchLogAssumption
  <2> QED
    BY <2>1
<1>2. L \in Nat /\ L > H
  BY <1>1
<1>3. OpenLog(s) = IF m = 0 THEN b ELSE From(b, m + 1)
  BY Zenon DEF OpenLog, WithoutFirstLine
<1>4. m = IF I # {} THEN Min(I) ELSE 0
  BY DEF Index, SelectInSeq
<1> HIDE DEF H
<1>5. b \in Seq(S) /\ Len(b) = H /\ \A i \in 1..H : b[i] = s[L - H + i]
  BY <1>1, <1>2 DEF From
<1> HIDE DEF b, m
<1>6. p - (L - H) \in I
  <2>1. L - p < H
    BY DEF H
  <2>2. p - (L - H) \in 1..H /\ L - H + (p - (L - H)) = p
    BY <1>1, <1>2, <2>1
  <2> QED
    BY <1>5, <2>2
<1>7. m \in I /\ m <= p - (L - H)
  <2>1. I \in SUBSET Nat
    OBVIOUS
  <2> HIDE DEF I
  <2> QED
    BY <1>4, <1>6, <2>1, FirstIndex
<1>8. m \in 1..H /\ b[m] = "\n"
  BY <1>5, <1>7
<1> DEFINE q == L - H + m
<1>9. q \in 1..p /\ s[q] = "\n"
  BY <1>1, <1>2, <1>5, <1>7, <1>8
<1>10. OpenLog(s) = From(b, m + 1)
  BY <1>3, <1>8
<1>11. From(b, m + 1) = SubSeq(s, q + 1, L)
  <2> DEFINE u == From(b, m + 1)
             v == SubSeq(s, q + 1, L)
  <2>1. u \in Seq(S) /\ Len(u) = H - m /\ \A i \in 1..H - m : u[i] = b[m + i]
    BY <1>1, <1>5, <1>8 DEF From
  <2>2. v \in Seq(S) /\ Len(v) = H - m /\ \A i \in 1..H - m : v[i] = s[q + i]
    BY <1>1, <1>2, <1>8, <1>9
  <2>3. \A i \in 1..H - m : m + i \in 1..H /\ L - H + (m + i) = q + i
    BY <1>1, <1>2, <1>8
  <2>4. \A i \in 1..H - m : u[i] = v[i]
    <3> SUFFICES ASSUME NEW i \in 1..H - m PROVE u[i] = v[i]
      OBVIOUS
    <3>1. u[i] = b[m + i] /\ v[i] = s[q + i]
      BY <2>1, <2>2
    <3>2. b[m + i] = s[L - H + (m + i)]
      BY <1>5, <2>3
    <3> QED
      BY <2>3, <3>1, <3>2
  <2> HIDE DEF u, v
  <2>5. u = v
    BY <2>1, <2>2, <2>4
  <2> QED
    BY <2>5 DEF u, v
<1> QED
  BY <1>9, <1>10, <1>11

(* However long a log is and whatever its lines, what is shown of it after *)
(* it was cut down is the end of what was shown before, in whole lines,    *)
(* the last one among them, unless that takes up half of what a log may    *)
(* have (watch.go:491-520).                                                *)
THEOREM CutLogsKeepTheirEnd == Spec => []LogTailKept
<1>1. ASSUME NEW S, log \in Seq(S), Len(LastEntry) < LogMaxBytes \div 2, NEW m \in Nat
      PROVE  IsSuffix(ReadLog(OpenLog(log), m), ReadLog(log, m))
  <2> DEFINE L == Len(log)
             lines == SplitAt(WithoutLastEnds(log), "\n")
  <2>1. ASSUME NEW b
        PROVE  LET bs == SplitAt(WithoutLastEnds(b), "\n")
               IN  ReadLog(b, m) = IF Len(bs) > m THEN From(bs, Len(bs) - m + 1) ELSE bs
    BY Zenon DEF ReadLog
  <2>2. CASE Len(log) <= LogMaxBytes
    <3>1. OpenLog(log) = log
      <4>1. LogMaxBytes \in Nat /\ L \in Nat
        BY <1>1, WatchLogAssumption
      <4>2. ~(L > LogMaxBytes)
        BY <2>2, <4>1
      <4> QED
        BY <4>2 DEF OpenLog
    <3>2. WithoutLastEnds(log) \in Seq(S)
      BY <1>1, TrimmedIsText
    <3>3. lines \in Seq(Seq(S))
      BY <3>2, SplitIs
    <3> HIDE DEF lines
    <3>4. IsSuffix(IF Len(lines) > m THEN From(lines, Len(lines) - m + 1) ELSE lines,
                   IF Len(lines) > m THEN From(lines, Len(lines) - m + 1) ELSE lines)
      <4>1. <<>> \in Seq(Seq(S)) /\ <<>> \o lines = lines
        BY <3>3
      <4> QED
        BY <3>3, <4>1, LastLines
    <3> QED
      BY <2>1, <3>1, <3>4 DEF lines
  <2>3. CASE Len(log) > LogMaxBytes
    <3> DEFINE I == {i \in 1..L : log[i] # "\n"}
               e == IF I # {} THEN Max(I) ELSE 0
               P == {i \in 1..e : log[i] = "\n"}
               p == IF P # {} THEN Max(P) ELSE 0
    <3>1. LastEntry = From(log, p + 1)
      BY DEF LastEntry, SelectLastInSeq, SelectLastInSubSeq
    <3>2. I \in SUBSET (1..L) /\ L \in Nat
      BY <1>1
    <3>3. e \in 0..L /\ (e # 0 => e \in I) /\ \A i \in I : i <= e
      <4> HIDE DEF I
      <4>1. CASE I = {}
        BY <3>2, <4>1
      <4>2. CASE I # {}
        <5>1. Max(I) \in I /\ \A n \in I : Max(I) >= n
          BY <3>2, <4>2, GreatestIsMax
        <5>2. e = Max(I)
          BY <4>2
        <5> HIDE DEF e
        <5>3. e \in I /\ \A n \in I : e >= n
          BY <5>1, <5>2
        <5>4. \A n \in I : n \in 1..L
          BY <3>2
        <5>5. e \in 1..L
          BY <5>3, <5>4
        <5>6. \A n \in I : n <= e
          BY <3>2, <5>3, <5>4, <5>5
        <5> QED
          BY <5>3, <5>5, <5>6, <3>2
      <4> QED
        BY <4>1, <4>2
    <3>4. \A i \in e + 1..L : log[i] = "\n"
      <4> SUFFICES ASSUME NEW i \in e + 1..L, log[i] # "\n" PROVE FALSE
        OBVIOUS
      <4>1. i \in I /\ ~(i <= e)
        BY <3>3
      <4> QED
        BY <3>3, <4>1
    <3> HIDE DEF e
    <3>5. p \in 0..e /\ (p # 0 => log[p] = "\n")
      <4>1. P \in SUBSET (1..e) /\ e \in Nat
        BY <3>3
      <4>2. P # {} => Max(P) \in P
        <5> HIDE DEF P
        <5> QED
          BY <4>1, GreatestIsMax
      <4> QED
        BY <4>1, <4>2
    <3> HIDE DEF P, p
    <3>6. Len(LastEntry) = L - p
      BY <1>1, <3>1, <3>3, <3>5 DEF From
    <3>7. p # 0 /\ L - p < LogMaxBytes \div 2
      <4>1. LogMaxBytes \in Nat
        BY WatchLogAssumption, Zenon DEF WatchLogAssumption
      <4>2. LogMaxBytes \div 2 <= LogMaxBytes
        BY <4>1
      <4> QED
        BY <1>1, <2>3, <3>2, <3>6, <4>1, <4>2
    <3>8. e \in 1..L /\ log[e] # "\n" /\ p \in 1..L /\ p < e /\ log[p] = "\n"
      <4>1. e # 0 /\ log[e] # "\n" /\ log[p] = "\n"
        BY <3>3, <3>5, <3>7
      <4> QED
        BY <3>3, <3>5, <3>7, <4>1
    <3>9. PICK q \in 1..p : log[q] = "\n" /\ OpenLog(log) = SubSeq(log, q + 1, L)
      BY <1>1, <2>3, <3>7, <3>8, CutIs
    <3> DEFINE c == SubSeq(log, q + 1, L)
               x == SubSeq(log, 1, q - 1)
               y == SubSeq(log, q + 1, e)
    <3>10. WithoutLastEnds(log) = SubSeq(log, 1, e)
      BY <1>1, <3>4, <3>8, LastEndsAre
    <3>11. WithoutLastEnds(c) = y
      <4>1. /\ c \in Seq(S) /\ Len(c) = L - q
            /\ \A i \in 1..L - q : c[i] = log[q + i]
        BY <1>1, <3>2, <3>8, <3>9
      <4> HIDE DEF c
      <4>2. e - q \in 1..Len(c) /\ c[e - q] # "\n"
        <5>1. e - q \in 1..L - q /\ q + (e - q) = e
          BY <3>2, <3>8, <3>9
        <5> QED
          BY <3>8, <4>1, <5>1
      <4>3. \A i \in e - q + 1..Len(c) : c[i] = "\n"
        <5> SUFFICES ASSUME NEW i \in e - q + 1..Len(c) PROVE c[i] = "\n"
          OBVIOUS
        <5>1. i \in 1..L - q /\ q + i \in e + 1..L
          BY <3>2, <3>8, <3>9, <4>1
        <5> QED
          BY <3>4, <4>1, <5>1
      <4>4. WithoutLastEnds(c) = SubSeq(c, 1, e - q)
        BY <4>1, <4>2, <4>3, LastEndsAre
      <4> DEFINE u == SubSeq(c, 1, e - q)
      <4>5. u \in Seq(S) /\ Len(u) = e - q /\ \A i \in 1..e - q : u[i] = log[q + i]
        BY <3>2, <3>8, <3>9, <4>1
      <4>6. y \in Seq(S) /\ Len(y) = e - q /\ \A i \in 1..e - q : y[i] = log[q + i]
        BY <1>1, <3>2, <3>8, <3>9
      <4> HIDE DEF u, y
      <4>7. u = y
        BY <4>5, <4>6
      <4> QED
        BY <4>4, <4>7 DEF u
    <3>12. x \in Seq(S) /\ y \in Seq(S)
      BY <1>1, <3>2, <3>8, <3>9
    <3>13. SplitAt(SubSeq(log, 1, e), "\n") = SplitAt(x, "\n") \o SplitAt(y, "\n")
      <4>1. q \in 1..L /\ e \in q..L
        BY <3>2, <3>8, <3>9
      <4>2. SplitAt(SubSeq(log, 1, e), log[q]) = SplitAt(x, log[q]) \o SplitAt(y, log[q])
        BY <1>1, <4>1, SplitBoth
      <4> QED
        BY <3>9, <4>2
    <3> HIDE DEF c, x, y, I
    <3> DEFINE A == SplitAt(x, "\n")
               B == SplitAt(y, "\n")
    <3>14. A \in Seq(Seq(S)) /\ B \in Seq(Seq(S))
      BY <3>12, SplitIs
    <3>15. ReadLog(OpenLog(log), m) = IF Len(B) > m THEN From(B, Len(B) - m + 1) ELSE B
      <4>1. OpenLog(log) = c
        BY <3>9 DEF c
      <4> QED
        BY <2>1, <3>11, <4>1
    <3>16. ReadLog(log, m) = IF Len(A \o B) > m THEN From(A \o B, Len(A \o B) - m + 1) ELSE A \o B
      <4>1. lines = A \o B
        BY <3>10, <3>13
      <4> HIDE DEF A, B
      <4> QED
        BY <2>1, <4>1
    <3> HIDE DEF A, B
    <3> QED
      BY <1>1, <3>14, <3>15, <3>16, LastLines
  <2> QED
    BY <1>1, <2>2, <2>3, WatchLogAssumption
<1>2. TextInv => LogTailKept
  BY <1>1 DEF LogTailKept, TextInv
<1> QED
  BY <1>2, InvText, PTL

-----------------------------------------------------------------------------
(* What is read letter by letter.                                          *)

(* The states of a reader that starts in z and goes from letter to letter  *)
(* by F.                                                                   *)
Way(F, z, s, g) ==
    g = [i \in 0..Len(s) |-> IF i = 0 THEN z ELSE F[<<g[i - 1], s[i]>>]]

LEMMA WayExists ==
    ASSUME NEW C, NEW s \in Seq(C), NEW z, NEW F
    PROVE  \E g : Way(F, z, s, g)
<1> DEFINE W(k, g) == g = [i \in 0..k |-> IF i = 0 THEN z ELSE F[<<g[i - 1], s[i]>>]]
           T == {k \in 0..Len(s) : \E g : W(k, g)}
<1>1. Len(s) \in Nat
  OBVIOUS
<1>2. 0 \in T
  <2> DEFINE g == [i \in 0..0 |-> z]
  <2>1. W(0, g)
    OBVIOUS
  <2> HIDE DEF g, W
  <2>2. 0 \in 0..Len(s) /\ \E gg : W(0, gg)
    BY <1>1, <2>1
  <2> QED
    BY <2>2
<1>3. ASSUME NEW k \in 0..Len(s), k # 0, k - 1 \in T PROVE k \in T
  <2>1. PICK g : W(k - 1, g)
    BY <1>3
  <2> DEFINE h == [i \in 0..k |-> IF i = k THEN F[<<g[k - 1], s[k]>>] ELSE g[i]]
  <2>2. \A i \in 0..k - 1 : g[i] = IF i = 0 THEN z ELSE F[<<g[i - 1], s[i]>>]
    BY <2>1
  <2>3. \A i \in 0..k - 1 : h[i] = g[i]
    BY <1>3
  <2>4. h[k] = F[<<h[k - 1], s[k]>>]
    <3>1. k \in 0..k /\ k - 1 \in 0..k - 1
      BY <1>3
    <3> QED
      BY <2>3, <3>1
  <2>5. ASSUME NEW i \in 0..k PROVE h[i] = IF i = 0 THEN z ELSE F[<<h[i - 1], s[i]>>]
    <3>1. CASE i = k
      BY <1>3, <2>4, <3>1
    <3>2. CASE i # k
      <4>1. i \in 0..k - 1 /\ (i # 0 => i - 1 \in 0..k - 1)
        BY <1>3, <3>2
      <4> QED
        BY <2>2, <2>3, <4>1
    <3> QED
      BY <3>1, <3>2
  <2>6. h = [i \in 0..k |-> h[i]]
    OBVIOUS
  <2> HIDE DEF h
  <2>7. W(k, h)
    BY <2>5, <2>6
  <2> QED
    BY <2>7
<1> HIDE DEF T
<1>4. 0..Len(s) \subseteq T
  BY <1>1, <1>2, <1>3, UpTo
<1>5. Len(s) \in T
  BY <1>1, <1>4
<1> QED
  BY <1>5 DEF T, Way

After(F, z, s) == (CHOOSE g : Way(F, z, s, g))[Len(s)]

(* g goes that way as long as it is at a state F takes.                    *)
Goes(C, Z, F, z, s, g) ==
    /\ s \in Seq(C) /\ z \in Z /\ F \in [Z \X C -> Z]
    /\ g[0] = z
    /\ \A i \in 1..Len(s) : g[i - 1] \in Z => g[i] = F[<<g[i - 1], s[i]>>]

(* Whoever goes the same way, as long as the states are of the kind F      *)
(* takes, comes to the same state.                                         *)
LEMMA SameAfter ==
    ASSUME NEW C, NEW Z, NEW F, NEW z, NEW s, NEW g, Goes(C, Z, F, z, s, g)
    PROVE  /\ g[Len(s)] = After(F, z, s) /\ g[Len(s)] \in Z
           /\ \A i \in 0..Len(s) : g[i] \in Z
<1> DEFINE h == CHOOSE h : Way(F, z, s, h)
           T == {k \in 0..Len(s) : g[k] = h[k] /\ g[k] \in Z}
<1>1. Len(s) \in Nat
  BY DEF Goes
<1>2. Way(F, z, s, h)
  BY WayExists, Zenon DEF Goes
<1>3. After(F, z, s) = h[Len(s)]
  BY Zenon DEF After
<1> HIDE DEF h
<1>4. \A i \in 0..Len(s) : h[i] = IF i = 0 THEN z ELSE F[<<h[i - 1], s[i]>>]
  BY <1>1, <1>2 DEF Way
<1>5. 0 \in T
  <2>1. 0 \in 0..Len(s) /\ g[0] = z
    BY <1>1 DEF Goes
  <2>2. h[0] = z
    BY <1>4, <2>1
  <2>3. z \in Z
    BY DEF Goes
  <2> QED
    BY <2>1, <2>2, <2>3
<1>6. ASSUME NEW k \in 0..Len(s), k # 0, k - 1 \in T PROVE k \in T
  <2>1. k \in 1..Len(s) /\ s[k] \in C /\ g[k - 1] = h[k - 1] /\ g[k - 1] \in Z
    <3>1. k \in 1..Len(s) /\ g[k - 1] = h[k - 1] /\ g[k - 1] \in Z
      BY <1>6
    <3> QED
      BY <3>1 DEF Goes
  <2>2. g[k] = F[<<g[k - 1], s[k]>>] /\ h[k] = F[<<g[k - 1], s[k]>>]
    <3>1. k \in 0..Len(s) /\ k # 0
      BY <2>1
    <3> QED
      BY <1>4, <2>1, <3>1, Zenon DEF Goes
  <2>3. <<g[k - 1], s[k]>> \in Z \X C
    BY <2>1
  <2>4. F[<<g[k - 1], s[k]>>] \in Z
    BY <2>3 DEF Goes
  <2> QED
    BY <2>2, <2>4
<1> HIDE DEF T
<1>7. 0..Len(s) \subseteq T
  BY <1>1, <1>5, <1>6, UpTo
<1>8. \A k \in 0..Len(s) : g[k] = h[k] /\ g[k] \in Z
  BY <1>7 DEF T
<1> QED
  BY <1>1, <1>3, <1>8

Reader(C, Z, F, z) == z \in Z /\ F \in [Z \X C -> Z]

(* A reader that knows what it read goes on from there.                    *)
GoesOn(C, Z, F, z) ==
    /\ After(F, z, <<>>) = z
    /\ \A s \in Seq(C) : After(F, z, s) \in Z
    /\ \A s \in Seq(C), c \in C : After(F, z, Append(s, c)) = F[<<After(F, z, s), c>>]

LEMMA AfterIs ==
    ASSUME NEW C, NEW Z, NEW F, NEW z, Reader(C, Z, F, z)
    PROVE  GoesOn(C, Z, F, z)
<1>0. z \in Z /\ F \in [Z \X C -> Z]
  BY DEF Reader
<1>1. After(F, z, <<>>) = z
  <2> DEFINE g == [i \in 0..0 |-> z]
  <2>1. <<>> \in Seq(C) /\ g[0] = z /\ Len(<<>>) = 0
    OBVIOUS
  <2>2. \A i \in 1..Len(<<>>) : FALSE
    OBVIOUS
  <2> HIDE DEF g
  <2>3. Goes(C, Z, F, z, <<>>, g)
    BY <1>0, <2>1, <2>2, Zenon DEF Goes
  <2>4. g[Len(<<>>)] = After(F, z, <<>>)
    BY <2>1, <2>3, SameAfter
  <2> QED
    BY <2>1, <2>4
<1>2. ASSUME NEW s \in Seq(C)
      PROVE  \E g : /\ g[0] = z /\ g[Len(s)] = After(F, z, s)
                    /\ \A i \in 0..Len(s) : g[i] \in Z
                    /\ \A i \in 1..Len(s) : g[i] = F[<<g[i - 1], s[i]>>]
  <2>1. PICK g : Way(F, z, s, g)
    BY WayExists
  <2>2. Len(s) \in Nat
    OBVIOUS
  <2>3. \A i \in 0..Len(s) : g[i] = IF i = 0 THEN z ELSE F[<<g[i - 1], s[i]>>]
    BY <2>1, <2>2 DEF Way
  <2>4. g[0] = z /\ \A i \in 1..Len(s) : g[i] = F[<<g[i - 1], s[i]>>]
    <3>1. \A i \in 1..Len(s) : i \in 0..Len(s) /\ i # 0
      BY <2>2
    <3>2. 0 \in 0..Len(s)
      BY <2>2
    <3> QED
      BY <2>3, <3>1, <3>2, Zenon
  <2>5. Goes(C, Z, F, z, s, g)
    BY <1>0, <2>4, Zenon DEF Goes
  <2>6. g[Len(s)] = After(F, z, s) /\ \A i \in 0..Len(s) : g[i] \in Z
    BY <2>5, SameAfter
  <2> QED
    BY <2>4, <2>6
<1>3. \A s \in Seq(C) : After(F, z, s) \in Z
  <2> SUFFICES ASSUME NEW s \in Seq(C) PROVE After(F, z, s) \in Z
    OBVIOUS
  <2>1. PICK g : g[Len(s)] = After(F, z, s) /\ \A i \in 0..Len(s) : g[i] \in Z
    BY <1>2
  <2>2. Len(s) \in 0..Len(s)
    OBVIOUS
  <2> QED
    BY <2>1, <2>2
<1>4. ASSUME NEW s \in Seq(C), NEW c \in C
      PROVE  After(F, z, Append(s, c)) = F[<<After(F, z, s), c>>]
  <2> DEFINE t == Append(s, c)
             n == Len(s)
  <2>1. /\ t \in Seq(C) /\ Len(t) = n + 1 /\ n \in Nat /\ t[n + 1] = c
        /\ \A i \in 1..n : t[i] = s[i]
    OBVIOUS
  <2>2. PICK g : /\ g[0] = z /\ g[n] = After(F, z, s)
                 /\ \A i \in 0..n : g[i] \in Z
                 /\ \A i \in 1..n : g[i] = F[<<g[i - 1], s[i]>>]
    BY <1>2
  <2> HIDE DEF t, n
  <2> DEFINE h == [i \in 0..n + 1 |-> IF i = n + 1 THEN F[<<g[n], c>>] ELSE g[i]]
  <2>3. /\ h[n + 1] = F[<<g[n], c>>]
        /\ \A i \in 0..n : h[i] = g[i]
    BY <2>1
  <2> HIDE DEF h
  <2>4. h[0] = z
    BY <2>1, <2>2, <2>3
  <2>5. ASSUME NEW i \in 1..Len(t) PROVE h[i] = F[<<h[i - 1], t[i]>>]
    <3>1. CASE i = n + 1
      <4>1. n \in 0..n /\ i - 1 = n
        BY <2>1, <3>1
      <4> QED
        BY <2>1, <2>3, <3>1, <4>1
    <3>2. CASE i # n + 1
      <4>1. i \in 1..n /\ i \in 0..n /\ i - 1 \in 0..n
        BY <2>1, <3>2
      <4> QED
        BY <2>1, <2>2, <2>3, <4>1
    <3> QED
      BY <3>1, <3>2
  <2>6. Goes(C, Z, F, z, t, h)
    BY <1>0, <2>1, <2>4, <2>5 DEF Goes
  <2>7. h[Len(t)] = After(F, z, t)
    BY <2>1, <2>6, SameAfter
  <2> QED
    BY <2>1, <2>2, <2>3, <2>7 DEF t
<1> QED
  BY <1>1, <1>3, <1>4 DEF GoesOn

(* What holds of the empty sequence, and of a sequence and one more element*)
(* whenever it holds of the sequence, holds of every one.                  *)
LEMMA OneByOne ==
    ASSUME NEW S, NEW T, <<>> \in T, \A s \in Seq(S), e \in S : s \in T => Append(s, e) \in T
    PROVE  Seq(S) \subseteq T
<1> SUFFICES ASSUME NEW s \in Seq(S) PROVE s \in T
  OBVIOUS
<1> DEFINE U == {k \in 0..Len(s) : SubSeq(s, 1, k) \in T}
<1>1. Len(s) \in Nat
  OBVIOUS
<1>2. 0 \in U
  <2>1. SubSeq(s, 1, 0) = <<>> /\ 0 \in 0..Len(s)
    BY <1>1
  <2> QED
    BY <2>1
<1>3. ASSUME NEW k \in 0..Len(s), k # 0, k - 1 \in U PROVE k \in U
  <2> DEFINE u == SubSeq(s, 1, k - 1)
             v == SubSeq(s, 1, k)
  <2>1. u \in Seq(S) /\ s[k] \in S /\ u \in T
    BY <1>3
  <2>2. v \in Seq(S) /\ Len(v) = k /\ \A i \in 1..k : v[i] = s[i]
    BY <1>3
  <2>3. Len(u) = k - 1 /\ \A i \in 1..k - 1 : u[i] = s[i]
    BY <1>3
  <2> HIDE DEF u, v
  <2>4. v = Append(u, s[k])
    BY <1>3, <2>1, <2>2, <2>3
  <2>5. v \in T
    BY <2>1, <2>4
  <2> QED
    BY <2>5 DEF v
<1> HIDE DEF U
<1>4. 0..Len(s) \subseteq U
  BY <1>1, <1>2, <1>3, UpTo
<1>5. SubSeq(s, 1, Len(s)) \in T
  BY <1>1, <1>4 DEF U
<1>6. SubSeq(s, 1, Len(s)) = s
  OBVIOUS
<1> QED
  BY <1>5, <1>6

(* A sequence of texts is flattened one text after the other.              *)
LEMMA FlattenIs ==
    ASSUME NEW S
    PROVE  /\ FlattenSeq(<<>>) = <<>>
           /\ \A ss \in Seq(Seq(S)) : FlattenSeq(ss) \in Seq(S)
           /\ \A ss \in Seq(Seq(S)), w \in Seq(S) : FlattenSeq(Append(ss, w)) = FlattenSeq(ss) \o w
<1> DEFINE X == Seq(S)
           F == [x \in X \X X |-> x[1] \o x[2]]
<1>1. <<>> \in X /\ F \in [X \X X -> X] /\ \A v, w \in X : F[<<v, w>>] = v \o w
  <2>1. \A v, w \in X : v \o w \in X
    OBVIOUS
  <2>2. \A x \in X \X X : x[1] \in X /\ x[2] \in X
    OBVIOUS
  <2> HIDE DEF X
  <2>3. \A x \in X \X X : x[1] \o x[2] \in X
    BY <2>1, <2>2
  <2>4. F \in [X \X X -> X] /\ \A v, w \in X : F[<<v, w>>] = v \o w
    BY <2>3
  <2> QED
    <3>1. <<>> \in X
      BY DEF X
    <3> QED
      BY <2>4, <3>1
<1> HIDE DEF F, X
<1>0. Reader(X, X, F, <<>>)
  BY <1>1, Zenon DEF Reader
<1>2. \A w \in X : <<>> \o w = w
  BY DEF X
<1>3. FlattenSeq(<<>>) = <<>>
  BY DEF FlattenSeq
<1>4. ASSUME NEW ss \in Seq(X) PROVE FlattenSeq(ss) = After(F, <<>>, ss)
  <2>1. CASE ss = <<>>
    <3>1. GoesOn(X, X, F, <<>>)
      BY <1>0, AfterIs
    <3>2. After(F, <<>>, <<>>) = <<>>
      BY <3>1, Zenon DEF GoesOn
    <3> QED
      BY <1>3, <2>1, <3>2, Zenon
  <2>2. CASE ss # <<>>
    <3> DEFINE n == Len(ss)
               W(g) == g = [i \in 1..n |-> IF i = 1 THEN ss[i] ELSE g[i - 1] \o ss[i]]
               f == CHOOSE g : W(g)
    <3>1. n \in Nat /\ n # 0 /\ \A i \in 1..n : ss[i] \in X
      BY <2>2
    <3>2. FlattenSeq(ss) = f[n]
      BY <3>1 DEF FlattenSeq
    <3> HIDE DEF f, n
    <3>3. PICK g : Way(F, <<>>, ss, g)
      BY WayExists
    <3>4. \A i \in 0..n : g[i] = IF i = 0 THEN <<>> ELSE F[<<g[i - 1], ss[i]>>]
      BY <3>1, <3>3 DEF Way, n
    <3>5. Goes(X, X, F, <<>>, ss, g)
      <4>1. g[0] = <<>> /\ \A i \in 1..n : g[i] = F[<<g[i - 1], ss[i]>>]
        <5>1. 0 \in 0..n /\ \A i \in 1..n : i \in 0..n /\ i # 0
          BY <3>1
        <5> QED
          BY <3>4, <5>1, Zenon
      <4> QED
        BY <1>1, <4>1, Zenon DEF Goes, n
    <3>6. \A i \in 0..n : g[i] \in X
      BY <3>5, SameAfter DEF n
    <3>7. \A i \in 1..n : g[i] = IF i = 1 THEN ss[i] ELSE g[i - 1] \o ss[i]
      <4> SUFFICES ASSUME NEW i \in 1..n PROVE g[i] = IF i = 1 THEN ss[i] ELSE g[i - 1] \o ss[i]
        OBVIOUS
      <4>1. i \in 0..n /\ i # 0 /\ i - 1 \in 0..n /\ 0 \in 0..n
        BY <3>1
      <4>2. g[i] = F[<<g[i - 1], ss[i]>>] /\ g[i - 1] \in X /\ ss[i] \in X
        BY <3>1, <3>4, <3>6, <4>1
      <4>3. g[i] = g[i - 1] \o ss[i]
        BY <1>1, <4>2
      <4>4. CASE i = 1
        <5>1. g[i - 1] = <<>>
          <6>1. i - 1 = 0
            BY <4>4
          <6> QED
            BY <3>4, <4>1, <6>1
        <5> QED
          BY <1>2, <3>1, <4>3, <4>4, <5>1
      <4> QED
        BY <4>3, <4>4
    <3> DEFINE h == [i \in 1..n |-> g[i]]
    <3>8. \A i \in 1..n : h[i] = IF i = 1 THEN ss[i] ELSE h[i - 1] \o ss[i]
      <4> SUFFICES ASSUME NEW i \in 1..n PROVE h[i] = IF i = 1 THEN ss[i] ELSE h[i - 1] \o ss[i]
        OBVIOUS
      <4>1. i # 1 => i - 1 \in 1..n
        BY <3>1
      <4> QED
        BY <3>7, <4>1
    <3>9. h = [i \in 1..n |-> h[i]]
      OBVIOUS
    <3> HIDE DEF h
    <3>10. W(h)
      BY <3>8, <3>9
    <3>11. W(f)
      <4> HIDE DEF W
      <4> QED
        BY <3>10, Zenon DEF f
    <3> DEFINE k == [i \in 0..n |-> IF i = 0 THEN <<>> ELSE f[i]]
    <3>12. /\ k[0] = <<>> /\ k[n] = f[n]
           /\ \A i \in 1..n : k[i] = f[i]
      BY <3>1
    <3>13. \A i \in 1..n : f[i] = IF i = 1 THEN ss[i] ELSE f[i - 1] \o ss[i]
      BY <3>11
    <3> HIDE DEF k, W
    <3>14. ASSUME NEW i \in 1..n, k[i - 1] \in X PROVE k[i] = F[<<k[i - 1], ss[i]>>]
      <4>1. F[<<k[i - 1], ss[i]>>] = k[i - 1] \o ss[i]
        BY <1>1, <3>1, <3>14
      <4>2. CASE i = 1
        <5>1. k[i - 1] = <<>> /\ k[i] = ss[i]
          BY <3>12, <3>13, <4>2
        <5> QED
          BY <1>2, <3>1, <4>1, <5>1
      <4>3. CASE i # 1
        <5>1. i - 1 \in 1..n
          BY <3>1, <4>3
        <5>2. k[i - 1] = f[i - 1] /\ k[i] = f[i - 1] \o ss[i]
          BY <3>12, <3>13, <4>3, <5>1
        <5> QED
          BY <4>1, <5>2
      <4> QED
        BY <4>2, <4>3
    <3>15. Goes(X, X, F, <<>>, ss, k)
      BY <1>1, <3>12, <3>14 DEF Goes, n
    <3>16. k[n] = After(F, <<>>, ss)
      BY <3>15, SameAfter DEF n
    <3> QED
      BY <3>2, <3>12, <3>16
  <2> QED
    BY <2>1, <2>2
<1>5. \A ss \in Seq(X) : FlattenSeq(ss) \in X
  <2>1. \A ss \in Seq(X) : After(F, <<>>, ss) \in X
    BY <1>0, AfterIs DEF GoesOn
  <2> QED
    BY <1>4, <2>1
<1>6. ASSUME NEW ss \in Seq(X), NEW w \in X
      PROVE  FlattenSeq(Append(ss, w)) = FlattenSeq(ss) \o w
  <2>1. Append(ss, w) \in Seq(X)
    OBVIOUS
  <2>2. After(F, <<>>, Append(ss, w)) = F[<<After(F, <<>>, ss), w>>]
    BY <1>0, AfterIs DEF GoesOn
  <2>3. F[<<FlattenSeq(ss), w>>] = FlattenSeq(ss) \o w
    BY <1>1, <1>5
  <2> QED
    BY <1>4, <2>1, <2>2, <2>3
<1> QED
  BY <1>3, <1>5, <1>6 DEF X


(* What is read of a text is read of its first part, then of the rest.     *)
ReadsOn(C, Z, F) ==
    /\ \A z \in Z : After(F, z, <<>>) = z
    /\ \A z \in Z, c \in C : After(F, z, <<c>>) = F[<<z, c>>]
    /\ \A z \in Z, s \in Seq(C) : After(F, z, s) \in Z
    /\ \A z \in Z, s \in Seq(C), c \in C : After(F, z, Append(s, c)) = F[<<After(F, z, s), c>>]
    /\ \A z \in Z, s, t \in Seq(C) : After(F, z, s \o t) = After(F, After(F, z, s), t)

LEMMA InParts ==
    ASSUME NEW C, NEW Z, NEW F, F \in [Z \X C -> Z]
    PROVE  ReadsOn(C, Z, F)
<1>1. ASSUME NEW z \in Z PROVE GoesOn(C, Z, F, z)
  BY AfterIs, Zenon DEF Reader
<1>2. \A z \in Z : After(F, z, <<>>) = z
  BY <1>1, Zenon DEF GoesOn
<1>3. \A z \in Z, s \in Seq(C) : After(F, z, s) \in Z
  BY <1>1, Zenon DEF GoesOn
<1>4. \A z \in Z, s \in Seq(C), c \in C : After(F, z, Append(s, c)) = F[<<After(F, z, s), c>>]
  BY <1>1, Zenon DEF GoesOn
<1>5. ASSUME NEW z \in Z, NEW c \in C PROVE After(F, z, <<c>>) = F[<<z, c>>]
  <2>1. <<>> \in Seq(C) /\ <<c>> = Append(<<>>, c)
    OBVIOUS
  <2> QED
    BY <1>2, <1>4, <2>1
<1>6. ASSUME NEW z \in Z, NEW s \in Seq(C)
      PROVE  \A t \in Seq(C) : After(F, z, s \o t) = After(F, After(F, z, s), t)
  <2> DEFINE w == After(F, z, s)
             T == {t \in Seq(C) : After(F, z, s \o t) = After(F, w, t)}
  <2>1. w \in Z
    BY <1>3
  <2>2. <<>> \in T
    <3>1. <<>> \in Seq(C) /\ s \o <<>> = s
      OBVIOUS
    <3>2. After(F, w, <<>>) = w
      BY <1>2, <2>1
    <3> QED
      BY <3>1, <3>2
  <2>3. ASSUME NEW t \in Seq(C), NEW c \in C, t \in T PROVE Append(t, c) \in T
    <3>1. /\ Append(t, c) \in Seq(C) /\ s \o t \in Seq(C)
          /\ s \o Append(t, c) = Append(s \o t, c)
      OBVIOUS
    <3>2. After(F, z, s \o t) = After(F, w, t)
      BY <2>3
    <3>3. After(F, w, Append(t, c)) = F[<<After(F, w, t), c>>]
      BY <1>4, <2>1
    <3>4. After(F, z, Append(s \o t, c)) = F[<<After(F, z, s \o t), c>>]
      BY <1>4, <3>1
    <3> QED
      BY <3>1, <3>2, <3>3, <3>4
  <2> HIDE DEF w, T
  <2>4. Seq(C) \subseteq T
    BY <2>2, <2>3, OneByOne
  <2> QED
    BY <2>4 DEF T, w
<1> QED
  BY <1>2, <1>3, <1>4, <1>5, <1>6 DEF ReadsOn

(* That way is there, and every state on it is of the kind F takes.        *)
LEMMA TypedWay ==
    ASSUME NEW C, NEW Z, NEW F, NEW z, NEW s \in Seq(C), Reader(C, Z, F, z)
    PROVE  \E g : /\ Way(F, z, s, g)
                  /\ \A i \in 0..Len(s) : g[i] \in Z
                  /\ \A i \in 0..Len(s) : g[i] = IF i = 0 THEN z ELSE F[<<g[i - 1], s[i]>>]
<1>1. PICK g : Way(F, z, s, g)
  BY WayExists
<1>2. \A i \in 0..Len(s) : g[i] = IF i = 0 THEN z ELSE F[<<g[i - 1], s[i]>>]
  BY <1>1 DEF Way
<1>3. Goes(C, Z, F, z, s, g)
  <2>1. g[0] = z /\ \A i \in 1..Len(s) : g[i] = F[<<g[i - 1], s[i]>>]
    <3>1. 0 \in 0..Len(s) /\ \A i \in 1..Len(s) : i \in 0..Len(s) /\ i # 0
      OBVIOUS
    <3> QED
      BY <1>2, <3>1, Zenon
  <2> QED
    BY <2>1, Zenon DEF Goes, Reader
<1>4. \A i \in 0..Len(s) : g[i] \in Z
  BY <1>3, SameAfter
<1> QED
  BY <1>1, <1>2, <1>4

-----------------------------------------------------------------------------
(* Commands for BouncerServ.                                               *)

(* A space, and the letter that servQuote puts around an argument, under a *)
(* name: the provers then need not look into them.                         *)
Blank == " "
Mark == "\""

LEMMA MarkIs == Mark # "\\" /\ Mark # Blank /\ Mark \in Marks /\ Mark \notin White
BY Zenon DEF Mark, Blank, Marks, White

LEMMA BlankIs == Blank # "\\" /\ Blank \notin Marks /\ Blank \in White
BY Zenon DEF Blank, Marks, White

WordState(C) ==
    [words : Seq(Seq(C)), word : Seq(C), escape : BOOLEAN, delim : Marks \cup {Blank}, prev : C \cup {Blank}]

WordStep(C) == [x \in WordState(C) \X C |-> SplitLetter(x[1], x[2])]

Put(w, c) == [w EXCEPT !.word = Append(@, c)]

Split(w, c) ==
    IF w.escape THEN [Put(w, c) EXCEPT !.escape = FALSE]
    ELSE IF c = "\\" THEN [w EXCEPT !.escape = TRUE]
    ELSE IF w.delim = Blank /\ c \in White
         THEN IF w.prev \in White THEN w ELSE [w EXCEPT !.words = Append(@, w.word), !.word = <<>>]
    ELSE IF w.delim = Blank /\ c \in Marks THEN [w EXCEPT !.delim = c]
    ELSE IF w.delim # Blank /\ c = w.delim THEN [w EXCEPT !.delim = Blank]
    ELSE Put(w, c)

LEMMA SplitLetterIs ==
    ASSUME NEW w, NEW c, w.delim # "\\"
    PROVE  SplitLetter(w, c) = [Split(w, c) EXCEPT !.prev = c]
<1>1. \A x \in White : x \notin Marks /\ x # "\\"
  BY DEF White, Marks
<1>2. "\\" \notin Marks
  BY DEF Marks
<1> QED
  BY <1>1, <1>2, Zenon DEF SplitLetter, Split, Put, Blank

LEMMA DelimIs ==
    ASSUME NEW C, NEW w \in WordState(C)
    PROVE  w.delim # "\\"
<1>1. w.delim \in Marks \/ w.delim = Blank
  BY DEF WordState
<1> QED
  BY <1>1, BlankIs, Zenon DEF Marks

LEMMA WordStepIs ==
    ASSUME NEW C
    PROVE  /\ Word \in WordState(C) /\ WordStep(C) \in [WordState(C) \X C -> WordState(C)]
           /\ \A w \in WordState(C), c \in C : WordStep(C)[<<w, c>>] = SplitLetter(w, c)
<1>1. Word \in WordState(C)
  <2>1. Word = [words |-> <<>>, word |-> <<>>, escape |-> FALSE, delim |-> Blank, prev |-> Blank]
    BY Zenon DEF Word, Blank
  <2> QED
    BY <2>1 DEF WordState
<1>2. ASSUME NEW w \in WordState(C), NEW c \in C
      PROVE  SplitLetter(w, c) \in WordState(C)
  <2>1. w.delim # "\\"
    BY DelimIs
  <2>2. SplitLetter(w, c) = [Split(w, c) EXCEPT !.prev = c]
    BY <2>1, SplitLetterIs
  <2>3. Put(w, c) \in WordState(C)
    <3>1. w.word \in Seq(C)
      BY DEF WordState
    <3>2. Append(w.word, c) \in Seq(C)
      BY <3>1
    <3> QED
      BY <3>2 DEF WordState, Put
  <2>4. Split(w, c) \in WordState(C)
    <3>1. [Put(w, c) EXCEPT !.escape = FALSE] \in WordState(C)
      BY <2>3 DEF WordState
    <3>2. [w EXCEPT !.escape = TRUE] \in WordState(C)
      BY DEF WordState
    <3>3. [w EXCEPT !.words = Append(@, w.word), !.word = <<>>] \in WordState(C)
      <4>1. w.words \in Seq(Seq(C)) /\ w.word \in Seq(C)
        BY DEF WordState
      <4>2. Append(w.words, w.word) \in Seq(Seq(C)) /\ <<>> \in Seq(C)
        BY <4>1
      <4> QED
        BY <4>2 DEF WordState
    <3>4. c \in Marks => [w EXCEPT !.delim = c] \in WordState(C)
      BY DEF WordState
    <3>5. [w EXCEPT !.delim = Blank] \in WordState(C)
      BY DEF WordState
    <3> QED
      BY <2>3, <3>1, <3>2, <3>3, <3>4, <3>5, Zenon DEF Split
  <2>5. [Split(w, c) EXCEPT !.prev = c] \in WordState(C)
    <3> DEFINE v == Split(w, c)
    <3>1. v \in WordState(C)
      BY <2>4
    <3> HIDE DEF v
    <3>2. [v EXCEPT !.prev = c] \in WordState(C)
      BY <3>1 DEF WordState
    <3> QED
      BY <3>2 DEF v
  <2> QED
    BY <2>2, <2>5
<1>3. WordStep(C) \in [WordState(C) \X C -> WordState(C)]
      /\ \A w \in WordState(C), c \in C : WordStep(C)[<<w, c>>] = SplitLetter(w, c)
  <2>1. \A x \in WordState(C) \X C : SplitLetter(x[1], x[2]) \in WordState(C)
    BY <1>2
  <2> QED
    BY <2>1 DEF WordStep
<1> QED
  BY <1>1, <1>2, <1>3

(* What splitWords reads is read letter by letter.                         *)
LEMMA ReadWordsIs ==
    ASSUME NEW C, NEW s \in Seq(C)
    PROVE  ReadWords(s) = After(WordStep(C), Word, s)
<1> DEFINE W(g) == g = [i \in 0..Len(s) |-> IF i = 0 THEN Word ELSE SplitLetter(g[i - 1], s[i])]
           f == CHOOSE g : W(g)
           Z == WordState(C)
           F == WordStep(C)
<1>1. ReadWords(s) = f[Len(s)]
  BY Zenon DEF ReadWords
<1>2. /\ Reader(C, Z, F, Word)
      /\ \A w \in Z, c \in C : F[<<w, c>>] = SplitLetter(w, c)
  BY WordStepIs, Zenon DEF Reader
<1> HIDE DEF f, Z, F
<1>3. PICK g : /\ Way(F, Word, s, g)
               /\ \A i \in 0..Len(s) : g[i] \in Z
               /\ \A i \in 0..Len(s) : g[i] = IF i = 0 THEN Word ELSE F[<<g[i - 1], s[i]>>]
  BY <1>2, TypedWay
<1> DEFINE h == [i \in 0..Len(s) |-> g[i]]
<1>4. ASSUME NEW i \in 0..Len(s) PROVE h[i] = IF i = 0 THEN Word ELSE SplitLetter(h[i - 1], s[i])
  <2>1. CASE i = 0
    BY <1>3, <2>1
  <2>2. CASE i # 0
    <3>1. i - 1 \in 0..Len(s) /\ s[i] \in C
      BY <2>2
    <3>2. g[i - 1] \in Z /\ h[i] = g[i] /\ h[i - 1] = g[i - 1]
      BY <1>3, <3>1
    <3>3. g[i] = F[<<g[i - 1], s[i]>>]
      BY <1>3, <2>2
    <3>4. F[<<g[i - 1], s[i]>>] = SplitLetter(g[i - 1], s[i])
      BY <1>2, <3>1, <3>2
    <3> QED
      BY <2>2, <3>2, <3>3, <3>4, Zenon
  <2> QED
    BY <2>1, <2>2, Zenon
<1>5. h = [i \in 0..Len(s) |-> h[i]]
  OBVIOUS
<1> HIDE DEF h
<1>6. W(h)
  BY <1>4, <1>5, Zenon
<1>7. W(f)
  <2> HIDE DEF W
  <2> QED
    BY <1>6, Zenon DEF f
<1>8. \A i \in 0..Len(s) : f[i] = IF i = 0 THEN Word ELSE SplitLetter(f[i - 1], s[i])
  <2> DEFINE v(i) == IF i = 0 THEN Word ELSE SplitLetter(f[i - 1], s[i])
  <2>1. f = [i \in 0..Len(s) |-> v(i)]
    BY <1>7, Zenon
  <2> HIDE DEF v
  <2>2. \A i \in 0..Len(s) : f[i] = v(i)
    BY <2>1
  <2> QED
    BY <2>2, Zenon DEF v
<1> HIDE DEF W
<1>9. ASSUME NEW i \in 1..Len(s), f[i - 1] \in Z PROVE f[i] = F[<<f[i - 1], s[i]>>]
  <2>1. i \in 0..Len(s) /\ i # 0 /\ s[i] \in C
    OBVIOUS
  <2>2. F[<<f[i - 1], s[i]>>] = SplitLetter(f[i - 1], s[i])
    BY <1>2, <1>9, <2>1, Zenon
  <2> QED
    BY <1>8, <2>1, <2>2, Zenon
<1>10. f[0] = Word
  <2>1. 0 \in 0..Len(s)
    OBVIOUS
  <2> QED
    BY <1>8, <2>1, Zenon
<1>11. Goes(C, Z, F, Word, s, f)
  BY <1>2, <1>9, <1>10, Zenon DEF Goes, Reader
<1>12. f[Len(s)] = After(F, Word, s)
  BY <1>11, SameAfter
<1> QED
  BY <1>1, <1>12 DEF F

LEMMA WordsRead ==
    ASSUME NEW C
    PROVE  ReadsOn(C, WordState(C), WordStep(C))
BY WordStepIs, InParts

LEMMA WordsOn ==
    ASSUME NEW C, NEW w \in WordState(C), NEW s \in Seq(C), NEW t \in Seq(C)
    PROVE  After(WordStep(C), w, s \o t) = After(WordStep(C), After(WordStep(C), w, s), t)
BY WordsRead, Zenon DEF ReadsOn

(* One letter on.                                                          *)
LEMMA WordOn ==
    ASSUME NEW C, NEW w \in WordState(C), NEW c \in C
    PROVE  /\ After(WordStep(C), w, <<c>>) \in WordState(C)
           /\ After(WordStep(C), w, <<c>>) = [Split(w, c) EXCEPT !.prev = c]
<1>1. WordStep(C)[<<w, c>>] = [Split(w, c) EXCEPT !.prev = c]
  <2>1. WordStep(C)[<<w, c>>] = SplitLetter(w, c)
    BY WordStepIs, Zenon
  <2>2. w.delim # "\\"
    BY DelimIs
  <2>3. SplitLetter(w, c) = [Split(w, c) EXCEPT !.prev = c]
    BY <2>2, SplitLetterIs
  <2> QED
    BY <2>1, <2>3, Zenon
<1>2. After(WordStep(C), w, <<c>>) = WordStep(C)[<<w, c>>]
  BY WordsRead, Zenon DEF ReadsOn
<1>3. WordStep(C)[<<w, c>>] \in WordState(C)
  BY WordStepIs
<1> QED
  BY <1>1, <1>2, <1>3

(* Each element replaced by another.                                       *)
Mapped(E, s) == [i \in DOMAIN s |-> E[s[i]]]

Maps(C, X, E) ==
    /\ Mapped(E, <<>>) = <<>>
    /\ \A s \in Seq(C) : Mapped(E, s) \in Seq(X) /\ Len(Mapped(E, s)) = Len(s)
    /\ \A s \in Seq(C), c \in C : Mapped(E, Append(s, c)) = Append(Mapped(E, s), E[c])

LEMMA MappedIs ==
    ASSUME NEW C, NEW X, NEW E, E \in [C -> X]
    PROVE  Maps(C, X, E)
<1>1. Mapped(E, <<>>) = <<>>
  BY DEF Mapped
<1>2. ASSUME NEW s \in Seq(C)
      PROVE  /\ Mapped(E, s) \in Seq(X) /\ Len(Mapped(E, s)) = Len(s)
             /\ \A i \in 1..Len(s) : Mapped(E, s)[i] = E[s[i]]
  <2>1. DOMAIN s = 1..Len(s) /\ \A i \in 1..Len(s) : E[s[i]] \in X
    OBVIOUS
  <2> QED
    BY <2>1 DEF Mapped
<1>3. ASSUME NEW s \in Seq(C), NEW c \in C PROVE Mapped(E, Append(s, c)) = Append(Mapped(E, s), E[c])
  <2> DEFINE t == Append(s, c)
             a == Mapped(E, t)
             b == Mapped(E, s)
  <2>1. t \in Seq(C) /\ Len(t) = Len(s) + 1 /\ t[Len(s) + 1] = c /\ \A i \in 1..Len(s) : t[i] = s[i]
    OBVIOUS
  <2> HIDE DEF t, a, b
  <2>2. a \in Seq(X) /\ Len(a) = Len(s) + 1 /\ \A i \in 1..Len(s) + 1 : a[i] = E[t[i]]
    BY <1>2, <2>1 DEF a
  <2>3. b \in Seq(X) /\ Len(b) = Len(s) /\ \A i \in 1..Len(s) : b[i] = E[s[i]]
    BY <1>2 DEF b
  <2>4. E[c] \in X
    OBVIOUS
  <2>5. /\ Append(b, E[c]) \in Seq(X) /\ Len(Append(b, E[c])) = Len(s) + 1
        /\ Append(b, E[c])[Len(s) + 1] = E[c] /\ \A i \in 1..Len(s) : Append(b, E[c])[i] = E[s[i]]
    BY <2>3, <2>4
  <2>6. \A i \in 1..Len(s) + 1 : a[i] = Append(b, E[c])[i]
    BY <2>1, <2>2, <2>5
  <2>7. a = Append(b, E[c])
    BY <2>2, <2>5, <2>6
  <2> QED
    BY <2>7 DEF a, b, t
<1> QED
  BY <1>1, <1>2, <1>3 DEF Maps

(* Letters that are each spelled in some way.                              *)
Spelled(E, s) == FlattenSeq([i \in DOMAIN s |-> E[s[i]]])

Spells(C, S, E) ==
    /\ Spelled(E, <<>>) = <<>>
    /\ \A s \in Seq(C) : Spelled(E, s) \in Seq(S)
    /\ \A s \in Seq(C), c \in C : Spelled(E, Append(s, c)) = Spelled(E, s) \o E[c]

LEMMA SpelledIs ==
    ASSUME NEW C, NEW S, NEW E, E \in [C -> Seq(S)]
    PROVE  Spells(C, S, E)
<1>1. Maps(C, Seq(S), E)
  BY MappedIs
<1>2. \A s : Spelled(E, s) = FlattenSeq(Mapped(E, s))
  BY DEF Spelled, Mapped
<1>3. Spelled(E, <<>>) = <<>>
  BY <1>1, <1>2, FlattenIs DEF Maps
<1>4. \A s \in Seq(C) : Spelled(E, s) \in Seq(S)
  BY <1>1, <1>2, FlattenIs DEF Maps
<1>5. ASSUME NEW s \in Seq(C), NEW c \in C PROVE Spelled(E, Append(s, c)) = Spelled(E, s) \o E[c]
  <2>1. Mapped(E, s) \in Seq(Seq(S)) /\ Mapped(E, Append(s, c)) = Append(Mapped(E, s), E[c])
    BY <1>1 DEF Maps
  <2>2. E[c] \in Seq(S)
    OBVIOUS
  <2>3. FlattenSeq(Append(Mapped(E, s), E[c])) = FlattenSeq(Mapped(E, s)) \o E[c]
    BY <2>1, <2>2, FlattenIs
  <2> QED
    BY <1>2, <2>1, <2>3
<1> QED
  BY <1>3, <1>4, <1>5 DEF Spells

QuoteLetter(c) == IF c \in {"\\", Mark} THEN <<"\\", c>> ELSE <<c>>

Quoted(arg) ==
    FlattenSeq([i \in DOMAIN arg |-> IF arg[i] \in {"\\", Mark} THEN <<"\\", arg[i]>> ELSE <<arg[i]>>])

LEMMA QuotedIs ==
    ASSUME NEW C, "\\" \in C
    PROVE  /\ Quoted(<<>>) = <<>>
           /\ \A s \in Seq(C) : Quoted(s) \in Seq(C)
           /\ \A s \in Seq(C), c \in C : Quoted(Append(s, c)) = Quoted(s) \o QuoteLetter(c)
<1> DEFINE E == [c \in C |-> QuoteLetter(c)]
<1>1. \A c \in C : QuoteLetter(c) \in Seq(C)
  <2>1. \A c \in C : <<"\\", c>> \in Seq(C) /\ <<c>> \in Seq(C)
    OBVIOUS
  <2> QED
    BY <2>1, Zenon DEF QuoteLetter
<1>2. E \in [C -> Seq(C)] /\ \A c \in C : E[c] = QuoteLetter(c)
  BY <1>1
<1> HIDE DEF E
<1>3. Spells(C, C, E)
  BY <1>2, SpelledIs
<1>4. ASSUME NEW s \in Seq(C) PROVE Quoted(s) = Spelled(E, s)
  <2>1. \A i \in DOMAIN s : E[s[i]] = QuoteLetter(s[i])
    BY <1>2
  <2>2. [i \in DOMAIN s |-> QuoteLetter(s[i])] = [i \in DOMAIN s |-> E[s[i]]]
    BY <2>1
  <2> QED
    BY <2>2, Zenon DEF Quoted, QuoteLetter, Spelled
<1>5. <<>> \in Seq(C) /\ \A s \in Seq(C), c \in C : Append(s, c) \in Seq(C)
  OBVIOUS
<1>6. Quoted(<<>>) = <<>>
  BY <1>3, <1>4, <1>5, Zenon DEF Spells
<1>7. \A s \in Seq(C) : Quoted(s) \in Seq(C)
  BY <1>3, <1>4, Zenon DEF Spells
<1>8. ASSUME NEW s \in Seq(C), NEW c \in C PROVE Quoted(Append(s, c)) = Quoted(s) \o QuoteLetter(c)
  <2>1. Spelled(E, Append(s, c)) = Spelled(E, s) \o E[c]
    BY <1>3, Zenon DEF Spells
  <2> QED
    BY <1>2, <1>4, <1>5, <2>1
<1> QED
  BY <1>6, <1>7, <1>8

(* What was read by then, between quotes and outside of them.              *)
Within(C, w, words, word) ==
    /\ w \in WordState(C)
    /\ w.words = words /\ w.word = word /\ w.escape = FALSE /\ w.delim = Mark

Outside(C, w, words, word) ==
    /\ w \in WordState(C)
    /\ w.words = words /\ w.word = word /\ w.escape = FALSE /\ w.delim = Blank

LEMMA QuotedLetterRead ==
    ASSUME NEW C, "\\" \in C, NEW w, NEW words, NEW word, Within(C, w, words, word), NEW c \in C
    PROVE  Within(C, After(WordStep(C), w, QuoteLetter(c)), words, Append(word, c))
<1> DEFINE F == WordStep(C)
<1>0. w \in WordState(C)
  BY DEF Within
<1>1. w \in WordState(C) /\ w.words = words /\ w.word = word /\ ~w.escape /\ w.delim = Mark
  BY DEF Within
<1>2. CASE c \in {"\\", Mark}
  <2> DEFINE v == After(F, w, <<"\\">>)
             u == After(F, v, <<c>>)
  <2>1. v \in WordState(C) /\ v = [Split(w, "\\") EXCEPT !.prev = "\\"]
    BY <1>0, WordOn
  <2>2. Split(w, "\\") = [w EXCEPT !.escape = TRUE]
    BY <1>1 DEF Split
  <2> HIDE DEF v
  <2>3. v.words = words /\ v.word = word /\ v.escape = TRUE /\ v.delim = Mark
    BY <1>1, <2>1, <2>2 DEF WordState
  <2>4. u \in WordState(C) /\ u = [Split(v, c) EXCEPT !.prev = c]
    BY <2>1, WordOn
  <2>5. Split(v, c) = [Put(v, c) EXCEPT !.escape = FALSE]
    BY <2>3 DEF Split
  <2> HIDE DEF u
  <2>6. u.words = words /\ u.word = Append(word, c) /\ u.escape = FALSE /\ u.delim = Mark
    BY <2>1, <2>3, <2>4, <2>5 DEF WordState, Put
  <2>7. After(F, w, <<"\\", c>>) = u
    <3>1. <<"\\">> \in Seq(C) /\ <<c>> \in Seq(C) /\ <<"\\", c>> = <<"\\">> \o <<c>>
      OBVIOUS
    <3>2. After(F, w, <<"\\">> \o <<c>>) = After(F, After(F, w, <<"\\">>), <<c>>)
      BY <1>1, <3>1, WordsRead, Zenon DEF ReadsOn
    <3> QED
      BY <3>1, <3>2 DEF u, v
  <2>8. QuoteLetter(c) = <<"\\", c>>
    BY <1>2 DEF QuoteLetter
  <2> QED
    BY <2>4, <2>6, <2>7, <2>8 DEF Within
<1>3. CASE c \notin {"\\", Mark}
  <2> DEFINE u == After(F, w, <<c>>)
  <2>1. u \in WordState(C) /\ u = [Split(w, c) EXCEPT !.prev = c]
    BY <1>0, WordOn, ZenonT(40)
  <2>2. Split(w, c) = Put(w, c)
    BY <1>1, <1>3, MarkIs DEF Split
  <2> HIDE DEF u
  <2>3. u.words = words /\ u.word = Append(word, c) /\ u.escape = FALSE /\ u.delim = Mark
    BY <1>1, <2>1, <2>2 DEF WordState, Put
  <2>4. QuoteLetter(c) = <<c>>
    BY <1>3 DEF QuoteLetter
  <2> QED
    BY <2>1, <2>3, <2>4 DEF Within, u
<1> QED
  BY <1>2, <1>3

(* Between quotes, an argument is read as it is.                           *)
LEMMA QuotedRead ==
    ASSUME NEW C, "\\" \in C, NEW w, NEW words, NEW word \in Seq(C), Within(C, w, words, word)
    PROVE  \A arg \in Seq(C) :
              Within(C, After(WordStep(C), w, Quoted(arg)), words, word \o arg)
<1> DEFINE F == WordStep(C)
           T == {arg \in Seq(C) : Within(C, After(F, w, Quoted(arg)), words, word \o arg)}
<1>1. <<>> \in T
  <2>1. Quoted(<<>>) = <<>> /\ <<>> \in Seq(C) /\ word \o <<>> = word
    BY QuotedIs
  <2>2. w \in WordState(C)
    BY DEF Within
  <2>3. After(F, w, <<>>) = w
    BY <2>2, WordsRead, Zenon DEF ReadsOn
  <2> QED
    BY <2>1, <2>3
<1>2. ASSUME NEW s \in Seq(C), NEW c \in C, s \in T PROVE Append(s, c) \in T
  <2> DEFINE v == After(F, w, Quoted(s))
  <2>1. Within(C, v, words, word \o s)
    BY <1>2
  <2> HIDE DEF v
  <2>2. Within(C, After(F, v, QuoteLetter(c)), words, Append(word \o s, c))
    BY <2>1, QuotedLetterRead
  <2>3. Append(s, c) \in Seq(C) /\ Append(word \o s, c) = word \o Append(s, c)
    OBVIOUS
  <2>4. Quoted(Append(s, c)) = Quoted(s) \o QuoteLetter(c) /\ Quoted(s) \in Seq(C)
    BY QuotedIs
  <2>5. QuoteLetter(c) \in Seq(C) /\ w \in WordState(C)
    <3>1. <<"\\", c>> \in Seq(C) /\ <<c>> \in Seq(C)
      OBVIOUS
    <3> QED
      BY <3>1, Zenon DEF QuoteLetter, Within
  <2>6. After(F, w, Quoted(s) \o QuoteLetter(c)) = After(F, v, QuoteLetter(c))
    BY <2>4, <2>5, WordsRead, Zenon DEF ReadsOn, v
  <2> QED
    BY <2>2, <2>3, <2>4, <2>6
<1> HIDE DEF T
<1>3. Seq(C) \subseteq T
  BY <1>1, <1>2, OneByOne
<1> QED
  BY <1>3 DEF T

(* So is one without quotes that none of its letters gives a reason for.   *)
LEMMA PlainRead ==
    ASSUME NEW C, NEW w, NEW words, NEW word \in Seq(C), Outside(C, w, words, word)
    PROVE  \A arg \in Seq(C \ (White \cup Marks \cup {"\\"})) :
              /\ Outside(C, After(WordStep(C), w, arg), words, word \o arg)
              /\ arg # <<>> => After(WordStep(C), w, arg).prev \notin White
<1> DEFINE F == WordStep(C)
           D == C \ (White \cup Marks \cup {"\\"})
           T == {arg \in Seq(D) : /\ Outside(C, After(F, w, arg), words, word \o arg)
                                  /\ arg # <<>> => After(F, w, arg).prev \notin White}
<1>1. <<>> \in T
  <2>1. <<>> \in Seq(D) /\ word \o <<>> = word
    OBVIOUS
  <2>2. w \in WordState(C)
    BY DEF Outside
  <2>3. After(F, w, <<>>) = w
    BY <2>2, WordsRead, Zenon DEF ReadsOn
  <2> QED
    BY <2>1, <2>3
<1>2. ASSUME NEW s \in Seq(D), NEW c \in D, s \in T PROVE Append(s, c) \in T
  <2> DEFINE v == After(F, w, s)
             u == After(F, v, <<c>>)
  <2>1. Outside(C, v, words, word \o s)
    BY <1>2
  <2> HIDE DEF v
  <2>2. v \in WordState(C) /\ v.words = words /\ v.word = word \o s /\ ~v.escape /\ v.delim = Blank
    BY <2>1 DEF Outside
  <2>3. c \in C /\ c \notin White /\ c \notin Marks /\ c # "\\"
    OBVIOUS
  <2>4. u \in WordState(C) /\ u = [Split(v, c) EXCEPT !.prev = c]
    BY <2>2, <2>3, WordOn
  <2>5. Split(v, c) = Put(v, c)
    BY <2>2, <2>3 DEF Split
  <2> HIDE DEF u
  <2>6. /\ u.words = words /\ u.word = Append(word \o s, c) /\ u.escape = FALSE
        /\ u.delim = Blank /\ u.prev = c
    BY <2>2, <2>4, <2>5 DEF WordState, Put
  <2>7. Append(s, c) \in Seq(D) /\ Append(word \o s, c) = word \o Append(s, c)
    <3>1. s \in Seq(C) /\ c \in C
      OBVIOUS
    <3> QED
      BY <3>1
  <2>8. After(F, w, Append(s, c)) = u
    <3>1. s \in Seq(C) /\ <<c>> \in Seq(C)
      OBVIOUS
    <3>2. Append(s, c) = s \o <<c>>
      OBVIOUS
    <3>3. w \in WordState(C)
      BY DEF Outside
    <3>4. After(F, w, s \o <<c>>) = After(F, After(F, w, s), <<c>>)
      BY <3>1, <3>3, WordsOn
    <3> QED
      BY <3>2, <3>4 DEF u, v
  <2> QED
    BY <2>3, <2>4, <2>6, <2>7, <2>8 DEF Outside
<1> HIDE DEF T
<1>3. Seq(D) \subseteq T
  BY <1>1, <1>2, OneByOne
<1> QED
  BY <1>3 DEF T

(* The arguments that servQuote and splitWords agree on.                   *)
Sendable(C) == {arg \in Seq(C) : ToSet(arg) \cap {"\r", "\n"} = {} /\ ~Apostrophe(arg)}

LEMMA PlainLetters ==
    ASSUME NEW C, NEW arg \in Sendable(C), Plain(arg)
    PROVE  arg \in Seq(C \ (White \cup Marks \cup {"\\"})) /\ arg # <<>>
<1>1. arg \in Seq(C) /\ \A i \in 1..Len(arg) : arg[i] \in ToSet(arg) /\ arg[i] \in C
  <2>1. arg \in Seq(C)
    BY DEF Sendable
  <2> QED
    BY <2>1 DEF ToSet
<1>2. \A c \in ToSet(arg) : c \notin White \cup Marks \cup {"\\"}
  <2>1. \A c \in ToSet(arg) : c # "\r" /\ c # "\n"
    BY DEF Sendable
  <2>2. \A c \in ToSet(arg) : c # Blank /\ c # "\t" /\ c # Mark /\ c # "\\"
    BY Zenon DEF Plain, Mark, Blank
  <2>3. \A c \in ToSet(arg) : c # "'"
    BY DEF Sendable, Apostrophe
  <2> QED
    BY <2>1, <2>2, <2>3, Zenon DEF White, Marks, Mark, Blank
<1>3. arg # <<>>
  BY DEF Plain
<1> DEFINE D == C \ (White \cup Marks \cup {"\\"})
<1>4. \A i \in 1..Len(arg) : arg[i] \in D
  BY <1>1, <1>2
<1> HIDE DEF D
<1>5. arg \in Seq(D)
  BY <1>1, <1>4
<1> QED
  BY <1>3, <1>5 DEF D

(* An argument is read as it is, with quotes around it or without.         *)
LEMMA ServQuoteRead ==
    ASSUME NEW C, "\\" \in C, Mark \in C, NEW w, NEW words, Outside(C, w, words, <<>>),
           NEW arg \in Sendable(C)
    PROVE  /\ ServQuote(arg) \in Seq(C)
           /\ Outside(C, After(WordStep(C), w, ServQuote(arg)), words, arg)
           /\ After(WordStep(C), w, ServQuote(arg)).prev \notin White
<1> DEFINE F == WordStep(C)
<1>0. arg \in Seq(C) /\ <<>> \in Seq(C)
  BY DEF Sendable
<1>1. w \in WordState(C) /\ w.words = words /\ w.word = <<>> /\ ~w.escape /\ w.delim = Blank
  BY DEF Outside
<1>2. <<>> \o arg = arg
  BY <1>0
<1>3. CASE Plain(arg)
  <2>1. arg \in Seq(C \ (White \cup Marks \cup {"\\"})) /\ arg # <<>>
    BY <1>3, PlainLetters
  <2>2. Outside(C, After(F, w, arg), words, <<>> \o arg) /\ After(F, w, arg).prev \notin White
    BY <1>0, <2>1, PlainRead
  <2>3. ServQuote(arg) = arg
    BY <1>3 DEF ServQuote
  <2> QED
    BY <1>0, <1>2, <2>2, <2>3
<1>4. CASE ~Plain(arg)
  <2> DEFINE q == <<Mark>>
             u == After(F, w, q)
             v == After(F, u, Quoted(arg))
             x == After(F, v, q)
  <2>1. ServQuote(arg) = q \o Quoted(arg) \o q
    BY <1>4, Zenon DEF ServQuote, Quoted, Mark
  <2>2. q \in Seq(C) /\ Quoted(arg) \in Seq(C)
    <3>1. q \in Seq(C)
      OBVIOUS
    <3> QED
      BY <1>0, <3>1, QuotedIs
  <2>3. u \in WordState(C) /\ u = [Split(w, Mark) EXCEPT !.prev = Mark]
    <3>1. w \in WordState(C)
      BY <1>1
    <3> QED
      BY <3>1, WordOn
  <2>4. Split(w, Mark) = [w EXCEPT !.delim = Mark]
    BY <1>1, MarkIs DEF Split
  <2> HIDE DEF u
  <2>5. Within(C, u, words, <<>>)
    BY <1>1, <2>3, <2>4 DEF Within, WordState
  <2>6. Within(C, v, words, <<>> \o arg)
    BY <1>0, <2>5, QuotedRead
  <2> HIDE DEF v
  <2>7. v \in WordState(C) /\ v.words = words /\ v.word = arg /\ ~v.escape /\ v.delim = Mark
    BY <1>2, <2>6 DEF Within
  <2>8. x \in WordState(C) /\ x = [Split(v, Mark) EXCEPT !.prev = Mark]
    BY <2>7, WordOn
  <2>9. Split(v, Mark) = [v EXCEPT !.delim = Blank]
    BY <2>7, MarkIs DEF Split
  <2> HIDE DEF x
  <2>10. Outside(C, x, words, arg) /\ x.prev = Mark
    BY <2>7, <2>8, <2>9 DEF Outside, WordState
  <2>11. After(F, w, ServQuote(arg)) = x
    <3>1. After(F, w, q \o Quoted(arg)) = v
      BY <1>1, <2>2, WordsOn DEF u, v
    <3>2. q \o Quoted(arg) \in Seq(C)
      BY <2>2
    <3>3. After(F, w, (q \o Quoted(arg)) \o q) = After(F, After(F, w, q \o Quoted(arg)), q)
      BY <1>1, <2>2, <3>2, WordsOn
    <3> QED
      BY <2>1, <3>1, <3>3 DEF x
  <2>12. x.prev \notin White
    BY <2>10, MarkIs
  <2>13. ServQuote(arg) \in Seq(C)
    BY <2>1, <2>2
  <2> QED
    BY <2>10, <2>11, <2>12, <2>13
<1> QED
  BY <1>3, <1>4

(* What is joined is joined one text after the other.                      *)
Joins(S, sep) ==
    /\ Join(<<>>, sep) = <<>>
    /\ \A ss \in Seq(Seq(S)) : Join(ss, sep) \in Seq(S)
    /\ \A w \in Seq(S) : Join(<<w>>, sep) = w
    /\ \A ss \in Seq(Seq(S)), w \in Seq(S) :
          ss # <<>> => Join(Append(ss, w), sep) = Join(ss, sep) \o (sep \o w)

LEMMA JoinOn ==
    ASSUME NEW S, NEW sep \in Seq(S)
    PROVE  Joins(S, sep)
<1> DEFINE X == Seq(S)
           p(i, w) == (IF i = 1 THEN <<>> ELSE sep) \o w
           m(ss) == [i \in DOMAIN ss |-> p(i, ss[i])]
<1>0. \A i, w : w \in X => p(i, w) \in X
  OBVIOUS
<1>1. \A w \in X : p(1, w) = w
  OBVIOUS
<1>2. \A i, w : i # 1 => p(i, w) = sep \o w
  OBVIOUS
<1>3. \A ss : Join(ss, sep) = FlattenSeq(m(ss))
  BY Zenon DEF Join
<1> HIDE DEF p
<1>4. ASSUME NEW ss \in Seq(X)
      PROVE  m(ss) \in Seq(X) /\ Len(m(ss)) = Len(ss) /\ \A i \in 1..Len(ss) : m(ss)[i] = p(i, ss[i])
  <2>1. DOMAIN ss = 1..Len(ss) /\ \A i \in 1..Len(ss) : ss[i] \in X
    OBVIOUS
  <2>2. \A i \in 1..Len(ss) : p(i, ss[i]) \in X
    BY <1>0, <2>1
  <2> HIDE DEF X
  <2> QED
    BY <2>1, <2>2
<1>5. m(<<>>) = <<>>
  OBVIOUS
<1>6. ASSUME NEW ss \in Seq(X), NEW w \in X
      PROVE  m(Append(ss, w)) = Append(m(ss), p(Len(ss) + 1, w))
  <2> DEFINE t == Append(ss, w)
             a == m(t)
             b == m(ss)
             e == p(Len(ss) + 1, w)
  <2> HIDE DEF X
  <2>1. t \in Seq(X) /\ Len(t) = Len(ss) + 1 /\ t[Len(ss) + 1] = w /\ \A i \in 1..Len(ss) : t[i] = ss[i]
    OBVIOUS
  <2> HIDE DEF t, a, b, e, m
  <2>2. a \in Seq(X) /\ Len(a) = Len(ss) + 1 /\ \A i \in 1..Len(ss) + 1 : a[i] = p(i, t[i])
    BY <1>4, <2>1 DEF a
  <2>3. b \in Seq(X) /\ Len(b) = Len(ss) /\ \A i \in 1..Len(ss) : b[i] = p(i, ss[i])
    BY <1>4 DEF b
  <2>4. e \in X
    BY <1>0 DEF e
  <2>5. /\ Append(b, e) \in Seq(X) /\ Len(Append(b, e)) = Len(ss) + 1
        /\ Append(b, e)[Len(ss) + 1] = e /\ \A i \in 1..Len(ss) : Append(b, e)[i] = p(i, ss[i])
    BY <2>3, <2>4
  <2>6. a[Len(ss) + 1] = e
    BY <2>1, <2>2 DEF e
  <2>7. \A i \in 1..Len(ss) + 1 : a[i] = Append(b, e)[i]
    BY <2>1, <2>2, <2>5, <2>6
  <2>8. a = Append(b, e)
    BY <2>2, <2>5, <2>7
  <2> QED
    BY <2>8 DEF a, b, t, e
<1> HIDE DEF m, X
<1>7. /\ FlattenSeq(<<>>) = <<>>
      /\ \A ss \in Seq(X) : FlattenSeq(ss) \in X
      /\ \A ss \in Seq(X), w \in X : FlattenSeq(Append(ss, w)) = FlattenSeq(ss) \o w
  BY FlattenIs DEF X
<1>8. Join(<<>>, sep) = <<>>
  BY <1>3, <1>5, <1>7
<1>9. \A ss \in Seq(X) : Join(ss, sep) \in X
  BY <1>3, <1>4, <1>7
<1>10. ASSUME NEW ss \in Seq(X), NEW w \in X
       PROVE  Join(Append(ss, w), sep) = Join(ss, sep) \o p(Len(ss) + 1, w)
  <2>1. p(Len(ss) + 1, w) \in X /\ m(ss) \in Seq(X)
    BY <1>0, <1>4
  <2>2. Join(Append(ss, w), sep) = FlattenSeq(Append(m(ss), p(Len(ss) + 1, w)))
    BY <1>3, <1>6, Zenon
  <2>3. FlattenSeq(Append(m(ss), p(Len(ss) + 1, w))) = FlattenSeq(m(ss)) \o p(Len(ss) + 1, w)
    BY <1>7, <2>1
  <2> QED
    BY <1>3, <2>2, <2>3, Zenon
<1>11. ASSUME NEW w \in X PROVE Join(<<w>>, sep) = w
  <2>1. <<>> \in Seq(X) /\ Append(<<>>, w) = <<w>> /\ Len(<<>>) + 1 = 1
    OBVIOUS
  <2>2. Join(<<w>>, sep) = <<>> \o w
    BY <1>1, <1>8, <1>10, <2>1
  <2> QED
    BY <2>2 DEF X
<1>12. ASSUME NEW ss \in Seq(X), NEW w \in X, ss # <<>>
       PROVE  Join(Append(ss, w), sep) = Join(ss, sep) \o (sep \o w)
  <2>1. Len(ss) + 1 # 1
    BY <1>12 DEF X
  <2>2. p(Len(ss) + 1, w) = sep \o w
    BY <1>2, <2>1, Zenon
  <2> QED
    BY <1>10, <2>2, Zenon
<1> QED
  BY <1>8, <1>9, <1>11, <1>12 DEF Joins, X

Command(args) == Join([i \in DOMAIN args |-> ServQuote(args[i])], <<Blank>>)

LEMMA ServQuoteIs ==
    ASSUME NEW C, "\\" \in C, Mark \in C, NEW arg \in Seq(C)
    PROVE  ServQuote(arg) \in Seq(C)
<1> DEFINE q == <<Mark>>
<1>1. q \in Seq(C) /\ Quoted(arg) \in Seq(C)
  <2>1. q \in Seq(C)
    OBVIOUS
  <2> QED
    BY <2>1, QuotedIs
<1>2. q \o Quoted(arg) \o q \in Seq(C)
  BY <1>1
<1> QED
  BY <1>2, Zenon DEF ServQuote, Quoted, Mark

(* A command grows by a blank and an argument.                             *)
LEMMA CommandIs ==
    ASSUME NEW C, "\\" \in C, Mark \in C, Blank \in C
    PROVE  /\ Command(<<>>) = <<>>
           /\ \A args \in Seq(Seq(C)) : Command(args) \in Seq(C)
           /\ \A arg \in Seq(C) : Command(<<arg>>) = ServQuote(arg)
           /\ \A args \in Seq(Seq(C)), arg \in Seq(C) :
                 args # <<>> => Command(Append(args, arg)) = Command(args) \o (<<Blank>> \o ServQuote(arg))
<1> DEFINE X == Seq(C)
           E == [a \in X |-> ServQuote(a)]
           sep == <<Blank>>
<1>1. sep \in X
  OBVIOUS
<1>2. E \in [X -> X] /\ \A a \in X : E[a] = ServQuote(a)
  BY ServQuoteIs
<1> HIDE DEF E, X, sep
<1>3. Maps(X, X, E)
  BY <1>2, MappedIs
<1>4. Joins(C, sep)
  BY <1>1, JoinOn DEF X
<1>5. ASSUME NEW args \in Seq(X) PROVE Command(args) = Join(Mapped(E, args), sep)
  <2>1. \A i \in DOMAIN args : ServQuote(args[i]) = E[args[i]]
    BY <1>2
  <2>2. [i \in DOMAIN args |-> ServQuote(args[i])] = Mapped(E, args)
    BY <2>1 DEF Mapped
  <2> QED
    BY <2>2, Zenon DEF Command, sep
<1>6. <<>> \in Seq(X) /\ \A args \in Seq(X), a \in X : Append(args, a) \in Seq(X) /\ <<a>> = Append(<<>>, a)
  OBVIOUS
<1>7. /\ Join(<<>>, sep) = <<>>
      /\ \A ss \in Seq(X) : Join(ss, sep) \in X
      /\ \A w \in X : Join(<<w>>, sep) = w
      /\ \A ss \in Seq(X), w \in X :
            ss # <<>> => Join(Append(ss, w), sep) = Join(ss, sep) \o (sep \o w)
  BY <1>4, Zenon DEF Joins, X
<1>8. /\ Mapped(E, <<>>) = <<>>
      /\ \A s \in Seq(X) : Mapped(E, s) \in Seq(X) /\ Len(Mapped(E, s)) = Len(s)
      /\ \A s \in Seq(X), c \in X : Mapped(E, Append(s, c)) = Append(Mapped(E, s), E[c])
  BY <1>3, Zenon DEF Maps
<1>9. Command(<<>>) = <<>>
  BY <1>5, <1>6, <1>7, <1>8
<1>10. \A args \in Seq(X) : Command(args) \in X
  BY <1>5, <1>7, <1>8
<1>11. ASSUME NEW a \in X PROVE Command(<<a>>) = ServQuote(a)
  <2>1. Mapped(E, <<a>>) = <<E[a]>>
    <3>1. Mapped(E, Append(<<>>, a)) = Append(<<>>, E[a])
      BY <1>6, <1>8
    <3> QED
      BY <3>1
  <2>2. E[a] \in X /\ E[a] = ServQuote(a) /\ <<a>> \in Seq(X)
    BY <1>2
  <2> QED
    BY <1>5, <1>7, <2>1, <2>2
<1>12. ASSUME NEW args \in Seq(X), NEW a \in X, args # <<>>
       PROVE  Command(Append(args, a)) = Command(args) \o (sep \o ServQuote(a))
  <2>1. Mapped(E, args) \in Seq(X) /\ Mapped(E, args) # <<>>
    <3>1. Mapped(E, args) \in Seq(X) /\ Len(Mapped(E, args)) = Len(args) /\ Len(args) # 0
      BY <1>8, <1>12
    <3> QED
      BY <3>1
  <2>2. Mapped(E, Append(args, a)) = Append(Mapped(E, args), E[a]) /\ E[a] = ServQuote(a) /\ E[a] \in X
    BY <1>2, <1>8
  <2>3. Join(Append(Mapped(E, args), E[a]), sep) = Join(Mapped(E, args), sep) \o (sep \o E[a])
    BY <1>7, <2>1, <2>2
  <2>4. Append(args, a) \in Seq(X)
    BY <1>6
  <2> QED
    BY <1>5, <2>2, <2>3, <2>4
<1> QED
  BY <1>9, <1>10, <1>11, <1>12, Zenon DEF X, sep

(* What splitWords has when it is through the arguments of a command.      *)
After1(C, args) == After(WordStep(C), Word, Command(args))

Arrived(C, args) ==
    LET v == After1(C, args)
    IN  /\ args = <<>> => v = Word
        /\ args # <<>> => Outside(C, v, Front(args), Last(args)) /\ v.prev \notin White

LEMMA CommandRead ==
    ASSUME NEW C, "\\" \in C, Mark \in C, Blank \in C
    PROVE  \A args \in Seq(Sendable(C)) : Arrived(C, args)
<1> DEFINE F == WordStep(C)
           A == Sendable(C)
           T == {args \in Seq(A) : Arrived(C, args)}
<1>0. Word \in WordState(C) /\ A \subseteq Seq(C)
  BY WordStepIs DEF Sendable
<1>a. Word.words = <<>> /\ Word.word = <<>> /\ Word.escape = FALSE /\ Word.delim = Blank
  <2>1. Word = [words |-> <<>>, word |-> <<>>, escape |-> FALSE, delim |-> Blank, prev |-> Blank]
    BY Zenon DEF Word, Blank
  <2> QED
    BY <2>1
<1>b. \A args \in Seq(A) : args \in Seq(Seq(C))
  BY <1>0
<1>1. <<>> \in T
  <2>1. After(F, Word, <<>>) = Word
    BY <1>0, WordsRead, Zenon DEF ReadsOn
  <2>2. Command(<<>>) = <<>>
    BY CommandIs
  <2>3. Arrived(C, <<>>)
    BY <2>1, <2>2 DEF Arrived, After1
  <2>4. <<>> \in Seq(A)
    OBVIOUS
  <2> QED
    BY <2>3, <2>4
<1>2. ASSUME NEW args \in Seq(A), NEW a \in A, args \in T PROVE Append(args, a) \in T
  <2> DEFINE t == Append(args, a)
  <2>1. t \in Seq(A) /\ t # <<>> /\ Front(t) = args /\ Last(t) = a
    BY DEF Front, Last
  <2>2. a \in Seq(C) /\ args \in Seq(Seq(C)) /\ ServQuote(a) \in Seq(C)
    <3>1. a \in Seq(C) /\ args \in Seq(Seq(C))
      BY <1>0, <1>b
    <3> QED
      BY <3>1, ServQuoteIs
  <2>3. CASE args = <<>>
    <3> DEFINE v == After(F, Word, ServQuote(a))
    <3>1. Outside(C, Word, <<>>, <<>>)
      BY <1>0, <1>a, Zenon DEF Outside
    <3>2. Outside(C, v, <<>>, a) /\ v.prev \notin White
      BY <3>1, ServQuoteRead
    <3>3. t = <<a>>
      BY <2>3
    <3>4. Command(<<a>>) = ServQuote(a)
      BY <2>2, CommandIs
    <3>5. After1(C, t) = v
      BY <3>3, <3>4, Zenon DEF After1
    <3> HIDE DEF t, v
    <3>6. Arrived(C, t)
      BY <2>1, <2>3, <3>2, <3>5, Zenon DEF Arrived
    <3> QED
      BY <2>1, <3>6 DEF t
  <2>4. CASE args # <<>>
    <3> DEFINE w == After1(C, args)
               u == After(F, w, <<Blank>>)
               v == After(F, u, ServQuote(a))
    <3>1. Outside(C, w, Front(args), Last(args)) /\ w.prev \notin White
      BY <1>2, <2>4 DEF Arrived
    <3> HIDE DEF w
    <3>2. w \in WordState(C)
      BY <3>1 DEF Outside
    <3>3. u \in WordState(C) /\ u = [Split(w, Blank) EXCEPT !.prev = Blank]
      BY <3>2, WordOn
    <3>4. Blank \in White /\ Blank # "\\"
      BY BlankIs
    <3>5. Split(w, Blank) = [w EXCEPT !.words = Append(@, w.word), !.word = <<>>]
      BY <3>1, <3>4 DEF Split, Outside
    <3> HIDE DEF u
    <3>6. Append(Front(args), Last(args)) = args
      BY <2>2, <2>4 DEF Front, Last
    <3>7. Outside(C, u, args, <<>>)
      <4>1. w.words = Front(args) /\ w.word = Last(args) /\ w.escape = FALSE /\ w.delim = Blank
        BY <3>1 DEF Outside
      <4>2. u.words = args /\ u.word = <<>> /\ u.escape = FALSE /\ u.delim = Blank
        BY <3>2, <3>3, <3>5, <3>6, <4>1 DEF WordState
      <4> QED
        BY <3>3, <4>2 DEF Outside
    <3>8. Outside(C, v, args, a) /\ v.prev \notin White
      BY <3>7, ServQuoteRead
    <3> HIDE DEF v
    <3>9. After1(C, t) = v
      <4> DEFINE q == ServQuote(a)
                 k == Command(args)
                 b == <<Blank>>
      <4>1. k \in Seq(C) /\ q \in Seq(C) /\ b \in Seq(C)
        <5>1. b \in Seq(C)
          OBVIOUS
        <5> QED
          BY <2>2, <5>1, CommandIs
      <4>2. Command(t) = k \o (b \o q)
        BY <2>2, <2>4, CommandIs
      <4> HIDE DEF q, k, b, t
      <4>3. b \o q \in Seq(C)
        BY <4>1
      <4>4. After(F, Word, k \o (b \o q)) = After(F, After(F, Word, k), b \o q)
        BY <1>0, <4>1, <4>3, WordsOn
      <4>5. After(F, w, b \o q) = After(F, After(F, w, b), q)
        BY <3>2, <4>1, WordsOn
      <4>6. After(F, Word, k) = w
        BY DEF w, After1, k
      <4> QED
        BY <4>2, <4>4, <4>5, <4>6 DEF After1, u, v, b, q
    <3> HIDE DEF t
    <3>10. Arrived(C, t)
      BY <2>1, <3>8, <3>9, Zenon DEF Arrived
    <3> QED
      BY <2>1, <3>10 DEF t
  <2> QED
    BY <2>3, <2>4
<1> HIDE DEF T
<1>3. Seq(A) \subseteq T
  BY <1>1, <1>2, OneByOne
<1> QED
  BY <1>3 DEF T

(* What servQuote and a blank put together, splitWords takes apart.        *)
LEMMA CommandSplit ==
    ASSUME NEW C, "\\" \in C, Mark \in C, Blank \in C, NEW args \in Seq(Sendable(C))
    PROVE  Command(args) \in Seq(C) /\ SplitWords(Command(args)) = [ok |-> TRUE, words |-> args]
<1> DEFINE k == Command(args)
           v == ReadWords(k)
<1>1. args \in Seq(Seq(C))
  <2>1. Sendable(C) \subseteq Seq(C)
    BY DEF Sendable
  <2> QED
    BY <2>1
<1>2. k \in Seq(C)
  BY <1>1, CommandIs
<1>3. v = After1(C, args)
  BY <1>2, ReadWordsIs, Zenon DEF After1
<1>4. Arrived(C, args)
  BY CommandRead
<1> HIDE DEF k, v
<1>5. SplitWords(k) = [ok |-> v.delim = Blank /\ ~v.escape,
                       words |-> IF v.prev \in White THEN v.words ELSE Append(v.words, v.word)]
  BY Zenon DEF SplitWords, v, Blank
<1>6. CASE args = <<>>
  <2>1. v = [words |-> <<>>, word |-> <<>>, escape |-> FALSE, delim |-> Blank, prev |-> Blank]
    BY <1>3, <1>4, <1>6, Zenon DEF Arrived, Word, Blank
  <2> QED
    BY <1>2, <1>5, <1>6, <2>1, BlankIs DEF k
<1>7. CASE args # <<>>
  <2>1. Outside(C, v, Front(args), Last(args)) /\ v.prev \notin White
    BY <1>3, <1>4, <1>7 DEF Arrived
  <2>2. v.words = Front(args) /\ v.word = Last(args) /\ v.escape = FALSE /\ v.delim = Blank
    BY <2>1 DEF Outside
  <2>3. Append(Front(args), Last(args)) = args
    BY <1>1, <1>7 DEF Front, Last
  <2>4. SplitWords(k) = [ok |-> TRUE, words |-> args]
    BY <1>5, <2>1, <2>2, <2>3
  <2> QED
    BY <1>2, <2>4 DEF k
<1> QED
  BY <1>6, <1>7

-----------------------------------------------------------------------------
(* Fields.                                                                 *)

FieldState(C) == [words : Seq(Seq(C)), word : Seq(C)]

FieldStep(C, blanks) == [x \in FieldState(C) \X C |-> FieldLetter(x[1], x[2], blanks)]

NoField == [words |-> <<>>, word |-> <<>>]

LEMMA FieldStepIs ==
    ASSUME NEW C, NEW blanks
    PROVE  /\ NoField \in FieldState(C)
           /\ FieldStep(C, blanks) \in [FieldState(C) \X C -> FieldState(C)]
           /\ \A f \in FieldState(C), c \in C : FieldStep(C, blanks)[<<f, c>>] = FieldLetter(f, c, blanks)
<1>1. NoField \in FieldState(C)
  BY DEF NoField, FieldState
<1>2. ASSUME NEW f \in FieldState(C), NEW c \in C PROVE FieldLetter(f, c, blanks) \in FieldState(C)
  <2>1. f.words \in Seq(Seq(C)) /\ f.word \in Seq(C) /\ f = [words |-> f.words, word |-> f.word]
    BY DEF FieldState
  <2>2. Append(f.word, c) \in Seq(C) /\ Append(f.words, f.word) \in Seq(Seq(C)) /\ <<>> \in Seq(C)
    BY <2>1
  <2> QED
    BY <2>1, <2>2 DEF FieldState, FieldLetter
<1>3. \A x \in FieldState(C) \X C : FieldLetter(x[1], x[2], blanks) \in FieldState(C)
  BY <1>2
<1> QED
  BY <1>1, <1>3 DEF FieldStep

(* Fields are read letter by letter, too.                                  *)
LEMMA ReadFieldsIs ==
    ASSUME NEW C, NEW blanks, NEW s \in Seq(C)
    PROVE  ReadFields(s, blanks) = After(FieldStep(C, blanks), NoField, s)
<1> DEFINE W(g) == g = [i \in 0..Len(s) |-> IF i = 0 THEN NoField ELSE FieldLetter(g[i - 1], s[i], blanks)]
           f == CHOOSE g : W(g)
           Z == FieldState(C)
           F == FieldStep(C, blanks)
<1>1. ReadFields(s, blanks) = f[Len(s)]
  BY Zenon DEF ReadFields, NoField
<1>2. /\ Reader(C, Z, F, NoField)
      /\ \A w \in Z, c \in C : F[<<w, c>>] = FieldLetter(w, c, blanks)
  BY FieldStepIs, Zenon DEF Reader
<1> HIDE DEF f, Z, F
<1>3. PICK g : /\ Way(F, NoField, s, g)
               /\ \A i \in 0..Len(s) : g[i] \in Z
               /\ \A i \in 0..Len(s) : g[i] = IF i = 0 THEN NoField ELSE F[<<g[i - 1], s[i]>>]
  BY <1>2, TypedWay
<1> DEFINE h == [i \in 0..Len(s) |-> g[i]]
<1>4. ASSUME NEW i \in 0..Len(s) PROVE h[i] = IF i = 0 THEN NoField ELSE FieldLetter(h[i - 1], s[i], blanks)
  <2>1. CASE i = 0
    BY <1>3, <2>1
  <2>2. CASE i # 0
    <3>1. i - 1 \in 0..Len(s) /\ s[i] \in C
      BY <2>2
    <3>2. g[i - 1] \in Z /\ h[i] = g[i] /\ h[i - 1] = g[i - 1]
      BY <1>3, <3>1
    <3>3. g[i] = F[<<g[i - 1], s[i]>>]
      BY <1>3, <2>2
    <3>4. F[<<g[i - 1], s[i]>>] = FieldLetter(g[i - 1], s[i], blanks)
      BY <1>2, <3>1, <3>2
    <3> QED
      BY <2>2, <3>2, <3>3, <3>4, Zenon
  <2> QED
    BY <2>1, <2>2, Zenon
<1>5. h = [i \in 0..Len(s) |-> h[i]]
  OBVIOUS
<1> HIDE DEF h
<1>6. W(h)
  BY <1>4, <1>5, Zenon
<1>7. W(f)
  <2> HIDE DEF W
  <2> QED
    BY <1>6, Zenon DEF f
<1>8. \A i \in 0..Len(s) : f[i] = IF i = 0 THEN NoField ELSE FieldLetter(f[i - 1], s[i], blanks)
  <2> DEFINE v(i) == IF i = 0 THEN NoField ELSE FieldLetter(f[i - 1], s[i], blanks)
  <2>1. f = [i \in 0..Len(s) |-> v(i)]
    BY <1>7, Zenon
  <2> HIDE DEF v
  <2>2. \A i \in 0..Len(s) : f[i] = v(i)
    BY <2>1
  <2> QED
    BY <2>2, Zenon DEF v
<1> HIDE DEF W
<1>9. ASSUME NEW i \in 1..Len(s), f[i - 1] \in Z PROVE f[i] = F[<<f[i - 1], s[i]>>]
  <2>1. i \in 0..Len(s) /\ i # 0 /\ s[i] \in C
    OBVIOUS
  <2>2. F[<<f[i - 1], s[i]>>] = FieldLetter(f[i - 1], s[i], blanks)
    BY <1>2, <1>9, <2>1, Zenon
  <2> QED
    BY <1>8, <2>1, <2>2, Zenon
<1>10. f[0] = NoField
  <2>1. 0 \in 0..Len(s)
    OBVIOUS
  <2> QED
    BY <1>8, <2>1, Zenon
<1>11. Goes(C, Z, F, NoField, s, f)
  BY <1>2, <1>9, <1>10, Zenon DEF Goes, Reader
<1>12. f[Len(s)] = After(F, NoField, s)
  BY <1>11, SameAfter
<1> QED
  BY <1>1, <1>12 DEF F

LEMMA FieldsRead ==
    ASSUME NEW C, NEW blanks
    PROVE  ReadsOn(C, FieldState(C), FieldStep(C, blanks))
<1>1. FieldStep(C, blanks) \in [FieldState(C) \X C -> FieldState(C)]
  BY FieldStepIs
<1> QED
  BY <1>1, InParts

LEMMA FieldsOn ==
    ASSUME NEW C, NEW blanks, NEW f \in FieldState(C), NEW s \in Seq(C), NEW t \in Seq(C)
    PROVE  After(FieldStep(C, blanks), f, s \o t)
              = After(FieldStep(C, blanks), After(FieldStep(C, blanks), f, s), t)
BY FieldsRead, ZenonT(40) DEF ReadsOn

LEMMA FieldOn ==
    ASSUME NEW C, NEW blanks, NEW f \in FieldState(C), NEW c \in C
    PROVE  After(FieldStep(C, blanks), f, <<c>>) = FieldLetter(f, c, blanks)
<1>1. After(FieldStep(C, blanks), f, <<c>>) = FieldStep(C, blanks)[<<f, c>>]
  BY FieldsRead, Zenon DEF ReadsOn
<1>2. FieldStep(C, blanks)[<<f, c>>] = FieldLetter(f, c, blanks)
  BY FieldStepIs, Zenon
<1> QED
  BY <1>1, <1>2, Zenon

LEMMA FieldOff ==
    ASSUME NEW C, NEW blanks, NEW f \in FieldState(C)
    PROVE  After(FieldStep(C, blanks), f, <<>>) = f
BY FieldsRead, Zenon DEF ReadsOn

(* A word without a blank is read into the one that was begun.             *)
LEMMA FieldWordRead ==
    ASSUME NEW C, NEW blanks, NEW f \in FieldState(C)
    PROVE  \A w \in Seq(C \ blanks) :
              After(FieldStep(C, blanks), f, w) = [words |-> f.words, word |-> f.word \o w]
<1> DEFINE F == FieldStep(C, blanks)
           D == C \ blanks
           r(w) == [words |-> f.words, word |-> f.word \o w]
           T == {w \in Seq(D) : After(F, f, w) = r(w)}
<1>0. f.words \in Seq(Seq(C)) /\ f.word \in Seq(C) /\ f = [words |-> f.words, word |-> f.word]
  BY DEF FieldState
<1>1. <<>> \in T
  <2>1. <<>> \in Seq(D)
    OBVIOUS
  <2>2. f.word \o <<>> = f.word
    BY <1>0
  <2>3. After(F, f, <<>>) = f
    BY FieldOff
  <2>4. r(<<>>) = f
    BY <1>0, <2>2
  <2> QED
    BY <2>1, <2>3, <2>4
<1>2. ASSUME NEW w \in Seq(D), NEW c \in D, w \in T PROVE Append(w, c) \in T
  <2>1. w \in Seq(C) /\ c \in C /\ c \notin blanks /\ <<c>> \in Seq(C)
    OBVIOUS
  <2>2. Append(w, c) = w \o <<c>> /\ Append(w, c) \in Seq(D)
    OBVIOUS
  <2>3. After(F, f, w \o <<c>>) = After(F, After(F, f, w), <<c>>)
    BY <2>1, FieldsOn
  <2>4. After(F, f, w) = r(w)
    BY <1>2
  <2>5. r(w) \in FieldState(C)
    <3>1. f.word \o w \in Seq(C)
      BY <1>0, <2>1
    <3> QED
      BY <1>0, <3>1 DEF FieldState
  <2>6. After(F, r(w), <<c>>) = FieldLetter(r(w), c, blanks)
    BY <2>1, <2>5, FieldOn
  <2>7. FieldLetter(r(w), c, blanks) = r(Append(w, c))
    <3>1. Append(f.word \o w, c) = f.word \o Append(w, c)
      <4> DEFINE x == f.word
      <4>1. x \in Seq(C)
        BY <1>0
      <4> HIDE DEF x
      <4>2. Append(x \o w, c) = x \o Append(w, c)
        BY <2>1, <4>1
      <4> QED
        BY <4>2 DEF x
    <3>2. FieldLetter(r(w), c, blanks) = [words |-> f.words, word |-> Append(f.word \o w, c)]
      BY <2>1 DEF FieldLetter
    <3> QED
      BY <3>1, <3>2
  <2> HIDE DEF r
  <2> QED
    BY <2>2, <2>3, <2>4, <2>6, <2>7
<1> HIDE DEF T
<1>3. Seq(D) \subseteq T
  BY <1>1, <1>2, OneByOne
<1> QED
  BY <1>3 DEF T

Words(C, blanks) == {w \in Seq(C \ blanks) : w # <<>>}

(* Words with blanks between them are read one by one.                     *)
LEMMA FieldsJoined ==
    ASSUME NEW C, NEW blanks, Blank \in C, Blank \in blanks, NEW words \in Seq(Words(C, blanks))
    PROVE  /\ Join(words, <<Blank>>) \in Seq(C)
           /\ Fields(Join(words, <<Blank>>), blanks) = words
<1> DEFINE F == FieldStep(C, blanks)
           A == Words(C, blanks)
           X == Seq(C)
           b == <<Blank>>
           r(ws) == IF ws = <<>> THEN NoField ELSE [words |-> Front(ws), word |-> Last(ws)]
           T == {ws \in Seq(A) : After(F, NoField, Join(ws, b)) = r(ws)}
<1>0. A \subseteq X /\ \A w \in A : w \in Seq(C \ blanks) /\ w # <<>>
  BY DEF Words
<1>1. b \in X
  OBVIOUS
<1>2. Joins(C, b)
  BY <1>1, JoinOn
<1>3. /\ Join(<<>>, b) = <<>>
      /\ \A ss \in Seq(X) : Join(ss, b) \in X
      /\ \A w \in X : Join(<<w>>, b) = w
      /\ \A ss \in Seq(X), w \in X : ss # <<>> => Join(Append(ss, w), b) = Join(ss, b) \o (b \o w)
  BY <1>2, Zenon DEF Joins
<1>4. NoField \in FieldState(C)
  BY FieldStepIs
<1>5. Seq(A) \subseteq Seq(X)
  BY <1>0
<1>6. <<>> \in T
  <2>1. After(F, NoField, <<>>) = NoField
    BY <1>4, FieldOff
  <2>2. <<>> \in Seq(A)
    OBVIOUS
  <2> QED
    BY <1>3, <2>1, <2>2
<1>7. ASSUME NEW ws \in Seq(A), NEW w \in A, ws \in T PROVE Append(ws, w) \in T
  <2> DEFINE t == Append(ws, w)
  <2>1. t \in Seq(A) /\ t # <<>> /\ Front(t) = ws /\ Last(t) = w
    BY DEF Front, Last
  <2>2. w \in X /\ ws \in Seq(X) /\ w \in Seq(C \ blanks)
    BY <1>0, <1>5
  <2>3. CASE ws = <<>>
    <3>1. t = <<w>>
      BY <2>3
    <3>2. Join(t, b) = w
      BY <1>3, <2>2, <3>1
    <3>3. After(F, NoField, w) = [words |-> NoField.words, word |-> NoField.word \o w]
      BY <1>4, <2>2, FieldWordRead
    <3>4. NoField.words = <<>> /\ NoField.word \o w = w
      BY <2>2 DEF NoField
    <3>5. r(t) = [words |-> <<>>, word |-> w]
      BY <2>1, <2>3
    <3> QED
      BY <2>1, <3>2, <3>3, <3>4, <3>5
  <2>4. CASE ws # <<>>
    <3> DEFINE k == Join(ws, b)
               f == [words |-> Front(ws), word |-> Last(ws)]
               g == [words |-> ws, word |-> <<>>]
    <3>1. k \in X /\ Join(t, b) = k \o (b \o w)
      BY <1>3, <2>2, <2>4
    <3>2. After(F, NoField, k) = f
      BY <1>7, <2>4
    <3>3. f \in FieldState(C) /\ Last(ws) # <<>> /\ Append(Front(ws), Last(ws)) = ws
      <4>1. Front(ws) \in Seq(X) /\ Last(ws) \in A /\ Append(Front(ws), Last(ws)) = ws
        BY <2>2, <2>4 DEF Front, Last
      <4> QED
        BY <1>0, <4>1 DEF FieldState
    <3>4. g \in FieldState(C)
      BY <2>2 DEF FieldState
    <3>5. After(F, f, b) = FieldLetter(f, Blank, blanks)
      BY <3>3, FieldOn
    <3>6. FieldLetter(f, Blank, blanks) = g
      BY <3>3 DEF FieldLetter
    <3>7. After(F, g, w) = [words |-> ws, word |-> w]
      <4>1. After(F, g, w) = [words |-> g.words, word |-> g.word \o w]
        BY <2>2, <3>4, FieldWordRead
      <4>2. g.words = ws /\ g.word \o w = w
        BY <2>2
      <4> QED
        BY <4>1, <4>2
    <3> HIDE DEF k, b, X, f, g
    <3>8. b \o w \in X
      BY <1>1, <2>2 DEF X
    <3>9. After(F, NoField, k \o (b \o w)) = After(F, f, b \o w)
      BY <1>4, <3>1, <3>2, <3>8, FieldsOn DEF X
    <3>10. After(F, f, b \o w) = After(F, g, w)
      BY <1>1, <2>2, <3>3, <3>5, <3>6, FieldsOn DEF X
    <3> QED
      BY <2>1, <3>1, <3>7, <3>9, <3>10
  <2> QED
    BY <2>3, <2>4
<1> HIDE DEF T, r
<1>8. Seq(A) \subseteq T
  BY <1>6, <1>7, OneByOne
<1>9. After(F, NoField, Join(words, b)) = r(words) /\ Join(words, b) \in X
  BY <1>3, <1>5, <1>8 DEF T
<1>10. ReadFields(Join(words, b), blanks) = r(words)
  BY <1>9, ReadFieldsIs
<1>11. Fields(Join(words, b), blanks) = IF r(words).word = <<>> THEN r(words).words
                                        ELSE Append(r(words).words, r(words).word)
  BY <1>10, Zenon DEF Fields
<1>12. CASE words = <<>>
  <2>1. r(words).word = <<>> /\ r(words).words = words
    BY <1>12 DEF r, NoField
  <2> QED
    BY <1>9, <1>11, <2>1
<1>13. CASE words # <<>>
  <2>1. r(words).word = Last(words) /\ r(words).words = Front(words)
    BY <1>13 DEF r
  <2>2. Last(words) \in A /\ Append(Front(words), Last(words)) = words
    BY <1>13 DEF Front, Last
  <2> QED
    BY <1>0, <1>9, <1>11, <2>1, <2>2
<1> QED
  BY <1>12, <1>13

-----------------------------------------------------------------------------
(* The lines that are sent.                                                *)

(* Letters with a meaning of their own, and those that are words.          *)
Dots == ":"
At == "@"
Priv == "PRIVMSG"
Serv == "BouncerServ"

LEMMA LettersApart ==
    /\ Blank # Dots /\ Blank # At /\ Dots # At
    /\ Priv # Blank /\ Priv # Dots /\ Priv # At
    /\ Serv # Blank /\ Serv # Dots
BY Zenon DEF Blank, Dots, At, Priv, Serv

LEMMA Assoc ==
    ASSUME NEW S, NEW a \in Seq(S), NEW b \in Seq(S), NEW c \in Seq(S)
    PROVE  (a \o b) \o c = a \o (b \o c)
BY ConcatAssociative

(* A sequence of two parts, and a sequence of two texts made one.          *)
LEMMA TwoParts ==
    ASSUME NEW S, NEW a \in Seq(S), NEW b \in Seq(S)
    PROVE  /\ a \o b \in Seq(S) /\ Len(a \o b) = Len(a) + Len(b)
           /\ SubSeq(a \o b, 1, Len(a)) = a
           /\ From(a \o b, Len(a) + 1) = b
<1> DEFINE t == a \o b
<1>1. /\ t \in Seq(S) /\ Len(t) = Len(a) + Len(b)
      /\ \A i \in 1..Len(a) : t[i] = a[i]
      /\ \A i \in 1..Len(b) : t[Len(a) + i] = b[i]
  BY JoinIs
<1>2. Len(a) \in Nat /\ Len(b) \in Nat
  OBVIOUS
<1> HIDE DEF t
<1>3. SubSeq(t, 1, Len(a)) = a
  <2> DEFINE p == SubSeq(t, 1, Len(a))
  <2>1. p \in Seq(S) /\ Len(p) = Len(a) /\ \A i \in 1..Len(a) : p[i] = t[i]
    BY <1>1, <1>2
  <2> HIDE DEF p
  <2>2. \A i \in 1..Len(a) : p[i] = a[i]
    BY <1>1, <2>1
  <2>3. p = a
    BY <2>1, <2>2
  <2> QED
    BY <2>3 DEF p
<1>4. From(t, Len(a) + 1) = b
  <2> DEFINE p == SubSeq(t, Len(a) + 1, Len(t))
  <2>1. p \in Seq(S) /\ Len(p) = Len(b) /\ \A i \in 1..Len(b) : p[i] = t[Len(a) + i]
    BY <1>1, <1>2
  <2> HIDE DEF p
  <2>2. p = b
    BY <1>1, <2>1
  <2> QED
    BY <2>2 DEF p, From
<1> QED
  BY <1>1, <1>3, <1>4 DEF t

LEMMA FlattenTwo ==
    ASSUME NEW S, NEW a \in Seq(S), NEW b \in Seq(S)
    PROVE  FlattenSeq(<<a, b>>) = a \o b
<1> DEFINE X == Seq(S)
<1>1. <<>> \in Seq(X) /\ <<a>> \in Seq(X) /\ <<a>> = Append(<<>>, a) /\ <<a, b>> = Append(<<a>>, b)
  OBVIOUS
<1>2. <<>> \o a = a
  OBVIOUS
<1>3. FlattenSeq(<<>>) = <<>>
  BY FlattenIs
<1>4. FlattenSeq(Append(<<>>, a)) = FlattenSeq(<<>>) \o a
  BY <1>1, FlattenIs
<1>5. FlattenSeq(Append(<<a>>, b)) = FlattenSeq(<<a>>) \o b
  BY <1>1, FlattenIs
<1> QED
  BY <1>1, <1>2, <1>3, <1>4, <1>5

(* The line that Serv sends, and what is in it.                            *)
LEMMA ServLineIs ==
    ASSUME NEW C, NEW args, Command(args) \in Seq(C), Blank \in C, Dots \in C, Priv \in C, Serv \in C
    PROVE  ServLine(args) = (<<Priv>> \o (<<Blank>> \o <<Serv>>))
              \o (<<Blank>> \o (IF NeedsColon(Command(args)) THEN <<Dots>> \o Command(args) ELSE Command(args)))
<1> DEFINE k == Command(args)
           b == <<Blank>>
           s == <<Serv>>
           p == <<Priv>>
           d == <<Dots>>
           params == <<s, k>>
           colon(i) == IF i = Len(params) /\ NeedsColon(params[i]) THEN d ELSE <<>>
           e(i) == (b \o colon(i)) \o params[i]
           m == [i \in DOMAIN params |-> e(i)]
           K == IF NeedsColon(k) THEN d \o k ELSE k
<1>1. ServLine(args) = FormatMessage(p, params)
  BY Zenon DEF ServLine, Priv, Serv, Command, Blank
<1>2. FormatMessage(p, params) = p \o FlattenSeq(m)
  BY Zenon DEF FormatMessage, Blank, Dots
<1>3. b \in Seq(C) /\ s \in Seq(C) /\ p \in Seq(C) /\ d \in Seq(C) /\ k \in Seq(C)
  OBVIOUS
<1>4. DOMAIN params = 1..2 /\ Len(params) = 2 /\ params[1] = s /\ params[2] = k
  OBVIOUS
<1> HIDE DEF params, k, b, s, p, d
<1>5. m = <<e(1), e(2)>>
  <2> HIDE DEF e
  <2> QED
    BY <1>4
<1>6. e(1) = b \o s
  <2>1. colon(1) = <<>>
    BY <1>4
  <2>2. b \o <<>> = b
    BY <1>3
  <2> QED
    BY <1>4, <2>1, <2>2
<1>7. e(2) = b \o K
  <2>1. CASE NeedsColon(k)
    <3>1. colon(2) = d /\ K = d \o k
      BY <1>4, <2>1
    <3>2. (b \o d) \o k = b \o (d \o k)
      <4>1. b \in Seq(C) /\ d \in Seq(C) /\ k \in Seq(C)
        BY <1>3
      <4> QED
        BY <4>1, Assoc
    <3> QED
      BY <1>4, <3>1, <3>2
  <2>2. CASE ~NeedsColon(k)
    <3>1. colon(2) = <<>> /\ K = k
      BY <1>4, <2>2
    <3>2. b \o <<>> = b
      BY <1>3
    <3> QED
      BY <1>4, <3>1, <3>2
  <2> QED
    BY <2>1, <2>2
<1> HIDE DEF m, e
<1>8. b \o s \in Seq(C) /\ K \in Seq(C) /\ b \o K \in Seq(C)
  BY <1>3
<1> HIDE DEF K
<1>9. FlattenSeq(m) = (b \o s) \o (b \o K)
  BY <1>5, <1>6, <1>7, <1>8, FlattenTwo
<1>10. p \o ((b \o s) \o (b \o K)) = (p \o (b \o s)) \o (b \o K)
  <2> DEFINE x == b \o s
             y == b \o K
  <2>1. x \in Seq(C) /\ y \in Seq(C)
    BY <1>8
  <2>2. p \in Seq(C)
    BY <1>3
  <2> HIDE DEF x, y
  <2>3. (p \o x) \o y = p \o (x \o y)
    BY <2>1, <2>2, Assoc
  <2> QED
    BY <2>3 DEF x, y
<1> QED
  BY <1>1, <1>2, <1>9, <1>10 DEF K, k, b, s, p, d

(* What a message is read from, when everything in front is peeled off.    *)
Fronted(line, rest) ==
    /\ Peel(line, At).ok
    /\ Peel(Peel(line, At).rest, Dots).ok
    /\ Peel(Peel(line, At).rest, Dots).rest = rest
    /\ rest # <<>> /\ rest[1] # Dots

LEMMA NothingInFront ==
    ASSUME NEW line, line # <<>>, line[1] # At, line[1] # Dots
    PROVE  Fronted(line, line)
<1>1. Peel(line, At) = [ok |-> TRUE, part |-> <<>>, rest |-> line]
  BY DEF Peel
<1>2. Peel(line, Dots) = [ok |-> TRUE, part |-> <<>>, rest |-> line]
  BY DEF Peel
<1> QED
  BY <1>1, <1>2 DEF Fronted

(* The command and the parameters of a message.                            *)
LEMMA ParseIs ==
    ASSUME NEW line, NEW rest, NEW blanks, Fronted(line, rest)
    PROVE  LET at == Colon(rest)
               words == Fields(IF at = 0 THEN rest ELSE Before(rest, at), blanks)
           IN  words # <<>> =>
                  /\ Parse(line, blanks).command = words[1]
                  /\ Parse(line, blanks).params
                        = Tail(words) \o (IF at = 0 THEN <<>> ELSE <<From(rest, at + 2)>>)
<1> DEFINE tagged == Peel(line, At)
           named == Peel(tagged.rest, Dots)
           at == Colon(named.rest)
           words == Fields(IF at = 0 THEN named.rest ELSE Before(named.rest, at), blanks)
           trailing == IF at = 0 THEN <<>> ELSE <<From(named.rest, at + 2)>>
           bare == at = 0 /\ named.rest # <<>> /\ named.rest[1] = Dots
           good == tagged.ok /\ named.ok /\ words # <<>> /\ ~bare
<1>1. Parse(line, blanks) =
         IF good THEN [ok |-> TRUE, tags |-> ParseTags(tagged.part), prefix |-> named.part,
                       command |-> words[1], params |-> Tail(words) \o trailing]
         ELSE [ok |-> FALSE, tags |-> <<>>, prefix |-> <<>>, command |-> <<>>, params |-> <<>>]
  BY Zenon DEF Parse, At, Dots
<1>2. tagged.ok /\ named.ok /\ named.rest = rest /\ ~bare
  BY DEF Fronted
<1> HIDE DEF tagged, named, bare
<1>3. words # <<>> => /\ Parse(line, blanks).command = words[1]
                      /\ Parse(line, blanks).params = Tail(words) \o trailing
  <2> HIDE DEF words, trailing
  <2> QED
    BY <1>1, <1>2
<1> QED
  BY <1>2, <1>3

LEMMA ParseBare ==
    ASSUME NEW line, NEW rest, NEW blanks, Fronted(line, rest), Colon(rest) = 0,
           NEW words, Fields(rest, blanks) = words, words # <<>>
    PROVE  Parse(line, blanks).command = words[1] /\ Parse(line, blanks).params = Tail(words) \o <<>>
BY ParseIs

LEMMA ParseTrailing ==
    ASSUME NEW line, NEW rest, NEW blanks, Fronted(line, rest), Colon(rest) # 0,
           NEW words, Fields(Before(rest, Colon(rest)), blanks) = words, words # <<>>
    PROVE  /\ Parse(line, blanks).command = words[1]
           /\ Parse(line, blanks).params = Tail(words) \o <<From(rest, Colon(rest) + 2)>>
BY ParseIs

(* A word more, with a blank in front.                                     *)
LEMMA JoinMore ==
    ASSUME NEW C, Blank \in C, NEW ss \in Seq(Seq(C)), ss # <<>>, NEW w \in Seq(C)
    PROVE  Join(Append(ss, w), <<Blank>>) = Join(ss, <<Blank>>) \o (<<Blank>> \o w)
<1>1. <<Blank>> \in Seq(C)
  OBVIOUS
<1>2. Joins(C, <<Blank>>)
  BY <1>1, JoinOn
<1> QED
  BY <1>2, Zenon DEF Joins

LEMMA JoinPair ==
    ASSUME NEW C, NEW b \in Seq(C), NEW u \in Seq(C), NEW v \in Seq(C)
    PROVE  Join(<<u, v>>, b) = u \o (b \o v)
<1> DEFINE X == Seq(C)
           one == <<u>>
           two == <<u, v>>
<1>1. Joins(C, b)
  BY JoinOn
<1>2. one \in Seq(X) /\ one # <<>> /\ two = Append(one, v)
  OBVIOUS
<1> HIDE DEF one, two
<1>3. Join(one, b) = u
  BY <1>1, Zenon DEF Joins, one
<1>4. Join(Append(one, v), b) = Join(one, b) \o (b \o v)
  BY <1>1, <1>2, Zenon DEF Joins
<1> QED
  BY <1>2, <1>3, <1>4, Zenon DEF two

LEMMA JoinTwo ==
    ASSUME NEW C, Blank \in C, NEW u \in Seq(C), NEW v \in Seq(C)
    PROVE  Join(<<u, v>>, <<Blank>>) = u \o (<<Blank>> \o v)
<1>1. <<Blank>> \in Seq(C)
  OBVIOUS
<1> QED
  BY <1>1, JoinPair

LEMMA PairIs ==
    ASSUME NEW S, NEW a \in S, NEW b \in S
    PROVE  <<a>> \o <<b>> = <<a, b>>
<1> DEFINE s == <<a>>
           t == <<b>>
           u == <<a, b>>
<1>1. s \in Seq(S) /\ Len(s) = 1 /\ s[1] = a
  OBVIOUS
<1>2. t \in Seq(S) /\ Len(t) = 1 /\ t[1] = b
  OBVIOUS
<1>3. u \in Seq(S) /\ Len(u) = 2 /\ u[1] = a /\ u[2] = b
  OBVIOUS
<1> HIDE DEF s, t, u
<1>4. /\ s \o t \in Seq(S) /\ Len(s \o t) = 2
      /\ (s \o t)[1] = a /\ (s \o t)[2] = b
  <2>1. /\ s \o t \in Seq(S) /\ Len(s \o t) = Len(s) + Len(t)
        /\ \A i \in 1..Len(s) : (s \o t)[i] = s[i]
        /\ \A i \in 1..Len(t) : (s \o t)[Len(s) + i] = t[i]
    BY <1>1, <1>2, JoinIs
  <2>2. 1 \in 1..Len(s) /\ 1 \in 1..Len(t) /\ Len(s) + 1 = 2 /\ Len(s) + Len(t) = 2
    BY <1>1, <1>2
  <2>3. (s \o t)[1] = s[1]
    BY <2>1, <2>2
  <2>4. (s \o t)[Len(s) + 1] = t[1]
    BY <2>1, <2>2
  <2> QED
    BY <1>1, <1>2, <2>1, <2>2, <2>3, <2>4
<1> DEFINE v == s \o t
<1>5. v \in Seq(S) /\ Len(v) = 2 /\ \A i \in 1..2 : v[i] = u[i]
  BY <1>3, <1>4
<1> HIDE DEF v
<1>6. v = u
  BY <1>3, <1>5
<1> QED
  BY <1>6 DEF v, s, t, u

(* In front of the last parameter of a command for BouncerServ.            *)
LEMMA ServFront ==
    ASSUME NEW C, Blank \in C, Priv \in C, Serv \in C, NEW r \in Seq(C)
    PROVE  LET line == (<<Priv>> \o (<<Blank>> \o <<Serv>>)) \o (<<Blank>> \o r)
           IN  /\ line \in Seq(C) /\ Len(line) = 4 + Len(r)
               /\ line[1] = Priv /\ line[2] = Blank /\ line[3] = Serv /\ line[4] = Blank
               /\ \A i \in 1..Len(r) : line[4 + i] = r[i]
               /\ Before(line, 4) = <<Priv>> \o (<<Blank>> \o <<Serv>>)
<1> DEFINE b == <<Blank>>
           x == b \o <<Serv>>
           f == <<Priv>> \o x
           g == b \o r
           line == f \o g
<1>1. f \in Seq(C) /\ Len(f) = 3 /\ f[1] = Priv /\ f[2] = Blank /\ f[3] = Serv
  OBVIOUS
<1>2. g \in Seq(C) /\ Len(g) = 1 + Len(r) /\ g[1] = Blank /\ \A i \in 1..Len(r) : g[1 + i] = r[i]
  <2>1. b \in Seq(C) /\ Len(b) = 1 /\ b[1] = Blank
    OBVIOUS
  <2> HIDE DEF b
  <2> QED
    BY <2>1, JoinIs
<1> HIDE DEF f, g
<1>3. /\ line \in Seq(C) /\ Len(line) = Len(f) + Len(g)
      /\ \A i \in 1..Len(f) : line[i] = f[i]
      /\ \A i \in 1..Len(g) : line[Len(f) + i] = g[i]
  <2>1. f \in Seq(C) /\ g \in Seq(C)
    BY <1>1, <1>2
  <2> QED
    BY <2>1, JoinIs
<1>4. SubSeq(line, 1, Len(f)) = f
  BY <1>1, <1>2, TwoParts
<1> HIDE DEF line
<1>5. Len(line) = 4 + Len(r) /\ line[1] = Priv /\ line[2] = Blank /\ line[3] = Serv /\ line[4] = Blank
  BY <1>1, <1>2, <1>3
<1>6. ASSUME NEW i \in 1..Len(r) PROVE line[4 + i] = r[i]
  <2>1. 1 + i \in 1..Len(g) /\ Len(f) + (1 + i) = 4 + i
    BY <1>1, <1>2
  <2> QED
    BY <1>2, <1>3, <2>1
<1>7. Before(line, 4) = f
  BY <1>1, <1>4 DEF Before
<1> QED
  BY <1>3, <1>5, <1>6, <1>7 DEF line, f, g

(* soju gets a command as it was sent, with a colon in front or without.   *)
LEMMA CommandReceived ==
    ASSUME NEW C, NEW args, Command(args) \in Seq(C), Blank \in C, Dots \in C, Priv \in C, Serv \in C
    PROVE  Param(SojuParse(ServLine(args)), 1) = Command(args)
<1> DEFINE k == Command(args)
           r == IF NeedsColon(k) THEN <<Dots>> \o k ELSE k
           f == <<Priv>> \o (<<Blank>> \o <<Serv>>)
           line == f \o (<<Blank>> \o r)
           B == {Blank}
           m == Parse(line, B)
<1>1. ServLine(args) = line /\ SojuParse(line) = m
  BY ServLineIs, Zenon DEF SojuParse, Blank
<1>2. r \in Seq(C) /\ k \in Seq(C)
  OBVIOUS
<1> HIDE DEF r, f, k
<1>3. /\ line \in Seq(C) /\ Len(line) = 4 + Len(r)
      /\ line[1] = Priv /\ line[2] = Blank /\ line[3] = Serv /\ line[4] = Blank
      /\ \A i \in 1..Len(r) : line[4 + i] = r[i]
      /\ Before(line, 4) = f
  BY <1>2, ServFront DEF f
<1> HIDE DEF line
<1>4. Fronted(line, line)
  <2>1. line # <<>> /\ line[1] # At /\ line[1] # Dots
    BY <1>2, <1>3, LettersApart
  <2> QED
    BY <2>1, NothingInFront
<1> DEFINE I == {i \in 1..Len(line) - 1 : line[i] = Blank /\ line[i + 1] = Dots}
<1>5. Colon(line) = IF I = {} THEN 0 ELSE Min(I)
  BY Zenon DEF Colon, Blank, Dots
<1>6. NeedsColon(k) <=> k = <<>> \/ Blank \in ToSet(k) \/ k[1] = Dots
  BY Zenon DEF NeedsColon, Blank, Dots
<1>7. <<Priv>> \in Words(C, B) /\ <<Serv>> \in Words(C, B)
  BY LettersApart DEF Words
<1>8. I \in SUBSET Nat /\ \A i \in I : i \in 1..Len(line) - 1 /\ line[i] = Blank /\ line[i + 1] = Dots
  OBVIOUS
<1>9. Blank \in B /\ \A c \in C : c \in B <=> c = Blank
  OBVIOUS
<1> DEFINE p1 == <<Priv>>
           s1 == <<Serv>>
           two == <<p1, s1>>
           three == <<p1, s1, k>>
<1>10. p1 \in Words(C, B) /\ s1 \in Words(C, B) /\ p1 \in Seq(C) /\ s1 \in Seq(C)
  BY <1>7
<1> HIDE DEF m, B, I
<1>11. CASE NeedsColon(k)
  <2>1. r = <<Dots>> \o k
    BY <1>11 DEF r
  <2>2. Len(r) = 1 + Len(k) /\ r[1] = Dots /\ \A i \in 1..Len(k) : r[1 + i] = k[i]
    BY <1>2, <2>1
  <2>3. Len(line) = 5 + Len(k) /\ line[5] = Dots /\ \A i \in 1..Len(k) : line[5 + i] = k[i]
    <3>1. 1 \in 1..Len(r) /\ 4 + 1 = 5 /\ Len(k) \in Nat
      BY <1>2, <2>2
    <3>2. \A i \in 1..Len(k) : 1 + i \in 1..Len(r) /\ 4 + (1 + i) = 5 + i
      BY <2>2, <3>1
    <3>3. line[5] = Dots
      BY <1>3, <2>2, <3>1
    <3>4. ASSUME NEW i \in 1..Len(k) PROVE line[5 + i] = k[i]
      <4>1. line[4 + (1 + i)] = r[1 + i]
        BY <1>3, <3>2
      <4> QED
        BY <2>2, <3>2, <4>1
    <3>5. Len(line) = 5 + Len(k)
      BY <1>3, <2>2, <3>1
    <3> QED
      BY <3>3, <3>4, <3>5
  <2>4. 4 \in I
    <3>1. 4 \in 1..Len(line) - 1 /\ line[4] = Blank /\ line[4 + 1] = Dots
      BY <1>2, <1>3, <2>3
    <3> QED
      BY <3>1 DEF I
  <2>5. ASSUME NEW i \in I PROVE i >= 4
    <3>1. i \in Nat /\ i # 0 /\ line[i] = Blank
      BY <1>8
    <3>2. i # 1 /\ i # 3
      BY <1>3, <3>1, LettersApart
    <3>3. i # 2
      BY <1>3, <1>8, LettersApart
    <3> QED
      BY <3>1, <3>2, <3>3
  <2>6. Colon(line) = 4
    <3>1. Min(I) \in I /\ Min(I) <= 4
      BY <1>8, <2>4, FirstIndex
    <3>2. Min(I) \in Nat /\ Min(I) >= 4
      BY <1>8, <2>5, <3>1
    <3> QED
      BY <1>5, <2>4, <3>1, <3>2
  <2>7. Fields(f, B) = two
    <3>1. f = Join(two, <<Blank>>)
      BY <1>10, JoinTwo DEF f
    <3>2. two \in Seq(Words(C, B))
      BY <1>10
    <3> HIDE DEF two
    <3> QED
      BY <1>9, <3>1, <3>2, FieldsJoined
  <2>8. From(line, 6) = k
    <3> DEFINE x == SubSeq(line, 6, Len(line))
    <3>1. x \in Seq(C) /\ Len(x) = Len(k) /\ \A i \in 1..Len(k) : x[i] = line[5 + i]
      BY <1>2, <1>3, <2>3
    <3> HIDE DEF x
    <3>2. \A i \in 1..Len(k) : x[i] = k[i]
      BY <2>3, <3>1
    <3>3. k \in Seq(C)
      BY <1>2
    <3>4. x = k
      BY <3>1, <3>2, <3>3
    <3> QED
      BY <3>4 DEF x, From
  <2>9. m.params = Tail(two) \o <<From(line, 4 + 2)>>
    <3>1. two # <<>>
      OBVIOUS
    <3>2. Colon(line) # 0 /\ Fields(Before(line, Colon(line)), B) = two
      BY <1>3, <2>6, <2>7
    <3> HIDE DEF two
    <3>3. m.params = Tail(two) \o <<From(line, Colon(line) + 2)>>
      BY <1>4, <3>1, <3>2, ParseTrailing DEF m
    <3> QED
      BY <2>6, <3>3
  <2>10. m.params = <<s1, k>>
    <3>1. 4 + 2 = 6
      OBVIOUS
    <3>2. Tail(two) = <<s1>>
      OBVIOUS
    <3> HIDE DEF two
    <3>3. m.params = <<s1>> \o <<k>>
      BY <2>8, <2>9, <3>1, <3>2
    <3>4. <<s1>> \o <<k>> = <<s1, k>>
      BY <1>2, <1>10, PairIs
    <3> QED
      BY <3>3, <3>4, Zenon
  <2> QED
    BY <1>1, <2>10 DEF Param, k
<1>12. CASE ~NeedsColon(k)
  <2>1. r = k
    BY <1>12 DEF r
  <2>2. k # <<>> /\ k[1] # Dots /\ \A i \in 1..Len(k) : k[i] # Blank
    <3>1. k # <<>> /\ k[1] # Dots /\ Blank \notin ToSet(k)
      BY <1>6, <1>12
    <3>2. \A i \in 1..Len(k) : k[i] \in ToSet(k)
      BY <1>2 DEF ToSet
    <3> QED
      BY <3>1, <3>2
  <2>3. Len(line) = 4 + Len(k) /\ \A i \in 1..Len(k) : line[4 + i] = k[i]
    BY <1>3, <2>1
  <2>4. ASSUME NEW i \in I PROVE FALSE
    <3>1. i \in 1..Len(line) - 1 /\ line[i] = Blank /\ line[i + 1] = Dots
      BY <1>8
    <3>2. i # 1 /\ i # 3
      BY <1>3, <3>1, LettersApart
    <3>3. i # 2
      BY <1>3, <3>1, LettersApart
    <3>4. i # 4
      <4>1. 1 \in 1..Len(k) /\ 4 + 1 = 5
        BY <1>2, <2>2
      <4> QED
        BY <2>2, <2>3, <3>1, <4>1
    <3>5. i - 4 \in 1..Len(k) /\ 4 + (i - 4) = i
      BY <1>2, <2>3, <3>1, <3>2, <3>3, <3>4
    <3> QED
      BY <2>2, <2>3, <3>1, <3>5
  <2>5. Colon(line) = 0
    BY <1>5, <2>4
  <2>6. k \in Words(C, B)
    <3>1. \A i \in 1..Len(k) : k[i] \in C \ B
      BY <1>2, <1>9, <2>2
    <3>2. k \in Seq(C \ B)
      BY <1>2, <3>1
    <3> QED
      BY <2>2, <3>2 DEF Words
  <2>7. Fields(line, B) = three
    <3>1. line = Join(three, <<Blank>>)
      <4>1. Join(three, <<Blank>>) = (p1 \o (<<Blank>> \o s1)) \o (<<Blank>> \o k)
        <5>1. k \in Seq(C)
          BY <1>2
        <5> HIDE DEF p1, s1
        <5> QED
          <6>1. two \in Seq(Seq(C)) /\ two # <<>> /\ three = Append(two, k)
            BY <1>10, <5>1
          <6>2. Join(two, <<Blank>>) = p1 \o (<<Blank>> \o s1)
            BY <1>10, JoinTwo
          <6> HIDE DEF two, three
          <6>3. Join(Append(two, k), <<Blank>>) = Join(two, <<Blank>>) \o (<<Blank>> \o k)
            BY <5>1, <6>1, JoinMore
          <6> QED
            BY <6>1, <6>2, <6>3, Zenon
      <4>2. line = (p1 \o (<<Blank>> \o s1)) \o (<<Blank>> \o k)
        BY <2>1, Zenon DEF line, f
      <4> QED
        BY <4>1, <4>2, Zenon
    <3>2. three \in Seq(Words(C, B))
      BY <1>10, <2>6
    <3> HIDE DEF three
    <3> QED
      BY <1>9, <3>1, <3>2, FieldsJoined
  <2>8. m.params = Tail(three) \o <<>>
    <3>1. three # <<>>
      OBVIOUS
    <3> HIDE DEF three
    <3> QED
      BY <1>4, <2>5, <2>7, <3>1, ParseBare DEF m
  <2>9. m.params = <<s1, k>>
    BY <2>8
  <2> QED
    BY <1>1, <2>9 DEF Param, k
<1> QED
  BY <1>11, <1>12

-----------------------------------------------------------------------------
(* Commands get through.                                                   *)

LEMMA Trimmed ==
    ASSUME NEW C, NEW s \in Seq(C)
    PROVE  TrimSpace(s) \in Seq(C)
<1> DEFINE I == {i \in DOMAIN s : s[i] \notin White}
<1>1. CASE I = {}
  BY <1>1 DEF TrimSpace
<1>2. CASE I # {}
  <2>1. Len(s) \in Nat /\ DOMAIN s = 1..Len(s)
    OBVIOUS
  <2>2. I \in SUBSET (1..Len(s)) /\ I \in SUBSET Nat
    BY <2>1
  <2>3. TrimSpace(s) = SubSeq(s, Min(I), Max(I))
    BY <1>2 DEF TrimSpace
  <2> HIDE DEF I
  <2>4. Min(I) \in I
    BY <1>2, <2>2, FirstIndex
  <2>5. Max(I) \in I
    BY <1>2, <2>1, <2>2, GreatestIsMax
  <2>6. Min(I) \in 1..Len(s) /\ Max(I) \in 1..Len(s)
    BY <2>2, <2>4, <2>5
  <2>7. SubSeq(s, Min(I), Max(I)) \in Seq(C)
    BY <2>6
  <2> QED
    BY <2>3, <2>7
<1> QED
  BY <1>1, <1>2

(* The words of a command somebody typed are made of its letters.          *)
LEMMA TypedWords ==
    ASSUME NEW C, NEW s \in Seq(C)
    PROVE  Typed(s).words \in Seq(Seq(C))
<1> DEFINE t == TrimSpace(s)
           w == ReadWords(t)
<1>1. t \in Seq(C)
  BY Trimmed
<1>2. w = After(WordStep(C), Word, t)
  BY <1>1, ReadWordsIs
<1>3. w \in WordState(C)
  <2>1. Word \in WordState(C)
    BY WordStepIs
  <2> QED
    BY <1>1, <1>2, <2>1, WordsRead, Zenon DEF ReadsOn
<1>4. Typed(s) = [ok |-> w.delim = Blank /\ ~w.escape,
                  words |-> IF w.prev \in White THEN w.words ELSE Append(w.words, w.word)]
  BY Zenon DEF Typed, SplitWords, Blank
<1> HIDE DEF w
<1>5. w.words \in Seq(Seq(C)) /\ w.word \in Seq(C)
  BY <1>3 DEF WordState
<1>6. Append(w.words, w.word) \in Seq(Seq(C))
  BY <1>5
<1> QED
  BY <1>4, <1>5, <1>6

(* A command that is a sequence of such arguments is one for BouncerServ.  *)
LEMMA SentAndReceived ==
    ASSUME NEW C, "\\" \in C, Mark \in C, Blank \in C, Dots \in C, Priv \in C, Serv \in C,
           NEW args \in Seq(Sendable(C))
    PROVE  Received(args) = [ok |-> TRUE, words |-> args]
<1>1. Command(args) \in Seq(C) /\ SplitWords(Command(args)) = [ok |-> TRUE, words |-> args]
  BY CommandSplit
<1>2. Param(SojuParse(ServLine(args)), 1) = Command(args)
  BY <1>1, CommandReceived
<1> QED
  BY <1>1, <1>2 DEF Received

(* BouncerServ gets the arguments that were meant, whatever the letters of *)
(* the text and however many, if only no argument that needs no quotes has *)
(* an apostrophe in it (client.go:367-379, irc.go:75-87, 150-193).         *)
THEOREM CommandsGetThrough == Spec => []CommandCarried
<1>1. TextInv => CommandCarried
  <2> SUFFICES ASSUME TextInv, NEW args \in Commands, ~\E i \in DOMAIN args : Apostrophe(args[i])
               PROVE  Received(args) = [ok |-> TRUE, words |-> args]
    BY DEF CommandCarried
  <2> DEFINE L == Letters \cup {"update", "-nick"}
             C == L \cup {"\\", Mark, Blank, Dots, Priv, Serv}
  <2>1. \A c \in L : c # "\r" /\ c # "\n"
    BY TextAssumption, Zenon
  <2>2. args \in Seq(Seq(L))
    <3>1. text \in Seq(L) /\ <<"update">> \in Seq(L) /\ <<"-nick">> \in Seq(L) /\ <<>> \in Seq(L)
      BY DEF TextInv
    <3> DEFINE u == <<"update">>
               n == <<"-nick">>
    <3>2. CASE args = <<text>> \/ args = <<u, text>> \/ args = <<text, n, <<>> >>
      <4> HIDE DEF L, u, n
      <4>1. text \in Seq(L) /\ u \in Seq(L) /\ n \in Seq(L) /\ <<>> \in Seq(L)
        BY <3>1 DEF u, n
      <4> DEFINE X == Seq(L)
      <4>2. text \in X /\ u \in X /\ n \in X /\ <<>> \in X
        BY <4>1
      <4> HIDE DEF X
      <4>3. <<text>> \in Seq(X)
        BY <4>2
      <4>4. <<u, text>> \in Seq(X)
        BY <4>2
      <4>5. \A e \in X : <<text, n, e>> \in Seq(X)
        BY <4>2
      <4>6. <<text, n, <<>> >> \in Seq(X)
        BY <4>2, <4>5
      <4> QED
        BY <3>2, <4>3, <4>4, <4>6, Zenon DEF X
    <3>3. CASE args = Typed(text).words
      BY <3>1, <3>3, TypedWords
    <3> QED
      BY <3>2, <3>3, Zenon DEF Commands
  <2>3. args \in Seq(Sendable(C))
    <3>1. DOMAIN args = 1..Len(args) /\ \A i \in 1..Len(args) : args[i] \in Seq(L)
      BY <2>2
    <3> HIDE DEF C
    <3>2. L \subseteq C
      BY DEF C
    <3> HIDE DEF L
    <3>3. ASSUME NEW i \in 1..Len(args) PROVE args[i] \in Sendable(C)
      <4> DEFINE a == args[i]
      <4>1. a \in Seq(L) /\ ~Apostrophe(a)
        BY <3>1
      <4> HIDE DEF a
      <4>2. a \in Seq(C)
        BY <3>2, <4>1
      <4>3. \A c \in ToSet(a) : c \in L
        BY <4>1 DEF ToSet
      <4>4. ToSet(a) \cap {"\r", "\n"} = {}
        BY <2>1, <4>3, Zenon
      <4> QED
        BY <4>1, <4>2, <4>4, Zenon DEF Sendable, a
    <3> QED
      BY <2>2, <3>3
  <2>4. "\\" \in C /\ Mark \in C /\ Blank \in C /\ Dots \in C /\ Priv \in C /\ Serv \in C
    BY Zenon
  <2> HIDE DEF C
  <2> QED
    BY <2>3, <2>4, SentAndReceived
<1> QED
  BY <1>1, InvText, PTL

-----------------------------------------------------------------------------
(* Values of tags.                                                         *)

Semi == ";"
Backslash == "\\"

(* What a value is escaped for: a letter that no value has then.           *)
Ends == {Semi, Blank, "\r", "\n"}

(* The letters that escapes are made of, and those that they stand for.    *)
Escapable(C) ==
    /\ Backslash \in C /\ Semi \in C /\ Blank \in C /\ "\r" \in C /\ "\n" \in C
    /\ Dots \in C /\ "s" \in C /\ "r" \in C /\ "n" \in C

Clean(C) == C \ Ends

Pure(c) == EscapeLetter(c) = <<c>> /\ c # Backslash /\ c \notin Ends

(* A letter is written as it is, or as one that reads back as it.          *)
LEMMA EscapeLetterIs ==
    ASSUME NEW C, Escapable(C), NEW c \in C
    PROVE  \/ Pure(c)
           \/ \E d \in Clean(C) : EscapeLetter(c) = <<Backslash, d>> /\ UnescapeLetter(d) = c
<1>1. CASE c = "\\"
  <2>1. EscapeLetter(c) = <<Backslash, "\\">>
    BY <1>1, Zenon DEF EscapeLetter, Backslash
  <2>2. UnescapeLetter("\\") = c
    BY <1>1, Zenon DEF UnescapeLetter
  <2>3. "\\" \in Clean(C)
    BY Zenon DEF Clean, Ends, Escapable, Semi, Blank, Backslash
  <2> QED
    BY <2>1, <2>2, <2>3, Zenon
<1>2. CASE c = ";"
  <2>1. EscapeLetter(c) = <<Backslash, ":">>
    BY <1>2, Zenon DEF EscapeLetter, Backslash
  <2>2. UnescapeLetter(":") = c
    BY <1>2, Zenon DEF UnescapeLetter
  <2>3. ":" \in Clean(C)
    BY Zenon DEF Clean, Ends, Escapable, Semi, Blank, Backslash, Dots
  <2> QED
    BY <2>1, <2>2, <2>3, Zenon
<1>3. CASE c = " "
  <2>1. EscapeLetter(c) = <<Backslash, "s">>
    BY <1>3, Zenon DEF EscapeLetter, Backslash
  <2>2. UnescapeLetter("s") = c
    BY <1>3, Zenon DEF UnescapeLetter
  <2>3. "s" \in Clean(C)
    BY Zenon DEF Clean, Ends, Escapable, Semi, Blank, Backslash
  <2> QED
    BY <2>1, <2>2, <2>3, Zenon
<1>4. CASE c = "\r"
  <2>1. EscapeLetter(c) = <<Backslash, "r">>
    BY <1>4, Zenon DEF EscapeLetter, Backslash
  <2>2. UnescapeLetter("r") = c
    BY <1>4, Zenon DEF UnescapeLetter
  <2>3. "r" \in Clean(C)
    BY Zenon DEF Clean, Ends, Escapable, Semi, Blank, Backslash
  <2> QED
    BY <2>1, <2>2, <2>3, Zenon
<1>5. CASE c = "\n"
  <2>1. EscapeLetter(c) = <<Backslash, "n">>
    BY <1>5, Zenon DEF EscapeLetter, Backslash
  <2>2. UnescapeLetter("n") = c
    BY <1>5, Zenon DEF UnescapeLetter
  <2>3. "n" \in Clean(C)
    BY Zenon DEF Clean, Ends, Escapable, Semi, Blank, Backslash
  <2> QED
    BY <2>1, <2>2, <2>3, Zenon
<1>6. CASE c \notin {"\\", ";", " ", "\r", "\n"}
  BY <1>6, Zenon DEF EscapeLetter, Pure, Ends, Semi, Blank, Backslash
<1> QED
  BY <1>1, <1>2, <1>3, <1>4, <1>5, <1>6, Zenon

LEMMA UnescapeLetterIs ==
    ASSUME NEW C, Escapable(C), NEW c \in C
    PROVE  UnescapeLetter(c) \in C
<1>1. CASE c = ":"
  BY <1>1, Zenon DEF UnescapeLetter, Escapable, Semi
<1>2. CASE c = "s"
  BY <1>2, Zenon DEF UnescapeLetter, Escapable, Blank
<1>3. CASE c = "r"
  BY <1>3, Zenon DEF UnescapeLetter, Escapable
<1>4. CASE c = "n"
  BY <1>4, Zenon DEF UnescapeLetter, Escapable
<1>5. CASE c \notin {":", "s", "r", "n"}
  BY <1>5, Zenon DEF UnescapeLetter
<1> QED
  BY <1>1, <1>2, <1>3, <1>4, <1>5, Zenon

ValueState(C) == [out : Seq(C), escape : BOOLEAN]

ValueStep(C) == [x \in ValueState(C) \X C |-> ValueLetter(x[1], x[2])]

NoValue == [out |-> <<>>, escape |-> FALSE]

LEMMA ValueLetterIs ==
    ASSUME NEW C, NEW r \in ValueState(C), NEW c
    PROVE  /\ r.escape => ValueLetter(r, c) = [out |-> Append(r.out, UnescapeLetter(c)), escape |-> FALSE]
           /\ ~r.escape /\ c = Backslash => ValueLetter(r, c) = [out |-> r.out, escape |-> TRUE]
           /\ ~r.escape /\ c # Backslash => ValueLetter(r, c) = [out |-> Append(r.out, c), escape |-> FALSE]
<1>1. r = [out |-> r.out, escape |-> r.escape] /\ r.escape \in BOOLEAN
  BY DEF ValueState
<1> QED
  BY <1>1 DEF ValueLetter, Backslash

LEMMA ValueStepIs ==
    ASSUME NEW C, Escapable(C)
    PROVE  /\ NoValue \in ValueState(C)
           /\ ValueStep(C) \in [ValueState(C) \X C -> ValueState(C)]
           /\ \A r \in ValueState(C), c \in C : ValueStep(C)[<<r, c>>] = ValueLetter(r, c)
<1>1. NoValue \in ValueState(C)
  BY DEF NoValue, ValueState
<1>2. ASSUME NEW r \in ValueState(C), NEW c \in C PROVE ValueLetter(r, c) \in ValueState(C)
  <2>1. r.out \in Seq(C) /\ r.escape \in BOOLEAN
    BY DEF ValueState
  <2>2. UnescapeLetter(c) \in C
    BY UnescapeLetterIs
  <2>3. Append(r.out, c) \in Seq(C) /\ Append(r.out, UnescapeLetter(c)) \in Seq(C)
    BY <2>1, <2>2
  <2>4. /\ [out |-> Append(r.out, UnescapeLetter(c)), escape |-> FALSE] \in ValueState(C)
        /\ [out |-> r.out, escape |-> TRUE] \in ValueState(C)
        /\ [out |-> Append(r.out, c), escape |-> FALSE] \in ValueState(C)
    BY <2>1, <2>3 DEF ValueState
  <2>5. /\ r.escape => ValueLetter(r, c) = [out |-> Append(r.out, UnescapeLetter(c)), escape |-> FALSE]
        /\ ~r.escape /\ c = Backslash => ValueLetter(r, c) = [out |-> r.out, escape |-> TRUE]
        /\ ~r.escape /\ c # Backslash => ValueLetter(r, c) = [out |-> Append(r.out, c), escape |-> FALSE]
    BY ValueLetterIs
  <2> QED
    BY <2>4, <2>5, Zenon
<1>3. \A x \in ValueState(C) \X C : ValueLetter(x[1], x[2]) \in ValueState(C)
  BY <1>2
<1> QED
  BY <1>1, <1>3 DEF ValueStep

(* A value is read letter by letter.                                       *)
LEMMA ReadValueIs ==
    ASSUME NEW C, Escapable(C), NEW s \in Seq(C)
    PROVE  ReadValue(s) = After(ValueStep(C), NoValue, s)
<1> DEFINE W(g) == g = [i \in 0..Len(s) |-> IF i = 0 THEN NoValue ELSE ValueLetter(g[i - 1], s[i])]
           f == CHOOSE g : W(g)
           Z == ValueState(C)
           F == ValueStep(C)
<1>1. ReadValue(s) = f[Len(s)]
  BY Zenon DEF ReadValue, NoValue
<1>2. /\ Reader(C, Z, F, NoValue)
      /\ \A w \in Z, c \in C : F[<<w, c>>] = ValueLetter(w, c)
  BY ValueStepIs, Zenon DEF Reader
<1> HIDE DEF f, Z, F
<1>3. PICK g : /\ Way(F, NoValue, s, g)
               /\ \A i \in 0..Len(s) : g[i] \in Z
               /\ \A i \in 0..Len(s) : g[i] = IF i = 0 THEN NoValue ELSE F[<<g[i - 1], s[i]>>]
  BY <1>2, TypedWay
<1> DEFINE h == [i \in 0..Len(s) |-> g[i]]
<1>4. ASSUME NEW i \in 0..Len(s) PROVE h[i] = IF i = 0 THEN NoValue ELSE ValueLetter(h[i - 1], s[i])
  <2>1. CASE i = 0
    BY <1>3, <2>1
  <2>2. CASE i # 0
    <3>1. i - 1 \in 0..Len(s) /\ s[i] \in C
      BY <2>2
    <3>2. g[i - 1] \in Z /\ h[i] = g[i] /\ h[i - 1] = g[i - 1]
      BY <1>3, <3>1
    <3>3. g[i] = F[<<g[i - 1], s[i]>>]
      BY <1>3, <2>2
    <3>4. F[<<g[i - 1], s[i]>>] = ValueLetter(g[i - 1], s[i])
      BY <1>2, <3>1, <3>2
    <3> QED
      BY <2>2, <3>2, <3>3, <3>4, Zenon
  <2> QED
    BY <2>1, <2>2, Zenon
<1>5. h = [i \in 0..Len(s) |-> h[i]]
  OBVIOUS
<1> HIDE DEF h
<1>6. W(h)
  BY <1>4, <1>5, Zenon
<1>7. W(f)
  <2> HIDE DEF W
  <2> QED
    BY <1>6, Zenon DEF f
<1>8. \A i \in 0..Len(s) : f[i] = IF i = 0 THEN NoValue ELSE ValueLetter(f[i - 1], s[i])
  <2> DEFINE v(i) == IF i = 0 THEN NoValue ELSE ValueLetter(f[i - 1], s[i])
  <2>1. f = [i \in 0..Len(s) |-> v(i)]
    BY <1>7, Zenon
  <2> HIDE DEF v
  <2>2. \A i \in 0..Len(s) : f[i] = v(i)
    BY <2>1
  <2> QED
    BY <2>2, Zenon DEF v
<1> HIDE DEF W
<1>9. ASSUME NEW i \in 1..Len(s), f[i - 1] \in Z PROVE f[i] = F[<<f[i - 1], s[i]>>]
  <2>1. i \in 0..Len(s) /\ i # 0 /\ s[i] \in C
    OBVIOUS
  <2>2. F[<<f[i - 1], s[i]>>] = ValueLetter(f[i - 1], s[i])
    BY <1>2, <1>9, <2>1, Zenon
  <2> QED
    BY <1>8, <2>1, <2>2, Zenon
<1>10. f[0] = NoValue
  <2>1. 0 \in 0..Len(s)
    OBVIOUS
  <2> QED
    BY <1>8, <2>1, Zenon
<1>11. Goes(C, Z, F, NoValue, s, f)
  BY <1>2, <1>9, <1>10, Zenon DEF Goes, Reader
<1>12. f[Len(s)] = After(F, NoValue, s)
  BY <1>11, SameAfter
<1> QED
  BY <1>1, <1>12 DEF F

LEMMA ValuesRead ==
    ASSUME NEW C, Escapable(C)
    PROVE  ReadsOn(C, ValueState(C), ValueStep(C))
<1>1. ValueStep(C) \in [ValueState(C) \X C -> ValueState(C)]
  BY ValueStepIs
<1> QED
  BY <1>1, InParts

LEMMA ValuesOn ==
    ASSUME NEW C, Escapable(C), NEW r \in ValueState(C), NEW s \in Seq(C), NEW t \in Seq(C)
    PROVE  After(ValueStep(C), r, s \o t) = After(ValueStep(C), After(ValueStep(C), r, s), t)
BY ValuesRead, Zenon DEF ReadsOn

LEMMA ValueOn ==
    ASSUME NEW C, Escapable(C), NEW r \in ValueState(C), NEW c \in C
    PROVE  After(ValueStep(C), r, <<c>>) = ValueLetter(r, c)
<1>1. After(ValueStep(C), r, <<c>>) = ValueStep(C)[<<r, c>>]
  BY ValuesRead, Zenon DEF ReadsOn
<1>2. ValueStep(C)[<<r, c>>] = ValueLetter(r, c)
  BY ValueStepIs, Zenon
<1> QED
  BY <1>1, <1>2, Zenon

LEMMA ValueOff ==
    ASSUME NEW C, Escapable(C), NEW r \in ValueState(C)
    PROVE  After(ValueStep(C), r, <<>>) = r
BY ValuesRead, Zenon DEF ReadsOn

(* No letter that ends a value is in one that is escaped.                  *)
LEMMA EscapedLetters ==
    ASSUME NEW C, Escapable(C), NEW c \in C
    PROVE  EscapeLetter(c) \in Seq(Clean(C))
<1>1. CASE Pure(c)
  <2>1. c \in Clean(C) /\ EscapeLetter(c) = <<c>>
    BY <1>1, Zenon DEF Clean, Pure
  <2> QED
    BY <2>1
<1>2. ASSUME NEW d \in Clean(C), EscapeLetter(c) = <<Backslash, d>> PROVE EscapeLetter(c) \in Seq(Clean(C))
  <2>1. Backslash \in Clean(C)
    BY Zenon DEF Clean, Ends, Escapable, Semi, Blank, Backslash
  <2> QED
    BY <1>2, <2>1
<1> QED
  BY <1>1, <1>2, EscapeLetterIs

LEMMA EscapedIs ==
    ASSUME NEW C, Escapable(C)
    PROVE  /\ EscapeTagValue(<<>>) = <<>>
           /\ \A v \in Seq(C) : EscapeTagValue(v) \in Seq(Clean(C))
           /\ \A v \in Seq(C), c \in C : EscapeTagValue(Append(v, c)) = EscapeTagValue(v) \o EscapeLetter(c)
<1> DEFINE E == [c \in C |-> EscapeLetter(c)]
           D == Clean(C)
<1>1. E \in [C -> Seq(D)] /\ \A c \in C : E[c] = EscapeLetter(c)
  BY EscapedLetters
<1> HIDE DEF E, D
<1>2. Spells(C, D, E)
  BY <1>1, SpelledIs
<1>3. ASSUME NEW v \in Seq(C) PROVE EscapeTagValue(v) = Spelled(E, v)
  <2>1. \A i \in DOMAIN v : E[v[i]] = EscapeLetter(v[i])
    BY <1>1
  <2>2. [i \in DOMAIN v |-> EscapeLetter(v[i])] = [i \in DOMAIN v |-> E[v[i]]]
    BY <2>1
  <2> QED
    BY <2>2, Zenon DEF EscapeTagValue, Spelled
<1>4. <<>> \in Seq(C) /\ \A v \in Seq(C), c \in C : Append(v, c) \in Seq(C)
  OBVIOUS
<1>5. EscapeTagValue(<<>>) = <<>>
  BY <1>2, <1>3, <1>4, Zenon DEF Spells
<1>6. \A v \in Seq(C) : EscapeTagValue(v) \in Seq(D)
  BY <1>2, <1>3, Zenon DEF Spells
<1>7. ASSUME NEW v \in Seq(C), NEW c \in C
      PROVE  EscapeTagValue(Append(v, c)) = EscapeTagValue(v) \o EscapeLetter(c)
  <2>1. Spelled(E, Append(v, c)) = Spelled(E, v) \o E[c]
    BY <1>2, Zenon DEF Spells
  <2> QED
    BY <1>1, <1>3, <1>4, <2>1
<1> QED
  BY <1>5, <1>6, <1>7 DEF D

Value(out) == [out |-> out, escape |-> FALSE]

LEMMA EscapedLetterRead ==
    ASSUME NEW C, Escapable(C), NEW v \in Seq(C), NEW c \in C
    PROVE  After(ValueStep(C), Value(v), EscapeLetter(c)) = Value(Append(v, c))
<1> DEFINE F == ValueStep(C)
           r == Value(v)
<1>1. r \in ValueState(C) /\ r.out = v /\ ~r.escape
  BY DEF ValueState, Value
<1> HIDE DEF r
<1>2. CASE Pure(c)
  <2>1. EscapeLetter(c) = <<c>> /\ c # Backslash
    BY <1>2, Zenon DEF Pure
  <2>2. After(F, r, <<c>>) = ValueLetter(r, c)
    BY <1>1, ValueOn
  <2>3. ValueLetter(r, c) = [out |-> Append(r.out, c), escape |-> FALSE]
    BY <1>1, <2>1, ValueLetterIs
  <2> QED
    BY <1>1, <2>1, <2>2, <2>3 DEF Value, r
<1>3. ASSUME NEW d \in Clean(C), EscapeLetter(c) = <<Backslash, d>>, UnescapeLetter(d) = c
      PROVE  After(F, r, EscapeLetter(c)) = Value(Append(v, c))
  <2> DEFINE q == [out |-> v, escape |-> TRUE]
             x == <<Backslash>>
             y == <<d>>
  <2>1. d \in C /\ Backslash \in C
    BY Zenon DEF Clean, Escapable
  <2>2. x \in Seq(C) /\ y \in Seq(C)
    BY <2>1
  <2>3. x \o y = EscapeLetter(c)
    BY <1>3, <2>1, PairIs
  <2>4. After(F, r, x) = ValueLetter(r, Backslash)
    BY <1>1, <2>1, ValueOn
  <2>5. ValueLetter(r, Backslash) = q
    BY <1>1, ValueLetterIs
  <2>6. q \in ValueState(C) /\ q.escape /\ q.out = v
    BY DEF ValueState
  <2> HIDE DEF q
  <2>7. After(F, q, y) = ValueLetter(q, d)
    BY <2>1, <2>6, ValueOn
  <2>8. ValueLetter(q, d) = Value(Append(v, c))
    <3>1. ValueLetter(q, d) = [out |-> Append(q.out, UnescapeLetter(d)), escape |-> FALSE]
      BY <2>6, ValueLetterIs
    <3> QED
      BY <1>3, <2>6, <3>1, Zenon DEF Value
  <2> HIDE DEF x, y
  <2>9. After(F, r, x \o y) = After(F, After(F, r, x), y)
    BY <1>1, <2>2, ValuesOn
  <2> QED
    BY <2>3, <2>4, <2>5, <2>7, <2>8, <2>9
<1> QED
  BY <1>2, <1>3, EscapeLetterIs DEF r

(* A value that is escaped reads back as it is.                            *)
LEMMA ValueReadsBack ==
    ASSUME NEW C, Escapable(C)
    PROVE  \A v \in Seq(C) : UnescapeTagValue(EscapeTagValue(v)) = v
<1> DEFINE F == ValueStep(C)
           T == {v \in Seq(C) : After(F, NoValue, EscapeTagValue(v)) = Value(v)}
<1>0. NoValue \in ValueState(C) /\ NoValue = Value(<<>>) /\ Clean(C) \subseteq C
  BY ValueStepIs DEF NoValue, Value, Clean
<1>1. <<>> \in T
  <2>1. After(F, NoValue, <<>>) = NoValue
    BY <1>0, ValueOff
  <2>2. EscapeTagValue(<<>>) = <<>>
    BY EscapedIs
  <2>3. <<>> \in Seq(C)
    OBVIOUS
  <2> QED
    BY <1>0, <2>1, <2>2, <2>3
<1>2. ASSUME NEW v \in Seq(C), NEW c \in C, v \in T PROVE Append(v, c) \in T
  <2> DEFINE x == EscapeTagValue(v)
             y == EscapeLetter(c)
  <2>1. x \in Seq(C) /\ y \in Seq(C)
    <3>1. x \in Seq(Clean(C)) /\ y \in Seq(Clean(C))
      BY EscapedIs, EscapedLetters
    <3> HIDE DEF x, y
    <3> QED
      BY <1>0, <3>1
  <2>2. EscapeTagValue(Append(v, c)) = x \o y
    BY EscapedIs
  <2>3. After(F, NoValue, x) = Value(v)
    BY <1>2
  <2>4. After(F, Value(v), y) = Value(Append(v, c))
    BY EscapedLetterRead
  <2> HIDE DEF x, y
  <2>5. After(F, NoValue, x \o y) = After(F, After(F, NoValue, x), y)
    BY <1>0, <2>1, ValuesOn
  <2>6. Append(v, c) \in Seq(C)
    OBVIOUS
  <2> QED
    BY <2>2, <2>3, <2>4, <2>5, <2>6
<1> HIDE DEF T
<1>3. Seq(C) \subseteq T
  BY <1>1, <1>2, OneByOne
<1>4. ASSUME NEW v \in Seq(C) PROVE UnescapeTagValue(EscapeTagValue(v)) = v
  <2> DEFINE e == EscapeTagValue(v)
  <2>1. e \in Seq(C)
    <3>1. e \in Seq(Clean(C))
      BY EscapedIs
    <3> HIDE DEF e
    <3> QED
      BY <1>0, <3>1
  <2>2. ReadValue(e) = After(F, NoValue, e)
    BY <2>1, ReadValueIs
  <2>3. After(F, NoValue, e) = Value(v)
    BY <1>3 DEF T
  <2> HIDE DEF e
  <2>4. Value(v).out = v /\ ~Value(v).escape
    BY DEF Value
  <2> QED
    BY <2>2, <2>3, <2>4 DEF UnescapeTagValue, e
<1> QED
  BY <1>4

-----------------------------------------------------------------------------
(* Tags.                                                                   *)

Equals == "="

(* A tag as it is written: the key is one letter here.                     *)
Written(x, v) == <<x>> \o <<Equals>> \o EscapeTagValue(v)

LEMMA WrittenIs ==
    ASSUME NEW C, Escapable(C), NEW x \in Clean(C), Equals \in Clean(C), NEW v \in Seq(C)
    PROVE  Written(x, v) \in Seq(Clean(C)) /\ Written(x, v) # <<>> /\ Written(x, v)[1] = x
<1> DEFINE a == <<x>> \o <<Equals>>
           e == EscapeTagValue(v)
           D == Clean(C)
           t == a \o e
<1>1. e \in Seq(D)
  BY EscapedIs
<1>2. a \in Seq(D) /\ Len(a) = 2 /\ a[1] = x
  <2>1. x \in D /\ Equals \in D
    OBVIOUS
  <2> HIDE DEF D
  <2> QED
    BY <2>1
<1> HIDE DEF a, e, D
<1>3. t \in Seq(D) /\ Len(t) = Len(a) + Len(e) /\ \A i \in 1..Len(a) : t[i] = a[i]
  <2>1. a \in Seq(D) /\ e \in Seq(D)
    BY <1>1, <1>2
  <2> QED
    BY <2>1, JoinIs
<1>4. Len(e) \in Nat /\ 1 \in 1..Len(a)
  BY <1>1, <1>2
<1> HIDE DEF t
<1>5. t # <<>> /\ t[1] = x
  BY <1>2, <1>3, <1>4
<1> QED
  BY <1>3, <1>5 DEF t, a, e, D, Written

(* It reads as that tag.                                                   *)
LEMMA WrittenReads ==
    ASSUME NEW C, Escapable(C), NEW x \in Clean(C), x # Equals, Equals \in Clean(C), NEW v \in Seq(C)
    PROVE  ParseTag(Written(x, v)) = [key |-> <<x>>, value |-> v]
<1> DEFINE a == <<x>> \o <<Equals>>
           e == EscapeTagValue(v)
           D == Clean(C)
           t == a \o e
           I == {i \in 1..Len(t) : t[i] = Equals}
<1>1. e \in Seq(D)
  BY EscapedIs
<1>2. a \in Seq(D) /\ Len(a) = 2 /\ a[1] = x /\ a[2] = Equals
  <2>1. x \in D /\ Equals \in D
    OBVIOUS
  <2> HIDE DEF D
  <2> QED
    BY <2>1
<1> HIDE DEF a, e, D
<1>3. /\ t \in Seq(D) /\ Len(t) = Len(a) + Len(e) /\ \A i \in 1..Len(a) : t[i] = a[i]
      /\ From(t, Len(a) + 1) = e
  <2>1. a \in Seq(D) /\ e \in Seq(D)
    BY <1>1, <1>2
  <2>2. t \in Seq(D) /\ Len(t) = Len(a) + Len(e) /\ \A i \in 1..Len(a) : t[i] = a[i]
    BY <2>1, JoinIs
  <2>3. From(t, Len(a) + 1) = e
    BY <2>1, TwoParts
  <2> QED
    BY <2>2, <2>3
<1>4. Len(e) \in Nat
  BY <1>1
<1> HIDE DEF t
<1>5. t[1] = x /\ t[2] = Equals /\ 2 \in 1..Len(t) /\ From(t, 3) = e
  BY <1>2, <1>3, <1>4
<1>6. SubSeq(t, 1, 1) = <<x>>
  <2> DEFINE p == SubSeq(t, 1, 1)
  <2>1. p \in Seq(D) /\ Len(p) = 1 /\ p[1] = t[1]
    BY <1>3, <1>5
  <2> HIDE DEF p
  <2>2. p = <<x>>
    BY <1>5, <2>1
  <2> QED
    BY <2>2 DEF p
<1>7. Index(t, "=") = IF I # {} THEN Min(I) ELSE 0
  BY Zenon DEF Index, SelectInSeq, Equals
<1>8. I \in SUBSET Nat /\ 2 \in I /\ \A i \in I : i \in 1..Len(t) /\ i # 1
  <2>1. \A i \in I : i # 1
    BY <1>5
  <2> QED
    BY <1>5, <2>1
<1> HIDE DEF I
<1>9. Index(t, "=") = 2
  <2>1. Min(I) \in I /\ Min(I) <= 2
    BY <1>8, FirstIndex
  <2>2. Min(I) \in 1..Len(t) /\ Min(I) # 1
    BY <1>8, <2>1
  <2> QED
    BY <1>7, <1>8, <2>1, <2>2
<1>10. ParseTag(t) = [key |-> Before(t, 2), value |-> UnescapeTagValue(From(t, 2 + 1))]
  BY <1>9 DEF ParseTag
<1>11. Before(t, 2) = <<x>> /\ From(t, 2 + 1) = e
  BY <1>5, <1>6 DEF Before
<1>12. UnescapeTagValue(e) = v
  BY ValueReadsBack DEF e
<1> QED
  BY <1>10, <1>11, <1>12 DEF t, a, e, Written

(* A text the letter is not in is one piece.                               *)
LEMMA NoSplit ==
    ASSUME NEW S, NEW s \in Seq(S), NEW sep, sep \notin S
    PROVE  SplitAt(s, sep) = <<s>>
<1>1. PICK g : SplitInSteps(s, sep, g)
  BY SplitSteps
<1>2. /\ g[0] = << <<>> >>
      /\ \A i \in 1..Len(s) : g[i] = Piece(g[i - 1], s[i], sep)
      /\ SplitAt(s, sep) = g[Len(s)]
  BY <1>1 DEF SplitInSteps
<1> DEFINE p(k) == SubSeq(s, 1, k)
           T == {k \in 0..Len(s) : g[k] = <<p(k)>>}
<1>3. Len(s) \in Nat
  OBVIOUS
<1>4. 0 \in T
  <2>1. p(0) = <<>> /\ 0 \in 0..Len(s)
    BY <1>3
  <2> QED
    BY <1>2, <2>1, Zenon
<1>5. ASSUME NEW k \in 0..Len(s), k # 0, k - 1 \in T PROVE k \in T
  <2>1. k \in 1..Len(s) /\ s[k] \in S /\ s[k] # sep /\ g[k - 1] = <<p(k - 1)>>
    BY <1>5
  <2>2. p(k) = Append(p(k - 1), s[k])
    <3> DEFINE u == p(k - 1)
               v == p(k)
    <3>1. u \in Seq(S) /\ Len(u) = k - 1 /\ \A i \in 1..k - 1 : u[i] = s[i]
      BY <2>1
    <3>2. v \in Seq(S) /\ Len(v) = k /\ \A i \in 1..k : v[i] = s[i]
      BY <2>1
    <3> HIDE DEF u, v
    <3>3. v = Append(u, s[k])
      BY <2>1, <3>1, <3>2
    <3> QED
      BY <3>3 DEF u, v
  <2> DEFINE u == p(k - 1)
             c == s[k]
             d == <<u>>
  <2>3. u \in Seq(S)
    BY <2>1
  <2> HIDE DEF p, u, c
  <2>4. Front(d) = <<>> /\ Last(d) = u
    BY <2>3 DEF Front, Last
  <2>5. Piece(d, c, sep) = <<Append(u, c)>>
    <3>1. Piece(d, c, sep) = Append(Front(d), Append(Last(d), c))
      BY <2>1 DEF Piece, c
    <3> HIDE DEF d
    <3>2. Piece(d, c, sep) = Append(<<>>, Append(u, c))
      BY <2>4, <3>1
    <3> QED
      BY <3>2
  <2>6. g[k] = Piece(d, c, sep)
    BY <1>2, <2>1 DEF u, c
  <2> QED
    BY <2>1, <2>2, <2>5, <2>6 DEF u, c
<1> HIDE DEF T
<1>6. Len(s) \in T
  <2>1. 0..Len(s) \subseteq T
    BY <1>3, <1>4, <1>5, UpTo
  <2> QED
    BY <1>3, <2>1
<1>7. p(Len(s)) = s
  OBVIOUS
<1> QED
  BY <1>2, <1>6, <1>7 DEF T

LEMMA TwoPieces ==
    ASSUME NEW C, NEW sep \in C, NEW a \in Seq(C \ {sep}), NEW b \in Seq(C \ {sep})
    PROVE  SplitAt(a \o (<<sep>> \o b), sep) = <<a, b>>
<1> DEFINE m == <<sep>>
           mb == m \o b
           s == a \o mb
           q == Len(a) + 1
           e == Len(s)
<1>1. a \in Seq(C) /\ b \in Seq(C) /\ m \in Seq(C) /\ Len(m) = 1 /\ m[1] = sep
  OBVIOUS
<1> HIDE DEF m
<1>2. mb \in Seq(C) /\ Len(mb) = 1 + Len(b) /\ mb[1] = sep /\ From(mb, 2) = b
  <2>0. b \in Seq(C) /\ m \in Seq(C)
    BY <1>1
  <2>1. mb \in Seq(C) /\ Len(mb) = Len(m) + Len(b) /\ \A i \in 1..Len(m) : mb[i] = m[i]
    BY <2>0, JoinIs
  <2>2. From(mb, Len(m) + 1) = b
    BY <2>0, TwoParts
  <2> HIDE DEF mb
  <2> QED
    BY <1>1, <2>1, <2>2
<1>3. Len(a) \in Nat /\ Len(b) \in Nat
  BY <1>1
<1> HIDE DEF mb
<1>4. /\ s \in Seq(C) /\ Len(s) = Len(a) + Len(mb)
      /\ \A i \in 1..Len(mb) : s[Len(a) + i] = mb[i]
  <2>1. a \in Seq(C) /\ mb \in Seq(C)
    BY <1>1, <1>2
  <2> QED
    BY <2>1, JoinIs
<1>5. SubSeq(s, 1, Len(a)) = a /\ From(s, Len(a) + 1) = mb
  BY <1>1, <1>2, TwoParts
<1> HIDE DEF s
<1>6. s[q] = sep /\ q \in 1..Len(s) /\ e \in q..Len(s) /\ q - 1 = Len(a)
  <2>1. 1 \in 1..Len(mb)
    BY <1>2, <1>3
  <2>2. s[Len(a) + 1] = mb[1]
    BY <1>4, <2>1
  <2> QED
    BY <1>2, <1>3, <1>4, <2>2
<1>7. SubSeq(s, q + 1, e) = b
  <2> DEFINE p == SubSeq(s, q + 1, e)
             r == SubSeq(mb, 2, Len(mb))
  <2>1. p \in Seq(C) /\ Len(p) = Len(b) /\ \A i \in 1..Len(b) : p[i] = s[q + i]
    BY <1>2, <1>3, <1>4
  <2>2. r = b
    BY <1>2 DEF From
  <2>3. r \in Seq(C) /\ Len(r) = Len(b) /\ \A i \in 1..Len(b) : r[i] = mb[1 + i]
    BY <1>2, <1>3
  <2>4. \A i \in 1..Len(b) : s[q + i] = mb[1 + i]
    <3> SUFFICES ASSUME NEW i \in 1..Len(b) PROVE s[q + i] = mb[1 + i]
      OBVIOUS
    <3>1. 1 + i \in 1..Len(mb) /\ Len(a) + (1 + i) = q + i
      BY <1>2, <1>3
    <3> QED
      BY <1>4, <3>1
  <2> HIDE DEF p, r
  <2>5. p = r
    BY <2>1, <2>3, <2>4
  <2> QED
    BY <2>2, <2>5 DEF p
<1>8. SubSeq(s, 1, e) = s
  BY <1>4
<1>9. SplitAt(s, sep) = SplitAt(a, sep) \o SplitAt(b, sep)
  <2> HIDE DEF q, e
  <2>1. SplitAt(SubSeq(s, 1, e), s[q]) =
          SplitAt(SubSeq(s, 1, q - 1), s[q]) \o SplitAt(SubSeq(s, q + 1, e), s[q])
    BY <1>4, <1>6, SplitBoth
  <2> QED
    BY <1>5, <1>6, <1>7, <1>8, <2>1
<1>10. SplitAt(a, sep) = <<a>> /\ SplitAt(b, sep) = <<b>>
  BY NoSplit
<1>11. <<a>> \o <<b>> = <<a, b>>
  BY <1>1, PairIs
<1> QED
  BY <1>9, <1>10, <1>11, Zenon DEF s, mb, m

LEMMA TwoTags ==
    ASSUME NEW s, NEW p, NEW q, SplitAt(s, Semi) = <<p, q>>, p # <<>>, q # <<>>
    PROVE  ParseTags(s) = With(With(<<>>, ParseTag(p)), ParseTag(q))
<1> DEFINE pieces == <<p, q>>
           step(g, i) == IF i = 0 THEN <<>> ELSE MoreTags(g[i - 1], pieces[i])
           W(g) == g = [i \in 0..Len(pieces) |-> step(g, i)]
           f == CHOOSE g : W(g)
           one == With(<<>>, ParseTag(p))
           two == With(one, ParseTag(q))
           h == [i \in 0..2 |-> IF i = 0 THEN <<>> ELSE IF i = 1 THEN one ELSE two]
<1>1. ParseTags(s) = f[Len(pieces)]
  BY Zenon DEF ParseTags, Semi
<1>2. Len(pieces) = 2 /\ pieces[1] = p /\ pieces[2] = q
  OBVIOUS
<1>3. MoreTags(<<>>, p) = one /\ MoreTags(one, q) = two
  BY DEF MoreTags
<1> HIDE DEF pieces, one, two
<1>4. W(h)
  <2>1. h[0] = <<>> /\ h[1] = one /\ h[2] = two
    OBVIOUS
  <2>2. h = [i \in 0..2 |-> h[i]]
    OBVIOUS
  <2> HIDE DEF h
  <2>3. step(h, 0) = h[0]
    BY <2>1
  <2>4. step(h, 1) = h[1]
    <3>1. step(h, 1) = MoreTags(h[0], pieces[1])
      OBVIOUS
    <3> QED
      BY <1>2, <1>3, <2>1, <3>1
  <2>5. step(h, 2) = h[2]
    <3>1. step(h, 2) = MoreTags(h[1], pieces[2])
      OBVIOUS
    <3> QED
      BY <1>2, <1>3, <2>1, <3>1
  <2> HIDE DEF step
  <2>6. \A i \in 0..2 : h[i] = step(h, i)
    BY <2>3, <2>4, <2>5
  <2>7. h = [i \in 0..2 |-> step(h, i)]
    BY <2>2, <2>6
  <2> QED
    BY <1>2, <2>7
<1> HIDE DEF h
<1>5. W(f)
  <2> HIDE DEF W
  <2> QED
    BY <1>4, Zenon DEF f
<1> HIDE DEF f
<1>6. \A i \in 0..2 : f[i] = step(f, i)
  <2> HIDE DEF step
  <2> QED
    BY <1>2, <1>5
<1>7. f[0] = <<>>
  BY <1>6
<1>8. f[1] = one
  <2>1. f[1] = step(f, 1)
    BY <1>6
  <2>2. step(f, 1) = MoreTags(f[0], pieces[1])
    OBVIOUS
  <2> QED
    BY <1>2, <1>3, <1>7, <2>1, <2>2
<1>9. f[2] = two
  <2>1. f[2] = step(f, 2)
    BY <1>6
  <2>2. step(f, 2) = MoreTags(f[1], pieces[2])
    OBVIOUS
  <2> QED
    BY <1>2, <1>3, <1>8, <2>1, <2>2
<1> QED
  BY <1>1, <1>2, <1>9 DEF two, one

(* Two tags, as they are written and as they are read.                     *)
Line(x, v, y, w) == Written(x, v) \o (<<Semi>> \o Written(y, w))

LEMMA LineReads ==
    ASSUME NEW C, Escapable(C), NEW x \in Clean(C), NEW y \in Clean(C), Equals \in Clean(C),
           x # Equals, y # Equals, NEW v \in Seq(C), NEW w \in Seq(C)
    PROVE  ParseTags(Line(x, v, y, w)) = With(With(<<>>, [key |-> <<x>>, value |-> v]), [key |-> <<y>>, value |-> w])
<1> DEFINE p == Written(x, v)
           q == Written(y, w)
<1>1. p \in Seq(Clean(C)) /\ p # <<>> /\ q \in Seq(Clean(C)) /\ q # <<>>
  BY WrittenIs
<1> HIDE DEF p, q
<1>2. Clean(C) \subseteq C \ {Semi} /\ Semi \in C
  BY Zenon DEF Clean, Ends, Escapable
<1>3. p \in Seq(C \ {Semi}) /\ q \in Seq(C \ {Semi})
  BY <1>1, <1>2
<1>4. SplitAt(Line(x, v, y, w), Semi) = <<p, q>>
  <2>1. SplitAt(p \o (<<Semi>> \o q), Semi) = <<p, q>>
    BY <1>2, <1>3, TwoPieces
  <2> QED
    BY <2>1, Zenon DEF Line, p, q
<1>5. ParseTags(Line(x, v, y, w)) = With(With(<<>>, ParseTag(p)), ParseTag(q))
  BY <1>1, <1>4, TwoTags
<1>6. ParseTag(p) = [key |-> <<x>>, value |-> v] /\ ParseTag(q) = [key |-> <<y>>, value |-> w]
  BY WrittenReads DEF p, q
<1> QED
  BY <1>5, <1>6, Zenon

Host == "host"
Name == "name"

LEMMA KeysApart ==
    /\ Host # Name /\ Host # Equals /\ Name # Equals
    /\ Host \notin Ends /\ Name \notin Ends /\ Equals \notin Ends
    /\ Host # Dots /\ Name # Dots /\ Host # At /\ Name # At
BY Zenon DEF Host, Name, Equals, Ends, Semi, Blank, Dots, At

(* The tags of a network in either order.                                  *)
InOrder(order) ==
    IF order = <<HostKey, NameKey>> THEN Line(Host, <<"h">>, Name, text)
    ELSE Line(Name, text, Host, <<"h">>)

LEMMA LinesJoined ==
    ASSUME NEW C, Escapable(C), NEW x \in Clean(C), NEW y \in Clean(C), Equals \in Clean(C),
           NEW v \in Seq(C), NEW w \in Seq(C)
    PROVE  Join(<<Written(x, v), Written(y, w)>>, <<Semi>>) = Line(x, v, y, w)
<1> DEFINE p == Written(x, v)
           q == Written(y, w)
<1>1. p \in Seq(Clean(C)) /\ q \in Seq(Clean(C))
  BY WrittenIs
<1> HIDE DEF p, q
<1>2. Clean(C) \subseteq C /\ Semi \in C
  BY Zenon DEF Clean, Escapable
<1>3. p \in Seq(C) /\ q \in Seq(C) /\ <<Semi>> \in Seq(C)
  BY <1>1, <1>2
<1>4. Join(<<p, q>>, <<Semi>>) = p \o (<<Semi>> \o q)
  BY <1>3, JoinPair
<1> QED
  BY <1>4, Zenon DEF Line, p, q

LEMMA FormatIs ==
    ASSUME NEW tags, NEW x, NEW y
    PROVE  FormatTags(tags, << <<x>>, <<y>> >>) =
             Join(<<Written(x, tags[<<x>>]), Written(y, tags[<<y>>])>>, <<Semi>>)
<1> DEFINE o == << <<x>>, <<y>> >>
           w(k) == k \o <<Equals>> \o EscapeTagValue(tags[k])
           f == [i \in DOMAIN o |-> w(o[i])]
           g == <<w(<<x>>), w(<<y>>)>>
<1>1. f = g
  <2>1. DOMAIN o = 1..2 /\ o[1] = <<x>> /\ o[2] = <<y>>
    OBVIOUS
  <2> HIDE DEF o, w
  <2> QED
    BY <2>1
<1>2. FormatTags(tags, o) = Join(f, <<Semi>>)
  BY Zenon DEF FormatTags, Semi, Equals
<1>3. g = <<Written(x, tags[<<x>>]), Written(y, tags[<<y>>])>>
  BY Zenon DEF Written
<1> HIDE DEF f, g
<1> QED
  BY <1>1, <1>2, <1>3, Zenon DEF o

LEMMA TagsReadBack ==
    ASSUME NEW C, Escapable(C), Host \in C, Name \in C, Equals \in C, "h" \in C, text \in Seq(C),
           NEW order \in Orders
    PROVE  /\ FormatTags(Attrs, order) = InOrder(order)
           /\ ParseTags(FormatTags(Attrs, order)) = Attrs
<1> DEFINE hv == <<"h">>
<1>1. Host \in Clean(C) /\ Name \in Clean(C) /\ Equals \in Clean(C) /\ hv \in Seq(C)
  <2>1. hv \in Seq(C)
    OBVIOUS
  <2> QED
    BY <2>1, KeysApart, Zenon DEF Clean
<1>2. HostKey = <<Host>> /\ NameKey = <<Name>> /\ HostKey # NameKey
  <2>1. HostKey = <<Host>> /\ NameKey = <<Name>>
    BY Zenon DEF HostKey, NameKey, Host, Name
  <2>2. <<Host>> # <<Name>>
    BY KeysApart
  <2> QED
    BY <2>1, <2>2, Zenon
<1>3. Attrs = [k \in {HostKey, NameKey} |-> IF k = HostKey THEN hv ELSE text]
  BY Zenon DEF Attrs
<1> HIDE DEF hv
<1>4. Attrs[HostKey] = hv /\ Attrs[NameKey] = text
  BY <1>2, <1>3
<1>5. ASSUME order = <<HostKey, NameKey>>
      PROVE  /\ FormatTags(Attrs, order) = Line(Host, hv, Name, text)
             /\ ParseTags(Line(Host, hv, Name, text)) = Attrs
  <2>1. FormatTags(Attrs, order) = Join(<<Written(Host, hv), Written(Name, text)>>, <<Semi>>)
    BY <1>2, <1>4, <1>5, FormatIs, Zenon
  <2>2. Join(<<Written(Host, hv), Written(Name, text)>>, <<Semi>>) = Line(Host, hv, Name, text)
    BY <1>1, LinesJoined, Zenon
  <2>3. ParseTags(Line(Host, hv, Name, text)) =
          With(With(<<>>, [key |-> <<Host>>, value |-> hv]), [key |-> <<Name>>, value |-> text])
    BY <1>1, KeysApart, LineReads
  <2>4. ParseTags(Line(Host, hv, Name, text)) =
          With(With(<<>>, [key |-> HostKey, value |-> hv]), [key |-> NameKey, value |-> text])
    BY <1>2, <2>3, Zenon
  <2>5. With(With(<<>>, [key |-> HostKey, value |-> hv]), [key |-> NameKey, value |-> text]) = Attrs
    BY <1>2, <1>3 DEF With
  <2> QED
    BY <2>1, <2>2, <2>4, <2>5, Zenon
<1>6. ASSUME order = <<NameKey, HostKey>>
      PROVE  /\ FormatTags(Attrs, order) = Line(Name, text, Host, hv)
             /\ ParseTags(Line(Name, text, Host, hv)) = Attrs
  <2>1. FormatTags(Attrs, order) = Join(<<Written(Name, text), Written(Host, hv)>>, <<Semi>>)
    BY <1>2, <1>4, <1>6, FormatIs, Zenon
  <2>2. Join(<<Written(Name, text), Written(Host, hv)>>, <<Semi>>) = Line(Name, text, Host, hv)
    BY <1>1, LinesJoined, Zenon
  <2>3. ParseTags(Line(Name, text, Host, hv)) =
          With(With(<<>>, [key |-> <<Name>>, value |-> text]), [key |-> <<Host>>, value |-> hv])
    BY <1>1, KeysApart, LineReads
  <2>4. ParseTags(Line(Name, text, Host, hv)) =
          With(With(<<>>, [key |-> NameKey, value |-> text]), [key |-> HostKey, value |-> hv])
    BY <1>2, <2>3, Zenon
  <2>5. With(With(<<>>, [key |-> NameKey, value |-> text]), [key |-> HostKey, value |-> hv]) = Attrs
    BY <1>2, <1>3 DEF With
  <2> QED
    BY <2>1, <2>2, <2>4, <2>5, Zenon
<1>7. <<HostKey, NameKey>> # <<NameKey, HostKey>>
  BY <1>2
<1>8. order = <<HostKey, NameKey>> \/ order = <<NameKey, HostKey>>
  BY DEF Orders
<1> QED
  BY <1>5, <1>6, <1>7, <1>8, Zenon DEF InOrder, hv

Unbroken(C) == C \ {Blank, "\r", "\n"}

(* Such a line has no blank in it, and begins with its first key.          *)
LEMMA LineIs ==
    ASSUME NEW C, Escapable(C), NEW x \in Clean(C), NEW y \in Clean(C), Equals \in Clean(C),
           NEW v \in Seq(C), NEW w \in Seq(C)
    PROVE  /\ Line(x, v, y, w) \in Seq(Unbroken(C))
           /\ Line(x, v, y, w) # <<>> /\ Line(x, v, y, w)[1] = x
<1> DEFINE p == Written(x, v)
           q == Written(y, w)
           D == Unbroken(C)
           t == p \o (<<Semi>> \o q)
<1>1. p \in Seq(Clean(C)) /\ q \in Seq(Clean(C)) /\ p # <<>> /\ p[1] = x
  BY WrittenIs
<1> HIDE DEF p, q
<1>2. Clean(C) \subseteq D /\ Semi \in D
  BY Zenon DEF Clean, Ends, Escapable, Unbroken, Semi, Blank
<1> HIDE DEF D
<1>3. p \in Seq(D) /\ q \in Seq(D) /\ <<Semi>> \in Seq(D)
  BY <1>1, <1>2
<1>4. <<Semi>> \o q \in Seq(D)
  BY <1>3
<1>5. t \in Seq(D) /\ Len(t) = Len(p) + Len(<<Semi>> \o q) /\ \A i \in 1..Len(p) : t[i] = p[i]
  BY <1>3, <1>4, JoinIs
<1>6. Len(p) \in Nat /\ 1 \in 1..Len(p) /\ Len(<<Semi>> \o q) \in Nat
  BY <1>1, <1>3, <1>4
<1> HIDE DEF t
<1>7. t # <<>> /\ t[1] = x
  BY <1>1, <1>5, <1>6
<1> QED
  BY <1>5, <1>7, Zenon DEF t, p, q, D, Line

(* What soju and the client say of a network.                              *)
Bouncer == "BOUNCER"
Change == "CHANGENETWORK"
Network == "NETWORK"
Seven == "7"

Told(verb, t) == <<Bouncer, Blank, verb, Blank, Seven, Blank>> \o t

(* t is s with the one letter of e behind it.                              *)
OneMore(s, e, t) ==
    Len(e) = 1 /\ Len(t) = Len(s) + 1 /\ t[Len(s) + 1] = e[1] /\ \A i \in 1..Len(s) : t[i] = s[i]

LEMMA OneMoreIs ==
    ASSUME NEW S, NEW s \in Seq(S), NEW e \in Seq(S), NEW t \in Seq(S), OneMore(s, e, t)
    PROVE  s \o e = t
<1> DEFINE u == s \o e
<1>1. /\ u \in Seq(S) /\ Len(u) = Len(s) + Len(e)
      /\ \A i \in 1..Len(s) : u[i] = s[i]
      /\ \A i \in 1..Len(e) : u[Len(s) + i] = e[i]
  BY JoinIs
<1> HIDE DEF u
<1>2. Len(s) \in Nat /\ 1 \in 1..1
  OBVIOUS
<1>3. Len(u) = Len(s) + 1 /\ u[Len(s) + 1] = e[1]
  BY <1>1, <1>2 DEF OneMore
<1>4. Len(t) = Len(s) + 1 /\ \A i \in 1..Len(s) + 1 : u[i] = t[i]
  <2>1. ASSUME NEW i \in 1..Len(s) + 1 PROVE u[i] = t[i]
    <3>1. CASE i = Len(s) + 1
      BY <1>3, <3>1 DEF OneMore
    <3>2. CASE i # Len(s) + 1
      <4>1. i \in 1..Len(s)
        BY <1>2, <3>2
      <4> QED
        BY <1>1, <4>1 DEF OneMore
    <3> QED
      BY <3>1, <3>2
  <2> QED
    BY <2>1 DEF OneMore
<1>5. u = t
  BY <1>1, <1>3, <1>4
<1> QED
  BY <1>5 DEF u

LEMMA SixLetters ==
    ASSUME NEW a, NEW b, NEW c, NEW d
    PROVE  /\ (<<a, b, c, b>> \o <<d>>) \o <<b>> = <<a, b, c, b, d, b>>
           /\ ((<<a>> \o (<<b>> \o <<c>>)) \o (<<b>> \o <<d>>)) \o <<b>> = <<a, b, c, b, d, b>>
<1> DEFINE S == {a, b, c, d}
           one == <<a>>
           two == <<a, b>>
           three == <<a, b, c>>
           four == <<a, b, c, b>>
           five == <<a, b, c, b, d>>
           six == <<a, b, c, b, d, b>>
           bs == <<b>>
           cs == <<c>>
           ds == <<d>>
<1>1. /\ one \in Seq(S) /\ Len(one) = 1
      /\ one[1] = a
  OBVIOUS
<1>2. /\ two \in Seq(S) /\ Len(two) = 2
      /\ two[1] = a /\ two[2] = b
  OBVIOUS
<1>3. /\ three \in Seq(S) /\ Len(three) = 3
      /\ three[1] = a /\ three[2] = b /\ three[3] = c
  OBVIOUS
<1>4. /\ four \in Seq(S) /\ Len(four) = 4
      /\ four[1] = a /\ four[2] = b /\ four[3] = c /\ four[4] = b
  OBVIOUS
<1>5. /\ five \in Seq(S) /\ Len(five) = 5
      /\ five[1] = a /\ five[2] = b /\ five[3] = c /\ five[4] = b /\ five[5] = d
  OBVIOUS
<1>6. /\ six \in Seq(S) /\ Len(six) = 6
      /\ six[1] = a /\ six[2] = b /\ six[3] = c /\ six[4] = b /\ six[5] = d /\ six[6] = b
  OBVIOUS
<1>7. bs \in Seq(S) /\ Len(bs) = 1 /\ bs[1] = b
  OBVIOUS
<1>8. cs \in Seq(S) /\ Len(cs) = 1 /\ cs[1] = c
  OBVIOUS
<1>9. ds \in Seq(S) /\ Len(ds) = 1 /\ ds[1] = d
  OBVIOUS
<1> HIDE DEF one, two, three, four, five, six, bs, cs, ds
<1>10. one \o bs = two
  <2>1. \A i \in 1..Len(one) : two[i] = one[i]
    BY <1>1, <1>2
  <2>2. Len(two) = Len(one) + 1 /\ two[Len(one) + 1] = bs[1]
    BY <1>1, <1>2, <1>7
  <2> QED
    BY <1>1, <1>2, <1>7, <2>1, <2>2, OneMoreIs, Zenon DEF OneMore
<1>11. two \o cs = three
  <2>1. \A i \in 1..Len(two) : three[i] = two[i]
    BY <1>2, <1>3
  <2>2. Len(three) = Len(two) + 1 /\ three[Len(two) + 1] = cs[1]
    BY <1>2, <1>3, <1>8
  <2> QED
    BY <1>2, <1>3, <1>8, <2>1, <2>2, OneMoreIs, Zenon DEF OneMore
<1>12. three \o bs = four
  <2>1. \A i \in 1..Len(three) : four[i] = three[i]
    BY <1>3, <1>4
  <2>2. Len(four) = Len(three) + 1 /\ four[Len(three) + 1] = bs[1]
    BY <1>3, <1>4, <1>7
  <2> QED
    BY <1>3, <1>4, <1>7, <2>1, <2>2, OneMoreIs, Zenon DEF OneMore
<1>13. four \o ds = five
  <2>1. \A i \in 1..Len(four) : five[i] = four[i]
    BY <1>4, <1>5
  <2>2. Len(five) = Len(four) + 1 /\ five[Len(four) + 1] = ds[1]
    BY <1>4, <1>5, <1>9
  <2> QED
    BY <1>4, <1>5, <1>9, <2>1, <2>2, OneMoreIs, Zenon DEF OneMore
<1>14. five \o bs = six
  <2>1. \A i \in 1..Len(five) : six[i] = five[i]
    BY <1>5, <1>6
  <2>2. Len(six) = Len(five) + 1 /\ six[Len(five) + 1] = bs[1]
    BY <1>5, <1>6, <1>7
  <2> QED
    BY <1>5, <1>6, <1>7, <2>1, <2>2, OneMoreIs, Zenon DEF OneMore
<1>15. one \o (bs \o cs) = three
  <2>1. one \in Seq(S) /\ bs \in Seq(S) /\ cs \in Seq(S)
    BY <1>1, <1>7, <1>8
  <2>2. (one \o bs) \o cs = one \o (bs \o cs)
    BY <2>1, Assoc
  <2> QED
    BY <1>10, <1>11, <2>2, Zenon
<1>16. three \o (bs \o ds) = five
  <2>1. three \in Seq(S) /\ bs \in Seq(S) /\ ds \in Seq(S)
    BY <1>3, <1>7, <1>9
  <2>2. (three \o bs) \o ds = three \o (bs \o ds)
    BY <2>1, Assoc
  <2> QED
    BY <1>12, <1>13, <2>2, Zenon
<1> QED
  BY <1>13, <1>14, <1>15, <1>16, Zenon DEF one, bs, cs, ds, four, six

LEMMA LinesAreTold ==
    ASSUME NEW order
    PROVE  /\ ChangeLine(Id, Attrs, order) = Told(Change, FormatTags(Attrs, order))
           /\ Listing(order) = Told(Network, FormatTags(Attrs, order))
<1>1. ChangeLine(Id, Attrs, order)
        = ((<<Bouncer, Blank, Change, Blank>> \o <<Seven>>) \o <<Blank>>) \o FormatTags(Attrs, order)
  BY Zenon DEF ChangeLine, Id, Bouncer, Blank, Change, Seven
<1>2. Listing(order)
        = ((<<Bouncer, Blank, Network, Blank>> \o <<Seven>>) \o <<Blank>>) \o FormatTags(Attrs, order)
  BY Zenon DEF Listing, Id, Bouncer, Blank, Network, Seven
<1>3. (<<Bouncer, Blank, Change, Blank>> \o <<Seven>>) \o <<Blank>>
         = <<Bouncer, Blank, Change, Blank, Seven, Blank>>
  BY SixLetters, Zenon
<1>4. (<<Bouncer, Blank, Network, Blank>> \o <<Seven>>) \o <<Blank>>
         = <<Bouncer, Blank, Network, Blank, Seven, Blank>>
  BY SixLetters, Zenon
<1> QED
  BY <1>1, <1>2, <1>3, <1>4, Zenon DEF Told

(* The words of such a line: no letter of it but those between is a blank. *)
Tellable(C, blanks, verb, t) ==
    /\ Blank \in C /\ Blank \in blanks /\ Bouncer \in C \ blanks /\ Seven \in C \ blanks
    /\ verb \in C \ blanks /\ verb # Dots
    /\ t \in Seq(C \ blanks) /\ t # <<>> /\ t[1] # Dots

LEMMA ToldRead ==
    ASSUME NEW C, NEW blanks, NEW verb, NEW t, Tellable(C, blanks, verb, t)
    PROVE  /\ Told(verb, t) \in Seq(C) /\ Told(verb, t)[1] = Bouncer /\ Told(verb, t) # <<>>
           /\ Colon(Told(verb, t)) = 0
           /\ Fields(Told(verb, t), blanks) = << <<Bouncer>>, <<verb>>, <<Seven>>, t>>
<1> DEFINE h == <<Bouncer, Blank, verb, Blank, Seven, Blank>>
           line == h \o t
<1>0. /\ Blank \in C /\ Blank \in blanks /\ Bouncer \in C \ blanks /\ Seven \in C \ blanks
      /\ verb \in C \ blanks /\ verb # Dots /\ verb # Blank
      /\ t \in Seq(C \ blanks) /\ t # <<>> /\ t[1] # Dots
  BY DEF Tellable
<1>1. Bouncer \in C /\ Seven \in C /\ verb \in C /\ t \in Seq(C)
  BY <1>0
<1>2. /\ h \in Seq(C) /\ Len(h) = 6 /\ h[1] = Bouncer /\ h[2] = Blank /\ h[3] = verb /\ h[4] = Blank
      /\ h[5] = Seven /\ h[6] = Blank
  BY <1>0, <1>1
<1> HIDE DEF h
<1>3. /\ line \in Seq(C) /\ Len(line) = Len(h) + Len(t)
      /\ \A i \in 1..Len(h) : line[i] = h[i]
      /\ \A i \in 1..Len(t) : line[Len(h) + i] = t[i]
  <2>1. h \in Seq(C) /\ t \in Seq(C)
    BY <1>1, <1>2
  <2> QED
    BY <2>1, JoinIs
<1>4. Len(t) \in Nat /\ 1 \in 1..Len(t) /\ \A i \in 1..Len(t) : t[i] # Blank
  BY <1>0
<1>5. Told(verb, t) = line
  BY Zenon DEF Told, h
<1> HIDE DEF line
<1>6. Len(line) = 6 + Len(t) /\ line[1] = Bouncer /\ line # <<>>
  BY <1>2, <1>3, <1>4
<1>7. Colon(line) = 0
  <2> DEFINE I == {i \in 1..Len(line) - 1 : line[i] = Blank /\ line[i + 1] = Dots}
  <2>1. Colon(line) = IF I = {} THEN 0 ELSE Min(I)
    BY Zenon DEF Colon, Blank, Dots
  <2>2. Bouncer # Blank /\ Seven # Blank /\ Seven # Dots /\ Blank # Dots
    BY Zenon DEF Bouncer, Seven, Blank, Dots
  <2>3. /\ line[1] = Bouncer /\ line[2] = Blank /\ line[3] = verb /\ line[4] = Blank
        /\ line[5] = Seven /\ line[6] = Blank /\ line[7] = t[1]
    <3>1. line[Len(h) + 1] = t[1]
      BY <1>3, <1>4
    <3> QED
      BY <1>2, <1>3, <3>1
  <2>4. ASSUME NEW i \in 1..Len(line) - 1, line[i] = Blank, line[i + 1] = Dots PROVE FALSE
    <3>1. CASE i > 6
      <4>1. i - 6 \in 1..Len(t) /\ 6 + (i - 6) = i
        BY <1>4, <1>6, <3>1
      <4>2. \A k \in 1..Len(t) : line[6 + k] = t[k]
        BY <1>2, <1>3
      <4>3. line[6 + (i - 6)] = t[i - 6]
        BY <4>1, <4>2
      <4>4. t[i - 6] # Blank
        BY <1>4, <4>1
      <4> QED
        BY <2>4, <4>1, <4>3, <4>4
    <3>2. CASE i <= 6
      <4>1. i = 1 \/ i = 2 \/ i = 3 \/ i = 4 \/ i = 5 \/ i = 6
        BY <1>4, <1>6, <3>2
      <4> QED
        BY <1>0, <2>2, <2>3, <2>4, <4>1
    <3> QED
      BY <1>4, <1>6, <3>1, <3>2
  <2> QED
    BY <2>1, <2>4
<1> DEFINE A == Words(C, blanks)
           w1 == <<Bouncer>>
           w2 == <<verb>>
           w3 == <<Seven>>
           b == <<Blank>>
           one == <<w1>>
           two == <<w1, w2>>
           three == <<w1, w2, w3>>
           four == <<w1, w2, w3, t>>
<1>8. w1 \in A /\ w2 \in A /\ w3 \in A /\ t \in A
  BY <1>0 DEF Words
<1>9. w1 \in Seq(C) /\ w2 \in Seq(C) /\ w3 \in Seq(C) /\ b \in Seq(C)
  BY <1>0, <1>1
<1>10. (((w1 \o (b \o w2)) \o (b \o w3)) \o b) = h
  BY SixLetters, Zenon DEF h
<1> HIDE DEF A, w1, w2, w3, b
<1>11. /\ four \in Seq(A) /\ two \in Seq(Seq(C)) /\ three \in Seq(Seq(C))
       /\ two # <<>> /\ three # <<>> /\ four = Append(three, t) /\ three = Append(two, w3)
  <2> DEFINE X == Seq(C)
  <2>1. four \in Seq(A)
    BY <1>8
  <2>2. w1 \in X /\ w2 \in X /\ w3 \in X /\ t \in X
    BY <1>1, <1>9
  <2> HIDE DEF X
  <2>3. two \in Seq(X) /\ three \in Seq(X) /\ two # <<>> /\ three # <<>>
    BY <2>2
  <2>4. three = Append(two, w3)
    BY <2>2
  <2>5. four = Append(three, t)
    BY <2>2
  <2> QED
    BY <2>1, <2>3, <2>4, <2>5 DEF X
<1> HIDE DEF two, three, four
<1>12. Join(two, b) = w1 \o (b \o w2)
  BY <1>9, JoinPair DEF two
<1>13. Join(three, b) = (w1 \o (b \o w2)) \o (b \o w3)
  BY <1>0, <1>9, <1>11, <1>12, JoinMore DEF b
<1>14. Join(four, b) = ((w1 \o (b \o w2)) \o (b \o w3)) \o (b \o t)
  BY <1>0, <1>1, <1>11, <1>13, JoinMore DEF b
<1>15. ((w1 \o (b \o w2)) \o (b \o w3)) \o (b \o t) = line
  <2> DEFINE f == (w1 \o (b \o w2)) \o (b \o w3)
  <2>1. f \in Seq(C)
    BY <1>9
  <2> HIDE DEF f
  <2>2. b \in Seq(C) /\ t \in Seq(C)
    BY <1>1, <1>9
  <2>3. (f \o b) \o t = f \o (b \o t)
    BY <2>1, <2>2, Assoc
  <2> QED
    BY <1>10, <2>3, Zenon DEF f, line
<1>16. Fields(Join(four, b), blanks) = four
  BY <1>0, <1>11, FieldsJoined DEF A, b
<1> QED
  BY <1>3, <1>5, <1>6, <1>7, <1>14, <1>15, <1>16, Zenon DEF four, w1, w2, w3

(* The tags or the prefix in front of a message.                           *)
LEMMA TrimLeftIs ==
    ASSUME NEW S, NEW r \in Seq(S), r # <<>>, r[1] # Blank
    PROVE  TrimLeft(r, Blank) = r
<1> DEFINE I == {i \in 1..Len(r) : r[i] # Blank}
           first == IF I # {} THEN Min(I) ELSE 0
<1>1. Len(r) \in Nat /\ 1 \in 1..Len(r)
  OBVIOUS
<1>2. TrimLeft(r, Blank) = IF first = 0 THEN <<>> ELSE From(r, first)
  BY Zenon DEF TrimLeft, SelectInSeq
<1>3. I \in SUBSET Nat /\ 1 \in I /\ \A i \in I : i \in 1..Len(r)
  BY <1>1
<1> HIDE DEF I
<1>4. Min(I) \in I /\ Min(I) <= 1
  BY <1>3, FirstIndex
<1>5. Min(I) \in 1..Len(r)
  BY <1>3, <1>4
<1>6. first = 1
  BY <1>1, <1>3, <1>4, <1>5
<1>7. From(r, 1) = r
  BY DEF From
<1> QED
  BY <1>2, <1>6, <1>7

InFront(f, mark) ==
    /\ f # <<>> /\ f[1] = mark /\ f[Len(f)] = Blank
    /\ \A i \in 1..Len(f) - 1 : f[i] # Blank

LEMMA PeelOff ==
    ASSUME NEW S, NEW mark, NEW f \in Seq(S), InFront(f, mark), NEW r \in Seq(S), r # <<>>, r[1] # Blank
    PROVE  Peel(f \o r, mark).ok /\ Peel(f \o r, mark).rest = r
<1> DEFINE s == f \o r
           I == {i \in 1..Len(s) : s[i] = Blank}
           i == Index(s, Blank)
<1>1. /\ s \in Seq(S) /\ Len(s) = Len(f) + Len(r)
      /\ \A k \in 1..Len(f) : s[k] = f[k]
  BY JoinIs
<1>2. SubSeq(s, 1, Len(f)) = f /\ From(s, Len(f) + 1) = r
  BY TwoParts
<1>3. Len(f) \in Nat /\ Len(r) \in Nat /\ 1 \in 1..Len(f) /\ Len(f) \in 1..Len(f)
  BY DEF InFront
<1> HIDE DEF s
<1>4. s # <<>> /\ s[1] = mark
  BY <1>1, <1>3 DEF InFront
<1>5. i = IF I # {} THEN Min(I) ELSE 0
  BY Zenon DEF Index, SelectInSeq
<1>6. I \in SUBSET Nat /\ Len(f) \in I /\ \A k \in I : k \in 1..Len(s) /\ s[k] = Blank
  <2>1. s[Len(f)] = Blank
    BY <1>1, <1>3, Zenon DEF InFront
  <2>2. Len(f) \in 1..Len(s)
    BY <1>1, <1>3
  <2> QED
    BY <2>1, <2>2
<1> HIDE DEF I, i
<1>7. i = Len(f)
  <2>1. Min(I) \in I /\ Min(I) <= Len(f)
    BY <1>6, FirstIndex
  <2>2. Min(I) \in 1..Len(s) /\ s[Min(I)] = Blank
    BY <1>6, <2>1
  <2> DEFINE m == Min(I)
  <2> HIDE DEF m
  <2>3. m \in 1..Len(f) /\ s[m] = Blank
    BY <1>3, <2>1, <2>2 DEF m
  <2>4. m = Len(f)
    <3>1. s[m] = f[m]
      BY <1>1, <2>3
    <3>2. m \notin 1..Len(f) - 1
      BY <2>3, <3>1 DEF InFront
    <3> QED
      BY <1>3, <2>3, <3>2
  <2> QED
    BY <1>5, <1>6, <2>4 DEF m
<1>8. Peel(s, mark) = [ok |-> i # 0, part |-> SubSeq(s, 2, i - 1), rest |-> TrimLeft(From(s, i + 1), Blank)]
  BY <1>4, Zenon DEF Peel, i, Blank
<1>9. TrimLeft(r, Blank) = r
  BY TrimLeftIs
<1>10. From(s, i + 1) = r /\ i # 0
  BY <1>2, <1>3, <1>7 DEF s
<1>11. (i # 0) = TRUE
  BY <1>10
<1>12. Peel(s, mark) = [ok |-> TRUE, part |-> SubSeq(s, 2, i - 1), rest |-> r]
  BY <1>8, <1>9, <1>10, <1>11, Zenon
<1>13. Peel(s, mark).ok /\ Peel(s, mark).rest = r
  <2> DEFINE part == SubSeq(s, 2, i - 1)
  <2> HIDE DEF part
  <2>1. Peel(s, mark) = [ok |-> TRUE, part |-> part, rest |-> r]
    BY <1>12 DEF part
  <2> QED
    BY <2>1
<1> QED
  BY <1>13, Zenon DEF s

(* A message with a prefix, or with tags and a prefix, in front of it.     *)
LEMMA FrontsAre ==
    ASSUME NEW C, Blank \in C, Dots \in C, At \in C, "soju" \in C, "time" \in C, "=" \in C,
           "12" \in C, "\\" \in C, "30" \in C
    PROVE  /\ Prefix \in Seq(C) /\ InFront(Prefix, Dots) /\ Prefix[1] # Blank
           /\ Time \in Seq(C) /\ InFront(Time, At)
<1> DEFINE p == <<Dots, "soju", Blank>>
           t == <<At, "time", "=", "12", "\\", Dots, "30", Blank>>
<1>1. Prefix = p /\ Time = t
  BY Zenon DEF Prefix, Time, Dots, At, Blank
<1>2. Blank # Dots /\ Blank # At
  BY LettersApart
<1>3. Blank # "soju" /\ Blank # "time" /\ Blank # "=" /\ Blank # "12" /\ Blank # "\\" /\ Blank # "30"
  BY Zenon DEF Blank
<1>4. p \in Seq(C) /\ InFront(p, Dots) /\ p[1] # Blank
  <2>1. p \in Seq(C) /\ Len(p) = 3 /\ p[1] = Dots /\ p[2] = "soju" /\ p[3] = Blank
    OBVIOUS
  <2>0. p # <<>>
    OBVIOUS
  <2> HIDE DEF p, t
  <2>2. ASSUME NEW k \in 1..Len(p) - 1 PROVE p[k] # Blank
    <3>1. k = 1 \/ k = 2
      BY <2>1
    <3> QED
      BY <1>2, <1>3, <2>1, <3>1
  <2> QED
    <3>1. InFront(p, Dots)
      <4>1. p[Len(p)] = Blank
        BY <2>1, Zenon
      <4> QED
        BY <2>0, <2>1, <2>2, <4>1, Zenon DEF InFront
    <3>2. p[1] # Blank
      BY <1>2, <2>1
    <3> QED
      BY <2>1, <3>1, <3>2
<1>5. t \in Seq(C) /\ InFront(t, At)
  <2>1. /\ t \in Seq(C) /\ Len(t) = 8 /\ t[1] = At /\ t[2] = "time" /\ t[3] = "=" /\ t[4] = "12"
        /\ t[5] = "\\" /\ t[6] = Dots /\ t[7] = "30" /\ t[8] = Blank
    OBVIOUS
  <2> HIDE DEF t
  <2>2. ASSUME NEW k \in 1..Len(t) - 1 PROVE t[k] # Blank
    <3>1. k = 1 \/ k = 2 \/ k = 3 \/ k = 4 \/ k = 5 \/ k = 6 \/ k = 7
      BY <2>1
    <3> QED
      BY <1>2, <1>3, <2>1, <3>1
  <2> QED
    BY <2>1, <2>2 DEF InFront
<1> HIDE DEF p, t
<1> QED
  BY <1>1, <1>4, <1>5

LEMMA FrontPeeled ==
    ASSUME NEW C, Blank \in C, Dots \in C, At \in C, "soju" \in C, "time" \in C, "=" \in C,
           "12" \in C, "\\" \in C, "30" \in C, NEW front \in Fronts,
           NEW line \in Seq(C), line # <<>>, line[1] # Blank, line[1] # At, line[1] # Dots
    PROVE  Fronted(front \o line, line)
<1>1. CASE front = <<>>
  <2>1. <<>> \o line = line
    OBVIOUS
  <2>2. Fronted(line, line)
    BY NothingInFront
  <2> QED
    BY <1>1, <2>1, <2>2
<1> DEFINE p == Prefix \o line
<1>2. Prefix \in Seq(C) /\ InFront(Prefix, Dots) /\ Prefix[1] # Blank
  BY FrontsAre
<1>3. Peel(p, Dots).ok /\ Peel(p, Dots).rest = line
  BY <1>2, PeelOff
<1>4. p \in Seq(C) /\ p # <<>> /\ p[1] = Dots
  <2>1. p \in Seq(C) /\ Len(p) = Len(Prefix) + Len(line) /\ \A k \in 1..Len(Prefix) : p[k] = Prefix[k]
    BY <1>2, JoinIs
  <2>2. Len(Prefix) \in Nat /\ Len(line) \in Nat /\ 1 \in 1..Len(Prefix) /\ Prefix[1] = Dots
    BY <1>2 DEF InFront
  <2> HIDE DEF p
  <2> QED
    BY <2>1, <2>2
<1> HIDE DEF p
<1>5. CASE front = Prefix
  <2>1. Peel(p, At) = [ok |-> TRUE, part |-> <<>>, rest |-> p]
    BY <1>4, LettersApart DEF Peel
  <2>2. Fronted(p, line)
    BY <1>3, <2>1 DEF Fronted
  <2> QED
    BY <1>5, <2>2 DEF p
<1>6. CASE front = Time \o Prefix
  <2>1. Time \in Seq(C) /\ InFront(Time, At)
    BY FrontsAre
  <2>2. (Time \o Prefix) \o line = Time \o p
    <3>1. Time \in Seq(C) /\ Prefix \in Seq(C)
      BY <1>2, <2>1
    <3>2. (Time \o Prefix) \o line = Time \o (Prefix \o line)
      BY <3>1, Assoc
    <3> QED
      BY <3>2 DEF p
  <2>3. p[1] # Blank
    BY <1>4, LettersApart
  <2>4. Peel(Time \o p, At).ok /\ Peel(Time \o p, At).rest = p
    BY <1>4, <2>1, <2>3, PeelOff
  <2>5. Fronted(Time \o p, line)
    BY <1>3, <2>4 DEF Fronted
  <2> QED
    BY <1>6, <2>2, <2>5
<1> QED
  BY <1>1, <1>5, <1>6, Zenon DEF Fronts

(* A network as soju lists it is read as it is.                            *)
LEMMA NetworkRead ==
    ASSUME NEW line, NEW t, Param(line, 0) = <<Network>>, line.command = <<Bouncer>>,
           Param(line, 1) = Id, Param(line, 2) = t, t # <<"*">>, ParseTags(t) = Attrs
    PROVE  ReadNetwork(line) = {[id |-> Id, attrs |-> Attrs]}
BY Zenon DEF ReadNetwork, Network, Bouncer

LEMMA ParamsAre ==
    ASSUME NEW m, NEW a, NEW b, NEW c, m.params = <<a, b, c>>
    PROVE  Param(m, 0) = a /\ Param(m, 1) = b /\ Param(m, 2) = c
<1> DEFINE p == <<a, b, c>>
<1>1. DOMAIN p = 1..3 /\ p[1] = a /\ p[2] = b /\ p[3] = c
  OBVIOUS
<1> HIDE DEF p
<1>2. m.params = p
  BY DEF p
<1> QED
  BY <1>1, <1>2 DEF Param

(* What is told of a network, whatever is in front.                        *)
LEMMA ToldReceived ==
    ASSUME NEW C, NEW blanks, NEW verb, NEW t, Tellable(C, blanks, verb, t),
           NEW line, Fronted(line, Told(verb, t))
    PROVE  /\ Parse(line, blanks).command = <<Bouncer>>
           /\ Parse(line, blanks).params = << <<verb>>, Id, t>>
<1>0. Colon(Told(verb, t)) = 0 /\ Fields(Told(verb, t), blanks) = << <<Bouncer>>, <<verb>>, <<Seven>>, t>>
  BY ToldRead
<1> DEFINE words == << <<Bouncer>>, <<verb>>, <<Seven>>, t>>
           rest == Told(verb, t)
           params == << <<verb>>, <<Seven>>, t>>
           X == Seq(C)
<1>1. Colon(rest) = 0 /\ Fields(rest, blanks) = words
  BY <1>0
<1>2. words # <<>> /\ words[1] = <<Bouncer>> /\ Tail(words) \o <<>> = params
  <2>1. <<Bouncer>> \in X /\ <<verb>> \in X /\ <<Seven>> \in X /\ t \in X
    BY DEF Tellable
  <2> DEFINE w1 == <<Bouncer>>
             w2 == <<verb>>
             w3 == <<Seven>>
  <2> HIDE DEF X, w1, w2, w3
  <2>2. w1 \in X /\ w2 \in X /\ w3 \in X
    BY <2>1 DEF w1, w2, w3
  <2> DEFINE ws == <<w1, w2, w3, t>>
             ps == <<w2, w3, t>>
  <2>3. ws \in Seq(X) /\ ws # <<>> /\ ws[1] = w1 /\ Tail(ws) = ps
    BY <2>1, <2>2
  <2>4. ps \o <<>> = ps
    BY <2>1, <2>2
  <2> QED
    BY <2>3, <2>4 DEF w1, w2, w3
<1> HIDE DEF words, rest, params
<1>3. Fronted(line, rest)
  BY DEF rest
<1>4. Parse(line, blanks).command = words[1] /\ Parse(line, blanks).params = Tail(words) \o <<>>
  BY <1>1, <1>2, <1>3, ParseBare
<1>5. params = << <<verb>>, Id, t>>
  BY Zenon DEF params, Id, Seven
<1> QED
  BY <1>2, <1>4, <1>5

-----------------------------------------------------------------------------
(* Channels.                                                               *)

Between == "/"
Open == "["
Joined == "joined"
Closed == "]"

Ending == <<Blank, Open, Joined, Closed>>

LEMMA SignsApart ==
    /\ Open # Blank /\ Joined # Blank /\ Closed \notin White /\ Between \notin White
BY Zenon DEF Open, Joined, Closed, Between, Blank, White

LEMMA StatusIs ==
    ASSUME NEW n, NEW m
    PROVE  Status(n, m) = ((n \o <<Between>>) \o m) \o Ending
BY Zenon DEF Status, Between, Ending, Blank, Open, Joined, Closed

Ended(C, p, l) ==
    /\ l \in Seq(C) /\ Len(l) = Len(p) + 4
    /\ \A i \in 1..Len(p) : l[i] = p[i]
    /\ l[Len(p) + 1] = Blank /\ l[Len(p) + 2] = Open /\ l[Len(p) + 3] = Joined /\ l[Len(p) + 4] = Closed

LEMMA EndedIs ==
    ASSUME NEW C, Blank \in C, Open \in C, Joined \in C, Closed \in C, NEW p \in Seq(C)
    PROVE  Ended(C, p, p \o Ending) /\ SubSeq(p \o Ending, 1, Len(p)) = p
<1> DEFINE t == Ending
           l == p \o t
<1>1. /\ t \in Seq(C) /\ Len(t) = 4
      /\ t[1] = Blank /\ t[2] = Open /\ t[3] = Joined /\ t[4] = Closed
  BY DEF Ending
<1> HIDE DEF t
<1>2. /\ l \in Seq(C) /\ Len(l) = Len(p) + Len(t)
      /\ \A i \in 1..Len(p) : l[i] = p[i]
      /\ \A i \in 1..Len(t) : l[Len(p) + i] = t[i]
  <2>1. t \in Seq(C)
    BY <1>1
  <2> QED
    BY <2>1, JoinIs
<1>3. SubSeq(l, 1, Len(p)) = p
  <2>1. t \in Seq(C)
    BY <1>1
  <2> QED
    BY <2>1, TwoParts
<1> HIDE DEF l
<1>4. \A i \in 1..4 : l[Len(p) + i] = t[i]
  BY <1>1, <1>2
<1>5. Len(l) = Len(p) + 4
  BY <1>1, <1>2
<1>6. l[Len(p) + 1] = t[1] /\ l[Len(p) + 2] = t[2] /\ l[Len(p) + 3] = t[3] /\ l[Len(p) + 4] = t[4]
  BY <1>4
<1>7. Ended(C, p, l)
  BY <1>1, <1>2, <1>5, <1>6 DEF Ended
<1> QED
  BY <1>3, <1>7 DEF l, t

(* Nothing is trimmed from a text that begins and ends with no blank.      *)
LEMMA NothingTrimmed ==
    ASSUME NEW C, NEW l \in Seq(C), l # <<>>, l[1] \notin White, l[Len(l)] \notin White
    PROVE  TrimSpace(l) = l
<1> DEFINE I == {i \in DOMAIN l : l[i] \notin White}
<1>1. Len(l) \in Nat /\ DOMAIN l = 1..Len(l) /\ 1 \in 1..Len(l) /\ Len(l) \in 1..Len(l)
  OBVIOUS
<1>2. I \in SUBSET (1..Len(l)) /\ I \in SUBSET Nat /\ 1 \in I /\ Len(l) \in I
  BY <1>1
<1>3. TrimSpace(l) = IF I = {} THEN <<>> ELSE SubSeq(l, Min(I), Max(I))
  BY DEF TrimSpace
<1> HIDE DEF I
<1>4. Min(I) \in I /\ Min(I) <= 1
  BY <1>2, FirstIndex
<1>5. Max(I) \in I /\ Max(I) >= Len(l)
  BY <1>1, <1>2, GreatestIsMax
<1> DEFINE a == Min(I)
           b == Max(I)
<1>6. a \in 1..Len(l) /\ b \in 1..Len(l) /\ a <= 1 /\ b >= Len(l)
  BY <1>2, <1>4, <1>5
<1>7. TrimSpace(l) = SubSeq(l, a, b)
  BY <1>2, <1>3
<1> HIDE DEF a, b
<1>8. a = 1 /\ b = Len(l)
  <2>1. \A n \in Nat : \A x, y \in 1..n : x <= 1 /\ y >= n => x = 1 /\ y = n
    OBVIOUS
  <2>2. Len(l) \in Nat
    BY <1>1
  <2> QED
    BY <1>6, <2>1, <2>2, Zenon
<1>9. SubSeq(l, 1, Len(l)) = l
  OBVIOUS
<1> QED
  BY <1>7, <1>8, <1>9

(* What a line says of a channel when there is nothing to trim.            *)
ChannelIn(l, network) ==
    LET J == {i \in 1..Len(l) - 1 : l[i] = Blank /\ l[i + 1] = Open}
        full == IF J = {} THEN l ELSE Before(l, Max(J))
        slash == Slash(full)
    IN  [name |-> IF slash = 0 THEN full ELSE Before(full, slash),
         network |-> IF slash = 0 THEN network ELSE From(full, slash + 1),
         status |-> IF J = {} THEN <<>>
                    ELSE IF Last(l) = Closed THEN SubSeq(l, Max(J) + 2, Len(l) - 1)
                    ELSE From(l, Max(J) + 2)]

LEMMA ChannelRead ==
    ASSUME NEW C, Blank \in C, Open \in C, Joined \in C, Closed \in C, NEW p \in Seq(C), p # <<>>,
           p[1] \notin White, NEW network
    PROVE  ReadChannel(p \o Ending, network) =
             [name |-> IF Slash(p) = 0 THEN p ELSE Before(p, Slash(p)),
              network |-> IF Slash(p) = 0 THEN network ELSE From(p, Slash(p) + 1),
              status |-> <<Joined>>]
<1> DEFINE l == p \o Ending
           J == {i \in 1..Len(l) - 1 : l[i] = Blank /\ l[i + 1] = Open}
           full == IF J = {} THEN l ELSE Before(l, Max(J))
           status == IF J = {} THEN <<>>
                     ELSE IF Last(l) = Closed THEN SubSeq(l, Max(J) + 2, Len(l) - 1)
                     ELSE From(l, Max(J) + 2)
<1>1. Ended(C, p, l) /\ SubSeq(l, 1, Len(p)) = p
  BY EndedIs
<1> HIDE DEF l
<1>2. Len(p) \in Nat /\ 1 \in 1..Len(p)
  OBVIOUS
<1>3. TrimSpace(l) = l
  <2>1. l \in Seq(C) /\ l # <<>> /\ l[1] = p[1] /\ l[Len(l)] = Closed
    BY <1>1, <1>2 DEF Ended
  <2> QED
    BY <2>1, SignsApart, NothingTrimmed
<1>4. ReadChannel(l, network) =
        [name |-> IF Slash(full) = 0 THEN full ELSE Before(full, Slash(full)),
         network |-> IF Slash(full) = 0 THEN network ELSE From(full, Slash(full) + 1),
         status |-> status]
  <2>1. ReadChannel(l, network) = ChannelIn(TrimSpace(l), network)
    BY Zenon DEF ReadChannel, ChannelIn, Blank, Open, Closed
  <2>2. ReadChannel(l, network) = ChannelIn(l, network)
    BY <1>3, <2>1, Zenon
  <2> QED
    BY <2>2, Zenon DEF ChannelIn
<1>5. /\ l \in Seq(C) /\ Len(l) = Len(p) + 4 /\ l[Len(p) + 1] = Blank /\ l[Len(p) + 2] = Open
      /\ l[Len(p) + 3] = Joined /\ l[Len(p) + 4] = Closed
  BY <1>1 DEF Ended
<1>6. J \in SUBSET (1..Len(p) + 3) /\ Len(p) + 1 \in J /\ \A i \in J : i <= Len(p) + 1
  <2>1. ASSUME NEW i \in J PROVE i \in 1..Len(p) + 3 /\ i <= Len(p) + 1
    <3>1. i \in 1..Len(p) + 3 /\ l[i] = Blank
      BY <1>2, <1>5
    <3>2. i # Len(p) + 2 /\ i # Len(p) + 3
      BY <1>5, <3>1, SignsApart
    <3> QED
      BY <1>2, <3>1, <3>2
  <2>2. Len(p) + 1 \in 1..Len(l) - 1
    BY <1>2, <1>5
  <2>3. (Len(p) + 1) + 1 = Len(p) + 2
    BY <1>2
  <2>4. Len(p) + 1 \in J
    BY <1>5, <2>2, <2>3
  <2> QED
    BY <2>1, <2>4
<1> HIDE DEF J
<1>7. Max(J) = Len(p) + 1
  <2> DEFINE m == Max(J)
  <2>1. Len(p) + 3 \in Nat
    BY <1>2
  <2>2. m \in J /\ m >= Len(p) + 1
    BY <1>6, <2>1, GreatestIsMax
  <2>3. m \in 1..Len(p) + 3 /\ m <= Len(p) + 1
    BY <1>6, <2>2
  <2> HIDE DEF m
  <2>4. m = Len(p) + 1
    BY <1>2, <2>2, <2>3
  <2> QED
    BY <2>4 DEF m
<1>8. full = p
  <2>1. Before(l, Len(p) + 1) = SubSeq(l, 1, Len(p))
    BY <1>2 DEF Before
  <2> QED
    BY <1>1, <1>6, <1>7, <2>1
<1>9. status = <<Joined>>
  <2>1. Last(l) = Closed
    BY <1>5 DEF Last
  <2> DEFINE q == SubSeq(l, Len(p) + 3, Len(p) + 3)
  <2>2. Len(p) + 3 \in 1..Len(l) /\ l[Len(p) + 3] = Joined
    BY <1>2, <1>5
  <2>3. q \in Seq(C) /\ Len(q) = 1 /\ q[1] = Joined
    BY <1>2, <1>5, <2>2
  <2> HIDE DEF q
  <2>4. q = <<Joined>>
    BY <2>3
  <2>5. Max(J) + 2 = Len(p) + 3 /\ Len(l) - 1 = Len(p) + 3
    BY <1>2, <1>5, <1>7
  <2>6. J # {}
    BY <1>6
  <2> QED
    BY <2>1, <2>4, <2>5, <2>6, Zenon DEF q
<1> HIDE DEF full, status
<1> QED
  BY <1>4, <1>8, <1>9, Zenon DEF l

(* The last slash parts a channel from its network.                        *)
LEMMA SlashIs ==
    ASSUME NEW C, Between \in C, NEW n \in Seq(C), NEW m \in Seq(C), Between \notin ToSet(m)
    PROVE  LET p == (n \o <<Between>>) \o m
           IN  /\ p \in Seq(C) /\ p # <<>> /\ p[1] = IF n = <<>> THEN Between ELSE n[1]
               /\ Slash(p) = Len(n) + 1
               /\ Before(p, Slash(p)) = n /\ From(p, Slash(p) + 1) = m
<1> DEFINE b == <<Between>>
           f == n \o b
           p == f \o m
           I == {i \in 1..Len(p) : p[i] = Between}
<1>1. b \in Seq(C) /\ Len(b) = 1 /\ b[1] = Between
  OBVIOUS
<1> HIDE DEF b
<1>2. /\ f \in Seq(C) /\ Len(f) = Len(n) + 1 /\ f[Len(n) + 1] = Between
      /\ \A i \in 1..Len(n) : f[i] = n[i]
  <2>1. b \in Seq(C)
    BY <1>1
  <2>2. /\ f \in Seq(C) /\ Len(f) = Len(n) + Len(b)
        /\ \A i \in 1..Len(n) : f[i] = n[i]
        /\ \A i \in 1..Len(b) : f[Len(n) + i] = b[i]
    BY <2>1, JoinIs
  <2>3. f[Len(n) + 1] = b[1]
    BY <1>1, <2>2
  <2> QED
    BY <1>1, <2>2, <2>3
<1>3. SubSeq(f, 1, Len(n)) = n
  <2>1. b \in Seq(C)
    BY <1>1
  <2> QED
    BY <2>1, TwoParts
<1> HIDE DEF f
<1>4. /\ p \in Seq(C) /\ Len(p) = Len(f) + Len(m)
      /\ \A i \in 1..Len(f) : p[i] = f[i]
      /\ \A i \in 1..Len(m) : p[Len(f) + i] = m[i]
  <2>1. f \in Seq(C)
    BY <1>2
  <2> QED
    BY <2>1, JoinIs
<1>5. SubSeq(p, 1, Len(f)) = f /\ From(p, Len(f) + 1) = m
  <2>1. f \in Seq(C)
    BY <1>2
  <2> QED
    BY <2>1, TwoParts
<1> HIDE DEF p
<1>6. Len(n) \in Nat /\ Len(m) \in Nat
  OBVIOUS
<1>7. I \in SUBSET (1..Len(p)) /\ Len(n) + 1 \in I /\ \A i \in I : i <= Len(n) + 1
  <2>1. Len(n) + 1 \in 1..Len(p) /\ p[Len(n) + 1] = Between
    BY <1>2, <1>4, <1>6
  <2>2. ASSUME NEW i \in I, i > Len(n) + 1 PROVE FALSE
    <3> DEFINE k == i - (Len(n) + 1)
    <3>1. k \in 1..Len(m) /\ Len(f) + k = i
      BY <1>2, <1>4, <1>6, <2>2
    <3> HIDE DEF k
    <3>2. m[k] = Between
      BY <1>4, <3>1
    <3> QED
      BY <3>1, <3>2 DEF ToSet
  <2>3. \A i \in I : i <= Len(n) + 1
    BY <1>4, <1>6, <2>2
  <2> QED
    BY <2>1, <2>3
<1>8. Slash(p) = IF I # {} THEN Max(I) ELSE 0
  BY Zenon DEF Slash, SelectLastInSeq, Between
<1> HIDE DEF I
<1>9. Slash(p) = Len(n) + 1
  <2> DEFINE x == Max(I)
  <2>1. Len(p) \in Nat
    BY <1>4
  <2>2. x \in I /\ x >= Len(n) + 1
    BY <1>7, <2>1, GreatestIsMax
  <2>3. x \in 1..Len(p) /\ x <= Len(n) + 1
    BY <1>7, <2>2
  <2>4. Slash(p) = x
    BY <1>7, <1>8
  <2> HIDE DEF x
  <2> QED
    BY <1>6, <2>1, <2>2, <2>3, <2>4
<1>10. Before(p, Len(n) + 1) = n
  <2>1. Before(p, Len(n) + 1) = SubSeq(p, 1, Len(n))
    BY <1>6 DEF Before
  <2> DEFINE u == SubSeq(p, 1, Len(n))
  <2>2. u \in Seq(C) /\ Len(u) = Len(n) /\ \A i \in 1..Len(n) : u[i] = p[i]
    BY <1>2, <1>4, <1>6
  <2>3. \A i \in 1..Len(n) : p[i] = n[i]
    BY <1>2, <1>4, <1>6
  <2> HIDE DEF u
  <2>4. u = n
    BY <2>2, <2>3
  <2> QED
    BY <2>1, <2>4 DEF u
<1>11. From(p, (Len(n) + 1) + 1) = m
  BY <1>2, <1>5
<1>12. p # <<>> /\ p[1] = IF n = <<>> THEN Between ELSE n[1]
  <2>1. Len(p) > 0 /\ 1 \in 1..Len(f) /\ p[1] = f[1]
    BY <1>2, <1>4, <1>6
  <2>2. CASE n = <<>>
    BY <1>2, <1>4, <2>1, <2>2
  <2>3. CASE n # <<>>
    <3>1. 1 \in 1..Len(n)
      BY <2>3
    <3> QED
      BY <1>2, <1>4, <2>1, <2>3, <3>1
  <2> QED
    BY <2>2, <2>3
<1> QED
  BY <1>4, <1>9, <1>10, <1>11, <1>12, Zenon DEF p, f, b

(* A channel of a network is read as that, if no slash is in the network's *)
(* name.                                                                   *)
LEMMA StatusRead ==
    ASSUME NEW C, Blank \in C, Open \in C, Joined \in C, Closed \in C, Between \in C,
           NEW n \in Seq(C), NEW m \in Seq(C), Between \notin ToSet(m),
           n # <<>> => n[1] \notin White, NEW network
    PROVE  ReadChannel(Status(n, m), network) = [name |-> n, network |-> m, status |-> <<Joined>>]
<1> DEFINE p == (n \o <<Between>>) \o m
<1>1. /\ p \in Seq(C) /\ p # <<>> /\ p[1] = IF n = <<>> THEN Between ELSE n[1]
      /\ Slash(p) = Len(n) + 1
      /\ Before(p, Slash(p)) = n /\ From(p, Slash(p) + 1) = m
  BY SlashIs
<1>2. Status(n, m) = p \o Ending
  BY StatusIs
<1> HIDE DEF p
<1>3. p[1] \notin White
  BY <1>1, SignsApart
<1>4. Slash(p) # 0
  BY <1>1
<1>5. ReadChannel(p \o Ending, network) =
        [name |-> IF Slash(p) = 0 THEN p ELSE Before(p, Slash(p)),
         network |-> IF Slash(p) = 0 THEN network ELSE From(p, Slash(p) + 1),
         status |-> <<Joined>>]
  BY <1>1, <1>3, ChannelRead
<1> QED
  BY <1>1, <1>2, <1>4, <1>5, Zenon

-----------------------------------------------------------------------------
(* Fields survive.                                                         *)

(* The letters that the texts around a field are made of.                  *)
Around ==
    {Backslash, Semi, Blank, "\r", "\n", Dots, "s", "r", "n", Host, Name, Equals, "h",
     Bouncer, Change, Network, Seven, At, "soju", "time", "=", "12", "30",
     Between, Open, Joined, Closed, "net", "#c"}

Lettered(C) == Around \subseteq C

LEMMA LetteredIs ==
    ASSUME NEW C, Lettered(C)
    PROVE  /\ Escapable(C) /\ Host \in C /\ Name \in C /\ Equals \in C /\ "h" \in C
           /\ Bouncer \in C /\ Change \in C /\ Network \in C /\ Seven \in C /\ Blank \in C /\ Dots \in C
BY Zenon DEF Lettered, Around, Escapable

LEMMA TagsWritten ==
    ASSUME NEW C, Lettered(C), text \in Seq(C), NEW order \in Orders
    PROVE  LET t == FormatTags(Attrs, order)
           IN  /\ t \in Seq(Unbroken(C)) /\ t # <<>>
               /\ t[1] = Host \/ t[1] = Name
               /\ ParseTags(t) = Attrs
<1> DEFINE hv == <<"h">>
<1>1. Escapable(C) /\ Host \in C /\ Name \in C /\ Equals \in C /\ "h" \in C
  BY LetteredIs
<1>2. FormatTags(Attrs, order) = InOrder(order) /\ ParseTags(FormatTags(Attrs, order)) = Attrs
  BY <1>1, TagsReadBack
<1>3. hv \in Seq(C)
  BY <1>1
<1>4. Host \in Clean(C) /\ Name \in Clean(C) /\ Equals \in Clean(C)
  BY <1>1, KeysApart, Zenon DEF Clean
<1>5. InOrder(order) = Line(Host, hv, Name, text) \/ InOrder(order) = Line(Name, text, Host, hv)
  BY Zenon DEF InOrder
<1> HIDE DEF hv
<1> DEFINE u == Line(Host, hv, Name, text)
           v == Line(Name, text, Host, hv)
<1>6. u \in Seq(Unbroken(C)) /\ u # <<>> /\ u[1] = Host
  BY <1>1, <1>3, <1>4, LineIs
<1>7. v \in Seq(Unbroken(C)) /\ v # <<>> /\ v[1] = Name
  BY <1>1, <1>3, <1>4, LineIs
<1> HIDE DEF u, v
<1> QED
  BY <1>2, <1>5, <1>6, <1>7, Zenon DEF u, v

(* What soju is sent of a network.                                         *)
LEMMA WordsApart ==
    /\ Bouncer # Blank /\ Bouncer # Dots /\ Bouncer # At /\ Bouncer \notin White
    /\ Seven # Blank /\ Seven \notin White
    /\ Change # Blank /\ Change # Dots
    /\ Network # Blank /\ Network # Dots /\ Network \notin White
    /\ Blank \in White
BY Zenon DEF Bouncer, Seven, Change, Network, Blank, Dots, At, White

LEMMA NetworkSent ==
    ASSUME NEW C, Lettered(C), text \in Seq(C), NEW order \in Orders
    PROVE  LET sent == SojuParse(ChangeLine(Id, Attrs, order))
           IN  /\ sent.params = << <<"CHANGENETWORK">>, Id, FormatTags(Attrs, order)>>
               /\ ParseTags(Param(sent, 2)) = Attrs
<1> DEFINE t == FormatTags(Attrs, order)
           B == {Blank}
           line == Told(Change, t)
           m == Parse(line, B)
           k == <<Change>>
<1>1. t \in Seq(Unbroken(C)) /\ t # <<>> /\ (t[1] = Host \/ t[1] = Name) /\ ParseTags(t) = Attrs
  BY TagsWritten
<1>2. ChangeLine(Id, Attrs, order) = line
  BY LinesAreTold
<1> HIDE DEF t
<1>3. Bouncer \in C /\ Change \in C /\ Seven \in C /\ Blank \in C
  BY LetteredIs
<1>4. t \in Seq(C \ B)
  <2>1. Unbroken(C) \subseteq C \ B
    BY Zenon DEF Unbroken
  <2> QED
    BY <1>1, <2>1
<1>5. t[1] # Dots
  BY <1>1, KeysApart, Zenon
<1>6. Tellable(C, B, Change, t)
  BY <1>1, <1>3, <1>4, <1>5, WordsApart DEF Tellable
<1>7. line # <<>> /\ line[1] = Bouncer
  BY <1>6, ToldRead
<1> HIDE DEF line, B
<1>8. Fronted(line, line)
  BY <1>7, NothingInFront, WordsApart
<1>9. m.params = <<k, Id, t>>
  BY <1>6, <1>8, ToldReceived DEF line
<1> HIDE DEF m
<1>10. SojuParse(line) = m
  BY Zenon DEF SojuParse, m, B, Blank
<1>11. Param(m, 2) = t
  <2> HIDE DEF k
  <2>1. Param(m, 2) = t
    BY <1>9, ParamsAre
  <2> QED
    BY <2>1
<1>12. m.params = << <<"CHANGENETWORK">>, Id, t>>
  BY <1>9, Zenon DEF Change
<1> QED
  BY <1>1, <1>2, <1>10, <1>11, <1>12, Zenon DEF t

(* What the client makes of a network that soju lists.                     *)
LEMMA NetworkListed ==
    ASSUME NEW C, Lettered(C), "\t" \notin C, text \in Seq(C), NEW order \in Orders, NEW front \in Fronts
    PROVE  ReadNetwork(ParseMessage(front \o Listing(order))) = {[id |-> Id, attrs |-> Attrs]}
<1> DEFINE t == FormatTags(Attrs, order)
           rest == Told(Network, t)
           line == front \o rest
           m == Parse(line, White)
           k == <<Network>>
<1>1. t \in Seq(Unbroken(C)) /\ t # <<>> /\ (t[1] = Host \/ t[1] = Name) /\ ParseTags(t) = Attrs
  BY TagsWritten
<1>2. Listing(order) = rest
  BY LinesAreTold
<1> HIDE DEF t
<1>3. Bouncer \in C /\ Network \in C /\ Seven \in C /\ Blank \in C
  BY LetteredIs
<1>4. t \in Seq(C \ White)
  <2>1. Unbroken(C) \subseteq C \ White
    BY Zenon DEF Unbroken, White, Blank
  <2> QED
    BY <1>1, <2>1
<1>5. t[1] # Dots
  BY <1>1, KeysApart, Zenon
<1>6. Tellable(C, White, Network, t)
  BY <1>1, <1>3, <1>4, <1>5, WordsApart DEF Tellable
<1>7. rest \in Seq(C) /\ rest # <<>> /\ rest[1] = Bouncer
  BY <1>6, ToldRead
<1> HIDE DEF rest
<1>8. rest[1] # Blank /\ rest[1] # At /\ rest[1] # Dots
  BY <1>7, WordsApart
<1>9. Fronted(line, rest)
  <2>1. /\ Blank \in C /\ Dots \in C /\ At \in C /\ "soju" \in C /\ "time" \in C /\ "=" \in C
        /\ "12" \in C /\ "\\" \in C /\ "30" \in C
    BY Zenon DEF Lettered, Around, Backslash
  <2> QED
    BY <1>7, <1>8, <2>1, FrontPeeled
<1>10. m.command = <<Bouncer>> /\ m.params = <<k, Id, t>>
  BY <1>6, <1>9, ToldReceived DEF rest
<1> HIDE DEF m, k, line
<1>11. Param(m, 0) = k /\ Param(m, 1) = Id /\ Param(m, 2) = t
  BY <1>10, ParamsAre
<1>12. t # <<"*">>
  <2>1. Host # "*" /\ Name # "*"
    BY Zenon DEF Host, Name
  <2> QED
    BY <1>1, <2>1
<1>13. ReadNetwork(m) = {[id |-> Id, attrs |-> Attrs]}
  BY <1>1, <1>10, <1>11, <1>12, NetworkRead DEF k
<1>14. ParseMessage(line) = m
  BY Zenon DEF ParseMessage, m
<1> QED
  BY <1>2, <1>13, <1>14, Zenon DEF line

LEMMA AlsoOf ==
    ASSUME NEW S, NEW T, S \subseteq T, NEW s \in Seq(S)
    PROVE  s \in Seq(T)
OBVIOUS

LEMMA FirstLetter ==
    ASSUME NEW S, NEW s \in Seq(S), s # <<>>
    PROVE  s[1] \in S /\ s[1] \in ToSet(s)
<1>1. 1 \in 1..Len(s)
  OBVIOUS
<1> QED
  BY <1>1 DEF ToSet

(* soju gets every field as it was entered, and every field it lists comes *)
(* back as it is, whatever the letters of the text and however many, if    *)
(* there is no tab in it; a channel is told from its network unless the    *)
(* name of the network has a slash (client.go:467-517, 528-554, irc.go:29- *)
(* 73, 89-144).                                                            *)
THEOREM FieldsGetThrough == Spec => []FieldsSurvive
<1> DEFINE C == Letters \cup Around
           D == (Letters \ {"\t"}) \cup Around
<1>1. Lettered(C) /\ Lettered(D) /\ Letters \subseteq C
  BY Zenon DEF Lettered
<1>2. "\t" \notin D
  BY Zenon DEF Around, Backslash, Semi, Blank, Dots, Host, Name, Equals, Bouncer, Change, Network,
       Seven, At, Between, Open, Joined, Closed
<1>3. ASSUME NEW c \in Letters PROVE c # "\r" /\ c # "\n"
  BY TextAssumption, Zenon
<1>4. /\ Blank \in C /\ Open \in C /\ Joined \in C /\ Closed \in C /\ Between \in C
      /\ "net" \in C /\ "#c" \in C
  BY Zenon DEF Around
<1> HIDE DEF C, D
<1>5. ASSUME text \in Seq(Letters), NEW order \in Orders
      PROVE  LET sent == SojuParse(ChangeLine(Id, Attrs, order))
             IN  /\ sent.params = << <<"CHANGENETWORK">>, Id, FormatTags(Attrs, order)>>
                 /\ ParseTags(Param(sent, 2)) = Attrs
  <2>1. text \in Seq(C)
    BY <1>1, <1>5, AlsoOf
  <2> QED
    BY <1>1, <2>1, NetworkSent
<1>6. ASSUME text \in Seq(Letters), "\t" \notin ToSet(text), NEW order \in Orders, NEW front \in Fronts
      PROVE  ReadNetwork(ParseMessage(front \o Listing(order))) = {[id |-> Id, attrs |-> Attrs]}
  <2>1. \A i \in 1..Len(text) : text[i] \in Letters \ {"\t"}
    <3>1. \A i \in 1..Len(text) : text[i] \in Letters /\ text[i] \in ToSet(text)
      BY <1>6 DEF ToSet
    <3> QED
      BY <1>6, <3>1
  <2>2. Letters \ {"\t"} \subseteq D
    BY DEF D
  <2>3. text \in Seq(D)
    BY <1>6, <2>1, <2>2
  <2> QED
    BY <1>1, <1>2, <1>6, <2>3, NetworkListed
<1>7. ASSUME text \in Seq(Letters), " " \notin ToSet(text), "\t" \notin ToSet(text)
      PROVE  ReadChannel(Status(text, <<"net">>), <<>>)
                = [name |-> text, network |-> <<"net">>, status |-> <<"joined">>]
  <2> DEFINE m == <<"net">>
  <2>1. m \in Seq(C) /\ Between \notin ToSet(m)
    <3>1. Between # "net"
      BY Zenon DEF Between
    <3> QED
      BY <1>4, <3>1 DEF ToSet
  <2>2. text \in Seq(C)
    BY <1>1, <1>7, AlsoOf
  <2>3. text # <<>> => text[1] \notin White
    <3>1. text # <<>> => text[1] \in Letters /\ text[1] \in ToSet(text)
      BY <1>7, FirstLetter
    <3> QED
      BY <1>3, <1>7, <3>1, Zenon DEF White
  <2> HIDE DEF m
  <2> DEFINE e == <<>>
  <2> HIDE DEF e
  <2>4. ReadChannel(Status(text, m), e) = [name |-> text, network |-> m, status |-> <<Joined>>]
    BY <1>4, <2>1, <2>2, <2>3, StatusRead
  <2> QED
    BY <2>4, Zenon DEF m, e, Joined
<1>8. ASSUME text \in Seq(Letters), "/" \notin ToSet(text)
      PROVE  ReadChannel(Status(<<"#c">>, text), <<>>)
                = [name |-> <<"#c">>, network |-> text, status |-> <<"joined">>]
  <2> DEFINE n == <<"#c">>
  <2>1. n \in Seq(C) /\ n[1] \notin White
    <3>1. "#c" \notin White
      BY Zenon DEF White
    <3> QED
      BY <1>4, <3>1
  <2>2. text \in Seq(C)
    BY <1>1, <1>8, AlsoOf
  <2>3. Between \notin ToSet(text)
    BY <1>8, Zenon DEF Between
  <2> HIDE DEF n
  <2> DEFINE e == <<>>
  <2> HIDE DEF e
  <2>4. ReadChannel(Status(n, text), e) = [name |-> n, network |-> text, status |-> <<Joined>>]
    BY <1>4, <2>1, <2>2, <2>3, StatusRead
  <2> QED
    BY <2>4, Zenon DEF n, e, Joined
<1>9. TextInv => FieldsSurvive
  BY <1>5, <1>6, <1>7, <1>8, Zenon DEF TextInv, FieldsSurvive
<1> QED
  BY <1>9, InvText, PTL
=============================================================================
