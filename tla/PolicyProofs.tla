---------------------------- MODULE PolicyProofs ----------------------------
(***************************************************************************)
(* What holds of Policy for any number of administrators, networks, texts, *)
(* forms and saves.                                                        *)
(***************************************************************************)
EXTENDS Policy, FiniteSetTheorems, WellFoundedInduction, TLAPS

(* The lines that get into the file: of the keys, those a policy may set.  *)
PolicyLines == {line \in Lines : line.is = "key" => line.name \in PolicyKeys}

(* The requests and the watcher only ever hold texts of such lines, and    *)
(* what is about to be written, or what the watcher runs on, parses.       *)
Request ==
    [at : {"idle", "open", "write", "saved"}, form : Forms \cup {NoForm},
     read : Seq(PolicyLines), text : {t \in Seq(PolicyLines) : Parses(t)}]

Watch ==
    [at : {"off", "sleep", "pass"}, mode : {"once", "forever"},
     policy : {t \in Seq(PolicyLines) : Parses(t)}]

PolicyInv ==
    /\ file \in Seq(PolicyLines)
    /\ torn \in BOOLEAN
    /\ ~torn => Parses(file)
    /\ admin \in [Admins -> Request]
    /\ alone \in [Admins -> BOOLEAN]
    /\ posts \in 0..MaxSaves /\ faults \in 0..MaxFaults
    /\ watch \in Watch

-----------------------------------------------------------------------------
(* Numbers, and the operators on sequences policySetKey is written with.   *)

(* A set of numbers has a least one.                                       *)
LEMMA LeastOne ==
    ASSUME NEW T \in SUBSET Nat, T # {}
    PROVE  \E m \in T : \A n \in T : m <= n
<1> DEFINE R == {ss \in Nat \X Nat : ss[1] < ss[2]}
<1>1. R = OpToRel(<, Nat)
  BY Zenon DEF OpToRel
<1>2. IsWellFoundedOn(R, Nat)
  BY <1>1, NatLessThanWellFounded
<1>3. \A x, y \in Nat : <<y, x>> \notin R => x <= y
  OBVIOUS
<1> HIDE DEF R
<1>4. \E x \in T : \A y \in T : ~(<<y, x>> \in R)
  BY <1>2, WFMin
<1> QED
  BY <1>3, <1>4

(* What holds of 0, and of a number whenever it holds of the one before, up*)
(* to a bound, holds of every number up to there.                          *)
LEMMA UpTo ==
    ASSUME NEW N \in Nat, NEW T, 0 \in T, \A k \in 0..N : k # 0 /\ k - 1 \in T => k \in T
    PROVE  0..N \subseteq T
<1> DEFINE B == (0..N) \ T
<1>1. SUFFICES ASSUME B # {} PROVE FALSE
  OBVIOUS
<1>2. PICK m \in B : \A n \in B : m <= n
  <2>1. B \in SUBSET Nat
    OBVIOUS
  <2> QED
    BY <1>1, <2>1, LeastOne
<1>3. m \in 0..N /\ m \notin T /\ m # 0
  OBVIOUS
<1>4. m - 1 \in 0..N /\ ~(m <= m - 1)
  BY <1>3
<1>5. m - 1 \in T
  BY <1>2, <1>4
<1> QED
  BY <1>3, <1>5

(* The first index with a property is one, and 0 says that there is none.  *)
LEMMA FirstIndex ==
    ASSUME NEW I \in SUBSET Nat
    PROVE  /\ (IF I # {} THEN Min(I) ELSE 0) \in I \cup {0}
           /\ I # {} => Min(I) \in I /\ \A i \in I : Min(I) <= i
<1>1. CASE I # {}
  <2>1. \E m \in I : \A n \in I : m <= n
    BY <1>1, LeastOne
  <2>2. Min(I) \in I /\ \A i \in I : Min(I) <= i
    BY <2>1 DEF Min
  <2> QED
    BY <2>2
<1> QED
  BY <1>1

(* Two sequences, one behind the other.                                    *)
LEMMA JoinIs ==
    ASSUME NEW S, NEW s \in Seq(S), NEW t \in Seq(S)
    PROVE  /\ s \o t \in Seq(S) /\ Len(s \o t) = Len(s) + Len(t)
           /\ \A i \in 1..Len(s) : (s \o t)[i] = s[i]
           /\ \A i \in 1..Len(t) : (s \o t)[Len(s) + i] = t[i]
<1>1. Len(s) \in Nat /\ Len(t) \in Nat
  OBVIOUS
<1>2. s \o t \in Seq(S) /\ Len(s \o t) = Len(s) + Len(t)
  OBVIOUS
<1>3. \A i \in 1..Len(s) : (s \o t)[i] = s[i]
  BY <1>1
<1>4. \A i \in 1..Len(t) : (s \o t)[Len(s) + i] = t[i]
  BY <1>1
<1> QED
  BY <1>2, <1>3, <1>4

LEMMA EditsAreTexts ==
    ASSUME NEW S, NEW s \in Seq(S), NEW i \in 1..Len(s), NEW e \in S
    PROVE  RemoveAt(s, i) \in Seq(S) /\ ReplaceAt(s, i, e) \in Seq(S) /\ InsertAt(s, i + 1, e) \in Seq(S)
<1>1. SubSeq(s, 1, i - 1) \in Seq(S) /\ SubSeq(s, i + 1, Len(s)) \in Seq(S)
  OBVIOUS
<1>2. SubSeq(s, 1, i) \in Seq(S)
  OBVIOUS
<1>3. <<e>> \in Seq(S)
  OBVIOUS
<1>4. RemoveAt(s, i) \in Seq(S)
  BY <1>1 DEF RemoveAt
<1>5. ReplaceAt(s, i, e) \in Seq(S)
  BY DEF ReplaceAt
<1>6. SubSeq(s, 1, (i + 1) - 1) = SubSeq(s, 1, i)
  OBVIOUS
<1>7. InsertAt(s, i + 1, e) \in Seq(S)
  BY <1>1, <1>2, <1>3, <1>6 DEF InsertAt
<1> QED
  BY <1>4, <1>5, <1>7

(* The search finds the first header of a name, the header after it or the *)
(* end, and the first line of the key between the two.                     *)
LEMMA StartIs ==
    ASSUME NEW text \in Seq(Lines), NEW n
    PROVE  /\ StartOf(text, n) \in 0..Len(text)
           /\ StartOf(text, n) # 0 => text[StartOf(text, n)] = Header(n)
           /\ StartOf(text, n) = 0 => \A i \in 1..Len(text) : text[i] # Header(n)
<1> DEFINE I == {i \in 1..Len(text) : text[i] = Header(n)}
<1>1. StartOf(text, n) = IF I # {} THEN Min(I) ELSE 0
  BY DEF StartOf, SelectInSeq
<1>2. Len(text) \in Nat /\ I \in SUBSET Nat /\ I \subseteq 1..Len(text)
  OBVIOUS
<1> HIDE DEF I
<1>3. StartOf(text, n) \in I \cup {0} /\ (StartOf(text, n) = 0 => I = {})
  BY <1>1, <1>2, FirstIndex
<1>4. StartOf(text, n) \in 0..Len(text)
  <2>1. 0 \in 0..Len(text) /\ 1..Len(text) \subseteq 0..Len(text)
    BY <1>2
  <2> QED
    BY <1>2, <1>3, <2>1
<1> QED
  BY <1>3, <1>4 DEF I

LEMMA EndIs ==
    ASSUME NEW text \in Seq(Lines), NEW start \in 0..Len(text)
    PROVE  /\ EndOf(text, start) \in start + 1..Len(text) + 1
           /\ EndOf(text, start) # Len(text) + 1 => text[EndOf(text, start)].is = "header"
           /\ \A i \in start + 1..EndOf(text, start) - 1 : text[i].is # "header"
<1> DEFINE I == {i \in start + 1..Len(text) : text[i].is = "header"}
           next == IF I # {} THEN Min(I) ELSE 0
<1>1. EndOf(text, start) = IF next = 0 THEN Len(text) + 1 ELSE next
  BY DEF EndOf, SelectInSubSeq
<1>2. Len(text) \in Nat /\ I \in SUBSET Nat /\ I \subseteq start + 1..Len(text)
  OBVIOUS
<1>3. \A i \in start + 1..Len(text) : i \notin I => text[i].is # "header"
  OBVIOUS
<1>4. \A i \in I : text[i].is = "header"
  OBVIOUS
<1> HIDE DEF I
<1>5. CASE I = {}
  BY <1>1, <1>2, <1>3, <1>5
<1>6. CASE I # {}
  <2>1. next \in I /\ \A i \in I : next <= i
    BY <1>2, <1>6, FirstIndex
  <2> HIDE DEF next
  <2>2. next \in start + 1..Len(text) /\ EndOf(text, start) = next
    BY <1>1, <1>2, <2>1
  <2>3. \A i \in start + 1..next - 1 : i \in start + 1..Len(text) /\ i \notin I
    BY <1>2, <2>1, <2>2
  <2> QED
    BY <1>2, <1>3, <1>4, <2>1, <2>2, <2>3
<1> QED
  BY <1>5, <1>6

LEMMA KeyIs ==
    ASSUME NEW text \in Seq(Lines), NEW start \in 0..Len(text)
    PROVE  /\ KeyAt(text, start) \in 0..Len(text)
           /\ KeyAt(text, start) # 0 =>
                /\ KeyAt(text, start) \in start + 1..EndOf(text, start) - 1
                /\ IsKey(text[KeyAt(text, start)], Key)
           /\ KeyAt(text, start) = 0 =>
                \A i \in start + 1..EndOf(text, start) - 1 : ~IsKey(text[i], Key)
<1> DEFINE I == {i \in start + 1..EndOf(text, start) - 1 : IsKey(text[i], Key)}
<1>1. KeyAt(text, start) = IF I # {} THEN Min(I) ELSE 0
  BY DEF KeyAt, SelectInSubSeq
<1>2. Len(text) \in Nat /\ I \in SUBSET Nat /\ I \subseteq 1..Len(text)
  BY EndIs
<1> HIDE DEF I
<1>3. /\ KeyAt(text, start) \in I \cup {0}
      /\ KeyAt(text, start) = 0 => I = {}
  BY <1>1, <1>2, FirstIndex
<1>4. KeyAt(text, start) \in 0..Len(text)
  <2>1. 0 \in 0..Len(text) /\ 1..Len(text) \subseteq 0..Len(text)
    BY <1>2
  <2> QED
    BY <1>2, <1>3, <2>1
<1> QED
  BY <1>3, <1>4 DEF I

(* policySetKey leaves a text, of lines of some kind, one of such lines, if*)
(* the header and the line it may add are of that kind.                    *)
LEMMA SetKeyKeepsKind ==
    ASSUME NEW S \in SUBSET Lines, NEW text \in Seq(S), NEW n, NEW value,
           Header(n) \in S, KeyLine(Key, value) \in S
    PROVE  SetKey(text, n, value) \in Seq(S)
<1> DEFINE start == StartOf(text, n)
           at == KeyAt(text, start)
           line == KeyLine(Key, value)
<1>1. text \in Seq(Lines)
  OBVIOUS
<1>2. start \in 0..Len(text)
  BY <1>1, StartIs
<1>3. at \in 0..Len(text)
  BY <1>1, <1>2, KeyIs
<1>4. SetKey(text, n, value) =
        CASE start = 0 /\ value = "" -> text
          [] start = 0 /\ value # "" -> text \o <<Header(n), line>>
          [] start # 0 /\ value = "" -> IF at = 0 THEN text ELSE RemoveAt(text, at)
          [] start # 0 /\ value # "" ->
                IF at = 0 THEN InsertAt(text, start + 1, line) ELSE ReplaceAt(text, at, line)
  BY DEF SetKey
<1> HIDE DEF start, at, line
<1>5. line \in S
  BY DEF line
<1>6. text \o <<Header(n), line>> \in Seq(S)
  BY <1>5
<1>7. start # 0 => InsertAt(text, start + 1, line) \in Seq(S)
  BY <1>2, <1>5, EditsAreTexts
<1>8. at # 0 => RemoveAt(text, at) \in Seq(S) /\ ReplaceAt(text, at, line) \in Seq(S)
  BY <1>3, <1>5, EditsAreTexts
<1>9. CASE start = 0
  BY <1>4, <1>6, <1>9
<1>10. CASE start # 0
  BY <1>4, <1>7, <1>8, <1>10
<1> QED
  BY <1>9, <1>10

(* The networks of a form, one after the other, and none left out.         *)
LEMMA NetsInOrder ==
    ASSUME NEW D, IsFiniteSet(D)
    PROVE  /\ SetToSeq(D) \in Seq(D)
           /\ \A d \in D : \E i \in 1..Len(SetToSeq(D)) : SetToSeq(D)[i] = d
<1> DEFINE N == Cardinality(D)
           nets == SetToSeq(D)
           Listed == {nets[i] : i \in 1..N}
<1>1. N \in Nat /\ ExistsBijection(1..N, D)
  BY FS_CardinalityType
<1>2. PICK f \in Bijection(1..N, D) : TRUE
  BY <1>1, Zenon DEF ExistsBijection
<1>3. f \in [1..N -> D] /\ IsInjective(f)
  BY <1>2 DEF Bijection, Injection, IsInjective
<1>4. nets \in [1..N -> D] /\ IsInjective(nets)
  BY <1>3, Zenon DEF SetToSeq
<1> HIDE DEF nets
<1>5. nets \in Seq(D) /\ Len(nets) = N
  BY <1>1, <1>4
<1>6. nets \in Bijection(1..N, Listed)
  <2>1. nets \in [1..N -> Listed]
    BY <1>4
  <2>2. \A d \in Listed : \E i \in 1..N : nets[i] = d
    OBVIOUS
  <2> HIDE DEF Listed
  <2> QED
    BY <1>4, <2>1, <2>2 DEF Bijection, Injection, Surjection, IsInjective
<1>7. Cardinality(Listed) = N
  <2>1. IsFiniteSet(1..N) /\ Cardinality(1..N) = N
    BY <1>1, FS_Interval
  <2>2. ExistsBijection(1..N, Listed)
    BY <1>6, Zenon DEF ExistsBijection
  <2> HIDE DEF N, Listed
  <2> QED
    BY <2>1, <2>2, FS_Bijection
<1>8. Listed = D
  <2>1. Listed \in SUBSET D
    BY <1>4
  <2> HIDE DEF Listed
  <2> QED
    BY <1>7, <2>1, FS_Subset
<1> QED
  BY <1>5, <1>8 DEF nets

(* A form is worked into a text one network after the other: there is the  *)
(* sequence of the texts this goes through.                                *)
InSteps(text, form, nets, after) ==
    /\ nets \in Seq(DOMAIN form)
    /\ \A n \in DOMAIN form : \E i \in 1..Len(nets) : nets[i] = n
    /\ after[0] = text
    /\ \A i \in 1..Len(nets) : after[i] = SetKey(after[i - 1], nets[i], form[nets[i]])
    /\ SetAll(text, form) = after[Len(nets)]

LEMMA SetAllInSteps ==
    ASSUME NEW text, NEW form, IsFiniteSet(DOMAIN form)
    PROVE  \E nets, after : InSteps(text, form, nets, after)
<1> DEFINE nets == SetToSeq(DOMAIN form)
           F(t, i) == SetKey(t, nets[i], form[nets[i]])
           Way(k, g) == g = [i \in 0..k |-> IF i = 0 THEN text ELSE F(g[i - 1], i)]
           after == CHOOSE g : Way(Len(nets), g)
           T == {k \in 0..Len(nets) : \E g : Way(k, g)}
<1>1. SetAll(text, form) = after[Len(nets)]
  BY DEF SetAll
<1>2. /\ nets \in Seq(DOMAIN form)
      /\ \A n \in DOMAIN form : \E i \in 1..Len(nets) : nets[i] = n
  BY NetsInOrder
<1>3. \A t, i : F(t, i) = SetKey(t, nets[i], form[nets[i]])
  OBVIOUS
<1> HIDE DEF nets, F, after
<1>4. Len(nets) \in Nat
  BY <1>2
<1>5. 0 \in T
  <2> DEFINE g == [i \in 0..0 |-> text]
  <2>1. Way(0, g)
    OBVIOUS
  <2> HIDE DEF g, Way
  <2>2. 0 \in 0..Len(nets) /\ \E gg : Way(0, gg)
    BY <2>1
  <2> QED
    BY <2>2
<1> HIDE DEF F
<1>6. ASSUME NEW k \in 0..Len(nets), k # 0, k - 1 \in T PROVE k \in T
  <2>1. PICK g : Way(k - 1, g)
    BY <1>6
  <2> DEFINE h == [i \in 0..k |-> IF i = k THEN F(g[k - 1], k) ELSE g[i]]
  <2>2. \A i \in 0..k - 1 : g[i] = IF i = 0 THEN text ELSE F(g[i - 1], i)
    BY <2>1
  <2>3. \A i \in 0..k - 1 : h[i] = g[i]
    BY <1>6
  <2>4. h[k] = F(h[k - 1], k)
    <3>1. k \in 0..k /\ k - 1 \in 0..k - 1
      BY <1>6
    <3> QED
      BY <2>3, <3>1
  <2>5. ASSUME NEW i \in 0..k PROVE h[i] = IF i = 0 THEN text ELSE F(h[i - 1], i)
    <3>1. CASE i = k
      BY <1>6, <2>4, <3>1
    <3>2. CASE i # k
      <4>1. i \in 0..k - 1 /\ (i # 0 => i - 1 \in 0..k - 1)
        BY <1>6, <3>2
      <4> QED
        BY <2>2, <2>3, <4>1
    <3> QED
      BY <3>1, <3>2
  <2>6. h = [i \in 0..k |-> h[i]]
    OBVIOUS
  <2> HIDE DEF h
  <2>7. Way(k, h)
    BY <2>5, <2>6
  <2> QED
    BY <2>7
<1> HIDE DEF T
<1>7. 0..Len(nets) \subseteq T
  BY <1>5, <1>6, <1>4, UpTo
<1>8. \E g : Way(Len(nets), g)
  <2>1. Len(nets) \in T
    BY <1>4, <1>7
  <2> QED
    BY <2>1 DEF T
<1>9. Way(Len(nets), after)
  <2> HIDE DEF Way
  <2> QED
    BY <1>8, Zenon DEF after
<1>10. after[0] = text
  BY <1>4, <1>9
<1>11. ASSUME NEW i \in 1..Len(nets)
       PROVE  after[i] = SetKey(after[i - 1], nets[i], form[nets[i]])
  <2>1. after[i] = F(after[i - 1], i)
    BY <1>4, <1>9
  <2> QED
    BY <1>3, <2>1
<1>12. InSteps(text, form, nets, after)
  BY <1>1, <1>2, <1>10, <1>11 DEF InSteps
<1> QED
  BY <1>12

(* A form that is worked into a text of lines of some kind leaves one, if  *)
(* the headers and the lines it may add are of that kind.                  *)
LEMMA SetAllKeepsKind ==
    ASSUME NEW S \in SUBSET Lines, NEW text \in Seq(S), NEW form, IsFiniteSet(DOMAIN form),
           \A n \in DOMAIN form : Header(n) \in S /\ KeyLine(Key, form[n]) \in S
    PROVE  SetAll(text, form) \in Seq(S)
<1>1. PICK nets, after : InSteps(text, form, nets, after)
  BY SetAllInSteps, Zenon
<1>2. /\ nets \in Seq(DOMAIN form)
      /\ after[0] = text
      /\ \A i \in 1..Len(nets) : after[i] = SetKey(after[i - 1], nets[i], form[nets[i]])
      /\ SetAll(text, form) = after[Len(nets)]
      /\ \A n \in DOMAIN form : \E i \in 1..Len(nets) : nets[i] = n
  BY <1>1 DEF InSteps
<1> DEFINE T == {k \in 0..Len(nets) : after[k] \in Seq(S)}
<1>3. Len(nets) \in Nat
  BY <1>2
<1>4. 0 \in T
  BY <1>2, <1>3
<1>5. ASSUME NEW k \in 0..Len(nets), k # 0, k - 1 \in T PROVE k \in T
  <2>1. k \in 1..Len(nets)
    BY <1>5
  <2>2. nets[k] \in DOMAIN form
    <3>1. nets \in Seq(DOMAIN form)
      BY <1>2
    <3> QED
      BY <2>1, <3>1
  <2>3. after[k - 1] \in Seq(S)
    BY <1>5
  <2>4. after[k] = SetKey(after[k - 1], nets[k], form[nets[k]])
    BY <1>2, <2>1
  <2>5. after[k] \in Seq(S)
    BY <2>2, <2>3, <2>4, SetKeyKeepsKind
  <2> QED
    BY <2>5
<1> HIDE DEF T
<1>6. 0..Len(nets) \subseteq T
  BY <1>3, <1>4, <1>5, UpTo
<1>7. Len(nets) \in T
  BY <1>3, <1>6
<1> QED
  BY <1>2, <1>7 DEF T

-----------------------------------------------------------------------------
(* What a text says, by its lines.                                         *)

LEMMA LinesHaveTheirFields ==
    /\ \A n \in Sections : Header(n) \in PolicyLines
    /\ \A v \in Values : KeyLine(Key, v) \in PolicyLines
    /\ Note \in PolicyLines /\ Junk \in PolicyLines
    /\ PolicyLines \subseteq Lines
<1>1. \A n \in Sections : Header(n) \in Lines /\ Header(n).is = "header"
  <2> TAKE n \in Sections
  <2>1. Header(n) \in {Header(m) : m \in Sections}
    OBVIOUS
  <2>2. Header(n).is = "header"
    BY DEF Header
  <2>3. {Header(m) : m \in Sections} \subseteq Lines
    BY DEF Lines
  <2> QED
    BY <2>1, <2>2, <2>3
<1>2. \A v \in Values : KeyLine(Key, v) \in Lines /\ KeyLine(Key, v).name = "op-channels"
  BY DEF Lines, KeyLine, Keys, PolicyKeys, Key
<1>3. Note \in Lines /\ Note.is = "note" /\ Junk \in Lines /\ Junk.is = "junk"
  BY DEF Lines, Note, Junk
<1> QED
  BY <1>1, <1>2, <1>3 DEF PolicyLines, PolicyKeys

(* Line h is the header above line i, or there is none and h is 0.         *)
IsHeaderOf(text, i, h) ==
    /\ h \in 0..i
    /\ h # 0 => text[h].is = "header"
    /\ \A j \in h + 1..i : text[j].is # "header"

LEMMA GreatestOne ==
    ASSUME NEW N \in Nat, NEW T \in SUBSET (1..N), T # {}
    PROVE  \E m \in T : \A n \in T : m >= n
<1> DEFINE B == {k \in 0..N : N - k \in T}
<1>1. B \in SUBSET Nat /\ B # {}
  <2>1. PICK x \in T : TRUE
    OBVIOUS
  <2>2. N - x \in 0..N /\ N - (N - x) = x
    BY <2>1
  <2>3. N - x \in B
    BY <2>1, <2>2
  <2>4. B \in SUBSET Nat
    OBVIOUS
  <2> HIDE DEF B
  <2> QED
    BY <2>3, <2>4
<1>2. PICK k \in B : \A l \in B : k <= l
  <2> HIDE DEF B
  <2> QED
    BY <1>1, LeastOne
<1>3. ASSUME NEW n \in T PROVE N - k >= n
  <2>1. N - n \in 0..N /\ N - (N - n) = n
    OBVIOUS
  <2>2. N - n \in B
    BY <2>1
  <2> QED
    BY <1>2, <2>1, <2>2
<1> QED
  BY <1>2, <1>3

LEMMA GreatestIsMax ==
    ASSUME NEW N \in Nat, NEW T \in SUBSET (1..N), T # {}
    PROVE  Max(T) \in T /\ \A n \in T : Max(T) >= n
<1>1. \E m \in T : \A n \in T : m >= n
  BY GreatestOne
<1> QED
  BY <1>1 DEF Max

LEMMA HeaderIs ==
    ASSUME NEW text \in Seq(Lines), NEW i \in 0..Len(text)
    PROVE  /\ IsHeaderOf(text, i, HeaderOf(text, i))
           /\ \A h : IsHeaderOf(text, i, h) => HeaderOf(text, i) = h
<1> DEFINE I == {j \in 1..i : text[j].is = "header"}
<1>1. HeaderOf(text, i) = IF I # {} THEN Max(I) ELSE 0
  BY DEF HeaderOf, SelectLastInSubSeq
<1>2. IsHeaderOf(text, i, HeaderOf(text, i))
  <2>1. CASE I = {}
    BY <1>1, <2>1 DEF IsHeaderOf
  <2>2. CASE I # {}
    <3>1. i \in Nat /\ I \in SUBSET (1..i)
      OBVIOUS
    <3> HIDE DEF I
    <3>2. Max(I) \in I /\ \A n \in I : Max(I) >= n
      BY <2>2, <3>1, GreatestIsMax
    <3>3. \A j \in Max(I) + 1..i : j \in 1..i /\ j \notin I
      <4>1. Max(I) \in 1..i
        BY <3>1, <3>2
      <4>2. TAKE j \in Max(I) + 1..i
      <4>3. j \in 1..i /\ ~(Max(I) >= j)
        BY <4>1
      <4> QED
        BY <3>2, <4>3
    <3> USE DEF I
    <3> QED
      BY <1>1, <2>2, <3>1, <3>2, <3>3 DEF IsHeaderOf
  <2> QED
    BY <2>1, <2>2
<1>3. ASSUME NEW h, NEW g, IsHeaderOf(text, i, h), IsHeaderOf(text, i, g) PROVE g = h
  <2>1. h \in 0..i /\ g \in 0..i
    BY <1>3 DEF IsHeaderOf
  <2>2. ~(h < g)
    BY <1>3, <2>1 DEF IsHeaderOf
  <2>3. ~(g < h)
    BY <1>3, <2>1 DEF IsHeaderOf
  <2> QED
    BY <2>1, <2>2, <2>3
<1> QED
  BY <1>2, <1>3

(* Line i sets key k of section n.                                         *)
Says(text, i, n, k) == i \in DOMAIN text /\ IsKey(text[i], k) /\ InSection(text, i, n)

(* In a text that says nothing twice, a setting is the value of the line   *)
(* that sets it.                                                           *)
LEMMA SettingIs ==
    ASSUME NEW text \in Seq(Lines), WellFormed(text), NEW n, NEW k
    PROVE  /\ \A i : Says(text, i, n, k) => Setting(text, n, k) = text[i].value
           /\ (\A i \in DOMAIN text : ~Says(text, i, n, k)) => Setting(text, n, k) = "unset"
<1> DEFINE I == {i \in DOMAIN text : IsKey(text[i], k) /\ InSection(text, i, n)}
<1>1. Setting(text, n, k) = IF I = {} THEN "unset" ELSE text[Max(I)].value
  BY DEF Setting
<1>2. ASSUME NEW i, Says(text, i, n, k) PROVE Setting(text, n, k) = text[i].value
  <2>1. i \in I
    BY <1>2 DEF Says
  <2>2. ASSUME NEW j \in I PROVE j = i
    <3>1. i \in 1..Len(text) /\ j \in 1..Len(text)
      BY <2>1, <2>2
    <3>2. HeaderOf(text, i) \in 0..i /\ HeaderOf(text, j) \in 0..j
      BY <3>1, HeaderIs DEF IsHeaderOf
    <3>3. /\ HeaderOf(text, i) # 0 /\ HeaderOf(text, j) # 0
          /\ text[HeaderOf(text, i)] = Header(n) /\ text[HeaderOf(text, j)] = Header(n)
      BY <2>1, <2>2 DEF InSection
    <3>4. HeaderOf(text, i) \in DOMAIN text /\ HeaderOf(text, j) \in DOMAIN text
      BY <3>1, <3>2, <3>3
    <3>5. Header(n).is = "header"
      BY DEF Header
    <3>6. HeaderOf(text, i) = HeaderOf(text, j)
      BY <3>3, <3>4, <3>5 DEF WellFormed
    <3>7. text[i].is = "key" /\ text[i].name = k /\ IsKey(text[j], k)
      BY <2>1, <2>2 DEF IsKey
    <3> QED
      BY <3>1, <3>6, <3>7 DEF WellFormed
  <2>3. I = {i} /\ i \in 1..Len(text)
    BY <2>1, <2>2
  <2>4. Max({i}) = i
    BY <2>3 DEF Max
  <2> QED
    BY <1>1, <2>3, <2>4
<1>3. ASSUME \A i \in DOMAIN text : ~Says(text, i, n, k) PROVE Setting(text, n, k) = "unset"
  BY <1>1, <1>3 DEF Says
<1> QED
  BY <1>2, <1>3

(* The lines of a section are those from its header to the next.           *)
LEMMA SectionIs ==
    ASSUME NEW text \in Seq(Lines), WellFormed(text), NEW n, NEW i \in 1..Len(text)
    PROVE  /\ StartOf(text, n) = 0 => ~InSection(text, i, n)
           /\ StartOf(text, n) # 0 /\ InSection(text, i, n)
                => i \in StartOf(text, n)..EndOf(text, StartOf(text, n)) - 1
<1> DEFINE start == StartOf(text, n)
           h == HeaderOf(text, i)
<1>1. start \in 0..Len(text)
  BY StartIs
<1>2. IsHeaderOf(text, i, h)
  BY HeaderIs
<1>3. h \in 0..i
  BY <1>2 DEF IsHeaderOf
<1>4. start = 0 => ~InSection(text, i, n)
  BY <1>3, StartIs DEF InSection
<1>5. ASSUME start # 0, InSection(text, i, n) PROVE i \in start..EndOf(text, start) - 1
  <2>1. h # 0 /\ text[h] = Header(n) /\ text[start] = Header(n) /\ Header(n).is = "header"
    BY <1>5, StartIs DEF InSection, Header
  <2>2. h \in DOMAIN text /\ start \in DOMAIN text
    BY <1>1, <1>3, <1>5, <2>1
  <2>3. h = start
    BY <2>1, <2>2 DEF WellFormed
  <2> HIDE DEF h, start
  <2>4. \A j \in start + 1..i : text[j].is # "header"
    BY <1>2, <2>3 DEF IsHeaderOf
  <2>5. /\ EndOf(text, start) \in start + 1..Len(text) + 1
        /\ EndOf(text, start) # Len(text) + 1 => text[EndOf(text, start)].is = "header"
    BY <1>1, EndIs
  <2>6. ~(EndOf(text, start) <= i)
    BY <1>1, <2>4, <2>5
  <2> QED
    BY <1>1, <1>3, <2>3, <2>5, <2>6
<1> QED
  BY <1>4, <1>5

-----------------------------------------------------------------------------
(* What an edit leaves of a text.                                          *)

(* A value that takes the key away.                                        *)
IsBlank(value) == value = ""

(* The lines of old in the domain of move are where move says in new, in   *)
(* their order, and no header has gone, or come before any of them.        *)
Moved(old, new, move) ==
    /\ move \in [DOMAIN move -> 1..Len(new)] /\ DOMAIN move \subseteq 1..Len(old)
    /\ \A i, j \in DOMAIN move : i < j => move[i] < move[j]
    /\ \A i \in DOMAIN move : new[move[i]] = old[i]
    /\ \A i \in 1..Len(old) : old[i].is = "header" => i \in DOMAIN move
    /\ \A i \in DOMAIN move, j \in 1..Len(new) :
          j < move[i] /\ new[j].is = "header" => \E l \in DOMAIN move : move[l] = j

(* The lines that are new.                                                 *)
Added(new, move) == {j \in 1..Len(new) : \A i \in DOMAIN move : move[i] # j}

(* Of old, the lines that set the key in section n are gone.  If there is a*)
(* value, one such line has been added, in that section, whose header may  *)
(* have been added too.                                                    *)
Edited(old, new, move, n, value) ==
    /\ Moved(old, new, move)
    /\ \A i \in 1..Len(old) : Says(old, i, n, Key) <=> i \notin DOMAIN move
    /\ \A j \in Added(new, move) :
          /\ ~IsBlank(value)
          /\ \/ new[j] = KeyLine(Key, value) /\ InSection(new, j, n)
             \/ new[j] = Header(n) /\ \A i \in 1..Len(old) : old[i] # Header(n)
    /\ \A i, j \in Added(new, move) : new[i].is = new[j].is => i = j
    /\ ~IsBlank(value) => \E j \in Added(new, move) : new[j] = KeyLine(Key, value)

(* Lines keep their headers, and so their sections.                        *)
LEMMA HeadersMove ==
    ASSUME NEW old \in Seq(Lines), NEW new \in Seq(Lines), NEW move, Moved(old, new, move),
           NEW i \in DOMAIN move
    PROVE  /\ HeaderOf(old, i) # 0 => HeaderOf(old, i) \in DOMAIN move
           /\ HeaderOf(new, move[i]) =
                IF HeaderOf(old, i) = 0 THEN 0 ELSE move[HeaderOf(old, i)]
<1> DEFINE h == HeaderOf(old, i)
           g == IF h = 0 THEN 0 ELSE move[h]
<1>1. i \in 1..Len(old) /\ move[i] \in 1..Len(new)
  BY DEF Moved
<1>2. IsHeaderOf(old, i, h)
  BY <1>1, HeaderIs
<1> HIDE DEF h
<1>3. h \in 0..i /\ (h # 0 => old[h].is = "header")
  BY <1>2 DEF IsHeaderOf
<1>4. h # 0 => h \in DOMAIN move
  BY <1>1, <1>3 DEF Moved
<1>5. g \in 0..move[i]
  <2>1. h # 0 => move[h] <= move[i] /\ move[h] \in 1..Len(new)
    BY <1>1, <1>3, <1>4 DEF Moved
  <2> QED
    BY <1>1, <2>1
<1>6. g # 0 => new[g].is = "header"
  BY <1>3, <1>4 DEF Moved
<1>7. ASSUME NEW j \in g + 1..move[i], new[j].is = "header" PROVE FALSE
  <2>1. j \in 1..Len(new)
    BY <1>1, <1>5
  <2>2. PICK l \in DOMAIN move : move[l] = j
    <3>1. CASE j = move[i]
      BY <3>1
    <3>2. CASE j # move[i]
      <4>1. j < move[i]
        BY <1>1, <2>1, <3>2
      <4> QED
        BY <1>7, <2>1, <4>1 DEF Moved
    <3> QED
      BY <3>1, <3>2
  <2>3. l \in 1..Len(old) /\ old[l].is = "header"
    BY <1>7, <2>2 DEF Moved
  <2>4. ~(i < l)
    BY <1>1, <2>1, <2>2 DEF Moved
  <2>5. ~(h < l)
    <3>1. \A m \in h + 1..i : old[m].is # "header"
      BY <1>2 DEF IsHeaderOf
    <3> QED
      BY <1>1, <1>3, <2>3, <2>4, <3>1
  <2>6. l = h \/ l < h
    BY <1>1, <1>3, <2>3, <2>5
  <2>7. h # 0 /\ move[l] <= move[h] /\ move[h] \in 1..Len(new)
    BY <1>1, <1>3, <1>4, <2>1, <2>2, <2>3, <2>6 DEF Moved
  <2> QED
    BY <2>1, <2>2, <2>7
<1>8. IsHeaderOf(new, move[i], g)
  BY <1>5, <1>6, <1>7 DEF IsHeaderOf
<1>9. HeaderOf(new, move[i]) = g
  BY <1>1, <1>8, HeaderIs
<1> QED
  BY <1>4, <1>9 DEF h

LEMMA SectionsMove ==
    ASSUME NEW old \in Seq(Lines), NEW new \in Seq(Lines), NEW move, Moved(old, new, move),
           NEW i \in DOMAIN move, NEW n
    PROVE  InSection(new, move[i], n) <=> InSection(old, i, n)
<1> DEFINE h == HeaderOf(old, i)
<1>1. /\ h # 0 => h \in DOMAIN move
      /\ HeaderOf(new, move[i]) = IF h = 0 THEN 0 ELSE move[h]
  BY HeadersMove
<1>2. h # 0 => move[h] # 0 /\ new[move[h]] = old[h]
  BY <1>1 DEF Moved
<1> QED
  BY <1>1, <1>2 DEF InSection

(* An edit leaves a text that says nothing twice.                          *)
LEMMA EditedIsWellFormed ==
    ASSUME NEW old \in Seq(Lines), NEW new \in Seq(Lines), NEW move, NEW n, NEW value,
           WellFormed(old), Edited(old, new, move, n, value)
    PROVE  WellFormed(new)
<1> DEFINE Kept == {move[i] : i \in DOMAIN move}
<1>1. Moved(old, new, move)
  BY DEF Edited
<1>2. \A j \in DOMAIN new : j \in Added(new, move) \/ \E i \in DOMAIN move : move[i] = j
  BY DEF Added
<1>3. Header(n).is = "header" /\ KeyLine(Key, value).is = "key" /\ KeyLine(Key, value).name = Key
  BY DEF Header, KeyLine
<1>4. ASSUME NEW i \in DOMAIN new, NEW j \in DOMAIN new, new[i] = new[j], new[i].is = "header"
      PROVE  i = j
  <2>1. CASE i \in Added(new, move) /\ j \in Added(new, move)
    BY <1>4, <2>1 DEF Edited
  <2>2. ASSUME NEW x \in Added(new, move), NEW y \in DOMAIN move, new[x] = new[move[y]], new[x].is = "header"
        PROVE  FALSE
    <3>1. new[x] = Header(n) /\ \A l \in 1..Len(old) : old[l] # Header(n)
      BY <1>3, <2>2 DEF Edited
    <3>2. y \in 1..Len(old) /\ old[y] = new[move[y]]
      BY <1>1 DEF Moved
    <3> QED
      BY <2>2, <3>1, <3>2
  <2>3. ASSUME NEW x \in DOMAIN move, NEW y \in DOMAIN move, move[x] = i, move[y] = j
        PROVE  i = j
    <3>1. x \in DOMAIN old /\ y \in DOMAIN old /\ old[x] = new[i] /\ old[y] = new[j]
      BY <1>1, <2>3 DEF Moved
    <3> QED
      BY <1>4, <2>3, <3>1 DEF WellFormed
  <2> QED
    BY <1>2, <1>4, <2>1, <2>2, <2>3
<1>5. ASSUME NEW i \in DOMAIN new, NEW j \in DOMAIN new, new[i].is = "key",
             IsKey(new[j], new[i].name), HeaderOf(new, i) = HeaderOf(new, j)
      PROVE  i = j
  <2>1. CASE i \in Added(new, move) /\ j \in Added(new, move)
    BY <1>5, <2>1 DEF Edited, IsKey
  <2>2. ASSUME NEW x \in Added(new, move), NEW y \in DOMAIN move, new[x].is = "key",
               IsKey(new[move[y]], new[x].name), HeaderOf(new, x) = HeaderOf(new, move[y])
        PROVE  FALSE
    <3>1. new[x] = KeyLine(Key, value) /\ InSection(new, x, n)
      BY <1>3, <2>2 DEF Edited
    <3>2. InSection(new, move[y], n)
      BY <2>2, <3>1 DEF InSection
    <3>3. InSection(old, y, n)
      BY <1>1, <3>2, SectionsMove
    <3>4. IsKey(old[y], Key) /\ y \in 1..Len(old)
      BY <1>1, <1>3, <2>2, <3>1 DEF Moved
    <3>5. Says(old, y, n, Key)
      BY <3>3, <3>4 DEF Says
    <3> QED
      BY <3>4, <3>5 DEF Edited
  <2>3. ASSUME NEW x \in DOMAIN move, NEW y \in DOMAIN move, move[x] = i, move[y] = j
        PROVE  i = j
    <3>1. x \in DOMAIN old /\ y \in DOMAIN old /\ old[x] = new[i] /\ old[y] = new[j]
      BY <1>1, <2>3 DEF Moved
    <3> DEFINE hx == HeaderOf(old, x)
               hy == HeaderOf(old, y)
    <3>2. /\ hx # 0 => hx \in DOMAIN move
          /\ hy # 0 => hy \in DOMAIN move
          /\ HeaderOf(new, i) = IF hx = 0 THEN 0 ELSE move[hx]
          /\ HeaderOf(new, j) = IF hy = 0 THEN 0 ELSE move[hy]
      BY <1>1, <2>3, HeadersMove
    <3>3. hx = hy
      <4> HIDE DEF hx, hy
      <4>1. \A l \in DOMAIN move : move[l] # 0 /\ move[l] \in Nat /\ l \in Nat
        BY <1>1 DEF Moved
      <4>2. hx = 0 <=> hy = 0
        BY <1>5, <3>2, <4>1
      <4>3. ASSUME hx # 0, hy # 0 PROVE hx = hy
        <5>1. move[hx] = move[hy] /\ hx \in DOMAIN move /\ hy \in DOMAIN move
          BY <1>5, <3>2, <4>3
        <5>2. ~(hx < hy) /\ ~(hy < hx)
          BY <1>1, <4>1, <5>1 DEF Moved
        <5> QED
          BY <4>1, <5>1, <5>2
      <4> QED
        BY <4>2, <4>3
    <3>4. x = y
      BY <1>5, <3>1, <3>3 DEF WellFormed
    <3> QED
      BY <2>3, <3>4
  <2>4. ASSUME NEW y \in DOMAIN move, move[y] = i, j \in Added(new, move) PROVE FALSE
    <3>1. new[j].is = "key" /\ IsKey(new[move[y]], new[j].name)
      BY <1>5, <2>4 DEF IsKey
    <3> QED
      BY <1>5, <2>2, <2>4, <3>1
  <2> QED
    BY <1>2, <1>5, <2>1, <2>2, <2>3, <2>4
<1> QED
  BY <1>4, <1>5 DEF WellFormed

(* An edit sets the key in section n, and nothing else.                    *)
LEMMA EditedSettings ==
    ASSUME NEW old \in Seq(Lines), NEW new \in Seq(Lines), NEW move, NEW n, NEW value,
           WellFormed(old), Edited(old, new, move, n, value), NEW m, NEW k
    PROVE  Setting(new, m, k) =
              IF m = n /\ k = Key THEN IF IsBlank(value) THEN "unset" ELSE value
                                  ELSE Setting(old, m, k)
<1>1. WellFormed(new) /\ Moved(old, new, move)
  BY EditedIsWellFormed DEF Edited
<1>2. ASSUME NEW i \in DOMAIN move
      PROVE  /\ i \in DOMAIN old /\ move[i] \in DOMAIN new
             /\ new[move[i]] = old[i]
             /\ Says(new, move[i], m, k) <=> Says(old, i, m, k)
  <2>1. i \in DOMAIN old /\ move[i] \in DOMAIN new /\ new[move[i]] = old[i]
    BY <1>1 DEF Moved
  <2>2. InSection(new, move[i], m) <=> InSection(old, i, m)
    BY <1>1, SectionsMove
  <2> QED
    BY <2>1, <2>2 DEF Says
<1>3. ASSUME NEW j, Says(new, j, m, k)
      PROVE  j \in Added(new, move) \/ \E i \in DOMAIN move : move[i] = j
  BY <1>3 DEF Says, Added
<1>4. \A j \in Added(new, move) : Says(new, j, m, k) => m = n /\ k = Key /\ new[j].value = value
  <2> SUFFICES ASSUME NEW j \in Added(new, move), Says(new, j, m, k)
               PROVE  m = n /\ k = Key /\ new[j].value = value
    OBVIOUS
  <2>1. new[j].is = "key" /\ new[j].name = k /\ new[HeaderOf(new, j)] = Header(m)
    BY DEF Says, IsKey, InSection
  <2>2. new[j] = KeyLine(Key, value) /\ InSection(new, j, n)
    <3>1. Header(n).is = "header"
      BY DEF Header
    <3> QED
      BY <2>1, <3>1 DEF Edited
  <2>3. Header(m) = Header(n)
    BY <2>1, <2>2 DEF InSection
  <2>4. Header(m).name = m /\ Header(n).name = n
    BY DEF Header
  <2>5. KeyLine(Key, value).name = Key /\ KeyLine(Key, value).value = value
    BY DEF KeyLine
  <2> QED
    BY <2>1, <2>2, <2>3, <2>4, <2>5
<1>5. CASE ~(m = n /\ k = Key)
  <2>1. CASE \E i : Says(old, i, m, k)
    <3>1. PICK i : Says(old, i, m, k)
      BY <2>1
    <3>2. i \in DOMAIN move
      <4>1. SUFFICES ASSUME i \notin DOMAIN move PROVE FALSE
        OBVIOUS
      <4>2. i \in 1..Len(old)
        BY <3>1 DEF Says
      <4>3. Says(old, i, n, Key)
        BY <4>1, <4>2 DEF Edited
      <4>4. k = Key /\ Header(m) = Header(n)
        BY <3>1, <4>3 DEF Says, IsKey, InSection
      <4> QED
        BY <1>5, <4>4 DEF Header
    <3>3. Says(new, move[i], m, k) /\ new[move[i]] = old[i]
      BY <1>2, <3>1, <3>2
    <3>4. Setting(new, m, k) = new[move[i]].value /\ Setting(old, m, k) = old[i].value
      BY <1>1, <3>1, <3>3, SettingIs
    <3> QED
      BY <1>5, <3>3, <3>4
  <2>2. CASE ~\E i : Says(old, i, m, k)
    <3>1. \A j : ~Says(new, j, m, k)
      BY <1>2, <1>3, <1>4, <1>5, <2>2
    <3>2. Setting(new, m, k) = "unset" /\ Setting(old, m, k) = "unset"
      BY <1>1, <2>2, <3>1, SettingIs
    <3> QED
      BY <1>5, <3>2
  <2> QED
    BY <2>1, <2>2
<1>6. CASE m = n /\ k = Key
  <2>1. \A i \in DOMAIN move : ~Says(new, move[i], m, k)
    <3> TAKE i \in DOMAIN move
    <3>1. i \in 1..Len(old)
      BY <1>2
    <3>2. ~Says(old, i, n, Key)
      BY <3>1 DEF Edited
    <3> QED
      BY <1>2, <1>6, <3>2
  <2>2. CASE IsBlank(value)
    <3>1. \A j : ~Says(new, j, m, k)
      BY <1>3, <2>1, <2>2 DEF Edited
    <3>2. Setting(new, m, k) = "unset"
      BY <1>1, <3>1, SettingIs
    <3> QED
      BY <1>6, <2>2, <3>2
  <2>3. CASE ~IsBlank(value)
    <3>1. PICK j \in Added(new, move) : new[j] = KeyLine(Key, value)
      BY <2>3 DEF Edited
    <3>2. j \in DOMAIN new /\ IsKey(new[j], Key) /\ KeyLine(Key, value) # Header(n)
      <4>1. KeyLine(Key, value).is = "key" /\ KeyLine(Key, value).name = Key
        BY DEF KeyLine
      <4>2. Header(n).is = "header"
        BY DEF Header
      <4>3. j \in DOMAIN new
        BY DEF Added
      <4> QED
        BY <3>1, <4>1, <4>2, <4>3 DEF IsKey
    <3>3. InSection(new, j, n)
      BY <3>1, <3>2 DEF Edited
    <3>4. Says(new, j, m, k) /\ new[j].value = value
      BY <1>6, <3>1, <3>2, <3>3 DEF Says, KeyLine
    <3>5. Setting(new, m, k) = value
      BY <1>1, <3>4, SettingIs
    <3> QED
      BY <1>6, <2>3, <3>5
  <2> QED
    BY <2>2, <2>3
<1> QED
  BY <1>5, <1>6

-----------------------------------------------------------------------------
(* The edits of policySetKey.                                              *)

(* Nobody sets the key in a section that is not there, and in one that is  *)
(* it is the search that finds who does.                                   *)
LEMMA KeyIsSaid ==
    ASSUME NEW text \in Seq(Lines), WellFormed(text), NEW n, NEW i \in 1..Len(text)
    PROVE  /\ StartOf(text, n) = 0 => ~Says(text, i, n, Key)
           /\ StartOf(text, n) # 0 =>
                (Says(text, i, n, Key)
                   <=> KeyAt(text, StartOf(text, n)) # 0 /\ i = KeyAt(text, StartOf(text, n)))
<1> DEFINE start == StartOf(text, n)
           at == KeyAt(text, start)
<1>1. start = 0 => ~Says(text, i, n, Key)
  BY SectionIs DEF Says
<1>2. start \in 0..Len(text) /\ (start # 0 => text[start] = Header(n))
  BY StartIs
<1>3. Header(n).is = "header"
  BY DEF Header
<1> HIDE DEF start
<1>4. ASSUME start # 0, at # 0 PROVE Says(text, at, n, Key)
  <2>1. at \in start + 1..EndOf(text, start) - 1 /\ IsKey(text[at], Key) /\ at \in 0..Len(text)
    BY <1>2, <1>4, KeyIs
  <2>2. at \in 1..Len(text)
    BY <1>2, <2>1
  <2>3. \A j \in start + 1..EndOf(text, start) - 1 : text[j].is # "header"
    BY <1>2, EndIs
  <2>4. EndOf(text, start) \in Nat
    BY <1>2, EndIs
  <2> HIDE DEF at
  <2>5. IsHeaderOf(text, at, start)
    BY <1>2, <1>3, <1>4, <2>1, <2>2, <2>3, <2>4 DEF IsHeaderOf
  <2>6. HeaderOf(text, at) = start
    <3>1. at \in 0..Len(text)
      BY <2>2
    <3> QED
      BY <2>5, <3>1, HeaderIs
  <2> QED
    BY <1>2, <1>4, <2>1, <2>2, <2>6 DEF Says, InSection
<1>5. ASSUME start # 0, Says(text, i, n, Key) PROVE at # 0 /\ i = at
  <2>1. i \in start..EndOf(text, start) - 1 /\ IsKey(text[i], Key)
    BY <1>5, SectionIs DEF Says, start
  <2>2. i # start
    BY <1>2, <1>3, <1>5, <2>1 DEF IsKey
  <2>3. i \in start + 1..EndOf(text, start) - 1
    <3>1. EndOf(text, start) \in Nat
      BY <1>2, EndIs
    <3> QED
      BY <1>2, <2>1, <2>2, <3>1
  <2>4. at # 0
    BY <1>2, <2>1, <2>3, KeyIs
  <2>5. Says(text, at, n, Key)
    BY <1>4, <1>5, <2>4
  <2> HIDE DEF at
  <2>6. /\ HeaderOf(text, i) # 0 /\ HeaderOf(text, at) # 0 /\ i \in DOMAIN text /\ at \in DOMAIN text
        /\ text[HeaderOf(text, i)] = Header(n) /\ text[HeaderOf(text, at)] = Header(n)
        /\ text[i].is = "key" /\ IsKey(text[at], text[i].name)
    BY <1>5, <2>5 DEF Says, InSection, IsKey
  <2>7. HeaderOf(text, i) \in 0..i /\ HeaderOf(text, at) \in 0..at
    BY <2>6, HeaderIs DEF IsHeaderOf
  <2>8. HeaderOf(text, i) \in DOMAIN text /\ HeaderOf(text, at) \in DOMAIN text
    BY <2>6, <2>7
  <2>9. HeaderOf(text, i) = HeaderOf(text, at)
    BY <1>3, <2>6, <2>8 DEF WellFormed
  <2> QED
    BY <2>4, <2>6, <2>9 DEF WellFormed
<1> QED
  BY <1>1, <1>4, <1>5 DEF start

(* Nothing changes, as the key is to be taken away and not there.          *)
LEMMA NothingIsEdit ==
    ASSUME NEW text \in Seq(Lines), WellFormed(text), NEW n, NEW value, IsBlank(value),
           StartOf(text, n) = 0 \/ KeyAt(text, StartOf(text, n)) = 0
    PROVE  \E move : Edited(text, text, move, n, value)
<1> DEFINE move == [i \in 1..Len(text) |-> i]
<1>1. DOMAIN move = 1..Len(text) /\ \A i \in 1..Len(text) : move[i] = i
  OBVIOUS
<1>2. \A i \in 1..Len(text) : ~Says(text, i, n, Key)
  BY KeyIsSaid
<1>3. move \in [DOMAIN move -> 1..Len(text)]
  OBVIOUS
<1> HIDE DEF move
<1>4. Moved(text, text, move)
  BY <1>1, <1>3 DEF Moved
<1>5. Added(text, move) = {}
  BY <1>1 DEF Added
<1>6. Edited(text, text, move, n, value)
  BY <1>1, <1>2, <1>4, <1>5 DEF Edited
<1> QED
  BY <1>6

(* A section is appended.                                                  *)
LEMMA AppendIsEdit ==
    ASSUME NEW text \in Seq(Lines), WellFormed(text), NEW n \in Sections,
           NEW value \in Values, ~IsBlank(value), StartOf(text, n) = 0
    PROVE  \E move : Edited(text, text \o <<Header(n), KeyLine(Key, value)>>, move, n, value)
<1> DEFINE new == text \o <<Header(n), KeyLine(Key, value)>>
           move == [i \in 1..Len(text) |-> i]
           N == Len(text)
<1>1. DOMAIN move = 1..N /\ \A i \in 1..N : move[i] = i
  OBVIOUS
<1>2. Header(n) \in Lines /\ KeyLine(Key, value) \in Lines
  BY LinesHaveTheirFields
<1>3. N \in Nat /\ new \in Seq(Lines) /\ Len(new) = N + 2
  BY <1>2
<1>4. /\ \A i \in 1..N : new[i] = text[i]
      /\ new[N + 1] = Header(n) /\ new[N + 2] = KeyLine(Key, value)
  BY <1>2, <1>3
<1>5. Header(n).is = "header" /\ KeyLine(Key, value).is = "key"
  BY DEF Header, KeyLine
<1>6. move \in [DOMAIN move -> 1..Len(new)]
  BY <1>3
<1> HIDE DEF move, new, N
<1>7. Moved(text, new, move)
  BY <1>1, <1>3, <1>4, <1>6 DEF Moved, N
<1>8. Added(new, move) = {N + 1, N + 2}
  BY <1>1, <1>3 DEF Added
<1>9. InSection(new, N + 2, n)
  <2>1. IsHeaderOf(new, N + 2, N + 1)
    BY <1>3, <1>4, <1>5 DEF IsHeaderOf
  <2>2. HeaderOf(new, N + 2) = N + 1
    <3>1. N + 2 \in 0..Len(new)
      BY <1>3
    <3> QED
      BY <1>3, <2>1, <3>1, HeaderIs
  <2> QED
    BY <1>3, <1>4, <2>2 DEF InSection
<1>10. \A i \in 1..N : ~Says(text, i, n, Key) /\ text[i] # Header(n)
  BY KeyIsSaid, StartIs DEF N
<1>11. Edited(text, new, move, n, value)
  <2>1. \A i, j \in Added(new, move) : new[i].is = new[j].is => i = j
    BY <1>4, <1>5, <1>8
  <2>2. \A j \in Added(new, move) :
          /\ ~IsBlank(value)
          /\ \/ new[j] = KeyLine(Key, value) /\ InSection(new, j, n)
             \/ new[j] = Header(n) /\ \A i \in 1..Len(text) : text[i] # Header(n)
    BY <1>4, <1>8, <1>9, <1>10 DEF N
  <2>3. \E j \in Added(new, move) : new[j] = KeyLine(Key, value)
    BY <1>4, <1>8
  <2>4. \A i \in 1..Len(text) : Says(text, i, n, Key) <=> i \notin DOMAIN move
    BY <1>1, <1>10 DEF N
  <2> QED
    BY <1>7, <2>1, <2>2, <2>3, <2>4 DEF Edited
<1> QED
  BY <1>11 DEF new

(* The line that sets the key is taken away.                               *)
LEMMA RemovalIsEdit ==
    ASSUME NEW text \in Seq(Lines), WellFormed(text), NEW n, NEW value, IsBlank(value),
           NEW at \in 1..Len(text), \A i \in 1..Len(text) : Says(text, i, n, Key) <=> i = at
    PROVE  \E move : Edited(text, RemoveAt(text, at), move, n, value)
<1> DEFINE new == RemoveAt(text, at)
           N == Len(text)
           move == [i \in (1..N) \ {at} |-> IF i < at THEN i ELSE i - 1]
<1>1. DOMAIN move = (1..N) \ {at}
  OBVIOUS
<1>2. N \in Nat /\ at \in 1..N
  OBVIOUS
<1> DEFINE before == SubSeq(text, 1, at - 1)
           behind == SubSeq(text, at + 1, N)
<1>3. before \in Seq(Lines) /\ Len(before) = at - 1 /\ \A i \in 1..at - 1 : before[i] = text[i]
  BY <1>2
<1>4. behind \in Seq(Lines) /\ Len(behind) = N - at /\ \A i \in 1..N - at : behind[i] = text[at + i]
  BY <1>2
<1>5. new = before \o behind
  BY DEF RemoveAt
<1> HIDE DEF before, behind
<1>6. /\ new \in Seq(Lines) /\ Len(new) = Len(before) + Len(behind)
      /\ \A i \in 1..Len(before) : new[i] = before[i]
      /\ \A i \in 1..Len(behind) : new[Len(before) + i] = behind[i]
  <2>1. /\ before \o behind \in Seq(Lines) /\ Len(before \o behind) = Len(before) + Len(behind)
        /\ \A i \in 1..Len(before) : (before \o behind)[i] = before[i]
        /\ \A i \in 1..Len(behind) : (before \o behind)[Len(before) + i] = behind[i]
    <3>1. before \in Seq(Lines) /\ behind \in Seq(Lines)
      BY <1>3, <1>4
    <3> HIDE DEF before, behind
    <3> QED
      BY <3>1, JoinIs
  <2> QED
    BY <1>5, <2>1
<1>7. /\ Len(new) = N - 1
      /\ \A i \in 1..N : (i < at => new[i] = text[i]) /\ (i > at => new[i - 1] = text[i])
  <2> HIDE DEF new, N
  <2>1. Len(new) = N - 1
    BY <1>2, <1>3, <1>4, <1>6
  <2>2. ASSUME NEW i \in 1..N, i < at PROVE new[i] = text[i]
    BY <1>2, <1>3, <1>6, <2>2
  <2>3. ASSUME NEW i \in 1..N, i > at PROVE new[i - 1] = text[i]
    <3>1. i - at \in 1..N - at /\ at + (i - at) = i /\ (at - 1) + (i - at) = i - 1
      BY <1>2, <2>3
    <3> QED
      BY <1>3, <1>4, <1>6, <3>1
  <2> QED
    BY <2>1, <2>2, <2>3
<1>8. \A i \in DOMAIN move : move[i] = IF i < at THEN i ELSE i - 1
  OBVIOUS
<1>9. move \in [DOMAIN move -> 1..Len(new)]
  BY <1>2, <1>7
<1>10. IsKey(text[at], Key)
  BY DEF Says
<1> HIDE DEF move, new, N
<1>11. \A j \in 1..N - 1 : \E i \in DOMAIN move : move[i] = j
  <2> TAKE j \in 1..N - 1
  <2>1. CASE j < at
    <3>1. j \in DOMAIN move /\ move[j] = j
      BY <1>1, <1>2, <1>8, <2>1
    <3> QED
      BY <3>1
  <2>2. CASE ~(j < at)
    <3>1. j + 1 \in DOMAIN move /\ move[j + 1] = j
      BY <1>1, <1>2, <1>8, <2>2
    <3> QED
      BY <3>1
  <2> QED
    BY <2>1, <2>2
<1>12. Moved(text, new, move)
  <2>1. DOMAIN move \subseteq 1..Len(text)
    BY <1>1 DEF N
  <2>2. \A i, j \in DOMAIN move : i < j => move[i] < move[j]
    BY <1>1, <1>2, <1>8
  <2>3. \A i \in DOMAIN move : new[move[i]] = text[i]
    BY <1>1, <1>2, <1>7, <1>8
  <2>4. \A i \in 1..Len(text) : text[i].is = "header" => i \in DOMAIN move
    BY <1>1, <1>10 DEF N, IsKey
  <2>5. \A i \in DOMAIN move, j \in 1..Len(new) :
          j < move[i] /\ new[j].is = "header" => \E l \in DOMAIN move : move[l] = j
    BY <1>7, <1>11
  <2> QED
    BY <1>9, <2>1, <2>2, <2>3, <2>4, <2>5 DEF Moved
<1>13. Added(new, move) = {}
  BY <1>7, <1>11 DEF Added
<1>14. Edited(text, new, move, n, value)
  BY <1>1, <1>12, <1>13 DEF Edited, N
<1> QED
  BY <1>14 DEF new

(* The line that sets the key is replaced.                                 *)
LEMMA ReplacementIsEdit ==
    ASSUME NEW text \in Seq(Lines), WellFormed(text), NEW n, NEW value \in Values, ~IsBlank(value),
           NEW at \in 1..Len(text), \A i \in 1..Len(text) : Says(text, i, n, Key) <=> i = at
    PROVE  \E move : Edited(text, ReplaceAt(text, at, KeyLine(Key, value)), move, n, value)
<1> DEFINE new == ReplaceAt(text, at, KeyLine(Key, value))
           N == Len(text)
           move == [i \in (1..N) \ {at} |-> i]
<1>1. DOMAIN move = (1..N) \ {at} /\ \A i \in DOMAIN move : move[i] = i
  OBVIOUS
<1>2. N \in Nat /\ at \in 1..N /\ KeyLine(Key, value) \in Lines
  BY LinesHaveTheirFields
<1>3. new \in Seq(Lines) /\ Len(new) = N
  BY <1>2 DEF ReplaceAt
<1>4. new[at] = KeyLine(Key, value) /\ \A i \in 1..N : i # at => new[i] = text[i]
  BY <1>2 DEF ReplaceAt
<1>5. move \in [DOMAIN move -> 1..Len(new)]
  BY <1>3
<1>6. Says(text, at, n, Key) /\ IsKey(text[at], Key)
  BY DEF Says
<1>7. KeyLine(Key, value).is = "key"
  BY DEF KeyLine
<1> HIDE DEF move, new, N
<1>8. Moved(text, new, move)
  BY <1>1, <1>2, <1>3, <1>4, <1>5, <1>6, <1>7 DEF Moved, N, IsKey
<1>9. Added(new, move) = {at}
  BY <1>1, <1>2, <1>3 DEF Added
<1>10. InSection(new, at, n)
  <2> DEFINE h == HeaderOf(text, at)
  <2>1. h # 0 /\ text[h] = Header(n)
    BY <1>6 DEF Says, InSection
  <2>2. IsHeaderOf(text, at, h)
    <3>1. at \in 0..Len(text)
      OBVIOUS
    <3> QED
      BY <3>1, HeaderIs
  <2> HIDE DEF h
  <2>3. h \in 1..N /\ h < at
    BY <1>2, <1>6, <2>1, <2>2 DEF IsHeaderOf, IsKey
  <2>4. new[h] = text[h]
    BY <1>2, <1>4, <2>3
  <2>5. \A j \in h + 1..at : new[j].is # "header"
    BY <1>2, <1>4, <1>7, <2>2, <2>3 DEF IsHeaderOf
  <2>6. IsHeaderOf(new, at, h)
    BY <2>2, <2>4, <2>5 DEF IsHeaderOf
  <2>7. HeaderOf(new, at) = h
    <3>1. at \in 0..Len(new)
      BY <1>2, <1>3
    <3> QED
      BY <1>3, <2>6, <3>1, HeaderIs
  <2> QED
    BY <2>1, <2>4, <2>7 DEF InSection
<1>11. Edited(text, new, move, n, value)
  <2>1. \A i \in 1..Len(text) : Says(text, i, n, Key) <=> i \notin DOMAIN move
    BY <1>1, <1>6 DEF N
  <2> QED
    BY <1>4, <1>8, <1>9, <1>10, <2>1 DEF Edited
<1> QED
  BY <1>11 DEF new

(* A line that sets the key is inserted behind the header.                 *)
LEMMA InsertionIsEdit ==
    ASSUME NEW text \in Seq(Lines), WellFormed(text), NEW n, NEW value \in Values, ~IsBlank(value),
           NEW start \in 1..Len(text), text[start] = Header(n),
           \A i \in 1..Len(text) : ~Says(text, i, n, Key)
    PROVE  \E move : Edited(text, InsertAt(text, start + 1, KeyLine(Key, value)), move, n, value)
<1> DEFINE line == KeyLine(Key, value)
           new == InsertAt(text, start + 1, line)
           N == Len(text)
           move == [i \in 1..N |-> IF i <= start THEN i ELSE i + 1]
           before == SubSeq(text, 1, (start + 1) - 1)
           behind == SubSeq(text, start + 1, N)
<1>1. DOMAIN move = 1..N /\ \A i \in 1..N : move[i] = IF i <= start THEN i ELSE i + 1
  OBVIOUS
<1>2. N \in Nat /\ start \in 1..N
  OBVIOUS
<1>3. line \in Lines /\ line.is = "key" /\ Header(n).is = "header"
  BY LinesHaveTheirFields DEF KeyLine, Header
<1>4. before \in Seq(Lines) /\ Len(before) = start /\ \A i \in 1..start : before[i] = text[i]
  BY <1>2
<1>5. behind \in Seq(Lines) /\ Len(behind) = N - start /\ \A i \in 1..N - start : behind[i] = text[start + i]
  BY <1>2
<1>6. new = before \o <<line>> \o behind
  BY DEF InsertAt
<1> HIDE DEF new, N, move, before, behind, line
<1> DEFINE tail == <<line>>
           front == before \o tail
<1>7. tail \in Seq(Lines) /\ Len(tail) = 1 /\ tail[1] = line
  BY <1>3
<1> HIDE DEF tail
<1>8. /\ front \in Seq(Lines) /\ Len(front) = Len(before) + Len(tail)
      /\ \A i \in 1..Len(before) : front[i] = before[i]
      /\ \A i \in 1..Len(tail) : front[Len(before) + i] = tail[i]
  <2>1. /\ before \o tail \in Seq(Lines) /\ Len(before \o tail) = Len(before) + Len(tail)
        /\ \A i \in 1..Len(before) : (before \o tail)[i] = before[i]
        /\ \A i \in 1..Len(tail) : (before \o tail)[Len(before) + i] = tail[i]
    <3>1. before \in Seq(Lines) /\ tail \in Seq(Lines)
      BY <1>4, <1>7
    <3> HIDE DEF before, tail
    <3> QED
      BY <3>1, JoinIs
  <2> QED
    BY <2>1 DEF front
<1>9. new = front \o behind
  BY <1>6 DEF tail
<1> HIDE DEF front
<1>10. /\ new \in Seq(Lines) /\ Len(new) = Len(front) + Len(behind)
       /\ \A i \in 1..Len(front) : new[i] = front[i]
       /\ \A i \in 1..Len(behind) : new[Len(front) + i] = behind[i]
  <2>1. /\ front \o behind \in Seq(Lines) /\ Len(front \o behind) = Len(front) + Len(behind)
        /\ \A i \in 1..Len(front) : (front \o behind)[i] = front[i]
        /\ \A i \in 1..Len(behind) : (front \o behind)[Len(front) + i] = behind[i]
    <3>1. front \in Seq(Lines) /\ behind \in Seq(Lines)
      BY <1>5, <1>8
    <3> HIDE DEF front, behind
    <3> QED
      BY <3>1, JoinIs
  <2> QED
    BY <1>9, <2>1
<1>11. Len(front) = start + 1 /\ front[start + 1] = line /\ \A i \in 1..start : front[i] = text[i]
  BY <1>2, <1>4, <1>7, <1>8
<1>12. Len(new) = N + 1 /\ new[start + 1] = line /\ \A i \in 1..start : new[i] = text[i]
  BY <1>2, <1>5, <1>10, <1>11
<1>13. \A i \in start + 1..N : new[i + 1] = text[i]
  <2> TAKE i \in start + 1..N
  <2>1. i - start \in 1..N - start /\ start + (i - start) = i /\ (start + 1) + (i - start) = i + 1
    BY <1>2
  <2> QED
    BY <1>5, <1>10, <1>11, <2>1
<1>14. \A i \in 1..N : move[i] \in 1..N + 1 /\ move[i] # start + 1 /\ new[move[i]] = text[i]
  BY <1>1, <1>2, <1>12, <1>13
<1>15. \A j \in 1..N + 1 : j # start + 1 => \E i \in 1..N : move[i] = j
  <2> TAKE j \in 1..N + 1
  <2>1. CASE j <= start
    <3>1. j \in 1..N /\ move[j] = j
      BY <1>1, <1>2, <2>1
    <3> QED
      BY <3>1
  <2>2. CASE j > start + 1
    <3>1. j - 1 \in 1..N /\ move[j - 1] = j
      BY <1>1, <1>2, <2>2
    <3> QED
      BY <3>1
  <2> QED
    BY <1>2, <2>1, <2>2
<1>16. Moved(text, new, move)
  <2>1. move \in [DOMAIN move -> 1..Len(new)] /\ DOMAIN move = 1..Len(text)
    <3>1. move \in [1..N -> 1..N + 1]
      BY <1>2 DEF move
    <3> QED
      BY <1>1, <1>10, <1>12, <3>1 DEF N
  <2>2. \A i, j \in DOMAIN move : i < j => move[i] < move[j]
    BY <1>1, <1>2
  <2>3. \A i \in DOMAIN move : new[move[i]] = text[i]
    BY <1>1, <1>14
  <2>4. \A i \in DOMAIN move, j \in 1..Len(new) :
          j < move[i] /\ new[j].is = "header" => \E l \in DOMAIN move : move[l] = j
    BY <1>1, <1>3, <1>10, <1>12, <1>15
  <2> QED
    BY <2>1, <2>2, <2>3, <2>4 DEF Moved
<1>17. Added(new, move) = {start + 1}
  <2>1. ASSUME NEW j \in Added(new, move) PROVE j = start + 1
    BY <1>1, <1>12, <1>15 DEF Added
  <2>2. start + 1 \in Added(new, move)
    BY <1>1, <1>2, <1>12, <1>14 DEF Added
  <2> QED
    BY <2>1, <2>2
<1>18. InSection(new, start + 1, n)
  <2>1. new[start] = Header(n)
    BY <1>2, <1>12
  <2>2. IsHeaderOf(new, start + 1, start)
    BY <1>2, <1>3, <1>12, <2>1 DEF IsHeaderOf
  <2>3. HeaderOf(new, start + 1) = start
    <3>1. start + 1 \in 0..Len(new)
      BY <1>2, <1>10, <1>12
    <3> QED
      BY <1>10, <1>12, <2>2, <3>1, HeaderIs
  <2> QED
    BY <1>2, <2>1, <2>3 DEF InSection
<1>19. Edited(text, new, move, n, value)
  <2>1. \A i \in 1..Len(text) : Says(text, i, n, Key) <=> i \notin DOMAIN move
    BY <1>1 DEF N
  <2> QED
    BY <1>12, <1>16, <1>17, <1>18, <2>1 DEF Edited, line
<1> QED
  BY <1>19 DEF new, line

(* policySetKey is one of these edits.                                     *)
LEMMA SetKeyIsEdit ==
    ASSUME NEW text \in Seq(Lines), WellFormed(text), NEW n \in Sections, NEW value \in Values
    PROVE  \E move : Edited(text, SetKey(text, n, value), move, n, value)
<1> DEFINE start == StartOf(text, n)
           at == KeyAt(text, start)
           line == KeyLine(Key, value)
           new == SetKey(text, n, value)
<1>1. /\ start = 0 /\ IsBlank(value) => new = text
      /\ start = 0 /\ ~IsBlank(value) => new = text \o <<Header(n), line>>
      /\ start # 0 /\ IsBlank(value) => new = IF at = 0 THEN text ELSE RemoveAt(text, at)
      /\ start # 0 /\ ~IsBlank(value) =>
           new = IF at = 0 THEN InsertAt(text, start + 1, line) ELSE ReplaceAt(text, at, line)
  BY Zenon DEF SetKey, IsBlank
<1>2. start \in 0..Len(text) /\ (start # 0 => text[start] = Header(n))
  BY StartIs
<1>3. at \in 0..Len(text)
  BY <1>2, KeyIs
<1>4. \A i \in 1..Len(text) : start # 0 => (Says(text, i, n, Key) <=> at # 0 /\ i = at)
  BY KeyIsSaid
<1>5. CASE IsBlank(value) /\ (start = 0 \/ at = 0)
  <2>1. new = text
    BY <1>1, <1>5
  <2> QED
    BY <1>5, <2>1, NothingIsEdit
<1>6. CASE ~IsBlank(value) /\ start = 0
  <2>1. new = text \o <<Header(n), line>>
    BY <1>1, <1>6
  <2> QED
    BY <1>6, <2>1, AppendIsEdit
<1> HIDE DEF start, at
<1>7. CASE IsBlank(value) /\ start # 0 /\ at # 0
  <2>1. new = RemoveAt(text, at) /\ at \in 1..Len(text)
    BY <1>1, <1>3, <1>7
  <2>2. \A i \in 1..Len(text) : Says(text, i, n, Key) <=> i = at
    BY <1>4, <1>7
  <2> QED
    BY <1>7, <2>1, <2>2, RemovalIsEdit
<1>8. CASE ~IsBlank(value) /\ start # 0 /\ at # 0
  <2>1. new = ReplaceAt(text, at, line) /\ at \in 1..Len(text)
    BY <1>1, <1>3, <1>8
  <2>2. \A i \in 1..Len(text) : Says(text, i, n, Key) <=> i = at
    BY <1>4, <1>8
  <2> QED
    BY <1>8, <2>1, <2>2, ReplacementIsEdit
<1>9. CASE ~IsBlank(value) /\ start # 0 /\ at = 0
  <2>1. new = InsertAt(text, start + 1, line) /\ start \in 1..Len(text)
    BY <1>1, <1>2, <1>9
  <2>2. \A i \in 1..Len(text) : ~Says(text, i, n, Key)
    BY <1>4, <1>9
  <2> QED
    BY <1>2, <1>9, <2>1, <2>2, InsertionIsEdit
<1> QED
  BY <1>5, <1>6, <1>7, <1>8, <1>9

(* What a text says of the key once it is set to a value.                  *)
Wanted(value) == IF IsBlank(value) THEN "unset" ELSE value

LEMMA SetKeyIsText ==
    ASSUME NEW text \in Seq(Lines), NEW n \in Sections, NEW value \in Values
    PROVE  SetKey(text, n, value) \in Seq(Lines)
BY LinesHaveTheirFields, SetKeyKeepsKind

(* policySetKey sets the key of one section, and leaves a text that says   *)
(* nothing twice.                                                          *)
LEMMA SetKeySettings ==
    ASSUME NEW text \in Seq(Lines), WellFormed(text), NEW n \in Sections, NEW value \in Values
    PROVE  /\ WellFormed(SetKey(text, n, value))
           /\ \A m, k : Setting(SetKey(text, n, value), m, k) =
                          IF m = n /\ k = Key THEN Wanted(value) ELSE Setting(text, m, k)
<1> DEFINE new == SetKey(text, n, value)
<1>1. new \in Seq(Lines)
  BY SetKeyIsText
<1>2. PICK move : Edited(text, new, move, n, value)
  BY SetKeyIsEdit
<1> HIDE DEF new
<1>3. WellFormed(new)
  BY <1>1, <1>2, EditedIsWellFormed
<1>4. \A m, k : Setting(new, m, k) =
                  IF m = n /\ k = Key THEN IF IsBlank(value) THEN "unset" ELSE value
                                      ELSE Setting(text, m, k)
  BY <1>1, <1>2, EditedSettings
<1> QED
  BY <1>3, <1>4 DEF new, Wanted

(* So does a form, for all of its networks.                                *)
LEMMA SetAllSettings ==
    ASSUME NEW text \in Seq(Lines), WellFormed(text), NEW form, form \in [DOMAIN form -> Values],
           DOMAIN form \subseteq Nets, IsFiniteSet(DOMAIN form)
    PROVE  /\ WellFormed(SetAll(text, form))
           /\ \A m, k : Setting(SetAll(text, form), m, k) =
                IF m \in DOMAIN form /\ k = Key THEN Wanted(form[m]) ELSE Setting(text, m, k)
<1>1. PICK nets, after : InSteps(text, form, nets, after)
  BY SetAllInSteps, Zenon
<1>2. /\ nets \in Seq(DOMAIN form)
      /\ after[0] = text
      /\ \A i \in 1..Len(nets) : after[i] = SetKey(after[i - 1], nets[i], form[nets[i]])
      /\ SetAll(text, form) = after[Len(nets)]
      /\ \A n \in DOMAIN form : \E i \in 1..Len(nets) : nets[i] = n
  BY <1>1 DEF InSteps
<1> DEFINE Done(i) == {nets[j] : j \in 1..i}
           Set(i) == \A m, k : Setting(after[i], m, k) =
                        IF m \in Done(i) /\ k = Key THEN Wanted(form[m]) ELSE Setting(text, m, k)
           T == {i \in 0..Len(nets) : after[i] \in Seq(Lines) /\ WellFormed(after[i]) /\ Set(i)}
<1>3. Len(nets) \in Nat
  BY <1>2
<1>4. 0 \in T
  <2>1. Done(0) = {}
    OBVIOUS
  <2> HIDE DEF Done
  <2>2. Set(0)
    BY <1>2, <2>1
  <2> HIDE DEF Set
  <2> QED
    BY <1>2, <1>3, <2>2
<1>5. ASSUME NEW i \in 0..Len(nets), i # 0, i - 1 \in T PROVE i \in T
  <2> DEFINE n == nets[i]
             value == form[n]
  <2>1. i \in 1..Len(nets) /\ i - 1 \in 0..Len(nets)
    BY <1>3, <1>5
  <2>2. n \in DOMAIN form /\ n \in Sections /\ value \in Values
    <3>1. nets \in Seq(DOMAIN form)
      BY <1>2
    <3>2. n \in DOMAIN form
      BY <2>1, <3>1
    <3> HIDE DEF n
    <3> QED
      BY <3>2 DEF Sections
  <2>3. after[i - 1] \in Seq(Lines) /\ WellFormed(after[i - 1]) /\ Set(i - 1)
    BY <1>5
  <2>4. after[i] = SetKey(after[i - 1], n, value)
    BY <1>2, <2>1
  <2>5. Done(i) = Done(i - 1) \cup {n}
    BY <2>1
  <2> HIDE DEF n, Done
  <2>6. /\ after[i] \in Seq(Lines) /\ WellFormed(after[i])
        /\ \A m, k : Setting(after[i], m, k) =
                       IF m = n /\ k = Key THEN Wanted(value) ELSE Setting(after[i - 1], m, k)
    <3> HIDE DEF value, Set
    <3>1. after[i] \in Seq(Lines)
      BY <2>2, <2>3, <2>4, SetKeyIsText
    <3>2. /\ WellFormed(SetKey(after[i - 1], n, value))
          /\ \A m, k : Setting(SetKey(after[i - 1], n, value), m, k) =
                         IF m = n /\ k = Key THEN Wanted(value) ELSE Setting(after[i - 1], m, k)
      BY <2>2, <2>3, SetKeySettings
    <3> QED
      BY <2>4, <3>1, <3>2
  <2>7. Set(i)
    <3> TAKE m, k
    <3>1. CASE m = n /\ k = Key
      BY <2>5, <2>6, <3>1
    <3>2. CASE ~(m = n /\ k = Key)
      BY <2>3, <2>5, <2>6, <3>2
    <3> QED
      BY <3>1, <3>2
  <2> HIDE DEF Set
  <2> QED
    BY <2>6, <2>7
<1> HIDE DEF T
<1>6. 0..Len(nets) \subseteq T
  BY <1>3, <1>4, <1>5, UpTo
<1>7. Len(nets) \in T
  BY <1>3, <1>6
<1>8. Done(Len(nets)) = DOMAIN form
  <2>1. \A n \in Done(Len(nets)) : n \in DOMAIN form
    BY <1>2, <1>3
  <2>2. \A n \in DOMAIN form : n \in Done(Len(nets))
    BY <1>2
  <2> HIDE DEF Done
  <2> QED
    BY <2>1, <2>2
<1> HIDE DEF Done
<1>9. WellFormed(after[Len(nets)]) /\ Set(Len(nets))
  BY <1>7 DEF T
<1> QED
  BY <1>2, <1>8, <1>9

-----------------------------------------------------------------------------
(* Texts of policy lines.                                                  *)

LEMMA NothingParses == <<>> \in Seq(PolicyLines) /\ Parses(<<>>)
BY DEF Parses

(* A text of which nothing is refused is one of policy lines, and the other*)
(* way round.                                                              *)
LEMMA NothingRefused ==
    ASSUME NEW text \in Seq(Lines)
    PROVE  Refused(text) = {} <=> text \in Seq(PolicyLines)
<1>1. ASSUME Refused(text) = {} PROVE text \in Seq(PolicyLines)
  <2>1. \A i \in 1..Len(text) : text[i] \in PolicyLines
    BY <1>1 DEF Refused, PolicyLines
  <2> QED
    BY <2>1
<1>2. ASSUME text \in Seq(PolicyLines) PROVE Refused(text) = {}
  <2>1. \A i \in DOMAIN text : text[i] \in PolicyLines
    BY <1>2
  <2> QED
    BY <2>1 DEF Refused, PolicyLines
<1> QED
  BY <1>1, <1>2

(* A form, of networks and values, leaves policy lines.                    *)
LEMMA FormsKeepLines ==
    ASSUME NEW text \in Seq(PolicyLines), NEW form \in Forms
    PROVE  SetAll(text, form) \in Seq(PolicyLines)
<1>1. form \in [DOMAIN form -> Values] /\ DOMAIN form \subseteq Nets
  BY PolicyAssumption
<1>2. IsFiniteSet(DOMAIN form)
  BY <1>1, PolicyAssumption, FS_Subset
<1>3. \A n \in DOMAIN form : Header(n) \in PolicyLines /\ KeyLine(Key, form[n]) \in PolicyLines
  BY <1>1, LinesHaveTheirFields DEF Sections
<1> QED
  BY <1>2, <1>3, LinesHaveTheirFields, SetAllKeepsKind

(* A text that is written over another is one of policy lines still.       *)
LEMMA OverKeepsLines ==
    ASSUME NEW text \in Seq(PolicyLines), NEW old \in Seq(PolicyLines), NEW new \in Over(text, old)
    PROVE  new \in Seq(PolicyLines)
<1>1. CASE Len(old) <= Len(text)
  BY <1>1 DEF Over
<1>2. CASE ~(Len(old) <= Len(text))
  <2> DEFINE rest == SubSeq(old, Len(text) + 1, Len(old))
  <2>1. rest \in Seq(PolicyLines) /\ rest # <<>>
    <3>1. Len(old) \in Nat /\ Len(text) + 1 \in 1..Len(old)
      BY <1>2
    <3>2. rest \in Seq(PolicyLines) /\ Len(rest) = Len(old) - (Len(text) + 1) + 1
      BY <3>1
    <3> HIDE DEF rest
    <3>3. Len(rest) # 0
      BY <3>1, <3>2
    <3> QED
      BY <3>2, <3>3
  <2>2. <<Junk>> \in Seq(PolicyLines)
    BY LinesHaveTheirFields
  <2>3. new \in {text \o rest, text \o <<Junk>> \o Tail(rest)}
    BY <1>2 DEF Over
  <2> HIDE DEF rest
  <2>4. Tail(rest) \in Seq(PolicyLines)
    BY <2>1
  <2>5. text \o rest \in Seq(PolicyLines) /\ text \o <<Junk>> \in Seq(PolicyLines)
    BY <2>1, <2>2
  <2>6. (text \o <<Junk>>) \o Tail(rest) \in Seq(PolicyLines)
    BY <2>4, <2>5
  <2> QED
    BY <2>3, <2>5, <2>6
<1> QED
  BY <1>1, <1>2

(* And so is a part of a text, its last line cut or not.                   *)
LEMMA PartsAreLines ==
    ASSUME NEW text \in Seq(PolicyLines), NEW part \in Parts(text)
    PROVE  part \in Seq(PolicyLines)
<1>1. ASSUME NEW j \in 0..Len(text)
      PROVE  SubSeq(text, 1, j) \in Seq(PolicyLines)
  OBVIOUS
<1>2. ASSUME NEW line \in PolicyLines, NEW cut \in Cut(line)
      PROVE  cut \in PolicyLines
  <2>1. CASE cut = Junk \/ cut = Note
    BY <2>1, LinesHaveTheirFields
  <2>2. CASE line.is = "key" /\ cut \in {KeyLine(line.name, v) : v \in Values}
    <3>1. PICK v \in Values : cut = KeyLine(line.name, v)
      BY <2>2
    <3>2. line.name \in PolicyKeys
      BY <2>2 DEF PolicyLines
    <3>3. cut \in Lines
      BY <3>1, <3>2 DEF Lines, Keys
    <3>4. cut.name = line.name
      BY <3>1 DEF KeyLine
    <3> QED
      BY <3>2, <3>3, <3>4 DEF PolicyLines
  <2> QED
    BY <1>2, <2>1, <2>2 DEF Cut
<1>3. ASSUME NEW j \in 0..Len(text) - 1, NEW cut \in Cut(text[j + 1])
      PROVE  SubSeq(text, 1, j) \o <<cut>> \in Seq(PolicyLines)
  <2>1. text[j + 1] \in PolicyLines /\ SubSeq(text, 1, j) \in Seq(PolicyLines)
    OBVIOUS
  <2>2. cut \in PolicyLines
    BY <1>2, <2>1
  <2> QED
    BY <2>1, <2>2
<1>4. \/ \E j \in 0..Len(text) : part = SubSeq(text, 1, j)
      \/ \E j \in 0..Len(text) - 1 : \E cut \in Cut(text[j + 1]) : part = SubSeq(text, 1, j) \o <<cut>>
  BY DEF Parts
<1> QED
  BY <1>1, <1>3, <1>4

-----------------------------------------------------------------------------
(* The invariant.                                                          *)

LEMMA InitPolicyInv == Init => PolicyInv
<1>1. SUFFICES ASSUME Init PROVE PolicyInv
  OBVIOUS
<1>2. file \in Seq(PolicyLines) /\ Parses(file)
  BY <1>1, PolicyAssumption, NothingRefused DEF Init
<1>3. Idle \in Request /\ Off \in Watch
  BY NothingParses DEF Idle, Off, Request, Watch
<1>4. MaxSaves \in Nat /\ MaxFaults \in Nat
  BY PolicyAssumption
<1>5. admin \in [Admins -> Request] /\ alone \in [Admins -> BOOLEAN] /\ watch \in Watch
  BY <1>1, <1>3 DEF Init
<1>6. posts \in 0..MaxSaves /\ faults \in 0..MaxFaults
  <2>1. posts = 0 /\ faults = 0
    BY <1>1 DEF Init
  <2> QED
    BY <1>4, <2>1
<1>7. torn \in BOOLEAN
  <2>1. torn = FALSE
    BY <1>1 DEF Init
  <2> QED
    BY <2>1
<1> QED
  BY <1>2, <1>5, <1>6, <1>7 DEF PolicyInv

(* A request that has to do with the file holds texts.                     *)
LEMMA RequestFields ==
    ASSUME PolicyInv, NEW a \in Admins
    PROVE  /\ admin[a].at \in {"idle", "open", "write", "saved"}
           /\ admin[a].form \in Forms \cup {NoForm}
           /\ admin[a].read \in Seq(PolicyLines)
           /\ admin[a].text \in Seq(PolicyLines) /\ Parses(admin[a].text)
BY DEF PolicyInv, Request

LEMMA PostTextInv ==
    ASSUME PolicyInv, NEW a \in Admins, NEW t \in PageTexts, PostText(a, t)
    PROVE  PolicyInv'
<1>1. CASE Accepts(t)
  <2>1. t \in Seq(PolicyLines) /\ Parses(t)
    BY <1>1, PolicyAssumption, NothingRefused DEF Accepts
  <2>2. Idle \in Request
    BY NothingParses DEF Idle, Request
  <2>3. [Idle EXCEPT !.at = "open", !.text = t] \in Request
    <3>1. [Idle EXCEPT !.at = "open"] \in Request
      BY <2>2 DEF Request
    <3>2. [[Idle EXCEPT !.at = "open"] EXCEPT !.text = t] \in Request
      BY <2>1, <3>1 DEF Request
    <3>3. [Idle EXCEPT !.at = "open", !.text = t] = [[Idle EXCEPT !.at = "open"] EXCEPT !.text = t]
      BY DEF Idle
    <3> QED
      BY <3>2, <3>3
  <2>4. admin' \in [Admins -> Request]
    BY <1>1, <2>3 DEF PostText, PolicyInv
  <2>5. alone' \in [Admins -> BOOLEAN]
    BY DEF PostText, PolicyInv
  <2>6. posts' \in 0..MaxSaves
    BY PolicyAssumption DEF PostText, PolicyInv
  <2> QED
    BY <2>4, <2>5, <2>6 DEF PostText, PolicyInv
<1>2. CASE ~Accepts(t)
  BY <1>2, PolicyAssumption DEF PostText, PolicyInv
<1> QED
  BY <1>1, <1>2

LEMMA PostFormInv ==
    ASSUME PolicyInv, NEW a \in Admins, NEW f \in Forms, PostForm(a, f)
    PROVE  PolicyInv'
<1> DEFINE text == SetAll(file, f)
<1>1. file \in Seq(PolicyLines)
  BY DEF PolicyInv
<1>2. text \in Seq(PolicyLines)
  BY <1>1, FormsKeepLines
<1>3. admin' = IF Parses(text)
               THEN [admin EXCEPT ![a] = [at |-> "open", form |-> f, read |-> file, text |-> text]]
               ELSE admin
  BY DEF PostForm
<1> HIDE DEF text
<1>4. admin' \in [Admins -> Request]
  <2>1. CASE Parses(text)
    <3>1. [at |-> "open", form |-> f, read |-> file, text |-> text] \in Request
      BY <1>1, <1>2, <2>1 DEF Request
    <3> QED
      BY <1>3, <2>1, <3>1 DEF PolicyInv
  <2>2. CASE ~Parses(text)
    BY <1>3, <2>2 DEF PolicyInv
  <2> QED
    BY <2>1, <2>2
<1>5. alone' \in [Admins -> BOOLEAN]
  BY DEF PostForm, PolicyInv
<1>6. posts' \in 0..MaxSaves
  BY PolicyAssumption DEF PostForm, PolicyInv
<1> QED
  BY <1>4, <1>5, <1>6 DEF PostForm, PolicyInv

LEMMA TruncateInv ==
    ASSUME PolicyInv, NEW a \in Admins, Truncate(a)
    PROVE  PolicyInv'
<1>1. [admin[a] EXCEPT !.at = "write"] \in Request
  BY DEF PolicyInv, Request
<1>2. admin' \in [Admins -> Request]
  BY <1>1 DEF Truncate, PolicyInv
<1>3. file' \in Seq(PolicyLines) /\ torn' = TRUE
  BY NothingParses DEF Truncate
<1>4. alone' \in [Admins -> BOOLEAN]
  BY DEF Truncate, Disturb, PolicyInv
<1> QED
  BY <1>2, <1>3, <1>4 DEF Truncate, PolicyInv

LEMMA WriteInv ==
    ASSUME PolicyInv, NEW a \in Admins, Write(a)
    PROVE  PolicyInv'
<1>1. [admin[a] EXCEPT !.at = "saved"] \in Request
  BY DEF PolicyInv, Request
<1>2. admin' \in [Admins -> Request]
  BY <1>1 DEF Write, PolicyInv
<1>3. file' \in Seq(PolicyLines)
  BY RequestFields, OverKeepsLines DEF Write, PolicyInv
<1>4. torn' \in BOOLEAN /\ (~torn' => Parses(file'))
  BY RequestFields DEF Write
<1>5. alone' \in [Admins -> BOOLEAN]
  BY DEF Write, Disturb, PolicyInv
<1> QED
  BY <1>2, <1>3, <1>4, <1>5 DEF Write, PolicyInv

LEMMA WriteFailsInv ==
    ASSUME PolicyInv, NEW a \in Admins, WriteFails(a)
    PROVE  PolicyInv'
<1>1. admin' \in [Admins -> Request]
  <2>1. Idle \in Request
    BY NothingParses DEF Idle, Request
  <2> QED
    BY <2>1 DEF WriteFails, PolicyInv
<1>2. file' \in Seq(PolicyLines)
  <2> DEFINE text == admin[a].text
  <2>1. PICK part \in Parts(text) : file' \in Over(part, file)
    BY DEF WriteFails
  <2>2. text \in Seq(PolicyLines)
    BY RequestFields
  <2> HIDE DEF text
  <2>3. part \in Seq(PolicyLines)
    BY <2>1, <2>2, PartsAreLines
  <2> QED
    BY <2>1, <2>3, OverKeepsLines DEF PolicyInv
<1>3. torn' = TRUE /\ alone' \in [Admins -> BOOLEAN]
  BY DEF WriteFails, Disturb, PolicyInv
<1>4. faults' \in 0..MaxFaults
  BY PolicyAssumption DEF WriteFails, PolicyInv
<1> QED
  BY <1>1, <1>2, <1>3, <1>4 DEF WriteFails, PolicyInv

LEMMA ReportInv ==
    ASSUME PolicyInv, NEW a \in Admins, Report(a)
    PROVE  PolicyInv'
<1>1. Idle \in Request
  BY NothingParses DEF Idle, Request
<1>2. admin' \in [Admins -> Request]
  BY <1>1 DEF Report, PolicyInv
<1> QED
  BY <1>2 DEF Report, PolicyInv

(* The watcher takes the file when it starts, if it parses.                *)
LEMMA WatcherInv ==
    ASSUME PolicyInv, (\E mode \in Modes : StartWatcher(mode)) \/ EndPass \/ NextPass
    PROVE  PolicyInv'
<1>1. ASSUME NEW mode \in Modes, StartWatcher(mode) PROVE watch' \in Watch
  BY <1>1, PolicyAssumption DEF StartWatcher, PolicyInv, Watch
<1>2. ASSUME EndPass PROVE watch' \in Watch
  <2>1. Off \in Watch
    BY NothingParses DEF Off, Watch
  <2>2. [watch EXCEPT !.at = "sleep"] \in Watch
    BY DEF PolicyInv, Watch
  <2> QED
    BY <1>2, <2>1, <2>2 DEF EndPass
<1>3. ASSUME NextPass PROVE watch' \in Watch
  BY <1>3 DEF NextPass, PolicyInv, Watch
<1>4. UNCHANGED <<file, torn, admin, alone, posts, faults>>
  BY DEF StartWatcher, EndPass, NextPass
<1> QED
  BY <1>1, <1>2, <1>3, <1>4 DEF PolicyInv

LEMMA NextPolicyInv == PolicyInv /\ [Next]_vars => PolicyInv'
<1> SUFFICES ASSUME PolicyInv, [Next]_vars PROVE PolicyInv'
  OBVIOUS
<1>1. CASE UNCHANGED vars
  BY <1>1 DEF vars, PolicyInv
<1>2. ASSUME NEW a \in Admins,
             \/ \E t \in PageTexts : PostText(a, t)
             \/ \E f \in Forms : PostForm(a, f)
      PROVE  PolicyInv'
  BY <1>2, PostTextInv, PostFormInv
<1>3. ASSUME NEW a \in Admins, Truncate(a) \/ Write(a) \/ WriteFails(a) \/ Report(a)
      PROVE  PolicyInv'
  BY <1>3, TruncateInv, WriteInv, WriteFailsInv, ReportInv
<1>4. CASE (\E mode \in Modes : StartWatcher(mode)) \/ EndPass \/ NextPass
  BY <1>4, WatcherInv
<1> QED
  BY <1>1, <1>2, <1>3, <1>4 DEF Next

LEMMA InvPolicy == Spec => []PolicyInv
<1>1. Init => PolicyInv
  BY InitPolicyInv
<1>2. PolicyInv /\ [Next]_vars => PolicyInv'
  BY NextPolicyInv
<1> QED
  BY <1>1, <1>2, PTL DEF Spec

-----------------------------------------------------------------------------
(* The theorems.                                                           *)

(* Every variable keeps its type; only a text that parses is on its way to *)
(* the file, and the watcher never runs on another (server.go:736-747,     *)
(* 799-802, main.go:49-67).                                                *)
THEOREM TypeCorrect == Spec => []TypeOK
<1>1. Seq(PolicyLines) \subseteq Seq(Lines)
  BY LinesHaveTheirFields
<1>2. PolicyInv => TypeOK
  BY <1>1, RequestFields DEF PolicyInv, TypeOK, IsText, Watch
<1>3. Spec => []PolicyInv
  BY InvPolicy
<1> QED
  BY <1>2, <1>3, PTL

(* Whatever saves cross and fail, a file that holds the text of a save,    *)
(* whole, parses and sets nothing a policy may not set, although a form is *)
(* worked into what is on disk, torn or not, and checked for its syntax    *)
(* only (server.go:736-747, 774-802).                                      *)
THEOREM WholeFilesAreValid == Spec => []FileValid
<1>1. PolicyInv => FileValid
  <2>1. PolicyInv => file \in Seq(Lines) /\ file \in Seq(PolicyLines)
    BY LinesHaveTheirFields DEF PolicyInv
  <2> QED
    BY <2>1, NothingRefused DEF PolicyInv, FileValid
<1>2. Spec => []PolicyInv
  BY InvPolicy
<1> QED
  BY <1>1, <1>2, PTL

-----------------------------------------------------------------------------
(* A form that is saved without interference.                              *)

(* A request alone with the file holds what the form makes of the text it  *)
(* read, and finds the file empty when it writes.                          *)
SaveInv ==
    \A a \in Admins :
        /\ admin[a].at \in {"open", "write", "saved"} /\ admin[a].form # NoForm
             => admin[a].text = SetAll(admin[a].read, admin[a].form)
        /\ alone[a] /\ admin[a].at = "write" => file = <<>>
        /\ alone[a] /\ admin[a].at = "saved" => file = admin[a].text

LEMMA InitSaveInv == Init => SaveInv
BY DEF Init, SaveInv, Idle, NoForm

(* What the handlers make of the request they serve.                       *)
LEMMA RequestsOf ==
    ASSUME PolicyInv, NEW a \in Admins
    PROVE  /\ \A t \in PageTexts : PostText(a, t) =>
                /\ \A b \in Admins \ {a} : admin'[b] = admin[b]
                /\ admin'[a] = admin[a] \/ (admin'[a].at = "open" /\ admin'[a].form = NoForm)
                /\ admin[a].at = "idle"
           /\ \A f \in Forms : PostForm(a, f) =>
                /\ \A b \in Admins \ {a} : admin'[b] = admin[b]
                /\ \/ admin'[a] = admin[a]
                   \/ /\ admin'[a].at = "open" /\ admin'[a].form = f
                      /\ admin'[a].read = file /\ admin'[a].text = SetAll(file, f)
                /\ admin[a].at = "idle"
           /\ Truncate(a) \/ Write(a) =>
                /\ \A b \in Admins \ {a} : admin'[b] = admin[b]
                /\ admin'[a].at = IF Truncate(a) THEN "write" ELSE "saved"
                /\ admin[a].at = IF Truncate(a) THEN "open" ELSE "write"
                /\ admin'[a].form = admin[a].form
                /\ admin'[a].read = admin[a].read /\ admin'[a].text = admin[a].text
           /\ WriteFails(a) \/ Report(a) =>
                /\ \A b \in Admins \ {a} : admin'[b] = admin[b]
                /\ admin'[a].at = "idle"
<1> USE DEF PolicyInv
<1>1. ASSUME NEW t \in PageTexts, PostText(a, t)
      PROVE  /\ \A b \in Admins \ {a} : admin'[b] = admin[b]
             /\ admin'[a] = admin[a] \/ (admin'[a].at = "open" /\ admin'[a].form = NoForm)
             /\ admin[a].at = "idle"
  BY <1>1 DEF PostText, Idle
<1>2. ASSUME NEW f \in Forms, PostForm(a, f)
      PROVE  /\ \A b \in Admins \ {a} : admin'[b] = admin[b]
             /\ \/ admin'[a] = admin[a]
                \/ /\ admin'[a].at = "open" /\ admin'[a].form = f
                   /\ admin'[a].read = file /\ admin'[a].text = SetAll(file, f)
             /\ admin[a].at = "idle"
  BY <1>2 DEF PostForm
<1>3. ASSUME Truncate(a) \/ Write(a)
      PROVE  /\ \A b \in Admins \ {a} : admin'[b] = admin[b]
             /\ admin'[a].at = IF Truncate(a) THEN "write" ELSE "saved"
             /\ admin[a].at = IF Truncate(a) THEN "open" ELSE "write"
             /\ admin'[a].form = admin[a].form
             /\ admin'[a].read = admin[a].read /\ admin'[a].text = admin[a].text
  <2>1. admin[a] \in Request
    OBVIOUS
  <2> QED
    BY <1>3, <2>1 DEF Truncate, Write, Request
<1>4. ASSUME WriteFails(a) \/ Report(a)
      PROVE  /\ \A b \in Admins \ {a} : admin'[b] = admin[b]
             /\ admin'[a].at = "idle"
  BY <1>4 DEF WriteFails, Report, Idle
<1> QED
  BY <1>1, <1>2, <1>3, <1>4

LEMMA NextSaveInv == PolicyInv /\ SaveInv /\ [Next]_vars => SaveInv'
<1> DEFINE Worked(b) == admin[b].at \in {"open", "write", "saved"} /\ admin[b].form # NoForm
                          => admin[b].text = SetAll(admin[b].read, admin[b].form)
           Empty(b) == alone[b] /\ admin[b].at = "write" => file = <<>>
           Held(b) == alone[b] /\ admin[b].at = "saved" => file = admin[b].text
<1>1. SUFFICES ASSUME PolicyInv, SaveInv, [Next]_vars, NEW b \in Admins
               PROVE  Worked(b)' /\ Empty(b)' /\ Held(b)'
  BY Zenon DEF SaveInv
<1>2. Worked(b) /\ Empty(b) /\ Held(b)
  BY <1>1 DEF SaveInv
<1>3. alone \in [Admins -> BOOLEAN]
  BY <1>1 DEF PolicyInv
<1>4. ASSUME NEW a \in Admins, NEW t \in PageTexts, PostText(a, t)
      PROVE  Worked(b)' /\ Empty(b)' /\ Held(b)'
  <2>1. file' = file /\ alone' = [alone EXCEPT ![a] = FALSE]
    BY <1>4 DEF PostText
  <2>2. CASE b = a
    BY <1>1, <1>2, <1>3, <1>4, <2>1, <2>2, RequestsOf
  <2>3. CASE b # a
    BY <1>1, <1>2, <1>3, <1>4, <2>1, <2>3, RequestsOf
  <2> QED
    BY <2>2, <2>3
<1>5. ASSUME NEW a \in Admins, NEW f \in Forms, PostForm(a, f)
      PROVE  Worked(b)' /\ Empty(b)' /\ Held(b)'
  <2>1. file' = file /\ \A c \in Admins \ {a} : alone'[c] = alone[c]
    BY <1>3, <1>5 DEF PostForm
  <2>2. CASE b = a
    BY <1>1, <1>2, <1>5, <2>1, <2>2, RequestsOf
  <2>3. CASE b # a
    BY <1>1, <1>2, <1>5, <2>1, <2>3, RequestsOf
  <2> QED
    BY <2>2, <2>3
<1>6. ASSUME NEW a \in Admins, Truncate(a) \/ Write(a)
      PROVE  Worked(b)' /\ Empty(b)' /\ Held(b)'
  <2>1. alone' = [c \in Admins |-> c = a /\ alone[c]]
    BY <1>6 DEF Truncate, Write, Disturb
  <2>2. CASE b # a
    <3>1. ~alone'[b] /\ admin'[b] = admin[b]
      BY <1>1, <1>6, <2>1, <2>2, RequestsOf
    <3> QED
      BY <1>2, <3>1
  <2>3. CASE b = a /\ Truncate(a)
    <3>1. file' = <<>> /\ admin'[b].at = "write"
      BY <1>1, <1>6, <2>3, RequestsOf DEF Truncate
    <3>2. Worked(b)'
      BY <1>1, <1>2, <1>6, <2>3, RequestsOf
    <3> QED
      BY <3>1, <3>2
  <2>4. CASE b = a /\ ~Truncate(a)
    <3>1. Write(a) /\ admin[b].at = "write" /\ admin'[b].at = "saved" /\ admin'[b].text = admin[b].text
      BY <1>1, <1>6, <2>4, RequestsOf
    <3>2. Worked(b)'
      BY <1>1, <1>2, <1>6, <2>4, RequestsOf
    <3>3. ASSUME alone'[b] PROVE file' = admin'[b].text
      <4>1. file = <<>>
        BY <1>2, <2>1, <3>1, <3>3
      <4>2. admin[b].text \in Seq(PolicyLines)
        BY <1>1, RequestFields
      <4>3. Over(admin[b].text, <<>>) = {admin[b].text}
        <5>1. Len(<<>>) <= Len(admin[b].text)
          BY <4>2
        <5> QED
          BY <5>1 DEF Over
      <4> QED
        BY <2>4, <3>1, <4>1, <4>3 DEF Write
    <3> QED
      BY <3>1, <3>2, <3>3
  <2> QED
    BY <2>2, <2>3, <2>4
<1>7. ASSUME NEW a \in Admins, WriteFails(a)
      PROVE  Worked(b)' /\ Empty(b)' /\ Held(b)'
  <2>1. alone' = [c \in Admins |-> c = a /\ alone[c]]
    BY <1>7 DEF WriteFails, Disturb
  <2>2. CASE b = a
    BY <1>1, <1>7, <2>2, RequestsOf
  <2>3. CASE b # a
    <3>1. ~alone'[b] /\ admin'[b] = admin[b]
      BY <1>1, <1>7, <2>1, <2>3, RequestsOf
    <3> QED
      BY <1>2, <3>1
  <2> QED
    BY <2>2, <2>3
<1>8. ASSUME NEW a \in Admins, Report(a)
      PROVE  Worked(b)' /\ Empty(b)' /\ Held(b)'
  <2>1. file' = file /\ alone' = alone
    BY <1>8 DEF Report
  <2>2. CASE b = a
    BY <1>1, <1>8, <2>2, RequestsOf
  <2>3. CASE b # a
    <3>1. admin'[b] = admin[b]
      BY <1>1, <1>8, <2>3, RequestsOf
    <3> QED
      BY <1>2, <2>1, <3>1
  <2> QED
    BY <2>2, <2>3
<1>9. CASE UNCHANGED vars \/ (\E mode \in Modes : StartWatcher(mode)) \/ EndPass \/ NextPass
  <2>1. file' = file /\ admin' = admin /\ alone' = alone
    BY <1>9 DEF vars, StartWatcher, EndPass, NextPass
  <2> QED
    BY <1>2, <2>1
<1> QED
  BY <1>1, <1>4, <1>5, <1>6, <1>7, <1>8, <1>9 DEF Next

LEMMA InvSave == Spec => [](PolicyInv /\ SaveInv)
<1>1. Init => PolicyInv /\ SaveInv
  BY InitPolicyInv, InitSaveInv
<1>2. PolicyInv /\ SaveInv /\ [Next]_vars => PolicyInv' /\ SaveInv'
  BY NextPolicyInv, NextSaveInv
<1> QED
  BY <1>1, <1>2, PTL DEF Spec

(* What the file says once a form is saved without interference.           *)
LEMMA SavedSettings ==
    ASSUME PolicyInv, SaveInv, NEW a \in Admins, Saved(a), WellFormed(admin[a].read)
    PROVE  /\ WellFormed(file)
           /\ \A n, k : Setting(file, n, k) =
                IF n \in DOMAIN admin[a].form /\ k = Key
                THEN Wanted(admin[a].form[n])
                ELSE Setting(admin[a].read, n, k)
           /\ admin[a].form \in [DOMAIN admin[a].form -> Values] /\ DOMAIN admin[a].form \subseteq Nets
<1> DEFINE form == admin[a].form
           read == admin[a].read
<1>1. /\ form \in Forms /\ read \in Seq(Lines)
      /\ file = SetAll(read, form)
  BY RequestFields, LinesHaveTheirFields DEF SaveInv, Saved
<1>2. form \in [DOMAIN form -> Values] /\ DOMAIN form \subseteq Nets
  BY <1>1, PolicyAssumption
<1>3. IsFiniteSet(DOMAIN form)
  BY <1>2, PolicyAssumption, FS_Subset
<1> HIDE DEF form, read
<1>4. WellFormed(read)
  BY DEF read
<1>5. /\ WellFormed(SetAll(read, form))
      /\ \A m, k : Setting(SetAll(read, form), m, k) =
                    IF m \in DOMAIN form /\ k = Key THEN Wanted(form[m]) ELSE Setting(read, m, k)
  BY <1>1, <1>2, <1>3, <1>4, SetAllSettings
<1> QED
  BY <1>1, <1>2, <1>5 DEF form, read

(* A form of op-channels that is saved while nobody else touches the file, *)
(* into a text that says nothing twice, changes no other key and no other  *)
(* network, and leaves a text that says nothing twice                      *)
(* (server.go:774-785, 811-862).                                           *)
THEOREM FormsKeepTheRest == Spec => []OthersKept
<1>1. PolicyInv /\ SaveInv => OthersKept
  BY SavedSettings, Zenon DEF OthersKept
<1>2. Spec => [](PolicyInv /\ SaveInv)
  BY InvSave
<1> QED
  BY <1>1, <1>2, PTL

(* What is in effect for a network, by what the text sets.                 *)
LEMMA EffectiveIs ==
    ASSUME NEW text, NEW n
    PROVE  /\ OwnSetting(text, n, Key) # "unset"
                => Effective(text, n, Key) = OwnSetting(text, n, Key)
           /\ OwnSetting(text, n, Key) = "unset"
                => Effective(text, n, Key) = Effective(text, "default", Key)
<1> DEFINE said(m) == {l \in {m, "default"} : OwnSetting(text, l, Key) # "unset"}
<1>1. \A m : Effective(text, m, Key) =
              IF said(m) = {} THEN "" ELSE OwnSetting(text, IF m \in said(m) THEN m ELSE "default", Key)
  BY DEF Effective
<1>2. CASE OwnSetting(text, n, Key) # "unset"
  <2>1. n \in said(n)
    BY <1>2
  <2> QED
    BY <1>1, <1>2, <2>1, Zenon
<1>3. CASE OwnSetting(text, n, Key) = "unset"
  <2>1. n \notin said(n) /\ said(n) = said("default")
    BY <1>3
  <2>2. said("default") # {} => "default" \in said("default")
    OBVIOUS
  <2> QED
    BY <1>1, <1>3, <2>1, <2>2, Zenon
<1> QED
  BY <1>2, <1>3

LEMMA WantedIs ==
    ASSUME NEW value \in Values
    PROVE  /\ value = "" => Wanted(value) = "unset"
           /\ value # "" => Wanted(value) = value /\ value # "unset"
BY ValuesAssumption, Zenon DEF Wanted, IsBlank

(* A form that is saved while nobody else touches the file, into a text    *)
(* that says nothing twice, is in effect: for every network of the form    *)
(* the watcher reads what the form says, and no channels where it is left  *)
(* blank, unless the watcher's own configuration or the default section    *)
(* names some (server.go:774-785, 811-862, config.go:51-93).               *)
THEOREM FormsTakeEffect == Spec => []FormInEffect
<1>1. ASSUME PolicyInv, SaveInv, NEW a \in Admins, Saved(a), WellFormed(admin[a].read),
             NEW n \in DOMAIN admin[a].form
      PROVE  \/ Effective(file, n, Key) = admin[a].form[n]
             \/ admin[a].form[n] = "" /\ Fallback(file, n) # ""
  <2> DEFINE value == admin[a].form[n]
  <2>1. Setting(file, n, Key) = Wanted(value) /\ value \in Values
    BY <1>1, SavedSettings, Zenon
  <2>2. OwnSetting(file, n, Key) = IF Wanted(value) = "unset" THEN Own[n] ELSE Wanted(value)
    BY <2>1, Zenon DEF OwnSetting, Key
  <2> HIDE DEF value
  <2>3. CASE value = ""
    <3>1. OwnSetting(file, n, Key) = Own[n]
      BY <2>1, <2>2, <2>3, WantedIs, Zenon
    <3>2. Effective(file, n, Key) = Fallback(file, n)
      BY <3>1, EffectiveIs, Zenon DEF Fallback
    <3> QED
      BY <2>3, <3>2, Zenon DEF value
  <2>4. CASE value # ""
    <3>1. OwnSetting(file, n, Key) = value /\ value # "unset"
      BY <2>1, <2>2, <2>4, WantedIs, Zenon
    <3>2. Effective(file, n, Key) = value
      BY <3>1, EffectiveIs, Zenon
    <3> QED
      BY <2>4, <3>2, Zenon DEF value
  <2> QED
    BY <2>3, <2>4
<1>2. PolicyInv /\ SaveInv => FormInEffect
  BY <1>1, Zenon DEF FormInEffect
<1>3. Spec => [](PolicyInv /\ SaveInv)
  BY InvSave
<1> QED
  BY <1>2, <1>3, PTL

-----------------------------------------------------------------------------
(* The table of op-channels, saved as the page shows it.                   *)

(* No line of a text sets op-channels to nothing.                          *)
NoBlank(text) == \A i \in 1..Len(text) : ~(IsKey(text[i], Key) /\ IsBlank(text[i].value))

(* The last line of the key in the section whose header is at start.       *)
KeyLines(text, start) == {i \in start + 1..EndOf(text, start) - 1 : IsKey(text[i], Key)}

LastKey(text, start) == IF KeyLines(text, start) # {} THEN Max(KeyLines(text, start)) ELSE 0

LEMMA LastKeyIs ==
    ASSUME NEW text \in Seq(Lines), NEW start \in 0..Len(text)
    PROVE  /\ KeyLines(text, start) \subseteq 1..Len(text)
           /\ LastKey(text, start) = 0 <=> KeyLines(text, start) = {}
           /\ LastKey(text, start) # 0 =>
                /\ LastKey(text, start) \in KeyLines(text, start)
                /\ \A i \in KeyLines(text, start) : i <= LastKey(text, start)
<1>1. EndOf(text, start) \in start + 1..Len(text) + 1 /\ Len(text) \in Nat
  BY EndIs
<1>2. KeyLines(text, start) \subseteq 1..Len(text)
  BY <1>1 DEF KeyLines
<1>3. CASE KeyLines(text, start) = {}
  BY <1>2, <1>3 DEF LastKey
<1>4. CASE KeyLines(text, start) # {}
  <2> DEFINE I == KeyLines(text, start)
  <2>1. I \in SUBSET (1..Len(text)) /\ I # {}
    BY <1>2, <1>4
  <2> HIDE DEF I
  <2>2. Max(I) \in I /\ \A i \in I : Max(I) >= i
    BY <1>1, <2>1, GreatestIsMax
  <2>3. Max(I) \in 1..Len(text) /\ \A i \in I : i \in 1..Len(text)
    BY <2>1, <2>2
  <2>4. Max(I) # 0 /\ \A i \in I : i <= Max(I)
    BY <1>1, <2>2, <2>3
  <2>5. LastKey(text, start) = Max(I)
    BY <1>4 DEF LastKey, I
  <2> QED
    BY <1>2, <1>4, <2>2, <2>4, <2>5 DEF I
<1> QED
  BY <1>3, <1>4

(* The row the page shows is the value of that line.                       *)
LEMMA RowIs ==
    ASSUME NEW text \in Seq(Lines), NEW n
    PROVE  RowOf(text, n) =
              IF StartOf(text, n) = 0 \/ LastKey(text, StartOf(text, n)) = 0 THEN ""
              ELSE text[LastKey(text, StartOf(text, n))].value
BY Zenon DEF RowOf, FirstOf, LastKey, KeyLines, SelectLastInSubSeq

LEMMA KeyLineIs ==
    ASSUME NEW line \in Lines, IsKey(line, Key)
    PROVE  line.value \in Values /\ line = KeyLine(Key, line.value)
<1>1. \A m \in Sections : Header(m).is # "key"
  BY DEF Header
<1>2. Note.is # "key" /\ Junk.is # "key"
  BY DEF Note, Junk
<1>3. \E k \in Keys, v \in Values : line = KeyLine(k, v)
  BY <1>1, <1>2 DEF Lines, IsKey
<1>4. PICK k \in Keys : \E v \in Values : line = KeyLine(k, v)
  BY <1>3
<1>5. PICK v \in Values : line = KeyLine(k, v)
  BY <1>4
<1>6. line.name = k /\ line.value = v
  BY <1>5 DEF KeyLine
<1>7. k = Key
  BY <1>6 DEF IsKey
<1> QED
  BY <1>5, <1>6, <1>7

(* A line that sets the key has given way to another one: the headers and  *)
(* the places of the keys are what they were.                              *)
SamePlaces(old, new, at, line) ==
    /\ new \in Seq(Lines) /\ Len(new) = Len(old)
    /\ \A i \in 1..Len(old) : new[i] = IF i = at THEN line ELSE old[i]
    /\ \A i \in 1..Len(old) : \A k : IsKey(new[i], k) <=> IsKey(old[i], k)
    /\ \A i \in 1..Len(old) : \A n : InSection(new, i, n) <=> InSection(old, i, n)
    /\ \A n : StartOf(new, n) = StartOf(old, n)
    /\ \A start \in 0..Len(old) : KeyLines(new, start) = KeyLines(old, start)

LEMMA PlacesKept ==
    ASSUME NEW old \in Seq(Lines), NEW at \in 1..Len(old), IsKey(old[at], Key),
           NEW line \in Lines, IsKey(line, Key)
    PROVE  SamePlaces(old, ReplaceAt(old, at, line), at, line)
<1> DEFINE new == ReplaceAt(old, at, line)
<1>1. new \in Seq(Lines) /\ Len(new) = Len(old) /\ Len(old) \in Nat
  BY DEF ReplaceAt
<1>2. \A i \in 1..Len(old) : new[i] = IF i = at THEN line ELSE old[i]
  BY DEF ReplaceAt
<1> HIDE DEF new
<1>3. \A i \in 1..Len(old) : \A k : IsKey(new[i], k) <=> IsKey(old[i], k)
  BY <1>2 DEF IsKey
<1>4. \A i \in 1..Len(old) : new[i].is = "header" <=> old[i].is = "header"
  BY <1>2 DEF IsKey
<1>5. \A i \in 1..Len(old) : old[i].is = "header" => new[i] = old[i]
  BY <1>2 DEF IsKey
<1>6. \A n : Header(n).is = "header"
  BY DEF Header
<1>7. ASSUME NEW i \in 1..Len(old), NEW n PROVE InSection(new, i, n) <=> InSection(old, i, n)
  <2> DEFINE h == HeaderOf(old, i)
  <2>1. i \in 0..Len(old)
    BY <1>1
  <2>2. IsHeaderOf(old, i, h)
    BY <2>1, HeaderIs
  <2> HIDE DEF h
  <2>3. h \in 0..i /\ (h # 0 => old[h].is = "header") /\ \A j \in h + 1..i : old[j].is # "header"
    BY <2>2 DEF IsHeaderOf
  <2>4. h # 0 => h \in 1..Len(old)
    BY <1>1, <2>3
  <2>5. \A j \in h + 1..i : j \in 1..Len(old)
    BY <1>1, <2>3
  <2>6. IsHeaderOf(new, i, h)
    BY <1>4, <2>3, <2>4, <2>5 DEF IsHeaderOf
  <2>7. HeaderOf(new, i) = h
    BY <1>1, <2>1, <2>6, HeaderIs
  <2>8. h # 0 => new[h] = old[h]
    BY <1>5, <2>3, <2>4
  <2> QED
    BY <2>7, <2>8 DEF InSection, h
<1>8. ASSUME NEW n PROVE StartOf(new, n) = StartOf(old, n)
  <2>1. \A i \in 1..Len(old) : new[i] = Header(n) <=> old[i] = Header(n)
    BY <1>4, <1>5, <1>6
  <2>2. {i \in 1..Len(new) : new[i] = Header(n)} = {i \in 1..Len(old) : old[i] = Header(n)}
    BY <1>1, <2>1
  <2> QED
    BY <2>2 DEF StartOf, SelectInSeq
<1>9. ASSUME NEW start \in 0..Len(old) PROVE KeyLines(new, start) = KeyLines(old, start)
  <2> DEFINE Headers(text) == {i \in start + 1..Len(text) : text[i].is = "header"}
             NextIn(text) == IF Headers(text) # {} THEN Min(Headers(text)) ELSE 0
  <2>1. Headers(new) = Headers(old)
    BY <1>1, <1>4
  <2>2. EndOf(new, start) = EndOf(old, start)
    <3>1. \A text : EndOf(text, start) = IF NextIn(text) = 0 THEN Len(text) + 1 ELSE NextIn(text)
      BY DEF EndOf, SelectInSubSeq
    <3> HIDE DEF Headers
    <3>2. NextIn(new) = NextIn(old)
      BY <2>1
    <3> HIDE DEF NextIn
    <3> QED
      BY <1>1, <3>1, <3>2
  <2>3. EndOf(old, start) \in start + 1..Len(old) + 1
    BY EndIs
  <2>4. \A i \in start + 1..EndOf(old, start) - 1 : i \in 1..Len(old)
    BY <1>1, <2>3
  <2> QED
    BY <1>3, <2>2, <2>4 DEF KeyLines
<1> QED
  BY <1>1, <1>2, <1>3, <1>7, <1>8, <1>9 DEF new, SamePlaces

(* A section's row, saved, leaves every row and every setting alone: what  *)
(* changes is a line that another one of its section overrules.            *)
LEMMA RowResaved ==
    ASSUME NEW old \in Seq(Lines), NoBlank(old), NEW n \in Sections
    PROVE  LET new == SetKey(old, n, RowOf(old, n))
           IN  /\ new \in Seq(Lines) /\ NoBlank(new)
               /\ \A m : RowOf(new, m) = RowOf(old, m)
               /\ \A m, k : Setting(new, m, k) = Setting(old, m, k)
<1> DEFINE start == StartOf(old, n)
           at == KeyAt(old, start)
           end == EndOf(old, start)
           lst == LastKey(old, start)
           value == RowOf(old, n)
           new == SetKey(old, n, value)
<1>1. SUFFICES ASSUME new # old
               PROVE  /\ new \in Seq(Lines) /\ NoBlank(new)
                      /\ \A m : RowOf(new, m) = RowOf(old, m)
                      /\ \A m, k : Setting(new, m, k) = Setting(old, m, k)
  OBVIOUS
<1>2. /\ start = 0 /\ IsBlank(value) => new = old
      /\ start # 0 /\ IsBlank(value) /\ at = 0 => new = old
      /\ start # 0 /\ ~IsBlank(value) /\ at # 0 => new = ReplaceAt(old, at, KeyLine(Key, value))
  BY Zenon DEF SetKey, IsBlank
<1>3. /\ start = 0 \/ lst = 0 => IsBlank(value)
      /\ start # 0 /\ lst # 0 => value = old[lst].value
  BY RowIs, Zenon DEF IsBlank
<1>4. start \in 0..Len(old) /\ Len(old) \in Nat
  BY StartIs
<1> HIDE DEF start, value, new
<1>5. /\ end \in start + 1..Len(old) + 1
      /\ end # Len(old) + 1 => old[end].is = "header"
      /\ \A i \in start + 1..end - 1 : old[i].is # "header"
  BY <1>4, EndIs
<1>6. /\ at # 0 => at \in KeyLines(old, start)
      /\ at = 0 => KeyLines(old, start) = {}
  BY <1>4, KeyIs DEF KeyLines
<1>7. /\ KeyLines(old, start) \subseteq 1..Len(old)
      /\ lst = 0 <=> KeyLines(old, start) = {}
      /\ lst # 0 => lst \in KeyLines(old, start) /\ \A i \in KeyLines(old, start) : i <= lst
  BY <1>4, LastKeyIs
<1> HIDE DEF at, lst
<1>8. start # 0 /\ at # 0 /\ lst # 0
  BY <1>1, <1>2, <1>3, <1>6, <1>7
<1>9. /\ at \in 1..Len(old) /\ lst \in 1..Len(old) /\ at <= lst
      /\ IsKey(old[at], Key) /\ IsKey(old[lst], Key)
      /\ at \in start + 1..end - 1 /\ lst \in start + 1..end - 1
  BY <1>6, <1>7, <1>8 DEF KeyLines
<1>10. old[lst] \in Lines /\ old[lst] = KeyLine(Key, value)
  BY <1>3, <1>8, <1>9, KeyLineIs
<1>11. new = ReplaceAt(old, at, old[lst])
  <2>1. ~IsBlank(value)
    BY <1>3, <1>8, <1>9 DEF NoBlank
  <2> QED
    BY <1>2, <1>8, <1>10, <2>1
<1>12. /\ new \in Seq(Lines) /\ Len(new) = Len(old)
       /\ \A i \in 1..Len(old) : new[i] = IF i = at THEN old[lst] ELSE old[i]
       /\ \A i \in 1..Len(old) : \A k : IsKey(new[i], k) <=> IsKey(old[i], k)
       /\ \A i \in 1..Len(old) : \A m : InSection(new, i, m) <=> InSection(old, i, m)
       /\ \A m : StartOf(new, m) = StartOf(old, m)
       /\ \A s \in 0..Len(old) : KeyLines(new, s) = KeyLines(old, s)
  <2>1. SamePlaces(old, ReplaceAt(old, at, old[lst]), at, old[lst])
    BY <1>9, <1>10, PlacesKept
  <2>2. SamePlaces(old, new, at, old[lst])
    BY <1>11, <2>1
  <2> QED
    BY <2>2 DEF SamePlaces
<1>13. at < lst
  <2>1. at = lst => \A i \in 1..Len(old) : new[i] = old[i]
    BY <1>12
  <2>2. at = lst => new = old
    BY <1>12, <2>1
  <2> QED
    BY <1>1, <1>9, <2>2
<1>14. \A i \in at + 1..lst : i \in start + 1..end - 1 /\ old[i].is # "header"
  BY <1>4, <1>5, <1>9
<1> HIDE DEF end
<1>15. NoBlank(new)
  BY <1>9, <1>12 DEF NoBlank
<1>16. ASSUME NEW m PROVE RowOf(new, m) = RowOf(old, m)
  <2> DEFINE s == StartOf(old, m)
             e == EndOf(old, s)
             l == LastKey(old, s)
  <2>1. s \in 0..Len(old)
    BY StartIs
  <2>2. StartOf(new, m) = s /\ LastKey(new, s) = l
    BY <1>12, <2>1, Zenon DEF LastKey
  <2> HIDE DEF s
  <2>3. /\ e \in s + 1..Len(old) + 1
        /\ e # Len(old) + 1 => old[e].is = "header"
    BY <2>1, EndIs
  <2>4. /\ KeyLines(old, s) \subseteq 1..Len(old)
        /\ l # 0 => l \in KeyLines(old, s) /\ \A i \in KeyLines(old, s) : i <= l
    BY <2>1, LastKeyIs
  <2> HIDE DEF l
  <2>5. ASSUME l # 0 PROVE l # at
    <3>1. SUFFICES ASSUME l = at PROVE FALSE
      OBVIOUS
    <3>2. at \in s + 1..e - 1
      BY <2>4, <2>5, <3>1 DEF KeyLines
    <3> HIDE DEF e
    <3>3. ~(e <= lst)
      BY <1>4, <1>9, <1>14, <2>1, <2>3, <3>2
    <3>4. lst \in s + 1..e - 1
      BY <1>9, <1>13, <2>1, <2>3, <3>2, <3>3
    <3>5. lst \in KeyLines(old, s)
      BY <1>9, <3>4 DEF KeyLines, e
    <3> QED
      BY <1>9, <1>13, <2>4, <2>5, <3>1, <3>5
  <2>6. l # 0 => new[l] = old[l]
    BY <1>12, <2>4, <2>5
  <2>7. RowOf(new, m) = IF s = 0 \/ l = 0 THEN "" ELSE new[l].value
    BY <1>12, <2>2, RowIs, Zenon
  <2>8. RowOf(old, m) = IF s = 0 \/ l = 0 THEN "" ELSE old[l].value
    BY RowIs, Zenon DEF s, l
  <2>9. CASE s = 0 \/ l = 0
    BY <2>7, <2>8, <2>9, Zenon
  <2>10. CASE ~(s = 0 \/ l = 0)
    BY <2>6, <2>7, <2>8, <2>10, Zenon
  <2> QED
    BY <2>9, <2>10
<1>17. ASSUME NEW m, NEW k PROVE Setting(new, m, k) = Setting(old, m, k)
  <2> DEFINE I(text) == {i \in DOMAIN text : IsKey(text[i], k) /\ InSection(text, i, m)}
  <2>1. \A text : Setting(text, m, k) = IF I(text) = {} THEN "unset" ELSE text[Max(I(text))].value
    BY DEF Setting
  <2>2. I(new) = I(old)
    <3>1. DOMAIN new = 1..Len(old) /\ DOMAIN old = 1..Len(old)
      BY <1>12
    <3>2. /\ \A i \in 1..Len(old) : IsKey(new[i], k) <=> IsKey(old[i], k)
          /\ \A i \in 1..Len(old) : InSection(new, i, m) <=> InSection(old, i, m)
      BY <1>12
    <3>3. \A i : i \in I(new) <=> i \in I(old)
      BY <3>1, <3>2
    <3> HIDE DEF I
    <3> QED
      BY <3>3
  <2>3. I(old) \in SUBSET (1..Len(old))
    OBVIOUS
  <2>4. at \in I(old) => lst \in I(old)
    <3>1. ASSUME at \in I(old) PROVE InSection(old, lst, m) /\ k = Key
      <4> DEFINE h == HeaderOf(old, at)
      <4>1. at \in 0..Len(old) /\ lst \in 0..Len(old)
        BY <1>4, <1>9
      <4>2. IsHeaderOf(old, at, h)
        BY <4>1, HeaderIs
      <4> HIDE DEF h
      <4>3. h \in 0..at /\ (h # 0 => old[h].is = "header") /\ \A j \in h + 1..at : old[j].is # "header"
        BY <4>2 DEF IsHeaderOf
      <4>4. \A j \in h + 1..lst : old[j].is # "header"
        <5> TAKE j \in h + 1..lst
        <5>1. j \in h + 1..at \/ j \in at + 1..lst
          BY <1>9, <4>3
        <5> QED
          BY <1>14, <4>3, <5>1
      <4>5. IsHeaderOf(old, lst, h)
        BY <1>9, <4>3, <4>4 DEF IsHeaderOf
      <4>6. HeaderOf(old, lst) = h
        BY <4>1, <4>5, HeaderIs
      <4>7. InSection(old, at, m) /\ IsKey(old[at], k)
        BY <3>1
      <4> QED
        BY <1>9, <4>6, <4>7 DEF InSection, IsKey, h
    <3> QED
      BY <1>9, <3>1
  <2> HIDE DEF I
  <2>5. CASE I(old) = {}
    BY <2>1, <2>2, <2>5
  <2>6. CASE I(old) # {}
    <3>1. Max(I(old)) \in I(old) /\ \A i \in I(old) : Max(I(old)) >= i
      BY <1>4, <2>3, <2>6, GreatestIsMax
    <3>2. Max(I(old)) # at
      BY <1>9, <1>13, <2>4, <3>1
    <3>3. Max(I(old)) \in 1..Len(old)
      BY <2>3, <3>1
    <3>4. new[Max(I(old))] = old[Max(I(old))]
      BY <1>12, <3>2, <3>3
    <3> QED
      BY <2>1, <2>2, <2>6, <3>4
  <2> QED
    BY <2>5, <2>6
<1> QED
  BY <1>12, <1>15, <1>16, <1>17

(* The whole table, one network after the other.                           *)
LEMMA TableResaved ==
    ASSUME NEW text \in Seq(Lines), NoBlank(text), NEW m, NEW k
    PROVE  Setting(SetAll(text, OpRows(text, Nets)), m, k) = Setting(text, m, k)
<1> DEFINE form == OpRows(text, Nets)
<1>1. DOMAIN form = Nets /\ \A n \in Nets : form[n] = RowOf(text, n)
  BY DEF OpRows
<1>2. IsFiniteSet(DOMAIN form)
  BY <1>1, PolicyAssumption
<1> HIDE DEF form
<1>3. PICK nets, after : InSteps(text, form, nets, after)
  BY <1>2, SetAllInSteps, Zenon
<1>4. /\ nets \in Seq(Nets) /\ Len(nets) \in Nat
      /\ after[0] = text
      /\ \A i \in 1..Len(nets) : after[i] = SetKey(after[i - 1], nets[i], form[nets[i]])
      /\ SetAll(text, form) = after[Len(nets)]
  BY <1>1, <1>3 DEF InSteps
<1> DEFINE Same(u) == /\ \A n : RowOf(u, n) = RowOf(text, n)
                      /\ \A n, l : Setting(u, n, l) = Setting(text, n, l)
           T == {i \in 0..Len(nets) : after[i] \in Seq(Lines) /\ NoBlank(after[i]) /\ Same(after[i])}
<1>5. 0 \in T
  BY <1>4
<1>6. ASSUME NEW i \in 0..Len(nets), i # 0, i - 1 \in T PROVE i \in T
  <2> DEFINE n == nets[i]
             old == after[i - 1]
  <2>1. i \in 1..Len(nets) /\ n \in Nets /\ n \in Sections
    BY <1>4, <1>6 DEF Sections
  <2>2. old \in Seq(Lines) /\ NoBlank(old) /\ Same(old)
    BY <1>6
  <2>3. after[i] = SetKey(old, n, RowOf(old, n))
    BY <1>1, <1>4, <2>1, <2>2
  <2> HIDE DEF n, old
  <2>4. /\ after[i] \in Seq(Lines) /\ NoBlank(after[i])
        /\ \A x : RowOf(after[i], x) = RowOf(old, x)
        /\ \A x, l : Setting(after[i], x, l) = Setting(old, x, l)
    <3> HIDE DEF Same
    <3> QED
      BY <2>1, <2>2, <2>3, RowResaved
  <2>5. Same(after[i])
    BY <2>2, <2>4
  <2> HIDE DEF Same
  <2> QED
    BY <2>4, <2>5
<1> HIDE DEF T
<1>7. 0..Len(nets) \subseteq T
  BY <1>4, <1>5, <1>6, UpTo
<1>8. Len(nets) \in T
  BY <1>4, <1>7
<1>9. Same(after[Len(nets)])
  BY <1>8 DEF T
<1> QED
  BY <1>4, <1>9 DEF form

(* The table of op-channels, saved as the page shows it, changes nothing   *)
(* that is in effect, whatever the file says twice or in pieces, unless a  *)
(* line sets op-channels to nothing (server.go:664-686, 774-785, 811-862,  *)
(* config.go:42-93).                                                       *)
THEOREM TableMayBeResaved == Spec => []ResaveHarmless
<1>1. ASSUME NEW text \in Seq(Lines), KeyLine(Key, "") \notin Range(text) PROVE NoBlank(text)
  <2>1. SUFFICES ASSUME NEW i \in 1..Len(text), IsKey(text[i], Key), IsBlank(text[i].value)
                 PROVE  FALSE
    BY Zenon DEF NoBlank
  <2>2. text[i] \in Lines /\ i \in DOMAIN text
    OBVIOUS
  <2>3. text[i] = KeyLine(Key, text[i].value)
    BY <2>1, <2>2, KeyLineIs
  <2>4. text[i] = KeyLine(Key, "")
    BY <2>1, <2>3, Zenon DEF IsBlank
  <2>5. text[i] \in Range(text)
    BY <2>2, Zenon DEF Range
  <2> QED
    BY <1>1, <2>4, <2>5, Zenon
<1>2. ASSUME NEW s, NEW t, \A m, l : Setting(s, m, l) = Setting(t, m, l), NEW n, NEW k
      PROVE  Effective(s, n, k) = Effective(t, n, k)
  <2>1. \A m, l : OwnSetting(s, m, l) = OwnSetting(t, m, l)
    BY <1>2, Zenon DEF OwnSetting
  <2>2. {m \in {n, "default"} : OwnSetting(s, m, k) # "unset"}
          = {m \in {n, "default"} : OwnSetting(t, m, k) # "unset"}
    BY <2>1
  <2> QED
    BY <2>1, <2>2, Zenon DEF Effective
<1>3. ASSUME PolicyInv, KeyLine(Key, "") \notin Range(file), NEW n, NEW k
      PROVE  Effective(SetAll(file, OpRows(file, Nets)), n, k) = Effective(file, n, k)
  <2>1. file \in Seq(Lines)
    <3>1. PolicyInv
      BY <1>3, Zenon
    <3> QED
      BY <3>1, LinesHaveTheirFields DEF PolicyInv
  <2>2. NoBlank(file)
    BY <1>1, <1>3, <2>1, Zenon
  <2>3. \A m, l : Setting(SetAll(file, OpRows(file, Nets)), m, l) = Setting(file, m, l)
    BY <2>1, <2>2, TableResaved
  <2> QED
    BY <1>2, <2>3
<1>4. PolicyInv => ResaveHarmless
  BY <1>3, Zenon DEF ResaveHarmless
<1>5. Spec => []PolicyInv
  BY InvPolicy
<1> QED
  BY <1>4, <1>5, PTL
=============================================================================
