---------------------------- MODULE ClientProofs ----------------------------
(***************************************************************************)
(* What holds of Client for any number of callers and calls, any capacity  *)
(* of the channel, and whatever soju sends unasked.                        *)
(***************************************************************************)
EXTENDS Client, FiniteSets, FiniteSetTheorems, TLAPS

(* The messages of a stream.                                               *)
Elems(q) == {q[j] : j \in 1..Len(q)}

(* How often one of them is there.                                         *)
At(q, x) == {j \in 1..Len(q) : q[j] = x}
Count(q, x) == Cardinality(At(q, x))

-----------------------------------------------------------------------------
(* Facts about streams.                                                    *)

LEMMA AppendElems ==
  ASSUME NEW M, NEW q \in Seq(M), NEW m \in M
  PROVE  /\ Append(q, m) \in Seq(M)
         /\ Elems(Append(q, m)) = Elems(q) \cup {m}
  BY DEF Elems

LEMMA HeadElems ==
  ASSUME NEW M, NEW q \in Seq(M), q # <<>>
  PROVE  /\ Len(q) \in Nat \ {0}
         /\ Head(q) = q[1] /\ Head(q) \in M /\ Head(q) \in Elems(q)
         /\ Tail(q) \in Seq(M) /\ Len(Tail(q)) = Len(q) - 1
         /\ \A j \in 1..Len(q) - 1 : Tail(q)[j] = q[j + 1]
         /\ Elems(Tail(q)) \subseteq Elems(q)
  BY DEF Elems

LEMMA HeadTailElems ==
  ASSUME NEW M, NEW q \in Seq(M), q # <<>>
  PROVE  Elems(q) = Elems(Tail(q)) \cup {Head(q)}
  <1>1. ASSUME NEW j \in 1..Len(q), j # 1
        PROVE  q[j] \in Elems(Tail(q))
    <2>1. j - 1 \in 1..Len(Tail(q)) /\ (j - 1) + 1 = j
      BY <1>1, HeadElems
    <2>2. Tail(q)[j - 1] = q[j]
      BY <2>1, HeadElems
    <2> QED
      BY <2>1, <2>2 DEF Elems
  <1>2. Elems(q) \subseteq Elems(Tail(q)) \cup {Head(q)}
    BY <1>1, HeadElems DEF Elems
  <1>3. Elems(Tail(q)) \cup {Head(q)} \subseteq Elems(q)
    BY HeadElems
  <1> QED
    BY <1>2, <1>3

LEMMA PrefixElems ==
  ASSUME NEW M, NEW q \in Seq(M), NEW n \in 0..Len(q)
  PROVE  /\ SubSeq(q, 1, n) \in Seq(M)
         /\ Len(SubSeq(q, 1, n)) = n
         /\ \A j \in 1..n : SubSeq(q, 1, n)[j] = q[j]
         /\ Elems(SubSeq(q, 1, n)) \subseteq Elems(q)
  <1>1. /\ SubSeq(q, 1, n) \in Seq(M)
        /\ Len(SubSeq(q, 1, n)) = n
    OBVIOUS
  <1>2. \A j \in 1..n : SubSeq(q, 1, n)[j] = q[j]
    OBVIOUS
  <1> QED
    BY <1>1, <1>2 DEF Elems

LEMMA AtFinite ==
  ASSUME NEW M, NEW q \in Seq(M), NEW x
  PROVE  IsFiniteSet(At(q, x)) /\ Count(q, x) \in Nat
  <1>1. IsFiniteSet(1..Len(q))
    <2>1. Len(q) \in Int
      OBVIOUS
    <2> QED
      BY <2>1, FS_Interval
  <1>2. At(q, x) \subseteq 1..Len(q)
    BY DEF At
  <1>3. IsFiniteSet(At(q, x))
    BY <1>1, <1>2, FS_Subset
  <1> QED
    BY <1>3, FS_CardinalityType DEF Count

LEMMA AppendCount ==
  ASSUME NEW M, NEW q \in Seq(M), NEW m \in M, NEW x
  PROVE  Count(Append(q, m), x) = IF m = x THEN Count(q, x) + 1 ELSE Count(q, x)
  <1>1. CASE m = x
    <2>1. At(Append(q, m), x) = At(q, x) \cup {Len(q) + 1}
      BY <1>1 DEF At
    <2>2. Len(q) + 1 \notin At(q, x)
      BY DEF At
    <2>3. IsFiniteSet(At(q, x))
      BY AtFinite
    <2>4. Cardinality(At(q, x) \cup {Len(q) + 1}) = Cardinality(At(q, x)) + 1
      BY <2>2, <2>3, FS_AddElement
    <2> QED
      BY <1>1, <2>1, <2>4 DEF Count
  <1>2. CASE m # x
    <2>1. At(Append(q, m), x) = At(q, x)
      BY <1>2 DEF At
    <2> QED
      BY <1>2, <2>1 DEF Count
  <1> QED
    BY <1>1, <1>2

(* soju answers with one message or two.                                   *)
LEMMA ConcatAppend ==
  ASSUME NEW M, NEW q \in Seq(M), NEW x \in M, NEW y \in M
  PROVE  /\ q \o <<x>> = Append(q, x)
         /\ q \o <<x, y>> = Append(Append(q, x), y)
  OBVIOUS

(* Shifted by n places, as when n messages are taken off the head.         *)
LEMMA ShiftCardinality ==
  ASSUME NEW n \in Nat, NEW S \in SUBSET Nat, IsFiniteSet(S), NEW T,
         T = {j + n : j \in S}
  PROVE  Cardinality(T) = Cardinality(S) /\ IsFiniteSet(T)
  <1> DEFINE f == [j \in S |-> j + n]
  <1>1. f \in [S -> T]
    OBVIOUS
  <1>2. \A x, y \in S : f[x] = f[y] => x = y
    OBVIOUS
  <1>3. \A y \in T : \E x \in S : f[x] = y
    OBVIOUS
  <1>4. f \in Bijection(S, T)
    BY <1>1, <1>2, <1>3 DEF Bijection, Injection, Surjection, IsInjective
  <1>5. ExistsBijection(S, T)
    BY <1>4 DEF ExistsBijection
  <1> QED
    BY <1>5, FS_Bijection

LEMMA TailCount ==
  ASSUME NEW M, NEW q \in Seq(M), q # <<>>, NEW x
  PROVE  Count(q, x) = IF Head(q) = x THEN Count(Tail(q), x) + 1 ELSE Count(Tail(q), x)
  <1> DEFINE rest == At(q, x) \ {1}
  <1>1. rest = {j + 1 : j \in At(Tail(q), x)}
    <2>1. ASSUME NEW k \in rest PROVE k - 1 \in At(Tail(q), x)
      BY HeadElems DEF At
    <2>2. ASSUME NEW j \in At(Tail(q), x) PROVE j + 1 \in rest
      BY HeadElems DEF At
    <2>3. \A k \in rest : k \in Int
      BY DEF At
    <2> HIDE DEF rest
    <2>4. \A k \in rest : k = (k - 1) + 1
      BY <2>3
    <2> QED
      BY <2>1, <2>2, <2>4
  <1>2. Tail(q) \in Seq(M)
    BY HeadElems
  <1>3. IsFiniteSet(At(Tail(q), x)) /\ IsFiniteSet(At(q, x))
    BY <1>2, AtFinite
  <1>4. At(Tail(q), x) \subseteq Nat
    BY DEF At
  <1>5. Cardinality(rest) = Count(Tail(q), x) /\ IsFiniteSet(rest)
    <2> DEFINE S == At(Tail(q), x)
    <2>1. S \in SUBSET Nat /\ IsFiniteSet(S) /\ 1 \in Nat /\ rest = {j + 1 : j \in S}
      BY <1>1, <1>3, <1>4
    <2>2. Count(Tail(q), x) = Cardinality(S)
      BY DEF Count
    <2> HIDE DEF rest, S
    <2> QED
      BY <2>1, <2>2, ShiftCardinality
  <1>6. CASE Head(q) = x
    <2>1. 1 \in At(q, x)
      BY <1>6, HeadElems DEF At
    <2>2. Cardinality(rest) = Cardinality(At(q, x)) - 1
      BY <1>3, <2>1, FS_RemoveElement
    <2>3. Count(q, x) \in Nat
      BY AtFinite
    <2> QED
      BY <1>5, <1>6, <2>2, <2>3 DEF Count
  <1>7. CASE Head(q) # x
    <2>1. 1 \notin At(q, x)
      BY <1>7, HeadElems DEF At
    <2>2. rest = At(q, x)
      BY <2>1
    <2> QED
      BY <1>5, <1>7, <2>2 DEF Count
  <1> QED
    BY <1>6, <1>7

LEMMA PrefixCount ==
  ASSUME NEW M, NEW q \in Seq(M), NEW n \in 0..Len(q), NEW x
  PROVE  Count(SubSeq(q, 1, n), x) <= Count(q, x)
  <1>1. At(SubSeq(q, 1, n), x) \subseteq At(q, x)
    BY PrefixElems DEF At
  <1>2. IsFiniteSet(At(q, x))
    BY AtFinite
  <1> QED
    BY <1>1, <1>2, FS_Subset DEF Count

LEMMA EmptyStream ==
  ASSUME NEW x
  PROVE  Elems(<<>>) = {} /\ Count(<<>>, x) = 0
  <1>1. At(<<>>, x) = {}
    BY DEF At
  <1> QED
    BY <1>1, FS_EmptySet DEF Elems, Count

LEMMA AbsentCount ==
  ASSUME NEW M, NEW q \in Seq(M), NEW x, x \notin Elems(q)
  PROVE  Count(q, x) = 0
  <1>1. At(q, x) = {}
    BY DEF At, Elems
  <1> QED
    BY <1>1, FS_EmptySet DEF Count

(* What is there once has one place.                                       *)
LEMMA OncePlace ==
  ASSUME NEW M, NEW q \in Seq(M), NEW x, Count(q, x) <= 1,
         NEW j \in 1..Len(q), NEW k \in 1..Len(q), q[j] = x, q[k] = x
  PROVE  j = k
  <1> SUFFICES ASSUME j # k
               PROVE  FALSE
    OBVIOUS
  <1>1. {j, k} \subseteq At(q, x) /\ IsFiniteSet(At(q, x))
    BY AtFinite DEF At
  <1>2. IsFiniteSet({j}) /\ Cardinality({j}) = 1
    BY FS_Singleton
  <1>3. Cardinality({j} \cup {k}) = 2
    <2>1. k \notin {j}
      OBVIOUS
    <2>2. Cardinality({j} \cup {k}) = Cardinality({j}) + 1
      BY <1>2, <2>1, FS_AddElement
    <2> QED
      BY <1>2, <2>2
  <1>4. {j} \cup {k} = {j, k}
    OBVIOUS
  <1>5. Cardinality({j, k}) <= Cardinality(At(q, x))
    BY <1>1, FS_Subset
  <1>6. Cardinality({j, k}) = 2
    BY <1>3, <1>4
  <1>7. Cardinality(At(q, x)) \in Nat /\ Cardinality(At(q, x)) <= 1
    BY AtFinite DEF Count
  <1> QED
    BY <1>5, <1>6, <1>7

(* x is in q only behind y, unless y is among those taken from its head.   *)
Behind(q, x, y, taken) ==
    \A j \in 1..Len(q) : q[j] = x => y \in taken \/ \E k \in 1..j - 1 : q[k] = y

LEMMA BehindAppend ==
  ASSUME NEW M, NEW q \in Seq(M), NEW m \in M, NEW x, NEW y, NEW taken,
         Behind(q, x, y, taken), m = x => y \in taken \cup Elems(q)
  PROVE  Behind(Append(q, m), x, y, taken)
  BY DEF Behind, Elems

LEMMA BehindTail ==
  ASSUME NEW M, NEW q \in Seq(M), q # <<>>, NEW x, NEW y, NEW taken,
         Behind(q, x, y, taken)
  PROVE  /\ Behind(Tail(q), x, y, taken \cup {Head(q)})
         /\ Head(q) = x => y \in taken
  <1>1. /\ Len(q) \in Nat \ {0} /\ Head(q) = q[1] /\ Len(Tail(q)) = Len(q) - 1
        /\ \A j \in 1..Len(q) - 1 : Tail(q)[j] = q[j + 1]
    BY HeadElems
  <1>2. ASSUME NEW j \in 1..Len(Tail(q)), Tail(q)[j] = x
        PROVE  y \in taken \cup {Head(q)} \/ \E k \in 1..j - 1 : Tail(q)[k] = y
    <2>1. j + 1 \in 1..Len(q) /\ q[j + 1] = x
      BY <1>1, <1>2
    <2>2. y \in taken \/ \E k \in 1..j : q[k] = y
      BY <2>1 DEF Behind
    <2>3. ASSUME NEW k \in 1..j, q[k] = y, k # 1
          PROVE  k - 1 \in 1..j - 1 /\ Tail(q)[k - 1] = y
      BY <1>1, <2>3
    <2> QED
      BY <1>1, <2>2, <2>3
  <1>3. Head(q) = x => y \in taken
    BY <1>1 DEF Behind
  <1> QED
    BY <1>2, <1>3 DEF Behind

LEMMA BehindPrefix ==
  ASSUME NEW M, NEW q \in Seq(M), NEW n \in 0..Len(q), NEW x, NEW y, NEW taken,
         Behind(q, x, y, taken)
  PROVE  Behind(SubSeq(q, 1, n), x, y, taken)
  BY PrefixElems DEF Behind

-----------------------------------------------------------------------------
(* The invariant.  M is the set of messages that the streams carry: here   *)
(* Message, in Connection those of a login too.  mis is the number of      *)
(* soju's PINGs that nobody is going to answer.                            *)

Carries(M) ==
    /\ Message \subseteq M
    /\ \A m \in M : m = Msg(m.cmd, m.of) /\ m.of \in 0..MaxCalls

Places == {"idle", "lock", "drain", "fence", "wait"}
Held == {"drain", "fence", "wait"}

StreamsInv(M) ==
    /\ wire \in Seq(M) /\ pipe \in Seq(M) /\ in \in Seq(M)
    /\ Len(in) <= Cap
    /\ conn \in {"open", "dead"} /\ gone \in BOOLEAN
    /\ stale \in BOOLEAN /\ dropped \in BOOLEAN

(* rmu is held by whoever is past Lock; messages are read in the wait.     *)
CallsInv(M) ==
    /\ call \in [Callers -> [at : Places, id : 0..MaxCalls, got : Seq(M)]]
    /\ lock \in Callers \cup {Nobody}
    /\ \A c \in Callers : /\ call[c].at \in Held <=> lock = c
                          /\ call[c].at # "wait" => call[c].got = <<>>

(* Every call made is of one caller, and is that caller's until it returns. *)
BookInv ==
    /\ made \in 0..MaxCalls
    /\ kind \in [Calls -> Kinds \cup {"none"}]
    /\ decided \in [Calls -> {"none", "ok", "err"}]
    /\ result \in [Calls -> Verdicts \cup {"none", "closed", "failed", "timeout"}]
    /\ \A i \in Calls : IF i <= made THEN kind[i] \in Kinds
                                     ELSE decided[i] = "none" /\ result[i] = "none"
    /\ \A c \in Callers : call[c].at # "idle" =>
          /\ call[c].id \in 1..made
          /\ result[call[c].id] = "none"
    /\ \A c, d \in Callers : call[c].at # "idle" /\ call[d].at # "idle"
                               /\ call[c].id = call[d].id => c = d

(* What soju waits for is on its way: a PING to readLoop or a PONG to soju. *)
PingInv(mis) ==
    /\ noises \in 0..MaxNoise /\ owed \in 0..MaxNoise
    /\ Count(pipe, Msg("ping", 0)) + Count(wire, Msg("pong", 0)) + mis <= owed
    /\ owed <= noises

(* A command is on its way once, and until soju decides; a call's PING is  *)
(* behind it.                                                              *)
WireInv ==
    /\ \A m \in Elems(wire) :
          /\ m.cmd \in {"command", "fence"} => m.of \in 1..made
          /\ m.cmd = "command" => decided[m.of] = "none" /\ Count(wire, m) <= 1
          /\ m.cmd = "fence" => Fenced(m.of)
          /\ m.cmd = "pong" => m.of = 0
    /\ \A i \in 1..made : decided[i] = "none" =>
          Behind(wire, Msg("fence", i), Msg("command", i), {})

(* How far the calls are with their lines.                                 *)
WrittenInv ==
    \A c \in Callers :
        LET i == call[c].id
        IN  /\ call[c].at \in {"lock", "drain"} =>
                  /\ decided[i] = "none"
                  /\ Msg("command", i) \notin Elems(wire)
            /\ call[c].at \in {"lock", "drain", "fence"} => Msg("fence", i) \notin Elems(wire)
            /\ call[c].at = "fence" =>
                  /\ Fenced(i)
                  /\ decided[i] # "none" \/ Msg("command", i) \in Elems(wire) \/ conn = "dead"

(* The word soju's answer starts with, and all the words it is made of.    *)
Key(k, verdict) ==
    CASE k = "serv" -> IF verdict = "ok" THEN "line" ELSE "errline"
      [] k = "add" -> IF verdict = "ok" THEN "added" ELSE "fail"
      [] k = "change" -> IF verdict = "ok" THEN "other" ELSE "fail"
      [] k = "names" -> IF verdict = "ok" THEN "op" ELSE "noop"

Words(k, verdict) == {Key(k, verdict)} \cup (IF k = "names" THEN {"end"} ELSE {})

(* A message says what soju decided, or is of no call and answers none.    *)
Fits(m) ==
    IF m.of = 0
    THEN /\ m.cmd \notin {"pong", "errline", "added", "fail", "op", "noop", "end"}
         /\ m.cmd = "line" => "notice" \in Noises
    ELSE /\ m.of \in 1..made
         /\ decided[m.of] # "none"
         /\ \/ m.cmd = "pong" /\ Fenced(m.of)
            \/ m.cmd \in Words(kind[m.of], decided[m.of])

Arrived(c) == Elems(pipe) \cup Elems(in) \cup Elems(call[c].got)

FitInv ==
    /\ \A m \in Elems(pipe) \cup Elems(in) : Fits(m)
    /\ \A c \in Callers : \A m \in Elems(call[c].got) : Fits(m)

Times(c, x) == Count(pipe, x) + Count(in, x) + Count(call[c].got, x)

(* What a verdict is drawn from by its number or place comes once.         *)
OnceInv ==
    \A c \in Callers, i \in Calls, w \in {"errline", "op", "noop"} : Times(c, Msg(w, i)) <= 1

(* What a call waits for, and what it should have seen by then.            *)
Last(i) == Msg(IF Fenced(i) THEN "pong" ELSE "end", i)
First(i) == Msg(Key(kind[i], decided[i]), i)

(* When nothing of an earlier call is in the way of the one that holds     *)
(* rmu, nothing but its own is under way; when nothing was dropped, soju's *)
(* answer is before the end.                                               *)
Alone(c) ==
    /\ \A m \in Elems(wire) : m.cmd \in {"command", "fence"} => m.of = call[c].id
    /\ \A m \in Arrived(c) : m.of \in {0, call[c].id}

InOrder(c) ==
    LET i == call[c].id
    IN  /\ conn = "open" => First(i) \in Arrived(c)
        /\ Behind(in, Last(i), First(i), Elems(call[c].got))
        /\ Behind(pipe, Last(i), First(i), Elems(call[c].got) \cup Elems(in))

FaithInv ==
    \A c \in Callers : call[c].at \in {"fence", "wait"} /\ ~stale =>
        /\ Alone(c)
        /\ ~dropped /\ decided[call[c].id] # "none" => InOrder(c)

ClientInv(M, mis) ==
    /\ StreamsInv(M) /\ CallsInv(M) /\ BookInv
    /\ PingInv(mis)
    /\ WireInv /\ WrittenInv
    /\ FitInv /\ OnceInv
    /\ FaithInv

AnswerWords == {"line", "errline", "added", "fail", "other", "op", "noop", "end"}

LEMMA AnswersAre ==
  ASSUME NEW k \in AllKinds, NEW v
  PROVE  /\ Key(k, v) \in AnswerWords \ {"end"}
         /\ Words(k, v) \subseteq AnswerWords
  BY DEF AllKinds, Key, Words, AnswerWords

(* What fits and is no answer of soju's is a PONG, or of no call.          *)
LEMMA FitsAre ==
  ASSUME BookInv, NEW m, Fits(m), m.cmd \notin AnswerWords \cup {"pong"}
  PROVE  m.of = 0
  <1> SUFFICES ASSUME m.of # 0
               PROVE  FALSE
    OBVIOUS
  <1>1. m.of \in 1..made /\ m.cmd \in Words(kind[m.of], decided[m.of])
    BY DEF Fits
  <1>2. kind[m.of] \in AllKinds
    BY <1>1, ClientAssumption DEF BookInv, Calls
  <1> QED
    BY <1>1, <1>2, AnswersAre

(* What the caller that has written waits for.                             *)
LEMMA AwaitedAre ==
  ASSUME BookInv, NEW c \in Callers, call[c].at # "idle"
  PROVE  /\ First(call[c].id).cmd \in AnswerWords /\ First(call[c].id).of = call[c].id
         /\ Last(call[c].id).cmd \in {"pong", "end"} /\ Last(call[c].id).of = call[c].id
         /\ call[c].id \in Calls /\ call[c].id # 0
  <1>1. call[c].id \in Calls /\ call[c].id # 0 /\ kind[call[c].id] \in AllKinds
    BY ClientAssumption DEF BookInv, Calls
  <1>2. Key(kind[call[c].id], decided[call[c].id]) \in AnswerWords
    BY <1>1, AnswersAre
  <1> QED
    BY <1>1, <1>2 DEF First, Last, Msg

-----------------------------------------------------------------------------
(* Each action keeps it; readLoop first.                                   *)

LEMMA ReadMessageKeeps ==
  ASSUME NEW M, Carries(M), NEW mis \in Nat, ClientInv(M, mis), ReadMessage
  PROVE  ClientInv(M, mis)'
  <1> DEFINE m == Head(pipe)
  <1>1. /\ pipe \in Seq(M) /\ in \in Seq(M) /\ pipe # <<>>
        /\ pipe' = Tail(pipe)
        /\ \/ in' = Append(in, m) /\ dropped' = dropped /\ Len(in) < Cap
           \/ in' = in /\ dropped' = TRUE
    BY DEF ClientInv, StreamsInv, ReadMessage, Enqueue
  <1>2. /\ m \in M /\ m \in Elems(pipe) /\ m.cmd # "ping"
        /\ pipe' \in Seq(M) /\ Elems(pipe) = Elems(pipe') \cup {m}
    BY <1>1, HeadElems, HeadTailElems DEF ReadMessage
  <1> HIDE DEF m
  <1>a. Append(in, m) \in Seq(M) /\ Elems(Append(in, m)) = Elems(in) \cup {m}
    BY <1>1, <1>2, AppendElems
  <1>b. in' \in Seq(M) /\ Elems(in') \subseteq Elems(in) \cup {m}
    BY <1>1, <1>a
  <1>3. StreamsInv(M)'
    <2>1. Len(in') <= Cap
      <3>1. Len(in) <= Cap /\ Len(in) \in Nat /\ Cap \in Nat
        BY <1>1, ClientAssumption DEF ClientInv, StreamsInv
      <3>2. Len(Append(in, m)) = Len(in) + 1
        BY <1>1, <1>2
      <3> QED
        BY <1>1, <3>1, <3>2
    <2>2. dropped' \in BOOLEAN
      BY <1>1, Zenon DEF ClientInv, StreamsInv
    <2> QED
      BY <1>2, <1>b, <2>1, <2>2 DEF ClientInv, StreamsInv, ReadMessage
  <1>4. CallsInv(M)' /\ BookInv' /\ WireInv' /\ WrittenInv'
    BY DEF ClientInv, CallsInv, BookInv, WireInv, WrittenInv, ReadMessage, Fenced
  <1>5. PingInv(mis)'
    <2>1. Count(pipe', Msg("ping", 0)) = Count(pipe, Msg("ping", 0))
      BY <1>1, <1>2, TailCount DEF m, Msg
    <2> QED
      BY <2>1 DEF ClientInv, PingInv, ReadMessage
  <1>6. FitInv'
    BY <1>2, <1>b DEF ClientInv, FitInv, Fits, ReadMessage, Fenced
  <1>7. OnceInv'
    <2> SUFFICES ASSUME NEW c \in Callers, NEW i \in Calls, NEW w \in {"errline", "op", "noop"},
                        NEW x, x = Msg(w, i)
                 PROVE  Times(c, x)' <= 1
      BY DEF OnceInv
    <2>1. /\ Times(c, x) <= 1
          /\ Count(pipe, x) \in Nat /\ Count(pipe', x) \in Nat /\ Count(in, x) \in Nat
          /\ Count(in', x) \in Nat /\ Count(call[c].got, x) \in Nat
      BY <1>1, <1>2, <1>b, AtFinite DEF ClientInv, CallsInv, OnceInv
    <2>2. Count(pipe, x) = IF m = x THEN Count(pipe', x) + 1 ELSE Count(pipe', x)
      BY <1>1, TailCount DEF m
    <2>3. in' = in \/ Count(in', x) = IF m = x THEN Count(in, x) + 1 ELSE Count(in, x)
      <3>1. Count(Append(in, m), x) = IF m = x THEN Count(in, x) + 1 ELSE Count(in, x)
        BY <1>1, <1>2, AppendCount
      <3> QED
        BY <1>1, <3>1
    <2> QED
      BY <2>1, <2>2, <2>3 DEF Times, ReadMessage
  <1>8. FaithInv'
    <2> SUFFICES ASSUME NEW c \in Callers, call[c].at \in {"fence", "wait"}, ~stale
                 PROVE  /\ Alone(c)'
                        /\ ~dropped' /\ decided[call[c].id] # "none" => InOrder(c)'
      BY DEF FaithInv, ReadMessage
    <2>1. /\ Alone(c)
          /\ ~dropped /\ decided[call[c].id] # "none" => InOrder(c)
      BY DEF ClientInv, FaithInv
    <2>2. Alone(c)'
      BY <1>2, <1>b, <2>1 DEF Alone, Arrived, ReadMessage
    <2>3. ASSUME ~dropped', decided[call[c].id] # "none"
          PROVE  InOrder(c)'
      <3> DEFINE x == Last(call[c].id)
                 y == First(call[c].id)
                 seen == Elems(call[c].got)
      <3>1. in' = Append(in, m) /\ ~dropped /\ Elems(in') = Elems(in) \cup {m}
        <4>1. dropped' # TRUE
          BY <2>3
        <4> QED
          BY <1>1, <1>a, <2>3, <4>1, Zenon
      <3>2. /\ conn = "open" => y \in Arrived(c)
            /\ Behind(in, x, y, seen) /\ Behind(pipe, x, y, seen \cup Elems(in))
        BY <2>1, <2>3, <3>1 DEF InOrder
      <3>3. /\ conn = "open" => y \in Arrived(c)'
            /\ x' = x /\ y' = y /\ seen' = seen /\ conn' = conn
        BY <1>2, <3>1, <3>2 DEF Arrived, ReadMessage, First, Last, Fenced
      <3> HIDE DEF x, y, seen
      <3>4. /\ Behind(pipe', x, y, seen \cup Elems(in) \cup {m})
            /\ m = x => y \in seen \cup Elems(in)
        BY <1>1, <3>2, BehindTail DEF m
      <3>5. Behind(in', x, y, seen)
        BY <1>1, <1>2, <3>1, <3>2, <3>4, BehindAppend
      <3>6. Behind(pipe', x, y, seen \cup Elems(in'))
        BY <3>1, <3>4 DEF Behind
      <3> QED
        BY <3>3, <3>5, <3>6 DEF InOrder, x, y, seen
    <2> QED
      BY <2>2, <2>3
  <1> QED
    BY <1>3, <1>4, <1>5, <1>6, <1>7, <1>8 DEF ClientInv

LEMMA ReadPingKeeps ==
  ASSUME NEW M, Carries(M), NEW mis \in Nat, ClientInv(M, mis), ReadPing
  PROVE  ClientInv(M, mis)'
  <1> DEFINE m == Head(pipe)
             pong == Msg("pong", 0)
  <1>1. /\ pipe \in Seq(M) /\ wire \in Seq(M) /\ pipe # <<>>
        /\ pipe' = Tail(pipe)
        /\ wire' = Append(wire, pong) \/ wire' = wire
    BY DEF ClientInv, StreamsInv, ReadPing, WriteOK
  <1>2. /\ m \in M /\ m.cmd = "ping"
        /\ pipe' \in Seq(M) /\ Elems(pipe) = Elems(pipe') \cup {m}
    BY <1>1, HeadElems, HeadTailElems DEF ReadPing
  <1>3. m.of = 0 /\ m = Msg("ping", 0)
    <2>1. Fits(m) /\ m.cmd \notin AnswerWords \cup {"pong"} /\ BookInv
      BY <1>2 DEF ClientInv, FitInv, AnswerWords
    <2>2. m.of = 0
      BY <2>1, FitsAre
    <2> QED
      BY <1>2, <2>2 DEF Carries
  <1> HIDE DEF m
  <1>4. pong \in M /\ pong.cmd = "pong" /\ pong.of = 0
    BY ClientAssumption DEF Carries, Message, Msg
  <1>5. /\ Append(wire, pong) \in Seq(M) /\ Elems(Append(wire, pong)) = Elems(wire) \cup {pong}
    BY <1>1, <1>4, AppendElems
  <1> HIDE DEF pong
  <1>6. /\ wire' \in Seq(M) /\ Elems(wire') \subseteq Elems(wire) \cup {pong}
        /\ Elems(wire) \subseteq Elems(wire')
    BY <1>1, <1>5
  <1>7. StreamsInv(M)'
    <2>1. gone' \in BOOLEAN
      BY Zenon DEF ClientInv, StreamsInv, ReadPing
    <2> QED
      BY <1>2, <1>6, <2>1 DEF ClientInv, StreamsInv, ReadPing
  <1>8. CallsInv(M)' /\ BookInv'
    BY DEF ClientInv, CallsInv, BookInv, ReadPing
  <1>9. PingInv(mis)'
    <2>1. Count(pipe, m) = Count(pipe', m) + 1
      BY <1>1, TailCount DEF m
    <2>2. wire' = wire \/ Count(wire', pong) = Count(wire, pong) + 1
      <3>1. Count(Append(wire, pong), pong) = Count(wire, pong) + 1
        BY <1>1, <1>4, AppendCount
      <3> QED
        BY <1>1, <3>1
    <2>3. /\ Count(pipe, m) \in Nat /\ Count(pipe', m) \in Nat
          /\ Count(wire, pong) \in Nat /\ Count(wire', pong) \in Nat
      BY <1>1, <1>2, <1>6, AtFinite
    <2> QED
      BY <1>3, <2>1, <2>2, <2>3 DEF ClientInv, PingInv, ReadPing, pong
  <1>10. WireInv'
    <2>1. ASSUME NEW x \in Elems(wire'), x.cmd # "pong"
          PROVE  x \in Elems(wire) /\ Count(wire', x) = Count(wire, x)
      <3>1. Count(Append(wire, pong), x) = Count(wire, x)
        BY <1>1, <1>4, <2>1, AppendCount
      <3> QED
        BY <1>1, <1>4, <1>6, <2>1, <3>1
    <2>2. ASSUME NEW i \in 1..made, decided[i] = "none"
          PROVE  Behind(wire', Msg("fence", i), Msg("command", i), {})
      <3>1. Behind(wire, Msg("fence", i), Msg("command", i), {})
        BY <2>2 DEF ClientInv, WireInv
      <3>2. pong # Msg("fence", i)
        BY <1>4 DEF Msg
      <3> QED
        BY <1>1, <1>4, <3>1, <3>2, BehindAppend
    <2>3. \A x \in Elems(wire') :
              /\ x.cmd \in {"command", "fence"} => x.of \in 1..made
              /\ x.cmd = "command" => decided[x.of] = "none" /\ Count(wire', x) <= 1
              /\ x.cmd = "fence" => Fenced(x.of)
              /\ x.cmd = "pong" => x.of = 0
      BY <1>4, <1>6, <2>1 DEF ClientInv, WireInv
    <2> QED
      BY <2>2, <2>3 DEF WireInv, ReadPing, Fenced
  <1>11. WrittenInv'
    <2>1. \A i : Msg("command", i) # pong /\ Msg("fence", i) # pong
      BY <1>4 DEF Msg
    <2> QED
      BY <1>6, <2>1 DEF ClientInv, WrittenInv, ReadPing, Fenced
  <1>12. FitInv'
    BY <1>2 DEF ClientInv, FitInv, Fits, ReadPing, Fenced
  <1>13. OnceInv'
    <2> SUFFICES ASSUME NEW c \in Callers, NEW i \in Calls, NEW w \in {"errline", "op", "noop"},
                        NEW x, x = Msg(w, i)
                 PROVE  Times(c, x)' <= 1
      BY DEF OnceInv
    <2>1. Times(c, x) <= 1
      BY DEF ClientInv, OnceInv
    <2>2. x # m
      BY <1>3 DEF Msg
    <2>3. Count(pipe, x) = Count(pipe', x)
      BY <1>1, <2>2, TailCount DEF m
    <2> QED
      BY <2>1, <2>3 DEF Times, ReadPing
  <1>14. FaithInv'
    <2> SUFFICES ASSUME NEW c \in Callers, call[c].at \in {"fence", "wait"}, ~stale
                 PROVE  /\ Alone(c)'
                        /\ ~dropped /\ decided[call[c].id] # "none" => InOrder(c)'
      BY DEF FaithInv, ReadPing
    <2>1. /\ Alone(c)
          /\ ~dropped /\ decided[call[c].id] # "none" => InOrder(c)
      BY DEF ClientInv, FaithInv
    <2>2. Alone(c)'
      BY <1>2, <1>4, <1>6, <2>1 DEF Alone, Arrived, ReadPing
    <2>3. ASSUME ~dropped, decided[call[c].id] # "none"
          PROVE  InOrder(c)'
      <3> DEFINE x == Last(call[c].id)
                 y == First(call[c].id)
                 seen == Elems(call[c].got)
      <3>1. m # y
        BY <1>2, AwaitedAre DEF ClientInv, AnswerWords
      <3>2. /\ conn = "open" => y \in Arrived(c)
            /\ Behind(in, x, y, seen) /\ Behind(pipe, x, y, seen \cup Elems(in))
        BY <2>1, <2>3 DEF InOrder
      <3>3. /\ conn = "open" => y \in Arrived(c)'
            /\ x' = x /\ y' = y /\ seen' = seen /\ conn' = conn /\ in' = in
        BY <1>2, <3>1, <3>2 DEF Arrived, ReadPing, First, Last, Fenced
      <3> HIDE DEF x, y, seen
      <3>4. Behind(pipe', x, y, seen \cup Elems(in) \cup {m})
        BY <1>1, <3>2, BehindTail DEF m
      <3>5. Behind(pipe', x, y, seen \cup Elems(in))
        BY <3>1, <3>4 DEF Behind
      <3> QED
        BY <3>2, <3>3, <3>5 DEF InOrder, x, y, seen
    <2> QED
      BY <2>2, <2>3
  <1> QED
    BY <1>7, <1>8, <1>9, <1>10, <1>11, <1>12, <1>13, <1>14 DEF ClientInv

LEMMA ReadEOFKeeps ==
  ASSUME NEW M, Carries(M), NEW mis \in Nat, ClientInv(M, mis), ReadEOF
  PROVE  ClientInv(M, mis)'
  <1>1. StreamsInv(M)'
    BY DEF ClientInv, StreamsInv, ReadEOF, streams
  <1>2. CallsInv(M)' /\ BookInv' /\ PingInv(mis)' /\ WireInv' /\ WrittenInv'
    BY DEF ClientInv, CallsInv, BookInv, PingInv, WireInv, WrittenInv, ReadEOF, streams, Fenced
  <1>3. FitInv' /\ OnceInv'
    BY DEF ClientInv, FitInv, Fits, OnceInv, Times, ReadEOF, streams, Fenced
  <1>4. FaithInv'
    BY DEF ClientInv, FaithInv, Alone, InOrder, Arrived, First, Last, ReadEOF, streams, Fenced
  <1> QED
    BY <1>1, <1>2, <1>3, <1>4 DEF ClientInv

-----------------------------------------------------------------------------
(* The steps of a call.                                                    *)

LEMMA StartKeeps ==
  ASSUME NEW M, Carries(M), NEW mis \in Nat, ClientInv(M, mis),
         NEW c \in Callers, NEW k \in Kinds, Start(c, k)
  PROVE  ClientInv(M, mis)'
  <1> DEFINE n == made + 1
  <1>1. /\ n \in Calls /\ n \notin 1..made /\ made \in Nat /\ 1..n = 1..made \cup {n}
        /\ call[c].at = "idle" /\ call[c].got = <<>>
    <2>1. made \in Nat /\ made < MaxCalls /\ MaxCalls \in Nat
      BY ClientAssumption DEF ClientInv, BookInv, Start
    <2>2. call[c].at = "idle" /\ call[c].got = <<>>
      BY DEF ClientInv, CallsInv, Start
    <2> QED
      BY <2>1, <2>2 DEF Calls
  <1>2. /\ made' = n
        /\ kind'[n] = k /\ \A i \in Calls : i # n => kind'[i] = kind[i]
        /\ kind' \in [Calls -> Kinds \cup {"none"}]
    BY <1>1 DEF ClientInv, BookInv, Start
  <1>3. /\ call'[c] = [at |-> "lock", id |-> n, got |-> <<>>]
        /\ \A d \in Callers : d # c => call'[d] = call[d]
        /\ call' \in [Callers -> [at : Places, id : 0..MaxCalls, got : Seq(M)]]
    <2>1. [at |-> "lock", id |-> n, got |-> <<>>] \in [at : Places, id : 0..MaxCalls, got : Seq(M)]
      BY <1>1 DEF Places, Calls
    <2> QED
      BY <2>1 DEF ClientInv, CallsInv, Start
  <1> HIDE DEF n
  <1>4. StreamsInv(M)'
    BY DEF ClientInv, StreamsInv, Start, streams
  <1>5. CallsInv(M)'
    <2>1. \A d \in Callers : /\ call'[d].at \in Held <=> lock = d
                             /\ call'[d].at # "wait" => call'[d].got = <<>>
      <3>1. lock # c /\ call'[c].at \notin Held
        <4>1. call'[c].at = "lock"
          BY <1>3
        <4>2. lock # c
          BY <1>1 DEF ClientInv, CallsInv, Held
        <4> QED
          BY <4>1, <4>2 DEF Held
      <3>2. call'[c].got = <<>>
        BY <1>3
      <3> QED
        BY <1>3, <3>1, <3>2 DEF ClientInv, CallsInv
    <2> QED
      BY <1>3, <2>1 DEF ClientInv, CallsInv, Start
  <1>6. BookInv'
    <2>1. decided[n] = "none" /\ result[n] = "none"
      BY <1>1 DEF ClientInv, BookInv, Calls
    <2>2. \A i \in Calls : IF i <= n THEN kind'[i] \in Kinds
                                     ELSE decided[i] = "none" /\ result[i] = "none"
      BY <1>1, <1>2 DEF ClientInv, BookInv, Calls, n
    <2>3. \A d \in Callers : call'[d].at # "idle" =>
              call'[d].id \in 1..n /\ result[call'[d].id] = "none"
      BY <1>1, <1>3, <2>1 DEF ClientInv, BookInv
    <2>4. \A d, e \in Callers : call'[d].at # "idle" /\ call'[e].at # "idle"
                                  /\ call'[d].id = call'[e].id => d = e
      <3>1. \A d \in Callers : d # c /\ call'[d].at # "idle" =>
                call'[d] = call[d] /\ call'[d].id # n
        BY <1>1, <1>3 DEF ClientInv, BookInv
      <3>2. call'[c].id = n
        BY <1>3
      <3> QED
        BY <3>1, <3>2 DEF ClientInv, BookInv
    <2>5. n \in 0..MaxCalls
      BY <1>1 DEF Calls
    <2> QED
      BY <1>2, <2>2, <2>3, <2>4, <2>5 DEF ClientInv, BookInv, Start
  <1>7. PingInv(mis)'
    BY DEF ClientInv, PingInv, Start, streams
  <1>8. \A i \in 1..made : Fenced(i)' = Fenced(i) /\ i \in Calls /\ kind'[i] = kind[i]
    <2>1. \A i \in 1..made : i \in Calls /\ i # n
      BY <1>1, ClientAssumption DEF ClientInv, BookInv, Calls
    <2> QED
      BY <1>2, <2>1 DEF Fenced
  <1>9. \A x \in Elems(wire) : x.cmd \in {"command", "fence"} => x.of \in 1..made
    BY DEF ClientInv, WireInv
  <1>10. Msg("command", n) \notin Elems(wire) /\ Msg("fence", n) \notin Elems(wire)
    BY <1>1, <1>9 DEF Msg
  <1>11. WireInv'
    <2>1. Behind(wire, Msg("fence", n), Msg("command", n), {})
      BY <1>10 DEF Behind, Elems
    <2> QED
      BY <1>1, <1>2, <1>8, <2>1 DEF ClientInv, WireInv, Start, streams
  <1>12. WrittenInv'
    <2>1. decided[n] = "none"
      BY <1>1 DEF ClientInv, BookInv, Calls
    <2>2. \A d \in Callers : call[d].at # "idle" => call[d].id \in 1..made
      BY DEF ClientInv, BookInv
    <2> QED
      BY <1>3, <1>8, <1>10, <2>1, <2>2 DEF ClientInv, WrittenInv, Start, streams
  <1>13. FitInv'
    <2>1. \A x : Fits(x) => Fits(x)'
      BY <1>1, <1>2, <1>8 DEF Fits, Start
    <2> QED
      BY <1>1, <1>3, <2>1 DEF ClientInv, FitInv, Start, streams
  <1>14. OnceInv'
    BY <1>1, <1>3 DEF ClientInv, OnceInv, Times, Start, streams
  <1>15. FaithInv'
    <2> SUFFICES ASSUME NEW d \in Callers, d # c, call[d].at \in {"fence", "wait"}, ~stale
                 PROVE  /\ Alone(d)'
                        /\ ~dropped /\ decided[call[d].id] # "none" => InOrder(d)'
      BY <1>3 DEF FaithInv, Start
    <2>1. call'[d] = call[d] /\ call[d].id \in 1..made
      BY <1>3 DEF ClientInv, BookInv
    <2>2. First(call[d].id)' = First(call[d].id) /\ Last(call[d].id)' = Last(call[d].id)
      BY <1>8, <2>1 DEF First, Last, Start
    <2>3. Arrived(d)' = Arrived(d)
      BY <2>1 DEF Arrived, Start, streams
    <2> QED
      BY <2>1, <2>2, <2>3 DEF ClientInv, FaithInv, Alone, InOrder, Start, streams
  <1> QED
    BY <1>4, <1>5, <1>6, <1>7, <1>11, <1>12, <1>13, <1>14, <1>15 DEF ClientInv

LEMMA LockKeeps ==
  ASSUME NEW M, Carries(M), NEW mis \in Nat, ClientInv(M, mis), NEW c \in Callers, Lock(c)
  PROVE  ClientInv(M, mis)'
  <1>1. /\ call'[c] = [at |-> "drain", id |-> call[c].id, got |-> call[c].got]
        /\ \A d \in Callers : d # c => call'[d] = call[d]
        /\ call' \in [Callers -> [at : Places, id : 0..MaxCalls, got : Seq(M)]]
        /\ call[c].at = "lock"
    BY DEF ClientInv, CallsInv, Lock, Places
  <1>2. StreamsInv(M)'
    BY DEF ClientInv, StreamsInv, Lock, streams
  <1>3. CallsInv(M)'
    BY <1>1, ClientAssumption DEF ClientInv, CallsInv, Lock, Held
  <1>4. BookInv'
    <2>1. \A d \in Callers : call'[d].id = call[d].id /\ (call'[d].at = "idle" <=> call[d].at = "idle")
      <3>1. call'[c].id = call[c].id /\ call'[c].at = "drain"
        BY <1>1
      <3> QED
        BY <1>1, <3>1
    <2> QED
      BY <2>1 DEF ClientInv, BookInv, Lock
  <1>5. PingInv(mis)' /\ WireInv'
    BY DEF ClientInv, PingInv, WireInv, Lock, streams, Fenced
  <1>6. WrittenInv'
    <2> SUFFICES ASSUME NEW d \in Callers
                 PROVE  LET i == call[d].id
                        IN  /\ call'[d].id = i
                            /\ call'[d].at \in {"lock", "drain", "fence"} => call[d].at \in {"lock", "drain", "fence"}
                            /\ call'[d].at \in {"lock", "drain"} <=> call[d].at \in {"lock", "drain"}
      BY DEF ClientInv, WrittenInv, Lock, streams, Fenced
    <2>1. CASE d = c
      <3>1. call'[c].id = call[c].id /\ call'[c].at = "drain" /\ call[c].at = "lock"
        BY <1>1
      <3> QED
        BY <2>1, <3>1
    <2>2. CASE d # c
      BY <1>1, <2>2
    <2> QED
      BY <2>1, <2>2
  <1>7. FitInv'
    <2>1. \A d \in Callers : call'[d].got = call[d].got
      <3>1. call'[c].got = call[c].got
        BY <1>1
      <3> QED
        BY <1>1, <3>1
    <2>2. \A x : Fits(x)' = Fits(x)
      BY DEF Fits, Lock, Fenced
    <2> QED
      BY <2>1, <2>2 DEF ClientInv, FitInv, Lock, streams
  <1>8. OnceInv'
    BY <1>1 DEF ClientInv, OnceInv, Times, Lock, streams
  <1>9. FaithInv'
    <2> SUFFICES ASSUME NEW d \in Callers, d # c, call[d].at \in {"fence", "wait"}, ~stale
                 PROVE  /\ Alone(d)'
                        /\ ~dropped /\ decided[call[d].id] # "none" => InOrder(d)'
      BY <1>1 DEF FaithInv, Lock
    <2>1. call'[d] = call[d]
      BY <1>1
    <2> QED
      BY <2>1 DEF ClientInv, FaithInv, Alone, InOrder, Arrived, First, Last, Lock, streams, Fenced
  <1> QED
    BY <1>2, <1>3, <1>4, <1>5, <1>6, <1>7, <1>8, <1>9 DEF ClientInv

LEMMA DrainOneKeeps ==
  ASSUME NEW M, Carries(M), NEW mis \in Nat, ClientInv(M, mis), NEW c \in Callers, DrainOne(c)
  PROVE  ClientInv(M, mis)'
  <1>1. /\ in \in Seq(M) /\ in # <<>> /\ in' = Tail(in)
        /\ call[c].at = "drain"
    BY DEF ClientInv, StreamsInv, DrainOne
  <1>2. /\ in' \in Seq(M) /\ Elems(in') \subseteq Elems(in) /\ Len(in') <= Len(in)
    BY <1>1, HeadElems
  <1>3. StreamsInv(M)'
    <2>1. Len(in') <= Cap
      BY <1>1, <1>2, ClientAssumption DEF ClientInv, StreamsInv
    <2> QED
      BY <1>2, <2>1 DEF ClientInv, StreamsInv, DrainOne
  <1>4. CallsInv(M)' /\ BookInv' /\ PingInv(mis)' /\ WireInv' /\ WrittenInv'
    BY DEF ClientInv, CallsInv, BookInv, PingInv, WireInv, WrittenInv, DrainOne, Fenced
  <1>5. FitInv'
    BY <1>2 DEF ClientInv, FitInv, Fits, DrainOne, Fenced
  <1>6. OnceInv'
    <2> SUFFICES ASSUME NEW d \in Callers, NEW i \in Calls, NEW w \in {"errline", "op", "noop"},
                        NEW x, x = Msg(w, i)
                 PROVE  Times(d, x)' <= 1
      BY DEF OnceInv
    <2>1. /\ Times(d, x) <= 1
          /\ Count(pipe, x) \in Nat /\ Count(in, x) \in Nat /\ Count(in', x) \in Nat
          /\ Count(call[d].got, x) \in Nat
      BY <1>1, <1>2, AtFinite DEF ClientInv, CallsInv, StreamsInv, OnceInv
    <2>2. Count(in, x) = IF Head(in) = x THEN Count(in', x) + 1 ELSE Count(in', x)
      BY <1>1, TailCount
    <2> QED
      BY <2>1, <2>2 DEF Times, DrainOne
  <1>7. FaithInv'
    <2>1. \A d \in Callers : call[d].at \notin {"fence", "wait"}
      BY <1>1 DEF ClientInv, CallsInv, Held
    <2> QED
      BY <2>1 DEF FaithInv, DrainOne
  <1> QED
    BY <1>3, <1>4, <1>5, <1>6, <1>7 DEF ClientInv

(* What Return changes.                                                    *)
LEMMA ReturnKeeps ==
  ASSUME NEW M, CallsInv(M), BookInv, NEW c \in Callers, call[c].at \in Held,
         NEW r \in Verdicts \cup {"closed", "failed", "timeout"}, Return(c, r),
         UNCHANGED <<made, kind, decided>>
  PROVE  /\ CallsInv(M)' /\ BookInv'
         /\ call'[c] = Idle
         /\ \A d \in Callers : d # c => call'[d] = call[d] /\ call[d].at \notin Held
         /\ result'[call[c].id] = r
         /\ \A i \in Calls : i # call[c].id => result'[i] = result[i]
  <1>1. /\ call'[c] = Idle /\ \A d \in Callers : d # c => call'[d] = call[d]
        /\ call' \in [Callers -> [at : Places, id : 0..MaxCalls, got : Seq(M)]]
    <2>1. Idle \in [at : Places, id : 0..MaxCalls, got : Seq(M)]
      BY ClientAssumption DEF Idle, Places
    <2> QED
      BY <2>1 DEF CallsInv, Return
  <1>2. call[c].id \in Calls
    BY ClientAssumption DEF BookInv, Calls, Held
  <1>3. /\ result'[call[c].id] = r
        /\ \A i \in Calls : i # call[c].id => result'[i] = result[i]
        /\ result' \in [Calls -> Verdicts \cup {"none", "closed", "failed", "timeout"}]
    BY <1>2 DEF BookInv, Return
  <1>4. \A d \in Callers : d # c => call[d].at \notin Held
    BY DEF CallsInv
  <1>5. CallsInv(M)'
    BY <1>1, <1>4, ClientAssumption DEF CallsInv, Return, Idle, Held
  <1>6. BookInv'
    <2>1. \A i \in Calls : IF i <= made THEN kind[i] \in Kinds
                                        ELSE decided[i] = "none" /\ result'[i] = "none"
      BY <1>2, <1>3 DEF BookInv, Held, Calls
    <2>2. \A d \in Callers : call'[d].at # "idle" =>
              d # c /\ call'[d] = call[d] /\ call[d].id # call[c].id /\ call[d].id \in Calls
      BY <1>1, ClientAssumption DEF BookInv, Idle, Held, Calls
    <2>3. \A d \in Callers : call'[d].at # "idle" =>
              call'[d].id \in 1..made /\ result'[call'[d].id] = "none"
      BY <1>3, <2>2 DEF BookInv
    <2>4. \A d, e \in Callers : call'[d].at # "idle" /\ call'[e].at # "idle"
                                  /\ call'[d].id = call'[e].id => d = e
      BY <2>2 DEF BookInv
    <2> QED
      BY <1>3, <2>1, <2>3, <2>4 DEF BookInv
  <1> QED
    BY <1>1, <1>3, <1>4, <1>5, <1>6

(* A return, with or without a last message read.                          *)
LEMMA LeaveKeeps ==
  ASSUME NEW M, Carries(M), NEW mis \in Nat, ClientInv(M, mis),
         NEW c \in Callers, call[c].at \in Held,
         NEW r \in Verdicts \cup {"closed", "failed", "timeout"}, Return(c, r),
         in' = in \/ (in # <<>> /\ in' = Tail(in)),
         UNCHANGED <<wire, pipe, conn, gone, made, noises, owed, kind, decided, stale, dropped>>
  PROVE  ClientInv(M, mis)'
  <1>1. /\ CallsInv(M)' /\ BookInv'
        /\ call'[c] = Idle
        /\ \A d \in Callers : d # c => call'[d] = call[d] /\ call[d].at \notin Held
    BY ReturnKeeps DEF ClientInv
  <1>2. /\ in' \in Seq(M) /\ Elems(in') \subseteq Elems(in) /\ Len(in') <= Len(in)
        /\ in \in Seq(M) /\ pipe \in Seq(M)
    <2>1. in \in Seq(M) /\ pipe \in Seq(M) /\ Len(in) \in Nat
      BY DEF ClientInv, StreamsInv
    <2>2. CASE in' = in
      BY <2>1, <2>2
    <2>3. CASE in # <<>> /\ in' = Tail(in)
      BY <2>1, <2>3, HeadElems
    <2> QED
      BY <2>1, <2>2, <2>3
  <1>3. StreamsInv(M)'
    <2>1. Len(in') <= Cap
      BY <1>2, ClientAssumption DEF ClientInv, StreamsInv
    <2> QED
      BY <1>2, <2>1 DEF ClientInv, StreamsInv
  <1>4. PingInv(mis)' /\ WireInv'
    BY DEF ClientInv, PingInv, WireInv, Fenced
  <1>5. WrittenInv'
    BY <1>1 DEF ClientInv, WrittenInv, Fenced, Idle, Held
  <1>6. FitInv'
    BY <1>1, <1>2, EmptyStream DEF ClientInv, FitInv, Fits, Fenced, Idle
  <1>7. OnceInv'
    <2> SUFFICES ASSUME NEW d \in Callers, NEW i \in Calls, NEW w \in {"errline", "op", "noop"},
                        NEW x, x = Msg(w, i)
                 PROVE  Times(d, x)' <= 1
      BY DEF OnceInv
    <2>1. /\ Times(d, x) <= 1 /\ Count(pipe, x) \in Nat /\ Count(in, x) \in Nat
          /\ Count(in', x) \in Nat
      BY <1>2, AtFinite DEF ClientInv, OnceInv
    <2>2. Count(in', x) <= Count(in, x)
      <3>1. CASE in' = in
        <4>1. Count(in', x) = Count(in, x)
          BY <3>1
        <4> QED
          BY <2>1, <4>1
      <3>2. CASE in # <<>> /\ in' = Tail(in)
        BY <1>2, <2>1, <3>2, TailCount
      <3> QED
        BY <3>1, <3>2
    <2>3. Count(call[d].got, x) \in Nat
      BY AtFinite DEF ClientInv, CallsInv
    <2>4. CASE d = c
      BY <1>1, <2>1, <2>2, <2>3, <2>4, EmptyStream DEF Times, Idle
    <2>5. CASE d # c
      BY <1>1, <2>1, <2>2, <2>3, <2>5 DEF Times
    <2> QED
      BY <2>4, <2>5
  <1>8. FaithInv'
    BY <1>1 DEF FaithInv, Idle, Held
  <1> QED
    BY <1>1, <1>3, <1>4, <1>5, <1>6, <1>7, <1>8 DEF ClientInv

LEMMA WriteCommandKeeps ==
  ASSUME NEW M, Carries(M), NEW mis \in Nat, ClientInv(M, mis), NEW c \in Callers, WriteCommand(c)
  PROVE  ClientInv(M, mis)'
  <1> DEFINE i == call[c].id
             line == Msg("command", i)
  <1>1. /\ wire \in Seq(M) /\ in = <<>> /\ call[c].at = "drain"
        /\ \/ conn = "open" /\ wire' = Append(wire, line)
           \/ conn = "dead" /\ wire' = wire
    BY DEF ClientInv, StreamsInv, WriteCommand, WriteOK, Drained
  <1>2. /\ call'[c] = [at |-> IF Fenced(i) THEN "fence" ELSE "wait", id |-> i, got |-> call[c].got]
        /\ \A d \in Callers : d # c => call'[d] = call[d] /\ call[d].at \notin Held
        /\ call' \in [Callers -> [at : Places, id : 0..MaxCalls, got : Seq(M)]]
        /\ call[c].got = <<>>
    BY <1>1 DEF ClientInv, CallsInv, WriteCommand, Places, Held
  <1>3. i \in Calls /\ i \in 1..made /\ decided[i] = "none" /\ line \notin Elems(wire)
        /\ Msg("fence", i) \notin Elems(wire)
    BY <1>1, ClientAssumption DEF ClientInv, BookInv, WrittenInv, Calls
  <1>4. line \in M /\ line.cmd = "command" /\ line.of = i
    BY <1>3 DEF Carries, Message, Msg, Calls
  <1> HIDE DEF i
  <1>5. Append(wire, line) \in Seq(M) /\ Elems(Append(wire, line)) = Elems(wire) \cup {line}
    BY <1>1, <1>4, AppendElems
  <1>6. \A n : Msg("command", n) = line => n = i
    BY <1>4 DEF Msg
  <1>7. \A n : Msg("fence", n) # line
    BY <1>4 DEF Msg
  <1> HIDE DEF line
  <1>8. /\ wire' \in Seq(M) /\ Elems(wire') \subseteq Elems(wire) \cup {line}
        /\ Elems(wire) \subseteq Elems(wire')
        /\ conn = "open" => line \in Elems(wire')
    BY <1>1, <1>5
  <1>9. StreamsInv(M)'
    <2>1. stale' \in BOOLEAN /\ dropped' \in BOOLEAN
      BY Zenon DEF WriteCommand, OnItsWay
    <2> QED
      BY <1>8, <2>1 DEF ClientInv, StreamsInv, WriteCommand
  <1>10. CallsInv(M)'
    BY <1>1, <1>2 DEF ClientInv, CallsInv, WriteCommand, Held
  <1>11. BookInv'
    <2>1. \A d \in Callers : call'[d].id = call[d].id /\ (call'[d].at = "idle" <=> call[d].at = "idle")
      <3>1. call'[c].id = call[c].id /\ call'[c].at # "idle"
        BY <1>2 DEF i
      <3> QED
        BY <1>1, <1>2, <3>1
    <2> QED
      BY <2>1 DEF ClientInv, BookInv, WriteCommand
  <1>12. PingInv(mis)'
    <2>1. Count(Append(wire, line), Msg("pong", 0)) = Count(wire, Msg("pong", 0))
      <3>1. line # Msg("pong", 0)
        BY <1>4 DEF Msg
      <3> QED
        BY <1>1, <1>4, <3>1, AppendCount
    <2> QED
      BY <1>1, <2>1 DEF ClientInv, PingInv, WriteCommand
  <1>13. WireInv'
    <2>1. ASSUME NEW x \in Elems(wire'), x # line
          PROVE  x \in Elems(wire) /\ Count(wire', x) = Count(wire, x)
      <3>1. Count(Append(wire, line), x) = Count(wire, x)
        BY <1>1, <1>4, <2>1, AppendCount
      <3> QED
        BY <1>1, <1>8, <2>1, <3>1
    <2>2. Count(wire', line) <= 1
      <3>1. Count(wire, line) = 0
        BY <1>1, <1>3, AbsentCount
      <3>2. Count(Append(wire, line), line) = Count(wire, line) + 1
        BY <1>1, <1>4, AppendCount
      <3>3. wire' = wire => Count(wire', line) = 0
        BY <3>1
      <3>4. wire' = Append(wire, line) => Count(wire', line) = 1
        BY <3>1, <3>2
      <3> QED
        BY <1>1, <3>3, <3>4
    <2>3. ASSUME NEW n \in 1..made, decided[n] = "none"
          PROVE  Behind(wire', Msg("fence", n), Msg("command", n), {})
      <3>1. Behind(wire, Msg("fence", n), Msg("command", n), {})
        BY <2>3 DEF ClientInv, WireInv
      <3>2. Behind(Append(wire, line), Msg("fence", n), Msg("command", n), {})
        BY <1>1, <1>4, <1>7, <3>1, BehindAppend
      <3> QED
        BY <1>1, <3>1, <3>2
    <2>4. \A x \in Elems(wire') :
              /\ x.cmd \in {"command", "fence"} => x.of \in 1..made
              /\ x.cmd = "command" => decided[x.of] = "none" /\ Count(wire', x) <= 1
              /\ x.cmd = "fence" => Fenced(x.of)
              /\ x.cmd = "pong" => x.of = 0
      BY <1>3, <1>4, <2>1, <2>2 DEF ClientInv, WireInv
    <2> QED
      BY <2>3, <2>4 DEF WireInv, WriteCommand, Fenced
  <1>14. WrittenInv'
    <2> SUFFICES ASSUME NEW d \in Callers
                 PROVE  LET n == call'[d].id
                        IN  /\ call'[d].at \in {"lock", "drain"} =>
                                  decided[n] = "none" /\ Msg("command", n) \notin Elems(wire')
                            /\ call'[d].at \in {"lock", "drain", "fence"} =>
                                  Msg("fence", n) \notin Elems(wire')
                            /\ call'[d].at = "fence" =>
                                  /\ Fenced(n)
                                  /\ \/ decided[n] # "none" \/ Msg("command", n) \in Elems(wire')
                                     \/ conn = "dead"
      BY DEF WrittenInv, WriteCommand, Fenced
    <2>1. CASE d = c
      <3>1. call'[d].at = (IF Fenced(i) THEN "fence" ELSE "wait") /\ call'[d].id = i
        BY <1>2, <2>1
      <3>2. Msg("fence", i) \notin Elems(wire')
        BY <1>3, <1>7, <1>8
      <3>3. conn = "dead" \/ Msg("command", i) \in Elems(wire')
        BY <1>1, <1>8 DEF line
      <3> QED
        BY <3>1, <3>2, <3>3
    <2>2. CASE d # c
      <3>1. call'[d] = call[d] /\ call[d].at \notin Held
        BY <1>2, <2>2
      <3>2. call[d].at = "lock" => call[d].id # i
        BY <1>1, <2>2 DEF ClientInv, BookInv, i
      <3>3. call[d].at = "lock" => /\ Msg("command", call[d].id) \notin Elems(wire')
                                   /\ Msg("fence", call[d].id) \notin Elems(wire')
        BY <1>6, <1>7, <1>8, <3>2 DEF ClientInv, WrittenInv
      <3> QED
        BY <3>1, <3>3 DEF ClientInv, WrittenInv, Held
    <2> QED
      BY <2>1, <2>2
  <1>15. \A d \in Callers : call'[d].got = call[d].got
    BY <1>2
  <1>16. FitInv'
    <2>1. \A x : Fits(x)' = Fits(x)
      BY DEF Fits, WriteCommand, Fenced
    <2> QED
      BY <1>15, <2>1 DEF ClientInv, FitInv, WriteCommand
  <1>17. OnceInv'
    BY <1>15 DEF ClientInv, OnceInv, Times, WriteCommand
  <1>18. FaithInv'
    <2> SUFFICES ASSUME NEW d \in Callers, call'[d].at \in {"fence", "wait"}, ~stale'
                 PROVE  /\ Alone(d)'
                        /\ ~dropped' /\ decided'[call'[d].id] # "none" => InOrder(d)'
      BY DEF FaithInv
    <2>1. d = c /\ call'[d].id = i /\ call'[d].got = <<>>
      <3>1. d = c
        BY <1>2 DEF Held
      <3> QED
        BY <1>2, <3>1
    <2>2. decided'[i] = "none"
      BY <1>3 DEF WriteCommand
    <2>3. ~OnItsWay
      BY DEF WriteCommand
    <2>4. \A x \in Elems(wire') : x.cmd \in {"command", "fence"} => x.of = i
      BY <1>4, <1>8, <2>3 DEF OnItsWay, Elems
    <2>5. \A x \in Elems(pipe) : x.of = 0
      BY <2>3 DEF OnItsWay, Elems, ClientInv, StreamsInv
    <2>6. Arrived(d)' = Elems(pipe)
      BY <1>1, <2>1, EmptyStream DEF Arrived, WriteCommand
    <2> QED
      BY <2>1, <2>2, <2>4, <2>5, <2>6 DEF Alone
  <1> QED
    BY <1>9, <1>10, <1>11, <1>12, <1>13, <1>14, <1>16, <1>17, <1>18 DEF ClientInv

LEMMA WriteFenceKeeps ==
  ASSUME NEW M, Carries(M), NEW mis \in Nat, ClientInv(M, mis), NEW c \in Callers, WriteFence(c)
  PROVE  ClientInv(M, mis)'
  <1> DEFINE i == call[c].id
             line == Msg("fence", i)
  <1>1. /\ wire \in Seq(M) /\ call[c].at = "fence"
        /\ \/ conn = "open" /\ wire' = Append(wire, line)
           \/ conn = "dead" /\ wire' = wire
    BY DEF ClientInv, StreamsInv, WriteFence, WriteOK
  <1>2. /\ call'[c] = [at |-> "wait", id |-> i, got |-> call[c].got]
        /\ \A d \in Callers : d # c => call'[d] = call[d] /\ call[d].at \notin Held
        /\ call' \in [Callers -> [at : Places, id : 0..MaxCalls, got : Seq(M)]]
    BY <1>1 DEF ClientInv, CallsInv, WriteFence, Places, Held
  <1>3. /\ i \in Calls /\ i \in 1..made /\ Fenced(i)
        /\ decided[i] # "none" \/ Msg("command", i) \in Elems(wire) \/ conn = "dead"
    BY <1>1, ClientAssumption DEF ClientInv, BookInv, WrittenInv, Calls
  <1>4. line \in M /\ line.cmd = "fence" /\ line.of = i
    BY <1>3 DEF Carries, Message, Msg, Calls
  <1> HIDE DEF i
  <1>5. Append(wire, line) \in Seq(M) /\ Elems(Append(wire, line)) = Elems(wire) \cup {line}
    BY <1>1, <1>4, AppendElems
  <1>6. \A n : Msg("fence", n) = line => n = i
    BY <1>4 DEF Msg
  <1>7. \A n : Msg("command", n) # line
    BY <1>4 DEF Msg
  <1> HIDE DEF line
  <1>8. /\ wire' \in Seq(M) /\ Elems(wire') \subseteq Elems(wire) \cup {line}
        /\ Elems(wire) \subseteq Elems(wire')
    BY <1>1, <1>5
  <1>9. StreamsInv(M)'
    BY <1>8 DEF ClientInv, StreamsInv, WriteFence
  <1>10. CallsInv(M)'
    BY <1>1, <1>2 DEF ClientInv, CallsInv, WriteFence, Held
  <1>11. BookInv'
    <2>1. \A d \in Callers : call'[d].id = call[d].id /\ (call'[d].at = "idle" <=> call[d].at = "idle")
      <3>1. call'[c].id = call[c].id /\ call'[c].at # "idle"
        BY <1>2 DEF i
      <3> QED
        BY <1>1, <1>2, <3>1
    <2> QED
      BY <2>1 DEF ClientInv, BookInv, WriteFence
  <1>12. PingInv(mis)'
    <2>1. Count(Append(wire, line), Msg("pong", 0)) = Count(wire, Msg("pong", 0))
      <3>1. line # Msg("pong", 0)
        BY <1>4 DEF Msg
      <3> QED
        BY <1>1, <1>4, <3>1, AppendCount
    <2> QED
      BY <1>1, <2>1 DEF ClientInv, PingInv, WriteFence
  <1>13. WireInv'
    <2>1. ASSUME NEW x \in Elems(wire'), x # line
          PROVE  x \in Elems(wire) /\ Count(wire', x) = Count(wire, x)
      <3>1. Count(Append(wire, line), x) = Count(wire, x)
        BY <1>1, <1>4, <2>1, AppendCount
      <3> QED
        BY <1>1, <1>8, <2>1, <3>1
    <2>2. ASSUME NEW n \in 1..made, decided[n] = "none"
          PROVE  Behind(wire', Msg("fence", n), Msg("command", n), {})
      <3>1. Behind(wire, Msg("fence", n), Msg("command", n), {})
        BY <2>2 DEF ClientInv, WireInv
      <3>2. ASSUME conn = "open"
            PROVE  Behind(Append(wire, line), Msg("fence", n), Msg("command", n), {})
        <4>1. line = Msg("fence", n) => Msg("command", n) \in {} \cup Elems(wire)
          BY <1>3, <1>6, <2>2, <3>2
        <4> QED
          BY <1>1, <1>4, <3>1, <4>1, BehindAppend
      <3> QED
        BY <1>1, <3>1, <3>2
    <2>3. \A x \in Elems(wire') :
              /\ x.cmd \in {"command", "fence"} => x.of \in 1..made
              /\ x.cmd = "command" => decided[x.of] = "none" /\ Count(wire', x) <= 1
              /\ x.cmd = "fence" => Fenced(x.of)
              /\ x.cmd = "pong" => x.of = 0
      BY <1>3, <1>4, <2>1 DEF ClientInv, WireInv
    <2> QED
      BY <2>2, <2>3 DEF WireInv, WriteFence, Fenced
  <1>14. WrittenInv'
    <2> SUFFICES ASSUME NEW d \in Callers, d # c, call[d].at \notin Held
                 PROVE  call[d].at = "lock" =>
                            /\ decided[call[d].id] = "none"
                            /\ Msg("command", call[d].id) \notin Elems(wire')
                            /\ Msg("fence", call[d].id) \notin Elems(wire')
      BY <1>2 DEF WrittenInv, WriteFence, Held
    <2>1. call[d].at = "lock" => call[d].id # i
      BY <1>1 DEF ClientInv, BookInv, i
    <2> QED
      BY <1>6, <1>7, <1>8, <2>1 DEF ClientInv, WrittenInv
  <1>15. \A d \in Callers : call'[d].got = call[d].got
    BY <1>2
  <1>16. FitInv'
    <2>1. \A x : Fits(x)' = Fits(x)
      BY DEF Fits, WriteFence, Fenced
    <2> QED
      BY <1>15, <2>1 DEF ClientInv, FitInv, WriteFence
  <1>17. OnceInv'
    BY <1>15 DEF ClientInv, OnceInv, Times, WriteFence
  <1>18. FaithInv'
    <2> SUFFICES ASSUME ~stale
                 PROVE  /\ Alone(c)'
                        /\ ~dropped /\ decided[i] # "none" => InOrder(c)'
      BY <1>2 DEF FaithInv, WriteFence, Held
    <2>1. /\ Alone(c)
          /\ ~dropped /\ decided[i] # "none" => InOrder(c)
      BY <1>1 DEF ClientInv, FaithInv, i
    <2>2. call'[c].id = i /\ call'[c].got = call[c].got /\ call[c].id = i /\ i' = i
      BY <1>2 DEF i
    <2>3. Arrived(c)' = Arrived(c) /\ First(i)' = First(i) /\ Last(i)' = Last(i)
      BY <2>2 DEF Arrived, First, Last, WriteFence, Fenced
    <2>4. Alone(c)'
      BY <1>4, <1>8, <2>1, <2>2, <2>3 DEF Alone
    <2>5. InOrder(c) => InOrder(c)'
      BY <2>2, <2>3 DEF InOrder, WriteFence
    <2> QED
      BY <2>1, <2>4, <2>5
  <1> QED
    BY <1>9, <1>10, <1>11, <1>12, <1>13, <1>14, <1>16, <1>17, <1>18 DEF ClientInv

LEMMA JudgeIsVerdict ==
  ASSUME NEW i, kind[i] \in AllKinds, NEW got
  PROVE  Judge(i, got) \in Verdicts
  <1>1. JudgeServ(got) \in Verdicts /\ JudgeAdd(got) \in Verdicts /\ JudgeChange(got) \in Verdicts
    BY DEF JudgeServ, JudgeAdd, JudgeChange, FailError, Verdicts
  <1>2. JudgeNames(i, got) \in Verdicts
    BY DEF JudgeNames, JudgeFirst, Verdicts
  <1> QED
    BY <1>1, <1>2 DEF Judge, AllKinds

LEMMA ReceiveKeeps ==
  ASSUME NEW M, Carries(M), NEW mis \in Nat, ClientInv(M, mis), NEW c \in Callers, Receive(c)
  PROVE  ClientInv(M, mis)'
  <1> DEFINE i == call[c].id
             m == Head(in)
  <1>1. /\ in \in Seq(M) /\ in # <<>> /\ in' = Tail(in) /\ call[c].at = "wait"
        /\ call[c].got \in Seq(M)
    BY DEF ClientInv, StreamsInv, CallsInv, Receive
  <1>2. /\ m \in M /\ m \in Elems(in)
        /\ in' \in Seq(M) /\ Elems(in) = Elems(in') \cup {m} /\ Len(in') <= Len(in)
    BY <1>1, HeadElems, HeadTailElems
  <1>3. CASE Ends(i, m)
    <2>1. kind[i] \in AllKinds
      BY <1>1, ClientAssumption DEF ClientInv, BookInv, Calls
    <2>2. Judge(i, call[c].got) \in Verdicts
      BY <2>1, JudgeIsVerdict
    <2>3. Return(c, Judge(i, call[c].got))
      BY <1>3 DEF Receive
    <2>4. UNCHANGED <<wire, pipe, conn, gone, made, noises, owed, kind, decided, stale, dropped>>
      BY DEF Receive
    <2>5. call[c].at \in Held
      BY <1>1 DEF Held
    <2> QED
      BY <1>1, <2>2, <2>3, <2>4, <2>5, LeaveKeeps
  <1>4. CASE ~Ends(i, m)
    <2> DEFINE more == Append(call[c].got, m)
    <2>1. /\ call'[c] = [at |-> "wait", id |-> i, got |-> more]
          /\ \A d \in Callers : d # c => call'[d] = call[d] /\ call[d].at \notin Held
          /\ lock' = lock /\ result' = result
      BY <1>1, <1>4 DEF ClientInv, CallsInv, Receive, Held
    <2>2. more \in Seq(M) /\ Elems(more) = Elems(call[c].got) \cup {m}
      BY <1>1, <1>2, AppendElems
    <2>3. call' \in [Callers -> [at : Places, id : 0..MaxCalls, got : Seq(M)]]
      <3>1. call \in [Callers -> [at : Places, id : 0..MaxCalls, got : Seq(M)]]
        BY DEF ClientInv, CallsInv
      <3>2. [call[c] EXCEPT !.got = more] \in [at : Places, id : 0..MaxCalls, got : Seq(M)]
        BY <2>2, <3>1
      <3>3. call' = [call EXCEPT ![c] = [call[c] EXCEPT !.got = more]]
        BY <1>4 DEF Receive
      <3> QED
        BY <3>1, <3>2, <3>3
    <2> HIDE DEF more, m
    <2>4. StreamsInv(M)'
      <3>1. Len(in') <= Cap
        BY <1>1, <1>2, ClientAssumption DEF ClientInv, StreamsInv
      <3> QED
        BY <1>2, <3>1 DEF ClientInv, StreamsInv, Receive
    <2>5. CallsInv(M)'
      BY <1>1, <2>1, <2>3 DEF ClientInv, CallsInv, Receive, Held
    <2>6. BookInv'
      <3>1. \A d \in Callers : call'[d].id = call[d].id /\ (call'[d].at = "idle" <=> call[d].at = "idle")
        <4>1. call'[c].id = call[c].id /\ call'[c].at # "idle"
          BY <2>1
        <4> QED
          BY <1>1, <2>1, <4>1
      <3> QED
        BY <2>1, <3>1 DEF ClientInv, BookInv, Receive
    <2>7. PingInv(mis)' /\ WireInv'
      BY DEF ClientInv, PingInv, WireInv, Receive, Fenced
    <2>8. WrittenInv'
      BY <2>1 DEF ClientInv, WrittenInv, Receive, Fenced
    <2>9. FitInv'
      <3>1. \A x : Fits(x)' = Fits(x)
        BY DEF Fits, Receive, Fenced
      <3>2. \A x \in Elems(call'[c].got) : Fits(x)
        BY <1>2, <2>1, <2>2 DEF ClientInv, FitInv
      <3>3. \A d \in Callers : d # c => call'[d] = call[d]
        BY <2>1
      <3> QED
        BY <1>2, <3>1, <3>2, <3>3 DEF ClientInv, FitInv, Receive
    <2>10. OnceInv'
      <3> SUFFICES ASSUME NEW d \in Callers, NEW n \in Calls, NEW w \in {"errline", "op", "noop"},
                          NEW x, x = Msg(w, n)
                   PROVE  Times(d, x)' <= 1
        BY DEF OnceInv
      <3>1. /\ Times(d, x) <= 1 /\ Count(pipe, x) \in Nat /\ Count(in, x) \in Nat
            /\ Count(in', x) \in Nat /\ Count(call[d].got, x) \in Nat
        BY <1>1, <1>2, AtFinite DEF ClientInv, StreamsInv, CallsInv, OnceInv
      <3>2. Count(in, x) = IF m = x THEN Count(in', x) + 1 ELSE Count(in', x)
        BY <1>1, TailCount DEF m
      <3>3. CASE d = c
        <4>1. Count(more, x) = IF m = x THEN Count(call[c].got, x) + 1 ELSE Count(call[c].got, x)
          BY <1>1, <1>2, AppendCount DEF more
        <4>2. call'[d].got = more
          BY <2>1, <3>3
        <4> QED
          BY <3>1, <3>2, <3>3, <4>1, <4>2 DEF Times, Receive
      <3>4. CASE d # c
        BY <2>1, <3>1, <3>2, <3>4 DEF Times, Receive
      <3> QED
        BY <3>3, <3>4
    <2>11. FaithInv'
      <3> SUFFICES ASSUME ~stale
                   PROVE  /\ Alone(c)'
                          /\ ~dropped /\ decided[i] # "none" => InOrder(c)'
        BY <2>1 DEF FaithInv, Receive, Held
      <3>1. /\ Alone(c)
            /\ ~dropped /\ decided[i] # "none" => InOrder(c)
        BY <1>1 DEF ClientInv, FaithInv
      <3>2. call'[c].id = i /\ call'[c].got = more
        BY <2>1
      <3>3. Arrived(c)' = Arrived(c)
        BY <1>2, <2>2, <3>2 DEF Arrived, Receive
      <3>4. Alone(c)'
        BY <3>1, <3>2, <3>3 DEF Alone, Receive
      <3>5. ASSUME InOrder(c)
            PROVE  InOrder(c)'
        <4> DEFINE x == Last(i)
                   y == First(i)
                   seen == Elems(call[c].got)
        <4>1. /\ conn = "open" => y \in Arrived(c)
              /\ Behind(in, x, y, seen) /\ Behind(pipe, x, y, seen \cup Elems(in))
          BY <3>5 DEF InOrder
        <4>2. Elems(call'[c].got) = seen \cup {m}
          BY <2>2, <3>2
        <4>3. /\ x' = x /\ y' = y /\ conn' = conn /\ pipe' = pipe /\ i' = i
          BY <3>2 DEF Receive, First, Last, Fenced
        <4> HIDE DEF x, y, seen
        <4>4. Behind(in', x, y, seen \cup {m})
          BY <1>1, <4>1, BehindTail DEF m
        <4>5. seen \cup {m} \cup Elems(in') = seen \cup Elems(in)
          BY <1>2
        <4> QED
          BY <3>3, <4>1, <4>2, <4>3, <4>4, <4>5 DEF InOrder, x, y, i
      <3> QED
        BY <3>1, <3>4, <3>5
    <2> QED
      BY <2>4, <2>5, <2>6, <2>7, <2>8, <2>9, <2>10, <2>11 DEF ClientInv
  <1> QED
    BY <1>3, <1>4

-----------------------------------------------------------------------------
(* soju's steps.                                                           *)

LEMMA BehindAbsent ==
  ASSUME NEW M, NEW q \in Seq(M), NEW x, NEW y, NEW taken, x \notin Elems(q)
  PROVE  Behind(q, x, y, taken)
  BY DEF Behind, Elems

(* soju takes a line that is no command.                                   *)
LEMMA TakesLine ==
  ASSUME NEW M, wire \in Seq(M), wire # <<>>, WireInv, WrittenInv,
         Head(wire).cmd # "command", wire' = Tail(wire),
         UNCHANGED <<conn, call, made, kind, decided>>
  PROVE  WireInv' /\ WrittenInv'
  <1> DEFINE m == Head(wire)
  <1>1. Elems(wire) = Elems(wire') \cup {m} /\ m.cmd # "command"
    BY HeadTailElems
  <1>2. \A x : Msg("command", x) # m
    BY <1>1 DEF Msg
  <1>3. WireInv'
    <2>1. ASSUME NEW x \in Elems(wire'), x.cmd = "command"
          PROVE  Count(wire', x) <= 1
      <3>1. x # m /\ Count(wire, x) <= 1
        BY <1>1, <2>1 DEF WireInv
      <3> QED
        BY <3>1, TailCount
    <2>2. ASSUME NEW n \in 1..made, decided[n] = "none"
          PROVE  Behind(wire', Msg("fence", n), Msg("command", n), {})
      <3>1. Behind(wire, Msg("fence", n), Msg("command", n), {})
        BY <2>2 DEF WireInv
      <3>2. Behind(wire', Msg("fence", n), Msg("command", n), {} \cup {m})
        BY <3>1, BehindTail
      <3> HIDE DEF m
      <3> QED
        BY <1>2, <3>2 DEF Behind
    <2> HIDE DEF m
    <2> QED
      BY <1>1, <2>1, <2>2 DEF WireInv, Fenced
  <1> HIDE DEF m
  <1>4. WrittenInv'
    BY <1>1, <1>2 DEF WrittenInv, Fenced
  <1> QED
    BY <1>3, <1>4

LEMMA TakePongKeeps ==
  ASSUME NEW M, Carries(M), NEW mis \in Nat, ClientInv(M, mis), TakePong
  PROVE  ClientInv(M, mis)'
  <1>1. /\ wire \in Seq(M) /\ wire # <<>> /\ wire' = Tail(wire)
        /\ Head(wire).cmd = "pong"
    BY DEF ClientInv, StreamsInv, TakePong
  <1>2. /\ wire' \in Seq(M) /\ Elems(wire') \subseteq Elems(wire)
        /\ Head(wire) \in Elems(wire) /\ Head(wire) \in M
    BY <1>1, HeadElems
  <1>3. Head(wire) = Msg("pong", 0)
    BY <1>1, <1>2 DEF ClientInv, WireInv, Carries
  <1>4. StreamsInv(M)'
    BY <1>2 DEF ClientInv, StreamsInv, TakePong
  <1>5. CallsInv(M)' /\ BookInv'
    BY DEF ClientInv, CallsInv, BookInv, TakePong
  <1>6. PingInv(mis)'
    <2>1. Count(wire, Msg("pong", 0)) = Count(wire', Msg("pong", 0)) + 1
      BY <1>1, <1>3, TailCount
    <2>2. Count(wire', Msg("pong", 0)) \in Nat /\ Count(pipe, Msg("ping", 0)) \in Nat
      BY <1>2, AtFinite DEF ClientInv, StreamsInv
    <2>3. owed \in 0..MaxNoise /\ noises \in 0..MaxNoise /\ MaxNoise \in Nat
      BY ClientAssumption DEF ClientInv, PingInv
    <2> QED
      BY <2>1, <2>2, <2>3 DEF ClientInv, PingInv, TakePong
  <1>7. WireInv' /\ WrittenInv'
    BY <1>1, TakesLine DEF ClientInv, TakePong
  <1>8. FitInv' /\ OnceInv'
    BY DEF ClientInv, FitInv, Fits, OnceInv, Times, TakePong, Fenced
  <1>9. FaithInv'
    <2> SUFFICES ASSUME NEW c \in Callers, call[c].at \in {"fence", "wait"}, ~stale
                 PROVE  /\ Alone(c)'
                        /\ ~dropped /\ decided[call[c].id] # "none" => InOrder(c)'
      BY DEF FaithInv, TakePong
    <2>1. /\ Alone(c)
          /\ ~dropped /\ decided[call[c].id] # "none" => InOrder(c)
      BY DEF ClientInv, FaithInv
    <2>2. InOrder(c) => InOrder(c)'
      BY DEF InOrder, Arrived, First, Last, TakePong, Fenced
    <2>3. Alone(c)'
      BY <1>2, <2>1 DEF Alone, Arrived, TakePong
    <2> QED
      BY <2>1, <2>2, <2>3
  <1> QED
    BY <1>4, <1>5, <1>6, <1>7, <1>8, <1>9 DEF ClientInv

LEMMA ServeFenceKeeps ==
  ASSUME NEW M, Carries(M), NEW mis \in Nat, ClientInv(M, mis), ServeFence
  PROVE  ClientInv(M, mis)'
  <1> DEFINE i == Head(wire).of
             pong == Msg("pong", i)
  <1>1. /\ wire \in Seq(M) /\ wire # <<>> /\ wire' = Tail(wire) /\ pipe \in Seq(M)
        /\ Head(wire).cmd = "fence"
        /\ \/ conn = "open" /\ pipe' = Append(pipe, pong)
           \/ conn = "dead" /\ pipe' = pipe
    BY DEF ClientInv, StreamsInv, ServeFence
  <1>2. /\ wire' \in Seq(M) /\ Elems(wire') \subseteq Elems(wire)
        /\ Head(wire) \in Elems(wire) /\ Head(wire) \in M
    BY <1>1, HeadElems
  <1>3. Head(wire) = Msg("fence", i) /\ i \in 1..made /\ Fenced(i)
    BY <1>1, <1>2 DEF ClientInv, WireInv, Carries
  <1>4. decided[i] # "none"
    <2> HIDE DEF i
    <2> SUFFICES ASSUME decided[i] = "none"
                 PROVE  FALSE
      OBVIOUS
    <2>1. Behind(wire, Msg("fence", i), Msg("command", i), {})
      BY <1>3 DEF ClientInv, WireInv
    <2>2. 1 \in 1..Len(wire) /\ wire[1] = Msg("fence", i)
      BY <1>1, <1>3, HeadElems
    <2> QED
      BY <2>1, <2>2 DEF Behind
  <1>5. i # 0 /\ i \in 0..MaxCalls
    BY <1>3, ClientAssumption DEF ClientInv, BookInv
  <1>6. pong \in M /\ pong.cmd = "pong" /\ pong.of = i
    BY <1>5 DEF Carries, Message, Msg
  <1> HIDE DEF i
  <1>7. /\ Append(pipe, pong) \in Seq(M) /\ Elems(Append(pipe, pong)) = Elems(pipe) \cup {pong}
    BY <1>1, <1>6, AppendElems
  <1>8. pipe' \in Seq(M) /\ Elems(pipe') \subseteq Elems(pipe) \cup {pong}
        /\ Elems(pipe) \subseteq Elems(pipe')
    BY <1>1, <1>7
  <1>9. StreamsInv(M)'
    BY <1>2, <1>8 DEF ClientInv, StreamsInv, ServeFence
  <1>10. CallsInv(M)' /\ BookInv'
    BY DEF ClientInv, CallsInv, BookInv, ServeFence
  <1>11. ASSUME NEW x, x # pong
         PROVE  Count(pipe', x) = Count(pipe, x)
    <2>1. Count(Append(pipe, pong), x) = Count(pipe, x)
      BY <1>1, <1>6, <1>11, AppendCount
    <2> QED
      BY <1>1, <2>1
  <1>12. PingInv(mis)'
    <2>1. Count(wire, Msg("pong", 0)) = Count(wire', Msg("pong", 0))
      <3>1. Head(wire) # Msg("pong", 0)
        BY <1>1 DEF Msg
      <3> QED
        BY <1>1, <3>1, TailCount
    <2>2. Count(pipe', Msg("ping", 0)) = Count(pipe, Msg("ping", 0))
      <3>1. pong # Msg("ping", 0)
        BY <1>6 DEF Msg
      <3> QED
        BY <3>1, <1>11
    <2> QED
      BY <2>1, <2>2 DEF ClientInv, PingInv, ServeFence
  <1>13. WireInv' /\ WrittenInv'
    BY <1>1, TakesLine DEF ClientInv, ServeFence
  <1>14. FitInv'
    <2>1. \A x : Fits(x)' = Fits(x)
      BY DEF Fits, ServeFence, Fenced
    <2>2. Fits(pong)
      BY <1>3, <1>4, <1>5, <1>6 DEF Fits
    <2> HIDE DEF pong
    <2> QED
      BY <1>8, <2>1, <2>2 DEF ClientInv, FitInv, ServeFence
  <1>15. OnceInv'
    <2> SUFFICES ASSUME NEW c \in Callers, NEW n \in Calls, NEW w \in {"errline", "op", "noop"},
                        NEW x, x = Msg(w, n)
                 PROVE  Times(c, x)' <= 1
      BY DEF OnceInv
    <2>1. Times(c, x) <= 1
      BY DEF ClientInv, OnceInv
    <2>2. x # pong
      BY <1>6 DEF Msg
    <2> QED
      BY <1>11, <2>1, <2>2 DEF Times, ServeFence
  <1>16. FaithInv'
    <2> SUFFICES ASSUME NEW c \in Callers, call[c].at \in {"fence", "wait"}, ~stale
                 PROVE  /\ Alone(c)'
                        /\ ~dropped /\ decided[call[c].id] # "none" => InOrder(c)'
      BY DEF FaithInv, ServeFence
    <2>1. /\ Alone(c)
          /\ ~dropped /\ decided[call[c].id] # "none" => InOrder(c)
      BY DEF ClientInv, FaithInv
    <2>2. call[c].id = i
      BY <1>1, <1>2, <2>1 DEF Alone, i
    <2>3. Alone(c)'
      BY <1>2, <1>6, <1>8, <2>1, <2>2 DEF Alone, Arrived, ServeFence
    <2>4. ASSUME InOrder(c)
          PROVE  InOrder(c)'
      <3> DEFINE x == Last(call[c].id)
                 y == First(call[c].id)
                 seen == Elems(call[c].got) \cup Elems(in)
      <3>1. /\ conn = "open" => y \in Arrived(c)
            /\ Behind(in, x, y, Elems(call[c].got)) /\ Behind(pipe, x, y, seen)
        BY <2>4 DEF InOrder
      <3>2. x' = x /\ y' = y /\ seen' = seen
        BY DEF ServeFence, First, Last, Fenced
      <3>3. conn = "open" => y \in Arrived(c)'
        BY <1>8, <3>1 DEF Arrived, ServeFence
      <3>4. y \in Arrived(c) => y \in seen \cup Elems(pipe)
        BY DEF Arrived
      <3> HIDE DEF x, y, seen, pong
      <3>5. conn = "open" => Behind(Append(pipe, pong), x, y, seen)
        BY <1>1, <1>6, <3>1, <3>4, BehindAppend
      <3>6. Behind(pipe', x, y, seen)
        BY <1>1, <3>1, <3>5
      <3> QED
        BY <3>1, <3>2, <3>3, <3>6 DEF InOrder, x, y, seen, ServeFence
    <2> QED
      BY <2>1, <2>3, <2>4
  <1> QED
    BY <1>9, <1>10, <1>12, <1>13, <1>14, <1>15, <1>16 DEF ClientInv

(* soju's answer: its key word first, and perhaps one message more.        *)
LEMMA RepliesAre ==
  ASSUME NEW i \in 1..MaxCalls, kind[i] \in AllKinds, NEW v \in {"ok", "err"},
         NEW reply \in Replies(i, v)
  PROVE  LET first == Msg(Key(kind[i], v), i)
         IN  \/ reply = <<first>>
             \/ \E w \in {"line", "end"} \cap Words(kind[i], v) : reply = <<first, Msg(w, i)>>
  BY DEF Replies, AllKinds, Key, Words

LEMMA ServeCommandKeeps ==
  ASSUME NEW M, Carries(M), NEW mis \in Nat, ClientInv(M, mis), ServeCommand
  PROVE  ClientInv(M, mis)'
  <1> DEFINE i == Head(wire).of
  <1>1. /\ wire \in Seq(M) /\ wire # <<>> /\ wire' = Tail(wire) /\ pipe \in Seq(M)
        /\ in \in Seq(M) /\ Head(wire).cmd = "command"
    BY DEF ClientInv, StreamsInv, ServeCommand
  <1>2. /\ wire' \in Seq(M) /\ Elems(wire) = Elems(wire') \cup {Head(wire)}
        /\ Head(wire) \in M /\ Head(wire) \in Elems(wire)
    BY <1>1, HeadElems, HeadTailElems
  <1>3. /\ Head(wire) = Msg("command", i) /\ i \in 1..made /\ decided[i] = "none"
        /\ Count(wire, Head(wire)) <= 1
    BY <1>1, <1>2 DEF ClientInv, WireInv, Carries
  <1>4. Head(wire) \notin Elems(wire')
    <2>1. Count(wire, Head(wire)) = Count(wire', Head(wire)) + 1
      BY <1>1, TailCount
    <2>2. Count(wire', Head(wire)) = 0
      BY <1>2, <1>3, <2>1, AtFinite
    <2> SUFFICES ASSUME NEW j \in 1..Len(wire'), wire'[j] = Head(wire)
                 PROVE  FALSE
      BY DEF Elems
    <2>3. j \in At(wire', Head(wire)) /\ IsFiniteSet(At(wire', Head(wire)))
      BY <1>2, AtFinite DEF At
    <2> QED
      BY <2>2, <2>3, FS_EmptySet DEF Count
  <1>5. PICK v \in {"ok", "err"} :
           /\ decided' = [decided EXCEPT ![i] = v]
           /\ \E reply \in Replies(i, v) : pipe' = IF conn = "open" THEN pipe \o reply ELSE pipe
    BY DEF ServeCommand
  <1>6. /\ i \in Calls /\ i # 0 /\ i \in 0..MaxCalls /\ i \in 1..MaxCalls
        /\ kind[i] \in AllKinds
    BY <1>3, ClientAssumption DEF ClientInv, BookInv, Calls
  <1> HIDE DEF i
  <1> DEFINE first == Msg(Key(kind[i], v), i)
  <1>7. /\ first \in M /\ first.cmd \in AnswerWords \ {"end"} /\ first.of = i
        /\ first.cmd = Key(kind[i], v)
    <2>1. Key(kind[i], v) \in AnswerWords \ {"end"}
      BY <1>6, AnswersAre
    <2> QED
      BY <1>6, <2>1 DEF Carries, Message, Msg, AnswerWords
  <1>8. PICK w \in {"line", "end"} :
           LET second == Msg(w, i)
           IN  \/ conn = "open" /\ pipe' = Append(pipe, first)
               \/ /\ conn = "open" /\ pipe' = Append(Append(pipe, first), second)
                  /\ w \in Words(kind[i], v)
               \/ conn # "open" /\ pipe' = pipe
    <2>1. PICK reply \in Replies(i, v) : pipe' = IF conn = "open" THEN pipe \o reply ELSE pipe
      BY <1>5
    <2>2. CASE conn # "open"
      BY <2>1, <2>2
    <2>3. CASE conn = "open" /\ reply = <<first>>
      <3>1. pipe \o <<first>> = Append(pipe, first)
        BY <1>1, <1>7, ConcatAppend
      <3> QED
        BY <2>1, <2>3, <3>1
    <2>4. ASSUME conn = "open", NEW w \in {"line", "end"} \cap Words(kind[i], v),
                 reply = <<first, Msg(w, i)>>
          PROVE  pipe' = Append(Append(pipe, first), Msg(w, i)) /\ w \in Words(kind[i], v)
      <3>1. Msg(w, i) \in M
        BY <1>6, <2>4 DEF Carries, Message, Msg
      <3>2. pipe \o <<first, Msg(w, i)>> = Append(Append(pipe, first), Msg(w, i))
        BY <1>1, <1>7, <3>1, ConcatAppend
      <3> QED
        BY <2>1, <2>4, <3>2
    <2> HIDE DEF first
    <2>5. reply = <<first>> \/ \E w \in {"line", "end"} \cap Words(kind[i], v) : reply = <<first, Msg(w, i)>>
      BY <1>6, RepliesAre DEF first
    <2> QED
      BY <2>2, <2>3, <2>4, <2>5
  <1> DEFINE second == Msg(w, i)
             one == Append(pipe, first)
             two == Append(one, second)
  <1>9. second \in M /\ second.cmd = w /\ second.of = i
    BY <1>6, <1>8 DEF Carries, Message, Msg, AnswerWords
  <1> HIDE DEF first, second
  <1>10. /\ one \in Seq(M) /\ Elems(one) = Elems(pipe) \cup {first}
         /\ two \in Seq(M) /\ Elems(two) = Elems(pipe) \cup {first, second}
    <2>1. one \in Seq(M) /\ Elems(one) = Elems(pipe) \cup {first}
      BY <1>1, <1>7, AppendElems
    <2> HIDE DEF one
    <2>2. two \in Seq(M) /\ Elems(two) = Elems(one) \cup {second}
      BY <1>9, <2>1, AppendElems
    <2> QED
      BY <2>1, <2>2
  <1>11. \/ conn = "open" /\ pipe' = one
         \/ conn = "open" /\ pipe' = two /\ w \in Words(kind[i], v)
         \/ conn # "open" /\ pipe' = pipe
    BY <1>8 DEF second
  <1> HIDE DEF one, two
  <1>12. /\ pipe' \in Seq(M) /\ Elems(pipe) \subseteq Elems(pipe')
         /\ Elems(pipe') \subseteq Elems(pipe) \cup {first, second}
         /\ conn = "open" => first \in Elems(pipe')
         /\ second \in Elems(pipe') => second \in Elems(pipe) \/ second = first \/ w \in Words(kind[i], v)
    BY <1>1, <1>10, <1>11
  <1>13. /\ decided'[i] = v /\ \A n \in Calls : n # i => decided'[n] = decided[n]
         /\ decided' \in [Calls -> {"none", "ok", "err"}]
    BY <1>5, <1>6 DEF ClientInv, BookInv
  <1>14. StreamsInv(M)'
    BY <1>2, <1>12 DEF ClientInv, StreamsInv, ServeCommand
  <1>15. CallsInv(M)'
    BY DEF ClientInv, CallsInv, ServeCommand
  <1>16. BookInv'
    <2>1. \A n \in Calls : n > made => n # i
      BY <1>3 DEF ClientInv, BookInv, Calls
    <2>2. made \in Nat
      BY ClientAssumption DEF ClientInv, BookInv
    <2>3. \A n \in Calls : IF n <= made THEN kind[n] \in Kinds
                                        ELSE decided'[n] = "none" /\ result[n] = "none"
      BY <1>13, <2>1, <2>2 DEF ClientInv, BookInv, Calls
    <2> QED
      BY <1>13, <2>3 DEF ClientInv, BookInv, ServeCommand
  <1>17. ASSUME NEW x, x # first, x # second
         PROVE  Count(pipe', x) = Count(pipe, x)
    <2>1. Count(one, x) = Count(pipe, x)
      BY <1>1, <1>7, <1>17, AppendCount DEF one
    <2>2. Count(two, x) = Count(one, x)
      BY <1>9, <1>10, <1>17, AppendCount DEF two
    <2> QED
      BY <1>11, <2>1, <2>2
  <1>18. PingInv(mis)'
    <2>1. Count(wire, Msg("pong", 0)) = Count(wire', Msg("pong", 0))
      <3>1. Head(wire) # Msg("pong", 0)
        BY <1>1 DEF Msg
      <3> QED
        BY <1>1, <3>1, TailCount
    <2>2. Count(pipe', Msg("ping", 0)) = Count(pipe, Msg("ping", 0))
      <3>1. Msg("ping", 0) # first /\ Msg("ping", 0) # second
        BY <1>6, <1>7, <1>9 DEF Msg
      <3> QED
        BY <3>1, <1>17
    <2> QED
      BY <2>1, <2>2 DEF ClientInv, PingInv, ServeCommand
  <1>19. \A n \in 1..made : n \in Calls
    BY <1>6, ClientAssumption DEF ClientInv, BookInv, Calls
  <1>20. \A n : Msg("command", n) = Head(wire) <=> n = i
    BY <1>3 DEF Msg
  <1>21. WireInv'
    <2>1. ASSUME NEW x \in Elems(wire'), x.cmd = "command"
          PROVE  /\ x.of \in 1..made /\ decided'[x.of] = "none" /\ Count(wire', x) <= 1
      <3>1. x # Head(wire) /\ x \in Elems(wire) /\ x \in M
        BY <1>2, <1>4, <2>1, HeadElems DEF Elems
      <3>2. x.of \in 1..made /\ decided[x.of] = "none" /\ Count(wire, x) <= 1
        BY <2>1, <3>1 DEF ClientInv, WireInv
      <3>3. x = Msg("command", x.of)
        BY <2>1, <3>1 DEF Carries
      <3>4. x.of # i
        BY <1>20, <3>1, <3>3
      <3>5. Count(wire', x) = Count(wire, x)
        BY <1>1, <3>1, TailCount
      <3> QED
        BY <1>13, <1>19, <3>2, <3>4, <3>5
    <2>2. ASSUME NEW n \in 1..made, decided'[n] = "none"
          PROVE  Behind(wire', Msg("fence", n), Msg("command", n), {})
      <3>1. n # i /\ decided[n] = "none"
        BY <1>13, <1>19, <2>2
      <3>2. Behind(wire, Msg("fence", n), Msg("command", n), {})
        BY <3>1 DEF ClientInv, WireInv
      <3>3. Behind(wire', Msg("fence", n), Msg("command", n), {} \cup {Head(wire)})
        BY <1>1, <3>2, BehindTail
      <3> QED
        BY <1>20, <3>1, <3>3 DEF Behind
    <2> QED
      BY <1>2, <2>1, <2>2 DEF ClientInv, WireInv, ServeCommand, Fenced
  <1>22. WrittenInv'
    <2> SUFFICES ASSUME NEW d \in Callers, call[d].at \in {"lock", "drain", "fence"},
                        NEW n, n = call[d].id
                 PROVE  /\ call[d].at \in {"lock", "drain"} =>
                              decided'[n] = "none" /\ Msg("command", n) \notin Elems(wire')
                        /\ Msg("fence", n) \notin Elems(wire')
                        /\ call[d].at = "fence" =>
                              /\ Fenced(n)
                              /\ decided'[n] # "none" \/ Msg("command", n) \in Elems(wire') \/ conn = "dead"
      BY DEF WrittenInv, ServeCommand, Fenced
    <2>1. n \in Calls
      BY <1>19 DEF ClientInv, BookInv
    <2>2. /\ call[d].at \in {"lock", "drain"} =>
                decided[n] = "none" /\ Msg("command", n) \notin Elems(wire)
          /\ Msg("fence", n) \notin Elems(wire)
          /\ call[d].at = "fence" =>
                /\ Fenced(n)
                /\ decided[n] # "none" \/ Msg("command", n) \in Elems(wire) \/ conn = "dead"
      BY DEF ClientInv, WrittenInv
    <2>3. CASE n = i
      <3>1. Msg("command", n) \in Elems(wire)
        BY <1>2, <1>20, <2>3
      <3> QED
        BY <1>2, <1>13, <2>2, <2>3, <3>1
    <2>4. CASE n # i
      <3>1. Msg("command", n) \in Elems(wire) <=> Msg("command", n) \in Elems(wire')
        BY <1>2, <1>20, <2>4
      <3>2. decided'[n] = decided[n]
        BY <1>13, <2>1, <2>4
      <3> QED
        BY <1>2, <2>2, <3>1, <3>2
    <2> QED
      BY <2>3, <2>4
  <1>23. ASSUME NEW x, Fits(x)
         PROVE  x.of # i /\ Fits(x)'
    <2>1. x.of # i
      BY <1>3, <1>6, <1>23 DEF Fits
    <2>2. x.of \in 1..made => decided'[x.of] = decided[x.of]
      BY <1>13, <1>19, <2>1
    <2> QED
      BY <1>23, <2>1, <2>2 DEF Fits, ServeCommand, Fenced
  <1>24. \A x \in Elems(pipe) \cup Elems(in) : Fits(x)
    BY DEF ClientInv, FitInv
  <1>25. ASSUME NEW x \in Elems(pipe')
         PROVE  Fits(x)'
    <2>1. CASE x \in Elems(pipe)
      BY <1>23, <1>24, <2>1
    <2>2. CASE x.of = i /\ x.cmd \in Words(kind[i], v)
      BY <1>3, <1>6, <1>13, <2>2 DEF Fits, ServeCommand
    <2>3. x \in Elems(pipe) \/ x = first \/ x = second
      BY <1>12
    <2>4. Key(kind[i], v) \in Words(kind[i], v)
      BY DEF Words
    <2>5. x = second /\ x # first /\ x \notin Elems(pipe) => w \in Words(kind[i], v)
      BY <1>12
    <2> QED
      BY <1>7, <1>9, <2>1, <2>2, <2>3, <2>4, <2>5
  <1>26. FitInv'
    <2>1. \A x \in Elems(pipe') \cup Elems(in) : Fits(x)'
      BY <1>12, <1>23, <1>24, <1>25
    <2>2. \A c \in Callers : \A x \in Elems(call[c].got) : Fits(x)'
      BY <1>23 DEF ClientInv, FitInv
    <2> QED
      BY <2>1, <2>2 DEF FitInv, ServeCommand
  <1>27. OnceInv'
    <2> SUFFICES ASSUME NEW c \in Callers, NEW n \in Calls, NEW k \in {"errline", "op", "noop"},
                        NEW x, x = Msg(k, n)
                 PROVE  Times(c, x)' <= 1
      BY DEF OnceInv
    <2>1. Times(c, x) <= 1
      BY DEF ClientInv, OnceInv
    <2>2. x # second
      BY <1>9 DEF Msg
    <2>3. CASE x # first
      BY <1>17, <2>1, <2>2, <2>3 DEF Times, ServeCommand
    <2>4. CASE x = first
      <3>1. x \notin Elems(pipe) /\ x \notin Elems(in) /\ x \notin Elems(call[c].got)
        BY <1>7, <1>23, <2>4 DEF ClientInv, FitInv
      <3>2. call[c].got \in Seq(M)
        BY DEF ClientInv, CallsInv
      <3>3. Count(pipe, x) = 0 /\ Count(in, x) = 0 /\ Count(call[c].got, x) = 0
        BY <1>1, <3>1, <3>2, AbsentCount
      <3>4. Count(one, x) = 1
        BY <1>1, <1>7, <2>4, <3>3, AppendCount DEF one
      <3>5. Count(two, x) = Count(one, x)
        BY <1>9, <1>10, <2>2, AppendCount DEF two
      <3>6. Count(pipe', x) <= 1 /\ Count(pipe', x) \in Nat
        BY <1>11, <3>3, <3>4, <3>5
      <3> QED
        BY <3>3, <3>6 DEF Times, ServeCommand
    <2> QED
      BY <2>3, <2>4
  <1>28. FaithInv'
    <2> SUFFICES ASSUME NEW c \in Callers, call[c].at \in {"fence", "wait"}, ~stale
                 PROVE  Alone(c)' /\ InOrder(c)'
      BY DEF FaithInv, ServeCommand
    <2>1. Alone(c)
      BY DEF ClientInv, FaithInv
    <2>2. call[c].id = i
      BY <1>1, <1>2, <2>1 DEF Alone, i
    <2>3. Alone(c)'
      BY <1>2, <1>7, <1>9, <1>12, <2>1, <2>2 DEF Alone, Arrived, ServeCommand
    <2>4. First(call[c].id)' = first
      BY <1>7, <1>13, <2>2 DEF First, ServeCommand, first
    <2> DEFINE x == Last(call[c].id)
               seen == Elems(call[c].got) \cup Elems(in)
    <2>5. x' = x /\ seen' = seen
      BY DEF Last, ServeCommand, Fenced
    <2>6. x.cmd \in {"pong", "end"} /\ x.of = i
      BY <2>2 DEF Last, Msg
    <2> HIDE DEF x
    <2>7. x \notin Elems(in) /\ x \notin Elems(pipe)
      BY <1>23, <1>24, <2>6
    <2>8. Behind(in, x, first, Elems(call[c].got)) /\ Behind(pipe, x, first, seen)
      BY <1>1, <2>7, BehindAbsent
    <2>9. x # first
      BY <1>7, <2>6 DEF AnswerWords
    <2> HIDE DEF seen
    <2>10. Behind(one, x, first, seen)
      BY <1>1, <1>7, <2>8, <2>9, BehindAppend DEF one
    <2>11. Behind(two, x, first, seen)
      BY <1>9, <1>10, <2>10, BehindAppend DEF two
    <2>12. Behind(pipe', x, first, seen)
      BY <1>11, <2>8, <2>10, <2>11
    <2>13. conn = "open" => first \in Arrived(c)'
      BY <1>12 DEF Arrived
    <2>14. InOrder(c)'
      BY <2>2, <2>4, <2>5, <2>8, <2>12, <2>13 DEF InOrder, ServeCommand, x, seen
    <2> QED
      BY <2>3, <2>14
  <1> QED
    BY <1>14, <1>15, <1>16, <1>18, <1>21, <1>22, <1>26, <1>27, <1>28 DEF ClientInv

LEMMA SendUnaskedKeeps ==
  ASSUME NEW M, Carries(M), NEW mis \in Nat, ClientInv(M, mis),
         NEW what \in Noises, SendUnasked(what)
  PROVE  ClientInv(M, mis)'
  <1> DEFINE m == Msg(IF what = "notice" THEN "line" ELSE what, 0)
             ping == Msg("ping", 0)
  <1>1. pipe \in Seq(M) /\ pipe' = Append(pipe, m) /\ what \in {"other", "notice", "ping"}
    BY ClientAssumption DEF ClientInv, StreamsInv, SendUnasked
  <1>2. /\ m \in M /\ m.of = 0 /\ m.cmd \in {"line", "other", "ping"}
        /\ m.cmd = "line" => "notice" \in Noises
        /\ m = ping <=> what = "ping"
    BY <1>1, ClientAssumption DEF Carries, Message, Msg
  <1> HIDE DEF m
  <1>3. pipe' \in Seq(M) /\ Elems(pipe') = Elems(pipe) \cup {m}
    BY <1>1, <1>2, AppendElems
  <1>4. StreamsInv(M)'
    BY <1>3 DEF ClientInv, StreamsInv, SendUnasked
  <1>5. CallsInv(M)' /\ BookInv' /\ WireInv' /\ WrittenInv'
    BY DEF ClientInv, CallsInv, BookInv, WireInv, WrittenInv, SendUnasked, Fenced
  <1>6. PingInv(mis)'
    <2>1. Count(pipe', ping) = IF what = "ping" THEN Count(pipe, ping) + 1 ELSE Count(pipe, ping)
      BY <1>1, <1>2, AppendCount
    <2>2. Count(wire, Msg("pong", 0)) \in Nat /\ Count(pipe, ping) \in Nat
      BY <1>1, AtFinite DEF ClientInv, StreamsInv
    <2>3. owed \in Nat /\ noises \in Nat /\ MaxNoise \in Nat /\ owed <= noises
      BY ClientAssumption DEF ClientInv, PingInv
    <2>4. Count(pipe, ping) + Count(wire, Msg("pong", 0)) + mis <= owed
      BY DEF ClientInv, PingInv
    <2> HIDE DEF ping
    <2>5. /\ Count(pipe', ping) + Count(wire, Msg("pong", 0)) + mis <= owed'
          /\ owed' <= noises' /\ owed' \in 0..MaxNoise /\ noises' \in 0..MaxNoise
      BY <2>1, <2>2, <2>3, <2>4 DEF SendUnasked
    <2> QED
      BY <2>5 DEF PingInv, SendUnasked, ping
  <1>7. FitInv'
    <2>1. \A x : Fits(x)' = Fits(x)
      BY DEF Fits, SendUnasked, Fenced
    <2>2. Fits(m)
      BY <1>2 DEF Fits
    <2> QED
      BY <1>3, <2>1, <2>2 DEF ClientInv, FitInv, SendUnasked
  <1>8. OnceInv'
    <2> SUFFICES ASSUME NEW c \in Callers, NEW n \in Calls, NEW w \in {"errline", "op", "noop"},
                        NEW x, x = Msg(w, n)
                 PROVE  Times(c, x)' <= 1
      BY DEF OnceInv
    <2>1. Times(c, x) <= 1
      BY DEF ClientInv, OnceInv
    <2>2. x # m
      BY <1>2 DEF Msg
    <2>3. Count(pipe', x) = Count(pipe, x)
      BY <1>1, <1>2, <2>2, AppendCount
    <2> QED
      BY <2>1, <2>3 DEF Times, SendUnasked
  <1>9. FaithInv'
    <2> SUFFICES ASSUME NEW c \in Callers, call[c].at \in {"fence", "wait"}, ~stale
                 PROVE  /\ Alone(c)'
                        /\ ~dropped /\ decided[call[c].id] # "none" => InOrder(c)'
      BY DEF FaithInv, SendUnasked
    <2>1. /\ Alone(c)
          /\ ~dropped /\ decided[call[c].id] # "none" => InOrder(c)
      BY DEF ClientInv, FaithInv
    <2>2. Alone(c)'
      BY <1>2, <1>3, <2>1 DEF Alone, Arrived, SendUnasked
    <2>3. ASSUME InOrder(c)
          PROVE  InOrder(c)'
      <3> DEFINE x == Last(call[c].id)
                 y == First(call[c].id)
                 seen == Elems(call[c].got) \cup Elems(in)
      <3>1. /\ conn = "open" => y \in Arrived(c)
            /\ Behind(in, x, y, Elems(call[c].got)) /\ Behind(pipe, x, y, seen)
        BY <2>3 DEF InOrder
      <3>2. x' = x /\ y' = y /\ seen' = seen
        BY DEF SendUnasked, First, Last, Fenced
      <3>3. conn = "open" => y \in Arrived(c)'
        BY <1>3, <3>1 DEF Arrived, SendUnasked
      <3>4. x # m
        BY <1>2, AwaitedAre DEF ClientInv
      <3> HIDE DEF x, y, seen
      <3>5. Behind(pipe', x, y, seen)
        BY <1>1, <1>2, <3>1, <3>4, BehindAppend
      <3> QED
        BY <3>1, <3>2, <3>3, <3>5 DEF InOrder, x, y, seen, SendUnasked
    <2> QED
      BY <2>1, <2>2, <2>3
  <1> QED
    BY <1>4, <1>5, <1>6, <1>7, <1>8, <1>9 DEF ClientInv

LEMMA BreakKeeps ==
  ASSUME NEW M, Carries(M), NEW mis \in Nat, ClientInv(M, mis), Break
  PROVE  ClientInv(M, mis)'
  <1>1. PICK a \in 0..Len(wire), b \in 0..Len(pipe) :
           wire' = SubSeq(wire, 1, a) /\ pipe' = SubSeq(pipe, 1, b)
    BY DEF Break
  <1>2. wire \in Seq(M) /\ pipe \in Seq(M) /\ conn' = "dead"
    BY DEF ClientInv, StreamsInv, Break
  <1>3. /\ wire' \in Seq(M) /\ Elems(wire') \subseteq Elems(wire)
        /\ pipe' \in Seq(M) /\ Elems(pipe') \subseteq Elems(pipe)
    BY <1>1, <1>2, PrefixElems
  <1>4. ASSUME NEW x
        PROVE  /\ Count(wire', x) <= Count(wire, x) /\ Count(wire', x) \in Nat
               /\ Count(wire, x) \in Nat
               /\ Count(pipe', x) <= Count(pipe, x) /\ Count(pipe', x) \in Nat
               /\ Count(pipe, x) \in Nat
    BY <1>1, <1>2, <1>3, PrefixCount, AtFinite
  <1>5. StreamsInv(M)'
    BY <1>2, <1>3 DEF ClientInv, StreamsInv, Break
  <1>6. CallsInv(M)' /\ BookInv'
    BY DEF ClientInv, CallsInv, BookInv, Break
  <1>7. PingInv(mis)'
    <2>1. ASSUME NEW p \in Nat, NEW q \in Nat, NEW r \in Nat, NEW t \in Nat, NEW all \in Nat,
                 p <= r, q <= t, r + t + mis <= all
          PROVE  p + q + mis <= all
      BY <2>1
    <2>2. owed \in Nat
      BY ClientAssumption DEF ClientInv, PingInv
    <2>3. Count(pipe, Msg("ping", 0)) + Count(wire, Msg("pong", 0)) + mis <= owed
      BY DEF ClientInv, PingInv
    <2>4. Count(pipe', Msg("ping", 0)) + Count(wire', Msg("pong", 0)) + mis <= owed
      BY <1>4, <2>1, <2>2, <2>3
    <2> QED
      BY <2>4 DEF ClientInv, PingInv, Break
  <1>8. WireInv'
    <2>1. ASSUME NEW n \in 1..made, decided[n] = "none"
          PROVE  Behind(wire', Msg("fence", n), Msg("command", n), {})
      <3>1. Behind(wire, Msg("fence", n), Msg("command", n), {})
        BY <2>1 DEF ClientInv, WireInv
      <3> QED
        BY <1>1, <1>2, <3>1, BehindPrefix
    <2>2. \A x \in Elems(wire') : x.cmd = "command" => Count(wire', x) <= 1
      <3> SUFFICES ASSUME NEW x \in Elems(wire'), x.cmd = "command"
                   PROVE  Count(wire', x) <= 1
        OBVIOUS
      <3>1. Count(wire, x) <= 1
        BY <1>3 DEF ClientInv, WireInv
      <3> QED
        BY <1>4, <3>1
    <2> QED
      BY <1>3, <2>1, <2>2 DEF ClientInv, WireInv, Break, Fenced
  <1>9. WrittenInv'
    BY <1>2, <1>3 DEF ClientInv, WrittenInv, Break, Fenced
  <1>10. FitInv'
    <2>1. \A x : Fits(x)' = Fits(x)
      BY DEF Fits, Break, Fenced
    <2> QED
      BY <1>3, <2>1 DEF ClientInv, FitInv, Break
  <1>11. OnceInv'
    <2> SUFFICES ASSUME NEW c \in Callers, NEW n \in Calls, NEW w \in {"errline", "op", "noop"},
                        NEW x, x = Msg(w, n)
                 PROVE  Times(c, x)' <= 1
      BY DEF OnceInv
    <2>1. Times(c, x) <= 1
      BY DEF ClientInv, OnceInv
    <2>2. Count(in, x) \in Nat /\ Count(call[c].got, x) \in Nat
      BY AtFinite DEF ClientInv, StreamsInv, CallsInv
    <2>3. Count(pipe', x) <= Count(pipe, x) /\ Count(pipe', x) \in Nat /\ Count(pipe, x) \in Nat
      BY <1>4
    <2>4. in' = in /\ call' = call
      BY DEF Break
    <2>5. Count(pipe', x) + Count(in, x) + Count(call[c].got, x) <= 1
      BY <2>1, <2>2, <2>3 DEF Times
    <2> QED
      BY <2>4, <2>5 DEF Times
  <1>12. FaithInv'
    <2> SUFFICES ASSUME NEW c \in Callers, call[c].at \in {"fence", "wait"}, ~stale
                 PROVE  /\ Alone(c)'
                        /\ ~dropped /\ decided[call[c].id] # "none" => InOrder(c)'
      BY DEF FaithInv, Break
    <2>1. /\ Alone(c)
          /\ ~dropped /\ decided[call[c].id] # "none" => InOrder(c)
      BY DEF ClientInv, FaithInv
    <2>2. Alone(c)'
      BY <1>3, <2>1 DEF Alone, Arrived, Break
    <2>3. ASSUME InOrder(c)
          PROVE  InOrder(c)'
      <3> DEFINE x == Last(call[c].id)
                 y == First(call[c].id)
                 seen == Elems(call[c].got) \cup Elems(in)
      <3>1. Behind(in, x, y, Elems(call[c].got)) /\ Behind(pipe, x, y, seen)
        BY <2>3 DEF InOrder
      <3>2. x' = x /\ y' = y /\ seen' = seen
        BY DEF Break, First, Last, Fenced
      <3> HIDE DEF x, y, seen
      <3>3. Behind(pipe', x, y, seen)
        BY <1>1, <1>2, <3>1, BehindPrefix
      <3> QED
        BY <1>2, <3>1, <3>2, <3>3 DEF InOrder, x, y, seen, Break
    <2> QED
      BY <2>1, <2>2, <2>3
  <1> QED
    BY <1>5, <1>6, <1>7, <1>8, <1>9, <1>10, <1>11, <1>12 DEF ClientInv

-----------------------------------------------------------------------------
(* The invariant holds.                                                    *)

LEMMA InitInv ==
  ASSUME NEW M, Carries(M), Init
  PROVE  ClientInv(M, 0)
  <1>1. StreamsInv(M)
    <2>1. <<>> \in Seq(M) /\ Len(<<>>) = 0 /\ 0 <= Cap
      BY ClientAssumption
    <2> QED
      BY <2>1 DEF Init, StreamsInv
  <1>2. CallsInv(M)
    <2>1. Idle \in [at : Places, id : 0..MaxCalls, got : Seq(M)]
      BY ClientAssumption DEF Idle, Places
    <2> QED
      BY <2>1, ClientAssumption DEF Init, CallsInv, Idle, Held
  <1>3. BookInv
    BY ClientAssumption DEF Init, BookInv, Idle, Calls
  <1>4. PingInv(0)
    BY EmptyStream, ClientAssumption DEF Init, PingInv
  <1>5. WireInv /\ WrittenInv
    BY EmptyStream DEF Init, WireInv, WrittenInv, Idle
  <1>6. FitInv /\ OnceInv
    BY EmptyStream DEF Init, FitInv, OnceInv, Times, Idle
  <1>7. FaithInv
    BY DEF Init, FaithInv, Idle
  <1> QED
    BY <1>1, <1>2, <1>3, <1>4, <1>5, <1>6, <1>7 DEF ClientInv

LEMMA ReadLoopKeeps ==
  ASSUME NEW M, Carries(M), NEW mis \in Nat, ClientInv(M, mis), ReadLoop
  PROVE  ClientInv(M, mis)'
  BY ReadMessageKeeps, ReadPingKeeps, ReadEOFKeeps DEF ReadLoop

LEMMA StepKeeps ==
  ASSUME NEW M, Carries(M), NEW mis \in Nat, ClientInv(M, mis), NEW c \in Callers, Step(c)
  PROVE  ClientInv(M, mis)'
  <1>1. CASE FoundClosed(c)
    <2>1. call[c].at \in Held /\ Return(c, "closed")
      BY <1>1 DEF FoundClosed, Held
    <2>2. UNCHANGED <<in, wire, pipe, conn, gone, made, noises, owed, kind, decided, stale, dropped>>
      BY <1>1 DEF FoundClosed, streams
    <2> QED
      BY <2>1, <2>2, LeaveKeeps
  <1>2. CASE WriteFails(c)
    <2>1. call[c].at \in Held /\ Return(c, "failed")
      BY <1>2 DEF WriteFails, Held
    <2>2. UNCHANGED <<in, wire, pipe, conn, gone, made, noises, owed, kind, decided, stale, dropped>>
      BY <1>2 DEF WriteFails, streams
    <2> QED
      BY <2>1, <2>2, LeaveKeeps
  <1>3. CASE Timeout(c)
    <2>1. call[c].at \in Held /\ Return(c, "timeout")
      BY <1>3 DEF Timeout, Held
    <2>2. UNCHANGED <<in, wire, pipe, conn, gone, made, noises, owed, kind, decided, stale, dropped>>
      BY <1>3 DEF Timeout, streams
    <2> QED
      BY <2>1, <2>2, LeaveKeeps
  <1> QED
    BY <1>1, <1>2, <1>3, LockKeeps, DrainOneKeeps, WriteCommandKeeps, WriteFenceKeeps,
       ReceiveKeeps DEF Step

LEMMA SojuKeeps ==
  ASSUME NEW M, Carries(M), NEW mis \in Nat, ClientInv(M, mis), Soju
  PROVE  ClientInv(M, mis)'
  BY ServeCommandKeeps, ServeFenceKeeps, TakePongKeeps DEF Soju

LEMMA StutterKeeps ==
  ASSUME NEW M, NEW mis \in Nat, ClientInv(M, mis), UNCHANGED vars
  PROVE  ClientInv(M, mis)'
  <1>1. StreamsInv(M)' /\ CallsInv(M)' /\ BookInv'
    BY DEF ClientInv, StreamsInv, CallsInv, BookInv, vars
  <1>2. PingInv(mis)' /\ WireInv' /\ WrittenInv'
    BY DEF ClientInv, PingInv, WireInv, WrittenInv, vars, Fenced
  <1>3. FitInv' /\ OnceInv'
    BY DEF ClientInv, FitInv, Fits, OnceInv, Times, vars, Fenced
  <1>4. FaithInv'
    BY DEF ClientInv, FaithInv, Alone, InOrder, Arrived, First, Last, vars, Fenced
  <1> QED
    BY <1>1, <1>2, <1>3, <1>4 DEF ClientInv

LEMMA NextKeeps ==
  ASSUME NEW M, Carries(M), NEW mis \in Nat, ClientInv(M, mis), [Next]_vars
  PROVE  ClientInv(M, mis)'
  <1>1. CASE ReadLoop
    BY <1>1, ReadLoopKeeps
  <1>2. ASSUME NEW c \in Callers, Step(c)
        PROVE  ClientInv(M, mis)'
    BY <1>2, StepKeeps
  <1>3. ASSUME NEW c \in Callers, NEW k \in Kinds, Start(c, k)
        PROVE  ClientInv(M, mis)'
    BY <1>3, StartKeeps
  <1>4. CASE Soju
    BY <1>4, SojuKeeps
  <1>5. ASSUME NEW what \in Noises, SendUnasked(what)
        PROVE  ClientInv(M, mis)'
    BY <1>5, SendUnaskedKeeps
  <1>6. CASE Break
    BY <1>6, BreakKeeps
  <1>7. CASE UNCHANGED vars
    BY <1>7, StutterKeeps
  <1> QED
    BY <1>1, <1>2, <1>3, <1>4, <1>5, <1>6, <1>7 DEF Next

LEMMA MessagesCarried == Carries(Message)
  BY DEF Carries, Message, Msg

LEMMA ClientInvariant == Spec => []ClientInv(Message, 0)
  <1>1. Init => ClientInv(Message, 0)
    BY MessagesCarried, InitInv
  <1>2. ClientInv(Message, 0) /\ [Next]_vars => ClientInv(Message, 0)'
    BY MessagesCarried, NextKeeps
  <1> QED
    BY <1>1, <1>2, PTL DEF Spec

-----------------------------------------------------------------------------
(* What a step does to the book.                                           *)

(* A call is made.                                                         *)
Asks ==
    /\ made < MaxCalls /\ made' = made + 1
    /\ \E k \in Kinds : kind' = [kind EXCEPT ![made + 1] = k]
    /\ UNCHANGED <<decided, result>>

(* soju decides one it has not decided yet.                                *)
Decides(i) ==
    /\ decided[i] = "none"
    /\ \E v \in {"ok", "err"} : decided' = [decided EXCEPT ![i] = v]
    /\ UNCHANGED <<made, kind, result>>

(* A caller is done: it gave up, or read what ends its call.               *)
Concludes(c, r) ==
    /\ call[c].at \in Held
    /\ result' = [result EXCEPT ![call[c].id] = r]
    /\ UNCHANGED <<made, kind, decided>>
    /\ \/ r \in {"closed", "failed", "timeout"}
       \/ /\ call[c].at = "wait" /\ in # <<>>
          /\ Ends(call[c].id, Head(in))
          /\ r = Judge(call[c].id, call[c].got)

LEMMA BookSteps ==
  ASSUME NEW M, Carries(M), NEW mis \in Nat, ClientInv(M, mis),
         Next \/ UNCHANGED <<made, kind, decided, result>>
  PROVE  \/ UNCHANGED <<made, kind, decided, result>>
         \/ Asks
         \/ \E i \in 1..made : Decides(i)
         \/ \E c \in Callers, r \in Verdicts \cup {"closed", "failed", "timeout"} : Concludes(c, r)
  <1>1. CASE ReadLoop \/ Break \/ \E what \in Noises : SendUnasked(what)
    BY <1>1 DEF ReadLoop, ReadMessage, ReadPing, ReadEOF, Break, SendUnasked
  <1>2. ASSUME NEW c \in Callers, NEW k \in Kinds, Start(c, k)
        PROVE  Asks
    BY <1>2 DEF Start, Asks
  <1>3. CASE ServeFence \/ TakePong
    BY <1>3 DEF ServeFence, TakePong
  <1>4. CASE ServeCommand
    <2>1. wire \in Seq(M) /\ wire # <<>> /\ Head(wire).cmd = "command"
      BY <1>4 DEF ClientInv, StreamsInv, ServeCommand
    <2>2. Head(wire) \in Elems(wire)
      BY <2>1, HeadElems
    <2>3. Head(wire).of \in 1..made /\ decided[Head(wire).of] = "none"
      BY <2>1, <2>2 DEF ClientInv, WireInv
    <2> QED
      BY <1>4, <2>3 DEF ServeCommand, Decides
  <1>5. ASSUME NEW c \in Callers, Step(c)
        PROVE  \/ UNCHANGED <<made, kind, decided, result>>
               \/ \E r \in Verdicts \cup {"closed", "failed", "timeout"} : Concludes(c, r)
    <2>1. CASE Lock(c) \/ DrainOne(c) \/ WriteCommand(c) \/ WriteFence(c)
      BY <2>1 DEF Lock, DrainOne, WriteCommand, WriteFence
    <2>2. CASE FoundClosed(c)
      BY <2>2 DEF FoundClosed, Return, Concludes, Held
    <2>3. CASE WriteFails(c)
      BY <2>3 DEF WriteFails, Return, Concludes, Held
    <2>4. CASE Timeout(c)
      BY <2>4 DEF Timeout, Return, Concludes, Held
    <2>5. CASE Receive(c)
      <3>1. CASE ~Ends(call[c].id, Head(in))
        BY <2>5, <3>1 DEF Receive
      <3>2. CASE Ends(call[c].id, Head(in))
        <4>1. kind[call[c].id] \in AllKinds
          BY <2>5, ClientAssumption DEF Receive, ClientInv, BookInv, Calls
        <4>2. Judge(call[c].id, call[c].got) \in Verdicts
          BY <4>1, JudgeIsVerdict
        <4>3. Concludes(c, Judge(call[c].id, call[c].got))
          BY <2>5, <3>2 DEF Receive, Return, Concludes, Held
        <4> QED
          BY <4>2, <4>3
      <3> QED
        BY <3>1, <3>2
    <2> QED
      BY <1>5, <2>1, <2>2, <2>3, <2>4, <2>5 DEF Step
  <1> QED
    BY <1>1, <1>2, <1>3, <1>4, <1>5 DEF Next, Soju

(* What has been read of a call's own, when it comes to an end.            *)
LEMMA ReadAtEnd ==
  ASSUME NEW M, Carries(M), NEW mis \in Nat, ClientInv(M, mis),
         NEW c \in Callers, call[c].at = "wait", in # <<>>,
         NEW i, i = call[c].id, Ends(i, Head(in))
  PROVE  /\ i \in 1..made /\ i \in Calls /\ kind[i] \in AllKinds /\ i # 0
         /\ Fits(Head(in)) /\ Head(in) \in M
         /\ Fenced(i) => decided[i] # "none"
         /\ call[c].got \in Seq(M)
         /\ \A j \in 1..Len(call[c].got) :
               /\ Fits(call[c].got[j])
               /\ call[c].got[j] = Msg(call[c].got[j].cmd, call[c].got[j].of)
         /\ \A w \in {"errline", "op", "noop"} : Count(call[c].got, Msg(w, i)) <= 1
  <1>1. i \in 1..made /\ i \in Calls /\ kind[i] \in AllKinds /\ i # 0
    BY ClientAssumption DEF ClientInv, BookInv, Calls
  <1>2. in \in Seq(M) /\ call[c].got \in Seq(M) /\ pipe \in Seq(M)
    BY DEF ClientInv, StreamsInv, CallsInv
  <1>3. Head(in) \in M /\ Head(in) \in Elems(in)
    BY <1>2, HeadElems
  <1>4. Fits(Head(in))
    BY <1>3 DEF ClientInv, FitInv
  <1>5. Fenced(i) => decided[i] # "none"
    BY <1>1, <1>4 DEF Ends, Fits, Msg
  <1>6. ASSUME NEW j \in 1..Len(call[c].got)
        PROVE  /\ Fits(call[c].got[j])
               /\ call[c].got[j] = Msg(call[c].got[j].cmd, call[c].got[j].of)
    <2>1. call[c].got[j] \in Elems(call[c].got) /\ call[c].got[j] \in M
      BY <1>2 DEF Elems
    <2> QED
      BY <2>1 DEF ClientInv, FitInv, Carries
  <1>7. ASSUME NEW w \in {"errline", "op", "noop"}
        PROVE  Count(call[c].got, Msg(w, i)) <= 1
    <2>1. Times(c, Msg(w, i)) <= 1
      BY <1>1 DEF ClientInv, OnceInv
    <2>2. /\ Count(pipe, Msg(w, i)) \in Nat /\ Count(in, Msg(w, i)) \in Nat
          /\ Count(call[c].got, Msg(w, i)) \in Nat
      BY <1>2, AtFinite
    <2> QED
      BY <2>1, <2>2 DEF Times
  <1> QED
    BY <1>1, <1>2, <1>3, <1>4, <1>5, <1>6, <1>7

(* isOpped's answer is of its channel, or none.                            *)
LEMMA NamesJudged ==
  ASSUME NEW M, Carries(M), NEW mis \in Nat, ClientInv(M, mis),
         NEW c \in Callers, call[c].at = "wait", in # <<>>,
         NEW i, i = call[c].id, Ends(i, Head(in)), kind[i] = "names",
         Judge(i, call[c].got) \in {"ok", "err"}
  PROVE  Judge(i, call[c].got) = decided[i]
  <1> DEFINE got == call[c].got
             J == {j \in DOMAIN got : got[j].cmd \in {"op", "noop"} /\ got[j].of = i}
  <1>1. /\ i \in Calls /\ i # 0 /\ got \in Seq(M) /\ DOMAIN got = 1..Len(got)
        /\ \A j \in 1..Len(got) : Fits(got[j]) /\ got[j] = Msg(got[j].cmd, got[j].of)
        /\ \A w \in {"errline", "op", "noop"} : Count(got, Msg(w, i)) <= 1
    BY ReadAtEnd
  <1>2. decided[i] \in {"none", "ok", "err"}
    BY <1>1 DEF ClientInv, BookInv
  <1>3. Judge(i, got) = JudgeFirst(J, got) /\ J # {}
    BY DEF Judge, JudgeNames, JudgeFirst
  <1> HIDE DEF got
  <1>4. ASSUME NEW j \in J
        PROVE  got[j] = Msg(IF decided[i] = "ok" THEN "op" ELSE "noop", i) /\ decided[i] # "none"
    <2>1. Fits(got[j]) /\ got[j].of = i /\ got[j].cmd \in {"op", "noop"}
      BY <1>1
    <2>2. got[j].cmd \in Words("names", decided[i]) /\ decided[i] # "none"
      BY <1>1, <2>1 DEF Fits
    <2>3. got[j].cmd = IF decided[i] = "ok" THEN "op" ELSE "noop"
      BY <2>1, <2>2 DEF Words, Key
    <2> QED
      BY <1>1, <2>1, <2>2, <2>3
  <1>5. ASSUME decided[i] = "ok"
        PROVE  Judge(i, got) = "ok"
    <2>1. \A j, k \in J : j = k
      BY <1>1, <1>4, <1>5, OncePlace
    <2>2. PICK j \in J : TRUE
      BY <1>3
    <2>3. got[j].cmd = "op"
      BY <1>4, <1>5 DEF Msg
    <2>4. j \in 1..Len(got) /\ Len(got) \in Nat
      BY <1>1
    <2>5. \A k \in J : j <= k
      BY <2>1, <2>4
    <2> HIDE DEF J
    <2> QED
      BY <1>3, <1>5, <2>3, <2>5 DEF JudgeFirst
  <1>6. ASSUME decided[i] # "ok"
        PROVE  Judge(i, got) = "err" /\ decided[i] = "err"
    <2>1. \A j \in J : got[j].cmd # "op"
      BY <1>4, <1>6 DEF Msg
    <2>2. decided[i] = "err"
      BY <1>2, <1>3, <1>4, <1>6
    <2> HIDE DEF J
    <2> QED
      BY <1>3, <2>1, <2>2 DEF JudgeFirst
  <1> QED
    BY <1>5, <1>6 DEF got

(* With nothing of an earlier call in its way and nothing dropped, a call  *)
(* reads what soju decided.                                                *)
LEMMA FaithfullyJudged ==
  ASSUME "notice" \in Noises => "serv" \notin Kinds,
         NEW M, Carries(M), NEW mis \in Nat, ClientInv(M, mis),
         NEW c \in Callers, call[c].at = "wait", in # <<>>,
         NEW i, i = call[c].id, Ends(i, Head(in)), ~stale, ~dropped
  PROVE  Judge(i, call[c].got) = decided[i]
  <1> DEFINE got == call[c].got
  <1>1. /\ i \in 1..made /\ i \in Calls /\ kind[i] \in AllKinds /\ i # 0
        /\ got \in Seq(M) /\ DOMAIN got = 1..Len(got)
        /\ Fits(Head(in)) /\ Head(in) \in M
        /\ \A j \in 1..Len(got) : Fits(got[j]) /\ got[j] = Msg(got[j].cmd, got[j].of)
        /\ \A w \in {"errline", "op", "noop"} : Count(got, Msg(w, i)) <= 1
    BY ReadAtEnd
  <1>2. in \in Seq(M) /\ Head(in) \in Elems(in) /\ Len(in) \in Nat \ {0} /\ Head(in) = in[1]
    <2>1. in \in Seq(M)
      BY DEF ClientInv, StreamsInv
    <2> QED
      BY <2>1, HeadElems
  <1>3. Alone(c) /\ (decided[i] # "none" => InOrder(c))
    BY DEF ClientInv, FaithInv
  <1>4. Head(in) = Last(i)
    <2>1. CASE Fenced(i)
      BY <2>1 DEF Ends, Last
    <2>2. CASE ~Fenced(i)
      <3>1. Head(in).cmd = "end"
        BY <2>2 DEF Ends
      <3>2. Head(in).of # 0
        BY <1>1, <3>1 DEF Fits
      <3>3. Head(in).of = i
        BY <1>2, <1>3, <3>2 DEF Alone, Arrived
      <3> QED
        BY <1>1, <2>2, <3>1, <3>3 DEF Last, Carries
    <2> QED
      BY <2>1, <2>2
  <1>5. decided[i] \in {"ok", "err"}
    <2>1. Head(in).of = i
      BY <1>4 DEF Last, Msg
    <2>2. decided[i] # "none"
      BY <1>1, <2>1 DEF Fits
    <2> QED
      BY <1>1, <2>2 DEF ClientInv, BookInv
  <1>6. First(i) \in Elems(got)
    <2>1. Behind(in, Last(i), First(i), Elems(got))
      BY <1>3, <1>5 DEF InOrder
    <2>2. 1 \in 1..Len(in) /\ in[1] = Last(i)
      BY <1>2, <1>4
    <2> QED
      BY <2>1, <2>2 DEF Behind
  <1>7. PICK f \in 1..Len(got) : got[f] = First(i)
    BY <1>6 DEF Elems
  <1> DEFINE key == Key(kind[i], decided[i])
  <1>8. got[f].cmd = key /\ got[f].of = i
    BY <1>7 DEF First, Msg
  <1>9. ASSUME NEW j \in 1..Len(got)
        PROVE  \/ got[j].cmd \in Words(kind[i], decided[i]) \cup {"pong"} /\ got[j].of = i
               \/ /\ got[j].cmd \notin {"errline", "added", "fail", "op", "noop"}
                  /\ kind[i] = "serv" => got[j].cmd # "line"
    <2>1. Fits(got[j])
      BY <1>1
    <2>2. got[j].of \in {0, i}
      BY <1>3 DEF Alone, Arrived, Elems
    <2>3. kind[i] = "serv" => "notice" \notin Noises
      BY <1>1 DEF ClientInv, BookInv
    <2> QED
      BY <1>1, <2>1, <2>2, <2>3 DEF Fits
  <1>10. ASSUME NEW j \in 1..Len(got), NEW k \in 1..Len(got), NEW w \in {"errline", "op", "noop"},
                got[j] = Msg(w, i), got[k] = Msg(w, i)
         PROVE  j = k
    BY <1>1, <1>10, OncePlace
  <1> HIDE DEF got
  <1>11. CASE kind[i] = "serv"
    <2> DEFINE lines == {j \in DOMAIN got : got[j].cmd \in {"line", "errline"}}
    <2>1. \A j \in lines : got[j].cmd = key /\ got[j].of = i
      BY <1>1, <1>9, <1>11 DEF Words, Key
    <2>2. f \in lines
      BY <1>1, <1>8, <1>11 DEF Key
    <2>3. CASE decided[i] = "ok"
      <3>1. \A j \in lines : got[j].cmd = "line"
        BY <1>11, <2>1, <2>3 DEF Key
      <3> HIDE DEF lines
      <3>2. ~\E j \in lines : lines = {j} /\ got[j].cmd = "errline"
        BY <3>1
      <3>3. JudgeServ(got) = "ok"
        BY <2>2, <3>2 DEF JudgeServ, lines
      <3> QED
        BY <1>11, <2>3, <3>3 DEF Judge, got
    <2>4. CASE decided[i] = "err"
      <3>1. \A j \in lines : got[j] = Msg("errline", i)
        BY <1>1, <1>11, <2>1, <2>4 DEF Key
      <3>2. lines = {f} /\ got[f].cmd = "errline"
        BY <1>8, <1>10, <1>11, <2>2, <2>4, <3>1 DEF Key
      <3>3. JudgeServ(got) = "err"
        BY <2>2, <3>2 DEF JudgeServ
      <3> QED
        BY <1>11, <2>4, <3>3 DEF Judge, got
    <2> QED
      BY <1>5, <2>3, <2>4
  <1>12. CASE kind[i] = "add"
    <2>1. Has(got, key)
      BY <1>1, <1>8 DEF Has
    <2>2. decided[i] = "err" => ~Has(got, "added")
      BY <1>1, <1>9, <1>12 DEF Has, Words, Key
    <2> QED
      BY <1>5, <1>12, <2>1, <2>2 DEF Judge, JudgeAdd, FailError, Key, got
  <1>13. CASE kind[i] = "change"
    <2>1. Has(got, key)
      BY <1>1, <1>8 DEF Has
    <2>2. decided[i] = "ok" => ~Has(got, "fail")
      BY <1>1, <1>9, <1>13 DEF Has, Words, Key
    <2> QED
      BY <1>5, <1>13, <2>1, <2>2 DEF Judge, JudgeChange, Key, got
  <1>14. CASE kind[i] = "names"
    <2>1. got[f].cmd \in {"op", "noop"}
      BY <1>5, <1>8, <1>14 DEF Key
    <2>2. JudgeNames(i, got) \in {"ok", "err"}
      BY <1>1, <1>8, <2>1 DEF JudgeNames, JudgeFirst
    <2> QED
      BY <1>14, <2>2, NamesJudged DEF Judge, got
  <1> QED
    BY <1>1, <1>11, <1>12, <1>13, <1>14 DEF AllKinds

-----------------------------------------------------------------------------
(* The theorems.                                                           *)

(* Every variable keeps its type, the channel between readLoop and the     *)
(* calls its capacity, rmu its one holder, and soju is never taken to have *)
(* been sent more PONGs than it sent PINGs.                                *)
THEOREM TypeCorrect == Spec => []TypeOK
  <1>1. ClientInv(Message, 0) => TypeOK
    <2> SUFFICES ASSUME ClientInv(Message, 0)
                 PROVE  TypeOK
      OBVIOUS
    <2> QED
      BY DEF ClientInv, StreamsInv, CallsInv, BookInv, PingInv, TypeOK, Places, Held
  <1> QED
    BY <1>1, ClientInvariant, PTL

(* isOpped's answer about a channel is never drawn from the names of       *)
(* another (watch.go:392-407).                                             *)
THEOREM OpVerdicts == Spec => []OpVerdictOfItsChannel
  <1>1. Init => OpVerdictOfItsChannel
    BY DEF Init, OpVerdictOfItsChannel
  <1>2. /\ ClientInv(Message, 0) /\ OpVerdictOfItsChannel /\ [Next]_vars
        => OpVerdictOfItsChannel'
    <2> SUFFICES ASSUME ClientInv(Message, 0), OpVerdictOfItsChannel, [Next]_vars,
                        NEW i \in Calls, kind'[i] = "names", result'[i] \in {"ok", "err"}
                 PROVE  result'[i] = decided'[i]
      BY DEF OpVerdictOfItsChannel
    <2>1. BookInv
      BY DEF ClientInv
    <2>2. CASE UNCHANGED <<made, kind, decided, result>>
      BY <2>2 DEF OpVerdictOfItsChannel
    <2>3. CASE Asks
      <3>1. result[made + 1] = "none"
        BY <2>1, <2>3, ClientAssumption DEF BookInv, Asks, Calls
      <3>2. i # made + 1
        BY <2>3, <3>1 DEF Asks
      <3>3. kind'[i] = kind[i]
        BY <2>1, <2>3, <3>2 DEF BookInv, Asks
      <3> QED
        BY <2>3, <3>3 DEF OpVerdictOfItsChannel, Asks
    <2>4. ASSUME NEW n \in 1..made, Decides(n)
          PROVE  result'[i] = decided'[i]
      <3>1. result[i] = decided[i] /\ result[i] \in {"ok", "err"}
        BY <2>4 DEF OpVerdictOfItsChannel, Decides
      <3>2. i # n
        BY <2>4, <3>1 DEF Decides
      <3> QED
        BY <2>1, <2>4, <3>1, <3>2 DEF BookInv, Decides
    <2>5. ASSUME NEW c \in Callers, NEW r \in Verdicts \cup {"closed", "failed", "timeout"},
                 Concludes(c, r)
          PROVE  result'[i] = decided'[i]
      <3>1. CASE i # call[c].id
        BY <2>1, <2>5, <3>1 DEF BookInv, Concludes, OpVerdictOfItsChannel
      <3>2. CASE i = call[c].id
        <4>1. result'[i] = r /\ kind[i] = "names" /\ decided' = decided
          BY <2>1, <2>5, <3>2 DEF BookInv, Concludes
        <4>2. /\ call[c].at = "wait" /\ in # <<>> /\ Ends(i, Head(in))
              /\ r = Judge(i, call[c].got)
          BY <2>5, <3>2, <4>1 DEF Concludes
        <4>3. Judge(i, call[c].got) \in {"ok", "err"}
          BY <4>1, <4>2
        <4>4. Judge(i, call[c].got) = decided[i]
          BY <3>2, <4>1, <4>2, <4>3, MessagesCarried, NamesJudged
        <4> QED
          BY <4>1, <4>2, <4>4
      <3> QED
        BY <3>1, <3>2
    <2>6. \/ UNCHANGED <<made, kind, decided, result>>
          \/ Asks
          \/ \E n \in 1..made : Decides(n)
          \/ \E c \in Callers, r \in Verdicts \cup {"closed", "failed", "timeout"} : Concludes(c, r)
      <3>1. Next \/ UNCHANGED <<made, kind, decided, result>>
        BY DEF vars
      <3> QED
        BY <3>1, MessagesCarried, BookSteps
    <2> QED
      BY <2>2, <2>3, <2>4, <2>5, <2>6
  <1> QED
    BY <1>1, <1>2, ClientInvariant, PTL DEF Spec

(* A caller is told what soju decided, unless something of an earlier call *)
(* was under way or a message did not fit (client.go:280-290, 384-401,     *)
(* 485-490, 498-503).  An administrator's notice comes through BouncerServ *)
(* like an answer, and Serv may take it for one: either nobody sends any,  *)
(* or the calls are others.                                                *)
THEOREM VerdictsFaithful ==
  ASSUME "notice" \in Noises => "serv" \notin Kinds
  PROVE  Spec => VerdictFaithful
  <1>1. ClientInv(Message, 0) /\ [Next]_vars =>
          [\A i \in Calls :
              result'[i] # result[i] /\ result'[i] \in Verdicts /\ ~stale /\ ~dropped
                => result'[i] = decided[i]]_vars
    <2> SUFFICES ASSUME ClientInv(Message, 0), Next,
                        NEW i \in Calls, result'[i] # result[i], result'[i] \in Verdicts,
                        ~stale, ~dropped
                 PROVE  result'[i] = decided[i]
      BY DEF vars
    <2>1. PICK c \in Callers, r \in Verdicts \cup {"closed", "failed", "timeout"} : Concludes(c, r)
      BY MessagesCarried, BookSteps DEF Asks, Decides
    <2>2. i = call[c].id /\ result'[i] = r
      BY <2>1 DEF ClientInv, BookInv, Concludes
    <2>3. /\ call[c].at = "wait" /\ in # <<>> /\ Ends(i, Head(in))
          /\ r = Judge(i, call[c].got)
      BY <2>1, <2>2 DEF Concludes, Verdicts
    <2> QED
      BY <2>2, <2>3, MessagesCarried, FaithfullyJudged
  <1> QED
    BY <1>1, ClientInvariant, PTL DEF Spec, VerdictFaithful

(* A connection keeps the promise of Rpc: soju deals with a request at     *)
(* most once, and one that is answered was dealt with before               *)
(* (client.go:297-312).                                                    *)
THEOREM RpcImplemented == Spec => ImplementsRpc
  <1>1. Init => R!Init
    BY DEF Init, R!Init, Outcome
  <1>2. ClientInv(Message, 0) /\ [Next]_vars => [R!Next]_R!vars
    <2> SUFFICES ASSUME ClientInv(Message, 0), [Next]_vars
                 PROVE  [R!Next]_R!vars
      OBVIOUS
    <2>1. BookInv /\ made \in Nat
      BY ClientAssumption DEF ClientInv, BookInv
    <2>2. CASE UNCHANGED <<made, kind, decided, result>>
      BY <2>2 DEF R!vars, Outcome, Fenced
    <2>3. CASE Asks
      <3>1. made + 1 \in Calls /\ 1..made' = 1..made \cup {made + 1} /\ made + 1 \notin 1..made
        BY <2>1, <2>3, ClientAssumption DEF Asks, Calls
      <3>2. result[made + 1] = "none"
        BY <2>1, <3>1 DEF BookInv
      <3>3. \A i \in Calls : Outcome(i)' = Outcome(i)
        BY <2>1, <2>3, <3>1, <3>2 DEF BookInv, Outcome, Asks, Fenced
      <3>4. R!Ask(made + 1)
        BY <2>3, <3>1, <3>3 DEF R!Ask, Asks
      <3> QED
        BY <3>1, <3>4 DEF R!Next
    <2>4. ASSUME NEW i \in 1..made, Decides(i)
          PROVE  R!Next
      <3>1. i \in Calls
        BY <2>1, ClientAssumption DEF BookInv, Calls
      <3>2. \A n \in Calls : Outcome(n)' = Outcome(n)
        BY <2>4 DEF Outcome, Decides, Fenced
      <3>3. R!Decide(i)
        BY <2>4, <3>2 DEF R!Decide, Decides
      <3> QED
        BY <3>1, <3>3 DEF R!Next
    <2>5. ASSUME NEW c \in Callers, NEW r \in Verdicts \cup {"closed", "failed", "timeout"},
                 Concludes(c, r)
          PROVE  R!Next
      <3> DEFINE i == call[c].id
      <3>1. i \in Calls /\ i \in 1..made /\ result[i] = "none" /\ Outcome(i) = "none"
        BY <2>1, <2>5, ClientAssumption DEF BookInv, Concludes, Calls, Held, Outcome
      <3>2. result'[i] = r /\ \A n \in Calls : n # i => result'[n] = result[n]
        BY <2>1, <2>5, <3>1 DEF BookInv, Concludes
      <3>3. r # "none"
        BY DEF Verdicts
      <3> HIDE DEF i
      <3> DEFINE told == IF Fenced(i) /\ r \in Verdicts THEN "answered" ELSE "gaveup"
                 outcome == [n \in Calls |-> Outcome(n)]
      <3>4. \A n \in Calls : (IF result'[n] = "none" THEN "none"
                              ELSE IF kind'[n] # "names" /\ result'[n] \in Verdicts
                                   THEN "answered" ELSE "gaveup")
                             = IF n = i THEN told ELSE Outcome(n)
        BY <2>5, <3>2, <3>3 DEF Outcome, Fenced, Concludes
      <3>5. outcome' = [outcome EXCEPT ![i] = told]
        BY <3>1, <3>4 DEF Outcome, Fenced
      <3>6. outcome[i] = "none" /\ made' = made /\ decided' = decided
        BY <2>5, <3>1 DEF Concludes
      <3>7. CASE Fenced(i) /\ r \in Verdicts
        <4>1. decided[i] # "none"
          BY <2>5, <3>7, MessagesCarried, ReadAtEnd DEF Concludes, Verdicts, i
        <4>2. R!Answer(i)
          BY <3>5, <3>6, <3>7, <4>1 DEF R!Answer
        <4> QED
          BY <3>1, <4>2 DEF R!Next
      <3>8. CASE ~(Fenced(i) /\ r \in Verdicts)
        <4>1. R!GiveUp(i)
          BY <3>1, <3>5, <3>6, <3>8 DEF R!GiveUp
        <4> QED
          BY <3>1, <4>1 DEF R!Next
      <3> QED
        BY <3>7, <3>8
    <2>6. \/ UNCHANGED <<made, kind, decided, result>>
          \/ Asks
          \/ \E n \in 1..made : Decides(n)
          \/ \E c \in Callers, r \in Verdicts \cup {"closed", "failed", "timeout"} : Concludes(c, r)
      <3>1. Next \/ UNCHANGED <<made, kind, decided, result>>
        BY DEF vars
      <3> QED
        BY <3>1, MessagesCarried, BookSteps
    <2> QED
      BY <2>2, <2>3, <2>4, <2>5, <2>6
  <1> QED
    BY <1>1, <1>2, ClientInvariant, PTL DEF Spec, ImplementsRpc, R!Spec
=============================================================================
