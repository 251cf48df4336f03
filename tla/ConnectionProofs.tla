-------------------------- MODULE ConnectionProofs --------------------------
(***************************************************************************)
(* What holds of Connection for any number of callers and calls, whatever  *)
(* soju answers to a login and whenever it breaks.                         *)
(***************************************************************************)
EXTENDS Connection, ClientProofs

(* What a login writes, and what soju answers.                             *)
LoginLines == {"CAP LS", "CAP REQ", "AUTHENTICATE PLAIN", "password", "CAP END"}
LoginWords ==
    {"LS*", "LS* sasl", "LS", "LS sasl", "refusal", "ACK", "NAK", "AUTHENTICATE",
     "903", "904", "001", "other"}

ClientWords ==
    {"command", "fence", "pong", "line", "errline", "added", "fail", "op",
     "noop", "end", "other", "ping"}

ConnMessage == [cmd : ClientWords \cup LoginLines \cup LoginWords, of : 0..MaxCalls]

(* The answers that move a login on.                                       *)
Keys == {"LS", "LS sasl", "ACK", "AUTHENTICATE", "903", "001"}

(* What a stage has written, and the answers that it goes on with.         *)
Asked ==
    CASE stage = "LS" -> "CAP LS"
      [] stage = "ACK" -> "CAP REQ"
      [] stage = "AUTHENTICATE" -> "AUTHENTICATE PLAIN"
      [] stage = "903" -> "password"
      [] stage = "001" -> "CAP END"

KeysTo(line) ==
    CASE line = "CAP LS" -> {"LS", "LS sasl"}
      [] line = "CAP REQ" -> {"ACK"}
      [] line = "AUTHENTICATE PLAIN" -> {"AUTHENTICATE"}
      [] line = "password" -> {"903"}
      [] line = "CAP END" -> {"001"}

(* The words of S in q: at most one.                                       *)
Among(q, S) == {j \in 1..Len(q) : q[j].cmd \in S}
Single(q, S) == \A j, k \in Among(q, S) : j = k

(* The login goes back and forth: its last line is under way to soju, or   *)
(* the answer to it is under way back, or neither; never both.             *)
TurnInv ==
    /\ Single(wire, LoginLines) /\ Single(pipe, Keys)
    /\ Among(wire, LoginLines) = {} \/ Among(pipe, Keys) = {}
    /\ stage \in Reading =>
          /\ \A j \in Among(wire, LoginLines) : wire[j].cmd = Asked
          /\ \A j \in Among(pipe, Keys) : pipe[j].cmd \in KeysTo(Asked)
    /\ InUse => Among(wire, LoginLines) = {} /\ Among(pipe, Keys) = {}
    /\ stage = "dial" => Among(wire, LoginLines) = {} /\ Among(pipe, Keys) = {}
    /\ stage = "failed" => conn = "dead" /\ pipe = <<>>

(* soju has taken the steps of the login that its answers tell of.         *)
ProgressInv ==
    /\ \A j \in Among(pipe, Keys) :
          /\ pipe[j].cmd = "AUTHENTICATE" => sojuDid # "nothing"
          /\ pipe[j].cmd = "001" => sojuDid = "registered"
    /\ InUse => sojuDid = "registered"
    /\ stage \in {"ACK", "AUTHENTICATE", "903", "001"} => sasl
    /\ PasswordOnRequest

(* Until the connection is handed over, nobody calls.                      *)
UnusedInv ==
    ~InUse => made = 0 /\ in = <<>> /\ \A c \in Callers : call[c].at = "idle"

LoginTypes ==
    /\ stage \in Stages
    /\ bound \in BOOLEAN /\ sasl \in BOOLEAN /\ isAdmin \in BOOLEAN
    /\ sojuDid \in {"nothing", "prompted", "accepted", "registered"}
    /\ sentPass \in BOOLEAN
    /\ mislaid \in Nat
    /\ \A m \in Elems(wire) : m.cmd \in {"command", "fence", "pong"} \cup LoginLines

ConnInv ==
    /\ ClientInv(ConnMessage, mislaid)
    /\ LoginTypes
    /\ TurnInv
    /\ ProgressInv
    /\ UnusedInv

(* Dial's own call is the only one until it returns, and is "user status". *)
StatusInv == stage = "status" => made <= 1 /\ (made = 1 => kind[1] = "serv")

-----------------------------------------------------------------------------
(* Facts about the streams of a login.                                     *)

LEMMA ConnMessagesCarried == Carries(ConnMessage)
  BY DEF Carries, ConnMessage, ClientWords, Message, Msg

(* No word of S is in r that was not in q.                                 *)
Keeps(q, r, S) ==
    /\ Single(q, S) => Single(r, S)
    /\ \A j \in Among(r, S) : \E k \in Among(q, S) : r[j] = q[k]

LEMMA KeepsItself ==
  ASSUME NEW q, NEW S
  PROVE  Keeps(q, q, S)
  BY DEF Keeps

LEMMA AppendKeeps ==
  ASSUME NEW M, NEW q \in Seq(M), NEW S, NEW m \in M, m.cmd \notin S
  PROVE  Keeps(q, Append(q, m), S)
  <1>1. \A j \in Among(Append(q, m), S) : j \in Among(q, S) /\ Append(q, m)[j] = q[j]
    BY DEF Among
  <1> QED
    BY <1>1 DEF Keeps, Single

LEMMA TailKeeps ==
  ASSUME NEW M, NEW q \in Seq(M), q # <<>>, NEW S
  PROVE  /\ Keeps(q, Tail(q), S)
         /\ Single(q, S) /\ Head(q).cmd \in S => Among(Tail(q), S) = {}
  <1>1. /\ Len(q) \in Nat \ {0} /\ Head(q) = q[1] /\ Len(Tail(q)) = Len(q) - 1
        /\ \A j \in 1..Len(q) - 1 : Tail(q)[j] = q[j + 1]
    BY HeadElems
  <1>2. ASSUME NEW j \in Among(Tail(q), S)
        PROVE  j \in Nat \ {0} /\ j + 1 \in Among(q, S) /\ Tail(q)[j] = q[j + 1]
    BY <1>1 DEF Among
  <1>3. Head(q).cmd \in S => 1 \in Among(q, S)
    BY <1>1 DEF Among
  <1>4. Single(q, S) => Single(Tail(q), S)
    <2> SUFFICES ASSUME Single(q, S), NEW j \in Among(Tail(q), S), NEW k \in Among(Tail(q), S)
                 PROVE  j = k
      BY DEF Single
    <2>1. j + 1 = k + 1 /\ j \in Nat /\ k \in Nat
      BY <1>2 DEF Single
    <2> QED
      BY <2>1
  <1>5. Single(q, S) /\ Head(q).cmd \in S => Among(Tail(q), S) = {}
    <2> SUFFICES ASSUME Single(q, S), Head(q).cmd \in S, NEW j \in Among(Tail(q), S)
                 PROVE  FALSE
      OBVIOUS
    <2>1. j + 1 = 1 /\ j \in Nat \ {0}
      BY <1>2, <1>3 DEF Single
    <2> QED
      BY <2>1
  <1> QED
    BY <1>2, <1>4, <1>5 DEF Keeps

LEMMA PrefixKeeps ==
  ASSUME NEW M, NEW q \in Seq(M), NEW n \in 0..Len(q), NEW S
  PROVE  Keeps(q, SubSeq(q, 1, n), S)
  <1>1. \A j \in Among(SubSeq(q, 1, n), S) : j \in Among(q, S) /\ SubSeq(q, 1, n)[j] = q[j]
    BY PrefixElems DEF Among
  <1> QED
    BY <1>1 DEF Keeps, Single

LEMMA KeepsOn ==
  ASSUME NEW q, NEW r, NEW s, NEW S, Keeps(q, r, S), Keeps(r, s, S)
  PROVE  Keeps(q, s, S)
  BY DEF Keeps

(* What calls and soju's answers to them do to the streams.                *)
Traffic ==
    /\ \/ wire' = wire
       \/ wire # <<>> /\ wire' = Tail(wire)
       \/ \E n \in 0..Len(wire) : wire' = SubSeq(wire, 1, n)
       \/ \E m \in ConnMessage : m.cmd \in {"command", "fence", "pong"} /\ wire' = Append(wire, m)
    /\ \/ pipe' = pipe
       \/ pipe # <<>> /\ pipe' = Tail(pipe)
       \/ \E n \in 0..Len(pipe) : pipe' = SubSeq(pipe, 1, n)
       \/ \E m \in ConnMessage : m.cmd \notin Keys /\ pipe' = Append(pipe, m)
       \/ \E m, x \in ConnMessage :
             m.cmd \notin Keys /\ x.cmd \notin Keys /\ pipe' = Append(Append(pipe, m), x)

LEMMA MessagesAre ==
  ASSUME NEW w \in ClientWords, NEW i \in 0..MaxCalls
  PROVE  Msg(w, i) \in ConnMessage /\ Msg(w, i).cmd = w /\ w \notin Keys /\ w \notin LoginLines
  BY DEF ConnMessage, ClientWords, Msg, Keys, LoginLines

LEMMA NextIsTraffic ==
  ASSUME NEW mis \in Nat, ClientInv(ConnMessage, mis), Next
  PROVE  Traffic
  <1> DEFINE M == ConnMessage
  <1>0. /\ wire \in Seq(M) /\ pipe \in Seq(M) /\ 0 \in 0..MaxCalls
        /\ \A c \in Callers : call[c].id \in 0..MaxCalls
    BY ClientAssumption DEF ClientInv, StreamsInv, CallsInv
  <1>1. ASSUME NEW w \in {"command", "fence", "pong"}, NEW i \in 0..MaxCalls, WriteOK(Msg(w, i))
        PROVE  \/ wire' = wire
               \/ \E m \in M : m.cmd \in {"command", "fence", "pong"} /\ wire' = Append(wire, m)
    <2>1. Msg(w, i) \in M /\ Msg(w, i).cmd = w
      BY MessagesAre DEF ClientWords
    <2> QED
      BY <1>1, <2>1 DEF WriteOK
  <1>2. ASSUME NEW w \in ClientWords, NEW i \in 0..MaxCalls, pipe' = Append(pipe, Msg(w, i))
        PROVE  \E m \in M : m.cmd \notin Keys /\ pipe' = Append(pipe, m)
    BY <1>2, MessagesAre
  <1>3. CASE ReadMessage
    BY <1>3 DEF ReadMessage, Traffic
  <1>4. CASE ReadPing
    BY <1>0, <1>1, <1>4 DEF ReadPing, Traffic
  <1>5. CASE ReadEOF
    BY <1>5 DEF ReadEOF, Traffic, streams
  <1>6. ASSUME NEW c \in Callers, Step(c)
        PROVE  Traffic
    <2>1. CASE WriteCommand(c)
      BY <1>0, <1>1, <2>1 DEF WriteCommand, Traffic
    <2>2. CASE WriteFence(c)
      BY <1>0, <1>1, <2>2 DEF WriteFence, Traffic
    <2>3. CASE Lock(c) \/ DrainOne(c) \/ FoundClosed(c) \/ WriteFails(c) \/ Receive(c) \/ Timeout(c)
      BY <2>3 DEF Lock, DrainOne, FoundClosed, WriteFails, Receive, Timeout, Traffic, streams
    <2> QED
      BY <1>6, <2>1, <2>2, <2>3 DEF Step
  <1>7. ASSUME NEW c \in Callers, NEW k \in Kinds, Start(c, k)
        PROVE  Traffic
    BY <1>7 DEF Start, Traffic, streams
  <1>8. CASE ServeCommand
    <2> DEFINE i == Head(wire).of
    <2>1. wire # <<>> /\ wire' = Tail(wire) /\ Head(wire) \in Elems(wire) /\ Head(wire).cmd = "command"
      BY <1>0, <1>8, HeadElems DEF ServeCommand
    <2>2. i \in 1..made /\ i \in 1..MaxCalls /\ i \in 0..MaxCalls /\ kind[i] \in AllKinds
      <3>1. i \in 1..made
        BY <2>1 DEF ClientInv, WireInv
      <3> QED
        BY <3>1, ClientAssumption DEF ClientInv, BookInv, Calls
    <2>3. PICK v \in {"ok", "err"} : \E reply \in Replies(i, v) :
             pipe' = IF conn = "open" THEN pipe \o reply ELSE pipe
      BY <1>8 DEF ServeCommand
    <2>a. PICK reply \in Replies(i, v) : pipe' = IF conn = "open" THEN pipe \o reply ELSE pipe
      BY <2>3
    <2> HIDE DEF i
    <2>4. /\ Key(kind[i], v) \in ClientWords
          /\ Words(kind[i], v) \subseteq ClientWords
      BY <2>2, AnswersAre DEF AnswerWords, ClientWords
    <2>5. CASE reply = <<Msg(Key(kind[i], v), i)>>
      <3>1. Msg(Key(kind[i], v), i) \in M
        BY <2>2, <2>4, MessagesAre
      <3>2. pipe \o reply = Append(pipe, Msg(Key(kind[i], v), i))
        BY <1>0, <2>5, <3>1, ConcatAppend
      <3> QED
        BY <1>2, <2>1, <2>2, <2>a, <2>4, <3>2 DEF Traffic
    <2>6. CASE \E w \in {"line", "end"} \cap Words(kind[i], v) :
                  reply = <<Msg(Key(kind[i], v), i), Msg(w, i)>>
      <3>1. PICK w \in Words(kind[i], v) : reply = <<Msg(Key(kind[i], v), i), Msg(w, i)>>
        BY <2>6
      <3> DEFINE m == Msg(Key(kind[i], v), i)
                 x == Msg(w, i)
      <3>2. m \in M /\ x \in M /\ m.cmd \notin Keys /\ x.cmd \notin Keys
        BY <2>2, <2>4, MessagesAre
      <3>3. pipe \o reply = Append(Append(pipe, m), x)
        BY <1>0, <3>1, <3>2, ConcatAppend
      <3> HIDE DEF m, x
      <3> QED
        BY <2>1, <2>a, <3>2, <3>3 DEF Traffic
    <2> QED
      BY <2>2, <2>5, <2>6, RepliesAre
  <1>9. CASE ServeFence
    <2>1. wire # <<>> /\ wire' = Tail(wire) /\ Head(wire) \in M
      BY <1>0, <1>9, HeadElems DEF ServeFence
    <2>2. Head(wire).of \in 0..MaxCalls /\ "pong" \in ClientWords
      BY <2>1 DEF ConnMessage, ClientWords
    <2> QED
      BY <1>2, <1>9, <2>1, <2>2 DEF ServeFence, Traffic
  <1>10. CASE TakePong
    BY <1>10 DEF TakePong, Traffic
  <1>11. ASSUME NEW what \in Noises, SendUnasked(what)
         PROVE  Traffic
    <2> DEFINE w == IF what = "notice" THEN "line" ELSE what
    <2>1. w \in ClientWords
      BY ClientAssumption DEF ClientWords
    <2>2. pipe' = Append(pipe, Msg(w, 0)) /\ wire' = wire
      BY <1>11 DEF SendUnasked
    <2> HIDE DEF w
    <2> QED
      BY <1>0, <1>2, <2>1, <2>2 DEF Traffic
  <1>12. CASE Break
    BY <1>12 DEF Break, Traffic
  <1> QED
    BY <1>3, <1>4, <1>5, <1>6, <1>7, <1>8, <1>9, <1>10, <1>11, <1>12 DEF Next, ReadLoop, Soju

(* The login's lines and answers stay what they are meanwhile.             *)
LEMMA TrafficKeeps ==
  ASSUME wire \in Seq(ConnMessage), pipe \in Seq(ConnMessage), Traffic
  PROVE  /\ Keeps(wire, wire', LoginLines)
         /\ Keeps(pipe, pipe', Keys)
         /\ \A m \in Elems(wire') : m \in Elems(wire) \/ m.cmd \in {"command", "fence", "pong"}
  <1> DEFINE M == ConnMessage
  <1>1. Keeps(wire, wire', LoginLines)
    <2>1. ASSUME NEW m \in M, m.cmd \in {"command", "fence", "pong"}, wire' = Append(wire, m)
          PROVE  Keeps(wire, wire', LoginLines)
      BY <2>1, AppendKeeps DEF LoginLines
    <2>2. ASSUME NEW n \in 0..Len(wire), wire' = SubSeq(wire, 1, n)
          PROVE  Keeps(wire, wire', LoginLines)
      BY <2>2, PrefixKeeps
    <2>3. ASSUME wire # <<>>, wire' = Tail(wire)
          PROVE  Keeps(wire, wire', LoginLines)
      BY <2>3, TailKeeps
    <2> QED
      BY <2>1, <2>2, <2>3, KeepsItself DEF Traffic
  <1>2. Keeps(pipe, pipe', Keys)
    <2>1. ASSUME NEW m \in M, m.cmd \notin Keys, pipe' = Append(pipe, m)
          PROVE  Keeps(pipe, pipe', Keys)
      BY <2>1, AppendKeeps
    <2>2. ASSUME NEW m \in M, NEW x \in M, m.cmd \notin Keys, x.cmd \notin Keys,
                 pipe' = Append(Append(pipe, m), x)
          PROVE  Keeps(pipe, pipe', Keys)
      <3>1. Append(pipe, m) \in Seq(M)
        BY AppendElems
      <3>2. Keeps(pipe, Append(pipe, m), Keys)
        BY <2>2, AppendKeeps
      <3>3. Keeps(Append(pipe, m), Append(Append(pipe, m), x), Keys)
        BY <2>2, <3>1, AppendKeeps
      <3> QED
        BY <2>2, <3>2, <3>3, KeepsOn
    <2>3. ASSUME NEW n \in 0..Len(pipe), pipe' = SubSeq(pipe, 1, n)
          PROVE  Keeps(pipe, pipe', Keys)
      BY <2>3, PrefixKeeps
    <2>4. ASSUME pipe # <<>>, pipe' = Tail(pipe)
          PROVE  Keeps(pipe, pipe', Keys)
      BY <2>4, TailKeeps
    <2> QED
      BY <2>1, <2>2, <2>3, <2>4, KeepsItself DEF Traffic
  <1>3. \A m \in Elems(wire') : m \in Elems(wire) \/ m.cmd \in {"command", "fence", "pong"}
    <2>1. ASSUME NEW m \in M, m.cmd \in {"command", "fence", "pong"}, wire' = Append(wire, m)
          PROVE  Elems(wire') = Elems(wire) \cup {m}
      BY <2>1, AppendElems
    <2>2. ASSUME NEW n \in 0..Len(wire), wire' = SubSeq(wire, 1, n)
          PROVE  Elems(wire') \subseteq Elems(wire)
      BY <2>2, PrefixElems
    <2>3. ASSUME wire # <<>>, wire' = Tail(wire)
          PROVE  Elems(wire') \subseteq Elems(wire)
      BY <2>3, HeadElems
    <2> QED
      BY <2>1, <2>2, <2>3 DEF Traffic
  <1> QED
    BY <1>1, <1>2, <1>3

-----------------------------------------------------------------------------
(* The steps that leave the login where it is.                             *)

LEMMA TurnKeeps ==
  ASSUME TurnInv, ProgressInv, Keeps(wire, wire', LoginLines), Keeps(pipe, pipe', Keys),
         UNCHANGED <<stage, sentPass, sojuDid>>, sasl => sasl',
         stage = "failed" => conn' = "dead" /\ pipe' = <<>>
  PROVE  TurnInv' /\ ProgressInv'
  <1>1. /\ stage' = stage /\ sentPass' = sentPass /\ sojuDid' = sojuDid
        /\ Asked' = Asked
    BY DEF Asked
  <1>2. /\ \A j \in Among(wire', LoginLines) : \E k \in Among(wire, LoginLines) : wire'[j] = wire[k]
        /\ \A j \in Among(pipe', Keys) : \E k \in Among(pipe, Keys) : pipe'[j] = pipe[k]
    BY DEF Keeps
  <1>3. Single(wire', LoginLines) /\ Single(pipe', Keys)
    BY DEF Keeps, TurnInv
  <1>4. TurnInv'
    <2>1. Among(wire', LoginLines) = {} \/ Among(pipe', Keys) = {}
      BY <1>2 DEF TurnInv
    <2>2. stage' \in Reading =>
             /\ \A j \in Among(wire', LoginLines) : wire'[j].cmd = Asked'
             /\ \A j \in Among(pipe', Keys) : pipe'[j].cmd \in KeysTo(Asked)'
      <3>1. KeysTo(Asked)' = KeysTo(Asked)
        BY <1>1 DEF KeysTo
      <3> QED
        BY <1>1, <1>2, <3>1 DEF TurnInv
    <2>3. InUse' \/ stage' = "dial" => Among(wire', LoginLines) = {} /\ Among(pipe', Keys) = {}
      BY <1>1, <1>2 DEF TurnInv, InUse
    <2> QED
      BY <1>1, <1>3, <2>1, <2>2, <2>3 DEF TurnInv
  <1>5. ProgressInv'
    <2>1. \A j \in Among(pipe', Keys) :
             /\ pipe'[j].cmd = "AUTHENTICATE" => sojuDid' # "nothing"
             /\ pipe'[j].cmd = "001" => sojuDid' = "registered"
      BY <1>1, <1>2 DEF ProgressInv
    <2> QED
      BY <1>1, <2>1 DEF ProgressInv, InUse, PasswordOnRequest
  <1> QED
    BY <1>4, <1>5

(* A connection in use, soju taking a line of a call, a break, something   *)
(* soju sends unasked.                                                     *)
LEMMA InUseKeeps ==
  ASSUME ConnInv,
         (InUse /\ Use) \/ Soju \/ World,
         UNCHANGED <<loginVars, sojuDid>>
  PROVE  ConnInv'
  <1> DEFINE M == ConnMessage
  <1>1. ClientInv(M, mislaid) /\ mislaid \in Nat /\ wire \in Seq(M) /\ pipe \in Seq(M)
    BY DEF ConnInv, ClientInv, StreamsInv, LoginTypes
  <1>2. Next
    BY DEF Use, Begin, World, Next
  <1>3. ClientInv(M, mislaid)'
    <2>1. PICK n \in Nat : n = mislaid /\ n = mislaid'
      BY <1>1 DEF loginVars
    <2>2. ClientInv(M, n)'
      BY <1>1, <1>2, <2>1, ConnMessagesCarried, NextKeeps
    <2> QED
      BY <2>1, <2>2
  <1>4. Traffic
    BY <1>1, <1>2, NextIsTraffic
  <1>5. /\ Keeps(wire, wire', LoginLines) /\ Keeps(pipe, pipe', Keys)
        /\ \A m \in Elems(wire') : m \in Elems(wire) \/ m.cmd \in {"command", "fence", "pong"}
    BY <1>1, <1>4, TrafficKeeps
  <1>6. stage = "failed" => conn' = "dead" /\ pipe' = <<>>
    <2> SUFFICES ASSUME stage = "failed"
                 PROVE  conn' = "dead" /\ pipe' = <<>>
      OBVIOUS
    <2>1. Soju /\ conn = "dead" /\ pipe = <<>>
      BY DEF InUse, World, ConnInv, TurnInv
    <2> QED
      BY <2>1 DEF Soju, ServeCommand, ServeFence, TakePong
  <1>7. TurnInv' /\ ProgressInv'
    BY <1>5, <1>6, TurnKeeps DEF ConnInv, loginVars
  <1>8. LoginTypes'
    BY <1>5 DEF ConnInv, LoginTypes, loginVars
  <1>9. UnusedInv'
    <2>1. CASE InUse
      BY <2>1 DEF InUse, UnusedInv, loginVars
    <2>2. CASE ~InUse
      <3>1. UNCHANGED <<made, in, call>>
        BY <2>2 DEF Soju, World, ServeCommand, ServeFence, TakePong, Break, SendUnasked
      <3> QED
        BY <2>2, <3>1 DEF InUse, UnusedInv, loginVars, ConnInv
    <2> QED
      BY <2>1, <2>2
  <1> QED
    BY <1>3, <1>7, <1>8, <1>9 DEF ConnInv

-----------------------------------------------------------------------------
(* A step of the login: nobody calls, and what it writes and is sent is of *)
(* no call.  left is the number of PINGs that it leaves without an answer. *)

LEMMA UnusedKeeps ==
  ASSUME NEW n \in Nat, ClientInv(ConnMessage, n), ~InUse, UnusedInv,
         UNCHANGED <<useVars, noises, owed, decided>>,
         wire' \in Seq(ConnMessage), pipe' \in Seq(ConnMessage), conn' \in {"open", "dead"},
         \A m \in Elems(wire') : m \in Elems(wire) \/ (m.cmd \in LoginLines \cup {"pong"} /\ m.of = 0),
         \A m \in Elems(pipe') : m \in Elems(pipe) \/ (m.cmd \in LoginWords /\ m.of = 0),
         NEW left \in Nat, Count(pipe', Msg("ping", 0)) + Count(wire', Msg("pong", 0)) + left <= owed
  PROVE  ClientInv(ConnMessage, left)'
  <1> DEFINE M == ConnMessage
  <1>1. /\ made = 0 /\ in = <<>> /\ \A c \in Callers : call[c].at = "idle" /\ call[c].got = <<>>
        /\ UNCHANGED <<in, gone, lock, call, made, kind, result, stale, dropped, noises, owed, decided>>
    BY DEF UnusedInv, useVars, ClientInv, CallsInv
  <1>2. StreamsInv(M)' /\ CallsInv(M)' /\ BookInv'
    <2>1. StreamsInv(M)'
      BY <1>1 DEF ClientInv, StreamsInv
    <2>2. CallsInv(M)'
      BY <1>1 DEF ClientInv, CallsInv
    <2>3. BookInv'
      BY <1>1 DEF ClientInv, BookInv
    <2> QED
      BY <2>1, <2>2, <2>3
  <1>3. PingInv(left)'
    BY <1>1 DEF ClientInv, PingInv
  <1>4. \A m \in Elems(wire') : m.cmd \notin {"command", "fence"} /\ (m.cmd = "pong" => m.of = 0)
    <2>1. \A m \in Elems(wire) : m.cmd \notin {"command", "fence"} /\ (m.cmd = "pong" => m.of = 0)
      BY <1>1 DEF ClientInv, WireInv
    <2> QED
      BY <2>1 DEF LoginLines
  <1>5. WireInv' /\ WrittenInv'
    <2>1. WireInv'
      BY <1>1, <1>4 DEF WireInv
    <2>2. WrittenInv'
      BY <1>1 DEF WrittenInv
    <2> QED
      BY <2>1, <2>2
  <1>6. \A m \in Elems(pipe') : m.of = 0 /\ Fits(m)
    <2>1. \A m \in Elems(pipe) : m.of = 0 /\ Fits(m)
      BY <1>1 DEF ClientInv, FitInv, Fits
    <2> QED
      BY <2>1 DEF LoginWords, Fits
  <1>7. FitInv' /\ OnceInv'
    <2>1. FitInv'
      <3>1. \A m \in Elems(pipe') : Fits(m)'
        BY <1>1, <1>6 DEF Fits
      <3> QED
        BY <1>1, <3>1, EmptyStream DEF FitInv
    <2>2. ASSUME NEW c \in Callers, NEW i \in Calls, NEW w \in {"errline", "op", "noop"}
          PROVE  Times(c, Msg(w, i))' <= 1
      <3>1. Msg(w, i) \notin Elems(pipe')
        BY <1>6, ClientAssumption DEF Msg, Calls
      <3>2. Count(pipe', Msg(w, i)) = 0
        BY <3>1, AbsentCount
      <3> QED
        BY <1>1, <3>2, EmptyStream DEF Times
    <2> QED
      BY <2>1, <2>2 DEF OnceInv
  <1>8. FaithInv'
    BY <1>1 DEF FaithInv
  <1> QED
    BY <1>2, <1>3, <1>5, <1>7, <1>8 DEF ClientInv

(* A word is no PING and no PONG of soju's.                                *)
LEMMA WordsAre ==
  ASSUME NEW w \in LoginWords \cup LoginLines
  PROVE  /\ Msg(w, 0) \in ConnMessage /\ Msg(w, 0).cmd = w /\ Msg(w, 0).of = 0
         /\ Msg(w, 0) # Msg("ping", 0) /\ Msg(w, 0) # Msg("pong", 0)
  <1>1. 0 \in 0..MaxCalls
    BY ClientAssumption
  <1>2. w # "ping" /\ w # "pong"
    BY DEF LoginWords, LoginLines
  <1> QED
    BY <1>1, <1>2 DEF ConnMessage, Msg

LEMMA FailKeeps ==
  ASSUME ConnInv, ~InUse, Fail, sasl' \in BOOLEAN,
         sentPass' \in BOOLEAN, sentPass' => sasl' /\ sojuDid # "nothing",
         UNCHANGED <<useVars, noises, owed, decided, bound, isAdmin, sojuDid, mislaid>>
  PROVE  ConnInv'
  <1> DEFINE M == ConnMessage
  <1>1. /\ stage' = "failed" /\ conn' = "dead" /\ wire' = wire /\ pipe' = <<>> /\ ~InUse'
        /\ wire \in Seq(M) /\ mislaid \in Nat /\ UnusedInv /\ ClientInv(M, mislaid)
    BY DEF Fail, Hangup, ConnInv, ClientInv, StreamsInv, LoginTypes, InUse
  <1>2. PICK n \in Nat : n = mislaid /\ n = mislaid'
    BY <1>1
  <1>3. ClientInv(M, n)'
    <2>1. Count(pipe', Msg("ping", 0)) = 0 /\ Elems(pipe') = {} /\ pipe' \in Seq(M)
      BY <1>1, EmptyStream
    <2>2. /\ Count(pipe, Msg("ping", 0)) \in Nat /\ Count(wire, Msg("pong", 0)) \in Nat
          /\ owed \in Nat
          /\ Count(pipe, Msg("ping", 0)) + Count(wire, Msg("pong", 0)) + n <= owed
      BY <1>1, <1>2, AtFinite DEF ClientInv, StreamsInv, PingInv
    <2>3. Count(pipe', Msg("ping", 0)) + Count(wire', Msg("pong", 0)) + n <= owed
      BY <1>1, <2>1, <2>2
    <2>4. /\ wire' \in Seq(M) /\ conn' \in {"open", "dead"}
          /\ Elems(wire') = Elems(wire)
          /\ UNCHANGED <<useVars, noises, owed, decided>>
      BY <1>1
    <2>5. ClientInv(M, n)
      BY <1>1, <1>2
    <2> QED
      BY <1>1, <2>1, <2>3, <2>4, <2>5, UnusedKeeps
  <1>4. Among(pipe', Keys) = {} /\ Among(wire', LoginLines) = Among(wire, LoginLines)
    BY <1>1 DEF Among
  <1>5. TurnInv'
    BY <1>1, <1>4 DEF ConnInv, TurnInv, Single, Among, Reading
  <1>6. ProgressInv'
    BY <1>1, <1>4 DEF ProgressInv, PasswordOnRequest
  <1>7. LoginTypes' /\ UnusedInv'
    <2>1. LoginTypes'
      BY <1>1 DEF ConnInv, LoginTypes, Stages
    <2>2. UnusedInv'
      BY <1>1 DEF UnusedInv, useVars, InUse
    <2> QED
      BY <2>1, <2>2
  <1> QED
    BY <1>2, <1>3, <1>5, <1>6, <1>7 DEF ConnInv

(* The login takes a message off the stream and says nothing of its own.   *)
LEMMA SkipKeeps ==
  ASSUME ConnInv, stage \in Reading, pipe # <<>>, pipe' = Tail(pipe), conn' = conn,
         \/ Head(pipe).cmd # "ping" /\ wire' = wire
         \/ Head(pipe).cmd = "ping" /\ WriteOK(Msg("pong", 0)),
         sasl' \in BOOLEAN, sasl => sasl',
         UNCHANGED <<useVars, noises, owed, decided, stage, bound, isAdmin, sojuDid, sentPass, mislaid>>
  PROVE  ConnInv'
  <1> DEFINE M == ConnMessage
             ping == Msg("ping", 0)
             pong == Msg("pong", 0)
  <1>1. /\ ~InUse /\ wire \in Seq(M) /\ pipe \in Seq(M) /\ mislaid \in Nat /\ conn \in {"open", "dead"}
        /\ UnusedInv /\ ClientInv(M, mislaid)
    BY DEF ConnInv, ClientInv, StreamsInv, LoginTypes, InUse, Reading
  <1>2. PICK n \in Nat : n = mislaid /\ n = mislaid'
    BY <1>1
  <1>3. pong \in M /\ pong.cmd = "pong" /\ pong.of = 0
    BY ClientAssumption, MessagesAre DEF ClientWords, Msg
  <1>4. wire' = wire \/ wire' = Append(wire, pong)
    BY DEF WriteOK
  <1> HIDE DEF pong, ping
  <1>a. Append(wire, pong) \in Seq(M) /\ Elems(Append(wire, pong)) = Elems(wire) \cup {pong}
    BY <1>1, <1>3, AppendElems
  <1>5. wire' \in Seq(M) /\ Elems(wire') \subseteq Elems(wire) \cup {pong}
    BY <1>1, <1>4, <1>a
  <1>6. pipe' \in Seq(M) /\ Elems(pipe') \subseteq Elems(pipe) /\ Head(pipe) \in Elems(pipe)
    BY <1>1, HeadElems
  <1>7. Head(pipe).cmd = "ping" => Head(pipe) = ping
    <2> SUFFICES ASSUME Head(pipe).cmd = "ping"
                 PROVE  Head(pipe) = ping
      OBVIOUS
    <2>1. BookInv /\ Fits(Head(pipe))
      BY <1>1, <1>6 DEF ClientInv, FitInv
    <2>2. Head(pipe).of = 0
      BY <2>1, FitsAre DEF AnswerWords
    <2> QED
      BY <1>1, <2>2, HeadElems, ConnMessagesCarried DEF Carries, ping
  <1>8. Count(pipe', ping) + Count(wire', pong) + n <= owed
    <2>1. Count(pipe, ping) + Count(wire, pong) + n <= owed /\ owed \in Nat
      BY <1>1, <1>2 DEF ClientInv, PingInv, ping, pong
    <2>2. /\ Count(pipe, ping) \in Nat /\ Count(wire, pong) \in Nat
          /\ Count(pipe', ping) \in Nat /\ Count(wire', pong) \in Nat
      BY <1>1, <1>5, <1>6, AtFinite
    <2>3. Count(pipe, ping) = IF Head(pipe) = ping THEN Count(pipe', ping) + 1 ELSE Count(pipe', ping)
      BY <1>1, TailCount
    <2>4. Count(Append(wire, pong), pong) = Count(wire, pong) + 1
      BY <1>1, <1>3, AppendCount
    <2>5. CASE wire' = wire
      BY <2>1, <2>2, <2>3, <2>5
    <2>6. CASE wire' = Append(wire, pong) /\ Head(pipe) = ping
      <3>1. Count(wire', pong) = Count(wire, pong) + 1
        BY <2>4, <2>6
      <3> QED
        BY <2>1, <2>2, <2>3, <2>6, <3>1
    <2> QED
      BY <1>4, <1>7, <2>5, <2>6 DEF WriteOK
  <1>9. ClientInv(M, n)'
    <2>1. ClientInv(M, n) /\ conn' \in {"open", "dead"}
      BY <1>1, <1>2
    <2>2. Count(pipe', Msg("ping", 0)) + Count(wire', Msg("pong", 0)) + n <= owed
      BY <1>8 DEF ping, pong
    <2>3. \A m \in Elems(wire') : m \in Elems(wire) \/ (m.cmd \in LoginLines \cup {"pong"} /\ m.of = 0)
      BY <1>3, <1>5
    <2>4. \A m \in Elems(pipe') : m \in Elems(pipe)
      BY <1>6
    <2> QED
      BY <1>1, <1>5, <1>6, <2>1, <2>2, <2>3, <2>4, UnusedKeeps
  <1>10. Keeps(wire, wire', LoginLines) /\ Keeps(pipe, pipe', Keys)
    <2>1. Keeps(wire, Append(wire, pong), LoginLines)
      BY <1>1, <1>3, AppendKeeps DEF LoginLines
    <2>2. Keeps(wire, wire', LoginLines)
      BY <1>4, <2>1, KeepsItself
    <2>3. Keeps(pipe, Tail(pipe), Keys)
      BY <1>1, TailKeeps
    <2> QED
      BY <2>2, <2>3
  <1>11. TurnInv' /\ ProgressInv'
    BY <1>10, TurnKeeps DEF ConnInv, Reading
  <1>12. LoginTypes' /\ UnusedInv'
    <2>1. LoginTypes'
      BY <1>3, <1>5 DEF ConnInv, LoginTypes
    <2>2. UnusedInv'
      BY <1>1 DEF UnusedInv, useVars, InUse
    <2> QED
      BY <2>1, <2>2
  <1> QED
    BY <1>2, <1>9, <1>11, <1>12 DEF ConnInv

(* What is first in a stream is among its words.                           *)
LEMMA HeadAmong ==
  ASSUME NEW M, NEW q \in Seq(M), q # <<>>, NEW S, Head(q).cmd \in S
  PROVE  1 \in Among(q, S) /\ q[1] = Head(q)
  BY HeadElems DEF Among

(* The login writes its next line.                                         *)
LEMMA SayKeeps ==
  ASSUME ConnInv, NEW line \in LoginLines, WriteOK(Msg(line, 0)), conn' = conn,
         \/ stage = "dial" /\ pipe' = pipe
         \/ stage \in Reading /\ pipe # <<>> /\ Head(pipe).cmd \in Keys /\ pipe' = Tail(pipe),
         stage' \in Reading, Asked' = line,
         sasl' \in BOOLEAN, stage' # "LS" => sasl',
         sentPass' \in BOOLEAN, sentPass' => sasl' /\ sojuDid # "nothing",
         UNCHANGED <<useVars, noises, owed, decided, bound, isAdmin, sojuDid, mislaid>>
  PROVE  ConnInv'
  <1> DEFINE M == ConnMessage
             ping == Msg("ping", 0)
             pong == Msg("pong", 0)
             said == Msg(line, 0)
  <1>1. /\ ~InUse /\ ~InUse' /\ wire \in Seq(M) /\ pipe \in Seq(M) /\ mislaid \in Nat
        /\ conn \in {"open", "dead"} /\ UnusedInv /\ ClientInv(M, mislaid)
    BY DEF ConnInv, ClientInv, StreamsInv, LoginTypes, InUse, Reading
  <1>2. PICK n \in Nat : n = mislaid /\ n = mislaid'
    BY <1>1
  <1>3. said \in M /\ said.cmd = line /\ said.of = 0 /\ said # pong
    BY WordsAre
  <1>4. wire' = wire \/ wire' = Append(wire, said)
    BY DEF WriteOK
  <1> HIDE DEF pong, ping, said
  <1>5. Append(wire, said) \in Seq(M) /\ Elems(Append(wire, said)) = Elems(wire) \cup {said}
    BY <1>1, <1>3, AppendElems
  <1>6. wire' \in Seq(M) /\ Elems(wire') \subseteq Elems(wire) \cup {said}
    BY <1>1, <1>4, <1>5
  <1>7. pipe' \in Seq(M) /\ Elems(pipe') \subseteq Elems(pipe) /\ Count(pipe', ping) <= Count(pipe, ping)
    <2>1. CASE pipe' = pipe
      BY <1>1, <2>1, AtFinite
    <2>2. CASE pipe # <<>> /\ pipe' = Tail(pipe)
      <3>1. pipe' \in Seq(M) /\ Elems(pipe') \subseteq Elems(pipe)
        BY <1>1, <2>2, HeadElems
      <3>2. Count(pipe', ping) \in Nat
        BY <3>1, AtFinite
      <3>3. Count(pipe, ping) = IF Head(pipe) = ping THEN Count(pipe', ping) + 1 ELSE Count(pipe', ping)
        BY <1>1, <2>2, TailCount
      <3> QED
        BY <3>1, <3>2, <3>3
    <2> QED
      BY <2>1, <2>2
  <1>8. Count(wire', pong) = Count(wire, pong)
    <2>1. Count(Append(wire, said), pong) = Count(wire, pong)
      BY <1>1, <1>3, AppendCount
    <2> QED
      BY <1>4, <2>1
  <1>9. ClientInv(M, n)'
    <2>1. ClientInv(M, n) /\ conn' \in {"open", "dead"}
      BY <1>1, <1>2
    <2>2. Count(pipe', Msg("ping", 0)) + Count(wire', Msg("pong", 0)) + n <= owed
      <3>1. Count(pipe, ping) + Count(wire, pong) + n <= owed /\ owed \in Nat
        BY <2>1 DEF ClientInv, PingInv, ping, pong
      <3>2. Count(pipe, ping) \in Nat /\ Count(pipe', ping) \in Nat /\ Count(wire, pong) \in Nat
        BY <1>1, <1>7, AtFinite
      <3>3. Count(pipe', ping) + Count(wire', pong) + n <= owed
        BY <1>7, <1>8, <3>1, <3>2
      <3> QED
        BY <3>3 DEF ping, pong
    <2>3. \A m \in Elems(wire') : m \in Elems(wire) \/ (m.cmd \in LoginLines \cup {"pong"} /\ m.of = 0)
      BY <1>3, <1>6
    <2>4. \A m \in Elems(pipe') : m \in Elems(pipe)
      BY <1>7
    <2> QED
      BY <1>1, <1>6, <1>7, <2>1, <2>2, <2>3, <2>4, UnusedKeeps
  <1>10. Among(wire, LoginLines) = {} /\ Among(pipe', Keys) = {}
    <2>1. CASE stage = "dial" /\ pipe' = pipe
      BY <2>1 DEF ConnInv, TurnInv
    <2>2. CASE pipe # <<>> /\ Head(pipe).cmd \in Keys /\ pipe' = Tail(pipe)
      <3>1. 1 \in Among(pipe, Keys)
        BY <1>1, <2>2, HeadAmong
      <3>2. Among(wire, LoginLines) = {} /\ Single(pipe, Keys)
        BY <3>1 DEF ConnInv, TurnInv
      <3>3. Among(Tail(pipe), Keys) = {}
        BY <1>1, <2>2, <3>2, TailKeeps
      <3> QED
        BY <2>2, <3>2, <3>3
    <2> QED
      BY <2>1, <2>2
  <1>11. \A j \in Among(wire', LoginLines) : j = Len(wire) + 1 /\ wire'[j] = said
    <2>1. ASSUME NEW j \in Among(Append(wire, said), LoginLines)
          PROVE  j = Len(wire) + 1 /\ Append(wire, said)[j] = said
      <3>1. j \in 1..Len(wire) => j \in Among(wire, LoginLines)
        BY <1>1, <1>3 DEF Among
      <3>2. j \notin 1..Len(wire)
        BY <1>10, <3>1
      <3>3. j \in 1..Len(wire) + 1
        BY <1>1, <1>3 DEF Among
      <3>4. j = Len(wire) + 1
        BY <1>1, <3>2, <3>3
      <3>5. Append(wire, said)[Len(wire) + 1] = said
        BY <1>1, <1>3
      <3> QED
        BY <3>4, <3>5
    <2> QED
      BY <1>4, <1>10, <2>1
  <1>12. TurnInv'
    <2>1. Single(wire', LoginLines) /\ Single(pipe', Keys)
      BY <1>10, <1>11 DEF Single
    <2>2. \A j \in Among(wire', LoginLines) : wire'[j].cmd = Asked'
      BY <1>3, <1>11
    <2>3. stage' # "failed" /\ stage' # "dial"
      BY DEF Reading
    <2> QED
      BY <1>1, <1>10, <2>1, <2>2, <2>3 DEF TurnInv
  <1>13. ProgressInv'
    BY <1>1, <1>10 DEF ProgressInv, PasswordOnRequest
  <1>14. LoginTypes' /\ UnusedInv'
    <2>1. LoginTypes'
      BY <1>3, <1>6 DEF ConnInv, LoginTypes, Stages
    <2>2. UnusedInv'
      BY <1>1 DEF UnusedInv, useVars
    <2> QED
      BY <2>1, <2>2
  <1> QED
    BY <1>2, <1>9, <1>12, <1>13, <1>14 DEF ConnInv

(* What is left of a stream when n messages are taken off its head.        *)
LEMMA SuffixElems ==
  ASSUME NEW M, NEW q \in Seq(M), NEW n \in 1..Len(q)
  PROVE  LET r == SubSeq(q, n + 1, Len(q))
         IN  /\ r \in Seq(M) /\ Len(r) = Len(q) - n
             /\ \A j \in 1..Len(q) - n : r[j] = q[j + n]
             /\ Elems(r) \subseteq Elems(q)
  <1> DEFINE r == SubSeq(q, n + 1, Len(q))
  <1>1. /\ r \in Seq(M) /\ Len(r) = Len(q) - n
    OBVIOUS
  <1>2. \A j \in 1..Len(q) - n : r[j] = q[j + n]
    OBVIOUS
  <1>3. \A j \in 1..Len(q) - n : j + n \in 1..Len(q)
    OBVIOUS
  <1> QED
    BY <1>1, <1>2, <1>3 DEF Elems

LEMMA SuffixCount ==
  ASSUME NEW M, NEW q \in Seq(M), NEW n \in 1..Len(q), NEW x
  PROVE  /\ Cardinality({j \in 1..n : q[j] = x}) \in Nat
         /\ Cardinality({j \in 1..n : q[j] = x}) + Count(SubSeq(q, n + 1, Len(q)), x) = Count(q, x)
  <1> DEFINE r == SubSeq(q, n + 1, Len(q))
             A == {j \in 1..n : q[j] = x}
             B == {j + n : j \in At(r, x)}
  <1>a. /\ r \in Seq(M) /\ Len(r) = Len(q) - n
        /\ \A j \in 1..Len(q) - n : r[j] = q[j + n]
    BY SuffixElems
  <1> HIDE DEF r
  <1>1. At(q, x) = A \cup B /\ A \cap B = {}
    <2>1. ASSUME NEW i \in At(q, x), i \notin A
          PROVE  i - n \in At(r, x) /\ i = (i - n) + n
      BY <1>a, <2>1 DEF At
    <2>2. ASSUME NEW j \in At(r, x)
          PROVE  j + n \in At(q, x) /\ j + n \notin A
      BY <1>a DEF At
    <2>3. A \subseteq At(q, x)
      BY DEF At
    <2> HIDE DEF A
    <2> QED
      BY <2>1, <2>2, <2>3
  <1>2. r \in Seq(M) /\ IsFiniteSet(At(r, x)) /\ At(r, x) \in SUBSET Nat /\ IsFiniteSet(At(q, x))
    <2>2. At(r, x) \in SUBSET Nat
      BY DEF At
    <2> QED
      BY <1>a, <2>2, AtFinite
  <1>3. n \in Nat
    OBVIOUS
  <1>4. Cardinality(B) = Count(r, x) /\ IsFiniteSet(B) /\ IsFiniteSet(A)
    <2>1. IsFiniteSet(A)
      BY <1>1, <1>2, FS_Subset
    <2> DEFINE S == At(r, x)
    <2>2. S \in SUBSET Nat /\ IsFiniteSet(S) /\ B = {j + n : j \in S} /\ Count(r, x) = Cardinality(S)
      BY <1>2 DEF Count
    <2> HIDE DEF S, B, A
    <2> QED
      BY <1>3, <2>1, <2>2, ShiftCardinality
  <1> HIDE DEF A, B
  <1>5. Cardinality(A \cup B) = Cardinality(A) + Cardinality(B) - Cardinality(A \cap B)
    BY <1>4, FS_Union
  <1>6. Cardinality(A) \in Nat /\ Cardinality(B) \in Nat /\ Cardinality({}) = 0
    BY <1>4, FS_CardinalityType, FS_EmptySet
  <1>7. Count(q, x) = Cardinality(A) + Count(r, x)
    <2>1. Count(q, x) = Cardinality(A \cup B) /\ Cardinality(A \cap B) = 0
      BY <1>1, <1>6 DEF Count
    <2> QED
      BY <1>4, <1>5, <1>6, <2>1
  <1> QED
    BY <1>6, <1>7 DEF A, r

(* A message of no interest in front of the others.                        *)
LEMMA PrependElems ==
  ASSUME NEW M, NEW q \in Seq(M), NEW x \in M
  PROVE  /\ <<x>> \o q \in Seq(M) /\ <<x>> \o q # <<>>
         /\ Head(<<x>> \o q) = x /\ Tail(<<x>> \o q) = q
         /\ Elems(<<x>> \o q) = Elems(q) \cup {x}
  <1> DEFINE r == <<x>> \o q
  <1>1. r \in Seq(M) /\ r # <<>> /\ Head(r) = x /\ Tail(r) = q
    OBVIOUS
  <1> HIDE DEF r
  <1>2. Elems(r) = Elems(q) \cup {x}
    BY <1>1, HeadTailElems
  <1> QED
    BY <1>1, <1>2 DEF r

LEMMA PrependAmong ==
  ASSUME NEW M, NEW q \in Seq(M), NEW x \in M, NEW S, x.cmd \notin S, Among(q, S) = {}
  PROVE  Among(<<x>> \o q, S) = {}
  <1> DEFINE r == <<x>> \o q
  <1>1. /\ Len(r) = Len(q) + 1 /\ r[1] = x
        /\ \A j \in 2..Len(r) : r[j] = q[j - 1] /\ j - 1 \in 1..Len(q)
    OBVIOUS
  <1> HIDE DEF r
  <1> SUFFICES ASSUME NEW j \in 1..Len(r), r[j].cmd \in S
               PROVE  FALSE
    BY DEF Among, r
  <1>2. j \in 2..Len(r)
    BY <1>1
  <1>3. j - 1 \in Among(q, S)
    BY <1>1, <1>2 DEF Among
  <1> QED
    BY <1>3

(* Registered: the login's reader is dropped with what it had taken in.    *)
LEMMA WelcomeKeeps ==
  ASSUME ConnInv, stage = "001", pipe # <<>>, Head(pipe).cmd = "001",
         stage' \in {"status", "ready"},
         NEW j \in 1..Len(pipe), NEW rest, rest = SubSeq(pipe, j + 1, Len(pipe)),
         NEW cut, cut = Msg("other", 0), pipe' = rest \/ pipe' = <<cut>> \o rest,
         mislaid' = Cardinality({k \in 1..j : pipe[k].cmd = "ping"}),
         UNCHANGED <<wire, conn, useVars, noises, owed, decided, sasl, bound, isAdmin, sojuDid, sentPass>>
  PROVE  ConnInv'
  <1> DEFINE M == ConnMessage
             ping == Msg("ping", 0)
             pong == Msg("pong", 0)
  <1>1. /\ ~InUse /\ InUse' /\ wire \in Seq(M) /\ pipe \in Seq(M) /\ mislaid \in Nat
        /\ conn \in {"open", "dead"} /\ UnusedInv /\ ClientInv(M, mislaid)
    BY DEF ConnInv, ClientInv, StreamsInv, LoginTypes, InUse
  <1>2. /\ rest \in Seq(M) /\ Elems(rest) \subseteq Elems(pipe) /\ Len(rest) = Len(pipe) - j
        /\ \A k \in 1..Len(pipe) - j : rest[k] = pipe[k + j]
    BY <1>1, SuffixElems
  <1>a. /\ cut \in M /\ cut.cmd = "other" /\ cut.of = 0
        /\ cut # ping /\ "other" \in LoginWords /\ "other" \notin Keys
    <2>1. "other" \in LoginWords /\ "other" \notin Keys
      BY DEF LoginWords, Keys
    <2> QED
      BY <2>1, WordsAre
  <1>b. /\ pipe' \in Seq(M)
        /\ \A m \in Elems(pipe') : m \in Elems(rest) \/ m = cut
        /\ Count(pipe', ping) = Count(rest, ping)
        /\ Among(rest, Keys) = {} => Among(pipe', Keys) = {}
    <2>1. /\ rest \in Seq(M) /\ cut \in M /\ ping # cut /\ cut.cmd \notin Keys
          /\ pipe' = rest \/ pipe' = <<cut>> \o rest
      BY <1>2, <1>a
    <2> HIDE DEF ping, M
    <2>2. CASE pipe' = <<cut>> \o rest
      <3>1. <<cut>> \o rest \in Seq(M) /\ Elems(<<cut>> \o rest) = Elems(rest) \cup {cut}
        BY <2>1, PrependElems
      <3>2. Count(<<cut>> \o rest, ping) = Count(rest, ping)
        <4>1. /\ <<cut>> \o rest \in Seq(M) /\ <<cut>> \o rest # <<>>
              /\ Head(<<cut>> \o rest) = cut /\ Tail(<<cut>> \o rest) = rest
          BY <2>1, PrependElems
        <4>2. PICK r \in Seq(M) : r = <<cut>> \o rest
          BY <4>1
        <4>3. Count(r, ping) = IF Head(r) = ping THEN Count(Tail(r), ping) + 1 ELSE Count(Tail(r), ping)
          BY <4>1, <4>2, TailCount
        <4>4. Count(r, ping) = Count(rest, ping)
          BY <2>1, <4>1, <4>2, <4>3
        <4> QED
          BY <4>2, <4>4
      <3>3. Among(rest, Keys) = {} => Among(<<cut>> \o rest, Keys) = {}
        BY <2>1, PrependAmong
      <3> QED
        BY <2>2, <3>1, <3>2, <3>3
    <2>3. /\ pipe' \in Seq(M)
          /\ \A m \in Elems(pipe') : m \in Elems(rest) \/ m = cut
          /\ Count(pipe', ping) = Count(rest, ping)
          /\ Among(rest, Keys) = {} => Among(pipe', Keys) = {}
      BY <2>1, <2>2
    <2> QED
      BY <2>3
  <1>3. \A k \in 1..Len(pipe) : pipe[k].cmd = "ping" <=> pipe[k] = ping
    <2> SUFFICES ASSUME NEW k \in 1..Len(pipe), pipe[k].cmd = "ping"
                 PROVE  pipe[k] = ping
      BY DEF Msg
    <2>1. BookInv /\ Fits(pipe[k])
      BY <1>1 DEF ClientInv, FitInv, Elems
    <2>2. pipe[k].of = 0
      BY <2>1, FitsAre DEF AnswerWords
    <2>3. pipe[k] \in M
      BY <1>1
    <2> QED
      BY <2>2, <2>3, ConnMessagesCarried DEF Carries
  <1>4. /\ mislaid' \in Nat
        /\ mislaid' + Count(pipe', ping) = Count(pipe, ping)
    <2>1. {k \in 1..j : pipe[k].cmd = "ping"} = {k \in 1..j : pipe[k] = ping}
      <3>1. \A k \in 1..j : k \in 1..Len(pipe)
        BY <1>1
      <3> QED
        BY <1>3, <3>1
    <2> HIDE DEF ping
    <2>2. /\ Cardinality({k \in 1..j : pipe[k] = ping}) \in Nat
          /\ Cardinality({k \in 1..j : pipe[k] = ping}) + Count(SubSeq(pipe, j + 1, Len(pipe)), ping)
             = Count(pipe, ping)
      BY <1>1, SuffixCount
    <2>3. Count(pipe', ping) = Count(SubSeq(pipe, j + 1, Len(pipe)), ping)
      BY <1>b
    <2> QED
      BY <2>1, <2>2, <2>3
  <1>5. PICK n \in Nat : n = mislaid
    BY <1>1
  <1>6. PICK left \in Nat : left = mislaid'
    BY <1>4
  <1>7. ClientInv(M, left)'
    <2>1. ClientInv(M, n) /\ conn' \in {"open", "dead"}
      BY <1>1, <1>5
    <2>2. Count(pipe', Msg("ping", 0)) + Count(wire', Msg("pong", 0)) + left <= owed
      <3>1. Count(pipe, ping) + Count(wire, pong) + n <= owed /\ owed \in Nat
        BY <2>1 DEF ClientInv, PingInv, ping, pong
      <3>2. Count(pipe, ping) \in Nat /\ Count(pipe', ping) \in Nat /\ Count(wire, pong) \in Nat
        BY <1>1, <1>b, AtFinite
      <3> HIDE DEF ping, pong
      <3>3. left + Count(pipe', ping) = Count(pipe, ping)
        BY <1>4, <1>6
      <3>4. Count(pipe', ping) + Count(wire, pong) + left <= owed
        BY <3>1, <3>2, <3>3
      <3> QED
        BY <3>4 DEF ping, pong
    <2>3. \A m \in Elems(wire') : m \in Elems(wire)
      OBVIOUS
    <2>4. \A m \in Elems(pipe') : m \in Elems(pipe) \/ (m.cmd \in LoginWords /\ m.of = 0)
      BY <1>2, <1>a, <1>b
    <2> QED
      BY <1>1, <1>b, <2>1, <2>2, <2>3, <2>4, UnusedKeeps
  <1>8. 1 \in Among(pipe, Keys) /\ pipe[1].cmd = "001"
    <2>1. "001" \in Keys
      BY DEF Keys
    <2> QED
      BY <1>1, <2>1, HeadAmong
  <1>9. Among(wire, LoginLines) = {} /\ Single(pipe, Keys) /\ sojuDid = "registered"
    BY <1>8 DEF ConnInv, TurnInv, ProgressInv
  <1>10. Among(pipe', Keys) = {}
    <2> SUFFICES ASSUME NEW k \in Among(rest, Keys)
                 PROVE  FALSE
      BY <1>b
    <2>1. k \in 1..Len(pipe) - j /\ rest[k].cmd \in Keys
      BY <1>1, <1>2 DEF Among
    <2>2. k + j \in Among(pipe, Keys) /\ k + j # 1
      BY <1>1, <1>2, <2>1 DEF Among
    <2> QED
      BY <1>8, <1>9, <2>2 DEF Single
  <1>11. TurnInv'
    BY <1>9, <1>10 DEF TurnInv, Single, Reading
  <1>12. ProgressInv'
    BY <1>9, <1>10 DEF ConnInv, ProgressInv, PasswordOnRequest
  <1>13. LoginTypes' /\ UnusedInv'
    <2>1. LoginTypes'
      BY <1>4 DEF ConnInv, LoginTypes, Stages
    <2>2. UnusedInv'
      BY <1>1 DEF UnusedInv
    <2> QED
      BY <2>1, <2>2
  <1> QED
    BY <1>6, <1>7, <1>11, <1>12, <1>13 DEF ConnInv

-----------------------------------------------------------------------------
(* soju's side of the login.                                               *)

(* A word of a reply to line, and what it tells of soju when it is done.   *)
Answers(w, line, did) ==
    /\ w \in LoginWords
    /\ w \in Keys => w \in KeysTo(line)
    /\ w = "AUTHENTICATE" => did # "nothing"
    /\ w = "001" => did = "registered"

LEMMA LoginRepliesAre ==
  ASSUME NEW line \in LoginLines, NEW reply \in LoginReplies(line)
  PROVE  /\ \/ \E a \in LoginWords : reply = <<a>> /\ Answers(a, line, After(reply))
            \/ \E a, b \in LoginWords :
                  /\ reply = <<a, b>>
                  /\ Answers(a, line, After(reply)) /\ Answers(b, line, After(reply))
                  /\ a \notin Keys \/ b \notin Keys
         /\ After(reply) \in {"prompted", "accepted", "registered", sojuDid}
  <1>1. CASE line = "CAP LS"
    BY <1>1 DEF LoginReplies, LoginWords, Keys, KeysTo, Answers, After
  <1>2. CASE line = "CAP REQ"
    BY <1>2 DEF LoginReplies, LoginWords, Keys, KeysTo, Answers, After
  <1>3. CASE line = "AUTHENTICATE PLAIN"
    <2>1. reply = <<"AUTHENTICATE">> \/ reply = <<"904">>
      BY <1>3 DEF LoginReplies
    <2>2. CASE reply = <<"AUTHENTICATE">>
      <3>1. After(reply) = "prompted"
        BY <2>2 DEF After
      <3> QED
        BY <1>3, <2>2, <3>1 DEF LoginWords, Keys, KeysTo, Answers
    <2>3. CASE reply = <<"904">>
      <3>1. After(reply) = sojuDid
        BY <2>3 DEF After
      <3> QED
        BY <1>3, <2>3, <3>1 DEF LoginWords, Keys, KeysTo, Answers
    <2> QED
      BY <2>1, <2>2, <2>3
  <1>4. CASE line = "password"
    BY <1>4 DEF LoginReplies, LoginWords, Keys, KeysTo, Answers, After
  <1>5. CASE line = "CAP END"
    <2>1. reply = <<"001">> \/ reply = <<"001", "other">> \/ reply = <<"refusal">>
      BY <1>5 DEF LoginReplies
    <2>2. CASE reply = <<"refusal">>
      <3>1. After(reply) = sojuDid
        BY <2>2 DEF After
      <3> QED
        BY <1>5, <2>2, <3>1 DEF LoginWords, Keys, KeysTo, Answers
    <2>3. ASSUME reply = <<"001">> \/ reply = <<"001", "other">>
          PROVE  After(reply) = "registered"
      BY <2>3 DEF After
    <2>4. CASE reply = <<"001">>
      BY <1>5, <2>3, <2>4 DEF LoginWords, Keys, KeysTo, Answers
    <2>5. CASE reply = <<"001", "other">>
      BY <1>5, <2>3, <2>5 DEF LoginWords, Keys, KeysTo, Answers
    <2> QED
      BY <2>1, <2>2, <2>4, <2>5
  <1> QED
    BY <1>1, <1>2, <1>3, <1>4, <1>5 DEF LoginLines

LEMMA AppendWord ==
  ASSUME NEW q \in Seq(ConnMessage), NEW w \in LoginWords
  PROVE  LET r == Append(q, Msg(w, 0))
         IN  /\ r \in Seq(ConnMessage)
             /\ \A m \in Elems(r) : m \in Elems(q) \/ (m.cmd \in LoginWords /\ m.of = 0)
             /\ Count(r, Msg("ping", 0)) = Count(q, Msg("ping", 0))
             /\ \A j \in Among(r, Keys) : \/ j \in Among(q, Keys) /\ r[j] = q[j]
                                          \/ j = Len(q) + 1 /\ r[j].cmd = w /\ w \in Keys
  <1> DEFINE x == Msg(w, 0)
             r == Append(q, x)
  <1>1. x \in ConnMessage /\ x.cmd = w /\ x.of = 0 /\ x # Msg("ping", 0)
    BY WordsAre
  <1> HIDE DEF x
  <1>2. r \in Seq(ConnMessage) /\ Elems(r) = Elems(q) \cup {x}
    BY <1>1, AppendElems
  <1>3. Count(r, Msg("ping", 0)) = Count(q, Msg("ping", 0))
    BY <1>1, AppendCount
  <1>4. \A j \in Among(r, Keys) : \/ j \in Among(q, Keys) /\ r[j] = q[j]
                                  \/ j = Len(q) + 1 /\ r[j].cmd = w /\ w \in Keys
    BY <1>1 DEF Among
  <1> QED
    BY <1>1, <1>2, <1>3, <1>4 DEF x

(* What a reply adds to a stream that holds no answer yet.                 *)
LEMMA ReplyAdds ==
  ASSUME NEW q \in Seq(ConnMessage), Among(q, Keys) = {},
         NEW line \in LoginLines, NEW reply \in LoginReplies(line)
  PROVE  LET r == q \o [j \in DOMAIN reply |-> Msg(reply[j], 0)]
         IN  /\ r \in Seq(ConnMessage)
             /\ \A m \in Elems(r) : m \in Elems(q) \/ (m.cmd \in LoginWords /\ m.of = 0)
             /\ Count(r, Msg("ping", 0)) = Count(q, Msg("ping", 0))
             /\ Single(r, Keys)
             /\ \A j \in Among(r, Keys) : Answers(r[j].cmd, line, After(reply))
  <1> DEFINE said == [j \in DOMAIN reply |-> Msg(reply[j], 0)]
             r == q \o said
  <1>1. ASSUME NEW a \in LoginWords, reply = <<a>>, Answers(a, line, After(reply))
        PROVE  /\ r \in Seq(ConnMessage)
               /\ \A m \in Elems(r) : m \in Elems(q) \/ (m.cmd \in LoginWords /\ m.of = 0)
               /\ Count(r, Msg("ping", 0)) = Count(q, Msg("ping", 0))
               /\ Single(r, Keys)
               /\ \A j \in Among(r, Keys) : Answers(r[j].cmd, line, After(reply))
    <2>1. said = <<Msg(a, 0)>> /\ Msg(a, 0) \in ConnMessage
      BY <1>1, WordsAre
    <2>2. r = Append(q, Msg(a, 0))
      BY <2>1, ConcatAppend
    <2> HIDE DEF r
    <2>3. \A j \in Among(r, Keys) : j = Len(q) + 1 /\ r[j].cmd = a
      BY <2>2, AppendWord
    <2>4. /\ r \in Seq(ConnMessage)
          /\ \A m \in Elems(r) : m \in Elems(q) \/ (m.cmd \in LoginWords /\ m.of = 0)
          /\ Count(r, Msg("ping", 0)) = Count(q, Msg("ping", 0))
      BY <2>2, AppendWord
    <2>5. Single(r, Keys) /\ \A j \in Among(r, Keys) : Answers(r[j].cmd, line, After(reply))
      BY <1>1, <2>3 DEF Single
    <2> QED
      BY <2>4, <2>5
  <1>2. ASSUME NEW a \in LoginWords, NEW b \in LoginWords, reply = <<a, b>>,
               Answers(a, line, After(reply)), Answers(b, line, After(reply)),
               a \notin Keys \/ b \notin Keys
        PROVE  /\ r \in Seq(ConnMessage)
               /\ \A m \in Elems(r) : m \in Elems(q) \/ (m.cmd \in LoginWords /\ m.of = 0)
               /\ Count(r, Msg("ping", 0)) = Count(q, Msg("ping", 0))
               /\ Single(r, Keys)
               /\ \A j \in Among(r, Keys) : Answers(r[j].cmd, line, After(reply))
    <2> DEFINE s == Append(q, Msg(a, 0))
    <2>1. said = <<Msg(a, 0), Msg(b, 0)>> /\ Msg(a, 0) \in ConnMessage /\ Msg(b, 0) \in ConnMessage
      BY <1>2, WordsAre
    <2>2. r = Append(s, Msg(b, 0))
      BY <2>1, ConcatAppend
    <2>3. /\ s \in Seq(ConnMessage) /\ Len(s) = Len(q) + 1 /\ Len(q) \in Nat
          /\ \A m \in Elems(s) : m \in Elems(q) \/ (m.cmd \in LoginWords /\ m.of = 0)
          /\ Count(s, Msg("ping", 0)) = Count(q, Msg("ping", 0))
          /\ \A j \in Among(s, Keys) : j = Len(q) + 1 /\ s[j].cmd = a /\ a \in Keys
      <3>1. Len(s) = Len(q) + 1 /\ Len(q) \in Nat
        BY <2>1
      <3> QED
        BY <3>1, AppendWord
    <2> HIDE DEF r, s
    <2>4. /\ r \in Seq(ConnMessage)
          /\ \A m \in Elems(r) : m \in Elems(s) \/ (m.cmd \in LoginWords /\ m.of = 0)
          /\ Count(r, Msg("ping", 0)) = Count(s, Msg("ping", 0))
          /\ \A j \in Among(r, Keys) : \/ j \in Among(s, Keys) /\ r[j] = s[j]
                                       \/ j = Len(s) + 1 /\ r[j].cmd = b /\ b \in Keys
      BY <2>2, <2>3, AppendWord
    <2>5. \A j \in Among(r, Keys) : \/ j = Len(q) + 1 /\ r[j].cmd = a /\ a \in Keys
                                    \/ j = Len(s) + 1 /\ r[j].cmd = b /\ b \in Keys
      BY <2>3, <2>4
    <2>6. Single(r, Keys) /\ \A j \in Among(r, Keys) : Answers(r[j].cmd, line, After(reply))
      BY <1>2, <2>5 DEF Single
    <2> QED
      BY <2>3, <2>4, <2>6
  <1> HIDE DEF said
  <1> QED
    BY <1>1, <1>2, LoginRepliesAre DEF said

LEMMA SojuLoginKeeps ==
  ASSUME ConnInv, SojuLogin
  PROVE  ConnInv'
  <1> DEFINE M == ConnMessage
             ping == Msg("ping", 0)
             pong == Msg("pong", 0)
             line == Head(wire).cmd
  <1>1. /\ wire \in Seq(M) /\ pipe \in Seq(M) /\ mislaid \in Nat /\ conn \in {"open", "dead"}
        /\ UnusedInv /\ ClientInv(M, mislaid) /\ wire # <<>> /\ wire' = Tail(wire)
        /\ UNCHANGED <<conn, useVars, noises, owed, decided, loginVars>>
    BY DEF SojuLogin, ConnInv, ClientInv, StreamsInv, LoginTypes
  <1>2. /\ wire' \in Seq(M) /\ Elems(wire') \subseteq Elems(wire) /\ Head(wire) \in Elems(wire)
        /\ line \in LoginLines
    <2>1. wire' \in Seq(M) /\ Elems(wire') \subseteq Elems(wire) /\ Head(wire) \in Elems(wire)
      BY <1>1, HeadElems
    <2> QED
      BY <2>1 DEF SojuLogin, ConnInv, LoginTypes
  <1>3. 1 \in Among(wire, LoginLines) /\ wire[1].cmd = line
    BY <1>1, <1>2, HeadAmong
  <1>4. /\ Single(wire, LoginLines) /\ Among(pipe, Keys) = {}
        /\ stage \in Reading => line = Asked
        /\ stage \notin {"dial", "status", "ready"} /\ ~InUse
    BY <1>3 DEF ConnInv, TurnInv, InUse
  <1>5. Among(wire', LoginLines) = {}
    BY <1>1, <1>2, <1>4, TailKeeps
  <1>6. PICK reply \in LoginReplies(line) :
           /\ pipe' = IF conn = "open" THEN pipe \o [j \in DOMAIN reply |-> Msg(reply[j], 0)]
                                       ELSE pipe
           /\ sojuDid' = After(reply)
    BY DEF SojuLogin
  <1> HIDE DEF line
  <1>7. After(reply) \in {"prompted", "accepted", "registered", sojuDid}
    BY <1>2, LoginRepliesAre
  <1>8. /\ pipe' \in Seq(M)
        /\ \A m \in Elems(pipe') : m \in Elems(pipe) \/ (m.cmd \in LoginWords /\ m.of = 0)
        /\ Count(pipe', ping) = Count(pipe, ping)
        /\ Single(pipe', Keys)
        /\ \A j \in Among(pipe', Keys) : Answers(pipe'[j].cmd, line, sojuDid')
    <2>1. CASE conn = "open"
      BY <1>1, <1>2, <1>4, <1>6, <2>1, ReplyAdds
    <2>2. CASE conn # "open"
      BY <1>1, <1>4, <1>6, <2>2 DEF Single
    <2> QED
      BY <2>1, <2>2
  <1>9. PICK n \in Nat : n = mislaid /\ n = mislaid'
    BY <1>1 DEF loginVars
  <1>10. ClientInv(M, n)'
    <2>1. ClientInv(M, n) /\ conn' \in {"open", "dead"}
      BY <1>1, <1>9
    <2>2. Count(pipe', Msg("ping", 0)) + Count(wire', Msg("pong", 0)) + n <= owed
      <3>1. Count(pipe, ping) + Count(wire, pong) + n <= owed /\ owed \in Nat
        BY <2>1 DEF ClientInv, PingInv, ping, pong
      <3>2. Count(pipe, ping) \in Nat /\ Count(wire', pong) \in Nat /\ Count(wire, pong) \in Nat
        BY <1>1, <1>2, AtFinite
      <3>3. Count(wire, pong) = IF Head(wire) = pong THEN Count(wire', pong) + 1 ELSE Count(wire', pong)
        BY <1>1, TailCount
      <3> HIDE DEF ping, pong
      <3>4. Count(pipe', ping) + Count(wire', pong) + n <= owed
        BY <1>8, <3>1, <3>2, <3>3
      <3> QED
        BY <3>4 DEF ping, pong
    <2>3. \A m \in Elems(wire') : m \in Elems(wire)
      BY <1>2
    <2> QED
      BY <1>1, <1>2, <1>4, <1>8, <2>1, <2>2, <2>3, UnusedKeeps
  <1>11. TurnInv'
    <2>1. stage' = stage /\ Asked' = Asked
      BY <1>1 DEF loginVars, Asked
    <2>2. stage \in Reading => KeysTo(Asked)' = KeysTo(line)
      BY <1>4, <2>1 DEF KeysTo
    <2>3. \A j \in Among(pipe', Keys) : pipe'[j].cmd \in Keys
      BY DEF Among
    <2>4. stage \in Reading => \A j \in Among(pipe', Keys) : pipe'[j].cmd \in KeysTo(Asked)'
      BY <1>8, <2>2, <2>3 DEF Answers
    <2>5. stage = "failed" => conn' = "dead" /\ pipe' = <<>>
      BY <1>1, <1>6 DEF ConnInv, TurnInv
    <2> QED
      BY <1>4, <1>5, <1>8, <2>1, <2>4, <2>5 DEF TurnInv, Single, InUse
  <1>12. ProgressInv'
    <2>1. stage' = stage /\ sasl' = sasl /\ sentPass' = sentPass
      BY <1>1 DEF loginVars
    <2>2. sojuDid # "nothing" => sojuDid' # "nothing"
      BY <1>6, <1>7
    <2> QED
      BY <1>4, <1>8, <2>1, <2>2 DEF ConnInv, ProgressInv, PasswordOnRequest, InUse, Answers
  <1>13. LoginTypes' /\ UnusedInv'
    <2>1. LoginTypes'
      BY <1>1, <1>2, <1>6, <1>7 DEF ConnInv, LoginTypes, loginVars
    <2>2. UnusedInv'
      BY <1>1, <1>4 DEF UnusedInv, useVars, loginVars, InUse
    <2> QED
      BY <2>1, <2>2
  <1> QED
    BY <1>9, <1>10, <1>11, <1>12, <1>13 DEF ConnInv

-----------------------------------------------------------------------------
(* The steps of the login.                                                 *)

LEMMA SaysOrFails ==
  ASSUME ConnInv, stage \in Reading, pipe # <<>>, Head(pipe).cmd \in Keys,
         NEW line \in LoginLines, NEW next \in Reading \ {"LS"}, Say(line, next),
         stage' = next => Asked' = line,
         sasl' = TRUE, sentPass' \in BOOLEAN, sentPass' => sojuDid # "nothing",
         UNCHANGED <<useVars, noises, owed, decided, bound, isAdmin, sojuDid, mislaid>>
  PROVE  ConnInv'
  <1>1. ~InUse
    BY DEF InUse, Reading
  <1>2. CASE WriteOK(Msg(line, 0)) /\ conn' = conn /\ pipe' = Tail(pipe) /\ stage' = next
    <2>1. stage' \in Reading /\ stage' # "LS" /\ Asked' = line
      BY <1>2
    <2> QED
      BY <1>2, <2>1, SayKeeps
  <1>3. CASE Fail
    BY <1>1, <1>3, FailKeeps
  <1> QED
    BY <1>2, <1>3 DEF Say

LEMMA ReadLSKeeps ==
  ASSUME ConnInv, stage = "LS", pipe # <<>>, Head(pipe).cmd # "ping", ReadLS(Head(pipe)),
         UNCHANGED <<useVars, noises, owed, decided, bound, sojuDid>>
  PROVE  ConnInv'
  <1> DEFINE m == Head(pipe)
  <1>1. /\ stage \in Reading /\ ~InUse /\ UNCHANGED <<isAdmin, sentPass, mislaid>>
        /\ sasl' = (sasl \/ Offers(m))
    BY DEF ReadLS, Reading, InUse
  <1>2. sasl' \in BOOLEAN /\ (sasl => sasl')
    BY <1>1, Zenon DEF ConnInv, LoginTypes
  <1>3. sentPass' \in BOOLEAN /\ (sentPass' => sasl /\ sojuDid # "nothing")
    BY <1>1 DEF ConnInv, LoginTypes, ProgressInv, PasswordOnRequest
  <1>4. CASE m.cmd \in {"LS*", "LS* sasl"} /\ pipe' = Tail(pipe) /\ UNCHANGED <<wire, conn, stage>>
    BY <1>1, <1>2, <1>4, SkipKeeps
  <1>5. CASE Fail
    BY <1>1, <1>2, <1>3, <1>5, FailKeeps
  <1>6. CASE m.cmd \in {"LS", "LS sasl"} /\ sasl' /\ Say("CAP REQ", "ACK")
    <2>1. sasl' = TRUE
      BY <1>2, <1>6, Zenon
    <2>2. stage' = "ACK" => Asked' = "CAP REQ"
      BY DEF Asked
    <2>3. /\ "CAP REQ" \in LoginLines /\ "ACK" \in Reading \ {"LS"} /\ m.cmd \in Keys
      BY <1>6 DEF LoginLines, Reading, Keys
    <2> QED
      BY <1>1, <1>3, <1>6, <2>1, <2>2, <2>3, SaysOrFails
  <1> QED
    BY <1>4, <1>5, <1>6 DEF ReadLS

(* Before a later stage SASL was offered.                                  *)
LEMMA Offered ==
  ASSUME ConnInv, stage \in {"ACK", "AUTHENTICATE", "903", "001"}, sasl' = sasl
  PROVE  sasl' = TRUE
  <1>1. sasl \in BOOLEAN /\ sasl
    BY DEF ConnInv, LoginTypes, ProgressInv
  <1> QED
    BY <1>1, Zenon

LEMMA ReadsOn ==
  ASSUME ConnInv, pipe # <<>>, Head(pipe).cmd # "ping",
         UNCHANGED <<useVars, noises, owed, decided, bound, sojuDid>>,
         \/ stage = "ACK" /\ ReadACK(Head(pipe))
         \/ stage = "AUTHENTICATE" /\ ReadPrompt(Head(pipe))
         \/ stage = "903" /\ Read903(Head(pipe))
  PROVE  ConnInv'
  <1> DEFINE m == Head(pipe)
  <1>1. stage \in Reading /\ ~InUse /\ UNCHANGED <<sasl, isAdmin, mislaid>> /\ sasl' = TRUE
    <2>1. stage \in Reading /\ ~InUse /\ UNCHANGED <<sasl, isAdmin, mislaid>>
      BY DEF ReadACK, ReadPrompt, Read903, Reading, InUse
    <2> QED
      BY <2>1, Offered
  <1>2. sentPass \in BOOLEAN /\ (sentPass => sasl /\ sojuDid # "nothing")
    BY DEF ConnInv, LoginTypes, ProgressInv, PasswordOnRequest
  <1>3. CASE Fail /\ sentPass' = sentPass
    BY <1>1, <1>2, <1>3, FailKeeps
  <1>4. CASE stage = "ACK" /\ m.cmd = "ACK" /\ Say("AUTHENTICATE PLAIN", "AUTHENTICATE") /\ sentPass' = sentPass
    <2>1. /\ stage' = "AUTHENTICATE" => Asked' = "AUTHENTICATE PLAIN"
          /\ "AUTHENTICATE PLAIN" \in LoginLines /\ "AUTHENTICATE" \in Reading \ {"LS"} /\ m.cmd \in Keys
      BY <1>4 DEF Asked, LoginLines, Reading, Keys
    <2> QED
      BY <1>1, <1>2, <1>4, <2>1, SaysOrFails
  <1>5. CASE stage = "AUTHENTICATE" /\ Prompts(m) /\ Say("password", "903") /\ sentPass' = TRUE
    <2>1. /\ stage' = "903" => Asked' = "password"
          /\ "password" \in LoginLines /\ "903" \in Reading \ {"LS"} /\ m.cmd \in Keys
      BY <1>5 DEF Asked, LoginLines, Reading, Keys, Prompts
    <2>2. sojuDid # "nothing"
      <3>1. 1 \in Among(pipe, Keys) /\ pipe[1].cmd = "AUTHENTICATE"
        BY <1>5, <2>1, HeadAmong DEF Prompts, ConnInv, ClientInv, StreamsInv
      <3> QED
        BY <3>1 DEF ConnInv, ProgressInv
    <2> QED
      BY <1>1, <1>5, <2>1, <2>2, SaysOrFails
  <1>6. CASE stage = "903" /\ m.cmd = "903" /\ Say("CAP END", "001") /\ sentPass' = sentPass
    <2>1. /\ stage' = "001" => Asked' = "CAP END"
          /\ "CAP END" \in LoginLines /\ "001" \in Reading \ {"LS"} /\ m.cmd \in Keys
      BY <1>6 DEF Asked, LoginLines, Reading, Keys
    <2> QED
      BY <1>1, <1>2, <1>6, <2>1, SaysOrFails
  <1> QED
    BY <1>3, <1>4, <1>5, <1>6 DEF ReadACK, ReadPrompt, Read903

LEMMA HandshakeKeeps ==
  ASSUME ConnInv, Handshake
  PROVE  ConnInv'
  <1> DEFINE m == Head(pipe)
  <1>1. /\ stage \in Reading /\ ~InUse /\ pipe # <<>> /\ m.cmd # "ping"
        /\ UNCHANGED <<useVars, noises, owed, decided, bound, sojuDid>>
    BY DEF Handshake, Reading, InUse
  <1>2. CASE stage = "LS" /\ ReadLS(m)
    BY <1>1, <1>2, ReadLSKeeps
  <1>3. CASE \/ stage = "ACK" /\ ReadACK(m)
             \/ stage = "AUTHENTICATE" /\ ReadPrompt(m)
             \/ stage = "903" /\ Read903(m)
    BY <1>1, <1>3, ReadsOn
  <1>4. CASE stage = "001" /\ Read001(m)
    <2>1. CASE Fail /\ mislaid' = mislaid
      <3>1. UNCHANGED <<sasl, isAdmin, sentPass>>
        BY <1>4 DEF Read001
      <3>2. sasl' \in BOOLEAN /\ sentPass' \in BOOLEAN /\ (sentPass' => sasl' /\ sojuDid # "nothing")
        BY <3>1 DEF ConnInv, LoginTypes, ProgressInv, PasswordOnRequest
      <3> QED
        BY <1>1, <2>1, <3>1, <3>2, FailKeeps
    <2>2. CASE Welcomes(m) /\ ~(Fail /\ mislaid' = mislaid)
      <3>1. /\ stage' \in {"status", "ready"} /\ m.cmd = "001"
            /\ UNCHANGED <<wire, conn, sasl, isAdmin, sentPass>>
        BY <1>4, <2>2 DEF Read001, Welcomes
      <3>2. PICK j \in 1..Len(pipe) :
                 /\ \/ pipe' = SubSeq(pipe, j + 1, Len(pipe))
                    \/ pipe' = <<Msg("other", 0)>> \o SubSeq(pipe, j + 1, Len(pipe))
                 /\ mislaid' = Cardinality({k \in 1..j : pipe[k].cmd = "ping"})
        BY <1>4, <2>2 DEF Read001
      <3> QED
        BY <1>1, <1>4, <3>1, <3>2, WelcomeKeeps
    <2> QED
      BY <1>4, <2>1, <2>2 DEF Read001
  <1>5. CASE /\ pipe' = Tail(pipe)
             /\ UNCHANGED <<wire, conn, stage, sasl, isAdmin, sentPass, mislaid>>
    <2>1. sasl' \in BOOLEAN /\ (sasl => sasl')
      BY <1>5 DEF ConnInv, LoginTypes
    <2> QED
      BY <1>1, <1>5, <2>1, SkipKeeps
  <1> QED
    BY <1>2, <1>3, <1>4, <1>5 DEF Handshake

LEMMA LoginKeeps ==
  ASSUME ConnInv, Login
  PROVE  ConnInv'
  <1>1. sasl \in BOOLEAN /\ sentPass \in BOOLEAN /\ (sentPass => sasl /\ sojuDid # "nothing")
    BY DEF ConnInv, LoginTypes, ProgressInv, PasswordOnRequest
  <1>2. ASSUME Fail, stage \in Reading \cup {"dial"},
               UNCHANGED <<useVars, noises, owed, decided, bound, sasl, isAdmin, sojuDid, sentPass, mislaid>>
        PROVE  ConnInv'
    <2>1. ~InUse
      BY <1>2 DEF InUse, Reading
    <2> QED
      BY <1>1, <1>2, <2>1, FailKeeps
  <1>3. CASE Unreachable
    BY <1>2, <1>3 DEF Unreachable
  <1>4. CASE Hello
    <2>1. /\ stage = "dial" /\ pipe' = pipe /\ WriteOK(Msg("CAP LS", 0)) /\ conn' = conn /\ stage' = "LS"
          /\ UNCHANGED <<useVars, noises, owed, decided, bound, sasl, isAdmin, sojuDid, sentPass, mislaid>>
      BY <1>4 DEF Hello
    <2>2. "CAP LS" \in LoginLines /\ stage' \in Reading /\ Asked' = "CAP LS"
      BY <2>1 DEF LoginLines, Reading, Asked
    <2> QED
      BY <1>1, <2>1, <2>2, SayKeeps
  <1>5. CASE LoginPing
    <2>1. /\ stage \in Reading /\ pipe # <<>> /\ Head(pipe).cmd = "ping"
          /\ UNCHANGED <<useVars, noises, owed, decided, bound, sasl, isAdmin, sojuDid, sentPass, mislaid>>
      BY <1>5 DEF LoginPing
    <2>2. CASE WriteOK(Msg("pong", 0)) /\ conn' = conn /\ pipe' = Tail(pipe) /\ stage' = stage
      BY <1>1, <2>1, <2>2, SkipKeeps
    <2>3. CASE Fail
      BY <1>2, <2>1, <2>3
    <2> QED
      BY <1>5, <2>2, <2>3 DEF LoginPing, Say
  <1>6. CASE Handshake
    BY <1>6, HandshakeKeeps
  <1>7. CASE LoginFails
    BY <1>2, <1>7 DEF LoginFails
  <1>8. CASE StatusKnown
    <2>1. /\ stage = "status" /\ stage' = "ready" /\ isAdmin' \in BOOLEAN
          /\ UNCHANGED <<vars, bound, sasl, sojuDid, sentPass, mislaid>>
      BY <1>8 DEF StatusKnown, Administers
    <2>2. PICK n \in Nat : n = mislaid /\ n = mislaid'
      BY <2>1 DEF ConnInv, LoginTypes
    <2>3. ClientInv(ConnMessage, n)'
      BY <2>1, <2>2, StutterKeeps DEF ConnInv
    <2>4. TurnInv' /\ ProgressInv'
      <3>1. TurnInv'
        BY <2>1 DEF ConnInv, TurnInv, InUse, vars, Reading
      <3>2. ProgressInv'
        BY <2>1 DEF ConnInv, ProgressInv, PasswordOnRequest, InUse, vars
      <3> QED
        BY <3>1, <3>2
    <2>5. LoginTypes' /\ UnusedInv'
      BY <2>1 DEF ConnInv, LoginTypes, Stages, UnusedInv, InUse, vars
    <2> QED
      BY <2>2, <2>3, <2>4, <2>5 DEF ConnInv
  <1> QED
    BY <1>3, <1>4, <1>5, <1>6, <1>7, <1>8 DEF Login

LEMMA ConnInitInv ==
  ASSUME ConnInit
  PROVE  ConnInv
  <1>1. wire = <<>> /\ pipe = <<>> /\ stage = "dial" /\ mislaid = 0 /\ made = 0 /\ in = <<>>
    BY DEF ConnInit, Init
  <1>2. ClientInv(ConnMessage, mislaid)
    <2>1. ClientInv(ConnMessage, 0)
      BY ConnMessagesCarried, InitInv DEF ConnInit
    <2> QED
      BY <1>1, <2>1
  <1>3. Among(wire, LoginLines) = {} /\ Among(pipe, Keys) = {}
    BY <1>1 DEF Among
  <1>4. TurnInv /\ ProgressInv
    BY <1>1, <1>3 DEF TurnInv, ProgressInv, Single, InUse, Reading, PasswordOnRequest, ConnInit
  <1>5. LoginTypes /\ UnusedInv
    <2>1. LoginTypes
      <3>1. Elems(wire) = {}
        BY <1>1, EmptyStream
      <3>2. stage \in Stages /\ mislaid \in Nat /\ sojuDid = "nothing"
        BY <1>1 DEF Stages, ConnInit
      <3>3. bound \in BOOLEAN /\ sasl \in BOOLEAN /\ isAdmin \in BOOLEAN /\ sentPass \in BOOLEAN
        BY Zenon DEF ConnInit
      <3> QED
        BY <3>1, <3>2, <3>3 DEF LoginTypes
    <2>2. UnusedInv
      BY <1>1 DEF UnusedInv, ConnInit, Init, Idle
    <2> QED
      BY <2>1, <2>2
  <1> QED
    BY <1>2, <1>4, <1>5 DEF ConnInv

LEMMA ConnInvariant == ConnSpec => []ConnInv
  <1>1. ConnInit => ConnInv
    BY ConnInitInv
  <1>2. ConnInv /\ [ConnNext]_connVars => ConnInv'
    <2> SUFFICES ASSUME ConnInv, [ConnNext]_connVars
                 PROVE  ConnInv'
      OBVIOUS
    <2>1. CASE Login
      BY <2>1, LoginKeeps
    <2>2. CASE SojuLogin
      BY <2>2, SojuLoginKeeps
    <2>3. CASE ((InUse /\ Use) \/ Soju \/ World) /\ UNCHANGED <<loginVars, sojuDid>>
      BY <2>3, InUseKeeps
    <2>4. CASE UNCHANGED connVars
      <3>1. UNCHANGED <<vars, loginVars, sojuDid>>
        BY <2>4 DEF connVars
      <3>2. PICK n \in Nat : n = mislaid /\ n = mislaid'
        BY <3>1 DEF ConnInv, LoginTypes, loginVars
      <3>3. ClientInv(ConnMessage, n)'
        BY <3>1, <3>2, StutterKeeps DEF ConnInv
      <3>4. TurnInv' /\ ProgressInv'
        <4>1. TurnInv'
          BY <3>1 DEF ConnInv, TurnInv, InUse, vars, loginVars, Asked, KeysTo
        <4>2. ProgressInv'
          BY <3>1 DEF ConnInv, ProgressInv, PasswordOnRequest, InUse, vars, loginVars
        <4> QED
          BY <4>1, <4>2
      <3>5. LoginTypes' /\ UnusedInv'
        BY <3>1 DEF ConnInv, LoginTypes, UnusedInv, InUse, vars, loginVars
      <3> QED
        BY <3>2, <3>3, <3>4, <3>5 DEF ConnInv
    <2> QED
      BY <2>1, <2>2, <2>3, <2>4 DEF ConnNext
  <1> QED
    BY <1>1, <1>2, PTL DEF ConnSpec

-----------------------------------------------------------------------------
(* What Dial makes of the answer to "user status".                         *)

(* Read up to its end, a refusal is one line that says so, and nothing     *)
(* else comes from BouncerServ unasked: it is no success.                  *)
LEMMA StatusJudged ==
  ASSUME NEW M, Carries(M), NEW mis \in Nat, ClientInv(M, mis), made <= 1, kind[1] = "serv",
         NEW c \in Callers, ~Overheard(c), call[c].at = "wait", in # <<>>, call[c].id = 1, Ends(1, Head(in)),
         Judge(1, call[c].got) = "ok"
  PROVE  decided[1] = "ok"
  <1> DEFINE got == call[c].got
             lines == {j \in DOMAIN got : got[j].cmd \in {"line", "errline"}}
  <1>1. /\ 1 \in 1..made /\ 1 \in Calls /\ (Fenced(1) => decided[1] # "none")
        /\ got \in Seq(M) /\ DOMAIN got = 1..Len(got)
        /\ \A j \in 1..Len(got) : Fits(got[j]) /\ got[j] = Msg(got[j].cmd, got[j].of)
        /\ \A w \in {"errline", "op", "noop"} : Count(got, Msg(w, 1)) <= 1
    BY ReadAtEnd
  <1>2. made = 1
    <2>1. made \in Nat
      BY ClientAssumption DEF ClientInv, BookInv
    <2> QED
      BY <1>1, <2>1
  <1>3. decided[1] \in {"ok", "err"}
    BY <1>1 DEF Fenced, ClientInv, BookInv
  <1>4. JudgeServ(got) = "ok" /\ lines # {}
    BY DEF Judge, JudgeServ
  <1> HIDE DEF got
  <1> SUFFICES ASSUME decided[1] = "err"
               PROVE  FALSE
    BY <1>3
  <1>5. ASSUME NEW j \in lines
        PROVE  got[j] = Msg("errline", 1)
    <2>1. Fits(got[j]) /\ got[j] = Msg(got[j].cmd, got[j].of) /\ got[j].cmd \in {"line", "errline"}
      BY <1>1
    <2>a. got[j] # Msg("line", 0)
      BY DEF Overheard, got
    <2>2. got[j].of # 0 /\ got[j].of \in 1..made /\ got[j].cmd \in Words(kind[got[j].of], decided[got[j].of])
      BY <2>1, <2>a DEF Fits
    <2>3. got[j].of = 1
      BY <1>2, <2>2
    <2> QED
      BY <2>1, <2>2, <2>3 DEF Words, Key
  <1>6. \A j, k \in lines : j = k
    BY <1>1, <1>5, OncePlace
  <1>7. PICK j \in lines : TRUE
    BY <1>4
  <1>8. got[j].cmd = "errline"
    BY <1>5 DEF Msg
  <1>9. lines = {j}
    BY <1>6
  <1> HIDE DEF lines
  <1> QED
    BY <1>4, <1>8, <1>9 DEF JudgeServ, lines

LEMMA StatusKeeps ==
  ASSUME ConnInv, StatusInv, [ConnNext]_connVars
  PROVE  StatusInv'
  <1>1. ClientInv(ConnMessage, mislaid) /\ mislaid \in Nat /\ BookInv /\ 1 \in Calls /\ made \in Nat
    BY ClientAssumption DEF ConnInv, LoginTypes, ClientInv, BookInv, Calls
  <1>2. CASE UNCHANGED connVars
    BY <1>2 DEF connVars, vars, loginVars, StatusInv
  <1>3. CASE SojuLogin
    BY <1>3 DEF SojuLogin, useVars, loginVars, StatusInv
  <1>4. CASE StatusKnown
    BY <1>4 DEF StatusKnown, vars, StatusInv
  <1>5. CASE Unreachable \/ Hello \/ LoginPing \/ Handshake \/ LoginFails
    <2>1. UNCHANGED useVars /\ stage \in Reading \cup {"dial"}
      BY <1>5 DEF Unreachable, Hello, LoginPing, Handshake, LoginFails
    <2>2. made' = 0
      BY <2>1 DEF ConnInv, UnusedInv, InUse, Reading, useVars
    <2> QED
      BY <2>2 DEF StatusInv
  <1>6. CASE ((InUse /\ Use) \/ Soju \/ World) /\ UNCHANGED <<loginVars, sojuDid>>
    <2>1. stage' = stage
      BY <1>6 DEF loginVars
    <2>2. Next
      BY <1>6 DEF Use, Begin, World, Next
    <2>3. CASE UNCHANGED <<made, kind>>
      BY <2>1, <2>3 DEF StatusInv
    <2>4. CASE Asks
      <3>1. stage = "status" => made = 0 /\ kind'[1] = "serv"
        <4>1. made' # made
          BY <1>1, <2>4 DEF Asks
        <4>2. PICK c \in Callers, k \in Kinds : Begin(c, k)
          BY <1>6, <4>1 DEF Use, ReadLoop, ReadMessage, ReadPing, ReadEOF, Step, Lock, DrainOne,
             FoundClosed, WriteCommand, WriteFence, WriteFails, Receive, Timeout,
             Soju, ServeCommand, ServeFence, TakePong, World, Break, SendUnasked
        <4>3. Start(c, k) /\ (stage = "status" => made = 0 /\ k = "serv")
          BY <4>2 DEF Begin
        <4> QED
          BY <1>1, <4>3 DEF Start, BookInv
      <3> QED
        BY <2>1, <2>4, <3>1 DEF StatusInv, Asks
    <2> QED
      BY <1>1, <2>2, <2>3, <2>4, ConnMessagesCarried, BookSteps DEF Decides, Concludes
  <1> QED
    BY <1>2, <1>3, <1>4, <1>5, <1>6 DEF ConnNext, Login

(* IsAdmin follows the answer to "user status" (AdminIsAdmin's first part). *)
LEMMA AdminFollows ==
  ASSUME ConnNext
  PROVE  isAdmin' /\ ~isAdmin => result[1] = "ok"
  <1>1. CASE StatusKnown
    BY <1>1 DEF StatusKnown, Administers
  <1>2. CASE Unreachable \/ Hello \/ LoginPing \/ Handshake \/ LoginFails
    BY <1>2 DEF Unreachable, Hello, LoginPing, Handshake, LoginFails,
                ReadLS, ReadACK, ReadPrompt, Read903, Read001
  <1>3. CASE ~Login
    BY <1>3 DEF ConnNext, SojuLogin, loginVars
  <1> QED
    BY <1>1, <1>2, <1>3 DEF Login

(* And "user status" is told to have succeeded only if soju took it, or a  *)
(* line nobody asked for is among its answers.                             *)
LEMMA StatusFollows ==
  ASSUME ConnInv, StatusInv, ConnNext, stage = "status", result'[1] = "ok", result[1] # "ok",
         \A c \in Callers : call[c].id = 1 => ~Overheard(c)
  PROVE  decided[1] = "ok"
  <1>1. ClientInv(ConnMessage, mislaid) /\ mislaid \in Nat /\ BookInv /\ 1 \in Calls /\ made \in Nat
    BY ClientAssumption DEF ConnInv, LoginTypes, ClientInv, BookInv, Calls
  <1>2. result' # result
    OBVIOUS
  <1>3. Next
    <2>1. ~Login /\ ~SojuLogin
      BY <1>2 DEF Login, Unreachable, Hello, LoginPing, Handshake, LoginFails, StatusKnown,
                  SojuLogin, useVars, vars, Reading
    <2> QED
      BY <2>1 DEF ConnNext, Use, Begin, World, Next
  <1>4. PICK c \in Callers, r \in Verdicts \cup {"closed", "failed", "timeout"} : Concludes(c, r)
    BY <1>1, <1>2, <1>3, ConnMessagesCarried, BookSteps DEF Asks, Decides
  <1>5. call[c].id = 1 /\ r = "ok"
    BY <1>1, <1>4 DEF BookInv, Concludes
  <1>6. call[c].at = "wait" /\ in # <<>> /\ Ends(1, Head(in)) /\ Judge(1, call[c].got) = "ok"
    BY <1>4, <1>5 DEF Concludes
  <1>7. made <= 1 /\ kind[1] = "serv"
    <2>1. 1 \in 1..made
      BY <1>1, <1>5, <1>6 DEF BookInv
    <2> QED
      BY <1>1, <2>1 DEF StatusInv
  <1> QED
    BY <1>1, <1>5, <1>6, <1>7, ConnMessagesCarried, StatusJudged

-----------------------------------------------------------------------------
(* The theorems.                                                           *)

(* Every variable of a login keeps its type; a login that failed has       *)
(* closed its connection; and the PINGs dropped with the login's reader    *)
(* are among those that soju has sent.                                     *)
THEOREM ConnTypeCorrect == ConnSpec => []ConnTypeOK
  <1>1. ConnInv => ConnTypeOK
    <2> SUFFICES ASSUME ConnInv
                 PROVE  ConnTypeOK
      OBVIOUS
    <2>1. mislaid \in 0..MaxNoise
      <3>1. wire \in Seq(ConnMessage) /\ pipe \in Seq(ConnMessage) /\ mislaid \in Nat
        BY DEF ConnInv, ClientInv, StreamsInv, LoginTypes
      <3>2. Count(pipe, Msg("ping", 0)) \in Nat /\ Count(wire, Msg("pong", 0)) \in Nat
        BY <3>1, AtFinite
      <3>3. Count(pipe, Msg("ping", 0)) + Count(wire, Msg("pong", 0)) + mislaid <= owed /\ owed \in 0..MaxNoise
        BY DEF ConnInv, ClientInv, PingInv
      <3> QED
        BY <3>1, <3>2, <3>3, ClientAssumption
    <2> QED
      BY <2>1 DEF ConnInv, LoginTypes, TurnInv, ConnTypeOK
  <1> QED
    BY <1>1, ConnInvariant, PTL

(* Whatever it sends, and in whatever order, a server that has not offered *)
(* SASL PLAIN and asked for the password does not get it                   *)
(* (client.go:151-206).                                                    *)
THEOREM PasswordAsked == ConnSpec => []PasswordOnRequest
  <1>1. ConnInv => PasswordOnRequest
    BY DEF ConnInv, ProgressInv
  <1> QED
    BY <1>1, ConnInvariant, PTL

(* A connection is in use, and soju sees commands, only after soju has     *)
(* taken the password and registered it (client.go:207-243).               *)
THEOREM RegisteredFirst == ConnSpec => []RegisteredBeforeUse
  <1>1. ConnInv => RegisteredBeforeUse
    <2> SUFFICES ASSUME ConnInv
                 PROVE  RegisteredBeforeUse
      OBVIOUS
    <2>1. InUse => sojuDid = "registered"
      BY DEF ConnInv, ProgressInv
    <2>2. ASSUME NEW i \in Calls, decided[i] # "none"
          PROVE  InUse
      <3>1. i \in Nat \ {0} /\ made \in Nat /\ i <= made
        BY <2>2, ClientAssumption DEF ConnInv, ClientInv, BookInv, Calls
      <3> QED
        BY <3>1 DEF ConnInv, UnusedInv
    <2> QED
      BY <2>1, <2>2 DEF RegisteredBeforeUse
  <1> QED
    BY <1>1, ConnInvariant, PTL

(* IsAdmin is set only for someone whose "user status" was told to have    *)
(* succeeded, and it is told so only if soju took it or a line from        *)
(* BouncerServ that nobody asked for came in among its answers, whatever   *)
(* is lost, late or dropped (client.go:91-95, 384-401).                    *)
THEOREM AdminsOnly == ConnSpec => AdminIsAdmin
  <1>1. ConnInit => StatusInv
    BY DEF ConnInit, StatusInv
  <1>2. ConnInv /\ StatusInv /\ [ConnNext]_connVars => StatusInv'
    BY StatusKeeps
  <1>3. ConnInv /\ StatusInv /\ [ConnNext]_connVars =>
          [ /\ isAdmin' /\ ~isAdmin => result[1] = "ok"
            /\ stage = "status" /\ result'[1] = "ok"
                 => \/ result[1] = "ok" \/ decided[1] = "ok"
                    \/ \E c \in Callers : call[c].id = 1 /\ Overheard(c) ]_connVars
    <2> SUFFICES ASSUME ConnInv, StatusInv, ConnNext
                 PROVE  /\ isAdmin' /\ ~isAdmin => result[1] = "ok"
                        /\ stage = "status" /\ result'[1] = "ok"
                             => \/ result[1] = "ok" \/ decided[1] = "ok"
                                \/ \E c \in Callers : call[c].id = 1 /\ Overheard(c)
      OBVIOUS
    <2>1. isAdmin' /\ ~isAdmin => result[1] = "ok"
      BY AdminFollows
    <2> QED
      BY <2>1, StatusFollows
  <1> QED
    BY <1>1, <1>2, <1>3, ConnInvariant, PTL DEF ConnSpec, AdminIsAdmin
=============================================================================
