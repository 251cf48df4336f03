------------------------------- MODULE Client -------------------------------
(***************************************************************************)
(* One connection to soju (client.go).  A goroutine, readLoop, answers     *)
(* soju's PINGs and puts every other message in a channel of bounded       *)
(* capacity, dropping what does not fit.  Calls take turns under rmu: each *)
(* drains the channel, writes its command and reads the channel until its  *)
(* end is seen or 20 seconds are over.  A Request ends at the PONG to a    *)
(* PING with a nonce of its own, an Await at the first message of a        *)
(* command it wants.  A call that times out leaves the connection open, so *)
(* what soju answers later is still in the way of the next call.           *)
(*                                                                         *)
(* soju, at the other end of the two FIFO streams, is modelled from how    *)
(* the calls use it.  How a connection comes about is in Connection.       *)
(***************************************************************************)
EXTENDS Naturals, Sequences

CONSTANTS
    Callers,   \* goroutines that use the connection
    Nobody,    \* who holds a lock that is free
    Kinds,     \* what they call: a subset of AllKinds
    Noises,    \* what soju sends unasked: a subset of {"other", "notice", "ping"}
    Cap,       \* capacity of the channel in (256)
    MaxCalls,  \* bound on calls made
    MaxNoise   \* bound on what soju sends unasked

(* "serv": Serv, a BouncerServ command.  "add", "change": AddNetwork, and  *)
(* ChangeNetwork or DeleteNetwork.  "names": isOpped's NAMES of a channel  *)
(* of its own, through Await.                                              *)
AllKinds == {"serv", "add", "change", "names"}

ASSUME ClientAssumption ==
    /\ Nobody \notin Callers
    /\ Kinds \subseteq AllKinds
    /\ Noises \subseteq {"other", "notice", "ping"}
    /\ Cap \in Nat \ {0}
    /\ MaxCalls \in Nat \ {0}
    /\ MaxNoise \in Nat

VARIABLES
    wire,     \* lines on their way to soju
    pipe,     \* messages on their way from soju
    in,       \* the channel between readLoop and the calls
    conn,     \* "open", or "dead": soju closed it, or it broke
    gone,     \* readLoop has returned and closed the channel
    lock,     \* who holds rmu
    call,     \* call[c]: what caller c is doing
    made,     \* calls made so far; the last one's number
    noises,   \* what soju has sent unasked so far
    owed,     \* soju's PINGs not answered yet
    kind,     \* kind[i]: what call i asks
    decided,  \* decided[i]: what soju decided of it
    result,   \* result[i]: what the caller was told
    stale,    \* something of an earlier call was on its way when the last
              \* command was written
    dropped   \* readLoop has dropped a message since then

streams == <<wire, pipe, in>>
vars == <<wire, pipe, in, conn, gone, lock, call, made, noises, owed,
          kind, decided, result, stale, dropped>>

Calls == 1..MaxCalls

(* A message is known by its command, and by the call it belongs to: the   *)
(* nonce of a PONG, the channel of a NAMES reply.  Of the others the code  *)
(* cannot tell; that field is there for the properties.                    *)
Msg(cmd, i) == [cmd |-> cmd, of |-> i]

Idle == [at |-> "idle", id |-> 0, got |-> <<>>]

Init ==
    /\ wire = <<>> /\ pipe = <<>> /\ in = <<>>
    /\ conn = "open" /\ gone = FALSE
    /\ lock = Nobody
    /\ call = [c \in Callers |-> Idle]
    /\ made = 0 /\ noises = 0 /\ owed = 0
    /\ kind = [i \in Calls |-> "none"]
    /\ decided = [i \in Calls |-> "none"]
    /\ result = [i \in Calls |-> "none"]
    /\ stale = FALSE /\ dropped = FALSE

-----------------------------------------------------------------------------
(* readLoop.                                                               *)

(* Not the code: a channel without a bound, and a send that blocks while   *)
(* the channel is full.                                                    *)
EnqueueNoBound(m) == in' = Append(in, m) /\ dropped' = dropped

EnqueueBlocking(m) == Len(in) < Cap /\ in' = Append(in, m) /\ dropped' = dropped

Enqueue(m) ==
    IF Len(in) < Cap
    THEN in' = Append(in, m) /\ dropped' = dropped
    ELSE in' = in /\ dropped' = TRUE

(* Writing to a dead connection fails, or is lost without a word.  Writing *)
(* to a live one fails when soju takes nothing for requestTimeout; of a    *)
(* line that fails nothing is taken to have gone out.                      *)
WriteOK(line) ==
    IF conn = "open" THEN wire' = Append(wire, line) ELSE wire' = wire

ReadMessage ==
    /\ ~gone
    /\ pipe # <<>>
    /\ Head(pipe).cmd # "ping"
    /\ pipe' = Tail(pipe)
    /\ Enqueue(Head(pipe))
    /\ UNCHANGED <<wire, conn, gone, lock, call, made, noises, owed, kind,
                   decided, result, stale>>

ReadPing ==
    /\ ~gone
    /\ pipe # <<>>
    /\ Head(pipe).cmd = "ping"
    /\ pipe' = Tail(pipe)
    /\ \/ WriteOK(Msg("pong", 0)) /\ gone' = gone
       \/ wire' = wire /\ gone' = TRUE
    /\ UNCHANGED <<in, conn, lock, call, made, noises, owed, kind, decided,
                   result, stale, dropped>>

ReadEOF ==
    /\ ~gone
    /\ conn = "dead"
    /\ pipe = <<>>
    /\ gone' = TRUE
    /\ UNCHANGED <<streams, conn, lock, call, made, noises, owed, kind,
                   decided, result, stale, dropped>>

-----------------------------------------------------------------------------
(* A call: rmu, the drain, the writes, the wait.                           *)

Start(c, k) ==
    /\ call[c].at = "idle"
    /\ made < MaxCalls
    /\ made' = made + 1
    /\ kind' = [kind EXCEPT ![made + 1] = k]
    /\ call' = [call EXCEPT ![c] = [at |-> "lock", id |-> made + 1, got |-> <<>>]]
    /\ UNCHANGED <<streams, conn, gone, lock, noises, owed, decided, result,
                   stale, dropped>>

Lock(c) ==
    /\ call[c].at = "lock"
    /\ lock = Nobody
    /\ lock' = c
    /\ call' = [call EXCEPT ![c].at = "drain"]
    /\ UNCHANGED <<streams, conn, gone, made, noises, owed, kind, decided,
                   result, stale, dropped>>

(* Not the code: the lock is kept. *)
ReturnLocked(c, r) ==
    /\ result' = [result EXCEPT ![call[c].id] = r]
    /\ call' = [call EXCEPT ![c] = Idle]
    /\ lock' = lock

(* The call returns r and the deferred Unlock runs. *)
Return(c, r) ==
    /\ result' = [result EXCEPT ![call[c].id] = r]
    /\ call' = [call EXCEPT ![c] = Idle]
    /\ lock' = Nobody

DrainOne(c) ==
    /\ call[c].at = "drain"
    /\ in # <<>>
    /\ in' = Tail(in)
    /\ UNCHANGED <<wire, pipe, conn, gone, lock, call, made, noises, owed,
                   kind, decided, result, stale, dropped>>

FoundClosed(c) ==
    /\ call[c].at \in {"drain", "wait"}
    /\ in = <<>>
    /\ gone
    /\ Return(c, "closed")
    /\ UNCHANGED <<streams, conn, gone, made, noises, owed, kind, decided,
                   stale, dropped>>

Fenced(i) == kind[i] # "names"

(* Not the code: no drain. *)
NoDrain == TRUE

Drained == in = <<>>

OnItsWay ==
    \/ \E j \in DOMAIN wire : wire[j].cmd \in {"command", "fence"}
    \/ \E j \in DOMAIN pipe : pipe[j].of # 0

(* The channel is empty: the drain is over and the command is written.     *)
WriteCommand(c) ==
    /\ call[c].at = "drain"
    /\ Drained
    /\ ~gone
    /\ WriteOK(Msg("command", call[c].id))
    /\ call' = [call EXCEPT ![c].at = IF Fenced(call[c].id) THEN "fence" ELSE "wait"]
    /\ stale' = OnItsWay
    /\ dropped' = FALSE
    /\ UNCHANGED <<pipe, in, conn, gone, lock, made, noises, owed, kind,
                   decided, result>>

(* Request's PING with a nonce. *)
WriteFence(c) ==
    /\ call[c].at = "fence"
    /\ WriteOK(Msg("fence", call[c].id))
    /\ call' = [call EXCEPT ![c].at = "wait"]
    /\ UNCHANGED <<pipe, in, conn, gone, lock, made, noises, owed, kind,
                   decided, result, stale, dropped>>

WriteFails(c) ==
    /\ \/ call[c].at = "drain" /\ Drained /\ ~gone
       \/ call[c].at = "fence"
    /\ Return(c, "failed")
    /\ UNCHANGED <<streams, conn, gone, made, noises, owed, kind, decided,
                   stale, dropped>>

Has(got, cmd) == \E j \in DOMAIN got : got[j].cmd = cmd

(* What the caller makes of what it received.  Serv: exactly one line of   *)
(* BouncerServ that starts with "error:" is an error, none at all is one   *)
(* too, anything else is success.                                          *)
JudgeServ(got) ==
    LET lines == {j \in DOMAIN got : got[j].cmd \in {"line", "errline"}}
    IN  IF lines = {} THEN "noanswer"
        ELSE IF \E j \in lines : lines = {j} /\ got[j].cmd = "errline" THEN "err" ELSE "ok"

FailError(got) == IF Has(got, "fail") THEN "err" ELSE "noanswer"

(* AddNetwork wants soju's confirmation. *)
JudgeAdd(got) == IF Has(got, "added") THEN "ok" ELSE FailError(got)

(* ChangeNetwork and DeleteNetwork take the absence of FAIL for success.   *)
JudgeChange(got) == IF Has(got, "fail") THEN "err" ELSE "ok"

(* Op or not, by the first message of names among those at J.             *)
JudgeFirst(J, got) ==
    IF J = {} THEN "noanswer"
    ELSE IF \E j \in J : got[j].cmd = "op" /\ \A k \in J : j <= k THEN "ok" ELSE "err"

(* Not the code: the names of any channel. *)
JudgeAnyNames(i, got) == JudgeFirst({j \in DOMAIN got : got[j].cmd \in {"op", "noop"}}, got)

(* isOpped looks for itself in the names of the channel it asked about.    *)
JudgeNames(i, got) ==
    JudgeFirst({j \in DOMAIN got : got[j].cmd \in {"op", "noop"} /\ got[j].of = i}, got)

(* Each kind of call has a caller that judges in its way.                  *)
Judge(i, got) ==
    CASE kind[i] = "serv" -> JudgeServ(got)
      [] kind[i] = "add" -> JudgeAdd(got)
      [] kind[i] = "change" -> JudgeChange(got)
      [] kind[i] = "names" -> JudgeNames(i, got)

(* Not the code: any PONG will do. *)
EndsAnyPong(i, m) == IF Fenced(i) THEN m.cmd = "pong" ELSE m.cmd = "end"

(* What ends the wait: the PONG to this call's PING, or the first end of   *)
(* NAMES, whatever channel it is of.                                       *)
Ends(i, m) == IF Fenced(i) THEN m = Msg("pong", i) ELSE m.cmd = "end"

Receive(c) ==
    /\ call[c].at = "wait"
    /\ in # <<>>
    /\ in' = Tail(in)
    /\ LET i == call[c].id
           m == Head(in)
       IN  IF Ends(i, m)
           THEN Return(c, Judge(i, call[c].got))
           ELSE /\ call' = [call EXCEPT ![c].got = Append(@, m)]
                /\ UNCHANGED <<result, lock>>
    /\ UNCHANGED <<wire, pipe, conn, gone, made, noises, owed, kind, decided,
                   stale, dropped>>

Timeout(c) ==
    /\ call[c].at = "wait"
    /\ Return(c, "timeout")
    /\ UNCHANGED <<streams, conn, gone, made, noises, owed, kind, decided,
                   stale, dropped>>

-----------------------------------------------------------------------------
(* soju.  It takes the lines in order; a command is decided and answered,  *)
(* a PING is answered.                                                     *)

Replies(i, verdict) ==
    CASE kind[i] = "serv" /\ verdict = "ok" ->
            {<<Msg("line", i)>>, <<Msg("line", i), Msg("line", i)>>}
      [] kind[i] = "serv" /\ verdict = "err" -> {<<Msg("errline", i)>>}
      [] kind[i] = "add" /\ verdict = "ok" -> {<<Msg("added", i)>>}
      [] kind[i] = "change" /\ verdict = "ok" -> {<<Msg("other", i)>>}
      [] kind[i] \in {"add", "change"} /\ verdict = "err" -> {<<Msg("fail", i)>>}
      [] kind[i] = "names" /\ verdict = "ok" -> {<<Msg("op", i), Msg("end", i)>>}
      [] kind[i] = "names" /\ verdict = "err" -> {<<Msg("noop", i), Msg("end", i)>>}

ServeCommand ==
    /\ wire # <<>>
    /\ Head(wire).cmd = "command"
    /\ wire' = Tail(wire)
    /\ LET i == Head(wire).of
       IN  \E verdict \in {"ok", "err"} :
              /\ decided' = [decided EXCEPT ![i] = verdict]
              /\ \E reply \in Replies(i, verdict) :
                    pipe' = IF conn = "open" THEN pipe \o reply ELSE pipe
    /\ UNCHANGED <<in, conn, gone, lock, call, made, noises, owed, kind,
                   result, stale, dropped>>

ServeFence ==
    /\ wire # <<>>
    /\ Head(wire).cmd = "fence"
    /\ wire' = Tail(wire)
    /\ pipe' = IF conn = "open" THEN Append(pipe, Msg("pong", Head(wire).of)) ELSE pipe
    /\ UNCHANGED <<in, conn, gone, lock, call, made, noises, owed, kind,
                   decided, result, stale, dropped>>

TakePong ==
    /\ wire # <<>>
    /\ Head(wire).cmd = "pong"
    /\ wire' = Tail(wire)
    /\ owed' = owed - 1
    /\ UNCHANGED <<pipe, in, conn, gone, lock, call, made, noises, kind,
                   decided, result, stale, dropped>>

(* What soju sends without being asked: its own PING, a notice that an     *)
(* administrator broadcasts through BouncerServ, something else.           *)
SendUnasked(what) ==
    /\ conn = "open"
    /\ noises < MaxNoise
    /\ noises' = noises + 1
    /\ pipe' = Append(pipe, Msg(IF what = "notice" THEN "line" ELSE what, 0))
    /\ owed' = IF what = "ping" THEN owed + 1 ELSE owed
    /\ UNCHANGED <<wire, in, conn, gone, lock, call, made, kind, decided,
                   result, stale, dropped>>

(* The connection breaks: each stream keeps what was already delivered.    *)
Break ==
    /\ conn = "open"
    /\ conn' = "dead"
    /\ \E j \in 0..Len(wire) : wire' = SubSeq(wire, 1, j)
    /\ \E j \in 0..Len(pipe) : pipe' = SubSeq(pipe, 1, j)
    /\ UNCHANGED <<in, gone, lock, call, made, noises, owed, kind, decided,
                   result, stale, dropped>>

-----------------------------------------------------------------------------

ReadLoop == ReadMessage \/ ReadPing \/ ReadEOF

Step(c) ==
    \/ Lock(c)
    \/ DrainOne(c)
    \/ FoundClosed(c)
    \/ WriteCommand(c)
    \/ WriteFence(c)
    \/ WriteFails(c)
    \/ Receive(c)
    \/ Timeout(c)

Soju == ServeCommand \/ ServeFence \/ TakePong

Next ==
    \/ ReadLoop
    \/ \E c \in Callers : Step(c) \/ \E k \in Kinds : Start(c, k)
    \/ Soju
    \/ \E what \in Noises : SendUnasked(what)
    \/ Break

Spec == Init /\ [][Next]_vars

-----------------------------------------------------------------------------
(* Types, and what the properties say.                                     *)

Verdicts == {"ok", "err", "noanswer"}

Message ==
    [cmd : {"command", "fence", "pong", "line", "errline", "added", "fail", "op",
            "noop", "end", "other", "ping"},
     of : 0..MaxCalls]

(* Every variable keeps its type, the channel its capacity, and rmu is     *)
(* held exactly by the caller that is between Lock and Return.             *)
TypeOK ==
    /\ wire \in Seq(Message) /\ pipe \in Seq(Message) /\ in \in Seq(Message)
    /\ Len(in) <= Cap
    /\ conn \in {"open", "dead"} /\ gone \in BOOLEAN
    /\ lock \in Callers \cup {Nobody}
    /\ call \in [Callers -> [at : {"idle", "lock", "drain", "fence", "wait"},
                             id : 0..MaxCalls, got : Seq(Message)]]
    /\ \A c \in Callers : call[c].at \in {"drain", "fence", "wait"} <=> lock = c
    /\ made \in 0..MaxCalls /\ noises \in 0..MaxNoise /\ owed \in 0..MaxNoise
    /\ kind \in [Calls -> Kinds \cup {"none"}]
    /\ decided \in [Calls -> {"none", "ok", "err"}]
    /\ result \in [Calls -> Verdicts \cup {"none", "closed", "failed", "timeout"}]
    /\ stale \in BOOLEAN /\ dropped \in BOOLEAN

(* What the caller is told is what soju decided, unless something of an    *)
(* earlier call was still on its way when the command was written, or a    *)
(* message did not fit: what had arrived by then is drained and does no    *)
(* harm (client.go:280-290, 384-401, 485-490, 498-503).  For Serv this is  *)
(* so where BouncerServ sends nothing unasked: an administrator's notice   *)
(* among its replies cannot be told from one (see AdminIsAdmin).           *)
VerdictFaithful ==
    [][ \A i \in Calls :
           result'[i] # result[i] /\ result'[i] \in Verdicts /\ ~stale /\ ~dropped
             => result'[i] = decided[i] ]_vars

(* isOpped never answers for one channel with the names of another, even   *)
(* when the end it stopped at belongs to an earlier NAMES                  *)
(* (watch.go:392-407).                                                     *)
OpVerdictOfItsChannel ==
    \A i \in Calls : kind[i] = "names" /\ result[i] \in {"ok", "err"}
                      => result[i] = decided[i]

(* Every call ends, whatever becomes of soju and of the other callers.     *)
CallsEnd == \A c \in Callers : call[c].at # "idle" ~> call[c].at = "idle"

(* What a Request promises, see Rpc: whatever went wrong before it, one    *)
(* that returns without a transport error returns after soju has dealt     *)
(* with its command, since the PONG to its nonce is behind the replies     *)
(* (client.go:297-312).                                                    *)
Outcome(i) ==
    IF result[i] = "none" THEN "none"
    ELSE IF Fenced(i) /\ result[i] \in Verdicts THEN "answered" ELSE "gaveup"

R == INSTANCE Rpc WITH
        asked <- 1..made,
        decided <- decided,
        outcome <- [i \in Calls |-> Outcome(i)]

ImplementsRpc == R!Spec

(* "User created." (server.go:935) and its like are shown when Serv        *)
(* returns no error: soju has then done what was asked.                    *)
SuccessIsSuccess == \A i \in Calls : result[i] = "ok" => decided[i] = "ok"

=============================================================================
