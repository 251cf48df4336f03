----------------------------- MODULE Connection -----------------------------
(***************************************************************************)
(* A connection to soju from its first line on (dial and handshake in      *)
(* client.go).  The handshake reads the stream itself: it negotiates SASL, *)
(* sends the password, waits to be registered, and hands the stream over   *)
(* to readLoop.  Then Dial asks "user status" to learn whether this is an  *)
(* administrator, and returns; from there on the connection is Client's.   *)
(* soju's side of a login is modelled from what the handshake expects.     *)
(***************************************************************************)
EXTENDS Client, FiniteSets

VARIABLES
    stage,    \* what dial is waiting for
    bound,    \* dialled for one network: nobody asks for IsAdmin
    sasl,     \* an LS line offered SASL PLAIN
    isAdmin,  \* the connection's IsAdmin
    sojuDid,  \* how far soju is with the login
    sentPass, \* the password was written
    mislaid   \* soju's PINGs in the login's read buffer when it was dropped

loginVars == <<stage, bound, sasl, isAdmin, sentPass, mislaid>>
useVars == <<in, gone, lock, call, made, kind, result, stale, dropped>>
connVars == <<vars, loginVars, sojuDid>>

Reading == {"LS", "ACK", "AUTHENTICATE", "903", "001"}
Stages == {"dial", "status", "ready", "failed"} \cup Reading

ConnInit ==
    /\ Init
    /\ stage = "dial"
    /\ bound \in BOOLEAN
    /\ sasl = FALSE /\ isAdmin = FALSE
    /\ sojuDid = "nothing"
    /\ sentPass = FALSE
    /\ mislaid = 0

-----------------------------------------------------------------------------
(* The login.                                                              *)

(* Not the code: a login that failed leaves its connection open.           *)
LeftOpen == conn' = conn /\ UNCHANGED <<wire, pipe>>

Hangup == conn' = "dead" /\ wire' = wire /\ pipe' = <<>>

Fail == Hangup /\ stage' = "failed"

(* A line is written, and the next stage reads on; or it cannot be.        *)
Say(cmd, next) ==
    \/ WriteOK(Msg(cmd, 0)) /\ conn' = conn /\ pipe' = Tail(pipe) /\ stage' = next
    \/ Fail

Unreachable ==
    /\ stage = "dial"
    /\ Fail
    /\ UNCHANGED <<useVars, noises, owed, decided, bound, sasl, isAdmin, sojuDid,
                   sentPass, mislaid>>

(* CAP LS, NICK and USER; the last two are answered after CAP END.         *)
Hello ==
    /\ stage = "dial"
    /\ WriteOK(Msg("CAP LS", 0))
    /\ stage' = "LS"
    /\ UNCHANGED <<pipe, conn, useVars, noises, owed, decided, bound, sasl, isAdmin,
                   sojuDid, sentPass, mislaid>>

LoginPing ==
    /\ stage \in Reading
    /\ pipe # <<>>
    /\ Head(pipe).cmd = "ping"
    /\ Say("pong", stage)
    /\ UNCHANGED <<useVars, noises, owed, decided, bound, sasl, isAdmin, sojuDid,
                   sentPass, mislaid>>

(* Not the code: any message asks for the password; any message but a      *)
(* refusal is a welcome.                                                   *)
PromptsAny(m) == TRUE
WelcomesAny(m) == m.cmd # "refusal"

Prompts(m) == m.cmd = "AUTHENTICATE"

Welcomes(m) == m.cmd = "001"

Offers(m) == m.cmd \in {"LS* sasl", "LS sasl"}

(* The end of the LS lines: without SASL there is no going on.             *)
ReadLS(m) ==
    /\ m.cmd \in {"LS*", "LS* sasl", "LS", "LS sasl"}
    /\ sasl' = (sasl \/ Offers(m))
    /\ \/ /\ m.cmd \in {"LS*", "LS* sasl"}
          /\ pipe' = Tail(pipe)
          /\ UNCHANGED <<wire, conn, stage>>
       \/ m.cmd \in {"LS", "LS sasl"} /\ ~sasl' /\ Fail
       \/ m.cmd \in {"LS", "LS sasl"} /\ sasl' /\ Say("CAP REQ", "ACK")
    /\ UNCHANGED <<isAdmin, sentPass, mislaid>>

ReadACK(m) ==
    /\ \/ m.cmd = "NAK" /\ Fail
       \/ m.cmd = "ACK" /\ Say("AUTHENTICATE PLAIN", "AUTHENTICATE")
    /\ UNCHANGED <<sasl, isAdmin, sentPass, mislaid>>

ReadPrompt(m) ==
    /\ Prompts(m)
    /\ Say("password", "903")
    /\ sentPass' = TRUE
    /\ UNCHANGED <<sasl, isAdmin, mislaid>>

Read903(m) ==
    /\ \/ m.cmd = "904" /\ Fail
       \/ m.cmd = "903" /\ Say("CAP END", "001")
    /\ UNCHANGED <<sasl, isAdmin, sentPass, mislaid>>

(* Registered.  The login's bufio.Reader is dropped with what it has read  *)
(* beyond this message; readLoop starts a reader of its own on the rest.   *)
(* The last line read may have been read in part: readLoop then finds the  *)
(* end of it, which is nothing it knows.                                   *)
Read001(m) ==
    /\ \/ m.cmd = "refusal" /\ Fail /\ mislaid' = mislaid
       \/ /\ Welcomes(m)
          /\ stage' = IF bound THEN "ready" ELSE "status"
          /\ \E j \in 1..Len(pipe) :
                /\ LET rest == SubSeq(pipe, j + 1, Len(pipe))
                   IN  \/ pipe' = rest
                       \/ j > 1 /\ pipe' = <<Msg("other", 0)>> \o rest
                /\ mislaid' = Cardinality({k \in 1..j : pipe[k].cmd = "ping"})
          /\ UNCHANGED <<wire, conn>>
    /\ UNCHANGED <<sasl, isAdmin, sentPass>>

Heeds(m) ==
    CASE stage = "LS" -> m.cmd \in {"LS*", "LS* sasl", "LS", "LS sasl"}
      [] stage = "ACK" -> m.cmd \in {"ACK", "NAK"}
      [] stage = "AUTHENTICATE" -> Prompts(m)
      [] stage = "903" -> m.cmd \in {"903", "904"}
      [] stage = "001" -> m.cmd = "refusal" \/ Welcomes(m)

(* What a stage does not wait for is skipped, a refusal before the last    *)
(* stage included.                                                         *)
Handshake ==
    /\ stage \in Reading
    /\ pipe # <<>>
    /\ LET m == Head(pipe)
       IN  /\ m.cmd # "ping"
           /\ \/ stage = "LS" /\ ReadLS(m)
              \/ stage = "ACK" /\ ReadACK(m)
              \/ stage = "AUTHENTICATE" /\ ReadPrompt(m)
              \/ stage = "903" /\ Read903(m)
              \/ stage = "001" /\ Read001(m)
              \/ /\ ~Heeds(m)
                 /\ pipe' = Tail(pipe)
                 /\ UNCHANGED <<wire, conn, stage, sasl, isAdmin, sentPass, mislaid>>
    /\ UNCHANGED <<useVars, noises, owed, decided, bound, sojuDid>>

(* Not the code: a login waits as long as it takes.                        *)
NoDeadline == conn = "dead" /\ pipe = <<>>

(* The stream ended, or handshakeLimit is over, whatever was last read.    *)
GivesUp == stage \in Reading

LoginFails ==
    /\ stage \in Reading
    /\ GivesUp
    /\ Fail
    /\ UNCHANGED <<useVars, noises, owed, decided, bound, sasl, isAdmin, sojuDid,
                   sentPass, mislaid>>

(* Not the code: an administrator unless soju says no.                     *)
NotRefused(r) == r # "err"

Administers(r) == r = "ok"

(* "user status" has been answered, or has not: Dial returns either way.   *)
StatusKnown ==
    /\ stage = "status"
    /\ result[1] # "none"
    /\ isAdmin' = Administers(result[1])
    /\ stage' = "ready"
    /\ UNCHANGED <<vars, bound, sasl, sojuDid, sentPass, mislaid>>

-----------------------------------------------------------------------------
(* soju's side of a login.  It may say more than is waited for, and refuse *)
(* the NICK or the mechanism at a time when nobody heeds a refusal.        *)

LoginReplies(line) ==
    CASE line = "CAP LS" ->
            {<<"LS">>, <<"refusal", "LS sasl">>, <<"LS* sasl", "LS">>, <<"LS*", "LS sasl">>}
      [] line = "CAP REQ" -> {<<"ACK">>, <<"NAK">>}
      [] line = "AUTHENTICATE PLAIN" -> {<<"AUTHENTICATE">>, <<"904">>}
      [] line = "password" -> {<<"903">>, <<"903", "other">>, <<"904">>}
      [] line = "CAP END" -> {<<"001">>, <<"001", "other">>, <<"refusal">>}

After(reply) ==
    CASE reply[1] = "AUTHENTICATE" -> "prompted"
      [] reply[1] = "903" -> "accepted"
      [] reply[1] = "001" -> "registered"
      [] OTHER -> sojuDid

SojuLogin ==
    /\ wire # <<>>
    /\ Head(wire).cmd \notin {"command", "fence", "pong"}
    /\ wire' = Tail(wire)
    /\ \E reply \in LoginReplies(Head(wire).cmd) :
          /\ pipe' = IF conn = "open" THEN pipe \o [j \in DOMAIN reply |-> Msg(reply[j], 0)]
                                      ELSE pipe
          /\ sojuDid' = After(reply)
    /\ UNCHANGED <<conn, useVars, noises, owed, decided, loginVars>>

-----------------------------------------------------------------------------

Login == Unreachable \/ Hello \/ LoginPing \/ Handshake \/ LoginFails \/ StatusKnown

InUse == stage \in {"status", "ready"}

(* Until Dial returns, its own call is the only one.                       *)
Begin(c, k) == Start(c, k) /\ (stage = "status" => made = 0 /\ k = "serv")

Use == ReadLoop \/ \E c \in Callers : Step(c) \/ \E k \in Kinds : Begin(c, k)

World ==
    /\ stage \notin {"dial", "failed"}
    /\ Break \/ \E what \in Noises : SendUnasked(what)

ConnNext ==
    \/ Login
    \/ SojuLogin
    \/ InUse /\ Use /\ UNCHANGED <<loginVars, sojuDid>>
    \/ Soju /\ UNCHANGED <<loginVars, sojuDid>>
    \/ World /\ UNCHANGED <<loginVars, sojuDid>>

ConnSpec == ConnInit /\ [][ConnNext]_connVars

(* The goroutines run, Dial makes its call, and soju takes what it is      *)
(* sent.  That it goes on with a login, or answers in time, is not assumed. *)
ConnFairness ==
    /\ WF_connVars(Login)
    /\ WF_connVars(InUse /\ ReadLoop /\ UNCHANGED <<loginVars, sojuDid>>)
    /\ \A c \in Callers : WF_connVars(InUse /\ Step(c) /\ UNCHANGED <<loginVars, sojuDid>>)
    /\ WF_connVars(/\ stage = "status"
                   /\ \E c \in Callers : Begin(c, "serv")
                   /\ UNCHANGED <<loginVars, sojuDid>>)
    /\ WF_connVars(Soju /\ UNCHANGED <<loginVars, sojuDid>>)

ConnFairSpec == ConnSpec /\ ConnFairness

-----------------------------------------------------------------------------
(* Types, and what the properties say.                                     *)

(* Every variable of the login keeps its type, and a login that failed has *)
(* closed its connection.                                                  *)
ConnTypeOK ==
    /\ stage \in Stages
    /\ bound \in BOOLEAN /\ sasl \in BOOLEAN /\ isAdmin \in BOOLEAN
    /\ sojuDid \in {"nothing", "prompted", "accepted", "registered"}
    /\ sentPass \in BOOLEAN
    /\ mislaid \in 0..MaxNoise
    /\ stage = "failed" => conn = "dead"

(* The password goes to a server that offered SASL PLAIN and has asked for *)
(* it, and to no other, whatever else it sends meanwhile                   *)
(* (client.go:151-206).                                                    *)
PasswordOnRequest == sentPass => sasl /\ sojuDid # "nothing"

(* A connection is in use only after soju has accepted the password and    *)
(* registered the connection, and soju sees no command before that         *)
(* (client.go:207-243).                                                    *)
RegisteredBeforeUse ==
    /\ InUse => sojuDid = "registered"
    /\ \A i \in Calls : decided[i] # "none" => sojuDid = "registered"

(* A line from BouncerServ that nobody asked for is among what call c got. *)
Overheard(c) == \E j \in DOMAIN call[c].got : call[c].got[j] = Msg("line", 0)

(* IsAdmin is set only when "user status" was told to have succeeded, and  *)
(* it is told so only if soju took it, or else an administrator's notice   *)
(* (server.go:1018) arrived while its answer was awaited: that it timed    *)
(* out, that messages were dropped or that the connection broke is not     *)
(* enough (client.go:91-95, 384-401).                                      *)
AdminIsAdmin ==
    [][ /\ isAdmin' /\ ~isAdmin => result[1] = "ok"
        /\ stage = "status" /\ result'[1] = "ok"
             => \/ result[1] = "ok" \/ decided[1] = "ok"
                \/ \E c \in Callers : call[c].id = 1 /\ Overheard(c) ]_connVars

(* A login ends, in a connection or in an error, even if soju says nothing *)
(* more (client.go:120-121).                                               *)
DialEnds == stage # "dial" ~> stage \in {"ready", "failed"}

(* soju's PINGs are answered, in a login as well as while nobody reads the *)
(* channel, or it would close the connection of an idle session; all but   *)
(* those the login's reader had taken in with the welcome, unless an       *)
(* answer cannot be written, which is the end of readLoop                  *)
(* (client.go:132-137, 258-268).                                           *)
PingsAnswered == owed > mislaid ~> (owed = mislaid \/ gone \/ conn = "dead")
=============================================================================
