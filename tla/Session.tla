------------------------------ MODULE Session ------------------------------
(***************************************************************************)
(* Sessions of the web interface (session.go, and the parts of server.go   *)
(* every handler goes through).  A session owns a connection to soju; a    *)
(* request finds its session in the store by cookie and talks to soju in   *)
(* Do, which holds the session's lock, dials a connection that is missing  *)
(* and retries once on a new one when the old one turns out closed.  A     *)
(* reaper wakes up every minute, and removes and closes the sessions whose *)
(* last Do is too long ago.                                                *)
(*                                                                         *)
(* A critical section in which nothing blocks is one step, taken while the *)
(* lock is free.  Time is kept as ages, in ticks, saturated at Limit: the  *)
(* code only ever asks whether lastUsed is before now - idle.              *)
(***************************************************************************)
EXTENDS Naturals, FiniteSets

CONSTANTS
    Requests,  \* goroutines that serve a request each, one after the other
    Sessions,  \* session IDs; randToken never returns one that is in use
    Kinds,     \* the requests there are: a subset of AllKinds
    IdleTicks, \* -idle-timeout, in clock ticks
    Reaper,    \* the reaper, as the holder of a lock
    Nobody     \* who holds a lock that is free

(* "page": a handler that calls Do and renders or redirects.  "plain": one *)
(* that renders without a Do (console, networkNew).  "admin": one that     *)
(* checks IsAdmin first (users, watcherPolicy).  "logout": logout.         *)
AllKinds == {"page", "plain", "admin", "logout"}

ASSUME SessionAssumption ==
    /\ Kinds \subseteq AllKinds
    /\ IdleTicks \in Nat \ {0}
    /\ Reaper \notin Requests
    /\ Nobody \notin Requests \cup {Reaper}

VARIABLES
    store,    \* the sessions in st.sessions
    stLock,   \* who holds st.mu from one step to the next
    sLock,    \* sLock[s]: who holds the session's mu
    cl,       \* cl[s]: "none" (nil), "live", or "dead": soju closed it, or it broke
    open,     \* open[s]: connections dialled for s and not closed by this program
    age,      \* age[s]: ticks since lastUsed
    req,      \* req[r]: the request r is serving
    reaper,   \* where the reaper is
    seen,     \* seen[s]: ticks since a request last found s in the store
    revived   \* sessions for which a Do began after they had left the store

vars == <<store, stLock, sLock, cl, open, age, req, reaper, seen, revived>>

Limit == IdleTicks + 1

(* ran: how often soju carried out the request's command.  lost: it did so *)
(* on a connection that broke before the answer came.                      *)
Free(s) == [at |-> "idle", kind |-> "none", sess |-> s, try |-> 1, ran |-> 0, lost |-> FALSE]

Asleep == [at |-> "sleep", lapsed |-> {}, todo |-> {}, dead |-> {}]

Init ==
    /\ store = {}
    /\ stLock = Nobody
    /\ sLock = [s \in Sessions |-> Nobody]
    /\ cl = [s \in Sessions |-> "none"]
    /\ open = [s \in Sessions |-> 0]
    /\ age = [s \in Sessions |-> 0]
    /\ req = [r \in Requests |-> Free(Nobody)]
    /\ reaper = Asleep
    /\ seen = [s \in Sessions |-> 0]
    /\ revived = {}

-----------------------------------------------------------------------------

Busy(r) == req[r].at # "idle"

Holding(s) == {r \in Requests : Busy(r) /\ req[r].sess = s}

Goto(r, at) == req' = [req EXCEPT ![r].at = at]

Finish(r) == req' = [req EXCEPT ![r] = Free(Nobody)]

(* Not the code: the lock is kept. *)
StayLocked(s) == sLock' = sLock

Unlock(s) == sLock' = [sLock EXCEPT ![s] = Nobody]

(* Session.close, called with the session's lock free; taking and giving   *)
(* back the lock is part of it.                                            *)
Close(s) ==
    /\ sLock[s] = Nobody
    /\ cl' = [cl EXCEPT ![s] = "none"]
    /\ open' = [open EXCEPT ![s] = IF cl[s] = "none" THEN @ ELSE @ - 1]

-----------------------------------------------------------------------------
(* login: New dials first, and enters the session in the store.            *)

(* A session ID no one has any more may come to stand for a new one.       *)
Fresh(s) ==
    /\ s \notin store
    /\ s \notin reaper.dead
    /\ Holding(s) = {}
    /\ open[s] = 0

Login(r, s) ==
    /\ ~Busy(r)
    /\ Fresh(s)
    /\ req' = [req EXCEPT ![r] = [Free(s) EXCEPT !.at = "insert", !.kind = "login"]]
    /\ cl' = [cl EXCEPT ![s] = "live"]
    /\ open' = [open EXCEPT ![s] = 1]
    /\ age' = [age EXCEPT ![s] = 0]
    /\ seen' = [seen EXCEPT ![s] = 0]
    /\ revived' = revived \ {s}
    /\ reaper' = [reaper EXCEPT !.lapsed = @ \ {s}]
    /\ UNCHANGED <<store, stLock, sLock>>

Insert(r) ==
    /\ req[r].at = "insert"
    /\ stLock = Nobody
    /\ store' = store \cup {req[r].sess}
    /\ Finish(r)
    /\ UNCHANGED <<stLock, sLock, cl, open, age, reaper, seen, revived>>

-----------------------------------------------------------------------------
(* auth, and the handler behind it.                                        *)

(* A request arrives with a cookie; cookies outlive sessions.              *)
Arrive(r, s, k) ==
    /\ ~Busy(r)
    /\ req' = [req EXCEPT ![r] = [Free(s) EXCEPT !.at = "get", !.kind = k]]
    /\ UNCHANGED <<store, stLock, sLock, cl, open, age, reaper, seen, revived>>

First(k) ==
    CASE k = "page" -> "do"
      [] k = "plain" -> "render"
      [] k = "admin" -> "check"
      [] k = "logout" -> "delete"

(* Get; without a session the answer is a redirect to the login form.      *)
Get(r) ==
    /\ req[r].at = "get"
    /\ stLock = Nobody
    /\ IF req[r].sess \in store
       THEN /\ Goto(r, First(req[r].kind))
            /\ seen' = [seen EXCEPT ![req[r].sess] = 0]
       ELSE Finish(r) /\ seen' = seen
    /\ UNCHANGED <<store, stLock, sLock, cl, open, age, reaper, revived>>

(* IsAdmin, of an administrator: false while there is no connection, and   *)
(* then the handler answers "admin only" without a Do.                     *)
CheckAdmin(r) ==
    /\ req[r].at = "check"
    /\ sLock[req[r].sess] = Nobody
    /\ IF cl[req[r].sess] = "none" THEN Finish(r) ELSE Goto(r, "do")
    /\ UNCHANGED <<store, stLock, sLock, cl, open, age, reaper, seen, revived>>

(* render takes the session's lock for the name, the rights and the flash; *)
(* back takes it to leave a flash.                                         *)
Render(r) ==
    /\ req[r].at = "render"
    /\ sLock[req[r].sess] = Nobody
    /\ Finish(r)
    /\ UNCHANGED <<store, stLock, sLock, cl, open, age, reaper, seen, revived>>

(* Delete looks the session up again: another logout or the reaper may     *)
(* have been faster.                                                       *)
Delete(r) ==
    /\ req[r].at = "delete"
    /\ stLock = Nobody
    /\ store' = store \ {req[r].sess}
    /\ IF req[r].sess \in store THEN Goto(r, "close") ELSE Finish(r)
    /\ UNCHANGED <<stLock, sLock, cl, open, age, reaper, seen, revived>>

(* Not the code: the session is forgotten, its connection is not closed.   *)
Forget(s) == sLock[s] = Nobody /\ UNCHANGED <<cl, open>>

CloseDeleted(s) == Close(s)

LogoutClose(r) ==
    /\ req[r].at = "close"
    /\ CloseDeleted(req[r].sess)
    /\ Finish(r)
    /\ UNCHANGED <<store, stLock, sLock, age, reaper, seen, revived>>

-----------------------------------------------------------------------------
(* Do and redial, under the session's lock.                                *)

DoLock(r) ==
    LET s == req[r].sess
    IN  /\ req[r].at = "do"
        /\ sLock[s] = Nobody
        /\ sLock' = [sLock EXCEPT ![s] = r]
        /\ age' = [age EXCEPT ![s] = 0]
        /\ reaper' = [reaper EXCEPT !.lapsed = @ \ {s}]
        /\ revived' = IF s \in store THEN revived ELSE revived \cup {s}
        /\ Goto(r, IF cl[s] = "none" THEN "redial" ELSE "fn")
        /\ UNCHANGED <<store, stLock, cl, open, seen>>

(* Not the code: the old connection is dropped without a Close. *)
KeepOld(s) == 0

CloseOld(s) == IF cl[s] = "none" THEN 0 ELSE 1

RedialOK(r) ==
    LET s == req[r].sess
    IN  /\ req[r].at = "redial"
        /\ cl' = [cl EXCEPT ![s] = "live"]
        /\ open' = [open EXCEPT ![s] = @ - CloseOld(s) + 1]
        /\ Goto(r, "fn")
        /\ UNCHANGED <<store, stLock, sLock, age, reaper, seen, revived>>

(* Dial fails: soju is away, or no longer takes the password.              *)
RedialFails(r) ==
    LET s == req[r].sess
    IN  /\ req[r].at = "redial"
        /\ cl' = [cl EXCEPT ![s] = "none"]
        /\ open' = [open EXCEPT ![s] = @ - CloseOld(s)]
        /\ Unlock(s)
        /\ Goto(r, "render")
        /\ UNCHANGED <<store, stLock, age, reaper, seen, revived>>

(* How fn ends, with the error it returns: what Client's calls can do.     *)
(* "error" is any error but errClosed: soju refused, 20 seconds passed, a  *)
(* write to a broken connection failed.                                    *)
Outcomes(conn) ==
    IF conn = "live"
    THEN {[err |-> "nil", ran |-> 1, conn |-> "live"]}
         \cup [err : {"error"}, ran : {0, 1}, conn : {"live"}]
         \cup [err : {"closed", "error"}, ran : {0, 1}, conn : {"dead"}]
    ELSE [err : {"closed", "error"}, ran : {0}, conn : {"dead"}]

(* Not the code: every error is worth a retry. *)
RetryAnyway(r, err) == req[r].try = 1 /\ err # "nil"

(* Do retries once, on a new connection, when the old one was closed.      *)
Retries(r, err) == req[r].try = 1 /\ err = "closed"

Fn(r) ==
    LET s == req[r].sess
    IN  /\ req[r].at = "fn"
        /\ \E o \in Outcomes(cl[s]) :
              /\ cl' = [cl EXCEPT ![s] = o.conn]
              /\ req' = [req EXCEPT
                    ![r].at = IF Retries(r, o.err) THEN "redial" ELSE "render",
                    ![r].try = IF Retries(r, o.err) THEN 2 ELSE @,
                    ![r].ran = @ + o.ran,
                    ![r].lost = @ \/ (o.ran = 1 /\ o.conn = "dead")]
              /\ IF Retries(r, o.err) THEN sLock' = sLock ELSE Unlock(s)
        /\ UNCHANGED <<store, stLock, open, age, reaper, seen, revived>>

-----------------------------------------------------------------------------
(* The reaper.                                                             *)

Wake ==
    /\ reaper.at = "sleep"
    /\ reaper' = [Asleep EXCEPT !.at = "lock", !.lapsed = {s \in Sessions : age[s] > IdleTicks}]
    /\ UNCHANGED <<store, stLock, sLock, cl, open, age, req, seen, revived>>

ReapLock ==
    /\ reaper.at = "lock"
    /\ stLock = Nobody
    /\ stLock' = Reaper
    /\ reaper' = [reaper EXCEPT !.at = "look", !.todo = store]
    /\ UNCHANGED <<store, sLock, cl, open, age, req, seen, revived>>

(* Not the code: only a session without a connection is old enough.        *)
ExpiredUnused(s) == s \in reaper.lapsed /\ cl[s] = "none"

Expired(s) == s \in reaper.lapsed

(* Reading lastUsed waits for a Do in progress, with st.mu held: until it  *)
(* ends nobody gets a session.                                             *)
Look(s) ==
    /\ reaper.at = "look"
    /\ s \in reaper.todo
    /\ sLock[s] = Nobody
    /\ IF Expired(s)
       THEN /\ store' = store \ {s}
            /\ reaper' = [reaper EXCEPT !.todo = @ \ {s}, !.dead = @ \cup {s}]
       ELSE /\ store' = store
            /\ reaper' = [reaper EXCEPT !.todo = @ \ {s}]
    /\ UNCHANGED <<stLock, sLock, cl, open, age, req, seen, revived>>

(* Not the code: the store stays locked. *)
KeepStore == Reaper

AfterLook == Nobody

LookedAtAll ==
    /\ reaper.at = "look"
    /\ reaper.todo = {}
    /\ stLock' = AfterLook
    /\ reaper' = [reaper EXCEPT !.at = "close"]
    /\ UNCHANGED <<store, sLock, cl, open, age, req, seen, revived>>

CloseReaped(s) == Close(s)

ReapClose(s) ==
    /\ reaper.at = "close"
    /\ s \in reaper.dead
    /\ CloseReaped(s)
    /\ reaper' = [reaper EXCEPT !.dead = @ \ {s}]
    /\ UNCHANGED <<store, stLock, sLock, age, req, seen, revived>>

ReapDone ==
    /\ reaper.at = "close"
    /\ reaper.dead = {}
    /\ reaper' = Asleep
    /\ UNCHANGED <<store, stLock, sLock, cl, open, age, req, seen, revived>>

-----------------------------------------------------------------------------
(* The world: soju closes a connection, or it breaks; time passes.         *)

Break(s) ==
    /\ cl[s] = "live"
    /\ cl' = [cl EXCEPT ![s] = "dead"]
    /\ UNCHANGED <<store, stLock, sLock, open, age, req, reaper, seen, revived>>

Older(k) == IF k < Limit THEN k + 1 ELSE k

Tick ==
    /\ age' = [s \in Sessions |-> Older(age[s])]
    /\ seen' = [s \in Sessions |-> Older(seen[s])]
    /\ UNCHANGED <<store, stLock, sLock, cl, open, req, reaper, revived>>

-----------------------------------------------------------------------------

Handle(r) ==
    \/ Insert(r) \/ Get(r) \/ CheckAdmin(r) \/ Render(r) \/ Delete(r)
    \/ LogoutClose(r) \/ DoLock(r) \/ RedialOK(r) \/ RedialFails(r) \/ Fn(r)

Reap ==
    \/ Wake \/ ReapLock \/ LookedAtAll \/ ReapDone
    \/ \E s \in Sessions : Look(s) \/ ReapClose(s)

Next ==
    \/ \E r \in Requests :
          \/ Handle(r)
          \/ \E s \in Sessions : Login(r, s) \/ \E k \in Kinds : Arrive(r, s, k)
    \/ Reap
    \/ \E s \in Sessions : Break(s)
    \/ Tick

Spec == Init /\ [][Next]_vars

(* The goroutines run, Dial and the calls of fn have time limits, and a    *)
(* sync.Mutex that is free again and again is not kept from one goroutine  *)
(* for ever (it hands itself over to a waiter starved for a millisecond).  *)
Fairness ==
    /\ \A r \in Requests : SF_vars(Handle(r))
    /\ SF_vars(Reap)
    /\ WF_vars(Tick)

FairSpec == Spec /\ Fairness

-----------------------------------------------------------------------------
(* Types, and what the properties say.                                     *)

Places == {"idle", "insert", "get", "check", "do", "redial", "fn", "render", "delete", "close"}

(* Every variable keeps its type; a session's lock is held exactly by the  *)
(* request that is inside Do, and the store's by the reaper at work.       *)
TypeOK ==
    /\ store \subseteq Sessions
    /\ stLock \in {Nobody, Reaper}
    /\ stLock = Reaper <=> reaper.at = "look"
    /\ sLock \in [Sessions -> Requests \cup {Nobody}]
    /\ \A r \in Requests : \A s \in Sessions :
          sLock[s] = r <=> (req[r].at \in {"redial", "fn"} /\ req[r].sess = s)
    /\ cl \in [Sessions -> {"none", "live", "dead"}]
    /\ open \in [Sessions -> 0..1]
    /\ age \in [Sessions -> 0..Limit] /\ seen \in [Sessions -> 0..Limit]
    /\ req \in [Requests -> [at : Places, kind : Kinds \cup {"none", "login"},
                             sess : Sessions \cup {Nobody}, try : 1..2, ran : 0..2, lost : BOOLEAN]]
    /\ reaper \in [at : {"sleep", "lock", "look", "close"}, lapsed : SUBSET Sessions,
                   todo : SUBSET Sessions, dead : SUBSET Sessions]
    /\ revived \subseteq Sessions

(* However requests, the reaper and soju interleave, a session has at most *)
(* one connection that is not closed, and it is the one the session knows: *)
(* none is lost track of (session.go:72-100).                              *)
OneConnection == \A s \in Sessions : open[s] = IF cl[s] = "none" THEN 0 ELSE 1

(* soju carries a command out twice only if the connection broke after it  *)
(* had done so once: a retry repeats no command that soju answered, or did *)
(* not answer in time (session.go:71-77).                                  *)
RunOnce == \A r \in Requests : req[r].ran <= 1 \/ req[r].lost

(* A connection outlives its session's place in the store only while       *)
(* someone is still at work with the session, or if a Do began after the   *)
(* session had left the store (session.go:144-151, 163-171).               *)
ClosedWithSession ==
    \A s \in Sessions :
        open[s] > 0 => s \in store \cup reaper.dead \cup revived \/ Holding(s) # {}

(* Every request ends, and so does every round of the reaper: neither the  *)
(* locks nor the retry keep one waiting for ever.                          *)
RequestsEnd == \A r \in Requests : Busy(r) ~> ~Busy(r)
RoundsEnd == reaper.at # "sleep" ~> reaper.at = "sleep"

(* A session that nobody uses any more leaves the store.                   *)
AbandonedReaped ==
    \A s \in Sessions : <>[](Holding(s) = {}) => <>[](s \notin store)

-----------------------------------------------------------------------------
(* What the documentation says and the code does not do.                   *)

(* "close a session after this long without a request" (main.go:23): a     *)
(* session that the reaper takes out of the store, while no request is at  *)
(* work with it, has had none for longer than that.                        *)
ReapedOnlyIdle ==
    [][ \A s \in reaper'.dead \ reaper.dead :
           seen[s] > IdleTicks \/ Holding(s) # {} ]_vars
=============================================================================
