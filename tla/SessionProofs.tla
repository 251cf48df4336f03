---------------------------- MODULE SessionProofs ----------------------------
(***************************************************************************)
(* What holds of Session for any number of requests and sessions, and      *)
(* every idle timeout.                                                     *)
(***************************************************************************)
EXTENDS Session, TLAPS

InPlace(r, places, s) == req[r].at \in places /\ req[r].sess = s

Request ==
    [at : Places, kind : Kinds \cup {"none", "login"}, sess : Sessions \cup {Nobody},
     try : 1..2, ran : 0..2, lost : BOOLEAN]

Reaping ==
    [at : {"sleep", "lock", "look", "close"}, lapsed : SUBSET Sessions,
     todo : SUBSET Sessions, dead : SUBSET Sessions]

(* TypeOK, in parts: of what the requests share, of the requests, and of   *)
(* the locks.  Whoever serves a request has a session to serve it for.     *)
SharedInv ==
    /\ store \subseteq Sessions /\ revived \subseteq Sessions
    /\ sLock \in [Sessions -> Requests \cup {Nobody}]
    /\ cl \in [Sessions -> {"none", "live", "dead"}]
    /\ open \in [Sessions -> 0..1]
    /\ age \in [Sessions -> 0..Limit] /\ seen \in [Sessions -> 0..Limit]
    /\ reaper \in Reaping
    /\ stLock \in {Nobody, Reaper}
    /\ stLock = Reaper <=> reaper.at = "look"
    /\ reaper.at = "sleep" => reaper.dead = {}

RequestInv ==
    /\ req \in [Requests -> Request]
    /\ \A r \in Requests :
          /\ Busy(r) => req[r].sess \in Sessions
          /\ req[r].at = "get" => req[r].kind \in Kinds

LockInv ==
    \A r \in Requests, s \in Sessions : sLock[s] = r <=> InPlace(r, {"redial", "fn"}, s)

(* fn is run on a connection, be it one that broke.                        *)
ConnInv ==
    /\ OneConnection
    /\ \A r \in Requests : req[r].at = "fn" => cl[req[r].sess] # "none"

(* Do's first try has run no command, its second one at most once, and     *)
(* then on a connection that broke.                                        *)
RunInv ==
    \A r \in Requests :
        /\ req[r].ran <= 1 \/ req[r].lost
        /\ req[r].at \in {"get", "check", "do"} => req[r].try = 1
        /\ req[r].at \in {"get", "check", "do", "redial", "fn"} =>
              /\ req[r].ran <= req[r].try - 1
              /\ req[r].ran > 0 => req[r].lost

(* The sessions that somebody is going to close, or to put in the store,   *)
(* or that nobody knows of any more.                                       *)
Accounted(s) ==
    \/ s \in store \cup reaper.dead \cup revived
    \/ \E r \in Requests : InPlace(r, {"insert", "close"}, s)

(* So is every session that has a connection or is about to dial one.      *)
CloseInv ==
    \A s \in Sessions :
        \/ Accounted(s)
        \/ open[s] = 0 /\ \A r \in Requests : ~InPlace(r, {"redial", "fn"}, s)

SessionInv == SharedInv /\ RequestInv /\ LockInv /\ ConnInv /\ RunInv /\ CloseInv

-----------------------------------------------------------------------------
(* What a step does to the request it is taken for, and to no other.       *)

Others(r) == \A q \in Requests \ {r} : req'[q] = req[q]

Moves(r, at) ==
    /\ req' \in [Requests -> Request]
    /\ Others(r)
    /\ req'[r].at = at
    /\ req'[r].sess = req[r].sess /\ req'[r].kind = req[r].kind
    /\ req'[r].try = req[r].try /\ req'[r].ran = req[r].ran /\ req'[r].lost = req[r].lost

Ends(r) ==
    /\ req' \in [Requests -> Request]
    /\ Others(r)
    /\ req'[r].at = "idle" /\ req'[r].sess = Nobody
    /\ req'[r].try = 1 /\ req'[r].ran = 0

Begins(r, s, at) ==
    /\ req' \in [Requests -> Request]
    /\ Others(r)
    /\ req'[r].at = at /\ req'[r].sess = s
    /\ req'[r].try = 1 /\ req'[r].ran = 0

LEMMA GotoMoves ==
  ASSUME req \in [Requests -> Request], NEW r \in Requests, NEW at \in Places, Goto(r, at)
  PROVE  Moves(r, at)
  BY DEF Goto, Request, Others, Moves

LEMMA FreeType ==
  ASSUME NEW s \in Sessions \cup {Nobody}
  PROVE  /\ Free(s) \in Request
         /\ Free(s).at = "idle" /\ Free(s).sess = s
         /\ Free(s).try = 1 /\ Free(s).ran = 0
  BY DEF Free, Request, Places

LEMMA FinishEnds ==
  ASSUME req \in [Requests -> Request], NEW r \in Requests, Finish(r)
  PROVE  Ends(r)
  BY FreeType DEF Finish, Others, Ends

LEMMA BeginType ==
  ASSUME req \in [Requests -> Request], NEW r \in Requests,
         NEW s \in Sessions, NEW at \in Places, NEW k \in Kinds \cup {"none", "login"},
         req' = [req EXCEPT ![r] = [Free(s) EXCEPT !.at = at, !.kind = k]]
  PROVE  Begins(r, s, at) /\ req'[r].kind = k
  <1> DEFINE g == [Free(s) EXCEPT !.at = at]
             q == [g EXCEPT !.kind = k]
  <1>1. g \in Request /\ g.at = at /\ g.sess = s /\ g.try = 1 /\ g.ran = 0
    BY FreeType DEF Request
  <1>2. req' = [req EXCEPT ![r] = q]
    OBVIOUS
  <1> HIDE DEF g
  <1>3. q \in Request /\ q.at = at /\ q.sess = s /\ q.kind = k /\ q.try = 1 /\ q.ran = 0
    BY <1>1 DEF Request
  <1> HIDE DEF q
  <1> QED
    BY <1>2, <1>3 DEF Begins, Others

-----------------------------------------------------------------------------
(* Every place a request goes to is one there is.                          *)
LEMMA PlaceNames ==
  {"idle", "insert", "get", "do", "redial", "fn", "render", "delete", "close"} \subseteq Places
  BY DEF Places

LEMMA FirstPlaces ==
  \A k \in Kinds : First(k) \in Places \ {"idle", "get", "redial", "fn"}
  BY SessionAssumption DEF First, Places, AllKinds

(* What the steps of a request do to it.                                   *)
LEMMA HandleMoves ==
  ASSUME RequestInv, NEW r \in Requests
  PROVE  /\ Insert(r) => Ends(r)
         /\ Get(r) => Ends(r) \/ \E at \in Places \ {"idle", "get", "redial", "fn"} : Moves(r, at)
         /\ CheckAdmin(r) => Ends(r) \/ Moves(r, "do")
         /\ Render(r) => Ends(r)
         /\ Delete(r) => Ends(r) \/ Moves(r, "close")
         /\ LogoutClose(r) => Ends(r)
         /\ DoLock(r) => Moves(r, "redial") \/ Moves(r, "fn")
         /\ RedialOK(r) => Moves(r, "fn")
         /\ RedialFails(r) => Moves(r, "render")
  <1>1. Insert(r) => Ends(r)
    BY FinishEnds DEF Insert, RequestInv
  <1>2. Get(r) => Ends(r) \/ \E at \in Places \ {"idle", "get", "redial", "fn"} : Moves(r, at)
    BY FinishEnds, GotoMoves, FirstPlaces DEF Get, RequestInv
  <1>3. CheckAdmin(r) => Ends(r) \/ Moves(r, "do")
    BY FinishEnds, GotoMoves, PlaceNames DEF CheckAdmin, RequestInv
  <1>4. Render(r) => Ends(r)
    BY FinishEnds DEF Render, RequestInv
  <1>5. Delete(r) => Ends(r) \/ Moves(r, "close")
    BY FinishEnds, GotoMoves, PlaceNames DEF Delete, RequestInv
  <1>6. LogoutClose(r) => Ends(r)
    BY FinishEnds DEF LogoutClose, RequestInv
  <1>7. DoLock(r) => Moves(r, "redial") \/ Moves(r, "fn")
    BY GotoMoves, PlaceNames DEF DoLock, RequestInv
  <1>8. RedialOK(r) => Moves(r, "fn")
    BY GotoMoves, PlaceNames DEF RedialOK, RequestInv
  <1>9. RedialFails(r) => Moves(r, "render")
    BY GotoMoves, PlaceNames DEF RedialFails, RequestInv
  <1> QED
    BY <1>1, <1>2, <1>3, <1>4, <1>5, <1>6, <1>7, <1>8, <1>9

LEMMA HandleRequest ==
  ASSUME RequestInv, LockInv, NEW r \in Requests, Handle(r), ~Fn(r)
  PROVE  RequestInv'
  <1>1. Ends(r) \/ \E at \in Places \ {"idle", "get"} : Moves(r, at) /\ Busy(r)
    BY HandleMoves, PlaceNames DEF Handle, Insert, Get, CheckAdmin, Render, Delete, LogoutClose,
       DoLock, RedialOK, RedialFails, Busy
  <1> QED
    BY <1>1 DEF RequestInv, Ends, Moves, Others, Busy

LEMMA HandleShared ==
  ASSUME SharedInv, RequestInv, ConnInv, NEW r \in Requests, Handle(r), ~Fn(r)
  PROVE  SharedInv'
  <1> USE SessionAssumption DEF SharedInv, RequestInv, Busy
  <1>1. CASE Insert(r)
    BY <1>1 DEF Insert
  <1>2. CASE Get(r)
    BY <1>2 DEF Get, Limit
  <1>3. CASE CheckAdmin(r)
    BY <1>3 DEF CheckAdmin
  <1>4. CASE Render(r)
    BY <1>4 DEF Render
  <1>5. CASE Delete(r)
    BY <1>5 DEF Delete
  <1>6. CASE LogoutClose(r)
    BY <1>6 DEF LogoutClose, CloseDeleted, Close, ConnInv, OneConnection
  <1>7. CASE DoLock(r)
    BY <1>7 DEF DoLock, Limit, Reaping
  <1>8. CASE RedialOK(r)
    BY <1>8 DEF RedialOK, CloseOld, ConnInv, OneConnection
  <1>9. CASE RedialFails(r)
    BY <1>9 DEF RedialFails, CloseOld, Unlock, ConnInv, OneConnection
  <1> QED
    BY <1>1, <1>2, <1>3, <1>4, <1>5, <1>6, <1>7, <1>8, <1>9 DEF Handle

LEMMA HandleLock ==
  ASSUME SharedInv, RequestInv, LockInv, NEW r \in Requests, Handle(r), ~Fn(r)
  PROVE  LockInv'
  <1> USE SessionAssumption DEF LockInv, InPlace, SharedInv, RequestInv, Ends, Moves, Others, Busy
  <1>1. CASE Insert(r)
    BY <1>1, HandleMoves DEF Insert
  <1>2. CASE Get(r)
    BY <1>2, HandleMoves DEF Get
  <1>3. CASE CheckAdmin(r)
    BY <1>3, HandleMoves DEF CheckAdmin
  <1>4. CASE Render(r)
    BY <1>4, HandleMoves DEF Render
  <1>5. CASE Delete(r)
    BY <1>5, HandleMoves DEF Delete
  <1>6. CASE LogoutClose(r)
    BY <1>6, HandleMoves DEF LogoutClose
  <1>7. CASE DoLock(r)
    <2>1. Moves(r, "redial") \/ Moves(r, "fn")
      BY <1>7, HandleMoves
    <2>2. /\ req[r].at = "do" /\ req[r].sess \in Sessions /\ sLock[req[r].sess] = Nobody
          /\ sLock' = [sLock EXCEPT ![req[r].sess] = r]
      BY <1>7, HandleMoves DEF DoLock
    <2> QED
      BY <2>1, <2>2 
  <1>8. CASE RedialOK(r)
    <2>1. Moves(r, "fn")
      BY <1>8, HandleMoves
    <2>2. /\ req[r].at = "redial" /\ req[r].sess \in Sessions
          /\ sLock' = sLock
      BY <1>8, HandleMoves DEF RedialOK
    <2> QED
      BY <2>1, <2>2 
  <1>9. CASE RedialFails(r)
    <2>1. Moves(r, "render")
      BY <1>9, HandleMoves
    <2>2. /\ req[r].at = "redial" /\ req[r].sess \in Sessions
          /\ sLock' = [sLock EXCEPT ![req[r].sess] = Nobody]
      BY <1>9 DEF RedialFails, Unlock
    <2> QED
      BY <2>1, <2>2 
  <1> QED
    BY <1>1, <1>2, <1>3, <1>4, <1>5, <1>6, <1>7, <1>8, <1>9 DEF Handle

(* fn ends in one of the ways there are, and leaves the rest of its        *)
(* request alone.                                                          *)
LEMMA FnMoves ==
  ASSUME SharedInv, RequestInv, RunInv, NEW r \in Requests, Fn(r)
  PROVE  \E o \in [err : {"nil", "closed", "error"}, ran : {0, 1}, conn : {"live", "dead"}] :
            /\ o.err = "closed" => o.conn = "dead"
            /\ cl' = [cl EXCEPT ![req[r].sess] = o.conn]
            /\ sLock' = IF Retries(r, o.err) THEN sLock ELSE [sLock EXCEPT ![req[r].sess] = Nobody]
            /\ req' \in [Requests -> Request]
            /\ Others(r)
            /\ req'[r].at = IF Retries(r, o.err) THEN "redial" ELSE "render"
            /\ req'[r].sess = req[r].sess
            /\ req'[r].try = IF Retries(r, o.err) THEN 2 ELSE req[r].try
            /\ req'[r].ran = req[r].ran + o.ran
            /\ req'[r].lost = (req[r].lost \/ (o.ran = 1 /\ o.conn = "dead"))
  <1>1. PICK o \in Outcomes(cl[req[r].sess]) :
          /\ cl' = [cl EXCEPT ![req[r].sess] = o.conn]
          /\ req' = [req EXCEPT
                ![r].at = IF Retries(r, o.err) THEN "redial" ELSE "render",
                ![r].try = IF Retries(r, o.err) THEN 2 ELSE @,
                ![r].ran = @ + o.ran,
                ![r].lost = @ \/ (o.ran = 1 /\ o.conn = "dead")]
          /\ IF Retries(r, o.err) THEN sLock' = sLock ELSE Unlock(req[r].sess)
    BY DEF Fn
  <1>2. /\ o \in [err : {"nil", "closed", "error"}, ran : {0, 1}, conn : {"live", "dead"}]
        /\ o.err = "closed" => o.conn = "dead"
    BY DEF Outcomes
  <1> DEFINE at == IF Retries(r, o.err) THEN "redial" ELSE "render"
             try == IF Retries(r, o.err) THEN 2 ELSE req[r].try
             ran == req[r].ran + o.ran
             lost == req[r].lost \/ (o.ran = 1 /\ o.conn = "dead")
             p == [req[r] EXCEPT !.at = at, !.try = try, !.ran = ran, !.lost = lost]
  <1>3. req[r] \in Request /\ req[r].at = "fn"
    BY DEF RequestInv, Fn
  <1>4. at \in Places /\ try \in 1..2 /\ lost \in BOOLEAN
    BY <1>3, PlaceNames DEF Request
  <1>5. ran \in 0..2
    BY <1>2, <1>3 DEF RunInv, Request
  <1>6. req' = [req EXCEPT ![r] = p]
    BY <1>1
  <1> DEFINE f == [req[r] EXCEPT !.at = at]
             g == [f EXCEPT !.try = try]
             h == [g EXCEPT !.ran = ran]
  <1>7. p = [h EXCEPT !.lost = lost]
    OBVIOUS
  <1> HIDE DEF p, at, try, ran, lost
  <1>8. f \in Request /\ f.at = at /\ f.sess = req[r].sess
    BY <1>3, <1>4 DEF Request
  <1> HIDE DEF f
  <1>9. g \in Request /\ g.at = at /\ g.sess = req[r].sess /\ g.try = try
    BY <1>4, <1>8 DEF Request
  <1> HIDE DEF g
  <1>10. h \in Request /\ h.at = at /\ h.sess = req[r].sess /\ h.try = try /\ h.ran = ran
    BY <1>5, <1>9 DEF Request
  <1> HIDE DEF h
  <1>11. /\ p \in Request
         /\ p.at = at /\ p.sess = req[r].sess /\ p.try = try /\ p.ran = ran /\ p.lost = lost
    BY <1>4, <1>7, <1>10 DEF Request
  <1>12. req' \in [Requests -> Request] /\ Others(r) /\ req'[r] = p
    BY <1>6, <1>11 DEF RequestInv, Others
  <1> QED
    BY <1>1, <1>2, <1>11, <1>12 DEF Unlock, at, try, ran, lost

LEMMA FnTypes ==
  ASSUME SharedInv, RequestInv, LockInv, RunInv, NEW r \in Requests, Fn(r)
  PROVE  SharedInv' /\ RequestInv' /\ LockInv'
  <1>1. req[r].at = "fn" /\ req[r].sess \in Sessions
    BY DEF Fn, RequestInv, Busy
  <1>2. SharedInv'
    <2>1. PICK o \in [err : {"nil", "closed", "error"}, ran : {0, 1}, conn : {"live", "dead"}] :
            /\ cl' = [cl EXCEPT ![req[r].sess] = o.conn]
            /\ sLock' = IF Retries(r, o.err) THEN sLock ELSE [sLock EXCEPT ![req[r].sess] = Nobody]
      BY FnMoves
    <2>2. /\ cl' \in [Sessions -> {"none", "live", "dead"}]
          /\ sLock' \in [Sessions -> Requests \cup {Nobody}]
      BY <1>1, <2>1 DEF SharedInv
    <2> QED
      BY <2>2 DEF Fn, SharedInv
  <1>3. RequestInv'
    BY <1>1, FnMoves DEF RequestInv, Busy, Others
  <1>4. LockInv'
    BY <1>1, FnMoves, SessionAssumption DEF LockInv, InPlace, Others, SharedInv
  <1> QED
    BY <1>2, <1>3, <1>4

(* A request begins.                                                       *)
LEMMA BeginMoves ==
  ASSUME RequestInv, NEW r \in Requests, NEW s \in Sessions
  PROVE  /\ Login(r, s) => req[r].at = "idle" /\ Begins(r, s, "insert")
         /\ \A k \in Kinds : Arrive(r, s, k) =>
               req[r].at = "idle" /\ Begins(r, s, "get") /\ req'[r].kind = k
  <1>1. Login(r, s) => req[r].at = "idle" /\ Begins(r, s, "insert")
    BY BeginType, PlaceNames DEF Login, Busy, RequestInv
  <1>2. ASSUME NEW k \in Kinds, Arrive(r, s, k)
        PROVE  req[r].at = "idle" /\ Begins(r, s, "get") /\ req'[r].kind = k
    BY <1>2, BeginType, PlaceNames DEF Arrive, Busy, RequestInv
  <1> QED
    BY <1>1, <1>2

LEMMA LoginStep ==
  ASSUME SessionInv, NEW r \in Requests, NEW s \in Sessions, Login(r, s)
  PROVE  SessionInv'
  <1> USE SessionAssumption DEF SessionInv
  <1>1. req[r].at = "idle" /\ Begins(r, s, "insert")
    BY BeginMoves
  <1>2. \A q \in Requests : req[q].at # "idle" => req[q].sess # s
    BY DEF Login, Fresh, Holding, Busy
  <1>3. SharedInv'
    BY DEF Login, SharedInv, Reaping, Limit
  <1>4. RequestInv'
    BY <1>1 DEF RequestInv, Begins, Others, Busy
  <1>5. LockInv'
    BY <1>1 DEF Login, LockInv, InPlace, Begins, Others
  <1>6. ConnInv'
    BY <1>1, <1>2 DEF Login, ConnInv, OneConnection, Begins, Others, SharedInv
  <1>7. RunInv'
    BY <1>1 DEF RunInv, Begins, Others
  <1>8. CloseInv'
    BY <1>1, <1>2 DEF Login, CloseInv, Accounted, InPlace, Begins, Others, SharedInv, Reaping
  <1> QED
    BY <1>3, <1>4, <1>5, <1>6, <1>7, <1>8

LEMMA ArriveStep ==
  ASSUME SessionInv, NEW r \in Requests, NEW s \in Sessions, NEW k \in Kinds, Arrive(r, s, k)
  PROVE  SessionInv'
  <1> USE SessionAssumption DEF SessionInv
  <1>1. req[r].at = "idle" /\ Begins(r, s, "get") /\ req'[r].kind = k
    BY BeginMoves
  <1>2. SharedInv'
    BY DEF Arrive, SharedInv
  <1>3. RequestInv'
    BY <1>1 DEF RequestInv, Begins, Others, Busy
  <1>4. LockInv'
    BY <1>1 DEF Arrive, LockInv, InPlace, Begins, Others
  <1>5. ConnInv'
    BY <1>1 DEF Arrive, ConnInv, OneConnection, Begins, Others
  <1>6. RunInv'
    BY <1>1 DEF RunInv, Begins, Others
  <1>7. CloseInv'
    BY <1>1 DEF Arrive, CloseInv, Accounted, InPlace, Begins, Others
  <1> QED
    BY <1>2, <1>3, <1>4, <1>5, <1>6, <1>7

(* The steps of the reaper and of the world touch no request.              *)
LEMMA QuietStep ==
  ASSUME SessionInv,
         \/ Reap \/ Tick
         \/ \E s \in Sessions : Break(s)
  PROVE  SessionInv'
  <1> USE SessionAssumption DEF SessionInv, SharedInv, RequestInv, LockInv, ConnInv,
          OneConnection, RunInv, CloseInv, Accounted, InPlace, Reaping, Busy
  <1>1. CASE Wake
    <2> DEFINE lapsed == {s \in Sessions : age[s] > IdleTicks}
    <2>1. /\ reaper.at = "sleep"
          /\ reaper' = [at |-> "lock", lapsed |-> lapsed, todo |-> {}, dead |-> {}]
      BY <1>1 DEF Wake, Asleep
    <2>2. lapsed \in SUBSET Sessions
      OBVIOUS
    <2> HIDE DEF lapsed
    <2>3. reaper' \in Reaping
      BY <2>1, <2>2
    <2>4. reaper'.at = "lock" /\ reaper'.dead = reaper.dead
      BY <2>1
    <2>5. UNCHANGED <<store, stLock, sLock, cl, open, age, req, seen, revived>>
      BY <1>1 DEF Wake
    <2>6. SharedInv'
      BY <2>1, <2>3, <2>4, <2>5
    <2>7. CloseInv'
      BY <2>4, <2>5
    <2> QED
      BY <2>5, <2>6, <2>7
  <1>2. CASE ReapLock
    <2>1. /\ reaper' \in Reaping
          /\ reaper'.at = "look" /\ reaper'.dead = reaper.dead
      BY <1>2 DEF ReapLock
    <2> QED
      BY <1>2, <2>1 DEF ReapLock
  <1>3. ASSUME NEW s \in Sessions, Look(s) PROVE SessionInv'
    <2>1. /\ reaper' \in Reaping
          /\ reaper'.at = reaper.at
          /\ store \cup reaper.dead \subseteq store' \cup reaper'.dead
          /\ store' \subseteq store
      <3>1. CASE Expired(s)
        <4>1. /\ reaper' = [[reaper EXCEPT !.todo = @ \ {s}] EXCEPT !.dead = @ \cup {s}]
              /\ store' = store \ {s} /\ s \in reaper.todo
          BY <1>3, <3>1 DEF Look
        <4> DEFINE g == [reaper EXCEPT !.todo = @ \ {s}]
        <4>2. g \in Reaping /\ g.at = reaper.at /\ g.dead = reaper.dead
          OBVIOUS
        <4>3. reaper' = [g EXCEPT !.dead = @ \cup {s}]
          BY <4>1
        <4> HIDE DEF g
        <4>4. reaper' \in Reaping /\ reaper'.at = reaper.at /\ reaper'.dead = reaper.dead \cup {s}
          BY <4>2, <4>3
        <4> QED
          BY <4>1, <4>4
      <3>2. CASE ~Expired(s)
        BY <1>3, <3>2 DEF Look
      <3> QED
        BY <3>1, <3>2
    <2> QED
      BY <1>3, <2>1 DEF Look
  <1>4. CASE LookedAtAll
    BY <1>4 DEF LookedAtAll, AfterLook
  <1>5. ASSUME NEW s \in Sessions, ReapClose(s) PROVE SessionInv'
    BY <1>5 DEF ReapClose, CloseReaped, Close
  <1>6. CASE ReapDone
    BY <1>6 DEF ReapDone, Asleep
  <1>7. ASSUME NEW s \in Sessions, Break(s) PROVE SessionInv'
    BY <1>7 DEF Break
  <1>8. CASE Tick
    BY <1>8 DEF Tick, Older, Limit
  <1> QED
    BY <1>1, <1>2, <1>3, <1>4, <1>5, <1>6, <1>7, <1>8 DEF Reap

(* The connections of a session are those it knows.                       *)
LEMMA HandleConn ==
  ASSUME SessionInv, NEW r \in Requests, Handle(r)
  PROVE  ConnInv'
  <1> USE SessionAssumption DEF SessionInv, ConnInv, OneConnection
  <1>1. \A q \in Requests \ {r} : req'[q].at = req[q].at /\ req'[q].sess = req[q].sess
    BY HandleMoves, FnMoves DEF Handle, Ends, Moves, Others
  <1>2. CASE Insert(r) \/ Get(r) \/ CheckAdmin(r) \/ Render(r) \/ Delete(r)
    <2>1. UNCHANGED <<cl, open>> /\ req'[r].at # "fn"
      BY <1>2, HandleMoves DEF Insert, Get, CheckAdmin, Render, Delete, Ends, Moves
    <2> QED
      BY <1>1, <2>1
  <1>3. CASE LogoutClose(r)
    <2> DEFINE s == req[r].sess
    <2>1. /\ req'[r].at # "fn" /\ s \in Sessions /\ sLock[s] = Nobody
          /\ cl' = [cl EXCEPT ![s] = "none"]
          /\ open' = [open EXCEPT ![s] = IF cl[s] = "none" THEN @ ELSE @ - 1]
      BY <1>3, HandleMoves DEF LogoutClose, CloseDeleted, Close, Ends, RequestInv, Busy
    <2>2. \A q \in Requests : req[q].at = "fn" => req[q].sess # s
      BY <2>1 DEF LockInv, InPlace
    <2> HIDE DEF s
    <2> QED
      BY <1>1, <2>1, <2>2 DEF SharedInv
  <1>4. CASE DoLock(r)
    <2>1. UNCHANGED <<cl, open>>
      BY <1>4 DEF DoLock
    <2>2. /\ req'[r].sess = req[r].sess
          /\ req'[r].at = "fn" => cl[req[r].sess] # "none"
      BY <1>4, GotoMoves, PlaceNames DEF DoLock, Moves, RequestInv
    <2> QED
      BY <1>1, <2>1, <2>2
  <1>5. CASE RedialOK(r) \/ RedialFails(r) \/ Fn(r)
    <2> DEFINE s == req[r].sess
    <2>1. req[r].at \in {"redial", "fn"} /\ s \in Sessions
      BY <1>5 DEF RedialOK, RedialFails, Fn, RequestInv, Busy
    <2>2. \A q \in Requests \ {r} : req[q].at = "fn" => req[q].sess # s
      BY <2>1 DEF LockInv, InPlace
    <2>3. CASE RedialOK(r)
      <3>1. /\ cl' = [cl EXCEPT ![s] = "live"]
            /\ open' = [open EXCEPT ![s] = @ - CloseOld(s) + 1]
            /\ req'[r].sess = s
        BY <2>3, HandleMoves DEF RedialOK, Moves
      <3> HIDE DEF s
      <3> QED
        BY <1>1, <2>1, <2>2, <3>1 DEF SharedInv, CloseOld
    <2>4. CASE RedialFails(r)
      <3>1. /\ cl' = [cl EXCEPT ![s] = "none"]
            /\ open' = [open EXCEPT ![s] = @ - CloseOld(s)]
            /\ req'[r].at # "fn"
        BY <2>4, HandleMoves DEF RedialFails, Moves
      <3> HIDE DEF s
      <3> QED
        BY <1>1, <2>1, <2>2, <3>1 DEF SharedInv, CloseOld
    <2>5. CASE Fn(r)
      <3>1. PICK conn \in {"live", "dead"} : cl' = [cl EXCEPT ![s] = conn]
        BY <2>5, FnMoves
      <3>2. cl[s] # "none" /\ open' = open /\ req'[r].at # "fn"
        BY <2>5, FnMoves DEF Fn
      <3> HIDE DEF s
      <3> QED
        BY <1>1, <2>1, <2>2, <3>1, <3>2 DEF SharedInv
    <2> QED
      BY <1>5, <2>3, <2>4, <2>5
  <1> QED
    BY <1>2, <1>3, <1>4, <1>5 DEF Handle

(* Tries and runs keep in step.                                            *)
LEMMA HandleRun ==
  ASSUME SessionInv, NEW r \in Requests, Handle(r)
  PROVE  RunInv'
  <1> USE DEF SessionInv
  <1> DEFINE Before == {"get", "check", "do"}
             Within == Before \cup {"redial", "fn"}
             Fine(q) == /\ q.ran <= 1 \/ q.lost
                        /\ q.at \in Before => q.try = 1
                        /\ q.at \in Within => q.ran <= q.try - 1 /\ (q.ran > 0 => q.lost)
  <1>1. \A q \in Requests : Fine(req[q]) /\ req[q] \in Request
    BY DEF RunInv, RequestInv
  <1>2. Others(r) /\ Fine(req'[r])
    <2>1. CASE Fn(r)
      <3>1. req[r].at = "fn" /\ Fine(req[r]) /\ req[r] \in Request
        BY <1>1, <2>1 DEF Fn
      <3>2. PICK o \in [err : {"nil", "closed", "error"}, ran : {0, 1}, conn : {"live", "dead"}] :
              /\ o.err = "closed" => o.conn = "dead"
              /\ req'[r].at = IF Retries(r, o.err) THEN "redial" ELSE "render"
              /\ req'[r].try = IF Retries(r, o.err) THEN 2 ELSE req[r].try
              /\ req'[r].ran = req[r].ran + o.ran
              /\ req'[r].lost = (req[r].lost \/ (o.ran = 1 /\ o.conn = "dead"))
        BY <2>1, FnMoves
      <3>3. req'[r].ran <= 1 \/ req'[r].lost
        BY <3>1, <3>2 DEF Request
      <3>4. req'[r].at \in Before => req'[r].try = 1
        BY <3>2
      <3>5. ASSUME req'[r].at \in Within
            PROVE  req'[r].ran <= req'[r].try - 1 /\ (req'[r].ran > 0 => req'[r].lost)
        <4>1. Retries(r, o.err)
          BY <3>2, <3>5
        <4>2. req[r].try = 1 /\ o.conn = "dead" /\ req'[r].try = 2
          BY <3>2, <4>1 DEF Retries
        <4>3. req'[r].ran <= 1
          BY <3>1, <3>2, <4>2 DEF Request
        <4>4. req[r].lost \/ o.ran = 1 => req'[r].lost
          BY <3>2, <4>2, Zenon
        <4>5. req'[r].ran > 0 => req[r].lost \/ o.ran = 1
          BY <3>1, <3>2, <4>2 DEF Request
        <4> QED
          BY <4>2, <4>3, <4>4, <4>5
      <3> QED
        BY <2>1, FnMoves, <3>3, <3>4, <3>5
    <2>2. CASE Handle(r) /\ ~Fn(r)
      <3>1. \/ Ends(r)
            \/ \E at \in Places : /\ Moves(r, at)
                                  /\ at \in Within => req[r].at \in Within
                                  /\ at \in Before => req[r].at \in Before
        BY <2>2, HandleMoves, PlaceNames DEF Handle, Get, CheckAdmin, Delete, DoLock, RedialOK,
           RedialFails
      <3> QED
        BY <1>1, <3>1 DEF Ends, Moves
    <2> QED
      BY <2>1, <2>2
  <1> QED
    BY <1>1, <1>2 DEF RunInv, Others

(* No connection is left to nobody.                                        *)
LEMMA HandleClose ==
  ASSUME SessionInv, NEW r \in Requests, Handle(r), NEW s \in Sessions
  PROVE  Accounted(s)' \/ (open'[s] = 0 /\ \A q \in Requests : ~InPlace(q, {"redial", "fn"}, s)')
  <1> USE DEF SessionInv
  <1> DEFINE z == req[r].sess
             Idles == open[s] = 0 /\ \A q \in Requests : ~InPlace(q, {"redial", "fn"}, s)
  <1>1. \A q \in Requests \ {r} : req'[q].at = req[q].at /\ req'[q].sess = req[q].sess
    BY HandleMoves, FnMoves DEF Handle, Ends, Moves, Others
  <1>2. Accounted(s) \/ Idles
    BY DEF CloseInv
  <1>3. z \in Sessions
    BY DEF Handle, Insert, Get, CheckAdmin, Render, Delete, LogoutClose, DoLock, RedialOK,
       RedialFails, Fn, RequestInv, Busy
  <1>4. CASE Insert(r)
    <2>1. /\ store' = store \cup {z} /\ UNCHANGED <<reaper, revived, open>>
          /\ req[r].at = "insert" /\ req'[r].at = "idle"
      BY <1>4, HandleMoves DEF Insert, Ends
    <2> HIDE DEF z
    <2>2. CASE s = z
      BY <2>1, <2>2 DEF Accounted
    <2>3. CASE s # z
      <3>1. Accounted(s) => Accounted(s)'
        BY <1>1, <2>1, <2>3 DEF Accounted, InPlace, z
      <3>2. Idles => Idles'
        BY <1>1, <2>1 DEF InPlace
      <3> QED
        BY <1>2, <3>1, <3>2
    <2> QED
      BY <2>2, <2>3
  <1>5. CASE Delete(r)
    <2>1. /\ UNCHANGED <<reaper, revived, open>>
          /\ req[r].at = "delete" /\ req'[r].at \in {"idle", "close"}
      BY <1>5, HandleMoves DEF Delete, Ends, Moves
    <2>2. CASE s = z /\ z \in store
      <3>1. Moves(r, "close")
        BY <1>5, <2>2, GotoMoves, PlaceNames DEF Delete, RequestInv
      <3> QED
        BY <2>2, <3>1 DEF Accounted, InPlace, Moves
    <2>3. CASE s # z \/ z \notin store
      <3>1. s \in store => s \in store'
        BY <1>5, <2>3 DEF Delete
      <3>2. Accounted(s) => Accounted(s)'
        BY <1>1, <2>1, <3>1 DEF Accounted, InPlace
      <3>3. Idles => Idles'
        BY <1>1, <2>1 DEF InPlace
      <3> QED
        BY <1>2, <3>2, <3>3
    <2> QED
      BY <2>2, <2>3
  <1>6. CASE LogoutClose(r)
    <2>1. /\ UNCHANGED <<store, reaper, revived>>
          /\ sLock[z] = Nobody
          /\ open' = [open EXCEPT ![z] = IF cl[z] = "none" THEN @ ELSE @ - 1]
          /\ req[r].at = "close" /\ req'[r].at = "idle"
      BY <1>6, HandleMoves DEF LogoutClose, CloseDeleted, Close, Ends
    <2>2. CASE s = z
      <3>1. open'[z] = 0
        BY <1>3, <2>1 DEF ConnInv, OneConnection, SharedInv
      <3>2. \A q \in Requests : ~InPlace(q, {"redial", "fn"}, z)
        BY <1>3, <2>1, SessionAssumption DEF LockInv
      <3> QED
        BY <1>1, <2>1, <2>2, <3>1, <3>2 DEF InPlace
    <2>3. CASE s # z
      <3>1. Accounted(s) => Accounted(s)'
        BY <1>1, <2>1, <2>3 DEF Accounted, InPlace
      <3>2. Idles => Idles'
        BY <1>1, <1>3, <2>1, <2>3 DEF InPlace, SharedInv
      <3> QED
        BY <1>2, <3>1, <3>2
    <2> QED
      BY <2>2, <2>3
  <1>7. CASE DoLock(r)
    <2>1. /\ UNCHANGED <<store, open>> /\ reaper'.dead = reaper.dead
          /\ revived \subseteq revived' /\ (z \notin store => z \in revived')
          /\ req[r].at = "do" /\ req'[r].sess = z
      BY <1>7, HandleMoves DEF DoLock, Moves, SharedInv, Reaping
    <2>2. CASE s = z
      BY <2>1, <2>2 DEF Accounted
    <2>3. CASE s # z
      <3>1. Accounted(s) => Accounted(s)'
        BY <1>1, <2>1 DEF Accounted, InPlace
      <3>2. Idles => Idles'
        BY <1>1, <2>1, <2>3 DEF InPlace
      <3> QED
        BY <1>2, <3>1, <3>2
    <2> QED
      BY <2>2, <2>3
  <1>8. CASE RedialOK(r) \/ RedialFails(r) \/ Fn(r)
    <2>1. /\ UNCHANGED <<store, reaper, revived>>
          /\ s # z => open'[s] = open[s]
          /\ req[r].at \in {"redial", "fn"}
      BY <1>3, <1>8 DEF RedialOK, RedialFails, Fn, SharedInv
    <2>2. req'[r].sess = z
      BY <1>8, HandleMoves, FnMoves DEF Moves
    <2>3. Accounted(s) => Accounted(s)'
      BY <1>1, <2>1 DEF Accounted, InPlace
    <2>4. CASE s = z
      BY <1>2, <2>1, <2>3, <2>4 DEF InPlace
    <2>5. CASE s # z
      <3>1. Idles => Idles'
        BY <1>1, <2>1, <2>2, <2>5 DEF InPlace
      <3> QED
        BY <1>2, <2>3, <3>1
    <2> QED
      BY <2>4, <2>5
  <1>9. CASE Get(r) \/ CheckAdmin(r) \/ Render(r)
    <2>1. UNCHANGED <<store, reaper, revived, open>>
      BY <1>9 DEF Get, CheckAdmin, Render
    <2>2. /\ req[r].at \notin {"insert", "close"}
          /\ req'[r].at \notin {"redial", "fn"}
      BY <1>9, HandleMoves DEF Get, CheckAdmin, Render, Ends, Moves
    <2>3. Accounted(s) => Accounted(s)'
      BY <1>1, <2>1, <2>2 DEF Accounted, InPlace
    <2>4. Idles => Idles'
      BY <1>1, <2>1, <2>2 DEF InPlace
    <2> QED
      BY <1>2, <2>3, <2>4
  <1> QED
    BY <1>4, <1>5, <1>6, <1>7, <1>8, <1>9 DEF Handle

-----------------------------------------------------------------------------
(* The invariant holds.                                                    *)

LEMMA InitInv == Init => SessionInv
  <1> SUFFICES ASSUME Init PROVE SessionInv
    OBVIOUS
  <1> USE SessionAssumption, FreeType DEF Init
  <1>1. SharedInv
    BY DEF SharedInv, Asleep, Reaping, Limit
  <1>2. RequestInv
    BY DEF RequestInv, Busy
  <1>3. LockInv
    BY DEF LockInv, InPlace
  <1>4. ConnInv
    BY DEF ConnInv, OneConnection
  <1>5. RunInv
    BY DEF RunInv
  <1>6. CloseInv
    BY DEF CloseInv, InPlace
  <1> QED
    BY <1>1, <1>2, <1>3, <1>4, <1>5, <1>6 DEF SessionInv

LEMMA NextInv == SessionInv /\ [Next]_vars => SessionInv'
  <1> SUFFICES ASSUME SessionInv, [Next]_vars PROVE SessionInv'
    OBVIOUS
  <1>1. ASSUME NEW r \in Requests, Handle(r) PROVE SessionInv'
    <2>1. SharedInv' /\ RequestInv' /\ LockInv'
      BY <1>1, FnTypes, HandleShared, HandleRequest, HandleLock DEF SessionInv
    <2> QED
      BY <1>1, <2>1, HandleConn, HandleRun, HandleClose DEF SessionInv, CloseInv
  <1>2. ASSUME NEW r \in Requests, NEW s \in Sessions,
               Login(r, s) \/ \E k \in Kinds : Arrive(r, s, k)
        PROVE  SessionInv'
    BY <1>2, LoginStep, ArriveStep
  <1>3. CASE Reap \/ Tick \/ \E s \in Sessions : Break(s)
    BY <1>3, QuietStep
  <1>4. CASE UNCHANGED vars
    BY <1>4 DEF vars, SessionInv, SharedInv, RequestInv, LockInv, ConnInv, OneConnection, RunInv,
       CloseInv, Accounted, InPlace, Busy
  <1> QED
    BY <1>1, <1>2, <1>3, <1>4 DEF Next

LEMMA SessionInvariant == Spec => []SessionInv
  BY InitInv, NextInv, PTL DEF Spec

(* The locks are held by whom they should be, the reaper and each request  *)
(* are where they can be, and every variable keeps its type (session.go).  *)
THEOREM TypeCorrect == Spec => []TypeOK
  <1>1. SessionInv => TypeOK
    BY DEF SessionInv, SharedInv, RequestInv, LockInv, InPlace, Request, Reaping, TypeOK
  <1> QED
    BY <1>1, SessionInvariant, PTL

(* However many requests, sessions and rounds of the reaper interleave, a  *)
(* session has at most one connection, and it is the one it knows          *)
(* (session.go:72-100).                                                    *)
THEOREM NoConnectionLost == Spec => []OneConnection
  <1>1. SessionInv => OneConnection
    BY DEF SessionInv, ConnInv
  <1> QED
    BY <1>1, SessionInvariant, PTL

(* A retry repeats a command only if the connection broke after soju had   *)
(* carried it out (session.go:71-77).                                      *)
THEOREM RetriesAreSafe == Spec => []RunOnce
  <1>1. SessionInv => RunOnce
    BY DEF SessionInv, RunInv, RunOnce
  <1> QED
    BY <1>1, SessionInvariant, PTL

(* A connection outlives its session's place in the store only while       *)
(* someone is at work with the session, or if a Do began too late          *)
(* (session.go:144-151, 163-171).                                          *)
THEOREM ConnectionsEndWithSessions == Spec => []ClosedWithSession
  <1>1. SessionInv => ClosedWithSession
    BY DEF SessionInv, CloseInv, Accounted, InPlace, ClosedWithSession, Holding, Busy
  <1> QED
    BY <1>1, SessionInvariant, PTL
=============================================================================
