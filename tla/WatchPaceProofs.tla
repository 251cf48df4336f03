-------------------------- MODULE WatchPaceProofs --------------------------
(***************************************************************************)
(* The pace and the order of the watcher's attempts, for every set of      *)
(* networks, channels and files, every cooldown and every number of        *)
(* faults.  What a state file says is compared with what really happened.  *)
(***************************************************************************)
EXTENDS WatchProofs

(* How far a state s accounts for the attempts h at a nick, with b of them *)
(* allowed without a pause and f faults so far.  Without faults the state  *)
(* never counts an attempt that was not made.                              *)
Ordered(b, f, h, s) ==
    /\ s.NickStep <= b
    /\ f = 0 => s.NickStep <= h.tries

(* All attempts but b for each fault are counted by a state that knows the *)
(* last one, and there are no others if it does not.                       *)
Counts(b, f, h, s) ==
    h.burst <= b * f + (IF s.NickLast = h.since THEN s.NickStep ELSE 0)

Covers(b, f, h, s) == Ordered(b, f, h, s) /\ Counts(b, f, h, s)

(* The same of the requests h for op in a channel, the last of which the   *)
(* state dates to age ago.                                                 *)
CoversOp(f, h, age) == h.burst <= f + (IF age = h.since THEN 1 ELSE 0)

(* What is forgotten when a nick or an op is seen in place is made up for  *)
(* when it is lost: until then a state need not account for it.            *)
KeepsNick(n, s) ==
    /\ Ordered(Budget(n), faults, hist[n], s)
    /\ hist[n].burst <= Budget(n) * faults + Budget(n)
    /\ nick[n] = "wanted" \/ Counts(Budget(n), faults, hist[n], s)

KeepsOps(n, dates) ==
    \A c \in Channels :
        /\ opHist[n][c].burst <= faults + 1
        /\ c \in ops[n] \/ CoversOp(faults, opHist[n][c], dates[c])

(* OpLast of the state in memory, brought up to date.                      *)
Dates == [c \in Channels |-> Later(st.OpLast[c], lag)]

Keeps(n, s) == KeepsNick(n, s) /\ KeepsOps(n, s.OpLast)

(* While a network is checked its file is out of date, and the state in    *)
(* memory counts.  Over a connection that was welcomed with another nick   *)
(* there may be attempts, whatever becomes of the nick meanwhile; over one *)
(* that was welcomed with the wanted nick there are none, should it be     *)
(* lost meanwhile.                                                         *)
Memory ==
    /\ KeepsNick(cur, st)
    /\ current = "other" => Counts(Budget(cur), faults, hist[cur], st)
    /\ current = "other" \/ nick[cur] = "wanted" \/ hist[cur].burst = 0
    /\ KeepsOps(cur, Dates)

Ledger ==
    /\ Checking => Memory
    /\ \A n \in Networks : (Checking /\ n = cur) \/ Keeps(n, disk[StateFile[n]])

LedgerInv ==
    /\ pc \in {"recover", "tell"} => cur \notin Reconnect
    /\ pc = "reclaim" => cur \in Reconnect
    /\ pc \in {"recover", "reclaim"} => current = "other"
    /\ pc # "ops" => lag = 0
    /\ \A n \in Networks : disk[StateFile[n]].NickStep <= Budget(n)
    /\ Ledger

-----------------------------------------------------------------------------
(* Covers, from step to step.                                              *)

LEMMA BudgetTimes ==
  ASSUME NEW n \in Networks, NEW f \in Nat
  PROVE  /\ Budget(n) \in 1..MaxSteps
         /\ n \in Reconnect => Budget(n) = 1
         /\ n \notin Reconnect => Budget(n) = MaxSteps
         /\ Budget(n) * f \in Nat
         /\ Budget(n) * (f + 1) = Budget(n) * f + Budget(n)
         /\ Budget(n) * (1 + f) = Budget(n) * f + Budget(n)
  <1>1. CASE n \in Reconnect
    BY <1>1 DEF Budget, MaxSteps
  <1>2. CASE n \notin Reconnect
    BY <1>2 DEF Budget, MaxSteps
  <1> QED
    BY <1>1, <1>2

(* Time passes for the state and for the history alike. *)
LEMMA ElapsedType ==
  ASSUME NEW h \in Hist
  PROVE  /\ Elapsed(h) \in Hist
         /\ Elapsed(h).unanswered = h.unanswered
         /\ Elapsed(h).burst = h.burst
         /\ Elapsed(h).since = Older(h.since)
         /\ Elapsed(h).tries = h.tries
  <1>1. Older(h.since) \in Age
    BY OlderType DEF Hist
  <1> QED
    BY <1>1 DEF Elapsed, Hist

LEMMA ElapsedOp ==
  ASSUME NEW h \in OpHist
  PROVE  /\ Elapsed(h).burst = h.burst
         /\ Elapsed(h).since = Older(h.since)
  BY DEF Elapsed, OpHist

LEMMA AgedKeeps ==
  ASSUME NEW n \in Networks, NEW f \in Nat, NEW h \in Hist,
         NEW s \in WatchState, NEW t \in WatchState,
         t.NickStep = s.NickStep, t.NickLast = Older(s.NickLast)
  PROVE  /\ Ordered(Budget(n), f, h, s) => Ordered(Budget(n), f, Elapsed(h), t)
         /\ Counts(Budget(n), f, h, s) => Counts(Budget(n), f, Elapsed(h), t)
  <1>1. /\ Budget(n) * f \in Nat
        /\ s.NickStep \in 0..MaxSteps
        /\ h.burst \in Nat
    BY BudgetTimes DEF WatchState, Hist
  <1>2. s.NickLast = h.since => t.NickLast = Elapsed(h).since
    BY ElapsedType
  <1> QED
    BY <1>1, <1>2, ElapsedType DEF Ordered, Counts, MaxSteps

(* Nothing was tried since the nick was lost, or nothing is remembered.    *)
LEMMA NothingTried ==
  ASSUME NEW n \in Networks, NEW f \in Nat, NEW h \in Hist, NEW s \in WatchState
  PROVE  /\ h.burst = 0 => Counts(Budget(n), f, h, s)
         /\ s.NickStep = 0 => Ordered(Budget(n), f, h, s)
         /\ Counts(Budget(n), f, h, s) /\ s.NickStep <= Budget(n)
              => h.burst <= Budget(n) * f + Budget(n)
  <1>1. /\ Budget(n) * f \in Nat
        /\ Budget(n) \in 1..MaxSteps
        /\ h.tries \in 0..MaxSteps /\ h.burst \in Nat /\ s.NickStep \in 0..MaxSteps
    BY BudgetTimes DEF Hist, WatchState
  <1> QED
    BY <1>1 DEF Ordered, Counts, MaxSteps

(* The attempt a state allows is one more than those it counts, or the     *)
(* first after a pause.                                                    *)
LEMMA AttemptCovers ==
  ASSUME NEW n \in Networks, NEW f \in Nat, NEW h \in Hist, NEW s \in WatchState,
         NEW step \in 1..MaxSteps, step <= Budget(n),
         Covers(Budget(n), f, h, s),
         \/ step = s.NickStep + 1
         \/ step = 1 /\ s.NickLast = Cooldown
  PROVE  Covers(Budget(n), f, Attempted(h), Tried(s, step))
  <1>1. /\ Budget(n) * f \in Nat
        /\ s.NickStep \in 0..MaxSteps /\ s.NickLast \in Age
        /\ h.burst \in Nat /\ h.since \in Age /\ h.tries \in 0..MaxSteps
        /\ Cooldown \in Nat \ {0}
    BY BudgetTimes, WatchAssumption DEF WatchState, Hist
  <1>2. /\ Tried(s, step).NickStep = step
        /\ Tried(s, step).NickLast = 0
        /\ Attempted(h).burst = Paced(h)
        /\ Attempted(h).since = 0
        /\ Attempted(h).tries = Saturate(h.tries, MaxSteps)
    BY TriedType, AttemptedType
  <1>3. Paced(h) <= Budget(n) * f + step
    <2>1. CASE h.since = Cooldown
      BY <1>1, <2>1 DEF Paced, MaxSteps
    <2>2. CASE h.since < Cooldown /\ s.NickLast = Cooldown
      BY <1>1, <2>2 DEF Paced, Covers, Counts, MaxSteps
    <2>3. CASE h.since < Cooldown /\ step = s.NickStep + 1
      BY <1>1, <2>3 DEF Paced, Covers, Counts, MaxSteps
    <2> QED
      BY <1>1, <2>1, <2>2, <2>3 DEF Age
  <1>4. f = 0 => step <= Saturate(h.tries, MaxSteps)
    BY <1>1 DEF Covers, Ordered, Saturate, MaxSteps
  <1> QED
    BY <1>2, <1>3, <1>4 DEF Covers, Ordered, Counts

(* A fault may lose the memory of as many attempts as there may be.        *)
LEMMA FaultForgets ==
  ASSUME NEW n \in Networks, NEW f \in Nat, NEW h \in Hist, NEW t \in WatchState,
         h.burst <= Budget(n) * f + Budget(n), t.NickStep <= Budget(n)
  PROVE  /\ Ordered(Budget(n), f + 1, h, t)
         /\ Counts(Budget(n), f + 1, h, t)
         /\ h.burst <= Budget(n) * (f + 1) + Budget(n)
  <1>1. /\ Budget(n) * (f + 1) = Budget(n) * f + Budget(n)
        /\ Budget(n) * f \in Nat /\ Budget(n) \in 1..MaxSteps
        /\ t.NickStep \in 0..MaxSteps /\ h.burst \in Nat
    BY BudgetTimes DEF WatchState, Hist
  <1> DEFINE bound == Budget(n) * (f + 1)
  <1>2. h.burst <= bound /\ bound \in Nat
    BY <1>1 DEF MaxSteps
  <1> HIDE DEF bound
  <1>3. h.burst <= bound + (IF t.NickLast = h.since THEN t.NickStep ELSE 0)
    BY <1>1, <1>2 DEF MaxSteps
  <1>4. h.burst <= bound + Budget(n)
    BY <1>1, <1>2 DEF MaxSteps
  <1> QED
    BY <1>3, <1>4 DEF Ordered, Counts, bound

-----------------------------------------------------------------------------
(* The ledger holds at all times.                                          *)

LEMMA LedgerTypes ==
  ASSUME TypeInv
  PROVE  /\ cur \in Networks /\ st \in WatchState
         /\ StateFile \in [Networks -> Files] /\ disk \in [Files -> WatchState]
         /\ \A n \in Networks : disk[StateFile[n]] \in WatchState
         /\ hist \in [Networks -> Hist] /\ opHist \in [Networks -> [Channels -> OpHist]]
         /\ faults \in Nat
         /\ Cooldown \in Nat \ {0} /\ 0 \in Age /\ Cooldown \in Age
  BY WatchAssumption DEF TypeInv, TypeOK, Age

LEMMA LedgerInit == Init => LedgerInv
  <1> SUFFICES ASSUME Init PROVE LedgerInv
    OBVIOUS
  <1>1. /\ faults = 0 /\ pc = "sleep" /\ lag = 0
        /\ Zero \in WatchState /\ Zero.NickStep = 0 /\ NoHist \in Hist /\ NoHist.burst = 0
    BY ZeroType, NoHistType DEF Init, Zero, NoHist
  <1>2. ASSUME NEW n \in Networks
        PROVE  /\ disk[StateFile[n]] = Zero /\ hist[n] = NoHist
               /\ opHist[n] = [c \in Channels |-> NoOpHist]
    BY WatchAssumption DEF Init
  <1>3. ASSUME NEW n \in Networks
        PROVE  /\ Ordered(Budget(n), faults, NoHist, Zero)
               /\ Counts(Budget(n), faults, NoHist, Zero)
               /\ NoHist.burst <= Budget(n) * faults + Budget(n)
               /\ Zero.NickStep <= Budget(n)
    <2>1. Zero.NickStep <= Budget(n) /\ faults \in Nat
      BY <1>1 DEF Budget, MaxSteps
    <2> QED
      BY <1>1, <2>1, NothingTried
  <1>4. ASSUME NEW n \in Networks PROVE Keeps(n, disk[StateFile[n]])
    <2>1. KeepsNick(n, disk[StateFile[n]])
      BY <1>2, <1>3 DEF KeepsNick
    <2>2. KeepsOps(n, disk[StateFile[n]].OpLast)
      BY <1>1, <1>2 DEF KeepsOps, CoversOp, NoOpHist
    <2> QED
      BY <2>1, <2>2 DEF Keeps
  <1> QED
    BY <1>1, <1>2, <1>3, <1>4 DEF LedgerInv, Ledger, Checking

(* Between rounds of channels nothing has to be brought up to date.        *)
LEMMA DatesNow ==
  ASSUME st \in WatchState, lag = 0
  PROVE  \A c \in Channels : Dates[c] = st.OpLast[c]
  BY LaterType DEF Dates, WatchState

(* A step within a check: only the network being checked is concerned, and *)
(* a dry run concerns nobody.                                              *)
LEMMA CheckStep ==
  ASSUME TypeInv, LedgerInv,
         pc \notin {"sleep", "pass"}, pc' \notin {"sleep", "pass"},
         UNCHANGED <<disk, cur, current, dry, faults, nick, ops>>,
         pc' \in {"recover", "tell"} => cur \notin Reconnect,
         pc' = "reclaim" => cur \in Reconnect,
         pc' \in {"recover", "reclaim"} => current = "other",
         pc' # "ops" => lag' = 0,
         \A n \in Networks : dry \/ n # cur
                                => hist'[n] = hist[n] /\ opHist'[n] = opHist[n],
         ~dry => Memory'
  PROVE  LedgerInv'
  <1>1. \A n \in Networks : dry \/ n # cur
           => (Keeps(n, disk[StateFile[n]]) => Keeps(n, disk[StateFile[n]])')
    BY DEF Keeps, KeepsNick, KeepsOps
  <1>2. \A n \in Networks : (Checking /\ n = cur)' \/ Keeps(n, disk[StateFile[n]])'
    BY <1>1 DEF LedgerInv, Ledger, Checking
  <1>3. Checking' => Memory'
    BY DEF Checking
  <1> QED
    BY <1>2, <1>3 DEF LedgerInv, Ledger, Budget

(* Between two checks nothing changes but who is checked.                  *)
LEMMA BetweenStep ==
  ASSUME TypeInv, LedgerInv,
         \/ Run
         \/ EndPass
         \/ \E n \in Networks : Bind(n) \/ BindFails(n)
         \/ UNCHANGED vars
  PROVE  LedgerInv'
  <1>1. UNCHANGED <<disk, lag, faults, nick, ops, hist, opHist>>
    BY DEF Run, EndPass, Bind, BindFails, vars, watcher, world
  <1>2. \A n \in Networks : Keeps(n, disk[StateFile[n]]) => Keeps(n, disk[StateFile[n]])'
    BY <1>1 DEF Keeps, KeepsNick, KeepsOps
  <1>3. \A n \in Networks : disk'[StateFile[n]].NickStep <= Budget(n)
    BY <1>1 DEF LedgerInv
  <1>4. CASE UNCHANGED vars
    <2>1. UNCHANGED <<pc, cur, current, st, lag, dry>>
      BY <1>4 DEF vars, watcher
    <2>2. Memory => Memory'
      BY <1>1, <2>1 DEF Memory, KeepsNick, KeepsOps, Dates, Budget
    <2> QED
      BY <1>1, <1>2, <2>1, <2>2, <1>3 DEF LedgerInv, Ledger, Checking, Budget
  <1>5. CASE Run \/ EndPass
    BY <1>1, <1>2, <1>3, <1>5 DEF Run, EndPass, LedgerInv, Ledger, Checking, Budget
  <1>6. ASSUME NEW n \in Networks, BindFails(n) PROVE LedgerInv'
    BY <1>1, <1>2, <1>3, <1>6 DEF BindFails, LedgerInv, Ledger, Checking, Budget
  <1>7. ASSUME NEW n \in Networks, Bind(n) PROVE LedgerInv'
    <2>1. /\ pc = "pass" /\ pc' = "probe" /\ lag' = 0
          /\ cur' = n /\ st' = disk[StateFile[n]] /\ current' = nick[n]
      BY <1>1, <1>7 DEF Bind, LedgerInv
    <2>2. Keeps(n, disk[StateFile[n]]) /\ disk[StateFile[n]] \in WatchState
      BY <2>1, LedgerTypes DEF LedgerInv, Ledger, Checking
    <2>3. KeepsNick(n, disk[StateFile[n]]) /\ KeepsOps(n, disk[StateFile[n]].OpLast)
      BY <2>2 DEF Keeps
    <2>4. KeepsNick(cur, st)'
      BY <1>1, <2>1, <2>3 DEF KeepsNick, Budget
    <2>5. KeepsOps(cur, Dates)'
      <3>1. \A c \in Channels : Dates'[c] = disk[StateFile[n]].OpLast[c]
        BY <2>1, <2>2, LaterType DEF Dates, WatchState
      <3> QED
        BY <1>1, <2>1, <2>3, <3>1 DEF KeepsOps
    <2>6. current' = "other" => Counts(Budget(n), faults, hist[n], disk[StateFile[n]])
      BY <2>1, <2>3 DEF KeepsNick
    <2>61. (current = "other" \/ nick[cur] = "wanted")'
      BY <1>1, <2>1, <1>7, LedgerTypes DEF TypeInv, TypeOK
    <2>7. Memory'
      BY <1>1, <2>1, <2>4, <2>5, <2>6, <2>61 DEF Memory, Budget
    <2>8. \A m \in Networks : Keeps(m, disk[StateFile[m]])'
      BY <1>2, <2>1 DEF LedgerInv, Ledger, Checking
    <2> QED
      BY <1>3, <2>1, <2>7, <2>8 DEF LedgerInv, Ledger, Budget
  <1> QED
    BY <1>4, <1>5, <1>6, <1>7

(* What is lost is made up for.                                            *)
LEMMA WorldStep ==
  ASSUME TypeInv, LedgerInv, World
  PROVE  LedgerInv'
  <1>0. /\ UNCHANGED <<disk, watcher, faults>>
        /\ UNCHANGED <<pc, cur, current, st, lag, dry>>
    BY DEF World, LinkChanges, NickChanges, OpsChange, watcher
  <1>01. /\ hist \in [Networks -> Hist] /\ nick \in [Networks -> {"wanted", "other"}]
         /\ ops \in [Networks -> SUBSET Channels] /\ faults \in Nat
         /\ opHist \in [Networks -> [Channels -> OpHist]]
    BY LedgerTypes DEF TypeInv, TypeOK
  <1>02. PICK n \in Networks : LinkChanges(n) \/ NickChanges(n) \/ OpsChange(n)
    BY DEF World
  <1>1. \/ UNCHANGED <<nick, hist>>
        \/ \E k \in {"wanted", "other"} : Becomes(n, k)
    BY <1>02 DEF LinkChanges, NickChanges, OpsChange
  <1>2. ASSUME NEW m \in Networks
        PROVE  \/ nick'[m] = nick[m] /\ hist'[m] = hist[m]
               \/ nick'[m] = "wanted" /\ hist'[m] = hist[m]
               \/ hist'[m] = LostAnew(hist[m])
    BY <1>01, <1>1 DEF Becomes
  <1>3. ASSUME NEW m \in Networks, NEW s \in WatchState
        PROVE  /\ KeepsNick(m, s) => KeepsNick(m, s)'
               /\ Counts(Budget(m), faults, hist[m], s)
                    => Counts(Budget(m), faults, hist'[m], s)
    <2>1. CASE hist'[m] = hist[m] /\ (nick'[m] = nick[m] \/ nick'[m] = "wanted")
      <3>1. KeepsNick(m, s) => KeepsNick(m, s)'
        BY <1>0, <2>1 DEF KeepsNick, Budget
      <3> QED
        BY <2>1, <3>1
    <2>2. CASE hist'[m] = LostAnew(hist[m])
      <3>1. hist[m] \in Hist
        BY <1>01
      <3>2. /\ hist'[m] \in Hist /\ hist'[m].burst = 0 /\ hist'[m].tries = hist[m].tries
        BY <2>2, <3>1, LostAnewType
      <3>3. Counts(Budget(m), faults, hist'[m], s)
        BY <1>01, <3>2, NothingTried
      <3>4. Budget(m) * faults \in Nat /\ Budget(m) \in 1..MaxSteps
        BY <1>01, BudgetTimes
      <3> HIDE DEF MaxSteps
      <3>5. hist'[m].burst <= Budget(m) * faults + Budget(m)
        BY <3>2, <3>4
      <3> QED
        BY <1>0, <3>2, <3>3, <3>5 DEF KeepsNick, Ordered, Budget
    <2> QED
      BY <1>2, <2>1, <2>2
  <1>4. ASSUME NEW m \in Networks, NEW c \in Channels
        PROVE  \/ opHist'[m][c] = opHist[m][c] /\ (c \in ops[m] => c \in ops'[m])
               \/ opHist'[m][c] = NoOpHist
    <2>1. CASE UNCHANGED <<ops, opHist>>
      BY <2>1
    <2>2. CASE OpsChange(n)
      <3>1. PICK d \in OpChannels[n] :
               \/ d \in ops[n] /\ ops' = [ops EXCEPT ![n] = @ \ {d}]
                               /\ opHist' = [opHist EXCEPT ![n][d] = NoOpHist]
               \/ ops' = [ops EXCEPT ![n] = @ \cup {d}] /\ opHist' = opHist
        BY <2>2 DEF OpsChange
      <3>2. d \in Channels /\ opHist[n] \in [Channels -> OpHist]
        BY <1>01, WatchAssumption
      <3> QED
        BY <1>01, <3>1, <3>2
    <2> QED
      BY <1>02, <2>1, <2>2 DEF LinkChanges, NickChanges
  <1>5. ASSUME NEW m \in Networks, NEW dates
        PROVE  KeepsOps(m, dates) => KeepsOps(m, dates)'
    <2> SUFFICES ASSUME KeepsOps(m, dates), NEW c \in Channels
                 PROVE  /\ opHist'[m][c].burst <= faults + 1
                        /\ c \in ops'[m] \/ CoversOp(faults, opHist'[m][c], dates[c])
      BY <1>0 DEF KeepsOps
    <2>1. CASE opHist'[m][c] = NoOpHist
      <3>1. opHist'[m][c].burst = 0
        BY <2>1 DEF NoOpHist
      <3> QED
        BY <1>01, <3>1 DEF CoversOp
    <2>2. CASE opHist'[m][c] = opHist[m][c] /\ (c \in ops[m] => c \in ops'[m])
      BY <2>2 DEF KeepsOps
    <2> QED
      BY <1>4, <2>1, <2>2
  <1>6. ASSUME NEW m \in Networks, Keeps(m, disk[StateFile[m]])
        PROVE  Keeps(m, disk[StateFile[m]])'
    <2>1. disk[StateFile[m]] \in WatchState
      BY LedgerTypes
    <2>2. KeepsNick(m, disk[StateFile[m]])'
      BY <1>0, <1>3, <1>6, <2>1 DEF Keeps, KeepsNick
    <2>3. KeepsOps(m, disk[StateFile[m]].OpLast)'
      BY <1>0, <1>5, <1>6 DEF Keeps, KeepsOps
    <2> QED
      BY <2>2, <2>3 DEF Keeps
  <1>7. ASSUME Memory PROVE Memory'
    <2>1. cur \in Networks /\ st \in WatchState
      BY LedgerTypes
    <2>2. KeepsNick(cur, st)'
      BY <1>0, <1>3, <1>7, <2>1 DEF Memory, KeepsNick
    <2>3. current' = "other" => Counts(Budget(cur), faults, hist'[cur], st)
      BY <1>0, <1>3, <1>7, <2>1 DEF Memory
    <2>4. KeepsOps(cur, Dates)'
      <3>1. Dates' = Dates
        BY <1>0 DEF Dates
      <3> QED
        BY <1>0, <1>5, <1>7, <2>1, <3>1 DEF Memory, KeepsOps
    <2>5. (current = "other" \/ nick[cur] = "wanted" \/ hist[cur].burst = 0)'
      <3>1. hist[cur] \in Hist
        BY <1>01, <2>1
      <3> QED
        BY <1>0, <1>2, <1>7, <2>1, <3>1, LostAnewType DEF Memory
    <2> QED
      BY <1>0, <2>2, <2>3, <2>4, <2>5 DEF Memory, Budget
  <1> QED
    BY <1>0, <1>6, <1>7 DEF LedgerInv, Ledger, Checking, Budget

LEMMA NoteOpValue ==
  ASSUME TypeInv, NEW c \in Channels, NEW h, NoteOp(c, h)
  PROVE  \A n \in Networks : \A d \in Channels :
            opHist'[n][d] = IF ~dry /\ n = cur /\ d = c THEN h ELSE opHist[n][d]
  <1>1. opHist \in [Networks -> [Channels -> OpHist]] /\ cur \in Networks
    BY LedgerTypes
  <1>2. opHist[cur] \in [Channels -> OpHist]
    BY <1>1
  <1> QED
    BY <1>1, <1>2 DEF NoteOp

(* Steps that concern the nick: the requests for op are as they were.      *)
LEMMA NickStepKeeps ==
  ASSUME TypeInv, LedgerInv, ~dry, pc \notin {"sleep", "pass"},
         UNCHANGED <<cur, current, lag, faults, nick, ops, opHist>>,
         st'.OpLast = st.OpLast,
         KeepsNick(cur, st)',
         current = "other" => Counts(Budget(cur), faults, hist'[cur], st'),
         current = "other" \/ hist'[cur].burst = hist[cur].burst
  PROVE  Memory'
  <1>1. Dates' = Dates
    BY DEF Dates
  <1>2. /\ KeepsOps(cur, Dates)
        /\ current = "other" \/ nick[cur] = "wanted" \/ hist[cur].burst = 0
    BY DEF LedgerInv, Ledger, Checking, Memory
  <1>3. KeepsOps(cur, Dates)'
    BY <1>1, <1>2 DEF KeepsOps
  <1>4. (current = "other" \/ nick[cur] = "wanted" \/ hist[cur].burst = 0)'
    BY <1>2
  <1> QED
    BY <1>3, <1>4 DEF Memory, Budget

(* As long as neither the history of attempts nor the state's account of   *)
(* them changes, nor whether the nick was seen, all is accounted for.      *)
LEMMA SameAttempts ==
  ASSUME TypeInv, LedgerInv, ~dry, pc \notin {"sleep", "pass"},
         UNCHANGED <<cur, current, lag, faults, nick, ops, opHist>>,
         st'.OpLast = st.OpLast, st'.NickStep = st.NickStep, st'.NickLast = st.NickLast,
         hist'[cur].burst = hist[cur].burst, hist'[cur].since = hist[cur].since,
         hist'[cur].tries = hist[cur].tries
  PROVE  Memory'
  <1>1. Memory
    BY DEF LedgerInv, Ledger, Checking
  <1>2. KeepsNick(cur, st)'
    BY <1>1 DEF Memory, KeepsNick, Ordered, Counts, Budget
  <1>3. current = "other" => Counts(Budget(cur), faults, hist'[cur], st')
    BY <1>1 DEF Memory, Counts
  <1> QED
    BY <1>2, <1>3, NickStepKeeps

LEMMA ProbeStep ==
  ASSUME TypeInv, LedgerInv,
         \/ Silent
         \/ Answered
         \/ \E ok \in BOOLEAN : Repair(ok)
  PROVE  LedgerInv'
  <1>0. /\ cur \in Networks /\ st \in WatchState /\ faults \in Nat
        /\ hist[cur] \in Hist
    BY LedgerTypes
  <1>2. ASSUME Silent PROVE LedgerInv'
    <2>1. /\ \A n \in Networks : hist'[n] =
                IF ~dry /\ n = cur THEN Unheard(hist[cur]) ELSE hist[n]
          /\ UNCHANGED <<disk, cur, current, lag, dry, faults, nick, ops, opHist>>
          /\ pc = "probe" /\ pc' \in {"repair", "save"}
      BY <1>2, NoteValue DEF Silent, AfterSilent, world
    <2>2. st'.NickStep = st.NickStep /\ st'.NickLast = st.NickLast /\ st'.OpLast = st.OpLast
      BY <1>0, <1>2 DEF Silent, WatchState
    <2>3. ~dry => Memory'
      BY <1>0, <2>1, <2>2, UnheardType, SameAttempts
    <2>4. lag' = 0
      BY <2>1 DEF LedgerInv
    <2> QED
      BY <2>1, <2>3, <2>4, CheckStep
  <1>3. ASSUME NEW ok \in BOOLEAN, Repair(ok) PROVE LedgerInv'
    <2>1. /\ \A n \in Networks : hist'[n] =
                IF ~dry /\ n = cur THEN Heard(hist[cur]) ELSE hist[n]
          /\ UNCHANGED <<disk, cur, current, lag, dry, faults, nick, ops, opHist>>
          /\ pc = "repair" /\ pc' = "save"
      BY <1>3, NoteValue DEF Repair
    <2>2. st'.NickStep = st.NickStep /\ st'.NickLast = st.NickLast /\ st'.OpLast = st.OpLast
      BY <1>0, <1>3, RepairedType DEF Repair
    <2>3. ~dry => Memory'
      BY <1>0, <2>1, <2>2, HeardType, SameAttempts
    <2>4. lag' = 0
      BY <2>1 DEF LedgerInv
    <2> QED
      BY <2>1, <2>3, <2>4, CheckStep
  <1>4. CASE Answered
    <2> DEFINE alive == [st EXCEPT !.ProbeFails = 0]
               heard == Heard(hist[cur])
    <2>1. /\ alive \in WatchState /\ alive.NickStep = st.NickStep
          /\ alive.NickLast = st.NickLast /\ alive.OpLast = st.OpLast
      BY <1>0 DEF WatchState
    <2>2. /\ heard \in Hist /\ heard.burst = hist[cur].burst
          /\ heard.since = hist[cur].since /\ heard.tries = hist[cur].tries
      BY <1>0, HeardType
    <2>3. /\ UNCHANGED <<disk, cur, current, dry, faults, nick, ops, opHist>>
          /\ pc = "probe" /\ pc' \in {"ops", "reclaim", "recover"}
          /\ lag' = 0 /\ lag = 0
          /\ pc' = "reclaim" => cur \in Reconnect
          /\ pc' = "recover" => cur \notin Reconnect
          /\ pc' \in {"recover", "reclaim"} => current = "other"
          /\ \/ current = "wanted" /\ st' = ForgetNick(alive) /\ Note(InPlace(heard))
             \/ current = "other" /\ st' = alive /\ Note(heard)
      BY <1>4 DEF Answered, world, LedgerInv
    <2> HIDE DEF alive, heard
    <2>4. CASE current = "wanted" /\ st' = ForgetNick(alive) /\ Note(InPlace(heard))
      <3>1. \A n \in Networks : hist'[n] =
               IF ~dry /\ n = cur THEN InPlace(heard) ELSE hist[n]
        BY <2>4, NoteValue
      <3>2. /\ InPlace(heard) \in Hist /\ InPlace(heard).burst = hist[cur].burst
            /\ InPlace(heard).since = hist[cur].since
        BY <2>2, InPlaceType
      <3>3. st' \in WatchState /\ st'.NickStep = 0 /\ st'.OpLast = st.OpLast
        BY <2>1, <2>4, ForgetNickType
      <3>4. ASSUME ~dry PROVE Memory'
        <4>1. hist'[cur] = InPlace(heard)
          BY <1>0, <3>1, <3>4
        <4>2. Ordered(Budget(cur), faults, hist'[cur], st')
          BY <1>0, <3>2, <3>3, <4>1, NothingTried
        <4>3. KeepsNick(cur, st) /\ pc \notin {"sleep", "pass"}
          BY <2>3, <3>4 DEF LedgerInv, Ledger, Checking, Memory
        <4>4. nick[cur] = "wanted" \/ Counts(Budget(cur), faults, hist'[cur], st')
          <5>1. current # "other"
            BY <2>4
          <5>2. nick[cur] = "wanted" \/ hist[cur].burst = 0
            BY <3>4, <4>3, <5>1 DEF LedgerInv, Ledger, Checking, Memory
          <5> QED
            BY <1>0, <3>2, <3>3, <4>1, <5>2, NothingTried
        <4>5. KeepsNick(cur, st)'
          BY <2>3, <3>2, <4>1, <4>2, <4>3, <4>4 DEF KeepsNick, Budget
        <4> QED
          BY <2>3, <2>4, <3>2, <3>3, <3>4, <4>1, <4>3, <4>5, NickStepKeeps
      <3> QED
        BY <2>3, <3>1, <3>4, CheckStep
    <2>5. CASE current = "other" /\ st' = alive /\ Note(heard)
      <3>1. \A n \in Networks : hist'[n] = IF ~dry /\ n = cur THEN heard ELSE hist[n]
        BY <2>5, NoteValue
      <3>2. ~dry => Memory'
        BY <1>0, <2>1, <2>2, <2>3, <2>5, <3>1, SameAttempts
      <3> QED
        BY <2>3, <3>1, <3>2, CheckStep
    <2> QED
      BY <2>3, <2>4, <2>5
  <1> QED
    BY <1>2, <1>3, <1>4

(* The attempts at a nick.                                                 *)
LEMMA AttemptStep ==
  ASSUME TypeInv, LedgerInv,
         \/ \E sent \in BOOLEAN : RecoverNick(sent)
         \/ \E ok \in BOOLEAN : ReconnectForNick(ok)
  PROVE  LedgerInv'
  <1>0. /\ cur \in Networks /\ st \in WatchState /\ faults \in Nat
        /\ hist[cur] \in Hist
        /\ st.NickStep \in 0..MaxSteps /\ st.NickLast \in Age
        /\ Cooldown \in Nat \ {0}
    BY LedgerTypes DEF WatchState
  <1>1. /\ pc \in {"recover", "reclaim"} /\ pc' \in {"save", "tell"}
        /\ pc' = "tell" => pc = "recover"
        /\ UNCHANGED <<disk, cur, current, lag, dry, faults, nick, ops, opHist>>
    BY DEF RecoverNick, ReconnectForNick, world
  <1>2. /\ pc' = "tell" => cur \notin Reconnect
        /\ current = "other" /\ lag' = 0
    BY <1>1 DEF LedgerInv
  <1>3. ~dry => Covers(Budget(cur), faults, hist[cur], st)
    BY <1>1, <1>2 DEF LedgerInv, Ledger, Checking, Memory, KeepsNick, Covers
  <1>4. CASE UNCHANGED <<st, hist>>
    <2>1. ~dry => Memory'
      BY <1>1, <1>4, SameAttempts
    <2> QED
      BY <1>1, <1>2, <1>4, <2>1, CheckStep
  <1>5. CASE dry /\ UNCHANGED hist
    BY <1>1, <1>2, <1>5, CheckStep
  <1>6. ASSUME NEW step \in 1..MaxSteps, step <= Budget(cur),
               \/ step = st.NickStep + 1
               \/ step = 1 /\ st.NickLast = Cooldown,
               st' = Tried(st, step), Note(Attempted(hist[cur]))
        PROVE  LedgerInv'
    <2>1. \A n \in Networks : hist'[n] =
             IF ~dry /\ n = cur THEN Attempted(hist[cur]) ELSE hist[n]
      BY <1>6, NoteValue
    <2>2. st'.OpLast = st.OpLast
      BY <1>0, <1>6, TriedType
    <2>3. ~dry => Covers(Budget(cur), faults, hist'[cur], st')
      BY <1>0, <1>3, <1>6, <2>1, AttemptCovers
    <2>31. Tried(st, step) \in WatchState /\ Attempted(hist[cur]) \in Hist
           /\ Tried(st, step).NickStep = step
      BY <1>0, <1>6, TriedType, AttemptedType
    <2>4. ~dry => Memory'
      <3> SUFFICES ASSUME ~dry PROVE Memory'
        OBVIOUS
      <3>1. hist'[cur] = Attempted(hist[cur]) /\ st' = Tried(st, step)
        BY <1>0, <1>6, <2>1
      <3>2. /\ Ordered(Budget(cur), faults, hist'[cur], st')
            /\ Counts(Budget(cur), faults, hist'[cur], st')
        BY <2>3 DEF Covers
      <3>3. hist'[cur].burst <= Budget(cur) * faults + Budget(cur)
        BY <1>0, <1>6, <2>31, <3>1, <3>2, NothingTried
      <3>4. KeepsNick(cur, st)'
        BY <1>1, <3>2, <3>3 DEF KeepsNick, Budget
      <3> QED
        BY <1>1, <1>2, <2>2, <3>2, <3>4, NickStepKeeps
    <2> QED
      BY <1>1, <1>2, <2>1, <2>4, CheckStep
  <1>7. ASSUME NEW sent \in BOOLEAN, RecoverNick(sent) PROVE LedgerInv'
    <2>1. CASE CoolingDown(st)
      BY <1>4, <1>7, <2>1 DEF RecoverNick
    <2>2. CASE ~CoolingDown(st)
      <3>1. cur \notin Reconnect
        BY <1>7 DEF RecoverNick, LedgerInv
      <3>2. NextStep(st) \in 1..MaxSteps /\ NextStep(st) <= Budget(cur)
        BY <1>0, <3>1 DEF NextStep, Budget, MaxSteps
      <3>3. \/ NextStep(st) = st.NickStep + 1
            \/ NextStep(st) = 1 /\ st.NickLast = Cooldown
        BY <1>0, <2>2 DEF NextStep, CoolingDown, Age
      <3> QED
        BY <1>6, <1>7, <2>2, <3>2, <3>3 DEF RecoverNick
    <2> QED
      BY <2>1, <2>2
  <1>8. ASSUME NEW ok \in BOOLEAN, ReconnectForNick(ok) PROVE LedgerInv'
    <2>1. CASE Reclaimed(st)
      BY <1>4, <1>8, <2>1 DEF ReconnectForNick
    <2>2. CASE ~Reclaimed(st) /\ dry
      BY <1>5, <1>8, <2>2 DEF ReconnectForNick
    <2>3. CASE ~Reclaimed(st) /\ ~dry
      <3>1. 1 \in 1..MaxSteps /\ 1 <= Budget(cur)
        BY DEF Budget, MaxSteps
      <3>2. 1 = st.NickStep + 1 \/ st.NickLast = Cooldown
        BY <1>0, <2>3 DEF Reclaimed, Age, MaxSteps
      <3> QED
        BY <1>6, <1>8, <2>3, <3>1, <3>2 DEF ReconnectForNick
    <2> QED
      BY <2>1, <2>2, <2>3
  <1> QED
    BY <1>7, <1>8

(* The requests for op.                                                    *)
LEMMA OpsStep ==
  ASSUME TypeInv, LedgerInv,
         \/ \E c \in Channels : \/ OpUnknown(c)
                                \/ OpHeld(c)
                                \/ \E sent \in BOOLEAN : OpMissing(c, sent)
         \/ OpsDone
         \/ DryRepair
         \/ TellLost
  PROVE  LedgerInv'
  <1>0. /\ cur \in Networks /\ st \in WatchState /\ faults \in Nat /\ lag \in Age
        /\ lag \in Nat
        /\ 0 \in Age /\ Cooldown \in Age /\ Cooldown \in Nat \ {0}
        /\ opHist \in [Networks -> [Channels -> OpHist]]
    BY LedgerTypes DEF TypeInv, TypeOK, Age
  <1>1. /\ pc \notin {"sleep", "pass"} /\ pc' \in {"ops", "save"}
        /\ UNCHANGED <<disk, cur, current, dry, faults, nick, ops, hist>>
        /\ pc' # "ops" => lag' = 0
    BY DEF OpUnknown, OpHeld, OpMissing, OpsDone, DryRepair, TellLost, world, LedgerInv
  <1>2. ~dry => Memory
    BY <1>1 DEF LedgerInv, Ledger, Checking
  (* The requests and their dates are what the steps may change. *)
  <1>3. ASSUME \A n \in Networks : dry \/ n # cur => opHist'[n] = opHist[n],
               st'.NickStep = st.NickStep, st'.NickLast = st.NickLast,
               ~dry => KeepsOps(cur, Dates)'
        PROVE  LedgerInv'
    <2>1. ~dry => KeepsNick(cur, st)'
      BY <1>1, <1>2, <1>3 DEF Memory, KeepsNick, Ordered, Counts, Budget
    <2>2. ~dry /\ current = "other" => Counts(Budget(cur), faults, hist[cur], st')
      BY <1>2, <1>3 DEF Memory, Counts
    <2>3. ~dry => Memory'
      BY <1>1, <1>2, <1>3, <2>1, <2>2 DEF Memory, Budget
    <2> QED
      BY <1>1, <1>3, <2>3, CheckStep
  <1>4. CASE UNCHANGED <<st, lag, opHist>>
    <2>1. Dates' = Dates
      BY <1>4 DEF Dates
    <2>2. ~dry => KeepsOps(cur, Dates)'
      BY <1>1, <1>2, <1>4, <2>1 DEF Memory, KeepsOps
    <2> QED
      BY <1>3, <1>4, <2>2
  <1>5. CASE OpsDone
    <2>1. /\ st'.NickStep = st.NickStep /\ st'.NickLast = st.NickLast
          /\ st' \in WatchState /\ lag' = 0 /\ opHist' = opHist
          /\ \A c \in Channels : st'.OpLast[c] = Later(st.OpLast[c], lag)
      BY <1>0, <1>5, CaughtUpType DEF OpsDone
    <2>2. \A c \in Channels : Dates'[c] = Dates[c]
      BY <2>1, LaterType DEF Dates, WatchState
    <2>3. ~dry => KeepsOps(cur, Dates)'
      BY <1>1, <1>2, <2>1, <2>2 DEF Memory, KeepsOps
    <2> QED
      BY <1>3, <2>1, <2>3
  <1>6. CASE DryRepair \/ TellLost \/ \E c \in Channels : OpUnknown(c)
    BY <1>4, <1>6 DEF DryRepair, TellLost, OpUnknown
  <1>7. ASSUME NEW c \in Channels, OpHeld(c) PROVE LedgerInv'
    <2>1. /\ st' = [st EXCEPT !.OpLast[c] = Cooldown]
          /\ c \in ops[cur] /\ UNCHANGED <<lag, opHist>>
      BY <1>7 DEF OpHeld
    <2>2. /\ st'.NickStep = st.NickStep /\ st'.NickLast = st.NickLast
          /\ st'.OpLast = [st.OpLast EXCEPT ![c] = Cooldown]
      BY <1>0, <2>1, DatedType
    <2>3. \A d \in Channels : d # c => Dates'[d] = Dates[d]
      BY <1>0, <2>1, <2>2 DEF Dates, WatchState
    <2>4. ~dry => KeepsOps(cur, Dates)'
      BY <1>1, <1>2, <2>1, <2>3 DEF Memory, KeepsOps
    <2> QED
      BY <1>3, <2>1, <2>2, <2>4
  <1>8. ASSUME NEW c \in Channels, NEW sent \in BOOLEAN, OpMissing(c, sent)
        PROVE  LedgerInv'
    <2>1. CASE AskedLately(st, c) \/ (~dry /\ ~sent)
      BY <1>4, <1>8, <2>1 DEF OpMissing
    <2>2. CASE ~(AskedLately(st, c) \/ (~dry /\ ~sent))
      <3> DEFINE was == opHist[cur][c]
                 h == [burst |-> Paced(was), since |-> lag]
      <3>1. was \in OpHist /\ was.burst \in Nat /\ was.since \in Age
        BY <1>0 DEF OpHist
      <3>2. st.OpLast[c] = Cooldown
        BY <1>0, <2>2 DEF AskedLately, WatchState, Age
      <3>3. ~dry => CoversOp(faults, was, Cooldown)
        <4>1. c \notin ops[cur] /\ Dates[c] = Cooldown
          BY <1>0, <1>8, <3>2 DEF OpMissing, Dates, Later
        <4> QED
          BY <1>2, <4>1 DEF Memory, KeepsOps
      <3>4. /\ st' = [st EXCEPT !.OpLast[c] = 0] /\ NoteOp(c, h) /\ lag' = lag
        BY <1>8, <2>2 DEF OpMissing
      <3>5. \A n \in Networks : \A d \in Channels : opHist'[n][d] =
               IF ~dry /\ n = cur /\ d = c THEN h ELSE opHist[n][d]
        BY <3>4, NoteOpValue
      <3>6. \A n \in Networks : dry \/ n # cur => opHist'[n] = opHist[n]
        BY <1>0, <3>4 DEF NoteOp
      <3>7. /\ st'.NickStep = st.NickStep /\ st'.NickLast = st.NickLast
            /\ st'.OpLast = [st.OpLast EXCEPT ![c] = 0]
        BY <1>0, <3>4, DatedType
      <3>8. /\ \A d \in Channels : d # c => Dates'[d] = Dates[d]
            /\ Dates'[c] = lag
        <4>1. st.OpLast \in [Channels -> Age] /\ lag \in 0..Cooldown
          BY <1>0 DEF WatchState, Age
        <4>2. /\ st'.OpLast[c] = 0
              /\ \A d \in Channels : d # c => st'.OpLast[d] = st.OpLast[d]
          BY <3>7, <4>1
        <4>3. Later(0, lag) = lag
          BY <1>0, <4>1 DEF Later
        <4> QED
          BY <3>4, <4>2, <4>3 DEF Dates
      <3> HIDE DEF was
      <3>9. ~dry => Paced(was) <= faults + 1
        BY <1>0, <3>1, <3>3 DEF Paced, CoversOp, Age
      <3>10. h.burst = Paced(was) /\ h.since = lag /\ Paced(was) \in Nat
        BY <3>1 DEF Paced
      <3> HIDE DEF h
      <3>11. ~dry => KeepsOps(cur, Dates)'
        <4> SUFFICES ASSUME ~dry, NEW d \in Channels
                     PROVE  /\ opHist'[cur][d].burst <= faults + 1
                            /\ \/ d \in ops[cur]
                               \/ CoversOp(faults, opHist'[cur][d], Dates'[d])
          BY <1>1 DEF KeepsOps
        <4>1. CASE d = c
          BY <1>0, <3>5, <3>8, <3>9, <3>10, <4>1 DEF CoversOp
        <4>2. CASE d # c
          BY <1>0, <1>2, <3>5, <3>8, <4>2 DEF Memory, KeepsOps
        <4> QED
          BY <4>1, <4>2
      <3> QED
        BY <1>3, <3>6, <3>7, <3>11
    <2> QED
      BY <2>1, <2>2
  <1> QED
    BY <1>5, <1>6, <1>7, <1>8

(* A save puts on file what was in memory; one file per network.           *)
LEMMA SaveStep ==
  ASSUME OwnFile, TypeInv, LedgerInv, SaveState
  PROVE  LedgerInv'
  <1>0. /\ pc = "save" /\ pc' = "pass" /\ disk' = Saved
        /\ UNCHANGED <<cur, current, lag, dry, faults, nick, ops, hist, opHist>>
        /\ lag = 0
    BY DEF SaveState, world, LedgerInv
  <1>1. ASSUME NEW n \in Networks, NEW s, Keeps(n, s), disk'[StateFile[n]] = s
        PROVE  Keeps(n, disk[StateFile[n]])'
    BY <1>0, <1>1 DEF Keeps, KeepsNick, KeepsOps, Budget
  <1>2. CASE dry
    <2>1. disk' = disk
      BY <1>0, <1>2 DEF Saved
    <2> QED
      BY <1>0, <1>1, <1>2, <2>1 DEF LedgerInv, Ledger, Checking, Budget
  <1>3. CASE ~dry
    <2>1. \A n \in Networks :
             disk'[StateFile[n]] = IF n = cur THEN st ELSE disk[StateFile[n]]
      BY <1>0, <1>3, LedgerTypes DEF Saved, OwnFile
    <2>2. Keeps(cur, st) /\ cur \in Networks
      <3>1. Memory /\ cur \in Networks /\ st \in WatchState
        BY <1>0, <1>3, LedgerTypes DEF LedgerInv, Ledger, Checking
      <3>2. \A c \in Channels : Dates[c] = st.OpLast[c]
        BY <1>0, <3>1, DatesNow
      <3> QED
        BY <3>1, <3>2 DEF Memory, Keeps, KeepsOps
    <2>3. \A n \in Networks : Keeps(n, disk'[StateFile[n]])
      BY <1>0, <2>1, <2>2 DEF LedgerInv, Ledger
    <2>4. \A n \in Networks : Keeps(n, disk[StateFile[n]])'
      BY <1>1, <2>3
    <2>5. \A n \in Networks : disk'[StateFile[n]].NickStep <= Budget(n)
      BY <2>3 DEF Keeps, KeepsNick, Ordered
    <2> QED
      BY <1>0, <2>4, <2>5 DEF LedgerInv, Ledger, Checking, Budget
  <1> QED
    BY <1>2, <1>3

(* A fault forgets at most what one more budget forgives.                  *)
LEMMA FaultStep ==
  ASSUME TypeInv, LedgerInv, SaveFails \/ Crash
  PROVE  LedgerInv'
  <1>0. /\ pc' \in {"sleep", "pass"} /\ faults' = faults + 1
        /\ UNCHANGED <<nick, ops, hist, opHist>>
        /\ disk' = disk \/ \E f \in Files : disk' = [disk EXCEPT ![f] = Zero]
        /\ lag' = 0
    BY LedgerTypes DEF SaveFails, Crash, Torn, world, LedgerInv
  <1>1. /\ faults \in Nat /\ hist \in [Networks -> Hist]
        /\ opHist \in [Networks -> [Channels -> OpHist]]
    BY LedgerTypes
  <1>2. ASSUME NEW n \in Networks
        PROVE  /\ disk'[StateFile[n]] \in WatchState
               /\ disk'[StateFile[n]].NickStep <= Budget(n)
    <2>1. disk'[StateFile[n]] \in {disk[StateFile[n]], Zero}
      BY <1>0, LedgerTypes
    <2>2. Zero \in WatchState /\ Zero.NickStep <= Budget(n)
      BY ZeroType DEF Zero, Budget, MaxSteps
    <2>3. disk[StateFile[n]] \in WatchState /\ disk[StateFile[n]].NickStep <= Budget(n)
      BY LedgerTypes DEF LedgerInv
    <2> QED
      BY <2>1, <2>2, <2>3
  <1>3. ASSUME NEW n \in Networks
        PROVE  \E s, dates : KeepsNick(n, s) /\ KeepsOps(n, dates)
    BY LedgerTypes DEF LedgerInv, Ledger, Memory, Keeps
  <1>4. ASSUME NEW n \in Networks
        PROVE  Keeps(n, disk[StateFile[n]])'
    <2>1. PICK s, dates : KeepsNick(n, s) /\ KeepsOps(n, dates)
      BY <1>3
    <2>2. hist[n].burst <= Budget(n) * faults + Budget(n)
      BY <2>1 DEF KeepsNick
    <2>3. hist[n] \in Hist
      BY <1>1
    <2>4. /\ Ordered(Budget(n), faults + 1, hist[n], disk'[StateFile[n]])
          /\ Counts(Budget(n), faults + 1, hist[n], disk'[StateFile[n]])
          /\ hist[n].burst <= Budget(n) * (faults + 1) + Budget(n)
      BY <1>1, <1>2, <2>2, <2>3, FaultForgets
    <2>5. KeepsNick(n, disk[StateFile[n]])'
      BY <1>0, <2>4 DEF KeepsNick, Budget
    <2>6. ASSUME NEW c \in Channels
          PROVE  /\ opHist[n][c].burst <= faults + 1 + 1
                 /\ CoversOp(faults + 1, opHist[n][c], disk'[StateFile[n]].OpLast[c])
      <3>1. opHist[n][c].burst <= faults + 1 /\ opHist[n][c].burst \in Nat
        BY <1>1, <2>1 DEF KeepsOps, OpHist
      <3> QED
        BY <1>1, <3>1 DEF CoversOp
    <2>7. KeepsOps(n, disk[StateFile[n]].OpLast)'
      BY <1>0, <2>6 DEF KeepsOps
    <2> QED
      BY <2>5, <2>7 DEF Keeps
  <1> QED
    BY <1>0, <1>2, <1>4 DEF LedgerInv, Ledger, Checking, Budget

LEMMA TickStep ==
  ASSUME TypeInv, LedgerInv, Tick
  PROVE  LedgerInv'
  <1>0. /\ UNCHANGED <<pc, cur, current, dry, faults, nick, ops>>
        /\ lag' = IF pc = "ops" THEN Older(lag) ELSE lag
        /\ st' = IF pc = "ops" THEN [st EXCEPT !.NickLast = Older(@)] ELSE Aged(st)
        /\ \A n \in Networks : /\ disk'[StateFile[n]] = Aged(disk[StateFile[n]])
                               /\ hist'[n] = Elapsed(hist[n])
                               /\ \A c \in Channels : opHist'[n][c] = Elapsed(opHist[n][c])
    BY LedgerTypes DEF Tick, world
  <1>01. /\ faults \in Nat /\ lag \in Nat /\ cur \in Networks /\ st \in WatchState
         /\ hist \in [Networks -> Hist]
         /\ opHist \in [Networks -> [Channels -> OpHist]]
    BY LedgerTypes DEF TypeInv, TypeOK, Age
  <1>1. ASSUME NEW n \in Networks, NEW s \in WatchState, NEW t \in WatchState,
               t.NickStep = s.NickStep, t.NickLast = Older(s.NickLast)
        PROVE  /\ Ordered(Budget(n), faults, hist[n], s)
                    => Ordered(Budget(n), faults, hist'[n], t)
               /\ Counts(Budget(n), faults, hist[n], s)
                    => Counts(Budget(n), faults, hist'[n], t)
               /\ hist'[n].burst = hist[n].burst
    <2>1. hist[n] \in Hist
      BY <1>01
    <2> QED
      BY <1>0, <1>01, <1>1, <2>1, AgedKeeps, ElapsedType
  <1>2. ASSUME NEW n \in Networks, NEW dates, NEW aged,
               \A c \in Channels : aged[c] = Older(dates[c]),
               KeepsOps(n, dates)
        PROVE  \A c \in Channels :
                  /\ opHist'[n][c].burst <= faults + 1
                  /\ c \in ops[n] \/ CoversOp(faults, opHist'[n][c], aged[c])
    <2> SUFFICES ASSUME NEW c \in Channels
                 PROVE  /\ opHist'[n][c].burst <= faults + 1
                        /\ c \in ops[n] \/ CoversOp(faults, opHist'[n][c], aged[c])
      OBVIOUS
    <2>1. opHist[n][c] \in OpHist
      BY <1>01
    <2>2. /\ opHist'[n][c].burst = opHist[n][c].burst
          /\ opHist'[n][c].since = Older(opHist[n][c].since)
          /\ opHist[n][c].burst \in Nat
      BY <1>0, <2>1, ElapsedOp DEF OpHist
    <2>3. aged[c] = Older(dates[c])
      BY <1>2
    <2>4. /\ opHist[n][c].burst <= faults + 1
          /\ c \in ops[n] \/ CoversOp(faults, opHist[n][c], dates[c])
      BY <1>2 DEF KeepsOps
    <2> QED
      BY <1>01, <2>2, <2>3, <2>4 DEF CoversOp
  <1>3. ASSUME Memory PROVE Memory'
    <2>1. /\ st' \in WatchState /\ st'.NickStep = st.NickStep
          /\ st'.NickLast = Older(st.NickLast)
      BY <1>0, <1>01, AgedType, WaitedType
    <2>2. \A c \in Channels : Dates'[c] = Older(Dates[c])
      <3> SUFFICES ASSUME NEW c \in Channels
                   PROVE  Later(st'.OpLast[c], lag') = Older(Later(st.OpLast[c], lag))
        BY DEF Dates
      <3>1. st.OpLast[c] \in Age
        BY <1>01 DEF WatchState
      <3>2. CASE pc = "ops"
        <4>1. st'.OpLast[c] = st.OpLast[c] /\ lag' = Older(lag)
          BY <1>0, <1>01, <3>2, WaitedType
        <4> QED
          BY <1>01, <3>1, <4>1, LaterType
      <3>3. CASE pc # "ops"
        <4>1. st'.OpLast[c] = Older(st.OpLast[c]) /\ lag' = 0 /\ lag = 0
          BY <1>0, <1>01, <3>3, AgedType DEF LedgerInv
        <4> QED
          BY <3>1, <4>1, LaterType, OlderType
      <3> QED
        BY <3>2, <3>3
    <2>3. KeepsNick(cur, st)'
      BY <1>0, <1>01, <1>1, <1>3, <2>1 DEF Memory, KeepsNick, Budget
    <2>4. KeepsOps(cur, Dates)'
      BY <1>0, <1>01, <1>2, <1>3, <2>2 DEF Memory, KeepsOps
    <2>5. current = "other" => Counts(Budget(cur), faults, hist'[cur], st')
      BY <1>01, <1>1, <1>3, <2>1 DEF Memory
    <2>6. current = "other" \/ nick[cur] = "wanted" \/ hist'[cur].burst = 0
      BY <1>01, <1>1, <1>3, <2>1 DEF Memory
    <2> QED
      BY <1>0, <2>3, <2>4, <2>5, <2>6 DEF Memory, Budget
  <1>4. ASSUME NEW n \in Networks, ~(Checking /\ n = cur)
        PROVE  Keeps(n, disk[StateFile[n]])'
    <2>1. /\ KeepsNick(n, disk[StateFile[n]])
          /\ KeepsOps(n, disk[StateFile[n]].OpLast)
          /\ disk[StateFile[n]] \in WatchState
      BY <1>4, LedgerTypes DEF LedgerInv, Ledger, Keeps
    <2>2. /\ disk'[StateFile[n]] \in WatchState
          /\ disk'[StateFile[n]].NickStep = disk[StateFile[n]].NickStep
          /\ disk'[StateFile[n]].NickLast = Older(disk[StateFile[n]].NickLast)
          /\ \A c \in Channels :
                disk'[StateFile[n]].OpLast[c] = Older(disk[StateFile[n]].OpLast[c])
      BY <1>0, <2>1, AgedType
    <2>3. KeepsNick(n, disk[StateFile[n]])'
      BY <1>0, <1>1, <2>1, <2>2 DEF KeepsNick, Budget
    <2>4. KeepsOps(n, disk[StateFile[n]].OpLast)'
      <3> DEFINE dates == disk[StateFile[n]].OpLast
                 aged == disk'[StateFile[n]].OpLast
      <3>1. KeepsOps(n, dates) /\ \A c \in Channels : aged[c] = Older(dates[c])
        BY <2>1, <2>2
      <3> HIDE DEF dates, aged
      <3>2. \A c \in Channels :
               /\ opHist'[n][c].burst <= faults + 1
               /\ c \in ops[n] \/ CoversOp(faults, opHist'[n][c], aged[c])
        BY <1>2, <3>1
      <3> QED
        BY <1>0, <3>2 DEF KeepsOps, aged
    <2> QED
      BY <2>3, <2>4 DEF Keeps
  <1>5. \A n \in Networks : disk'[StateFile[n]].NickStep <= Budget(n)
    BY <1>0, AgedType, LedgerTypes DEF LedgerInv
  <1>6. pc' # "ops" => lag' = 0
    BY <1>0 DEF LedgerInv
  <1> QED
    BY <1>0, <1>3, <1>4, <1>5, <1>6 DEF LedgerInv, Ledger, Checking, Budget

LEMMA LedgerNext ==
  ASSUME OwnFile, TypeInv, LedgerInv, [Next]_vars
  PROVE  LedgerInv'
  BY BetweenStep, ProbeStep, AttemptStep, OpsStep, SaveStep, FaultStep, TickStep,
     WorldStep
     DEF Next, Pass

LEMMA LedgerInvariant == ASSUME OwnFile PROVE Spec => [](TypeInv /\ LedgerInv)
  BY LedgerInit, InitType, NextType, LedgerNext, PTL DEF Spec

-----------------------------------------------------------------------------
(* What follows for the world.                                             *)

(* If each network has a state file of its own: each time its nick is lost *)
(* there are, without a pause of nick-cooldown, at most three attempts at  *)
(* it, or one reconnect, and as many again for each lost save              *)
(* (watch.go:171-174, 266-280, 319-325).                                   *)
THEOREM AttemptsArePaced ==
  ASSUME OwnFile
  PROVE  Spec => []EscalationPaced
  <1>1. TypeInv /\ LedgerInv => EscalationPaced
    <2> SUFFICES ASSUME TypeInv, LedgerInv, NEW n \in Networks
                 PROVE  hist[n].burst <= Budget(n) * (1 + faults)
      BY DEF EscalationPaced
    <2>1. PICK s \in WatchState : KeepsNick(n, s)
      BY LedgerTypes DEF LedgerInv, Ledger, Memory, Keeps
    <2>2. faults \in Nat /\ Budget(n) * (1 + faults) = Budget(n) * faults + Budget(n)
      BY LedgerTypes, BudgetTimes
    <2> QED
      BY <2>1, <2>2 DEF KeepsNick
  <1> QED
    BY <1>1, LedgerInvariant, PTL

(* If each network has a state file of its own: each time op in a channel  *)
(* is lost, ChanServ is asked for it once per cooldown, from one round of  *)
(* channels to another, and once more for each lost save                   *)
(* (watch.go:354-381).                                                     *)
THEOREM RequestsForOpArePaced ==
  ASSUME OwnFile
  PROVE  Spec => []OpPaced
  <1>1. TypeInv /\ LedgerInv => OpPaced
    <2> SUFFICES ASSUME TypeInv, LedgerInv, NEW n \in Networks, NEW c \in OpChannels[n]
                 PROVE  opHist[n][c].burst <= 1 + faults
      BY DEF OpPaced
    <2>1. c \in Channels /\ faults \in Nat
      BY WatchAssumption, LedgerTypes
    <2>2. opHist[n][c].burst <= faults + 1
      BY <2>1 DEF LedgerInv, Ledger, Memory, Keeps, KeepsOps
    <2> QED
      BY <2>1, <2>2
  <1> QED
    BY <1>1, LedgerInvariant, PTL

(* If each network has a state file of its own, and no save is lost:       *)
(* recover comes after an attempt in this loss of the nick, identify after *)
(* two (watch.go:293-308).                                                 *)
THEOREM StepsComeInOrder ==
  ASSUME OwnFile
  PROVE  Spec => EscalationInOrder
  <1> DEFINE P == faults = 0
                    => /\ "recover" \in out' => hist[cur].tries >= 1
                       /\ "identify" \in out' => hist[cur].tries >= 2
  <1>1. ASSUME TypeInv, LedgerInv, [Next]_vars PROVE [P]_vars
    <2> SUFFICES ASSUME faults = 0, ~ UNCHANGED vars,
                        "recover" \in out' \/ "identify" \in out'
                 PROVE  P
      OBVIOUS
    <2>1. PICK sent \in BOOLEAN : RecoverNick(sent)
      <3>1. ASSUME \/ Run \/ EndPass \/ Silent \/ Answered \/ DryRepair \/ TellLost
                   \/ OpsDone \/ SaveState \/ SaveFails \/ Crash \/ Tick \/ World
                   \/ \E n \in Networks : Bind(n) \/ BindFails(n)
            PROVE  out' \subseteq {"away", "alert"}
        BY <3>1 DEF Run, EndPass, Silent, Answered, DryRepair, TellLost, OpsDone,
           SaveState, SaveFails, Crash, Tick, World, LinkChanges, NickChanges, OpsChange,
           Bind, BindFails
      <3>2. ASSUME \E c \in Channels : \/ OpUnknown(c)
                                       \/ OpHeld(c)
                                       \/ \E sent \in BOOLEAN : OpMissing(c, sent)
            PROVE  out' \subseteq {"op"}
        BY <3>2 DEF OpUnknown, OpHeld, OpMissing
      <3>3. ASSUME \E ok \in BOOLEAN : Repair(ok) \/ ReconnectForNick(ok)
            PROVE  out' \subseteq {"repair", "reclaim", "alert"}
        BY <3>3 DEF Repair, ReconnectForNick
      <3> QED
        BY <1>1, <3>1, <3>2, <3>3 DEF Next, Pass
    <2>2. ~dry /\ out' = Lines(NextStep(st)) /\ pc = "recover"
      BY <2>1 DEF RecoverNick
    <2>3. st.NickStep \in 0..MaxSteps /\ hist[cur].tries \in 0..MaxSteps
      BY <1>1, LedgerTypes DEF WatchState, Hist
    <2>4. st.NickStep <= hist[cur].tries
      BY <1>1, <2>2 DEF LedgerInv, Ledger, Checking, Memory, KeepsNick, Ordered
    <2>5. /\ "recover" \in out' => NextStep(st) >= 2
          /\ "identify" \in out' => NextStep(st) >= 3
      BY <2>2, <2>3 DEF NextStep, Lines, MaxSteps
    <2> QED
      BY <2>3, <2>4, <2>5 DEF NextStep, MaxSteps
  <1> QED
    BY <1>1, LedgerInvariant, PTL DEF Spec, EscalationInOrder

(* A dry run leaves the state files as they were, and but for its          *)
(* questions (WHOIS, NAMES) and AWAY on its own connections it sends soju  *)
(* and the networks nothing (watch.go:151, 221, 235, 283, 327, 369).       *)
THEOREM DryRunIsHarmless == Spec => DryRunChangesNothing
  <1> DEFINE P == dry /\ dry' => /\ disk' \in {disk, [f \in Files |-> Aged(disk[f])]}
                                 /\ out' \subseteq {"away", "alert"}
  <1>1. ASSUME [Next]_vars PROVE [P]_vars
    <2> SUFFICES ASSUME dry, dry', ~ UNCHANGED vars PROVE P
      OBVIOUS
    <2>1. CASE Pass
      BY <2>1 DEF Pass, Run, EndPass, Bind, BindFails, Silent, Answered, Repair,
         ReconnectForNick, RecoverNick, DryRepair, TellLost, OpUnknown, OpHeld, OpMissing,
         OpsDone, SaveState, Saved
    <2>2. CASE SaveFails \/ Crash \/ Tick \/ World
      BY <2>2 DEF SaveFails, Crash, Torn, Tick, World, LinkChanges, NickChanges, OpsChange
    <2> QED
      BY <1>1, <2>1, <2>2 DEF Next
  <1> QED
    BY <1>1, PTL DEF Spec, DryRunChangesNothing
=============================================================================
