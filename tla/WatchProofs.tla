---------------------------- MODULE WatchProofs ----------------------------
(***************************************************************************)
(* What holds of Watch for every set of networks, channels and files, every *)
(* cooldown and every number of faults.                                    *)
(***************************************************************************)
EXTENDS Watch, TLAPS

(* A network has a file of its own. *)
OwnFile == \A m, n \in Networks : StateFile[m] = StateFile[n] => m = n

(* The count in memory reaches 2 only on the way to a repair; a dry run    *)
(* may carry it as far as the save it does not do.                         *)
CountInv ==
    /\ pc = "repair" => st.ProbeFails = 2
    /\ pc # "repair" /\ st.ProbeFails = 2 => dry /\ pc = "save"

TypeInv == TypeOK /\ CountInv

(* The network whose file is about to be overwritten: what the file says   *)
(* of it no longer counts, what is in memory does.                         *)
Checking == pc \notin {"sleep", "pass"} /\ ~dry

Slack == IF faults = 0 THEN 0 ELSE 1

SilenceInv ==
    /\ Checking => st.ProbeFails <= hist[cur].unanswered + Slack
    /\ \A n \in Networks :
          \/ Checking /\ n = cur
          \/ disk[StateFile[n]].ProbeFails <= hist[n].unanswered + Slack

-----------------------------------------------------------------------------
(* Facts about the operators on states and ages.                           *)

LEMMA ZeroType == Zero \in WatchState /\ Zero.ProbeFails = 0
  <1>1. Cooldown \in Age
    BY WatchAssumption DEF Age
  <1> QED
    BY <1>1 DEF Zero, WatchState, MaxSteps

LEMMA LaterType ==
  ASSUME NEW a \in Age, NEW k \in Nat
  PROVE  /\ Later(a, k) \in Age
         /\ Later(a, 0) = a
         /\ Later(a, Older(k)) = Older(Later(a, k))
  BY WatchAssumption DEF Later, Older, Age

LEMMA OlderType ==
  ASSUME NEW a \in Age
  PROVE  /\ Older(a) \in Age
         /\ Older(a) = IF a < Cooldown THEN a + 1 ELSE a
  BY WatchAssumption DEF Older, Later, Age

LEMMA AgedType ==
  ASSUME NEW s \in WatchState
  PROVE  /\ Aged(s) \in WatchState
         /\ Aged(s).NickStep = s.NickStep
         /\ Aged(s).ProbeFails = s.ProbeFails
         /\ Aged(s).NickLast = Older(s.NickLast)
         /\ \A c \in Channels : Aged(s).OpLast[c] = Older(s.OpLast[c])
  <1>1. /\ s.NickLast \in Age
        /\ \A c \in Channels : s.OpLast[c] \in Age
    BY DEF WatchState
  <1>2. /\ Older(s.NickLast) \in Age
        /\ [c \in Channels |-> Older(s.OpLast[c])] \in [Channels -> Age]
    BY <1>1, OlderType
  <1> QED
    BY <1>2 DEF Aged, WatchState

LEMMA NoteType ==
  ASSUME hist \in [Networks -> Hist], cur \in Networks, NEW h \in Hist, Note(h)
  PROVE  hist' \in [Networks -> Hist]
  BY DEF Note

LEMMA NoteOpType ==
  ASSUME opHist \in [Networks -> [Channels -> OpHist]], cur \in Networks,
         NEW c \in Channels, NEW h \in OpHist, NoteOp(c, h)
  PROVE  opHist' \in [Networks -> [Channels -> OpHist]]
  <1>1. CASE dry
    BY <1>1 DEF NoteOp
  <1>2. CASE ~dry
    <2>1. [opHist[cur] EXCEPT ![c] = h] \in [Channels -> OpHist]
      OBVIOUS
    <2> QED
      BY <1>2, <2>1 DEF NoteOp
  <1> QED
    BY <1>1, <1>2

(* What the history operators return.  Two fields are updated one at a     *)
(* time: the provers know a record with one field changed.                 *)
LEMMA HeardType ==
  ASSUME NEW h \in Hist
  PROVE  /\ Heard(h) \in Hist
         /\ Heard(h).unanswered = 0
         /\ Heard(h).burst = h.burst
         /\ Heard(h).since = h.since
         /\ Heard(h).tries = h.tries
  BY DEF Heard, Hist

LEMMA UnheardType ==
  ASSUME NEW h \in Hist
  PROVE  /\ Unheard(h) \in Hist
         /\ Unheard(h).unanswered = IF h.unanswered < 2 THEN h.unanswered + 1 ELSE 2
         /\ Unheard(h).burst = h.burst
         /\ Unheard(h).since = h.since
         /\ Unheard(h).tries = h.tries
  BY DEF Unheard, Hist, Saturate

LEMMA InPlaceType ==
  ASSUME NEW h \in Hist
  PROVE  /\ InPlace(h) \in Hist
         /\ InPlace(h).unanswered = h.unanswered
         /\ InPlace(h).burst = h.burst
         /\ InPlace(h).since = h.since
         /\ InPlace(h).tries = 0
  BY DEF InPlace, Hist, MaxSteps

LEMMA LostAnewType ==
  ASSUME NEW h \in Hist
  PROVE  /\ LostAnew(h) \in Hist
         /\ LostAnew(h).unanswered = h.unanswered
         /\ LostAnew(h).burst = 0
         /\ LostAnew(h).since = Cooldown
         /\ LostAnew(h).tries = h.tries
  <1> DEFINE g == [h EXCEPT !.burst = 0]
  <1>1. g \in Hist /\ g.unanswered = h.unanswered /\ g.burst = 0 /\ g.tries = h.tries
    BY DEF Hist
  <1>2. LostAnew(h) = [g EXCEPT !.since = Cooldown]
    BY DEF LostAnew
  <1> HIDE DEF g
  <1>3. Cooldown \in Age
    BY WatchAssumption DEF Age
  <1> QED
    BY <1>1, <1>2, <1>3 DEF Hist

LEMMA AttemptedType ==
  ASSUME NEW h \in Hist
  PROVE  /\ Attempted(h) \in Hist
         /\ Attempted(h).unanswered = h.unanswered
         /\ Attempted(h).burst = Paced(h)
         /\ Attempted(h).since = 0
         /\ Attempted(h).tries = Saturate(h.tries, MaxSteps)
  <1> DEFINE t == Saturate(h.tries, MaxSteps)
             g == [h EXCEPT !.burst = Paced(h)]
             k == [g EXCEPT !.since = 0]
  <1>1. Paced(h) \in Nat /\ t \in 0..MaxSteps /\ 0 \in Age
    BY WatchAssumption DEF Paced, Saturate, Hist, MaxSteps, Age
  <1>2. Attempted(h) = [k EXCEPT !.tries = t]
    BY DEF Attempted
  <1> HIDE DEF t
  <1>3. g \in Hist /\ g.unanswered = h.unanswered /\ g.burst = Paced(h)
    BY <1>1 DEF Hist
  <1> HIDE DEF g
  <1>4. k \in Hist /\ k.unanswered = h.unanswered /\ k.burst = Paced(h) /\ k.since = 0
    BY <1>1, <1>3 DEF Hist
  <1> HIDE DEF k
  <1>5. [k EXCEPT !.tries = t] \in Hist
    BY <1>1, <1>4 DEF Hist
  <1> QED
    BY <1>2, <1>4, <1>5 DEF Hist, t

(* What the operators on watchState return.                                *)
LEMMA RepairedType ==
  ASSUME NEW s \in WatchState
  PROVE  /\ Repaired(s) \in WatchState
         /\ Repaired(s).ProbeFails = 0
         /\ Repaired(s).NickStep = s.NickStep
         /\ Repaired(s).NickLast = s.NickLast
         /\ Repaired(s).OpLast = s.OpLast
  BY DEF Repaired, WatchState

LEMMA ForgetNickType ==
  ASSUME NEW s \in WatchState
  PROVE  /\ ForgetNick(s) \in WatchState
         /\ ForgetNick(s).ProbeFails = s.ProbeFails
         /\ ForgetNick(s).NickStep = 0
         /\ ForgetNick(s).OpLast = s.OpLast
  <1>1. CASE s.NickStep > 0
    <2> DEFINE g == [s EXCEPT !.NickStep = 0]
    <2>1. g \in WatchState /\ g.ProbeFails = s.ProbeFails /\ g.NickStep = 0
            /\ g.OpLast = s.OpLast
      BY DEF WatchState, MaxSteps
    <2>2. ForgetNick(s) = [g EXCEPT !.NickLast = Cooldown]
      BY <1>1 DEF ForgetNick
    <2>3. Cooldown \in Age
      BY WatchAssumption DEF Age
    <2> HIDE DEF g
    <2> QED
      BY <2>1, <2>2, <2>3 DEF WatchState
  <1>2. CASE ~(s.NickStep > 0)
    BY <1>2 DEF ForgetNick, WatchState, MaxSteps
  <1> QED
    BY <1>1, <1>2

LEMMA TriedType ==
  ASSUME NEW s \in WatchState, NEW step \in 0..MaxSteps
  PROVE  /\ Tried(s, step) \in WatchState
         /\ Tried(s, step).ProbeFails = s.ProbeFails
         /\ Tried(s, step).NickStep = step
         /\ Tried(s, step).NickLast = 0
         /\ Tried(s, step).OpLast = s.OpLast
  <1> DEFINE g == [s EXCEPT !.NickStep = step]
  <1>1. g \in WatchState /\ g.ProbeFails = s.ProbeFails /\ g.NickStep = step
          /\ g.OpLast = s.OpLast
    BY DEF WatchState
  <1>2. Tried(s, step) = [g EXCEPT !.NickLast = 0]
    BY DEF Tried
  <1>3. 0 \in Age
    BY WatchAssumption DEF Age
  <1> HIDE DEF g
  <1> QED
    BY <1>1, <1>2, <1>3 DEF WatchState

LEMMA DatedType ==
  ASSUME NEW s \in WatchState, NEW c \in Channels, NEW age \in Age
  PROVE  /\ [s EXCEPT !.OpLast[c] = age] \in WatchState
         /\ [s EXCEPT !.OpLast[c] = age].ProbeFails = s.ProbeFails
         /\ [s EXCEPT !.OpLast[c] = age].NickStep = s.NickStep
         /\ [s EXCEPT !.OpLast[c] = age].NickLast = s.NickLast
         /\ [s EXCEPT !.OpLast[c] = age].OpLast = [s.OpLast EXCEPT ![c] = age]
  <1>1. [s.OpLast EXCEPT ![c] = age] \in [Channels -> Age]
    BY DEF WatchState
  <1> QED
    BY <1>1 DEF WatchState

(* As long as keepOps runs, OpLast stays as of its reading of the clock;   *)
(* then it is brought up to date.                                          *)
LEMMA WaitedType ==
  ASSUME NEW s \in WatchState
  PROVE  /\ [s EXCEPT !.NickLast = Older(@)] \in WatchState
         /\ [s EXCEPT !.NickLast = Older(@)].ProbeFails = s.ProbeFails
         /\ [s EXCEPT !.NickLast = Older(@)].NickStep = s.NickStep
         /\ [s EXCEPT !.NickLast = Older(@)].NickLast = Older(s.NickLast)
         /\ [s EXCEPT !.NickLast = Older(@)].OpLast = s.OpLast
  <1>1. Older(s.NickLast) \in Age
    BY OlderType DEF WatchState
  <1> QED
    BY <1>1 DEF WatchState

LEMMA CaughtUpType ==
  ASSUME NEW s \in WatchState, NEW k \in Nat
  PROVE  LET t == [s EXCEPT !.OpLast = [c \in Channels |-> Later(@[c], k)]]
         IN  /\ t \in WatchState
             /\ t.ProbeFails = s.ProbeFails
             /\ t.NickStep = s.NickStep
             /\ t.NickLast = s.NickLast
             /\ \A c \in Channels : t.OpLast[c] = Later(s.OpLast[c], k)
  <1>1. \A c \in Channels : s.OpLast[c] \in Age
    BY DEF WatchState
  <1>2. [c \in Channels |-> Later(s.OpLast[c], k)] \in [Channels -> Age]
    BY <1>1, LaterType
  <1> QED
    BY <1>2 DEF WatchState

LEMMA NoHistType == NoHist \in Hist /\ NoOpHist \in OpHist
  BY WatchAssumption DEF NoHist, NoOpHist, Hist, OpHist, Age, MaxSteps

-----------------------------------------------------------------------------
(* Type correctness.                                                       *)

LEMMA InitType == Init => TypeInv
  <1> SUFFICES ASSUME Init PROVE TypeInv
    OBVIOUS
  <1>1. TypeOK
    BY ZeroType, NoHistType, WatchAssumption DEF Init, TypeOK, PCs, Age
  <1>2. CountInv
    BY ZeroType DEF Init, CountInv
  <1> QED
    BY <1>1, <1>2 DEF TypeInv

(* The actions that move the pass on and leave counts alone.               *)
LEMMA PassStepType ==
  ASSUME TypeInv,
         \/ Run
         \/ EndPass
         \/ \E n \in Networks : Bind(n) \/ BindFails(n)
         \/ DryRepair
         \/ TellLost
         \/ OpsDone
         \/ \E c \in Channels : OpUnknown(c)
  PROVE  TypeInv'
  <1> USE DEF TypeInv, world
  <1>1. CASE Run
    BY <1>1, WatchAssumption DEF Run, TypeOK, CountInv, PCs
  <1>2. CASE EndPass
    BY <1>2 DEF EndPass, TypeOK, CountInv, PCs
  <1>3. ASSUME NEW n \in Networks, Bind(n) PROVE TypeInv'
    BY <1>3, WatchAssumption DEF Bind, TypeOK, CountInv, PCs, Effects
  <1>4. ASSUME NEW n \in Networks, BindFails(n) PROVE TypeInv'
    BY <1>4 DEF BindFails, TypeOK, CountInv, PCs
  <1>5. CASE DryRepair
    BY <1>5 DEF DryRepair, TypeOK, CountInv, PCs
  <1>6. CASE TellLost
    BY <1>6 DEF TellLost, TypeOK, CountInv, PCs, Effects
  <1>7. CASE OpsDone
    <2>1. lag \in Nat /\ st \in WatchState /\ 0 \in Age
      BY WatchAssumption DEF TypeOK, Age
    <2>2. st' \in WatchState /\ st'.ProbeFails = st.ProbeFails
      BY <1>7, <2>1, CaughtUpType DEF OpsDone
    <2> QED
      BY <1>7, <2>1, <2>2 DEF OpsDone, TypeOK, CountInv, PCs
  <1>8. ASSUME NEW c \in Channels, OpUnknown(c) PROVE TypeInv'
    BY <1>8 DEF OpUnknown, TypeOK, CountInv, PCs
  <1> QED
    BY <1>1, <1>2, <1>3, <1>4, <1>5, <1>6, <1>7, <1>8

(* The probe, and what follows from it.                                    *)
LEMMA ProbeStepType ==
  ASSUME TypeInv,
         \/ Silent
         \/ Answered
         \/ \E ok \in BOOLEAN : Repair(ok)
  PROVE  TypeInv'
  <1> USE DEF TypeInv, world
  <1>0. hist[cur] \in Hist /\ st \in WatchState
    BY DEF TypeOK
  <1>1. ASSUME Silent PROVE TypeInv'
    <2>1. hist' \in [Networks -> Hist]
      BY <1>0, <1>1, UnheardType, NoteType DEF Silent, TypeOK
    <2>2. st.ProbeFails \in 0..1
      BY <1>0, <1>1 DEF Silent, CountInv, WatchState
    <2>3. st' \in WatchState /\ st'.ProbeFails = st.ProbeFails + 1
      BY <1>0, <1>1, <2>2 DEF Silent, WatchState
    <2>4. pc' = IF st'.ProbeFails >= 2 THEN "repair" ELSE "save"
      BY <1>1 DEF Silent, AfterSilent, SilentBeforeRepair
    <2>5. CountInv'
      BY <2>2, <2>3, <2>4 DEF CountInv
    <2>6. TypeOK'
      BY <1>1, <2>1, <2>3, <2>4 DEF Silent, TypeOK, PCs
    <2> QED
      BY <2>5, <2>6
  <1>2. CASE Answered
    <2> DEFINE alive == [st EXCEPT !.ProbeFails = 0]
    <2>1. alive \in WatchState /\ alive.ProbeFails = 0
      BY <1>0 DEF WatchState
    <2>2. st' \in {ForgetNick(alive), alive}
      BY <1>2 DEF Answered
    <2> HIDE DEF alive
    <2>3. st' \in WatchState /\ st'.ProbeFails = 0
      BY <2>1, <2>2, ForgetNickType
    <2>4. Note(InPlace(Heard(hist[cur]))) \/ Note(Heard(hist[cur]))
      BY <1>2 DEF Answered
    <2>5. hist' \in [Networks -> Hist]
      BY <1>0, <2>4, HeardType, InPlaceType, NoteType DEF TypeOK
    <2>6. chans' \in SUBSET Channels
      BY <1>2, WatchAssumption DEF Answered, TypeOK
    <2>7. pc' \in PCs \ {"repair"} /\ lag' \in Age
      BY <1>2, WatchAssumption DEF Answered, PCs, Age
    <2> QED
      BY <1>2, <2>3, <2>5, <2>6, <2>7 DEF Answered, TypeOK, CountInv, Effects
  <1>3. ASSUME NEW ok \in BOOLEAN, Repair(ok) PROVE TypeInv'
    <2>1. hist' \in [Networks -> Hist]
      BY <1>0, <1>3, HeardType, NoteType DEF Repair, TypeOK
    <2>2. st' \in WatchState /\ st'.ProbeFails = 0
      BY <1>0, <1>3, RepairedType DEF Repair
    <2>3. link' \in [Networks -> {"up", "zombie", "down"}]
      BY <1>3 DEF Repair, Redial, TypeOK
    <2>4. CountInv'
      BY <1>3, <2>2 DEF Repair, CountInv
    <2>5. out' \in SUBSET Effects /\ pc' \in PCs
      BY <1>3 DEF Repair, PCs, Effects
    <2> QED
      BY <1>3, <2>1, <2>2, <2>3, <2>4, <2>5 DEF Repair, TypeOK
  <1> QED
    BY <1>1, <1>2, <1>3

(* The two ways to get a nick back, and the requests for op.               *)
LEMMA ActStepType ==
  ASSUME TypeInv,
         \/ \E sent \in BOOLEAN : RecoverNick(sent)
         \/ \E ok \in BOOLEAN : ReconnectForNick(ok)
         \/ \E c \in Channels : OpHeld(c) \/ \E sent \in BOOLEAN : OpMissing(c, sent)
  PROVE  TypeInv'
  <1> USE DEF TypeInv, world
  <1>0. hist[cur] \in Hist /\ st \in WatchState
    BY DEF TypeOK
  <1>1. ASSUME NEW sent \in BOOLEAN, RecoverNick(sent) PROVE TypeInv'
    <2>0. pc = "recover" /\ pc' \in {"save", "tell"} /\ st.ProbeFails # 2
      BY <1>1 DEF RecoverNick, CountInv
    <2>1. CASE CoolingDown(st)
      BY <1>1, <2>0, <2>1 DEF RecoverNick, TypeOK, CountInv, PCs
    <2>2. CASE ~CoolingDown(st)
      <3>1. NextStep(st) \in 1..MaxSteps
        BY <1>0 DEF NextStep, WatchState, MaxSteps
      <3>2. st' = Tried(st, NextStep(st)) /\ Note(Attempted(hist[cur]))
        BY <1>1, <2>2 DEF RecoverNick
      <3>3. st' \in WatchState /\ st'.ProbeFails = st.ProbeFails
        BY <1>0, <3>1, <3>2, TriedType DEF MaxSteps
      <3>4. hist' \in [Networks -> Hist]
        BY <1>0, <3>2, AttemptedType, NoteType DEF TypeOK
      <3>5. out' \in SUBSET Effects
        BY <1>1, <2>2, <3>1 DEF RecoverNick, Lines, Effects, MaxSteps
      <3> QED
        BY <1>1, <2>0, <3>3, <3>4, <3>5 DEF RecoverNick, TypeOK, CountInv, PCs
    <2> QED
      BY <2>1, <2>2
  <1>2. ASSUME NEW ok \in BOOLEAN, ReconnectForNick(ok) PROVE TypeInv'
    <2>0. pc = "reclaim" /\ pc' = "save" /\ st.ProbeFails # 2
      BY <1>2 DEF ReconnectForNick, CountInv
    <2> DEFINE tried == Tried(st, 1)
    <2>1. tried \in WatchState /\ tried.ProbeFails = st.ProbeFails
      BY <1>0, TriedType DEF MaxSteps
    <2>2. st' \in {st, tried}
      BY <1>2 DEF ReconnectForNick
    <2> HIDE DEF tried
    <2>3. st' \in WatchState /\ st'.ProbeFails = st.ProbeFails
      BY <1>0, <2>1, <2>2 DEF WatchState
    <2>4. hist' = hist \/ Note(Attempted(hist[cur]))
      BY <1>2 DEF ReconnectForNick
    <2>5. hist' \in [Networks -> Hist]
      BY <1>0, <2>4, AttemptedType, NoteType DEF TypeOK
    <2>6. link' \in [Networks -> {"up", "zombie", "down"}]
      BY <1>2 DEF ReconnectForNick, Redial, TypeOK
    <2>7. out' \in SUBSET Effects
      BY <1>2 DEF ReconnectForNick, Effects
    <2> QED
      BY <1>2, <2>0, <2>3, <2>5, <2>6, <2>7 DEF ReconnectForNick, TypeOK, CountInv, PCs
  <1>3. ASSUME NEW c \in Channels, OpHeld(c) PROVE TypeInv'
    <2>1. st' \in WatchState /\ st'.ProbeFails = st.ProbeFails
      BY <1>0, <1>3, DatedType, WatchAssumption DEF OpHeld, Age
    <2> QED
      BY <1>3, <2>1 DEF OpHeld, TypeOK, CountInv, PCs
  <1>4. ASSUME NEW c \in Channels, NEW sent \in BOOLEAN, OpMissing(c, sent)
        PROVE  TypeInv'
    <2>1. 0 \in Age
      BY WatchAssumption DEF Age
    <2>2. st' = st \/ st' = [st EXCEPT !.OpLast[c] = 0]
      BY <1>4 DEF OpMissing
    <2>3. st' \in WatchState /\ st'.ProbeFails = st.ProbeFails
      <3> DEFINE asked == [st EXCEPT !.OpLast[c] = 0]
      <3>1. \A age \in Age : /\ [st EXCEPT !.OpLast[c] = age] \in WatchState
                            /\ [st EXCEPT !.OpLast[c] = age].ProbeFails = st.ProbeFails
        BY <1>0, DatedType
      <3>2. asked \in WatchState /\ asked.ProbeFails = st.ProbeFails
        BY <2>1, <3>1
      <3> QED
        BY <1>0, <2>2, <3>2
    <2>4. [burst |-> Paced(opHist[cur][c]), since |-> lag] \in OpHist
      BY <2>1 DEF TypeOK, OpHist, Paced
    <2>5. opHist' \in [Networks -> [Channels -> OpHist]]
      BY <1>4, <2>4, NoteOpType DEF OpMissing, TypeOK
    <2>6. out' \in SUBSET Effects
      BY <1>4 DEF OpMissing, Effects
    <2> QED
      BY <1>4, <2>3, <2>5, <2>6 DEF OpMissing, TypeOK, CountInv, PCs
  <1> QED
    BY <1>1, <1>2, <1>3, <1>4

(* Saves and crashes.                                                      *)
LEMMA SaveStepType ==
  ASSUME TypeInv, SaveState \/ SaveFails \/ Crash
  PROVE  TypeInv'
  <1> USE DEF TypeInv, world
  <1>0. /\ st \in WatchState
        /\ StateFile[cur] \in Files
        /\ Zero \in WatchState /\ Zero.ProbeFails \in 0..1
    BY ZeroType, WatchAssumption DEF TypeOK
  <1>01. 0 \in Age
    BY WatchAssumption DEF Age
  <1>1. CASE SaveState
    <2>1. ~dry => st.ProbeFails \in 0..1
      BY <1>0, <1>1 DEF SaveState, CountInv, WatchState
    <2>2. disk' \in [Files -> WatchState] /\ \A f \in Files : disk'[f].ProbeFails \in 0..1
      BY <1>0, <1>1, <2>1 DEF SaveState, Saved, TypeOK
    <2> QED
      BY <1>0, <1>1, <2>2 DEF SaveState, TypeOK, CountInv, PCs
  <1>2. ASSUME disk' = disk \/ Torn(StateFile[cur])
        PROVE  /\ disk' \in [Files -> WatchState]
               /\ \A f \in Files : disk'[f].ProbeFails \in 0..1
    BY <1>0, <1>2 DEF Torn, TypeOK
  <1>3. CASE SaveFails
    <2>1. faults' \in 0..MaxFaults
      BY <1>3, WatchAssumption DEF SaveFails, TypeOK
    <2>2. disk' = disk \/ Torn(StateFile[cur])
      BY <1>3 DEF SaveFails
    <2> QED
      BY <1>0, <1>2, <1>3, <2>1, <2>2 DEF SaveFails, TypeOK, CountInv, PCs
  <1>4. CASE Crash
    <2>1. faults' \in 0..MaxFaults
      BY <1>4, WatchAssumption DEF Crash, TypeOK
    <2>2. disk' = disk \/ Torn(StateFile[cur])
      BY <1>4 DEF Crash
    <2> QED
      BY <1>0, <1>01, <1>2, <1>4, <2>1, <2>2 DEF Crash, TypeOK, CountInv, PCs
  <1> QED
    BY <1>1, <1>3, <1>4

(* What the world does.                                                    *)
LEMMA WorldStepType ==
  ASSUME TypeInv, Tick \/ World
  PROVE  TypeInv'
  <1> USE DEF TypeInv, watcher
  <1>1. CASE Tick
    <2>1. \A f \in Files : disk'[f] \in WatchState /\ disk'[f].ProbeFails = disk[f].ProbeFails
      BY <1>1, AgedType DEF Tick, TypeOK
    <2>2. st' \in WatchState /\ st'.ProbeFails = st.ProbeFails /\ lag' \in Age
      <3>1. st \in WatchState /\ lag \in Age
        BY DEF TypeOK
      <3>2. CASE pc = "ops"
        BY <1>1, <3>1, <3>2, OlderType, WaitedType DEF Tick
      <3>3. CASE pc # "ops"
        BY <1>1, <3>1, <3>3, AgedType DEF Tick
      <3> QED
        BY <3>2, <3>3
    <2>3. \A h \in Hist : Elapsed(h) \in Hist
      BY OlderType DEF Elapsed, Hist
    <2>4. \A h \in OpHist : Elapsed(h) \in OpHist
      BY OlderType DEF Elapsed, OpHist
    <2>5. disk' \in [Files -> WatchState] /\ \A f \in Files : disk'[f].ProbeFails \in 0..1
      BY <1>1, <2>1 DEF Tick, TypeOK
    <2>6. hist' \in [Networks -> Hist]
      BY <1>1, <2>3 DEF Tick, TypeOK
    <2>7. opHist' \in [Networks -> [Channels -> OpHist]]
      BY <1>1, <2>4 DEF Tick, TypeOK
    <2> QED
      BY <1>1, <2>2, <2>5, <2>6, <2>7 DEF Tick, TypeOK, CountInv, world
  <1>0. ASSUME NEW n \in Networks, NEW k \in {"wanted", "other"}, Becomes(n, k)
        PROVE  nick' \in [Networks -> {"wanted", "other"}] /\ hist' \in [Networks -> Hist]
    BY <1>0, LostAnewType DEF Becomes, TypeOK
  <1>2. ASSUME NEW n \in Networks, LinkChanges(n) PROVE TypeInv'
    <2>1. nick' \in [Networks -> {"wanted", "other"}] /\ hist' \in [Networks -> Hist]
      BY <1>0, <1>2 DEF LinkChanges, TypeOK
    <2>2. link' \in [Networks -> {"up", "zombie", "down"}]
      BY <1>2 DEF LinkChanges, TypeOK
    <2> QED
      BY <1>2, <2>1, <2>2 DEF LinkChanges, TypeOK, CountInv
  <1>3. ASSUME NEW n \in Networks, NickChanges(n) PROVE TypeInv'
    <2>1. nick' \in [Networks -> {"wanted", "other"}] /\ hist' \in [Networks -> Hist]
      BY <1>0, <1>3 DEF NickChanges
    <2> QED
      BY <1>3, <2>1 DEF NickChanges, TypeOK, CountInv
  <1>4. ASSUME NEW n \in Networks, OpsChange(n) PROVE TypeInv'
    <2>1. \A c \in OpChannels[n] : c \in Channels
      BY WatchAssumption
    <2>2. PICK c \in OpChannels[n] :
             /\ \/ ops' = [ops EXCEPT ![n] = @ \ {c}]
                \/ ops' = [ops EXCEPT ![n] = @ \cup {c}]
             /\ opHist' = opHist \/ opHist' = [opHist EXCEPT ![n][c] = NoOpHist]
      BY <1>4 DEF OpsChange
    <2>3. ops[n] \ {c} \in SUBSET Channels /\ ops[n] \cup {c} \in SUBSET Channels
      BY <2>1 DEF TypeOK
    <2>4. ops' \in [Networks -> SUBSET Channels]
      BY <2>2, <2>3 DEF TypeOK
    <2>5. opHist' \in [Networks -> [Channels -> OpHist]]
      <3>1. opHist[n] \in [Channels -> OpHist] /\ c \in Channels /\ NoOpHist \in OpHist
        BY <2>1, NoHistType DEF TypeOK
      <3>2. [opHist[n] EXCEPT ![c] = NoOpHist] \in [Channels -> OpHist]
        BY <3>1
      <3> QED
        BY <2>2, <3>2 DEF TypeOK
    <2> QED
      BY <1>4, <2>4, <2>5 DEF OpsChange, TypeOK, CountInv
  <1> QED
    BY <1>1, <1>2, <1>3, <1>4 DEF World

LEMMA NextType == TypeInv /\ [Next]_vars => TypeInv'
  <1> SUFFICES ASSUME TypeInv, [Next]_vars PROVE TypeInv'
    OBVIOUS
  <1>1. CASE Pass
    BY <1>1, PassStepType, ProbeStepType, ActStepType, SaveStepType DEF Pass
  <1>2. CASE SaveFails \/ Crash
    BY <1>2, SaveStepType
  <1>3. CASE Tick \/ World
    BY <1>3, WorldStepType
  <1>4. CASE UNCHANGED vars
    BY <1>4 DEF vars, watcher, world, TypeInv, TypeOK, CountInv
  <1> QED
    BY <1>1, <1>2, <1>3, <1>4 DEF Next

LEMMA TypeInvariant == Spec => []TypeInv
  BY InitType, NextType, PTL DEF Spec

(* Every variable keeps its type, and a count of silences that a save      *)
(* leaves on file is always short of a repair (watch.go:156-161, 240-241). *)
THEOREM TypeCorrect == Spec => []TypeOK
  <1>1. TypeInv => TypeOK
    BY DEF TypeInv
  <1> QED
    BY <1>1, TypeInvariant, PTL

-----------------------------------------------------------------------------
(* A forced reconnect takes two silences.                                  *)

LEMMA NoteValue ==
  ASSUME TypeInv, NEW h, Note(h)
  PROVE  \A n \in Networks : hist'[n] = IF ~dry /\ n = cur THEN h ELSE hist[n]
  BY DEF Note, TypeInv, TypeOK

(* Zero counts nothing; after a fault there is a slack of one, and no      *)
(* count on file is more than that.                                        *)
LEMMA FaultForgives ==
  ASSUME TypeInv, SilenceInv, SaveFails \/ Crash
  PROVE  SilenceInv'
  <1> USE DEF TypeInv
  <1>1. faults' # 0 /\ hist' = hist /\ pc' \in {"sleep", "pass"}
    BY DEF SaveFails, Crash, TypeOK
  <1>2. \A f \in Files : disk'[f].ProbeFails \in 0..1
    BY SaveStepType DEF TypeOK
  <1>3. \A n \in Networks : disk'[StateFile[n]].ProbeFails <= hist'[n].unanswered + 1
    <2> TAKE n \in Networks
    <2>1. StateFile[n] \in Files
      BY WatchAssumption
    <2>2. hist[n].unanswered \in 0..2
      BY DEF TypeOK, Hist
    <2> QED
      BY <1>1, <1>2, <2>1, <2>2
  <1> QED
    BY <1>1, <1>3 DEF SilenceInv, Checking, Slack

LEMMA SilenceInit == Init => SilenceInv
  BY WatchAssumption, ZeroType DEF Init, SilenceInv, Checking, Slack, NoHist

LEMMA SilenceNext ==
  ASSUME OwnFile, TypeInv, SilenceInv, [Next]_vars
  PROVE  SilenceInv'
  <1> USE DEF TypeInv
  <1>0. /\ hist \in [Networks -> Hist]
        /\ cur \in Networks
        /\ hist[cur] \in Hist
        /\ st \in WatchState
        /\ disk \in [Files -> WatchState]
        /\ StateFile \in [Networks -> Files]
        /\ faults \in Nat
    BY WatchAssumption DEF TypeOK
  <1>01. \A n \in Networks : /\ hist[n].unanswered \in 0..2
                             /\ disk[StateFile[n]].ProbeFails \in 0..1
    BY <1>0 DEF Hist, TypeOK
  <1>02. st.ProbeFails \in 0..2
    BY <1>0 DEF WatchState
  (* Steps within a check that touch no count. *)
  <1>1. ASSUME /\ pc \notin {"sleep", "pass"} /\ pc' \notin {"sleep", "pass"}
               /\ UNCHANGED <<disk, cur, dry, faults>>
               /\ st'.ProbeFails = st.ProbeFails
               /\ \A n \in Networks : hist'[n].unanswered = hist[n].unanswered
        PROVE  SilenceInv'
    BY <1>0, <1>1 DEF SilenceInv, Checking, Slack
  <1>2. CASE Run \/ EndPass
    BY <1>0, <1>2 DEF Run, EndPass, SilenceInv, Checking, Slack
  <1>3. ASSUME NEW n \in Networks, Bind(n) PROVE SilenceInv'
    BY <1>0, <1>3 DEF Bind, SilenceInv, Checking, Slack
  <1>4. ASSUME NEW n \in Networks, BindFails(n) PROVE SilenceInv'
    BY <1>0, <1>4 DEF BindFails, SilenceInv, Checking, Slack
  <1>5. ASSUME Silent PROVE SilenceInv'
    <2>1. /\ \A n \in Networks : hist'[n] =
                IF ~dry /\ n = cur THEN Unheard(hist[cur]) ELSE hist[n]
          /\ UNCHANGED <<disk, cur, dry, faults>>
          /\ pc = "probe" /\ pc' \notin {"sleep", "pass"}
      BY <1>5, NoteValue DEF Silent, AfterSilent
    <2>2. st.ProbeFails \in 0..1
      BY <1>0, <1>02, <2>1 DEF CountInv
    <2>3. st'.ProbeFails = st.ProbeFails + 1
      BY <1>0, <1>5 DEF Silent, WatchState
    <2>4. Unheard(hist[cur]).unanswered =
             IF hist[cur].unanswered < 2 THEN hist[cur].unanswered + 1 ELSE 2
      BY <1>0, UnheardType
    <2>5. ~dry => st'.ProbeFails <= hist'[cur].unanswered + Slack
      BY <1>0, <1>01, <2>1, <2>2, <2>3, <2>4 DEF SilenceInv, Checking, Slack
    <2> QED
      BY <1>0, <2>1, <2>5 DEF SilenceInv, Checking, Slack
  <1>6. ASSUME NEW h \in Hist, Note(h),
               pc' \notin {"sleep", "pass"}, pc \notin {"sleep", "pass"},
               UNCHANGED <<disk, cur, dry, faults>>,
               st'.ProbeFails = 0
        PROVE  SilenceInv'
    <2>1. \A n \in Networks : hist'[n] = IF ~dry /\ n = cur THEN h ELSE hist[n]
      BY <1>6, NoteValue
    <2>2. h.unanswered \in 0..2
      BY <1>6 DEF Hist
    <2> QED
      BY <1>0, <1>6, <2>1, <2>2 DEF SilenceInv, Checking, Slack
  <1>7. CASE Answered
    <2>1. st'.ProbeFails = 0
      <3> DEFINE alive == [st EXCEPT !.ProbeFails = 0]
      <3>1. alive \in WatchState /\ alive.ProbeFails = 0
        BY <1>0 DEF WatchState
      <3>2. st' \in {ForgetNick(alive), alive}
        BY <1>7 DEF Answered
      <3> HIDE DEF alive
      <3> QED
        BY <3>1, <3>2, ForgetNickType
    <2>2. Note(InPlace(Heard(hist[cur]))) \/ Note(Heard(hist[cur]))
      BY <1>7 DEF Answered
    <2>3. Heard(hist[cur]) \in Hist /\ InPlace(Heard(hist[cur])) \in Hist
      BY <1>0, HeardType, InPlaceType
    <2>4. /\ pc' \notin {"sleep", "pass"} /\ pc \notin {"sleep", "pass"}
          /\ UNCHANGED <<disk, cur, dry, faults>>
      BY <1>7 DEF Answered
    <2> QED
      BY <1>6, <2>1, <2>2, <2>3, <2>4
  <1>8. ASSUME NEW ok \in BOOLEAN, Repair(ok) PROVE SilenceInv'
    <2>1. Heard(hist[cur]) \in Hist
      BY <1>0, HeardType
    <2>2. st'.ProbeFails = 0
      BY <1>0, <1>8, RepairedType DEF Repair
    <2> QED
      BY <1>6, <1>8, <2>1, <2>2 DEF Repair
  <1>9. CASE DryRepair \/ TellLost \/ OpsDone \/ \E c \in Channels : OpUnknown(c)
    <2>1. lag \in Nat
      BY WatchAssumption DEF TypeOK, Age
    <2>2. OpsDone => st'.ProbeFails = st.ProbeFails
      BY <1>0, <2>1, CaughtUpType DEF OpsDone
    <2> QED
      BY <1>1, <1>9, <2>2 DEF DryRepair, TellLost, OpsDone, OpUnknown
  <1>10. ASSUME NEW sent \in BOOLEAN, RecoverNick(sent) PROVE SilenceInv'
    <2>1. NextStep(st) \in 0..MaxSteps
      BY <1>0 DEF NextStep, WatchState, MaxSteps
    <2>2. /\ st' \in {st, Tried(st, NextStep(st))}
          /\ hist' = hist \/ Note(Attempted(hist[cur]))
      BY <1>10 DEF RecoverNick
    <2>3. st'.ProbeFails = st.ProbeFails
      BY <1>0, <2>1, <2>2, TriedType
    <2>4. \A n \in Networks : hist'[n].unanswered = hist[n].unanswered
      BY <1>0, <2>2, NoteValue, AttemptedType
    <2> QED
      BY <1>1, <1>10, <2>3, <2>4 DEF RecoverNick
  <1>11. ASSUME NEW ok \in BOOLEAN, ReconnectForNick(ok) PROVE SilenceInv'
    <2> DEFINE tried == Tried(st, 1)
    <2>1. tried \in WatchState /\ tried.ProbeFails = st.ProbeFails
      BY <1>0, TriedType DEF MaxSteps
    <2>2. /\ st' \in {st, tried}
          /\ hist' = hist \/ Note(Attempted(hist[cur]))
      BY <1>11 DEF ReconnectForNick
    <2> HIDE DEF tried
    <2>3. st'.ProbeFails = st.ProbeFails
      BY <1>0, <2>1, <2>2 DEF WatchState
    <2>4. \A n \in Networks : hist'[n].unanswered = hist[n].unanswered
      BY <1>0, <2>2, NoteValue, AttemptedType
    <2> QED
      BY <1>1, <1>11, <2>3, <2>4 DEF ReconnectForNick
  <1>12. ASSUME NEW c \in Channels,
                OpHeld(c) \/ \E sent \in BOOLEAN : OpMissing(c, sent)
         PROVE  SilenceInv'
    <2>1. \A age \in Age : [st EXCEPT !.OpLast[c] = age].ProbeFails = st.ProbeFails
      BY <1>0, DatedType
    <2>2. 0 \in Age /\ Cooldown \in Age
      BY WatchAssumption DEF Age
    <2>3. st' = st \/ \E age \in Age : st' = [st EXCEPT !.OpLast[c] = age]
      BY <1>12, <2>2 DEF OpHeld, OpMissing
    <2>4. st'.ProbeFails = st.ProbeFails
      <3>1. CASE st' = st
        BY <3>1
      <3>2. ASSUME NEW age \in Age, st' = [st EXCEPT !.OpLast[c] = age]
            PROVE  st'.ProbeFails = st.ProbeFails
        BY <2>1, <3>2
      <3> QED
        BY <2>3, <3>1, <3>2
    <2> QED
      BY <1>1, <1>12, <2>4 DEF OpHeld, OpMissing
  <1>13. CASE SaveState
    <2>1. pc = "save" /\ pc' = "pass" /\ disk' = Saved /\ UNCHANGED <<cur, dry, faults, hist>>
      BY <1>13 DEF SaveState
    <2>2. CASE dry
      BY <1>0, <2>1, <2>2 DEF Saved, SilenceInv, Checking, Slack
    <2>3. CASE ~dry
      <3>1. \A n \in Networks :
               disk'[StateFile[n]] = IF n = cur THEN st ELSE disk[StateFile[n]]
        BY <1>0, <2>1, <2>3 DEF Saved, OwnFile
      <3> QED
        BY <1>0, <2>1, <2>3, <3>1 DEF SilenceInv, Checking, Slack
    <2> QED
      BY <2>2, <2>3
  <1>14. CASE SaveFails \/ Crash
    BY <1>14, FaultForgives
  <1>15. CASE Tick
    <2>1. \A n \in Networks : disk'[StateFile[n]].ProbeFails = disk[StateFile[n]].ProbeFails
      BY <1>0, <1>15, AgedType DEF Tick
    <2>2. st'.ProbeFails = st.ProbeFails
      BY <1>0, <1>15, AgedType, WaitedType DEF Tick
    <2>3. \A h \in Hist : Elapsed(h).unanswered = h.unanswered
      BY DEF Elapsed, Hist
    <2>4. \A n \in Networks : hist'[n].unanswered = hist[n].unanswered
      BY <1>0, <1>15, <2>3 DEF Tick
    <2> QED
      BY <1>0, <1>15, <2>1, <2>2, <2>4 DEF Tick, SilenceInv, Checking, Slack
  <1>16. CASE World \/ UNCHANGED vars
    <2>1. UNCHANGED <<disk, pc, cur, st, dry, faults>>
      BY <1>16 DEF World, LinkChanges, NickChanges, OpsChange, vars, watcher
    <2>2. hist' = hist \/ \E n \in Networks : hist' = [hist EXCEPT ![n] = LostAnew(@)]
      BY <1>16 DEF World, LinkChanges, NickChanges, OpsChange, Becomes, vars
    <2>3. \A n \in Networks : hist'[n].unanswered = hist[n].unanswered
      BY <1>0, <2>2, LostAnewType
    <2> QED
      BY <1>0, <2>1, <2>3 DEF SilenceInv, Checking, Slack
  <1> QED
    BY <1>2, <1>3, <1>4, <1>5, <1>7, <1>8, <1>9, <1>10, <1>11, <1>12, <1>13,
       <1>14, <1>15, <1>16 DEF Next, Pass

(* No network is reconnected for silence before two probes of it went      *)
(* unanswered in a row, provided that each network has a state file of its *)
(* own; one lost save may count one of them twice (watch.go:153-161).      *)
THEOREM TwoSilencesBeforeRepair ==
  ASSUME OwnFile
  PROVE  Spec => RepairNeedsTwoSilent
  <1> DEFINE P == "repair" \in out'
                    => hist[cur].unanswered + (IF faults = 0 THEN 0 ELSE 1) >= 2
  <1>1. Init => SilenceInv
    BY SilenceInit
  <1>2. TypeInv /\ SilenceInv /\ [Next]_vars => SilenceInv'
    BY SilenceNext
  <1>3. ASSUME TypeInv, SilenceInv, [Next]_vars PROVE [P]_vars
    <2> SUFFICES ASSUME "repair" \in out', ~ UNCHANGED vars PROVE P
      OBVIOUS
    <2>1. PICK ok \in BOOLEAN : Repair(ok)
      <3>1. \A step \in 1..MaxSteps : "repair" \notin Lines(step)
        BY DEF Lines, MaxSteps
      <3>2. ASSUME NEW sent \in BOOLEAN, RecoverNick(sent) PROVE "repair" \notin out'
        <4>1. NextStep(st) \in 1..MaxSteps
          BY <1>3 DEF NextStep, WatchState, MaxSteps, TypeInv, TypeOK
        <4> QED
          BY <3>1, <3>2, <4>1 DEF RecoverNick
      <3>3. ASSUME NEW ok \in BOOLEAN, ReconnectForNick(ok) PROVE "repair" \notin out'
        BY <3>3 DEF ReconnectForNick
      <3>4. ASSUME World PROVE "repair" \notin out'
        BY <3>4 DEF World, LinkChanges, NickChanges, OpsChange
      <3>5. ASSUME \E c \in Channels : \/ OpUnknown(c)
                                       \/ OpHeld(c)
                                       \/ \E sent \in BOOLEAN : OpMissing(c, sent)
            PROVE  "repair" \notin out'
        BY <3>5 DEF OpUnknown, OpHeld, OpMissing
      <3>6. ASSUME \/ Run \/ EndPass \/ Answered \/ DryRepair \/ TellLost \/ OpsDone
                   \/ SaveState \/ SaveFails \/ Crash \/ Tick
                   \/ \E n \in Networks : Bind(n) \/ BindFails(n)
                   \/ Silent
            PROVE  "repair" \notin out'
        BY <3>6 DEF Run, EndPass, Answered, DryRepair, TellLost, OpsDone, SaveState,
             SaveFails, Crash, Tick, Bind, BindFails, Silent
      <3> QED
        BY <1>3, <3>2, <3>3, <3>4, <3>5, <3>6 DEF Next, Pass
    <2>2. Checking /\ st.ProbeFails = 2
      BY <1>3, <2>1 DEF Repair, Checking, TypeInv, CountInv
    <2> QED
      BY <1>3, <2>2 DEF SilenceInv, Slack
  <1> QED
    BY <1>1, <1>2, <1>3, TypeInvariant, PTL DEF Spec, RepairNeedsTwoSilent
=============================================================================
