------------------------------- MODULE Watch -------------------------------
(***************************************************************************)
(* The watcher of soju-webadmin (watch.go): it makes passes over the       *)
(* networks soju calls connected, asks each one WHOIS through a connection *)
(* of its own, forces a reconnect after two unanswered probes in a row,    *)
(* and gets a lost nick back by escalating one step per pass.  What it     *)
(* must remember from one pass to the next is a small JSON file per        *)
(* network, so a crash between an action and the save loses the memory of  *)
(* that action and nothing else.                                           *)
(*                                                                         *)
(* Timestamps are kept as ages in clock ticks, saturated at Cooldown: the  *)
(* code only ever compares "now - last < cooldown", and a zero or missing  *)
(* timestamp is as good as an old one.                                     *)
(***************************************************************************)
EXTENDS Naturals, FiniteSets

CONSTANTS
    Networks,    \* the networks of the watched soju account
    Channels,    \* channel names that op-channels may list
    Files,       \* file names in the state directory
    StateFile,   \* StateFile[n]: the file statePath gives network n
    Skip,        \* networks whose section says skip = yes
    Reconnect,   \* networks whose section says recover = reconnect
    OpChannels,  \* OpChannels[n]: the op-channels of network n
    Cooldown,    \* nick-cooldown, in clock ticks
    DryRuns,     \* which passes there are: {FALSE}, or {FALSE, TRUE} to rehearse too
    MaxFaults    \* bound on crashes and failed saves

ASSUME WatchAssumption ==
    /\ StateFile \in [Networks -> Files]
    /\ Skip \subseteq Networks
    /\ Reconnect \subseteq Networks
    /\ OpChannels \in [Networks -> SUBSET Channels]
    /\ Cooldown \in Nat \ {0}
    /\ DryRuns \subseteq BOOLEAN
    /\ MaxFaults \in Nat

VARIABLES
    disk,     \* disk[f]: the watchState that loadState finds in file f
    pc,       \* where the pass is
    todo,     \* connected networks of this pass still to be checked
    cur,      \* the network being checked
    st,       \* its watchState, in memory
    current,  \* the nick soju welcomed the bound connection with
    chans,    \* channels keepOps still has to look at
    lag,      \* age of the clock reading keepOps goes by
    dry,      \* this pass is a dry run
    out,      \* what the last step did to the outside world
    link,     \* link[n]: soju's upstream connection, "zombie" if dead but held as connected
    nick,     \* nick[n]: whether we hold the wanted nick on n
    ops,      \* ops[n]: channels of n where we are opped
    faults,   \* crashes and failed saves so far
    hist,     \* hist[n], opHist[n]: what really happened, for the properties only
    opHist

watcher == <<pc, todo, cur, st, current, chans, lag, dry>>
world == <<link, nick, ops>>
vars == <<disk, watcher, out, world, faults, hist, opHist>>

MaxSteps == 3

-----------------------------------------------------------------------------
(* watchState, without LastRepair: it is only ever shown.                  *)

Age == 0..Cooldown

WatchState ==
    [NickStep : 0..MaxSteps, NickLast : Age, ProbeFails : 0..2,
     OpLast : [Channels -> Age]]

(* What loadState returns for a missing, empty or unreadable file. *)
Zero ==
    [NickStep |-> 0, NickLast |-> Cooldown, ProbeFails |-> 0,
     OpLast |-> [c \in Channels |-> Cooldown]]

Later(age, ticks) == IF age + ticks < Cooldown THEN age + ticks ELSE Cooldown

Older(age) == Later(age, 1)

Aged(s) ==
    [s EXCEPT !.NickLast = Older(@), !.OpLast = [c \in Channels |-> Older(@[c])]]

(* The history kept of a network: probes unanswered in a row since the     *)
(* last forced reconnect; attempts at the nick, since it was last lost,    *)
(* without a pause of Cooldown between two of them; the age of the last    *)
(* one; and attempts since the nick was last seen in place.  The history   *)
(* kept of a channel: requests for op, since it was last lost, without a   *)
(* pause, and the age of the last one.  What is lost is lost in the world, *)
(* whether or not the watcher ever sees it.  A dry run attempts nothing.   *)
NoHist ==
    [unanswered |-> 0, burst |-> 0, since |-> Cooldown, tries |-> 0]

NoOpHist == [burst |-> 0, since |-> Cooldown]

Saturate(k, limit) == IF k < limit THEN k + 1 ELSE limit

Paced(h) == IF h.since < Cooldown THEN h.burst + 1 ELSE 1

Unheard(h) == [h EXCEPT !.unanswered = Saturate(@, 2)]

Elapsed(h) == [h EXCEPT !.since = Older(@)]

Heard(h) == [h EXCEPT !.unanswered = 0]

InPlace(h) == [h EXCEPT !.tries = 0]

LostAnew(h) == [h EXCEPT !.burst = 0, !.since = Cooldown]

Attempted(h) ==
    [h EXCEPT !.burst = Paced(h), !.since = 0, !.tries = Saturate(@, MaxSteps)]

Note(h) == hist' = IF dry THEN hist ELSE [hist EXCEPT ![cur] = h]

NoteOp(c, h) == opHist' = IF dry THEN opHist ELSE [opHist EXCEPT ![cur][c] = h]

-----------------------------------------------------------------------------

PCs == {"sleep", "pass", "probe", "repair", "reclaim", "recover", "tell", "ops", "save"}
Effects == {"away", "repair", "reclaim", "nick", "recover", "identify", "op", "alert"}

Init ==
    /\ disk = [f \in Files |-> Zero]
    /\ pc = "sleep"
    /\ todo = {}
    /\ cur \in Networks
    /\ st = Zero
    /\ current = "wanted"
    /\ chans = {}
    /\ lag = 0
    /\ dry \in DryRuns
    /\ out = {}
    /\ link = [n \in Networks |-> "up"]
    /\ nick = [n \in Networks |-> "wanted"]
    /\ ops = OpChannels
    /\ faults = 0
    /\ hist = [n \in Networks |-> NoHist]
    /\ opHist = [n \in Networks |-> [c \in Channels |-> NoOpHist]]

-----------------------------------------------------------------------------
(* The pass: Run and the part of checkNetwork up to the probe.             *)

(* Run dials soju, lists the networks and takes the connected ones that    *)
(* are not skipped.  The list is not refreshed during the pass.            *)
Run ==
    /\ pc = "sleep"
    /\ dry' \in DryRuns
    /\ todo' = {n \in Networks \ Skip : link[n] # "down"}
    /\ pc' = "pass"
    /\ out' = {}
    /\ UNCHANGED <<disk, cur, st, current, chans, lag, world, faults, hist, opHist>>

EndPass ==
    /\ pc = "pass"
    /\ todo = {}
    /\ pc' = "sleep"
    /\ out' = {}
    /\ UNCHANGED <<disk, todo, cur, st, current, chans, lag, dry, world, faults, hist, opHist>>

(* checkNetwork loads the state and binds to the network; soju welcomes    *)
(* the connection with the nick it has upstream.  The first line over it   *)
(* is AWAY, in a dry run too.                                              *)
Bind(n) ==
    /\ pc = "pass"
    /\ n \in todo
    /\ todo' = todo \ {n}
    /\ cur' = n
    /\ st' = disk[StateFile[n]]
    /\ current' = nick[n]
    /\ pc' = "probe"
    /\ out' = {"away"}
    /\ UNCHANGED <<disk, chans, lag, dry, world, faults, hist, opHist>>

(* A bind that fails returns before anything is counted or saved. *)
BindFails(n) ==
    /\ pc = "pass"
    /\ n \in todo
    /\ todo' = todo \ {n}
    /\ out' = {}
    /\ UNCHANGED <<disk, pc, cur, st, current, chans, lag, dry, world, faults, hist, opHist>>

-----------------------------------------------------------------------------
(* The probe and what checkNetwork makes of it.                            *)

(* Not the code: the first silence repairs; only the third does. *)
OneSilence == 1
ThreeSilences == 3

SilentBeforeRepair == 2

(* Not the code: the first silence returns without a save. *)
SilenceNotSaved(s) == IF s.ProbeFails >= SilentBeforeRepair THEN "repair" ELSE "pass"

AfterSilent(s) == IF s.ProbeFails >= SilentBeforeRepair THEN "repair" ELSE "save"

(* No answer: the WHOIS timed out, or the connection to soju broke while   *)
(* it was awaited.  probe tells checkNetwork the same thing in both cases. *)
(* A slow network may time out as well as a dead one.                      *)
Silent ==
    /\ pc = "probe"
    /\ st' = [st EXCEPT !.ProbeFails = @ + 1]
    /\ pc' = AfterSilent(st')
    /\ Note(Unheard(hist[cur]))
    /\ out' = {}
    /\ UNCHANGED <<disk, todo, cur, current, chans, lag, dry, world, faults, opHist>>

(* Not the code: the nick is back and the step reached is kept. *)
StepKept(s) == s

ForgetNick(s) ==
    IF s.NickStep > 0 THEN [s EXCEPT !.NickStep = 0, !.NickLast = Cooldown] ELSE s

(* An answer: the count starts again; the nick decides what comes next.    *)
Answered ==
    /\ pc = "probe"
    /\ link[cur] # "zombie"
    /\ LET alive == [st EXCEPT !.ProbeFails = 0]
           heard == Heard(hist[cur])
       IN  \/ /\ current = "wanted"
              /\ st' = ForgetNick(alive)
              /\ Note(InPlace(heard))
              /\ chans' = OpChannels[cur]
              /\ pc' = "ops"
           \/ /\ current = "other"
              /\ st' = alive
              /\ Note(heard)
              /\ chans' = chans
              /\ pc' = IF cur \in Reconnect THEN "reclaim" ELSE "recover"
    /\ out' = {}
    /\ lag' = 0
    /\ UNCHANGED <<disk, todo, cur, current, dry, world, faults, opHist>>

-----------------------------------------------------------------------------
(* "network update -addr" through BouncerServ: soju drops the upstream     *)
(* connection and dials again.  When no answer came back, soju may have    *)
(* done it or not.                                                         *)
Redial(ok) ==
    \/ link' = [link EXCEPT ![cur] = "down"]
    \/ ~ok /\ link' = link

(* Not the code: the silences that led to a repair are counted again. *)
SilencesKept(s) == s

Repaired(s) == [s EXCEPT !.ProbeFails = 0]

(* repair: the second silence in a row.  The count is reset and an alert   *)
(* is sent whether or not soju accepted the command.                       *)
Repair(ok) ==
    /\ pc = "repair"
    /\ ~dry
    /\ Redial(ok)
    /\ st' = Repaired(st)
    /\ Note(Heard(hist[cur]))
    /\ out' = {"repair", "alert"}
    /\ pc' = "save"
    /\ UNCHANGED <<disk, todo, cur, current, chans, lag, dry, nick, ops, faults, opHist>>

DryRepair ==
    /\ pc = "repair"
    /\ dry
    /\ pc' = "save"
    /\ out' = {}
    /\ UNCHANGED <<disk, todo, cur, st, current, chans, lag, dry, world, faults, hist, opHist>>

-----------------------------------------------------------------------------
(* recoverNick: one step per pass, then a pause.                           *)

(* Not the code: no pause, or a pause without an end. *)
NoPause(s) == FALSE
EndlessPause(s) == s.NickStep >= MaxSteps

CoolingDown(s) == s.NickStep >= MaxSteps /\ s.NickLast < Cooldown

NextStep(s) == IF s.NickStep >= MaxSteps THEN 1 ELSE s.NickStep + 1

Lines(step) ==
    CASE step = 1 -> {"nick"}
      [] step = 2 -> {"recover", "nick"}
      [] step = 3 -> {"identify", "recover", "nick"}

Tried(s, step) == [s EXCEPT !.NickStep = step, !.NickLast = 0]

(* A line that cannot be sent is logged, and the attempt counts all the    *)
(* same: sent says whether the bound connection still took them.           *)
RecoverNick(sent) ==
    /\ pc = "recover"
    /\ \/ /\ CoolingDown(st)
          /\ pc' = "save"
          /\ out' = {}
          /\ UNCHANGED <<st, hist>>
       \/ /\ ~CoolingDown(st)
          /\ LET step == NextStep(st)
             IN  /\ st' = Tried(st, step)
                 /\ out' = IF dry \/ ~sent THEN {} ELSE Lines(step)
                 /\ pc' = IF step = MaxSteps THEN "tell" ELSE "save"
          /\ Note(Attempted(hist[cur]))
    /\ UNCHANGED <<disk, todo, cur, current, chans, lag, dry, world, faults, opHist>>

(* The alert that ends the third attempt; recoverNick does not look again  *)
(* at the nick, nor at dry, before sending it.                             *)
TellLost ==
    /\ pc = "tell"
    /\ out' = {"alert"}
    /\ pc' = "save"
    /\ UNCHANGED <<disk, todo, cur, st, current, chans, lag, dry, world, faults, hist, opHist>>

(* reconnectForNick: on a network with SASL only, a reconnect is the one   *)
(* attempt, at most one per cooldown.                                      *)
(* Not the code: the condition recoverNick uses. *)
ReclaimedThrice(s) == s.NickStep >= MaxSteps /\ s.NickLast < Cooldown

Reclaimed(s) == s.NickStep > 0 /\ s.NickLast < Cooldown

ReconnectForNick(ok) ==
    /\ pc = "reclaim"
    /\ pc' = "save"
    /\ \/ /\ Reclaimed(st)
          /\ out' = {}
          /\ UNCHANGED <<st, hist, link>>
       \/ /\ ~Reclaimed(st)
          /\ dry
          /\ st' = Tried(st, 1)
          /\ out' = {}
          /\ UNCHANGED <<hist, link>>
       \/ /\ ~Reclaimed(st)
          /\ ~dry
          /\ Redial(ok)
          /\ st' = Tried(st, 1)
          /\ out' = IF ok THEN {"reclaim"} ELSE {"reclaim", "alert"}
          /\ Note(Attempted(hist[cur]))
    /\ UNCHANGED <<disk, todo, cur, current, chans, lag, dry, nick, ops, faults, opHist>>

-----------------------------------------------------------------------------
(* keepOps: for each channel, look (isOpped) and ask.  The loop reads the  *)
(* clock once, before the first channel, however long the answers take: as *)
(* long as it runs OpLast is kept as of then, lag ticks ago.               *)

(* Not the code: every pass asks. *)
NeverAsked(s, c) == FALSE

AskedLately(s, c) == s.OpLast[c] < Cooldown

(* isOpped answers nothing: NAMES failed, timed out, or does not list us. *)
OpUnknown(c) ==
    /\ pc = "ops"
    /\ c \in chans
    /\ chans' = chans \ {c}
    /\ out' = {}
    /\ UNCHANGED <<disk, pc, todo, cur, st, current, lag, dry, world, faults, hist, opHist>>

OpHeld(c) ==
    /\ pc = "ops"
    /\ c \in chans \cap ops[cur]
    /\ chans' = chans \ {c}
    /\ st' = [st EXCEPT !.OpLast[c] = Cooldown]
    /\ out' = {}
    /\ UNCHANGED <<disk, pc, todo, cur, current, lag, dry, world, faults, hist, opHist>>

(* The request is dated only when it could be sent, and as of the reading  *)
(* of the clock.                                                           *)
OpMissing(c, sent) ==
    /\ pc = "ops"
    /\ c \in chans \ ops[cur]
    /\ chans' = chans \ {c}
    /\ IF AskedLately(st, c) \/ (~dry /\ ~sent)
       THEN out' = {} /\ UNCHANGED <<st, opHist>>
       ELSE /\ st' = [st EXCEPT !.OpLast[c] = 0]
            /\ out' = IF dry THEN {} ELSE {"op"}
            /\ NoteOp(c, [burst |-> Paced(opHist[cur][c]), since |-> lag])
    /\ UNCHANGED <<disk, pc, todo, cur, current, lag, dry, world, faults, hist>>

OpsDone ==
    /\ pc = "ops"
    /\ chans = {}
    /\ st' = [st EXCEPT !.OpLast = [c \in Channels |-> Later(@[c], lag)]]
    /\ lag' = 0
    /\ pc' = "save"
    /\ out' = {}
    /\ UNCHANGED <<disk, todo, cur, current, chans, dry, world, faults, hist, opHist>>

-----------------------------------------------------------------------------
(* saveState, and what can go wrong with it.                               *)

(* Not the code: a dry run saves too. *)
SavedAnyway == [disk EXCEPT ![StateFile[cur]] = st]

Saved == IF dry THEN disk ELSE [disk EXCEPT ![StateFile[cur]] = st]

SaveState ==
    /\ pc = "save"
    /\ disk' = Saved
    /\ st' = Zero
    /\ pc' = "pass"
    /\ out' = {}
    /\ UNCHANGED <<todo, cur, current, chans, lag, dry, world, faults, hist, opHist>>

(* The file as an interrupted os.WriteFile leaves it: untouched, or        *)
(* truncated, which loadState reads as Zero.                               *)
Torn(f) ==
    \/ disk' = disk
    \/ ~dry /\ disk' = [disk EXCEPT ![f] = Zero]

SaveFails ==
    /\ pc = "save"
    /\ ~dry
    /\ faults < MaxFaults
    /\ faults' = faults + 1
    /\ Torn(StateFile[cur])
    /\ st' = Zero
    /\ pc' = "pass"
    /\ out' = {}
    /\ UNCHANGED <<todo, cur, current, chans, lag, dry, world, hist, opHist>>

(* The process dies in the middle of a pass. *)
Crash ==
    /\ pc # "sleep"
    /\ faults < MaxFaults
    /\ faults' = faults + 1
    /\ IF pc = "save" THEN Torn(StateFile[cur]) ELSE disk' = disk
    /\ pc' = "sleep"
    /\ todo' = {}
    /\ st' = Zero
    /\ chans' = {}
    /\ lag' = 0
    /\ out' = {}
    /\ UNCHANGED <<cur, current, dry, world, hist, opHist>>

-----------------------------------------------------------------------------
(* The world: the clock, the upstream connections, nicks and ops.          *)

Tick ==
    /\ disk' = [f \in Files |-> Aged(disk[f])]
    /\ IF pc = "ops"
       THEN lag' = Older(lag) /\ st' = [st EXCEPT !.NickLast = Older(@)]
       ELSE lag' = lag /\ st' = Aged(st)
    /\ hist' = [n \in Networks |-> Elapsed(hist[n])]
    /\ opHist' = [n \in Networks |-> [c \in Channels |-> Elapsed(opHist[n][c])]]
    /\ out' = {}
    /\ UNCHANGED <<pc, todo, cur, current, chans, dry, world, faults>>

(* Another nick of ours from now on, lost if it is not the wanted one.     *)
Becomes(n, k) ==
    /\ nick' = [nick EXCEPT ![n] = k]
    /\ hist' = IF nick[n] = "wanted" /\ k = "other"
               THEN [hist EXCEPT ![n] = LostAnew(@)] ELSE hist

(* The socket dies and soju does not notice, or it notices, or it has      *)
(* dialled again and registered with one nick or the other.                *)
LinkChanges(n) ==
    /\ \/ link[n] = "up" /\ link' = [link EXCEPT ![n] = "zombie"] /\ UNCHANGED <<nick, hist>>
       \/ link[n] # "down" /\ link' = [link EXCEPT ![n] = "down"] /\ UNCHANGED <<nick, hist>>
       \/ /\ link[n] = "down"
          /\ link' = [link EXCEPT ![n] = "up"]
          /\ \E k \in {"wanted", "other"} : Becomes(n, k)
    /\ out' = {}
    /\ UNCHANGED <<disk, watcher, ops, faults, opHist>>

(* The nick is lost, or comes back: by services, by NICK, by the user. *)
NickChanges(n) ==
    /\ link[n] = "up"
    /\ \E k \in {"wanted", "other"} \ {nick[n]} : Becomes(n, k)
    /\ out' = {}
    /\ UNCHANGED <<disk, watcher, link, ops, faults, opHist>>

OpsChange(n) ==
    /\ \E c \in OpChannels[n] :
          \/ /\ c \in ops[n]
             /\ ops' = [ops EXCEPT ![n] = @ \ {c}]
             /\ opHist' = [opHist EXCEPT ![n][c] = NoOpHist]
          \/ /\ c \notin ops[n]
             /\ ops' = [ops EXCEPT ![n] = @ \cup {c}]
             /\ opHist' = opHist
    /\ out' = {}
    /\ UNCHANGED <<disk, watcher, link, nick, faults, hist>>

-----------------------------------------------------------------------------

Pass ==
    \/ Run
    \/ EndPass
    \/ \E n \in Networks : Bind(n) \/ BindFails(n)
    \/ Silent
    \/ Answered
    \/ \E ok \in BOOLEAN : Repair(ok) \/ ReconnectForNick(ok)
    \/ DryRepair
    \/ \E sent \in BOOLEAN : RecoverNick(sent)
    \/ TellLost
    \/ \E c \in Channels :
          OpUnknown(c) \/ OpHeld(c) \/ \E sent \in BOOLEAN : OpMissing(c, sent)
    \/ OpsDone
    \/ SaveState

World == \E n \in Networks : LinkChanges(n) \/ NickChanges(n) \/ OpsChange(n)

Next == Pass \/ SaveFails \/ Crash \/ Tick \/ World

Spec == Init /\ [][Next]_vars

(* Fairness.  The timer (or RunForever) starts pass after pass and a pass  *)
(* runs on; time passes.  soju is there often enough: a network that keeps *)
(* being bound is in the end bound, one that keeps being probed over a     *)
(* live connection in the end answers, and a forced reconnect that keeps   *)
(* being asked for is in the end done.                                     *)
Fairness ==
    /\ WF_vars(Pass)
    /\ WF_vars(Tick)
    /\ \A n \in Networks : SF_vars(Bind(n))
    /\ \A n \in Networks : SF_vars(Answered /\ cur = n /\ link[n] = "up")
    /\ \A n \in Networks : SF_vars(Repair(TRUE) /\ cur = n)

FairSpec == Spec /\ Fairness

-----------------------------------------------------------------------------
(* Types, and what the properties say.                                     *)

Hist ==
    [unanswered : 0..2, burst : Nat, since : Age, tries : 0..MaxSteps]

OpHist == [burst : Nat, since : Age]

(* Every variable keeps its type; the silences saveState writes never      *)
(* reach the threshold at which a repair resets them (watch.go:156-161).   *)
TypeOK ==
    /\ disk \in [Files -> WatchState]
    /\ \A f \in Files : disk[f].ProbeFails \in 0..1
    /\ pc \in PCs
    /\ todo \in SUBSET Networks
    /\ cur \in Networks
    /\ st \in WatchState
    /\ current \in {"wanted", "other"}
    /\ chans \in SUBSET Channels
    /\ lag \in Age
    /\ dry \in BOOLEAN
    /\ out \in SUBSET Effects
    /\ link \in [Networks -> {"up", "zombie", "down"}]
    /\ nick \in [Networks -> {"wanted", "other"}]
    /\ ops \in [Networks -> SUBSET Channels]
    /\ faults \in 0..MaxFaults
    /\ hist \in [Networks -> Hist]
    /\ opHist \in [Networks -> [Channels -> OpHist]]

(* "two in a row force a reconnect" (README.md:50): a forced reconnect of  *)
(* a network takes two probes of that network, unanswered one after the    *)
(* other and after the previous reconnect.  A repair whose save is lost    *)
(* (watch.go:159-161) leaves one silence on file that has been used.       *)
RepairNeedsTwoSilent ==
    [][ "repair" \in out'
          => hist[cur].unanswered + (IF faults = 0 THEN 0 ELSE 1) >= 2 ]_vars

Budget(n) == IF n \in Reconnect THEN 1 ELSE MaxSteps

(* "one step per pass, then an hour's pause" (README.md:52): each time the *)
(* nick is lost, services and NICK are bothered at most three times        *)
(* without a pause of nick-cooldown, and a SASL network is reconnected at  *)
(* most once, however the nick comes back and what the watcher sees of it; *)
(* each lost save costs at most one more round.                            *)
EscalationPaced == \A n \in Networks : hist[n].burst <= Budget(n) * (1 + faults)

(* Each time op in a channel is lost, ChanServ is asked for it at most     *)
(* once per cooldown, from the beginning of one round of channels to that  *)
(* of another, and once more for each lost save (watch.go:354-381).        *)
OpPaced ==
    \A n \in Networks : \A c \in OpChannels[n] : opHist[n][c].burst <= 1 + faults

(* The escalation is the one a person would do, in its order: identify is  *)
(* tried only after two attempts in this loss of the nick, and recover     *)
(* only after one (watch.go:293-308).                                      *)
EscalationInOrder ==
    [][ faults = 0
          => /\ "recover" \in out' => hist[cur].tries >= 1
             /\ "identify" \in out' => hist[cur].tries >= 2 ]_vars

(* A dry run leaves every state file as it was (time passes), and but for  *)
(* its questions (WHOIS, NAMES) and AWAY on its own connections it sends   *)
(* soju and the networks nothing (watch.go:221, 235, 283, 327, 369).       *)
DryRunChangesNothing ==
    [][ dry /\ dry' => /\ disk' \in {disk, [f \in Files |-> Aged(disk[f])]}
                        /\ out' \subseteq {"away", "alert"} ]_vars

(* A network soju holds as connected over a dead socket does not stay so:  *)
(* the silences accumulate on file, from pass to pass, to a reconnect.     *)
ZombieCleared ==
    \A n \in Networks : link[n] = "zombie" ~> link[n] # "zombie"

(* A nick that stays lost on a live connection is asked for again and      *)
(* again: a pause is over one day, and the escalation starts anew.         *)
NeverGivesUp ==
    \A n \in Networks :
        <>[](link[n] = "up" /\ nick[n] = "other") => []<>(hist[n].since = 0)

-----------------------------------------------------------------------------
(* What the documentation says and the code does not do.                   *)

(* "-watch-dry-run: report what it would do and change nothing"            *)
(* (main.go:30): no alert command is run in a dry run.                     *)
DryRunSendsNoAlert == [][ "alert" \in out' => ~dry ]_vars
==============================================================================
