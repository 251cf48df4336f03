------------------------------- MODULE Policy -------------------------------
(***************************************************************************)
(* The watcher's policy file.  Administrators edit it through the web      *)
(* interface: as a text (watcherPolicy), or as a form of op-channels that  *)
(* is worked into the text found on disk (watcherOpChannels).  Both write  *)
(* the file in place with os.WriteFile, which truncates it first, and      *)
(* neither takes a lock.  The watcher, another process, reads the file     *)
(* when it starts (main.go).                                               *)
(***************************************************************************)
EXTENDS PolicyText

CONSTANTS
    Admins,     \* requests of administrators
    FirstTexts, \* what the file may hold at first
    PageTexts,  \* texts posted as a whole
    Forms,      \* forms posted: functions from networks to values
    Modes,      \* how the watcher runs: "once" (-watch-once) or "forever"
    MaxSaves,   \* bound on posts
    MaxFaults   \* bound on writes that fail

ASSUME PolicyAssumption ==
    /\ IsFiniteSet(Nets)
    /\ Modes \subseteq {"once", "forever"}
    /\ MaxSaves \in Nat /\ MaxFaults \in Nat
    /\ FirstTexts \subseteq Seq(Lines) /\ PageTexts \subseteq Seq(Lines)
    /\ \A t \in FirstTexts : Parses(t) /\ Refused(t) = {}
    /\ \A f \in Forms : f \in [DOMAIN f -> Values] /\ DOMAIN f \subseteq Nets

VARIABLES
    file,    \* the policy file
    torn,    \* it does not hold the text of a save, whole
    admin,   \* admin[a]: what request a is doing
    alone,   \* alone[a]: nobody else has touched the file since a read it
    posts,   \* posts so far
    faults,  \* writes that failed so far
    watch    \* the watcher: what it is doing, how, and the policy it read

vars == <<file, torn, admin, alone, posts, faults, watch>>

NoForm == <<>>

Idle == [at |-> "idle", form |-> NoForm, read |-> <<>>, text |-> <<>>]

Off == [at |-> "off", mode |-> "once", policy |-> <<>>]

Init ==
    /\ file \in FirstTexts
    /\ torn = FALSE
    /\ admin = [a \in Admins |-> Idle]
    /\ alone = [a \in Admins |-> FALSE]
    /\ posts = 0 /\ faults = 0
    /\ watch = Off

Writing == {a \in Admins : admin[a].at = "write"}

(* The others are no longer alone with the file. *)
Disturb(a) == alone' = [b \in Admins |-> b = a /\ alone[b]]

-----------------------------------------------------------------------------
(* The handlers.                                                           *)

(* Not the code: a text that parses is good enough, or any text.           *)
AcceptsSecrets(text) == Parses(text)
AcceptsAll(text) == TRUE

Accepts(text) == Parses(text) /\ Refused(text) = {}

(* watcherPolicy, past its checks of who asks: the text is checked in a    *)
(* temporary file, and saved if it parses and sets nothing a policy may    *)
(* not set.                                                                *)
PostText(a, text) ==
    /\ admin[a].at = "idle"
    /\ posts < MaxSaves
    /\ posts' = posts + 1
    /\ IF Accepts(text)
       THEN admin' = [admin EXCEPT ![a] = [Idle EXCEPT !.at = "open", !.text = text]]
       ELSE admin' = admin
    /\ alone' = [alone EXCEPT ![a] = FALSE]
    /\ UNCHANGED <<file, torn, faults, watch>>

(* watcherOpChannels reads the file as it is, and checks the outcome for   *)
(* its syntax only.                                                        *)
PostForm(a, form) ==
    /\ admin[a].at = "idle"
    /\ posts < MaxSaves
    /\ posts' = posts + 1
    /\ LET text == SetAll(file, form)
       IN  IF Parses(text)
           THEN admin' = [admin EXCEPT
                            ![a] = [at |-> "open", form |-> form, read |-> file, text |-> text]]
           ELSE admin' = admin
    /\ alone' = [alone EXCEPT ![a] = Writing = {}]
    /\ UNCHANGED <<file, torn, faults, watch>>

(* os.WriteFile: open with O_TRUNC, then write.                            *)
Truncate(a) ==
    /\ admin[a].at = "open"
    /\ admin' = [admin EXCEPT ![a].at = "write"]
    /\ file' = <<>>
    /\ torn' = TRUE
    /\ Disturb(a)
    /\ UNCHANGED <<posts, faults, watch>>

(* What another request has written meanwhile shows behind a shorter text, *)
(* its first line cut or not.                                              *)
Over(text, old) ==
    IF Len(old) <= Len(text) THEN {text}
    ELSE LET rest == SubSeq(old, Len(text) + 1, Len(old))
         IN  {text \o rest, text \o <<Junk>> \o Tail(rest)}

Write(a) ==
    /\ admin[a].at = "write"
    /\ file' \in Over(admin[a].text, file)
    /\ torn' = (file' # admin[a].text)
    /\ admin' = [admin EXCEPT ![a].at = "saved"]
    /\ Disturb(a)
    /\ UNCHANGED <<posts, faults, watch>>

(* What is there of a line that is cut: a value that ends too early is one *)
(* all the same.                                                           *)
Cut(line) ==
    IF line.is = "key" THEN {Junk} \cup {KeyLine(line.name, v) : v \in Values}
    ELSE IF line.is = "note" THEN {Note} ELSE {Junk}

Parts(text) ==
    {SubSeq(text, 1, j) : j \in 0..Len(text)}
    \cup UNION {{SubSeq(text, 1, j) \o <<line>> : line \in Cut(text[j + 1])} : j \in 0..Len(text) - 1}

(* The disk is full, or the process dies: a part of the text is written,   *)
(* its last line cut or not.                                               *)
WriteFails(a) ==
    /\ admin[a].at = "write"
    /\ faults < MaxFaults
    /\ faults' = faults + 1
    /\ \E part \in Parts(admin[a].text) : file' \in Over(part, file)
    /\ torn' = TRUE
    /\ admin' = [admin EXCEPT ![a] = Idle]
    /\ Disturb(a)
    /\ UNCHANGED <<posts, watch>>

(* "saved; the watcher picks it up on its next pass" is what a is told.    *)
Report(a) ==
    /\ admin[a].at = "saved"
    /\ admin' = [admin EXCEPT ![a] = Idle]
    /\ UNCHANGED <<file, torn, alone, posts, faults, watch>>

-----------------------------------------------------------------------------
(* The watcher.  A file that does not parse ends the process at once.      *)

StartWatcher(mode) ==
    /\ watch.at = "off"
    /\ Parses(file)
    /\ watch' = [at |-> "pass", mode |-> mode, policy |-> file]
    /\ UNCHANGED <<file, torn, admin, alone, posts, faults>>

EndPass ==
    /\ watch.at = "pass"
    /\ watch' = IF watch.mode = "once" THEN Off ELSE [watch EXCEPT !.at = "sleep"]
    /\ UNCHANGED <<file, torn, admin, alone, posts, faults>>

NextPass ==
    /\ watch.at = "sleep"
    /\ watch' = [watch EXCEPT !.at = "pass"]
    /\ UNCHANGED <<file, torn, admin, alone, posts, faults>>

-----------------------------------------------------------------------------

Next ==
    \/ \E a \in Admins :
          \/ \E t \in PageTexts : PostText(a, t)
          \/ \E f \in Forms : PostForm(a, f)
          \/ Truncate(a) \/ Write(a) \/ WriteFails(a) \/ Report(a)
    \/ \E mode \in Modes : StartWatcher(mode)
    \/ EndPass \/ NextPass

Spec == Init /\ [][Next]_vars

-----------------------------------------------------------------------------
(* Types, and what the properties say.                                     *)

IsText(text) == text \in Seq(Lines)

(* Every variable keeps its type; only a text that parses is on its way to *)
(* the file, and the watcher never runs on another.                        *)
TypeOK ==
    /\ IsText(file)
    /\ torn \in BOOLEAN
    /\ \A a \in Admins :
          /\ admin[a].at \in {"idle", "open", "write", "saved"}
          /\ admin[a].form \in Forms \cup {NoForm}
          /\ IsText(admin[a].read)
          /\ IsText(admin[a].text) /\ Parses(admin[a].text)
    /\ alone \in [Admins -> BOOLEAN]
    /\ posts \in 0..MaxSaves /\ faults \in 0..MaxFaults
    /\ watch.at \in {"off", "sleep", "pass"} /\ watch.mode \in {"once", "forever"}
    /\ IsText(watch.policy) /\ Parses(watch.policy)

(* A file that holds the text of a save, whole, is one the watcher takes   *)
(* without complaint, although a form is checked for its syntax only and   *)
(* may have been worked into a text someone else was in the middle of      *)
(* writing (server.go:736-747, 799-802; "credentials never go there",      *)
(* README.md:63).                                                          *)
FileValid == ~torn => Parses(file) /\ Refused(file) = {}

Saved(a) == admin[a].at = "saved" /\ admin[a].form # NoForm /\ alone[a]

(* What holds for network n if no section of its own says so.              *)
Fallback(text, n) ==
    IF Own[n] # "unset" THEN Own[n] ELSE Effective(text, "default", Key)

(* A form of op-channels that was saved without interference, into a text  *)
(* that says nothing twice, is in effect: the watcher reads for every      *)
(* network what the form says, and no channels where it is left blank      *)
(* ("leave a network blank to switch it off", locales/en.json:128).  The   *)
(* code does not keep to that for a blank row of a network that the        *)
(* watcher's own configuration or the default section names channels for:  *)
(* this is excepted (server.go:775-782, 811-862, config.go:51-93).         *)
FormInEffect ==
    \A a \in Admins : Saved(a) /\ WellFormed(admin[a].read)
        => \A n \in DOMAIN admin[a].form :
              \/ Effective(file, n, Key) = admin[a].form[n]
              \/ admin[a].form[n] = "" /\ Fallback(file, n) # ""

(* The table of op-channels, saved as the page shows it, changes nothing   *)
(* that is in effect, although the page shows a network's first section,   *)
(* without the default, and the watcher merges all of them.  A line that   *)
(* sets op-channels to nothing is an exception: it would be removed, and   *)
(* the default hold instead (server.go:683, 811-862, config.go:42-93).     *)
ResaveHarmless ==
    KeyLine(Key, "") \notin Range(file)
        => LET again == SetAll(file, OpRows(file, Nets))
           IN  \A n \in Nets, k \in PolicyKeys : Effective(again, n, k) = Effective(file, n, k)

(* A form saved so, into a text that says nothing twice, changes nothing   *)
(* else: not another key, not another network, and it leaves a text that   *)
(* says nothing twice (server.go:834-861).                                 *)
OthersKept ==
    \A a \in Admins : Saved(a) /\ WellFormed(admin[a].read)
        => /\ WellFormed(file)
           /\ \A n \in Sections, k \in Keys :
                 k # Key \/ n \notin DOMAIN admin[a].form
                    => Setting(file, n, k) = Setting(admin[a].read, n, k)

-----------------------------------------------------------------------------
(* What the documentation says and the code does not do.                   *)

(* "the watcher picks it up on its next pass" (server.go:753, 808): a pass *)
(* that begins while nobody is writing runs on the policy in the file.     *)
PassReadsSaved ==
    [][ watch.at # "pass" /\ watch'.at = "pass" /\ Writing = {}
          => watch'.policy = file ]_vars
=============================================================================
