---------------------------- MODULE PolicyText ----------------------------
(***************************************************************************)
(* The text of a policy file, as config.go reads it and policySetKey       *)
(* (server.go) edits it: a sequence of lines, each a section header, a     *)
(* "key = value", a comment or blank, or something the parser refuses.     *)
(* Spelling (case, spaces, quoting) is left out.                           *)
(***************************************************************************)
EXTENDS Naturals, Sequences, SequencesExt

CONSTANTS
    Nets,   \* networks, known by their names
    Values, \* values a key may have, among them ""
    Own     \* Own[n]: the op-channels the watcher's own configuration gives n

(* A section is a network's, or tells what holds for networks whose own    *)
(* section does not say.                                                   *)
Sections == Nets \cup {"default"}

ASSUME ValuesAssumption ==
    /\ "" \in Values /\ "unset" \notin Values
    /\ Own \in [Sections -> Values \cup {"unset"}]

(* Keys a policy may set (policyKeys), as far as they are told apart here, *)
(* and one it may not.                                                     *)
PolicyKeys == {"op-channels", "skip"}
Keys == PolicyKeys \cup {"password"}

Header(n) == [is |-> "header", name |-> n, value |-> ""]
KeyLine(k, v) == [is |-> "key", name |-> k, value |-> v]
Note == [is |-> "note", name |-> "", value |-> ""]
Junk == [is |-> "junk", name |-> "", value |-> ""]

Lines ==
    {Header(n) : n \in Sections} \cup {KeyLine(k, v) : k \in Keys, v \in Values} \cup {Note, Junk}

IsKey(line, k) == line.is = "key" /\ line.name = k

-----------------------------------------------------------------------------
(* config.go: what a text means.                                           *)

(* loadConfig gives up at the first line it does not understand.           *)
Parses(text) == \A i \in DOMAIN text : text[i].is # "junk"

(* The header above line i, 0 if there is none.                            *)
HeaderOf(text, i) ==
    SelectLastInSubSeq(text, 1, i, LAMBDA line : line.is = "header")

InSection(text, i, n) ==
    HeaderOf(text, i) # 0 /\ text[HeaderOf(text, i)] = Header(n)

(* What MergePolicy takes from the text for key k of network n: of several *)
(* lines, in one section or in several of that name, the last.             *)
Setting(text, n, k) ==
    LET I == {i \in DOMAIN text : IsKey(text[i], k) /\ InSection(text, i, n)}
    IN  IF I = {} THEN "unset" ELSE text[Max(I)].value

(* NetworkSection, of a configuration with this policy merged into it.     *)
OwnSetting(text, n, k) ==
    IF Setting(text, n, k) = "unset" /\ k = "op-channels" THEN Own[n] ELSE Setting(text, n, k)

Effective(text, n, k) ==
    LET said == {m \in {n, "default"} : OwnSetting(text, m, k) # "unset"}
    IN  IF said = {} THEN "" ELSE OwnSetting(text, IF n \in said THEN n ELSE "default", k)

(* The keys MergePolicy does not take.                                     *)
Refused(text) ==
    {text[i].name : i \in {j \in DOMAIN text : text[j].is = "key"}} \ PolicyKeys

-----------------------------------------------------------------------------
(* policySetKey, of the key "op-channels"; an empty value takes the key    *)
(* away.                                                                   *)

Key == "op-channels"

(* The header the search starts at: the first of that name.                *)
StartOf(text, n) == SelectInSeq(text, LAMBDA line : line = Header(n))

(* Not the code: the section goes on to the end of the file.               *)
NoEnd(text, start) == Len(text) + 1

(* The next header, of whatever section, or the end of the file.           *)
EndOf(text, start) ==
    LET next == SelectInSubSeq(text, start + 1, Len(text), LAMBDA line : line.is = "header")
    IN  IF next = 0 THEN Len(text) + 1 ELSE next

(* Not the code: the key is never found.                                   *)
NotFound(text, start) == 0

KeyAt(text, start) ==
    SelectInSubSeq(text, start + 1, EndOf(text, start) - 1, LAMBDA line : IsKey(line, Key))

SetKey(text, n, value) ==
    LET start == StartOf(text, n)
        at == KeyAt(text, start)
        line == KeyLine(Key, value)
    IN  CASE start = 0 /\ value = "" -> text
          [] start = 0 /\ value # "" -> text \o <<Header(n), line>>
          [] start # 0 /\ value = "" -> IF at = 0 THEN text ELSE RemoveAt(text, at)
          [] start # 0 /\ value # "" ->
                IF at = 0 THEN InsertAt(text, start + 1, line) ELSE ReplaceAt(text, at, line)

(* watcherOpChannels: one key after the other, for the networks of the     *)
(* form.                                                                   *)
SetAll(text, form) ==
    LET nets == SetToSeq(DOMAIN form)
        after[i \in 0..Len(nets)] ==
            IF i = 0 THEN text ELSE SetKey(after[i - 1], nets[i], form[nets[i]])
    IN  after[Len(nets)]

-----------------------------------------------------------------------------
(* opRows: the form as the page shows it.  Section takes the first section *)
(* of that name, whose last line for the key counts.                       *)

(* Not the code: the last section of that name.                            *)
LastOf(text, n) == SelectLastInSeq(text, LAMBDA line : line = Header(n))

FirstOf(text, n) == StartOf(text, n)

RowOf(text, n) ==
    LET start == FirstOf(text, n)
        at == SelectLastInSubSeq(text, start + 1, EndOf(text, start) - 1, LAMBDA line : IsKey(line, Key))
    IN  IF start = 0 \/ at = 0 THEN "" ELSE text[at].value

OpRows(text, nets) == [n \in nets |-> RowOf(text, n)]

-----------------------------------------------------------------------------
(* A text in which nothing is said twice.                                  *)
WellFormed(text) ==
    \A i, j \in DOMAIN text :
        /\ text[i] = text[j] /\ text[i].is = "header" => i = j
        /\ text[i].is = "key" /\ IsKey(text[j], text[i].name)
              /\ HeaderOf(text, i) = HeaderOf(text, j) => i = j
=============================================================================
