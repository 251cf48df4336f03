-------------------------------- MODULE Text --------------------------------
(***************************************************************************)
(* What becomes of the words a user enters, on their way to soju and back, *)
(* of the languages a browser asks for, and of the watcher's log.  There   *)
(* is no program in this module: a text, a header and a log grow to every  *)
(* one there is within the bounds, and the properties say what the         *)
(* functions of Irc, Languages and WatchLog make of them.  soju itself is  *)
(* external: it is taken to read commands for BouncerServ as splitWords    *)
(* does, and to read and write tags as irc.go does.                        *)
(***************************************************************************)
EXTENDS Languages, WatchLog

CONSTANTS
    Letters,   \* what a text is made of
    MaxText,   \* bound on its length
    MaxHeader, \* bound on the preferences of a header
    MaxLog     \* bound on the length of a log

ASSUME TextAssumption ==
    /\ Letters \cap {"\r", "\n"} = {}
    /\ MaxText \in Nat /\ MaxHeader \in Nat /\ MaxLog \in Nat

VARIABLES
    text,   \* a form field, or a command typed into the console
    header, \* Accept-Language
    log     \* the watcher's log

vars == <<text, header, log>>

Init == text = <<>> /\ header = <<>> /\ log = <<>>

Type(c) ==
    /\ header = <<>> /\ log = <<>> /\ Len(text) < MaxText
    /\ text' = Append(text, c)
    /\ UNCHANGED <<header, log>>

Ask(p) ==
    /\ text = <<>> /\ log = <<>> /\ Len(header) < MaxHeader
    /\ header' = Append(header, p)
    /\ UNCHANGED <<text, log>>

Write(c) ==
    /\ text = <<>> /\ header = <<>> /\ Len(log) < MaxLog
    /\ log' = Append(log, c)
    /\ UNCHANGED <<text, header>>

Next ==
    \/ \E c \in Letters : Type(c)
    \/ \E p \in Preferences : Ask(p)
    \/ \E c \in {"a", "\n"} : Write(c)

Spec == Init /\ [][Next]_vars

-----------------------------------------------------------------------------
(* Commands for BouncerServ.                                               *)

(* Commands with the text for an argument, and the text typed as a command.*)
Commands ==
    {<<text>>, << <<"update">>, text>>, <<text, <<"-nick">>, <<>> >>}
        \cup (IF Typed(text).ok /\ TrimSpace(text) # <<>> THEN {Typed(text).words} ELSE {})

Received(args) == SplitWords(Param(SojuParse(ServLine(args)), 1))

(* servQuote leaves an apostrophe alone, splitWords begins a quotation.    *)
Apostrophe(arg) == Plain(arg) /\ "'" \in ToSet(arg)

(* BouncerServ gets the arguments that a handler means, or that splitWords *)
(* found in what was typed, whatever blanks, quotes, backslashes and       *)
(* colons are in them, unless there is an apostrophe in one that gives no  *)
(* other reason for quotes (client.go:367-379, irc.go:75-87, 150-193).     *)
CommandCarried ==
    \A args \in Commands :
        (\E i \in DOMAIN args : Apostrophe(args[i]))
            \/ Received(args) = [ok |-> TRUE, words |-> args]

-----------------------------------------------------------------------------
(* Networks and channels.                                                  *)

Id == <<"7">>

HostKey == <<"host">>
NameKey == <<"name">>

Attrs == [k \in {HostKey, NameKey} |-> IF k = HostKey THEN <<"h">> ELSE text]

Orders == {<<HostKey, NameKey>>, <<NameKey, HostKey>>}

(* What soju writes in front of a message.                                 *)
Prefix == <<":", "soju", " ">>
Time == <<"@", "time", "=", "12", "\\", ":", "30", " ">>

Fronts == {<<>>, Prefix, Time \o Prefix}

Listing(order) == <<"BOUNCER", " ", "NETWORK", " ">> \o Id \o <<" ">> \o FormatTags(Attrs, order)

Status(name, network) == name \o <<"/">> \o network \o <<" ", "[", "joined", "]">>

(* soju gets each field of a form as it was entered, and a field soju      *)
(* lists comes back as it is, unless there is a tab in it, which is not    *)
(* escaped and ends a parameter; a channel is told from its network at the *)
(* last slash, unless the network's name has one (client.go:467-517,       *)
(* 528-554, irc.go:29-73, 89-144).                                         *)
FieldsSurvive ==
    /\ \A order \in Orders :
          LET sent == SojuParse(ChangeLine(Id, Attrs, order))
          IN  /\ sent.params = << <<"CHANGENETWORK">>, Id, FormatTags(Attrs, order)>>
              /\ ParseTags(Param(sent, 2)) = Attrs
    /\ "\t" \in ToSet(text) \/ \A order \in Orders, front \in Fronts :
          ReadNetwork(ParseMessage(front \o Listing(order))) = {[id |-> Id, attrs |-> Attrs]}
    /\ " " \in ToSet(text) \/ "\t" \in ToSet(text)
          \/ ReadChannel(Status(text, <<"net">>), <<>>)
                = [name |-> text, network |-> <<"net">>, status |-> <<"joined">>]
    /\ "/" \in ToSet(text)
          \/ ReadChannel(Status(<<"#c">>, text), <<>>)
                = [name |-> <<"#c">>, network |-> text, status |-> <<"joined">>]

-----------------------------------------------------------------------------
(* Languages.                                                              *)

(* The catalogs that would do for a preference: one for just that, or one  *)
(* for its language, whatever the region.                                  *)
Fits(i) == Catalogs \cap {header[i].tag, Base[header[i].tag]}

(* The preferences there is a catalog for.                                 *)
Answered == {i \in DOMAIN header : Fits(i) # {}}

(* i is the one to go by: none weighs more, and none before it as much.    *)
Foremost(i) ==
    /\ i \in Answered
    /\ \A j \in Answered : header[j].q <= header[i].q /\ (header[j].q = header[i].q => i <= j)

(* There is a catalog for just this region.                                *)
Regional(tag) == Has(tag) /\ Base[tag] # tag

(* A page is in a language there is a catalog for: the reader's if there   *)
(* is one, else one that does for what the browser likes best of those     *)
(* there are, else the instance's ("preferred language; browser and reader *)
(* still choose", README.md:36; i18n.go:98-145).  Two things are excepted: *)
(* a browser that likes best a region that has a catalog of its own, which *)
(* no header finds, though it is named "after the language tag"            *)
(* (README.md:77), and one that wants none of those there are, by a weight *)
(* of 0.                                                                   *)
LanguageChosen ==
    \A cookie, deflt \in Tags \cup {NoTag} :
        LET t == Pick(cookie, header, deflt)
        IN  /\ Has(t)
            /\ Has(cookie) => t = cookie
            /\ ~Has(cookie) => \A i \in DOMAIN header :
                  Foremost(i) /\ header[i].q # 0 => t \in Fits(i) \/ Regional(header[i].tag)
            /\ ~Has(cookie) /\ Answered = {} /\ Has(deflt) => t = deflt

-----------------------------------------------------------------------------
(* The log.                                                                *)

(* The last line that is not empty, and the ends of lines behind it.       *)
LastEntry ==
    LET end == SelectLastInSeq(log, LAMBDA c : c # "\n")
    IN  From(log, SelectLastInSubSeq(log, 1, end, LAMBDA c : c = "\n") + 1)

(* What is shown of a log that was cut down is the end of what was shown   *)
(* before, the last line with it, and no line is shown in part, unless the *)
(* last line takes up half of what a log may have: then it is cut itself,  *)
(* or lost (watch.go:491-520).                                             *)
LogTailKept ==
    Len(LastEntry) < LogMaxBytes \div 2 =>
        \A maxLines \in 1..MaxLog :
            IsSuffix(ReadLog(OpenLog(log), maxLines), ReadLog(log, maxLines))
=============================================================================
