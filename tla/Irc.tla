-------------------------------- MODULE Irc --------------------------------
(***************************************************************************)
(* The lines spoken with soju: messages, tags and their escapes (irc.go),  *)
(* and the commands for BouncerServ that are put together by servQuote and *)
(* taken apart by splitWords.                                              *)
(*                                                                         *)
(* A text is a sequence of letters.  A letter is a character wherever one  *)
(* of the functions looks at it; a piece none of them looks into, like a   *)
(* command's name, may be a letter as a whole.  Case is left out, and so   *)
(* is the end of the line, which no form field contains.                   *)
(***************************************************************************)
EXTENDS Naturals, Sequences, SequencesExt

White == {" ", "\t", "\n", "\r"}

Index(s, c) == SelectInSeq(s, LAMBDA x : x = c)

From(s, i) == SubSeq(s, i, Len(s))

Before(s, i) == SubSeq(s, 1, i - 1)

(* To the pieces so far: another letter of the last one, or its end.       *)
Piece(done, c, sep) ==
    IF c = sep THEN Append(done, <<>>) ELSE Append(Front(done), Append(Last(done), c))

(* strings.Split at one letter: the pieces, empty ones among them.         *)
SplitAt(s, sep) ==
    LET pieces[i \in 0..Len(s)] ==
            IF i = 0 THEN << <<>> >> ELSE Piece(pieces[i - 1], s[i], sep)
    IN  pieces[Len(s)]

(* A blank ends a word, if there is one.                                   *)
FieldLetter(f, c, blanks) ==
    IF c \notin blanks THEN [f EXCEPT !.word = Append(@, c)]
    ELSE IF f.word = <<>> THEN f
    ELSE [words |-> Append(f.words, f.word), word |-> <<>>]

ReadFields(s, blanks) ==
    LET read[i \in 0..Len(s)] ==
            IF i = 0 THEN [words |-> <<>>, word |-> <<>>]
            ELSE FieldLetter(read[i - 1], s[i], blanks)
    IN  read[Len(s)]

(* The pieces between blanks, none of them empty: strings.Fields, with     *)
(* White for the blanks.                                                   *)
Fields(s, blanks) ==
    LET f == ReadFields(s, blanks)
    IN  IF f.word = <<>> THEN f.words ELSE Append(f.words, f.word)

(* strings.Join.                                                           *)
Join(words, sep) ==
    FlattenSeq([i \in DOMAIN words |-> (IF i = 1 THEN <<>> ELSE sep) \o words[i]])

(* strings.TrimLeft, of one letter.                                        *)
TrimLeft(s, c) ==
    LET i == SelectInSeq(s, LAMBDA x : x # c)
    IN  IF i = 0 THEN <<>> ELSE From(s, i)

TrimSpace(s) ==
    LET I == {i \in DOMAIN s : s[i] \notin White}
    IN  IF I = {} THEN <<>> ELSE SubSeq(s, Min(I), Max(I))

-----------------------------------------------------------------------------
(* Tags, as soju's networks are described in them.                         *)

(* Not the code: a backslash stands for itself.                            *)
EscapeNoBackslash(c) ==
    CASE c = ";" -> <<"\\", ":">>
      [] c = " " -> <<"\\", "s">>
      [] OTHER -> <<c>>

EscapeLetter(c) ==
    CASE c = "\\" -> <<"\\", "\\">>
      [] c = ";" -> <<"\\", ":">>
      [] c = " " -> <<"\\", "s">>
      [] c = "\r" -> <<"\\", "r">>
      [] c = "\n" -> <<"\\", "n">>
      [] OTHER -> <<c>>

EscapeTagValue(v) == FlattenSeq([i \in DOMAIN v |-> EscapeLetter(v[i])])

UnescapeLetter(c) ==
    CASE c = ":" -> ";"
      [] c = "s" -> " "
      [] c = "r" -> "\r"
      [] c = "n" -> "\n"
      [] OTHER -> c

ValueLetter(r, c) ==
    IF r.escape THEN [out |-> Append(r.out, UnescapeLetter(c)), escape |-> FALSE]
    ELSE IF c = "\\" THEN [r EXCEPT !.escape = TRUE]
    ELSE [r EXCEPT !.out = Append(@, c)]

ReadValue(v) ==
    LET read[i \in 0..Len(v)] ==
            IF i = 0 THEN [out |-> <<>>, escape |-> FALSE] ELSE ValueLetter(read[i - 1], v[i])
    IN  read[Len(v)]

(* A backslash at the very end stands for itself.                          *)
UnescapeTagValue(v) ==
    LET read == ReadValue(v) IN IF read.escape THEN Append(read.out, "\\") ELSE read.out

(* tags is a function from keys to values; Go walks through a map in any   *)
(* order of its keys.                                                      *)
FormatTags(tags, order) ==
    Join([i \in DOMAIN order |-> order[i] \o <<"=">> \o EscapeTagValue(tags[order[i]])], <<";">>)

ParseTag(kv) ==
    LET i == Index(kv, "=")
    IN  IF i = 0 THEN [key |-> kv, value |-> <<>>]
        ELSE [key |-> Before(kv, i), value |-> UnescapeTagValue(From(kv, i + 1))]

(* The last value of a key is the one that counts.                         *)
With(tags, tag) ==
    [k \in DOMAIN tags \cup {tag.key} |-> IF k = tag.key THEN tag.value ELSE tags[k]]

(* An empty piece is passed over.                                          *)
MoreTags(tags, kv) == IF kv = <<>> THEN tags ELSE With(tags, ParseTag(kv))

ParseTags(s) ==
    LET pieces == SplitAt(s, ";")
        tags[i \in 0..Len(pieces)] ==
            IF i = 0 THEN <<>> ELSE MoreTags(tags[i - 1], pieces[i])
    IN  tags[Len(pieces)]

-----------------------------------------------------------------------------
(* Messages.                                                               *)

(* The tags or the prefix in front of a message, up to the first space.    *)
Peel(line, mark) ==
    IF line = <<>> \/ line[1] # mark
    THEN [ok |-> TRUE, part |-> <<>>, rest |-> line]
    ELSE LET i == Index(line, " ")
         IN  [ok |-> i # 0, part |-> SubSeq(line, 2, i - 1), rest |-> TrimLeft(From(line, i + 1), " ")]

(* Where the last parameter begins, if it has a colon in front.            *)
Colon(line) ==
    LET I == {i \in 1..Len(line) - 1 : line[i] = " " /\ line[i + 1] = ":"}
    IN  IF I = {} THEN 0 ELSE Min(I)

(* What is left after the prefix may itself begin with a colon; then there *)
(* is no command.                                                          *)
Parse(line, blanks) ==
    LET tagged == Peel(line, "@")
        named == Peel(tagged.rest, ":")
        at == Colon(named.rest)
        words == Fields(IF at = 0 THEN named.rest ELSE Before(named.rest, at), blanks)
        trailing == IF at = 0 THEN <<>> ELSE <<From(named.rest, at + 2)>>
        bare == at = 0 /\ named.rest # <<>> /\ named.rest[1] = ":"
    IN  IF tagged.ok /\ named.ok /\ words # <<>> /\ ~bare
        THEN [ok |-> TRUE, tags |-> ParseTags(tagged.part), prefix |-> named.part,
              command |-> words[1], params |-> Tail(words) \o trailing]
        ELSE [ok |-> FALSE, tags |-> <<>>, prefix |-> <<>>, command |-> <<>>, params |-> <<>>]

(* parseMessage takes any blank for the end of a parameter, soju a space,  *)
(* as the protocol has it.                                                 *)
ParseMessage(line) == Parse(line, White)
SojuParse(line) == Parse(line, {" "})

(* Param counts from 0, and is empty where there is none.                  *)
Param(m, i) == IF i + 1 \in DOMAIN m.params THEN m.params[i + 1] ELSE <<>>

NeedsColon(p) == p = <<>> \/ " " \in ToSet(p) \/ p[1] = ":"

FormatMessage(command, params) ==
    command \o FlattenSeq([i \in DOMAIN params |->
        <<" ">> \o (IF i = Len(params) /\ NeedsColon(params[i]) THEN <<":">> ELSE <<>>) \o params[i]])

-----------------------------------------------------------------------------
(* Commands for BouncerServ.                                               *)

Marks == {"\"", "'"}

Word == [words |-> <<>>, word |-> <<>>, escape |-> FALSE, delim |-> " ", prev |-> " "]

(* splitWords, one letter on.  Whether a blank ends a word is told from    *)
(* the letter before it, were that one escaped or not.                     *)
SplitLetter(w, c) ==
    LET put == [w EXCEPT !.word = Append(@, c)]
        next == IF w.escape THEN [put EXCEPT !.escape = FALSE]
                ELSE CASE c = "\\" -> [w EXCEPT !.escape = TRUE]
                       [] w.delim = " " /\ c \in White ->
                            IF w.prev \in White THEN w
                            ELSE [w EXCEPT !.words = Append(@, w.word), !.word = <<>>]
                       [] w.delim = " " /\ c \in Marks -> [w EXCEPT !.delim = c]
                       [] w.delim # " " /\ c = w.delim -> [w EXCEPT !.delim = " "]
                       [] OTHER -> put
    IN  [next EXCEPT !.prev = c]

ReadWords(s) ==
    LET read[i \in 0..Len(s)] == IF i = 0 THEN Word ELSE SplitLetter(read[i - 1], s[i])
    IN  read[Len(s)]

SplitWords(s) ==
    LET w == ReadWords(s)
    IN  [ok |-> w.delim = " " /\ ~w.escape,
         words |-> IF w.prev \in White THEN w.words ELSE Append(w.words, w.word)]

(* Not the code: a blank is the only reason for quotes.                    *)
PlainUnlessBlank(arg) == ToSet(arg) \cap {" ", "\t"} = {}

Plain(arg) == arg # <<>> /\ ToSet(arg) \cap {" ", "\t", "\"", "\\"} = {}

ServQuote(arg) ==
    IF Plain(arg) THEN arg
    ELSE <<"\"">> \o FlattenSeq([i \in DOMAIN arg |->
            IF arg[i] \in {"\\", "\""} THEN <<"\\", arg[i]>> ELSE <<arg[i]>>]) \o <<"\"">>

(* The line that Serv sends.                                               *)
ServLine(args) ==
    FormatMessage(<<"PRIVMSG">>,
                  << <<"BouncerServ">>, Join([i \in DOMAIN args |-> ServQuote(args[i])], <<" ">>) >>)

(* consoleRun: the arguments of a command somebody typed.                  *)
Typed(command) == SplitWords(TrimSpace(command))

-----------------------------------------------------------------------------
(* Networks.                                                               *)

(* The line that ChangeNetwork sends.                                      *)
ChangeLine(id, attrs, order) ==
    <<"BOUNCER", " ", "CHANGENETWORK", " ">> \o id \o <<" ">> \o FormatTags(attrs, order)

(* What ListNetworks makes of a message: a network, or nothing.            *)
ReadNetwork(m) ==
    IF m.command = <<"BOUNCER">> /\ Param(m, 0) = <<"NETWORK">> /\ Param(m, 2) # <<"*">>
    THEN {[id |-> Param(m, 1), attrs |-> ParseTags(Param(m, 2))]}
    ELSE {}

Slash(s) == SelectLastInSeq(s, LAMBDA x : x = "/")

(* What Channels makes of a line: the channel, the network, its status.    *)

ReadChannel(line, network) ==
    LET l == TrimSpace(line)
        I == {i \in 1..Len(l) - 1 : l[i] = " " /\ l[i + 1] = "["}
        full == IF I = {} THEN l ELSE Before(l, Max(I))
        slash == Slash(full)
    IN  [name |-> IF slash = 0 THEN full ELSE Before(full, slash),
         network |-> IF slash = 0 THEN network ELSE From(full, slash + 1),
         status |-> IF I = {} THEN <<>>
                    ELSE IF Last(l) = "]" THEN SubSeq(l, Max(I) + 2, Len(l) - 1)
                    ELSE From(l, Max(I) + 2)]
=============================================================================
