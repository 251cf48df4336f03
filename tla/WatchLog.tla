------------------------------ MODULE WatchLog ------------------------------
(***************************************************************************)
(* The watcher's log (watch.go): cut down by OpenLog when the watcher      *)
(* starts, appended to, and read by the web interface, which shows its     *)
(* last lines.  A log is a sequence of letters, "\n" at the end of a line. *)
(***************************************************************************)
EXTENDS Irc

CONSTANT LogMaxBytes  \* how long a log may be when the watcher starts

ASSUME WatchLogAssumption == LogMaxBytes \in Nat /\ LogMaxBytes % 2 = 0

(* Not the code: the first line stays, whole or not.                       *)
WithFirstLine(b) == b

(* The first line is cut off, since it is not whole; a log that is all one *)
(* line stays as it is.                                                    *)
WithoutFirstLine(b) ==
    LET end == Index(b, "\n") IN IF end = 0 THEN b ELSE From(b, end + 1)

OpenLog(b) ==
    IF Len(b) > LogMaxBytes
    THEN WithoutFirstLine(From(b, Len(b) - LogMaxBytes \div 2 + 1))
    ELSE b

(* strings.TrimRight, of ends of lines.                                    *)
WithoutLastEnds(b) ==
    SubSeq(b, 1, SelectLastInSeq(b, LAMBDA c : c # "\n"))

(* At least one line, if only an empty one.                                *)
ReadLog(b, maxLines) ==
    LET lines == SplitAt(WithoutLastEnds(b), "\n")
    IN  IF Len(lines) > maxLines THEN From(lines, Len(lines) - maxLines + 1) ELSE lines
=============================================================================
