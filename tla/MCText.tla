------------------------------- MODULE MCText -------------------------------
(* Small instances of Text for TLC.                                        *)
EXTENDS Text

(* What any of the functions looks at, and two letters it does not.        *)
Signs == {"a", "s", ":", ";", "=", " ", "\t", "\"", "'", "\\", "/"}

(* "pt-BR" is a catalog whose region is stripped from every header.        *)
BaseOf == [t \in Tags |-> IF t \in {"pt-BR", "pt"} THEN "pt" ELSE IF t = "en-US" THEN "en" ELSE t]
=============================================================================
