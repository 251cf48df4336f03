----------------------------- MODULE Languages -----------------------------
(***************************************************************************)
(* The language of a page (i18n.go): a cookie the reader set, else what    *)
(* the browser asks for, else the instance's own (-lang), else English.    *)
(* The header's spelling is left out: it is a sequence of preferences,     *)
(* each a tag and a weight.                                                *)
(***************************************************************************)
EXTENDS Naturals, Sequences, SequencesExt

CONSTANTS
    Tags,     \* language tags; some have a region, as "pt-BR" has
    Base,     \* Base[t]: the tag without its region
    Catalogs, \* tags there is a catalog for
    Weights   \* values of q, as natural numbers

(* LoadLocales refuses to go on without this catalog.                      *)
DefaultTag == "en"

NoTag == "none"

ASSUME LanguagesAssumption ==
    /\ Base \in [Tags -> Tags]
    /\ Catalogs \subseteq Tags /\ DefaultTag \in Catalogs /\ NoTag \notin Tags
    /\ Weights \subseteq Nat

Has(t) == t \in Catalogs

Preferences == [tag : Tags, q : Weights]

(* Not the code: of equal weights the last comes first.                    *)
BehindNone(sorted, q) == SelectInSeq(sorted, LAMBDA p : p.q <= q)

(* Where a preference of weight q goes: behind all that weigh as much.     *)
PlaceOf(sorted, q) == SelectInSeq(sorted, LAMBDA p : p.q < q)

Placed(sorted, p) ==
    LET i == PlaceOf(sorted, p.q)
    IN  IF i = 0 THEN Append(sorted, p) ELSE InsertAt(sorted, i, p)

(* sort.SliceStable, by falling weight.                                    *)
Sorted(prefs) ==
    LET sorted[i \in 0..Len(prefs)] ==
            IF i = 0 THEN <<>> ELSE Placed(sorted[i - 1], prefs[i])
    IN  sorted[Len(prefs)]

(* matchHeader strips the region before it looks for a catalog.            *)
MatchHeader(header) ==
    LET prefs == Sorted([i \in DOMAIN header |-> [header[i] EXCEPT !.tag = Base[@]]])
        i == SelectInSeq(prefs, LAMBDA p : Has(p.tag))
    IN  IF i = 0 THEN NoTag ELSE prefs[i].tag

(* Locale falls back to English.                                           *)
Locale(t) == IF Has(t) THEN t ELSE DefaultTag

Pick(cookie, header, deflt) ==
    LET match == MatchHeader(header)
    IN  Locale(IF Has(cookie) THEN cookie
               ELSE IF match # NoTag THEN match
               ELSE IF Has(deflt) THEN deflt ELSE DefaultTag)
=============================================================================
