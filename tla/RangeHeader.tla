----------------------------- MODULE RangeHeader -----------------------------
(***************************************************************************)
(* Which part of a file a Range header selects: parse_range of             *)
(* src/download.rs and the choice of the response in download.             *)
(*                                                                         *)
(* A header is absent, of another unit than bytes, malformed (no dash, not *)
(* ASCII), a list of ranges, or a single range of two fields.  A field is  *)
(* empty, junk, or digits with the number they spell.  A result that may   *)
(* be None is a set of at most one range; a range is a pair of positions.  *)
(***************************************************************************)
EXTENDS Integers

CONSTANT U64Max  \* the largest u64

ASSUME RangeAssumption == U64Max \in Nat

Fields == [kind : {"empty", "junk", "digits"}, n : Nat]

Forms == {"absent", "other_unit", "malformed", "list", "single"}

Headers == [form : Forms, first : Fields, last : Fields]

\* str::parse::<u64> succeeds
Parses(f) == f.kind = "digits" /\ f.n <= U64Max

\* Mutant: a suffix longer than the file is refused
ShortSuffixRange(n, len) == IF n = 0 \/ n > len THEN {} ELSE {<<len - n, len - 1>>}

\* bytes=-n: the last n bytes
SuffixRange(n, len) ==
    IF n = 0 THEN {}
    ELSE IF n > len THEN {<<0, len - 1>>}
    ELSE {<<len - n, len - 1>>}

\* Mutant: the end is not cut at the end of the file
UncutRange(start, end, len) == IF start >= len \/ start > end THEN {} ELSE {<<start, end>>}

\* bytes=start-end
BoundedRange(start, end, len) ==
    IF start >= len \/ start > end THEN {}
    ELSE {<<start, IF end < len - 1 THEN end ELSE len - 1>>}

ParseRange(h, len) ==
    IF len = 0 \/ h.form # "single" THEN {}
    ELSE IF h.first.kind = "empty"
         THEN IF Parses(h.last) THEN SuffixRange(h.last.n, len) ELSE {}
    ELSE IF ~Parses(h.first) THEN {}
    ELSE IF h.last.kind = "empty" THEN BoundedRange(h.first.n, len - 1, len)
    ELSE IF Parses(h.last) THEN BoundedRange(h.first.n, h.last.n, len) ELSE {}

\* A response: its status and the first and last position of its body
NotSatisfiable == [status |-> 416, start |-> 0, end |-> -1]

\* Without a header the whole file, whose last position is -1 when it is empty
Response(h, len) ==
    IF h.form = "absent" THEN [status |-> 200, start |-> 0, end |-> len - 1]
    ELSE LET ranges == ParseRange(h, len) IN
         IF \E r \in ranges : r[1] <= r[2] /\ r[2] < len
         THEN LET r == CHOOSE r \in ranges : TRUE
              IN [status |-> 206, start |-> r[1], end |-> r[2]]
         ELSE NotSatisfiable

----------------------------------------------------------------------------
(* What a header asks for, without the case distinctions of the code.      *)

\* A single range whose fields are numbers of a u64, at most one left out
WellFormed(h) ==
    /\ h.form = "single"
    /\ \A f \in {h.first, h.last} : f.kind = "empty" \/ Parses(f)
    /\ h.first.kind = "digits" \/ h.last.kind = "digits"

\* The position p of the file is one the range asks for
Selects(h, p, len) ==
    IF h.first.kind = "empty" THEN p >= len - h.last.n
    ELSE p >= h.first.n /\ (h.last.kind = "digits" => p <= h.last.n)

\* The positions asked for: all of them without a header, and none with one
\* that is not a well-formed range
Asked(h, len) ==
    {p \in 0 .. len - 1 : h.form = "absent" \/ (WellFormed(h) /\ Selects(h, p, len))}
=============================================================================
