------------------------------ MODULE ByteRange ------------------------------
(***************************************************************************)
(* Range and If-Range headers (src/src/server.rs, parse_range and          *)
(* if_range_matches).  A header is what its text says, not the text:       *)
(* "from" is bytes=a-, "span" is bytes=a-b, "suffix" is bytes=-n, and      *)
(* "other" is every header that is refused for its form: another unit, a   *)
(* list, no dash, or a number that is none or exceeds 64 bits.             *)
(***************************************************************************)
EXTENDS Naturals

RangeHeaders ==
    [kind : {"none", "other"}]
    \cup [kind : {"from"}, first : Nat]
    \cup [kind : {"span"}, first : Nat, last : Nat]
    \cup [kind : {"suffix"}, count : Nat]

SaturatingSub(a, b) == IF a < b THEN 0 ELSE a - b
Smaller(a, b) == IF a < b THEN a ELSE b

AllBytes == [kind |-> "all"]
RangeError == [kind |-> "error"]
Part(start, end) == [kind |-> "part", start |-> start, end |-> end]

(* The last check: the range starts inside the file and is not empty.      *)
Checked(start, end, total) ==
    IF start >= total \/ start > end THEN RangeError ELSE Part(start, end)

(* Refused before any arithmetic.                                          *)
Refused(header, total) ==
    \/ total = 0
    \/ header.kind = "other"
    \/ header.kind = "suffix" /\ header.count = 0

(* Mutant of ParseRange: the end is not cut to the file.                   *)
ParseRangeUncut(header, total) ==
    IF header.kind = "none" THEN AllBytes
    ELSE IF Refused(header, total) THEN RangeError
    ELSE IF header.kind = "suffix"
         THEN Checked(SaturatingSub(total, header.count), total - 1, total)
    ELSE IF header.kind = "from" THEN Checked(header.first, total - 1, total)
    ELSE Checked(header.first, header.last, total)

ParseRange(header, total) ==
    IF header.kind = "none" THEN AllBytes
    ELSE IF Refused(header, total) THEN RangeError
    ELSE IF header.kind = "suffix"
         THEN Checked(SaturatingSub(total, header.count), total - 1, total)
    ELSE IF header.kind = "from" THEN Checked(header.first, total - 1, total)
    ELSE Checked(header.first, Smaller(header.last, total - 1), total)

(* Reference: the positions of a file of that length that a header names.  *)
Named(header, p, total) ==
    \/ header.kind = "from" /\ header.first <= p
    \/ header.kind = "span" /\ header.first <= p /\ p <= header.last
    \/ header.kind = "suffix" /\ total <= p + header.count

Requested(header, total) ==
    IF total = 0 THEN {} ELSE {p \in 0..(total - 1) : Named(header, p, total)}

-----------------------------------------------------------------------------
(* Mutant of Etag: the length alone.                                       *)
EtagOfLength(total, mtime) == <<total, 0>>

(* The tag of a file joins its length and its modification time in ms.     *)
Etag(total, mtime) == <<total, mtime>>

(* A date has whole seconds, and a second of grace for what it cuts off.   *)
DateMatches(date, modified, second) == modified <= (date + 1) * second
=============================================================================
