----------------------------- MODULE HttpRange -----------------------------
(***************************************************************************)
(* utils/httprange.go: the part of an object that a Range header selects.     *)
(* A header is a record that says whether it starts with "bytes=", whether a  *)
(* "-" follows, and what stands before and after the first "-": nothing, a    *)
(* number with a "+", something ParseInt refuses, or a number.                *)
(***************************************************************************)
EXTENDS Integers

CONSTANT MaxInt     \* the largest int64

ASSUME MaxIntAssumption == MaxInt \in Nat

Fields(numbers) ==
    [form : {"empty", "plus", "bad"}, val : {0}] \cup [form : {"number"}, val : numbers]
Headers(first, last) ==
    [prefix : BOOLEAN, dash : BOOLEAN, first : Fields(first), last : Fields(last)]

NilSpec == [isSuffixLength |-> FALSE, start |-> -1, end |-> -2]
Specs == [isSuffixLength : BOOLEAN, start : Int, end : Int]

Failed == [ok |-> FALSE, start |-> 0, length |-> 0]
Selected(start, length) == [ok |-> TRUE, start |-> start, length |-> length]

-----------------------------------------------------------------------------
\* A byte position that is given must be an unsigned number.
FieldValid(f) == f.form = "empty" \/ (f.form = "number" /\ f.val >= 0)
Offset(f) == IF f.form = "number" THEN f.val ELSE -1

ParseRejects(h) ==
    \/ ~h.prefix
    \/ ~h.dash
    \/ ~FieldValid(h.first)
    \/ ~FieldValid(h.last)
    \/ Offset(h.first) > -1 /\ Offset(h.last) > -1 /\ Offset(h.first) > Offset(h.last)
    \/ Offset(h.first) = -1 /\ Offset(h.last) \in {-1, 0}

\* ParseRequestRangeSpec of a header it does not reject.
ParseRequestRangeSpec(h) ==
    IF Offset(h.first) > -1
    THEN [isSuffixLength |-> FALSE, start |-> Offset(h.first), end |-> Offset(h.last)]
    ELSE [isSuffixLength |-> TRUE, start |-> -Offset(h.last), end |-> -1]

GetLengthFails(s, size) ==
    \/ size < 0
    \/ s # NilSpec /\ ~s.isSuffixLength /\ (s.start >= size \/ s.end < -1)

\* Mutant: a last byte past the end is not cut off.
GetLengthUncut(s, size) ==
    IF s = NilSpec THEN size
    ELSE IF s.isSuffixLength THEN (IF -s.start > size THEN size ELSE -s.start)
    ELSE IF s.end > -1 THEN s.end - s.start + 1
    ELSE size - s.start

GetLength(s, size) ==
    IF s = NilSpec THEN size
    ELSE IF s.isSuffixLength THEN (IF -s.start > size THEN size ELSE -s.start)
    ELSE IF s.end > -1 THEN (IF size <= s.end THEN size - 1 ELSE s.end) - s.start + 1
    ELSE size - s.start

\* GetOffsetLength looks for an error of GetLength only when there is a range.
GetOffsetLength(s, size) ==
    IF s = NilSpec THEN Selected(0, size)
    ELSE IF GetLengthFails(s, size) THEN Failed
    ELSE LET start == IF ~s.isSuffixLength THEN s.start
                      ELSE IF size + s.start < 0 THEN 0 ELSE size + s.start
         IN Selected(start, GetLength(s, size))

\* The first and last byte that String prints.
RangeString(s, size) ==
    LET r == GetOffsetLength(s, size)
    IN IF s = NilSpec \/ ~r.ok THEN <<>> ELSE <<r.start, r.start + r.length - 1>>

-----------------------------------------------------------------------------
(* What a header asks for: the bytes of an object, numbered from 0.           *)
WantedBytes(h, size) ==
    {b \in 0 .. size - 1 :
        IF h.first.form = "number"
        THEN b >= h.first.val /\ (h.last.form = "number" => b <= h.last.val)
        ELSE b >= size - h.last.val}

\* For every header that is accepted and every size of an object: an error is
\* returned just when the header names a first byte past the end; otherwise the
\* offset and length stay inside the object, so no int64 wraps, and select
\* exactly the bytes the header asks for.
RangeExact(h, size) ==
    ~ParseRejects(h) =>
        LET r == GetOffsetLength(ParseRequestRangeSpec(h), size)
        IN /\ r.ok <=> (h.first.form = "number" => h.first.val < size)
           /\ r.ok => /\ 0 <= r.start /\ 0 <= r.length /\ r.start + r.length <= size
                      /\ \A b \in 0 .. MaxInt : (r.start <= b /\ b < r.start + r.length)
                                        <=> b \in WantedBytes(h, size)
=============================================================================
