----------------------------- MODULE RangeHeader -----------------------------
(***************************************************************************)
(* The Range header: parseRange of s3api/rangehdr.go and the bytes that    *)
(* GetObjectRange reads for its answer.                                    *)
(***************************************************************************)
EXTENDS Integers, Sequences

CONSTANT MaxOffset \* bound of the numbers in a header

ASSUME MaxOffsetType == MaxOffset \in Nat

Number == 0 .. MaxOffset

\* The forms of a header; "other" stands for no header, another unit, several
\* ranges, "bad" for one that is not of the form, or numbers that do not parse.
Headers == [form : {"other", "bad"}]
             \cup [form : {"last"}, count : Number]
             \cup [form : {"from"}, start : Number]
             \cup [form : {"span"}, start : Number, end : Number]

Whole(size) == [status |-> 200, offset |-> 0, length |-> size]
Part(offset, length) == [status |-> 206, offset |-> offset, length |-> length]
Unsatisfiable == [status |-> 416, offset |-> 0, length |-> 0]

Smaller(m, n) == IF m < n THEN m ELSE n

\* Mutant: an end behind the object is not cut to its size.
Span_Unclamped(start, end, size) ==
  IF start >= size \/ end < start THEN Unsatisfiable
  ELSE Part(start, end - start + 1)

\* Both ends, the last one cut to the size of the object.
Span(start, end, size) ==
  IF start >= size \/ end < start THEN Unsatisfiable
  ELSE Part(start, Smaller(end, size - 1) - start + 1)

\* parseRange.
ParseRange(h, size) ==
  CASE h.form = "other" -> Whole(size)
    [] h.form = "bad" -> Unsatisfiable
    [] h.form = "last" -> IF h.count = 0 THEN Unsatisfiable
                          ELSE LET n == Smaller(h.count, size) IN Part(size - n, n)
    [] h.form = "from" -> Span(h.start, size - 1, size)
    [] h.form = "span" -> Span(h.start, h.end, size)

\* GetObjectRange: seek, then read no further than the length or the end.
Served(r, object) ==
  SubSeq(object, r.offset + 1, Smaller(r.offset + r.length, Len(object)))

\* The positions of an object of that size that a header asks for, from 0.
Asked(h, size) ==
  {n \in 0 .. size - 1 :
     CASE h.form = "other" -> TRUE
       [] h.form = "bad" -> FALSE
       [] h.form = "last" -> n >= size - h.count
       [] h.form = "from" -> n >= h.start
       [] h.form = "span" -> n >= h.start /\ n <= h.end}
=============================================================================
