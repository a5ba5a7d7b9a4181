----------------------------- MODULE MCMultipart -----------------------------
(***************************************************************************)
(* Small instances of Multipart: a client that has staged two parts and    *)
(* goes on to complete or abort, beside another that does the same.        *)
(***************************************************************************)
EXTENDS Multipart

CONSTANTS p1, p2, k1, k2, u1, u2, x, y, s

TwoProcs  == {p1, p2}
TwoKeys   == {k1, k2}
TwoUploads == {u1, u2}
Parts12   == {1, 2}
Contents  == {x, y, s}
SmallOnes == {s}

Seed(parts) == [id |-> u1, key |-> k1, parts |-> parts]

\* Two good parts.
TwoStaged == {Seed([n \in Numbers |-> IF n = 1 THEN x ELSE y])}

Want(n, e) == [number |-> n, etag |-> e]

Req(op, n, b, parts) ==
  [op |-> op, key |-> k1, number |-> n, body |-> b, parts |-> parts]

Upload(n, b)    == Req("UPLOAD", n, b, << >>)
Complete(parts) == Req("COMPLETE", 1, x, parts)
Both    == <<Want(1, x), Want(2, y)>>
Swapped == <<Want(2, y), Want(1, x)>>
SmallFirst == <<Want(1, s), Want(2, y)>>
LastOnly == <<Want(2, y)>>

ClientRequests == {Req("CREATE", 1, x, << >>), Upload(1, s),
                   Complete(Both), Complete(Swapped), Complete(SmallFirst),
                   Complete(LastOnly),
                   Req("ABORT", 1, x, << >>), Req("PUT", 1, s, << >>),
                   Req("DELETE", 1, x, << >>),
                   [Complete(LastOnly) EXCEPT !.key = k2]}

LateRequests == {Upload(1, y), Complete(Both)}
=============================================================================
