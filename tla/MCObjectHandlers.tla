-------------------------- MODULE MCObjectHandlers --------------------------
(***************************************************************************)
(* A small instance of ObjectHandlers: an object of two bytes, one of two  *)
(* others and one of a single byte, three ticks to the second.             *)
(***************************************************************************)
EXTENDS ObjectHandlers, TLC

CONSTANTS p1, p2, k1, bad, xy, zz, w

MCContent == [b \in {xy, zz, w} |-> CASE b = xy -> <<"x", "y">>
                                      [] b = zz -> <<"z", "z">>
                                      [] b = w  -> <<"w">>]
MCSeeds   == {[body |-> xy, mtime |-> 1]}

Plainly == [method |-> "GET", key |-> k1, query |-> "none", sends |-> {},
            range |-> [form |-> "other"], body |-> xy, damaged |-> FALSE,
            names |-> <<>>, quiet |-> FALSE, expires |-> Nothing]

Get(sends)    == [Plainly EXCEPT !.sends = sends]
GetPart(s, e) == [Plainly EXCEPT !.range = [form |-> "span", start |-> s, end |-> e]]
Do(method)    == [Plainly EXCEPT !.method = method]
On(r, query)  == [r EXCEPT !.query = query]
Put(b)        == [Do("PUT") EXCEPT !.body = b]
Bulk(names, quiet) == [On(Do("POST"), "delete") EXCEPT
                         !.key = NoKey, !.names = names, !.quiet = quiet]

\* Conditional GETs: each header, and the pairs in which one hides the other.
Conditional == {Get(s) : s \in {{}, {"If-Match", "If-Unmodified-Since"},
                                {"If-Unmodified-Since"}, {"If-Match *"},
                                {"If-None-Match", "If-Modified-Since"},
                                {"If-Modified-Since"},
                                {"If-Match", "If-None-Match"}}}

MCRequests ==
  Conditional
  \cup {GetPart(1, 2), GetPart(2, 2), Do("HEAD"), [Put(zz) EXCEPT !.expires = 2],
        Put(zz), Put(w), [Put(w) EXCEPT !.damaged = TRUE], On(Put(w), "acl"),
        On(Do("DELETE"), "tagging"), Do("POST"), Do("PATCH"),
        [Do("PUT") EXCEPT !.key = bad], [Do("GET") EXCEPT !.key = bad],
        Bulk(<<k1, bad, k1>>, FALSE), Bulk(<<bad, k1>>, TRUE), Bulk(<<>>, FALSE),
        Bulk(<<k1, k1, k1, k1>>, FALSE)}

Symmetry == Permutations(Procs)
=============================================================================
