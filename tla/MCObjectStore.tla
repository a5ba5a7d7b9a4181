--------------------------- MODULE MCObjectStore ---------------------------
(***************************************************************************)
(* Small instances of ObjectStore.  Contents x and y have the same length  *)
(* in most, so that only the mtime of a file tells that one replaced the   *)
(* other; where GETs run beside everything y is the longer one.            *)
(***************************************************************************)
EXTENDS ObjectStore, TLC

CONSTANTS p1, p2, k1, k2, x, y, m1, m2

OneProc    == {p1}
TwoProcs   == {p1, p2}
Symmetry   == Permutations(Procs)

OneKey     == {k1}
TwoKeys    == {k1, k2}
TwoBodies  == {x, y}
MCMetas    == {m1, m2}

MCSize == [b \in Bodies \cup {Partial} |->
             IF b = Partial THEN 1 ELSE 2]
GrowingSize == [b \in Bodies \cup {Partial} |-> CASE b = Partial -> 1
                                                   [] b = x -> 2 [] b = y -> 3]
MCBirth == [k \in Keys |-> IF k = k1 THEN 1 ELSE 2]

\* An object that may exist at start, stored through the server.
StoredOnly == {[body |-> x, meta |-> m1]}

Req(op, k, s, b, m, want, trailer, replace) ==
  [op |-> op, key |-> k, src |-> s, body |-> b, meta |-> m, want |-> want,
   trailer |-> trailer, replace |-> replace]

Put(k, b, m)       == Req("PUT", k, k, b, m, None, FALSE, FALSE)
PutSum(k, b, m, w) == Req("PUT", k, k, b, m, w, FALSE, FALSE)
PutTrailer(k, b, m, w) == Req("PUT", k, k, b, m, w, TRUE, FALSE)
Ask(op, k)         == Req(op, k, k, x, m1, None, FALSE, FALSE)
Copy(s, k)         == Req("COPY", k, s, x, m1, None, FALSE, FALSE)
CopyReplace(s, k, m) == Req("COPY", k, s, x, m, None, FALSE, TRUE)

\* Requests that write the object, with its digest, with a wrong one and by a
\* listing beside them.
HostileRequests == {PutSum(k1, y, m2, x), PutTrailer(k1, y, m2, y), Ask("GET", k1),
                    Ask("DELETE", k1), Ask("LIST", k1)}

\* Every kind of request but for the PUT with a wrong digest.
Everything == {PutTrailer(k1, y, m2, y), Ask("GET", k1), Ask("HEAD", k1),
               Ask("DELETE", k1), Copy(k1, k2), Ask("LIST", k1),
               CopyReplace(k1, k1, m2)}

OneTick == {1}

\* One pair of requests for each disagreement.
PutAndList     == {Put(k1, y, m2), Ask("LIST", k1)}
BadPut         == {PutSum(k1, y, m2, x)}
=============================================================================
