------------------------------ MODULE MCListing ------------------------------
(***************************************************************************)
(* A small instance of Listing, with names around a directory, and other   *)
(* spellings of theirs: "." sorts before "/", "/" before letters.          *)
(***************************************************************************)
EXTENDS Listing

dot == 1   \* "."
sl  == 2   \* "/"
a   == 3
b   == 4
json      == 5
dirmarker == 6
NUL       == {0}
TheBucket == <<7>>

MCNames == {<<a, dot>>, <<a, sl>>, <<a, sl, a>>, <<a, sl, b>>, <<b>>,
            <<a, sl, dot, sl, b>>, <<a, sl, sl, a>>, <<dot, dot, sl, b>>, <<b, 0>>,
            <<a, sl, b, b, b, b>>}

Ask(version, prefix, delimiter, after, max) ==
  [version |-> version, prefix |-> prefix, delimiter |-> delimiter,
   after |-> after, max |-> max]

\* Where to begin: at the start, behind a key; in a prefix, in a directory.
Anywhere == {<< <<>>, <<>> >>, << <<>>, <<a, sl, a>> >>}
Within == Anywhere \cup {<< <<a>>, <<>> >>, << <<a, sl>>, <<>> >>}

Ways(version, places) ==
  {Ask(version, at[1], delimiter, at[2], max) :
     at \in places, delimiter \in {<<>>, <<sl>>}, max \in {0, 1}}

MCQueries == Ways(1, Anywhere) \cup Ways(2, Within)
=============================================================================
