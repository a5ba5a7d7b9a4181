---------------------------- MODULE MCRequestBody ----------------------------
(***************************************************************************)
(* Small bodies, one of them with a line end among its bytes, sent in one  *)
(* or more chunks with every kind of assertion; one chunk is as long as    *)
(* takes two digits.                                                       *)
(***************************************************************************)
EXTENDS RequestBody

CONSTANTS x, y, z

MCBytes == {x, y, CR, LF}

\* What makes a size another, ends a line or begins an extension, and a byte that
\* means nothing.
MCNoise == {0, 3, CR, LF, Semicolon, z}

MCChunkings == {<<>>, <<<<x>>>>, <<<<x, y>>>>, <<<<x>>, <<CR, LF>>>>,
                <<<<y, LF>>, <<x>>, <<x, y, x>>>>, <<<<CR, LF, x>>, <<y>>>>,
                <<<<y>>, [n \in 1 .. 18 |-> IF n = 7 THEN LF ELSE x]>>}

Digits(n) == IF n < 16 THEN <<n>> ELSE <<n \div 16, n % 16>>

\* The sizes of chunks as clients write them, or with a leading zero.
Sizes(chunks, padded) ==
  [n \in 1 .. Len(chunks) + 1 |->
     (IF padded THEN <<0>> ELSE <<>>)
       \o Digits(IF n <= Len(chunks) THEN Len(chunks[n]) ELSE 0)]

MCUploads ==
  UNION {[chunks : {c}, sizes : {Sizes(c, FALSE), Sizes(c, TRUE)}, asserts : Asserts,
          signed : BOOLEAN] : c \in MCChunkings}
=============================================================================
