----------------------------- MODULE RequestBody -----------------------------
(***************************************************************************)
(* The body of a PUT on its way to the store: aws-chunked framing taken    *)
(* off by chunkedReader (s3api/chunked.go), the digests the client         *)
(* asserted compared by checksumValidator (s3api/checksum.go), over a      *)
(* connection that may break anywhere or damage any byte.                  *)
(*                                                                         *)
(* A stream is a sequence of symbols: hex digits (numbers), the bytes of   *)
(* the object and the two of a line end, and for the trailer its name, a   *)
(* colon and two halves of the value, which is the digest of the object.   *)
(* A digest is the content it was computed from.                           *)
(***************************************************************************)
EXTENDS RangeHeader, SequencesExt, FiniteSets

CONSTANTS
  Bytes,                          \* what objects consist of
  CR, LF, Semicolon, Colon, Name, \* symbols of the framing
  First, Second,                  \* the halves of a trailer's value
  Noise,                          \* what a damaged byte may read as
  Extension,                      \* what follows a chunk size's semicolon
  Uploads,                        \* the bodies clients send (see below)
  MaxRead                         \* the largest piece a Read returns

Asserts == {"nothing", "md5", "header", "trailer", "named"}

\* strconv.ParseInt in base 16; -1 for what is no number.
Hex(digits) ==
  IF digits = <<>> \/ \E n \in DOMAIN digits : digits[n] \notin 0 .. 15 THEN -1
  ELSE LET value[n \in 0 .. Len(digits)] ==
             IF n = 0 THEN 0 ELSE 16 * value[n - 1] + digits[n]
       IN value[Len(digits)]

\* chunks: the pieces of the object; sizes: the digits of the size of each, and of
\* the zero behind them; asserts: the digest the client sends, "named" being a
\* trailer that is announced and never sent; signed: whether sizes carry an
\* extension.
UploadType(u) ==
  /\ u.chunks \in Seq(Seq(Bytes) \ {<<>>})
  /\ u.sizes \in Seq(Seq(0 .. 15)) /\ Len(u.sizes) = Len(u.chunks) + 1
  /\ \A n \in DOMAIN u.chunks : Hex(u.sizes[n]) = Len(u.chunks[n])
  /\ Hex(u.sizes[Len(u.sizes)]) = 0
  /\ u.asserts \in Asserts /\ u.signed \in BOOLEAN

\* A size with a leading zero.
Padded(u) == \E n \in DOMAIN u.chunks : u.sizes[n][1] = 0

Symbol == Bytes \cup Nat \cup Noise
            \cup {CR, LF, Semicolon, Colon, Name, First, Second, Extension}

ASSUME UploadsType == \A u \in Uploads : UploadType(u)
ASSUME MaxReadType == MaxRead \in Nat \ {0}
\* Size lines and trailers are lines.
ASSUME Symbols ==
  /\ CR # LF /\ Name # Colon /\ {CR, LF, Semicolon} \cap Nat = {}
  /\ {Semicolon, Extension, Name, Colon, First, Second} \cap {CR, LF} = {}

VARIABLES
  upload,  \* what the client sends
  stream,  \* what arrives
  fault,   \* what happened on the way: "none", "cut", or a byte damaged, which was of
           \* the object ("damage"), a "size" line or other "framing"
  pos,     \* how much of the stream is read
  remain,  \* bytes left in the current chunk
  started, \* a chunk has been consumed, so a CRLF is pending
  out,     \* the decoded bytes so far
  trailer, \* the trailing header of that name, <<>> without one
  status   \* "reading", "whole", "accepted", "failed" or "BadDigest"

vars == <<upload, stream, fault, pos, remain, started, out, trailer, status>>

-----------------------------------------------------------------------------
(***************************************************************************)
(* The client                                                              *)
(***************************************************************************)

CRLF == <<CR, LF>>

Content(u) == FlattenSeq(u.chunks)

SizeLine(n, u) ==
  u.sizes[n] \o (IF u.signed THEN <<Semicolon, Extension>> ELSE <<>>) \o CRLF

Framed(u) == [n \in DOMAIN u.chunks |-> SizeLine(n, u) \o u.chunks[n] \o CRLF]

Frame(u) ==
  FlattenSeq(Framed(u)) \o SizeLine(Len(u.sizes), u)
  \o (IF u.asserts = "trailer" THEN <<Name, Colon, First, Second>> \o CRLF ELSE <<>>)
  \o CRLF

\* Where the bytes of the object are in the framed stream, and the size lines.
DataAt(u) ==
  UNION {LET first == Len(FlattenSeq(SubSeq(Framed(u), 1, n - 1))) + Len(SizeLine(n, u))
         IN first + 1 .. first + Len(u.chunks[n]) : n \in DOMAIN u.chunks}

SizesAt(u) ==
  UNION {LET first == Len(FlattenSeq(SubSeq(Framed(u), 1, n - 1)))
         IN first + 1 .. first + Len(SizeLine(n, u)) : n \in DOMAIN u.sizes}

-----------------------------------------------------------------------------
(***************************************************************************)
(* chunkedReader                                                           *)
(***************************************************************************)

Rest(from) == SubSeq(stream, from + 1, Len(stream))

\* readLine: up to the next line end, or whatever the stream still has.
LineLength(from) ==
  LET ends == {n \in 1 .. Len(stream) - from : stream[from + n] = LF}
  IN IF ends = {} THEN Len(stream) - from
     ELSE CHOOSE n \in ends : \A m \in ends : n <= m

TrimEnd(line) == SubSeq(line, 1,
  SelectLastInSeq(line, LAMBDA s : s # CR /\ s # LF))

Line(from) == TrimEnd(SubSeq(stream, from + 1, from + LineLength(from)))

\* The line ends are all the white space there is.
TrimSpace(line) ==
  LET first == SelectInSeq(line, LAMBDA s : s # CR /\ s # LF)
  IN IF first = 0 THEN <<>> ELSE TrimEnd(SubSeq(line, first, Len(line)))

\* What is before the first mark in a line, or all of it without one, and what is
\* behind it.
Before(line, mark) ==
  LET at == SelectInSeq(line, LAMBDA s : s = mark)
  IN IF at = 0 THEN line ELSE SubSeq(line, 1, at - 1)

After(line, mark) ==
  SubSeq(line, SelectInSeq(line, LAMBDA s : s = mark) + 1, Len(line))

\* readChunkHeader without the extension.
ChunkSize(line) == Hex(TrimSpace(Before(line, Semicolon)))

\* Mutant: the CRLF behind a chunk is not taken.
SeparatorAt_Kept(from) == from

\* expectCRLF; 0 when it is not there.
SeparatorAt(from) ==
  IF IsPrefix(CRLF, Rest(from)) THEN from + 2 ELSE 0

\* Where a line begins that readTrailers reads: up to a blank one or the end of
\* the stream.
TrailerLines(from) ==
  LET lines == {from} \cup {n \in from + 1 .. Len(stream) : stream[n] = LF}
  IN {n \in lines : \A m \in lines : m <= n => Line(m) # <<>>}

\* Those that name the trailer; a line without a colon is skipped.
Naming(from) ==
  {n \in TrailerLines(from) :
     /\ \E i \in DOMAIN Line(n) : Line(n)[i] = Colon
     /\ TrimSpace(Before(Line(n), Colon)) = <<Name>>}

\* readTrailers keeps the value of the last of them.
TrailerAt(from) ==
  IF Naming(from) = {} THEN <<>> ELSE TrimSpace(After(Line(Max(Naming(from))), Colon))

-----------------------------------------------------------------------------

\* The stream of an upload that is cut short, damaged in any one byte, or neither.
Init ==
  /\ upload \in Uploads
  /\ \/ fault = "none" /\ stream = Frame(upload)
     \/ /\ fault = "cut"
        /\ stream \in Prefixes(Frame(upload)) \ {Frame(upload)}
     \/ \E n \in DOMAIN Frame(upload), noise \in Noise :
          /\ stream = [Frame(upload) EXCEPT ![n] = noise]
          /\ fault = IF n \in DataAt(upload) THEN "damage"
                     ELSE IF n \in SizesAt(upload) THEN "size" ELSE "framing"
  /\ pos = 0 /\ remain = 0 /\ started = FALSE
  /\ out = <<>> /\ trailer = <<>> /\ status = "reading"

Fail == status' = "failed" /\ UNCHANGED <<pos, remain, started, out, trailer>>

\* Read between two chunks: the CRLF of the last one, then a size; zero ends
\* the body with the trailers.
ReadSize ==
  /\ status = "reading" /\ remain = 0
  /\ LET from == IF started THEN SeparatorAt(pos) ELSE pos
         size == ChunkSize(Line(from))
         next == from + LineLength(from)
     IN \/ (started /\ from = 0) /\ Fail
        \/ ~(started /\ from = 0) /\ size = -1 /\ Fail
        \/ /\ ~(started /\ from = 0) /\ size > 0
           /\ pos' = next /\ remain' = size /\ started' = TRUE
           /\ UNCHANGED <<out, trailer, status>>
        \/ /\ ~(started /\ from = 0) /\ size = 0
           /\ pos' = next /\ started' = TRUE
           /\ trailer' = TrailerAt(next)
           /\ status' = "whole"
           /\ UNCHANGED <<remain, out>>
  /\ UNCHANGED <<upload, stream, fault>>

\* Mutant: a Read may run past the end of the chunk.
Piece_Unbounded == {n \in 1 .. MaxRead : n <= Len(stream) - pos}

\* How much a Read inside a chunk may return.
Piece == {n \in 1 .. MaxRead : n <= remain /\ n <= Len(stream) - pos}

\* Mutant: the end of the stream inside a chunk is the end of the body.
Break_Ends == status' = "whole" /\ UNCHANGED <<pos, remain, started, out, trailer>>

\* The end of the stream inside a chunk.
Break == Fail

\* Read inside a chunk.
ReadData ==
  /\ status = "reading" /\ remain > 0
  /\ \/ \E n \in Piece :
          /\ out' = out \o SubSeq(stream, pos + 1, pos + n)
          /\ pos' = pos + n
          /\ remain' = remain - n
          /\ UNCHANGED <<started, trailer, status>>
     \/ /\ pos = Len(stream)
        /\ Break
  /\ UNCHANGED <<upload, stream, fault>>

\* Mutant: a trailing digest is stored and never compared.
Matches_NoTrailer ==
  CASE upload.asserts \in {"md5", "header"} -> out = Content(upload)
    [] OTHER -> TRUE

\* checksumValidator.Verify.  The digest of the trailer is that of what was
\* sent, and no digest at all if it is not there whole.
Matches ==
  CASE upload.asserts \in {"md5", "header"} -> out = Content(upload)
    [] upload.asserts \in {"trailer", "named"} /\ trailer # <<>> ->
         trailer = <<First, Second>> /\ out = Content(upload)
    [] OTHER -> TRUE

Verify ==
  /\ status = "whole"
  /\ status' = IF Matches THEN "accepted" ELSE "BadDigest"
  /\ UNCHANGED <<upload, stream, fault, pos, remain, started, out, trailer>>

Answered == status \in {"accepted", "failed", "BadDigest"}

Next == ReadSize \/ ReadData \/ Verify \/ (Answered /\ UNCHANGED vars)

Spec == Init /\ [][Next]_vars

-----------------------------------------------------------------------------
(***************************************************************************)
(* Properties                                                              *)
(***************************************************************************)

\* Every variable has its type.
TypeOK ==
  /\ upload \in Uploads
  /\ fault \in {"none", "cut", "damage", "size", "framing"}
  /\ pos \in 0 .. Len(stream)
  /\ remain \in Nat
  /\ started \in BOOLEAN
  /\ Len(out) <= pos
  /\ trailer \in Seq(Symbol)
  /\ status \in {"reading", "whole", "accepted", "failed", "BadDigest"}

\* What reaches the store is the beginning of the object, whatever the pieces it
\* is read in: no framing gets into it (chunked.go: "persist that framing as object
\* bytes: silent corruption").  A byte damaged on the way is stored as it arrives;
\* one of a size line is left out, since the reader then takes framing for data.
NoFramingStored == fault # "size" =>
  /\ Len(out) <= Len(Content(upload))
  /\ \A n \in DOMAIN out : out[n] \in {Content(upload)[n]} \cup Noise
  /\ fault # "damage" => IsPrefix(out, Content(upload))

\* A body cut short anywhere, or damaged but in a size line, is accepted only if the
\* object was complete by then.  It takes sizes without leading zeros: of "05" the
\* "0" alone would be a last chunk.
CutIsNoticed ==
  status \in {"whole", "accepted"} /\ ~Padded(upload) /\ fault # "size" =>
    Len(out) = Len(Content(upload))

\* With a digest asserted, what is accepted is what was sent: any damaged byte and
\* a broken connection are noticed (checksum.go: "a corrupted upload fails here").
\* Two things can take a trailing digest away, so that none is compared
\* (checksum.go:144) and a part of the object may be accepted: a connection that
\* breaks in a padded size, and a byte damaged in a size line, which can make a
\* chunk the last one and a line end behind it, its own or one its data begins with,
\* the end of the trailers.
DamageIsNoticed ==
  /\ status = "accepted"
  /\ \/ upload.asserts \in {"md5", "header"}
     \/ /\ upload.asserts = "trailer"
        /\ trailer # <<>> \/ ~(fault = "size" \/ (fault = "cut" /\ Padded(upload)))
  => out = Content(upload)

\* An undisturbed body is never refused, in whatever pieces it is read, and
\* arrives as it was sent.
UndisturbedAccepted ==
  fault = "none" => /\ status \notin {"failed", "BadDigest"}
                    /\ Answered => out = Content(upload)

\* A range of a stored object is answered with just the bytes it asks for, as
\* they were sent and as many as Content-Length says, and with 416 when there
\* are none of them.  Not so for an empty object: "the last n bytes" of it are
\* served as 206 with none (rangehdr.go:57).
RangesServeTheUpload ==
  status = "accepted" /\ out # <<>> =>
    \A h \in Headers :
      LET r == ParseRange(h, Len(out))
          asked == Asked(h, Len(out))
      IN /\ r.status = 416 <=> asked = {}
         /\ r.status # 416 =>
              /\ Len(Served(r, out)) = r.length /\ r.length = Cardinality(asked)
              /\ \A n \in asked : Served(r, out)[n - r.offset + 1] = out[n + 1]
=============================================================================
