---------------------------- MODULE HandlerProofs ----------------------------
(***************************************************************************)
(* For any number of clients, keys, contents and requests, whatever the    *)
(* Range and conditional headers and however their store calls interleave: *)
(* what the replies of the handlers say of objects is true.                *)
(***************************************************************************)
EXTENDS ObjectHandlers, SequenceTheorems, TLAPS

-----------------------------------------------------------------------------
(***************************************************************************)
(* Parts of an object                                                      *)
(***************************************************************************)

LEMMA ParseRangeType ==
  ASSUME NEW h \in Headers, NEW size \in Nat, NEW r, r = ParseRange(h, size)
  PROVE  /\ r.status \in {200, 206, 416} /\ r.offset \in Nat /\ r.length \in Nat
         /\ r.status = 200 => r.offset = 0 /\ r.length = size
         /\ r.status = 206 => r.offset + r.length <= size
<1>. USE DEF Whole, Part, Unsatisfiable
<1>1. \A start, end \in Nat :
        \/ Span(start, end, size) = Unsatisfiable
        \/ /\ start < size /\ Smaller(end, size - 1) - start + 1 \in Nat
           /\ start + (Smaller(end, size - 1) - start + 1) <= size
           /\ Span(start, end, size) = Part(start, Smaller(end, size - 1) - start + 1)
  BY DEF Span, Smaller
<1>2. CASE h.form = "other"
  BY <1>2 DEF ParseRange
<1>3. CASE h.form = "bad"
  BY <1>3 DEF ParseRange
<1>4. CASE h.form = "last"
  <2>1. h.count \in Nat
    BY <1>4, MaxOffsetType DEF Headers, Number
  <2>2. Smaller(h.count, size) \in Nat /\ Smaller(h.count, size) <= size
    BY <2>1 DEF Smaller
  <2>3. CASE h.count = 0
    BY <1>4, <2>3 DEF ParseRange
  <2>4. CASE h.count # 0
    <3>1. ParseRange(h, size) = Part(size - Smaller(h.count, size), Smaller(h.count, size))
      BY <1>4, <2>4 DEF ParseRange
    <3>. QED  BY <2>2, <3>1
  <2>. QED  BY <2>3, <2>4
<1>5. CASE h.form = "from"
  <2>1. h.start \in Nat /\ ParseRange(h, size) = Span(h.start, size - 1, size)
    BY <1>5, MaxOffsetType DEF Headers, Number, ParseRange
  <2>2. CASE size = 0
    BY <2>1, <2>2 DEF Span
  <2>3. CASE size # 0
    <3>1. size - 1 \in Nat
      BY <2>3
    <3>. QED  BY <1>1, <2>1, <3>1
  <2>. QED  BY <2>2, <2>3
<1>6. CASE h.form = "span"
  <2>1. h.start \in Nat /\ h.end \in Nat /\ ParseRange(h, size) = Span(h.start, h.end, size)
    BY <1>6, MaxOffsetType DEF Headers, Number, ParseRange
  <2>. QED  BY <1>1, <2>1
<1>7. h.form \in {"other", "bad", "last", "from", "span"}
  BY DEF Headers
<1>. QED  BY <1>2, <1>3, <1>4, <1>5, <1>6, <1>7

\* What is read of an object to serve a part of it.
LEMMA ServedType ==
  ASSUME NEW S, NEW s \in Seq(S), NEW offset \in Nat, NEW length \in Nat, NEW r,
         r.offset = offset, r.length = length
  PROVE  /\ Served(r, s) \in Seq(S)
         /\ offset + length <= Len(s) => Len(Served(r, s)) = length
         /\ offset = 0 /\ length = Len(s) => Served(r, s) = s
<1>. DEFINE last == Smaller(offset + length, Len(s))
<1>1. last \in Nat /\ last <= Len(s) /\ (offset + length <= Len(s) => last = offset + length)
  BY DEF Smaller
<1>2. Served(r, s) = SubSeq(s, offset + 1, last)
  BY DEF Served
<1>3. \A i \in offset + 1 .. last : s[i] \in S
  BY <1>1
<1>4. /\ SubSeq(s, offset + 1, last) \in Seq(S)
      /\ Len(SubSeq(s, offset + 1, last)) =
           IF offset + 1 <= last THEN last - (offset + 1) + 1 ELSE 0
  <2>. HIDE DEF last
  <2>. QED  BY <1>1, <1>3, SubSeqProperties
<1>5. ASSUME offset = 0, length = Len(s) PROVE SubSeq(s, offset + 1, last) = s
  <2>1. last = Len(s) /\ offset + 1 = 1
    BY <1>1, <1>5
  <2>. QED  BY <2>1, SubSeqFull
<1>. QED  BY <1>1, <1>2, <1>4, <1>5

\* A client receives a beginning of what was read, and all that fits.
LEMMA ReceivedType ==
  ASSUME NEW S, NEW s \in Seq(S), NEW r, r.length \in Nat, NEW bytes \in Received(r, s)
  PROVE  /\ bytes \in Seq(S)
         /\ Len(bytes) \in Nat /\ Len(bytes) <= Len(s) /\ Len(bytes) <= r.length
         /\ bytes = SubSeq(s, 1, Len(bytes))
         /\ Len(s) <= r.length => bytes = s
<1>1. CASE Len(s) <= r.length
  BY <1>1, SubSeqFull DEF Received
<1>2. CASE ~(Len(s) <= r.length)
  <2>1. PICK n \in 0 .. r.length : bytes = SubSeq(s, 1, n)
    BY <1>2 DEF Received
  <2>2. n \in Int /\ n >= 0 /\ n <= r.length /\ n <= Len(s) /\ \A i \in 1 .. n : s[i] \in S
    BY <1>2, <2>1
  <2>3. SubSeq(s, 1, n) \in Seq(S) /\ Len(SubSeq(s, 1, n)) = n
    BY <2>2, SubSeqProperties
  <2>. QED  BY <1>2, <2>1, <2>2, <2>3
<1>. QED  BY <1>1, <1>2

-----------------------------------------------------------------------------
(***************************************************************************)
(* The inductive invariant                                                 *)
(***************************************************************************)

\* Which requests get how far, and what the store may answer them.
Placed(p) ==
  LET asks == req[p].key IN
  /\ pc[p] \in {"idle", "route"} =>
       answer[p] = Unanswered /\ told[p] = NobodyTold /\ ~wrote[p]
  /\ pc[p] = "done" => answer[p] = Unanswered
  /\ info[p] # Nothing => pc[p] \in {"get", "done"} /\ asks \in Keys
  /\ pc[p] = "put" => req[p].method = "PUT"
  /\ pc[p] = "delete" => req[p].method = "DELETE"
  /\ pc[p] = "head" => req[p].method \in {"GET", "HEAD"}
  /\ pc[p] = "get" => /\ req[p].method = "GET" /\ asks \in Keys /\ info[p] \in Version
                      /\ ParseRange(req[p].range, Len(Content[info[p].body])).status # 416
  /\ pc[p] = "rollback" => asks \in Keys /\ req[p].method = "PUT"
  /\ pc[p] = "bulk" => req[p].method = "POST"
  /\ pc[p] \in {"put", "delete", "head"} => asks \in Keys \cup BadKeys
  /\ answer[p] = Refused => pc[p] = "put" \/ Key(p) \in BadKeys
  /\ answer[p] \notin {Unanswered, Refused} => Key(p) \in Keys

\* The history of a request holds what every object is now.
Follows(p) == pc[p] # "idle" => \A k \in Keys : object[k] \in seen[p][k]

\* What HeadObject found, the object was; what GetObject opened, it was later.
Knows(p) ==
  /\ pc[p] = "head" /\ answer[p] \in Version \cup {NoObject} =>
       answer[p] \in seen[p][req[p].key]
  /\ pc[p] = "get" /\ answer[p] \notin {Unanswered, NoObject} =>
       \E v \in since[p] \ {NoObject} : v.body = answer[p]

\* Who has deleted, written or taken back is answered so, or told of an error.
Wrote(p) ==
  wrote[p] => \/ pc[p] = "delete" /\ answer[p] = Done
              \/ pc[p] \in {"put", "rollback", "bulk"}
              \/ Replied(p, {"OK", "NoContent", "BadDigest", "error"})

\* The content a PUT sends was the object's; there was a time without the object.
Stored(p) == /\ req[p].key \in Keys
             /\ \E v \in Meanwhile(p) \ {NoObject} : v.body = req[p].body
Gone(p) == req[p].key \in Keys /\ NoObject \in Meanwhile(p)

\* Once the store has said that it wrote or deleted, it did.
Effected(p) ==
  /\ pc[p] = "put" /\ answer[p] = Done => Stored(p)
  /\ pc[p] \in {"delete", "rollback"} /\ answer[p] = Done => Gone(p)
  /\ Replied(p, {"OK"}) /\ req[p].method = "PUT" => Stored(p)
  /\ Replied(p, {"NoContent", "BadDigest"}) => Gone(p)
  /\ Replied(p, {"error"}) => req[p].method = "PUT"

\* How many names of a bulk delete are gone through, and which.
Through(p) == Len(req[p].names) - Len(left[p])
Past(p) == {req[p].names[i] : i \in 1 .. Through(p)}

\* What a bulk delete that has gone through these names tells of them.
Tells(p, names) ==
  /\ told[p].errors = names \cap BadKeys
  /\ told[p].deleted = IF req[p].quiet THEN {} ELSE names \cap Keys
  /\ \A k \in names \cap Keys : NoObject \in seen[p][k]

Telling(p) ==
  pc[p] = "bulk" =>
    /\ Through(p) \in Nat
    /\ \A i \in 1 .. Len(left[p]) : left[p][i] = req[p].names[Through(p) + i]
    /\ Tells(p, Past(p))
    /\ answer[p] = Done => NoObject \in seen[p][Key(p)]

BulkTold(p) ==
  Replied(p, {"OK"}) /\ req[p].method = "POST" =>
    Tells(p, {req[p].names[i] : i \in DOMAIN req[p].names})

ServedOne(p) ==
  Replied(p, {"OK", "PartialContent"}) /\ req[p].method = "GET" =>
    LET r == ParseRange(req[p].range, Len(Content[info[p].body])) IN
    /\ \E v \in since[p] \ {NoObject} :
         reply[p].bytes = SubSeq(Served(r, Content[v.body]), 1, Len(reply[p].bytes))
    /\ since[p] = {info[p]} => /\ Len(reply[p].bytes) = reply[p].length
                               /\ reply[p].etag = info[p].body

Unmodified(p) ==
  Replied(p, {"NotModified"}) =>
    /\ req[p].key \in Keys
    /\ \E v \in Meanwhile(p) \ {NoObject} :
         IF "If-None-Match" \in req[p].sends THEN v.body = copy[p].version.body
         ELSE Second(v) <= Second(copy[p].version)

\* The preconditions are judged by a version the object had; a client that sends
\* its own validators of this version is answered by them.
Owns(p) == /\ req[p].method \in {"GET", "HEAD"} /\ req[p].key \in Keys
           /\ copy[p] # Nothing /\ copy[p].key = req[p].key

Asked4New(p) == req[p].sends \cap {"If-None-Match", "If-Modified-Since"} # {}

Judged(p) ==
  pc[p] \in {"get", "done"} /\ Owns(p) /\ ~Replied(p, {"AccessDenied", "SlowDown"}) =>
    \E v \in Meanwhile(p) :
      v = copy[p].version => /\ ~Replied(p, {"PreconditionFailed"})
                             /\ Asked4New(p) => Replied(p, {"NotModified"})

Honest(p) == /\ Placed(p) /\ Follows(p) /\ Knows(p) /\ Wrote(p) /\ Telling(p)
             /\ BulkTold(p) /\ ServedOne(p) /\ Unmodified(p) /\ Judged(p) /\ Effected(p)

HInv == TypeOK /\ \A p \in Procs : Honest(p)

-----------------------------------------------------------------------------

LEMMA IdleRequestType == IdleRequest \in Requests
BY RequestsType DEF IdleRequest

LEMMA RequestType ==
  ASSUME NEW r \in Requests
  PROVE  /\ r.method \in {"PUT", "GET", "HEAD", "DELETE", "POST", "PATCH"}
         /\ r.key \in Keys \cup BadKeys \cup {NoKey} /\ r.range \in Headers
         /\ r.body \in Bodies /\ r.names \in Seq(Keys \cup BadKeys)
         /\ r.quiet \in BOOLEAN /\ r.damaged \in BOOLEAN /\ r.sends \subseteq Validators
         /\ r.key = NoKey => r.method = "POST"
<1>1. r \in Request
  BY RequestsType
<1>. QED  BY <1>1, RequestsType DEF Request

LEMMA HInvInit == Init => HInv
<1>. SUFFICES ASSUME Init PROVE HInv
  OBVIOUS
<1>1. TypeOK
  BY IdleRequestType, SeedsType, ClockType, Sentinels DEF Init, TypeOK, NobodyTold
<1>2. ASSUME NEW p \in Procs PROVE Honest(p)
  BY Sentinels DEF Init, Honest, Placed, Follows, Knows, Wrote, Telling, BulkTold, ServedOne,
     Unmodified, Judged, Effected, Replied
<1>. QED  BY <1>1, <1>2 DEF HInv

-----------------------------------------------------------------------------
(***************************************************************************)
(* What others do                                                          *)
(***************************************************************************)

\* The history of request q goes on, and nothing else about it changes.
Untouched(q) ==
  /\ pc'[q] = pc[q] /\ req'[q] = req[q] /\ info'[q] = info[q] /\ left'[q] = left[q]
  /\ told'[q] = told[q] /\ reply'[q] = reply[q] /\ copy'[q] = copy[q]
  /\ answer'[q] = answer[q] /\ wrote'[q] = wrote[q]
  /\ pc[q] # "idle" => \A k \in Keys : /\ seen[q][k] \subseteq seen'[q][k]
                                       /\ object'[k] \in seen'[q][k]
  /\ since[q] \subseteq since'[q] /\ (pc[q] # "get" => since'[q] = since[q])

LEMMA HonestStays ==
  ASSUME NEW q \in Procs, Honest(q), Untouched(q)
  PROVE  Honest(q)'
<1>. USE DEF Untouched
<1>1. Placed(q)'
  BY DEF Honest, Placed, Key
<1>2. Follows(q)'
  BY DEF Follows
<1>3. Knows(q)'
  <2>1. CASE pc[q] = "head"
    <3>1. Key(q) = req[q].key /\ Key(q)' = req[q].key
      BY <2>1 DEF Key
    <3>2. ASSUME answer[q] \in Version \cup {NoObject} PROVE req[q].key \in Keys
      BY <2>1, <3>1, <3>2, Sentinels DEF Honest, Placed
    <3>. QED  BY <2>1, <3>2 DEF Honest, Knows
  <2>2. CASE pc[q] = "get"
    BY <2>2 DEF Honest, Knows
  <2>. QED  BY <2>1, <2>2 DEF Knows
<1>4. Wrote(q)'
  BY DEF Honest, Wrote, Replied
<1>5. \A names : Tells(q, names) /\ pc[q] # "idle" => Tells(q, names)'
  BY DEF Tells
<1>6. Telling(q)'
  <2>1. SUFFICES ASSUME pc[q] = "bulk" PROVE Telling(q)'
    BY DEF Telling
  <2>2. Through(q)' = Through(q) /\ Past(q)' = Past(q) /\ Key(q)' = Key(q)
    BY DEF Through, Past, Key
  <2>3. answer[q] = Done => Key(q) \in Keys
    BY Sentinels DEF Honest, Placed
  <2>4. Tells(q, Past(q))'
    BY <1>5, <2>1, <2>2 DEF Honest, Telling
  <2>. QED  BY <2>1, <2>2, <2>3, <2>4 DEF Honest, Telling
<1>7. BulkTold(q)'
  <2>1. SUFFICES ASSUME Replied(q, {"OK"}), req[q].method = "POST" PROVE BulkTold(q)'
    BY DEF BulkTold, Replied
  <2>2. Tells(q, {req[q].names[i] : i \in DOMAIN req[q].names})'
    BY <1>5, <2>1 DEF Honest, BulkTold, Replied
  <2>. QED  BY <2>2 DEF BulkTold
<1>8. ServedOne(q)'
  BY DEF Honest, ServedOne, Replied
<1>9. Unmodified(q)'
  <2>1. SUFFICES ASSUME Replied(q, {"NotModified"}) PROVE Unmodified(q)'
    BY DEF Unmodified, Replied
  <2>2. req[q].key \in Keys /\ Meanwhile(q) \subseteq Meanwhile(q)'
    BY <2>1 DEF Honest, Unmodified, Replied, Meanwhile
  <2>. QED  BY <2>1, <2>2 DEF Honest, Unmodified, Replied
<1>10. Judged(q)'
  <2>1. SUFFICES ASSUME pc[q] \in {"get", "done"}, Owns(q) PROVE Judged(q)'
    BY DEF Judged, Owns
  <2>2. req[q].key \in Keys /\ Meanwhile(q) \subseteq Meanwhile(q)'
    BY <2>1 DEF Owns, Meanwhile
  <2>. QED  BY <2>1, <2>2 DEF Honest, Judged, Owns, Replied, Asked4New
<1>11. Effected(q)'
  <2>1. ASSUME pc[q] # "idle"
        PROVE  (Stored(q) => Stored(q)') /\ (Gone(q) => Gone(q)')
    BY <2>1 DEF Stored, Gone, Meanwhile
  <2>2. CASE pc[q] \in {"put", "delete", "rollback", "done"}
    BY <2>1, <2>2 DEF Honest, Effected, Replied
  <2>3. CASE pc[q] \notin {"put", "delete", "rollback", "done"}
    BY <2>3 DEF Effected, Replied
  <2>. QED  BY <2>2, <2>3
<1>. QED  BY <1>1, <1>2, <1>3, <1>4, <1>6, <1>7, <1>8, <1>9, <1>10, <1>11 DEF Honest

\* The histories of all requests when a store call takes effect.
LEMMA TakesHistory ==
  ASSUME NEW p \in Procs, Takes(p), NEW q \in Procs
  PROVE  /\ seen'[q] = [k \in Keys |->
                          IF pc[q] = "idle" THEN {} ELSE seen[q][k] \cup {object'[k]}]
         /\ since'[q] = IF q = p /\ pc[p] = "head" /\ Key(p) \in Keys THEN {object[Key(p)]}
                        ELSE IF pc[q] = "get" THEN since[q] \cup {object'[req[q].key]}
                        ELSE since[q]
BY DEF Takes

\* What the store does for p.
LEMMA TakesOthers ==
  ASSUME TypeOK, NEW p \in Procs, Takes(p)
  PROVE  /\ answer[p] = Unanswered \/ (pc[p] = "put" /\ answer[p] = Done)
         /\ \E a : answer' = [answer EXCEPT ![p] = a]
<1>1. (\E a : Store!Answer(p, a)) \/ (pc[p] = "put" /\ Store!FailLate(p))
  BY DEF Takes, Writes, Fails, Store!Head, Store!Get, Store!Put, Store!Delete, Store!Refuse
<1>. QED  BY <1>1 DEF Store!Answer, Store!FailLate

LEMMA OthersUntouched ==
  ASSUME HInv, NEW p \in Procs, Arrive(p) \/ Step(p), NEW q \in Procs, p # q
  PROVE  Untouched(q)
<1>. USE DEF HInv, TypeOK, Untouched
<1>0. Follows(q)
  BY DEF Honest
<1>1. CASE Arrive(p)
  BY <1>0, <1>1 DEF Arrive, Goto, store, local, Follows
<1>2. CASE Route(p)
  BY <1>0, <1>2 DEF Route, Answer, Goto, store, ghost, Follows
<1>3. CASE Respond(p)
  BY <1>0, <1>3 DEF Respond, Goto, store, Follows
<1>4. CASE Takes(p)
  <2>1. answer'[q] = answer[q]
    BY <1>4, TakesOthers
  <2>2. wrote'[q] = wrote[q] /\ UNCHANGED <<pc, req, local, copy>>
    BY <1>4 DEF Takes
  <2>3. UNCHANGED <<info, left, told, reply>>
    BY <2>2 DEF local
  <2>4. /\ pc[q] # "idle" => \A k \in Keys : seen'[q][k] = seen[q][k] \cup {object'[k]}
        /\ since[q] \subseteq since'[q] /\ (pc[q] # "get" => since'[q] = since[q])
    <3>1. /\ seen'[q] = [k \in Keys |->
                           IF pc[q] = "idle" THEN {} ELSE seen[q][k] \cup {object'[k]}]
          /\ since'[q] = IF pc[q] = "get" THEN since[q] \cup {object'[req[q].key]}
                         ELSE since[q]
      BY <1>4, TakesHistory
    <3>. HIDE DEF HInv, TypeOK
    <3>. QED  BY <3>1
  <2>. QED  BY <2>1, <2>2, <2>3, <2>4
<1>5. ASSUME NEW call, Returned(p, call) PROVE object' = object /\ answer'[q] = answer[q]
  BY <1>5 DEF Returned, Store!Return
<1>6. CASE PutReturns(p)
  BY <1>0, <1>5, <1>6 DEF PutReturns, Answer, Goto, ghost, Follows
<1>7. CASE RollbackReturns(p)
  BY <1>0, <1>5, <1>7 DEF RollbackReturns, Answer, Goto, ghost, Follows
<1>8. CASE DeleteReturns(p)
  BY <1>0, <1>5, <1>8 DEF DeleteReturns, Answer, Goto, ghost, Follows
<1>9. CASE HeadReturns(p)
  <2>1. /\ pc'[q] = pc[q] /\ info'[q] = info[q] /\ reply'[q] = reply[q]
        /\ UNCHANGED <<req, left, told, copy, ghost>>
    BY <1>9 DEF HeadReturns, Answer, Goto
  <2>. QED  BY <1>0, <1>5, <1>9, <2>1 DEF HeadReturns, ghost, Follows
<1>10. CASE GetReturns(p)
  BY <1>0, <1>5, <1>10 DEF GetReturns, Answer, Goto, ghost, Follows
<1>11. CASE BulkReturns(p)
  <2>1. /\ pc'[q] = pc[q] /\ left'[q] = left[q] /\ reply'[q] = reply[q] /\ told'[q] = told[q]
        /\ UNCHANGED <<req, info, copy, ghost>>
    BY <1>11 DEF BulkReturns, Answer, Goto, Tell
  <2>. QED  BY <1>0, <1>5, <1>11, <2>1 DEF BulkReturns, ghost, Follows
<1>. QED
  BY <1>1, <1>2, <1>3, <1>4, <1>6, <1>7, <1>8, <1>9, <1>10, <1>11 DEF Step

-----------------------------------------------------------------------------
(***************************************************************************)
(* Arrival, dispatch and the way back                                      *)
(***************************************************************************)

LEMMA ArriveKeeps ==
  ASSUME HInv, NEW p \in Procs, Arrive(p)
  PROVE  TypeOK' /\ Honest(p)'
<1>. USE DEF HInv
<1>1. PICK r \in Requests : req' = [req EXCEPT ![p] = r]
  BY DEF Arrive
<1>2. /\ pc[p] = "idle" /\ pc' = [pc EXCEPT ![p] = "route"] /\ begun' = begun + 1
      /\ seen' = [seen EXCEPT ![p] = [k \in Keys |-> {object[k]}]]
      /\ UNCHANGED <<object, answer, clock, info, left, told, reply, copy, since, wrote>>
  BY DEF Arrive, Goto, store, local
<1>3. /\ answer[p] = Unanswered /\ told[p] = NobodyTold /\ ~wrote[p] /\ info[p] = Nothing
  BY <1>2 DEF Honest, Placed
<1>4. TypeOK'
  BY <1>1, <1>2, <1>3 DEF TypeOK
<1>5. pc'[p] = "route" /\ seen'[p] = [k \in Keys |-> {object[k]}]
  BY <1>2 DEF TypeOK
<1>6. Placed(p)'
  BY <1>2, <1>3, <1>5, Sentinels DEF Placed
<1>7. Follows(p)' /\ Knows(p)' /\ Wrote(p)' /\ Telling(p)'
  BY <1>2, <1>3, <1>5 DEF Follows, Knows, Wrote, Telling
<1>8. BulkTold(p)' /\ ServedOne(p)' /\ Unmodified(p)' /\ Judged(p)' /\ Effected(p)'
  BY <1>5 DEF BulkTold, ServedOne, Unmodified, Judged, Effected, Replied
<1>. QED  BY <1>4, <1>6, <1>7, <1>8 DEF Honest

LEMMA RespondKeeps ==
  ASSUME HInv, NEW p \in Procs, Respond(p)
  PROVE  TypeOK' /\ Honest(p)'
<1>. USE DEF HInv
<1>1. /\ pc[p] = "done" /\ pc' = [pc EXCEPT ![p] = "idle"]
      /\ req' = [req EXCEPT ![p] = IdleRequest]
      /\ reply' = [reply EXCEPT ![p] = Nothing] /\ info' = [info EXCEPT ![p] = Nothing]
      /\ told' = [told EXCEPT ![p] = NobodyTold]
      /\ seen' = [seen EXCEPT ![p] = [k \in Keys |-> {}]]
      /\ since' = [since EXCEPT ![p] = {}] /\ wrote' = [wrote EXCEPT ![p] = FALSE]
      /\ UNCHANGED <<object, answer, clock, left, begun>>
  BY DEF Respond, Goto, store
<1>2. answer[p] = Unanswered
  BY <1>1 DEF Honest, Placed
<1>3. copy' \in [Procs -> [key : Keys, version : Version] \cup {Nothing}]
  <2>1. CASE reply[p].code = "OK" /\ info[p] # Nothing
    <3>1. req[p].key \in Keys /\ info[p] \in Version
      BY <2>1 DEF Honest, Placed, TypeOK
    <3>2. copy' = [copy EXCEPT ![p] = [key |-> req[p].key, version |-> info[p]]]
      BY <2>1 DEF Respond
    <3>. QED  BY <3>1, <3>2 DEF TypeOK
  <2>2. CASE ~(reply[p].code = "OK" /\ info[p] # Nothing)
    BY <2>2 DEF Respond, TypeOK
  <2>. QED  BY <2>1, <2>2
<1>4. TypeOK'
  BY <1>1, <1>2, <1>3, IdleRequestType DEF TypeOK, NobodyTold
<1>5. /\ pc'[p] = "idle" /\ answer'[p] = Unanswered /\ told'[p] = NobodyTold /\ ~wrote'[p]
      /\ info'[p] = Nothing
  BY <1>1, <1>2 DEF TypeOK
<1>6. Placed(p)'
  BY <1>5, Sentinels DEF Placed
<1>7. Follows(p)' /\ Knows(p)' /\ Wrote(p)' /\ Telling(p)'
  BY <1>5 DEF Follows, Knows, Wrote, Telling
<1>8. BulkTold(p)' /\ ServedOne(p)' /\ Unmodified(p)' /\ Judged(p)' /\ Effected(p)'
  BY <1>5 DEF BulkTold, ServedOne, Unmodified, Judged, Effected, Replied
<1>. QED  BY <1>4, <1>6, <1>7, <1>8 DEF Honest

LEMMA PlainType ==
  ASSUME NEW code \in Codes
  PROVE  Plain(code) \in Replies /\ Plain(code).code = code /\ Plain(code) # Nothing
<1>1. <<>> \in Seq(Bytes)
  OBVIOUS
<1>2. Plain(code) \in Replies
  BY <1>1 DEF Plain, Replies
<1>. QED  BY <1>2, Sentinels DEF Plain

\* A request ends with a reply that carries no bytes of an object.
LEMMA Ends ==
  ASSUME HInv, NEW p \in Procs, NEW a \in Replies, Answer(p, a),
         pc[p] \notin {"idle", "bulk", "done"},
         answer' = [answer EXCEPT ![p] = Unanswered],
         UNCHANGED <<object, clock, req, info, left, told, copy, begun, ghost>>,
         a.code = "OK" => req[p].method = "PUT", a.code # "PartialContent",
         Wrote(p)', Unmodified(p)', Judged(p)', Effected(p)'
  PROVE  TypeOK' /\ Honest(p)'
<1>. USE DEF HInv
<1>1. /\ pc' = [pc EXCEPT ![p] = "done"] /\ reply' = [reply EXCEPT ![p] = a]
      /\ UNCHANGED <<seen, since, wrote>>
  BY DEF Answer, Goto, ghost
<1>2. TypeOK'
  <2>1. a # Nothing
    BY Sentinels
  <2>. QED  BY <1>1, <2>1 DEF TypeOK
<1>3. pc'[p] = "done" /\ reply'[p].code = a.code /\ answer'[p] = Unanswered
  BY <1>1 DEF TypeOK
<1>4. Placed(p)'
  BY <1>3, Sentinels DEF Placed, Honest
<1>5. Follows(p)' /\ Knows(p)' /\ Telling(p)'
  BY <1>1, <1>3 DEF Honest, Follows, Knows, Telling
<1>6. BulkTold(p)' /\ ServedOne(p)'
  BY <1>3 DEF BulkTold, ServedOne, Replied
<1>. QED  BY <1>2, <1>4, <1>5, <1>6 DEF Honest

LEMMA PlainEnds ==
  ASSUME HInv, NEW p \in Procs, NEW code \in Codes, Answer(p, Plain(code)),
         pc[p] \notin {"idle", "bulk", "done"},
         answer' = [answer EXCEPT ![p] = Unanswered],
         UNCHANGED <<object, clock, req, info, left, told, copy, begun, ghost>>,
         code = "OK" => req[p].method = "PUT", code # "PartialContent",
         Wrote(p)', Unmodified(p)', Judged(p)', Effected(p)'
  PROVE  TypeOK' /\ Honest(p)'
<1>1. Plain(code) \in Replies /\ Plain(code).code = code
  BY PlainType
<1>. QED  BY ONLY HInv, p \in Procs, <1>1, Answer(p, Plain(code)),
  pc[p] \notin {"idle", "bulk", "done"}, answer' = [answer EXCEPT ![p] = Unanswered],
  UNCHANGED <<object, clock, req, info, left, told, copy, begun, ghost>>,
  code = "OK" => req[p].method = "PUT", code # "PartialContent",
  Wrote(p)', Unmodified(p)', Judged(p)', Effected(p)', Ends

LEMMA ServeObjectType ==
  ASSUME NEW r \in Requests
  PROVE  /\ ServeObject(r) \in {"NotImplemented", "MethodNotAllowed", "put", "head", "delete"}
         /\ ServeObject(r) = "put" => r.method = "PUT"
         /\ ServeObject(r) = "delete" => r.method = "DELETE"
         /\ ServeObject(r) = "head" <=> r.method \in {"GET", "HEAD"}
BY RequestType DEF ServeObject

LEMMA ServeBulkType ==
  ASSUME NEW r \in Requests
  PROVE  /\ ServeBulk(r) \in {"NotImplemented", "InvalidRequest", "bulk"}
         /\ ServeBulk(r) = "bulk" => r.names # <<>>
<1>1. r.names \in Seq(Keys \cup BadKeys)
  BY RequestType
<1>2. Len(r.names) \in 1 .. MaxKeysLimit => r.names # <<>>
  BY <1>1, LimitType
<1>. QED  BY <1>2 DEF ServeBulk

LEMMA RouteKeeps ==
  ASSUME HInv, NEW p \in Procs, Route(p)
  PROVE  TypeOK' /\ Honest(p)'
<1>. USE DEF HInv
<1>. DEFINE r == req[p]
            handler == IF r.key = NoKey THEN ServeBulk(r) ELSE ServeObject(r)
            handlers == {"put", "head", "delete", "bulk"}
<1>1. r \in Requests
  BY DEF TypeOK
<1>2. /\ pc[p] = "route" /\ answer[p] = Unanswered /\ told[p] = NobodyTold /\ ~wrote[p]
      /\ info[p] = Nothing /\ left[p] = <<>>
  BY DEF Route, Honest, Placed, TypeOK
<1>3. /\ UNCHANGED <<object, answer, clock, req, info, told, copy, begun, seen, since, wrote>>
      /\ UNCHANGED ghost
  BY DEF Route, store, ghost
<1>4. ASSUME handler \notin handlers
      PROVE  handler \in {"NotImplemented", "MethodNotAllowed", "InvalidRequest"} /\ ~Owns(p)
  <2>1. CASE r.key = NoKey
    BY <1>1, <1>4, <2>1, ServeBulkType, KeysType DEF Owns
  <2>2. CASE r.key # NoKey
    BY <1>1, <1>4, <2>2, ServeObjectType DEF Owns
  <2>. QED  BY <2>1, <2>2
<1>5. ASSUME NEW code \in Codes, Answer(p, Plain(code)), UNCHANGED left,
             code \notin {"OK", "PartialContent", "NotModified", "NoContent", "BadDigest",
                          "error"},
             code \in {"AccessDenied", "SlowDown"} \/ ~Owns(p)
      PROVE  TypeOK' /\ Honest(p)'
  <2>1. answer' = [answer EXCEPT ![p] = Unanswered]
    BY <1>2, <1>3 DEF TypeOK
  <2>2. pc'[p] = "done" /\ reply'[p].code = code
    BY <1>5, PlainType DEF Answer, Goto, TypeOK
  <2>3. Wrote(p)' /\ Unmodified(p)' /\ Judged(p)' /\ Effected(p)'
    BY <1>2, <1>3, <1>5, <2>2 DEF Wrote, Unmodified, Judged, Effected, Replied, Owns
  <2>. QED  BY <1>2, <1>3, <1>5, <2>1, <2>3, PlainEnds
<1>6. ASSUME handler \in handlers, Goto(p, handler), UNCHANGED reply,
             left' = [left EXCEPT ![p] = IF handler = "bulk" THEN r.names ELSE <<>>]
      PROVE  TypeOK' /\ Honest(p)'
  <2>1. pc' = [pc EXCEPT ![p] = handler]
    BY <1>6 DEF Goto
  <2>2. handler = "bulk" => r.key = NoKey /\ r.method = "POST" /\ r.names # <<>>
    BY <1>1, ServeObjectType, ServeBulkType, RequestType
  <2>3. handler # "bulk" =>
          /\ r.key \in Keys \cup BadKeys
          /\ handler = "put" => r.method = "PUT"
          /\ handler = "delete" => r.method = "DELETE"
          /\ handler = "head" => r.method \in {"GET", "HEAD"}
    BY <1>1, <1>6, ServeObjectType, ServeBulkType, RequestType
  <2>4. r.names \in Seq(Keys \cup BadKeys)
    BY <1>1, RequestType
  <2>5. pc'[p] = handler /\ left'[p] = IF handler = "bulk" THEN r.names ELSE <<>>
    BY <1>6, <2>1 DEF TypeOK
  <2>. HIDE DEF handler
  <2>6. TypeOK'
    BY <1>2, <1>3, <1>6, <2>1, <2>2, <2>4 DEF TypeOK
  <2>7. Placed(p)'
    BY <1>2, <1>3, <1>6, <2>2, <2>3, <2>5, Sentinels DEF Placed
  <2>8. Follows(p)' /\ Knows(p)' /\ Wrote(p)'
    BY <1>2, <1>3, <1>6, <2>5, Sentinels DEF Honest, Follows, Knows, Wrote
  <2>9. Telling(p)'
    <3>1. SUFFICES ASSUME handler = "bulk" PROVE Telling(p)'
      BY <2>5 DEF Telling
    <3>2. left'[p] = r.names /\ Len(r.names) \in Nat
      BY <2>4, <2>5, <3>1
    <3>3. Through(p)' = 0
      BY <1>3, <3>2 DEF Through
    <3>4. Past(p)' = {}
      BY <3>3 DEF Past
    <3>5. Tells(p, Past(p))'
      BY <1>2, <1>3, <3>4 DEF Tells, NobodyTold
    <3>6. answer'[p] # Done
      BY <1>2, <1>3, Sentinels
    <3>. QED  BY <1>3, <3>2, <3>3, <3>5, <3>6 DEF Telling
  <2>10. BulkTold(p)' /\ ServedOne(p)' /\ Unmodified(p)' /\ Judged(p)'
    BY <1>6, <2>5 DEF BulkTold, ServedOne, Unmodified, Judged, Replied
  <2>11. Effected(p)'
    BY <1>2, <1>3, <1>6, <2>5, Sentinels DEF Effected, Replied
  <2>. QED  BY <2>6, <2>7, <2>8, <2>9, <2>10, <2>11 DEF Honest
<1>7. CASE Answer(p, Plain("AccessDenied")) /\ UNCHANGED left
  BY <1>5, <1>7 DEF Codes
<1>8. CASE Answer(p, Plain("SlowDown")) /\ UNCHANGED left
  BY <1>5, <1>8 DEF Codes
<1>9. CASE handler \notin handlers /\ Answer(p, Plain(handler)) /\ UNCHANGED left
  <2>1. handler \in {"NotImplemented", "MethodNotAllowed", "InvalidRequest"} /\ ~Owns(p)
    BY <1>4, <1>9
  <2>. HIDE DEF handler
  <2>. QED  BY <1>5, <1>9, <2>1 DEF Codes
<1>. QED  BY <1>6, <1>7, <1>8, <1>9 DEF Route

-----------------------------------------------------------------------------
(***************************************************************************)
(* Store calls take effect                                                 *)
(***************************************************************************)

\* The store answers p with a, and what it holds is now o.
Answers(p, a, o) == answer' = [answer EXCEPT ![p] = a] /\ object' = o

LEMMA TakesKinds ==
  ASSUME NEW p \in Procs, Takes(p)
  PROVE  \/ /\ pc[p] = "head" /\ Key(p) \in Keys
            /\ Answers(p, object[Key(p)], object)
         \/ /\ pc[p] = "get"
            /\ Answers(p, IF object[Key(p)] = NoObject THEN NoObject ELSE object[Key(p)].body,
                       object)
         \/ /\ pc[p] \in {"delete", "rollback", "bulk"} /\ Key(p) \in Keys
            /\ Answers(p, Done, [object EXCEPT ![Key(p)] = NoObject])
         \/ /\ pc[p] = "put" /\ Key(p) \in Keys
            /\ Answers(p, Done, [object EXCEPT ![Key(p)] =
                                   [body |-> req[p].body, mtime |-> clock]])
         \/ /\ Key(p) \in BadKeys \/ pc[p] = "put"
            /\ Answers(p, Refused, object)
BY DEF Takes, Writes, Fails, Answers, Store!Head, Store!Get, Store!Put, Store!Delete,
   Store!Refuse, Store!FailLate, Store!Answer

LEMMA TakesType ==
  ASSUME HInv, NEW p \in Procs, Takes(p)
  PROVE  TypeOK'
<1>1. /\ TypeOK /\ \A q \in Procs : Placed(q)
      /\ UNCHANGED <<clock, pc, req, info, left, told, reply, copy, begun>>
      /\ pc[p] \in {"put", "head", "get", "delete", "rollback", "bulk"}
  BY DEF HInv, Honest, Takes, local
<1>2. /\ object' \in [Keys -> Version \cup {NoObject}]
      /\ \E a \in Version \cup Bodies \cup {NoObject, Done, Refused} :
           /\ answer' = [answer EXCEPT ![p] = a]
           /\ a # Refused =>
                \/ pc[p] = "head" /\ a \in Version \cup {NoObject}
                \/ pc[p] = "get" /\ a \in Bodies \cup {NoObject}
                \/ pc[p] \in {"put", "rollback", "delete", "bulk"} /\ a = Done
  <2>1. CASE pc[p] = "head" /\ Key(p) \in Keys /\ Answers(p, object[Key(p)], object)
    <3>1. object[Key(p)] \in Version \cup {NoObject}
      BY <1>1, <2>1 DEF TypeOK
    <3>. QED  BY <1>1, <2>1, <3>1 DEF Answers, TypeOK
  <2>2. CASE /\ pc[p] = "get"
             /\ Answers(p, IF object[Key(p)] = NoObject THEN NoObject ELSE object[Key(p)].body,
                        object)
    <3>1. Key(p) \in Keys
      BY <1>1, <2>2 DEF Key, Placed
    <3>2. object[Key(p)] = NoObject \/ object[Key(p)].body \in Bodies
      BY <1>1, <3>1 DEF TypeOK, Version
    <3>. QED  BY <1>1, <2>2, <3>2 DEF Answers, TypeOK
  <2>3. CASE /\ pc[p] \in {"delete", "rollback", "bulk"} /\ Key(p) \in Keys
             /\ Answers(p, Done, [object EXCEPT ![Key(p)] = NoObject])
    BY <1>1, <2>3 DEF Answers, TypeOK
  <2>4. CASE /\ pc[p] = "put" /\ Key(p) \in Keys
             /\ Answers(p, Done, [object EXCEPT ![Key(p)] =
                                    [body |-> req[p].body, mtime |-> clock]])
    <3>1. [body |-> req[p].body, mtime |-> clock] \in Version
      <4>1. req[p].body \in Bodies /\ clock \in Nat
        BY <1>1, RequestType DEF TypeOK
      <4>. QED  BY <4>1 DEF Version
    <3>. QED  BY <1>1, <2>4, <3>1 DEF Answers, TypeOK
  <2>5. CASE (Key(p) \in BadKeys \/ pc[p] = "put") /\ Answers(p, Refused, object)
    BY <1>1, <2>5 DEF Answers, TypeOK
  <2>. QED  BY <2>1, <2>2, <2>3, <2>4, <2>5, TakesKinds
<1>3. /\ answer' \in [Procs -> Version \cup Bodies \cup {NoObject, Unanswered, Done, Refused}]
      /\ \A q \in Procs : answer'[q] \notin {Unanswered, Refused} =>
            \/ pc[q] = "head" /\ answer'[q] \in Version \cup {NoObject}
            \/ pc[q] = "get" /\ answer'[q] \in Bodies \cup {NoObject}
            \/ pc[q] \in {"put", "rollback", "delete", "bulk"} /\ answer'[q] = Done
  BY <1>1, <1>2 DEF TypeOK
<1>4. seen' \in [Procs -> [Keys -> SUBSET (Version \cup {NoObject})]]
  <2>1. seen' = [q \in Procs |-> [k \in Keys |->
                   IF pc[q] = "idle" THEN {} ELSE seen[q][k] \cup {object'[k]}]]
    BY DEF Takes
  <2>2. \A q \in Procs, k \in Keys :
          /\ seen[q][k] \subseteq Version \cup {NoObject}
          /\ object'[k] \in Version \cup {NoObject}
    BY <1>1, <1>2 DEF TypeOK
  <2>. QED  BY <2>1, <2>2
<1>5. since' \in [Procs -> SUBSET (Version \cup {NoObject})]
  <2>1. since' = [q \in Procs |->
                    IF q = p /\ pc[p] = "head" /\ Key(p) \in Keys THEN {object[Key(p)]}
                    ELSE IF pc[q] = "get" THEN since[q] \cup {object'[req[q].key]}
                    ELSE since[q]]
    BY DEF Takes
  <2>2. \A q \in Procs :
          /\ since[q] \subseteq Version \cup {NoObject}
          /\ pc[q] = "get" => object'[req[q].key] \in Version \cup {NoObject}
    BY <1>1, <1>2 DEF TypeOK, Placed
  <2>3. Key(p) \in Keys => object[Key(p)] \in Version \cup {NoObject}
    BY <1>1 DEF TypeOK
  <2>. QED  BY <2>1, <2>2, <2>3
<1>6. wrote' \in [Procs -> BOOLEAN]
  BY <1>1 DEF TypeOK, Takes
<1>. QED  BY <1>1, <1>2, <1>3, <1>4, <1>5, <1>6 DEF TypeOK

LEMMA TakesKeeps ==
  ASSUME HInv, NEW p \in Procs, Takes(p)
  PROVE  Honest(p)'
<1>1. /\ TypeOK /\ TypeOK' /\ Placed(p) /\ Honest(p)
      /\ UNCHANGED <<clock, pc, req, info, left, told, reply, copy, begun>>
      /\ pc[p] \in {"put", "head", "get", "delete", "rollback", "bulk"}
  BY TakesType DEF HInv, Honest, Takes, local
<1>2. Key(p)' = Key(p) /\ (answer[p] = Unanswered \/ pc[p] = "put")
  BY <1>1, TakesOthers DEF Key
<1>3. \A k \in Keys : seen'[p][k] = seen[p][k] \cup {object'[k]}
  BY <1>1, TakesHistory
<1>4. Placed(p)'
  <2>1. /\ answer'[p] = Refused => pc[p] = "put" \/ Key(p) \in BadKeys
        /\ answer'[p] \notin {Unanswered, Refused} => Key(p) \in Keys
    <3>1. pc[p] = "get" => Key(p) \in Keys
      BY <1>1 DEF Key, Placed
    <3>2. \/ Key(p) \in Keys /\ answer'[p] # Refused
          \/ (Key(p) \in BadKeys \/ pc[p] = "put") /\ answer'[p] = Refused
      <4>1. \/ /\ pc[p] = "get" \/ Key(p) \in Keys
               /\ \E a \in Version \cup Bodies \cup {NoObject, Done} :
                    answer' = [answer EXCEPT ![p] = a]
            \/ /\ Key(p) \in BadKeys \/ pc[p] = "put"
               /\ answer' = [answer EXCEPT ![p] = Refused]
        <5>1. pc[p] = "get" \/ Key(p) \in Keys =>
                /\ Key(p) \in Keys
                /\ object[Key(p)] \in Version \cup {NoObject}
                /\ object[Key(p)] # NoObject => object[Key(p)].body \in Bodies
          BY <1>1, <3>1 DEF TypeOK, Version
        <5>. QED  BY <5>1, TakesKinds DEF Answers
      <4>2. \A a \in Version \cup Bodies \cup {NoObject, Done} : a # Refused
        BY Sentinels
      <4>. QED  BY <1>1, <3>1, <4>1, <4>2 DEF TypeOK
    <3>. QED  BY <3>2
  <2>2. pc'[p] \notin {"idle", "route", "done"}
    BY <1>1
  <2>. QED  BY <1>1, <1>2, <2>1, <2>2 DEF Placed
<1>5. Follows(p)'
  BY <1>1, <1>3 DEF Follows
<1>6. Knows(p)'
  <2>1. CASE pc[p] = "head"
    <3>1. SUFFICES ASSUME answer'[p] \in Version \cup {NoObject}
                   PROVE  answer'[p] \in seen'[p][req[p].key]
      BY <1>1, <2>1 DEF Knows
    <3>2. Key(p) = req[p].key
      BY <2>1 DEF Key
    <3>3. Key(p) \in Keys /\ answer'[p] = object'[Key(p)]
      <4>1. Refused \notin Version \cup {NoObject} /\ p \in DOMAIN answer
        BY <1>1, Sentinels DEF TypeOK
      <4>. QED  BY <2>1, <3>1, <4>1, TakesKinds DEF Answers
    <3>. QED  BY <1>3, <3>2, <3>3
  <2>2. CASE pc[p] = "get"
    <3>1. SUFFICES ASSUME answer'[p] \notin {Unanswered, NoObject}
                   PROVE  \E v \in since'[p] \ {NoObject} : v.body = answer'[p]
      BY <1>1, <2>2 DEF Knows
    <3>2. Key(p) = req[p].key /\ Key(p) \in Keys
      BY <1>1, <2>2 DEF Key, Placed
    <3>3. object' = object /\ object[Key(p)] # NoObject /\ answer'[p] = object[Key(p)].body
      <4>1. Key(p) \notin BadKeys
        BY <3>2, KeysType
      <4>2. /\ object' = object
            /\ answer' = [answer EXCEPT ![p] = IF object[Key(p)] = NoObject THEN NoObject
                                               ELSE object[Key(p)].body]
        BY <2>2, <4>1, TakesKinds DEF Answers
      <4>. QED  BY <1>1, <3>1, <4>2 DEF TypeOK
    <3>4. since'[p] = since[p] \cup {object'[Key(p)]}
      BY <2>2, <3>2, TakesHistory
    <3>. QED  BY <3>3, <3>4
  <2>. QED  BY <1>1, <2>1, <2>2 DEF Knows
<1>7. Wrote(p)'
  <2>1. SUFFICES ASSUME wrote'[p] PROVE Wrote(p)'
    BY DEF Wrote
  <2>2. CASE wrote[p]
    BY <1>1, <1>2, <2>2, Sentinels DEF Honest, Wrote, Replied
  <2>3. CASE ~wrote[p]
    <3>1. object' # object
      BY <1>1, <2>1, <2>3 DEF Takes, TypeOK
    <3>. QED  BY <1>1, <3>1, TakesKinds DEF Answers, TypeOK, Wrote
  <2>. QED  BY <2>2, <2>3
<1>8. Telling(p)'
  <2>1. SUFFICES ASSUME pc[p] = "bulk" PROVE Telling(p)'
    BY <1>1 DEF Telling
  <2>2. Through(p)' = Through(p) /\ Past(p)' = Past(p)
    BY <1>1 DEF Through, Past
  <2>3. Tells(p, Past(p))'
    BY <1>1, <1>3, <2>1, <2>2 DEF Honest, Telling, Tells
  <2>4. answer'[p] = Done => Key(p) \in Keys /\ NoObject \in seen'[p][Key(p)]
    <3>1. SUFFICES ASSUME answer'[p] = Done
                   PROVE  Key(p) \in Keys /\ NoObject \in seen'[p][Key(p)]
      OBVIOUS
    <3>2. Key(p) \in Keys /\ object' = [object EXCEPT ![Key(p)] = NoObject]
      BY <1>1, <2>1, <3>1, TakesKinds, Sentinels DEF Answers, TypeOK
    <3>. QED  BY <1>1, <1>3, <3>2 DEF TypeOK
  <2>. QED  BY <1>1, <1>2, <2>1, <2>2, <2>3, <2>4 DEF Honest, Telling
<1>9. BulkTold(p)' /\ ServedOne(p)' /\ Unmodified(p)'
  BY <1>1 DEF BulkTold, ServedOne, Unmodified, Replied
<1>10. Judged(p)'
  <2>1. SUFFICES ASSUME pc[p] = "get", Owns(p) PROVE Judged(p)'
    BY <1>1 DEF Judged, Owns
  <2>2. req[p].key \in Keys /\ Meanwhile(p) \subseteq Meanwhile(p)'
    BY <1>1, <1>3, <2>1 DEF Owns, Meanwhile
  <2>. QED  BY <1>1, <2>1, <2>2 DEF Honest, Judged, Owns, Replied, Asked4New
<1>11. Effected(p)'
  <2>1. ASSUME pc[p] \in {"put", "delete", "rollback"}, answer'[p] = Done
        PROVE  IF pc[p] = "put" THEN Stored(p)' ELSE Gone(p)'
    <3>1. Key(p) = req[p].key /\ Refused # Done
      BY <2>1, Sentinels DEF Key
    <3>2. /\ Key(p) \in Keys
          /\ object'[Key(p)] = IF pc[p] = "put" THEN [body |-> req[p].body, mtime |-> clock]
                               ELSE NoObject
      <4>1. p \in DOMAIN answer /\ object \in [Keys -> Version \cup {NoObject}]
        BY <1>1 DEF TypeOK
      <4>2. \/ /\ pc[p] \in {"delete", "rollback"} /\ Key(p) \in Keys
               /\ object' = [object EXCEPT ![Key(p)] = NoObject]
            \/ /\ pc[p] = "put" /\ Key(p) \in Keys
               /\ object' = [object EXCEPT ![Key(p)] =
                              [body |-> req[p].body, mtime |-> clock]]
        BY <2>1, <3>1, <4>1, TakesKinds DEF Answers
      <4>. QED  BY <4>1, <4>2
    <3>3. object'[Key(p)] \in Meanwhile(p)' /\ req'[p] = req[p]
      BY <1>1, <1>3, <3>1, <3>2 DEF Meanwhile
    <3>4. CASE pc[p] = "put"
      <4>1. [body |-> req[p].body, mtime |-> clock] \in Version
        BY <1>1, RequestType DEF Version, TypeOK
      <4>2. [body |-> req[p].body, mtime |-> clock] # NoObject
        BY <4>1, Sentinels
      <4>. QED  BY <3>1, <3>2, <3>3, <3>4, <4>2 DEF Stored
    <3>5. CASE pc[p] # "put"
      BY <3>1, <3>2, <3>3, <3>5 DEF Gone
    <3>. QED  BY <3>4, <3>5
  <2>. QED  BY <1>1, <2>1 DEF Effected, Replied
<1>. QED  BY <1>4, <1>5, <1>6, <1>7, <1>8, <1>9, <1>10, <1>11 DEF Honest

-----------------------------------------------------------------------------
(***************************************************************************)
(* Store calls return                                                      *)
(***************************************************************************)

LEMMA ReturnedType ==
  ASSUME HInv, NEW p \in Procs, NEW call, Returned(p, call), UNCHANGED ghost
  PROVE  /\ pc[p] = call /\ answer[p] # Unanswered
         /\ answer' = [answer EXCEPT ![p] = Unanswered] /\ answer'[p] = Unanswered
         /\ object' = object /\ seen' = seen /\ since' = since /\ wrote' = wrote
BY DEF Returned, Store!Return, ghost, HInv, TypeOK

LEMMA PutReturnsKeeps ==
  ASSUME HInv, NEW p \in Procs, PutReturns(p)
  PROVE  TypeOK' /\ Honest(p)'
<1>1. /\ TypeOK /\ Honest(p) /\ Placed(p) /\ Wrote(p)
      /\ Returned(p, "put") /\ UNCHANGED <<clock, req, info, left, told, copy, begun, ghost>>
  BY DEF HInv, Honest, PutReturns
<1>2. /\ pc[p] = "put" /\ answer[p] # Unanswered
      /\ answer' = [answer EXCEPT ![p] = Unanswered] /\ answer'[p] = Unanswered
      /\ object' = object /\ seen' = seen /\ since' = since /\ wrote' = wrote
  BY <1>1, ReturnedType
<1>3. req[p].method = "PUT"
  BY <1>1, <1>2 DEF Placed
<1>4. ASSUME NEW code \in {"error", "OK"}, Answer(p, Plain(code)),
             code = "OK" => answer[p] = Done
      PROVE  TypeOK' /\ Honest(p)'
  <2>1. code \in Codes
    BY DEF Codes
  <2>2. pc'[p] = "done" /\ reply'[p].code = code
    BY <1>1, <1>4, <2>1, PlainType DEF Answer, Goto, TypeOK
  <2>3. Wrote(p)' /\ Unmodified(p)' /\ Judged(p)'
    BY <1>1, <1>2, <1>3, <1>4, <2>2 DEF Wrote, Unmodified, Judged, Replied, Owns
  <2>4. Effected(p)'
    <3>1. code = "OK" => Stored(p)'
      BY <1>1, <1>2, <1>4 DEF Honest, Effected, Stored, Meanwhile
    <3>. QED  BY <1>1, <1>3, <1>4, <2>2, <3>1 DEF Effected, Replied
  <2>. QED  BY <1>1, <1>2, <1>3, <1>4, <2>1, <2>3, <2>4, PlainEnds
<1>5. CASE answer[p] = Refused /\ Answer(p, Plain("error"))
  BY <1>4, <1>5
<1>6. CASE answer[p] = Done /\ Answer(p, Plain("OK"))
  BY <1>4, <1>6
<1>7. CASE answer[p] = Done /\ Goto(p, "rollback") /\ UNCHANGED reply
  <2>1. req[p].key \in Keys
    BY <1>1, <1>2, <1>7, Sentinels DEF Placed, Key
  <2>2. pc' = [pc EXCEPT ![p] = "rollback"] /\ pc'[p] = "rollback"
    BY <1>1, <1>7 DEF Goto, TypeOK
  <2>3. TypeOK'
    BY <1>1, <1>2, <1>7, <2>2 DEF TypeOK
  <2>4. Placed(p)'
    BY <1>1, <1>2, <1>3, <2>1, <2>2, Sentinels DEF Placed
  <2>5. Follows(p)' /\ Knows(p)' /\ Wrote(p)' /\ Telling(p)'
    BY <1>1, <1>2, <2>2 DEF Honest, Follows, Knows, Wrote, Telling
  <2>6. BulkTold(p)' /\ ServedOne(p)' /\ Unmodified(p)' /\ Judged(p)' /\ Effected(p)'
    BY <1>2, <2>2, Sentinels DEF BulkTold, ServedOne, Unmodified, Judged, Effected, Replied
  <2>. QED  BY <2>3, <2>4, <2>5, <2>6 DEF Honest
<1>. QED  BY <1>5, <1>6, <1>7 DEF PutReturns

LEMMA RollbackReturnsKeeps ==
  ASSUME HInv, NEW p \in Procs, RollbackReturns(p)
  PROVE  TypeOK' /\ Honest(p)'
<1>1. /\ TypeOK /\ Placed(p) /\ Effected(p) /\ Answer(p, Plain("BadDigest"))
      /\ Returned(p, "rollback")
      /\ UNCHANGED <<clock, req, info, left, told, copy, begun, ghost>>
  BY DEF HInv, Honest, RollbackReturns
<1>2. /\ pc[p] = "rollback" /\ req[p].method = "PUT" /\ object' = object /\ seen' = seen
      /\ answer' = [answer EXCEPT ![p] = Unanswered] /\ answer[p] # Unanswered
  BY <1>1, ReturnedType DEF Placed
<1>3. "BadDigest" \in Codes
  BY DEF Codes
<1>4. pc'[p] = "done" /\ reply'[p].code = "BadDigest"
  BY <1>1, <1>3, PlainType DEF Answer, Goto, TypeOK
<1>5. Wrote(p)' /\ Unmodified(p)' /\ Judged(p)'
  BY <1>1, <1>2, <1>4 DEF Wrote, Unmodified, Judged, Replied, Owns
<1>6. Effected(p)'
  <2>1. answer[p] = Done
    BY <1>1, <1>2, KeysType DEF Placed, Key, TypeOK
  <2>2. Gone(p)'
    BY <1>1, <1>2, <2>1 DEF Effected, Gone, Meanwhile
  <2>. QED  BY <1>4, <2>2 DEF Effected, Replied
<1>. QED  BY <1>1, <1>2, <1>3, <1>5, <1>6, PlainEnds

LEMMA DeleteReturnsKeeps ==
  ASSUME HInv, NEW p \in Procs, DeleteReturns(p)
  PROVE  TypeOK' /\ Honest(p)'
<1>. DEFINE code == IF answer[p] = Refused THEN "InvalidArgument" ELSE "NoContent"
<1>1. /\ TypeOK /\ Placed(p) /\ Wrote(p) /\ Effected(p) /\ Answer(p, Plain(code))
      /\ Returned(p, "delete")
      /\ UNCHANGED <<clock, req, info, left, told, copy, begun, ghost>>
  BY DEF HInv, Honest, DeleteReturns
<1>2. /\ pc[p] = "delete" /\ req[p].method = "DELETE" /\ object' = object /\ wrote' = wrote
      /\ answer' = [answer EXCEPT ![p] = Unanswered] /\ answer[p] # Unanswered
      /\ seen' = seen
  BY <1>1, ReturnedType DEF Placed
<1>3. code \in Codes /\ code \in {"InvalidArgument", "NoContent"}
  BY DEF Codes
<1>4. wrote[p] => code = "NoContent"
  BY <1>1, <1>2, Sentinels DEF Wrote, Replied
<1>7. code = "NoContent" => Gone(p)'
  <2>1. code = "NoContent" => answer[p] = Done
    BY <1>1, <1>2 DEF TypeOK
  <2>. QED  BY <1>1, <1>2, <2>1 DEF Effected, Gone, Meanwhile
<1>. HIDE DEF code
<1>5. pc'[p] = "done" /\ reply'[p].code = code
  BY <1>1, <1>3, PlainType DEF Answer, Goto, TypeOK
<1>6. Wrote(p)' /\ Unmodified(p)' /\ Judged(p)'
  BY <1>1, <1>2, <1>3, <1>4, <1>5 DEF Wrote, Unmodified, Judged, Replied, Owns
<1>8. Effected(p)'
  BY <1>3, <1>5, <1>7 DEF Effected, Replied
<1>. QED  BY <1>1, <1>2, <1>3, <1>6, <1>8, PlainEnds

LEMMA SecondType == ASSUME NEW v \in Version PROVE Second(v) \in Nat
<1>1. v.mtime \in Nat
  BY DEF Version
<1>. QED  BY <1>1, ClockType DEF Second

\* What checkPreconditions makes of the validators of the client's copy.
LEMMA Conditional ==
  ASSUME TypeOK, NEW p \in Procs, NEW v \in Version, NEW c,
         c = CheckPreconditions(Conditions(p), v)
  PROVE  /\ c \in {"Pass", "NotModified", "PreconditionFailed"}
         /\ c = "NotModified" => IF "If-None-Match" \in req[p].sends
                                   THEN v.body = copy[p].version.body
                                   ELSE Second(v) <= Second(copy[p].version)
         /\ Owns(p) /\ v = copy[p].version => /\ c # "PreconditionFailed"
                                              /\ Asked4New(p) => c = "NotModified"
<1>. DEFINE d == Conditions(p)
            sends == req[p].sends
            mine == copy[p] # Nothing /\ copy[p].key = req[p].key
            w == copy[p].version
<1>1. mine => w \in Version
  BY DEF TypeOK
<1>2. /\ d.match = (IF "If-Match" \in sends /\ mine THEN {w.body} ELSE {})
                     \cup (IF "If-Match *" \in sends THEN {"*"} ELSE {})
      /\ d.unmodified = IF "If-Unmodified-Since" \in sends /\ mine THEN Second(w) ELSE Nothing
      /\ d.noneMatch = IF "If-None-Match" \in sends /\ mine THEN {w.body} ELSE {}
      /\ d.modified = IF "If-Modified-Since" \in sends /\ mine THEN Second(w) ELSE Nothing
  BY DEF Conditions
<1>3. /\ v.body \in Bodies /\ v.body # "*" /\ Second(v) \in Nat
      /\ mine => w.body \in Bodies /\ w.body # "*" /\ Second(w) \in Nat /\ Second(w) # Nothing
  BY <1>1, SecondType, RequestsType, Sentinels DEF Version
<1>. HIDE DEF d, sends, mine, w
<1>4. c = IF \/ d.match # {} /\ ~EtagMatches(d.match, v.body)
             \/ d.match = {} /\ d.unmodified # Nothing /\ Second(v) > d.unmodified
            THEN "PreconditionFailed"
          ELSE IF \/ d.noneMatch # {} /\ EtagMatches(d.noneMatch, v.body)
                  \/ d.noneMatch = {} /\ d.modified # Nothing /\ ~(Second(v) > d.modified)
            THEN "NotModified"
          ELSE "Pass"
  BY DEF CheckPreconditions, d
<1>5. c \in {"Pass", "NotModified", "PreconditionFailed"}
  BY <1>4
<1>6. ASSUME c = "NotModified"
      PROVE  IF "If-None-Match" \in sends THEN v.body = w.body ELSE Second(v) <= Second(w)
  <2>1. \/ d.noneMatch # {} /\ EtagMatches(d.noneMatch, v.body)
        \/ d.noneMatch = {} /\ d.modified # Nothing /\ ~(Second(v) > d.modified)
    BY <1>4, <1>6
  <2>2. CASE d.noneMatch # {} /\ EtagMatches(d.noneMatch, v.body)
    BY <1>2, <1>3, <2>2 DEF EtagMatches
  <2>3. CASE d.noneMatch = {} /\ d.modified # Nothing /\ ~(Second(v) > d.modified)
    <3>1. mine /\ "If-None-Match" \notin sends /\ d.modified = Second(w)
      BY <1>2, <2>3
    <3>. QED  BY <1>3, <2>3, <3>1
  <2>. QED  BY <2>1, <2>2, <2>3
<1>7. ASSUME mine, v = w
      PROVE  /\ c # "PreconditionFailed"
             /\ {"If-None-Match", "If-Modified-Since"} \cap sends # {} => c = "NotModified"
  <2>1. d.match # {} => EtagMatches(d.match, v.body)
    BY <1>2, <1>7 DEF EtagMatches
  <2>2. d.unmodified \in {Nothing, Second(v)} /\ d.modified \in {Nothing, Second(v)}
    BY <1>2, <1>7
  <2>3. ~(Second(v) > Second(v))
    BY <1>3
  <2>4. d.noneMatch # {} => EtagMatches(d.noneMatch, v.body)
    BY <1>2, <1>7 DEF EtagMatches
  <2>5. {"If-None-Match", "If-Modified-Since"} \cap sends # {} =>
          d.noneMatch # {} \/ d.modified # Nothing
    BY <1>2, <1>3, <1>7
  <2>. QED  BY <1>4, <2>1, <2>2, <2>3, <2>4, <2>5
<1>. QED  BY <1>5, <1>6, <1>7 DEF Owns, Asked4New, mine, w, sends

LEMMA SentType ==
  ASSUME NEW r, r.length \in Nat, NEW v \in Version, NEW bytes \in Seq(Bytes)
  PROVE  /\ Sent(r, v, bytes) \in Replies /\ Sent(r, v, bytes) # Nothing
         /\ Sent(r, v, bytes).code \in {"OK", "PartialContent"}
         /\ Sent(r, v, bytes).bytes = bytes /\ Sent(r, v, bytes).length = r.length
         /\ Sent(r, v, bytes).etag = v.body
<1>1. v.body \in Bodies
  BY DEF Version
<1>2. Sent(r, v, bytes) \in Replies
  BY <1>1 DEF Sent, Replies, Codes
<1>. QED  BY <1>2, Sentinels DEF Sent

LEMMA HeadReturnsKeeps ==
  ASSUME HInv, NEW p \in Procs, HeadReturns(p)
  PROVE  TypeOK' /\ Honest(p)'
<1>1. /\ TypeOK /\ Honest(p) /\ Placed(p) /\ Wrote(p) /\ Knows(p)
      /\ Returned(p, "head") /\ UNCHANGED <<clock, req, left, told, copy, begun, ghost>>
  BY DEF HInv, Honest, HeadReturns
<1>2. /\ pc[p] = "head" /\ answer[p] # Unanswered
      /\ answer' = [answer EXCEPT ![p] = Unanswered] /\ answer'[p] = Unanswered
      /\ object' = object /\ seen' = seen /\ since' = since /\ wrote' = wrote
  BY <1>1, ReturnedType
<1>3. /\ req[p].method \in {"GET", "HEAD"} /\ ~wrote[p] /\ info[p] = Nothing
      /\ req[p] \in Requests /\ Key(p) = req[p].key
  BY <1>1, <1>2 DEF Placed, Wrote, Replied, Key, TypeOK
<1>4. ASSUME answer[p] \in Version \cup {NoObject}
      PROVE  req[p].key \in Keys /\ answer[p] \in Meanwhile(p) /\ Meanwhile(p)' = Meanwhile(p)
  BY <1>1, <1>2, <1>3, <1>4, Sentinels DEF Placed, Knows, Meanwhile
<1>5. ASSUME NEW a \in Replies, Answer(p, a), UNCHANGED info,
             a.code \notin {"OK", "PartialContent", "NoContent", "BadDigest", "error"},
             a.code = "NotModified" => Unmodified(p)',
             Owns(p) => Judged(p)'
      PROVE  TypeOK' /\ Honest(p)'
  <2>1. pc'[p] = "done" /\ reply'[p].code = a.code
    BY <1>1, <1>5 DEF Answer, Goto, TypeOK
  <2>2. Wrote(p)' /\ Unmodified(p)' /\ Judged(p)' /\ Effected(p)'
    BY <1>1, <1>2, <1>3, <1>5, <2>1 DEF Wrote, Unmodified, Judged, Effected, Replied, Owns
  <2>. QED  BY <1>1, <1>2, <1>5, <2>2, Ends
<1>6. CASE answer[p] \notin Version
  <2>. DEFINE code == IF answer[p] = NoObject THEN "NoSuchKey" ELSE "InvalidArgument"
  <2>1. /\ code \in Codes \ {"OK", "PartialContent", "NotModified", "PreconditionFailed",
                             "NoContent", "BadDigest", "error"}
        /\ Plain(code) \in Replies /\ Plain(code).code = code
    BY PlainType DEF Codes
  <2>2. Answer(p, Plain(code)) /\ UNCHANGED info
    BY <1>6 DEF HeadReturns
  <2>3. ASSUME Owns(p) PROVE Judged(p)'
    <3>1. Key(p) \in Keys \ BadKeys
      BY <1>3, <2>3, KeysType DEF Owns
    <3>2. answer[p] = NoObject
      BY <1>1, <1>2, <1>6, <3>1, Sentinels DEF Placed, TypeOK
    <3>3. NoObject \in Meanwhile(p)' /\ copy'[p].version # NoObject
      BY <1>1, <1>4, <2>3, <3>2, Sentinels DEF Owns, TypeOK
    <3>. QED  BY <3>3 DEF Judged
  <2>. HIDE DEF code
  <2>. QED  BY <1>5, <2>1, <2>2, <2>3
<1>7. CASE answer[p] \in Version
  <2>. DEFINE v == answer[p]
              r == ParseRange(req[p].range, Len(Content[v.body]))
              c == CheckPreconditions(Conditions(p), v)
  <2>1. v \in Version /\ v # NoObject /\ v # Nothing
    BY <1>7, Sentinels
  <2>2. v.body \in Bodies /\ Len(Content[v.body]) \in Nat /\ req[p].range \in Headers
    BY <1>3, <2>1, ContentType, RequestType DEF Version
  <2>3. r.length \in Nat /\ r.status \in {200, 206, 416}
    BY <2>2, ParseRangeType
  <2>4. /\ c \in {"Pass", "NotModified", "PreconditionFailed"}
        /\ c = "NotModified" => IF "If-None-Match" \in req[p].sends
                                  THEN v.body = copy[p].version.body
                                  ELSE Second(v) <= Second(copy[p].version)
        /\ Owns(p) /\ v = copy[p].version => /\ c # "PreconditionFailed"
                                             /\ Asked4New(p) => c = "NotModified"
    BY <1>1, <2>1, Conditional
  <2>5. req[p].key \in Keys /\ v \in Meanwhile(p)'
    BY <1>4, <2>1
  <2>6. \/ c = "PreconditionFailed" /\ Answer(p, Plain(c)) /\ UNCHANGED info
        \/ /\ c = "NotModified"
           /\ Answer(p, [Plain(c) EXCEPT !.etag = v.body]) /\ UNCHANGED info
        \/ c = "Pass" /\ Answer(p, Plain("InvalidRange")) /\ UNCHANGED info
        \/ /\ c = "Pass" /\ r.status # 416
           /\ info' = [info EXCEPT ![p] = v]
           /\ \/ req[p].method = "HEAD" /\ Answer(p, Sent(r, v, <<>>))
              \/ req[p].method = "GET" /\ Goto(p, "get") /\ UNCHANGED reply
    BY <1>7 DEF HeadReturns
  <2>. HIDE DEF v, r, c
  <2>7. ASSUME NEW a \in Replies, Answer(p, a), UNCHANGED info,
               a.code \in {"PreconditionFailed", "NotModified", "InvalidRange"},
               \/ c = "Pass" /\ a.code = "InvalidRange"
               \/ c = a.code
        PROVE  TypeOK' /\ Honest(p)'
    <3>1. pc'[p] = "done" /\ reply'[p].code = a.code
      BY <1>1, <2>7 DEF Answer, Goto, TypeOK
    <3>2. a.code = "NotModified" => Unmodified(p)'
      BY <1>1, <2>1, <2>4, <2>5, <2>7 DEF Unmodified, Second
    <3>3. Owns(p) => Judged(p)'
      BY <1>1, <2>4, <2>5, <2>7, <3>1 DEF Judged, Replied, Asked4New
    <3>. QED  BY <1>5, <2>7, <3>2, <3>3
  <2>8. CASE c = "PreconditionFailed" /\ Answer(p, Plain(c)) /\ UNCHANGED info
    <3>1. Plain(c) \in Replies /\ Plain(c).code = c
      BY <2>8, PlainType DEF Codes
    <3>. QED  BY <2>7, <2>8, <3>1
  <2>9. CASE c = "Pass" /\ Answer(p, Plain("InvalidRange")) /\ UNCHANGED info
    <3>1. Plain("InvalidRange") \in Replies /\ Plain("InvalidRange").code = "InvalidRange"
      BY PlainType DEF Codes
    <3>. QED  BY <2>7, <2>9, <3>1
  <2>11. CASE /\ c = "NotModified"
              /\ Answer(p, [Plain(c) EXCEPT !.etag = v.body]) /\ UNCHANGED info
    <3>. DEFINE a == [Plain(c) EXCEPT !.etag = v.body]
    <3>1. a = [code |-> c, etag |-> v.body, length |-> 0, bytes |-> <<>>]
      BY DEF Plain
    <3>2. <<>> \in Seq(Bytes) /\ c \in Codes /\ v.body \in Bodies
      BY <2>1, <2>11 DEF Codes, Version
    <3>. HIDE DEF a
    <3>3. a \in Replies /\ a.code = c
      BY <3>1, <3>2 DEF Replies
    <3>. QED  BY <2>7, <2>11, <3>3 DEF a
  <2>10. ASSUME c = "Pass", r.status # 416, info' = [info EXCEPT ![p] = v],
                \/ /\ req[p].method = "HEAD"
                   /\ pc' = [pc EXCEPT ![p] = "done"]
                   /\ reply' = [reply EXCEPT ![p] = Sent(r, v, <<>>)]
                \/ /\ req[p].method = "GET"
                   /\ pc' = [pc EXCEPT ![p] = "get"] /\ UNCHANGED reply
         PROVE  TypeOK' /\ Honest(p)'
    <3>1. <<>> \in Seq(Bytes)
      OBVIOUS
    <3>2. /\ Sent(r, v, <<>>) \in Replies /\ Sent(r, v, <<>>) # Nothing
          /\ Sent(r, v, <<>>).code \in {"OK", "PartialContent"}
      <4>1. v \in Version /\ r.length \in Nat
        BY <2>1, <2>3
      <4>. QED  BY <3>1, <4>1, SentType
    <3>3. TypeOK'
      <4>1. info' \in [Procs -> Version \cup {Nothing}]
        BY <1>1, <2>1, <2>10 DEF TypeOK
      <4>2. CASE pc' = [pc EXCEPT ![p] = "get"] /\ UNCHANGED reply
        BY <1>1, <1>2, <4>1, <4>2 DEF TypeOK
      <4>3. CASE /\ pc' = [pc EXCEPT ![p] = "done"]
                 /\ reply' = [reply EXCEPT ![p] = Sent(r, v, <<>>)]
        BY <1>1, <1>2, <3>2, <4>1, <4>3 DEF TypeOK
      <4>. QED  BY <2>10, <4>2, <4>3
    <3>4. /\ info'[p] = v
          /\ \/ req[p].method = "HEAD" /\ pc'[p] = "done"
                /\ reply'[p].code \in {"OK", "PartialContent"}
             \/ req[p].method = "GET" /\ pc'[p] = "get"
      BY <1>1, <2>10, <3>2 DEF TypeOK
    <3>5. Placed(p)'
      BY <1>1, <1>2, <2>1, <2>5, <2>10, <3>4, Sentinels DEF Placed, r
    <3>6. Follows(p)' /\ Knows(p)' /\ Wrote(p)' /\ Telling(p)'
      BY <1>1, <1>2, <1>3, <3>4 DEF Honest, Follows, Knows, Wrote, Telling
    <3>7. BulkTold(p)' /\ ServedOne(p)' /\ Unmodified(p)'
      BY <1>1, <3>4 DEF BulkTold, ServedOne, Unmodified, Replied
    <3>8. Judged(p)'
      BY <1>1, <2>4, <2>5, <2>10, <3>4 DEF Judged, Replied, Owns, Asked4New
    <3>9. Effected(p)'
      BY <1>1, <1>3, <3>4 DEF Effected, Replied
    <3>. QED  BY <3>3, <3>5, <3>6, <3>7, <3>8, <3>9 DEF Honest
  <2>. QED  BY <2>6, <2>8, <2>9, <2>10, <2>11 DEF Answer, Goto
<1>. QED  BY <1>6, <1>7

LEMMA Beginnings ==
  ASSUME NEW S, NEW s \in Seq(S), NEW m \in Nat, NEW n \in Nat, n <= m, m <= Len(s)
  PROVE  SubSeq(SubSeq(s, 1, m), 1, n) = SubSeq(s, 1, n)
<1>1. CASE n = 0
  BY <1>1, SubSeqEmpty
<1>2. CASE n # 0
  <2>1. 1 \in 1 .. Len(s) /\ m \in 1 .. Len(s) /\ 1 \in 1 .. m - 1 + 1 /\ n \in 1 .. m - 1 + 1
    BY <1>2
  <2>2. SubSeq(SubSeq(s, 1, m), 1, n) = SubSeq(s, 1 + 1 - 1, 1 + n - 1)
    BY <2>1, SubSeqOfSubSeq
  <2>3. 1 + 1 - 1 = 1 /\ 1 + n - 1 = n
    OBVIOUS
  <2>. QED  BY <2>2, <2>3
<1>. QED  BY <1>1, <1>2

\* What arrives of one object when the part of another is announced.
LEMMA Arrives ==
  ASSUME NEW h \in Headers, NEW size \in Nat, NEW r, r = ParseRange(h, size),
         r.status # 416, NEW s \in Seq(Bytes),
         NEW t, t = IF r.status = 206 THEN Served(r, s) ELSE s, NEW bytes \in Received(r, t)
  PROVE  /\ bytes \in Seq(Bytes)
         /\ bytes = SubSeq(Served(r, s), 1, Len(bytes))
         /\ Len(s) = size => Len(bytes) = r.length
<1>1. /\ r.offset \in Nat /\ r.length \in Nat
      /\ r.status = 200 \/ r.status = 206
      /\ r.status = 200 => r.offset = 0 /\ r.length = size
      /\ r.status = 206 => r.offset + r.length <= size
  BY ParseRangeType
<1>2. /\ Served(r, s) \in Seq(Bytes)
      /\ r.offset + r.length <= Len(s) => Len(Served(r, s)) = r.length
  BY <1>1, ServedType
<1>3. CASE r.status = 206
  <2>1. bytes \in Received(r, Served(r, s))
    BY <1>3
  <2>2. /\ bytes \in Seq(Bytes) /\ bytes = SubSeq(Served(r, s), 1, Len(bytes))
        /\ Len(Served(r, s)) <= r.length => bytes = Served(r, s)
    BY <1>1, <1>2, <2>1, ReceivedType
  <2>. QED  BY <1>1, <1>2, <1>3, <2>2
<1>4. CASE r.status = 200
  <2>1. bytes \in Received(r, s)
    BY <1>4
  <2>2. /\ bytes \in Seq(Bytes) /\ bytes = SubSeq(s, 1, Len(bytes))
        /\ Len(bytes) \in Nat /\ Len(bytes) <= Len(s) /\ Len(bytes) <= r.length
        /\ Len(s) <= r.length => bytes = s
    BY <1>1, <2>1, ReceivedType
  <2>. DEFINE m == Smaller(r.length, Len(s))
  <2>3. m \in Nat /\ m <= Len(s) /\ Len(bytes) <= m
    BY <1>1, <2>2 DEF Smaller
  <2>4. Served(r, s) = SubSeq(s, 1, m)
    <3>1. r.offset + 1 = 1 /\ r.offset + r.length = r.length
      BY <1>1, <1>4
    <3>. QED  BY <3>1 DEF Served
  <2>. HIDE DEF m
  <2>5. SubSeq(SubSeq(s, 1, m), 1, Len(bytes)) = SubSeq(s, 1, Len(bytes))
    BY <2>2, <2>3, Beginnings
  <2>6. Len(s) = size => Len(bytes) = r.length
    BY <1>1, <1>4, <2>2
  <2>. QED  BY <2>2, <2>4, <2>5, <2>6
<1>. QED  BY <1>1, <1>3, <1>4

LEMMA GetReturnsKeeps ==
  ASSUME HInv, NEW p \in Procs, GetReturns(p)
  PROVE  TypeOK' /\ Honest(p)'
<1>1. /\ TypeOK /\ Honest(p) /\ Placed(p) /\ Wrote(p) /\ Knows(p) /\ Judged(p)
      /\ Returned(p, "get")
      /\ UNCHANGED <<clock, req, info, left, told, copy, begun, ghost>>
  BY DEF HInv, Honest, GetReturns
<1>2. /\ pc[p] = "get" /\ answer[p] # Unanswered
      /\ answer' = [answer EXCEPT ![p] = Unanswered] /\ answer'[p] = Unanswered
      /\ object' = object /\ seen' = seen /\ since' = since /\ wrote' = wrote
  BY <1>1, ReturnedType
<1>. DEFINE v == info[p]
            r == ParseRange(req[p].range, Len(Content[v.body]))
            opened == Content[answer[p]]
<1>3. /\ req[p].method = "GET" /\ req[p].key \in Keys /\ ~wrote[p] /\ v \in Version
      /\ req[p] \in Requests /\ r.status # 416 /\ answer[p] # Refused
  BY <1>1, <1>2, KeysType DEF Placed, Wrote, Replied, Key, TypeOK
<1>4. ASSUME Owns(p) PROVE \E u \in Meanwhile(p) : u = copy[p].version => ~Asked4New(p)
  BY <1>1, <1>2, <1>4 DEF Judged, Replied
<1>5. CASE answer[p] = NoObject
  <2>. DEFINE a == [Sent(r, v, <<>>) EXCEPT !.code = "NoSuchKey"]
  <2>1. Answer(p, a)
    BY <1>5 DEF GetReturns
  <2>5. a \in Replies /\ a.code = "NoSuchKey"
    <3>1. v.body \in Bodies /\ Len(Content[v.body]) \in Nat /\ req[p].range \in Headers
      BY <1>3, ContentType, RequestType DEF Version
    <3>2. r.length \in Nat /\ <<>> \in Seq(Bytes)
      BY <3>1, ParseRangeType
    <3>. HIDE DEF v, r
    <3>3. a = [code |-> "NoSuchKey", etag |-> v.body, length |-> r.length, bytes |-> <<>>]
      BY DEF Sent
    <3>. HIDE DEF a
    <3>. QED  BY <3>1, <3>2, <3>3 DEF Replies, Codes
  <2>. HIDE DEF a
  <2>2. pc'[p] = "done" /\ reply'[p].code = "NoSuchKey"
    BY <1>1, <2>1, <2>5 DEF Answer, Goto, TypeOK
  <2>3. Wrote(p)' /\ Unmodified(p)' /\ Effected(p)'
    BY <1>1, <1>2, <1>3, <2>2 DEF Wrote, Unmodified, Effected, Replied
  <2>4. Judged(p)'
    BY <1>1, <1>2, <1>4, <2>2 DEF Judged, Replied, Owns, Asked4New, Meanwhile
  <2>. QED  BY <1>1, <1>2, <2>1, <2>3, <2>4, <2>5, Ends
<1>6. CASE answer[p] # NoObject
  <2>2. answer[p] \in Bodies /\ opened \in Seq(Bytes)
    BY <1>1, <1>2, <1>3, <1>6, ContentType DEF TypeOK
  <2>3. v.body \in Bodies /\ Len(Content[v.body]) \in Nat /\ req[p].range \in Headers
    BY <1>3, ContentType, RequestType DEF Version
  <2>4. PICK u \in since[p] \ {NoObject} : u.body = answer[p]
    BY <1>1, <1>2, <1>6 DEF Knows
  <2>5. r.length \in Nat
    BY <2>3, ParseRangeType
  <2>. DEFINE read == IF r.status = 206 THEN Served(r, opened) ELSE opened
  <2>1. \E bytes \in Received(r, read) : Answer(p, Sent(r, v, bytes))
    BY <1>6 DEF GetReturns
  <2>. HIDE DEF v, r, opened, read
  <2>16. PICK bytes \in Received(r, read) : Answer(p, Sent(r, v, bytes))
    BY <2>1
  <2>6. /\ bytes \in Seq(Bytes)
        /\ bytes = SubSeq(Served(r, opened), 1, Len(bytes))
        /\ Len(opened) = Len(Content[v.body]) => Len(bytes) = r.length
    <3>. DEFINE h == req[p].range
                size == Len(Content[v.body])
    <3>1. /\ h \in Headers /\ size \in Nat /\ r = ParseRange(h, size) /\ r.status # 416
          /\ read = IF r.status = 206 THEN Served(r, opened) ELSE opened
      BY <1>3, <2>3 DEF r, read
    <3>. HIDE DEF h, size
    <3>2. /\ bytes \in Seq(Bytes)
          /\ bytes = SubSeq(Served(r, opened), 1, Len(bytes))
          /\ Len(opened) = size => Len(bytes) = r.length
      BY <2>2, <3>1, Arrives
    <3>. QED  BY <3>2 DEF size
  <2>7. /\ Sent(r, v, bytes) \in Replies /\ Sent(r, v, bytes) # Nothing
        /\ Sent(r, v, bytes).code \in {"OK", "PartialContent"}
        /\ Sent(r, v, bytes).bytes = bytes /\ Sent(r, v, bytes).length = r.length
        /\ Sent(r, v, bytes).etag = v.body
    BY <1>3, <2>5, <2>6, SentType
  <2>8. /\ pc' = [pc EXCEPT ![p] = "done"]
        /\ reply' = [reply EXCEPT ![p] = Sent(r, v, bytes)]
    BY <2>16 DEF Answer, Goto
  <2>9. TypeOK'
    BY <1>1, <1>2, <2>7, <2>8 DEF TypeOK
  <2>10. pc'[p] = "done" /\ reply'[p] = Sent(r, v, bytes)
    BY <1>1, <2>8 DEF TypeOK
  <2>11. Placed(p)'
    BY <1>1, <1>2, <2>10, Sentinels DEF Placed
  <2>12. Follows(p)' /\ Knows(p)' /\ Wrote(p)' /\ Telling(p)'
    BY <1>1, <1>2, <1>3, <2>10 DEF Honest, Follows, Knows, Wrote, Telling
  <2>13. BulkTold(p)' /\ Unmodified(p)'
    BY <1>1, <1>3, <2>7, <2>10 DEF BulkTold, Unmodified, Replied
  <2>14. ServedOne(p)'
    <3>1. /\ u \in since'[p] \ {NoObject}
          /\ reply'[p].bytes = SubSeq(Served(r, Content[u.body]), 1, Len(reply'[p].bytes))
      BY <1>2, <2>4, <2>6, <2>7, <2>10 DEF opened
    <3>2. ASSUME since'[p] = {v}
          PROVE  Len(reply'[p].bytes) = reply'[p].length /\ reply'[p].etag = v.body
      <4>1. opened = Content[v.body]
        BY <1>2, <2>4, <3>2 DEF opened
      <4>. QED  BY <2>6, <2>7, <2>10, <4>1
    <3>3. info'[p] = v /\ r = ParseRange(req'[p].range, Len(Content[info'[p].body]))
      BY <1>1 DEF v, r
    <3>. QED  BY <3>1, <3>2, <3>3 DEF ServedOne
  <2>15. Judged(p)'
    BY <1>1, <1>2, <1>4, <2>7, <2>10 DEF Judged, Replied, Owns, Asked4New, Meanwhile
  <2>17. Effected(p)'
    BY <1>1, <1>3, <2>7, <2>10 DEF Effected, Replied
  <2>. QED  BY <2>9, <2>11, <2>12, <2>13, <2>14, <2>15, <2>17 DEF Honest
<1>. QED  BY <1>5, <1>6

LEMMA BulkReturnsKeeps ==
  ASSUME HInv, NEW p \in Procs, BulkReturns(p)
  PROVE  TypeOK' /\ Honest(p)'
<1>. DEFINE names == req[p].names
            name == Head(left[p])
            rest == Tail(left[p])
            n == Through(p)
<1>1. /\ TypeOK /\ Honest(p) /\ Placed(p) /\ Telling(p)
      /\ Returned(p, "bulk") /\ UNCHANGED <<clock, req, info, copy, begun, ghost>>
      /\ left' = [left EXCEPT ![p] = rest]
      /\ IF rest = <<>> THEN Answer(p, Plain("OK")) ELSE UNCHANGED <<pc, reply>>
  BY DEF HInv, Honest, BulkReturns
<1>2. /\ pc[p] = "bulk" /\ answer[p] # Unanswered
      /\ answer' = [answer EXCEPT ![p] = Unanswered] /\ answer'[p] = Unanswered
      /\ object' = object /\ seen' = seen /\ since' = since /\ wrote' = wrote
  BY <1>1, ReturnedType
<1>3. /\ req[p].method = "POST" /\ req[p] \in Requests /\ info[p] = Nothing
      /\ names \in Seq(Keys \cup BadKeys)
  BY <1>1, <1>2, RequestType DEF Placed, TypeOK
<1>4. left[p] \in Seq(Keys \cup BadKeys) /\ left[p] # <<>>
  BY <1>1, <1>2 DEF TypeOK
<1>5. /\ name \in Keys \cup BadKeys /\ name = left[p][1]
      /\ rest \in Seq(Keys \cup BadKeys) /\ Len(left[p]) \in Nat \ {0}
      /\ Len(rest) = Len(left[p]) - 1
      /\ \A i \in 1 .. Len(rest) : rest[i] = left[p][i + 1]
  BY <1>4, HeadTailProperties
<1>6. /\ n \in Nat /\ n = Len(names) - Len(left[p]) /\ Len(names) \in Nat
      /\ \A i \in 1 .. Len(left[p]) : left[p][i] = names[n + i]
      /\ Tells(p, Past(p)) /\ Past(p) = {names[i] : i \in 1 .. n}
  <2>1. n = Len(names) - Len(left[p]) /\ Past(p) = {names[i] : i \in 1 .. n}
    BY DEF Through, Past
  <2>2. /\ n \in Nat /\ Tells(p, Past(p))
        /\ \A i \in 1 .. Len(left[p]) : left[p][i] = names[n + i]
    BY <1>1, <1>2 DEF Telling
  <2>3. Len(names) \in Nat
    <3>1. names \in Seq(Keys \cup BadKeys)
      BY <1>3
    <3>. HIDE DEF names
    <3>. QED  BY <3>1
  <2>. HIDE DEF names, n
  <2>. QED  BY <2>1, <2>2, <2>3
<1>7. /\ left'[p] = rest /\ Through(p)' = n + 1 /\ name = names[n + 1]
      /\ \A i \in 1 .. Len(rest) : rest[i] = names[n + 1 + i]
  <2>1. left'[p] = rest /\ req'[p] = req[p]
    BY <1>1 DEF TypeOK
  <2>2. Through(p)' = Len(names) - Len(rest)
    BY <2>1 DEF Through
  <2>. HIDE DEF names, name, rest, n
  <2>3. Through(p)' = n + 1
    BY <1>5, <1>6, <2>2
  <2>4. name = names[n + 1]
    <3>1. 1 \in 1 .. Len(left[p])
      BY <1>5
    <3>. QED  BY <1>5, <1>6, <3>1
  <2>5. ASSUME NEW i \in 1 .. Len(rest) PROVE rest[i] = names[n + 1 + i]
    <3>1. i + 1 \in 1 .. Len(left[p]) /\ n + (i + 1) = n + 1 + i
      BY <1>5, <1>6
    <3>. QED  BY <1>5, <1>6, <3>1
  <2>. QED  BY <2>1, <2>3, <2>4, <2>5
<1>8. Past(p)' = Past(p) \cup {name}
  <2>1. req'[p] = req[p]
    BY <1>1
  <2>2. Past(p)' = {names[i] : i \in 1 .. n + 1}
    BY <1>7, <2>1 DEF Past
  <2>. HIDE DEF names, name, rest, n
  <2>3. \A i : i \in 1 .. n + 1 <=> i \in 1 .. n \/ i = n + 1
    <3>1. n \in Nat
      BY <1>6
    <3>. QED  BY <3>1
  <2>4. {names[i] : i \in 1 .. n + 1} = {names[i] : i \in 1 .. n} \cup {names[n + 1]}
    BY <2>3
  <2>. QED  BY <1>6, <1>7, <2>2, <2>4
<1>9. \/ answer[p] = Refused /\ name \in BadKeys \ Keys
      \/ answer[p] = Done /\ answer[p] # Refused /\ name \in Keys \ BadKeys
         /\ NoObject \in seen[p][name]
  BY <1>1, <1>2, KeysType, Sentinels DEF Placed, Telling, Key, TypeOK
<1>10. /\ told' \in [Procs -> [deleted : SUBSET (Keys \cup BadKeys),
                              errors : SUBSET (Keys \cup BadKeys)]]
       /\ told'[p].errors = told[p].errors \cup (IF answer[p] = Refused THEN {name} ELSE {})
       /\ told'[p].deleted =
            told[p].deleted \cup
              (IF answer[p] = Refused \/ req[p].quiet THEN {} ELSE {name})
  <2>1. /\ told[p] \in [deleted : SUBSET (Keys \cup BadKeys),
                         errors : SUBSET (Keys \cup BadKeys)]
        /\ IF answer[p] = Refused THEN Tell(p, {}, {name})
           ELSE Tell(p, IF req[p].quiet THEN {} ELSE {name}, {})
    BY <1>1 DEF BulkReturns, TypeOK
  <2>. DEFINE D == IF answer[p] = Refused \/ req[p].quiet THEN {} ELSE {name}
              E == IF answer[p] = Refused THEN {name} ELSE {}
  <2>2. Tell(p, D, E)
    BY <2>1
  <2>3. D \subseteq Keys \cup BadKeys /\ E \subseteq Keys \cup BadKeys
    BY <1>5
  <2>. HIDE DEF names, name, rest, n, D, E
  <2>4. told' = [told EXCEPT ![p] = [deleted |-> told[p].deleted \cup D,
                                     errors |-> told[p].errors \cup E]]
    BY <2>2 DEF Tell
  <2>5. [deleted |-> told[p].deleted \cup D, errors |-> told[p].errors \cup E]
          \in [deleted : SUBSET (Keys \cup BadKeys), errors : SUBSET (Keys \cup BadKeys)]
    BY <2>1, <2>3
  <2>6. told \in [Procs -> [deleted : SUBSET (Keys \cup BadKeys),
                           errors : SUBSET (Keys \cup BadKeys)]]
    BY <1>1 DEF TypeOK
  <2>. QED  BY <2>4, <2>5, <2>6 DEF D, E
<1>. HIDE DEF names, name, rest, n
<1>11. ASSUME NEW N, N = Past(p) \cup {name} PROVE Tells(p, N)'
  <2>1. req'[p] = req[p] /\ seen'[p] = seen[p]
    BY <1>1, <1>2
  <2>2. CASE answer[p] = Refused
    <3>1. /\ name \in BadKeys \ Keys
          /\ told'[p].errors = told[p].errors \cup {name}
          /\ told'[p].deleted = told[p].deleted
      BY <1>9, <1>10, <2>2
    <3>. QED  BY <1>6, <1>11, <2>1, <3>1 DEF Tells
  <2>3. CASE answer[p] # Refused
    <3>1. /\ name \in Keys \ BadKeys /\ NoObject \in seen[p][name]
          /\ told'[p].errors = told[p].errors
          /\ told'[p].deleted = told[p].deleted \cup (IF req[p].quiet THEN {} ELSE {name})
      BY <1>9, <1>10, <2>3
    <3>. QED  BY <1>6, <1>11, <2>1, <3>1 DEF Tells
  <2>. QED  BY <2>2, <2>3
<1>12. CASE rest = <<>>
  <2>1. /\ pc' = [pc EXCEPT ![p] = "done"] /\ reply' = [reply EXCEPT ![p] = Plain("OK")]
        /\ "OK" \in Codes
    BY <1>1, <1>12 DEF Answer, Goto, Codes
  <2>2. Plain("OK") \in Replies /\ Plain("OK").code = "OK" /\ Plain("OK") # Nothing
    BY <2>1, PlainType
  <2>3. TypeOK'
    BY <1>1, <1>2, <1>5, <1>10, <1>12, <2>1, <2>2 DEF TypeOK
  <2>4. pc'[p] = "done" /\ reply'[p].code = "OK" /\ req'[p] = req[p]
    BY <1>1, <2>1, <2>2 DEF TypeOK
  <2>5. Placed(p)'
    BY <1>1, <1>2, <1>3, <2>4, Sentinels DEF Placed
  <2>6. Follows(p)' /\ Knows(p)' /\ Wrote(p)' /\ Telling(p)'
    BY <1>1, <1>2, <2>4 DEF Honest, Follows, Knows, Wrote, Telling, Replied
  <2>7. BulkTold(p)'
    <3>1. DOMAIN names = 1 .. n + 1
      <4>1. Len(rest) = 0
        BY <1>12
      <4>2. Len(names) = n + 1
        <5>1. /\ Len(left[p]) \in Nat \ {0} /\ Len(rest) = Len(left[p]) - 1
              /\ n \in Nat /\ n = Len(names) - Len(left[p]) /\ Len(names) \in Nat
          BY <1>5, <1>6
        <5>. DEFINE a == Len(left[p])
                    b == Len(names)
                    c == Len(rest)
        <5>2. a \in Nat /\ b \in Nat /\ n \in Nat /\ c = a - 1 /\ n = b - a /\ c = 0
          BY <4>1, <5>1
        <5>. HIDE DEF a, b, c
        <5>3. b = n + 1
          BY <5>2
        <5>. QED  BY <5>3 DEF b
      <4>3. names \in Seq(Keys \cup BadKeys)
        BY <1>3 DEF names
      <4>. QED  BY <4>2, <4>3
    <3>2. {names[i] : i \in DOMAIN names} = Past(p)'
      BY <1>7, <2>4, <3>1 DEF Past, names
    <3>3. Tells(p, Past(p))'
      BY <1>8, <1>11 DEF Tells
    <3>. QED  BY <2>4, <3>2, <3>3 DEF BulkTold, Tells, names
  <2>8. ServedOne(p)' /\ Unmodified(p)' /\ Judged(p)' /\ Effected(p)'
    BY <1>3, <2>4 DEF ServedOne, Unmodified, Judged, Owns, Effected, Replied
  <2>. QED  BY <2>3, <2>5, <2>6, <2>7, <2>8 DEF Honest
<1>13. CASE rest # <<>>
  <2>1. pc' = pc /\ reply' = reply /\ req' = req
    BY <1>1, <1>13
  <2>2. TypeOK'
    BY <1>1, <1>2, <1>5, <1>10, <1>13, <2>1 DEF TypeOK
  <2>3. Placed(p)'
    BY <1>1, <1>2, <2>1, Sentinels DEF Placed
  <2>4. Follows(p)' /\ Knows(p)' /\ Wrote(p)'
    BY <1>1, <1>2, <2>1 DEF Honest, Follows, Knows, Wrote
  <2>5. Telling(p)'
    <3>1. answer'[p] # Done
      BY <1>2, Sentinels
    <3>2. Tells(p, Past(p))'
      BY <1>8, <1>11 DEF Tells
    <3>3. Through(p)' \in Nat
      BY <1>6, <1>7
    <3>4. \A i \in 1 .. Len(left'[p]) : left'[p][i] = req'[p].names[Through(p)' + i]
      BY <1>7, <2>1 DEF names
    <3>. QED  BY <3>1, <3>2, <3>3, <3>4 DEF Telling
  <2>6. BulkTold(p)' /\ ServedOne(p)' /\ Unmodified(p)' /\ Judged(p)' /\ Effected(p)'
    BY <1>2, <2>1 DEF BulkTold, ServedOne, Unmodified, Judged, Effected, Replied
  <2>. QED  BY <2>2, <2>3, <2>4, <2>5, <2>6 DEF Honest
<1>. QED  BY <1>12, <1>13

-----------------------------------------------------------------------------
(***************************************************************************)
(* Theorems                                                                *)
(***************************************************************************)

LEMMA StepKeeps ==
  ASSUME HInv, NEW p \in Procs, Arrive(p) \/ Step(p)
  PROVE  HInv'
<1>1. TypeOK' /\ Honest(p)'
  BY ArriveKeeps, RouteKeeps, TakesType, TakesKeeps, RespondKeeps, PutReturnsKeeps,
     RollbackReturnsKeeps, DeleteReturnsKeeps, HeadReturnsKeeps, GetReturnsKeeps,
     BulkReturnsKeeps DEF Step
<1>2. ASSUME NEW q \in Procs, p # q PROVE Honest(q)'
  BY <1>2, OthersUntouched, HonestStays DEF HInv
<1>. QED  BY <1>1, <1>2 DEF HInv

LEMMA StandsStill ==
  ASSUME HInv, UNCHANGED <<store, pc, req, local, copy, begun, ghost>>, clock' \in Nat
  PROVE  HInv'
<1>1. UNCHANGED <<object, answer, pc, req, info, left, told, reply, copy, begun, seen, since,
                  wrote>>
  BY DEF store, local, ghost
<1>2. TypeOK'
  BY <1>1 DEF HInv, TypeOK
<1>3. ASSUME NEW q \in Procs PROVE Honest(q)'
  <2>1. Honest(q) /\ Follows(q)
    BY DEF HInv, Honest
  <2>2. Untouched(q)
    BY <1>1, <2>1 DEF Untouched, Follows
  <2>. QED  BY <2>1, <2>2, HonestStays
<1>. QED  BY <1>2, <1>3 DEF HInv

LEMMA HInvNext == HInv /\ [Next]_vars => HInv'
<1>. SUFFICES ASSUME HInv, [Next]_vars PROVE HInv'
  OBVIOUS
<1>1. clock \in Nat
  BY DEF HInv, TypeOK
<1>2. ASSUME NEW p \in Procs, Arrive(p) \/ Step(p) PROVE HInv'
  BY <1>2, StepKeeps
<1>3. CASE Tick
  BY <1>1, <1>3, StandsStill DEF Tick
<1>4. CASE UNCHANGED vars
  BY <1>1, <1>4, StandsStill DEF vars
<1>. QED  BY <1>2, <1>3, <1>4 DEF Next

THEOREM HandlersInductive == Spec => []HInv
<1>1. Init => HInv
  BY HInvInit
<1>2. HInv /\ [Next]_vars => HInv'
  BY HInvNext
<1>. QED  BY <1>1, <1>2, PTL DEF Spec

\* Every variable of the handlers has its type; a goroutine has an answer of the
\* store only while it is in the call it answers.
THEOREM HandlersTyped == Spec => []TypeOK
<1>1. HInv => TypeOK
  BY DEF HInv
<1>. QED  BY <1>1, HandlersInductive, PTL

\* The two store calls of getObject: the bytes of a GET are of one version, and
\* all of what its headers announce when nobody wrote in between.
THEOREM GetsServeOneVersion == Spec => []ServedFromOneVersion
<1>1. HInv => ServedFromOneVersion
  BY DEF HInv, Honest, ServedOne, ServedFromOneVersion
<1>. QED  BY <1>1, HandlersInductive, PTL

\* checkPreconditions: "Not Modified" tells no client to keep bytes that the
\* object did not have during the request.
THEOREM NotModifiedIsNeverWrong == Spec => []NotModifiedIsTrue
<1>1. HInv => NotModifiedIsTrue
  BY DEF HInv, Honest, Unmodified, NotModifiedIsTrue
<1>. QED  BY <1>1, HandlersInductive, PTL

\* checkPreconditions: a client is never refused for the validators it was given
\* for what the object still is.
THEOREM OwnValidatorsAreHonoured == Spec => []OwnValidatorsHold
<1>1. ASSUME HInv PROVE OwnValidatorsHold
  <2>1. SUFFICES ASSUME NEW p \in Procs, pc[p] = "done", Owns(p),
                        Meanwhile(p) = {copy[p].version}
                 PROVE  /\ ~Replied(p, {"PreconditionFailed"})
                        /\ Asked4New(p) /\ reply[p].code \notin {"AccessDenied", "SlowDown"}
                           => Replied(p, {"NotModified"})
    BY DEF OwnValidatorsHold, Owns, Asked4New
  <2>2. CASE ~Replied(p, {"AccessDenied", "SlowDown"})
    BY <1>1, <2>1, <2>2 DEF HInv, Honest, Judged
  <2>3. CASE Replied(p, {"AccessDenied", "SlowDown"})
    BY <2>3 DEF Replied
  <2>. QED  BY <2>2, <2>3
<1>. QED  BY <1>1, HandlersInductive, PTL

\* deleteObjects: what it tells is true of every name it was given.
THEOREM BulkDeletesTellTheTruth == Spec => []BulkDeleteIsTrue
<1>1. HInv => BulkDeleteIsTrue
  BY DEF HInv, Honest, BulkTold, Tells, BulkDeleteIsTrue
<1>. QED  BY <1>1, HandlersInductive, PTL

\* The error paths of the handlers: a refusal leaves every object as it was, but
\* for the internal error of a PUT; and who is told of a write, an undone write or
\* a deletion can rely on its having happened.
THEOREM RepliesAreTrue == Spec => []RepliesTellEffects
<1>1. ASSUME HInv, NEW p \in Procs, pc[p] = "done"
      PROVE  LET code == reply[p].code IN
             /\ wrote[p] => code \in {"OK", "NoContent", "BadDigest", "error"}
             /\ code = "error" => req[p].method = "PUT"
             /\ code = "OK" /\ req[p].method = "PUT" =>
                  \E v \in Meanwhile(p) \ {NoObject} : v.body = req[p].body
             /\ code \in {"NoContent", "BadDigest"} => NoObject \in Meanwhile(p)
  <2>1. Wrote(p) /\ Effected(p)
    BY <1>1 DEF HInv, Honest
  <2>. QED  BY <1>1, <2>1 DEF Wrote, Effected, Stored, Gone, Replied
<1>2. HInv => RepliesTellEffects
  BY <1>1 DEF RepliesTellEffects
<1>. QED  BY <1>2, HandlersInductive, PTL
=============================================================================
