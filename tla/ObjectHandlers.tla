--------------------------- MODULE ObjectHandlers ---------------------------
(***************************************************************************)
(* The HTTP side of objects: ServeHTTP and its dispatch (s3api/router.go,  *)
(* sigv4.go), the handlers of PUT, GET, HEAD, DELETE (s3api/object.go) and *)
(* bulk delete (s3api/delete.go), and the preconditions of                 *)
(* s3api/rangehdr.go, beside the clients that send back the validators of  *)
(* the copies they keep.                                                   *)
(*                                                                         *)
(* Each store call is one atomic step, as AtomicObjects promises; what may *)
(* go wrong here happens between two of them.  The bucket exists.          *)
(***************************************************************************)
EXTENDS RangeHeader, FiniteSets

CONSTANTS
  Procs,          \* clients, each with the goroutine of its connection
  Keys, BadKeys,  \* names that ValidateKey accepts, and that it refuses
  NoKey,          \* the key of a request on the bucket
  Bodies,         \* contents; one stands for its own digest
  Content,        \* Content[b]: the bytes of content b, in order
  Requests,       \* the requests clients make
  Seeds,          \* versions an object may have at start
  TicksPerSecond, \* the file system's clock against that of HTTP dates
  FailRate,       \* whether --fail-rate is set
  MaxKeysLimit,   \* the most names a bulk delete may hold
  Epoch,          \* the clock at start
  MaxClock, MaxRequests, \* bounds of a run
  NoObject, Nothing, Unanswered, Done, Refused

Version == [body : Bodies, mtime : Nat]

Bytes == UNION {{Content[b][n] : n \in DOMAIN Content[b]} : b \in Bodies}

\* Statuses and error codes; "error" stands for what a failed PUT is told.
Codes == {"OK", "NoContent", "PartialContent", "NotModified", "PreconditionFailed",
          "InvalidRange", "NoSuchKey", "InvalidArgument", "InvalidRequest", "BadDigest",
          "AccessDenied", "SlowDown", "NotImplemented", "MethodNotAllowed", "error"}

\* What a client receives, apart from the entries of a bulk delete.
Replies == [code : Codes, etag : Bodies \cup {Nothing}, length : Nat, bytes : Seq(Bytes)]

Validators == {"If-Match", "If-Match *", "If-Unmodified-Since",
               "If-None-Match", "If-Modified-Since"}

Request == [method : {"PUT", "GET", "HEAD", "DELETE", "POST", "PATCH"},
            key : Keys \cup BadKeys \cup {NoKey},
            query : {"none", "acl", "tagging", "delete"},
            sends : SUBSET Validators, \* with the values of the client's copy
            range : Headers,
            body : Bodies,
            damaged : BOOLEAN,         \* the body is not that of its digest
            names : Seq(Keys \cup BadKeys), quiet : BOOLEAN,
            expires : Nat \cup {Nothing}] \* of a presigned URL

ASSUME ContentType == Content \in [Bodies -> Seq(Bytes)]
\* Of the requests on a bucket only POST is here; no digest reads "*".
ASSUME RequestsType == /\ Requests # {} /\ Requests \subseteq Request
                       /\ \A r \in Requests : r.key = NoKey => r.method = "POST"
                       /\ "*" \notin Bodies
ASSUME KeysType == Keys \cap BadKeys = {} /\ NoKey \notin Keys \cup BadKeys
ASSUME SeedsType  == Seeds \subseteq Version
ASSUME LimitType  == MaxKeysLimit \in Nat
ASSUME ClockType  == TicksPerSecond \in Nat \ {0} /\ Epoch \in Nat
ASSUME Sentinels  ==
  /\ NoObject \notin Version \cup Bodies
  /\ Nothing \notin Nat \cup Version \cup Replies
  /\ \A a \in {Unanswered, Done, Refused} : a \notin Version \cup Bodies \cup {NoObject}
  /\ Unanswered # Done /\ Unanswered # Refused /\ Done # Refused

VARIABLES
  object, answer, \* the store, as AtomicObjects has it
  clock,
  pc, req,
  info,    \* the ObjectInfo of HeadObject: the version it describes
  left,    \* names a bulk delete has yet to go through
  told,    \* what it will say was deleted and was not
  reply,   \* what the client received
  copy,    \* the validators the client keeps: [key, version], or Nothing
  begun,
  seen,    \* history: the versions each key had during the request
  since,   \* history: the versions of its key since HeadObject
  wrote    \* history: whether the request changed an object

store  == <<object, answer>>
local  == <<info, left, told, reply>>
ghost  == <<seen, since, wrote>>
vars   == <<store, clock, pc, req, local, copy, begun, ghost>>

Store == INSTANCE AtomicObjects WITH Versions <- Version

-----------------------------------------------------------------------------
(***************************************************************************)
(* Replies and preconditions                                               *)
(***************************************************************************)

\* LastModified, truncated to the second.
Second(v) == v.mtime \div TicksPerSecond

Goto(p, l) == pc' = [pc EXCEPT ![p] = l]

\* A reply without an object's bytes.
Plain(code) == [code |-> code, etag |-> Nothing, length |-> 0, bytes |-> <<>>]

Answer(p, r) ==
  /\ reply' = [reply EXCEPT ![p] = r]
  /\ Goto(p, "done")

EtagMatches(candidates, etag) == "*" \in candidates \/ etag \in candidates

\* The conditional headers of a request: sets of tags, dates in seconds; a
\* header that was not sent is {} or Nothing.
Conditions(p) ==
  LET c == copy[p]
      sent(h) == h \in req[p].sends
      mine == c # Nothing /\ c.key = req[p].key
      date(h) == IF sent(h) /\ mine THEN Second(c.version) ELSE Nothing
      tags(h) == IF sent(h) /\ mine THEN {c.version.body} ELSE {}
  IN [match |-> tags("If-Match") \cup (IF sent("If-Match *") THEN {"*"} ELSE {}),
      unmodified |-> date("If-Unmodified-Since"),
      noneMatch |-> tags("If-None-Match"),
      modified |-> date("If-Modified-Since")]

\* Mutant: the dates are compared with the untruncated time of the file.
CheckPreconditions_Untruncated(c, v) ==
  LET later(date) == v.mtime > date * TicksPerSecond IN
  IF \/ c.match # {} /\ ~EtagMatches(c.match, v.body)
     \/ c.match = {} /\ c.unmodified # Nothing /\ later(c.unmodified)
    THEN "PreconditionFailed"
  ELSE IF \/ c.noneMatch # {} /\ EtagMatches(c.noneMatch, v.body)
          \/ c.noneMatch = {} /\ c.modified # Nothing /\ ~later(c.modified)
    THEN "NotModified"
  ELSE "Pass"

\* Mutant: If-Modified-Since is looked at beside an If-None-Match.
CheckPreconditions_DateToo(c, v) ==
  LET later(date) == Second(v) > date IN
  IF \/ c.match # {} /\ ~EtagMatches(c.match, v.body)
     \/ c.match = {} /\ c.unmodified # Nothing /\ later(c.unmodified)
    THEN "PreconditionFailed"
  ELSE IF \/ c.noneMatch # {} /\ EtagMatches(c.noneMatch, v.body)
          \/ c.modified # Nothing /\ ~later(c.modified)
    THEN "NotModified"
  ELSE "Pass"

\* checkPreconditions: a date counts only where there is no list of tags.
CheckPreconditions(c, v) ==
  LET later(date) == Second(v) > date IN
  IF \/ c.match # {} /\ ~EtagMatches(c.match, v.body)
     \/ c.match = {} /\ c.unmodified # Nothing /\ later(c.unmodified)
    THEN "PreconditionFailed"
  ELSE IF \/ c.noneMatch # {} /\ EtagMatches(c.noneMatch, v.body)
          \/ c.noneMatch = {} /\ c.modified # Nothing /\ ~later(c.modified)
    THEN "NotModified"
  ELSE "Pass"

-----------------------------------------------------------------------------
(***************************************************************************)
(* Arrival and dispatch                                                    *)
(***************************************************************************)

IdleRequest == CHOOSE r \in Requests : TRUE

NobodyTold == [deleted |-> {}, errors |-> {}]

Init ==
  /\ object \in [Keys -> Seeds \cup {NoObject}]
  /\ answer = [p \in Procs |-> Unanswered]
  /\ clock = Epoch
  /\ pc = [p \in Procs |-> "idle"]
  /\ req = [p \in Procs |-> IdleRequest]
  /\ info = [p \in Procs |-> Nothing]
  /\ left = [p \in Procs |-> <<>>]
  /\ told = [p \in Procs |-> NobodyTold]
  /\ reply = [p \in Procs |-> Nothing]
  /\ copy = [p \in Procs |-> Nothing]
  /\ begun = 0
  /\ seen = [p \in Procs |-> [k \in Keys |-> {}]]
  /\ since = [p \in Procs |-> {}]
  /\ wrote = [p \in Procs |-> FALSE]

Arrive(p) ==
  /\ pc[p] = "idle" /\ begun < MaxRequests
  /\ \E r \in Requests : req' = [req EXCEPT ![p] = r]
  /\ Goto(p, "route")
  /\ begun' = begun + 1
  /\ seen' = [seen EXCEPT ![p] = [k \in Keys |-> {object[k]}]]
  /\ UNCHANGED <<store, clock, local, copy, since, wrote>>

\* checkPresignExpiry.
Expired(r) == r.expires # Nothing /\ clock > r.expires

\* serveObject: the handler of a request on a key, or the error.
ServeObject(r) ==
  CASE r.method = "PUT" /\ r.query \in {"acl", "tagging"} -> "NotImplemented"
    [] r.method = "PUT" /\ r.query \notin {"acl", "tagging"} -> "put"
    [] r.method \in {"GET", "HEAD"} -> "head"
    [] r.method = "DELETE" -> "delete"
    [] r.method = "POST" -> "NotImplemented"
    [] OTHER -> "MethodNotAllowed"

\* Mutant: a bulk delete of no names at all is let through.
ServeBulk_AllowsNone(r) ==
  CASE r.query # "delete" -> "NotImplemented"
    [] r.query = "delete" /\ Len(r.names) > MaxKeysLimit -> "InvalidRequest"
    [] OTHER -> "bulk"

\* serveBucket's POST, and deleteObjects up to its loop.
ServeBulk(r) ==
  CASE r.query # "delete" -> "NotImplemented"
    [] r.query = "delete" /\ Len(r.names) \notin 1 .. MaxKeysLimit -> "InvalidRequest"
    [] OTHER -> "bulk"

\* The rest of ServeHTTP.
Route(p) ==
  LET r == req[p]
      handler == IF r.key = NoKey THEN ServeBulk(r) ELSE ServeObject(r)
      refuse(code) == Answer(p, Plain(code)) /\ UNCHANGED left
  IN /\ pc[p] = "route"
     /\ \/ Expired(r) /\ refuse("AccessDenied")
        \/ ~Expired(r) /\ FailRate /\ refuse("SlowDown")
        \/ /\ ~Expired(r) /\ handler \in {"put", "head", "delete", "bulk"}
           /\ Goto(p, handler)
           /\ left' = [left EXCEPT ![p] = IF handler = "bulk" THEN r.names ELSE <<>>]
           /\ UNCHANGED reply
        \/ /\ ~Expired(r) /\ handler \notin {"put", "head", "delete", "bulk"}
           /\ refuse(handler)
     /\ UNCHANGED <<store, clock, req, info, told, copy, begun, ghost>>

\* The client has the reply, and keeps the validators of an object it was sent.
Respond(p) ==
  /\ pc[p] = "done"
  /\ Goto(p, "idle")
  /\ req' = [req EXCEPT ![p] = IdleRequest]
  /\ copy' = IF reply[p].code = "OK" /\ info[p] # Nothing
               THEN [copy EXCEPT ![p] = [key |-> req[p].key, version |-> info[p]]]
               ELSE copy
  /\ reply' = [reply EXCEPT ![p] = Nothing]
  /\ info' = [info EXCEPT ![p] = Nothing]
  /\ told' = [told EXCEPT ![p] = NobodyTold]
  /\ seen' = [seen EXCEPT ![p] = [k \in Keys |-> {}]]
  /\ since' = [since EXCEPT ![p] = {}]
  /\ wrote' = [wrote EXCEPT ![p] = FALSE]
  /\ UNCHANGED <<store, clock, left, begun>>

-----------------------------------------------------------------------------
(***************************************************************************)
(* Store calls                                                             *)
(***************************************************************************)

\* The key the current store call is given.
Key(p) == IF pc[p] = "bulk" THEN Head(left[p]) ELSE req[p].key

\* PutObject, which may write twice within one tick of the file system's clock.
Writes(p) ==
  /\ pc[p] = "put" /\ Key(p) \in Keys
  /\ Store!Put(p, Key(p), [body |-> req[p].body, mtime |-> clock])

\* It may also fail, for its body or the disk; at its stat or its sidecar it fails
\* when the object is replaced already.  Other calls fail for a bad key only.
Fails(p) == \/ (Key(p) \in BadKeys \/ pc[p] = "put") /\ Store!Refuse(p)
            \/ pc[p] = "put" /\ Store!FailLate(p)

\* A store call takes effect.
Takes(p) ==
  /\ pc[p] \in {"put", "head", "get", "delete", "rollback", "bulk"}
  /\ \/ pc[p] = "head" /\ Key(p) \in Keys /\ Store!Head(p, Key(p))
     \/ pc[p] = "get" /\ Store!Get(p, Key(p))
     \/ /\ pc[p] \in {"delete", "rollback", "bulk"} /\ Key(p) \in Keys
        /\ Store!Delete(p, Key(p))
     \/ Writes(p)
     \/ Fails(p)
  /\ seen' = [q \in Procs |-> [k \in Keys |->
                IF pc[q] = "idle" THEN {} ELSE seen[q][k] \cup {object'[k]}]]
  /\ since' = [q \in Procs |->
                 IF q = p /\ pc[p] = "head" /\ Key(p) \in Keys THEN {object[Key(p)]}
                 ELSE IF pc[q] = "get" THEN since[q] \cup {object'[req[q].key]}
                 ELSE since[q]]
  /\ wrote' = [wrote EXCEPT ![p] = @ \/ object' # object]
  /\ UNCHANGED <<clock, pc, req, local, copy, begun>>

-----------------------------------------------------------------------------
(***************************************************************************)
(* Handlers, between the store calls they make                             *)
(***************************************************************************)

\* A store call has returned.
Returned(p, call) == pc[p] = call /\ answer[p] # Unanswered /\ Store!Return(p)

\* putObject: the digest is verified once the object is written, and a wrong one
\* takes it away again.
PutReturns(p) ==
  /\ Returned(p, "put")
  /\ \/ answer[p] = Refused /\ Answer(p, Plain("error"))
     \/ answer[p] = Done /\ req[p].damaged /\ Goto(p, "rollback") /\ UNCHANGED reply
     \/ answer[p] = Done /\ ~req[p].damaged /\ Answer(p, Plain("OK"))
  /\ UNCHANGED <<clock, req, info, left, told, copy, begun, ghost>>

RollbackReturns(p) ==
  /\ Returned(p, "rollback")
  /\ Answer(p, Plain("BadDigest"))
  /\ UNCHANGED <<clock, req, info, left, told, copy, begun, ghost>>

DeleteReturns(p) ==
  /\ Returned(p, "delete")
  /\ Answer(p, Plain(IF answer[p] = Refused THEN "InvalidArgument" ELSE "NoContent"))
  /\ UNCHANGED <<clock, req, info, left, told, copy, begun, ghost>>

\* The answer about version v to the part r of it, as far as bytes reach.
Sent(r, v, bytes) ==
  [code |-> IF r.status = 206 THEN "PartialContent" ELSE "OK",
   etag |-> v.body, length |-> r.length, bytes |-> bytes]

\* getObject, with what HeadObject told it: absent, preconditions, range; HEAD
\* is answered, GET goes on to open the body.
HeadReturns(p) ==
  /\ Returned(p, "head")
  /\ IF answer[p] \in Version
       THEN LET v == answer[p]
                r == ParseRange(req[p].range, Len(Content[v.body]))
                c == CheckPreconditions(Conditions(p), v)
            IN \/ c = "PreconditionFailed" /\ Answer(p, Plain(c)) /\ UNCHANGED info
               \/ /\ c = "NotModified"
                  /\ Answer(p, [Plain(c) EXCEPT !.etag = v.body]) /\ UNCHANGED info
               \/ /\ c = "Pass" /\ r.status = 416
                  /\ Answer(p, Plain("InvalidRange")) /\ UNCHANGED info
               \/ /\ c = "Pass" /\ r.status # 416
                  /\ info' = [info EXCEPT ![p] = v]
                  /\ \/ req[p].method = "HEAD" /\ Answer(p, Sent(r, v, <<>>))
                     \/ req[p].method = "GET" /\ Goto(p, "get") /\ UNCHANGED reply
       ELSE /\ Answer(p, Plain(IF answer[p] = NoObject THEN "NoSuchKey"
                                 ELSE "InvalidArgument"))
            /\ UNCHANGED info
  /\ UNCHANGED <<clock, req, left, told, copy, begun, ghost>>

\* Of a body longer than its Content-Length net/http sends only some first writes:
\* it refuses the one that would exceed it.
Received(r, body) ==
  IF Len(body) <= r.length THEN {body} ELSE {SubSeq(body, 1, n) : n \in 0 .. r.length}

\* Mutant: the part is read from the start of the file.
GetReturns_FromStart(p) ==
  LET v == info[p]
      r == ParseRange(req[p].range, Len(Content[v.body]))
  IN /\ Returned(p, "get")
     /\ IF answer[p] = NoObject
          THEN Answer(p, [Sent(r, v, <<>>) EXCEPT !.code = "NoSuchKey"])
        ELSE Answer(p, Sent(r, v, SubSeq(Content[answer[p]], 1, r.length)))
     /\ UNCHANGED <<clock, req, info, left, told, copy, begun, ghost>>

\* The headers are out of HeadObject's answer, the bytes are what GetObject or
\* GetObjectRange opened.  If that is nothing, the headers stay beside the error.
GetReturns(p) ==
  LET v == info[p]
      r == ParseRange(req[p].range, Len(Content[v.body]))
      opened == Content[answer[p]]
  IN /\ Returned(p, "get")
     /\ IF answer[p] = NoObject
          THEN Answer(p, [Sent(r, v, <<>>) EXCEPT !.code = "NoSuchKey"])
        ELSE \E bytes \in Received(r, IF r.status = 206 THEN Served(r, opened) ELSE opened) :
               Answer(p, Sent(r, v, bytes))
     /\ UNCHANGED <<clock, req, info, left, told, copy, begun, ghost>>

\* Entries of the answer to a bulk delete.
Tell(p, deleted, errors) ==
  told' = [told EXCEPT ![p] = [deleted |-> @.deleted \cup deleted,
                               errors |-> @.errors \cup errors]]

\* Mutant: a name that cannot be deleted ends the request.
BulkReturns_StopsAtError(p) ==
  LET name == Head(left[p])
      rest == IF answer[p] = Refused THEN <<>> ELSE Tail(left[p])
  IN /\ Returned(p, "bulk")
     /\ left' = [left EXCEPT ![p] = rest]
     /\ IF answer[p] = Refused THEN Tell(p, {}, {name})
        ELSE Tell(p, IF req[p].quiet THEN {} ELSE {name}, {})
     /\ IF rest = <<>> THEN Answer(p, Plain("OK")) ELSE UNCHANGED <<pc, reply>>
     /\ UNCHANGED <<clock, req, info, copy, begun, ghost>>

\* Mutant: a name that cannot be deleted fails the request.
BulkReturns_FailsAtError(p) ==
  /\ Returned(p, "bulk")
  /\ left' = [left EXCEPT ![p] = IF answer[p] = Refused THEN <<>> ELSE Tail(@)]
  /\ Tell(p, IF req[p].quiet \/ answer[p] = Refused THEN {} ELSE {Head(left[p])}, {})
  /\ IF answer[p] = Refused THEN Answer(p, Plain("InvalidArgument"))
     ELSE IF Len(left[p]) = 1 THEN Answer(p, Plain("OK"))
     ELSE UNCHANGED <<pc, reply>>
  /\ UNCHANGED <<clock, req, info, copy, begun, ghost>>

\* deleteObjects: one DeleteObject after another, an entry of the answer for
\* each unless it is quiet and all went well.
BulkReturns(p) ==
  LET name == Head(left[p])
      rest == Tail(left[p])
  IN /\ Returned(p, "bulk")
     /\ left' = [left EXCEPT ![p] = rest]
     /\ IF answer[p] = Refused THEN Tell(p, {}, {name})
        ELSE Tell(p, IF req[p].quiet THEN {} ELSE {name}, {})
     /\ IF rest = <<>> THEN Answer(p, Plain("OK")) ELSE UNCHANGED <<pc, reply>>
     /\ UNCHANGED <<clock, req, info, copy, begun, ghost>>

Tick ==
  /\ clock < MaxClock
  /\ clock' = clock + 1
  /\ UNCHANGED <<store, pc, req, local, copy, begun, ghost>>

Step(p) == \/ Route(p) \/ Takes(p) \/ Respond(p)
           \/ PutReturns(p) \/ RollbackReturns(p) \/ DeleteReturns(p)
           \/ HeadReturns(p) \/ GetReturns(p) \/ BulkReturns(p)

Next == (\E p \in Procs : Arrive(p) \/ Step(p)) \/ Tick

Spec == Init /\ [][Next]_vars

-----------------------------------------------------------------------------
(***************************************************************************)
(* Properties                                                              *)
(***************************************************************************)

Replied(p, codes) == pc[p] = "done" /\ reply[p].code \in codes

\* The object that a reply is about, in the versions it had meanwhile.
Meanwhile(p) == seen[p][req[p].key]

\* Every variable has its type, and a goroutine has an answer of the store only
\* while it is in a call.
TypeOK ==
  /\ object \in [Keys -> Version \cup {NoObject}]
  /\ answer \in [Procs -> Version \cup Bodies \cup {NoObject, Unanswered, Done, Refused}]
  /\ clock \in Nat /\ begun \in Nat
  /\ pc \in [Procs -> {"idle", "route", "put", "rollback", "head", "get", "delete", "bulk",
                       "done"}]
  /\ req \in [Procs -> Requests]
  /\ info \in [Procs -> Version \cup {Nothing}]
  /\ left \in [Procs -> Seq(Keys \cup BadKeys)]
  /\ told \in [Procs -> [deleted : SUBSET (Keys \cup BadKeys), errors : SUBSET (Keys \cup BadKeys)]]
  /\ reply \in [Procs -> Replies \cup {Nothing}]
  /\ copy \in [Procs -> [key : Keys, version : Version] \cup {Nothing}]
  /\ seen \in [Procs -> [Keys -> SUBSET (Version \cup {NoObject})]]
  /\ since \in [Procs -> SUBSET (Version \cup {NoObject})]
  /\ wrote \in [Procs -> BOOLEAN]
  /\ \A p \in Procs :
       /\ pc[p] = "bulk" <=> left[p] # <<>>
       /\ pc[p] = "done" <=> reply[p] # Nothing
       /\ answer[p] \notin {Unanswered, Refused} =>
            \/ pc[p] = "head" /\ answer[p] \in Version \cup {NoObject}
            \/ pc[p] = "get" /\ answer[p] \in Bodies \cup {NoObject}
            \/ pc[p] \in {"put", "rollback", "delete", "bulk"} /\ answer[p] = Done

\* The bytes of a GET are the asked part of one version, or a beginning of it; and
\* they are all of the part, of the version its ETag names, unless the object was
\* written between the two store calls (object.go 102 and 145).
ServedFromOneVersion ==
  \A p \in Procs : Replied(p, {"OK", "PartialContent"}) /\ req[p].method = "GET" =>
    LET r == ParseRange(req[p].range, Len(Content[info[p].body])) IN
    /\ \E v \in since[p] \ {NoObject} :
         reply[p].bytes = SubSeq(Served(r, Content[v.body]), 1, Len(reply[p].bytes))
    /\ since[p] = {info[p]} => /\ Len(reply[p].bytes) = reply[p].length
                               /\ reply[p].etag = info[p].body

\* "Not Modified" is true: a client that sent its ETag has the bytes the object
\* had at some time of the request, whatever dates it sent along; one that sent
\* only a date misses no more than what was written within its second (README:
\* "Timestamps have second granularity").
NotModifiedIsTrue ==
  \A p \in Procs : Replied(p, {"NotModified"}) =>
    \E v \in Meanwhile(p) \ {NoObject} :
      IF "If-None-Match" \in req[p].sends THEN v.body = copy[p].version.body
      ELSE Second(v) <= Second(copy[p].version)

\* A client that sends back what it was given, while nobody has written the
\* object, is not refused for it, and is told that nothing was modified if it
\* asks (README: "If-Modified-Since behaves consistently with the Last-Modified
\* clients were given").
OwnValidatorsHold ==
  \A p \in Procs :
    /\ pc[p] = "done" /\ req[p].method \in {"GET", "HEAD"} /\ req[p].key \in Keys
    /\ copy[p] # Nothing /\ copy[p].key = req[p].key
    /\ Meanwhile(p) = {copy[p].version}
    => /\ ~Replied(p, {"PreconditionFailed"})
       /\ /\ req[p].sends \cap {"If-None-Match", "If-Modified-Since"} # {}
          /\ reply[p].code \notin {"AccessDenied", "SlowDown"}
          => Replied(p, {"NotModified"})

\* A bulk delete tells the truth about every name: those it refuses are the ones
\* that cannot be keys, all others were absent at some time of the request, and
\* one bad name does not keep the others (delete.go: "a partial failure still
\* deletes everything it can").
BulkDeleteIsTrue ==
  \A p \in Procs : Replied(p, {"OK"}) /\ req[p].method = "POST" =>
    LET named == {req[p].names[i] : i \in DOMAIN req[p].names} IN
    /\ told[p].errors = named \cap BadKeys
    /\ told[p].deleted = IF req[p].quiet THEN {} ELSE named \cap Keys
    /\ \A k \in named \cap Keys : NoObject \in seen[p][k]

\* What a client is told of a write is true.  A request that is refused has
\* changed nothing; only an internal error of a PUT leaves open whether it wrote
\* (fs.go 211-220).  A PUT that succeeds was the object at some time of the
\* request, and after a DELETE, or a PUT undone for its digest, there was a time
\* without it.
RepliesTellEffects ==
  \A p \in Procs : pc[p] = "done" =>
    LET code == reply[p].code IN
    /\ wrote[p] => code \in {"OK", "NoContent", "BadDigest", "error"}
    /\ code = "error" => req[p].method = "PUT"
    /\ code = "OK" /\ req[p].method = "PUT" =>
         \E v \in Meanwhile(p) \ {NoObject} : v.body = req[p].body
    /\ code \in {"NoContent", "BadDigest"} => NoObject \in Meanwhile(p)
=============================================================================
