----------------------------- MODULE ObjectStore -----------------------------
(***************************************************************************)
(* The object paths of internal/store (fs.go, meta.go, copy.go and         *)
(* infoForListing) and the handlers that drive them (s3api/object.go,      *)
(* s3api/copy.go), one action per file-system call or lock operation.      *)
(*                                                                         *)
(* An object is two files, written one after the other: the bytes, staged  *)
(* and renamed into place, and a sidecar with what was declared and        *)
(* computed about them, written to a scratch file of fixed name and        *)
(* renamed into place.  A request is one handler call; it makes one to     *)
(* three store calls, each with a lock section of its own.                 *)
(*                                                                         *)
(* The keys modelled are ordinary keys directly under one existing bucket, *)
(* so bucketExists and checkConflicts succeed and there is no directory to *)
(* make or prune.  A body stands for its own digest and checksum.          *)
(***************************************************************************)
EXTENDS Naturals, FiniteSets

CONSTANTS
  Procs,        \* goroutines serving requests
  Keys,
  Bodies,       \* contents
  Size,         \* Size[b]: the length of content b
  Metas,        \* declared metadata: content type and x-amz-meta-* as one
  Sniffed,      \* the metadata inferred for a file nobody declared any for
  None,         \* an empty field: no digest, no metadata, no checksum
  NoFile, Absent, Empty, Garbled, \* states of a file (see below)
  Partial,      \* the content of a file whose writing stopped half-way
  Requests,     \* the requests clients make
  Seeds,        \* [body, meta] of objects that may exist at start
  Birth,        \* Birth[k]: the mtime of such an object
  Epoch,        \* the clock at start
  ClockSteps,   \* how far the clock moves between two file writes
  Crowded,      \* whether every kind of request runs beside every other
  EditsMidWrite, \* whether an outside edit may hit between a writer's look at
                 \* the bytes and its stat of the file
  MaxRequests, MaxEdits, MaxCrashes \* bounds of a run

Request == [op : {"PUT", "GET", "HEAD", "DELETE", "COPY", "LIST"},
            key : Keys, src : Keys, body : Bodies, meta : Metas,
            want : Bodies \cup {None}, \* Content-MD5 or x-amz-checksum-*
            trailer : BOOLEAN,         \* the checksum comes after the body
            replace : BOOLEAN]         \* x-amz-metadata-directive: REPLACE

\* The bytes of an object and the metadata they were stored with.
Version == [body : Bodies, mtime : Nat, meta : Metas \cup {Sniffed}]

Sidecars == [meta : Metas \cup {Sniffed, None}, etag : Bodies \cup {None},
             size : Nat, mtime : Nat, sum : Bodies \cup {None}]

\* A staged body.
Staged == [body : Bodies, mtime : Nat]

ASSUME NonEmpty     == Keys # {} /\ Bodies # {} /\ Metas # {}
ASSUME SizesAreNat  == Size \in [Bodies \cup {Partial} -> Nat]
ASSUME RequestsType == Requests \subseteq Request
ASSUME SeedsType    == Seeds \subseteq [body : Bodies, meta : Metas \cup {Sniffed}]
ASSUME BirthType    == /\ Epoch \in Nat
                       /\ Birth \in [Keys -> 1 .. Epoch]
                       /\ \A j, k \in Keys : Birth[j] = Birth[k] => j = k
ASSUME ClockType    == ClockSteps \subseteq Nat
ASSUME Sentinels    == /\ NoFile \notin Version /\ NoFile \notin Staged
                       /\ NoFile \notin Seeds
                       /\ \A t \in {Absent, Empty, Garbled} : t \notin Sidecars
                       /\ None \notin Bodies /\ Partial \notin Bodies
                       /\ None # Sniffed /\ None \notin Metas

VARIABLES
  file,    \* <bucket>/<key>: [body, mtime, meta], meta being what its writer
           \* declared (history only: the file system keeps no such thing)
  side,    \* the sidecar <key>.json: Absent, Empty, Garbled or its fields
  scratch, \* <key>.json.tmp, the same
  fd,      \* where the sidecar file a goroutine has open is linked now
  tmp,     \* the body a goroutine has staged under .locals3/tmp
  held,    \* the object locks, as NamedLocks keeps them
  clock,   \* the file system's clock
  pc, call, req, res,
  input,   \* the body a PutObject call reads
  sc,      \* its local sidecar; size and mtime are those of the last os.Stat
  info,    \* the ObjectInfo of its HeadObject call or list entry
  body,    \* the body of the answer
  begun, edits, crashes, \* how much of a run's bounds is used
  seen,    \* history: versions of the request's object since it began
  before   \* history: the version it began with

disk  == <<side, scratch, fd>>
local == <<res, input, sc, info, body>>
bound == <<begun, edits, crashes>>
ghost == <<seen, before>>
vars  == <<file, disk, tmp, held, clock, pc, call, req, local, bound, ghost>>

Locks == INSTANCE NamedLocks WITH Names <- Keys

-----------------------------------------------------------------------------

Sidecar(meta, etag, size, mtime, sum) ==
  [meta |-> meta, etag |-> etag, size |-> size, mtime |-> mtime, sum |-> sum]

\* The zero sidecar.
Blank == Sidecar(None, None, 0, 0, None)

\* Two unsynchronised writers of one scratch file: the second write lands over
\* the first, and leaves the tail of a longer text behind it.
Overlay(old, new) == IF old = Empty \/ old = new THEN {new} ELSE {new, Garbled}

Parse(text) == IF text \in {Absent, Empty, Garbled} THEN Blank ELSE text

\* Mutant: an edited file loses its declared metadata with its digest.
Reconcile_DropsAll(s, size, mtime) ==
  IF s.size = size /\ s.mtime = mtime THEN s
  ELSE Sidecar(None, None, size, mtime, None)

\* Mutant: the digest of an edited file is not dropped.
Reconcile_KeepsDigest(s, size, mtime) ==
  [s EXCEPT !.size = size, !.mtime = mtime]

\* readSidecar against the file's size and mtime: when they differ the digest
\* goes, the declared metadata and the checksum stay.
Reconcile(s, size, mtime) ==
  IF s.size = size /\ s.mtime = mtime THEN s
  ELSE [s EXCEPT !.etag = None, !.size = size, !.mtime = mtime]

Watched(r) == IF r.op = "COPY" THEN r.src ELSE r.key

\* The object the current store call works on.
Key(p) == IF call[p] = "head" THEN Watched(req[p]) ELSE req[p].key

Goto(p, l) == pc' = [pc EXCEPT ![p] = l]

\* The file of key k becomes v.
SetFile(k, v) ==
  /\ file' = [file EXCEPT ![k] = v]
  /\ seen' = [q \in Procs |-> IF pc[q] # "idle" /\ Watched(req[q]) = k
                                THEN seen[q] \cup {v} ELSE seen[q]]
  /\ UNCHANGED before

Tick == clock' \in {clock + d : d \in ClockSteps}

\* The sidecar files of key k that are open, once <key>.json is unlinked and
\* the file linked at `from' took its place ("nowhere": nothing did).
Relink(k, from) ==
  fd' = [q \in Procs |-> IF fd[q] = "none" \/ Key(q) # k THEN fd[q]
                         ELSE IF fd[q] = from THEN "side"
                         ELSE IF fd[q] = "side" THEN "gone"
                         ELSE fd[q]]

\* Mutant: an early return that skips the unlock.
Fail_KeepsLock(p, r) ==
  /\ Goto(p, "done")
  /\ res' = IF call[p] = "setsum" THEN res ELSE [res EXCEPT ![p] = r]

\* A store call ends with an error; its deferred unlock runs.  The handler
\* ignores the errors of SetObjectChecksum.
Fail(p, r) ==
  /\ Goto(p, "unlock")
  /\ res' = IF call[p] = "setsum" THEN res ELSE [res EXCEPT ![p] = r]

-----------------------------------------------------------------------------
(***************************************************************************)
(* Requests and locks                                                      *)
(***************************************************************************)

SeedFile(s) == [k \in Keys |->
  IF s[k] = NoFile THEN NoFile
  ELSE [body |-> s[k].body, mtime |-> Birth[k], meta |-> s[k].meta]]

\* A seed that nobody declared metadata for is a file dropped in by hand.
SeedSide(s) == [k \in Keys |->
  IF s[k] = NoFile THEN Absent
  ELSE IF s[k].meta = Sniffed THEN Absent
  ELSE Sidecar(s[k].meta, s[k].body, Size[s[k].body], Birth[k], None)]

IdleRequest == CHOOSE r \in Request : TRUE

\* No goroutine runs: none holds a lock, a staged body or an open file.
Stopped ==
  [pc |-> [p \in Procs |-> "idle"],
   call |-> [p \in Procs |-> "none"],
   req |-> [p \in Procs |-> IdleRequest],
   res |-> [p \in Procs |-> "ok"],
   input |-> [p \in Procs |-> None],
   sc |-> [p \in Procs |-> Blank],
   info |-> [p \in Procs |-> Blank],
   body |-> [p \in Procs |-> None],
   fd |-> [p \in Procs |-> "none"],
   tmp |-> [p \in Procs |-> NoFile],
   seen |-> [p \in Procs |-> {}],
   before |-> [p \in Procs |-> NoFile]]

Init ==
  /\ \E s \in [Keys -> Seeds \cup {NoFile}] :
       file = SeedFile(s) /\ side = SeedSide(s)
  /\ scratch = [k \in Keys |-> Absent]
  /\ held = Locks!Free
  /\ clock = Epoch
  /\ pc = Stopped.pc /\ call = Stopped.call /\ req = Stopped.req
  /\ res = Stopped.res /\ input = Stopped.input /\ sc = Stopped.sc
  /\ info = Stopped.info /\ body = Stopped.body
  /\ fd = Stopped.fd /\ tmp = Stopped.tmp
  /\ seen = Stopped.seen /\ before = Stopped.before
  /\ begun = 0 /\ edits = 0 /\ crashes = 0

FirstCall(op) == CASE op = "PUT" -> "put"
                   [] op = "DELETE" -> "delete"
                   [] op = "LIST" -> "list"
                   [] OTHER -> "head"

\* Requests that write a sidecar without the lock, or with a digest from before
\* it.
Careless(r) == r.op = "LIST" \/ (r.op = "COPY" /\ r.key = r.src)

\* Unless Crowded, those run alone, and so do all requests once a file has been
\* edited.
Orderly(r) ==
  Crowded \/ \A q \in Procs :
    pc[q] # "idle" => edits = 0 /\ ~Careless(r) /\ ~Careless(req[q])

\* A request arrives.  A listing resolves its entries without any lock.
Begin(p) ==
  /\ pc[p] = "idle" /\ begun < MaxRequests
  /\ \E r \in Requests :
       /\ Orderly(r)
       /\ req' = [req EXCEPT ![p] = r]
       /\ call' = [call EXCEPT ![p] = FirstCall(r.op)]
       /\ Goto(p, IF r.op = "LIST" THEN "stat" ELSE "lock")
       /\ input' = [input EXCEPT ![p] = r.body]
       /\ seen' = [seen EXCEPT ![p] = {file[Watched(r)]}]
       /\ before' = [before EXCEPT ![p] = file[r.key]]
  /\ begun' = begun + 1
  /\ UNCHANGED <<file, disk, tmp, held, clock, res, sc, info, body, edits, crashes>>

\* The answer is out and the goroutine free for another request.
Respond(p) ==
  /\ pc[p] = "done"
  /\ Goto(p, "idle")
  /\ call' = [call EXCEPT ![p] = "none"]
  /\ req' = [req EXCEPT ![p] = IdleRequest]
  /\ res' = [res EXCEPT ![p] = "ok"]
  /\ input' = [input EXCEPT ![p] = None]
  /\ sc' = [sc EXCEPT ![p] = Blank]
  /\ info' = [info EXCEPT ![p] = Blank]
  /\ body' = [body EXCEPT ![p] = None]
  /\ seen' = [seen EXCEPT ![p] = {}]
  /\ before' = [before EXCEPT ![p] = NoFile]
  /\ UNCHANGED <<file, disk, tmp, held, clock, bound>>

FirstStep(c) == CASE c = "put" -> "stage"
                  [] c = "delete" -> "unlink"
                  [] OTHER -> "stat"

LockMode(c) == IF c \in {"head", "get"} THEN "R" ELSE "W"

\* Mutant: writers take the read lock.
LockKey_WritersShare(p) ==
  /\ pc[p] = "lock"
  /\ Locks!Grant(p, Key(p), "R")
  /\ Goto(p, FirstStep(call[p]))
  /\ UNCHANGED <<file, disk, tmp, clock, call, req, local, bound, ghost>>

\* s.lock.Lock or s.lock.RLock on bucket and key.
LockKey(p) ==
  /\ pc[p] = "lock"
  /\ Locks!Grant(p, Key(p), LockMode(call[p]))
  /\ Goto(p, FirstStep(call[p]))
  /\ UNCHANGED <<file, disk, tmp, clock, call, req, local, bound, ghost>>

\* The store call after the one that ended: getObject opens the body under a
\* second lock, putObject verifies the digest and rolls back or records it.
Call(p, c, l) ==
  /\ call' = [call EXCEPT ![p] = c]
  /\ Goto(p, l)

Rejected(p) == req[p].want \notin {None, input[p]}

Continue(p) ==
  LET r == req[p] IN
  \/ /\ res[p] = "ok" /\ call[p] = "head" /\ r.op = "GET"
     /\ Call(p, "get", "lock") /\ UNCHANGED res
  \/ /\ res[p] = "ok" /\ call[p] = "head" /\ r.op = "COPY" /\ r.key # r.src
     /\ Call(p, "put", "source") /\ UNCHANGED res
  \/ /\ res[p] = "ok" /\ call[p] = "head" /\ r.op = "COPY" /\ r.key = r.src
     /\ IF r.replace
          THEN Call(p, "selfcopy", "lock") /\ UNCHANGED res
          ELSE /\ Call(p, "none", "done")
               /\ res' = [res EXCEPT ![p] = "InvalidArgument"]
  \/ /\ res[p] = "ok" /\ call[p] = "put" /\ r.op = "PUT" /\ Rejected(p)
     /\ Call(p, "delete", "lock")
     /\ res' = [res EXCEPT ![p] = "BadDigest"]
  \/ /\ res[p] = "ok" /\ call[p] = "put" /\ r.op = "PUT" /\ ~Rejected(p)
     /\ r.trailer
     /\ Call(p, "setsum", "lock") /\ UNCHANGED res
  \/ /\ \/ res[p] # "ok"
        \/ call[p] = "head" /\ r.op = "HEAD"
        \/ call[p] = "put" /\ (r.op = "COPY" \/ (~Rejected(p) /\ ~r.trailer))
        \/ call[p] \in {"get", "delete", "setsum", "selfcopy", "list"}
     /\ Call(p, "none", "done") /\ UNCHANGED res

\* What getObject sends of a file that holds b: no more than the Content-Length it
\* has from HeadObject, net/http cuts what is longer.
Sent(p, b) == IF Size[b] <= info[p].size THEN b ELSE Partial

\* The deferred unlock, and the return to the handler.
Unlock(p) ==
  /\ pc[p] = "unlock"
  /\ IF call[p] = "list" THEN UNCHANGED held ELSE Locks!Drop(p, Key(p))
  /\ Continue(p)
  /\ body' = IF call[p] = "get" /\ res[p] = "ok"
               THEN [body EXCEPT ![p] = Sent(p, body[p])] ELSE body
  /\ UNCHANGED <<file, disk, tmp, clock, req, input, sc, info, bound, ghost>>

-----------------------------------------------------------------------------
(***************************************************************************)
(* PutObject and CopyObject: the bytes                                     *)
(***************************************************************************)

\* What the sidecar of a PutObject call declares.
Declared(p) == IF req[p].op = "COPY" /\ ~req[p].replace THEN info[p].meta
               ELSE req[p].meta

\* A checksum sent as a header is stored with the object, checked or not.
DeclaredSum(p) == IF req[p].op = "COPY" \/ req[p].trailer THEN None
                  ELSE req[p].want

\* CopyObject opens the source, outside of any lock.
OpenSource(p) ==
  /\ pc[p] = "source"
  /\ LET f == file[req[p].src] IN
       IF f = NoFile
         THEN /\ Call(p, "none", "done")
              /\ res' = [res EXCEPT ![p] = "NoSuchKey"]
              /\ UNCHANGED input
         ELSE /\ Goto(p, "lock")
              /\ input' = [input EXCEPT ![p] = f.body]
              /\ UNCHANGED <<res, call>>
  /\ UNCHANGED <<file, disk, tmp, held, clock, req, sc, info, body, bound, ghost>>

\* io.Copy of the whole body into .locals3/tmp, fsync and close.
Stage(p) ==
  /\ pc[p] = "stage"
  /\ Tick
  /\ tmp' = [tmp EXCEPT ![p] = [body |-> input[p], mtime |-> clock']]
  /\ Goto(p, "rename")
  /\ UNCHANGED <<file, disk, held, call, req, local, bound, ghost>>

\* Mutant: the error of io.Copy is not looked at.
StageFails_Ignored(p) ==
  /\ pc[p] = "stage"
  /\ Tick
  /\ tmp' = [tmp EXCEPT ![p] = [body |-> Partial, mtime |-> clock']]
  /\ Goto(p, "rename")
  /\ UNCHANGED <<file, disk, held, call, req, local, bound, ghost>>

\* The body cannot be read to its end; the staged file is removed.
StageFails(p) ==
  /\ pc[p] = "stage"
  /\ Fail(p, "error")
  /\ UNCHANGED <<file, disk, tmp, held, clock, call, req, input, sc, info, body,
                 bound, ghost>>

Rename(p) ==
  /\ pc[p] = "rename"
  /\ SetFile(Key(p), [body |-> tmp[p].body, mtime |-> tmp[p].mtime,
                      meta |-> Declared(p)])
  /\ tmp' = [tmp EXCEPT ![p] = NoFile]
  /\ Goto(p, "restat")
  /\ UNCHANGED <<disk, held, clock, call, req, local, bound>>

\* The sidecar takes its digest and size from the copied stream, its mtime
\* from whatever is at the path by now.
Restat(p) ==
  /\ pc[p] = "restat"
  /\ LET f == file[Key(p)] IN
       IF f = NoFile THEN Fail(p, "error") /\ UNCHANGED sc
       ELSE /\ sc' = [sc EXCEPT ![p] = Sidecar(Declared(p), input[p],
                         Size[input[p]], f.mtime, DeclaredSum(p))]
            /\ Goto(p, "trunc")
            /\ UNCHANGED res
  /\ UNCHANGED <<file, disk, tmp, held, clock, call, req, input, info, body,
                 bound, ghost>>

-----------------------------------------------------------------------------
(***************************************************************************)
(* stat, readSidecar, resolveInfo                                          *)
(***************************************************************************)

\* os.Stat of the object.  The metadata-only self-copy goes on to write a
\* sidecar with the digest HeadObject gave it earlier; it alone does not say of
\* a missing file that there is no such key.
Stat(p) ==
  /\ pc[p] = "stat"
  /\ LET f == file[Key(p)] IN
       IF f = NoFile
         THEN /\ Fail(p, IF call[p] = "selfcopy" THEN "error" ELSE "NoSuchKey")
              /\ UNCHANGED sc
       ELSE IF call[p] = "selfcopy"
         THEN /\ sc' = [sc EXCEPT ![p] = Sidecar(req[p].meta, info[p].etag,
                           Size[f.body], f.mtime, None)]
              /\ Goto(p, "trunc")
              /\ UNCHANGED res
         ELSE /\ sc' = [sc EXCEPT ![p] =
                           Sidecar(None, None, Size[f.body], f.mtime, None)]
              /\ Goto(p, "readside")
              /\ UNCHANGED res
  /\ UNCHANGED <<file, disk, tmp, held, clock, call, req, input, info, body,
                 bound, ghost>>

\* The ObjectInfo a call returns.  getObject drops the one of GetObject: its
\* headers are those HeadObject gave.
Inform(p, s) == info' = IF call[p] = "get" THEN info ELSE [info EXCEPT ![p] = s]

\* readSidecar.  With digest and metadata at hand resolveInfo has nothing to
\* do; SetObjectChecksum puts its checksum in and writes the sidecar back.
ReadSide(p) ==
  /\ pc[p] = "readside"
  /\ LET s == Reconcile(Parse(side[Key(p)]), sc[p].size, sc[p].mtime) IN
       CASE call[p] = "setsum" ->
              /\ sc' = [sc EXCEPT ![p] = [s EXCEPT !.sum = input[p]]]
              /\ Goto(p, "trunc")
              /\ UNCHANGED info
         [] call[p] # "setsum" /\ (s.etag = None \/ s.meta = None) ->
              /\ sc' = [sc EXCEPT ![p] = s]
              /\ Goto(p, "digest")
              /\ UNCHANGED info
         [] OTHER ->
              /\ sc' = [sc EXCEPT ![p] = s]
              /\ Inform(p, s)
              /\ Goto(p, IF call[p] = "get" THEN "open" ELSE "unlock")
  /\ UNCHANGED <<file, disk, tmp, held, clock, call, req, res, input, body,
                 bound, ghost>>

\* resolveInfo: fileETag of what is at the path now, sniffContentType.
Digest(p) ==
  /\ pc[p] = "digest"
  /\ LET f == file[Key(p)]
         m == IF sc[p].meta = None THEN Sniffed ELSE sc[p].meta
     IN IF sc[p].etag = None /\ f = NoFile
          THEN Fail(p, "NoSuchKey") /\ UNCHANGED <<sc, info>>
          ELSE /\ sc' = [sc EXCEPT ![p].meta = m,
                         ![p].etag = IF @ = None THEN f.body ELSE @]
               /\ Inform(p, sc'[p])
               /\ Goto(p, "trunc")
               /\ UNCHANGED res
  /\ UNCHANGED <<file, disk, tmp, held, clock, call, req, input, body, bound, ghost>>

\* GetObject: os.Open under the read lock; the answer is read from it later.
Open(p) ==
  /\ pc[p] = "open"
  /\ LET f == file[Key(p)] IN
       IF f = NoFile THEN Fail(p, "NoSuchKey") /\ UNCHANGED body
       ELSE /\ body' = [body EXCEPT ![p] = f.body]
            /\ Goto(p, "unlock")
            /\ UNCHANGED res
  /\ UNCHANGED <<file, disk, tmp, held, clock, call, req, input, sc, info, bound,
                 ghost>>

-----------------------------------------------------------------------------
(***************************************************************************)
(* writeSidecar: os.WriteFile of the scratch file, then rename             *)
(***************************************************************************)

\* WriteFile opens the scratch file, creating or truncating it ...
Truncate(p) ==
  /\ pc[p] = "trunc"
  /\ scratch' = [scratch EXCEPT ![Key(p)] = Empty]
  /\ fd' = [fd EXCEPT ![p] = "scratch"]
  /\ Goto(p, "write")
  /\ UNCHANGED <<file, side, tmp, held, clock, call, req, local, bound, ghost>>

\* ... and writes to the file it opened, wherever that is linked by then.
Write(p) ==
  /\ pc[p] = "write"
  /\ LET k == Key(p) IN
       \/ /\ fd[p] = "scratch"
          /\ \E t \in Overlay(scratch[k], sc[p]) :
               scratch' = [scratch EXCEPT ![k] = t]
          /\ UNCHANGED side
       \/ /\ fd[p] = "side"
          /\ \E t \in Overlay(side[k], sc[p]) : side' = [side EXCEPT ![k] = t]
          /\ UNCHANGED scratch
       \/ /\ fd[p] = "gone"
          /\ UNCHANGED <<scratch, side>>
  /\ fd' = [fd EXCEPT ![p] = "none"]
  /\ Goto(p, "publish")
  /\ UNCHANGED <<file, tmp, held, clock, call, req, local, bound, ghost>>

\* The rename; the self-copy declares new metadata for the bytes that are there
\* (file keeps them as history).  resolveInfo ignores its failure, the other
\* callers do not.
Publish(p) ==
  /\ pc[p] = "publish"
  /\ LET k == Key(p) IN
       \/ /\ scratch[k] # Absent
          /\ side' = [side EXCEPT ![k] = scratch[k]]
          /\ scratch' = [scratch EXCEPT ![k] = Absent]
          /\ Relink(k, "scratch")
          /\ Goto(p, IF call[p] = "get" THEN "open" ELSE "unlock")
          /\ IF call[p] = "selfcopy" /\ file[k] # NoFile
               THEN SetFile(k, [file[k] EXCEPT !.meta = req[p].meta])
               ELSE UNCHANGED <<file, ghost>>
          /\ UNCHANGED res
       \/ /\ scratch[k] = Absent
          /\ IF call[p] \in {"put", "setsum", "selfcopy"}
               THEN Fail(p, "error")
               ELSE /\ Goto(p, IF call[p] = "get" THEN "open" ELSE "unlock")
                    /\ UNCHANGED res
          /\ UNCHANGED <<disk, file, ghost>>
  /\ UNCHANGED <<tmp, held, clock, call, req, input, sc, info, body, bound>>

-----------------------------------------------------------------------------
(***************************************************************************)
(* DeleteObject                                                            *)
(***************************************************************************)

Unlink(p) ==
  /\ pc[p] = "unlink"
  /\ SetFile(Key(p), NoFile)
  /\ Goto(p, "rmside")
  /\ UNCHANGED <<disk, tmp, held, clock, call, req, local, bound>>

RemoveSide(p) ==
  /\ pc[p] = "rmside"
  /\ side' = [side EXCEPT ![Key(p)] = Absent]
  /\ Relink(Key(p), "nowhere")
  /\ Goto(p, "unlock")
  /\ UNCHANGED <<file, scratch, tmp, held, clock, call, req, local, bound, ghost>>

-----------------------------------------------------------------------------
(***************************************************************************)
(* The world outside, and the process that stops                           *)
(***************************************************************************)

\* The writer has digested the bytes it will describe, and has not stat'ed the
\* file yet: PutObject after its rename, the self-copy after HeadObject.
MidWrite(p) == \/ pc[p] = "restat"
               \/ req[p].op = "COPY" /\ req[p].key = req[p].src

\* Goroutine p has the file of key k open: to copy it, to send it, or sending it.
\* (A file of the same bytes that was replaced meanwhile passes for it.)
Copies(p, k) == /\ pc[p] \in {"lock", "stage"} /\ call[p] = "put"
                /\ req[p].op = "COPY" /\ req[p].src = k
                /\ file[k] # NoFile /\ input[p] = file[k].body
Opens(p, k)  == /\ pc[p] = "unlock" /\ call[p] = "get" /\ req[p].key = k
                /\ file[k] # NoFile /\ body[p] = file[k].body
Sends(p, k)  == /\ pc[p] = "done" /\ req[p].op = "GET" /\ req[p].key = k
                /\ file[k] # NoFile /\ body[p] = file[k].body

\* The open file becomes b under them: whoever has read none of it gets b, and a
\* client that is being sent it what it was, b, or some of both.
WriteInPlace(k, b) ==
  \E early, late \in SUBSET Procs :
    /\ input' = [p \in Procs |-> IF Copies(p, k) THEN b ELSE input[p]]
    /\ body' = [p \in Procs |->
                  IF Opens(p, k) THEN b
                  ELSE IF ~Sends(p, k) \/ p \in early \/ b = file[k].body THEN body[p]
                  ELSE IF p \in late THEN Sent(p, b) ELSE Partial]

\* Somebody edits an object's file, by replacing it or in place, or drops one in.
\* A file that changes in several writes is edited several times.
EditFile(k) ==
  /\ edits < MaxEdits
  /\ \A p \in Procs : MidWrite(p) /\ req[p].key = k => EditsMidWrite
  /\ Crowded \/ \A p, q \in Procs : pc[p] # "idle" /\ pc[q] # "idle" => p = q
  /\ Tick
  /\ \E b \in Bodies :
       /\ SetFile(k, [body |-> b, mtime |-> clock',
                      meta |-> IF file[k] = NoFile THEN Sniffed ELSE file[k].meta])
       /\ UNCHANGED <<input, body>> \/ WriteInPlace(k, b)
  /\ edits' = edits + 1
  /\ UNCHANGED <<disk, tmp, held, pc, call, req, res, sc, info, begun, crashes>>

\* The process is killed and started again: goroutines and locks are gone, the
\* disk stays, with staged files nobody will look at.
Crash ==
  /\ crashes < MaxCrashes
  /\ crashes' = crashes + 1
  /\ held' = Locks!Free
  /\ pc' = Stopped.pc /\ call' = Stopped.call /\ req' = Stopped.req
  /\ res' = Stopped.res /\ input' = Stopped.input /\ sc' = Stopped.sc
  /\ info' = Stopped.info /\ body' = Stopped.body
  /\ fd' = Stopped.fd /\ tmp' = Stopped.tmp
  /\ seen' = Stopped.seen /\ before' = Stopped.before
  /\ UNCHANGED <<file, side, scratch, clock, begun, edits>>

\* A run's requests are all answered.
Rest ==
  /\ begun = MaxRequests /\ \A p \in Procs : pc[p] = "idle"
  /\ UNCHANGED vars

\* What a goroutine does on its own once it has a request.
Step(p) ==
  \/ Unlock(p)   \/ Respond(p)
  \/ OpenSource(p) \/ Stage(p) \/ StageFails(p) \/ Rename(p) \/ Restat(p)
  \/ Stat(p) \/ ReadSide(p) \/ Digest(p) \/ Open(p)
  \/ Truncate(p) \/ Write(p) \/ Publish(p)
  \/ Unlink(p) \/ RemoveSide(p)

Next ==
  \/ \E p \in Procs : Begin(p) \/ LockKey(p) \/ Step(p)
  \/ \E k \in Keys : EditFile(k)
  \/ Crash
  \/ Rest

Spec == Init /\ [][Next]_vars

\* The step is up to the client: it may never send the rest of its body, or read
\* the rest of the answer, and the server sets no time limit on either.
AwaitsClient(p) == pc[p] = "done" \/ (pc[p] = "stage" /\ req[p].op = "PUT")

\* Goroutines are scheduled fairly, and a keyed lock is granted to whoever
\* waits for it (EveryLockIsGranted of KeyedLock).  Clients promise nothing.
Fairness == \A p \in Procs :
  WF_vars(~AwaitsClient(p) /\ Step(p)) /\ SF_vars(LockKey(p))

FairSpec == Spec /\ Fairness

-----------------------------------------------------------------------------
(***************************************************************************)
(* Properties                                                              *)
(***************************************************************************)

Calls == {"none", "put", "get", "head", "delete", "setsum", "selfcopy", "list"}

PCs == {"idle", "lock", "source", "stage", "rename", "restat", "stat", "readside",
        "digest", "open", "trunc", "write", "publish", "unlink", "rmside",
        "unlock", "done"}

\* What CachedDigestCorrect needs of the environment and of the requests: two
\* writes never get the same mtime, nobody edits a file in the instant between
\* PutObject's rename and its stat, and nobody copies an object onto itself.
FineClock  == \A d \in ClockSteps : d > 0
QuietEdits == EditsMidWrite = FALSE
NoSelfCopy == \A r \in Requests : ~(r.op = "COPY" /\ r.key = r.src /\ r.replace)

\* Every variable has its type; in particular what is linked at an object's
\* path is always a whole body (README: "a concurrent reader never sees a
\* partial object").
TypeOK ==
  /\ file \in [Keys -> Version \cup {NoFile}]
  /\ side \in [Keys -> Sidecars \cup {Absent, Empty, Garbled}]
  /\ scratch \in [Keys -> Sidecars \cup {Absent, Empty, Garbled}]
  /\ fd \in [Procs -> {"none", "scratch", "side", "gone"}]
  /\ tmp \in [Procs -> Staged \cup {NoFile}]
  /\ held \in [Keys -> [Procs -> {"free", "R", "W"}]]
  /\ clock \in Nat
  /\ pc \in [Procs -> PCs]
  /\ call \in [Procs -> Calls]
  /\ req \in [Procs -> Request]
  /\ res \in [Procs -> {"ok", "NoSuchKey", "BadDigest", "InvalidArgument", "error"}]
  /\ input \in [Procs -> Bodies \cup {None}]
  /\ sc \in [Procs -> Sidecars]
  /\ info \in [Procs -> Sidecars]
  /\ body \in [Procs -> Bodies \cup {None, Partial}]
  /\ begun \in Nat /\ edits \in Nat /\ crashes \in Nat
  /\ seen \in [Procs -> SUBSET (Version \cup {NoFile})]
  /\ before \in [Procs -> Version \cup {NoFile}]

\* What readSidecar makes of the sidecar of an object that exists.
Current(k) == Reconcile(Parse(side[k]), Size[file[k].body], file[k].mtime)

\* A digest that readSidecar trusts is the digest of the bytes in the file,
\* whatever listings, edits and crashes came between writing one and the other
\* (meta.go: "The object file itself is authoritative").
CachedDigestCorrect ==
  \A k \in Keys :
    file[k] # NoFile => Current(k).etag \in {None, file[k].body}

Answered(p, op) == pc[p] = "done" /\ req[p].op = op

\* GET sends the whole of one version that was the object's content at some time
\* during the request.  It sends less, or a mixture, only if the object changed
\* under it: between HeadObject, which the Content-Length is from, and GetObject,
\* or by an edit of the very file it reads.  And it answers NoSuchKey only when
\* there was a time without an object.
ServedWhole ==
  \A p \in Procs : Answered(p, "GET") =>
    /\ res[p] = "ok" =>
         \/ body[p] \in Bodies /\ \E v \in seen[p] \ {NoFile} : v.body = body[p]
         \/ body[p] = Partial /\ \E v, w \in seen[p] \ {NoFile} : v.body # w.body
    /\ res[p] = "NoSuchKey" => NoFile \in seen[p]

\* HEAD answers with the digest and the metadata of one and the same version:
\* the two files of an object change as one under its lock.
InfoCoherent ==
  \A p \in Procs : Answered(p, "HEAD") =>
    /\ res[p] = "ok" => \E v \in seen[p] \ {NoFile} :
                          info[p].etag = v.body /\ info[p].meta = v.meta
    /\ res[p] = "NoSuchKey" => NoFile \in seen[p]

\* No request is at work on key k.
Quiet(k) ==
  \A p \in Procs : pc[p] # "idle" => k \notin {req[p].key, req[p].src}

\* Between requests an object has the metadata declared with its bytes, its
\* digest is right or unknown, and an object that is gone left no sidecar for
\* the next file of that name to inherit.
QuietKeyCoherent ==
  \A k \in Keys : Quiet(k) =>
    IF file[k] = NoFile THEN side[k] = Absent
    ELSE /\ Current(k).etag \in {None, file[k].body}
         /\ \/ Current(k).meta = file[k].meta
            \/ Current(k).meta = None /\ file[k].meta = Sniffed

\* What a call answers that has not taken effect, that wrote, that failed.
NotYet  == [answered |-> FALSE]
Written == [written |-> TRUE]
Failed  == [written |-> FALSE]

\* What the store call of a goroutine has decided to return: a HeadObject once it
\* has its ObjectInfo, a write once the file is linked or gone.
Answer(p) ==
  LET sidecar == pc[p] \in {"trunc", "write", "publish"}
      ends(r) == pc[p] = "unlock" /\ res[p] = r
  IN CASE call[p] = "head" /\ (sidecar \/ ends("ok")) ->
            [body |-> info[p].etag, mtime |-> info[p].mtime, meta |-> info[p].meta]
       [] call[p] = "get" /\ ends("ok") -> body[p]
       [] call[p] \in {"head", "get"} /\ ends("NoSuchKey") -> NoFile
       [] call[p] = "put" /\ (sidecar \/ pc[p] = "restat" \/ ends("ok")) -> Written
       [] call[p] = "selfcopy" /\ ends("ok") -> Written
       [] call[p] = "delete" /\ pc[p] \in {"rmside", "unlock"} -> Written
       [] call[p] \in {"put", "selfcopy"} /\ pc[p] = "unlock" /\ res[p] # "ok" ->
            Failed
       [] OTHER -> NotYet

Atomic == INSTANCE AtomicObjects WITH
  Versions <- Version, NoObject <- NoFile,
  Unanswered <- NotYet, Done <- Written, Refused <- Failed,
  object <- file, answer <- [p \in Procs |-> Answer(p)]

\* Every store call takes effect in one instant between its lock and its
\* unlock: PutObject, DeleteObject and CopyObject write an object as a whole, and
\* what HeadObject and GetObject answer was all there in that instant, although
\* an object is two files and readers write sidecars too.  Steps after an outside
\* edit or a crash are not held to it.
ImplementsAtomicObjects ==
  Atomic!Init /\ [][edits' = 0 /\ crashes' = 0 => Atomic!Next]_Atomic!vars

\* A client has stopped sending a body for the object p works on or copies, and
\* its PUT holds the lock meanwhile (fs.go 143 and 194).
Stalled(p) == \E q \in Procs : /\ pc[q] = "stage" /\ req[q].op = "PUT"
                              /\ req[q].key \in {req[p].key, req[p].src}

\* Every request is answered unless a client stalls a PUT of its key for ever: no
\* lock is left behind on an error path and no request waits for itself.
EveryRequestEnds ==
  \A p \in Procs : []<>(pc[p] \in {"idle", "done"}) \/ <>[]Stalled(p)

\* Unless others worked on the key, a PUT rejected for its digest leaves the
\* object as it was (README: "a rolled-back write on mismatch").
RejectedPutRollsBack ==
  \A p \in Procs :
    /\ Answered(p, "PUT") /\ res[p] = "BadDigest"
    /\ \A q \in Procs \ {p} : pc[q] = "idle"
    => file[req[p].key] = before[p]
=============================================================================
