------------------------------ MODULE Multipart ------------------------------
(***************************************************************************)
(* Multipart uploads (store/multipart.go, s3api/multipart.go), one action  *)
(* per file-system call or lock operation.                                 *)
(*                                                                         *)
(* An upload is a directory with a manifest and one file per staged part.  *)
(* Only the assembly of the object runs under a lock, the object's own;    *)
(* everything that touches the directory runs under none, so an UploadPart *)
(* or an Abort may fall between any two steps of a Complete.               *)
(*                                                                         *)
(* The bucket exists and the keys are ordinary keys directly under it.     *)
(* Other writers of the object are a step or two each: ObjectStore has     *)
(* them in full, and the listings, which write sidecars without a lock.    *)
(* Here a listing comes in where it meets the writer of a sidecar.         *)
(* A body stands for its own digest.                                       *)
(***************************************************************************)
EXTENDS Naturals, Sequences, FiniteSets

CONSTANTS
  Procs,      \* goroutines serving requests
  Keys,
  Uploads,    \* upload ids
  Numbers,    \* part numbers
  Bodies,     \* contents of parts
  Small,      \* those below MinPartSize
  Nothing,    \* no manifest, no part, no file
  Requests,   \* the requests clients make
  Seeds,      \* the uploads, parts staged, a run may start with
  LateParts,  \* whether a client uploads parts of an upload it is completing
  MaxRequests, MaxCrashes \* bounds of a run

\* One entry of a CompleteMultipartUpload body.
Wanted == [number : Numbers, etag : Bodies]

Request == [op : {"CREATE", "UPLOAD", "COMPLETE", "ABORT", "PUT", "DELETE"},
            key : Keys, number : Numbers, body : Bodies, parts : Seq(Wanted)]

ASSUME NumbersAreNat == Numbers \subseteq Nat \ {0}
ASSUME SmallBodies   == Small \subseteq Bodies
ASSUME NothingIsNone == /\ Nothing \notin Bodies /\ Nothing \notin Keys
                        /\ Nothing \notin [bytes : Seq(Bodies), mtime : Nat]
ASSUME RequestsType  == Requests \subseteq Request /\ Requests # {}
ASSUME SeedsType     ==
  Seeds \subseteq [id : Uploads, key : Keys, parts : [Numbers -> Bodies \cup {Nothing}]]

VARIABLES
  exists,   \* which upload directories exist
  manifest, \* manifest.json of an upload: its key
  part,     \* part[u][n]: the body of part n
  object,   \* <bucket>/<key>: [bytes, mtime]; bytes is a sequence of bodies
  side,     \* its sidecar: [etag, mtime]; etag is a sequence of digests
  held,     \* the object locks, as NamedLocks keeps them
  clock,    \* mtimes given out
  pc, req, id, res,
  todo,     \* the directory entries a goroutine has read and not handled yet
  small,    \* the parts a Complete has found below MinPartSize
  staged,   \* byNumber of a Complete, or the single staged body of an Upload
  stamp,    \* the mtime a Complete has found its object with
  copied,   \* the parts a Complete has copied
  begun, crashes, \* how much of a run's bounds is used
  known,    \* history: the ids clients were told
  ended,    \* history: the ids whose end a client was told of
  completed,\* history: how many Completes of an id were answered with success
  wrote     \* history: whether a Complete replaced the object

upload == <<exists, manifest, part>>
bucket == <<object, side, held, clock>>
local  == <<todo, small, staged, stamp, copied>>
bound  == <<begun, crashes>>
ghost  == <<known, ended, completed, wrote>>
vars   == <<upload, bucket, pc, req, id, res, local, bound, ghost>>

Locks == INSTANCE NamedLocks WITH Names <- Keys

NoParts == [n \in Numbers |-> Nothing]

Goto(p, l) == pc' = [pc EXCEPT ![p] = l]

Done(p, r) == Goto(p, "done") /\ res' = [res EXCEPT ![p] = r]

\* Mutant: an early return that skips the unlock.
Fail_KeepsLock(p, r) == Goto(p, "done") /\ res' = [res EXCEPT ![p] = r]

\* An error inside Complete's lock section; the deferred unlock runs.
Fail(p, r) == Goto(p, "unlock") /\ res' = [res EXCEPT ![p] = r]

\* loadUpload: there is a readable manifest, and it is for this key.
Loaded(p) == manifest[id[p]] = req[p].key

\* The names in an upload's directory; 0 stands for manifest.json.
Entries(u) == {n \in Numbers : part[u][n] # Nothing}
              \cup (IF manifest[u] = Nothing THEN {} ELSE {0})

Smallest(S) == CHOOSE n \in S : \A m \in S : n <= m

-----------------------------------------------------------------------------

\* A run starts with an upload that may have parts already.
Init ==
  /\ \E s \in Seeds :
       /\ exists = [u \in Uploads |-> u = s.id]
       /\ manifest = [u \in Uploads |-> IF u = s.id THEN s.key ELSE Nothing]
       /\ part = [u \in Uploads |-> IF u = s.id THEN s.parts ELSE NoParts]
       /\ known = {s.id}
  /\ object = [k \in Keys |-> Nothing]
  /\ side = [k \in Keys |-> Nothing]
  /\ held = Locks!Free
  /\ clock = 0
  /\ pc = [p \in Procs |-> "idle"]
  /\ req \in [Procs -> {CHOOSE r \in Requests : TRUE}]
  /\ id \in [Procs -> {CHOOSE u \in Uploads : TRUE}]
  /\ res = [p \in Procs |-> "ok"]
  /\ todo = [p \in Procs |-> {}]
  /\ small = [p \in Procs |-> {}]
  /\ staged = [p \in Procs |-> NoParts]
  /\ stamp = [p \in Procs |-> 0]
  /\ copied = [p \in Procs |-> << >>]
  /\ begun = 0 /\ crashes = 0
  /\ ended = {} /\ completed = [u \in Uploads |-> 0]
  /\ wrote = [p \in Procs |-> FALSE]

\* Unless LateParts, a client does not upload a part of an upload while it is
\* completing it.
Orderly(op, u) ==
  LateParts \/ \A q \in Procs :
    pc[q] # "idle" /\ id[q] = u => {op, req[q].op} # {"UPLOAD", "COMPLETE"}

FirstStep(op) == CASE op = "CREATE" -> "mkdir"
                   [] op = "PUT" -> "put"
                   [] op = "DELETE" -> "delete"
                   [] OTHER -> "load"

Begin(p) ==
  /\ pc[p] = "idle" /\ begun < MaxRequests
  /\ \E r \in Requests, u \in Uploads :
       /\ IF r.op = "CREATE" THEN u \notin known /\ ~exists[u]
          ELSE u \in known
       /\ \A q \in Procs : pc[q] # "idle" /\ req[q].op = "CREATE" => id[q] # u
       /\ Orderly(r.op, u)
       /\ req' = [req EXCEPT ![p] = r]
       /\ id' = [id EXCEPT ![p] = u]
       /\ Goto(p, FirstStep(r.op))
  /\ begun' = begun + 1
  /\ UNCHANGED <<upload, bucket, res, local, crashes, ghost>>

\* The answer is out: clients learn of ids made and of uploads that ended.
Respond(p) ==
  /\ pc[p] = "done"
  /\ LET u == id[p]
         ok(op) == req[p].op = op /\ res[p] = "ok"
     IN /\ known' = IF ok("CREATE") THEN known \cup {u} ELSE known
        /\ ended' = IF ok("COMPLETE") \/ ok("ABORT") THEN ended \cup {u} ELSE ended
        /\ completed' = IF ok("COMPLETE") THEN [completed EXCEPT ![u] = @ + 1]
                        ELSE completed
  /\ Goto(p, "idle")
  /\ res' = [res EXCEPT ![p] = "ok"]
  /\ todo' = [todo EXCEPT ![p] = {}]
  /\ small' = [small EXCEPT ![p] = {}]
  /\ staged' = [staged EXCEPT ![p] = NoParts]
  /\ stamp' = [stamp EXCEPT ![p] = 0]
  /\ copied' = [copied EXCEPT ![p] = << >>]
  /\ wrote' = [wrote EXCEPT ![p] = FALSE]
  /\ UNCHANGED <<upload, bucket, req, id, bound>>

-----------------------------------------------------------------------------
(***************************************************************************)
(* CreateMultipartUpload, UploadPart, AbortMultipartUpload                 *)
(***************************************************************************)

MakeDir(p) ==
  /\ pc[p] = "mkdir"
  /\ exists' = [exists EXCEPT ![id[p]] = TRUE]
  /\ Goto(p, "manifest")
  /\ UNCHANGED <<manifest, part, bucket, req, id, res, local, bound, ghost>>

WriteManifest(p) ==
  /\ pc[p] = "manifest"
  /\ manifest' = [manifest EXCEPT ![id[p]] = req[p].key]
  /\ Done(p, "ok")
  /\ UNCHANGED <<exists, part, bucket, req, id, local, bound, ghost>>

\* loadUpload, the first thing every other call does.
Load(p) ==
  /\ pc[p] = "load"
  /\ IF ~Loaded(p) THEN Done(p, "NoSuchUpload")
     ELSE CASE req[p].op = "UPLOAD" -> Goto(p, "stage") /\ UNCHANGED res
            [] req[p].op = "ABORT" -> Goto(p, "scan") /\ UNCHANGED res
            [] req[p].op = "COMPLETE" ->
                 IF req[p].parts = << >> THEN Done(p, "InvalidPart")
                 ELSE Goto(p, "list") /\ UNCHANGED res
  /\ UNCHANGED <<upload, bucket, req, id, local, bound, ghost>>

\* UploadPart copies the body into .locals3/tmp.
Stage(p) ==
  /\ pc[p] = "stage"
  /\ \/ /\ staged' = [staged EXCEPT ![p] = [NoParts EXCEPT ![req[p].number] = req[p].body]]
        /\ Goto(p, "rename")
        /\ UNCHANGED res
     \/ Done(p, "error") /\ UNCHANGED staged
  /\ UNCHANGED <<upload, bucket, req, id, todo, small, stamp, copied, bound, ghost>>

\* The rename into the directory, which may be gone by now.
RenamePart(p) ==
  /\ pc[p] = "rename"
  /\ LET n == req[p].number IN
       IF exists[id[p]]
         THEN /\ part' = [part EXCEPT ![id[p]][n] = staged[p][n]]
              /\ Goto(p, "stat")
              /\ UNCHANGED res
         ELSE Done(p, "error") /\ UNCHANGED part
  /\ UNCHANGED <<exists, manifest, bucket, req, id, local, bound, ghost>>

StatPart(p) ==
  /\ pc[p] = "stat"
  /\ Done(p, IF part[id[p]][req[p].number] = Nothing THEN "error" ELSE "ok")
  /\ UNCHANGED <<upload, bucket, req, id, local, bound, ghost>>

\* os.RemoveAll reads the directory ...
Scan(p) ==
  /\ pc[p] = "scan"
  /\ todo' = [todo EXCEPT ![p] = Entries(id[p])]
  /\ Goto(p, "remove")
  /\ UNCHANGED <<upload, bucket, req, id, res, small, staged, stamp, copied, bound, ghost>>

\* ... removes the entries it has read, in the directory's order ...
RemoveEntry(p) ==
  /\ pc[p] = "remove" /\ todo[p] # {}
  /\ \E n \in todo[p] :
       /\ todo' = [todo EXCEPT ![p] = @ \ {n}]
       /\ IF n = 0
            THEN manifest' = [manifest EXCEPT ![id[p]] = Nothing] /\ UNCHANGED part
            ELSE part' = [part EXCEPT ![id[p]][n] = Nothing] /\ UNCHANGED manifest
  /\ UNCHANGED <<exists, bucket, pc, req, id, res, small, staged, stamp, copied, bound, ghost>>

\* Mutant: the error of RemoveAll is dropped.
RemoveDir_Ignored(p) ==
  /\ pc[p] = "remove" /\ todo[p] = {}
  /\ exists' = [exists EXCEPT ![id[p]] = Entries(id[p]) # {}]
  /\ IF req[p].op = "COMPLETE" THEN Fail(p, "ok") ELSE Done(p, "ok")
  /\ UNCHANGED <<manifest, part, bucket, req, id, local, bound, ghost>>

\* ... and then the directory, unless something has come into it since.
RemoveDir(p) ==
  /\ pc[p] = "remove" /\ todo[p] = {}
  /\ LET r == IF Entries(id[p]) = {} THEN "ok" ELSE "error" IN
       /\ exists' = IF r = "ok" THEN [exists EXCEPT ![id[p]] = FALSE] ELSE exists
       /\ IF req[p].op = "COMPLETE" THEN Fail(p, r) ELSE Done(p, r)
  /\ UNCHANGED <<manifest, part, bucket, req, id, local, bound, ghost>>

-----------------------------------------------------------------------------
(***************************************************************************)
(* CompleteMultipartUpload                                                 *)
(***************************************************************************)

\* ListParts loads the manifest again and reads the directory.
List(p) ==
  /\ pc[p] = "list"
  /\ IF ~Loaded(p) THEN Done(p, "NoSuchUpload") /\ UNCHANGED todo
     ELSE /\ todo' = [todo EXCEPT ![p] = Entries(id[p]) \ {0}]
          /\ Goto(p, "info")
          /\ UNCHANGED res
  /\ UNCHANGED <<upload, bucket, req, id, small, staged, stamp, copied, bound, ghost>>

\* partInfo of the next entry: its size ...
PartInfo(p) ==
  /\ pc[p] = "info" /\ todo[p] # {}
  /\ LET n == Smallest(todo[p])
         b == part[id[p]][n]
     IN IF b = Nothing
          THEN todo' = [todo EXCEPT ![p] = @ \ {n}] /\ UNCHANGED <<pc, small>>
          ELSE /\ small' = [small EXCEPT ![p] = IF b \in Small THEN @ \cup {n} ELSE @ \ {n}]
               /\ Goto(p, "digest")
               /\ UNCHANGED todo
  /\ UNCHANGED <<upload, bucket, req, id, res, staged, stamp, copied, bound, ghost>>

\* ... and the digest of what is there by then.  A part that has gone is left out.
DigestPart(p) ==
  /\ pc[p] = "digest"
  /\ LET n == Smallest(todo[p]) IN
       /\ staged' = [staged EXCEPT ![p][n] = part[id[p]][n]]
       /\ todo' = [todo EXCEPT ![p] = @ \ {n}]
  /\ Goto(p, "info")
  /\ UNCHANGED <<upload, bucket, req, id, res, small, stamp, copied, bound, ghost>>

\* What is wrong with entry i of the list: the first complaint wins.
Complaint(p, i) ==
  LET w == req[p].parts[i] IN
  CASE i > 1 /\ w.number <= req[p].parts[i-1].number -> "InvalidPartOrder"
    [] staged[p][w.number] # w.etag -> "InvalidPart"
    [] i < Len(req[p].parts) /\ w.number \in small[p] -> "EntityTooSmall"
    [] OTHER -> "ok"

\* Mutant: the last part is measured, the others are not.
Validate_SizesLast(p) ==
  /\ pc[p] = "info" /\ todo[p] = {}
  /\ LET bad == {i \in DOMAIN req[p].parts :
                   Complaint(p, i) \in {"InvalidPartOrder", "InvalidPart"}} IN
       IF bad = {} THEN Goto(p, "lock") /\ UNCHANGED res
       ELSE Done(p, Complaint(p, Smallest(bad)))
  /\ UNCHANGED <<upload, bucket, req, id, local, bound, ghost>>

\* Everything is validated before anything is written.
Validate(p) ==
  /\ pc[p] = "info" /\ todo[p] = {}
  /\ LET bad == {i \in DOMAIN req[p].parts : Complaint(p, i) # "ok"} IN
       IF bad = {} THEN Goto(p, "lock") /\ UNCHANGED res
       ELSE Done(p, Complaint(p, Smallest(bad)))
  /\ UNCHANGED <<upload, bucket, req, id, local, bound, ghost>>

\* Mutant: the assembly takes the lock for reading.
Lock_Shared(p) ==
  /\ pc[p] = "lock"
  /\ Locks!Grant(p, req[p].key, "R")
  /\ Goto(p, "copy")
  /\ UNCHANGED <<upload, object, side, clock, req, id, res, local, bound, ghost>>

Lock(p) ==
  /\ pc[p] = "lock"
  /\ Locks!Grant(p, req[p].key, "W")
  /\ Goto(p, "copy")
  /\ UNCHANGED <<upload, object, side, clock, req, id, res, local, bound, ghost>>

\* Mutant: a part that is gone is not noticed.
Copy_Unchecked(p) ==
  /\ pc[p] = "copy" /\ Len(copied[p]) < Len(req[p].parts)
  /\ LET b == part[id[p]][req[p].parts[Len(copied[p]) + 1].number] IN
       copied' = [copied EXCEPT ![p] = Append(@, b)]
  /\ UNCHANGED <<upload, bucket, pc, req, id, res, todo, small, staged, stamp, bound, ghost>>

\* Mutant: the parts are appended to the object itself, not to a staged copy.
Copy_InPlace(p) ==
  /\ pc[p] = "copy" /\ Len(copied[p]) < Len(req[p].parts)
  /\ LET b == part[id[p]][req[p].parts[Len(copied[p]) + 1].number] IN
       IF b = Nothing THEN Fail(p, "error") /\ UNCHANGED <<copied, object, clock, wrote>>
       ELSE /\ copied' = [copied EXCEPT ![p] = Append(@, b)]
            /\ clock' = clock + 1
            /\ object' = [object EXCEPT ![req[p].key] =
                            [bytes |-> copied'[p], mtime |-> clock']]
            /\ wrote' = [wrote EXCEPT ![p] = TRUE]
            /\ UNCHANGED <<pc, res>>
  /\ UNCHANGED <<upload, side, held, req, id, todo, small, staged, stamp, bound,
                 known, ended, completed>>

\* Opens the next part by its name, and copies what is there now.
Copy(p) ==
  /\ pc[p] = "copy" /\ Len(copied[p]) < Len(req[p].parts)
  /\ LET b == part[id[p]][req[p].parts[Len(copied[p]) + 1].number] IN
       IF b = Nothing THEN Fail(p, "error") /\ UNCHANGED copied
       ELSE /\ copied' = [copied EXCEPT ![p] = Append(@, b)]
            /\ UNCHANGED <<pc, res>>
  /\ UNCHANGED <<upload, bucket, req, id, todo, small, staged, stamp, bound, ghost>>

\* The staged copy is renamed over the object.
Publish(p) ==
  /\ pc[p] = "copy" /\ Len(copied[p]) = Len(req[p].parts)
  /\ clock' = clock + 1
  /\ object' = [object EXCEPT ![req[p].key] = [bytes |-> copied[p], mtime |-> clock']]
  /\ wrote' = [wrote EXCEPT ![p] = TRUE]
  /\ Goto(p, "sidecar")
  /\ UNCHANGED <<upload, side, held, req, id, res, local, bound, known, ended, completed>>

\* The object's mtime now.
StatObject(p) ==
  /\ pc[p] = "sidecar"
  /\ LET v == object[req[p].key] IN
       IF v = Nothing THEN Fail(p, "error") /\ UNCHANGED stamp
       ELSE stamp' = [stamp EXCEPT ![p] = v.mtime] /\ Goto(p, "describe") /\ UNCHANGED res
  /\ UNCHANGED <<upload, bucket, req, id, todo, small, staged, copied, bound, ghost>>

\* What is in key k's sidecar once writeSidecar has answered r.  A listing that
\* resolves k at the same time writes <key>.json.tmp without the lock: its own
\* text, of version v of the object, may be the one renamed, or a mixture of both,
\* which is no sidecar; and when it is the first to rename, the writer's rename
\* fails.  MkdirAll or WriteFile may fail with the old sidecar in place.  (Anywhere
\* else a listing leaves a sidecar that is right or distrusted.)
WriteSidecar(k, own, v, r) ==
  LET listed == {[etag |-> o.bytes, mtime |-> o.mtime] : o \in {v} \ {Nothing}}
      kept == IF r = "ok" THEN {} ELSE {side[k]}
  IN \E s \in {own, Nothing} \cup listed \cup kept : side' = [side EXCEPT ![k] = s]

\* The ETag is made of the digests that ListParts found.
Describe(p) ==
  /\ pc[p] = "describe"
  /\ LET k == req[p].key
         e == [i \in DOMAIN req[p].parts |-> staged[p][req[p].parts[i].number]]
         own == [etag |-> e, mtime |-> stamp[p]]
     IN \/ WriteSidecar(k, own, object[k], "ok") /\ Goto(p, "scan") /\ UNCHANGED res
        \/ WriteSidecar(k, own, object[k], "error") /\ Fail(p, "error")
  /\ UNCHANGED <<upload, object, held, clock, req, id, local, bound, ghost>>

Unlock(p) ==
  /\ pc[p] = "unlock"
  /\ Locks!Drop(p, req[p].key)
  /\ Goto(p, "done")
  /\ UNCHANGED <<upload, object, side, clock, req, id, res, local, bound, ghost>>

-----------------------------------------------------------------------------
(***************************************************************************)
(* The rest of the store, and the process that stops                       *)
(***************************************************************************)

NobodyHolds(k) == \A p \in Procs : held[k][p] = "free"

\* PutObject of the same key: the lock, and the client's body copied under it ...
LockPut(p) ==
  /\ pc[p] = "put"
  /\ Locks!Grant(p, req[p].key, "W")
  /\ Goto(p, "body")
  /\ UNCHANGED <<upload, object, side, clock, req, id, res, local, bound, ghost>>

\* ... until it ends or breaks off; then, in one step, the object and its sidecar,
\* and the deferred unlock.
Put(p) ==
  /\ pc[p] = "body"
  /\ LET k == req[p].key
         v == [bytes |-> <<req[p].body>>, mtime |-> clock + 1]
         own == [etag |-> v.bytes, mtime |-> v.mtime]
     IN \/ Done(p, "error") /\ UNCHANGED <<object, side, clock>>
        \/ \E r \in {"ok", "error"} :
             /\ clock' = clock + 1
             /\ object' = [object EXCEPT ![k] = v]
             /\ WriteSidecar(k, own, v, r)
             /\ Done(p, r)
  /\ Locks!Drop(p, req[p].key)
  /\ UNCHANGED <<upload, req, id, local, bound, ghost>>

Delete(p) ==
  /\ pc[p] = "delete"
  /\ LET k == req[p].key IN
       /\ NobodyHolds(k)
       /\ object' = [object EXCEPT ![k] = Nothing]
       /\ side' = [side EXCEPT ![k] = Nothing]
  /\ Done(p, "ok")
  /\ UNCHANGED <<upload, held, clock, req, id, local, bound, ghost>>

\* The process is killed and started again: the disk stays.
Crash ==
  /\ crashes < MaxCrashes
  /\ crashes' = crashes + 1
  /\ held' = Locks!Free
  /\ pc' = [p \in Procs |-> "idle"]
  /\ res' = [p \in Procs |-> "ok"]
  /\ todo' = [p \in Procs |-> {}]
  /\ small' = [p \in Procs |-> {}]
  /\ staged' = [p \in Procs |-> NoParts]
  /\ stamp' = [p \in Procs |-> 0]
  /\ copied' = [p \in Procs |-> << >>]
  /\ wrote' = [p \in Procs |-> FALSE]
  /\ UNCHANGED <<upload, object, side, clock, req, id, begun, known, ended, completed>>

\* A run's requests are all answered.
Rest ==
  /\ begun = MaxRequests /\ \A p \in Procs : pc[p] = "idle"
  /\ UNCHANGED vars

\* What a goroutine does once it has a request, the locks aside.
Step(p) ==
  \/ Respond(p) \/ Put(p)
  \/ MakeDir(p) \/ WriteManifest(p) \/ Load(p)
  \/ Stage(p) \/ RenamePart(p) \/ StatPart(p)
  \/ Scan(p) \/ RemoveEntry(p) \/ RemoveDir(p)
  \/ List(p) \/ PartInfo(p) \/ DigestPart(p) \/ Validate(p)
  \/ Copy(p) \/ Publish(p) \/ StatObject(p) \/ Describe(p) \/ Unlock(p)

Next ==
  \/ \E p \in Procs : Begin(p) \/ Lock(p) \/ LockPut(p) \/ Delete(p) \/ Step(p)
  \/ Crash
  \/ Rest

Spec == Init /\ [][Next]_vars

\* Steps that wait for the client: to send the body of a part or an object, to
\* read the answer.  The server sets no deadline for them.
AwaitsClient(p) == pc[p] \in {"stage", "body", "done"}

\* As in ObjectStore: goroutines run, and locks that come free are granted in the
\* end.
Fairness ==
  \A p \in Procs : /\ WF_vars(~AwaitsClient(p) /\ Step(p))
                   /\ SF_vars(Lock(p) \/ LockPut(p) \/ Delete(p))

FairSpec == Spec /\ Fairness

-----------------------------------------------------------------------------
(***************************************************************************)
(* Properties                                                              *)
(***************************************************************************)

PCs == {"idle", "mkdir", "manifest", "load", "stage", "rename", "stat", "scan",
        "remove", "list", "info", "digest", "lock", "copy", "sidecar", "describe",
        "unlock", "put", "body", "delete", "done"}

Results == {"ok", "NoSuchUpload", "InvalidPart", "InvalidPartOrder",
            "EntityTooSmall", "error"}

\* Every variable has its type; what is in a part or an object is always whole
\* bodies, and an answer is one the handlers give.
TypeOK ==
  /\ exists \in [Uploads -> BOOLEAN]
  /\ manifest \in [Uploads -> Keys \cup {Nothing}]
  /\ part \in [Uploads -> [Numbers -> Bodies \cup {Nothing}]]
  /\ object \in [Keys -> [bytes : Seq(Bodies), mtime : Nat] \cup {Nothing}]
  /\ side \in [Keys -> [etag : Seq(Bodies), mtime : Nat] \cup {Nothing}]
  /\ held \in [Keys -> [Procs -> {"free", "R", "W"}]]
  /\ clock \in Nat
  /\ pc \in [Procs -> PCs]
  /\ req \in [Procs -> Requests]
  /\ id \in [Procs -> Uploads]
  /\ res \in [Procs -> Results]
  /\ todo \in [Procs -> SUBSET (Numbers \cup {0})]
  /\ small \in [Procs -> SUBSET Numbers]
  /\ staged \in [Procs -> [Numbers -> Bodies \cup {Nothing}]]
  /\ stamp \in [Procs -> Nat]
  /\ copied \in [Procs -> Seq(Bodies)]
  /\ begun \in Nat /\ crashes \in Nat
  /\ known \subseteq Uploads /\ ended \subseteq Uploads
  /\ completed \in [Uploads -> Nat]
  /\ wrote \in [Procs -> BOOLEAN]

\* A multipart ETag that readSidecar would trust is made of the digests of the
\* parts the object really consists of (multipart.go: "The result's ETag is the
\* MD5 of the concatenated raw part digests").
ETagMatchesBytes ==
  \A k \in Keys :
    object[k] # Nothing /\ side[k] # Nothing /\ side[k].mtime = object[k].mtime
      => side[k].etag = object[k].bytes

Completed(p) == pc[p] = "done" /\ req[p].op = "COMPLETE"

\* A Complete that is answered with success made the object out of the parts
\* the client listed, none but the last below the minimum size, whoever else
\* completed or aborted the upload or wrote the object meanwhile.
CompletedAsListed ==
  \A p \in Procs : Completed(p) /\ res[p] = "ok" =>
    /\ wrote[p]
    /\ copied[p] = [i \in DOMAIN req[p].parts |-> req[p].parts[i].etag]
    /\ \A i \in 1 .. Len(copied[p]) - 1 : copied[p][i] \notin Small
    /\ \A i, j \in DOMAIN req[p].parts :
         i < j => req[p].parts[i].number < req[p].parts[j].number

\* A Complete that is answered with an error has left the object alone, or has
\* replaced it by all of the parts the client listed and failed at what follows the
\* rename; a list that is refused has left it alone (multipart.go: "a bad request
\* leaves no trace").
FailedCompleteIsAllOrNothing ==
  \A p \in Procs : Completed(p) /\ res[p] # "ok" /\ wrote[p] =>
    /\ res[p] = "error"
    /\ copied[p] = [i \in DOMAIN req[p].parts |-> req[p].parts[i].etag]

\* However often and however concurrently an upload is completed, one Complete
\* at most is told it succeeded.
CompletedOnce == \A u \in Uploads : completed[u] <= 1

\* An upload whose end a client was told of is gone: no directory, no manifest
\* and no part is left behind or comes back.
EndedIsGone ==
  \A u \in ended : ~exists[u] /\ Entries(u) = {}

\* What keeps a request waiting for good: its own client, or one that does not end
\* the body of a PUT while it holds the lock of the object.
Stalled(p) ==
  \/ pc[p] = "stage"
  \/ \E q \in Procs : pc[q] = "body" /\ req[q].key = req[p].key

\* Every request comes to its answer, unless such a client keeps it waiting.
EveryRequestEnds ==
  \A p \in Procs : []<>(pc[p] \in {"idle", "done"}) \/ <>[]Stalled(p)
=============================================================================
