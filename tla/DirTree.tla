------------------------------- MODULE DirTree -------------------------------
(***************************************************************************)
(* The mirror layout of internal/store: one bucket as a directory tree,    *)
(* with the operations that shape it - CreateBucket, DeleteBucket,         *)
(* PutObject, CompleteMultipartUpload, DeleteObject (fs.go, multipart.go)  *)
(* - and the walk of ListObjects over it (list.go), one action per         *)
(* file-system call.                                                       *)
(*                                                                         *)
(* The object lock is per key, and the operations of different keys meet   *)
(* in the directories their paths share, which no lock covers: PutObject   *)
(* makes ancestors one by one while DeleteObject prunes them one by one.   *)
(* Bytes and metadata of an object are ObjectStore's concern.              *)
(***************************************************************************)
EXTENDS Naturals, Sequences, SequencesExt, Lexicographic

CONSTANTS
  Procs,       \* goroutines serving requests
  Keys,        \* [path, marker]: path is a sequence of segments
  AutoCreate,  \* Options.AutoCreateBuckets
  Workloads,   \* what clients ask for, over which objects (see below)
  MaxRequests  \* bound of a run

\* The first n segments of a path, and the path of the directory it is in.
Prefix(path, n) == SubSeq(path, 1, n)
Parent(path) == Front(path)

\* The bucket itself is the empty path.
Paths == UNION {Prefixes(k.path) : k \in Keys}

KeyOps    == {"PUT", "COMPLETE", "DELETE"}
BucketOps == {"CREATE", "RMBUCKET", "LIST"}

\* whole: the body of a PUT arrives to its end.
Request == [op : KeyOps \cup BucketOps, key : Keys, whole : BOOLEAN]

Workload == [bucket : BOOLEAN,          \* the bucket exists at start
             stored : SUBSET Keys,      \* with these objects and markers
             asked : SUBSET Request]

ASSUME KeysType == /\ Keys # {} /\ Keys \subseteq [path : Seq(Nat), marker : BOOLEAN]
                   /\ \A k \in Keys : k.path # <<>>
ASSUME WorkloadsType == Workloads \subseteq Workload
ASSUME AutoCreateType == AutoCreate \in BOOLEAN
\* What is stored at start is in a bucket, and nothing is below an object.
ASSUME StoredFit ==
  \A w \in Workloads :
    /\ w.stored # {} => w.bucket
    /\ \A j, k \in w.stored : j # k /\ ~j.marker => ~IsPrefix(j.path, k.path)

VARIABLES
  tree,    \* what is at each path: "none", "dir" or "file"
  side,    \* the keys that have a sidecar
  held,    \* the object locks, as NamedLocks keeps them
  pc, req, res,
  at,      \* how many segments of the path the current call covers
  todo,    \* a walk's entries still to visit
  found,   \* a listing's entries to resolve
  listed,  \* the keys a listing answers with
  asked, begun,
  content, \* history: keys put in place and not removed by their own DELETE
  always,  \* history: keys in content ever since the request began
  ever     \* history: keys in content at some time since it began

local == <<res, at, todo, found, listed>>
bound == <<asked, begun>>
ghost == <<content, always, ever>>
vars  == <<tree, side, held, pc, req, local, bound, ghost>>

Locks == INSTANCE NamedLocks WITH Names <- Keys

-----------------------------------------------------------------------------

Path(p) == req[p].key.path
Marker(p) == req[p].key.marker

Children(path) == {c \in Paths : c # <<>> /\ Parent(c) = path /\ tree[c] # "none"}

\* os.Remove succeeds on a file and on an empty directory.
Removable(path) == tree[path] = "file" \/ (tree[path] = "dir" /\ Children(path) = {})

Goto(p, l) == pc' = [pc EXCEPT ![p] = l]

SetContent(c) ==
  /\ content' = c
  /\ always' = [q \in Procs |-> always[q] \cap c]
  /\ ever' = [q \in Procs |-> ever[q] \cup c]

\* The call ends with answer r, before its lock was taken or after.
Finish(p, r) == /\ Goto(p, "done") /\ res' = [res EXCEPT ![p] = r]
Fail(p, r)   == /\ Goto(p, "unlock") /\ res' = [res EXCEPT ![p] = r]

\* WalkDir visits paths in the order of their components.
Earliest(entries) == {e \in entries : \A f \in entries : ~Precedes(f.path, e.path)}

-----------------------------------------------------------------------------
(***************************************************************************)
(* Requests and locks                                                      *)
(***************************************************************************)

Stored(w) == [path \in Paths |->
  IF path = <<>> THEN (IF w.bucket THEN "dir" ELSE "none")
  ELSE IF [path |-> path, marker |-> FALSE] \in w.stored THEN "file"
  ELSE IF \E k \in w.stored : IsPrefix(path, k.path) THEN "dir"
  ELSE "none"]

\* Keys that a DELETE is taking away.
Leaving == {req[p].key : p \in {q \in Procs : pc[q] # "idle" /\ req[q].op = "DELETE"}}

AnyRequest == CHOOSE r \in Request : TRUE

Init ==
  /\ \E w \in Workloads :
       tree = Stored(w) /\ side = w.stored /\ content = w.stored /\ asked = w.asked
  /\ held = Locks!Free
  /\ pc = [p \in Procs |-> "idle"]
  /\ req = [p \in Procs |-> AnyRequest]
  /\ res = [p \in Procs |-> "ok"]
  /\ at = [p \in Procs |-> 0]
  /\ todo = [p \in Procs |-> {}] /\ found = [p \in Procs |-> {}]
  /\ listed = [p \in Procs |-> {}]
  /\ always = [p \in Procs |-> {}] /\ ever = [p \in Procs |-> {}]
  /\ begun = 0

\* A request arrives.  CompleteMultipartUpload never looks at the bucket.
Begin(p) ==
  /\ pc[p] = "idle" /\ begun < MaxRequests
  /\ \E r \in asked :
       /\ req' = [req EXCEPT ![p] = r]
       /\ Goto(p, CASE r.op = "CREATE" -> "create"
                    [] r.op = "COMPLETE" -> "lock"
                    [] OTHER -> "exists")
  /\ begun' = begun + 1
  /\ always' = [always EXCEPT ![p] = content]
  /\ ever' = [ever EXCEPT ![p] = content \cup Leaving]
  /\ UNCHANGED <<tree, side, held, local, asked, content>>

Respond(p) ==
  /\ pc[p] = "done"
  /\ Goto(p, "idle")
  /\ req' = [req EXCEPT ![p] = AnyRequest]
  /\ res' = [res EXCEPT ![p] = "ok"]
  /\ at' = [at EXCEPT ![p] = 0]
  /\ listed' = [listed EXCEPT ![p] = {}]
  /\ todo' = [todo EXCEPT ![p] = {}] /\ found' = [found EXCEPT ![p] = {}]
  /\ always' = [always EXCEPT ![p] = {}] /\ ever' = [ever EXCEPT ![p] = {}]
  /\ UNCHANGED <<tree, side, held, bound, content>>

\* bucketExists, and where each operation goes from there.
BucketExists(p) ==
  /\ pc[p] = "exists"
  /\ \/ /\ tree[<<>>] = "dir"
        /\ Goto(p, CASE req[p].op = "RMBUCKET" -> "readdir"
                     [] req[p].op = "LIST" -> "walk"
                     [] OTHER -> "lock")
        /\ todo' = [todo EXCEPT ![p] =
             IF req[p].op = "LIST" THEN {[path |-> <<>>, kind |-> "read"]} ELSE {}]
        /\ UNCHANGED res
     \/ /\ tree[<<>>] # "dir" /\ req[p].op = "PUT" /\ AutoCreate
        /\ Goto(p, "create") /\ UNCHANGED <<res, todo>>
     \/ /\ tree[<<>>] # "dir" /\ ~(req[p].op = "PUT" /\ AutoCreate)
        /\ Finish(p, "NoSuchBucket") /\ UNCHANGED todo
  /\ UNCHANGED <<tree, side, held, req, at, found, listed, bound, ghost>>

LockKey(p) ==
  /\ pc[p] = "lock"
  /\ Locks!Grant(p, req[p].key, "W")
  /\ Goto(p, IF req[p].op = "DELETE" THEN "unlink" ELSE "check")
  /\ at' = [at EXCEPT ![p] = 1]
  /\ UNCHANGED <<tree, side, req, res, todo, found, listed, bound, ghost>>

Unlock(p) ==
  /\ pc[p] = "unlock"
  /\ Locks!Drop(p, req[p].key)
  /\ Goto(p, "done")
  /\ UNCHANGED <<tree, side, req, local, bound, ghost>>

-----------------------------------------------------------------------------
(***************************************************************************)
(* Buckets                                                                 *)
(***************************************************************************)

\* CreateBucket, called by a client or by a PutObject that found no bucket:
\* the stat ...
StatBucket(p) ==
  /\ pc[p] = "create"
  /\ IF tree[<<>>] = "dir" THEN Finish(p, "BucketAlreadyExists")
     ELSE Goto(p, "mkbucket") /\ UNCHANGED res
  /\ UNCHANGED <<tree, side, held, req, at, todo, found, listed, bound, ghost>>

\* ... and MkdirAll, which does not mind a bucket made meanwhile.
MakeBucket(p) ==
  /\ pc[p] = "mkbucket"
  /\ tree' = [tree EXCEPT ![<<>>] = "dir"]
  /\ Goto(p, IF req[p].op = "PUT" THEN "lock" ELSE "done")
  /\ UNCHANGED <<side, held, req, local, bound, ghost>>

\* DeleteBucket: os.ReadDir ...
ReadBucket(p) ==
  /\ pc[p] = "readdir"
  /\ CASE tree[<<>>] # "dir" -> Finish(p, "error")
       [] tree[<<>>] = "dir" /\ Children(<<>>) # {} -> Finish(p, "BucketNotEmpty")
       [] OTHER -> Goto(p, "rmbucket") /\ UNCHANGED res
  /\ UNCHANGED <<tree, side, held, req, at, todo, found, listed, bound, ghost>>

\* ... os.Remove, which fails on a bucket filled meanwhile ...
RemoveBucket(p) ==
  /\ pc[p] = "rmbucket"
  /\ IF Removable(<<>>)
       THEN /\ tree' = [tree EXCEPT ![<<>>] = "none"]
            /\ Goto(p, "rmmeta") /\ UNCHANGED res
       ELSE Finish(p, "error") /\ UNCHANGED tree
  /\ UNCHANGED <<side, held, req, at, todo, found, listed, bound, ghost>>

\* ... and removeBucketMeta, whatever the bucket is by now.
RemoveBucketMeta(p) ==
  /\ pc[p] = "rmmeta"
  /\ side' = {}
  /\ Goto(p, "done")
  /\ UNCHANGED <<tree, held, req, local, bound, ghost>>

-----------------------------------------------------------------------------
(***************************************************************************)
(* PutObject and CompleteMultipartUpload                                   *)
(***************************************************************************)

\* checkConflicts, one os.Stat per component of the path: a file above, or a
\* directory where the object should go.
CheckConflicts(p) ==
  /\ pc[p] = "check"
  /\ LET here == tree[Prefix(Path(p), at[p])]
         last == at[p] = Len(Path(p))
     IN IF here = (IF last THEN "dir" ELSE "file") /\ ~(last /\ Marker(p))
          THEN Fail(p, "KeyDirConflict") /\ UNCHANGED at
          ELSE /\ Goto(p, IF last THEN "mkdir" ELSE "check")
               /\ at' = [at EXCEPT ![p] = IF last THEN 0 ELSE @ + 1]
               /\ UNCHANGED res
  /\ UNCHANGED <<tree, side, held, req, todo, found, listed, bound, ghost>>

\* An object needs its parent, a marker is a directory itself.
Depth(p) == IF Marker(p) THEN Len(Path(p)) ELSE Len(Path(p)) - 1

\* os.MkdirAll from the bucket down, the bucket included.  What is there may
\* have changed since checkConflicts, and since the component above was made.
MakeDirs(p) ==
  /\ pc[p] = "mkdir"
  /\ LET path == Prefix(Path(p), at[p])
         made == /\ at' = [at EXCEPT ![p] = @ + 1]
                 /\ Goto(p, IF at[p] < Depth(p) THEN "mkdir"
                            ELSE IF Marker(p) THEN "restat" ELSE "stage")
                 /\ UNCHANGED res
     IN \/ tree[path] = "dir" /\ made /\ UNCHANGED tree
        \/ /\ tree[path] = "none"
           /\ path = <<>> \/ tree[Parent(path)] = "dir"
           /\ tree' = [tree EXCEPT ![path] = "dir"] /\ made
        \/ /\ tree[path] = "file" \/ (path # <<>> /\ tree[Parent(path)] = "file")
           /\ Fail(p, IF Marker(p) THEN "error" ELSE "KeyDirConflict")
           /\ UNCHANGED <<tree, at>>
        \/ /\ path # <<>> /\ tree[path] = "none" /\ tree[Parent(path)] = "none"
           /\ Fail(p, "error")
           /\ UNCHANGED <<tree, at>>
  /\ UNCHANGED <<side, held, req, todo, found, listed, bound, ghost>>

\* The body is copied to .locals3/tmp, or cannot be read to its end: the
\* directories stay.
Stage(p) ==
  /\ pc[p] = "stage"
  /\ IF req[p].whole THEN Goto(p, "rename") /\ UNCHANGED res ELSE Fail(p, "error")
  /\ UNCHANGED <<tree, side, held, req, at, todo, found, listed, bound, ghost>>

\* Mutant: an object is written under a path that may be gone.
Rename_Unchecked(p) ==
  /\ pc[p] = "rename"
  /\ tree' = [tree EXCEPT ![Path(p)] = "file"]
  /\ SetContent(content \cup {req[p].key})
  /\ Goto(p, "restat")
  /\ UNCHANGED <<side, held, req, local, bound>>

\* os.Rename needs a parent directory, and replaces a file but no directory.
Rename(p) ==
  /\ pc[p] = "rename"
  /\ IF tree[Parent(Path(p))] = "dir" /\ tree[Path(p)] # "dir"
       THEN /\ tree' = [tree EXCEPT ![Path(p)] = "file"]
            /\ SetContent(content \cup {req[p].key})
            /\ Goto(p, "restat") /\ UNCHANGED res
       ELSE Fail(p, "error") /\ UNCHANGED <<tree, ghost>>
  /\ UNCHANGED <<side, held, req, at, todo, found, listed, bound>>

Restat(p) ==
  /\ pc[p] = "restat"
  /\ IF tree[Path(p)] = "none" THEN Fail(p, "error")
     ELSE Goto(p, "side") /\ UNCHANGED res
  /\ UNCHANGED <<tree, side, held, req, at, todo, found, listed, bound, ghost>>

\* writeSidecar.  It is what makes a marker of a directory.
WriteSide(p) ==
  /\ pc[p] = "side"
  /\ side' = side \cup {req[p].key}
  /\ IF Marker(p) THEN SetContent(content \cup {req[p].key}) ELSE UNCHANGED ghost
  /\ Goto(p, "unlock")
  /\ UNCHANGED <<tree, held, req, local, bound>>

-----------------------------------------------------------------------------
(***************************************************************************)
(* DeleteObject                                                            *)
(***************************************************************************)

\* For a marker, os.Remove whatever comes of it; for an object, os.Stat.
Unlink(p) ==
  /\ pc[p] = "unlink"
  /\ \/ /\ Marker(p)
        /\ tree' = IF Removable(Path(p)) THEN [tree EXCEPT ![Path(p)] = "none"]
                   ELSE tree
        /\ SetContent(content \ {req[p].key})
        /\ Goto(p, "rmside")
     \/ /\ ~Marker(p)
        /\ Goto(p, IF tree[Path(p)] = "file" THEN "remove" ELSE "rmside")
        /\ UNCHANGED <<tree, ghost>>
  /\ UNCHANGED <<side, held, req, local, bound>>

\* os.Remove of the object.
RemoveFile(p) ==
  /\ pc[p] = "remove"
  /\ IF Removable(Path(p))
       THEN /\ tree' = [tree EXCEPT ![Path(p)] = "none"]
            /\ SetContent(content \ {req[p].key})
            /\ Goto(p, "rmside") /\ UNCHANGED res
       ELSE Fail(p, "error") /\ UNCHANGED <<tree, ghost>>
  /\ UNCHANGED <<side, held, req, at, todo, found, listed, bound>>

RemoveSide(p) ==
  /\ pc[p] = "rmside"
  /\ side' = side \ {req[p].key}
  /\ at' = [at EXCEPT ![p] = Len(Path(p)) - 1]
  /\ Goto(p, "prune")
  /\ UNCHANGED <<tree, held, req, res, todo, found, listed, bound, ghost>>

\* Mutant: a directory is removed with what it holds.
Prune_All(p) ==
  /\ pc[p] = "prune"
  /\ LET dir == Prefix(Path(p), at[p]) IN
     IF at[p] > 0
       THEN /\ tree' = [path \in Paths |->
                          IF IsPrefix(dir, path) THEN "none" ELSE tree[path]]
            /\ at' = [at EXCEPT ![p] = @ - 1] /\ UNCHANGED pc
       ELSE Goto(p, "unlock") /\ UNCHANGED <<tree, at>>
  /\ UNCHANGED <<side, held, req, res, todo, found, listed, bound, ghost>>

\* Mutant: only the innermost directory is pruned.
Prune_Once(p) ==
  /\ pc[p] = "prune"
  /\ LET dir == Prefix(Path(p), at[p]) IN
     /\ IF at[p] > 0 /\ Removable(dir)
          THEN tree' = [tree EXCEPT ![dir] = "none"]
          ELSE UNCHANGED tree
     /\ Goto(p, "unlock") /\ UNCHANGED at
  /\ UNCHANGED <<side, held, req, res, todo, found, listed, bound, ghost>>

\* pruneEmptyDirs, upwards until os.Remove fails or the bucket is reached.
Prune(p) ==
  /\ pc[p] = "prune"
  /\ LET dir == Prefix(Path(p), at[p]) IN
     IF at[p] > 0 /\ Removable(dir)
       THEN /\ tree' = [tree EXCEPT ![dir] = "none"]
            /\ at' = [at EXCEPT ![p] = @ - 1] /\ UNCHANGED pc
       ELSE Goto(p, "unlock") /\ UNCHANGED <<tree, at>>
  /\ UNCHANGED <<side, held, req, res, todo, found, listed, bound, ghost>>

-----------------------------------------------------------------------------
(***************************************************************************)
(* ListObjects                                                             *)
(***************************************************************************)

EntriesOf(dir) == {[path |-> c, kind |-> "dir"] : c \in {d \in Children(dir) : tree[d] = "dir"}}
FilesOf(dir)   == {[path |-> c, marker |-> FALSE] :
                     c \in {d \in Children(dir) : tree[d] = "file"}}
MarkersOf(dir) == {k \in side : k.marker /\ k.path = dir}

\* Mutant: a directory that is only a prefix is listed like a marker.
VisitDir_NoMarker(p, e) ==
  /\ e.kind = "dir"
  /\ todo' = [todo EXCEPT ![p] = (@ \ {e}) \cup {[e EXCEPT !.kind = "read"]}]
  /\ found' = [found EXCEPT ![p] = @ \cup {[path |-> e.path, marker |-> TRUE]}]
  /\ UNCHANGED <<pc, res>>

\* WalkDir calls back for a directory, which is a key if it has a sidecar ...
VisitDir(p, e) ==
  /\ e.kind = "dir"
  /\ todo' = [todo EXCEPT ![p] = (@ \ {e}) \cup {[e EXCEPT !.kind = "read"]}]
  /\ found' = [found EXCEPT ![p] = @ \cup MarkersOf(e.path)]
  /\ UNCHANGED <<pc, res>>

\* ... and then reads it; a directory that is gone is skipped, one that became
\* a file ends the listing.
ReadDir(p, e) ==
  /\ e.kind = "read"
  /\ \/ /\ tree[e.path] = "dir"
        /\ todo' = [todo EXCEPT ![p] = (@ \ {e}) \cup EntriesOf(e.path)]
        /\ found' = [found EXCEPT ![p] = @ \cup FilesOf(e.path)]
        /\ UNCHANGED <<pc, res>>
     \/ /\ tree[e.path] = "none"
        /\ todo' = [todo EXCEPT ![p] = @ \ {e}]
        /\ UNCHANGED <<pc, res, found>>
     \/ /\ tree[e.path] = "file"
        /\ Finish(p, "error")
        /\ UNCHANGED <<todo, found>>

Walk(p) ==
  /\ pc[p] = "walk"
  /\ IF todo[p] = {} THEN Goto(p, "info") /\ UNCHANGED <<res, todo, found>>
     ELSE \E e \in Earliest(todo[p]) : VisitDir(p, e) \/ ReadDir(p, e)
  /\ UNCHANGED <<tree, side, held, req, at, listed, bound, ghost>>

\* infoForListing, one entry after another: what vanished is left out, and an
\* object whose path is a directory by now cannot be digested.
ListInfo(p) ==
  /\ pc[p] = "info"
  /\ IF found[p] = {} THEN Goto(p, "done") /\ UNCHANGED <<res, found, listed>>
     ELSE \E e \in Earliest(found[p]) :
          LET gone == tree[e.path] = "none"
              under == \E n \in 1 .. Len(e.path) - 1 : tree[Prefix(e.path, n)] = "file"
          IN IF under \/ (tree[e.path] = "dir" /\ ~e.marker)
               THEN Finish(p, "error") /\ UNCHANGED <<found, listed>>
               ELSE /\ found' = [found EXCEPT ![p] = @ \ {e}]
                    /\ listed' = [listed EXCEPT ![p] = IF gone THEN @ ELSE @ \cup {e}]
                    /\ UNCHANGED <<pc, res>>
  /\ UNCHANGED <<tree, side, held, req, at, todo, bound, ghost>>

-----------------------------------------------------------------------------

\* A run's requests are all answered.
Rest ==
  /\ begun = MaxRequests /\ \A p \in Procs : pc[p] = "idle"
  /\ UNCHANGED vars

Step(p) ==
  \/ Respond(p) \/ BucketExists(p) \/ LockKey(p) \/ Unlock(p)
  \/ StatBucket(p) \/ MakeBucket(p)
  \/ ReadBucket(p) \/ RemoveBucket(p) \/ RemoveBucketMeta(p)
  \/ CheckConflicts(p) \/ MakeDirs(p) \/ Stage(p) \/ Rename(p) \/ Restat(p)
  \/ WriteSide(p)
  \/ Unlink(p) \/ RemoveFile(p) \/ RemoveSide(p) \/ Prune(p)
  \/ Walk(p) \/ ListInfo(p)

Next == (\E p \in Procs : Begin(p) \/ Step(p)) \/ Rest

Spec == Init /\ [][Next]_vars

-----------------------------------------------------------------------------
(***************************************************************************)
(* Properties                                                              *)
(***************************************************************************)

PCs == {"idle", "exists", "lock", "create", "mkbucket", "readdir", "rmbucket",
        "rmmeta", "check", "mkdir", "stage", "rename", "restat", "side", "unlink",
        "remove", "rmside", "prune", "walk", "info", "unlock", "done"}

Answers == {"ok", "NoSuchBucket", "BucketAlreadyExists", "BucketNotEmpty",
            "KeyDirConflict", "error"}

\* Every variable has its type, and what is in the tree hangs in a directory.
TypeOK ==
  /\ tree \in [Paths -> {"none", "dir", "file"}]
  /\ \A path \in Paths \ {<<>>} : tree[path] # "none" => tree[Parent(path)] = "dir"
  /\ side \subseteq Keys
  /\ held \in [Keys -> [Procs -> {"free", "R", "W"}]]
  /\ pc \in [Procs -> PCs]
  /\ req \in [Procs -> Request]
  /\ res \in [Procs -> Answers]
  /\ at \in [Procs -> Nat]
  /\ todo \in [Procs -> SUBSET [path : Paths, kind : {"dir", "read"}]]
  /\ found \in [Procs -> SUBSET [path : Paths, marker : BOOLEAN]]
  /\ listed \in [Procs -> SUBSET [path : Paths, marker : BOOLEAN]]
  /\ begun \in Nat
  /\ content \subseteq Keys
  /\ always \in [Procs -> SUBSET Keys] /\ ever \in [Procs -> SUBSET Keys]

\* What was put in place stays in place until a DELETE of its own key: neither
\* another key's DELETE, pruning, nor the removal of a bucket takes an object
\* or a marker away (fs.go: pruneEmptyDirs stops "at the first non-empty
\* directory").
DeleteOnlyOwn ==
  \A k \in content : tree[k.path] = (IF k.marker THEN "dir" ELSE "file")

\* With no request at work, every directory is on the way to an object or is a
\* marker: "directories left behind by a delete" are all removed, whatever
\* PUTs and DELETEs crossed each other in them.
NoStrayDirs ==
  (\A p \in Procs : pc[p] = "idle") =>
    \A path \in Paths \ {<<>>} :
      tree[path] = "dir" /\ Children(path) = {}
        => [path |-> path, marker |-> TRUE] \in side

\* A listing that succeeds has every key that was there all the time, and none
\* that never was, though it looks at one directory at a time and takes no
\* lock (list.go: "A file that vanished mid-listing is not an error").
ListIsHonest ==
  \A p \in Procs : pc[p] = "done" /\ req[p].op = "LIST" /\ res[p] = "ok" =>
    always[p] \subseteq listed[p] /\ listed[p] \subseteq ever[p]
=============================================================================
