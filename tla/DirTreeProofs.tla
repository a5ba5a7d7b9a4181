---------------------------- MODULE DirTreeProofs ----------------------------
(***************************************************************************)
(* The requests of different keys share no lock and meet in the            *)
(* directories.  For any number of goroutines and any tree of keys:        *)
(* nothing but its own DELETE takes an object or a marker away, no         *)
(* directory is left behind, and a listing has all that was there.         *)
(***************************************************************************)
EXTENDS DirTree, TLAPS

\* The keys that a workload can bring into the bucket.
Makes(w) ==
  w.stored \cup {r.key : r \in {s \in w.asked : s.op \in {"PUT", "COMPLETE"}}}

\* Nobody deletes a key below an object or a marker, nor the marker of a name that
\* is an object.
OwnDeletes ==
  \A w \in Workloads : \A r \in w.asked : r.op = "DELETE" =>
    \A k \in Makes(w) : k # r.key =>
      ~IsStrictPrefix(k.path, r.key.path) /\ (r.key.marker => k.path # r.key.path)

Act(p) == Begin(p) \/ Step(p)

\* Where a goroutine has its key's lock.
Section(p) ==
  pc[p] \in {"check", "mkdir", "stage", "rename", "restat", "side",
             "unlink", "remove", "rmside", "prune", "unlock"}

Types ==
  /\ tree \in [Paths -> {"none", "dir", "file"}]
  /\ held \in [Keys -> [Procs -> {"free", "R", "W"}]]
  /\ pc \in [Procs -> PCs]
  /\ req \in [Procs -> Request]
  /\ at \in [Procs -> Nat]
  /\ content \subseteq Keys

LockInv ==
  \A p \in Procs : Section(p) =>
    \A q \in Procs : held[req[p].key][q] = IF q = p THEN "W" ELSE "free"

\* Which requests come to which places, and how far down the path they are.
Place(p) ==
  /\ pc[p] \in {"check", "mkdir", "stage", "rename", "restat", "side"} =>
       req[p].op \in {"PUT", "COMPLETE"}
  /\ pc[p] \in {"unlink", "remove", "rmside", "prune"} => req[p].op = "DELETE"
  /\ pc[p] = "lock" => req[p].op \in KeyOps
  /\ pc[p] = "exists" => req[p].op \notin {"CREATE", "COMPLETE"}
  /\ pc[p] \in {"stage", "rename", "remove"} => ~Marker(p)
  /\ pc[p] = "mkdir" => at[p] <= Depth(p)
  /\ pc[p] = "prune" => at[p] < Len(Path(p))

\* All that is made or asked for is in one workload.
From(w) ==
  /\ asked = w.asked /\ content \subseteq Makes(w)
  /\ \A p \in Procs : pc[p] # "idle" => req[p] \in w.asked

Source == \E w \in Workloads : From(w)

\* Whatever is in the tree hangs in a directory.
Hung == \A path \in Paths \ {<<>>} : tree[path] # "none" => tree[Parent(path)] = "dir"

FileInv ==
  \A path \in Paths : tree[path] = "file" => [path |-> path, marker |-> FALSE] \in content

\* A marker's directory is there until the sidecar is; a file that a DELETE has
\* seen is there when it removes it.
Holds(p) ==
  /\ pc[p] \in {"restat", "side"} /\ Marker(p) => tree[Path(p)] = "dir"
  /\ pc[p] = "remove" => tree[Path(p)] = "file"

PInv == Types /\ LockInv /\ (\A p \in Procs : Place(p)) /\ Source
DInv == PInv /\ Hung /\ FileInv /\ (\A p \in Procs : Holds(p)) /\ DeleteOnlyOwn

-----------------------------------------------------------------------------
(***************************************************************************)
(* Paths                                                                   *)
(***************************************************************************)

LEMMA KeyType ==
  ASSUME NEW k \in Keys
  PROVE  /\ k.path \in Seq(Nat) /\ k.path # <<>> /\ k.marker \in BOOLEAN
         /\ k = [path |-> k.path, marker |-> k.marker]
         /\ k.path \in Paths
<1>1. k \in [path : Seq(Nat), marker : BOOLEAN] /\ k.path # <<>>
  BY KeysType
<1>2. SubSeq(k.path, 1, Len(k.path)) = k.path /\ Len(k.path) \in 0 .. Len(k.path)
  BY <1>1
<1>3. k.path \in Prefixes(k.path)
  BY <1>2 DEF Prefixes
<1>. QED  BY <1>1, <1>3 DEF Paths

LEMMA PathType ==
  ASSUME NEW path \in Paths
  PROVE  path \in Seq(Nat) /\ (path # <<>> => Parent(path) \in Paths)
<1>0. PICK k \in Keys : path \in Prefixes(k.path)
  BY DEF Paths
<1>1. PICK n \in 0 .. Len(k.path) : path = SubSeq(k.path, 1, n)
  BY <1>0 DEF Prefixes
<1>2. k.path \in Seq(Nat)
  BY KeyType
<1>3. path \in Seq(Nat) /\ Len(path) = n
  BY <1>1, <1>2
<1>4. ASSUME path # <<>> PROVE Parent(path) \in Paths
  <2>1. n >= 1 /\ n - 1 \in 0 .. Len(k.path)
    BY <1>1, <1>2, <1>3, <1>4
  <2>2. Parent(path) = SubSeq(k.path, 1, n - 1)
    BY <1>1, <1>2, <1>3, <2>1 DEF Parent, Front
  <2>3. Parent(path) \in Prefixes(k.path)
    BY <2>1, <2>2 DEF Prefixes
  <2>. QED  BY <2>3 DEF Paths
<1>. QED  BY <1>3, <1>4

\* A prefix, element by element.
LEMMA PrefixPoints ==
  ASSUME NEW s \in Seq(Nat), NEW t \in Seq(Nat)
  PROVE  IsPrefix(s, t) <=> Len(s) <= Len(t) /\ \A i \in 1 .. Len(s) : s[i] = t[i]
<1>1. CASE Len(s) <= Len(t)
  <2>1. SubSeq(s, 1, Len(s)) = s
    OBVIOUS
  <2>2. PICK u \in Seq(Nat) :
          /\ u = SubSeq(t, 1, Len(s)) /\ Len(u) = Len(s)
          /\ \A i \in 1 .. Len(s) : u[i] = t[i]
    <3>1. /\ SubSeq(t, 1, Len(s)) \in Seq(Nat) /\ Len(SubSeq(t, 1, Len(s))) = Len(s)
          /\ \A i \in 1 .. Len(s) : SubSeq(t, 1, Len(s))[i] = t[i]
      BY <1>1
    <3>. QED  BY <3>1
  <2>3. IsPrefix(s, t) <=> s = u
    BY <1>1, <2>1, <2>2 DEF IsPrefix
  <2>4. s = u <=> \A i \in 1 .. Len(s) : s[i] = u[i]
    BY <2>2
  <2>. QED  BY <1>1, <2>2, <2>3, <2>4
<1>2. CASE ~(Len(s) <= Len(t))
  BY <1>2 DEF IsPrefix
<1>. QED  BY <1>1, <1>2

LEMMA ParentPrefix ==
  ASSUME NEW s \in Seq(Nat), s # <<>>, NEW t \in Seq(Nat), IsPrefix(s, t)
  PROVE  IsPrefix(Parent(s), t) /\ Len(Parent(s)) < Len(t) /\ Parent(s) \in Seq(Nat)
<1>1. /\ Parent(s) \in Seq(Nat) /\ Len(Parent(s)) = Len(s) - 1
      /\ \A i \in 1 .. Len(s) - 1 : Parent(s)[i] = s[i]
  <2>0. Len(s) \in Nat /\ Len(s) # 0
    OBVIOUS
  <2>a. Len(s) - 1 \in Nat /\ Len(s) - 1 <= Len(s)
    BY <2>0
  <2>1. PICK n \in Nat : n = Len(s) - 1 /\ n <= Len(s)
    BY <2>a
  <2>2. /\ SubSeq(s, 1, n) \in Seq(Nat) /\ Len(SubSeq(s, 1, n)) = n
        /\ \A i \in 1 .. n : SubSeq(s, 1, n)[i] = s[i]
    BY <2>1
  <2>3. Parent(s) = SubSeq(s, 1, n)
    BY <2>1 DEF Parent, Front
  <2>. QED  BY <2>1, <2>2, <2>3
<1>2. Len(s) <= Len(t) /\ \A i \in 1 .. Len(s) : s[i] = t[i]
  BY PrefixPoints
<1>3. Len(Parent(s)) <= Len(t) /\ \A i \in 1 .. Len(Parent(s)) : Parent(s)[i] = t[i]
  BY <1>1, <1>2
<1>. QED  BY <1>1, <1>2, <1>3, PrefixPoints

LEMMA InnerPrefix ==
  ASSUME NEW t \in Seq(Nat), NEW n \in Nat, n < Len(t)
  PROVE  IsStrictPrefix(Prefix(t, n), t)
<1>1. /\ Prefix(t, n) \in Seq(Nat) /\ Len(Prefix(t, n)) = n
      /\ \A i \in 1 .. n : Prefix(t, n)[i] = t[i]
  BY DEF Prefix
<1>2. IsPrefix(Prefix(t, n), t)
  BY <1>1, PrefixPoints
<1>. QED  BY <1>1, <1>2 DEF IsStrictPrefix

LEMMA StrictlyAbove ==
  ASSUME NEW s \in Seq(Nat), NEW t \in Seq(Nat), IsPrefix(s, t), s # t
  PROVE  Len(s) \in Nat /\ Len(s) < Len(t) /\ s = Prefix(t, Len(s))
<1>. DEFINE n == Len(s)
<1>1. n <= Len(t) /\ \A i \in 1 .. n : s[i] = t[i]
  BY PrefixPoints
<1>2. n # Len(t)
  BY <1>1
<1>3. SubSeq(t, 1, n) \in Seq(Nat) /\ Len(SubSeq(t, 1, n)) = n
      /\ \A i \in 1 .. n : SubSeq(t, 1, n)[i] = t[i]
  BY <1>1
<1>4. \A i \in 1 .. n : SubSeq(t, 1, n)[i] = s[i]
  BY <1>1, <1>3
<1>5. SubSeq(t, 1, n) = s
  BY <1>3, <1>4
<1>. QED  BY <1>1, <1>2, <1>5 DEF Prefix

\* The directories above a key are places of the tree.
LEMMA PrefixPath ==
  ASSUME NEW k \in Keys, NEW n \in 0 .. Len(k.path)
  PROVE  Prefix(k.path, n) \in Paths
<1>1. Prefix(k.path, n) \in Prefixes(k.path)
  BY DEF Prefix, Prefixes
<1>. QED  BY <1>1 DEF Paths

LEMMA ParentOther ==
  ASSUME NEW path \in Paths, path # <<>> PROVE Parent(path) # path
<1>1. path \in Seq(Nat)
  BY PathType
<1>2. Len(Parent(path)) = Len(path) - 1
  BY <1>1 DEF Parent, Front
<1>. QED  BY <1>1, <1>2

-----------------------------------------------------------------------------
(***************************************************************************)
(* Types, places and locks                                                 *)
(***************************************************************************)

LEMMA AnyType == AnyRequest \in Request
<1>1. PICK k \in Keys : TRUE
  BY KeysType
<1>2. [op |-> "PUT", key |-> k, whole |-> TRUE] \in Request
  BY <1>1 DEF Request, KeyOps
<1>. QED  BY <1>2 DEF AnyRequest

LEMMA ReqType ==
  ASSUME Types, NEW p \in Procs
  PROVE  /\ req[p].op \in KeyOps \cup BucketOps /\ req[p].key \in Keys
         /\ Path(p) \in Seq(Nat) /\ Path(p) # <<>> /\ Path(p) \in Paths
         /\ Marker(p) \in BOOLEAN
         /\ req[p].key = [path |-> Path(p), marker |-> Marker(p)]
<1>1. req[p] \in Request
  BY DEF Types
<1>2. req[p].key \in Keys /\ req[p].op \in KeyOps \cup BucketOps
  BY <1>1 DEF Request
<1>. QED  BY <1>2, KeyType DEF Path, Marker

\* A workload asks for requests over keys.
LEMMA WorkType ==
  ASSUME NEW w \in Workloads
  PROVE  w.asked \subseteq Request /\ w.stored \subseteq Keys /\ Makes(w) \subseteq Keys
<1>1. w.asked \subseteq Request /\ w.stored \subseteq Keys
  BY WorkloadsType DEF Workload
<1>2. \A r \in w.asked : r.key \in Keys
  BY <1>1 DEF Request
<1>. QED  BY <1>1, <1>2 DEF Makes

\* A goroutine leaves the others where they are.
LEMMA Others ==
  ASSUME Types, NEW p \in Procs, Act(p)
  PROVE  \A q \in Procs \ {p} : pc'[q] = pc[q] /\ req'[q] = req[q] /\ at'[q] = at[q]
<1>. USE DEF Types, Goto, Finish, Fail, local
<1>1. CASE Begin(p)
  <2>1. \E l, r : pc' = [pc EXCEPT ![p] = l] /\ req' = [req EXCEPT ![p] = r] /\ at' = at
    BY <1>1, Zenon DEF Begin
  <2>. QED  BY <2>1
<1>2. CASE Respond(p)
  BY <1>2 DEF Respond
<1>3. CASE BucketExists(p)
  <2>1. (\E l : pc' = [pc EXCEPT ![p] = l]) /\ req' = req /\ at' = at
    BY <1>3, Zenon DEF BucketExists
  <2>. QED  BY <2>1
<1>4. CASE LockKey(p) \/ Unlock(p)
  BY <1>4 DEF LockKey, Unlock
<1>5. CASE StatBucket(p) \/ MakeBucket(p) \/ RemoveBucket(p) \/ RemoveBucketMeta(p)
  BY <1>5 DEF StatBucket, MakeBucket, RemoveBucket, RemoveBucketMeta
<1>6. CASE ReadBucket(p)
  <2>1. (pc' = pc \/ \E l : pc' = [pc EXCEPT ![p] = l]) /\ req' = req /\ at' = at
    BY <1>6 DEF ReadBucket
  <2>. QED  BY <2>1
<1>7. CASE CheckConflicts(p)
  BY <1>7 DEF CheckConflicts
<1>8. CASE MakeDirs(p)
  BY <1>8 DEF MakeDirs
<1>9. CASE Stage(p) \/ Rename(p) \/ Restat(p) \/ WriteSide(p)
  BY <1>9 DEF Stage, Rename, Restat, WriteSide
<1>10. CASE Unlink(p) \/ RemoveFile(p) \/ RemoveSide(p) \/ Prune(p)
  BY <1>10 DEF Unlink, RemoveFile, RemoveSide, Prune
<1>11. CASE Walk(p) \/ ListInfo(p)
  BY <1>11 DEF Walk, VisitDir, ReadDir, ListInfo
<1>. QED  BY <1>1, <1>2, <1>3, <1>4, <1>5, <1>6, <1>7, <1>8, <1>9, <1>10, <1>11
          DEF Act, Step

\* One place of the tree changes at most; what it was and what it becomes.
MadeBucket == tree' = [tree EXCEPT ![<<>>] = "dir"]
MadeDir(x) == /\ tree[x] = "none" /\ (x = <<>> \/ tree[Parent(x)] = "dir")
              /\ tree' = [tree EXCEPT ![x] = "dir"]
MadeFile(x) == /\ tree[Parent(x)] = "dir" /\ tree[x] # "dir"
               /\ tree' = [tree EXCEPT ![x] = "file"]
Took(x) == Removable(x) /\ tree' = [tree EXCEPT ![x] = "none"]

Adds(p) == content' = content \cup {req[p].key}
Drops(p) == content' = content \ {req[p].key}

Change(p) ==
  \/ /\ content' = content
     /\ \/ tree' = tree
        \/ MadeBucket
        \/ Took(<<>>)
        \/ pc[p] = "mkdir" /\ at[p] <= Len(Path(p)) /\ MadeDir(Prefix(Path(p), at[p]))
        \/ pc[p] = "prune" /\ at[p] < Len(Path(p)) /\ Took(Prefix(Path(p), at[p]))
  \/ pc[p] = "rename" /\ MadeFile(Path(p)) /\ Adds(p)
  \/ pc[p] = "side" /\ Marker(p) /\ tree' = tree /\ Adds(p)
  \/ pc[p] = "unlink" /\ Marker(p) /\ (tree' = tree \/ Took(Path(p))) /\ Drops(p)
  \/ pc[p] = "remove" /\ Took(Path(p)) /\ Drops(p)

LEMMA Changes ==
  ASSUME Types, NEW p \in Procs, Act(p), Place(p)
  PROVE  Change(p)
<1>. USE DEF bound, ghost, SetContent, Adds, Drops
<1>1. CASE MakeDirs(p)
  <2>1. pc[p] = "mkdir" /\ at[p] <= Depth(p)
    BY <1>1 DEF MakeDirs, Place
  <2>2. at[p] \in Nat /\ Len(Path(p)) \in Nat
    BY ReqType DEF Types
  <2>3. at[p] <= Len(Path(p))
    BY <2>1, <2>2 DEF Depth
  <2>4. content' = content /\ (tree' = tree \/ MadeDir(Prefix(Path(p), at[p])))
    BY <1>1 DEF MakeDirs, MadeDir
  <2>. QED  BY <2>1, <2>3, <2>4 DEF Change
<1>2. CASE Rename(p)
  BY <1>2 DEF Rename, Change, MadeFile
<1>3. CASE Unlink(p)
  BY <1>3 DEF Unlink, Change, Took
<1>4. CASE RemoveFile(p)
  BY <1>4 DEF RemoveFile, Change, Took
<1>5. CASE Prune(p)
  BY <1>5 DEF Prune, Change, Took, Place
<1>6. CASE MakeBucket(p) \/ RemoveBucket(p)
  BY <1>6 DEF MakeBucket, RemoveBucket, Change, MadeBucket, Took
<1>7. CASE \/ Begin(p) \/ Respond(p) \/ BucketExists(p) \/ LockKey(p) \/ Unlock(p)
           \/ StatBucket(p) \/ ReadBucket(p) \/ RemoveBucketMeta(p)
  BY <1>7 DEF Begin, Respond, BucketExists, LockKey, Unlock, StatBucket, ReadBucket,
              RemoveBucketMeta, Change
<1>8. CASE \/ CheckConflicts(p) \/ Stage(p) \/ Restat(p) \/ WriteSide(p) \/ RemoveSide(p)
           \/ Walk(p) \/ ListInfo(p)
  BY <1>8 DEF CheckConflicts, Stage, Restat, WriteSide, RemoveSide, Walk, ListInfo, Change
<1>. QED  BY <1>1, <1>2, <1>3, <1>4, <1>5, <1>6, <1>7, <1>8 DEF Act, Step

LEMMA TypesStep ==
  ASSUME Types, NEW p \in Procs, Act(p), Place(p), Source
  PROVE  Types'
<1>. USE DEF Goto, Finish, Fail, local, bound, ghost
<1>1. tree' \in [Paths -> {"none", "dir", "file"}]
  BY Changes DEF Types, Change, MadeBucket, MadeDir, MadeFile, Took
<1>2. content' \subseteq Keys
  <2>1. req[p].key \in Keys
    BY ReqType
  <2>. QED  BY <2>1, Changes DEF Types, Change, Adds, Drops
<1>3. held' \in [Keys -> [Procs -> {"free", "R", "W"}]]
  <2>1. held' = held \/ Locks!Grant(p, req[p].key, "W") \/ Locks!Drop(p, req[p].key)
    BY DEF Act, Step, Begin, Respond, BucketExists, LockKey, Unlock, StatBucket, MakeBucket,
           ReadBucket, RemoveBucket, RemoveBucketMeta, CheckConflicts, MakeDirs, Stage,
           Rename, Restat, WriteSide, Unlink, RemoveFile, RemoveSide, Prune, Walk, ListInfo
  <2>. QED  BY <2>1 DEF Types, Locks!Grant, Locks!Drop
<1>4. req' \in [Procs -> Request]
  <2>1. asked \subseteq Request
    BY WorkType DEF Source, From
  <2>2. req' = req \/ \E r \in Request : req' = [req EXCEPT ![p] = r]
    BY <2>1, AnyType
       DEF Act, Step, Begin, Respond, BucketExists, LockKey, Unlock, StatBucket, MakeBucket,
           ReadBucket, RemoveBucket, RemoveBucketMeta, CheckConflicts, MakeDirs, Stage,
           Rename, Restat, WriteSide, Unlink, RemoveFile, RemoveSide, Prune, Walk, ListInfo
  <2>. QED  BY <2>2 DEF Types
<1>5. at' \in [Procs -> Nat]
  <2>0. PICK s \in Seq(Nat) : s = Path(p) /\ s # <<>>
    BY ReqType
  <2>a. Len(s) \in Nat /\ Len(s) # 0
    BY <2>0
  <2>b. at[p] \in Nat
    BY DEF Types
  <2>1. Len(Path(p)) - 1 \in Nat /\ at[p] \in Nat /\ (at[p] > 0 => at[p] - 1 \in Nat)
    BY <2>0, <2>a, <2>b
  <2>2. at' = at \/ \E n \in Nat : at' = [at EXCEPT ![p] = n]
    <3>1. CASE RemoveSide(p) \/ Prune(p)
      BY <2>1, <3>1 DEF RemoveSide, Prune
    <3>2. CASE CheckConflicts(p)
      <4>1. at' = at \/ at' = [at EXCEPT ![p] = 0] \/ at' = [at EXCEPT ![p] = at[p] + 1]
        BY <3>2 DEF CheckConflicts, Types
      <4>. QED  BY <2>1, <4>1
    <3>4. CASE MakeDirs(p)
      <4>1. at' = at \/ at' = [at EXCEPT ![p] = at[p] + 1]
        BY <3>4 DEF MakeDirs, Types
      <4>. QED  BY <2>1, <4>1
    <3>3. CASE ~(RemoveSide(p) \/ Prune(p) \/ CheckConflicts(p) \/ MakeDirs(p))
      BY <3>3
         DEF Act, Step, Begin, Respond, BucketExists, LockKey, Unlock, StatBucket, MakeBucket,
             ReadBucket, RemoveBucket, RemoveBucketMeta, Stage,
             Rename, Restat, WriteSide, Unlink, RemoveFile, Walk, ListInfo
    <3>. QED  BY <3>1, <3>2, <3>3, <3>4
  <2>. QED  BY <2>2 DEF Types
<1>6. pc' \in [Procs -> PCs]
  <2>. USE DEF PCs
  <2>1. pc' = pc \/ \E l \in PCs : pc' = [pc EXCEPT ![p] = l]
    <3>1. CASE Begin(p)
      <4>1. PICK r \in asked :
              pc' = [pc EXCEPT ![p] = CASE r.op = "CREATE" -> "create"
                                        [] r.op = "COMPLETE" -> "lock"
                                        [] OTHER -> "exists"]
        BY <3>1 DEF Begin
      <4>. QED  BY <4>1
    <3>2. CASE BucketExists(p)
      <4>1. \/ pc' = [pc EXCEPT ![p] = CASE req[p].op = "RMBUCKET" -> "readdir"
                                         [] req[p].op = "LIST" -> "walk"
                                         [] OTHER -> "lock"]
            \/ pc' = [pc EXCEPT ![p] = "create"]
            \/ pc' = [pc EXCEPT ![p] = "done"]
        BY <3>2, Zenon DEF BucketExists
      <4>. QED  BY <4>1
    <3>3. CASE Respond(p) \/ LockKey(p) \/ Unlock(p)
      BY <3>3 DEF Respond, LockKey, Unlock
    <3>4. CASE \/ StatBucket(p) \/ MakeBucket(p) \/ ReadBucket(p) \/ RemoveBucket(p)
               \/ RemoveBucketMeta(p)
      BY <3>4 DEF StatBucket, MakeBucket, ReadBucket, RemoveBucket, RemoveBucketMeta
    <3>5. CASE CheckConflicts(p) \/ MakeDirs(p)
      BY <3>5 DEF CheckConflicts, MakeDirs
    <3>6. CASE Stage(p) \/ Rename(p) \/ Restat(p) \/ WriteSide(p)
      BY <3>6 DEF Stage, Rename, Restat, WriteSide
    <3>7. CASE Unlink(p) \/ RemoveFile(p) \/ RemoveSide(p) \/ Prune(p)
      BY <3>7 DEF Unlink, RemoveFile, RemoveSide, Prune
    <3>8. CASE Walk(p) \/ ListInfo(p)
      BY <3>8 DEF Walk, ListInfo, VisitDir, ReadDir
    <3>. QED  BY <3>1, <3>2, <3>3, <3>4, <3>5, <3>6, <3>7, <3>8 DEF Act, Step
  <2>. QED  BY <2>1 DEF Types
<1>. QED  BY <1>1, <1>2, <1>3, <1>4, <1>5, <1>6 DEF Types

\* A goroutine is in its section from LockKey to Unlock, with one request.
LEMMA SectionStep ==
  ASSUME Types, NEW p \in Procs, Act(p)
  PROVE  \/ LockKey(p)
         \/ Unlock(p) /\ ~Section(p)'
         \/ held' = held /\ (Section(p)' => Section(p) /\ req'[p] = req[p])
<1>. USE DEF Goto, Finish, Fail, Types, Section, local, bound, ghost
<1>1. CASE Begin(p)
  <2>1. PICK l \in {"create", "lock", "exists"} : pc' = [pc EXCEPT ![p] = l]
    <3>1. PICK r \in asked :
            pc' = [pc EXCEPT ![p] = CASE r.op = "CREATE" -> "create"
                                      [] r.op = "COMPLETE" -> "lock"
                                      [] OTHER -> "exists"]
      BY <1>1 DEF Begin
    <3>. QED  BY <3>1
  <2>. QED  BY <1>1, <2>1 DEF Begin
<1>2. CASE BucketExists(p)
  BY <1>2 DEF BucketExists
<1>3. CASE Respond(p) \/ Unlock(p)
  BY <1>3 DEF Respond, Unlock
<1>4. CASE \/ StatBucket(p) \/ MakeBucket(p) \/ ReadBucket(p) \/ RemoveBucket(p)
           \/ RemoveBucketMeta(p)
  BY <1>4 DEF StatBucket, MakeBucket, ReadBucket, RemoveBucket, RemoveBucketMeta
<1>5. CASE \/ CheckConflicts(p) \/ MakeDirs(p) \/ Stage(p) \/ Rename(p) \/ Restat(p)
           \/ WriteSide(p)
  BY <1>5 DEF CheckConflicts, MakeDirs, Stage, Rename, Restat, WriteSide
<1>6. CASE Unlink(p) \/ RemoveFile(p) \/ RemoveSide(p) \/ Prune(p)
  BY <1>6 DEF Unlink, RemoveFile, RemoveSide, Prune
<1>7. CASE Walk(p) \/ ListInfo(p)
  BY <1>7 DEF Walk, ListInfo, VisitDir, ReadDir
<1>. QED  BY <1>1, <1>2, <1>3, <1>4, <1>5, <1>6, <1>7 DEF Act, Step

LEMMA LockStep ==
  ASSUME Types, LockInv, NEW p \in Procs, Act(p)
  PROVE  LockInv'
<1>0. \A q \in Procs \ {p} : (Section(q)' <=> Section(q)) /\ req'[q] = req[q]
  BY Others DEF Section
<1>k. \A q \in Procs : req[q].key \in Keys
  BY ReqType
<1>1. CASE LockKey(p)
  <2>1. req' = req /\ Locks!Grant(p, req[p].key, "W")
    BY <1>1 DEF LockKey
  <2>2. ASSUME NEW q \in Procs \ {p}, Section(q) PROVE req[q].key # req[p].key
    <3>1. held[req[q].key][q] = "W"
      BY <2>2 DEF LockInv
    <3>2. held[req[p].key][q] # "W"
      BY <2>1 DEF Locks!Grant, Locks!Compatible
    <3>. QED  BY <3>1, <3>2
  <2>3. ASSUME NEW q \in Procs \ {p}, Section(q)', NEW r \in Procs
        PROVE  held'[req'[q].key][r] = IF r = q THEN "W" ELSE "free"
    <3>1. held'[req[q].key] = held[req[q].key]
      BY <1>0, <1>k, <2>1, <2>2, <2>3 DEF Types, Locks!Grant
    <3>. QED  BY <1>0, <2>3, <3>1 DEF LockInv
  <2>4. ASSUME NEW r \in Procs
        PROVE  held'[req[p].key][r] = IF r = p THEN "W" ELSE "free"
    BY <1>k, <2>1 DEF Types, Locks!Grant, Locks!Compatible
  <2>. QED  BY <2>1, <2>3, <2>4 DEF LockInv
<1>2. CASE Unlock(p) /\ ~Section(p)'
  <2>1. req' = req /\ Locks!Drop(p, req[p].key) /\ Section(p)
    BY <1>2 DEF Unlock, Section
  <2>2. ASSUME NEW q \in Procs \ {p}, Section(q) PROVE req[q].key # req[p].key
    <3>1. held[req[q].key][q] = "W" /\ held[req[p].key][q] = "free"
      BY <2>1, <2>2 DEF LockInv
    <3>. QED  BY <3>1
  <2>3. ASSUME NEW q \in Procs \ {p}, Section(q)', NEW r \in Procs
        PROVE  held'[req'[q].key][r] = IF r = q THEN "W" ELSE "free"
    <3>1. held'[req[q].key] = held[req[q].key]
      BY <1>0, <1>k, <2>1, <2>2, <2>3 DEF Types, Locks!Drop
    <3>. QED  BY <1>0, <2>3, <3>1 DEF LockInv
  <2>. QED  BY <1>2, <2>3 DEF LockInv
<1>3. CASE held' = held /\ (Section(p)' => Section(p) /\ req'[p] = req[p])
  BY <1>0, <1>3 DEF LockInv
<1>. QED  BY <1>1, <1>2, <1>3, SectionStep

LEMMA PlaceStep ==
  ASSUME Types, NEW p \in Procs, Act(p), Place(p), Types'
  PROVE  Place(p)'
<1>. USE DEF Place, Goto, Finish, Fail, local, bound, ghost
<1>0. /\ Len(Path(p)) \in Nat /\ Len(Path(p)) # 0 /\ at[p] \in Nat
      /\ p \in DOMAIN pc /\ p \in DOMAIN req /\ p \in DOMAIN at
  <2>1. PICK s \in Seq(Nat) : s = Path(p) /\ s # <<>>
    BY ReqType
  <2>. QED  BY <2>1 DEF Types
<1>1. CASE Begin(p)
  <2>1. PICK r \in asked :
          /\ req' = [req EXCEPT ![p] = r] /\ at' = at
          /\ pc' = [pc EXCEPT ![p] = CASE r.op = "CREATE" -> "create"
                                       [] r.op = "COMPLETE" -> "lock"
                                       [] OTHER -> "exists"]
    BY <1>1 DEF Begin
  <2>2. req'[p] = r /\ pc'[p] = CASE r.op = "CREATE" -> "create"
                                  [] r.op = "COMPLETE" -> "lock"
                                  [] OTHER -> "exists"
    BY <1>0, <2>1
  <2>3. CASE r.op = "CREATE"
    BY <2>2, <2>3
  <2>4. CASE r.op = "COMPLETE"
    BY <2>2, <2>4 DEF KeyOps
  <2>5. CASE r.op \notin {"CREATE", "COMPLETE"}
    <3>1. pc'[p] = "exists"
      BY <2>2, <2>5
    <3>. QED  BY <2>2, <2>5, <3>1
  <2>. QED  BY <2>3, <2>4, <2>5
<1>2. CASE BucketExists(p)
  <2>1. /\ req' = req /\ at' = at /\ req[p].op \in KeyOps \cup BucketOps
        /\ req[p].op \notin {"CREATE", "COMPLETE"}
        /\ \/ pc'[p] = CASE req[p].op = "RMBUCKET" -> "readdir"
                         [] req[p].op = "LIST" -> "walk"
                         [] OTHER -> "lock"
           \/ pc'[p] = "create" /\ req[p].op = "PUT"
           \/ pc'[p] = "done"
    BY <1>0, <1>2, ReqType, Zenon DEF BucketExists
  <2>2. \/ pc'[p] \in {"readdir", "walk", "create", "done"}
        \/ pc'[p] = "lock" /\ req[p].op \in KeyOps
    BY <2>1 DEF KeyOps, BucketOps
  <2>. QED  BY <2>1, <2>2
<1>3. CASE Respond(p)
  BY <1>0, <1>3 DEF Respond
<1>4. CASE LockKey(p)
  <2>1. req'[p] = req[p] /\ at'[p] = 1 /\ req[p].op \in KeyOps
        /\ pc'[p] = IF req[p].op = "DELETE" THEN "unlink" ELSE "check"
    BY <1>0, <1>4 DEF LockKey
  <2>. QED  BY <2>1 DEF KeyOps
<1>5. CASE Unlock(p) \/ StatBucket(p)
  BY <1>0, <1>5 DEF Unlock, StatBucket
<1>6. CASE MakeBucket(p) \/ ReadBucket(p) \/ RemoveBucket(p) \/ RemoveBucketMeta(p)
  BY <1>0, <1>6 DEF MakeBucket, ReadBucket, RemoveBucket, RemoveBucketMeta, KeyOps
<1>7. CASE CheckConflicts(p)
  <2>1. /\ req'[p] = req[p] /\ pc[p] = "check"
        /\ pc'[p] \in {"unlock", "check"} \/ (pc'[p] = "mkdir" /\ at'[p] = 0)
    BY <1>0, <1>7 DEF CheckConflicts
  <2>2. Depth(p)' = Depth(p) /\ 0 <= Depth(p)
    BY <1>0, <2>1 DEF Depth, Path, Marker
  <2>. QED  BY <2>1, <2>2
<1>8. CASE MakeDirs(p)
  <2>1. /\ req'[p] = req[p] /\ pc[p] = "mkdir" /\ Marker(p)' = Marker(p)
        /\ \/ pc'[p] = "mkdir" /\ at[p] < Depth(p) /\ at'[p] = at[p] + 1
           \/ pc'[p] = "restat"
           \/ pc'[p] = "stage" /\ ~Marker(p)
           \/ pc'[p] = "unlock"
    BY <1>0, <1>8 DEF MakeDirs, Marker
  <2>2. Depth(p)' = Depth(p) /\ Depth(p) \in Nat
    BY <1>0, <2>1 DEF Depth, Path, Marker
  <2>. QED  BY <1>0, <2>1, <2>2
<1>9. CASE Stage(p) \/ Rename(p) \/ Restat(p) \/ WriteSide(p)
  <2>1. req'[p] = req[p] /\ Marker(p)' = Marker(p)
    BY <1>9 DEF Stage, Rename, Restat, WriteSide, Marker
  <2>. QED  BY <1>0, <1>9, <2>1 DEF Stage, Rename, Restat, WriteSide
<1>10. CASE Unlink(p) \/ RemoveFile(p)
  <2>1. req'[p] = req[p] /\ Marker(p)' = Marker(p)
    BY <1>10 DEF Unlink, RemoveFile, Marker
  <2>. QED  BY <1>0, <1>10, <2>1 DEF Unlink, RemoveFile
<1>11. CASE RemoveSide(p) \/ Prune(p)
  <2>1. req'[p] = req[p] /\ Path(p)' = Path(p)
    BY <1>11 DEF RemoveSide, Prune, Path
  <2>2. CASE RemoveSide(p)
    <3>1. pc[p] = "rmside" /\ pc'[p] = "prune" /\ at'[p] = Len(Path(p)) - 1
      BY <1>0, <2>2 DEF RemoveSide
    <3>. QED  BY <1>0, <2>1, <3>1
  <2>3. CASE Prune(p)
    <3>1. /\ pc[p] = "prune" /\ at[p] < Len(Path(p))
          /\ \/ pc'[p] = "unlock"
             \/ pc'[p] = "prune" /\ at[p] > 0 /\ at'[p] = at[p] - 1
      BY <1>0, <2>3 DEF Prune
    <3>. QED  BY <1>0, <2>1, <3>1
  <2>. QED  BY <1>11, <2>2, <2>3
<1>12. CASE Walk(p) \/ ListInfo(p)
  BY <1>0, <1>12 DEF Walk, ListInfo, VisitDir, ReadDir
<1>. QED  BY <1>1, <1>2, <1>3, <1>4, <1>5, <1>6, <1>7, <1>8, <1>9, <1>10, <1>11, <1>12
          DEF Act, Step


LEMMA SourceStep ==
  ASSUME Types, NEW p \in Procs, Act(p), Place(p), NEW w \in Workloads, From(w)
  PROVE  From(w)'
<1>1. asked' = asked
  <2>. USE DEF bound
  <2>. QED  BY DEF Act, Step, Begin, Respond, BucketExists, LockKey, Unlock, StatBucket, MakeBucket,
           ReadBucket, RemoveBucket, RemoveBucketMeta, CheckConflicts, MakeDirs, Stage,
           Rename, Restat, WriteSide, Unlink, RemoveFile, RemoveSide, Prune, Walk, ListInfo
<1>2. content' \subseteq Makes(w)
  <2>1. CASE Adds(p) /\ pc[p] \in {"rename", "side"}
    <3>1. req[p] \in w.asked /\ req[p].op \in {"PUT", "COMPLETE"}
      BY <2>1 DEF From, Place
    <3>2. req[p].key \in Makes(w)
      BY <3>1 DEF Makes
    <3>. QED  BY <2>1, <3>2 DEF Adds, From
  <2>2. CASE content' = content \/ Drops(p)
    BY <2>2 DEF Drops, From
  <2>. QED  BY <2>1, <2>2, Changes DEF Change
<1>3. \A q \in Procs : pc'[q] # "idle" => req'[q] \in w.asked
  <2>1. \A q \in Procs \ {p} : pc'[q] # "idle" => req'[q] \in w.asked
    BY Others DEF From
  <2>2. CASE Begin(p)
    <3>1. PICK r \in asked : req' = [req EXCEPT ![p] = r]
      BY <2>2 DEF Begin
    <3>2. req'[p] \in w.asked
      BY <3>1 DEF From, Types
    <3>. QED  BY <2>1, <3>2
  <2>3. CASE Respond(p)
    <3>1. pc'[p] = "idle"
      BY <2>3 DEF Respond, Goto, Types
    <3>. QED  BY <2>1, <3>1
  <2>4. CASE ~Begin(p) /\ ~Respond(p)
    <3>1. req' = req
      BY <2>4 DEF Act, Step, BucketExists, LockKey, Unlock, StatBucket, MakeBucket,
           ReadBucket, RemoveBucket, RemoveBucketMeta, CheckConflicts, MakeDirs, Stage,
           Rename, Restat, WriteSide, Unlink, RemoveFile, RemoveSide, Prune, Walk, ListInfo,
           local
    <3>2. pc[p] # "idle"
      BY <2>4 DEF Act, Step, BucketExists, LockKey, Unlock, StatBucket, MakeBucket,
           ReadBucket, RemoveBucket, RemoveBucketMeta, CheckConflicts, MakeDirs, Stage,
           Rename, Restat, WriteSide, Unlink, RemoveFile, RemoveSide, Prune, Walk, ListInfo
    <3>3. req'[p] \in w.asked
      BY <3>1, <3>2 DEF From
    <3>. QED  BY <2>1, <3>3
  <2>. QED  BY <2>2, <2>3, <2>4
<1>. QED  BY <1>1, <1>2, <1>3 DEF From

LEMMA PStep ==
  ASSUME PInv, NEW p \in Procs, Act(p)
  PROVE  PInv'
<1>1. Types /\ LockInv /\ Place(p) /\ Source
  BY DEF PInv
<1>2. Types' /\ LockInv'
  BY <1>1, TypesStep, LockStep
<1>3. Source'
  BY <1>1, SourceStep DEF Source
<1>4. Place(p)'
  BY <1>1, <1>2, PlaceStep
<1>5. \A q \in Procs \ {p} : Place(q)'
  <2>1. \A q \in Procs \ {p} : pc'[q] = pc[q] /\ req'[q] = req[q] /\ at'[q] = at[q]
    BY <1>1, Others
  <2>. QED  BY <2>1 DEF PInv, Place, Path, Marker, Depth
<1>. QED  BY <1>2, <1>3, <1>4, <1>5 DEF PInv

-----------------------------------------------------------------------------
(***************************************************************************)
(* The tree                                                                *)
(***************************************************************************)

LEMMA BucketPath == <<>> \in Paths
<1>1. PICK k \in Keys : k.path \in Seq(Nat)
  BY KeysType
<1>2. Prefix(k.path, 0) \in Paths
  BY <1>1, PrefixPath
<1>3. Prefix(k.path, 0) = <<>>
  BY <1>1 DEF Prefix
<1>. QED  BY <1>2, <1>3

\* Whatever a change puts or takes, the rest hangs in directories as before.
LEMMA HungStep ==
  ASSUME Types, Hung, NEW p \in Procs, Change(p), Place(p)
  PROVE  Hung'
<1>. USE DEF Types
<1>0. \A c \in Paths : c # <<>> => Parent(c) \in Paths /\ Parent(c) # c
  BY PathType, ParentOther
<1>1. ASSUME NEW x \in Paths, Took(x) PROVE Hung'
  <2>1. \A c \in Paths : c # <<>> /\ Parent(c) = x => tree[c] = "none"
    <3>1. CASE tree[x] = "file"
      BY <3>1 DEF Hung
    <3>2. CASE Children(x) = {}
      BY <3>2 DEF Children
    <3>. QED  BY <1>1, <3>1, <3>2 DEF Took, Removable
  <2>. QED  BY <1>0, <1>1, <2>1 DEF Hung, Took
<1>2. ASSUME NEW x \in Paths, x # <<>>, MadeFile(x) PROVE Hung'
  <2>1. \A c \in Paths : c # <<>> /\ Parent(c) = x => tree[c] = "none"
    BY <1>2 DEF Hung, MadeFile
  <2>. QED  BY <1>0, <1>2, <2>1 DEF Hung, MadeFile
<1>3. ASSUME NEW x \in Paths, MadeDir(x) PROVE Hung'
  BY <1>0, <1>3 DEF Hung, MadeDir
<1>4. CASE MadeBucket
  BY <1>0, <1>4, BucketPath DEF Hung, MadeBucket
<1>5. CASE tree' = tree
  BY <1>5 DEF Hung
<1>6. Path(p) \in Paths /\ Path(p) # <<>>
  BY ReqType
<1>7. at[p] <= Len(Path(p)) => Prefix(Path(p), at[p]) \in Paths
  <2>1. req[p].key \in Keys /\ Path(p) \in Seq(Nat) /\ at[p] \in Nat
    BY ReqType
  <2>2. Len(Path(p)) \in Nat
    BY <2>1
  <2>. QED  BY <2>1, <2>2, PrefixPath DEF Path
<1>8. at[p] < Len(Path(p)) => at[p] <= Len(Path(p))
  <2>1. Path(p) \in Seq(Nat) /\ at[p] \in Nat
    BY ReqType
  <2>2. Len(Path(p)) \in Nat
    BY <2>1
  <2>. QED  BY <2>1, <2>2
<1>. QED  BY <1>1, <1>2, <1>3, <1>4, <1>5, <1>6, <1>7, <1>8, BucketPath DEF Change

\* What the tree says of a key in content.
Kind(k) == IF k.marker THEN "dir" ELSE "file"

\* Nobody takes away what a workload's keys stand for, but the DELETE of the key.
LEMMA Lasting ==
  ASSUME OwnDeletes, PInv, NEW w \in Workloads, From(w), NEW p \in Procs, Change(p), Holds(p),
         NEW k \in Makes(w), tree[k.path] = Kind(k)
  PROVE  \/ tree'[k.path] = Kind(k)
         \/ pc[p] \in {"unlink", "remove"} /\ req[p].key = k
<1>1. /\ k \in Keys /\ k.path \in Paths /\ k.path # <<>> /\ k.marker \in BOOLEAN
      /\ k = [path |-> k.path, marker |-> k.marker]
  BY WorkType, KeyType
<1>2. /\ Path(p) \in Seq(Nat) /\ Path(p) \in Paths /\ Marker(p) \in BOOLEAN
      /\ req[p].key = [path |-> Path(p), marker |-> Marker(p)]
  BY ReqType DEF PInv
<1>3. tree \in [Paths -> {"none", "dir", "file"}] /\ Place(p)
  BY DEF PInv, Types
<1>4. ASSUME req[p].op = "DELETE", pc[p] # "idle", k # req[p].key
      PROVE  ~IsStrictPrefix(k.path, Path(p)) /\ (Marker(p) => k.path # Path(p))
  <2>1. req[p] \in w.asked
    BY <1>4 DEF From
  <2>. QED  BY <1>4, <2>1 DEF OwnDeletes, Path, Marker
<1>5. CASE tree' = tree
  BY <1>5
<1>6. CASE MadeBucket \/ Took(<<>>)
  BY <1>1, <1>3, <1>6 DEF MadeBucket, Took
<1>7. CASE MadeDir(Prefix(Path(p), at[p]))
  BY <1>1, <1>3, <1>7 DEF MadeDir, Kind
<1>8. CASE pc[p] = "rename" /\ MadeFile(Path(p))
  BY <1>1, <1>3, <1>8 DEF MadeFile, Kind
<1>9. CASE pc[p] = "unlink" /\ Marker(p) /\ Took(Path(p))
  <2>1. CASE k.path = Path(p)
    BY <1>3, <1>4, <1>9, <2>1 DEF Place
  <2>2. CASE k.path # Path(p)
    BY <1>1, <1>3, <1>9, <2>2 DEF Took
  <2>. QED  BY <2>1, <2>2
<1>10. CASE pc[p] = "remove" /\ Took(Path(p))
  <2>1. CASE k.path = Path(p)
    <3>1. ~k.marker /\ ~Marker(p)
      BY <1>3, <1>10, <2>1 DEF Kind, Holds, Place
    <3>. QED  BY <1>1, <1>2, <1>10, <2>1, <3>1
  <2>2. CASE k.path # Path(p)
    BY <1>1, <1>3, <1>10, <2>2 DEF Took
  <2>. QED  BY <2>1, <2>2
<1>11. CASE pc[p] = "prune" /\ at[p] < Len(Path(p)) /\ Took(Prefix(Path(p), at[p]))
  <2>1. at[p] \in Nat
    BY DEF PInv, Types
  <2>2. IsStrictPrefix(Prefix(Path(p), at[p]), Path(p))
    BY <1>2, <1>11, <2>1, InnerPrefix
  <2>3. k.path = Prefix(Path(p), at[p]) => FALSE
    BY <1>2, <1>3, <1>4, <1>11, <2>2 DEF Place, IsStrictPrefix
  <2>. QED  BY <1>1, <1>3, <1>11, <2>3 DEF Took
<1>. QED  BY <1>5, <1>6, <1>7, <1>8, <1>9, <1>10, <1>11 DEF Change

LEMMA FileStep ==
  ASSUME PInv, FileInv, NEW p \in Procs, Change(p)
  PROVE  FileInv'
<1>. SUFFICES ASSUME NEW path \in Paths, tree'[path] = "file"
              PROVE  [path |-> path, marker |-> FALSE] \in content'
  BY DEF FileInv
<1>1. /\ Path(p) \in Paths /\ Marker(p) \in BOOLEAN
      /\ req[p].key = [path |-> Path(p), marker |-> Marker(p)]
  BY ReqType DEF PInv
<1>2. tree \in [Paths -> {"none", "dir", "file"}] /\ Place(p)
  BY DEF PInv, Types
<1>3. tree[path] = "file" => [path |-> path, marker |-> FALSE] \in content
  BY DEF FileInv
<1>4. CASE /\ content' = content
           /\ tree' = tree \/ \E x : MadeDir(x) \/ Took(x) \/ MadeBucket
  <2>1. tree'[path] = tree[path]
    BY <1>2, <1>4 DEF MadeBucket, MadeDir, Took
  <2>. QED  BY <1>3, <1>4, <2>1
<1>5. CASE pc[p] = "rename" /\ MadeFile(Path(p)) /\ Adds(p)
  <2>1. ~Marker(p)
    BY <1>2, <1>5 DEF Place
  <2>2. CASE path = Path(p)
    BY <1>1, <1>5, <2>1, <2>2 DEF Adds
  <2>3. CASE path # Path(p)
    BY <1>2, <1>3, <1>5, <2>3 DEF Adds, MadeFile
  <2>. QED  BY <2>2, <2>3
<1>6. CASE pc[p] = "side" /\ tree' = tree /\ Adds(p)
  BY <1>3, <1>6 DEF Adds
<1>7. CASE pc[p] = "unlink" /\ Marker(p) /\ (tree' = tree \/ Took(Path(p))) /\ Drops(p)
  <2>1. tree[path] = "file"
    BY <1>1, <1>2, <1>7 DEF Took
  <2>2. [path |-> path, marker |-> FALSE] # req[p].key
    BY <1>1, <1>7
  <2>. QED  BY <1>3, <1>7, <2>1, <2>2 DEF Drops
<1>8. CASE pc[p] = "remove" /\ Took(Path(p)) /\ Drops(p)
  <2>1. tree[path] = "file" /\ path # Path(p)
    BY <1>1, <1>2, <1>8 DEF Took
  <2>2. [path |-> path, marker |-> FALSE] # req[p].key
    BY <1>1, <2>1
  <2>. QED  BY <1>3, <1>8, <2>1, <2>2 DEF Drops
<1>. QED  BY <1>4, <1>5, <1>6, <1>7, <1>8 DEF Change

LEMMA OwnStep ==
  ASSUME OwnDeletes, PInv, DeleteOnlyOwn, NEW p \in Procs, Change(p), Holds(p)
  PROVE  DeleteOnlyOwn'
<1>. SUFFICES ASSUME NEW k \in content' PROVE tree'[k.path] = Kind(k)
  BY DEF DeleteOnlyOwn, Kind
<1>1. PICK w \in Workloads : From(w)
  BY DEF PInv, Source
<1>2. req[p].key = [path |-> Path(p), marker |-> Marker(p)] /\ Path(p) \in Paths
  BY ReqType DEF PInv
<1>3. tree \in [Paths -> {"none", "dir", "file"}] /\ Place(p)
  BY DEF PInv, Types
<1>4. CASE k \in content
  <2>1. k \in Makes(w) /\ tree[k.path] = Kind(k)
    BY <1>1, <1>4 DEF From, DeleteOnlyOwn, Kind
  <2>2. CASE pc[p] \in {"unlink", "remove"} /\ req[p].key = k
    <3>1. \/ content' = content /\ pc[p] \notin {"mkdir", "prune"}
          \/ Drops(p)
      BY <2>2 DEF Change
    <3>2. CASE Drops(p)
      BY <2>2, <3>2 DEF Drops
    <3>3. CASE tree' = tree
      BY <2>1, <3>3
    <3>4. CASE MadeBucket \/ Took(<<>>)
      <4>1. k.path # <<>> /\ k.path \in Paths
        BY <1>1, <2>1, WorkType, KeyType
      <4>. QED  BY <1>3, <2>1, <3>4, <4>1 DEF MadeBucket, Took
    <3>. QED  BY <2>2, <3>2, <3>3, <3>4 DEF Change
  <2>. QED  BY <1>1, <2>1, <2>2, Lasting
<1>5. CASE k \notin content
  <2>1. k = req[p].key /\ Adds(p)
    BY <1>5 DEF Change, Adds, Drops
  <2>2. CASE pc[p] = "rename" /\ MadeFile(Path(p))
    BY <1>2, <1>3, <2>1, <2>2 DEF Place, MadeFile, Kind
  <2>3. CASE pc[p] = "side" /\ Marker(p) /\ tree' = tree
    BY <1>2, <2>1, <2>3 DEF Holds, Kind
  <2>. QED  BY <1>5, <2>1, <2>2, <2>3 DEF Change, Drops
<1>. QED  BY <1>4, <1>5

\* While a goroutine has its key's lock, what it saw at its path stays there.
LEMMA HoldsStep ==
  ASSUME OwnDeletes, DInv, NEW p \in Procs, Act(p)
  PROVE  \A q \in Procs : Holds(q)'
<1>0. PInv /\ Types /\ Place(p) /\ FileInv /\ \A q \in Procs : Holds(q)
  BY DEF DInv, PInv
<1>1. Change(p)
  BY <1>0, Changes
<1>2. PICK w \in Workloads : From(w)
  BY <1>0 DEF PInv, Source
<1>3. ASSUME NEW q \in Procs \ {p} PROVE Holds(q)'
  <2>1. pc'[q] = pc[q] /\ req'[q] = req[q]
    BY <1>0, Others
  <2>2. req[q].key \in Keys /\ req[q].key = [path |-> Path(q), marker |-> Marker(q)]
        /\ Path(q) \in Paths
    BY <1>0, ReqType
  <2>3. ASSUME pc[q] \in {"restat", "side", "remove"}, pc[p] \in {"unlink", "remove"}
        PROVE  req[p].key # req[q].key
    <3>1. Section(p) /\ Section(q)
      BY <2>3 DEF Section
    <3>2. held[req[p].key][p] = "W" /\ held[req[q].key][p] = "free"
      BY <1>0, <1>3, <3>1 DEF PInv, LockInv
    <3>. QED  BY <3>2
  <2>4. CASE pc[q] \in {"restat", "side"} /\ Marker(q)
    <3>1. req[q] \in w.asked /\ req[q].op \in {"PUT", "COMPLETE"}
      BY <1>0, <1>2, <2>4 DEF From, PInv, Place
    <3>2. req[q].key \in Makes(w)
      BY <3>1 DEF Makes
    <3>3. tree[Path(q)] = "dir"
      BY <1>0, <2>4 DEF Holds
    <3>4. tree[req[q].key.path] = Kind(req[q].key) /\ Kind(req[q].key) = "dir"
      BY <2>4, <3>3 DEF Kind, Path, Marker
    <3>5. tree'[req[q].key.path] = "dir"
      BY <1>0, <1>1, <1>2, <2>3, <2>4, <3>2, <3>4, Lasting
    <3>. QED  BY <2>1, <2>4, <3>5 DEF Holds, Path, Marker
  <2>5. CASE pc[q] = "remove"
    <3>1. tree[Path(q)] = "file" /\ ~Marker(q)
      BY <1>0, <2>5 DEF Holds, PInv, Place
    <3>2. req[q].key \in content
      BY <1>0, <2>2, <3>1, ReqType DEF FileInv
    <3>3. req[q].key \in Makes(w)
      BY <1>2, <3>2 DEF From
    <3>4. tree[req[q].key.path] = Kind(req[q].key) /\ Kind(req[q].key) = "file"
      BY <3>1 DEF Kind, Path, Marker
    <3>5. tree'[req[q].key.path] = "file"
      BY <1>0, <1>1, <1>2, <2>3, <2>5, <3>3, <3>4, Lasting
    <3>. QED  BY <2>1, <2>5, <3>5 DEF Holds, Path, Marker
  <2>. QED  BY <2>1, <2>4, <2>5 DEF Holds, Marker
<1>4. Holds(p)'
  <2>. USE DEF Goto, Finish, Fail, local, bound, ghost, Types
  <2>1. p \in DOMAIN pc /\ p \in DOMAIN req /\ Path(p) \in Seq(Nat)
    BY <1>0, ReqType
  <2>2. CASE MakeDirs(p)
    <3>1. pc[p] = "mkdir" /\ req' = req /\ (pc'[p] = "restat" => Marker(p))
      BY <1>0, <2>1, <2>2 DEF MakeDirs
    <3>2. CASE pc'[p] \in {"mkdir", "stage", "unlock"}
      BY <3>2 DEF Holds
    <3>3. CASE pc'[p] = "restat"
      <4>1. at[p] = Depth(p) /\ tree'[Prefix(Path(p), at[p])] = "dir"
        <5>1. ~(at[p] < Depth(p)) /\ at[p] <= Depth(p) /\ at[p] \in Nat
          BY <1>0, <2>1, <2>2, <3>3 DEF MakeDirs, Place
        <5>2. Len(Path(p)) \in Nat
          BY <2>1
        <5>3. at[p] = Depth(p)
          BY <3>1, <3>3, <5>1, <5>2 DEF Depth
        <5>4. Prefix(Path(p), at[p]) \in Paths
          <6>1. at[p] \in 0 .. Len(Path(p))
            <7>1. at[p] = Len(Path(p))
              BY <3>1, <3>3, <5>3 DEF Depth
            <7>. QED  BY <5>2, <7>1
          <6>2. req[p].key \in Keys
            BY <1>0, ReqType
          <6>. QED  BY <6>1, <6>2, PrefixPath DEF Path
        <5>5. LET x == Prefix(Path(p), at[p])
              IN (tree' = tree /\ tree[x] = "dir") \/ tree' = [tree EXCEPT ![x] = "dir"]
          <6>1. \/ tree[Prefix(Path(p), at[p])] = "dir" /\ tree' = tree
                \/ tree' = [tree EXCEPT ![Prefix(Path(p), at[p])] = "dir"]
                \/ pc' = [pc EXCEPT ![p] = "unlock"]
            BY <2>2 DEF MakeDirs
          <6>2. pc' # [pc EXCEPT ![p] = "unlock"]
            BY <2>1, <3>3
          <6>. QED  BY <6>1, <6>2
        <5>. QED  BY <1>0, <5>3, <5>4, <5>5
      <4>2. Prefix(Path(p), Len(Path(p))) = Path(p)
        BY <2>1 DEF Prefix
      <4>3. tree'[Path(p)] = "dir"
        BY <3>1, <3>3, <4>1, <4>2 DEF Depth
      <4>. QED  BY <3>1, <3>3, <4>3 DEF Holds, Path
    <3>. QED  BY <1>0, <2>1, <2>2, <3>2, <3>3 DEF MakeDirs
  <2>3. CASE Rename(p)
    <3>1. ~Marker(p) /\ req' = req /\ pc'[p] \in {"restat", "unlock"}
      BY <1>0, <2>1, <2>3 DEF Rename, Place
    <3>. QED  BY <3>1 DEF Holds, Marker
  <2>4. CASE Restat(p)
    BY <1>0, <2>1, <2>4 DEF Restat, Holds, Path, Marker
  <2>5. CASE Unlink(p)
    <3>1. /\ req' = req
          /\ pc'[p] = "rmside" \/ (pc'[p] = "remove" /\ tree' = tree /\ tree[Path(p)] = "file")
      BY <2>1, <2>5 DEF Unlink
    <3>. QED  BY <3>1 DEF Holds, Path
  <2>6. CASE ~(MakeDirs(p) \/ Rename(p) \/ Restat(p) \/ Unlink(p))
    <3>1. pc'[p] \notin {"restat", "side", "remove"}
      <4>1. CASE Begin(p)
        <5>1. PICK r \in asked :
                pc' = [pc EXCEPT ![p] = CASE r.op = "CREATE" -> "create"
                                          [] r.op = "COMPLETE" -> "lock"
                                          [] OTHER -> "exists"]
          BY <4>1 DEF Begin
        <5>. QED  BY <2>1, <5>1
      <4>2. CASE BucketExists(p) \/ Respond(p)
        BY <2>1, <4>2 DEF BucketExists, Respond
      <4>3. CASE LockKey(p) \/ Unlock(p) \/ StatBucket(p) \/ MakeBucket(p) \/ ReadBucket(p)
        BY <2>1, <4>3 DEF LockKey, Unlock, StatBucket, MakeBucket, ReadBucket
      <4>4. CASE \/ RemoveBucket(p) \/ RemoveBucketMeta(p) \/ CheckConflicts(p) \/ Stage(p)
                 \/ WriteSide(p) \/ RemoveFile(p) \/ RemoveSide(p)
        BY <2>1, <4>4 DEF RemoveBucket, RemoveBucketMeta, CheckConflicts, Stage, WriteSide,
                          RemoveFile, RemoveSide
      <4>5. CASE Prune(p) \/ Walk(p) \/ ListInfo(p)
        BY <2>1, <4>5 DEF Prune, Walk, ListInfo, VisitDir, ReadDir
      <4>. QED  BY <2>6, <4>1, <4>2, <4>3, <4>4, <4>5 DEF Act, Step
    <3>. QED  BY <3>1 DEF Holds
  <2>. QED  BY <2>2, <2>3, <2>4, <2>5, <2>6
<1>. QED  BY <1>3, <1>4

-----------------------------------------------------------------------------

LEMMA DInvStep ==
  ASSUME OwnDeletes, DInv, [Next]_vars
  PROVE  DInv'
<1>1. ASSUME NEW p \in Procs, Act(p) PROVE DInv'
  <2>1. PInv /\ Types /\ Hung /\ FileInv /\ DeleteOnlyOwn /\ Place(p) /\ Holds(p)
    BY DEF DInv, PInv
  <2>2. Change(p)
    BY <1>1, <2>1, Changes
  <2>. QED  BY <1>1, <2>1, <2>2, PStep, HungStep, FileStep, HoldsStep, OwnStep DEF DInv
<1>2. CASE UNCHANGED vars
  BY <1>2 DEF vars, local, bound, ghost, DInv, PInv, Types, LockInv, Section, Place, Path,
              Marker, Depth, Source, From, Hung, FileInv, Holds, DeleteOnlyOwn
<1>. QED  BY <1>1, <1>2 DEF Next, Rest, Act

LEMMA DInvInit == Init => DInv
<1>. SUFFICES ASSUME Init PROVE DInv
  OBVIOUS
<1>1. PICK w \in Workloads : tree = Stored(w) /\ content = w.stored /\ asked = w.asked
  BY DEF Init
<1>2. w.stored \subseteq Keys /\ Makes(w) \subseteq Keys /\ w.stored \subseteq Makes(w)
  BY WorkType DEF Makes
<1>f. /\ w.stored # {} => w.bucket
      /\ \A j, k \in w.stored : j # k /\ ~j.marker => ~IsPrefix(j.path, k.path)
  BY StoredFit
<1>r. \A s \in Seq(Nat) : IsPrefix(s, s)
  BY PrefixPoints
<1>3. Types
  <2>1. tree \in [Paths -> {"none", "dir", "file"}]
    BY <1>1 DEF Stored
  <2>2. req \in [Procs -> Request]
    BY AnyType DEF Init
  <2>. QED  BY <1>1, <1>2, <2>1, <2>2 DEF Init, Types, Locks!Free, PCs
<1>4. LockInv /\ (\A p \in Procs : Place(p) /\ Holds(p))
  BY DEF Init, LockInv, Section, Place, Holds
<1>5. Source
  BY <1>1, <1>2 DEF Init, Source, From
<1>6. Hung
  <2>. SUFFICES ASSUME NEW path \in Paths, path # <<>>, tree[path] # "none"
                PROVE  tree[Parent(path)] = "dir"
    BY DEF Hung
  <2>1. path \in Seq(Nat) /\ Parent(path) \in Paths
    BY PathType
  <2>2. PICK k \in w.stored : IsPrefix(path, k.path)
    <3>1. CASE [path |-> path, marker |-> FALSE] \in w.stored
      BY <1>r, <2>1, <3>1
    <3>2. CASE [path |-> path, marker |-> FALSE] \notin w.stored
      BY <1>1, <3>2 DEF Stored
    <3>. QED  BY <3>1, <3>2
  <2>3. k.path \in Seq(Nat)
    BY <1>2, KeyType
  <2>4. /\ IsPrefix(Parent(path), k.path) /\ Len(Parent(path)) < Len(k.path)
        /\ Parent(path) \in Seq(Nat)
    BY <2>1, <2>2, <2>3, ParentPrefix
  <2>5. [path |-> Parent(path), marker |-> FALSE] \notin w.stored
    <3>1. k.path # Parent(path)
      BY <2>3, <2>4
    <3>. QED  BY <1>f, <2>4, <3>1
  <2>. QED  BY <1>1, <1>f, <2>1, <2>2, <2>4, <2>5 DEF Stored
<1>7. FileInv
  BY <1>1 DEF FileInv, Stored
<1>8. DeleteOnlyOwn
  <2>. SUFFICES ASSUME NEW k \in w.stored PROVE tree[k.path] = Kind(k)
    BY <1>1 DEF DeleteOnlyOwn, Kind
  <2>1. /\ k.path \in Seq(Nat) /\ k.path # <<>> /\ k.path \in Paths /\ k.marker \in BOOLEAN
        /\ k = [path |-> k.path, marker |-> k.marker]
    BY <1>2, KeyType
  <2>2. IsPrefix(k.path, k.path)
    BY <1>r, <2>1
  <2>3. CASE ~k.marker
    BY <1>1, <2>1, <2>3 DEF Stored, Kind
  <2>4. CASE k.marker
    <3>1. [path |-> k.path, marker |-> FALSE] \notin w.stored
      <4>1. [path |-> k.path, marker |-> FALSE] # k
        BY <2>4
      <4>. QED  BY <1>f, <2>2, <4>1
    <3>. QED  BY <1>1, <2>1, <2>2, <2>4, <3>1 DEF Stored, Kind
  <2>. QED  BY <2>1, <2>3, <2>4
<1>. QED  BY <1>3, <1>4, <1>5, <1>6, <1>7, <1>8 DEF DInv, PInv

\* Where no DELETE is below an object or a marker, whatever was put in place is
\* in place until the DELETE of its own key: PutObject's MkdirAll, the pruning of
\* DeleteObject and DeleteBucket's removal cross each other under no common lock,
\* and none of them takes away or cuts off what another key put there.
THEOREM OnlyOwnDeleteTakes ==
  ASSUME OwnDeletes PROVE Spec => []DeleteOnlyOwn
<1>1. DInv /\ [Next]_vars => DInv'
  BY DInvStep
<1>2. DInv => DeleteOnlyOwn
  BY DEF DInv
<1>. QED  BY DInvInit, <1>1, <1>2, PTL DEF Spec

-----------------------------------------------------------------------------
(***************************************************************************)
(* Types of the walk, the answers and the history                          *)
(***************************************************************************)

RTypes ==
  /\ side \subseteq Keys
  /\ res \in [Procs -> Answers]
  /\ todo \in [Procs -> SUBSET [path : Paths, kind : {"dir", "read"}]]
  /\ found \in [Procs -> SUBSET [path : Paths, marker : BOOLEAN]]
  /\ listed \in [Procs -> SUBSET [path : Paths, marker : BOOLEAN]]
  /\ begun \in Nat
  /\ always \in [Procs -> SUBSET Keys] /\ ever \in [Procs -> SUBSET Keys]

\* What a walk adds is in the tree.
LEMMA WalkStep ==
  ASSUME Types, RTypes, NEW p \in Procs, Walk(p)
  PROVE  RTypes'
<1>. USE DEF Goto, Finish, bound, ghost
<1>1. CASE todo[p] = {}
  BY <1>1 DEF Walk, RTypes
<1>2. CASE todo[p] # {}
  <2>1. PICK e \in todo[p] : VisitDir(p, e) \/ ReadDir(p, e)
    BY <1>2 DEF Walk, Earliest
  <2>2. e \in [path : Paths, kind : {"dir", "read"}]
    BY DEF RTypes
  <2>3. UNCHANGED <<side, listed, begun, always, ever>>
    BY DEF Walk
  <2>4. CASE VisitDir(p, e)
    <3>1. [e EXCEPT !.kind = "read"] \in [path : Paths, kind : {"dir", "read"}]
      BY <2>2
    <3>2. MarkersOf(e.path) \subseteq [path : Paths, marker : BOOLEAN]
      BY KeyType DEF MarkersOf, RTypes
    <3>3. todo' \in [Procs -> SUBSET [path : Paths, kind : {"dir", "read"}]]
      <4>1. PICK T \in SUBSET [path : Paths, kind : {"dir", "read"}] :
              T = (todo[p] \ {e}) \cup {[e EXCEPT !.kind = "read"]}
        BY <3>1 DEF RTypes
      <4>2. todo' = [todo EXCEPT ![p] = T]
        BY <2>4, <4>1 DEF VisitDir
      <4>. QED  BY <4>2 DEF RTypes
    <3>4. found' \in [Procs -> SUBSET [path : Paths, marker : BOOLEAN]]
      <4>1. PICK F \in SUBSET [path : Paths, marker : BOOLEAN] :
              F = found[p] \cup MarkersOf(e.path)
        BY <3>2 DEF RTypes
      <4>2. found' = [found EXCEPT ![p] = F]
        BY <2>4, <4>1 DEF VisitDir
      <4>. QED  BY <4>2 DEF RTypes
    <3>. QED  BY <2>3, <2>4, <3>3, <3>4 DEF VisitDir, RTypes
  <2>5. CASE ReadDir(p, e)
    <3>1. EntriesOf(e.path) \subseteq [path : Paths, kind : {"dir", "read"}]
      BY DEF EntriesOf, Children
    <3>2. FilesOf(e.path) \subseteq [path : Paths, marker : BOOLEAN]
      <4>1. \A c \in Paths : [path |-> c, marker |-> FALSE] \in [path : Paths, marker : BOOLEAN]
        OBVIOUS
      <4>2. \A f \in FilesOf(e.path) : \E c \in Paths : f = [path |-> c, marker |-> FALSE]
        BY Zenon DEF FilesOf, Children
      <4>. QED  BY <4>1, <4>2, Zenon
    <3>3. todo' \in [Procs -> SUBSET [path : Paths, kind : {"dir", "read"}]]
      <4>1. PICK T \in SUBSET [path : Paths, kind : {"dir", "read"}] :
              T = (todo[p] \ {e}) \cup EntriesOf(e.path)
        BY <3>1 DEF RTypes
      <4>2. \/ todo' = [todo EXCEPT ![p] = T]
            \/ todo' = [todo EXCEPT ![p] = todo[p] \ {e}]
            \/ todo' = todo
        BY <2>5, <4>1 DEF ReadDir
      <4>3. todo[p] \ {e} \in SUBSET [path : Paths, kind : {"dir", "read"}]
        BY DEF RTypes
      <4>. QED  BY <4>2, <4>3 DEF RTypes
    <3>4. found' \in [Procs -> SUBSET [path : Paths, marker : BOOLEAN]]
      <4>1. PICK F \in SUBSET [path : Paths, marker : BOOLEAN] :
              F = found[p] \cup FilesOf(e.path)
        BY <3>2 DEF RTypes
      <4>2. found' = [found EXCEPT ![p] = F] \/ found' = found
        BY <2>5, <4>1 DEF ReadDir
      <4>. QED  BY <4>2 DEF RTypes
    <3>5. res' \in [Procs -> Answers]
      BY <2>5 DEF ReadDir, RTypes, Answers
    <3>. QED  BY <2>3, <3>3, <3>4, <3>5 DEF RTypes
  <2>. QED  BY <2>1, <2>4, <2>5
<1>. QED  BY <1>1, <1>2

LEMMA ListInfoStep ==
  ASSUME RTypes, NEW p \in Procs, ListInfo(p)
  PROVE  RTypes'
<1>. USE DEF Goto, Finish, bound, ghost
<1>1. CASE found[p] = {}
  BY <1>1 DEF ListInfo, RTypes
<1>2. CASE found[p] # {}
  <2>1. PICK e \in found[p] :
          \/ Finish(p, "error") /\ UNCHANGED <<found, listed>>
          \/ /\ found' = [found EXCEPT ![p] = @ \ {e}]
             /\ \/ listed' = [listed EXCEPT ![p] = @]
                \/ listed' = [listed EXCEPT ![p] = @ \cup {e}]
             /\ UNCHANGED <<pc, res>>
    BY <1>2 DEF ListInfo, Earliest
  <2>2. UNCHANGED <<side, todo, begun, always, ever>>
    BY DEF ListInfo
  <2>. QED  BY <2>1, <2>2 DEF RTypes, Answers
<1>. QED  BY <1>1, <1>2

LEMMA RTypesStep ==
  ASSUME PInv, RTypes, NEW p \in Procs, Act(p)
  PROVE  RTypes'
<1>. USE DEF Goto, Finish, Fail, local, bound, ghost
<1>0. req[p].key \in Keys /\ content \subseteq Keys /\ content' \subseteq Keys
  BY PStep, ReqType DEF PInv, Types
<1>1. CASE Begin(p)
  <2>1. Leaving \subseteq Keys
    BY ReqType DEF Leaving, PInv
  <2>2. /\ always' = [always EXCEPT ![p] = content] /\ begun' = begun + 1
        /\ ever' = [ever EXCEPT ![p] = content \cup Leaving]
        /\ UNCHANGED <<side, res, todo, found, listed>>
    BY <1>1 DEF Begin
  <2>. QED  BY <1>0, <2>1, <2>2 DEF RTypes
<1>2. CASE Respond(p)
  BY <1>2 DEF Respond, RTypes, Answers
<1>3. CASE BucketExists(p)
  <2>1. /\ UNCHANGED <<side, found, listed, begun, always, ever>>
        /\ res' = res \/ res' = [res EXCEPT ![p] = "NoSuchBucket"]
    BY <1>3 DEF BucketExists
  <2>2. todo' \in [Procs -> SUBSET [path : Paths, kind : {"dir", "read"}]]
    <3>1. PICK T \in SUBSET [path : Paths, kind : {"dir", "read"}] :
            T = IF req[p].op = "LIST" THEN {[path |-> <<>>, kind |-> "read"]} ELSE {}
      <4>1. [path |-> <<>>, kind |-> "read"] \in [path : Paths, kind : {"dir", "read"}]
        BY BucketPath
      <4>2. (IF req[p].op = "LIST" THEN {[path |-> <<>>, kind |-> "read"]} ELSE {})
              \in SUBSET [path : Paths, kind : {"dir", "read"}]
        BY <4>1, Zenon
      <4>. QED  BY <4>2, Zenon
    <3>2. todo' = [todo EXCEPT ![p] = T] \/ todo' = todo
      BY <1>3, <3>1 DEF BucketExists
    <3>. QED  BY <3>2 DEF RTypes
  <2>. QED  BY <2>1, <2>2 DEF RTypes, Answers
<1>4. CASE LockKey(p) \/ Unlock(p) \/ StatBucket(p) \/ MakeBucket(p)
  BY <1>4 DEF LockKey, Unlock, StatBucket, MakeBucket, RTypes, Answers
<1>5. CASE ReadBucket(p)
  <2>1. /\ UNCHANGED <<side, todo, found, listed, begun, always, ever>>
        /\ \/ res' = res \/ res' = [res EXCEPT ![p] = "error"]
           \/ res' = [res EXCEPT ![p] = "BucketNotEmpty"]
    BY <1>5 DEF ReadBucket
  <2>. QED  BY <2>1 DEF RTypes, Answers
<1>6. CASE RemoveBucket(p) \/ RemoveBucketMeta(p)
  BY <1>6 DEF RemoveBucket, RemoveBucketMeta, RTypes, Answers
<1>7. CASE CheckConflicts(p)
  BY <1>7 DEF CheckConflicts, RTypes, Answers
<1>8. CASE MakeDirs(p)
  BY <1>8 DEF MakeDirs, RTypes, Answers
<1>9. CASE Stage(p) \/ Restat(p) \/ RemoveSide(p) \/ Prune(p)
  BY <1>0, <1>9 DEF Stage, Restat, RemoveSide, Prune, RTypes, Answers
<1>10. CASE Rename(p) \/ WriteSide(p) \/ Unlink(p) \/ RemoveFile(p)
  <2>1. ASSUME NEW c \in SUBSET Keys, SetContent(c)
        PROVE  always' \in [Procs -> SUBSET Keys] /\ ever' \in [Procs -> SUBSET Keys]
    BY <2>1 DEF SetContent, RTypes
  <2>2. content \cup {req[p].key} \in SUBSET Keys /\ content \ {req[p].key} \in SUBSET Keys
    BY <1>0
  <2>3. always' \in [Procs -> SUBSET Keys] /\ ever' \in [Procs -> SUBSET Keys]
    <3>1. \/ SetContent(content \cup {req[p].key}) \/ SetContent(content \ {req[p].key})
          \/ UNCHANGED <<always, ever>>
      BY <1>10 DEF Rename, WriteSide, Unlink, RemoveFile
    <3>. QED  BY <2>1, <2>2, <3>1 DEF RTypes
  <2>4. /\ UNCHANGED <<todo, found, listed, begun>>
        /\ side' = side \/ side' = side \cup {req[p].key}
        /\ res' = res \/ res' = [res EXCEPT ![p] = "error"]
    BY <1>10 DEF Rename, WriteSide, Unlink, RemoveFile
  <2>. QED  BY <1>0, <2>3, <2>4 DEF RTypes, Answers
<1>11. CASE Walk(p)
  BY <1>11, WalkStep DEF PInv
<1>12. CASE ListInfo(p)
  BY <1>12, ListInfoStep
<1>. QED  BY <1>1, <1>2, <1>3, <1>4, <1>5, <1>6, <1>7, <1>8, <1>9, <1>10, <1>11, <1>12
          DEF Act, Step

LEMMA RTypesInit == Init => RTypes
<1>. SUFFICES ASSUME Init PROVE RTypes
  OBVIOUS
<1>1. PICK w \in Workloads : side = w.stored
  BY DEF Init
<1>2. side \subseteq Keys
  BY <1>1, WorkType
<1>. QED  BY <1>2 DEF Init, RTypes, Answers

\* Type correctness, for every tree and every workload: what hangs in the tree, what a
\* walk has read of it, and the answers of the handlers are what they should be.
THEOREM DirTreeTypes == Spec => []TypeOK
<1>. DEFINE I == PInv /\ Hung /\ RTypes
<1>1. Init => I
  BY DInvInit, RTypesInit DEF DInv
<1>2. I /\ [Next]_vars => I'
  <2>. SUFFICES ASSUME I, [Next]_vars PROVE I'
    OBVIOUS
  <2>1. ASSUME NEW p \in Procs, Act(p) PROVE I'
    <3>1. Types /\ Place(p)
      BY DEF PInv
    <3>. QED  BY <2>1, <3>1, Changes, PStep, HungStep, RTypesStep
  <2>2. CASE UNCHANGED vars
    BY <2>2 DEF vars, local, bound, ghost, PInv, Types, LockInv, Section, Place, Path,
                Marker, Depth, Source, From, Hung, RTypes
  <2>. QED  BY <2>1, <2>2 DEF Next, Rest, Act
<1>3. I => TypeOK
  BY DEF PInv, Types, Hung, RTypes, TypeOK
<1>. QED  BY <1>1, <1>2, <1>3, PTL DEF Spec

-----------------------------------------------------------------------------
(***************************************************************************)
(* Directories left behind                                                 *)
(***************************************************************************)

\* DeleteBucket drops the sidecars of whatever bucket is there by then: where a
\* client asks for it, no marker is stored, whose sidecar is all there is of it.
MarkersStay ==
  \A w \in Workloads : (\E r \in w.asked : r.op = "RMBUCKET") =>
    \A k \in Makes(w) : ~k.marker

\* A body that may not arrive is for an object that needs no directory.
TornShallow ==
  \A w \in Workloads : \A r \in w.asked :
    r.op \in {"PUT", "COMPLETE"} /\ ~r.whole /\ ~r.key.marker => Len(r.key.path) = 1

\* The directory that a goroutine has made or emptied and is to fill, or to remove.
Charge(p, path) ==
  \/ pc[p] = "mkdir" /\ at[p] > 0 /\ path = Prefix(Path(p), at[p] - 1)
  \/ pc[p] \in {"stage", "rename", "rmside"} /\ path = Parent(Path(p))
  \/ pc[p] \in {"restat", "side"} /\ Marker(p) /\ path = Path(p)
  \/ pc[p] = "prune" /\ path = Prefix(Path(p), at[p])

\* A marker that no DELETE is about to take the sidecar of.
Kept(path) ==
  /\ [path |-> path, marker |-> TRUE] \in side
  /\ \A p \in Procs :
       pc[p] = "rmside" => req[p].key # [path |-> path, marker |-> TRUE]

\* An empty directory is a marker, or somebody's to fill or to remove.
Charged ==
  \A path \in Paths \ {<<>>} : tree[path] = "dir" /\ Children(path) = {} =>
    Kept(path) \/ \E p \in Procs : Charge(p, path)

\* Sidecars are of keys that the workload makes.
SideFrom == \E w \in Workloads : From(w) /\ side \subseteq Makes(w)

\* Which requests come to the places that have no lock.
Ops(p) ==
  /\ pc[p] \in {"create", "mkbucket"} => req[p].op \in {"CREATE", "PUT"}
  /\ pc[p] \in {"readdir", "rmbucket", "rmmeta"} => req[p].op = "RMBUCKET"
  /\ pc[p] = "unlock" => req[p].op \in KeyOps

SInv == PInv /\ Hung /\ RTypes /\ SideFrom /\ \A p \in Procs : Ops(p)
CInv == SInv /\ Charged

\* The directory above a path, as a prefix.
LEMMA PrefixParent ==
  ASSUME NEW s \in Seq(Nat), s # <<>>
  PROVE  /\ Len(s) \in Nat \ {0} /\ Prefix(s, Len(s)) = s
         /\ Parent(s) = Prefix(s, Len(s) - 1)
         /\ \A n \in 1 .. Len(s) :
              Prefix(s, n) # <<>> /\ Parent(Prefix(s, n)) = Prefix(s, n - 1)
<1>1. Len(s) \in Nat \ {0} /\ Prefix(s, Len(s)) = s
  BY DEF Prefix
<1>2. Parent(s) = Prefix(s, Len(s) - 1)
  BY <1>1 DEF Parent, Front, Prefix
<1>3. ASSUME NEW n \in 1 .. Len(s)
      PROVE  Prefix(s, n) # <<>> /\ Parent(Prefix(s, n)) = Prefix(s, n - 1)
  <2>1. PICK t \in Seq(Nat) :
          t = SubSeq(s, 1, n) /\ Len(t) = n /\ \A i \in 1 .. n : t[i] = s[i]
    <3>1. /\ SubSeq(s, 1, n) \in Seq(Nat) /\ Len(SubSeq(s, 1, n)) = n
          /\ \A i \in 1 .. n : SubSeq(s, 1, n)[i] = s[i]
      BY <1>1
    <3>. QED  BY <3>1
  <2>2. n - 1 \in Nat /\ n - 1 <= Len(t) /\ n - 1 <= Len(s)
    BY <1>1, <2>1
  <2>3. PICK m \in Nat : m = n - 1 /\ m <= Len(t) /\ m <= Len(s)
    BY <2>2
  <2>4. /\ SubSeq(t, 1, m) \in Seq(Nat) /\ Len(SubSeq(t, 1, m)) = m
        /\ \A i \in 1 .. m : SubSeq(t, 1, m)[i] = t[i]
    BY <2>1, <2>3
  <2>5. /\ SubSeq(s, 1, m) \in Seq(Nat) /\ Len(SubSeq(s, 1, m)) = m
        /\ \A i \in 1 .. m : SubSeq(s, 1, m)[i] = s[i]
    BY <2>3
  <2>6. \A i \in 1 .. m : SubSeq(t, 1, m)[i] = SubSeq(s, 1, m)[i]
    BY <2>1, <2>3, <2>4, <2>5
  <2>7. SubSeq(t, 1, m) = SubSeq(s, 1, m)
    BY <2>4, <2>5, <2>6
  <2>. QED  BY <2>1, <2>3, <2>7 DEF Prefix, Parent, Front
<1>. QED  BY <1>1, <1>2, <1>3

\* The places where there is one thing to do.
LEMMA AtPlace ==
  ASSUME NEW p \in Procs, Act(p)
  PROVE  /\ pc[p] = "mkdir" => MakeDirs(p)
         /\ pc[p] = "stage" => Stage(p)
         /\ pc[p] = "rename" => Rename(p)
         /\ pc[p] = "restat" => Restat(p)
         /\ pc[p] = "side" => WriteSide(p)
         /\ pc[p] = "unlink" => Unlink(p)
         /\ pc[p] = "remove" => RemoveFile(p)
         /\ pc[p] = "rmside" => RemoveSide(p)
         /\ pc[p] = "prune" => Prune(p)
         /\ pc[p] = "idle" => Begin(p)
BY DEF Act, Step, Begin, Respond, BucketExists, LockKey, Unlock, StatBucket, MakeBucket,
       ReadBucket, RemoveBucket, RemoveBucketMeta, CheckConflicts, MakeDirs, Stage, Rename,
       Restat, WriteSide, Unlink, RemoveFile, RemoveSide, Prune, Walk, ListInfo

\* What becomes of the sidecars.
LEMMA SideChange ==
  ASSUME Types, NEW p \in Procs, Act(p)
  PROVE  \/ side' = side
         \/ /\ pc[p] = "side" /\ pc'[p] = "unlock" /\ side' = side \cup {req[p].key}
            /\ Marker(p) => Adds(p)
         \/ /\ pc[p] = "rmside" /\ pc'[p] = "prune" /\ side' = side \ {req[p].key}
            /\ content' = content
         \/ pc[p] = "rmmeta" /\ side' = {} /\ content' = content
<1>. USE DEF Types, Goto, bound, ghost
<1>1. CASE WriteSide(p)
  BY <1>1 DEF WriteSide, Adds, SetContent
<1>2. CASE RemoveSide(p)
  BY <1>2 DEF RemoveSide
<1>3. CASE RemoveBucketMeta(p)
  BY <1>3 DEF RemoveBucketMeta
<1>4. CASE ~(WriteSide(p) \/ RemoveSide(p) \/ RemoveBucketMeta(p))
  BY <1>4 DEF Act, Step, Begin, Respond, BucketExists, LockKey, Unlock, StatBucket, MakeBucket,
              ReadBucket, RemoveBucket, CheckConflicts, MakeDirs, Stage,
              Rename, Restat, Unlink, RemoveFile, Prune, Walk, ListInfo
<1>. QED  BY <1>1, <1>2, <1>3, <1>4

LEMMA OpsStep ==
  ASSUME Types, NEW p \in Procs, Act(p), Place(p), Ops(p)
  PROVE  Ops(p)'
<1>. USE DEF Ops, Types, Goto, Finish, Fail, local, bound, ghost
<1>1. CASE Begin(p)
  <2>1. PICK r \in asked :
          /\ req' = [req EXCEPT ![p] = r]
          /\ pc' = [pc EXCEPT ![p] = CASE r.op = "CREATE" -> "create"
                                       [] r.op = "COMPLETE" -> "lock"
                                       [] OTHER -> "exists"]
    BY <1>1 DEF Begin
  <2>2. req'[p] = r /\ pc'[p] = CASE r.op = "CREATE" -> "create"
                                  [] r.op = "COMPLETE" -> "lock"
                                  [] OTHER -> "exists"
    BY <2>1
  <2>. QED  BY <2>2
<1>2. CASE BucketExists(p)
  <2>1. /\ req' = req
        /\ \/ pc'[p] = CASE req[p].op = "RMBUCKET" -> "readdir"
                         [] req[p].op = "LIST" -> "walk"
                         [] OTHER -> "lock"
           \/ pc'[p] = "create" /\ req[p].op = "PUT"
           \/ pc'[p] = "done"
    <3>1. p \in DOMAIN pc
      OBVIOUS
    <3>. QED  BY <1>2, <3>1, Zenon DEF BucketExists
  <2>. QED  BY <2>1
<1>3. CASE Respond(p) \/ LockKey(p) \/ Unlock(p) \/ StatBucket(p) \/ MakeBucket(p)
  BY <1>3 DEF Respond, LockKey, Unlock, StatBucket, MakeBucket
<1>4. CASE ReadBucket(p) \/ RemoveBucket(p) \/ RemoveBucketMeta(p)
  BY <1>4 DEF ReadBucket, RemoveBucket, RemoveBucketMeta
<1>5. CASE \/ CheckConflicts(p) \/ MakeDirs(p) \/ Stage(p) \/ Rename(p) \/ Restat(p)
           \/ WriteSide(p)
  <2>1. req' = req /\ pc'[p] \notin {"create", "mkbucket", "readdir", "rmbucket", "rmmeta"}
    BY <1>5 DEF CheckConflicts, MakeDirs, Stage, Rename, Restat, WriteSide
  <2>2. req[p].op \in KeyOps
    BY <1>5 DEF CheckConflicts, MakeDirs, Stage, Rename, Restat, WriteSide, Place, KeyOps
  <2>. QED  BY <2>1, <2>2
<1>6. CASE Unlink(p) \/ RemoveFile(p) \/ RemoveSide(p) \/ Prune(p)
  <2>0. pc[p] = "remove" => req[p].op \in KeyOps
    BY DEF Place, KeyOps
  <2>1. req' = req /\ pc'[p] \notin {"create", "mkbucket", "readdir", "rmbucket", "rmmeta"}
    BY <1>6 DEF Unlink, RemoveFile, RemoveSide, Prune
  <2>2. req[p].op \in KeyOps
    BY <1>6 DEF Unlink, RemoveFile, RemoveSide, Prune, Place, KeyOps
  <2>. QED  BY <2>1, <2>2
<1>7. CASE Walk(p) \/ ListInfo(p)
  BY <1>7 DEF Walk, ListInfo, VisitDir, ReadDir
<1>. QED  BY <1>1, <1>2, <1>3, <1>4, <1>5, <1>6, <1>7 DEF Act, Step

LEMMA SideFromStep ==
  ASSUME Types, SideFrom, NEW p \in Procs, Act(p), Place(p)
  PROVE  SideFrom'
<1>1. PICK w \in Workloads : From(w) /\ side \subseteq Makes(w)
  BY DEF SideFrom
<1>2. From(w)'
  BY <1>1, SourceStep
<1>3. side' \subseteq Makes(w)
  <2>1. ASSUME pc[p] = "side" PROVE req[p].key \in Makes(w)
    <3>1. req[p] \in w.asked /\ req[p].op \in {"PUT", "COMPLETE"}
      BY <1>1, <2>1 DEF From, Place
    <3>. QED  BY <3>1 DEF Makes
  <2>. QED  BY <1>1, <2>1, SideChange
<1>. QED  BY <1>2, <1>3 DEF SideFrom

LEMMA SStep ==
  ASSUME SInv, NEW p \in Procs, Act(p)
  PROVE  SInv'
<1>1. PInv /\ Types /\ Place(p) /\ Ops(p) /\ Hung /\ RTypes /\ SideFrom
  BY DEF SInv, PInv
<1>2. Ops(p)'
  BY <1>1, OpsStep
<1>3. \A q \in Procs \ {p} : Ops(q)'
  <2>1. \A q \in Procs \ {p} : pc'[q] = pc[q] /\ req'[q] = req[q]
    BY <1>1, Others
  <2>. QED  BY <2>1 DEF SInv, Ops
<1>4. PInv' /\ Hung' /\ RTypes' /\ SideFrom'
  BY <1>1, Changes, PStep, HungStep, RTypesStep, SideFromStep
<1>. QED  BY <1>2, <1>3, <1>4 DEF SInv

\* DeleteBucket finds no sidecar of a marker to drop.
LEMMA NoMarkerDropped ==
  ASSUME MarkersStay, SInv, NEW p \in Procs, pc[p] = "rmmeta", NEW k \in side
  PROVE  ~k.marker
<1>1. PICK w \in Workloads : From(w) /\ side \subseteq Makes(w)
  BY DEF SInv, SideFrom
<1>2. req[p] \in w.asked /\ req[p].op = "RMBUCKET"
  BY <1>1 DEF From, SInv, Ops
<1>. QED  BY <1>1, <1>2 DEF MarkersStay

\* Who fills or removes a directory goes on with it as long as it is empty, up to the
\* sidecar that makes a marker of it.
LEMMA ChargeGoesOn ==
  ASSUME TornShallow, SInv, NEW p \in Procs, Act(p),
         NEW path \in Paths, path # <<>>, Charge(p, path),
         tree'[path] = "dir", \A c \in Paths : c # <<>> /\ Parent(c) = path => tree'[c] = "none"
  PROVE  \/ Charge(p, path)'
         \/ /\ pc[p] = "side" /\ pc'[p] = "unlock" /\ Marker(p) /\ path = Path(p)
            /\ side' = side \cup {req[p].key}
<1>. DEFINE s == Path(p)
            N == Len(s)
<1>0. Types /\ Place(p) /\ Hung /\ tree \in [Paths -> {"none", "dir", "file"}]
      /\ p \in DOMAIN pc /\ p \in DOMAIN at /\ at[p] \in Nat
  BY DEF SInv, PInv, Types
<1>1. /\ s \in Seq(Nat) /\ s # <<>> /\ s \in Paths /\ Marker(p) \in BOOLEAN
      /\ req[p].key \in Keys /\ req[p].key.path = s
  BY <1>0, ReqType DEF Path
<1>2. /\ N \in Nat \ {0} /\ Prefix(s, N) = s /\ Parent(s) = Prefix(s, N - 1)
      /\ \A n \in 1 .. N : Prefix(s, n) # <<>> /\ Parent(Prefix(s, n)) = Prefix(s, n - 1)
  BY <1>1, PrefixParent
<1>3. \A n \in 0 .. N : Prefix(s, n) \in Paths
  BY <1>1, PrefixPath
<1>4. Prefix(s, 0) = <<>>
  BY <1>1 DEF Prefix
<1>5. req'[p] = req[p] => Path(p)' = s /\ Marker(p)' = Marker(p)
  BY DEF Path, Marker
<1>. HIDE DEF s, N
<1>. USE DEF Goto, Finish, Fail, local, bound, ghost
<1>6. CASE pc[p] = "mkdir"
  <2>1. at[p] > 0 /\ path = Prefix(s, at[p] - 1) /\ at[p] \in 1 .. N
    <3>1. at[p] > 0 /\ path = Prefix(s, at[p] - 1)
      BY <1>6 DEF Charge, s
    <3>2. at[p] <= N
      BY <1>0, <1>2, <1>6 DEF Place, Depth, s, N
    <3>. QED  BY <1>0, <3>1, <3>2
  <2>. DEFINE x == Prefix(s, at[p])
  <2>2. x \in Paths /\ x # <<>> /\ Parent(x) = path
    BY <1>2, <1>3, <2>1
  <2>3. tree'[x] = "none"
    BY <2>2
  <2>4. MakeDirs(p)
    BY <1>6, AtPlace
  <2>5. \/ tree[x] = "dir" /\ tree' = tree
        \/ tree' = [tree EXCEPT ![x] = "dir"]
        \/ (tree[x] = "file" \/ tree[path] = "file") /\ tree' = tree
        \/ tree[path] = "none" /\ tree' = tree
    <3>. HIDE DEF x
    <3>1. x = Prefix(Path(p), at[p])
      BY DEF x, s
    <3>. QED  BY <2>2, <2>4, <3>1 DEF MakeDirs
  <2>6. FALSE
    <3>. HIDE DEF x
    <3>. QED  BY <1>0, <2>2, <2>3, <2>5
  <2>. QED  BY <2>6
<1>7. CASE pc[p] = "stage"
  <2>1. path = Prefix(s, N - 1) /\ Stage(p)
    <3>1. path = Parent(s)
      BY <1>7 DEF Charge, s
    <3>2. Stage(p)
      BY <1>7, AtPlace
    <3>. QED  BY <1>2, <3>1, <3>2
  <2>2. CASE req[p].whole
    <3>1. pc'[p] = "rename" /\ req'[p] = req[p] /\ path = Parent(Path(p))
      BY <1>0, <1>7, <2>1, <2>2 DEF Stage, Charge
    <3>. QED  BY <1>5, <3>1 DEF Charge, s
  <2>3. CASE ~req[p].whole
    <3>1. PICK w \in Workloads : From(w)
      BY DEF SInv, PInv, Source
    <3>2. req[p] \in w.asked /\ req[p].op \in {"PUT", "COMPLETE"} /\ ~req[p].key.marker
      BY <1>0, <1>7, <3>1 DEF From, Place, Marker
    <3>3. N = 1
      BY <1>1, <2>3, <3>2 DEF TornShallow, N
    <3>4. N - 1 = 0
      BY <3>3
    <3>. QED  BY <1>4, <2>1, <3>4
  <2>. QED  BY <2>2, <2>3
<1>8. CASE pc[p] = "rename"
  <2>1. path = Parent(s) /\ Rename(p)
    <3>2. Rename(p)
      BY <1>8, AtPlace
    <3>. QED  BY <1>8, <3>2 DEF Charge, s
  <2>2. tree'[s] = "none"
    BY <1>1, <2>1
  <2>3. \/ tree' = [tree EXCEPT ![s] = "file"]
        \/ tree' = tree /\ (tree[path] # "dir" \/ tree[s] = "dir")
    BY <2>1 DEF Rename, s
  <2>. QED  BY <1>0, <1>1, <2>2, <2>3
<1>9. CASE pc[p] = "restat"
  <2>1. path = s /\ Marker(p) /\ Restat(p)
    <3>2. Restat(p)
      BY <1>9, AtPlace
    <3>. QED  BY <1>9, <3>2 DEF Charge, s
  <2>2. tree' = tree /\ tree[Path(p)] = "dir" /\ req'[p] = req[p]
    BY <2>1 DEF Restat, s
  <2>3. pc'[p] = "side"
    BY <1>0, <2>1, <2>2 DEF Restat
  <2>. QED  BY <1>5, <2>1, <2>2, <2>3 DEF Charge
<1>10. CASE pc[p] = "side"
  <2>1. path = Path(p) /\ Marker(p)
    BY <1>10 DEF Charge
  <2>2. WriteSide(p)
    BY <1>10, AtPlace
  <2>. QED  BY <1>0, <1>10, <2>1, <2>2 DEF WriteSide
<1>11. CASE pc[p] = "rmside"
  <2>1. path = Prefix(s, N - 1)
    BY <1>2, <1>11 DEF Charge, s
  <2>2. RemoveSide(p)
    BY <1>11, AtPlace
  <2>3. pc'[p] = "prune" /\ at'[p] = N - 1 /\ req'[p] = req[p]
    BY <1>0, <2>2 DEF RemoveSide, s, N
  <2>. QED  BY <1>5, <2>1, <2>3 DEF Charge
<1>12. CASE pc[p] = "prune"
  <2>1. path = Prefix(s, at[p])
    BY <1>12 DEF Charge, s
  <2>2. Prune(p)
    BY <1>12, AtPlace
  <2>3. at[p] > 0
    BY <1>0, <1>4, <2>1
  <2>4. \/ tree' = [tree EXCEPT ![path] = "none"]
        \/ tree' = tree /\ ~Removable(path)
    BY <2>1, <2>2, <2>3 DEF Prune, s
  <2>5. tree' = tree => Children(path) = {}
    BY DEF Children
  <2>. QED  BY <1>0, <2>4, <2>5 DEF Removable
<1>. QED  BY <1>6, <1>7, <1>8, <1>9, <1>10, <1>11, <1>12 DEF Charge

\* Who takes the last thing out of a directory has it to remove.
LEMMA TakerInCharge ==
  ASSUME SInv, NEW p \in Procs, Act(p), NEW c \in Paths, c # <<>>,
         tree[c] # "none", tree'[c] = "none"
  PROVE  Charge(p, Parent(c))'
<1>. DEFINE s == Path(p)
            N == Len(s)
<1>0. Types /\ Place(p) /\ tree \in [Paths -> {"none", "dir", "file"}]
      /\ p \in DOMAIN pc /\ p \in DOMAIN at /\ at[p] \in Nat
  BY DEF SInv, PInv, Types
<1>1. s \in Seq(Nat) /\ s # <<>> /\ s \in Paths
  BY <1>0, ReqType
<1>2. /\ N \in Nat \ {0}
      /\ \A n \in 1 .. N : Prefix(s, n) # <<>> /\ Parent(Prefix(s, n)) = Prefix(s, n - 1)
  BY <1>1, PrefixParent
<1>4. Prefix(s, 0) = <<>>
  BY <1>1 DEF Prefix
<1>5. req'[p] = req[p] => Path(p)' = s
  BY DEF Path
<1>6. Change(p)
  BY <1>0, Changes
<1>. HIDE DEF s, N
<1>. USE DEF Goto, Finish, Fail, local, bound, ghost
<1>7. CASE pc[p] \in {"unlink", "remove"} /\ Took(Path(p))
  <2>1. c = s
    BY <1>0, <1>1, <1>7 DEF Took, s
  <2>2. Unlink(p) \/ RemoveFile(p)
    BY <1>7, AtPlace
  <2>3. tree'[Path(p)] = "none" /\ tree[Path(p)] # "none"
    BY <2>1 DEF s
  <2>4. pc'[p] = "rmside" /\ req'[p] = req[p]
    <3>1. CASE Unlink(p) /\ Marker(p)
      BY <1>0, <3>1 DEF Unlink
    <3>2. CASE Unlink(p) /\ ~Marker(p)
      <4>1. tree' = tree
        BY <3>2 DEF Unlink
      <4>. QED  BY <2>3, <4>1
    <3>3. CASE RemoveFile(p)
      BY <1>0, <2>3, <3>3 DEF RemoveFile
    <3>. QED  BY <2>2, <3>1, <3>2, <3>3
  <2>. QED  BY <1>5, <2>1, <2>4 DEF Charge
<1>8. CASE pc[p] = "prune" /\ at[p] < Len(Path(p)) /\ Took(Prefix(Path(p), at[p]))
  <2>1. c = Prefix(s, at[p])
    BY <1>0, <1>8 DEF Took, s
  <2>2. at[p] > 0 /\ at[p] \in 1 .. N /\ Parent(c) = Prefix(s, at[p] - 1)
    <3>1. at[p] # 0 /\ at[p] < N
      BY <1>4, <1>8, <2>1 DEF s, N
    <3>2. at[p] \in 1 .. N
      BY <1>0, <1>2, <3>1
    <3>. QED  BY <1>2, <2>1, <3>2
  <2>3. Prune(p)
    BY <1>8, AtPlace
  <2>4. tree' # tree
    OBVIOUS
  <2>5. at' = [at EXCEPT ![p] = @ - 1] /\ pc' = pc /\ req' = req
    BY <2>3, <2>4 DEF Prune
  <2>6. at'[p] = at[p] - 1 /\ pc'[p] = "prune" /\ req'[p] = req[p]
    BY <1>0, <1>8, <2>5
  <2>. QED  BY <1>5, <2>2, <2>6 DEF Charge
<1>9. CASE tree' = tree
  BY <1>9
<1>10. CASE MadeBucket \/ MadeDir(Prefix(Path(p), at[p])) \/ MadeFile(Path(p))
  BY <1>0, <1>10 DEF MadeBucket, MadeDir, MadeFile
<1>11. CASE Took(<<>>)
  BY <1>0, <1>11 DEF Took
<1>. QED  BY <1>6, <1>7, <1>8, <1>9, <1>10, <1>11 DEF Change

\* Who makes a directory has it to fill.
LEMMA MakerInCharge ==
  ASSUME SInv, NEW p \in Procs, Act(p), NEW path \in Paths, path # <<>>,
         tree[path] # "dir", tree'[path] = "dir"
  PROVE  Charge(p, path)'
<1>. DEFINE s == Path(p)
            N == Len(s)
<1>0. Types /\ Place(p) /\ tree \in [Paths -> {"none", "dir", "file"}]
      /\ p \in DOMAIN pc /\ p \in DOMAIN at /\ at[p] \in Nat
  BY DEF SInv, PInv, Types
<1>1. s \in Seq(Nat) /\ s # <<>> /\ s \in Paths /\ Marker(p) \in BOOLEAN
  BY <1>0, ReqType
<1>2. N \in Nat \ {0} /\ Prefix(s, N) = s /\ Parent(s) = Prefix(s, N - 1)
  BY <1>1, PrefixParent
<1>5. req'[p] = req[p] => Path(p)' = s /\ Marker(p)' = Marker(p)
  BY DEF Path, Marker
<1>6. Change(p)
  BY <1>0, Changes
<1>. HIDE DEF s, N
<1>. USE DEF Goto, Finish, Fail, local, bound, ghost
<1>7. CASE pc[p] = "mkdir" /\ at[p] <= Len(Path(p)) /\ MadeDir(Prefix(Path(p), at[p]))
  <2>1. path = Prefix(s, at[p])
    BY <1>0, <1>7 DEF MadeDir, s
  <2>2. MakeDirs(p)
    BY <1>7, AtPlace
  <2>3. tree' # tree
    OBVIOUS
  <2>4. /\ at' = [at EXCEPT ![p] = @ + 1] /\ req' = req
        /\ pc' = [pc EXCEPT ![p] = IF at[p] < Depth(p) THEN "mkdir"
                                   ELSE IF Marker(p) THEN "restat" ELSE "stage"]
    BY <2>2, <2>3 DEF MakeDirs
  <2>5. /\ at'[p] = at[p] + 1 /\ req'[p] = req[p]
        /\ pc'[p] = IF at[p] < Depth(p) THEN "mkdir"
                    ELSE IF Marker(p) THEN "restat" ELSE "stage"
    BY <1>0, <2>4
  <2>6. at[p] <= Depth(p) /\ Depth(p) = IF Marker(p) THEN N ELSE N - 1
    BY <1>0, <1>7 DEF Place, Depth, s, N
  <2>7. CASE at[p] < Depth(p)
    <3>1. at'[p] > 0 /\ at'[p] - 1 = at[p] /\ pc'[p] = "mkdir"
      BY <1>0, <2>5, <2>7
    <3>. QED  BY <1>5, <2>1, <2>5, <3>1 DEF Charge
  <2>8. CASE ~(at[p] < Depth(p)) /\ Marker(p)
    <3>1. at[p] = N /\ pc'[p] = "restat"
      BY <1>0, <1>2, <2>5, <2>6, <2>8
    <3>. QED  BY <1>2, <1>5, <2>1, <2>5, <2>8, <3>1 DEF Charge
  <2>9. CASE ~(at[p] < Depth(p)) /\ ~Marker(p)
    <3>1. at[p] = N - 1 /\ pc'[p] = "stage"
      BY <1>0, <1>2, <2>5, <2>6, <2>9
    <3>. QED  BY <1>2, <1>5, <2>1, <2>5, <3>1 DEF Charge
  <2>. QED  BY <2>7, <2>8, <2>9
<1>8. CASE tree' = tree
  BY <1>8
<1>9. ASSUME NEW x, Took(x) \/ (x = Path(p) /\ MadeFile(x)) PROVE FALSE
  BY <1>0, <1>1, <1>9 DEF Took, MadeFile, s
<1>10. CASE MadeBucket
  BY <1>0, <1>10 DEF MadeBucket
<1>. QED  BY <1>6, <1>7, <1>8, <1>9, <1>10 DEF Change

LEMMA ToRmside ==
  ASSUME Types, NEW p \in Procs, Act(p), pc'[p] = "rmside"
  PROVE  Unlink(p) \/ RemoveFile(p)
<1>. USE DEF Types, Goto, Finish, Fail, local, bound, ghost
<1>1. CASE Begin(p)
  <2>1. PICK r \in asked :
          pc' = [pc EXCEPT ![p] = CASE r.op = "CREATE" -> "create"
                                    [] r.op = "COMPLETE" -> "lock"
                                    [] OTHER -> "exists"]
    BY <1>1 DEF Begin
  <2>. QED  BY <2>1
<1>2. CASE BucketExists(p) \/ Respond(p) \/ LockKey(p) \/ Unlock(p) \/ StatBucket(p)
  BY <1>2 DEF BucketExists, Respond, LockKey, Unlock, StatBucket
<1>3. CASE MakeBucket(p) \/ ReadBucket(p) \/ RemoveBucket(p) \/ RemoveBucketMeta(p)
  BY <1>3 DEF MakeBucket, ReadBucket, RemoveBucket, RemoveBucketMeta
<1>4. CASE \/ CheckConflicts(p) \/ MakeDirs(p) \/ Stage(p) \/ Rename(p) \/ Restat(p)
           \/ WriteSide(p)
  BY <1>4 DEF CheckConflicts, MakeDirs, Stage, Rename, Restat, WriteSide
<1>5. CASE RemoveSide(p) \/ Prune(p) \/ Walk(p) \/ ListInfo(p)
  BY <1>5 DEF RemoveSide, Prune, Walk, ListInfo, VisitDir, ReadDir
<1>. QED  BY <1>1, <1>2, <1>3, <1>4, <1>5 DEF Act, Step

LEMMA KeptStep ==
  ASSUME MarkersStay, SInv, NEW p \in Procs, Act(p), NEW path \in Paths, Kept(path),
         tree[path] = "dir", Children(path) = {}, tree'[path] = "dir"
  PROVE  Kept(path)'
<1>. DEFINE k == [path |-> path, marker |-> TRUE]
<1>0. Types /\ Place(p) /\ tree \in [Paths -> {"none", "dir", "file"}] /\ p \in DOMAIN pc
  BY DEF SInv, PInv, Types
<1>1. k \in side /\ \A q \in Procs : pc[q] = "rmside" => req[q].key # k
  BY DEF Kept
<1>2. k \in side'
  <2>1. ~(pc[p] = "rmmeta")
    BY <1>1, NoMarkerDropped
  <2>. QED  BY <1>0, <1>1, <2>1, SideChange
<1>3. \A q \in Procs \ {p} : pc'[q] = "rmside" => req'[q].key # k
  BY <1>0, <1>1, Others
<1>4. ASSUME pc'[p] = "rmside" PROVE req'[p].key # k
  <2>. USE DEF Goto, Finish, Fail, local, bound, ghost
  <2>1. Unlink(p) \/ RemoveFile(p)
    BY <1>0, <1>4, ToRmside
  <2>2. req'[p] = req[p] /\ req[p].key = [path |-> Path(p), marker |-> Marker(p)]
    BY <1>0, <2>1, ReqType DEF Unlink, RemoveFile
  <2>3. CASE ~Marker(p)
    BY <2>2, <2>3
  <2>4. CASE Marker(p)
    <3>1. Unlink(p)
      BY <1>0, <2>1, <2>4 DEF RemoveFile, Place
    <3>2. Path(p) # path
      BY <1>0, <2>4, <3>1 DEF Unlink, Removable
    <3>. QED  BY <2>2, <3>2
  <2>5. Marker(p) \in BOOLEAN
    BY <1>0, ReqType
  <2>. QED  BY <2>3, <2>4, <2>5
<1>. QED  BY <1>2, <1>3, <1>4 DEF Kept

\* The lock of a marker's key keeps its sidecar from a DELETE while it is written.
LEMMA WrittenIsKept ==
  ASSUME SInv, SInv', NEW p \in Procs, Act(p), pc[p] = "side", pc'[p] = "unlock", Marker(p),
         side' = side \cup {req[p].key}, NEW path \in Paths, path = Path(p)
  PROVE  Kept(path)'
<1>1. Types /\ LockInv /\ req[p].key = [path |-> path, marker |-> TRUE]
  <2>1. Marker(p) = TRUE
    BY ReqType DEF SInv, PInv
  <2>. QED  BY <2>1, ReqType DEF SInv, PInv
<1>2. WriteSide(p)
  BY AtPlace
<1>3. req' = req
  BY <1>2 DEF WriteSide, local
<1>4. ASSUME NEW q \in Procs, pc'[q] = "rmside" PROVE req'[q].key # req[p].key
  <2>1. q # p /\ pc[q] = "rmside"
    BY <1>1, <1>4, Others
  <2>2. Section(p) /\ Section(q)
    BY <2>1 DEF Section
  <2>3. held[req[p].key][q] = "free" /\ held[req[q].key][q] = "W"
    BY <1>1, <2>1, <2>2 DEF LockInv
  <2>. QED  BY <1>3, <2>3
<1>. QED  BY <1>1, <1>3, <1>4 DEF Kept

LEMMA ChargedStep ==
  ASSUME MarkersStay, TornShallow, CInv, NEW p \in Procs, Act(p), SInv'
  PROVE  Charged'
<1>0. SInv /\ Charged /\ Types
  BY DEF CInv, SInv, PInv
<1>. SUFFICES ASSUME NEW path \in Paths, path # <<>>,
                     tree'[path] = "dir", Children(path)' = {}
              PROVE  Kept(path)' \/ \E q \in Procs : Charge(q, path)'
  BY DEF Charged
<1>1. \A c \in Paths : c # <<>> /\ Parent(c) = path => tree'[c] = "none"
  BY DEF Children
<1>2. CASE tree[path] # "dir"
  BY <1>0, <1>2, MakerInCharge
<1>3. CASE \E c \in Paths : c # <<>> /\ Parent(c) = path /\ tree[c] # "none"
  <2>1. PICK c \in Paths : c # <<>> /\ Parent(c) = path /\ tree[c] # "none"
    BY <1>3
  <2>2. Charge(p, Parent(c))'
    BY <1>0, <1>1, <2>1, TakerInCharge
  <2>. QED  BY <2>1, <2>2
<1>4. CASE tree[path] = "dir" /\ Children(path) = {}
  <2>1. CASE Kept(path)
    BY <1>0, <1>4, <2>1, KeptStep
  <2>2. CASE \E q \in Procs : Charge(q, path)
    <3>1. PICK q \in Procs : Charge(q, path)
      BY <2>2
    <3>2. CASE q # p
      <4>1. pc'[q] = pc[q] /\ req'[q] = req[q] /\ at'[q] = at[q]
        BY <1>0, <3>2, Others
      <4>2. Charge(q, path)'
        BY <3>1, <4>1 DEF Charge, Path, Marker
      <4>. QED  BY <4>2
    <3>3. CASE q = p
      <4>1. CASE Charge(p, path)'
        BY <4>1
      <4>2. CASE /\ pc[p] = "side" /\ pc'[p] = "unlock" /\ Marker(p) /\ path = Path(p)
                 /\ side' = side \cup {req[p].key}
        <5>1. Kept(path)'
          BY <1>0, <4>2, WrittenIsKept
        <5>. QED  BY <5>1
      <4>. QED  BY <1>0, <1>1, <3>1, <3>3, <4>1, <4>2, ChargeGoesOn
    <3>. QED  BY <3>2, <3>3
  <2>. QED  BY <1>0, <1>4, <2>1, <2>2 DEF Charged
<1>. QED  BY <1>2, <1>3, <1>4 DEF Children

\* A directory above a path that is there at start is above or at a key that is.
LEMMA StoredDir ==
  ASSUME NEW w \in Workloads, tree = Stored(w), NEW path \in Paths, path # <<>>,
         tree[path] = "dir"
  PROVE  \E k \in w.stored : k \in Keys /\ IsPrefix(path, k.path) /\ (k.path = path => k.marker)
<1>1. [path |-> path, marker |-> FALSE] \notin w.stored
  BY DEF Stored
<1>2. PICK k \in w.stored : IsPrefix(path, k.path)
  BY <1>1 DEF Stored
<1>3. k \in Keys /\ k.marker \in BOOLEAN /\ k = [path |-> k.path, marker |-> k.marker]
  BY WorkType, KeyType
<1>4. k.path = path => k.marker
  BY <1>1, <1>3
<1>. QED  BY <1>2, <1>3, <1>4

\* What has a directory at start has what is in it.
LEMMA StoredBelow ==
  ASSUME NEW w \in Workloads, tree = Stored(w), NEW k \in w.stored, k \in Keys,
         NEW n \in Nat, n < Len(k.path)
  PROVE  tree[Prefix(k.path, n + 1)] # "none"
<1>. DEFINE s == k.path
            N == Len(s)
<1>1. s \in Seq(Nat) /\ s # <<>>
  BY KeyType
<1>2. N \in Nat \ {0} /\ \A m \in 1 .. N : Prefix(s, m) # <<>>
  BY <1>1, PrefixParent
<1>3. n + 1 \in 1 .. N /\ n + 1 \in 0 .. N
  BY <1>2
<1>4. Prefix(s, n + 1) \in Paths /\ Prefix(s, n + 1) # <<>>
  BY <1>2, <1>3, PrefixPath
<1>5. PICK m \in Nat : m = n + 1 /\ m <= N
  BY <1>2, <1>3
<1>6. Prefix(s, m) \in Seq(Nat) /\ Len(Prefix(s, m)) = m /\ \A i \in 1 .. m : Prefix(s, m)[i] = s[i]
  BY <1>1, <1>5 DEF Prefix
<1>7. IsPrefix(Prefix(s, m), s)
  BY <1>1, <1>5, <1>6, PrefixPoints
<1>. QED  BY <1>4, <1>5, <1>7 DEF Stored

LEMMA CInvInit == Init => CInv
<1>. SUFFICES ASSUME Init PROVE CInv
  OBVIOUS
<1>1. PICK w \in Workloads :
        tree = Stored(w) /\ side = w.stored /\ content = w.stored /\ asked = w.asked
  BY DEF Init
<1>2. w.stored \subseteq Makes(w)
  BY DEF Makes
<1>3. SideFrom /\ \A p \in Procs : Ops(p)
  BY <1>1, <1>2 DEF SideFrom, From, Ops, Init
<1>4. Charged
  <2>. SUFFICES ASSUME NEW path \in Paths, path # <<>>, tree[path] = "dir",
                       Children(path) = {}
                PROVE  Kept(path)
    BY DEF Charged
  <2>1. PICK k \in w.stored : k \in Keys /\ IsPrefix(path, k.path) /\ (k.path = path => k.marker)
    BY <1>1, StoredDir
  <2>2. k.path \in Seq(Nat) /\ path \in Seq(Nat) /\ k.path # <<>>
        /\ k.marker \in BOOLEAN /\ k = [path |-> k.path, marker |-> k.marker]
    BY <2>1, KeyType, PathType
  <2>3. k.path = path
    <3>. SUFFICES ASSUME k.path # path PROVE FALSE
      OBVIOUS
    <3>. DEFINE n == Len(path)
    <3>1. n \in Nat /\ n < Len(k.path) /\ path = Prefix(k.path, n)
      BY <2>1, <2>2, StrictlyAbove
    <3>. HIDE DEF n
    <3>2. tree[Prefix(k.path, n + 1)] # "none"
      BY <1>1, <2>1, <3>1, StoredBelow
    <3>3. n + 1 \in 1 .. Len(k.path) /\ (n + 1) - 1 = n
      BY <2>2, <3>1
    <3>4. Prefix(k.path, n + 1) # <<>> /\ Parent(Prefix(k.path, n + 1)) = path
      BY <2>2, <3>1, <3>3, PrefixParent
    <3>5. Prefix(k.path, n + 1) \in Paths
      BY <2>1, <2>2, <3>1, <3>3, PrefixPath
    <3>. QED  BY <3>2, <3>4, <3>5 DEF Children
  <2>. QED  BY <1>1, <2>1, <2>2, <2>3 DEF Kept, Init
<1>. QED  BY <1>3, <1>4, DInvInit, RTypesInit DEF CInv, SInv, DInv

LEMMA SRest ==
  ASSUME SInv, UNCHANGED vars
  PROVE  SInv'
<1>. USE DEF vars, local, bound, ghost
<1>1. Types' /\ LockInv' /\ Hung' /\ RTypes'
  BY DEF SInv, PInv, Types, LockInv, Section, Hung, RTypes
<1>2. \A p \in Procs : Place(p)' /\ Ops(p)'
  BY DEF SInv, PInv, Place, Ops, Path, Marker, Depth
<1>3. Source' /\ SideFrom'
  BY DEF SInv, PInv, Source, SideFrom, From
<1>. QED  BY <1>1, <1>2, <1>3 DEF SInv, PInv

\* Whatever PUTs and DELETEs cross each other in it, an empty directory is somebody's: the
\* PUT that made it fills it, the DELETE that emptied it removes it, or it is a marker.
\* When all are answered there is nobody, so only the markers are left.  Two things the
\* code does spoil this and are kept out: a body that does not arrive after its
\* directories were made (fs.go:178), and the removal of a bucket's metadata after
\* another client made the bucket again and put a marker into it (fs.go:82).
THEOREM NothingLeftBehind ==
  ASSUME MarkersStay, TornShallow PROVE Spec => []NoStrayDirs
<1>1. CInv /\ [Next]_vars => CInv'
  <2>. SUFFICES ASSUME CInv, [Next]_vars PROVE CInv'
    OBVIOUS
  <2>1. ASSUME NEW p \in Procs, Act(p) PROVE CInv'
    <3>1. SInv'
      BY <2>1, SStep DEF CInv
    <3>. QED  BY <2>1, <3>1, ChargedStep DEF CInv
  <2>2. CASE UNCHANGED vars
    <3>1. SInv'
      BY <2>2, SRest DEF CInv
    <3>2. Charged'
      BY <2>2 DEF CInv, Charged, Kept, Charge, Children, Path, Marker, vars, local
    <3>. QED  BY <3>1, <3>2 DEF CInv
  <2>. QED  BY <2>1, <2>2 DEF Next, Rest, Act
<1>2. CInv => NoStrayDirs
  BY DEF CInv, Charged, Kept, Charge, NoStrayDirs
<1>. QED  BY CInvInit, <1>1, <1>2, PTL DEF Spec

-----------------------------------------------------------------------------
(***************************************************************************)
(* Listings                                                                *)
(***************************************************************************)

\* A marker's sidecar outlives the marker only until its DELETE gets to it.
Drawn ==
  \A k \in side : k.marker /\ k \notin content =>
    \E p \in Procs : pc[p] = "rmside" /\ req[p].key = k

\* What a listing has come by was there at some time since it began.
Seen(p) ==
  /\ pc[p] = "idle" => found[p] = {} /\ listed[p] = {}
  /\ pc[p] # "idle" =>
       /\ content \subseteq ever[p]
       /\ \A k \in side : k.marker => k \in ever[p]
       /\ found[p] \subseteq ever[p] /\ listed[p] \subseteq ever[p]

EInv == PInv /\ RTypes /\ FileInv /\ Drawn /\ \A p \in Procs : Seen(p)

\* The histories of the requests at work grow and shrink with the bucket.
LEMMA Histories ==
  ASSUME RTypes, NEW p \in Procs, Act(p), NEW q \in Procs,
         q # p \/ ~(Begin(p) \/ Respond(p))
  PROVE  /\ always'[q] \subseteq always[q]
         /\ always[q] \subseteq content => always'[q] \subseteq content'
         /\ ever[q] \subseteq ever'[q]
         /\ content \subseteq ever[q] => content' \subseteq ever'[q]
<1>. USE DEF RTypes, ghost
<1>1. CASE Begin(p) \/ Respond(p)
  BY <1>1 DEF Begin, Respond
<1>2. ASSUME NEW c, SetContent(c)
      PROVE  content' = c /\ always'[q] = always[q] \cap c /\ ever'[q] = ever[q] \cup c
  BY <1>2 DEF SetContent
<1>3. CASE ~(Begin(p) \/ Respond(p))
  <2>1. UNCHANGED ghost \/ \E c : SetContent(c)
    BY <1>3 DEF Act, Step, BucketExists, LockKey, Unlock, StatBucket, MakeBucket,
              ReadBucket, RemoveBucket, RemoveBucketMeta, CheckConflicts, MakeDirs, Stage,
              Rename, Restat, WriteSide, Unlink, RemoveFile, RemoveSide, Prune, Walk, ListInfo
  <2>2. CASE UNCHANGED ghost
    BY <2>2
  <2>3. CASE \E c : SetContent(c)
    BY <1>2, <2>3
  <2>. QED  BY <2>1, <2>2, <2>3
<1>. QED  BY <1>1, <1>3

\* Only a listing's own steps change what it has come by.
LEMMA ListOthers ==
  ASSUME RTypes, NEW p \in Procs, Act(p)
  PROVE  /\ \A q \in Procs \ {p} : /\ todo'[q] = todo[q] /\ found'[q] = found[q]
                                   /\ listed'[q] = listed[q] /\ res'[q] = res[q]
         /\ ~(Respond(p) \/ Walk(p) \/ ListInfo(p)) => found' = found /\ listed' = listed
<1>. USE DEF RTypes, Goto, Finish, Fail, local, bound, ghost
<1>1. CASE Walk(p) \/ ListInfo(p)
  BY <1>1 DEF Walk, VisitDir, ReadDir, ListInfo
<1>2. CASE Respond(p) \/ BucketExists(p)
  BY <1>2 DEF Respond, BucketExists
<1>3. CASE Begin(p) \/ LockKey(p) \/ Unlock(p) \/ StatBucket(p) \/ MakeBucket(p)
  BY <1>3 DEF Begin, LockKey, Unlock, StatBucket, MakeBucket
<1>4. CASE ReadBucket(p)
  <2>1. UNCHANGED <<todo, found, listed>> /\ (res' = res \/ \E r : res' = [res EXCEPT ![p] = r])
    BY <1>4 DEF ReadBucket
  <2>. QED  BY <2>1, <1>4 DEF ReadBucket
<1>5. CASE RemoveBucket(p) \/ RemoveBucketMeta(p) \/ CheckConflicts(p)
  BY <1>5 DEF RemoveBucket, RemoveBucketMeta, CheckConflicts
<1>6. CASE MakeDirs(p)
  BY <1>6 DEF MakeDirs
<1>7. CASE Stage(p) \/ Rename(p) \/ Restat(p) \/ WriteSide(p)
  BY <1>7 DEF Stage, Rename, Restat, WriteSide
<1>8. CASE Unlink(p) \/ RemoveFile(p) \/ RemoveSide(p) \/ Prune(p)
  BY <1>8 DEF Unlink, RemoveFile, RemoveSide, Prune
<1>. QED  BY <1>1, <1>2, <1>3, <1>4, <1>5, <1>6, <1>7, <1>8 DEF Act, Step

LEMMA DrawnStep ==
  ASSUME PInv, Drawn, NEW p \in Procs, Act(p)
  PROVE  Drawn'
<1>0. Types /\ Place(p) /\ Change(p) /\ p \in DOMAIN pc
  BY Changes DEF PInv, Types
<1>. SUFFICES ASSUME NEW k \in side', k.marker, k \notin content'
              PROVE  \E q \in Procs : pc'[q] = "rmside" /\ req'[q].key = k
  BY DEF Drawn
<1>. USE DEF Goto, Finish, Fail, local, bound, ghost
<1>1. CASE k \notin side
  BY <1>0, <1>1, SideChange DEF Adds, Marker
<1>2. CASE k \in side /\ k \notin content
  <2>1. PICK q \in Procs : pc[q] = "rmside" /\ req[q].key = k
    BY <1>2 DEF Drawn
  <2>2. CASE q # p
    BY <1>0, <2>1, <2>2, Others
  <2>3. CASE q = p
    BY <2>1, <2>3, AtPlace DEF RemoveSide
  <2>. QED  BY <2>2, <2>3
<1>3. CASE k \in side /\ k \in content
  <2>1. Drops(p) /\ req[p].key = k /\ pc[p] = "unlink"
    BY <1>0, <1>3 DEF Change, Adds, Drops, Place, Marker
  <2>2. Marker(p) /\ Unlink(p)
    BY <2>1, AtPlace DEF Marker
  <2>3. pc'[p] = "rmside" /\ req' = req
    BY <1>0, <2>2 DEF Unlink
  <2>. QED  BY <2>1, <2>3
<1>. QED  BY <1>1, <1>2, <1>3

LEMMA SeenStep ==
  ASSUME EInv, NEW p \in Procs, Act(p)
  PROVE  \A q \in Procs : Seen(q)'
<1>0. /\ Types /\ RTypes /\ FileInv /\ Drawn /\ Place(p) /\ Change(p)
      /\ p \in DOMAIN pc /\ p \in DOMAIN found /\ p \in DOMAIN listed /\ p \in DOMAIN ever
  BY Changes DEF EInv, PInv, Types, RTypes
\* A sidecar that is new makes a marker that is.
<1>1. \A k \in side' : k.marker => k \in side \/ k \in content'
  BY <1>0, SideChange DEF Adds, Marker
<1>2. ASSUME NEW q \in Procs, q # p \/ ~(Begin(p) \/ Respond(p)), pc[q] # "idle"
      PROVE  /\ content' \subseteq ever'[q]
             /\ \A k \in side' : k.marker => k \in ever'[q]
             /\ found[q] \subseteq ever'[q] /\ listed[q] \subseteq ever'[q]
  <2>1. ever[q] \subseteq ever'[q] /\ (content \subseteq ever[q] => content' \subseteq ever'[q])
    BY <1>0, <1>2, Histories
  <2>2. Seen(q)
    BY DEF EInv
  <2>. QED  BY <1>1, <1>2, <2>1, <2>2 DEF Seen
<1>3. ASSUME NEW q \in Procs \ {p} PROVE Seen(q)'
  <2>1. pc'[q] = pc[q] /\ found'[q] = found[q] /\ listed'[q] = listed[q]
    BY <1>0, Others, ListOthers
  <2>2. Seen(q)
    BY DEF EInv
  <2>. QED  BY <1>2, <2>1, <2>2 DEF Seen
<1>. SUFFICES Seen(p)'
  BY <1>3
<1>. USE DEF Goto, Finish, Fail, local, bound, ghost
<1>4. CASE Begin(p)
  <2>1. /\ found' = found /\ listed' = listed /\ content' = content /\ side' = side
        /\ ever'[p] = content \cup Leaving /\ pc[p] = "idle"
    BY <1>0, <1>4 DEF Begin
  <2>2. found'[p] = {} /\ listed'[p] = {}
    BY <2>1 DEF EInv, Seen
  <2>3. ASSUME NEW k \in side, k.marker PROVE k \in content \cup Leaving
    <3>1. CASE k \notin content
      <4>1. PICK q \in Procs : pc[q] = "rmside" /\ req[q].key = k
        BY <1>0, <2>3, <3>1 DEF Drawn
      <4>2. req[q].op = "DELETE"
        BY <4>1 DEF EInv, PInv, Place
      <4>. QED  BY <4>1, <4>2 DEF Leaving
    <3>. QED  BY <3>1
  <2>. QED  BY <2>1, <2>2, <2>3 DEF Seen
<1>5. CASE Respond(p)
  <2>1. pc'[p] = "idle" /\ found'[p] = {} /\ listed'[p] = {}
    BY <1>0, <1>5 DEF Respond
  <2>. QED  BY <2>1 DEF Seen
<1>6. CASE ~(Begin(p) \/ Respond(p))
  <2>1. pc[p] # "idle"
    BY <1>6, AtPlace
  <2>2. /\ content' \subseteq ever'[p]
        /\ \A k \in side' : k.marker => k \in ever'[p]
        /\ found[p] \subseteq ever'[p] /\ listed[p] \subseteq ever'[p]
    BY <1>2, <1>6, <2>1
  <2>3. CASE Walk(p)
    <3>1. CASE todo[p] = {}
      <4>1. pc'[p] = "info" /\ found' = found /\ listed' = listed
        BY <1>0, <2>3, <3>1 DEF Walk
      <4>. QED  BY <2>2, <4>1 DEF Seen
    <3>2. CASE todo[p] # {}
      <4>1. PICK e \in todo[p] : VisitDir(p, e) \/ ReadDir(p, e)
        BY <2>3, <3>2 DEF Walk, Earliest
      <4>2. content' = content /\ side' = side /\ tree' = tree /\ listed' = listed
        BY <2>3 DEF Walk
      <4>3. MarkersOf(e.path) \subseteq ever'[p]
        BY <2>2, <4>2 DEF MarkersOf
      <4>4. FilesOf(e.path) \subseteq ever'[p]
        <5>1. ASSUME NEW f \in FilesOf(e.path) PROVE f \in content
          <6>1. PICK c \in Paths : tree[c] = "file" /\ f = [path |-> c, marker |-> FALSE]
            BY DEF FilesOf, Children
          <6>. QED  BY <1>0, <6>1 DEF FileInv
        <5>. QED  BY <2>2, <4>2, <5>1
      <4>5. \/ found'[p] = found[p] \cup MarkersOf(e.path)
            \/ found'[p] = found[p] \cup FilesOf(e.path)
            \/ found'[p] = found[p]
        BY <1>0, <4>1 DEF VisitDir, ReadDir
      <4>6. pc'[p] # "idle"
        BY <1>0, <2>1, <4>1 DEF VisitDir, ReadDir
      <4>. QED  BY <2>2, <4>2, <4>3, <4>4, <4>5, <4>6 DEF Seen
    <3>. QED  BY <3>1, <3>2
  <2>4. CASE ListInfo(p)
    <3>1. found'[p] \subseteq found[p] /\ listed'[p] \subseteq listed[p] \cup found[p]
      BY <1>0, <2>4 DEF ListInfo, Earliest
    <3>2. pc'[p] # "idle"
      BY <1>0, <2>1, <2>4 DEF ListInfo
    <3>. QED  BY <2>2, <3>1, <3>2 DEF Seen
  <2>5. CASE ~(Walk(p) \/ ListInfo(p))
    <3>1. found' = found /\ listed' = listed
      BY <1>0, <1>6, <2>5, ListOthers
    <3>2. pc'[p] # "idle"
      <4>1. CASE BucketExists(p)
        BY <1>0, <2>1, <4>1 DEF BucketExists
      <4>2. CASE \/ LockKey(p) \/ Unlock(p) \/ StatBucket(p) \/ MakeBucket(p) \/ ReadBucket(p)
                 \/ RemoveBucket(p) \/ RemoveBucketMeta(p)
        BY <1>0, <2>1, <4>2 DEF LockKey, Unlock, StatBucket, MakeBucket, ReadBucket,
                                RemoveBucket, RemoveBucketMeta
      <4>3. CASE \/ CheckConflicts(p) \/ MakeDirs(p) \/ Stage(p) \/ Rename(p) \/ Restat(p)
                 \/ WriteSide(p)
        BY <1>0, <2>1, <4>3 DEF CheckConflicts, MakeDirs, Stage, Rename, Restat, WriteSide
      <4>4. CASE Unlink(p) \/ RemoveFile(p) \/ RemoveSide(p) \/ Prune(p)
        BY <1>0, <2>1, <4>4 DEF Unlink, RemoveFile, RemoveSide, Prune
      <4>. QED  BY <1>6, <2>5, <4>1, <4>2, <4>3, <4>4 DEF Act, Step
    <3>. QED  BY <2>2, <3>1, <3>2 DEF Seen
  <2>. QED  BY <2>3, <2>4, <2>5
<1>. QED  BY <1>4, <1>5, <1>6

LEMMA EInvInit == Init => EInv
<1>. SUFFICES ASSUME Init PROVE EInv
  OBVIOUS
<1>1. PInv /\ FileInv /\ RTypes
  BY DInvInit, RTypesInit DEF DInv
<1>2. Drawn /\ \A p \in Procs : Seen(p)
  BY DEF Init, Drawn, Seen
<1>. QED  BY <1>1, <1>2 DEF EInv

LEMMA EInvStep ==
  ASSUME EInv, [Next]_vars
  PROVE  EInv'
<1>1. ASSUME NEW p \in Procs, Act(p) PROVE EInv'
  <2>1. PInv /\ RTypes /\ FileInv /\ Drawn /\ Types /\ Place(p)
    BY DEF EInv, PInv
  <2>2. Change(p)
    BY <1>1, <2>1, Changes
  <2>. QED  BY <1>1, <2>1, <2>2, PStep, RTypesStep, FileStep, DrawnStep, SeenStep DEF EInv
<1>2. CASE UNCHANGED vars
  <2>. USE <1>2 DEF vars, local, bound, ghost
  <2>1. PInv'
    BY DEF EInv, PInv, Types, LockInv, Section, Place, Path, Marker, Depth, Source, From
  <2>2. RTypes' /\ FileInv'
    BY DEF EInv, RTypes, FileInv
  <2>3. Drawn' /\ \A p \in Procs : Seen(p)'
    BY DEF EInv, Drawn, Seen
  <2>. QED  BY <2>1, <2>2, <2>3 DEF EInv
<1>. QED  BY <1>1, <1>2 DEF Next, Rest, Act

\* A listing invents nothing, whatever the workload and however the requests cross it:
\* each key in the answer was an object or a marker at some time since the listing began.
THEOREM ListingsInventNothing ==
  Spec => [](\A p \in Procs : pc[p] = "done" => listed[p] \subseteq ever[p])
<1>1. EInv => \A p \in Procs : pc[p] = "done" => listed[p] \subseteq ever[p]
  BY DEF EInv, Seen
<1>. QED  BY EInvInit, EInvStep, <1>1, PTL DEF Spec

-----------------------------------------------------------------------------

\* Whatever is in the tree has directories all the way up.
Deep ==
  \A path \in Paths : tree[path] # "none" =>
    \A n \in 0 .. Len(path) : n < Len(path) => tree[Prefix(path, n)] = "dir"

\* A marker has its sidecar, and a DELETE that takes a sidecar has taken the marker.
Sided ==
  /\ \A k \in content : k.marker => k \in side
  /\ \A p \in Procs : pc[p] = "rmside" /\ Marker(p) => req[p].key \notin content

\* An entry of a walk from which a key is still to be come by.
Ahead(e, k) ==
  /\ IsPrefix(e.path, k.path)
  /\ e.path = k.path => k.marker /\ e.kind = "dir"

\* What was there all the time has been come by or is ahead.
Reached(p) ==
  /\ always[p] \subseteq content
  /\ pc[p] = "walk" =>
       \A k \in always[p] : k \in found[p] \/ \E e \in todo[p] : Ahead(e, k)
  /\ pc[p] = "info" => always[p] \subseteq found[p] \cup listed[p]
  /\ pc[p] = "done" /\ req[p].op = "LIST" /\ res[p] = "ok" => always[p] \subseteq listed[p]

LInv == DInv /\ SInv /\ Deep /\ Sided /\ \A p \in Procs : Reached(p)

\* A path's prefixes are places of the tree, and prefixes of each other.
LEMMA PathPrefix ==
  ASSUME NEW path \in Paths, NEW n \in 0 .. Len(path)
  PROVE  /\ Prefix(path, n) \in Paths
         /\ \A m \in 0 .. n : Prefix(Prefix(path, n), m) = Prefix(path, m)
         /\ Len(Prefix(path, n)) = n
<1>0. PICK k \in Keys : path \in Prefixes(k.path)
  BY DEF Paths
<1>1. PICK l \in 0 .. Len(k.path) : path = SubSeq(k.path, 1, l)
  BY <1>0 DEF Prefixes
<1>2. k.path \in Seq(Nat) /\ path \in Seq(Nat)
  BY KeyType, PathType
<1>3. /\ Len(path) = l /\ l \in Nat /\ l <= Len(k.path) /\ n \in Nat /\ n <= l
      /\ \A i \in 1 .. l : path[i] = k.path[i]
  BY <1>1, <1>2
<1>4. ASSUME NEW s \in Seq(Nat), NEW m \in Nat, m <= Len(s)
      PROVE  /\ Prefix(s, m) \in Seq(Nat) /\ Len(Prefix(s, m)) = m
             /\ \A i \in 1 .. m : Prefix(s, m)[i] = s[i]
  BY <1>4 DEF Prefix
<1>5. Prefix(path, n) = Prefix(k.path, n)
  <2>1. n <= Len(path) /\ n <= Len(k.path)
    BY <1>2, <1>3
  <2>2. /\ Prefix(path, n) \in Seq(Nat) /\ Len(Prefix(path, n)) = n
        /\ \A i \in 1 .. n : Prefix(path, n)[i] = path[i]
    BY <1>2, <1>3, <1>4, <2>1
  <2>3. /\ Prefix(k.path, n) \in Seq(Nat) /\ Len(Prefix(k.path, n)) = n
        /\ \A i \in 1 .. n : Prefix(k.path, n)[i] = k.path[i]
    BY <1>2, <1>3, <1>4, <2>1
  <2>a. \A i \in 1 .. n : path[i] = k.path[i]
    BY <1>3
  <2>4. \A i \in 1 .. n : Prefix(path, n)[i] = Prefix(k.path, n)[i]
    BY <2>2, <2>3, <2>a, Zenon
  <2>. QED  BY <2>2, <2>3, <2>4
<1>6. Prefix(path, n) \in Paths
  <2>1. n \in 0 .. Len(k.path)
    BY <1>2, <1>3
  <2>. QED  BY <1>5, <2>1, PrefixPath
<1>7. Len(Prefix(path, n)) = n /\ Prefix(path, n) \in Seq(Nat)
      /\ \A i \in 1 .. n : Prefix(path, n)[i] = path[i]
  BY <1>2, <1>3, <1>4
<1>8. ASSUME NEW m \in 0 .. n PROVE Prefix(Prefix(path, n), m) = Prefix(path, m)
  <2>1. m \in Nat /\ m <= n /\ m <= Len(path)
    BY <1>3
  <2>2. /\ Prefix(path, m) \in Seq(Nat) /\ Len(Prefix(path, m)) = m
        /\ \A i \in 1 .. m : Prefix(path, m)[i] = path[i]
    BY <1>2, <1>4, <2>1
  <2>3. PICK t \in Seq(Nat) : t = Prefix(path, n) /\ Len(t) = n /\ \A i \in 1 .. n : t[i] = path[i]
    BY <1>7
  <2>4. /\ Prefix(t, m) \in Seq(Nat) /\ Len(Prefix(t, m)) = m
        /\ \A i \in 1 .. m : Prefix(t, m)[i] = t[i]
    BY <1>4, <2>1, <2>3
  <2>5. \A i \in 1 .. m : Prefix(t, m)[i] = Prefix(path, m)[i]
    BY <1>3, <2>1, <2>2, <2>3, <2>4
  <2>6. Prefix(t, m) = Prefix(path, m)
    BY <2>2, <2>4, <2>5
  <2>. QED  BY <2>3, <2>6
<1>. QED  BY <1>6, <1>7, <1>8

\* What a path that is there is reached by: the next component below a prefix.
LEMMA NextDown ==
  ASSUME Types, Deep, NEW path \in Paths, tree[path] # "none",
         NEW n \in Nat, n < Len(path)
  PROVE  /\ tree[Prefix(path, n)] = "dir"
         /\ \E c \in Paths :
              /\ c = Prefix(path, n + 1) /\ c # <<>> /\ Parent(c) = Prefix(path, n)
              /\ tree[c] # "none" /\ (c # path => tree[c] = "dir")
<1>. DEFINE N == Len(path)
<1>1. path \in Seq(Nat) /\ path # <<>>
  BY PathType
<1>2. /\ N \in Nat \ {0} /\ Prefix(path, N) = path
      /\ \A m \in 1 .. N :
           Prefix(path, m) # <<>> /\ Parent(Prefix(path, m)) = Prefix(path, m - 1)
  BY <1>1, PrefixParent
<1>. HIDE DEF N
<1>3. n \in 0 .. N /\ n + 1 \in 1 .. N /\ n + 1 \in 0 .. N /\ n + 1 - 1 = n
      /\ (n + 1 < N \/ n + 1 = N)
  BY <1>2 DEF N
<1>4. tree[Prefix(path, n)] = "dir"
  BY <1>3 DEF Deep, N
<1>5. n + 1 < N => tree[Prefix(path, n + 1)] = "dir"
  BY <1>3 DEF Deep, N
<1>6. n + 1 = N => Prefix(path, n + 1) = path
  BY <1>2
<1>7. /\ Prefix(path, n + 1) # <<>> /\ Parent(Prefix(path, n + 1)) = Prefix(path, n)
      /\ Prefix(path, n + 1) \in Paths
  BY <1>2, <1>3, PathPrefix DEF N
<1>. HIDE DEF Prefix
<1>. QED  BY <1>3, <1>4, <1>5, <1>6, <1>7

LEMMA DeepStep ==
  ASSUME Types, Hung, Deep, NEW p \in Procs, Change(p), Place(p)
  PROVE  Deep'
<1>. SUFFICES ASSUME NEW path \in Paths, tree'[path] # "none",
                     NEW n \in 0 .. Len(path), n < Len(path)
              PROVE  tree'[Prefix(path, n)] = "dir"
  BY DEF Deep
<1>. DEFINE y == Prefix(path, n)
<1>0. tree \in [Paths -> {"none", "dir", "file"}]
  BY DEF Types
<1>1. path \in Seq(Nat) /\ path # <<>> /\ n \in Nat /\ y \in Paths
  BY PathType, PathPrefix
\* A path that was there before.
<1>2. CASE tree[path] # "none"
  <2>1. PICK c \in Paths : c # <<>> /\ Parent(c) = y /\ tree[c] # "none"
    BY <1>1, <1>2, NextDown DEF Types
  <2>2. tree[y] = "dir"
    BY <1>2, <1>1, NextDown
  <2>3. c \in Children(y)
    BY <2>1 DEF Children
  <2>. HIDE DEF y
  <2>4. ASSUME NEW x, Took(x) PROVE tree'[y] = "dir"
    BY <1>0, <1>1, <2>2, <2>3, <2>4 DEF Took, Removable
  <2>5. ASSUME NEW x, MadeDir(x) \/ MadeFile(x) \/ MadeBucket \/ tree' = tree
        PROVE  tree'[y] = "dir"
    BY <1>0, <1>1, <2>2, <2>5 DEF MadeDir, MadeFile, MadeBucket
  <2>. QED  BY <2>4, <2>5 DEF Change, y
\* A path that is made.
<1>3. CASE tree[path] = "none"
  <2>1. tree[Parent(path)] = "dir" /\ tree'[Parent(path)] = "dir"
    <3>1. Parent(path) # path
      BY <1>1, ParentOther
    <3>2. Parent(path) \in Paths
      BY <1>1, PathType
    <3>3. ASSUME NEW x, MadeDir(x) \/ MadeFile(x)
          PROVE  tree[Parent(path)] = "dir" /\ tree'[Parent(path)] = "dir"
      BY <1>0, <1>1, <1>3, <3>1, <3>2, <3>3 DEF MadeDir, MadeFile
    <3>4. ASSUME NEW x, Took(x) \/ MadeBucket \/ tree' = tree PROVE FALSE
      BY <1>0, <1>1, <1>3, <3>4 DEF Took, MadeBucket
    <3>. QED  BY <3>3, <3>4 DEF Change
  <2>2. /\ Len(path) \in Nat \ {0} /\ Parent(path) = Prefix(path, Len(path) - 1)
    BY <1>1, PrefixParent
  <2>3. PICK l \in Nat : l = Len(path) - 1 /\ l \in 0 .. Len(path) /\ n <= l
    BY <1>1, <2>2
  <2>4. Prefix(path, l) \in Paths /\ Len(Prefix(path, l)) = l
        /\ Prefix(Prefix(path, l), n) = y
    <3>1. n \in 0 .. l
      BY <1>1, <2>3
    <3>. QED  BY <2>3, <3>1, PathPrefix
  <2>5. CASE n = l
    BY <2>1, <2>2, <2>3, <2>5
  <2>6. CASE n < l
    <3>1. PICK u \in Paths : u = Prefix(path, l) /\ Len(u) = l /\ Prefix(u, n) = y
      BY <2>4
    <3>2. tree[u] = "dir"
      BY <2>1, <2>2, <2>3, <3>1
    <3>3. n \in Nat /\ n < Len(u)
      BY <1>1, <2>6, <3>1
    <3>4. tree[y] = "dir"
      BY <3>1, <3>2, <3>3, NextDown
    <3>. HIDE DEF y
    <3>5. ASSUME NEW x, MadeDir(x) \/ MadeFile(x) \/ MadeBucket \/ tree' = tree
          PROVE  tree'[y] = "dir"
      BY <1>0, <1>1, <3>4, <3>5 DEF MadeDir, MadeFile, MadeBucket
    <3>6. ASSUME NEW x, Took(x) PROVE FALSE
      BY <1>0, <1>3, <3>6 DEF Took
    <3>. QED  BY <3>5, <3>6 DEF Change, y
  <2>. QED  BY <1>1, <2>3, <2>5, <2>6
<1>. QED  BY <1>2, <1>3

LEMMA SidedStep ==
  ASSUME MarkersStay, SInv, Sided, NEW p \in Procs, Act(p)
  PROVE  Sided'
<1>0. Types /\ LockInv /\ Place(p) /\ Change(p) /\ p \in DOMAIN pc
  BY Changes DEF SInv, PInv, Types
<1>1. \A q \in Procs \ {p} : pc'[q] = pc[q] /\ req'[q] = req[q]
  BY <1>0, Others
<1>. USE DEF Goto, Finish, Fail, local, bound, ghost
<1>2. ASSUME NEW k \in content', k.marker PROVE k \in side'
  <2>1. CASE k \notin content
    <3>1. Adds(p) /\ req[p].key = k /\ pc[p] \in {"rename", "side"}
      BY <1>0, <1>2, <2>1 DEF Change, Adds, Drops
    <3>2. pc[p] = "side"
      BY <1>0, <1>2, <3>1 DEF Place, Marker
    <3>3. WriteSide(p)
      BY <3>2, AtPlace
    <3>. QED  BY <3>1, <3>3 DEF WriteSide
  <2>2. CASE k \in content
    <3>1. k \in side
      BY <1>2, <2>2 DEF Sided
    <3>2. pc[p] # "rmmeta"
      BY <1>2, <3>1, NoMarkerDropped
    <3>3. CASE pc[p] = "rmside" /\ req[p].key = k
      <4>1. Marker(p)
        BY <1>2, <3>3 DEF Marker
      <4>. QED  BY <2>2, <3>3, <4>1 DEF Sided
    <3>. QED  BY <1>0, <3>1, <3>2, <3>3, SideChange
  <2>. QED  BY <2>1, <2>2
<1>3. ASSUME NEW q \in Procs, pc'[q] = "rmside", req'[q].key.marker
      PROVE  req'[q].key \notin content'
  <2>1. CASE q # p
    <3>1. pc[q] = "rmside" /\ req'[q] = req[q] /\ req[q].key \notin content
      BY <1>1, <1>3, <2>1 DEF Sided, Marker
    <3>2. ASSUME Adds(p), pc[p] \in {"rename", "side"} PROVE req[p].key # req[q].key
      <4>1. Section(p) /\ Section(q)
        BY <3>1, <3>2 DEF Section
      <4>2. held[req[p].key][p] = "W" /\ held[req[q].key][p] = "free"
        BY <1>0, <2>1, <4>1 DEF LockInv
      <4>. QED  BY <4>2
    <3>. QED  BY <1>0, <3>1, <3>2 DEF Change, Adds, Drops
  <2>2. CASE q = p
    <3>1. Unlink(p) \/ RemoveFile(p)
      BY <1>0, <1>3, <2>2, ToRmside
    <3>2. req' = req
      BY <3>1 DEF Unlink, RemoveFile
    <3>3. Marker(p)
      BY <1>3, <2>2, <3>2 DEF Marker
    <3>4. Unlink(p)
      BY <1>0, <3>1, <3>3 DEF RemoveFile, Place
    <3>. QED  BY <2>2, <3>2, <3>3, <3>4 DEF Unlink, SetContent
  <2>. QED  BY <2>1, <2>2
<1>. QED  BY <1>2, <1>3 DEF Sided, Marker

LEMMA Standing ==
  ASSUME DInv, NEW k \in content
  PROVE  /\ k \in Keys /\ k.path \in Paths /\ k.path # <<>> /\ k.path \in Seq(Nat)
         /\ k = [path |-> k.path, marker |-> k.marker] /\ k.marker \in BOOLEAN
         /\ tree[k.path] = Kind(k) /\ tree[k.path] # "none"
<1>1. k \in Keys
  BY DEF DInv, PInv, Types
<1>. QED  BY <1>1, KeyType DEF DInv, DeleteOnlyOwn, Kind

\* The entry of a walk that a key is ahead of is the key's own, or a directory above it
\* which leads on to the key or to an entry it is ahead of.
LEMMA ReadsOn ==
  ASSUME DInv, Deep, NEW k \in content, NEW path \in Paths, IsPrefix(path, k.path),
         path # k.path
  PROVE  /\ tree[path] = "dir"
         /\ k \in FilesOf(path) \/ \E f \in EntriesOf(path) : Ahead(f, k)
<1>1. /\ k \in Keys /\ k.path \in Paths /\ k.path \in Seq(Nat)
      /\ k = [path |-> k.path, marker |-> k.marker] /\ k.marker \in BOOLEAN
      /\ tree[k.path] = Kind(k) /\ tree[k.path] # "none"
  BY Standing
<1>2. path \in Seq(Nat) /\ Types
  BY PathType DEF DInv, PInv
<1>3. PICK n \in Nat : n = Len(path) /\ n < Len(k.path) /\ path = Prefix(k.path, n)
  BY <1>1, <1>2, StrictlyAbove
<1>4. tree[path] = "dir"
  BY <1>1, <1>2, <1>3, NextDown
<1>5. PICK c \in Paths : /\ c = Prefix(k.path, n + 1) /\ c # <<>> /\ Parent(c) = path
                         /\ tree[c] # "none" /\ (c # k.path => tree[c] = "dir")
  BY <1>1, <1>2, <1>3, NextDown
<1>6. c \in Children(path)
  BY <1>5 DEF Children
<1>7. IsPrefix(c, k.path)
  <2>1. n + 1 \in Nat /\ n + 1 <= Len(k.path)
    BY <1>1, <1>3
  <2>2. Len(c) = n + 1 /\ c \in Seq(Nat) /\ \A i \in 1 .. n + 1 : c[i] = k.path[i]
    BY <1>1, <1>5, <2>1 DEF Prefix
  <2>. QED  BY <1>1, <2>1, <2>2, PrefixPoints
<1>8. CASE c = k.path /\ ~k.marker
  <2>1. tree[c] = "file"
    BY <1>1, <1>8 DEF Kind
  <2>2. [path |-> c, marker |-> FALSE] \in FilesOf(path)
    BY <1>6, <2>1 DEF FilesOf
  <2>. QED  BY <1>1, <1>4, <1>8, <2>2
<1>9. CASE c # k.path \/ k.marker
  <2>1. tree[c] = "dir"
    BY <1>1, <1>5, <1>9 DEF Kind
  <2>2. [path |-> c, kind |-> "dir"] \in EntriesOf(path)
    BY <1>6, <2>1 DEF EntriesOf
  <2>3. Ahead([path |-> c, kind |-> "dir"], k)
    BY <1>7, <1>9 DEF Ahead
  <2>. QED  BY <1>4, <2>2, <2>3
<1>. QED  BY <1>1, <1>8, <1>9

LEMMA WalkReaches ==
  ASSUME DInv, RTypes, Deep, Sided, NEW p \in Procs, Walk(p), Reached(p)
  PROVE  Reached(p)'
<1>0. /\ Types /\ p \in DOMAIN pc /\ p \in DOMAIN todo /\ p \in DOMAIN found
      /\ p \in DOMAIN res
  BY DEF DInv, PInv, Types, RTypes
<1>1. UNCHANGED <<tree, side, req, listed, content, always, ever>> /\ pc[p] = "walk"
  BY DEF Walk, ghost
<1>2. always[p] \subseteq content
  BY DEF Reached
<1>3. \A k \in always[p] : k \in found[p] \/ \E e \in todo[p] : Ahead(e, k)
  BY <1>1 DEF Reached
<1>. USE DEF Goto, Finish
<1>4. CASE todo[p] = {}
  <2>1. pc'[p] = "info" /\ found' = found
    BY <1>0, <1>4 DEF Walk
  <2>. QED  BY <1>1, <1>2, <1>3, <1>4, <2>1 DEF Reached
<1>5. CASE todo[p] # {}
  <2>1. PICK e \in todo[p] : VisitDir(p, e) \/ ReadDir(p, e)
    BY <1>5 DEF Walk, Earliest
  <2>2. e.path \in Paths /\ e = [path |-> e.path, kind |-> e.kind]
    BY DEF RTypes
  <2>3. CASE VisitDir(p, e)
    <3>1. /\ todo'[p] = (todo[p] \ {e}) \cup {[path |-> e.path, kind |-> "read"]}
          /\ found'[p] = found[p] \cup MarkersOf(e.path) /\ pc'[p] = "walk"
      <4>1. [e EXCEPT !.kind = "read"] = [path |-> e.path, kind |-> "read"]
        BY <2>2
      <4>2. /\ todo' = [todo EXCEPT ![p] = (@ \ {e}) \cup {[e EXCEPT !.kind = "read"]}]
            /\ found' = [found EXCEPT ![p] = @ \cup MarkersOf(e.path)] /\ pc' = pc
        BY <2>3 DEF VisitDir
      <4>. QED  BY <1>0, <1>1, <4>1, <4>2
    <3>2. ASSUME NEW k \in always[p], Ahead(e, k)
          PROVE  k \in found'[p] \/ \E f \in todo'[p] : Ahead(f, k)
      <4>1. CASE e.path = k.path
        <5>1. k.marker /\ k \in side
          BY <1>2, <3>2, <4>1 DEF Ahead, Sided
        <5>2. k \in MarkersOf(e.path)
          BY <4>1, <5>1 DEF MarkersOf
        <5>. QED  BY <3>1, <5>2
      <4>2. CASE e.path # k.path
        <5>1. Ahead([path |-> e.path, kind |-> "read"], k)
          BY <3>2, <4>2 DEF Ahead
        <5>. QED  BY <3>1, <5>1
      <4>. QED  BY <4>1, <4>2
    <3>3. \A k \in always[p] : k \in found'[p] \/ \E f \in todo'[p] : Ahead(f, k)
      BY <1>3, <3>1, <3>2
    <3>. QED  BY <1>1, <1>2, <3>1, <3>3 DEF Reached
  <2>4. CASE ReadDir(p, e)
    <3>1. ASSUME NEW k \in always[p], Ahead(e, k)
          PROVE  /\ tree[e.path] = "dir"
                 /\ k \in FilesOf(e.path) \/ \E f \in EntriesOf(e.path) : Ahead(f, k)
      <4>1. k \in content /\ IsPrefix(e.path, k.path) /\ e.path # k.path
        BY <1>2, <2>4, <3>1 DEF Ahead, ReadDir
      <4>. QED  BY <2>2, <4>1, ReadsOn
    <3>2. CASE tree[e.path] = "dir"
      <4>1. /\ todo'[p] = (todo[p] \ {e}) \cup EntriesOf(e.path)
            /\ found'[p] = found[p] \cup FilesOf(e.path) /\ pc'[p] = "walk"
        BY <1>0, <1>1, <2>4, <3>2 DEF ReadDir
      <4>2. \A k \in always[p] : k \in found'[p] \/ \E f \in todo'[p] : Ahead(f, k)
        BY <1>3, <3>1, <4>1
      <4>. QED  BY <1>1, <1>2, <4>1, <4>2 DEF Reached
    <3>3. CASE tree[e.path] = "none"
      <4>1. todo'[p] = todo[p] \ {e} /\ found'[p] = found[p] /\ pc'[p] = "walk"
        BY <1>0, <1>1, <2>4, <3>3 DEF ReadDir
      <4>2. \A k \in always[p] : k \in found'[p] \/ \E f \in todo'[p] : Ahead(f, k)
        BY <1>3, <3>1, <3>3, <4>1
      <4>. QED  BY <1>1, <1>2, <4>1, <4>2 DEF Reached
    <3>4. CASE tree[e.path] = "file"
      <4>1. pc'[p] = "done" /\ res'[p] = "error"
        BY <1>0, <2>4, <3>4 DEF ReadDir
      <4>. QED  BY <1>1, <1>2, <4>1 DEF Reached
    <3>. QED  BY <2>4, <3>2, <3>3, <3>4 DEF ReadDir
  <2>. QED  BY <2>1, <2>3, <2>4
<1>. QED  BY <1>4, <1>5

LEMMA InfoReaches ==
  ASSUME DInv, RTypes, NEW p \in Procs, ListInfo(p), Reached(p)
  PROVE  Reached(p)'
<1>0. /\ p \in DOMAIN pc /\ p \in DOMAIN listed /\ p \in DOMAIN found /\ p \in DOMAIN res
  BY DEF DInv, PInv, Types, RTypes
<1>1. UNCHANGED <<tree, side, req, todo, content, always, ever>> /\ pc[p] = "info"
  BY DEF ListInfo, ghost
<1>2. always[p] \subseteq content /\ always[p] \subseteq found[p] \cup listed[p]
  BY <1>1 DEF Reached
<1>. USE DEF Goto, Finish
<1>3. CASE found[p] = {}
  <2>1. pc'[p] = "done" /\ listed' = listed
    BY <1>0, <1>3 DEF ListInfo
  <2>. QED  BY <1>1, <1>2, <1>3, <2>1 DEF Reached
<1>4. CASE found[p] # {}
  <2>1. PICK e \in found[p] :
          \/ Finish(p, "error")
          \/ /\ found' = [found EXCEPT ![p] = @ \ {e}]
             /\ listed' = [listed EXCEPT ![p] = IF tree[e.path] = "none" THEN @ ELSE @ \cup {e}]
             /\ UNCHANGED <<pc, res>>
    BY <1>4 DEF ListInfo, Earliest
  <2>2. CASE Finish(p, "error")
    <3>1. pc'[p] = "done" /\ res'[p] = "error"
      BY <1>0, <2>2
    <3>. QED  BY <1>1, <1>2, <3>1 DEF Reached
  <2>3. CASE /\ found' = [found EXCEPT ![p] = @ \ {e}]
             /\ listed' = [listed EXCEPT ![p] = IF tree[e.path] = "none" THEN @ ELSE @ \cup {e}]
             /\ UNCHANGED <<pc, res>>
    <3>1. e \in always[p] => tree[e.path] # "none"
      BY <1>2, Standing
    <3>2. always[p] \subseteq found'[p] \cup listed'[p]
      BY <1>0, <1>2, <2>3, <3>1
    <3>. QED  BY <1>1, <1>2, <2>3, <3>2 DEF Reached
  <2>. QED  BY <2>1, <2>2, <2>3
<1>. QED  BY <1>3, <1>4

LEMMA ReachedStep ==
  ASSUME LInv, NEW p \in Procs, Act(p)
  PROVE  \A q \in Procs : Reached(q)'
<1>0. /\ DInv /\ Types /\ RTypes /\ Deep /\ Sided /\ Place(p) /\ Ops(p) /\ Reached(p)
      /\ p \in DOMAIN pc /\ p \in DOMAIN res /\ p \in DOMAIN todo
      /\ p \in DOMAIN always
  BY DEF LInv, DInv, SInv, PInv, Types, RTypes
<1>1. ASSUME NEW q \in Procs, q # p \/ ~(Begin(p) \/ Respond(p))
      PROVE  always'[q] \subseteq always[q] /\ always'[q] \subseteq content'
  BY <1>0, <1>1, Histories DEF LInv, Reached
<1>2. ASSUME NEW q \in Procs \ {p} PROVE Reached(q)'
  <2>1. pc'[q] = pc[q] /\ req'[q] = req[q]
    BY <1>0, Others
  <2>2. todo'[q] = todo[q] /\ found'[q] = found[q] /\ listed'[q] = listed[q] /\ res'[q] = res[q]
    BY <1>0, ListOthers
  <2>3. Reached(q)
    BY DEF LInv
  <2>4. always'[q] \subseteq always[q] /\ always'[q] \subseteq content'
    BY <1>1
  <2>. QED  BY <2>1, <2>2, <2>3, <2>4 DEF Reached
<1>. SUFFICES Reached(p)'
  BY <1>2
<1>. USE DEF Goto, Finish, Fail, local, bound, ghost
<1>3. CASE Begin(p)
  <2>1. always'[p] = content /\ content' = content
    BY <1>0, <1>3 DEF Begin
  <2>2. pc'[p] \in {"create", "lock", "exists"}
    <3>1. PICK r \in asked :
            pc' = [pc EXCEPT ![p] = CASE r.op = "CREATE" -> "create"
                                      [] r.op = "COMPLETE" -> "lock"
                                      [] OTHER -> "exists"]
      BY <1>3 DEF Begin
    <3>. QED  BY <1>0, <3>1
  <2>. QED  BY <2>1, <2>2 DEF Reached
<1>4. CASE Respond(p)
  <2>1. always'[p] = {} /\ pc'[p] = "idle"
    BY <1>0, <1>4 DEF Respond
  <2>. QED  BY <2>1 DEF Reached
<1>5. CASE BucketExists(p)
  <2>1. always'[p] = always[p] /\ always[p] \subseteq content /\ content' = content
    BY <1>0, <1>5 DEF BucketExists, Reached
  <2>2. CASE tree[<<>>] = "dir" /\ req[p].op = "LIST"
    <3>1. pc'[p] = "walk" /\ todo'[p] = {[path |-> <<>>, kind |-> "read"]}
      BY <1>0, <1>5, <2>2 DEF BucketExists
    <3>2. ASSUME NEW k \in always[p] PROVE Ahead([path |-> <<>>, kind |-> "read"], k)
      <4>1. k.path # <<>> /\ k.path \in Seq(Nat)
        BY <1>0, <2>1, Standing
      <4>2. IsPrefix(<<>>, k.path)
        <5>1. Prefix(k.path, 0) = <<>> /\ 0 < Len(k.path)
          BY <4>1 DEF Prefix
        <5>2. IsStrictPrefix(Prefix(k.path, 0), k.path)
          BY <4>1, <5>1, InnerPrefix
        <5>. QED  BY <5>1, <5>2 DEF IsStrictPrefix
      <4>. QED  BY <4>1, <4>2 DEF Ahead
    <3>. QED  BY <2>1, <3>1, <3>2 DEF Reached
  <2>3. CASE tree[<<>>] = "dir" /\ req[p].op # "LIST"
    <3>1. pc'[p] \in {"readdir", "lock"}
      BY <1>0, <1>5, <2>3 DEF BucketExists
    <3>. QED  BY <2>1, <3>1 DEF Reached
  <2>4. CASE tree[<<>>] # "dir"
    <3>1. pc'[p] = "create" \/ (pc'[p] = "done" /\ res'[p] = "NoSuchBucket")
      BY <1>0, <1>5, <2>4 DEF BucketExists
    <3>. QED  BY <2>1, <3>1 DEF Reached
  <2>. QED  BY <2>2, <2>3, <2>4
<1>6. CASE Walk(p)
  BY <1>0, <1>6, WalkReaches
<1>7. CASE ListInfo(p)
  BY <1>0, <1>7, InfoReaches
<1>8. CASE ~(Begin(p) \/ Respond(p) \/ BucketExists(p) \/ Walk(p) \/ ListInfo(p))
  <2>1. always'[p] \subseteq content'
    BY <1>1, <1>8
  <2>2. /\ pc'[p] \notin {"walk", "info"}
        /\ pc'[p] = "done" => req'[p].op # "LIST" \/ res'[p] # "ok"
    <3>1. CASE Unlock(p) \/ LockKey(p) \/ StatBucket(p) \/ MakeBucket(p)
      BY <1>0, <3>1 DEF Unlock, LockKey, StatBucket, MakeBucket, Ops, KeyOps
    <3>2. CASE ReadBucket(p) \/ RemoveBucket(p) \/ RemoveBucketMeta(p)
      BY <1>0, <3>2 DEF ReadBucket, RemoveBucket, RemoveBucketMeta, Ops
    <3>3. CASE \/ CheckConflicts(p) \/ MakeDirs(p) \/ Stage(p) \/ Rename(p) \/ Restat(p)
               \/ WriteSide(p)
      BY <1>0, <3>3 DEF CheckConflicts, MakeDirs, Stage, Rename, Restat, WriteSide
    <3>4. CASE Unlink(p) \/ RemoveFile(p) \/ RemoveSide(p) \/ Prune(p)
      BY <1>0, <3>4 DEF Unlink, RemoveFile, RemoveSide, Prune
    <3>. QED  BY <1>8, <3>1, <3>2, <3>3, <3>4 DEF Act, Step
  <2>. QED  BY <2>1, <2>2 DEF Reached
<1>. QED  BY <1>3, <1>4, <1>5, <1>6, <1>7, <1>8

LEMMA LInvInit == Init => LInv
<1>. SUFFICES ASSUME Init PROVE LInv
  OBVIOUS
<1>1. DInv /\ SInv
  BY DInvInit, CInvInit DEF CInv
<1>2. PICK w \in Workloads : tree = Stored(w) /\ side = w.stored /\ content = w.stored
  BY DEF Init
<1>3. Sided /\ \A p \in Procs : Reached(p)
  BY <1>2 DEF Init, Sided, Reached
<1>4. Deep
  <2>. SUFFICES ASSUME NEW path \in Paths, tree[path] # "none",
                       NEW n \in 0 .. Len(path), n < Len(path)
                PROVE  tree[Prefix(path, n)] = "dir"
    BY DEF Deep
  <2>. DEFINE y == Prefix(path, n)
  <2>1. path \in Seq(Nat) /\ path # <<>> /\ n \in Nat /\ y \in Paths /\ y \in Seq(Nat)
    BY PathType, PathPrefix
  <2>2. PICK k \in w.stored : k \in Keys /\ IsPrefix(path, k.path)
    <3>1. w.stored \subseteq Keys
      BY WorkType
    <3>2. IsPrefix(path, path)
      BY <2>1, PrefixPoints
    <3>. QED  BY <1>2, <2>1, <3>1, <3>2 DEF Stored
  <2>3. k.path \in Seq(Nat)
    BY <2>2, KeyType
  <2>4. IsStrictPrefix(y, path)
    BY <2>1, InnerPrefix
  <2>5. IsPrefix(y, k.path) /\ y # k.path
    <3>1. /\ Len(y) <= Len(path) /\ \A i \in 1 .. Len(y) : y[i] = path[i]
          /\ Len(path) <= Len(k.path) /\ \A i \in 1 .. Len(path) : path[i] = k.path[i]
      BY <2>1, <2>2, <2>3, <2>4, PrefixPoints DEF IsStrictPrefix
    <3>2. Len(y) < Len(path)
      BY <2>1, PathPrefix
    <3>. HIDE DEF y
    <3>3. Len(y) <= Len(k.path) /\ \A i \in 1 .. Len(y) : y[i] = k.path[i]
      BY <2>1, <2>3, <3>1
    <3>4. IsPrefix(y, k.path)
      BY <2>1, <2>3, <3>3, PrefixPoints
    <3>5. Len(y) # Len(k.path)
      BY <2>1, <2>3, <3>1, <3>2
    <3>. QED  BY <3>4, <3>5
  <2>6. [path |-> y, marker |-> FALSE] \notin w.stored
    <3>1. [path |-> y, marker |-> FALSE] # k
      BY <2>5
    <3>. QED  BY <2>2, <2>5, <3>1, StoredFit
  <2>7. w.bucket
    BY <2>2, StoredFit
  <2>. HIDE DEF y
  <2>8. Stored(w)[y] = "dir"
    BY <2>1, <2>2, <2>5, <2>6, <2>7 DEF Stored
  <2>. QED  BY <1>2, <2>8 DEF y
<1>. QED  BY <1>1, <1>3, <1>4 DEF LInv

\* A listing that succeeds has every key that was there from its beginning to its end and
\* none that never was, though it looks at one directory at a time and takes no lock.
\* The walk cannot miss a key: as long as an object or a marker stands, so does each
\* directory above it, and one of them is ahead of the walk until the key is come by.
\* As for OnlyOwnDeleteTakes, nobody deletes below what is stored; and a bucket that
\* may be removed has no markers, whose sidecars its removal takes away (fs.go:82).
THEOREM ListingsAreHonest ==
  ASSUME OwnDeletes, MarkersStay PROVE Spec => []ListIsHonest
<1>1. LInv /\ [Next]_vars => LInv'
  <2>. SUFFICES ASSUME LInv, [Next]_vars PROVE LInv'
    OBVIOUS
  <2>1. DInv'
    BY DInvStep DEF LInv
  <2>2. ASSUME NEW p \in Procs, Act(p) PROVE LInv'
    <3>1. /\ SInv /\ Types /\ Hung /\ Deep /\ Sided /\ Place(p)
      BY DEF LInv, SInv, PInv
    <3>2. Change(p)
      BY <2>2, <3>1, Changes
    <3>3. SInv' /\ Deep' /\ Sided'
      BY <2>2, <3>1, <3>2, SStep, DeepStep, SidedStep
    <3>4. \A q \in Procs : Reached(q)'
      BY <2>2, ReachedStep
    <3>. QED  BY <2>1, <3>3, <3>4 DEF LInv
  <2>3. CASE UNCHANGED vars
    <3>1. SInv'
      BY <2>3, SRest DEF LInv
    <3>2. Deep' /\ Sided' /\ \A p \in Procs : Reached(p)'
      BY <2>3 DEF LInv, Deep, Sided, Reached, Marker, vars, local, ghost
    <3>. QED  BY <2>1, <3>1, <3>2 DEF LInv
  <2>. QED  BY <2>2, <2>3 DEF Next, Rest, Act
<1>2. LInv /\ EInv => ListIsHonest
  BY DEF LInv, EInv, Reached, Seen, ListIsHonest
<1>. QED  BY LInvInit, EInvInit, EInvStep, <1>1, <1>2, PTL DEF Spec
=============================================================================
