----------------------------- MODULE AtomicProofs -----------------------------
(***************************************************************************)
(* For any number of goroutines, keys, bodies and requests: as long as     *)
(* nobody lists, copies an object onto itself, edits files or stops the    *)
(* process, every step of ObjectStore is one of AtomicObjects or none,     *)
(* HEAD answers with one version of its object, and the two files of an    *)
(* object nobody works on agree.  Whatever comes between, GET answers with *)
(* the whole of one version its object had while the request ran.          *)
(***************************************************************************)
EXTENDS ObjectStoreProofs

-----------------------------------------------------------------------------
(***************************************************************************)
(* Store calls are atomic                                                  *)
(***************************************************************************)

Careful == \A r \in Requests : ~Careless(r)

CarefulCall == \A p \in Procs : call[p] \notin {"list", "selfcopy"}

Untouched == edits = 0 /\ crashes = 0

\* Text t says all there is to say of the file at k.
Known(k, t) ==
  /\ t \in Sidecars
  /\ t.etag = file[k].body /\ t.meta = file[k].meta
  /\ t.size = Size[file[k].body] /\ t.mtime = file[k].mtime

\* Nothing was declared for the file at k, and text t says nothing wrong of it.
Guess(k, t) ==
  /\ file[k].meta = Sniffed
  /\ t \in Sidecars =>
       /\ t.meta \in {None, Sniffed}
       /\ t.mtime = file[k].mtime => t.etag \in {None, file[k].body}

\* A PutObject call has linked its file and not yet its sidecar.
Settling(p) == call[p] = "put" /\ pc[p] \in {"restat", "trunc", "write", "publish"}

\* Otherwise the sidecar of an object is true.
SidesTrue ==
  \A k \in Keys :
    /\ file[k] # NoFile
    /\ \A p \in Procs : Key(p) = k => ~Settling(p)
    => Known(k, side[k]) \/ Guess(k, side[k])

\* A call that has not failed yet has no error to return.
ResOk ==
  \A p \in Procs :
    /\ pc[p] \in {"lock", "source"} \cup (Section \ {"unlock"}) /\ call[p] # "delete" =>
         res[p] = "ok"
    /\ pc[p] = "idle" => res[p] = "ok"

\* What a call knows of the file whose sidecar it reads or writes.  Only where
\* nothing was declared do HeadObject and GetObject write.
Sees(p) ==
  LET k == Key(p) IN
  /\ pc[p] \in {"readside", "digest", "trunc", "write", "publish"} => file[k] # NoFile
  /\ pc[p] = "restat" => file[k] # NoFile /\ file[k].meta = Declared(p)
  /\ pc[p] = "readside" => sc[p].size = Size[file[k].body] /\ sc[p].mtime = file[k].mtime
  /\ pc[p] = "digest" => Guess(k, sc[p]) /\ sc[p].mtime = file[k].mtime
  /\ pc[p] \in {"trunc", "write", "publish"} =>
       \/ Known(k, sc[p])
       \/ call[p] # "put" /\ Guess(k, sc[p])
  /\ pc[p] \in {"digest", "trunc", "write", "publish"} /\ call[p] \in {"head", "get"} =>
       Guess(k, sc[p])
  /\ pc[p] = "rmside" => file[k] = NoFile

\* The scratch file: a writer finds its own text in it, a reader no wrong one.
Scratch(p) ==
  LET k == Key(p) IN
  /\ call[p] \in {"put", "setsum"} /\ pc[p] = "write" =>
       scratch[k] = Empty /\ fd[p] = "scratch"
  /\ call[p] \in {"put", "setsum"} /\ pc[p] = "publish" => scratch[k] = sc[p]
  /\ call[p] \in {"head", "get"} /\ pc[p] \in {"write", "publish"} =>
       Guess(k, scratch[k])

\* Which calls come to which places.
Where ==
  \A p \in Procs :
    /\ pc[p] = "idle" => call[p] = "none"
    /\ pc[p] = "lock" => call[p] \in {"head", "get", "setsum", "put", "delete"}
    /\ pc[p] \in {"stat", "readside"} => call[p] \in {"head", "get", "setsum"}
    /\ pc[p] = "digest" => call[p] \in {"head", "get"}
    /\ pc[p] \in {"trunc", "write", "publish"} =>
         call[p] \in {"head", "get", "setsum", "put"}

Truth == /\ OwnBytes /\ ResOk /\ SidesTrue
         /\ \A p \in Procs : Sees(p) /\ Scratch(p)

AInv == TInv /\ CarefulCall /\ LockInv /\ Where /\ (Untouched => Truth)

-----------------------------------------------------------------------------

\* A goroutine leaves the answers of the others alone.
LEMMA OthersMore ==
  ASSUME TypeOK, NEW p \in Procs, Begin(p) \/ LockKey(p) \/ Step(p)
  PROVE  \A q \in Procs \ {p} :
           res'[q] = res[q] /\ info'[q] = info[q] /\ body'[q] = body[q]
<1>. USE DEF TypeOK, local, Call, Fail
<1>1. CASE Begin(p) \/ LockKey(p)
  BY <1>1 DEF Begin, LockKey
<1>2. CASE Unlock(p)
  BY <1>2 DEF Unlock, Continue
<1>3. CASE Respond(p) \/ OpenSource(p) \/ Stage(p) \/ StageFails(p) \/ Rename(p)
  BY <1>3 DEF Respond, OpenSource, Stage, StageFails, Rename
<1>4. CASE Restat(p) \/ Stat(p)
  BY <1>4 DEF Restat, Stat
<1>5. CASE ReadSide(p)
  BY <1>5 DEF ReadSide, Inform
<1>6. CASE Digest(p)
  BY <1>6 DEF Digest, Inform
<1>7. CASE Open(p) \/ Truncate(p) \/ Write(p) \/ Publish(p)
  BY <1>7 DEF Open, Truncate, Write, Publish
<1>8. CASE Unlink(p) \/ RemoveSide(p)
  BY <1>8 DEF Unlink, RemoveSide
<1>. QED  BY <1>1, <1>2, <1>3, <1>4, <1>5, <1>6, <1>7, <1>8 DEF Step

\* Two calls at work on one object are both readers.
LEMMA Apart ==
  ASSUME TInv, CarefulCall, LockInv, NEW p \in Procs, NEW q \in Procs, p # q,
         pc[p] \in Section, pc[q] \in Section, call[p] \notin {"head", "get"}
  PROVE  Key(p) # Key(q)
<1>1. held[Key(p)][p] = "W" /\ held[Key(q)][q] \in {"R", "W"}
  BY DEF LockInv, LockMode, CarefulCall
<1>2. Key(p) \in Keys /\ Key(q) \in Keys
  BY KeyType DEF TInv
<1>. QED  BY <1>1, <1>2 DEF LockInv, Locks!Exclusive

\* Only a rename and an unlink change a file, and both hold its lock.
LEMMA FileStep ==
  ASSUME TInv, CarefulCall, NEW p \in Procs, Begin(p) \/ LockKey(p) \/ Step(p)
  PROVE  \/ file' = file
         \/ /\ Rename(p) \/ Unlink(p)
            /\ \A k \in Keys \ {Key(p)} : file'[k] = file[k]
<1>1. CASE Rename(p) \/ Unlink(p)
  BY <1>1 DEF Rename, Unlink, SetFile, TInv, TypeOK
<1>2. CASE Publish(p)
  BY <1>2 DEF Publish, CarefulCall
<1>3. CASE ~Rename(p) /\ ~Unlink(p) /\ ~Publish(p)
  BY <1>3 DEF Step, Begin, LockKey, Unlock, Respond, OpenSource, Stage, StageFails,
       Restat, Stat, ReadSide, Digest, Open, Truncate, Write, RemoveSide
<1>. QED  BY <1>1, <1>2, <1>3

LEMMA FileStays ==
  ASSUME TInv, CarefulCall, LockInv, NEW p \in Procs, NEW q \in Procs, p # q,
         Begin(p) \/ LockKey(p) \/ Step(p), pc[q] \in Section
  PROVE  file'[Key(q)] = file[Key(q)]
<1>1. CASE Rename(p) \/ Unlink(p)
  <2>1. pc[p] \in {"rename", "unlink"} /\ call[p] \in {"put", "delete"}
    BY <1>1 DEF Rename, Unlink, TInv, Busy
  <2>2. Key(p) # Key(q)
    BY <2>1, Apart DEF Section
  <2>. QED  BY <1>1, <2>2, FileStep, KeyType DEF TInv
<1>2. CASE ~(Rename(p) \/ Unlink(p))
  BY <1>2, FileStep
<1>. QED  BY <1>1, <1>2

\* Which sidecar files a step writes.
LEMMA TextStep ==
  ASSUME TInv, NEW p \in Procs, Begin(p) \/ LockKey(p) \/ Step(p)
  PROVE  \/ UNCHANGED <<side, scratch, fd>>
         \/ /\ Truncate(p) \/ Write(p) \/ Publish(p) \/ RemoveSide(p)
            /\ \A k \in Keys \ {Key(p)} : side'[k] = side[k] /\ scratch'[k] = scratch[k]
            /\ \A q \in Procs \ {p} : Key(q) # Key(p) => fd'[q] = fd[q]
<1>. USE DEF TInv, TypeOK
<1>1. CASE Truncate(p)
  BY <1>1 DEF Truncate
<1>2. CASE Write(p)
  BY <1>2 DEF Write
<1>3. CASE Publish(p)
  BY <1>3 DEF Publish, Relink, disk
<1>4. CASE RemoveSide(p)
  BY <1>4 DEF RemoveSide, Relink
<1>5. CASE ~Truncate(p) /\ ~Write(p) /\ ~Publish(p) /\ ~RemoveSide(p)
  BY <1>5 DEF Step, Begin, LockKey, Unlock, Respond, OpenSource, Stage, StageFails,
     Rename, Restat, Stat, ReadSide, Digest, Open, Unlink, disk
<1>. QED  BY <1>1, <1>2, <1>3, <1>4, <1>5

-----------------------------------------------------------------------------
(***************************************************************************)
(* What readSidecar makes of a true sidecar                                *)
(***************************************************************************)

LEMMA ReadKnown ==
  ASSUME NEW k \in Keys, NEW t, Known(k, t)
  PROVE  Reconcile(Parse(t), Size[file[k].body], file[k].mtime) = t
<1>1. Parse(t) = t
  BY Sentinels DEF Known, Parse
<1>. QED  BY <1>1 DEF Known, Reconcile

LEMMA ReadGuess ==
  ASSUME NEW k \in Keys, NEW t \in Sidecars \cup {Absent, Empty, Garbled},
         Guess(k, t), NEW size \in Nat, NEW mtime \in Nat
  PROVE  Guess(k, Reconcile(Parse(t), size, mtime))
<1>. DEFINE r == Reconcile(Parse(t), size, mtime)
<1>1. Parse(t) \in Sidecars
  BY ParseType
<1>2. Guess(k, Parse(t))
  BY DEF Guess, Parse, Blank, Sidecar
<1>3. \/ r = Parse(t)
      \/ r.meta = Parse(t).meta /\ r.etag = None
  BY <1>1 DEF Reconcile, Sidecars
<1>. QED  BY <1>1, <1>2, <1>3 DEF Guess

\* A checksum makes no sidecar less true.
LEMMA SumTrue ==
  ASSUME NEW k \in Keys, NEW t \in Sidecars, NEW b \in Bodies \cup {None}
  PROVE  /\ Known(k, t) => Known(k, [t EXCEPT !.sum = b])
         /\ Guess(k, t) => Guess(k, [t EXCEPT !.sum = b])
<1>1. /\ [t EXCEPT !.sum = b] \in Sidecars
      /\ [t EXCEPT !.sum = b].etag = t.etag /\ [t EXCEPT !.sum = b].meta = t.meta
      /\ [t EXCEPT !.sum = b].size = t.size /\ [t EXCEPT !.sum = b].mtime = t.mtime
  BY DEF Sidecars
<1>. QED  BY <1>1 DEF Known, Guess

-----------------------------------------------------------------------------
(***************************************************************************)
(* Every step keeps the invariant                                          *)
(***************************************************************************)

LEMMA CarefulStep ==
  ASSUME Careful, TInv, CarefulCall, NEW p \in Procs, Begin(p) \/ LockKey(p) \/ Step(p)
  PROVE  CarefulCall'
<1>1. \A q \in Procs \ {p} : call'[q] \notin {"list", "selfcopy"}
  BY Others DEF TInv, CarefulCall
<1>2. call'[p] = call[p] \/ Begin(p) \/ Unlock(p) \/ call'[p] = "none"
  BY DEF Step, LockKey, Respond, OpenSource, Stage, StageFails, Rename, Restat,
         Stat, ReadSide, Digest, Open, Truncate, Write, Publish, Unlink,
         RemoveSide, Call, TInv, TypeOK
<1>3. CASE Begin(p)
  <2>1. PICK r \in Requests : call' = [call EXCEPT ![p] = FirstCall(r.op)]
    BY <1>3 DEF Begin
  <2>2. FirstCall(r.op) \notin {"list", "selfcopy"}
    BY RequestsType DEF FirstCall, Request, Careful, Careless
  <2>. QED  BY <1>1, <2>1, <2>2 DEF CarefulCall, TInv, TypeOK
<1>4. CASE Unlock(p)
  <2>1. req[p] \in Requests
    BY <1>4 DEF Unlock, TInv, Busy
  <2>2. ~(req[p].op = "COPY" /\ req[p].key = req[p].src)
    BY <2>1 DEF Careful, Careless
  <2>3. PICK c \in {"get", "put", "none", "delete", "setsum"} :
          call' = [call EXCEPT ![p] = c]
    BY <1>4, <2>2 DEF Unlock, Continue, Call
  <2>. QED  BY <1>1, <2>3 DEF CarefulCall, TInv, TypeOK
<1>. QED  BY <1>1, <1>2, <1>3, <1>4 DEF CarefulCall

LEMMA WhereStep ==
  ASSUME TInv, CarefulCall, CarefulCall', Where,
         NEW p \in Procs, Begin(p) \/ LockKey(p) \/ Step(p)
  PROVE  Where'
<1>. USE DEF TInv, TypeOK, Goto, local, Call, Fail
<1>1. \A q \in Procs \ {p} : pc'[q] = pc[q] /\ call'[q] = call[q]
  BY Others
<1>. DEFINE Fits(c, l) ==
       /\ l = "idle" => c = "none"
       /\ l = "lock" => c \in {"head", "get", "setsum", "put", "delete"}
       /\ l \in {"stat", "readside"} => c \in {"head", "get", "setsum"}
       /\ l = "digest" => c \in {"head", "get"}
       /\ l \in {"trunc", "write", "publish"} => c \in {"head", "get", "setsum", "put"}
<1>2. Fits(call[p], pc[p])
  BY DEF Where
<1>3. Fits(call'[p], pc'[p])
  <2>1. CASE Begin(p)
    <3>1. PICK r \in Requests : /\ call' = [call EXCEPT ![p] = FirstCall(r.op)]
                                /\ pc' = [pc EXCEPT ![p] = IF r.op = "LIST"
                                             THEN "stat" ELSE "lock"]
      BY <2>1 DEF Begin
    <3>2. r.op # "LIST" /\ FirstCall(r.op) \in {"put", "delete", "head"}
      BY <3>1, RequestsType DEF FirstCall, CarefulCall, Request
    <3>. QED  BY <3>1, <3>2
  <2>2. CASE LockKey(p)
    BY <1>2, <2>2 DEF LockKey, FirstStep
  <2>3. CASE Unlock(p)
    BY <2>3 DEF Unlock, Continue, CarefulCall
  <2>4. CASE Respond(p) \/ OpenSource(p) \/ Stage(p) \/ StageFails(p) \/ Rename(p)
    BY <2>4 DEF Respond, OpenSource, Stage, StageFails, Rename, Busy
  <2>5. CASE Restat(p)
    BY <2>5 DEF Restat, Busy
  <2>6. CASE ReadSide(p)
    BY <1>2, <2>6 DEF ReadSide
  <2>7. CASE Digest(p)
    BY <1>2, <2>7 DEF Digest
  <2>8. CASE Open(p) \/ Truncate(p) \/ Write(p) \/ Publish(p)
    BY <1>2, <2>8 DEF Open, Truncate, Write, Publish
  <2>9. CASE Unlink(p) \/ RemoveSide(p)
    BY <2>9 DEF Unlink, RemoveSide
  <2>10. CASE Stat(p)
    BY <1>2, <2>10 DEF Stat
  <2>. QED
    BY <2>1, <2>2, <2>3, <2>4, <2>5, <2>6, <2>7, <2>8, <2>9, <2>10 DEF Step
<1>. QED  BY <1>1, <1>3 DEF Where

LEMMA ResStep ==
  ASSUME TInv, CarefulCall, ResOk, NEW p \in Procs, Begin(p) \/ LockKey(p) \/ Step(p),
         \A q \in Procs : pc[q] = "publish" /\ call[q] \in {"put", "setsum"} =>
           scratch[Key(q)] # Absent
  PROVE  ResOk'
<1>. USE DEF TInv, TypeOK, Goto, local, Call, Fail, Section
<1>1. \A q \in Procs \ {p} : pc'[q] = pc[q] /\ call'[q] = call[q] /\ res'[q] = res[q]
  BY Others, OthersMore
<1>. DEFINE Fine(c, l, r) ==
       /\ l \in {"lock", "source"} \cup (Section \ {"unlock"}) /\ c # "delete" => r = "ok"
       /\ l = "idle" => r = "ok"
<1>2. Fine(call[p], pc[p], res[p])
  BY DEF ResOk
<1>3. Fine(call'[p], pc'[p], res'[p])
  <2>1. CASE Begin(p)
    BY <1>2, <2>1 DEF Begin, Busy, ResOk
  <2>2. CASE LockKey(p)
    BY <1>2, <2>2 DEF LockKey, FirstStep
  <2>3. CASE Unlock(p)
    BY <2>3 DEF Unlock, Continue
  <2>4. CASE Respond(p) \/ OpenSource(p) \/ Stage(p) \/ StageFails(p) \/ Rename(p)
    BY <1>2, <2>4 DEF Respond, OpenSource, Stage, StageFails, Rename, Stopped
  <2>5. CASE Restat(p)
    BY <1>2, <2>5 DEF Restat
  <2>6. CASE ReadSide(p)
    BY <1>2, <2>6 DEF ReadSide
  <2>7. CASE Digest(p)
    BY <1>2, <2>7 DEF Digest
  <2>8. CASE Open(p) \/ Truncate(p) \/ Write(p) \/ Publish(p)
    BY <1>2, <2>8 DEF Open, Truncate, Write, Publish
  <2>9. CASE Unlink(p) \/ RemoveSide(p)
    BY <1>2, <2>9 DEF Unlink, RemoveSide, Busy
  <2>10. CASE Stat(p)
    BY <1>2, <2>10 DEF Stat
  <2>. QED
    BY <2>1, <2>2, <2>3, <2>4, <2>5, <2>6, <2>7, <2>8, <2>9, <2>10 DEF Step
<1>. QED  BY <1>1, <1>3 DEF ResOk

\* What is known of a file stays so while the file is the same.
LEMMA KnownStays ==
  ASSUME NEW k \in Keys, NEW t, file'[k] = file[k]
  PROVE  (Known(k, t) => Known(k, t)') /\ (Guess(k, t) => Guess(k, t)')
BY DEF Known, Guess

LEMMA SeesOthers ==
  ASSUME TInv, CarefulCall, LockInv, NEW p \in Procs, NEW q \in Procs, p # q,
         Begin(p) \/ LockKey(p) \/ Step(p), Sees(q)
  PROVE  Sees(q)'
<1>1. /\ pc'[q] = pc[q] /\ call'[q] = call[q] /\ sc'[q] = sc[q] /\ req'[q] = req[q]
      /\ info'[q] = info[q] /\ Key(q)' = Key(q)
  BY Others, OthersMore DEF TInv
<1>2. PICK k \in Keys : k = Key(q)
  BY KeyType DEF TInv
<1>3. pc[q] \in Section => file'[k] = file[k]
  BY <1>2, FileStays
<1>4. Declared(q)' = Declared(q)
  BY <1>1 DEF Declared
<1>5. pc[q] \in Section => /\ (Known(k, sc[q]) => Known(k, sc[q])')
                          /\ (Guess(k, sc[q]) => Guess(k, sc[q])')
  <2>1. PICK s : s = sc[q]
    OBVIOUS
  <2>2. pc[q] \in Section => (Known(k, s) => Known(k, s)') /\ (Guess(k, s) => Guess(k, s)')
    BY <1>3, KnownStays
  <2>. QED  BY <1>1, <2>1, <2>2 DEF Known, Guess
<1>6. {"restat", "readside", "digest", "trunc", "write", "publish", "rmside"} \subseteq Section
  BY DEF Section
<1>. QED  BY <1>1, <1>2, <1>3, <1>4, <1>5, <1>6 DEF Sees, Known, Guess

\* Who reads a sidecar reads a true one: whoever is replacing it holds the lock.
LEMMA SideRead ==
  ASSUME TInv, CarefulCall, LockInv, Where, SidesTrue, NEW p \in Procs,
         pc[p] = "readside", file[Key(p)] # NoFile
  PROVE  Known(Key(p), side[Key(p)]) \/ Guess(Key(p), side[Key(p)])
<1>1. ASSUME NEW q \in Procs, Key(q) = Key(p) PROVE ~Settling(q)
  <2>1. CASE q = p
    BY <2>1 DEF Where, Settling
  <2>2. CASE q # p
    BY <1>1, <2>2, Apart DEF Settling, Section
  <2>. QED  BY <2>1, <2>2
<1>. QED  BY <1>1, KeyType DEF SidesTrue, TInv

LEMMA ReadTrue ==
  ASSUME TInv, CarefulCall, LockInv, Where, Truth, NEW p \in Procs,
         pc[p] = "readside", NEW k \in Keys, k = Key(p), NEW s,
         s = Reconcile(Parse(side[k]), sc[p].size, sc[p].mtime)
  PROVE  /\ s \in Sidecars /\ s.mtime = file[k].mtime /\ file[k] \in Version
         /\ Known(k, s) \/ Guess(k, s)
         /\ Known(k, s) => s.etag # None /\ s.meta # None
<1>1. /\ side[k] \in Sidecars \cup {Absent, Empty, Garbled}
      /\ file[k] # NoFile => file[k] \in Version /\ Size[file[k].body] \in Nat
                              /\ file[k].mtime \in Nat
  BY SizesAreNat DEF TInv, TypeOK, Version
<1>2. /\ file[k] # NoFile
      /\ sc[p].size = Size[file[k].body] /\ sc[p].mtime = file[k].mtime
  BY DEF Sees, Truth
<1>3. Known(k, side[k]) \/ Guess(k, side[k])
  BY <1>2, SideRead DEF Truth
<1>4. s \in Sidecars /\ s.mtime = file[k].mtime
  <2>1. PICK q \in Sidecars : q = Parse(side[k])
    BY <1>1, ParseType
  <2>2. PICK z \in Nat : z = sc[p].size
    BY <1>1, <1>2
  <2>3. PICK t \in Nat : t = sc[p].mtime
    BY <1>1, <1>2
  <2>4. s = Reconcile(q, z, t)
    BY <2>1, <2>2, <2>3
  <2>5. Reconcile(q, z, t) \in Sidecars /\ Reconcile(q, z, t).mtime = t
    BY ReconcileType
  <2>6. s.mtime = t
    BY <2>4, <2>5
  <2>. QED  BY <1>2, <2>3, <2>4, <2>5, <2>6
<1>5. Known(k, s) \/ Guess(k, s)
  BY <1>1, <1>2, <1>3, ReadKnown, ReadGuess
<1>6. Known(k, s) => s.etag # None /\ s.meta # None
  <2>1. file[k].body # None /\ file[k].meta # None
    BY <1>1, <1>2, Sentinels DEF Version
  <2>. QED  BY <2>1 DEF Known
<1>. QED  BY <1>1, <1>2, <1>4, <1>5, <1>6

\* The digest is computed of the file the sidecar was read for.
LEMMA DigestTrue ==
  ASSUME TInv, CarefulCall, LockInv, Where, Truth, NEW p \in Procs, Digest(p),
         NEW k \in Keys, k = Key(p)
  PROVE  /\ file[k] \in Version /\ file' = file /\ call' = call /\ Key(p)' = k
         /\ call[p] \in {"head", "get"} /\ Guess(k, sc[p])
         /\ pc'[p] = "trunc" /\ sc'[p].meta = Sniffed
         /\ sc'[p].etag = file[k].body /\ sc'[p].mtime = file[k].mtime
         /\ Inform(p, sc'[p]) /\ UNCHANGED res
<1>. USE DEF TInv, Goto
<1>1. /\ pc[p] = "digest" /\ file[k] # NoFile /\ file' = file /\ Key(p)' = k
      /\ Guess(k, sc[p]) /\ sc[p].mtime = file[k].mtime /\ call' = call
      /\ call[p] \in {"head", "get"}
  BY DEF Digest, Sees, Key, Where, Truth
<1>2. file[k] \in Version /\ sc[p] \in Sidecars
  BY <1>1 DEF TypeOK
<1>3. sc[p].meta \in {None, Sniffed} /\ sc[p].etag \in {None, file[k].body}
  BY <1>1, <1>2 DEF Guess
<1>4. PICK u \in Sidecars : u = sc'[p]
  BY StepType DEF TypeOK, Step
<1>5. u.meta = Sniffed /\ u.etag = file[k].body /\ u.mtime = sc[p].mtime
  BY <1>1, <1>2, <1>3, <1>4 DEF Digest, TypeOK, Sidecars
<1>6. pc'[p] = "trunc" /\ Inform(p, sc'[p]) /\ UNCHANGED res
  BY <1>1 DEF Digest, TypeOK
<1>. QED  BY <1>1, <1>2, <1>4, <1>5, <1>6

LEMMA SeesOwn ==
  ASSUME TInv, CarefulCall, LockInv, Where, Truth, NEW p \in Procs,
         Begin(p) \/ LockKey(p) \/ Step(p)
  PROVE  Sees(p)'
<1>. USE DEF TInv, Goto, local
<1>0. PICK k \in Keys : k = Key(p)
  BY KeyType
<1>1. /\ side[k] \in Sidecars \cup {Absent, Empty, Garbled} /\ sc[p] \in Sidecars
      /\ file[k] # NoFile => file[k] \in Version /\ Size[file[k].body] \in Nat
                              /\ file[k].mtime \in Nat
  BY SizesAreNat DEF TypeOK, Version
<1>2. Sees(p)
  BY DEF Truth
<1>. DEFINE Places == {"restat", "readside", "digest", "trunc", "write", "publish", "rmside"}
<1>3. CASE pc'[p] \notin Places
  BY <1>3 DEF Sees
<1>4. CASE Stat(p) /\ pc'[p] \in Places
  <2>1. file[k] # NoFile
    BY <1>0, <1>4 DEF Stat, Fail, TypeOK
  <2>2. /\ pc' = [pc EXCEPT ![p] = "readside"] /\ Key(p)' = k /\ file' = file
        /\ sc' = [sc EXCEPT ![p] = Sidecar(None, None, Size[file[k].body], file[k].mtime, None)]
    BY <1>0, <1>4, <2>1 DEF Stat, CarefulCall, Key
  <2>3. pc'[p] = "readside" /\ sc'[p].size = Size[file[k].body] /\ sc'[p].mtime = file[k].mtime
    BY <2>2 DEF TypeOK, Sidecar
  <2>. QED  BY <2>1, <2>2, <2>3 DEF Sees
<1>5. CASE ReadSide(p) /\ pc'[p] \in Places
  <2>. DEFINE s == Reconcile(Parse(side[k]), sc[p].size, sc[p].mtime)
  <2>1. /\ pc[p] = "readside" /\ file[k] # NoFile /\ file' = file /\ Key(p)' = k
        /\ call' = call
    BY <1>0, <1>2, <1>5 DEF ReadSide, Sees, Key
  <2>2. PICK u : u = s
    OBVIOUS
  <2>3. /\ u \in Sidecars /\ u.mtime = file[k].mtime
        /\ Known(k, u) \/ Guess(k, u)
        /\ Known(k, u) => u.etag # None /\ u.meta # None
    BY <1>0, <2>1, <2>2, ReadTrue
  <2>6. CASE call[p] = "setsum"
    <3>1. /\ sc' = [sc EXCEPT ![p] = [u EXCEPT !.sum = input[p]]]
          /\ pc' = [pc EXCEPT ![p] = "trunc"]
      BY <1>0, <1>5, <2>2, <2>6 DEF ReadSide
    <3>2. PICK t : t = [u EXCEPT !.sum = input[p]]
      OBVIOUS
    <3>3. Known(k, t) \/ Guess(k, t)
      BY <2>3, <3>2, SumTrue DEF TypeOK
    <3>4. Known(k, t)' \/ Guess(k, t)'
      BY <2>1, <3>3, KnownStays
    <3>5. sc'[p] = t /\ pc'[p] = "trunc"
      BY <3>1, <3>2 DEF TypeOK
    <3>. QED  BY <2>1, <2>6, <3>4, <3>5 DEF Sees, Known, Guess
  <2>7. CASE call[p] # "setsum"
    <3>1. u.etag = None \/ u.meta = None
      BY <1>0, <1>5, <2>2, <2>7 DEF ReadSide, TypeOK
    <3>2. /\ sc' = [sc EXCEPT ![p] = u]
          /\ pc' = [pc EXCEPT ![p] = "digest"]
      BY <1>0, <1>5, <2>2, <2>7, <3>1 DEF ReadSide
    <3>3. Guess(k, u)'
      BY <2>1, <2>3, <3>1, KnownStays
    <3>4. sc'[p] = u /\ pc'[p] = "digest"
      BY <3>2 DEF TypeOK
    <3>. QED  BY <2>1, <2>3, <3>3, <3>4 DEF Sees, Guess
  <2>. QED  BY <2>6, <2>7
<1>6. CASE Digest(p) /\ pc'[p] \in Places
  <2>1. PICK u : u = sc'[p]
    OBVIOUS
  <2>2. /\ file[k] \in Version /\ file' = file /\ call' = call /\ Key(p)' = k
        /\ pc'[p] = "trunc" /\ u.meta = Sniffed /\ u.etag = file[k].body
        /\ u.mtime = file[k].mtime /\ Guess(k, sc[p]) /\ call[p] \in {"head", "get"}
    BY <1>0, <1>6, <2>1, DigestTrue
  <2>3. Guess(k, u)
    BY <2>2 DEF Guess
  <2>4. Guess(k, u)'
    BY <2>2, <2>3, KnownStays
  <2>5. file[k] # NoFile
    BY <2>2, Sentinels
  <2>. QED  BY <2>1, <2>2, <2>4, <2>5 DEF Sees, Guess
<1>7. CASE Restat(p) /\ pc'[p] \in Places
  <2>1. /\ pc[p] = "restat" /\ file[k] # NoFile /\ file[k].body = input[p]
        /\ file[k].meta = Declared(p) /\ call[p] = "put"
    BY <1>0, <1>2, <1>7 DEF Restat, Sees, Truth, OwnBytes, Busy
  <2>2. PICK t : t = Sidecar(Declared(p), input[p], Size[input[p]], file[k].mtime, DeclaredSum(p))
    OBVIOUS
  <2>3. sc' = [sc EXCEPT ![p] = t] /\ pc' = [pc EXCEPT ![p] = "trunc"]
        /\ file' = file /\ call' = call /\ Key(p)' = k
    BY <1>0, <1>7, <2>1, <2>2 DEF Restat, Key
  <2>4. DeclaredSum(p) \in Bodies \cup {None}
    BY DEF DeclaredSum, TypeOK, Request
  <2>5. Known(k, t)
    BY <1>1, <2>1, <2>2, <2>4 DEF Known, Sidecar, Sidecars, Version
  <2>6. Known(k, t)'
    BY <2>3, <2>5, KnownStays
  <2>7. sc'[p] = t /\ pc'[p] = "trunc"
    BY <2>3 DEF TypeOK
  <2>. QED  BY <2>1, <2>3, <2>6, <2>7 DEF Sees, Known
<1>8. CASE (Truncate(p) \/ Write(p)) /\ pc'[p] \in Places
  <2>1. /\ pc[p] \in {"trunc", "write"} /\ pc'[p] \in {"write", "publish"}
        /\ file' = file /\ sc' = sc /\ call' = call /\ Key(p)' = k
    BY <1>0, <1>8 DEF Truncate, Write, Key, TypeOK
  <2>. QED  BY <1>0, <1>2, <2>1 DEF Sees, Known, Guess
<1>9. CASE Rename(p)
  <2>1. /\ pc'[p] = "restat" /\ Key(p)' = k /\ Declared(p)' = Declared(p)
        /\ file'[k] = [body |-> tmp[p].body, mtime |-> tmp[p].mtime, meta |-> Declared(p)]
    BY <1>0, <1>9 DEF Rename, SetFile, Key, Declared, TypeOK
  <2>2. OwnBytes'
    BY <1>9, OwnStep DEF Truth
  <2>3. file'[k] # NoFile
    BY <2>1, <2>2 DEF OwnBytes
  <2>. QED  BY <2>1, <2>3 DEF Sees
<1>10. CASE Unlink(p)
  <2>1. pc'[p] = "rmside" /\ Key(p)' = k /\ file'[k] = NoFile
    BY <1>0, <1>10 DEF Unlink, SetFile, Key, TypeOK
  <2>. QED  BY <2>1 DEF Sees
<1>11. CASE /\ ~Stat(p) /\ ~ReadSide(p) /\ ~Digest(p) /\ ~Restat(p) /\ ~Truncate(p)
            /\ ~Write(p) /\ ~Rename(p) /\ ~Unlink(p)
  <2>1. pc'[p] \notin Places
    <3>0. pc \in [Procs -> PCs]
      BY DEF TypeOK
    <3>1. ASSUME NEW l, l \notin Places, Goto(p, l) PROVE pc'[p] \notin Places
      BY <3>0, <3>1
    <3>2. CASE Begin(p)
      BY <3>1, <3>2 DEF Begin
    <3>3. CASE LockKey(p) \/ Respond(p) \/ OpenSource(p)
      BY <3>1, <3>3 DEF LockKey, FirstStep, Respond, OpenSource, Call
    <3>4. CASE Unlock(p)
      BY <3>1, <3>4 DEF Unlock, Continue, Call
    <3>5. CASE Stage(p) \/ StageFails(p) \/ Open(p)
      BY <3>1, <3>5 DEF Stage, StageFails, Open, Fail
    <3>6. CASE Publish(p) \/ RemoveSide(p)
      BY <3>1, <3>6 DEF Publish, RemoveSide, Fail
    <3>. QED  BY <1>11, <3>2, <3>3, <3>4, <3>5, <3>6 DEF Step
  <2>. QED  BY <1>3, <2>1
<1>. QED  BY <1>3, <1>4, <1>5, <1>6, <1>7, <1>8, <1>9, <1>10, <1>11

\* Of a file nobody declared anything for, a broken text says nothing wrong.
LEMMA GuessBroken ==
  ASSUME NEW k \in Keys, file[k].meta = Sniffed, NEW t \in {Absent, Empty, Garbled}
  PROVE  Guess(k, t)
BY Sentinels DEF Guess

\* Whoever is about to write a sidecar, or has, was so before the step or began to.
LEMMA WriteStep ==
  ASSUME TInv, NEW p \in Procs, Begin(p) \/ LockKey(p) \/ Step(p),
         pc'[p] \in {"write", "publish"}
  PROVE  Truncate(p) \/ Write(p)
<1>0. pc \in [Procs -> PCs]
  BY DEF TInv, TypeOK
<1>1. ASSUME NEW l, l \notin {"write", "publish"}, Goto(p, l) PROVE FALSE
  BY <1>0, <1>1 DEF Goto
<1>2. CASE Begin(p)
  BY <1>1, <1>2 DEF Begin
<1>3. CASE LockKey(p) \/ Respond(p) \/ OpenSource(p)
  BY <1>1, <1>3 DEF LockKey, FirstStep, Respond, OpenSource, Call
<1>4. CASE Unlock(p)
  BY <1>1, <1>4 DEF Unlock, Continue, Call
<1>5. CASE Stage(p) \/ StageFails(p) \/ Open(p) \/ Rename(p) \/ Unlink(p)
  BY <1>1, <1>5 DEF Stage, StageFails, Open, Rename, Unlink, Fail
<1>6. CASE Publish(p) \/ RemoveSide(p) \/ Stat(p) \/ Restat(p)
  BY <1>1, <1>6 DEF Publish, RemoveSide, Stat, Restat, Fail
<1>7. CASE ReadSide(p) \/ Digest(p)
  BY <1>1, <1>7 DEF ReadSide, Digest, Fail
<1>. QED  BY <1>2, <1>3, <1>4, <1>5, <1>6, <1>7 DEF Step

LEMMA ScratchOthers ==
  ASSUME TInv, CarefulCall, LockInv, NEW p \in Procs, NEW q \in Procs, p # q,
         Begin(p) \/ LockKey(p) \/ Step(p), Sees(p), Sees(q), Scratch(q)
  PROVE  Scratch(q)'
<1>1. /\ pc'[q] = pc[q] /\ call'[q] = call[q] /\ sc'[q] = sc[q] /\ Key(q)' = Key(q)
  BY Others DEF TInv
<1>2. PICK k \in Keys : k = Key(q)
  BY KeyType DEF TInv
<1>3. CASE pc[q] \notin {"write", "publish"}
  BY <1>1, <1>3 DEF Scratch
<1>4. CASE pc[q] \in {"write", "publish"}
  <2>1. file'[k] = file[k]
    BY <1>2, <1>4, FileStays DEF Section
  <2>2. CASE scratch'[k] = scratch[k] /\ fd'[q] = fd[q]
    BY <1>1, <1>2, <1>4, <2>1, <2>2 DEF Scratch, Guess
  <2>3. CASE ~(scratch'[k] = scratch[k] /\ fd'[q] = fd[q])
    <3>1. /\ Truncate(p) \/ Write(p) \/ Publish(p) \/ RemoveSide(p)
          /\ Key(p) = k
      BY <1>2, <2>3, TextStep
    <3>2. pc[p] \in Section
      BY <3>1 DEF Truncate, Write, Publish, RemoveSide, Section
    <3>3. call[p] \in {"head", "get"} /\ call[q] \in {"head", "get"}
      BY <1>2, <1>4, <3>1, <3>2, Apart DEF Section
    <3>4. Guess(k, scratch[k])
      BY <1>2, <1>4, <3>3 DEF Scratch
    <3>5. pc[p] = "write" => Guess(k, sc[p])
      BY <3>1, <3>3 DEF Sees
    <3>6. PICK t : t = scratch'[k]
      OBVIOUS
    <3>7. t \in {scratch[k], Absent, Empty, Garbled} \/ (pc[p] = "write" /\ t = sc[p])
      BY <3>1, <3>6, DiskStep
    <3>8. Guess(k, t)
      BY <3>4, <3>5, <3>7, GuessBroken DEF Guess
    <3>9. Guess(k, t)'
      BY <2>1, <3>8, KnownStays
    <3>. QED  BY <1>1, <1>2, <1>4, <3>3, <3>6, <3>9 DEF Scratch, Guess
  <2>. QED  BY <2>2, <2>3
<1>. QED  BY <1>3, <1>4

LEMMA ScratchOwn ==
  ASSUME TInv, CarefulCall, LockInv, Truth, NEW p \in Procs,
         Begin(p) \/ LockKey(p) \/ Step(p)
  PROVE  Scratch(p)'
<1>1. CASE pc'[p] \notin {"write", "publish"}
  BY <1>1 DEF Scratch
<1>2. CASE pc'[p] \in {"write", "publish"}
  <2>0. PICK k \in Keys : k = Key(p)
    BY KeyType DEF TInv
  <2>1. Sees(p) /\ Scratch(p)
    BY DEF Truth
  <2>2. Truncate(p) \/ Write(p)
    BY <1>2, WriteStep
  <2>3. file' = file /\ call' = call /\ sc' = sc /\ Key(p)' = k
    BY <2>0, <2>2 DEF Truncate, Write, local, Key
  <2>4. CASE Truncate(p)
    <3>1. pc[p] = "trunc" /\ pc'[p] = "write" /\ scratch'[k] = Empty /\ fd'[p] = "scratch"
      BY <2>0, <2>4 DEF Truncate, Goto, TInv, TypeOK
    <3>2. call[p] \in {"head", "get"} => Guess(k, Empty)
      BY <2>0, <2>1, <3>1, GuessBroken DEF Sees, Guess
    <3>. QED  BY <2>3, <3>1, <3>2 DEF Scratch, Guess
  <2>5. CASE Write(p)
    <3>1. pc[p] = "write" /\ pc'[p] = "publish"
      BY <2>5 DEF Write, Goto, TInv, TypeOK
    <3>2. CASE call[p] \in {"put", "setsum"}
      <4>1. scratch[k] = Empty /\ fd[p] = "scratch"
        BY <2>0, <2>1, <3>1, <3>2 DEF Scratch
      <4>2. scratch' = [scratch EXCEPT ![k] = sc[p]]
        BY <2>0, <2>5, <4>1 DEF Write, Overlay
      <4>3. scratch'[k] = sc[p]
        BY <4>2 DEF TInv, TypeOK
      <4>. QED  BY <2>3, <3>1, <3>2, <4>3 DEF Scratch
    <3>3. CASE call[p] \in {"head", "get"}
      <4>1. Guess(k, scratch[k]) /\ Guess(k, sc[p])
        BY <2>0, <2>1, <3>1, <3>3 DEF Sees, Scratch
      <4>2. PICK t : t = scratch'[k]
        OBVIOUS
      <4>3. t \in {scratch[k], Absent, Empty, Garbled} \/ t = sc[p]
        BY <4>2, DiskStep
      <4>4. Guess(k, t)
        BY <4>1, <4>3, GuessBroken DEF Guess
      <4>5. Guess(k, t)'
        BY <2>3, <4>4, KnownStays
      <4>. QED  BY <2>3, <3>1, <3>3, <4>2, <4>5 DEF Scratch, Guess
    <3>. QED  BY <2>3, <3>2, <3>3 DEF Scratch
  <2>. QED  BY <2>2, <2>4, <2>5
<1>. QED  BY <1>1, <1>2

\* The sidecar of an object that nobody is replacing stays true.
LEMMA SidesStep ==
  ASSUME TInv, CarefulCall, LockInv, Where, Truth, NEW p \in Procs,
         Begin(p) \/ LockKey(p) \/ Step(p)
  PROVE  SidesTrue'
<1>. USE DEF TInv
<1>. SUFFICES ASSUME NEW k \in Keys, file'[k] # NoFile,
                     \A q \in Procs : Key(q)' = k => ~Settling(q)'
              PROVE  (Known(k, side[k]) \/ Guess(k, side[k]))'
  BY DEF SidesTrue
<1>0. /\ Sees(p) /\ Scratch(p)
      /\ sc[p] \in Sidecars
  BY DEF Truth, TypeOK
<1>1. file'[k] = file[k]
  <2>1. CASE Rename(p) /\ Key(p) = k
    <3>1. Key(p)' = k /\ pc'[p] = "restat" /\ call'[p] = call[p] /\ call[p] = "put"
      BY <2>1 DEF Rename, Goto, TypeOK, Key, Busy
    <3>. QED  BY <3>1 DEF Settling
  <2>2. CASE Unlink(p) /\ Key(p) = k
    BY <2>2 DEF Unlink, SetFile, TypeOK
  <2>. QED  BY <2>1, <2>2, FileStep
<1>2. SUFFICES Known(k, side'[k]) \/ Guess(k, side'[k])
  <2>1. PICK t : t = side'[k]
    OBVIOUS
  <2>2. (Known(k, t) => Known(k, t)') /\ (Guess(k, t) => Guess(k, t)')
    BY <1>1, KnownStays
  <2>. QED  BY <1>2, <2>1, <2>2 DEF Known, Guess
<1>3. CASE \E q \in Procs : Key(q) = k /\ Settling(q)
  <2>1. PICK q \in Procs : Key(q) = k /\ Settling(q)
    BY <1>3
  <2>2. q = p
    BY <2>1, Others DEF Settling
  <2>3. call[p] = "put" /\ pc[p] \in {"restat", "trunc", "write", "publish"} /\ Key(p) = k
    BY <2>1, <2>2 DEF Settling
  <2>4. ASSUME pc[p] # "publish" PROVE FALSE
    <3>1. Restat(p) \/ Truncate(p) \/ Write(p)
      BY <2>3, <2>4 DEF Begin, LockKey, Step, Unlock, Respond, OpenSource, Stage, StageFails,
           Rename, Stat, ReadSide, Digest, Open, Publish, Unlink, RemoveSide
    <3>2. pc'[p] \in {"trunc", "write", "publish"}
      BY <1>0, <2>3, <3>1 DEF Restat, Truncate, Write, Goto, Sees, TypeOK
    <3>3. call'[p] = call[p] /\ Key(p)' = k
      BY <2>3, <3>1 DEF Restat, Truncate, Write, Key
    <3>. QED  BY <2>3, <3>2, <3>3 DEF Settling
  <2>5. Publish(p)
    BY <2>4 DEF Begin, LockKey, Step, Unlock, Respond, OpenSource, Stage, StageFails,
       Rename, Restat, Stat, ReadSide, Digest, Open, Truncate, Write, Unlink, RemoveSide
  <2>6. scratch[k] = sc[p] /\ Known(k, sc[p])
    BY <1>0, <2>3, <2>4 DEF Scratch, Sees
  <2>7. side'[k] = sc[p]
    BY <1>0, <2>3, <2>5, <2>6, Sentinels DEF Publish, TypeOK
  <2>. QED  BY <2>6, <2>7
<1>4. CASE \A q \in Procs : Key(q) = k => ~Settling(q)
  <2>1. Known(k, side[k]) \/ Guess(k, side[k])
    BY <1>1, <1>4 DEF Truth, SidesTrue
  <2>2. CASE side'[k] = side[k]
    BY <2>1, <2>2
  <2>3. CASE side'[k] # side[k]
    <3>1. /\ Truncate(p) \/ Write(p) \/ Publish(p) \/ RemoveSide(p)
          /\ Key(p) = k
      BY <2>3, TextStep
    <3>2. ~RemoveSide(p) /\ ~Truncate(p)
      BY <1>0, <1>1, <2>3, <3>1 DEF RemoveSide, Truncate, Sees
    <3>3. pc[p] \in {"write", "publish"}
      BY <3>1, <3>2 DEF Write, Publish
    <3>4. \/ side'[k] \in {side[k], scratch[k], Absent, Garbled}
          \/ side'[k] = sc[p]
      BY <3>1, DiskStep
    <3>5. CASE call[p] \in {"head", "get"}
      <4>1. Guess(k, scratch[k]) /\ Guess(k, sc[p])
        BY <1>0, <3>1, <3>3, <3>5 DEF Sees, Scratch
      <4>2. Guess(k, Absent) /\ Guess(k, Garbled)
        BY <4>1, GuessBroken DEF Guess
      <4>. QED  BY <2>1, <3>4, <4>1, <4>2
    <3>6. CASE call[p] = "setsum"
      <4>1. Known(k, sc[p]) \/ Guess(k, sc[p])
        BY <1>0, <3>1, <3>3 DEF Sees
      <4>2. Publish(p)
        BY <1>0, <2>3, <3>1, <3>2, <3>6 DEF Scratch, Write
      <4>3. scratch[k] = sc[p]
        BY <1>0, <3>1, <3>6, <4>2 DEF Scratch, Publish
      <4>4. side'[k] = sc[p]
        BY <1>0, <3>1, <4>2, <4>3, Sentinels DEF Publish, TypeOK
      <4>. QED  BY <4>1, <4>4
    <3>. QED  BY <1>4, <3>1, <3>3, <3>5, <3>6 DEF Where, Settling
  <2>. QED  BY <2>2, <2>3
<1>. QED  BY <1>3, <1>4

LEMMA AInvInit == Init => AInv
<1>. SUFFICES ASSUME Init PROVE AInv
  OBVIOUS
<1>0. PICK s \in [Keys -> Seeds \cup {NoFile}] :
         file = SeedFile(s) /\ side = SeedSide(s)
  BY DEF Init
<1>1. TInv
  BY TInvInit
<1>2. \A p \in Procs : pc[p] = "idle" /\ call[p] = "none"
  BY StoppedIdle DEF Init
<1>3. CarefulCall /\ Where /\ OwnBytes
  BY <1>2 DEF CarefulCall, Where, OwnBytes
<1>4. LockInv
  BY <1>2 DEF Init, LockInv, Section, Locks!Free, Locks!Exclusive
<1>5. ResOk
  BY <1>2 DEF Init, ResOk, Section, Stopped
<1>6. \A p \in Procs : Sees(p) /\ Scratch(p)
  BY <1>2 DEF Sees, Scratch
<1>7. SidesTrue
  <2>. SUFFICES ASSUME NEW k \in Keys, file[k] # NoFile
                PROVE  Known(k, side[k]) \/ Guess(k, side[k])
    BY DEF SidesTrue
  <2>1. /\ s[k] \in Seeds
        /\ file[k] = [body |-> s[k].body, mtime |-> Birth[k], meta |-> s[k].meta]
    BY <1>0 DEF SeedFile
  <2>2. CASE s[k].meta = Sniffed
    <3>1. side[k] = Absent
      BY <1>0, <2>2 DEF SeedSide
    <3>. QED  BY <2>1, <2>2, <3>1, GuessBroken
  <2>3. CASE s[k].meta # Sniffed
    <3>1. side[k] = Sidecar(s[k].meta, s[k].body, Size[s[k].body], Birth[k], None)
      BY <1>0, <2>1, <2>3, Sentinels DEF SeedSide
    <3>2. side[k] \in Sidecars
      BY <1>1, <2>1, <3>1, SeedsType, BirthType, SizesAreNat DEF Sidecar, Sidecars
    <3>. QED  BY <2>1, <3>1, <3>2 DEF Known, Sidecar
  <2>. QED  BY <2>2, <2>3
<1>. QED  BY <1>1, <1>3, <1>4, <1>5, <1>6, <1>7 DEF AInv, Truth

\* A writer that is about to link its sidecar finds it in the scratch file.
LEMMA ScratchThere ==
  ASSUME TInv, Truth, NEW q \in Procs, pc[q] = "publish", call[q] \in {"put", "setsum"}
  PROVE  scratch[Key(q)] # Absent
BY Sentinels DEF Truth, Scratch, TInv, TypeOK

LEMMA AInvNext == ASSUME Careful PROVE AInv /\ [Next]_vars => AInv'
<1>. SUFFICES ASSUME AInv, [Next]_vars PROVE AInv'
  OBVIOUS
<1>. USE DEF AInv
<1>1. TInv'
  BY TInvNext
<1>2. ASSUME NEW p \in Procs, Begin(p) \/ LockKey(p) \/ Step(p)
      PROVE  CarefulCall' /\ LockInv' /\ Where' /\ (Untouched' => Truth')
  <2>1. CarefulCall' /\ LockInv' /\ Where'
    BY <1>2, CarefulStep, LockStep, WhereStep
  <2>2. edits' = edits /\ crashes' = crashes
    BY <1>2 DEF Step, Begin, LockKey, Unlock, Respond, OpenSource, Stage, StageFails,
       Rename, Restat, Stat, ReadSide, Digest, Open, Truncate, Write, Publish,
       Unlink, RemoveSide, bound
  <2>3. ASSUME Truth PROVE Truth'
    <3>1. OwnBytes'
      BY <1>2, <2>3, OwnStep DEF Truth
    <3>2. ResOk'
      BY <1>2, <2>3, ScratchThere, ResStep DEF Truth
    <3>3. SidesTrue'
      BY <1>2, <2>3, SidesStep
    <3>4. ASSUME NEW q \in Procs PROVE Sees(q)' /\ Scratch(q)'
      <4>1. CASE q = p
        BY <1>2, <2>3, <4>1, SeesOwn, ScratchOwn
      <4>2. CASE q # p
        BY <1>2, <2>3, <4>2, SeesOthers, ScratchOthers DEF Truth
      <4>. QED  BY <4>1, <4>2
    <3>. QED  BY <3>1, <3>2, <3>3, <3>4 DEF Truth
  <2>. QED  BY <2>1, <2>2, <2>3 DEF Untouched
<1>3. ASSUME NEW k \in Keys, EditFile(k)
      PROVE  CarefulCall' /\ LockInv' /\ Where' /\ ~Untouched'
  <2>1. UNCHANGED <<held, pc, call, req>> /\ edits' = edits + 1 /\ edits \in Nat
    BY <1>3 DEF EditFile, TInv, TypeOK
  <2>2. \A p \in Procs : Key(p)' = Key(p)
    BY <2>1 DEF Key
  <2>. QED  BY <2>1, <2>2 DEF CarefulCall, LockInv, LockMode, Locks!Exclusive, Where,
               Untouched
<1>4. CASE Crash
  <2>1. \A p \in Procs : pc'[p] = "idle" /\ call'[p] = "none"
    BY <1>4, StoppedIdle DEF Crash
  <2>2. LockInv'
    BY <1>4, <2>1 DEF Crash, LockInv, Section, Locks!Free, Locks!Exclusive
  <2>3. crashes' # 0
    BY <1>4 DEF Crash, TInv, TypeOK
  <2>. QED  BY <1>1, <2>1, <2>2, <2>3 DEF CarefulCall, Where, Untouched
<1>5. CASE UNCHANGED vars
  <2>1. /\ UNCHANGED <<file, side, scratch, fd, held, pc, call, req>>
        /\ UNCHANGED <<res, input, sc, info, edits, crashes>>
    BY <1>5 DEF vars, disk, local, bound
  <2>2. CarefulCall' /\ LockInv' /\ Where' /\ (Untouched' => Untouched)
    BY <2>1 DEF CarefulCall, LockInv, LockMode, Locks!Exclusive, Key, Where, Untouched
  <2>3. Truth => OwnBytes' /\ ResOk' /\ SidesTrue'
    BY <2>1 DEF Truth, OwnBytes, ResOk, SidesTrue, Known, Guess, Settling, Key
  <2>4. ASSUME Truth, NEW q \in Procs PROVE Sees(q)' /\ Scratch(q)'
    <3>1. Sees(q) /\ Scratch(q)
      BY <2>4 DEF Truth
    <3>2. Key(q)' = Key(q) /\ Declared(q)' = Declared(q)
      BY <2>1 DEF Key, Declared
    <3>3. Sees(q)'
      BY <2>1, <3>1, <3>2 DEF Sees, Known, Guess
    <3>4. Scratch(q)'
      BY <2>1, <3>1, <3>2 DEF Scratch, Guess
    <3>. QED  BY <3>3, <3>4
  <2>. QED  BY <1>1, <2>2, <2>3, <2>4 DEF Truth
<1>. QED  BY <1>1, <1>2, <1>3, <1>4, <1>5 DEF Next, Rest

-----------------------------------------------------------------------------
(***************************************************************************)
(* Every step is one of AtomicObjects, or none                             *)
(***************************************************************************)

Answers == [q \in Procs |-> Answer(q)]

LEMMA NoAnswer ==
  ASSUME NEW q \in Procs,
         pc[q] \notin {"restat", "trunc", "write", "publish", "rmside", "unlock"}
  PROVE  Answer(q) = NotYet
BY DEF Answer

LEMMA OthersAnswer ==
  ASSUME TInv, NEW p \in Procs, Begin(p) \/ LockKey(p) \/ Step(p), NEW a, Answer(p)' = a
  PROVE  Answers' = [Answers EXCEPT ![p] = a]
<1>1. \A q \in Procs \ {p} : Answer(q)' = Answer(q)
  BY Others, OthersMore DEF TInv, Answer
<1>. QED  BY <1>1 DEF Answers

LEMMA Silent ==
  ASSUME TInv, NEW p \in Procs, Begin(p) \/ LockKey(p) \/ Step(p),
         Answer(p)' = Answer(p), file' = file
  PROVE  UNCHANGED Atomic!vars
<1>1. Answers' = [Answers EXCEPT ![p] = Answer(p)]
  BY OthersAnswer
<1>2. Answers' = Answers
  BY <1>1 DEF Answers
<1>. QED  BY <1>2 DEF Answers, Atomic!vars

\* Until its last store operation a call has answered nothing.
LEMMA Early ==
  ASSUME TInv, CarefulCall, Where, Truth, NEW p \in Procs,
         Begin(p) \/ LockKey(p) \/ Respond(p) \/ OpenSource(p) \/ Stage(p)
  PROVE  UNCHANGED Atomic!vars
<1>. USE DEF TInv, TypeOK, Goto
<1>1. file' = file
  BY DEF Begin, LockKey, Respond, OpenSource, Stage
<1>2. Answer(p) = NotYet
  BY NoAnswer DEF Begin, LockKey, Respond, OpenSource, Stage
<1>3. Answer(p)' = NotYet
  <2>1. pc'[p] \notin {"restat", "trunc", "write", "publish", "rmside", "unlock"}
    BY DEF Begin, LockKey, FirstStep, Respond, OpenSource, Stage, Call
  <2>. QED  BY <2>1 DEF Answer
<1>. QED  BY <1>1, <1>2, <1>3, Silent DEF Step

\* A call answers once, and once it has its sidecar is all it writes.
LEMMA Late ==
  ASSUME TInv, CarefulCall, Where, Truth, NEW p \in Procs,
         Restat(p) \/ Truncate(p) \/ Write(p) \/ Publish(p) \/ RemoveSide(p)
  PROVE  UNCHANGED Atomic!vars
<1>. USE DEF TInv, TypeOK, Goto
<1>0. Sees(p) /\ Scratch(p) /\ call[p] # "selfcopy" /\ call[p] # "list"
  BY DEF Truth, CarefulCall
<1>1. file' = file /\ call' = call /\ info' = info /\ body' = body
  BY <1>0 DEF Restat, Truncate, Write, Publish, RemoveSide, local
<1>2. CASE Restat(p)
  <2>1. pc[p] = "restat" /\ pc'[p] = "trunc" /\ call[p] = "put"
    BY <1>0, <1>2 DEF Restat, Sees, Busy
  <2>2. Answer(p) = Written /\ Answer(p)' = Written
    BY <1>1, <2>1 DEF Answer
  <2>. QED  BY <1>1, <1>2, <2>2, Silent DEF Step
<1>3. CASE Truncate(p) \/ Write(p)
  <2>1. /\ pc[p] \in {"trunc", "write"} /\ pc'[p] \in {"write", "publish"}
        /\ call[p] \in {"head", "get", "setsum", "put"}
    BY <1>3 DEF Truncate, Write, Where
  <2>2. Answer(p)' = Answer(p)
    BY <1>1, <2>1 DEF Answer
  <2>. QED  BY <1>1, <1>3, <2>2, Silent DEF Step
<1>4. CASE Publish(p)
  <2>1. /\ pc[p] = "publish" /\ res[p] = "ok"
        /\ call[p] \in {"head", "get", "setsum", "put"}
    BY <1>4 DEF Publish, Where, Truth, ResOk, Section
  <2>2. call[p] \in {"put", "setsum"} => scratch[Key(p)] # Absent
    BY <2>1, ScratchThere
  <2>3. res' = res /\ pc'[p] = IF call[p] = "get" THEN "open" ELSE "unlock"
    <3>1. pc' = [pc EXCEPT ![p] = IF call[p] = "get" THEN "open" ELSE "unlock"]
          /\ res' = res
      <4>1. CASE scratch[Key(p)] = Absent
        BY <1>4, <2>1, <2>2, <4>1 DEF Publish
      <4>2. CASE scratch[Key(p)] # Absent
        BY <1>4, <4>2 DEF Publish
      <4>. QED  BY <4>1, <4>2
    <3>. QED  BY <3>1
  <2>4. Answer(p)' = Answer(p)
    BY <1>1, <2>1, <2>3 DEF Answer
  <2>. QED  BY <1>1, <1>4, <2>4, Silent DEF Step
<1>5. CASE RemoveSide(p)
  <2>1. pc[p] = "rmside" /\ pc'[p] = "unlock" /\ call[p] = "delete"
    BY <1>5 DEF RemoveSide, Busy
  <2>2. Answer(p) = Written /\ Answer(p)' = Written
    BY <1>1, <2>1 DEF Answer
  <2>. QED  BY <1>1, <1>5, <2>2, Silent DEF Step
<1>. QED  BY <1>2, <1>3, <1>4, <1>5

\* A version is its bytes, its mtime and its metadata.
LEMMA VersionFields ==
  ASSUME NEW v \in Version, NEW s, s.etag = v.body, s.mtime = v.mtime, s.meta = v.meta
  PROVE  [body |-> s.etag, mtime |-> s.mtime, meta |-> s.meta] = v
BY DEF Version

\* HeadObject and GetObject, and SetObjectChecksum, which answers nothing.
LEMMA Reading ==
  ASSUME TInv, CarefulCall, LockInv, Where, Truth, NEW p \in Procs,
         Stat(p) \/ ReadSide(p) \/ Digest(p) \/ Open(p)
  PROVE  \/ UNCHANGED Atomic!vars
         \/ \E k \in Keys : Atomic!Head(p, k) \/ Atomic!Get(p, k)
<1>. USE DEF TInv, TypeOK, Goto
<1>0. PICK k \in Keys : k = Key(p)
  BY KeyType
<1>1. /\ pc[p] \in {"stat", "readside", "digest", "open"} /\ res[p] = "ok"
      /\ call[p] \in {"head", "get", "setsum"} /\ file' = file /\ call' = call
  BY DEF Stat, ReadSide, Digest, Open, Where, Truth, ResOk, Section, Busy
<1>2. Answer(p) = NotYet
  BY <1>1, NoAnswer
<1>3. Begin(p) \/ LockKey(p) \/ Step(p)
  BY DEF Step
<1>4. ASSUME Answer(p)' = NotYet PROVE UNCHANGED Atomic!vars
  BY <1>1, <1>2, <1>3, <1>4, Silent
<1>5. ASSUME Answer(p)' = file[k] PROVE Atomic!Head(p, k)
  <2>1. Answers' = [Answers EXCEPT ![p] = file[k]] /\ Answers[p] = NotYet
    BY <1>2, <1>3, <1>5, OthersAnswer DEF Answers
  <2>. QED  BY <1>1, <2>1 DEF Answers, Atomic!Head, Atomic!Answer
<1>6. ASSUME Answer(p)' = IF file[k] = NoFile THEN NoFile ELSE file[k].body
      PROVE  Atomic!Get(p, k)
  <2>1. /\ Answers' = [Answers EXCEPT ![p] = IF file[k] = NoFile THEN NoFile
                                             ELSE file[k].body]
        /\ Answers[p] = NotYet
    BY <1>2, <1>3, <1>6, OthersAnswer DEF Answers
  <2>. QED  BY <1>1, <2>1 DEF Answers, Atomic!Get, Atomic!Answer
<1>7. CASE Stat(p)
  <2>1. CASE file[k] # NoFile
    <3>1. pc'[p] = "readside"
      BY <1>0, <1>1, <1>7, <2>1 DEF Stat
    <3>. QED  BY <1>4, <3>1 DEF Answer
  <2>2. CASE file[k] = NoFile
    <3>1. pc'[p] = "unlock" /\ res'[p] = IF call[p] = "setsum" THEN "ok" ELSE "NoSuchKey"
      BY <1>0, <1>1, <1>7, <2>2 DEF Stat, Fail
    <3>2. CASE call[p] = "setsum"
      BY <1>1, <1>4, <3>1, <3>2 DEF Answer
    <3>3. CASE call[p] # "setsum"
      <4>1. Answer(p)' = NoFile
        BY <1>1, <3>1, <3>3 DEF Answer
      <4>. QED  BY <1>0, <1>5, <2>2, <4>1
    <3>. QED  BY <3>2, <3>3
  <2>. QED  BY <2>1, <2>2
<1>8. CASE ReadSide(p)
  <2>1. PICK s : s = Reconcile(Parse(side[k]), sc[p].size, sc[p].mtime)
    OBVIOUS
  <2>2. /\ s.mtime = file[k].mtime /\ file[k] \in Version
        /\ Known(k, s) \/ Guess(k, s)
        /\ s \in Sidecars
    BY <1>0, <1>8, <2>1, ReadTrue DEF ReadSide
  <2>3. CASE call[p] # "head" \/ s.etag = None \/ s.meta = None
    <3>1. /\ pc'[p] \in {"trunc", "digest", "open"}
          /\ pc'[p] = "trunc" => call[p] = "setsum"
      BY <1>0, <1>1, <1>8, <2>1, <2>3 DEF ReadSide
    <3>2. Answer(p)' = NotYet
      BY <1>1, <3>1 DEF Answer
    <3>. QED  BY <1>4, <3>2
  <2>4. CASE ~(call[p] # "head" \/ s.etag = None \/ s.meta = None)
    <3>1. /\ pc'[p] = "unlock" /\ info'[p] = s /\ res'[p] = "ok" /\ call'[p] = "head"
      BY <1>0, <1>1, <1>8, <2>1, <2>4 DEF ReadSide, Inform
    <3>2. Answer(p)' = [body |-> s.etag, mtime |-> s.mtime, meta |-> s.meta]
      BY <3>1 DEF Answer
    <3>3. s.etag = file[k].body /\ s.meta = file[k].meta
      BY <2>2, <2>4 DEF Known, Guess
    <3>4. Answer(p)' = file[k]
      BY <2>2, <3>2, <3>3, VersionFields
    <3>. QED  BY <1>5, <3>4
  <2>. QED  BY <2>3, <2>4
<1>9. CASE Digest(p)
  <2>1. PICK s : s = sc'[p]
    OBVIOUS
  <2>2. /\ file[k] \in Version /\ pc'[p] = "trunc" /\ s.meta = Sniffed
        /\ s.etag = file[k].body /\ s.mtime = file[k].mtime /\ Inform(p, s)
        /\ call[p] \in {"head", "get"} /\ Guess(k, sc[p]) /\ res' = res
    BY <1>0, <1>9, <2>1, DigestTrue
  <2>3. CASE call[p] = "get"
    BY <1>1, <1>4, <2>2, <2>3 DEF Answer
  <2>4. CASE call[p] = "head"
    <3>1. info'[p] = s
      BY <2>2, <2>4 DEF Inform
    <3>2. Answer(p)' = [body |-> s.etag, mtime |-> s.mtime, meta |-> s.meta]
      BY <1>1, <2>2, <2>4, <3>1 DEF Answer
    <3>3. Answer(p)' = file[k]
      BY <2>2, <3>2, VersionFields DEF Guess
    <3>. QED  BY <1>5, <3>3
  <2>. QED  BY <2>2, <2>3, <2>4
<1>10. CASE Open(p)
  <2>1. call[p] = "get" /\ call'[p] = "get" /\ pc'[p] = "unlock"
    BY <1>1, <1>10 DEF Open, Fail, Busy
  <2>2. CASE file[k] = NoFile
    <3>1. res'[p] = "NoSuchKey"
      BY <1>0, <1>10, <2>1, <2>2 DEF Open, Fail
    <3>2. Answer(p)' = NoFile
      BY <2>1, <3>1 DEF Answer
    <3>. QED  BY <1>0, <1>6, <2>2, <3>2
  <2>3. CASE file[k] # NoFile
    <3>1. res'[p] = "ok" /\ body'[p] = file[k].body
      BY <1>0, <1>1, <1>10, <2>3 DEF Open
    <3>2. Answer(p)' = file[k].body
      BY <2>1, <3>1 DEF Answer
    <3>. QED  BY <1>0, <1>6, <2>3, <3>2
  <2>. QED  BY <2>2, <2>3
<1>. QED  BY <1>7, <1>8, <1>9, <1>10

\* The write of a PutObject call, the removal of a DeleteObject call, a body
\* that does not arrive, and the return of any call.
LEMMA Writing ==
  ASSUME TInv, CarefulCall, LockInv, Where, Truth, NEW p \in Procs,
         StageFails(p) \/ Rename(p) \/ Unlink(p) \/ Unlock(p)
  PROVE  Atomic!Next
<1>. USE DEF TInv, TypeOK, Goto
<1>0. PICK k \in Keys : k = Key(p)
  BY KeyType
<1>1. Begin(p) \/ LockKey(p) \/ Step(p)
  BY DEF Step
<1>2. ASSUME NEW a, Answer(p)' = a
      PROVE  Answers' = [Answers EXCEPT ![p] = a]
  BY <1>1, <1>2, OthersAnswer
<1>3. ~Unlock(p) => Answers[p] = NotYet
  <2>1. ~Unlock(p) => Answer(p) = NotYet
    BY NoAnswer DEF StageFails, Rename, Unlink
  <2>. QED  BY <2>1 DEF Answers
<1>4. CASE StageFails(p)
  <2>1. /\ file' = file /\ call'[p] = "put" /\ pc'[p] = "unlock" /\ res'[p] = "error"
    BY <1>4 DEF StageFails, Fail, Busy
  <2>2. Answer(p)' = Failed
    BY <2>1 DEF Answer
  <2>3. ~Unlock(p)
    BY <1>4 DEF StageFails, Unlock
  <2>4. Atomic!Refuse(p)
    BY <1>2, <1>3, <2>1, <2>2, <2>3 DEF Answers, Atomic!Refuse, Atomic!Answer
  <2>. QED  BY <2>4 DEF Atomic!Next
<1>5. CASE Rename(p)
  <2>1. /\ call'[p] = "put" /\ pc'[p] = "restat" /\ ~Unlock(p)
        /\ file' = [file EXCEPT ![k] = file'[k]]
        /\ Key(p)' = k
    BY <1>0, <1>5 DEF Rename, SetFile, Busy, Unlock, local, Key
  <2>2. file'[k] \in Version
    <3>1. OwnBytes'
      BY <1>1, OwnStep DEF Truth
    <3>2. file'[k] # NoFile
      BY <2>1, <3>1 DEF OwnBytes
    <3>. QED  BY <1>1, <3>2, StepType
  <2>3. Answer(p)' = Written
    BY <2>1 DEF Answer
  <2>4. Atomic!Put(p, k, file'[k])
    BY <1>2, <1>3, <2>1, <2>3 DEF Answers, Atomic!Put, Atomic!Answer
  <2>. QED  BY <2>2, <2>4 DEF Atomic!Next
<1>6. CASE Unlink(p)
  <2>1. /\ call'[p] = "delete" /\ pc'[p] = "rmside" /\ ~Unlock(p)
        /\ file' = [file EXCEPT ![k] = NoFile]
    BY <1>0, <1>6 DEF Unlink, SetFile, Busy, Unlock
  <2>2. Answer(p)' = Written
    BY <2>1 DEF Answer
  <2>3. Atomic!Delete(p, k)
    BY <1>2, <1>3, <2>1, <2>2 DEF Answers, Atomic!Delete, Atomic!Answer
  <2>. QED  BY <2>3 DEF Atomic!Next
<1>7. CASE Unlock(p)
  <2>1. file' = file /\ pc'[p] \in {"lock", "source", "done"}
    BY <1>7 DEF Unlock, Continue, Call
  <2>2. Answer(p)' = NotYet
    BY <2>1 DEF Answer
  <2>3. Atomic!Return(p)
    BY <1>2, <2>1, <2>2 DEF Answers, Atomic!Return
  <2>. QED  BY <2>3 DEF Atomic!Next
<1>. QED  BY <1>4, <1>5, <1>6, <1>7

LEMMA AtomicInit == Init => Atomic!Init
<1>. SUFFICES ASSUME Init PROVE Atomic!Init
  OBVIOUS
<1>1. file \in [Keys -> Version \cup {NoFile}]
  BY TInvInit DEF TInv, TypeOK
<1>2. \A q \in Procs : Answer(q) = NotYet
  BY StoppedIdle, NoAnswer DEF Init
<1>. QED  BY <1>1, <1>2 DEF Atomic!Init

LEMMA AtomicNext ==
  AInv /\ [Next]_vars => [edits' = 0 /\ crashes' = 0 => Atomic!Next]_Atomic!vars
<1>. SUFFICES ASSUME AInv, [Next]_vars, edits' = 0, crashes' = 0
              PROVE  Atomic!Next \/ UNCHANGED Atomic!vars
  OBVIOUS
<1>. USE DEF AInv
<1>1. ASSUME NEW p \in Procs, Begin(p) \/ LockKey(p) \/ Step(p)
      PROVE  Atomic!Next \/ UNCHANGED Atomic!vars
  <2>1. edits' = edits /\ crashes' = crashes
    BY <1>1 DEF Step, Begin, LockKey, Unlock, Respond, OpenSource, Stage, StageFails,
       Rename, Restat, Stat, ReadSide, Digest, Open, Truncate, Write, Publish,
       Unlink, RemoveSide, bound
  <2>2. Truth
    BY <2>1 DEF Untouched
  <2>3. CASE Begin(p) \/ LockKey(p) \/ Respond(p) \/ OpenSource(p) \/ Stage(p)
    BY <2>2, <2>3, Early
  <2>4. CASE Restat(p) \/ Truncate(p) \/ Write(p) \/ Publish(p) \/ RemoveSide(p)
    BY <2>2, <2>4, Late
  <2>5. CASE Stat(p) \/ ReadSide(p) \/ Digest(p) \/ Open(p)
    BY <2>2, <2>5, Reading DEF Atomic!Next
  <2>6. CASE StageFails(p) \/ Rename(p) \/ Unlink(p) \/ Unlock(p)
    BY <2>2, <2>6, Writing
  <2>. QED  BY <1>1, <2>3, <2>4, <2>5, <2>6 DEF Step
<1>2. ASSUME NEW k \in Keys, EditFile(k) PROVE FALSE
  BY <1>2 DEF EditFile, TInv, TypeOK
<1>3. CASE Crash
  BY <1>3 DEF Crash, TInv, TypeOK
<1>4. CASE UNCHANGED vars
  <2>1. UNCHANGED <<file, pc, call, res, info, body>>
    BY <1>4 DEF vars, local
  <2>2. \A q \in Procs : Answer(q)' = Answer(q)
    BY <2>1 DEF Answer
  <2>. QED  BY <2>1, <2>2 DEF Atomic!vars
<1>. QED  BY <1>1, <1>2, <1>3, <1>4 DEF Next, Rest

\* Two files, a scratch file everybody shares and readers that write: and still
\* every store call takes effect, or reads everything it answers, in one step
\* between its lock and its unlock, for any number of goroutines and keys and
\* whatever the clock does, until somebody edits a file or kills the process.
THEOREM AtomicObjectsImplemented ==
  ASSUME Careful PROVE Spec => ImplementsAtomicObjects
<1>1. Init => AInv /\ Atomic!Init
  BY AInvInit, AtomicInit
<1>2. AInv /\ [Next]_vars => AInv'
  BY AInvNext
<1>3. AInv /\ [Next]_vars => [edits' = 0 /\ crashes' = 0 => Atomic!Next]_Atomic!vars
  BY AtomicNext
<1>. QED  BY <1>1, <1>2, <1>3, PTL DEF Spec, ImplementsAtomicObjects

-----------------------------------------------------------------------------
(***************************************************************************)
(* What requests are answered                                              *)
(***************************************************************************)

\* The history of a request holds what its object is now.
Follows(p) == pc[p] # "idle" => file[Watched(req[p])] \in seen[p]

\* The body is that of one version of the object.
Whole(p) == /\ body[p] \in Bodies
            /\ \E v \in seen[p] \ {NoFile} : v.body = body[p]

\* It is not, and the object has had two contents.
Torn(p) == /\ body[p] = Partial
           /\ \E v, w \in seen[p] \ {NoFile} : v.body # w.body

\* The length HeadObject has found is that of one version of the object, and so
\* is the Content-Length of the answer.
Found(p)    == \E v \in seen[p] \ {NoFile} : sc[p].size = Size[v.body]
Measured(p) == \E v \in seen[p] \ {NoFile} : info[p].size = Size[v.body]

\* A GET makes two store calls, HeadObject and GetObject, has its length once the
\* first is over and its file once the second is, without an error.
Getting(p) ==
  req[p].op = "GET" /\ pc[p] # "idle" =>
    /\ call[p] \in {"head", "get", "none"}
    /\ call[p] = "none" <=> pc[p] = "done"
    /\ pc[p] \notin {"unlock", "done"} => res[p] = "ok"
    /\ res[p] = "NoSuchKey" => NoFile \in seen[p]
    /\ res[p] = "ok" /\ call[p] = "get" /\ pc[p] = "unlock" => Whole(p)
    /\ res[p] = "ok" /\ pc[p] = "done" => Whole(p) \/ Torn(p)
    /\ call[p] = "head" /\ pc[p] \in {"readside", "digest"} => Found(p)
    /\ call[p] = "head" /\ pc[p] \in {"trunc", "write", "publish", "unlock"}
         /\ res[p] = "ok" => Measured(p)
    /\ res[p] = "ok" /\ call[p] \in {"get", "none"} => Measured(p)

Serve(p) == /\ pc[p] = "idle" => res[p] = "ok"
            /\ Follows(p)
            /\ Getting(p)

SInv == TInv /\ \A p \in Procs : Serve(p)

-----------------------------------------------------------------------------

LEMMA SInvInit == Init => SInv
<1>. SUFFICES ASSUME Init PROVE SInv
  OBVIOUS
<1>1. TInv
  BY TInvInit
<1>2. \A p \in Procs : pc[p] = "idle" /\ res[p] = "ok"
  BY DEF Init, Stopped
<1>. QED  BY <1>1, <1>2 DEF SInv, Serve, Follows, Getting

\* Whoever changes a file tells every request at work on it.
LEMMA SetFileSeen ==
  ASSUME TypeOK, NEW k \in Keys, NEW v, SetFile(k, v), NEW q \in Procs, Follows(q)
  PROVE  /\ seen[q] \subseteq seen'[q]
         /\ pc[q] # "idle" => file'[Watched(req[q])] \in seen'[q]
<1>1. Watched(req[q]) \in Keys
  BY KeyType
<1>2. CASE Watched(req[q]) = k /\ pc[q] # "idle"
  BY <1>1, <1>2 DEF SetFile, TypeOK, Follows
<1>3. CASE ~(Watched(req[q]) = k /\ pc[q] # "idle")
  BY <1>1, <1>3 DEF SetFile, TypeOK, Follows
<1>. QED  BY <1>2, <1>3

LEMMA SeenGrows ==
  ASSUME TInv, NEW p \in Procs, Begin(p) \/ LockKey(p) \/ Step(p),
         NEW q \in Procs, Follows(q), q # p \/ ~(Begin(p) \/ Respond(p))
  PROVE  /\ seen[q] \subseteq seen'[q]
         /\ pc[q] # "idle" => file'[Watched(req[q])] \in seen'[q]
<1>. USE DEF TInv
<1>1. ASSUME file' = file, seen'[q] = seen[q] PROVE
        /\ seen[q] \subseteq seen'[q]
        /\ pc[q] # "idle" => file'[Watched(req[q])] \in seen'[q]
  BY <1>1 DEF Follows
<1>2. CASE Rename(p)
  BY <1>2, SetFileSeen, KeyType DEF Rename
<1>3. CASE Unlink(p)
  BY <1>3, SetFileSeen, KeyType DEF Unlink
<1>4. CASE Publish(p)
  <2>1. \/ \E v : SetFile(Key(p), v)
        \/ UNCHANGED <<file, ghost>>
    BY <1>4 DEF Publish
  <2>. QED  BY <1>1, <2>1, SetFileSeen, KeyType DEF ghost
<1>5. CASE Begin(p) \/ Respond(p)
  <2>1. file' = file /\ seen'[q] = seen[q]
    BY <1>5 DEF Begin, Respond, TypeOK
  <2>. QED  BY <1>1, <2>1
<1>6. CASE ~Rename(p) /\ ~Unlink(p) /\ ~Publish(p) /\ ~Begin(p) /\ ~Respond(p)
  <2>1. file' = file /\ seen' = seen
    BY <1>6 DEF Step, LockKey, Unlock, OpenSource, Stage, StageFails, Restat, Stat,
       ReadSide, Digest, Open, Truncate, Write, RemoveSide, ghost
  <2>. QED  BY <1>1, <2>1
<1>. QED  BY <1>2, <1>3, <1>4, <1>5, <1>6

\* What was seen once stays seen.
LEMMA WholeStays ==
  ASSUME NEW q \in Procs, seen[q] \subseteq seen'[q]
  PROVE  /\ Whole(q) /\ body'[q] = body[q] => Whole(q)'
         /\ Torn(q) /\ body'[q] = body[q] => Torn(q)'
         /\ Found(q) /\ sc'[q] = sc[q] => Found(q)'
         /\ Measured(q) /\ info'[q] = info[q] => Measured(q)'
BY DEF Whole, Torn, Found, Measured

\* What is sent of a file is all of it, or less because it is not the one that
\* was measured.
LEMMA SentOrTorn ==
  ASSUME NEW p \in Procs, Whole(p), Measured(p),
         seen[p] \subseteq seen'[p], body'[p] = Sent(p, body[p])
  PROVE  Whole(p)' \/ Torn(p)'
<1>1. PICK w \in seen[p] \ {NoFile} : w.body = body[p]
  BY DEF Whole
<1>2. PICK v \in seen[p] \ {NoFile} : info[p].size = Size[v.body]
  BY DEF Measured
<1>3. CASE body'[p] = body[p]
  BY <1>3, WholeStays
<1>4. CASE body'[p] # body[p]
  <2>1. body'[p] = Partial /\ ~(Size[body[p]] <= Size[v.body])
    BY <1>2, <1>4 DEF Sent
  <2>2. v.body # w.body
    <3>1. Size[body[p]] \in Nat
      BY SizesAreNat DEF Whole
    <3>. QED  BY <1>1, <2>1, <3>1
  <2>. QED  BY <1>1, <1>2, <2>1, <2>2 DEF Torn
<1>. QED  BY <1>3, <1>4

LEMMA ServeOthers ==
  ASSUME TInv, NEW p \in Procs, Begin(p) \/ LockKey(p) \/ Step(p),
         NEW q \in Procs, p # q, Serve(q)
  PROVE  Serve(q)'
<1>1. /\ pc'[q] = pc[q] /\ call'[q] = call[q] /\ req'[q] = req[q]
      /\ res'[q] = res[q] /\ body'[q] = body[q]
      /\ sc'[q] = sc[q] /\ info'[q] = info[q]
  BY Others, OthersMore DEF TInv
<1>2. /\ seen[q] \subseteq seen'[q]
      /\ pc[q] # "idle" => file'[Watched(req[q])] \in seen'[q]
  BY SeenGrows DEF Serve
<1>3. Follows(q)'
  BY <1>1, <1>2 DEF Follows
<1>4. /\ Whole(q) => Whole(q)'
      /\ Torn(q) => Torn(q)'
      /\ Found(q) => Found(q)'
      /\ Measured(q) => Measured(q)'
  BY <1>1, <1>2, WholeStays
<1>. QED  BY <1>1, <1>2, <1>3, <1>4 DEF Serve, Getting

-----------------------------------------------------------------------------

LEMMA ServeBegin ==
  ASSUME TInv, NEW p \in Procs, Serve(p), Begin(p) PROVE Serve(p)'
<1>. USE DEF TInv, TypeOK, Goto
<1>1. PICK r \in Requests :
        /\ req' = [req EXCEPT ![p] = r]
        /\ call' = [call EXCEPT ![p] = FirstCall(r.op)]
        /\ pc' = [pc EXCEPT ![p] = IF r.op = "LIST" THEN "stat" ELSE "lock"]
        /\ seen' = [seen EXCEPT ![p] = {file[Watched(r)]}]
  BY DEF Begin
<1>2. /\ pc[p] = "idle" /\ res'[p] = "ok" /\ file' = file
  BY DEF Begin, Serve
<1>3. /\ req'[p] = r /\ pc'[p] \in {"stat", "lock"} /\ call'[p] = FirstCall(r.op)
      /\ seen'[p] = {file[Watched(r)]}
  BY <1>1
<1>4. Follows(p)'
  BY <1>2, <1>3 DEF Follows
<1>5. r.op = "GET" => call'[p] = "head"
  BY <1>3 DEF FirstCall
<1>. QED  BY <1>2, <1>3, <1>4, <1>5 DEF Serve, Getting

\* Reading the sidecar leaves the size that stat found.
LEMMA ReadSize ==
  ASSUME TypeOK, NEW k \in Keys, NEW p \in Procs
  PROVE  Reconcile(Parse(side[k]), sc[p].size, sc[p].mtime).size = sc[p].size
BY ParseType DEF Reconcile, TypeOK, Sidecars

LEMMA ServeOwn ==
  ASSUME TInv, NEW p \in Procs, Serve(p), LockKey(p) \/ (Step(p) /\ ~Respond(p))
  PROVE  Serve(p)'
<1>. USE DEF TInv, TypeOK, Goto, local
<1>0. Begin(p) \/ LockKey(p) \/ Step(p)
  OBVIOUS
<1>1. pc[p] # "idle" /\ pc'[p] # "idle" /\ pc[p] # "done" /\ req' = req
  <2>1. CASE LockKey(p) \/ Unlock(p)
    BY <2>1 DEF LockKey, Unlock, Continue, Call, FirstStep
  <2>2. CASE OpenSource(p) \/ Stage(p) \/ StageFails(p) \/ Rename(p)
    BY <2>2 DEF OpenSource, Stage, StageFails, Rename, Call, Fail
  <2>3. CASE Restat(p) \/ Stat(p) \/ ReadSide(p) \/ Digest(p) \/ Open(p)
    BY <2>3 DEF Restat, Stat, ReadSide, Digest, Open, Fail
  <2>4. CASE Truncate(p) \/ Write(p) \/ Publish(p)
    BY <2>4 DEF Truncate, Write, Publish, Fail
  <2>5. CASE Unlink(p) \/ RemoveSide(p)
    BY <2>5 DEF Unlink, RemoveSide
  <2>. QED  BY <2>1, <2>2, <2>3, <2>4, <2>5 DEF Step
<1>2. /\ seen[p] \subseteq seen'[p]
      /\ file'[Watched(req[p])] \in seen'[p]
  <2>1. ~Begin(p)
    BY <1>1 DEF Begin
  <2>2. ~Respond(p)
    BY <1>1 DEF Respond
  <2>. QED  BY <1>0, <1>1, <2>1, <2>2, SeenGrows DEF Serve
<1>3. Follows(p)'
  BY <1>1, <1>2 DEF Follows
<1>4. ASSUME req[p].op = "GET" PROVE Getting(p)'
  <2>1. /\ call[p] \in {"head", "get"} /\ Key(p) = req[p].key
        /\ Watched(req[p]) = req[p].key
        /\ res[p] = "NoSuchKey" => NoFile \in seen[p]
        /\ pc[p] # "unlock" => res[p] = "ok"
    BY <1>1, <1>4 DEF Serve, Getting, Key, Watched
  <2>2. file[Key(p)] \in seen[p]
    BY <1>1, <2>1 DEF Serve, Follows
  <2>. DEFINE Measuring ==
         /\ pc'[p] \in {"readside", "digest"} => Found(p)'
         /\ pc'[p] \in {"trunc", "write", "publish", "unlock"} => Measured(p)'
  <2>15. /\ call[p] = "get" /\ res[p] = "ok" => Measured(p)
         /\ Measured(p) /\ info'[p] = info[p] => Measured(p)'
         /\ Found(p) /\ sc'[p] = sc[p] => Found(p)'
    BY <1>1, <1>2, <1>4, WholeStays DEF Serve, Getting
  <2>3. CASE LockKey(p)
    <3>1. /\ pc'[p] = "stat" /\ res' = res /\ call' = call /\ res[p] = "ok"
          /\ info' = info
      BY <2>1, <2>3 DEF LockKey, FirstStep
    <3>. QED  BY <1>4, <2>1, <2>15, <3>1 DEF Getting
  <2>4. CASE Unlock(p)
    <3>1. /\ pc[p] = "unlock" /\ info' = info
          /\ \/ call[p] = "head" /\ call'[p] = "get" /\ pc'[p] = "lock" /\ res[p] = "ok"
             \/ /\ call'[p] = "none" /\ pc'[p] = "done"
                /\ call[p] = "get" \/ res[p] # "ok"
          /\ res' = res
      BY <1>4, <2>1, <2>4 DEF Unlock, Continue, Call
    <3>2. res[p] = "ok" => Measured(p)
      BY <1>1, <1>4, <2>1, <3>1 DEF Serve, Getting
    <3>3. ASSUME res[p] = "ok", call[p] = "get" PROVE Whole(p)' \/ Torn(p)'
      <4>1. Whole(p)
        BY <1>1, <1>4, <3>1, <3>3 DEF Serve, Getting
      <4>2. body'[p] = Sent(p, body[p])
        BY <2>4, <3>3 DEF Unlock
      <4>. QED  BY <1>2, <3>2, <3>3, <4>1, <4>2, SentOrTorn
    <3>. QED  BY <1>2, <2>1, <2>15, <3>1, <3>2, <3>3 DEF Getting
  <2>5. CASE OpenSource(p) \/ Stage(p) \/ StageFails(p) \/ Rename(p) \/ Restat(p)
             \/ Unlink(p) \/ RemoveSide(p)
    BY <2>1, <2>5 DEF OpenSource, Stage, StageFails, Rename, Restat, Unlink,
       RemoveSide, Busy
  <2>6. ASSUME call' = call, res'[p] = "ok", pc'[p] \notin {"unlock", "done"},
               call[p] = "head" => Measuring, call[p] = "get" => info'[p] = info[p] /\ res[p] = "ok"
        PROVE  Getting(p)'
    BY <2>1, <2>6, <2>15 DEF Getting
  <2>7. ASSUME call' = call, res'[p] = "NoSuchKey", pc'[p] = "unlock",
               file[Key(p)] = NoFile
        PROVE  Getting(p)'
    BY <1>2, <2>1, <2>2, <2>7 DEF Getting
  <2>8. ASSUME call' = call, res'[p] = "ok", pc'[p] = "unlock", call[p] = "head",
               Measuring
        PROVE  Getting(p)'
    BY <2>8 DEF Getting
  <2>9. CASE Stat(p)
    <3>1. /\ call' = call /\ info' = info /\ seen' = seen /\ pc[p] = "stat"
          /\ \/ /\ pc'[p] = "readside" /\ res' = res
                /\ file[Key(p)] # NoFile /\ sc'[p].size = Size[file[Key(p)].body]
             \/ pc'[p] = "unlock" /\ res'[p] = "NoSuchKey" /\ file[Key(p)] = NoFile
      BY <2>1, <2>9 DEF Stat, Fail, Sidecar, ghost
    <3>2. CASE pc'[p] = "readside"
      <4>1. Found(p)'
        BY <2>2, <3>1, <3>2 DEF Found
      <4>. QED  BY <2>1, <2>6, <3>1, <3>2, <4>1
    <3>. QED  BY <2>7, <3>1, <3>2
  <2>10. CASE ReadSide(p)
    <3>. DEFINE s == Reconcile(Parse(side[Key(p)]), sc[p].size, sc[p].mtime)
    <3>1. /\ call' = call /\ res' = res /\ res[p] = "ok" /\ pc[p] = "readside"
          /\ seen' = seen /\ sc'[p] = s
          /\ pc'[p] \in {"digest", "open"} \/ (pc'[p] = "unlock" /\ call[p] = "head")
          /\ pc'[p] = "unlock" => info'[p] = s
          /\ call[p] = "get" \/ pc'[p] # "unlock" => info' = info
          /\ pc'[p] = "open" => call[p] = "get"
      BY <2>1, <2>10 DEF ReadSide, Inform, ghost
    <3>2. s.size = sc[p].size
      BY ReadSize, KeyType
    <3>3. call[p] = "head" => Measuring
      BY <1>1, <1>4, <3>1, <3>2 DEF Serve, Getting, Found, Measured
    <3>. QED  BY <2>6, <2>8, <3>1, <3>3
  <2>11. CASE Digest(p)
    <3>1. /\ call' = call /\ seen' = seen /\ pc[p] = "digest"
          /\ \/ /\ pc'[p] = "trunc" /\ res' = res /\ sc'[p].size = sc[p].size
                /\ info' = IF call[p] = "get" THEN info ELSE [info EXCEPT ![p] = sc'[p]]
             \/ pc'[p] = "unlock" /\ res'[p] = "NoSuchKey" /\ file[Key(p)] = NoFile
      BY <2>1, <2>11 DEF Digest, Fail, Inform, ghost, Sidecars
    <3>2. CASE pc'[p] = "trunc"
      <4>1. call[p] = "head" => Measuring
        BY <1>1, <1>4, <3>1, <3>2 DEF Serve, Getting, Found, Measured
      <4>. QED  BY <2>1, <2>6, <3>1, <3>2, <4>1
    <3>. QED  BY <2>7, <3>1, <3>2
  <2>12. CASE Truncate(p) \/ Write(p)
    <3>1. /\ call' = call /\ res' = res /\ res[p] = "ok" /\ info' = info
          /\ pc'[p] \in {"write", "publish"} /\ pc[p] \in {"trunc", "write"}
      BY <2>1, <2>12 DEF Truncate, Write
    <3>2. call[p] = "head" => Measuring
      BY <1>1, <1>4, <2>15, <3>1 DEF Serve, Getting
    <3>. QED  BY <2>6, <3>1, <3>2
  <2>13. CASE Publish(p)
    <3>1. /\ call' = call /\ res' = res /\ res[p] = "ok" /\ info' = info
          /\ pc'[p] = (IF call[p] = "get" THEN "open" ELSE "unlock") /\ pc[p] = "publish"
      BY <2>1, <2>13 DEF Publish
    <3>2. call[p] = "head" => Measuring
      BY <1>1, <1>4, <2>15, <3>1 DEF Serve, Getting
    <3>. QED  BY <2>1, <2>6, <2>8, <3>1, <3>2
  <2>14. CASE Open(p)
    <3>1. CASE file[Key(p)] = NoFile
      <4>1. call' = call /\ res'[p] = "NoSuchKey" /\ pc'[p] = "unlock"
        BY <2>1, <2>14, <3>1 DEF Open, Fail
      <4>. QED  BY <2>7, <3>1, <4>1
    <3>2. CASE file[Key(p)] # NoFile
      <4>1. /\ call' = call /\ res'[p] = "ok" /\ pc'[p] = "unlock"
            /\ body'[p] = file[Key(p)].body /\ info' = info /\ call[p] = "get"
            /\ res[p] = "ok"
        BY <2>1, <2>14, <3>2 DEF Open, Busy
      <4>2. file[Key(p)] \in Version
        BY <3>2, KeyType
      <4>3. Whole(p)'
        BY <1>2, <2>2, <3>2, <4>1, <4>2 DEF Whole, Version
      <4>. QED  BY <2>1, <2>15, <4>1, <4>3 DEF Getting
    <3>. QED  BY <3>1, <3>2
  <2>. QED
    BY <2>3, <2>4, <2>5, <2>9, <2>10, <2>11, <2>12, <2>13, <2>14 DEF Step
<1>5. req[p].op # "GET" => Getting(p)'
  BY <1>1 DEF Getting
<1>. QED  BY <1>1, <1>3, <1>4, <1>5 DEF Serve

\* An edit in place gives a GET other bytes, all of the new version or some of two.
LEMMA ServeEdit ==
  ASSUME TInv, NEW k \in Keys, EditFile(k), NEW q \in Procs, Serve(q)
  PROVE  Serve(q)'
<1>. USE DEF TInv
<1>1. PICK b \in Bodies :
        /\ SetFile(k, [body |-> b, mtime |-> clock',
             meta |-> IF file[k] = NoFile THEN Sniffed ELSE file[k].meta])
        /\ UNCHANGED <<input, body>> \/ WriteInPlace(k, b)
  BY DEF EditFile
<1>2. /\ seen[q] \subseteq seen'[q]
      /\ pc[q] # "idle" => file'[Watched(req[q])] \in seen'[q]
  BY <1>1, SetFileSeen DEF Serve
<1>3. UNCHANGED <<pc, call, req, res, sc, info>>
  BY DEF EditFile
<1>4. /\ Found(q) => Found(q)'
      /\ Measured(q) => Measured(q)'
      /\ body'[q] = body[q] => (Whole(q) => Whole(q)') /\ (Torn(q) => Torn(q)')
  BY <1>2, <1>3, WholeStays
<1>5. CASE body'[q] = body[q]
  BY <1>2, <1>3, <1>4, <1>5 DEF Serve, Follows, Getting
<1>6. CASE body'[q] # body[q]
  <2>1. PICK v : v = [body |-> b, mtime |-> clock',
             meta |-> IF file[k] = NoFile THEN Sniffed ELSE file[k].meta]
    OBVIOUS
  <2>2. /\ Opens(q, k) \/ (Sends(q, k) /\ b # file[k].body)
        /\ Opens(q, k) => body'[q] = b
        /\ ~Opens(q, k) => body'[q] \in {Sent(q, b), Partial}
    BY <1>1, <1>6 DEF WriteInPlace, TypeOK
  <2>3. /\ req[q].op = "GET" => Watched(req[q]) = k
        /\ pc[q] # "idle" /\ file[k] # NoFile /\ req[q].key = k
    BY <2>2 DEF Opens, Sends, Watched
  <2>4. file'[k] = v /\ v # NoFile /\ v.body = b
    <3>1. clock' \in Nat
      BY ClockType DEF EditFile, Tick, TypeOK
    <3>2. v \in Version
      BY <2>1, <3>1 DEF Version, TypeOK
    <3>. QED  BY <1>1, <2>1, <3>2, Sentinels DEF SetFile, TypeOK
  <2>5. req[q].op = "GET" => v \in seen'[q] /\ file[k] \in seen'[q]
    BY <1>2, <2>3, <2>4 DEF Serve, Follows
  <2>6. CASE Opens(q, k)
    <3>1. req[q].op = "GET" => Whole(q)'
      BY <2>2, <2>4, <2>5, <2>6 DEF Whole
    <3>. QED  BY <1>2, <1>3, <1>4, <2>6, <3>1 DEF Serve, Follows, Getting, Opens
  <2>7. CASE ~Opens(q, k)
    <3>1. body'[q] \in {b, Partial} /\ req[q].op = "GET" /\ pc[q] = "done" /\ b # file[k].body
      BY <2>2, <2>7 DEF Sent, Sends
    <3>2. Whole(q)' \/ Torn(q)'
      BY <2>3, <2>4, <2>5, <3>1 DEF Whole, Torn
    <3>. QED  BY <1>2, <1>3, <1>4, <3>1, <3>2 DEF Serve, Follows, Getting
  <2>. QED  BY <2>6, <2>7
<1>. QED  BY <1>5, <1>6

LEMMA SInvNext == SInv /\ [Next]_vars => SInv'
<1>. SUFFICES ASSUME SInv, [Next]_vars PROVE SInv'
  OBVIOUS
<1>. USE DEF SInv
<1>0. TInv'
  BY TInvNext
<1>1. ASSUME NEW p \in Procs, Begin(p) \/ LockKey(p) \/ Step(p),
             NEW q \in Procs
      PROVE  Serve(q)'
  <2>1. CASE q # p
    BY <1>1, <2>1, ServeOthers
  <2>2. CASE Begin(p)
    BY <1>1, <2>1, <2>2, ServeBegin
  <2>3. CASE Respond(p) /\ q = p
    <3>1. pc'[p] = "idle" /\ res'[p] = "ok"
      BY <2>3 DEF Respond, Goto, TInv, TypeOK
    <3>. QED  BY <2>3, <3>1 DEF Serve, Follows, Getting
  <2>4. CASE q = p /\ (LockKey(p) \/ (Step(p) /\ ~Respond(p)))
    BY <2>4, ServeOwn
  <2>. QED  BY <1>1, <2>1, <2>2, <2>3, <2>4
<1>2. ASSUME NEW k \in Keys, EditFile(k), NEW q \in Procs PROVE Serve(q)'
  BY <1>2, ServeEdit
<1>3. ASSUME Crash, NEW q \in Procs PROVE Serve(q)'
  <2>1. pc'[q] = "idle" /\ res'[q] = "ok"
    BY <1>3 DEF Crash, Stopped
  <2>. QED  BY <2>1 DEF Serve, Follows, Getting
<1>4. ASSUME UNCHANGED vars, NEW q \in Procs PROVE Serve(q)'
  <2>1. UNCHANGED <<file, pc, call, req, res, body, seen, sc, info>>
    BY <1>4 DEF vars, local, ghost
  <2>. QED  BY <2>1 DEF Serve, Follows, Getting, Whole, Torn, Found, Measured
<1>. QED  BY <1>0, <1>1, <1>2, <1>3, <1>4 DEF Next, Rest

\* GET asks the store twice, for the headers and then for the body, under two
\* locks.  What it sends is the whole of one version the object had during the
\* request, or else the object had two contents meanwhile: only then may net/http
\* have cut the body, or an edit have torn it.  NoSuchKey is answered only if
\* there was a time without an object.  All this for every kind of request beside
\* it, any clock, any edit and any crash.
THEOREM GetServesWhole == Spec => []ServedWhole
<1>1. SInv => ServedWhole
  BY DEF SInv, Serve, Getting, Whole, Torn, ServedWhole, Answered
<1>2. Init => SInv
  BY SInvInit
<1>3. SInv /\ [Next]_vars => SInv'
  BY SInvNext
<1>. QED  BY <1>1, <1>2, <1>3, PTL DEF Spec

-----------------------------------------------------------------------------
(***************************************************************************)
(* HEAD, and objects at rest                                               *)
(***************************************************************************)

\* Where no object is, and no DeleteObject on its way, there is no sidecar.
GoneBare ==
  \A k \in Keys :
    /\ file[k] = NoFile
    /\ \A p \in Procs : Key(p) = k => pc[p] # "rmside"
    => side[k] = Absent

\* The ObjectInfo of the answer is that of one version of the object.
Coherent(p) == \E v \in seen[p] \ {NoFile} : info[p].etag = v.body /\ info[p].meta = v.meta

\* A HEAD makes one store call, and has its ObjectInfo before it caches it.
Heading(p) ==
  req[p].op = "HEAD" /\ pc[p] # "idle" =>
    /\ call[p] \in {"head", "none"}
    /\ call[p] = "none" <=> pc[p] = "done"
    /\ pc[p] \notin {"unlock", "done"} => res[p] = "ok"
    /\ res[p] = "NoSuchKey" => NoFile \in seen[p]
    /\ res[p] = "ok" /\ pc[p] \in {"trunc", "write", "publish", "unlock", "done"} =>
         Coherent(p)

CInv == SInv /\ AInv /\ (Untouched => GoneBare /\ \A p \in Procs : Heading(p))

-----------------------------------------------------------------------------

LEMMA CInvInit == Init => CInv
<1>. SUFFICES ASSUME Init PROVE CInv
  OBVIOUS
<1>1. SInv /\ AInv
  BY SInvInit, AInvInit
<1>2. \A p \in Procs : Heading(p)
  BY StoppedIdle DEF Init, Heading
<1>3. GoneBare
  <2>. SUFFICES ASSUME NEW k \in Keys, file[k] = NoFile PROVE side[k] = Absent
    BY DEF GoneBare
  <2>1. PICK s \in [Keys -> Seeds \cup {NoFile}] :
          file = SeedFile(s) /\ side = SeedSide(s)
    BY DEF Init
  <2>2. \A b, m, t : [body |-> b, mtime |-> t, meta |-> m] \in Version =>
          [body |-> b, mtime |-> t, meta |-> m] # NoFile
    BY Sentinels
  <2>3. ASSUME s[k] # NoFile PROVE FALSE
    <3>1. s[k] \in [body : Bodies, meta : Metas \cup {Sniffed}]
      BY <2>3, SeedsType
    <3>2. Birth[k] \in Nat
      BY BirthType
    <3>3. file[k] = [body |-> s[k].body, mtime |-> Birth[k], meta |-> s[k].meta]
      BY <2>1, <2>3 DEF SeedFile
    <3>. QED  BY <2>2, <3>1, <3>2, <3>3 DEF Version
  <2>. QED  BY <2>1, <2>3 DEF SeedSide
<1>. QED  BY <1>1, <1>2, <1>3 DEF CInv

\* Who writes a sidecar has a file it is for, and the deleter's last step takes
\* the sidecar away.
LEMMA GoneStep ==
  ASSUME TInv, CarefulCall, LockInv, Where, Truth, GoneBare,
         NEW p \in Procs, Begin(p) \/ LockKey(p) \/ Step(p)
  PROVE  GoneBare'
<1>. USE DEF TInv, TypeOK
<1>. SUFFICES ASSUME NEW k \in Keys, file'[k] = NoFile,
                     \A q \in Procs : Key(q)' = k => pc'[q] # "rmside"
              PROVE  side'[k] = Absent
  BY DEF GoneBare
<1>1. CASE RemoveSide(p) /\ Key(p) = k
  BY <1>1 DEF RemoveSide
<1>2. CASE Unlink(p) /\ Key(p) = k
  <2>1. Key(p)' = k /\ pc'[p] = "rmside"
    BY <1>2 DEF Unlink, Goto, Key
  <2>. QED  BY <2>1
<1>3. CASE Rename(p) /\ Key(p) = k
  <2>1. OwnBytes' /\ Key(p)' = k /\ pc'[p] = "restat" /\ call'[p] = "put"
    BY <1>3, OwnStep DEF Rename, Goto, Key, local, Busy, Truth
  <2>. QED  BY <2>1 DEF OwnBytes
<1>4. CASE Key(p) # k \/ ~(RemoveSide(p) \/ Unlink(p) \/ Rename(p))
  <2>1. file[k] = NoFile
    BY <1>4, FileStep
  <2>2. \A q \in Procs : Key(q) = k => pc[q] # "rmside"
    <3>1. \A q \in Procs \ {p} : Key(q) = k => pc[q] # "rmside"
      BY Others
    <3>2. pc[p] = "rmside" => RemoveSide(p)
      BY DEF Begin, LockKey, Step, Unlock, Respond, OpenSource, Stage, StageFails,
         Rename, Restat, Stat, ReadSide, Digest, Open, Truncate, Write, Publish, Unlink
    <3>. QED  BY <1>4, <3>1, <3>2
  <2>3. side[k] = Absent
    BY <2>1, <2>2 DEF GoneBare
  <2>4. ASSUME side'[k] # side[k] PROVE FALSE
    <3>1. Key(p) = k /\ (Truncate(p) \/ Write(p) \/ Publish(p))
      BY <1>4, <2>4, TextStep
    <3>2. pc[p] \in {"trunc", "write", "publish"}
      BY <3>1 DEF Truncate, Write, Publish
    <3>. QED  BY <2>1, <3>1, <3>2 DEF Truth, Sees
  <2>. QED  BY <2>3, <2>4
<1>. QED  BY <1>1, <1>2, <1>3, <1>4

LEMMA CoherentStays ==
  ASSUME NEW q \in Procs, Coherent(q), info'[q] = info[q], seen[q] \subseteq seen'[q]
  PROVE  Coherent(q)'
BY DEF Coherent

LEMMA HeadOthers ==
  ASSUME TInv, NEW p \in Procs, Begin(p) \/ LockKey(p) \/ Step(p),
         NEW q \in Procs, p # q, Follows(q), Heading(q)
  PROVE  Heading(q)'
<1>1. /\ pc'[q] = pc[q] /\ call'[q] = call[q] /\ req'[q] = req[q]
      /\ res'[q] = res[q] /\ info'[q] = info[q]
  BY Others, OthersMore DEF TInv
<1>2. seen[q] \subseteq seen'[q]
  BY SeenGrows
<1>3. Coherent(q) => Coherent(q)'
  BY <1>1, <1>2, CoherentStays
<1>. QED  BY <1>1, <1>2, <1>3 DEF Heading

\* HeadObject answers for the file there is, whose sidecar is true.
LEMMA HeadTold ==
  ASSUME TInv, CarefulCall, LockInv, Where, Truth, NEW p \in Procs,
         call[p] = "head", ReadSide(p) \/ Digest(p), Follows(p),
         pc'[p] \in {"trunc", "unlock"}, res'[p] = "ok"
  PROVE  Coherent(p)'
<1>. USE DEF TInv, TypeOK, Goto
<1>0. PICK k \in Keys : k = Key(p)
  BY KeyType
<1>1. pc[p] # "idle" /\ file[k] \in seen[p] /\ seen' = seen
  BY <1>0 DEF ReadSide, Digest, Follows, Key, ghost
<1>2. CASE ReadSide(p)
  <2>1. PICK s : s = Reconcile(Parse(side[k]), sc[p].size, sc[p].mtime)
    OBVIOUS
  <2>2. /\ s.mtime = file[k].mtime /\ file[k] \in Version /\ s \in Sidecars
        /\ Known(k, s) \/ Guess(k, s)
    BY <1>0, <1>2, <2>1, ReadTrue DEF ReadSide
  <2>3. s.etag # None /\ s.meta # None /\ info'[p] = s
    BY <1>0, <1>2, <2>1 DEF ReadSide, Inform
  <2>4. s.etag = file[k].body /\ s.meta = file[k].meta
    BY <2>2, <2>3 DEF Known, Guess
  <2>5. file[k] # NoFile
    BY <2>2, Sentinels
  <2>. QED  BY <1>1, <2>3, <2>4, <2>5 DEF Coherent
<1>3. CASE Digest(p)
  <2>1. PICK s : s = sc'[p]
    OBVIOUS
  <2>2. /\ file[k] \in Version /\ s.meta = Sniffed /\ s.etag = file[k].body
        /\ Inform(p, s) /\ Guess(k, sc[p])
    BY <1>0, <1>3, <2>1, DigestTrue
  <2>3. info'[p] = s /\ file[k].meta = Sniffed
    BY <2>2 DEF Inform, Guess
  <2>4. file[k] # NoFile
    BY <2>2, Sentinels
  <2>. QED  BY <1>1, <2>2, <2>3, <2>4 DEF Coherent
<1>. QED  BY <1>2, <1>3

LEMMA HeadOwn ==
  ASSUME TInv, CarefulCall, LockInv, Where, Truth,
         NEW p \in Procs, Serve(p), Heading(p), Begin(p) \/ LockKey(p) \/ Step(p)
  PROVE  Heading(p)'
<1>. USE DEF TInv, TypeOK, Goto, local
<1>1. CASE Begin(p)
  <2>1. PICK r \in Requests :
          /\ req' = [req EXCEPT ![p] = r]
          /\ call' = [call EXCEPT ![p] = FirstCall(r.op)]
          /\ pc' = [pc EXCEPT ![p] = IF r.op = "LIST" THEN "stat" ELSE "lock"]
    BY <1>1 DEF Begin
  <2>2. res'[p] = "ok"
    BY <1>1 DEF Begin, Serve
  <2>3. /\ req'[p] = r /\ pc'[p] \in {"stat", "lock"}
        /\ call'[p] = FirstCall(r.op)
    BY <2>1
  <2>4. r.op = "HEAD" => call'[p] = "head"
    BY <2>3 DEF FirstCall
  <2>. QED  BY <2>2, <2>3, <2>4 DEF Heading
<1>2. CASE Respond(p)
  <2>1. pc'[p] = "idle"
    BY <1>2 DEF Respond
  <2>. QED  BY <2>1 DEF Heading
<1>3. CASE ~Begin(p) /\ ~Respond(p)
  <2>1. req' = req
    BY <1>3 DEF Step, LockKey, Unlock, OpenSource, Stage, StageFails, Rename, Restat,
       Stat, ReadSide, Digest, Open, Truncate, Write, Publish, Unlink, RemoveSide
  <2>. SUFFICES ASSUME req[p].op = "HEAD" PROVE Heading(p)'
    BY <2>1 DEF Heading
  <2>2. seen[p] \subseteq seen'[p]
    BY <1>3, SeenGrows DEF Serve
  <2>3. pc[p] \notin {"idle", "done"}
    BY <1>3 DEF Step, Begin, Respond, LockKey, Unlock, OpenSource, Stage, StageFails,
       Rename, Restat, Stat, ReadSide, Digest, Open, Truncate, Write, Publish,
       Unlink, RemoveSide
  <2>4. /\ call[p] = "head" /\ Key(p) = Watched(req[p])
        /\ res[p] = "NoSuchKey" => NoFile \in seen[p]
        /\ pc[p] # "unlock" => res[p] = "ok"
    BY <2>3 DEF Heading, Key
  <2>5. file[Key(p)] \in seen[p]
    BY <2>3, <2>4 DEF Serve, Follows
  <2>6. ASSUME call' = call, res'[p] = "ok", pc'[p] \in {"stat", "readside", "digest"}
        PROVE  Heading(p)'
    BY <2>4, <2>6 DEF Heading
  <2>7. ASSUME call' = call, res'[p] = "NoSuchKey", pc'[p] = "unlock",
               file[Key(p)] = NoFile
        PROVE  Heading(p)'
    BY <2>2, <2>4, <2>5, <2>7 DEF Heading
  <2>8. ASSUME call' = call, res'[p] = "ok", Coherent(p)',
               pc'[p] \in {"trunc", "write", "publish", "unlock"}
        PROVE  Heading(p)'
    BY <2>4, <2>8 DEF Heading
  <2>9. CASE LockKey(p)
    <3>1. call' = call /\ res' = res /\ res[p] = "ok" /\ pc'[p] = "stat"
      BY <2>4, <2>9 DEF LockKey, FirstStep
    <3>. QED  BY <2>6, <3>1
  <2>10. CASE Unlock(p)
    <3>1. /\ pc[p] = "unlock" /\ call'[p] = "none" /\ pc'[p] = "done"
          /\ res' = res /\ info' = info
      BY <2>4, <2>10 DEF Unlock, Continue, Call
    <3>2. res[p] = "ok" => Coherent(p)
      BY <3>1 DEF Heading
    <3>3. Coherent(p) => Coherent(p)'
      BY <2>2, <3>1, CoherentStays
    <3>. QED  BY <2>2, <2>4, <3>1, <3>2, <3>3 DEF Heading
  <2>11. CASE OpenSource(p) \/ Stage(p) \/ StageFails(p) \/ Rename(p) \/ Restat(p)
              \/ Unlink(p) \/ RemoveSide(p) \/ Open(p)
    BY <2>4, <2>11 DEF OpenSource, Stage, StageFails, Rename, Restat, Unlink,
       RemoveSide, Open, Busy
  <2>12. CASE Stat(p)
    <3>1. /\ call' = call
          /\ \/ pc'[p] = "readside" /\ res' = res /\ pc[p] = "stat"
             \/ pc'[p] = "unlock" /\ res'[p] = "NoSuchKey" /\ file[Key(p)] = NoFile
      BY <2>4, <2>12 DEF Stat, Fail
    <3>. QED  BY <2>4, <2>6, <2>7, <3>1
  <2>13. CASE ReadSide(p)
    <3>1. call' = call /\ res' = res /\ res[p] = "ok" /\ pc'[p] \in {"digest", "unlock"}
      BY <2>4, <2>13 DEF ReadSide
    <3>2. pc'[p] = "unlock" => Coherent(p)'
      BY <2>4, <2>13, <3>1, HeadTold DEF Serve
    <3>. QED  BY <2>6, <2>8, <3>1, <3>2
  <2>14. CASE Digest(p)
    <3>1. PICK k \in Keys : k = Key(p)
      BY KeyType
    <3>2. call' = call /\ pc'[p] = "trunc" /\ res' = res
      BY <2>14, <3>1, DigestTrue
    <3>3. res[p] = "ok"
      BY <2>4, <2>14 DEF Digest
    <3>4. Coherent(p)'
      BY <2>4, <2>14, <3>2, <3>3, HeadTold DEF Serve
    <3>. QED  BY <2>8, <3>2, <3>3, <3>4
  <2>15. CASE Truncate(p) \/ Write(p) \/ Publish(p)
    <3>1. /\ pc[p] \in {"trunc", "write", "publish"} /\ info' = info
          /\ call' = call /\ res' = res /\ pc'[p] \in {"write", "publish", "unlock"}
      BY <2>4, <2>15 DEF Truncate, Write, Publish
    <3>2. res[p] = "ok" /\ Coherent(p)
      BY <2>4, <3>1 DEF Heading
    <3>3. Coherent(p)'
      BY <2>2, <3>1, <3>2, CoherentStays
    <3>. QED  BY <2>8, <3>1, <3>2, <3>3
  <2>. QED
    BY <1>3, <2>9, <2>10, <2>11, <2>12, <2>13, <2>14, <2>15 DEF Step
<1>. QED  BY <1>1, <1>2, <1>3

LEMMA CInvNext == ASSUME Careful PROVE CInv /\ [Next]_vars => CInv'
<1>. SUFFICES ASSUME CInv, [Next]_vars PROVE CInv'
  OBVIOUS
<1>. USE DEF CInv
<1>1. SInv' /\ AInv'
  BY SInvNext, AInvNext
<1>2. TInv /\ CarefulCall /\ LockInv /\ Where /\ (Untouched => Truth)
  BY DEF AInv
<1>3. \A q \in Procs : Serve(q) /\ Follows(q)
  BY DEF SInv, Serve
<1>4. ASSUME NEW p \in Procs, Begin(p) \/ LockKey(p) \/ Step(p), Untouched'
      PROVE  GoneBare' /\ \A q \in Procs : Heading(q)'
  <2>1. edits' = edits /\ crashes' = crashes
    BY <1>4 DEF Step, Begin, LockKey, Unlock, Respond, OpenSource, Stage, StageFails,
       Rename, Restat, Stat, ReadSide, Digest, Open, Truncate, Write, Publish,
       Unlink, RemoveSide, bound
  <2>2. Untouched /\ Truth /\ GoneBare /\ \A q \in Procs : Heading(q)
    BY <1>2, <1>4, <2>1 DEF Untouched
  <2>3. GoneBare'
    BY <1>2, <1>4, <2>2, GoneStep
  <2>4. ASSUME NEW q \in Procs PROVE Heading(q)'
    <3>1. CASE q = p
      BY <1>2, <1>3, <1>4, <2>2, <3>1, HeadOwn
    <3>2. CASE q # p
      BY <1>2, <1>3, <1>4, <2>2, <3>2, HeadOthers
    <3>. QED  BY <3>1, <3>2
  <2>. QED  BY <2>3, <2>4
<1>5. ASSUME NEW k \in Keys, EditFile(k) PROVE ~Untouched'
  <2>1. edits' = edits + 1 /\ edits \in Nat
    BY <1>2, <1>5 DEF EditFile, TInv, TypeOK
  <2>. QED  BY <2>1 DEF Untouched
<1>6. CASE Crash
  <2>1. crashes' # 0
    BY <1>2, <1>6 DEF Crash, TInv, TypeOK
  <2>. QED  BY <1>1, <2>1 DEF Untouched
<1>7. CASE UNCHANGED vars
  <2>1. UNCHANGED <<file, side, pc, call, req, res, info, seen, edits, crashes>>
    BY <1>7 DEF vars, disk, local, bound, ghost
  <2>2. Untouched' => Untouched
    BY <2>1 DEF Untouched
  <2>3. GoneBare => GoneBare'
    BY <2>1 DEF GoneBare, Key
  <2>4. \A q \in Procs : Heading(q) => Heading(q)'
    BY <2>1 DEF Heading, Coherent
  <2>. QED  BY <1>1, <2>2, <2>3, <2>4
<1>. QED  BY <1>1, <1>4, <1>5, <1>6, <1>7 DEF Next, Rest

\* HeadObject reads two files, and the digest it computes is of a third look at
\* one of them: still the digest and the metadata of its answer are those of one
\* version the object had during the request.
THEOREM HeadCoherent ==
  ASSUME Careful PROVE Spec => [](Untouched => InfoCoherent)
<1>1. CInv => (Untouched => InfoCoherent)
  BY DEF CInv, Heading, Coherent, InfoCoherent, Answered
<1>2. Init => CInv
  BY CInvInit
<1>3. CInv /\ [Next]_vars => CInv'
  BY CInvNext
<1>. QED  BY <1>1, <1>2, <1>3, PTL DEF Spec

-----------------------------------------------------------------------------

LEMMA QuietTrue == CInv /\ Untouched => QuietKeyCoherent
<1>. SUFFICES ASSUME CInv, Untouched, NEW k \in Keys, Quiet(k)
              PROVE  IF file[k] = NoFile THEN side[k] = Absent
                     ELSE /\ Current(k).etag \in {None, file[k].body}
                          /\ \/ Current(k).meta = file[k].meta
                             \/ Current(k).meta = None /\ file[k].meta = Sniffed
  BY DEF QuietKeyCoherent
<1>1. TInv /\ Truth /\ GoneBare
  BY DEF CInv, AInv
<1>2. \A p \in Procs : Key(p) = k => pc[p] = "idle"
  BY DEF Quiet, Key, Watched
<1>3. CASE file[k] = NoFile
  <2>1. side[k] = Absent
    BY <1>1, <1>2, <1>3 DEF GoneBare
  <2>. QED  BY <1>3, <2>1
<1>4. CASE file[k] # NoFile
  <2>1. Known(k, side[k]) \/ Guess(k, side[k])
    <3>1. \A p \in Procs : Key(p) = k => ~Settling(p)
      BY <1>2 DEF Settling
    <3>. QED  BY <1>1, <1>4, <3>1 DEF Truth, SidesTrue
  <2>2. CASE Known(k, side[k])
    <3>1. Current(k) = side[k]
      BY <2>2, ReadKnown DEF Current
    <3>. QED  BY <1>4, <2>2, <3>1 DEF Known
  <2>3. CASE Guess(k, side[k])
    <3>1. /\ side[k] \in Sidecars \cup {Absent, Empty, Garbled}
          /\ Size[file[k].body] \in Nat /\ file[k].mtime \in Nat
      BY <1>1, <1>4, SizesAreNat DEF TInv, TypeOK, Version
    <3>2. Guess(k, Current(k))
      <4>1. PICK t \in Sidecars \cup {Absent, Empty, Garbled} : t = side[k]
        BY <3>1
      <4>2. Guess(k, Reconcile(Parse(t), Size[file[k].body], file[k].mtime))
        BY <2>3, <3>1, <4>1, ReadGuess
      <4>. QED  BY <4>1, <4>2 DEF Current
    <3>3. PICK q \in Sidecars : q = Parse(side[k])
      BY <3>1, ParseType
    <3>4. Current(k) \in Sidecars /\ Current(k).mtime = file[k].mtime
      <4>1. PICK size \in Nat, t \in Nat : size = Size[file[k].body] /\ t = file[k].mtime
        BY <3>1
      <4>2. Reconcile(q, size, t) \in Sidecars /\ Reconcile(q, size, t).mtime = t
        BY ReconcileType
      <4>3. Current(k) = Reconcile(q, size, t)
        BY <3>3, <4>1 DEF Current
      <4>. QED  BY <4>1, <4>2, <4>3
    <3>. QED  BY <1>4, <3>2, <3>4 DEF Guess
  <2>. QED  BY <2>1, <2>2, <2>3
<1>. QED  BY <1>3, <1>4

\* Between requests the two files of an object agree, and an object that is gone
\* has left no sidecar: PUT, COPY, DELETE, SetObjectChecksum and readers that
\* cache what they worked out leave them so.
THEOREM QuietCoherent ==
  ASSUME Careful PROVE Spec => [](Untouched => QuietKeyCoherent)
<1>1. CInv => (Untouched => QuietKeyCoherent)
  BY QuietTrue
<1>2. Init => CInv
  BY CInvInit
<1>3. CInv /\ [Next]_vars => CInv'
  BY CInvNext
<1>. QED  BY <1>1, <1>2, <1>3, PTL DEF Spec
=============================================================================
