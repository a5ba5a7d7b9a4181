-------------------------- MODULE ObjectStoreProofs --------------------------
(***************************************************************************)
(* For any number of goroutines, keys, bodies and requests: ObjectStore is *)
(* type correct, and a digest that readSidecar trusts is the digest of the *)
(* bytes in the file.                                                      *)
(***************************************************************************)
EXTENDS ObjectStore, TLAPS

\* A goroutine with a request has a body to read, one about to rename has a
\* staged body, and a copy knows the metadata of its source.
Busy ==
  \A p \in Procs :
    /\ pc[p] # "idle" => input[p] \in Bodies /\ req[p] \in Requests
    /\ pc[p] \in {"stage", "rename", "restat"} => call[p] = "put"
    /\ pc[p] = "source" => call[p] = "put" /\ req[p].op = "COPY"
    /\ pc[p] \in {"unlink", "rmside"} => call[p] = "delete"
    /\ pc[p] = "open" => call[p] = "get"
    /\ (pc[p] = "rename") <=> (tmp[p] # NoFile)
    /\ pc[p] = "rename" => tmp[p].body = input[p]
    /\ call[p] = "head" /\ pc[p] \in {"trunc", "write", "publish"} =>
         info[p].meta # None
    /\ call[p] = "head" /\ pc[p] = "unlock" /\ res[p] = "ok" =>
         info[p].meta # None
    /\ call[p] = "put" /\ req[p].op = "COPY" => info[p].meta # None

TInv == TypeOK /\ Busy

-----------------------------------------------------------------------------

LEMMA ParseType ==
  ASSUME NEW t \in Sidecars \cup {Absent, Empty, Garbled}
  PROVE  Parse(t) \in Sidecars
BY DEF Parse, Blank, Sidecar, Sidecars

LEMMA ReconcileType ==
  ASSUME NEW s \in Sidecars, NEW size \in Nat, NEW mtime \in Nat
  PROVE  /\ Reconcile(s, size, mtime) \in Sidecars
         /\ Reconcile(s, size, mtime).size = size
         /\ Reconcile(s, size, mtime).mtime = mtime
BY DEF Reconcile, Sidecars

LEMMA RequestChosen == IdleRequest \in Request
<1>1. PICK k \in Keys, b \in Bodies, m \in Metas : TRUE
  BY NonEmpty
<1>2. [op |-> "PUT", key |-> k, src |-> k, body |-> b, meta |-> m,
       want |-> None, trailer |-> FALSE, replace |-> FALSE] \in Request
  BY DEF Request
<1>. QED  BY <1>2 DEF IdleRequest

LEMMA StoppedTypes ==
  /\ Stopped.pc \in [Procs -> PCs] /\ Stopped.call \in [Procs -> Calls]
  /\ Stopped.req \in [Procs -> Request]
  /\ Stopped.res \in [Procs -> {"ok", "NoSuchKey", "BadDigest",
                                "InvalidArgument", "error"}]
  /\ Stopped.input \in [Procs -> Bodies \cup {None}]
  /\ Stopped.sc \in [Procs -> Sidecars] /\ Stopped.info \in [Procs -> Sidecars]
  /\ Stopped.body \in [Procs -> Bodies \cup {None}]
  /\ Stopped.fd \in [Procs -> {"none", "scratch", "side", "gone"}]
  /\ Stopped.tmp \in [Procs -> Staged \cup {NoFile}]
  /\ Stopped.seen \in [Procs -> SUBSET (Version \cup {NoFile})]
  /\ Stopped.before \in [Procs -> Version \cup {NoFile}]
BY RequestChosen DEF Stopped, PCs, Calls, Blank, Sidecar, Sidecars

LEMMA StoppedIdle ==
  \A p \in Procs : /\ Stopped.pc[p] = "idle" /\ Stopped.call[p] = "none"
                   /\ Stopped.tmp[p] = NoFile
BY DEF Stopped

LEMMA KeyType == ASSUME TypeOK, NEW p \in Procs
                 PROVE  /\ Key(p) \in Keys /\ Watched(req[p]) \in Keys
                        /\ req[p].key \in Keys /\ req[p].src \in Keys
BY DEF TypeOK, Request, Key, Watched

LEMMA TInvInit == Init => TInv
<1>. SUFFICES ASSUME Init PROVE TInv
  OBVIOUS
<1>1. PICK s \in [Keys -> Seeds \cup {NoFile}] :
         file = SeedFile(s) /\ side = SeedSide(s)
  BY DEF Init
<1>2. file \in [Keys -> Version \cup {NoFile}]
  <2>. SUFFICES ASSUME NEW k \in Keys, s[k] # NoFile
                PROVE  SeedFile(s)[k] \in Version
    BY <1>1 DEF SeedFile
  <2>. QED  BY SeedsType, BirthType DEF SeedFile, Version
<1>3. side \in [Keys -> Sidecars \cup {Absent, Empty, Garbled}]
  <2>. SUFFICES ASSUME NEW k \in Keys, s[k] # NoFile, s[k].meta # Sniffed
                PROVE  SeedSide(s)[k] \in Sidecars
    BY <1>1 DEF SeedSide
  <2>1. s[k] \in [body : Bodies, meta : Metas \cup {Sniffed}]
    BY SeedsType
  <2>2. Size[s[k].body] \in Nat /\ Birth[k] \in Nat
    BY <2>1, SizesAreNat, BirthType
  <2>. QED  BY <2>1, <2>2 DEF SeedSide, Sidecar, Sidecars
<1>4. TypeOK
  BY <1>2, <1>3, StoppedTypes, BirthType DEF Init, TypeOK, Locks!Free
<1>5. Busy
  BY StoppedIdle DEF Init, Busy
<1>. QED  BY <1>4, <1>5 DEF TInv

\* Setting a file keeps the history typed.
LEMMA SetFileType ==
  ASSUME TypeOK, NEW k \in Keys, NEW v \in Version \cup {NoFile}, SetFile(k, v)
  PROVE  /\ file' \in [Keys -> Version \cup {NoFile}]
         /\ seen' \in [Procs -> SUBSET (Version \cup {NoFile})]
         /\ before' = before
<1>1. \A q \in Procs : seen[q] \cup {v} \in SUBSET (Version \cup {NoFile})
  BY DEF TypeOK
<1>. QED  BY <1>1 DEF SetFile, TypeOK

\* A call that fails goes to its unlock with an error.
LEMMA FailType ==
  ASSUME TypeOK, NEW p \in Procs, NEW r \in {"NoSuchKey", "error"}, Fail(p, r)
  PROVE  /\ pc' = [pc EXCEPT ![p] = "unlock"] /\ pc' \in [Procs -> PCs]
         /\ res' \in [Procs -> {"ok", "NoSuchKey", "BadDigest",
                                "InvalidArgument", "error"}]
         /\ call[p] = "head" => res'[p] # "ok"
         /\ \A q \in Procs \ {p} : res'[q] = res[q]
<1>1. pc' = [pc EXCEPT ![p] = "unlock"] /\ pc' \in [Procs -> PCs]
  BY DEF Fail, Goto, TypeOK, PCs
<1>2. \/ res' = res /\ call[p] = "setsum"
      \/ res' = [res EXCEPT ![p] = r]
  BY DEF Fail
<1>. QED  BY <1>1, <1>2 DEF TypeOK

\* Granting or dropping a lock keeps the lock table typed.
LEMMA CallType ==
  ASSUME TypeOK, NEW p \in Procs, NEW c \in Calls, NEW l \in PCs, Call(p, c, l)
  PROVE  pc' \in [Procs -> PCs] /\ call' \in [Procs -> Calls]
<1>1. pc \in [Procs -> PCs] /\ call \in [Procs -> Calls]
  BY DEF TypeOK
<1>. QED  BY <1>1 DEF Call, Goto

LEMMA HeldType ==
  ASSUME held \in [Keys -> [Procs -> {"free", "R", "W"}]],
         NEW k \in Keys, NEW p \in Procs, NEW md \in {"free", "R", "W"}
  PROVE  [held EXCEPT ![k][p] = md] \in [Keys -> [Procs -> {"free", "R", "W"}]]
OBVIOUS

LEMMA StepType ==
  ASSUME TInv, NEW p \in Procs, Begin(p) \/ LockKey(p) \/ Step(p)
  PROVE  TInv'
<1>. USE DEF TInv
<1>0. /\ Key(p) \in Keys /\ Watched(req[p]) \in Keys
      /\ req[p].key \in Keys /\ req[p].src \in Keys
  BY KeyType
<1>. USE DEF Goto, disk, local, bound, ghost
<1>1. CASE Begin(p)
  <2>1. PICK r \in Requests :
       /\ req' = [req EXCEPT ![p] = r]
       /\ call' = [call EXCEPT ![p] = FirstCall(r.op)]
       /\ Goto(p, IF r.op = "LIST" THEN "stat" ELSE "lock")
       /\ input' = [input EXCEPT ![p] = r.body]
       /\ seen' = [seen EXCEPT ![p] = {file[Watched(r)]}]
       /\ before' = [before EXCEPT ![p] = file[r.key]]
    BY <1>1 DEF Begin
  <2>2. r \in Request
    BY RequestsType
  <2>3. file[Watched(r)] \in Version \cup {NoFile} /\ file[r.key] \in Version \cup {NoFile}
    BY <2>2 DEF TypeOK, Request, Watched
  <2>4. FirstCall(r.op) \in Calls /\ (r.op = "COPY" => FirstCall(r.op) = "head")
    BY <2>2 DEF FirstCall, Calls, Request
  <2>5. TypeOK'
    BY <1>1, <2>1, <2>2, <2>3, <2>4 DEF Begin, TypeOK, Request, PCs
  <2>6. Busy'
    BY <1>1, <2>1, <2>2, <2>4 DEF Begin, TypeOK, Busy, Request
  <2>. QED  BY <2>5, <2>6
<1>2. CASE LockKey(p)
  <2>1. TypeOK'
    BY <1>0, <1>2 DEF LockKey, Locks!Grant, LockMode, FirstStep, TypeOK, PCs
  <2>2. Busy'
    BY <1>2 DEF LockKey, FirstStep, TypeOK, Busy
  <2>. QED  BY <2>1, <2>2
<1>3. CASE Unlock(p)
  <2>1. held' \in [Keys -> [Procs -> {"free", "R", "W"}]]
    <3>1. PICK k \in Keys : k = Key(p)
      BY <1>0
    <3>2. held' = held \/ held' = [held EXCEPT ![k][p] = "free"]
      BY <1>3, <3>1 DEF Unlock, Locks!Drop
    <3>3. held \in [Keys -> [Procs -> {"free", "R", "W"}]]
      BY DEF TypeOK
    <3>4. [held EXCEPT ![k][p] = "free"] \in [Keys -> [Procs -> {"free", "R", "W"}]]
      BY <3>3, HeldType
    <3>. QED  BY <3>2, <3>3, <3>4
  <2>2. pc' \in [Procs -> PCs] /\ call' \in [Procs -> Calls]
    <3>1. \/ Call(p, "get", "lock") \/ Call(p, "put", "source")
          \/ Call(p, "selfcopy", "lock") \/ Call(p, "none", "done")
          \/ Call(p, "delete", "lock") \/ Call(p, "setsum", "lock")
      BY <1>3 DEF Unlock, Continue
    <3>2. {"get", "put", "selfcopy", "none", "delete", "setsum"} \subseteq Calls
          /\ {"lock", "source", "done"} \subseteq PCs
      BY DEF Calls, PCs
    <3>. QED  BY <3>1, <3>2, CallType
  <2>3. res' \in [Procs -> {"ok", "NoSuchKey", "BadDigest", "InvalidArgument", "error"}]
    <3>1. \/ res' = res
          \/ res' = [res EXCEPT ![p] = "InvalidArgument"]
          \/ res' = [res EXCEPT ![p] = "BadDigest"]
      BY <1>3 DEF Unlock, Continue
    <3>. QED  BY <3>1 DEF TypeOK
  <2>4. body' \in [Procs -> Bodies \cup {None, Partial}]
    <3>1. body[p] \in Bodies \cup {None, Partial}
      BY DEF TypeOK
    <3>2. Sent(p, body[p]) \in Bodies \cup {None, Partial}
      BY <3>1 DEF Sent
    <3>. QED  BY <1>3, <3>2 DEF Unlock, TypeOK
  <2>5. TypeOK'
    BY <1>3, <2>1, <2>2, <2>3, <2>4 DEF Unlock, TypeOK
  <2>6. Busy'
    BY <1>3 DEF Unlock, Continue, Call, TypeOK, Busy
  <2>. QED  BY <2>5, <2>6
<1>4. CASE Respond(p)
  BY <1>4, RequestChosen DEF Respond, TypeOK, Busy, PCs, Calls, Blank, Sidecar, Sidecars
<1>5. CASE OpenSource(p)
  <2>1. TypeOK'
    <3>1. \/ /\ call' = [call EXCEPT ![p] = "none"]
             /\ pc' = [pc EXCEPT ![p] = "done"]
             /\ res' = [res EXCEPT ![p] = "NoSuchKey"]
             /\ UNCHANGED input
          \/ /\ file[req[p].src] # NoFile
             /\ pc' = [pc EXCEPT ![p] = "lock"]
             /\ input' = [input EXCEPT ![p] = file[req[p].src].body]
             /\ UNCHANGED <<res, call>>
      BY <1>5 DEF OpenSource, Call, Goto
    <3>2. file[req[p].src] # NoFile => file[req[p].src].body \in Bodies
      BY <1>0 DEF TypeOK, Version
    <3>3. /\ call' \in [Procs -> Calls] /\ pc' \in [Procs -> PCs]
          /\ res' \in [Procs -> {"ok", "NoSuchKey", "BadDigest",
                                "InvalidArgument", "error"}]
          /\ input' \in [Procs -> Bodies \cup {None}]
      <4>1. /\ call \in [Procs -> Calls] /\ pc \in [Procs -> PCs]
            /\ res \in [Procs -> {"ok", "NoSuchKey", "BadDigest",
                                 "InvalidArgument", "error"}]
            /\ input \in [Procs -> Bodies \cup {None}]
        BY DEF TypeOK
      <4>2. "none" \in Calls /\ "done" \in PCs /\ "lock" \in PCs
        BY DEF PCs, Calls
      <4>. QED  BY <3>1, <3>2, <4>1, <4>2
    <3>. QED  BY <1>5, <3>3 DEF OpenSource, TypeOK
  <2>2. Busy'
    BY <1>0, <1>5 DEF OpenSource, Call, TypeOK, Busy, Version
  <2>. QED  BY <2>1, <2>2
<1>6. CASE Stage(p)
  <2>1. clock' \in Nat
    <3>1. PICK d \in ClockSteps : clock' = clock + d
      BY <1>6 DEF Stage, Tick
    <3>. QED  BY <3>1, ClockType DEF TypeOK
  <2>2. [body |-> input[p], mtime |-> clock'] \in Staged
    BY <1>6, <2>1 DEF Stage, Busy, Staged
  <2>3. TypeOK'
    BY <1>6, <2>1, <2>2 DEF Stage, TypeOK, PCs
  <2>4. Busy'
    BY <1>6, <2>2, Sentinels DEF Stage, TypeOK, Busy
  <2>. QED  BY <2>3, <2>4
<1>7. CASE StageFails(p)
  BY <1>7 DEF StageFails, Fail, TypeOK, Busy, PCs
<1>8. CASE Rename(p)
  <2>. DEFINE v == [body |-> tmp[p].body, mtime |-> tmp[p].mtime, meta |-> Declared(p)]
  <2>1. tmp[p] \in Staged
    BY <1>8 DEF Rename, Busy, TypeOK
  <2>2. Declared(p) \in Metas \cup {Sniffed}
    <3>1. call[p] = "put"
      BY <1>8 DEF Rename, Busy
    <3>. QED  BY <3>1 DEF Declared, TypeOK, Busy, Sidecars, Request
  <2>3. v \in Version
    BY <2>1, <2>2 DEF Staged, Version
  <2>4. SetFile(Key(p), v)
    BY <1>8 DEF Rename
  <2>5. /\ file' \in [Keys -> Version \cup {NoFile}]
        /\ seen' \in [Procs -> SUBSET (Version \cup {NoFile})]
        /\ before' = before
    BY <1>0, <2>3, <2>4, SetFileType
  <2>6. TypeOK'
    BY <1>8, <2>5 DEF Rename, TypeOK, PCs
  <2>7. Busy'
    BY <1>8 DEF Rename, TypeOK, Busy
  <2>. QED  BY <2>6, <2>7
<1>9. CASE Restat(p)
  <2>. DEFINE f == file[Key(p)]
              new == Sidecar(Declared(p), input[p], Size[input[p]], f.mtime,
                             DeclaredSum(p))
  <2>1. pc[p] = "restat" /\ call[p] = "put"
    BY <1>9 DEF Restat, Busy
  <2>2. CASE f = NoFile
    <3>1. Fail(p, "error") /\ UNCHANGED sc
      BY <1>9, <2>2 DEF Restat
    <3>. QED  BY <1>9, <2>1, <3>1, FailType DEF Restat, TypeOK, Busy
  <2>3. CASE f # NoFile
    <3>1. f \in Version
      BY <1>0, <2>3 DEF TypeOK
    <3>2. Declared(p) \in Metas \cup {Sniffed}
      BY <2>1 DEF Declared, TypeOK, Busy, Sidecars, Request
    <3>3. DeclaredSum(p) \in Bodies \cup {None}
      BY DEF DeclaredSum, TypeOK, Request
    <3>4. input[p] \in Bodies /\ Size[input[p]] \in Nat
      BY <2>1, SizesAreNat DEF Busy
    <3>5. new \in Sidecars
      BY <3>1, <3>2, <3>3, <3>4 DEF Sidecar, Sidecars, Version
    <3>6. sc' = [sc EXCEPT ![p] = new] /\ pc' = [pc EXCEPT ![p] = "trunc"]
          /\ UNCHANGED res
      BY <1>9, <2>3 DEF Restat
    <3>7. TypeOK'
      BY <1>9, <3>5, <3>6 DEF Restat, TypeOK, PCs
    <3>8. Busy'
      BY <1>9, <2>1, <3>6 DEF Restat, TypeOK, Busy
    <3>. QED  BY <3>7, <3>8
  <2>. QED  BY <2>2, <2>3
<1>10. CASE Stat(p)
  <2>. DEFINE f == file[Key(p)]
  <2>1. pc[p] = "stat"
    BY <1>10 DEF Stat
  <2>2. CASE f = NoFile
    <3>1. PICK r \in {"error", "NoSuchKey"} : Fail(p, r) /\ UNCHANGED sc
      BY <1>10, <2>2 DEF Stat
    <3>. QED  BY <1>10, <2>1, <3>1, FailType DEF Stat, TypeOK, Busy
  <2>3. CASE f # NoFile
    <3>1. f \in Version /\ Size[f.body] \in Nat
      BY <1>0, <2>3, SizesAreNat DEF TypeOK, Version
    <3>2. \A m \in Metas \cup {None}, e \in Bodies \cup {None} :
            Sidecar(m, e, Size[f.body], f.mtime, None) \in Sidecars
      BY <3>1 DEF Sidecar, Sidecars, Version
    <3>3. req[p].meta \in Metas /\ info[p].etag \in Bodies \cup {None}
      BY DEF TypeOK, Request, Sidecars
    <3>4. \E new \in Sidecars : sc' = [sc EXCEPT ![p] = new]
      BY <1>10, <2>3, <3>2, <3>3 DEF Stat
    <3>5. /\ \/ pc' = [pc EXCEPT ![p] = "trunc"] /\ call[p] = "selfcopy"
             \/ pc' = [pc EXCEPT ![p] = "readside"]
          /\ UNCHANGED res
      BY <1>10, <2>3 DEF Stat
    <3>6. sc' \in [Procs -> Sidecars] /\ pc' \in [Procs -> PCs]
      BY <3>4, <3>5 DEF TypeOK, PCs
    <3>7. UNCHANGED <<file, disk, tmp, held, clock, call, req, input, info, body,
                      bound, ghost>>
      BY <1>10 DEF Stat
    <3>8. TypeOK'
      BY <3>5, <3>6, <3>7 DEF TypeOK, disk, bound, ghost
    <3>9. Busy'
      BY <2>1, <3>5, <3>7 DEF TypeOK, Busy
    <3>. QED  BY <3>8, <3>9
  <2>. QED  BY <2>2, <2>3
<1>11. CASE ReadSide(p)
  <2>. DEFINE s == Reconcile(Parse(side[Key(p)]), sc[p].size, sc[p].mtime)
  <2>1. pc[p] = "readside"
    BY <1>11 DEF ReadSide
  <2>2. s \in Sidecars
    <3>1. side[Key(p)] \in Sidecars \cup {Absent, Empty, Garbled} /\ sc[p] \in Sidecars
      BY <1>0 DEF TypeOK
    <3>2. sc[p].size \in Nat /\ sc[p].mtime \in Nat
      BY <3>1 DEF Sidecars
    <3>3. Parse(side[Key(p)]) \in Sidecars
      BY <3>1, ParseType
    <3>. QED  BY <3>2, <3>3, ReconcileType, Zenon
  <2>3. CASE call[p] = "setsum"
    <3>1. [s EXCEPT !.sum = input[p]] \in Sidecars
      BY <2>2 DEF TypeOK, Sidecars
    <3>2. /\ sc' = [sc EXCEPT ![p] = [s EXCEPT !.sum = input[p]]]
          /\ pc' = [pc EXCEPT ![p] = "trunc"]
          /\ UNCHANGED info
      BY <1>11, <2>3 DEF ReadSide
    <3>3. TypeOK'
      BY <1>11, <3>1, <3>2 DEF ReadSide, TypeOK, PCs
    <3>4. Busy'
      BY <1>11, <2>1, <2>3, <3>2 DEF ReadSide, TypeOK, Busy
    <3>. QED  BY <3>3, <3>4
  <2>4. CASE call[p] # "setsum" /\ (s.etag = None \/ s.meta = None)
    <3>1. /\ sc' = [sc EXCEPT ![p] = s]
          /\ pc' = [pc EXCEPT ![p] = "digest"]
          /\ UNCHANGED info
      BY <1>11, <2>4 DEF ReadSide
    <3>2. TypeOK'
      BY <1>11, <2>2, <3>1 DEF ReadSide, TypeOK, PCs
    <3>3. Busy'
      BY <1>11, <2>1, <3>1 DEF ReadSide, TypeOK, Busy
    <3>. QED  BY <3>2, <3>3
  <2>5. CASE call[p] # "setsum" /\ s.etag # None /\ s.meta # None
    <3>1. /\ sc' = [sc EXCEPT ![p] = s]
          /\ Inform(p, s)
          /\ \/ pc' = [pc EXCEPT ![p] = "open"]
             \/ pc' = [pc EXCEPT ![p] = "unlock"]
      BY <1>11, <2>5 DEF ReadSide
    <3>2. info' \in [Procs -> Sidecars]
      BY <2>2, <3>1 DEF Inform, TypeOK
    <3>3. TypeOK'
      BY <1>11, <2>2, <3>1, <3>2 DEF ReadSide, TypeOK, PCs
    <3>4. Busy'
      BY <1>11, <2>1, <2>5, <3>1 DEF ReadSide, Inform, TypeOK, Busy
    <3>. QED  BY <3>3, <3>4
  <2>. QED  BY <2>3, <2>4, <2>5
<1>12. CASE Digest(p)
  <2>. DEFINE f == file[Key(p)]
              m == IF sc[p].meta = None THEN Sniffed ELSE sc[p].meta
              new == [sc[p] EXCEPT !.meta = m,
                                   !.etag = IF @ = None THEN f.body ELSE @]
  <2>1. pc[p] = "digest"
    BY <1>12 DEF Digest
  <2>2. CASE sc[p].etag = None /\ f = NoFile
    <3>1. Fail(p, "NoSuchKey") /\ UNCHANGED <<sc, info>>
      BY <1>12, <2>2 DEF Digest
    <3>. QED  BY <1>12, <2>1, <3>1, FailType DEF Digest, TypeOK, Busy
  <2>3. CASE ~(sc[p].etag = None /\ f = NoFile)
    <3>1. sc[p] \in Sidecars /\ f \in Version \cup {NoFile}
      BY <1>0 DEF TypeOK
    <3>2. new \in Sidecars /\ new.meta # None
      BY <2>3, <3>1, Sentinels DEF Sidecars, Version
    <3>3. sc' = [sc EXCEPT ![p] = new]
      BY <1>12, <2>3, <3>1 DEF Digest, TypeOK, Sidecars
    <3>4. sc'[p] = new
      BY <3>3 DEF TypeOK
    <3>5. Inform(p, new) /\ pc' = [pc EXCEPT ![p] = "trunc"] /\ UNCHANGED res
      BY <1>12, <2>3, <3>4 DEF Digest
    <3>6. info' \in [Procs -> Sidecars]
      BY <3>2, <3>5 DEF Inform, TypeOK
    <3>7. TypeOK'
      BY <1>12, <3>2, <3>3, <3>5, <3>6 DEF Digest, TypeOK, PCs
    <3>8. Busy'
      BY <1>12, <2>1, <3>2, <3>5 DEF Digest, Inform, TypeOK, Busy
    <3>. QED  BY <3>7, <3>8
  <2>. QED  BY <2>2, <2>3
<1>13. CASE Open(p)
  <2>. DEFINE f == file[Key(p)]
  <2>1. pc[p] = "open"
    BY <1>13 DEF Open
  <2>2. CASE f = NoFile
    <3>1. Fail(p, "NoSuchKey") /\ UNCHANGED body
      BY <1>13, <2>2 DEF Open
    <3>. QED  BY <1>13, <2>1, <3>1, FailType DEF Open, TypeOK, Busy
  <2>3. CASE f # NoFile
    <3>1. f.body \in Bodies
      BY <1>0, <2>3 DEF TypeOK, Version
    <3>2. /\ body' = [body EXCEPT ![p] = f.body]
          /\ pc' = [pc EXCEPT ![p] = "unlock"] /\ UNCHANGED res
          /\ call[p] = "get"
      BY <1>13, <2>3 DEF Open, Busy
    <3>3. TypeOK'
      BY <1>13, <3>1, <3>2 DEF Open, TypeOK, PCs
    <3>4. Busy'
      BY <1>13, <2>1, <3>2 DEF Open, TypeOK, Busy
    <3>. QED  BY <3>3, <3>4
  <2>. QED  BY <2>2, <2>3
<1>14. CASE Truncate(p)
  BY <1>0, <1>14 DEF Truncate, TypeOK, Busy, PCs
<1>15. CASE Write(p)
  <2>1. \A t \in Sidecars \cup {Absent, Empty, Garbled} :
          Overlay(t, sc[p]) \subseteq Sidecars \cup {Garbled}
    BY DEF Overlay, TypeOK
  <2>2. /\ scratch' \in [Keys -> Sidecars \cup {Absent, Empty, Garbled}]
        /\ side' \in [Keys -> Sidecars \cup {Absent, Empty, Garbled}]
    <3>1. PICK k \in Keys : k = Key(p)
      BY <1>0
    <3>2. \/ /\ \E t \in Overlay(scratch[k], sc[p]) :
                   scratch' = [scratch EXCEPT ![k] = t]
             /\ UNCHANGED side
          \/ /\ \E t \in Overlay(side[k], sc[p]) : side' = [side EXCEPT ![k] = t]
             /\ UNCHANGED scratch
          \/ UNCHANGED <<scratch, side>>
      BY <1>15, <3>1 DEF Write
    <3>3. /\ scratch[k] \in Sidecars \cup {Absent, Empty, Garbled}
          /\ side[k] \in Sidecars \cup {Absent, Empty, Garbled}
      BY DEF TypeOK
    <3>4. /\ Overlay(scratch[k], sc[p]) \subseteq Sidecars \cup {Garbled}
          /\ Overlay(side[k], sc[p]) \subseteq Sidecars \cup {Garbled}
      BY <2>1, <3>3
    <3>5. /\ scratch \in [Keys -> Sidecars \cup {Absent, Empty, Garbled}]
          /\ side \in [Keys -> Sidecars \cup {Absent, Empty, Garbled}]
      BY DEF TypeOK
    <3>6. ASSUME NEW t \in Sidecars \cup {Garbled}
          PROVE  /\ [scratch EXCEPT ![k] = t] \in
                        [Keys -> Sidecars \cup {Absent, Empty, Garbled}]
                 /\ [side EXCEPT ![k] = t] \in
                        [Keys -> Sidecars \cup {Absent, Empty, Garbled}]
      BY <3>5
    <3>. QED  BY <3>2, <3>4, <3>5, <3>6
  <2>3. TypeOK'
    BY <1>15, <2>2 DEF Write, TypeOK, PCs
  <2>4. Busy'
    BY <1>15 DEF Write, TypeOK, Busy
  <2>. QED  BY <2>3, <2>4
<1>16. CASE Publish(p)
  <2>1. fd' \in [Procs -> {"none", "scratch", "side", "gone"}]
    <3>1. UNCHANGED fd \/ Relink(Key(p), "scratch")
      BY <1>16 DEF Publish
    <3>. QED  BY <3>1 DEF Relink, TypeOK
  <2>2. /\ scratch' \in [Keys -> Sidecars \cup {Absent, Empty, Garbled}]
        /\ side' \in [Keys -> Sidecars \cup {Absent, Empty, Garbled}]
    <3>1. \/ UNCHANGED <<scratch, side>>
          \/ /\ side' = [side EXCEPT ![Key(p)] = scratch[Key(p)]]
             /\ scratch' = [scratch EXCEPT ![Key(p)] = Absent]
      BY <1>16 DEF Publish
    <3>2. /\ scratch \in [Keys -> Sidecars \cup {Absent, Empty, Garbled}]
          /\ side \in [Keys -> Sidecars \cup {Absent, Empty, Garbled}]
      BY DEF TypeOK
    <3>. QED  BY <1>0, <3>1, <3>2
  <2>3. /\ res' = res \/ res' = [res EXCEPT ![p] = "error"]
        /\ \/ pc' = [pc EXCEPT ![p] = "open"] /\ call[p] = "get"
           \/ pc' = [pc EXCEPT ![p] = "unlock"]
        /\ pc[p] = "publish"
    BY <1>16 DEF Publish, Fail
  <2>4. /\ file' \in [Keys -> Version \cup {NoFile}]
        /\ seen' \in [Procs -> SUBSET (Version \cup {NoFile})]
        /\ before' = before
    <3>1. CASE UNCHANGED <<file, ghost>>
      BY <3>1 DEF TypeOK, ghost
    <3>2. CASE /\ file[Key(p)] # NoFile
               /\ SetFile(Key(p), [file[Key(p)] EXCEPT !.meta = req[p].meta])
      <4>1. PICK v \in Version, d \in Metas : v = file[Key(p)] /\ d = req[p].meta
        BY <1>0, <3>2 DEF TypeOK, Request
      <4>2. [v EXCEPT !.meta = d] \in Version
        BY DEF Version
      <4>. QED  BY <1>0, <3>2, <4>1, <4>2, SetFileType
    <3>. QED  BY <1>16, <3>1, <3>2 DEF Publish
  <2>5. TypeOK'
    BY <1>16, <2>1, <2>2, <2>3, <2>4 DEF Publish, TypeOK, PCs
  <2>6. Busy'
    BY <1>16, <2>3 DEF Publish, TypeOK, Busy
  <2>. QED  BY <2>5, <2>6
<1>17. CASE Unlink(p)
  <2>1. SetFile(Key(p), NoFile)
    BY <1>17 DEF Unlink
  <2>2. /\ file' \in [Keys -> Version \cup {NoFile}]
        /\ seen' \in [Procs -> SUBSET (Version \cup {NoFile})]
        /\ before' = before
    BY <1>0, <2>1, SetFileType
  <2>3. TypeOK'
    BY <1>17, <2>2 DEF Unlink, TypeOK, PCs
  <2>4. Busy'
    BY <1>17 DEF Unlink, TypeOK, Busy
  <2>. QED  BY <2>3, <2>4
<1>18. CASE RemoveSide(p)
  BY <1>0, <1>18 DEF RemoveSide, Relink, TypeOK, Busy, PCs
<1>. QED
  BY <1>1, <1>2, <1>3, <1>4, <1>5, <1>6, <1>7, <1>8, <1>9, <1>10, <1>11, <1>12,
     <1>13, <1>14, <1>15, <1>16, <1>17, <1>18 DEF Step

\* An edit gives readers and copiers other contents, and nobody else anything.
LEMMA EditType ==
  ASSUME TypeOK, NEW k \in Keys, NEW b \in Bodies,
         UNCHANGED <<input, body>> \/ WriteInPlace(k, b)
  PROVE  /\ body' \in [Procs -> Bodies \cup {None, Partial}]
         /\ input' \in [Procs -> Bodies \cup {None}]
         /\ \A p \in Procs : /\ ~Copies(p, k) => input'[p] = input[p]
                             /\ input'[p] \in {input[p], b}
<1>1. \A p \in Procs : body[p] \in Bodies \cup {None, Partial} /\ input[p] \in Bodies \cup {None}
  BY DEF TypeOK
<1>2. CASE UNCHANGED <<input, body>>
  BY <1>2 DEF TypeOK
<1>3. CASE WriteInPlace(k, b)
  <2>1. PICK early \in SUBSET Procs, late \in SUBSET Procs :
          /\ input' = [p \in Procs |-> IF Copies(p, k) THEN b ELSE input[p]]
          /\ body' = [p \in Procs |->
                  IF Opens(p, k) THEN b
                  ELSE IF ~Sends(p, k) \/ p \in early \/ b = file[k].body THEN body[p]
                  ELSE IF p \in late THEN Sent(p, b) ELSE Partial]
    BY <1>3 DEF WriteInPlace
  <2>2. \A p \in Procs : Sent(p, b) \in Bodies \cup {Partial}
    BY DEF Sent
  <2>. QED  BY <1>1, <2>1, <2>2
<1>. QED  BY <1>2, <1>3

LEMMA TInvNext == TInv /\ [Next]_vars => TInv'
<1>. SUFFICES ASSUME TInv, [Next]_vars PROVE TInv'
  OBVIOUS
<1>. USE DEF TInv
<1>1. ASSUME NEW p \in Procs, Begin(p) \/ LockKey(p) \/ Step(p) PROVE TInv'
  BY <1>1, StepType
<1>2. ASSUME NEW k \in Keys, EditFile(k) PROVE TInv'
  <2>1. PICK d \in ClockSteps : clock' = clock + d
    BY <1>2 DEF EditFile, Tick
  <2>2. clock' \in Nat /\ edits' \in Nat
    BY <1>2, <2>1, ClockType DEF EditFile, TypeOK
  <2>3. PICK b \in Bodies :
          /\ SetFile(k, [body |-> b, mtime |-> clock',
               meta |-> IF file[k] = NoFile THEN Sniffed ELSE file[k].meta])
          /\ UNCHANGED <<input, body>> \/ WriteInPlace(k, b)
    BY <1>2 DEF EditFile
  <2>4. [body |-> b, mtime |-> clock',
         meta |-> IF file[k] = NoFile THEN Sniffed ELSE file[k].meta] \in Version
    BY <2>2 DEF TypeOK, Version
  <2>5. /\ file' \in [Keys -> Version \cup {NoFile}]
        /\ seen' \in [Procs -> SUBSET (Version \cup {NoFile})]
        /\ before' = before
    BY <2>3, <2>4, SetFileType
  <2>6. /\ body' \in [Procs -> Bodies \cup {None, Partial}]
        /\ input' \in [Procs -> Bodies \cup {None}]
        /\ \A p \in Procs : /\ ~Copies(p, k) => input'[p] = input[p]
                            /\ input'[p] \in {input[p], b}
    BY <2>3, EditType
  <2>7. TypeOK'
    BY <1>2, <2>2, <2>5, <2>6 DEF EditFile, TypeOK, disk
  <2>8. \A p \in Procs : /\ input[p] \in Bodies => input'[p] \in Bodies
                         /\ pc[p] = "rename" => input'[p] = input[p]
    BY <2>6 DEF Copies
  <2>9. UNCHANGED <<pc, call, req, res, info, tmp>>
    BY <1>2 DEF EditFile
  <2>10. Busy'
    BY <2>8, <2>9 DEF Busy
  <2>. QED  BY <2>7, <2>10
<1>3. CASE Crash
  <2>1. TypeOK'
    BY <1>3, StoppedTypes DEF Crash, TypeOK, Locks!Free
  <2>2. Busy'
    BY <1>3, StoppedIdle DEF Crash, Busy
  <2>. QED  BY <2>1, <2>2
<1>4. CASE UNCHANGED vars
  BY <1>4 DEF vars, disk, local, bound, ghost, TypeOK, Busy
<1>. QED  BY <1>1, <1>2, <1>3, <1>4 DEF Next, Rest

\* Every variable keeps its type; what is linked at an object's path is always
\* the whole body of some writer.
THEOREM TypeCorrect == Spec => []TypeOK
<1>1. Spec => []TInv
  BY TInvInit, TInvNext, PTL DEF Spec
<1>. QED  BY <1>1, PTL DEF TInv

-----------------------------------------------------------------------------
(***************************************************************************)
(* Cached digests                                                          *)
(***************************************************************************)

\* Where a call is between taking its lock and giving it back.
Section == {"stage", "rename", "restat", "stat", "readside", "digest", "open",
            "trunc", "write", "publish", "unlink", "rmside", "unlock"}

\* Inside its section a call holds its object as its kind of call does; a
\* listing holds nothing.
LockInv ==
  /\ \A p \in Procs : pc[p] \in Section /\ call[p] # "list" =>
       held[Key(p)][p] = LockMode(call[p])
  /\ Locks!Exclusive

\* Between its rename and its stat a PutObject call finds its own bytes.
OwnBytes ==
  \A p \in Procs : pc[p] = "restat" =>
    file[Key(p)] # NoFile /\ file[Key(p)].body = input[p]

\* No two files, linked or staged, have the same mtime.
TimeInv ==
  /\ \A k \in Keys : file[k] # NoFile => file[k].mtime <= clock
  /\ \A p \in Procs : tmp[p] # NoFile => tmp[p].mtime <= clock
  /\ \A j, k \in Keys : file[j] # NoFile /\ file[k] # NoFile /\ j # k =>
       file[j].mtime # file[k].mtime
  /\ \A k \in Keys, p \in Procs : file[k] # NoFile /\ tmp[p] # NoFile =>
       file[k].mtime # tmp[p].mtime
  /\ \A p, q \in Procs : tmp[p] # NoFile /\ tmp[q] # NoFile /\ p # q =>
       tmp[p].mtime # tmp[q].mtime

\* Time t is past, and of all files only the one at k may carry it.
Fresh(k, t) ==
  /\ t <= clock
  /\ \A j \in Keys : j # k /\ file[j] # NoFile => file[j].mtime # t
  /\ \A q \in Procs : tmp[q] # NoFile => tmp[q].mtime # t

\* What sidecar s says of the file at k is true, or will never be believed.
Honest(k, s) ==
  /\ Fresh(k, s.mtime)
  /\ s.etag # None /\ file[k] # NoFile /\ file[k].mtime = s.mtime =>
       s.etag = file[k].body

\* Every sidecar on disk is honest ...
SideInv ==
  \A k \in Keys : /\ side[k] \in Sidecars => Honest(k, side[k])
                  /\ scratch[k] \in Sidecars => Honest(k, scratch[k])

\* ... and so is every sidecar about to be written.
PendInv ==
  \A p \in Procs : pc[p] \in {"readside", "digest", "trunc", "write"} =>
    Honest(Key(p), sc[p])

NoSelfCall == \A p \in Procs : call[p] # "selfcopy"

DInv == TInv /\ NoSelfCall /\ LockInv /\ OwnBytes /\ TimeInv /\ SideInv /\ PendInv

Assumptions == FineClock /\ QuietEdits /\ NoSelfCopy

-----------------------------------------------------------------------------

LEMMA DInvInit == Init => DInv
<1>. SUFFICES ASSUME Init PROVE DInv
  OBVIOUS
<1>0. PICK s \in [Keys -> Seeds \cup {NoFile}] :
         file = SeedFile(s) /\ side = SeedSide(s)
  BY DEF Init
<1>1. TInv
  BY TInvInit
<1>2. \A p \in Procs : pc[p] = "idle" /\ call[p] = "none" /\ tmp[p] = NoFile
  BY StoppedIdle DEF Init
<1>3. NoSelfCall /\ OwnBytes /\ PendInv
  BY <1>2 DEF NoSelfCall, OwnBytes, PendInv
<1>4. LockInv
  BY <1>2 DEF Init, LockInv, Section, Locks!Free, Locks!Exclusive
<1>5. \A k \in Keys : file[k] # NoFile =>
         file[k].mtime = Birth[k] /\ file[k].body = s[k].body /\ s[k] # NoFile
  BY <1>0 DEF SeedFile
<1>6. TimeInv
  BY <1>2, <1>5, BirthType DEF Init, TimeInv
<1>7. SideInv
  <2>. SUFFICES ASSUME NEW k \in Keys, side[k] \in Sidecars
                PROVE  Honest(k, side[k])
    BY Sentinels DEF SideInv, Init
  <2>1. s[k] # NoFile /\ s[k].meta # Sniffed
    BY <1>0, Sentinels DEF SeedSide
  <2>2. side[k] = Sidecar(s[k].meta, s[k].body, Size[s[k].body], Birth[k], None)
    BY <1>0, <2>1 DEF SeedSide
  <2>3. side[k].mtime = Birth[k] /\ side[k].etag = s[k].body
    BY <2>2 DEF Sidecar
  <2>4. Fresh(k, Birth[k])
    BY <1>2, <1>5, BirthType DEF Init, Fresh
  <2>. QED  BY <1>5, <2>3, <2>4 DEF Honest
<1>. QED  BY <1>1, <1>3, <1>4, <1>6, <1>7 DEF DInv

\* The steps that leave the bytes and the mtime of every file, the staged bodies
\* and the clock alone.
Still ==
  /\ UNCHANGED <<tmp, clock>>
  /\ \A k \in Keys :
       /\ file'[k] = NoFile <=> file[k] = NoFile
       /\ file[k] # NoFile => /\ file'[k].body = file[k].body
                              /\ file'[k].mtime = file[k].mtime

\* Every step but five kinds is still.
LEMMA StepKinds ==
  ASSUME TypeOK, NEW p \in Procs, Begin(p) \/ LockKey(p) \/ Step(p)
  PROVE  Still \/ Stage(p) \/ Rename(p) \/ Unlink(p)
<1>1. CASE Publish(p)
  <2>1. PICK k \in Keys : k = Key(p)
    BY KeyType
  <2>2. CASE UNCHANGED file
    BY <1>1, <2>2 DEF Publish, Still
  <2>3. CASE /\ file[k] # NoFile
             /\ SetFile(k, [file[k] EXCEPT !.meta = req[p].meta])
    <3>1. file[k] \in Version
      BY <2>3 DEF TypeOK
    <3>2. file' = [file EXCEPT ![k] = [file[k] EXCEPT !.meta = req[p].meta]]
      BY <2>3 DEF SetFile
    <3>3. /\ file'[k] \in Version
          /\ file'[k].body = file[k].body /\ file'[k].mtime = file[k].mtime
      BY <3>1, <3>2 DEF TypeOK, Version, Request
    <3>4. file'[k] # NoFile
      BY <3>3, Sentinels
    <3>5. \A j \in Keys \ {k} : file'[j] = file[j]
      BY <3>2 DEF TypeOK
    <3>. QED  BY <1>1, <2>3, <3>3, <3>4, <3>5 DEF Publish, Still
  <2>. QED  BY <1>1, <2>1, <2>2, <2>3 DEF Publish
<1>2. CASE ~Publish(p)
  BY <1>2 DEF Step, Still, Begin, LockKey, Unlock, Respond, OpenSource, StageFails,
       Restat, Stat, ReadSide, Digest, Open, Truncate, Write, RemoveSide
<1>. QED  BY <1>1, <1>2

\* The clock moves on with every write.
LEMMA TickMoves ==
  ASSUME Assumptions, TypeOK, Tick
  PROVE  clock' \in Nat /\ clock' > clock
<1>1. PICK d \in ClockSteps : clock' = clock + d
  BY DEF Tick
<1>. QED  BY <1>1, ClockType DEF Assumptions, FineClock, TypeOK

\* The mtimes of files and staged bodies are numbers.
LEMMA Mtimes ==
  ASSUME TypeOK
  PROVE  /\ \A k \in Keys : file[k] # NoFile => file[k].mtime \in Nat
         /\ \A p \in Procs : tmp[p] # NoFile => tmp[p].mtime \in Nat
         /\ clock \in Nat
BY DEF TypeOK, Version, Staged

LEMMA TimeStill == TypeOK /\ TimeInv /\ Still => TimeInv'
BY DEF TimeInv, Still, TypeOK

\* Mtimes stay unique, and an honest sidecar stays honest, whatever happens.
LEMMA HonestKept ==
  ASSUME Assumptions, TInv, TimeInv, [Next]_vars
  PROVE  /\ TimeInv'
         /\ \A k \in Keys, s \in Sidecars : Honest(k, s) => Honest(k, s)'
<1>. USE DEF TInv
<1>0. /\ \A k \in Keys : file[k] # NoFile => file[k].mtime \in Nat
      /\ \A p \in Procs : tmp[p] # NoFile => tmp[p].mtime \in Nat
      /\ clock \in Nat
  BY Mtimes
<1>1. CASE Still
  BY <1>1, TimeStill DEF Still, Honest, Fresh
<1>2. ASSUME NEW p \in Procs, Stage(p)
      PROVE  /\ TimeInv'
             /\ \A k \in Keys, s \in Sidecars : Honest(k, s) => Honest(k, s)'
  <2>1. clock' \in Nat /\ clock' > clock
    BY <1>2, TickMoves DEF Stage
  <2>2. /\ file' = file
        /\ \A q \in Procs \ {p} : tmp'[q] = tmp[q]
        /\ tmp'[p].mtime = clock'
    BY <1>2 DEF Stage, TypeOK
  <2>3. TimeInv'
    BY <1>0, <2>1, <2>2 DEF TimeInv
  <2>4. ASSUME NEW k \in Keys, NEW s \in Sidecars, Honest(k, s)
        PROVE  Honest(k, s)'
    <3>1. s.mtime \in Nat
      BY DEF Sidecars
    <3>. QED  BY <1>0, <2>1, <2>2, <2>4, <3>1 DEF Honest, Fresh
  <2>. QED  BY <2>3, <2>4
<1>3. ASSUME NEW p \in Procs, Rename(p)
      PROVE  /\ TimeInv'
             /\ \A k \in Keys, s \in Sidecars : Honest(k, s) => Honest(k, s)'
  <2>1. PICK n \in Keys : n = Key(p)
    BY KeyType
  <2>2. tmp[p] # NoFile
    BY <1>3 DEF Rename, Busy
  <2>3. /\ clock' = clock
        /\ \A k \in Keys \ {n} : file'[k] = file[k]
        /\ file'[n].mtime = tmp[p].mtime
        /\ \A q \in Procs \ {p} : tmp'[q] = tmp[q]
        /\ tmp'[p] = NoFile
    BY <1>3, <2>1 DEF Rename, SetFile, TypeOK
  <2>4. TimeInv'
    BY <1>0, <2>2, <2>3 DEF TimeInv
  <2>5. ASSUME NEW k \in Keys, NEW s \in Sidecars, Honest(k, s)
        PROVE  Honest(k, s)'
    BY <2>2, <2>3, <2>5 DEF Honest, Fresh
  <2>. QED  BY <2>4, <2>5
<1>4. ASSUME NEW p \in Procs, Unlink(p)
      PROVE  /\ TimeInv'
             /\ \A k \in Keys, s \in Sidecars : Honest(k, s) => Honest(k, s)'
  <2>1. PICK n \in Keys : n = Key(p)
    BY KeyType
  <2>2. /\ clock' = clock /\ tmp' = tmp
        /\ \A k \in Keys \ {n} : file'[k] = file[k]
        /\ file'[n] = NoFile
    BY <1>4, <2>1 DEF Unlink, SetFile, TypeOK
  <2>. QED  BY <2>2 DEF TimeInv, Honest, Fresh
<1>5. ASSUME NEW n \in Keys, EditFile(n)
      PROVE  /\ TimeInv'
             /\ \A k \in Keys, s \in Sidecars : Honest(k, s) => Honest(k, s)'
  <2>1. clock' \in Nat /\ clock' > clock
    BY <1>5, TickMoves DEF EditFile
  <2>2. /\ tmp' = tmp
        /\ \A k \in Keys \ {n} : file'[k] = file[k]
        /\ file'[n].mtime = clock'
    BY <1>5 DEF EditFile, SetFile, TypeOK
  <2>3. TimeInv'
    BY <1>0, <2>1, <2>2 DEF TimeInv
  <2>4. ASSUME NEW k \in Keys, NEW s \in Sidecars, Honest(k, s)
        PROVE  Honest(k, s)'
    <3>1. s.mtime \in Nat
      BY DEF Sidecars
    <3>. QED  BY <1>0, <2>1, <2>2, <2>4, <3>1 DEF Honest, Fresh
  <2>. QED  BY <2>3, <2>4
<1>6. CASE Crash
  <2>1. file' = file /\ clock' = clock /\ \A p \in Procs : tmp'[p] = NoFile
    BY <1>6, StoppedIdle DEF Crash
  <2>. QED  BY <2>1 DEF TimeInv, Honest, Fresh
<1>7. CASE UNCHANGED vars
  BY <1>1, <1>7 DEF vars, Still
<1>. QED  BY <1>1, <1>2, <1>3, <1>4, <1>5, <1>6, <1>7, StepKinds DEF Next, Rest

\* A goroutine leaves the place and the call of the others alone.
LEMMA Others ==
  ASSUME TypeOK, NEW p \in Procs, Begin(p) \/ LockKey(p) \/ Step(p)
  PROVE  \A q \in Procs \ {p} :
           /\ pc'[q] = pc[q] /\ call'[q] = call[q] /\ req'[q] = req[q]
           /\ input'[q] = input[q] /\ sc'[q] = sc[q]
           /\ Key(q)' = Key(q)
<1>1. \A q \in Procs \ {p} :
        /\ pc'[q] = pc[q] /\ call'[q] = call[q] /\ req'[q] = req[q]
        /\ input'[q] = input[q] /\ sc'[q] = sc[q]
  <2>. USE DEF TypeOK, Goto, local, Call, Fail
  <2>1. CASE Begin(p)
    BY <2>1 DEF Begin
  <2>2. CASE LockKey(p)
    BY <2>2 DEF LockKey
  <2>3. CASE Unlock(p)
    BY <2>3 DEF Unlock, Continue
  <2>4. CASE Respond(p) \/ OpenSource(p) \/ Stage(p) \/ StageFails(p) \/ Rename(p)
    BY <2>4 DEF Respond, OpenSource, Stage, StageFails, Rename
  <2>5. CASE Restat(p) \/ Stat(p)
    BY <2>5 DEF Restat, Stat
  <2>6. CASE ReadSide(p)
    BY <2>6 DEF ReadSide
  <2>7. CASE Digest(p)
    BY <2>7 DEF Digest
  <2>8. CASE Open(p) \/ Truncate(p) \/ Write(p) \/ Publish(p)
    BY <2>8 DEF Open, Truncate, Write, Publish
  <2>9. CASE Unlink(p) \/ RemoveSide(p)
    BY <2>9 DEF Unlink, RemoveSide
  <2>. QED
    BY <2>1, <2>2, <2>3, <2>4, <2>5, <2>6, <2>7, <2>8, <2>9 DEF Step
<1>. QED  BY <1>1 DEF Key

\* Nobody copies an object onto itself, so no call is such a copy.
LEMMA NoSelfStep ==
  ASSUME Assumptions, TInv, NoSelfCall,
         NEW p \in Procs, Begin(p) \/ LockKey(p) \/ Step(p)
  PROVE  NoSelfCall'
<1>1. \A q \in Procs \ {p} : call'[q] # "selfcopy"
  BY Others DEF TInv, NoSelfCall
<1>2. call'[p] = call[p] \/ Begin(p) \/ Unlock(p) \/ call'[p] = "none"
  BY DEF Step, LockKey, Respond, OpenSource, Stage, StageFails, Rename, Restat,
         Stat, ReadSide, Digest, Open, Truncate, Write, Publish, Unlink,
         RemoveSide, Call, TInv, TypeOK
<1>3. CASE Begin(p)
  <2>1. PICK r \in Requests : call' = [call EXCEPT ![p] = FirstCall(r.op)]
    BY <1>3 DEF Begin
  <2>2. FirstCall(r.op) # "selfcopy"
    BY RequestsType DEF FirstCall, Request
  <2>. QED  BY <1>1, <2>1, <2>2 DEF NoSelfCall, TInv, TypeOK
<1>4. CASE Unlock(p)
  <2>1. req[p] \in Requests
    BY <1>4 DEF Unlock, TInv, Busy
  <2>2. ~(req[p].op = "COPY" /\ req[p].key = req[p].src /\ req[p].replace)
    BY <2>1 DEF Assumptions, NoSelfCopy
  <2>3. PICK c \in {"get", "put", "none", "delete", "setsum"} :
          call' = [call EXCEPT ![p] = c]
    BY <1>4, <2>2 DEF Unlock, Continue, Call
  <2>. QED  BY <1>1, <2>3 DEF NoSelfCall, TInv, TypeOK
<1>. QED  BY <1>1, <1>2, <1>3, <1>4 DEF NoSelfCall

\* Key and lock mode of a call are fixed while it is in its section.
LEMMA SectionFixed ==
  ASSUME TInv, NEW p \in Procs, Begin(p) \/ LockKey(p) \/ Step(p),
         pc'[p] \in Section, call'[p] # "list", ~LockKey(p)
  PROVE  /\ pc[p] \in Section /\ call'[p] = call[p] /\ Key(p)' = Key(p)
         /\ held' = held
<1>. USE DEF TInv, TypeOK, Goto, Section, local
<1>1. CASE Begin(p)
  BY <1>1 DEF Begin, FirstCall, Busy
<1>2. CASE Unlock(p)
  BY <1>2 DEF Unlock, Continue, Call
<1>3. CASE Respond(p) \/ OpenSource(p)
  BY <1>3 DEF Respond, OpenSource, Call
<1>4. CASE Stage(p) \/ StageFails(p) \/ Rename(p) \/ Restat(p) \/ Stat(p)
  BY <1>4 DEF Stage, StageFails, Rename, Restat, Stat, Key
<1>5. CASE ReadSide(p) \/ Digest(p) \/ Open(p)
  BY <1>5 DEF ReadSide, Digest, Open, Key
<1>6. CASE Truncate(p) \/ Write(p) \/ Publish(p) \/ Unlink(p) \/ RemoveSide(p)
  BY <1>6 DEF Truncate, Write, Publish, Unlink, RemoveSide, Key
<1>. QED  BY <1>1, <1>2, <1>3, <1>4, <1>5, <1>6 DEF Step

LEMMA LockStep ==
  ASSUME TInv, LockInv, NEW p \in Procs, Begin(p) \/ LockKey(p) \/ Step(p)
  PROVE  LockInv'
<1>. USE DEF TInv
<1>1. \A q \in Procs \ {p} :
        /\ pc'[q] = pc[q] /\ call'[q] = call[q] /\ Key(q)' = Key(q)
  BY Others
<1>2. \A q \in Procs : Key(q) \in Keys
  BY KeyType
<1>3. CASE LockKey(p)
  <2>1. PICK k \in Keys : k = Key(p)
    BY <1>2
  <2>2. PICK md \in {"R", "W"} : md = LockMode(call[p])
    BY DEF LockMode
  <2>3. /\ \A q \in Procs \ {p} : Locks!Compatible(md, held[k][q])
        /\ held' = [held EXCEPT ![k][p] = md]
        /\ held[k][p] = "free"
    BY <1>3, <2>1, <2>2 DEF LockKey, Locks!Grant
  <2>4. \A n \in Keys, q \in Procs :
          held'[n][q] = IF n = k /\ q = p THEN md ELSE held[n][q]
    BY <2>3 DEF TypeOK
  <2>5. Key(p)' = Key(p) /\ call' = call
    BY <1>3 DEF LockKey, Key
  <2>6. Locks!Exclusive'
    BY <2>2, <2>3, <2>4 DEF LockInv, Locks!Exclusive, Locks!Compatible
  <2>7. \A q \in Procs : pc'[q] \in Section /\ call'[q] # "list" =>
          held'[Key(q)'][q] = LockMode(call'[q])
    BY <1>1, <1>2, <2>1, <2>2, <2>4, <2>5 DEF LockInv
  <2>. QED  BY <2>6, <2>7 DEF LockInv, LockMode
<1>4. CASE Unlock(p)
  <2>1. PICK k \in Keys : k = Key(p)
    BY <1>2
  <2>2. held' = held \/ held' = [held EXCEPT ![k][p] = "free"]
    BY <1>4, <2>1 DEF Unlock, Locks!Drop
  <2>3. \A n \in Keys, q \in Procs :
          \/ held'[n][q] = held[n][q]
          \/ n = k /\ q = p /\ held'[n][q] = "free"
    BY <2>2 DEF TypeOK
  <2>4. pc'[p] \notin Section
    <3>1. PICK l \in {"lock", "source", "done"} : pc' = [pc EXCEPT ![p] = l]
      BY <1>4 DEF Unlock, Continue, Call, Goto
    <3>. QED  BY <3>1 DEF Section, TypeOK
  <2>5. Locks!Exclusive'
    BY <2>3 DEF LockInv, Locks!Exclusive
  <2>6. \A q \in Procs : pc'[q] \in Section /\ call'[q] # "list" =>
          held'[Key(q)'][q] = LockMode(call'[q])
    BY <1>1, <1>2, <2>3, <2>4 DEF LockInv
  <2>. QED  BY <2>5, <2>6 DEF LockInv, LockMode
<1>5. CASE ~LockKey(p) /\ ~Unlock(p)
  <2>1. held' = held
    BY <1>5 DEF Step, Begin, Respond, OpenSource, Stage, StageFails, Rename,
       Restat, Stat, ReadSide, Digest, Open, Truncate, Write, Publish, Unlink,
       RemoveSide
  <2>2. pc'[p] \in Section /\ call'[p] # "list" =>
          held'[Key(p)'][p] = LockMode(call'[p])
    BY <1>5, <2>1, SectionFixed DEF LockInv
  <2>3. \A q \in Procs : pc'[q] \in Section /\ call'[q] # "list" =>
          held'[Key(q)'][q] = LockMode(call'[q])
    BY <1>1, <2>1, <2>2 DEF LockInv
  <2>4. Locks!Exclusive'
    BY <2>1 DEF LockInv, Locks!Exclusive
  <2>. QED  BY <2>3, <2>4 DEF LockInv, LockMode
<1>. QED  BY <1>3, <1>4, <1>5

\* While a PutObject call is between rename and stat, nobody else is about to
\* replace or remove the file: both would need the write lock.
LEMMA AloneAtRestat ==
  ASSUME TInv, LockInv, NEW p \in Procs, NEW q \in Procs, p # q,
         pc[p] \in {"rename", "unlink"}, pc[q] = "restat"
  PROVE  Key(p) # Key(q)
<1>1. call[p] \in {"put", "delete"} /\ call[q] = "put"
  BY DEF TInv, Busy
<1>2. held[Key(p)][p] = "W" /\ held[Key(q)][q] = "W"
  BY <1>1 DEF LockInv, Section, LockMode
<1>3. Key(p) \in Keys /\ Key(q) \in Keys
  BY KeyType DEF TInv
<1>. QED  BY <1>2, <1>3 DEF LockInv, Locks!Exclusive

LEMMA OwnStep ==
  ASSUME TInv, LockInv, OwnBytes, NEW p \in Procs,
         Begin(p) \/ LockKey(p) \/ Step(p)
  PROVE  OwnBytes'
<1>. USE DEF TInv
<1>1. \A q \in Procs \ {p} : /\ pc'[q] = pc[q] /\ input'[q] = input[q]
                              /\ Key(q)' = Key(q)
  BY Others
<1>2. \A q \in Procs : Key(q) \in Keys
  BY KeyType
<1>3. CASE Rename(p)
  <2>1. PICK n \in Keys : n = Key(p)
    BY <1>2
  <2>2. /\ pc[p] = "rename"
        /\ \A k \in Keys \ {n} : file'[k] = file[k]
        /\ file'[n] = [body |-> tmp[p].body, mtime |-> tmp[p].mtime, meta |-> Declared(p)]
        /\ Key(p)' = Key(p) /\ input' = input
    BY <1>3, <2>1 DEF Rename, SetFile, TypeOK, Key, local
  <2>3. tmp[p] \in Staged /\ tmp[p].body = input[p]
    BY <2>2 DEF Busy, TypeOK
  <2>4. file'[n] \in Version
    <3>1. call[p] = "put"
      BY <2>2 DEF Busy
    <3>2. Declared(p) \in Metas \cup {Sniffed}
      BY <3>1 DEF Declared, TypeOK, Busy, Sidecars, Request
    <3>. QED  BY <2>2, <2>3, <3>2 DEF Staged, Version
  <2>5. file'[n] # NoFile /\ file'[n].body = input[p]
    BY <2>2, <2>3, <2>4, Sentinels
  <2>6. \A q \in Procs \ {p} : pc[q] = "restat" => Key(q) # n
    BY <2>1, <2>2, AloneAtRestat
  <2>. QED  BY <1>1, <1>2, <2>1, <2>2, <2>5, <2>6 DEF OwnBytes
<1>4. CASE Unlink(p)
  <2>1. PICK n \in Keys : n = Key(p)
    BY <1>2
  <2>2. /\ pc[p] = "unlink" /\ pc'[p] = "rmside"
        /\ \A k \in Keys \ {n} : file'[k] = file[k]
    BY <1>4, <2>1 DEF Unlink, SetFile, Goto, TypeOK
  <2>3. \A q \in Procs \ {p} : pc[q] = "restat" => Key(q) # n
    BY <2>1, <2>2, AloneAtRestat
  <2>. QED  BY <1>1, <1>2, <2>2, <2>3 DEF OwnBytes
<1>5. CASE ~Rename(p) /\ ~Unlink(p)
  <2>1. \A k \in Keys : file[k] # NoFile =>
          file'[k] # NoFile /\ file'[k].body = file[k].body
    BY <1>5, StepKinds DEF Still, Stage
  <2>2. pc'[p] # "restat"
    <3>0. pc \in [Procs -> PCs]
      BY DEF TypeOK
    <3>1. ASSUME NEW l, l # "restat", Goto(p, l) PROVE pc'[p] # "restat"
      BY <3>0, <3>1 DEF Goto
    <3>2. CASE Unlock(p)
      BY <3>1, <3>2 DEF Unlock, Continue, Call
    <3>3. CASE Begin(p) \/ LockKey(p) \/ Respond(p) \/ OpenSource(p)
      BY <3>1, <3>3 DEF Begin, LockKey, FirstStep, Respond, OpenSource, Call
    <3>4. CASE Stage(p) \/ StageFails(p) \/ Restat(p) \/ Stat(p)
      BY <3>1, <3>4 DEF Stage, StageFails, Restat, Stat, Fail
    <3>5. CASE ReadSide(p) \/ Digest(p) \/ Open(p) \/ Truncate(p) \/ Write(p)
      BY <3>1, <3>5 DEF ReadSide, Digest, Open, Truncate, Write, Fail
    <3>6. CASE Publish(p) \/ RemoveSide(p)
      BY <3>1, <3>6 DEF Publish, RemoveSide, Fail
    <3>. QED  BY <1>5, <3>2, <3>3, <3>4, <3>5, <3>6 DEF Step
  <2>. QED  BY <1>1, <1>2, <2>1, <2>2 DEF OwnBytes
<1>. QED  BY <1>3, <1>4, <1>5

\* What a step leaves in the place of a sidecar, on disk or staged, was one of
\* the two before, or is what a goroutine had ready to write.
LEMMA DiskStep ==
  ASSUME TInv, NEW p \in Procs, Begin(p) \/ LockKey(p) \/ Step(p), NEW k \in Keys
  PROVE  /\ \/ side'[k] \in {side[k], scratch[k], Absent, Garbled}
            \/ pc[p] = "write" /\ k = Key(p) /\ side'[k] = sc[p]
         /\ \/ scratch'[k] \in {scratch[k], Absent, Empty, Garbled}
            \/ pc[p] = "write" /\ k = Key(p) /\ scratch'[k] = sc[p]
<1>. USE DEF TInv, TypeOK
<1>1. CASE Write(p)
  <2>1. PICK n \in Keys : n = Key(p)
    BY KeyType
  <2>2. \/ /\ \E t \in Overlay(scratch[n], sc[p]) :
                scratch' = [scratch EXCEPT ![n] = t]
          /\ UNCHANGED side
       \/ /\ \E t \in Overlay(side[n], sc[p]) : side' = [side EXCEPT ![n] = t]
          /\ UNCHANGED scratch
       \/ UNCHANGED <<scratch, side>>
    BY <1>1, <2>1 DEF Write
  <2>3. \A old : Overlay(old, sc[p]) \subseteq {sc[p], Garbled}
    BY DEF Overlay
  <2>4. pc[p] = "write"
    BY <1>1 DEF Write
  <2>5. CASE \E t \in Overlay(scratch[n], sc[p]) :
                scratch' = [scratch EXCEPT ![n] = t] /\ UNCHANGED side
    BY <2>1, <2>3, <2>4, <2>5
  <2>6. CASE \E t \in Overlay(side[n], sc[p]) :
                side' = [side EXCEPT ![n] = t] /\ UNCHANGED scratch
    BY <2>1, <2>3, <2>4, <2>6
  <2>7. CASE UNCHANGED <<scratch, side>>
    BY <2>7
  <2>. QED  BY <2>2, <2>5, <2>6, <2>7
<1>2. CASE Publish(p)
  BY <1>2 DEF Publish, disk
<1>3. CASE Truncate(p)
  BY <1>3 DEF Truncate
<1>4. CASE RemoveSide(p)
  BY <1>4 DEF RemoveSide
<1>5. CASE ~Write(p) /\ ~Publish(p) /\ ~Truncate(p) /\ ~RemoveSide(p)
  <2>1. UNCHANGED <<side, scratch>>
    BY <1>5 DEF Step, Begin, LockKey, Unlock, Respond, OpenSource, Stage,
       StageFails, Rename, Restat, Stat, ReadSide, Digest, Open, Unlink, disk
  <2>. QED  BY <2>1
<1>. QED  BY <1>1, <1>2, <1>3, <1>4, <1>5

LEMMA SideStep ==
  ASSUME Assumptions, TInv, TimeInv, SideInv, PendInv, [Next]_vars,
         NEW p \in Procs, Begin(p) \/ LockKey(p) \/ Step(p)
  PROVE  SideInv'
<1>1. \A k \in Keys, s \in Sidecars : Honest(k, s) => Honest(k, s)'
  BY HonestKept
<1>2. sc[p] \in Sidecars /\ Key(p) \in Keys
  BY KeyType DEF TInv, TypeOK
<1>3. pc[p] = "write" => Honest(Key(p), sc[p])
  BY DEF PendInv
<1>. SUFFICES ASSUME NEW k \in Keys
              PROVE  /\ side'[k] \in Sidecars => Honest(k, side[k])'
                     /\ scratch'[k] \in Sidecars => Honest(k, scratch[k])'
  BY DEF SideInv
<1>4. ASSUME NEW s \in Sidecars,
             s \in {side[k], scratch[k]} \/ (pc[p] = "write" /\ k = Key(p) /\ s = sc[p])
      PROVE  Honest(k, s)'
  BY <1>1, <1>3, <1>4 DEF SideInv
<1>5. ASSUME side'[k] \in Sidecars PROVE Honest(k, side[k])'
  <2>1. PICK s \in Sidecars : s = side'[k]
    BY <1>5
  <2>2. Honest(k, s)'
    BY <1>4, <2>1, DiskStep, Sentinels
  <2>. QED  BY <2>1, <2>2 DEF Honest, Fresh
<1>6. ASSUME scratch'[k] \in Sidecars PROVE Honest(k, scratch[k])'
  <2>1. PICK s \in Sidecars : s = scratch'[k]
    BY <1>6
  <2>2. Honest(k, s)'
    BY <1>4, <2>1, DiskStep, Sentinels
  <2>. QED  BY <2>1, <2>2 DEF Honest, Fresh
<1>. QED  BY <1>5, <1>6

\* The mtime os.Stat reports belongs to the key it was asked about.
LEMMA StatFresh ==
  ASSUME TInv, TimeInv, NEW k \in Keys, file[k] # NoFile
  PROVE  Fresh(k, file[k].mtime)
BY DEF TimeInv, Fresh

\* readSidecar makes an honest sidecar out of an honest one.
LEMMA ReconcileHonest ==
  ASSUME NEW k \in Keys, NEW t \in Sidecars \cup {Absent, Empty, Garbled},
         NEW s0 \in Sidecars, Fresh(k, s0.mtime),
         t \in Sidecars => Honest(k, t)
  PROVE  Honest(k, Reconcile(Parse(t), s0.size, s0.mtime))
<1>. DEFINE r == Reconcile(Parse(t), s0.size, s0.mtime)
<1>1. Parse(t) \in Sidecars /\ s0.size \in Nat /\ s0.mtime \in Nat
  BY ParseType DEF Sidecars
<1>2. r.mtime = s0.mtime
  BY <1>1 DEF Reconcile, Sidecars
<1>3. r.etag # None => t \in Sidecars /\ r = t
  <2>1. r.etag # None => r = Parse(t)
    BY <1>1 DEF Reconcile, Sidecars
  <2>2. Parse(t).etag # None => t \in Sidecars /\ Parse(t) = t
    BY DEF Parse, Blank, Sidecar
  <2>. QED  BY <2>1, <2>2
<1>4. CASE r.etag = None
  BY <1>2, <1>4 DEF Honest
<1>5. CASE r.etag # None
  BY <1>3, <1>5
<1>. QED  BY <1>4, <1>5

LEMMA PendStep ==
  ASSUME Assumptions, TInv, NoSelfCall, OwnBytes, TimeInv, SideInv, PendInv,
         [Next]_vars, NEW p \in Procs, Begin(p) \/ LockKey(p) \/ Step(p)
  PROVE  PendInv'
<1>. USE DEF TInv
<1>1. \A k \in Keys, s \in Sidecars : Honest(k, s) => Honest(k, s)'
  BY HonestKept
<1>2. \A q \in Procs \ {p} : /\ pc'[q] = pc[q] /\ sc'[q] = sc[q]
                              /\ Key(q)' = Key(q)
  BY Others
<1>3. \A q \in Procs : sc[q] \in Sidecars /\ Key(q) \in Keys
  BY KeyType DEF TypeOK
<1>. DEFINE Pending == {"readside", "digest", "trunc", "write"}
<1>4. ASSUME NEW q \in Procs \ {p}, pc'[q] \in Pending
      PROVE  Honest(Key(q), sc[q])'
  <2>1. Honest(Key(q), sc[q])
    BY <1>2, <1>4 DEF PendInv
  <2>2. PICK k \in Keys, s \in Sidecars : k = Key(q) /\ s = sc[q]
    BY <1>3
  <2>3. Honest(k, s)'
    BY <1>1, <2>1, <2>2
  <2>. QED  BY <1>2, <2>2, <2>3 DEF Honest, Fresh
<1>5. ASSUME pc'[p] \in Pending PROVE Honest(Key(p), sc[p])'
  <2>. DEFINE f == file[Key(p)]
  <2>0. PICK k \in Keys : k = Key(p)
    BY <1>3
  <2>1. \/ Restat(p) \/ Stat(p) \/ ReadSide(p) \/ Digest(p) \/ Truncate(p)
    BY <1>5 DEF Step, Begin, LockKey, FirstStep, Unlock, Continue, Call, Respond,
       OpenSource, Stage, StageFails, Rename, Fail, Open, Write, Publish, Unlink,
       RemoveSide, Goto, TypeOK
  <2>2. Still /\ Key(p)' = k
    BY <2>0, <2>1 DEF Restat, Stat, ReadSide, Digest, Truncate, Still, Key
  <2>. SUFFICES ASSUME NEW s, s = sc'[p] PROVE Honest(k, s)
    BY <2>2 DEF Honest, Fresh, Still
  <2>3. CASE Restat(p)
    <3>1. pc[p] = "restat" /\ file[k] # NoFile /\ file[k].body = input[p]
      BY <2>0, <2>3 DEF Restat, OwnBytes
    <3>2. sc' = [sc EXCEPT ![p] = Sidecar(Declared(p), input[p], Size[input[p]],
                                   file[k].mtime, DeclaredSum(p))]
      BY <2>0, <2>3, <3>1 DEF Restat
    <3>3. s.etag = file[k].body /\ s.mtime = file[k].mtime
      BY <3>1, <3>2 DEF Sidecar, TypeOK
    <3>. QED  BY <3>1, <3>3, StatFresh DEF Honest
  <2>4. CASE Stat(p)
    <3>1. file[k] # NoFile
      BY <1>5, <2>0, <2>4 DEF Stat, Fail, Goto, TypeOK
    <3>2. sc' = [sc EXCEPT ![p] = Sidecar(None, None, Size[file[k].body],
                                          file[k].mtime, None)]
      BY <2>0, <2>4, <3>1 DEF Stat, NoSelfCall
    <3>3. s.etag = None /\ s.mtime = file[k].mtime
      BY <3>2 DEF Sidecar, TypeOK
    <3>. QED  BY <3>1, <3>3, StatFresh DEF Honest
  <2>5. CASE ReadSide(p)
    <3>. DEFINE r == Reconcile(Parse(side[k]), sc[p].size, sc[p].mtime)
    <3>1. Honest(k, sc[p])
      BY <2>0, <2>5 DEF ReadSide, PendInv
    <3>2. side[k] \in Sidecars \cup {Absent, Empty, Garbled}
      BY DEF TypeOK
    <3>3. Honest(k, r)
      BY <1>3, <3>1, <3>2, ReconcileHonest DEF SideInv, Honest
    <3>4. r \in Sidecars
      BY <1>3, <3>2, ParseType, ReconcileType DEF Sidecars
    <3>5. s = r \/ s = [r EXCEPT !.sum = input[p]]
      BY <2>0, <2>5 DEF ReadSide, TypeOK
    <3>6. s.mtime = r.mtime /\ s.etag = r.etag
      BY <3>4, <3>5 DEF Sidecars
    <3>. QED  BY <3>3, <3>6 DEF Honest
  <2>6. CASE Digest(p)
    <3>1. Honest(k, sc[p])
      BY <2>0, <2>6 DEF Digest, PendInv
    <3>2. /\ s.mtime = sc[p].mtime
          /\ s.etag = IF sc[p].etag = None THEN file[k].body ELSE sc[p].etag
      <4>1. ~(sc[p].etag = None /\ file[k] = NoFile)
        BY <1>5, <2>0, <2>6 DEF Digest, Fail, Goto, TypeOK
      <4>2. sc[p] \in Sidecars
        BY <1>3
      <4>. QED  BY <2>0, <2>6, <4>1, <4>2 DEF Digest, TypeOK, Sidecars
    <3>. QED  BY <3>1, <3>2 DEF Honest
  <2>7. CASE Truncate(p)
    BY <2>0, <2>7 DEF Truncate, PendInv, local
  <2>. QED  BY <2>1, <2>3, <2>4, <2>5, <2>6, <2>7
<1>. QED  BY <1>4, <1>5 DEF PendInv

\* Every step preserves the invariant.
LEMMA DInvNext == ASSUME Assumptions PROVE DInv /\ [Next]_vars => DInv'
<1>. SUFFICES ASSUME DInv, [Next]_vars PROVE DInv'
  OBVIOUS
<1>. USE DEF DInv
<1>1. TInv' /\ TimeInv'
  BY TInvNext, HonestKept
<1>2. \A k \in Keys, s \in Sidecars : Honest(k, s) => Honest(k, s)'
  BY HonestKept
<1>3. ASSUME NEW p \in Procs, Begin(p) \/ LockKey(p) \/ Step(p)
      PROVE  NoSelfCall' /\ LockInv' /\ OwnBytes' /\ SideInv' /\ PendInv'
  BY <1>3, NoSelfStep, LockStep, OwnStep, SideStep, PendStep
<1>4. ASSUME UNCHANGED <<side, scratch>>
      PROVE  SideInv'
  <2>. SUFFICES ASSUME NEW k \in Keys
                PROVE  /\ side[k] \in Sidecars => Honest(k, side[k])'
                       /\ scratch[k] \in Sidecars => Honest(k, scratch[k])'
    BY <1>4 DEF SideInv
  <2>1. ASSUME NEW s \in Sidecars, s \in {side[k], scratch[k]}
        PROVE  Honest(k, s)'
    BY <1>2, <2>1 DEF SideInv
  <2>. QED  BY <1>4, <2>1 DEF Honest, Fresh
<1>5. ASSUME NEW k \in Keys, EditFile(k)
      PROVE  NoSelfCall' /\ LockInv' /\ OwnBytes' /\ SideInv' /\ PendInv'
  <2>0. \A p \in Procs : pc[p] = "restat" => Key(p) = req[p].key
    BY DEF TInv, Busy, Key
  <2>1. /\ UNCHANGED <<side, scratch, held, pc, call, req, sc>>
        /\ \A j \in Keys \ {k} : file'[j] = file[j]
        /\ \A p \in Procs : ~(pc[p] = "restat" /\ Key(p) = k)
    BY <1>5, <2>0 DEF EditFile, MidWrite, SetFile, disk, Assumptions,
                      QuietEdits, TInv, TypeOK
  <2>7. PICK b \in Bodies : UNCHANGED <<input, body>> \/ WriteInPlace(k, b)
    BY <1>5 DEF EditFile
  <2>8. \A p \in Procs : pc[p] = "restat" => input'[p] = input[p]
    BY <2>7, EditType DEF TInv, Copies
  <2>2. \A p \in Procs : Key(p)' = Key(p) /\ Key(p) \in Keys /\ sc[p] \in Sidecars
    BY <2>1, KeyType DEF Key, TInv, TypeOK
  <2>3. NoSelfCall' /\ LockInv'
    BY <2>1, <2>2 DEF NoSelfCall, LockInv, LockMode, Locks!Exclusive
  <2>4. OwnBytes'
    BY <2>1, <2>2, <2>8 DEF OwnBytes
  <2>5. SideInv'
    BY <1>4, <2>1
  <2>6. PendInv'
    <3>. SUFFICES ASSUME NEW p \in Procs,
                         pc[p] \in {"readside", "digest", "trunc", "write"}
                  PROVE  Honest(Key(p), sc[p])'
      BY <2>1 DEF PendInv
    <3>1. PICK n \in Keys, s \in Sidecars : n = Key(p) /\ s = sc[p]
      BY <2>2
    <3>2. Honest(n, s)'
      BY <1>2, <3>1 DEF PendInv
    <3>. QED  BY <2>1, <2>2, <3>1, <3>2 DEF Honest, Fresh
  <2>. QED  BY <2>3, <2>4, <2>5, <2>6
<1>6. CASE Crash
  <2>1. UNCHANGED <<side, scratch>>
    BY <1>6 DEF Crash
  <2>2. \A p \in Procs : pc'[p] = "idle" /\ call'[p] = "none"
    BY <1>6, StoppedIdle DEF Crash
  <2>3. NoSelfCall' /\ OwnBytes' /\ PendInv'
    BY <2>2 DEF NoSelfCall, OwnBytes, PendInv
  <2>4. LockInv'
    BY <1>6, <2>2 DEF Crash, LockInv, Section, Locks!Free, Locks!Exclusive
  <2>. QED  BY <1>1, <1>4, <2>1, <2>3, <2>4
<1>7. CASE UNCHANGED vars
  BY <1>1, <1>7 DEF vars, disk, local, NoSelfCall, LockInv, OwnBytes, SideInv,
     PendInv, Honest, Fresh, Key, LockMode, Locks!Exclusive
<1>. QED  BY <1>1, <1>3, <1>5, <1>6, <1>7 DEF Next, Rest

LEMMA DInvCached == DInv => CachedDigestCorrect
<1>. SUFFICES ASSUME DInv, NEW k \in Keys, file[k] # NoFile
              PROVE  Current(k).etag \in {None, file[k].body}
  BY DEF CachedDigestCorrect
<1>. USE DEF DInv, TInv
<1>1. side[k] \in Sidecars \cup {Absent, Empty, Garbled} /\ file[k] \in Version
  BY DEF TypeOK
<1>2. Size[file[k].body] \in Nat /\ file[k].mtime \in Nat
  BY <1>1, SizesAreNat DEF Version
<1>3. PICK s0 \in Sidecars : s0.size = Size[file[k].body] /\ s0.mtime = file[k].mtime
  <2>1. Sidecar(None, None, Size[file[k].body], file[k].mtime, None) \in Sidecars
    BY <1>2 DEF Sidecar, Sidecars
  <2>. QED  BY <2>1 DEF Sidecar
<1>4. Fresh(k, s0.mtime)
  BY <1>3, StatFresh
<1>5. Honest(k, Current(k))
  BY <1>1, <1>3, <1>4, ReconcileHonest DEF SideInv, Current
<1>6. Current(k).mtime = file[k].mtime
  <2>1. Parse(side[k]) \in Sidecars
    BY <1>1, ParseType
  <2>2. Reconcile(Parse(side[k]), Size[file[k].body], file[k].mtime).mtime = file[k].mtime
    BY <1>2, <2>1 DEF Reconcile, Sidecars
  <2>. QED  BY <2>2 DEF Current
<1>. QED  BY <1>5, <1>6 DEF Honest

\* The digest readSidecar believes is the digest of the bytes in the file, for
\* every interleaving of requests, listings, outside edits and crashes, as long
\* as mtimes tell writes apart, edits spare the instant between PutObject's
\* rename and its stat, and no object is copied onto itself.
THEOREM DigestsTrusted ==
  ASSUME Assumptions PROVE Spec => []CachedDigestCorrect
<1>1. Init => DInv
  BY DInvInit
<1>2. DInv /\ [Next]_vars => DInv'
  BY DInvNext
<1>3. DInv => CachedDigestCorrect
  BY DInvCached
<1>. QED  BY <1>1, <1>2, <1>3, PTL DEF Spec
=============================================================================
