--------------------------- MODULE MultipartProofs ---------------------------
(***************************************************************************)
(* For any number of goroutines, keys, uploads, parts and requests: one    *)
(* Complete of an upload succeeds at most, whatever comes between, and an  *)
(* upload that was ended stays gone.  And where no client uploads parts of *)
(* an upload it is completing, a Complete makes the object it promised or  *)
(* none.                                                                   *)
(***************************************************************************)
EXTENDS Multipart, WellFoundedInduction, TLAPS

Action(p) == Begin(p) \/ Lock(p) \/ LockPut(p) \/ Delete(p) \/ Step(p)

\* A Complete whose list has been checked, until its answer is out.
Trusted(p) ==
  /\ req[p].op = "COMPLETE"
  /\ \/ pc[p] \in {"lock", "copy", "sidecar", "describe", "scan", "remove", "unlock"}
     \/ pc[p] = "done" /\ res[p] = "ok"

Validated(p) == \A i \in DOMAIN req[p].parts : Complaint(p, i) = "ok"

\* Which requests come to which places.
Place(p) ==
  /\ req[p].op = "CREATE" => pc[p] \in {"idle", "mkdir", "manifest", "done"}
  /\ pc[p] \in {"mkdir", "manifest"} => req[p].op = "CREATE"
  /\ pc[p] = "load" => req[p].op \in {"UPLOAD", "ABORT", "COMPLETE"}
  /\ pc[p] \in {"stage", "rename", "stat"} => req[p].op = "UPLOAD"
  /\ pc[p] \in {"scan", "remove"} => req[p].op \in {"ABORT", "COMPLETE"}
  /\ pc[p] \in {"list", "info", "digest", "lock", "copy", "sidecar", "describe", "unlock"} =>
       req[p].op = "COMPLETE"
  /\ pc[p] \in {"put", "body"} => req[p].op = "PUT"
  /\ pc[p] = "delete" => req[p].op = "DELETE"
  /\ req[p].op = "COMPLETE" /\ pc[p] \notin {"idle", "load", "done"} =>
       req[p].parts # << >>
  /\ pc[p] \in {"info", "digest"} => todo[p] \subseteq Numbers
  /\ pc[p] = "digest" => todo[p] # {}

\* Nothing is copied before the lock is there.
Fresh(p) ==
  pc[p] \notin {"copy", "sidecar", "describe", "scan", "remove", "unlock", "done"} =>
    copied[p] = << >>

TInv == TypeOK /\ \A p \in Procs : Place(p) /\ Fresh(p) /\ (Trusted(p) => Validated(p))

-----------------------------------------------------------------------------

\* A set of natural numbers has a smallest element.
LEMMA SmallestIn ==
  ASSUME NEW T \in SUBSET Nat, T # {}
  PROVE  Smallest(T) \in T /\ \A m \in T : Smallest(T) <= m
<1>1. PICK R : R = OpToRel(<, Nat)
  BY Zenon
<1>2. R = {ss \in Nat \X Nat : ss[1] < ss[2]}
  BY <1>1, Zenon DEF OpToRel
<1>3. IsWellFoundedOn(R, Nat)
  BY <1>1, NatLessThanWellFounded, Zenon
<1>4. PICK n \in T : \A m \in T : ~(<<m, n>> \in R)
  BY <1>3, WFMin
<1>5. \A m \in T : n <= m
  <2>1. \A a, b \in Nat : a < b => <<a, b>> \in R
    BY <1>2
  <2>2. \A m \in T : ~(m < n)
    BY <1>4, <2>1
  <2>. QED  BY <2>2
<1>. QED  BY <1>5 DEF Smallest

LEMMA ReqType ==
  ASSUME TypeOK, NEW p \in Procs
  PROVE  /\ req[p].key \in Keys /\ req[p].number \in Numbers /\ req[p].body \in Bodies
         /\ req[p].parts \in Seq(Wanted) /\ id[p] \in Uploads
         /\ req[p].op \in {"CREATE", "UPLOAD", "COMPLETE", "ABORT", "PUT", "DELETE"}
<1>1. req[p] \in Request /\ id[p] \in Uploads
  BY RequestsType DEF TypeOK
<1>. QED  BY <1>1 DEF Request

LEMMA ComplaintType ==
  ASSUME NEW p \in Procs, NEW i PROVE Complaint(p, i) \in Results
BY DEF Complaint, Results

LEMMA NoPartsType == NoParts \in [Numbers -> Bodies \cup {Nothing}]
BY DEF NoParts

\* What a list that was checked says.
LEMMA ChecksOut ==
  ASSUME TypeOK, NEW p \in Procs, Validated(p), NEW i \in DOMAIN req[p].parts
  PROVE  /\ req[p].parts[i].number \in Numbers /\ req[p].parts[i].etag \in Bodies
         /\ staged[p][req[p].parts[i].number] = req[p].parts[i].etag
         /\ i < Len(req[p].parts) => req[p].parts[i].number \notin small[p]
         /\ i > 1 => req[p].parts[i].number > req[p].parts[i-1].number
<1>1. req[p].parts \in Seq(Wanted)
  BY ReqType
<1>2. req[p].parts[i] \in Wanted /\ i \in 1 .. Len(req[p].parts)
  BY <1>1
<1>3. i > 1 => req[p].parts[i-1] \in Wanted
  BY <1>1, <1>2
<1>4. Complaint(p, i) = "ok"
  BY DEF Validated
<1>5. staged[p][req[p].parts[i].number] = req[p].parts[i].etag
  BY <1>4 DEF Complaint
<1>6. i < Len(req[p].parts) => req[p].parts[i].number \notin small[p]
  BY <1>4, <1>5 DEF Complaint
<1>7. i > 1 => ~(req[p].parts[i].number <= req[p].parts[i-1].number)
  BY <1>4 DEF Complaint
<1>8. i > 1 => req[p].parts[i].number > req[p].parts[i-1].number
  <2>. SUFFICES ASSUME i > 1 PROVE req[p].parts[i].number > req[p].parts[i-1].number
    OBVIOUS
  <2>1. PICK m \in Nat, n \in Nat :
          m = req[p].parts[i-1].number /\ n = req[p].parts[i].number
    BY <1>2, <1>3, NumbersAreNat DEF Wanted
  <2>2. ~(n <= m)
    BY <1>7, <2>1
  <2>. QED  BY <2>1, <2>2
<1>. QED  BY <1>2, <1>5, <1>6, <1>8 DEF Wanted

-----------------------------------------------------------------------------
(***************************************************************************)
(* Types                                                                   *)
(***************************************************************************)

LEMMA TInvInit == Init => TInv
<1>. SUFFICES ASSUME Init PROVE TInv
  OBVIOUS
<1>1. PICK s \in Seeds :
       /\ exists = [u \in Uploads |-> u = s.id]
       /\ manifest = [u \in Uploads |-> IF u = s.id THEN s.key ELSE Nothing]
       /\ part = [u \in Uploads |-> IF u = s.id THEN s.parts ELSE NoParts]
       /\ known = {s.id}
  BY DEF Init
<1>2. s.id \in Uploads /\ s.key \in Keys /\ s.parts \in [Numbers -> Bodies \cup {Nothing}]
  BY SeedsType
<1>3. (CHOOSE r \in Requests : TRUE) \in Requests /\ (CHOOSE u \in Uploads : TRUE) \in Uploads
  BY <1>2, RequestsType
<1>4. req \in [Procs -> Requests] /\ id \in [Procs -> Uploads]
  BY <1>3 DEF Init
<1>5. /\ exists \in [Uploads -> BOOLEAN] /\ manifest \in [Uploads -> Keys \cup {Nothing}]
      /\ part \in [Uploads -> [Numbers -> Bodies \cup {Nothing}]]
      /\ known \subseteq Uploads
  BY <1>1, <1>2, NoPartsType
<1>6. TypeOK
  BY <1>4, <1>5, NoPartsType DEF Init, TypeOK, Locks!Free, PCs, Results
<1>7. \A p \in Procs : Place(p) /\ Fresh(p) /\ ~Trusted(p)
  BY DEF Init, Place, Fresh, Trusted
<1>. QED  BY <1>6, <1>7 DEF TInv

LEMMA LoadCases ==
  ASSUME TInv, NEW p \in Procs, Load(p)
  PROVE  /\ pc[p] = "load"
         /\ UNCHANGED <<upload, bucket, req, id, local, bound, ghost>>
         /\ \/ ~Loaded(p) /\ Done(p, "NoSuchUpload")
            \/ /\ req[p].op = "COMPLETE" /\ req[p].parts = << >>
               /\ Done(p, "InvalidPart")
            \/ /\ Loaded(p) /\ res' = res
               /\ \/ req[p].op = "UPLOAD" /\ Goto(p, "stage")
                  \/ req[p].op = "ABORT" /\ Goto(p, "scan")
                  \/ /\ req[p].op = "COMPLETE" /\ req[p].parts # << >>
                     /\ Goto(p, "list")
<1>1. pc[p] = "load" /\ req[p].op \in {"UPLOAD", "ABORT", "COMPLETE"}
  BY DEF Load, TInv, Place
<1>2. UNCHANGED <<upload, bucket, req, id, local, bound, ghost>>
  BY DEF Load
<1>3. CASE ~Loaded(p)
  BY <1>1, <1>2, <1>3 DEF Load
<1>4. CASE Loaded(p) /\ req[p].op = "UPLOAD"
  BY <1>1, <1>2, <1>4 DEF Load
<1>5. CASE Loaded(p) /\ req[p].op = "ABORT"
  BY <1>1, <1>2, <1>5 DEF Load
<1>6. CASE Loaded(p) /\ req[p].op = "COMPLETE"
  BY <1>1, <1>2, <1>6 DEF Load
<1>. QED  BY <1>1, <1>3, <1>4, <1>5, <1>6

\* A goroutine leaves the place and the answer of the others alone.
LEMMA Others ==
  ASSUME TInv, NEW p \in Procs, Action(p)
  PROVE  \A q \in Procs \ {p} :
           /\ pc'[q] = pc[q] /\ req'[q] = req[q] /\ id'[q] = id[q] /\ res'[q] = res[q]
           /\ todo'[q] = todo[q] /\ small'[q] = small[q] /\ staged'[q] = staged[q]
           /\ stamp'[q] = stamp[q] /\ copied'[q] = copied[q] /\ wrote'[q] = wrote[q]
<1>. USE DEF TInv, TypeOK, Goto, Done, Fail, local, ghost
<1>1. CASE Begin(p) \/ Lock(p) \/ Put(p) \/ LockPut(p) \/ Delete(p)
  BY <1>1 DEF Begin, Lock, Put, LockPut, Delete
<1>2. CASE Respond(p) \/ MakeDir(p) \/ WriteManifest(p)
  BY <1>2 DEF Respond, MakeDir, WriteManifest
<1>3. CASE Load(p)
  <2>1. \E l, r : /\ pc' = [pc EXCEPT ![p] = l]
                  /\ res' = res \/ res' = [res EXCEPT ![p] = r]
                  /\ UNCHANGED <<req, id, todo, small, staged, stamp, copied, wrote>>
    BY <1>3, LoadCases, Zenon DEF Goto, Done, local, ghost
  <2>. QED  BY <2>1
<1>4. CASE Stage(p) \/ RenamePart(p) \/ StatPart(p)
  BY <1>4 DEF Stage, RenamePart, StatPart
<1>5. CASE Scan(p) \/ RemoveEntry(p) \/ RemoveDir(p)
  BY <1>5 DEF Scan, RemoveEntry, RemoveDir
<1>6. CASE List(p) \/ PartInfo(p) \/ DigestPart(p) \/ Validate(p)
  BY <1>6 DEF List, PartInfo, DigestPart, Validate
<1>7. CASE Copy(p) \/ Publish(p) \/ StatObject(p) \/ Describe(p) \/ Unlock(p)
  BY <1>7 DEF Copy, Publish, StatObject, Describe, Unlock
<1>. QED  BY <1>1, <1>2, <1>3, <1>4, <1>5, <1>6, <1>7 DEF Action, Step

LEMMA PartType ==
  ASSUME part \in [Uploads -> [Numbers -> Bodies \cup {Nothing}]],
         NEW u \in Uploads, NEW n \in Numbers, NEW b \in Bodies \cup {Nothing}
  PROVE  [part EXCEPT ![u][n] = b] \in [Uploads -> [Numbers -> Bodies \cup {Nothing}]]
OBVIOUS

\* What writeSidecar leaves behind.
LEMMA WriteCases ==
  ASSUME NEW k, NEW own, NEW v, NEW r, WriteSidecar(k, own, v, r)
  PROVE  \E s : /\ side' = [side EXCEPT ![k] = s]
                /\ \/ s \in {own, Nothing, side[k]}
                   \/ v # Nothing /\ s = [etag |-> v.bytes, mtime |-> v.mtime]
BY Zenon DEF WriteSidecar

LEMMA SidecarType ==
  ASSUME TypeOK, NEW k \in Keys, NEW own \in [etag : Seq(Bodies), mtime : Nat],
         NEW v \in [bytes : Seq(Bodies), mtime : Nat] \cup {Nothing}, NEW r,
         WriteSidecar(k, own, v, r)
  PROVE  side' \in [Keys -> [etag : Seq(Bodies), mtime : Nat] \cup {Nothing}]
<1>1. PICK s : /\ side' = [side EXCEPT ![k] = s]
               /\ \/ s \in {own, Nothing, side[k]}
                  \/ v # Nothing /\ s = [etag |-> v.bytes, mtime |-> v.mtime]
  BY WriteCases
<1>2. s \in [etag : Seq(Bodies), mtime : Nat] \cup {Nothing}
  BY <1>1 DEF TypeOK
<1>. QED  BY <1>1, <1>2 DEF TypeOK

LEMMA StepType ==
  ASSUME TInv, NEW p \in Procs, Action(p)
  PROVE  TypeOK'
<1>. USE DEF TInv, Goto, Done, Fail, local, ghost, upload, bucket, bound
<1>0. /\ req[p].key \in Keys /\ req[p].number \in Numbers /\ req[p].body \in Bodies
      /\ req[p].parts \in Seq(Wanted) /\ id[p] \in Uploads
  BY ReqType
<1>1. CASE Begin(p)
  <2>1. PICK r \in Requests, u \in Uploads :
          /\ req' = [req EXCEPT ![p] = r] /\ id' = [id EXCEPT ![p] = u]
          /\ pc' = [pc EXCEPT ![p] = FirstStep(r.op)]
    BY <1>1 DEF Begin
  <2>2. FirstStep(r.op) \in PCs
    BY DEF FirstStep, PCs
  <2>. QED  BY <1>1, <2>1, <2>2 DEF Begin, TypeOK
<1>2. CASE Lock(p) \/ LockPut(p)
  <2>1. /\ held' = [held EXCEPT ![req[p].key][p] = "W"]
        /\ \E l \in {"copy", "body"} : pc' = [pc EXCEPT ![p] = l]
        /\ UNCHANGED <<upload, object, side, clock, req, id, res, local, bound, ghost>>
    BY <1>2 DEF Lock, LockPut, Locks!Grant
  <2>2. held' \in [Keys -> [Procs -> {"free", "R", "W"}]] /\ pc' \in [Procs -> PCs]
    BY <1>0, <2>1 DEF TypeOK, PCs
  <2>. QED  BY <2>1, <2>2 DEF TypeOK
<1>3. CASE Put(p)
  <2>1. PICK v \in [bytes : Seq(Bodies), mtime : Nat] :
          v = [bytes |-> <<req[p].body>>, mtime |-> clock + 1]
    <3>1. <<req[p].body>> \in Seq(Bodies) /\ clock + 1 \in Nat
      BY <1>0 DEF TypeOK
    <3>. QED  BY <3>1
  <2>2. PICK own \in [etag : Seq(Bodies), mtime : Nat] :
          own = [etag |-> v.bytes, mtime |-> v.mtime]
    OBVIOUS
  <2>3. /\ \E r \in {"ok", "error"} : Done(p, r)
        /\ UNCHANGED <<upload, req, id, local, bound, ghost>>
        /\ held' = [held EXCEPT ![req[p].key][p] = "free"]
    BY <1>3 DEF Put, Locks!Drop
  <2>4. \/ UNCHANGED <<object, side, clock>>
        \/ /\ clock' = clock + 1 /\ object' = [object EXCEPT ![req[p].key] = v]
           /\ \E r : WriteSidecar(req[p].key, own, v, r)
    BY <1>3, <2>1, <2>2, Zenon DEF Put
  <2>5. CASE UNCHANGED <<object, side, clock>>
    BY <1>0, <2>3, <2>5 DEF TypeOK, PCs, Results
  <2>6. CASE /\ clock' = clock + 1 /\ object' = [object EXCEPT ![req[p].key] = v]
             /\ \E r : WriteSidecar(req[p].key, own, v, r)
    <3>1. side' \in [Keys -> [etag : Seq(Bodies), mtime : Nat] \cup {Nothing}]
      BY <1>0, <2>6, SidecarType
    <3>2. clock' \in Nat
          /\ object' \in [Keys -> [bytes : Seq(Bodies), mtime : Nat] \cup {Nothing}]
      BY <1>0, <2>6 DEF TypeOK
    <3>3. pc' \in [Procs -> PCs] /\ res' \in [Procs -> Results]
      BY <2>3 DEF TypeOK, PCs, Results
    <3>4. held' \in [Keys -> [Procs -> {"free", "R", "W"}]]
      BY <1>0, <2>3 DEF TypeOK
    <3>. QED  BY <2>3, <3>1, <3>2, <3>3, <3>4 DEF TypeOK
  <2>. QED  BY <2>4, <2>5, <2>6
<1>4. CASE Delete(p)
  BY <1>0, <1>4 DEF Delete, TypeOK, PCs, Results
<1>5. CASE Respond(p)
  <2>1. known' \subseteq Uploads /\ ended' \subseteq Uploads
    BY <1>0, <1>5 DEF Respond, TypeOK
  <2>2. completed' \in [Uploads -> Nat]
    BY <1>0, <1>5 DEF Respond, TypeOK
  <2>. QED  BY <1>5, <2>1, <2>2, NoPartsType DEF Respond, TypeOK, PCs, Results
<1>6. CASE MakeDir(p) \/ WriteManifest(p)
  BY <1>0, <1>6 DEF MakeDir, WriteManifest, TypeOK, PCs, Results
<1>7. CASE Load(p)
  <2>1. UNCHANGED <<upload, bucket, req, id, local, bound, ghost>>
    BY <1>7, LoadCases
  <2>2. \E l \in {"done", "stage", "scan", "list"} : pc' = [pc EXCEPT ![p] = l]
    BY <1>7, LoadCases, Zenon DEF Goto, Done
  <2>3. res' = res \/ \E r \in {"NoSuchUpload", "InvalidPart"} : res' = [res EXCEPT ![p] = r]
    BY <1>7, LoadCases, Zenon DEF Goto, Done
  <2>4. pc' \in [Procs -> PCs]
    <3>1. pc \in [Procs -> PCs] /\ {"done", "stage", "scan", "list"} \subseteq PCs
      BY DEF TypeOK, PCs
    <3>. QED  BY <2>2, <3>1
  <2>5. res' \in [Procs -> Results]
    <3>1. res \in [Procs -> Results] /\ {"NoSuchUpload", "InvalidPart"} \subseteq Results
      BY DEF TypeOK, Results
    <3>. QED  BY <2>3, <3>1
  <2>. QED  BY <2>1, <2>4, <2>5 DEF TypeOK
<1>8. CASE Stage(p)
  <2>1. [NoParts EXCEPT ![req[p].number] = req[p].body] \in [Numbers -> Bodies \cup {Nothing}]
    BY <1>0, NoPartsType
  <2>2. PICK f \in [Numbers -> Bodies \cup {Nothing}] :
          f = [NoParts EXCEPT ![req[p].number] = req[p].body]
    BY <2>1
  <2>3. CASE staged' = [staged EXCEPT ![p] = f] /\ Goto(p, "rename") /\ res' = res
    BY <1>8, <2>3 DEF Stage, TypeOK, PCs
  <2>4. CASE Done(p, "error") /\ staged' = staged
    BY <1>8, <2>4 DEF Stage, TypeOK, PCs, Results
  <2>. QED  BY <1>8, <2>2, <2>3, <2>4 DEF Stage
<1>9. CASE RenamePart(p)
  <2>1. PICK u \in Uploads, n \in Numbers : u = id[p] /\ n = req[p].number
    BY <1>0
  <2>2. PICK b \in Bodies \cup {Nothing} : b = staged[p][n]
    BY DEF TypeOK
  <2>3. part' = part \/ part' = [part EXCEPT ![u][n] = b]
    BY <1>9, <2>1, <2>2 DEF RenamePart
  <2>4. part' \in [Uploads -> [Numbers -> Bodies \cup {Nothing}]]
    <3>1. part \in [Uploads -> [Numbers -> Bodies \cup {Nothing}]]
      BY DEF TypeOK
    <3>2. [part EXCEPT ![u][n] = b] \in [Uploads -> [Numbers -> Bodies \cup {Nothing}]]
      BY <3>1, PartType
    <3>. QED  BY <2>3, <3>1, <3>2
  <2>5. pc' \in [Procs -> PCs] /\ res' \in [Procs -> Results]
    BY <1>9 DEF RenamePart, TypeOK, PCs, Results
  <2>. QED  BY <1>9, <2>4, <2>5 DEF RenamePart, TypeOK
<1>20. CASE StatPart(p)
  BY <1>20 DEF StatPart, TypeOK, PCs, Results
<1>10. CASE Scan(p)
  <2>1. Entries(id[p]) \subseteq Numbers \cup {0}
    BY DEF Entries
  <2>. QED  BY <1>10, <2>1 DEF Scan, TypeOK, PCs
<1>11. CASE RemoveEntry(p)
  <2>1. PICK n \in todo[p] :
          /\ todo' = [todo EXCEPT ![p] = @ \ {n}]
          /\ \/ manifest' = [manifest EXCEPT ![id[p]] = Nothing] /\ part' = part
             \/ /\ n # 0 /\ part' = [part EXCEPT ![id[p]][n] = Nothing]
                /\ manifest' = manifest
    BY <1>11 DEF RemoveEntry
  <2>2. n # 0 => n \in Numbers
    BY DEF TypeOK
  <2>3. part' \in [Uploads -> [Numbers -> Bodies \cup {Nothing}]]
    <3>1. part \in [Uploads -> [Numbers -> Bodies \cup {Nothing}]]
      BY DEF TypeOK
    <3>2. CASE part' = part
      BY <3>1, <3>2
    <3>3. CASE n # 0 /\ part' = [part EXCEPT ![id[p]][n] = Nothing]
      BY <1>0, <2>2, <3>1, <3>3, PartType
    <3>. QED  BY <2>1, <3>2, <3>3
  <2>4. manifest' \in [Uploads -> Keys \cup {Nothing}]
    BY <1>0, <2>1 DEF TypeOK
  <2>5. todo' \in [Procs -> SUBSET (Numbers \cup {0})]
    BY <2>1 DEF TypeOK
  <2>. QED  BY <1>11, <2>3, <2>4, <2>5 DEF RemoveEntry, TypeOK
<1>12. CASE RemoveDir(p)
  BY <1>0, <1>12 DEF RemoveDir, TypeOK, PCs, Results
<1>13. CASE List(p)
  <2>1. Entries(id[p]) \ {0} \subseteq Numbers \cup {0}
    BY DEF Entries
  <2>2. CASE Loaded(p)
    <3>1. todo' = [todo EXCEPT ![p] = Entries(id[p]) \ {0}] /\ Goto(p, "info") /\ res' = res
      BY <1>13, <2>2 DEF List
    <3>2. todo' \in [Procs -> SUBSET (Numbers \cup {0})] /\ pc' \in [Procs -> PCs]
      BY <2>1, <3>1 DEF TypeOK, PCs
    <3>. QED  BY <1>13, <3>1, <3>2 DEF List, TypeOK
  <2>3. CASE ~Loaded(p)
    <3>1. pc' \in [Procs -> PCs] /\ res' \in [Procs -> Results] /\ todo' = todo
      BY <1>13, <2>3 DEF List, TypeOK, PCs, Results
    <3>. QED  BY <1>13, <3>1 DEF List, TypeOK
  <2>. QED  BY <2>2, <2>3
<1>14. CASE PartInfo(p)
  <2>0. todo[p] \subseteq Numbers /\ todo[p] # {}
    BY <1>14 DEF PartInfo, Place
  <2>1. PICK n : n = Smallest(todo[p])
    OBVIOUS
  <2>2. n \in Numbers
    BY <2>0, <2>1, SmallestIn, NumbersAreNat
  <2>3. small' \in [Procs -> SUBSET Numbers]
    <3>1. small[p] \subseteq Numbers /\ small \in [Procs -> SUBSET Numbers]
      BY DEF TypeOK
    <3>2. PICK S \in SUBSET Numbers : small' = small \/ small' = [small EXCEPT ![p] = S]
      <4>1. \/ small' = small
            \/ small' = [small EXCEPT ![p] = small[p] \cup {n}]
            \/ small' = [small EXCEPT ![p] = small[p] \ {n}]
        BY <1>14, <2>1, <3>1 DEF PartInfo
      <4>. QED  BY <2>2, <3>1, <4>1
    <3>. QED  BY <3>1, <3>2
  <2>4. todo' \in [Procs -> SUBSET (Numbers \cup {0})]
    <3>1. todo \in [Procs -> SUBSET (Numbers \cup {0})]
      BY DEF TypeOK
    <3>2. todo' = todo \/ todo' = [todo EXCEPT ![p] = todo[p] \ {n}]
      BY <1>14, <2>1 DEF PartInfo
    <3>3. todo[p] \ {n} \in SUBSET (Numbers \cup {0})
      BY <2>0
    <3>4. PICK B : B = SUBSET (Numbers \cup {0})
      OBVIOUS
    <3>5. PICK S \in B : todo' = todo \/ todo' = [todo EXCEPT ![p] = S]
      BY <3>2, <3>3, <3>4, Zenon
    <3>6. [todo EXCEPT ![p] = S] \in [Procs -> B]
      <4>1. todo \in [Procs -> B] /\ S \in B
        BY <3>1, <3>4
      <4>. QED  BY <4>1
    <3>. QED  BY <3>1, <3>4, <3>5, <3>6, Zenon
  <2>5. pc' \in [Procs -> PCs]
    <3>1. pc \in [Procs -> PCs]
      BY DEF TypeOK
    <3>2. PICK c \in PCs : pc' = pc \/ pc' = [pc EXCEPT ![p] = c]
      BY <1>14 DEF PartInfo, PCs
    <3>. QED  BY <3>1, <3>2
  <2>. QED  BY <1>14, <2>3, <2>4, <2>5 DEF PartInfo, TypeOK
<1>21. CASE DigestPart(p)
  <2>1. PICK n : /\ staged' = [staged EXCEPT ![p][n] = part[id[p]][n]]
                 /\ todo' = [todo EXCEPT ![p] = @ \ {n}]
    BY <1>21 DEF DigestPart
  <2>2. staged' \in [Procs -> [Numbers -> Bodies \cup {Nothing}]]
    <3>1. n \in Numbers => part[id[p]][n] \in Bodies \cup {Nothing}
      BY <1>0 DEF TypeOK
    <3>2. staged[p] \in [Numbers -> Bodies \cup {Nothing}]
      BY DEF TypeOK
    <3>3. [staged[p] EXCEPT ![n] = part[id[p]][n]] \in [Numbers -> Bodies \cup {Nothing}]
      BY <3>1, <3>2
    <3>4. staged' = [staged EXCEPT ![p] = [staged[p] EXCEPT ![n] = part[id[p]][n]]]
      BY <2>1
    <3>. QED  BY <3>3, <3>4 DEF TypeOK
  <2>3. todo' \in [Procs -> SUBSET (Numbers \cup {0})]
    BY <2>1 DEF TypeOK
  <2>. QED  BY <1>21, <2>2, <2>3 DEF DigestPart, TypeOK, PCs
<1>15. CASE Validate(p)
  <2>1. PICK r \in Results : (pc' = [pc EXCEPT ![p] = "lock"] /\ res' = res)
                             \/ (pc' = [pc EXCEPT ![p] = "done"] /\ res' = [res EXCEPT ![p] = r])
    <3>1. \/ Goto(p, "lock") /\ res' = res
          \/ \E i : Done(p, Complaint(p, i))
      BY <1>15, Zenon DEF Validate
    <3>2. "ok" \in Results
      BY DEF Results
    <3>. QED  BY <3>1, <3>2, ComplaintType
  <2>2. pc' \in [Procs -> PCs] /\ res' \in [Procs -> Results]
    <3>1. {"lock", "done"} \subseteq PCs /\ pc \in [Procs -> PCs] /\ res \in [Procs -> Results]
      BY DEF TypeOK, PCs
    <3>. QED  BY <2>1, <3>1
  <2>. QED  BY <1>15, <2>2 DEF Validate, TypeOK
<1>16. CASE Copy(p)
  <2>1. PICK b : b = part[id[p]][req[p].parts[Len(copied[p]) + 1].number]
    OBVIOUS
  <2>2. b \in Bodies \cup {Nothing}
    <3>1. Len(copied[p]) + 1 \in 1 .. Len(req[p].parts)
      BY <1>0, <1>16 DEF Copy, TypeOK
    <3>2. req[p].parts[Len(copied[p]) + 1] \in Wanted
      BY <1>0, <3>1
    <3>. QED  BY <1>0, <2>1, <3>2 DEF Wanted, TypeOK
  <2>3. CASE b = Nothing
    BY <1>16, <2>1, <2>3 DEF Copy, TypeOK, PCs, Results
  <2>4. CASE b # Nothing
    <3>1. Append(copied[p], b) \in Seq(Bodies)
      BY <2>2, <2>4 DEF TypeOK
    <3>2. copied' = [copied EXCEPT ![p] = Append(copied[p], b)]
      BY <1>16, <2>1, <2>4 DEF Copy, TypeOK
    <3>. QED  BY <1>16, <2>1, <2>4, <3>1, <3>2 DEF Copy, TypeOK
  <2>. QED  BY <2>3, <2>4
<1>17. CASE Publish(p)
  <2>1. clock' \in Nat /\ copied[p] \in Seq(Bodies)
    BY <1>17 DEF Publish, TypeOK
  <2>. QED  BY <1>0, <1>17, <2>1 DEF Publish, TypeOK, PCs
<1>22. CASE StatObject(p)
  <2>1. PICK v : v = object[req[p].key]
    OBVIOUS
  <2>2. v # Nothing => v.mtime \in Nat
    BY <1>0, <2>1 DEF TypeOK
  <2>3. stamp' \in [Procs -> Nat]
    BY <1>22, <2>1, <2>2 DEF StatObject, TypeOK
  <2>4. pc' \in [Procs -> PCs] /\ res' \in [Procs -> Results]
    BY <1>22 DEF StatObject, TypeOK, PCs, Results
  <2>. QED  BY <1>22, <2>3, <2>4 DEF StatObject, TypeOK
<1>18. CASE Describe(p)
  <2>0. Validated(p)
    BY <1>18 DEF Describe, Trusted, Place
  <2>1. PICK e : e = [i \in DOMAIN req[p].parts |-> staged[p][req[p].parts[i].number]]
    OBVIOUS
  <2>2. \A i \in DOMAIN req[p].parts : staged[p][req[p].parts[i].number] \in Bodies
    BY <2>0, ChecksOut
  <2>3. e \in Seq(Bodies)
    <3>1. DOMAIN req[p].parts = 1 .. Len(req[p].parts) /\ Len(req[p].parts) \in Nat
      BY <1>0
    <3>2. e \in [1 .. Len(req[p].parts) -> Bodies]
      BY <2>1, <2>2, <3>1
    <3>. QED  BY <3>1, <3>2
  <2>4. PICK own \in [etag : Seq(Bodies), mtime : Nat] : own = [etag |-> e, mtime |-> stamp[p]]
    BY <2>3 DEF TypeOK
  <2>5. /\ \E r : WriteSidecar(req[p].key, own, object[req[p].key], r)
        /\ \/ Goto(p, "scan") /\ UNCHANGED res
           \/ Fail(p, "error")
        /\ UNCHANGED <<upload, object, held, clock, req, id, local, bound, ghost>>
    BY <1>18, <2>1, <2>4, Zenon DEF Describe
  <2>6. object[req[p].key] \in [bytes : Seq(Bodies), mtime : Nat] \cup {Nothing}
    BY <1>0 DEF TypeOK
  <2>7. side' \in [Keys -> [etag : Seq(Bodies), mtime : Nat] \cup {Nothing}]
    BY <1>0, <2>5, <2>6, SidecarType
  <2>. QED  BY <2>5, <2>7 DEF TypeOK, PCs, Results
<1>19. CASE Unlock(p)
  BY <1>0, <1>19 DEF Unlock, Locks!Drop, TypeOK, PCs
<1>. QED
  BY <1>1, <1>2, <1>3, <1>4, <1>5, <1>6, <1>7, <1>8, <1>9, <1>10, <1>11, <1>12,
     <1>13, <1>14, <1>15, <1>16, <1>17, <1>18, <1>19, <1>20, <1>21, <1>22 DEF Action, Step
\* The whole list is checked, or the answer is a complaint.
LEMMA ValidateCases ==
  ASSUME TInv, NEW p \in Procs, Validate(p)
  PROVE  \/ Validated(p) /\ Goto(p, "lock") /\ res' = res
         \/ \E r \in Results \ {"ok"} : Done(p, r)
<1>. DEFINE bad == {i \in DOMAIN req[p].parts : Complaint(p, i) # "ok"}
<1>1. CASE bad = {}
  BY <1>1 DEF Validate, Validated
<1>2. CASE bad # {}
  <2>1. bad \subseteq Nat
    BY ReqType DEF TInv
  <2>2. Smallest(bad) \in bad
    BY <1>2, <2>1, SmallestIn
  <2>3. Complaint(p, Smallest(bad)) \in Results \ {"ok"}
    BY <2>2, ComplaintType
  <2>4. Done(p, Complaint(p, Smallest(bad)))
    BY <1>2, Zenon DEF Validate
  <2>. QED  BY <2>3, <2>4
<1>. QED  BY <1>1, <1>2

LEMMA PlaceStep ==
  ASSUME TInv, NEW p \in Procs, Action(p)
  PROVE  Place(p)'
<1>. USE DEF Goto, Done, Fail
<1>0. /\ Place(p) /\ pc \in [Procs -> PCs] /\ req \in [Procs -> Requests]
      /\ todo \in [Procs -> SUBSET (Numbers \cup {0})]
  BY DEF TInv, TypeOK
<1>1. CASE Begin(p)
  <2>1. PICK r \in Requests :
          req' = [req EXCEPT ![p] = r] /\ pc' = [pc EXCEPT ![p] = FirstStep(r.op)]
    BY <1>1 DEF Begin
  <2>2. r.op \in {"CREATE", "UPLOAD", "COMPLETE", "ABORT", "PUT", "DELETE"}
    BY RequestsType DEF Request
  <2>. QED  BY <1>0, <2>1, <2>2 DEF Place, FirstStep
<1>2. CASE Load(p)
  BY <1>0, <1>2, LoadCases DEF Place
<1>3. CASE Validate(p)
  <2>1. PICK l \in {"lock", "done"} : pc' = [pc EXCEPT ![p] = l] /\ req' = req
    BY <1>3, ValidateCases DEF Validate
  <2>. QED  BY <1>0, <1>3, <2>1 DEF Place, Validate
<1>4. CASE \/ Lock(p) \/ Put(p) \/ LockPut(p) \/ Delete(p) \/ Respond(p) \/ MakeDir(p)
           \/ WriteManifest(p)
  BY <1>0, <1>4 DEF Place, Lock, Put, LockPut, Delete, Respond, MakeDir, WriteManifest
<1>5. CASE Stage(p) \/ RenamePart(p) \/ StatPart(p)
  BY <1>0, <1>5 DEF Place, Stage, RenamePart, StatPart
<1>6. CASE Scan(p) \/ RemoveEntry(p) \/ RemoveDir(p)
  BY <1>0, <1>6 DEF Place, Scan, RemoveEntry, RemoveDir
<1>8. CASE List(p)
  <2>1. Entries(id[p]) \ {0} \subseteq Numbers
    BY DEF Entries
  <2>. QED  BY <1>0, <1>8, <2>1 DEF Place, List
<1>9. CASE PartInfo(p) \/ DigestPart(p)
  <2>1. /\ req' = req /\ todo'[p] \subseteq todo[p] /\ req[p].op = "COMPLETE"
        /\ pc[p] \in {"info", "digest"} /\ pc'[p] \in {"info", "digest"}
        /\ pc'[p] = "digest" => todo'[p] # {}
    BY <1>0, <1>9 DEF Place, PartInfo, DigestPart
  <2>. QED  BY <1>0, <2>1 DEF Place
<1>7. CASE Copy(p) \/ Publish(p) \/ StatObject(p) \/ Describe(p) \/ Unlock(p)
  BY <1>0, <1>7 DEF Place, Copy, Publish, StatObject, Describe, Unlock
<1>. QED
  BY <1>1, <1>2, <1>3, <1>4, <1>5, <1>6, <1>7, <1>8, <1>9 DEF Action, Step

\* What was checked is not changed until the answer is out.
LEMMA TrustedStep ==
  ASSUME TInv, NEW p \in Procs, Action(p), Trusted(p)'
  PROVE  Validated(p)'
<1>. USE DEF Goto, Done, Fail
<1>0. /\ Trusted(p) => Validated(p)
      /\ pc \in [Procs -> PCs] /\ res \in [Procs -> Results] /\ Place(p)
  BY DEF TInv, TypeOK
<1>1. ASSUME Trusted(p), UNCHANGED <<req, small, staged>> PROVE Validated(p)'
  BY <1>0, <1>1 DEF Validated, Complaint
<1>2. CASE Begin(p)
  <2>1. PICK r \in Requests :
          req' = [req EXCEPT ![p] = r] /\ pc' = [pc EXCEPT ![p] = FirstStep(r.op)]
    BY <1>2 DEF Begin
  <2>. QED  BY <1>0, <2>1 DEF Trusted, FirstStep, TInv, TypeOK
<1>3. CASE Load(p)
  BY <1>0, <1>3, LoadCases DEF Trusted
<1>4. CASE Validate(p)
  <2>1. req' = req /\ small' = small /\ staged' = staged
    BY <1>4 DEF Validate, local
  <2>2. CASE Validated(p)
    BY <2>1, <2>2 DEF Validated, Complaint
  <2>3. CASE \E r \in Results \ {"ok"} : Done(p, r)
    BY <1>0, <2>3 DEF Trusted
  <2>. QED  BY <1>4, <2>2, <2>3, ValidateCases
<1>5. CASE Lock(p) \/ Copy(p) \/ Publish(p) \/ StatObject(p) \/ Describe(p) \/ Unlock(p)
  BY <1>0, <1>1, <1>5 DEF Lock, Copy, Publish, StatObject, Describe, Unlock, Trusted, local
<1>6. CASE Scan(p) \/ RemoveEntry(p) \/ RemoveDir(p)
  BY <1>0, <1>1, <1>6 DEF Scan, RemoveEntry, RemoveDir, Trusted, local
<1>7. CASE \/ Put(p) \/ LockPut(p) \/ Delete(p) \/ Respond(p) \/ MakeDir(p) \/ WriteManifest(p)
           \/ Stage(p) \/ RenamePart(p) \/ StatPart(p) \/ List(p) \/ PartInfo(p) \/ DigestPart(p)
  BY <1>0, <1>7 DEF Put, LockPut, Delete, Respond, MakeDir, WriteManifest, Stage, RenamePart,
                    StatPart, List, PartInfo, DigestPart, Trusted, Place
<1>. QED  BY <1>2, <1>3, <1>4, <1>5, <1>6, <1>7 DEF Action, Step

LEMMA FreshStep ==
  ASSUME TInv, NEW p \in Procs, Action(p)
  PROVE  Fresh(p)'
<1>. USE DEF Goto, Done, Fail, Fresh, local
<1>0. Fresh(p) /\ pc \in [Procs -> PCs] /\ copied \in [Procs -> Seq(Bodies)]
  BY DEF TInv, TypeOK
<1>1. CASE Load(p)
  BY <1>0, <1>1, LoadCases
<1>2. CASE Validate(p)
  BY <1>0, <1>2, ValidateCases DEF Validate
<1>3. CASE \/ Begin(p) \/ Respond(p) \/ MakeDir(p) \/ WriteManifest(p) \/ Put(p) \/ LockPut(p)
           \/ Delete(p)
  BY <1>0, <1>3 DEF Begin, Respond, MakeDir, WriteManifest, Put, LockPut, Delete
<1>4. CASE Stage(p) \/ RenamePart(p) \/ StatPart(p) \/ Scan(p) \/ RemoveEntry(p) \/ RemoveDir(p)
  BY <1>0, <1>4 DEF Stage, RenamePart, StatPart, Scan, RemoveEntry, RemoveDir
<1>5. CASE \/ List(p) \/ PartInfo(p) \/ DigestPart(p) \/ Lock(p)
           \/ Copy(p) \/ Publish(p) \/ StatObject(p) \/ Describe(p) \/ Unlock(p)
  BY <1>0, <1>5 DEF List, PartInfo, DigestPart, Lock, Copy, Publish, StatObject, Describe, Unlock
<1>. QED  BY <1>1, <1>2, <1>3, <1>4, <1>5 DEF Action, Step

\* A restart forgets every request.
LEMMA CrashTInv == TInv /\ Crash => TInv'
<1>. SUFFICES ASSUME TInv, Crash PROVE TInv'
  OBVIOUS
<1>1. TypeOK'
  BY NoPartsType DEF TInv, TypeOK, Crash, upload, PCs, Results, Locks!Free
<1>2. \A p \in Procs : pc'[p] = "idle"
  BY DEF Crash
<1>3. \A p \in Procs : Place(p)' /\ Fresh(p)' /\ ~Trusted(p)'
  BY <1>2 DEF Place, Fresh, Trusted, Crash
<1>. QED  BY <1>1, <1>3 DEF TInv

LEMMA TInvNext == TInv /\ [Next]_vars => TInv'
<1>. SUFFICES ASSUME TInv, [Next]_vars PROVE TInv'
  OBVIOUS
<1>1. CASE UNCHANGED vars
  <2>1. /\ UNCHANGED <<exists, manifest, part, object, side, held, clock, pc, req, id, res>>
        /\ UNCHANGED <<todo, small, staged, stamp, copied, begun, crashes, known, ended, completed,
                       wrote>>
    BY <1>1 DEF vars, upload, bucket, local, bound, ghost
  <2>2. TypeOK'
    BY <2>1 DEF TInv, TypeOK
  <2>3. \A p \in Procs : (Place(p)' <=> Place(p)) /\ (Fresh(p)' <=> Fresh(p))
    BY <2>1 DEF Place, Fresh
  <2>4. \A p \in Procs : (Trusted(p)' <=> Trusted(p)) /\ (Validated(p)' <=> Validated(p))
    BY <2>1 DEF Trusted, Validated, Complaint
  <2>. QED  BY <2>2, <2>3, <2>4 DEF TInv
<1>2. ASSUME NEW p \in Procs, Action(p) PROVE TInv'
  <2>1. Place(p)' /\ Fresh(p)' /\ (Trusted(p)' => Validated(p)')
    BY <1>2, PlaceStep, FreshStep, TrustedStep
  <2>2. ASSUME NEW q \in Procs \ {p}
        PROVE  Place(q)' /\ Fresh(q)' /\ (Trusted(q)' => Validated(q)')
    <3>1. /\ pc'[q] = pc[q] /\ req'[q] = req[q] /\ res'[q] = res[q] /\ todo'[q] = todo[q]
          /\ small'[q] = small[q] /\ staged'[q] = staged[q] /\ copied'[q] = copied[q]
      BY <1>2, Others
    <3>2. Place(q) /\ Fresh(q) /\ (Trusted(q) => Validated(q))
      BY DEF TInv
    <3>. QED  BY <3>1, <3>2 DEF Place, Fresh, Trusted, Validated, Complaint
  <2>. QED  BY <1>2, <2>1, <2>2, StepType DEF TInv
<1>. QED  BY <1>1, <1>2, CrashTInv DEF Next, Rest, Action

\* Every part, every object and every answer has its type, whatever comes
\* between the steps of an upload (multipart.go).
THEOREM MultipartTypes == Spec => []TypeOK
<1>1. Spec => []TInv
  BY TInvInit, TInvNext, PTL DEF Spec
<1>2. TInv => TypeOK
  BY DEF TInv
<1>. QED  BY <1>1, <1>2, PTL

-----------------------------------------------------------------------------
(***************************************************************************)
(* One Complete succeeds at most, and what was ended stays gone            *)
(***************************************************************************)

\* Inside the lock section of a Complete, which the deferred unlock ends, or of a
\* PutObject.
Section(p) ==
  /\ req[p].op = "COMPLETE"
  /\ pc[p] \in {"copy", "sidecar", "describe", "scan", "remove", "unlock"}

Holds(p) == Section(p) \/ pc[p] = "body"

LockInv ==
  \A p \in Procs : Holds(p) =>
    \A q \in Procs : held[req[p].key][q] = IF q = p THEN "W" ELSE "free"

\* A Complete that has loaded the upload: it was for this key.
Mine(p) == Section(p) \/ (req[p].op = "COMPLETE" /\ pc[p] \in {"list", "info", "digest", "lock"})

\* An id is known when the Create that made it has answered, and not before.
IdInv ==
  /\ \A p \in Procs : pc[p] # "idle" => (req[p].op = "CREATE" <=> id[p] \notin known)
  /\ \A p, q \in Procs :
       /\ p # q /\ pc[p] # "idle" /\ pc[q] # "idle"
       /\ req[p].op = "CREATE" /\ req[q].op = "CREATE"
       => id[p] # id[q]
  /\ \A p \in Procs : Mine(p) => manifest[id[p]] \in {Nothing, req[p].key}
  /\ \A p, q \in Procs : Mine(p) /\ Mine(q) /\ id[p] = id[q] => req[p].key = req[q].key

Gone(u) == u \in known /\ ~exists[u] /\ manifest[u] = Nothing /\ part[u] = NoParts

\* A Complete or an Abort that has removed the directory.
Ended(p) ==
  req[p].op \in {"COMPLETE", "ABORT"} /\ res[p] = "ok" /\ pc[p] \in {"unlock", "done"}

\* A Complete that has copied a part of the upload, and has not failed since.
Taken(p) ==
  /\ req[p].op = "COMPLETE"
  /\ \/ pc[p] = "copy" /\ copied[p] # << >>
     \/ pc[p] \in {"sidecar", "describe", "scan", "remove"}
     \/ Ended(p)

GoneInv ==
  /\ \A p \in Procs : Ended(p) => Gone(id[p])
  /\ \A u \in ended : Gone(u)
  /\ \A u \in Uploads : completed[u] = 0 \/ (completed[u] = 1 /\ Gone(u))
  /\ \A p \in Procs : Taken(p) => completed[id[p]] = 0
  /\ \A p, q \in Procs :
       p # q /\ Ended(p) /\ req[p].op = "COMPLETE" /\ Taken(q) => id[p] # id[q]

OInv == TInv /\ LockInv /\ IdInv

-----------------------------------------------------------------------------

\* Only Begin changes what a goroutine is about.
LEMMA SameRequest ==
  ASSUME TInv, NEW p \in Procs, Action(p)
  PROVE  Begin(p) \/ (req' = req /\ id' = id)
<1>1. CASE Load(p)
  BY <1>1 DEF Load
<1>2. CASE \/ Lock(p) \/ Put(p) \/ LockPut(p) \/ Delete(p) \/ Respond(p) \/ MakeDir(p)
           \/ WriteManifest(p)
  BY <1>2 DEF Lock, Put, LockPut, Delete, Respond, MakeDir, WriteManifest
<1>3. CASE Stage(p) \/ RenamePart(p) \/ StatPart(p) \/ Scan(p) \/ RemoveEntry(p) \/ RemoveDir(p)
  BY <1>3 DEF Stage, RenamePart, StatPart, Scan, RemoveEntry, RemoveDir
<1>4. CASE \/ List(p) \/ PartInfo(p) \/ DigestPart(p) \/ Validate(p)
           \/ Copy(p) \/ Publish(p) \/ StatObject(p) \/ Describe(p) \/ Unlock(p)
  BY <1>4 DEF List, PartInfo, DigestPart, Validate, Copy, Publish, StatObject, Describe, Unlock
<1>. QED  BY <1>1, <1>2, <1>3, <1>4 DEF Action, Step

\* What clients know changes with an answer only.
LEMMA OnlyRespond ==
  ASSUME TInv, NEW p \in Procs, Action(p)
  PROVE  Respond(p) \/ (known' = known /\ ended' = ended /\ completed' = completed)
<1>. USE DEF ghost
<1>1. CASE Begin(p) \/ Load(p)
  BY <1>1 DEF Begin, Load
<1>2. CASE Lock(p) \/ Put(p) \/ LockPut(p) \/ Delete(p) \/ MakeDir(p) \/ WriteManifest(p)
  BY <1>2 DEF Lock, Put, LockPut, Delete, MakeDir, WriteManifest
<1>3. CASE Stage(p) \/ RenamePart(p) \/ StatPart(p) \/ Scan(p) \/ RemoveEntry(p) \/ RemoveDir(p)
  BY <1>3 DEF Stage, RenamePart, StatPart, Scan, RemoveEntry, RemoveDir
<1>4. CASE \/ List(p) \/ PartInfo(p) \/ DigestPart(p) \/ Validate(p)
           \/ Copy(p) \/ Publish(p) \/ StatObject(p) \/ Describe(p) \/ Unlock(p)
  BY <1>4 DEF List, PartInfo, DigestPart, Validate, Copy, Publish, StatObject, Describe, Unlock
<1>. QED  BY <1>1, <1>2, <1>3, <1>4 DEF Action, Step

\* A goroutine is in the lock section from Lock to Unlock, or from LockPut to Put.
LEMMA SectionStep ==
  ASSUME TInv, NEW p \in Procs, Action(p)
  PROVE  \/ req' = req /\ Locks!Grant(p, req[p].key, "W")
         \/ Holds(p) /\ req' = req /\ Locks!Drop(p, req[p].key) /\ ~Holds(p)'
         \/ held' = held /\ (Holds(p)' => Holds(p))
<1>. USE DEF Goto, Done, Fail, Section, Holds, bucket
<1>0. Place(p) /\ pc \in [Procs -> PCs] /\ req \in [Procs -> Requests]
  BY DEF TInv, TypeOK
<1>1. CASE Begin(p)
  <2>1. PICK r \in Requests :
          req' = [req EXCEPT ![p] = r] /\ pc' = [pc EXCEPT ![p] = FirstStep(r.op)]
    BY <1>1 DEF Begin
  <2>. QED  BY <1>0, <1>1, <2>1 DEF Begin, FirstStep
<1>2. CASE Load(p)
  BY <1>0, <1>2, LoadCases
<1>3. CASE Unlock(p) \/ Put(p)
  BY <1>0, <1>3 DEF Unlock, Put, Place
<1>4. CASE Delete(p) \/ Respond(p) \/ MakeDir(p) \/ WriteManifest(p)
  BY <1>0, <1>4 DEF Delete, Respond, MakeDir, WriteManifest
<1>5. CASE Stage(p) \/ RenamePart(p) \/ StatPart(p) \/ Scan(p) \/ RemoveEntry(p) \/ RemoveDir(p)
  BY <1>0, <1>5 DEF Stage, RenamePart, StatPart, Scan, RemoveEntry, RemoveDir
<1>6. CASE Validate(p)
  <2>1. PICK l \in {"lock", "done"} : pc' = [pc EXCEPT ![p] = l] /\ req' = req
    BY <1>6, ValidateCases DEF Validate
  <2>. QED  BY <1>0, <1>6, <2>1 DEF Validate
<1>7. CASE List(p) \/ PartInfo(p) \/ DigestPart(p) \/ Copy(p)
  BY <1>0, <1>7 DEF List, PartInfo, DigestPart, Copy, Place
<1>8. CASE Publish(p) \/ StatObject(p) \/ Describe(p)
  BY <1>0, <1>8 DEF Publish, StatObject, Describe, Place
<1>9. CASE Lock(p) \/ LockPut(p)
  BY <1>9 DEF Lock, LockPut
<1>. QED
  BY <1>1, <1>2, <1>3, <1>4, <1>5, <1>6, <1>7, <1>8, <1>9 DEF Action, Step

LEMMA LockStep ==
  ASSUME TInv, LockInv, NEW p \in Procs, Action(p)
  PROVE  LockInv'
<1>0. \A q \in Procs : req[q].key \in Keys
  BY ReqType DEF TInv
<1>1. held \in [Keys -> [Procs -> {"free", "R", "W"}]]
  BY DEF TInv, TypeOK
<1>2. \A q \in Procs \ {p} : req'[q] = req[q] /\ (Holds(q)' <=> Holds(q))
  BY Others DEF Holds, Section
<1>3. CASE held' = held /\ (Holds(p)' => Holds(p))
  <2>1. Holds(p)' => req'[p] = req[p]
    <3>1. CASE Begin(p)
      BY <3>1 DEF Begin, Holds, Section, Goto, FirstStep, TInv, TypeOK
    <3>. QED  BY <3>1, SameRequest
  <2>. QED  BY <1>2, <1>3, <2>1 DEF LockInv
<1>4. CASE req' = req /\ Locks!Grant(p, req[p].key, "W")
  <2>1. \A r \in Procs : held'[req[p].key][r] = IF r = p THEN "W" ELSE "free"
    BY <1>0, <1>1, <1>4 DEF Locks!Grant, Locks!Compatible
  <2>2. ASSUME NEW q \in Procs \ {p}, Holds(q)'
        PROVE  \A r \in Procs : held'[req[q].key][r] = IF r = q THEN "W" ELSE "free"
    <3>1. \A r \in Procs : held[req[q].key][r] = IF r = q THEN "W" ELSE "free"
      BY <1>2, <2>2 DEF LockInv
    <3>2. req[q].key # req[p].key
      BY <1>4, <3>1 DEF Locks!Grant, Locks!Compatible
    <3>3. held'[req[q].key] = held[req[q].key]
      BY <1>0, <1>1, <1>4, <3>2 DEF Locks!Grant
    <3>. QED  BY <3>1, <3>3
  <2>. QED  BY <1>4, <2>1, <2>2 DEF LockInv
<1>5. CASE Holds(p) /\ req' = req /\ Locks!Drop(p, req[p].key) /\ ~Holds(p)'
  <2>1. held' = [held EXCEPT ![req[p].key][p] = "free"] /\ held[req[p].key][p] = "W"
    BY <1>5 DEF Locks!Drop, LockInv
  <2>2. ASSUME NEW q \in Procs \ {p}, Holds(q)'
        PROVE  \A r \in Procs : held'[req[q].key][r] = IF r = q THEN "W" ELSE "free"
    <3>1. \A r \in Procs : held[req[q].key][r] = IF r = q THEN "W" ELSE "free"
      BY <1>2, <2>2 DEF LockInv
    <3>2. req[q].key # req[p].key
      BY <2>1, <3>1
    <3>3. held'[req[q].key] = held[req[q].key]
      BY <1>0, <1>1, <2>1, <3>2
    <3>. QED  BY <3>1, <3>3
  <2>. QED  BY <1>5, <2>2 DEF LockInv
<1>. QED  BY <1>3, <1>4, <1>5, SectionStep

\* A known upload is only ever taken apart, and nothing comes into a directory
\* that is gone.
LEMMA UploadStep ==
  ASSUME TInv, IdInv, NEW p \in Procs, Action(p), NEW u \in known
  PROVE  /\ u \in known'
         /\ exists'[u] => exists[u]
         /\ manifest'[u] \in {manifest[u], Nothing}
         /\ ~exists[u] /\ part[u] = NoParts => part'[u] = NoParts
<1>. USE DEF upload
<1>0. /\ u \in Uploads /\ id[p] \in Uploads
      /\ exists \in [Uploads -> BOOLEAN] /\ manifest \in [Uploads -> Keys \cup {Nothing}]
      /\ part \in [Uploads -> [Numbers -> Bodies \cup {Nothing}]]
  BY DEF TInv, TypeOK
<1>1. u \in known'
  <2>1. CASE Respond(p)
    BY <2>1 DEF Respond
  <2>. QED  BY <2>1, OnlyRespond
<1>2. CASE UNCHANGED <<exists, manifest, part>>
  BY <1>1, <1>2
<1>3. CASE MakeDir(p) \/ WriteManifest(p)
  <2>1. id[p] # u
    BY <1>3 DEF MakeDir, WriteManifest, IdInv, TInv, Place
  <2>. QED  BY <1>0, <1>1, <1>3, <2>1 DEF MakeDir, WriteManifest
<1>4. CASE RenamePart(p)
  <2>1. \/ part' = part
        \/ exists[id[p]] /\ part' = [part EXCEPT ![id[p]][req[p].number] = staged[p][req[p].number]]
    BY <1>4 DEF RenamePart
  <2>2. ~exists[u] => part'[u] = part[u]
    BY <1>0, <2>1
  <2>. QED  BY <1>1, <1>4, <2>2 DEF RenamePart
<1>5. CASE RemoveEntry(p)
  <2>1. PICK n \in todo[p] :
          \/ manifest' = [manifest EXCEPT ![id[p]] = Nothing] /\ part' = part
          \/ part' = [part EXCEPT ![id[p]][n] = Nothing] /\ manifest' = manifest
    BY <1>5 DEF RemoveEntry
  <2>2. manifest'[u] \in {manifest[u], Nothing}
    BY <1>0, <2>1
  <2>3. part[u] = NoParts => part'[u] = NoParts
    BY <1>0, <2>1 DEF NoParts
  <2>. QED  BY <1>1, <1>5, <2>2, <2>3 DEF RemoveEntry
<1>6. CASE RemoveDir(p)
  BY <1>0, <1>1, <1>6 DEF RemoveDir
<1>7. CASE Begin(p) \/ Load(p) \/ Lock(p) \/ Put(p) \/ LockPut(p) \/ Delete(p) \/ Respond(p)
  BY <1>2, <1>7 DEF Begin, Load, Lock, Put, LockPut, Delete, Respond
<1>8. CASE \/ Stage(p) \/ StatPart(p) \/ Scan(p) \/ List(p) \/ PartInfo(p) \/ DigestPart(p)
           \/ Validate(p)
  BY <1>2, <1>8 DEF Stage, StatPart, Scan, List, PartInfo, DigestPart, Validate
<1>9. CASE Copy(p) \/ Publish(p) \/ StatObject(p) \/ Describe(p) \/ Unlock(p)
  BY <1>2, <1>9 DEF Copy, Publish, StatObject, Describe, Unlock
<1>. QED  BY <1>3, <1>4, <1>5, <1>6, <1>7, <1>8, <1>9 DEF Action, Step

\* A Complete comes to care about an upload by reading its manifest.
LEMMA MineStep ==
  ASSUME TInv, NEW p \in Procs, Action(p), Mine(p)'
  PROVE  req' = req /\ id' = id /\ (Mine(p) \/ (Loaded(p) /\ manifest' = manifest))
<1>. USE DEF Goto, Done, Fail, Mine, Section
<1>0. Place(p) /\ pc \in [Procs -> PCs] /\ req \in [Procs -> Requests]
  BY DEF TInv, TypeOK
<1>1. ~Begin(p)
  <2>. SUFFICES ASSUME Begin(p) PROVE FALSE
    OBVIOUS
  <2>1. PICK r \in Requests :
          req' = [req EXCEPT ![p] = r] /\ pc' = [pc EXCEPT ![p] = FirstStep(r.op)]
    BY DEF Begin
  <2>. QED  BY <1>0, <2>1 DEF FirstStep
<1>2. req' = req /\ id' = id
  BY <1>1, SameRequest
<1>3. CASE Load(p)
  BY <1>0, <1>2, <1>3, LoadCases DEF upload
<1>4. CASE Respond(p) \/ MakeDir(p) \/ WriteManifest(p) \/ Put(p) \/ LockPut(p) \/ Delete(p)
  BY <1>0, <1>2, <1>4 DEF Respond, MakeDir, WriteManifest, Put, LockPut, Delete
<1>5. CASE Stage(p) \/ RenamePart(p) \/ StatPart(p) \/ Scan(p) \/ RemoveEntry(p) \/ RemoveDir(p)
  BY <1>0, <1>2, <1>5 DEF Stage, RenamePart, StatPart, Scan, RemoveEntry, RemoveDir
<1>6. CASE List(p) \/ PartInfo(p) \/ DigestPart(p) \/ Validate(p) \/ Lock(p)
  BY <1>0, <1>2, <1>6 DEF List, PartInfo, DigestPart, Validate, Lock, Place
<1>7. CASE Copy(p) \/ Publish(p) \/ StatObject(p) \/ Describe(p) \/ Unlock(p)
  BY <1>0, <1>2, <1>7 DEF Copy, Publish, StatObject, Describe, Unlock, Place
<1>. QED  BY <1>1, <1>3, <1>4, <1>5, <1>6, <1>7 DEF Action, Step

\* A goroutine becomes busy with Begin only.
LEMMA BusyStep ==
  ASSUME TInv, NEW p \in Procs, Action(p), ~Begin(p)
  PROVE  pc[p] # "idle" /\ req' = req /\ id' = id
<1>1. pc[p] # "idle"
  BY DEF Action, Step, Lock, Put, LockPut, Delete, Respond, MakeDir, WriteManifest, Load, Stage,
         RenamePart, StatPart, Scan, RemoveEntry, RemoveDir, List, PartInfo, DigestPart, Validate,
         Copy, Publish, StatObject, Describe, Unlock
<1>. QED  BY <1>1, SameRequest

LEMMA IdStep ==
  ASSUME TInv, IdInv, NEW p \in Procs, Action(p)
  PROVE  IdInv'
<1>. DEFINE busy(q) == pc[q] # "idle"
            creates(q) == pc[q] # "idle" /\ req[q].op = "CREATE"
<1>0. \A q \in Procs \ {p} : pc'[q] = pc[q] /\ req'[q] = req[q] /\ id'[q] = id[q]
  BY Others
<1>1. \A q \in Procs : id[q] \in Uploads
  BY DEF TInv, TypeOK
<1>2. ASSUME Begin(p) PROVE /\ busy(p)' => (creates(p)' <=> id'[p] \notin known)
                            /\ known' = known
                            /\ \A q \in Procs \ {p} : creates(q) => id'[p] # id[q]
  <2>1. PICK r \in Requests, u \in Uploads :
          /\ IF r.op = "CREATE" THEN u \notin known /\ ~exists[u] ELSE u \in known
          /\ \A q \in Procs : pc[q] # "idle" /\ req[q].op = "CREATE" => id[q] # u
          /\ req' = [req EXCEPT ![p] = r] /\ id' = [id EXCEPT ![p] = u]
    BY <1>2 DEF Begin
  <2>2. req'[p] = r /\ id'[p] = u
    BY <2>1 DEF TInv, TypeOK
  <2>. QED  BY <1>2, <2>1, <2>2 DEF Begin, ghost
<1>3. ASSUME ~Begin(p) PROVE busy(p) /\ req' = req /\ id' = id
  BY <1>3, BusyStep
<1>4. known' = known \/ (Respond(p) /\ creates(p) /\ known' = known \cup {id[p]} /\ ~busy(p)')
  <2>1. CASE Respond(p)
    BY <2>1 DEF Respond, Goto, TInv, TypeOK
  <2>. QED  BY <2>1, OnlyRespond
<1>5. ASSUME NEW q \in Procs, busy(q)' PROVE creates(q)' <=> id'[q] \notin known'
  <2>1. CASE q = p
    <3>1. CASE Begin(p)
      BY <1>2, <1>5, <2>1, <3>1
    <3>2. CASE ~Begin(p)
      BY <1>3, <1>4, <1>5, <2>1, <3>2 DEF IdInv
    <3>. QED  BY <3>1, <3>2
  <2>2. CASE q # p
    <3>1. busy(q) /\ (creates(q) <=> id[q] \notin known)
      BY <1>0, <1>5, <2>2 DEF IdInv
    <3>2. creates(q)' <=> creates(q)
      BY <1>0, <2>2
    <3>3. creates(q) /\ creates(p) => id[q] # id[p]
      BY <2>2 DEF IdInv
    <3>. QED  BY <1>0, <1>4, <2>2, <3>1, <3>2, <3>3
  <2>. QED  BY <2>1, <2>2
<1>6. ASSUME NEW q \in Procs, NEW r \in Procs, q # r, creates(q)', creates(r)'
      PROVE  id'[q] # id'[r]
  <2>1. CASE Begin(p)
    BY <1>0, <1>2, <1>6, <2>1 DEF IdInv
  <2>2. CASE ~Begin(p)
    BY <1>0, <1>3, <1>6, <2>2 DEF IdInv
  <2>. QED  BY <2>1, <2>2
<1>7. ASSUME NEW q \in Procs, Mine(q) PROVE manifest'[id[q]] \in {Nothing, req[q].key}
  <2>1. id[q] \in known /\ manifest[id[q]] \in {Nothing, req[q].key}
    BY <1>7 DEF IdInv, Mine, Section
  <2>. QED  BY <2>1, UploadStep
<1>8. ASSUME NEW q \in Procs, Mine(q)' PROVE manifest'[id'[q]] \in {Nothing, req'[q].key}
  <2>1. CASE q = p
    BY <1>7, <1>8, <2>1, MineStep DEF Loaded
  <2>2. CASE q # p
    <3>1. Mine(q)
      BY <1>0, <1>8, <2>2 DEF Mine, Section
    <3>. QED  BY <1>0, <1>7, <2>2, <3>1
  <2>. QED  BY <2>1, <2>2
<1>9. ASSUME NEW q \in Procs \ {p}, Mine(p)', Mine(q)', id'[p] = id'[q]
      PROVE  req'[p].key = req'[q].key
  <2>1. Mine(q) /\ req'[q] = req[q] /\ id'[q] = id[q]
    BY <1>0, <1>9 DEF Mine, Section
  <2>2. req' = req /\ id' = id /\ (Mine(p) \/ (Loaded(p) /\ manifest' = manifest))
    BY <1>9, MineStep
  <2>3. CASE Mine(p)
    BY <1>9, <2>1, <2>2, <2>3 DEF IdInv
  <2>4. CASE Loaded(p)
    <3>1. manifest[id[q]] \in {Nothing, req[q].key}
      BY <2>1 DEF IdInv
    <3>2. req[p].key \in Keys
      BY ReqType DEF TInv
    <3>. QED  BY <1>9, <2>1, <2>2, <2>4, <3>1, <3>2, NothingIsNone DEF Loaded
  <2>. QED  BY <2>2, <2>3, <2>4
<1>10. ASSUME NEW q \in Procs, NEW r \in Procs, Mine(q)', Mine(r)', id'[q] = id'[r]
       PROVE  req'[q].key = req'[r].key
  <2>1. CASE q = p \/ r = p
    BY <1>9, <1>10, <2>1
  <2>2. CASE q # p /\ r # p
    <3>1. Mine(q) /\ Mine(r) /\ id[q] = id[r]
      BY <1>0, <1>10, <2>2 DEF Mine, Section
    <3>. QED  BY <1>0, <2>2, <3>1 DEF IdInv
  <2>. QED  BY <2>1, <2>2
<1>. QED  BY <1>5, <1>6, <1>8, <1>10 DEF IdInv

LEMMA GoneStep ==
  ASSUME TInv, IdInv, NEW p \in Procs, Action(p), NEW u, Gone(u)
  PROVE  Gone(u)'
<1>1. u \in known
  BY DEF Gone
<1>. QED  BY <1>1, UploadStep DEF Gone, NoParts

\* The way to a successful end is the removal of an empty directory.
LEMMA EndedStep ==
  ASSUME TInv, IdInv, NEW p \in Procs, Action(p), Ended(p)'
  PROVE  /\ req' = req /\ id' = id
         /\ Ended(p) \/ (pc[p] = "remove" /\ Gone(id[p])')
<1>. USE DEF Goto, Done, Fail, Ended
<1>0. /\ Place(p) /\ pc \in [Procs -> PCs] /\ req \in [Procs -> Requests]
      /\ res \in [Procs -> Results]
  BY DEF TInv, TypeOK
<1>1. ~Begin(p)
  <2>. SUFFICES ASSUME Begin(p) PROVE FALSE
    OBVIOUS
  <2>1. PICK r \in Requests :
          req' = [req EXCEPT ![p] = r] /\ pc' = [pc EXCEPT ![p] = FirstStep(r.op)]
    BY DEF Begin
  <2>. QED  BY <1>0, <2>1 DEF FirstStep
<1>2. req' = req /\ id' = id
  BY <1>1, SameRequest
<1>3. CASE RemoveDir(p)
  <2>1. pc[p] = "remove" /\ Entries(id[p]) = {}
    BY <1>0, <1>2, <1>3 DEF RemoveDir
  <2>2. id[p] \in Uploads /\ id[p] \in known
    BY <1>0, <2>1 DEF IdInv, TInv, TypeOK, Place
  <2>3. exists' = [exists EXCEPT ![id[p]] = FALSE] /\ UNCHANGED <<manifest, part, known>>
    BY <1>3, <2>1 DEF RemoveDir, ghost
  <2>4. manifest[id[p]] = Nothing /\ part[id[p]] = NoParts
    <3>1. manifest[id[p]] = Nothing
      BY <2>1 DEF Entries
    <3>2. \A n \in Numbers : part[id[p]][n] = Nothing
      BY <2>1 DEF Entries
    <3>3. part[id[p]] \in [Numbers -> Bodies \cup {Nothing}]
      BY <2>2 DEF TInv, TypeOK
    <3>. QED  BY <3>1, <3>2, <3>3 DEF NoParts
  <2>5. ~exists'[id[p]]
    BY <2>2, <2>3 DEF TInv, TypeOK
  <2>. QED  BY <1>2, <2>1, <2>2, <2>3, <2>4, <2>5 DEF Gone, NoParts
<1>4. CASE Load(p)
  BY <1>0, <1>2, <1>4, LoadCases
<1>5. CASE Validate(p)
  BY <1>0, <1>2, <1>5, ValidateCases DEF Validate
<1>6. CASE \/ Respond(p) \/ MakeDir(p) \/ WriteManifest(p) \/ Put(p) \/ LockPut(p)
           \/ Delete(p) \/ Lock(p)
  BY <1>0, <1>2, <1>6 DEF Respond, MakeDir, WriteManifest, Put, LockPut, Delete, Lock, Place
<1>7. CASE Stage(p) \/ RenamePart(p) \/ StatPart(p) \/ Scan(p) \/ RemoveEntry(p)
  BY <1>0, <1>2, <1>7 DEF Stage, RenamePart, StatPart, Scan, RemoveEntry, Place
<1>8. CASE List(p) \/ PartInfo(p) \/ DigestPart(p) \/ StatObject(p)
  BY <1>0, <1>2, <1>8 DEF List, PartInfo, DigestPart, StatObject
<1>9. CASE Copy(p)
  BY <1>0, <1>2, <1>9 DEF Copy
<1>10. CASE Publish(p)
  BY <1>0, <1>2, <1>10 DEF Publish, Place
<1>11. CASE Describe(p)
  BY <1>0, <1>2, <1>11 DEF Describe, Place
<1>12. CASE Unlock(p)
  BY <1>0, <1>2, <1>12 DEF Unlock
<1>. QED  BY <1>1, <1>3, <1>4, <1>5, <1>6, <1>7, <1>8, <1>9, <1>10, <1>11, <1>12 DEF Action, Step

\* The first part that is copied is there.
LEMMA TakenStep ==
  ASSUME TInv, IdInv, NEW p \in Procs, Action(p), Taken(p)'
  PROVE  req' = req /\ id' = id /\ (Taken(p) \/ part[id[p]] # NoParts)
<1>. USE DEF Goto, Done, Fail
<1>0. /\ Place(p) /\ Fresh(p) /\ pc \in [Procs -> PCs] /\ req \in [Procs -> Requests]
      /\ res \in [Procs -> Results] /\ copied \in [Procs -> Seq(Bodies)]
  BY DEF TInv, TypeOK
<1>1. CASE Ended(p)'
  BY <1>1, EndedStep DEF Taken
<1>2. CASE ~Ended(p)'
  <2>. USE <1>2 DEF Taken
  <2>1. ~Begin(p)
    <3>. SUFFICES ASSUME Begin(p) PROVE FALSE
      OBVIOUS
    <3>1. PICK r \in Requests :
            req' = [req EXCEPT ![p] = r] /\ pc' = [pc EXCEPT ![p] = FirstStep(r.op)]
      BY DEF Begin
    <3>. QED  BY <1>0, <3>1 DEF FirstStep
  <2>2. req' = req /\ id' = id
    BY <2>1, SameRequest
  <2>3. CASE Copy(p)
    <3>. DEFINE i == Len(copied[p]) + 1
    <3>0. req[p].parts \in Seq(Wanted)
      BY ReqType DEF TInv
    <3>1. i \in DOMAIN req[p].parts
      BY <1>0, <2>3, <3>0 DEF Copy
    <3>2. req[p].parts[i].number \in Numbers
      <4>1. req[p].parts[i] \in Wanted
        BY <3>0, <3>1
      <4>. QED  BY <4>1 DEF Wanted
    <3>3. part[id[p]][req[p].parts[i].number] # Nothing
      BY <1>0, <2>3, <3>1 DEF Copy
    <3>. QED  BY <2>2, <3>2, <3>3 DEF NoParts
  <2>4. CASE Lock(p)
    <3>1. copied[p] = << >>
      BY <1>0, <2>4 DEF Lock, Fresh
    <3>. QED  BY <1>0, <2>2, <2>4, <3>1 DEF Lock, local
  <2>5. CASE Publish(p)
    <3>1. req[p].parts # << >> /\ Len(copied[p]) = Len(req[p].parts)
      BY <1>0, <2>5 DEF Publish, Place
    <3>2. copied[p] # << >>
      BY <1>0, <3>1, ReqType DEF TInv
    <3>. QED  BY <1>0, <2>2, <2>5, <3>2 DEF Publish
  <2>6. CASE Load(p)
    BY <1>0, <2>2, <2>6, LoadCases
  <2>7. CASE Validate(p)
    BY <1>0, <2>2, <2>7, ValidateCases DEF Validate
  <2>8. CASE Respond(p) \/ MakeDir(p) \/ WriteManifest(p) \/ Put(p) \/ LockPut(p) \/ Delete(p)
    BY <1>0, <2>2, <2>8 DEF Respond, MakeDir, WriteManifest, Put, LockPut, Delete
  <2>9. CASE Stage(p) \/ RenamePart(p) \/ StatPart(p) \/ Scan(p) \/ RemoveEntry(p) \/ RemoveDir(p)
    BY <1>0, <2>2, <2>9 DEF Stage, RenamePart, StatPart, Scan, RemoveEntry, RemoveDir
  <2>10. CASE List(p) \/ PartInfo(p) \/ DigestPart(p) \/ StatObject(p) \/ Describe(p) \/ Unlock(p)
    BY <1>0, <2>2, <2>10 DEF List, PartInfo, DigestPart, StatObject, Describe, Unlock
  <2>. QED  BY <2>1, <2>3, <2>4, <2>5, <2>6, <2>7, <2>8, <2>9, <2>10 DEF Action, Step
<1>. QED  BY <1>1, <1>2

\* What the answer to p tells.
LEMMA TellStep ==
  ASSUME TInv, NEW p \in Procs, Action(p)
  PROVE  /\ ended' = ended \/ (Ended(p) /\ ended' = ended \cup {id[p]})
         /\ \/ completed' = completed
            \/ /\ Ended(p) /\ req[p].op = "COMPLETE" /\ pc'[p] = "idle"
               /\ completed' = [completed EXCEPT ![id[p]] = @ + 1]
<1>1. CASE Respond(p)
  BY <1>1 DEF Respond, Ended, Goto, TInv, TypeOK
<1>. QED  BY <1>1, OnlyRespond

\* Of two Completes of an upload, one holds the lock of their object.
LEMMA Alone ==
  ASSUME LockInv, IdInv, NEW p \in Procs, NEW q \in Procs \ {p},
         Section(p), Section(q)
  PROVE  id[p] # id[q]
<1>. SUFFICES ASSUME id[p] = id[q] PROVE FALSE
  OBVIOUS
<1>1. req[p].key = req[q].key
  BY DEF IdInv, Mine
<1>2. held[req[p].key][p] = "W" /\ held[req[q].key][p] = "free"
  BY DEF LockInv, Holds
<1>. QED  BY <1>1, <1>2

LEMMA GoneInvStep ==
  ASSUME OInv, GoneInv, NEW p \in Procs, Action(p)
  PROVE  GoneInv'
<1>. USE DEF OInv
<1>0. \A q \in Procs \ {p} :
        /\ req'[q] = req[q] /\ id'[q] = id[q] /\ (Ended(q)' <=> Ended(q))
        /\ (Taken(q)' <=> Taken(q))
  <2>. TAKE q \in Procs \ {p}
  <2>1. /\ pc'[q] = pc[q] /\ req'[q] = req[q] /\ id'[q] = id[q] /\ res'[q] = res[q]
        /\ copied'[q] = copied[q]
    BY Others
  <2>. QED  BY <2>1 DEF Ended, Taken
<1>1. \A q \in Procs : id[q] \in Uploads
  BY DEF TInv, TypeOK
<1>2. ASSUME NEW q \in Procs, Ended(q)' PROVE Gone(id[q])' /\ id'[q] = id[q]
  <2>1. CASE q = p
    <3>1. id' = id /\ (Ended(p) \/ Gone(id[p])')
      BY <1>2, <2>1, EndedStep
    <3>2. Ended(p) => Gone(id[p])
      BY DEF GoneInv
    <3>3. Gone(id[p])'
      BY <3>1, <3>2, GoneStep DEF Gone, NoParts
    <3>. QED  BY <2>1, <3>1, <3>3
  <2>2. CASE q # p
    <3>1. Ended(q) /\ id'[q] = id[q]
      BY <1>0, <1>2, <2>2
    <3>2. Gone(id[q])
      BY <3>1 DEF GoneInv
    <3>3. PICK u : u = id[q] /\ Gone(u)
      BY <3>2
    <3>4. Gone(u)'
      BY <3>3, GoneStep
    <3>. QED  BY <3>1, <3>3, <3>4 DEF Gone, NoParts
  <2>. QED  BY <2>1, <2>2
<1>3. \A u \in ended' : Gone(u)'
  <2>1. \A u \in ended' : Gone(u)
    BY TellStep DEF GoneInv
  <2>. QED  BY <2>1, GoneStep
<1>4. ASSUME NEW u \in Uploads PROVE (completed[u] = 0 \/ (completed[u] = 1 /\ Gone(u)))'
  <2>1. Gone(u) => Gone(u)'
    BY GoneStep
  <2>2. completed[u] = 0 \/ (completed[u] = 1 /\ Gone(u))
    BY DEF GoneInv
  <2>3. CASE completed' = completed
    BY <2>1, <2>2, <2>3
  <2>4. CASE /\ Ended(p) /\ req[p].op = "COMPLETE"
             /\ completed' = [completed EXCEPT ![id[p]] = @ + 1]
    <3>1. Gone(id[p]) /\ completed[id[p]] = 0
      BY <2>4 DEF GoneInv, Taken
    <3>2. completed'[u] = IF u = id[p] THEN 1 ELSE completed[u]
      BY <1>1, <2>4, <3>1 DEF TInv, TypeOK
    <3>. QED  BY <2>1, <2>2, <3>1, <3>2
  <2>. QED  BY <2>3, <2>4, TellStep
<1>5. ASSUME NEW q \in Procs, Taken(q)' PROVE completed'[id'[q]] = 0
  <2>1. CASE completed' = completed
    <3>1. CASE q = p
      <4>1. id' = id /\ (Taken(p) \/ part[id[p]] # NoParts)
        BY <1>5, <3>1, TakenStep
      <4>2. CASE Taken(p)
        BY <2>1, <3>1, <4>1, <4>2 DEF GoneInv
      <4>3. CASE part[id[p]] # NoParts
        BY <1>1, <2>1, <3>1, <4>1, <4>3 DEF GoneInv, Gone
      <4>. QED  BY <4>1, <4>2, <4>3
    <3>2. CASE q # p
      BY <1>0, <1>5, <2>1, <3>2 DEF GoneInv
    <3>. QED  BY <3>1, <3>2
  <2>2. CASE /\ Ended(p) /\ req[p].op = "COMPLETE" /\ pc'[p] = "idle"
             /\ completed' = [completed EXCEPT ![id[p]] = @ + 1]
    <3>1. q # p
      BY <1>5, <2>2 DEF Taken, Ended
    <3>2. Taken(q) /\ id'[q] = id[q]
      BY <1>0, <1>5, <3>1
    <3>3. completed[id[q]] = 0 /\ id[p] # id[q]
      BY <2>2, <3>1, <3>2 DEF GoneInv
    <3>. QED  BY <1>1, <2>2, <3>2, <3>3 DEF TInv, TypeOK
  <2>. QED  BY <2>1, <2>2, TellStep
<1>6. ASSUME NEW q \in Procs, NEW r \in Procs, q # r,
             Ended(q)', req'[q].op = "COMPLETE", Taken(r)'
      PROVE  id'[q] # id'[r]
  <2>1. CASE q = p
    <3>1. Taken(r) /\ id'[r] = id[r]
      BY <1>0, <1>6, <2>1
    <3>2. id' = id /\ req' = req /\ (Ended(p) \/ pc[p] = "remove")
      BY <1>6, <2>1, EndedStep
    <3>3. CASE Ended(p)
      BY <1>6, <2>1, <3>1, <3>2, <3>3 DEF GoneInv
    <3>4. CASE pc[p] = "remove" /\ Ended(r)
      <4>1. Taken(p) /\ req[r].op = "COMPLETE"
        BY <1>6, <2>1, <3>1, <3>2, <3>4 DEF Taken
      <4>. QED  BY <1>6, <2>1, <3>1, <3>2, <3>4, <4>1 DEF GoneInv
    <3>5. CASE pc[p] = "remove" /\ ~Ended(r)
      <4>1. Section(p) /\ Section(r)
        BY <1>6, <2>1, <3>1, <3>2, <3>5 DEF Section, Taken
      <4>. QED  BY <1>6, <2>1, <3>1, <3>2, <4>1, Alone
    <3>. QED  BY <3>2, <3>3, <3>4, <3>5
  <2>2. CASE r = p
    <3>1. Ended(q) /\ req[q].op = "COMPLETE" /\ id'[q] = id[q]
      BY <1>0, <1>6, <2>2
    <3>2. id' = id /\ (Taken(p) \/ part[id[p]] # NoParts)
      BY <1>6, <2>2, TakenStep
    <3>3. CASE Taken(p)
      BY <1>6, <2>2, <3>1, <3>2, <3>3 DEF GoneInv
    <3>4. CASE part[id[p]] # NoParts
      <4>1. Gone(id[q])
        BY <3>1 DEF GoneInv
      <4>. QED  BY <2>2, <3>2, <3>4, <4>1 DEF Gone
    <3>. QED  BY <3>2, <3>3, <3>4
  <2>3. CASE q # p /\ r # p
    BY <1>0, <1>6, <2>3 DEF GoneInv
  <2>. QED  BY <2>1, <2>2, <2>3
<1>7. \A q \in Procs : Ended(q)' => Gone(id[q])'
  BY <1>2
<1>. QED  BY <1>3, <1>4, <1>5, <1>6, <1>7 DEF GoneInv

LEMMA OInvInit == Init => OInv /\ GoneInv
<1>. SUFFICES ASSUME Init PROVE OInv /\ GoneInv
  OBVIOUS
<1>1. \A p \in Procs : pc[p] = "idle"
  BY DEF Init
<1>2. LockInv /\ IdInv
  BY <1>1 DEF LockInv, Holds, IdInv, Mine, Section
<1>3. GoneInv
  BY <1>1 DEF Init, GoneInv, Taken, Ended
<1>. QED  BY <1>2, <1>3, TInvInit DEF OInv

LEMMA CrashOInv == OInv /\ GoneInv /\ Crash => (LockInv /\ IdInv /\ GoneInv)'
<1>. SUFFICES ASSUME OInv, GoneInv, Crash PROVE (LockInv /\ IdInv /\ GoneInv)'
  OBVIOUS
<1>1. \A p \in Procs : pc'[p] = "idle"
  BY DEF Crash
<1>2. LockInv' /\ IdInv'
  BY <1>1 DEF LockInv, Holds, IdInv, Mine, Section
<1>3. \A u : Gone(u)' <=> Gone(u)
  BY DEF Crash, upload, Gone, NoParts
<1>4. \A p \in Procs : ~Ended(p)' /\ ~Taken(p)'
  BY <1>1 DEF Ended, Taken
<1>5. ended' = ended /\ completed' = completed
  BY DEF Crash
<1>. QED  BY <1>2, <1>3, <1>4, <1>5 DEF GoneInv

LEMMA OInvNext == OInv /\ GoneInv /\ [Next]_vars => (OInv /\ GoneInv)'
<1>. SUFFICES ASSUME OInv, GoneInv, [Next]_vars PROVE (OInv /\ GoneInv)'
  OBVIOUS
<1>0. TInv'
  BY TInvNext DEF OInv
<1>1. CASE UNCHANGED vars
  <2>1. UNCHANGED <<exists, manifest, part, held, pc, req, id, res, copied, known, ended,
                    completed>>
    BY <1>1 DEF vars, upload, bucket, local, ghost
  <2>2. (LockInv /\ IdInv)'
    BY <2>1 DEF OInv, LockInv, Holds, IdInv, Mine, Section, Locks!Free
  <2>3. GoneInv'
    BY <2>1 DEF GoneInv, Gone, NoParts, Ended, Taken
  <2>. QED  BY <1>0, <2>2, <2>3 DEF OInv
<1>2. ASSUME NEW p \in Procs, Action(p) PROVE (OInv /\ GoneInv)'
  BY <1>0, <1>2, LockStep, IdStep, GoneInvStep DEF OInv
<1>. QED  BY <1>0, <1>1, <1>2, CrashOInv DEF Next, Rest, Action, OInv

LEMMA OInvAlways == Spec => [](OInv /\ GoneInv)
BY OInvInit, OInvNext, PTL DEF Spec

\* However many clients complete an upload at once, one is told it succeeded: the
\* others find the directory gone, before the lock or under it (multipart.go).
THEOREM CompletesOnce == Spec => []CompletedOnce
<1>1. OInv /\ GoneInv => CompletedOnce
  BY DEF GoneInv, CompletedOnce
<1>. QED  BY <1>1, OInvAlways, PTL

\* An upload that was completed or aborted leaves no directory, manifest or part
\* behind, and no late UploadPart brings one back.
THEOREM EndedStaysGone == Spec => []EndedIsGone
<1>1. OInv /\ GoneInv => EndedIsGone
  BY DEF GoneInv, Gone, EndedIsGone, Entries, NoParts
<1>. QED  BY <1>1, OInvAlways, PTL

-----------------------------------------------------------------------------
(***************************************************************************)
(* What a Complete makes, where no client uploads parts of an upload it is *)
(* completing: the object that was asked for or none, and a sidecar that   *)
(* describes it.                                                           *)
(***************************************************************************)

\* A Complete that has replaced the object, and has not failed since.
Written(p) ==
  /\ req[p].op = "COMPLETE"
  /\ pc[p] \in {"sidecar", "describe", "scan", "remove"} \/ Ended(p)

OrderInv ==
  \A p, q \in Procs :
    /\ pc[p] # "idle" /\ pc[q] # "idle"
    /\ req[p].op = "UPLOAD" /\ req[q].op = "COMPLETE"
    => id[p] # id[q]

\* The parts that were listed are there as they were, or they are gone.
StagedInv ==
  \A p \in Procs :
    /\ pc[p] \in {"idle", "load", "list"} => staged[p] = NoParts
    /\ req[p].op = "COMPLETE" /\ pc[p] \in {"info", "digest", "lock", "copy"} =>
         \A n \in Numbers : staged[p][n] # Nothing =>
           part[id[p]][n] \in {staged[p][n], Nothing}

\* What was copied is the beginning of what was asked for.
Listed(p) ==
  /\ Len(copied[p]) <= Len(req[p].parts)
  /\ \A i \in 1 .. Len(copied[p]) : copied[p][i] = req[p].parts[i].etag
  /\ Written(p) => Len(copied[p]) = Len(req[p].parts)

\* One that has failed after the rename, or before it.
Failed(p) == req[p].op = "COMPLETE" /\ res[p] = "error" /\ pc[p] \in {"unlock", "done"}

\* The object is replaced when everything is copied, and not before.
Replaced(p) ==
  /\ Written(p) => wrote[p]
  /\ wrote[p] => /\ Written(p) \/ Failed(p)
                 /\ Len(copied[p]) = Len(req[p].parts)

CopiedInv == \A p \in Procs : Listed(p) /\ Replaced(p)

\* From the rename to the sidecar the object is what was copied, since the lock
\* keeps the other writers out.
ObjectInv ==
  \A p \in Procs :
    req[p].op = "COMPLETE" /\ pc[p] \in {"sidecar", "describe"} =>
      /\ object[req[p].key] # Nothing /\ object[req[p].key].bytes = copied[p]
      /\ pc[p] = "describe" => stamp[p] = object[req[p].key].mtime

\* The size of a part and its digest are of the same part.
Measured(p) ==
  \A n \in Numbers : staged[p][n] # Nothing => (n \in small[p] <=> staged[p][n] \in Small)

SizeInv ==
  \A p \in Procs : req[p].op = "COMPLETE" =>
    /\ Measured(p)
    /\ LET n == Smallest(todo[p]) IN
         pc[p] = "digest" /\ part[id[p]][n] # Nothing =>
           (n \in small[p] <=> part[id[p]][n] \in Small)

ClockInv ==
  \A k \in Keys : /\ object[k] # Nothing => object[k].mtime <= clock
                  /\ side[k] # Nothing => side[k].mtime <= clock

AsmInv == OrderInv /\ StagedInv /\ SizeInv /\ CopiedInv /\ ObjectInv

-----------------------------------------------------------------------------
(***************************************************************************)
(* The upload's directory                                                  *)
(***************************************************************************)

LEMMA OrderStep ==
  ASSUME ~LateParts, TInv, OrderInv, NEW p \in Procs, Action(p)
  PROVE  OrderInv'
<1>0. \A q \in Procs \ {p} : pc'[q] = pc[q] /\ req'[q] = req[q] /\ id'[q] = id[q]
  BY Others
<1>1. CASE Begin(p)
  <2>1. PICK r \in Requests, u \in Uploads :
          /\ Orderly(r.op, u) /\ pc[p] = "idle"
          /\ req' = [req EXCEPT ![p] = r] /\ id' = [id EXCEPT ![p] = u]
    BY <1>1 DEF Begin
  <2>2. req'[p] = r /\ id'[p] = u
    BY <2>1 DEF TInv, TypeOK
  <2>3. ASSUME NEW q \in Procs \ {p}, pc[q] # "idle", id[q] = u
        PROVE  /\ ~(r.op = "UPLOAD" /\ req[q].op = "COMPLETE")
               /\ ~(r.op = "COMPLETE" /\ req[q].op = "UPLOAD")
    <3>1. {r.op, req[q].op} # {"UPLOAD", "COMPLETE"}
      BY <2>1, <2>3 DEF Orderly
    <3>. QED  BY <3>1
  <2>. QED  BY <1>0, <2>2, <2>3 DEF OrderInv
<1>2. CASE ~Begin(p)
  BY <1>0, <1>2, BusyStep DEF OrderInv
<1>. QED  BY <1>1, <1>2

\* While an upload is being completed its parts can only go.
LEMMA PartsGo ==
  ASSUME TInv, IdInv, OrderInv, NEW p \in Procs, Action(p),
         NEW q \in Procs, pc[q] # "idle", req[q].op = "COMPLETE"
  PROVE  /\ \A n \in Numbers : part'[id[q]][n] \in {part[id[q]][n], Nothing}
         /\ manifest'[id[q]] \in {manifest[id[q]], Nothing}
<1>0. /\ \A r \in Procs : id[r] \in Uploads /\ req[r].number \in Numbers
      /\ part \in [Uploads -> [Numbers -> Bodies \cup {Nothing}]]
  BY ReqType DEF TInv, TypeOK
<1>1. id[q] \in known
  BY DEF IdInv
<1>2. manifest'[id[q]] \in {manifest[id[q]], Nothing}
  BY <1>1, UploadStep
<1>3. CASE RenamePart(p)
  <2>1. pc[p] # "idle" /\ req[p].op = "UPLOAD"
    BY <1>3 DEF RenamePart, TInv, Place
  <2>2. id[p] # id[q]
    BY <2>1 DEF OrderInv
  <2>3. \/ part' = part
        \/ part' = [part EXCEPT ![id[p]][req[p].number] = staged[p][req[p].number]]
    BY <1>3 DEF RenamePart
  <2>4. part'[id[q]] = part[id[q]]
    BY <1>0, <2>2, <2>3
  <2>. QED  BY <1>2, <2>4
<1>4. CASE RemoveEntry(p)
  <2>1. PICK m \in todo[p] : part' = part \/ part' = [part EXCEPT ![id[p]][m] = Nothing]
    BY <1>4 DEF RemoveEntry
  <2>. QED  BY <1>0, <1>2, <2>1
<1>. USE DEF upload
<1>5. CASE Begin(p) \/ Load(p) \/ Lock(p) \/ Put(p) \/ LockPut(p) \/ Delete(p) \/ Respond(p)
  BY <1>2, <1>5 DEF Begin, Load, Lock, Put, LockPut, Delete, Respond
<1>6. CASE MakeDir(p) \/ WriteManifest(p) \/ Stage(p) \/ StatPart(p) \/ Scan(p) \/ RemoveDir(p)
  BY <1>2, <1>6 DEF MakeDir, WriteManifest, Stage, StatPart, Scan, RemoveDir
<1>7. CASE \/ List(p) \/ PartInfo(p) \/ DigestPart(p) \/ Validate(p)
           \/ Copy(p) \/ Publish(p) \/ StatObject(p) \/ Describe(p) \/ Unlock(p)
  BY <1>2, <1>7 DEF List, PartInfo, DigestPart, Validate, Copy, Publish, StatObject, Describe,
      Unlock
<1>. QED  BY <1>3, <1>4, <1>5, <1>6, <1>7 DEF Action, Step

\* Which steps stage parts, and from where a goroutine comes to a place.
LEMMA StagedCases ==
  ASSUME TInv, NEW p \in Procs, Action(p)
  PROVE  /\ pc'[p] \in {"idle", "load", "list"} =>
              \/ staged' = staged /\ pc[p] \in {"idle", "load", "list"}
              \/ staged'[p] = NoParts
         /\ req'[p].op = "COMPLETE" /\ pc'[p] \in {"info", "digest", "lock", "copy"} =>
              /\ req' = req /\ id' = id
              /\ pc[p] \in {"list", "info", "digest", "lock", "copy"}
              /\ staged' = staged \/ DigestPart(p)
<1>. USE DEF Goto, Done, Fail, local
<1>0. /\ Place(p) /\ pc \in [Procs -> PCs] /\ req \in [Procs -> Requests]
      /\ staged \in [Procs -> [Numbers -> Bodies \cup {Nothing}]]
  BY DEF TInv, TypeOK
<1>1. CASE Begin(p)
  <2>1. PICK r \in Requests :
          req' = [req EXCEPT ![p] = r] /\ pc' = [pc EXCEPT ![p] = FirstStep(r.op)]
    BY <1>1 DEF Begin
  <2>2. pc'[p] \notin {"info", "digest", "lock", "copy"}
    BY <1>0, <2>1 DEF FirstStep
  <2>3. pc[p] = "idle" /\ staged' = staged
    BY <1>1 DEF Begin
  <2>. QED  BY <2>2, <2>3
<1>2. CASE Load(p)
  BY <1>0, <1>2, LoadCases
<1>3. CASE Respond(p)
  BY <1>0, <1>3 DEF Respond
<1>4. CASE Validate(p)
  <2>1. PICK l \in {"lock", "done"} : pc' = [pc EXCEPT ![p] = l]
    BY <1>4, ValidateCases
  <2>. QED  BY <1>0, <1>4, <2>1 DEF Validate
<1>5. CASE \/ MakeDir(p) \/ WriteManifest(p) \/ Put(p) \/ LockPut(p) \/ Delete(p) \/ Lock(p)
           \/ Stage(p)
  BY <1>0, <1>5 DEF MakeDir, WriteManifest, Put, LockPut, Delete, Lock, Stage
<1>6. CASE RenamePart(p) \/ StatPart(p) \/ Scan(p) \/ RemoveEntry(p) \/ RemoveDir(p)
  BY <1>0, <1>6 DEF RenamePart, StatPart, Scan, RemoveEntry, RemoveDir
<1>7. CASE List(p) \/ PartInfo(p) \/ DigestPart(p)
  BY <1>0, <1>7 DEF List, PartInfo, DigestPart
<1>8. CASE Copy(p) \/ Publish(p) \/ StatObject(p) \/ Describe(p) \/ Unlock(p)
  BY <1>0, <1>8 DEF Copy, Publish, StatObject, Describe, Unlock
<1>. QED  BY <1>1, <1>2, <1>3, <1>4, <1>5, <1>6, <1>7, <1>8 DEF Action, Step

LEMMA StagedStep ==
  ASSUME TInv, IdInv, OrderInv, StagedInv, NEW p \in Procs, Action(p)
  PROVE  StagedInv'
<1>0. /\ staged \in [Procs -> [Numbers -> Bodies \cup {Nothing}]]
      /\ \A r \in Procs : id[r] \in Uploads
  BY DEF TInv, TypeOK
<1>1. ASSUME NEW q \in Procs, staged'[q] = staged[q], req[q].op = "COMPLETE",
             pc[q] \in {"info", "digest", "lock", "copy"}, NEW n \in Numbers, staged[q][n] # Nothing
      PROVE  part'[id[q]][n] \in {staged[q][n], Nothing}
  <2>1. part'[id[q]][n] \in {part[id[q]][n], Nothing}
    BY <1>1, PartsGo
  <2>. QED  BY <1>1, <2>1 DEF StagedInv
<1>2. ASSUME NEW q \in Procs \ {p}
      PROVE  /\ pc'[q] \in {"idle", "load", "list"} => staged'[q] = NoParts
             /\ req'[q].op = "COMPLETE" /\ pc'[q] \in {"info", "digest", "lock", "copy"} =>
                  \A n \in Numbers : staged'[q][n] # Nothing =>
                    part'[id'[q]][n] \in {staged'[q][n], Nothing}
  <2>1. /\ pc'[q] = pc[q] /\ req'[q] = req[q] /\ id'[q] = id[q]
        /\ staged'[q] = staged[q]
    BY Others
  <2>2. pc[q] \in {"idle", "load", "list"} => staged[q] = NoParts
    BY DEF StagedInv
  <2>. QED  BY <1>1, <2>1, <2>2
<1>3. pc'[p] \in {"idle", "load", "list"} => staged'[p] = NoParts
  BY StagedCases DEF StagedInv
<1>4. ASSUME req'[p].op = "COMPLETE", pc'[p] \in {"info", "digest", "lock", "copy"},
             NEW n \in Numbers, staged'[p][n] # Nothing
      PROVE  part'[id'[p]][n] \in {staged'[p][n], Nothing}
  <2>1. /\ req' = req /\ id' = id /\ pc[p] \in {"list", "info", "digest", "lock", "copy"}
        /\ staged' = staged \/ DigestPart(p)
    BY <1>4, StagedCases
  <2>2. CASE staged' = staged /\ pc[p] = "list"
    BY <1>4, <2>2 DEF StagedInv, NoParts
  <2>3. CASE staged' = staged /\ pc[p] # "list"
    BY <1>1, <1>4, <2>1, <2>3
  <2>4. CASE DigestPart(p)
    <3>1. PICK m : staged' = [staged EXCEPT ![p][m] = part[id[p]][m]]
      BY <2>4 DEF DigestPart
    <3>2. part' = part /\ pc[p] = "digest"
      BY <2>4 DEF DigestPart, upload
    <3>3. staged[p] \in [Numbers -> Bodies \cup {Nothing}]
      BY <1>0
    <3>4. staged'[p] = [staged[p] EXCEPT ![m] = part[id[p]][m]]
      BY <1>0, <3>1
    <3>5. staged'[p][n] = IF n = m THEN part[id[p]][n] ELSE staged[p][n]
      BY <3>3, <3>4
    <3>6. staged[p][n] # Nothing => part[id[p]][n] \in {staged[p][n], Nothing}
      BY <1>4, <2>1, <3>2 DEF StagedInv
    <3>. QED  BY <1>4, <2>1, <3>2, <3>5, <3>6
  <2>. QED  BY <2>1, <2>2, <2>3, <2>4
<1>. QED  BY <1>2, <1>3, <1>4 DEF StagedInv

\* The rest of what a goroutine can do to what it has listed.
LEMMA SizeCases ==
  ASSUME TInv, NEW p \in Procs, Action(p), ~Begin(p), ~PartInfo(p), ~DigestPart(p),
         req[p].op = "COMPLETE"
  PROVE  /\ pc'[p] # "digest"
         /\ staged'[p] = NoParts \/ (staged' = staged /\ small' = small)
<1>. USE DEF Goto, Done, Fail, local
<1>0. /\ Place(p) /\ pc \in [Procs -> PCs]
      /\ staged \in [Procs -> [Numbers -> Bodies \cup {Nothing}]]
  BY DEF TInv, TypeOK
<1>1. CASE Load(p)
  BY <1>0, <1>1, LoadCases
<1>2. CASE Respond(p)
  BY <1>0, <1>2 DEF Respond
<1>3. CASE Validate(p)
  BY <1>0, <1>3, ValidateCases DEF Validate
<1>4. CASE MakeDir(p) \/ WriteManifest(p) \/ Put(p) \/ LockPut(p) \/ Delete(p) \/ Lock(p)
  BY <1>0, <1>4 DEF MakeDir, WriteManifest, Put, LockPut, Delete, Lock
<1>5. CASE Stage(p) \/ RenamePart(p) \/ StatPart(p) \/ Scan(p) \/ RemoveEntry(p) \/ RemoveDir(p)
  BY <1>0, <1>5 DEF Stage, RenamePart, StatPart, Scan, RemoveEntry, RemoveDir, Place
<1>6. CASE \/ List(p) \/ Copy(p) \/ Publish(p) \/ StatObject(p) \/ Describe(p) \/ Unlock(p)
  BY <1>0, <1>6 DEF List, Copy, Publish, StatObject, Describe, Unlock
<1>. QED  BY <1>1, <1>2, <1>3, <1>4, <1>5, <1>6 DEF Action, Step

LEMMA SizeStep ==
  ASSUME TInv, IdInv, OrderInv, StagedInv, SizeInv, NEW p \in Procs, Action(p)
  PROVE  SizeInv'
<1>. DEFINE agrees(q, n) == part[id[q]][n] # Nothing =>
                              (n \in small[q] <=> part[id[q]][n] \in Small)
            next(q) == Smallest(todo[q])
<1>0. /\ staged \in [Procs -> [Numbers -> Bodies \cup {Nothing}]]
      /\ small \in [Procs -> SUBSET Numbers] /\ pc \in [Procs -> PCs]
      /\ \A q \in Procs : Place(q)
  BY DEF TInv, TypeOK
<1>1. ASSUME NEW q \in Procs, pc[q] = "digest" PROVE next(q) \in Numbers
  BY <1>0, <1>1, SmallestIn, NumbersAreNat DEF Place
<1>2. ASSUME NEW q \in Procs, req[q].op = "COMPLETE"
      PROVE  Measured(q) /\ (pc[q] = "digest" => agrees(q, next(q)))
  BY <1>2 DEF SizeInv
<1>3. ASSUME NEW q \in Procs \ {p}, req'[q].op = "COMPLETE"
      PROVE  Measured(q)' /\ (pc'[q] = "digest" => agrees(q, next(q))')
  <2>1. /\ pc'[q] = pc[q] /\ req'[q] = req[q] /\ id'[q] = id[q] /\ todo'[q] = todo[q]
        /\ small'[q] = small[q] /\ staged'[q] = staged[q]
    BY Others
  <2>2. Measured(q)'
    BY <1>2, <1>3, <2>1 DEF Measured
  <2>3. ASSUME pc'[q] = "digest" PROVE agrees(q, next(q))'
    <3>1. PICK n \in Numbers : n = next(q)
      BY <1>1, <2>1, <2>3
    <3>2. next(q)' = n
      BY <2>1, <3>1 DEF Smallest
    <3>3. part'[id[q]][n] \in {part[id[q]][n], Nothing}
      BY <1>3, <2>1, <2>3, PartsGo
    <3>. QED  BY <1>2, <1>3, <2>1, <2>3, <3>1, <3>2, <3>3
  <2>. QED  BY <2>2, <2>3
<1>4. ASSUME req'[p].op = "COMPLETE"
      PROVE  Measured(p)' /\ (pc'[p] = "digest" => agrees(p, next(p))')
  <2>1. CASE Begin(p)
    <3>1. pc[p] = "idle" /\ staged' = staged /\ pc'[p] # "digest"
      BY <1>0, <2>1 DEF Begin, local, Goto, FirstStep
    <3>2. staged[p] = NoParts
      BY <3>1 DEF StagedInv
    <3>. QED  BY <3>1, <3>2 DEF Measured, NoParts
  <2>2. CASE PartInfo(p)
    <3>0. /\ pc[p] = "info" /\ req[p].op = "COMPLETE" /\ todo[p] # {}
          /\ UNCHANGED <<part, req, id, staged>>
      BY <1>0, <2>2 DEF PartInfo, Place, upload
    <3>1. PICK n \in Numbers : n = next(p)
      BY <1>0, <3>0, SmallestIn, NumbersAreNat DEF Place
    <3>2. PICK b : b = part[id[p]][n]
      OBVIOUS
    <3>3. CASE b = Nothing
      <4>1. small' = small /\ pc' = pc
        BY <2>2, <3>1, <3>2, <3>3 DEF PartInfo
      <4>. QED  BY <1>2, <3>0, <4>1 DEF Measured
    <3>4. CASE b # Nothing
      <4>1. /\ small' = [small EXCEPT ![p] = IF b \in Small THEN @ \cup {n} ELSE @ \ {n}]
            /\ todo' = todo
        BY <2>2, <3>1, <3>2, <3>4 DEF PartInfo
      <4>2. /\ n \in small'[p] <=> b \in Small
            /\ \A m \in Numbers \ {n} : m \in small'[p] <=> m \in small[p]
        BY <1>0, <4>1
      <4>3. staged[p][n] # Nothing => staged[p][n] = b
        BY <3>0, <3>2, <3>4 DEF StagedInv
      <4>4. Measured(p)'
        BY <1>2, <3>0, <4>2, <4>3 DEF Measured
      <4>5. next(p)' = n
        BY <3>1, <4>1 DEF Smallest
      <4>. QED  BY <3>0, <3>2, <4>2, <4>4, <4>5
    <3>. QED  BY <3>3, <3>4
  <2>3. CASE DigestPart(p)
    <3>0. /\ pc[p] = "digest" /\ req[p].op = "COMPLETE" /\ pc'[p] = "info" /\ small' = small
      BY <1>0, <2>3 DEF DigestPart, Place, Goto
    <3>1. PICK n \in Numbers : n = next(p)
      BY <1>1, <3>0
    <3>2. staged'[p] = [staged[p] EXCEPT ![n] = part[id[p]][n]]
      BY <1>0, <2>3, <3>1 DEF DigestPart
    <3>3. agrees(p, n) /\ Measured(p)
      BY <1>2, <3>0, <3>1
    <3>4. staged[p] \in [Numbers -> Bodies \cup {Nothing}]
      BY <1>0
    <3>. QED  BY <3>0, <3>2, <3>3, <3>4 DEF Measured
  <2>4. CASE ~Begin(p) /\ ~PartInfo(p) /\ ~DigestPart(p)
    <3>1. req' = req
      BY <2>4, SameRequest
    <3>2. /\ pc'[p] # "digest"
          /\ staged'[p] = NoParts \/ (staged' = staged /\ small' = small)
      BY <1>4, <2>4, <3>1, SizeCases
    <3>. QED  BY <1>2, <1>4, <3>1, <3>2 DEF Measured, NoParts
  <2>. QED  BY <2>1, <2>2, <2>3, <2>4
<1>. QED  BY <1>3, <1>4 DEF SizeInv

-----------------------------------------------------------------------------
(***************************************************************************)
(* What is copied                                                          *)
(***************************************************************************)

\* A part that can be opened is the one that was listed.
LEMMA CopyCases ==
  ASSUME TInv, StagedInv, NEW p \in Procs, Copy(p)
  PROVE  /\ pc[p] = "copy" /\ req[p].op = "COMPLETE"
         /\ \/ copied' = copied /\ Fail(p, "error")
            \/ /\ UNCHANGED <<pc, res>> /\ Len(copied[p]) < Len(req[p].parts)
               /\ copied' = [copied EXCEPT ![p] =
                               Append(copied[p], req[p].parts[Len(copied[p]) + 1].etag)]
<1>. DEFINE i == Len(copied[p]) + 1
            n == req[p].parts[i].number
<1>1. pc[p] = "copy" /\ req[p].op = "COMPLETE" /\ Len(copied[p]) < Len(req[p].parts)
  BY DEF Copy, TInv, Place
<1>2. req[p].parts \in Seq(Wanted) /\ Len(copied[p]) \in Nat
  BY ReqType DEF TInv, TypeOK
<1>3. i \in DOMAIN req[p].parts
  BY <1>1, <1>2
<1>4. Validated(p)
  BY <1>1 DEF TInv, Trusted
<1>5. n \in Numbers /\ req[p].parts[i].etag \in Bodies /\ staged[p][n] = req[p].parts[i].etag
  BY <1>3, <1>4, ChecksOut DEF TInv
<1>6. part[id[p]][n] \in {req[p].parts[i].etag, Nothing}
  BY <1>1, <1>5, NothingIsNone DEF StagedInv
<1>7. CASE part[id[p]][n] = Nothing
  BY <1>1, <1>7 DEF Copy
<1>8. CASE part[id[p]][n] # Nothing
  <2>1. part[id[p]][n] = req[p].parts[i].etag
    BY <1>6, <1>8
  <2>2. UNCHANGED <<pc, res>> /\ copied' = [copied EXCEPT ![p] = Append(@, part[id[p]][n])]
    BY <1>8 DEF Copy
  <2>. QED  BY <1>1, <2>1, <2>2
<1>. QED  BY <1>7, <1>8

\* The rest of what a goroutine can do to its copy.
LEMMA CopiedCases ==
  ASSUME TInv, CopiedInv, NEW p \in Procs, Action(p), ~Copy(p), ~Publish(p)
  PROVE  \/ copied'[p] = << >> /\ ~Written(p)' /\ ~wrote'[p]
         \/ /\ copied' = copied /\ req' = req /\ wrote' = wrote
            /\ Written(p)' => Written(p)
            /\ Written(p) \/ Failed(p) => Written(p)' \/ Failed(p)'
<1>. USE DEF Goto, Done, Fail, Ended, Written, Failed, local, ghost
<1>0. /\ Place(p) /\ Fresh(p) /\ pc \in [Procs -> PCs] /\ req \in [Procs -> Requests]
      /\ res \in [Procs -> Results] /\ copied \in [Procs -> Seq(Bodies)]
      /\ wrote \in [Procs -> BOOLEAN]
  BY DEF TInv, TypeOK
<1>1. CASE Begin(p)
  <2>1. PICK r \in Requests :
          req' = [req EXCEPT ![p] = r] /\ pc' = [pc EXCEPT ![p] = FirstStep(r.op)]
    BY <1>1 DEF Begin
  <2>2. pc[p] = "idle" /\ copied' = copied /\ wrote' = wrote /\ copied[p] = << >>
    BY <1>0, <1>1 DEF Begin, Fresh
  <2>3. ~wrote[p]
    BY <2>2 DEF CopiedInv, Replaced
  <2>4. ~Written(p)'
    BY <1>0, <2>1, <2>2 DEF FirstStep
  <2>. QED  BY <2>2, <2>3, <2>4
<1>2. CASE Respond(p)
  BY <1>0, <1>2 DEF Respond
<1>3. CASE Load(p)
  BY <1>0, <1>3, LoadCases
<1>4. CASE Validate(p)
  BY <1>0, <1>4, ValidateCases DEF Validate
<1>5. CASE RemoveDir(p)
  BY <1>0, <1>5 DEF RemoveDir, Place
<1>6. CASE MakeDir(p) \/ WriteManifest(p) \/ Put(p) \/ LockPut(p) \/ Delete(p) \/ Lock(p)
  BY <1>0, <1>6 DEF MakeDir, WriteManifest, Put, LockPut, Delete, Lock, Place
<1>7. CASE Stage(p) \/ RenamePart(p) \/ StatPart(p) \/ Scan(p) \/ RemoveEntry(p)
  BY <1>0, <1>7 DEF Stage, RenamePart, StatPart, Scan, RemoveEntry, Place
<1>8. CASE List(p) \/ PartInfo(p) \/ DigestPart(p)
  BY <1>0, <1>8 DEF List, PartInfo, DigestPart, Place
<1>9. CASE Unlock(p) \/ StatObject(p)
  BY <1>0, <1>9 DEF Unlock, StatObject, Place
<1>10. CASE Describe(p)
  BY <1>0, <1>10 DEF Describe, Place
<1>. QED  BY <1>1, <1>2, <1>3, <1>4, <1>5, <1>6, <1>7, <1>8, <1>9, <1>10 DEF Action, Step

LEMMA CopiedStep ==
  ASSUME TInv, StagedInv, CopiedInv, NEW p \in Procs, Action(p)
  PROVE  CopiedInv'
<1>0. /\ \A q \in Procs : copied[q] \in Seq(Bodies) /\ req[q].parts \in Seq(Wanted)
      /\ copied \in [Procs -> Seq(Bodies)] /\ pc \in [Procs -> PCs] /\ res \in [Procs -> Results]
      /\ wrote \in [Procs -> BOOLEAN]
  BY ReqType DEF TInv, TypeOK
<1>1. \A q \in Procs : Listed(q) /\ Replaced(q)
  BY DEF CopiedInv
<1>2. ASSUME NEW q \in Procs \ {p} PROVE Listed(q)' /\ Replaced(q)'
  <2>1. /\ pc'[q] = pc[q] /\ req'[q] = req[q] /\ res'[q] = res[q]
        /\ copied'[q] = copied[q] /\ wrote'[q] = wrote[q]
    BY Others
  <2>2. (Written(q)' <=> Written(q)) /\ (Failed(q)' <=> Failed(q))
    BY <2>1 DEF Written, Ended, Failed
  <2>. QED  BY <1>1, <2>1, <2>2 DEF Listed, Replaced
<1>3. CASE Copy(p)
  <2>0. /\ req' = req /\ wrote' = wrote /\ pc[p] = "copy" /\ req[p].op = "COMPLETE"
        /\ ~wrote[p]
    <3>1. /\ req' = req /\ wrote' = wrote /\ pc[p] = "copy" /\ req[p].op = "COMPLETE"
      BY <1>3, CopyCases DEF Copy, ghost
    <3>2. ~Written(p) /\ ~Failed(p)
      BY <3>1 DEF Written, Ended, Failed
    <3>. QED  BY <1>1, <3>1, <3>2 DEF Replaced
  <2>1. ASSUME copied' = copied, Fail(p, "error")
        PROVE  Listed(p)' /\ Replaced(p)'
    <3>1. ~Written(p)'
      BY <1>0, <2>0, <2>1 DEF Written, Ended, Fail, Goto
    <3>. QED  BY <1>1, <2>0, <2>1, <3>1 DEF Listed, Replaced
  <2>2. ASSUME UNCHANGED <<pc, res>>, Len(copied[p]) < Len(req[p].parts),
               copied' = [copied EXCEPT ![p] =
                            Append(copied[p], req[p].parts[Len(copied[p]) + 1].etag)]
        PROVE  Listed(p)' /\ Replaced(p)'
    <3>1. ~Written(p)'
      BY <2>0, <2>2 DEF Written, Ended
    <3>2. copied'[p] = Append(copied[p], req[p].parts[Len(copied[p]) + 1].etag)
      BY <1>0, <2>2
    <3>3. req[p].parts[Len(copied[p]) + 1].etag \in Bodies
      <4>1. req[p].parts[Len(copied[p]) + 1] \in Wanted
        BY <1>0, <2>2
      <4>. QED  BY <4>1 DEF Wanted
    <3>4. /\ Len(copied'[p]) = Len(copied[p]) + 1
          /\ \A i \in 1 .. Len(copied[p]) : copied'[p][i] = copied[p][i]
          /\ copied'[p][Len(copied[p]) + 1] = req[p].parts[Len(copied[p]) + 1].etag
      BY <1>0, <3>2, <3>3
    <3>5. Len(copied[p]) \in Nat /\ Len(req[p].parts) \in Nat
      BY <1>0
    <3>6. \A i \in 1 .. Len(copied[p]) + 1 : i \in 1 .. Len(copied[p]) \/ i = Len(copied[p]) + 1
      BY <3>5
    <3>7. Len(copied[p]) + 1 <= Len(req[p].parts)
      BY <2>2, <3>5
    <3>8. Listed(p)'
      BY <1>1, <2>0, <3>1, <3>4, <3>6, <3>7 DEF Listed
    <3>. QED  BY <2>0, <3>1, <3>8 DEF Replaced
  <2>3. Listed(p)' /\ Replaced(p)'
    BY <1>3, <2>1, <2>2, CopyCases
  <2>. QED  BY <1>2, <2>3 DEF CopiedInv
<1>4. CASE Publish(p)
  <2>1. /\ copied' = copied /\ req' = req /\ Len(copied[p]) = Len(req[p].parts)
        /\ wrote'[p] = TRUE /\ pc'[p] = "sidecar" /\ req[p].op = "COMPLETE"
    BY <1>0, <1>4 DEF Publish, Goto, local, TInv, Place
  <2>2. Written(p)'
    BY <2>1 DEF Written
  <2>3. Listed(p)' /\ Replaced(p)'
    BY <1>1, <2>1, <2>2 DEF Listed, Replaced
  <2>. QED  BY <1>2, <2>3 DEF CopiedInv
<1>5. CASE ~Copy(p) /\ ~Publish(p)
  <2>1. ASSUME copied'[p] = << >>, ~Written(p)', ~wrote'[p] PROVE Listed(p)' /\ Replaced(p)'
    <3>1. req'[p].parts \in Seq(Wanted)
      BY StepType, RequestsType DEF TypeOK, Request
    <3>. QED  BY <2>1, <3>1 DEF Listed, Replaced
  <2>2. ASSUME copied' = copied, req' = req, wrote' = wrote, Written(p)' => Written(p),
               Written(p) \/ Failed(p) => Written(p)' \/ Failed(p)'
        PROVE  Listed(p)' /\ Replaced(p)'
    BY <1>1, <2>2 DEF Listed, Replaced
  <2>3. Listed(p)' /\ Replaced(p)'
    BY <1>5, <2>1, <2>2, CopiedCases
  <2>. QED  BY <1>2, <2>3 DEF CopiedInv
<1>. QED  BY <1>3, <1>4, <1>5

-----------------------------------------------------------------------------
(***************************************************************************)
(* The object and its sidecar                                              *)
(***************************************************************************)

\* From where a goroutine comes to the sidecar.
LEMMA OnlyPublish ==
  ASSUME TInv, NEW p \in Procs, Action(p), pc'[p] \in {"sidecar", "describe"}
  PROVE  Publish(p) \/ (StatObject(p) /\ pc'[p] = "describe")
<1>. USE DEF Goto, Done, Fail
<1>0. pc \in [Procs -> PCs]
  BY DEF TInv, TypeOK
<1>1. ~Begin(p)
  <2>. SUFFICES ASSUME Begin(p) PROVE FALSE
    OBVIOUS
  <2>1. PICK r \in Requests : pc' = [pc EXCEPT ![p] = FirstStep(r.op)]
    BY DEF Begin
  <2>. QED  BY <1>0, <2>1 DEF FirstStep
<1>2. ~Load(p)
  BY <1>0, LoadCases
<1>3. ~Validate(p)
  BY <1>0, ValidateCases
<1>4. ~(MakeDir(p) \/ WriteManifest(p) \/ Put(p) \/ LockPut(p) \/ Delete(p) \/ Lock(p)
        \/ Respond(p))
  BY <1>0 DEF MakeDir, WriteManifest, Put, LockPut, Delete, Lock, Respond
<1>5. ~(Stage(p) \/ RenamePart(p) \/ StatPart(p) \/ Scan(p) \/ RemoveEntry(p) \/ RemoveDir(p))
  BY <1>0 DEF Stage, RenamePart, StatPart, Scan, RemoveEntry, RemoveDir
<1>6. ~(List(p) \/ PartInfo(p) \/ DigestPart(p) \/ Copy(p) \/ Describe(p) \/ Unlock(p))
  BY <1>0 DEF List, PartInfo, DigestPart, Copy, Describe, Unlock
<1>7. StatObject(p) => pc'[p] # "sidecar"
  BY <1>0 DEF StatObject
<1>. QED  BY <1>1, <1>2, <1>3, <1>4, <1>5, <1>6, <1>7 DEF Action, Step

\* Who writes the object.
LEMMA Writers ==
  ASSUME NEW p \in Procs, Action(p)
  PROVE  UNCHANGED <<object, side, clock>> \/ Publish(p) \/ Describe(p) \/ Put(p) \/ Delete(p)
<1>. USE DEF bucket
<1>1. CASE Begin(p) \/ Load(p) \/ Lock(p) \/ Respond(p) \/ MakeDir(p) \/ WriteManifest(p)
  BY <1>1 DEF Begin, Load, Lock, Respond, MakeDir, WriteManifest
<1>2. CASE Stage(p) \/ RenamePart(p) \/ StatPart(p) \/ Scan(p) \/ RemoveEntry(p) \/ RemoveDir(p)
  BY <1>2 DEF Stage, RenamePart, StatPart, Scan, RemoveEntry, RemoveDir
<1>3. CASE List(p) \/ PartInfo(p) \/ DigestPart(p) \/ Validate(p) \/ Copy(p) \/ Unlock(p)
  BY <1>3 DEF List, PartInfo, DigestPart, Validate, Copy, Unlock
<1>4. CASE LockPut(p) \/ StatObject(p)
  BY <1>4 DEF LockPut, StatObject
<1>. QED  BY <1>1, <1>2, <1>3, <1>4 DEF Action, Step

\* The rename makes an object newer than any sidecar.
LEMMA PublishCases ==
  ASSUME TInv, NEW p \in Procs, Publish(p)
  PROVE  /\ Section(p) /\ req[p].key \in Keys
         /\ clock' = clock + 1 /\ side' = side /\ UNCHANGED <<req, copied>>
         /\ object'[req[p].key] = [bytes |-> copied[p], mtime |-> clock + 1]
         /\ object'[req[p].key] # Nothing
         /\ \A k \in Keys \ {req[p].key} : object'[k] = object[k]
<1>1. /\ Section(p) /\ req[p].key \in Keys
      /\ clock' = clock + 1 /\ side' = side /\ UNCHANGED <<req, copied>>
  BY ReqType DEF Publish, TInv, Place, Section, local
<1>2. object' = [object EXCEPT ![req[p].key] = [bytes |-> copied[p], mtime |-> clock + 1]]
  BY DEF Publish
<1>3. object'[req[p].key] = [bytes |-> copied[p], mtime |-> clock + 1]
  BY <1>1, <1>2 DEF TInv, TypeOK
<1>4. [bytes |-> copied[p], mtime |-> clock + 1] \in [bytes : Seq(Bodies), mtime : Nat]
  BY DEF TInv, TypeOK
<1>5. object'[req[p].key] # Nothing
  BY <1>3, <1>4, NothingIsNone
<1>6. \A k \in Keys \ {req[p].key} : object'[k] = object[k]
  BY <1>1, <1>2 DEF TInv, TypeOK
<1>. QED  BY <1>1, <1>3, <1>5, <1>6

\* A PutObject writes under the lock, a sidecar that is right or distrusted.
LEMMA PutCases ==
  ASSUME TInv, NEW p \in Procs, Put(p)
  PROVE  /\ pc[p] = "body" /\ req[p].key \in Keys
         /\ \/ UNCHANGED <<object, side, clock>>
            \/ /\ clock' = clock + 1
               /\ object'[req[p].key] = [bytes |-> <<req[p].body>>, mtime |-> clock + 1]
               /\ \/ side'[req[p].key] = side[req[p].key]
                  \/ side'[req[p].key] = Nothing
                  \/ side'[req[p].key] = [etag |-> <<req[p].body>>, mtime |-> clock + 1]
         /\ \A k \in Keys \ {req[p].key} : object'[k] = object[k] /\ side'[k] = side[k]
<1>. DEFINE v == [bytes |-> <<req[p].body>>, mtime |-> clock + 1]
            own == [etag |-> v.bytes, mtime |-> v.mtime]
<1>0. /\ object \in [Keys -> [bytes : Seq(Bodies), mtime : Nat] \cup {Nothing}]
      /\ side \in [Keys -> [etag : Seq(Bodies), mtime : Nat] \cup {Nothing}]
      /\ req[p].key \in Keys /\ pc[p] = "body"
  BY ReqType DEF TInv, TypeOK, Put
<1>1. CASE UNCHANGED <<object, side, clock>>
  BY <1>0, <1>1
<1>2. CASE /\ clock' = clock + 1 /\ object' = [object EXCEPT ![req[p].key] = v]
           /\ \E r : WriteSidecar(req[p].key, own, v, r)
  <2>1. PICK s : /\ side' = [side EXCEPT ![req[p].key] = s]
                 /\ s \in {own, Nothing, side[req[p].key]}
    BY <1>2, WriteCases
  <2>. QED  BY <1>0, <1>2, <2>1
<1>. QED  BY <1>1, <1>2, Zenon DEF Put

LEMMA ObjectStep ==
  ASSUME TInv, LockInv, ObjectInv, NEW p \in Procs, Action(p)
  PROVE  ObjectInv'
<1>0. \A q \in Procs : req[q].key \in Keys
  BY ReqType DEF TInv
<1>1. ASSUME NEW q \in Procs \ {p}, req'[q].op = "COMPLETE", pc'[q] \in {"sidecar", "describe"}
      PROVE  /\ object'[req'[q].key] # Nothing /\ object'[req'[q].key].bytes = copied'[q]
             /\ pc'[q] = "describe" => stamp'[q] = object'[req'[q].key].mtime
  <2>0. /\ pc[q] = pc'[q] /\ req'[q] = req[q] /\ req[q].op = "COMPLETE"
        /\ copied'[q] = copied[q] /\ stamp'[q] = stamp[q] /\ req[q].key \in Keys
    BY <1>0, <1>1, Others
  <2>1. /\ object[req[q].key] # Nothing /\ object[req[q].key].bytes = copied[q]
        /\ pc[q] = "describe" => stamp[q] = object[req[q].key].mtime
    BY <1>1, <2>0 DEF ObjectInv
  <2>2. held[req[q].key][q] = "W" /\ held[req[q].key][p] = "free"
    BY <1>1, <2>0 DEF LockInv, Holds, Section
  <2>3. object'[req[q].key] = object[req[q].key]
    <3>1. CASE Publish(p)
      <4>1. held[req[p].key][p] = "W"
        BY <3>1, PublishCases DEF LockInv, Holds
      <4>. QED  BY <2>0, <2>2, <3>1, <4>1, PublishCases
    <3>2. CASE Put(p)
      <4>1. held[req[p].key][p] = "W"
        BY <3>2, PutCases DEF LockInv, Holds
      <4>. QED  BY <2>0, <2>2, <3>2, <4>1, PutCases
    <3>3. CASE Delete(p)
      <4>1. NobodyHolds(req[p].key) /\ object' = [object EXCEPT ![req[p].key] = Nothing]
        BY <3>3 DEF Delete
      <4>2. req[p].key # req[q].key
        BY <2>2, <4>1 DEF NobodyHolds
      <4>. QED  BY <2>0, <4>1, <4>2 DEF TInv, TypeOK
    <3>4. CASE Describe(p)
      BY <3>4 DEF Describe
    <3>. QED  BY <3>1, <3>2, <3>3, <3>4, Writers
  <2>. QED  BY <2>0, <2>1, <2>3
<1>2. ASSUME req'[p].op = "COMPLETE", pc'[p] \in {"sidecar", "describe"}
      PROVE  /\ object'[req'[p].key] # Nothing /\ object'[req'[p].key].bytes = copied'[p]
             /\ pc'[p] = "describe" => stamp'[p] = object'[req'[p].key].mtime
  <2>1. CASE Publish(p)
    <3>1. /\ req' = req /\ copied' = copied /\ object'[req[p].key] # Nothing
          /\ object'[req[p].key] = [bytes |-> copied[p], mtime |-> clock + 1]
      BY <2>1, PublishCases
    <3>2. pc'[p] # "describe"
      BY <2>1 DEF Publish, Goto, TInv, TypeOK
    <3>. QED  BY <3>1, <3>2
  <2>2. CASE StatObject(p) /\ pc'[p] = "describe"
    <3>1. /\ req' = req /\ copied' = copied /\ object' = object /\ pc[p] = "sidecar"
      BY <2>2 DEF StatObject, bucket
    <3>2. object[req[p].key] # Nothing /\ object[req[p].key].bytes = copied[p]
      BY <1>2, <3>1 DEF ObjectInv
    <3>3. stamp'[p] = object[req[p].key].mtime
      BY <2>2, <3>2 DEF StatObject, TInv, TypeOK
    <3>. QED  BY <3>1, <3>2, <3>3
  <2>. QED  BY <1>2, <2>1, <2>2, OnlyPublish
<1>. QED  BY <1>1, <1>2 DEF ObjectInv

\* The sidecar that Describe leaves tells the bytes of the object there is, or it is
\* not there, or nothing has changed.
LEMMA DescribeCases ==
  ASSUME TInv, CopiedInv, ObjectInv, NEW p \in Procs, Describe(p)
  PROVE  /\ req[p].key \in Keys /\ object' = object /\ clock' = clock
         /\ object[req[p].key] # Nothing
         /\ \/ side'[req[p].key] \in {side[req[p].key], Nothing}
            \/ side'[req[p].key] = [etag |-> object[req[p].key].bytes,
                                   mtime |-> object[req[p].key].mtime]
         /\ \A k \in Keys \ {req[p].key} : side'[k] = side[k]
<1>1. PICK e : e = [i \in DOMAIN req[p].parts |-> staged[p][req[p].parts[i].number]]
  OBVIOUS
<1>2. /\ req[p].op = "COMPLETE" /\ pc[p] = "describe"
      /\ req[p].key \in Keys /\ object' = object /\ clock' = clock
  BY ReqType DEF Describe, TInv, Place
<1>3. /\ object[req[p].key] # Nothing /\ object[req[p].key].bytes = copied[p]
      /\ stamp[p] = object[req[p].key].mtime
  BY <1>2 DEF ObjectInv
<1>4. copied[p] \in Seq(Bodies) /\ req[p].parts \in Seq(Wanted)
  BY ReqType DEF TInv, TypeOK
<1>5. Validated(p)
  BY <1>2 DEF TInv, Trusted
<1>6. \A i \in DOMAIN req[p].parts : e[i] = req[p].parts[i].etag
  BY <1>1, <1>5, ChecksOut DEF TInv
<1>7. /\ Len(copied[p]) = Len(req[p].parts)
      /\ \A i \in 1 .. Len(copied[p]) : copied[p][i] = req[p].parts[i].etag
  BY <1>2 DEF CopiedInv, Listed, Written
<1>8. copied[p] = e
  <2>1. DOMAIN req[p].parts = 1 .. Len(copied[p])
    BY <1>4, <1>7
  <2>2. copied[p] = [i \in 1 .. Len(copied[p]) |-> copied[p][i]]
    BY <1>4
  <2>3. \A i \in 1 .. Len(copied[p]) : copied[p][i] = e[i]
    BY <1>6, <1>7, <2>1
  <2>4. e = [i \in 1 .. Len(copied[p]) |-> e[i]]
    BY <1>1, <2>1
  <2>. QED  BY <2>2, <2>3, <2>4
<1>9. \E r : WriteSidecar(req[p].key, [etag |-> e, mtime |-> stamp[p]], object[req[p].key], r)
  BY <1>1, Zenon DEF Describe
<1>10. PICK s :
         /\ side' = [side EXCEPT ![req[p].key] = s]
         /\ \/ s \in {[etag |-> e, mtime |-> stamp[p]], Nothing, side[req[p].key]}
            \/ s = [etag |-> object[req[p].key].bytes, mtime |-> object[req[p].key].mtime]
  BY <1>9, WriteCases
<1>11. side'[req[p].key] = s /\ \A k \in Keys \ {req[p].key} : side'[k] = side[k]
  BY <1>2, <1>10 DEF TInv, TypeOK
<1>. QED  BY <1>2, <1>3, <1>8, <1>10, <1>11

LEMMA ETagStep ==
  ASSUME TInv, CopiedInv, ObjectInv, ClockInv, ETagMatchesBytes, NEW p \in Procs, Action(p)
  PROVE  ClockInv' /\ ETagMatchesBytes'
<1>0. /\ object \in [Keys -> [bytes : Seq(Bodies), mtime : Nat] \cup {Nothing}]
      /\ side \in [Keys -> [etag : Seq(Bodies), mtime : Nat] \cup {Nothing}]
      /\ clock \in Nat /\ req[p].key \in Keys
  BY ReqType DEF TInv, TypeOK
<1>1. CASE UNCHANGED <<object, side, clock>>
  BY <1>1 DEF ClockInv, ETagMatchesBytes
<1>2. CASE Publish(p)
  <2>1. /\ clock' = clock + 1 /\ side' = side
        /\ object'[req[p].key] = [bytes |-> copied[p], mtime |-> clock + 1]
        /\ \A k \in Keys \ {req[p].key} : object'[k] = object[k]
    BY <1>2, PublishCases
  <2>2. ASSUME NEW k \in Keys, side[k] # Nothing
        PROVE  side[k].mtime <= clock' /\ side[k].mtime # clock'
    <3>1. side[k].mtime \in Nat /\ side[k].mtime <= clock
      BY <1>0, <2>2 DEF ClockInv
    <3>. QED  BY <1>0, <2>1, <3>1
  <2>3. ASSUME NEW k \in Keys, object'[k] # Nothing PROVE object'[k].mtime <= clock'
    <3>1. CASE k = req[p].key
      BY <1>0, <2>1, <3>1
    <3>2. CASE k # req[p].key
      <4>1. object'[k] = object[k]
        BY <2>1, <3>2
      <4>2. object[k].mtime \in Nat /\ object[k].mtime <= clock
        BY <1>0, <2>3, <4>1 DEF ClockInv
      <4>. QED  BY <1>0, <2>1, <4>1, <4>2
    <3>. QED  BY <3>1, <3>2
  <2>4. ASSUME NEW k \in Keys, object'[k] # Nothing, side'[k] # Nothing,
               side'[k].mtime = object'[k].mtime
        PROVE  side'[k].etag = object'[k].bytes
    <3>1. k # req[p].key
      BY <2>1, <2>2, <2>4
    <3>. QED  BY <2>1, <2>4, <3>1 DEF ETagMatchesBytes
  <2>. QED  BY <2>1, <2>2, <2>3, <2>4 DEF ClockInv, ETagMatchesBytes
<1>3. CASE Describe(p)
  <2>1. /\ object' = object /\ clock' = clock /\ object[req[p].key] # Nothing
        /\ \/ side'[req[p].key] \in {side[req[p].key], Nothing}
           \/ side'[req[p].key] = [etag |-> object[req[p].key].bytes,
                                  mtime |-> object[req[p].key].mtime]
        /\ \A k \in Keys \ {req[p].key} : side'[k] = side[k]
    BY <1>0, <1>3, DescribeCases
  <2>2. ASSUME NEW k \in Keys
        PROVE  /\ object'[k] # Nothing => object'[k].mtime <= clock'
               /\ side'[k] # Nothing => side'[k].mtime <= clock'
    BY <2>1 DEF ClockInv
  <2>3. ASSUME NEW k \in Keys, object'[k] # Nothing, side'[k] # Nothing,
               side'[k].mtime = object'[k].mtime
        PROVE  side'[k].etag = object'[k].bytes
    BY <2>1, <2>3 DEF ETagMatchesBytes
  <2>. QED  BY <2>2, <2>3 DEF ClockInv, ETagMatchesBytes
<1>4. CASE Put(p) /\ ~UNCHANGED <<object, side, clock>>
  <2>1. /\ clock' = clock + 1
        /\ object'[req[p].key] = [bytes |-> <<req[p].body>>, mtime |-> clock + 1]
        /\ \/ side'[req[p].key] = side[req[p].key]
           \/ side'[req[p].key] = Nothing
           \/ side'[req[p].key] = [etag |-> <<req[p].body>>, mtime |-> clock + 1]
        /\ \A k \in Keys \ {req[p].key} : object'[k] = object[k] /\ side'[k] = side[k]
    BY <1>4, PutCases
  <2>2. \A k \in Keys : /\ object[k] # Nothing => object[k].mtime \in Nat
                        /\ side[k] # Nothing => side[k].mtime \in Nat
    BY <1>0
  <2>3. ASSUME NEW k \in Keys
        PROVE  /\ object'[k] # Nothing => object'[k].mtime <= clock'
               /\ side'[k] # Nothing => side'[k].mtime <= clock'
    <3>1. CASE k = req[p].key
      BY <1>0, <2>1, <2>2, <3>1 DEF ClockInv
    <3>2. CASE k # req[p].key
      BY <1>0, <2>1, <2>2, <3>2 DEF ClockInv
    <3>. QED  BY <3>1, <3>2
  <2>4. ASSUME NEW k \in Keys, object'[k] # Nothing, side'[k] # Nothing,
               side'[k].mtime = object'[k].mtime
        PROVE  side'[k].etag = object'[k].bytes
    <3>1. CASE k # req[p].key
      BY <2>1, <2>4, <3>1 DEF ETagMatchesBytes
    <3>2. CASE k = req[p].key /\ side'[k] = side[k]
      <4>1. side[k].mtime \in Nat /\ side[k].mtime <= clock
        BY <2>2, <2>4, <3>2 DEF ClockInv
      <4>. QED  BY <1>0, <2>1, <2>4, <3>2, <4>1
    <3>3. CASE k = req[p].key /\ side'[k] = [etag |-> <<req[p].body>>, mtime |-> clock + 1]
      BY <2>1, <3>3
    <3>. QED  BY <2>1, <2>4, <3>1, <3>2, <3>3
  <2>. QED  BY <2>3, <2>4 DEF ClockInv, ETagMatchesBytes
<1>5. CASE Delete(p)
  <2>1. /\ object'[req[p].key] = Nothing /\ side'[req[p].key] = Nothing /\ clock' = clock
        /\ \A k \in Keys \ {req[p].key} : object'[k] = object[k] /\ side'[k] = side[k]
    BY <1>0, <1>5 DEF Delete
  <2>. QED  BY <2>1 DEF ClockInv, ETagMatchesBytes
<1>. QED  BY <1>1, <1>2, <1>3, <1>4, <1>5, Writers

-----------------------------------------------------------------------------
(***************************************************************************)
(* The theorems                                                            *)
(***************************************************************************)

FullInv == OInv /\ AsmInv /\ ClockInv /\ ETagMatchesBytes

LEMMA FullInit == Init => FullInv
<1>. SUFFICES ASSUME Init PROVE FullInv
  OBVIOUS
<1>0. /\ \A p \in Procs : /\ pc[p] = "idle" /\ staged[p] = NoParts /\ copied[p] = << >>
                          /\ wrote[p] = FALSE
      /\ \A k \in Keys : object[k] = Nothing /\ side[k] = Nothing
  BY DEF Init
<1>1. \A p \in Procs : ~Written(p) /\ ~Failed(p) /\ req[p].parts \in Seq(Wanted)
  BY <1>0, TInvInit, ReqType DEF Written, Ended, Failed, TInv
<1>2. OrderInv /\ StagedInv /\ ObjectInv
  BY <1>0 DEF OrderInv, StagedInv, ObjectInv
<1>4. SizeInv
  BY <1>0 DEF SizeInv, Measured, NoParts
<1>5. CopiedInv
  BY <1>0, <1>1 DEF CopiedInv, Listed, Replaced
<1>3. ClockInv /\ ETagMatchesBytes
  BY <1>0 DEF ClockInv, ETagMatchesBytes
<1>. QED  BY <1>2, <1>3, <1>4, <1>5, OInvInit DEF FullInv, AsmInv

LEMMA FullCrash == FullInv /\ Crash => (AsmInv /\ ClockInv /\ ETagMatchesBytes)'
<1>. SUFFICES ASSUME FullInv, Crash PROVE (AsmInv /\ ClockInv /\ ETagMatchesBytes)'
  OBVIOUS
<1>0. /\ \A p \in Procs : /\ pc'[p] = "idle" /\ staged'[p] = NoParts /\ copied'[p] = << >>
                          /\ wrote'[p] = FALSE
      /\ UNCHANGED <<object, side, clock, req>>
  BY DEF Crash
<1>1. \A p \in Procs : ~Written(p)' /\ ~Failed(p)' /\ req'[p].parts \in Seq(Wanted)
  BY <1>0, ReqType DEF Written, Ended, Failed, TInv, FullInv, OInv
<1>2. NoParts' = NoParts
  BY DEF NoParts
<1>3. (OrderInv /\ StagedInv /\ ObjectInv)'
  BY <1>0, <1>2 DEF OrderInv, StagedInv, ObjectInv
<1>5. SizeInv'
  BY <1>0 DEF SizeInv, Measured, NoParts
<1>6. CopiedInv'
  BY <1>0, <1>1 DEF CopiedInv, Listed, Replaced
<1>4. (ClockInv /\ ETagMatchesBytes)'
  BY <1>0 DEF FullInv, ClockInv, ETagMatchesBytes
<1>. QED  BY <1>3, <1>4, <1>5, <1>6 DEF AsmInv

LEMMA FullNext ==
  ASSUME ~LateParts
  PROVE  FullInv /\ [Next]_vars => FullInv'
<1>. SUFFICES ASSUME FullInv, [Next]_vars PROVE FullInv'
  OBVIOUS
<1>0. TInv'
  BY TInvNext DEF FullInv, OInv
<1>1. CASE UNCHANGED vars
  <2>1. UNCHANGED <<exists, manifest, part, object, side, held, clock, pc, req, id, res,
                    todo, small, staged, stamp, copied, known, wrote>>
    BY <1>1 DEF vars, upload, bucket, local, ghost
  <2>2. (LockInv /\ IdInv)'
    BY <2>1 DEF FullInv, OInv, LockInv, Holds, IdInv, Mine, Section
  <2>3. (OrderInv /\ StagedInv /\ SizeInv)'
    BY <2>1 DEF FullInv, AsmInv, OrderInv, StagedInv, SizeInv, Measured, NoParts, Smallest
  <2>4. (CopiedInv /\ ObjectInv)'
    BY <2>1 DEF FullInv, AsmInv, CopiedInv, Listed, Replaced, Written, Ended, Failed, ObjectInv
  <2>5. (ClockInv /\ ETagMatchesBytes)'
    BY <2>1 DEF FullInv, ClockInv, ETagMatchesBytes
  <2>. QED  BY <1>0, <2>2, <2>3, <2>4, <2>5 DEF FullInv, OInv, AsmInv
<1>2. ASSUME NEW p \in Procs, Action(p) PROVE FullInv'
  <2>1. OInv'
    BY <1>0, <1>2, LockStep, IdStep DEF FullInv, OInv
  <2>2. OrderInv' /\ StagedInv' /\ SizeInv'
    BY <1>2, OrderStep, StagedStep, SizeStep DEF FullInv, OInv, AsmInv
  <2>3. CopiedInv' /\ ObjectInv'
    BY <1>2, CopiedStep, ObjectStep DEF FullInv, OInv, AsmInv
  <2>4. ClockInv' /\ ETagMatchesBytes'
    BY <1>2, ETagStep DEF FullInv, OInv, AsmInv
  <2>. QED  BY <2>1, <2>2, <2>3, <2>4 DEF FullInv, AsmInv
<1>3. CASE Crash
  <2>1. (LockInv /\ IdInv)'
    <3>1. \A p \in Procs : pc'[p] = "idle"
      BY <1>3 DEF Crash
    <3>. QED  BY <3>1 DEF LockInv, Holds, IdInv, Mine, Section
  <2>. QED  BY <1>0, <1>3, <2>1, FullCrash DEF FullInv, OInv
<1>. QED  BY <1>1, <1>2, <1>3 DEF Next, Rest, Action

LEMMA FullAlways == ASSUME ~LateParts PROVE Spec => []FullInv
<1>1. FullInv /\ [Next]_vars => FullInv'
  BY FullNext
<1>. QED  BY <1>1, FullInit, PTL DEF Spec

\* A list whose neighbours are in order is in order.
LEMMA InOrder ==
  ASSUME TypeOK, NEW p \in Procs, Validated(p)
  PROVE  \A i, j \in DOMAIN req[p].parts :
           i < j => req[p].parts[i].number < req[p].parts[j].number
<1>. DEFINE num(i) == req[p].parts[i].number
            bad == {j \in DOMAIN req[p].parts :
                      \E i \in DOMAIN req[p].parts : i < j /\ ~(num(i) < num(j))}
<1>0. /\ DOMAIN req[p].parts = 1 .. Len(req[p].parts) /\ Len(req[p].parts) \in Nat
  BY ReqType
<1>1. \A i \in DOMAIN req[p].parts : num(i) \in Nat /\ (i > 1 => num(i-1) < num(i))
  <2>. TAKE i \in DOMAIN req[p].parts
  <2>1. num(i) \in Nat
    BY ChecksOut, NumbersAreNat
  <2>2. ASSUME i > 1 PROVE num(i-1) < num(i)
    <3>1. i - 1 \in DOMAIN req[p].parts
      BY <1>0, <2>2
    <3>2. num(i-1) \in Nat
      BY <3>1, ChecksOut, NumbersAreNat
    <3>3. num(i) > num(i-1)
      BY <2>2, ChecksOut
    <3>. QED  BY <2>1, <3>2, <3>3
  <2>. QED  BY <2>1, <2>2
<1>. HIDE DEF num
<1>2. bad = {}
  <2>. SUFFICES ASSUME bad # {} PROVE FALSE
    OBVIOUS
  <2>1. PICK j : j = Smallest(bad)
    OBVIOUS
  <2>2. j \in bad /\ \A m \in bad : j <= m
    <3>1. bad \subseteq Nat
      BY <1>0
    <3>. QED  BY <2>1, <3>1, SmallestIn
  <2>3. PICK i \in DOMAIN req[p].parts : i < j /\ ~(num(i) < num(j))
    BY <2>2
  <2>4. j - 1 \in DOMAIN req[p].parts /\ j > 1 /\ j \in DOMAIN req[p].parts
    BY <1>0, <2>2, <2>3
  <2>5. j - 1 \notin bad
    BY <1>0, <2>2, <2>4
  <2>6. i < j - 1 => num(i) < num(j-1)
    BY <2>4, <2>5
  <2>. QED  BY <1>0, <1>1, <2>3, <2>4, <2>6
<1>3. \A i, j \in DOMAIN req[p].parts : i < j => num(i) < num(j)
  BY <1>2
<1>. QED  BY <1>3 DEF num

\* A Complete that answers with success has put together just what was listed, in
\* order, with no small part before the last (multipart.go: validated before
\* anything is written, copied under the lock).
THEOREM SuccessIsAsListed == ASSUME ~LateParts PROVE Spec => []CompletedAsListed
<1>1. ASSUME FullInv, NEW p \in Procs, Completed(p), res[p] = "ok"
      PROVE  /\ wrote[p]
             /\ copied[p] = [i \in DOMAIN req[p].parts |-> req[p].parts[i].etag]
             /\ \A i \in 1 .. Len(copied[p]) - 1 : copied[p][i] \notin Small
             /\ \A i, j \in DOMAIN req[p].parts :
                  i < j => req[p].parts[i].number < req[p].parts[j].number
  <2>0. TInv /\ TypeOK /\ copied[p] \in Seq(Bodies) /\ req[p].parts \in Seq(Wanted)
    BY <1>1, ReqType DEF FullInv, OInv, TInv, TypeOK
  <2>1. Written(p) /\ Trusted(p)
    BY <1>1 DEF Written, Ended, Completed, Trusted
  <2>2. /\ wrote[p] /\ Len(copied[p]) = Len(req[p].parts)
        /\ \A i \in 1 .. Len(copied[p]) : copied[p][i] = req[p].parts[i].etag
    BY <1>1, <2>1 DEF FullInv, AsmInv, CopiedInv, Listed, Replaced
  <2>3. Validated(p)
    BY <2>0, <2>1 DEF TInv
  <2>4. copied[p] = [i \in DOMAIN req[p].parts |-> req[p].parts[i].etag]
    <3>1. DOMAIN req[p].parts = 1 .. Len(copied[p])
      BY <2>0, <2>2
    <3>2. copied[p] = [i \in 1 .. Len(copied[p]) |-> copied[p][i]]
      BY <2>0
    <3>. QED  BY <2>2, <3>1, <3>2
  <2>5. \A i \in 1 .. Len(copied[p]) - 1 : copied[p][i] \notin Small
    <3>. TAKE i \in 1 .. Len(copied[p]) - 1
    <3>1. i \in DOMAIN req[p].parts /\ i < Len(req[p].parts) /\ i \in 1 .. Len(copied[p])
      BY <2>0, <2>2
    <3>2. /\ req[p].parts[i].number \in Numbers /\ req[p].parts[i].number \notin small[p]
          /\ staged[p][req[p].parts[i].number] = req[p].parts[i].etag
          /\ req[p].parts[i].etag \in Bodies
      BY <2>0, <2>3, <3>1, ChecksOut
    <3>3. Measured(p)
      BY <1>1 DEF FullInv, AsmInv, SizeInv, Completed
    <3>. QED  BY <2>2, <3>1, <3>2, <3>3, NothingIsNone DEF Measured
  <2>. QED  BY <2>0, <2>2, <2>3, <2>4, <2>5, InOrder
<1>2. FullInv => CompletedAsListed
  BY <1>1 DEF CompletedAsListed
<1>. QED  BY <1>2, FullAlways, PTL

\* A Complete that answers with an error has not touched the object, or has put
\* together all that was listed and failed after the rename, at the stat, the sidecar
\* or the removal of the upload; a list that is refused has not touched it
\* (multipart.go: "a bad request leaves no trace").
THEOREM FailuresAreAllOrNothing ==
  ASSUME ~LateParts PROVE Spec => []FailedCompleteIsAllOrNothing
<1>1. ASSUME FullInv, NEW p \in Procs, Completed(p), res[p] # "ok", wrote[p]
      PROVE  /\ res[p] = "error"
             /\ copied[p] = [i \in DOMAIN req[p].parts |-> req[p].parts[i].etag]
  <2>0. copied[p] \in Seq(Bodies) /\ req[p].parts \in Seq(Wanted)
    BY <1>1, ReqType DEF FullInv, OInv, TInv, TypeOK
  <2>1. Listed(p) /\ Replaced(p)
    BY <1>1 DEF FullInv, AsmInv, CopiedInv
  <2>2. res[p] = "error"
    BY <1>1, <2>1 DEF Replaced, Written, Ended, Failed, Completed
  <2>3. /\ Len(copied[p]) = Len(req[p].parts)
        /\ \A i \in 1 .. Len(copied[p]) : copied[p][i] = req[p].parts[i].etag
    BY <1>1, <2>1 DEF Listed, Replaced
  <2>4. DOMAIN req[p].parts = 1 .. Len(copied[p])
    BY <2>0, <2>3
  <2>5. copied[p] = [i \in 1 .. Len(copied[p]) |-> copied[p][i]]
    BY <2>0
  <2>. QED  BY <2>2, <2>3, <2>4, <2>5
<1>2. FullInv => FailedCompleteIsAllOrNothing
  BY <1>1 DEF FailedCompleteIsAllOrNothing
<1>. QED  BY <1>2, FullAlways, PTL

\* A multipart ETag that is trusted is the one of the bytes there are.
THEOREM MultipartETagTrue == ASSUME ~LateParts PROVE Spec => []ETagMatchesBytes
<1>1. FullInv => ETagMatchesBytes
  BY DEF FullInv
<1>. QED  BY <1>1, FullAlways, PTL
=============================================================================
