--------------------------- MODULE KeyedLockProofs ---------------------------
(***************************************************************************)
(* For any number of goroutines, names and entry addresses: KeyedLock is   *)
(* type correct, its map holds exactly the names in use with their number  *)
(* of users, and it implements NamedLocks.                                 *)
(***************************************************************************)
EXTENDS KeyedLock, FiniteSetTheorems, TLAPS

\* A goroutine inside a lock call uses the entry its name has in the map, so
\* release finds it, and no entry serves two names.
Bound ==
  /\ \A p \in Procs : pc[p] # "idle" => /\ entry[p] \in Entries
                                        /\ m[name[p]] = entry[p]
  /\ \A n1, n2 \in Names : m[n1] # Nil /\ m[n1] = m[n2] => n1 = n2

\* The mutex of an entry knows the goroutines that are inside it.
Inside ==
  \A p \in Procs :
    /\ pc[p] = "announced" => mode[p] = "W" /\ writer[entry[p]] = p
    /\ pc[p] = "parked" => mode[p] = "R"
    /\ pc[p] = "held" /\ mode[p] = "W" =>
         writer[entry[p]] = p /\ readers[entry[p]] = {}
    /\ pc[p] = "held" /\ mode[p] = "R" => p \in readers[entry[p]]

\* The inductive invariant.
Inv == TypeOK /\ Bound /\ MapIsInFlight /\ Inside

-----------------------------------------------------------------------------

\* The steps inside a RWMutex: they leave the map and the calls alone.
MutexStep(p) ==
  \/ Announce(p)
  \/ EnterWriter(p)
  \/ EnterReader(p)
  \/ Park(p)
  \/ Wake(p)
  \/ UnlockWriter(p)
  \/ UnlockReader(p)

\* Users of a name form a finite set, so they can be counted.
LEMMA UsersFinite == ASSUME NEW n \in Names
                     PROVE  IsFiniteSet(Users(n)) /\ Cardinality(Users(n)) \in Nat
<1>1. Users(n) \subseteq Procs
  BY DEF Users
<1>2. IsFiniteSet(Users(n))
  BY <1>1, FiniteProcs, FS_Subset
<1>. QED  BY <1>2, FS_CardinalityType

\* The initial state satisfies the inductive invariant.
LEMMA InvInit == Init => Inv
<1>. SUFFICES ASSUME Init PROVE Inv
  OBVIOUS
<1>1. TypeOK
  BY DEF Init, TypeOK, Nobody, PCs
<1>2. \A n \in Names : Users(n) = {}
  BY DEF Init, Users
<1>3. Bound /\ Inside /\ MapIsInFlight
  BY <1>2, NilIsNothing DEF Init, Bound, Inside, MapIsInFlight, Nobody
<1>. QED  BY <1>1, <1>3 DEF Inv

\* A mutex step keeps every goroutine inside or outside its call.
LEMMA MutexStepFrame ==
  ASSUME TypeOK, NEW p \in Procs, MutexStep(p)
  PROVE  /\ UNCHANGED <<m, refs, name, mode, entry>>
         /\ pc[p] # "idle"
         /\ \E l \in PCs \ {"idle"} : pc' = [pc EXCEPT ![p] = l]
BY DEF MutexStep, Announce, EnterWriter, EnterReader, Park, Wake,
       UnlockWriter, UnlockReader, Goto, call, mutex, PCs, TypeOK

LEMMA MutexStepInv ==
  ASSUME Inv, NEW p \in Procs, MutexStep(p)
  PROVE  Inv'
<1>. USE DEF Inv
<1>0. PICK l \in PCs \ {"idle"} : pc' = [pc EXCEPT ![p] = l]
  BY MutexStepFrame
<1>1. UNCHANGED <<m, refs, name, mode, entry>> /\ pc[p] # "idle"
  BY MutexStepFrame
<1>2. entry[p] \in Entries
  BY <1>1 DEF Bound
<1>3. TypeOK'
  BY <1>0, <1>1, <1>2 DEF MutexStep, Announce, EnterWriter, EnterReader, Park,
     Wake, UnlockWriter, UnlockReader, TypeOK, call, mutex
<1>4. \A q \in Procs : pc'[q] = "idle" <=> pc[q] = "idle"
  BY <1>0, <1>1 DEF TypeOK
<1>5. Bound'
  BY <1>1, <1>4 DEF Bound
<1>6. \A n \in Names : Users(n)' = Users(n)
  BY <1>1, <1>4 DEF Users
<1>7. MapIsInFlight'
  BY <1>1, <1>6 DEF MapIsInFlight
<1>8. Inside'
  <2>. SUFFICES ASSUME NEW q \in Procs
                PROVE  /\ pc'[q] = "announced" => mode'[q] = "W" /\ writer'[entry'[q]] = q
                       /\ pc'[q] = "parked" => mode'[q] = "R"
                       /\ pc'[q] = "held" /\ mode'[q] = "W" =>
                            writer'[entry'[q]] = q /\ readers'[entry'[q]] = {}
                       /\ pc'[q] = "held" /\ mode'[q] = "R" => q \in readers'[entry'[q]]
    BY DEF Inside
  <2>0. pc[q] # "idle" => entry[q] \in Entries
    BY DEF Bound
  <2>. USE <1>1, <1>2, <2>0, NilIsNothing DEF Inside, TypeOK, call, mutex, Goto
  <2>1. CASE Announce(p)
    BY <2>1 DEF Announce
  <2>2. CASE EnterWriter(p)
    BY <2>2 DEF EnterWriter
  <2>3. CASE EnterReader(p)
    BY <2>3 DEF EnterReader
  <2>4. CASE Park(p)
    BY <2>4 DEF Park
  <2>5. CASE Wake(p)
    BY <2>5 DEF Wake
  <2>6. CASE UnlockWriter(p)
    BY <2>6 DEF UnlockWriter
  <2>7. CASE UnlockReader(p)
    BY <2>7 DEF UnlockReader
  <2>. QED  BY <2>1, <2>2, <2>3, <2>4, <2>5, <2>6, <2>7 DEF MutexStep
<1>. QED  BY <1>3, <1>5, <1>7, <1>8

\* Asking for a name adds one user to it and to no other name.
LEMMA AcquireUsers ==
  ASSUME TypeOK, NEW p \in Procs, NEW n \in Names, NEW md \in {"R", "W"},
         Acquire(p, n, md)
  PROVE  /\ p \notin Users(n)
         /\ Users(n)' = Users(n) \cup {p}
         /\ \A k \in Names : k # n => Users(k)' = Users(k)
<1>1. /\ pc[p] = "idle"
      /\ pc' = [pc EXCEPT ![p] = "acquired"]
      /\ name' = [name EXCEPT ![p] = n]
  BY DEF Acquire, Goto
<1>. QED  BY <1>1 DEF TypeOK, Users

LEMMA AcquireInv ==
  ASSUME Inv, NEW p \in Procs, NEW n \in Names, NEW md \in {"R", "W"},
         Acquire(p, n, md)
  PROVE  Inv'
<1>. USE DEF Inv
<1>1. /\ p \notin Users(n)
      /\ Users(n)' = Users(n) \cup {p}
      /\ \A k \in Names : k # n => Users(k)' = Users(k)
  BY AcquireUsers
<1>2. Cardinality(Users(n)') = Cardinality(Users(n)) + 1
  BY <1>1, UsersFinite, FS_AddElement
<1>3. /\ pc[p] = "idle"
      /\ pc' = [pc EXCEPT ![p] = "acquired"]
      /\ name' = [name EXCEPT ![p] = n]
      /\ mode' = [mode EXCEPT ![p] = md]
  BY DEF Acquire, Goto
<1>4. CASE AcquireOld(p, n)
  <2>1. m[n] \in Entries /\ m[n] # Nil
    BY <1>4 DEF AcquireOld, TypeOK
  <2>. USE <1>3, <1>4, <2>1 DEF AcquireOld, mutex
  <2>2. TypeOK'
    BY DEF TypeOK, PCs
  <2>3. Bound'
    BY DEF Bound, TypeOK
  <2>4. MapIsInFlight'
    <3>. SUFFICES ASSUME NEW k \in Names
                  PROVE  /\ (m'[k] = Nil) <=> (Users(k)' = {})
                         /\ m'[k] # Nil => refs'[m'[k]] = Cardinality(Users(k)')
      BY DEF MapIsInFlight
    <3>1. CASE k = n
      BY <1>1, <1>2, <3>1 DEF MapIsInFlight, TypeOK
    <3>2. CASE k # n
      BY <1>1, <3>2 DEF MapIsInFlight, TypeOK, Bound
    <3>. QED  BY <3>1, <3>2
  <2>5. Inside'
    BY DEF Inside, TypeOK
  <2>. QED  BY <2>2, <2>3, <2>4, <2>5
<1>5. CASE AcquireNew(p, n)
  <2>1. PICK e \in Entries :
          /\ Unused(e)
          /\ m' = [m EXCEPT ![n] = e]
          /\ entry' = [entry EXCEPT ![p] = e]
          /\ refs' = [refs EXCEPT ![e] = 1]
          /\ writer' = [writer EXCEPT ![e] = Nil]
          /\ readers' = [readers EXCEPT ![e] = {}]
          /\ parked' = [parked EXCEPT ![e] = {}]
    BY <1>5 DEF AcquireNew
  <2>2. m[n] = Nil /\ Users(n) = {}
    BY <1>5 DEF AcquireNew, MapIsInFlight
  <2>3. e # Nil
    BY NilIsNothing
  <2>4. TypeOK'
    BY <1>3, <2>1 DEF TypeOK, PCs
  <2>5. Bound'
    BY <1>3, <2>1, <2>2 DEF Bound, TypeOK, Unused, Users
  <2>6. MapIsInFlight'
    <3>. SUFFICES ASSUME NEW k \in Names
                  PROVE  /\ (m'[k] = Nil) <=> (Users(k)' = {})
                         /\ m'[k] # Nil => refs'[m'[k]] = Cardinality(Users(k)')
      BY DEF MapIsInFlight
    <3>1. CASE k = n
      <4>1. Cardinality(Users(n)) = 0
        BY <2>2, FS_EmptySet
      <4>2. m'[n] = e /\ refs'[e] = 1
        BY <2>1 DEF TypeOK
      <4>3. Cardinality(Users(n)') = 1 /\ Users(n)' # {}
        BY <1>1, <1>2, <4>1
      <4>. QED  BY <2>3, <3>1, <4>2, <4>3
    <3>2. CASE k # n
      BY <1>1, <2>1, <3>2 DEF MapIsInFlight, TypeOK, Unused
    <3>. QED  BY <3>1, <3>2
  <2>7. Inside'
    BY <1>3, <2>1 DEF Inside, TypeOK, Unused
  <2>. QED  BY <2>4, <2>5, <2>6, <2>7
<1>. QED  BY <1>4, <1>5 DEF Acquire

LEMMA ReleaseInv ==
  ASSUME Inv, NEW p \in Procs, Release(p)
  PROVE  Inv'
<1>. USE DEF Inv
<1>0. PICK n \in Names, e \in Entries : n = name[p] /\ e = entry[p]
  BY DEF TypeOK, Bound, Release
<1>1. /\ pc[p] = "unlocked"
      /\ pc' = [pc EXCEPT ![p] = "idle"]
      /\ entry' = [entry EXCEPT ![p] = Nil]
      /\ UNCHANGED <<writer, readers, parked, name, mode>>
  BY DEF Release, Goto, mutex
<1>2. m[n] = e /\ e # Nil
  BY <1>0, <1>1, NilIsNothing DEF Bound
<1>3. /\ refs' = [refs EXCEPT ![e] = @ - 1]
      /\ m' = IF refs[e] = 1 THEN [m EXCEPT ![n] = Nil] ELSE m
  BY <1>0, <1>2 DEF Release
<1>4. /\ p \in Users(n)
      /\ Users(n)' = Users(n) \ {p}
      /\ \A k \in Names : k # n => Users(k)' = Users(k)
  BY <1>0, <1>1 DEF Users, TypeOK
<1>5. /\ Cardinality(Users(n)') = Cardinality(Users(n)) - 1
      /\ refs[e] = Cardinality(Users(n))
      /\ Cardinality(Users(n)) \in Nat \ {0}
      /\ IsFiniteSet(Users(n)')
  <2>1. IsFiniteSet(Users(n)) /\ Cardinality(Users(n)) \in Nat
    BY <1>2, UsersFinite
  <2>2. Cardinality(Users(n)') = Cardinality(Users(n)) - 1
    BY <1>4, <2>1, FS_RemoveElement
  <2>3. IsFiniteSet(Users(n)')
    BY <1>4, <2>1, FS_RemoveElement
  <2>4. Cardinality(Users(n)) # 0
    BY <1>4, <2>1, FS_EmptySet
  <2>5. refs[e] = Cardinality(Users(n))
    BY <1>2 DEF MapIsInFlight
  <2>. QED  BY <2>1, <2>2, <2>3, <2>4, <2>5
<1>6. (refs[e] = 1) <=> (Users(n)' = {})
  <2>1. (Cardinality(Users(n)') = 0) <=> (Users(n)' = {})
    BY <1>5, FS_EmptySet
  <2>. QED  BY <1>5, <2>1
<1>7. TypeOK'
  BY <1>1, <1>2, <1>3, <1>5 DEF TypeOK, PCs
<1>8. Bound'
  <2>1. \A q \in Procs : pc'[q] # "idle" /\ name[q] = n => q \in Users(n)'
    BY <1>1 DEF Users
  <2>2. \A q \in Procs : pc'[q] # "idle" => m'[name[q]] = m[name[q]]
    BY <1>2, <1>3, <1>6, <2>1 DEF TypeOK
  <2>. QED  BY <1>0, <1>1, <1>2, <1>3, <2>2 DEF Bound, TypeOK
<1>9. MapIsInFlight'
  <2>. SUFFICES ASSUME NEW k \in Names
                PROVE  /\ (m'[k] = Nil) <=> (Users(k)' = {})
                       /\ m'[k] # Nil => refs'[m'[k]] = Cardinality(Users(k)')
    BY DEF MapIsInFlight
  <2>1. CASE k = n
    <3>1. CASE refs[e] = 1
      <4>1. m'[n] = Nil
        BY <1>2, <1>3, <3>1 DEF TypeOK
      <4>. QED  BY <1>6, <2>1, <3>1, <4>1
    <3>2. CASE refs[e] # 1
      <4>1. m'[n] = e /\ refs'[e] = refs[e] - 1
        BY <1>2, <1>3, <3>2 DEF TypeOK
      <4>. QED  BY <1>2, <1>5, <1>6, <2>1, <3>2, <4>1
    <3>. QED  BY <3>1, <3>2
  <2>2. CASE k # n
    <3>1. m'[k] = m[k] /\ m[k] # e
      BY <1>2, <1>3, <2>2 DEF Bound, TypeOK
    <3>. QED  BY <1>2, <1>3, <1>4, <2>2, <3>1 DEF MapIsInFlight, TypeOK
  <2>. QED  BY <2>1, <2>2
<1>10. Inside'
  BY <1>1 DEF Inside, TypeOK
<1>. QED  BY <1>7, <1>8, <1>9, <1>10

\* Every step preserves the inductive invariant.
LEMMA InvNext == Inv /\ [Next]_vars => Inv'
<1>. SUFFICES ASSUME Inv, [Next]_vars PROVE Inv'
  OBVIOUS
<1>1. CASE UNCHANGED vars
  <2>1. UNCHANGED <<m, refs, writer, readers, parked, pc, name, mode, entry>>
    BY <1>1 DEF vars
  <2>2. \A n \in Names : Users(n)' = Users(n)
    BY <2>1 DEF Users
  <2>. QED  BY <2>1, <2>2 DEF Inv, TypeOK, Bound, MapIsInFlight, Inside
<1>2. ASSUME NEW p \in Procs, NEW n \in Names, NEW md \in {"R", "W"},
             Acquire(p, n, md)
      PROVE  Inv'
  BY <1>2, AcquireInv
<1>3. ASSUME NEW p \in Procs, MutexStep(p) PROVE Inv'
  BY <1>3, MutexStepInv
<1>4. ASSUME NEW p \in Procs, Release(p) PROVE Inv'
  BY <1>4, ReleaseInv
<1>. QED  BY <1>1, <1>2, <1>3, <1>4 DEF Next, MutexStep

LEMMA InvAlways == Spec => []Inv
<1>. QED  BY InvInit, InvNext, PTL DEF Spec

-----------------------------------------------------------------------------

\* Every variable keeps its type; no reference count goes below zero.
THEOREM TypeCorrect == Spec => []TypeOK
<1>1. Inv => TypeOK
  BY DEF Inv
<1>. QED  BY <1>1, InvAlways, PTL

\* The map is exactly the work in flight: a name has an entry while somebody
\* uses it and no longer, and the entry counts its users.
THEOREM MapBounded == Spec => []MapIsInFlight
<1>1. Inv => MapIsInFlight
  BY DEF Inv
<1>. QED  BY <1>1, InvAlways, PTL

\* Two holders of a name are two readers.
LEMMA InvExclusive == Inv => Exclusive
<1>. SUFFICES ASSUME Inv, NEW n \in Names, NEW p \in Procs, NEW q \in Procs,
                     p # q, Holds[n][p] = "W"
              PROVE  Holds[n][q] = "free"
  BY DEF Exclusive, Abstract!Exclusive
<1>1. pc[p] = "held" /\ name[p] = n /\ mode[p] = "W"
  BY DEF Holds, Inv, TypeOK
<1>2. ASSUME pc[q] = "held", name[q] = n PROVE FALSE
  <2>1. entry[p] = entry[q]
    BY <1>1, <1>2 DEF Inv, Bound
  <2>. QED  BY <1>1, <1>2, <2>1 DEF Inv, Inside, TypeOK
<1>. QED  BY <1>2 DEF Holds

\* Whoever holds a name for writing is alone, although the mutex of the name
\* is dropped and made again at will.
THEOREM MutualExclusion == Spec => []Exclusive
<1>. QED  BY InvExclusive, InvAlways, PTL

\* What NamedLocks sees of the goroutines is a table ...
Table == [Names -> [Procs -> {"free", "R", "W"}]]

Updated(f, n, p, v) == [f EXCEPT ![n][p] = v]

\* ... and two tables that differ in one place are an update apart.
LEMMA TableUpdate ==
  ASSUME NEW f \in Table, NEW g \in Table,
         NEW n \in Names, NEW p \in Procs, NEW v \in {"free", "R", "W"},
         \A i \in Names, q \in Procs :
           g[i][q] = IF i = n /\ q = p THEN v ELSE f[i][q]
  PROVE  g = Updated(f, n, p, v)
<1>. DEFINE h == Updated(f, n, p, v)
<1>1. h \in Table
  BY DEF Table, Updated
<1>2. ASSUME NEW i \in Names PROVE g[i] = h[i]
  <2>1. \A q \in Procs : g[i][q] = h[i][q]
    <3>1. h[i] = IF i = n THEN [f[n] EXCEPT ![p] = v] ELSE f[i]
      BY DEF Table, Updated
    <3>2. f[n] \in [Procs -> {"free", "R", "W"}]
      BY DEF Table
    <3>. HIDE DEF h
    <3>. QED  BY <3>1, <3>2
  <2>2. g[i] \in [Procs -> {"free", "R", "W"}] /\ h[i] \in [Procs -> {"free", "R", "W"}]
    BY <1>1 DEF Table
  <2>. HIDE DEF h
  <2>. QED  BY <2>1, <2>2
<1>3. g = [i \in Names |-> g[i]] /\ h = [i \in Names |-> h[i]]
  BY <1>1 DEF Table
<1>. QED  BY <1>2, <1>3, Zenon

LEMMA HoldsType == TypeOK => Holds \in Table
BY DEF TypeOK, Holds, Table

\* A step that grants, drops or leaves alone the lock of one goroutine.
LEMMA StepRefines == Inv /\ Inv' /\ [Next]_vars => [Abstract!Next]_Holds
<1>. SUFFICES ASSUME Inv, Inv', [Next]_vars PROVE [Abstract!Next]_Holds
  OBVIOUS
<1>. USE DEF Inv
<1>0. Holds \in Table /\ Holds' \in Table
  BY HoldsType DEF TypeOK, Holds, Table
<1>1. ASSUME NEW p \in Procs, name'[p] = name[p], mode'[p] = mode[p],
             \A q \in Procs \ {p} : /\ pc'[q] = pc[q] /\ name'[q] = name[q]
                                    /\ mode'[q] = mode[q],
             pc[p] # "held", pc'[p] = "held"
      PROVE  Abstract!Next
  <2>. DEFINE n == name[p]
              md == mode[p]
  <2>1. n \in Names /\ md \in {"R", "W"}
    BY DEF TypeOK
  <2>2. Holds' = [Holds EXCEPT ![n][p] = md]
    <3>1. \A k \in Names, q \in Procs :
            Holds'[k][q] = IF k = n /\ q = p THEN md ELSE Holds[k][q]
      BY <1>1, <2>1 DEF Holds
    <3>2. Holds' = Updated(Holds, n, p, md)
      BY <1>0, <2>1, <3>1, TableUpdate
    <3>. QED  BY <3>2 DEF Updated
  <2>3. Holds[n][p] = "free"
    BY <1>1, <2>1 DEF Holds
  <2>4. ASSUME NEW q \in Procs \ {p} PROVE Abstract!Compatible(md, Holds[n][q])
    <3>1. Holds'[n][p] = md /\ Holds'[n][q] = Holds[n][q]
      BY <1>0, <2>1, <2>2, <2>4 DEF Table
    <3>2. md = "W" => Holds'[n][q] = "free"
      <4>1. Exclusive'
        BY InvExclusive, PTL
      <4>. QED  BY <2>1, <2>4, <3>1, <4>1 DEF Exclusive, Abstract!Exclusive
    <3>3. Holds'[n][q] = "W" => md = "free"
      <4>1. Exclusive'
        BY InvExclusive, PTL
      <4>. QED  BY <2>1, <2>4, <3>1, <4>1 DEF Exclusive, Abstract!Exclusive
    <3>4. Holds[n][q] \in {"free", "R", "W"}
      BY <2>1, <2>4 DEF Holds, TypeOK
    <3>. QED  BY <2>1, <3>1, <3>2, <3>3, <3>4 DEF Abstract!Compatible
  <2>5. Abstract!Grant(p, n, md)
    BY <2>2, <2>3, <2>4 DEF Abstract!Grant
  <2>. QED  BY <2>1, <2>5 DEF Abstract!Next, Abstract!Modes
<1>2. ASSUME NEW p \in Procs, name'[p] = name[p], mode'[p] = mode[p],
             \A q \in Procs \ {p} : /\ pc'[q] = pc[q] /\ name'[q] = name[q]
                                    /\ mode'[q] = mode[q],
             pc[p] = "held", pc'[p] # "held"
      PROVE  Abstract!Next
  <2>. DEFINE n == name[p]
  <2>1. n \in Names
    BY DEF TypeOK
  <2>2. Holds' = [Holds EXCEPT ![n][p] = "free"]
    <3>1. \A k \in Names, q \in Procs :
            Holds'[k][q] = IF k = n /\ q = p THEN "free" ELSE Holds[k][q]
      BY <1>2, <2>1 DEF Holds
    <3>2. Holds' = Updated(Holds, n, p, "free")
      BY <1>0, <2>1, <3>1, TableUpdate
    <3>. QED  BY <3>2 DEF Updated
  <2>3. Holds[n][p] \in {"R", "W"}
    BY <1>2, <2>1 DEF Holds, TypeOK
  <2>4. Abstract!Drop(p, n)
    BY <2>2, <2>3 DEF Abstract!Drop, Abstract!Modes
  <2>. QED  BY <2>1, <2>4 DEF Abstract!Next
<1>3. ASSUME NEW p \in Procs,
             \A q \in Procs \ {p} : /\ pc'[q] = pc[q] /\ name'[q] = name[q]
                                    /\ mode'[q] = mode[q],
             pc[p] # "held", pc'[p] # "held"
      PROVE  UNCHANGED Holds
  BY <1>3 DEF Holds
<1>4. CASE UNCHANGED vars
  BY <1>4 DEF vars, Holds
<1>5. ASSUME NEW p \in Procs, NEW n \in Names, NEW md \in {"R", "W"},
             Acquire(p, n, md)
      PROVE  UNCHANGED Holds
  BY <1>3, <1>5 DEF Acquire, Goto, TypeOK
<1>6. ASSUME NEW p \in Procs, MutexStep(p) PROVE [Abstract!Next]_Holds
  <2>1. UNCHANGED <<name, mode>>
    BY <1>6, MutexStepFrame
  <2>2. \A q \in Procs \ {p} : pc'[q] = pc[q]
    BY <1>6, MutexStepFrame DEF TypeOK
  <2>. QED  BY <1>1, <1>2, <1>3, <1>6, <2>1, <2>2 DEF MutexStep, Announce,
            EnterWriter, EnterReader, Park, Wake, UnlockWriter, UnlockReader,
            Goto, TypeOK
<1>7. ASSUME NEW p \in Procs, Release(p) PROVE UNCHANGED Holds
  BY <1>3, <1>7 DEF Release, Goto, TypeOK
<1>. QED  BY <1>4, <1>5, <1>6, <1>7 DEF Next, MutexStep

\* Seen by name, KeyedLock is one reader/writer lock per name for ever.
THEOREM KeyedLockRefines == Spec => ImplementsNamedLocks
<1>1. Init => Abstract!Init
  BY DEF Init, Abstract!Init, Abstract!Free, Holds
<1>. QED  BY <1>1, StepRefines, InvAlways, PTL DEF Spec, ImplementsNamedLocks, Abstract!Spec
=============================================================================
