------------------------------ MODULE KeyedLock ------------------------------
(***************************************************************************)
(* internal/store/lock.go: one reader/writer mutex per name, kept in a map *)
(* of reference-counted entries.  acquire and release each run under the   *)
(* map's own mutex, so each is one step; waiting for the entry's RWMutex   *)
(* happens outside it, so an entry can be dropped from the map and a new   *)
(* one made for the same name while other goroutines run.                  *)
(*                                                                         *)
(* sync.RWMutex is modelled from its documented behaviour: a writer first  *)
(* announces itself (which parks readers that come later), then waits for  *)
(* the readers already inside; when it unlocks, the parked readers all     *)
(* get in before another writer can announce itself.                       *)
(***************************************************************************)
EXTENDS Naturals, FiniteSets

CONSTANTS Procs,     \* goroutines; each holds at most one lock at a time
          Names,     \* lock names
          Entries,   \* addresses a lockEntry can be allocated at
          Nil        \* no entry, no goroutine

ASSUME NilIsNothing == Nil \notin Entries /\ Nil \notin Procs
ASSUME FiniteProcs  == IsFiniteSet(Procs)

VARIABLES m,        \* KeyedLock.m: the entry of a name, Nil when it has none
          refs,     \* lockEntry.refs
          writer,   \* RWMutex: the announced or active writer of an entry
          readers,  \* RWMutex: the readers inside
          parked,   \* RWMutex: the readers waiting for the writer to leave
          pc,       \* where each goroutine is in Lock/RLock/unlock
          name,     \* the name it asked for
          mode,     \* "W" for Lock, "R" for RLock
          entry     \* the local variable e

mutex == <<writer, readers, parked>>
call  == <<name, mode, entry>>
vars  == <<m, refs, writer, readers, parked, pc, name, mode, entry>>

Nobody == [n \in Names |-> Nil]

Goto(p, l) == pc' = [pc EXCEPT ![p] = l]

\* An address the allocator may hand out: nothing points at it any more.
Unused(e) ==
  /\ \A n \in Names : m[n] # e
  /\ \A p \in Procs : pc[p] # "idle" => entry[p] # e

\* Goroutines between acquire and release of a name.
Users(n) == {p \in Procs : pc[p] # "idle" /\ name[p] = n}

-----------------------------------------------------------------------------

Init ==
  /\ m = Nobody
  /\ refs = [e \in Entries |-> 0]
  /\ writer = [e \in Entries |-> Nil]
  /\ readers = [e \in Entries |-> {}]
  /\ parked = [e \in Entries |-> {}]
  /\ pc = [p \in Procs |-> "idle"]
  /\ name \in [Procs -> Names]
  /\ mode = [p \in Procs |-> "R"]
  /\ entry = [p \in Procs |-> Nil]

\* The entry exists: one more reference to it.
AcquireOld(p, n) ==
  /\ m[n] # Nil
  /\ entry' = [entry EXCEPT ![p] = m[n]]
  /\ refs' = [refs EXCEPT ![m[n]] = @ + 1]
  /\ UNCHANGED <<m, mutex>>

\* Mutant: the new entry is stored without its first reference.
AcquireNew_Uncounted(p, n) ==
  /\ m[n] = Nil
  /\ \E e \in Entries :
       /\ Unused(e)
       /\ m' = [m EXCEPT ![n] = e]
       /\ entry' = [entry EXCEPT ![p] = e]
       /\ refs' = [refs EXCEPT ![e] = 0]
       /\ writer' = [writer EXCEPT ![e] = Nil]
       /\ readers' = [readers EXCEPT ![e] = {}]
       /\ parked' = [parked EXCEPT ![e] = {}]

\* It does not: a zero lockEntry, with the first reference, enters the map.
AcquireNew(p, n) ==
  /\ m[n] = Nil
  /\ \E e \in Entries :
       /\ Unused(e)
       /\ m' = [m EXCEPT ![n] = e]
       /\ entry' = [entry EXCEPT ![p] = e]
       /\ refs' = [refs EXCEPT ![e] = 1]
       /\ writer' = [writer EXCEPT ![e] = Nil]
       /\ readers' = [readers EXCEPT ![e] = {}]
       /\ parked' = [parked EXCEPT ![e] = {}]

Acquire(p, n, md) ==
  /\ pc[p] = "idle"
  /\ Goto(p, "acquired")
  /\ name' = [name EXCEPT ![p] = n]
  /\ mode' = [mode EXCEPT ![p] = md]
  /\ AcquireOld(p, n) \/ AcquireNew(p, n)

\* rw.Lock: win the inner mutex and announce the writer.
Announce(p) ==
  /\ pc[p] = "acquired" /\ mode[p] = "W"
  /\ writer[entry[p]] = Nil
  /\ writer' = [writer EXCEPT ![entry[p]] = p]
  /\ Goto(p, "announced")
  /\ UNCHANGED <<m, refs, readers, parked, call>>

\* rw.Lock: the readers that were inside have left.
EnterWriter(p) ==
  /\ pc[p] = "announced"
  /\ readers[entry[p]] = {}
  /\ Goto(p, "held")
  /\ UNCHANGED <<m, refs, mutex, call>>

\* rw.RLock with no writer announced.
EnterReader(p) ==
  /\ pc[p] = "acquired" /\ mode[p] = "R"
  /\ writer[entry[p]] = Nil
  /\ readers' = [readers EXCEPT ![entry[p]] = @ \cup {p}]
  /\ Goto(p, "held")
  /\ UNCHANGED <<m, refs, writer, parked, call>>

\* rw.RLock behind an announced writer.
Park(p) ==
  /\ pc[p] = "acquired" /\ mode[p] = "R"
  /\ writer[entry[p]] # Nil
  /\ parked' = [parked EXCEPT ![entry[p]] = @ \cup {p}]
  /\ Goto(p, "parked")
  /\ UNCHANGED <<m, refs, writer, readers, call>>

\* A parked reader that the unlocking writer let in wakes up.
Wake(p) ==
  /\ pc[p] = "parked"
  /\ p \in readers[entry[p]]
  /\ Goto(p, "held")
  /\ UNCHANGED <<m, refs, mutex, call>>

\* Mutant: the writer leaves, the readers it parked stay parked.
UnlockWriter_ForgetsParked(p) ==
  /\ pc[p] = "held" /\ mode[p] = "W"
  /\ writer' = [writer EXCEPT ![entry[p]] = Nil]
  /\ Goto(p, "unlocked")
  /\ UNCHANGED <<m, refs, readers, parked, call>>

\* e.rw.Unlock: every parked reader gets in.
UnlockWriter(p) ==
  /\ pc[p] = "held" /\ mode[p] = "W"
  /\ writer' = [writer EXCEPT ![entry[p]] = Nil]
  /\ readers' = [readers EXCEPT ![entry[p]] = parked[entry[p]]]
  /\ parked' = [parked EXCEPT ![entry[p]] = {}]
  /\ Goto(p, "unlocked")
  /\ UNCHANGED <<m, refs, call>>

\* e.rw.RUnlock.
UnlockReader(p) ==
  /\ pc[p] = "held" /\ mode[p] = "R"
  /\ readers' = [readers EXCEPT ![entry[p]] = @ \ {p}]
  /\ Goto(p, "unlocked")
  /\ UNCHANGED <<m, refs, writer, parked, call>>

\* Mutant: release deletes the entry without looking at its references.
Release_DropsShared(p) ==
  /\ pc[p] = "unlocked"
  /\ refs' = IF m[name[p]] = Nil THEN refs
             ELSE [refs EXCEPT ![m[name[p]]] = @ - 1]
  /\ m' = [m EXCEPT ![name[p]] = Nil]
  /\ Goto(p, "idle")
  /\ entry' = [entry EXCEPT ![p] = Nil]
  /\ UNCHANGED <<mutex, name, mode>>

\* Mutant: release only counts down, the idle entry stays in the map.
Release_Leaks(p) ==
  /\ pc[p] = "unlocked"
  /\ refs' = [refs EXCEPT ![entry[p]] = @ - 1]
  /\ Goto(p, "idle")
  /\ entry' = [entry EXCEPT ![p] = Nil]
  /\ UNCHANGED <<m, mutex, name, mode>>

\* release looks the entry up again by name, and drops it with its last user.
Release(p) ==
  /\ pc[p] = "unlocked"
  /\ LET n == name[p]
         e == m[n]
     IN IF e = Nil
          THEN UNCHANGED <<m, refs>>
          ELSE /\ refs' = [refs EXCEPT ![e] = @ - 1]
               /\ m' = IF refs[e] = 1 THEN [m EXCEPT ![n] = Nil] ELSE m
  /\ Goto(p, "idle")
  /\ entry' = [entry EXCEPT ![p] = Nil]
  /\ UNCHANGED <<mutex, name, mode>>

Next ==
  \E p \in Procs :
    \/ \E n \in Names, md \in {"R", "W"} : Acquire(p, n, md)
    \/ Announce(p)
    \/ EnterWriter(p)
    \/ EnterReader(p)
    \/ Park(p)
    \/ Wake(p)
    \/ UnlockWriter(p)
    \/ UnlockReader(p)
    \/ Release(p)

Spec == Init /\ [][Next]_vars

\* What a goroutine does on its own once it has asked for a lock.
Step(p) ==
  \/ EnterWriter(p)
  \/ EnterReader(p)
  \/ Park(p)
  \/ Wake(p)
  \/ UnlockWriter(p)
  \/ UnlockReader(p)
  \/ Release(p)

\* The scheduler runs every goroutine, every unlock is deferred, and the inner
\* sync.Mutex of an RWMutex hands itself to a starving writer.
Fairness == \A p \in Procs : WF_vars(Step(p)) /\ SF_vars(Announce(p))

FairSpec == Spec /\ Fairness

-----------------------------------------------------------------------------
(***************************************************************************)
(* Properties                                                              *)
(***************************************************************************)

PCs == {"idle", "acquired", "announced", "parked", "held", "unlocked"}

\* Every variable has its type; in particular a reference count never goes
\* below zero (lock.go: refs-- in release).
TypeOK ==
  /\ m \in [Names -> Entries \cup {Nil}]
  /\ refs \in [Entries -> Nat]
  /\ writer \in [Entries -> Procs \cup {Nil}]
  /\ readers \in [Entries -> SUBSET Procs]
  /\ parked \in [Entries -> SUBSET Procs]
  /\ pc \in [Procs -> PCs]
  /\ name \in [Procs -> Names]
  /\ mode \in [Procs -> {"R", "W"}]
  /\ entry \in [Procs -> Entries \cup {Nil}]

\* How goroutine p holds the lock called n.
Holds == [n \in Names |-> [p \in Procs |->
            IF pc[p] = "held" /\ name[p] = n THEN mode[p] ELSE "free"]]

Abstract == INSTANCE NamedLocks WITH held <- Holds

\* Two goroutines that hold the same name hold it for reading, although the
\* mutex behind a name is thrown away and made again while they run.
Exclusive == Abstract!Exclusive

\* Seen by name, the map of disposable mutexes is one reader/writer lock per
\* name for ever (lock.go: "hands out one reader/writer mutex per name").
ImplementsNamedLocks == Abstract!Spec

\* A name is in the map exactly while somebody uses it, and its entry counts
\* them all (lock.go: "Entries are reference-counted and dropped once idle").
MapIsInFlight ==
  \A n \in Names :
    /\ (m[n] = Nil) <=> (Users(n) = {})
    /\ m[n] # Nil => refs[m[n]] = Cardinality(Users(n))

\* Whoever asks for a lock gets it: a writer is not starved by readers that
\* keep coming, and the readers it parked are let in when it leaves.
EveryLockIsGranted ==
  \A p \in Procs : (pc[p] = "acquired") ~> (pc[p] = "held")
=============================================================================
