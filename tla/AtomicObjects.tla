--------------------------- MODULE AtomicObjects ---------------------------
(***************************************************************************)
(* What the store promises of an object to the handlers above it: however  *)
(* many files a store call touches, it takes effect in one instant between *)
(* its beginning and its return, and what it answers is what was there in  *)
(* that instant.  Only an error says nothing of whether a write happened.  *)
(* ObjectStore implements this; ObjectHandlers makes its store calls       *)
(* through it.                                                             *)
(***************************************************************************)
CONSTANTS Procs,      \* goroutines, each in one store call at a time
          Keys,
          Versions,   \* what an object is: records with the bytes in field body
          NoObject,
          Unanswered, \* a call that has not taken effect, or no call at all
          Done, Refused \* the answers of a call that wrote, or that failed

VARIABLES object, \* object[k]: the version at key k, or NoObject
          answer  \* answer[p]: what the call of goroutine p will return

vars == <<object, answer>>

Answer(p, a) ==
  /\ answer[p] = Unanswered
  /\ answer' = [answer EXCEPT ![p] = a]

Init ==
  /\ object \in [Keys -> Versions \cup {NoObject}]
  /\ answer = [p \in Procs |-> Unanswered]

\* HeadObject: all that is known of an object.
Head(p, k) == Answer(p, object[k]) /\ UNCHANGED object

\* GetObject: the bytes it opened.
Get(p, k) ==
  /\ Answer(p, IF object[k] = NoObject THEN NoObject ELSE object[k].body)
  /\ UNCHANGED object

\* PutObject, and the copy of an object onto itself.
Put(p, k, v) ==
  /\ Answer(p, Done)
  /\ object' = [object EXCEPT ![k] = v]

\* DeleteObject; the object may be absent.
Delete(p, k) ==
  /\ Answer(p, Done)
  /\ object' = [object EXCEPT ![k] = NoObject]

\* A call that fails before it has changed anything ...
Refuse(p) == Answer(p, Refused) /\ UNCHANGED object

\* ... and a PutObject that fails when the file is in place, at its stat or its
\* sidecar: the caller is told of an error and the object is the new one.
FailLate(p) ==
  /\ answer[p] = Done
  /\ answer' = [answer EXCEPT ![p] = Refused]
  /\ UNCHANGED object

Return(p) ==
  /\ answer' = [answer EXCEPT ![p] = Unanswered]
  /\ UNCHANGED object

Next == \E p \in Procs :
  \/ \E k \in Keys : \/ Head(p, k) \/ Get(p, k) \/ Delete(p, k)
                     \/ object'[k] \in Versions /\ Put(p, k, object'[k])
  \/ Refuse(p)
  \/ FailLate(p)
  \/ Return(p)

Spec == Init /\ [][Next]_vars
=============================================================================
