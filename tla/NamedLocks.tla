----------------------------- MODULE NamedLocks -----------------------------
(***************************************************************************)
(* What a keyed reader/writer lock promises to the code that uses it: for  *)
(* each name, either any number of goroutines hold it for reading or one   *)
(* goroutine holds it for writing.  KeyedLock implements this; ObjectStore *)
(* takes its per-object locks from it.                                     *)
(***************************************************************************)
CONSTANTS Procs,   \* goroutines
          Names    \* names that can be locked (bucket + NUL + key)

VARIABLE held      \* held[n][p]: how goroutine p holds the lock named n

Modes == {"R", "W"}

Free == [n \in Names |-> [p \in Procs |-> "free"]]

\* A writer excludes everybody else, a reader excludes writers only.
Compatible(mode, other) == other = "free" \/ (mode = "R" /\ other = "R")

Grant(p, n, mode) ==
  /\ held[n][p] = "free"
  /\ \A q \in Procs \ {p} : Compatible(mode, held[n][q])
  /\ held' = [held EXCEPT ![n][p] = mode]

Drop(p, n) ==
  /\ held[n][p] \in Modes
  /\ held' = [held EXCEPT ![n][p] = "free"]

Init == held = Free

Next == \E p \in Procs, n \in Names :
          \/ \E mode \in Modes : Grant(p, n, mode)
          \/ Drop(p, n)

Spec == Init /\ [][Next]_held

-----------------------------------------------------------------------------

TypeOK == held \in [Names -> [Procs -> Modes \cup {"free"}]]

\* Mutual exclusion: whoever writes under a name is alone under that name.
Exclusive ==
  \A n \in Names : \A p, q \in Procs :
    p # q /\ held[n][p] = "W" => held[n][q] = "free"
=============================================================================
