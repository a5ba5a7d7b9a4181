---------------------------- MODULE MCKeyedLock ----------------------------
(***************************************************************************)
(* Three goroutines over two names: enough for an entry to be dropped and  *)
(* made again while a third goroutine runs, for a reader to arrive behind  *)
(* an announced writer, and for two names to be in use at once.            *)
(***************************************************************************)
EXTENDS KeyedLock

CONSTANTS g1, g2, g3, a, b, e1, e2, e3

MCProcs   == {g1, g2, g3}
MCNames   == {a, b}
MCEntries == {e1, e2, e3}
=============================================================================
