------------------------------ MODULE FileLock ------------------------------
(***************************************************************************)
(* The lock files of the statistics and of the agent registry.             *)
(*                                                                         *)
(* Creating the file takes the lock and removing it gives it back, whoever *)
(* created it.  Nobody owns the file: one that is older than five seconds  *)
(* is removed by whoever waits for it, and between looking at its age and  *)
(* removing it another process may have removed it and locked again.       *)
(***************************************************************************)
VARIABLE lock  \* [held, stale, owner]: whether the file is there, and whose it is

LockType(Procs, Nobody) == [held : BOOLEAN, stale : BOOLEAN, owner : Procs \union {Nobody}]
Unlocked(Nobody) == [held |-> FALSE, stale |-> FALSE, owner |-> Nobody]

\* create_new succeeds.
Take(p) == ~lock.held /\ lock' = [held |-> TRUE, stale |-> FALSE, owner |-> p]

\* Five seconds pass.
Age == lock.held /\ ~lock.stale /\ lock' = [lock EXCEPT !.stale = TRUE]

\* The file is removed, by its owner or by a process that found it stale.
Drop(Nobody) == lock' = Unlocked(Nobody)
=============================================================================
