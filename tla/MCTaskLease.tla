----------------------------- MODULE MCTaskLease -----------------------------
(* Three processes and two tasks: two cleans that overlap and a session, or *)
(* two sessions and a clean that unlinks the lock between them.            *)
EXTENDS TaskLease, TLC

Interchangeable == Permutations(Procs)
=============================================================================
