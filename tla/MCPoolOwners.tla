---------------------------- MODULE MCPoolOwners ----------------------------
(* The pool and its owners for TLC: see the .cfg file for the instance.     *)
EXTENDS PoolOwners

MCTasks == (PoolUsers \X {"stop", "work"}) \cup Others
=============================================================================
