-------------------------- MODULE MCOutboundTasks --------------------------
(***************************************************************************)
(* The task write-back: two actions, two human-gated tasks of which one is  *)
(* typed, two threads whose rewrites of monitor_tasks.json overlap, crashes *)
(* in the middle of a rewrite.  One text and one client request suffice.    *)
(***************************************************************************)
EXTENDS OutboundAction, TLC

(* Threads and action ids are interchangeable.                             *)
Interchangeable == Permutations(Proc) \cup Permutations(ActionId)
=============================================================================
