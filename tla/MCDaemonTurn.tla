--------------------------- MODULE MCDaemonTurn ---------------------------
(***************************************************************************)
(* Instances of DaemonTurn for TLC.                                         *)
(***************************************************************************)
EXTENDS DaemonTurn, TLC

(* Turns, tasks and cancelling threads are interchangeable.                 *)
Symmetry == Permutations(Turn) \cup Permutations(Task) \cup Permutations(Canceller)
=============================================================================
