-------------------------- MODULE MCDaemonClients --------------------------
(***************************************************************************)
(* Clients that come and go while a turn's worker and its canceller         *)
(* publish.                                                                 *)
(***************************************************************************)
EXTENDS DaemonClients, TLC

Symmetry == Permutations(Client)
=============================================================================
