----------------------- MODULE MCSubscriberCommand -----------------------
(***************************************************************************)
(* Instances of SubscriberCommand for TLC.                                  *)
(***************************************************************************)
EXTENDS SubscriberCommand, TLC

Symmetry == Permutations(Caller) \cup Permutations(Keeper)
=============================================================================
