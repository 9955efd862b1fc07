--------------------------- MODULE MCEventIngest ---------------------------
(***************************************************************************)
(* Instances of EventIngest: a few positions, one binding of each kind, and *)
(* the faults each run is about.                                            *)
(***************************************************************************)
EXTENDS EventIngest, TLC

(* The second binding does not want the last event.                        *)
LastUnwanted == {<<2, Last>>}

Threads == Permutations(Worker)
=============================================================================
