--------------------------- MODULE MCOutboundGate ---------------------------
(***************************************************************************)
(* The send path: one action that came from no task, two handler threads,   *)
(* two texts, two client requests, crashes and a clock that passes the TTL. *)
(* Five requests are a draft, an interrupted send, its discovery, an        *)
(* acknowledged retry and one more request after that.                      *)
(***************************************************************************)
EXTENDS OutboundAction, TLC

(* Threads, texts and client requests are interchangeable.                 *)
Interchangeable ==
    Permutations(Proc) \cup Permutations(Message) \cup Permutations(RequestId)
=============================================================================
