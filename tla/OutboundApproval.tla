-------------------------- MODULE OutboundApproval --------------------------
(***************************************************************************)
(* What the outbound gate promises, without stores, locks or threads: a     *)
(* message leaves only under a human approval, each approval is good for    *)
(* one transmission of exactly the approved text, and once an action is     *)
(* confirmed or closed nothing is transmitted for it any more.              *)
(***************************************************************************)
EXTENDS Sequences

CONSTANTS ActionId, Message, NoValue

VARIABLES
    phase,     \* none, open, granted, spent, done or closed
    grant,     \* the text of the last approval
    wire       \* the transmissions, in order

avars == <<phase, grant, wire>>

AInit ==
    /\ phase = [a \in ActionId |-> "none"]
    /\ grant = [a \in ActionId |-> NoValue]
    /\ wire = <<>>

Move(a, from, to) ==
    /\ phase[a] \in from
    /\ phase' = [phase EXCEPT ![a] = to]

(* The model proposes a message. *)
Propose(a) == Move(a, {"none"}, "open") /\ UNCHANGED <<grant, wire>>

(* A human approves the text m. *)
Approve(a, m) ==
    /\ Move(a, {"open"}, "granted")
    /\ grant' = [grant EXCEPT ![a] = m]
    /\ UNCHANGED wire

(* The approval is used up. *)
Transmit(a) ==
    /\ Move(a, {"granted"}, "spent")
    /\ wire' = Append(wire, <<a, grant[a]>>)
    /\ UNCHANGED grant

Confirm(a) == Move(a, {"spent"}, "done") /\ UNCHANGED <<grant, wire>>

(* A failed or interrupted send needs a new approval. *)
Reopen(a) == Move(a, {"granted", "spent"}, "open") /\ UNCHANGED <<grant, wire>>

(* Cancelled or expired. *)
Close(a) == Move(a, {"open"}, "closed") /\ UNCHANGED <<grant, wire>>

ANext ==
    \E a \in ActionId :
        \/ Propose(a) \/ Transmit(a) \/ Confirm(a) \/ Reopen(a) \/ Close(a)
        \/ \E m \in Message : Approve(a, m)

ASpec == AInit /\ [][ANext]_avars
=============================================================================
