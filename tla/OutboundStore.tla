--------------------------- MODULE OutboundStore ---------------------------
(***************************************************************************)
(* The record kept for one outbound connector action and the transitions   *)
(* OutboundStore offers on it (puffer-subscriptions/src/outbound_store.rs).*)
(*                                                                         *)
(* Every mutating method takes the file's lock, re-reads the file, changes *)
(* one record and replaces the file by an atomic rename, so each method is *)
(* one transition of one record.  A method is described here by the        *)
(* condition under which it takes a branch and by the record the branch    *)
(* writes; a branch that only returns an error writes nothing.             *)
(***************************************************************************)
EXTENDS Integers

CONSTANTS
    ActionId,    \* ids of outbound actions
    TaskId,      \* ids of monitor tasks
    Message,     \* message texts a human can approve
    RequestId,   \* client_request_id values
    NoValue,     \* the `None` of an Option field
    Ttl          \* time to live of a draft (DEFAULT_TTL_MS)

ASSUME TtlAssumption == Ttl \in Nat
ASSUME NoValueAssumption ==
    NoValue \notin ActionId \cup TaskId \cup Message \cup RequestId

(* "absent": the file holds no record with this id.                        *)
Statuses == {"absent", "draft_ready", "sending", "sent", "failed",
             "uncertain", "cancelled", "expired"}

Terminal == {"sent", "cancelled", "expired"}

Record ==
    [status  : Statuses,
     version : Nat,
     expires : Nat,                         \* expires_at_ms
     message : Message \cup {NoValue},      \* approved_message
     request : RequestId \cup {NoValue},    \* client_request_id
     attempt : Nat,                         \* send_attempt_id, 0 for None
     receipt : BOOLEAN,                     \* receipt is Some
     task    : TaskId \cup {NoValue}]       \* origin.task_id

AbsentRecord ==
    [status |-> "absent", version |-> 0, expires |-> 0, message |-> NoValue,
     request |-> NoValue, attempt |-> 0, receipt |-> FALSE, task |-> NoValue]

-----------------------------------------------------------------------------
(* create_draft: a fresh record in version 1 that lives for Ttl.           *)
NewDraft(task, now) ==
    [AbsentRecord EXCEPT !.status = "draft_ready", !.version = 1,
                         !.expires = now + Ttl, !.task = task]

(* ensure_version and ensure_attempt.                                      *)
VersionMatches(r, v) == r.version = v
AttemptMatches(r, att) == r.attempt = att

(* cancel                                                                  *)
(* Mutant: an interrupted send can be cancelled as if nothing had left.    *)
CanCancelSending(r, v) ==
    /\ VersionMatches(r, v)
    /\ r.status \in {"draft_ready", "failed", "uncertain", "sending"}

CanCancel(r, v) ==
    /\ VersionMatches(r, v)
    /\ r.status \in {"draft_ready", "failed", "uncertain"}

(* Mutant: cancel forgets the version.                                     *)
CancelledInPlace(r) == [r EXCEPT !.status = "cancelled"]

Cancelled(r) == [r EXCEPT !.status = "cancelled", !.version = @ + 1]

-----------------------------------------------------------------------------
(* begin_send.  A retry of a sent action under the same client request is  *)
(* answered from the record, whatever version the caller holds.            *)
IsReplay(r, c) == r.status = "sent" /\ r.request = c

(* A record still "sending" when a later call gets the lock is the trace   *)
(* of an interrupted send: its outcome is unknown.                         *)
IsStale(r, v, c) ==
    ~IsReplay(r, c) /\ VersionMatches(r, v) /\ r.status = "sending"

(* Mutant: a status string the match arms do not know.                     *)
MarkUnknown(r) == [r EXCEPT !.status = "unknown", !.version = @ + 1]

MarkUncertain(r) == [r EXCEPT !.status = "uncertain", !.version = @ + 1]

(* Lazy expiry; a draft in doubt ("uncertain") is not subject to it.       *)
IsOverdue(r, v, c, now) ==
    /\ ~IsReplay(r, c)
    /\ VersionMatches(r, v)
    /\ r.status \in {"draft_ready", "failed"}
    /\ now >= r.expires

MarkExpired(r) == [r EXCEPT !.status = "expired", !.version = @ + 1]

(* Mutant: a retry from "uncertain" needs no acknowledgement.              *)
CanStartUnacknowledged(r, v, c, ack, now) ==
    /\ ~IsReplay(r, c)
    /\ VersionMatches(r, v)
    /\ \/ r.status \in {"draft_ready", "failed"} /\ now < r.expires
       \/ r.status = "uncertain"

CanStart(r, v, c, ack, now) ==
    /\ ~IsReplay(r, c)
    /\ VersionMatches(r, v)
    /\ \/ r.status \in {"draft_ready", "failed"} /\ now < r.expires
       \/ r.status = "uncertain" /\ ack

(* Mutant: a retry keeps the text of the first approval.                   *)
StartSendFirstText(r, m, c, att) ==
    [r EXCEPT !.status = "sending", !.version = @ + 1, !.request = c,
              !.message = IF @ = NoValue THEN m ELSE @, !.attempt = att]

StartSend(r, m, c, att) ==
    [r EXCEPT !.status = "sending", !.version = @ + 1, !.message = m,
              !.request = c, !.attempt = att]

-----------------------------------------------------------------------------
(* finish_send and fail_send.                                              *)
CanSettle(r, att) == r.status = "sending" /\ AttemptMatches(r, att)

FinishSend(r) ==
    [r EXCEPT !.status = "sent", !.version = @ + 1, !.receipt = TRUE]

FailSend(r) == [r EXCEPT !.status = "failed", !.version = @ + 1]
=============================================================================
