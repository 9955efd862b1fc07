---------------------------- MODULE MonitorTasks ----------------------------
(***************************************************************************)
(* monitor_tasks.json as its writers in the daemon see it: one JSON file    *)
(* that each writer reads, edits in memory and writes back with a plain     *)
(* fs::write and no lock.  This module holds the edits; the modules that    *)
(* extend it interleave the reads and the writes.                           *)
(***************************************************************************)
EXTENDS OutboundStore

CONSTANTS
    GatedTask,     \* tasks for which is_human_gated_reply_task is true
    ApprovalTask,  \* ... monitor_task_requires_human_approval
    TypedTask      \* ... monitor_task_is_typed_executable

ASSUME GatedTaskAssumption ==
    /\ GatedTask \subseteq TaskId
    /\ ApprovalTask \subseteq TaskId
    /\ TypedTask \subseteq TaskId

(* A task that is not in the file any more is "deleted".                   *)
Task ==
    [status   : {"pending", "completed", "deleted"},
     ref      : ActionId \cup {NoValue},   \* metadata.outbound_action_id
     receipts : SUBSET ActionId,           \* metadata.action_receipts
     reviewed : BOOLEAN,                   \* no_reply_needed was recorded
     ignored  : BOOLEAN,                   \* metadata.ignored was set
     triaged  : BOOLEAN]                   \* completed_via is a triage turn's

PendingTask ==
    [status |-> "pending", ref |-> NoValue, receipts |-> {},
     reviewed |-> FALSE, ignored |-> FALSE, triaged |-> FALSE]

(* complete_task_with_receipt: the receipt of action a, and completed.     *)
WithReceipt(t, a) ==
    [t EXCEPT !.receipts = @ \cup {a}, !.status = "completed", !.triaged = FALSE]

(* clear_task_outbound_action: only a reference to a itself is removed.    *)
WithoutReference(t, a) ==
    [t EXCEPT !.ref = IF @ = a THEN NoValue ELSE @]

(* write_outbound_action_reference.                                        *)
WithReference(t, a) == [t EXCEPT !.ref = a]

(* Mutant: any caller may complete a gated task.                           *)
MayCompleteUngated(id, t, noReply) == t.status # "completed"

(* handle_monitor_task_complete: a terminal task is left alone; a gated    *)
(* task may only be completed as "no_reply_needed", which is recorded.     *)
MayComplete(id, t, noReply) ==
    t.status # "completed" /\ (noReply \/ id \notin GatedTask)

AsCompleted(t, noReply) ==
    [t EXCEPT !.status = "completed", !.reviewed = @ \/ noReply, !.triaged = FALSE]

(* handle_monitor_task_ignore: no look at the current status.              *)
AsIgnored(t) == [t EXCEPT !.status = "completed", !.ignored = TRUE]

(* Mutant: the turn that reports a task done is not asked for.             *)
MayUpdateUntriaged(id, to, ignored, triage) ==
    to = "completed" /\ ~ignored => id \notin TypedTask

(* execute_task_update: unless it also marks the task ignored, an agent    *)
(* completes no typed task, and a task that requires approval only in a    *)
(* monitor triage turn.                                                    *)
MayUpdate(id, to, ignored, triage) ==
    to = "completed" /\ ~ignored =>
        id \notin TypedTask /\ (triage \/ id \notin ApprovalTask)

(* completed_via is stamped only when this call completes the task.        *)
AsUpdated(t, to, ignored, triage) ==
    IF to = "deleted" THEN [PendingTask EXCEPT !.status = "deleted"]
    ELSE [t EXCEPT !.status = to,
                   !.ignored = @ \/ ignored,
                   !.triaged = IF to = "completed" /\ t.status # to THEN triage ELSE @]
=============================================================================
