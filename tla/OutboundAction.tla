--------------------------- MODULE OutboundAction ---------------------------
(***************************************************************************)
(* The outbound approval gate of the daemon: the execute and cancel RPCs    *)
(* of daemon_workflows/outbound_action.rs over the OutboundStore, the       *)
(* ConnectorActionDraft tool that feeds it, the connector that finally      *)
(* sends, and the write-back into monitor_tasks.json, which two more RPCs   *)
(* (monitor_task_complete, monitor_task_ignore) and the agent's TaskUpdate  *)
(* tool also write.                                                         *)
(*                                                                         *)
(* Each RPC runs on a thread of its own (run_off_runtime).  execute and     *)
(* cancel hold one lock per action from before the store is read until the  *)
(* handler returns.  The process may crash between any two steps: threads   *)
(* and locks vanish, the two files survive.                                 *)
(***************************************************************************)
EXTENDS MonitorTasks, Sequences

CONSTANTS
    Proc,         \* threads that run handlers
    NoProc,       \* holder of a free lock
    Malformed,    \* actions whose input execute_trigger rejects
    Crashes,      \* whether the process may crash or fail to write the store
    MaxNow,       \* bound: the wall clock ranges over 0..MaxNow
    MaxRequests   \* bound: number of RPCs and tool calls

ASSUME NoProcAssumption == NoProc \notin Proc
ASSUME MalformedAssumption == Malformed \subseteq ActionId
ASSUME BoundsAssumption ==
    MaxNow \in Nat /\ MaxRequests \in Nat /\ Crashes \in BOOLEAN

VARIABLES
    now,        \* wall clock (now_ms); it may also step backwards
    actions,    \* outbound_actions.json
    tasks,      \* monitor_tasks.json: its content, as last completely written
    torn,       \* monitor_tasks.json is truncated and not yet rewritten
    lock,       \* ACTION_LOCKS: the thread that holds each action's lock
    pc,         \* where each thread is in its handler
    req,        \* the parameters of each thread's request
    att,        \* the send_attempt_id each thread got from begin_send
    snap,       \* each thread's edited copy of monitor_tasks.json
    shown,      \* actions whose id a client has been given
    requests,   \* number of requests so far
    attempts    \* number of attempt ids minted so far

(* History variables: they record what happened, no step reads them.       *)
VARIABLES
    wire,       \* what the connector was asked to send, in order
    called,     \* the connector was called for the current approval
    delivered,  \* how often a message of the action left the connector
    late,       \* how often it left although the connector reported an error
    acks,       \* how often a human accepted the risk of a duplicate
    doubt       \* the outcome of a send was once recorded as uncertain

files   == <<actions, tasks, torn>>
threads == <<lock, pc, req, att, snap>>
history == <<wire, called, delivered, late, acks, doubt>>
vars    == <<now, files, threads, shown, requests, attempts, history>>

Ops == {"none", "execute", "cancel", "draft", "complete", "ignore", "update"}

Request ==
    [op      : Ops,
     action  : ActionId \cup {NoValue},
     version : Nat,
     message : Message \cup {NoValue},
     request : RequestId \cup {NoValue},
     ack     : BOOLEAN,                 \* duplicate_risk_ack / no_reply_needed /
                                        \* metadata.ignored of TaskUpdate
     task    : TaskId \cup {NoValue},
     to      : {"pending", "completed", "deleted"},  \* status of TaskUpdate
     triage  : BOOLEAN]                 \* state.monitor_triage_turn

NoRequest ==
    [op |-> "none", action |-> NoValue, version |-> 0, message |-> NoValue,
     request |-> NoValue, ack |-> FALSE, task |-> NoValue,
     to |-> "pending", triage |-> FALSE]

Places == {"idle", "waiting", "ready", "finishing", "failing",
           "reading", "truncating", "writing", "overlaying"}

(* Where execute owns a send: from begin_send to finish_send or fail_send. *)
Window == {"ready", "finishing", "failing"}

BlankTasks == [t \in TaskId |-> PendingTask]

Init ==
    /\ now = 0
    /\ actions = [a \in ActionId |-> AbsentRecord]
    /\ tasks = BlankTasks
    /\ torn = FALSE
    /\ lock = [a \in ActionId |-> NoProc]
    /\ pc = [p \in Proc |-> "idle"]
    /\ req = [p \in Proc |-> NoRequest]
    /\ att = [p \in Proc |-> 0]
    /\ snap = [p \in Proc |-> BlankTasks]
    /\ shown = {}
    /\ requests = 0
    /\ attempts = 0
    /\ wire = <<>>
    /\ called = [a \in ActionId |-> FALSE]
    /\ delivered = [a \in ActionId |-> 0]
    /\ late = [a \in ActionId |-> 0]
    /\ acks = [a \in ActionId |-> 0]
    /\ doubt = [a \in ActionId |-> FALSE]

-----------------------------------------------------------------------------
(* Pieces shared by the handlers.                                          *)

Act(p) == req[p].action

(* Mutant: the lock survives the handler.                                  *)
ForgetLocked(p) ==
    /\ req' = [req EXCEPT ![p] = NoRequest]
    /\ att' = [att EXCEPT ![p] = 0]
    /\ snap' = [snap EXCEPT ![p] = BlankTasks]
    /\ UNCHANGED lock

(* The handler returns: its guard drops the action lock.                   *)
Forget(p) ==
    /\ req' = [req EXCEPT ![p] = NoRequest]
    /\ att' = [att EXCEPT ![p] = 0]
    /\ lock' = [a \in ActionId |-> IF lock[a] = p THEN NoProc ELSE lock[a]]
    /\ snap' = [snap EXCEPT ![p] = BlankTasks]

Return(p) == pc' = [pc EXCEPT ![p] = "idle"] /\ Forget(p)

Goto(p, place) ==
    /\ pc' = [pc EXCEPT ![p] = place]
    /\ UNCHANGED <<lock, req, att, snap>>

(* After a store update: the task write-back if the action came from a     *)
(* task, else the handler returns.                                         *)
WriteBackOrReturn(p) ==
    \/ actions[Act(p)].task # NoValue /\ Goto(p, "reading")
    \/ actions[Act(p)].task = NoValue /\ Return(p)

Arrive(p, r, place) ==
    /\ pc[p] = "idle"
    /\ requests < MaxRequests
    /\ requests' = requests + 1
    /\ pc' = [pc EXCEPT ![p] = place]
    /\ req' = [req EXCEPT ![p] = r]
    /\ UNCHANGED <<lock, att, snap, attempts, now, history>>

Store(a, record) == actions' = [actions EXCEPT ![a] = record]

-----------------------------------------------------------------------------
(* Requests.  A client knows an action once the tool that drafted it has   *)
(* returned its id, and names a version it has seen, perhaps an old one.   *)

ExecuteRequest(p) ==
    \E a \in shown, m \in Message, c \in RequestId, ack \in BOOLEAN :
        \E v \in 1..actions[a].version :
            /\ Arrive(p, [NoRequest EXCEPT !.op = "execute", !.action = a,
                              !.version = v, !.message = m,
                              !.request = c, !.ack = ack], "waiting")
            /\ UNCHANGED <<files, shown>>

CancelRequest(p) ==
    \E a \in shown :
        \E v \in 1..actions[a].version :
            /\ Arrive(p, [NoRequest EXCEPT !.op = "cancel", !.action = a,
                              !.version = v], "waiting")
            /\ UNCHANGED <<files, shown>>

(* ConnectorActionDraft without a task: create_draft is all there is.      *)
DraftFree(p) ==
    \E a \in ActionId :
        /\ actions[a].status = "absent"
        /\ Store(a, NewDraft(NoValue, now))
        /\ shown' = shown \cup {a}
        /\ Arrive(p, NoRequest, "idle")
        /\ UNCHANGED <<tasks, torn>>

(* Mutant: the error of a failed create_draft is not looked at.            *)
DraftUnstored(p) ==
    \E a \in ActionId, t \in TaskId :
        /\ actions[a].status = "absent"
        /\ ~torn
        /\ tasks[t].status # "deleted"
        /\ Arrive(p, [NoRequest EXCEPT !.op = "draft", !.action = a,
                          !.task = t], "reading")
        /\ UNCHANGED <<files, shown>>

(* ConnectorActionDraft for a task: the task is read first (a truncated    *)
(* file or a deleted task fails the tool), then the draft is created, then *)
(* referenced.                                                             *)
DraftForTask(p) ==
    \E a \in ActionId, t \in TaskId :
        /\ actions[a].status = "absent"
        /\ ~torn
        /\ tasks[t].status # "deleted"
        /\ Store(a, NewDraft(t, now))
        /\ Arrive(p, [NoRequest EXCEPT !.op = "draft", !.action = a,
                          !.task = t], "reading")
        /\ UNCHANGED <<tasks, torn, shown>>

CompleteRequest(p) ==
    \E t \in TaskId, noReply \in BOOLEAN :
        /\ Arrive(p, [NoRequest EXCEPT !.op = "complete", !.task = t,
                          !.ack = noReply], "reading")
        /\ UNCHANGED <<files, shown>>

IgnoreRequest(p) ==
    \E t \in TaskId :
        /\ Arrive(p, [NoRequest EXCEPT !.op = "ignore", !.task = t], "reading")
        /\ UNCHANGED <<files, shown>>

(* TaskUpdate, from an agent turn: task_update_store_path has found the    *)
(* task in the monitor file.  Of the statuses "pending" stands for all     *)
(* that are not completed, of the metadata only "ignored" is given; what a *)
(* deletion or a reopening does not look at is left FALSE.                 *)
UpdateRequest(p) ==
    \E t \in TaskId, to \in {"pending", "completed", "deleted"},
       ignored \in BOOLEAN, triage \in BOOLEAN :
        /\ triage => to = "completed"
        /\ ignored => to # "deleted"
        /\ ~torn
        /\ tasks[t].status # "deleted"
        /\ Arrive(p, [NoRequest EXCEPT !.op = "update", !.task = t, !.to = to,
                          !.ack = ignored, !.triage = triage], "reading")
        /\ UNCHANGED <<files, shown>>

-----------------------------------------------------------------------------
(* execute, under the action lock.  begin_send has five outcomes.          *)

(* Mutant: no per-action lock, as before #561.                             *)
HasNoLock(p, op) == pc[p] = "waiting" /\ req[p].op = op

HasLock(p, op) ==
    /\ pc[p] = "waiting"
    /\ req[p].op = op
    /\ lock[Act(p)] = NoProc

(* Replay of a sent action, and every error of begin_send that writes      *)
(* nothing: wrong version, terminal action, risk not acknowledged.         *)
AnswerOnly(p) ==
    LET r == actions[Act(p)]
        q == req[p]
    IN  /\ HasLock(p, "execute")
        /\ ~IsStale(r, q.version, q.request)
        /\ ~IsOverdue(r, q.version, q.request, now)
        /\ ~CanStart(r, q.version, q.request, q.ack, now)
        /\ Return(p)
        /\ UNCHANGED <<now, files, shown, requests, attempts, history>>

FoundStale(p) ==
    LET r == actions[Act(p)]
        q == req[p]
    IN  /\ HasLock(p, "execute")
        /\ IsStale(r, q.version, q.request)
        /\ Store(Act(p), MarkUncertain(r))
        /\ doubt' = [doubt EXCEPT ![Act(p)] = TRUE]
        /\ Return(p)
        /\ UNCHANGED <<now, tasks, torn, shown, requests, attempts,
                       wire, called, delivered, late, acks>>

(* The task's reference to the expired action is not touched.              *)
FoundOverdue(p) ==
    LET r == actions[Act(p)]
        q == req[p]
    IN  /\ HasLock(p, "execute")
        /\ IsOverdue(r, q.version, q.request, now)
        /\ Store(Act(p), MarkExpired(r))
        /\ Return(p)
        /\ UNCHANGED <<now, tasks, torn, shown, requests, attempts, history>>

BeginSend(p) ==
    LET r == actions[Act(p)]
        q == req[p]
    IN  /\ HasLock(p, "execute")
        /\ CanStart(r, q.version, q.request, q.ack, now)
        /\ Store(Act(p), StartSend(r, q.message, q.request, attempts + 1))
        /\ attempts' = attempts + 1
        /\ lock' = [lock EXCEPT ![Act(p)] = p]
        /\ pc' = [pc EXCEPT ![p] = "ready"]
        /\ att' = [att EXCEPT ![p] = attempts + 1]
        /\ called' = [called EXCEPT ![Act(p)] = FALSE]
        /\ acks' = IF r.status = "uncertain" /\ q.ack
                   THEN [acks EXCEPT ![Act(p)] = @ + 1] ELSE acks
        /\ UNCHANGED <<now, tasks, torn, req, snap, shown, requests,
                       wire, delivered, late, doubt>>

(* input_with_approved_message or execute_trigger fails: `?` leaves the    *)
(* handler with the record still in "sending".                             *)
PrepareFails(p) ==
    /\ pc[p] = "ready"
    /\ Act(p) \in Malformed
    /\ Return(p)
    /\ UNCHANGED <<now, files, shown, requests, attempts, history>>

(* The connector is asked to send the approved text.  The message may      *)
(* leave and be confirmed, not leave, or leave while an error (a timeout)  *)
(* is reported.                                                            *)
CallConnector(p) ==
    \E left \in BOOLEAN, ok \in BOOLEAN :
        /\ pc[p] = "ready"
        /\ Act(p) \notin Malformed
        /\ ok => left
        /\ wire' = Append(wire, <<Act(p), req[p].message>>)
        /\ called' = [called EXCEPT ![Act(p)] = TRUE]
        /\ delivered' = IF left THEN [delivered EXCEPT ![Act(p)] = @ + 1]
                                ELSE delivered
        /\ late' = IF left /\ ~ok THEN [late EXCEPT ![Act(p)] = @ + 1] ELSE late
        /\ Goto(p, IF ok THEN "finishing" ELSE "failing")
        /\ UNCHANGED <<now, files, shown, requests, attempts, acks, doubt>>

(* finish_send and fail_send.  Their errors (not sending, other attempt)   *)
(* need no action: SettleNeverRejected shows that they cannot occur.       *)
Finish(p) ==
    /\ pc[p] = "finishing"
    /\ CanSettle(actions[Act(p)], att[p])
    /\ Store(Act(p), FinishSend(actions[Act(p)]))
    /\ WriteBackOrReturn(p)
    /\ UNCHANGED <<now, tasks, torn, shown, requests, attempts, history>>

Fail(p) ==
    /\ pc[p] = "failing"
    /\ CanSettle(actions[Act(p)], att[p])
    /\ Store(Act(p), FailSend(actions[Act(p)]))
    /\ Return(p)
    /\ UNCHANGED <<now, tasks, torn, shown, requests, attempts, history>>

(* Mutant: the handler goes on after a failed finish_send.                 *)
SettleIgnored(p) ==
    /\ Crashes
    /\ pc[p] \in {"finishing", "failing"}
    /\ WriteBackOrReturn(p)
    /\ UNCHANGED <<now, files, shown, requests, attempts, history>>

(* The store file cannot be written: the RPC reports an error and the      *)
(* record stays in "sending".                                              *)
SettleLost(p) ==
    /\ Crashes
    /\ pc[p] \in {"finishing", "failing"}
    /\ Return(p)
    /\ UNCHANGED <<now, files, shown, requests, attempts, history>>

-----------------------------------------------------------------------------
(* cancel, under the same lock.                                            *)

RefuseCancel(p) ==
    /\ HasLock(p, "cancel")
    /\ ~CanCancel(actions[Act(p)], req[p].version)
    /\ Return(p)
    /\ UNCHANGED <<now, files, shown, requests, attempts, history>>

CancelDraft(p) ==
    /\ HasLock(p, "cancel")
    /\ CanCancel(actions[Act(p)], req[p].version)
    /\ Store(Act(p), Cancelled(actions[Act(p)]))
    /\ \/ /\ actions[Act(p)].task # NoValue
          /\ pc' = [pc EXCEPT ![p] = "reading"]
          /\ lock' = [lock EXCEPT ![Act(p)] = p]
          /\ UNCHANGED <<req, att, snap>>
       \/ actions[Act(p)].task = NoValue /\ Return(p)
    /\ UNCHANGED <<now, tasks, torn, shown, requests, attempts, history>>

-----------------------------------------------------------------------------
(* The read-modify-write of monitor_tasks.json at the end of each handler. *)

TaskOf(p) ==
    IF req[p].op \in {"execute", "cancel"} THEN actions[Act(p)].task
                                           ELSE req[p].task

(* Every handler fails if the task is gone; complete leaves a task alone   *)
(* that is terminal or needs a human.                                      *)
Writes(p) ==
    /\ tasks[TaskOf(p)].status # "deleted"
    /\ req[p].op = "complete" => MayComplete(TaskOf(p), tasks[TaskOf(p)], req[p].ack)
    /\ req[p].op = "update" => MayUpdate(TaskOf(p), req[p].to, req[p].ack, req[p].triage)

Edited(p, t) ==
    CASE req[p].op = "execute"  -> WithReceipt(t, Act(p))
      [] req[p].op = "cancel"   -> WithoutReference(t, Act(p))
      [] req[p].op = "draft"    -> WithReference(t, Act(p))
      [] req[p].op = "complete" -> AsCompleted(t, req[p].ack)
      [] req[p].op = "update"   -> AsUpdated(t, req[p].to, req[p].ack, req[p].triage)
      [] OTHER                  -> AsIgnored(t)

ReadTasks(p) ==
    /\ pc[p] = "reading"
    /\ ~torn
    /\ Writes(p)
    /\ snap' = [snap EXCEPT ![p] = [tasks EXCEPT ![TaskOf(p)] = Edited(p, @)]]
    /\ pc' = [pc EXCEPT ![p] = "truncating"]
    /\ UNCHANGED <<now, files, lock, req, att, shown, requests, attempts, history>>

(* A truncated file does not parse; the error is logged or returned.       *)
ReadFails(p) ==
    /\ pc[p] = "reading"
    /\ torn \/ ~Writes(p)
    /\ Return(p)
    /\ UNCHANGED <<now, files, shown, requests, attempts, history>>

(* fs::write truncates the file when it opens it ...                       *)
TruncateTasks(p) ==
    /\ pc[p] = "truncating"
    /\ torn' = TRUE
    /\ pc' = [q \in Proc |->
                IF q = p \/ pc[q] = "overlaying" THEN "writing" ELSE pc[q]]
    /\ UNCHANGED <<lock, req, att, snap>>
    /\ UNCHANGED <<now, actions, tasks, shown, requests, attempts, history>>

(* ... and then writes the whole content from the start of the file.  When *)
(* another thread's content went in since the truncation and is longer,    *)
(* its tail remains and the file does not parse.                           *)
WriteTasks(p) ==
    /\ pc[p] \in {"writing", "overlaying"}
    /\ tasks' = snap[p]
    /\ torn' \in {FALSE, pc[p] = "overlaying"}
    /\ shown' = IF req[p].op = "draft" THEN shown \cup {Act(p)} ELSE shown
    /\ pc' = [q \in Proc |-> CASE q = p -> "idle"
                              [] q # p /\ pc[q] = "writing" -> "overlaying"
                              [] OTHER -> pc[q]]
    /\ Forget(p)
    /\ UNCHANGED <<now, actions, requests, attempts, history>>

-----------------------------------------------------------------------------
(* The environment.                                                        *)

Crash ==
    /\ Crashes
    /\ \E p \in Proc : pc[p] # "idle"
    /\ pc' = [p \in Proc |-> "idle"]
    /\ req' = [p \in Proc |-> NoRequest]
    /\ att' = [p \in Proc |-> 0]
    /\ snap' = [p \in Proc |-> BlankTasks]
    /\ lock' = [a \in ActionId |-> NoProc]
    /\ UNCHANGED <<now, files, shown, requests, attempts, history>>

Clock ==
    /\ now' \in 0..MaxNow
    /\ UNCHANGED <<files, threads, shown, requests, attempts, history>>

Handler(p) ==
    \/ AnswerOnly(p) \/ FoundStale(p) \/ FoundOverdue(p) \/ BeginSend(p)
    \/ PrepareFails(p) \/ CallConnector(p)
    \/ Finish(p) \/ Fail(p) \/ SettleLost(p)
    \/ RefuseCancel(p) \/ CancelDraft(p)
    \/ ReadTasks(p) \/ ReadFails(p) \/ TruncateTasks(p) \/ WriteTasks(p)

Arrival(p) ==
    \/ ExecuteRequest(p) \/ CancelRequest(p) \/ DraftFree(p)
    \/ DraftForTask(p) \/ CompleteRequest(p) \/ IgnoreRequest(p) \/ UpdateRequest(p)

Next ==
    \/ \E p \in Proc : Arrival(p) \/ Handler(p)
    \/ Crash
    \/ Clock

Spec == Init /\ [][Next]_vars

(* A handler that has started keeps running; requests, crashes and the     *)
(* clock are not forced.                                                   *)
Fairness == \A p \in Proc : WF_vars(Handler(p))

FairSpec == Spec /\ Fairness

-----------------------------------------------------------------------------
(* Types: every variable holds what the code can store in it.              *)
TypeOK ==
    /\ now \in Nat
    /\ actions \in [ActionId -> Record]
    /\ tasks \in [TaskId -> Task]
    /\ torn \in BOOLEAN
    /\ lock \in [ActionId -> Proc \cup {NoProc}]
    /\ pc \in [Proc -> Places]
    /\ req \in [Proc -> Request]
    /\ att \in [Proc -> Nat]
    /\ snap \in [Proc -> [TaskId -> Task]]
    /\ shown \subseteq ActionId
    /\ requests \in Nat
    /\ attempts \in Nat
    /\ wire \in Seq(ActionId \X Message)
    /\ called \in [ActionId -> BOOLEAN]
    /\ delivered \in [ActionId -> Nat]
    /\ late \in [ActionId -> Nat]
    /\ acks \in [ActionId -> Nat]
    /\ doubt \in [ActionId -> BOOLEAN]

(* A thread that comes back from the connector always finds its own send   *)
(* in the store: finish_send and fail_send never bail with "cannot finish  *)
(* send" or outbound_action_attempt_mismatch, whatever the other threads   *)
(* did meanwhile.  This is what holding the action lock across the call    *)
(* is for (outbound_action.rs:96, #561).                                   *)
SettleNeverRejected ==
    \A p \in Proc : pc[p] \in {"finishing", "failing"} =>
        CanSettle(actions[Act(p)], att[p])

(* A second copy of a message leaves only if a human accepted the risk     *)
(* (duplicate_risk_ack), or the connector reported an error for a message  *)
(* that did leave: crashes, retries, replays and concurrent RPCs alone     *)
(* never duplicate a send.                                                 *)
DuplicatesAcknowledged ==
    \A a \in ActionId : delivered[a] <= 1 + acks[a] + late[a]

(* An action shown as draft, failed, cancelled or expired has sent         *)
(* nothing, unless its record once said "uncertain" or the connector       *)
(* reported an error for a message that did leave.  In particular a user   *)
(* is not told "cancelled" about a message that went out (#561).           *)
UnsentUnlessInDoubt ==
    \A a \in ActionId :
        /\ actions[a].status \in {"draft_ready", "failed", "cancelled", "expired"}
        /\ ~doubt[a]
        /\ late[a] = 0
        => delivered[a] = 0

(* Every change of a record moves its version by one, and a record that is *)
(* sent, cancelled or expired never changes again: a version a client has  *)
(* seen stands for one state of the record for ever.                       *)
RecordsAdvance ==
    [][\A a \in ActionId : actions'[a] # actions[a] =>
          /\ actions'[a].version = actions[a].version + 1
          /\ actions[a].status \notin Terminal]_vars

(* A receipt in a task is the receipt of an action drafted for that task   *)
(* and recorded as sent, although the task file is rewritten from stale    *)
(* copies.                                                                 *)
ReceiptMeansSent ==
    \A t \in TaskId : \A a \in tasks[t].receipts :
        actions[a].status = "sent" /\ actions[a].task = t

(* A task only refers to an action that the store holds for this task: a   *)
(* crash between the two files leaves at worst a draft without reference.  *)
ReferenceExists ==
    \A t \in TaskId : tasks[t].ref # NoValue =>
        /\ actions[tasks[t].ref].status # "absent"
        /\ actions[tasks[t].ref].task = t

(* A task that both gates hold back for a human has, once it is completed, *)
(* a ground: a send receipt, the decision that no reply is needed, its     *)
(* being ignored, or, unless it is typed, the report of a monitor triage   *)
(* turn (state.rs:341, "the message is the human action").  No stale copy, *)
(* reopening or order of the writers completes it otherwise.               *)
GatedCompletionGrounded ==
    \A t \in GatedTask \cap ApprovalTask : tasks[t].status = "completed" =>
        \/ tasks[t].receipts # {} \/ tasks[t].reviewed \/ tasks[t].ignored
        \/ tasks[t].triaged /\ t \notin TypedTask

(* Every handler returns: no thread waits for an action lock for ever.     *)
Served == \A p \in Proc : pc[p] # "idle" ~> pc[p] = "idle"

-----------------------------------------------------------------------------
(* The gate implements OutboundApproval.                                   *)
Phase(a) ==
    CASE actions[a].status = "absent" -> "none"
      [] actions[a].status \in {"draft_ready", "failed", "uncertain"} -> "open"
      [] actions[a].status = "sending" -> IF called[a] THEN "spent" ELSE "granted"
      [] actions[a].status = "sent" -> "done"
      [] OTHER -> "closed"

phaseBar == [a \in ActionId |-> Phase(a)]
grantBar == [a \in ActionId |-> actions[a].message]

Approval == INSTANCE OutboundApproval WITH phase <- phaseBar, grant <- grantBar

(* Every behaviour of the handlers, with crashes, lost writes and stale    *)
(* requests, is one the approval contract allows.                          *)
ImplementsApproval == Approval!ASpec

-----------------------------------------------------------------------------
(* What the design document says of the gate, and the code does not do.    *)

NoThreadOn(a) == \A p \in Proc : pc[p] = "idle" \/ Act(p) # a

(* "`cancelled`/`expired` clears the task's `outbound_action_id`           *)
(* reference": execute marks an overdue draft expired and returns.         *)
ExpiredClearsReference ==
    \A a \in ActionId : actions[a].status = "expired" /\ NoThreadOn(a) =>
        \A t \in TaskId : tasks[t].ref # a

(* "when origin.task_id is present, `sent` writes back to the task         *)
(* (receipt + mark completed)": two writers of monitor_tasks.json can      *)
(* overlap and the later one restores the state before the receipt.        *)
SentWritesBack ==
    \A a \in ActionId :
        actions[a].status = "sent" /\ actions[a].task # NoValue /\ NoThreadOn(a)
        => a \in tasks[actions[a].task].receipts

(* "Send failure: `sending -> failed`, re-approvable for retry": input the *)
(* trigger cannot be built from leaves the record in "sending".            *)
FailedSendReopens ==
    \A a \in ActionId : NoThreadOn(a) => actions[a].status # "sending"
=============================================================================
