----------------------------- MODULE TaskProofs -----------------------------
(***************************************************************************)
(* What monitor_tasks.json says about outbound actions is true although     *)
(* the file is rewritten from stale copies.  The invariant is about the     *)
(* file and every thread's copy alike: a copy may be old, but what it says  *)
(* stays true, because records that are sent and the task of a draft never  *)
(* change.                                                                  *)
(***************************************************************************)
EXTENDS OutboundProofs

(* What the content x of task t may say when the store holds the records A. *)
ReceiptsTrue(A, t, x) ==
    \A a \in x.receipts : A[a].status = "sent" /\ A[a].task = t

ReferenceTrue(A, t, x) ==
    x.ref # NoValue => A[x.ref].status # "absent" /\ A[x.ref].task = t

Grounded(t, x) ==
    t \in GatedTask \cap ApprovalTask /\ x.status = "completed" =>
        \/ x.receipts # {} \/ x.reviewed \/ x.ignored
        \/ x.triaged /\ t \notin TypedTask

TaskTrue(A, t, x) ==
    /\ ReceiptsTrue(A, t, x)
    /\ ReferenceTrue(A, t, x)
    /\ Grounded(t, x)

(* A handler that is about to edit a task has stored what it will write.   *)
Backed(p) ==
    pc[p] = "reading" =>
        /\ req[p].op = "execute" => actions[Act(p)].status = "sent"
        /\ req[p].op = "draft" => /\ actions[Act(p)].status # "absent"
                                  /\ actions[Act(p)].task = req[p].task

TaskInv ==
    /\ SendInv
    /\ \A t \in TaskId : TaskTrue(actions, t, tasks[t])
    /\ \A p \in Proc : Backed(p) /\ \A t \in TaskId : TaskTrue(actions, t, snap[p][t])

-----------------------------------------------------------------------------
(* The transitions of the store leave a record's task alone and make no    *)
(* record absent.                                                          *)
LEMMA TaskOfRecordFixed ==
    ASSUME NEW r \in Record, NEW m, NEW c, NEW k
    PROVE  \A s \in {Cancelled(r), MarkUncertain(r), MarkExpired(r),
                     FinishSend(r), FailSend(r), StartSend(r, m, c, k)} :
               s.task = r.task /\ s.status # "absent"
BY DEF Record, Cancelled, MarkUncertain, MarkExpired, FinishSend, FailSend, StartSend

(* A sent record stays sent, and a record that exists keeps its task.      *)
LEMMA RecordsLast ==
    ASSUME SendInv, [Next]_vars, NEW b \in ActionId
    PROVE  /\ actions[b].status = "sent" => actions'[b].status = "sent"
           /\ actions[b].status # "absent" =>
                  actions'[b].status # "absent" /\ actions'[b].task = actions[b].task
<1>1. actions \in [ActionId -> Record]
    BY DEF SendInv, TypeInv, StoreOK
<1>2. CASE actions' = actions
    BY <1>2
<1>3. CASE actions' # actions
    <2>1. PICK a \in ActionId : StoreStep(a)
        BY <1>3, StoreSteps DEF Rests
    <2>2. CASE a # b
        <3>1. actions'[b] = actions[b]
            BY <1>1, <2>1, <2>2 DEF StoreStep, Drafts, Doubts, Expires, Cancels, Starts,
                   Calls, Settles, Store
        <3> QED BY <3>1
    <2>3. CASE a = b /\ actions[b].status # "absent"
        <3>1. actions[b].status # "sent"
            BY <1>3, <2>1, <2>3 DEF StoreStep, Drafts, Doubts, Expires, Cancels,
                   Starts, Calls, Settles
        <3>2. actions'[b].status # "absent" /\ actions'[b].task = actions[b].task
            <4>1. CASE Starts(b)
                BY <1>1, <4>1, TaskOfRecordFixed DEF Starts, Store
            <4>2. CASE Doubts(b) \/ Expires(b) \/ Cancels(b) \/ Settles(b)
                BY <1>1, <4>2, TaskOfRecordFixed
                    DEF Doubts, Expires, Cancels, Settles, Store
            <4> QED BY <1>3, <2>1, <2>3, <4>1, <4>2 DEF StoreStep, Drafts, Calls
        <3> QED BY <3>1, <3>2
    <2>4. CASE a = b /\ actions[b].status = "absent"
        BY <2>4
    <2> QED BY <2>2, <2>3, <2>4
<1> QED BY <1>2, <1>3

(* So what a copy of a task says stays true.                               *)
LEMMA TruthLasts ==
    ASSUME SendInv, [Next]_vars, NEW t \in TaskId, NEW x \in Task,
           TaskTrue(actions, t, x)
    PROVE  TaskTrue(actions', t, x)
<1>1. ReceiptsTrue(actions', t, x)
    <2>1. ASSUME NEW a \in x.receipts
          PROVE  actions'[a].status = "sent" /\ actions'[a].task = t
        <3>1. a \in ActionId
            BY DEF Task
        <3>2. actions[a].status = "sent" /\ actions[a].task = t
            BY DEF TaskTrue, ReceiptsTrue
        <3> QED BY <3>1, <3>2, RecordsLast
    <2> QED BY <2>1 DEF ReceiptsTrue
<1>2. ReferenceTrue(actions', t, x)
    <2>1. x.ref # NoValue => x.ref \in ActionId
        BY DEF Task
    <2> QED BY <2>1, RecordsLast DEF TaskTrue, ReferenceTrue
<1> QED BY <1>1, <1>2 DEF TaskTrue

(* A task nobody has written to says nothing.                              *)
LEMMA BlankTrue ==
    ASSUME NEW A, NEW t \in TaskId
    PROVE  TaskTrue(A, t, BlankTasks[t])
BY DEF TaskTrue, ReceiptsTrue, ReferenceTrue, Grounded, BlankTasks, PendingTask

(* The edit of a handler that has stored what it writes says the truth.    *)
LEMMA EditTrue ==
    ASSUME TaskInv, NEW p \in Proc, pc[p] = "reading", Writes(p),
           TaskOf(p) \in TaskId
    PROVE  TaskTrue(actions, TaskOf(p), Edited(p, tasks[TaskOf(p)]))
<1> DEFINE t == TaskOf(p)
           x == tasks[t]
<1>1. x \in Task /\ TaskTrue(actions, t, x)
    BY DEF TaskInv, SendInv, TypeInv, StoreOK
<1>2. /\ req[p].op \in Ops \ {"none"}
      /\ req[p].op \in {"execute", "cancel", "draft"} => Act(p) \in ActionId
      /\ req[p].ack \in BOOLEAN
    BY DEF TaskInv, SendInv, TypeInv, ThreadsOK, Fits, Act, Request
<1>3. Backed(p)
    BY DEF TaskInv
<1> HIDE DEF x
<1>4. CASE req[p].op = "execute"
    <2>1. Edited(p, x) = WithReceipt(x, Act(p))
        BY <1>4 DEF Edited
    <2>2. actions[Act(p)].status = "sent" /\ actions[Act(p)].task = t
        BY <1>3, <1>4 DEF Backed, TaskOf
    <2>3. TaskTrue(actions, t, WithReceipt(x, Act(p)))
        BY <1>1, <2>2
            DEF TaskTrue, ReceiptsTrue, ReferenceTrue, Grounded, WithReceipt, Task
    <2> QED BY <2>1, <2>3 DEF x
<1>5. CASE req[p].op = "cancel"
    <2>1. Edited(p, x) = WithoutReference(x, Act(p))
        BY <1>5 DEF Edited
    <2>2. TaskTrue(actions, t, WithoutReference(x, Act(p)))
        BY <1>1 DEF TaskTrue, ReceiptsTrue, ReferenceTrue, Grounded,
               WithoutReference, Task
    <2> QED BY <2>1, <2>2 DEF x
<1>6. CASE req[p].op = "draft"
    <2>1. Edited(p, x) = WithReference(x, Act(p))
        BY <1>6 DEF Edited
    <2>2. actions[Act(p)].status # "absent" /\ actions[Act(p)].task = t
        BY <1>3, <1>6 DEF Backed, TaskOf
    <2>3. TaskTrue(actions, t, WithReference(x, Act(p)))
        BY <1>1, <2>2 DEF TaskTrue, ReceiptsTrue, ReferenceTrue, Grounded,
               WithReference, Task
    <2> QED BY <2>1, <2>3 DEF x
<1>7. CASE req[p].op = "complete"
    <2>1. Edited(p, x) = AsCompleted(x, req[p].ack)
        BY <1>7 DEF Edited
    <2>2. req[p].ack \/ t \notin GatedTask
        BY <1>7 DEF Writes, MayComplete
    <2>3. TaskTrue(actions, t, AsCompleted(x, req[p].ack))
        <3>1. CASE req[p].ack
            BY <1>1, <3>1 DEF TaskTrue, ReceiptsTrue, ReferenceTrue, Grounded,
                   AsCompleted, Task
        <3>2. CASE t \notin GatedTask
            BY <1>1, <3>2 DEF TaskTrue, ReceiptsTrue, ReferenceTrue, Grounded,
                   AsCompleted, Task
        <3> QED BY <2>2, <3>1, <3>2
    <2> QED BY <2>1, <2>3 DEF x
<1>8. CASE req[p].op = "ignore"
    <2>1. Edited(p, x) = AsIgnored(x)
        BY <1>8 DEF Edited
    <2>2. TaskTrue(actions, t, AsIgnored(x))
        BY <1>1 DEF TaskTrue, ReceiptsTrue, ReferenceTrue, Grounded, AsIgnored, Task
    <2> QED BY <2>1, <2>2 DEF x
<1>9. CASE req[p].op = "update"
    <2> DEFINE to == req[p].to
               ignored == req[p].ack
               triage == req[p].triage
    <2>1. Edited(p, x) = AsUpdated(x, to, ignored, triage)
        BY <1>9 DEF Edited
    <2>2. MayUpdate(t, to, ignored, triage)
        BY <1>9 DEF Writes
    <2> HIDE DEF to, ignored, triage
    <2>3. CASE to = "deleted"
        BY <2>1, <2>3 DEF x, TaskTrue, ReceiptsTrue, ReferenceTrue, Grounded,
               AsUpdated, PendingTask
    <2>4. CASE to # "deleted"
        <3>1. AsUpdated(x, to, ignored, triage) =
                  [x EXCEPT !.status = to, !.ignored = @ \/ ignored,
                            !.triaged = IF to = "completed" /\ x.status # to
                                        THEN triage ELSE @]
            BY <2>4 DEF AsUpdated
        <3>2. Grounded(t, AsUpdated(x, to, ignored, triage))
            BY <1>1, <2>2, <3>1 DEF TaskTrue, Grounded, MayUpdate, Task
        <3>3. /\ ReceiptsTrue(actions, t, AsUpdated(x, to, ignored, triage))
              /\ ReferenceTrue(actions, t, AsUpdated(x, to, ignored, triage))
            BY <1>1, <3>1 DEF TaskTrue, ReceiptsTrue, ReferenceTrue, Task
        <3> QED BY <2>1, <3>2, <3>3 DEF x, TaskTrue
    <2> QED BY <2>3, <2>4
<1> QED BY <1>2, <1>4, <1>5, <1>6, <1>7, <1>8, <1>9 DEF Ops

-----------------------------------------------------------------------------
(* The task file is left alone or replaced by some thread's copy.          *)
LEMMA FileSteps ==
    ASSUME [Next]_vars
    PROVE  tasks' = tasks \/ \E p \in Proc : tasks' = snap[p]
<1>1. ASSUME NEW p \in Proc, Arrival(p)
      PROVE  tasks' = tasks
    BY <1>1 DEF Arrival, ExecuteRequest, CancelRequest, DraftFree, DraftForTask,
           CompleteRequest, IgnoreRequest, UpdateRequest, files
<1>2. ASSUME NEW p \in Proc, Handler(p)
      PROVE  tasks' = tasks \/ tasks' = snap[p]
    BY <1>2 DEF Handler, AnswerOnly, FoundStale, FoundOverdue, BeginSend, PrepareFails,
           CallConnector, Finish, Fail, SettleLost, RefuseCancel, CancelDraft,
           ReadTasks, ReadFails, TruncateTasks, WriteTasks, files
<1>3. CASE Crash \/ Clock \/ UNCHANGED vars
    BY <1>3 DEF Crash, Clock, vars, files
<1> QED BY <1>1, <1>2, <1>3 DEF Next

(* A thread's copy is left alone, dropped, or freshly read and edited.     *)
LEMMA CopySteps ==
    ASSUME TypeInv, [Next]_vars, NEW q \in Proc
    PROVE  snap'[q] = snap[q] \/ snap'[q] = BlankTasks \/ ReadTasks(q)
<1>0. snap \in [Proc -> [TaskId -> Task]]
    BY DEF TypeInv, ThreadsOK
<1>1. ASSUME NEW p \in Proc, Arrival(p)
      PROVE  snap' = snap
    BY <1>1 DEF Arrival, ExecuteRequest, CancelRequest, DraftFree, DraftForTask,
           CompleteRequest, IgnoreRequest, UpdateRequest, Arrive
<1>2. ASSUME NEW p \in Proc, Handler(p)
      PROVE  \/ snap' = snap
             \/ snap' = [snap EXCEPT ![p] = BlankTasks]
             \/ ReadTasks(p)
    BY <1>2 DEF Handler, AnswerOnly, FoundStale, FoundOverdue, BeginSend, PrepareFails,
           CallConnector, Finish, Fail, SettleLost, RefuseCancel, CancelDraft,
           ReadFails, TruncateTasks, WriteTasks, WriteBackOrReturn, Return, Forget, Goto
<1>3. CASE Crash \/ Clock \/ UNCHANGED vars
    BY <1>3 DEF Crash, Clock, vars, threads
<1>4. ASSUME NEW p \in Proc, ReadTasks(p), p # q
      PROVE  snap'[q] = snap[q]
    BY <1>0, <1>4 DEF ReadTasks
<1> QED BY <1>0, <1>1, <1>2, <1>3, <1>4 DEF Next

(* A thread comes to the task file with its update stored.                 *)
LEMMA BackedSteps ==
    ASSUME TaskInv, [Next]_vars, NEW q \in Proc
    PROVE  Backed(q)'
<1>0. SendInv /\ TypeInv
    BY DEF TaskInv, SendInv
<1>1. /\ actions \in [ActionId -> Record]
      /\ pc \in [Proc -> Places]
      /\ req \in [Proc -> Request]
      /\ req[q].op \in {"execute", "draft"} => req[q].action \in ActionId
    BY <1>0 DEF TypeInv, StoreOK, ThreadsOK, Fits
<1>2. CASE pc'[q] = "reading" /\ pc[q] = "reading" /\ req'[q] = req[q]
    <2>1. Backed(q)
        BY DEF TaskInv
    <2>2. CASE req[q].op \in {"execute", "draft"}
        <3>1. actions[req[q].action].status = "sent" =>
                  actions'[req[q].action].status = "sent"
            BY <1>0, <1>1, <2>2, RecordsLast
        <3>2. actions[req[q].action].status # "absent" =>
                  /\ actions'[req[q].action].status # "absent"
                  /\ actions'[req[q].action].task = actions[req[q].action].task
            BY <1>0, <1>1, <2>2, RecordsLast
        <3> QED BY <1>2, <2>1, <3>1, <3>2 DEF Backed, Act
    <2>3. CASE req[q].op \notin {"execute", "draft"}
        BY <1>2, <2>3 DEF Backed
    <2> QED BY <2>2, <2>3
<1>3. CASE pc'[q] # "reading"
    BY <1>3 DEF Backed
<1>4. ASSUME NEW p \in Proc, Arrival(p)
      PROVE  Backed(q)'
    <2>1. CASE p # q
        <3>1. pc'[q] = pc[q] /\ req'[q] = req[q]
            BY <1>1, <1>4, <2>1 DEF Arrival, ExecuteRequest, CancelRequest, DraftFree,
                   DraftForTask, CompleteRequest, IgnoreRequest, UpdateRequest, Arrive
        <3> QED BY <1>2, <1>3, <3>1
    <2>2. CASE p = q /\ DraftForTask(q)
        <3>1. PICK a \in ActionId, t \in TaskId :
                  /\ Store(a, NewDraft(t, now))
                  /\ req' = [req EXCEPT ![q] = [NoRequest EXCEPT !.op = "draft",
                                                    !.action = a, !.task = t]]
            BY <2>2 DEF DraftForTask, Arrive
        <3>2. req'[q].action = a /\ req'[q].task = t /\ req'[q].op = "draft"
            BY <1>1, <3>1 DEF NoRequest
        <3>3. actions'[a].status # "absent" /\ actions'[a].task = t
            BY <1>1, <3>1 DEF Store, NewDraft, AbsentRecord
        <3> QED BY <3>2, <3>3 DEF Backed, Act
    <2>3. CASE p = q /\ ~DraftForTask(q)
        <3>1. CASE ExecuteRequest(q) \/ CancelRequest(q) \/ DraftFree(q)
            <4>1. pc'[q] # "reading"
                BY <1>1, <3>1 DEF ExecuteRequest, CancelRequest, DraftFree, Arrive
            <4> QED BY <1>3, <4>1
        <3>2. CASE CompleteRequest(q)
            <4>1. req'[q].op = "complete"
                BY <1>1, <3>2 DEF CompleteRequest, Arrive, NoRequest
            <4> QED BY <4>1 DEF Backed
        <3>3. CASE IgnoreRequest(q)
            <4>1. req'[q].op = "ignore"
                BY <1>1, <3>3 DEF IgnoreRequest, Arrive, NoRequest
            <4> QED BY <4>1 DEF Backed
        <3>4. CASE UpdateRequest(q)
            <4>1. req'[q].op = "update"
                BY <1>1, <3>4 DEF UpdateRequest, Arrive, NoRequest
            <4> QED BY <4>1 DEF Backed
        <3> QED BY <1>4, <2>3, <3>1, <3>2, <3>3, <3>4 DEF Arrival
    <2> QED BY <2>1, <2>2, <2>3
<1>5. ASSUME NEW p \in Proc, Handler(p)
      PROVE  Backed(q)'
    <2>1. CASE p # q
        <3>1. (pc'[q] = pc[q] \/ pc'[q] # "reading") /\ req'[q] = req[q]
            BY <1>1, <1>5, <2>1 DEF Handler, AnswerOnly, FoundStale, FoundOverdue,
                   BeginSend, PrepareFails, CallConnector, Finish, Fail, SettleLost,
                   RefuseCancel, CancelDraft, ReadTasks, ReadFails, TruncateTasks,
                   WriteTasks, WriteBackOrReturn, Return, Forget, Goto
        <3> QED BY <1>2, <1>3, <3>1
    <2>2. CASE p = q /\ Finish(q)
        <3>1. Act(q) \in ActionId /\ req[q].op = "execute"
            BY <1>0, <2>2, ActIsAction DEF Finish, Window
        <3>2. actions'[Act(q)].status = "sent"
            BY <1>1, <2>2, <3>1 DEF Finish, Store, FinishSend, Record
        <3>3. pc'[q] = "reading" => req' = req
            BY <1>1, <2>2 DEF Finish, WriteBackOrReturn, Return, Goto
        <3> QED BY <3>1, <3>2, <3>3 DEF Backed, Act
    <2>3. CASE p = q /\ CancelDraft(q)
        <3>1. pc'[q] = "reading" => req'[q].op = "cancel"
            BY <1>1, <2>3 DEF CancelDraft, HasLock, Return
        <3> QED BY <3>1 DEF Backed
    <2>4. CASE p = q /\ ~(Finish(q) \/ CancelDraft(q))
        <3>1. pc'[q] # "reading"
            BY <1>1, <1>5, <2>4 DEF Handler, AnswerOnly, FoundStale, FoundOverdue,
                   BeginSend, PrepareFails, CallConnector, Fail, SettleLost,
                   RefuseCancel, ReadTasks, ReadFails, TruncateTasks, WriteTasks,
                   Return, Goto
        <3> QED BY <1>3, <3>1
    <2> QED BY <2>1, <2>2, <2>3, <2>4
<1>6. CASE Crash \/ Clock \/ UNCHANGED vars
    <2>1. pc'[q] # "reading" \/ (pc' = pc /\ req' = req)
        BY <1>6 DEF Crash, Clock, vars, threads
    <2> QED BY <1>2, <1>3, <2>1
<1> QED BY <1>4, <1>5, <1>6 DEF Next

(* Nothing is written when the daemon first starts.                        *)
LEMMA TaskInit == Init => TaskInv
<1> SUFFICES ASSUME Init PROVE TaskInv
    OBVIOUS
<1>1. tasks = BlankTasks /\ \A p \in Proc : snap[p] = BlankTasks /\ pc[p] = "idle"
    BY DEF Init
<1>2. \A p \in Proc : Backed(p)
    BY <1>1 DEF Backed
<1> QED BY <1>1, <1>2, SendInit, BlankTrue DEF TaskInv

(* Every step of the system keeps TaskInv.                                 *)
LEMMA TaskStep == TaskInv /\ [Next]_vars => TaskInv'
<1> SUFFICES ASSUME TaskInv, [Next]_vars PROVE TaskInv'
    OBVIOUS
<1>0. SendInv /\ TypeInv /\ SendInv'
    BY SendStep DEF TaskInv, SendInv
<1>1. tasks \in [TaskId -> Task] /\ snap \in [Proc -> [TaskId -> Task]]
    BY <1>0 DEF TypeInv, StoreOK, ThreadsOK
<1>2. ASSUME NEW t \in TaskId
      PROVE  TaskTrue(actions', t, tasks'[t])
    <2>1. CASE tasks' = tasks
        <3>1. TaskTrue(actions, t, tasks[t]) /\ tasks[t] \in Task
            BY <1>1 DEF TaskInv
        <3> QED BY <1>0, <2>1, <3>1, TruthLasts
    <2>2. ASSUME NEW p \in Proc, tasks' = snap[p]
          PROVE  TaskTrue(actions', t, tasks'[t])
        <3>1. TaskTrue(actions, t, snap[p][t]) /\ snap[p][t] \in Task
            BY <1>1 DEF TaskInv
        <3> QED BY <1>0, <2>2, <3>1, TruthLasts
    <2> QED BY <2>1, <2>2, FileSteps
<1>3. ASSUME NEW q \in Proc, NEW t \in TaskId
      PROVE  TaskTrue(actions', t, snap'[q][t])
    <2>1. CASE snap'[q] = snap[q]
        <3>1. TaskTrue(actions, t, snap[q][t]) /\ snap[q][t] \in Task
            BY <1>1 DEF TaskInv
        <3> QED BY <1>0, <2>1, <3>1, TruthLasts
    <2>2. CASE snap'[q] = BlankTasks
        BY <2>2, BlankTrue
    <2>3. CASE ReadTasks(q)
        <3>1. /\ pc[q] = "reading" /\ Writes(q) /\ actions' = actions
              /\ snap'[q] = [tasks EXCEPT ![TaskOf(q)] = Edited(q, tasks[TaskOf(q)])]
            BY <1>1, <2>3 DEF ReadTasks, files
        <3>2. CASE t = TaskOf(q)
            <4>1. TaskTrue(actions, t, Edited(q, tasks[t]))
                BY <3>1, <3>2, EditTrue
            <4> QED BY <1>1, <3>1, <3>2, <4>1
        <3>3. CASE t # TaskOf(q)
            <4>1. snap'[q][t] = tasks[t]
                BY <1>1, <3>1, <3>3
            <4>2. TaskTrue(actions, t, tasks[t])
                BY DEF TaskInv
            <4> QED BY <3>1, <4>1, <4>2
        <3> QED BY <3>2, <3>3
    <2> QED BY <1>0, <2>1, <2>2, <2>3, CopySteps
<1>4. \A q \in Proc : Backed(q)'
    BY BackedSteps
<1> QED BY <1>0, <1>2, <1>3, <1>4 DEF TaskInv

-----------------------------------------------------------------------------
(* A receipt in a task file is the receipt of an action that the store     *)
(* records as sent for this task.                                          *)
THEOREM ReceiptsHold == Spec => []ReceiptMeansSent
<1>1. TaskInv => ReceiptMeansSent
    BY DEF TaskInv, TaskTrue, ReceiptsTrue, ReceiptMeansSent
<1> QED BY <1>1, TaskInit, TaskStep, PTL DEF Spec

(* A task refers only to an action that the store holds for this task.     *)
THEOREM ReferencesHold == Spec => []ReferenceExists
<1>1. TaskInv => ReferenceExists
    BY DEF TaskInv, TaskTrue, ReferenceTrue, ReferenceExists
<1> QED BY <1>1, TaskInit, TaskStep, PTL DEF Spec

(* A task that both gates hold back is completed only by a receipt, a      *)
(* decision that no reply is needed, by being ignored, or, unless it is    *)
(* typed, by the report of a monitor triage turn.                          *)
THEOREM GateHolds == Spec => []GatedCompletionGrounded
<1>1. TaskInv => GatedCompletionGrounded
    BY GatedTaskAssumption DEF TaskInv, TaskTrue, Grounded, GatedCompletionGrounded
<1> QED BY <1>1, TaskInit, TaskStep, PTL DEF Spec
=============================================================================
