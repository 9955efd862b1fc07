--------------------------- MODULE OutboundProofs ---------------------------
(***************************************************************************)
(* Proofs about OutboundAction, for any number of actions, tasks, threads,  *)
(* texts and client requests and for any bounds.                            *)
(***************************************************************************)
EXTENDS OutboundAction, TLAPS

(* The parameters a thread carries fit the place where it is.              *)
Fits(place, r) ==
    /\ r.op \in {"execute", "cancel", "draft"} => r.action \in ActionId
    /\ r.op = "execute" => r.message \in Message
    /\ r.op \in {"draft", "complete", "ignore", "update"} => r.task \in TaskId
    /\ place \in Window => r.op = "execute"
    /\ place = "waiting" => r.op \in {"execute", "cancel"}
    /\ place \in {"reading", "truncating", "writing", "overlaying"} =>
           r.op # "none"

StoreOK ==
    /\ now \in Nat
    /\ actions \in [ActionId -> Record]
    /\ tasks \in [TaskId -> Task]
    /\ torn \in BOOLEAN
    /\ shown \subseteq ActionId
    /\ requests \in Nat
    /\ attempts \in Nat

ThreadsOK ==
    /\ lock \in [ActionId -> Proc \cup {NoProc}]
    /\ pc \in [Proc -> Places]
    /\ req \in [Proc -> Request]
    /\ att \in [Proc -> Nat]
    /\ snap \in [Proc -> [TaskId -> Task]]
    /\ \A p \in Proc : Fits(pc[p], req[p])

HistoryOK ==
    /\ wire \in Seq(ActionId \X Message)
    /\ called \in [ActionId -> BOOLEAN]
    /\ delivered \in [ActionId -> Nat]
    /\ late \in [ActionId -> Nat]
    /\ acks \in [ActionId -> Nat]
    /\ doubt \in [ActionId -> BOOLEAN]

TypeInv == StoreOK /\ ThreadsOK /\ HistoryOK

-----------------------------------------------------------------------------
(* The store's transitions keep a record a record.                         *)
LEMMA RecordsStayRecords ==
    ASSUME NEW r \in Record, NEW n \in Nat, NEW att1 \in Nat,
           NEW t \in TaskId \cup {NoValue},
           NEW m \in Message \cup {NoValue}, NEW c \in RequestId \cup {NoValue}
    PROVE  /\ NewDraft(t, n) \in Record
           /\ Cancelled(r) \in Record
           /\ MarkUncertain(r) \in Record
           /\ MarkExpired(r) \in Record
           /\ StartSend(r, m, c, att1) \in Record
           /\ FinishSend(r) \in Record
           /\ FailSend(r) \in Record
<1>1. NewDraft(t, n) \in Record
    <2>1. AbsentRecord \in Record
        BY DEF AbsentRecord, Record, Statuses
    <2>2. n + Ttl \in Nat
        BY TtlAssumption
    <2> QED BY <2>1, <2>2 DEF NewDraft, Record, Statuses
<1>2. r.version + 1 \in Nat
    <2>1. r.version \in Nat
        BY DEF Record
    <2> QED BY <2>1
<1>3. Cancelled(r) \in Record
    BY <1>2 DEF Cancelled, Record, Statuses
<1>4. MarkUncertain(r) \in Record
    BY <1>2 DEF MarkUncertain, Record, Statuses
<1>5. MarkExpired(r) \in Record
    BY <1>2 DEF MarkExpired, Record, Statuses
<1>6. StartSend(r, m, c, att1) \in Record
    BY <1>2 DEF StartSend, Record, Statuses
<1>7. FinishSend(r) \in Record
    BY <1>2 DEF FinishSend, Record, Statuses
<1>8. FailSend(r) \in Record
    BY <1>2 DEF FailSend, Record, Statuses
<1> QED BY <1>1, <1>3, <1>4, <1>5, <1>6, <1>7, <1>8

(* The edits of a task keep a task a task.                                 *)
LEMMA TasksStayTasks ==
    ASSUME NEW t \in Task, NEW a \in ActionId, NEW b \in BOOLEAN
    PROVE  /\ WithReceipt(t, a) \in Task
           /\ WithoutReference(t, a) \in Task
           /\ WithReference(t, a) \in Task
           /\ AsCompleted(t, b) \in Task
           /\ AsIgnored(t) \in Task
<1>1. WithReceipt(t, a) \in Task
    BY DEF WithReceipt, Task
<1>2. WithoutReference(t, a) \in Task
    BY DEF WithoutReference, Task
<1>3. WithReference(t, a) \in Task
    BY DEF WithReference, Task
<1>4. AsCompleted(t, b) \in Task
    BY DEF AsCompleted, Task
<1>5. AsIgnored(t) \in Task
    BY DEF AsIgnored, Task
<1> QED BY <1>1, <1>2, <1>3, <1>4, <1>5

(* So does TaskUpdate.                                                     *)
LEMMA UpdateStaysTask ==
    ASSUME NEW t \in Task, NEW to \in {"pending", "completed", "deleted"},
           NEW b \in BOOLEAN, NEW g \in BOOLEAN
    PROVE  AsUpdated(t, to, b, g) \in Task
<1>1. CASE to = "deleted"
    BY <1>1 DEF AsUpdated, PendingTask, Task
<1>2. CASE to # "deleted"
    BY <1>2 DEF AsUpdated, Task
<1> QED BY <1>1, <1>2

(* The initial tasks and the empty request are well typed.                 *)
LEMMA BlankTypes ==
    /\ BlankTasks \in [TaskId -> Task]
    /\ NoRequest \in Request
    /\ Fits("idle", NoRequest)
BY DEF BlankTasks, PendingTask, Task, NoRequest, Request, Ops, Fits, Window

(* What the handlers' common pieces do to the threads.                     *)
LEMMA ReturnThreads ==
    ASSUME ThreadsOK, NEW p \in Proc, Return(p)
    PROVE  ThreadsOK'
<1>1. pc' \in [Proc -> Places]
    BY DEF ThreadsOK, Return, Places
<1>2. lock' \in [ActionId -> Proc \cup {NoProc}]
    BY DEF ThreadsOK, Return, Forget
<1>3. req' \in [Proc -> Request]
    BY BlankTypes DEF ThreadsOK, Return, Forget
<1>4. att' \in [Proc -> Nat]
    BY DEF ThreadsOK, Return, Forget
<1>5. snap' \in [Proc -> [TaskId -> Task]]
    BY BlankTypes DEF ThreadsOK, Return, Forget
<1>6. ASSUME NEW q \in Proc PROVE Fits(pc'[q], req'[q])
    BY BlankTypes DEF ThreadsOK, Return, Forget
<1> QED BY <1>1, <1>2, <1>3, <1>4, <1>5, <1>6 DEF ThreadsOK

(* Moving on inside a handler keeps the threads well typed.                *)
LEMMA GotoThreads ==
    ASSUME ThreadsOK, NEW p \in Proc, NEW place \in Places, Goto(p, place),
           Fits(place, req[p])
    PROVE  ThreadsOK'
BY DEF ThreadsOK, Goto

(* The arrival of a well-typed request keeps the threads well typed.       *)
LEMMA ArriveThreads ==
    ASSUME ThreadsOK, NEW p \in Proc, NEW place \in Places, NEW r \in Request,
           Arrive(p, r, place), Fits(place, r)
    PROVE  ThreadsOK'
BY DEF ThreadsOK, Arrive

(* The type invariant holds when the daemon starts.                        *)
LEMMA TypeInit == Init => TypeInv
<1> SUFFICES ASSUME Init PROVE TypeInv
    OBVIOUS
<1>1. actions \in [ActionId -> Record]
    BY DEF Init, AbsentRecord, Record, Statuses
<1>2. wire \in Seq(ActionId \X Message)
    BY DEF Init
<1>3. /\ lock \in [ActionId -> Proc \cup {NoProc}]
      /\ pc \in [Proc -> Places]
      /\ req \in [Proc -> Request]
      /\ att \in [Proc -> Nat]
      /\ snap \in [Proc -> [TaskId -> Task]]
    BY BlankTypes DEF Init, Places
<1>4. /\ now \in Nat
      /\ torn \in BOOLEAN
      /\ shown \subseteq ActionId
      /\ requests \in Nat
      /\ attempts \in Nat
      /\ called \in [ActionId -> BOOLEAN]
      /\ delivered \in [ActionId -> Nat]
      /\ late \in [ActionId -> Nat]
      /\ acks \in [ActionId -> Nat]
      /\ doubt \in [ActionId -> BOOLEAN]
    BY DEF Init
<1>5. tasks \in [TaskId -> Task]
    BY BlankTypes DEF Init
<1>6. \A p \in Proc : Fits(pc[p], req[p])
    BY BlankTypes DEF Init
<1> QED BY <1>1, <1>2, <1>3, <1>4, <1>5, <1>6
    DEF TypeInv, StoreOK, HistoryOK, ThreadsOK

-----------------------------------------------------------------------------
(* The steps of Arrival keep TypeInv.                                      *)
LEMMA ArriveTypes ==
    ASSUME TypeInv, NEW p \in Proc, NEW place \in Places, NEW r \in Request,
           Arrive(p, r, place), Fits(place, r),
           actions' \in [ActionId -> Record], tasks' = tasks, torn' = torn,
           shown' \subseteq ActionId
    PROVE  TypeInv'
<1>1. ThreadsOK'
    BY ArriveThreads DEF TypeInv
<1>2. HistoryOK'
    BY DEF TypeInv, Arrive, HistoryOK, history
<1>3. StoreOK'
    BY DEF TypeInv, Arrive, StoreOK
<1> QED BY <1>1, <1>2, <1>3 DEF TypeInv

(* The arrival of an RPC or tool call keeps TypeInv.                       *)
LEMMA TypeArrival ==
    ASSUME TypeInv, NEW p \in Proc, Arrival(p)
    PROVE  TypeInv'
<1>0. actions \in [ActionId -> Record] /\ shown \subseteq ActionId /\ now \in Nat
    BY DEF TypeInv, StoreOK
<1>1. CASE ExecuteRequest(p)
    <2>1. PICK a \in shown, m \in Message, c \in RequestId, ack \in BOOLEAN :
            \E v \in 1..actions[a].version :
            /\ Arrive(p, [NoRequest EXCEPT !.op = "execute", !.action = a,
                              !.version = v, !.message = m,
                              !.request = c, !.ack = ack], "waiting")
            /\ UNCHANGED <<files, shown>>
        BY <1>1 DEF ExecuteRequest
    <2>2. PICK v \in 1..actions[a].version :
            /\ Arrive(p, [NoRequest EXCEPT !.op = "execute", !.action = a,
                              !.version = v, !.message = m,
                              !.request = c, !.ack = ack], "waiting")
            /\ UNCHANGED <<files, shown>>
        BY <2>1
    <2> DEFINE r == [NoRequest EXCEPT !.op = "execute", !.action = a,
                         !.version = v, !.message = m, !.request = c, !.ack = ack]
    <2>3. a \in ActionId /\ v \in Nat
        BY <1>0 DEF Record
    <2>4. r \in Request /\ Fits("waiting", r)
        BY <2>3 DEF NoRequest, Request, Ops, Fits, Window
    <2>5. Arrive(p, r, "waiting")
        BY <2>2
    <2> HIDE DEF r
    <2> QED BY <1>0, <2>2, <2>4, <2>5, ArriveTypes DEF Places, files
<1>2. CASE CancelRequest(p)
    <2>1. PICK a \in shown :
            \E v \in 1..actions[a].version :
            /\ Arrive(p, [NoRequest EXCEPT !.op = "cancel", !.action = a,
                              !.version = v], "waiting")
            /\ UNCHANGED <<files, shown>>
        BY <1>2 DEF CancelRequest
    <2>2. PICK v \in 1..actions[a].version :
            /\ Arrive(p, [NoRequest EXCEPT !.op = "cancel", !.action = a,
                              !.version = v], "waiting")
            /\ UNCHANGED <<files, shown>>
        BY <2>1
    <2> DEFINE r == [NoRequest EXCEPT !.op = "cancel", !.action = a, !.version = v]
    <2>3. a \in ActionId /\ v \in Nat
        BY <1>0 DEF Record
    <2>4. r \in Request /\ Fits("waiting", r)
        BY <2>3 DEF NoRequest, Request, Ops, Fits, Window
    <2>5. Arrive(p, r, "waiting")
        BY <2>2
    <2> HIDE DEF r
    <2> QED BY <1>0, <2>2, <2>4, <2>5, ArriveTypes DEF Places, files
<1>3. CASE DraftFree(p)
    <2>1. PICK a \in ActionId :
            /\ Store(a, NewDraft(NoValue, now))
            /\ shown' = shown \cup {a}
            /\ Arrive(p, NoRequest, "idle")
            /\ UNCHANGED <<tasks, torn>>
        BY <1>3 DEF DraftFree
    <2>2. NewDraft(NoValue, now) \in Record
        <3>1. AbsentRecord \in Record
            BY DEF AbsentRecord, Record, Statuses
        <3> QED BY <1>0, <3>1, RecordsStayRecords
    <2>3. actions' \in [ActionId -> Record]
        BY <1>0, <2>1, <2>2 DEF Store
    <2> QED BY <1>0, <2>1, <2>3, ArriveTypes, BlankTypes DEF Places
<1>4. CASE DraftForTask(p)
    <2>1. PICK a \in ActionId, t \in TaskId :
            /\ Store(a, NewDraft(t, now))
            /\ Arrive(p, [NoRequest EXCEPT !.op = "draft", !.action = a,
                              !.task = t], "reading")
            /\ UNCHANGED <<tasks, torn, shown>>
        BY <1>4 DEF DraftForTask
    <2> DEFINE r == [NoRequest EXCEPT !.op = "draft", !.action = a, !.task = t]
    <2>2. NewDraft(t, now) \in Record
        <3>1. AbsentRecord \in Record
            BY DEF AbsentRecord, Record, Statuses
        <3> QED BY <1>0, <3>1, RecordsStayRecords
    <2>3. actions' \in [ActionId -> Record]
        BY <1>0, <2>1, <2>2 DEF Store
    <2>4. r \in Request /\ Fits("reading", r)
        BY DEF NoRequest, Request, Ops, Fits, Window
    <2>5. Arrive(p, r, "reading")
        BY <2>1
    <2> HIDE DEF r
    <2> QED BY <1>0, <2>1, <2>3, <2>4, <2>5, ArriveTypes DEF Places
<1>5. CASE CompleteRequest(p)
    <2>1. PICK t \in TaskId, noReply \in BOOLEAN :
            /\ Arrive(p, [NoRequest EXCEPT !.op = "complete", !.task = t,
                              !.ack = noReply], "reading")
            /\ UNCHANGED <<files, shown>>
        BY <1>5 DEF CompleteRequest
    <2> DEFINE r == [NoRequest EXCEPT !.op = "complete", !.task = t, !.ack = noReply]
    <2>2. r \in Request /\ Fits("reading", r)
        BY DEF NoRequest, Request, Ops, Fits, Window
    <2>3. Arrive(p, r, "reading")
        BY <2>1
    <2> HIDE DEF r
    <2> QED BY <1>0, <2>1, <2>2, <2>3, ArriveTypes DEF Places, files
<1>6. CASE IgnoreRequest(p)
    <2>1. PICK t \in TaskId :
            /\ Arrive(p, [NoRequest EXCEPT !.op = "ignore", !.task = t], "reading")
            /\ UNCHANGED <<files, shown>>
        BY <1>6 DEF IgnoreRequest
    <2> DEFINE r == [NoRequest EXCEPT !.op = "ignore", !.task = t]
    <2>2. r \in Request /\ Fits("reading", r)
        BY DEF NoRequest, Request, Ops, Fits, Window
    <2>3. Arrive(p, r, "reading")
        BY <2>1
    <2> HIDE DEF r
    <2> QED BY <1>0, <2>1, <2>2, <2>3, ArriveTypes DEF Places, files
<1>7. CASE UpdateRequest(p)
    <2>1. PICK t \in TaskId, to \in {"pending", "completed", "deleted"},
               ignored \in BOOLEAN, triage \in BOOLEAN :
            /\ Arrive(p, [NoRequest EXCEPT !.op = "update", !.task = t, !.to = to,
                              !.ack = ignored, !.triage = triage], "reading")
            /\ UNCHANGED <<files, shown>>
        BY <1>7 DEF UpdateRequest
    <2> DEFINE r == [NoRequest EXCEPT !.op = "update", !.task = t, !.to = to,
                         !.ack = ignored, !.triage = triage]
    <2>2. r \in Request /\ Fits("reading", r)
        BY DEF NoRequest, Request, Ops, Fits, Window
    <2>3. Arrive(p, r, "reading")
        BY <2>1
    <2> HIDE DEF r
    <2> QED BY <1>0, <2>1, <2>2, <2>3, ArriveTypes DEF Places, files
<1> QED BY <1>1, <1>2, <1>3, <1>4, <1>5, <1>6, <1>7 DEF Arrival

(* The request of a thread inside execute or cancel names an action.       *)
LEMMA ActIsAction ==
    ASSUME TypeInv, NEW p \in Proc
    PROVE  /\ pc[p] \in Window \cup {"waiting"} =>
                  Act(p) \in ActionId /\ actions[Act(p)] \in Record
           /\ pc[p] \in Window => req[p].op = "execute"
           /\ req[p].op = "execute" => req[p].message \in Message
           /\ req[p] \in Request
BY DEF TypeInv, StoreOK, ThreadsOK, Fits, Act, Window

(* The edit a handler makes to its copy of a task yields a task.           *)
LEMMA EditedTypes ==
    ASSUME TypeInv, NEW p \in Proc, pc[p] = "reading", NEW t \in Task
    PROVE  Edited(p, t) \in Task
<1>1. /\ req[p].op \in Ops \ {"none"}
      /\ req[p].op \in {"execute", "cancel", "draft"} => Act(p) \in ActionId
      /\ req[p].ack \in BOOLEAN /\ req[p].triage \in BOOLEAN
      /\ req[p].to \in {"pending", "completed", "deleted"}
    BY DEF TypeInv, ThreadsOK, Fits, Act, Request
<1>2. CASE req[p].op = "execute"
    <2>1. Edited(p, t) = WithReceipt(t, Act(p))
        BY <1>2 DEF Edited
    <2> QED BY <1>1, <1>2, <2>1, TasksStayTasks
<1>3. CASE req[p].op = "cancel"
    <2>1. Edited(p, t) = WithoutReference(t, Act(p))
        BY <1>3 DEF Edited
    <2> QED BY <1>1, <1>3, <2>1, TasksStayTasks
<1>4. CASE req[p].op = "draft"
    <2>1. Edited(p, t) = WithReference(t, Act(p))
        BY <1>4 DEF Edited
    <2> QED BY <1>1, <1>4, <2>1, TasksStayTasks
<1>5. CASE req[p].op = "complete"
    <2>1. Edited(p, t) = AsCompleted(t, req[p].ack)
        BY <1>5 DEF Edited
    <2>2. AsCompleted(t, req[p].ack) \in Task
        BY <1>1 DEF AsCompleted, Task
    <2> QED BY <2>1, <2>2
<1>6. CASE req[p].op = "ignore"
    <2>1. Edited(p, t) = AsIgnored(t)
        BY <1>6 DEF Edited
    <2>2. AsIgnored(t) \in Task
        BY DEF AsIgnored, Task
    <2> QED BY <2>1, <2>2
<1>7. CASE req[p].op = "update"
    <2>1. Edited(p, t) = AsUpdated(t, req[p].to, req[p].ack, req[p].triage)
        BY <1>7 DEF Edited
    <2>2. AsUpdated(t, req[p].to, req[p].ack, req[p].triage) \in Task
        BY <1>1, UpdateStaysTask
    <2> QED BY <2>1, <2>2
<1> QED BY <1>1, <1>2, <1>3, <1>4, <1>5, <1>6, <1>7 DEF Ops

(* A handler that returns after a well-typed store update keeps TypeInv.   *)
LEMMA ReturnTypes ==
    ASSUME TypeInv, NEW p \in Proc, Return(p),
           actions' \in [ActionId -> Record],
           HistoryOK',
           UNCHANGED <<now, tasks, torn, shown, requests, attempts>>
    PROVE  TypeInv'
<1>1. ThreadsOK'
    BY ReturnThreads DEF TypeInv
<1>2. StoreOK'
    BY DEF TypeInv, StoreOK
<1> QED BY <1>1, <1>2 DEF TypeInv

(* The steps of the handlers keep TypeInv.                                 *)
LEMMA TypeHandler ==
    ASSUME TypeInv, NEW p \in Proc, Handler(p)
    PROVE  TypeInv'
<1>0. actions \in [ActionId -> Record] /\ attempts \in Nat /\ HistoryOK
    BY DEF TypeInv, StoreOK
<1>h. history' = history => HistoryOK'
    BY <1>0 DEF HistoryOK, history
<1>1. CASE AnswerOnly(p) \/ PrepareFails(p) \/ SettleLost(p) \/ RefuseCancel(p)
           \/ ReadFails(p)
    <2>1. Return(p) /\ UNCHANGED <<now, files, shown, requests, attempts, history>>
        BY <1>1 DEF AnswerOnly, PrepareFails, SettleLost, RefuseCancel, ReadFails
    <2> QED BY <1>0, <1>h, <2>1, ReturnTypes DEF files
<1>2. CASE FoundStale(p)
    <2>1. /\ pc[p] = "waiting" /\ Return(p)
          /\ Store(Act(p), MarkUncertain(actions[Act(p)]))
          /\ doubt' = [doubt EXCEPT ![Act(p)] = TRUE]
          /\ UNCHANGED <<now, tasks, torn, shown, requests, attempts,
                         wire, called, delivered, late, acks>>
        BY <1>2 DEF FoundStale, HasLock
    <2>2. actions' \in [ActionId -> Record]
        BY <1>0, <2>1, ActIsAction, RecordsStayRecords DEF Store
    <2>3. HistoryOK'
        BY <1>0, <2>1 DEF HistoryOK
    <2> QED BY <2>1, <2>2, <2>3, ReturnTypes
<1>3. CASE FoundOverdue(p)
    <2>1. /\ pc[p] = "waiting" /\ Return(p)
          /\ Store(Act(p), MarkExpired(actions[Act(p)]))
          /\ UNCHANGED <<now, tasks, torn, shown, requests, attempts, history>>
        BY <1>3 DEF FoundOverdue, HasLock
    <2>2. actions' \in [ActionId -> Record]
        BY <1>0, <2>1, ActIsAction, RecordsStayRecords DEF Store
    <2> QED BY <1>h, <2>1, <2>2, ReturnTypes
<1>4. CASE BeginSend(p)
    <2>1. /\ pc[p] = "waiting" /\ req[p].op = "execute"
          /\ Store(Act(p), StartSend(actions[Act(p)], req[p].message,
                                     req[p].request, attempts + 1))
          /\ attempts' = attempts + 1
          /\ lock' = [lock EXCEPT ![Act(p)] = p]
          /\ pc' = [pc EXCEPT ![p] = "ready"]
          /\ att' = [att EXCEPT ![p] = attempts + 1]
          /\ called' = [called EXCEPT ![Act(p)] = FALSE]
          /\ acks' = IF actions[Act(p)].status = "uncertain" /\ req[p].ack
                     THEN [acks EXCEPT ![Act(p)] = @ + 1] ELSE acks
          /\ UNCHANGED <<now, tasks, torn, req, snap, shown, requests,
                         wire, delivered, late, doubt>>
        BY <1>4 DEF BeginSend, HasLock
    <2>2. Act(p) \in ActionId /\ attempts + 1 \in Nat
        BY <1>0, <2>1, ActIsAction
    <2>3. actions' \in [ActionId -> Record]
        <3>1. req[p].message \in Message /\ req[p].request \in RequestId \cup {NoValue}
            BY <2>1, ActIsAction DEF Request
        <3> QED BY <1>0, <2>1, <2>2, <3>1, ActIsAction, RecordsStayRecords DEF Store
    <2>4. HistoryOK'
        BY <1>0, <2>1, <2>2 DEF HistoryOK
    <2>5. ThreadsOK'
        BY <2>1, <2>2 DEF TypeInv, ThreadsOK, Fits, Window, Places
    <2> QED BY <2>1, <2>2, <2>3, <2>4, <2>5 DEF TypeInv, StoreOK
<1>5. CASE CallConnector(p)
    <2>1. PICK left \in BOOLEAN, ok \in BOOLEAN :
          /\ pc[p] = "ready"
          /\ wire' = Append(wire, <<Act(p), req[p].message>>)
          /\ called' = [called EXCEPT ![Act(p)] = TRUE]
          /\ delivered' = IF left THEN [delivered EXCEPT ![Act(p)] = @ + 1]
                                  ELSE delivered
          /\ late' = IF left /\ ~ok THEN [late EXCEPT ![Act(p)] = @ + 1] ELSE late
          /\ Goto(p, IF ok THEN "finishing" ELSE "failing")
          /\ UNCHANGED <<now, files, shown, requests, attempts, acks, doubt>>
        BY <1>5 DEF CallConnector
    <2>2. Act(p) \in ActionId /\ req[p].op = "execute" /\ req[p].message \in Message
        BY <2>1, ActIsAction DEF Window
    <2>3. HistoryOK'
        <3>1. wire' \in Seq(ActionId \X Message)
            BY <1>0, <2>1, <2>2 DEF HistoryOK
        <3> QED BY <1>0, <2>1, <2>2, <3>1 DEF HistoryOK
    <2>4. ThreadsOK'
        <3> DEFINE place == IF ok THEN "finishing" ELSE "failing"
        <3>1. place \in Places /\ Fits(place, req[p])
            BY <2>1, <2>2 DEF TypeInv, ThreadsOK, Fits, Window, Places
        <3>2. Goto(p, place)
            BY <2>1
        <3> HIDE DEF place
        <3> QED BY <3>1, <3>2, GotoThreads DEF TypeInv
    <2> QED BY <2>1, <2>3, <2>4 DEF TypeInv, StoreOK, files
<1>6. CASE Finish(p)
    <2>1. /\ pc[p] = "finishing"
          /\ Store(Act(p), FinishSend(actions[Act(p)]))
          /\ Goto(p, "reading") \/ Return(p)
          /\ UNCHANGED <<now, tasks, torn, shown, requests, attempts, history>>
        BY <1>6 DEF Finish, WriteBackOrReturn
    <2>2. actions' \in [ActionId -> Record]
        BY <1>0, <2>1, ActIsAction, RecordsStayRecords DEF Store, Window
    <2>3. CASE Goto(p, "reading")
        <3>1. Fits("reading", req[p])
            BY <2>1 DEF TypeInv, ThreadsOK, Fits, Window
        <3>2. ThreadsOK'
            BY <2>3, <3>1, GotoThreads DEF TypeInv, Places
        <3> QED BY <1>h, <2>1, <2>2, <3>2 DEF TypeInv, StoreOK
    <2> QED BY <1>h, <2>1, <2>2, <2>3, ReturnTypes
<1>7. CASE Fail(p)
    <2>1. /\ pc[p] = "failing" /\ Return(p)
          /\ Store(Act(p), FailSend(actions[Act(p)]))
          /\ UNCHANGED <<now, tasks, torn, shown, requests, attempts, history>>
        BY <1>7 DEF Fail
    <2>2. actions' \in [ActionId -> Record]
        BY <1>0, <2>1, ActIsAction, RecordsStayRecords DEF Store, Window
    <2> QED BY <1>h, <2>1, <2>2, ReturnTypes
<1>8. CASE CancelDraft(p)
    <2>1. /\ pc[p] = "waiting"
          /\ Store(Act(p), Cancelled(actions[Act(p)]))
          /\ \/ /\ pc' = [pc EXCEPT ![p] = "reading"]
                /\ lock' = [lock EXCEPT ![Act(p)] = p]
                /\ UNCHANGED <<req, att, snap>>
             \/ Return(p)
          /\ UNCHANGED <<now, tasks, torn, shown, requests, attempts, history>>
        BY <1>8 DEF CancelDraft, HasLock
    <2>2. actions' \in [ActionId -> Record]
        BY <1>0, <2>1, ActIsAction, RecordsStayRecords DEF Store
    <2>3. CASE ~Return(p)
        <3>1. ThreadsOK'
            BY <2>1, <2>3, ActIsAction DEF TypeInv, ThreadsOK, Fits, Places, Window
        <3> QED BY <1>h, <2>1, <2>2, <3>1 DEF TypeInv, StoreOK
    <2> QED BY <1>h, <2>1, <2>2, <2>3, ReturnTypes
<1>9. CASE ReadTasks(p)
    <2>1. /\ pc[p] = "reading"
          /\ snap' = [snap EXCEPT ![p] = [tasks EXCEPT ![TaskOf(p)] = Edited(p, @)]]
          /\ pc' = [pc EXCEPT ![p] = "truncating"]
          /\ UNCHANGED <<now, files, lock, req, att, shown, requests, attempts,
                         history>>
        BY <1>9 DEF ReadTasks
    <2>2. [tasks EXCEPT ![TaskOf(p)] = Edited(p, @)] \in [TaskId -> Task]
        BY <2>1, EditedTypes DEF TypeInv, StoreOK
    <2>3. ThreadsOK'
        BY <2>1, <2>2 DEF TypeInv, ThreadsOK, Fits, Places, Window
    <2> QED BY <1>h, <2>1, <2>3 DEF TypeInv, StoreOK, files
<1>10. CASE TruncateTasks(p)
    <2>1. ThreadsOK'
        BY <1>10 DEF TruncateTasks, TypeInv, ThreadsOK, Fits, Places, Window
    <2> QED BY <1>h, <1>10, <2>1 DEF TruncateTasks, TypeInv, StoreOK
<1>11. CASE WriteTasks(p)
    <2>1. pc' \in [Proc -> Places]
        BY <1>11 DEF WriteTasks, TypeInv, ThreadsOK, Places
    <2>2. /\ lock' \in [ActionId -> Proc \cup {NoProc}]
          /\ req' \in [Proc -> Request]
          /\ att' \in [Proc -> Nat]
          /\ snap' \in [Proc -> [TaskId -> Task]]
        BY <1>11, BlankTypes DEF WriteTasks, Forget, TypeInv, ThreadsOK
    <2>3. ASSUME NEW q \in Proc PROVE Fits(pc'[q], req'[q])
        <3>1. CASE q = p
            BY <1>11, <3>1, BlankTypes DEF WriteTasks, Forget, TypeInv, ThreadsOK
        <3>2. CASE q # p
            BY <1>11, <3>2 DEF WriteTasks, Forget, TypeInv, ThreadsOK, Fits, Window
        <3> QED BY <3>1, <3>2
    <2>4. shown' \subseteq ActionId
        BY <1>11 DEF WriteTasks, TypeInv, StoreOK, ThreadsOK, Fits, Act
    <2>5. tasks' \in [TaskId -> Task] /\ torn' \in BOOLEAN
        BY <1>11 DEF WriteTasks, TypeInv, ThreadsOK
    <2> QED BY <1>h, <1>11, <2>1, <2>2, <2>3, <2>4, <2>5
        DEF WriteTasks, TypeInv, StoreOK, ThreadsOK
<1> QED BY <1>1, <1>2, <1>3, <1>4, <1>5, <1>6, <1>7, <1>8, <1>9, <1>10, <1>11
    DEF Handler

(* Every step of the system keeps TypeInv.                                 *)
LEMMA TypeStep == TypeInv /\ [Next]_vars => TypeInv'
<1> SUFFICES ASSUME TypeInv, [Next]_vars PROVE TypeInv'
    OBVIOUS
<1>1. CASE \E p \in Proc : Arrival(p) \/ Handler(p)
    BY <1>1, TypeArrival, TypeHandler
<1>2. CASE Crash
    <2>1. ThreadsOK'
        BY <1>2, BlankTypes DEF Crash, ThreadsOK, Places
    <2> QED BY <1>2, <2>1 DEF Crash, TypeInv, StoreOK, HistoryOK, files, history
<1>3. CASE Clock
    <2>1. now' \in Nat
        BY <1>3, BoundsAssumption DEF Clock
    <2> QED BY <1>3, <2>1
        DEF Clock, TypeInv, StoreOK, ThreadsOK, HistoryOK, files, threads, history
<1>4. CASE UNCHANGED vars
    BY <1>4 DEF vars, TypeInv, StoreOK, ThreadsOK, HistoryOK, files, threads, history
<1> QED BY <1>1, <1>2, <1>3, <1>4 DEF Next

(* In every reachable state each variable holds what the code can store    *)
(* there, and the parameters of each handler fit the place it is at.       *)
THEOREM TypeCorrect == Spec => []TypeOK
<1>1. TypeInv => TypeOK
    BY DEF TypeInv, TypeOK, StoreOK, ThreadsOK, HistoryOK
<1> QED BY <1>1, TypeInit, TypeStep, PTL DEF Spec

-----------------------------------------------------------------------------
(* The inductive invariant behind the safety properties.                   *)

(* A thread inside a send holds the action's lock, and the store shows its *)
(* own attempt and the text it was given; whether the connector was called *)
(* agrees with where the thread is.                                        *)
Owns(p) ==
    pc[p] \in Window =>
        /\ lock[Act(p)] = p
        /\ CanSettle(actions[Act(p)], att[p])
        /\ actions[Act(p)].message = req[p].message
        /\ called[Act(p)] <=> pc[p] # "ready"

(* For the last approval of a the connector has not been called, or it     *)
(* reported that nothing left.                                             *)
Unsent(a) ==
    \/ actions[a].status \in {"absent", "draft_ready", "failed"}
    \/ actions[a].status = "sending" /\ ~called[a]
    \/ \E p \in Proc : pc[p] = "failing" /\ Act(p) = a

Counted(a) ==
    /\ delivered[a] <= 1 + acks[a] + late[a]
    /\ Unsent(a) => delivered[a] <= acks[a] + late[a]

InDoubt(a) ==
    /\ actions[a].status = "uncertain" => doubt[a]
    /\ Unsent(a) \/ actions[a].status \in {"cancelled", "expired"} =>
           doubt[a] \/ late[a] > 0 \/ delivered[a] = 0

(* An id that create_draft has not yet drawn has a blank record.           *)
Blank(a) == actions[a].status = "absent" => actions[a] = AbsentRecord

SendInv ==
    /\ TypeInv
    /\ \A p \in Proc : Owns(p)
    /\ \A a \in ActionId : Counted(a) /\ InDoubt(a) /\ Blank(a)


(* Steps that change no record and start no send.                          *)
LEMMA Frame ==
    ASSUME SendInv, TypeInv', actions' = actions, history' = history,
           \A q \in Proc : pc'[q] \in Window =>
               /\ pc'[q] = pc[q] /\ req'[q] = req[q] /\ att'[q] = att[q]
               /\ lock[Act(q)] = q => lock'[Act(q)] = q
    PROVE  SendInv'
<1>1. ASSUME NEW q \in Proc PROVE Owns(q)'
    BY DEF SendInv, Owns, Act, history
<1>2. ASSUME NEW a \in ActionId PROVE Counted(a)' /\ InDoubt(a)' /\ Blank(a)'
    <2>1. Unsent(a)' => Unsent(a)
        BY DEF Unsent, Act, history, Window
    <2> QED BY <2>1 DEF SendInv, Counted, InDoubt, Blank, history
<1> QED BY <1>1, <1>2 DEF SendInv

(* Steps that change the record of a only.                                 *)
LEMMA FrameBut ==
    ASSUME SendInv, TypeInv', NEW a \in ActionId,
           \A b \in ActionId \ {a} :
               /\ actions'[b] = actions[b] /\ called'[b] = called[b]
               /\ delivered'[b] = delivered[b] /\ late'[b] = late[b]
               /\ acks'[b] = acks[b] /\ doubt'[b] = doubt[b],
           \A q \in Proc : pc'[q] \in Window /\ Act(q)' # a =>
               /\ pc'[q] = pc[q] /\ req'[q] = req[q] /\ att'[q] = att[q]
               /\ lock[Act(q)] = q => lock'[Act(q)] = q,
           \A q \in Proc : pc'[q] \in Window /\ Act(q)' = a => Owns(q)',
           Counted(a)', InDoubt(a)', Blank(a)'
    PROVE  SendInv'
<1>1. ASSUME NEW q \in Proc, pc'[q] \in Window, Act(q)' # a PROVE Owns(q)'
    <2>1. Act(q)' = Act(q) /\ Act(q) \in ActionId \ {a}
        BY <1>1, ActIsAction DEF SendInv, Act
    <2> QED BY <1>1, <2>1 DEF SendInv, Owns
<1>2. ASSUME NEW b \in ActionId, b # a
      PROVE  Counted(b)' /\ InDoubt(b)' /\ Blank(b)'
    <2>1. Unsent(b)' => Unsent(b)
        BY <1>2 DEF Unsent, Act, Window
    <2> QED BY <1>2, <2>1 DEF SendInv, Counted, InDoubt, Blank
<1>3. ASSUME NEW q \in Proc PROVE Owns(q)'
    BY <1>1 DEF Owns
<1> QED BY <1>2, <1>3 DEF SendInv

(* The lock excludes: nobody is inside a send of an action whose lock is   *)
(* free, and only one thread is inside a send of an action.                *)
LEMMA Exclusion ==
    ASSUME SendInv, NEW p \in Proc, NEW q \in Proc,
           pc[q] \in Window, Act(q) = Act(p)
    PROVE  /\ lock[Act(p)] # NoProc
           /\ pc[p] \in Window => p = q
BY NoProcAssumption DEF SendInv, Owns

(* The arrival of an RPC or tool call keeps SendInv.                       *)
LEMMA SendArrival ==
    ASSUME SendInv, NEW p \in Proc, Arrival(p)
    PROVE  SendInv'
<1>0. TypeInv'
    BY TypeArrival DEF SendInv
<1>1. /\ history' = history
      /\ \A q \in Proc : pc'[q] \in Window =>
            /\ pc'[q] = pc[q] /\ req'[q] = req[q] /\ att'[q] = att[q]
            /\ lock[Act(q)] = q => lock'[Act(q)] = q
    <2>1. PICK r : \E place \in {"idle", "waiting", "reading"} : Arrive(p, r, place)
        BY DEF Arrival, ExecuteRequest, CancelRequest, DraftFree, DraftForTask,
               CompleteRequest, IgnoreRequest, UpdateRequest
    <2> QED BY <2>1 DEF Arrive, SendInv, TypeInv, ThreadsOK, Window
<1>2. CASE actions' = actions
    BY <1>0, <1>1, <1>2, Frame
<1>3. CASE actions' # actions
    <2>1. PICK a \in ActionId, t \in TaskId \cup {NoValue} :
            /\ actions[a].status = "absent"
            /\ actions' = [actions EXCEPT ![a] = NewDraft(t, now)]
        <3>1. DraftFree(p) \/ DraftForTask(p)
            BY <1>3 DEF Arrival, ExecuteRequest, CancelRequest, CompleteRequest,
                   IgnoreRequest, UpdateRequest, files
        <3>2. CASE DraftFree(p)
            BY <3>2 DEF DraftFree, Store
        <3>3. CASE DraftForTask(p)
            BY <3>3 DEF DraftForTask, Store
        <3> QED BY <3>1, <3>2, <3>3
    <2>2. actions'[a].status = "draft_ready"
        BY <2>1 DEF NewDraft, AbsentRecord, SendInv, TypeInv, StoreOK
    <2>3. ASSUME NEW q \in Proc, pc'[q] \in Window PROVE Act(q)' # a
        <3>1. pc[q] \in Window /\ Act(q)' = Act(q)
            BY <1>1, <2>1, <2>3 DEF Act
        <3> QED BY <2>1, <3>1 DEF SendInv, Owns, CanSettle
    <2>4. Counted(a)' /\ InDoubt(a)' /\ Blank(a)'
        <3>1. Unsent(a)
            BY <2>1 DEF Unsent
        <3> QED BY <1>1, <2>1, <2>2, <3>1 DEF SendInv, Counted, InDoubt, Blank, history
    <2>5. \A b \in ActionId \ {a} :
               /\ actions'[b] = actions[b] /\ called'[b] = called[b]
               /\ delivered'[b] = delivered[b] /\ late'[b] = late[b]
               /\ acks'[b] = acks[b] /\ doubt'[b] = doubt[b]
        BY <1>1, <2>1 DEF history, SendInv, TypeInv, StoreOK
    <2> QED BY <1>0, <1>1, <2>1, <2>3, <2>4, <2>5, FrameBut
<1> QED BY <1>2, <1>3

(* What each transition of the store leaves in the fields the invariant    *)
(* looks at.                                                               *)
LEMMA Fields ==
    ASSUME NEW r \in Record, NEW m, NEW c, NEW k
    PROVE  /\ Cancelled(r).status = "cancelled"
           /\ MarkUncertain(r).status = "uncertain"
           /\ MarkExpired(r).status = "expired"
           /\ FinishSend(r).status = "sent"
           /\ FailSend(r).status = "failed"
           /\ StartSend(r, m, c, k).status = "sending"
           /\ StartSend(r, m, c, k).message = m
           /\ StartSend(r, m, c, k).attempt = k
BY DEF Record, Cancelled, MarkUncertain, MarkExpired, FinishSend, FailSend, StartSend

(* A handler that changes the record of its action and returns, or goes on *)
(* to the task file, leaves every send of another thread as it is.         *)
LEMMA OthersKeep ==
    ASSUME SendInv, NEW p \in Proc, NEW place \in Places \ Window,
           Return(p) \/ Goto(p, place)
    PROVE  \A q \in Proc : pc'[q] \in Window =>
               /\ pc'[q] = pc[q] /\ req'[q] = req[q] /\ att'[q] = att[q]
               /\ lock[Act(q)] = q => lock'[Act(q)] = q
               /\ q # p
<1>1. SUFFICES ASSUME NEW q \in Proc, pc'[q] \in Window
               PROVE  /\ pc'[q] = pc[q] /\ req'[q] = req[q] /\ att'[q] = att[q]
                      /\ lock[Act(q)] = q => lock'[Act(q)] = q
                      /\ q # p
    OBVIOUS
<1>2. q # p
    BY <1>1 DEF Return, Goto, Window, SendInv, TypeInv, ThreadsOK
<1>3. pc[q] \in Window
    BY <1>1, <1>2 DEF Return, Goto, SendInv, TypeInv, ThreadsOK
<1>4. Act(q) \in ActionId
    BY <1>3, ActIsAction DEF SendInv
<1> QED BY <1>1, <1>2, <1>4 DEF Return, Forget, Goto, SendInv, TypeInv, ThreadsOK

(* Steps under a free lock or by the owner of a send: the record of the    *)
(* handler's action becomes r and no send of this action goes on.          *)
LEMMA LeavesSend ==
    ASSUME SendInv, TypeInv', NEW p \in Proc, NEW place \in Places \ Window,
           Return(p) \/ Goto(p, place),
           NEW r, NEW a \in ActionId, a = Act(p), Store(a, r),
           pc[p] \in Window \/ lock[a] = NoProc,
           UNCHANGED <<called, delivered, late, acks>>,
           \A b \in ActionId \ {a} : doubt'[b] = doubt[b],
           r.status # "sending",
           r.status \in {"absent", "draft_ready", "failed"} => Unsent(a),
           r.status = "uncertain" => doubt'[a],
           r.status \in {"failed", "cancelled", "expired"} =>
               doubt'[a] \/ late[a] > 0 \/ delivered[a] = 0,
           r.status \notin {"absent", "draft_ready"}
    PROVE  SendInv'
<1>1. \A q \in Proc : pc'[q] \in Window =>
          /\ pc'[q] = pc[q] /\ req'[q] = req[q] /\ att'[q] = att[q]
          /\ lock[Act(q)] = q => lock'[Act(q)] = q
          /\ q # p
    BY OthersKeep
<1>2. ASSUME NEW q \in Proc, pc'[q] \in Window PROVE Act(q)' # a
    <2>1. pc[q] \in Window /\ Act(q)' = Act(q) /\ q # p
        BY <1>1, <1>2 DEF Act
    <2> QED BY <2>1, Exclusion
<1>3. actions'[a] = r /\ \A b \in ActionId \ {a} : actions'[b] = actions[b]
    BY DEF Store, SendInv, TypeInv, StoreOK
<1>4. \A b \in ActionId \ {a} :
          /\ actions'[b] = actions[b] /\ called'[b] = called[b]
          /\ delivered'[b] = delivered[b] /\ late'[b] = late[b]
          /\ acks'[b] = acks[b] /\ doubt'[b] = doubt[b]
    BY <1>3
<1>5. \A q \in Proc : pc'[q] \in Window /\ Act(q)' # a =>
          /\ pc'[q] = pc[q] /\ req'[q] = req[q] /\ att'[q] = att[q]
          /\ lock[Act(q)] = q => lock'[Act(q)] = q
    BY <1>1
<1>6. Unsent(a)' <=> r.status = "failed"
    BY <1>2, <1>3 DEF Unsent, Window
<1>7. Counted(a)'
    BY <1>6 DEF Counted, SendInv
<1>8. InDoubt(a)'
    BY <1>3, <1>6 DEF InDoubt, SendInv
<1>9. Blank(a)'
    BY <1>3 DEF Blank
<1> QED BY <1>2, <1>4, <1>5, <1>7, <1>8, <1>9, FrameBut

(* The steps of the handlers keep SendInv.                                 *)
LEMMA SendHandler ==
    ASSUME SendInv, NEW p \in Proc, Handler(p)
    PROVE  SendInv'
<1>0. TypeInv /\ TypeInv'
    BY TypeHandler DEF SendInv
<1>a. PICK a : a = Act(p)
    OBVIOUS
<1>b. pc[p] \in Window \cup {"waiting"} => a \in ActionId /\ actions[a] \in Record
    BY <1>0, <1>a, ActIsAction
<1>c. a \in ActionId => Counted(a) /\ InDoubt(a)
    BY DEF SendInv
<1>d. "idle" \in Places \ Window /\ "reading" \in Places \ Window
    BY DEF Places, Window
<1>1. CASE AnswerOnly(p) \/ PrepareFails(p) \/ SettleLost(p) \/ RefuseCancel(p)
           \/ ReadFails(p)
    <2>1. Return(p) /\ actions' = actions /\ history' = history
        BY <1>1 DEF AnswerOnly, PrepareFails, SettleLost, RefuseCancel, ReadFails, files
    <2> QED BY <1>0, <1>d, <2>1, Frame, OthersKeep
<1>2. CASE FoundStale(p)
    <2>1. /\ pc[p] = "waiting" /\ lock[a] = NoProc /\ Return(p)
          /\ Store(a, MarkUncertain(actions[a]))
          /\ doubt' = [doubt EXCEPT ![a] = TRUE]
          /\ UNCHANGED <<called, delivered, late, acks>>
        BY <1>2, <1>a DEF FoundStale, HasLock
    <2>2. doubt'[a] /\ \A b \in ActionId \ {a} : doubt'[b] = doubt[b]
        BY <1>0, <1>b, <2>1 DEF TypeInv, HistoryOK
    <2>3. MarkUncertain(actions[a]).status = "uncertain"
        BY <1>b, <2>1, Fields
    <2> QED BY <1>0, <1>a, <1>b, <1>d, <2>1, <2>2, <2>3, LeavesSend
<1>3. CASE FoundOverdue(p)
    <2>1. /\ pc[p] = "waiting" /\ lock[a] = NoProc /\ Return(p)
          /\ Store(a, MarkExpired(actions[a]))
          /\ actions[a].status \in {"draft_ready", "failed"}
          /\ history' = history
        BY <1>3, <1>a DEF FoundOverdue, HasLock, IsOverdue
    <2>2. doubt'[a] \/ late[a] > 0 \/ delivered[a] = 0
        BY <1>b, <1>c, <2>1 DEF InDoubt, Unsent, history
    <2>3. MarkExpired(actions[a]).status = "expired"
        BY <1>b, <2>1, Fields
    <2> QED BY <1>0, <1>a, <1>b, <1>d, <2>1, <2>2, <2>3, LeavesSend DEF history
<1>4. CASE BeginSend(p)
    <2>1. /\ pc[p] = "waiting" /\ lock[a] = NoProc
          /\ actions' = [actions EXCEPT ![a] =
                            StartSend(actions[a], req[p].message,
                                      req[p].request, attempts + 1)]
          /\ actions[a].status \in {"draft_ready", "failed", "uncertain"}
          /\ lock' = [lock EXCEPT ![a] = p]
          /\ pc' = [pc EXCEPT ![p] = "ready"]
          /\ att' = [att EXCEPT ![p] = attempts + 1]
          /\ called' = [called EXCEPT ![a] = FALSE]
          /\ actions[a].status = "uncertain" => req[p].ack
          /\ acks' = IF actions[a].status = "uncertain" /\ req[p].ack
                     THEN [acks EXCEPT ![a] = @ + 1] ELSE acks
          /\ UNCHANGED <<req, delivered, late, doubt>>
        BY <1>4, <1>a DEF BeginSend, HasLock, CanStart, Store
    <2>2. a \in ActionId /\ actions[a] \in Record
        BY <1>b, <2>1
    <2>3. /\ actions'[a].status = "sending"
          /\ actions'[a].message = req[p].message
          /\ actions'[a].attempt = attempts + 1
          /\ \A b \in ActionId \ {a} : actions'[b] = actions[b]
        BY <1>0, <2>1, <2>2, Fields DEF TypeInv, StoreOK
    <2>4. /\ called'[a] = FALSE
          /\ \A b \in ActionId \ {a} : called'[b] = called[b] /\ acks'[b] = acks[b]
        BY <1>0, <2>1, <2>2 DEF TypeInv, HistoryOK
    <2>5. Owns(p)'
        BY <1>0, <1>a, <2>1, <2>2, <2>3, <2>4
            DEF Owns, Act, CanSettle, AttemptMatches, TypeInv, ThreadsOK
    <2>6. ASSUME NEW q \in Proc, pc'[q] \in Window, q # p
          PROVE  /\ pc'[q] = pc[q] /\ req'[q] = req[q] /\ att'[q] = att[q]
                 /\ Act(q)' # a
                 /\ lock[Act(q)] = q => lock'[Act(q)] = q
        <3>1. pc'[q] = pc[q] /\ req'[q] = req[q] /\ att'[q] = att[q]
            BY <1>0, <2>1, <2>6 DEF TypeInv, ThreadsOK
        <3>2. Act(q) # a
            BY <1>a, <2>1, <2>6, <3>1, Exclusion
        <3>3. Act(q) \in ActionId
            BY <1>0, <2>6, <3>1, ActIsAction
        <3> QED BY <1>0, <2>1, <3>1, <3>2, <3>3 DEF Act, TypeInv, ThreadsOK
    <2>7. delivered[a] <= acks'[a] + late[a]
        <3>1. delivered[a] \in Nat /\ acks[a] \in Nat /\ late[a] \in Nat
            BY <1>0, <2>2 DEF TypeInv, HistoryOK
        <3>2. CASE actions[a].status = "uncertain"
            <4>1. acks'[a] = acks[a] + 1
                BY <1>0, <2>1, <2>2, <3>2 DEF TypeInv, HistoryOK
            <4> QED BY <1>c, <2>2, <3>1, <4>1 DEF Counted
        <3>3. CASE actions[a].status # "uncertain"
            BY <1>c, <2>1, <2>2, <3>3 DEF Counted, Unsent
        <3> QED BY <3>2, <3>3
    <2>8. Counted(a)'
        <3>1. delivered[a] \in Nat /\ acks'[a] \in Nat /\ late[a] \in Nat
            BY <1>0, <2>2 DEF TypeInv, HistoryOK
        <3> QED BY <2>1, <2>7, <3>1 DEF Counted
    <2>9. InDoubt(a)'
        BY <1>c, <2>1, <2>2, <2>3 DEF InDoubt, Unsent
    <2>10. \A q \in Proc : pc'[q] \in Window /\ Act(q)' # a =>
              /\ pc'[q] = pc[q] /\ req'[q] = req[q] /\ att'[q] = att[q]
              /\ lock[Act(q)] = q => lock'[Act(q)] = q
        BY <1>a, <2>1, <2>6 DEF Act
    <2>11. \A q \in Proc : pc'[q] \in Window /\ Act(q)' = a => Owns(q)'
        BY <2>5, <2>6
    <2>12. \A b \in ActionId \ {a} :
              /\ actions'[b] = actions[b] /\ called'[b] = called[b]
              /\ delivered'[b] = delivered[b] /\ late'[b] = late[b]
              /\ acks'[b] = acks[b] /\ doubt'[b] = doubt[b]
        BY <2>1, <2>3, <2>4
    <2>13. Blank(a)'
        BY <2>3 DEF Blank
    <2> QED BY <1>0, <2>2, <2>8, <2>9, <2>10, <2>11, <2>12, <2>13, FrameBut
<1>5. CASE CallConnector(p)
    <2>1. PICK left \in BOOLEAN, ok \in BOOLEAN :
          /\ pc[p] = "ready"
          /\ ok => left
          /\ called' = [called EXCEPT ![a] = TRUE]
          /\ delivered' = IF left THEN [delivered EXCEPT ![a] = @ + 1]
                                  ELSE delivered
          /\ late' = IF left /\ ~ok THEN [late EXCEPT ![a] = @ + 1] ELSE late
          /\ Goto(p, IF ok THEN "finishing" ELSE "failing")
          /\ UNCHANGED <<actions, acks, doubt>>
        BY <1>5, <1>a DEF CallConnector, files
    <2>2. a \in ActionId /\ pc[p] \in Window
        BY <1>b, <2>1 DEF Window
    <2>3. /\ delivered[a] \in Nat /\ acks[a] \in Nat /\ late[a] \in Nat
          /\ called[a] = FALSE /\ actions[a].status = "sending"
        BY <1>0, <1>a, <2>1, <2>2
            DEF TypeInv, HistoryOK, SendInv, Owns, CanSettle
    <2>4. Unsent(a)
        BY <2>3 DEF Unsent
    <2>5. /\ called'[a] = TRUE
          /\ delivered'[a] = IF left THEN delivered[a] + 1 ELSE delivered[a]
          /\ late'[a] = IF left /\ ~ok THEN late[a] + 1 ELSE late[a]
          /\ \A b \in ActionId \ {a} :
                /\ called'[b] = called[b]
                /\ delivered'[b] = delivered[b] /\ late'[b] = late[b]
        BY <1>0, <2>1, <2>2 DEF TypeInv, HistoryOK
    <2>6. pc' = [pc EXCEPT ![p] = IF ok THEN "finishing" ELSE "failing"]
          /\ UNCHANGED <<lock, req, att>>
        BY <2>1 DEF Goto
    <2>7. pc'[p] = (IF ok THEN "finishing" ELSE "failing")
          /\ \A q \in Proc \ {p} : pc'[q] = pc[q]
        BY <1>0, <2>6 DEF TypeInv, ThreadsOK
    <2>8. Owns(p)'
        BY <1>a, <2>1, <2>2, <2>5, <2>6, <2>7 DEF SendInv, Owns, Act
    <2>9. \A q \in Proc \ {p} : pc'[q] \in Window => Act(q) # a
        BY <1>a, <2>2, <2>7, Exclusion
    <2>10. Unsent(a)' => ~ok
        BY <2>1, <2>3, <2>5, <2>6, <2>7, <2>9 DEF Unsent, Act, Window
    <2>11. Counted(a)'
        <3>1. delivered[a] <= acks[a] + late[a]
            BY <1>c, <2>2, <2>4 DEF Counted
        <3> QED BY <2>1, <2>3, <2>5, <2>10, <3>1 DEF Counted
    <2>12. InDoubt(a)'
        <3>1. doubt[a] \/ late[a] > 0 \/ delivered[a] = 0
            BY <1>c, <2>2, <2>4 DEF InDoubt
        <3> QED BY <2>1, <2>3, <2>5, <2>10, <3>1 DEF InDoubt
    <2>13. \A q \in Proc : pc'[q] \in Window /\ Act(q)' # a =>
              /\ pc'[q] = pc[q] /\ req'[q] = req[q] /\ att'[q] = att[q]
              /\ lock[Act(q)] = q => lock'[Act(q)] = q
        BY <1>a, <2>6, <2>7 DEF Act
    <2>14. \A q \in Proc : pc'[q] \in Window /\ Act(q)' = a => Owns(q)'
        BY <2>6, <2>8, <2>9 DEF Act
    <2>15. \A b \in ActionId \ {a} :
              /\ actions'[b] = actions[b] /\ called'[b] = called[b]
              /\ delivered'[b] = delivered[b] /\ late'[b] = late[b]
              /\ acks'[b] = acks[b] /\ doubt'[b] = doubt[b]
        BY <2>1, <2>5
    <2>16. Blank(a)'
        BY <2>1, <2>3 DEF Blank
    <2> QED BY <1>0, <2>2, <2>11, <2>12, <2>13, <2>14, <2>15, <2>16, FrameBut
<1>6. CASE Finish(p)
    <2>1. /\ pc[p] = "finishing"
          /\ Store(a, FinishSend(actions[a]))
          /\ Goto(p, "reading") \/ Return(p)
          /\ history' = history
        BY <1>6, <1>a DEF Finish, WriteBackOrReturn
    <2>2. FinishSend(actions[a]).status = "sent"
        BY <1>b, <2>1, Fields DEF Window
    <2> QED BY <1>0, <1>a, <1>b, <1>d, <2>1, <2>2, LeavesSend DEF history, Window
<1>7. CASE Fail(p)
    <2>1. /\ pc[p] = "failing" /\ Return(p)
          /\ Store(a, FailSend(actions[a]))
          /\ history' = history
        BY <1>7, <1>a DEF Fail
    <2>2. FailSend(actions[a]).status = "failed"
        BY <1>b, <2>1, Fields DEF Window
    <2>3. Unsent(a)
        BY <1>a, <2>1 DEF Unsent
    <2>4. doubt'[a] \/ late[a] > 0 \/ delivered[a] = 0
        BY <1>b, <1>c, <2>1, <2>3 DEF InDoubt, history, Window
    <2> QED BY <1>0, <1>a, <1>b, <1>d, <2>1, <2>2, <2>3, <2>4, LeavesSend
        DEF history, Window
<1>8. CASE CancelDraft(p)
    <2>1. /\ pc[p] = "waiting" /\ lock[a] = NoProc
          /\ Store(a, Cancelled(actions[a]))
          /\ actions[a].status \in {"draft_ready", "failed", "uncertain"}
          /\ history' = history
        BY <1>8, <1>a DEF CancelDraft, HasLock, CanCancel
    <2>2. Cancelled(actions[a]).status = "cancelled"
        BY <1>b, <2>1, Fields
    <2>3. doubt'[a] \/ late[a] > 0 \/ delivered[a] = 0
        BY <1>b, <1>c, <2>1 DEF InDoubt, Unsent, history
    <2>4. CASE Return(p)
        BY <1>0, <1>a, <1>b, <1>d, <2>1, <2>2, <2>3, <2>4, LeavesSend DEF history
    <2>5. CASE ~Return(p)
        <3>1. /\ pc' = [pc EXCEPT ![p] = "reading"]
              /\ lock' = [lock EXCEPT ![a] = p]
              /\ UNCHANGED <<req, att>>
            BY <1>8, <1>a, <2>5 DEF CancelDraft
        <3>2. ASSUME NEW q \in Proc, pc'[q] \in Window
              PROVE  /\ pc'[q] = pc[q] /\ req'[q] = req[q] /\ att'[q] = att[q]
                     /\ Act(q)' # a
                     /\ lock[Act(q)] = q => lock'[Act(q)] = q
            <4>1. q # p /\ pc'[q] = pc[q]
                BY <1>0, <3>1, <3>2 DEF TypeInv, ThreadsOK, Window
            <4>2. Act(q) # a
                BY <1>a, <2>1, <3>2, <4>1, Exclusion
            <4>3. Act(q) \in ActionId
                BY <1>0, <3>2, <4>1, ActIsAction
            <4> QED BY <1>0, <3>1, <4>1, <4>2, <4>3 DEF Act, TypeInv, ThreadsOK
        <3>3. actions'[a] = Cancelled(actions[a])
              /\ \A b \in ActionId \ {a} : actions'[b] = actions[b]
            BY <1>0, <1>b, <2>1 DEF Store, TypeInv, StoreOK
        <3>4. ~Unsent(a)'
            BY <2>2, <3>2, <3>3 DEF Unsent, Window
        <3>5. Counted(a)' /\ InDoubt(a)' /\ Blank(a)'
            BY <1>b, <1>c, <2>1, <2>2, <2>3, <3>3, <3>4
                DEF Counted, InDoubt, Blank, history
        <3> QED BY <1>0, <1>b, <2>1, <3>2, <3>3, <3>5, FrameBut DEF history
    <2> QED BY <2>4, <2>5
<1>9. CASE ReadTasks(p)
    BY <1>0, <1>9, Frame DEF ReadTasks, TypeInv, ThreadsOK, Window, files
<1>10. CASE TruncateTasks(p)
    BY <1>0, <1>10, Frame DEF TruncateTasks, TypeInv, ThreadsOK, Window
<1>11. CASE WriteTasks(p)
    <2>1. ASSUME NEW q \in Proc, pc'[q] \in Window
          PROVE  /\ pc'[q] = pc[q] /\ req'[q] = req[q] /\ att'[q] = att[q]
                 /\ lock[Act(q)] = q => lock'[Act(q)] = q
        <3>1. q # p /\ pc'[q] = pc[q]
            BY <1>0, <1>11, <2>1 DEF WriteTasks, TypeInv, ThreadsOK, Window
        <3>2. Act(q) \in ActionId
            BY <1>0, <2>1, <3>1, ActIsAction
        <3> QED BY <1>0, <1>11, <3>1, <3>2 DEF WriteTasks, Forget, TypeInv, ThreadsOK
    <2> QED BY <1>0, <1>11, <2>1, Frame DEF WriteTasks
<1> QED BY <1>1, <1>2, <1>3, <1>4, <1>5, <1>6, <1>7, <1>8, <1>9, <1>10, <1>11
    DEF Handler

(* No send is under way and nothing has left when the daemon starts.       *)
LEMMA SendInit == Init => SendInv
<1> SUFFICES ASSUME Init PROVE SendInv
    OBVIOUS
<1>1. TypeInv
    BY TypeInit
<1>2. ASSUME NEW p \in Proc PROVE Owns(p)
    BY DEF Init, Owns, Window
<1>3. ASSUME NEW a \in ActionId PROVE Counted(a) /\ InDoubt(a) /\ Blank(a)
    BY DEF Init, Counted, InDoubt, Blank, AbsentRecord
<1> QED BY <1>1, <1>2, <1>3 DEF SendInv

(* Every step of the system keeps SendInv.                                 *)
LEMMA SendStep == SendInv /\ [Next]_vars => SendInv'
<1> SUFFICES ASSUME SendInv, [Next]_vars PROVE SendInv'
    OBVIOUS
<1>0. TypeInv'
    BY TypeStep DEF SendInv
<1>1. CASE \E p \in Proc : Arrival(p) \/ Handler(p)
    BY <1>1, SendArrival, SendHandler
<1>2. CASE Crash
    BY <1>0, <1>2, Frame DEF Crash, Window, files
<1>3. CASE Clock
    BY <1>0, <1>3, Frame DEF Clock, files, threads
<1>4. CASE UNCHANGED vars
    BY <1>0, <1>4, Frame DEF vars, files, threads
<1> QED BY <1>1, <1>2, <1>3, <1>4 DEF Next

(* finish_send and fail_send of a thread that comes back from the          *)
(* connector never find a foreign state in the store.                      *)
THEOREM SettleSafe == Spec => []SettleNeverRejected
<1>1. SendInv => SettleNeverRejected
    BY DEF SendInv, Owns, SettleNeverRejected, Window
<1> QED BY <1>1, SendInit, SendStep, PTL DEF Spec

(* However often the process crashes and clients retry, each copy of a     *)
(* message beyond the first is paid for by a human's acknowledgement or by *)
(* an error the connector wrongly reported.                                *)
THEOREM NoSilentDuplicate == Spec => []DuplicatesAcknowledged
<1>1. SendInv => DuplicatesAcknowledged
    BY DEF SendInv, Counted, DuplicatesAcknowledged
<1> QED BY <1>1, SendInit, SendStep, PTL DEF Spec

(* What the record tells the user about a message that was not sent is     *)
(* true, unless the record has been in doubt.                              *)
THEOREM StatusHonest == Spec => []UnsentUnlessInDoubt
<1>1. SendInv => UnsentUnlessInDoubt
    <2> SUFFICES ASSUME SendInv, NEW a \in ActionId,
                        actions[a].status \in {"draft_ready", "failed", "cancelled", "expired"},
                        ~doubt[a], late[a] = 0
                 PROVE  delivered[a] = 0
        BY DEF UnsentUnlessInDoubt
    <2>1. InDoubt(a)
        BY DEF SendInv
    <2> QED BY <2>1 DEF InDoubt, Unsent
<1> QED BY <1>1, SendInit, SendStep, PTL DEF Spec

-----------------------------------------------------------------------------
(***************************************************************************)
(* The gate implements OutboundApproval, and its records only move forward: *)
(* both follow from what each step does to one record of the store, which   *)
(* the lemma StoreSteps reads off the handlers with the help of the         *)
(* inductive invariant above.                                               *)
(***************************************************************************)

(* The steps of the system as the store and the connector see them.        *)
Quiet == UNCHANGED <<called, wire>>

Rests == actions' = actions /\ Quiet

Drafts(a) ==
    /\ actions[a].status = "absent"
    /\ \E t : Store(a, NewDraft(t, now))
    /\ Quiet

Doubts(a) ==
    /\ actions[a].status = "sending"
    /\ Store(a, MarkUncertain(actions[a]))
    /\ Quiet

Expires(a) ==
    /\ actions[a].status \in {"draft_ready", "failed"}
    /\ Store(a, MarkExpired(actions[a]))
    /\ Quiet

Cancels(a) ==
    /\ actions[a].status \in {"draft_ready", "failed", "uncertain"}
    /\ Store(a, Cancelled(actions[a]))
    /\ Quiet

Starts(a) ==
    /\ actions[a].status \in {"draft_ready", "failed", "uncertain"}
    /\ \E m \in Message : \E c, k : Store(a, StartSend(actions[a], m, c, k))
    /\ called' = [called EXCEPT ![a] = FALSE]
    /\ wire' = wire

Calls(a) ==
    /\ actions[a].status = "sending" /\ ~called[a]
    /\ actions' = actions
    /\ called' = [called EXCEPT ![a] = TRUE]
    /\ wire' = Append(wire, <<a, actions[a].message>>)

Settles(a) ==
    /\ actions[a].status = "sending" /\ called[a]
    /\ Store(a, FinishSend(actions[a])) \/ Store(a, FailSend(actions[a]))
    /\ Quiet

StoreStep(a) ==
    \/ Drafts(a) \/ Doubts(a) \/ Expires(a) \/ Cancels(a)
    \/ Starts(a) \/ Calls(a) \/ Settles(a)

(* Every step changes at most one record, in one of seven ways.            *)
LEMMA StoreSteps ==
    ASSUME SendInv, [Next]_vars
    PROVE  Rests \/ \E a \in ActionId : StoreStep(a)
<1>0. TypeInv
    BY DEF SendInv
<1>1. ASSUME NEW p \in Proc, Arrival(p)
      PROVE  Rests \/ \E a \in ActionId : StoreStep(a)
    <2>1. Quiet
        BY <1>1 DEF Arrival, ExecuteRequest, CancelRequest, DraftFree, DraftForTask,
               CompleteRequest, IgnoreRequest, UpdateRequest, Arrive, Quiet, history
    <2>2. CASE DraftFree(p)
        BY <2>1, <2>2 DEF DraftFree, StoreStep, Drafts
    <2>3. CASE DraftForTask(p)
        BY <2>1, <2>3 DEF DraftForTask, StoreStep, Drafts
    <2>4. CASE ~(DraftFree(p) \/ DraftForTask(p))
        BY <1>1, <2>1, <2>4 DEF Arrival, ExecuteRequest, CancelRequest,
               CompleteRequest, IgnoreRequest, UpdateRequest, Rests, files
    <2> QED BY <2>2, <2>3, <2>4
<1>2. ASSUME NEW p \in Proc, Handler(p)
      PROVE  Rests \/ \E a \in ActionId : StoreStep(a)
    <2>0. pc[p] \in Window \cup {"waiting"} => Act(p) \in ActionId
        BY <1>0, ActIsAction
    <2>1. CASE \/ AnswerOnly(p) \/ PrepareFails(p) \/ SettleLost(p) \/ RefuseCancel(p)
               \/ ReadFails(p) \/ ReadTasks(p) \/ TruncateTasks(p) \/ WriteTasks(p)
        BY <2>1 DEF AnswerOnly, PrepareFails, SettleLost, RefuseCancel, ReadFails,
               ReadTasks, TruncateTasks, WriteTasks, files, history, Rests, Quiet
    <2>2. CASE FoundStale(p)
        BY <2>0, <2>2 DEF FoundStale, HasLock, IsStale, StoreStep, Doubts, Quiet
    <2>3. CASE FoundOverdue(p)
        BY <2>0, <2>3
            DEF FoundOverdue, HasLock, IsOverdue, StoreStep, Expires, Quiet, history
    <2>4. CASE BeginSend(p)
        <3>1. req[p].message \in Message
            BY <1>0, <2>4, ActIsAction DEF BeginSend, HasLock
        <3> QED BY <2>0, <2>4, <3>1 DEF BeginSend, HasLock, CanStart, StoreStep, Starts
    <2>5. CASE CallConnector(p)
        <3>1. /\ pc[p] = "ready" /\ actions' = actions
              /\ wire' = Append(wire, <<Act(p), req[p].message>>)
              /\ called' = [called EXCEPT ![Act(p)] = TRUE]
            BY <2>5 DEF CallConnector, files
        <3>2. /\ actions[Act(p)].status = "sending" /\ ~called[Act(p)]
              /\ actions[Act(p)].message = req[p].message
            BY <3>1 DEF SendInv, Owns, CanSettle, Window
        <3> QED BY <2>0, <3>1, <3>2 DEF StoreStep, Calls, Window
    <2>6. CASE Finish(p)
        <3>1. actions[Act(p)].status = "sending" /\ called[Act(p)]
            BY <2>6 DEF Finish, SendInv, Owns, CanSettle, Window
        <3> QED BY <2>0, <2>6, <3>1
            DEF Finish, StoreStep, Settles, Quiet, history, Window
    <2>7. CASE Fail(p)
        <3>1. actions[Act(p)].status = "sending" /\ called[Act(p)]
            BY <2>7 DEF Fail, SendInv, Owns, CanSettle, Window
        <3> QED BY <2>0, <2>7, <3>1
            DEF Fail, StoreStep, Settles, Quiet, history, Window
    <2>8. CASE CancelDraft(p)
        BY <2>0, <2>8
            DEF CancelDraft, HasLock, CanCancel, StoreStep, Cancels, Quiet, history
    <2> QED BY <1>2, <2>1, <2>2, <2>3, <2>4, <2>5, <2>6, <2>7, <2>8 DEF Handler
<1>3. CASE Crash \/ Clock \/ UNCHANGED vars
    BY <1>3 DEF Crash, Clock, vars, files, history, Rests, Quiet
<1> QED BY <1>1, <1>2, <1>3 DEF Next

-----------------------------------------------------------------------------
(* What a transition of the store does to versions and to the approved     *)
(* text.                                                                   *)
LEMMA VersionsAndTexts ==
    ASSUME NEW r \in Record, NEW m, NEW c, NEW k, NEW t, NEW n
    PROVE  /\ \A s \in {Cancelled(r), MarkUncertain(r), MarkExpired(r),
                        FinishSend(r), FailSend(r)} :
                 s.version = r.version + 1 /\ s.message = r.message
           /\ StartSend(r, m, c, k).version = r.version + 1
           /\ NewDraft(t, n).version = 1
           /\ NewDraft(t, n).message = NoValue
           /\ NewDraft(t, n).status = "draft_ready"
BY DEF Record, Cancelled, MarkUncertain, MarkExpired, FinishSend, FailSend,
       StartSend, NewDraft, AbsentRecord

(* Every change of a record moves its version by one, and terminal records *)
(* never change.                                                           *)
THEOREM RecordsOnlyAdvance == Spec => RecordsAdvance
<1>1. ASSUME SendInv, [Next]_vars, NEW b \in ActionId, actions'[b] # actions[b]
      PROVE  /\ actions'[b].version = actions[b].version + 1
             /\ actions[b].status \notin Terminal
    <2>1. actions \in [ActionId -> Record]
        BY <1>1 DEF SendInv, TypeInv, StoreOK
    <2>2. PICK a \in ActionId : StoreStep(a)
        BY <1>1, StoreSteps DEF Rests
    <2>3. a = b /\ actions[a].status \notin Terminal
        BY <1>1, <2>1, <2>2 DEF StoreStep, Drafts, Doubts, Expires, Cancels, Starts,
               Calls, Settles, Store, Terminal
    <2>4. CASE Drafts(a)
        <3>1. actions[a] = AbsentRecord
            BY <1>1, <2>4 DEF SendInv, Blank, Drafts
        <3> QED BY <2>1, <2>3, <2>4, <3>1, VersionsAndTexts DEF Drafts, Store, AbsentRecord
    <2>5. CASE ~Drafts(a)
        <3>1. actions'[a].version = actions[a].version + 1
            BY <1>1, <2>1, <2>2, <2>3, <2>5, VersionsAndTexts
                DEF StoreStep, Doubts, Expires, Cancels, Starts, Calls, Settles, Store
        <3> QED BY <2>3, <3>1
    <2> QED BY <2>4, <2>5
<1>2. SendInv /\ [Next]_vars =>
         [\A a \in ActionId : actions'[a] # actions[a] =>
             /\ actions'[a].version = actions[a].version + 1
             /\ actions[a].status \notin Terminal]_vars
    BY <1>1
<1> QED BY <1>2, SendInit, SendStep, PTL DEF Spec, RecordsAdvance

-----------------------------------------------------------------------------
(* The refinement.  A step on the record of a moves the phase of a alone.  *)
LEMMA OnePhase ==
    ASSUME NEW a \in ActionId,
           \A b \in ActionId \ {a} :
               actions'[b] = actions[b] /\ called'[b] = called[b]
    PROVE  /\ phaseBar' = [phaseBar EXCEPT ![a] = Phase(a)']
           /\ grantBar' = [grantBar EXCEPT ![a] = actions'[a].message]
<1>1. \A b \in ActionId \ {a} : Phase(b)' = Phase(b)
    BY DEF Phase
<1>2. \A b \in ActionId : phaseBar'[b] = Phase(b)' /\ phaseBar[b] = Phase(b)
    BY DEF phaseBar
<1>3. phaseBar' = [phaseBar EXCEPT ![a] = Phase(a)']
    BY <1>1 DEF phaseBar
<1>4. grantBar' = [grantBar EXCEPT ![a] = actions'[a].message]
    BY DEF grantBar
<1> QED BY <1>3, <1>4

(* The initial states of the gate are initial states of the contract.      *)
LEMMA ApprovalInit == Init => Approval!AInit
<1> SUFFICES ASSUME Init PROVE Approval!AInit
    OBVIOUS
<1>1. phaseBar = [a \in ActionId |-> "none"]
    BY DEF Init, phaseBar, Phase, AbsentRecord
<1>2. grantBar = [a \in ActionId |-> NoValue]
    BY DEF Init, grantBar, AbsentRecord
<1>3. wire = <<>>
    BY DEF Init
<1> QED BY <1>1, <1>2, <1>3 DEF Approval!AInit

(* Every step of the gate is a step of the contract or a stutter.          *)
LEMMA ApprovalStep ==
    ASSUME SendInv, [Next]_vars
    PROVE  Approval!ANext \/ UNCHANGED Approval!avars
<1>1. CASE Rests
    <2>1. phaseBar' = phaseBar /\ grantBar' = grantBar
        BY <1>1 DEF Rests, Quiet, phaseBar, grantBar, Phase
    <2> QED BY <1>1, <2>1 DEF Rests, Quiet, Approval!avars
<1>2. CASE \E a \in ActionId : StoreStep(a)
    <2>0. PICK a \in ActionId : StoreStep(a)
        BY <1>2
    <2>1. actions \in [ActionId -> Record] /\ called \in [ActionId -> BOOLEAN]
        BY DEF SendInv, TypeInv, StoreOK, HistoryOK
    <2>2. \A b \in ActionId \ {a} : actions'[b] = actions[b] /\ called'[b] = called[b]
        BY <2>0, <2>1 DEF StoreStep, Drafts, Doubts, Expires, Cancels, Starts,
               Calls, Settles, Store, Quiet
    <2>3. /\ phaseBar' = [phaseBar EXCEPT ![a] = Phase(a)']
          /\ grantBar' = [grantBar EXCEPT ![a] = actions'[a].message]
        BY <2>2, OnePhase
    <2>4. phaseBar[a] = Phase(a) /\ grantBar[a] = actions[a].message
        BY DEF phaseBar, grantBar
    <2>5. actions'[a].message = actions[a].message => grantBar' = grantBar
        BY <2>3, <2>4 DEF grantBar
    <2>6. CASE Drafts(a)
        <3>1. PICK t : actions' = [actions EXCEPT ![a] = NewDraft(t, now)]
            BY <2>6 DEF Drafts, Store
        <3>2. actions[a] = AbsentRecord
            BY <2>6 DEF SendInv, Blank, Drafts
        <3>3. actions'[a].status = "draft_ready" /\ actions'[a].message = actions[a].message
            BY <2>1, <3>1, <3>2, VersionsAndTexts DEF AbsentRecord
        <3>4. Phase(a) = "none" /\ Phase(a)' = "open"
            BY <2>6, <3>3 DEF Phase, Drafts
        <3>5. Approval!Propose(a)
            BY <2>3, <2>4, <2>5, <2>6, <3>3, <3>4
                DEF Approval!Propose, Approval!Move, Drafts, Quiet
        <3> QED BY <3>5 DEF Approval!ANext
    <2>7. CASE Doubts(a)
        <3>1. actions'[a].status = "uncertain" /\ actions'[a].message = actions[a].message
            BY <2>1, <2>7, Fields, VersionsAndTexts DEF Doubts, Store
        <3>2. Phase(a) \in {"granted", "spent"} /\ Phase(a)' = "open"
            BY <2>7, <3>1 DEF Phase, Doubts
        <3>3. Approval!Reopen(a)
            BY <2>3, <2>4, <2>5, <2>7, <3>1, <3>2
                DEF Approval!Reopen, Approval!Move, Doubts, Quiet
        <3> QED BY <3>3 DEF Approval!ANext
    <2>8. CASE Expires(a) \/ Cancels(a)
        <3>1. actions'[a].status \in {"expired", "cancelled"}
              /\ actions'[a].message = actions[a].message
            BY <2>1, <2>8, Fields, VersionsAndTexts DEF Expires, Cancels, Store
        <3>2. Phase(a) = "open" /\ Phase(a)' = "closed"
            BY <2>8, <3>1 DEF Phase, Expires, Cancels
        <3>3. Approval!Close(a)
            BY <2>3, <2>4, <2>5, <2>8, <3>1, <3>2
                DEF Approval!Close, Approval!Move, Expires, Cancels, Quiet
        <3> QED BY <3>3 DEF Approval!ANext
    <2>9. CASE Starts(a)
        <3>1. PICK m \in Message : \E c, k : Store(a, StartSend(actions[a], m, c, k))
            BY <2>9 DEF Starts
        <3>2. /\ actions'[a].status = "sending" /\ actions'[a].message = m
              /\ called'[a] = FALSE
            BY <2>1, <2>9, <3>1, Fields DEF Starts, Store
        <3>3. Phase(a) = "open" /\ Phase(a)' = "granted"
            BY <2>9, <3>2 DEF Phase, Starts
        <3>4. Approval!Approve(a, m)
            BY <2>3, <2>4, <2>9, <3>2, <3>3
                DEF Approval!Approve, Approval!Move, Starts
        <3> QED BY <3>4 DEF Approval!ANext
    <2>10. CASE Calls(a)
        <3>1. called'[a] = TRUE /\ actions'[a] = actions[a]
            BY <2>1, <2>10 DEF Calls
        <3>2. Phase(a) = "granted" /\ Phase(a)' = "spent"
            BY <2>10, <3>1 DEF Phase, Calls
        <3>3. Approval!Transmit(a)
            BY <2>3, <2>4, <2>5, <2>10, <3>1, <3>2
                DEF Approval!Transmit, Approval!Move, Calls
        <3> QED BY <3>3 DEF Approval!ANext
    <2>11. CASE Settles(a)
        <3>1. /\ actions'[a].status \in {"sent", "failed"}
              /\ actions'[a].message = actions[a].message
            BY <2>1, <2>11, Fields, VersionsAndTexts DEF Settles, Store
        <3>2. Phase(a) = "spent"
            BY <2>11 DEF Phase, Settles
        <3>3. CASE actions'[a].status = "sent"
            <4>1. Phase(a)' = "done"
                BY <3>3 DEF Phase
            <4>2. Approval!Confirm(a)
                BY <2>3, <2>4, <2>5, <2>11, <3>1, <3>2, <4>1
                    DEF Approval!Confirm, Approval!Move, Settles, Quiet
            <4> QED BY <4>2 DEF Approval!ANext
        <3>4. CASE actions'[a].status = "failed"
            <4>1. Phase(a)' = "open"
                BY <3>4 DEF Phase
            <4>2. Approval!Reopen(a)
                BY <2>3, <2>4, <2>5, <2>11, <3>1, <3>2, <4>1
                    DEF Approval!Reopen, Approval!Move, Settles, Quiet
            <4> QED BY <4>2 DEF Approval!ANext
        <3> QED BY <3>1, <3>3, <3>4
    <2> QED BY <2>0, <2>6, <2>7, <2>8, <2>9, <2>10, <2>11 DEF StoreStep
<1> QED BY <1>1, <1>2, StoreSteps

(* The handlers, with crashes, lost writes and stale requests, implement   *)
(* the approval contract: one transmission per approval, of the approved   *)
(* text, none after a confirmation or a cancellation.                      *)
THEOREM GateImplementsApproval == Spec => ImplementsApproval
<1>1. SendInv /\ [Next]_vars => [Approval!ANext]_Approval!avars
    BY ApprovalStep
<1> QED BY <1>1, ApprovalInit, SendInit, SendStep, PTL
    DEF Spec, ImplementsApproval, Approval!ASpec

=============================================================================
