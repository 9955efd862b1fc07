---------------------------- MODULE EventIngest ----------------------------
(***************************************************************************)
(* The way of a connector event into the workflow bindings of the daemon:   *)
(* the subscription stream of one connection (connector_stream.rs), the     *)
(* batch router with its history gate (router.rs, history.rs), the monitor  *)
(* digest queue (router/monitor_digest.rs) and the refresh that starts and  *)
(* stops the stream (manager.rs).                                           *)
(*                                                                         *)
(* The connector numbers what it sends.  Each start hands it the stored     *)
(* cursor: a connector that resumes sends from there, one that does not     *)
(* (Lark and WeChat) goes on wherever its source is by then.  A batch of    *)
(* events is routed on a blocking thread, and the cursor is stored for a    *)
(* batch none of whose actions failed.  Stopping a stream aborts its queue  *)
(* but not that thread: it keeps routing, detached.  A crash keeps the      *)
(* cursor, the connection's state and the history.                          *)
(***************************************************************************)
EXTENDS WorkflowHistory, Sequences, FiniteSets

CONSTANTS
    Last,         \* bound: the connector sends positions 1..Last
    Silent,       \* positions sent as a Checkpoint, without an event
    SelfEvent,    \* events of the user's own messages
    Bindings,     \* the enabled bindings are 1..Bindings, in list order
    Monitor,      \* bindings for which is_monitor_binding is true
    Triage,       \* bindings whose action is TriageAgent
    Unwanted,     \* <<binding, event>> pairs the binding's filters reject
    Resumes,      \* the connector sends again all that follows the cursor
    Worker,       \* bound: threads that route or flush at the same time
    Faults,       \* which faults may happen: crash, exit, degrade, filter
    MaxFaults     \* bound: how many of them

Position == 1..Last
Event    == Position \ Silent
Binding  == 1..Bindings
Digest   == Monitor \cap Triage      \* MonitorDigestQueue::handles

ASSUME SizeAssumption == Last \in Nat /\ Bindings \in Nat /\ MaxFaults \in Nat
ASSUME KindAssumption ==
    /\ Resumes \in BOOLEAN
    /\ Silent \subseteq Position
    /\ SelfEvent \subseteq Event
    /\ Monitor \subseteq Binding
    /\ Triage \subseteq Binding
    /\ Unwanted \subseteq Binding \X Event
    /\ Faults \subseteq {"crash", "exit", "degrade", "filter"}

(* The connectors of the repository send a Checkpoint only before they send *)
(* events.                                                                  *)
ASSUME CheckpointAssumption == \A s \in Silent, e \in Event : s < e

VARIABLES
    rows,       \* workflow history: the rows of each binding and event
    cursor,     \* the connection's stored cursor
    conn,       \* the connection's state: active or degraded
    stream,     \* the stream task: none, up, draining or ended
    next,       \* the position the connector sends next, 1 without a stream
    pending,    \* events received and not yet taken into a batch
    acks,       \* the processed queue: cursors to store, Failure at its end
    work,       \* what each routing or flushing thread is doing
    digest,     \* pending digest: the events queued for each binding
    scheduled,  \* MonitorDigestInner.scheduled
    timer,      \* a flush task is sleeping
    refresh,    \* the refresh in progress and the record it has listed
    faults      \* number of faults so far

(* How often each binding was run for each event: a history variable,      *)
(* counted up to one more than the retry budget.                           *)
VARIABLE tries

(* The events behind some cursor that a connector which does not resume    *)
(* has left out of a new stream: a history variable.                       *)
VARIABLE lost

streamVars == <<stream, next, pending, acks>>
digestVars == <<digest, scheduled, timer>>
connVars   == <<cursor, conn>>
vars == <<rows, connVars, streamVars, work, digestVars, refresh, faults, tries, lost>>

Failure == 0    \* the Failed message in the processed queue

NoGroups == [b \in Binding |-> <<>>]

IdleWork ==
    [role    |-> "idle",     \* idle, stream, detached or flush
     at      |-> "check",    \* check, record, start, run or settle
     batch   |-> <<>>,       \* the events to route
     binding |-> 1,          \* the binding they are being routed to
     pos     |-> 1,          \* the next event of the batch
     groups  |-> NoGroups,   \* triage batches, or what a flush took
     unit    |-> <<>>,       \* the events of the current dispatch
     done    |-> 0,          \* how many of them have been recorded
     ok      |-> FALSE,      \* the result of the dispatch
     failed  |-> FALSE]      \* some dispatch failed

Listed == [open : BOOLEAN, active : BOOLEAN, cursor : Nat]
NoRefresh == [open |-> FALSE, active |-> FALSE, cursor |-> 0]

Init ==
    /\ rows = [b \in Binding |-> [e \in Event |-> NoRows]]
    /\ cursor = 0
    /\ conn = "active"
    /\ stream = "none"
    /\ next = 1
    /\ pending = <<>>
    /\ acks = <<>>
    /\ work = [w \in Worker |-> IdleWork]
    /\ digest = NoGroups
    /\ scheduled = FALSE
    /\ timer = FALSE
    /\ refresh = NoRefresh
    /\ faults = 0
    /\ tries = [b \in Binding |-> [e \in Event |-> 0]]
    /\ lost = {}

-----------------------------------------------------------------------------
(* The stream task.                                                        *)

(* Mutant: the cursor is stored when the event arrives.                    *)
ReceiveEventAcked ==
    /\ stream = "up"
    /\ next \in Event
    /\ pending' = Append(pending, next)
    /\ next' = next + 1
    /\ cursor' = next
    /\ UNCHANGED <<rows, conn, stream, acks, work, digestVars, refresh, faults, tries, lost>>

(* handle_frame: an event is queued for the processor.                     *)
ReceiveEvent ==
    /\ stream = "up"
    /\ next \in Event
    /\ pending' = Append(pending, next)
    /\ next' = next + 1
    /\ UNCHANGED <<rows, connVars, stream, acks, work, digestVars, refresh, faults, tries, lost>>

(* handle_frame: a checkpoint is stored at once.                           *)
ReceiveCheckpoint ==
    /\ stream = "up"
    /\ next \in Silent
    /\ cursor' = next
    /\ next' = next + 1
    /\ UNCHANGED <<rows, conn, stream, pending, acks, work, digestVars,
                   refresh, faults, tries, lost>>

Attached == {w \in Worker : work[w].role = "stream"}

Broken == \E i \in DOMAIN acks : acks[i] = Failure

(* run_processor_queue: one batch at a time, with all that has arrived.    *)
TakeBatch(w) ==
    /\ stream \in {"up", "draining"}
    /\ pending # <<>>
    /\ Attached = {}
    /\ ~Broken
    /\ work[w].role = "idle"
    /\ work' = [work EXCEPT ![w] = [IdleWork EXCEPT !.role = "stream",
                                                    !.batch = pending]]
    /\ pending' = <<>>
    /\ UNCHANGED <<rows, connVars, stream, next, acks, digestVars, refresh,
                   faults, tries, lost>>

(* When the connector's output has ended, the processor finishes first.    *)
Applying ==
    \/ stream = "up"
    \/ stream = "draining" /\ Attached = {} /\ (pending = <<>> \/ Broken)

(* apply_processed_events: each cursor of a processed batch is stored.     *)
ApplyAck ==
    /\ Applying
    /\ acks # <<>>
    /\ Head(acks) # Failure
    /\ cursor' = Head(acks)
    /\ acks' = Tail(acks)
    /\ UNCHANGED <<rows, conn, stream, next, pending, work, digestVars,
                   refresh, faults, tries, lost>>

(* The end of run_stream without a shutdown request: after a failed batch, *)
(* or after everything the connector had sent is processed.                *)
StreamEnds ==
    /\ Applying
    /\ \/ acks # <<>> /\ Head(acks) = Failure
       \/ acks = <<>> /\ stream = "draining"
    /\ stream' = "ended"
    /\ next' = 1
    /\ pending' = <<>>
    /\ acks' = <<>>
    /\ conn' = "degraded"
    /\ UNCHANGED <<rows, cursor, work, digestVars, refresh, faults, tries, lost>>

-----------------------------------------------------------------------------
(* process_envelope_batch_result_with_monitor_digest, thread by thread: an *)
(* outer loop over the bindings and an inner one over the batch.  A flush  *)
(* of the digest dispatches the groups it took: the same loop over the     *)
(* bindings with an empty batch.                                           *)

Routing(w, at) == work[w].role # "idle" /\ work[w].at = at

InBatch(w) ==
    /\ Routing(w, "check")
    /\ work[w].binding \in Binding
    /\ work[w].pos <= Len(work[w].batch)

AfterBatch(w) ==
    /\ Routing(w, "check")
    /\ work[w].binding \in Binding
    /\ work[w].pos > Len(work[w].batch)

TheEvent(w) == work[w].batch[work[w].pos]
TheRows(w)  == rows[work[w].binding][TheEvent(w)]
Group(w)    == work[w].groups[work[w].binding]

(* prefilter_envelope_for_spec: the history gate, then the filters.        *)
Fresh(w)  == TheEvent(w) \notin SelfEvent /\ Decision(TheRows(w)) = "allow"
Wanted(w) == <<work[w].binding, TheEvent(w)>> \notin Unwanted

UpdateRows(b, e, new) == rows' = [rows EXCEPT ![b][e] = new]

Advance(w) == [work[w] EXCEPT !.pos = @ + 1]

UnitDone(r) == [r EXCEPT !.unit = <<>>, !.done = 0, !.ok = FALSE, !.at = "check"]

(* Seen before, or an own message that the self gate does not let through. *)
SkipEvent(w) ==
    /\ InBatch(w)
    /\ ~Fresh(w)
    /\ work' = [work EXCEPT ![w] = Advance(w)]
    /\ UNCHANGED <<rows, connVars, streamVars, digestVars, refresh, faults, tries, lost>>

(* Filtered out; a monitor binding leaves a completed row.                 *)
FilterEvent(w) ==
    /\ InBatch(w)
    /\ Fresh(w) /\ ~Wanted(w)
    /\ IF work[w].binding \in Monitor
       THEN UpdateRows(work[w].binding, TheEvent(w), WithOutcome(TheRows(w)))
       ELSE UNCHANGED rows
    /\ work' = [work EXCEPT ![w] = Advance(w)]
    /\ UNCHANGED <<connVars, streamVars, digestVars, refresh, faults, tries, lost>>

(* Matched by a triage binding: dispatched later, with the whole batch.    *)
CollectEvent(w) ==
    /\ InBatch(w)
    /\ Fresh(w) /\ Wanted(w)
    /\ work[w].binding \in Triage
    /\ work' = [work EXCEPT ![w] =
                  [Advance(w) EXCEPT !.groups[work[w].binding] =
                                        Append(@, TheEvent(w))]]
    /\ UNCHANGED <<rows, connVars, streamVars, digestVars, refresh, faults, tries, lost>>

(* Matched by another binding, or an own message that a monitor binding    *)
(* and the self gate let through, whatever the history says; the bound on  *)
(* such dispatches is one more than the retry budget.                      *)
DispatchEvent(w) ==
    /\ InBatch(w)
    /\ \/ Fresh(w) /\ Wanted(w) /\ work[w].binding \notin Triage
       \/ /\ TheEvent(w) \in SelfEvent /\ work[w].binding \in Monitor
          /\ tries[work[w].binding][TheEvent(w)] <= MaxFailed    \* bound
    /\ work' = [work EXCEPT ![w] =
                  [Advance(w) EXCEPT !.unit = <<TheEvent(w)>>, !.done = 0,
                                     !.at = "start"]]
    /\ UNCHANGED <<rows, connVars, streamVars, digestVars, refresh, faults, tries, lost>>

NextBinding(w) ==
    /\ AfterBatch(w)
    /\ Group(w) = <<>>
    /\ work' = [work EXCEPT ![w].binding = @ + 1, ![w].pos = 1]
    /\ UNCHANGED <<rows, connVars, streamVars, digestVars, refresh, faults, tries, lost>>

(* enqueue_batch: the group joins the digest, and a flush is scheduled     *)
(* unless one is.                                                          *)
EnqueueGroup(w) ==
    LET b == work[w].binding
    IN  /\ AfterBatch(w)
        /\ Group(w) # <<>>
        /\ b \in Digest /\ work[w].role # "flush"
        /\ digest' = [digest EXCEPT ![b] = @ \o Group(w)]
        /\ scheduled' = TRUE
        /\ timer' = (timer \/ ~scheduled)
        /\ work' = [work EXCEPT ![w].unit = Group(w), ![w].done = 0,
                                ![w].at = "record", ![w].groups[b] = <<>>]
        /\ UNCHANGED <<rows, connVars, streamVars, refresh, faults, tries, lost>>

(* record_monitor_router_outcome("monitor_digest_queued"), event by event. *)
RecordQueued(w) ==
    LET b == work[w].binding
        e == work[w].unit[work[w].done + 1]
        n == work[w].done + 1
    IN  /\ Routing(w, "record")
        /\ UpdateRows(b, e, WithOutcome(rows[b][e]))
        /\ work' = [work EXCEPT ![w] = IF n = Len(@.unit) THEN UnitDone(@)
                                       ELSE [@ EXCEPT !.done = n]]
        /\ UNCHANGED <<connVars, streamVars, digestVars, refresh, faults, tries, lost>>

(* dispatch_matched_batch                                                  *)
DispatchGroup(w) ==
    LET b == work[w].binding
    IN  /\ AfterBatch(w)
        /\ Group(w) # <<>>
        /\ b \notin Digest \/ work[w].role = "flush"
        /\ work' = [work EXCEPT ![w].unit = Group(w), ![w].done = 0,
                                ![w].at = "start", ![w].groups[b] = <<>>]
        /\ UNCHANGED <<rows, connVars, streamVars, digestVars, refresh, faults, tries, lost>>

(* append_action_started, event by event.                                  *)
StartRow(w) ==
    LET b == work[w].binding
        e == work[w].unit[work[w].done + 1]
        n == work[w].done + 1
    IN  /\ Routing(w, "start")
        /\ UpdateRows(b, e, WithStarted(rows[b][e]))
        /\ work' = [work EXCEPT ![w].done = n,
                       ![w].at = IF n = Len(work[w].unit) THEN "run" ELSE @]
        /\ UNCHANGED <<connVars, streamVars, digestVars, refresh, faults, tries, lost>>

InUnit(w, b, e) ==
    b = work[w].binding /\ \E i \in DOMAIN work[w].unit : work[w].unit[i] = e

(* The dispatcher runs the action; it may succeed or fail.                 *)
RunAction(w) ==
    /\ Routing(w, "run")
    /\ \E ok \in BOOLEAN :
          work' = [work EXCEPT ![w].ok = ok, ![w].done = 0, ![w].at = "settle"]
    /\ tries' = [b \in Binding |-> [e \in Event |->
                    IF InUnit(w, b, e) /\ tries[b][e] <= MaxFailed
                    THEN tries[b][e] + 1 ELSE tries[b][e]]]
    /\ UNCHANGED <<rows, connVars, streamVars, digestVars, refresh, faults, lost>>

(* persist_action_result and account_action_result, event by event.        *)
SettleRow(w) ==
    LET b == work[w].binding
        e == work[w].unit[work[w].done + 1]
        n == work[w].done + 1
    IN  /\ Routing(w, "settle")
        /\ UpdateRows(b, e, WithResult(rows[b][e], work[w].ok))
        /\ work' = [work EXCEPT ![w] =
                       IF n = Len(@.unit)
                       THEN [UnitDone(work[w]) EXCEPT !.failed = work[w].failed \/ ~work[w].ok]
                       ELSE [@ EXCEPT !.done = n]]
        /\ UNCHANGED <<connVars, streamVars, digestVars, refresh, faults, tries, lost>>

(* Mutant: the batch is acknowledged although an action failed.            *)
ReportAlways(w) ==
    /\ Routing(w, "check")
    /\ work[w].binding \notin Binding
    /\ acks' = IF work[w].role = "stream" THEN acks \o work[w].batch ELSE acks
    /\ work' = [work EXCEPT ![w] = IdleWork]
    /\ UNCHANGED <<rows, connVars, stream, next, pending, digestVars, refresh,
                   faults, tries, lost>>

(* process_connector_events returns.  Any failure fails the whole batch;   *)
(* nobody listens to a detached thread or to a flush.                      *)
Report(w) ==
    /\ Routing(w, "check")
    /\ work[w].binding \notin Binding
    /\ acks' = CASE work[w].role # "stream" -> acks
                 [] work[w].role = "stream" /\ work[w].failed -> Append(acks, Failure)
                 [] OTHER -> acks \o work[w].batch
    /\ work' = [work EXCEPT ![w] = IdleWork]
    /\ UNCHANGED <<rows, connVars, stream, next, pending, digestVars, refresh,
                   faults, tries, lost>>

Route(w) ==
    \/ SkipEvent(w) \/ FilterEvent(w) \/ CollectEvent(w) \/ DispatchEvent(w)
    \/ NextBinding(w) \/ EnqueueGroup(w) \/ RecordQueued(w) \/ DispatchGroup(w)
    \/ StartRow(w) \/ RunAction(w) \/ SettleRow(w) \/ Report(w)

-----------------------------------------------------------------------------
(* Mutant: scheduled is not reset.                                         *)
FlushUnreset(w) ==
    /\ timer
    /\ work[w].role = "idle"
    /\ timer' = FALSE
    /\ digest' = NoGroups
    /\ work' = [work EXCEPT ![w] = [IdleWork EXCEPT !.role = "flush",
                                                    !.groups = digest]]
    /\ UNCHANGED <<rows, connVars, streamVars, scheduled, refresh, faults, tries, lost>>

(* flush: the sleeping task wakes up and takes all that is pending.        *)
Flush(w) ==
    /\ timer
    /\ work[w].role = "idle"
    /\ timer' = FALSE
    /\ scheduled' = FALSE
    /\ digest' = NoGroups
    /\ work' = [work EXCEPT ![w] = [IdleWork EXCEPT !.role = "flush",
                                                    !.groups = digest]]
    /\ UNCHANGED <<rows, connVars, streamVars, refresh, faults, tries, lost>>

-----------------------------------------------------------------------------
(* refresh_connector_streams.  It drops the handle of a finished stream,   *)
(* lists the connection, and acts on what it listed.                       *)

(* Mutant: the handle of a finished stream is kept.                        *)
ListUnreaped ==
    /\ ~refresh.open
    /\ refresh' = [open |-> TRUE, active |-> conn = "active", cursor |-> cursor]
    /\ UNCHANGED <<rows, connVars, streamVars, work, digestVars, faults, tries, lost>>

(* The first half: reap and list.                                          *)
List ==
    /\ ~refresh.open
    /\ refresh' = [open |-> TRUE, active |-> conn = "active", cursor |-> cursor]
    /\ stream' = IF stream = "ended" THEN "none" ELSE stream
    /\ UNCHANGED <<rows, connVars, next, pending, acks, work, digestVars,
                   faults, tries, lost>>

(* Where a stream started with cursor c may begin.                         *)
BeginsAt(c) == IF Resumes THEN {c + 1} ELSE (c + 1)..(Last + 1)

(* ConnectorStreamHandle::spawn passes the listed cursor on; what the new  *)
(* stream does not begin with is sent to nobody.                           *)
Spawn ==
    /\ stream' = "up"
    /\ next' \in BeginsAt(refresh.cursor)
    /\ lost' = lost \cup {e \in Event : refresh.cursor < e /\ e < next'}
    /\ pending' = <<>>
    /\ acks' = <<>>

StartStream ==
    /\ refresh.open /\ refresh.active
    /\ stream = "none"
    /\ Spawn
    /\ refresh' = NoRefresh
    /\ UNCHANGED <<rows, connVars, work, digestVars, faults, tries>>

(* The stream is as it should be, or is about to end by itself.            *)
LeaveStream ==
    /\ refresh.open
    /\ refresh.active <=> stream # "none"
    /\ refresh' = NoRefresh
    /\ UNCHANGED <<rows, connVars, streamVars, work, digestVars, faults, tries, lost>>

(* A shutdown aborts the queue; the thread it was waiting for goes on.     *)
Detached == [w \in Worker |->
    IF work[w].role = "stream" THEN [work[w] EXCEPT !.role = "detached"]
                               ELSE work[w]]

(* A stream that has begun to end by itself is waited for.                 *)
StopStream ==
    /\ refresh.open /\ ~refresh.active
    /\ stream \in {"up", "ended"}
    /\ stream' = "none"
    /\ next' = 1
    /\ pending' = <<>>
    /\ acks' = <<>>
    /\ work' = Detached
    /\ refresh' = NoRefresh
    /\ UNCHANGED <<rows, connVars, digestVars, faults, tries, lost>>

(* The contact filter has changed: stop, then start again with the cursor  *)
(* that was listed before the stop.                                        *)
RestartStream ==
    /\ "filter" \in Faults /\ faults < MaxFaults
    /\ refresh.open /\ refresh.active
    /\ stream \in {"up", "ended"}
    /\ Spawn
    /\ work' = Detached
    /\ refresh' = NoRefresh
    /\ faults' = faults + 1
    /\ UNCHANGED <<rows, connVars, digestVars, tries>>

Refresh == List \/ StartStream \/ LeaveStream \/ StopStream \/ RestartStream

(* refresh_connection_auth or a health event finds the connection healthy. *)
Recover ==
    /\ conn = "degraded"
    /\ conn' = "active"
    /\ UNCHANGED <<rows, cursor, streamVars, work, digestVars, refresh, faults, tries, lost>>

-----------------------------------------------------------------------------
(* Faults.                                                                 *)

Fault(kind) == kind \in Faults /\ faults < MaxFaults /\ faults' = faults + 1

(* The connector's process exits: its output ends.                         *)
ConnectorExits ==
    /\ Fault("exit")
    /\ stream = "up"
    /\ stream' = "draining"
    /\ next' = 1
    /\ UNCHANGED <<rows, connVars, pending, acks, work, digestVars,
                   refresh, tries, lost>>

(* An unhealthy frame or auth check.                                       *)
Degrade ==
    /\ Fault("degrade")
    /\ conn = "active"
    /\ conn' = "degraded"
    /\ UNCHANGED <<rows, cursor, streamVars, work, digestVars, refresh, tries, lost>>

(* The daemon dies and starts again.                                       *)
Crash ==
    /\ Fault("crash")
    /\ rows' = [b \in Binding |-> [e \in Event |-> Reclaimed(rows[b][e])]]
    /\ stream' = "none"
    /\ next' = 1
    /\ pending' = <<>>
    /\ acks' = <<>>
    /\ work' = [w \in Worker |-> IdleWork]
    /\ digest' = NoGroups
    /\ scheduled' = FALSE
    /\ timer' = FALSE
    /\ refresh' = NoRefresh
    /\ UNCHANGED <<connVars, tries, lost>>

Stream == ReceiveEvent \/ ReceiveCheckpoint \/ ApplyAck \/ StreamEnds

Next ==
    \/ Stream
    \/ \E w \in Worker : TakeBatch(w) \/ Route(w) \/ Flush(w)
    \/ Refresh \/ Recover
    \/ ConnectorExits \/ Degrade \/ Crash

Spec == Init /\ [][Next]_vars

(* Threads and tasks that can run do; the auth monitor refreshes every      *)
(* minute, and the connection's auth check succeeds sooner or later.        *)
Fairness ==
    /\ WF_vars(Stream)
    /\ WF_vars(Refresh)
    /\ WF_vars(Recover)
    /\ \A w \in Worker :
          WF_vars(TakeBatch(w)) /\ WF_vars(Route(w)) /\ WF_vars(Flush(w))

FairSpec == Spec /\ Fairness

-----------------------------------------------------------------------------
Work ==
    [role    : {"idle", "stream", "detached", "flush"},
     at      : {"check", "record", "start", "run", "settle"},
     batch   : Seq(Event),
     binding : 1..(Bindings + 1),
     pos     : Nat \ {0},
     groups  : [Binding -> Seq(Event)],
     unit    : Seq(Event),
     done    : Nat,
     ok      : BOOLEAN,
     failed  : BOOLEAN]

(* Types; in particular no row leaves "running" twice.                      *)
TypeOK ==
    /\ rows \in [Binding -> [Event -> Rows]]
    /\ cursor \in 0..Last
    /\ conn \in {"active", "degraded"}
    /\ stream \in {"none", "up", "draining", "ended"}
    /\ next \in 1..(Last + 1)
    /\ pending \in Seq(Event)
    /\ acks \in Seq(Event \cup {Failure})
    /\ work \in [Worker -> Work]
    /\ digest \in [Binding -> Seq(Event)]
    /\ scheduled \in BOOLEAN
    /\ timer \in BOOLEAN
    /\ refresh \in Listed
    /\ faults \in 0..MaxFaults
    /\ tries \in [Binding -> [Event -> 0..(MaxFailed + 1)]]
    /\ lost \subseteq Event

(* The pairs the history gate is for: an event that passes the binding's    *)
(* filters and is not the user's own message.                               *)
Gated(b, e) == <<b, e>> \notin Unwanted /\ e \notin SelfEvent

Handled(b, e) == rows[b][e].completed > 0 \/ rows[b][e].failed >= MaxFailed

(* An event behind the stored cursor will not be sent again: each binding   *)
(* that dispatches directly has completed it or used up its retries, even   *)
(* if the daemon crashed or the connector exited on the way                 *)
(* (connector_stream.rs:27, "Returning an error prevents cursor ack").  The *)
(* one way past it is a connector that left the event out when it was       *)
(* started again: the host itself skips nothing.                            *)
AckedHandled ==
    \A b \in Binding \ Digest, e \in Event \ lost :
        e <= cursor /\ Gated(b, e) => Handled(b, e)

(* The weaker form that also holds when streams are stopped and restarted:  *)
(* the host passes over nothing that a binding's history has never seen.    *)
AckedSeen ==
    \A b \in Binding, e \in Event \ lost :
        e <= cursor /\ Gated(b, e) => rows[b][e] # NoRows

(* An event that keeps failing, or keeps crashing the daemon, is run at     *)
(* most MAX_FAILED_ATTEMPTS times per binding (history.rs:41).              *)
AttemptsBounded ==
    \A b \in Binding, e \in Event : Gated(b, e) => tries[b][e] <= MaxFailed

(* "success must not re-run" (history.rs:378): once a run of a directly     *)
(* dispatching binding has completed, a redelivery does not start another.  *)
NeverRerun ==
    [][\A b \in Binding \ Digest, e \in Event :
          Gated(b, e) /\ rows[b][e].completed > 0 => tries'[b][e] = tries[b][e]]_vars

(* The places in thread w's unit with a row of b and e not yet settled.     *)
Unsettled(w, b, e) ==
    {i \in DOMAIN work[w].unit :
        /\ b = work[w].binding
        /\ e = work[w].unit[i]
        /\ \/ work[w].at = "start" /\ i <= work[w].done
           \/ work[w].at = "run"
           \/ work[w].at = "settle" /\ i > work[w].done}

(* A "running" row, which suppresses every redelivery of its event, always  *)
(* has a thread that will settle it: a crash or a stopped stream leaves no  *)
(* orphan behind (history.rs, root cause D).                                *)
RunningOwned ==
    \A b \in Binding, e \in Event :
        rows[b][e].running =
            Cardinality(UNION {{w} \X Unsettled(w, b, e) : w \in Worker})

(* Queued events are flushed: whenever the digest holds an event, a flush   *)
(* task is on its way, also when events arrive during a flush.              *)
DigestHasTimer == (\E b \in Binding : digest[b] # <<>>) => timer

(* The stream never gets stuck on a bad event: after the last fault every   *)
(* event is acknowledged, whatever the actions return, but for those the    *)
(* connector left out.                                                      *)
AllAcked == <>[](\A e \in Event \ lost : e <= cursor)

-----------------------------------------------------------------------------
(* What comments in the code say, and the code does not do.                 *)

InFlight(b, e) ==
    \/ \E i \in DOMAIN digest[b] : digest[b][i] = e
    \/ \E w \in Worker :
          \/ \E i \in DOMAIN work[w].groups[b] : work[w].groups[b][i] = e
          \/ InUnit(w, b, e)

(* "Resume from the provided cursor" and "Do not drop unacked events        *)
(* silently" (connector_tools.rs:1184-1186, of every stream connector): an  *)
(* event that was delivered and failed is not passed by the cursor while it *)
(* has retries left.  Lark and WeChat do not send it again.                 *)
NothingDropped ==
    \A b \in Binding \ Digest, e \in Event :
        e <= cursor /\ Gated(b, e) /\ rows[b][e].failed > 0 => Handled(b, e)

(* "Acknowledge that the host has durably handled one event": events of a   *)
(* monitor binding are acknowledged while they sit in the digest queue in   *)
(* memory, and a crash loses them.                                          *)
AckedDurably ==
    \A b \in Digest, e \in Event :
        e <= cursor /\ Gated(b, e) => tries[b][e] > 0 \/ InFlight(b, e)

(* "a failed or never-completed trigger should be retryable on the next     *)
(* delivery": a redelivery that meets the row of a detached thread is       *)
(* acknowledged, and the thread's failure is never retried.                 *)
FailureRetried ==
    \A b \in Binding \ Digest, e \in Event :
        e <= cursor /\ Gated(b, e) => Handled(b, e) \/ rows[b][e].running > 0

(* "Keeps a permanently-failing trigger from re-running a full model turn   *)
(* on every redelivery forever": own messages bypass the gate.              *)
EveryTriggerBounded ==
    \A b \in Binding, e \in Event : tries[b][e] <= MaxFailed
=============================================================================
