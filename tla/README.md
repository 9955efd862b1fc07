# Verification of the Puffer daemon

Puffer is an agent runtime: a daemon that reads the user's messages through
connectors, lets an agent work on them, and sends messages in the user's name.
This directory holds TLA+ specifications of the paths where a mistake is
visible to other people and hard to find by testing:

* the way **out**: a draft of the agent is approved by a human and sent;
* the way **in**: an event of a connector reaches every workflow binding,
  although actions fail and processes die;
* the **turn**: the agent works in a thread of its own while clients answer its
  prompts, cancel it, come and go, and the daemon crashes;
* the **subscriber process** that carries out commands, and is restarted while
  somebody waits for its answer.

It holds the TLC configurations that check them and TLAPS proofs.

## 1. The system

| Part | State | Operations | Modelled in |
|---|---|---|---|
| Outbound action store (`puffer-subscriptions/src/outbound_store.rs`) | `outbound_actions.json`: per action status, version, attempt, approved text, expiry | `create_draft`, `begin_send`, `finish_send`, `fail_send`, `cancel` | `OutboundStore` |
| Approval RPCs (`puffer-cli/src/daemon_workflows/outbound_action.rs`) | one lock per action, handler threads | `execute`, `cancel` | `OutboundAction` |
| Monitor tasks (`monitor_task_complete.rs`, `monitor_task_ignore.rs`, `workflow/task_tools.rs`, `workflow/store.rs`) | `monitor_tasks.json`, rewritten as a whole, without a lock | write-back of receipts and references, complete, ignore, `TaskUpdate` | `MonitorTasks`, `OutboundAction` |
| Draft tool (`workflow/connector_tools.rs`) | – | `ConnectorActionDraft` | `OutboundAction` |
| Connector stream (`connector_stream.rs`) | child process, queue of pending events, queue of results, stored cursor | receive, batch, acknowledge, end | `EventIngest` |
| Router and digest (`router.rs`, `router/monitor_digest.rs`) | digest queue in memory | route a batch to the bindings, dispatch, enqueue, flush | `EventIngest` |
| Workflow history (`history.rs`) | rows of runs in a file | dedup decision, start, settle, reclaim on boot | `WorkflowHistory` |
| Subscription manager (`manager.rs`, `connection.rs`) | stream handles, connection state | refresh streams, auth check, health events | `EventIngest` |
| Daemon turns (`puffer-cli/src/daemon.rs`, `daemon_turn_scope.rs`, `daemon_turn_recovery.rs`) | registry of turns, a scope with pending prompts per turn, progress flags, the session's transcript | start, worker thread, prompt, resolve, cancel, finish, report, recover | `DaemonTurn`, `TurnScope` |
| Agent loop and tool batches (`agent_loop.rs`, `tool_batch.rs`, `tool_executor.rs`) | the batch under way | rounds, serial batch, batch with threads | `DaemonTurn` |
| Background tasks (`background_tasks.rs`, `bash.rs`, `agents.rs`, `teammate_loop.rs`) | registry of tasks with owner and durability; the threads of agents and teammates | register, complete, stop, stop by turn | `BackgroundTasks` |
| Outbound budget (`outbound_budget.rs`) | counters per turn | charge, clear | `DaemonTurn` |
| Daemon clients (`daemon.rs`) | replay ring, broadcast channel, sockets, client count, watchdogs | publish, replay, subscribe, forward, disconnect, cancel all | `DaemonClients` |
| Subscriber supervisor, commands, event bus (`puffer-subscriber-runtime`, `manager.rs`) | handle per subscriber, child process, stdin with a generation, bus | spawn, restart with backoff, respawn, send and wait | `SubscriberCommand` |
| Agent proxies (`connector_processor.rs`) | rules per connection | answer an event before the router sees it | plan |
| Automations, workflow runtime client | automation store | schedule and run automations | plan |
| Permissions, outbound gate, session store, contacts, connectors, providers, runners, TUI, desktop application | – | – | not modelled (section 8) |

How they meet: an event of a connector is routed to the bindings; a monitor
binding runs a triage agent, which creates tasks and drafts; a draft waits in
the outbound store until a client calls `execute`; the daemon calls the
connector, records the outcome and writes it back into the task. Commands to a
connector's subscriber process go over its stdin, their answers come back as
events on a bus. An interactive turn is started by a client, publishes its
progress to every client and asks them for permissions; when the last client
leaves, a watchdog cancels it.

What is hard:

* *Concurrency.* RPC handlers run on threads of their own; the task file has
  six kinds of writer and no lock. A stopped stream does not stop the blocking thread
  that routes its last batch, so old and new streams route the same events at
  the same time, and digest flushes run next to both.
* *Crashes.* A send has three effects (record, message, task file) and no
  transaction. An event has a history row per binding, a cursor, and possibly a
  place in a queue that exists only in memory.
* *Redelivery.* The guide for stream connectors asks them to send everything after
  the stored cursor again; Lark and WeChat do not. One failure fails a whole batch, and what succeeded in it must not run
  twice.
* *Cancellation.* Whoever cancels a turn does not wait for its worker: two
  threads finish the scope, write the transcript, stop the children and clear
  the budget at the same time, held apart only by a few flags. Agents that the
  turn started run on in its name with neither its token nor its boundaries.
* *Lossy channels.* Both event buses drop the oldest events of a slow receiver,
  and answers to commands carry no id.
* *Time.* Drafts expire by the wall clock; clients retry with stale versions;
  prompts and command waits time out while their answer is on its way.

What makes the parts correct: nothing is sent without an approval of exactly
that text, nothing is sent twice unless a human accepts the risk, a status never
hides a send; no event is acknowledged before it was handled, none runs again
after it succeeded, a bad event does not block the stream, and no row or queue
entry is left with nobody responsible for it; no tool runs on a permission nobody
gave, a stopped turn stops, every turn is settled and its transcript says so, an
interrupted prompt is retried once; an answer goes to the call it belongs to;
and a client sees the events of a turn in order.

## 2. The outbound gate

### Modules

* `OutboundStore`: a record and its transitions as operators on records,
  including the branches of `begin_send`: replay of the same client request,
  discovery of an interrupted send, lazy expiry, and a start.
* `MonitorTasks`: a task (reference, receipts, status, on what ground it was
  completed) and the edits that the writers make to their copy of it. Two gates
  hold a completion back, and they are not the same: the RPC's
  (`is_human_gated_reply_task`, `GatedTask`) and the agent's
  (`monitor_task_requires_human_approval`, `ApprovalTask`, and
  `monitor_task_is_typed_executable`, `TypedTask`). Which task falls under which is
  a constant; their metadata decides it in the code.
* `OutboundAction`: the handlers. Each thread has a program counter. An
  `execute` waits for the action lock, begins the send in the store (or finds
  it stale, overdue or not allowed), calls the connector without holding the
  store, settles the record, then rewrites the task file. The file is read,
  edited in the thread's own copy, truncated and written in separate steps:
  other writers get in between, a reader may meet a torn file, and two
  overlapping writes may leave one. A crash may happen between any two steps,
  and a store write may fail. The connector may send and succeed, send and
  report an error, or not send. Clients may name any version up to the
  current one, and repeat a request id.
* `OutboundApproval`: the contract. Per action: proposed, approved with a text,
  transmitted once per approval, confirmed, reopened or closed.

The history variables (`wire`, `called`, `delivered`, `late`, `acks`, `doubt`)
record what left the process and what humans accepted. No guard reads them.

### Runs

| Run | Instance | Checks |
|---|---|---|
| `outbound_gate` | 1 action, 2 threads, 2 texts, 2 request ids, 5 requests, crashes, clock past the TTL | `SettleNeverRejected`, `DuplicatesAcknowledged`, `UnsentUnlessInDoubt`, `RecordsAdvance`, `ImplementsApproval` |
| `outbound_tasks` | 2 actions, 2 human-gated tasks (one typed), 2 threads, 4 requests, crashes | `TypeOK`, `ReceiptMeansSent`, `ReferenceExists`, `GatedCompletionGrounded` |
| `outbound_served` | 1 action with input that cannot be executed, 1 task, 3 requests, fairness | `Served` |

*Bounds.* Two threads show every pairwise race; actions do not interact except
through the task file, for which there are two. Five requests are the longest
story of one action: draft, interrupted send, its discovery, acknowledged retry,
one more request. The proofs below do not depend on these bounds.

*Fairness* (`outbound_served`): a handler that was started keeps running
(`WF` on each thread's handler steps), which a thread of the daemon does. Weak
fairness is enough: a waiting handler is the only other one on the action lock.
With more threads `std::sync::Mutex` promises no order, and the claim would need
strong fairness of the lock. Requests, crashes and the clock are not forced.

### Proofs

`OutboundProofs` and `TaskProofs` hold for any sets of actions, tasks,
threads, texts and request ids and any bounds; the assumptions are the named
ones of the modules (a free lock's holder is no thread, bounds are natural
numbers, `NoValue` is no proper value).

* `TypeCorrect`: `Spec => []TypeOK`. `TypeOK` is strengthened with `Fits`: the
  request a thread carries has the fields its place in the handler needs.
* `SettleSafe`, `NoSilentDuplicate`, `StatusHonest` follow from `SendInv`.
  None of the three is inductive by itself. `SendInv` adds `Owns`: a thread in its
  send window holds the lock of its action, and the record is `sending` with that
  thread's attempt and text, so by `Exclusion` there is at most one such thread.
  `Unsent` says when the last approval cannot have led to a delivery (not yet
  called, or the connector reported an error); in those states `Counted` keeps
  one delivery in reserve, and `InDoubt` says that a delivery is visible as a
  doubt or a late error. `Blank` is needed for a first draft. The proof has a step
  per handler action; `FrameBut` disposes of the actions a step does not touch.
* `RecordsOnlyAdvance`: lemma `StoreSteps` reduces every step of the system to
  one of seven changes of one record; each moves the version by one and starts
  from a status that is not terminal.
* `GateImplementsApproval`: the same seven changes map to the steps of
  `OutboundApproval` under the mapping of a status to a phase. A `sending`
  record maps to *granted* or *spent*, depending on whether the connector was
  called; a step that changes neither record nor wire maps to a stutter.

* `ReceiptsHold`, `ReferencesHold`, `GateHolds` (`TaskProofs`) follow from
  `TaskInv`: what the task file *and every thread's copy of it* say is true
  (`TaskTrue`), and a thread that is about to edit a task has stored the update
  it will write about (`Backed`). A copy may be stale when it is written back,
  so the invariant must survive in copies: `TruthLasts` shows it from
  `RecordsLast` (a sent record stays sent, a record keeps its task), which rests
  on `StoreSteps`. Hence lost updates lose facts but never make a false one.

`GatedCompletionGrounded` says that a task which both gates hold back was
completed by a receipt, a no-reply decision, an ignore, or, unless it is typed, by
the report of a monitor triage turn: `state.rs` (341–345) lets such a turn complete
a human-gated task from a conversational "done", because "the message is the human
action". A task that only the RPC holds back (one with a delivery target and no
policy) an agent may complete at any time; the property does not speak of it.

`Served` is a liveness property and only model-checked.

### Abstractions

`TaskUpdate` changes the status (all that are not `completed` are one), deletes the
task, and sets `metadata.ignored`. The rest of its metadata is free-form: keys that
are not reserved (`ignored`, `outbound_action_id` and `monitor_completion_events`
among them) may be overwritten by an agent, so `ReferenceExists` speaks of
references that the draft tool wrote, and a ground, once recorded, counts as given.
Other writers of the file, `TaskCreate` and the ignore analysis, are left out:
they add tasks and fields that the properties do not mention, and a rewrite by them
is as stale as any other.

## 3. The ingest path

### Modules

* `WorkflowHistory`: the rows of a binding and an event as three counts
  (running, completed, failed), which is all `dedup_decision` looks at.
* `EventIngest`: one connection. The connector sends positions `1..Last`, each an
  event or a checkpoint. Where a new stream begins depends on the connector
  (`BeginsAt`): one that `Resumes` begins after the cursor it was given; one that
  does not ("any host cursor is ignored", `lark_connector.rs`, 473; keys marked as
  seen when they are emitted, `wechat_connector/subscribe.rs`, 177–209) begins
  anywhere after it, and what it skips is `lost`. The stream task
  receives, the processor queue takes everything that has arrived as a batch, a
  worker thread routes it binding by binding and event by event (self gate,
  history gate, filters, direct dispatch, triage group, digest), settles the
  rows and reports; the stream task stores the cursors of a batch without
  failure and ends on the first failed one. `Refresh` starts, keeps, stops and
  restarts the stream with what it listed a step earlier. A stop turns the
  routing thread into a *detached* one. `Crash` forgets everything but the
  history, the cursor and the connection's state, and reclaims running rows.

The batch loop is split where another thread can see or change something: the
gate and the start of a row are different steps, as they are in the code.

### Runs

| Run | Instance | Checks |
|---|---|---|
| `ingest` | a checkpoint and 2 events, a direct and a triage binding, budget 2, crashes and exits of the connector (2 in all), fairness | `AckedHandled`, `AttemptsBounded`, `NeverRerun`, `AllAcked` |
| `ingest_restart` | 2 events, one monitor binding with digest, 2 threads, crashes, degradations, filter changes (2 in all) | `TypeOK`, `AckedSeen`, `RunningOwned`, `DigestHasTimer` |
| `digest_lost` | violation | a crash loses acknowledged events of the digest queue |

Both passing runs use a connector that does not resume (`Resumes = FALSE`), which
includes every behaviour of one that does. Their properties `AckedHandled`,
`AckedSeen` and `AllAcked` speak of the events that are not `lost`: an event that a
restarted stream skipped is passed over by the next acknowledgement, and no code
of the daemon could know. `NothingDropped` is the claim without this exception: the
guide that Puffer writes for stream connectors says "Resume from the provided
cursor." and "Do not drop unacked events silently." (`connector_tools.rs`,
1184–1186). `MCNothingDropped.cfg` refutes it for a connector that does not resume
(section 7), and `ResumingDropsNothing` proves it for one that does.

`ingest` has no stopped streams, because with them `AckedHandled` does not
hold: see `MCDetachedFailure.cfg` in section 7. `ingest_restart` checks what
remains true then: whatever was passed over is at least in the history of every
binding.

*Bounds.* Two events suffice for a batch in which one fails and the other does
not, and for an event that arrives during a batch or a flush. Two threads are a
detached one and its successor, or a flush and a route. Two faults are a crash
during recovery from another fault; budget 2 tells a retry from an exhausted
budget. `MCIngestOwn.cfg` repeats `ingest_restart` with one event an own message, and
passes; it is kept out of the list of runs for its length.
`tries` is counted up to one more than the budget, and own messages
are dispatched that often at most, which keeps the state space finite.

*Fairness* (`AllAcked`): tasks and threads that can run do; the auth monitor
refreshes the streams every minute (`puffer-cli/src/subscriptions.rs`, 181–215);
and the auth check of a degraded connection succeeds eventually, which is an
assumption about the world and holds only for connectors that require
authentication (`refresh_connection_auth` passes over the others). Faults are
not forced.

### Proofs

`IngestProofs`: `QueuedAreFlushed` (`Spec => []DigestHasTimer`) for any number of
threads, events, bindings and faults. `DigestHasTimer` is not inductive: a thread
that finds the `scheduled` flag up starts no flush task, so the invariant
`DigestInv` adds that the flag is up only while a task sleeps.

`IngestTyped` (`TypeOK`) and `RowsOwned` (`RunningOwned`), for the same instances.
The two are inductive only together. Settling a row takes one from its `running`
count, which stays a natural number only if somebody owns the row; so `Running`
says that the count *equals* the number of places where a thread has started the
row and not settled it (`Owners`, a finite set whose cardinality each step moves
by at most one), and `Typed` fixes the shape of a thread's record at each label.

`DeliveryProofs`, on top of it:

* `PassedAreSeen`: `Spec => []AckedSeen`, with every fault of the model. The
  invariant `Acked` follows an event through the places it can be between the
  connector and the cursor: not sent yet, pending, in the batch a thread routes
  (`Progress`: what the thread has passed is done, or waits in its hands, unless
  an action failed), in the queue of acknowledgements, stored. A failed batch, a
  stop and a crash empty these places without storing anything.
* `PassedAreHandled` (`AckedHandled`), `AttemptsAreBounded` (`AttemptsBounded`) and
  `SuccessIsFinal` (`NeverRerun`) assume `Orderly`: the faults are crashes and
  exits of the connector, so that a stream ends only after its threads have come
  back. The assumption is needed, not a convenience: with stopped streams
  `MCDetachedFailure.cfg` refutes the first. The invariant `AllOnce` says that an
  event is in at most one thread's hands per binding and that a run without a
  completed row leaves a failed one, or is about to.

* `ResumingDropsNothing` (`NothingDropped`) assumes `Orderly` and a connector that
  resumes: nothing is ever lost (`LostGrows` is the only place where `lost` grows),
  so the cursor passes no event that was not handled.

The constants' assumption `CheckpointAssumption` (a checkpoint comes before every
event) is what the connectors of the repository do, see below; `AckedSeen` does
not hold without it. The liveness property `AllAcked` is only model-checked.

### Abstractions

One connection with a constant set of enabled bindings; refreshes do not
overlap; `enqueue_batch` is one step and a binding has one digest bucket;
history and connection files are always written; debouncing is left out, since
the daemon's processor returns no debounce key; the boot fence is exact;
agent proxies are left out. The dispatcher does not panic: a panic, or a history
write that fails after `append` changed the rows in memory, leaves a row running
until the next boot, and redeliveries pass over it. Checkpoints come before the
first event, as in the connectors of the repository: a checkpoint after an event
that is still being processed would be stored at once and would pass over it.

## 4. Turns of the daemon

### Modules

* `TurnScope`: the scope of a turn (`daemon_turn_scope.rs`). Prompts are numbered
  per turn; each has a channel with at most one answer. `finish` sets the flag
  and the token in one step and `drain` denies what is open in the next one, as the
  code does with a mutex each; `expire` is what a wait does after its timeout.
* `BackgroundTasks`: the registry of tasks (`background_tasks.rs`). A task has an
  owner (or none), a durability, a status, and the thread that runs it: a shell, a
  background agent or a teammate. The thread of an agent may outlive the task's
  status; `stop_scoped` and `abandon_scoped`
  are the two locked sections of `stop_scoped_by_turn`.
* `DaemonTurn`: the threads. `pc` says where each worker and each canceller is;
  `out` is what a thread is still writing, entry by entry, to the transcript or
  to the clients, so that the writes of two threads interleave and one may
  fail (`?` ends the report, `let _` goes on). Correspondence:

  | Code | Actions |
  |---|---|
  | `start_turn`, `start_slash_command_turn`, `start_connector_setup_turn` | `StartTurn`, `StagingFails`, `SetupFails`, `Setup`, `PersistPrompt` |
  | agent loop, `on_event` | `Round`, `Stream`, `Returned`, `Invoked` |
  | `execute_tool_batch_serial` | `Tool`, `Dispatch`, `PlainTool`, `LaunchTask`, `SendOutbound` |
  | nested `Agent` calls, background agents, teammates | `NestedSends`, `NestedLaunches`, `AgentEnds`, `TeammateEnds` |
  | `execute_tool_batch` with threads | `Permit`, `Permitted`, `ThreadLaunches`, `Joined`, then `NextCall` for every call that waited |
  | `on_permission`, `on_user_question`, `wait_generic` | `Ask`, `OpenPrompt`, `Answered`, `TimedOut`, `Withdraw` |
  | `handle_resolve_permission`, `handle_resolve_user_question` | `ResolveCheck`, `ResolveSend` |
  | end of the worker | `EndOk`, `TakeProgress`, `EndErr`, `CommandOk`, `CommandErr` |
  | `finish_turn` | `Finish`, `Drain`, `StopTasks`, `Remove` |
  | `cancel_turn_by_id`, `report_cancelled_turn` | `CancelTurn`, then `Finish` ... `Remove`, `Report`, `ReportPrompt`, `ReportRest` |
  | `recover_stale_turn` | `RecoverLoad`, `RecoverMark`, `RecoverExhausted`, `RecoverStart` |
  | death of the daemon | `Crash`: only the transcript is left |

An agent that the turn starts works on a clone of the state with the turn's context
(`agents.rs`, 323) and without its token. A synchronous one (`Nested` while the worker
is at `effect`) makes any number of sends and launches inside one call of the worker;
a background one or a teammate makes them on a thread of its own, also after the turn
has ended.

The history variables (`published`, `accepted`, `granted`, `late`, `sent`, `cleared`,
`harvested`, `strays`, `retry`, `stopped`) record what clients were told and answered and
what the workers and cancellers did; `stopped` are the turns
somebody set out to cancel. `late` counts the calls a worker carries out itself after the
token is set; the threads of a batch are not counted.

### Runs

| Run | Instance | Checks |
|---|---|---|
| `daemon_turn` | 1 agent turn with 3 rounds and calls, 1 task, budget 1, 1 canceller | `TypeOK`, `OneToolAfterCancel`, `BudgetHeld`, `ChildrenHarvested`, `PromptOnce` |
| `daemon_settles` | 1 turn of each kind, 1 prompt, 1 canceller, 1 failing write, fairness | `GrantedByClient`, `Settled`, `TurnsSettle` |
| `daemon_recovery` | 3 turns with one prompt, 2 crashes, 1 failing write | `RetryOnlyCutOff`, `RetryOnce` |
| `stop_ends_batch` | violation | two calls that waited for the threads of a batch are carried out after the turn was cancelled |

`MCTwoCancellers.cfg` repeats `daemon_turn` without tasks and with two
cancellers (a cancel RPC and the watchdog at the same time).
`MCDaemonChildren.cfg` checks `BudgetHeld` and `ChildrenHarvested` with two children
(shells, agents, teammates) of a turn that nobody cancels, and a crash. Both pass.

*Bounds.* Three steps are a round and two calls, so that a call precedes, overlaps
and follows a cancellation; budget 1 makes the second call exceed it. Three
turns and two crashes are a prompt, its retry, the retry cut off, and a further
attempt. One session: turns of different sessions share only the task registry.

*Fairness* (`daemon_settles`): every thread is scheduled (`WF` per worker and per
canceller). A provider call returns or fails, and a prompt nobody answers times
out after 15 minutes (`daemon_interaction_timeout`), so no client and no
canceller has to act. Cancellations, failing writes and answers are not forced.

`BudgetHeld` is what the code keeps of the limit per turn: the worker, the agents
nested in its calls and the agents it left running charge one counter, and send at
most the limit until it is cleared, by `finish_turn` or a restart, and at most the
limit again after each clear. The limit of a *turn* is not kept: `MCBudgetPerTurn.cfg`
(section 7). `ChildrenHarvested` is about the tasks registered before `finish_turn`
stopped the turn's tasks; those registered later (`strays`, by an agent that has not
yet looked at its token, or by a worker cancelled in the middle of a call) nobody
stops. `late`, and so `OneToolAfterCancel`, counts a nested agent as one call,
whatever it does before it returns.

### Proofs

`TurnProofs` and `SettleProofs` prove every safety property of the module. In
`TurnProofs`, for any number of turns, prompts, cancellers, recoveries, tasks and
crashes: `PermissionFromClient` (`Spec => []GrantedByClient`) and
`CancelStopsTools` (`Spec => []OneToolAfterCancel`), from the invariant `TurnInv`:

* `Answers`: an answer that says "allow" was given by a client who was told so.
  Needed because the worker takes the answer long after it was sent, and because
  `finish_turn` also puts an answer (a denial) into the channel.
* `Stops`: in a serial batch no call was late, or one was and the worker is past
  it and can only meet the token again. Needed because `late <= 1` alone does not
  say where the worker is.
* `Typed`: the tokens and labels the other two talk about; a token is never reset.

The proof has a lemma per group of actions (`SharedStep`, `PlainStep`, `BatchStep`,
`EffectStep`, `ToolStep`, `ClientStep`, `RestStep`); `KeptStill` and `KeptMoving`
dispose of the steps that touch neither answers nor tools.

The rest of `TurnProofs` is the invariant `Flow`, which the other theorems share:
which turn a thread works for (`Threads`), who may hold, write for and report a
turn (`Handles`, `Routed`, `Writers`, `Reporters`), what the registry says of a
worker's label (`Registered`) and what the transcript can hold (`Transcript`). It
is needed because the properties are about what a turn leaves behind, and a turn
is finished by whichever of the worker and the cancellers comes first. `StepKinds`
reduces the forty-odd actions to a few kinds of step (a thread moves, writes an
entry or fails to, a turn begins, a cancellation begins, a recovery writes its
marker, the daemon dies), and the invariants below are proved per kind wherever
the action itself does not matter.

`SettleProofs`:

| Theorem | Property | Invariant, and why the property needs it |
|---|---|---|
| `PromptsOnce` | `PromptOnce` | `AllOnce`: what is in the transcript and what threads still owe it, together at most once; the swap of a flag elects the one who owes |
| `BudgetKept` | `BudgetHeld` | `Spent`: what was sent is at most the counter and one limit per clear; the counter alone forgets what was sent before a clear |
| `ChildrenEnd` | `ChildrenHarvested` | `Children`: every task that is no stray and whose owner was harvested has ended or was told to stop (`Harvest`); an owner that is not registered any more was harvested, and whoever is at `remove` has harvested its turn |
| `TurnsTyped` | `TypeOK` | `Scopes`, `Flags`, `Numbers`: the waiting calls of a batch are bounded by the steps and prompts that announced them, the counter by the limit |
| `RetriedOnce` | `RetryOnce` | `Retries`: the marker is in the transcript before the retry starts. Assumes `Alone`, one `recover_stale_turn` at a time; with two it is false (see below) |
| `RetriedCutOff` | `RetryOnlyCutOff` | `CutOff`: a worker that is through has written, or is about to write, something after its prompt (`Replies`) |
| `TurnsSettled` | `Settled` | `AllSettle`: a worker that keeps quiet because `cancel_reported` is set relies on a reporter, whose own obligation (`Reports`) is followed to the end |

The assumptions on constants are the named ones of `DaemonTurn`: bounds are natural
numbers, there is a prompt text (`PromptAssumption`), and turns, cancellers and the
two addressees `bus` and `recovery` are different (`ProcAssumption`,
`TurnAssumption`). `Settled` speaks of runs without a failed write or a crash,
`RetryOnlyCutOff` of runs without a failed write; these premises are part of the
properties.

Only the liveness property `TurnsSettle` is model-checked and not proved.

### Abstractions

What a slash command writes itself, and what a connector setup asks, is left out.
A tool has one of four effects: none, a background task, a charged outbound
call, or a refusal. Of a nested or background agent only its sends, its launches and
its end are modelled: its rounds, its batches and the prompts it opens through its
parent's channel are left out, and `TaskLimit` bounds how many run at once. Compaction, reflection and hooks are left out of the loop.
`RecoverLoad` looks at the registry and reads the transcript in one step: an
entry written in between makes the session fresh, and the call does nothing.
A background shell that `MAX_CONCURRENT_TASKS` refuses to register runs on
unregistered (`bash.rs`, 333–342); the model refuses the launch. Observed and not
stated as a property: two `recover_stale_turn` calls at once may both retry, and a
crash between the marker and the retry means the prompt is never retried.

## 5. Subscriber processes and commands

`SubscriberCommand` models one subscriber id: the `run_loop` of each handle
(`spawn_once`, `ChildExits`, `Disconnect`, `Restart`, `RestartFails`), the threads
that start and respawn it (`start_subscriber`, `RespawnRemove`, `Shutdown`), the
process (external: it reads a line, later publishes an event), the bus, and the
calls of `send_command_and_wait` for one peer: `Lock`, `Begin`, `ReadGeneration`,
`Send` / `SendFails` / `SendFailed`, `Receive` / `Poll`, `CheckGeneration`, `GiveUp`.
The generation is read before the line is written and compared after each poll,
with the supervisor in between. `GiveUp` is the deadline and may come at any time.

`subscriber_command` (2 calls, 2 keepers, 2 handles, 2 processes, one failing spawn,
a channel of capacity 1 with one other event, 2 resends) checks `TypeOK`,
`CopiesBounded` (resends only after the stdin was replaced, within
`COMMAND_RESTART_RESENDS`, and at most two copies to one process), `AnswerIsOwn`
(the lock keeps two open calls apart; an answer goes astray only after some call
has given up or has sent more than once) and `NoOrphanProcess` (whatever runs
is registered or about to be shut down). Capacity 1 makes every lag happen.
Two calls and two processes are the smallest instance in which a late answer
meets another call, and a resend another child.

With three calls an answer that was left behind can be passed on: a call that takes
it leaves its own answer to the next one. `AnswerIsOwn` therefore does not ask that
the *owner* of a stray answer gave up, only that some call did, and that the owner
is no longer open. `MCThreeCallers.cfg` (3 calls, one resend, no failing spawn)
checks this instance; it is kept out of the list of runs for its length.

`SubscriberProofs`, for any number of calls, keepers, handles, processes and resends
and any capacity:

* `CommandsTyped` (`TypeOK`), strengthened to whole records of callers and keepers:
  whoever holds a sender has a handle that exists.
* `NothingOrphaned` (`NoOrphanProcess`), from `Owned`: a handle whose loop was not
  aborted is registered or held by a keeper that shuts it down. The property alone
  does not say that the loop is there when the handle leaves the map.
* `CommandsBounded` (`CopiesBounded`), from `AllCounted`: the copies add up to the
  sends (`Sums`), the generation a caller read lies between the one it began with
  and the current one (`Generations`), and a caller whose generation is outdated has
  fewer copies at the present child (`Target`). The total is the cardinality of a
  finite set with an element per copy, which a send extends by one.
* `AnswersKept` (`AnswerIsOwn`), from `Exclusive` (whoever is in a call holds the wait
  lock) and `AllPlaced`: a command sent once, and its answer, are in one place at a
  time.

Left out: a spawn that fails within `start_subscriber` itself, `shutdown` of the whole
manager, `send_command` without a wait.

## 6. Clients of the daemon

`DaemonClients` models `publish_event` (ring, then channel), the life of a socket
in `handle_socket` (count, copy of the ring, replay, subscription, forwarding, end),
and `arm_disconnect_cancel_watchdog`. A receiver that lags makes the forwarder end
(`Lagged`): the socket stays open and "deaf". A turn is requested in a task of its
own, which outlives the socket.

A turn has two publishers (`Source`): its worker, and, once it was cancelled
(`CancelTurn`, `CancelAll`), the thread that cancelled it and reports the error and
the change of the session (`Publishes`). Each publishes one event at a time, and as the
ring's lock is given up before the channel gets the event (`Tee`, `Send`), the two may
overtake each other between ring and channel.

`daemon_clients` (2 clients, 2 sockets, 1 turn with 2 events from each publisher and a
ping, a ring of 1, a channel of 2, fairness) checks

* `TypeOK`;
* `NeverBack`: a socket delivers the events of each publisher in order; only the one
  that this publisher had between ring and channel at the copy may come twice. Of the
  worker's events against the canceller's nothing is promised: two clients may get
  them in different orders, and both may come twice;
* `MissedInGap`: an event is missed only between the copy of the ring and the
  subscription, never in the middle of a live stream. It is about sockets whose
  forwarder runs; a deaf one misses everything from then on, and no property promises
  it anything;
* `OrphansWatched`: a turn that was registered when the last client left has a
  watchdog on its way until it ends or a client is back;
* `OrphansEnd`: every turn that is registered while nobody is connected and a watchdog
  is on its way, the ones that register during the grace window included, ends or is
  cancelled unless a client returns.

A turn whose start takes longer than the grace window registers after the last
watchdog looked. It runs on with nobody connected and no watchdog, against the comment
at `daemon.rs`, 498–501; neither property covers it, and `MCUnattendedWatched.cfg`
(section 7) shows it.

*Bounds.* Two sockets are the one that leaves last and the one that returns, or two
that hear the same turn; both capacities are below the number of events, so that both
overflow. `MCDaemonReplay.cfg` repeats the invariants with a ring that replays two
events; `MCDaemonWatchdog.cfg` repeats the two watchdog properties with two turns
and four sockets (no events); both pass. *Fairness* (`OrphansEnd`): the daemon runs its
watchdog tasks (`WF` on what a watchdog does when its sleep is over). Clients, turns
and cancellations are not forced.

`ClientProofs`, for any finite set of clients, any set of turns and any capacities:
`ClientsTyped` (`Spec => []TypeOK`) and `NoOrphanUnwatched` (`Spec => []OrphansWatched`).
The two are inductive only together: the count is compared with the set of open
sockets, whose cardinality needs the types, and a watchdog is armed by the socket that
takes the count to zero. `ClientsNeverBack` (`NeverBack`) and `ClientsMissInGap`
(`MissedInGap`) follow from `Streams`: the channel carries each publisher's events in
the order of their numbers, the ring holds a run of them that is at most one ahead of
the channel (`Histories`, `Published`), and what a client got is a replayed part from
its copy of the ring followed by a live part that continues the channel from its
subscription (`Stream`). Only the liveness property `OrphansEnd` is model-checked and
not proved.

Left out: the subscription filter for browser frames, and the length of the grace
window. An earlier watchdog may end its sleep in a later client's absence and cut
that client's window short; the model has no time to tell the two apart.

## 7. Findings

Runs that TLC refutes, with the quotation in `PROJECT.json`:

1. `digest_lost`: events in the digest queue are acknowledged and marked
   completed before they are handled; a crash loses them.
2. `stop_ends_batch`: `execute_tool_batch` looks at the token once. The calls that
   wait for the threads of a batch are all dispatched after Stop.

Further disagreements between the code and what a comment, a test or the design
document says of it. Each is a definition at the end of its module and a
configuration that TLC refutes (`tlc -config <cfg> <module>`), kept out of the
list of runs:

| Configuration | Module | What it shows |
|---|---|---|
| `MCExpiredClearsReference.cfg` | `MCOutboundTasks` | an expired draft is not removed from its task |
| `MCSentWritesBack.cfg` | `MCOutboundTasks` | the receipt of a sent message can be overwritten by another writer of `monitor_tasks.json` |
| `MCFailedSendReopens.cfg` | `MCOutboundTasks` | a send that fails while its input is built stays `sending`; the next approval reports it as uncertain although nothing was sent |
| `MCDetachedFailure.cfg` | `MCEventIngest` | a redelivery skips an event that a detached thread is still running, and acknowledges it; a later failure is final |
| `MCNothingDropped.cfg` | `MCEventIngest` | a connector that ignores the cursor ("any host cursor is ignored", `lark_connector.rs`, 473) does not send a failed event again, and the next acknowledgement passes it, although the guide says "Do not drop unacked events silently." (`connector_tools.rs`, 1186) |
| `MCSelfUnbounded.cfg` | `MCEventIngest` | own messages pass the router before the history gate, so their failures have no budget |
| `MCPromptBeforeInterrupt.cfg` | `MCDaemonTurn` | the worker sets `user_prompt_persisted` and is overtaken: the interruption is in the transcript before the prompt |
| `MCScopedTasksStopped.cfg` | `MCDaemonTurn` | a background shell of a batch with threads is registered without an owner (`claude_tools/mod.rs`, 393–400) and outlives its turn, although it is registered "so a finishing turn ... can stop it" (`bash.rs`, 334) |
| `MCCancelledTasksStopped.cfg` | `MCDaemonTurn` | a task registered by the call in flight, after a canceller stopped the turn's tasks, is never stopped: the worker's own `finish_turn` finds no turn |
| `MCBudgetPerTurn.cfg` | `MCDaemonTurn` | a background agent charges its turn after the turn ended and its counter was cleared, so the turn sends more than the limit; the budget "bounds how many drafts / ungated external sends a single LLM turn may produce" (`outbound_budget.rs`, 1–3) |
| `MCNoDuplicateProcess.cfg` | `MCSubscriberCommand` | a start between the two halves of a respawn runs two children of one subscriber ("without spawning a duplicate", `manager.rs`, 755) |
| `MCReplayComplete.cfg` | `MCDaemonClients` | an event published between the copy of the ring and the subscription never reaches the client ("so they don't miss text deltas", `daemon.rs`, 833) |
| `MCUnattendedWatched.cfg` | `MCDaemonClients` | a turn whose start outlives the grace window registers after the last watchdog looked, and runs on unattended, although "the disconnect watchdog cancels orphaned interactive turns" (`daemon.rs`, 498–501) |

Six further configurations pass and repeat the checks of a listed run on an instance
that is larger in one direction: `MCIngestOwn.cfg` (`MCEventIngest`),
`MCTwoCancellers.cfg` and `MCDaemonChildren.cfg` (`MCDaemonTurn`), `MCThreeCallers.cfg`
(`MCSubscriberCommand`), `MCDaemonReplay.cfg` and `MCDaemonWatchdog.cfg`
(`MCDaemonClients`).

## 8. Limits, and what is not modelled

TLAPS proves no liveness and no `ENABLED`; induction over data and recursive
operators are out of its reach here. The modules therefore use no recursion.
TLC covers the liveness properties on the instances above.

Not modelled: permissions and the outbound gate are rules over the data of one
call, whose outcomes the models take as a choice; the session store's file
format and index are left out, its appends are the transcript entries of
`DaemonTurn`; contacts, providers, runners,
connectors, configuration and the user interfaces are data processing, parsing,
rendering or I/O, with little state that two threads share. They are the larger
part of the repository's lines.

## 9. Plan

Done: the outbound gate, the ingest path, turns, subscriber commands and clients are
modelled, and every invariant and action property that a passing run checks has a
theorem, as has the refinement of `OutboundApproval`. What TLC alone checks are the
four liveness properties `Served`, `AllAcked`, `TurnsSettle` and `OrphansEnd`. Next:

1. `IngestContract`: an abstract at-least-once delivery per binding and event,
   implemented by `EventIngest` without stops; `Acked` and `AllOnce` of
   `DeliveryProofs` are the facts the step simulation needs.
2. What holds of `EventIngest` when streams are stopped: `AttemptsBounded` with one
   more run for each thread left behind, in place of the assumption `Orderly`.
3. Concurrent refreshes and failing history writes in `EventIngest`; agent
   proxies before the router; the router's single-envelope path.
4. The automation store and its scheduler.
