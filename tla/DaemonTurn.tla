---------------------------- MODULE DaemonTurn ----------------------------
(***************************************************************************)
(* The turns of the daemon (puffer-cli/src/daemon.rs): starting a turn, its *)
(* worker thread, the prompts it opens, cancelling it from other threads,   *)
(* what ends up in the session's transcript, and the recovery of a turn     *)
(* that a crash cut off.                                                    *)
(*                                                                         *)
(* A turn has a worker thread of its own.  Whoever cancels it (a cancel     *)
(* RPC, or the watchdog after the last client left) does not wait for that  *)
(* thread: it finishes the scope, removes the turn from the registry and    *)
(* writes the cancellation, while the worker runs on to its next boundary.  *)
(* The two meet only in the flags of the handle, so their writes to the     *)
(* transcript interleave.  One session is modelled: turns of different      *)
(* sessions share nothing but the task registry.                            *)
(***************************************************************************)
EXTENDS TurnScope, BackgroundTasks, Sequences

CONSTANTS
    Canceller,    \* bound: threads that cancel turns at the same time
    Recoverer,    \* bound: recover_stale_turn calls at the same time
    Prompt,       \* texts of user messages
    Kinds,        \* the kinds of turn started: agent, slash, setup
    MaxSteps,     \* bound: provider rounds and tool calls of an agent turn
    BudgetLimit,  \* draft or external-action limit per turn
    MaxCrash,     \* bound: crashes of the daemon
    MaxFail       \* bound: failed writes to the transcript

ASSUME BoundAssumption ==
    /\ MaxSteps \in Nat /\ BudgetLimit \in Nat
    /\ MaxCrash \in Nat /\ MaxFail \in Nat
ASSUME KindsAssumption == Kinds \subseteq {"agent", "slash", "setup"}
ASSUME PromptAssumption == Prompt # {}
ASSUME ProcAssumption == Turn \cap Canceller = {}
ASSUME TurnAssumption == "bus" \notin Turn /\ "recovery" \notin Turn

Proc == Turn \cup Canceller

VARIABLES
    registry,    \* DaemonState.turns: the turns in flight
    kind,        \* what each turn is, "none" before it starts
    prompt,      \* TurnHandle.message
    pc,          \* where each worker and each canceller is
    out,         \* what a thread is still writing, and whether a failure ends it
    target,      \* the turn a canceller is cancelling
    reported,    \* TurnHandle.cancel_reported
    persisted,   \* TurnHandle.user_prompt_persisted
    items,       \* TurnProgress.ordered_items is not empty
    saved,       \* TurnProgress.persisted_on_cancel
    streamed,    \* the turn has an assistant text
    steps,       \* provider rounds and tool calls so far
    asked,       \* prompts opened so far
    batch,       \* how the current or last tool batch runs
    ready,       \* calls of a batch with threads that still wait their turn
    resolving,   \* resolve RPCs past check_resolvable: <<turn, request>>
    budget,      \* the turn's entry in OutboundBudgetRegistry, 0 without one
    log,         \* the session's transcript
    recover,     \* what each recover_stale_turn call is doing
    crashes, fails

(* History variables, read by the properties only.                         *)
VARIABLES
    published,   \* terminal events each turn published
    accepted,    \* <<turn, request>> a client answered "allow" and got ok for
    granted,     \* <<turn, request>> the worker took as allowed
    late,        \* calls a worker carried out after the turn was cancelled
    sent,        \* outbound actions charged to the turn and carried out
    cleared,     \* how often the turn's budget entry was dropped
    harvested,   \* the turns whose tasks finish_turn has stopped
    strays,      \* tasks registered for a turn after that
    retry,       \* the turns started by recover_stale_turn
    stopped      \* the turns somebody set out to cancel

turnVars    == <<registry, kind, prompt, reported, persisted>>
batchVars   == <<batch, ready>>
workVars    == <<items, saved, streamed, steps, asked, batchVars, resolving, budget>>
recoverVars == <<recover, crashes, fails>>
effectVars  == <<sent, cleared, harvested, strays>>
histVars    == <<published, accepted, granted, late, effectVars, retry, stopped>>
vars == <<scopeVars, tasks, turnVars, workVars, pc, out, target, log,
          recoverVars, histVars>>

Entry == [turn : Turn, ev : {"started", "user", "assistant", "interrupted",
                             "failed", "finished"}, prompt : Prompt]
         \cup [turn : {"recovery"}, ev : {"retry", "exhausted"}, prompt : Prompt]
Outcome == {"complete", "error", "cancelled"}

Quiet == [todo |-> <<>>, strict |-> FALSE]
Idle  == [at |-> "idle", prompt |-> {}]

NewTurn == {t \in Turn : kind[t] = "none"}
InSession(t) == kind[t] \in {"agent", "slash"}
T(p) == IF p \in Turn THEN p ELSE CHOOSE t \in Turn : target[p] = {t}

At(p, l) == pc[p] = l /\ out[p] = Quiet
Goto(p, l) == pc' = [pc EXCEPT ![p] = l]
Note(t, e) == [turn |-> t, ev |-> e, prompt |-> prompt[t]]
Say(o) == [turn |-> "bus", ev |-> o]

(* A thread goes on to l once it has written s.  A strict writer stops at   *)
(* the first failure (`?`), the other ignores it (`let _`).                 *)
Then(p, l, s, strict) ==
    /\ Goto(p, l)
    /\ out' = [out EXCEPT ![p] = IF s = <<>> THEN Quiet
                                 ELSE [todo |-> s, strict |-> strict]]

(* A step moves its thread, and at most: gives it something to write;       *)
(* changes its scope; changes a task.                                       *)
OnlyPC == UNCHANGED <<scopeVars, tasks, turnVars, workVars, out, target, log,
                      recoverVars, histVars>>
OnlyOut == UNCHANGED <<scopeVars, tasks, turnVars, workVars, target, log,
                       recoverVars, histVars>>
OnlyTasks == UNCHANGED <<scopeVars, turnVars, workVars, pc, out, target, log,
                         recoverVars, histVars>>
OnlyScope == UNCHANGED <<tasks, turnVars, workVars, out, target, log, recoverVars,
                         histVars>>

Init ==
    /\ ScopeInit
    /\ TaskInit
    /\ registry = {}
    /\ kind = [t \in Turn |-> "none"]
    /\ prompt = [t \in Turn |-> CHOOSE m \in Prompt : TRUE]
    /\ pc = [p \in Proc |-> IF p \in Turn THEN "new" ELSE "idle"]
    /\ out = [p \in Proc |-> Quiet]
    /\ target = [c \in Canceller |-> {}]
    /\ reported = [t \in Turn |-> FALSE]
    /\ persisted = [t \in Turn |-> FALSE]
    /\ items = [t \in Turn |-> FALSE]
    /\ saved = [t \in Turn |-> FALSE]
    /\ streamed = [t \in Turn |-> FALSE]
    /\ steps = [t \in Turn |-> 0]
    /\ asked = [t \in Turn |-> 0]
    /\ batch = [t \in Turn |-> "none"]
    /\ ready = [t \in Turn |-> 0]
    /\ resolving = {}
    /\ budget = [t \in Turn |-> 0]
    /\ log = <<>>
    /\ recover = [r \in Recoverer |-> Idle]
    /\ crashes = 0
    /\ fails = 0
    /\ published = [t \in Turn |-> {}]
    /\ accepted = {}
    /\ granted = {}
    /\ late = [t \in Turn |-> 0]
    /\ sent = [t \in Turn |-> 0]
    /\ cleared = [t \in Turn |-> 0]
    /\ harvested = {}
    /\ strays = {}
    /\ retry = {}
    /\ stopped = {}

-----------------------------------------------------------------------------
(* Writing: SessionStore::append_event and publish_event.                   *)

Rest(p) == IF Len(out[p].todo) = 1 THEN Quiet
           ELSE [out[p] EXCEPT !.todo = Tail(@)]

(* Where report_cancelled_turn returns to.                                  *)
AfterReport(p) == IF p \in Turn THEN "finish" ELSE "idle"

(* The next entry reaches the transcript, or the next event the clients.    *)
Write(p) ==
    /\ out[p] # Quiet
    /\ LET e == Head(out[p].todo) IN
         IF e.turn = "bus"
         THEN /\ published' = [published EXCEPT ![T(p)] = @ \cup {e.ev}]
              /\ UNCHANGED log
         ELSE /\ log' = Append(log, e)
              /\ UNCHANGED published
    /\ out' = [out EXCEPT ![p] = Rest(p)]
    /\ UNCHANGED <<scopeVars, tasks, turnVars, workVars, pc, target, recoverVars,
                   accepted, granted, late, effectVars, retry, stopped>>

(* An append fails: report_cancelled_turn gives up, the others go on.       *)
WriteFails(p) ==
    /\ out[p] # Quiet
    /\ Head(out[p].todo).turn # "bus"
    /\ fails < MaxFail
    /\ fails' = fails + 1
    /\ IF out[p].strict
       THEN out' = [out EXCEPT ![p] = Quiet] /\ Goto(p, AfterReport(p))
       ELSE out' = [out EXCEPT ![p] = Rest(p)] /\ UNCHANGED pc
    /\ UNCHANGED <<scopeVars, tasks, turnVars, workVars, target, log, recover,
                   crashes, histVars>>

-----------------------------------------------------------------------------
(* Starting a turn.                                                         *)

(* The test and the insertion under the registry's lock.                    *)
Free(k) == k = "setup" \/ ~\E u \in registry : InSession(u)

Register(t, k, m) ==
    /\ Free(k)
    /\ registry' = registry \cup {t}
    /\ kind' = [kind EXCEPT ![t] = k]
    /\ prompt' = [prompt EXCEPT ![t] = m]
    /\ Goto(t, "setup")

(* start_turn, start_slash_command_turn, start_connector_setup_turn         *)
StartTurn(t, k, m) ==
    /\ t \in NewTurn
    /\ k \in Kinds
    /\ Register(t, k, m)
    /\ UNCHANGED <<scopeVars, tasks, reported, persisted, workVars, out, target,
                   log, recoverVars, histVars>>

(* start_turn cannot load the staged attachments: an error event, and a     *)
(* finish_turn that finds no handle.                                        *)
StagingFails(t, m) ==
    /\ t \in NewTurn
    /\ "agent" \in Kinds
    /\ kind' = [kind EXCEPT ![t] = "agent"]
    /\ prompt' = [prompt EXCEPT ![t] = m]
    /\ Goto(t, "done")
    /\ published' = [published EXCEPT ![t] = {"error"}]
    /\ UNCHANGED <<scopeVars, tasks, registry, reported, persisted, workVars, out,
                   target, log, recoverVars, accepted, granted, late, effectVars, retry, stopped>>

-----------------------------------------------------------------------------
(* The worker thread up to the agent loop.                                  *)

(* Mutant: an error path that returns without finish_turn.                  *)
SetupFailsUnfinished(t) ==
    /\ At(t, "setup") \/ At(t, "prepared")
    /\ Then(t, "done", <<Say("error")>>, FALSE)
    /\ OnlyOut

(* Inputs, session, routing or options cannot be loaded.                    *)
SetupFails(t) ==
    /\ At(t, "setup") \/ At(t, "prepared")
    /\ Then(t, "finish", <<Say("error")>>, FALSE)
    /\ OnlyOut

(* The agent turn's look at the token before it touches the session; the    *)
(* other kinds have none here.                                              *)
Setup(t) ==
    /\ At(t, "setup")
    /\ Goto(t, CASE kind[t] # "agent" -> "command"
                 [] kind[t] = "agent" /\ cancel[t] -> "report"
                 [] OTHER -> "prepared")
    /\ OnlyPC

(* Mutant: the flag is set and not looked at.                               *)
PersistPromptAlways(t) ==
    /\ At(t, "prepared")
    /\ persisted' = [persisted EXCEPT ![t] = TRUE]
    /\ Then(t, "round", <<Note(t, "started"), Note(t, "user")>>, FALSE)
    /\ UNCHANGED <<scopeVars, tasks, registry, kind, prompt, reported, workVars,
                   target, log, recoverVars, histVars>>

(* "Persist the user message before the turn starts": the flag is swapped   *)
(* first, the two entries follow.                                           *)
PersistPrompt(t) ==
    /\ At(t, "prepared")
    /\ persisted' = [persisted EXCEPT ![t] = TRUE]
    /\ Then(t, "round", IF persisted[t] THEN <<>>
                        ELSE <<Note(t, "started"), Note(t, "user")>>, FALSE)
    /\ UNCHANGED <<scopeVars, tasks, registry, kind, prompt, reported, workVars,
                   target, log, recoverVars, histVars>>
-----------------------------------------------------------------------------
(* The agent loop (agent_loop.rs, tool_batch.rs) as the daemon sees it.     *)

(* The boundary before a provider round.                                    *)
Round(t) ==
    /\ At(t, "round")
    /\ IF cancel[t]
       THEN Goto(t, "err") /\ UNCHANGED steps
       ELSE /\ steps[t] < MaxSteps
            /\ steps' = [steps EXCEPT ![t] = @ + 1]
            /\ Goto(t, "stream")
    /\ UNCHANGED <<scopeVars, tasks, turnVars, items, saved, streamed, asked, batchVars,
                   resolving, budget, out, target, log, recoverVars, histVars>>

(* on_event records progress unless the cancellation was reported.          *)
Record(t) == items' = [items EXCEPT ![t] = @ \/ ~reported[t]]

(* The provider answers, with or without text, or fails.                    *)
Stream(t) ==
    /\ At(t, "stream")
    /\ \/ /\ Record(t)
          /\ streamed' = [streamed EXCEPT ![t] = TRUE]
          /\ Goto(t, "returned")
       \/ /\ UNCHANGED <<items, streamed>>
          /\ Goto(t, "returned")
       \/ /\ UNCHANGED <<items, streamed>>
          /\ Goto(t, "err")
    /\ UNCHANGED <<scopeVars, tasks, turnVars, saved, steps, asked, batchVars, resolving,
                   budget, out, target, log, recoverVars, histVars>>

(* The boundary after the round: no tool calls end the turn; otherwise the  *)
(* calls are recorded and the batch runs one call after another, or with    *)
(* threads when two of its calls are parallel-safe.                         *)
Returned(t) ==
    /\ At(t, "returned")
    /\ \/ /\ Goto(t, IF cancel[t] THEN "err" ELSE "ok")
          /\ UNCHANGED <<items, batch>>
       \/ /\ ~cancel[t] /\ steps[t] < MaxSteps
          /\ Record(t)
          /\ \E b \in {"serial", "permit"} : batch' = [batch EXCEPT ![t] = b]
          /\ Goto(t, "tool")
    /\ UNCHANGED <<scopeVars, tasks, turnVars, saved, streamed, steps, asked, ready,
                   resolving, budget, out, target, log, recoverVars, histVars>>

(* One more call of a serial batch is looked at.                            *)
CountCall(t) ==
    steps' = [steps EXCEPT ![t] = IF batch[t] = "serial" THEN @ + 1 ELSE @]

(* Mutant: the batch runs to its end whatever the token says.               *)
ToolUnchecked(t) ==
    /\ At(t, "tool")
    /\ CountCall(t)
    /\ Goto(t, IF batch[t] = "serial" THEN "dispatch" ELSE "permit")
    /\ UNCHANGED <<scopeVars, tasks, turnVars, items, saved, streamed, asked, batchVars,
                   resolving, budget, out, target, log, recoverVars, histVars>>

(* The boundary before a batch, and before each call of a serial one.       *)
Tool(t) ==
    /\ At(t, "tool")
    /\ CountCall(t)
    /\ Goto(t, CASE cancel[t] -> "invoked"
                 [] ~cancel[t] /\ batch[t] = "serial" -> "dispatch"
                 [] OTHER -> "permit")
    /\ UNCHANGED <<scopeVars, tasks, turnVars, items, saved, streamed, asked, batchVars,
                   resolving, budget, out, target, log, recoverVars, histVars>>

(* A batch with threads resolves the permission of every call first.  A     *)
(* call that is not parallel-safe and is allowed waits for the threads.     *)
Permit(t) ==
    /\ At(t, "permit")
    /\ steps[t] < MaxSteps
    /\ steps' = [steps EXCEPT ![t] = @ + 1]
    /\ ready' = [ready EXCEPT ![t] = @ + 1]
    /\ UNCHANGED <<scopeVars, tasks, turnVars, items, saved, streamed, asked, batch,
                   resolving, budget, pc, out, target, log, recoverVars, histVars>>

(* The permissions are resolved, or resolving one fails (`?`).              *)
Permitted(t) ==
    /\ At(t, "permit")
    /\ \/ Goto(t, "threads") /\ batch' = [batch EXCEPT ![t] = "threads"]
       \/ Goto(t, "err") /\ UNCHANGED batch
    /\ UNCHANGED <<scopeVars, tasks, turnVars, items, saved, streamed, steps, asked,
                   ready, resolving, budget, out, target, log, recoverVars, histVars>>

(* A background shell or agent is registered: for the turn of its owner     *)
(* context, or without one for nobody.                                      *)
Launch(t, owner, x, durable, thread) ==
    /\ register_with_options(x, owner, durable, thread)
    /\ strays' = IF t \in harvested THEN strays \cup {x} ELSE strays

(* A thread runs a Bash call in the background.  It has no turn context     *)
(* (execute_parallel_bash_with_media_broker passes None): no owner.         *)
ThreadLaunches(t, x, durable) ==
    /\ At(t, "threads")
    /\ Launch(t, {}, x, durable, "shell")
    /\ UNCHANGED <<scopeVars, turnVars, workVars, pc, out, target, log, recoverVars,
                   published, accepted, granted, late, sent, cleared, harvested,
                   retry, stopped>>

(* The threads are joined; the calls that waited follow one by one.         *)
Joined(t) ==
    /\ At(t, "threads")
    /\ Goto(t, "invoked")
    /\ OnlyPC

(* Where a turn goes on once a permission is settled.                       *)
Resume(t, allowed) ==
    IF kind[t] # "agent" THEN "command"
    ELSE IF batch[t] = "permit" THEN "permit"
    ELSE IF allowed THEN "effect" ELSE "invoked"

(* A tool that needs no permission.                                         *)
Dispatch(t) ==
    /\ At(t, "dispatch")
    /\ Goto(t, "effect")
    /\ OnlyPC

(* on_permission, on_user_question: the token is read, then the request is  *)
(* registered in a step of its own.                                         *)
Ask(t) ==
    /\ \E l \in {"dispatch", "permit", "command"} : At(t, l)
    /\ asked[t] < MaxRequest
    /\ IF cancel[t]
       THEN Goto(t, Resume(t, FALSE)) /\ UNCHANGED asked
       ELSE /\ asked' = [asked EXCEPT ![t] = @ + 1]
            /\ Goto(t, "register")
    /\ UNCHANGED <<scopeVars, tasks, turnVars, items, saved, streamed, steps, batchVars,
                   resolving, budget, out, target, log, recoverVars, histVars>>

OpenPrompt(t) ==
    /\ At(t, "register")
    /\ register(t, asked[t])
    /\ Goto(t, "waiting")
    /\ OnlyScope

(* wait_permission returns what was sent on the channel.                    *)
Answered(t) ==
    /\ At(t, "waiting")
    /\ LET a == answer[t][asked[t]] IN
         /\ a # "none"
         /\ granted' = IF a = "allow" THEN granted \cup {<<t, asked[t]>>} ELSE granted
         /\ Goto(t, Resume(t, a = "allow"))
         /\ \/ UNCHANGED ready
            \/ /\ a = "allow" /\ kind[t] = "agent" /\ batch[t] = "permit"
               /\ ready' = [ready EXCEPT ![t] = @ + 1]
    /\ UNCHANGED <<scopeVars, tasks, turnVars, items, saved, streamed, steps, asked,
                   batch, resolving, budget, out, target, log, recoverVars, published,
                   accepted, late, effectVars, retry, stopped>>

(* recv_timeout gives up on an empty channel; the request is withdrawn in   *)
(* the next step and counts as denied, whatever is sent in between.         *)
TimedOut(t) ==
    /\ At(t, "waiting")
    /\ answer[t][asked[t]] = "none"
    /\ Goto(t, "withdraw")
    /\ OnlyPC

Withdraw(t) ==
    /\ At(t, "withdraw")
    /\ expire(t, asked[t])
    /\ Goto(t, Resume(t, FALSE))
    /\ OnlyScope

Late(t) == late' = [late EXCEPT ![t] = IF cancel[t] THEN @ + 1 ELSE @]

(* A tool call without lasting effect, or one refused by a limit.           *)
PlainTool(t) ==
    /\ At(t, "effect")
    /\ Late(t)
    /\ Goto(t, "invoked")
    /\ UNCHANGED <<scopeVars, tasks, turnVars, workVars, out, target, log,
                   recoverVars, published, accepted, granted, effectVars, retry, stopped>>

(* Bash in the background, or Agent in the background or in a team.         *)
LaunchTask(t, x, durable, thread) ==
    /\ At(t, "effect")
    /\ Launch(t, {t}, x, durable, thread)
    /\ Late(t)
    /\ Goto(t, "invoked")
    /\ UNCHANGED <<scopeVars, turnVars, workVars, out, target, log, recoverVars,
                   published, accepted, granted, sent, cleared, harvested, retry,
                   stopped>>

(* Mutant: the limit itself is still free.                                  *)
ChargeAtLimit(t) ==
    /\ budget[t] <= BudgetLimit
    /\ budget' = [budget EXCEPT ![t] = @ + 1]

(* OutboundBudgetRegistry::charge, then the draft or the send.              *)
charge(t) ==
    /\ budget[t] < BudgetLimit
    /\ budget' = [budget EXCEPT ![t] = @ + 1]

Send(t) ==
    /\ charge(t)
    /\ sent' = [sent EXCEPT ![t] = @ + 1]

SendOutbound(t) ==
    /\ At(t, "effect")
    /\ Send(t)
    /\ Late(t)
    /\ Goto(t, "invoked")
    /\ UNCHANGED <<scopeVars, tasks, turnVars, items, saved, streamed, steps,
                   asked, batchVars, resolving, out, target, log, recoverVars,
                   published, accepted, granted, cleared, harvested,
                   strays, retry, stopped>>

(* A nested agent works on a clone of the state, with the turn's context    *)
(* and without its token: a synchronous one inside a call of the worker, a  *)
(* background one or a teammate on a thread of its own, also after the turn *)
(* has ended.                                                               *)
Nested(t) ==
    \/ At(t, "effect")
    \/ \E x \in Task : t \in tasks[x].owner /\ tasks[x].thread \in Agents

(* A teammate cannot launch agents.                                         *)
NestedLauncher(t) ==
    \/ At(t, "effect")
    \/ \E x \in Task : t \in tasks[x].owner /\ tasks[x].thread = "agent"

NestedSends(t) ==
    /\ Nested(t)
    /\ Send(t)
    /\ UNCHANGED <<scopeVars, tasks, turnVars, items, saved, streamed, steps,
                   asked, batchVars, resolving, pc, out, target, log, recoverVars,
                   published, accepted, granted, late, cleared, harvested,
                   strays, retry, stopped>>

(* A shell of a nested batch with threads has no owner either.              *)
NestedLaunches(t, x, durable, thread) ==
    /\ IF thread = "shell"
       THEN Nested(t) /\ \E o \in {{t}, {}} : Launch(t, o, x, durable, thread)
       ELSE NestedLauncher(t) /\ Launch(t, {t}, x, durable, thread)
    /\ UNCHANGED <<scopeVars, turnVars, workVars, pc, out, target, log, recoverVars,
                   published, accepted, granted, late, sent, cleared, harvested,
                   retry, stopped>>

(* The next call of the batch.  After the threads there is no boundary.     *)
NextCall(t) ==
    IF batch[t] = "serial"
    THEN steps[t] < MaxSteps /\ Goto(t, "tool") /\ UNCHANGED ready
    ELSE /\ ready[t] > 0
         /\ ready' = [ready EXCEPT ![t] = @ - 1]
         /\ Goto(t, "dispatch")

(* The results of the whole batch are recorded; then the next round, or the *)
(* end when every tool asked to terminate.                                  *)
BatchDone(t) ==
    /\ ready[t] = 0
    /\ Record(t)
    /\ Goto(t, "ok") \/ (steps[t] < MaxSteps /\ Goto(t, "round"))

(* Mutant: the budget is per round instead of per turn.                     *)
InvokedClearsBudget(t) ==
    /\ At(t, "invoked")
    /\ \/ NextCall(t) /\ UNCHANGED items
       \/ BatchDone(t) /\ UNCHANGED ready
    /\ budget' = [budget EXCEPT ![t] = 0]
    /\ UNCHANGED <<scopeVars, tasks, turnVars, saved, streamed, steps, asked, batch,
                   resolving, out, target, log, recoverVars, histVars>>

Invoked(t) ==
    /\ At(t, "invoked")
    /\ \/ NextCall(t) /\ UNCHANGED items
       \/ BatchDone(t) /\ UNCHANGED ready
    /\ UNCHANGED <<scopeVars, tasks, turnVars, saved, streamed, steps, asked, batch,
                   resolving, budget, out, target, log, recoverVars, histVars>>

-----------------------------------------------------------------------------
(* The end of the worker.                                                   *)

(* Ok: nothing is written once a cancellation was reported; otherwise the   *)
(* recorded progress is taken in the next step.                             *)
EndOk(t) ==
    /\ At(t, "ok")
    /\ Goto(t, IF reported[t] THEN "finish" ELSE "take")
    /\ OnlyPC

(* The items are taken and written; assistant text that is not among them   *)
(* is appended.                                                             *)
TakeProgress(t) ==
    /\ At(t, "take")
    /\ saved' = [saved EXCEPT ![t] = TRUE]
    /\ items' = [items EXCEPT ![t] = FALSE]
    /\ Then(t, "complete",
            (IF items[t] \/ streamed[t] THEN <<Note(t, "assistant")>> ELSE <<>>)
               \o <<Note(t, "finished"), Say("complete")>>, FALSE)
    /\ UNCHANGED <<scopeVars, tasks, turnVars, streamed, steps, asked, batchVars,
                   resolving, budget, target, log, recoverVars, histVars>>

(* Err: the same test, then the error is written and published.             *)
EndErr(t) ==
    /\ At(t, "err")
    /\ Then(t, "finish",
            IF reported[t] THEN <<>>
            ELSE <<Note(t, "failed"), Note(t, "finished"), Say("error")>>, FALSE)
    /\ OnlyOut

(* A slash command or connector setup ends.  The slash command does not     *)
(* look at the flags.  A setup looks at the token between its steps, which  *)
(* may all be behind it, and keeps quiet about a failure that was reported  *)
(* as a cancellation.                                                       *)
CommandOk(t) ==
    /\ At(t, "command")
    /\ Then(t, "complete", <<Say("complete")>>, FALSE)
    /\ OnlyOut

CommandErr(t) ==
    /\ At(t, "command")
    /\ Then(t, "finish",
            IF kind[t] = "setup" /\ cancel[t] /\ reported[t] THEN <<>>
            ELSE <<Say("error")>>, FALSE)
    /\ OnlyOut

-----------------------------------------------------------------------------
(* finish_turn, by the worker at its end or by a canceller.                 *)

AfterFinish(p) == IF p \in Turn THEN "done" ELSE "report"

(* Mutant: a turn that completed keeps its children.                        *)
FinishKeepsChildren(p) ==
    /\ At(p, "finish") \/ At(p, "complete")
    /\ IF T(p) \in registry
       THEN /\ finish(T(p), pc[p] = "complete")
            /\ Goto(p, IF pc[p] = "complete" THEN "remove" ELSE "drain")
       ELSE UNCHANGED scopeVars /\ Goto(p, AfterFinish(p))
    /\ OnlyScope

Finish(p) ==
    /\ At(p, "finish") \/ At(p, "complete")
    /\ IF T(p) \in registry
       THEN finish(T(p), pc[p] = "complete") /\ Goto(p, "drain")
       ELSE UNCHANGED scopeVars /\ Goto(p, AfterFinish(p))
    /\ OnlyScope

Drain(p) ==
    /\ At(p, "drain")
    /\ drain(T(p))
    /\ Goto(p, "stop")
    /\ OnlyScope

StopTasks(p) ==
    /\ At(p, "stop")
    /\ stop_scoped(T(p))
    /\ harvested' = harvested \cup {T(p)}
    /\ Goto(p, "remove")
    /\ UNCHANGED <<scopeVars, turnVars, workVars, out, target, log, recoverVars,
                   published, accepted, granted, late, sent, cleared,
                   strays, retry, stopped>>

(* The drain time is over: clear_turn, and the turn leaves the registry.    *)
Remove(p) ==
    /\ At(p, "remove")
    /\ abandon_scoped(T(p))
    /\ budget' = [budget EXCEPT ![T(p)] = 0]
    /\ cleared' = [cleared EXCEPT ![T(p)] = @ + 1]
    /\ registry' = registry \ {T(p)}
    /\ Goto(p, AfterFinish(p))
    /\ UNCHANGED <<scopeVars, kind, prompt, reported, persisted, items, saved,
                   streamed, steps, asked, batchVars, resolving, out, target, log,
                   recoverVars, published, accepted, granted, late, sent, harvested,
                   strays, retry, stopped>>

-----------------------------------------------------------------------------
(* report_cancelled_turn, by a canceller after finish_turn, by the worker   *)
(* before it.                                                               *)

(* Mutant: a turn that is no longer registered is not reported.             *)
ReportRegistered(p) ==
    /\ At(p, "report")
    /\ reported' = [reported EXCEPT ![T(p)] = TRUE]
    /\ IF reported[T(p)] \/ T(p) \notin registry THEN Then(p, AfterReport(p), <<>>, TRUE)
       ELSE IF kind[T(p)] = "setup"
       THEN Then(p, AfterReport(p), <<Say("cancelled")>>, TRUE)
       ELSE Then(p, "prompt", <<>>, TRUE)
    /\ UNCHANGED <<scopeVars, tasks, registry, kind, prompt, persisted, workVars,
                   target, log, recoverVars, histVars>>

Report(p) ==
    /\ At(p, "report")
    /\ reported' = [reported EXCEPT ![T(p)] = TRUE]
    /\ IF reported[T(p)] THEN Then(p, AfterReport(p), <<>>, TRUE)
       ELSE IF kind[T(p)] = "setup"
       THEN Then(p, AfterReport(p), <<Say("cancelled")>>, TRUE)
       ELSE Then(p, "prompt", <<>>, TRUE)
    /\ UNCHANGED <<scopeVars, tasks, registry, kind, prompt, persisted, workVars,
                   target, log, recoverVars, histVars>>

(* A failed append ends the report before the rest is written.              *)
ReportPrompt(p) ==
    /\ At(p, "prompt")
    /\ persisted' = [persisted EXCEPT ![T(p)] = TRUE]
    /\ Then(p, "rest", IF persisted[T(p)] THEN <<>>
                       ELSE <<Note(T(p), "started"), Note(T(p), "user")>>, TRUE)
    /\ UNCHANGED <<scopeVars, tasks, registry, kind, prompt, reported, workVars,
                   target, log, recoverVars, histVars>>

(* persist_cancelled_turn_progress, the interruption, the boundary and the  *)
(* event.                                                                   *)
ReportRest(p) ==
    /\ At(p, "rest")
    /\ LET t == T(p) IN
         /\ saved' = [saved EXCEPT ![t] = TRUE]
         /\ items' = [items EXCEPT ![t] = @ /\ saved[t]]
         /\ Then(p, AfterReport(p),
                 (IF ~saved[t] /\ items[t] THEN <<Note(t, "assistant")>> ELSE <<>>)
                    \o <<Note(t, "interrupted"), Note(t, "finished"), Say("cancelled")>>,
                 TRUE)
    /\ UNCHANGED <<scopeVars, tasks, turnVars, streamed, steps, asked, batchVars,
                   resolving, budget, target, log, recoverVars, histVars>>

(* cancel_turn_by_id: the handle is cloned, the rest needs no registry.     *)
CancelTurn(c, t) ==
    /\ At(c, "idle")
    /\ t \in registry
    /\ target' = [target EXCEPT ![c] = {t}]
    /\ Goto(c, "finish")
    /\ stopped' = stopped \cup {t}
    /\ UNCHANGED <<scopeVars, tasks, turnVars, workVars, out, log, recoverVars,
                   published, accepted, granted, late, effectVars, retry>>

-----------------------------------------------------------------------------
(* handle_resolve_permission, handle_resolve_user_question: the handle and  *)
(* check_resolvable first, then the sender is taken out of its map.         *)

(* The client knows a request once its event was published.                *)
Surfaced(t, r) == r < asked[t] \/ (r = asked[t] /\ pc[t] # "register")

ResolveCheck(t, r) ==
    /\ t \in registry
    /\ Surfaced(t, r)
    /\ check_resolvable(t, r)
    /\ resolving' = resolving \cup {<<t, r>>}
    /\ UNCHANGED <<scopeVars, tasks, turnVars, items, saved, streamed, steps, asked,
                   batchVars, budget, pc, out, target, log, recoverVars, histVars>>

(* The answer is sent, or the request is no longer pending (Unknown).       *)
ResolveSend(t, r, a) ==
    /\ <<t, r>> \in resolving
    /\ resolving' = resolving \ {<<t, r>>}
    /\ IF r \in pending[t]
       THEN /\ resolve(t, r, a)
            /\ accepted' = IF a = "allow" THEN accepted \cup {<<t, r>>} ELSE accepted
       ELSE UNCHANGED <<scopeVars, accepted>>
    /\ UNCHANGED <<tasks, turnVars, items, saved, streamed, steps, asked, batchVars,
                   budget, pc, out, target, log, recoverVars, published, granted,
                   late, effectVars, retry, stopped>>

-----------------------------------------------------------------------------
(* Background tasks on their own threads.                                   *)

(* A shell exits.                                                           *)
CompleteTask(x, success) ==
    /\ complete(x, success)
    /\ OnlyTasks

(* A background agent looks at its own token between two prompts, so also a *)
(* stopped one ends when the prompt it is at is done.  A teammate never     *)
(* looks and never reports its end.                                         *)
AgentEnds(x, success) ==
    /\ agent_returns(x, success)
    /\ OnlyTasks

TeammateEnds(x) ==
    /\ teammate_returns(x)
    /\ OnlyTasks

(* The TaskStop tool, or the task panel.                                    *)
TaskStop(x) ==
    /\ request_stop(x)
    /\ OnlyTasks

-----------------------------------------------------------------------------
(* recover_stale_turn: the decision, the marker and the new turn are steps  *)
(* of their own, with nothing locked between them.                          *)

Recovers(c, l, m) == recover' = [recover EXCEPT ![c] = [at |-> l, prompt |-> m]]

(* Mutant: what follows the latest user message is not looked at.           *)
LatestUserTurn(l) ==
    {l[i].prompt : i \in {j \in DOMAIN l : l[j].ev = "user"}}

(* latest_unanswered_user_turn: the last entry is a user message.           *)
latest_unanswered_user_turn(l) ==
    IF l # <<>> /\ l[Len(l)].ev = "user" THEN {l[Len(l)].prompt} ELSE {}

(* Mutant: only a marker right before the message counts.                   *)
RetryMarkerLast(l, m) ==
    Len(l) > 1 /\ l[Len(l) - 1].ev = "retry" /\ l[Len(l) - 1].prompt = m

has_retry_marker(l, m) == \E i \in DOMAIN l : l[i].ev = "retry" /\ l[i].prompt = m

(* stale_turn_recovery_decision, retry_after_ms after the last write.       *)
stale_turn_recovery_decision(l) ==
    CASE latest_unanswered_user_turn(l) = {} -> "not_recoverable"
      [] \E m \in latest_unanswered_user_turn(l) : has_retry_marker(l, m)
                                             -> "already_retried"
      [] OTHER -> "retry"

(* No turn of the session in flight, then the transcript is read.  One step *)
(* stands for both: an entry written in between would make the session     *)
(* fresh and the call would do nothing.                                     *)
RecoverLoad(c) ==
    /\ recover[c] = Idle
    /\ Free("agent")
    /\ LET d == stale_turn_recovery_decision(log) IN
         /\ d # "not_recoverable"
         /\ Recovers(c, d, latest_unanswered_user_turn(log))
    /\ UNCHANGED <<scopeVars, tasks, turnVars, workVars, pc, out, target, log,
                   crashes, fails, histVars>>

Marker(e, m) == [turn |-> "recovery", ev |-> e, prompt |-> m]

(* The retry marker is in the transcript before the retry starts.           *)
RecoverMark(c) ==
    /\ recover[c].at = "retry"
    /\ \E m \in recover[c].prompt : log' = Append(log, Marker("retry", m))
    /\ Recovers(c, "start", recover[c].prompt)
    /\ UNCHANGED <<scopeVars, tasks, turnVars, workVars, pc, out, target, crashes,
                   fails, histVars>>

RecoverExhausted(c) ==
    /\ recover[c].at = "already_retried"
    /\ \E m \in recover[c].prompt : log' = Append(log, Marker("exhausted", m))
    /\ recover' = [recover EXCEPT ![c] = Idle]
    /\ UNCHANGED <<scopeVars, tasks, turnVars, workVars, pc, out, target, crashes,
                   fails, histVars>>

(* start_turn with the old message; it refuses when a turn came in between. *)
RecoverStart(c, t) ==
    /\ recover[c].at = "start"
    /\ IF Free("agent")
       THEN /\ t \in NewTurn
            /\ \E m \in recover[c].prompt : Register(t, "agent", m)
            /\ retry' = retry \cup {t}
       ELSE UNCHANGED <<registry, kind, prompt, pc, retry>>
    /\ recover' = [recover EXCEPT ![c] = Idle]
    /\ UNCHANGED <<scopeVars, tasks, reported, persisted, workVars, out, target, log,
                   crashes, fails, published, accepted, granted, late, effectVars, stopped>>

-----------------------------------------------------------------------------
(* The daemon dies: the transcript is what is left.                         *)
Crash ==
    /\ crashes < MaxCrash
    /\ crashes' = crashes + 1
    /\ registry' = {}
    /\ pc' = [p \in Proc |-> CASE p \in Canceller -> "idle"
                               [] p \in Turn /\ pc[p] \in {"new", "done"} -> pc[p]
                               [] OTHER -> "lost"]
    /\ out' = [p \in Proc |-> Quiet]
    /\ pending' = [t \in Turn |-> {}]
    /\ items' = [t \in Turn |-> FALSE]
    /\ saved' = [t \in Turn |-> FALSE]
    /\ streamed' = [t \in Turn |-> FALSE]
    /\ steps' = [t \in Turn |-> 0]
    /\ asked' = [t \in Turn |-> 0]
    /\ batch' = [t \in Turn |-> "none"]
    /\ ready' = [t \in Turn |-> 0]
    /\ resolving' = {}
    /\ tasks' = [x \in Task |-> NoTask]
    /\ budget' = [t \in Turn |-> 0]
    /\ recover' = [c \in Recoverer |-> Idle]
    /\ cleared' = [t \in Turn |-> cleared[t] + 1]
    /\ strays' = {}
    /\ UNCHANGED <<finished, cancel, expired, answer, kind, prompt, reported,
                   persisted, target, log, fails, published, accepted, granted,
                   late, sent, harvested, retry, stopped>>

-----------------------------------------------------------------------------
Worker(t) ==
    \/ SetupFails(t) \/ Setup(t) \/ PersistPrompt(t)
    \/ Round(t) \/ Stream(t) \/ Returned(t) \/ Tool(t) \/ Dispatch(t)
    \/ Permit(t) \/ Permitted(t) \/ Joined(t)
    \/ \E x \in Task, d \in BOOLEAN : ThreadLaunches(t, x, d)
    \/ Ask(t) \/ OpenPrompt(t) \/ Answered(t) \/ TimedOut(t) \/ Withdraw(t)
    \/ PlainTool(t) \/ SendOutbound(t)
    \/ \E x \in Task, d \in BOOLEAN, a \in TaskThread : LaunchTask(t, x, d, a)
    \/ Invoked(t) \/ EndOk(t) \/ TakeProgress(t) \/ EndErr(t)
    \/ CommandOk(t) \/ CommandErr(t)

Subagent(t) ==
    \/ NestedSends(t)
    \/ \E x \in Task, d \in BOOLEAN, a \in TaskThread : NestedLaunches(t, x, d, a)

(* What a worker and a canceller have in common.                            *)
Shared(p) ==
    \/ Write(p) \/ WriteFails(p)
    \/ Finish(p) \/ Drain(p) \/ StopTasks(p) \/ Remove(p)
    \/ Report(p) \/ ReportPrompt(p) \/ ReportRest(p)

Client ==
    \/ \E t \in Turn, k \in Kinds, m \in Prompt : StartTurn(t, k, m)
    \/ \E t \in Turn, m \in Prompt : StagingFails(t, m)
    \/ \E c \in Canceller, t \in Turn : CancelTurn(c, t)
    \/ \E t \in Turn, r \in Request : ResolveCheck(t, r)
    \/ \E t \in Turn, r \in Request, a \in {"allow", "deny"} : ResolveSend(t, r, a)

Background(x) ==
    \/ \E s \in BOOLEAN : CompleteTask(x, s) \/ AgentEnds(x, s)
    \/ TeammateEnds(x) \/ TaskStop(x)

Recovery(c) ==
    \/ RecoverLoad(c) \/ RecoverMark(c) \/ RecoverExhausted(c)
    \/ \E t \in Turn : RecoverStart(c, t)

(* Nothing in flight: the daemon waits for its clients.                     *)
AtRest == registry = {} /\ UNCHANGED vars

Next ==
    \/ \E t \in Turn : Worker(t) \/ Subagent(t)
    \/ \E p \in Proc : Shared(p)
    \/ Client
    \/ \E x \in Task : Background(x)
    \/ \E c \in Recoverer : Recovery(c)
    \/ Crash
    \/ AtRest

Spec == Init /\ [][Next]_vars

(* Every thread is scheduled.  A provider call returns or fails, and a      *)
(* prompt nobody answers times out (daemon_interaction_timeout, 15 min).    *)
FairSpec ==
    /\ Spec
    /\ \A p \in Proc : WF_vars(Shared(p))
    /\ \A t \in Turn : WF_vars(Worker(t))

-----------------------------------------------------------------------------
(* Properties.                                                              *)

WorkerLabel ==
    {"new", "setup", "prepared", "round", "stream", "returned", "tool", "permit",
     "threads", "dispatch",
     "register", "waiting", "withdraw", "effect", "invoked", "ok", "take", "err",
     "command", "complete", "finish", "drain", "stop", "remove", "report", "prompt",
     "rest", "done", "lost"}
CancellerLabel == {"idle", "finish", "drain", "stop", "remove", "report", "prompt",
                   "rest"}

(* Every variable keeps its type; in particular a thread's unwritten events *)
(* and the transcript hold only what the handlers write.                    *)
TypeOK ==
    /\ ScopeTypeOK
    /\ TaskTypeOK(Turn)
    /\ registry \subseteq Turn
    /\ kind \in [Turn -> {"none", "agent", "slash", "setup"}]
    /\ prompt \in [Turn -> Prompt]
    /\ \A t \in Turn : pc[t] \in WorkerLabel
    /\ \A c \in Canceller : pc[c] \in CancellerLabel
    /\ \A p \in Proc : out[p].todo \in Seq(Entry \cup {Say(o) : o \in Outcome})
    /\ target \in [Canceller -> {{}} \cup {{t} : t \in Turn}]
    /\ reported \in [Turn -> BOOLEAN] /\ persisted \in [Turn -> BOOLEAN]
    /\ items \in [Turn -> BOOLEAN] /\ saved \in [Turn -> BOOLEAN]
    /\ streamed \in [Turn -> BOOLEAN]
    /\ steps \in [Turn -> 0..MaxSteps] /\ asked \in [Turn -> 0..MaxRequest]
    /\ batch \in [Turn -> {"none", "serial", "permit", "threads"}]
    /\ ready \in [Turn -> 0..MaxSteps + MaxRequest]
    /\ resolving \subseteq Turn \X Request
    /\ budget \in [Turn -> 0..BudgetLimit]
    /\ log \in Seq(Entry)
    /\ crashes \in 0..MaxCrash /\ fails \in 0..MaxFail

Written(t, e) == {i \in DOMAIN log : log[i].turn = t /\ log[i].ev = e}

(* However a cancellation and the worker interleave, a turn's prompt and    *)
(* its interruption are in the transcript once: the swap of                 *)
(* user_prompt_persisted and of cancel_reported elects one writer.          *)
PromptOnce ==
    \A t \in Turn, e \in {"started", "user", "interrupted"} :
        Cardinality(Written(t, e)) <= 1

(* A tool runs on a permission only if a client gave it and was told that   *)
(* it did: closing the scope and timing out never allow anything, and a     *)
(* client that was told "ok" too late to matter is never contradicted by    *)
(* another answer on the same request.                                      *)
GrantedByClient == granted \subseteq accepted

(* After a turn is cancelled at most the one call already dispatched takes  *)
(* effect ("a runaway browser checkout must not run after Stop"), unless    *)
(* the batch has threads: see StopEndsBatch.  A nested agent is one call    *)
(* here, whatever it does before it returns.                                *)
OneToolAfterCancel ==
    \A t \in Turn : batch[t] = "serial" => late[t] <= 1

(* The worker, the agents nested in its calls and the agents it left        *)
(* running charge one budget: together they send at most the limit until    *)
(* finish_turn, or the end of the daemon, drops the turn's entry, and at    *)
(* most the limit again each time it is dropped under them.                 *)
BudgetHeld == \A t \in Turn : sent[t] <= BudgetLimit * (1 + cleared[t])

Cancelling(t) == \E c \in Canceller : target[c] = {t} /\ ~At(c, "idle")

(* A turn that left the registry, cancelled or not, left no scoped child    *)
(* running that was registered for it before finish_turn stopped its tasks: *)
(* each has ended, or was told to stop and given up after the drain time.   *)
(* Only a task that a nested agent, or a worker cancelled in mid-call,      *)
(* registers later escapes.                                                 *)
ChildrenHarvested ==
    \A x \in Task \ strays : \A t \in tasks[x].owner \ registry :
        ~tasks[x].durable =>
            /\ tasks[x].status \in Terminal
            /\ tasks[x].status = "abandoned" => tasks[x].told

(* Once the worker and every canceller of a turn are through, the clients   *)
(* have been told of an outcome, the turn is out of the registry, and a     *)
(* turn the transcript shows as started is shown as finished.               *)
Settled ==
    \A t \in Turn : pc[t] = "done" /\ ~Cancelling(t) /\ fails = 0 /\ crashes = 0 =>
        /\ published[t] # {}
        /\ t \notin registry
        /\ Written(t, "started") # {} => Written(t, "finished") # {}

(* A prompt a crash cut off is retried once, however often the daemon       *)
(* crashes, also when the retry itself is cut off.                          *)
RetryOnce ==
    \A m \in Prompt : Cardinality({t \in retry : prompt[t] = m}) <= 1

(* Only a prompt that was cut off is retried: some earlier turn with it was *)
(* lost in a crash, or cancelled.  A turn that ran to its end, with an      *)
(* answer or with an error, is never run again behind the user's back.      *)
RetryOnlyCutOff ==
    fails = 0 => \A t \in retry : \E u \in Turn \ {t} :
        prompt[u] = prompt[t] /\ (pc[u] = "lost" \/ reported[u] \/ u \in stopped)

(* Every turn is settled: it leaves the registry, so that the session takes *)
(* the next one, and its clients get an outcome, unless the daemon died     *)
(* first or could not write the transcript.                                 *)
TurnsSettle ==
    \A t \in Turn : t \in registry ~>
        t \notin registry /\ (published[t] # {} \/ crashes + fails > 0)

-----------------------------------------------------------------------------
(* What the code's comments and tests say and the code does not keep.       *)

(* The transcript of a cancelled turn is in order: the user message comes   *)
(* before the interruption (report_cancelled_turn_persists_streamed_...).   *)
PromptBeforeInterrupt ==
    \A t \in Turn : \A i \in Written(t, "user"), j \in Written(t, "interrupted") : i < j

(* "Once Stop is pressed, skip dispatching this and every remaining call    *)
(* ... instead of finishing the whole batch": of the calls that follow the  *)
(* threads of a batch, at most the one under way takes effect.              *)
StopEndsBatch == \A t \in Turn : late[t] <= 1

(* The outbound budget "bounds how many drafts / ungated external sends a   *)
(* single LLM turn may produce".                                            *)
BudgetPerTurn == \A t \in Turn : sent[t] <= BudgetLimit

(* A ScopedToTurn task is "stopped when the owner turn finishes": here when *)
(* every turn has finished and nobody cancelled one.                        *)
ScopedTasksStopped ==
    registry = {} /\ stopped = {} => \A x \in LiveTasks : tasks[x].durable

(* The same for a turn that was cancelled.                                  *)
CancelledTasksStopped ==
    \A t \in Turn : pc[t] = "done" /\ ~Cancelling(t) => ScopedLive(t) = {}
=============================================================================
