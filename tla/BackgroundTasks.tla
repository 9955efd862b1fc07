-------------------------- MODULE BackgroundTasks --------------------------
(***************************************************************************)
(* The registry of background tasks (runtime/background_tasks.rs): shells   *)
(* and sub-agents a turn leaves running, their owner turn, whether they     *)
(* outlive it, and the stop protocol.  Every operation holds the registry's *)
(* mutex; stop_scoped_by_turn holds it twice, with a wait in between.       *)
(***************************************************************************)
EXTENDS Naturals, FiniteSets

CONSTANTS
    Task,       \* task ids
    TaskLimit   \* MAX_CONCURRENT_TASKS

ASSUME TaskLimitAssumption == TaskLimit \in Nat

Live     == {"running", "stopping"}
Terminal == {"completed", "failed", "stopped", "abandoned"}   \* is_terminal

Agents     == {"agent", "teammate"}
TaskThread == {"shell"} \cup Agents

NoTask == [status |-> "none", owner |-> {}, durable |-> FALSE, told |-> FALSE,
           thread |-> "none"]

VARIABLE tasks    \* [status, owner, durable, told: its token or process was stopped,
                  \*  thread: what runs it, "none" once an agent's thread returned]

TaskTypeOK(turns) ==
    tasks \in [Task -> [status : Live \cup Terminal \cup {"none"},
                        owner : {{}} \cup {{t} : t \in turns},
                        durable : BOOLEAN, told : BOOLEAN,
                        thread : TaskThread \cup {"none"}]]

TaskInit == tasks = [x \in Task |-> NoTask]

LiveTasks == {x \in Task : tasks[x].status \in Live}

has_capacity == Cardinality(LiveTasks) < TaskLimit

(* register_with_options: refused at the limit.                             *)
register_with_options(x, owner, durable, thread) ==
    /\ tasks[x].status = "none"
    /\ has_capacity
    /\ tasks' = [tasks EXCEPT ![x] = [status |-> "running", owner |-> owner,
                                      durable |-> durable, told |-> FALSE,
                                      thread |-> thread]]

(* complete: a terminal status stays, an acknowledged stop is "stopped".    *)
Completed(status, success) ==
    CASE status = "stopping" -> "stopped"
      [] status = "running" -> IF success THEN "completed" ELSE "failed"
      [] OTHER -> status

(* The reaper of a shell; what it finds terminal it leaves alone.           *)
complete(x, success) ==
    /\ tasks[x].thread = "shell" /\ tasks[x].status \in Live
    /\ tasks' = [tasks EXCEPT ![x].status = Completed(@, success)]

(* The thread of a background agent reports its end, also after its task    *)
(* was abandoned; a teammate's thread ends without a word.                  *)
agent_returns(x, success) ==
    /\ tasks[x].thread = "agent"
    /\ tasks' = [tasks EXCEPT ![x].status = Completed(@, success),
                              ![x].thread = "none"]

teammate_returns(x) ==
    /\ tasks[x].thread = "teammate"
    /\ tasks' = [tasks EXCEPT ![x].thread = "none"]

(* stop_one on a live task, as request_stop (TaskStop) calls it.            *)
request_stop(x) ==
    /\ tasks[x].status \in Live
    /\ tasks' = [tasks EXCEPT ![x].status = "stopping", ![x].told = TRUE]

ScopedLive(t) ==
    {x \in LiveTasks : t \in tasks[x].owner /\ ~tasks[x].durable}

(* stop_scoped_by_turn, first section: every live task of the turn is told. *)
stop_scoped(t) ==
    tasks' = [x \in Task |->
                IF x \in ScopedLive(t)
                THEN [tasks[x] EXCEPT !.status = "stopping", !.told = TRUE]
                ELSE tasks[x]]

(* Its last section: what is still live when the drain time is over.  With  *)
(* nothing live the drain loop returns early and this changes nothing.      *)
abandon_scoped(t) ==
    tasks' = [x \in Task |->
                IF x \in ScopedLive(t)
                THEN [tasks[x] EXCEPT !.status = "abandoned"]
                ELSE tasks[x]]
=============================================================================
