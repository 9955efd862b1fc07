-------------------------- MODULE WorkflowHistory --------------------------
(***************************************************************************)
(* The run history that decides whether a workflow binding may handle an    *)
(* event (puffer-subscriptions/src/history.rs).  Each run of a binding for  *)
(* an event is one row; a row is running, completed or failed, and all that *)
(* the gate looks at is how many rows of each kind there are for the pair.  *)
(* Every change of the history is made under its lock and written with an   *)
(* atomic rename, so each operation is one step.                            *)
(***************************************************************************)
EXTENDS Integers

CONSTANT MaxFailed    \* MAX_FAILED_ATTEMPTS

ASSUME MaxFailedAssumption == MaxFailed \in Nat \ {0}

Rows == [running : Nat, completed : Nat, failed : Nat]

NoRows == [running |-> 0, completed |-> 0, failed |-> 0]

(* Mutant: failed runs are not counted.                                    *)
DecisionUnbudgeted(r) ==
    IF r.running + r.completed > 0 THEN "duplicate_or_inflight" ELSE "allow"

(* Mutant: only a run in flight suppresses another one.                    *)
DecisionInflightOnly(r) ==
    CASE r.running > 0 -> "duplicate_or_inflight"
      [] r.running = 0 /\ r.failed >= MaxFailed -> "budget_exhausted"
      [] OTHER -> "allow"

(* dedup_decision                                                          *)
Decision(r) ==
    CASE r.running + r.completed > 0 -> "duplicate_or_inflight"
      [] r.running + r.completed = 0 /\ r.failed >= MaxFailed -> "budget_exhausted"
      [] OTHER -> "allow"

(* Mutant: a row that is running already is taken over.                    *)
WithStartedOnce(r) == [r EXCEPT !.running = 1]

(* append_action_started                                                   *)
WithStarted(r) == [r EXCEPT !.running = @ + 1]

(* complete_action_result, on the row that append_action_started added.    *)
WithResult(r, ok) ==
    IF ok THEN [r EXCEPT !.running = @ - 1, !.completed = @ + 1]
          ELSE [r EXCEPT !.running = @ - 1, !.failed = @ + 1]

(* append_event_outcome, as record_monitor_router_outcome calls it.        *)
WithOutcome(r) == [r EXCEPT !.completed = @ + 1]

(* Mutant: orphaned rows stay running.                                     *)
ReclaimedNever(r) == r

(* reclaim_orphaned_running_on_boot                                        *)
Reclaimed(r) == [r EXCEPT !.running = 0, !.failed = @ + r.running]
=============================================================================
