----------------------------- MODULE TurnScope -----------------------------
(***************************************************************************)
(* The interaction scope of a daemon turn (daemon_turn_scope.rs): the       *)
(* permission and question prompts a turn has open, the channel each worker *)
(* waits on, the requests that timed out, and the cancel token.             *)
(*                                                                         *)
(* Permissions and questions run the same code on two maps; a worker has at *)
(* most one prompt open, so one map stands for both.  "allow" is an answer  *)
(* a client gives, "deny" a refusal or an empty answer.  Each map is behind *)
(* its own mutex: an operator below is what one mutex section does, and the *)
(* module that extends this one decides how they interleave.                *)
(***************************************************************************)
EXTENDS Naturals, FiniteSets

CONSTANTS
    Turn,       \* turn ids
    MaxRequest  \* bound: prompts a turn may open

Request == 1..MaxRequest
Answer  == {"none", "allow", "deny"}

ASSUME RequestAssumption == MaxRequest \in Nat

VARIABLES
    finished,   \* TurnScope.finished
    cancel,     \* the turn's CancelToken
    pending,    \* pending_permissions and pending_questions
    expired,    \* expired_requests
    answer      \* what was sent on each request's channel

scopeVars == <<finished, cancel, pending, expired, answer>>

ScopeTypeOK ==
    /\ finished \in [Turn -> BOOLEAN]
    /\ cancel \in [Turn -> BOOLEAN]
    /\ pending \in [Turn -> SUBSET Request]
    /\ expired \in [Turn -> SUBSET Request]
    /\ answer \in [Turn -> [Request -> Answer]]

ScopeInit ==
    /\ finished = [t \in Turn |-> FALSE]
    /\ cancel = [t \in Turn |-> FALSE]
    /\ pending = [t \in Turn |-> {}]
    /\ expired = [t \in Turn |-> {}]
    /\ answer = [t \in Turn |-> [r \in Request |-> "none"]]

(* register_permission, register_user_question                             *)
register(t, r) ==
    /\ pending' = [pending EXCEPT ![t] = @ \cup {r}]
    /\ UNCHANGED <<finished, cancel, expired, answer>>

(* The test before a resolve: neither finished nor timed out.              *)
check_resolvable(t, r) ==
    ~finished[t] /\ r \notin expired[t]

(* resolve_permission after its test: whoever takes the sender out of the   *)
(* map is the only one that can send on it.                                 *)
resolve(t, r, a) ==
    /\ r \in pending[t]
    /\ pending' = [pending EXCEPT ![t] = @ \ {r}]
    /\ answer' = [answer EXCEPT ![t][r] = a]
    /\ UNCHANGED <<finished, cancel, expired>>

(* wait_generic after recv_timeout has reported a timeout.                  *)
expire(t, r) ==
    /\ pending' = [pending EXCEPT ![t] = @ \ {r}]
    /\ expired' = [expired EXCEPT ![t] = @ \cup {r}]
    /\ UNCHANGED <<finished, cancel, answer>>

(* finish, first half: the flag, and the token unless the turn completed.   *)
(* No reader looks at both, so the two writes are one step.                 *)
finish(t, complete) ==
    /\ finished' = [finished EXCEPT ![t] = TRUE]
    /\ cancel' = [cancel EXCEPT ![t] = @ \/ ~complete]
    /\ UNCHANGED <<pending, expired, answer>>

(* Mutant: an open prompt gets its default answer.                          *)
DrainAllows(t) ==
    /\ answer' = [answer EXCEPT ![t] =
                    [r \in Request |-> IF r \in pending[t] THEN "allow" ELSE @[r]]]
    /\ pending' = [pending EXCEPT ![t] = {}]
    /\ UNCHANGED <<finished, cancel, expired>>

(* finish, second half: every prompt still open is denied.                  *)
drain(t) ==
    /\ answer' = [answer EXCEPT ![t] =
                    [r \in Request |-> IF r \in pending[t] THEN "deny" ELSE @[r]]]
    /\ pending' = [pending EXCEPT ![t] = {}]
    /\ UNCHANGED <<finished, cancel, expired>>
=============================================================================
