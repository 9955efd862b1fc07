------------------------ MODULE SubscriberCommand ------------------------
(***************************************************************************)
(* A supervised subscriber process and the commands sent to it:             *)
(* puffer-subscriber-runtime (supervisor.rs, command.rs, bus.rs) and the    *)
(* start, respawn and send_command_and_wait of puffer-subscriptions'        *)
(* manager.rs.                                                              *)
(*                                                                         *)
(* A command is a line on the child's stdin.  There is no reply: the caller *)
(* watches the event bus for the next event that looks like the answer,     *)
(* and sends the command again when the generation of the stdin handle      *)
(* shows that the child was restarted meanwhile.  The supervisor, the       *)
(* threads that start and respawn the subscriber, the callers and the child *)
(* all interleave.  The callers are those addressing one peer through one   *)
(* subscriber: an answer to one matches all of them                         *)
(* (command_matches_terminal_event), an answer to anybody else matches none.*)
(***************************************************************************)
EXTENDS Naturals, Sequences, FiniteSets

CONSTANTS
    Caller,      \* send_command_and_wait calls, each with its command
    Keeper,      \* bound: threads that start or respawn the subscriber
    MaxHandle,   \* bound: SubscriberHandles created
    MaxSpawn,    \* bound: child processes started
    MaxFail,     \* bound: spawns that fail
    MaxNoise,    \* bound: other events on the bus
    Capacity,    \* DEFAULT_CAPACITY of the broadcast channel
    Resends      \* COMMAND_RESTART_RESENDS

ASSUME CommandAssumption ==
    /\ MaxHandle \in Nat /\ MaxSpawn \in Nat /\ MaxFail \in Nat
    /\ MaxNoise \in Nat /\ Capacity \in Nat \ {0} /\ Resends \in Nat

(* How a call may end without an answer.                                   *)
Unanswered == {"not_running", "timeout", "error", "restarted"}

ASSUME CallerAssumption == Caller \cap (Unanswered \cup {"none", "noise"}) = {}

Handle  == 1..MaxHandle
Process == 1..MaxSpawn

VARIABLES
    subscribers,  \* the registered handle of the id, {} or {h}
    handles,      \* handles created so far
    spawned,      \* processes started so far
    failed,       \* spawns that failed so far
    sup,          \* where each handle's run_loop is
    child,        \* the process each run_loop waits for, 0 if none
    stdin,        \* CommandSender.inner: the process, 0 if disconnected
    gen,          \* CommandSender.generation
    alive,        \* the processes that run
    inbox,        \* lines a process has not read yet
    busy,         \* the command a process carried out and has not reported
    bus,          \* every event published so far: a caller, or "noise"
    keeper,       \* what each keeper is doing
    lock,         \* the command_wait_lock of the subscriber and topic
    caller        \* the local variables of send_command_and_wait

(* History variables, read by the properties only.                         *)
VARIABLES
    copies,       \* how often each command reached each process
    began,        \* the generation of the sender when the call began
    result        \* how each call ended

supVars    == <<sup, child, stdin, gen, alive, spawned, failed>>
procVars   == <<inbox, busy, bus>>
keeperVars == <<subscribers, handles, keeper>>
callerVars == <<lock, caller>>
histVars   == <<copies, began, result>>
vars == <<supVars, procVars, keeperVars, callerVars, histVars>>

NoCall == [at |-> "idle", handle |-> 0, sent |-> 0, read |-> 0, resends |-> 0,
           cursor |-> 0]
Resting == [at |-> "idle", handle |-> 0]

Init ==
    /\ subscribers = {}
    /\ handles = 0 /\ spawned = 0 /\ failed = 0
    /\ sup = [h \in Handle |-> "none"]
    /\ child = [h \in Handle |-> 0]
    /\ stdin = [h \in Handle |-> 0]
    /\ gen = [h \in Handle |-> 0]
    /\ alive = {}
    /\ inbox = [p \in Process |-> <<>>]
    /\ busy = [p \in Process |-> {}]
    /\ bus = <<>>
    /\ keeper = [k \in Keeper |-> Resting]
    /\ lock = {}
    /\ caller = [c \in Caller |-> NoCall]
    /\ copies = [c \in Caller |-> [p \in Process |-> 0]]
    /\ began = [c \in Caller |-> 0]
    /\ result = [c \in Caller |-> "none"]

-----------------------------------------------------------------------------
(* The supervisor's run_loop.                                               *)

(* CommandSender::replace                                                   *)
replace(h, p) ==
    /\ stdin' = [stdin EXCEPT ![h] = p]
    /\ gen' = [gen EXCEPT ![h] = @ + 1]

(* spawn_once up to its wait: the process runs and its stdin is connected.  *)
spawn_once(h) ==
    /\ spawned < MaxSpawn
    /\ spawned' = spawned + 1
    /\ alive' = alive \cup {spawned'}
    /\ child' = [child EXCEPT ![h] = spawned']
    /\ replace(h, spawned')
    /\ sup' = [sup EXCEPT ![h] = "running"]
    /\ UNCHANGED failed

(* The child exits; its stdin stays in the sender until the next step.      *)
ChildExits(h) ==
    /\ sup[h] = "running"
    /\ alive' = alive \ {child[h]}
    /\ sup' = [sup EXCEPT ![h] = "exited"]
    /\ UNCHANGED <<child, stdin, gen, spawned, failed, procVars, keeperVars,
                   callerVars, histVars>>

Disconnect(h) ==
    /\ sup[h] = "exited"
    /\ replace(h, 0)
    /\ child' = [child EXCEPT ![h] = 0]
    /\ sup' = [sup EXCEPT ![h] = "backoff"]
    /\ UNCHANGED <<alive, spawned, failed, procVars, keeperVars, callerVars, histVars>>

(* The backoff is over.                                                     *)
Restart(h) ==
    /\ sup[h] = "backoff"
    /\ spawn_once(h)
    /\ UNCHANGED <<procVars, keeperVars, callerVars, histVars>>

(* The spawn fails: replace(None) once more, and another backoff.           *)
RestartFails(h) ==
    /\ sup[h] = "backoff"
    /\ failed < MaxFail
    /\ failed' = failed + 1
    /\ replace(h, 0)
    /\ UNCHANGED <<sup, child, alive, spawned, procVars, keeperVars, callerVars,
                   histVars>>

-----------------------------------------------------------------------------
(* start_subscriber and respawn_proxy_sensitive_subscribers.                *)

(* start_subscriber holds the map's lock over the test and the spawn.  A    *)
(* keeper that respawns arrives here after its shutdown.                    *)
start_subscriber(k) ==
    /\ keeper[k].at \in {"idle", "start"}
    /\ keeper' = [keeper EXCEPT ![k] = Resting]
    /\ \/ /\ subscribers # {}
          /\ keeper[k].at = "start"
          /\ UNCHANGED <<subscribers, handles, supVars>>
       \/ /\ subscribers = {}
          /\ handles < MaxHandle
          /\ handles' = handles + 1
          /\ subscribers' = {handles'}
          /\ spawn_once(handles')
    /\ UNCHANGED <<procVars, callerVars, histVars>>

(* The handle leaves the map under the lock; the shutdown is not under it.  *)
RespawnRemove(k) ==
    /\ keeper[k] = Resting
    /\ \E h \in subscribers :
          keeper' = [keeper EXCEPT ![k] = [at |-> "shutdown", handle |-> h]]
    /\ subscribers' = {}
    /\ UNCHANGED <<handles, supVars, procVars, callerVars, histVars>>

(* Mutant: the supervisor is signalled and not aborted; it is blocked in    *)
(* child.wait and does not look.                                            *)
ShutdownSignals(k) ==
    /\ keeper[k].at = "shutdown"
    /\ keeper' = [keeper EXCEPT ![k].at = "start"]
    /\ UNCHANGED <<subscribers, handles, supVars, procVars, callerVars, histVars>>

(* SubscriberHandle::shutdown: the task is aborted and kill_on_drop ends    *)
(* the child.  The sender is not told: its stdin and generation stay.       *)
Shutdown(k) ==
    /\ keeper[k].at = "shutdown"
    /\ LET h == keeper[k].handle IN
         /\ sup' = [sup EXCEPT ![h] = "aborted"]
         /\ alive' = alive \ {child[h]}
    /\ keeper' = [keeper EXCEPT ![k].at = "start"]
    /\ UNCHANGED <<child, stdin, gen, spawned, failed, subscribers, handles,
                   procVars, callerVars, histVars>>

-----------------------------------------------------------------------------
(* The child and the bus.                                                   *)

(* The child reads a command and carries it out.                            *)
Execute(p) ==
    /\ p \in alive
    /\ inbox[p] # <<>> /\ busy[p] = {}
    /\ busy' = [busy EXCEPT ![p] = {Head(inbox[p])}]
    /\ inbox' = [inbox EXCEPT ![p] = Tail(@)]
    /\ UNCHANGED <<bus, supVars, keeperVars, callerVars, histVars>>

(* It writes the answer, and stdout_task publishes it.                      *)
Answer(p) ==
    /\ p \in alive
    /\ \E c \in busy[p] : bus' = Append(bus, c)
    /\ busy' = [busy EXCEPT ![p] = {}]
    /\ UNCHANGED <<inbox, supVars, keeperVars, callerVars, histVars>>

Noise == Cardinality({i \in DOMAIN bus : bus[i] = "noise"})

(* Anybody else publishes on the bus; without a call nobody would notice.   *)
OtherEvent ==
    /\ lock # {}
    /\ Noise < MaxNoise
    /\ bus' = Append(bus, "noise")
    /\ UNCHANGED <<inbox, busy, supVars, keeperVars, callerVars, histVars>>

-----------------------------------------------------------------------------
(* send_command_and_wait.                                                   *)

Moves(c, l) == caller' = [caller EXCEPT ![c].at = l]

(* Mutant: the callers do not wait for one another.                         *)
LockShared(c) ==
    /\ caller[c] = NoCall /\ result[c] = "none"
    /\ lock' = lock \cup {c}
    /\ Moves(c, "begin")
    /\ UNCHANGED <<supVars, procVars, keeperVars, histVars>>

(* One call at a time for a subscriber and topic.                           *)
Lock(c) ==
    /\ caller[c] = NoCall /\ result[c] = "none"
    /\ lock = {}
    /\ lock' = {c}
    /\ Moves(c, "begin")
    /\ UNCHANGED <<supVars, procVars, keeperVars, histVars>>

Return(c, r) ==
    /\ caller' = [caller EXCEPT ![c] = NoCall]
    /\ lock' = lock \ {c}
    /\ result' = [result EXCEPT ![c] = r]

(* The sender is cloned out of the registered handle and the bus is         *)
(* subscribed to before anything is sent.                                   *)
Begin(c) ==
    /\ caller[c].at = "begin"
    /\ \/ /\ subscribers = {}
          /\ Return(c, "not_running")
          /\ UNCHANGED began
       \/ \E h \in subscribers :
             /\ caller' = [caller EXCEPT ![c] = [NoCall EXCEPT
                             !.at = "attempt", !.handle = h, !.cursor = Len(bus)]]
             /\ began' = [began EXCEPT ![c] = gen[h]]
             /\ UNCHANGED <<lock, result>>
    /\ UNCHANGED <<supVars, procVars, keeperVars, copies>>

(* The deadline is past at the top of either loop.                          *)
GiveUp(c) ==
    /\ caller[c].at \in {"attempt", "wait"}
    /\ Return(c, "timeout")
    /\ UNCHANGED <<supVars, procVars, keeperVars, copies, began>>

(* send_command_before_deadline: the generation is read, then the line is   *)
(* written, in two steps.                                                   *)
ReadGeneration(c) ==
    /\ caller[c].at = "attempt"
    /\ caller' = [caller EXCEPT ![c].at = "send", ![c].read = gen[caller[c].handle]]
    /\ UNCHANGED <<lock, supVars, procVars, keeperVars, histVars>>

(* CommandSender::send into a live child.                                   *)
Send(c) ==
    /\ caller[c].at = "send"
    /\ LET p == stdin[caller[c].handle] IN
         /\ p \in alive
         /\ inbox' = [inbox EXCEPT ![p] = Append(@, c)]
         /\ copies' = [copies EXCEPT ![c][p] = @ + 1]
    /\ caller' = [caller EXCEPT ![c].at = "wait", ![c].sent = caller[c].read]
    /\ UNCHANGED <<busy, bus, lock, supVars, keeperVars, began, result>>

(* No stdin, or the pipe of a child that is gone.                           *)
SendFails(c) ==
    /\ caller[c].at = "send"
    /\ stdin[caller[c].handle] \notin alive
    /\ Moves(c, IF stdin[caller[c].handle] = 0 THEN "attempt" ELSE "failed")
    /\ UNCHANGED <<lock, supVars, procVars, keeperVars, histVars>>

(* A write error, one poll interval later.                                  *)
SendFailed(c) ==
    /\ caller[c].at = "failed"
    /\ LET h == caller[c].handle IN
         IF stdin[h] = 0 \/ gen[h] # caller[c].read
         THEN Moves(c, "attempt") /\ UNCHANGED <<lock, result>>
         ELSE Return(c, "error")
    /\ UNCHANGED <<supVars, procVars, keeperVars, copies, began>>

(* The receiver skips what it lost to the capacity of the channel.          *)
NextUnread(c) ==
    LET oldest == IF Len(bus) > Capacity THEN Len(bus) - Capacity + 1 ELSE 1
    IN  IF caller[c].cursor >= oldest THEN caller[c].cursor + 1 ELSE oldest

(* The next event on the topic: an answer to any of the callers matches.    *)
Receive(c) ==
    /\ caller[c].at = "wait"
    /\ NextUnread(c) <= Len(bus)
    /\ IF bus[NextUnread(c)] \in Caller
       THEN Return(c, bus[NextUnread(c)])
       ELSE /\ caller' = [caller EXCEPT ![c].at = "check", ![c].cursor = NextUnread(c)]
            /\ UNCHANGED <<lock, result>>
    /\ UNCHANGED <<supVars, procVars, keeperVars, copies, began>>

(* Nothing within the poll interval.                                        *)
Poll(c) ==
    /\ caller[c].at = "wait"
    /\ Moves(c, "check")
    /\ UNCHANGED <<lock, supVars, procVars, keeperVars, histVars>>

(* Mutants: silence counts as a restart; one resend too many.               *)
CheckSilence(c) ==
    /\ caller[c].at = "check"
    /\ IF caller[c].resends >= Resends
       THEN Return(c, "restarted")
       ELSE /\ caller' = [caller EXCEPT ![c].at = "attempt", ![c].resends = @ + 1]
            /\ UNCHANGED <<lock, result>>
    /\ UNCHANGED <<supVars, procVars, keeperVars, copies, began>>

CheckOneMore(c) ==
    /\ caller[c].at = "check"
    /\ IF gen[caller[c].handle] = caller[c].sent
       THEN Moves(c, "wait") /\ UNCHANGED <<lock, result>>
       ELSE IF caller[c].resends > Resends
            THEN Return(c, "restarted")
            ELSE /\ caller' = [caller EXCEPT ![c].at = "attempt", ![c].resends = @ + 1]
                 /\ UNCHANGED <<lock, result>>
    /\ UNCHANGED <<supVars, procVars, keeperVars, copies, began>>

(* The stdin was replaced since the command was sent: send it again.        *)
CheckGeneration(c) ==
    /\ caller[c].at = "check"
    /\ IF gen[caller[c].handle] = caller[c].sent
       THEN Moves(c, "wait") /\ UNCHANGED <<lock, result>>
       ELSE IF caller[c].resends >= Resends
            THEN Return(c, "restarted")
            ELSE /\ caller' = [caller EXCEPT ![c].at = "attempt", ![c].resends = @ + 1]
                 /\ UNCHANGED <<lock, result>>
    /\ UNCHANGED <<supVars, procVars, keeperVars, copies, began>>

-----------------------------------------------------------------------------
Call(c) ==
    \/ Begin(c) \/ GiveUp(c) \/ ReadGeneration(c) \/ Send(c) \/ SendFails(c)
    \/ SendFailed(c) \/ Receive(c) \/ Poll(c) \/ CheckGeneration(c)

Supervisor(h) ==
    ChildExits(h) \/ Disconnect(h) \/ Restart(h) \/ RestartFails(h)

(* Every call has returned: nothing more is asked of the subscriber.        *)
AtRest ==
    /\ \A c \in Caller : caller[c] = NoCall
    /\ UNCHANGED vars

Next ==
    \/ \E h \in Handle : Supervisor(h)
    \/ \E k \in Keeper : start_subscriber(k) \/ RespawnRemove(k) \/ Shutdown(k)
    \/ \E p \in Process : Execute(p) \/ Answer(p)
    \/ OtherEvent
    \/ \E c \in Caller : Lock(c) \/ Call(c)
    \/ AtRest

Spec == Init /\ [][Next]_vars

-----------------------------------------------------------------------------
(* Properties.                                                              *)

(* Every variable keeps its type; the sender never points at a process that *)
(* was not started.                                                         *)
TypeOK ==
    /\ subscribers \in {{}} \cup {{h} : h \in Handle}
    /\ handles \in 0..MaxHandle /\ spawned \in 0..MaxSpawn /\ failed \in 0..MaxFail
    /\ sup \in [Handle -> {"none", "running", "exited", "backoff", "aborted"}]
    /\ child \in [Handle -> 0..spawned] /\ stdin \in [Handle -> 0..spawned]
    /\ gen \in [Handle -> Nat]
    /\ alive \subseteq 1..spawned
    /\ inbox \in [Process -> Seq(Caller)]
    /\ busy \in [Process -> SUBSET Caller]
    /\ bus \in Seq(Caller \cup {"noise"})
    /\ lock \subseteq Caller
    /\ \A c \in Caller : /\ caller[c].resends \in 0..Resends
                         /\ caller[c].cursor \in 0..Len(bus)
                         /\ caller[c].handle \in 0..MaxHandle

(* One element per copy of c's command that was written to a process.       *)
Copies(c) == {x \in Process \X (1..Resends + 2) : x[2] <= copies[c][x[1]]}
Total(c)  == Cardinality(Copies(c))

(* A command is sent again only after the stdin was replaced, at most       *)
(* Resends times, and one process gets it at most twice (the second time    *)
(* because the generation was read before the child came up and the line    *)
(* was written after).                                                      *)
CopiesBounded ==
    \A c \in Caller :
        /\ Total(c) <= Resends + 1
        /\ \A p \in Process : copies[c][p] <= 2
        /\ caller[c].at # "idle" /\ Total(c) > 1 => gen[caller[c].handle] > began[c]

(* A call that gave up, or that sent its command more than once, leaves an  *)
(* answer behind that nobody waits for.                                     *)
LeavesAnswer(d) == result[d] \in {"timeout", "error", "restarted"} \/ Total(d) > 1

(* The answer a call returns belongs to no other open call: the wait lock   *)
(* keeps them apart.  It may be the answer to a call that is over and left  *)
(* one behind, either by itself or because it took another's; until some    *)
(* call gives up or sends twice, every answer goes where it belongs.        *)
AnswerIsOwn ==
    \A c, d \in Caller : result[c] = d /\ c # d =>
        /\ result[d] \notin {"none", "not_running"}
        /\ result[d] = d => Total(d) > 1
        /\ \E e \in Caller : LeavesAnswer(e)

(* A process that runs belongs to the registered subscriber, or to one that *)
(* a respawn is about to shut down: none is left behind.                    *)
NoOrphanProcess ==
    \A p \in alive : \E h \in Handle :
        /\ child[h] = p
        /\ \/ h \in subscribers
           \/ \E k \in Keeper : keeper[k] = [at |-> "shutdown", handle |-> h]

-----------------------------------------------------------------------------
(* What a comment says and the code does not keep.                          *)

(* "If a subscriber with that id is already running, returns Ok(id) without *)
(* spawning a duplicate": never two children of one subscriber.             *)
NoDuplicateProcess == Cardinality(alive) <= 1
=============================================================================
