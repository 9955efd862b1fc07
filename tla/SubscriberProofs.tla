-------------------------- MODULE SubscriberProofs --------------------------
(***************************************************************************)
(* SubscriberCommand: types, the processes a subscriber leaves behind, how  *)
(* often a command is carried out and whose answer a call returns, for any  *)
(* number of callers, keepers, handles, processes and events.               *)
(***************************************************************************)
EXTENDS SubscriberCommand, FiniteSetTheorems, SequenceTheorems, TLAPS

CallerAt == {"idle", "begin", "attempt", "send", "failed", "wait", "check"}

(* A call that holds a sender.                                              *)
Holding == {"attempt", "send", "failed", "wait", "check"}

CallState == [at : CallerAt, handle : 0..MaxHandle, sent : Nat, read : Nat,
              resends : 0..Resends, cursor : Nat]
KeeperState == [at : {"idle", "shutdown", "start"}, handle : 0..MaxHandle]

(* TypeOK, with the callers and keepers as whole records: a caller that     *)
(* holds a sender, and a keeper that shuts down, has a handle that exists.  *)
Typed ==
    /\ TypeOK
    /\ caller \in [Caller -> CallState]
    /\ \A c \in Caller : caller[c].at \in Holding => caller[c].handle \in Handle
    /\ keeper \in [Keeper -> KeeperState]
    /\ \A k \in Keeper : keeper[k].at = "shutdown" => keeper[k].handle \in Handle
    /\ copies \in [Caller -> [Process -> Nat]]
    /\ began \in [Caller -> Nat]
    /\ result \in [Caller -> Caller \cup Unanswered \cup {"none"}]

-----------------------------------------------------------------------------
(* spawn_once of a handle.                                                  *)
LEMMA SpawnTyped ==
    ASSUME Typed, NEW h \in Handle, spawn_once(h)
    PROVE  /\ spawned' \in 0..MaxSpawn /\ failed' \in 0..MaxFail
           /\ sup' \in [Handle -> {"none", "running", "exited", "backoff", "aborted"}]
           /\ child' \in [Handle -> 0..spawned'] /\ stdin' \in [Handle -> 0..spawned']
           /\ gen' \in [Handle -> Nat] /\ alive' \subseteq 1..spawned'
<1> USE CommandAssumption
<1>1. spawned' \in 0..MaxSpawn /\ spawned' = spawned + 1 /\ spawned \in Nat
  BY DEF spawn_once, Typed, TypeOK
<1>2. stdin' \in [Handle -> 0..spawned'] /\ gen' \in [Handle -> Nat]
  BY <1>1 DEF spawn_once, replace, Typed, TypeOK
<1>3. child' \in [Handle -> 0..spawned']
  BY <1>1 DEF spawn_once, Typed, TypeOK
<1>4. alive' \subseteq 1..spawned'
  BY <1>1 DEF spawn_once, Typed, TypeOK
<1>5. /\ sup' \in [Handle -> {"none", "running", "exited", "backoff", "aborted"}]
      /\ failed' \in 0..MaxFail
  BY DEF spawn_once, Typed, TypeOK
<1> QED
  BY <1>1, <1>2, <1>3, <1>4, <1>5

(* The supervisor's run_loop keeps the types.                               *)
LEMMA SupervisorTyped ==
    ASSUME Typed, NEW h \in Handle, Supervisor(h)
    PROVE  Typed'
<1> USE CommandAssumption
<1>1. UNCHANGED <<procVars, keeperVars, callerVars, histVars>>
  BY DEF Supervisor, ChildExits, Disconnect, Restart, RestartFails
<1>2. /\ spawned' \in 0..MaxSpawn /\ failed' \in 0..MaxFail
      /\ sup' \in [Handle -> {"none", "running", "exited", "backoff", "aborted"}]
      /\ child' \in [Handle -> 0..spawned'] /\ stdin' \in [Handle -> 0..spawned']
      /\ gen' \in [Handle -> Nat] /\ alive' \subseteq 1..spawned'
  <2>1. CASE ChildExits(h)
    BY <2>1 DEF ChildExits, Typed, TypeOK
  <2>2. CASE Disconnect(h)
    <3>1. stdin' \in [Handle -> 0..spawned] /\ gen' \in [Handle -> Nat]
      BY <2>2 DEF Disconnect, replace, Typed, TypeOK
    <3>2. child' \in [Handle -> 0..spawned]
      BY <2>2 DEF Disconnect, Typed, TypeOK
    <3> QED
      BY <2>2, <3>1, <3>2 DEF Disconnect, Typed, TypeOK
  <2>3. CASE Restart(h)
    BY <2>3, SpawnTyped DEF Restart
  <2>4. CASE RestartFails(h)
    <3>1. stdin' \in [Handle -> 0..spawned] /\ gen' \in [Handle -> Nat]
      BY <2>4 DEF RestartFails, replace, Typed, TypeOK
    <3> QED
      BY <2>4, <3>1 DEF RestartFails, Typed, TypeOK
  <2> QED
    BY <2>1, <2>2, <2>3, <2>4 DEF Supervisor
<1> QED
  BY <1>1, <1>2 DEF Typed, TypeOK, procVars, keeperVars, callerVars, histVars

(* The keepers keep the types.                                              *)
LEMMA KeeperTyped ==
    ASSUME Typed, NEW k \in Keeper, start_subscriber(k) \/ RespawnRemove(k) \/ Shutdown(k)
    PROVE  Typed'
<1> USE CommandAssumption
<1>1. CASE start_subscriber(k) /\ subscribers # {}
  <2>1. UNCHANGED <<subscribers, handles, supVars, procVars, callerVars, histVars>>
    BY <1>1 DEF start_subscriber
  <2>2. keeper' = [keeper EXCEPT ![k] = Resting] /\ Resting \in KeeperState /\ Resting.at = "idle"
    BY <1>1 DEF start_subscriber, Resting, KeeperState
  <2> QED
    BY <2>1, <2>2 DEF Typed, TypeOK, supVars, procVars, callerVars, histVars
<1>2. CASE start_subscriber(k) /\ subscribers = {}
  <2>1. /\ handles' = handles + 1 /\ handles' \in Handle /\ handles' \in 0..MaxHandle
        /\ subscribers' = {handles'}
        /\ spawn_once(handles')
        /\ UNCHANGED <<procVars, callerVars, histVars>>
    BY <1>2 DEF start_subscriber, Typed, TypeOK, Handle
  <2>2. keeper' = [keeper EXCEPT ![k] = Resting] /\ Resting \in KeeperState /\ Resting.at = "idle"
    BY <1>2 DEF start_subscriber, Resting, KeeperState
  <2>3. subscribers' \in {{}} \cup {{h} : h \in Handle}
    BY <2>1
  <2>4. /\ spawned' \in 0..MaxSpawn /\ failed' \in 0..MaxFail
        /\ sup' \in [Handle -> {"none", "running", "exited", "backoff", "aborted"}]
        /\ child' \in [Handle -> 0..spawned'] /\ stdin' \in [Handle -> 0..spawned']
        /\ gen' \in [Handle -> Nat] /\ alive' \subseteq 1..spawned'
    BY <2>1, SpawnTyped
  <2> QED
    BY <2>1, <2>2, <2>3, <2>4 DEF Typed, TypeOK, procVars, callerVars, histVars
<1>3. CASE RespawnRemove(k)
  <2>1. PICK h \in subscribers :
           keeper' = [keeper EXCEPT ![k] = [at |-> "shutdown", handle |-> h]]
    BY <1>3 DEF RespawnRemove
  <2>2. h \in Handle /\ h \in 0..MaxHandle
    BY DEF Typed, TypeOK, Handle
  <2>3. [at |-> "shutdown", handle |-> h] \in KeeperState
    BY <2>2 DEF KeeperState
  <2>4. keeper' \in [Keeper -> KeeperState]
    BY <2>1, <2>3 DEF Typed
  <2>5. \A l \in Keeper : keeper'[l].at = "shutdown" => keeper'[l].handle \in Handle
    BY <2>1, <2>2 DEF Typed
  <2> QED
    BY <1>3, <2>4, <2>5 DEF RespawnRemove, Typed, TypeOK, supVars, procVars, callerVars, histVars
<1>4. CASE Shutdown(k)
  <2>1. keeper[k].handle \in Handle /\ keeper[k].at = "shutdown"
    BY <1>4 DEF Shutdown, Typed
  <2>2. /\ keeper' = [keeper EXCEPT ![k].at = "start"]
        /\ sup' \in [Handle -> {"none", "running", "exited", "backoff", "aborted"}]
        /\ alive' \subseteq alive
        /\ UNCHANGED <<child, stdin, gen, spawned, failed, subscribers, handles,
                       procVars, callerVars, histVars>>
    BY <1>4 DEF Shutdown, Typed, TypeOK
  <2>3. keeper' \in [Keeper -> KeeperState]
    BY <2>2 DEF Typed, KeeperState
  <2>4. \A l \in Keeper : keeper'[l].at = "shutdown" => keeper'[l].handle \in Handle
    BY <2>2 DEF Typed, KeeperState
  <2> QED
    BY <2>2, <2>3, <2>4 DEF Typed, TypeOK, procVars, callerVars, histVars
<1> QED
  BY <1>1, <1>2, <1>3, <1>4

(* The child and the bus keep the types.                                    *)
LEMMA ProcessTyped ==
    ASSUME Typed, (\E p \in Process : Execute(p) \/ Answer(p)) \/ OtherEvent
    PROVE  Typed'
<1>1. UNCHANGED <<supVars, keeperVars, callerVars, histVars>>
  BY DEF Execute, Answer, OtherEvent
<1>2. /\ inbox' \in [Process -> Seq(Caller)] /\ busy' \in [Process -> SUBSET Caller]
      /\ bus' \in Seq(Caller \cup {"noise"}) /\ Len(bus) <= Len(bus')
  <2>1. ASSUME NEW p \in Process, Execute(p)
        PROVE  /\ inbox' \in [Process -> Seq(Caller)] /\ busy' \in [Process -> SUBSET Caller]
               /\ UNCHANGED bus
    <3>1. inbox[p] \in Seq(Caller) /\ inbox[p] # <<>>
      BY <2>1 DEF Execute, Typed, TypeOK
    <3>2. Head(inbox[p]) \in Caller /\ Tail(inbox[p]) \in Seq(Caller)
      BY <3>1
    <3> QED
      BY <2>1, <3>2 DEF Execute, Typed, TypeOK
  <2>2. ASSUME NEW p \in Process, Answer(p)
        PROVE  /\ UNCHANGED inbox /\ busy' \in [Process -> SUBSET Caller]
               /\ bus' \in Seq(Caller \cup {"noise"}) /\ Len(bus') = Len(bus) + 1
    <3>1. PICK c \in busy[p] : bus' = Append(bus, c)
      BY <2>2 DEF Answer
    <3>2. c \in Caller /\ bus \in Seq(Caller \cup {"noise"})
      BY DEF Typed, TypeOK
    <3> QED
      BY <2>2, <3>1, <3>2 DEF Answer, Typed, TypeOK
  <2>3. CASE OtherEvent
    BY <2>3 DEF OtherEvent, Typed, TypeOK
  <2>4. bus \in Seq(Caller \cup {"noise"})
    BY DEF Typed, TypeOK
  <2> QED
    BY <2>1, <2>2, <2>3, <2>4 DEF Typed, TypeOK
<1>3. Len(bus) \in Nat /\ Len(bus') \in Nat
  BY <1>2 DEF Typed, TypeOK
<1>4. \A c \in Caller : caller'[c].cursor \in 0..Len(bus')
  BY <1>1, <1>2, <1>3 DEF Typed, TypeOK, callerVars
<1> QED
  BY <1>1, <1>2, <1>4 DEF Typed, TypeOK, supVars, keeperVars, callerVars, histVars

(* A step of a call leaves the supervisor, the keepers and the bus alone,   *)
(* and changes the record of that call only.                                *)
CallStep(c) ==
    /\ UNCHANGED <<supVars, keeperVars, busy, bus>>
    /\ lock' \subseteq lock
    /\ inbox' \in [Process -> Seq(Caller)]
    /\ caller' = [caller EXCEPT ![c] = caller'[c]]
    /\ caller'[c] \in CallState /\ caller'[c].cursor \in 0..Len(bus)
    /\ caller'[c].at \in Holding => caller'[c].handle \in Handle
    /\ copies' \in [Caller -> [Process -> Nat]]
    /\ began' \in [Caller -> Nat]
    /\ result' \in [Caller -> Caller \cup Unanswered \cup {"none"}]

(* A step of a call keeps the types.                                        *)
LEMMA CallKeepsTypes ==
    ASSUME Typed, NEW c \in Caller, CallStep(c)
    PROVE  Typed'
<1>1. caller' \in [Caller -> CallState]
  BY DEF Typed, CallStep
<1>2. \A d \in Caller : caller'[d] = IF d = c THEN caller'[c] ELSE caller[d]
  BY DEF Typed, CallStep
<1>3. \A d \in Caller : /\ caller'[d].cursor \in 0..Len(bus)
                        /\ caller'[d].at \in Holding => caller'[d].handle \in Handle
  BY <1>2 DEF Typed, TypeOK, CallStep
<1>4. \A d \in Caller : caller'[d].resends \in 0..Resends /\ caller'[d].handle \in 0..MaxHandle
  BY <1>1 DEF CallState
<1> QED
  BY <1>1, <1>3, <1>4 DEF Typed, TypeOK, CallStep, supVars, keeperVars

(* Every step of send_command_and_wait is such a step.                      *)
LEMMA CallTyped ==
    ASSUME Typed, NEW c \in Caller, Call(c)
    PROVE  CallStep(c)
<1> USE CommandAssumption
<1> DEFINE Ended(r) == Return(c, r) /\ r \in Caller \cup Unanswered
<1>1. NoCall \in CallState /\ NoCall.cursor = 0 /\ NoCall.at = "idle" /\ Len(bus) \in Nat
  BY DEF NoCall, CallState, CallerAt, Typed, TypeOK
<1>2. /\ caller \in [Caller -> CallState] /\ caller[c] \in CallState
      /\ caller[c].cursor \in 0..Len(bus)
      /\ inbox \in [Process -> Seq(Caller)] /\ copies \in [Caller -> [Process -> Nat]]
      /\ began \in [Caller -> Nat]
      /\ result \in [Caller -> Caller \cup Unanswered \cup {"none"}]
      /\ gen \in [Handle -> Nat]
  BY DEF Typed, TypeOK
<1>3. ASSUME NEW r, Ended(r), UNCHANGED <<supVars, procVars, keeperVars, copies, began>>
      PROVE  CallStep(c)
  <2>1. /\ caller' = [caller EXCEPT ![c] = NoCall] /\ lock' = lock \ {c}
        /\ result' = [result EXCEPT ![c] = r]
    BY <1>3 DEF Return
  <2>2. result' \in [Caller -> Caller \cup Unanswered \cup {"none"}]
    BY <1>2, <1>3, <2>1
  <2>3. caller'[c] = NoCall /\ caller' = [caller EXCEPT ![c] = caller'[c]]
    BY <1>2, <2>1
  <2>4. NoCall.at \notin Holding
    BY <1>1 DEF Holding
  <2> QED
    BY <1>1, <1>2, <1>3, <2>1, <2>2, <2>3, <2>4 DEF CallStep, procVars
<1>4. ASSUME NEW l \in Holding, Moves(c, l), caller[c].at \in Holding,
             UNCHANGED <<lock, result, supVars, procVars, keeperVars, copies, began>>
      PROVE  CallStep(c)
  <2>1. caller'[c] = [caller[c] EXCEPT !.at = l] /\ caller' = [caller EXCEPT ![c] = caller'[c]]
    BY <1>2, <1>4 DEF Moves
  <2>2. caller'[c] \in CallState /\ caller'[c].cursor = caller[c].cursor
        /\ caller'[c].handle = caller[c].handle
    BY <1>2, <2>1, <1>4 DEF CallState, CallerAt, Holding
  <2> QED
    BY <1>2, <1>4, <2>1, <2>2 DEF CallStep, procVars, Typed
<1>5. CASE Begin(c) /\ subscribers = {}
  BY <1>3, <1>5 DEF Begin, Unanswered
<1>6. CASE Begin(c) /\ subscribers # {}
  <2>1. PICK h \in subscribers :
           /\ caller' = [caller EXCEPT ![c] = [NoCall EXCEPT
                           !.at = "attempt", !.handle = h, !.cursor = Len(bus)]]
           /\ began' = [began EXCEPT ![c] = gen[h]]
           /\ UNCHANGED <<lock, result, supVars, procVars, keeperVars, copies>>
    BY <1>6 DEF Begin
  <2>2. h \in Handle /\ h \in 0..MaxHandle
    BY DEF Typed, TypeOK, Handle
  <2>3. /\ caller'[c] = [NoCall EXCEPT !.at = "attempt", !.handle = h, !.cursor = Len(bus)]
        /\ caller' = [caller EXCEPT ![c] = caller'[c]]
    BY <1>2, <2>1
  <2>4. caller'[c] \in CallState /\ caller'[c].cursor = Len(bus) /\ caller'[c].handle = h
    BY <1>1, <2>2, <2>3 DEF NoCall, CallState, CallerAt
  <2>5. began' \in [Caller -> Nat]
    BY <1>2, <2>1, <2>2
  <2> QED
    BY <1>1, <1>2, <2>1, <2>2, <2>3, <2>4, <2>5 DEF CallStep, procVars
<1>7. CASE GiveUp(c)
  BY <1>3, <1>7 DEF GiveUp, Unanswered
<1>8. CASE ReadGeneration(c)
  <2>1. caller[c].handle \in Handle
    BY <1>8 DEF ReadGeneration, Typed, Holding
  <2>2. /\ caller'[c] = [caller[c] EXCEPT !.at = "send", !.read = gen[caller[c].handle]]
        /\ caller' = [caller EXCEPT ![c] = caller'[c]]
    BY <1>2, <1>8 DEF ReadGeneration
  <2>3. caller'[c] \in CallState /\ caller'[c].cursor = caller[c].cursor
        /\ caller'[c].handle = caller[c].handle
    BY <1>2, <2>1, <2>2 DEF CallState, CallerAt
  <2> QED
    BY <1>2, <1>8, <2>1, <2>2, <2>3 DEF ReadGeneration, CallStep, procVars, histVars
<1>9. CASE Send(c)
  <2> DEFINE p == stdin[caller[c].handle]
  <2>0. alive \subseteq Process
    BY DEF Typed, TypeOK, Process
  <2>1. /\ p \in Process
        /\ inbox' = [inbox EXCEPT ![p] = Append(@, c)]
        /\ copies' = [copies EXCEPT ![c][p] = @ + 1]
        /\ UNCHANGED <<busy, bus, lock, supVars, keeperVars, began, result>>
    BY <1>9, <2>0 DEF Send
  <2>2. /\ caller'[c] = [caller[c] EXCEPT !.at = "wait", !.sent = caller[c].read]
        /\ caller' = [caller EXCEPT ![c] = caller'[c]]
    BY <1>2, <1>9 DEF Send
  <2>3. caller'[c] \in CallState /\ caller'[c].cursor = caller[c].cursor
        /\ caller'[c].handle = caller[c].handle
    BY <1>2, <2>2 DEF CallState, CallerAt
  <2>4. inbox' \in [Process -> Seq(Caller)]
    BY <1>2, <2>1
  <2>5. copies' \in [Caller -> [Process -> Nat]]
    BY <1>2, <2>1
  <2>6. caller[c].handle \in Handle
    BY <1>9 DEF Send, Typed, Holding
  <2> QED
    BY <1>2, <2>1, <2>2, <2>3, <2>4, <2>5, <2>6 DEF CallStep
<1>10. CASE SendFails(c)
  BY <1>4, <1>10 DEF SendFails, Holding, histVars, procVars
<1>11. CASE SendFailed(c)
  BY <1>3, <1>4, <1>11 DEF SendFailed, Holding, Unanswered
<1>12. CASE Receive(c)
  <2>1. NextUnread(c) \in 1..Len(bus)
    BY SMTT(30), <1>1, <1>2, <1>12 DEF Receive, NextUnread
  <2>2. CASE bus[NextUnread(c)] \in Caller
    BY <1>3, <1>12, <2>2 DEF Receive
  <2>3. CASE bus[NextUnread(c)] \notin Caller
    <3>0. /\ caller' = [caller EXCEPT ![c].at = "check", ![c].cursor = NextUnread(c)]
          /\ UNCHANGED <<lock, result, supVars, procVars, keeperVars, copies, began>>
      BY <1>12, <2>3 DEF Receive
    <3>1. /\ caller'[c] = [caller[c] EXCEPT !.at = "check", !.cursor = NextUnread(c)]
          /\ caller' = [caller EXCEPT ![c] = caller'[c]]
      BY <1>2, <3>0 DEF CallState
    <3>2. caller'[c] \in CallState /\ caller'[c].cursor = NextUnread(c)
          /\ caller'[c].handle = caller[c].handle
      <4>1. NextUnread(c) \in Nat
        BY <1>1, <2>1
      <4> QED
        BY <1>2, <3>1, <4>1 DEF CallState, CallerAt
    <3>3. caller[c].handle \in Handle
      BY <1>12 DEF Receive, Typed, Holding
    <3> QED
      BY <1>1, <1>2, <2>1, <3>0, <3>1, <3>2, <3>3 DEF CallStep, procVars
  <2> QED
    BY <2>2, <2>3
<1>13. CASE Poll(c)
  BY <1>4, <1>13 DEF Poll, Holding, histVars, procVars
<1>14. CASE CheckGeneration(c)
  <2>1. CASE gen[caller[c].handle] = caller[c].sent
    BY <1>4, <1>14, <2>1 DEF CheckGeneration, Holding
  <2>2. CASE gen[caller[c].handle] # caller[c].sent /\ caller[c].resends >= Resends
    BY <1>3, <1>14, <2>2 DEF CheckGeneration, Unanswered
  <2>3. CASE gen[caller[c].handle] # caller[c].sent /\ ~(caller[c].resends >= Resends)
    <3>0. /\ caller' = [caller EXCEPT ![c].at = "attempt", ![c].resends = @ + 1]
          /\ UNCHANGED <<lock, result, supVars, procVars, keeperVars, copies, began>>
      BY <1>14, <2>3 DEF CheckGeneration
    <3>1. /\ caller'[c] = [caller[c] EXCEPT !.at = "attempt", !.resends = @ + 1]
          /\ caller' = [caller EXCEPT ![c] = caller'[c]]
      BY <1>2, <3>0 DEF CallState
    <3>2. caller'[c] \in CallState /\ caller'[c].cursor = caller[c].cursor
          /\ caller'[c].handle = caller[c].handle
      <4>1. caller[c].resends + 1 \in 0..Resends
        BY <1>2, <2>3 DEF CallState
      <4> QED
        BY <1>2, <3>1, <4>1 DEF CallState, CallerAt
    <3>3. caller[c].handle \in Handle
      BY <1>14 DEF CheckGeneration, Typed, Holding
    <3> QED
      BY <1>2, <3>0, <3>1, <3>2, <3>3 DEF CallStep, procVars
  <2> QED
    BY <2>1, <2>2, <2>3
<1> QED
  BY <1>5, <1>6, <1>7, <1>8, <1>9, <1>10, <1>11, <1>12, <1>13, <1>14 DEF Call

(* The types hold at first and every step keeps them.                       *)
LEMMA TypedHolds == Spec => []Typed
<1> USE CommandAssumption
<1>1. Init => Typed
  <2> SUFFICES ASSUME Init PROVE Typed
    OBVIOUS
  <2>1. NoCall \in CallState /\ NoCall.at = "idle" /\ NoCall.cursor = 0
        /\ NoCall.resends = 0 /\ NoCall.handle = 0
    BY DEF NoCall, CallState, CallerAt
  <2>2. Resting \in KeeperState /\ Resting.at = "idle"
    BY DEF Resting, KeeperState
  <2>3. TypeOK
    BY <2>1 DEF Init, TypeOK
  <2> QED
    BY <2>1, <2>2, <2>3 DEF Init, Typed, Holding
<1>2. Typed /\ [Next]_vars => Typed'
  <2> SUFFICES ASSUME Typed, [Next]_vars PROVE Typed'
    OBVIOUS
  <2>1. CASE UNCHANGED vars
    BY <2>1 DEF Typed, TypeOK, vars, supVars, procVars, keeperVars, callerVars, histVars
  <2>2. ASSUME NEW c \in Caller, Lock(c) PROVE Typed'
    <3>1. caller'[c] = [caller[c] EXCEPT !.at = "begin"]
          /\ caller' = [caller EXCEPT ![c] = caller'[c]]
      BY <2>2 DEF Lock, Moves, Typed
    <3>2. caller'[c] \in CallState /\ caller'[c].cursor = caller[c].cursor
          /\ caller'[c].at = "begin"
      <4>1. caller[c] \in CallState
        BY DEF Typed
      <4> QED
        BY <3>1, <4>1 DEF CallState, CallerAt
    <3>3. caller' \in [Caller -> CallState]
      BY <3>1, <3>2 DEF Typed
    <3>4. \A d \in Caller : caller'[d].cursor = caller[d].cursor
             /\ (caller'[d].at \in Holding => caller'[d] = caller[d])
      BY <3>1, <3>2 DEF Typed, Holding
    <3>5. \A d \in Caller : /\ caller'[d].resends \in 0..Resends
                            /\ caller'[d].handle \in 0..MaxHandle
      BY <3>3 DEF CallState
    <3> QED
      BY <2>2, <3>3, <3>4, <3>5 DEF Lock, Typed, TypeOK, supVars, procVars, keeperVars, histVars
  <2>3. CASE AtRest
    BY <2>1, <2>3 DEF AtRest
  <2> QED
    BY <2>1, <2>2, <2>3, SupervisorTyped, KeeperTyped, ProcessTyped, CallTyped, CallKeepsTypes
       DEF Next
<1> QED
  BY <1>1, <1>2, PTL DEF Spec

(* The supervisor, the commands, the bus and the callers keep their types,  *)
(* and a sender never points at a process that was not started.             *)
THEOREM CommandsTyped == Spec => []TypeOK
<1>1. Typed => TypeOK
  BY DEF Typed
<1> QED
  BY <1>1, TypedHolds, PTL

-----------------------------------------------------------------------------
(* A process that runs is the child of a run_loop that waits for it, and a  *)
(* run_loop that was not aborted is registered or about to be shut down.    *)
(* NoOrphanProcess alone does not say that the run_loop is still there when *)
(* the handle is taken out of the map.                                      *)
Kept(h) ==
    \/ h \in subscribers
    \/ \E k \in Keeper : keeper[k].at = "shutdown" /\ keeper[k].handle = h

Owned ==
    /\ \A p \in alive : \E h \in Handle : child[h] = p /\ sup[h] = "running"
    /\ \A h \in Handle : sup[h] # "none" \/ Kept(h) => h <= handles
    /\ \A h \in Handle : sup[h] \in {"running", "exited", "backoff"} => Kept(h)

(* The run_loop of a handle: what it starts it waits for.                   *)
LEMMA SupervisorOwned ==
    ASSUME Typed, Owned, NEW h \in Handle, Supervisor(h)
    PROVE  Owned'
<1>1. /\ sup[h] \in {"running", "exited", "backoff"}
      /\ UNCHANGED <<subscribers, handles, keeper>>
  BY DEF Supervisor, ChildExits, Disconnect, Restart, RestartFails, keeperVars
<1>2. PICK l \in {"running", "exited", "backoff"} : sup' = [sup EXCEPT ![h] = l]
  <2>1. CASE RestartFails(h)
    BY <1>1, <2>1 DEF RestartFails, Typed, TypeOK
  <2>2. CASE ~RestartFails(h)
    BY <2>2 DEF Supervisor, ChildExits, Disconnect, Restart, spawn_once
  <2> QED
    BY <2>1, <2>2
<1>3. sup'[h] = l /\ \A g \in Handle \ {h} : sup'[g] = sup[g]
  BY <1>2 DEF Typed, TypeOK
<1>4. \A g \in Handle : Kept(g)' <=> Kept(g)
  BY <1>1 DEF Kept
<1>5. \A p \in alive' : \E g \in Handle : child'[g] = p /\ sup'[g] = "running"
  <2>1. CASE ChildExits(h)
    <3>1. alive' = alive \ {child[h]} /\ UNCHANGED child
      BY <2>1 DEF ChildExits
    <3> QED
      BY <1>3, <3>1 DEF Owned
  <2>2. CASE Disconnect(h)
    <3>1. /\ sup[h] = "exited" /\ UNCHANGED alive
          /\ \A g \in Handle \ {h} : child'[g] = child[g]
      BY <2>2 DEF Disconnect, Typed, TypeOK
    <3> QED
      BY <1>3, <3>1 DEF Owned
  <2>3. CASE Restart(h)
    <3>1. /\ sup[h] = "backoff" /\ alive' = alive \cup {spawned'}
          /\ child'[h] = spawned' /\ sup'[h] = "running"
          /\ \A g \in Handle \ {h} : child'[g] = child[g]
      BY <2>3 DEF Restart, spawn_once, Typed, TypeOK
    <3> QED
      BY <1>3, <3>1 DEF Owned
  <2>4. CASE RestartFails(h)
    BY <2>4 DEF RestartFails, Owned
  <2> QED
    BY <2>1, <2>2, <2>3, <2>4 DEF Supervisor
<1>6. \A g \in Handle : sup'[g] # "none" \/ Kept(g)' => g <= handles'
  BY <1>1, <1>3, <1>4 DEF Owned
<1>7. \A g \in Handle : sup'[g] \in {"running", "exited", "backoff"} => Kept(g)'
  BY <1>1, <1>3, <1>4 DEF Owned
<1> QED
  BY <1>5, <1>6, <1>7 DEF Owned

(* A start registers what it spawned, a respawn hands what it removed from  *)
(* the map to its own shutdown.                                             *)
LEMMA KeeperOwned ==
    ASSUME Typed, Owned, NEW k \in Keeper,
           start_subscriber(k) \/ RespawnRemove(k) \/ Shutdown(k)
    PROVE  Owned'
<1>1. \A l \in Keeper \ {k} : keeper'[l] = keeper[l]
  BY DEF start_subscriber, RespawnRemove, Shutdown, Typed
<1>2. CASE start_subscriber(k) /\ subscribers # {}
  <2>1. /\ keeper[k].at # "shutdown" /\ keeper'[k].at = "idle"
        /\ UNCHANGED <<subscribers, handles, sup, child, alive>>
    BY <1>2 DEF start_subscriber, supVars, Resting, Typed
  <2>2. \A h \in Handle : Kept(h)' <=> Kept(h)
    BY <1>1, <2>1 DEF Kept
  <2> QED
    BY <2>1, <2>2 DEF Owned
<1>3. CASE start_subscriber(k) /\ subscribers = {}
  <2>1. /\ handles' = handles + 1 /\ handles' \in Handle /\ subscribers' = {handles'}
        /\ spawn_once(handles') /\ keeper[k].at # "shutdown" /\ handles \in Nat
    BY <1>3, CommandAssumption DEF start_subscriber, Typed, TypeOK, Handle
  <2>2. /\ alive' = alive \cup {spawned'}
        /\ child'[handles'] = spawned' /\ sup'[handles'] = "running"
        /\ \A g \in Handle \ {handles'} : child'[g] = child[g] /\ sup'[g] = sup[g]
    BY <2>1 DEF spawn_once, Typed, TypeOK
  <2>3. /\ ~(handles' <= handles) /\ handles' <= handles'
        /\ \A h \in Handle : h <= handles => h <= handles'
    BY <2>1 DEF Handle
  <2>4. sup[handles'] = "none"
    BY <2>1, <2>3 DEF Owned
  <2>5. keeper'[k].at = "idle"
    BY <1>3 DEF start_subscriber, Resting, Typed
  <2>6. \A h \in Handle : Kept(h)' <=> Kept(h) \/ h = handles'
    BY <1>1, <1>3, <2>1, <2>5 DEF Kept
  <2>7. \A p \in alive' : \E h \in Handle : child'[h] = p /\ sup'[h] = "running"
    BY <2>1, <2>2, <2>4 DEF Owned
  <2>8. \A h \in Handle : sup'[h] # "none" \/ Kept(h)' => h <= handles'
    BY <2>1, <2>2, <2>3, <2>6 DEF Owned
  <2>9. \A h \in Handle : sup'[h] \in {"running", "exited", "backoff"} => Kept(h)'
    BY <2>1, <2>2, <2>6 DEF Owned
  <2> QED
    BY <2>7, <2>8, <2>9 DEF Owned
<1>4. CASE RespawnRemove(k)
  <2>1. PICK h \in subscribers :
           keeper' = [keeper EXCEPT ![k] = [at |-> "shutdown", handle |-> h]]
    BY <1>4 DEF RespawnRemove
  <2>2. keeper'[k].at = "shutdown" /\ keeper'[k].handle = h
    BY <2>1 DEF Typed
  <2>3. keeper[k].at # "shutdown"
    BY <1>4 DEF RespawnRemove, Resting
  <2>4. subscribers' = {} /\ UNCHANGED <<handles, sup, child, alive>>
    BY <1>4 DEF RespawnRemove, supVars
  <2>5. subscribers = {h}
    BY <2>1 DEF Typed, TypeOK
  <2>6. \A g \in Handle : Kept(g)' <=> Kept(g)
    BY <1>1, <2>2, <2>3, <2>4, <2>5 DEF Kept
  <2> QED
    BY <2>4, <2>6 DEF Owned
<1>5. CASE Shutdown(k)
  <2> DEFINE h == keeper[k].handle
  <2>1. /\ h \in Handle /\ keeper[k].at = "shutdown" /\ keeper'[k].at = "start"
        /\ alive' = alive \ {child[h]}
        /\ UNCHANGED <<child, subscribers, handles>>
    BY <1>5 DEF Shutdown, Typed, KeeperState
  <2>2. sup'[h] = "aborted" /\ \A g \in Handle \ {h} : sup'[g] = sup[g]
    BY <1>5, <2>1 DEF Shutdown, Typed, TypeOK
  <2>3. \A g \in Handle : (Kept(g)' => Kept(g)) /\ (Kept(g) => Kept(g)' \/ g = h)
    BY <1>1, <2>1 DEF Kept
  <2>4. Kept(h)
    BY <2>1 DEF Kept
  <2>5. \A g \in Handle : sup'[g] # "none" \/ Kept(g)' => g <= handles'
    BY <2>1, <2>2, <2>3, <2>4 DEF Owned
  <2>6. \A p \in alive' : \E g \in Handle : child'[g] = p /\ sup'[g] = "running"
    BY <2>1, <2>2 DEF Owned
  <2>7. \A g \in Handle : sup'[g] \in {"running", "exited", "backoff"} => Kept(g)'
    BY <2>2, <2>3 DEF Owned
  <2> QED
    BY <2>5, <2>6, <2>7 DEF Owned
<1> QED
  BY <1>2, <1>3, <1>4, <1>5

(* No process is left behind (start_subscriber,                             *)
(* respawn_proxy_sensitive_subscribers, kill_on_drop): whatever runs is the *)
(* child of the registered subscriber or of one a respawn is about to shut  *)
(* down, however starts, restarts, respawns and failing spawns interleave.  *)
THEOREM NothingOrphaned == Spec => []NoOrphanProcess
<1>1. Init => Owned
  BY DEF Init, Owned, Kept, Resting
<1>2. Typed /\ Owned /\ [Next]_vars => Owned'
  <2> SUFFICES ASSUME Typed, Owned, [Next]_vars PROVE Owned'
    OBVIOUS
  <2>1. CASE UNCHANGED <<supVars, keeperVars>>
    BY <2>1 DEF Owned, Kept, supVars, keeperVars
  <2>2. ASSUME NEW c \in Caller, Lock(c) \/ Call(c) PROVE UNCHANGED <<supVars, keeperVars>>
    BY <2>2, CallTyped DEF Lock, CallStep
  <2>3. ASSUME NEW p \in Process, Execute(p) \/ Answer(p) PROVE UNCHANGED <<supVars, keeperVars>>
    BY <2>3 DEF Execute, Answer
  <2>4. CASE OtherEvent \/ AtRest \/ UNCHANGED vars
    BY <2>1, <2>4 DEF OtherEvent, AtRest, vars
  <2> QED
    BY <2>1, <2>2, <2>3, <2>4, SupervisorOwned, KeeperOwned DEF Next
<1>3. Typed /\ Owned => NoOrphanProcess
  <2> SUFFICES ASSUME Typed, Owned, NEW p \in alive
               PROVE  \E h \in Handle :
                         /\ child[h] = p
                         /\ \/ h \in subscribers
                            \/ \E k \in Keeper : keeper[k] = [at |-> "shutdown", handle |-> h]
    BY DEF NoOrphanProcess
  <2>1. PICK h \in Handle : child[h] = p /\ sup[h] = "running"
    BY DEF Owned
  <2>2. \A k \in Keeper : keeper[k].at = "shutdown" /\ keeper[k].handle = h =>
                           keeper[k] = [at |-> "shutdown", handle |-> h]
    BY DEF Typed, KeeperState
  <2> QED
    BY <2>1, <2>2 DEF Owned, Kept
<1> QED
  BY <1>1, <1>2, <1>3, TypedHolds, PTL DEF Spec

-----------------------------------------------------------------------------
(* How often a command is written.  While a call is under way its copies    *)
(* are its resends and, once it waits, one more.  A process gets a second   *)
(* copy only if the generation was read before its stdin was connected: the *)
(* generation the call holds tells how many copies the process behind the   *)
(* sender may have.                                                         *)
Unsent(c) == result[c] \in {"none", "not_running"} /\ caller[c].at \in {"idle", "begin"}

Sums(c) ==
    /\ Total(c) \in 0..Resends + 1
    /\ caller[c].at \in {"attempt", "send", "failed"} => Total(c) = caller[c].resends
    /\ caller[c].at \in {"wait", "check"} => Total(c) = caller[c].resends + 1
    /\ Unsent(c) => \A p \in Process : copies[c][p] = 0
    /\ caller[c].at # "idle" => result[c] = "none"
    /\ \A p \in Process : copies[c][p] <= 2 /\ (p > spawned => copies[c][p] = 0)

Generations(c, h) ==
    /\ began[c] <= gen[h]
    /\ caller[c].resends > 0 => began[c] < gen[h]
    /\ caller[c].at \in {"send", "failed"} => began[c] <= caller[c].read /\ caller[c].read <= gen[h]
    /\ caller[c].at \in {"wait", "check"} => began[c] <= caller[c].sent /\ caller[c].sent <= gen[h]

Target(c, h) ==
    stdin[h] # 0 =>
        /\ caller[c].at \in {"attempt", "send", "failed"} => copies[c][stdin[h]] <= 1
        /\ caller[c].at \in {"send", "failed"} /\ caller[c].read # gen[h] => copies[c][stdin[h]] = 0
        /\ caller[c].at \in {"wait", "check"} /\ caller[c].sent # gen[h] => copies[c][stdin[h]] <= 1

Counted(c) ==
    /\ Sums(c)
    /\ caller[c].at \in Holding => /\ Generations(c, caller[c].handle)
                                   /\ Target(c, caller[c].handle)

AllCounted == \A c \in Caller : Counted(c)

(* Whatever the supervisor and the keepers do to a sender, its generation   *)
(* grows when its stdin changes, and a new stdin is a process that nobody   *)
(* has written to.                                                          *)
Renewed(g) ==
    \/ stdin'[g] = stdin[g] /\ gen'[g] = gen[g]
    \/ gen'[g] = gen[g] + 1 /\ (stdin'[g] = 0 \/ (stdin'[g] \in Process /\ stdin'[g] > spawned))

(* What a step that respawns or retires a process does to the handles.      *)
LEMMA Renewal ==
    ASSUME Typed,
           \/ \E h \in Handle : Supervisor(h)
           \/ \E k \in Keeper : start_subscriber(k) \/ RespawnRemove(k) \/ Shutdown(k)
    PROVE  /\ \A g \in Handle : Renewed(g)
           /\ spawned' \in Nat /\ spawned \in Nat /\ spawned <= spawned'
           /\ UNCHANGED <<procVars, callerVars, histVars>>
<1> USE CommandAssumption
<1>1. /\ stdin \in [Handle -> 0..spawned] /\ gen \in [Handle -> Nat]
      /\ spawned \in Nat /\ handles \in Nat
  BY DEF Typed, TypeOK
<1>2. ASSUME NEW h \in Handle, spawn_once(h)
      PROVE  /\ \A g \in Handle : Renewed(g)
             /\ spawned' \in Nat /\ spawned \in Nat /\ spawned <= spawned'
  <2>1. /\ spawned' = spawned + 1 /\ spawned' \in Process
        /\ stdin' = [stdin EXCEPT ![h] = spawned']
        /\ gen' = [gen EXCEPT ![h] = @ + 1]
    BY <1>1, <1>2 DEF spawn_once, replace, Process
  <2> QED
    BY <1>1, <2>1 DEF Renewed
<1>3. ASSUME NEW h \in Handle, Supervisor(h)
      PROVE  /\ \A g \in Handle : Renewed(g)
             /\ spawned' \in Nat /\ spawned \in Nat /\ spawned <= spawned'
             /\ UNCHANGED <<procVars, callerVars, histVars>>
  <2>1. CASE ChildExits(h)
    BY <1>1, <2>1 DEF ChildExits, Renewed
  <2>2. CASE Disconnect(h) \/ RestartFails(h)
    <3>1. /\ stdin' = [stdin EXCEPT ![h] = 0] /\ gen' = [gen EXCEPT ![h] = @ + 1]
          /\ UNCHANGED <<spawned, procVars, callerVars, histVars>>
      BY <2>2 DEF Disconnect, RestartFails, replace
    <3> QED
      BY <1>1, <3>1 DEF Renewed
  <2>3. CASE Restart(h)
    BY <1>2, <2>3 DEF Restart
  <2> QED
    BY <1>3, <2>1, <2>2, <2>3 DEF Supervisor
<1>4. ASSUME NEW k \in Keeper, start_subscriber(k) \/ RespawnRemove(k) \/ Shutdown(k)
      PROVE  /\ \A g \in Handle : Renewed(g)
             /\ spawned' \in Nat /\ spawned \in Nat /\ spawned <= spawned'
             /\ UNCHANGED <<procVars, callerVars, histVars>>
  <2>1. CASE UNCHANGED <<stdin, gen, spawned, procVars, callerVars, histVars>>
    BY <1>1, <2>1 DEF Renewed
  <2>2. CASE start_subscriber(k)
    <3>1. UNCHANGED supVars \/ (handles' = handles + 1 /\ handles < MaxHandle /\ spawn_once(handles'))
      BY <2>2 DEF start_subscriber
    <3>2. handles' = handles + 1 /\ handles < MaxHandle => handles' \in Handle
      BY <1>1 DEF Handle
    <3>3. UNCHANGED <<procVars, callerVars, histVars>>
      BY <2>2 DEF start_subscriber
    <3> QED
      BY <1>2, <2>1, <3>1, <3>2, <3>3 DEF supVars
  <2>3. CASE RespawnRemove(k) \/ Shutdown(k)
    BY <2>1, <2>3 DEF RespawnRemove, Shutdown, supVars
  <2> QED
    BY <1>4, <2>2, <2>3
<1> QED
  BY <1>3, <1>4

(* A call that does nothing while senders are renewed.                      *)
LEMMA CountedRenewed ==
    ASSUME Typed, NEW c \in Caller, Counted(c), \A g \in Handle : Renewed(g),
           spawned' \in Nat, spawned \in Nat, spawned <= spawned',
           UNCHANGED <<callerVars, histVars>>
    PROVE  Counted(c)'
<1>1. /\ UNCHANGED <<caller, copies, began, result>> /\ Total(c)' = Total(c)
      /\ Unsent(c)' = Unsent(c)
  BY DEF callerVars, histVars, Total, Copies, Unsent
<1>2. \A p \in Process : p > spawned' => p > spawned
  BY DEF Process
<1>3. Sums(c)'
  BY <1>1, <1>2 DEF Counted, Sums
<1>4. ASSUME caller[c].at \in Holding
      PROVE  /\ Generations(c, caller[c].handle)'
             /\ Target(c, caller[c].handle)'
  <2> DEFINE h == caller[c].handle
  <2>1. h \in Handle /\ Renewed(h) /\ gen[h] \in Nat /\ began[c] \in Nat
        /\ caller[c].read \in Nat /\ caller[c].sent \in Nat
    BY <1>4 DEF Typed, TypeOK, CallState
  <2>2. Generations(c, h) /\ Target(c, h) /\ Sums(c)
    BY <1>4 DEF Counted
  <2>3. Generations(c, h)'
    BY <1>1, <2>1, <2>2 DEF Generations, Renewed
  <2>4. Target(c, h)'
    <3>1. CASE stdin'[h] = stdin[h] /\ gen'[h] = gen[h]
      BY <1>1, <2>2, <3>1 DEF Target
    <3>2. CASE stdin'[h] \in Process /\ stdin'[h] > spawned
      <4>1. copies[c][stdin'[h]] = 0
        BY <2>2, <3>2 DEF Sums
      <4> QED
        BY <1>1, <4>1 DEF Target
    <3>3. CASE stdin'[h] = 0
      BY <1>1, <3>3 DEF Target
    <3> QED
      BY <2>1, <3>1, <3>2, <3>3 DEF Renewed
  <2> QED
    BY <1>1, <2>3, <2>4
<1> QED
  BY <1>1, <1>3, <1>4 DEF Counted

(* A step of another call.                                                  *)
LEMMA CountedOther ==
    ASSUME NEW c \in Caller, Counted(c), UNCHANGED <<supVars, caller[c], copies[c], began[c], result[c]>>
    PROVE  Counted(c)'
<1>1. Total(c)' = Total(c) /\ Unsent(c)' = Unsent(c)
  BY DEF Total, Copies, Unsent
<1> QED
  BY <1>1 DEF Counted, Sums, Generations, Target, supVars

(* The copies of a command are finitely many, none before the first Send,   *)
(* and a Send adds one.                                                     *)
LEMMA TotalCounts ==
    ASSUME Typed, NEW c \in Caller
    PROVE  /\ IsFiniteSet(Copies(c)) /\ Total(c) \in Nat
           /\ (\A p \in Process : copies[c][p] = 0) => Total(c) = 0
<1> USE CommandAssumption
<1>1. IsFiniteSet(Process) /\ IsFiniteSet(1..Resends + 2)
  BY FS_Interval DEF Process
<1>2. IsFiniteSet(Process \X (1..Resends + 2))
  BY <1>1, FS_Product
<1>3. IsFiniteSet(Copies(c))
  BY <1>2, FS_Subset DEF Copies
<1>4. (\A p \in Process : copies[c][p] = 0) => Copies(c) = {}
  BY DEF Copies
<1> QED
  BY <1>3, <1>4, FS_CardinalityType, FS_EmptySet DEF Total

(* One more copy of a command.                                              *)
LEMMA OneMore ==
    ASSUME Typed, NEW c \in Caller, NEW p \in Process, copies[c][p] <= 1,
           copies' = [copies EXCEPT ![c][p] = @ + 1]
    PROVE  /\ copies'[c] = [copies[c] EXCEPT ![p] = @ + 1]
           /\ \A d \in Caller \ {c} : copies'[d] = copies[d]
           /\ Total(c)' = Total(c) + 1
<1> USE CommandAssumption
<1> DEFINE n == copies[c][p] + 1
<1>1. copies \in [Caller -> [Process -> Nat]] /\ copies[c] \in [Process -> Nat]
      /\ n \in 1..Resends + 2 /\ n \in Nat
  BY DEF Typed
<1>2. /\ copies'[c] = [copies[c] EXCEPT ![p] = n]
      /\ \A d \in Caller \ {c} : copies'[d] = copies[d]
  BY <1>1
<1>3. copies'[c][p] = n /\ \A q \in Process \ {p} : copies'[c][q] = copies[c][q]
  BY <1>1, <1>2
<1>4. \A i \in 1..Resends + 2 : i <= n <=> i <= copies[c][p] \/ i = n
  BY <1>1
<1>5. \A x \in Process \X (1..Resends + 2) :
         x[2] <= copies'[c][x[1]] <=> x[2] <= copies[c][x[1]] \/ x = <<p, n>>
  <2> SUFFICES ASSUME NEW q \in Process, NEW i \in 1..Resends + 2
               PROVE  i <= copies'[c][q] <=> i <= copies[c][q] \/ (q = p /\ i = n)
    OBVIOUS
  <2> QED
    BY <1>3, <1>4
<1>6. Copies(c)' = Copies(c) \cup {<<p, n>>}
  BY <1>1, <1>5 DEF Copies
<1>7. <<p, n>> \notin Copies(c)
  BY <1>1 DEF Copies
<1>8. IsFiniteSet(Copies(c)) /\ Total(c) \in Nat
  BY TotalCounts
<1>9. Cardinality(Copies(c) \cup {<<p, n>>}) = Cardinality(Copies(c)) + 1
  BY <1>7, <1>8, FS_AddElement
<1> QED
  BY <1>2, <1>6, <1>9 DEF Total

(* A step of the call itself.                                               *)
LEMMA CountedOwn ==
    ASSUME Typed, NEW c \in Caller, Counted(c), Call(c)
    PROVE  /\ Counted(c)'
           /\ \A d \in Caller \ {c} : UNCHANGED <<caller[d], copies[d], began[d], result[d]>>
<1> USE CommandAssumption
<1> DEFINE h == caller[c].handle
           Others == \A d \in Caller \ {c} : UNCHANGED <<caller[d], copies[d], began[d], result[d]>>
<1>1. /\ caller \in [Caller -> CallState] /\ caller[c] \in CallState
      /\ copies \in [Caller -> [Process -> Nat]] /\ began \in [Caller -> Nat]
      /\ result \in [Caller -> Caller \cup Unanswered \cup {"none"}]
      /\ gen \in [Handle -> Nat] /\ stdin \in [Handle -> 0..spawned]
      /\ CallStep(c)
  BY CallTyped DEF Typed, TypeOK
<1>2. /\ UNCHANGED <<stdin, gen, spawned>>
      /\ \A d \in Caller \ {c} : caller'[d] = caller[d]
      /\ caller[c].at \in Holding => h \in Handle
      /\ caller'[c] \in CallState
  BY <1>1 DEF CallStep, supVars, Typed
<1>3. /\ Sums(c)
      /\ caller[c].at \in Holding => Generations(c, h) /\ Target(c, h)
  BY DEF Counted
<1>4. ASSUME NEW r \in Caller \cup Unanswered, Return(c, r), r = "not_running" => Unsent(c),
             caller[c].at # "idle", UNCHANGED <<copies, began>>
      PROVE  Counted(c)' /\ Others
  <2>1. /\ caller'[c] = NoCall /\ result'[c] = r
        /\ \A d \in Caller \ {c} : caller'[d] = caller[d] /\ result'[d] = result[d]
    BY <1>1, <1>4 DEF Return
  <2>2. caller'[c].at = "idle" /\ r # "none"
    BY <1>4, <2>1, CallerAssumption DEF NoCall, Unanswered
  <2>3. Total(c)' = Total(c) /\ (Unsent(c)' => Unsent(c))
    BY <1>4, <2>1, <2>2 DEF Total, Copies, Unsent
  <2>4. Sums(c)'
    BY <1>2, <1>3, <1>4, <2>1, <2>2, <2>3 DEF Sums
  <2> QED
    BY <1>4, <2>1, <2>2, <2>4 DEF Counted, Holding
<1>5. ASSUME UNCHANGED <<copies, began, result>>, caller[c].at \in Holding,
             caller'[c].at \in Holding,
             caller'[c].handle = h, caller'[c].resends = caller[c].resends,
             caller'[c].read = caller[c].read, caller'[c].sent = caller[c].sent,
             \/ /\ caller[c].at \in {"wait", "check"}
                /\ caller'[c].at \in {"wait", "check"}
             \/ /\ caller[c].at \in {"send", "failed"}
                /\ caller'[c].at \in {"attempt", "send", "failed"}
      PROVE  Counted(c)' /\ Others
  <2>1. Total(c)' = Total(c) /\ ~Unsent(c)' /\ caller[c].at # "idle"
    BY <1>5 DEF Total, Copies, Unsent, Holding
  <2>2. Sums(c)'
    BY <1>2, <1>3, <1>5, <2>1 DEF Sums
  <2>3. Generations(c, caller[c].handle)'
    BY <1>2, <1>3, <1>5 DEF Generations
  <2>4. Target(c, caller[c].handle)'
    BY <1>2, <1>3, <1>5 DEF Target
  <2> QED
    BY <1>2, <1>5, <2>2, <2>3, <2>4 DEF Counted
<1>6. CASE Begin(c) /\ subscribers = {}
  BY <1>3, <1>4, <1>6 DEF Begin, Unanswered, Unsent, Sums
<1>7. CASE Begin(c) /\ subscribers # {}
  <2>1. PICK g \in subscribers :
           /\ caller' = [caller EXCEPT ![c] = [NoCall EXCEPT
                           !.at = "attempt", !.handle = g, !.cursor = Len(bus)]]
           /\ began' = [began EXCEPT ![c] = gen[g]]
           /\ UNCHANGED <<lock, result, copies>> /\ caller[c].at = "begin"
    BY <1>7 DEF Begin
  <2>2. g \in Handle /\ gen[g] \in Nat
    BY <1>1 DEF Typed, TypeOK
  <2>3. /\ caller'[c].at = "attempt" /\ caller'[c].handle = g /\ caller'[c].resends = 0
        /\ began'[c] = gen[g] /\ \A d \in Caller \ {c} : began'[d] = began[d]
    BY <1>1, <2>1 DEF NoCall
  <2>4. \A p \in Process : copies[c][p] = 0
    BY <1>3, <2>1 DEF Sums, Unsent
  <2>5. Total(c) = 0 /\ Total(c)' = Total(c) /\ ~Unsent(c)'
    BY <2>1, <2>3, <2>4, TotalCounts DEF Total, Copies, Unsent
  <2>6. Sums(c)'
    BY <1>2, <1>3, <2>1, <2>3, <2>4, <2>5 DEF Sums
  <2>7. Generations(c, caller[c].handle)'
    BY <1>2, <2>2, <2>3 DEF Generations
  <2>8. stdin[g] # 0 => stdin[g] \in Process
    BY <1>1, <2>2 DEF Process, Typed, TypeOK
  <2>9. Target(c, caller[c].handle)'
    BY <1>2, <2>1, <2>3, <2>4, <2>8 DEF Target
  <2> QED
    BY <1>2, <2>1, <2>3, <2>6, <2>7, <2>9 DEF Counted
<1>8. CASE GiveUp(c)
  BY <1>4, <1>8 DEF GiveUp, Unanswered
<1>9. CASE ReadGeneration(c)
  <2>1. /\ caller'[c].at = "send" /\ caller'[c].read = gen[h] /\ caller'[c].handle = h
        /\ caller'[c].resends = caller[c].resends /\ caller[c].at = "attempt"
        /\ UNCHANGED <<copies, began, result>>
    BY <1>1, <1>9 DEF ReadGeneration, CallState, histVars
  <2>2. h \in Handle /\ gen[h] \in Nat /\ began[c] \in Nat /\ Generations(c, h) /\ Target(c, h)
    BY <1>1, <1>2, <1>3, <2>1 DEF Holding
  <2>3. Total(c)' = Total(c) /\ ~Unsent(c)'
    BY <2>1 DEF Total, Copies, Unsent
  <2>4. Sums(c)'
    BY <1>2, <1>3, <2>1, <2>3 DEF Sums
  <2>5. Generations(c, caller[c].handle)'
    BY <1>2, <2>1, <2>2 DEF Generations
  <2>6. Target(c, caller[c].handle)'
    BY <1>2, <2>1, <2>2 DEF Target
  <2> QED
    BY <1>2, <2>1, <2>4, <2>5, <2>6 DEF Counted
<1>10. CASE Send(c)
  <2> DEFINE p == stdin[h]
  <2>0. alive \subseteq Process /\ 0 \notin alive /\ \A q \in alive : ~(q > spawned)
    BY DEF Typed, TypeOK, Process
  <2>1. /\ p \in alive /\ p \in Process /\ p # 0
        /\ copies' = [copies EXCEPT ![c][p] = @ + 1]
        /\ caller[c].at = "send" /\ UNCHANGED <<began, result>>
    BY <1>10, <2>0 DEF Send
  <2>2. /\ caller'[c].at = "wait" /\ caller'[c].sent = caller[c].read
        /\ caller'[c].handle = h /\ caller'[c].resends = caller[c].resends
    BY <1>1, <1>10 DEF Send, CallState
  <2>3. /\ h \in Handle /\ Generations(c, h) /\ Target(c, h)
        /\ copies[c][p] <= 1 /\ copies[c][p] \in Nat
    BY <1>1, <1>2, <1>3, <2>1 DEF Holding, Target
  <2>4. /\ copies'[c] = [copies[c] EXCEPT ![p] = @ + 1]
        /\ \A d \in Caller \ {c} : copies'[d] = copies[d]
        /\ Total(c)' = Total(c) + 1 /\ Total(c) = caller[c].resends
    BY <1>3, <2>1, <2>3, OneMore DEF Sums
  <2>5. copies'[c][p] = copies[c][p] + 1 /\ \A q \in Process \ {p} : copies'[c][q] = copies[c][q]
    BY <1>1, <2>1, <2>4
  <2>6. caller[c].resends \in 0..Resends /\ caller[c].resends + 1 \in 0..Resends + 1
    BY <1>1 DEF CallState
  <2>7. \A q \in Process : copies'[c][q] <= 2 /\ (q > spawned' => copies'[c][q] = 0)
    BY <1>2, <1>3, <2>0, <2>1, <2>3, <2>5 DEF Sums
  <2>8. Sums(c)'
    BY <1>3, <2>1, <2>2, <2>4, <2>6, <2>7 DEF Sums, Unsent
  <2>9. Generations(c, caller[c].handle)'
    BY <1>2, <2>1, <2>2, <2>3 DEF Generations
  <2>10. Target(c, caller[c].handle)'
    BY <1>2, <2>1, <2>2, <2>3, <2>5 DEF Target
  <2> QED
    BY <1>2, <2>1, <2>2, <2>4, <2>8, <2>9, <2>10 DEF Counted
<1>11. CASE SendFails(c)
  <2>1. PICK l \in {"attempt", "failed"} : Moves(c, l)
    BY <1>11 DEF SendFails
  <2>2. /\ caller'[c].at = l /\ caller'[c].handle = h /\ caller'[c].resends = caller[c].resends
        /\ caller'[c].read = caller[c].read /\ caller'[c].sent = caller[c].sent
    BY <1>1, <2>1 DEF Moves, CallState
  <2> QED
    BY <1>5, <1>11, <2>2 DEF SendFails, Holding, histVars
<1>12. CASE SendFailed(c)
  <2>1. CASE Moves(c, "attempt") /\ UNCHANGED <<lock, result>>
    <3>1. /\ caller'[c].at = "attempt" /\ caller'[c].handle = h /\ caller'[c].resends = caller[c].resends
          /\ caller'[c].read = caller[c].read /\ caller'[c].sent = caller[c].sent
      BY <1>1, <2>1 DEF Moves, CallState
    <3> QED
      BY <1>5, <1>12, <2>1, <3>1 DEF SendFailed, Holding
  <2>2. CASE Return(c, "error")
    BY <1>4, <1>12, <2>2 DEF SendFailed, Unanswered
  <2> QED
    BY <1>12, <2>1, <2>2 DEF SendFailed
<1>13. CASE Receive(c)
  <2>1. CASE bus[NextUnread(c)] \in Caller
    BY <1>4, <1>13, <2>1, CallerAssumption DEF Receive, Unanswered
  <2>2. CASE bus[NextUnread(c)] \notin Caller
    <3>1. /\ caller'[c].at = "check" /\ caller'[c].handle = h /\ caller'[c].resends = caller[c].resends
          /\ caller'[c].read = caller[c].read /\ caller'[c].sent = caller[c].sent
          /\ UNCHANGED result
      BY <1>1, <1>13, <2>2 DEF Receive, CallState
    <3> QED
      BY <1>5, <1>13, <3>1 DEF Receive, Holding
  <2> QED
    BY <2>1, <2>2
<1>14. CASE Poll(c)
  <2>1. /\ caller'[c].at = "check" /\ caller'[c].handle = h /\ caller'[c].resends = caller[c].resends
        /\ caller'[c].read = caller[c].read /\ caller'[c].sent = caller[c].sent
    BY <1>1, <1>14 DEF Poll, Moves, CallState
  <2> QED
    BY <1>5, <1>14, <2>1 DEF Poll, Holding, histVars
<1>15. CASE CheckGeneration(c) /\ gen[h] = caller[c].sent
  <2>1. /\ caller'[c].at = "wait" /\ caller'[c].handle = h /\ caller'[c].resends = caller[c].resends
        /\ caller'[c].read = caller[c].read /\ caller'[c].sent = caller[c].sent
    BY <1>1, <1>15 DEF CheckGeneration, Moves, CallState
  <2> QED
    BY <1>5, <1>15, <2>1 DEF CheckGeneration, Holding
<1>16. CASE CheckGeneration(c) /\ gen[h] # caller[c].sent /\ caller[c].resends >= Resends
  BY <1>4, <1>16 DEF CheckGeneration, Unanswered
<1>17. CASE CheckGeneration(c) /\ gen[h] # caller[c].sent /\ ~(caller[c].resends >= Resends)
  <2>1. /\ caller'[c].at = "attempt" /\ caller'[c].handle = h
        /\ caller'[c].resends = caller[c].resends + 1 /\ caller[c].at = "check"
        /\ UNCHANGED <<copies, began, result>>
    BY <1>1, <1>17 DEF CheckGeneration, CallState
  <2>2. /\ h \in Handle /\ gen[h] \in Nat /\ began[c] \in Nat
        /\ Generations(c, h) /\ Target(c, h)
    BY <1>1, <1>2, <1>3, <2>1 DEF Holding
  <2>3. caller[c].sent \in Nat
    BY <1>1 DEF CallState
  <2>4. Total(c)' = Total(c) /\ ~Unsent(c)'
    BY <2>1 DEF Total, Copies, Unsent
  <2>5. Sums(c)'
    BY <1>2, <1>3, <2>1, <2>4 DEF Sums
  <2>6. began[c] < gen[h]
    BY <1>17, <2>1, <2>2, <2>3 DEF Generations
  <2>7. Generations(c, caller[c].handle)'
    BY <1>2, <2>1, <2>2, <2>6 DEF Generations
  <2>8. Target(c, caller[c].handle)'
    BY <1>2, <1>17, <2>1, <2>2 DEF Target
  <2> QED
    BY <1>2, <2>1, <2>5, <2>7, <2>8 DEF Counted
<1> QED
  BY <1>6, <1>7, <1>8, <1>9, <1>10, <1>11, <1>12, <1>13, <1>14, <1>15, <1>16, <1>17 DEF Call

(* A call that takes the lock keeps its count.                              *)
LEMMA LockCounted ==
    ASSUME Typed, NEW c \in Caller, Counted(c), Lock(c)
    PROVE  /\ Counted(c)'
           /\ \A d \in Caller \ {c} : UNCHANGED <<caller[d], copies[d], began[d], result[d]>>
<1>1. /\ caller'[c].at = "begin" /\ caller[c].at = "idle" /\ result[c] = "none"
      /\ UNCHANGED <<copies, began, result, spawned>>
      /\ \A d \in Caller \ {c} : caller'[d] = caller[d]
  BY DEF Lock, Moves, NoCall, histVars, supVars, Typed, CallState
<1>2. Total(c)' = Total(c) /\ Unsent(c)
  BY <1>1 DEF Total, Copies, Unsent
<1> QED
  BY <1>1, <1>2 DEF Counted, Sums, Holding

(* The counts hold for every call.                                          *)
LEMMA AllCountedHolds == Spec => []AllCounted
<1>1. Init => AllCounted
  <2> SUFFICES ASSUME Init, NEW c \in Caller PROVE Counted(c)
    BY DEF AllCounted
  <2>1. caller[c].at = "idle" /\ \A p \in Process : copies[c][p] = 0
    BY DEF Init, NoCall
  <2>2. Copies(c) = {}
    BY <2>1, CommandAssumption DEF Copies
  <2>3. Total(c) = 0
    BY <2>2, FS_EmptySet DEF Total
  <2> QED
    BY <2>1, <2>3, CommandAssumption DEF Counted, Sums, Holding
<1>2. Typed /\ AllCounted /\ [Next]_vars => AllCounted'
  <2> SUFFICES ASSUME Typed, AllCounted, [Next]_vars, NEW c \in Caller PROVE Counted(c)'
    BY DEF AllCounted
  <2>0. Counted(c)
    BY DEF AllCounted
  <2>1. CASE \/ \E h \in Handle : Supervisor(h)
             \/ \E k \in Keeper : start_subscriber(k) \/ RespawnRemove(k) \/ Shutdown(k)
    BY <2>0, <2>1, Renewal, CountedRenewed
  <2>2. ASSUME UNCHANGED <<supVars, callerVars, histVars>> PROVE Counted(c)'
    BY <2>0, <2>2, CountedOther DEF callerVars, histVars
  <2>3. CASE (\E p \in Process : Execute(p) \/ Answer(p)) \/ OtherEvent
    BY <2>2, <2>3 DEF Execute, Answer, OtherEvent
  <2>4. CASE AtRest \/ UNCHANGED vars
    BY <2>2, <2>4 DEF AtRest, vars
  <2>5. ASSUME NEW d \in Caller, Lock(d) \/ Call(d) PROVE Counted(c)'
    <3>1. Counted(d)
      BY DEF AllCounted
    <3>2. /\ Counted(d)'
          /\ \A e \in Caller \ {d} : UNCHANGED <<caller[e], copies[e], began[e], result[e]>>
      BY <2>5, <3>1, CountedOwn, LockCounted
    <3>3. UNCHANGED supVars
      BY <2>5, CallTyped DEF Lock, CallStep
    <3> QED
      BY <2>0, <3>2, <3>3, CountedOther
  <2> QED
    BY <2>1, <2>2, <2>3, <2>4, <2>5 DEF Next
<1> QED
  BY <1>1, <1>2, TypedHolds, PTL DEF Spec

(* COMMAND_RESTART_RESENDS and the generation of the sender bound the side  *)
(* effects of one command: it is written at most Resends + 1 times, at most *)
(* twice to one process, and more than once only after the stdin was        *)
(* replaced, whenever the supervisor restarts the child.                    *)
THEOREM CommandsBounded == Spec => []CopiesBounded
<1>1. Typed /\ AllCounted => CopiesBounded
  <2> SUFFICES ASSUME Typed, NEW c \in Caller, Counted(c)
               PROVE  /\ Total(c) <= Resends + 1
                      /\ \A p \in Process : copies[c][p] <= 2
                      /\ caller[c].at # "idle" /\ Total(c) > 1 => gen[caller[c].handle] > began[c]
    BY DEF AllCounted, CopiesBounded
  <2>1. Sums(c) /\ (caller[c].at \in Holding => Generations(c, caller[c].handle))
    BY DEF Counted
  <2>2. Total(c) <= Resends + 1 /\ \A p \in Process : copies[c][p] <= 2
    BY <2>1, CommandAssumption DEF Sums
  <2>3. ASSUME caller[c].at # "idle", Total(c) > 1 PROVE gen[caller[c].handle] > began[c]
    <3>1. caller[c].at \in CallerAt /\ caller[c].resends \in 0..Resends
      BY DEF Typed, CallState
    <3>2. caller[c].at # "begin"
      <4>1. ASSUME caller[c].at = "begin" PROVE Total(c) = 0
        BY <2>1, <4>1, TotalCounts DEF Sums, Unsent
      <4> QED
        BY <2>3, <4>1
    <3>3. caller[c].at \in Holding /\ caller[c].resends > 0
      BY <2>1, <2>3, <3>1, <3>2, CommandAssumption DEF Sums, CallerAt, Holding
    <3>4. gen[caller[c].handle] \in Nat /\ began[c] \in Nat
      BY <3>3 DEF Typed, TypeOK
    <3> QED
      BY <2>1, <3>3, <3>4 DEF Generations
  <2> QED
    BY <2>2, <2>3
<1> QED
  BY <1>1, AllCountedHolds, TypedHolds, PTL

-----------------------------------------------------------------------------
(* Whose answer a call returns.  A command is in the inbox of a process,    *)
(* with a process, or on the bus as an answer.                              *)
Waits(d, p, i)  == i \in DOMAIN inbox[p] /\ inbox[p][i] = d
Published(d, i) == i \in DOMAIN bus /\ bus[i] = d

(* It is nowhere before it was sent, and in one place if it was sent once.  *)
Nowhere(d) ==
    /\ \A p \in Process : d \notin busy[p]
    /\ \A p \in Process, i \in Nat : ~Waits(d, p, i)
    /\ \A i \in Nat : ~Published(d, i)

InOnePlace(d) ==
    /\ \A p, q \in Process, i, j \in Nat : Waits(d, p, i) /\ Waits(d, q, j) => p = q /\ i = j
    /\ \A p, q \in Process : d \in busy[p] /\ d \in busy[q] => p = q
    /\ \A i, j \in Nat : Published(d, i) /\ Published(d, j) => i = j
    /\ \A p, q \in Process, i \in Nat : ~(Waits(d, p, i) /\ d \in busy[q])
    /\ \A p \in Process, i, j \in Nat : ~(Waits(d, p, i) /\ Published(d, j))
    /\ \A p \in Process, j \in Nat : ~(d \in busy[p] /\ Published(d, j))

(* Once its own call has taken it, no open call has it ahead of its cursor. *)
Taken(d) ==
    /\ \A p \in Process : d \notin busy[p]
    /\ \A p \in Process, i \in Nat : ~Waits(d, p, i)
    /\ \A i \in Nat, c \in Caller :
          Published(d, i) /\ caller[c].at \in Holding => i <= caller[c].cursor

Placed(d) ==
    /\ Total(d) = 0 => Nowhere(d)
    /\ Total(d) <= 1 => InOnePlace(d)
    /\ result[d] = d /\ Total(d) <= 1 => Taken(d)

Exclusive == \A c \in Caller : caller[c].at # "idle" => lock = {c}

AllPlaced == \A d \in Caller : Placed(d)

(* What a step of a call is to the others: a Send, a call that goes on and  *)
(* whose cursor only advances, or one that ends with an answer ahead of its *)
(* cursor or with none.                                                     *)
GoesOn(c) ==
    /\ caller[c].at # "idle" /\ caller'[c].at # "idle"
    /\ UNCHANGED <<lock, result>>
    /\ caller'[c].at \in Holding =>
          \/ caller[c].at \in Holding /\ caller[c].cursor <= caller'[c].cursor
          \/ caller'[c].cursor = Len(bus)

Ends(c) ==
    /\ caller[c].at # "idle" /\ caller'[c].at = "idle"
    /\ lock' = lock \ {c}
    /\ \A d \in Caller \ {c} : result'[d] = result[d]
    /\ \/ result'[c] \in Unanswered
       \/ \E i \in Nat : /\ caller[c].at \in Holding /\ caller[c].cursor < i
                         /\ result'[c] \in Caller /\ Published(result'[c], i)

(* A step of a call sends, goes on or ends, and leaves the other calls      *)
(* alone.                                                                   *)
LEMMA CallKinds ==
    ASSUME Typed, NEW c \in Caller, Call(c)
    PROVE  /\ UNCHANGED <<busy, bus>>
           /\ \A d \in Caller \ {c} : caller'[d] = caller[d]
           /\ \/ Send(c) /\ GoesOn(c)
              \/ UNCHANGED <<inbox, copies>> /\ (GoesOn(c) \/ Ends(c))
<1> USE CommandAssumption
<1>1. /\ caller \in [Caller -> CallState] /\ caller[c] \in CallState
      /\ result \in [Caller -> Caller \cup Unanswered \cup {"none"}]
      /\ Len(bus) \in Nat /\ caller[c].cursor \in 0..Len(bus)
      /\ CallStep(c)
  BY CallTyped DEF Typed, TypeOK
<1>2. UNCHANGED <<busy, bus>> /\ \A d \in Caller \ {c} : caller'[d] = caller[d]
  BY <1>1 DEF CallStep
<1>3. ASSUME NEW r \in Unanswered, Return(c, r), caller[c].at # "idle" PROVE Ends(c)
  BY <1>1, <1>3 DEF Return, Ends, NoCall
<1>4. ASSUME NEW l \in Holding, Moves(c, l), caller[c].at \in Holding, UNCHANGED <<lock, result>>
      PROVE  GoesOn(c)
  <2>1. caller'[c].at = l /\ caller'[c].cursor = caller[c].cursor
    BY <1>1, <1>4 DEF Moves, CallState
  <2> QED
    BY <1>1, <1>4, <2>1 DEF GoesOn, Holding
<1>5. CASE Begin(c)
  <2>1. CASE subscribers = {}
    BY <1>2, <1>3, <1>5, <2>1 DEF Begin, Unanswered, procVars
  <2>2. CASE subscribers # {}
    <3>1. /\ caller'[c].at = "attempt" /\ caller'[c].cursor = Len(bus)
          /\ UNCHANGED <<lock, result, inbox, copies>> /\ caller[c].at = "begin"
      BY <1>1, <1>5, <2>2 DEF Begin, NoCall, procVars
    <3> QED
      BY <1>2, <3>1 DEF GoesOn
  <2> QED
    BY <2>1, <2>2
<1>6. CASE GiveUp(c)
  BY <1>2, <1>3, <1>6 DEF GiveUp, Unanswered, procVars
<1>7. CASE ReadGeneration(c)
  <2>1. /\ caller'[c].at = "send" /\ caller'[c].cursor = caller[c].cursor
        /\ UNCHANGED <<lock, result, inbox, copies>> /\ caller[c].at = "attempt"
    BY <1>1, <1>7 DEF ReadGeneration, CallState, procVars, histVars
  <2> QED
    BY <1>1, <1>2, <2>1 DEF GoesOn, Holding
<1>8. CASE Send(c)
  <2>1. /\ caller'[c].at = "wait" /\ caller'[c].cursor = caller[c].cursor
        /\ UNCHANGED <<lock, result>> /\ caller[c].at = "send"
    BY <1>1, <1>8 DEF Send, CallState
  <2> QED
    BY <1>1, <1>2, <1>8, <2>1 DEF GoesOn, Holding
<1>9. CASE SendFails(c)
  BY <1>2, <1>4, <1>9 DEF SendFails, Holding, procVars, histVars
<1>10. CASE SendFailed(c)
  BY <1>2, <1>3, <1>4, <1>10 DEF SendFailed, Holding, Unanswered, procVars
<1>11. CASE Receive(c)
  <2>1. NextUnread(c) \in 1..Len(bus) /\ caller[c].cursor < NextUnread(c) /\ NextUnread(c) \in Nat
    BY <1>1, <1>11 DEF Receive, NextUnread
  <2>2. caller[c].at = "wait" /\ UNCHANGED <<inbox, copies>>
    BY <1>11 DEF Receive, procVars
  <2>3. CASE bus[NextUnread(c)] \in Caller
    <3>1. Return(c, bus[NextUnread(c)])
      BY <1>11, <2>3 DEF Receive
    <3>2. result'[c] = bus[NextUnread(c)] /\ caller'[c].at = "idle" /\ lock' = lock \ {c}
          /\ \A d \in Caller \ {c} : result'[d] = result[d]
      BY <1>1, <3>1 DEF Return, NoCall
    <3>3. NextUnread(c) \in DOMAIN bus
      BY <2>1 DEF Typed, TypeOK
    <3>4. Ends(c)
      BY <2>1, <2>2, <2>3, <3>2, <3>3 DEF Ends, Published, Holding
    <3> QED
      BY <1>2, <2>2, <3>4
  <2>4. CASE bus[NextUnread(c)] \notin Caller
    <3>1. /\ caller'[c].at = "check" /\ caller'[c].cursor = NextUnread(c)
          /\ UNCHANGED <<lock, result>>
      BY <1>1, <1>11, <2>4 DEF Receive, CallState
    <3> QED
      BY <1>1, <1>2, <2>1, <2>2, <3>1 DEF GoesOn, Holding
  <2> QED
    BY <2>3, <2>4
<1>12. CASE Poll(c)
  BY <1>2, <1>4, <1>12 DEF Poll, Holding, procVars, histVars
<1>13. CASE CheckGeneration(c) /\ gen[caller[c].handle] # caller[c].sent /\ ~(caller[c].resends >= Resends)
  <2>1. /\ caller'[c].at = "attempt" /\ caller'[c].cursor = caller[c].cursor
        /\ UNCHANGED <<lock, result, inbox, copies>> /\ caller[c].at = "check"
    BY <1>1, <1>13 DEF CheckGeneration, CallState, procVars
  <2> QED
    BY <1>1, <1>2, <2>1 DEF GoesOn, Holding
<1>14. CASE CheckGeneration(c) /\ ~(gen[caller[c].handle] # caller[c].sent /\ ~(caller[c].resends >= Resends))
  BY <1>2, <1>3, <1>4, <1>14 DEF CheckGeneration, Holding, Unanswered, procVars
<1> QED
  BY <1>5, <1>6, <1>7, <1>8, <1>9, <1>10, <1>11, <1>12, <1>13, <1>14 DEF Call

(* The child and the bus: a command moves on, it does not multiply.         *)
LEMMA ProcessPlaced ==
    ASSUME Typed, AllPlaced, (\E p \in Process : Execute(p) \/ Answer(p)) \/ OtherEvent,
           NEW d \in Caller
    PROVE  Placed(d)'
<1>1. UNCHANGED <<caller, copies, result>> /\ Total(d)' = Total(d) /\ Placed(d)
  BY DEF Execute, Answer, OtherEvent, callerVars, histVars, Total, Copies, AllPlaced
<1>2. ASSUME NEW p \in Process, Execute(p) PROVE Placed(d)'
  <2>1. inbox[p] \in Seq(Caller) /\ inbox[p] # <<>> /\ busy \in [Process -> SUBSET Caller]
        /\ inbox \in [Process -> Seq(Caller)]
    BY <1>2 DEF Execute, Typed, TypeOK
  <2>2. /\ UNCHANGED bus /\ busy'[p] = {Head(inbox[p])} /\ busy[p] = {}
        /\ inbox'[p] = Tail(inbox[p])
        /\ \A q \in Process \ {p} : busy'[q] = busy[q] /\ inbox'[q] = inbox[q]
    BY <1>2, <2>1 DEF Execute
  <2>3. \A i \in Nat : Published(d, i)' <=> Published(d, i)
    BY <2>2 DEF Published
  <2>4. d \in busy'[p] <=> Waits(d, p, 1)
    BY <2>1, <2>2 DEF Waits
  <2>5. \A i \in Nat : Waits(d, p, i)' => Waits(d, p, i + 1) /\ i # 0
    BY <2>1, <2>2 DEF Waits
  <2>6. \A q \in Process \ {p}, i \in Nat : Waits(d, q, i)' <=> Waits(d, q, i)
    BY <2>2 DEF Waits
  <2>7. Nowhere(d) => Nowhere(d)'
    BY <2>2, <2>3, <2>4, <2>5, <2>6 DEF Nowhere
  <2>8. Taken(d) => Taken(d)'
    <3>1. Taken(d) => /\ \A q \in Process : d \notin busy'[q]
                      /\ \A q \in Process, i \in Nat : ~Waits(d, q, i)'
      BY <2>2, <2>4, <2>5, <2>6 DEF Taken
    <3> QED
      BY <1>1, <2>3, <3>1 DEF Taken
  <2>9. ASSUME InOnePlace(d) PROVE InOnePlace(d)'
    <3>1. \A q, r \in Process, i, j \in Nat : Waits(d, q, i)' /\ Waits(d, r, j)' => q = r /\ i = j
      BY <2>5, <2>6, <2>9 DEF InOnePlace
    <3>2. \A q, r \in Process : d \in busy'[q] /\ d \in busy'[r] => q = r
      BY <2>2, <2>4, <2>9 DEF InOnePlace
    <3>3. \A q, r \in Process, i \in Nat : ~(Waits(d, q, i)' /\ d \in busy'[r])
      BY <2>2, <2>4, <2>5, <2>6, <2>9 DEF InOnePlace
    <3>4. \A q \in Process, i, j \in Nat : ~(Waits(d, q, i)' /\ Published(d, j)')
      BY <2>3, <2>5, <2>6, <2>9 DEF InOnePlace
    <3>5. \A q \in Process, j \in Nat : ~(d \in busy'[q] /\ Published(d, j)')
      BY <2>2, <2>3, <2>4, <2>9 DEF InOnePlace
    <3>6. \A i, j \in Nat : Published(d, i)' /\ Published(d, j)' => i = j
      BY <2>3, <2>9 DEF InOnePlace
    <3> QED
      BY <3>1, <3>2, <3>3, <3>4, <3>5, <3>6 DEF InOnePlace
  <2> QED
    BY <1>1, <2>7, <2>8, <2>9 DEF Placed
<1>3. ASSUME NEW x, bus' = Append(bus, x), UNCHANGED inbox,
             \A q \in Process : busy'[q] \subseteq busy[q],
             \/ x = "noise"
             \/ \E p \in Process : x \in busy[p] /\ busy'[p] = {}
                   /\ x \in Caller
      PROVE  Placed(d)'
  <2>1. bus \in Seq(Caller \cup {"noise"}) /\ x \in Caller \cup {"noise"} /\ d # "noise"
    BY <1>3, CallerAssumption DEF Typed, TypeOK
  <2>2. \A i \in Nat : Published(d, i)' <=> Published(d, i) \/ (i = Len(bus) + 1 /\ x = d)
    BY <1>3, <2>1 DEF Published
  <2>3. \A q \in Process, i \in Nat : Waits(d, q, i)' <=> Waits(d, q, i)
    BY <1>3 DEF Waits
  <2>4. x = d => \E p \in Process : d \in busy[p] /\ d \notin busy'[p]
    BY <1>3, <2>1
  <2>5. Nowhere(d) => Nowhere(d)'
    BY <1>3, <2>2, <2>3, <2>4 DEF Nowhere
  <2>6. Taken(d) => Taken(d)'
    BY <1>1, <1>3, <2>2, <2>3, <2>4 DEF Taken
  <2>7. ASSUME InOnePlace(d) PROVE InOnePlace(d)'
    <3>1. \A i, j \in Nat : Published(d, i)' /\ Published(d, j)' => i = j
      BY <2>2, <2>4, <2>7 DEF InOnePlace
    <3>2. \A q \in Process, i, j \in Nat : ~(Waits(d, q, i)' /\ Published(d, j)')
      BY <2>2, <2>3, <2>4, <2>7 DEF InOnePlace
    <3>3. \A q \in Process, j \in Nat : ~(d \in busy'[q] /\ Published(d, j)')
      BY <1>3, <2>2, <2>4, <2>7 DEF InOnePlace
    <3>4. /\ \A q, r \in Process, i, j \in Nat : Waits(d, q, i)' /\ Waits(d, r, j)' => q = r /\ i = j
          /\ \A q, r \in Process : d \in busy'[q] /\ d \in busy'[r] => q = r
          /\ \A q, r \in Process, i \in Nat : ~(Waits(d, q, i)' /\ d \in busy'[r])
      BY <1>3, <2>3, <2>7 DEF InOnePlace
    <3> QED
      BY <3>1, <3>2, <3>3, <3>4 DEF InOnePlace
  <2> QED
    BY <1>1, <2>5, <2>6, <2>7 DEF Placed
<1>4. ASSUME NEW p \in Process, Answer(p) PROVE Placed(d)'
  <2>1. PICK x \in busy[p] : bus' = Append(bus, x)
    BY <1>4 DEF Answer
  <2>2. /\ x \in Caller /\ UNCHANGED inbox /\ busy'[p] = {}
        /\ \A q \in Process : busy'[q] \subseteq busy[q]
    BY <1>4 DEF Answer, Typed, TypeOK
  <2> QED
    BY <1>3, <2>1, <2>2
<1>5. CASE OtherEvent
  BY <1>3, <1>5 DEF OtherEvent
<1> QED
  BY <1>2, <1>4, <1>5

(* The callers: one is open at a time.                                      *)
LEMMA StaysExclusive ==
    ASSUME Typed, Exclusive, NEW c \in Caller, Lock(c) \/ Call(c)
    PROVE  Exclusive'
<1>1. CASE Lock(c)
  <2>1. lock = {} /\ lock' = {c} /\ \A d \in Caller \ {c} : caller'[d] = caller[d]
    BY <1>1 DEF Lock, Moves, Typed
  <2> QED
    BY <2>1 DEF Exclusive
<1>2. CASE Call(c)
  <2>1. \A d \in Caller \ {c} : caller'[d] = caller[d]
    BY <1>2, CallKinds
  <2>2. CASE GoesOn(c)
    BY <2>1, <2>2 DEF GoesOn, Exclusive
  <2>3. CASE Ends(c)
    BY <2>1, <2>3 DEF Ends, Exclusive
  <2> QED
    BY <1>2, <2>2, <2>3, CallKinds
<1> QED
  BY <1>1, <1>2

(* The callers: a Send puts a command that was nowhere in one place, and a  *)
(* call that takes its own answer leaves none behind.                       *)
LEMMA CallPlaced ==
    ASSUME Typed, AllCounted, AllPlaced, Exclusive, NEW c \in Caller, Lock(c) \/ Call(c),
           NEW d \in Caller
    PROVE  Placed(d)' /\ Total(d) \in Nat /\ Total(d)' \in Nat /\ Total(d) <= Total(d)'
<1>1. Placed(d) /\ Total(d) \in Nat
  BY TotalCounts DEF AllPlaced
<1>2. ASSUME UNCHANGED <<inbox, busy, bus, copies>>
      PROVE  /\ Total(d)' = Total(d)
             /\ \A p \in Process, i \in Nat : Waits(d, p, i)' <=> Waits(d, p, i)
             /\ \A i \in Nat : Published(d, i)' <=> Published(d, i)
             /\ (Nowhere(d)' <=> Nowhere(d)) /\ (InOnePlace(d)' <=> InOnePlace(d))
  BY <1>2 DEF Waits, Published, Nowhere, InOnePlace, Total, Copies
<1>3. ASSUME GoesOn(c), UNCHANGED <<busy, bus>>, \A e \in Caller \ {c} : caller'[e] = caller[e],
             NEW i \in Nat, NEW e \in Caller,
             Published(d, i), caller'[e].at \in Holding,
             \A b \in Caller : caller[b].at \in Holding => i <= caller[b].cursor
      PROVE  i <= caller'[e].cursor
  <2>1. Published(d, i) => i <= Len(bus)
    BY DEF Published, Typed, TypeOK
  <2>2. CASE e # c
    BY <1>3, <2>2
  <2>3. CASE e = c
    <3>1. caller[c].cursor \in Nat /\ caller'[c].cursor \in Nat
      BY CallTyped DEF Typed, CallStep, CallState, Lock, Moves
    <3> QED
      BY <1>3, <2>1, <2>3, <3>1 DEF GoesOn
  <2> QED
    BY <2>2, <2>3
<1>4. CASE Lock(c)
  <2>1. /\ UNCHANGED <<inbox, busy, bus, copies, result>>
        /\ \A e \in Caller : caller'[e].at \in Holding => caller'[e] = caller[e]
    BY <1>4 DEF Lock, Moves, procVars, histVars, Typed, Holding, CallState
  <2>2. Taken(d) => Taken(d)'
    BY <1>2, <2>1 DEF Taken
  <2> QED
    BY <1>1, <1>2, <2>1, <2>2 DEF Placed
<1>5. CASE Call(c) /\ GoesOn(c) /\ UNCHANGED <<inbox, copies>>
  <2>1. UNCHANGED <<busy, bus, result>> /\ \A e \in Caller \ {c} : caller'[e] = caller[e]
    BY <1>5, CallKinds DEF GoesOn
  <2>2. Taken(d) => Taken(d)'
    <3> SUFFICES ASSUME Taken(d) PROVE Taken(d)'
      OBVIOUS
    <3>1. \A i \in Nat, e \in Caller :
             Published(d, i)' /\ caller'[e].at \in Holding => i <= caller'[e].cursor
      BY <1>2, <1>3, <1>5, <2>1 DEF Taken
    <3> QED
      BY <1>2, <1>5, <2>1, <3>1 DEF Taken
  <2> QED
    BY <1>1, <1>2, <1>5, <2>1, <2>2 DEF Placed
<1>6. CASE Call(c) /\ Send(c)
  <2> DEFINE p == stdin[caller[c].handle]
  <2>0. caller[c].at = "send" /\ lock = {c}
    BY <1>6 DEF Send, Exclusive
  <2>1. /\ p \in Process /\ p # 0
        /\ inbox' = [inbox EXCEPT ![p] = Append(@, c)]
        /\ copies' = [copies EXCEPT ![c][p] = @ + 1]
        /\ UNCHANGED <<busy, bus, result>>
    <3>1. alive \subseteq Process /\ 0 \notin alive
      BY CommandAssumption DEF Typed, TypeOK, Process
    <3> QED
      BY <1>6, <3>1 DEF Send
  <2>2. GoesOn(c) /\ \A e \in Caller \ {c} : caller'[e] = caller[e]
    <3>1. caller'[c].at = "wait"
      BY <1>6 DEF Send, Typed, CallState
    <3> QED
      BY <1>6, <3>1, CallKinds DEF Ends
  <2>3. copies[c][p] <= 1
    BY <2>0, <2>1 DEF AllCounted, Counted, Target, Holding
  <2>4. /\ \A e \in Caller \ {c} : copies'[e] = copies[e]
        /\ Total(c)' = Total(c) + 1
    BY <2>1, <2>3, OneMore
  <2>5. \A i \in Nat : Published(d, i)' <=> Published(d, i)
    BY <2>1 DEF Published
  <2>6. inbox \in [Process -> Seq(Caller)] /\ inbox[p] \in Seq(Caller)
    BY <2>1 DEF Typed, TypeOK
  <2>7. \A q \in Process, i \in Nat :
           Waits(d, q, i)' <=> Waits(d, q, i) \/ (d = c /\ q = p /\ i = Len(inbox[p]) + 1)
    BY <2>1, <2>6 DEF Waits
  <2>8. CASE d # c
    <3>1. Total(d)' = Total(d)
      BY <2>4, <2>8 DEF Total, Copies
    <3>2. Nowhere(d) => Nowhere(d)'
      BY <2>1, <2>5, <2>7, <2>8 DEF Nowhere
    <3>3. InOnePlace(d) => InOnePlace(d)'
      BY <2>1, <2>5, <2>7, <2>8 DEF InOnePlace
    <3>4. ASSUME Taken(d) PROVE Taken(d)'
      <4>1. \A i \in Nat, e \in Caller :
               Published(d, i)' /\ caller'[e].at \in Holding => i <= caller'[e].cursor
        BY <1>3, <2>1, <2>2, <2>5, <3>4 DEF Taken
      <4> QED
        BY <2>1, <2>7, <2>8, <3>4, <4>1 DEF Taken
    <3> QED
      BY <1>1, <2>1, <3>1, <3>2, <3>3, <3>4 DEF Placed
  <2>9. CASE d = c
    <3>1. result[d] = "none" /\ d # "none"
      BY <2>0, <2>9, CallerAssumption DEF AllCounted, Counted, Sums
    <3>2. ASSUME Total(d) = 0 PROVE InOnePlace(d)'
      <4>1. Nowhere(d)
        BY <1>1, <3>2 DEF Placed
      <4>2. /\ \A q \in Process, i \in Nat : Waits(d, q, i)' => q = p /\ i = Len(inbox[p]) + 1
            /\ \A q \in Process : d \notin busy'[q]
            /\ \A i \in Nat : ~Published(d, i)'
        BY <2>1, <2>5, <2>7, <4>1 DEF Nowhere
      <4> QED
        BY <4>2 DEF InOnePlace
    <3> QED
      BY <1>1, <2>1, <2>4, <2>9, <3>1, <3>2 DEF Placed
  <2> QED
    BY <2>8, <2>9
<1>7. CASE Call(c) /\ Ends(c) /\ UNCHANGED <<inbox, copies>>
  <2>1. UNCHANGED <<busy, bus>> /\ \A e \in Caller \ {c} : caller'[e] = caller[e]
    BY <1>7, CallKinds
  <2>2. \A e \in Caller : caller'[e].at \notin Holding
    <3>1. lock = {c} /\ caller'[c].at = "idle"
      BY <1>7 DEF Ends, Exclusive
    <3>2. \A e \in Caller \ {c} : caller[e].at = "idle"
      BY <3>1 DEF Exclusive
    <3> QED
      BY <2>1, <3>1, <3>2 DEF Holding
  <2>3. Taken(d) => Taken(d)'
    BY <1>2, <1>7, <2>1, <2>2 DEF Taken
  <2>4. CASE d # c
    BY <1>1, <1>2, <1>7, <2>1, <2>3, <2>4 DEF Placed, Ends
  <2>5. CASE d = c
    <3>1. ASSUME result'[d] = d, Total(d) <= 1 PROVE Taken(d)'
      <4>1. d \notin Unanswered
        BY CallerAssumption
      <4>2. \E i \in Nat : Published(d, i)
        BY <1>7, <2>5, <3>1, <4>1 DEF Ends
      <4>3. InOnePlace(d)
        BY <1>1, <3>1 DEF Placed
      <4>4. /\ \A p \in Process : d \notin busy[p]
            /\ \A p \in Process, i \in Nat : ~Waits(d, p, i)
        BY <4>2, <4>3 DEF InOnePlace
      <4> QED
        BY <1>2, <1>7, <2>1, <2>2, <4>4 DEF Taken
    <3> QED
      BY <1>1, <1>2, <1>7, <2>1, <3>1 DEF Placed
  <2> QED
    BY <2>4, <2>5
<1> QED
  BY <1>4, <1>5, <1>6, <1>7, CallKinds

(* What a call returns, from where the answers are.                         *)
LEMMA CallAnswers ==
    ASSUME Typed, AllCounted, AllPlaced, Exclusive, AnswerIsOwn,
           NEW c \in Caller, Lock(c) \/ Call(c)
    PROVE  AnswerIsOwn'
<1>0. \A d \in Caller : Total(d) \in Nat /\ Total(d)' \in Nat /\ Total(d) <= Total(d)'
  BY CallPlaced
<1>1. ASSUME UNCHANGED result PROVE AnswerIsOwn'
  <2>1. \A e \in Caller : LeavesAnswer(e) => LeavesAnswer(e)'
    BY <1>0, <1>1 DEF LeavesAnswer
  <2> QED
    BY <1>0, <1>1, <2>1 DEF AnswerIsOwn
<1>2. CASE Call(c) /\ Ends(c) /\ UNCHANGED <<inbox, copies>>
  <2>1. /\ caller[c].at # "idle" /\ lock = {c} /\ result[c] = "none"
        /\ \A e \in Caller \ {c} : result'[e] = result[e]
    BY <1>2 DEF Ends, Exclusive, AllCounted, Counted, Sums
  <2>2. \A e \in Caller : LeavesAnswer(e) => LeavesAnswer(e)'
    BY <1>0, <2>1 DEF LeavesAnswer
  <2>3. c \notin Unanswered \cup {"none"}
    BY CallerAssumption
  <2> SUFFICES ASSUME NEW b \in Caller, NEW d \in Caller, result'[b] = d, b # d
               PROVE  /\ result'[d] \notin {"none", "not_running"}
                      /\ result'[d] = d => Total(d)' > 1
                      /\ \E e \in Caller : LeavesAnswer(e)'
    BY DEF AnswerIsOwn
  <2>4. CASE b # c
    <3>1. /\ result[b] = d /\ result[d] \notin {"none", "not_running"}
          /\ result[d] = d => Total(d) > 1
          /\ \E e \in Caller : LeavesAnswer(e)
      BY <2>1, <2>4 DEF AnswerIsOwn
    <3>2. result'[d] = result[d]
      BY <2>1, <3>1
    <3> QED
      BY <1>0, <2>2, <3>1, <3>2
  <2>5. CASE b = c
    <3>1. d \notin Unanswered
      BY CallerAssumption
    <3>2. PICK i \in Nat : /\ caller[c].at \in Holding /\ caller[c].cursor < i
                           /\ Published(d, i)
      BY <1>2, <2>5, <3>1 DEF Ends
    <3>3. caller[d].at = "idle" /\ result'[d] = result[d] /\ Placed(d) /\ Sums(d)
      BY <2>1, <2>5 DEF Exclusive, AllPlaced, AllCounted, Counted
    <3>4. Total(d) # 0
      BY <3>2, <3>3 DEF Placed, Nowhere
    <3>5. result[d] \notin {"none", "not_running"}
      BY <3>3, <3>4, TotalCounts DEF Sums, Unsent
    <3>6. ASSUME result[d] = d PROVE Total(d) > 1
      <4>1. ASSUME Total(d) <= 1 PROVE FALSE
        <5>1. i <= caller[c].cursor
          BY <3>2, <3>3, <3>6, <4>1 DEF Placed, Taken
        <5>2. caller[c].cursor \in Nat
          BY DEF Typed, CallState
        <5> QED
          BY <3>2, <5>1, <5>2
      <4> QED
        BY <1>0, <4>1
    <3>7. \E e \in Caller : LeavesAnswer(e)
      <4>1. result[d] \in Caller \cup {"timeout", "error", "restarted"}
        BY <3>5 DEF Typed, Unanswered
      <4>2. CASE result[d] \in Caller /\ result[d] # d
        BY <4>2 DEF AnswerIsOwn
      <4> QED
        BY <3>6, <4>1, <4>2 DEF LeavesAnswer
    <3> QED
      BY <1>0, <2>2, <3>3, <3>5, <3>6, <3>7
  <2> QED
    BY <2>4, <2>5
<1>3. Lock(c) \/ (Call(c) /\ GoesOn(c)) => UNCHANGED result
  BY DEF Lock, histVars, GoesOn
<1> QED
  BY <1>1, <1>2, <1>3, CallKinds

(* The wait lock and the receiver that is subscribed before anything is     *)
(* sent keep the answers apart: a call never returns the answer of another  *)
(* open call, and one of a call that is over only if some call gave up or   *)
(* sent its command twice.                                                  *)
THEOREM AnswersKept == Spec => []AnswerIsOwn
<1> DEFINE Apart == Exclusive /\ AllPlaced /\ AnswerIsOwn
<1>1. Init => Apart
  <2> SUFFICES ASSUME Init PROVE Apart
    OBVIOUS
  <2>1. Exclusive
    BY DEF Init, Exclusive, NoCall
  <2>2. \A d \in Caller : d # "none"
    BY CallerAssumption
  <2>3. AnswerIsOwn
    BY <2>2 DEF Init, AnswerIsOwn
  <2>4. \A d \in Caller : Nowhere(d)
    BY DEF Init, Nowhere, Waits, Published
  <2>5. AllPlaced
    BY <2>2, <2>4 DEF Init, AllPlaced, Placed, Nowhere, InOnePlace
  <2> QED
    BY <2>1, <2>3, <2>5
<1>2. Typed /\ AllCounted /\ Apart /\ [Next]_vars => Apart'
  <2> SUFFICES ASSUME Typed, AllCounted, Exclusive, AllPlaced, AnswerIsOwn, [Next]_vars
               PROVE  Apart'
    OBVIOUS
  <2>1. ASSUME UNCHANGED <<callerVars, histVars>> PROVE Exclusive' /\ AnswerIsOwn'
    <3>1. \A d \in Caller : Total(d)' = Total(d) /\ (LeavesAnswer(d)' <=> LeavesAnswer(d))
      BY <2>1 DEF histVars, Total, Copies, LeavesAnswer
    <3> QED
      BY <2>1, <3>1 DEF callerVars, histVars, Exclusive, AnswerIsOwn
  <2>2. ASSUME UNCHANGED <<procVars, callerVars, histVars>> PROVE AllPlaced'
    <3>1. \A d \in Caller : Total(d)' = Total(d)
      BY <2>2 DEF histVars, Total, Copies
    <3> QED
      BY <2>2, <3>1 DEF procVars, callerVars, histVars, AllPlaced, Placed, Nowhere, InOnePlace,
                        Taken, Waits, Published
  <2>3. CASE \/ \E h \in Handle : Supervisor(h)
             \/ \E k \in Keeper : start_subscriber(k) \/ RespawnRemove(k) \/ Shutdown(k)
    BY <2>1, <2>2, <2>3, Renewal
  <2>4. CASE (\E p \in Process : Execute(p) \/ Answer(p)) \/ OtherEvent
    BY <2>1, <2>4, ProcessPlaced DEF AllPlaced, Execute, Answer, OtherEvent
  <2>5. ASSUME NEW c \in Caller, Lock(c) \/ Call(c) PROVE Apart'
    BY <2>5, StaysExclusive, CallPlaced, CallAnswers DEF AllPlaced
  <2>6. CASE AtRest \/ UNCHANGED vars
    BY <2>1, <2>2, <2>6 DEF AtRest, vars
  <2> QED
    BY <2>3, <2>4, <2>5, <2>6 DEF Next
<1> QED
  BY <1>1, <1>2, TypedHolds, AllCountedHolds, PTL DEF Spec
=============================================================================
