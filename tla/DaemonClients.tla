--------------------------- MODULE DaemonClients ---------------------------
(***************************************************************************)
(* The daemon's WebSocket clients (puffer-cli/src/daemon.rs): the event bus *)
(* and its replay ring, the life of one socket (handle_socket), and the     *)
(* watchdog that cancels the running turns once the last client is gone.    *)
(*                                                                         *)
(* An event is published in two steps (the ring, then the broadcast         *)
(* channel), by the turn's worker and, once it is cancelled, by whoever     *)
(* cancelled it as well; a socket replays a copy of the ring before it      *)
(* subscribes to the channel, and a watchdog counts the sockets before it   *)
(* takes the registry: each pair of steps interleaves with everybody else.  *)
(* What a cancelled turn does is DaemonTurn's subject; here it leaves the   *)
(* registry.                                                                *)
(***************************************************************************)
EXTENDS Naturals, Sequences, FiniteSets

CONSTANTS
    Client,           \* user interfaces, each with at most one socket
    Turn,             \* turns
    MaxEvent,         \* bound: events one publisher of a turn publishes
    MaxPing,          \* bound: events outside the replay channels
    MaxConnect,       \* bound: sockets opened
    RingCapacity,     \* RECENT_EVENT_CAPACITY
    ChannelCapacity   \* the capacity of the broadcast channel

ASSUME ClientAssumption == IsFiniteSet(Client)
ASSUME CapacityAssumption ==
    /\ RingCapacity \in Nat \ {0} /\ ChannelCapacity \in Nat \ {0}
    /\ MaxEvent \in Nat /\ MaxPing \in Nat /\ MaxConnect \in Nat

(* Who publishes for a turn: its worker, and the thread that cancels it and *)
(* reports the cancellation.                                                *)
Source == Turn \X {"worker", "canceller"}
Event  == Source \X (1..MaxEvent)
Ping   == <<<<"none", "none">>, 0>>

VARIABLES
    starting,   \* run_agent_turn calls that have not registered their turn
    turns,      \* DaemonState.turns
    cancelled,  \* turns that were cancelled; the worker may run on
    done,       \* turns whose worker has ended
    teed,       \* events each publisher has put into the ring
    sent,       \* events each publisher has sent to the channel
    ring,       \* recent_events
    chan,       \* everything ever sent to the channel
    socket,     \* where each client's handle_socket is
    opened,     \* sockets opened so far
    live,       \* live_connections
    asleep,     \* watchdogs in their grace window
    awake       \* watchdogs that found no client and have yet to cancel

(* History variables, read by the properties only.                         *)
VARIABLES
    got,        \* what each socket sent to its client
    ringed,     \* the ring each socket copied, and teed and sent then
    heard,      \* the length of chan when each socket subscribed
    orphan      \* turns that were registered when the last client went

turnVars   == <<starting, turns, cancelled, done>>
eventVars  == <<teed, sent, ring, chan>>
socketVars == <<socket, opened, live>>
dogVars    == <<asleep, awake>>
histVars   == <<got, ringed, heard, orphan>>
vars == <<turnVars, eventVars, socketVars, dogVars, histVars>>

Closed == [at |-> "closed", snap |-> <<>>, cursor |-> 0]
Open   == {c \in Client : socket[c] # Closed}
NoCopy == [kept |-> <<>>, teed |-> [s \in Source |-> 0], sent |-> [s \in Source |-> 0]]

Init ==
    /\ starting = {} /\ turns = {} /\ cancelled = {} /\ done = {}
    /\ teed = [s \in Source |-> 0] /\ sent = [s \in Source |-> 0]
    /\ ring = <<>> /\ chan = <<>>
    /\ socket = [c \in Client |-> Closed]
    /\ opened = 0 /\ live = 0 /\ asleep = 0 /\ awake = 0
    /\ got = [c \in Client |-> <<>>]
    /\ ringed = [c \in Client |-> NoCopy]
    /\ heard = [c \in Client |-> 0]
    /\ orphan = {}

-----------------------------------------------------------------------------
(* Turns, as far as the clients are concerned.                              *)

(* A client that is served asks for a turn; start_turn runs in a task of    *)
(* its own, which outlives the socket.                                      *)
RequestTurn(c, t) ==
    /\ socket[c].at \in {"live", "deaf"}
    /\ t \notin starting \cup turns \cup cancelled \cup done
    /\ starting' = starting \cup {t}
    /\ UNCHANGED <<turns, cancelled, done, eventVars, socketVars, dogVars, histVars>>

(* The attachments are staged and the turn is registered.                   *)
RegisterTurn(t) ==
    /\ t \in starting
    /\ starting' = starting \ {t}
    /\ turns' = turns \cup {t}
    /\ UNCHANGED <<cancelled, done, eventVars, socketVars, dogVars, histVars>>

(* Staging fails: no turn.                                                  *)
StagingFails(t) ==
    /\ t \in starting
    /\ starting' = starting \ {t}
    /\ UNCHANGED <<turns, cancelled, done, eventVars, socketVars, dogVars, histVars>>

(* The worker of a turn runs until it has ended, cancelled or not.          *)
Runs(t) == t \in (turns \cup cancelled) \ done

(* The worker has published its last event and calls finish_turn.           *)
FinishTurn(t) ==
    /\ Runs(t)
    /\ sent[<<t, "worker">>] = teed[<<t, "worker">>]
    /\ turns' = turns \ {t}
    /\ done' = done \cup {t}
    /\ orphan' = orphan \ {t}
    /\ UNCHANGED <<starting, cancelled, eventVars, socketVars, dogVars, got, ringed, heard>>

(* handle_cancel_turn: a client that is served cancels a registered turn,   *)
(* which leaves the registry; the report follows.                           *)
CancelTurn(c, t) ==
    /\ socket[c].at \in {"live", "deaf"}
    /\ t \in turns
    /\ turns' = turns \ {t}
    /\ cancelled' = cancelled \cup {t}
    /\ orphan' = orphan \ {t}
    /\ UNCHANGED <<starting, done, eventVars, socketVars, dogVars, got, ringed, heard>>

-----------------------------------------------------------------------------
(* publish_event.  The worker of a cancelled turn publishes until it        *)
(* notices.  Whoever cancelled the turn publishes the error and the change  *)
(* of the session (report_cancelled_turn), unless the worker reported       *)
(* first or a write failed.  A thread publishes one event at a time; the    *)
(* two of a turn do not wait for each other.                                *)
Reports == 2

Publishes(s) ==
    IF s[2] = "worker" THEN Runs(s[1]) ELSE s[1] \in cancelled /\ teed[s] < Reports

(* Mutant: the ring makes room one event too late.                          *)
TeeOneMore(s) ==
    /\ Publishes(s)
    /\ sent[s] = teed[s] /\ teed[s] < MaxEvent
    /\ teed' = [teed EXCEPT ![s] = @ + 1]
    /\ ring' = Append(IF Len(ring) > RingCapacity THEN Tail(ring) ELSE ring,
                      <<s, teed[s] + 1>>)
    /\ UNCHANGED <<sent, chan, turnVars, socketVars, dogVars, histVars>>

(* The ring, under its lock: the oldest event makes room.                   *)
Tee(s) ==
    /\ Publishes(s)
    /\ sent[s] = teed[s] /\ teed[s] < MaxEvent
    /\ teed' = [teed EXCEPT ![s] = @ + 1]
    /\ ring' = Append(IF Len(ring) >= RingCapacity THEN Tail(ring) ELSE ring,
                      <<s, teed[s] + 1>>)
    /\ UNCHANGED <<sent, chan, turnVars, socketVars, dogVars, histVars>>

(* The broadcast channel, after the lock was given up: the turn's other     *)
(* publisher may have come first.                                           *)
Send(s) ==
    /\ sent[s] < teed[s]
    /\ sent' = [sent EXCEPT ![s] = @ + 1]
    /\ chan' = Append(chan, <<s, sent[s] + 1>>)
    /\ UNCHANGED <<teed, ring, turnVars, socketVars, dogVars, histVars>>

(* Anything whose channel is not replayed.                                  *)
SendPing ==
    /\ Cardinality({i \in DOMAIN chan : chan[i] = Ping}) < MaxPing
    /\ chan' = Append(chan, Ping)
    /\ UNCHANGED <<teed, sent, ring, turnVars, socketVars, dogVars, histVars>>

-----------------------------------------------------------------------------
(* handle_socket.                                                           *)

(* ConnectionGuard::new, and the hello.                                     *)
Connect(c) ==
    /\ socket[c] = Closed
    /\ opened < MaxConnect
    /\ opened' = opened + 1
    /\ live' = live + 1
    /\ socket' = [socket EXCEPT ![c].at = "hello"]
    /\ orphan' = {}
    /\ UNCHANGED <<turnVars, eventVars, dogVars, got, ringed, heard>>

(* replay_snapshot                                                          *)
Snapshot(c) ==
    /\ socket[c].at = "hello"
    /\ socket' = [socket EXCEPT ![c].at = "replay", ![c].snap = ring]
    /\ ringed' = [ringed EXCEPT ![c] = [kept |-> ring, teed |-> teed, sent |-> sent]]
    /\ UNCHANGED <<opened, live, turnVars, eventVars, dogVars, got, heard, orphan>>

(* One envelope of the copy, marked as a replay.                            *)
Replay(c) ==
    /\ socket[c].at = "replay"
    /\ socket[c].snap # <<>>
    /\ got' = [got EXCEPT ![c] = Append(@, Head(socket[c].snap))]
    /\ socket' = [socket EXCEPT ![c].snap = Tail(@)]
    /\ UNCHANGED <<opened, live, turnVars, eventVars, dogVars, ringed, heard, orphan>>

(* Mutant: the subscription starts with what the channel still holds.       *)
SubscribeRetained(c) ==
    /\ socket[c].at = "replay"
    /\ socket[c].snap = <<>>
    /\ socket' = [socket EXCEPT ![c].at = "live", ![c].cursor =
                     IF Len(chan) > ChannelCapacity THEN Len(chan) - ChannelCapacity ELSE 0]
    /\ heard' = [heard EXCEPT ![c] = Len(chan)]
    /\ UNCHANGED <<opened, live, turnVars, eventVars, dogVars, got, ringed, orphan>>

(* Only after the last envelope does the socket subscribe to the channel.   *)
Subscribe(c) ==
    /\ socket[c].at = "replay"
    /\ socket[c].snap = <<>>
    /\ socket' = [socket EXCEPT ![c].at = "live", ![c].cursor = Len(chan)]
    /\ heard' = [heard EXCEPT ![c] = Len(chan)]
    /\ UNCHANGED <<opened, live, turnVars, eventVars, dogVars, got, ringed, orphan>>

Lost(c) == socket[c].cursor + ChannelCapacity < Len(chan)

(* The forwarder passes the next envelope on.                               *)
Forward(c) ==
    /\ socket[c].at = "live"
    /\ ~Lost(c) /\ socket[c].cursor < Len(chan)
    /\ socket' = [socket EXCEPT ![c].cursor = @ + 1]
    /\ LET e == chan[socket[c].cursor + 1] IN
         got' = IF e = Ping THEN got ELSE [got EXCEPT ![c] = Append(@, e)]
    /\ UNCHANGED <<opened, live, turnVars, eventVars, dogVars, ringed, heard, orphan>>

(* Mutant: the forwarder goes on with the oldest envelope that is left.     *)
LaggedSkips(c) ==
    /\ socket[c].at = "live"
    /\ Lost(c)
    /\ socket' = [socket EXCEPT ![c].cursor = Len(chan) - ChannelCapacity]
    /\ UNCHANGED <<opened, live, turnVars, eventVars, dogVars, histVars>>

(* recv reports that envelopes were lost, and `while let Ok` ends: the      *)
(* socket stays open and its client hears no further event.                 *)
Lagged(c) ==
    /\ socket[c].at = "live"
    /\ Lost(c)
    /\ socket' = [socket EXCEPT ![c].at = "deaf"]
    /\ UNCHANGED <<opened, live, turnVars, eventVars, dogVars, histVars>>

(* Mutant: the count is compared before this socket is taken off it.        *)
DisconnectArmsLate(c) ==
    /\ socket[c].at \in {"replay", "live", "deaf"}
    /\ socket' = [socket EXCEPT ![c] = Closed]
    /\ live' = live - 1
    /\ asleep' = IF live = 0 THEN asleep + 1 ELSE asleep
    /\ orphan' = IF live' = 0 THEN turns ELSE orphan
    /\ got' = [got EXCEPT ![c] = <<>>]
    /\ ringed' = [ringed EXCEPT ![c] = NoCopy]
    /\ heard' = [heard EXCEPT ![c] = 0]
    /\ UNCHANGED <<opened, awake, turnVars, eventVars>>

(* A send fails during the replay, or the socket's loop ends: the forwarder *)
(* is aborted and the guard dropped.  The last guard arms a watchdog.       *)
Disconnect(c) ==
    /\ socket[c].at \in {"replay", "live", "deaf"}
    /\ socket' = [socket EXCEPT ![c] = Closed]
    /\ live' = live - 1
    /\ asleep' = IF live' = 0 THEN asleep + 1 ELSE asleep
    /\ orphan' = IF live' = 0 THEN turns ELSE orphan
    /\ got' = [got EXCEPT ![c] = <<>>]
    /\ ringed' = [ringed EXCEPT ![c] = NoCopy]
    /\ heard' = [heard EXCEPT ![c] = 0]
    /\ UNCHANGED <<opened, awake, turnVars, eventVars>>

-----------------------------------------------------------------------------
(* arm_disconnect_cancel_watchdog.  A watchdog is not disarmed when a       *)
(* client comes back; several may sleep at once.                            *)

(* Mutant: the watchdog goes without a look at the count.                   *)
WakeInVainAlways ==
    /\ asleep > 0
    /\ asleep' = asleep - 1
    /\ UNCHANGED <<awake, turnVars, eventVars, socketVars, histVars>>

(* The grace window is over and a client is connected.                      *)
WakeInVain ==
    /\ asleep > 0
    /\ live # 0
    /\ asleep' = asleep - 1
    /\ UNCHANGED <<awake, turnVars, eventVars, socketVars, histVars>>

(* The grace window is over and no client is connected.                     *)
Wake ==
    /\ asleep > 0
    /\ live = 0
    /\ asleep' = asleep - 1
    /\ awake' = awake + 1
    /\ UNCHANGED <<turnVars, eventVars, socketVars, histVars>>

(* cancel_all_active_turns: whatever is registered now, also if a client    *)
(* connected after the count was read.                                      *)
CancelAll ==
    /\ awake > 0
    /\ awake' = awake - 1
    /\ turns' = {}
    /\ cancelled' = cancelled \cup turns
    /\ orphan' = {}
    /\ UNCHANGED <<asleep, starting, done, eventVars, socketVars, got, ringed, heard>>

-----------------------------------------------------------------------------
Socket(c) ==
    Snapshot(c) \/ Replay(c) \/ Subscribe(c) \/ Forward(c) \/ Lagged(c)

(* Every bound is used up: no client is left, or none hears anything new.   *)
AtRest ==
    /\ opened = MaxConnect
    /\ UNCHANGED vars

Next ==
    \/ \E c \in Client, t \in Turn : RequestTurn(c, t) \/ CancelTurn(c, t)
    \/ \E t \in Turn : RegisterTurn(t) \/ StagingFails(t) \/ FinishTurn(t)
    \/ \E s \in Source : Tee(s) \/ Send(s)
    \/ SendPing
    \/ \E c \in Client : Connect(c) \/ Socket(c) \/ Disconnect(c)
    \/ WakeInVain \/ Wake \/ CancelAll
    \/ AtRest

Spec == Init /\ [][Next]_vars

(* The daemon runs its watchdogs: one whose sleep is over goes on.           *)
FairSpec == Spec /\ WF_vars(WakeInVain \/ Wake \/ CancelAll)

-----------------------------------------------------------------------------
(* Properties.                                                              *)

(* Every variable keeps its type; the ring never holds more than its        *)
(* capacity, and an event is in the channel only once it is in the ring.    *)
TypeOK ==
    /\ starting \subseteq Turn /\ turns \subseteq Turn
    /\ cancelled \subseteq Turn /\ done \subseteq Turn
    /\ teed \in [Source -> 0..MaxEvent]
    /\ sent \in [Source -> 0..MaxEvent]
    /\ \A s \in Source : sent[s] <= teed[s]
    /\ ring \in Seq(Event) /\ Len(ring) <= RingCapacity
    /\ chan \in Seq(Event \cup {Ping})
    /\ socket \in [Client -> [at : {"closed", "hello", "replay", "live", "deaf"},
                             snap : Seq(Event), cursor : 0..Len(chan)]]
    /\ \A c \in Client : socket[c].at = "closed" => socket[c] = Closed
    /\ opened \in 0..MaxConnect
    /\ live \in Nat /\ asleep \in Nat /\ awake \in Nat
    /\ orphan \subseteq turns

(* A socket never takes its client back: the events of one publisher of a   *)
(* turn arrive in the order in which it published them, across the replay   *)
(* and the live stream, and only the event that it had between the ring and *)
(* the channel when the ring was copied may come twice.  Nothing is said of *)
(* the worker's events against the canceller's: the two may reach the       *)
(* channel in another order than the ring, and both may come twice.         *)
NeverBack ==
    \A c \in Client : \A i, j \in DOMAIN got[c] :
        i < j /\ got[c][i][1] = got[c][j][1] =>
            \/ got[c][i][2] < got[c][j][2]
            \/ /\ got[c][i] = got[c][j]
               /\ i <= Len(ringed[c].kept) /\ j > Len(ringed[c].kept)
               /\ got[c][i][2] > ringed[c].sent[got[c][i][1]]

(* While its forwarder runs, a client lacks an event that left the channel  *)
(* only if the ring had dropped it before the copy, or if it came after the *)
(* copy and was sent before the subscription: a slow client never loses one *)
(* in the middle of its stream.                                             *)
MissedInGap ==
    \A c \in Client : socket[c].at = "live" =>
        \A i \in 1..socket[c].cursor :
            \/ chan[i] = Ping
            \/ \E j \in DOMAIN got[c] : got[c][j] = chan[i]
            \/ /\ chan[i][2] <= ringed[c].teed[chan[i][1]]
               /\ \A j \in DOMAIN ringed[c].kept : ringed[c].kept[j] # chan[i]
            \/ chan[i][2] > ringed[c].teed[chan[i][1]] /\ i <= heard[c]

(* The count of clients is exact, and a turn that the last client left      *)
(* behind has a watchdog on the way until it ends or a client is back.      *)
OrphansWatched ==
    /\ live = Cardinality(Open)
    /\ orphan # {} => Open = {} /\ asleep + awake > 0

(* A turn that is registered while nobody is connected and a watchdog is on *)
(* its way, the ones that registered during the grace window included, ends *)
(* or is cancelled, or a client connects.                                   *)
OrphansEnd ==
    \A t \in Turn :
        t \in turns /\ Open = {} /\ asleep + awake > 0 ~> t \notin turns \/ Open # {}

-----------------------------------------------------------------------------
(* What comments say and the code does not keep.                            *)

(* "When this drops to zero the disconnect watchdog cancels orphaned        *)
(* interactive turns after a grace window so a runaway browser checkout     *)
(* can't keep running once the user's app has gone away": a turn that is    *)
(* registered while nobody is connected has a watchdog on its way.  One     *)
(* whose start was under way when the last watchdog looked has none.        *)
UnattendedWatched == Open = {} /\ turns # {} => asleep + awake > 0

(* "UIs that reconnect after a drop get the last N events replayed so they  *)
(* don't miss text deltas": whatever reached the ring after a socket copied *)
(* it reaches that socket's client.                                         *)
ReplayComplete ==
    \A c \in Client : socket[c].at = "live" =>
        \A i \in 1..socket[c].cursor :
            \/ chan[i] = Ping
            \/ chan[i][2] <= ringed[c].teed[chan[i][1]]
            \/ \E j \in DOMAIN got[c] : got[c][j] = chan[i]
=============================================================================
