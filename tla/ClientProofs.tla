--------------------------- MODULE ClientProofs ---------------------------
(***************************************************************************)
(* DaemonClients: the types of its variables, that no turn the last client  *)
(* left behind is without a watchdog, and what each client was told of the  *)
(* turns' events and in which order, for any number of clients, turns and   *)
(* events and any capacities.                                               *)
(***************************************************************************)
EXTENDS DaemonClients, FiniteSetTheorems, SequenceTheorems, TLAPS

(* The set of open sockets is finite, and only empty when it counts zero.   *)
LEMMA OpenFinite ==
    /\ IsFiniteSet(Open)
    /\ Cardinality(Open) \in Nat
    /\ Cardinality(Open) = 0 <=> Open = {}
<1>1. Open \subseteq Client
  BY DEF Open
<1>2. IsFiniteSet(Open)
  BY <1>1, ClientAssumption, FS_Subset
<1> QED
  BY <1>2, FS_CardinalityType, FS_EmptySet

(* handle_socket moves within an open socket.                               *)
LEMMA SocketKeepsOpen ==
    ASSUME TypeOK, NEW c \in Client, Socket(c)
    PROVE  Open' = Open
<1>1. socket[c].at # "closed"
  BY DEF Socket, Snapshot, Replay, Subscribe, Forward, Lagged
<1>2. socket'[c].at # "closed" /\ \A d \in Client \ {c} : socket'[d] = socket[d]
  BY <1>1 DEF Socket, Snapshot, Replay, Subscribe, Forward, Lagged, TypeOK
<1>3. Closed.at = "closed"
  BY DEF Closed
<1> QED
  BY <1>1, <1>2, <1>3 DEF Open

(* Connecting adds one open socket to the count.                            *)
LEMMA ConnectCounts ==
    ASSUME TypeOK, NEW c \in Client, Connect(c)
    PROVE  Open' = Open \cup {c} /\ c \notin Open
<1>1. socket'[c].at = "hello" /\ \A d \in Client \ {c} : socket'[d] = socket[d]
  BY DEF Connect, TypeOK
<1>2. Closed.at = "closed"
  BY DEF Closed
<1> QED
  BY <1>1, <1>2 DEF Open, Connect

(* Disconnecting takes one off it.                                          *)
LEMMA DisconnectCounts ==
    ASSUME TypeOK, NEW c \in Client, Disconnect(c)
    PROVE  Open' = Open \ {c} /\ c \in Open
<1>1. socket'[c] = Closed /\ \A d \in Client \ {c} : socket'[d] = socket[d]
  BY DEF Disconnect, TypeOK
<1>2. socket[c] # Closed
  BY DEF Disconnect, Closed
<1> QED
  BY <1>1, <1>2 DEF Open

-----------------------------------------------------------------------------
(* Every step keeps the types.                                              *)
LEMMA TypeStep == TypeOK /\ OrphansWatched /\ [Next]_vars => TypeOK'
<1> SUFFICES ASSUME TypeOK, OrphansWatched, [Next]_vars PROVE TypeOK'
  OBVIOUS
<1> USE CapacityAssumption
<1>1. CASE UNCHANGED vars
  BY <1>1 DEF TypeOK, vars, turnVars, eventVars, socketVars, dogVars, histVars
<1>2. ASSUME NEW c \in Client, NEW t \in Turn, RequestTurn(c, t) \/ CancelTurn(c, t)
      PROVE  TypeOK'
  BY <1>2 DEF TypeOK, RequestTurn, CancelTurn, eventVars, socketVars, dogVars, histVars
<1>3. ASSUME NEW t \in Turn, RegisterTurn(t) PROVE TypeOK'
  BY <1>3 DEF TypeOK, RegisterTurn, eventVars, socketVars, dogVars, histVars
<1>4. ASSUME NEW t \in Turn, StagingFails(t) PROVE TypeOK'
  BY <1>4 DEF TypeOK, StagingFails, eventVars, socketVars, dogVars, histVars
<1>5. ASSUME NEW t \in Turn, FinishTurn(t) PROVE TypeOK'
  BY <1>5 DEF TypeOK, FinishTurn, eventVars, socketVars, dogVars
<1>6. ASSUME NEW t \in Source, Tee(t) PROVE TypeOK'
  <2>1. <<t, teed[t] + 1>> \in Event
    BY <1>6 DEF TypeOK, Tee, Event
  <2>2. teed' \in [Source -> 0..MaxEvent] /\ \A u \in Source : sent[u] <= teed'[u]
    BY <1>6 DEF TypeOK, Tee
  <2>3. ring' \in Seq(Event) /\ Len(ring') <= RingCapacity
    <3>1. CASE Len(ring) >= RingCapacity
      <4>1. ring # <<>>
        BY <3>1 DEF TypeOK
      <4>2. Tail(ring) \in Seq(Event) /\ Len(Tail(ring)) = Len(ring) - 1
        BY <4>1, HeadTailProperties DEF TypeOK
      <4>3. ring' = Append(Tail(ring), <<t, teed[t] + 1>>)
        BY <1>6, <3>1 DEF Tee
      <4> QED
        BY <2>1, <3>1, <4>2, <4>3, AppendProperties DEF TypeOK
    <3>2. CASE ~(Len(ring) >= RingCapacity)
      <4>1. ring' = Append(ring, <<t, teed[t] + 1>>)
        BY <1>6, <3>2 DEF Tee
      <4>2. ring \in Seq(Event) /\ Len(ring) \in Nat
        BY LenProperties DEF TypeOK
      <4> QED
        BY <2>1, <3>2, <4>1, <4>2, AppendProperties
    <3> QED
      BY <3>1, <3>2
  <2> QED
    BY <1>6, <2>2, <2>3 DEF TypeOK, Tee, turnVars, socketVars, dogVars, histVars
<1>7. ASSUME NEW t \in Source, Send(t) PROVE TypeOK'
  <2>1. <<t, sent[t] + 1>> \in Event \cup {Ping}
    BY <1>7 DEF TypeOK, Send, Event
  <2>2. sent' \in [Source -> 0..MaxEvent] /\ \A u \in Source : sent'[u] <= teed[u]
    BY <1>7 DEF TypeOK, Send
  <2>3. chan' \in Seq(Event \cup {Ping}) /\ Len(chan') = Len(chan) + 1 /\ Len(chan) \in Nat
    BY <1>7, <2>1, AppendProperties, LenProperties DEF TypeOK, Send
  <2> QED
    BY <1>7, <2>2, <2>3 DEF TypeOK, Send, turnVars, socketVars, dogVars, histVars
<1>8. CASE SendPing
  <2>1. chan' \in Seq(Event \cup {Ping}) /\ Len(chan') = Len(chan) + 1 /\ Len(chan) \in Nat
    BY <1>8, AppendProperties, LenProperties DEF TypeOK, SendPing
  <2> QED
    BY <1>8, <2>1 DEF TypeOK, SendPing, turnVars, socketVars, dogVars, histVars
<1>9. ASSUME NEW c \in Client, Connect(c) PROVE TypeOK'
  <2>1. socket' \in [Client -> [at : {"closed", "hello", "replay", "live", "deaf"},
                               snap : Seq(Event), cursor : 0..Len(chan')]]
    BY <1>9 DEF TypeOK, Connect, eventVars
  <2>2. \A d \in Client : socket'[d].at = "closed" => socket'[d] = Closed
    BY <1>9 DEF TypeOK, Connect
  <2>3. opened' \in 0..MaxConnect /\ live' \in Nat
    BY <1>9 DEF TypeOK, Connect
  <2> QED
    BY <1>9, <2>1, <2>2, <2>3 DEF TypeOK, Connect, turnVars, eventVars, dogVars
<1>10. ASSUME NEW c \in Client, Socket(c) PROVE TypeOK'
  <2>1. CASE Snapshot(c)
    BY <2>1 DEF TypeOK, Snapshot, turnVars, eventVars, dogVars
  <2>2. CASE Replay(c)
    <3>1. Tail(socket[c].snap) \in Seq(Event)
      BY <2>2, HeadTailProperties DEF TypeOK, Replay
    <3> QED
      BY <2>2, <3>1 DEF TypeOK, Replay, turnVars, eventVars, dogVars
  <2>3. CASE Subscribe(c)
    <3>1. Len(chan) \in 0..Len(chan)
      BY LenProperties DEF TypeOK
    <3> QED
      BY <2>3, <3>1 DEF TypeOK, Subscribe, turnVars, eventVars, dogVars
  <2>4. CASE Forward(c)
    <3>1. socket[c].cursor + 1 \in 0..Len(chan)
      BY <2>4, LenProperties DEF TypeOK, Forward
    <3>2. socket' \in [Client -> [at : {"closed", "hello", "replay", "live", "deaf"},
                                 snap : Seq(Event), cursor : 0..Len(chan)]]
      BY <2>4, <3>1 DEF TypeOK, Forward
    <3>3. \A d \in Client : socket'[d].at = "closed" => socket'[d] = Closed
      BY <2>4 DEF TypeOK, Forward
    <3> QED
      BY <2>4, <3>2, <3>3 DEF TypeOK, Forward, turnVars, eventVars, dogVars
  <2>5. CASE Lagged(c)
    BY <2>5 DEF TypeOK, Lagged, turnVars, eventVars, dogVars, histVars
  <2> QED
    BY <1>10, <2>1, <2>2, <2>3, <2>4, <2>5 DEF Socket
<1>11. ASSUME NEW c \in Client, Disconnect(c) PROVE TypeOK'
  <2>1. live - 1 \in Nat
    <3>1. Open # {}
      BY <1>11, DisconnectCounts
    <3>2. live = Cardinality(Open)
      BY DEF OrphansWatched
    <3> QED
      BY <3>1, <3>2, OpenFinite
  <2>2. <<>> \in Seq(Event) /\ 0 \in 0..Len(chan)
    BY LenProperties DEF TypeOK
  <2>3. socket' \in [Client -> [at : {"closed", "hello", "replay", "live", "deaf"},
                               snap : Seq(Event), cursor : 0..Len(chan)]]
    BY <1>11, <2>2 DEF TypeOK, Disconnect, Closed
  <2>4. \A d \in Client : socket'[d].at = "closed" => socket'[d] = Closed
    BY <1>11 DEF TypeOK, Disconnect
  <2> QED
    BY <1>11, <2>1, <2>3, <2>4 DEF TypeOK, Disconnect, turnVars, eventVars
<1>12. CASE WakeInVain
  BY <1>12 DEF TypeOK, WakeInVain, turnVars, eventVars, socketVars, histVars
<1>13. CASE Wake
  BY <1>13 DEF TypeOK, Wake, turnVars, eventVars, socketVars, histVars
<1>14. CASE CancelAll
  BY <1>14 DEF TypeOK, CancelAll, eventVars, socketVars
<1> QED
  BY <1>1, <1>2, <1>3, <1>4, <1>5, <1>6, <1>7, <1>8, <1>9, <1>10, <1>11, <1>12,
     <1>13, <1>14 DEF Next, AtRest

(* Every step keeps the count exact and the orphans watched.                *)
LEMMA WatchStep == TypeOK /\ OrphansWatched /\ [Next]_vars => OrphansWatched'
<1> SUFFICES ASSUME TypeOK, OrphansWatched, [Next]_vars PROVE OrphansWatched'
  OBVIOUS
<1>1. CASE UNCHANGED <<socketVars, dogVars>> /\ orphan' \subseteq orphan
  BY <1>1 DEF OrphansWatched, Open, socketVars, dogVars
<1>2. ASSUME NEW c \in Client, Connect(c) PROVE OrphansWatched'
  <2>1. Cardinality(Open') = Cardinality(Open) + 1
    BY <1>2, ConnectCounts, OpenFinite, FS_AddElement
  <2> QED
    BY <1>2, <2>1 DEF OrphansWatched, Connect
<1>3. ASSUME NEW c \in Client, Socket(c) PROVE OrphansWatched'
  <2>1. UNCHANGED <<live, dogVars, orphan>>
    BY <1>3 DEF Socket, Snapshot, Replay, Subscribe, Forward, Lagged, histVars
  <2> QED
    BY <1>3, <2>1, SocketKeepsOpen DEF OrphansWatched, dogVars
<1>4. ASSUME NEW c \in Client, Disconnect(c) PROVE OrphansWatched'
  <2>1. Cardinality(Open') = Cardinality(Open) - 1 /\ IsFiniteSet(Open')
    BY <1>4, DisconnectCounts, OpenFinite, FS_RemoveElement
  <2>2. live' = Cardinality(Open')
    BY <1>4, <2>1 DEF OrphansWatched, Disconnect
  <2>3. CASE live' = 0
    <3>1. Open' = {}
      BY <2>1, <2>2, <2>3, FS_EmptySet
    <3>2. asleep' + awake' > 0
      BY <1>4, <2>3 DEF Disconnect, TypeOK
    <3> QED
      BY <2>2, <3>1, <3>2 DEF OrphansWatched
  <2>4. CASE live' # 0
    <3>1. orphan' = {}
      BY <1>4, <2>4, DisconnectCounts DEF Disconnect, OrphansWatched
    <3> QED
      BY <2>2, <3>1 DEF OrphansWatched
  <2> QED
    BY <2>3, <2>4
<1>5. CASE WakeInVain
  <2>1. Open # {} /\ orphan = {}
    BY <1>5, OpenFinite DEF OrphansWatched, WakeInVain
  <2> QED
    BY <1>5, <2>1 DEF OrphansWatched, WakeInVain, Open, socketVars, histVars
<1>6. CASE Wake
  BY <1>6 DEF OrphansWatched, Wake, Open, socketVars, histVars, TypeOK
<1>7. CASE CancelAll
  BY <1>7 DEF OrphansWatched, CancelAll, Open, socketVars
<1>8. ASSUME NEW c \in Client, NEW t \in Turn, RequestTurn(c, t) \/ CancelTurn(c, t)
      PROVE  UNCHANGED <<socketVars, dogVars>> /\ orphan' \subseteq orphan
  BY <1>8 DEF RequestTurn, CancelTurn, histVars
<1>9. ASSUME NEW t \in Turn, RegisterTurn(t) \/ StagingFails(t) \/ FinishTurn(t)
      PROVE  UNCHANGED <<socketVars, dogVars>> /\ orphan' \subseteq orphan
  BY <1>9 DEF RegisterTurn, StagingFails, FinishTurn, histVars
<1>10. ASSUME NEW s \in Source, Tee(s) \/ Send(s)
       PROVE  UNCHANGED <<socketVars, dogVars>> /\ orphan' \subseteq orphan
  BY <1>10 DEF Tee, Send, histVars
<1>11. CASE SendPing \/ AtRest \/ UNCHANGED vars
  BY <1>1, <1>11 DEF SendPing, AtRest, vars, histVars
<1> QED
  BY <1>1, <1>2, <1>3, <1>4, <1>5, <1>6, <1>7, <1>8, <1>9, <1>10, <1>11 DEF Next

(* The initial state.                                                       *)
LEMMA ClientsInit == Init => TypeOK /\ OrphansWatched
<1> SUFFICES ASSUME Init PROVE TypeOK /\ OrphansWatched
  OBVIOUS
<1> USE CapacityAssumption
<1>1. Open = {}
  BY DEF Init, Open
<1>2. Cardinality({}) = 0
  BY FS_EmptySet
<1>3. OrphansWatched
  BY <1>1, <1>2 DEF Init, OrphansWatched
<1>4. TypeOK
  BY DEF Init, TypeOK, Closed
<1> QED
  BY <1>3, <1>4

(* The types hold in every reachable state.                                 *)
THEOREM ClientsTyped == Spec => []TypeOK
<1>1. TypeOK /\ OrphansWatched /\ [Next]_vars => (TypeOK /\ OrphansWatched)'
  BY TypeStep, WatchStep
<1> QED
  BY <1>1, ClientsInit, PTL DEF Spec

(* A turn that was registered when the last client disconnected has a       *)
(* watchdog armed or about to cancel, whatever reconnects, disconnects and  *)
(* earlier watchdogs did in between (ConnectionGuard and                    *)
(* arm_disconnect_cancel_watchdog).                                         *)
THEOREM NoOrphanUnwatched == Spec => []OrphansWatched
<1>1. TypeOK /\ OrphansWatched /\ [Next]_vars => (TypeOK /\ OrphansWatched)'
  BY TypeStep, WatchStep
<1> QED
  BY <1>1, ClientsInit, PTL DEF Spec

-----------------------------------------------------------------------------
(* What every client was told.  The replayed copy and the live stream are   *)
(* each ordered by publisher; they overlap by at most the one event that a  *)
(* publisher had between the ring and the channel when the ring was copied. *)

(* The events of one publisher stand in the order of their numbers.         *)
Ordered(s) ==
    \A i, j \in 1..Len(s) :
        i < j /\ s[i] # Ping /\ s[j] # Ping /\ s[i][1] = s[j][1] => s[i][2] < s[j][2]

(* publish_event: the ring and the channel are ordered, and a publisher is  *)
(* at most one event further in the ring than in the channel.               *)
Published ==
    /\ \A t \in Source : teed[t] <= sent[t] + 1
    /\ Ordered(ring)
    /\ \A i \in 1..Len(ring) : ring[i][2] <= teed[ring[i][1]]
    /\ Ordered(chan)
    /\ \A i \in 1..Len(chan) : chan[i] # Ping => chan[i][2] <= sent[chan[i][1]]

(* A copy was the ring of an earlier moment.                                *)
Copied(c) ==
    /\ Ordered(ringed[c].kept)
    /\ \A i \in 1..Len(ringed[c].kept) :
         ringed[c].kept[i][2] <= ringed[c].teed[ringed[c].kept[i][1]]
    /\ \A t \in Source : ringed[c].teed[t] <= ringed[c].sent[t] + 1
                       /\ ringed[c].sent[t] <= sent[t]

(* During the replay the client has one part of the copy, snap the rest.    *)
Replaying(c) ==
    /\ Len(got[c]) + Len(socket[c].snap) = Len(ringed[c].kept)
    /\ \A i \in 1..Len(got[c]) : got[c][i] = ringed[c].kept[i]
    /\ \A i \in 1..Len(socket[c].snap) :
         socket[c].snap[i] = ringed[c].kept[Len(got[c]) + i]

(* Afterwards it has the copy, and then what the channel carried since.     *)
Forwarded(c) ==
    /\ heard[c] <= socket[c].cursor
    /\ \A i \in 1..Len(chan) : i > heard[c] /\ chan[i] # Ping =>
         chan[i][2] > ringed[c].sent[chan[i][1]]
    /\ Len(ringed[c].kept) <= Len(got[c])
    /\ \A i \in 1..Len(ringed[c].kept) : got[c][i] = ringed[c].kept[i]
    /\ \A j \in 1..Len(got[c]) : j > Len(ringed[c].kept) =>
         \E i \in 1..socket[c].cursor : i > heard[c] /\ chan[i] = got[c][j]
    /\ \A i \in 1..socket[c].cursor : i > heard[c] /\ chan[i] # Ping =>
         \E j \in 1..Len(got[c]) : got[c][j] = chan[i]
    /\ \A i, j \in 1..Len(got[c]) :
         Len(ringed[c].kept) < i /\ i < j /\ got[c][i][1] = got[c][j][1] =>
             got[c][i][2] < got[c][j][2]

Stream(c) ==
    /\ socket[c].at \in {"closed", "hello"} => got[c] = <<>>
    /\ socket[c].at \in {"replay", "live", "deaf"} => Copied(c)
    /\ socket[c].at = "replay" => Replaying(c)
    /\ socket[c].at \in {"live", "deaf"} => Forwarded(c)

(* The types of the history variables.                                      *)
Histories ==
    /\ got \in [Client -> Seq(Event)]
    /\ ringed \in [Client -> [kept : Seq(Event), teed : [Source -> Nat], sent : [Source -> Nat]]]
    /\ heard \in [Client -> Nat]

Streams == Histories /\ Published /\ \A c \in Client : Stream(c)

(* An event has a publisher and a number, and is not a Ping.                *)
LEMMA EventParts ==
    ASSUME NEW e \in Event
    PROVE  e[1] \in Source /\ e[2] \in 1..MaxEvent /\ e[2] \in Nat /\ e # Ping
<1> USE CapacityAssumption
<1>1. e[1] \in Source /\ e[2] \in 1..MaxEvent
  BY DEF Event
<1>2. Ping[2] = 0
  BY DEF Ping
<1> QED
  BY <1>1, <1>2

(* An element of the channel that is not a Ping is an event.                *)
LEMMA ChanParts ==
    ASSUME TypeOK, NEW i \in 1..Len(chan)
    PROVE  chan[i] \in Event \cup {Ping} /\ (chan[i] # Ping => chan[i] \in Event)
BY ElementOfSeq DEF TypeOK

(* A later event goes to the end.                                           *)
LEMMA AppendOrdered ==
    ASSUME NEW T, NEW s \in Seq(T), NEW e \in T, Ordered(s),
           \A i \in 1..Len(s) : e # Ping /\ s[i] # Ping /\ s[i][1] = e[1] => s[i][2] < e[2]
    PROVE  Ordered(Append(s, e))
<1> DEFINE r == Append(s, e)
<1>1. Len(r) = Len(s) + 1 /\ Len(s) \in Nat /\ r[Len(s) + 1] = e
      /\ \A i \in 1..Len(s) : r[i] = s[i]
  BY AppendProperties, LenProperties
<1> HIDE DEF r
<1> SUFFICES ASSUME NEW i \in 1..Len(r), NEW j \in 1..Len(r),
                    i < j, r[i] # Ping, r[j] # Ping, r[i][1] = r[j][1]
             PROVE  r[i][2] < r[j][2]
  BY DEF Ordered, r
<1>2. i \in 1..Len(s) /\ r[i] = s[i]
  BY <1>1
<1>3. CASE j = Len(s) + 1
  BY <1>1, <1>2, <1>3
<1>4. CASE j \in 1..Len(s)
  <2>1. r[j] = s[j]
    BY <1>1, <1>4
  <2> QED
    BY <1>2, <1>4, <2>1 DEF Ordered
<1> QED
  BY <1>1, <1>3, <1>4

(* The oldest event makes room.                                             *)
LEMMA TailOrdered ==
    ASSUME NEW T, NEW s \in Seq(T), s # <<>>, Ordered(s)
    PROVE  Ordered(Tail(s))
<1> DEFINE r == Tail(s)
<1>1. Len(r) = Len(s) - 1 /\ Len(s) \in Nat /\ \A i \in 1..Len(r) : r[i] = s[i + 1]
  BY HeadTailProperties, LenProperties
<1> HIDE DEF r
<1> SUFFICES ASSUME NEW i \in 1..Len(r), NEW j \in 1..Len(r),
                    i < j, r[i] # Ping, r[j] # Ping, r[i][1] = r[j][1]
             PROVE  r[i][2] < r[j][2]
  BY DEF Ordered, r
<1>2. i + 1 \in 1..Len(s) /\ j + 1 \in 1..Len(s) /\ i + 1 < j + 1
  BY <1>1
<1> QED
  BY <1>1, <1>2 DEF Ordered

(* publish_event keeps the ring and the channel as they should be.          *)
LEMMA PublishedStep == TypeOK /\ Published /\ [Next]_vars => Published'
<1> SUFFICES ASSUME TypeOK, Published, [Next]_vars PROVE Published'
  OBVIOUS
<1> USE CapacityAssumption
<1>1. CASE UNCHANGED eventVars
  BY <1>1 DEF Published, Ordered, eventVars
<1>2. ASSUME NEW t \in Source, Tee(t) PROVE Published'
  <2> DEFINE e == <<t, teed[t] + 1>>
             r == IF Len(ring) >= RingCapacity THEN Tail(ring) ELSE ring
  <2>1. e \in Event /\ e[1] = t /\ e[2] = teed[t] + 1 /\ teed[t] \in Nat
    BY <1>2 DEF TypeOK, Tee, Event
  <2>2. /\ ring' = Append(r, e) /\ teed' = [teed EXCEPT ![t] = @ + 1]
        /\ sent' = sent /\ chan' = chan /\ sent[t] = teed[t]
    BY <1>2 DEF Tee
  <2> HIDE DEF e
  <2>3. /\ r \in Seq(Event) /\ Ordered(r)
        /\ \A i \in 1..Len(r) : r[i] \in Event /\ r[i][2] <= teed[r[i][1]]
    <3>1. CASE Len(ring) >= RingCapacity
      <4>1. ring # <<>> /\ ring \in Seq(Event) /\ r = Tail(ring)
        BY <3>1 DEF TypeOK
      <4>2. /\ r \in Seq(Event) /\ Len(r) = Len(ring) - 1 /\ Len(ring) \in Nat
            /\ \A i \in 1..Len(r) : r[i] = ring[i + 1]
        BY <4>1, HeadTailProperties, LenProperties
      <4>3. Ordered(r)
        BY <4>1, TailOrdered DEF Published
      <4>4. \A i \in 1..Len(r) : i + 1 \in 1..Len(ring)
        BY <4>2
      <4>5. \A i \in 1..Len(r) : r[i] \in Event
        BY <4>2, ElementOfSeq
      <4> HIDE DEF r
      <4> QED
        BY <4>2, <4>3, <4>4, <4>5 DEF Published
    <3>2. CASE ~(Len(ring) >= RingCapacity)
      <4>1. r = ring /\ ring \in Seq(Event)
        BY <3>2 DEF TypeOK
      <4>2. \A i \in 1..Len(ring) : ring[i] \in Event
        BY <4>1, ElementOfSeq
      <4> QED
        BY <4>1, <4>2 DEF Published
    <3> QED
      BY <3>1, <3>2
  <2> HIDE DEF r
  <2>4. \A i \in 1..Len(r) : r[i][1] = e[1] => r[i][2] < e[2]
    <3> SUFFICES ASSUME NEW i \in 1..Len(r), r[i][1] = e[1] PROVE r[i][2] < e[2]
      OBVIOUS
    <3>1. r[i][2] \in Nat
      BY <2>3, EventParts
    <3>2. r[i][2] <= teed[t]
      BY <2>1, <2>3
    <3> QED
      BY <2>1, <3>1, <3>2
  <2>5. Ordered(ring')
    BY <2>1, <2>2, <2>3, <2>4, AppendOrdered
  <2>6. teed' \in [Source -> Nat] /\ \A u \in Source : teed[u] <= teed'[u] /\ teed[u] \in Nat
    BY <2>1, <2>2 DEF TypeOK
  <2>7. \A u \in Source : teed'[u] <= sent'[u] + 1
    BY <2>1, <2>2 DEF TypeOK, Published
  <2>8. \A i \in 1..Len(ring') : ring'[i][2] <= teed'[ring'[i][1]]
    <3> SUFFICES ASSUME NEW i \in 1..Len(ring') PROVE ring'[i][2] <= teed'[ring'[i][1]]
      OBVIOUS
    <3>1. /\ Len(ring') = Len(r) + 1 /\ Len(r) \in Nat /\ ring'[Len(r) + 1] = e
          /\ \A k \in 1..Len(r) : ring'[k] = r[k]
      BY <2>1, <2>2, <2>3, AppendProperties, LenProperties
    <3>2. CASE i = Len(r) + 1
      <4>1. teed'[t] = teed[t] + 1
        BY <2>2 DEF TypeOK
      <4> QED
        BY <2>1, <3>1, <3>2, <4>1
    <3>3. CASE i \in 1..Len(r)
      <4>1. r[i][1] \in Source /\ r[i][2] \in Nat /\ r[i][2] <= teed[r[i][1]]
        BY <2>3, <3>3, EventParts
      <4>2. teed[r[i][1]] <= teed'[r[i][1]] /\ teed[r[i][1]] \in Nat /\ teed'[r[i][1]] \in Nat
        BY <2>6, <4>1
      <4>3. r[i][2] <= teed'[r[i][1]]
        BY <4>1, <4>2
      <4> QED
        BY <3>1, <3>3, <4>3
    <3> QED
      BY <3>1, <3>2, <3>3
  <2> QED
    BY <2>2, <2>5, <2>7, <2>8 DEF Published
<1>3. ASSUME NEW t \in Source, Send(t) PROVE Published'
  <2> DEFINE e == <<t, sent[t] + 1>>
  <2>1. e \in Event /\ e \in Event \cup {Ping} /\ e[1] = t /\ e[2] = sent[t] + 1 /\ sent[t] \in Nat
    BY <1>3 DEF TypeOK, Send, Event
  <2>2. /\ chan' = Append(chan, e) /\ sent' = [sent EXCEPT ![t] = @ + 1]
        /\ teed' = teed /\ ring' = ring
    BY <1>3 DEF Send
  <2> HIDE DEF e
  <2>3. chan \in Seq(Event \cup {Ping})
    BY DEF TypeOK
  <2>4. \A i \in 1..Len(chan) : chan[i] # Ping /\ chan[i][1] = e[1] => chan[i][2] < e[2]
    <3> SUFFICES ASSUME NEW i \in 1..Len(chan), chan[i] # Ping, chan[i][1] = e[1]
                 PROVE  chan[i][2] < e[2]
      OBVIOUS
    <3>1. chan[i][2] \in Nat
      BY ChanParts, EventParts
    <3>2. chan[i][2] <= sent[t]
      BY <2>1 DEF Published
    <3> QED
      BY <2>1, <3>1, <3>2
  <2>5. Ordered(chan')
    BY <2>1, <2>2, <2>3, <2>4, AppendOrdered DEF Published
  <2>6. sent' \in [Source -> Nat] /\ \A u \in Source : sent[u] <= sent'[u] /\ sent[u] \in Nat
    BY <2>1, <2>2 DEF TypeOK
  <2>7. \A u \in Source : teed'[u] <= sent'[u] + 1
    <3>1. \A u \in Source : teed[u] \in Nat /\ teed[u] <= sent[u] + 1
      BY DEF TypeOK, Published
    <3> QED
      BY <2>2, <2>6, <3>1
  <2>8. \A i \in 1..Len(chan') : chan'[i] # Ping => chan'[i][2] <= sent'[chan'[i][1]]
    <3> SUFFICES ASSUME NEW i \in 1..Len(chan'), chan'[i] # Ping
                 PROVE  chan'[i][2] <= sent'[chan'[i][1]]
      OBVIOUS
    <3>1. /\ Len(chan') = Len(chan) + 1 /\ Len(chan) \in Nat /\ chan'[Len(chan) + 1] = e
          /\ \A k \in 1..Len(chan) : chan'[k] = chan[k]
      BY <2>1, <2>2, <2>3, AppendProperties, LenProperties
    <3>2. CASE i = Len(chan) + 1
      <4>1. sent'[t] = sent[t] + 1
        BY <2>2 DEF TypeOK
      <4> QED
        BY <2>1, <3>1, <3>2, <4>1
    <3>3. CASE i \in 1..Len(chan)
      <4>1. chan'[i] = chan[i]
        BY <3>1, <3>3
      <4>2. chan[i][1] \in Source /\ chan[i][2] \in Nat /\ chan[i][2] <= sent[chan[i][1]]
        BY <3>3, <4>1, ChanParts, EventParts DEF Published
      <4>3. /\ sent[chan[i][1]] <= sent'[chan[i][1]]
            /\ sent[chan[i][1]] \in Nat /\ sent'[chan[i][1]] \in Nat
        BY <2>6, <4>2
      <4>4. chan[i][2] <= sent'[chan[i][1]]
        BY <4>2, <4>3
      <4> QED
        BY <4>1, <4>4
    <3> QED
      BY <3>1, <3>2, <3>3
  <2> QED
    BY <2>2, <2>5, <2>7, <2>8 DEF Published
<1>4. CASE SendPing
  <2>1. /\ chan' = Append(chan, Ping) /\ sent' = sent /\ teed' = teed /\ ring' = ring
        /\ chan \in Seq(Event \cup {Ping})
    BY <1>4 DEF SendPing, TypeOK
  <2>2. Ping \in Event \cup {Ping}
    OBVIOUS
  <2>3. Ordered(chan')
    BY <2>1, <2>2, AppendOrdered DEF Published
  <2>4. /\ Len(chan') = Len(chan) + 1 /\ Len(chan) \in Nat /\ chan'[Len(chan) + 1] = Ping
        /\ \A k \in 1..Len(chan) : chan'[k] = chan[k]
    BY <2>1, <2>2, AppendProperties, LenProperties
  <2>5. \A i \in 1..Len(chan') : chan'[i] # Ping => i \in 1..Len(chan) /\ chan'[i] = chan[i]
    BY <2>4
  <2> QED
    BY <2>1, <2>3, <2>5 DEF Published
<1>5. ASSUME NEW c \in Client,
             \/ Connect(c) \/ Socket(c) \/ Disconnect(c)
             \/ \E t \in Turn : RequestTurn(c, t) \/ CancelTurn(c, t)
      PROVE  UNCHANGED eventVars
  BY <1>5 DEF Connect, Socket, Snapshot, Replay, Subscribe, Forward, Lagged, Disconnect,
              RequestTurn, CancelTurn
<1>6. ASSUME NEW t \in Turn, RegisterTurn(t) \/ StagingFails(t) \/ FinishTurn(t)
      PROVE  UNCHANGED eventVars
  BY <1>6 DEF RegisterTurn, StagingFails, FinishTurn
<1>7. CASE WakeInVain \/ Wake \/ CancelAll \/ AtRest \/ UNCHANGED vars
  BY <1>1, <1>7 DEF WakeInVain, Wake, CancelAll, AtRest, vars
<1> QED
  BY <1>1, <1>2, <1>3, <1>4, <1>5, <1>6, <1>7 DEF Next

-----------------------------------------------------------------------------
(* What a step adds to the channel is later than what was sent.             *)
Grows ==
    /\ Len(chan') \in Nat /\ Len(chan) <= Len(chan')
    /\ \A k \in 1..Len(chan) : chan'[k] = chan[k]
    /\ \A k \in 1..Len(chan') : k > Len(chan) /\ chan'[k] # Ping =>
         chan'[k] \in Event /\ chan'[k][2] > sent[chan'[k][1]]
    /\ \A t \in Source : sent[t] <= sent'[t] /\ sent'[t] \in Nat

(* No step takes an event out of a channel or changes one.                  *)
LEMMA ChannelGrows == TypeOK /\ [Next]_vars => Grows
<1> SUFFICES ASSUME TypeOK, [Next]_vars PROVE Grows
  OBVIOUS
<1> USE CapacityAssumption
<1>a. Len(chan) \in Nat /\ \A t \in Source : sent[t] \in Nat
  BY LenProperties DEF TypeOK
<1>1. CASE UNCHANGED <<chan, sent>>
  BY <1>a, <1>1 DEF Grows
<1>2. ASSUME NEW t \in Source, Send(t) PROVE Grows
  <2> DEFINE e == <<t, sent[t] + 1>>
  <2>1. e \in Event /\ e \in Event \cup {Ping} /\ e[1] = t /\ e[2] = sent[t] + 1 /\ sent[t] \in Nat
    BY <1>2 DEF TypeOK, Send, Event
  <2>2. chan' = Append(chan, e) /\ sent' = [sent EXCEPT ![t] = @ + 1]
    BY <1>2 DEF Send
  <2> HIDE DEF e
  <2>3. chan \in Seq(Event \cup {Ping}) /\ sent \in [Source -> 0..MaxEvent]
    BY DEF TypeOK
  <2>4. /\ Len(chan') = Len(chan) + 1 /\ chan'[Len(chan) + 1] = e
        /\ \A k \in 1..Len(chan) : chan'[k] = chan[k]
    BY <2>1, <2>2, <2>3, AppendProperties
  <2>5. \A u \in Source : sent[u] <= sent'[u] /\ sent'[u] \in Nat
    BY <2>1, <2>2, <2>3
  <2>6. \A k \in 1..Len(chan') : k > Len(chan) => k = Len(chan) + 1
    BY <1>a, <2>4
  <2>7. e[2] > sent[e[1]]
    BY <2>1
  <2>8. Len(chan') \in Nat /\ Len(chan) <= Len(chan')
    BY <1>a, <2>4
  <2>9. \A k \in 1..Len(chan') : k > Len(chan) => chan'[k] = e
    BY <2>4, <2>6
  <2> QED
    BY <2>1, <2>4, <2>5, <2>7, <2>8, <2>9 DEF Grows
<1>3. CASE SendPing
  <2>1. chan' = Append(chan, Ping) /\ sent' = sent /\ chan \in Seq(Event \cup {Ping})
    BY <1>3 DEF SendPing, TypeOK
  <2>2. /\ Len(chan') = Len(chan) + 1 /\ chan'[Len(chan) + 1] = Ping
        /\ \A k \in 1..Len(chan) : chan'[k] = chan[k]
    BY <2>1, AppendProperties
  <2>3. \A k \in 1..Len(chan') : k > Len(chan) => k = Len(chan) + 1
    BY <1>a, <2>2
  <2>4. Len(chan') \in Nat /\ Len(chan) <= Len(chan')
    BY <1>a, <2>2
  <2> QED
    BY <1>a, <2>1, <2>2, <2>3, <2>4 DEF Grows
<1>4. ASSUME NEW c \in Client,
             \/ Connect(c) \/ Socket(c) \/ Disconnect(c)
             \/ \E t \in Turn : RequestTurn(c, t) \/ CancelTurn(c, t)
      PROVE  UNCHANGED <<chan, sent>>
  BY <1>4 DEF Connect, Socket, Snapshot, Replay, Subscribe, Forward, Lagged, Disconnect,
              RequestTurn, CancelTurn, eventVars
<1>5. ASSUME NEW t \in Turn, RegisterTurn(t) \/ StagingFails(t) \/ FinishTurn(t)
      PROVE  UNCHANGED <<chan, sent>>
  BY <1>5 DEF RegisterTurn, StagingFails, FinishTurn, eventVars
<1>7. ASSUME NEW s \in Source, Tee(s) PROVE UNCHANGED <<chan, sent>>
  BY <1>7 DEF Tee
<1>6. CASE WakeInVain \/ Wake \/ CancelAll \/ AtRest \/ UNCHANGED vars
  BY <1>1, <1>6 DEF WakeInVain, Wake, CancelAll, AtRest, vars, eventVars
<1> QED
  BY <1>1, <1>2, <1>3, <1>4, <1>5, <1>6, <1>7 DEF Next

(* A step of somebody else leaves a client's stream as it is.               *)
LEMMA StreamFrame ==
    ASSUME TypeOK, Histories, Grows, NEW c \in Client, Stream(c),
           socket'[c] = socket[c], got'[c] = got[c], ringed'[c] = ringed[c],
           heard'[c] = heard[c]
    PROVE  Stream(c)'
<1>0. /\ Len(chan) \in Nat /\ socket[c].cursor \in 0..Len(chan) /\ heard[c] \in Nat
      /\ ringed[c].sent \in [Source -> Nat] /\ ringed[c].teed \in [Source -> Nat]
      /\ sent \in [Source -> Nat]
  BY LenProperties, CapacityAssumption DEF TypeOK, Histories
<1>1. Copied(c) => Copied(c)'
  <2> SUFFICES ASSUME Copied(c) PROVE Copied(c)'
    OBVIOUS
  <2>1. \A t \in Source : ringed[c].sent[t] <= sent'[t]
    BY <1>0 DEF Copied, Grows
  <2> QED
    BY <2>1 DEF Copied, Ordered
<1>2. Replaying(c) => Replaying(c)'
  BY DEF Replaying
<1>3. Forwarded(c) /\ Copied(c) => Forwarded(c)'
  <2> SUFFICES ASSUME Forwarded(c), Copied(c) PROVE Forwarded(c)'
    OBVIOUS
  <2>1. \A i \in 1..socket[c].cursor : i \in 1..Len(chan) /\ chan'[i] = chan[i]
    BY <1>0 DEF Grows
  <2>2. ASSUME NEW i \in 1..Len(chan'), i > heard[c], chan'[i] # Ping
        PROVE  chan'[i][2] > ringed[c].sent[chan'[i][1]]
    <3>1. CASE i \in 1..Len(chan)
      <4>1. chan'[i] = chan[i]
        BY <3>1 DEF Grows
      <4> QED
        BY <2>2, <3>1, <4>1 DEF Forwarded
    <3>2. CASE i > Len(chan)
      <4>1. chan'[i] \in Event /\ chan'[i][2] > sent[chan'[i][1]]
        BY <2>2, <3>2 DEF Grows
      <4>2. chan'[i][1] \in Source /\ chan'[i][2] \in Nat
        BY <4>1, EventParts
      <4>3. ringed[c].sent[chan'[i][1]] <= sent[chan'[i][1]]
        BY <4>2 DEF Copied
      <4>4. ringed[c].sent[chan'[i][1]] \in Nat /\ sent[chan'[i][1]] \in Nat
        BY <1>0, <4>2
      <4> QED
        BY <4>1, <4>2, <4>3, <4>4
    <3> QED
      BY <1>0, <3>1, <3>2 DEF Grows
  <2> QED
    BY <2>1, <2>2 DEF Forwarded
<1> QED
  BY <1>1, <1>2, <1>3 DEF Stream

(* The copy of the ring.                                                    *)
LEMMA SnapshotStream ==
    ASSUME TypeOK, Streams, NEW c \in Client, Snapshot(c)
    PROVE  Stream(c)' /\ Histories'
<1> USE CapacityAssumption
<1>1. /\ socket'[c].at = "replay" /\ socket'[c].snap = ring
      /\ ringed'[c].kept = ring /\ ringed'[c].teed = teed /\ ringed'[c].sent = sent
      /\ got' = got /\ sent' = sent /\ heard' = heard
  BY DEF Snapshot, TypeOK, Streams, Histories, eventVars
<1>2. got[c] = <<>> /\ Len(got[c]) = 0
  BY EmptySeq DEF Snapshot, Streams, Stream
<1>3. ring \in Seq(Event) /\ Len(ring) \in Nat /\ \A t \in Source : sent[t] \in Nat
  BY LenProperties DEF TypeOK
<1>4. Copied(c)'
  <2>1. \A t \in Source : sent[t] <= sent[t]
    BY <1>3
  <2> QED
    BY <1>1, <2>1 DEF Copied, Streams, Published, Ordered
<1>5. Replaying(c)'
  <2>1. \A i \in 1..Len(ring) : 0 + i = i
    BY <1>3
  <2>2. 0 + Len(ring) = Len(ring)
    BY <1>3
  <2>3. \A i \in 1..Len(got[c]) : FALSE
    BY <1>2
  <2> QED
    BY <1>1, <1>2, <2>1, <2>2, <2>3 DEF Replaying
<1>6. [kept |-> ring, teed |-> teed, sent |-> sent]
         \in [kept : Seq(Event), teed : [Source -> Nat], sent : [Source -> Nat]]
  <2>1. teed \in [Source -> Nat] /\ sent \in [Source -> Nat]
    BY DEF TypeOK
  <2> QED
    BY <1>3, <2>1
<1>7. Histories'
  BY <1>6 DEF Snapshot, Streams, Histories
<1> QED
  BY <1>1, <1>4, <1>5, <1>7 DEF Stream

(* One envelope of the copy.                                                *)
LEMMA ReplayStream ==
    ASSUME TypeOK, Streams, NEW c \in Client, Replay(c)
    PROVE  Stream(c)' /\ Histories'
<1> DEFINE n == Len(got[c])
           snap == socket[c].snap
           e == Head(snap)
<1>1. /\ socket'[c].at = "replay" /\ socket'[c].snap = Tail(snap)
      /\ ringed' = ringed /\ sent' = sent /\ heard' = heard
      /\ got' = [got EXCEPT ![c] = Append(got[c], e)] /\ got'[c] = Append(got[c], e)
  BY DEF Replay, TypeOK, Streams, Histories, eventVars
<1>2. Copied(c) /\ Replaying(c)
  BY DEF Replay, Streams, Stream
<1>3. snap \in Seq(Event) /\ snap # <<>> /\ got[c] \in Seq(Event) /\ ringed[c].kept \in Seq(Event)
  BY DEF Replay, TypeOK, Streams, Histories
<1>4. /\ e \in Event /\ Tail(snap) \in Seq(Event) /\ Len(Tail(snap)) = Len(snap) - 1
      /\ \A i \in 1..Len(Tail(snap)) : Tail(snap)[i] = snap[i + 1]
      /\ e = snap[1] /\ Len(snap) \in Nat \ {0}
  BY <1>3, HeadTailProperties, EmptySeq
<1>5. /\ got'[c] \in Seq(Event) /\ Len(got'[c]) = n + 1 /\ got'[c][n + 1] = e
      /\ \A i \in 1..n : got'[c][i] = got[c][i]
  BY <1>1, <1>3, <1>4, AppendProperties
<1>6. n \in Nat
  BY <1>3, LenProperties
<1>7. n + Len(snap) = Len(ringed[c].kept)
  BY <1>2 DEF Replaying
<1>8. /\ \A i \in 1..n : got[c][i] = ringed[c].kept[i]
      /\ \A i \in 1..Len(snap) : snap[i] = ringed[c].kept[n + i]
  BY <1>2 DEF Replaying
<1> HIDE DEF n, snap, e
<1>9. Len(got'[c]) + Len(Tail(snap)) = Len(ringed[c].kept)
  BY SMTT(30), <1>4, <1>5, <1>6, <1>7
<1>10. \A i \in 1..Len(got'[c]) : got'[c][i] = ringed[c].kept[i]
  <2>1. e = ringed[c].kept[n + 1]
    BY <1>4, <1>8
  <2>2. \A i \in 1..Len(got'[c]) : i \in 1..n \/ i = n + 1
    BY <1>5, <1>6
  <2> QED
    BY <1>5, <1>8, <2>1, <2>2
<1>11. \A i \in 1..Len(Tail(snap)) : Tail(snap)[i] = ringed[c].kept[Len(got'[c]) + i]
  <2> SUFFICES ASSUME NEW i \in 1..Len(Tail(snap))
               PROVE  Tail(snap)[i] = ringed[c].kept[Len(got'[c]) + i]
    OBVIOUS
  <2>1. i + 1 \in 1..Len(snap) /\ n + (i + 1) = (n + 1) + i
    BY <1>4, <1>6
  <2>2. Tail(snap)[i] = snap[i + 1]
    BY <1>4
  <2>3. snap[i + 1] = ringed[c].kept[n + (i + 1)]
    BY <1>8, <2>1
  <2> QED
    BY <1>5, <2>1, <2>2, <2>3
<1>12. Replaying(c)'
  BY <1>1, <1>9, <1>10, <1>11 DEF Replaying
<1>13. Copied(c)'
  BY <1>1, <1>2 DEF Copied, Ordered
<1>14. Histories'
  BY <1>1, <1>5 DEF Histories, Streams
<1> QED
  BY <1>1, <1>12, <1>13, <1>14 DEF Stream

(* The subscription, once the copy is through.                              *)
LEMMA SubscribeStream ==
    ASSUME TypeOK, Streams, NEW c \in Client, Subscribe(c)
    PROVE  Stream(c)' /\ Histories'
<1>1. /\ socket'[c].at = "live" /\ socket'[c].cursor = Len(chan)
      /\ ringed' = ringed /\ sent' = sent /\ chan' = chan /\ got' = got
      /\ heard' = [heard EXCEPT ![c] = Len(chan)] /\ heard'[c] = Len(chan)
  BY DEF Subscribe, TypeOK, Streams, Histories, eventVars
<1>2. Copied(c) /\ Replaying(c) /\ socket[c].snap = <<>>
  BY DEF Subscribe, Streams, Stream
<1>3. got[c] \in Seq(Event) /\ ringed[c].kept \in Seq(Event)
  BY DEF Streams, Histories
<1>4. Len(chan) \in Nat /\ Len(got[c]) \in Nat /\ Len(socket[c].snap) = 0
  BY <1>2, <1>3, LenProperties, EmptySeq DEF TypeOK
<1>5. Len(got[c]) = Len(ringed[c].kept)
  BY <1>2, <1>4 DEF Replaying
<1>6. \A i \in 1..Len(chan) : ~(i > Len(chan))
  BY <1>4
<1>7. \A i \in 1..Len(got[c]) : ~(i > Len(ringed[c].kept)) /\ ~(Len(ringed[c].kept) < i)
  BY <1>4, <1>5
<1>8. \A i \in 1..Len(ringed[c].kept) : got[c][i] = ringed[c].kept[i]
  BY <1>2, <1>5 DEF Replaying
<1>9. Len(chan) <= Len(chan) /\ Len(ringed[c].kept) <= Len(got[c])
  BY <1>4, <1>5
<1>10. Forwarded(c)'
  BY <1>1, <1>6, <1>7, <1>8, <1>9 DEF Forwarded
<1>11. Copied(c)'
  BY <1>1, <1>2 DEF Copied, Ordered
<1>12. Histories'
  BY <1>1, <1>4 DEF Histories, Streams
<1> QED
  BY <1>1, <1>10, <1>11, <1>12 DEF Stream

(* The forwarder: the next event is later than all it has passed on.        *)
LEMMA ForwardStream ==
    ASSUME TypeOK, Streams, NEW c \in Client, Forward(c)
    PROVE  Stream(c)' /\ Histories'
<1> USE CapacityAssumption
<1> DEFINE k == socket[c].cursor + 1
           e == chan[k]
           m == Len(ringed[c].kept)
           n == Len(got[c])
<1>1. /\ socket'[c].at = "live" /\ socket'[c].cursor = k
      /\ ringed' = ringed /\ sent' = sent /\ chan' = chan /\ heard' = heard
      /\ got' = IF e = Ping THEN got ELSE [got EXCEPT ![c] = Append(got[c], e)]
  BY DEF Forward, TypeOK, Streams, Histories, eventVars
<1>2. Copied(c) /\ Forwarded(c)
  BY DEF Forward, Streams, Stream
<1>3. got[c] \in Seq(Event) /\ ringed[c].kept \in Seq(Event) /\ heard[c] \in Nat
  BY DEF Streams, Histories
<1>4. Len(chan) \in Nat /\ n \in Nat /\ m \in Nat /\ socket[c].cursor \in Nat
  BY <1>3, LenProperties DEF TypeOK
<1>5. k \in 1..Len(chan) /\ k > heard[c] /\ k \in Nat
  BY SMTT(30), <1>2, <1>3, <1>4 DEF Forward, Forwarded
<1>6. Copied(c)'
  BY <1>1, <1>2 DEF Copied, Ordered
<1>7. \A i \in 1..socket[c].cursor : i \in 1..k
  BY <1>4
<1>8. \A i \in 1..k : i \in 1..socket[c].cursor \/ i = k
  BY <1>4
<1>9. heard[c] <= k
  BY <1>3, <1>5
<1>10. CASE e = Ping
  <2>1. got' = got
    BY <1>1, <1>10
  <2>2. \A i \in 1..k : i > heard[c] /\ chan[i] # Ping =>
          \E j \in 1..Len(got[c]) : got[c][j] = chan[i]
    BY <1>2, <1>8, <1>10 DEF Forwarded
  <2>3. \A j \in 1..Len(got[c]) : j > m =>
          \E i \in 1..k : i > heard[c] /\ chan[i] = got[c][j]
    BY <1>2, <1>7 DEF Forwarded
  <2> HIDE DEF k
  <2>4. Forwarded(c)'
    BY <1>1, <1>2, <1>9, <2>1, <2>2, <2>3 DEF Forwarded
  <2>5. Histories'
    BY <1>1, <2>1 DEF Histories, Streams
  <2> QED
    BY <1>1, <1>6, <2>4, <2>5 DEF Stream
<1>11. CASE e # Ping
  <2>1. e \in Event
    BY <1>5, <1>11, ChanParts
  <2>2. got' = [got EXCEPT ![c] = Append(got[c], e)] /\ got'[c] = Append(got[c], e)
    BY <1>1, <1>11 DEF Streams, Histories
  <2>3. /\ got'[c] \in Seq(Event) /\ Len(got'[c]) = n + 1 /\ got'[c][n + 1] = e
        /\ \A i \in 1..n : got'[c][i] = got[c][i]
    BY <1>3, <2>1, <2>2, AppendProperties
  <2>4. m <= n
    BY <1>2 DEF Forwarded
  <2>5. /\ \A i \in 1..Len(got'[c]) : i \in 1..n \/ i = n + 1
        /\ \A i \in 1..n : i \in 1..Len(got'[c])
        /\ n + 1 \in 1..Len(got'[c])
        /\ \A i \in 1..m : i \in 1..n
    BY <1>4, <2>3, <2>4
  <2>6. /\ \A i \in 1..m : got[c][i] = ringed[c].kept[i]
        /\ \A i \in 1..Len(chan) : i > heard[c] /\ chan[i] # Ping =>
              chan[i][2] > ringed[c].sent[chan[i][1]]
        /\ \A j \in 1..n : j > m =>
              \E i \in 1..socket[c].cursor : i > heard[c] /\ chan[i] = got[c][j]
        /\ \A i \in 1..socket[c].cursor : i > heard[c] /\ chan[i] # Ping =>
              \E j \in 1..n : got[c][j] = chan[i]
        /\ \A i, j \in 1..n :
              m < i /\ i < j /\ got[c][i][1] = got[c][j][1] => got[c][i][2] < got[c][j][2]
    BY <1>2 DEF Forwarded
  <2>7. \A i \in 1..socket[c].cursor : i < k /\ i \in 1..Len(chan)
    BY <1>4, <1>5
  <2>8. \A j \in 1..n : j > m /\ got[c][j][1] = e[1] => got[c][j][2] < e[2]
    <3> SUFFICES ASSUME NEW j \in 1..n, j > m, got[c][j][1] = e[1] PROVE got[c][j][2] < e[2]
      OBVIOUS
    <3>1. PICK i \in 1..socket[c].cursor : i > heard[c] /\ chan[i] = got[c][j]
      BY <2>6
    <3>2. chan[i] # Ping
      BY <1>3, <3>1, ElementOfSeq, EventParts
    <3>3. i \in 1..Len(chan) /\ i < k
      BY <2>7
    <3> QED
      BY <1>5, <1>11, <3>1, <3>2, <3>3 DEF Streams, Published, Ordered
  <2> HIDE DEF k, e, m, n
  <2>9. m <= Len(got'[c])
    BY <1>4, <2>3, <2>4
  <2>10. \A i \in 1..m : got'[c][i] = ringed[c].kept[i]
    BY <2>3, <2>5, <2>6
  <2>11. \A j \in 1..Len(got'[c]) : j > m =>
           \E i \in 1..k : i > heard[c] /\ chan[i] = got'[c][j]
    <3> SUFFICES ASSUME NEW j \in 1..Len(got'[c]), j > m
                 PROVE  \E i \in 1..k : i > heard[c] /\ chan[i] = got'[c][j]
      OBVIOUS
    <3>1. CASE j \in 1..n
      BY <1>7, <2>3, <2>6, <3>1
    <3>2. CASE j = n + 1
      <4>1. k \in 1..k
        BY <1>5
      <4>2. chan[k] = got'[c][j]
        BY <2>3, <3>2 DEF e
      <4> QED
        BY <1>5, <4>1, <4>2
    <3> QED
      BY <2>5, <3>1, <3>2
  <2>12. \A i \in 1..k : i > heard[c] /\ chan[i] # Ping =>
           \E j \in 1..Len(got'[c]) : got'[c][j] = chan[i]
    <3> SUFFICES ASSUME NEW i \in 1..k, i > heard[c], chan[i] # Ping
                 PROVE  \E j \in 1..Len(got'[c]) : got'[c][j] = chan[i]
      OBVIOUS
    <3>1. CASE i \in 1..socket[c].cursor
      <4>1. PICK j \in 1..n : got[c][j] = chan[i]
        BY <2>6, <3>1
      <4> QED
        BY <2>3, <2>5, <4>1
    <3>2. CASE i = k
      <4>1. got'[c][n + 1] = chan[i]
        BY <2>3, <3>2 DEF e
      <4> QED
        BY <2>5, <4>1
    <3> QED
      BY <1>8, <3>1, <3>2
  <2>13. \A i, j \in 1..Len(got'[c]) :
           m < i /\ i < j /\ got'[c][i][1] = got'[c][j][1] => got'[c][i][2] < got'[c][j][2]
    <3> SUFFICES ASSUME NEW i \in 1..Len(got'[c]), NEW j \in 1..Len(got'[c]),
                        m < i, i < j, got'[c][i][1] = got'[c][j][1]
                 PROVE  got'[c][i][2] < got'[c][j][2]
      OBVIOUS
    <3>1. i \in 1..n /\ i > m
      BY <1>4, <2>3
    <3>2. got'[c][i] = got[c][i]
      BY <2>3, <3>1
    <3>3. CASE j \in 1..n
      <4>1. got'[c][j] = got[c][j]
        BY <2>3, <3>3
      <4> QED
        BY <2>6, <3>1, <3>2, <3>3, <4>1
    <3>4. CASE j = n + 1
      BY <2>3, <2>8, <3>1, <3>2, <3>4
    <3> QED
      BY <2>5, <3>3, <3>4
  <2>14. Forwarded(c)'
    BY <1>1, <1>9, <2>6, <2>9, <2>10, <2>11, <2>12, <2>13 DEF Forwarded, m
  <2>15. Histories'
    BY <1>1, <2>2, <2>3 DEF Histories, Streams
  <2> QED
    BY <1>1, <1>6, <2>14, <2>15 DEF Stream
<1> QED
  BY <1>10, <1>11

(* A new socket, a forwarder that gave up, and a socket that is closed.     *)
LEMMA EdgeStream ==
    ASSUME TypeOK, Streams, NEW c \in Client, Connect(c) \/ Lagged(c) \/ Disconnect(c)
    PROVE  Stream(c)' /\ Histories'
<1>1. CASE Connect(c)
  <2>1. socket'[c].at = "hello" /\ socket[c].at = "closed" /\ UNCHANGED <<got, ringed, heard>>
    BY <1>1 DEF Connect, TypeOK, Closed
  <2> QED
    BY <2>1 DEF Streams, Stream, Histories
<1>2. CASE Lagged(c)
  <2>1. /\ socket'[c].at = "deaf" /\ socket[c].at = "live"
        /\ socket'[c].cursor = socket[c].cursor
        /\ UNCHANGED <<got, ringed, heard, sent, chan>>
    BY <1>2 DEF Lagged, TypeOK, histVars, eventVars
  <2>2. Copied(c) /\ Forwarded(c)
    BY <2>1 DEF Streams, Stream
  <2>3. Copied(c)'
    BY <2>1, <2>2 DEF Copied, Ordered
  <2>4. Forwarded(c)'
    BY <2>1, <2>2 DEF Forwarded
  <2> QED
    BY <2>1, <2>3, <2>4 DEF Stream, Streams, Histories
<1>3. CASE Disconnect(c)
  <2>1. socket'[c].at = "closed" /\ got'[c] = <<>>
    BY <1>3 DEF Disconnect, TypeOK, Closed, Streams, Histories
  <2>2. <<>> \in Seq(Event) /\ 0 \in Nat
        /\ NoCopy \in [kept : Seq(Event), teed : [Source -> Nat], sent : [Source -> Nat]]
    BY EmptySeq DEF NoCopy
  <2>3. Histories'
    BY <1>3, <2>2 DEF Disconnect, Streams, Histories
  <2> QED
    BY <2>1, <2>3 DEF Stream
<1> QED
  BY <1>1, <1>2, <1>3

(* Every step keeps every client's stream.                                  *)
LEMMA StreamsStep == TypeOK /\ Streams /\ [Next]_vars => Streams'
<1> SUFFICES ASSUME TypeOK, Streams, [Next]_vars PROVE Streams'
  OBVIOUS
<1>1. Published' /\ Grows
  BY PublishedStep, ChannelGrows DEF Streams
<1>2. CASE UNCHANGED <<socket, got, ringed, heard>>
  <2>1. Histories'
    BY <1>2 DEF Streams, Histories
  <2>2. \A d \in Client : Stream(d)'
    BY <1>1, <1>2, StreamFrame DEF Streams
  <2> QED
    BY <1>1, <2>1, <2>2 DEF Streams
<1>3. ASSUME NEW c \in Client, Connect(c) \/ Socket(c) \/ Disconnect(c) PROVE Streams'
  <2>1. Stream(c)' /\ Histories'
    BY <1>3, SnapshotStream, ReplayStream, SubscribeStream, ForwardStream, EdgeStream
       DEF Socket
  <2>2. ASSUME NEW d \in Client, d # c PROVE Stream(d)'
    <3>1. /\ socket'[d] = socket[d] /\ got'[d] = got[d] /\ ringed'[d] = ringed[d]
          /\ heard'[d] = heard[d]
      <4>1. CASE Connect(c)
        BY <2>2, <4>1 DEF Connect, TypeOK
      <4>2. CASE Snapshot(c)
        BY <2>2, <4>2 DEF Snapshot, TypeOK, Streams, Histories
      <4>3. CASE Replay(c)
        BY <2>2, <4>3 DEF Replay, TypeOK, Streams, Histories
      <4>4. CASE Subscribe(c)
        BY <2>2, <4>4 DEF Subscribe, TypeOK, Streams, Histories
      <4>5. CASE Forward(c)
        BY <2>2, <4>5 DEF Forward, TypeOK, Streams, Histories
      <4>6. CASE Lagged(c)
        BY <2>2, <4>6 DEF Lagged, TypeOK, histVars
      <4>7. CASE Disconnect(c)
        BY <2>2, <4>7 DEF Disconnect, TypeOK, Streams, Histories
      <4> QED
        BY <1>3, <4>1, <4>2, <4>3, <4>4, <4>5, <4>6, <4>7 DEF Socket
    <3> QED
      BY <1>1, <3>1, StreamFrame DEF Streams
  <2> QED
    BY <1>1, <2>1, <2>2 DEF Streams
<1>4. ASSUME NEW c \in Client, NEW t \in Turn, RequestTurn(c, t) \/ CancelTurn(c, t)
      PROVE  UNCHANGED <<socket, got, ringed, heard>>
  BY <1>4 DEF RequestTurn, CancelTurn, socketVars, histVars
<1>5. ASSUME NEW t \in Turn, RegisterTurn(t) \/ StagingFails(t) \/ FinishTurn(t)
      PROVE  UNCHANGED <<socket, got, ringed, heard>>
  BY <1>5 DEF RegisterTurn, StagingFails, FinishTurn, socketVars, histVars
<1>7. ASSUME NEW s \in Source, Tee(s) \/ Send(s)
      PROVE  UNCHANGED <<socket, got, ringed, heard>>
  BY <1>7 DEF Tee, Send, socketVars, histVars
<1>6. CASE SendPing \/ WakeInVain \/ Wake \/ CancelAll \/ AtRest \/ UNCHANGED vars
  BY <1>2, <1>6 DEF SendPing, WakeInVain, Wake, CancelAll, AtRest, vars, socketVars, histVars
<1> QED
  BY <1>2, <1>3, <1>4, <1>5, <1>6, <1>7 DEF Next

(* Nobody is connected at first.                                            *)
LEMMA StreamsInit == Init => Streams
<1> SUFFICES ASSUME Init PROVE Streams
  OBVIOUS
<1>1. Published
  <2>1. \A i \in 1..Len(<<>>) : FALSE
    BY EmptySeq
  <2>2. \A t \in Source : 0 <= 0 + 1
    OBVIOUS
  <2> QED
    BY <2>1, <2>2 DEF Init, Published, Ordered
<1>2. /\ <<>> \in Seq(Event) /\ 0 \in Nat
      /\ NoCopy \in [kept : Seq(Event), teed : [Source -> Nat], sent : [Source -> Nat]]
  BY EmptySeq DEF NoCopy
<1>3. Histories
  BY <1>2 DEF Init, Histories
<1>4. \A c \in Client : Stream(c)
  BY DEF Init, Stream, Closed
<1> QED
  BY <1>1, <1>3, <1>4 DEF Streams

(* The streams stay in order.                                               *)
LEMMA StreamsHold == Spec => [](TypeOK /\ Streams)
<1>1. TypeOK /\ OrphansWatched /\ Streams /\ [Next]_vars
        => (TypeOK /\ OrphansWatched /\ Streams)'
  BY TypeStep, WatchStep, StreamsStep
<1>2. Init => TypeOK /\ OrphansWatched /\ Streams
  BY ClientsInit, StreamsInit
<1> QED
  BY <1>1, <1>2, PTL DEF Spec

(* The events of each publisher of a turn, its worker or whoever cancels    *)
(* it, reach each client in the order in which it published them, across    *)
(* the replay and the live stream, with at most the one event twice that it *)
(* had between the ring and the channel when replay_snapshot copied the     *)
(* ring (handle_socket, publish_event).                                     *)
THEOREM ClientsNeverBack == Spec => []NeverBack
<1>1. TypeOK /\ Streams => NeverBack
  <2> SUFFICES ASSUME TypeOK, Streams, NEW c \in Client,
                      NEW i \in DOMAIN got[c], NEW j \in DOMAIN got[c],
                      i < j, got[c][i][1] = got[c][j][1]
               PROVE  \/ got[c][i][2] < got[c][j][2]
                      \/ /\ got[c][i] = got[c][j]
                         /\ i <= Len(ringed[c].kept) /\ j > Len(ringed[c].kept)
                         /\ got[c][i][2] > ringed[c].sent[got[c][i][1]]
    BY DEF NeverBack
  <2> DEFINE m == Len(ringed[c].kept)
             n == Len(got[c])
             t == got[c][i][1]
  <2>1. /\ got[c] \in Seq(Event) /\ ringed[c].kept \in Seq(Event)
        /\ ringed[c].sent \in [Source -> Nat] /\ ringed[c].teed \in [Source -> Nat]
    BY DEF Streams, Histories
  <2>2. n \in Nat /\ m \in Nat /\ i \in 1..n /\ j \in 1..n
    BY <2>1, LenProperties
  <2>3. got[c][i] \in Event /\ got[c][j] \in Event
    BY <2>1, <2>2, ElementOfSeq
  <2>4. /\ t \in Source /\ got[c][j][1] = t /\ got[c][i][2] \in Nat /\ got[c][j][2] \in Nat
        /\ got[c][i] # Ping /\ got[c][j] # Ping
    BY <2>3, EventParts
  <2>5. socket[c].at \in {"replay", "live", "deaf"}
    <3>1. got[c] # <<>>
      BY <2>2, EmptySeq
    <3> QED
      BY <3>1 DEF Streams, Stream, TypeOK
  <2>6. Copied(c) /\ (Replaying(c) \/ Forwarded(c))
    BY <2>5 DEF Streams, Stream
  <2>7. CASE j <= m
    <3>1. i \in 1..m /\ j \in 1..m
      BY <2>2, <2>7
    <3>2. got[c][i] = ringed[c].kept[i] /\ got[c][j] = ringed[c].kept[j]
      BY <2>2, <2>6, <3>1 DEF Replaying, Forwarded
    <3> QED
      BY <2>4, <2>6, <3>1, <3>2 DEF Copied, Ordered
  <2>8. CASE j > m
    <3>1. Forwarded(c)
      <4>1. CASE Replaying(c)
        <5>1. Len(socket[c].snap) \in Nat
          BY LenProperties DEF TypeOK
        <5>2. n + Len(socket[c].snap) = m
          BY <4>1 DEF Replaying
        <5> HIDE DEF n, m
        <5> QED
          BY <2>2, <2>8, <5>1, <5>2
      <4> QED
        BY <2>6, <4>1
    <3>2. CASE i > m
      BY <2>2, <2>4, <3>1, <3>2 DEF Forwarded
    <3>3. CASE i <= m
      <4>1. i \in 1..m /\ got[c][i] = ringed[c].kept[i]
        BY <2>2, <3>1, <3>3 DEF Forwarded
      <4>2. got[c][i][2] <= ringed[c].teed[t]
        BY <2>6, <4>1 DEF Copied
      <4>3. ringed[c].teed[t] <= ringed[c].sent[t] + 1
        BY <2>4, <2>6 DEF Copied
      <4>4. PICK k \in 1..socket[c].cursor : k > heard[c] /\ chan[k] = got[c][j]
        BY <2>2, <2>8, <3>1 DEF Forwarded
      <4>5. k \in 1..Len(chan)
        BY LenProperties DEF TypeOK
      <4>6. got[c][j][2] > ringed[c].sent[t]
        BY <2>4, <3>1, <4>4, <4>5 DEF Forwarded
      <4>7. ringed[c].sent[t] \in Nat /\ ringed[c].teed[t] \in Nat
        BY <2>1, <2>4
      <4>8. \/ got[c][i][2] < got[c][j][2]
            \/ got[c][i][2] = got[c][j][2] /\ got[c][i][2] > ringed[c].sent[t]
        <5> HIDE DEF t
        <5> QED
          BY <2>4, <4>2, <4>3, <4>6, <4>7
      <4>9. got[c][i][2] = got[c][j][2] => got[c][i] = got[c][j]
        BY <2>3, <2>4 DEF Event
      <4> QED
        BY <2>8, <3>3, <4>8, <4>9
    <3> QED
      BY <2>2, <3>2, <3>3
  <2> QED
    BY <2>2, <2>7, <2>8
<1> QED
  BY <1>1, StreamsHold, PTL

(* A client whose forwarder runs lacks an event that the channel carried    *)
(* only if the ring had dropped it before the copy, or if it came after the *)
(* copy and before the subscription (handle_socket).                        *)
THEOREM ClientsMissInGap == Spec => []MissedInGap
<1>1. TypeOK /\ Streams => MissedInGap
  <2> SUFFICES ASSUME TypeOK, Streams, NEW c \in Client, socket[c].at = "live",
                      NEW i \in 1..socket[c].cursor, chan[i] # Ping,
                      ~ \E j \in DOMAIN got[c] : got[c][j] = chan[i]
               PROVE  \/ /\ chan[i][2] <= ringed[c].teed[chan[i][1]]
                         /\ \A j \in DOMAIN ringed[c].kept : ringed[c].kept[j] # chan[i]
                      \/ chan[i][2] > ringed[c].teed[chan[i][1]] /\ i <= heard[c]
    BY DEF MissedInGap
  <2>1. Forwarded(c)
    BY DEF Streams, Stream
  <2>2. /\ got[c] \in Seq(Event) /\ ringed[c].kept \in Seq(Event) /\ heard[c] \in Nat
        /\ ringed[c].teed \in [Source -> Nat]
    BY DEF Streams, Histories
  <2>3. /\ DOMAIN got[c] = 1..Len(got[c]) /\ DOMAIN ringed[c].kept = 1..Len(ringed[c].kept)
        /\ Len(got[c]) \in Nat /\ Len(ringed[c].kept) \in Nat
    BY <2>2, LenProperties
  <2>4. i \in 1..Len(chan) /\ i \in Nat
    BY LenProperties DEF TypeOK
  <2>5. i <= heard[c]
    <3>1. ~(i > heard[c])
      BY <2>1, <2>3 DEF Forwarded
    <3> QED
      BY <2>2, <2>4, <3>1
  <2>6. ASSUME NEW j \in DOMAIN ringed[c].kept, ringed[c].kept[j] = chan[i] PROVE FALSE
    <3>1. j \in 1..Len(ringed[c].kept) /\ j \in 1..Len(got[c])
      BY <2>1, <2>3 DEF Forwarded
    <3>2. got[c][j] = chan[i]
      BY <2>1, <2>6, <3>1 DEF Forwarded
    <3> QED
      BY <2>3, <3>1, <3>2
  <2>7. chan[i][1] \in Source /\ chan[i][2] \in Nat
    BY <2>4, ChanParts, EventParts
  <2>8. ringed[c].teed[chan[i][1]] \in Nat
    BY <2>2, <2>7
  <2>9. chan[i][2] <= ringed[c].teed[chan[i][1]] \/ chan[i][2] > ringed[c].teed[chan[i][1]]
    BY <2>7, <2>8
  <2> QED
    BY <2>5, <2>6, <2>9
<1> QED
  BY <1>1, StreamsHold, PTL
=============================================================================
