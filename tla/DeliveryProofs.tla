--------------------------- MODULE DeliveryProofs ---------------------------
(***************************************************************************)
(* What the delivery of events in EventIngest promises: no event behind the *)
(* stored cursor is missed, none is run too often, and none is run again    *)
(* after it succeeded.                                                      *)
(*                                                                         *)
(* An event is acknowledged with its batch, and a batch only if nothing in  *)
(* it failed.  So the first part follows an event from the connector        *)
(* through the pending queue and the batch, binding by binding, to the      *)
(* queue of cursors to store; the second follows it through the places      *)
(* where it waits to be run.                                                *)
(***************************************************************************)
EXTENDS IngestProofs

(* The faults that end a stream only after its threads have come back.      *)
Orderly == Faults \subseteq {"crash", "exit"}

(* The rows x of a binding and an event need no other delivery: it has been *)
(* seen, and, where no thread is left behind, handled.                      *)
Enough(x, b, e) ==
    Gated(b, e) => /\ x # NoRows
                   /\ Orderly /\ b \notin Digest => x.completed > 0 \/ x.failed >= MaxFailed

Done(b, e) == Enough(rows[b][e], b, e)
DoneNext(b, e) == Enough(rows'[b][e], b, e)

(* No binding needs the event any more, or it will not be sent again.       *)
AllDone(e) == e \in lost \/ \A b \in Binding : Done(b, e)

Holds(s, e) == \E i \in DOMAIN s : s[i] = e

(* What the thread of r still has to do for binding b.                      *)
Waiting(r, b, e) ==
    b = r.binding /\ (Holds(r.groups[b], e) \/ Holds(r.unit, e))

Past(r, b, i) == b < r.binding \/ (b = r.binding /\ i < r.pos)

(* What a thread has passed is done or waits in its hands, unless an action *)
(* has failed.                                                              *)
Progress(r) ==
    /\ \A b \in Binding, i \in DOMAIN r.batch :
          Past(r, b, i) => Done(b, r.batch[i]) \/ Waiting(r, b, r.batch[i]) \/ r.failed
    /\ (r.at = "settle" /\ r.ok) \/ r.at = "record" =>
          \A k \in DOMAIN r.unit : k <= r.done => Done(r.binding, r.unit[k])

(* Only digest bindings leave events to a flush.                            *)
DigestOnly ==
    /\ \A b \in Binding \ Digest : digest[b] = <<>>
    /\ \A w \in Worker : work[w].role = "flush" =>
          /\ work[w].batch = <<>>
          /\ \A b \in Binding \ Digest : work[w].groups[b] = <<>>
          /\ work[w].at # "check" => work[w].binding \in Digest
    /\ \A w \in Worker : work[w].at = "record" => work[w].binding \in Digest

(* A stream has one thread, and none once it has failed or ended.  Without  *)
(* a degraded connection or a changed filter no stream is stopped that has  *)
(* one.                                                                     *)
OneThread ==
    /\ \A v, w \in Attached : v = w
    /\ Broken => Attached = {}
    /\ stream \in {"none", "ended"} => Attached = {}
    /\ Orderly =>
          /\ \A w \in Worker : work[w].role # "detached"
          /\ conn = "degraded" => stream \in {"none", "ended"}
          /\ refresh.open /\ ~refresh.active => stream \in {"none", "ended"}
          /\ refresh.open /\ refresh.active /\ stream = "none" => conn = "active"

InHand(e) == Holds(pending, e) \/ \E w \in Attached : Holds(work[w].batch, e)

(* Behind every position that is stored, or about to be stored, all is      *)
(* done; behind every position received, all is done or under way.          *)
StoredDone == \A e \in Event : e <= cursor \/ e <= refresh.cursor => AllDone(e)

AcksDone == \A i \in DOMAIN acks, e \in Event : e <= acks[i] => AllDone(e)

BatchDone ==
    \A w \in Attached : \A i \in DOMAIN work[w].batch, e \in Event :
        e <= work[w].batch[i] => AllDone(e) \/ Holds(work[w].batch, e)

ReceivedDone ==
    ~Broken => \A e \in Event :
        e < next \/ (\E i \in DOMAIN pending : e <= pending[i]) => AllDone(e) \/ InHand(e)

Acked ==
    /\ \A w \in Worker : Progress(work[w])
    /\ DigestOnly /\ OneThread
    /\ StoredDone /\ AcksDone /\ BatchDone /\ ReceivedDone

(* What a queue holds after a push.                                         *)
LEMMA HoldsAppend ==
    ASSUME NEW s \in Seq(Event), NEW x \in Event
    PROVE  \A e : Holds(Append(s, x), e) <=> Holds(s, e) \/ e = x
<1>1. /\ DOMAIN s = 1..Len(s) /\ Len(s) \in Nat
      /\ DOMAIN Append(s, x) = 1..(Len(s) + 1)
      /\ Append(s, x)[Len(s) + 1] = x /\ \A i \in 1..Len(s) : Append(s, x)[i] = s[i]
  BY AppendProperties
<1>2. \A i : i \in 1..(Len(s) + 1) <=> i \in 1..Len(s) \/ i = Len(s) + 1
  BY <1>1
<1> QED
  BY <1>1, <1>2 DEF Holds

(* And after a batch.                                                       *)
LEMMA HoldsConcat ==
    ASSUME NEW s \in Seq(Event), NEW t \in Seq(Event)
    PROVE  \A e : Holds(s \o t, e) <=> Holds(s, e) \/ Holds(t, e)
<1>1. /\ s \o t \in Seq(Event) /\ Len(s \o t) = Len(s) + Len(t)
      /\ \A i \in 1..Len(s \o t) : (s \o t)[i] = IF i <= Len(s) THEN s[i] ELSE t[i - Len(s)]
  BY ConcatProperties
<1>2. /\ DOMAIN s = 1..Len(s) /\ DOMAIN t = 1..Len(t) /\ DOMAIN (s \o t) = 1..(Len(s) + Len(t))
      /\ Len(s) \in Nat /\ Len(t) \in Nat
  BY <1>1
<1>3. \A i \in 1..Len(s) : i \in 1..(Len(s) + Len(t)) /\ (s \o t)[i] = s[i]
  BY <1>1, <1>2
<1>4. \A i \in 1..Len(t) : i + Len(s) \in 1..(Len(s) + Len(t)) /\ (s \o t)[i + Len(s)] = t[i]
  BY <1>1, <1>2
<1>5. \A i \in 1..(Len(s) + Len(t)) :
         \/ i \in 1..Len(s) /\ (s \o t)[i] = s[i]
         \/ i - Len(s) \in 1..Len(t) /\ (s \o t)[i] = t[i - Len(s)]
  BY <1>1, <1>2
<1> QED
  BY <1>2, <1>3, <1>4, <1>5 DEF Holds

(* A row that need not be tried again stays so as the history grows.        *)
LEMMA EnoughStays ==
    ASSUME NEW x \in Rows, NEW y \in Rows, NEW b, NEW e, Later(x, y), Enough(x, b, e)
    PROVE  Enough(y, b, e)
<1>1. /\ x.running \in Nat /\ x.completed \in Nat /\ x.failed \in Nat
      /\ y.running \in Nat /\ y.completed \in Nat /\ y.failed \in Nat
  BY DEF Rows
<1>2. x.completed <= y.completed /\ x.failed <= y.failed
      /\ x.running + x.completed + x.failed <= y.running + y.completed + y.failed
  BY DEF Later
<1>3. x # NoRows => x.running # 0 \/ x.completed # 0 \/ x.failed # 0
  BY DEF Rows, NoRows
<1>4. x # NoRows => y # NoRows
  <2>1. x # NoRows => y.running # 0 \/ y.completed # 0 \/ y.failed # 0
    BY <1>1, <1>2, <1>3
  <2> QED
    BY <2>1 DEF NoRows
<1>5. x.completed > 0 \/ x.failed >= MaxFailed => y.completed > 0 \/ y.failed >= MaxFailed
  BY <1>1, <1>2, MaxFailedAssumption
<1> QED
  BY <1>4, <1>5 DEF Enough

(* A completed row need not be tried again.                                 *)
LEMMA EnoughCompleted ==
    ASSUME NEW x \in Rows, NEW b, NEW e, x.completed > 0
    PROVE  Enough(x, b, e)
<1>1. x # NoRows
  BY DEF NoRows
<1> QED
  BY <1>1 DEF Enough

(* What is done stays done.                                                 *)
LEMMA DoneStays ==
    ASSUME Typed, Typed', \A b \in Binding, e \in Event : Later(rows[b][e], rows'[b][e])
    PROVE  \A b \in Binding, e \in Event : Done(b, e) => Done(b, e)'
<1>1. \A b \in Binding, e \in Event : rows[b][e] \in Rows /\ rows'[b][e] \in Rows
  BY DEF Typed, TypeOK
<1> QED
  BY <1>1, EnoughStays DEF Done

(* What every step of the router but the last leaves alone.                 *)
LEMMA RouteKeeps ==
    ASSUME Typed, NEW w \in Worker, Route(w), ~Report(w)
    PROVE  /\ work'[w].role = work[w].role /\ work'[w].batch = work[w].batch
           /\ acks' = acks /\ (work[w].failed => work'[w].failed)
           /\ work[w].role # "idle"
<1>1. /\ work \in [Worker -> Work] /\ work[w] \in Work
  BY DEF Typed, TypeOK
<1>2. acks' = acks /\ work[w].role # "idle"
  BY DEF Route, SkipEvent, FilterEvent, CollectEvent, DispatchEvent, NextBinding, EnqueueGroup,
         RecordQueued, DispatchGroup, StartRow, RunAction, SettleRow, InBatch, AfterBatch, Routing,
         streamVars
<1>3. CASE SkipEvent(w) \/ FilterEvent(w) \/ NextBinding(w)
  <2>1. /\ work'[w].role = work[w].role /\ work'[w].batch = work[w].batch
        /\ work'[w].failed = work[w].failed
    BY <1>1, <1>3 DEF SkipEvent, FilterEvent, NextBinding, Advance, Work
  <2> QED
    BY <1>2, <2>1
<1>4. CASE CollectEvent(w) \/ DispatchEvent(w)
  <2>1. /\ work'[w].role = work[w].role /\ work'[w].batch = work[w].batch
        /\ work'[w].failed = work[w].failed
    <3>1. CASE CollectEvent(w)
      BY <1>1, <3>1 DEF CollectEvent, Advance, Work
    <3>2. CASE DispatchEvent(w)
      BY <1>1, <3>2 DEF DispatchEvent, Advance, Work
    <3> QED
      BY <1>4, <3>1, <3>2
  <2> QED
    BY <1>2, <2>1
<1>5. CASE EnqueueGroup(w) \/ DispatchGroup(w)
  <2>1. /\ work'[w].role = work[w].role /\ work'[w].batch = work[w].batch
        /\ work'[w].failed = work[w].failed
    BY <1>1, <1>5 DEF EnqueueGroup, DispatchGroup, Work
  <2> QED
    BY <1>2, <2>1
<1>6. CASE RecordQueued(w)
  BY <1>1, <1>2, <1>6 DEF RecordQueued, UnitDone, Work
<1>7. CASE StartRow(w)
  BY <1>1, <1>2, <1>7 DEF StartRow, Work
<1>8. CASE RunAction(w)
  BY <1>1, <1>2, <1>8 DEF RunAction, Work
<1>9. CASE SettleRow(w)
  BY <1>2, <1>9, SettleEffect DEF Settles
<1> QED
  BY <1>3, <1>4, <1>5, <1>6, <1>7, <1>8, <1>9 DEF Route

-----------------------------------------------------------------------------
(* Only digest bindings hand events to the flush.                           *)
LEMMA DigestOnlyStep ==
    ASSUME Typed, DigestOnly, [Next]_vars
    PROVE  DigestOnly'
<1>1. work \in [Worker -> Work] /\ digest \in [Binding -> Seq(Event)] /\ \A w \in Worker : Shape(work[w])
  BY DEF Typed, TypeOK
<1>2. ASSUME NEW w \in Worker, Route(w)
      PROVE  DigestOnly'
  <2>1. /\ work[w] \in Work /\ Shape(work[w]) /\ \A v \in Worker \ {w} : work'[v] = work[v]
        /\ work'[w] \in Work /\ work \in [Worker -> Work]
    BY <1>1, <1>2, RouteShape DEF RouteStep
  <2>2. ASSUME UNCHANGED digest, work'[w].role = work[w].role, work'[w].batch = work[w].batch,
               work[w].role = "flush" =>
                   /\ \A b \in Binding \ Digest : work'[w].groups[b] = <<>>
                   /\ work'[w].at # "check" => work'[w].binding \in Digest,
               work'[w].at = "record" => work'[w].binding \in Digest
        PROVE  DigestOnly'
    BY <2>1, <2>2 DEF DigestOnly
  <2>3. CASE SkipEvent(w) \/ FilterEvent(w) \/ CollectEvent(w) \/ DispatchEvent(w)
    <3>1. work[w].role # "flush"
      <4>1. work[w].batch # <<>>
        BY <2>1, <2>3 DEF SkipEvent, FilterEvent, CollectEvent, DispatchEvent, InBatch, Work
      <4> QED
        BY <4>1 DEF DigestOnly
    <3>2. work'[w].at # "record"
      <4>1. work[w].at = "check"
        BY <2>3 DEF SkipEvent, FilterEvent, CollectEvent, DispatchEvent, InBatch, Routing
      <4>2. CASE SkipEvent(w) \/ FilterEvent(w)
        <5>1. work'[w] = Advance(w)
          BY <2>1, <4>2 DEF SkipEvent, FilterEvent
        <5> QED
          BY <2>1, <4>1, <5>1 DEF Advance, Work
      <4>3. CASE CollectEvent(w)
        BY <2>1, <4>1, <4>3 DEF CollectEvent, Advance, Work
      <4>4. CASE DispatchEvent(w)
        BY <2>1, <4>1, <4>4 DEF DispatchEvent, Advance, Work
      <4> QED
        BY <2>3, <4>2, <4>3, <4>4
    <3>3. UNCHANGED digest
      BY <2>3 DEF SkipEvent, FilterEvent, CollectEvent, DispatchEvent, digestVars
    <3>4. ~Report(w)
      BY <2>3 DEF SkipEvent, FilterEvent, CollectEvent, DispatchEvent, InBatch, Report
    <3> QED
      BY <1>2, <2>2, <3>1, <3>2, <3>3, <3>4, RouteKeeps
  <2>4. CASE NextBinding(w)
    <3>1. /\ work'[w].role = work[w].role /\ work'[w].batch = work[w].batch
          /\ work'[w].groups = work[w].groups /\ work'[w].at = "check" /\ UNCHANGED digest
      BY <2>1, <2>4 DEF NextBinding, AfterBatch, Routing, Work, digestVars
    <3> QED
      BY <2>2, <3>1 DEF DigestOnly
  <2>5. CASE EnqueueGroup(w)
    <3>1. /\ work'[w].role = work[w].role /\ work'[w].batch = work[w].batch
          /\ work'[w].binding = work[w].binding /\ work[w].role # "flush" /\ work[w].binding \in Digest
          /\ \A b \in Binding \ {work[w].binding} : digest'[b] = digest[b]
      BY <1>1, <2>1, <2>5 DEF EnqueueGroup, Work
    <3> QED
      BY <2>1, <3>1 DEF DigestOnly
  <2>6. CASE DispatchGroup(w)
    <3>1. /\ work'[w].role = work[w].role /\ work'[w].batch = work[w].batch /\ UNCHANGED digest
          /\ work'[w].binding = work[w].binding /\ work'[w].at = "start"
          /\ work[w].binding \in Binding /\ work[w].groups[work[w].binding] # <<>>
      BY <2>1, <2>6 DEF DispatchGroup, AfterBatch, Group, Work, digestVars
    <3>2. \A b \in Binding : work'[w].groups[b] = work[w].groups[b] \/ work'[w].groups[b] = <<>>
      BY <2>1, <2>6 DEF DispatchGroup, Work
    <3>3. work[w].role = "flush" => work[w].binding \in Digest
      BY <3>1 DEF DigestOnly
    <3> QED
      BY <2>2, <3>1, <3>2, <3>3 DEF DigestOnly
  <2>7. CASE RecordQueued(w)
    <3>1. work[w].binding \in Digest
      BY <2>7 DEF RecordQueued, Routing, DigestOnly
    <3>2. /\ work'[w].binding = work[w].binding /\ work'[w].groups = work[w].groups
          /\ work'[w].role = work[w].role /\ work'[w].batch = work[w].batch /\ UNCHANGED digest
      BY <2>1, <2>7 DEF RecordQueued, UnitDone, Work, digestVars
    <3> QED
      BY <2>2, <3>1, <3>2 DEF DigestOnly
  <2>8. CASE StartRow(w) \/ RunAction(w)
    <3>1. /\ work'[w].binding = work[w].binding /\ work'[w].groups = work[w].groups
          /\ work'[w].role = work[w].role /\ work'[w].batch = work[w].batch /\ UNCHANGED digest
          /\ work[w].at # "check" /\ work'[w].at # "record"
      <4>1. CASE StartRow(w)
        BY <2>1, <4>1 DEF StartRow, Routing, Work, digestVars
      <4>2. CASE RunAction(w)
        BY <2>1, <4>2 DEF RunAction, Routing, Work, digestVars
      <4> QED
        BY <2>8, <4>1, <4>2
    <3> QED
      BY <2>2, <3>1 DEF DigestOnly
  <2>9. CASE SettleRow(w)
    <3>1. /\ work'[w].binding = work[w].binding /\ work'[w].groups = work[w].groups
          /\ work'[w].role = work[w].role /\ work'[w].batch = work[w].batch
          /\ work[w].at = "settle" /\ work'[w].at # "record"
      BY <2>9, SettleEffect DEF Settles
    <3>2. UNCHANGED digest
      BY <2>9 DEF SettleRow, digestVars
    <3> QED
      BY <2>2, <3>1, <3>2 DEF DigestOnly
  <2>10. CASE Report(w)
    <3>1. work'[w].role = "idle" /\ work'[w].at = "check" /\ UNCHANGED digest
      BY <2>1, <2>10 DEF Report, IdleWork, digestVars
    <3> QED
      BY <2>1, <3>1 DEF DigestOnly
  <2> QED
    BY <1>2, <2>3, <2>4, <2>5, <2>6, <2>7, <2>8, <2>9, <2>10 DEF Route
<1>3. ASSUME NEW w \in Worker, TakeBatch(w)
      PROVE  DigestOnly'
  <2>1. /\ work'[w].role = "stream" /\ work'[w].at = "check" /\ UNCHANGED digest
        /\ \A v \in Worker \ {w} : work'[v] = work[v]
    BY <1>1, <1>3 DEF TakeBatch, IdleWork, digestVars
  <2> QED
    BY <2>1 DEF DigestOnly
<1>4. ASSUME NEW w \in Worker, Flush(w)
      PROVE  DigestOnly'
  <2>1. /\ work'[w].role = "flush" /\ work'[w].at = "check" /\ work'[w].batch = <<>>
        /\ work'[w].groups = digest /\ digest' = NoGroups
        /\ \A v \in Worker \ {w} : work'[v] = work[v]
    BY <1>1, <1>4 DEF Flush, IdleWork
  <2> QED
    BY <2>1 DEF DigestOnly, NoGroups
<1>5. CASE Stream \/ Refresh \/ Recover \/ ConnectorExits \/ Degrade
  <2>1. UNCHANGED digest /\ (UNCHANGED work \/ work' = Detached)
    BY <1>5 DEF Stream, ReceiveEvent, ReceiveCheckpoint, ApplyAck, StreamEnds, Refresh, List,
           StartStream, LeaveStream, StopStream, RestartStream, Recover, ConnectorExits, Degrade,
           digestVars
  <2>2. \A v \in Worker : work'[v] = work[v]
                       \/ (work'[v].role = "detached" /\ work'[v].at = work[v].at
                           /\ work'[v].binding = work[v].binding)
    BY <1>1, <2>1 DEF Detached, Work
  <2> QED
    BY <2>1, <2>2 DEF DigestOnly
<1>6. CASE Crash
  BY <1>6 DEF Crash, DigestOnly, NoGroups, IdleWork
<1>7. CASE UNCHANGED vars
  BY <1>7 DEF vars, digestVars, DigestOnly
<1> QED
  BY <1>2, <1>3, <1>4, <1>5, <1>6, <1>7 DEF Next

(* Without a degraded connection or a changed filter a stream is stopped    *)
(* only once no thread works for it.                                        *)
LEMMA OneThreadStep ==
    ASSUME Typed, OneThread, [Next]_vars
    PROVE  OneThread'
<1>1. /\ work \in [Worker -> Work] /\ acks \in Seq(Event \cup {Failure})
      /\ stream \in {"none", "up", "draining", "ended"} /\ refresh \in Listed
      /\ conn \in {"active", "degraded"}
  BY DEF Typed, TypeOK
<1>2. ASSUME NEW w \in Worker, Route(w)
      PROVE  OneThread'
  <2>1. \A v \in Worker \ {w} : work'[v] = work[v]
    BY <1>1, <1>2, RouteShape DEF RouteStep
  <2>2. UNCHANGED <<stream, conn, refresh>>
    BY <1>2 DEF Route, SkipEvent, FilterEvent, CollectEvent, DispatchEvent, NextBinding,
           EnqueueGroup, RecordQueued, DispatchGroup, StartRow, RunAction, SettleRow, Report,
           streamVars, connVars
  <2>3. CASE ~Report(w)
    <3>1. work'[w].role = work[w].role /\ UNCHANGED acks
      BY <1>2, <2>3, RouteKeeps
    <3>2. \A v \in Worker : work'[v].role = work[v].role
      BY <2>1, <3>1
    <3>3. Attached' = Attached /\ Broken' = Broken
      BY <3>1, <3>2 DEF Attached, Broken
    <3> QED
      BY <2>2, <3>2, <3>3 DEF OneThread
  <2>4. CASE Report(w)
    <3>1. work'[w].role = "idle"
      BY <1>1, <2>4 DEF Report, IdleWork
    <3>2. Attached' = Attached \ {w}
      BY <2>1, <3>1 DEF Attached
    <3>3. w \in Attached => Attached' = {}
      BY <3>2 DEF OneThread
    <3>4. w \notin Attached => acks' = acks /\ Attached' = Attached
      BY <2>4, <3>2 DEF Report, Attached
    <3>5. Broken' => Attached' = {}
      BY <3>3, <3>4 DEF Broken, OneThread
    <3> QED
      BY <2>1, <2>2, <3>1, <3>2, <3>5 DEF OneThread
  <2> QED
    BY <2>3, <2>4
<1>3. ASSUME NEW w \in Worker, TakeBatch(w)
      PROVE  OneThread'
  <2>1. /\ work'[w].role = "stream" /\ \A v \in Worker \ {w} : work'[v] = work[v]
        /\ UNCHANGED <<stream, conn, refresh, acks>> /\ Attached = {} /\ ~Broken
        /\ stream \in {"up", "draining"}
    BY <1>1, <1>3 DEF TakeBatch, IdleWork, connVars
  <2>2. Attached' = {w} /\ ~Broken'
    BY <2>1 DEF Attached, Broken
  <2> QED
    BY <2>1, <2>2 DEF OneThread
<1>4. ASSUME NEW w \in Worker, Flush(w)
      PROVE  OneThread'
  <2>1. /\ work'[w].role = "flush" /\ work[w].role = "idle"
        /\ \A v \in Worker \ {w} : work'[v] = work[v]
        /\ UNCHANGED <<stream, conn, refresh, acks>>
    BY <1>1, <1>4 DEF Flush, IdleWork, connVars, streamVars
  <2>2. Attached' = Attached /\ Broken' = Broken
    BY <2>1 DEF Attached, Broken
  <2> QED
    BY <2>1, <2>2 DEF OneThread
<1>5. ASSUME UNCHANGED work, Broken' => Broken
      PROVE  /\ Attached' = Attached
             /\ \A v, w \in Attached' : v = w
             /\ Broken' => Attached' = {}
             /\ Orderly => \A w \in Worker : work'[w].role # "detached"
  BY <1>5 DEF Attached, OneThread
<1>6. CASE ReceiveEvent \/ ReceiveCheckpoint \/ ApplyAck
  <2>1. UNCHANGED <<work, stream, conn, refresh>>
    BY <1>6 DEF ReceiveEvent, ReceiveCheckpoint, ApplyAck, connVars, streamVars
  <2>2. Broken' => Broken
    <3>1. CASE UNCHANGED acks
      BY <3>1 DEF Broken
    <3>2. CASE ApplyAck
      <4>1. acks' = Tail(acks) /\ acks # <<>>
        BY <3>2 DEF ApplyAck
      <4>2. \A i \in DOMAIN Tail(acks) : Tail(acks)[i] = acks[i + 1] /\ i + 1 \in DOMAIN acks
        BY <1>1, <4>1
      <4> QED
        BY <4>1, <4>2 DEF Broken
    <3> QED
      BY <1>6, <3>1, <3>2 DEF ReceiveEvent, ReceiveCheckpoint
  <2> QED
    BY <1>5, <2>1, <2>2 DEF OneThread
<1>7. ASSUME acks' = <<>> PROVE ~Broken'
  BY <1>7 DEF Broken
<1>8. CASE StreamEnds
  <2>1. /\ UNCHANGED <<work, refresh>> /\ stream' = "ended" /\ acks' = <<>>
        /\ conn' = "degraded"
    BY <1>8 DEF StreamEnds
  <2>2. Attached = {}
    <3>1. acks # <<>> /\ Head(acks) = Failure => Broken
      BY <1>1 DEF Broken
    <3> QED
      BY <1>8, <3>1 DEF StreamEnds, Applying, OneThread
  <2> QED
    BY <1>5, <1>7, <2>1, <2>2 DEF OneThread
<1>9. CASE List
  <2>1. /\ UNCHANGED <<work, conn, acks>> /\ stream' = (IF stream = "ended" THEN "none" ELSE stream)
        /\ refresh' = [open |-> TRUE, active |-> conn = "active", cursor |-> cursor]
    BY <1>9 DEF List, connVars
  <2>2. refresh'.active <=> conn = "active"
    BY <2>1
  <2>3. Broken' => Broken
    BY <2>1 DEF Broken
  <2> QED
    BY <1>1, <1>5, <2>1, <2>2, <2>3 DEF OneThread
<1>10. ~NoRefresh.open
  BY DEF NoRefresh
<1>11. CASE StartStream
  <2>1. /\ UNCHANGED <<work, conn>> /\ stream' = "up" /\ acks' = <<>> /\ refresh' = NoRefresh
        /\ refresh.open /\ refresh.active /\ stream = "none"
    BY <1>11 DEF StartStream, Spawn, connVars
  <2> QED
    BY <1>1, <1>5, <1>7, <1>10, <2>1 DEF OneThread
<1>12. CASE LeaveStream
  <2>1. UNCHANGED <<work, conn, stream, acks>> /\ refresh' = NoRefresh
    BY <1>12 DEF LeaveStream, connVars, streamVars
  <2>2. Broken' => Broken
    BY <2>1 DEF Broken
  <2> QED
    BY <1>5, <1>10, <2>1, <2>2 DEF OneThread
<1>13. CASE StopStream \/ RestartStream
  <2>1. work' = Detached /\ acks' = <<>> /\ refresh' = NoRefresh /\ UNCHANGED conn
    BY <1>13 DEF StopStream, RestartStream, Spawn, connVars
  <2>2. \A w \in Worker : work'[w].role = IF work[w].role = "stream" THEN "detached" ELSE work[w].role
    BY <1>1, <2>1 DEF Detached, Work
  <2>3. Attached' = {}
    BY <2>2 DEF Attached
  <2>4. Orderly => StopStream
    BY <1>13 DEF RestartStream, Orderly
  <2>5. Orderly => Attached = {} /\ stream' = "none"
    BY <1>1, <2>4 DEF StopStream, OneThread
  <2>6. Orderly => \A w \in Worker : work'[w].role # "detached"
    BY <2>2, <2>5 DEF Attached, OneThread
  <2> QED
    BY <1>7, <1>10, <2>1, <2>3, <2>5, <2>6 DEF OneThread
<1>14. CASE Recover \/ Degrade
  <2>1. UNCHANGED <<work, stream, acks, refresh>>
    BY <1>14 DEF Recover, Degrade, streamVars
  <2>2. Orderly => conn' = "active"
    BY <1>14 DEF Recover, Degrade, Fault, Orderly
  <2>3. Broken' => Broken
    BY <2>1 DEF Broken
  <2> QED
    BY <1>5, <2>1, <2>2, <2>3 DEF OneThread
<1>15. CASE ConnectorExits
  <2>1. UNCHANGED <<work, acks, refresh, conn>> /\ stream = "up" /\ stream' = "draining"
    BY <1>15 DEF ConnectorExits, connVars
  <2>2. Broken' => Broken
    BY <2>1 DEF Broken
  <2> QED
    BY <1>5, <2>1, <2>2 DEF OneThread
<1>16. CASE Crash
  <2>1. /\ \A w \in Worker : work'[w].role = "idle"
        /\ acks' = <<>> /\ stream' = "none" /\ refresh' = NoRefresh
    BY <1>16 DEF Crash, IdleWork
  <2>2. Attached' = {}
    BY <2>1 DEF Attached
  <2> QED
    BY <1>10, <2>1, <2>2 DEF OneThread
<1>17. CASE UNCHANGED vars
  <2>1. UNCHANGED <<work, stream, acks, refresh, conn>>
    BY <1>17 DEF vars, connVars, streamVars
  <2>2. Broken' => Broken
    BY <2>1 DEF Broken
  <2> QED
    BY <1>5, <2>1, <2>2 DEF OneThread
<1> QED
  BY <1>2, <1>3, <1>4, <1>6, <1>8, <1>9, <1>11, <1>12, <1>13, <1>14, <1>15, <1>16, <1>17
     DEF Next, Stream, Refresh

-----------------------------------------------------------------------------
(* The history gate passes over an event only if its rows are enough: a row *)
(* that runs would have a thread, and no other thread runs this binding.    *)
LEMMA SkippedIsDone ==
    ASSUME Typed, Running, DigestOnly, OneThread, NEW w \in Worker, InBatch(w), ~Fresh(w)
    PROVE  Done(work[w].binding, TheEvent(w))
<1> DEFINE b == work[w].binding
           e == TheEvent(w)
           x == rows[b][e]
<1>1. /\ work[w] \in Work /\ b \in Binding /\ e \in Event /\ x \in Rows /\ work[w].batch # <<>>
      /\ work[w].at = "check" /\ work[w].role # "idle"
  <2>1. /\ work[w] \in Work /\ rows \in [Binding -> [Event -> Rows]]
    BY DEF Typed, TypeOK
  <2>2. b \in Binding /\ work[w].pos <= Len(work[w].batch) /\ work[w].at = "check"
        /\ work[w].role # "idle"
    BY DEF InBatch, Routing
  <2>3. work[w].batch \in Seq(Event) /\ work[w].pos \in Nat \ {0}
    BY <2>1 DEF Work
  <2>4. work[w].pos \in 1..Len(work[w].batch) /\ Len(work[w].batch) \in Nat
    BY <2>2, <2>3, LenProperties
  <2>5. e \in Event
    BY <2>3, <2>4, ElementOfSeq DEF TheEvent
  <2>6. work[w].batch # <<>>
    BY <2>4, EmptySeq
  <2> HIDE DEF e
  <2> QED
    BY <2>1, <2>2, <2>5, <2>6
<1>2. x.running \in Nat /\ x.completed \in Nat /\ x.failed \in Nat
  BY <1>1 DEF Rows
<1> SUFFICES ASSUME Gated(b, e) PROVE Done(b, e)
  BY DEF Done, Enough
<1>3. Decision(x) # "allow"
  BY DEF Fresh, TheRows, Gated
<1> HIDE DEF x
<1>4. x.running + x.completed > 0 \/ x.failed >= MaxFailed
  BY <1>2, <1>3 DEF Decision
<1>5. x # NoRows
  BY <1>2, <1>4, MaxFailedAssumption DEF NoRows
<1>6. ASSUME Orderly, b \notin Digest
      PROVE  x.running = 0
  <2>1. w \in Attached
    BY <1>1, <1>6 DEF Attached, OneThread, DigestOnly, Work
  <2>2. ASSUME NEW v \in Worker PROVE Unsettled(v, b, e) = {}
    <3>1. CASE v = w
      BY <1>1, <3>1 DEF Unsettled
    <3>2. CASE v # w /\ work[v].at # "check"
      <4>1. v \notin Attached
        BY <2>1, <3>2 DEF OneThread
      <4>2. work[v] \in Work /\ Shape(work[v])
        BY DEF Typed, TypeOK
      <4>3. work[v].role = "flush"
        BY <1>6, <3>2, <4>1, <4>2 DEF Attached, OneThread, Shape, Work
      <4>4. work[v].binding \in Digest
        BY <3>2, <4>3 DEF DigestOnly
      <4> QED
        BY <1>6, <4>4 DEF Unsettled
    <3>3. CASE v # w /\ work[v].at = "check"
      BY <3>3 DEF Unsettled
    <3> QED
      BY <3>1, <3>2, <3>3
  <2>3. Owners(b, e) = {}
    BY <2>2 DEF Owners
  <2> QED
    BY <1>1, <2>3, FS_EmptySet DEF Running, x
<1>7. Orderly /\ b \notin Digest => x.completed > 0 \/ x.failed >= MaxFailed
  BY <1>2, <1>4, <1>6
<1> QED
  BY <1>5, <1>7 DEF Done, Enough, x

(* What a thread has in hand after a step of the router, for one event.     *)
LEMMA StillInHand ==
    ASSUME Typed, NEW w \in Worker, NEW b \in Binding, NEW i \in DOMAIN work'[w].batch,
           work'[w].batch = work[w].batch, work[w].failed => work'[w].failed,
           \A c \in Binding, e \in Event : Done(c, e) => DoneNext(c, e),
           Progress(work[w]),
           \/ Past(work[w], b, i)
           \/ DoneNext(b, work[w].batch[i]) \/ Waiting(work'[w], b, work[w].batch[i]),
           Waiting(work[w], b, work[w].batch[i]) =>
               \/ Waiting(work'[w], b, work[w].batch[i])
               \/ DoneNext(b, work[w].batch[i]) \/ work'[w].failed
    PROVE  DoneNext(b, work[w].batch[i]) \/ Waiting(work'[w], b, work[w].batch[i]) \/ work'[w].failed
<1>1. i \in DOMAIN work[w].batch /\ work[w].batch[i] \in Event
  BY DEF Typed, TypeOK, Work
<1> QED
  BY <1>1 DEF Progress

(* A step of the router keeps what its thread has passed done or in hand.   *)
LEMMA ProgressRoute ==
    ASSUME Typed, Running, DigestOnly, OneThread, NEW w \in Worker, Route(w),
           \A v \in Worker : Progress(work[v])
    PROVE  \A v \in Worker : Progress(work[v])'
<1>1. /\ work \in [Worker -> Work] /\ work[w] \in Work /\ Shape(work[w]) /\ Progress(work[w])
      /\ \A v \in Worker \ {w} : work'[v] = work[v]
      /\ work'[w] \in Work /\ Shape(work'[w])
  BY RouteShape DEF Typed, TypeOK, RouteStep
<1>2. \A b \in Binding, e \in Event : Done(b, e) => DoneNext(b, e)
  BY RouteTyped, DoneStays DEF Done, DoneNext
<1>3. \A b \in Binding, e \in Event : rows'[b][e] \in Rows
  BY RouteTyped DEF Typed, TypeOK
<1>4. ASSUME NEW v \in Worker \ {w} PROVE Progress(work[v])'
  <2>1. work'[v] = work[v] /\ work[v] \in Work /\ Progress(work[v]) /\ Shape(work[v])
    BY <1>1, <1>4 DEF Typed
  <2>2. \A i \in DOMAIN work[v].batch : work[v].batch[i] \in Event
    BY <2>1 DEF Work
  <2>3. \A i \in DOMAIN work[v].unit : work[v].unit[i] \in Event
    BY <2>1 DEF Work
  <2>4. work[v].at # "check" => work[v].binding \in Binding
    BY <2>1 DEF Shape
  <2>5. \A b \in Binding, i \in DOMAIN work[v].batch :
           Past(work[v], b, i) => DoneNext(b, work[v].batch[i]) \/ Waiting(work[v], b, work[v].batch[i]) \/ work[v].failed
    BY <1>2, <2>1, <2>2 DEF Progress
  <2>6. (work[v].at = "settle" /\ work[v].ok) \/ work[v].at = "record" =>
          \A k \in DOMAIN work[v].unit : k <= work[v].done => DoneNext(work[v].binding, work[v].unit[k])
    BY <1>2, <2>1, <2>3, <2>4 DEF Progress
  <2> QED
    BY <2>1, <2>5, <2>6 DEF Progress, Done, DoneNext
<1> SUFFICES Progress(work[w])'
  BY <1>4
<1>5. /\ work[w].batch \in Seq(Event) /\ work[w].unit \in Seq(Event) /\ work[w].pos \in Nat
      /\ work[w].done \in Nat /\ work[w].groups \in [Binding -> Seq(Event)]
      /\ work[w].binding \in Int
  BY <1>1, SizeAssumption DEF Work
<1>6. ~Report(w) => /\ work'[w].batch = work[w].batch /\ (work[w].failed => work'[w].failed)
  BY RouteKeeps
<1>7. ASSUME ~Report(w),
             \A b \in Binding, i \in DOMAIN work[w].batch : Past(work'[w], b, i) =>
                  \/ Past(work[w], b, i)
                  \/ DoneNext(b, work[w].batch[i]) \/ Waiting(work'[w], b, work[w].batch[i]),
             \A b \in Binding, e \in Event : Waiting(work[w], b, e) =>
                  Waiting(work'[w], b, e) \/ DoneNext(b, e) \/ work'[w].failed,
             (work'[w].at = "settle" /\ work'[w].ok) \/ work'[w].at = "record" =>
                  \A k \in DOMAIN work'[w].unit :
                      k <= work'[w].done => DoneNext(work'[w].binding, work'[w].unit[k])
      PROVE  Progress(work[w])'
  <2>1. ASSUME NEW b \in Binding, NEW i \in DOMAIN work'[w].batch, Past(work'[w], b, i)
        PROVE  DoneNext(b, work'[w].batch[i]) \/ Waiting(work'[w], b, work'[w].batch[i]) \/ work'[w].failed
    <3>1. i \in DOMAIN work[w].batch /\ work[w].batch[i] \in Event
      BY <1>5, <1>6, <1>7, <2>1
    <3>2. \/ Past(work[w], b, i)
          \/ DoneNext(b, work[w].batch[i]) \/ Waiting(work'[w], b, work[w].batch[i])
      BY <1>7, <2>1, <3>1
    <3>3. Waiting(work[w], b, work[w].batch[i]) =>
               \/ Waiting(work'[w], b, work[w].batch[i])
               \/ DoneNext(b, work[w].batch[i]) \/ work'[w].failed
      BY <1>7, <3>1
    <3> QED
      BY <1>1, <1>2, <1>6, <1>7, <3>2, <3>3, StillInHand
  <2> QED
    BY <1>7, <2>1 DEF Progress, Done, DoneNext
<1>8. CASE SkipEvent(w) \/ FilterEvent(w) \/ CollectEvent(w) \/ DispatchEvent(w)
  <2>1. /\ work[w].at = "check" /\ work[w].pos \in DOMAIN work[w].batch /\ work[w].unit = <<>>
        /\ InBatch(w) /\ work[w].binding \in Binding /\ TheEvent(w) = work[w].batch[work[w].pos]
        /\ TheEvent(w) \in Event
    <3>1. InBatch(w)
      BY <1>8 DEF SkipEvent, FilterEvent, CollectEvent, DispatchEvent
    <3> QED
      BY <1>1, <3>1 DEF InBatch, Routing, Shape, TheEvent, Work
  <2>2. /\ work'[w].binding = work[w].binding /\ work'[w].pos = work[w].pos + 1
        /\ work'[w].at \in {"check", "start"}
        /\ \A b \in Binding, e \in Event : Holds(work[w].groups[b], e) => Holds(work'[w].groups[b], e)
        /\ DoneNext(work[w].binding, TheEvent(w)) \/ Waiting(work'[w], work[w].binding, TheEvent(w))
    <3>1. CASE SkipEvent(w)
      <4>1. work'[w].binding = work[w].binding /\ work'[w].pos = work[w].pos + 1
            /\ work'[w].at = "check" /\ work'[w].groups = work[w].groups
        BY <1>1, <2>1, <3>1 DEF SkipEvent, Advance, Work
      <4>2. Done(work[w].binding, TheEvent(w))
        BY <3>1, SkippedIsDone DEF SkipEvent
      <4> QED
        BY <1>2, <2>1, <4>1, <4>2
    <3>2. CASE FilterEvent(w)
      <4>1. work'[w].binding = work[w].binding /\ work'[w].pos = work[w].pos + 1
            /\ work'[w].at = "check" /\ work'[w].groups = work[w].groups
        BY <1>1, <2>1, <3>2 DEF FilterEvent, Advance, Work
      <4>2. Done(work[w].binding, TheEvent(w))
        BY <3>2 DEF FilterEvent, Wanted, Done, Enough, Gated
      <4> QED
        BY <1>2, <2>1, <4>1, <4>2
    <3>3. CASE CollectEvent(w)
      <4> DEFINE g == Append(work[w].groups[work[w].binding], TheEvent(w))
      <4>1. /\ work'[w].binding = work[w].binding /\ work'[w].pos = work[w].pos + 1
            /\ work'[w].at = "check"
            /\ work'[w].groups = [work[w].groups EXCEPT ![work[w].binding] = g]
        BY <1>1, <2>1, <3>3 DEF CollectEvent, Advance, Work
      <4>4. /\ Holds(g, TheEvent(w))
            /\ \A e : Holds(work[w].groups[work[w].binding], e) => Holds(g, e)
        <5>1. work[w].groups[work[w].binding] \in Seq(Event)
          BY <1>5, <2>1
        <5> QED
          BY <2>1, <5>1, HoldsAppend
      <4>5. \A b \in Binding : work'[w].groups[b] = IF b = work[w].binding THEN g ELSE work[w].groups[b]
        BY <1>5, <4>1
      <4> HIDE DEF g
      <4> QED
        BY <2>1, <4>1, <4>4, <4>5 DEF Waiting
    <3>4. CASE DispatchEvent(w)
      <4>1. work'[w].binding = work[w].binding /\ work'[w].pos = work[w].pos + 1
            /\ work'[w].at = "start" /\ work'[w].groups = work[w].groups
            /\ work'[w].unit = <<TheEvent(w)>>
        BY <1>1, <2>1, <3>4 DEF DispatchEvent, Advance, Work
      <4>2. Holds(work'[w].unit, TheEvent(w))
        BY <4>1 DEF Holds
      <4> QED
        BY <4>1, <4>2 DEF Waiting
    <3> QED
      BY <1>8, <3>1, <3>2, <3>3, <3>4
  <2>3. ~Report(w)
    BY <2>1 DEF InBatch, Report
  <2>4. ASSUME NEW b \in Binding, NEW i \in DOMAIN work[w].batch, Past(work'[w], b, i)
        PROVE  Past(work[w], b, i) \/ (b = work[w].binding /\ i = work[w].pos)
    BY <1>5, <2>2, <2>4 DEF Past
  <2>5. \A e : ~Holds(work[w].unit, e)
    BY <2>1 DEF Holds
  <2>6. \A b \in Binding, e \in Event : Waiting(work[w], b, e) => Waiting(work'[w], b, e)
    BY <2>2, <2>5 DEF Waiting
  <2> QED
    BY <1>7, <2>1, <2>2, <2>3, <2>4, <2>6
<1>9. CASE NextBinding(w)
  <2>1. /\ work[w].at = "check" /\ work[w].pos > Len(work[w].batch) /\ work[w].unit = <<>>
        /\ work[w].binding \in Binding /\ work[w].groups[work[w].binding] = <<>>
        /\ work'[w].at = "check" /\ work'[w].pos = 1 /\ work'[w].binding = work[w].binding + 1
    BY <1>1, <1>9 DEF NextBinding, AfterBatch, Routing, Group, Shape, Work
  <2>2. \A b \in Binding, i \in DOMAIN work[w].batch : Past(work'[w], b, i) => Past(work[w], b, i)
    BY <1>5, <2>1 DEF Past, Binding
  <2>3. \A b, e : ~Waiting(work[w], b, e)
    BY <2>1 DEF Waiting, Holds
  <2>4. ~Report(w)
    BY <2>1 DEF Report
  <2> QED
    BY <1>7, <2>1, <2>2, <2>3, <2>4
<1>10. CASE EnqueueGroup(w) \/ DispatchGroup(w)
  <2>1. /\ work[w].at = "check" /\ work[w].unit = <<>> /\ work[w].binding \in Binding
        /\ work'[w].pos = work[w].pos /\ work'[w].binding = work[w].binding /\ work'[w].done = 0
        /\ work'[w].unit = work[w].groups[work[w].binding]
    <3>1. AfterBatch(w)
      BY <1>10 DEF EnqueueGroup, DispatchGroup
    <3>2. /\ work'[w].pos = work[w].pos /\ work'[w].binding = work[w].binding
          /\ work'[w].done = 0 /\ work'[w].unit = Group(w)
      <4>1. CASE EnqueueGroup(w)
        BY <1>1, <4>1 DEF EnqueueGroup, Work
      <4>2. CASE DispatchGroup(w)
        BY <1>1, <4>2 DEF DispatchGroup, Work
      <4> QED
        BY <1>10, <4>1, <4>2
    <3> QED
      BY <1>1, <3>1, <3>2 DEF AfterBatch, Routing, Group, Shape
  <2>2. \A b \in Binding, i \in DOMAIN work[w].batch : Past(work'[w], b, i) => Past(work[w], b, i)
    BY <2>1 DEF Past
  <2>3. \A b, e : Waiting(work[w], b, e) => Waiting(work'[w], b, e)
    BY <2>1 DEF Waiting, Holds
  <2>4. ~Report(w)
    BY <2>1 DEF Report
  <2>5. \A k \in DOMAIN work'[w].unit : ~(k <= work'[w].done)
    BY <1>5, <2>1
  <2> QED
    BY <1>7, <2>2, <2>3, <2>4, <2>5
<1>11. ASSUME work'[w].binding = work[w].binding, work'[w].pos = work[w].pos,
              work'[w].groups = work[w].groups, work[w].at # "check"
       PROVE  /\ ~Report(w)
              /\ \A b \in Binding, i \in DOMAIN work[w].batch :
                    Past(work'[w], b, i) => Past(work[w], b, i)
              /\ work'[w].unit = work[w].unit => \A b, e : Waiting(work[w], b, e) => Waiting(work'[w], b, e)
  BY <1>11 DEF Past, Waiting, Report, Routing
<1>12. CASE StartRow(w) \/ RunAction(w)
  <2>1. /\ work'[w].binding = work[w].binding /\ work'[w].pos = work[w].pos
        /\ work'[w].groups = work[w].groups /\ work[w].at # "check"
        /\ work'[w].unit = work[w].unit
        /\ work'[w].at \in {"start", "run"} \/ work'[w].done = 0
    <3>1. CASE StartRow(w)
      BY <1>1, <3>1 DEF StartRow, Routing, Work
    <3>2. CASE RunAction(w)
      BY <1>1, <3>2 DEF RunAction, Routing, Work
    <3> QED
      BY <1>12, <3>1, <3>2
  <2>2. work'[w].done = 0 => \A k \in DOMAIN work'[w].unit : ~(k <= work'[w].done)
    BY <1>5, <2>1
  <2> QED
    BY <1>7, <1>11, <2>1, <2>2
<1>13. ASSUME NEW n \in Nat, n = work[w].done + 1, n \in DOMAIN work[w].unit,
              work[w].binding \in Binding, work'[w].pos = work[w].pos,
              work'[w].binding = work[w].binding, work'[w].groups = work[w].groups,
              work[w].at # "check",
              \/ n = Len(work[w].unit) /\ work'[w].at = "check"
              \/ n # Len(work[w].unit) /\ work'[w].at = work[w].at /\ work'[w].done = n
                 /\ work'[w].unit = work[w].unit /\ work'[w].ok = work[w].ok,
              \/ /\ (work[w].at = "settle" /\ work[w].ok) \/ work[w].at = "record"
                 /\ DoneNext(work[w].binding, work[w].unit[n])
              \/ /\ work[w].at = "settle" /\ ~work[w].ok
                 /\ n = Len(work[w].unit) => work'[w].failed
       PROVE  Progress(work[w])'
  <2>1. \A k \in DOMAIN work[w].unit : work[w].unit[k] \in Event /\ (k <= n => k <= work[w].done \/ k = n)
        /\ (n = Len(work[w].unit) => k <= n)
    BY <1>5, <1>13
  <2>2. ASSUME (work[w].at = "settle" /\ work[w].ok) \/ work[w].at = "record",
               DoneNext(work[w].binding, work[w].unit[n])
        PROVE  \A k \in DOMAIN work[w].unit : k <= n => DoneNext(work[w].binding, work[w].unit[k])
    <3>1. \A k \in DOMAIN work[w].unit : k <= work[w].done => Done(work[w].binding, work[w].unit[k])
      BY <1>1, <2>2 DEF Progress
    <3> QED
      BY <1>2, <1>13, <2>1, <2>2, <3>1
  <2>3. CASE n # Len(work[w].unit)
    BY <1>7, <1>11, <1>13, <2>2, <2>3
  <2>4. CASE n = Len(work[w].unit)
    <3>1. \A b \in Binding, e \in Event : Waiting(work[w], b, e) =>
                  Waiting(work'[w], b, e) \/ DoneNext(b, e) \/ work'[w].failed
      <4> SUFFICES ASSUME NEW b \in Binding, NEW e \in Event, Waiting(work[w], b, e),
                          ~Holds(work[w].groups[b], e), ~work'[w].failed
                   PROVE  DoneNext(b, e)
        BY <1>13 DEF Waiting
      <4>1. PICK k \in DOMAIN work[w].unit : work[w].unit[k] = e
        BY DEF Waiting, Holds
      <4>2. b = work[w].binding
        BY DEF Waiting
      <4> QED
        BY <1>13, <2>1, <2>2, <2>4, <4>1, <4>2
    <3> QED
      BY <1>7, <1>11, <1>13, <2>4, <3>1
  <2> QED
    BY <2>3, <2>4
<1>14. CASE RecordQueued(w)
  <2> DEFINE n == work[w].done + 1
  <2>1. /\ work[w].at = "record" /\ work[w].binding \in Binding /\ n \in DOMAIN work[w].unit
        /\ n \in Nat /\ work[w].unit[n] \in Event
    BY <1>1, <1>5, <1>14 DEF RecordQueued, Routing, Shape
  <2>2. /\ work'[w].binding = work[w].binding /\ work'[w].pos = work[w].pos
        /\ work'[w].groups = work[w].groups
        /\ \/ n = Len(work[w].unit) /\ work'[w].at = "check"
           \/ n # Len(work[w].unit) /\ work'[w].at = work[w].at /\ work'[w].done = n
              /\ work'[w].unit = work[w].unit /\ work'[w].ok = work[w].ok
    <3>1. CASE n = Len(work[w].unit)
      BY <1>1, <1>14, <3>1 DEF RecordQueued, UnitDone, Work
    <3>2. CASE n # Len(work[w].unit)
      BY <1>1, <1>14, <3>2 DEF RecordQueued, Work
    <3> QED
      BY <3>1, <3>2
  <2>3. DoneNext(work[w].binding, work[w].unit[n])
    <3>1. PICK b \in Binding, e \in Event : b = work[w].binding /\ e = work[w].unit[n]
      BY <2>1
    <3>2. rows'[b][e] = WithOutcome(rows[b][e]) /\ rows[b][e] \in Rows
      BY <1>14, <3>1 DEF RecordQueued, UpdateRows, Typed, TypeOK
    <3>3. rows'[b][e] \in Rows /\ rows'[b][e].completed > 0
      BY <1>3, <3>2, RowOps
    <3>4. Enough(rows'[b][e], b, e)
      BY <3>3, EnoughCompleted
    <3>5. DoneNext(b, e)
      BY <3>4 DEF Done, DoneNext
    <3> QED
      BY <3>1, <3>5 DEF Done, DoneNext
  <2> QED
    BY <1>13, <2>1, <2>2, <2>3
<1>15. CASE SettleRow(w)
  <2>1. PICK b \in Binding, n \in Nat, e \in Event : Settles(w, b, n, e)
    BY <1>15, SettleEffect
  <2>2. /\ n = work[w].done + 1 /\ n \in DOMAIN work[w].unit
        /\ b = work[w].binding /\ e = work[w].unit[n] /\ work'[w].pos = work[w].pos
        /\ work'[w].binding = work[w].binding /\ work'[w].groups = work[w].groups
        /\ work[w].at = "settle"
        /\ \/ n = Len(work[w].unit) /\ work'[w].at = "check"
           \/ n # Len(work[w].unit) /\ work'[w].at = work[w].at /\ work'[w].done = n
              /\ work'[w].unit = work[w].unit /\ work'[w].ok = work[w].ok
        /\ rows' = [rows EXCEPT ![b][e] = WithResult(rows[b][e], work[w].ok)]
    BY <2>1 DEF Settles
  <2>3. ~work[w].ok /\ n = Len(work[w].unit) => work'[w].failed
    <3>1. n = Len(work[w].unit) => work'[w].failed = (work[w].failed \/ ~work[w].ok)
      BY <2>1 DEF Settles
    <3> QED
      BY <3>1
  <2>4. ASSUME work[w].ok PROVE DoneNext(work[w].binding, work[w].unit[n])
    <3>1. rows[b][e] \in Rows /\ rows[b][e].running >= 1 /\ work[w].ok \in BOOLEAN
      <4>1. rows[b][e].running >= 1
        BY <1>15, <2>2, SettleRuns
      <4> QED
        BY <1>1, <4>1 DEF Typed, TypeOK, Work
    <3>2. rows'[b][e] = WithResult(rows[b][e], work[w].ok)
      BY <2>2 DEF Typed, TypeOK
    <3>3. rows'[b][e] \in Rows /\ rows'[b][e].completed = rows[b][e].completed + 1
      <4>1. \/ WithResult(rows[b][e], work[w].ok).completed = rows[b][e].completed + 1
            \/ ~work[w].ok
        BY <3>1, RowResult
      <4> QED
        BY <1>3, <2>4, <3>2, <4>1
    <3>4. rows[b][e].completed \in Nat
      BY <3>1 DEF Rows
    <3>5. Enough(rows'[b][e], b, e)
      BY <3>3, <3>4, EnoughCompleted
    <3>6. DoneNext(b, e)
      BY <3>5 DEF Done, DoneNext
    <3> QED
      BY <2>2, <3>6 DEF Done, DoneNext
  <2> QED
    BY <1>13, <2>2, <2>3, <2>4
<1>16. CASE Report(w)
  <2>1. work'[w].batch = <<>> /\ work'[w].at = "check"
    BY <1>1, <1>16 DEF Report, IdleWork
  <2> QED
    BY <2>1 DEF Progress
<1> QED
  BY <1>8, <1>9, <1>10, <1>12, <1>14, <1>15, <1>16 DEF Route

(* A thread that comes back without a failure has done its whole batch.     *)
LEMMA ReportedIsDone ==
    ASSUME Typed, NEW w \in Worker, Report(w), Progress(work[w]), ~work[w].failed
    PROVE  \A e : Holds(work[w].batch, e) => AllDone(e)
<1>1. work[w].binding \in Int /\ work[w].binding > Bindings
  <2>1. work[w] \in Work /\ work[w].binding \notin Binding
    BY DEF Report, Typed, TypeOK
  <2>2. work[w].binding \in 1..(Bindings + 1)
    BY <2>1 DEF Work
  <2> QED
    BY <2>1, <2>2, SizeAssumption DEF Binding
<1>2. \A b \in Binding : b < work[w].binding
  BY <1>1, SizeAssumption DEF Binding
<1>3. \A b \in Binding, i \in DOMAIN work[w].batch : Done(b, work[w].batch[i])
  <2>1. \A b \in Binding, i \in DOMAIN work[w].batch : Past(work[w], b, i)
    BY <1>2 DEF Past
  <2>2. \A b, e : b \in Binding => ~Waiting(work[w], b, e)
    BY <1>1, <1>2 DEF Waiting
  <2> QED
    BY <2>1, <2>2 DEF Progress
<1> QED
  BY <1>3 DEF Holds, AllDone

-----------------------------------------------------------------------------
(* The stored cursor, and the copy a refresh has listed.                    *)
LEMMA StoredStep ==
    ASSUME Typed, StoredDone, AcksDone, [Next]_vars,
           \A e \in Event : AllDone(e) => AllDone(e)'
    PROVE  StoredDone'
<1> USE SizeAssumption, KindAssumption
<1>1. /\ \A e \in Event : e \in Int /\ e >= 1 /\ ~(e <= 0)
      /\ acks \in Seq(Event \cup {Failure})
  BY DEF Typed, TypeOK, Event, Position
<1>2. ASSUME UNCHANGED <<cursor, refresh>> PROVE StoredDone'
  BY <1>2 DEF StoredDone
<1>3. ASSUME UNCHANGED cursor, refresh' = NoRefresh PROVE StoredDone'
  <2>1. refresh'.cursor = 0
    BY <1>3 DEF NoRefresh
  <2> QED
    BY <1>1, <1>3, <2>1 DEF StoredDone
<1>4. CASE ApplyAck
  <2>1. /\ cursor' = Head(acks) /\ UNCHANGED refresh /\ acks # <<>>
    BY <1>4 DEF ApplyAck
  <2>2. Head(acks) = acks[1] /\ 1 \in DOMAIN acks
    BY <1>1, <2>1
  <2> QED
    BY <2>1, <2>2 DEF StoredDone, AcksDone
<1>5. CASE ReceiveCheckpoint
  <2>1. cursor' = next /\ UNCHANGED refresh /\ next \in Silent
    BY <1>5 DEF ReceiveCheckpoint
  <2>2. \A e \in Event : ~(e <= next)
    <3>1. next \in Int
      BY <2>1 DEF Position
    <3> QED
      BY <1>1, <2>1, <3>1, CheckpointAssumption
  <2> QED
    BY <2>1, <2>2 DEF StoredDone
<1>6. CASE List
  <2>1. UNCHANGED cursor /\ refresh'.cursor = cursor
    BY <1>6 DEF List, connVars
  <2> QED
    BY <2>1 DEF StoredDone
<1>7. ASSUME NEW w \in Worker, Route(w) \/ TakeBatch(w) \/ Flush(w)
      PROVE  StoredDone'
  <2>1. UNCHANGED <<cursor, refresh>>
    BY <1>7 DEF Route, SkipEvent, FilterEvent, CollectEvent, DispatchEvent, NextBinding,
           EnqueueGroup, RecordQueued, DispatchGroup, StartRow, RunAction, SettleRow, Report,
           TakeBatch, Flush, connVars
  <2> QED
    BY <1>2, <2>1
<1>8. CASE ReceiveEvent \/ StreamEnds \/ Recover \/ ConnectorExits \/ Degrade \/ UNCHANGED vars
  BY <1>2, <1>8 DEF ReceiveEvent, StreamEnds, Recover, ConnectorExits, Degrade, vars, connVars
<1>9. CASE StartStream \/ LeaveStream \/ StopStream \/ RestartStream \/ Crash
  BY <1>3, <1>9 DEF StartStream, LeaveStream, StopStream, RestartStream, Crash, connVars
<1> QED
  BY <1>4, <1>5, <1>6, <1>7, <1>8, <1>9 DEF Next, Stream, Refresh

(* The cursors waiting to be stored.                                        *)
LEMMA AcksStep ==
    ASSUME Typed, AcksDone, BatchDone, \A w \in Worker : Progress(work[w]), [Next]_vars,
           \A e \in Event : AllDone(e) => AllDone(e)'
    PROVE  AcksDone'
<1> USE SizeAssumption, KindAssumption
<1>1. /\ \A e \in Event : e \in Int /\ e >= 1 /\ ~(e <= 0)
      /\ acks \in Seq(Event \cup {Failure}) /\ work \in [Worker -> Work]
  BY DEF Typed, TypeOK, Event, Position
<1>2. ASSUME UNCHANGED acks PROVE AcksDone'
  BY <1>2 DEF AcksDone
<1>3. ASSUME acks' = <<>> PROVE AcksDone'
  BY <1>3 DEF AcksDone
<1>4. CASE ApplyAck
  <2>1. acks' = Tail(acks) /\ acks # <<>>
    BY <1>4 DEF ApplyAck
  <2>2. \A i \in DOMAIN Tail(acks) : Tail(acks)[i] = acks[i + 1] /\ i + 1 \in DOMAIN acks
    BY <1>1, <2>1
  <2> QED
    BY <2>1, <2>2 DEF AcksDone
<1>5. ASSUME NEW w \in Worker, Report(w) PROVE AcksDone'
  <2>1. CASE work[w].role # "stream"
    BY <1>2, <1>5, <2>1 DEF Report
  <2>2. CASE work[w].role = "stream" /\ work[w].failed
    <3>1. acks' = Append(acks, Failure)
      BY <1>5, <2>2 DEF Report
    <3>2. \A i \in DOMAIN acks' : (i \in DOMAIN acks /\ acks'[i] = acks[i]) \/ acks'[i] = 0
      BY <1>1, <3>1, AppendProperties DEF Failure
    <3> QED
      BY <1>1, <3>2 DEF AcksDone
  <2>3. CASE work[w].role = "stream" /\ ~work[w].failed
    <3>1. acks' = acks \o work[w].batch
      BY <1>5, <2>3 DEF Report
    <3>2. work[w].batch \in Seq(Event \cup {Failure})
      BY <1>1 DEF Work
    <3>3. \A i \in DOMAIN acks' : \/ i \in DOMAIN acks /\ acks'[i] = acks[i]
                                  \/ \E k \in DOMAIN work[w].batch : acks'[i] = work[w].batch[k]
      <4>1. /\ Len(acks') = Len(acks) + Len(work[w].batch) /\ acks' \in Seq(Event \cup {Failure})
            /\ \A i \in 1..Len(acks') : acks'[i] = IF i <= Len(acks) THEN acks[i]
                                                   ELSE work[w].batch[i - Len(acks)]
        BY <1>1, <3>1, <3>2, ConcatProperties
      <4>2. \A i \in 1..Len(acks') : i <= Len(acks) \/ i - Len(acks) \in 1..Len(work[w].batch)
        BY <1>1, <3>2, <4>1
      <4> QED
        BY <1>1, <3>2, <4>1, <4>2, SMTT(30)
    <3>4. \A k \in DOMAIN work[w].batch, e \in Event : e <= work[w].batch[k] => AllDone(e)
      BY <1>5, <2>3, ReportedIsDone DEF BatchDone, Attached
    <3> QED
      BY <3>3, <3>4 DEF AcksDone
  <2> QED
    BY <2>1, <2>2, <2>3
<1>6. ASSUME NEW w \in Worker, (Route(w) /\ ~Report(w)) \/ TakeBatch(w) \/ Flush(w)
      PROVE  AcksDone'
  <2>1. UNCHANGED acks
    BY <1>6, RouteKeeps DEF TakeBatch, Flush, streamVars
  <2> QED
    BY <1>2, <2>1
<1>7. CASE \/ ReceiveEvent \/ ReceiveCheckpoint \/ List \/ LeaveStream \/ Recover
           \/ ConnectorExits \/ Degrade \/ UNCHANGED vars
  BY <1>2, <1>7 DEF ReceiveEvent, ReceiveCheckpoint, List, LeaveStream, Recover, ConnectorExits,
         Degrade, vars, streamVars
<1>8. CASE StreamEnds \/ StartStream \/ StopStream \/ RestartStream \/ Crash
  BY <1>3, <1>8 DEF StreamEnds, StartStream, StopStream, RestartStream, Spawn, Crash
<1> QED
  BY <1>4, <1>5, <1>6, <1>7, <1>8 DEF Next, Stream, Refresh

(* The batch of the stream's thread, taken when nothing else is under way.  *)
LEMMA BatchStep ==
    ASSUME Typed, BatchDone, ReceivedDone, [Next]_vars,
           \A e \in Event : AllDone(e) => AllDone(e)'
    PROVE  BatchDone'
<1>1. /\ work \in [Worker -> Work] /\ pending \in Seq(Event)
  BY DEF Typed, TypeOK
<1>2. ASSUME \A w \in Worker : work'[w].role = "stream" =>
                work[w].role = "stream" /\ work'[w].batch = work[w].batch
      PROVE  BatchDone'
  BY <1>2 DEF BatchDone, Attached
<1>3. ASSUME NEW w \in Worker, TakeBatch(w) PROVE BatchDone'
  <2>1. /\ work'[w].batch = pending /\ \A v \in Worker \ {w} : work'[v] = work[v]
        /\ Attached = {} /\ ~Broken
    BY <1>1, <1>3 DEF TakeBatch, IdleWork
  <2>2. Attached' \subseteq {w}
    BY <2>1 DEF Attached
  <2>3. \A e \in Event, i \in DOMAIN pending : e <= pending[i] => AllDone(e) \/ Holds(pending, e)
    BY <2>1 DEF ReceivedDone, InHand
  <2> QED
    BY <2>1, <2>2, <2>3 DEF BatchDone
<1>4. ASSUME NEW w \in Worker, Route(w) PROVE BatchDone'
  <2>1. \A v \in Worker \ {w} : work'[v] = work[v]
    BY <1>1, <1>4, RouteShape DEF RouteStep
  <2>2. ~Report(w) => work'[w].role = work[w].role /\ work'[w].batch = work[w].batch
    BY <1>4, RouteKeeps
  <2>3. Report(w) => work'[w].role = "idle"
    BY <1>1 DEF Report, IdleWork
  <2> QED
    BY <1>2, <2>1, <2>2, <2>3
<1>5. ASSUME NEW w \in Worker, Flush(w) PROVE BatchDone'
  <2>1. work'[w].role = "flush" /\ \A v \in Worker \ {w} : work'[v] = work[v]
    BY <1>1, <1>5 DEF Flush, IdleWork
  <2> QED
    BY <1>2, <2>1
<1>6. CASE Stream \/ Refresh \/ Recover \/ ConnectorExits \/ Degrade \/ UNCHANGED vars
  <2>1. UNCHANGED work \/ work' = Detached
    BY <1>6 DEF Stream, ReceiveEvent, ReceiveCheckpoint, ApplyAck, StreamEnds, Refresh, List,
           StartStream, LeaveStream, StopStream, RestartStream, Recover, ConnectorExits, Degrade,
           vars
  <2>2. \A w \in Worker : work'[w] = work[w] \/ work'[w].role = "detached"
    BY <1>1, <2>1 DEF Detached, Work
  <2> QED
    BY <1>2, <2>2
<1>7. CASE Crash
  BY <1>2, <1>7 DEF Crash, IdleWork
<1> QED
  BY <1>3, <1>4, <1>5, <1>6, <1>7 DEF Next

(* The positions received, as long as no batch has failed.                  *)
LEMMA ReceivedStep ==
    ASSUME Typed, StoredDone, ReceivedDone, \A w \in Worker : Progress(work[w]), [Next]_vars,
           \A e \in Event : AllDone(e) => AllDone(e)'
    PROVE  ReceivedDone'
<1> USE SizeAssumption, KindAssumption
<1>1. /\ work \in [Worker -> Work] /\ pending \in Seq(Event)
      /\ acks \in Seq(Event \cup {Failure}) /\ next \in Int /\ refresh.cursor \in Int
      /\ \A e \in Event : e \in Int /\ e >= 1
  BY DEF Typed, TypeOK, Event, Position
<1>2. ASSUME Broken => Broken', next' = next \/ next' = 1, UNCHANGED pending,
             \A e \in Event : InHand(e) => InHand(e)' \/ AllDone(e)'
      PROVE  ReceivedDone'
  <2>1. \A e \in Event : e < next' => e < next
    BY <1>1, <1>2
  <2> QED
    BY <1>2, <2>1 DEF ReceivedDone
<1>3. ASSUME UNCHANGED <<work, pending>> PROVE \A e \in Event : InHand(e) => InHand(e)'
  BY <1>3 DEF InHand, Attached
<1>4. ASSUME next' = 1 \/ Spawn, pending' = <<>>
      PROVE  ReceivedDone'
  <2>1. next' \in Int
    <3>1. \A n \in BeginsAt(refresh.cursor) : n \in Int
      BY <1>1 DEF BeginsAt
    <3> QED
      BY <1>4, <3>1 DEF Spawn
  <2>2. \A e \in Event : e < next' => e <= refresh.cursor \/ e \in lost'
    BY <1>1, <1>4, <2>1 DEF Spawn
  <2> QED
    BY <1>4, <2>2 DEF ReceivedDone, StoredDone, AllDone
<1>5. CASE ReceiveEvent
  <2>1. /\ pending' = Append(pending, next) /\ next' = next + 1 /\ next \in Event
        /\ UNCHANGED <<acks, work>>
    BY <1>5 DEF ReceiveEvent
  <2>2. \A e : Holds(pending', e) <=> Holds(pending, e) \/ e = next
    BY <1>1, <2>1, HoldsAppend
  <2>3. \A e \in Event : InHand(e) => InHand(e)'
    BY <2>1, <2>2 DEF InHand, Attached
  <2>5. \A e \in Event : e < next' => e < next \/ e = next
    BY <1>1, <2>1
  <2>6. \A i \in DOMAIN pending' : (i \in DOMAIN pending /\ pending'[i] = pending[i]) \/ pending'[i] = next
    BY <1>1, <2>1, AppendProperties
  <2>7. \A e \in Event : e <= next => e < next \/ e = next
    BY <1>1
  <2>8. Broken' <=> Broken
    BY <2>1 DEF Broken
  <2>9. ASSUME NEW e \in Event, ~Broken,
               e < next' \/ (\E i \in DOMAIN pending' : e <= pending'[i])
        PROVE  AllDone(e)' \/ InHand(e)'
    <3>1. e = next \/ e < next \/ \E i \in DOMAIN pending : e <= pending[i]
      BY <2>5, <2>6, <2>7, <2>9
    <3>2. e = next => Holds(pending', e)
      BY <2>2
    <3> QED
      BY <2>3, <2>9, <3>1, <3>2 DEF ReceivedDone, InHand
  <2> QED
    BY <2>8, <2>9 DEF ReceivedDone
<1>6. CASE ReceiveCheckpoint
  <2>1. next' = next + 1 /\ next \in Silent /\ UNCHANGED <<pending, acks, work>>
    BY <1>6 DEF ReceiveCheckpoint
  <2>2. \A e \in Event : ~(e < next + 1)
    BY <1>1, <2>1, CheckpointAssumption
  <2>3. Broken' <=> Broken
    BY <2>1 DEF Broken
  <2>4. \A e \in Event : InHand(e) => InHand(e)'
    BY <1>3, <2>1
  <2> QED
    BY <2>1, <2>2, <2>3, <2>4 DEF ReceivedDone
<1>7. CASE ApplyAck
  <2>1. /\ acks' = Tail(acks) /\ acks # <<>> /\ Head(acks) # Failure
        /\ UNCHANGED <<next, pending, work>>
    BY <1>7 DEF ApplyAck
  <2>2. Broken => Broken'
    <3> SUFFICES ASSUME NEW i \in DOMAIN acks, acks[i] = Failure PROVE Broken'
      BY DEF Broken
    <3>1. i # 1
      BY <1>1, <2>1
    <3>2. i - 1 \in DOMAIN Tail(acks) /\ Tail(acks)[i - 1] = acks[i]
      BY <1>1, <2>1, <3>1
    <3> QED
      BY <2>1, <3>2 DEF Broken
  <2> QED
    BY <1>2, <1>3, <2>1, <2>2
<1>8. CASE List \/ LeaveStream \/ Recover \/ ConnectorExits \/ Degrade \/ UNCHANGED vars
  <2>1. UNCHANGED <<acks, pending, work>> /\ (next' = next \/ next' = 1)
    BY <1>8 DEF List, LeaveStream, Recover, ConnectorExits, Degrade, vars, streamVars
  <2>2. Broken => Broken'
    BY <2>1 DEF Broken
  <2> QED
    BY <1>2, <1>3, <2>1, <2>2
<1>9. CASE StreamEnds \/ StartStream \/ StopStream \/ RestartStream \/ Crash
  BY <1>4, <1>9 DEF StreamEnds, StartStream, StopStream, RestartStream, Spawn, Crash
<1>10. ASSUME NEW w \in Worker, TakeBatch(w) PROVE ReceivedDone'
  <2>1. /\ work'[w].batch = pending /\ work'[w].role = "stream" /\ pending' = <<>>
        /\ UNCHANGED <<acks, next>> /\ Attached = {}
    BY <1>1, <1>10 DEF TakeBatch, IdleWork
  <2>2. \A e : InHand(e) => InHand(e)'
    BY <2>1 DEF InHand, Attached
  <2>3. Broken' <=> Broken
    BY <2>1 DEF Broken
  <2> QED
    BY <2>1, <2>2, <2>3 DEF ReceivedDone
<1>11. ASSUME NEW w \in Worker, Flush(w) PROVE ReceivedDone'
  <2>1. /\ work[w].role = "idle" /\ \A v \in Worker \ {w} : work'[v] = work[v]
        /\ UNCHANGED <<acks, next, pending>>
    BY <1>1, <1>11 DEF Flush, streamVars
  <2>2. \A e : InHand(e) => InHand(e)'
    BY <2>1 DEF InHand, Attached
  <2>3. Broken => Broken'
    BY <2>1 DEF Broken
  <2> QED
    BY <1>2, <2>1, <2>2, <2>3
<1>12. ASSUME NEW w \in Worker, Route(w) PROVE ReceivedDone'
  <2>1. /\ \A v \in Worker \ {w} : work'[v] = work[v]
        /\ UNCHANGED <<next, pending>>
    <3>1. UNCHANGED <<next, pending>>
      BY <1>12 DEF Route, SkipEvent, FilterEvent, CollectEvent, DispatchEvent, NextBinding,
             EnqueueGroup, RecordQueued, DispatchGroup, StartRow, RunAction, SettleRow, Report,
             streamVars
    <3> QED
      BY <1>1, <1>12, <3>1, RouteShape DEF RouteStep
  <2>2. CASE ~Report(w)
    <3>1. work'[w].role = work[w].role /\ work'[w].batch = work[w].batch /\ UNCHANGED acks
      BY <1>12, <2>2, RouteKeeps
    <3>2. \A e : InHand(e) => InHand(e)'
      BY <2>1, <3>1 DEF InHand, Attached
    <3>3. Broken => Broken'
      BY <3>1 DEF Broken
    <3> QED
      BY <1>2, <2>1, <3>2, <3>3
  <2>3. CASE Report(w) /\ work[w].role # "stream"
    <3>1. UNCHANGED acks
      BY <2>3 DEF Report
    <3>2. \A e : InHand(e) => InHand(e)'
      BY <2>1, <2>3 DEF InHand, Attached
    <3>3. Broken => Broken'
      BY <3>1 DEF Broken
    <3> QED
      BY <1>2, <2>1, <3>2, <3>3
  <2>4. CASE Report(w) /\ work[w].role = "stream" /\ work[w].failed
    <3>1. acks' = Append(acks, Failure)
      BY <2>4 DEF Report
    <3>2. Len(acks) + 1 \in DOMAIN acks' /\ acks'[Len(acks) + 1] = Failure
      BY <1>1, <3>1, AppendProperties
    <3>3. Broken'
      BY <3>2 DEF Broken
    <3> QED
      BY <3>3 DEF ReceivedDone
  <2>5. CASE Report(w) /\ work[w].role = "stream" /\ ~work[w].failed
    <3>1. acks' = acks \o work[w].batch
      BY <2>5 DEF Report
    <3>2. \A e \in Event : InHand(e) => InHand(e)' \/ AllDone(e)'
      <4>1. \A e : Holds(work[w].batch, e) => AllDone(e)
        BY <2>5, ReportedIsDone
      <4> QED
        BY <2>1, <4>1 DEF InHand, Attached
    <3>3. Broken => Broken'
      <4>1. work[w].batch \in Seq(Event \cup {Failure})
        BY <1>1 DEF Work
      <4>2. \A i \in DOMAIN acks : i \in DOMAIN acks' /\ acks'[i] = acks[i]
        BY <1>1, <3>1, <4>1, ConcatProperties
      <4> QED
        BY <4>2 DEF Broken
    <3> QED
      BY <1>2, <2>1, <3>2, <3>3
  <2> QED
    BY <2>2, <2>3, <2>4, <2>5
<1> QED
  BY <1>5, <1>6, <1>7, <1>8, <1>9, <1>10, <1>11, <1>12 DEF Next, Stream, Refresh

(* Threads start with nothing passed; the other steps leave them as they    *)
(* are, but for their role.                                                 *)
LEMMA ProgressStep ==
    ASSUME Typed, Running, DigestOnly, OneThread, [Next]_vars,
           \A w \in Worker : Progress(work[w]),
           \A b \in Binding, e \in Event : Done(b, e) => DoneNext(b, e)
    PROVE  \A w \in Worker : Progress(work[w])'
<1>1. work \in [Worker -> Work] /\ \A w \in Worker : Shape(work[w])
  BY DEF Typed, TypeOK
<1>2. ASSUME NEW v \in Worker, NEW r \in Work, work'[v] = r,
             \/ r = work[v] \/ r = [work[v] EXCEPT !.role = "detached"]
      PROVE  Progress(work[v])'
  <2>1. work[v] \in Work /\ Shape(work[v]) /\ Progress(work[v])
    BY <1>1
  <2>2. /\ r.batch = work[v].batch /\ r.binding = work[v].binding /\ r.pos = work[v].pos
        /\ r.groups = work[v].groups /\ r.unit = work[v].unit /\ r.done = work[v].done
        /\ r.at = work[v].at /\ r.ok = work[v].ok /\ r.failed = work[v].failed
    BY <1>2, <2>1 DEF Work
  <2>3. \A i \in DOMAIN r.batch : r.batch[i] \in Event
    BY <1>2 DEF Work
  <2>4. \A i \in DOMAIN r.unit : r.unit[i] \in Event
    BY <1>2 DEF Work
  <2>5. r.at # "check" => r.binding \in Binding
    BY <2>1, <2>2 DEF Shape
  <2>6. \A b, i : Past(r, b, i) <=> Past(work[v], b, i)
    BY <2>2 DEF Past
  <2>7. \A b, e : Waiting(r, b, e) <=> Waiting(work[v], b, e)
    BY <2>2 DEF Waiting
  <2>8. \A b \in Binding, i \in DOMAIN r.batch :
           Past(r, b, i) => DoneNext(b, r.batch[i]) \/ Waiting(r, b, r.batch[i]) \/ r.failed
    BY <2>1, <2>2, <2>3, <2>6, <2>7 DEF Progress
  <2>9. (r.at = "settle" /\ r.ok) \/ r.at = "record" =>
          \A k \in DOMAIN r.unit : k <= r.done => DoneNext(r.binding, r.unit[k])
    BY <2>1, <2>2, <2>4, <2>5 DEF Progress
  <2> QED
    BY <1>2, <2>8, <2>9 DEF Progress, Done, DoneNext
<1>3. ASSUME NEW v \in Worker, work'[v].at = "check", work'[v].binding = 1, work'[v].pos = 1,
             work'[v].batch \in Seq(Event)
      PROVE  Progress(work[v])'
  <2>1. \A b \in Binding, i \in DOMAIN work'[v].batch : ~Past(work'[v], b, i)
    BY <1>3, SizeAssumption DEF Past, Binding
  <2> QED
    BY <1>3, <2>1 DEF Progress
<1>4. ASSUME NEW w \in Worker, TakeBatch(w) \/ Flush(w) PROVE \A v \in Worker : Progress(work[v])'
  <2>1. /\ work'[w].at = "check" /\ work'[w].binding = 1 /\ work'[w].pos = 1
        /\ work'[w].batch \in Seq(Event) /\ \A v \in Worker \ {w} : work'[v] = work[v]
    <3>1. pending \in Seq(Event)
      BY DEF Typed, TypeOK
    <3>2. CASE TakeBatch(w)
      BY <1>1, <3>1, <3>2 DEF TakeBatch, IdleWork
    <3>3. CASE Flush(w)
      BY <1>1, <3>3, EmptySeq DEF Flush, IdleWork
    <3> QED
      BY <1>4, <3>2, <3>3
  <2> QED
    BY <1>1, <1>2, <1>3, <2>1
<1>5. CASE Stream \/ Refresh \/ Recover \/ ConnectorExits \/ Degrade \/ UNCHANGED vars
  <2>1. UNCHANGED work \/ work' = Detached
    BY <1>5 DEF Stream, ReceiveEvent, ReceiveCheckpoint, ApplyAck, StreamEnds, Refresh, List,
           StartStream, LeaveStream, StopStream, RestartStream, Recover, ConnectorExits, Degrade,
           vars
  <2>2. \A v \in Worker : work'[v] = work[v] \/ work'[v] = [work[v] EXCEPT !.role = "detached"]
    BY <1>1, <2>1 DEF Detached
  <2>3. \A v \in Worker : work[v] \in Work /\ [work[v] EXCEPT !.role = "detached"] \in Work
    <3>1. \A r \in Work : [r EXCEPT !.role = "detached"] \in Work
      BY DEF Work
    <3> QED
      BY <1>1, <3>1
  <2>4. \A v \in Worker : work'[v] \in Work
    BY <2>2, <2>3
  <2> QED
    BY <1>2, <2>2, <2>4
<1>6. CASE Crash
  BY <1>3, <1>6, EmptySeq DEF Crash, IdleWork
<1> QED
  BY <1>4, <1>5, <1>6, ProgressRoute DEF Next

(* Every step keeps what the checkpoint has passed dealt with.              *)
LEMMA AckedStep ==
    ASSUME Typed, Running, Acked, [Next]_vars
    PROVE  Acked'
<1>1. \A b \in Binding, e \in Event : Done(b, e) => Done(b, e)'
  BY TypedStep, DoneStays
<1>2. \A b \in Binding, e \in Event : Done(b, e) => DoneNext(b, e)
  BY <1>1 DEF Done, DoneNext
<1>3. \A e \in Event : AllDone(e) => AllDone(e)'
  <2>1. lost \subseteq lost'
    BY LostGrows DEF Typed, TypeOK
  <2> QED
    BY <1>1, <2>1 DEF AllDone
<1>4. \A w \in Worker : Progress(work[w])'
  BY <1>2, ProgressStep DEF Acked
<1>5. DigestOnly' /\ OneThread'
  BY DigestOnlyStep, OneThreadStep DEF Acked
<1>6. StoredDone' /\ AcksDone'
  BY <1>3, StoredStep, AcksStep DEF Acked
<1>7. BatchDone' /\ ReceivedDone'
  BY <1>3, BatchStep, ReceivedStep DEF Acked
<1> QED
  BY <1>4, <1>5, <1>6, <1>7 DEF Acked

(* So it is always, whatever crashes and fails.                             *)
LEMMA AckedAlways == Spec => [](Typed /\ Running /\ Acked)
<1>1. Init => Acked
  <2> SUFFICES ASSUME Init PROVE Acked
    OBVIOUS
  <2>1. \A w \in Worker : /\ work[w].role = "idle" /\ work[w].at = "check"
                          /\ work[w].batch = <<>>
    BY DEF Init, IdleWork
  <2>2. Attached = {} /\ ~Broken
    BY <2>1 DEF Attached, Broken, Init
  <2>3. \A w \in Worker : Progress(work[w])
    BY <2>1 DEF Progress
  <2>4. DigestOnly
    BY <2>1 DEF DigestOnly, Init, NoGroups
  <2>5. OneThread
    BY <2>1, <2>2 DEF OneThread, Init, NoRefresh
  <2>6. \A e \in Event : ~(e <= 0) /\ ~(e < 1)
    BY SizeAssumption DEF Event, Position
  <2>7. refresh.cursor = 0 /\ cursor = 0 /\ next = 1 /\ acks = <<>> /\ pending = <<>>
    BY DEF Init, NoRefresh
  <2>8. StoredDone /\ AcksDone /\ BatchDone /\ ReceivedDone
    BY <2>2, <2>6, <2>7 DEF StoredDone, AcksDone, BatchDone, ReceivedDone
  <2> QED
    BY <2>3, <2>4, <2>5, <2>8 DEF Acked
<1>2. Typed /\ Running /\ Acked /\ [Next]_vars => Acked'
  BY AckedStep
<1> QED
  BY <1>1, <1>2, TypedRunning, PTL DEF Spec

(* Whatever is stopped, restarted, degraded or killed, the stored cursor    *)
(* never passes an event that the history of some binding has not seen      *)
(* (apply_processed_events, process_connector_events), unless the connector *)
(* left that event out of a stream it was asked to resume.                  *)
THEOREM PassedAreSeen == Spec => []AckedSeen
<1>1. Acked => AckedSeen
  BY DEF Acked, StoredDone, AllDone, Done, Enough, AckedSeen
<1> QED
  BY <1>1, AckedAlways, PTL

(* If streams end only with a crash or with the connector's exit, every     *)
(* event behind the cursor has been completed, or given up after            *)
(* MAX_FAILED_ATTEMPTS, by each binding that dispatches directly ("Returning*)
(* an error prevents cursor ack"), unless the connector left it out.        *)
THEOREM PassedAreHandled ==
    ASSUME Orderly
    PROVE  Spec => []AckedHandled
<1>1. Acked => AckedHandled
  BY DEF Acked, StoredDone, AllDone, Done, Enough, AckedHandled, Handled
<1> QED
  BY <1>1, AckedAlways, PTL

NoneLost == lost = {}

(* A connector that resumes from the cursor it is given drops nothing: with *)
(* it an event that failed is passed by the cursor only when each binding   *)
(* that dispatches directly has completed it or used up its retries.        *)
THEOREM ResumingDropsNothing ==
    ASSUME Resumes, Orderly
    PROVE  Spec => []NothingDropped
<1>1. Init => NoneLost
  BY DEF Init, NoneLost
<1>2. NoneLost /\ Typed /\ [Next]_vars => NoneLost'
  <2>1. Typed => refresh.cursor \in Int
    BY SizeAssumption DEF Typed
  <2> QED
    BY <2>1, LostGrows DEF NoneLost
<1>3. NoneLost /\ AckedHandled => NothingDropped
  BY DEF AckedHandled, NothingDropped, NoneLost
<1>4. Spec => []AckedHandled
  BY PassedAreHandled
<1> QED
  BY <1>1, <1>2, <1>3, <1>4, TypedRunning, PTL DEF Spec

-----------------------------------------------------------------------------
(* How often an event is run.                                               *)

(* Where an event waits to be run for a binding, or runs: the groups of a   *)
(* thread, its unit, the digest.                                            *)
Grouped(w, b, e) == Holds(work[w].groups[b], e)

Runs(w, b, e) ==
    b = work[w].binding /\ work[w].at \in {"start", "run"} /\ Holds(work[w].unit, e)

Settling(w, b, e) ==
    /\ b = work[w].binding /\ work[w].at = "settle"
    /\ \E k \in DOMAIN work[w].unit : k > work[w].done /\ work[w].unit[k] = e

Has(w, b, e) == Grouped(w, b, e) \/ Runs(w, b, e) \/ Settling(w, b, e)

Recording(w, b, e) ==
    /\ work[w].role = "stream" /\ b = work[w].binding /\ work[w].at = "record"
    /\ \E k \in DOMAIN work[w].unit : k > work[w].done /\ work[w].unit[k] = e

(* There is never a second place.                                           *)
OnePlace(b, e) ==
    /\ \A v, w \in Worker : Has(v, b, e) /\ Has(w, b, e) => v = w
    /\ \A w \in Worker : Has(w, b, e) => ~Holds(digest[b], e)
    /\ \A w \in Worker : Grouped(w, b, e) => ~Runs(w, b, e) /\ ~Settling(w, b, e)

(* What is left to a flush has been recorded, or is about to be.            *)
Recorded(b, e) ==
    Holds(digest[b], e) \/ (\E w \in Worker : work[w].role = "flush" /\ Has(w, b, e)) =>
        rows[b][e].completed > 0 \/ \E w \in Worker : Recording(w, b, e)

(* A run without a completed row leaves a failed one, unless it is about to.*)
Counted(b, e) ==
    /\ tries[b][e] <= MaxFailed
    /\ rows[b][e].completed = 0 =>
          \/ tries[b][e] <= rows[b][e].failed
          \/ tries[b][e] <= rows[b][e].failed + 1 /\ \E w \in Worker : Settling(w, b, e)
    /\ Holds(digest[b], e) \/ (\E w \in Worker : Grouped(w, b, e) \/ Runs(w, b, e)) =>
          tries[b][e] < MaxFailed

(* What a direct binding is about to run has not been completed.            *)
NotYet(b, e) ==
    b \notin Digest /\ (\E w \in Worker : Grouped(w, b, e) \/ Runs(w, b, e)) =>
        rows[b][e].completed = 0

Once(b, e) ==
    Gated(b, e) => OnePlace(b, e) /\ Recorded(b, e) /\ Counted(b, e) /\ NotYet(b, e)

(* Idle threads hold nothing, and only triage bindings collect.             *)
Empty ==
    /\ \A w \in Worker : work[w].role = "idle" => work[w].groups = NoGroups
    /\ \A w \in Worker, b \in Binding \ Triage : work[w].groups[b] = <<>> /\ digest[b] = <<>>

AllOnce == Empty /\ \A b \in Binding, e \in Event : Once(b, e)

(* A step that gives the event no place and no result.                      *)
LEMMA OnceKept ==
    ASSUME Typed, Typed', NEW b \in Binding, NEW e \in Event, Once(b, e),
           tries'[b][e] = tries[b][e],
           \A w \in Worker :
              /\ Grouped(w, b, e)' => Grouped(w, b, e)
              /\ Runs(w, b, e)' => Runs(w, b, e)
              /\ Settling(w, b, e)' <=> Settling(w, b, e)
              /\ Has(w, b, e)' /\ work'[w].role = "flush" => work[w].role = "flush"
              /\ Recording(w, b, e) => Recording(w, b, e)' \/ rows'[b][e].completed > 0,
           Holds(digest[b], e)' => Holds(digest[b], e),
           rows'[b][e].failed >= rows[b][e].failed,
           rows'[b][e].completed = rows[b][e].completed \/ (rows'[b][e].completed > 0 /\ b \in Digest)
    PROVE  Once(b, e)'
<1> SUFFICES ASSUME Gated(b, e) PROVE Once(b, e)'
  BY DEF Once, Gated
<1>1. OnePlace(b, e) /\ Recorded(b, e) /\ Counted(b, e) /\ NotYet(b, e)
  BY DEF Once
<1>2. \A w \in Worker : Has(w, b, e)' => Has(w, b, e)
  BY DEF Has
<1>3. OnePlace(b, e)'
  BY <1>1, <1>2 DEF OnePlace
<1>4. Recorded(b, e)'
  BY <1>1, <1>2 DEF Recorded
<1>5. /\ rows[b][e].failed \in Nat /\ rows'[b][e].failed \in Nat /\ tries[b][e] \in Nat
      /\ rows[b][e].completed \in Nat /\ rows'[b][e].completed \in Nat
  <2>1. rows[b][e] \in Rows /\ rows'[b][e] \in Rows /\ tries[b][e] \in 0..(MaxFailed + 1)
    BY DEF Typed, TypeOK
  <2> QED
    BY <2>1, MaxFailedAssumption DEF Rows
<1>6. Counted(b, e)'
  <2>1. tries'[b][e] <= MaxFailed
    BY <1>1 DEF Counted
  <2>2. ASSUME rows'[b][e].completed = 0
        PROVE  \/ tries'[b][e] <= rows'[b][e].failed
               \/ tries'[b][e] <= rows'[b][e].failed + 1 /\ \E w \in Worker : Settling(w, b, e)'
    <3>1. \/ tries[b][e] <= rows[b][e].failed
          \/ tries[b][e] <= rows[b][e].failed + 1 /\ \E w \in Worker : Settling(w, b, e)
      BY <1>1, <1>5, <2>2 DEF Counted
    <3>2. CASE tries[b][e] <= rows[b][e].failed
      BY <1>5, <3>2
    <3>3. CASE tries[b][e] <= rows[b][e].failed + 1 /\ \E w \in Worker : Settling(w, b, e)
      <4>1. tries'[b][e] <= rows'[b][e].failed + 1
        BY <1>5, <3>3
      <4> QED
        BY <3>3, <4>1
    <3> QED
      BY <3>1, <3>2, <3>3
  <2>3. Holds(digest[b], e)' \/ (\E w \in Worker : Grouped(w, b, e)' \/ Runs(w, b, e)') =>
          tries'[b][e] < MaxFailed
    BY <1>1 DEF Counted
  <2> QED
    BY <2>1, <2>2, <2>3 DEF Counted
<1>7. NotYet(b, e)'
  BY <1>1 DEF NotYet
<1> QED
  BY <1>3, <1>4, <1>6, <1>7 DEF Once

(* What the gate lets pass has no place, and a failure for every run.       *)
LEMMA FreshIsFree ==
    ASSUME Orderly, Typed, DigestOnly, OneThread, Empty, NEW w \in Worker, InBatch(w), Fresh(w),
           NEW b \in Binding, NEW e \in Event, b = work[w].binding, e = TheEvent(w),
           Gated(b, e), Once(b, e)
    PROVE  /\ \A v \in Worker \ {w} : ~Has(v, b, e)
           /\ ~Runs(w, b, e) /\ ~Settling(w, b, e) /\ ~Holds(digest[b], e)
           /\ rows[b][e].completed = 0 /\ tries[b][e] <= rows[b][e].failed
           /\ tries[b][e] < MaxFailed /\ work[w].role # "flush"
<1>1. /\ work \in [Worker -> Work] /\ work[w].at = "check" /\ work[w].role # "idle"
      /\ work[w].batch # <<>> /\ rows[b][e] \in Rows /\ tries[b][e] \in Nat
  <2>1. /\ work \in [Worker -> Work] /\ rows \in [Binding -> [Event -> Rows]]
        /\ tries \in [Binding -> [Event -> 0..MaxFailed + 1]]
    BY DEF Typed, TypeOK
  <2>2. rows[b][e] \in Rows /\ tries[b][e] \in Nat
    BY <2>1, MaxFailedAssumption
  <2>3. work[w].at = "check" /\ work[w].role # "idle" /\ work[w].pos <= Len(work[w].batch)
    BY DEF InBatch, Routing
  <2>4. work[w].pos \in Nat \ {0}
    BY <2>1 DEF Work
  <2>5. work[w].batch # <<>>
    BY <2>3, <2>4, EmptySeq
  <2> QED
    BY <2>1, <2>2, <2>3, <2>5
<1>2. w \in Attached
  BY <1>1 DEF Attached, OneThread, DigestOnly, Work
<1>3. rows[b][e].completed = 0 /\ rows[b][e].failed < MaxFailed
  <2>1. Decision(rows[b][e]) = "allow"
    BY DEF Fresh, TheRows
  <2>2. rows[b][e].running \in Nat /\ rows[b][e].completed \in Nat /\ rows[b][e].failed \in Nat
    BY <1>1 DEF Rows
  <2> QED
    BY <2>1, <2>2, MaxFailedAssumption DEF Decision
<1>4. \A v \in Worker : ~Recording(v, b, e)
  BY <1>1, <1>2 DEF Recording, Attached, OneThread
<1>5. ~Holds(digest[b], e) /\ \A v \in Worker : work[v].role = "flush" => ~Has(v, b, e)
  BY <1>3, <1>4 DEF Once, Recorded
<1>6. ASSUME NEW v \in Worker \ {w} PROVE ~Has(v, b, e)
  <2>1. work[v].role \in {"idle", "flush"}
    BY <1>1, <1>2, <1>6 DEF Attached, OneThread, Work
  <2>2. CASE work[v].role = "idle"
    <3>1. work[v].at = "check" /\ work[v].groups[b] = <<>>
      BY <2>2 DEF Typed, Shape, Empty, NoGroups
    <3> QED
      BY <3>1 DEF Has, Grouped, Runs, Settling, Holds
  <2> QED
    BY <1>5, <2>1, <2>2
<1>7. ~Runs(w, b, e) /\ ~Settling(w, b, e)
  BY <1>1 DEF Runs, Settling
<1>8. tries[b][e] <= rows[b][e].failed
  <2>1. \A v \in Worker : ~Settling(v, b, e)
    BY <1>6, <1>7 DEF Has
  <2> QED
    BY <1>3, <2>1 DEF Once, Counted
<1>9. tries[b][e] < MaxFailed
  BY <1>1, <1>3, <1>8, MaxFailedAssumption DEF Rows
<1>10. work[w].role # "flush"
  BY <1>2 DEF Attached
<1> QED
  BY <1>3, <1>5, <1>6, <1>7, <1>8, <1>9, <1>10

(* A thread's steps leave the places of the others alone.                   *)
LEMMA OtherPlaces ==
    ASSUME NEW v \in Worker, work'[v] = work[v], NEW b, NEW e
    PROVE  /\ Grouped(v, b, e)' <=> Grouped(v, b, e)
           /\ Runs(v, b, e)' <=> Runs(v, b, e)
           /\ Settling(v, b, e)' <=> Settling(v, b, e)
           /\ Has(v, b, e)' <=> Has(v, b, e)
           /\ Recording(v, b, e)' <=> Recording(v, b, e)
BY DEF Grouped, Runs, Settling, Has, Recording

(* The new place of an event that the gate has let pass.                    *)
LEMMA OncePlaced ==
    ASSUME Orderly, Typed, DigestOnly, OneThread, Empty, NEW w \in Worker, InBatch(w), Fresh(w),
           NEW b \in Binding, NEW e \in Event, b = work[w].binding, e = TheEvent(w), Once(b, e),
           \A v \in Worker \ {w} : work'[v] = work[v],
           UNCHANGED <<rows, tries, digest>>, work'[w].role = work[w].role,
           ~Settling(w, b, e)', Grouped(w, b, e)' => ~Runs(w, b, e)'
    PROVE  Once(b, e)'
<1> SUFFICES ASSUME Gated(b, e) PROVE Once(b, e)'
  BY DEF Once, Gated
<1>1. /\ \A v \in Worker \ {w} : ~Has(v, b, e)
      /\ ~Holds(digest[b], e) /\ rows[b][e].completed = 0
      /\ tries[b][e] <= rows[b][e].failed /\ tries[b][e] < MaxFailed /\ work[w].role # "flush"
  BY FreshIsFree
<1>2. \A v \in Worker \ {w} : ~Has(v, b, e)'
  BY <1>1, OtherPlaces
<1>3. ~Holds(digest[b], e)'
  BY <1>1
<1>4. OnePlace(b, e)'
  BY <1>2, <1>3 DEF OnePlace, Has
<1>5. Recorded(b, e)'
  BY <1>1, <1>2, <1>3 DEF Recorded
<1>6. Counted(b, e)'
  <2>1. tries[b][e] <= MaxFailed
    BY <1>1, MaxFailedAssumption DEF Typed, TypeOK
  <2> QED
    BY <1>1, <2>1 DEF Counted
<1>7. NotYet(b, e)'
  BY <1>1 DEF NotYet
<1> QED
  BY <1>4, <1>5, <1>6, <1>7 DEF Once

(* Skipping, filtering, recording and starting rows, going to the next      *)
(* binding, coming back.                                                    *)
LEMMA OnceQuiet ==
    ASSUME Typed, Typed', Running, NEW w \in Worker, NEW b \in Binding, NEW e \in Event, Once(b, e),
           DigestOnly, Gated(b, e),
           SkipEvent(w) \/ FilterEvent(w) \/ NextBinding(w) \/ RecordQueued(w) \/ StartRow(w) \/ Report(w)
    PROVE  Once(b, e)'
<1>1. /\ work \in [Worker -> Work] /\ work[w] \in Work /\ Shape(work[w])
      /\ \A v \in Worker \ {w} : work'[v] = work[v]
  BY RouteShape DEF Typed, TypeOK, Route, RouteStep
<1>2. UNCHANGED <<tries, digest>>
  BY DEF SkipEvent, FilterEvent, NextBinding, RecordQueued, StartRow, Report, digestVars
<1>3. rows[b][e] \in Rows /\ rows'[b][e] \in Rows /\ rows \in [Binding -> [Event -> Rows]]
  BY DEF Typed, TypeOK
<1>4. rows[b][e].failed \in Nat /\ rows[b][e].completed \in Nat /\ rows'[b][e].completed \in Nat
  BY <1>3 DEF Rows
<1>5. ASSUME \/ Grouped(w, b, e)' <=> Grouped(w, b, e)
             \/ ~Grouped(w, b, e)',
             Runs(w, b, e)' <=> Runs(w, b, e),
             Settling(w, b, e)' <=> Settling(w, b, e),
             work'[w].role \in {work[w].role, "idle"},
             Recording(w, b, e) => Recording(w, b, e)' \/ rows'[b][e].completed > 0,
             rows'[b][e].failed = rows[b][e].failed,
             rows'[b][e].completed = rows[b][e].completed \/ (rows'[b][e].completed > 0 /\ b \in Digest)
      PROVE  Once(b, e)'
  <2>1. \A v \in Worker :
              /\ Grouped(v, b, e)' => Grouped(v, b, e)
              /\ Runs(v, b, e)' => Runs(v, b, e)
              /\ Settling(v, b, e)' <=> Settling(v, b, e)
              /\ Has(v, b, e)' /\ work'[v].role = "flush" => work[v].role = "flush"
              /\ Recording(v, b, e) => Recording(v, b, e)' \/ rows'[b][e].completed > 0
    BY <1>1, <1>5, OtherPlaces
  <2>2. rows'[b][e].failed >= rows[b][e].failed
    BY <1>4, <1>5
  <2>3. Holds(digest[b], e)' => Holds(digest[b], e)
    BY <1>2
  <2> QED
    BY <1>2, <1>5, <2>1, <2>2, <2>3, OnceKept
<1>6. ASSUME work[w].at = "check", work'[w].at = "check"
      PROVE  /\ ~Runs(w, b, e)' /\ ~Runs(w, b, e) /\ ~Settling(w, b, e)' /\ ~Settling(w, b, e)
             /\ ~Recording(w, b, e)
  BY <1>6 DEF Runs, Settling, Recording
<1>7. CASE SkipEvent(w) \/ NextBinding(w)
  <2>1. /\ work[w].at = "check" /\ work'[w].at = "check" /\ work'[w].role = work[w].role
        /\ work'[w].groups = work[w].groups /\ UNCHANGED rows
    BY <1>1, <1>7 DEF SkipEvent, NextBinding, Advance, InBatch, AfterBatch, Routing, Work
  <2>2. Grouped(w, b, e)' <=> Grouped(w, b, e)
    BY <2>1 DEF Grouped
  <2> QED
    BY <1>5, <1>6, <2>1, <2>2
<1>8. CASE FilterEvent(w)
  <2>1. /\ work[w].at = "check" /\ work'[w].at = "check" /\ work'[w].role = work[w].role
        /\ work'[w].groups = work[w].groups
    BY <1>1, <1>8 DEF FilterEvent, Advance, InBatch, Routing, Work
  <2>2. Grouped(w, b, e)' <=> Grouped(w, b, e)
    BY <2>1 DEF Grouped
  <2>3. <<work[w].binding, TheEvent(w)>> # <<b, e>>
    BY <1>8 DEF FilterEvent, Wanted, Gated
  <2>4. rows'[b][e] = rows[b][e]
    BY <1>3, <1>8, <2>3 DEF FilterEvent, UpdateRows
  <2> QED
    BY <1>5, <1>6, <2>1, <2>2, <2>4
<1>9. CASE RecordQueued(w)
  <2> DEFINE n == work[w].done + 1
  <2>1. /\ work[w].at = "record" /\ work[w].binding \in Digest /\ work[w].unit[n] \in Event
        /\ work[w].unit \in Seq(Event) /\ work[w].done \in Nat /\ n \in DOMAIN work[w].unit
        /\ work[w].binding \in Binding
    <3>1. work[w].at = "record"
      BY <1>9 DEF RecordQueued, Routing
    <3>2. work[w].unit \in Seq(Event) /\ work[w].done \in Nat
      BY <1>1 DEF Work
    <3>3. n \in DOMAIN work[w].unit /\ work[w].binding \in Binding
      BY <1>1, <3>1 DEF Shape
    <3> QED
      BY <3>1, <3>2, <3>3 DEF DigestOnly
  <2>2. /\ work'[w].groups = work[w].groups /\ work'[w].role = work[w].role
        /\ work'[w].binding = work[w].binding
        /\ \/ n = Len(work[w].unit) /\ work'[w].at = "check"
           \/ n # Len(work[w].unit) /\ work'[w].at = "record" /\ work'[w].unit = work[w].unit
              /\ work'[w].done = n
    <3>1. CASE n = Len(work[w].unit)
      BY <1>1, <1>9, <3>1 DEF RecordQueued, UnitDone, Work
    <3>2. CASE n # Len(work[w].unit)
      BY <1>1, <1>9, <2>1, <3>2 DEF RecordQueued, Work
    <3> QED
      BY <3>1, <3>2
  <2>3. rows'[b][e] = IF b = work[w].binding /\ e = work[w].unit[n] THEN WithOutcome(rows[b][e])
                      ELSE rows[b][e]
    BY <1>3, <1>9, <2>1 DEF RecordQueued, UpdateRows
  <2>4. /\ rows'[b][e].failed = rows[b][e].failed
        /\ b = work[w].binding /\ e = work[w].unit[n] => rows'[b][e].completed > 0
        /\ ~(b = work[w].binding /\ e = work[w].unit[n]) => rows'[b][e].completed = rows[b][e].completed
    <3>1. WithOutcome(rows[b][e]).failed = rows[b][e].failed /\ WithOutcome(rows[b][e]).completed > 0
      BY <1>3, <1>4, RowOps
    <3> QED
      BY <2>3, <3>1
  <2>5. \A k \in DOMAIN work[w].unit : /\ k > work[w].done => k = n \/ k > n
                                       /\ n = Len(work[w].unit) => ~(k > n)
    BY <2>1
  <2>6. ASSUME Recording(w, b, e), ~(rows'[b][e].completed > 0) PROVE Recording(w, b, e)'
    <3>1. /\ work[w].role = "stream" /\ b = work[w].binding
          /\ \E k \in DOMAIN work[w].unit : k > work[w].done /\ work[w].unit[k] = e
      BY <2>6 DEF Recording
    <3>2. e # work[w].unit[n]
      BY <2>4, <2>6, <3>1
    <3>3. \E k \in DOMAIN work[w].unit : k > n /\ work[w].unit[k] = e
      BY <2>5, <3>1, <3>2
    <3>4. n # Len(work[w].unit)
      BY <2>5, <3>3
    <3> HIDE DEF n
    <3> QED
      BY <2>2, <3>1, <3>3, <3>4 DEF Recording
  <2>7. /\ ~Runs(w, b, e)' /\ ~Runs(w, b, e) /\ ~Settling(w, b, e)' /\ ~Settling(w, b, e)
    BY <2>1, <2>2 DEF Runs, Settling
  <2>8. Grouped(w, b, e)' <=> Grouped(w, b, e)
    BY <2>2 DEF Grouped
  <2> HIDE DEF n
  <2> QED
    BY <1>5, <2>1, <2>2, <2>4, <2>6, <2>7, <2>8
<1>10. CASE StartRow(w)
  <2>1. PICK c \in Binding, n \in Nat, f \in Event : Starts(w, c, n, f)
    BY <1>10, StartEffect
  <2>2. /\ work'[w].groups = work[w].groups /\ work'[w].role = work[w].role
        /\ work'[w].binding = work[w].binding /\ work'[w].unit = work[w].unit
        /\ work[w].at = "start" /\ work'[w].at \in {"start", "run"}
    BY <1>1, <2>1 DEF Starts, Work
  <2>3. rows'[b][e] = IF b = c /\ e = f THEN WithStarted(rows[b][e]) ELSE rows[b][e]
    BY <1>3, <2>1 DEF Starts
  <2>4. rows'[b][e].failed = rows[b][e].failed /\ rows'[b][e].completed = rows[b][e].completed
    BY <1>3, <2>3, RowOps
  <2>5. /\ Grouped(w, b, e)' <=> Grouped(w, b, e)
        /\ Runs(w, b, e)' <=> Runs(w, b, e)
        /\ ~Settling(w, b, e)' /\ ~Settling(w, b, e) /\ ~Recording(w, b, e)
    BY <2>2 DEF Grouped, Runs, Settling, Recording
  <2> QED
    BY <1>5, <2>2, <2>4, <2>5
<1>11. CASE Report(w)
  <2>1. /\ work[w].at = "check" /\ work'[w].at = "check" /\ work'[w].role = "idle"
        /\ work'[w].groups = NoGroups /\ UNCHANGED rows
    BY <1>1, <1>11 DEF Report, IdleWork, Routing
  <2>2. ~Grouped(w, b, e)'
    BY <2>1 DEF Grouped, NoGroups, Holds
  <2> QED
    BY <1>5, <1>6, <2>1, <2>2
<1> QED
  BY <1>7, <1>8, <1>9, <1>10, <1>11

(* Collecting an event, or dispatching it, gives it its place.              *)
LEMMA OnceTaken ==
    ASSUME Orderly, Typed, Typed', DigestOnly, OneThread, Empty, NEW w \in Worker,
           NEW b \in Binding, NEW e \in Event, Once(b, e), Gated(b, e),
           CollectEvent(w) \/ DispatchEvent(w)
    PROVE  Once(b, e)'
<1>1. /\ work \in [Worker -> Work] /\ work[w] \in Work /\ Shape(work[w])
      /\ \A v \in Worker \ {w} : work'[v] = work[v]
  BY RouteShape DEF Typed, TypeOK, Route, RouteStep
<1>2. UNCHANGED <<rows, tries, digest>> /\ InBatch(w) /\ work[w].at = "check"
  BY DEF CollectEvent, DispatchEvent, InBatch, Routing, digestVars
<1>3. /\ work[w].binding \in Binding /\ TheEvent(w) \in Event
      /\ work[w].groups \in [Binding -> Seq(Event)]
  BY <1>1, <1>2 DEF InBatch, TheEvent, Work
<1>4. ~Runs(w, b, e) /\ ~Settling(w, b, e) /\ ~Recording(w, b, e)
  BY <1>2 DEF Runs, Settling, Recording
<1>5. work'[w].role = work[w].role
  BY RouteKeeps, <1>2 DEF Route, Report, InBatch
<1>6. /\ work'[w].binding = work[w].binding /\ work'[w].at \in {"check", "start"}
      /\ Grouped(w, b, e)' => Grouped(w, b, e) \/ (b = work[w].binding /\ e = TheEvent(w) /\ CollectEvent(w))
      /\ Runs(w, b, e)' => b = work[w].binding /\ e = TheEvent(w) /\ ~CollectEvent(w)
  <2>1. CASE CollectEvent(w)
    <3> DEFINE g == Append(work[w].groups[work[w].binding], TheEvent(w))
    <3>1. /\ work'[w].binding = work[w].binding /\ work'[w].at = "check"
          /\ work'[w].groups = [work[w].groups EXCEPT ![work[w].binding] = g]
      BY <1>1, <1>2, <2>1 DEF CollectEvent, Advance, Work
    <3>2. work'[w].groups[b] = IF b = work[w].binding THEN g ELSE work[w].groups[b]
      BY <1>3, <3>1
    <3>3. Holds(g, e) <=> Holds(work[w].groups[work[w].binding], e) \/ e = TheEvent(w)
      <4>1. work[w].groups[work[w].binding] \in Seq(Event)
        BY <1>3
      <4> QED
        BY <1>3, <4>1, HoldsAppend
    <3> HIDE DEF g
    <3> QED
      BY <2>1, <3>1, <3>2, <3>3 DEF Grouped, Runs
  <2>2. CASE ~CollectEvent(w)
    <3>1. /\ work'[w].binding = work[w].binding /\ work'[w].at = "start"
          /\ work'[w].groups = work[w].groups /\ work'[w].unit = <<TheEvent(w)>>
      <4>1. DispatchEvent(w)
        BY <2>2
      <4> QED
        BY <1>1, <4>1 DEF DispatchEvent, Advance, Work
    <3>2. Holds(work'[w].unit, e) => e = TheEvent(w)
      BY <3>1 DEF Holds
    <3> QED
      BY <2>2, <3>1, <3>2 DEF Grouped, Runs
  <2> QED
    BY <2>1, <2>2
<1>7. ~Settling(w, b, e)'
  BY <1>6 DEF Settling
<1>8. CASE b = work[w].binding /\ e = TheEvent(w)
  <2>1. Fresh(w)
    BY <1>8 DEF CollectEvent, DispatchEvent, Gated
  <2>2. Grouped(w, b, e)' => ~Runs(w, b, e)'
    <3>1. CASE CollectEvent(w)
      BY <1>6, <3>1
    <3>2. CASE ~CollectEvent(w)
      <4>1. b \notin Triage
        BY <1>8, <3>2 DEF DispatchEvent, Gated
      <4>2. ~Grouped(w, b, e)
        BY <4>1 DEF Empty, Grouped, Holds
      <4> QED
        BY <1>6, <3>2, <4>2
    <3> QED
      BY <3>1, <3>2
  <2> QED
    BY <1>1, <1>2, <1>5, <1>7, <1>8, <2>1, <2>2, OncePlaced
<1>9. CASE ~(b = work[w].binding /\ e = TheEvent(w))
  <2>1. \A v \in Worker :
              /\ Grouped(v, b, e)' => Grouped(v, b, e)
              /\ Runs(v, b, e)' => Runs(v, b, e)
              /\ Settling(v, b, e)' <=> Settling(v, b, e)
              /\ Has(v, b, e)' /\ work'[v].role = "flush" => work[v].role = "flush"
              /\ Recording(v, b, e) => Recording(v, b, e)' \/ rows'[b][e].completed > 0
    BY <1>1, <1>4, <1>5, <1>6, <1>7, <1>9, OtherPlaces
  <2>2. rows'[b][e].failed >= rows[b][e].failed /\ rows'[b][e].completed = rows[b][e].completed
        /\ tries'[b][e] = tries[b][e] /\ (Holds(digest[b], e)' => Holds(digest[b], e))
    BY <1>2 DEF Typed, TypeOK, Rows
  <2> QED
    BY <2>1, <2>2, OnceKept
<1> QED
  BY <1>8, <1>9

(* The group of a binding goes to the digest or to the thread's unit, what  *)
(* is in the digest to the groups of a flush.                               *)
LEMMA OnceMoved ==
    ASSUME Orderly, Typed, Typed', DigestOnly, Empty, NEW w \in Worker,
           NEW b \in Binding, NEW e \in Event, Once(b, e), Gated(b, e),
           EnqueueGroup(w) \/ DispatchGroup(w) \/ Flush(w) \/ TakeBatch(w),
           \A v \in Worker : work[v].role # "detached"
    PROVE  Once(b, e)'
<1>1. /\ work \in [Worker -> Work] /\ work[w] \in Work /\ Shape(work[w])
      /\ digest \in [Binding -> Seq(Event)] /\ tries[b][e] \in Nat
      /\ rows[b][e] \in Rows
  <2>1. /\ work \in [Worker -> Work] /\ rows \in [Binding -> [Event -> Rows]]
        /\ tries \in [Binding -> [Event -> 0..MaxFailed + 1]]
        /\ digest \in [Binding -> Seq(Event)] /\ Shape(work[w])
    BY DEF Typed, TypeOK
  <2> QED
    BY <2>1, MaxFailedAssumption
<1>2. /\ \A v \in Worker \ {w} : work'[v] = work[v]
      /\ UNCHANGED <<rows, tries>> /\ work[w].at = "check"
  BY <1>1 DEF EnqueueGroup, DispatchGroup, Flush, TakeBatch, AfterBatch, Routing, Shape
<1>3. OnePlace(b, e) /\ Recorded(b, e) /\ Counted(b, e) /\ NotYet(b, e)
  BY DEF Once
<1>4. ~Runs(w, b, e) /\ ~Settling(w, b, e) /\ ~Recording(w, b, e)
  BY <1>2 DEF Runs, Settling, Recording
<1>5. \A v \in Worker \ {w} : /\ Grouped(v, b, e)' <=> Grouped(v, b, e)
                              /\ Runs(v, b, e)' <=> Runs(v, b, e)
                              /\ Settling(v, b, e)' <=> Settling(v, b, e)
                              /\ Has(v, b, e)' <=> Has(v, b, e)
                              /\ Recording(v, b, e)' <=> Recording(v, b, e)
  BY <1>2, OtherPlaces
<1>6. ASSUME Grouped(w, b, e)' => Grouped(w, b, e), ~Runs(w, b, e)', ~Settling(w, b, e)',
             Has(w, b, e)' /\ work'[w].role = "flush" => work[w].role = "flush",
             Holds(digest[b], e)' => Holds(digest[b], e)
      PROVE  Once(b, e)'
  <2>1. \A v \in Worker :
              /\ Grouped(v, b, e)' => Grouped(v, b, e)
              /\ Runs(v, b, e)' => Runs(v, b, e)
              /\ Settling(v, b, e)' <=> Settling(v, b, e)
              /\ Has(v, b, e)' /\ work'[v].role = "flush" => work[v].role = "flush"
              /\ Recording(v, b, e) => Recording(v, b, e)' \/ rows'[b][e].completed > 0
    BY <1>2, <1>4, <1>5, <1>6
  <2>2. rows'[b][e].failed >= rows[b][e].failed /\ rows'[b][e].completed = rows[b][e].completed
        /\ tries'[b][e] = tries[b][e]
    BY <1>1, <1>2 DEF Rows
  <2> QED
    BY <1>6, <2>1, <2>2, OnceKept
<1>7. ASSUME Holds(digest[b], e) \/ Grouped(w, b, e), \A v \in Worker \ {w} : ~Has(v, b, e),
             Has(w, b, e)' => ~Holds(digest[b], e)',
             Grouped(w, b, e)' => ~Runs(w, b, e)', ~Settling(w, b, e)',
             b \notin Digest => rows[b][e].completed = 0,
             Holds(digest[b], e)' \/ (work'[w].role = "flush" /\ Has(w, b, e)') =>
                rows[b][e].completed > 0 \/ \E v \in Worker : Recording(v, b, e)'
      PROVE  Once(b, e)'
  <2>1. tries[b][e] < MaxFailed /\ \A v \in Worker : ~Settling(v, b, e)
    BY <1>3, <1>4, <1>7 DEF Counted, Has
  <2>2. rows[b][e].completed = 0 => tries[b][e] <= rows[b][e].failed
    BY <1>3, <2>1 DEF Counted
  <2>3. OnePlace(b, e)'
    BY <1>5, <1>7 DEF OnePlace, Has
  <2>4. Recorded(b, e)'
    BY <1>2, <1>5, <1>7 DEF Recorded
  <2>5. Counted(b, e)'
    <3>1. tries[b][e] <= MaxFailed
      BY <1>3 DEF Counted
    <3> QED
      BY <1>2, <2>1, <2>2, <3>1 DEF Counted
  <2>6. NotYet(b, e)'
    BY <1>2, <1>7 DEF NotYet
  <2> QED
    BY <2>3, <2>4, <2>5, <2>6 DEF Once
<1>8. CASE EnqueueGroup(w) \/ DispatchGroup(w)
  <2> DEFINE c == work[w].binding
  <2>1. /\ work'[w].role = work[w].role /\ work'[w].binding = c /\ c \in Binding
        /\ work'[w].groups = [work[w].groups EXCEPT ![c] = <<>>]
        /\ work'[w].unit = work[w].groups[c] /\ work'[w].done = 0
    <3>1. CASE EnqueueGroup(w)
      BY <1>1, <3>1 DEF EnqueueGroup, AfterBatch, Group, Work
    <3>2. CASE DispatchGroup(w)
      BY <1>1, <3>2 DEF DispatchGroup, AfterBatch, Group, Work
    <3> QED
      BY <1>8, <3>1, <3>2
  <2>2. work[w].groups \in [Binding -> Seq(Event)]
    BY <1>1 DEF Work
  <2>3. work'[w].groups[b] = IF b = c THEN <<>> ELSE work[w].groups[b]
    BY <2>1, <2>2
  <2>4. Grouped(w, b, e)' => Grouped(w, b, e) /\ b # c
    BY <2>3 DEF Grouped, Holds
  <2>5. CASE EnqueueGroup(w)
    <3>1. /\ work'[w].at = "record" /\ c \in Digest /\ work[w].role # "flush"
          /\ digest' = [digest EXCEPT ![c] = digest[c] \o work[w].groups[c]]
      BY <1>1, <2>5 DEF EnqueueGroup, Group, Work
    <3>2. ~Runs(w, b, e)' /\ ~Settling(w, b, e)'
      BY <3>1 DEF Runs, Settling
    <3>3. Holds(digest[b], e)' <=> Holds(digest[b], e) \/ (b = c /\ Grouped(w, b, e))
      <4>1. digest'[b] = IF b = c THEN digest[c] \o work[w].groups[c] ELSE digest[b]
        BY <1>1, <2>1, <3>1
      <4>2. digest[c] \in Seq(Event) /\ work[w].groups[c] \in Seq(Event)
        BY <1>1, <2>1, <2>2
      <4>3. Holds(digest[c] \o work[w].groups[c], e) <=> Holds(digest[c], e) \/ Holds(work[w].groups[c], e)
        BY <4>2, HoldsConcat
      <4> QED
        BY <4>1, <4>3 DEF Grouped
    <3>4. CASE ~(b = c /\ Grouped(w, b, e))
      BY <1>6, <2>1, <2>4, <3>2, <3>3, <3>4
    <3>5. CASE b = c /\ Grouped(w, b, e)
      <4>1. Recording(w, b, e)'
        <5>1. work[w].role = "stream"
          <6>1. work[w].role # "idle"
            BY <2>5 DEF EnqueueGroup, AfterBatch, Routing
          <6> QED
            BY <1>1, <3>1, <6>1 DEF Work
        <5>2. \E k \in DOMAIN work'[w].unit : k > work'[w].done /\ work'[w].unit[k] = e
          <6>1. PICK k \in DOMAIN work[w].groups[c] : work[w].groups[c][k] = e
            BY <3>5 DEF Grouped, Holds
          <6>2. k > 0
            BY <2>1, <2>2
          <6> QED
            BY <2>1, <6>1, <6>2
        <5> QED
          BY <2>1, <3>1, <3>5, <5>1, <5>2 DEF Recording
      <4>2. \A v \in Worker \ {w} : ~Has(v, b, e)
        BY <1>3, <3>5 DEF OnePlace, Has
      <4>3. ~Has(w, b, e)'
        BY <2>4, <3>2, <3>5 DEF Has
      <4> QED
        BY <1>7, <3>1, <3>2, <3>5, <4>1, <4>2, <4>3 DEF Has
    <3> QED
      BY <3>4, <3>5
  <2>6. CASE ~EnqueueGroup(w)
    <3>1. work'[w].at = "start" /\ UNCHANGED digest
      BY <1>1, <1>8, <2>6 DEF DispatchGroup, digestVars, Work
    <3>2. ~Settling(w, b, e)' /\ ~Recording(w, b, e)'
      BY <3>1 DEF Settling, Recording
    <3>3. Runs(w, b, e)' <=> b = c /\ Grouped(w, b, e)
      BY <2>1, <3>1 DEF Runs, Grouped, Holds
    <3>4. CASE ~(b = c /\ Grouped(w, b, e))
      BY <1>6, <2>1, <2>4, <3>1, <3>2, <3>3, <3>4
    <3>5. CASE b = c /\ Grouped(w, b, e)
      <4>1. /\ \A v \in Worker \ {w} : ~Has(v, b, e)
            /\ ~Holds(digest[b], e)
        BY <1>3, <3>5 DEF OnePlace, Has
      <4>2. b \notin Digest => rows[b][e].completed = 0
        BY <1>3, <3>5 DEF NotYet
      <4>3. work[w].role = "flush" => rows[b][e].completed > 0 \/ \E v \in Worker : Recording(v, b, e)
        BY <1>3, <3>5 DEF Recorded, Has
      <4>4. work[w].role = "flush" => rows[b][e].completed > 0 \/ \E v \in Worker : Recording(v, b, e)'
        BY <1>4, <1>5, <4>3
      <4>5. ~Holds(digest[b], e)'
        BY <3>1, <4>1
      <4>6. ~Grouped(w, b, e)'
        BY <2>4, <3>5
      <4> HIDE DEF c
      <4> QED
        BY <1>7, <2>1, <3>2, <3>5, <4>1, <4>2, <4>4, <4>5, <4>6
    <3> QED
      BY <3>4, <3>5
  <2> QED
    BY <2>5, <2>6
<1>9. CASE Flush(w)
  <2>1. /\ work'[w].groups = digest /\ work'[w].at = "check" /\ digest' = NoGroups
        /\ work[w].role = "idle"
    BY <1>1, <1>9 DEF Flush, IdleWork
  <2>2. /\ ~Runs(w, b, e)' /\ ~Settling(w, b, e)' /\ ~Holds(digest[b], e)'
        /\ Grouped(w, b, e)' <=> Holds(digest[b], e)
    BY <2>1 DEF Runs, Settling, Grouped, Holds, NoGroups
  <2>3. CASE ~Holds(digest[b], e)
    BY <1>6, <2>2, <2>3 DEF Has
  <2>4. CASE Holds(digest[b], e)
    <3>1. \A v \in Worker : ~Has(v, b, e)
      BY <1>3, <2>4 DEF OnePlace
    <3>2. b \in Digest
      BY <2>4 DEF DigestOnly, Holds
    <3>3. rows[b][e].completed > 0 \/ \E v \in Worker : Recording(v, b, e)
      BY <1>3, <2>4 DEF Recorded
    <3>4. rows[b][e].completed > 0 \/ \E v \in Worker : Recording(v, b, e)'
      BY <1>4, <1>5, <3>3
    <3> QED
      BY <1>7, <2>2, <2>4, <3>1, <3>2, <3>4
  <2> QED
    BY <2>3, <2>4
<1>10. CASE TakeBatch(w)
  <2>1. /\ work'[w].groups = NoGroups /\ work'[w].at = "check" /\ UNCHANGED digest
    BY <1>1, <1>10 DEF TakeBatch, IdleWork, digestVars
  <2>2. ~Runs(w, b, e)' /\ ~Settling(w, b, e)' /\ ~Grouped(w, b, e)'
    BY <2>1 DEF Runs, Settling, Grouped, Holds, NoGroups
  <2>3. ~Has(w, b, e)' /\ (Holds(digest[b], e)' => Holds(digest[b], e))
    BY <2>1, <2>2 DEF Has
  <2> QED
    BY <1>6, <2>2, <2>3
<1> QED
  BY <1>8, <1>9, <1>10

(* A run takes one of the attempts left.                                    *)
LEMMA OnceRun ==
    ASSUME Typed, Typed', NEW w \in Worker, NEW b \in Binding, NEW e \in Event, Once(b, e),
           Gated(b, e), RunAction(w)
    PROVE  Once(b, e)'
<1>1. /\ work \in [Worker -> Work] /\ work[w] \in Work
      /\ tries[b][e] \in Nat /\ rows[b][e] \in Rows
  BY MaxFailedAssumption DEF Typed, TypeOK
<1>2. /\ \A v \in Worker \ {w} : work'[v] = work[v]
      /\ UNCHANGED <<rows, digest>>
      /\ work[w].at = "run" /\ work'[w].at = "settle" /\ work'[w].done = 0
      /\ work'[w].unit = work[w].unit /\ work'[w].binding = work[w].binding
      /\ work'[w].groups = work[w].groups /\ work'[w].role = work[w].role
  BY <1>1 DEF RunAction, Routing, Work, digestVars
<1>3. \A k \in DOMAIN work[w].unit : k > 0
  BY <1>1 DEF Work
<1>4. /\ ~Runs(w, b, e)' /\ ~Settling(w, b, e) /\ ~Recording(w, b, e)
      /\ Settling(w, b, e)' <=> Runs(w, b, e)
      /\ Grouped(w, b, e)' <=> Grouped(w, b, e)
  BY <1>2, <1>3 DEF Runs, Settling, Recording, Grouped, Holds
<1>5. \A v \in Worker \ {w} : /\ Grouped(v, b, e)' <=> Grouped(v, b, e)
                              /\ Runs(v, b, e)' <=> Runs(v, b, e)
                              /\ Settling(v, b, e)' <=> Settling(v, b, e)
                              /\ Has(v, b, e)' <=> Has(v, b, e)
                              /\ Recording(v, b, e)' <=> Recording(v, b, e)
  BY <1>2, OtherPlaces
<1>6. Runs(w, b, e) <=> InUnit(w, b, e)
  BY <1>2 DEF Runs, InUnit, Holds
<1>7. tries'[b][e] = IF InUnit(w, b, e) /\ tries[b][e] <= MaxFailed THEN tries[b][e] + 1 ELSE tries[b][e]
  BY DEF RunAction
<1>8. OnePlace(b, e) /\ Recorded(b, e) /\ Counted(b, e) /\ NotYet(b, e)
  BY DEF Once
<1>9. CASE ~Runs(w, b, e)
  <2>1. \A v \in Worker :
              /\ Grouped(v, b, e)' => Grouped(v, b, e)
              /\ Runs(v, b, e)' => Runs(v, b, e)
              /\ Settling(v, b, e)' <=> Settling(v, b, e)
              /\ Has(v, b, e)' /\ work'[v].role = "flush" => work[v].role = "flush"
              /\ Recording(v, b, e) => Recording(v, b, e)' \/ rows'[b][e].completed > 0
    BY <1>2, <1>4, <1>5, <1>9
  <2>2. rows'[b][e].failed >= rows[b][e].failed /\ rows'[b][e].completed = rows[b][e].completed
        /\ tries'[b][e] = tries[b][e] /\ (Holds(digest[b], e)' => Holds(digest[b], e))
    BY <1>1, <1>2, <1>6, <1>7, <1>9 DEF Rows
  <2> QED
    BY <2>1, <2>2, OnceKept
<1>10. CASE Runs(w, b, e)
  <2>1. /\ \A v \in Worker \ {w} : ~Has(v, b, e)
        /\ ~Holds(digest[b], e) /\ ~Grouped(w, b, e) /\ tries[b][e] < MaxFailed
    BY <1>8, <1>10 DEF OnePlace, Has, Counted
  <2>2. \A v \in Worker : ~Settling(v, b, e)
    BY <1>4, <2>1 DEF Has
  <2>3. rows[b][e].completed = 0 => tries[b][e] <= rows[b][e].failed
    BY <1>8, <2>2 DEF Counted
  <2>4. /\ tries'[b][e] <= MaxFailed
        /\ rows[b][e].completed = 0 => tries'[b][e] <= rows[b][e].failed + 1
    BY <1>1, <1>6, <1>7, <1>10, <2>1, <2>3, MaxFailedAssumption DEF Rows
  <2>5. /\ \A v \in Worker \ {w} : ~Has(v, b, e)'
        /\ ~Holds(digest[b], e)' /\ ~Grouped(w, b, e)'
    BY <1>2, <1>4, <1>5, <2>1
  <2>6. OnePlace(b, e)'
    BY <1>4, <2>5 DEF OnePlace, Has
  <2>7. Recorded(b, e)'
    <3>1. work[w].role = "flush" => rows[b][e].completed > 0 \/ \E v \in Worker : Recording(v, b, e)
      BY <1>8, <1>10 DEF Recorded, Has
    <3>2. work[w].role = "flush" => rows[b][e].completed > 0 \/ \E v \in Worker : Recording(v, b, e)'
      BY <1>4, <1>5, <3>1
    <3> QED
      BY <1>2, <2>5, <3>2 DEF Recorded
  <2>8. Counted(b, e)'
    <3>1. Settling(w, b, e)'
      BY <1>4, <1>10
    <3> QED
      BY <1>2, <1>4, <2>4, <2>5, <3>1 DEF Counted, Has
  <2>9. NotYet(b, e)'
    BY <1>4, <2>5 DEF NotYet, Has
  <2> QED
    BY <2>6, <2>7, <2>8, <2>9 DEF Once
<1> QED
  BY <1>9, <1>10

(* A result pays for its run, with a completed row or a failed one.         *)
LEMMA OnceSettled ==
    ASSUME Typed, Typed', Running, NEW w \in Worker, NEW b \in Binding, NEW e \in Event, Once(b, e),
           Gated(b, e), SettleRow(w)
    PROVE  Once(b, e)'
<1>1. PICK c \in Binding, n \in Nat, f \in Event : Settles(w, c, n, f)
  BY SettleEffect
<1>2. /\ c = work[w].binding /\ n = work[w].done + 1 /\ f = work[w].unit[n]
      /\ work[w].at = "settle" /\ n \in DOMAIN work[w].unit /\ work[w].done \in Nat
      /\ rows' = [rows EXCEPT ![c][f] = WithResult(rows[c][f], work[w].ok)]
      /\ \/ n = Len(work[w].unit) /\ work'[w].at = "check"
         \/ n # Len(work[w].unit) /\ work'[w].at = "settle"
            /\ work'[w].unit = work[w].unit /\ work'[w].done = n
      /\ work'[w].binding = c /\ work'[w].groups = work[w].groups /\ work'[w].role = work[w].role
      /\ \A v \in Worker \ {w} : work'[v] = work[v]
  BY <1>1 DEF Settles
<1>3. /\ work[w].unit \in Seq(Event) /\ work[w].ok \in BOOLEAN /\ rows[b][e] \in Rows
      /\ tries[b][e] \in Nat /\ rows \in [Binding -> [Event -> Rows]]
  <2>1. tries[b][e] \in Nat /\ rows \in [Binding -> [Event -> Rows]] /\ work[w] \in Work
    BY MaxFailedAssumption DEF Typed, TypeOK
  <2> QED
    BY <2>1 DEF Work
<1>4. UNCHANGED <<tries, digest>>
  BY DEF SettleRow, digestVars
<1>5. \A k \in DOMAIN work[w].unit : /\ k > work[w].done <=> k = n \/ k > n
                                     /\ n = Len(work[w].unit) => ~(k > n)
  BY <1>2, <1>3
<1>6. /\ ~Runs(w, b, e) /\ ~Runs(w, b, e)' /\ ~Recording(w, b, e)
      /\ Grouped(w, b, e)' <=> Grouped(w, b, e)
  BY <1>2 DEF Runs, Recording, Grouped
<1>7. \A v \in Worker \ {w} : /\ Grouped(v, b, e)' <=> Grouped(v, b, e)
                              /\ Runs(v, b, e)' <=> Runs(v, b, e)
                              /\ Settling(v, b, e)' <=> Settling(v, b, e)
                              /\ Has(v, b, e)' <=> Has(v, b, e)
                              /\ Recording(v, b, e)' <=> Recording(v, b, e)
  BY <1>2, OtherPlaces
<1>8. CASE ~(b = c /\ e = f)
  <2>1. rows'[b][e] = rows[b][e]
    BY <1>2, <1>3, <1>8
  <2>2. Settling(w, b, e)' <=> Settling(w, b, e)
    <3>1. CASE b # c
      BY <1>2, <3>1 DEF Settling
    <3>2. CASE b = c /\ n = Len(work[w].unit)
      BY <1>2, <1>5, <1>8, <3>2 DEF Settling
    <3>3. CASE b = c /\ n # Len(work[w].unit)
      BY <1>2, <1>5, <1>8, <3>3 DEF Settling
    <3> QED
      BY <3>1, <3>2, <3>3
  <2>3. \A v \in Worker :
              /\ Grouped(v, b, e)' => Grouped(v, b, e)
              /\ Runs(v, b, e)' => Runs(v, b, e)
              /\ Settling(v, b, e)' <=> Settling(v, b, e)
              /\ Has(v, b, e)' /\ work'[v].role = "flush" => work[v].role = "flush"
              /\ Recording(v, b, e) => Recording(v, b, e)' \/ rows'[b][e].completed > 0
    BY <1>2, <1>6, <1>7, <2>2
  <2>4. rows'[b][e].failed >= rows[b][e].failed /\ rows'[b][e].completed = rows[b][e].completed
        /\ tries'[b][e] = tries[b][e] /\ (Holds(digest[b], e)' => Holds(digest[b], e))
    BY <1>3, <1>4, <2>1 DEF Rows
  <2> QED
    BY <2>3, <2>4, OnceKept
<1>9. CASE b = c /\ e = f
  <2>1. Settling(w, b, e)
    BY <1>2, <1>5, <1>9 DEF Settling
  <2>2. OnePlace(b, e) /\ Recorded(b, e) /\ Counted(b, e)
    BY DEF Once
  <2>3. /\ \A v \in Worker \ {w} : ~Has(v, b, e)
        /\ ~Holds(digest[b], e) /\ ~Grouped(w, b, e)
    BY <2>1, <2>2 DEF OnePlace, Has
  <2>4. /\ \A v \in Worker \ {w} : ~Has(v, b, e)'
        /\ ~Holds(digest[b], e)' /\ ~Grouped(w, b, e)'
    BY <1>4, <1>6, <1>7, <2>3
  <2>5. rows[b][e].running >= 1 /\ rows'[b][e] = WithResult(rows[b][e], work[w].ok)
    BY <1>2, <1>3, <1>9, SettleRuns
  <2>6. /\ \/ rows'[b][e].completed = rows[b][e].completed + 1
           \/ /\ rows'[b][e].completed = rows[b][e].completed
              /\ rows'[b][e].failed = rows[b][e].failed + 1
        /\ rows[b][e].completed \in Nat /\ rows[b][e].failed \in Nat
    <3>1. /\ rows'[b][e].completed = (IF work[w].ok THEN rows[b][e].completed + 1 ELSE rows[b][e].completed)
          /\ rows'[b][e].failed = (IF work[w].ok THEN rows[b][e].failed ELSE rows[b][e].failed + 1)
      BY <1>3, <2>5, RowResult
    <3>2. rows[b][e].completed \in Nat /\ rows[b][e].failed \in Nat
      BY <1>3 DEF Rows
    <3> QED
      BY <3>1, <3>2
  <2>7. rows[b][e].completed > 0 => rows'[b][e].completed > 0
    BY <2>6
  <2>8. OnePlace(b, e)'
    BY <2>4 DEF OnePlace, Has
  <2>9. Recorded(b, e)'
    <3>1. work[w].role = "flush" => rows[b][e].completed > 0 \/ \E v \in Worker : Recording(v, b, e)
      BY <2>1, <2>2 DEF Recorded, Has
    <3>2. work[w].role = "flush" => rows'[b][e].completed > 0 \/ \E v \in Worker : Recording(v, b, e)'
      BY <1>6, <1>7, <2>7, <3>1
    <3> QED
      BY <1>2, <2>4, <3>2 DEF Recorded
  <2>10. Counted(b, e)'
    <3>1. tries'[b][e] <= MaxFailed
      BY <1>4, <2>2 DEF Counted
    <3>2. rows'[b][e].completed = 0 => tries'[b][e] <= rows'[b][e].failed
      <4>1. rows[b][e].completed = 0 => tries[b][e] <= rows[b][e].failed + 1
        BY <1>3, <2>2, <2>6 DEF Counted
      <4> QED
        BY <1>3, <1>4, <2>6, <4>1
    <3> QED
      BY <1>6, <2>4, <3>1, <3>2 DEF Counted, Has
  <2>11. NotYet(b, e)'
    BY <1>6, <2>4 DEF NotYet, Has
  <2> QED
    BY <2>8, <2>9, <2>10, <2>11 DEF Once
<1> QED
  BY <1>8, <1>9

(* A crash leaves no place, and fails what was running.                     *)
LEMMA OnceCrashed ==
    ASSUME Typed, Typed', Running, NEW b \in Binding, NEW e \in Event, Once(b, e), Gated(b, e), Crash
    PROVE  Once(b, e)'
<1>1. /\ \A w \in Worker : work'[w].at = "check" /\ work'[w].groups[b] = <<>>
      /\ digest'[b] = <<>> /\ UNCHANGED tries /\ rows'[b][e] = Reclaimed(rows[b][e])
  BY DEF Crash, IdleWork, NoGroups
<1>2. /\ ~Holds(digest[b], e)'
      /\ \A w \in Worker : ~Grouped(w, b, e)' /\ ~Runs(w, b, e)' /\ ~Settling(w, b, e)'
  BY <1>1 DEF Grouped, Runs, Settling, Holds
<1>3. \A w \in Worker : ~Has(w, b, e)'
  BY <1>2 DEF Has
<1>4. rows[b][e] \in Rows /\ tries[b][e] \in Nat
  BY MaxFailedAssumption DEF Typed, TypeOK
<1>5. /\ rows'[b][e].completed = rows[b][e].completed
      /\ rows'[b][e].failed = rows[b][e].failed + rows[b][e].running
      /\ rows[b][e].running \in Nat /\ rows[b][e].failed \in Nat
  BY <1>1, <1>4, RowOps
<1>6. ASSUME NEW w \in Worker, Settling(w, b, e) PROVE rows[b][e].running >= 1
  <2>1. PICK k \in DOMAIN work[w].unit : k > work[w].done /\ work[w].unit[k] = e
    BY <1>6 DEF Settling
  <2>2. k \in Unsettled(w, b, e)
    BY <1>6, <2>1 DEF Unsettled, Settling
  <2>3. <<w, k>> \in Owners(b, e) /\ IsFiniteSet(Owners(b, e))
        /\ rows[b][e].running = Cardinality(Owners(b, e))
    BY <2>2, OwnersMember DEF Running
  <2>4. Owners(b, e) # {} /\ Cardinality(Owners(b, e)) \in Nat
    BY <2>3, FS_CardinalityType
  <2> QED
    BY <2>3, <2>4, FS_EmptySet
<1>7. Counted(b, e)'
  <2>1. tries[b][e] <= MaxFailed
        /\ (rows[b][e].completed = 0 =>
              \/ tries[b][e] <= rows[b][e].failed
              \/ tries[b][e] <= rows[b][e].failed + 1 /\ rows[b][e].running >= 1)
    BY <1>6 DEF Once, Counted
  <2>2. rows'[b][e].completed = 0 => tries[b][e] <= rows'[b][e].failed
    BY <1>4, <1>5, <2>1
  <2> QED
    BY <1>1, <1>2, <2>1, <2>2 DEF Counted
<1> QED
  BY <1>2, <1>3, <1>7 DEF Once, OnePlace, Recorded, NotYet

(* Idle threads and bindings without triage hold nothing.                   *)
LEMMA EmptyStep ==
    ASSUME Typed, Empty, [Next]_vars
    PROVE  Empty'
<1>1. work \in [Worker -> Work] /\ digest \in [Binding -> Seq(Event)]
  BY DEF Typed, TypeOK
<1>2. ASSUME NEW w \in Worker, \A v \in Worker \ {w} : work'[v] = work[v],
             work'[w].role = "idle" => work'[w].groups = NoGroups,
             \A b \in Binding \ Triage : work'[w].groups[b] = <<>> /\ digest'[b] = <<>>
      PROVE  Empty'
  BY <1>2 DEF Empty
<1>3. ASSUME NEW w \in Worker, Route(w) PROVE Empty'
  <2>1. /\ work[w] \in Work /\ \A v \in Worker \ {w} : work'[v] = work[v]
    BY <1>1, <1>3, RouteShape DEF RouteStep
  <2>2. ~Report(w) => work'[w].role # "idle"
    BY <1>3, RouteKeeps
  <2>3. CASE Report(w)
    <3>1. work'[w].groups = NoGroups /\ UNCHANGED digest
      BY <1>1, <2>3 DEF Report, IdleWork, digestVars
    <3> QED
      BY <1>2, <2>1, <3>1 DEF Empty, NoGroups
  <2>4. CASE SkipEvent(w) \/ FilterEvent(w) \/ NextBinding(w) \/ DispatchEvent(w)
    <3>1. work'[w].groups = work[w].groups /\ UNCHANGED digest
      <4>1. CASE DispatchEvent(w)
        BY <1>1, <2>1, <4>1 DEF DispatchEvent, Advance, Work, digestVars
      <4>2. CASE SkipEvent(w) \/ FilterEvent(w) \/ NextBinding(w)
        BY <1>1, <2>1, <4>2 DEF SkipEvent, FilterEvent, NextBinding, Advance, Work, digestVars
      <4> QED
        BY <2>4, <4>1, <4>2
    <3>2. ~Report(w)
      BY <2>4 DEF SkipEvent, FilterEvent, NextBinding, DispatchEvent, InBatch, AfterBatch, Report
    <3> QED
      BY <1>2, <2>1, <2>2, <3>1, <3>2 DEF Empty
  <2>5. CASE RecordQueued(w) \/ StartRow(w) \/ RunAction(w) \/ SettleRow(w)
    <3>1. work'[w].groups = work[w].groups
      <4>1. CASE RecordQueued(w)
        BY <1>1, <2>1, <4>1 DEF RecordQueued, UnitDone, Work
      <4>2. CASE StartRow(w)
        BY <1>1, <2>1, <4>2 DEF StartRow, Work
      <4>3. CASE RunAction(w)
        BY <1>1, <2>1, <4>3 DEF RunAction, Work
      <4>4. CASE SettleRow(w)
        BY <4>4, SettleEffect DEF Settles
      <4> QED
        BY <2>5, <4>1, <4>2, <4>3, <4>4
    <3>2. UNCHANGED digest /\ ~Report(w)
      BY <2>5 DEF RecordQueued, StartRow, RunAction, SettleRow, Routing, Report, digestVars
    <3> QED
      BY <1>2, <2>1, <2>2, <3>1, <3>2 DEF Empty
  <2>6. CASE CollectEvent(w)
    <3>1. /\ \A b \in Binding \ {work[w].binding} : work'[w].groups[b] = work[w].groups[b]
          /\ work[w].binding \in Triage /\ UNCHANGED digest
      BY <1>1, <2>1, <2>6 DEF CollectEvent, Advance, Work, digestVars
    <3>2. ~Report(w)
      BY <2>6 DEF CollectEvent, InBatch, Report
    <3> QED
      BY <1>2, <2>1, <2>2, <3>1, <3>2 DEF Empty
  <2>7. CASE EnqueueGroup(w) \/ DispatchGroup(w)
    <3>1. ~Report(w) /\ work[w].binding \in Binding /\ Group(w) # <<>>
      BY <2>7 DEF EnqueueGroup, DispatchGroup, AfterBatch, Report
    <3>2. work[w].binding \in Triage
      BY <3>1 DEF Empty, Group
    <3>3. \A b \in Binding \ {work[w].binding} : work'[w].groups[b] = work[w].groups[b] /\ digest'[b] = digest[b]
      <4>1. CASE EnqueueGroup(w)
        BY <1>1, <2>1, <4>1 DEF EnqueueGroup, Work
      <4>2. CASE DispatchGroup(w)
        BY <1>1, <2>1, <4>2 DEF DispatchGroup, Work, digestVars
      <4> QED
        BY <2>7, <4>1, <4>2
    <3> QED
      BY <1>2, <2>1, <2>2, <3>1, <3>2, <3>3 DEF Empty
  <2> QED
    BY <1>3, <2>3, <2>4, <2>5, <2>6, <2>7 DEF Route
<1>4. ASSUME NEW w \in Worker, TakeBatch(w) PROVE Empty'
  <2>1. work'[w].groups = NoGroups /\ UNCHANGED digest /\ \A v \in Worker \ {w} : work'[v] = work[v]
    BY <1>1, <1>4 DEF TakeBatch, IdleWork, digestVars
  <2> QED
    BY <1>2, <2>1 DEF Empty, NoGroups
<1>5. ASSUME NEW w \in Worker, Flush(w) PROVE Empty'
  <2>1. /\ work'[w].groups = digest /\ digest' = NoGroups /\ work'[w].role = "flush"
        /\ \A v \in Worker \ {w} : work'[v] = work[v]
    BY <1>1, <1>5 DEF Flush, IdleWork
  <2> QED
    BY <1>2, <2>1 DEF Empty, NoGroups
<1>6. CASE Stream \/ Refresh \/ Recover \/ ConnectorExits \/ Degrade \/ UNCHANGED vars
  <2>1. UNCHANGED digest /\ (UNCHANGED work \/ work' = Detached)
    BY <1>6 DEF Stream, ReceiveEvent, ReceiveCheckpoint, ApplyAck, StreamEnds, Refresh, List,
           StartStream, LeaveStream, StopStream, RestartStream, Recover, ConnectorExits, Degrade,
           vars, digestVars
  <2>2. \A v \in Worker : work'[v] = work[v] \/ (work'[v].role = "detached" /\ work'[v].groups = work[v].groups)
    BY <1>1, <2>1 DEF Detached, Work
  <2> QED
    BY <2>1, <2>2 DEF Empty
<1>7. CASE Crash
  BY <1>7 DEF Crash, Empty, IdleWork, NoGroups
<1> QED
  BY <1>3, <1>4, <1>5, <1>6, <1>7 DEF Next

(* Every step keeps the attempts of an event in order.                      *)
LEMMA OnceStep ==
    ASSUME Orderly, Typed, Running, Acked, AllOnce, [Next]_vars
    PROVE  AllOnce'
<1>1. Typed' /\ Running' /\ DigestOnly /\ OneThread /\ Empty
  BY TypedStep DEF Acked, AllOnce
<1>2. Empty'
  BY <1>1, EmptyStep
<1> SUFFICES ASSUME NEW b \in Binding, NEW e \in Event, Gated(b, e) PROVE Once(b, e)'
  BY <1>2 DEF AllOnce, Once, Gated
<1>3. Once(b, e)
  BY DEF AllOnce
<1>4. ASSUME NEW w \in Worker, Route(w) PROVE Once(b, e)'
  BY <1>1, <1>3, <1>4, OnceQuiet, OnceTaken, OnceMoved, OnceRun, OnceSettled DEF Route, OneThread
<1>5. ASSUME NEW w \in Worker, TakeBatch(w) \/ Flush(w) PROVE Once(b, e)'
  BY <1>1, <1>3, <1>5, OnceMoved DEF OneThread
<1>6. CASE Crash
  BY <1>1, <1>3, <1>6, OnceCrashed
<1>7. CASE Stream \/ Refresh \/ Recover \/ ConnectorExits \/ Degrade \/ UNCHANGED vars
  <2>1. UNCHANGED <<rows, digest, tries>> /\ (UNCHANGED work \/ (work' = Detached /\ (StopStream \/ RestartStream)))
    BY <1>7 DEF Stream, ReceiveEvent, ReceiveCheckpoint, ApplyAck, StreamEnds, Refresh, List,
           StartStream, LeaveStream, StopStream, RestartStream, Recover, ConnectorExits, Degrade,
           vars, digestVars
  <2>2. \A v \in Worker : work'[v] = work[v]
    <3>1. CASE work' = Detached /\ (StopStream \/ RestartStream)
      <4>1. StopStream
        BY <3>1 DEF RestartStream, Orderly
      <4>2. Attached = {}
        BY <1>1, <4>1 DEF StopStream, OneThread
      <4> QED
        BY <3>1, <4>2 DEF Detached, Attached
    <3> QED
      BY <2>1, <3>1
  <2>3. \A v \in Worker :
              /\ Grouped(v, b, e)' => Grouped(v, b, e)
              /\ Runs(v, b, e)' => Runs(v, b, e)
              /\ Settling(v, b, e)' <=> Settling(v, b, e)
              /\ Has(v, b, e)' /\ work'[v].role = "flush" => work[v].role = "flush"
              /\ Recording(v, b, e) => Recording(v, b, e)' \/ rows'[b][e].completed > 0
    BY <2>2, OtherPlaces
  <2>4. rows'[b][e].failed >= rows[b][e].failed /\ rows'[b][e].completed = rows[b][e].completed
        /\ tries'[b][e] = tries[b][e] /\ (Holds(digest[b], e)' => Holds(digest[b], e))
    BY <2>1 DEF Typed, TypeOK, Rows
  <2> QED
    BY <1>1, <1>3, <2>3, <2>4, OnceKept
<1> QED
  BY <1>4, <1>5, <1>6, <1>7 DEF Next

(* So they are always, where the streams are orderly.                       *)
LEMMA OnceAlways ==
    ASSUME Orderly
    PROVE  Spec => [](Typed /\ Running /\ Acked /\ AllOnce)
<1>1. Init => AllOnce
  <2> SUFFICES ASSUME Init PROVE AllOnce
    OBVIOUS
  <2>1. \A w \in Worker : work[w].groups = NoGroups /\ work[w].at = "check"
    BY DEF Init, IdleWork
  <2>2. Empty
    BY <2>1 DEF Empty, Init, NoGroups
  <2>3. ASSUME NEW b \in Binding, NEW e \in Event PROVE Once(b, e)
    <3>1. ~Holds(digest[b], e) /\ \A w \in Worker : ~Has(w, b, e) /\ ~Grouped(w, b, e) /\ ~Runs(w, b, e)
      BY <2>1 DEF Init, NoGroups, Holds, Has, Grouped, Runs, Settling
    <3>2. tries[b][e] = 0 /\ rows[b][e].failed = 0 /\ rows[b][e].completed = 0
      BY DEF Init, NoRows
    <3> QED
      BY <3>1, <3>2, MaxFailedAssumption DEF Once, OnePlace, Recorded, Counted, NotYet
  <2> QED
    BY <2>2, <2>3 DEF AllOnce
<1>2. Typed /\ Running /\ Acked /\ AllOnce /\ [Next]_vars => AllOnce'
  BY OnceStep
<1> QED
  BY <1>1, <1>2, AckedAlways, PTL DEF Spec

(* An event that keeps failing, or keeps crashing the daemon, is run at     *)
(* most MAX_FAILED_ATTEMPTS times per binding, over all deliveries          *)
(* (dedup_decision), if streams end only with a crash or the connector's    *)
(* exit.                                                                    *)
THEOREM AttemptsAreBounded ==
    ASSUME Orderly
    PROVE  Spec => []AttemptsBounded
<1>1. AllOnce => AttemptsBounded
  BY DEF AllOnce, Once, Counted, AttemptsBounded
<1> QED
  BY <1>1, OnceAlways, PTL

(* Once a run of a directly dispatching binding has completed, no redelivery*)
(* starts another one ("success must not re-run"), under the same           *)
(* condition.                                                               *)
THEOREM SuccessIsFinal ==
    ASSUME Orderly
    PROVE  Spec => NeverRerun
<1>1. ASSUME Typed, AllOnce, [Next]_vars
      PROVE  [\A b \in Binding \ Digest, e \in Event :
                 Gated(b, e) /\ rows[b][e].completed > 0 => tries'[b][e] = tries[b][e]]_vars
  <2> SUFFICES ASSUME NEW b \in Binding \ Digest, NEW e \in Event, Gated(b, e),
                      rows[b][e].completed > 0, Next
               PROVE  tries'[b][e] = tries[b][e]
    BY <1>1
  <2>1. ASSUME NEW w \in Worker, RunAction(w) PROVE tries'[b][e] = tries[b][e]
    <3>1. ~Runs(w, b, e)
      BY <1>1 DEF AllOnce, Once, NotYet
    <3>2. ~InUnit(w, b, e)
      BY <2>1, <3>1 DEF RunAction, Routing, Runs, InUnit, Holds
    <3> QED
      BY <2>1, <3>2 DEF RunAction
  <2>2. ASSUME NEW w \in Worker, Route(w), ~RunAction(w) PROVE UNCHANGED tries
    BY <2>2 DEF Route, SkipEvent, FilterEvent, CollectEvent, DispatchEvent, NextBinding,
           EnqueueGroup, RecordQueued, DispatchGroup, StartRow, SettleRow, Report
  <2>3. ASSUME NEW w \in Worker, TakeBatch(w) \/ Flush(w) PROVE UNCHANGED tries
    BY <2>3 DEF TakeBatch, Flush
  <2>4. CASE Stream \/ Refresh \/ Recover \/ ConnectorExits \/ Degrade \/ Crash
    BY <2>4 DEF Stream, ReceiveEvent, ReceiveCheckpoint, ApplyAck, StreamEnds, Refresh, List,
           StartStream, LeaveStream, StopStream, RestartStream, Recover, ConnectorExits, Degrade,
           Crash
  <2> QED
    BY <2>1, <2>2, <2>3, <2>4 DEF Next
<1> QED
  BY <1>1, OnceAlways, PTL DEF Spec, NeverRerun
=============================================================================
