---------------------------- MODULE IngestProofs ----------------------------
(***************************************************************************)
(* Proofs about EventIngest, for any number of events, bindings, threads    *)
(* and faults.                                                              *)
(***************************************************************************)
EXTENDS EventIngest, FiniteSetTheorems, SequenceTheorems, TLAPS

(* The scheduled flag is only up while a flush task sleeps: without this a  *)
(* thread that queues an event could rely on a flush that is already over.  *)
DigestInv ==
    /\ timer \in BOOLEAN /\ scheduled \in BOOLEAN
    /\ scheduled => timer
    /\ DigestHasTimer

(* A thread that routes keeps DigestInv; only EnqueueGroup touches the     *)
(* digest.                                                                 *)
LEMMA DigestRoute ==
    ASSUME DigestInv, NEW w \in Worker, Route(w)
    PROVE  DigestInv'
<1>1. CASE EnqueueGroup(w)
    <2>1. timer' = TRUE /\ scheduled' = TRUE
        BY <1>1 DEF EnqueueGroup, DigestInv
    <2> QED BY <2>1 DEF DigestInv, DigestHasTimer
<1>2. CASE UNCHANGED digestVars
    BY <1>2 DEF DigestInv, DigestHasTimer, digestVars
<1>3. \/ EnqueueGroup(w)
      \/ UNCHANGED digestVars
    BY DEF Route, SkipEvent, FilterEvent, CollectEvent, DispatchEvent, NextBinding,
           RecordQueued, DispatchGroup, StartRow, RunAction, SettleRow, Report
<1> QED BY <1>1, <1>2, <1>3

(* Every step keeps DigestInv: a flush and a crash leave an empty digest.  *)
LEMMA DigestStep == DigestInv /\ [Next]_vars => DigestInv'
<1> SUFFICES ASSUME DigestInv, [Next]_vars PROVE DigestInv'
    OBVIOUS
<1>1. CASE UNCHANGED digestVars
    BY <1>1 DEF DigestInv, DigestHasTimer, digestVars
<1>2. ASSUME timer' = FALSE, scheduled' = FALSE, digest' = NoGroups
      PROVE  DigestInv'
    <2>1. \A b \in Binding : digest'[b] = <<>>
        BY <1>2 DEF NoGroups
    <2> QED BY <1>2, <2>1 DEF DigestInv, DigestHasTimer
<1>3. ASSUME NEW w \in Worker, Flush(w)
      PROVE  DigestInv'
    BY <1>2, <1>3 DEF Flush
<1>4. CASE Crash
    BY <1>2, <1>4 DEF Crash
<1>5. ASSUME NEW w \in Worker, TakeBatch(w)
      PROVE  DigestInv'
    BY <1>1, <1>5 DEF TakeBatch
<1>6. CASE Stream
    BY <1>1, <1>6 DEF Stream, ReceiveEvent, ReceiveCheckpoint, ApplyAck, StreamEnds
<1>7. CASE Refresh \/ Recover \/ ConnectorExits \/ Degrade
    BY <1>1, <1>7 DEF Refresh, List, StartStream, LeaveStream, StopStream,
           RestartStream, Recover, ConnectorExits, Degrade
<1>8. CASE UNCHANGED vars
    BY <1>1, <1>8 DEF vars
<1> QED BY <1>3, <1>4, <1>5, <1>6, <1>7, <1>8, DigestRoute DEF Next

(* Whenever an event waits in the digest queue, a flush task is on its way: *)
(* none is forgotten, also when it is queued while a flush is under way     *)
(* (monitor_digest.rs, schedule_flush and flush).                           *)
THEOREM QueuedAreFlushed == Spec => []DigestHasTimer
<1>1. Init => DigestInv
    BY DEF Init, NoGroups, DigestInv, DigestHasTimer
<1>2. DigestInv => DigestHasTimer
    BY DEF DigestInv
<1> QED BY <1>1, <1>2, DigestStep, PTL DEF Spec

-----------------------------------------------------------------------------
(* Types and running rows.  A row is settled only if it is running, so that *)
(* the counts stay natural numbers; hence the types rest on RunningOwned,   *)
(* and that on the shape of a thread's unit.                                *)
Shape(r) ==
    /\ r.at = "check" => r.unit = <<>> /\ r.done = 0
    /\ r.at # "check" => r.role # "idle" /\ r.binding \in Binding
    /\ r.at = "run" => r.unit # <<>>
    /\ r.at \in {"record", "start", "settle"} => r.done + 1 \in DOMAIN r.unit

Typed ==
    /\ TypeOK
    /\ \A w \in Worker : Shape(work[w])
    /\ refresh.cursor \in 0..Last

(* A step of thread w of the router.                                        *)
RouteStep(w) ==
    /\ work' = [work EXCEPT ![w] = work'[w]]
    /\ work'[w] \in Work /\ Shape(work'[w])

(* What a step of the router is to one thread.                              *)
LEMMA RouteShape ==
    ASSUME Typed, NEW w \in Worker, Route(w)
    PROVE  RouteStep(w)
<1> USE SizeAssumption
<1>1. /\ work \in [Worker -> Work] /\ work[w] \in Work /\ Shape(work[w])
      /\ rows \in [Binding -> [Event -> Rows]]
  BY DEF Typed, TypeOK
<1>2. /\ work[w].batch \in Seq(Event) /\ work[w].pos \in Nat \ {0}
      /\ work[w].groups \in [Binding -> Seq(Event)] /\ work[w].unit \in Seq(Event)
      /\ work[w].done \in Nat /\ work[w].binding \in 1..(Bindings + 1)
  BY <1>1 DEF Work
<1>3. InBatch(w) => TheEvent(w) \in Event
  BY <1>2 DEF InBatch, TheEvent
<1>4. AfterBatch(w) => Group(w) \in Seq(Event)
  BY <1>2 DEF AfterBatch, Group
<1>5. CASE SkipEvent(w) \/ FilterEvent(w)
  <2>1. work' = [work EXCEPT ![w] = Advance(w)] /\ work[w].at = "check"
    BY <1>5 DEF SkipEvent, FilterEvent, InBatch, Routing
  <2>2. Advance(w) \in Work /\ Shape(Advance(w))
    <3>1. work[w].pos + 1 \in Nat \ {0}
      BY <1>2
    <3>2. Advance(w) \in Work
      BY <1>1, <3>1 DEF Advance, Work
    <3> QED
      BY <1>1, <2>1, <3>2 DEF Advance, Shape, Work
  <2> QED
    BY <1>1, <2>1, <2>2 DEF RouteStep
<1>6. CASE CollectEvent(w)
  <2> DEFINE r == [Advance(w) EXCEPT !.groups[work[w].binding] = Append(@, TheEvent(w))]
  <2>1. /\ work' = [work EXCEPT ![w] = r] /\ work[w].at = "check"
        /\ work[w].binding \in Binding /\ TheEvent(w) \in Event
    BY <1>3, <1>6 DEF CollectEvent, InBatch, Routing
  <2>2. work[w].pos + 1 \in Nat \ {0}
    BY <1>2
  <2>3. Advance(w) \in Work /\ Advance(w).groups = work[w].groups
        /\ Advance(w).at = "check" /\ Advance(w).unit = <<>> /\ Advance(w).done = 0
    BY <1>1, <2>1, <2>2 DEF Advance, Work, Shape
  <2>4. Append(work[w].groups[work[w].binding], TheEvent(w)) \in Seq(Event)
    BY <1>2, <2>1
  <2>5. r \in Work /\ r.at = "check" /\ r.unit = <<>> /\ r.done = 0
    BY <2>1, <2>3, <2>4 DEF Work
  <2>6. Shape(r)
    BY <2>5 DEF Shape
  <2> QED
    BY <1>1, <2>1, <2>5, <2>6 DEF RouteStep
<1>7. CASE DispatchEvent(w)
  <2> DEFINE r == [Advance(w) EXCEPT !.unit = <<TheEvent(w)>>, !.done = 0, !.at = "start"]
  <2>1. /\ work' = [work EXCEPT ![w] = r] /\ work[w].role # "idle"
        /\ work[w].binding \in Binding /\ TheEvent(w) \in Event
    BY <1>3, <1>7 DEF DispatchEvent, InBatch, Routing
  <2>2. work[w].pos + 1 \in Nat \ {0}
    BY <1>2
  <2>3. Advance(w) \in Work /\ Advance(w).role = work[w].role
        /\ Advance(w).binding = work[w].binding
    BY <1>1, <2>2 DEF Advance, Work
  <2>4. <<TheEvent(w)>> \in Seq(Event) /\ 0 + 1 \in DOMAIN <<TheEvent(w)>>
    BY <2>1
  <2>5. /\ r \in Work /\ r.at = "start" /\ r.unit = <<TheEvent(w)>> /\ r.done = 0
        /\ r.role # "idle" /\ r.binding \in Binding
    BY <2>1, <2>3, <2>4 DEF Work
  <2>6. Shape(r)
    BY <2>4, <2>5 DEF Shape
  <2> QED
    BY <1>1, <2>1, <2>5, <2>6 DEF RouteStep
<1>8. CASE NextBinding(w)
  <2> DEFINE r == [work[w] EXCEPT !.binding = @ + 1, !.pos = 1]
  <2>1. work' = [work EXCEPT ![w] = r] /\ work[w].at = "check"
    BY <1>1, <1>8 DEF NextBinding, AfterBatch, Routing
  <2>2. work[w].binding + 1 \in 1..(Bindings + 1) /\ 1 \in Nat \ {0}
    BY SMTT(30), <1>2, <1>8 DEF NextBinding, AfterBatch, Binding
  <2>3. r \in Work /\ r.at = "check" /\ r.unit = <<>> /\ r.done = 0
    BY <1>1, <2>1, <2>2 DEF Work, Shape
  <2>4. Shape(r)
    BY <2>3 DEF Shape
  <2> QED
    BY <1>1, <2>1, <2>3, <2>4 DEF RouteStep
<1>9. ASSUME NEW l \in {"record", "start"}, AfterBatch(w), Group(w) # <<>>,
             work' = [work EXCEPT ![w].unit = Group(w), ![w].done = 0, ![w].at = l,
                                  ![w].groups[work[w].binding] = <<>>]
      PROVE  RouteStep(w)
  <2>1. /\ work[w].binding \in Binding /\ work[w].role # "idle"
        /\ Group(w) \in Seq(Event) /\ 0 + 1 \in DOMAIN Group(w)
    BY <1>4, <1>9 DEF AfterBatch, Routing
  <2>2. [work[w].groups EXCEPT ![work[w].binding] = <<>>] \in [Binding -> Seq(Event)]
    BY <1>2, EmptySeq
  <2> DEFINE r == [work[w] EXCEPT !.unit = Group(w), !.done = 0, !.at = l,
                     !.groups = [work[w].groups EXCEPT ![work[w].binding] = <<>>]]
  <2>3. work' = [work EXCEPT ![w] = r]
    BY ZenonT(30), <1>1, <1>9
  <2>4. /\ r \in Work /\ r.at = l /\ r.unit = Group(w) /\ r.done = 0
        /\ r.role # "idle" /\ r.binding \in Binding
    BY <1>1, <2>1, <2>2 DEF Work
  <2>5. Shape(r)
    BY <2>1, <2>4 DEF Shape
  <2> QED
    BY <1>1, <2>3, <2>4, <2>5 DEF RouteStep
<1>10. CASE EnqueueGroup(w) \/ DispatchGroup(w)
  BY <1>9, <1>10 DEF EnqueueGroup, DispatchGroup
<1>11. UnitDone(work[w]) \in Work /\ Shape(UnitDone(work[w]))
  <2>1. <<>> \in Seq(Event) /\ 0 \in Nat
    BY EmptySeq
  <2>2. UnitDone(work[w]) \in Work
    BY <1>1, <2>1 DEF UnitDone, Work
  <2>3. UnitDone(work[w]).at = "check" /\ UnitDone(work[w]).unit = <<>> /\ UnitDone(work[w]).done = 0
    BY <1>1 DEF UnitDone, Work
  <2> QED
    BY <2>2, <2>3 DEF Shape
<1>12. ASSUME work[w].at \in {"record", "start", "settle"}, work[w].done + 1 # Len(work[w].unit)
       PROVE  /\ [work[w] EXCEPT !.done = work[w].done + 1] \in Work
              /\ Shape([work[w] EXCEPT !.done = work[w].done + 1])
  <2>1. work[w].done + 1 \in Nat /\ work[w].done + 1 + 1 \in DOMAIN work[w].unit
    BY <1>1, <1>2, <1>12 DEF Shape
  <2> QED
    BY <1>1, <1>12, <2>1 DEF Work, Shape
<1>13. CASE RecordQueued(w)
  <2>1. work' = [work EXCEPT ![w] = IF work[w].done + 1 = Len(work[w].unit) THEN UnitDone(work[w])
                                    ELSE [work[w] EXCEPT !.done = work[w].done + 1]]
        /\ work[w].at = "record"
    BY <1>1, <1>13 DEF RecordQueued, Routing
  <2> QED
    BY <1>1, <1>11, <1>12, <2>1 DEF RouteStep
<1>14. CASE StartRow(w)
  <2> DEFINE n == work[w].done + 1
             r == [work[w] EXCEPT !.done = n, !.at = IF n = Len(work[w].unit) THEN "run" ELSE @]
  <2>1. work' = [work EXCEPT ![w] = r] /\ work[w].at = "start"
    BY <1>1, <1>14 DEF StartRow, Routing
  <2>2. n \in Nat
    BY <1>2
  <2>3. CASE n = Len(work[w].unit)
    <3>1. r \in Work /\ r.at = "run" /\ r.unit = work[w].unit /\ r.role = work[w].role
          /\ r.binding = work[w].binding
      BY <1>1, <2>2, <2>3 DEF Work
    <3>2. work[w].unit # <<>>
      BY <1>1, <2>1 DEF Shape
    <3>3. Shape(r)
      BY <1>1, <2>1, <3>1, <3>2 DEF Shape
    <3> QED
      BY <1>1, <2>1, <3>1, <3>3 DEF RouteStep
  <2>4. CASE n # Len(work[w].unit)
    <3>1. r = [work[w] EXCEPT !.done = n]
      BY <1>1, <2>1, <2>4 DEF Work
    <3>2. r \in Work /\ Shape(r)
      BY <1>12, <2>1, <2>4, <3>1
    <3> QED
      BY <1>1, <2>1, <3>2 DEF RouteStep
  <2> QED
    BY <2>3, <2>4
<1>15. CASE RunAction(w)
  <2>1. PICK ok \in BOOLEAN :
           work' = [work EXCEPT ![w].ok = ok, ![w].done = 0, ![w].at = "settle"]
    BY <1>15 DEF RunAction
  <2> DEFINE r == [work[w] EXCEPT !.ok = ok, !.done = 0, !.at = "settle"]
  <2>2. work' = [work EXCEPT ![w] = r] /\ work[w].at = "run"
    BY <1>1, <1>15, <2>1 DEF RunAction, Routing
  <2>3. r \in Work /\ r.at = "settle" /\ r.done = 0 /\ r.unit = work[w].unit
        /\ r.role = work[w].role /\ r.binding = work[w].binding
    BY <1>1 DEF Work
  <2>4. 0 + 1 \in DOMAIN work[w].unit
    BY <1>1, <1>2, <2>2 DEF Shape
  <2>5. Shape(r)
    BY <1>1, <2>2, <2>3, <2>4 DEF Shape
  <2> QED
    BY <1>1, <2>2, <2>3, <2>5 DEF RouteStep
<1>16. CASE SettleRow(w)
  <2> DEFINE u == [UnitDone(work[w]) EXCEPT !.failed = work[w].failed \/ ~work[w].ok]
  <2>1. work' = [work EXCEPT ![w] = IF work[w].done + 1 = Len(work[w].unit) THEN u
                                    ELSE [work[w] EXCEPT !.done = work[w].done + 1]]
        /\ work[w].at = "settle"
    BY <1>1, <1>16 DEF SettleRow, Routing
  <2>2. u \in Work
    <3>1. (work[w].failed \/ ~work[w].ok) \in BOOLEAN
      OBVIOUS
    <3> QED
      BY <1>11, <3>1 DEF Work
  <2>3. Shape(u)
    BY <1>11 DEF Shape, UnitDone, Work
  <2> QED
    BY <1>1, <1>12, <2>1, <2>2, <2>3 DEF RouteStep
<1>17. CASE Report(w)
  <2>1. IdleWork \in Work /\ Shape(IdleWork)
    BY DEF IdleWork, Work, Shape, NoGroups
  <2> QED
    BY <1>1, <1>17, <2>1 DEF Report, RouteStep
<1> QED
  BY <1>5, <1>6, <1>7, <1>8, <1>10, <1>13, <1>14, <1>15, <1>16, <1>17 DEF Route

(* Rows are added and settled, never taken back.                            *)
Later(r, s) ==
    /\ r.completed <= s.completed /\ r.failed <= s.failed
    /\ r.running + r.completed + r.failed <= s.running + s.completed + s.failed

(* What the history does to a row when an action starts, is skipped or is   *)
(* reclaimed.                                                               *)
LEMMA RowOps ==
    ASSUME NEW r \in Rows
    PROVE  /\ WithStarted(r) \in Rows /\ WithStarted(r).running = r.running + 1
           /\ WithStarted(r).completed = r.completed /\ WithStarted(r).failed = r.failed
           /\ WithOutcome(r) \in Rows /\ WithOutcome(r).running = r.running
           /\ WithOutcome(r).completed = r.completed + 1 /\ WithOutcome(r).failed = r.failed
           /\ Reclaimed(r) \in Rows /\ Reclaimed(r).running = 0
           /\ Reclaimed(r).completed = r.completed
           /\ Reclaimed(r).failed = r.failed + r.running
           /\ r.running \in Nat /\ r.completed \in Nat /\ r.failed \in Nat
<1>1. r.running \in Nat /\ r.completed \in Nat /\ r.failed \in Nat
  BY DEF Rows
<1>2. r.running + 1 \in Nat /\ r.completed + 1 \in Nat /\ r.failed + r.running \in Nat /\ 0 \in Nat
  BY <1>1
<1> QED
  BY <1>1, <1>2 DEF Rows, WithStarted, WithOutcome, Reclaimed

(* And when it ends.                                                        *)
LEMMA RowResult ==
    ASSUME NEW r \in Rows, r.running >= 1, NEW ok \in BOOLEAN
    PROVE  /\ WithResult(r, ok) \in Rows /\ WithResult(r, ok).running = r.running - 1
           /\ WithResult(r, ok).completed = (IF ok THEN r.completed + 1 ELSE r.completed)
           /\ WithResult(r, ok).failed = (IF ok THEN r.failed ELSE r.failed + 1)
<1>1. r.running \in Nat /\ r.completed \in Nat /\ r.failed \in Nat
  BY DEF Rows
<1>2. r.running - 1 \in Nat /\ r.completed + 1 \in Nat /\ r.failed + 1 \in Nat
  BY <1>1
<1> QED
  BY <1>1, <1>2 DEF Rows, WithResult

(* The rows a binding and an event have running, one for each place of the  *)
(* units that a thread has started and not settled.                         *)
Owners(b, e) == UNION {{w} \X Unsettled(w, b, e) : w \in Worker}

Running ==
    \A b \in Binding, e \in Event :
        /\ IsFiniteSet(Owners(b, e))
        /\ rows[b][e].running = Cardinality(Owners(b, e))

(* The owners of a row, one by one.                                         *)
LEMMA OwnersMember ==
    ASSUME NEW b, NEW e
    PROVE  \A x : x \in Owners(b, e) <=> \E w \in Worker : \E i \in Unsettled(w, b, e) : x = <<w, i>>
BY DEF Owners

(* A step after which every row runs that ran before.                       *)
LEMMA RunningKept ==
    ASSUME Running,
           \A v \in Worker, b \in Binding, e \in Event : Unsettled(v, b, e)' = Unsettled(v, b, e),
           \A b \in Binding, e \in Event : rows'[b][e].running = rows[b][e].running
    PROVE  Running'
<1>1. \A b \in Binding, e \in Event : Owners(b, e)' = Owners(b, e)
  BY DEF Owners
<1> QED
  BY <1>1 DEF Running

(* The rows of a thread that is between two dispatches, or has not started  *)
(* any row of one.                                                          *)
LEMMA NothingUnsettled ==
    ASSUME Typed, NEW w \in Worker,
           work[w].at \in {"check", "record"} \/ (work[w].at = "start" /\ work[w].done = 0)
    PROVE  \A b, e : Unsettled(w, b, e) = {}
<1>1. work[w].unit \in Seq(Event)
  BY DEF Typed, TypeOK, Work
<1>2. \A i \in DOMAIN work[w].unit : ~(i <= 0)
  BY <1>1
<1> QED
  BY <1>2 DEF Unsettled

(* Every step of the router that neither starts nor settles a row.          *)
LEMMA QuietRoute ==
    ASSUME Typed, NEW w \in Worker, Route(w), ~StartRow(w), ~SettleRow(w)
    PROVE  /\ \A v \in Worker, b \in Binding, e \in Event : Unsettled(v, b, e)' = Unsettled(v, b, e)
           /\ rows' \in [Binding -> [Event -> Rows]]
           /\ \A b \in Binding, e \in Event :
                 /\ rows'[b][e].running = rows[b][e].running
                 /\ Later(rows[b][e], rows'[b][e])
<1>1. /\ work \in [Worker -> Work] /\ work[w] \in Work /\ Shape(work[w])
      /\ rows \in [Binding -> [Event -> Rows]] /\ RouteStep(w)
  BY RouteShape DEF Typed, TypeOK
<1>2. \A v \in Worker \ {w} : work'[v] = work[v]
  BY <1>1 DEF RouteStep
<1>3. \A v \in Worker \ {w}, b \in Binding, e \in Event : Unsettled(v, b, e)' = Unsettled(v, b, e)
  BY <1>2 DEF Unsettled
<1>4. \A b \in Binding, e \in Event : Unsettled(w, b, e)' = Unsettled(w, b, e)
  <2>1. CASE RunAction(w)
    <3>1. /\ work[w].at = "run" /\ work'[w].at = "settle" /\ work'[w].done = 0
          /\ work'[w].unit = work[w].unit /\ work'[w].binding = work[w].binding
      BY <1>1, <2>1 DEF RunAction, Routing, Work
    <3>2. \A i \in DOMAIN work[w].unit : i > 0
      BY <1>1 DEF Work
    <3> QED
      BY <3>1, <3>2 DEF Unsettled
  <2>2. CASE ~RunAction(w)
    <3>1. work[w].at \in {"check", "record"}
      BY <2>2 DEF Route, SkipEvent, FilterEvent, CollectEvent, DispatchEvent, NextBinding,
             EnqueueGroup, RecordQueued, DispatchGroup, Report, InBatch, AfterBatch, Routing
    <3>2. work'[w].at \in {"check", "record"} \/ (work'[w].at = "start" /\ work'[w].done = 0)
      <4>1. CASE SkipEvent(w) \/ FilterEvent(w) \/ NextBinding(w)
        BY <1>1, <3>1, <4>1 DEF SkipEvent, FilterEvent, NextBinding, Advance, Work
      <4>6. CASE CollectEvent(w)
        BY <1>1, <3>1, <4>6 DEF CollectEvent, Advance, Work
      <4>2. CASE DispatchEvent(w)
        BY <1>1, <4>2 DEF DispatchEvent, Advance, Work
      <4>3. CASE EnqueueGroup(w) \/ DispatchGroup(w)
        BY <1>1, <4>3 DEF EnqueueGroup, DispatchGroup, Work
      <4>4. CASE RecordQueued(w)
        <5>1. work'[w] = UnitDone(work[w]) \/ work'[w].at = work[w].at
          BY <1>1, <4>4 DEF RecordQueued, Work
        <5>2. UnitDone(work[w]).at = "check"
          BY <1>1 DEF UnitDone, Work
        <5> QED
          BY <3>1, <5>1, <5>2
      <4>5. CASE Report(w)
        BY <1>1, <4>5 DEF Report, IdleWork
      <4> QED
        BY <2>2, <4>1, <4>2, <4>3, <4>4, <4>5, <4>6 DEF Route
    <3>3. work'[w].unit \in Seq(Event)
      BY <1>1 DEF RouteStep, Work
    <3>4. \A i \in DOMAIN work'[w].unit : ~(i <= 0)
      BY <3>3
    <3>5. \A b, e : Unsettled(w, b, e)' = {}
      BY <3>2, <3>4 DEF Unsettled
    <3> QED
      BY <3>1, <3>5, NothingUnsettled
  <2> QED
    BY <2>1, <2>2
<1>5. CASE UNCHANGED rows
  <2>1. \A b \in Binding, e \in Event : rows[b][e] \in Rows
    BY <1>1
  <2>2. \A b \in Binding, e \in Event : Later(rows[b][e], rows[b][e])
    BY <2>1 DEF Later, Rows
  <2> QED
    BY <1>1, <1>3, <1>4, <1>5, <2>2
<1>6. ASSUME NEW b \in Binding, NEW e \in Event, UpdateRows(b, e, WithOutcome(rows[b][e]))
      PROVE  /\ rows' \in [Binding -> [Event -> Rows]]
             /\ \A c \in Binding, f \in Event : /\ rows'[c][f].running = rows[c][f].running
                                                /\ Later(rows[c][f], rows'[c][f])
  <2>1. rows[b][e] \in Rows
    BY <1>1
  <2>2. WithOutcome(rows[b][e]) \in Rows
    BY <2>1, RowOps
  <2>3. rows' = [rows EXCEPT ![b][e] = WithOutcome(rows[b][e])]
    BY <1>6 DEF UpdateRows
  <2>4. rows' \in [Binding -> [Event -> Rows]]
    BY <1>1, <2>2, <2>3
  <2>5. \A c \in Binding, f \in Event :
           rows'[c][f] = IF c = b /\ f = e THEN WithOutcome(rows[b][e]) ELSE rows[c][f]
    BY <1>1, <2>3
  <2>6. Later(rows[b][e], WithOutcome(rows[b][e])) /\ WithOutcome(rows[b][e]).running = rows[b][e].running
    BY <2>1, RowOps DEF Later
  <2>7. \A c \in Binding, f \in Event : Later(rows[c][f], rows[c][f])
    <3>1. \A c \in Binding, f \in Event : rows[c][f] \in Rows
      BY <1>1
    <3> QED
      BY <3>1 DEF Later, Rows
  <2> QED
    BY <2>4, <2>5, <2>6, <2>7
<1>7. CASE FilterEvent(w)
  <2>1. work[w].binding \in Binding /\ TheEvent(w) \in Event
    BY <1>1, <1>7 DEF FilterEvent, InBatch, TheEvent, Work
  <2> QED
    BY <1>3, <1>4, <1>5, <1>6, <1>7, <2>1 DEF FilterEvent, TheRows
<1>8. CASE RecordQueued(w)
  <2>1. work[w].at = "record"
    BY <1>8 DEF RecordQueued, Routing
  <2>2. work[w].binding \in Binding /\ work[w].unit[work[w].done + 1] \in Event
    BY <1>1, <2>1 DEF Shape, Work
  <2> QED
    BY <1>3, <1>4, <1>6, <1>8, <2>2 DEF RecordQueued
<1>9. CASE ~FilterEvent(w) /\ ~RecordQueued(w)
  <2>1. UNCHANGED rows
    BY <1>9 DEF Route, SkipEvent, CollectEvent, DispatchEvent, NextBinding, EnqueueGroup,
           DispatchGroup, RunAction, Report
  <2> QED
    BY <1>5, <2>1
<1> QED
  BY <1>7, <1>8, <1>9

(* What StartRow and SettleRow do to the rows and to the thread.            *)
Starts(w, b, n, e) ==
    /\ b = work[w].binding /\ n = work[w].done + 1 /\ e = work[w].unit[n]
    /\ work[w].at = "start" /\ n \in DOMAIN work[w].unit /\ work[w].done \in Nat
    /\ rows' = [rows EXCEPT ![b][e] = WithStarted(rows[b][e])]
    /\ work'[w] = [work[w] EXCEPT !.done = n, !.at = work'[w].at]
    /\ work'[w].binding = b /\ work'[w].unit = work[w].unit /\ work'[w].done = n
    /\ work'[w].at = IF n = Len(work[w].unit) THEN "run" ELSE "start"
    /\ \A v \in Worker \ {w} : work'[v] = work[v]

Settles(w, b, n, e) ==
    /\ b = work[w].binding /\ n = work[w].done + 1 /\ e = work[w].unit[n]
    /\ work[w].at = "settle" /\ n \in DOMAIN work[w].unit /\ work[w].done \in Nat
    /\ rows' = [rows EXCEPT ![b][e] = WithResult(rows[b][e], work[w].ok)]
    /\ \/ n = Len(work[w].unit) /\ work'[w].at = "check" /\ work'[w].unit = <<>>
          /\ work'[w].done = 0 /\ work'[w].failed = (work[w].failed \/ ~work[w].ok)
       \/ n # Len(work[w].unit) /\ work'[w].at = "settle"
          /\ work'[w].unit = work[w].unit /\ work'[w].done = n
          /\ work'[w].failed = work[w].failed /\ work'[w].ok = work[w].ok
    /\ work'[w].binding = b /\ work'[w].batch = work[w].batch
    /\ work'[w].pos = work[w].pos /\ work'[w].groups = work[w].groups
    /\ work'[w].role = work[w].role
    /\ \A v \in Worker \ {w} : work'[v] = work[v]

(* StartRow starts one row.                                                 *)
LEMMA StartEffect ==
    ASSUME Typed, NEW w \in Worker, StartRow(w)
    PROVE  \E b \in Binding, n \in Nat, e \in Event : Starts(w, b, n, e)
<1>1. /\ work \in [Worker -> Work] /\ work[w] \in Work /\ Shape(work[w])
      /\ work[w].at = "start"
  BY DEF StartRow, Routing, Typed, TypeOK
<1>2. /\ work[w].binding \in Binding /\ work[w].done + 1 \in DOMAIN work[w].unit
      /\ work[w].unit \in Seq(Event) /\ work[w].done \in Nat
  BY <1>1 DEF Shape, Work
<1>3. work[w].unit[work[w].done + 1] \in Event /\ work[w].done + 1 \in Nat
  BY <1>2
<1>4. rows' = [rows EXCEPT ![work[w].binding][work[w].unit[work[w].done + 1]] =
                  WithStarted(rows[work[w].binding][work[w].unit[work[w].done + 1]])]
  BY DEF StartRow, UpdateRows
<1>5. /\ work'[w] = [work[w] EXCEPT !.done = work[w].done + 1,
                        !.at = IF work[w].done + 1 = Len(work[w].unit) THEN "run" ELSE @]
      /\ \A v \in Worker \ {w} : work'[v] = work[v]
  BY <1>1 DEF StartRow
<1>6. /\ work'[w].binding = work[w].binding /\ work'[w].unit = work[w].unit
      /\ work'[w].done = work[w].done + 1
      /\ work'[w].at = IF work[w].done + 1 = Len(work[w].unit) THEN "run" ELSE "start"
      /\ work'[w] = [work[w] EXCEPT !.done = work[w].done + 1, !.at = work'[w].at]
  BY <1>1, <1>5 DEF Work
<1>7. Starts(w, work[w].binding, work[w].done + 1, work[w].unit[work[w].done + 1])
  BY <1>1, <1>2, <1>3, <1>4, <1>5, <1>6 DEF Starts
<1> QED
  BY <1>2, <1>3, <1>7

(* SettleRow settles one row.                                               *)
LEMMA SettleEffect ==
    ASSUME Typed, NEW w \in Worker, SettleRow(w)
    PROVE  \E b \in Binding, n \in Nat, e \in Event : Settles(w, b, n, e)
<1>1. /\ work \in [Worker -> Work] /\ work[w] \in Work /\ Shape(work[w])
      /\ work[w].at = "settle"
  BY DEF SettleRow, Routing, Typed, TypeOK
<1>2. /\ work[w].binding \in Binding /\ work[w].done + 1 \in DOMAIN work[w].unit
      /\ work[w].unit \in Seq(Event) /\ work[w].done \in Nat
  BY <1>1 DEF Shape, Work
<1>3. work[w].unit[work[w].done + 1] \in Event /\ work[w].done + 1 \in Nat
  BY <1>2
<1>4. rows' = [rows EXCEPT ![work[w].binding][work[w].unit[work[w].done + 1]] =
                  WithResult(rows[work[w].binding][work[w].unit[work[w].done + 1]], work[w].ok)]
  BY DEF SettleRow, UpdateRows
<1>5. /\ work'[w] = IF work[w].done + 1 = Len(work[w].unit)
                    THEN [UnitDone(work[w]) EXCEPT !.failed = work[w].failed \/ ~work[w].ok]
                    ELSE [work[w] EXCEPT !.done = work[w].done + 1]
      /\ \A v \in Worker \ {w} : work'[v] = work[v]
  BY <1>1 DEF SettleRow
<1>6. CASE work[w].done + 1 = Len(work[w].unit)
  <2>1. /\ work'[w].at = "check" /\ work'[w].unit = <<>> /\ work'[w].done = 0
        /\ work'[w].failed = (work[w].failed \/ ~work[w].ok)
        /\ work'[w].binding = work[w].binding /\ work'[w].batch = work[w].batch
        /\ work'[w].pos = work[w].pos /\ work'[w].groups = work[w].groups
        /\ work'[w].role = work[w].role
    BY <1>1, <1>5, <1>6 DEF Work, UnitDone
  <2>2. Settles(w, work[w].binding, work[w].done + 1, work[w].unit[work[w].done + 1])
    BY <1>1, <1>2, <1>3, <1>4, <1>5, <1>6, <2>1 DEF Settles
  <2> QED
    BY <1>2, <1>3, <2>2
<1>7. CASE work[w].done + 1 # Len(work[w].unit)
  <2>1. /\ work'[w].at = "settle" /\ work'[w].unit = work[w].unit /\ work'[w].done = work[w].done + 1
        /\ work'[w].failed = work[w].failed /\ work'[w].ok = work[w].ok
        /\ work'[w].binding = work[w].binding /\ work'[w].batch = work[w].batch
        /\ work'[w].pos = work[w].pos /\ work'[w].groups = work[w].groups
        /\ work'[w].role = work[w].role
    BY <1>1, <1>5, <1>7 DEF Work
  <2>2. Settles(w, work[w].binding, work[w].done + 1, work[w].unit[work[w].done + 1])
    BY <1>1, <1>2, <1>3, <1>4, <1>5, <1>7, <2>1 DEF Settles
  <2> QED
    BY <1>2, <1>3, <2>2
<1> QED
  BY <1>6, <1>7

(* A started row has one owner more.                                        *)
LEMMA StartRuns ==
    ASSUME Typed, Running, NEW w \in Worker, StartRow(w)
    PROVE  /\ Running' /\ rows' \in [Binding -> [Event -> Rows]]
           /\ \A b \in Binding, e \in Event : Later(rows[b][e], rows'[b][e])
<1>0. PICK b \in Binding, n \in Nat, e \in Event : Starts(w, b, n, e)
  BY StartEffect
<1>1. /\ b = work[w].binding /\ n = work[w].done + 1 /\ e = work[w].unit[n]
      /\ work[w].at = "start" /\ n \in DOMAIN work[w].unit /\ work[w].done \in Nat
      /\ rows' = [rows EXCEPT ![b][e] = WithStarted(rows[b][e])]
      /\ work'[w].binding = b /\ work'[w].unit = work[w].unit /\ work'[w].done = n
      /\ work'[w].at = IF n = Len(work[w].unit) THEN "run" ELSE "start"
      /\ \A v \in Worker \ {w} : work'[v] = work[v]
  BY <1>0 DEF Starts
<1>2. rows \in [Binding -> [Event -> Rows]] /\ work[w].unit \in Seq(Event)
  BY DEF Typed, TypeOK, Work
<1>3. rows[b][e] \in Rows /\ WithStarted(rows[b][e]) \in Rows
  BY <1>1, <1>2, RowOps
<1>4. /\ rows' \in [Binding -> [Event -> Rows]]
      /\ \A c \in Binding, f \in Event :
            rows'[c][f] = IF c = b /\ f = e THEN WithStarted(rows[b][e]) ELSE rows[c][f]
  BY <1>1, <1>2, <1>3
<1>5. \A v \in Worker \ {w}, c \in Binding, f \in Event : Unsettled(v, c, f)' = Unsettled(v, c, f)
  BY <1>1 DEF Unsettled
<1>6. \A i \in DOMAIN work[w].unit :
         /\ i <= n <=> i <= work[w].done \/ i = n
         /\ n = Len(work[w].unit) => i <= n
  BY <1>1, <1>2
<1>7. \A c, f : Unsettled(w, c, f)' = IF c = b /\ f = e THEN Unsettled(w, c, f) \cup {n}
                                      ELSE Unsettled(w, c, f)
  BY <1>1, <1>6 DEF Unsettled
<1>8. n \notin Unsettled(w, b, e)
  BY <1>1 DEF Unsettled
<1>9. \A c \in Binding, f \in Event : c # b \/ f # e => Owners(c, f)' = Owners(c, f)
  BY <1>5, <1>7 DEF Owners
<1>10. Owners(b, e)' = Owners(b, e) \cup {<<w, n>>} /\ <<w, n>> \notin Owners(b, e)
  <2>1. \A v \in Worker : \A i : i \in Unsettled(v, b, e)' <=> i \in Unsettled(v, b, e) \/ (v = w /\ i = n)
    BY <1>5, <1>7
  <2>2. \A x : x \in Owners(b, e)' <=> \E v \in Worker : \E i \in Unsettled(v, b, e)' : x = <<v, i>>
    BY DEF Owners
  <2>3. \A x : x \in Owners(b, e)' <=> x \in Owners(b, e) \cup {<<w, n>>}
    BY <2>1, <2>2, OwnersMember
  <2> QED
    BY <1>8, <2>3, OwnersMember
<1>11. IsFiniteSet(Owners(b, e)) /\ rows[b][e].running = Cardinality(Owners(b, e))
  BY <1>1 DEF Running
<1>12. /\ IsFiniteSet(Owners(b, e) \cup {<<w, n>>})
       /\ Cardinality(Owners(b, e) \cup {<<w, n>>}) = Cardinality(Owners(b, e)) + 1
  BY <1>10, <1>11, FS_AddElement
<1>13. IsFiniteSet(Owners(b, e)') /\ rows'[b][e].running = Cardinality(Owners(b, e)')
  <2>1. rows'[b][e].running = rows[b][e].running + 1
    BY <1>3, <1>4, RowOps
  <2> QED
    BY <1>10, <1>11, <1>12, <2>1
<1>14. Running'
  BY <1>4, <1>9, <1>13 DEF Running
<1>15. Later(rows[b][e], WithStarted(rows[b][e]))
  <2> DEFINE r == rows[b][e]
             s == WithStarted(r)
  <2>1. /\ r.running \in Nat /\ r.completed \in Nat /\ r.failed \in Nat
        /\ s.running = r.running + 1 /\ s.completed = r.completed /\ s.failed = r.failed
    BY <1>3, RowOps
  <2> HIDE DEF r, s
  <2>2. Later(r, s)
    BY <2>1 DEF Later
  <2> QED
    BY <2>2 DEF r, s
<1>16. \A c \in Binding, f \in Event : Later(rows[c][f], rows[c][f])
  <2>1. \A c \in Binding, f \in Event : rows[c][f] \in Rows
    BY <1>2
  <2> QED
    BY <2>1 DEF Later, Rows
<1> QED
  BY <1>4, <1>14, <1>15, <1>16

(* A settled row has one owner less.                                        *)
LEMMA SettleRuns ==
    ASSUME Typed, Running, NEW w \in Worker, SettleRow(w)
    PROVE  /\ Running' /\ rows' \in [Binding -> [Event -> Rows]]
           /\ rows[work[w].binding][work[w].unit[work[w].done + 1]].running >= 1
           /\ \A b \in Binding, e \in Event : Later(rows[b][e], rows'[b][e])
<1>0. PICK b \in Binding, n \in Nat, e \in Event : Settles(w, b, n, e)
  BY SettleEffect
<1>1. /\ b = work[w].binding /\ n = work[w].done + 1 /\ e = work[w].unit[n]
      /\ work[w].at = "settle" /\ n \in DOMAIN work[w].unit /\ work[w].done \in Nat
      /\ rows' = [rows EXCEPT ![b][e] = WithResult(rows[b][e], work[w].ok)]
      /\ \/ n = Len(work[w].unit) /\ work'[w].at = "check"
         \/ n # Len(work[w].unit) /\ work'[w].at = "settle"
            /\ work'[w].unit = work[w].unit /\ work'[w].done = n
      /\ work'[w].binding = b
      /\ \A v \in Worker \ {w} : work'[v] = work[v]
  BY <1>0 DEF Settles
<1>2. rows \in [Binding -> [Event -> Rows]] /\ work[w].unit \in Seq(Event) /\ work[w].ok \in BOOLEAN
  BY DEF Typed, TypeOK, Work
<1>3. n \in Unsettled(w, b, e)
  BY <1>1 DEF Unsettled
<1>4. <<w, n>> \in Owners(b, e) /\ IsFiniteSet(Owners(b, e))
      /\ rows[b][e].running = Cardinality(Owners(b, e))
  BY <1>1, <1>3, OwnersMember DEF Running
<1>5. Owners(b, e) # {} /\ Cardinality(Owners(b, e)) \in Nat
  BY <1>4, FS_CardinalityType
<1>6. rows[b][e].running >= 1
  BY <1>4, <1>5, FS_EmptySet
<1>7. rows[b][e] \in Rows /\ WithResult(rows[b][e], work[w].ok) \in Rows
      /\ WithResult(rows[b][e], work[w].ok).running = rows[b][e].running - 1
  BY <1>1, <1>2, <1>6, RowResult
<1>8. /\ rows' \in [Binding -> [Event -> Rows]]
      /\ \A c \in Binding, f \in Event :
            rows'[c][f] = IF c = b /\ f = e THEN WithResult(rows[b][e], work[w].ok) ELSE rows[c][f]
  BY <1>1, <1>2, <1>7
<1>9. \A v \in Worker \ {w}, c \in Binding, f \in Event : Unsettled(v, c, f)' = Unsettled(v, c, f)
  BY <1>1 DEF Unsettled
<1>10. \A i \in DOMAIN work[w].unit :
         /\ i > n <=> i > work[w].done /\ i # n
         /\ n = Len(work[w].unit) => ~(i > n)
  BY <1>1, <1>2
<1>11. \A c, f : Unsettled(w, c, f)' = IF c = b /\ f = e THEN Unsettled(w, c, f) \ {n}
                                       ELSE Unsettled(w, c, f)
  <2>1. CASE n = Len(work[w].unit)
    <3>1. work'[w].at = "check" /\ \A c, f : Unsettled(w, c, f)' = {}
      BY <1>1, <2>1 DEF Unsettled
    <3>2. \A i \in DOMAIN work[w].unit : i > work[w].done => i = n
      BY <1>10, <2>1
    <3>3. \A c, f : \A i \in Unsettled(w, c, f) : i = n /\ c = b /\ f = e
      BY <1>1, <3>2 DEF Unsettled
    <3> QED
      BY <3>1, <3>3
  <2>2. CASE n # Len(work[w].unit)
    BY <1>1, <1>10, <2>2 DEF Unsettled
  <2> QED
    BY <2>1, <2>2
<1>12. \A c \in Binding, f \in Event : c # b \/ f # e => Owners(c, f)' = Owners(c, f)
  BY <1>9, <1>11 DEF Owners
<1>13. Owners(b, e)' = Owners(b, e) \ {<<w, n>>}
  <2>1. \A v \in Worker : \A i : i \in Unsettled(v, b, e)' <=> i \in Unsettled(v, b, e) /\ ~(v = w /\ i = n)
    BY <1>9, <1>11
  <2>2. \A x : x \in Owners(b, e)' <=> \E v \in Worker : \E i \in Unsettled(v, b, e)' : x = <<v, i>>
    BY DEF Owners
  <2>3. \A x : x \in Owners(b, e)' <=> x \in Owners(b, e) \ {<<w, n>>}
    BY <2>1, <2>2, OwnersMember
  <2> QED
    BY <2>3
<1>14. /\ IsFiniteSet(Owners(b, e) \ {<<w, n>>})
       /\ Cardinality(Owners(b, e) \ {<<w, n>>}) = Cardinality(Owners(b, e)) - 1
  BY <1>4, FS_RemoveElement
<1>15. IsFiniteSet(Owners(b, e)') /\ rows'[b][e].running = Cardinality(Owners(b, e)')
  BY <1>1, <1>4, <1>7, <1>8, <1>13, <1>14
<1>16. Running'
  BY <1>8, <1>12, <1>15 DEF Running
<1>17. Later(rows[b][e], WithResult(rows[b][e], work[w].ok))
  <2> DEFINE r == rows[b][e]
             s == WithResult(r, work[w].ok)
  <2>1. /\ r.running \in Nat /\ r.completed \in Nat /\ r.failed \in Nat
        /\ s.running = r.running - 1
        /\ s.completed = (IF work[w].ok THEN r.completed + 1 ELSE r.completed)
        /\ s.failed = (IF work[w].ok THEN r.failed ELSE r.failed + 1)
    BY <1>2, <1>6, <1>7, RowOps, RowResult
  <2> HIDE DEF r, s
  <2>2. Later(r, s)
    BY <2>1 DEF Later
  <2> QED
    BY <2>2 DEF r, s
<1>18. \A c \in Binding, f \in Event : Later(rows[c][f], rows[c][f])
  <2>1. \A c \in Binding, f \in Event : rows[c][f] \in Rows
    BY <1>2
  <2> QED
    BY <2>1 DEF Later, Rows
<1> QED
  BY <1>1, <1>6, <1>8, <1>16, <1>17, <1>18

(* Only the start of a stream leaves events out, and a connector that       *)
(* resumes leaves out none.                                                 *)
LEMMA LostGrows ==
    ASSUME lost \subseteq Event, [Next]_vars
    PROVE  /\ lost' \subseteq Event /\ lost \subseteq lost'
           /\ Resumes /\ refresh.cursor \in Int => lost' = lost
<1>1. ASSUME UNCHANGED lost \/ Spawn
      PROVE  /\ lost' \subseteq Event /\ lost \subseteq lost'
             /\ Resumes /\ refresh.cursor \in Int => lost' = lost
  <2>1. CASE Spawn
    <3>1. \A e \in Event : e \in Int
      BY SizeAssumption DEF Event, Position
    <3>2. Resumes => next' = refresh.cursor + 1
      BY <2>1 DEF Spawn, BeginsAt
    <3>3. lost' = lost \cup {e \in Event : refresh.cursor < e /\ e < next'}
      BY <2>1 DEF Spawn
    <3>4. ASSUME Resumes, refresh.cursor \in Int, NEW e \in Event
          PROVE  ~(refresh.cursor < e /\ e < next')
      BY <3>1, <3>2, <3>4
    <3> QED
      BY <3>3, <3>4
  <2> QED
    BY <1>1, <2>1
<1>2. CASE \E w \in Worker : TakeBatch(w) \/ Route(w) \/ Flush(w)
  <2>1. UNCHANGED lost
    BY <1>2 DEF TakeBatch, Route, SkipEvent, FilterEvent, CollectEvent, DispatchEvent, NextBinding,
           EnqueueGroup, RecordQueued, DispatchGroup, StartRow, RunAction, SettleRow, Report, Flush
  <2> QED
    BY <1>1, <2>1
<1>3. CASE Stream \/ Recover \/ ConnectorExits \/ Degrade \/ Crash \/ UNCHANGED vars
  <2>1. UNCHANGED lost
    BY <1>3 DEF Stream, ReceiveEvent, ReceiveCheckpoint, ApplyAck, StreamEnds, Recover,
           ConnectorExits, Degrade, Crash, vars
  <2> QED
    BY <1>1, <2>1
<1>4. CASE Refresh
  <2>1. UNCHANGED lost \/ Spawn
    BY <1>4 DEF Refresh, List, StartStream, LeaveStream, StopStream, RestartStream
  <2> QED
    BY <1>1, <2>1
<1> QED
  BY <1>2, <1>3, <1>4 DEF Next

(* A step of the router keeps the types.                                    *)
LEMMA RouteTyped ==
    ASSUME Typed, Running, NEW w \in Worker, Route(w)
    PROVE  /\ Typed' /\ Running'
           /\ \A b \in Binding, e \in Event : Later(rows[b][e], rows'[b][e])
<1> USE SizeAssumption, MaxFailedAssumption
<1>0. lost' \subseteq Event
  BY LostGrows DEF Next, Typed, TypeOK
<1>1. /\ rows' \in [Binding -> [Event -> Rows]] /\ Running'
      /\ \A b \in Binding, e \in Event : Later(rows[b][e], rows'[b][e])
  <2>1. CASE StartRow(w)
    BY <2>1, StartRuns
  <2>2. CASE SettleRow(w)
    BY <2>2, SettleRuns
  <2>3. CASE ~StartRow(w) /\ ~SettleRow(w)
    BY <2>3, QuietRoute, RunningKept
  <2> QED
    BY <2>1, <2>2, <2>3
<1>2. work' \in [Worker -> Work] /\ \A v \in Worker : Shape(work'[v])
  <2>1. work \in [Worker -> Work] /\ (\A v \in Worker : Shape(work[v])) /\ RouteStep(w)
    BY RouteShape DEF Typed, TypeOK
  <2> QED
    BY <2>1 DEF RouteStep
<1>3. UNCHANGED <<connVars, stream, next, pending, refresh, faults>>
  BY DEF Route, SkipEvent, FilterEvent, CollectEvent, DispatchEvent, NextBinding, EnqueueGroup,
         RecordQueued, DispatchGroup, StartRow, RunAction, SettleRow, Report, streamVars
<1>4. acks' \in Seq(Event \cup {Failure})
  <2>1. CASE Report(w)
    <3>1. acks \in Seq(Event \cup {Failure}) /\ work[w].batch \in Seq(Event)
      BY DEF Typed, TypeOK, Work
    <3>2. work[w].batch \in Seq(Event \cup {Failure})
      BY <3>1
    <3>3. acks \o work[w].batch \in Seq(Event \cup {Failure})
      BY <3>1, <3>2, ConcatProperties
    <3> QED
      BY <2>1, <3>1, <3>3 DEF Report
  <2>2. CASE ~Report(w)
    BY <2>2 DEF Route, SkipEvent, FilterEvent, CollectEvent, DispatchEvent, NextBinding,
           EnqueueGroup, RecordQueued, DispatchGroup, StartRow, RunAction, SettleRow, streamVars,
           Typed, TypeOK
  <2> QED
    BY <2>1, <2>2
<1>5. digest' \in [Binding -> Seq(Event)] /\ scheduled' \in BOOLEAN /\ timer' \in BOOLEAN
  <2>1. CASE EnqueueGroup(w)
    <3>1. /\ work[w].binding \in Binding /\ digest \in [Binding -> Seq(Event)]
          /\ work[w].groups \in [Binding -> Seq(Event)]
      BY <2>1 DEF EnqueueGroup, AfterBatch, Typed, TypeOK, Work
    <3>2. digest[work[w].binding] \o Group(w) \in Seq(Event)
      BY <3>1, ConcatProperties DEF Group
    <3>3. /\ digest' = [digest EXCEPT ![work[w].binding] = digest[work[w].binding] \o Group(w)]
          /\ scheduled' = TRUE /\ timer' = (timer \/ ~scheduled)
      BY <2>1 DEF EnqueueGroup
    <3> QED
      BY <3>1, <3>2, <3>3
  <2>2. CASE ~EnqueueGroup(w)
    BY <2>2 DEF Route, SkipEvent, FilterEvent, CollectEvent, DispatchEvent, NextBinding,
           RecordQueued, DispatchGroup, StartRow, RunAction, SettleRow, Report, digestVars,
           Typed, TypeOK
  <2> QED
    BY <2>1, <2>2
<1>6. tries' \in [Binding -> [Event -> 0..(MaxFailed + 1)]]
  <2>1. CASE RunAction(w)
    <3>1. \A b \in Binding, e \in Event :
             /\ tries[b][e] \in 0..(MaxFailed + 1)
             /\ tries[b][e] <= MaxFailed => tries[b][e] + 1 \in 0..(MaxFailed + 1)
      BY DEF Typed, TypeOK
    <3> QED
      BY <2>1, <3>1 DEF RunAction
  <2>2. CASE ~RunAction(w)
    BY <2>2 DEF Route, SkipEvent, FilterEvent, CollectEvent, DispatchEvent, NextBinding,
           EnqueueGroup, RecordQueued, DispatchGroup, StartRow, SettleRow, Report, Typed, TypeOK
  <2> QED
    BY <2>1, <2>2
<1> QED
  BY <1>0, <1>1, <1>2, <1>3, <1>4, <1>5, <1>6 DEF Typed, TypeOK, connVars

(* Taking a batch or the digest gives an idle thread something to do.       *)
LEMMA TakeTyped ==
    ASSUME Typed, Running, NEW w \in Worker, TakeBatch(w) \/ Flush(w)
    PROVE  Typed' /\ Running' /\ UNCHANGED rows
<1>0. lost' \subseteq Event
  BY LostGrows DEF Next, Typed, TypeOK
<1>1. /\ work \in [Worker -> Work] /\ work[w].role = "idle" /\ Shape(work[w])
      /\ pending \in Seq(Event) /\ digest \in [Binding -> Seq(Event)]
  BY DEF TakeBatch, Flush, Typed, TypeOK
<1>2. PICK r \in Work : /\ work' = [work EXCEPT ![w] = r] /\ r.at = "check"
                        /\ r.unit = <<>> /\ r.done = 0
  <2>1. IdleWork \in Work
    BY EmptySeq, SizeAssumption DEF IdleWork, Work, NoGroups
  <2>2. CASE TakeBatch(w)
    <3> DEFINE r == [IdleWork EXCEPT !.role = "stream", !.batch = pending]
    <3>1. work' = [work EXCEPT ![w] = r]
      BY <2>2 DEF TakeBatch
    <3>2. r \in Work /\ r.at = "check" /\ r.unit = <<>> /\ r.done = 0
      BY <1>1, <2>1 DEF Work, IdleWork
    <3> QED
      BY <3>1, <3>2
  <2>3. CASE Flush(w)
    <3> DEFINE r == [IdleWork EXCEPT !.role = "flush", !.groups = digest]
    <3>1. work' = [work EXCEPT ![w] = r]
      BY <2>3 DEF Flush
    <3>2. r \in Work /\ r.at = "check" /\ r.unit = <<>> /\ r.done = 0
      BY <1>1, <2>1 DEF Work, IdleWork
    <3> QED
      BY <3>1, <3>2
  <2> QED
    BY <2>2, <2>3
<1>3. work' \in [Worker -> Work] /\ \A v \in Worker : Shape(work'[v])
  <2>1. Shape(r)
    BY <1>2 DEF Shape
  <2> QED
    BY <1>1, <1>2, <2>1 DEF Typed
<1>4. UNCHANGED <<rows, cursor, conn, stream, next, acks, refresh, faults, tries>>
  BY DEF TakeBatch, Flush, connVars, streamVars
<1>5. /\ pending' \in Seq(Event) /\ digest' \in [Binding -> Seq(Event)]
      /\ scheduled' \in BOOLEAN /\ timer' \in BOOLEAN
  <2>1. NoGroups \in [Binding -> Seq(Event)] /\ <<>> \in Seq(Event)
    BY EmptySeq DEF NoGroups
  <2>2. scheduled \in BOOLEAN /\ timer \in BOOLEAN
    BY DEF Typed, TypeOK
  <2> QED
    BY <1>1, <2>1, <2>2 DEF TakeBatch, Flush, digestVars, streamVars
<1>6. Typed'
  BY <1>0, <1>3, <1>4, <1>5 DEF Typed, TypeOK
<1>7. work[w].at = "check" /\ work'[w].at = "check" /\ \A v \in Worker \ {w} : work'[v] = work[v]
  BY <1>1, <1>2 DEF Shape, Work
<1>8. \A v \in Worker, b \in Binding, e \in Event : Unsettled(v, b, e)' = Unsettled(v, b, e)
  BY <1>7 DEF Unsettled
<1>9. Running'
  BY <1>4, <1>8, RunningKept
<1> QED
  BY <1>4, <1>6, <1>9

(* The stream task, the refresh and the faults other than a crash.          *)
LEMMA StreamTyped ==
    ASSUME Typed, Running, Stream \/ Refresh \/ Recover \/ ConnectorExits \/ Degrade
    PROVE  Typed' /\ Running' /\ UNCHANGED rows
<1> USE SizeAssumption, KindAssumption
<1>0. lost' \subseteq Event
  BY LostGrows DEF Next, Typed, TypeOK
<1>1. UNCHANGED <<rows, digest, scheduled, timer, tries>>
  BY DEF Stream, ReceiveEvent, ReceiveCheckpoint, ApplyAck, StreamEnds, Refresh, List, StartStream,
         LeaveStream, StopStream, RestartStream, Recover, ConnectorExits, Degrade, digestVars
<1>2. UNCHANGED work \/ work' = Detached
  BY DEF Stream, ReceiveEvent, ReceiveCheckpoint, ApplyAck, StreamEnds, Refresh, List, StartStream,
         LeaveStream, StopStream, RestartStream, Recover, ConnectorExits, Degrade
<1>3. /\ work \in [Worker -> Work] /\ \A v \in Worker : Shape(work[v])
      /\ pending \in Seq(Event) /\ acks \in Seq(Event \cup {Failure})
      /\ cursor \in 0..Last /\ next \in 1..(Last + 1) /\ refresh.cursor \in 0..Last
      /\ faults \in 0..MaxFaults /\ refresh \in Listed /\ conn \in {"active", "degraded"}
      /\ stream \in {"none", "up", "draining", "ended"}
  BY DEF Typed, TypeOK
<1>4. /\ work' \in [Worker -> Work]
      /\ \A v \in Worker : /\ work'[v].at = work[v].at /\ work'[v].unit = work[v].unit
                           /\ work'[v].done = work[v].done
                           /\ work'[v].binding = work[v].binding
                           /\ (work'[v].role = "idle" <=> work[v].role = "idle")
  <2>1. \A v \in Worker : work[v] \in Work /\ [work[v] EXCEPT !.role = "detached"] \in Work
    <3>1. \A r \in Work : [r EXCEPT !.role = "detached"] \in Work
      BY DEF Work
    <3> QED
      BY <1>3, <3>1
  <2>2. CASE work' = Detached
    <3>1. \A v \in Worker : work'[v] = work[v] \/ (work[v].role = "stream" /\ work'[v] = [work[v] EXCEPT !.role = "detached"])
      BY <2>2 DEF Detached
    <3>2. work' \in [Worker -> Work]
      BY <2>1, <2>2 DEF Detached
    <3>3. ASSUME NEW v \in Worker, NEW r, r = [work[v] EXCEPT !.role = "detached"]
          PROVE  /\ r.at = work[v].at /\ r.unit = work[v].unit /\ r.done = work[v].done
                 /\ r.binding = work[v].binding /\ r.role = "detached"
      BY <2>1, <3>3 DEF Work
    <3> QED
      BY <3>1, <3>2, <3>3
  <2> QED
    BY <1>2, <1>3, <2>2
<1>5. \A v \in Worker : Shape(work'[v])
  BY <1>3, <1>4 DEF Shape
<1>6. \A v \in Worker, b \in Binding, e \in Event : Unsettled(v, b, e)' = Unsettled(v, b, e)
  BY <1>4 DEF Unsettled
<1>7. Running'
  BY <1>1, <1>6, RunningKept
<1>8. cursor' \in 0..Last
  <2>1. ASSUME acks # <<>>, Head(acks) # Failure PROVE Head(acks) \in 0..Last
    BY <1>3, <2>1 DEF Event, Position
  <2> QED
    BY <1>3, <2>1 DEF Stream, ReceiveEvent, ReceiveCheckpoint, ApplyAck, StreamEnds, Refresh, List,
         StartStream, LeaveStream, StopStream, RestartStream, Recover, ConnectorExits, Degrade,
         connVars, Position
<1>9. next' \in 1..(Last + 1)
  <2>1. next \in Position => next + 1 \in 1..(Last + 1)
    BY DEF Position
  <2>2. BeginsAt(refresh.cursor) \subseteq 1..(Last + 1) /\ 1 \in 1..(Last + 1)
    BY <1>3 DEF BeginsAt
  <2>3. next \in Event \/ next \in Silent => next \in Position
    BY DEF Event
  <2> QED
    BY <1>3, <2>1, <2>2, <2>3 DEF Stream, ReceiveEvent, ReceiveCheckpoint, ApplyAck, StreamEnds,
         Refresh, List, StartStream, LeaveStream, StopStream, RestartStream, Spawn, Recover,
         ConnectorExits, Degrade, streamVars
<1>10. pending' \in Seq(Event) /\ acks' \in Seq(Event \cup {Failure})
  <2>1. next \in Event => Append(pending, next) \in Seq(Event)
    BY <1>3
  <2>2. acks # <<>> => Tail(acks) \in Seq(Event \cup {Failure})
    BY <1>3
  <2> QED
    BY <1>3, <2>1, <2>2, EmptySeq DEF Stream, ReceiveEvent, ReceiveCheckpoint, ApplyAck, StreamEnds,
         Refresh, List, StartStream, LeaveStream, StopStream, RestartStream, Spawn, Recover,
         ConnectorExits, Degrade, streamVars
<1>11. /\ conn' \in {"active", "degraded"} /\ stream' \in {"none", "up", "draining", "ended"}
  BY <1>3 DEF Stream, ReceiveEvent, ReceiveCheckpoint, ApplyAck, StreamEnds, Refresh, List,
         StartStream, LeaveStream, StopStream, RestartStream, Spawn, Recover, ConnectorExits,
         Degrade, streamVars, connVars
<1>12. faults' \in 0..MaxFaults
  <2>1. faults < MaxFaults => faults + 1 \in 0..MaxFaults
    BY <1>3
  <2> QED
    BY <1>3, <2>1 DEF Stream, ReceiveEvent, ReceiveCheckpoint, ApplyAck, StreamEnds, Refresh, List,
         StartStream, LeaveStream, StopStream, RestartStream, Recover, ConnectorExits, Degrade, Fault
<1>13. refresh' \in Listed /\ refresh'.cursor \in 0..Last
  <2>1. NoRefresh \in Listed /\ NoRefresh.cursor \in 0..Last
    BY DEF NoRefresh, Listed
  <2>2. CASE List
    <3>1. refresh' = [open |-> TRUE, active |-> conn = "active", cursor |-> cursor]
      BY <2>2 DEF List
    <3>2. cursor \in Nat
      BY <1>3
    <3> QED
      BY <1>3, <3>1, <3>2 DEF Listed
  <2>3. CASE ~List
    BY <1>3, <2>1, <2>3 DEF Stream, ReceiveEvent, ReceiveCheckpoint, ApplyAck, StreamEnds, Refresh,
         StartStream, LeaveStream, StopStream, RestartStream, Recover, ConnectorExits, Degrade
  <2> QED
    BY <2>2, <2>3
<1> QED
  BY <1>0, <1>1, <1>4, <1>5, <1>7, <1>8, <1>9, <1>10, <1>11, <1>12, <1>13 DEF Typed, TypeOK

(* After a crash nothing runs and every row that ran has failed.            *)
LEMMA CrashTyped ==
    ASSUME Typed, Running, Crash
    PROVE  /\ Typed' /\ Running'
           /\ \A b \in Binding, e \in Event : Later(rows[b][e], rows'[b][e])
<1> USE SizeAssumption
<1>0. lost' \subseteq Event
  BY LostGrows DEF Next, Typed, TypeOK
<1>1. \A b \in Binding, e \in Event :
         rows[b][e] \in Rows /\ rows'[b][e] = Reclaimed(rows[b][e])
  BY DEF Crash, Typed, TypeOK
<1>2. \A b \in Binding, e \in Event :
         /\ rows'[b][e] \in Rows /\ rows'[b][e].running = 0
         /\ rows'[b][e].completed = rows[b][e].completed
         /\ rows'[b][e].failed = rows[b][e].failed + rows[b][e].running
         /\ rows[b][e].running \in Nat /\ rows[b][e].completed \in Nat /\ rows[b][e].failed \in Nat
  BY <1>1, RowOps
<1>3. \A b \in Binding, e \in Event : Later(rows[b][e], rows'[b][e])
  BY <1>2 DEF Later
<1>4. rows' \in [Binding -> [Event -> Rows]]
  BY <1>2 DEF Crash
<1>5. IdleWork \in Work /\ Shape(IdleWork) /\ IdleWork.at = "check"
  BY EmptySeq DEF IdleWork, Work, NoGroups, Shape
<1>6. \A w \in Worker : work'[w] = IdleWork
  BY DEF Crash
<1>7. Running'
  <2>1. \A w \in Worker, b \in Binding, e \in Event : Unsettled(w, b, e)' = {}
    BY <1>5, <1>6 DEF Unsettled
  <2>2. \A b \in Binding, e \in Event : Owners(b, e)' = {}
    BY <2>1 DEF Owners
  <2> QED
    BY <1>2, <2>2, FS_EmptySet DEF Running
<1>8. work' \in [Worker -> Work] /\ \A v \in Worker : Shape(work'[v])
  BY <1>5, <1>6 DEF Crash
<1>9. /\ faults' \in 0..MaxFaults /\ next' \in 1..(Last + 1)
      /\ UNCHANGED <<cursor, conn, tries>> /\ stream' = "none"
  BY DEF Crash, Fault, Typed, TypeOK, connVars
<1>10. refresh' \in Listed /\ refresh'.cursor \in 0..Last
  BY DEF Crash, NoRefresh, Listed
<1>11. /\ pending' \in Seq(Event) /\ acks' \in Seq(Event \cup {Failure})
       /\ digest' \in [Binding -> Seq(Event)]
       /\ scheduled' \in BOOLEAN /\ timer' \in BOOLEAN
  BY EmptySeq DEF Crash, NoGroups
<1> QED
  BY <1>0, <1>3, <1>4, <1>7, <1>8, <1>9, <1>10, <1>11 DEF Typed, TypeOK

(* Types, running rows and the growth of the history, in every step.        *)
LEMMA TypedStep ==
    ASSUME Typed, Running, [Next]_vars
    PROVE  /\ Typed' /\ Running'
           /\ \A b \in Binding, e \in Event : Later(rows[b][e], rows'[b][e])
<1>1. \A b \in Binding, e \in Event : Later(rows[b][e], rows[b][e])
  <2>1. \A b \in Binding, e \in Event : rows[b][e] \in Rows
    BY DEF Typed, TypeOK
  <2> QED
    BY <2>1 DEF Later, Rows
<1>2. CASE UNCHANGED vars
  <2>1. \A b \in Binding, e \in Event : Owners(b, e)' = Owners(b, e)
    BY <1>2 DEF vars, Owners, Unsettled
  <2> QED
    BY <1>1, <1>2, <2>1 DEF Typed, TypeOK, Running, vars, connVars, streamVars, digestVars
<1>3. CASE Stream \/ Refresh \/ Recover \/ ConnectorExits \/ Degrade
  BY <1>1, <1>3, StreamTyped
<1>4. ASSUME NEW w \in Worker, TakeBatch(w) \/ Flush(w)
      PROVE  /\ Typed' /\ Running'
             /\ \A b \in Binding, e \in Event : Later(rows[b][e], rows'[b][e])
  BY <1>1, <1>4, TakeTyped
<1> QED
  BY <1>2, <1>3, <1>4, RouteTyped, CrashTyped DEF Next

(* Types and ownership hold together.                                       *)
LEMMA TypedRunning == Spec => [](Typed /\ Running)
<1> USE SizeAssumption
<1>1. Init => Typed /\ Running
  <2> SUFFICES ASSUME Init PROVE Typed /\ Running
    OBVIOUS
  <2>1. NoRows \in Rows /\ NoRows.running = 0
    BY DEF NoRows, Rows
  <2>2. IdleWork \in Work /\ Shape(IdleWork) /\ IdleWork.at = "check"
    BY EmptySeq DEF IdleWork, Work, NoGroups, Shape
  <2>3. NoRefresh \in Listed /\ NoRefresh.cursor \in 0..Last
    BY DEF NoRefresh, Listed
  <2>4. \A b \in Binding, e \in Event : Owners(b, e) = {}
    BY <2>2 DEF Init, Owners, Unsettled
  <2>5. Running
    BY <2>1, <2>4, FS_EmptySet DEF Init, Running
  <2>6. tries \in [Binding -> [Event -> 0..(MaxFailed + 1)]]
    BY MaxFailedAssumption DEF Init
  <2>7. /\ digest \in [Binding -> Seq(Event)] /\ pending \in Seq(Event)
        /\ acks \in Seq(Event \cup {Failure})
    BY EmptySeq DEF Init, NoGroups
  <2>8. rows \in [Binding -> [Event -> Rows]] /\ work \in [Worker -> Work]
        /\ \A w \in Worker : Shape(work[w])
    BY <2>1, <2>2 DEF Init
  <2>9. /\ cursor \in 0..Last /\ next \in 1..(Last + 1) /\ faults \in 0..MaxFaults
        /\ refresh \in Listed /\ refresh.cursor \in 0..Last
    BY <2>3 DEF Init
  <2> QED
    BY <2>5, <2>6, <2>7, <2>8, <2>9 DEF Init, Typed, TypeOK
<1>2. Typed /\ Running /\ [Next]_vars => Typed' /\ Running'
  BY TypedStep
<1> QED
  BY <1>1, <1>2, PTL DEF Spec

(* The queues, the cursor, the threads and the history keep their types; in *)
(* particular complete_action_result never settles a row that is not        *)
(* running.                                                                 *)
THEOREM IngestTyped == Spec => []TypeOK
<1>1. Typed /\ Running => TypeOK
  BY DEF Typed
<1> QED
  BY <1>1, TypedRunning, PTL

(* Every running row, which suppresses all redeliveries of its event, has a *)
(* thread that will settle it, through crashes, stops and restarts          *)
(* (reclaim_orphaned_running_on_boot).                                      *)
THEOREM RowsOwned == Spec => []RunningOwned
<1>1. Typed /\ Running => RunningOwned
  BY DEF Running, RunningOwned, Owners
<1> QED
  BY <1>1, TypedRunning, PTL
=============================================================================
