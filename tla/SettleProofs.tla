---------------------------- MODULE SettleProofs ----------------------------
(***************************************************************************)
(* DaemonTurn: what a turn leaves behind, for any number of turns,          *)
(* cancellers, recoveries, tasks, crashes and failed writes.  The entries   *)
(* of the transcript, the budget, the background tasks, the retries and the *)
(* outcome the clients are told of, each from an invariant of its own on    *)
(* top of the flow of TurnProofs.                                           *)
(***************************************************************************)
EXTENDS TurnProofs

-----------------------------------------------------------------------------
(* PromptOnce.                                                              *)

Single == {"started", "user", "interrupted"}

Is(x, t, e) == x.turn = t /\ x.ev = e

Has(p, t, e) == \E i \in DOMAIN out[p].todo : Is(out[p].todo[i], t, e)

(* Where the entry is in what p still writes.                               *)
Places(p, t, e) == {i \in DOMAIN out[p].todo : Is(out[p].todo[i], t, e)}

(* p has entry e of turn t still to write.                                  *)
Owes(p, t, e) ==
    Has(p, t, e) \/ (e = "interrupted" /\ pc[p] \in Reporting /\ T(p) = t)

(* The swap that elects the writer has been made.                           *)
Elected(t, e) == IF e = "interrupted" THEN reported[t] ELSE persisted[t]

OnlyOnce(t, e) ==
    /\ ~Elected(t, e) => Written(t, e) = {} /\ \A p \in Proc : ~Owes(p, t, e)
    /\ \A p, q \in Proc : Owes(p, t, e) /\ Owes(q, t, e) => p = q
    /\ \A p \in Proc : Owes(p, t, e) => Written(t, e) = {}
    /\ \A i, j \in Written(t, e) : i = j
    /\ \A p \in Proc : \A i, j \in Places(p, t, e) : i = j
    /\ \A p \in Proc : Has(p, t, e) /\ e = "interrupted" => pc[p] \notin Reporting

AllOnce == \A t \in Turn, e \in Single : OnlyOnce(t, e)

(* A step after which nobody owes the entry who did not before.             *)
LEMMA OnceFewer ==
    ASSUME NEW t \in Turn, NEW e \in Single, OnlyOnce(t, e),
           Written(t, e)' = Written(t, e), Elected(t, e) => Elected(t, e)',
           \A p \in Proc : Owes(p, t, e)' => Owes(p, t, e),
           \A p \in Proc : \A i, j \in Places(p, t, e)' : i = j,
           \A p \in Proc : Has(p, t, e)' /\ e = "interrupted" => pc'[p] \notin Reporting
    PROVE  OnlyOnce(t, e)'
BY DEF OnlyOnce

(* A move that brings a thread something to write.                          *)
LEMMA OnceMove ==
    ASSUME Flow, NEW t \in Turn, NEW e \in Single, OnlyOnce(t, e),
           NEW p \in Proc, NEW l, NEW s, NEW b \in BOOLEAN, Move(p, l, s, b), T(p) \in Turn,
           Elected(t, e) => Elected(t, e)',
           \A i, j \in DOMAIN s : Is(s[i], t, e) /\ Is(s[j], t, e) => i = j,
           (\E i \in DOMAIN s : Is(s[i], t, e)) =>
               Elected(t, e)' /\ (Owes(p, t, e) \/ ~Elected(t, e)),
           e = "interrupted" /\ l \in Reporting /\ T(p) = t =>
               Elected(t, e)' /\ (Owes(p, t, e) \/ ~Elected(t, e)),
           e = "interrupted" /\ l \in Reporting => \A i \in DOMAIN s : s[i].ev # e
    PROVE  OnlyOnce(t, e)'
<1>1. \A q : T(q)' = T(q)
  BY DEF T, Move
<1>2. /\ pc'[p] = l /\ \A q \in Proc \ {p} : pc'[q] = pc[q]
      /\ out'[p] = (IF s = <<>> THEN Quiet ELSE [todo |-> s, strict |-> b])
      /\ \A q \in Proc \ {p} : out'[q] = out[q]
      /\ UNCHANGED log
  BY DEF Move, Flow, Threads
<1>3. out'[p].todo = s
  BY <1>2 DEF Quiet
<1>4. Written(t, e)' = Written(t, e)
  BY <1>2 DEF Written
<1>5. \A q \in Proc \ {p} : Has(q, t, e)' = Has(q, t, e) /\ Owes(q, t, e)' = Owes(q, t, e)
  BY <1>1, <1>2 DEF Owes, Has
<1>6. Has(p, t, e)' => \E i \in DOMAIN s : Is(s[i], t, e)
  BY <1>3 DEF Has
<1>7. Owes(p, t, e)' => Elected(t, e)' /\ (Owes(p, t, e) \/ ~Elected(t, e))
  BY <1>1, <1>2, <1>6 DEF Owes
<1>8. \A q \in Proc : \A i, j \in Places(q, t, e)' : i = j
  BY <1>2, <1>3 DEF OnlyOnce, Places
<1>9. \A q \in Proc : Has(q, t, e)' /\ e = "interrupted" => pc'[q] \notin Reporting
  BY <1>2, <1>5, <1>6 DEF OnlyOnce, Is
<1>10. ~Elected(t, e)' => Written(t, e)' = {} /\ \A q \in Proc : ~Owes(q, t, e)'
  BY <1>4, <1>5, <1>7 DEF OnlyOnce
<1>11. \A q, r \in Proc : Owes(q, t, e)' /\ Owes(r, t, e)' => q = r
  BY <1>5, <1>7 DEF OnlyOnce
<1>12. \A q \in Proc : Owes(q, t, e)' => Written(t, e)' = {}
  BY <1>4, <1>5, <1>7 DEF OnlyOnce
<1>13. \A i, j \in Written(t, e)' : i = j
  BY <1>4 DEF OnlyOnce
<1> QED
  BY <1>8, <1>9, <1>10, <1>11, <1>12, <1>13 DEF OnlyOnce

(* The swaps elect one writer, who writes each entry once.                  *)
LEMMA OnceMoves ==
    ASSUME Flow, NEW t \in Turn, NEW e \in Single, OnlyOnce(t, e),
           NEW p \in Proc, NEW l, NEW s, Moves(p, l, s)
    PROVE  OnlyOnce(t, e)'
<1> DEFINE u == T(p)
<1>1. PICK b \in BOOLEAN : Move(p, l, s, b)
  BY DEF Moves
<1>2. u \in Turn
  <2>1. pc[p] # "idle"
    BY DEF Moves, WorkerMove, SharedMove, Loops, Agent, Prompting
  <2> QED
    BY <2>1, TurnOf DEF Flow
<1>3. p \in Turn => u = p
  BY DEF T
<1>4. /\ \A o \in Outcome : Say(o).turn = "bus"
      /\ \A f \in {"started", "user", "assistant", "interrupted", "failed", "finished"} :
           Note(u, f).turn = u /\ Note(u, f).ev = f
  BY <1>2, Lines DEF Flow, Handles
<1>5. Elected(t, e) => Elected(t, e)'
  BY DEF Elected, Moves, WorkerMove, SharedMove, Kept, Flow, Handles
<1> HIDE DEF u
<1>a. t # "bus"
  BY TurnAssumption
<1>b. "cancelled" \in Outcome /\ "error" \in Outcome /\ "complete" \in Outcome
  BY DEF Outcome
(* Nothing the flags are about.                                             *)
<1>6. CASE /\ l \notin Reporting
           /\ \A i \in DOMAIN s : s[i].turn = "bus" \/ s[i].ev \notin Single
  BY <1>1, <1>2, <1>5, <1>6, <1>a, OnceMove DEF u, Is
(* The prompt.                                                              *)
<1>7. CASE /\ pc[p] \in {"prepared", "prompt"} /\ s = Prompts(u)
           /\ persisted' = [persisted EXCEPT ![u] = TRUE] /\ UNCHANGED <<registry, reported>>
           /\ l = "rest" => pc[p] = "prompt"
           /\ l \in {"round", "rest"}
  <2>1. \A i, j \in DOMAIN s : Is(s[i], t, e) /\ Is(s[j], t, e) => i = j
    BY <1>4, <1>7 DEF Prompts, Is
  <2>2. ASSUME NEW i \in DOMAIN s, Is(s[i], t, e)
        PROVE  t = u /\ e # "interrupted" /\ ~persisted[u]
    BY <1>4, <1>7, <2>2 DEF Prompts, Is
  <2>3. persisted'[u]
    BY <1>2, <1>7 DEF Flow, Handles
  <2>4. ASSUME NEW i \in DOMAIN s, Is(s[i], t, e)
        PROVE  Elected(t, e)' /\ ~Elected(t, e)
    BY <2>2, <2>3, <2>4 DEF Elected
  <2>5. e = "interrupted" /\ l \in Reporting /\ u = t
          => Elected(t, e)' /\ Owes(p, t, e)
    <3> SUFFICES ASSUME e = "interrupted", l \in Reporting, u = t
                 PROVE  Elected(t, e)' /\ Owes(p, t, e)
      OBVIOUS
    <3>1. pc[p] = "prompt"
      BY <1>7 DEF Reporting
    <3>2. reported[u]
      BY <3>1 DEF Flow, Reporters, Reporting, u
    <3> QED
      BY <1>7, <3>1, <3>2 DEF Elected, Owes, Reporting, u
  <2>6. e = "interrupted" => \A i \in DOMAIN s : s[i].ev # e
    BY <1>4, <1>7 DEF Prompts, Is
  <2> QED
    BY <1>1, <1>2, <1>5, <2>1, <2>4, <2>5, <2>6, OnceMove DEF u
(* The swap of cancel_reported.                                             *)
<1>8. CASE /\ pc[p] = "report" /\ ~reported[u] /\ l = "prompt" /\ s = <<>>
           /\ reported' = [reported EXCEPT ![u] = TRUE]
  <2>1. reported'[u]
    BY <1>2, <1>8 DEF Flow, Handles
  <2>2. e = "interrupted" /\ u = t => Elected(t, e)' /\ ~Elected(t, e)
    BY <1>8, <2>1 DEF Elected
  <2> QED
    BY <1>1, <1>2, <1>5, <1>8, <2>2, OnceMove DEF u
(* The interruption.                                                        *)
<1>9. CASE /\ pc[p] = "rest" /\ l = AfterReport(p) /\ Kept
           /\ s \in {<<Note(u, "interrupted"), Note(u, "finished"), Say("cancelled")>>,
                     <<Note(u, "assistant"), Note(u, "interrupted"),
                       Note(u, "finished"), Say("cancelled")>>}
  <2>1. \A i, j \in DOMAIN s : Is(s[i], t, e) /\ Is(s[j], t, e) => i = j
    BY <1>4, <1>9, <1>a, <1>b DEF Is
  <2>2. ASSUME NEW i \in DOMAIN s, Is(s[i], t, e)
        PROVE  t = u /\ e = "interrupted"
    BY <1>4, <1>9, <1>a, <1>b, <2>2 DEF Single, Is
  <2>3. reported[u] /\ l \notin Reporting
    BY <1>9 DEF Flow, Reporters, Reporting, AfterReport, u
  <2>4. ASSUME NEW i \in DOMAIN s, Is(s[i], t, e)
        PROVE  Elected(t, e)' /\ Owes(p, t, e)
    BY <1>9, <2>2, <2>3, <2>4 DEF Elected, Owes, Kept, Reporting, u
  <2> QED
    BY <1>1, <1>2, <1>5, <2>1, <2>3, <2>4, OnceMove DEF u
<1>10. CASE p \in Turn /\ WorkerMove(p, l, s)
  <2>1. CASE Loops(p, l) /\ s = <<>>
    BY <1>6, <2>1 DEF Loops, Agent, Prompting, Reporting
  <2>2. CASE pc[p] = "prepared" /\ l = "round"
    BY <1>3, <1>7, <1>10, <2>2 DEF WorkerMove, Kept, Loops, Agent, Prompting
  <2>3. CASE ~(Loops(p, l) /\ s = <<>>) /\ ~(pc[p] = "prepared" /\ l = "round")
    <3>1. l \notin Reporting
      BY <1>10, <2>3 DEF WorkerMove, Reporting
    <3>2. \/ s = <<>> \/ \E o \in Outcome : s = <<Say(o)>>
          \/ \E f \in {"assistant", "failed"}, o \in Outcome :
                s \in {<<Note(u, "finished"), Say(o)>>, <<Note(u, f), Note(u, "finished"), Say(o)>>}
      BY <1>3, <1>10, <1>b, <2>3 DEF WorkerMove
    <3>3. \A i \in DOMAIN s : s[i].turn = "bus" \/ s[i].ev \notin Single
      BY <1>4, <3>2 DEF Single
    <3> QED
      BY <1>6, <3>1, <3>3
  <2> QED
    BY <2>1, <2>2, <2>3
<1>11. CASE SharedMove(p, l, s)
  <2>1. CASE pc[p] = "prompt"
    BY <1>7, <1>11, <2>1 DEF SharedMove, u
  <2>2. CASE pc[p] = "rest"
    BY <1>9, <1>11, <2>2 DEF SharedMove, u
  <2>3. CASE l = "prompt"
    BY <1>8, <1>11, <2>3 DEF SharedMove, u, AfterReport, AfterFinish
  <2>4. CASE pc[p] \notin Reporting /\ l # "prompt"
    <3>1. l \notin Reporting /\ (s = <<>> \/ s = <<Say("cancelled")>>)
      BY <1>11, <2>4 DEF SharedMove, Reporting, AfterReport, AfterFinish
    <3>2. \A i \in DOMAIN s : s[i].turn = "bus"
      BY <1>4, <1>b, <3>1
    <3> QED
      BY <1>6, <3>1, <3>2
  <2> QED
    BY <2>1, <2>2, <2>3, <2>4 DEF Reporting
<1> QED
  BY <1>10, <1>11 DEF Moves

(* An entry reaches the transcript, or does not.                            *)
LEMMA OnceWrite ==
    ASSUME Flow, NEW t \in Turn, NEW e \in Single, OnlyOnce(t, e),
           NEW p \in Proc, out[p] # Quiet, out' = [out EXCEPT ![p] = Rest(p)],
           \/ UNCHANGED log
           \/ Head(out[p].todo).turn # "bus" /\ log' = Append(log, Head(out[p].todo)),
           UNCHANGED <<registry, kind, prompt, pc, target, reported, persisted, stopped>>
    PROVE  OnlyOnce(t, e)'
<1>a. \A q : T(q)' = T(q)
  BY DEF T
<1>b. /\ 1 \in DOMAIN out[p].todo /\ Head(out[p].todo) = out[p].todo[1] /\ out[p].todo[1] \in Item
      /\ \A i \in DOMAIN Rest(p).todo :
           i \in Nat /\ i + 1 \in DOMAIN out[p].todo /\ Rest(p).todo[i] = out[p].todo[i + 1]
  BY RestOf DEF Flow
<1>c. out'[p] = Rest(p) /\ \A q \in Proc \ {p} : out'[q] = out[q]
  BY DEF Flow, Threads
<1>d. \A q \in Proc : Owes(q, t, e)' => Owes(q, t, e)
  BY <1>a, <1>b, <1>c DEF Owes, Has
<1>e. \A q \in Proc : Has(q, t, e)' => Has(q, t, e)
  BY <1>b, <1>c DEF Has
<1>f. \A q \in Proc : \A i, j \in Places(q, t, e)' : i = j
  <2> SUFFICES ASSUME NEW q \in Proc, NEW i \in Places(q, t, e)', NEW j \in Places(q, t, e)'
               PROVE  i = j
    OBVIOUS
  <2>1. CASE q # p
    BY <1>c, <2>1 DEF OnlyOnce, Places
  <2>2. CASE q = p
    <3>1. ASSUME NEW k \in Places(q, t, e)'
          PROVE  k \in Nat /\ k + 1 \in Places(p, t, e)
      <4>1. k \in DOMAIN Rest(p).todo /\ Is(Rest(p).todo[k], t, e)
        BY <1>c, <2>2 DEF Places
      <4> QED
        BY <1>b, <4>1 DEF Places, Is
    <3>2. i + 1 = j + 1
      BY <3>1 DEF OnlyOnce
    <3> QED
      BY <3>1, <3>2
  <2> QED
    BY <2>1, <2>2
<1>g. Elected(t, e)' = Elected(t, e)
  BY DEF Elected
<1>h. \A q \in Proc : Has(q, t, e)' /\ e = "interrupted" => pc'[q] \notin Reporting
  BY <1>e DEF OnlyOnce
<1> DEFINE x == Head(out[p].todo)
<1>1. CASE Written(t, e)' = Written(t, e)
  BY <1>1, <1>d, <1>f, <1>g, <1>h, OnceFewer
<1>2. CASE x.turn # "bus" /\ log' = Append(log, x)
  <2>1. x \in Entry
    BY <1>2, <1>b DEF Item, Notes, Says, Say, Entry
  <2>2. x = out[p].todo[1] /\ log \in Seq(Entry) /\ log' = Append(log, x)
    BY <1>2, <1>b DEF Flow, Handles
  <2> HIDE DEF x
  <2>3. /\ DOMAIN log' = DOMAIN log \cup {Len(log) + 1} /\ Len(log) + 1 \notin DOMAIN log
        /\ log'[Len(log) + 1] = x /\ \A i \in DOMAIN log : log'[i] = log[i]
    BY <2>1, <2>2, Appended
  <2>4. CASE x.turn # t \/ x.ev # e
    <3>1. Written(t, e)' = Written(t, e)
      BY <2>3, <2>4 DEF Written
    <3> QED
      BY <3>1, <1>1
  <2>5. CASE x.turn = t /\ x.ev = e
    <3>1. 1 \in Places(p, t, e) /\ Has(p, t, e) /\ Owes(p, t, e)
      BY <1>b, <2>2, <2>5 DEF Places, Has, Owes, Is
    <3>2. Written(t, e) = {} /\ Elected(t, e)
      BY <3>1 DEF OnlyOnce
    <3>3. Written(t, e)' = {Len(log) + 1}
      <4>1. Written(t, e)' = Written(t, e) \cup {Len(log) + 1}
        BY <2>3, <2>5 DEF Written
      <4> QED
        BY <3>2, <4>1
    <3>4. ~Has(p, t, e)'
      <4> SUFFICES ASSUME Has(p, t, e)' PROVE FALSE
        OBVIOUS
      <4>1. PICK i \in DOMAIN Rest(p).todo : Is(Rest(p).todo[i], t, e)
        BY <1>c DEF Has
      <4>2. i \in Nat /\ i + 1 \in Places(p, t, e)
        BY <1>b, <4>1 DEF Places, Is
      <4>3. i + 1 = 1
        BY <3>1, <4>2 DEF OnlyOnce, Places
      <4>4. 0 \notin DOMAIN Rest(p).todo
        <5>1. Rest(p).todo \in Seq(Item)
          BY RestOf DEF Flow
        <5> QED
          BY <5>1
      <4> QED
        BY <4>2, <4>3, <4>4
    <3>5. e = "interrupted" => pc[p] \notin Reporting
      BY <3>1 DEF OnlyOnce
    <3>6. \A q \in Proc : ~Owes(q, t, e)'
      <4>1. ~Owes(p, t, e)'
        BY <3>4, <3>5 DEF Owes
      <4>2. \A q \in Proc : Owes(q, t, e)' => q = p
        BY <1>d, <3>1 DEF OnlyOnce
      <4> QED
        BY <4>1, <4>2
    <3> QED
      BY <1>f, <1>g, <1>h, <3>2, <3>3, <3>6 DEF OnlyOnce
  <2> QED
    BY <2>4, <2>5
<1>3. CASE UNCHANGED log
  BY <1>1, <1>3 DEF Written
<1> QED
  BY <1>2, <1>3

(* Nobody writes after a crash, and a thread that gives up writes less.     *)
LEMMA OnceLess ==
    ASSUME Flow, NEW t \in Turn, NEW e \in Single, OnlyOnce(t, e),
           Written(t, e)' = Written(t, e), UNCHANGED <<reported, persisted>>,
           \A p \in Proc : \/ out'[p] = Quiet /\ pc'[p] \notin Reporting
                           \/ out'[p] = out[p] /\ pc'[p] = pc[p] /\ T(p)' = T(p)
    PROVE  OnlyOnce(t, e)'
<1>1. DOMAIN Quiet.todo = {}
  BY DEF Quiet
<1>2. \A p \in Proc : (Has(p, t, e)' => Has(p, t, e)) /\ (Owes(p, t, e)' => Owes(p, t, e))
  BY <1>1 DEF Has, Owes
<1>3. \A p \in Proc : \A i, j \in Places(p, t, e)' : i = j
  BY <1>1 DEF Places, OnlyOnce
<1>4. \A p \in Proc : Has(p, t, e)' /\ e = "interrupted" => pc'[p] \notin Reporting
  BY <1>1, <1>2 DEF OnlyOnce
<1>5. Elected(t, e) => Elected(t, e)'
  BY DEF Elected
<1> QED
  BY <1>2, <1>3, <1>4, <1>5, OnceFewer

(* Every step keeps an entry from being owed or written twice.              *)
LEMMA OnceStep ==
    ASSUME Flow, Recoveries, [Next]_vars, NEW t \in Turn, NEW e \in Single, OnlyOnce(t, e)
    PROVE  OnlyOnce(t, e)'
<1>1. ASSUME NEW p \in Proc, Moving(p)
      PROVE  OnlyOnce(t, e)'
  BY <1>1, MovingMoves, OnceMoves
<1>2. ASSUME NEW p \in Proc, Write(p)
      PROVE  OnlyOnce(t, e)'
  <2>1. /\ out[p] # Quiet /\ out' = [out EXCEPT ![p] = Rest(p)]
        /\ \/ UNCHANGED log
           \/ Head(out[p].todo).turn # "bus" /\ log' = Append(log, Head(out[p].todo))
        /\ UNCHANGED <<registry, kind, prompt, pc, target, reported, persisted, stopped>>
    BY <1>2 DEF Write, turnVars
  <2> QED
    BY <2>1, OnceWrite
<1>3. ASSUME NEW p \in Proc, WriteFails(p)
      PROVE  OnlyOnce(t, e)'
  <2>1. /\ out[p] # Quiet
        /\ UNCHANGED <<registry, kind, prompt, target, reported, persisted, log, stopped>>
        /\ \/ out' = [out EXCEPT ![p] = Quiet] /\ pc' = [pc EXCEPT ![p] = AfterReport(p)]
           \/ out' = [out EXCEPT ![p] = Rest(p)] /\ UNCHANGED pc
    BY <1>3 DEF WriteFails, Goto, turnVars, histVars
  <2>2. CASE out' = [out EXCEPT ![p] = Quiet] /\ pc' = [pc EXCEPT ![p] = AfterReport(p)]
    <3>1. AfterReport(p) \notin Reporting
      BY DEF AfterReport, Reporting
    <3>2. \A q : T(q)' = T(q)
      BY <2>1 DEF T
    <3>3. Written(t, e)' = Written(t, e)
      BY <2>1 DEF Written
    <3>4. \A q \in Proc : \/ out'[q] = Quiet /\ pc'[q] \notin Reporting
                          \/ out'[q] = out[q] /\ pc'[q] = pc[q] /\ T(q)' = T(q)
      BY <2>2, <3>1, <3>2 DEF Flow, Threads
    <3> QED
      BY <2>1, <3>3, <3>4, OnceLess
  <2>3. CASE out' = [out EXCEPT ![p] = Rest(p)] /\ UNCHANGED pc
    BY <2>1, <2>3, OnceWrite
  <2> QED
    BY <2>1, <2>2, <2>3
<1>4. ASSUME NEW u \in Turn, NEW l \in {"setup", "done"}, Begins(u, l)
      PROVE  OnlyOnce(t, e)'
  <2>1. UNCHANGED <<out, target, reported, persisted, log>> /\ pc' = [pc EXCEPT ![u] = l]
    BY <1>4 DEF Begins
  <2>2. out[u] = Quiet
    BY <1>4 DEF Begins, Flow, Handles, Threads, Over
  <2>3. \A q : T(q)' = T(q)
    BY <2>1 DEF T
  <2>4. \A q \in Proc : \/ out'[q] = Quiet /\ pc'[q] \notin Reporting
                        \/ out'[q] = out[q] /\ pc'[q] = pc[q] /\ T(q)' = T(q)
    BY <2>1, <2>2, <2>3 DEF Flow, Threads, Reporting
  <2>5. Written(t, e)' = Written(t, e)
    BY <2>1 DEF Written
  <2> QED
    BY <2>1, <2>4, <2>5, OnceLess
<1>5. ASSUME NEW c \in Canceller, NEW u \in Turn, CancelTurn(c, u)
      PROVE  OnlyOnce(t, e)'
  <2>1. /\ UNCHANGED <<out, reported, persisted, log>> /\ pc' = [pc EXCEPT ![c] = "finish"]
        /\ out[c] = Quiet /\ target' = [target EXCEPT ![c] = {u}]
    BY <1>5 DEF CancelTurn, At, Goto, turnVars
  <2>2. ASSUME NEW q \in Proc
        PROVE  \/ out'[q] = Quiet /\ pc'[q] \notin Reporting
               \/ out'[q] = out[q] /\ pc'[q] = pc[q] /\ T(q)' = T(q)
    <3>1. CASE q = c
      BY <2>1, <3>1 DEF Flow, Threads, Reporting
    <3>2. CASE q # c /\ pc[q] = "idle" /\ out[q] = Quiet
      BY <2>1, <3>2 DEF Flow, Threads, Reporting
    <3>3. CASE q # c /\ (pc[q] # "idle" \/ out[q] # Quiet)
      <4>1. /\ T(q) \in Turn /\ (q \in Turn => T(q) = q)
            /\ (q \notin Turn => q \in Canceller /\ target[q] = {T(q)})
        BY <3>3, TurnOf DEF Flow
      <4>2. T(q)' = T(q)
        <5>1. CASE q \in Turn
          BY <5>1 DEF T
        <5>2. CASE q \notin Turn
          <6>1. target'[q] = {T(q)}
            BY <2>1, <3>3, <4>1, <5>2 DEF Flow, Threads
          <6>2. T(q)' = CHOOSE v \in Turn : target'[q] = {v}
            BY <5>2 DEF T
          <6> QED
            BY <4>1, <6>1, <6>2
        <5> QED
          BY <5>1, <5>2
      <4> QED
        BY <2>1, <3>3, <4>2 DEF Flow, Threads
    <3> QED
      BY <3>1, <3>2, <3>3
  <2>3. Written(t, e)' = Written(t, e)
    BY <2>1 DEF Written
  <2> QED
    BY <2>1, <2>2, <2>3, OnceLess
<1>6. CASE Marks
  <2>1. PICK m \in Prompt, f \in {"retry", "exhausted"} : log' = Append(log, Marker(f, m))
    BY <1>6 DEF Marks
  <2>2. Marker(f, m) \in Entry /\ Marker(f, m).turn \notin Turn
    BY TurnAssumption DEF Marker, Entry
  <2>3. /\ DOMAIN log' = DOMAIN log \cup {Len(log) + 1} /\ Len(log) + 1 \notin DOMAIN log
        /\ log'[Len(log) + 1] = Marker(f, m) /\ \A i \in DOMAIN log : log'[i] = log[i]
    BY <2>1, <2>2, Appended DEF Flow, Handles
  <2>4. Written(t, e)' = Written(t, e)
    BY <2>2, <2>3 DEF Written
  <2>5. \A q : T(q)' = T(q)
    BY <1>6 DEF T, Marks
  <2> QED
    BY <1>6, <2>4, <2>5, OnceLess DEF Marks
<1>7. CASE Crash
  <2>1. UNCHANGED <<reported, persisted, log>> /\ \A p \in Proc : out'[p] = Quiet /\ pc'[p] \notin Reporting
    BY <1>7 DEF Crash, Proc, Reporting
  <2>2. Written(t, e)' = Written(t, e)
    BY <2>1 DEF Written
  <2> QED
    BY <2>1, <2>2, OnceLess
<1>8. CASE Still
  <2>1. \A q : T(q)' = T(q)
    BY <1>8 DEF T, Still
  <2>2. Written(t, e)' = Written(t, e)
    BY <1>8 DEF Written, Still
  <2> QED
    BY <1>8, <2>1, <2>2, OnceLess DEF Still
<1> QED
  BY <1>1, <1>2, <1>3, <1>4, <1>5, <1>6, <1>7, <1>8, StepKinds

(* Nothing is owed at first.                                                *)
LEMMA OnceInit ==
    ASSUME Init, NEW t \in Turn, NEW e \in Single
    PROVE  OnlyOnce(t, e)
<1>1. DOMAIN Quiet.todo = {}
  BY DEF Quiet
<1>2. Written(t, e) = {}
  BY DEF Init, Written
<1>3. \A p \in Proc : out[p] = Quiet /\ pc[p] \notin Reporting
  BY ProcAssumption DEF Init, Proc, Reporting
<1> QED
  BY <1>1, <1>2, <1>3 DEF OnlyOnce, Owes, Has, Places

(* So every entry is owed and written once.                                 *)
LEMMA OnceHolds == Spec => []AllOnce
<1>1. Init => AllOnce
  BY OnceInit DEF AllOnce
<1>2. Flow /\ Recoveries /\ AllOnce /\ [Next]_vars => AllOnce'
  BY OnceStep DEF AllOnce
<1> QED
  BY <1>1, <1>2, FlowHolds, PTL DEF Spec

(* A set whose members are all the same has at most one.                    *)
LEMMA AtMostOne ==
    ASSUME NEW W, \A i, j \in W : i = j
    PROVE  Cardinality(W) <= 1
<1>1. CASE W = {}
  BY <1>1, FS_EmptySet
<1>2. CASE W # {}
  <2>1. PICK i \in W : W = {i}
    BY <1>2
  <2> QED
    BY <2>1, FS_Singleton
<1> QED
  BY <1>1, <1>2

(* PromptOnce for any number of turns and cancellers: however many threads  *)
(* cancel and report a turn while its worker writes, the swaps of           *)
(* user_prompt_persisted and cancel_reported leave one writer each.         *)
THEOREM PromptsOnce == Spec => []PromptOnce
<1>1. AllOnce => PromptOnce
  BY AtMostOne DEF AllOnce, OnlyOnce, PromptOnce, Single
<1> QED
  BY <1>1, OnceHolds, PTL

-----------------------------------------------------------------------------
(* Where threads go.                                                        *)

(* While the targets stay, every thread is about the same turn.             *)
LEMMA SameTargets ==
    ASSUME UNCHANGED target
    PROVE  \A p : T(p)' = T(p)
BY DEF T

(* Only finish_turn takes a turn out of the registry, and it stops the      *)
(* turn's tasks first.                                                      *)
LEMMA HarvestKinds ==
    ASSUME Flow, Recoveries, [Next]_vars
    PROVE  \/ \E p \in Proc : StopTasks(p) \/ Remove(p)
           \/ Crash
           \/ /\ registry \subseteq registry'
              /\ \A p \in Proc : pc'[p] = "remove" => pc[p] = "remove" /\ T(p)' = T(p)
              /\ \A t \in Turn : pc'[t] \notin Over => pc[t] \notin Over \/ t \in registry'
<1> DEFINE Onward ==
             /\ registry \subseteq registry'
             /\ \A p \in Proc : pc'[p] = "remove" => pc[p] = "remove" /\ T(p)' = T(p)
             /\ \A t \in Turn : pc'[t] \notin Over => pc[t] \notin Over \/ t \in registry'
<1>a. Turn \subseteq Proc
  BY DEF Proc
<1>1. ASSUME NEW p \in Proc, Moving(p), ~StopTasks(p), ~Remove(p)
      PROVE  Onward
  <2>0. PICK l, s : Moves(p, l, s)
    BY <1>1, MovingMoves
  <2>1. \A q : T(q)' = T(q)
    BY <2>0, SameTargets DEF Moves, Move
  <2>2. pc'[p] = l /\ \A q \in Proc \ {p} : pc'[q] = pc[q]
    BY <2>0 DEF Moves, Move, Flow, Threads
  <2>3. pc[p] \notin {"stop", "remove"}
    <3>1. CASE p \in Turn /\ Worker(p)
      BY <3>1 DEF Worker, At, SetupFails, Setup, PersistPrompt, Round, Stream, Returned, Tool,
                  Dispatch, Permit, Permitted, Joined, ThreadLaunches, Ask, OpenPrompt, Answered,
                  TimedOut, Withdraw, PlainTool, SendOutbound, LaunchTask, Invoked, EndOk,
                  TakeProgress, EndErr, CommandOk, CommandErr
    <3> QED
      BY <1>1, <3>1 DEF Moving, At, Finish, Drain, Report, ReportPrompt, ReportRest
  <2>4. l # "remove" /\ UNCHANGED registry
    BY <2>0, <2>3 DEF Moves, WorkerMove, SharedMove, Loops, Agent, Prompting, AfterFinish,
                      AfterReport, Kept
  <2>5. p \in Turn => pc[p] \notin Over
    BY <2>0 DEF Moves, WorkerMove, SharedMove, Loops, Agent, Prompting, Over
  <2> QED
    BY <1>a, <2>1, <2>2, <2>4, <2>5
<1>2. ASSUME NEW p \in Proc, Write(p) \/ WriteFails(p)
      PROVE  Onward
  <2>1. (\A q : T(q)' = T(q)) /\ UNCHANGED registry
    BY <1>2, SameTargets DEF Write, WriteFails, turnVars
  <2>2. CASE UNCHANGED pc
    BY <2>1, <2>2
  <2>3. CASE pc' = [pc EXCEPT ![p] = AfterReport(p)] /\ out[p] # Quiet
    <3>1. p \in Turn => pc[p] \notin Over
      BY <2>3 DEF Flow, Threads
    <3>2. AfterReport(p) # "remove"
      BY DEF AfterReport
    <3>3. pc'[p] = AfterReport(p) /\ \A q \in Proc \ {p} : pc'[q] = pc[q]
      BY <2>3 DEF Flow, Threads
    <3> QED
      BY <1>a, <2>1, <3>1, <3>2, <3>3
  <2> QED
    BY <1>2, <2>2, <2>3 DEF Write, WriteFails, Goto
<1>3. ASSUME NEW t \in Turn, NEW l \in {"setup", "done"}, Begins(t, l)
      PROVE  Onward
  <2>1. pc'[t] = l /\ \A q \in Proc \ {t} : pc'[q] = pc[q]
    BY <1>3, <1>a DEF Begins, Flow, Threads
  <2>2. \A q : T(q)' = T(q)
    BY <1>3, SameTargets DEF Begins
  <2>3. registry \subseteq registry' /\ (l \notin Over => t \in registry')
    BY <1>3 DEF Begins, Over
  <2> QED
    BY <1>a, <2>1, <2>2, <2>3
<1>4. ASSUME NEW d \in Canceller, NEW t \in Turn, CancelTurn(d, t)
      PROVE  Onward
  <2>0. d \in Proc /\ d \notin Turn
    BY ProcAssumption DEF Proc
  <2>1. /\ pc'[d] = "finish" /\ \A q \in Proc \ {d} : pc'[q] = pc[q]
        /\ \A c \in Canceller \ {d} : target'[c] = target[c]
        /\ UNCHANGED registry
    BY <1>4, <2>0 DEF CancelTurn, Goto, Flow, Threads, turnVars
  <2>2. ASSUME NEW q \in Proc \ {d}
        PROVE  T(q)' = T(q)
    <3>1. CASE q \in Turn
      BY <3>1 DEF T
    <3>2. CASE q \notin Turn
      <4>1. target'[q] = target[q]
        BY <2>1, <3>2 DEF Proc
      <4> QED
        BY <4>1 DEF T
    <3> QED
      BY <3>1, <3>2
  <2> QED
    BY <1>a, <2>0, <2>1, <2>2
<1>5. CASE Marks \/ Still
  <2>1. UNCHANGED <<pc, registry>> /\ \A q : T(q)' = T(q)
    BY <1>5, SameTargets DEF Marks, Still
  <2> QED
    BY <2>1
<1> QED
  BY <1>1, <1>2, <1>3, <1>4, <1>5, StepKinds

-----------------------------------------------------------------------------
(* BudgetHeld.                                                              *)

Spent ==
    /\ sent \in [Turn -> Nat] /\ cleared \in [Turn -> Nat]
    /\ budget \in [Turn -> 0..BudgetLimit]
    /\ \A t \in Turn : sent[t] <= BudgetLimit * cleared[t] + budget[t]

(* Who touches the budget, and who stops a turn's tasks.                    *)
LEMMA MoneyKinds ==
    ASSUME [Next]_vars
    PROVE  \/ UNCHANGED <<sent, cleared, budget, harvested>>
           \/ \E p \in Proc : StopTasks(p) \/ Remove(p)
           \/ \E t \in Turn : SendOutbound(t) \/ NestedSends(t)
           \/ Crash
<1>1. CASE UNCHANGED vars
  BY <1>1 DEF vars, workVars, histVars, effectVars
<1>2. ASSUME NEW t \in Turn, Worker(t)
      PROVE  UNCHANGED <<sent, cleared, budget, harvested>> \/ SendOutbound(t)
  <2>1. CASE \/ SetupFails(t) \/ Setup(t) \/ PersistPrompt(t) \/ Round(t) \/ Stream(t)
             \/ Returned(t) \/ Tool(t) \/ Dispatch(t)
    BY <2>1 DEF SetupFails, Setup, PersistPrompt, Round, Stream, Returned, Tool, Dispatch, OnlyPC,
                OnlyOut, workVars, histVars, effectVars
  <2>2. CASE \/ Permit(t) \/ Permitted(t) \/ Joined(t) \/ Ask(t) \/ Answered(t) \/ TimedOut(t)
             \/ \E x \in Task, d \in BOOLEAN : ThreadLaunches(t, x, d)
    BY <2>2 DEF Permit, Permitted, Joined, ThreadLaunches, Ask, Answered, TimedOut, OnlyPC,
                workVars, histVars, effectVars
  <2>3. CASE \/ OpenPrompt(t) \/ Withdraw(t) \/ PlainTool(t)
             \/ \E x \in Task, d \in BOOLEAN, a \in TaskThread : LaunchTask(t, x, d, a)
    BY <2>3 DEF OpenPrompt, Withdraw, PlainTool, LaunchTask, OnlyScope, workVars, histVars,
                effectVars
  <2>4. CASE \/ Invoked(t) \/ EndOk(t) \/ TakeProgress(t) \/ EndErr(t) \/ CommandOk(t)
             \/ CommandErr(t)
    BY <2>4 DEF Invoked, EndOk, TakeProgress, EndErr, CommandOk, CommandErr, OnlyPC, OnlyOut,
                workVars, histVars, effectVars
  <2> QED
    BY <1>2, <2>1, <2>2, <2>3, <2>4 DEF Worker
<1>3. ASSUME NEW p \in Proc, Shared(p)
      PROVE  UNCHANGED <<sent, cleared, budget, harvested>> \/ StopTasks(p) \/ Remove(p)
  BY <1>3 DEF Shared, Write, WriteFails, Finish, Drain, Report, ReportPrompt, ReportRest,
              OnlyScope, workVars, histVars, effectVars
<1>4. CASE Client
  BY <1>4 DEF Client, StartTurn, StagingFails, CancelTurn, ResolveCheck, ResolveSend, workVars,
              histVars, effectVars
<1>5. ASSUME NEW t \in Turn, NEW x \in Task, NEW d \in BOOLEAN, NEW a \in TaskThread,
             NestedLaunches(t, x, d, a)
      PROVE  UNCHANGED <<sent, cleared, budget, harvested>>
  BY <1>5 DEF NestedLaunches, workVars
<1>6. ASSUME NEW x \in Task, Background(x)
      PROVE  UNCHANGED <<sent, cleared, budget, harvested>>
  BY <1>6 DEF Background, CompleteTask, AgentEnds, TeammateEnds, TaskStop, OnlyTasks, workVars,
              histVars, effectVars
<1>7. CASE \E c \in Recoverer : Recovery(c)
  BY <1>7 DEF Recovery, RecoverLoad, RecoverMark, RecoverExhausted, RecoverStart, workVars,
              histVars, effectVars
<1>8. CASE AtRest
  BY <1>1, <1>8 DEF AtRest
<1> QED
  BY <1>1, <1>2, <1>3, <1>4, <1>5, <1>6, <1>7, <1>8 DEF Next, Subagent

(* One more dropped entry is one more limit.                                *)
LEMMA OneMoreLimit ==
    ASSUME NEW c \in Nat
    PROVE  /\ BudgetLimit * c \in Nat
           /\ BudgetLimit * (c + 1) = BudgetLimit * c + BudgetLimit
BY BoundAssumption

(* Every step keeps the accounts.                                           *)
LEMMA SpentStep ==
    ASSUME Flow, Spent, [Next]_vars
    PROVE  Spent'
<1>a. BudgetLimit \in Nat
  BY BoundAssumption
<1>b. \A t \in Turn : /\ sent[t] \in Nat /\ cleared[t] \in Nat /\ budget[t] \in 0..BudgetLimit
                      /\ BudgetLimit * cleared[t] \in Nat
                      /\ BudgetLimit * (cleared[t] + 1) = BudgetLimit * cleared[t] + BudgetLimit
  BY OneMoreLimit DEF Spent
(* A charge and its send.                                                   *)
<1>1. ASSUME NEW t \in Turn, SendOutbound(t) \/ NestedSends(t)
      PROVE  Spent'
  <2>1. /\ budget[t] < BudgetLimit /\ UNCHANGED cleared
        /\ budget' = [budget EXCEPT ![t] = @ + 1] /\ sent' = [sent EXCEPT ![t] = @ + 1]
    BY <1>1 DEF SendOutbound, NestedSends, Send, charge
  <2>2. sent' \in [Turn -> Nat] /\ budget' \in [Turn -> 0..BudgetLimit]
    BY <1>a, <2>1 DEF Spent
  <2>3. \A u \in Turn \ {t} : sent'[u] = sent[u] /\ budget'[u] = budget[u]
    BY <2>1 DEF Spent
  <2>4. sent'[t] = sent[t] + 1 /\ budget'[t] = budget[t] + 1
    BY <2>1 DEF Spent
  <2>5. sent'[t] <= BudgetLimit * cleared[t] + budget'[t]
    <3> DEFINE c == BudgetLimit * cleared[t]
    <3>1. c \in Nat /\ sent[t] \in Nat /\ budget[t] \in Nat /\ sent[t] <= c + budget[t]
      BY <1>a, <1>b DEF Spent
    <3> HIDE DEF c
    <3>2. sent[t] + 1 <= c + (budget[t] + 1)
      BY <3>1
    <3> QED
      BY <2>4, <3>2 DEF c
  <2> QED
    BY <2>1, <2>2, <2>3, <2>5 DEF Spent
(* An entry is dropped: what was charged on it fits into one more limit.    *)
<1>2. ASSUME NEW p \in Proc, Remove(p)
      PROVE  Spent'
  <2>1. /\ UNCHANGED sent /\ budget' = [budget EXCEPT ![T(p)] = 0]
        /\ cleared' = [cleared EXCEPT ![T(p)] = @ + 1] /\ pc[p] = "remove"
    BY <1>2 DEF Remove, At
  <2>2. T(p) \in Turn
    BY <2>1, TurnOf DEF Flow
  <2>3. cleared' \in [Turn -> Nat] /\ budget' \in [Turn -> 0..BudgetLimit]
    BY <1>a, <2>1, <2>2 DEF Spent
  <2>4. \A u \in Turn \ {T(p)} : cleared'[u] = cleared[u] /\ budget'[u] = budget[u]
    BY <2>1 DEF Spent
  <2>5. cleared'[T(p)] = cleared[T(p)] + 1 /\ budget'[T(p)] = 0
    BY <2>1, <2>2 DEF Spent
  <2>6. sent[T(p)] <= BudgetLimit * cleared[T(p)] + BudgetLimit
    <3> DEFINE c == BudgetLimit * cleared[T(p)]
    <3>1. /\ c \in Nat /\ sent[T(p)] \in Nat /\ budget[T(p)] \in 0..BudgetLimit
          /\ sent[T(p)] <= c + budget[T(p)]
      BY <1>b, <2>2 DEF Spent
    <3> HIDE DEF c
    <3>2. sent[T(p)] <= c + BudgetLimit
      BY <1>a, <3>1
    <3> QED
      BY <3>2 DEF c
  <2>7. sent'[T(p)] <= BudgetLimit * cleared'[T(p)] + budget'[T(p)]
    BY <1>a, <1>b, <2>1, <2>2, <2>5, <2>6
  <2> QED
    BY <2>1, <2>3, <2>4, <2>7 DEF Spent
<1>3. CASE Crash
  <2>1. /\ UNCHANGED sent /\ budget' = [t \in Turn |-> 0]
        /\ cleared' = [t \in Turn |-> cleared[t] + 1]
    BY <1>3 DEF Crash
  <2>2. cleared' \in [Turn -> Nat] /\ budget' \in [Turn -> 0..BudgetLimit]
    BY <1>a, <2>1 DEF Spent
  <2>3. ASSUME NEW t \in Turn
        PROVE  sent'[t] <= BudgetLimit * cleared'[t] + budget'[t]
    <3> DEFINE c == BudgetLimit * cleared[t]
    <3>1. /\ c \in Nat /\ sent[t] \in Nat /\ budget[t] \in 0..BudgetLimit
          /\ sent[t] <= c + budget[t] /\ BudgetLimit * (cleared[t] + 1) = c + BudgetLimit
      BY <1>b DEF Spent
    <3>2. cleared'[t] = cleared[t] + 1 /\ budget'[t] = 0 /\ sent'[t] = sent[t]
      BY <2>1
    <3> HIDE DEF c
    <3>3. sent[t] <= c + BudgetLimit + 0
      BY <1>a, <3>1
    <3> QED
      BY <3>1, <3>2, <3>3
  <2> QED
    BY <2>1, <2>2, <2>3 DEF Spent
<1>4. CASE UNCHANGED <<sent, cleared, budget>>
  BY <1>4 DEF Spent
<1>5. ASSUME NEW p \in Proc, StopTasks(p)
      PROVE  UNCHANGED <<sent, cleared, budget>>
  BY <1>5 DEF StopTasks, workVars
<1> QED
  BY <1>1, <1>2, <1>3, <1>4, <1>5, MoneyKinds

(* So the accounts hold.                                                    *)
LEMMA SpentHolds == Spec => []Spent
<1>1. Init => Spent
  BY BoundAssumption DEF Init, Spent
<1>2. Flow /\ Spent /\ [Next]_vars => Spent'
  BY SpentStep
<1> QED
  BY <1>1, <1>2, FlowHolds, PTL DEF Spec

(* BudgetHeld for any number of turns, cancellers, agents and calls: charge *)
(* refuses at the limit whoever calls it, so the worker, the agents nested  *)
(* in it and the agents it left running together send at most the limit for *)
(* every time finish_turn or the end of the daemon drops the entry, and     *)
(* once the limit beyond.                                                   *)
THEOREM BudgetKept == Spec => []BudgetHeld
<1>1. ASSUME Spent, NEW t \in Turn
      PROVE  sent[t] <= BudgetLimit * (1 + cleared[t])
  <2> DEFINE c == BudgetLimit * cleared[t]
  <2>1. /\ c \in Nat /\ sent[t] \in Nat /\ budget[t] \in 0..BudgetLimit /\ BudgetLimit \in Nat
        /\ sent[t] <= c + budget[t] /\ BudgetLimit * (1 + cleared[t]) = c + BudgetLimit
    BY <1>1, OneMoreLimit, BoundAssumption DEF Spent
  <2> HIDE DEF c
  <2> QED
    BY <2>1
<1>2. Spent => BudgetHeld
  BY <1>1 DEF BudgetHeld
<1> QED
  BY <1>2, SpentHolds, PTL

-----------------------------------------------------------------------------
(* ChildrenHarvested.                                                       *)

Harvest(r, t) ==
    ~r.durable => /\ r.status = "abandoned" => r.told
                  /\ t \in harvested => r.status \in Terminal \/ r.told
                  /\ t \notin registry => r.status \in Terminal

Children ==
    /\ TaskTypeOK(Turn)
    /\ \A x \in Task : tasks[x].status = "none" => tasks[x].owner = {}
    /\ \A p \in Proc : pc[p] = "remove" => T(p) \in harvested
    /\ \A t \in Turn : pc[t] \notin Over => t \in registry \cup harvested
    /\ \A x \in Task : \A t \in tasks[x].owner : t \in registry \cup harvested
    /\ \A x \in Task \ strays : \A t \in tasks[x].owner : Harvest(tasks[x], t)

(* A task is launched by a turn's worker or by an agent the turn owns.      *)
Launches(t, o, x, d, a) ==
    /\ o \in {{}, {t}} /\ Launch(t, o, x, d, a)
    /\ pc[t] \notin Over \/ \E y \in Task : t \in tasks[y].owner

(* Who touches a task.                                                      *)
LEMMA TaskKinds ==
    ASSUME [Next]_vars
    PROVE  \/ UNCHANGED <<tasks, strays>>
           \/ \E t \in Turn, x \in Task, d \in BOOLEAN, a \in TaskThread :
                 \E o : Launches(t, o, x, d, a)
           \/ \E x \in Task : Background(x)
           \/ \E p \in Proc : StopTasks(p) \/ Remove(p)
           \/ Crash
<1>1. CASE UNCHANGED vars
  BY <1>1 DEF vars, histVars, effectVars
<1>2. ASSUME NEW t \in Turn, Worker(t)
      PROVE  \/ UNCHANGED <<tasks, strays>>
             \/ \E x \in Task, d \in BOOLEAN, a \in TaskThread : \E o : Launches(t, o, x, d, a)
  <2>1. CASE \/ SetupFails(t) \/ Setup(t) \/ PersistPrompt(t) \/ Round(t) \/ Stream(t)
             \/ Returned(t) \/ Tool(t) \/ Dispatch(t) \/ Permit(t) \/ Permitted(t) \/ Joined(t)
             \/ Ask(t) \/ OpenPrompt(t)
    BY <2>1 DEF SetupFails, Setup, PersistPrompt, Round, Stream, Returned, Tool, Dispatch, Permit,
                Permitted, Joined, Ask, OpenPrompt, OnlyPC, OnlyOut, OnlyScope, histVars, effectVars
  <2>2. CASE \/ Answered(t) \/ TimedOut(t) \/ Withdraw(t) \/ PlainTool(t) \/ SendOutbound(t)
             \/ Invoked(t) \/ EndOk(t) \/ TakeProgress(t) \/ EndErr(t) \/ CommandOk(t)
             \/ CommandErr(t)
    BY <2>2 DEF Answered, TimedOut, Withdraw, PlainTool, SendOutbound, Invoked, EndOk, TakeProgress,
                EndErr, CommandOk, CommandErr, OnlyPC, OnlyOut, OnlyScope, histVars, effectVars
  <2>3. ASSUME NEW x \in Task, NEW d \in BOOLEAN, ThreadLaunches(t, x, d)
        PROVE  Launches(t, {}, x, d, "shell")
    BY <2>3 DEF ThreadLaunches, Launches, At, Over
  <2>4. ASSUME NEW x \in Task, NEW d \in BOOLEAN, NEW a \in TaskThread, LaunchTask(t, x, d, a)
        PROVE  Launches(t, {t}, x, d, a)
    BY <2>4 DEF LaunchTask, Launches, At, Over
  <2>5. "shell" \in TaskThread
    BY DEF TaskThread
  <2> QED
    BY <1>2, <2>1, <2>2, <2>3, <2>4, <2>5 DEF Worker
<1>3. ASSUME NEW p \in Proc, Shared(p)
      PROVE  UNCHANGED <<tasks, strays>> \/ StopTasks(p) \/ Remove(p)
  BY <1>3 DEF Shared, Write, WriteFails, Finish, Drain, Report, ReportPrompt, ReportRest, OnlyScope,
              histVars, effectVars
<1>4. CASE Client
  BY <1>4 DEF Client, StartTurn, StagingFails, CancelTurn, ResolveCheck, ResolveSend, histVars,
              effectVars
<1>5. CASE \E c \in Recoverer : Recovery(c)
  BY <1>5 DEF Recovery, RecoverLoad, RecoverMark, RecoverExhausted, RecoverStart, histVars,
              effectVars
<1>6. CASE AtRest
  BY <1>1, <1>6 DEF AtRest
<1>7. ASSUME NEW t \in Turn, NestedSends(t)
      PROVE  UNCHANGED <<tasks, strays>>
  BY <1>7 DEF NestedSends
<1>8. ASSUME NEW t \in Turn, NEW x \in Task, NEW d \in BOOLEAN, NEW a \in TaskThread,
             NestedLaunches(t, x, d, a)
      PROVE  \E o : Launches(t, o, x, d, a)
  <2>1. pc[t] \notin Over \/ \E y \in Task : t \in tasks[y].owner
    BY <1>8 DEF NestedLaunches, Nested, NestedLauncher, At, Over
  <2> QED
    BY <1>8, <2>1 DEF NestedLaunches, Launches
<1> QED
  BY <1>1, <1>2, <1>3, <1>4, <1>5, <1>6, <1>7, <1>8 DEF Next, Subagent

(* Every step keeps the children of a turn accounted for.                   *)
LEMMA ChildrenStep ==
    ASSUME Flow, Recoveries, Children, [Next]_vars
    PROVE  Children'
<1> DEFINE R == [status : Live \cup Terminal \cup {"none"}, owner : {{}} \cup {{t} : t \in Turn},
                 durable : BOOLEAN, told : BOOLEAN, thread : TaskThread \cup {"none"}]
<1>a. tasks \in [Task -> R] /\ \A x \in Task : tasks[x].owner \subseteq Turn
  BY DEF Children, TaskTypeOK
(* What finish_turn touches: the live scoped tasks of its turn.             *)
<1>b. ASSUME NEW u \in Turn, NEW x \in Task, NEW t \in tasks[x].owner
      PROVE  /\ x \in ScopedLive(u) =>
                   t = u /\ ~tasks[x].durable /\ tasks[x].status \notin Terminal
             /\ t = u /\ x \notin ScopedLive(u) =>
                   tasks[x].durable \/ tasks[x].status \in Terminal
  <2>1. tasks[x] \in R /\ tasks[x].status # "none"
    BY <1>a DEF Children
  <2>2. u \in tasks[x].owner => t = u
    BY <2>1
  <2> QED
    BY <2>1, <2>2 DEF ScopedLive, LiveTasks, Live, Terminal
(* Steps that stop nothing.                                                 *)
<1>1. ASSUME UNCHANGED harvested, registry \subseteq registry',
             \A p \in Proc : pc'[p] = "remove" => pc[p] = "remove" /\ T(p)' = T(p),
             \A t \in Turn : pc'[t] \notin Over => pc[t] \notin Over \/ t \in registry',
             ~Crash, \A p \in Proc : ~StopTasks(p) /\ ~Remove(p)
      PROVE  Children'
  <2>1. /\ \A p \in Proc : pc'[p] = "remove" => T(p)' \in harvested'
        /\ \A t \in Turn : pc'[t] \notin Over => t \in registry' \cup harvested'
    BY <1>1 DEF Children
  (* A task that stays.                                                     *)
  <2>2. ASSUME NEW x \in Task, tasks'[x] = tasks[x], x \in strays => x \in strays'
        PROVE  /\ tasks'[x].status = "none" => tasks'[x].owner = {}
               /\ \A t \in tasks'[x].owner : t \in registry' \cup harvested'
               /\ x \notin strays' => \A t \in tasks'[x].owner : Harvest(tasks[x], t)'
    BY <1>1, <2>2 DEF Children, Harvest
  <2>3. CASE UNCHANGED <<tasks, strays>>
    <3>1. TaskTypeOK(Turn)'
      BY <1>a, <2>3 DEF TaskTypeOK
    <3> QED
      BY <2>1, <2>2, <2>3, <3>1 DEF Children, Harvest
  (* A child is born: if its turn was harvested it is a stray.              *)
  <2>4. ASSUME NEW u \in Turn, NEW x \in Task, NEW d \in BOOLEAN, NEW a \in TaskThread, NEW o,
               Launches(u, o, x, d, a)
        PROVE  Children'
    <3> DEFINE r == [status |-> "running", owner |-> o, durable |-> d, told |-> FALSE,
                     thread |-> a]
    <3>1. /\ o \in {{}, {u}} /\ tasks' = [tasks EXCEPT ![x] = r]
          /\ strays' = IF u \in harvested THEN strays \cup {x} ELSE strays
      BY <2>4 DEF Launches, Launch, register_with_options
    <3>2. u \in registry \cup harvested
      BY <2>4 DEF Launches, Children
    <3>3. r \in R
      BY <3>1 DEF Live
    <3>4. r.owner \subseteq {u} /\ r.status = "running"
      BY <3>1
    <3> HIDE DEF r
    <3>5. tasks'[x] = r /\ \A y \in Task \ {x} : tasks'[y] = tasks[y]
      BY <1>a, <3>1
    <3>6. tasks' \in [Task -> R]
      BY <1>a, <3>1, <3>3
    <3>7. ASSUME x \notin strays', NEW t \in r.owner
          PROVE  Harvest(r, t)'
      <4>1. t = u /\ u \notin harvested /\ u \in registry
        BY <3>1, <3>2, <3>4, <3>7
      <4> QED
        BY <1>1, <3>4, <4>1 DEF Harvest
    <3>8. strays \subseteq strays'
      BY <3>1
    <3>9. \A y \in Task : /\ tasks'[y].status = "none" => tasks'[y].owner = {}
                          /\ \A t \in tasks'[y].owner : t \in registry' \cup harvested'
      BY <1>1, <2>2, <3>2, <3>4, <3>5, <3>8
    <3>10. \A y \in Task \ strays' : \A t \in tasks'[y].owner : Harvest(tasks[y], t)'
      BY <2>2, <3>5, <3>7, <3>8 DEF Harvest
    <3>11. TaskTypeOK(Turn)'
      BY <3>6 DEF TaskTypeOK
    <3> QED
      BY <2>1, <3>9, <3>10, <3>11 DEF Children
  (* A child ends, or is told to.                                           *)
  <2>5. ASSUME NEW x \in Task, Background(x)
        PROVE  Children'
    <3>0. UNCHANGED strays
      BY <2>5 DEF Background, CompleteTask, AgentEnds, TeammateEnds, TaskStop, OnlyTasks, histVars,
                  effectVars
    <3>1. tasks[x] \in R
      BY <1>a
    <3>2. /\ \A y \in Task \ {x} : tasks'[y] = tasks[y]
          /\ tasks' = [y \in Task |-> tasks'[y]]
          /\ tasks'[x] \in R /\ tasks'[x].owner = tasks[x].owner
          /\ tasks'[x].durable = tasks[x].durable
          /\ tasks[x].told => tasks'[x].told
          /\ tasks'[x].status = "none" => tasks[x].status = "none"
          /\ tasks'[x].status = "abandoned" => tasks[x].status = "abandoned"
          /\ tasks[x].status \in Terminal => tasks'[x].status \in Terminal
      <4> DEFINE
            Kin == /\ \A y \in Task \ {x} : tasks'[y] = tasks[y]
                   /\ tasks' = [y \in Task |-> tasks'[y]]
                   /\ tasks'[x] \in R /\ tasks'[x].owner = tasks[x].owner
                   /\ tasks'[x].durable = tasks[x].durable
                   /\ tasks[x].told => tasks'[x].told
                   /\ tasks'[x].status = "none" => tasks[x].status = "none"
                   /\ tasks'[x].status = "abandoned" => tasks[x].status = "abandoned"
                   /\ tasks[x].status \in Terminal => tasks'[x].status \in Terminal
      <4>1. ASSUME NEW st \in BOOLEAN, CompleteTask(x, st) \/ AgentEnds(x, st)
            PROVE  Kin
        <5>1. PICK h \in TaskThread \cup {"none"} :
                 tasks' = [tasks EXCEPT ![x].status = Completed(tasks[x].status, st),
                                        ![x].thread = h]
          <6>1. CASE CompleteTask(x, st)
            <7>1. tasks' = [tasks EXCEPT ![x].status = Completed(tasks[x].status, st)]
              BY <1>a, <6>1 DEF CompleteTask, complete
            <7>2. tasks[x].thread \in TaskThread \cup {"none"}
              BY <3>1
            <7> QED
              BY <1>a, <7>1, <7>2
          <6>2. CASE AgentEnds(x, st)
            BY <1>a, <6>2 DEF AgentEnds, agent_returns
          <6> QED
            BY <4>1, <6>1, <6>2
        <5>2. tasks'[x] = [tasks[x] EXCEPT !.status = Completed(tasks[x].status, st), !.thread = h]
          BY <1>a, <5>1
        <5>3. /\ Completed(tasks[x].status, st) \in Live \cup Terminal \cup {"none"}
              /\ Completed(tasks[x].status, st) = "none" => tasks[x].status = "none"
              /\ Completed(tasks[x].status, st) = "abandoned" => tasks[x].status = "abandoned"
              /\ tasks[x].status \in Terminal => Completed(tasks[x].status, st) \in Terminal
          BY <3>1 DEF Completed, Live, Terminal
        <5>4. /\ tasks'[x].status = Completed(tasks[x].status, st)
              /\ tasks'[x].owner = tasks[x].owner /\ tasks'[x].durable = tasks[x].durable
              /\ tasks'[x].told = tasks[x].told /\ tasks'[x] \in R
          BY <3>1, <5>2, <5>3
        <5>5. (\A y \in Task \ {x} : tasks'[y] = tasks[y]) /\ tasks' = [y \in Task |-> tasks'[y]]
          BY <1>a, <5>1
        <5> QED
          BY <5>3, <5>4, <5>5
      <4>2. ASSUME TeammateEnds(x)
            PROVE  Kin
        <5>1. tasks' = [tasks EXCEPT ![x].thread = "none"]
          BY <4>2 DEF TeammateEnds, teammate_returns
        <5>2. tasks'[x] = [tasks[x] EXCEPT !.thread = "none"]
          BY <1>a, <5>1
        <5>3. (\A y \in Task \ {x} : tasks'[y] = tasks[y]) /\ tasks' = [y \in Task |-> tasks'[y]]
          BY <1>a, <5>1
        <5> QED
          BY <3>1, <5>2, <5>3
      <4>3. ASSUME TaskStop(x)
            PROVE  Kin
        <5>1. /\ tasks[x].status \in Live
              /\ tasks' = [tasks EXCEPT ![x].status = "stopping", ![x].told = TRUE]
          BY <4>3 DEF TaskStop, request_stop
        <5>2. tasks'[x] = [tasks[x] EXCEPT !.status = "stopping", !.told = TRUE]
          BY <1>a, <5>1
        <5>3. (\A y \in Task \ {x} : tasks'[y] = tasks[y]) /\ tasks' = [y \in Task |-> tasks'[y]]
          BY <1>a, <5>1
        <5>4. tasks'[x] \in R
          BY <3>1, <5>2 DEF Live
        <5> QED
          BY <3>1, <5>1, <5>2, <5>3, <5>4 DEF Live, Terminal
      <4> QED
        BY <2>5, <4>1, <4>2, <4>3 DEF Background
    <3>3. tasks' \in [Task -> R]
      BY <1>a, <3>2
    <3>4. TaskTypeOK(Turn)'
      BY <3>3 DEF TaskTypeOK
    <3>5. /\ tasks'[x].status = "none" => tasks'[x].owner = {}
          /\ \A t \in tasks'[x].owner : t \in registry' \cup harvested'
      BY <1>1, <3>2 DEF Children
    <3>6. x \notin strays' => \A t \in tasks'[x].owner : Harvest(tasks[x], t)'
      BY <1>1, <3>0, <3>2 DEF Children, Harvest
    <3> QED
      BY <2>1, <2>2, <3>0, <3>2, <3>4, <3>5, <3>6 DEF Children, Harvest
  <2> QED
    BY <1>1, <2>3, <2>4, <2>5, TaskKinds
(* stop_scoped_by_turn tells every child: its turn is harvested.            *)
<1>2. ASSUME NEW p \in Proc, StopTasks(p)
      PROVE  Children'
  <2> DEFINE u == T(p)
  <2>1. /\ tasks' = [x \in Task |-> IF x \in ScopedLive(u)
                                    THEN [tasks[x] EXCEPT !.status = "stopping", !.told = TRUE]
                                    ELSE tasks[x]]
        /\ harvested' = harvested \cup {u} /\ UNCHANGED <<registry, target, strays>>
        /\ pc[p] = "stop" /\ pc' = [pc EXCEPT ![p] = "remove"]
    BY <1>2 DEF StopTasks, stop_scoped, At, Goto, turnVars
  <2>2. u \in Turn /\ (p \in Turn => p = u)
    BY <2>1, TurnOf DEF Flow
  <2>3. \A q : T(q)' = T(q)
    BY <2>1, SameTargets
  <2>4. T(p)' = u
    BY <2>3
  <2> HIDE DEF u
  <2>5. pc'[p] = "remove" /\ \A q \in Proc \ {p} : pc'[q] = pc[q]
    BY <2>1 DEF Flow, Threads
  <2>6. \A q \in Proc : pc'[q] = "remove" => T(q)' \in harvested'
    BY <2>1, <2>3, <2>4, <2>5 DEF Children
  <2>7. \A t \in Turn : pc'[t] \notin Over => t \in registry' \cup harvested'
    BY <2>1, <2>2, <2>5 DEF Children, Proc
  <2>8. ASSUME NEW x \in ScopedLive(u)
        PROVE  /\ x \in Task /\ tasks'[x].owner = tasks[x].owner /\ tasks'[x].status = "stopping"
               /\ tasks'[x].told /\ tasks'[x] \in R
    <3>1. x \in Task /\ tasks[x] \in R
      BY <1>a DEF ScopedLive, LiveTasks
    <3>2. tasks'[x] = [tasks[x] EXCEPT !.status = "stopping", !.told = TRUE]
      BY <2>1, <3>1
    <3> QED
      BY <3>1, <3>2 DEF Live
  <2>9. \A x \in Task \ ScopedLive(u) : tasks'[x] = tasks[x]
    BY <2>1
  <2>10. TaskTypeOK(Turn)'
    <3>1. \A x \in Task : tasks'[x] \in R
      BY <1>a, <2>8, <2>9
    <3> QED
      BY <2>1, <3>1 DEF TaskTypeOK
  <2>11. \A x \in Task : /\ tasks'[x].status = "none" => tasks'[x].owner = {}
                         /\ \A t \in tasks'[x].owner : t \in registry' \cup harvested'
    BY <2>1, <2>8, <2>9 DEF Children
  <2>12. ASSUME NEW x \in Task \ strays', NEW t \in tasks'[x].owner
         PROVE  Harvest(tasks[x], t)'
    <3>1. t \in tasks[x].owner /\ Harvest(tasks[x], t)
      BY <2>1, <2>8, <2>9, <2>12 DEF Children
    <3>2. CASE x \in ScopedLive(u)
      <4>1. t = u /\ ~tasks[x].durable /\ tasks[x].status \notin Terminal
        BY <1>b, <2>2, <2>12, <3>1, <3>2
      <4>2. t \in registry
        BY <3>1, <4>1 DEF Harvest
      <4> QED
        BY <2>1, <2>8, <3>2, <4>2 DEF Harvest, Terminal
    <3>3. CASE x \notin ScopedLive(u)
      <4>1. t = u => tasks[x].durable \/ tasks[x].status \in Terminal
        BY <1>b, <2>2, <2>12, <3>1, <3>3
      <4> QED
        BY <2>1, <2>9, <2>12, <3>1, <3>3, <4>1 DEF Harvest
    <3> QED
      BY <3>2, <3>3
  <2> QED
    BY <2>6, <2>7, <2>10, <2>11, <2>12 DEF Children
(* Whoever has not ended by now was told: it is written off.                *)
<1>3. ASSUME NEW p \in Proc, Remove(p)
      PROVE  Children'
  <2> DEFINE u == T(p)
  <2>1. /\ tasks' = [x \in Task |-> IF x \in ScopedLive(u)
                                    THEN [tasks[x] EXCEPT !.status = "abandoned"]
                                    ELSE tasks[x]]
        /\ registry' = registry \ {u} /\ UNCHANGED <<harvested, target, strays>>
        /\ pc[p] = "remove" /\ pc' = [pc EXCEPT ![p] = AfterFinish(p)]
    BY <1>3 DEF Remove, abandon_scoped, At, Goto
  <2>2. u \in Turn /\ u \in harvested /\ (p \in Turn => p = u)
    BY <2>1, TurnOf DEF Flow, Children
  <2>3. \A q : T(q)' = T(q)
    BY <2>1, SameTargets
  <2> HIDE DEF u
  <2>5. pc'[p] = AfterFinish(p) /\ \A q \in Proc \ {p} : pc'[q] = pc[q]
    BY <2>1 DEF Flow, Threads
  <2>6. \A q \in Proc : pc'[q] = "remove" => T(q)' \in harvested'
    BY <2>1, <2>3, <2>5 DEF Children, AfterFinish
  <2>7. \A t \in Turn : pc'[t] \notin Over => t \in registry' \cup harvested'
    BY <2>1, <2>2, <2>5 DEF Children, Proc
  <2>8. ASSUME NEW x \in ScopedLive(u)
        PROVE  /\ x \in Task /\ tasks'[x].owner = tasks[x].owner /\ tasks'[x].status = "abandoned"
               /\ tasks'[x].told = tasks[x].told /\ tasks'[x] \in R
    <3>1. x \in Task /\ tasks[x] \in R
      BY <1>a DEF ScopedLive, LiveTasks
    <3>2. tasks'[x] = [tasks[x] EXCEPT !.status = "abandoned"]
      BY <2>1, <3>1
    <3> QED
      BY <3>1, <3>2 DEF Terminal
  <2>9. \A x \in Task \ ScopedLive(u) : tasks'[x] = tasks[x]
    BY <2>1
  <2>10. TaskTypeOK(Turn)'
    <3>1. \A x \in Task : tasks'[x] \in R
      BY <1>a, <2>8, <2>9
    <3> QED
      BY <2>1, <3>1 DEF TaskTypeOK
  <2>11. \A x \in Task : /\ tasks'[x].status = "none" => tasks'[x].owner = {}
                         /\ \A t \in tasks'[x].owner : t \in registry' \cup harvested'
    BY <2>1, <2>2, <2>8, <2>9 DEF Children
  <2>12. ASSUME NEW x \in Task \ strays', NEW t \in tasks'[x].owner
         PROVE  Harvest(tasks[x], t)'
    <3>1. t \in tasks[x].owner /\ Harvest(tasks[x], t)
      BY <2>1, <2>8, <2>9, <2>12 DEF Children
    <3>2. CASE x \in ScopedLive(u)
      <4>1. t = u /\ ~tasks[x].durable /\ tasks[x].status \notin Terminal
        BY <1>b, <2>2, <2>12, <3>1, <3>2
      <4>2. tasks[x].told
        BY <2>2, <3>1, <4>1 DEF Harvest
      <4> QED
        BY <2>8, <3>2, <4>2 DEF Harvest, Terminal
    <3>3. CASE x \notin ScopedLive(u)
      <4>1. t = u => tasks[x].durable \/ tasks[x].status \in Terminal
        BY <1>b, <2>2, <2>12, <3>1, <3>3
      <4> QED
        BY <2>1, <2>9, <2>12, <3>1, <3>3, <4>1 DEF Harvest
    <3> QED
      BY <3>2, <3>3
  <2> QED
    BY <2>6, <2>7, <2>10, <2>11, <2>12 DEF Children
<1>4. CASE Crash
  <2>1. tasks' = [x \in Task |-> NoTask]
    BY <1>4 DEF Crash
  <2>2. NoTask \in R /\ NoTask.owner = {}
    BY DEF NoTask
  <2>3. \A p \in Proc : pc'[p] \in Over \cup {"idle"}
    BY <1>4 DEF Crash, Proc, Over
  <2>4. \A t \in Turn : pc'[t] \in Over
    BY <1>4, ProcAssumption DEF Crash, Proc, Over
  <2>5. TaskTypeOK(Turn)'
    BY <2>1, <2>2 DEF TaskTypeOK
  <2>6. \A x \in Task : tasks'[x].owner = {}
    BY <2>1, <2>2
  <2> QED
    BY <2>3, <2>4, <2>5, <2>6 DEF Children, Over
<1>5. ASSUME NEW t \in Turn, SendOutbound(t) \/ NestedSends(t)
      PROVE  UNCHANGED harvested
  BY <1>5 DEF SendOutbound, NestedSends
<1> QED
  BY <1>1, <1>2, <1>3, <1>4, <1>5, HarvestKinds, MoneyKinds

(* So they always are.                                                      *)
LEMMA ChildrenHold == Spec => []Children
<1>1. Init => Children
  <2>1. NoTask \in [status : Live \cup Terminal \cup {"none"}, owner : {{}} \cup {{t} : t \in Turn},
                    durable : BOOLEAN, told : BOOLEAN, thread : TaskThread \cup {"none"}]
        /\ NoTask.owner = {}
    BY DEF NoTask
  <2>2. Init => /\ tasks = [x \in Task |-> NoTask]
                /\ pc = [p \in Proc |-> IF p \in Turn THEN "new" ELSE "idle"]
    BY DEF Init, TaskInit
  <2> QED
    BY <2>1, <2>2 DEF Children, TaskTypeOK, Over, Proc
<1>2. Flow /\ Recoveries /\ Children /\ [Next]_vars => Children'
  BY ChildrenStep
<1> QED
  BY <1>1, <1>2, FlowHolds, PTL DEF Spec

(* A turn leaves no child behind that was registered for it before          *)
(* finish_turn stopped its tasks, however many threads cancel it, whatever  *)
(* its agents launch meanwhile and whenever the daemon dies:                *)
(* stop_scoped_by_turn told each of them before the turn left the registry. *)
THEOREM ChildrenEnd == Spec => []ChildrenHarvested
<1>1. Children => ChildrenHarvested
  BY DEF Children, Harvest, ChildrenHarvested
<1> QED
  BY <1>1, ChildrenHold, PTL

-----------------------------------------------------------------------------
(* TypeOK.                                                                  *)

Scopes ==
    /\ finished \in [Turn -> BOOLEAN]
    /\ pending \in [Turn -> SUBSET Request] /\ expired \in [Turn -> SUBSET Request]
    /\ resolving \subseteq Turn \X Request

Flags ==
    /\ items \in [Turn -> BOOLEAN] /\ saved \in [Turn -> BOOLEAN]
    /\ streamed \in [Turn -> BOOLEAN]
    /\ crashes \in 0..MaxCrash /\ fails \in 0..MaxFail

(* A call waits for its turn only after a step or a prompt counted it; a    *)
(* prompt under way is counted and has no call waiting yet.                 *)
Counted(t) ==
    /\ pc[t] = "tool" /\ batch[t] = "serial" => steps[t] < MaxSteps
    /\ ready[t] <= steps[t] + asked[t]
    /\ pc[t] \in Prompting => ready[t] < steps[t] + asked[t]

Numbers ==
    /\ steps \in [Turn -> 0..MaxSteps] /\ ready \in [Turn -> Nat]
    /\ \A t \in Turn : Counted(t)

(* Steps that count nothing.                                                *)
Aside ==
    /\ UNCHANGED <<steps, asked, batch, ready>>
    /\ \A t \in Turn : /\ pc'[t] = "tool" => pc[t] = "tool"
                       /\ pc'[t] \in Prompting => pc[t] \in Prompting

(* A thread that moves outside the batches counts nothing.                  *)
LEMMA MovesAside ==
    ASSUME Flow, UNCHANGED <<steps, asked, batch, ready>>, NEW p \in Proc, NEW l,
           pc' = [pc EXCEPT ![p] = l],
           l \notin {"tool"} \cup Prompting \/ (l \in Prompting /\ pc[p] \in Prompting)
    PROVE  Aside
BY DEF Aside, Flow, Threads, Proc, Prompting

(* Who counts.                                                              *)
LEMMA NumberKinds ==
    ASSUME Flow, Recoveries, [Next]_vars
    PROVE  \/ Aside
           \/ \E t \in Turn : \/ Round(t) \/ Returned(t) \/ Tool(t) \/ Permit(t) \/ Permitted(t)
                              \/ Ask(t) \/ Answered(t) \/ Invoked(t)
           \/ Crash
<1>1. CASE UNCHANGED vars
  BY <1>1 DEF vars, workVars, batchVars, Aside
<1>2. ASSUME NEW t \in Turn, Worker(t)
      PROVE  \/ Aside
             \/ Round(t) \/ Returned(t) \/ Tool(t) \/ Permit(t) \/ Permitted(t)
             \/ Ask(t) \/ Answered(t) \/ Invoked(t)
  <2>a. t \in Proc
    BY DEF Proc
  <2>1. CASE SetupFails(t) \/ Setup(t) \/ PersistPrompt(t) \/ Stream(t) \/ Dispatch(t) \/ Joined(t)
    <3>1. UNCHANGED <<steps, asked, batch, ready>>
      BY <2>1 DEF SetupFails, Setup, PersistPrompt, Stream, Dispatch, Joined, OnlyPC, OnlyOut,
                  workVars, batchVars
    <3>2. \E l \in {"finish", "command", "report", "prepared", "round", "returned", "err", "effect",
                    "invoked"} : pc' = [pc EXCEPT ![t] = l]
      BY <2>1 DEF SetupFails, Setup, PersistPrompt, Stream, Dispatch, Joined, Goto, Then
    <3> QED
      BY <2>a, <3>1, <3>2, MovesAside DEF Prompting
  <2>2. CASE \/ PlainTool(t) \/ SendOutbound(t) \/ EndOk(t) \/ TakeProgress(t) \/ EndErr(t)
             \/ CommandOk(t) \/ CommandErr(t)
             \/ \E x \in Task, d \in BOOLEAN, a \in TaskThread : LaunchTask(t, x, d, a)
    <3>1. UNCHANGED <<steps, asked, batch, ready>>
      BY <2>2 DEF PlainTool, SendOutbound, EndOk, TakeProgress, EndErr, CommandOk, CommandErr,
                  LaunchTask, OnlyPC, OnlyOut, workVars, batchVars
    <3>2. \E l \in {"invoked", "finish", "take", "complete"} : pc' = [pc EXCEPT ![t] = l]
      BY <2>2 DEF PlainTool, SendOutbound, EndOk, TakeProgress, EndErr, CommandOk, CommandErr,
                  LaunchTask, Goto, Then
    <3> QED
      BY <2>a, <3>1, <3>2, MovesAside DEF Prompting
  <2>3. CASE \E x \in Task, d \in BOOLEAN : ThreadLaunches(t, x, d)
    BY <2>3 DEF ThreadLaunches, workVars, batchVars, Aside
  <2>4. CASE OpenPrompt(t) \/ TimedOut(t) \/ Withdraw(t)
    <3>1. UNCHANGED <<steps, asked, batch, ready>> /\ pc[t] \in Prompting
      BY <2>4 DEF OpenPrompt, TimedOut, Withdraw, At, OnlyPC, OnlyScope, workVars, batchVars, Prompting
    <3>2. Resume(t, FALSE) \in {"command", "permit", "invoked"}
      BY DEF Resume
    <3>3. \E l \in {"waiting", "withdraw", Resume(t, FALSE)} : pc' = [pc EXCEPT ![t] = l]
      BY <2>4 DEF OpenPrompt, TimedOut, Withdraw, Goto
    <3> QED
      BY <2>a, <3>1, <3>2, <3>3, MovesAside DEF Prompting
  <2> QED
    BY <1>2, <2>1, <2>2, <2>3, <2>4 DEF Worker
<1>3. ASSUME NEW p \in Proc, Shared(p)
      PROVE  Aside
  <2>1. UNCHANGED <<steps, asked, batch, ready>>
    BY <1>3 DEF Shared, Write, WriteFails, Finish, Drain, StopTasks, Remove, Report, ReportPrompt,
                ReportRest, OnlyScope, workVars, batchVars
  <2>2. \/ UNCHANGED pc
        \/ \E l \in {"finish", "idle", "drain", "stop", "remove", "done", "report", "prompt", "rest"} :
             pc' = [pc EXCEPT ![p] = l]
    BY <1>3 DEF Shared, Write, WriteFails, Finish, Drain, StopTasks, Remove, Report, ReportPrompt,
                ReportRest, Goto, Then, AfterReport, AfterFinish
  <2> QED
    BY <2>1, <2>2, MovesAside DEF Prompting, Aside
<1>4. ASSUME UNCHANGED <<steps, asked, batch, ready>>,
             UNCHANGED pc \/ \E p \in Proc, l \in {"setup", "done", "finish"} : pc' = [pc EXCEPT ![p] = l]
      PROVE  Aside
  BY <1>4, MovesAside DEF Prompting, Aside
<1>5. CASE Client
  <2>1. UNCHANGED <<steps, asked, batch, ready>>
    BY <1>5 DEF Client, StartTurn, StagingFails, CancelTurn, ResolveCheck, ResolveSend, workVars, batchVars
  <2>2. UNCHANGED pc \/ \E p \in Proc, l \in {"setup", "done", "finish"} : pc' = [pc EXCEPT ![p] = l]
    BY <1>5 DEF Client, StartTurn, StagingFails, CancelTurn, ResolveCheck, ResolveSend, Register, Goto, Proc
  <2> QED
    BY <1>4, <2>1, <2>2
<1>6. CASE Beside
  BY <1>6, <1>4, BesideStep DEF batchVars
<1>7. CASE \E c \in Recoverer : Recovery(c)
  <2>1. UNCHANGED <<steps, asked, batch, ready>>
    BY <1>7 DEF Recovery, RecoverLoad, RecoverMark, RecoverExhausted, RecoverStart, workVars, batchVars
  <2>2. UNCHANGED pc \/ \E p \in Proc, l \in {"setup", "done", "finish"} : pc' = [pc EXCEPT ![p] = l]
    BY <1>7 DEF Recovery, RecoverLoad, RecoverMark, RecoverExhausted, RecoverStart, Register, Goto, Proc
  <2> QED
    BY <1>4, <2>1, <2>2
<1>8. CASE AtRest
  BY <1>1, <1>8 DEF AtRest
<1> QED
  BY <1>1, <1>2, <1>3, <1>5, <1>6, <1>7, <1>8 DEF Next, Beside

(* One turn counts.                                                         *)
LEMMA CountsOne ==
    ASSUME Flow, TurnInv, Numbers, NEW t \in Turn,
           \A u \in Turn \ {t} : /\ steps'[u] = steps[u] /\ asked'[u] = asked[u]
                                 /\ batch'[u] = batch[u] /\ ready'[u] = ready[u] /\ pc'[u] = pc[u],
           steps' \in [Turn -> 0..MaxSteps], ready' \in [Turn -> Nat], Counted(t)'
    PROVE  Numbers'
BY DEF Numbers, Counted

(* Every step keeps the counts.                                             *)
LEMMA NumbersStep ==
    ASSUME Flow, Recoveries, TurnInv, Numbers, [Next]_vars
    PROVE  Numbers'
<1>a. /\ MaxSteps \in Nat /\ MaxRequest \in Nat
      /\ pc \in [Proc -> Label] /\ asked \in [Turn -> 0..MaxRequest] /\ batch \in [Turn -> Batch]
      /\ steps \in [Turn -> 0..MaxSteps] /\ ready \in [Turn -> Nat]
      /\ \A t \in Turn : t \in Proc
  BY BoundAssumption, RequestAssumption DEF TurnInv, Typed, Numbers, Proc
<1>b. \A t \in Turn : /\ steps[t] \in Nat /\ asked[t] \in Nat /\ ready[t] \in Nat
                      /\ steps[t] <= MaxSteps
  BY <1>a
<1>1. CASE Aside
  BY <1>1, <1>a DEF Aside, Numbers, Counted
<1>2. ASSUME NEW t \in Turn, Round(t)
      PROVE  Numbers'
  <2>1. /\ UNCHANGED <<asked, batch, ready>>
        /\ \/ UNCHANGED steps
           \/ steps[t] < MaxSteps /\ steps' = [steps EXCEPT ![t] = @ + 1]
        /\ \E l \in {"err", "stream"} : pc' = [pc EXCEPT ![t] = l]
    BY <1>2 DEF Round, Goto, batchVars
  <2>2. steps' \in [Turn -> 0..MaxSteps] /\ steps'[t] \in {steps[t], steps[t] + 1}
    BY <1>a, <1>b, <2>1
  <2>3. pc'[t] \in {"err", "stream"}
    BY <1>a, <2>1
  <2>4. Counted(t)'
    BY <1>b, <2>1, <2>2, <2>3 DEF Counted, Numbers, Prompting
  <2> QED
    BY <1>a, <2>1, <2>2, <2>4, CountsOne
<1>3. ASSUME NEW t \in Turn, Returned(t)
      PROVE  Numbers'
  <2>1. /\ UNCHANGED <<steps, asked, ready>>
        /\ \/ UNCHANGED batch /\ \E l \in {"err", "ok"} : pc' = [pc EXCEPT ![t] = l]
           \/ /\ steps[t] < MaxSteps /\ pc' = [pc EXCEPT ![t] = "tool"]
              /\ \E b \in {"serial", "permit"} : batch' = [batch EXCEPT ![t] = b]
    BY <1>3 DEF Returned, Goto
  <2>2. pc'[t] \in {"err", "ok"} \/ (pc'[t] = "tool" /\ steps[t] < MaxSteps)
    BY <1>a, <2>1
  <2>3. Counted(t)'
    BY <1>b, <2>1, <2>2 DEF Counted, Numbers, Prompting
  <2>4. \A u \in Turn \ {t} : batch'[u] = batch[u] /\ pc'[u] = pc[u]
    BY <1>a, <2>1
  <2> QED
    BY <1>a, <2>1, <2>3, <2>4, CountsOne
<1>4. ASSUME NEW t \in Turn, Tool(t)
      PROVE  Numbers'
  <2>1. /\ UNCHANGED <<asked, batch, ready>> /\ pc[t] = "tool"
        /\ steps' = [steps EXCEPT ![t] = IF batch[t] = "serial" THEN @ + 1 ELSE @]
        /\ \E l \in {"invoked", "dispatch", "permit"} : pc' = [pc EXCEPT ![t] = l]
    BY <1>4 DEF Tool, CountCall, At, Goto, batchVars
  <2>2. batch[t] = "serial" => steps[t] < MaxSteps
    BY <2>1 DEF Numbers, Counted
  <2>3. steps' \in [Turn -> 0..MaxSteps] /\ steps'[t] \in {steps[t], steps[t] + 1}
    BY <1>a, <1>b, <2>1, <2>2
  <2>4. pc'[t] \in {"invoked", "dispatch", "permit"}
    BY <1>a, <2>1
  <2>5. Counted(t)'
    BY <1>b, <2>1, <2>3, <2>4 DEF Counted, Numbers, Prompting
  <2>6. \A u \in Turn \ {t} : steps'[u] = steps[u] /\ pc'[u] = pc[u]
    BY <1>a, <2>1
  <2> QED
    BY <1>a, <2>1, <2>3, <2>5, <2>6, CountsOne
<1>5. ASSUME NEW t \in Turn, Permit(t)
      PROVE  Numbers'
  <2>1. /\ UNCHANGED <<asked, batch, pc>> /\ pc[t] = "permit" /\ steps[t] < MaxSteps
        /\ steps' = [steps EXCEPT ![t] = @ + 1] /\ ready' = [ready EXCEPT ![t] = @ + 1]
    BY <1>5 DEF Permit, At
  <2>2. steps' \in [Turn -> 0..MaxSteps] /\ ready' \in [Turn -> Nat]
    BY <1>a, <1>b, <2>1
  <2>3. steps'[t] = steps[t] + 1 /\ ready'[t] = ready[t] + 1
    BY <1>a, <2>1
  <2>4. Counted(t)'
    BY <1>b, <2>1, <2>3 DEF Counted, Numbers, Prompting
  <2>5. \A u \in Turn \ {t} : steps'[u] = steps[u] /\ ready'[u] = ready[u]
    BY <1>a, <2>1
  <2> QED
    BY <1>a, <2>1, <2>2, <2>4, <2>5, CountsOne
<1>6. ASSUME NEW t \in Turn, Permitted(t)
      PROVE  Numbers'
  <2>1. /\ UNCHANGED <<steps, asked, ready>>
        /\ UNCHANGED batch \/ batch' = [batch EXCEPT ![t] = "threads"]
        /\ \E l \in {"err", "threads"} : pc' = [pc EXCEPT ![t] = l]
    BY <1>6 DEF Permitted, Goto
  <2>2. pc'[t] \in {"err", "threads"}
    BY <1>a, <2>1
  <2>3. Counted(t)'
    BY <1>b, <2>1, <2>2 DEF Counted, Numbers, Prompting
  <2>4. \A u \in Turn \ {t} : batch'[u] = batch[u] /\ pc'[u] = pc[u]
    BY <1>a, <2>1
  <2> QED
    BY <1>a, <2>1, <2>3, <2>4, CountsOne
<1>7. ASSUME NEW t \in Turn, Ask(t)
      PROVE  Numbers'
  <2>0. Resume(t, FALSE) \in {"command", "permit", "invoked"}
    BY DEF Resume
  <2>1. /\ UNCHANGED <<steps, batch, ready>>
        /\ \/ UNCHANGED asked /\ pc' = [pc EXCEPT ![t] = Resume(t, FALSE)]
           \/ asked' = [asked EXCEPT ![t] = @ + 1] /\ pc' = [pc EXCEPT ![t] = "register"]
    BY <1>7 DEF Ask, Goto, batchVars
  <2>2. \/ asked'[t] = asked[t] /\ pc'[t] \in {"command", "permit", "invoked"}
        \/ asked'[t] = asked[t] + 1 /\ pc'[t] = "register"
    BY <1>a, <2>0, <2>1
  <2>3. Counted(t)'
    BY <1>b, <2>1, <2>2 DEF Counted, Numbers, Prompting
  <2>4. \A u \in Turn \ {t} : asked'[u] = asked[u] /\ pc'[u] = pc[u]
    BY <1>a, <2>1
  <2> QED
    BY <1>a, <2>1, <2>3, <2>4, CountsOne
<1>8. ASSUME NEW t \in Turn, Answered(t)
      PROVE  Numbers'
  <2>0. \A a \in BOOLEAN : Resume(t, a) \in {"command", "permit", "effect", "invoked"}
    BY DEF Resume
  <2>1. /\ UNCHANGED <<steps, asked, batch>> /\ pc[t] = "waiting"
        /\ UNCHANGED ready \/ ready' = [ready EXCEPT ![t] = @ + 1]
        /\ \E a \in BOOLEAN : pc' = [pc EXCEPT ![t] = Resume(t, a)]
    BY <1>8 DEF Answered, At, Goto
  <2>2. pc'[t] \in {"command", "permit", "effect", "invoked"} /\ \A u \in Turn \ {t} : pc'[u] = pc[u]
    BY <1>a, <2>0, <2>1
  <2>3. ready' \in [Turn -> Nat] /\ ready'[t] \in {ready[t], ready[t] + 1}
        /\ \A u \in Turn \ {t} : ready'[u] = ready[u]
    BY <1>a, <1>b, <2>1
  <2>4. ready[t] < steps[t] + asked[t]
    BY <2>1 DEF Numbers, Counted, Prompting
  <2>5. Counted(t)'
    BY <1>b, <2>1, <2>2, <2>3, <2>4 DEF Counted, Prompting
  <2> QED
    BY <1>a, <2>1, <2>2, <2>3, <2>5, CountsOne
<1>9. ASSUME NEW t \in Turn, Invoked(t)
      PROVE  Numbers'
  <2>1. /\ UNCHANGED <<steps, asked, batch>>
        /\ \/ /\ batch[t] = "serial" /\ steps[t] < MaxSteps /\ UNCHANGED ready
              /\ pc' = [pc EXCEPT ![t] = "tool"]
           \/ /\ ready[t] > 0 /\ ready' = [ready EXCEPT ![t] = @ - 1]
              /\ pc' = [pc EXCEPT ![t] = "dispatch"]
           \/ UNCHANGED ready /\ \E l \in {"ok", "round"} : pc' = [pc EXCEPT ![t] = l]
    BY <1>9 DEF Invoked, NextCall, BatchDone, Goto
  <2>2. /\ ready' \in [Turn -> Nat] /\ ready'[t] <= ready[t] /\ ready'[t] \in Nat
        /\ \A u \in Turn \ {t} : ready'[u] = ready[u]
    BY <1>a, <1>b, <2>1
  <2>3. /\ pc'[t] \in {"tool", "dispatch", "ok", "round"} /\ (pc'[t] = "tool" => steps[t] < MaxSteps)
        /\ \A u \in Turn \ {t} : pc'[u] = pc[u]
    BY <1>a, <2>1
  <2>4. ready[t] <= steps[t] + asked[t]
    BY DEF Numbers, Counted
  <2>5. Counted(t)'
    BY <1>b, <2>1, <2>2, <2>3, <2>4 DEF Counted, Prompting
  <2> QED
    BY <1>a, <2>1, <2>2, <2>3, <2>5, CountsOne
<1>10. CASE Crash
  <2>1. /\ steps' = [t \in Turn |-> 0] /\ asked' = [t \in Turn |-> 0] /\ ready' = [t \in Turn |-> 0]
        /\ batch' = [t \in Turn |-> "none"]
    BY <1>10 DEF Crash
  <2>2. \A t \in Turn : pc'[t] \in {"new", "done", "lost"}
    BY <1>10, ProcAssumption DEF Crash, Proc
  <2>3. \A t \in Turn : Counted(t)'
    BY <2>1, <2>2 DEF Counted, Prompting
  <2> QED
    BY <1>a, <2>1, <2>3 DEF Numbers
<1> QED
  BY <1>1, <1>2, <1>3, <1>4, <1>5, <1>6, <1>7, <1>8, <1>9, <1>10, NumberKinds

(* Who touches a scope.                                                     *)
LEMMA ScopeKinds ==
    ASSUME [Next]_vars
    PROVE  \/ UNCHANGED <<finished, pending, expired, resolving>>
           \/ \E t \in Turn : OpenPrompt(t) \/ Withdraw(t)
           \/ \E p \in Proc : Finish(p) \/ Drain(p)
           \/ \E t \in Turn, r \in Request : ResolveCheck(t, r)
           \/ \E t \in Turn, r \in Request, a \in {"allow", "deny"} : ResolveSend(t, r, a)
           \/ Crash
<1>1. CASE UNCHANGED vars
  BY <1>1 DEF vars, scopeVars, workVars
<1>2. ASSUME NEW t \in Turn, Worker(t)
      PROVE  UNCHANGED <<finished, pending, expired, resolving>> \/ OpenPrompt(t) \/ Withdraw(t)
  <2>1. CASE \/ SetupFails(t) \/ Setup(t) \/ PersistPrompt(t) \/ Round(t) \/ Stream(t)
             \/ Returned(t) \/ Tool(t) \/ Dispatch(t)
    BY <2>1 DEF SetupFails, Setup, PersistPrompt, Round, Stream, Returned, Tool, Dispatch, OnlyPC,
                OnlyOut, scopeVars, workVars
  <2>2. CASE \/ Permit(t) \/ Permitted(t) \/ Joined(t) \/ Ask(t) \/ Answered(t) \/ TimedOut(t)
             \/ \E x \in Task, d \in BOOLEAN : ThreadLaunches(t, x, d)
    BY <2>2 DEF Permit, Permitted, Joined, ThreadLaunches, Ask, Answered, TimedOut, OnlyPC,
                scopeVars, workVars
  <2>3. CASE \/ PlainTool(t) \/ SendOutbound(t)
             \/ \E x \in Task, d \in BOOLEAN, a \in TaskThread : LaunchTask(t, x, d, a)
    BY <2>3 DEF PlainTool, SendOutbound, LaunchTask, scopeVars, workVars
  <2>4. CASE \/ Invoked(t) \/ EndOk(t) \/ TakeProgress(t) \/ EndErr(t) \/ CommandOk(t)
             \/ CommandErr(t)
    BY <2>4 DEF Invoked, EndOk, TakeProgress, EndErr, CommandOk, CommandErr, OnlyPC, OnlyOut,
                scopeVars, workVars
  <2> QED
    BY <1>2, <2>1, <2>2, <2>3, <2>4 DEF Worker
<1>3. ASSUME NEW p \in Proc, Shared(p)
      PROVE  UNCHANGED <<finished, pending, expired, resolving>> \/ Finish(p) \/ Drain(p)
  BY <1>3 DEF Shared, Write, WriteFails, StopTasks, Remove, Report, ReportPrompt, ReportRest,
              scopeVars, workVars
<1>4. CASE \/ \E t \in Turn, k \in Kinds, m \in Prompt : StartTurn(t, k, m)
           \/ \E t \in Turn, m \in Prompt : StagingFails(t, m)
           \/ \E c \in Canceller, t \in Turn : CancelTurn(c, t)
  BY <1>4 DEF StartTurn, StagingFails, CancelTurn, scopeVars, workVars
<1>5. CASE Beside
  BY <1>5, BesideStep DEF scopeVars
<1>6. CASE \E c \in Recoverer : Recovery(c)
  BY <1>6 DEF Recovery, RecoverLoad, RecoverMark, RecoverExhausted, RecoverStart, scopeVars, workVars
<1>7. CASE AtRest
  BY <1>1, <1>7 DEF AtRest
<1> QED
  BY <1>1, <1>2, <1>3, <1>4, <1>5, <1>6, <1>7 DEF Next, Beside, Client

(* Every step keeps the types of the scopes.                                *)
LEMMA ScopesStep ==
    ASSUME Flow, TurnInv, Scopes, [Next]_vars
    PROVE  Scopes'
<1>1. CASE UNCHANGED <<finished, pending, expired, resolving>>
  BY <1>1 DEF Scopes
<1>2. ASSUME NEW t \in Turn, OpenPrompt(t) \/ Withdraw(t)
      PROVE  Scopes'
  <2>1. asked[t] \in Request
    BY <1>2 DEF OpenPrompt, Withdraw, At, TurnInv, Answers, Prompting
  <2>2. /\ UNCHANGED <<finished, resolving>>
        /\ \E S \in {pending[t] \cup {asked[t]}, pending[t] \ {asked[t]}} :
             pending' = [pending EXCEPT ![t] = S]
        /\ UNCHANGED expired \/ expired' = [expired EXCEPT ![t] = @ \cup {asked[t]}]
    BY <1>2 DEF OpenPrompt, Withdraw, register, expire, OnlyScope, workVars
  <2> QED
    BY <2>1, <2>2 DEF Scopes
<1>3. ASSUME NEW p \in Proc, Finish(p) \/ Drain(p)
      PROVE  Scopes'
  BY <1>3 DEF Finish, finish, Drain, drain, OnlyScope, scopeVars, workVars, Scopes
<1>4. ASSUME NEW t \in Turn, NEW r \in Request,
             ResolveCheck(t, r) \/ \E a \in {"allow", "deny"} : ResolveSend(t, r, a)
      PROVE  Scopes'
  <2>1. /\ UNCHANGED <<finished, expired>> /\ resolving' \subseteq resolving \cup {<<t, r>>}
        /\ UNCHANGED pending \/ pending' = [pending EXCEPT ![t] = @ \ {r}]
    BY <1>4 DEF ResolveCheck, ResolveSend, resolve, scopeVars
  <2> QED
    BY <2>1 DEF Scopes
<1>5. CASE Crash
  BY <1>5 DEF Crash, Scopes
<1> QED
  BY <1>1, <1>2, <1>3, <1>4, <1>5, ScopeKinds

(* Who touches what a turn has recorded, and the bounds.                    *)
LEMMA FlagKinds ==
    ASSUME [Next]_vars
    PROVE  \/ UNCHANGED <<items, saved, streamed, crashes, fails>>
           \/ \E t \in Turn : Stream(t) \/ Returned(t) \/ Invoked(t) \/ TakeProgress(t)
           \/ \E p \in Proc : ReportRest(p) \/ WriteFails(p)
           \/ Crash
<1>1. CASE UNCHANGED vars
  BY <1>1 DEF vars, workVars, recoverVars
<1>2. ASSUME NEW t \in Turn, Worker(t)
      PROVE  \/ UNCHANGED <<items, saved, streamed, crashes, fails>>
             \/ Stream(t) \/ Returned(t) \/ Invoked(t) \/ TakeProgress(t)
  <2>1. CASE \/ SetupFails(t) \/ Setup(t) \/ PersistPrompt(t) \/ Round(t) \/ Tool(t) \/ Dispatch(t)
    BY <2>1 DEF SetupFails, Setup, PersistPrompt, Round, Tool, Dispatch, OnlyPC, OnlyOut, workVars,
                recoverVars
  <2>2. CASE \/ Permit(t) \/ Permitted(t) \/ Joined(t) \/ Ask(t) \/ Answered(t) \/ TimedOut(t)
             \/ \E x \in Task, d \in BOOLEAN : ThreadLaunches(t, x, d)
    BY <2>2 DEF Permit, Permitted, Joined, ThreadLaunches, Ask, Answered, TimedOut, OnlyPC,
                workVars, recoverVars
  <2>3. CASE \/ PlainTool(t) \/ SendOutbound(t) \/ OpenPrompt(t) \/ Withdraw(t)
             \/ \E x \in Task, d \in BOOLEAN, a \in TaskThread : LaunchTask(t, x, d, a)
    BY <2>3 DEF PlainTool, SendOutbound, LaunchTask, OpenPrompt, Withdraw, OnlyScope, workVars,
                recoverVars
  <2>4. CASE EndOk(t) \/ EndErr(t) \/ CommandOk(t) \/ CommandErr(t)
    BY <2>4 DEF EndOk, EndErr, CommandOk, CommandErr, OnlyPC, OnlyOut, workVars, recoverVars
  <2> QED
    BY <1>2, <2>1, <2>2, <2>3, <2>4 DEF Worker
<1>3. ASSUME NEW p \in Proc, Shared(p)
      PROVE  UNCHANGED <<items, saved, streamed, crashes, fails>> \/ ReportRest(p) \/ WriteFails(p)
  BY <1>3 DEF Shared, Write, Finish, Drain, StopTasks, Remove, Report, ReportPrompt, OnlyScope,
              workVars, recoverVars
<1>4. CASE Client
  BY <1>4 DEF Client, StartTurn, StagingFails, CancelTurn, ResolveCheck, ResolveSend, workVars,
              recoverVars
<1>5. CASE Beside
  BY <1>5, BesideStep DEF recoverVars
<1>6. CASE \E c \in Recoverer : Recovery(c)
  BY <1>6 DEF Recovery, RecoverLoad, RecoverMark, RecoverExhausted, RecoverStart, workVars
<1>7. CASE AtRest
  BY <1>1, <1>7 DEF AtRest
<1> QED
  BY <1>1, <1>2, <1>3, <1>4, <1>5, <1>6, <1>7 DEF Next, Beside

(* And those of the flags and bounds.                                       *)
LEMMA FlagsStep ==
    ASSUME Flow, Flags, [Next]_vars
    PROVE  Flags'
<1>0. reported \in [Turn -> BOOLEAN] /\ MaxCrash \in Nat /\ MaxFail \in Nat
  BY BoundAssumption DEF Flow, Handles
<1>1. CASE UNCHANGED <<items, saved, streamed, crashes, fails>>
  BY <1>1 DEF Flags
<1>2. ASSUME NEW t \in Turn, Stream(t) \/ Returned(t) \/ Invoked(t)
      PROVE  Flags'
  <2>1. /\ UNCHANGED <<saved, crashes, fails>>
        /\ UNCHANGED items \/ items' = [items EXCEPT ![t] = @ \/ ~reported[t]]
        /\ UNCHANGED streamed \/ streamed' = [streamed EXCEPT ![t] = TRUE]
    BY <1>2 DEF Stream, Returned, Invoked, BatchDone, Record, recoverVars
  <2> QED
    BY <1>0, <2>1 DEF Flags
<1>3. ASSUME NEW t \in Turn, TakeProgress(t)
      PROVE  Flags'
  BY <1>3 DEF TakeProgress, recoverVars, Flags
<1>4. ASSUME NEW p \in Proc, ReportRest(p)
      PROVE  Flags'
  <2>1. /\ saved' = [saved EXCEPT ![T(p)] = TRUE]
        /\ items' = [items EXCEPT ![T(p)] = @ /\ saved[T(p)]]
        /\ UNCHANGED <<streamed, crashes, fails>> /\ pc[p] = "rest"
    BY <1>4 DEF ReportRest, At, recoverVars
  <2>2. T(p) \in Turn
    BY <2>1, TurnOf DEF Flow
  <2> QED
    BY <2>1, <2>2 DEF Flags
<1>5. ASSUME NEW p \in Proc, WriteFails(p)
      PROVE  Flags'
  <2>1. UNCHANGED <<items, saved, streamed, crashes>> /\ fails < MaxFail /\ fails' = fails + 1
    BY <1>5 DEF WriteFails, workVars
  <2> QED
    BY <1>0, <2>1 DEF Flags
<1>6. CASE Crash
  <2>1. /\ items' = [t \in Turn |-> FALSE] /\ saved' = [t \in Turn |-> FALSE]
        /\ streamed' = [t \in Turn |-> FALSE]
        /\ UNCHANGED fails /\ crashes < MaxCrash /\ crashes' = crashes + 1
    BY <1>6 DEF Crash
  <2> QED
    BY <1>0, <2>1 DEF Flags
<1> QED
  BY <1>1, <1>2, <1>3, <1>4, <1>5, <1>6, FlagKinds

(* So the types hold.                                                       *)
LEMMA TypesHold == Spec => [](Scopes /\ Flags /\ Numbers)
<1>1. Init => Scopes /\ Flags
  BY BoundAssumption DEF Init, ScopeInit, Scopes, Flags
<1>2. Init => Numbers
  BY BoundAssumption DEF Init, Numbers, Counted, Prompting, Proc
<1>3. Flow /\ Recoveries /\ TurnInv /\ Scopes /\ Flags /\ Numbers /\ [Next]_vars
        => (Scopes /\ Flags /\ Numbers)'
  BY ScopesStep, FlagsStep, NumbersStep
<1> QED
  BY <1>1, <1>2, <1>3, FlowHolds, TurnInvHolds, PTL DEF Spec

(* TypeOK for every instance.  What takes an argument: the calls of a batch *)
(* that wait their turn never exceed the steps and prompts that announced   *)
(* them, the budget entry stays within the limit through charge and         *)
(* clear_turn, and threads write only entries of their own turn.            *)
THEOREM TurnsTyped == Spec => []TypeOK
<1>1. Flow /\ TurnInv /\ Spent /\ Children /\ Scopes /\ Flags /\ Numbers => TypeOK
  <2> SUFFICES ASSUME Flow, TurnInv, Spent, Children, Scopes, Flags, Numbers
               PROVE  TypeOK
    OBVIOUS
  <2>1. ScopeTypeOK /\ TaskTypeOK(Turn) /\ resolving \subseteq Turn \X Request
    BY DEF ScopeTypeOK, TurnInv, Typed, Scopes, Children
  <2>2. \A p \in Proc : out[p].todo \in Seq(Entry \cup {Say(o) : o \in Outcome})
    <3>1. Item \subseteq Entry \cup {Say(o) : o \in Outcome}
      BY DEF Item, Notes, Says, Entry
    <3>2. \A p \in Proc : out[p].todo \in Seq(Item)
      BY DEF Flow, Threads
    <3> QED
      BY <3>1, <3>2
  <2>3. ready \in [Turn -> 0..MaxSteps + MaxRequest]
    <3>1. \A t \in Turn : /\ ready[t] \in Nat /\ ready[t] <= steps[t] + asked[t]
                          /\ steps[t] \in 0..MaxSteps /\ asked[t] \in 0..MaxRequest
      BY DEF Numbers, Counted, TurnInv, Typed
    <3>2. \A t \in Turn : ready[t] \in 0..MaxSteps + MaxRequest
      BY <3>1, BoundAssumption, RequestAssumption
    <3> QED
      BY <3>2 DEF Numbers
  <2> QED
    BY <2>1, <2>2, <2>3 DEF TypeOK, Flow, Threads, Handles, TurnInv, Typed, Batch, Spent, Flags, Numbers
<1> QED
  BY <1>1, FlowHolds, TurnInvHolds, SpentHolds, ChildrenHold, TypesHold, PTL

-----------------------------------------------------------------------------
(* RetryOnce, with one recovery at a time.                                  *)

Alone == \A r, s \in Recoverer : r = s

(* The marker is in the transcript before the turn that retries, and        *)
(* recover_stale_turn goes on only where it found none.                     *)
Retries ==
    /\ \A t, u \in retry : prompt[t] = prompt[u] => t = u
    /\ \A t \in retry : has_retry_marker(log, prompt[t])
    /\ \A r \in Recoverer : recover[r].at = "retry" =>
         \A m \in recover[r].prompt : ~has_retry_marker(log, m)
    /\ \A r \in Recoverer : recover[r].at = "start" =>
         \A m \in recover[r].prompt :
             has_retry_marker(log, m) /\ \A t \in retry : prompt[t] # m

(* Who writes to the transcript.                                            *)
LEMMA LogKinds ==
    ASSUME Flow, Recoveries, [Next]_vars
    PROVE  \/ UNCHANGED log
           \/ \E p \in Proc : /\ Write(p) /\ out[p] # Quiet
                              /\ out[p].todo[1] \in Notes /\ log' = Append(log, out[p].todo[1])
           \/ \E c \in Recoverer : RecoverMark(c) \/ RecoverExhausted(c)
<1>1. CASE UNCHANGED vars
  BY <1>1 DEF vars
<1>2. ASSUME NEW p \in Proc, Moving(p)
      PROVE  UNCHANGED log
  BY <1>2, MovingMoves DEF Moves, Move
<1>3. ASSUME NEW p \in Proc, Write(p)
      PROVE  \/ UNCHANGED log
             \/ /\ out[p] # Quiet /\ out[p].todo[1] \in Notes /\ log' = Append(log, out[p].todo[1])
  <2>1. out[p] # Quiet
    BY <1>3 DEF Write
  <2>2. Head(out[p].todo) = out[p].todo[1] /\ out[p].todo[1] \in Item
    BY <2>1, RestOf DEF Flow
  <2>3. UNCHANGED log \/ (out[p].todo[1].turn # "bus" /\ log' = Append(log, out[p].todo[1]))
    BY <1>3, <2>2 DEF Write
  <2>4. out[p].todo[1].turn # "bus" => out[p].todo[1] \in Notes
    BY <2>2 DEF Item, Says, Say
  <2> QED
    BY <2>1, <2>3, <2>4
<1>4. ASSUME NEW p \in Proc, WriteFails(p)
      PROVE  UNCHANGED log
  BY <1>4 DEF WriteFails
<1>5. CASE Client
  BY <1>5 DEF Client, StartTurn, StagingFails, CancelTurn, ResolveCheck, ResolveSend
<1>6. CASE Beside
  BY <1>6, BesideStep
<1>7. CASE \E c \in Recoverer : Recovery(c)
  BY <1>7 DEF Recovery, RecoverLoad, RecoverStart
<1>8. CASE Crash
  BY <1>8 DEF Crash
<1>9. CASE AtRest
  BY <1>1, <1>9 DEF AtRest
<1> QED
  BY <1>1, <1>2, <1>3, <1>4, <1>5, <1>6, <1>7, <1>8, <1>9 DEF Next, Beside, Shared, Moving, Proc

(* A marker stays, and is only put there by a recovery.                     *)
LEMMA MarkersKept ==
    ASSUME Flow, Recoveries, [Next]_vars, NEW m
    PROVE  /\ has_retry_marker(log, m) => has_retry_marker(log', m)
           /\ has_retry_marker(log', m) =>
                has_retry_marker(log, m) \/ \E c \in Recoverer : RecoverMark(c)
<1>0. log \in Seq(Entry)
  BY DEF Flow, Handles
<1>1. ASSUME NEW e \in Entry, log' = Append(log, e)
      PROVE  /\ has_retry_marker(log, m) => has_retry_marker(log', m)
             /\ e.ev # "retry" => (has_retry_marker(log', m) => has_retry_marker(log, m))
  BY <1>0, <1>1, Appended DEF has_retry_marker
<1>2. CASE UNCHANGED log
  BY <1>2
<1>3. ASSUME NEW p \in Proc, out[p].todo[1] \in Notes, log' = Append(log, out[p].todo[1])
      PROVE  /\ has_retry_marker(log, m) => has_retry_marker(log', m)
             /\ has_retry_marker(log', m) => has_retry_marker(log, m)
  <2>1. out[p].todo[1] \in Entry /\ out[p].todo[1].ev # "retry"
    BY <1>3 DEF Notes, Entry
  <2> QED
    BY <1>1, <1>3, <2>1
<1>4. ASSUME NEW c \in Recoverer, NEW e \in {"retry", "exhausted"}, NEW n \in recover[c].prompt,
             log' = Append(log, Marker(e, n))
      PROVE  /\ has_retry_marker(log, m) => has_retry_marker(log', m)
             /\ e = "exhausted" => (has_retry_marker(log', m) => has_retry_marker(log, m))
  <2>1. n \in Prompt
    BY DEF Recoveries
  <2>2. Marker(e, n) \in Entry /\ Marker(e, n).ev = e
    BY <2>1 DEF Marker, Entry
  <2> QED
    BY <1>1, <1>4, <2>2
<1> QED
  BY <1>2, <1>3, <1>4, LogKinds DEF RecoverMark, RecoverExhausted

(* Every step keeps the retries apart.                                      *)
LEMMA RetriesStep ==
    ASSUME Alone, Flow, Recoveries, Retries, [Next]_vars
    PROVE  Retries'
<1>a. \A t \in retry : t \in Turn /\ kind[t] # "none" /\ prompt'[t] = prompt[t]
  BY KindKept DEF Recoveries
<1>b. \A m : has_retry_marker(log, m) => has_retry_marker(log', m)
  BY MarkersKept
<1>c. \A t \in retry : has_retry_marker(log', prompt'[t])
  BY <1>a, <1>b DEF Retries
<1>1. CASE UNCHANGED <<recover, retry>>
  <2>1. \A c \in Recoverer : ~RecoverMark(c)
    <3> SUFFICES ASSUME NEW c \in Recoverer, RecoverMark(c) PROVE FALSE
      OBVIOUS
    <3>1. recover[c].at = "retry" /\ recover' = [recover EXCEPT ![c] = [at |-> "start", prompt |-> recover[c].prompt]]
      BY DEF RecoverMark, Recovers
    <3>2. recover'[c].at = "start"
      BY <3>1 DEF Recoveries
    <3> QED
      BY <1>1, <3>1, <3>2
  <2>2. \A m : has_retry_marker(log', m) => has_retry_marker(log, m)
    BY <2>1, MarkersKept
  <2> QED
    BY <1>1, <1>a, <1>b, <1>c, <2>2 DEF Retries
<1>2. CASE Crash
  <2>1. UNCHANGED <<retry, log>> /\ \A c \in Recoverer : recover'[c].at = "idle"
    BY <1>2 DEF Crash, histVars, Idle
  <2> QED
    BY <1>a, <1>c, <2>1 DEF Retries
<1>3. ASSUME NEW c \in Recoverer, Recovery(c)
      PROVE  Retries'
  <2>0. \A r \in Recoverer : r = c
    BY DEF Alone
  <2>1. CASE RecoverLoad(c)
    <3>1. /\ UNCHANGED <<retry, log>>
          /\ recover' = [recover EXCEPT ![c] = [at |-> stale_turn_recovery_decision(log),
                                                prompt |-> latest_unanswered_user_turn(log)]]
      BY <2>1 DEF RecoverLoad, Recovers, histVars
    <3>2. /\ recover'[c].at = stale_turn_recovery_decision(log)
          /\ recover'[c].prompt = latest_unanswered_user_turn(log)
      BY <3>1 DEF Recoveries
    <3>3. recover'[c].at # "start"
      BY <3>2 DEF stale_turn_recovery_decision
    <3>4. recover'[c].at = "retry" => \A m \in recover'[c].prompt : ~has_retry_marker(log, m)
      BY <3>2 DEF stale_turn_recovery_decision
    <3> QED
      BY <1>a, <1>c, <2>0, <3>1, <3>3, <3>4 DEF Retries
  <2>2. CASE RecoverMark(c)
    <3>1. /\ UNCHANGED retry /\ recover[c].at = "retry"
          /\ recover' = [recover EXCEPT ![c] = [at |-> "start", prompt |-> recover[c].prompt]]
      BY <2>2 DEF RecoverMark, Recovers, histVars
    <3>2. recover'[c].at = "start" /\ recover'[c].prompt = recover[c].prompt
      BY <3>1 DEF Recoveries
    <3>3. PICK m \in Prompt : recover[c].prompt = {m}
      BY <3>1 DEF Recoveries
    <3>4. log' = Append(log, Marker("retry", m))
      BY <2>2, <3>3 DEF RecoverMark
    <3>5. Marker("retry", m) \in Entry /\ Marker("retry", m).ev = "retry" /\ Marker("retry", m).prompt = m
      BY DEF Marker, Entry
    <3>6. has_retry_marker(log', m)
      BY <3>4, <3>5, Appended DEF has_retry_marker, Flow, Handles
    <3>7. \A t \in retry : prompt[t] # m
      BY <3>1, <3>3 DEF Retries
    <3> QED
      BY <1>a, <1>c, <2>0, <3>1, <3>2, <3>3, <3>6, <3>7 DEF Retries
  <2>3. CASE RecoverExhausted(c)
    <3>1. UNCHANGED retry /\ recover' = [recover EXCEPT ![c] = Idle]
      BY <2>3 DEF RecoverExhausted, histVars
    <3>2. recover'[c].at = "idle"
      BY <3>1 DEF Recoveries, Idle
    <3> QED
      BY <1>a, <1>c, <2>0, <3>1, <3>2 DEF Retries
  <2>4. ASSUME NEW t \in Turn, RecoverStart(c, t)
        PROVE  Retries'
    <3>1. UNCHANGED log /\ recover' = [recover EXCEPT ![c] = Idle] /\ recover[c].at = "start"
      BY <2>4 DEF RecoverStart
    <3>2. recover'[c].at = "idle"
      BY <3>1 DEF Recoveries, Idle
    <3>3. CASE UNCHANGED retry
      BY <1>a, <1>c, <2>0, <3>2, <3>3 DEF Retries
    <3>4. CASE ~UNCHANGED retry
      <4>1. retry' = retry \cup {t} /\ \E m \in recover[c].prompt : prompt' = [prompt EXCEPT ![t] = m]
        BY <2>4, <3>4 DEF RecoverStart, Register
      <4>2. PICK m \in recover[c].prompt : prompt'[t] = m
        BY <4>1 DEF Flow, Handles
      <4>3. has_retry_marker(log', m) /\ \A u \in retry : prompt[u] # m
        BY <3>1, <4>2 DEF Retries
      <4> QED
        BY <1>a, <1>c, <2>0, <3>2, <4>1, <4>2, <4>3 DEF Retries
    <3> QED
      BY <3>3, <3>4
  <2> QED
    BY <1>3, <2>1, <2>2, <2>3, <2>4 DEF Recovery
<1> QED
  BY <1>1, <1>2, <1>3, RecoverKinds

(* RetryOnce for any number of turns, prompts, crashes and failed writes,   *)
(* with one recover_stale_turn at a time (nothing is locked between its     *)
(* look at the transcript and its marker): the marker it appends before     *)
(* start_turn keeps a cut off retry from being retried.                     *)
THEOREM RetriedOnce ==
    ASSUME Alone
    PROVE  Spec => []RetryOnce
<1>1. Init => Retries
  BY DEF Init, Retries, Idle
<1>2. Flow /\ Recoveries /\ Retries /\ [Next]_vars => Retries'
  BY RetriesStep
<1>3. Retries => RetryOnce
  BY AtMostOne DEF Retries, RetryOnce
<1> QED
  BY <1>1, <1>2, <1>3, FlowHolds, PTL DEF Spec

-----------------------------------------------------------------------------
(* RetryOnlyCutOff.                                                         *)

Cut(u) == pc[u] = "lost" \/ reported[u] \/ u \in stopped

LastUser(u) == log # <<>> /\ log[Len(log)].ev = "user" /\ log[Len(log)].turn = u

(* A worker that is through has written something after its prompt, or is   *)
(* about to.                                                                *)
Replies(u) ==
    LastUser(u) /\ (kind[u] # "agent" \/ pc[u] \notin Agent) => Cut(u) \/ Has(u, u, "finished")

(* A turn with message m was cut off.                                       *)
CutWith(m, u) == prompt[u] = m /\ kind[u] # "none" /\ Cut(u)

CutOff ==
    fails = 0 =>
        /\ \A u \in Turn : Replies(u)
        /\ \A r \in Recoverer : recover[r].at \in {"retry", "start"} =>
             \A m \in recover[r].prompt : \E u \in Turn : CutWith(m, u)
        /\ \A t \in retry : \E u \in Turn \ {t} : CutWith(prompt[t], u)

(* A turn that was cut off stays so.                                        *)
LEMMA CutKept ==
    ASSUME Flow, Recoveries, [Next]_vars, NEW u \in Turn, Cut(u)
    PROVE  Cut(u)'
<1>1. ASSUME NEW p \in Proc, Moving(p)
      PROVE  Cut(u)'
  <2>0. PICK l, s : Moves(p, l, s)
    BY <1>1, MovingMoves
  <2>1. pc'[p] = l /\ (\A q \in Proc \ {p} : pc'[q] = pc[q]) /\ UNCHANGED stopped
    BY <2>0 DEF Moves, Move, Flow, Threads
  <2>2. pc[p] # "lost"
    BY <2>0 DEF Moves, WorkerMove, SharedMove, Loops, Agent, Prompting
  <2>3. UNCHANGED reported \/ reported' = [reported EXCEPT ![T(p)] = TRUE]
    BY <2>0 DEF Moves, WorkerMove, SharedMove, Kept
  <2>4. reported[u] => reported'[u]
    BY <2>3 DEF Flow, Handles
  <2> QED
    BY <2>1, <2>2, <2>4 DEF Cut, Proc
<1>2. ASSUME NEW p \in Proc, Write(p) \/ WriteFails(p)
      PROVE  Cut(u)'
  <2>1. out[p] # Quiet /\ UNCHANGED <<reported, stopped>>
    BY <1>2 DEF Write, WriteFails, turnVars, histVars
  <2>2. UNCHANGED pc \/ pc' = [pc EXCEPT ![p] = AfterReport(p)]
    BY <1>2 DEF Write, WriteFails, Goto
  <2>3. p = u => pc[u] # "lost"
    BY <2>1 DEF Flow, Threads, Over
  <2> QED
    BY <2>1, <2>2, <2>3 DEF Cut, Flow, Threads, Proc
<1>3. ASSUME NEW t \in Turn, NEW l \in {"setup", "done"}, Begins(t, l)
      PROVE  Cut(u)'
  <2>1. pc[t] = "new" /\ pc' = [pc EXCEPT ![t] = l] /\ UNCHANGED <<reported, stopped>>
    BY <1>3 DEF Begins, Flow, Handles
  <2> QED
    BY <2>1 DEF Cut, Flow, Threads, Proc
<1>4. ASSUME NEW c \in Canceller, NEW t \in Turn, CancelTurn(c, t)
      PROVE  Cut(u)'
  BY <1>4, ProcAssumption DEF CancelTurn, Goto, turnVars, Cut, Flow, Threads, Proc
<1>5. CASE Crash
  BY <1>5, ProcAssumption DEF Crash, histVars, Cut, Proc
<1>6. CASE Marks \/ Still
  BY <1>6 DEF Marks, Still, Cut
<1> QED
  BY <1>1, <1>2, <1>3, <1>4, <1>5, <1>6, StepKinds

(* The same with its message.                                               *)
LEMMA CutWithKept ==
    ASSUME Flow, Recoveries, [Next]_vars, NEW u \in Turn, NEW m, CutWith(m, u)
    PROVE  CutWith(m, u)'
BY CutKept, KindKept DEF CutWith

(* Nothing is appended: what u has to write, or where it is, may change.    *)
LEMMA RepliesUnwritten ==
    ASSUME Flow, Recoveries, [Next]_vars, NEW u \in Turn, Replies(u), UNCHANGED log,
           LastUser(u) => kind'[u] = kind[u],
           Has(u, u, "finished") => Has(u, u, "finished")',
           pc'[u] \in Agent \/ pc[u] \notin Agent \/ kind[u] # "agent" \/ Cut(u)'
             \/ Has(u, u, "finished")'
    PROVE  Replies(u)'
<1>1. LastUser(u)' = LastUser(u)
  BY DEF LastUser
<1>2. Cut(u) => Cut(u)'
  BY CutKept
<1> QED
  BY <1>1, <1>2 DEF Replies

(* Something is.                                                            *)
LEMMA RepliesWritten ==
    ASSUME log \in Seq(Entry), NEW e \in Entry, log' = Append(log, e), NEW u \in Turn,
           e.ev # "user" \/ e.turn # u \/ reported'[u] \/ (kind'[u] = "agent" /\ pc'[u] \in Agent)
    PROVE  Replies(u)'
<1>1. log'[Len(log')] = e
  BY Appended
<1> QED
  BY <1>1 DEF Replies, LastUser, Cut

(* What a thread has to write after it moved, and what another has.         *)
LEMMA MoveHas ==
    ASSUME Threads, NEW p \in Proc, NEW l, NEW s, Moves(p, l, s), NEW t, NEW e
    PROVE  /\ ~Has(p, t, e)
           /\ Has(p, t, e)' <=> \E i \in DOMAIN s : Is(s[i], t, e)
           /\ \A q \in Proc \ {p} : Has(q, t, e)' <=> Has(q, t, e)
<1>0. DOMAIN Quiet.todo = {}
  BY DEF Quiet
<1>1. PICK b \in BOOLEAN : Move(p, l, s, b)
  BY DEF Moves
<1>2. /\ out[p] = Quiet
      /\ out'[p] = (IF s = <<>> THEN Quiet ELSE [todo |-> s, strict |-> b])
      /\ \A q \in Proc \ {p} : out'[q] = out[q]
  BY <1>1 DEF Move, Threads
<1>3. out'[p].todo = s
  <2>1. CASE s = <<>>
    BY <1>2, <2>1 DEF Quiet
  <2>2. CASE s # <<>>
    BY <1>2, <2>2
  <2> QED
    BY <2>1, <2>2
<1> QED
  BY <1>0, <1>2, <1>3 DEF Has

(* The same for an item written.                                            *)
LEMMA WriteHas ==
    ASSUME Threads, NEW p \in Proc, out[p] # Quiet, out' = [out EXCEPT ![p] = Rest(p)],
           NEW t, NEW e
    PROVE  /\ Has(p, t, e) => Has(p, t, e)' \/ Is(out[p].todo[1], t, e)
           /\ Has(p, t, e)' => Has(p, t, e)
           /\ \A q \in Proc \ {p} : Has(q, t, e)' <=> Has(q, t, e)
<1>1. out'[p] = Rest(p) /\ \A q \in Proc \ {p} : out'[q] = out[q]
  BY DEF Threads
<1>2. /\ \A i \in DOMAIN Rest(p).todo :
           i \in Nat /\ i + 1 \in DOMAIN out[p].todo /\ Rest(p).todo[i] = out[p].todo[i + 1]
      /\ \A i \in DOMAIN out[p].todo \ {1} :
           i \in Nat /\ i - 1 \in DOMAIN Rest(p).todo /\ Rest(p).todo[i - 1] = out[p].todo[i]
  BY RestOf
<1>3. ASSUME NEW i \in DOMAIN out[p].todo, Is(out[p].todo[i], t, e), ~Is(out[p].todo[1], t, e)
      PROVE  Has(p, t, e)'
  BY <1>1, <1>2, <1>3 DEF Has
<1>4. ASSUME NEW i \in DOMAIN Rest(p).todo, Is(Rest(p).todo[i], t, e)
      PROVE  Has(p, t, e)
  BY <1>2, <1>4 DEF Has
<1> QED
  BY <1>1, <1>3, <1>4 DEF Has

(* How a worker leaves the agent loop.                                      *)
LEMMA LoopLeft ==
    ASSUME Flow, NEW u \in Turn, NEW l, NEW s, Moves(u, l, s), kind[u] = "agent",
           pc[u] \in Agent, l \notin Agent
    PROVE  reported[u] \/ \E i \in DOMAIN s : Is(s[i], u, "finished")
<1>0. Is(Note(u, "finished"), u, "finished")
  BY DEF Is, Note
<1>1. WorkerMove(u, l, s)
  BY DEF Moves, SharedMove, Agent
<1>2. CASE pc[u] = "ok"
  BY <1>1, <1>2 DEF WorkerMove, Loops, Agent
<1>3. CASE pc[u] = "take"
  <2>1. s \in {<<Note(u, "finished"), Say("complete")>>,
               <<Note(u, "assistant"), Note(u, "finished"), Say("complete")>>}
    BY <1>1, <1>3 DEF WorkerMove, Loops, Agent
  <2> QED
    BY <1>0, <2>1
<1>4. CASE pc[u] = "err"
  <2>1. reported[u] \/ s = <<Note(u, "failed"), Note(u, "finished"), Say("error")>>
    BY <1>1, <1>4 DEF WorkerMove, Loops, Agent
  <2> QED
    BY <1>0, <2>1
<1> QED
  BY <1>1, <1>2, <1>3, <1>4 DEF WorkerMove, Loops, Agent

(* A step that writes without failing keeps a finished worker answered.     *)
LEMMA RepliesStep ==
    ASSUME Flow, Recoveries, [Next]_vars, fails \in Nat, fails' = 0, NEW u \in Turn, Replies(u)
    PROVE  Replies(u)'
<1>a. u \in Proc /\ u # "bus" /\ log \in Seq(Entry)
  BY TurnAssumption DEF Proc, Flow, Handles
<1>1. ASSUME NEW p \in Proc, Moving(p)
      PROVE  Replies(u)'
  <2>0. PICK l, s : Moves(p, l, s)
    BY <1>1, MovingMoves
  <2>1. /\ UNCHANGED <<log, kind>> /\ pc'[p] = l /\ (\A q \in Proc \ {p} : pc'[q] = pc[q])
    BY <2>0 DEF Moves, Move, Flow, Threads
  <2>2. CASE p # u
    <3>1. Has(u, u, "finished")' <=> Has(u, u, "finished")
      BY <1>a, <2>0, <2>2, MoveHas DEF Flow
    <3> QED
      BY <1>a, <2>1, <2>2, <3>1, RepliesUnwritten
  <2>3. CASE p = u
    <3>1. ~Has(u, u, "finished") /\ (Has(u, u, "finished")' <=> \E i \in DOMAIN s : Is(s[i], u, "finished"))
      BY <2>0, <2>3, MoveHas DEF Flow
    <3>2. reported[u] => Cut(u)'
      BY CutKept DEF Cut
    <3>3. pc'[u] \in Agent \/ pc[u] \notin Agent \/ kind[u] # "agent" \/ Cut(u)' \/ Has(u, u, "finished")'
      BY <2>0, <2>1, <2>3, <3>1, <3>2, LoopLeft
    <3> QED
      BY <2>1, <3>1, <3>3, RepliesUnwritten
  <2> QED
    BY <2>2, <2>3
<1>2. ASSUME NEW p \in Proc, Write(p)
      PROVE  Replies(u)'
  <2>1. /\ out[p] # Quiet /\ out' = [out EXCEPT ![p] = Rest(p)] /\ UNCHANGED <<pc, kind, reported>>
    BY <1>2 DEF Write, turnVars
  <2>2. /\ Head(out[p].todo) = out[p].todo[1] /\ out[p].todo[1] \in Item /\ 1 \in DOMAIN out[p].todo
    BY <2>1, RestOf DEF Flow
  <2>3. CASE out[p].todo[1].turn = "bus"
    <3>1. UNCHANGED log
      BY <1>2, <2>2, <2>3 DEF Write
    <3>2. ~Is(out[p].todo[1], u, "finished")
      BY <1>a, <2>3 DEF Is
    <3>3. Has(u, u, "finished") => Has(u, u, "finished")'
      BY <1>a, <2>1, <3>2, WriteHas DEF Flow
    <3> QED
      BY <2>1, <3>1, <3>3, RepliesUnwritten
  <2>4. CASE out[p].todo[1].turn # "bus"
    <3> DEFINE e == out[p].todo[1]
    <3>1. log' = Append(log, e)
      BY <1>2, <2>2, <2>4 DEF Write
    <3>2. e \in Entry
      BY <2>2, <2>4 DEF Item, Says, Say, Notes, Entry
    <3>3. e.ev = "user" /\ e.turn = u => reported[u] \/ (p = u /\ pc[u] = "round")
      <4>1. e.turn = T(p) /\ (e.ev = "user" => reported[T(p)] \/ (p \in Turn /\ pc[p] = "round"))
        BY <2>2, <2>4 DEF Flow, Writers
      <4>2. p \in Turn => T(p) = p
        BY DEF T
      <4> QED
        BY <4>1, <4>2
    <3>4. pc[u] = "round" => kind[u] = "agent"
      BY DEF Flow, Routed, Handles, Ending
    <3> HIDE DEF e
    <3> QED
      BY <1>a, <2>1, <3>1, <3>2, <3>3, <3>4, RepliesWritten DEF Agent
  <2> QED
    BY <2>3, <2>4
<1>3. ASSUME NEW p \in Proc, WriteFails(p)
      PROVE  FALSE
  BY <1>3 DEF WriteFails
<1>4. ASSUME NEW t \in Turn, NEW l \in {"setup", "done"}, Begins(t, l)
      PROVE  Replies(u)'
  <2>1. UNCHANGED <<log, out>> /\ \A v \in Turn \ {t} : kind'[v] = kind[v] /\ pc'[v] = pc[v]
    BY <1>4 DEF Begins, Flow, Threads, Handles
  <2>2. LastUser(t) => FALSE
    <3>1. log # <<>> => Len(log) \in DOMAIN log
      BY <1>a
    <3> QED
      BY <1>4, <3>1 DEF LastUser, Flow, Transcript, Begins
  <2>3. CASE u = t
    BY <2>1, <2>2, <2>3 DEF Replies, LastUser
  <2>4. CASE u # t
    <3>1. Has(u, u, "finished")' <=> Has(u, u, "finished")
      BY <2>1 DEF Has
    <3> QED
      BY <2>1, <2>4, <3>1, RepliesUnwritten
  <2> QED
    BY <2>3, <2>4
<1>5. ASSUME NEW c \in Canceller, NEW t \in Turn, CancelTurn(c, t)
      PROVE  Replies(u)'
  <2>1. UNCHANGED <<log, out, kind>> /\ pc'[u] = pc[u]
    BY <1>5, ProcAssumption DEF CancelTurn, Goto, turnVars, Flow, Threads, Proc
  <2>2. Has(u, u, "finished")' <=> Has(u, u, "finished")
    BY <2>1 DEF Has
  <2> QED
    BY <2>1, <2>2, RepliesUnwritten
<1>6. CASE Marks
  <2>1. PICK m \in Prompt, e \in {"retry", "exhausted"} : log' = Append(log, Marker(e, m))
    BY <1>6 DEF Marks
  <2>2. Marker(e, m) \in Entry /\ Marker(e, m).ev # "user"
    BY DEF Marker, Entry
  <2> QED
    BY <1>a, <2>1, <2>2, RepliesWritten
<1>7. CASE Crash
  <2>1. UNCHANGED <<log, kind>> /\ pc'[u] = (IF pc[u] \in {"new", "done"} THEN pc[u] ELSE "lost")
    BY <1>7, <1>a, ProcAssumption DEF Crash, Proc
  <2>2. CASE pc[u] \in {"new", "done"}
    <3>1. out[u] = Quiet
      BY <2>2 DEF Flow, Threads, Over
    <3>2. ~Has(u, u, "finished")
      BY <3>1 DEF Has, Quiet
    <3> QED
      BY <2>1, <2>2, <3>2, RepliesUnwritten
  <2>3. CASE pc[u] \notin {"new", "done"}
    BY <2>1, <2>3 DEF Replies, Cut
  <2> QED
    BY <2>2, <2>3
<1>8. CASE Still
  <2>1. UNCHANGED <<log, out, kind, pc>>
    BY <1>8 DEF Still
  <2>2. Has(u, u, "finished")' <=> Has(u, u, "finished")
    BY <2>1 DEF Has
  <2> QED
    BY <2>1, <2>2, RepliesUnwritten
<1> QED
  BY <1>1, <1>2, <1>3, <1>4, <1>5, <1>6, <1>7, <1>8, StepKinds

(* A recovery that finds an unanswered message finds a turn that was cut    *)
(* off: nobody in the session is registered.                                *)
LEMMA LoadedCut ==
    ASSUME Flow, \A u \in Turn : Replies(u), Free("agent"),
           latest_unanswered_user_turn(log) # {}
    PROVE  \A m \in latest_unanswered_user_turn(log) : \E u \in Turn : CutWith(m, u)
<1>1. /\ log # <<>> /\ log[Len(log)].ev = "user"
      /\ latest_unanswered_user_turn(log) = {log[Len(log)].prompt}
  BY DEF latest_unanswered_user_turn
<1>2. Len(log) \in DOMAIN log /\ log[Len(log)] \in Entry
  BY <1>1 DEF Flow, Handles
<1>3. log[Len(log)].turn \in Turn
  BY <1>1, <1>2 DEF Entry
<1> DEFINE u == log[Len(log)].turn
<1>4. kind[u] \notin {"none", "setup"} /\ log[Len(log)].prompt = prompt[u]
  BY <1>2, <1>3 DEF Flow, Transcript
<1>5. InSession(u)
  BY <1>3, <1>4 DEF InSession, Flow, Handles
<1>6. u \notin registry
  BY <1>5 DEF Free
<1>7. LastUser(u)
  BY <1>1 DEF LastUser
<1> HIDE DEF u
<1>8. pc[u] \notin Over => u \in stopped
  BY <1>3, <1>6 DEF Flow, Registered, u
<1>9. pc[u] \in Over => ~Has(u, u, "finished")
  BY <1>3 DEF Flow, Threads, Has, Quiet, u
<1>10. Cut(u)
  BY <1>3, <1>7, <1>8, <1>9 DEF Replies, Cut, Agent, Over, u
<1> QED
  BY <1>1, <1>3, <1>4, <1>10 DEF CutWith, u

(* Every step keeps recoveries to what was cut off.                         *)
LEMMA CutOffStep ==
    ASSUME Flow, Recoveries, CutOff, [Next]_vars, fails \in Nat, fails' \in Nat, fails <= fails'
    PROVE  CutOff'
<1> SUFFICES ASSUME fails' = 0
             PROVE  /\ \A u \in Turn : Replies(u)'
                    /\ \A r \in Recoverer : recover'[r].at \in {"retry", "start"} =>
                         \A m \in recover'[r].prompt : \E u \in Turn : CutWith(m, u)'
                    /\ \A t \in retry' : \E u \in Turn \ {t} : CutWith(prompt[t], u)'
  BY DEF CutOff
<1>0. fails = 0
  OBVIOUS
<1>1. \A u \in Turn : Replies(u)'
  BY <1>0, RepliesStep DEF CutOff
<1>2. \A u \in Turn : \A m : CutWith(m, u) => CutWith(m, u)'
  BY CutWithKept
<1>3. \A t \in retry : prompt'[t] = prompt[t]
  BY KindKept DEF Recoveries
<1>4. \A t \in retry : \E u \in Turn \ {t} : CutWith(prompt[t], u)'
  <2> SUFFICES ASSUME NEW t \in retry PROVE \E u \in Turn \ {t} : CutWith(prompt[t], u)'
    OBVIOUS
  <2>1. PICK u \in Turn \ {t} : CutWith(prompt[t], u)
    BY <1>0 DEF CutOff
  <2>2. CutWith(prompt[t], u)'
    BY <1>2, <1>3, <2>1 DEF CutWith
  <2> QED
    BY <2>2
<1>5. \A r \in Recoverer : recover[r].at \in {"retry", "start"} =>
        \A m \in recover[r].prompt : \E u \in Turn : CutWith(m, u)'
  BY <1>0, <1>2 DEF CutOff
<1>6. CASE UNCHANGED <<recover, retry>>
  BY <1>1, <1>4, <1>5, <1>6
<1>7. CASE Crash
  <2>1. UNCHANGED retry /\ \A r \in Recoverer : recover'[r].at = "idle"
    BY <1>7 DEF Crash, histVars, Idle
  <2> QED
    BY <1>1, <1>4, <2>1
<1>8. ASSUME NEW c \in Recoverer, Recovery(c)
      PROVE  /\ \A r \in Recoverer : recover'[r].at \in {"retry", "start"} =>
                  \A m \in recover'[r].prompt : \E u \in Turn : CutWith(m, u)'
             /\ \A t \in retry' : \E u \in Turn \ {t} : CutWith(prompt[t], u)'
  <2>1. CASE RecoverLoad(c)
    <3>1. /\ UNCHANGED retry /\ Free("agent") /\ stale_turn_recovery_decision(log) # "not_recoverable"
          /\ recover' = [recover EXCEPT ![c] = [at |-> stale_turn_recovery_decision(log),
                                                prompt |-> latest_unanswered_user_turn(log)]]
      BY <2>1 DEF RecoverLoad, Recovers, histVars
    <3>2. /\ recover'[c].prompt = latest_unanswered_user_turn(log)
          /\ \A r \in Recoverer \ {c} : recover'[r] = recover[r]
      BY <3>1 DEF Recoveries
    <3>3. latest_unanswered_user_turn(log) # {}
      BY <3>1 DEF stale_turn_recovery_decision
    <3>4. \A m \in latest_unanswered_user_turn(log) : \E u \in Turn : CutWith(m, u)
      BY <1>0, <3>1, <3>3, LoadedCut DEF CutOff
    <3> QED
      BY <1>2, <1>4, <1>5, <3>1, <3>2, <3>4
  <2>2. CASE RecoverMark(c)
    <3>1. /\ UNCHANGED retry /\ recover[c].at = "retry"
          /\ recover' = [recover EXCEPT ![c] = [at |-> "start", prompt |-> recover[c].prompt]]
      BY <2>2 DEF RecoverMark, Recovers, histVars
    <3>2. recover'[c].prompt = recover[c].prompt /\ \A r \in Recoverer \ {c} : recover'[r] = recover[r]
      BY <3>1 DEF Recoveries
    <3> QED
      BY <1>4, <1>5, <3>1, <3>2
  <2>3. CASE RecoverExhausted(c)
    <3>1. UNCHANGED retry /\ recover' = [recover EXCEPT ![c] = Idle]
      BY <2>3 DEF RecoverExhausted, histVars
    <3>2. recover'[c].at = "idle" /\ \A r \in Recoverer \ {c} : recover'[r] = recover[r]
      BY <3>1 DEF Recoveries, Idle
    <3> QED
      BY <1>4, <1>5, <3>1, <3>2
  <2>4. ASSUME NEW t \in Turn, RecoverStart(c, t)
        PROVE  /\ \A r \in Recoverer : recover'[r].at \in {"retry", "start"} =>
                    \A m \in recover'[r].prompt : \E u \in Turn : CutWith(m, u)'
               /\ \A v \in retry' : \E u \in Turn \ {v} : CutWith(prompt[v], u)'
    <3>1. recover' = [recover EXCEPT ![c] = Idle] /\ recover[c].at = "start"
      BY <2>4 DEF RecoverStart
    <3>2. recover'[c].at = "idle" /\ \A r \in Recoverer \ {c} : recover'[r] = recover[r]
      BY <3>1 DEF Recoveries, Idle
    <3>3. CASE UNCHANGED retry
      BY <1>4, <1>5, <3>2, <3>3
    <3>4. CASE ~UNCHANGED retry
      <4>1. /\ retry' = retry \cup {t} /\ kind[t] = "none"
            /\ \E m \in recover[c].prompt : prompt' = [prompt EXCEPT ![t] = m]
        BY <2>4, <3>4 DEF RecoverStart, Register, NewTurn
      <4>2. PICK m \in recover[c].prompt : prompt'[t] = m
        BY <4>1 DEF Flow, Handles
      <4>3. PICK u \in Turn : CutWith(m, u)
        BY <1>0, <3>1, <4>2 DEF CutOff
      <4>4. u # t /\ CutWith(m, u)'
        BY <1>2, <4>1, <4>3 DEF CutWith
      <4>5. CutWith(prompt[t], u)'
        BY <4>2, <4>4 DEF CutWith
      <4> QED
        BY <1>4, <1>5, <3>2, <4>1, <4>4, <4>5
    <3> QED
      BY <3>3, <3>4
  <2> QED
    BY <1>8, <2>1, <2>2, <2>3, <2>4 DEF Recovery
<1> QED
  BY <1>1, <1>6, <1>7, <1>8, RecoverKinds

(* Failures and crashes are only counted up.                                *)
LEMMA FailsGrow ==
    ASSUME Flags, [Next]_vars
    PROVE  fails \in Nat /\ crashes \in Nat /\ fails <= fails' /\ crashes <= crashes'
<1>1. fails \in Nat /\ crashes \in Nat
  BY DEF Flags
<1>2. \A t \in Turn : Stream(t) \/ Returned(t) \/ Invoked(t) \/ TakeProgress(t) => UNCHANGED <<fails, crashes>>
  BY DEF Stream, Returned, Invoked, TakeProgress, recoverVars
<1>3. \A p \in Proc : ReportRest(p) => UNCHANGED <<fails, crashes>>
  BY DEF ReportRest, recoverVars
<1>4. \A p \in Proc : WriteFails(p) => fails' = fails + 1 /\ UNCHANGED crashes
  BY DEF WriteFails
<1>5. Crash => crashes' = crashes + 1 /\ UNCHANGED fails
  BY DEF Crash
<1> QED
  BY <1>1, <1>2, <1>3, <1>4, <1>5, FlagKinds

(* RetryOnlyCutOff for any number of turns, cancellers, recoveries and      *)
(* crashes, as long as the transcript can be written: a turn that ends      *)
(* writes something after its prompt before it leaves the registry, so the  *)
(* transcript recover_stale_turn reads shows only a turn that was cut off   *)
(* as unanswered.                                                           *)
THEOREM RetriedCutOff == Spec => []RetryOnlyCutOff
<1>1. Init => CutOff
  BY DEF Init, CutOff, Replies, LastUser, Idle
<1>2. Flow /\ Recoveries /\ CutOff /\ Flags /\ Flags' /\ [Next]_vars => CutOff'
  <2>1. Flags' => fails' \in Nat
    BY DEF Flags
  <2> QED
    BY <2>1, CutOffStep, FailsGrow
<1>3. CutOff => RetryOnlyCutOff
  BY DEF CutOff, RetryOnlyCutOff, CutWith, Cut
<1> QED
  BY <1>1, <1>2, <1>3, FlowHolds, TypesHold, PTL DEF Spec

-----------------------------------------------------------------------------
(* Settled.                                                                 *)

Calm == fails = 0 /\ crashes = 0

Begun(t) == Written(t, "started") # {} \/ \E p \in Proc : Has(p, t, "started")

(* An event for the clients is still to be published.                       *)
Speaks(p) == \E i \in DOMAIN out[p].todo : out[p].todo[i].turn = "bus"

(* The worker has told the clients, or leaves it to a reporter.             *)
Said(t) == published[t] # {} \/ Speaks(t) \/ reported[t]

(* What the transcript shows as begun is closed, or will be.                *)
Closes(t) == Begun(t) => Written(t, "finished") # {} \/ Has(t, t, "finished") \/ reported[t]

(* Whoever reports a cancellation finishes what it began.                   *)
Told(t) == published[t] # {} \/ \E p \in Proc : Speaks(p) /\ T(p) = t
Closed(t) ==
    \/ kind[t] = "setup" \/ Written(t, "finished") # {}
    \/ \E p \in Proc : Has(p, t, "finished") /\ T(p) = t

Reports(t) ==
    reported[t] => (\E p \in Proc : pc[p] \in Reporting /\ T(p) = t) \/ (Told(t) /\ Closed(t))

Settles(t) ==
    /\ pc[t] \in Ending \cup {"done"} => Said(t)
    /\ kind[t] # "agent" \/ pc[t] \notin Agent => Closes(t)
    /\ kind[t] = "setup" => ~Begun(t)
    /\ Reports(t)

Announced == published \in [Turn -> SUBSET Outcome]

AllSettle == Calm => \A t \in Turn : Settles(t)

(* What a thread has to publish after it moved.                             *)
LEMMA MoveSpeaks ==
    ASSUME Threads, NEW p \in Proc, NEW l, NEW s, Moves(p, l, s)
    PROVE  /\ ~Speaks(p)
           /\ Speaks(p)' <=> \E i \in DOMAIN s : s[i].turn = "bus"
           /\ \A q \in Proc \ {p} : Speaks(q)' <=> Speaks(q)
<1>0. DOMAIN Quiet.todo = {}
  BY DEF Quiet
<1>1. PICK b \in BOOLEAN : Move(p, l, s, b)
  BY DEF Moves
<1>2. /\ out[p] = Quiet
      /\ out'[p] = (IF s = <<>> THEN Quiet ELSE [todo |-> s, strict |-> b])
      /\ \A q \in Proc \ {p} : out'[q] = out[q]
  BY <1>1 DEF Move, Threads
<1>3. out'[p].todo = s
  <2>1. CASE s = <<>>
    BY <1>2, <2>1 DEF Quiet
  <2>2. CASE s # <<>>
    BY <1>2, <2>2
  <2> QED
    BY <2>1, <2>2
<1> QED
  BY <1>0, <1>2, <1>3 DEF Speaks

(* And after it wrote.                                                      *)
LEMMA WriteSpeaks ==
    ASSUME Threads, NEW p \in Proc, out[p] # Quiet, out' = [out EXCEPT ![p] = Rest(p)]
    PROVE  /\ Speaks(p) => Speaks(p)' \/ out[p].todo[1].turn = "bus"
           /\ \A q \in Proc \ {p} : Speaks(q)' <=> Speaks(q)
<1>1. out'[p] = Rest(p) /\ \A q \in Proc \ {p} : out'[q] = out[q]
  BY DEF Threads
<1>2. \A i \in DOMAIN out[p].todo \ {1} :
        i - 1 \in DOMAIN Rest(p).todo /\ Rest(p).todo[i - 1] = out[p].todo[i]
  BY RestOf
<1>3. ASSUME NEW i \in DOMAIN out[p].todo, out[p].todo[i].turn = "bus", out[p].todo[1].turn # "bus"
      PROVE  Speaks(p)'
  BY <1>1, <1>2, <1>3 DEF Speaks
<1> QED
  BY <1>1, <1>3 DEF Speaks

(* What a thread is given to write: a prompt for the first that gets there, *)
(* and the end of a turn.                                                   *)
LEMMA MoveTexts ==
    ASSUME Flow, NEW p \in Proc, NEW l, NEW s, Moves(p, l, s)
    PROVE  /\ \A i \in DOMAIN s : \A t : Is(s[i], t, "started") =>
                /\ t = T(p)
                /\ \/ reported[t] /\ kind[t] # "setup"
                   \/ p = t /\ kind[t] = "agent" /\ l = "round"
           /\ pc[p] = "rest" => /\ \E i \in DOMAIN s : Is(s[i], T(p), "finished")
                                /\ \E i \in DOMAIN s : s[i].turn = "bus"
           /\ p \in Turn /\ l \in Ending \cup {"done"} /\ pc[p] \notin Ending =>
                reported'[p] \/ \E i \in DOMAIN s : s[i].turn = "bus"
<1> DEFINE u == T(p)
<1>1. u \in Turn /\ (p \in Turn => u = p)
  <2>1. pc[p] # "idle"
    BY DEF Moves, WorkerMove, SharedMove, Loops, Agent, Prompting
  <2> QED
    BY <2>1, TurnOf DEF Flow
<1>2. /\ \A o \in Outcome : Say(o).turn = "bus"
      /\ \A f \in {"started", "user", "assistant", "interrupted", "failed", "finished"} :
           Note(u, f).turn = u /\ Note(u, f).ev = f
  BY <1>1, Lines DEF Flow, Handles
<1>3. "cancelled" \in Outcome /\ "error" \in Outcome /\ "complete" \in Outcome
  BY DEF Outcome
<1>4. Say("cancelled").ev # "started" /\ Say("error").ev # "started" /\ Say("complete").ev # "started"
  BY DEF Say
<1> HIDE DEF u
<1>5. ASSUME NEW i \in DOMAIN s, NEW t, Is(s[i], t, "started")
      PROVE  /\ t = u
             /\ \/ reported[t] /\ kind[t] # "setup"
                \/ p = t /\ kind[t] = "agent" /\ l = "round"
  <2>1. s = Prompts(u) /\ (pc[p] = "prompt" \/ (p \in Turn /\ pc[p] = "prepared" /\ l = "round"))
    <3>1. CASE p \in Turn /\ WorkerMove(p, l, s)
      BY <1>1, <1>2, <1>4, <1>5, <3>1 DEF WorkerMove, Is
    <3>2. CASE SharedMove(p, l, s)
      BY <1>2, <1>4, <1>5, <3>2 DEF SharedMove, Is, u
    <3> QED
      BY <3>1, <3>2 DEF Moves
  <2>2. t = u
    BY <1>2, <1>5, <2>1 DEF Prompts, Is
  <2>3. pc[p] = "prompt" => reported[u] /\ kind[u] # "setup"
    BY DEF Flow, Reporters, Reporting, u
  <2>4. p \in Turn /\ pc[p] = "prepared" => kind[p] = "agent"
    BY DEF Flow, Routed, Handles, Ending
  <2> QED
    BY <1>1, <2>1, <2>2, <2>3, <2>4
<1>6. ASSUME pc[p] = "rest"
      PROVE  /\ \E i \in DOMAIN s : Is(s[i], u, "finished")
             /\ \E i \in DOMAIN s : s[i].turn = "bus"
  <2>1. s \in {<<Note(u, "interrupted"), Note(u, "finished"), Say("cancelled")>>,
               <<Note(u, "assistant"), Note(u, "interrupted"),
                 Note(u, "finished"), Say("cancelled")>>}
    BY <1>6 DEF Moves, WorkerMove, SharedMove, Loops, Agent, Prompting, u
  <2> QED
    BY <1>2, <1>3, <2>1 DEF Is
<1>7. ASSUME p \in Turn, l \in Ending \cup {"done"}, pc[p] \notin Ending
      PROVE  reported'[p] \/ \E i \in DOMAIN s : s[i].turn = "bus"
  <2>1. CASE WorkerMove(p, l, s)
    BY <1>2, <1>3, <1>7, <2>1 DEF WorkerMove, Loops, Agent, Prompting, Ending, Kept
  <2>2. CASE SharedMove(p, l, s)
    <3>1. pc[p] \in {"report", "rest"}
      BY <1>7, <2>2 DEF SharedMove, Ending
    <3>2. pc[p] = "report" => reported'[p]
      BY <1>1, <1>7, <2>2 DEF SharedMove, Flow, Handles, u
    <3> QED
      BY <1>6, <3>1, <3>2
  <2> QED
    BY <1>7, <2>1, <2>2 DEF Moves
<1> QED
  BY <1>5, <1>6, <1>7 DEF u

(* A thread moves.                                                          *)
LEMMA SettlesMove ==
    ASSUME Flow, NEW t \in Turn, Settles(t), NEW p \in Proc, NEW l, NEW s, Moves(p, l, s)
    PROVE  Settles(t)'
<1>a. /\ UNCHANGED <<log, kind, published, target>> /\ pc'[p] = l
      /\ \A q \in Proc \ {p} : pc'[q] = pc[q]
  BY DEF Moves, Move, Flow, Threads
<1>b. \A q : T(q)' = T(q)
  BY <1>a, SameTargets
<1>c. T(p) \in Turn /\ (p \in Turn => T(p) = p) /\ t \in Proc
  <2>1. pc[p] # "idle"
    BY DEF Moves, WorkerMove, SharedMove, Loops, Agent, Prompting
  <2> QED
    BY <2>1, TurnOf DEF Flow, Proc
<1>d. /\ \A x, e : ~Has(p, x, e) /\ (Has(p, x, e)' <=> \E i \in DOMAIN s : Is(s[i], x, e))
      /\ \A x, e : \A q \in Proc \ {p} : Has(q, x, e)' <=> Has(q, x, e)
  BY MoveHas DEF Flow
<1>e. /\ ~Speaks(p) /\ (Speaks(p)' <=> \E i \in DOMAIN s : s[i].turn = "bus")
      /\ \A q \in Proc \ {p} : Speaks(q)' <=> Speaks(q)
  BY MoveSpeaks DEF Flow
<1>f. \A e : Written(t, e)' = Written(t, e)
  BY <1>a DEF Written
<1>g. UNCHANGED reported \/ (pc[p] = "report" /\ reported' = [reported EXCEPT ![T(p)] = TRUE])
  BY DEF Moves, WorkerMove, SharedMove, Kept
<1>h. reported[t] => reported'[t]
  BY <1>g DEF Flow, Handles
<1>i. reported'[t] => reported[t] \/ (pc[p] = "report" /\ T(p) = t)
  BY <1>c, <1>g DEF Flow, Handles
<1>j. Begun(t)' => Begun(t) \/ (reported[t] /\ kind[t] # "setup")
                            \/ (p = t /\ kind[t] = "agent" /\ l = "round")
  <2>1. ASSUME Has(p, t, "started")'
        PROVE  (reported[t] /\ kind[t] # "setup") \/ (p = t /\ kind[t] = "agent" /\ l = "round")
    BY <1>d, <2>1, MoveTexts
  <2> QED
    BY <1>d, <1>f, <2>1 DEF Begun
<1>1. pc'[t] \in Ending \cup {"done"} => Said(t)'
  <2>1. CASE p # t
    BY <1>a, <1>c, <1>e, <1>h, <2>1 DEF Said, Settles
  <2>2. CASE p = t /\ pc[t] \in Ending
    BY <1>a, <1>e, <1>h, <2>2 DEF Said, Settles
  <2>3. CASE p = t /\ pc[t] \notin Ending
    <3>1. l \in Ending \cup {"done"} => reported'[t] \/ Speaks(t)'
      BY <1>e, <2>3, MoveTexts
    <3> QED
      BY <1>a, <2>3, <3>1 DEF Said
  <2> QED
    BY <2>1, <2>2, <2>3
<1>2. kind'[t] # "agent" \/ pc'[t] \notin Agent => Closes(t)'
  <2> SUFFICES ASSUME kind[t] # "agent" \/ pc'[t] \notin Agent, Begun(t)', ~reported[t]
               PROVE  Written(t, "finished")' # {} \/ Has(t, t, "finished")'
    BY <1>a, <1>h DEF Closes
  <2>1. Begun(t)
    BY <1>a, <1>j DEF Agent
  <2>2. CASE p # t
    BY <1>a, <1>c, <1>d, <1>f, <2>1, <2>2 DEF Settles, Closes
  <2>3. CASE p = t /\ (kind[t] # "agent" \/ pc[t] \notin Agent)
    BY <1>d, <1>f, <2>1, <2>3 DEF Settles, Closes
  <2>4. CASE p = t /\ kind[t] = "agent" /\ pc[t] \in Agent
    BY <1>a, <1>d, <2>4, LoopLeft
  <2> QED
    BY <2>2, <2>3, <2>4
<1>3. kind'[t] = "setup" => ~Begun(t)'
  BY <1>a, <1>j DEF Settles
<1>4. Reports(t)'
  <2> SUFFICES ASSUME reported'[t]
               PROVE  \/ \E q \in Proc : pc'[q] \in Reporting /\ T(q) = t
                      \/ Told(t)' /\ Closed(t)'
    BY <1>b DEF Reports
  <2>1. Told(t) => Told(t)'
    BY <1>a, <1>b, <1>e DEF Told
  <2>2. Closed(t) => Closed(t)'
    BY <1>a, <1>b, <1>d, <1>f DEF Closed
  <2>3. ASSUME pc[p] = "rest", T(p) = t
        PROVE  Told(t)' /\ Closed(t)'
    <3>1. Has(p, t, "finished")' /\ Speaks(p)'
      BY <1>d, <1>e, <2>3, MoveTexts
    <3> QED
      BY <1>b, <2>3, <3>1 DEF Told, Closed
  <2>4. CASE reported[t]
    <3>1. ASSUME NEW q \in Proc, pc[q] \in Reporting, T(q) = t
          PROVE  \/ \E r \in Proc : pc'[r] \in Reporting /\ T(r) = t
                 \/ Told(t)' /\ Closed(t)'
      <4>1. CASE q # p
        BY <1>a, <3>1, <4>1
      <4>2. CASE q = p /\ pc[p] = "prompt"
        <5>1. l = "rest"
          BY <4>2 DEF Moves, WorkerMove, SharedMove, Loops, Agent, Prompting
        <5> QED
          BY <1>a, <3>1, <4>2, <5>1 DEF Reporting
      <4>3. CASE q = p /\ pc[p] = "rest"
        BY <2>3, <3>1, <4>3
      <4> QED
        BY <3>1, <4>1, <4>2, <4>3 DEF Reporting
    <3> QED
      BY <2>1, <2>2, <2>4, <3>1 DEF Settles, Reports
  <2>5. CASE ~reported[t]
    <3>1. pc[p] = "report" /\ T(p) = t
      BY <1>i, <2>5
    <3>2. \/ kind[t] = "setup" /\ s = <<Say("cancelled")>>
          \/ l = "prompt"
      BY <2>5, <3>1 DEF Moves, WorkerMove, SharedMove, Loops, Agent, Prompting
    <3>3. CASE l = "prompt"
      BY <1>a, <3>1, <3>3 DEF Reporting
    <3>4. CASE kind[t] = "setup" /\ s = <<Say("cancelled")>>
      <4>1. Say("cancelled").turn = "bus"
        BY DEF Say
      <4>2. Speaks(p)'
        BY <1>e, <3>4, <4>1
      <4> QED
        BY <1>a, <1>b, <3>1, <3>4, <4>2 DEF Told, Closed
    <3> QED
      BY <3>2, <3>3, <3>4
  <2> QED
    BY <2>4, <2>5
<1> QED
  BY <1>1, <1>2, <1>3, <1>4 DEF Settles

(* A thread writes.                                                         *)
LEMMA SettlesWrite ==
    ASSUME Flow, Announced, NEW t \in Turn, Settles(t), NEW p \in Proc, Write(p)
    PROVE  Settles(t)'
<1> DEFINE e == out[p].todo[1]
<1>a. /\ out[p] # Quiet /\ out' = [out EXCEPT ![p] = Rest(p)]
      /\ UNCHANGED <<pc, kind, reported, target>>
  BY DEF Write, turnVars
<1>b. \A q : T(q)' = T(q)
  BY <1>a, SameTargets
<1>c. T(p) \in Turn /\ (p \in Turn => T(p) = p) /\ t \in Proc
  BY <1>a, TurnOf DEF Flow, Proc
<1>d. Head(out[p].todo) = e /\ e \in Item /\ 1 \in DOMAIN out[p].todo
  BY <1>a, RestOf DEF Flow
<1>e. /\ \A x, f : Has(p, x, f) => Has(p, x, f)' \/ Is(e, x, f)
      /\ \A x, f : Has(p, x, f)' => Has(p, x, f)
      /\ \A x, f : \A q \in Proc \ {p} : Has(q, x, f)' <=> Has(q, x, f)
  BY <1>a, WriteHas DEF Flow
<1>f. /\ Speaks(p) => Speaks(p)' \/ e.turn = "bus"
      /\ \A q \in Proc \ {p} : Speaks(q)' <=> Speaks(q)
  BY <1>a, WriteSpeaks DEF Flow
<1>g. /\ IF e.turn = "bus"
         THEN published' = [published EXCEPT ![T(p)] = @ \cup {e.ev}] /\ UNCHANGED log
         ELSE log' = Append(log, e) /\ UNCHANGED published
  BY <1>d DEF Write
<1>h. e.turn # "bus" => e \in Entry /\ e.turn = T(p)
  BY <1>d DEF Item, Says, Say, Notes, Entry, Flow, Writers
<1>n. t # "bus"
  BY TurnAssumption
<1> HIDE DEF e
<1>i. /\ \A f : Written(t, f) # {} => Written(t, f)' # {}
      /\ \A f : Is(e, t, f) => Written(t, f)' # {}
      /\ \A f : Written(t, f)' # {} => Written(t, f) # {} \/ Is(e, t, f)
  <2>1. CASE e.turn = "bus"
    BY <1>g, <1>n, <2>1 DEF Written, Is
  <2>2. CASE e.turn # "bus"
    <3>1. /\ DOMAIN log' = DOMAIN log \cup {Len(log) + 1} /\ log'[Len(log) + 1] = e
          /\ \A i \in DOMAIN log : log'[i] = log[i]
      BY <1>g, <1>h, <2>2, Appended DEF Flow, Handles
    <3> QED
      BY <3>1 DEF Written, Is
  <2> QED
    BY <2>1, <2>2
<1>j. /\ published[t] # {} => published'[t] # {}
      /\ e.turn = "bus" /\ T(p) = t => published'[t] # {}
  BY <1>c, <1>g DEF Announced
<1>k. \A f : Is(e, t, f) => e.turn # "bus" /\ T(p) = t
  BY <1>h, <1>n DEF Is
<1>1. Said(t) => Said(t)'
  <2>1. Speaks(t) => Speaks(t)' \/ published'[t] # {}
    BY <1>c, <1>f, <1>j
  <2> QED
    BY <1>a, <1>j, <2>1 DEF Said
<1>2. Begun(t)' => Begun(t)
  <2>1. Written(t, "started")' # {} => Begun(t)
    <3>1. Is(e, t, "started") => Has(p, t, "started")
      BY <1>d DEF Has, e
    <3> QED
      BY <1>i, <3>1 DEF Begun
  <2> QED
    BY <1>e, <2>1 DEF Begun
<1>3. Closes(t) => Closes(t)'
  <2>1. Has(t, t, "finished") => Has(t, t, "finished")' \/ Written(t, "finished")' # {}
    BY <1>c, <1>e, <1>i
  <2> QED
    BY <1>a, <1>2, <1>i, <2>1 DEF Closes
<1>4. Told(t) => Told(t)'
  BY <1>b, <1>f, <1>j DEF Told
<1>5. Closed(t) => Closed(t)'
  <2>1. \A q \in Proc : Has(q, t, "finished") /\ T(q) = t =>
          Written(t, "finished")' # {} \/ (Has(q, t, "finished")' /\ T(q)' = t)
    BY <1>b, <1>e, <1>i
  <2> QED
    BY <1>a, <1>i, <2>1 DEF Closed
<1>6. Reports(t)'
  BY <1>a, <1>b, <1>4, <1>5 DEF Settles, Reports
<1> QED
  BY <1>a, <1>1, <1>2, <1>3, <1>6 DEF Settles

(* A step that changes nothing of the turn.                                 *)
LEMMA SettlesSame ==
    ASSUME NEW t \in Turn, Settles(t), t \in Proc, UNCHANGED <<out, reported>>,
           pc'[t] = pc[t], kind'[t] = kind[t], published'[t] = published[t],
           \A e : Written(t, e)' = Written(t, e),
           \A q \in Proc : pc[q] \in Reporting \/ Speaks(q) \/ Has(q, t, "finished")
                             => pc'[q] = pc[q] /\ T(q)' = T(q)
    PROVE  Settles(t)'
<1>1. \A q \in Proc : (Speaks(q)' <=> Speaks(q)) /\ \A e : Has(q, t, e)' <=> Has(q, t, e)
  BY DEF Speaks, Has
<1>2. Begun(t)' <=> Begun(t)
  BY <1>1 DEF Begun
<1>3. (Said(t)' <=> Said(t)) /\ (Closes(t)' <=> Closes(t))
  BY <1>1, <1>2 DEF Said, Closes
<1>4. Told(t) => Told(t)'
  BY <1>1 DEF Told
<1>5. Closed(t) => Closed(t)'
  BY <1>1 DEF Closed
<1>6. Reports(t)'
  BY <1>4, <1>5 DEF Settles, Reports
<1> QED
  BY <1>2, <1>3, <1>6 DEF Settles

(* Every step keeps the types of what was published.                        *)
LEMMA AnnouncedStep ==
    ASSUME Flow, Recoveries, Announced, [Next]_vars
    PROVE  Announced'
<1>1. ASSUME NEW p \in Proc, Moving(p)
      PROVE  UNCHANGED published
  BY <1>1, MovingMoves DEF Moves, Move
<1>2. ASSUME NEW p \in Proc, Write(p)
      PROVE  Announced'
  <2>1. out[p] # Quiet
    BY <1>2 DEF Write
  <2>2. Head(out[p].todo) = out[p].todo[1] /\ out[p].todo[1] \in Item
    BY <2>1, RestOf DEF Flow
  <2>3. out[p].todo[1].turn = "bus" => out[p].todo[1].ev \in Outcome
    BY <2>2, TurnAssumption DEF Item, Notes, Says, Say
  <2>4. \/ UNCHANGED published
        \/ /\ out[p].todo[1].turn = "bus"
           /\ published' = [published EXCEPT ![T(p)] = @ \cup {out[p].todo[1].ev}]
    BY <1>2, <2>2 DEF Write
  <2> QED
    BY <2>3, <2>4 DEF Announced
<1>3. ASSUME NEW p \in Proc, WriteFails(p)
      PROVE  UNCHANGED published
  BY <1>3 DEF WriteFails, histVars
<1>4. ASSUME NEW t \in Turn, NEW l \in {"setup", "done"}, Begins(t, l)
      PROVE  Announced'
  BY <1>4 DEF Begins, Announced, Outcome
<1>5. ASSUME NEW c \in Canceller, NEW t \in Turn, CancelTurn(c, t)
      PROVE  UNCHANGED published
  BY <1>5 DEF CancelTurn
<1>6. CASE Marks \/ Crash \/ Still
  BY <1>6 DEF Marks, Crash, Still, histVars, Announced
<1> QED
  BY <1>1, <1>2, <1>3, <1>4, <1>5, <1>6, StepKinds DEF Announced

(* Every step without a fault keeps the obligations of a turn met or        *)
(* pending.                                                                 *)
LEMMA SettlesStep ==
    ASSUME Flow, Recoveries, Announced, [Next]_vars, Flags, Flags', Calm',
           NEW t \in Turn, Settles(t)
    PROVE  Settles(t)'
<1>a. t \in Proc
  BY DEF Proc
<1>b. fails \in Nat /\ crashes \in Nat /\ fails' = 0 /\ crashes' = 0
  BY DEF Flags, Calm
<1>1. ASSUME NEW p \in Proc, Moving(p)
      PROVE  Settles(t)'
  BY <1>1, MovingMoves, SettlesMove
<1>2. ASSUME NEW p \in Proc, Write(p)
      PROVE  Settles(t)'
  BY <1>2, SettlesWrite
<1>3. ASSUME NEW p \in Proc, WriteFails(p)
      PROVE  FALSE
  BY <1>3, <1>b DEF WriteFails
<1>4. ASSUME NEW u \in Turn, NEW l \in {"setup", "done"}, Begins(u, l)
      PROVE  Settles(t)'
  <2>1. /\ UNCHANGED <<out, target, reported, log>> /\ kind[u] = "none" /\ pc[u] = "new"
        /\ pc'[u] = l /\ \A q \in Proc \ {u} : pc'[q] = pc[q]
        /\ \A v \in Turn \ {u} : kind'[v] = kind[v] /\ published'[v] = published[v]
    BY <1>4 DEF Begins, Flow, Threads, Handles, Announced, Proc
  <2>2. \A q : T(q)' = T(q)
    BY <2>1, SameTargets
  <2>3. \A e : Written(t, e)' = Written(t, e)
    BY <2>1 DEF Written
  <2>4. CASE t # u
    <3>1. \A q \in Proc : pc[q] \in Reporting \/ Speaks(q) \/ Has(q, t, "finished") => pc'[q] = pc[q]
      <4>1. out[u] = Quiet
        BY <2>1 DEF Flow, Threads, Over
      <4>2. pc[u] \notin Reporting /\ ~Speaks(u) /\ ~Has(u, t, "finished")
        BY <2>1, <4>1 DEF Reporting, Speaks, Has, Quiet
      <4> QED
        BY <2>1, <4>2
    <3> QED
      BY <1>a, <2>1, <2>2, <2>3, <2>4, <3>1, SettlesSame
  <2>5. CASE t = u
    <3>1. \A q \in Proc : (Speaks(q)' <=> Speaks(q)) /\ \A e : Has(q, t, e)' <=> Has(q, t, e)
      BY <2>1 DEF Speaks, Has
    <3>2. ~Begun(t)
      <4>1. Written(t, "started") = {}
        BY <2>1, <2>5 DEF Written, Flow, Transcript
      <4>2. ASSUME NEW p \in Proc, Has(p, t, "started")
            PROVE  FALSE
        <5>1. PICK i \in DOMAIN out[p].todo : Is(out[p].todo[i], t, "started")
          BY <4>2 DEF Has
        <5>2. out[p].todo[i].turn = t /\ t # "bus"
          BY <5>1, TurnAssumption DEF Is
        <5>3. t = T(p) /\ kind[T(p)] # "none"
          BY <5>2 DEF Flow, Writers
        <5> QED
          BY <2>1, <2>5, <5>3
      <4> QED
        BY <4>1, <4>2 DEF Begun
    <3>3. ~Begun(t)'
      BY <2>3, <3>1, <3>2 DEF Begun
    <3>4. published[t] # {} => published'[t] # {}
      BY <1>4, <2>5 DEF Begins, Announced
    <3>5. l = "done" => published'[t] # {}
      BY <1>4, <2>5 DEF Begins, Announced
    <3>6. Told(t) => Told(t)'
      BY <2>2, <3>1, <3>4 DEF Told
    <3>7. Closed(t) => Closed(t)'
      BY <2>1, <2>2, <2>3, <2>5, <3>1 DEF Closed
    <3>8. \A q \in Proc : pc[q] \in Reporting => pc'[q] = pc[q]
      BY <2>1 DEF Reporting
    <3>9. Reports(t)'
      BY <2>1, <2>2, <3>6, <3>7, <3>8 DEF Settles, Reports
    <3>10. pc'[t] \in Ending \cup {"done"} => Said(t)'
      BY <2>1, <2>5, <3>5 DEF Said, Ending
    <3> QED
      BY <3>3, <3>9, <3>10 DEF Settles, Closes
  <2> QED
    BY <2>4, <2>5
<1>5. ASSUME NEW c \in Canceller, NEW u \in Turn, CancelTurn(c, u)
      PROVE  Settles(t)'
  <2>1. /\ UNCHANGED <<out, reported, log, kind, published>> /\ out[c] = Quiet /\ pc[c] = "idle"
        /\ c # t /\ c \notin Turn /\ \A q \in Proc \ {c} : pc'[q] = pc[q]
        /\ \A q \in Canceller \ {c} : target'[q] = target[q]
    BY <1>5, ProcAssumption DEF CancelTurn, At, Goto, turnVars, Flow, Threads, Proc
  <2>2. \A q \in Proc \ {c} : T(q)' = T(q)
    <3>1. ASSUME NEW q \in Turn
          PROVE  T(q)' = T(q)
      BY DEF T
    <3>2. ASSUME NEW q \in Canceller \ {c}, q \notin Turn
          PROVE  T(q)' = T(q)
      <4>1. target'[q] = target[q]
        BY <2>1
      <4> QED
        BY <3>2, <4>1 DEF T
    <3> QED
      BY <3>1, <3>2 DEF Proc
  <2>3. pc[c] \notin Reporting /\ ~Speaks(c) /\ ~Has(c, t, "finished")
    BY <2>1 DEF Reporting, Speaks, Has, Quiet
  <2>4. \A e : Written(t, e)' = Written(t, e)
    BY <2>1 DEF Written
  <2> QED
    BY <1>a, <2>1, <2>2, <2>3, <2>4, SettlesSame
<1>6. CASE Marks
  <2>1. PICK m \in Prompt, f \in {"retry", "exhausted"} : log' = Append(log, Marker(f, m))
    BY <1>6 DEF Marks
  <2>2. Marker(f, m) \in Entry /\ Marker(f, m).turn # t
    BY TurnAssumption DEF Marker, Entry
  <2>3. /\ DOMAIN log' = DOMAIN log \cup {Len(log) + 1} /\ log'[Len(log) + 1] = Marker(f, m)
        /\ \A i \in DOMAIN log : log'[i] = log[i]
    BY <2>1, <2>2, Appended DEF Flow, Handles
  <2>4. \A e : Written(t, e)' = Written(t, e)
    BY <2>2, <2>3 DEF Written
  <2>5. UNCHANGED <<out, reported, pc, kind, published, target>>
    BY <1>6 DEF Marks
  <2>6. \A q : T(q)' = T(q)
    BY <2>5, SameTargets
  <2> QED
    BY <1>a, <2>4, <2>5, <2>6, SettlesSame
<1>7. CASE Crash
  BY <1>7, <1>b DEF Crash
<1>8. CASE Still
  <2>1. UNCHANGED <<out, reported, log, pc, kind, published, target>>
    BY <1>8 DEF Still
  <2>2. \A q : T(q)' = T(q)
    BY <2>1, SameTargets
  <2>3. \A e : Written(t, e)' = Written(t, e)
    BY <2>1 DEF Written
  <2> QED
    BY <1>a, <2>1, <2>2, <2>3, SettlesSame
<1> QED
  BY <1>1, <1>2, <1>3, <1>4, <1>5, <1>6, <1>7, <1>8, StepKinds

(* Once everybody is through, nobody is left to report or to write.         *)
LEMMA SettlesSettled ==
    ASSUME Flow, AllSettle
    PROVE  Settled
<1> SUFFICES ASSUME NEW t \in Turn, pc[t] = "done", ~Cancelling(t), fails = 0, crashes = 0
             PROVE  /\ published[t] # {}
                    /\ t \notin registry
                    /\ Written(t, "started") # {} => Written(t, "finished") # {}
  BY DEF Settled
<1>1. Settles(t)
  BY DEF AllSettle, Calm
<1>2. t \notin registry
  BY DEF Flow, Handles, Over
<1>3. ASSUME NEW p \in Proc, T(p) = t
      PROVE  pc[p] \notin Reporting /\ out[p] = Quiet
  <2>1. CASE p \in Turn
    BY <1>3, <2>1 DEF T, Flow, Threads, Over, Reporting
  <2>2. CASE p \notin Turn /\ (pc[p] # "idle" \/ out[p] # Quiet)
    <3>1. p \in Canceller /\ target[p] = {t}
      BY <1>3, <2>2, TurnOf DEF Flow
    <3> QED
      BY <2>2, <3>1 DEF Cancelling, At
  <2> QED
    BY <2>1, <2>2 DEF Reporting
<1>4. \A p \in Proc : T(p) = t => ~Speaks(p) /\ ~Has(p, t, "finished")
  BY <1>3 DEF Speaks, Has, Quiet
<1>5. t \in Proc /\ T(t) = t
  BY DEF Proc, T
<1>6. reported[t] => published[t] # {} /\ (kind[t] = "setup" \/ Written(t, "finished") # {})
  BY <1>1, <1>3, <1>4 DEF Settles, Reports, Told, Closed
<1>7. published[t] # {}
  BY <1>1, <1>4, <1>5, <1>6 DEF Settles, Said
<1>8. ASSUME Written(t, "started") # {}
      PROVE  Written(t, "finished") # {}
  <2>1. Begun(t)
    BY <1>8 DEF Begun
  <2> QED
    BY <1>1, <1>4, <1>5, <1>6, <2>1 DEF Settles, Closes, Agent
<1> QED
  BY <1>2, <1>7, <1>8

(* Settled for any number of turns, cancellers and tasks: when the worker   *)
(* and the cancellers of a turn are through, the clients were told, the     *)
(* turn has left the registry and the transcript closes what it opened.     *)
(* Each worker that keeps quiet because cancel_reported is set relies on    *)
(* the reporter, whose own obligation the invariant follows.                *)
THEOREM TurnsSettled == Spec => []Settled
<1>1. Init => Announced /\ AllSettle
  <2> SUFFICES ASSUME Init PROVE Announced /\ AllSettle
    OBVIOUS
  <2>1. Announced
    BY DEF Init, Announced
  <2>2. ASSUME NEW t \in Turn
        PROVE  Settles(t)
    <3>1. pc[t] = "new" /\ kind[t] = "none" /\ ~reported[t] /\ log = <<>> /\ \A p \in Proc : out[p] = Quiet
      BY DEF Init, Proc
    <3>2. ~Begun(t)
      BY <3>1 DEF Begun, Written, Has, Quiet
    <3> QED
      BY <3>1, <3>2 DEF Settles, Closes, Reports, Ending
  <2> QED
    BY <2>1, <2>2 DEF AllSettle
<1>2. Flow /\ Recoveries /\ Flags /\ Flags' /\ Announced /\ AllSettle /\ [Next]_vars
        => (Announced /\ AllSettle)'
  <2> SUFFICES ASSUME Flow, Recoveries, Flags, Flags', Announced, AllSettle, [Next]_vars
               PROVE  Announced' /\ AllSettle'
    OBVIOUS
  <2>1. ASSUME Calm' PROVE Calm
    BY <2>1, FailsGrow DEF Calm
  <2> QED
    BY <2>1, AnnouncedStep, SettlesStep DEF AllSettle
<1>3. Flow /\ AllSettle => Settled
  BY SettlesSettled
<1> QED
  BY <1>1, <1>2, <1>3, FlowHolds, TypesHold, PTL DEF Spec
=============================================================================
