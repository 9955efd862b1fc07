----------------------------- MODULE TurnProofs -----------------------------
(***************************************************************************)
(* DaemonTurn: what a prompt's answer and a cancellation guarantee, for any *)
(* number of turns, cancellers, recoveries, prompts, tasks and crashes.     *)
(* Its second half is the flow of turns, threads and transcript entries     *)
(* that SettleProofs builds on.                                             *)
(***************************************************************************)
EXTENDS DaemonTurn, SequenceTheorems, FiniteSetTheorems, TLAPS

Label == WorkerLabel \cup CancellerLabel

(* A worker with a prompt of its own under way.                             *)
Prompting == {"register", "waiting", "withdraw"}

(* A worker past the boundary before a tool and not yet past the tool.      *)
InTool == {"dispatch", "register", "waiting", "effect"}

Batch == {"none", "serial", "permit", "threads"}

Typed ==
    /\ pc \in [Proc -> Label]
    /\ asked \in [Turn -> 0..MaxRequest]
    /\ answer \in [Turn -> [Request -> Answer]]
    /\ cancel \in [Turn -> BOOLEAN]
    /\ late \in [Turn -> Nat]
    /\ batch \in [Turn -> Batch]

(* An "allow" on a channel was put there by a client that was told so, and  *)
(* a worker takes only what is on the channel of the prompt it opened.      *)
Answers ==
    /\ \A t \in Turn : pc[t] \in Prompting => asked[t] \in Request
    /\ \A t \in Turn, r \in Request : answer[t][r] = "allow" => <<t, r>> \in accepted
    /\ granted \subseteq accepted

(* A worker that carried out a call of a serial batch after its             *)
(* cancellation is past it and never gets to another: the token stays set,  *)
(* so that no other batch starts either.                                    *)
Stops ==
    \A t \in Turn :
        /\ late[t] = 0 \/ cancel[t]
        /\ batch[t] = "serial" => late[t] = 0 \/ (late[t] = 1 /\ pc[t] \notin InTool)

TurnInv == Typed /\ Answers /\ Stops

-----------------------------------------------------------------------------
(* A step that moves no thread, and touches neither answers nor tools.      *)
LEMMA KeptStill ==
    ASSUME TurnInv, UNCHANGED <<pc, answer, accepted, granted, asked, late, batch, cancel>>
    PROVE  TurnInv'
BY DEF TurnInv, Typed, Answers, Stops

(* The same for a thread that moves outside the tools and prompts; it may   *)
(* set a token.                                                             *)
LEMMA KeptMoving ==
    ASSUME TurnInv, UNCHANGED <<answer, accepted, granted, asked, late, batch>>,
           cancel' \in [Turn -> BOOLEAN], \A t \in Turn : cancel[t] => cancel'[t],
           NEW p \in Proc, NEW l \in Label \ (Prompting \cup InTool),
           pc' = [pc EXCEPT ![p] = l]
    PROVE  TurnInv'
<1>1. Typed'
  BY DEF TurnInv, Typed
<1>2. \A t \in Turn : pc'[t] = pc[t] \/ pc'[t] \notin Prompting \cup InTool
  BY DEF TurnInv, Typed, Proc
<1>3. Answers'
  BY <1>2 DEF TurnInv, Answers
<1>4. Stops'
  BY <1>2 DEF TurnInv, Stops
<1> QED
  BY <1>1, <1>3, <1>4 DEF TurnInv

(* What nested agents and background tasks do beside the turns' threads.    *)
Beside == (\E t \in Turn : Subagent(t)) \/ (\E x \in Task : Background(x))

LEMMA BesideStep ==
    ASSUME Beside
    PROVE  UNCHANGED <<scopeVars, turnVars, items, saved, streamed, steps, asked, batchVars,
                       resolving, pc, out, target, log, recoverVars, published, accepted,
                       granted, late, cleared, harvested, retry, stopped>>
<1>1. ASSUME NEW t \in Turn, NestedSends(t)
      PROVE  UNCHANGED <<scopeVars, turnVars, items, saved, streamed, steps, asked, batchVars,
                         resolving, pc, out, target, log, recoverVars, published, accepted,
                         granted, late, cleared, harvested, retry, stopped>>
  BY <1>1 DEF NestedSends
<1>2. ASSUME NEW t \in Turn, NEW x \in Task, NEW d \in BOOLEAN, NEW a \in TaskThread,
             NestedLaunches(t, x, d, a)
      PROVE  UNCHANGED <<scopeVars, turnVars, items, saved, streamed, steps, asked, batchVars,
                         resolving, pc, out, target, log, recoverVars, published, accepted,
                         granted, late, cleared, harvested, retry, stopped>>
  BY <1>2 DEF NestedLaunches, workVars
<1>3. ASSUME NEW x \in Task, Background(x)
      PROVE  UNCHANGED <<scopeVars, turnVars, items, saved, streamed, steps, asked, batchVars,
                         resolving, pc, out, target, log, recoverVars, published, accepted,
                         granted, late, cleared, harvested, retry, stopped>>
  <2>1. OnlyTasks
    BY <1>3 DEF Background, CompleteTask, AgentEnds, TeammateEnds, TaskStop
  <2> QED
    BY <2>1 DEF OnlyTasks, workVars, histVars, effectVars
<1> QED
  BY <1>1, <1>2, <1>3 DEF Beside, Subagent

(* A step of some thread that writes or only goes on.                       *)
LEMMA SharedStep ==
    ASSUME TurnInv, NEW p \in Proc, Shared(p)
    PROVE  TurnInv'
<1> DEFINE Outside == Label \ (Prompting \cup InTool)
<1>1. CASE Write(p)
  BY <1>1, KeptStill DEF Write, scopeVars, workVars, batchVars
<1>2. CASE WriteFails(p)
  <2>1. UNCHANGED <<answer, accepted, granted, asked, late, batch, cancel>>
    BY <1>2 DEF WriteFails, scopeVars, workVars, batchVars, histVars
  <2>2. AfterReport(p) \in Outside
    BY DEF AfterReport, Label, WorkerLabel, CancellerLabel, Prompting, InTool
  <2>3. UNCHANGED pc \/ pc' = [pc EXCEPT ![p] = AfterReport(p)]
    BY <1>2 DEF WriteFails, Goto
  <2>4. cancel' \in [Turn -> BOOLEAN] /\ \A t \in Turn : cancel[t] => cancel'[t]
    BY <2>1 DEF TurnInv, Typed
  <2> QED
    BY <2>1, <2>2, <2>3, <2>4, KeptStill, KeptMoving
<1>3. CASE Finish(p)
  <2>1. UNCHANGED <<answer, accepted, granted, asked, late, batch>>
    BY <1>3 DEF Finish, finish, OnlyScope, scopeVars, workVars, batchVars, histVars
  <2>2. cancel' \in [Turn -> BOOLEAN] /\ \A t \in Turn : cancel[t] => cancel'[t]
    BY <1>3 DEF Finish, finish, scopeVars, TurnInv, Typed
  <2>3. PICK l \in Outside : pc' = [pc EXCEPT ![p] = l]
    BY <1>3 DEF Finish, Goto, AfterFinish, Label, WorkerLabel, CancellerLabel, Prompting,
                InTool
  <2> QED
    BY <2>1, <2>2, <2>3, KeptMoving
<1>4. CASE Drain(p)
  <2>1. pc' = [pc EXCEPT ![p] = "stop"] /\ UNCHANGED <<accepted, granted, asked, late, batch, cancel>>
    BY <1>4 DEF Drain, Goto, drain, OnlyScope, workVars, batchVars, histVars
  <2>2. answer' \in [Turn -> [Request -> Answer]]
    BY <1>4 DEF Drain, drain, TurnInv, Typed, Answer
  <2>3. \A t \in Turn, r \in Request : answer'[t][r] = "allow" => answer[t][r] = "allow"
    BY <1>4 DEF Drain, drain, TurnInv, Typed
  <2>4. \A t \in Turn : pc'[t] = pc[t] \/ pc'[t] \notin Prompting \cup InTool
    BY <2>1 DEF TurnInv, Typed, Proc, Prompting, InTool
  <2>5. Typed'
    BY <2>1, <2>2 DEF TurnInv, Typed, Label, WorkerLabel
  <2> QED
    BY <2>1, <2>3, <2>4, <2>5 DEF TurnInv, Answers, Stops
<1>5. CASE StopTasks(p) \/ Remove(p) \/ Report(p) \/ ReportPrompt(p) \/ ReportRest(p)
  <2>1. UNCHANGED <<answer, accepted, granted, asked, late, batch, cancel>>
    BY <1>5 DEF StopTasks, Remove, Report, ReportPrompt, ReportRest, scopeVars, workVars, batchVars,
                histVars
  <2>2. PICK l \in Outside : pc' = [pc EXCEPT ![p] = l]
    BY <1>5 DEF StopTasks, Remove, Report, ReportPrompt, ReportRest, Then, Goto,
                AfterReport, AfterFinish, Label, WorkerLabel, CancellerLabel, Prompting,
                InTool
  <2>3. cancel' \in [Turn -> BOOLEAN] /\ \A t \in Turn : cancel[t] => cancel'[t]
    BY <2>1 DEF TurnInv, Typed
  <2> QED
    BY <2>1, <2>2, <2>3, KeptMoving
<1> QED
  BY <1>1, <1>2, <1>3, <1>4, <1>5 DEF Shared

-----------------------------------------------------------------------------
(* A step of the worker outside the tools and prompts.                      *)
LEMMA PlainStep ==
    ASSUME TurnInv, NEW t \in Turn,
           \/ SetupFails(t) \/ Setup(t) \/ PersistPrompt(t) \/ Round(t) \/ Stream(t)
           \/ Joined(t) \/ EndOk(t) \/ TakeProgress(t) \/ EndErr(t)
           \/ CommandOk(t) \/ CommandErr(t)
    PROVE  TurnInv'
<1> DEFINE Outside == Label \ (Prompting \cup InTool)
<1>1. UNCHANGED <<answer, accepted, granted, asked, late, batch, cancel>>
  BY DEF SetupFails, Setup, PersistPrompt, Round, Stream, Joined, EndOk,
         TakeProgress, EndErr, CommandOk, CommandErr, OnlyPC, OnlyOut, scopeVars, workVars, batchVars,
         histVars
<1>2. PICK l \in Outside : pc' = [pc EXCEPT ![t] = l]
  <2>1. CASE SetupFails(t) \/ Setup(t) \/ PersistPrompt(t) \/ EndOk(t)
    BY <2>1 DEF SetupFails, Setup, PersistPrompt, EndOk, Then, Goto, Label, WorkerLabel,
                Prompting, InTool
  <2>2. CASE Round(t) \/ Stream(t) \/ Joined(t)
    BY <2>2 DEF Round, Stream, Joined, Goto, Label, WorkerLabel, Prompting, InTool
  <2>3. CASE TakeProgress(t) \/ EndErr(t) \/ CommandOk(t) \/ CommandErr(t)
    BY <2>3 DEF TakeProgress, EndErr, CommandOk, CommandErr, Then, Goto, Label, WorkerLabel,
                Prompting, InTool
  <2> QED
    BY <2>1, <2>2, <2>3
<1>3. cancel' \in [Turn -> BOOLEAN] /\ \A u \in Turn : cancel[u] => cancel'[u]
  BY <1>1 DEF TurnInv, Typed
<1> QED
  BY <1>1, <1>2, <1>3, KeptMoving DEF Proc

(* A batch begins, resolves its permissions, and goes on to its next call.  *)
LEMMA BatchStep ==
    ASSUME TurnInv, NEW t \in Turn,
           \/ Returned(t) \/ Permit(t) \/ Permitted(t) \/ Invoked(t)
           \/ \E x \in Task, d \in BOOLEAN : ThreadLaunches(t, x, d)
    PROVE  TurnInv'
<1>1. CASE Permit(t) \/ \E x \in Task, d \in BOOLEAN : ThreadLaunches(t, x, d)
  BY <1>1, KeptStill DEF Permit, ThreadLaunches, scopeVars, workVars, batchVars, histVars
<1>2. CASE Returned(t) \/ Permitted(t)
  <2>1. UNCHANGED <<answer, accepted, granted, asked, late, cancel>>
    BY <1>2 DEF Returned, Permitted, scopeVars, histVars
  <2>2. PICK l \in {"err", "ok", "tool", "threads"} : pc' = [pc EXCEPT ![t] = l]
    BY <1>2 DEF Returned, Permitted, Goto
  <2>3. PICK b \in Batch :
           /\ batch' = [batch EXCEPT ![t] = b]
           /\ b = "serial" => b = batch[t] \/ ~cancel[t]
    <3>1. CASE UNCHANGED batch
      <4>1. batch' = [batch EXCEPT ![t] = batch[t]] /\ batch[t] \in Batch
        BY <3>1 DEF TurnInv, Typed
      <4> QED
        BY <4>1
    <3>2. CASE ~UNCHANGED batch
      BY <1>2, <3>2 DEF Returned, Permitted, Batch
    <3> QED
      BY <3>1, <3>2
  <2>4. /\ pc'[t] = l /\ batch'[t] = b
        /\ \A u \in Turn \ {t} : pc'[u] = pc[u] /\ batch'[u] = batch[u]
    BY <2>2, <2>3 DEF TurnInv, Typed, Proc
  <2>5. Typed'
    BY <2>1, <2>2, <2>3 DEF TurnInv, Typed, Label, WorkerLabel
  <2>6. Answers'
    BY <2>1, <2>4 DEF TurnInv, Answers, Prompting
  <2>7. Stops'
    BY <2>1, <2>3, <2>4 DEF TurnInv, Stops, InTool
  <2> QED
    BY <2>5, <2>6, <2>7 DEF TurnInv
<1>3. CASE Invoked(t)
  <2>1. UNCHANGED <<answer, accepted, granted, asked, late, batch, cancel>>
    BY <1>3 DEF Invoked, scopeVars, histVars
  <2>2. PICK l \in {"tool", "dispatch", "ok", "round"} :
           pc' = [pc EXCEPT ![t] = l] /\ (l = "dispatch" => batch[t] # "serial")
    BY <1>3 DEF Invoked, NextCall, BatchDone, Goto
  <2>3. pc'[t] = l /\ \A u \in Turn \ {t} : pc'[u] = pc[u]
    BY <2>2 DEF TurnInv, Typed, Proc
  <2>4. Typed'
    BY <2>1, <2>2 DEF TurnInv, Typed, Label, WorkerLabel
  <2>5. Answers'
    BY <2>1, <2>3 DEF TurnInv, Answers, Prompting
  <2>6. Stops'
    BY <2>1, <2>2, <2>3 DEF TurnInv, Stops, InTool
  <2> QED
    BY <2>4, <2>5, <2>6 DEF TurnInv
<1> QED
  BY <1>1, <1>2, <1>3

(* A call takes effect: in a serial batch the only one after a cancellation. *)
LEMMA EffectStep ==
    ASSUME TurnInv, NEW t \in Turn,
           \/ PlainTool(t) \/ SendOutbound(t)
           \/ \E x \in Task, d \in BOOLEAN, a \in TaskThread : LaunchTask(t, x, d, a)
    PROVE  TurnInv'
<1>1. /\ pc[t] = "effect" /\ pc' = [pc EXCEPT ![t] = "invoked"]
      /\ late' = [late EXCEPT ![t] = IF cancel[t] THEN @ + 1 ELSE @]
      /\ UNCHANGED <<answer, accepted, granted, asked, batch, cancel>>
  BY DEF PlainTool, SendOutbound, LaunchTask, Late, At, Goto, scopeVars, workVars, batchVars
<1>2. Typed'
  <2>1. late' \in [Turn -> Nat]
    BY <1>1 DEF TurnInv, Typed
  <2>2. pc' \in [Proc -> Label]
    BY <1>1 DEF TurnInv, Typed, Label, WorkerLabel
  <2> QED
    BY <1>1, <2>1, <2>2 DEF TurnInv, Typed
<1>3. pc'[t] = "invoked" /\ \A u \in Turn \ {t} : pc'[u] = pc[u] /\ late'[u] = late[u]
  BY <1>1 DEF TurnInv, Typed, Proc
<1>4. Answers'
  BY <1>1, <1>3 DEF TurnInv, Answers, Prompting
<1>5. late'[t] = (IF cancel[t] THEN late[t] + 1 ELSE late[t]) /\ late[t] \in Nat
  BY <1>1 DEF TurnInv, Typed
<1>6. batch[t] = "serial" => late[t] = 0
  BY <1>1 DEF TurnInv, Stops, InTool
<1>7. Stops'
  BY <1>1, <1>3, <1>5, <1>6 DEF TurnInv, Stops, InTool
<1> QED
  BY <1>2, <1>4, <1>7 DEF TurnInv

(* The boundary before a tool, the prompts, and their answers.              *)
LEMMA ToolStep ==
    ASSUME TurnInv, NEW t \in Turn,
           \/ Tool(t) \/ Dispatch(t) \/ Ask(t) \/ OpenPrompt(t) \/ Answered(t)
           \/ TimedOut(t) \/ Withdraw(t)
    PROVE  TurnInv'
<1> USE RequestAssumption
<1>1. CASE Tool(t)
  <2>1. UNCHANGED <<answer, accepted, granted, asked, late, batch, cancel>>
    BY <1>1 DEF Tool, scopeVars, batchVars, histVars
  <2>2. PICK l \in {"invoked", "dispatch", "permit"} :
           pc' = [pc EXCEPT ![t] = l] /\ (l = "dispatch" => ~cancel[t])
    <3>1. CASE cancel[t]
      BY <1>1, <3>1 DEF Tool, Goto
    <3>2. CASE ~cancel[t] /\ batch[t] = "serial"
      BY <1>1, <3>2 DEF Tool, Goto
    <3>3. CASE ~cancel[t] /\ batch[t] # "serial"
      BY <1>1, <3>3 DEF Tool, Goto
    <3> QED
      BY <3>1, <3>2, <3>3
  <2>3. pc'[t] = l /\ \A u \in Turn \ {t} : pc'[u] = pc[u]
    BY <2>2 DEF TurnInv, Typed, Proc
  <2>4. Typed'
    BY <2>1, <2>2 DEF TurnInv, Typed, Label, WorkerLabel
  <2> QED
    BY <2>1, <2>2, <2>3, <2>4 DEF TurnInv, Answers, Stops, Prompting, InTool
<1>2. CASE Dispatch(t)
  <2>1. /\ pc[t] = "dispatch" /\ pc' = [pc EXCEPT ![t] = "effect"]
        /\ UNCHANGED <<answer, accepted, granted, asked, late, batch, cancel>>
    BY <1>2 DEF Dispatch, At, Goto, OnlyPC, scopeVars, workVars, batchVars, histVars
  <2>2. pc'[t] = "effect" /\ \A u \in Turn \ {t} : pc'[u] = pc[u]
    BY <2>1 DEF TurnInv, Typed, Proc
  <2>3. Typed'
    BY <2>1 DEF TurnInv, Typed, Label, WorkerLabel
  <2> QED
    BY <2>1, <2>2, <2>3 DEF TurnInv, Answers, Stops, Prompting, InTool
<1>3. CASE Ask(t)
  <2>1. UNCHANGED <<answer, accepted, granted, late, batch, cancel>>
    BY <1>3 DEF Ask, scopeVars, batchVars, histVars
  <2>2. CASE cancel[t]
    <3>1. pc' = [pc EXCEPT ![t] = Resume(t, FALSE)] /\ UNCHANGED asked
      BY <1>3, <2>2 DEF Ask, Goto
    <3>2. Resume(t, FALSE) \in Label \ (Prompting \cup InTool)
      BY DEF Resume, Label, WorkerLabel, Prompting, InTool
    <3>3. cancel' \in [Turn -> BOOLEAN] /\ \A u \in Turn : cancel[u] => cancel'[u]
      BY <2>1 DEF TurnInv, Typed
    <3> QED
      BY <2>1, <3>1, <3>2, <3>3, KeptMoving DEF Proc
  <2>3. CASE ~cancel[t]
    <3>1. /\ asked[t] < MaxRequest /\ asked' = [asked EXCEPT ![t] = @ + 1]
          /\ pc' = [pc EXCEPT ![t] = "register"]
      BY <1>3, <2>3 DEF Ask, Goto
    <3>2. /\ pc'[t] = "register" /\ asked'[t] \in Request
          /\ \A u \in Turn \ {t} : pc'[u] = pc[u] /\ asked'[u] = asked[u]
      BY <3>1 DEF TurnInv, Typed, Proc, Request
    <3>3. Typed'
      <4>1. asked' \in [Turn -> 0..MaxRequest]
        BY <3>1 DEF TurnInv, Typed
      <4>2. pc' \in [Proc -> Label]
        BY <3>1 DEF TurnInv, Typed, Label, WorkerLabel
      <4> QED
        BY <2>1, <4>1, <4>2 DEF TurnInv, Typed
    <3>4. Answers'
      BY <2>1, <3>2 DEF TurnInv, Answers
    <3>5. Stops'
      BY <2>1, <2>3, <3>2 DEF TurnInv, Stops
    <3> QED
      BY <3>3, <3>4, <3>5 DEF TurnInv
  <2> QED
    BY <2>2, <2>3
<1>4. CASE OpenPrompt(t) \/ TimedOut(t)
  <2>1. /\ pc[t] \in {"register", "waiting"}
        /\ UNCHANGED <<answer, accepted, granted, asked, late, batch, cancel>>
    BY <1>4 DEF OpenPrompt, TimedOut, register, At, OnlyScope, OnlyPC, scopeVars, workVars, batchVars,
                histVars
  <2>2. pc' = [pc EXCEPT ![t] = "waiting"] \/ pc' = [pc EXCEPT ![t] = "withdraw"]
    BY <1>4 DEF OpenPrompt, TimedOut, Goto
  <2>3. pc'[t] \in {"waiting", "withdraw"} /\ \A u \in Turn \ {t} : pc'[u] = pc[u]
    BY <2>2 DEF TurnInv, Typed, Proc
  <2>4. Typed'
    BY <2>1, <2>2 DEF TurnInv, Typed, Label, WorkerLabel
  <2>5. Answers'
    BY <2>1, <2>3 DEF TurnInv, Answers, Prompting
  <2>6. Stops'
    BY <2>1, <2>3 DEF TurnInv, Stops, InTool
  <2> QED
    BY <2>4, <2>5, <2>6 DEF TurnInv
<1>5. CASE Answered(t)
  <2>1. pc[t] = "waiting" /\ UNCHANGED <<answer, accepted, asked, late, batch, cancel>>
    BY <1>5 DEF Answered, At, scopeVars
  <2>2. asked[t] \in Request
    BY <2>1 DEF TurnInv, Answers, Prompting
  <2>3. granted' \subseteq accepted'
    BY <1>5, <2>1, <2>2 DEF Answered, TurnInv, Answers
  <2>4. PICK l \in Label \ Prompting : pc' = [pc EXCEPT ![t] = l]
    <3>1. Resume(t, TRUE) \in Label \ Prompting /\ Resume(t, FALSE) \in Label \ Prompting
      BY DEF Resume, Label, WorkerLabel, Prompting
    <3>2. CASE answer[t][asked[t]] = "allow"
      BY <1>5, <3>1, <3>2 DEF Answered, Goto, Resume
    <3>3. CASE answer[t][asked[t]] # "allow"
      BY <1>5, <3>1, <3>3 DEF Answered, Goto, Resume
    <3> QED
      BY <3>2, <3>3
  <2>5. pc'[t] = l /\ \A u \in Turn \ {t} : pc'[u] = pc[u]
    BY <2>4 DEF TurnInv, Typed, Proc
  <2>6. Typed'
    BY <2>1, <2>4 DEF TurnInv, Typed
  <2>7. Answers'
    BY <2>1, <2>3, <2>5 DEF TurnInv, Answers
  <2>8. Stops'
    BY <2>1, <2>5 DEF TurnInv, Stops, InTool
  <2> QED
    BY <2>6, <2>7, <2>8 DEF TurnInv
<1>6. CASE Withdraw(t)
  <2>1. UNCHANGED <<answer, accepted, granted, asked, late, batch, cancel>>
    BY <1>6 DEF Withdraw, expire, OnlyScope, workVars, batchVars, histVars
  <2>2. pc' = [pc EXCEPT ![t] = Resume(t, FALSE)]
    BY <1>6 DEF Withdraw, Goto
  <2>3. Resume(t, FALSE) \in Label \ (Prompting \cup InTool)
    BY DEF Resume, Label, WorkerLabel, Prompting, InTool
  <2>4. cancel' \in [Turn -> BOOLEAN] /\ \A u \in Turn : cancel[u] => cancel'[u]
    BY <2>1 DEF TurnInv, Typed
  <2> QED
    BY <2>1, <2>2, <2>3, <2>4, KeptMoving DEF Proc
<1> QED
  BY <1>1, <1>2, <1>3, <1>4, <1>5, <1>6

-----------------------------------------------------------------------------
(* Clients start, cancel and answer.                                        *)
LEMMA ClientStep ==
    ASSUME TurnInv, Client
    PROVE  TurnInv'
<1>1. ASSUME NEW t \in Turn, NEW k, NEW m,
             StartTurn(t, k, m) \/ StagingFails(t, m)
      PROVE  TurnInv'
  <2>1. UNCHANGED <<answer, accepted, granted, asked, late, batch, cancel>>
    BY <1>1 DEF StartTurn, StagingFails, scopeVars, workVars, batchVars, histVars
  <2>2. PICK l \in Label \ (Prompting \cup InTool) : pc' = [pc EXCEPT ![t] = l]
    BY <1>1 DEF StartTurn, StagingFails, Register, Goto, Label, WorkerLabel, Prompting, InTool
  <2>3. cancel' \in [Turn -> BOOLEAN] /\ \A u \in Turn : cancel[u] => cancel'[u]
    BY <2>1 DEF TurnInv, Typed
  <2> QED
    BY <2>1, <2>2, <2>3, KeptMoving DEF Proc
<1>2. ASSUME NEW c \in Canceller, NEW t \in Turn, CancelTurn(c, t)
      PROVE  TurnInv'
  <2>1. UNCHANGED <<answer, accepted, granted, asked, late, batch, cancel>>
    BY <1>2 DEF CancelTurn, scopeVars, workVars, batchVars, histVars
  <2>2. pc' = [pc EXCEPT ![c] = "finish"]
    BY <1>2 DEF CancelTurn, Goto
  <2>3. "finish" \in Label \ (Prompting \cup InTool)
    BY DEF Label, WorkerLabel, Prompting, InTool
  <2>4. cancel' \in [Turn -> BOOLEAN] /\ \A u \in Turn : cancel[u] => cancel'[u]
    BY <2>1 DEF TurnInv, Typed
  <2> QED
    BY <2>1, <2>2, <2>3, <2>4, KeptMoving DEF Proc
<1>3. ASSUME NEW t \in Turn, NEW r \in Request, ResolveCheck(t, r)
      PROVE  TurnInv'
  BY <1>3, KeptStill DEF ResolveCheck, scopeVars, batchVars, histVars
<1>4. ASSUME NEW t \in Turn, NEW r \in Request, NEW a \in {"allow", "deny"},
             ResolveSend(t, r, a)
      PROVE  TurnInv'
  <2>1. UNCHANGED <<pc, granted, asked, late, batch, cancel>> /\ accepted \subseteq accepted'
    BY <1>4 DEF ResolveSend, resolve, scopeVars, batchVars
  <2>2. answer' \in [Turn -> [Request -> Answer]]
    <3>1. answer \in [Turn -> [Request -> Answer]] /\ a \in Answer
      BY DEF TurnInv, Typed, Answer
    <3>2. UNCHANGED answer \/ answer' = [answer EXCEPT ![t][r] = a]
      BY <1>4 DEF ResolveSend, resolve, scopeVars
    <3>3. [answer[t] EXCEPT ![r] = a] \in [Request -> Answer]
      BY <3>1
    <3> QED
      BY <3>1, <3>2, <3>3
  <2>3. \A u \in Turn, q \in Request :
           answer'[u][q] = "allow" => answer[u][q] = "allow" \/ <<u, q>> \in accepted'
    BY <1>4 DEF ResolveSend, resolve, scopeVars, TurnInv, Typed
  <2>4. Typed'
    BY <2>1, <2>2 DEF TurnInv, Typed
  <2>5. Answers'
    BY <2>1, <2>3 DEF TurnInv, Answers
  <2>6. Stops'
    BY <2>1 DEF TurnInv, Stops
  <2> QED
    BY <2>4, <2>5, <2>6 DEF TurnInv
<1> QED
  BY <1>1, <1>2, <1>3, <1>4 DEF Client

(* Tasks, recovery and crashes.                                             *)
LEMMA RestStep ==
    ASSUME TurnInv,
           \/ Beside
           \/ \E c \in Recoverer : Recovery(c)
           \/ Crash \/ AtRest
    PROVE  TurnInv'
<1>1. CASE Beside \/ AtRest
  BY <1>1, BesideStep, KeptStill DEF AtRest, vars, scopeVars, workVars, batchVars, histVars
<1>2. ASSUME NEW c \in Recoverer, RecoverLoad(c) \/ RecoverMark(c) \/ RecoverExhausted(c)
      PROVE  TurnInv'
  BY <1>2, KeptStill DEF RecoverLoad, RecoverMark, RecoverExhausted, scopeVars, workVars, batchVars,
                         histVars
<1>3. ASSUME NEW c \in Recoverer, NEW t \in Turn, RecoverStart(c, t)
      PROVE  TurnInv'
  <2>1. UNCHANGED <<answer, accepted, granted, asked, late, batch, cancel>>
    BY <1>3 DEF RecoverStart, scopeVars, workVars, batchVars
  <2>2. UNCHANGED pc \/ pc' = [pc EXCEPT ![t] = "setup"]
    BY <1>3 DEF RecoverStart, Register, Goto
  <2>3. "setup" \in Label \ (Prompting \cup InTool)
    BY DEF Label, WorkerLabel, Prompting, InTool
  <2>4. cancel' \in [Turn -> BOOLEAN] /\ \A u \in Turn : cancel[u] => cancel'[u]
    BY <2>1 DEF TurnInv, Typed
  <2> QED
    BY <2>1, <2>2, <2>3, <2>4, KeptStill, KeptMoving DEF Proc
<1>4. CASE Crash
  <2>1. /\ asked' = [t \in Turn |-> 0] /\ batch' = [t \in Turn |-> "none"]
        /\ UNCHANGED <<answer, accepted, granted, late, cancel>>
    BY <1>4 DEF Crash, histVars
  <2>2. pc' \in [Proc -> {"new", "done", "lost", "idle"}]
    BY <1>4 DEF Crash, TurnInv, Typed
  <2>3. Typed'
    BY <2>1, <2>2, RequestAssumption DEF TurnInv, Typed, Batch, Label, WorkerLabel, CancellerLabel
  <2>4. \A t \in Turn : pc'[t] \notin Prompting \cup InTool
    BY <2>2 DEF Proc, Prompting, InTool
  <2> QED
    BY <2>1, <2>3, <2>4 DEF TurnInv, Answers, Stops
<1> QED
  BY <1>1, <1>2, <1>3, <1>4 DEF Recovery

(* The invariant holds at first and every step keeps it.                    *)
LEMMA TurnInvHolds == Spec => []TurnInv
<1>1. Init => TurnInv
  <2> SUFFICES ASSUME Init PROVE TurnInv
    OBVIOUS
  <2>1. Typed
    BY RequestAssumption DEF Init, ScopeInit, Typed, Answer, Batch, Label, WorkerLabel, CancellerLabel
  <2>2. Answers
    BY DEF Init, ScopeInit, Answers, Prompting, Proc
  <2>3. Stops
    BY DEF Init, Stops
  <2> QED
    BY <2>1, <2>2, <2>3 DEF TurnInv
<1>2. TurnInv /\ [Next]_vars => TurnInv'
  <2> SUFFICES ASSUME TurnInv, [Next]_vars PROVE TurnInv'
    OBVIOUS
  <2>1. CASE UNCHANGED vars
    BY <2>1, KeptStill DEF vars, scopeVars, workVars, batchVars, histVars
  <2>2. ASSUME NEW t \in Turn, Worker(t) PROVE TurnInv'
    BY <2>2, PlainStep, BatchStep, EffectStep, ToolStep DEF Worker
  <2> QED
    BY <2>1, <2>2, SharedStep, ClientStep, RestStep DEF Next, Beside
<1> QED
  BY <1>1, <1>2, PTL DEF Spec

(* A worker acts on a permission only if a client gave it and was told that *)
(* it counted: neither finish_turn, which denies what is open, nor a        *)
(* timeout nor an answer that arrives while the prompt is withdrawn ever    *)
(* allows anything (daemon_turn_scope.rs).                                  *)
THEOREM PermissionFromClient == Spec => []GrantedByClient
<1>1. TurnInv => GrantedByClient
  BY DEF TurnInv, Answers, GrantedByClient
<1> QED
  BY <1>1, TurnInvHolds, PTL

(* However many threads cancel a turn and whatever its calls are waiting    *)
(* for, at most one call of a serial batch takes effect after the token is  *)
(* set (execute_tool_batch_serial).                                         *)
THEOREM CancelStopsTools == Spec => []OneToolAfterCancel
<1>1. TurnInv => OneToolAfterCancel
  BY DEF TurnInv, Stops, OneToolAfterCancel
<1> QED
  BY <1>1, TurnInvHolds, PTL

-----------------------------------------------------------------------------
(* The threads of a turn, what they still have to write, and what is in the *)
(* transcript.                                                              *)

Notes == [turn : Turn, ev : {"started", "user", "assistant", "interrupted", "failed",
                             "finished"}, prompt : Prompt]
Says == {Say(o) : o \in Outcome}
Item == Notes \cup Says

(* A turn whose worker has not begun, has ended, or was lost.               *)
Over == {"new", "done", "lost"}

(* Where the worker of an agent turn has written the prompt, or will not.   *)
Agent == {"round", "stream", "returned", "tool", "permit", "threads", "dispatch",
          "register", "waiting", "withdraw", "effect", "invoked", "ok", "take", "err"}

(* finish_turn.                                                             *)
Ending == {"finish", "complete", "drain", "stop", "remove"}

(* report_cancelled_turn once it has won the swap of cancel_reported.       *)
Reporting == {"prompt", "rest"}

Threads ==
    /\ pc \in [Proc -> Label]
    /\ \A t \in Turn : pc[t] \in WorkerLabel
    /\ \A c \in Canceller : pc[c] \in CancellerLabel
    /\ out \in [Proc -> [todo : Seq(Item), strict : BOOLEAN]]
    /\ \A p \in Proc : out[p] # Quiet => out[p].todo # <<>>
    /\ target \in [Canceller -> {{}} \cup {{t} : t \in Turn}]
    /\ \A c \in Canceller : pc[c] # "idle" \/ out[c] # Quiet => target[c] # {}
    /\ \A t \in Turn : pc[t] \in Over => out[t] = Quiet

Handles ==
    /\ registry \subseteq Turn
    /\ kind \in [Turn -> {"none", "agent", "slash", "setup"}]
    /\ prompt \in [Turn -> Prompt]
    /\ reported \in [Turn -> BOOLEAN] /\ persisted \in [Turn -> BOOLEAN]
    /\ log \in Seq(Entry)
    /\ \A t \in Turn : pc[t] = "new" <=> kind[t] = "none"
    /\ \A t \in registry : kind[t] # "none" /\ pc[t] \notin Over
    /\ \A c \in Canceller, t \in Turn : target[c] = {t} => kind[t] # "none" /\ t \in stopped

(* A worker is where its kind of turn goes.                                 *)
Routed ==
    \A t \in Turn :
        /\ kind[t] \notin {"none", "agent"} =>
             pc[t] \in {"setup", "command", "register", "waiting", "withdraw", "lost", "done"}
                         \cup Ending
        /\ pc[t] = "command" => kind[t] # "agent"

(* Only a canceller takes a turn out of the registry under its worker.      *)
Registered == \A t \in Turn : pc[t] \notin Over => t \in registry \/ t \in stopped

(* A reporter has the turn's flag, and reports no connector setup.          *)
Reporters ==
    \A p \in Proc : pc[p] \in Reporting => reported[T(p)] /\ kind[T(p)] # "setup"

(* What a thread writes is about its turn.                                  *)
Writers ==
    \A p \in Proc : \A i \in DOMAIN out[p].todo :
        out[p].todo[i].turn # "bus" =>
            /\ out[p].todo[i].turn = T(p) /\ out[p].todo[i].prompt = prompt[T(p)]
            /\ kind[T(p)] \notin {"none", "setup"}
            /\ out[p].todo[i].ev \in {"started", "user"} =>
                  reported[T(p)] \/ (p \in Turn /\ pc[p] = "round")

(* And so is what it has written.                                           *)
Transcript ==
    \A i \in DOMAIN log : log[i].turn \in Turn =>
        kind[log[i].turn] \notin {"none", "setup"} /\ log[i].prompt = prompt[log[i].turn]

Flow == Threads /\ Handles /\ Routed /\ Registered /\ Reporters /\ Writers /\ Transcript

(* The turn of a thread that is under way.                                  *)
LEMMA TurnOf ==
    ASSUME Threads, NEW p \in Proc, pc[p] # "idle" \/ out[p] # Quiet
    PROVE  /\ T(p) \in Turn
           /\ p \in Turn => T(p) = p
           /\ p \notin Turn => p \in Canceller /\ target[p] = {T(p)}
<1>1. CASE p \in Turn
  BY <1>1 DEF T
<1>2. CASE p \notin Turn
  <2>1. p \in Canceller /\ target[p] # {}
    BY <1>2 DEF Proc, Threads
  <2>2. PICK t \in Turn : target[p] = {t}
    BY <2>1 DEF Threads
  <2>3. T(p) = CHOOSE u \in Turn : target[p] = {u}
    BY <1>2 DEF T
  <2> QED
    BY <1>2, <2>1, <2>2, <2>3
<1> QED
  BY <1>1, <1>2

(* A thread that has nothing to write goes on to l, with s to write.        *)
Move(p, l, s, b) ==
    /\ out[p] = Quiet
    /\ pc' = [pc EXCEPT ![p] = l]
    /\ out' = [out EXCEPT ![p] = IF s = <<>> THEN Quiet ELSE [todo |-> s, strict |-> b]]
    /\ UNCHANGED <<kind, prompt, target, log, published, stopped, recoverVars, retry>>

(* What a thread may be given to write.                                     *)
Texts(p, l, s) ==
    /\ s \in Seq(Item)
    /\ \A i \in DOMAIN s : s[i].turn # "bus" =>
         /\ s[i].turn = T(p) /\ s[i].prompt = prompt[T(p)]
         /\ kind[T(p)] \notin {"none", "setup"}
         /\ s[i].ev \in {"started", "user"} =>
               reported'[T(p)] \/ (p \in Turn /\ l = "round")

Routes(p, l) ==
    /\ p \in Turn => l \in WorkerLabel \ {"new", "lost"}
    /\ p \in Canceller => l \in CancellerLabel
    /\ p \in Turn /\ kind[p] # "agent" =>
         l \in {"setup", "command", "register", "waiting", "withdraw", "lost", "done"}
                  \cup Ending
    /\ p \in Turn /\ l = "command" => kind[p] # "agent"
    /\ l \in Reporting => reported'[T(p)] /\ kind[T(p)] # "setup"

(* A move keeps the types of the threads.                                   *)
LEMMA MoveThreads ==
    ASSUME Threads, NEW p \in Proc, NEW l, NEW s, NEW b \in BOOLEAN, Move(p, l, s, b),
           pc[p] \notin Over \cup {"idle"}, Routes(p, l), s \in Seq(Item),
           l \in Over => s = <<>>
    PROVE  Threads'
<1>1. l \in Label
  BY DEF Routes, Label, Proc
<1>2. pc'[p] = l /\ \A q \in Proc \ {p} : pc'[q] = pc[q]
  BY DEF Move, Threads
<1>3. /\ pc' \in [Proc -> Label]
      /\ \A t \in Turn : pc'[t] \in WorkerLabel
      /\ \A c \in Canceller : pc'[c] \in CancellerLabel
  BY <1>1, <1>2 DEF Move, Threads, Routes, Proc
<1>4. Quiet \in [todo : Seq(Item), strict : BOOLEAN]
  BY EmptySeq DEF Quiet
<1>5. s # <<>> => [todo |-> s, strict |-> b] \in [todo : Seq(Item), strict : BOOLEAN]
  OBVIOUS
<1>6. out' \in [Proc -> [todo : Seq(Item), strict : BOOLEAN]]
  BY <1>4, <1>5 DEF Move, Threads
<1>7. /\ out'[p] = IF s = <<>> THEN Quiet ELSE [todo |-> s, strict |-> b]
      /\ \A q \in Proc \ {p} : out'[q] = out[q]
  BY DEF Move, Threads
<1>8. \A q \in Proc : out'[q] # Quiet => out'[q].todo # <<>>
  BY <1>7 DEF Threads
<1>9. p \in Canceller => target[p] # {}
  BY DEF Threads
<1>10. \A c \in Canceller : pc'[c] # "idle" \/ out'[c] # Quiet => target'[c] # {}
  BY <1>2, <1>7, <1>9 DEF Move, Threads, Proc
<1>11. \A t \in Turn : pc'[t] \in Over => out'[t] = Quiet
  BY <1>2, <1>7 DEF Threads, Proc
<1>12. target' \in [Canceller -> {{}} \cup {{t} : t \in Turn}]
  BY DEF Threads, Move
<1> QED
  BY <1>3, <1>6, <1>8, <1>10, <1>11, <1>12 DEF Threads

(* A move keeps everything the threads rely on.                             *)
LEMMA MoveFlow ==
    ASSUME Flow, NEW p \in Proc, NEW l, NEW s, NEW b \in BOOLEAN, Move(p, l, s, b),
           pc[p] \notin Over \cup {"idle"}, Routes(p, l), Texts(p, l, s),
           l \in Over => s = <<>>,
           registry' \in {registry, registry \ {T(p)}},
           p \in Turn /\ l # "done" => registry' = registry,
           p \in Turn /\ l = "done" => p \notin registry',
           reported' \in [Turn -> BOOLEAN], persisted' \in [Turn -> BOOLEAN],
           \A t \in Turn : reported[t] => reported'[t]
    PROVE  Flow'
<1>a. /\ T(p) \in Turn /\ (p \in Turn => T(p) = p)
      /\ (p \notin Turn => p \in Canceller /\ target[p] = {T(p)})
  BY TurnOf DEF Flow
<1>b. \A q : T(q)' = T(q)
  BY DEF T, Move
<1>1. Threads'
  BY MoveThreads DEF Flow, Texts
<1>2. /\ pc'[p] = l /\ \A q \in Proc \ {p} : pc'[q] = pc[q]
      /\ out'[p] = (IF s = <<>> THEN Quiet ELSE [todo |-> s, strict |-> b])
      /\ \A q \in Proc \ {p} : out'[q] = out[q]
      /\ UNCHANGED <<kind, prompt, target, log, published, stopped>>
  BY DEF Move, Flow, Threads
<1>3. Handles'
  <2>1. registry' \subseteq registry
    OBVIOUS
  <2>2. \A t \in Turn : pc'[t] = "new" <=> kind'[t] = "none"
    BY <1>2 DEF Flow, Handles, Routes, Over, Proc
  <2>3. \A t \in registry' : kind'[t] # "none" /\ pc'[t] \notin Over
    <3> SUFFICES ASSUME NEW t \in registry' PROVE kind'[t] # "none" /\ pc'[t] \notin Over
      OBVIOUS
    <3>1. t \in Turn /\ kind[t] # "none" /\ pc[t] \notin Over
      BY <2>1 DEF Flow, Handles
    <3>2. CASE t = p
      BY <1>2, <3>1, <3>2 DEF Routes, Over
    <3>3. CASE t # p
      BY <1>2, <3>1, <3>3 DEF Proc
    <3> QED
      BY <3>2, <3>3
  <2> QED
    BY <1>2, <2>1, <2>2, <2>3 DEF Flow, Handles
<1>4. Routed'
  BY <1>2 DEF Flow, Routed, Routes, Proc
<1>5. Registered'
  <2> SUFFICES ASSUME NEW t \in Turn, pc'[t] \notin Over PROVE t \in registry' \/ t \in stopped
    BY <1>2 DEF Registered
  <2>1. pc[t] \notin Over
    BY <1>2 DEF Proc
  <2>2. t \in registry \/ t \in stopped
    BY <2>1 DEF Flow, Registered
  <2>3. CASE t = p
    BY <1>2, <2>2, <2>3 DEF Over
  <2>4. CASE t # p /\ p \in Turn
    BY <1>a, <2>2, <2>4
  <2>5. CASE p \notin Turn
    <3>1. T(p) \in stopped
      BY <1>a, <2>5 DEF Flow, Handles
    <3> QED
      BY <2>2, <3>1
  <2> QED
    BY <2>3, <2>4, <2>5
<1>6. Reporters'
  <2> SUFFICES ASSUME NEW q \in Proc, pc'[q] \in Reporting
               PROVE  reported'[T(q)] /\ kind[T(q)] # "setup"
    BY <1>b, <1>2 DEF Reporters
  <2>1. CASE q = p
    BY <1>2, <2>1 DEF Routes
  <2>2. CASE q # p
    <3>1. pc[q] \in Reporting
      BY <1>2, <2>2
    <3>2. T(q) \in Turn
      BY <3>1, TurnOf DEF Flow, Reporting
    <3> QED
      BY <3>1, <3>2 DEF Flow, Reporters
  <2> QED
    BY <2>1, <2>2
<1>7. Writers'
  <2> SUFFICES ASSUME NEW q \in Proc, NEW i \in DOMAIN out'[q].todo,
                      out'[q].todo[i].turn # "bus"
               PROVE  /\ out'[q].todo[i].turn = T(q) /\ out'[q].todo[i].prompt = prompt[T(q)]
                      /\ kind[T(q)] \notin {"none", "setup"}
                      /\ out'[q].todo[i].ev \in {"started", "user"} =>
                            reported'[T(q)] \/ (q \in Turn /\ pc'[q] = "round")
    BY <1>b, <1>2 DEF Writers
  <2>1. CASE q = p
    <3>1. DOMAIN Quiet.todo = {}
      BY DEF Quiet
    <3>2. out'[p].todo = s
      BY <1>2, <2>1, <3>1
    <3> QED
      BY <1>2, <2>1, <3>2 DEF Texts
  <2>2. CASE q # p
    <3>1. out'[q] = out[q] /\ pc'[q] = pc[q]
      BY <1>2, <2>2
    <3>2. out[q] # Quiet
      BY <3>1 DEF Quiet
    <3>3. T(q) \in Turn
      BY <3>2, TurnOf DEF Flow
    <3> QED
      BY <3>1, <3>3 DEF Flow, Writers
  <2> QED
    BY <2>1, <2>2
<1>8. Transcript'
  BY <1>2 DEF Flow, Transcript
<1> QED
  BY <1>1, <1>3, <1>4, <1>5, <1>6, <1>7, <1>8 DEF Flow

-----------------------------------------------------------------------------
(* The steps of the threads, as far as the flow goes: from where to where,  *)
(* with what to write, and which flags of the handle they set.              *)

Kept == UNCHANGED <<registry, reported, persisted>>

(* The agent loop, and a command with its prompts.                          *)
Loops(t, l) ==
    \/ kind[t] = "agent" /\ pc[t] \in Agent \ {"ok", "take", "err"} /\ l \in Agent \ {"take"}
    \/ kind[t] # "agent" /\ pc[t] \in {"command"} \cup Prompting
                         /\ l \in {"command"} \cup Prompting

(* The two entries of a prompt, for the first that gets there.              *)
Prompts(t) == IF persisted[t] THEN <<>> ELSE <<Note(t, "started"), Note(t, "user")>>

(* The worker's way, up to finish_turn.                                     *)
WorkerMove(t, l, s) ==
    \/ Loops(t, l) /\ s = <<>> /\ Kept
    \/ /\ pc[t] = "setup" /\ s = <<>> /\ Kept
       /\ l \in IF kind[t] = "agent" THEN {"prepared", "report"} ELSE {"command"}
    \/ /\ pc[t] = "prepared" /\ l = "round" /\ s = Prompts(t)
       /\ persisted' = [persisted EXCEPT ![t] = TRUE] /\ UNCHANGED <<registry, reported>>
    \/ pc[t] \in {"setup", "prepared"} /\ l = "finish" /\ s = <<Say("error")>> /\ Kept
    \/ pc[t] = "ok" /\ l = (IF reported[t] THEN "finish" ELSE "take") /\ s = <<>> /\ Kept
    \/ /\ pc[t] = "take" /\ l = "complete" /\ Kept
       /\ s \in {<<Note(t, "finished"), Say("complete")>>,
                 <<Note(t, "assistant"), Note(t, "finished"), Say("complete")>>}
    \/ /\ pc[t] = "err" /\ l = "finish" /\ Kept
       /\ s = IF reported[t] THEN <<>>
              ELSE <<Note(t, "failed"), Note(t, "finished"), Say("error")>>
    \/ pc[t] = "command" /\ l = "complete" /\ s = <<Say("complete")>> /\ Kept
    \/ pc[t] = "command" /\ l = "finish" /\ s = <<Say("error")>> /\ Kept
    \/ pc[t] = "command" /\ l = "finish" /\ s = <<>> /\ reported[t] /\ Kept

(* finish_turn and report_cancelled_turn, for a worker or a canceller.      *)
SharedMove(p, l, s) ==
    \/ /\ pc[p] \in {"finish", "complete"} /\ s = <<>> /\ Kept
       /\ l = IF T(p) \in registry THEN "drain" ELSE AfterFinish(p)
    \/ pc[p] = "drain" /\ l = "stop" /\ s = <<>> /\ Kept
    \/ pc[p] = "stop" /\ l = "remove" /\ s = <<>> /\ Kept
    \/ /\ pc[p] = "remove" /\ l = AfterFinish(p) /\ s = <<>>
       /\ registry' = registry \ {T(p)} /\ UNCHANGED <<reported, persisted>>
    \/ /\ pc[p] = "report" /\ reported' = [reported EXCEPT ![T(p)] = TRUE]
       /\ \/ reported[T(p)] /\ l = AfterReport(p) /\ s = <<>>
          \/ /\ ~reported[T(p)] /\ kind[T(p)] = "setup"
             /\ l = AfterReport(p) /\ s = <<Say("cancelled")>>
          \/ ~reported[T(p)] /\ kind[T(p)] # "setup" /\ l = "prompt" /\ s = <<>>
       /\ UNCHANGED <<registry, persisted>>
    \/ /\ pc[p] = "prompt" /\ l = "rest" /\ s = Prompts(T(p))
       /\ persisted' = [persisted EXCEPT ![T(p)] = TRUE] /\ UNCHANGED <<registry, reported>>
    \/ /\ pc[p] = "rest" /\ l = AfterReport(p) /\ Kept
       /\ s \in {<<Note(T(p), "interrupted"), Note(T(p), "finished"), Say("cancelled")>>,
                 <<Note(T(p), "assistant"), Note(T(p), "interrupted"),
                   Note(T(p), "finished"), Say("cancelled")>>}

Moves(p, l, s) ==
    /\ \E b \in BOOLEAN : Move(p, l, s, b)
    /\ (p \in Turn /\ WorkerMove(p, l, s)) \/ SharedMove(p, l, s)

(* The actions that move a thread.                                          *)
Moving(p) ==
    \/ p \in Turn /\ Worker(p)
    \/ Finish(p) \/ Drain(p) \/ StopTasks(p) \/ Remove(p)
    \/ Report(p) \/ ReportPrompt(p) \/ ReportRest(p)

(* A thread that goes on without anything to write.                         *)
LEMMA Silent ==
    ASSUME Threads, NEW p \in Proc, NEW l, out[p] = Quiet, pc' = [pc EXCEPT ![p] = l],
           UNCHANGED <<out, kind, prompt, target, log, published, stopped, recoverVars, retry>>
    PROVE  Move(p, l, <<>>, FALSE)
BY DEF Move, Threads

(* And one that stays where it is.                                          *)
LEMMA Stays ==
    ASSUME Threads, NEW p \in Proc, NEW l, At(p, l),
           UNCHANGED <<pc, out, kind, prompt, target, log, published, stopped, recoverVars, retry>>
    PROVE  Move(p, l, <<>>, FALSE)
BY Silent DEF At, Threads

(* A sequence with one more item in front.                                  *)
LEMMA Cons ==
    ASSUME NEW S, NEW a \in S, NEW u \in Seq(S)
    PROVE  /\ <<a>> \o u \in Seq(S) /\ Len(<<a>> \o u) = Len(u) + 1
           /\ (<<a>> \o u)[1] = a
           /\ \A i \in 1..Len(u) : (<<a>> \o u)[i + 1] = u[i]
<1> DEFINE s == <<a>>
<1>1. s \in Seq(S) /\ Len(s) = 1 /\ s[1] = a
  OBVIOUS
<1> HIDE DEF s
<1>2. /\ s \o u \in Seq(S)
      /\ Len(s \o u) = Len(s) + Len(u)
      /\ \A i \in 1 .. Len(s) + Len(u) : (s \o u)[i] = IF i <= Len(s) THEN s[i] ELSE u[i - Len(s)]
  BY <1>1, ConcatProperties, Zenon
<1>3. Len(u) \in Nat
  OBVIOUS
<1>4. Len(s \o u) = Len(u) + 1
  BY <1>1, <1>2, <1>3
<1>5. (s \o u)[1] = a
  BY <1>1, <1>2, <1>3
<1>6. \A i \in 1..Len(u) : (s \o u)[i + 1] = u[i]
  BY <1>1, <1>2, <1>3
<1> QED
  BY <1>2, <1>4, <1>5, <1>6 DEF s

(* The literal sequences the handlers build.                                *)
LEMMA Cons2 ==
    ASSUME NEW a, NEW b, NEW c
    PROVE  <<a>> \o <<b, c>> = <<a, b, c>>
<1> DEFINE S == {a, b, c}
           u == <<b, c>>
           v == <<a, b, c>>
           w == <<a>> \o u
<1>1. a \in S /\ u \in Seq(S) /\ v \in Seq(S)
  OBVIOUS
<1>2. Len(u) = 2 /\ Len(v) = 3
  OBVIOUS
<1>3. u[1] = b /\ u[2] = c /\ v[1] = a /\ v[2] = b /\ v[3] = c
  OBVIOUS
<1> HIDE DEF u, v, S
<1>4. w \in Seq(S) /\ Len(w) = Len(u) + 1 /\ w[1] = a /\ \A i \in 1..Len(u) : w[i + 1] = u[i]
  BY <1>1, Cons
<1> HIDE DEF w
<1>5. w \in Seq(S) /\ Len(w) = 3 /\ w[1] = v[1] /\ w[2] = v[2] /\ w[3] = v[3]
  BY <1>2, <1>3, <1>4
<1>6. \A i \in 1..3 : w[i] = v[i]
  BY <1>5
<1>7. w = v
  BY <1>1, <1>2, <1>5, <1>6, SeqEqual
<1> QED
  BY <1>7 DEF w, u, v

(* The same for one item more.                                              *)
LEMMA Cons3 ==
    ASSUME NEW a, NEW b, NEW c, NEW d
    PROVE  <<a>> \o <<b, c, d>> = <<a, b, c, d>>
<1> DEFINE S == {a, b, c, d}
           u == <<b, c, d>>
           v == <<a, b, c, d>>
           w == <<a>> \o u
<1>1. a \in S /\ u \in Seq(S) /\ v \in Seq(S)
  OBVIOUS
<1>2. Len(u) = 3 /\ Len(v) = 4
  OBVIOUS
<1>3. u[1] = b /\ u[2] = c /\ u[3] = d /\ v[1] = a /\ v[2] = b /\ v[3] = c /\ v[4] = d
  OBVIOUS
<1> HIDE DEF u, v, S
<1>4. w \in Seq(S) /\ Len(w) = Len(u) + 1 /\ w[1] = a /\ \A i \in 1..Len(u) : w[i + 1] = u[i]
  BY <1>1, Cons
<1> HIDE DEF w
<1>5. w \in Seq(S) /\ Len(w) = 4 /\ w[1] = v[1] /\ w[2] = v[2] /\ w[3] = v[3] /\ w[4] = v[4]
  BY <1>2, <1>3, <1>4
<1>6. \A i \in 1..4 : w[i] = v[i]
  BY <1>5
<1>7. w = v
  BY <1>1, <1>2, <1>5, <1>6, SeqEqual
<1> QED
  BY <1>7 DEF w, u, v

(* The worker in its agent loop, or waiting for an answer.                  *)
LEMMA LoopMoves ==
    ASSUME Flow, NEW t \in Turn,
           \/ Round(t) \/ Stream(t) \/ Returned(t) \/ Tool(t) \/ Dispatch(t)
           \/ Permit(t) \/ Permitted(t) \/ Joined(t)
           \/ \E x \in Task, d \in BOOLEAN : ThreadLaunches(t, x, d)
           \/ Ask(t) \/ OpenPrompt(t) \/ Answered(t) \/ TimedOut(t) \/ Withdraw(t)
           \/ PlainTool(t) \/ SendOutbound(t)
           \/ \E x \in Task, d \in BOOLEAN, a \in TaskThread : LaunchTask(t, x, d, a)
           \/ Invoked(t)
    PROVE  \E l : Moves(t, l, <<>>)
<1>1. t \in Proc /\ Threads
  BY DEF Proc, Flow
<1>2. pc[t] \in Agent \ Prompting => kind[t] = "agent"
  BY DEF Flow, Handles, Routed, Agent, Prompting, Ending
<1> DEFINE Same == UNCHANGED <<out, kind, prompt, target, log, published, stopped,
                               recoverVars, retry>>
<1>3. out[t] = Quiet /\ Kept /\ Same
  <2>1. CASE Round(t) \/ Stream(t) \/ Returned(t) \/ Tool(t) \/ Dispatch(t) \/ Permit(t)
    BY <2>1 DEF Round, Stream, Returned, Tool, Dispatch, Permit, OnlyPC, At, turnVars,
                recoverVars, histVars, Kept
  <2>2. CASE \/ Permitted(t) \/ Joined(t)
             \/ \E x \in Task, d \in BOOLEAN : ThreadLaunches(t, x, d)
             \/ \E x \in Task, d \in BOOLEAN, a \in TaskThread : LaunchTask(t, x, d, a)
    BY <2>2 DEF Permitted, Joined, ThreadLaunches, LaunchTask, OnlyPC, At, turnVars,
                recoverVars, histVars, Kept
  <2>3. CASE Ask(t) \/ OpenPrompt(t) \/ Answered(t) \/ TimedOut(t) \/ Withdraw(t)
    BY <2>3 DEF Ask, OpenPrompt, Answered, TimedOut, Withdraw, OnlyPC, OnlyScope, At, turnVars,
                recoverVars, histVars, Kept
  <2>4. CASE PlainTool(t) \/ SendOutbound(t) \/ Invoked(t)
    BY <2>4 DEF PlainTool, SendOutbound, Invoked, At, turnVars, recoverVars, histVars, Kept
  <2> QED
    BY <2>1, <2>2, <2>3, <2>4
<1>4. \E l : (pc' = [pc EXCEPT ![t] = l] \/ (pc[t] = l /\ UNCHANGED pc)) /\ Loops(t, l)
  <2>a. Resume(t, TRUE) \in {"command", "permit", "effect"}
        /\ Resume(t, FALSE) \in {"command", "permit", "invoked"}
        /\ (Resume(t, TRUE) = "command" <=> kind[t] # "agent")
        /\ (Resume(t, FALSE) = "command" <=> kind[t] # "agent")
    BY DEF Resume
  <2>1. CASE Round(t)
    BY <1>2, <2>1 DEF Round, At, Goto, Loops, Agent, Prompting
  <2>2. CASE Stream(t)
    BY <1>2, <2>2 DEF Stream, At, Goto, Loops, Agent, Prompting
  <2>3. CASE Returned(t)
    BY <1>2, <2>3 DEF Returned, At, Goto, Loops, Agent, Prompting
  <2>4. CASE Tool(t)
    <3>1. \E l \in {"invoked", "dispatch", "permit"} : pc' = [pc EXCEPT ![t] = l]
      BY <2>4 DEF Tool, Goto
    <3> QED
      BY <1>2, <2>4, <3>1 DEF Tool, At, Loops, Agent, Prompting
  <2>5. CASE Dispatch(t) \/ Permit(t)
    BY <1>2, <2>5 DEF Dispatch, Permit, At, Goto, Loops, Agent, Prompting
  <2>6. CASE Permitted(t) \/ Joined(t)
    BY <1>2, <2>6 DEF Permitted, Joined, At, Goto, Loops, Agent, Prompting
  <2>7. CASE \/ \E x \in Task, d \in BOOLEAN : ThreadLaunches(t, x, d)
             \/ \E x \in Task, d \in BOOLEAN, a \in TaskThread : LaunchTask(t, x, d, a)
    BY <1>2, <2>7 DEF ThreadLaunches, LaunchTask, At, Goto, Loops, Agent, Prompting
  <2>8. CASE Ask(t)
    <3>1. \/ kind[t] = "agent" /\ pc[t] \in {"dispatch", "permit"}
          \/ kind[t] # "agent" /\ pc[t] = "command"
      BY <1>2, <2>8 DEF Ask, At, Agent, Prompting, Flow, Routed
    <3> QED
      BY <2>a, <2>8, <3>1 DEF Ask, Goto, Loops, Agent, Prompting
  <2>9. CASE OpenPrompt(t) \/ TimedOut(t)
    BY <2>9 DEF OpenPrompt, TimedOut, At, Goto, Loops, Agent, Prompting
  <2>10. CASE Answered(t) \/ Withdraw(t)
    <3>1. pc[t] \in {"waiting", "withdraw"}
          /\ \E a \in BOOLEAN : pc' = [pc EXCEPT ![t] = Resume(t, a)]
      BY <2>10 DEF Answered, Withdraw, At, Goto
    <3> QED
      BY <2>a, <3>1 DEF Loops, Agent, Prompting
  <2>11. CASE PlainTool(t) \/ SendOutbound(t)
    BY <1>2, <2>11 DEF PlainTool, SendOutbound, At, Goto, Loops, Agent, Prompting
  <2>12. CASE Invoked(t)
    BY <1>2, <2>12 DEF Invoked, NextCall, BatchDone, At, Goto, Loops, Agent, Prompting
  <2> QED
    BY <2>1, <2>2, <2>3, <2>4, <2>5, <2>6, <2>7, <2>8, <2>9, <2>10, <2>11, <2>12
<1>5. PICK l : (pc' = [pc EXCEPT ![t] = l] \/ (pc[t] = l /\ UNCHANGED pc)) /\ Loops(t, l)
  BY <1>4
<1>6. Move(t, l, <<>>, FALSE)
  BY <1>1, <1>3, <1>5, Silent, Stays DEF At
<1> QED
  BY <1>3, <1>5, <1>6 DEF Moves, WorkerMove

(* The rest of the worker's way.                                            *)
LEMMA PathMoves ==
    ASSUME Flow, NEW t \in Turn,
           \/ SetupFails(t) \/ Setup(t) \/ PersistPrompt(t) \/ EndOk(t) \/ TakeProgress(t)
           \/ EndErr(t) \/ CommandOk(t) \/ CommandErr(t)
    PROVE  \E l, s : Moves(t, l, s)
<1>1. t \in Proc /\ Threads
  BY DEF Proc, Flow
<1> DEFINE Same == UNCHANGED <<kind, prompt, target, log, published, stopped, recoverVars, retry>>
<1>2. ASSUME NEW l, NEW s, NEW b \in BOOLEAN, out[t] = Quiet, Then(t, l, s, b), Same
      PROVE  Move(t, l, s, b)
  BY <1>2 DEF Then, Goto, Move
<1>3. CASE Setup(t)
  <2>1. out[t] = Quiet /\ pc[t] = "setup" /\ Kept /\ Same /\ UNCHANGED out
    BY <1>3 DEF Setup, At, OnlyPC, turnVars, recoverVars, histVars, Kept
  <2>2. PICK l \in IF kind[t] = "agent" THEN {"prepared", "report"} ELSE {"command"} :
             pc' = [pc EXCEPT ![t] = l]
    BY <1>3 DEF Setup, Goto
  <2> QED
    BY <1>1, <2>1, <2>2, Silent DEF Moves, WorkerMove
<1>4. CASE EndOk(t)
  <2>1. out[t] = Quiet /\ pc[t] = "ok" /\ Kept /\ Same /\ UNCHANGED out
    BY <1>4 DEF EndOk, At, OnlyPC, turnVars, recoverVars, histVars, Kept
  <2>2. pc' = [pc EXCEPT ![t] = IF reported[t] THEN "finish" ELSE "take"]
    BY <1>4 DEF EndOk, Goto
  <2> QED
    BY <1>1, <2>1, <2>2, Silent DEF Moves, WorkerMove
<1>5. CASE SetupFails(t)
  <2>1. out[t] = Quiet /\ pc[t] \in {"setup", "prepared"} /\ Kept /\ Same
        /\ Then(t, "finish", <<Say("error")>>, FALSE)
    BY <1>5 DEF SetupFails, At, OnlyOut, turnVars, recoverVars, histVars, Kept
  <2> QED
    BY <1>2, <2>1 DEF Moves, WorkerMove
<1>6. CASE PersistPrompt(t)
  <2>1. out[t] = Quiet /\ pc[t] = "prepared" /\ Same /\ Then(t, "round", Prompts(t), FALSE)
        /\ persisted' = [persisted EXCEPT ![t] = TRUE] /\ UNCHANGED <<registry, reported>>
    BY <1>6 DEF PersistPrompt, At, Prompts, recoverVars, histVars
  <2> QED
    BY <1>2, <2>1 DEF Moves, WorkerMove
<1>7. CASE TakeProgress(t)
  <2> DEFINE s == (IF items[t] \/ streamed[t] THEN <<Note(t, "assistant")>> ELSE <<>>)
                     \o <<Note(t, "finished"), Say("complete")>>
  <2>1. out[t] = Quiet /\ pc[t] = "take" /\ Kept /\ Same /\ Then(t, "complete", s, FALSE)
    BY <1>7 DEF TakeProgress, At, turnVars, recoverVars, histVars, Kept
  <2>2. s \in {<<Note(t, "finished"), Say("complete")>>,
               <<Note(t, "assistant"), Note(t, "finished"), Say("complete")>>}
    <3>1. <<>> \o <<Note(t, "finished"), Say("complete")>>
            = <<Note(t, "finished"), Say("complete")>>
      OBVIOUS
    <3>2. <<Note(t, "assistant")>> \o <<Note(t, "finished"), Say("complete")>>
            = <<Note(t, "assistant"), Note(t, "finished"), Say("complete")>>
      BY Cons2
    <3> QED
      BY <3>1, <3>2, Zenon
  <2> HIDE DEF s
  <2> QED
    BY <1>2, <2>1, <2>2 DEF Moves, WorkerMove
<1>8. CASE EndErr(t)
  <2>1. out[t] = Quiet /\ pc[t] = "err" /\ Kept /\ Same
        /\ Then(t, "finish", IF reported[t] THEN <<>>
                   ELSE <<Note(t, "failed"), Note(t, "finished"), Say("error")>>, FALSE)
    BY <1>8 DEF EndErr, At, OnlyOut, turnVars, recoverVars, histVars, Kept
  <2> QED
    BY <1>2, <2>1 DEF Moves, WorkerMove
<1>9. CASE CommandOk(t)
  <2>1. out[t] = Quiet /\ pc[t] = "command" /\ Kept /\ Same
        /\ Then(t, "complete", <<Say("complete")>>, FALSE)
    BY <1>9 DEF CommandOk, At, OnlyOut, turnVars, recoverVars, histVars, Kept
  <2> QED
    BY <1>2, <2>1 DEF Moves, WorkerMove
<1>10. CASE CommandErr(t)
  <2>1. out[t] = Quiet /\ pc[t] = "command" /\ Kept /\ Same
        /\ \/ Then(t, "finish", <<>>, FALSE) /\ reported[t]
           \/ Then(t, "finish", <<Say("error")>>, FALSE)
    BY <1>10 DEF CommandErr, At, OnlyOut, turnVars, recoverVars, histVars, Kept
  <2> QED
    BY <1>2, <2>1 DEF Moves, WorkerMove
<1> QED
  BY <1>3, <1>4, <1>5, <1>6, <1>7, <1>8, <1>9, <1>10

(* finish_turn and report_cancelled_turn.                                   *)
LEMMA EndMoves ==
    ASSUME Flow, NEW p \in Proc,
           \/ Finish(p) \/ Drain(p) \/ StopTasks(p) \/ Remove(p)
           \/ Report(p) \/ ReportPrompt(p) \/ ReportRest(p)
    PROVE  \E l, s : Moves(p, l, s)
<1>1. Threads
  BY DEF Flow
<1> DEFINE Same == UNCHANGED <<kind, prompt, target, log, published, stopped, recoverVars, retry>>
<1>2. ASSUME NEW l, NEW s, NEW b \in BOOLEAN, out[p] = Quiet, Then(p, l, s, b), Same
      PROVE  Move(p, l, s, b)
  BY <1>2 DEF Then, Goto, Move
<1>3. CASE Finish(p)
  <2>1. out[p] = Quiet /\ pc[p] \in {"finish", "complete"} /\ Kept /\ Same /\ UNCHANGED out
    BY <1>3 DEF Finish, At, OnlyScope, turnVars, recoverVars, histVars, Kept
  <2>2. pc' = [pc EXCEPT ![p] = IF T(p) \in registry THEN "drain" ELSE AfterFinish(p)]
    BY <1>3 DEF Finish, Goto
  <2> QED
    BY <1>1, <2>1, <2>2, Silent DEF Moves, SharedMove
<1>4. CASE Drain(p)
  <2>1. out[p] = Quiet /\ pc[p] = "drain" /\ Kept /\ Same /\ UNCHANGED out
        /\ pc' = [pc EXCEPT ![p] = "stop"]
    BY <1>4 DEF Drain, At, Goto, OnlyScope, turnVars, recoverVars, histVars, Kept
  <2> QED
    BY <1>1, <2>1, Silent DEF Moves, SharedMove
<1>5. CASE StopTasks(p)
  <2>1. out[p] = Quiet /\ pc[p] = "stop" /\ Kept /\ Same /\ UNCHANGED out
        /\ pc' = [pc EXCEPT ![p] = "remove"]
    BY <1>5 DEF StopTasks, At, Goto, turnVars, recoverVars, histVars, Kept
  <2> QED
    BY <1>1, <2>1, Silent DEF Moves, SharedMove
<1>6. CASE Remove(p)
  <2>1. out[p] = Quiet /\ pc[p] = "remove" /\ Same /\ UNCHANGED out
        /\ pc' = [pc EXCEPT ![p] = AfterFinish(p)]
        /\ registry' = registry \ {T(p)} /\ UNCHANGED <<reported, persisted>>
    BY <1>6 DEF Remove, At, Goto, recoverVars, histVars
  <2> QED
    BY <1>1, <2>1, Silent DEF Moves, SharedMove
<1>7. CASE Report(p)
  <2>1. out[p] = Quiet /\ pc[p] = "report" /\ Same
        /\ reported' = [reported EXCEPT ![T(p)] = TRUE] /\ UNCHANGED <<registry, persisted>>
    BY <1>7 DEF Report, At, recoverVars, histVars
  <2>2. \/ reported[T(p)] /\ Then(p, AfterReport(p), <<>>, TRUE)
        \/ /\ ~reported[T(p)] /\ kind[T(p)] = "setup"
           /\ Then(p, AfterReport(p), <<Say("cancelled")>>, TRUE)
        \/ ~reported[T(p)] /\ kind[T(p)] # "setup" /\ Then(p, "prompt", <<>>, TRUE)
    BY <1>7 DEF Report
  <2> QED
    BY <1>2, <2>1, <2>2 DEF Moves, SharedMove
<1>8. CASE ReportPrompt(p)
  <2>1. out[p] = Quiet /\ pc[p] = "prompt" /\ Same /\ Then(p, "rest", Prompts(T(p)), TRUE)
        /\ persisted' = [persisted EXCEPT ![T(p)] = TRUE] /\ UNCHANGED <<registry, reported>>
    BY <1>8 DEF ReportPrompt, At, Prompts, recoverVars, histVars
  <2> QED
    BY <1>2, <2>1 DEF Moves, SharedMove
<1>9. CASE ReportRest(p)
  <2> DEFINE t == T(p)
             s == (IF ~saved[t] /\ items[t] THEN <<Note(t, "assistant")>> ELSE <<>>)
                    \o <<Note(t, "interrupted"), Note(t, "finished"), Say("cancelled")>>
  <2>1. out[p] = Quiet /\ pc[p] = "rest" /\ Kept /\ Same /\ Then(p, AfterReport(p), s, TRUE)
    BY <1>9 DEF ReportRest, At, turnVars, recoverVars, histVars, Kept
  <2>2. s \in {<<Note(T(p), "interrupted"), Note(T(p), "finished"), Say("cancelled")>>,
               <<Note(T(p), "assistant"), Note(T(p), "interrupted"),
                 Note(T(p), "finished"), Say("cancelled")>>}
    <3> DEFINE u == <<Note(T(p), "interrupted"), Note(T(p), "finished"), Say("cancelled")>>
    <3>1. <<>> \o u = u
      OBVIOUS
    <3>2. <<Note(T(p), "assistant")>> \o u
            = <<Note(T(p), "assistant"), Note(T(p), "interrupted"), Note(T(p), "finished"),
                Say("cancelled")>>
      BY Cons3
    <3> QED
      BY <3>1, <3>2, Zenon
  <2> HIDE DEF s
  <2> QED
    BY <1>2, <2>1, <2>2 DEF Moves, SharedMove
<1> QED
  BY <1>3, <1>4, <1>5, <1>6, <1>7, <1>8, <1>9

(* Every action of a thread is one of the moves.                            *)
LEMMA MovingMoves ==
    ASSUME Flow, NEW p \in Proc, Moving(p)
    PROVE  \E l, s : Moves(p, l, s)
BY LoopMoves, PathMoves, EndMoves DEF Moving, Worker

(* What a handler can give its thread to write.                             *)
LEMMA Lines ==
    ASSUME NEW t \in Turn, prompt \in [Turn -> Prompt]
    PROVE  /\ \A o \in Outcome : Say(o) \in Item /\ Say(o).turn = "bus"
           /\ \A e \in {"started", "user", "assistant", "interrupted", "failed", "finished"} :
                /\ Note(t, e) \in Item /\ Note(t, e).turn = t /\ Note(t, e).ev = e
                /\ Note(t, e).prompt = prompt[t] /\ Note(t, e).turn # "bus"
<1>1. \A o \in Outcome : Say(o) \in Item
  BY DEF Item, Says
<1>2. \A o \in Outcome : Say(o).turn = "bus"
  BY DEF Say
<1>3. ASSUME NEW e \in {"started", "user", "assistant", "interrupted", "failed", "finished"}
      PROVE  /\ Note(t, e) \in Item /\ Note(t, e).turn = t /\ Note(t, e).ev = e
             /\ Note(t, e).prompt = prompt[t] /\ Note(t, e).turn # "bus"
  BY TurnAssumption DEF Item, Notes, Note
<1> QED
  BY <1>1, <1>2, <1>3

(* Every move of a thread keeps the flow.                                   *)
LEMMA FlowMoves ==
    ASSUME Flow, NEW p \in Proc, NEW l, NEW s, Moves(p, l, s)
    PROVE  Flow'
<1> DEFINE u == T(p)
<1>1. PICK b \in BOOLEAN : Move(p, l, s, b)
  BY DEF Moves
<1>2. pc[p] \notin Over \cup {"idle"}
  BY DEF Moves, WorkerMove, SharedMove, Loops, Agent, Prompting, Over
<1>3. /\ u \in Turn /\ (p \in Turn => u = p)
      /\ (p \notin Turn => p \in Canceller /\ target[p] = {u})
  BY <1>2, TurnOf DEF Flow
<1>4. kind[u] # "none"
  BY <1>2, <1>3 DEF Flow, Handles, Over
<1>5. /\ \A o \in Outcome : Say(o) \in Item /\ Say(o).turn = "bus"
      /\ \A e \in {"started", "user", "assistant", "interrupted", "failed", "finished"} :
           /\ Note(u, e) \in Item /\ Note(u, e).turn = u /\ Note(u, e).ev = e
           /\ Note(u, e).prompt = prompt[u] /\ Note(u, e).turn # "bus"
  BY <1>3, Lines DEF Flow, Handles
<1> HIDE DEF u
<1>6. p \in Turn /\ pc[p] \in Agent \cup {"prepared", "report"} \cup Reporting
        => kind[p] = "agent" \/ pc[p] \in Prompting
  BY <1>4, <1>3 DEF Flow, Routed, Agent, Reporting, Prompting, Ending
<1>7. /\ reported' \in [Turn -> BOOLEAN] /\ persisted' \in [Turn -> BOOLEAN]
      /\ \A t \in Turn : reported[t] => reported'[t]
      /\ registry' \in {registry, registry \ {u}}
  BY DEF u, Moves, WorkerMove, SharedMove, Kept, Flow, Handles
<1>8. Routes(p, l)
  <2>a. p \in Turn => p \notin Canceller
    BY ProcAssumption
  <2>1. CASE p \in Turn /\ Loops(p, l)
    <3>1. l \notin Reporting /\ l \in WorkerLabel \ {"new", "lost"} /\ (l = "command" => kind[p] # "agent")
      BY <2>1 DEF Loops, Agent, Prompting, Reporting, WorkerLabel
    <3>2. kind[p] # "agent" => l \in {"command", "register", "waiting", "withdraw"}
      BY <2>1 DEF Loops, Prompting
    <3> QED
      BY <2>a, <2>1, <3>1, <3>2 DEF Routes
  <2>2. CASE p \in Turn /\ WorkerMove(p, l, s) /\ ~Loops(p, l)
    <3>1. /\ l \in {"command", "prepared", "report", "round", "finish", "take", "complete"}
          /\ l = "command" => kind[p] # "agent"
          /\ l \in {"prepared", "report", "round", "take"} => kind[p] = "agent"
      BY <1>6, <2>2 DEF WorkerMove, Agent, Prompting
    <3> QED
      BY <2>a, <2>2, <3>1 DEF Routes, WorkerLabel, Reporting, Ending
  <2>3. CASE SharedMove(p, l, s)
    <3>1. /\ l \in {"drain", "stop", "remove", "prompt", "rest", AfterFinish(p), AfterReport(p)}
          /\ l \in Reporting => pc[p] \in {"report"} \cup Reporting
      BY <2>3 DEF SharedMove, Reporting, AfterFinish, AfterReport
    <3>2. AfterFinish(p) = (IF p \in Turn THEN "done" ELSE "report")
          /\ AfterReport(p) = (IF p \in Turn THEN "finish" ELSE "idle")
      BY DEF AfterFinish, AfterReport
    <3>3. l \in Reporting => reported'[u] /\ kind[u] # "setup"
      <4>1. l \in Reporting => pc[p] \in {"report", "prompt"}
        BY <2>3, <3>2 DEF SharedMove, Reporting
      <4>2. CASE l \in Reporting /\ pc[p] = "report"
        BY <1>3, <2>3, <3>2, <4>2 DEF SharedMove, Reporting, Flow, Handles, u
      <4>3. CASE l \in Reporting /\ pc[p] = "prompt"
        BY <1>7, <1>3, <4>3 DEF Reporting, Flow, Reporters, u
      <4> QED
        BY <4>1, <4>2, <4>3
    <3>4. p \in Turn /\ kind[p] # "agent" => l \notin Reporting
      BY <1>6, <3>1 DEF Reporting, Prompting
    <3> QED
      BY <2>a, <3>1, <3>2, <3>3, <3>4 DEF Routes, WorkerLabel, CancellerLabel, Reporting, Ending, Proc, u
  <2> QED
    BY <2>1, <2>2, <2>3 DEF Moves
<1>9. Texts(p, l, s)
  <2>a. p \in Turn /\ WorkerMove(p, l, s) /\ pc[p] \in {"prepared", "take", "err"}
          => kind[u] \notin {"none", "setup"}
    BY <1>3, <1>6 DEF Agent, Prompting
  <2>b. pc[p] \in Reporting => kind[u] \notin {"none", "setup"} /\ reported'[u]
    BY <1>3, <1>4, <1>7 DEF Flow, Reporters, u
  <2>1. CASE s = <<>>
    BY <2>1, EmptySeq DEF Texts
  <2>2. CASE \E o \in Outcome : s = <<Say(o)>>
    BY <1>5, <2>2 DEF Texts
  <2>3. CASE /\ s = <<Note(u, "started"), Note(u, "user")>>
             /\ kind[u] \notin {"none", "setup"}
             /\ reported'[u] \/ (p \in Turn /\ l = "round")
    BY <1>5, <2>3 DEF Texts, u
  <2>4. CASE /\ \E e, f \in {"assistant", "interrupted", "failed", "finished"}, o \in Outcome :
                   s \in {<<Note(u, e), Say(o)>>, <<Note(u, e), Note(u, f), Say(o)>>}
             /\ kind[u] \notin {"none", "setup"}
    <3>1. PICK e \in {"assistant", "interrupted", "failed", "finished"},
               f \in {"assistant", "interrupted", "failed", "finished"}, o \in Outcome :
                   s \in {<<Note(u, e), Say(o)>>, <<Note(u, e), Note(u, f), Say(o)>>}
      BY <2>4
    <3>2. CASE s = <<Note(u, e), Say(o)>>
      BY <1>5, <2>4, <3>2 DEF Texts, u
    <3>3. CASE s = <<Note(u, e), Note(u, f), Say(o)>>
      BY <1>5, <2>4, <3>3 DEF Texts, u
    <3> QED
      BY <3>1, <3>2, <3>3
  <2>5. CASE /\ s = <<Note(u, "assistant"), Note(u, "interrupted"), Note(u, "finished"), Say("cancelled")>>
             /\ kind[u] \notin {"none", "setup"}
    BY <1>5, <2>5 DEF Texts, Outcome, u
  <2>6. CASE p \in Turn /\ WorkerMove(p, l, s)
    BY <1>3, <2>1, <2>2, <2>3, <2>4, <2>6, <2>a DEF WorkerMove, Prompts, Outcome
  <2>7. CASE SharedMove(p, l, s)
    BY <1>3, <2>1, <2>2, <2>3, <2>4, <2>5, <2>7, <2>b DEF SharedMove, Prompts, Outcome, Reporting, u
  <2> QED
    BY <2>6, <2>7 DEF Moves
<1>10. /\ l \in Over => s = <<>>
       /\ p \in Turn /\ l # "done" => registry' = registry
       /\ p \in Turn /\ l = "done" => p \notin registry'
  <2>1. CASE p \in Turn /\ WorkerMove(p, l, s)
    BY <2>1 DEF WorkerMove, Loops, Agent, Prompting, Kept, Over
  <2>2. CASE SharedMove(p, l, s)
    BY <1>3, <2>2 DEF SharedMove, AfterFinish, AfterReport, Kept, Over, u
  <2> QED
    BY <2>1, <2>2 DEF Moves
<1> QED
  BY <1>1, <1>2, <1>7, <1>8, <1>9, <1>10, MoveFlow DEF u

-----------------------------------------------------------------------------
(* The other steps.                                                         *)

Still == UNCHANGED <<registry, kind, prompt, pc, out, target, reported, persisted, log,
                     fails, crashes, published, retry, stopped>>

(* A turn starts, or fails before it has a worker.                          *)
Begins(t, l) ==
    /\ kind[t] = "none"
    /\ \E k \in {"agent", "slash", "setup"} : kind' = [kind EXCEPT ![t] = k]
    /\ \E m \in Prompt : prompt' = [prompt EXCEPT ![t] = m]
    /\ pc' = [pc EXCEPT ![t] = l]
    /\ \/ l = "setup" /\ registry' = registry \cup {t} /\ UNCHANGED published
       \/ /\ l = "done" /\ UNCHANGED registry
          /\ published' = [published EXCEPT ![t] = {"error"}]
    /\ UNCHANGED <<out, target, reported, persisted, log, fails, crashes, stopped>>

(* A recovery leaves its mark in the transcript.                            *)
Marks ==
    /\ \E m \in Prompt, e \in {"retry", "exhausted"} : log' = Append(log, Marker(e, m))
    /\ UNCHANGED <<registry, kind, prompt, pc, out, target, reported, persisted, fails,
                   crashes, published, retry, stopped>>

(* The prompt a recovery is about.                                          *)
Recoveries ==
    /\ recover \in [Recoverer -> [at : {"idle", "retry", "already_retried", "start"},
                                  prompt : SUBSET Prompt]]
    /\ \A r \in Recoverer : recover[r].at # "idle" => \E m \in Prompt : recover[r].prompt = {m}
    /\ retry \subseteq {t \in Turn : kind[t] # "none"}

(* Every step is one of these.                                              *)
LEMMA StepKinds ==
    ASSUME Recoveries, [Next]_vars
    PROVE  \/ \E p \in Proc : Moving(p) \/ Write(p) \/ WriteFails(p)
           \/ \E t \in Turn, l \in {"setup", "done"} : Begins(t, l)
           \/ \E c \in Canceller, t \in Turn : CancelTurn(c, t)
           \/ Marks \/ Crash \/ Still
<1> DEFINE Goal == \/ \E p \in Proc : Moving(p) \/ Write(p) \/ WriteFails(p)
                   \/ \E t \in Turn, l \in {"setup", "done"} : Begins(t, l)
                   \/ \E c \in Canceller, t \in Turn : CancelTurn(c, t)
                   \/ Marks \/ Crash \/ Still
<1>1. CASE UNCHANGED vars
  BY <1>1 DEF vars, turnVars, recoverVars, histVars, Still
<1>2. CASE \E t \in Turn : Worker(t)
  BY <1>2 DEF Moving, Proc
<1>3. CASE \E p \in Proc : Shared(p)
  BY <1>3 DEF Shared, Moving
<1>4. CASE Client
  <2>1. ASSUME NEW t \in Turn, NEW k \in Kinds, NEW m \in Prompt, StartTurn(t, k, m)
        PROVE  Begins(t, "setup")
    BY <2>1, KindsAssumption DEF StartTurn, NewTurn, Register, Goto, Begins, recoverVars, histVars
  <2>2. ASSUME NEW t \in Turn, NEW m \in Prompt, StagingFails(t, m)
        PROVE  Begins(t, "done")
    BY <2>2 DEF StagingFails, NewTurn, Goto, Begins, recoverVars
  <2>3. ASSUME NEW t \in Turn, NEW r \in Request, ResolveCheck(t, r)
        PROVE  Still
    BY <2>3 DEF ResolveCheck, Still, turnVars, recoverVars, histVars
  <2>4. ASSUME NEW t \in Turn, NEW r \in Request, NEW a \in {"allow", "deny"}, ResolveSend(t, r, a)
        PROVE  Still
    BY <2>4 DEF ResolveSend, Still, turnVars, recoverVars
  <2> QED
    BY <1>4, <2>1, <2>2, <2>3, <2>4 DEF Client
<1>5. CASE Beside
  BY <1>5, BesideStep DEF Still, turnVars, recoverVars
<1>6. CASE \E c \in Recoverer : Recovery(c)
  <2>1. PICK c \in Recoverer : Recovery(c)
    BY <1>6
  <2>2. CASE RecoverLoad(c)
    BY <2>2 DEF RecoverLoad, Still, turnVars, histVars
  <2>3. CASE RecoverMark(c) \/ RecoverExhausted(c)
    <3>1. recover[c].prompt \subseteq Prompt
      BY DEF Recoveries
    <3> QED
      BY <2>3, <3>1 DEF RecoverMark, RecoverExhausted, Marks, turnVars, histVars
  <2>4. ASSUME NEW t \in Turn, RecoverStart(c, t)
        PROVE  Begins(t, "setup") \/ Still
    <3>1. recover[c].prompt \subseteq Prompt
      BY DEF Recoveries
    <3>2. CASE Free("agent")
      BY <2>4, <3>1, <3>2 DEF RecoverStart, NewTurn, Register, Goto, Begins
    <3>3. CASE ~Free("agent")
      BY <2>4, <3>3 DEF RecoverStart, Still
    <3> QED
      BY <3>2, <3>3
  <2> QED
    BY <2>1, <2>2, <2>3, <2>4 DEF Recovery
<1>7. CASE AtRest
  BY <1>1, <1>7 DEF AtRest
<1> QED
  BY <1>1, <1>2, <1>3, <1>4, <1>5, <1>6, <1>7 DEF Next, Beside

(* What a thread has left to write after its first item.                    *)
LEMMA RestOf ==
    ASSUME Threads, NEW p \in Proc, out[p] # Quiet
    PROVE  /\ out[p].todo \in Seq(Item) /\ 1 \in DOMAIN out[p].todo
           /\ Head(out[p].todo) = out[p].todo[1] /\ out[p].todo[1] \in Item
           /\ Rest(p) \in [todo : Seq(Item), strict : BOOLEAN]
           /\ Rest(p) # Quiet => Rest(p).todo # <<>>
           /\ \A i \in DOMAIN Rest(p).todo :
                i \in Nat /\ i + 1 \in DOMAIN out[p].todo /\ Rest(p).todo[i] = out[p].todo[i + 1]
           /\ \A i \in DOMAIN out[p].todo \ {1} :
                i \in Nat /\ i - 1 \in DOMAIN Rest(p).todo /\ Rest(p).todo[i - 1] = out[p].todo[i]
<1> DEFINE s == out[p].todo
<1>1. out[p] \in [todo : Seq(Item), strict : BOOLEAN] /\ s \in Seq(Item) /\ s # <<>>
  BY DEF Threads
<1>2. Len(s) \in Nat /\ Len(s) >= 1 /\ DOMAIN s = 1..Len(s)
  BY <1>1
<1>3. Head(s) = s[1] /\ s[1] \in Item
  BY <1>1, <1>2
<1>4. /\ Tail(s) \in Seq(Item) /\ Len(Tail(s)) = Len(s) - 1
      /\ DOMAIN Tail(s) = 1..(Len(s) - 1)
      /\ \A i \in 1..(Len(s) - 1) : Tail(s)[i] = s[i + 1]
  BY <1>1, <1>2
<1>5. CASE Len(s) = 1
  <2>1. Rest(p) = Quiet
    BY <1>5 DEF Rest
  <2>2. Quiet \in [todo : Seq(Item), strict : BOOLEAN] /\ DOMAIN Quiet.todo = {}
    BY EmptySeq DEF Quiet
  <2> QED
    BY <1>1, <1>2, <1>3, <1>5, <2>1, <2>2
<1>6. CASE Len(s) # 1
  <2>1. Rest(p) = [out[p] EXCEPT !.todo = Tail(s)]
    BY <1>6 DEF Rest
  <2>2. Rest(p) \in [todo : Seq(Item), strict : BOOLEAN] /\ Rest(p).todo = Tail(s)
    BY <1>1, <1>4, <2>1
  <2> HIDE DEF s
  <2>3. Tail(s) # <<>>
    BY <1>2, <1>4, <1>6
  <2>4. \A i \in DOMAIN Tail(s) : i \in Nat /\ i + 1 \in DOMAIN s /\ Tail(s)[i] = s[i + 1]
    BY <1>2, <1>4
  <2>5. \A i \in DOMAIN s \ {1} : i \in Nat /\ i - 1 \in DOMAIN Tail(s) /\ Tail(s)[i - 1] = s[i]
    <3> SUFFICES ASSUME NEW i \in DOMAIN s \ {1}
                 PROVE  i \in Nat /\ i - 1 \in DOMAIN Tail(s) /\ Tail(s)[i - 1] = s[i]
      OBVIOUS
    <3>1. i - 1 \in 1..(Len(s) - 1) /\ (i - 1) + 1 = i /\ i \in Nat
      BY <1>2
    <3> QED
      BY <1>4, <3>1
  <2> QED
    BY <1>1, <1>2, <1>3, <2>2, <2>3, <2>4, <2>5 DEF s
<1> QED
  BY <1>5, <1>6

(* One more entry in the transcript.                                        *)
LEMMA Appended ==
    ASSUME log \in Seq(Entry), NEW e \in Entry
    PROVE  /\ Append(log, e) \in Seq(Entry)
           /\ DOMAIN log = 1..Len(log) /\ Len(log) \in Nat
           /\ DOMAIN Append(log, e) = DOMAIN log \cup {Len(log) + 1}
           /\ Len(Append(log, e)) = Len(log) + 1 /\ Len(log) + 1 \notin DOMAIN log
           /\ Append(log, e)[Len(log) + 1] = e
           /\ \A i \in DOMAIN log : Append(log, e)[i] = log[i]
OBVIOUS

(* A step that touches no thread keeps the flow.                            *)
LEMMA FlowStill ==
    ASSUME Flow, Still
    PROVE  Flow'
<1>1. \A p : T(p)' = T(p)
  BY DEF T, Still
<1> QED
  BY <1>1 DEF Still, Flow, Threads, Handles, Routed, Registered, Reporters, Writers, Transcript

(* A thread writes its next item, or fails to and goes on.                  *)
LEMMA FlowWrite ==
    ASSUME Flow, NEW p \in Proc, out[p] # Quiet, out' = [out EXCEPT ![p] = Rest(p)],
           \/ UNCHANGED log
           \/ Head(out[p].todo).turn # "bus" /\ log' = Append(log, Head(out[p].todo)),
           UNCHANGED <<registry, kind, prompt, pc, target, reported, persisted, stopped>>
    PROVE  Flow'
<1>a. \A q : T(q)' = T(q)
  BY DEF T
<1>b. /\ out[p].todo \in Seq(Item) /\ 1 \in DOMAIN out[p].todo
      /\ Head(out[p].todo) = out[p].todo[1] /\ out[p].todo[1] \in Item
      /\ Rest(p) \in [todo : Seq(Item), strict : BOOLEAN]
      /\ Rest(p) # Quiet => Rest(p).todo # <<>>
      /\ \A i \in DOMAIN Rest(p).todo :
           i \in Nat /\ i + 1 \in DOMAIN out[p].todo /\ Rest(p).todo[i] = out[p].todo[i + 1]
  BY RestOf DEF Flow
<1>c. out'[p] = Rest(p) /\ \A q \in Proc \ {p} : out'[q] = out[q]
  BY DEF Flow, Threads
<1>d. T(p) \in Turn
  BY TurnOf DEF Flow
<1>1. Threads'
  <2>1. out' \in [Proc -> [todo : Seq(Item), strict : BOOLEAN]]
    BY <1>b DEF Flow, Threads
  <2>2. \A q \in Proc : out'[q] # Quiet => out'[q].todo # <<>>
    BY <1>b, <1>c DEF Flow, Threads
  <2>3. \A c \in Canceller : pc'[c] # "idle" \/ out'[c] # Quiet => target'[c] # {}
    BY <1>c DEF Flow, Threads, Proc
  <2>4. \A t \in Turn : pc'[t] \in Over => out'[t] = Quiet
    BY <1>c DEF Flow, Threads, Proc
  <2> QED
    BY <2>1, <2>2, <2>3, <2>4 DEF Flow, Threads
<1>2. Handles' /\ Transcript'
  <2>1. CASE UNCHANGED log
    BY <2>1 DEF Flow, Handles, Transcript
  <2>2. CASE Head(out[p].todo).turn # "bus" /\ log' = Append(log, Head(out[p].todo))
    <3> DEFINE e == Head(out[p].todo)
    <3>1. e \in Item /\ e.turn # "bus" /\ e = out[p].todo[1]
      BY <1>b, <2>2
    <3>2. e \in Entry
      BY <3>1 DEF Item, Notes, Says, Say, Entry
    <3>3. e.turn = T(p) /\ e.prompt = prompt[T(p)] /\ kind[T(p)] \notin {"none", "setup"}
      BY <1>b, <3>1 DEF Flow, Writers
    <3>4. log \in Seq(Entry) /\ log' = Append(log, e)
      BY <2>2 DEF Flow, Handles
    <3> HIDE DEF e
    <3>5. /\ log' \in Seq(Entry) /\ DOMAIN log' = DOMAIN log \cup {Len(log) + 1}
          /\ log'[Len(log) + 1] = e /\ \A i \in DOMAIN log : log'[i] = log[i]
      BY <3>2, <3>4, Appended
    <3>6. Handles'
      BY <3>5 DEF Flow, Handles
    <3>7. Transcript'
      BY <3>3, <3>5 DEF Flow, Transcript
    <3> QED
      BY <3>6, <3>7
  <2> QED
    BY <2>1, <2>2
<1>3. Routed' /\ Registered'
  BY DEF Flow, Routed, Registered
<1>4. Reporters'
  BY <1>a DEF Flow, Reporters
<1>5. Writers'
  <2> SUFFICES ASSUME NEW q \in Proc, NEW i \in DOMAIN out'[q].todo, out'[q].todo[i].turn # "bus"
               PROVE  /\ out'[q].todo[i].turn = T(q) /\ out'[q].todo[i].prompt = prompt[T(q)]
                      /\ kind[T(q)] \notin {"none", "setup"}
                      /\ out'[q].todo[i].ev \in {"started", "user"} =>
                            reported[T(q)] \/ (q \in Turn /\ pc[q] = "round")
    BY <1>a DEF Writers
  <2>1. CASE q = p
    <3>1. i + 1 \in DOMAIN out[p].todo /\ out'[p].todo[i] = out[p].todo[i + 1]
      BY <1>b, <1>c, <2>1
    <3> QED
      BY <2>1, <3>1 DEF Flow, Writers
  <2>2. CASE q # p
    BY <1>c, <2>2 DEF Flow, Writers
  <2> QED
    BY <2>1, <2>2
<1> QED
  BY <1>1, <1>2, <1>3, <1>4, <1>5 DEF Flow

(* A report that cannot be written is given up.                             *)
LEMMA FlowGivesUp ==
    ASSUME Flow, NEW p \in Proc, out[p] # Quiet, out' = [out EXCEPT ![p] = Quiet],
           pc' = [pc EXCEPT ![p] = AfterReport(p)],
           UNCHANGED <<registry, kind, prompt, target, reported, persisted, log, stopped>>
    PROVE  Flow'
<1>a. \A q : T(q)' = T(q)
  BY DEF T
<1>b. /\ out'[p] = Quiet /\ \A q \in Proc \ {p} : out'[q] = out[q]
      /\ pc'[p] = AfterReport(p) /\ \A q \in Proc \ {p} : pc'[q] = pc[q]
  BY DEF Flow, Threads
<1>c. /\ p \in Turn => AfterReport(p) = "finish" /\ pc[p] \notin Over
      /\ p \notin Turn => AfterReport(p) = "idle" /\ p \in Canceller
      /\ p \in Canceller => p \notin Turn
  BY ProcAssumption DEF AfterReport, Flow, Threads, Proc
<1>1. Threads'
  <2>1. Quiet \in [todo : Seq(Item), strict : BOOLEAN]
    BY EmptySeq DEF Quiet
  <2>2. out' \in [Proc -> [todo : Seq(Item), strict : BOOLEAN]]
    BY <2>1 DEF Flow, Threads
  <2>3. AfterReport(p) \in Label
    BY DEF AfterReport, Label, WorkerLabel, CancellerLabel
  <2>4. pc' \in [Proc -> Label]
    BY <2>3 DEF Flow, Threads
  <2>5. \A t \in Turn : pc'[t] \in WorkerLabel /\ (pc'[t] \in Over => out'[t] = Quiet)
    BY <1>b, <1>c DEF Flow, Threads, WorkerLabel, Over, Proc
  <2>6. \A c \in Canceller : pc'[c] \in CancellerLabel
    BY <1>b, <1>c DEF Flow, Threads, CancellerLabel, Proc
  <2>7. \A c \in Canceller : pc'[c] # "idle" \/ out'[c] # Quiet => target'[c] # {}
    BY <1>b, <1>c DEF Flow, Threads, Proc
  <2>8. \A q \in Proc : out'[q] # Quiet => out'[q].todo # <<>>
    BY <1>b DEF Flow, Threads
  <2> QED
    BY <2>2, <2>4, <2>5, <2>6, <2>7, <2>8 DEF Flow, Threads
<1>2. Handles'
  <2>1. \A t \in Turn : (pc'[t] = "new" <=> pc[t] = "new") /\ (pc'[t] \in Over => pc[t] \in Over)
    BY <1>b, <1>c DEF Over, Proc
  <2> QED
    BY <2>1 DEF Flow, Handles
<1>3. Routed' /\ Registered'
  BY <1>b, <1>c DEF Flow, Routed, Registered, Over, Ending, Proc
<1>4. Reporters'
  BY <1>a, <1>b, <1>c DEF Flow, Reporters, Reporting
<1>5. Writers'
  <2>1. DOMAIN Quiet.todo = {}
    BY DEF Quiet
  <2> QED
    BY <1>a, <1>b, <2>1 DEF Flow, Writers
<1>6. Transcript'
  BY DEF Flow, Transcript
<1> QED
  BY <1>1, <1>2, <1>3, <1>4, <1>5, <1>6 DEF Flow

(* A turn that begins is nobody's yet.                                      *)
LEMMA FlowBegins ==
    ASSUME Flow, NEW t \in Turn, NEW l \in {"setup", "done"}, Begins(t, l)
    PROVE  Flow'
<1>a. \A q : T(q)' = T(q)
  BY DEF T, Begins
<1>b. PICK k \in {"agent", "slash", "setup"} : kind' = [kind EXCEPT ![t] = k]
  BY DEF Begins
<1>c. PICK m \in Prompt : prompt' = [prompt EXCEPT ![t] = m]
  BY DEF Begins
<1>d. /\ kind[t] = "none" /\ pc[t] = "new"
      /\ pc'[t] = l /\ \A q \in Proc \ {t} : pc'[q] = pc[q]
      /\ kind'[t] = k /\ prompt'[t] = m
      /\ \A u \in Turn \ {t} : kind'[u] = kind[u] /\ prompt'[u] = prompt[u]
      /\ UNCHANGED <<out, target, reported, persisted, log, stopped>>
  BY <1>b, <1>c DEF Begins, Flow, Threads, Handles, Proc
<1>e. ASSUME NEW q \in Proc, pc[q] \notin {"idle", "new"} \/ out[q] # Quiet
      PROVE  T(q) \in Turn \ {t} /\ (q \in Turn => q # t)
  <2>1. T(q) \in Turn /\ (q \in Turn => T(q) = q)
             /\ (q \notin Turn => q \in Canceller /\ target[q] = {T(q)})
    BY <1>e, TurnOf DEF Flow
  <2>2. CASE q \in Turn
    BY <1>d, <1>e, <2>1, <2>2 DEF Flow, Threads, Over
  <2>3. CASE q \notin Turn
    BY <1>d, <2>1, <2>3 DEF Flow, Handles
  <2> QED
    BY <2>1, <2>2, <2>3
<1>f. t \in Proc /\ t \notin Canceller
  BY ProcAssumption DEF Proc
<1>1. Threads'
  <2>1. pc' \in [Proc -> Label]
    BY DEF Begins, Flow, Threads, Label, WorkerLabel
  <2>2. \A u \in Turn : pc'[u] \in WorkerLabel /\ (pc'[u] \in Over => out'[u] = Quiet)
    BY <1>d DEF Flow, Threads, WorkerLabel, Over, Proc
  <2>3. \A c \in Canceller : pc'[c] = pc[c]
    BY <1>d, <1>f DEF Proc
  <2> QED
    BY <1>d, <2>1, <2>2, <2>3 DEF Flow, Threads
<1>2. Handles'
  <2>1. kind' \in [Turn -> {"none", "agent", "slash", "setup"}] /\ prompt' \in [Turn -> Prompt]
    BY <1>b, <1>c DEF Flow, Handles
  <2>2. \A u \in Turn : pc'[u] = "new" <=> kind'[u] = "none"
    BY <1>d DEF Flow, Handles, Proc
  <2>3. t \notin registry
    BY <1>d DEF Flow, Handles
  <2>4. registry' \subseteq Turn /\ \A u \in registry' : kind'[u] # "none" /\ pc'[u] \notin Over
    BY <1>d, <2>3 DEF Flow, Handles, Begins, Over, Proc
  <2>5. \A c \in Canceller, u \in Turn : target'[c] = {u} => kind'[u] # "none" /\ u \in stopped'
    BY <1>d DEF Flow, Handles
  <2> QED
    BY <1>d, <2>1, <2>2, <2>4, <2>5 DEF Flow, Handles
<1>3. Routed'
  BY <1>d DEF Flow, Routed, Ending, Proc
<1>4. Registered'
  BY <1>d DEF Flow, Registered, Begins, Over, Proc
<1>5. Reporters'
  <2> SUFFICES ASSUME NEW q \in Proc, pc'[q] \in Reporting
               PROVE  reported[T(q)] /\ kind'[T(q)] # "setup"
    BY <1>a, <1>d DEF Reporters
  <2>1. q # t /\ pc[q] \in Reporting
    BY <1>d DEF Reporting
  <2>2. T(q) \in Turn \ {t}
    BY <1>e, <2>1 DEF Reporting
  <2> QED
    BY <1>d, <2>1, <2>2 DEF Flow, Reporters
<1>6. Writers'
  <2> SUFFICES ASSUME NEW q \in Proc, NEW i \in DOMAIN out[q].todo, out[q].todo[i].turn # "bus"
               PROVE  /\ out[q].todo[i].turn = T(q) /\ out[q].todo[i].prompt = prompt'[T(q)]
                      /\ kind'[T(q)] \notin {"none", "setup"}
                      /\ out[q].todo[i].ev \in {"started", "user"} =>
                            reported[T(q)] \/ (q \in Turn /\ pc'[q] = "round")
    BY <1>a, <1>d DEF Writers
  <2>1. out[q] # Quiet
    BY DEF Quiet
  <2>2. T(q) \in Turn \ {t} /\ (q \in Turn => q # t)
    BY <1>e, <2>1
  <2> QED
    BY <1>d, <2>2 DEF Flow, Writers
<1>7. Transcript'
  BY <1>d DEF Flow, Transcript
<1> QED
  BY <1>1, <1>2, <1>3, <1>4, <1>5, <1>6, <1>7 DEF Flow

(* A canceller takes on a turn.                                             *)
LEMMA FlowCancel ==
    ASSUME Flow, NEW c \in Canceller, NEW t \in Turn, CancelTurn(c, t)
    PROVE  Flow'
<1>a. /\ out[c] = Quiet /\ pc[c] = "idle" /\ t \in registry
      /\ target' = [target EXCEPT ![c] = {t}] /\ pc' = [pc EXCEPT ![c] = "finish"]
      /\ stopped' = stopped \cup {t}
      /\ UNCHANGED <<registry, kind, prompt, reported, persisted, out, log>>
  BY DEF CancelTurn, At, Goto, turnVars
<1>b. c \in Proc /\ c \notin Turn
  BY ProcAssumption DEF Proc
<1>c. /\ pc'[c] = "finish" /\ \A q \in Proc \ {c} : pc'[q] = pc[q]
      /\ target'[c] = {t} /\ \A d \in Canceller \ {c} : target'[d] = target[d]
  BY <1>a, <1>b DEF Flow, Threads
<1>d. ASSUME NEW q \in Proc \ {c}, pc[q] # "idle" \/ out[q] # Quiet
      PROVE  T(q)' = T(q)
  <2>1. /\ T(q) \in Turn /\ (q \in Turn => T(q) = q)
        /\ (q \notin Turn => q \in Canceller /\ target[q] = {T(q)})
    BY <1>d, TurnOf DEF Flow
  <2>2. CASE q \in Turn
    BY <2>2 DEF T
  <2>3. CASE q \notin Turn
    <3>1. target'[q] = {T(q)}
      BY <1>c, <2>1, <2>3
    <3>2. T(q)' = CHOOSE u \in Turn : target'[q] = {u}
      BY <2>3 DEF T
    <3> QED
      BY <2>1, <3>1, <3>2
  <2> QED
    BY <2>2, <2>3
<1>1. Threads'
  <2>1. pc' \in [Proc -> Label]
    BY <1>a DEF Flow, Threads, Label, CancellerLabel
  <2>2. target' \in [Canceller -> {{}} \cup {{u} : u \in Turn}]
    BY <1>a DEF Flow, Threads
  <2>3. \A u \in Turn : pc'[u] = pc[u]
    BY <1>b, <1>c DEF Proc
  <2>4. \A d \in Canceller : /\ pc'[d] \in CancellerLabel
                             /\ pc'[d] # "idle" \/ out'[d] # Quiet => target'[d] # {}
    BY <1>a, <1>c DEF Flow, Threads, CancellerLabel, Proc
  <2> QED
    BY <1>a, <2>1, <2>2, <2>3, <2>4 DEF Flow, Threads
<1>2. \A u \in Turn : pc'[u] = pc[u]
  BY <1>b, <1>c DEF Proc
<1>3. Handles'
  BY <1>a, <1>c, <1>2 DEF Flow, Handles
<1>4. Routed' /\ Registered' /\ Transcript'
  BY <1>a, <1>2 DEF Flow, Routed, Registered, Transcript
<1>5. Reporters'
  <2> SUFFICES ASSUME NEW q \in Proc, pc'[q] \in Reporting
               PROVE  reported[T(q)'] /\ kind[T(q)'] # "setup"
    BY <1>a DEF Reporters
  <2>1. q # c /\ pc[q] \in Reporting
    BY <1>c DEF Reporting
  <2>2. T(q)' = T(q)
    BY <1>d, <2>1 DEF Reporting
  <2> QED
    BY <2>1, <2>2 DEF Flow, Reporters
<1>6. Writers'
  <2>1. DOMAIN out[c].todo = {}
    BY <1>a DEF Quiet
  <2> SUFFICES ASSUME NEW q \in Proc, NEW i \in DOMAIN out[q].todo, out[q].todo[i].turn # "bus"
               PROVE  /\ out[q].todo[i].turn = T(q)' /\ out[q].todo[i].prompt = prompt[T(q)']
                      /\ kind[T(q)'] \notin {"none", "setup"}
                      /\ out[q].todo[i].ev \in {"started", "user"} =>
                            reported[T(q)'] \/ (q \in Turn /\ pc'[q] = "round")
    BY <1>a DEF Writers
  <2>2. q # c /\ out[q] # Quiet
    BY <2>1 DEF Quiet
  <2>3. T(q)' = T(q)
    BY <1>d, <2>2
  <2> QED
    BY <1>c, <2>2, <2>3 DEF Flow, Writers
<1> QED
  BY <1>1, <1>3, <1>4, <1>5, <1>6 DEF Flow

(* A marker is no turn's.                                                   *)
LEMMA FlowMarks ==
    ASSUME Flow, Marks
    PROVE  Flow'
<1>1. PICK m \in Prompt, e \in {"retry", "exhausted"} : log' = Append(log, Marker(e, m))
  BY DEF Marks
<1>2. Marker(e, m) \in Entry /\ Marker(e, m).turn \notin Turn
  BY TurnAssumption DEF Marker, Entry
<1>3. /\ log' \in Seq(Entry) /\ DOMAIN log' = DOMAIN log \cup {Len(log) + 1}
      /\ log'[Len(log) + 1] = Marker(e, m) /\ \A i \in DOMAIN log : log'[i] = log[i]
  BY <1>1, <1>2, Appended DEF Flow, Handles
<1>4. \A p : T(p)' = T(p)
  BY DEF T, Marks
<1>5. Transcript'
  BY <1>2, <1>3 DEF Flow, Transcript, Marks
<1>6. Handles'
  BY <1>3 DEF Flow, Handles, Marks
<1> QED
  BY <1>4, <1>5, <1>6 DEF Flow, Threads, Routed, Registered, Reporters, Writers, Marks

(* Only the transcript and what clients hold on to survives a crash.        *)
LEMMA FlowCrash ==
    ASSUME Flow, Crash
    PROVE  Flow'
<1>1. /\ registry' = {} /\ out' = [p \in Proc |-> Quiet]
      /\ UNCHANGED <<kind, prompt, reported, persisted, target, log, stopped>>
  BY DEF Crash, histVars
<1>2. \A c \in Canceller : pc'[c] = "idle"
  BY ProcAssumption DEF Crash, Proc
<1>3. \A t \in Turn : pc'[t] = IF pc[t] \in {"new", "done"} THEN pc[t] ELSE "lost"
  BY ProcAssumption DEF Crash, Proc
<1>4. pc' \in [Proc -> Label]
  <2>1. pc' = [p \in Proc |-> pc'[p]]
    BY DEF Crash
  <2>2. \A p \in Proc : pc'[p] \in Label
    BY <1>2, <1>3 DEF Proc, Label, WorkerLabel, CancellerLabel
  <2> QED
    BY <2>1, <2>2
<1>5. \A p \in Proc : out'[p] = Quiet /\ DOMAIN out'[p].todo = {}
  BY <1>1 DEF Quiet
<1>6. out' \in [Proc -> [todo : Seq(Item), strict : BOOLEAN]]
  <2>1. Quiet \in [todo : Seq(Item), strict : BOOLEAN]
    BY EmptySeq DEF Quiet
  <2> QED
    BY <1>1, <2>1
<1>7. Threads'
  BY <1>1, <1>2, <1>3, <1>4, <1>5, <1>6 DEF Flow, Threads, WorkerLabel, CancellerLabel, Proc
<1>8. Handles'
  BY <1>1, <1>3 DEF Flow, Handles
<1>9. Routed' /\ Registered' /\ Transcript'
  BY <1>1, <1>3 DEF Flow, Routed, Registered, Transcript, Over, Handles
<1>10. Writers'
  BY <1>5 DEF Writers
<1>11. Reporters'
  BY <1>2, <1>3 DEF Reporters, Reporting, Proc
<1> QED
  BY <1>7, <1>8, <1>9, <1>10, <1>11 DEF Flow

(* So does every step.                                                      *)
LEMMA FlowStep ==
    ASSUME Flow, Recoveries, [Next]_vars
    PROVE  Flow'
<1>1. ASSUME NEW p \in Proc, Moving(p)
      PROVE  Flow'
  BY <1>1, MovingMoves, FlowMoves
<1>2. ASSUME NEW p \in Proc, Write(p)
      PROVE  Flow'
  <2>1. /\ out[p] # Quiet /\ out' = [out EXCEPT ![p] = Rest(p)]
        /\ \/ UNCHANGED log
           \/ Head(out[p].todo).turn # "bus" /\ log' = Append(log, Head(out[p].todo))
        /\ UNCHANGED <<registry, kind, prompt, pc, target, reported, persisted, stopped>>
    BY <1>2 DEF Write, turnVars
  <2> QED
    BY <2>1, FlowWrite
<1>3. ASSUME NEW p \in Proc, WriteFails(p)
      PROVE  Flow'
  <2>1. /\ out[p] # Quiet
        /\ UNCHANGED <<registry, kind, prompt, target, reported, persisted, log, stopped>>
        /\ \/ out' = [out EXCEPT ![p] = Quiet] /\ pc' = [pc EXCEPT ![p] = AfterReport(p)]
           \/ out' = [out EXCEPT ![p] = Rest(p)] /\ UNCHANGED pc
    BY <1>3 DEF WriteFails, Goto, turnVars, histVars
  <2> QED
    BY <2>1, FlowWrite, FlowGivesUp
<1> QED
  BY <1>1, <1>2, <1>3, StepKinds, FlowBegins, FlowCancel, FlowMarks, FlowCrash, FlowStill

(* A turn's kind and message are set once.                                  *)
LEMMA KindKept ==
    ASSUME Flow, Recoveries, [Next]_vars, NEW t \in Turn, kind[t] # "none"
    PROVE  kind'[t] = kind[t] /\ prompt'[t] = prompt[t]
<1>1. ASSUME NEW p \in Proc, Moving(p)
      PROVE  UNCHANGED <<kind, prompt>>
  BY <1>1, MovingMoves DEF Moves, Move
<1>2. ASSUME NEW p \in Proc, Write(p) \/ WriteFails(p)
      PROVE  UNCHANGED <<kind, prompt>>
  BY <1>2 DEF Write, WriteFails, turnVars
<1>3. ASSUME NEW u \in Turn, NEW l \in {"setup", "done"}, Begins(u, l)
      PROVE  kind'[t] = kind[t] /\ prompt'[t] = prompt[t]
  BY <1>3 DEF Begins, Flow, Handles
<1>4. ASSUME NEW c \in Canceller, NEW u \in Turn, CancelTurn(c, u)
      PROVE  UNCHANGED <<kind, prompt>>
  BY <1>4 DEF CancelTurn, turnVars
<1>5. CASE Marks \/ Crash \/ Still
  BY <1>5 DEF Marks, Crash, Still
<1> QED
  BY <1>1, <1>2, <1>3, <1>4, <1>5, StepKinds

(* Who touches what a recovery keeps.                                       *)
LEMMA RecoverKinds ==
    ASSUME Flow, [Next]_vars
    PROVE  UNCHANGED <<recover, retry>> \/ (\E c \in Recoverer : Recovery(c)) \/ Crash
<1>1. CASE UNCHANGED vars
  BY <1>1 DEF vars, recoverVars, histVars
<1>2. ASSUME NEW p \in Proc, Moving(p)
      PROVE  UNCHANGED <<recover, retry>>
  BY <1>2, MovingMoves DEF Moves, Move, recoverVars
<1>3. ASSUME NEW p \in Proc, Write(p) \/ WriteFails(p)
      PROVE  UNCHANGED <<recover, retry>>
  BY <1>3 DEF Write, WriteFails, recoverVars, histVars
<1>4. CASE Client
  BY <1>4 DEF Client, StartTurn, StagingFails, CancelTurn, ResolveCheck, ResolveSend, recoverVars,
              histVars
<1>5. CASE Beside
  BY <1>5, BesideStep DEF recoverVars
<1>6. CASE AtRest
  BY <1>1, <1>6 DEF AtRest
<1> QED
  BY <1>1, <1>2, <1>3, <1>4, <1>5, <1>6 DEF Next, Beside, Shared, Moving, Proc

(* Every step keeps what a recovery remembers.                              *)
LEMMA RecoveriesStep ==
    ASSUME Flow, Recoveries, [Next]_vars
    PROVE  Recoveries'
<1> DEFINE R == [at : {"idle", "retry", "already_retried", "start"}, prompt : SUBSET Prompt]
<1>0. Idle \in R /\ Idle.at = "idle"
  BY DEF Idle
<1>1. \A t \in Turn : kind[t] # "none" => kind'[t] # "none"
  BY KindKept
<1>2. CASE UNCHANGED <<recover, retry>>
  BY <1>1, <1>2 DEF Recoveries
<1>3. CASE Crash
  <2>1. recover' = [c \in Recoverer |-> Idle] /\ UNCHANGED <<kind, retry>>
    BY <1>3 DEF Crash, histVars
  <2> QED
    BY <1>0, <2>1 DEF Recoveries
<1>4. ASSUME NEW c \in Recoverer, Recovery(c)
      PROVE  Recoveries'
  <2>1. CASE RecoverLoad(c)
    <3>1. /\ UNCHANGED <<kind, retry>> /\ stale_turn_recovery_decision(log) # "not_recoverable"
          /\ recover' = [recover EXCEPT ![c] = [at |-> stale_turn_recovery_decision(log),
                                                prompt |-> latest_unanswered_user_turn(log)]]
      BY <2>1 DEF RecoverLoad, Recovers, turnVars, histVars
    <3>2. stale_turn_recovery_decision(log) \in {"already_retried", "retry"}
          /\ latest_unanswered_user_turn(log) # {}
      BY <3>1 DEF stale_turn_recovery_decision
    <3>3. log # <<>> /\ latest_unanswered_user_turn(log) = {log[Len(log)].prompt}
      BY <3>2 DEF latest_unanswered_user_turn
    <3>4. log[Len(log)] \in Entry
      BY <3>3 DEF Flow, Handles
    <3>5. log[Len(log)].prompt \in Prompt
      BY <3>4 DEF Entry
    <3> DEFINE m == log[Len(log)].prompt
               d == stale_turn_recovery_decision(log)
    <3>6. recover' = [recover EXCEPT ![c] = [at |-> d, prompt |-> {m}]]
      BY <3>1, <3>3
    <3> HIDE DEF m, d
    <3>7. [at |-> d, prompt |-> {m}] \in R /\ m \in Prompt
      BY <3>2, <3>5 DEF m, d
    <3> QED
      BY <3>1, <3>6, <3>7 DEF Recoveries
  <2>2. CASE RecoverMark(c)
    <3>1. /\ recover' = [recover EXCEPT ![c] = [at |-> "start", prompt |-> recover[c].prompt]]
          /\ recover[c].at = "retry" /\ UNCHANGED <<kind, retry>>
      BY <2>2 DEF RecoverMark, Recovers, turnVars, histVars
    <3>2. PICK m \in Prompt : recover[c].prompt = {m}
      BY <3>1 DEF Recoveries
    <3>3. [at |-> "start", prompt |-> {m}] \in R
      OBVIOUS
    <3> QED
      BY <3>1, <3>2, <3>3 DEF Recoveries
  <2>3. CASE RecoverExhausted(c)
    <3>1. recover' = [recover EXCEPT ![c] = Idle] /\ UNCHANGED <<kind, retry>>
      BY <2>3 DEF RecoverExhausted, turnVars, histVars
    <3> QED
      BY <1>0, <3>1 DEF Recoveries
  <2>4. ASSUME NEW t \in Turn, RecoverStart(c, t)
        PROVE  Recoveries'
    <3>1. recover' = [recover EXCEPT ![c] = Idle]
      BY <2>4 DEF RecoverStart
    <3>2. retry' \subseteq {u \in Turn : kind'[u] # "none"}
      <4>1. retry' = retry \/ (retry' = retry \cup {t} /\ kind' = [kind EXCEPT ![t] = "agent"])
        BY <2>4 DEF RecoverStart, Register
      <4> QED
        BY <1>1, <4>1 DEF Recoveries, Flow, Handles
    <3> QED
      BY <1>0, <3>1, <3>2 DEF Recoveries
  <2> QED
    BY <1>4, <2>1, <2>2, <2>3, <2>4 DEF Recovery
<1> QED
  BY <1>2, <1>3, <1>4, RecoverKinds

(* No thread is under way at first.                                         *)
LEMMA FlowInit ==
    ASSUME Init
    PROVE  Flow /\ Recoveries
<1>1. Quiet \in [todo : Seq(Item), strict : BOOLEAN] /\ DOMAIN Quiet.todo = {}
  BY EmptySeq DEF Quiet
<1>2. Threads
  <2>1. pc \in [Proc -> Label] /\ (\A t \in Turn : pc[t] = "new") /\ (\A c \in Canceller : pc[c] = "idle")
    BY ProcAssumption DEF Init, Label, WorkerLabel, CancellerLabel, Proc
  <2>2. out \in [Proc -> [todo : Seq(Item), strict : BOOLEAN]] /\ \A p \in Proc : out[p] = Quiet
    BY <1>1 DEF Init
  <2>3. target = [c \in Canceller |-> {}]
    BY DEF Init
  <2> QED
    BY <2>1, <2>2, <2>3 DEF Threads, WorkerLabel, CancellerLabel, Proc
<1>3. Handles
  <2>1. prompt \in [Turn -> Prompt]
    BY PromptAssumption DEF Init
  <2>2. log \in Seq(Entry)
    BY EmptySeq DEF Init
  <2>3. /\ registry = {} /\ kind = [t \in Turn |-> "none"] /\ \A t \in Turn : pc[t] = "new"
        /\ reported = [t \in Turn |-> FALSE] /\ persisted = [t \in Turn |-> FALSE]
        /\ target = [c \in Canceller |-> {}]
    BY DEF Init, Proc
  <2> QED
    BY <2>1, <2>2, <2>3 DEF Handles
<1>4. Routed /\ Registered
  BY <1>2 DEF Init, Routed, Registered, Over, Proc
<1>5. Reporters
  BY ProcAssumption DEF Init, Reporters, Reporting, Proc
<1>6. Writers
  BY <1>1 DEF Init, Writers
<1>7. Transcript
  BY DEF Init, Transcript
<1>8. Recoveries
  BY DEF Init, Recoveries, Idle
<1> QED
  BY <1>2, <1>3, <1>4, <1>5, <1>6, <1>7, <1>8 DEF Flow

(* The flow holds for every behaviour.                                      *)
LEMMA FlowHolds == Spec => [](Flow /\ Recoveries)
<1>1. Init => Flow /\ Recoveries
  BY FlowInit
<1>2. Flow /\ Recoveries /\ [Next]_vars => (Flow /\ Recoveries)'
  BY FlowStep, RecoveriesStep
<1> QED
  BY <1>1, <1>2, PTL DEF Spec
=============================================================================
