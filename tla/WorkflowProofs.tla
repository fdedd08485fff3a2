--------------------------- MODULE WorkflowProofs ---------------------------
(***************************************************************************)
(* Proofs about WorkflowEngine.  The inductive invariant is IndInv of      *)
(* WorkflowInvariant; it is preserved because steps keep more than they    *)
(* change: JobsKeep, StepsKeep and LedgerKeeps say what, one lemma for     *)
(* each conjunct and each kind of actor uses them, and the theorems are at *)
(* the end.                                                                *)
(***************************************************************************)
EXTENDS WorkflowInvariant, TLAPS

USE DEF Statuses

-----------------------------------------------------------------------------
(* Types. *)

(* A save of a run keeps the table typed. *)
LEMMA RunsType ==
    ASSUME TypeOK, NEW r, NEW st \in Statuses, NEW a \in Attempts, SetRun(r, st, a)
    PROVE  runs' \in [Runs -> RunRecords]
BY DEF TypeOK, SetRun, RunRecords

(* An insert or an upsert of a step keeps the table typed. *)
LEMMA StepsType ==
    ASSUME TypeOK, NEW r \in Runs, NEW a \in Attempts, NEW o \in Nat,
           NEW x \in {"dispatch", "gateway", "cancel"}, NEW st \in Statuses,
           steps' = steps \cup {Step(r, a, x, o, st)}
           \/ steps' = WithStep(Step(r, a, x, o, st))
    PROVE  steps' \in SUBSET StepRecords
<1>1. Step(r, a, x, o, st) \in StepRecords BY DEF Step, StepRecords
<1>2. QED BY <1>1 DEF TypeOK, WithStep

(* A save of a job keeps the table typed and touches that job alone. *)
LEMMA JobsType ==
    ASSUME TypeOK, NEW j \in DOMAIN jobs, NEW st \in Statuses, SetJob(j, st)
    PROVE  /\ jobs' \in Seq(JobRecords)
           /\ DOMAIN jobs' = DOMAIN jobs
           /\ \A i \in DOMAIN jobs :
                 jobs'[i] = IF i = j THEN [jobs[i] EXCEPT !.status = st] ELSE jobs[i]
<1>1. jobs \in Seq(JobRecords) BY DEF TypeOK
<1>2. DOMAIN jobs' = DOMAIN jobs BY DEF SetJob
<1>3. \A i \in DOMAIN jobs :
         jobs'[i] = IF i = j THEN [jobs[i] EXCEPT !.status = st] ELSE jobs[i]
  BY DEF SetJob
<1>4. jobs[j] \in JobRecords BY <1>1
<1>5. [jobs[j] EXCEPT !.status = st] \in JobRecords BY <1>4 DEF JobRecords
<1> DEFINE e == [jobs[j] EXCEPT !.status = st]
<1>6. jobs' = [jobs EXCEPT ![j] = e] BY DEF SetJob
<1>7. e \in JobRecords BY <1>5
<1> HIDE DEF e
<1>8. jobs' \in Seq(JobRecords) BY <1>1, <1>6, <1>7
<1> QED BY <1>2, <1>3, <1>8

(* A new job is typed and goes behind the others. *)
LEMMA NewJobType ==
    ASSUME TypeOK, NEW r \in Runs, NEW a \in Attempts,
           jobs' = Append(jobs, [run |-> r, attempt |-> a, status |-> "pending"])
    PROVE  /\ jobs' \in Seq(JobRecords)
           /\ DOMAIN jobs' = DOMAIN jobs \cup {Len(jobs) + 1}
           /\ \A i \in DOMAIN jobs : jobs'[i] = jobs[i]
           /\ jobs'[Len(jobs) + 1] = [run |-> r, attempt |-> a, status |-> "pending"]
<1> DEFINE e == [run |-> r, attempt |-> a, status |-> "pending"]
<1>1. jobs \in Seq(JobRecords) BY DEF TypeOK
<1>2. e \in JobRecords BY DEF JobRecords
<1> HIDE DEF e
<1>3. jobs' = Append(jobs, e) BY DEF e
<1>4. QED BY <1>1, <1>2, <1>3 DEF e

(* A row of state_transitions is typed. *)
LEMMA TrailType ==
    ASSUME TypeOK, NEW r, NEW x \in Statuses \cup {"none"},
           NEW y \in Statuses \cup {"none"}, Log(r, x, y)
    PROVE  trail' \in [Runs -> (Statuses \cup {"none"}) \X (Statuses \cup {"none"})]
BY DEF TypeOK, Log

(* Writing one entry keeps the ledger typed. *)
LEMMA LedgerType ==
    ASSUME TypeOK, NEW r, NEW a, NEW o \in Contract!Outcomes,
           ledger' = [ledger EXCEPT ![r][a] = o]
    PROVE  ledger' \in [Runs -> [Attempts -> Contract!Outcomes]]
BY DEF TypeOK, Contract!Outcomes, Contract!Ends

(* A typed record for one request keeps all requests typed. *)
LEMMA CallType ==
    ASSUME TypeOK, DOMAIN jobs \subseteq DOMAIN jobs', NEW h, NEW c \in CallRecords,
           call' = [call EXCEPT ![h] = c]
    PROVE  call' \in [Handlers -> CallRecords']
BY DEF TypeOK, CallRecords

(* A typed record for one worker keeps all workers typed. *)
LEMMA WorkType ==
    ASSUME TypeOK, DOMAIN jobs \subseteq DOMAIN jobs', NEW w, NEW c \in WorkRecords,
           work' = [work EXCEPT ![w] = c]
    PROVE  work' \in [Workers -> WorkRecords']
BY DEF TypeOK, WorkRecords

(* Moving a request on, or ending it, keeps all requests typed. *)
LEMMA GoType ==
    ASSUME TypeOK, DOMAIN jobs \subseteq DOMAIN jobs', NEW h \in Handlers,
           NEW pc \in CallPCs, Go(h, pc) \/ Return(h)
    PROVE  call' \in [Handlers -> CallRecords']
<1>1. [call[h] EXCEPT !.pc = pc] \in CallRecords BY DEF TypeOK, CallRecords
<1>2. IdleCall \in CallRecords BY DEF CallRecords, IdleCall, CallPCs, RunRecords
<1>3. CASE Go(h, pc) BY <1>1, <1>3, CallType DEF Go
<1>4. CASE Return(h) BY <1>2, <1>4, CallType DEF Return
<1> QED BY <1>3, <1>4

(* Moving a worker on, or ending its job, keeps all workers typed. *)
LEMMA GotoType ==
    ASSUME TypeOK, DOMAIN jobs \subseteq DOMAIN jobs', NEW w \in Workers,
           NEW pc \in Preparing \cup Executing \cup Clearing,
           Goto(w, pc) \/ Leave(w) \/ Got(w, "ok") \/ Got(w, "error")
    PROVE  work' \in [Workers -> WorkRecords']
<1>1. [work[w] EXCEPT !.pc = pc] \in WorkRecords BY DEF TypeOK, WorkRecords
<1>2. IdleWork \in WorkRecords BY DEF WorkRecords, IdleWork, RunRecords
<1>0. \A x \in {"ok", "error"} :
         [work[w] EXCEPT !.pc = "recheckJob", !.result = x] \in WorkRecords
  BY DEF TypeOK, WorkRecords, Executing
<1>3. CASE Goto(w, pc) BY <1>1, <1>3, WorkType DEF Goto
<1>4. CASE Leave(w) BY <1>2, <1>4, WorkType DEF Leave
<1>5. CASE \E x \in {"ok", "error"} : Got(w, x)
  <2> PICK x \in {"ok", "error"} : Got(w, x) BY <1>5
  <2>1. work' = [work EXCEPT ![w] = [work[w] EXCEPT !.pc = "recheckJob", !.result = x]]
    BY DEF Got, TypeOK
  <2> QED BY <1>0, <2>1, WorkType
<1> QED BY <1>3, <1>4, <1>5

(* The fixed orders of steps are numbers. *)
LEMMA FixedOrderNat ==
    ASSUME NEW a \in Attempts, NEW x \in {"dispatch", "gateway", "cancel"}
    PROVE  FixedOrder(a, x) \in Nat
BY MaxAttemptsAssumption DEF FixedOrder, Attempts

(* The types of what a request holds, by the point it has reached. *)
LEMMA CallFacts ==
    ASSUME TypeOK, CallsInv, NEW h \in Handlers
    PROVE  /\ call[h] \in CallRecords
           /\ call[h].pc # "idle" => call[h].run \in Runs
           /\ call[h].pc \in {"saveRun", "logQueued", "dispatch", "enqueue"} =>
                 call[h].rec.attempt + 1 \in Attempts
           /\ call[h].rec.attempt \in Nat /\ call[h].rec.status \in Statuses \cup {"none"}
           /\ call[h].pc \in CallPCs \ {"idle", "saveRun", "logQueued", "dispatch",
                                      "enqueue"} =>
                 call[h].rec.status \in Open /\ call[h].rec.attempt \in Attempts
<1>1. call[h] \in CallRecords BY DEF TypeOK
<1>2. call[h].rec \in RunRecords BY <1>1 DEF CallRecords
<1>3. call[h].rec.attempt \in Nat /\ call[h].rec.status \in Statuses \cup {"none"}
  BY <1>2, MaxAttemptsAssumption DEF RunRecords, Absent, Attempts
<1>4. call[h].rec.status \in Open => call[h].rec.attempt \in Attempts
  BY <1>2 DEF RunRecords, Absent, Open
<1> QED BY <1>1, <1>3, <1>4 DEF CallsInv, Queueing, Cancelling, NextAttempt

(* Every statement of a request preserves the type invariant. *)
LEMMA HandlerTypes ==
    ASSUME TypeOK, CallsInv, NEW h \in Handlers, HandlerStep(h)
    PROVE  TypeOK'
<1>1. CASE SaveQueuedRun(h)
  <2>1. runs' \in [Runs -> RunRecords]
    <3>1. CASE UNCHANGED runs BY <3>1 DEF TypeOK
    <3>2. CASE SetRun(call[h].run, "pending", call[h].rec.attempt + 1)
      <4>1. call[h].rec.attempt + 1 \in Attempts BY <1>1, CallFacts DEF SaveQueuedRun
      <4> QED BY <3>2, <4>1, RunsType
    <3> QED BY <1>1, <3>1, <3>2 DEF SaveQueuedRun
  <2>2. call' \in [Handlers -> CallRecords']
    BY <1>1, CallFacts, GoType DEF SaveQueuedRun, CallPCs
  <2> QED
    BY <1>1, <2>1, <2>2 DEF TypeOK, SaveQueuedRun, CallRecords, WorkRecords
<1>2. CASE LogQueued(h)
  <2>1. trail' \in [Runs -> (Statuses \cup {"none"}) \X (Statuses \cup {"none"})]
    BY <1>2, CallFacts, TrailType DEF LogQueued, Open
  <2>2. call' \in [Handlers -> CallRecords']
    BY <1>2, CallFacts, GoType DEF LogQueued, CallPCs
  <2> QED
    BY <1>2, <2>1, <2>2 DEF TypeOK, LogQueued, CallRecords, WorkRecords
<1>3. CASE SaveDispatchStep(h)
  <2>1. steps' \in SUBSET StepRecords
    <3> DEFINE a == call[h].rec.attempt + 1
    <3>1. a \in Attempts /\ call[h].run \in Runs BY <1>3, CallFacts DEF SaveDispatchStep
    <3>2. FixedOrder(a, "dispatch") \in Nat BY <3>1, FixedOrderNat
    <3>3. CASE UNCHANGED steps BY <3>3 DEF TypeOK
    <3>4. CASE steps' = steps \cup {Step(call[h].run, a, "dispatch",
                                        FixedOrder(a, "dispatch"), "completed")}
      BY <3>1, <3>2, <3>4, StepsType
    <3> QED BY <1>3, <3>3, <3>4 DEF SaveDispatchStep
  <2>2. call' \in [Handlers -> CallRecords']
    BY <1>3, CallFacts, GoType DEF SaveDispatchStep, CallPCs
  <2> QED
    BY <1>3, <2>1, <2>2 DEF TypeOK, SaveDispatchStep, CallRecords, WorkRecords
<1>4. CASE EnqueueJob(h)
  <2>1. jobs' \in Seq(JobRecords) /\ DOMAIN jobs \subseteq DOMAIN jobs'
    BY <1>4, CallFacts, NewJobType DEF EnqueueJob
  <2>2. call' \in [Handlers -> CallRecords']
    BY <1>4, CallFacts, GoType DEF EnqueueJob, CallPCs
  <2> QED
    BY <1>4, <2>1, <2>2 DEF TypeOK, EnqueueJob, CallRecords, WorkRecords
<1>5. CASE ListOpenJobs(h)
  <2>1. call' \in [Handlers -> CallRecords']
    <3>1. PICK seen \in SUBSET (DOMAIN jobs) :
             call' = [call EXCEPT ![h].pc = "cancelJobs", ![h].todo = seen]
      BY <1>5 DEF ListOpenJobs, Reads
    <3>2. [call[h] EXCEPT !.pc = "cancelJobs", !.todo = seen] \in CallRecords
      BY CallFacts DEF CallRecords, CallPCs
    <3>3. call' = [call EXCEPT ![h] = [call[h] EXCEPT !.pc = "cancelJobs", !.todo = seen]]
      BY <3>1 DEF TypeOK
    <3> QED BY <1>5, <3>2, <3>3, CallType DEF ListOpenJobs
  <2> QED
    BY <1>5, <2>1 DEF TypeOK, ListOpenJobs, CallRecords, WorkRecords
<1>6. CASE CancelOneJob(h)
  <2>1. jobs' \in Seq(JobRecords) /\ DOMAIN jobs \subseteq DOMAIN jobs'
    <3>1. PICK j \in DOMAIN jobs : SetJob(j, "cancelled")
      BY <1>6, CallFacts DEF CancelOneJob, CallRecords
    <3> QED BY <3>1, JobsType
  <2>2. call' \in [Handlers -> CallRecords']
    <3>1. PICK j : call' = [call EXCEPT ![h].todo = @ \ {j}]
      BY <1>6 DEF CancelOneJob
    <3>2. [call[h] EXCEPT !.todo = @ \ {j}] \in CallRecords
      BY CallFacts DEF CallRecords
    <3>3. call' = [call EXCEPT ![h] = [call[h] EXCEPT !.todo = @ \ {j}]]
      BY <3>1 DEF TypeOK
    <3> QED BY <2>1, <3>2, <3>3, CallType
  <2> QED
    BY <1>6, <2>1, <2>2 DEF TypeOK, CancelOneJob, CallRecords, WorkRecords
<1>7. CASE FindOpenGatewayStep(h)
  <2>1. call' \in [Handlers -> CallRecords']
    BY <1>7, CallFacts, GoType DEF FindOpenGatewayStep, CallPCs
  <2> QED
    BY <1>7, <2>1 DEF TypeOK, FindOpenGatewayStep, CallRecords, WorkRecords
<1>8. CASE CancelGatewayStep(h)
  <2>1. steps' \in SUBSET StepRecords
    BY <1>8, CallFacts, StepsType DEF CancelGatewayStep, GatewayStep, FixedOrder,
       CallRecords
  <2>2. call' \in [Handlers -> CallRecords']
    BY <1>8, CallFacts, GoType DEF CancelGatewayStep, CallPCs
  <2> QED
    BY <1>8, <2>1, <2>2 DEF TypeOK, CancelGatewayStep, CallRecords, WorkRecords
<1>9. CASE FindCancelStep(h)
  <2>1. call' \in [Handlers -> CallRecords']
    BY <1>9, CallFacts, GoType DEF FindCancelStep, CallPCs
  <2> QED
    BY <1>9, <2>1 DEF TypeOK, FindCancelStep, CallRecords, WorkRecords
<1>10. CASE OrderCancelStep(h)
  <2>1. call' \in [Handlers -> CallRecords']
    <3>1. PICK seen \in SUBSET StepRecords :
             \E n \in CancelOrders(seen, call[h].rec.attempt) :
                call' = [call EXCEPT ![h].pc = "insertCancelStep", ![h].order = n]
      BY <1>10 DEF OrderCancelStep, Reads, StepsOf, TypeOK
    <3>2. \A n \in CancelOrders(seen, call[h].rec.attempt) : n \in Nat
      BY <1>10, CallFacts, FixedOrderNat DEF CancelOrders, StepRecords,
         OrderCancelStep, CallPCs
    <3>5. PICK n \in Nat : call' = [call EXCEPT ![h].pc = "insertCancelStep", ![h].order = n]
      BY <3>1, <3>2
    <3>3. [call[h] EXCEPT !.pc = "insertCancelStep", !.order = n] \in CallRecords
      BY CallFacts DEF CallRecords, CallPCs
    <3>4. call' = [call EXCEPT ![h] = [call[h] EXCEPT !.pc = "insertCancelStep", !.order = n]]
      BY <3>5 DEF TypeOK
    <3> QED BY <1>10, <3>3, <3>4, CallType DEF OrderCancelStep
  <2> QED
    BY <1>10, <2>1 DEF TypeOK, OrderCancelStep, CallRecords, WorkRecords
<1>11. CASE InsertCancelStep(h)
  <2>1. steps' \in SUBSET StepRecords
    <3> DEFINE a == call[h].rec.attempt
    <3>1. a \in Attempts /\ call[h].run \in Runs /\ call[h].order \in Nat
      BY <1>11, CallFacts DEF InsertCancelStep, CallPCs, CallRecords
    <3>2. CASE UNCHANGED steps BY <3>2 DEF TypeOK
    <3>3. CASE steps' = steps \cup {Step(call[h].run, a, "cancel", call[h].order, "completed")}
      BY <3>1, <3>3, StepsType
    <3> QED BY <1>11, <3>2, <3>3 DEF InsertCancelStep
  <2>2. call' \in [Handlers -> CallRecords']
    BY <1>11, CallFacts, GoType DEF InsertCancelStep, CallPCs
  <2> QED
    BY <1>11, <2>1, <2>2 DEF TypeOK, InsertCancelStep, CallRecords, WorkRecords
<1>12. CASE SaveCancelledRun(h)
  <2>1. runs' \in [Runs -> RunRecords]
    BY <1>12, CallFacts, RunsType DEF SaveCancelledRun, CallPCs
  <2>2. call' \in [Handlers -> CallRecords']
    BY <1>12, CallFacts, GoType DEF SaveCancelledRun, CallPCs
  <2> QED
    BY <1>12, <2>1, <2>2 DEF TypeOK, SaveCancelledRun, CallRecords, WorkRecords
<1>13. CASE LogCancelled(h)
  <2>1. trail' \in [Runs -> (Statuses \cup {"none"}) \X (Statuses \cup {"none"})]
    BY <1>13, CallFacts, TrailType DEF LogCancelled, Open
  <2>2. call' \in [Handlers -> CallRecords']
    BY <1>13, CallFacts, GoType DEF LogCancelled, CallPCs
  <2> QED
    BY <1>13, <2>1, <2>2 DEF TypeOK, LogCancelled, CallRecords, WorkRecords
<1> QED
  BY <1>1, <1>2, <1>3, <1>4, <1>5, <1>6, <1>7, <1>8, <1>9, <1>10, <1>11, <1>12, <1>13
  DEF HandlerStep

(* The types of what a worker holds, by the point it has reached. *)
LEMMA WorkFacts ==
    ASSUME TypeOK, WorkInv, NEW w \in Workers
    PROVE  /\ work[w] \in WorkRecords
           /\ work[w].rec.attempt \in Nat /\ work[w].rec.status \in Statuses \cup {"none"}
           /\ work[w].pc # "idle" =>
                 work[w].job \in DOMAIN jobs /\ RunOf(w) \in Runs /\ JobOf(w).attempt \in Attempts
           /\ work[w].pc \in Executing \cup
                  {"findStep", "reopenStep", "insertStep", "saveClaim", "logClaim", "lookup",
                   "dropJob", "findDrop", "dropStep"} =>
                 AttemptOf(w) \in Attempts
<1>1. work[w] \in WorkRecords BY DEF TypeOK
<1>2. work[w].rec \in RunRecords BY <1>1 DEF WorkRecords
<1>3. work[w].rec.attempt \in Nat /\ work[w].rec.status \in Statuses \cup {"none"}
  BY <1>2, MaxAttemptsAssumption DEF RunRecords, Absent, Attempts
<1>4. work[w].pc # "idle" => work[w].job \in DOMAIN jobs BY DEF WorkInv
<1>5. jobs \in Seq(JobRecords) BY DEF TypeOK
<1>6. \A j \in DOMAIN jobs : jobs[j] \in JobRecords BY <1>5
<1>7. work[w].pc # "idle" => RunOf(w) \in Runs /\ JobOf(w).attempt \in Attempts
  BY <1>4, <1>6 DEF RunOf, JobOf, JobRecords
<1>8. work[w].pc \in Loaded \cup Executing => AttemptOf(w) = JobOf(w).attempt
  BY DEF WorkInv
<1>9. work[w].pc \in {"dropJob", "findDrop", "dropStep"} => AttemptOf(w) \in Attempts
  BY DEF WorkInv
<1> QED BY <1>1, <1>3, <1>4, <1>7, <1>8, <1>9 DEF Loaded, Preparing, Executing

(* Every statement of a worker preserves the type invariant. *)
LEMMA WorkerTypes ==
    ASSUME TypeOK, WorkInv, NEW w \in Workers, WorkerStep(w)
    PROVE  TypeOK'
<1>1. CASE LoadRun(w)
  <2>1. work' \in [Workers -> WorkRecords']
    <3>1. CASE \E pc \in {"failJob", "cancelJob"} : Goto(w, pc)
      BY <1>1, <3>1, GotoType DEF LoadRun, Clearing
    <3>2. CASE \E rec \in RunRecords :
                  work' = [work EXCEPT ![w].pc = "findStep", ![w].rec = rec]
      <4>1. PICK rec \in RunRecords :
              work' = [work EXCEPT ![w].pc = "findStep", ![w].rec = rec] BY <3>2
      <4>2. [work[w] EXCEPT !.pc = "findStep", !.rec = rec] \in WorkRecords
        BY WorkFacts DEF WorkRecords, Preparing
      <4>3. work' = [work EXCEPT ![w] = [work[w] EXCEPT !.pc = "findStep", !.rec = rec]]
        BY <4>1 DEF TypeOK
      <4> QED BY <1>1, <4>2, <4>3, WorkType DEF LoadRun
    <3>3. runs[RunOf(w)] \in RunRecords
      BY <1>1, WorkFacts DEF LoadRun, TypeOK
    <3> QED BY <1>1, <3>1, <3>2, <3>3 DEF LoadRun, Reads, RunRecords
  <2> QED
    BY <1>1, <2>1 DEF TypeOK, LoadRun, CallRecords, WorkRecords
<1>2. CASE SettleJob(w)
  <2>1. jobs' \in Seq(JobRecords) /\ DOMAIN jobs \subseteq DOMAIN jobs'
    BY <1>2, WorkFacts, JobsType DEF SettleJob, Open
  <2>2. work' \in [Workers -> WorkRecords']
    BY <1>2, <2>1, GotoType DEF SettleJob, Clearing
  <2> QED
    BY <1>2, <2>1, <2>2 DEF TypeOK, SettleJob, CallRecords, WorkRecords
<1>3. CASE FindGatewayStep(w)
  <2>1. work' \in [Workers -> WorkRecords']
    BY <1>3, WorkFacts, GotoType DEF FindGatewayStep, Preparing, Executing, Clearing
  <2> QED
    BY <1>3, <2>1 DEF TypeOK, FindGatewayStep, CallRecords, WorkRecords
<1>4. CASE OpenStep(w)
  <2>1. steps' \in SUBSET StepRecords
    <3> DEFINE a == AttemptOf(w)
    <3>1. a \in Attempts /\ RunOf(w) \in Runs BY <1>4, WorkFacts DEF OpenStep
    <3>2. FixedOrder(a, "gateway") \in Nat BY <3>1, FixedOrderNat
    <3>3. CASE UNCHANGED steps BY <3>3 DEF TypeOK
    <3>4. CASE ~ UNCHANGED steps
      BY <1>4, <3>1, <3>2, <3>4, StepsType DEF OpenStep, GatewayStep
    <3> QED BY <3>3, <3>4
  <2>2. work' \in [Workers -> WorkRecords']
    BY <1>4, WorkFacts, GotoType DEF OpenStep, Preparing, Executing, Clearing
  <2> QED
    BY <1>4, <2>1, <2>2 DEF TypeOK, OpenStep, CallRecords, WorkRecords
<1>5. CASE SaveClaimedRun(w)
  <2>1. runs' \in [Runs -> RunRecords]
    BY <1>5, WorkFacts, RunsType DEF SaveClaimedRun, SetRun
  <2>2. work' \in [Workers -> WorkRecords']
    BY <1>5, WorkFacts, GotoType DEF SaveClaimedRun, Preparing, Executing, Clearing
  <2> QED
    BY <1>5, <2>1, <2>2 DEF TypeOK, SaveClaimedRun, CallRecords, WorkRecords
<1>6. CASE LogClaim(w)
  <2>1. trail' \in [Runs -> (Statuses \cup {"none"}) \X (Statuses \cup {"none"})]
    BY <1>6, WorkFacts, TrailType DEF LogClaim, Open
  <2>2. work' \in [Workers -> WorkRecords']
    BY <1>6, WorkFacts, GotoType DEF LogClaim, Preparing, Executing, Clearing
  <2> QED
    BY <1>6, <2>1, <2>2 DEF TypeOK, LogClaim, CallRecords, WorkRecords
<1>7. CASE LookUpResult(w)
  <2>1. ledger' \in [Runs -> [Attempts -> Contract!Outcomes]]
    BY <1>7, WorkFacts, LedgerType DEF LookUpResult, Contract!Outcomes, Contract!Ends
  <2>2. work' \in [Workers -> WorkRecords']
    BY <1>7, WorkFacts, GotoType DEF LookUpResult, Preparing, Executing, Clearing
  <2> QED
    BY <1>7, <2>1, <2>2 DEF TypeOK, Contract!Outcomes, Contract!Ends, LookUpResult,
       CallRecords, WorkRecords
<1>8. CASE CallProvider(w)
  <2>1. effects' \in [Runs -> Nat]
    BY <1>8, WorkFacts DEF CallProvider, TypeOK
  <2>2. work' \in [Workers -> WorkRecords']
    BY <1>8, WorkFacts, GotoType DEF CallProvider, Preparing, Executing, Clearing
  <2> QED
    BY <1>8, <2>1, <2>2 DEF TypeOK, CallProvider, CallRecords, WorkRecords
<1>9. CASE SaveResult(w)
  <2>1. results' \in [Runs -> BOOLEAN]
    BY <1>9, WorkFacts DEF SaveResult, TypeOK
  <2>2. work' \in [Workers -> WorkRecords']
    BY <1>9, WorkFacts, GotoType DEF SaveResult, Preparing, Executing, Clearing
  <2> QED
    BY <1>9, <2>1, <2>2 DEF TypeOK, SaveResult, CallRecords, WorkRecords
<1>10. CASE RecheckJob(w)
  <2>1. work' \in [Workers -> WorkRecords']
    <3>1. JobOf(w).status \in Statuses
      <4>1. work[w].job \in DOMAIN jobs BY <1>10, WorkFacts DEF RecheckJob
      <4>2. jobs \in Seq(JobRecords) BY DEF TypeOK
      <4>3. jobs[work[w].job] \in JobRecords BY <4>1, <4>2
      <4> QED BY <4>3 DEF JobOf, JobRecords
    <3>2. PICK x \in Statuses \cup {"none"} :
             work' = [work EXCEPT ![w].pc = "recheckRun", ![w].seen = x]
      BY <1>10, <3>1 DEF RecheckJob, Reads
    <3>3. [work[w] EXCEPT !.pc = "recheckRun", !.seen = x] \in WorkRecords
      BY WorkFacts DEF WorkRecords, Executing
    <3>4. work' = [work EXCEPT ![w] = [work[w] EXCEPT !.pc = "recheckRun", !.seen = x]]
      BY <3>2 DEF TypeOK
    <3> QED BY <1>10, <3>3, <3>4, WorkType DEF RecheckJob
  <2> QED
    BY <1>10, <2>1 DEF TypeOK, RecheckJob, CallRecords, WorkRecords
<1>11. CASE RecheckRun(w)
  <2>1. ledger' \in [Runs -> [Attempts -> Contract!Outcomes]]
    <3>1. CASE UNCHANGED ledger BY <3>1 DEF TypeOK, Contract!Outcomes, Contract!Ends
    <3>2. CASE ~ UNCHANGED ledger
      BY <1>11, <3>2, LedgerType DEF RecheckRun, Contract!Outcomes, Contract!Ends
    <3> QED BY <3>1, <3>2
  <2>2. work' \in [Workers -> WorkRecords']
    <3>1. CASE Goto(w, "endStep")
      BY <1>11, <3>1, GotoType DEF RecheckRun, Executing
    <3>2. CASE ~ Goto(w, "endStep")
      <4>1. runs[RunOf(w)] \in RunRecords
        BY <1>11, WorkFacts DEF RecheckRun, TypeOK
      <4>2. work[w].rec \in RunRecords BY WorkFacts DEF WorkRecords
      <4>3. PICK pc \in {"findDrop", "dropJob"}, rec \in RunRecords :
               work' = [work EXCEPT ![w].pc = pc, ![w].rec = rec]
        BY <1>11, <3>2, <4>1, <4>2 DEF RecheckRun, Reads, TypeOK
      <4>4. [work[w] EXCEPT !.pc = pc, !.rec = rec] \in WorkRecords
        BY WorkFacts DEF WorkRecords, Clearing
      <4>5. work' = [work EXCEPT ![w] = [work[w] EXCEPT !.pc = pc, !.rec = rec]]
        BY <4>3 DEF TypeOK
      <4> QED BY <1>11, <4>4, <4>5, WorkType DEF RecheckRun
    <3> QED BY <3>1, <3>2
  <2> QED
    BY <1>11, <2>1, <2>2 DEF TypeOK, Contract!Outcomes, Contract!Ends, RecheckRun,
       CallRecords, WorkRecords
<1>12. CASE DropJob(w)
  <2>1. jobs' \in Seq(JobRecords) /\ DOMAIN jobs \subseteq DOMAIN jobs'
    BY <1>12, WorkFacts, JobsType DEF DropJob, Open
  <2>2. work' \in [Workers -> WorkRecords']
    BY <1>12, <2>1, GotoType DEF DropJob, Clearing
  <2> QED
    BY <1>12, <2>1, <2>2 DEF TypeOK, DropJob, CallRecords, WorkRecords
<1>13. CASE FindDroppedStep(w)
  <2>1. work' \in [Workers -> WorkRecords']
    BY <1>13, WorkFacts, GotoType DEF FindDroppedStep, Preparing, Executing, Clearing
  <2> QED
    BY <1>13, <2>1 DEF TypeOK, FindDroppedStep, CallRecords, WorkRecords
<1>14. CASE DropStep(w)
  <2>1. steps' \in SUBSET StepRecords
    <3>1. AttemptOf(w) \in Attempts /\ RunOf(w) \in Runs
      BY <1>14, WorkFacts DEF DropStep, Executing
    <3>2. FixedOrder(AttemptOf(w), "gateway") \in Nat BY <3>1, FixedOrderNat
    <3> QED BY <1>14, <3>1, <3>2, StepsType DEF DropStep, GatewayStep, EndStatus
  <2>2. work' \in [Workers -> WorkRecords']
    BY <1>14, WorkFacts, GotoType DEF DropStep, Preparing, Executing, Clearing
  <2> QED
    BY <1>14, <2>1, <2>2 DEF TypeOK, DropStep, CallRecords, WorkRecords
<1>15. CASE EndStep(w)
  <2>1. steps' \in SUBSET StepRecords
    <3>1. AttemptOf(w) \in Attempts /\ RunOf(w) \in Runs
      BY <1>15, WorkFacts DEF EndStep, Executing
    <3>2. FixedOrder(AttemptOf(w), "gateway") \in Nat BY <3>1, FixedOrderNat
    <3> QED BY <1>15, <3>1, <3>2, StepsType DEF EndStep, GatewayStep, EndStatus
  <2>2. work' \in [Workers -> WorkRecords']
    BY <1>15, WorkFacts, GotoType DEF EndStep, Preparing, Executing, Clearing, EndStatus
  <2> QED
    BY <1>15, <2>1, <2>2 DEF TypeOK, EndStep, CallRecords, WorkRecords
<1>16. CASE EndJob(w)
  <2>1. jobs' \in Seq(JobRecords) /\ DOMAIN jobs \subseteq DOMAIN jobs'
    BY <1>16, WorkFacts, JobsType DEF EndJob, Open, EndStatus
  <2>2. work' \in [Workers -> WorkRecords']
    BY <1>16, <2>1, GotoType DEF EndJob, Executing
  <2> QED
    BY <1>16, <2>1, <2>2 DEF TypeOK, EndJob, CallRecords, WorkRecords
<1>17. CASE EndRun(w)
  <2>1. runs' \in [Runs -> RunRecords]
    <3>1. AttemptOf(w) \in Attempts BY <1>17, WorkFacts DEF EndRun, Executing
    <3>2. EndStatus(w) \in Statuses BY DEF EndStatus
    <3> QED BY <1>17, <3>1, <3>2, RunsType DEF EndRun
  <2>2. ledger' \in [Runs -> [Attempts -> Contract!Outcomes]]
    BY <1>17, WorkFacts, LedgerType DEF EndRun, EndStatus, Contract!Outcomes,
       Contract!Ends
  <2>3. work' \in [Workers -> WorkRecords']
    BY <1>17, WorkFacts, GotoType DEF EndRun, Preparing, Executing, Clearing, EndStatus
  <2> QED
    BY <1>17, <2>1, <2>2, <2>3 DEF TypeOK, Contract!Outcomes, Contract!Ends, EndRun,
       CallRecords, WorkRecords
<1>18. CASE LogEnd(w)
  <2>1. trail' \in [Runs -> (Statuses \cup {"none"}) \X (Statuses \cup {"none"})]
    BY <1>18, WorkFacts, TrailType DEF LogEnd, Open, EndStatus
  <2>2. work' \in [Workers -> WorkRecords']
    BY <1>18, WorkFacts, GotoType DEF LogEnd, Preparing, Executing, Clearing, EndStatus
  <2> QED
    BY <1>18, <2>1, <2>2 DEF TypeOK, LogEnd, CallRecords, WorkRecords
<1> QED
  BY <1>1, <1>2, <1>3, <1>4, <1>5, <1>6, <1>7, <1>8, <1>9, <1>10, <1>11, <1>12, <1>13,
     <1>14, <1>15, <1>16, <1>17, <1>18
  DEF WorkerStep

-----------------------------------------------------------------------------
(* What a step leaves alone. *)

(* Jobs keep their run and attempt, and none becomes pending again. *)
JobsKeep ==
    /\ DOMAIN jobs \subseteq DOMAIN jobs'
    /\ \A j \in DOMAIN jobs :
          /\ jobs'[j].run = jobs[j].run
          /\ jobs'[j].attempt = jobs[j].attempt
          /\ jobs'[j].status = "pending" => jobs[j].status = "pending"

StepsKeep == \A r, a : HasDispatch(r, a) => HasDispatch(r, a)'

CallStep(h) ==
    \/ \E r \in Runs : BeginStart(h, r) \/ BeginRetry(h, r) \/ BeginCancel(h, r)
    \/ HandlerStep(h)
    \/ AbortCall(h)
WorkStep(w) == ClaimJob(w) \/ WorkerStep(w) \/ AbortWork(w)

(* No save puts a job back into the queue. *)
LEMMA SetJobKeeps ==
    ASSUME TypeOK, NEW j \in DOMAIN jobs, NEW st \in Statuses \ {"pending"}, SetJob(j, st)
    PROVE  JobsKeep /\ DOMAIN jobs' = DOMAIN jobs
<1>1. jobs \in Seq(JobRecords) BY DEF TypeOK
<1>2. jobs[j] \in JobRecords BY <1>1
<1>3. \A i \in DOMAIN jobs : jobs'[i] = IF i = j THEN [jobs[i] EXCEPT !.status = st]
                                                 ELSE jobs[i]
  BY JobsType
<1>4. DOMAIN jobs' = DOMAIN jobs BY JobsType
<1> QED BY <1>2, <1>3, <1>4 DEF JobsKeep, JobRecords

(* An insert loses no dispatch step. *)
LEMMA InsertKeeps ==
    ASSUME NEW s, steps' = steps \cup {s}
    PROVE  StepsKeep
BY DEF StepsKeep, HasDispatch

(* Saving a gateway step loses no dispatch step. *)
LEMMA UpsertKeeps ==
    ASSUME NEW r, NEW a, NEW st, steps' = WithStep(GatewayStep(r, a, st))
    PROVE  StepsKeep
BY DEF StepsKeep, HasDispatch, WithStep, GatewayStep, Step, SameKey

(* What leaves the jobs alone keeps them. *)
LEMMA SameJobsKeep == UNCHANGED jobs => JobsKeep
BY DEF JobsKeep
(* What leaves the steps alone keeps them. *)
LEMMA SameStepsKeep == UNCHANGED steps => StepsKeep
BY DEF StepsKeep, HasDispatch

(* What a step of a request leaves alone. *)
LEMMA HandlerFrame ==
    ASSUME TypeOK, CallsInv, NEW h \in Handlers, CallStep(h)
    PROVE  /\ UNCHANGED <<results, effects, work, ledger>>
           /\ \A g \in Handlers \ {h} : call'[g] = call[g]
           /\ StepsKeep
           /\ JobsKeep
           /\ DOMAIN jobs' = DOMAIN jobs \/ EnqueueJob(h)
<1>1. UNCHANGED <<results, effects, work, ledger>>
  BY DEF CallStep, BeginStart, BeginRetry, BeginCancel, AbortCall, HandlerStep,
     SaveQueuedRun, LogQueued, SaveDispatchStep, EnqueueJob, ListOpenJobs, CancelOneJob,
     FindOpenGatewayStep, CancelGatewayStep, FindCancelStep, OrderCancelStep,
     InsertCancelStep, SaveCancelledRun, LogCancelled
<1>d. DOMAIN call = Handlers BY DEF TypeOK
<1>2. \A g \in Handlers \ {h} : call'[g] = call[g]
  BY <1>d DEF CallStep, BeginStart, BeginRetry, BeginCancel, AbortCall, HandlerStep,
     SaveQueuedRun, LogQueued, SaveDispatchStep, EnqueueJob, ListOpenJobs, CancelOneJob,
     FindOpenGatewayStep, CancelGatewayStep, FindCancelStep, OrderCancelStep,
     InsertCancelStep, SaveCancelledRun, LogCancelled, Go, Return, Accept
<1>3. CASE SaveDispatchStep(h) \/ InsertCancelStep(h)
  <2>1. UNCHANGED steps \/ \E s : steps' = steps \cup {s}
    BY <1>3 DEF SaveDispatchStep, InsertCancelStep
  <2>2. UNCHANGED jobs BY <1>3 DEF SaveDispatchStep, InsertCancelStep
  <2> QED BY <1>1, <1>2, <2>1, <2>2, InsertKeeps, SameStepsKeep, SameJobsKeep
<1>4. CASE CancelGatewayStep(h)
  BY <1>1, <1>2, <1>4, UpsertKeeps, SameJobsKeep DEF CancelGatewayStep
<1>5. CASE CancelOneJob(h)
  <2>1. PICK j \in DOMAIN jobs : SetJob(j, "cancelled")
    BY <1>5, CallFacts DEF CancelOneJob, CallRecords
  <2>2. JobsKeep /\ DOMAIN jobs' = DOMAIN jobs BY <2>1, SetJobKeeps
  <2> QED BY <1>1, <1>2, <1>5, <2>2, SameStepsKeep DEF CancelOneJob
<1>6. CASE EnqueueJob(h)
  <2>1. /\ DOMAIN jobs' = DOMAIN jobs \cup {Len(jobs) + 1}
        /\ \A i \in DOMAIN jobs : jobs'[i] = jobs[i]
    BY <1>6, CallFacts, NewJobType DEF EnqueueJob
  <2>2. JobsKeep BY <2>1 DEF JobsKeep
  <2> QED BY <1>1, <1>2, <1>6, <2>2, SameStepsKeep DEF EnqueueJob
<1>7. CASE UNCHANGED <<steps, jobs>>
  BY <1>1, <1>2, <1>7, SameStepsKeep, SameJobsKeep
<1> QED
  BY <1>3, <1>4, <1>5, <1>6, <1>7
  DEF CallStep, BeginStart, BeginRetry, BeginCancel, AbortCall, HandlerStep,
      SaveQueuedRun, LogQueued, ListOpenJobs, FindOpenGatewayStep, FindCancelStep,
      OrderCancelStep, SaveCancelledRun, LogCancelled

(* What a step of a worker leaves alone. *)
LEMMA WorkerFrame ==
    ASSUME TypeOK, WorkInv, NEW w \in Workers, WorkStep(w)
    PROVE  /\ UNCHANGED call
           /\ \A v \in Workers \ {w} : work'[v] = work[v]
           /\ \A r \in Runs : results[r] => results'[r]
           /\ StepsKeep
           /\ JobsKeep
           /\ DOMAIN jobs' = DOMAIN jobs
<1>1. UNCHANGED call
  BY DEF WorkStep, ClaimJob, AbortWork, WorkerStep, LoadRun, SettleJob, FindGatewayStep,
     OpenStep, SaveClaimedRun, LogClaim, LookUpResult, CallProvider, SaveResult, RecheckJob,
     RecheckRun, DropJob, FindDroppedStep, DropStep, EndStep, EndJob, EndRun, LogEnd
<1>d. DOMAIN work = Workers BY DEF TypeOK
<1>2. \A v \in Workers \ {w} : work'[v] = work[v]
  BY <1>d DEF WorkStep, ClaimJob, AbortWork, WorkerStep, LoadRun, SettleJob,
     FindGatewayStep,
     OpenStep, SaveClaimedRun, LogClaim, LookUpResult, CallProvider, SaveResult, RecheckJob,
     RecheckRun, DropJob, FindDroppedStep, DropStep, EndStep, EndJob, EndRun, LogEnd,
     Goto, Leave, Got
<1>3. \A r \in Runs : results[r] => results'[r]
  BY DEF TypeOK, WorkStep, ClaimJob, AbortWork, WorkerStep, LoadRun, SettleJob,
     FindGatewayStep, OpenStep, SaveClaimedRun, LogClaim, LookUpResult, CallProvider,
     SaveResult, RecheckJob, RecheckRun, DropJob, FindDroppedStep, DropStep, EndStep,
     EndJob, EndRun, LogEnd
<1>4. StepsKeep
  <2>1. CASE UNCHANGED steps BY <2>1, SameStepsKeep
  <2>2. CASE OpenStep(w) \/ DropStep(w) \/ EndStep(w)
    BY <2>2, InsertKeeps, UpsertKeeps, SameStepsKeep DEF OpenStep, DropStep, EndStep
  <2> QED
    BY <2>1, <2>2
    DEF WorkStep, ClaimJob, AbortWork, WorkerStep, LoadRun, SettleJob, FindGatewayStep,
      SaveClaimedRun, LogClaim, LookUpResult, CallProvider, SaveResult, RecheckJob,
      RecheckRun, DropJob, FindDroppedStep, EndJob, EndRun, LogEnd
<1>5. JobsKeep /\ DOMAIN jobs' = DOMAIN jobs
  <2>1. CASE UNCHANGED jobs BY <2>1, SameJobsKeep
  <2>2. CASE ClaimJob(w)
    BY <2>2, SetJobKeeps DEF ClaimJob
  <2>3. CASE SettleJob(w) \/ DropJob(w) \/ EndJob(w)
    BY <2>3, WorkFacts, SetJobKeeps DEF SettleJob, DropJob, EndJob, EndStatus
  <2> QED
    BY <2>1, <2>2, <2>3
    DEF WorkStep, AbortWork, WorkerStep, LoadRun, FindGatewayStep, OpenStep,
      SaveClaimedRun, LogClaim, LookUpResult, CallProvider, SaveResult, RecheckJob,
      RecheckRun, FindDroppedStep, DropStep, EndStep, EndRun, LogEnd
<1> QED BY <1>1, <1>2, <1>3, <1>4, <1>5

(* A step of a worker writes the ledger only at the attempt of its job, and *)
(* then moves it from none to executing, or from executing to an end.       *)
LedgerMove(w, from, to) ==
    /\ OutcomeOf(RunOf(w), JobOf(w).attempt) = from
    /\ ledger' = [ledger EXCEPT ![RunOf(w)][JobOf(w).attempt] = to]

(* What a step of a worker does to the ledger. *)
LEMMA WorkerLedger ==
    ASSUME TypeOK, WorkInv, NEW w \in Workers, WorkStep(w)
    PROVE  \/ UNCHANGED ledger
           \/ LookUpResult(w) /\ LedgerMove(w, "none", "executing")
           \/ /\ work[w].pc \in Executing
              /\ \E end \in Contract!Ends : LedgerMove(w, "executing", end)
<1>1. CASE LookUpResult(w)
  <2>1. work[w].pc \in Preparing /\ work[w].pc \in Loaded
    BY <1>1 DEF LookUpResult, Preparing, Loaded
  <2>2. AttemptOf(w) = JobOf(w).attempt /\ OutcomeOf(RunOf(w), JobOf(w).attempt) = "none"
    BY <2>1 DEF WorkInv
  <2> QED BY <1>1, <2>2 DEF LookUpResult, LedgerMove
<1>2. CASE RecheckRun(w) \/ EndRun(w)
  <2>1. work[w].pc \in Executing
    BY <1>2 DEF RecheckRun, EndRun, Executing
  <2>2. /\ AttemptOf(w) = JobOf(w).attempt
        /\ OutcomeOf(RunOf(w), JobOf(w).attempt) = "executing"
    BY <2>1 DEF WorkInv
  <2> QED BY <1>2, <2>1, <2>2 DEF RecheckRun, EndRun, LedgerMove, Contract!Ends
<1>3. CASE UNCHANGED ledger BY <1>3
<1> QED
  BY <1>1, <1>2, <1>3
  DEF WorkStep, ClaimJob, AbortWork, WorkerStep, LoadRun, SettleJob, FindGatewayStep,
      OpenStep, SaveClaimedRun, LogClaim, CallProvider, SaveResult, RecheckJob, DropJob,
      FindDroppedStep, DropStep, EndStep, EndJob, LogEnd

(* A move of the ledger changes one entry. *)
LEMMA LedgerPoint ==
    ASSUME TypeOK, NEW w \in Workers, work[w].pc # "idle", WorkInv,
           NEW from, NEW to, LedgerMove(w, from, to),
           NEW r \in Runs, NEW a \in Attempts
    PROVE  ledger'[r][a] = IF r = RunOf(w) /\ a = JobOf(w).attempt THEN to
                           ELSE ledger[r][a]
BY WorkFacts DEF LedgerMove, TypeOK

(* What failed or succeeded stays so; what is not none never becomes none. *)
LedgerKeeps ==
    \A r \in Runs, a \in Attempts :
        /\ ledger[r][a] \in {"failed", "succeeded"} => ledger'[r][a] = ledger[r][a]
        /\ ledger'[r][a] = "none" => ledger[r][a] = "none"

(* Recorded failures and successes survive every step of a worker. *)
LEMMA WorkerLedgerKeeps ==
    ASSUME TypeOK, WorkInv, NEW w \in Workers, WorkStep(w)
    PROVE  LedgerKeeps
<1>1. CASE UNCHANGED ledger BY <1>1 DEF LedgerKeeps
<1>2. CASE ~ UNCHANGED ledger
  <2>1. PICK from \in {"none", "executing"},
             to \in {"executing"} \cup Contract!Ends : LedgerMove(w, from, to)
    BY <1>2, WorkerLedger
  <2>2. work[w].pc # "idle"
    BY <1>2, WorkerLedger DEF LookUpResult, Executing
  <2>3. RunOf(w) \in Runs /\ JobOf(w).attempt \in Attempts BY <2>2, WorkFacts
  <2>4. ledger[RunOf(w)][JobOf(w).attempt] = from BY <2>1 DEF LedgerMove, OutcomeOf
  <2> QED BY <2>1, <2>2, <2>3, <2>4, LedgerPoint DEF LedgerKeeps, Contract!Ends
<1> QED BY <1>1, <1>2

(* Elsewhere than at a job's own attempt a worker leaves the ledger alone.  *)
LEMMA OtherJobsLedger ==
    ASSUME TypeOK, JobsInv, WorkInv, NEW w \in Workers, WorkStep(w),
           NEW j \in DOMAIN jobs, work[w].pc # "idle" => j # work[w].job
    PROVE  ledger'[jobs[j].run][jobs[j].attempt] = ledger[jobs[j].run][jobs[j].attempt]
<1>0. jobs[j] \in JobRecords
  <2>1. jobs \in Seq(JobRecords) BY DEF TypeOK
  <2> QED BY <2>1
<1>1. CASE UNCHANGED ledger BY <1>1
<1>2. CASE ~ UNCHANGED ledger
  <2>1. PICK from \in {"none", "executing"},
             to \in {"executing"} \cup Contract!Ends : LedgerMove(w, from, to)
    BY <1>2, WorkerLedger
  <2>2. work[w].pc # "idle"
    BY <1>2, WorkerLedger DEF LookUpResult, Executing
  <2>3. work[w].job \in DOMAIN jobs /\ work[w].job # j BY <2>2, WorkFacts
  <2>4. ~ (jobs[j].run = RunOf(w) /\ jobs[j].attempt = JobOf(w).attempt)
    BY <2>3 DEF JobsInv, IsJobOf, RunOf, JobOf
  <2> QED BY <1>0, <2>1, <2>2, <2>4, LedgerPoint DEF JobRecords
<1> QED BY <1>1, <1>2

-----------------------------------------------------------------------------
(* Each conjunct of the inductive invariant is preserved. *)

(* The types of a job, and of the attempt before its own. *)
LEMMA JobFacts ==
    ASSUME TypeOK, NEW j \in DOMAIN jobs
    PROVE  /\ jobs[j] \in JobRecords
           /\ jobs[j].run \in Runs
           /\ jobs[j].attempt \in Attempts
           /\ jobs[j].attempt # 1 => jobs[j].attempt - 1 \in Attempts
<1>1. jobs \in Seq(JobRecords) BY DEF TypeOK
<1>2. jobs[j] \in JobRecords BY <1>1
<1>3. jobs[j].attempt \in Attempts BY <1>2 DEF JobRecords
<1>4. jobs[j].attempt # 1 => jobs[j].attempt - 1 \in Attempts
  BY <1>3, MaxAttemptsAssumption DEF Attempts
<1> QED BY <1>2, <1>3, <1>4 DEF JobRecords

(* Requests preserve JobsInv: the holder of the ticket enqueues the only job. *)
LEMMA JobsByCalls ==
    ASSUME TypeOK, JobsInv, CallsInv, LedgerInv, NEW h \in Handlers, CallStep(h)
    PROVE  JobsInv'
<1>1. UNCHANGED ledger /\ StepsKeep /\ JobsKeep BY HandlerFrame
<1>2. CASE DOMAIN jobs' = DOMAIN jobs
  BY <1>1, <1>2 DEF JobsInv, JobsKeep, StepsKeep, OutcomeOf, IsJobOf
<1>3. CASE EnqueueJob(h)
  <2> DEFINE n == Len(jobs) + 1
             r == call[h].run
             a == NextAttempt(h)
  <2>0. r \in Runs /\ a \in Attempts /\ call[h].pc = "enqueue"
    BY <1>3, CallFacts DEF EnqueueJob, NextAttempt
  <2>1. /\ DOMAIN jobs' = DOMAIN jobs \cup {n}
        /\ \A i \in DOMAIN jobs : jobs'[i] = jobs[i]
        /\ jobs'[n] = [run |-> r, attempt |-> a, status |-> "pending"]
    BY <1>3, <2>0, NewJobType DEF EnqueueJob, NextAttempt
  <2>2. HasDispatch(r, a) /\ ~HasJob(r, a) BY <2>0 DEF CallsInv
  <2>3. OutcomeOf(r, a) = "none" BY <2>0, <2>2 DEF LedgerInv, HasJob
  <2> HIDE DEF n, r, a
  <2>5. /\ \E s \in steps' : s.run = r /\ s.attempt = a /\ s.suffix = "dispatch"
        /\ ledger'[r][a] = "none"
    BY <1>1, <2>2, <2>3 DEF StepsKeep, OutcomeOf, HasDispatch
  <2>6. \A i \in DOMAIN jobs : ~ (jobs[i].run = r /\ jobs[i].attempt = a)
    BY <2>2 DEF HasJob, IsJobOf
  <2>7. \A j \in DOMAIN jobs' :
          /\ HasDispatch(jobs[j].run, jobs[j].attempt)'
          /\ jobs'[j].status = "pending" =>
                ledger'[jobs'[j].run][jobs'[j].attempt] = "none"
    BY <1>1, <2>1, <2>5 DEF JobsInv, StepsKeep, OutcomeOf, HasDispatch
  <2>8. \A i, j \in DOMAIN jobs' :
           jobs'[i].run = jobs'[j].run /\ jobs'[i].attempt = jobs'[j].attempt => i = j
    BY <2>1, <2>6 DEF JobsInv, IsJobOf
  <2> QED BY <2>7, <2>8 DEF JobsInv, IsJobOf, OutcomeOf
<1> QED BY <1>2, <1>3, HandlerFrame

(* Requests preserve JobAfterFailure. *)
LEMMA FailuresByCalls ==
    ASSUME TypeOK, CallsInv, JobAfterFailure, QueuesAfterFailure,
           NEW h \in Handlers, CallStep(h)
    PROVE  JobAfterFailure'
<1>1. UNCHANGED ledger /\ JobsKeep BY HandlerFrame
<1>2. CASE DOMAIN jobs' = DOMAIN jobs
  BY <1>1, <1>2 DEF JobAfterFailure, JobsKeep, OutcomeOf
<1>3. CASE EnqueueJob(h)
  <2> DEFINE n == Len(jobs) + 1
             r == call[h].run
             a == NextAttempt(h)
  <2>0. r \in Runs /\ a \in Attempts /\ call[h].pc = "enqueue"
    BY <1>3, CallFacts DEF EnqueueJob, NextAttempt
  <2>1. /\ DOMAIN jobs' = DOMAIN jobs \cup {n}
        /\ \A i \in DOMAIN jobs : jobs'[i] = jobs[i]
        /\ jobs'[n] = [run |-> r, attempt |-> a, status |-> "pending"]
    BY <1>3, <2>0, NewJobType DEF EnqueueJob, NextAttempt
  <2>2. a = 1 \/ OutcomeOf(r, a - 1) = "failed"
    <3>1. CASE call[h].rec = Absent BY <3>1 DEF Absent, NextAttempt
    <3>2. CASE OutcomeOf(r, call[h].rec.attempt) = "failed"
      <4>1. call[h].rec.attempt \in Nat BY CallFacts
      <4>2. a - 1 = call[h].rec.attempt BY <4>1 DEF NextAttempt
      <4> QED BY <3>2, <4>2
    <3> QED BY <2>0, <3>1, <3>2 DEF QueuesAfterFailure, Queueing
  <2> HIDE DEF n, r, a
  <2>3. jobs'[n].attempt = 1 \/ ledger'[jobs'[n].run][jobs'[n].attempt - 1] = "failed"
    BY <1>1, <2>1, <2>2 DEF OutcomeOf
  <2> QED BY <1>1, <2>1, <2>3 DEF JobAfterFailure, OutcomeOf
<1> QED BY <1>2, <1>3, HandlerFrame

(* Workers preserve JobAfterFailure: failures on record stay there. *)
LEMMA FailuresByWork ==
    ASSUME TypeOK, WorkInv, JobAfterFailure, NEW w \in Workers, WorkStep(w)
    PROVE  JobAfterFailure'
<1>1. JobsKeep /\ DOMAIN jobs' = DOMAIN jobs BY WorkerFrame
<1>2. LedgerKeeps BY WorkerLedgerKeeps
<1>3. ASSUME NEW j \in DOMAIN jobs
      PROVE  jobs'[j].attempt = 1
             \/ ledger'[jobs'[j].run][jobs'[j].attempt - 1] = "failed"
  <2>1. jobs'[j].run = jobs[j].run /\ jobs'[j].attempt = jobs[j].attempt
    BY <1>1 DEF JobsKeep
  <2>2. jobs[j].attempt = 1
        \/ ledger'[jobs[j].run][jobs[j].attempt - 1] = "failed"
    BY <1>2, JobFacts DEF JobAfterFailure, OutcomeOf, LedgerKeeps
  <2> QED BY <2>1, <2>2
<1> QED BY <1>1, <1>3 DEF JobAfterFailure, OutcomeOf

(* Workers preserve JobsInv. *)
LEMMA JobsByWork ==
    ASSUME TypeOK, JobsInv, WorkInv, NEW w \in Workers, WorkStep(w)
    PROVE  JobsInv'
<1>1. StepsKeep /\ JobsKeep /\ DOMAIN jobs' = DOMAIN jobs BY WorkerFrame
<1>3. \A j \in DOMAIN jobs : jobs[j].status = "pending" =>
          ledger'[jobs[j].run][jobs[j].attempt] = ledger[jobs[j].run][jobs[j].attempt]
  <2> SUFFICES ASSUME NEW j \in DOMAIN jobs, jobs[j].status = "pending"
               PROVE  ledger'[jobs[j].run][jobs[j].attempt]
                        = ledger[jobs[j].run][jobs[j].attempt]
    OBVIOUS
  <2>1. work[w].pc # "idle" => j # work[w].job BY DEF WorkInv, JobOf
  <2> QED BY <2>1, OtherJobsLedger
<1>4. \A j \in DOMAIN jobs :
         /\ HasDispatch(jobs[j].run, jobs[j].attempt)'
         /\ jobs'[j].status = "pending" =>
                ledger'[jobs'[j].run][jobs'[j].attempt] = "none"
  <2> SUFFICES ASSUME NEW j \in DOMAIN jobs
               PROVE  /\ HasDispatch(jobs[j].run, jobs[j].attempt)'
                      /\ jobs'[j].status = "pending" =>
                            ledger'[jobs'[j].run][jobs'[j].attempt] = "none"
    OBVIOUS
  <2>1. /\ jobs'[j].run = jobs[j].run /\ jobs'[j].attempt = jobs[j].attempt
        /\ jobs'[j].status = "pending" => jobs[j].status = "pending"
    BY <1>1 DEF JobsKeep
  <2>2. HasDispatch(jobs[j].run, jobs[j].attempt)'
    BY <1>1, <2>1 DEF JobsInv, StepsKeep, HasDispatch
  <2>3. jobs[j].status = "pending" => ledger'[jobs[j].run][jobs[j].attempt] = "none"
    BY <1>3 DEF JobsInv, OutcomeOf
  <2> QED BY <2>1, <2>2, <2>3
<1>5. \A i, j \in DOMAIN jobs :
         jobs'[i].run = jobs'[j].run /\ jobs'[i].attempt = jobs'[j].attempt => i = j
  BY <1>1 DEF JobsInv, JobsKeep, IsJobOf
<1> QED BY <1>1, <1>4, <1>5 DEF JobsInv, IsJobOf, OutcomeOf

(* A request keeps the record it read, and its kind, until it returns. *)
LEMMA HandlerLocal ==
    ASSUME TypeOK, NEW h \in Handlers, HandlerStep(h)
    PROVE  \/ call'[h] = IdleCall
           \/ /\ call'[h].run = call[h].run
              /\ call'[h].rec = call[h].rec
              /\ call[h].pc # "idle"
              /\ call'[h].pc \in Queueing => call[h].pc \in Queueing
              /\ call'[h].pc \in Cancelling => call[h].pc \in Cancelling
              /\ call'[h].pc = "enqueue" =>
                   /\ SaveDispatchStep(h)
                   /\ call[h].pc = "dispatch"
                   /\ \E o \in Nat : LET s == Step(call[h].run, NextAttempt(h), "dispatch",
                                                   o, "completed")
                                     IN  CanInsert(s) /\ steps' = steps \cup {s}
<1>0. DOMAIN call = Handlers /\ call[h] \in CallRecords BY DEF TypeOK
<1>1. CASE SaveQueuedRun(h) \/ LogQueued(h) \/ EnqueueJob(h)
  BY <1>0, <1>1 DEF SaveQueuedRun, LogQueued, EnqueueJob, Go, Return, Queueing,
     Cancelling,
     CallRecords
<1>2. CASE SaveDispatchStep(h)
  <2> DEFINE a == NextAttempt(h)
             s == Step(call[h].run, a, "dispatch", FixedOrder(a, "dispatch"), "completed")
  <2>1. CASE Return(h) BY <1>0, <2>1 DEF Return
  <2>2. CASE CanInsert(s) /\ steps' = steps \cup {s} /\ Go(h, "enqueue")
    <3>1. FixedOrder(a, "dispatch") \in Nat
      <4>1. call[h].rec.attempt \in Nat
        BY <1>0, MaxAttemptsAssumption DEF CallRecords, RunRecords, Absent, Attempts
      <4> QED BY <4>1 DEF FixedOrder, NextAttempt
    <3>2. /\ call'[h].run = call[h].run /\ call'[h].rec = call[h].rec
          /\ call'[h].pc = "enqueue" /\ call[h].pc = "dispatch"
      BY <1>0, <1>2, <2>2 DEF Go, SaveDispatchStep, CallRecords
    <3> HIDE DEF a
    <3> QED BY <1>2, <2>2, <3>1, <3>2 DEF Queueing, Cancelling, a
  <2> QED BY <1>2, <2>1, <2>2 DEF SaveDispatchStep, NextAttempt
<1>3. CASE ListOpenJobs(h) \/ CancelOneJob(h) \/ OrderCancelStep(h)
  <2>1. CASE ListOpenJobs(h)
    <3>1. PICK x : call' = [call EXCEPT ![h].pc = "cancelJobs", ![h].todo = x]
      BY <2>1 DEF ListOpenJobs
    <3>2. /\ call'[h].run = call[h].run /\ call'[h].rec = call[h].rec
          /\ call'[h].pc = "cancelJobs" /\ call[h].pc = "listJobs"
      BY <1>0, <2>1, <3>1 DEF ListOpenJobs, CallRecords
    <3> QED BY <3>2 DEF Queueing, Cancelling, CallPCs
  <2>2. CASE CancelOneJob(h)
    <3>1. PICK x : call' = [call EXCEPT ![h].todo = @ \ {x}]
      BY <2>2 DEF CancelOneJob
    <3>2. /\ call'[h].run = call[h].run /\ call'[h].rec = call[h].rec
          /\ call'[h].pc = "cancelJobs" /\ call[h].pc = "cancelJobs"
      BY <1>0, <2>2, <3>1 DEF CancelOneJob, CallRecords
    <3> QED BY <3>2 DEF Queueing, Cancelling, CallPCs
  <2>3. CASE OrderCancelStep(h)
    <3>1. PICK x : call' = [call EXCEPT ![h].pc = "insertCancelStep", ![h].order = x]
      BY <2>3 DEF OrderCancelStep
    <3>2. /\ call'[h].run = call[h].run /\ call'[h].rec = call[h].rec
          /\ call'[h].pc = "insertCancelStep" /\ call[h].pc = "orderCancelStep"
      BY <1>0, <2>3, <3>1 DEF OrderCancelStep, CallRecords
    <3> QED BY <3>2 DEF Queueing, Cancelling, CallPCs
  <2> QED BY <1>3, <2>1, <2>2, <2>3
<1>4. CASE \/ FindOpenGatewayStep(h) \/ CancelGatewayStep(h) \/ FindCancelStep(h)
           \/ InsertCancelStep(h) \/ SaveCancelledRun(h) \/ LogCancelled(h)
  BY <1>0, <1>4 DEF FindOpenGatewayStep, CancelGatewayStep, FindCancelStep,
     InsertCancelStep, SaveCancelledRun, LogCancelled, Go, Return, Queueing, Cancelling,
     CallRecords, CallPCs
<1> QED BY <1>1, <1>2, <1>3, <1>4 DEF HandlerStep

(* Requests preserve CallsInv: the unique index hands out one ticket. *)
LEMMA CallsByCalls ==
    ASSUME TypeOK, JobsInv, CallsInv, NEW h \in Handlers, CallStep(h)
    PROVE  CallsInv'
<1> DEFINE Held(g) ==
      /\ call'[g].pc # "idle" => call'[g].run \in Runs
      /\ call'[g].pc \in Queueing => call'[g].rec.attempt + 1 \in Attempts
      /\ call'[g].pc \in Cancelling => call'[g].rec.status \in Open
<1>1. UNCHANGED ledger /\ StepsKeep /\ JobsKeep
      /\ \A g \in Handlers \ {h} : call'[g] = call[g]
  BY HandlerFrame
<1>2. DOMAIN call = Handlers BY DEF TypeOK
<1>3. IdleCall.pc \notin Queueing \cup Cancelling /\ IdleCall.pc = "idle"
  BY DEF IdleCall, Queueing, Cancelling
<1>4. Held(h)
  <2>1. ASSUME NEW r \in Runs, BeginStart(h, r) PROVE Held(h)
    <3>1. call'[h].pc = "saveRun" /\ call'[h].run = r /\ call'[h].rec = Absent
      BY <1>2, <2>1 DEF BeginStart, Accept, IdleCall
    <3>2. Absent.attempt + 1 \in Attempts
      BY MaxAttemptsAssumption DEF Absent, Attempts
    <3> QED BY <3>1, <3>2 DEF Queueing, Cancelling
  <2>2. ASSUME NEW r \in Runs, BeginRetry(h, r) PROVE Held(h)
    <3>1. call'[h].pc = "saveRun" /\ call'[h].run = r /\ call'[h].rec = runs[r]
      BY <1>2, <2>2 DEF BeginRetry, Accept, IdleCall
    <3>2. runs[r].status = "failed" /\ runs[r].attempt < MaxAttempts
      BY <2>2 DEF BeginRetry, RetryAllowed
    <3>3. runs[r].attempt + 1 \in Attempts
      <4>1. runs[r] \in RunRecords BY DEF TypeOK
      <4> QED BY <3>2, <4>1, MaxAttemptsAssumption DEF RunRecords, Absent, Attempts
    <3> QED BY <3>1, <3>3 DEF Queueing, Cancelling
  <2>3. ASSUME NEW r \in Runs, BeginCancel(h, r) PROVE Held(h)
    <3>1. call'[h].pc = "listJobs" /\ call'[h].run = r /\ call'[h].rec = runs[r]
      BY <1>2, <2>3 DEF BeginCancel, Accept, IdleCall
    <3> QED BY <2>3, <3>1 DEF BeginCancel, CancelAllowed, Queueing, Cancelling
  <2>4. CASE HandlerStep(h)
    BY <1>3, <2>4, HandlerLocal DEF CallsInv, NextAttempt
  <2>5. CASE AbortCall(h)
    BY <1>2, <1>3, <2>5 DEF AbortCall, Return
  <2> QED BY <2>1, <2>2, <2>3, <2>4, <2>5 DEF CallStep
<1>5. \A g \in Handlers : Held(g)
  BY <1>1, <1>4 DEF CallsInv, NextAttempt
<1> HIDE DEF Held
<1>6. ASSUME call'[h].pc = "enqueue"
      PROVE  /\ call'[h].run = call[h].run /\ call'[h].rec = call[h].rec
             /\ SaveDispatchStep(h)
             /\ \E o \in Nat : LET s == Step(call[h].run, NextAttempt(h), "dispatch", o,
                                             "completed")
                               IN  CanInsert(s) /\ steps' = steps \cup {s}
  <2>1. CASE HandlerStep(h) BY <1>3, <1>6, <2>1, HandlerLocal
  <2>2. CASE ~HandlerStep(h)
    BY <1>2, <1>3, <1>6, <2>2
    DEF CallStep, BeginStart, BeginRetry, BeginCancel, AbortCall, Accept, Return, IdleCall
  <2> QED BY <2>1, <2>2
<1>7. ASSUME call'[h].pc = "enqueue"
      PROVE  /\ ~HasDispatch(call[h].run, NextAttempt(h))
             /\ \E t \in steps' : /\ t.run = call[h].run /\ t.attempt = NextAttempt(h)
                                  /\ t.suffix = "dispatch"
             /\ UNCHANGED jobs
  <2>1. PICK o \in Nat : LET s == Step(call[h].run, NextAttempt(h), "dispatch", o,
                                       "completed")
                         IN  CanInsert(s) /\ steps' = steps \cup {s}
    BY <1>6, <1>7
  <2>2. UNCHANGED jobs BY <1>6, <1>7 DEF SaveDispatchStep
  <2> DEFINE s == Step(call[h].run, NextAttempt(h), "dispatch", o, "completed")
  <2>3. s.run = call[h].run /\ s.attempt = NextAttempt(h) /\ s.suffix = "dispatch"
    BY DEF Step
  <2> HIDE DEF s
  <2>4. ~HasDispatch(call[h].run, NextAttempt(h))
    BY <2>1, <2>3 DEF CanInsert, StepsOf, SameKey, HasDispatch, s
  <2> QED BY <2>1, <2>2, <2>3, <2>4 DEF s
<1>8. ASSUME NEW g \in Handlers, call'[g].pc = "enqueue"
      PROVE  /\ \E s \in steps' : /\ s.run = call'[g].run
                                  /\ s.attempt = call'[g].rec.attempt + 1
                                  /\ s.suffix = "dispatch"
             /\ \A j \in DOMAIN jobs' : ~ (/\ jobs'[j].run = call'[g].run
                                           /\ jobs'[j].attempt = call'[g].rec.attempt + 1)
             /\ \A f \in Handlers :
                   /\ call'[f].pc = "enqueue" /\ call'[f].run = call'[g].run
                   /\ call'[f].rec.attempt + 1 = call'[g].rec.attempt + 1
                   => f = g
  <2>1. CASE g = h
    <3>1. call'[g].rec.attempt + 1 = NextAttempt(h) /\ call'[g].run = call[h].run
      BY <1>6, <1>8, <2>1 DEF NextAttempt
    <3>2. \A j \in DOMAIN jobs : ~IsJobOf(j, call[h].run, NextAttempt(h))
      BY <1>7, <1>8, <2>1 DEF JobsInv, IsJobOf
    <3>3. \A f \in Handlers \ {h} : call[f].pc = "enqueue" =>
             ~ (call[f].run = call[h].run /\ NextAttempt(f) = NextAttempt(h))
      BY <1>7, <1>8, <2>1 DEF CallsInv
    <3> QED BY <1>1, <1>7, <1>8, <2>1, <3>1, <3>2, <3>3 DEF IsJobOf, NextAttempt
  <2>2. CASE g # h
    <3>1. /\ call'[g] = call[g] /\ call[g].pc = "enqueue"
          /\ HasDispatch(call[g].run, NextAttempt(g))
          /\ ~HasJob(call[g].run, NextAttempt(g))
          /\ \A f \in Handlers : /\ call[f].pc = "enqueue" /\ call[f].run = call[g].run
                                /\ NextAttempt(f) = NextAttempt(g)
                                => f = g
      BY <1>1, <1>8, <2>2 DEF CallsInv
    <3>2. \E s \in steps' : /\ s.run = call'[g].run
                            /\ s.attempt = call'[g].rec.attempt + 1
                            /\ s.suffix = "dispatch"
      BY <1>1, <3>1 DEF StepsKeep, HasDispatch, NextAttempt
    <3>3. \A j \in DOMAIN jobs' : ~ (/\ jobs'[j].run = call'[g].run
                                     /\ jobs'[j].attempt = call'[g].rec.attempt + 1)
      <4>1. CASE DOMAIN jobs' = DOMAIN jobs
        BY <1>1, <3>1, <4>1 DEF JobsKeep, HasJob, IsJobOf, NextAttempt
      <4>2. CASE EnqueueJob(h)
        <5>1. call[h].pc = "enqueue" /\ ~ (/\ call[h].run = call[g].run
                                           /\ NextAttempt(h) = NextAttempt(g))
          BY <2>2, <3>1, <4>2 DEF EnqueueJob
        <5>2. call[h].run \in Runs /\ NextAttempt(h) \in Attempts
          BY <5>1, CallFacts DEF NextAttempt
        <5>3. /\ DOMAIN jobs' = DOMAIN jobs \cup {Len(jobs) + 1}
              /\ \A i \in DOMAIN jobs : jobs'[i] = jobs[i]
              /\ jobs'[Len(jobs) + 1] = [run |-> call[h].run, attempt |-> NextAttempt(h),
                                         status |-> "pending"]
          BY <4>2, <5>2, NewJobType DEF EnqueueJob, NextAttempt
        <5> QED BY <3>1, <5>1, <5>3 DEF HasJob, IsJobOf, NextAttempt
      <4> QED BY <4>1, <4>2, HandlerFrame
    <3>4. ASSUME call'[h].pc = "enqueue", call'[h].run = call'[g].run,
                 call'[h].rec.attempt + 1 = call'[g].rec.attempt + 1
          PROVE  FALSE
      BY <1>6, <1>7, <3>1, <3>4 DEF NextAttempt
    <3> QED BY <1>1, <3>1, <3>2, <3>3, <3>4 DEF NextAttempt
  <2> QED BY <2>1, <2>2
<1> QED
  BY <1>1, <1>5, <1>8
  DEF CallsInv, Held, NextAttempt, HasJob, IsJobOf, HasDispatch

(* Requests preserve QueuesAfterFailure: a retry is let through by a row     *)
(* that says failed, and the row is right.                                   *)
LEMMA QueuesByCalls ==
    ASSUME TypeOK, CallsInv, QueuesAfterFailure, StatusIsEarned,
           NEW h \in Handlers, CallStep(h)
    PROVE  QueuesAfterFailure'
<1> DEFINE Earned(g) == call'[g].pc \in Queueing =>
               \/ call'[g].rec = Absent
               \/ /\ call'[g].rec.status = "failed"
                  /\ ledger[call'[g].run][call'[g].rec.attempt] = "failed"
<1>1. UNCHANGED ledger /\ \A g \in Handlers \ {h} : call'[g] = call[g]
  BY HandlerFrame
<1>2. DOMAIN call = Handlers BY DEF TypeOK
<1>3. IdleCall.pc \notin Queueing BY DEF IdleCall, Queueing
<1>4. Earned(h)
  <2>1. ASSUME NEW r \in Runs, BeginStart(h, r) PROVE Earned(h)
    <3>1. call'[h].rec = Absent
      BY <1>2, <2>1 DEF BeginStart, Accept, IdleCall
    <3> QED BY <3>1
  <2>2. ASSUME NEW r \in Runs, BeginRetry(h, r) PROVE Earned(h)
    <3>1. call'[h].run = r /\ call'[h].rec = runs[r]
      BY <1>2, <2>2 DEF BeginRetry, Accept, IdleCall
    <3>2. runs[r].status = "failed" BY <2>2 DEF BeginRetry, RetryAllowed
    <3> QED BY <3>1, <3>2 DEF StatusIsEarned
  <2>3. ASSUME NEW r \in Runs, BeginCancel(h, r) PROVE Earned(h)
    <3>1. call'[h].pc = "listJobs"
      BY <1>2, <2>3 DEF BeginCancel, Accept, IdleCall
    <3> QED BY <3>1 DEF Queueing
  <2>4. CASE HandlerStep(h)
    BY <1>3, <2>4, HandlerLocal DEF QueuesAfterFailure, OutcomeOf
  <2>5. CASE AbortCall(h)
    BY <1>2, <1>3, <2>5 DEF AbortCall, Return
  <2> QED BY <2>1, <2>2, <2>3, <2>4, <2>5 DEF CallStep
<1>5. \A g \in Handlers : Earned(g)
  BY <1>1, <1>4 DEF QueuesAfterFailure, OutcomeOf
<1> QED BY <1>1, <1>5 DEF QueuesAfterFailure, OutcomeOf

(* Workers preserve QueuesAfterFailure. *)
LEMMA QueuesByWork ==
    ASSUME TypeOK, CallsInv, WorkInv, QueuesAfterFailure, NEW w \in Workers, WorkStep(w)
    PROVE  QueuesAfterFailure'
<1>1. UNCHANGED call BY WorkerFrame
<1>2. LedgerKeeps BY WorkerLedgerKeeps
<1>3. ASSUME NEW h \in Handlers, call[h].pc \in Queueing, call[h].rec # Absent
      PROVE  /\ call[h].rec.status = "failed"
             /\ ledger'[call[h].run][call[h].rec.attempt] = "failed"
  <2>1. /\ call[h].rec.status = "failed" /\ call[h].run \in Runs
        /\ ledger[call[h].run][call[h].rec.attempt] = "failed"
    BY <1>3 DEF QueuesAfterFailure, CallsInv, OutcomeOf, Queueing
  <2>2. call[h].rec.attempt \in Attempts
    BY <1>3, <2>1, CallFacts DEF CallRecords, RunRecords
  <2> QED BY <1>2, <2>1, <2>2 DEF LedgerKeeps
<1> QED BY <1>1, <1>3 DEF QueuesAfterFailure, OutcomeOf

(* Workers preserve CallsInv. *)
LEMMA CallsByWork ==
    ASSUME TypeOK, CallsInv, WorkInv, NEW w \in Workers, WorkStep(w)
    PROVE  CallsInv'
<1>1. UNCHANGED call /\ StepsKeep /\ JobsKeep /\ DOMAIN jobs' = DOMAIN jobs
  BY WorkerFrame
<1>4. \A h \in Handlers : call[h].pc = "enqueue" =>
         /\ \E s \in steps' : /\ s.run = call[h].run /\ s.attempt = NextAttempt(h)
                              /\ s.suffix = "dispatch"
         /\ \A j \in DOMAIN jobs : ~ (/\ jobs'[j].run = call[h].run
                                      /\ jobs'[j].attempt = NextAttempt(h))
  BY <1>1 DEF CallsInv, StepsKeep, JobsKeep, HasDispatch, HasJob, IsJobOf
<1> QED
  BY <1>1, <1>4 DEF CallsInv, NextAttempt, HasDispatch, HasJob, IsJobOf

(* Requests preserve WorkInv. *)
LEMMA WorkByCalls ==
    ASSUME TypeOK, CallsInv, WorkInv, NEW h \in Handlers, CallStep(h)
    PROVE  WorkInv'
<1>1. UNCHANGED <<results, work, ledger>> /\ JobsKeep BY HandlerFrame
<1>2. \A w \in Workers : work[w].pc # "idle" =>
         /\ work[w].job \in DOMAIN jobs'
         /\ jobs'[work[w].job].status # "pending"
         /\ jobs'[work[w].job].run = RunOf(w)
         /\ jobs'[work[w].job].attempt = JobOf(w).attempt
  BY <1>1 DEF JobsKeep, WorkInv, JobOf, RunOf
<1>3. \A w \in Workers : work[w].pc \in Preparing \cup Executing => work[w].pc # "idle"
  BY DEF Preparing, Executing
<1> QED
  BY <1>1, <1>2, <1>3
  DEF WorkInv, JobOf, RunOf, AttemptOf, OutcomeOf, Loaded, Settling, Executing

(* What a worker holds after its own step. *)
Holds(w) ==
    LET r == jobs'[work'[w].job].run
        a == jobs'[work'[w].job].attempt
    IN  /\ work'[w].pc # "idle" =>
              /\ work'[w].job \in DOMAIN jobs'
              /\ jobs'[work'[w].job].status # "pending"
        /\ work'[w].pc \in Preparing => ledger'[r][a] = "none"
        /\ work'[w].pc \in Loaded \cup Executing => work'[w].rec.attempt = a
        /\ work'[w].pc \in Executing => ledger'[r][a] = "executing"
        /\ work'[w].pc \in Settling /\ work'[w].result = "ok" => results'[r]
        /\ work'[w].pc \in {"dropJob", "findDrop", "dropStep"} =>
              work'[w].rec.attempt \in Attempts

(* A worker's own step establishes WorkInv for it. *)
LEMMA WorkOwn ==
    ASSUME TypeOK, JobsInv, WorkInv, NEW w \in Workers, WorkStep(w)
    PROVE  Holds(w)
<1> USE DEF Preparing, Loaded, Executing, Settling
<1> DEFINE j == work[w].job
           r == RunOf(w)
           a == JobOf(w).attempt
<1>0. DOMAIN work = Workers /\ DOMAIN results = Runs /\ work[w] \in WorkRecords
  BY DEF TypeOK
<1>1. JobsKeep /\ DOMAIN jobs' = DOMAIN jobs BY WorkerFrame
<1>2. work[w].pc # "idle" =>
        /\ j \in DOMAIN jobs /\ j \in DOMAIN jobs' /\ r \in Runs /\ a \in Attempts
        /\ jobs'[j].run = r /\ jobs'[j].attempt = a /\ jobs'[j].status # "pending"
  BY <1>1, WorkFacts DEF JobsKeep, WorkInv, RunOf, JobOf
<1>3. work[w].pc \in Preparing => ledger[r][a] = "none"
  BY DEF WorkInv, OutcomeOf
<1>4. work[w].pc \in Loaded \cup Executing => work[w].rec.attempt = a
  BY DEF WorkInv, AttemptOf
<1>6. work[w].pc \in Executing => ledger[r][a] = "executing"
  BY DEF WorkInv, OutcomeOf
<1>7. work[w].pc \in Settling /\ work[w].result = "ok" => results[r]
  BY DEF WorkInv
<1>9. work[w].pc \in {"dropJob", "findDrop", "dropStep"} => work[w].rec.attempt \in Attempts
  BY DEF WorkInv, AttemptOf
<1>idle. ASSUME work'[w] = IdleWork PROVE Holds(w)
  BY <1>idle DEF Holds, IdleWork
<1> HIDE DEF j, r, a
<1>claim. CASE ClaimJob(w)
  <2>1. PICK i \in DOMAIN jobs : /\ Claimable(i) /\ SetJob(i, "running")
                                 /\ work' = [work EXCEPT ![w] =
                                      [IdleWork EXCEPT !.pc = "load", !.job = i]]
    BY <1>claim DEF ClaimJob
  <2>2. work'[w].pc = "load" /\ work'[w].job = i
    BY <1>0, <2>1 DEF IdleWork
  <2>3. jobs'[i].run = jobs[i].run /\ jobs'[i].attempt = jobs[i].attempt
        /\ jobs'[i].status = "running"
    BY <1>1, <2>1, JobFacts DEF JobsKeep, SetJob, JobRecords
  <2>4. ledger'[jobs[i].run][jobs[i].attempt] = "none"
    BY <1>claim, <2>1 DEF ClaimJob, Claimable, JobsInv, OutcomeOf
  <2> QED BY <1>1, <2>2, <2>3, <2>4 DEF Holds
<1>load. CASE LoadRun(w)
  <2>1. CASE Goto(w, "failJob") \/ Goto(w, "cancelJob")
    BY <1>0, <1>2, <1>load, <2>1 DEF Goto, Holds, LoadRun, j, WorkRecords
  <2>2. CASE /\ ~Superseded(runs[r], JobOf(w)) /\ runs[r] # Absent
             /\ work' = [work EXCEPT ![w].pc = "findStep", ![w].rec = runs[r]]
    <3>1. work'[w].pc = "findStep" /\ work'[w].rec = runs[r] /\ work'[w].job = j
      BY <1>0, <2>2 DEF WorkRecords, j
    <3>2. ledger[r][a] = "none" /\ UNCHANGED ledger /\ r \in Runs
      BY <1>2, <1>3, <1>load DEF LoadRun
    <3>3. runs[r].attempt = a BY <2>2 DEF Superseded, a
    <3> QED BY <1>2, <1>load, <3>1, <3>2, <3>3 DEF Holds, LoadRun
  <2> QED BY <1>load, <2>1, <2>2 DEF LoadRun, Reads, r
<1>prep. CASE FindGatewayStep(w) \/ OpenStep(w) \/ SaveClaimedRun(w) \/ LogClaim(w)
  <2>1. UNCHANGED ledger /\ work[w].pc \in Loaded
    BY <1>prep DEF FindGatewayStep, OpenStep, SaveClaimedRun, LogClaim
  <2>2. CASE Leave(w) BY <1>0, <1>idle, <2>2 DEF Leave
  <2>3. CASE ~Leave(w)
    <3>1. PICK pc \in Loaded : Goto(w, pc)
      BY <1>prep, <2>3 DEF FindGatewayStep, OpenStep, SaveClaimedRun, LogClaim
    <3>2. work'[w].pc = pc /\ work'[w].job = j /\ work'[w].rec = work[w].rec
      BY <1>0, <3>1 DEF Goto, WorkRecords, j
    <3> QED BY <1>2, <1>3, <1>4, <2>1, <3>1, <3>2 DEF Holds
  <2> QED BY <2>2, <2>3
<1>exec. CASE LookUpResult(w) \/ CallProvider(w) \/ SaveResult(w)
  <2>0. /\ work[w].pc \in {"lookup", "callProvider", "saveResult"}
        /\ \/ \E pc \in {"callProvider", "saveResult"} : Goto(w, pc)
           \/ Got(w, "ok") /\ results'[r]
           \/ Got(w, "error")
    <3>1. CASE LookUpResult(w)
      <4>1. PICK hit \in Reads(results[r], FALSE) :
              IF hit THEN Got(w, "ok") ELSE Goto(w, "callProvider")
        BY <3>1 DEF LookUpResult, r
      <4>2. CASE hit
        <5>1. results[r] BY <4>2 DEF Reads
        <5>2. results' = results BY <3>1 DEF LookUpResult
        <5> QED BY <3>1, <4>1, <4>2, <5>1, <5>2 DEF LookUpResult
      <4> QED BY <3>1, <4>1, <4>2 DEF LookUpResult
    <3>2. CASE CallProvider(w) BY <3>2 DEF CallProvider
    <3>3. CASE SaveResult(w)
      <4>1. r \in Runs BY <1>2, <3>3 DEF SaveResult
      <4> QED BY <1>0, <3>3, <4>1 DEF SaveResult, r
    <3> QED BY <1>exec, <3>1, <3>2, <3>3
  <2>1. /\ work'[w].job = j /\ work'[w].rec = work[w].rec /\ work'[w].pc \in Executing
        /\ work'[w].pc \in Settling => \/ work'[w].result = "ok" /\ results'[r]
                                       \/ work'[w].result = "error"
    <3>1. CASE \E pc \in {"callProvider", "saveResult"} : Goto(w, pc)
      BY <1>0, <3>1 DEF Goto, WorkRecords, j
    <3>2. CASE \E x \in {"ok", "error"} : Got(w, x) /\ (x = "ok" => results'[r])
      <4>1. PICK x \in {"ok", "error"} : Got(w, x) /\ (x = "ok" => results'[r])
        BY <3>2
      <4>2. /\ work'[w].job = j /\ work'[w].rec = work[w].rec
            /\ work'[w].pc = "recheckJob" /\ work'[w].result = x
        BY <1>0, <4>1 DEF Got, WorkRecords, j
      <4> QED BY <4>1, <4>2
    <3> QED BY <2>0, <3>1, <3>2
  <2>2. work'[w].pc \in Settling /\ work'[w].result = "ok" => results'[r]
    BY <2>1
  <2>3. ledger'[r][a] = "executing"
    <3>1. CASE LookUpResult(w)
      <4>1. AttemptOf(w) = a BY <1>4, <3>1 DEF LookUpResult, AttemptOf
      <4>2. r \in Runs /\ a \in Attempts BY <1>2, <3>1 DEF LookUpResult
      <4> QED BY <3>1, <4>1, <4>2 DEF LookUpResult, TypeOK, r
    <3>2. CASE CallProvider(w) \/ SaveResult(w)
      BY <1>6, <3>2 DEF CallProvider, SaveResult
    <3> QED BY <1>exec, <3>1, <3>2
  <2> QED BY <1>2, <1>4, <2>0, <2>1, <2>2, <2>3 DEF Holds
<1>keep. CASE RecheckJob(w) \/ EndStep(w) \/ EndJob(w) \/ (RecheckRun(w) /\ Goto(w, "endStep"))
  <2>1. /\ work'[w].job = j /\ work'[w].rec = work[w].rec
        /\ work'[w].pc \in Executing /\ work[w].pc \in Settling
        /\ work'[w].result = work[w].result
    BY <1>0, <1>keep DEF RecheckJob, RecheckRun, EndStep, EndJob, Goto, WorkRecords, j
  <2>2. UNCHANGED results BY <1>keep DEF RecheckJob, RecheckRun, EndStep, EndJob
  <2>3. UNCHANGED ledger
    BY <1>0, <1>keep DEF RecheckJob, RecheckRun, EndStep, EndJob, Goto, WorkRecords
  <2> QED BY <1>2, <1>4, <1>6, <1>7, <2>1, <2>2, <2>3 DEF Holds
<1>drop. CASE (RecheckRun(w) /\ ~Goto(w, "endStep")) \/ DropJob(w) \/ FindDroppedStep(w)
  <2>1. CASE RecheckRun(w) /\ ~Goto(w, "endStep")
    <3>1. PICK pc \in {"findDrop", "dropJob"}, rec \in {work[w].rec, runs[r]} :
             /\ work' = [work EXCEPT ![w].pc = pc, ![w].rec = rec]
             /\ rec = runs[r] => runs[r] # Absent \/ rec = work[w].rec
      BY <2>1 DEF RecheckRun, Reads, r
    <3>2. rec.attempt \in Attempts
      <4>1. work[w].rec.attempt \in Attempts BY <1>2, <1>4, <2>1 DEF RecheckRun
      <4>2. runs[r] \in RunRecords BY <1>2, <2>1 DEF RecheckRun, TypeOK
      <4> QED BY <3>1, <4>1, <4>2 DEF RunRecords
    <3>3. work'[w].job = j /\ work'[w].pc = pc /\ work'[w].rec = rec
      BY <1>0, <3>1 DEF WorkRecords, j
    <3> QED BY <1>2, <2>1, <3>1, <3>2, <3>3 DEF Holds, RecheckRun
  <2>2. CASE DropJob(w) \/ FindDroppedStep(w)
    <3>1. CASE Leave(w) BY <1>0, <1>idle, <3>1 DEF Leave
    <3>2. CASE ~Leave(w)
      <4>1. PICK pc \in {"findDrop", "dropStep"} : Goto(w, pc)
        BY <2>2, <3>2 DEF DropJob, FindDroppedStep
      <4>2. work'[w].pc = pc /\ work'[w].job = j /\ work'[w].rec = work[w].rec
        BY <1>0, <4>1 DEF Goto, WorkRecords, j
      <4> QED BY <1>2, <1>9, <2>2, <4>1, <4>2 DEF Holds, DropJob, FindDroppedStep
    <3> QED BY <3>1, <3>2
  <2> QED BY <1>drop, <2>1, <2>2
<1>end. CASE EndRun(w)
  <2>1. work'[w].pc = "logEnd" /\ work'[w].job = j /\ work[w].pc # "idle"
    BY <1>0, <1>end DEF EndRun, Goto, WorkRecords, j
  <2> QED BY <1>2, <2>1 DEF Holds
<1>leave. CASE SettleJob(w) \/ DropStep(w) \/ LogEnd(w) \/ AbortWork(w)
  BY <1>0, <1>idle, <1>leave DEF SettleJob, DropStep, LogEnd, AbortWork, Leave
<1> QED
  BY <1>claim, <1>load, <1>prep, <1>exec, <1>keep, <1>drop, <1>end, <1>leave
  DEF WorkStep, WorkerStep

(* Workers preserve WorkInv: no other worker has the job or its ledger entry. *)
LEMMA WorkByWork ==
    ASSUME TypeOK, JobsInv, WorkInv, NEW w \in Workers, WorkStep(w)
    PROVE  WorkInv'
<1>1. /\ \A v \in Workers \ {w} : work'[v] = work[v]
      /\ \A r \in Runs : results[r] => results'[r]
      /\ JobsKeep /\ DOMAIN jobs' = DOMAIN jobs
  BY WorkerFrame
<1>2. Holds(w) BY WorkOwn
<1>3. \A v \in Workers : work[v].pc \in Preparing \cup Executing \cup Settling \cup Loaded
                            => work[v].pc # "idle"
  BY DEF Preparing, Executing, Settling, Loaded
<1>4. ASSUME NEW v \in Workers \ {w} PROVE Holds(v)
  <2> DEFINE j == work[v].job
             r == RunOf(v)
             a == JobOf(v).attempt
  <2>1. work'[v] = work[v] BY <1>1
  <2>2. CASE work[v].pc = "idle"
    BY <2>1, <2>2 DEF Holds, Preparing, Executing, Settling, Loaded
  <2>3. CASE work[v].pc # "idle"
    <3>1. /\ j \in DOMAIN jobs /\ r \in Runs
          /\ jobs'[j].run = r /\ jobs'[j].attempt = a /\ jobs'[j].status # "pending"
      BY <1>1, <2>3, WorkFacts DEF JobsKeep, WorkInv, RunOf, JobOf
    <3>2. work[w].pc # "idle" => j # work[w].job BY <2>3 DEF WorkInv
    <3>3. ledger'[r][a] = ledger[r][a]
      BY <3>1, <3>2, OtherJobsLedger DEF RunOf, JobOf
    <3>4. /\ work[v].pc \in Preparing => ledger[r][a] = "none"
          /\ work[v].pc \in Executing => ledger[r][a] = "executing"
          /\ work[v].pc \in Loaded \cup Executing => work[v].rec.attempt = a
          /\ work[v].pc \in Settling /\ work[v].result = "ok" => results[r]
          /\ work[v].pc \in {"dropJob", "findDrop", "dropStep"} =>
                work[v].rec.attempt \in Attempts
      BY DEF WorkInv, OutcomeOf, AttemptOf
    <3> HIDE DEF j, r, a
    <3>5. work'[v].job = j BY <2>1 DEF j
    <3> QED BY <1>1, <2>1, <3>1, <3>3, <3>4, <3>5 DEF Holds
  <2> QED BY <2>2, <2>3
<1>5. \A v \in Workers : Holds(v) BY <1>2, <1>4
<1>6. ASSUME NEW v \in Workers, NEW u \in Workers, work'[v].pc # "idle",
             work'[u].pc # "idle", work'[v].job = work'[u].job
      PROVE  v = u
  <2>1. CASE ClaimJob(w)
    <3>1. PICK i \in DOMAIN jobs : /\ jobs[i].status = "pending"
                                   /\ work' = [work EXCEPT ![w] =
                                        [IdleWork EXCEPT !.pc = "load", !.job = i]]
      BY <2>1 DEF ClaimJob, Claimable
    <3>2. work'[w].job = i BY <3>1 DEF TypeOK, IdleWork
    <3>3. \A x \in Workers \ {w} : work[x].pc # "idle" => work[x].job # i
      BY <3>1 DEF WorkInv, JobOf
    <3> QED BY <1>1, <1>6, <3>2, <3>3 DEF WorkInv
  <2>2. CASE ~ClaimJob(w)
    <3>1. work'[w].pc # "idle" => work[w].pc # "idle" /\ work'[w].job = work[w].job
      <4> HIDE DEF WorkInv
      <4>1. work[w] \in WorkRecords /\ DOMAIN work = Workers BY DEF TypeOK
      <4>2. WorkerStep(w) \/ AbortWork(w) BY <2>2 DEF WorkStep
      <4>3. CASE AbortWork(w) BY <4>1, <4>3 DEF AbortWork, Leave, IdleWork
      <4>4. CASE WorkerStep(w)
        <5>1. work[w].pc # "idle"
          BY <4>4 DEF WorkerStep, LoadRun, SettleJob, FindGatewayStep, OpenStep,
             SaveClaimedRun, LogClaim, LookUpResult, CallProvider, SaveResult, RecheckJob,
             RecheckRun, DropJob, FindDroppedStep, DropStep, EndStep, EndJob, EndRun, LogEnd
        <5>2. \/ Leave(w) \/ \E pc : Goto(w, pc)
              \/ \E x : Got(w, x)
              \/ \E pc, rec : work' = [work EXCEPT ![w].pc = pc, ![w].rec = rec]
              \/ \E pc, s : work' = [work EXCEPT ![w].pc = pc, ![w].seen = s]
          <6>1. CASE LoadRun(w) BY <6>1 DEF LoadRun
          <6>2. CASE RecheckRun(w) BY <6>2 DEF RecheckRun
          <6>3. CASE RecheckJob(w) BY <6>3 DEF RecheckJob
          <6>4. CASE LookUpResult(w) \/ CallProvider(w) \/ SaveResult(w)
            BY <6>4 DEF LookUpResult, CallProvider, SaveResult
          <6> QED
            BY <4>4, <6>1, <6>2, <6>3, <6>4
            DEF WorkerStep, SettleJob, FindGatewayStep, OpenStep, SaveClaimedRun, LogClaim,
                DropJob, FindDroppedStep, DropStep, EndStep, EndJob, EndRun, LogEnd
        <5>3. CASE Leave(w) BY <4>1, <5>3 DEF Leave, IdleWork
        <5>4. CASE \E pc : Goto(w, pc) BY <4>1, <5>1, <5>4 DEF Goto, WorkRecords
        <5>5. CASE \E x : Got(w, x) BY <4>1, <5>1, <5>5 DEF Got, WorkRecords
        <5>6. CASE \E pc, rec : work' = [work EXCEPT ![w].pc = pc, ![w].rec = rec]
          BY <4>1, <5>1, <5>6 DEF WorkRecords
        <5>7. CASE \E pc, s : work' = [work EXCEPT ![w].pc = pc, ![w].seen = s]
          BY <4>1, <5>1, <5>7 DEF WorkRecords
        <5> QED BY <5>2, <5>3, <5>4, <5>5, <5>6, <5>7
      <4> QED BY <4>2, <4>3, <4>4
    <3> QED BY <1>1, <1>6, <3>1 DEF WorkInv
  <2> QED BY <2>1, <2>2
<1> QED BY <1>5, <1>6 DEF WorkInv, Holds, JobOf, RunOf, AttemptOf, OutcomeOf

(* Workers preserve TakesUpOpenRun: an attempt of which nothing was executed  *)
(* has not ended, and a cancelled run is passed over.                         *)
LEMMA OpenByWork ==
    ASSUME TypeOK, WorkInv, TakesUpOpenRun, StatusIsEarned,
           NEW w \in Workers, WorkStep(w)
    PROVE  TakesUpOpenRun'
<1> USE DEF Preparing, Loaded, Executing
<1> DEFINE TakesUp(v) == /\ work'[v].pc \in Loaded => work'[v].rec.status \in Open
                         /\ work'[v].pc = "logClaim" => work'[v].rec.status = "pending"
           r == RunOf(w)
<1>0. DOMAIN work = Workers /\ work[w] \in WorkRecords BY DEF TypeOK
<1>1. \A v \in Workers \ {w} : work'[v] = work[v] BY WorkerFrame
<1>2. CASE work'[w].pc \notin Loaded
  BY <1>1, <1>2 DEF TakesUpOpenRun
<1>3. CASE LoadRun(w)
  <2>1. CASE Goto(w, "failJob") \/ Goto(w, "cancelJob")
    BY <1>0, <1>2, <2>1 DEF Goto, WorkRecords
  <2>2. CASE /\ ~Superseded(runs[r], JobOf(w)) /\ runs[r] # Absent
             /\ work' = [work EXCEPT ![w].pc = "findStep", ![w].rec = runs[r]]
    <3>1. work'[w].pc = "findStep" /\ work'[w].rec = runs[r]
      BY <1>0, <2>2 DEF WorkRecords
    <3>2. r \in Runs /\ ledger[r][JobOf(w).attempt] = "none"
      BY <1>3, WorkFacts DEF LoadRun, WorkInv, OutcomeOf
    <3>3. runs[r].attempt = JobOf(w).attempt /\ runs[r].status # "cancelled"
      BY <2>2 DEF Superseded
    <3>4. runs[r] \in RunRecords BY <3>2 DEF TypeOK
    <3>5. runs[r].status \notin {"failed", "completed"}
      BY <3>2, <3>3 DEF StatusIsEarned
    <3>6. runs[r].status \in Open BY <2>2, <3>3, <3>4, <3>5 DEF RunRecords, Open
    <3> HIDE DEF r
    <3> QED BY <1>1, <3>1, <3>6 DEF TakesUpOpenRun
  <2> QED BY <1>3, <2>1, <2>2 DEF LoadRun, Reads
<1>4. CASE FindGatewayStep(w) \/ OpenStep(w) \/ SaveClaimedRun(w) \/ LogClaim(w)
  <2>1. work[w].pc \in Loaded
    BY <1>4 DEF FindGatewayStep, OpenStep, SaveClaimedRun, LogClaim
  <2>2. CASE Leave(w) BY <1>0, <1>2, <2>2 DEF Leave, IdleWork
  <2>3. CASE ~Leave(w)
    <3>1. PICK pc \in Loaded : Goto(w, pc) /\ (pc = "logClaim" => work[w].rec.status # "running")
      BY <1>4, <2>3 DEF FindGatewayStep, OpenStep, SaveClaimedRun, LogClaim
    <3>2. work'[w].pc = pc /\ work'[w].rec = work[w].rec
      BY <1>0, <3>1 DEF Goto, WorkRecords
    <3>3. TakesUp(w) BY <2>1, <3>1, <3>2 DEF TakesUpOpenRun, Open
    <3> QED BY <1>1, <3>3 DEF TakesUpOpenRun
  <2> QED BY <2>2, <2>3
<1>5. CASE ClaimJob(w) \/ AbortWork(w)
  <2>1. CASE ClaimJob(w)
    <3>1. PICK j : work' = [work EXCEPT ![w] = [IdleWork EXCEPT !.pc = "load", !.job = j]]
      BY <2>1 DEF ClaimJob
    <3>2. work'[w].pc = "load" BY <1>0, <3>1 DEF IdleWork
    <3> QED BY <1>2, <3>2
  <2>2. CASE AbortWork(w)
    BY <1>0, <1>2, <2>2 DEF AbortWork, Leave, IdleWork
  <2> QED BY <1>5, <2>1, <2>2
<1>6. CASE LookUpResult(w) \/ CallProvider(w) \/ SaveResult(w)
  <2>1. \/ Got(w, "ok") \/ Got(w, "error")
        \/ Goto(w, "callProvider") \/ Goto(w, "saveResult")
    BY <1>6 DEF LookUpResult, CallProvider, SaveResult
  <2>2. work'[w].pc \in Executing BY <1>0, <2>1 DEF Got, Goto, WorkRecords
  <2> QED BY <1>2, <2>2
<1>7. CASE RecheckJob(w) \/ RecheckRun(w)
  <2>1. work'[w].pc \in {"recheckRun", "findDrop", "dropJob", "endStep"}
    BY <1>0, <1>7 DEF RecheckJob, RecheckRun, Goto, WorkRecords
  <2> QED BY <1>2, <2>1
<1>8. CASE \/ SettleJob(w) \/ DropJob(w) \/ FindDroppedStep(w) \/ DropStep(w)
           \/ EndStep(w) \/ EndJob(w) \/ EndRun(w) \/ LogEnd(w)
  <2>1. \/ Leave(w)
        \/ \E pc \in {"findDrop", "dropStep", "endJob", "endRun", "logEnd"} : Goto(w, pc)
    BY <1>8 DEF SettleJob, DropJob, FindDroppedStep, DropStep, EndStep, EndJob, EndRun,
       LogEnd
  <2>2. work'[w].pc \notin Loaded
    BY <1>0, <2>1 DEF Leave, IdleWork, Goto, WorkRecords
  <2> QED BY <1>2, <2>2
<1> QED
  BY <1>3, <1>4, <1>5, <1>6, <1>7, <1>8 DEF WorkStep, WorkerStep

(* Requests preserve LedgerInv. *)
LEMMA LedgerByCalls ==
    ASSUME TypeOK, CallsInv, LedgerInv, NEW h \in Handlers, CallStep(h)
    PROVE  LedgerInv'
<1>1. UNCHANGED ledger /\ JobsKeep BY HandlerFrame
<1> QED BY <1>1 DEF LedgerInv, JobsKeep, IsJobOf, OutcomeOf

(* Workers preserve LedgerInv. *)
LEMMA LedgerByWork ==
    ASSUME TypeOK, JobsInv, WorkInv, LedgerInv, NEW w \in Workers, WorkStep(w)
    PROVE  LedgerInv'
<1>1. JobsKeep BY WorkerFrame
<1>2. \A r \in Runs, a \in Attempts : ledger'[r][a] # "none" =>
         \E j \in DOMAIN jobs : IsJobOf(j, r, a) /\ jobs[j].status # "pending"
  <2>1. CASE UNCHANGED ledger BY <2>1 DEF LedgerInv, OutcomeOf
  <2>2. CASE ~ UNCHANGED ledger
    <3>1. PICK from, to : LedgerMove(w, from, to) BY <2>2, WorkerLedger
    <3>2. work[w].pc # "idle"
      BY <2>2, WorkerLedger DEF LookUpResult, Executing
    <3>3. work[w].job \in DOMAIN jobs /\ JobOf(w).status # "pending"
      BY <3>2 DEF WorkInv
    <3>4. \A r \in Runs, a \in Attempts :
             ledger'[r][a] = IF r = RunOf(w) /\ a = JobOf(w).attempt THEN to
                             ELSE ledger[r][a]
      BY <3>1, <3>2, LedgerPoint
    <3> QED BY <3>3, <3>4 DEF LedgerInv, OutcomeOf, IsJobOf, RunOf, JobOf
  <2> QED BY <2>1, <2>2
<1> QED BY <1>1, <1>2 DEF LedgerInv, JobsKeep, IsJobOf, OutcomeOf

(* Requests preserve StatusIsEarned: they never write an end. *)
LEMMA StatusByCalls ==
    ASSUME TypeOK, CallsInv, StatusIsEarned, NEW h \in Handlers, CallStep(h)
    PROVE  StatusIsEarned'
<1>1. UNCHANGED <<results, ledger>> BY HandlerFrame
<1>2. \A r \in Runs : runs'[r] = runs[r] \/ runs'[r].status \in {"pending", "cancelled"}
  <2>1. CASE UNCHANGED runs BY <2>1
  <2>2. CASE \E r, a : SetRun(r, "pending", a) \/ SetRun(r, "cancelled", a)
    BY <2>2 DEF SetRun, TypeOK
  <2> QED
    BY <2>1, <2>2
    DEF CallStep, BeginStart, BeginRetry, BeginCancel, AbortCall, HandlerStep,
      SaveQueuedRun, LogQueued, SaveDispatchStep, EnqueueJob, ListOpenJobs, CancelOneJob,
      FindOpenGatewayStep, CancelGatewayStep, FindCancelStep, OrderCancelStep,
      InsertCancelStep, SaveCancelledRun, LogCancelled
<1> QED BY <1>1, <1>2 DEF StatusIsEarned

(* Workers preserve StatusIsEarned. *)
LEMMA StatusByWork ==
    ASSUME TypeOK, JobsInv, WorkInv, StatusIsEarned, NEW w \in Workers, WorkStep(w)
    PROVE  StatusIsEarned'
<1>1. LedgerKeeps BY WorkerLedgerKeeps
<1>2. \A r \in Runs : results[r] => results'[r] BY WorkerFrame
<1>3. ASSUME NEW r \in Runs, runs'[r] = runs[r], runs[r].status \in {"failed", "completed"}
      PROVE  /\ ledger'[r][runs'[r].attempt] = ledger[r][runs[r].attempt]
             /\ runs[r].status = "completed" => results'[r]
  <2>1. runs[r].attempt \in Attempts
    <3>1. runs[r] \in RunRecords BY DEF TypeOK
    <3> QED BY <1>3, <3>1 DEF RunRecords, Absent
  <2> QED BY <1>1, <1>2, <1>3, <2>1 DEF LedgerKeeps, StatusIsEarned
<1>4. CASE UNCHANGED runs BY <1>3, <1>4 DEF StatusIsEarned
<1>5. CASE SaveClaimedRun(w)
  <2>1. \A r \in Runs : runs'[r] = runs[r] \/ runs'[r].status = "running"
    BY <1>5 DEF SaveClaimedRun, SetRun, TypeOK
  <2> QED BY <1>3, <2>1 DEF StatusIsEarned
<1>6. CASE EndRun(w)
  <2> DEFINE r == RunOf(w)
             a == AttemptOf(w)
             end == IF work[w].result = "ok" THEN "succeeded" ELSE "failed"
  <2>1. r \in Runs /\ a \in Attempts /\ (work[w].result = "ok" => results[r])
    BY <1>6, WorkFacts DEF EndRun, Executing, WorkInv, Settling
  <2>2. runs'[r] = [status |-> EndStatus(w), attempt |-> a]
    BY <1>6, <2>1 DEF EndRun, SetRun, TypeOK
  <2>3. \A q \in Runs \ {r} : runs'[q] = runs[q]
    BY <1>6 DEF EndRun, SetRun, TypeOK
  <2>4. ledger'[r][a] = end BY <1>6, <2>1 DEF EndRun, TypeOK
  <2> HIDE DEF r, a
  <2>5. /\ runs'[r].status = "failed" => ledger'[r][runs'[r].attempt] = "failed"
        /\ runs'[r].status = "completed" =>
              ledger'[r][runs'[r].attempt] = "succeeded" /\ results'[r]
    BY <1>2, <2>1, <2>2, <2>4 DEF EndStatus
  <2> QED BY <1>3, <2>3, <2>5 DEF StatusIsEarned
<1> QED
  BY <1>4, <1>5, <1>6
  DEF WorkStep, ClaimJob, AbortWork, WorkerStep, LoadRun, SettleJob, FindGatewayStep,
     OpenStep, LogClaim, LookUpResult, CallProvider, SaveResult, RecheckJob,
     RecheckRun, DropJob, FindDroppedStep, DropStep, EndStep, EndJob, LogEnd

(* Requests preserve TrailIsLegal. *)
LEMMA TrailByCalls ==
    ASSUME TypeOK, CallsInv, QueuesAfterFailure, TrailIsLegal,
           NEW h \in Handlers, CallStep(h)
    PROVE  TrailIsLegal'
<1>1. CASE UNCHANGED trail BY <1>1 DEF TrailIsLegal
<1>2. CASE LogQueued(h)
  <2>1. <<call[h].rec.status, "pending">> \in LegalMoves
    BY <1>2 DEF LogQueued, QueuesAfterFailure, Queueing, Absent, LegalMoves
  <2> QED BY <1>2, <2>1 DEF LogQueued, Log, TrailIsLegal, TypeOK
<1>3. CASE LogCancelled(h)
  <2>1. <<call[h].rec.status, "cancelled">> \in LegalMoves
    BY <1>3 DEF LogCancelled, CallsInv, Cancelling, Queueing, CallPCs, Open, LegalMoves
  <2> QED BY <1>3, <2>1 DEF LogCancelled, Log, TrailIsLegal, TypeOK
<1> QED
  BY <1>1, <1>2, <1>3
  DEF CallStep, BeginStart, BeginRetry, BeginCancel, AbortCall, HandlerStep,
    SaveQueuedRun, SaveDispatchStep, EnqueueJob, ListOpenJobs, CancelOneJob,
    FindOpenGatewayStep, CancelGatewayStep, FindCancelStep, OrderCancelStep,
    InsertCancelStep, SaveCancelledRun

(* Workers preserve TrailIsLegal. *)
LEMMA TrailByWork ==
    ASSUME TypeOK, TakesUpOpenRun, TrailIsLegal, NEW w \in Workers, WorkStep(w)
    PROVE  TrailIsLegal'
<1>1. CASE UNCHANGED trail BY <1>1 DEF TrailIsLegal
<1>2. CASE LogClaim(w)
  <2>1. <<work[w].rec.status, "running">> \in LegalMoves
    BY <1>2 DEF LogClaim, TakesUpOpenRun, LegalMoves
  <2> QED BY <1>2, <2>1 DEF LogClaim, Log, TrailIsLegal, TypeOK
<1>3. CASE LogEnd(w)
  <2>1. <<"running", EndStatus(w)>> \in LegalMoves BY DEF EndStatus, LegalMoves
  <2> QED BY <1>3, <2>1 DEF LogEnd, Log, TrailIsLegal, TypeOK
<1> QED
  BY <1>1, <1>2, <1>3
  DEF WorkStep, ClaimJob, AbortWork, WorkerStep, LoadRun, SettleJob, FindGatewayStep,
     OpenStep, SaveClaimedRun, LookUpResult, CallProvider, SaveResult, RecheckJob,
     RecheckRun, DropJob, FindDroppedStep, DropStep, EndStep, EndJob, EndRun

(* Workers preserve InOrder. *)
LEMMA OrderByWork ==
    ASSUME TypeOK, JobAfterFailure, WorkInv, InOrder, NEW w \in Workers, WorkStep(w)
    PROVE  InOrder'
<1>1. CASE UNCHANGED ledger BY <1>1 DEF InOrder, OutcomeOf
<1>2. CASE ~ UNCHANGED ledger
  <2> DEFINE q == RunOf(w)
             c == JobOf(w).attempt
  <2>1. PICK from \in {"none", "executing"},
             to \in {"executing"} \cup Contract!Ends : LedgerMove(w, from, to)
    BY <1>2, WorkerLedger
  <2>2. work[w].pc # "idle"
    BY <1>2, WorkerLedger DEF LookUpResult, Executing
  <2>3. q \in Runs /\ c \in Attempts /\ work[w].job \in DOMAIN jobs
    BY <2>2, WorkFacts
  <2>4. ledger[q][c] = from BY <2>1 DEF LedgerMove, OutcomeOf
  <2>5. c = 1 \/ ledger[q][c - 1] = "failed"
    BY <2>3 DEF JobAfterFailure, OutcomeOf, RunOf, JobOf
  <2>6. \A r \in Runs, a \in Attempts :
           ledger'[r][a] = IF r = q /\ a = c THEN to ELSE ledger[r][a]
    BY <2>1, <2>2, LedgerPoint
  <2> HIDE DEF q, c
  <2>7. \A b \in Attempts : b < c => ledger[q][b] = "failed"
    <3> SUFFICES ASSUME NEW b \in Attempts, b < c PROVE ledger[q][b] = "failed"
      OBVIOUS
    <3>1. c - 1 \in Attempts /\ c # 1 /\ (b = c - 1 \/ b < c - 1)
      BY <2>3, MaxAttemptsAssumption DEF Attempts
    <3> QED BY <2>3, <2>5, <3>1 DEF InOrder, OutcomeOf
  <2>8. \A a \in Attempts : c < a => ledger[q][a] = "none"
    BY <2>3, <2>4 DEF InOrder, OutcomeOf
  <2>9. ASSUME NEW r \in Runs, NEW a \in Attempts, NEW b \in Attempts,
               ledger'[r][a] # "none", b < a
        PROVE  ledger'[r][b] = "failed"
    <3>1. CASE r # q BY <2>6, <2>9, <3>1 DEF InOrder, OutcomeOf
    <3>2. CASE r = q /\ a = c
      <4>1. b # c BY <2>9, <3>2 DEF Attempts
      <4> QED BY <2>6, <2>7, <2>9, <3>2, <4>1
    <3>3. CASE r = q /\ a # c
      <4>1. ledger[q][a] # "none" BY <2>6, <2>9, <3>3
      <4>2. ~ (c < a) BY <2>8, <4>1
      <4>3. b # c BY <2>3, <2>9, <4>2 DEF Attempts
      <4> QED BY <2>6, <2>9, <3>3, <4>1, <4>3 DEF InOrder, OutcomeOf
    <3> QED BY <3>1, <3>2, <3>3
  <2> QED BY <2>9 DEF InOrder, OutcomeOf
<1> QED BY <1>1, <1>2

(* Requests preserve EffectsInv. *)
LEMMA EffectsByCalls ==
    ASSUME TypeOK, CallsInv, WorkInv, EffectsInv, NEW h \in Handlers, CallStep(h)
    PROVE  EffectsInv'
<1>1. UNCHANGED <<effects, work, ledger>> /\ JobsKeep BY HandlerFrame
<1>2. \A w \in Workers : work[w].pc # "idle" => jobs'[work[w].job].run = RunOf(w)
  BY <1>1 DEF WorkInv, JobsKeep, RunOf, JobOf
<1> QED BY <1>1, <1>2 DEF EffectsInv, OutcomeOf, RunOf, JobOf, Settling

(* Two workers that execute attempts of the same run are the same worker. *)
LEMMA OneExecutes ==
    ASSUME TypeOK, JobsInv, WorkInv, InOrder,
           NEW v \in Workers, NEW w \in Workers, work[v].pc \in Executing,
           work[w].pc \in Executing, RunOf(v) = RunOf(w)
    PROVE  v = w
<1>1. \A u \in {v, w} : /\ work[u].pc # "idle" /\ work[u].job \in DOMAIN jobs
                        /\ ledger[RunOf(u)][JobOf(u).attempt] = "executing"
                        /\ RunOf(u) \in Runs /\ JobOf(u).attempt \in Attempts
  BY WorkFacts DEF WorkInv, Executing, OutcomeOf
<1>2. JobOf(v).attempt = JobOf(w).attempt
  BY <1>1 DEF InOrder, OutcomeOf, Attempts
<1>3. work[v].job = work[w].job
  BY <1>1, <1>2 DEF JobsInv, IsJobOf, RunOf, JobOf
<1> QED BY <1>1, <1>3 DEF WorkInv

(* Workers preserve EffectsInv: an attempt that begins finds no effect yet. *)
LEMMA EffectsByWork ==
    ASSUME TypeOK, JobsInv, JobAfterFailure, WorkInv, InOrder, EffectsInv,
           "gatewaySave" \notin Faults,
           NEW w \in Workers, WorkStep(w)
    PROVE  EffectsInv'
<1> DEFINE q == RunOf(w)
           c == JobOf(w).attempt
           Suspect(p, x) == p = "callProvider" \/ (p \in Settling /\ x # "ok")
           Clean(r) == \A a \in Attempts : ledger'[r][a] \in {"none", "failed"}
<1>0. work[w] \in WorkRecords /\ DOMAIN work = Workers /\ DOMAIN effects = Runs
  BY DEF TypeOK
<1>1. /\ \A v \in Workers \ {w} : work'[v] = work[v]
      /\ JobsKeep
  BY WorkerFrame
<1>2. work[w].pc # "idle" => /\ q \in Runs /\ c \in Attempts
                             /\ work[w].job \in DOMAIN jobs /\ jobs'[work[w].job].run = q
  BY <1>1, WorkFacts DEF JobsKeep, RunOf, JobOf
<1>3. \A v \in Workers \ {w} : Suspect(work[v].pc, work[v].result) =>
         /\ jobs'[work'[v].job].run = RunOf(v)
         /\ effects[RunOf(v)] = 0
         /\ work[v].pc \in Executing
  BY <1>1 DEF JobsKeep, WorkInv, EffectsInv, RunOf, JobOf, Settling, Executing
<1>4. \A r \in Runs : effects[r] <= 1
  BY DEF EffectsInv
<1>done. ASSUME \A r \in Runs : effects'[r] <= 1 /\ (Clean(r) => effects'[r] = 0),
                \A v \in Workers \ {w} : Suspect(work[v].pc, work[v].result) =>
                    effects'[RunOf(v)] = 0,
                Suspect(work'[w].pc, work'[w].result) =>
                    effects'[jobs'[work'[w].job].run] = 0
         PROVE  EffectsInv'
  <2>1. \A v \in Workers : Suspect(work'[v].pc, work'[v].result) =>
           effects'[jobs'[work'[v].job].run] = 0
    BY <1>1, <1>3, <1>done
  <2> QED BY <1>done, <2>1 DEF EffectsInv, RunOf, JobOf, OutcomeOf
<1>call. CASE CallProvider(w)
  <2>1. work[w].pc = "callProvider" /\ effects[q] = 0 /\ UNCHANGED <<ledger, jobs>>
    BY <1>call DEF CallProvider, EffectsInv
  <2>2. work[w].pc \in Executing /\ ledger[q][c] = "executing"
    BY <2>1 DEF Executing, WorkInv, OutcomeOf
  <2>3. ~Clean(q) BY <1>2, <2>1, <2>2 DEF Executing
  <2>4. \A v \in Workers \ {w} : Suspect(work[v].pc, work[v].result) => RunOf(v) # q
    BY <1>3, <2>2, OneExecutes
  <2>5. CASE effects' = [effects EXCEPT ![q] = @ + 1] /\ Goto(w, "saveResult")
    <3>1. work'[w].pc = "saveResult" BY <1>0, <2>5 DEF Goto, WorkRecords
    <3>2. effects'[q] = 1 /\ \A r \in Runs \ {q} : effects'[r] = effects[r]
      BY <1>0, <1>2, <2>1, <2>5
    <3>3. \A r \in Runs \ {q} : Clean(r) => effects[r] = 0
      BY <2>1 DEF EffectsInv, OutcomeOf
    <3>4. \A v \in Workers \ {w} : Suspect(work[v].pc, work[v].result) => RunOf(v) \in Runs
      BY <1>3, WorkFacts DEF Executing
    <3> HIDE DEF q, c, Clean
    <3>5. \A r \in Runs : effects'[r] <= 1 /\ (Clean(r) => effects'[r] = 0)
      BY <1>4, <2>3, <3>2, <3>3
    <3>6. \A v \in Workers \ {w} : Suspect(work[v].pc, work[v].result) =>
              effects'[RunOf(v)] = 0
      BY <1>3, <2>4, <3>2, <3>4
    <3>7. ~Suspect(work'[w].pc, work'[w].result) BY <3>1 DEF Settling
    <3> HIDE DEF Suspect
    <3> QED BY <1>done, <3>5, <3>6, <3>7
  <2>6. CASE Got(w, "error") /\ UNCHANGED effects
    <3>1. work'[w].job = work[w].job BY <1>0, <2>6 DEF Got, WorkRecords
    <3>2. effects'[jobs'[work'[w].job].run] = 0
      BY <1>2, <2>1, <2>6, <3>1 DEF RunOf, JobOf
    <3>3. \A r \in Runs : Clean(r) => effects'[r] = 0
      BY <2>1, <2>6 DEF EffectsInv, OutcomeOf
    <3> QED BY <1>3, <1>4, <1>done, <2>6, <3>2, <3>3
  <2> QED BY <1>call, <2>5, <2>6 DEF CallProvider
<1>rest. CASE ~CallProvider(w)
  <2>1. UNCHANGED effects
    BY <1>rest
    DEF WorkStep, ClaimJob, AbortWork, WorkerStep, LoadRun, SettleJob, FindGatewayStep,
      OpenStep, SaveClaimedRun, LogClaim, LookUpResult, SaveResult, RecheckJob,
      RecheckRun, DropJob, FindDroppedStep, DropStep, EndStep, EndJob, EndRun, LogEnd
  <2>2. Suspect(work'[w].pc, work'[w].result) => effects[jobs'[work'[w].job].run] = 0
    <3>1. CASE LookUpResult(w)
      <4>1. ledger[q][c] = "none" /\ (c = 1 \/ ledger[q][c - 1] = "failed")
            /\ q \in Runs /\ c \in Attempts
        BY <1>2, <3>1 DEF LookUpResult, WorkInv, Preparing, JobAfterFailure, OutcomeOf,
           RunOf, JobOf
      <4> HIDE DEF q, c
      <4>2. \A a \in Attempts : ledger[q][a] \in {"none", "failed"}
        <5>1. \A a \in Attempts : c < a => ledger[q][a] = "none"
          BY <4>1 DEF InOrder, OutcomeOf
        <5>2. \A a \in Attempts : a < c => ledger[q][a] = "failed"
          <6> SUFFICES ASSUME NEW a \in Attempts, a < c PROVE ledger[q][a] = "failed"
            OBVIOUS
          <6>1. c - 1 \in Attempts /\ c # 1 /\ (a = c - 1 \/ a < c - 1)
            BY <4>1, MaxAttemptsAssumption DEF Attempts
          <6> QED BY <4>1, <6>1 DEF InOrder, OutcomeOf
        <5>3. \A a \in Attempts : a = c \/ a < c \/ c < a BY <4>1 DEF Attempts
        <5> QED BY <4>1, <5>1, <5>2, <5>3
      <4>3. effects[q] = 0 BY <4>1, <4>2 DEF EffectsInv, OutcomeOf
      <4>4. work'[w].job = work[w].job
        BY <1>0, <3>1 DEF LookUpResult, Goto, Got, WorkRecords
      <4>5. jobs'[work'[w].job].run = q BY <1>2, <3>1, <4>4 DEF LookUpResult
      <4> QED BY <4>3, <4>5
    <3>2. CASE SaveResult(w)
      <4>1. Got(w, "ok") BY <3>2 DEF SaveResult
      <4>2. work'[w].pc = "recheckJob" /\ work'[w].result = "ok"
        BY <1>0, <4>1 DEF Got, WorkRecords
      <4> QED BY <4>2
    <3>3. CASE RecheckJob(w) \/ RecheckRun(w) \/ EndStep(w) \/ EndJob(w)
      <4>1. /\ work[w].pc \in Settling
            /\ work'[w].pc \in Settling => /\ work'[w].job = work[w].job
                                           /\ work'[w].result = work[w].result
        <5>1. CASE RecheckJob(w)
          BY <1>0, <5>1 DEF RecheckJob, WorkRecords, Settling
        <5>2. CASE RecheckRun(w)
          BY <1>0, <5>2 DEF RecheckRun, Goto, WorkRecords, Settling
        <5>3. CASE EndStep(w) \/ EndJob(w)
          BY <1>0, <5>3 DEF EndStep, EndJob, Goto, WorkRecords, Settling
        <5> QED BY <3>3, <5>1, <5>2, <5>3
      <4>2. work'[w].pc # "callProvider"
        <5>1. CASE RecheckJob(w) BY <1>0, <5>1 DEF RecheckJob, WorkRecords
        <5>2. CASE RecheckRun(w)
          BY <1>0, <5>2 DEF RecheckRun, Goto, WorkRecords
        <5>3. CASE EndStep(w) \/ EndJob(w)
          BY <1>0, <5>3 DEF EndStep, EndJob, Goto, WorkRecords
        <5> QED BY <3>3, <5>1, <5>2, <5>3
      <4>3. work[w].pc # "idle" BY <4>1 DEF Settling
      <4>4. work[w].pc \in Settling /\ work[w].result # "ok" => effects[q] = 0
        BY DEF EffectsInv
      <4> QED BY <1>2, <4>1, <4>2, <4>3, <4>4
    <3>4. CASE ~ (\/ LookUpResult(w) \/ SaveResult(w) \/ RecheckJob(w) \/ RecheckRun(w)
                  \/ EndStep(w) \/ EndJob(w))
      <4>1. work'[w].pc \notin Settling /\ work'[w].pc # "callProvider"
        <5>1. CASE ClaimJob(w) BY <1>0, <5>1 DEF ClaimJob, IdleWork, Settling
        <5>2. CASE Leave(w) BY <1>0, <5>2 DEF Leave, IdleWork, Settling
        <5>3. CASE \E pc \in {"failJob", "cancelJob", "reopenStep", "insertStep", "saveClaim",
                              "logClaim", "lookup", "findDrop", "dropStep", "logEnd"} :
                      Goto(w, pc)
          BY <1>0, <5>3 DEF Goto, WorkRecords, Settling
        <5>4. CASE LoadRun(w)
          BY <1>0, <5>3, <5>4 DEF LoadRun, WorkRecords, Settling
        <5> QED
          BY <1>rest, <3>4, <5>1, <5>2, <5>3, <5>4
          DEF WorkStep, AbortWork, WorkerStep, SettleJob, FindGatewayStep,
            OpenStep, SaveClaimedRun, LogClaim, DropJob, FindDroppedStep, DropStep,
            EndRun, LogEnd
      <4> QED BY <4>1
    <3> QED BY <3>1, <3>2, <3>3, <3>4
  <2>3. \A r \in Runs : Clean(r) => effects[r] = 0
    <3>1. CASE UNCHANGED ledger BY <3>1 DEF EffectsInv, OutcomeOf
    <3>2. CASE LookUpResult(w)
      <4>1. work[w].pc # "idle" BY <3>2 DEF LookUpResult
      <4>2. LedgerMove(w, "none", "executing") \/ UNCHANGED ledger
        BY <3>2, WorkerLedger DEF LookUpResult, Executing
      <4>3. CASE LedgerMove(w, "none", "executing")
        <5>1. \A r \in Runs, a \in Attempts :
                 ledger'[r][a] = IF r = q /\ a = c THEN "executing" ELSE ledger[r][a]
          BY <4>1, <4>3, LedgerPoint
        <5> HIDE DEF q, c
        <5>2. ~Clean(q) BY <1>2, <4>1, <5>1
        <5>3. \A r \in Runs \ {q}, a \in Attempts : ledger'[r][a] = ledger[r][a] BY <5>1
        <5> QED BY <5>2, <5>3 DEF EffectsInv, OutcomeOf
      <4> QED BY <3>1, <4>2, <4>3
    <3>3. CASE RecheckRun(w) \/ EndRun(w)
      <4>1. work[w].pc \in Executing /\ work[w].pc \in Settling
        BY <3>3 DEF RecheckRun, EndRun, Executing, Settling
      <4>0. q \in Runs /\ c \in Attempts BY <1>2, <4>1 DEF Executing
      <4>2. AttemptOf(w) = c BY <4>1 DEF WorkInv
      <4>3. \/ UNCHANGED ledger
            \/ \E to : /\ ledger' = [ledger EXCEPT ![q][c] = to]
                       /\ to = "discarded" \/ to = "succeeded" \/ effects[q] = 0
        BY <3>3, <4>1, <4>2 DEF RecheckRun, EndRun, EffectsInv
      <4>4. CASE ~ UNCHANGED ledger
        <5>1. PICK to : /\ ledger' = [ledger EXCEPT ![q][c] = to]
                        /\ to = "discarded" \/ to = "succeeded" \/ effects[q] = 0
          BY <4>3, <4>4
        <5> HIDE DEF q, c
        <5>2. ledger'[q][c] = to /\ \A r \in Runs \ {q} : ledger'[r] = ledger[r]
          BY <4>0, <5>1 DEF TypeOK
        <5>3. Clean(q) => effects[q] = 0 BY <4>0, <5>1, <5>2
        <5> QED BY <5>2, <5>3 DEF EffectsInv, OutcomeOf
      <4> QED BY <3>1, <4>4
    <3> QED
      BY <3>1, <3>2, <3>3
      DEF WorkStep, ClaimJob, AbortWork, WorkerStep, LoadRun, SettleJob, FindGatewayStep,
        OpenStep, SaveClaimedRun, LogClaim, CallProvider, SaveResult, RecheckJob,
        DropJob, FindDroppedStep, DropStep, EndStep, EndJob, LogEnd
  <2> HIDE DEF Suspect, Clean
  <2> QED BY <1>3, <1>4, <1>done, <2>1, <2>2, <2>3
<1> QED BY <1>call, <1>rest

(* Every step of a request, its start and its abort too, preserves TypeOK. *)
LEMMA TypesByCalls ==
    ASSUME TypeOK, CallsInv, NEW h \in Handlers, CallStep(h)
    PROVE  TypeOK'
<1>1. CASE HandlerStep(h) BY <1>1, HandlerTypes
<1>2. ASSUME NEW r \in Runs, BeginStart(h, r) \/ BeginRetry(h, r) \/ BeginCancel(h, r)
      PROVE  TypeOK'
  <2>1. PICK pc \in {"saveRun", "listJobs"}, rec \in {Absent, runs[r]} : Accept(h, pc, r, rec)
    BY <1>2 DEF BeginStart, BeginRetry, BeginCancel
  <2>2. rec \in RunRecords BY <2>1 DEF TypeOK, RunRecords
  <2>3. [IdleCall EXCEPT !.pc = pc, !.run = r, !.rec = rec] \in CallRecords
    BY <2>2 DEF IdleCall, CallRecords, CallPCs
  <2>4. UNCHANGED <<runs, steps, jobs, trail, results, effects, work, ledger>>
    BY <1>2 DEF BeginStart, BeginRetry, BeginCancel
  <2>5. call' \in [Handlers -> CallRecords']
    BY <2>1, <2>3, <2>4, CallType DEF Accept
  <2> QED BY <2>4, <2>5 DEF TypeOK, WorkRecords
<1>3. CASE AbortCall(h)
  <2>1. call' \in [Handlers -> CallRecords']
    BY <1>3, GoType DEF AbortCall, CallPCs
  <2> QED BY <1>3, <2>1 DEF AbortCall, TypeOK, WorkRecords
<1> QED BY <1>1, <1>2, <1>3 DEF CallStep

(* Every step of a worker, its claim and its abort too, preserves TypeOK. *)
LEMMA TypesByWork ==
    ASSUME TypeOK, WorkInv, NEW w \in Workers, WorkStep(w)
    PROVE  TypeOK'
<1>1. CASE WorkerStep(w) BY <1>1, WorkerTypes
<1>2. CASE ClaimJob(w)
  <2>1. PICK j \in DOMAIN jobs : /\ SetJob(j, "running")
                                 /\ work' = [work EXCEPT ![w] =
                                      [IdleWork EXCEPT !.pc = "load", !.job = j]]
    BY <1>2 DEF ClaimJob
  <2>2. jobs' \in Seq(JobRecords) /\ DOMAIN jobs' = DOMAIN jobs BY <2>1, JobsType
  <2>3. [IdleWork EXCEPT !.pc = "load", !.job = j] \in WorkRecords
    BY DEF IdleWork, WorkRecords, Preparing, RunRecords
  <2>4. work' \in [Workers -> WorkRecords'] BY <2>1, <2>2, <2>3, WorkType
  <2> QED BY <1>2, <2>2, <2>4 DEF ClaimJob, TypeOK, CallRecords
<1>3. CASE AbortWork(w)
  <2>1. work' \in [Workers -> WorkRecords']
    BY <1>3, GotoType DEF AbortWork, Preparing
  <2> QED BY <1>3, <2>1 DEF AbortWork, TypeOK, CallRecords
<1> QED BY <1>1, <1>2, <1>3 DEF WorkStep

(* The empty database satisfies the inductive invariant. *)
LEMMA InitIndInv == Init => IndInv
<1> SUFFICES ASSUME Init PROVE IndInv OBVIOUS
<1>1. jobs \in Seq(JobRecords) /\ DOMAIN jobs = {} BY DEF Init
<1>2. IdleCall \in CallRecords BY DEF IdleCall, CallRecords, CallPCs, RunRecords
<1>3. IdleWork \in WorkRecords BY DEF IdleWork, WorkRecords, RunRecords
<1>4. Absent \in RunRecords BY DEF RunRecords
<1>5. TypeOK BY <1>1, <1>2, <1>3, <1>4 DEF TypeOK, Init
<1>6. JobsInv /\ LedgerInv /\ InOrder /\ JobAfterFailure
  BY <1>1 DEF JobsInv, LedgerInv, InOrder, JobAfterFailure, Init, OutcomeOf
<1>7. \A h \in Handlers : call[h].pc = "idle" BY DEF Init, IdleCall
<1>8. \A w \in Workers : work[w].pc = "idle" BY DEF Init, IdleWork
<1>9. CallsInv /\ QueuesAfterFailure
  BY <1>7 DEF CallsInv, QueuesAfterFailure, Queueing, Cancelling
<1>10. WorkInv /\ TakesUpOpenRun
  BY <1>8 DEF WorkInv, TakesUpOpenRun, Preparing, Executing, Loaded, Settling
<1>11. StatusIsEarned /\ TrailIsLegal
  BY DEF StatusIsEarned, TrailIsLegal, Init, Absent
<1>12. EffectsInv BY <1>8 DEF EffectsInv, Init, Settling
<1> QED BY <1>5, <1>6, <1>9, <1>10, <1>11, <1>12 DEF IndInv, BaseInv

(* Every step is one of a request or of a worker. *)
LEMMA NextSteps ==
    ASSUME Next
    PROVE  (\E h \in Handlers : CallStep(h)) \/ (\E w \in Workers : WorkStep(w))
BY DEF Next, CallStep, WorkStep

(* Requests preserve the part of the inductive invariant that does not ask who *)
(* writes the runs.                                                            *)
LEMMA BaseInvByCalls ==
    ASSUME BaseInv, NEW h \in Handlers, CallStep(h)
    PROVE  BaseInv'
BY TypesByCalls, JobsByCalls, CallsByCalls, WorkByCalls, LedgerByCalls DEF BaseInv

(* Workers preserve it. *)
LEMMA BaseInvByWork ==
    ASSUME BaseInv, NEW w \in Workers, WorkStep(w)
    PROVE  BaseInv'
BY TypesByWork, JobsByWork, CallsByWork, WorkByWork, LedgerByWork DEF BaseInv

(* Requests preserve the inductive invariant. *)
LEMMA IndInvByCalls ==
    ASSUME IndInv, NEW h \in Handlers, CallStep(h)
    PROVE  IndInv'
<1>0. TypeOK /\ JobsInv /\ CallsInv /\ WorkInv BY DEF IndInv, BaseInv
<1>1. BaseInv' BY BaseInvByCalls DEF IndInv
<1>2. QueuesAfterFailure' /\ JobAfterFailure' /\ StatusIsEarned' /\ TrailIsLegal'
      /\ EffectsInv'
  BY <1>0, QueuesByCalls, FailuresByCalls, StatusByCalls, TrailByCalls, EffectsByCalls
  DEF IndInv
<1>3. UNCHANGED <<work, ledger>> BY <1>0, HandlerFrame
<1>4. InOrder' /\ TakesUpOpenRun'
  BY <1>3 DEF IndInv, InOrder, OutcomeOf, TakesUpOpenRun
<1> QED BY <1>1, <1>2, <1>4 DEF IndInv

(* Workers preserve the inductive invariant. *)
LEMMA IndInvByWork ==
    ASSUME IndInv, NEW w \in Workers, WorkStep(w)
    PROVE  IndInv'
<1>0. TypeOK /\ JobsInv /\ CallsInv /\ WorkInv BY DEF IndInv, BaseInv
<1>1. BaseInv' BY BaseInvByWork DEF IndInv
<1>2. QueuesAfterFailure' /\ JobAfterFailure' /\ TakesUpOpenRun' /\ StatusIsEarned'
      /\ TrailIsLegal' /\ InOrder'
  BY <1>0, QueuesByWork, FailuresByWork, OpenByWork, StatusByWork, TrailByWork, OrderByWork
  DEF IndInv
<1>3. EffectsInv'
  <2>1. CASE "gatewaySave" \in Faults BY <2>1 DEF EffectsInv
  <2>2. CASE "gatewaySave" \notin Faults BY <1>0, <2>2, EffectsByWork DEF IndInv
  <2> QED BY <2>1, <2>2
<1> QED BY <1>1, <1>2, <1>3 DEF IndInv

(* Stuttering preserves the shared part ... *)
LEMMA BaseInvStutters == BaseInv /\ UNCHANGED vars => BaseInv'
<1> SUFFICES ASSUME BaseInv, UNCHANGED vars PROVE BaseInv' OBVIOUS
<1>1. TypeOK' BY DEF BaseInv, vars, TypeOK, CallRecords, WorkRecords
<1>2. JobsInv' BY DEF BaseInv, vars, JobsInv, HasDispatch, OutcomeOf, IsJobOf
<1>3. CallsInv'
  BY DEF BaseInv, vars, CallsInv, NextAttempt, HasDispatch, HasJob, IsJobOf
<1>4. WorkInv' BY DEF BaseInv, vars, WorkInv, JobOf, RunOf, AttemptOf, OutcomeOf
<1>5. LedgerInv' BY DEF BaseInv, vars, LedgerInv, OutcomeOf, IsJobOf
<1> QED BY <1>1, <1>2, <1>3, <1>4, <1>5 DEF BaseInv

(* ... and the rest of the inductive invariant. *)
LEMMA IndInvStutters == IndInv /\ UNCHANGED vars => IndInv'
<1> SUFFICES ASSUME IndInv, UNCHANGED vars PROVE IndInv' OBVIOUS
<1>1. BaseInv' BY BaseInvStutters DEF IndInv
<1>2. QueuesAfterFailure' /\ JobAfterFailure' /\ TakesUpOpenRun'
  BY DEF IndInv, vars, QueuesAfterFailure, JobAfterFailure, TakesUpOpenRun, OutcomeOf
<1>3. InOrder' /\ StatusIsEarned' /\ TrailIsLegal'
  BY DEF IndInv, vars, InOrder, StatusIsEarned, TrailIsLegal, OutcomeOf
<1>4. EffectsInv' BY DEF IndInv, vars, EffectsInv, OutcomeOf, RunOf, JobOf
<1> QED BY <1>1, <1>2, <1>3, <1>4 DEF IndInv

(* The inductive invariant holds in every state, for every number of runs, requests,
   workers and attempts and every choice of calls and faults. *)
THEOREM Invariance == Spec => []IndInv
<1>1. IndInv /\ [Next]_vars => IndInv'
  BY NextSteps, IndInvByCalls, IndInvByWork, IndInvStutters
<1> QED BY InitIndInv, <1>1, PTL DEF Spec

(* Rows and in-memory copies always have their types. *)
THEOREM TypeCorrect == Spec => []TypeOK
<1>1. IndInv => TypeOK BY DEF IndInv, BaseInv
<1> QED BY Invariance, <1>1, PTL

(* No stale save of CancelWorkflowRun, RetryWorkflowRun or processWorkflowJob makes a
   run claim an end that its attempt did not have. *)
THEOREM StatusEarned == Spec => []StatusIsEarned
<1>1. IndInv => StatusIsEarned BY DEF IndInv
<1> QED BY Invariance, <1>1, PTL

(* The newest row of state_transitions is always a move of the life cycle. *)
THEOREM TrailLegal == Spec => []TrailIsLegal
<1>1. IndInv => TrailIsLegal BY DEF IndInv
<1> QED BY Invariance, <1>1, PTL

(* Requests that race through StartWorkflow or RetryWorkflowRun enqueue an attempt
   once, and never without its dispatch step. *)
THEOREM JobsUnique == Spec => []OneJobPerAttempt
<1>1. IndInv => OneJobPerAttempt
  BY DEF IndInv, BaseInv, JobsInv, OneJobPerAttempt, HasDispatch, IsJobOf, StepsOf
<1> QED BY Invariance, <1>1, PTL

(* While SaveGatewayResult cannot fail, the provider acts once for a run, whatever is
   retried, cancelled or aborted. *)
THEOREM EffectOnce == Spec => []OneEffect
<1>1. IndInv => OneEffect BY DEF IndInv, EffectsInv, OneEffect
<1> QED BY Invariance, <1>1, PTL

(* ClaimNextJob and the saves of jobs never put a job back. *)
THEOREM JobsOnlyAdvance == Spec => JobsNeverReopen
<1> DEFINE Advance == \A j \in DOMAIN jobs :
              /\ jobs[j].status # "pending" => jobs'[j].status # "pending"
              /\ jobs[j].status \notin Open => jobs'[j].status \notin Open
<1>1. ASSUME TypeOK, NEW i \in DOMAIN jobs, NEW st \in Statuses, SetJob(i, st),
             st \notin Open \/ (jobs[i].status = "pending" /\ st = "running")
      PROVE  Advance
  <2>1. \A j \in DOMAIN jobs : jobs'[j] = IF j = i THEN [jobs[j] EXCEPT !.status = st]
                                                    ELSE jobs[j]
    BY <1>1, JobsType
  <2>2. jobs[i] \in JobRecords BY <1>1, JobFacts
  <2> QED BY <1>1, <2>1, <2>2 DEF Open, JobRecords
<1>2. UNCHANGED jobs => Advance OBVIOUS
<1> HIDE DEF Advance
<1>3. ASSUME IndInv, NEW h \in Handlers, CallStep(h) PROVE Advance
  <2>0. TypeOK /\ CallsInv BY <1>3 DEF IndInv, BaseInv
  <2>1. CASE CancelOneJob(h)
    <3>1. PICK j \in DOMAIN jobs : SetJob(j, "cancelled")
      BY <2>0, <2>1, CallFacts DEF CancelOneJob, CallRecords
    <3> QED BY <1>1, <2>0, <3>1 DEF Open
  <2>2. CASE EnqueueJob(h)
    <3>1. \A i \in DOMAIN jobs : jobs'[i] = jobs[i]
      BY <2>0, <2>2, CallFacts, NewJobType DEF EnqueueJob
    <3> QED BY <3>1 DEF Advance
  <2> QED
    BY <1>2, <1>3, <2>1, <2>2
    DEF CallStep, BeginStart, BeginRetry, BeginCancel, AbortCall, HandlerStep,
      SaveQueuedRun, LogQueued, SaveDispatchStep, ListOpenJobs,
      FindOpenGatewayStep, CancelGatewayStep, FindCancelStep, OrderCancelStep,
      InsertCancelStep, SaveCancelledRun, LogCancelled
<1>4. ASSUME IndInv, NEW w \in Workers, WorkStep(w) PROVE Advance
  <2>0. TypeOK /\ WorkInv BY <1>4 DEF IndInv, BaseInv
  <2>1. CASE ClaimJob(w) BY <1>1, <2>0, <2>1 DEF ClaimJob, Claimable
  <2>2. CASE SettleJob(w) \/ DropJob(w) \/ EndJob(w)
    <3>1. PICK st \in {"failed", "cancelled", "completed"} : SetJob(work[w].job, st)
      BY <2>2 DEF SettleJob, DropJob, EndJob, EndStatus
    <3>2. work[w].job \in DOMAIN jobs
      BY <2>0, <2>2, WorkFacts DEF SettleJob, DropJob, EndJob
    <3> QED BY <1>1, <2>0, <3>1, <3>2 DEF Open
  <2> QED
    BY <1>2, <1>4, <2>1, <2>2
    DEF WorkStep, AbortWork, WorkerStep, LoadRun, FindGatewayStep, OpenStep,
      SaveClaimedRun, LogClaim, LookUpResult, CallProvider, SaveResult, RecheckJob,
      RecheckRun, FindDroppedStep, DropStep, EndStep, EndRun, LogEnd
<1>5. IndInv /\ [Next]_vars => [Advance]_jobs
  BY <1>3, <1>4, NextSteps DEF vars
<1>6. [Advance]_jobs <=> [\A j \in DOMAIN jobs :
              /\ jobs[j].status # "pending" => jobs'[j].status # "pending"
              /\ jobs[j].status \notin Open => jobs'[j].status \notin Open]_jobs
  BY DEF Advance
<1> QED BY Invariance, <1>5, <1>6, PTL DEF Spec, JobsNeverReopen

(* The engine implements AttemptContract: attempts are executed in order, each once,
   one at a time, and only after a recorded failure of the one before. *)
THEOREM ImplementsContract == Spec => KeepsContract
<1>1. Init => Contract!Init BY DEF Init, Contract!Init, Attempts, Contract!Attempts
<1>2. ASSUME IndInv, [Next]_vars PROVE [Contract!Next]_ledger
  <2>0. TypeOK /\ CallsInv /\ WorkInv /\ JobAfterFailure BY <1>2 DEF IndInv, BaseInv
  <2>1. ASSUME NEW h \in Handlers, CallStep(h) PROVE UNCHANGED ledger
    BY <2>0, <2>1, HandlerFrame
  <2>2. ASSUME NEW w \in Workers, WorkStep(w) PROVE [Contract!Next]_ledger
    <3>1. CASE UNCHANGED ledger BY <3>1
    <3>2. CASE ~ UNCHANGED ledger
      <4>1. work[w].pc # "idle"
        BY <2>0, <2>2, <3>2, WorkerLedger DEF LookUpResult, Executing
      <4>2. /\ RunOf(w) \in Runs /\ JobOf(w).attempt \in Contract!Attempts
            /\ work[w].job \in DOMAIN jobs
        BY <2>0, <4>1, WorkFacts DEF Attempts, Contract!Attempts
      <4>3. JobOf(w).attempt = 1 \/ ledger[RunOf(w)][JobOf(w).attempt - 1] = "failed"
        BY <2>0, <4>2 DEF JobAfterFailure, OutcomeOf, RunOf, JobOf
      <4>4. \/ LedgerMove(w, "none", "executing")
            \/ \E end \in Contract!Ends : LedgerMove(w, "executing", end)
        BY <2>0, <2>2, <3>2, WorkerLedger
      <4>5. CASE LedgerMove(w, "none", "executing")
        <5>1. Contract!Begin(RunOf(w), JobOf(w).attempt)
          BY <4>3, <4>5 DEF LedgerMove, OutcomeOf, Contract!Begin
        <5> QED BY <4>2, <5>1 DEF Contract!Next
      <4>6. CASE \E end \in Contract!Ends : LedgerMove(w, "executing", end)
        <5>1. PICK end \in Contract!Ends : LedgerMove(w, "executing", end) BY <4>6
        <5>2. Contract!Finish(RunOf(w), JobOf(w).attempt, end)
          BY <5>1 DEF LedgerMove, OutcomeOf, Contract!Finish
        <5> QED BY <4>2, <5>2 DEF Contract!Next
      <4> QED BY <4>4, <4>5, <4>6
    <3> QED BY <3>1, <3>2
  <2> QED BY <1>2, <2>1, <2>2, NextSteps DEF vars
<1> QED BY Invariance, <1>1, <1>2, PTL DEF Spec, KeepsContract, Contract!Spec

-----------------------------------------------------------------------------
(* The quiet case. *)

(* What can be said of the job of a working worker. *)
LEMMA WorksFacts ==
    ASSUME IndInv, QuietInv, NEW w \in Workers, Works(w)
    PROVE  /\ work[w].job \in DOMAIN jobs /\ RunOf(w) \in Runs
           /\ JobOf(w).attempt \in Attempts
           /\ runs[RunOf(w)].attempt = JobOf(w).attempt
           /\ runs[RunOf(w)].status \in Open
           /\ runs[RunOf(w)] # Absent
<1>1. TypeOK /\ WorkInv BY DEF IndInv, BaseInv
<1>2. work[w].pc # "idle" BY DEF Works
<1>3. runs[RunOf(w)] = At(IF work[w].pc \in BeforeClaim THEN "pending" ELSE "running",
                          JobOf(w).attempt)
  BY DEF QuietInv, WorksCurrent
<1> QED BY <1>1, <1>2, <1>3, WorkFacts DEF At, Open, Absent

(* A working worker has its run to itself: no job waits for the run, no other *)
(* worker works on it and no request is about to queue it.                   *)
LEMMA WorksAlone ==
    ASSUME IndInv, QuietInv, NEW w \in Workers, Works(w)
    PROVE  /\ \A j \in DOMAIN jobs : jobs[j].run = RunOf(w) => jobs[j].status # "pending"
           /\ \A v \in Workers \ {w} : Works(v) => RunOf(v) # RunOf(w)
           /\ \A h \in Handlers : call[h].run = RunOf(w) =>
                 /\ ~Queues(h)
                 /\ call[h].pc = "saveRun" => call[h].rec = Absent
<1>1. TypeOK /\ JobsInv /\ WorkInv /\ CallsInv BY DEF IndInv, BaseInv
<1>2. /\ work[w].pc # "idle" /\ JobOf(w) = jobs[work[w].job] /\ RunOf(w) = JobOf(w).run
      /\ jobs[work[w].job].status # "pending"
  BY <1>1 DEF Works, JobOf, RunOf, WorkInv
<1>3. \A i \in DOMAIN jobs : jobs[i].run = RunOf(w) /\ jobs[i].attempt = JobOf(w).attempt
                               => i = work[w].job
  BY <1>1, <1>2, WorksFacts DEF JobsInv, IsJobOf
<1>4. ASSUME NEW j \in DOMAIN jobs, jobs[j].run = RunOf(w), jobs[j].status = "pending"
      PROVE  FALSE
  <2>1. runs[RunOf(w)] = At("pending", jobs[j].attempt)
    BY <1>4 DEF QuietInv, JobsFollowRun
  <2>2. runs[RunOf(w)].attempt = jobs[j].attempt BY <2>1 DEF At
  <2> QED BY <1>2, <1>3, <1>4, <2>2, WorksFacts
<1>5. ASSUME NEW v \in Workers \ {w}, Works(v), RunOf(v) = RunOf(w)
      PROVE  FALSE
  <2>1. JobOf(v).attempt = JobOf(w).attempt BY <1>5, WorksFacts
  <2>2. work[v].job = work[w].job
    BY <1>3, <1>5, <2>1, WorksFacts DEF JobOf, RunOf
  <2>3. work[v].pc # "idle" BY <1>5 DEF Works
  <2> QED BY <1>1, <1>2, <1>5, <2>2, <2>3 DEF WorkInv
<1>6. ASSUME NEW h \in Handlers, call[h].run = RunOf(w)
      PROVE  ~Queues(h) /\ (call[h].pc = "saveRun" => call[h].rec = Absent)
  <2>1. CASE Queues(h)
    <3>0. runs[RunOf(w)] = At("pending", NextAttempt(h))
      BY <1>6, <2>1 DEF QuietInv, QueuesCurrent
    <3>1. NextAttempt(h) = JobOf(w).attempt BY <3>0, WorksFacts DEF At
    <3>2. HasJob(call[h].run, NextAttempt(h))
      BY <1>2, <1>6, <3>1, WorksFacts DEF HasJob, IsJobOf
    <3>3. HasDispatch(call[h].run, NextAttempt(h))
      BY <1>1, <3>2 DEF JobsInv, HasJob, IsJobOf
    <3>4. CASE call[h].pc = "enqueue" BY <1>1, <3>2, <3>4 DEF CallsInv
    <3>5. CASE call[h].pc \in {"logQueued", "dispatch"}
      <4>1. \A s \in StepsOf(call[h].run) : s.attempt < NextAttempt(h)
        BY <3>5 DEF QuietInv, QueuesCurrent
      <4>2. NextAttempt(h) < NextAttempt(h) BY <3>3, <4>1 DEF HasDispatch, StepsOf
      <4>3. NextAttempt(h) \in Nat BY <3>1, WorksFacts DEF Attempts
      <4> QED BY <4>2, <4>3
    <3> QED BY <2>1, <3>4, <3>5 DEF Queues, Queueing
  <2>2. CASE call[h].pc = "saveRun" /\ call[h].rec # Absent
    <3>1. call[h].rec = runs[RunOf(w)] BY <1>6, <2>2 DEF QuietInv, QueuesCurrent
    <3>2. call[h].rec.status = "failed"
      BY <2>2 DEF IndInv, QueuesAfterFailure, Queueing
    <3> QED BY <3>1, <3>2, WorksFacts DEF Open
  <2> QED BY <2>1, <2>2
<1> QED BY <1>4, <1>5, <1>6

(* What a statement of a working worker does: it touches its own run, row and *)
(* gateway step alone, and leaves the run to itself or in agreement.          *)
Touches(w) ==
    LET r == RunOf(w)
        a == JobOf(w).attempt
    IN  /\ \A x \in Runs \ {r} : runs'[x] = runs[x]
        /\ runs'[r].attempt = a
        /\ \A s \in steps' \ steps : \E st : s = GatewayStep(r, a, st)
        /\ \A s \in steps \ steps' : s.run = r
        /\ DOMAIN jobs' = DOMAIN jobs
        /\ \A i \in DOMAIN jobs \ {work[w].job} : jobs'[i] = jobs[i]
        /\ jobs'[work[w].job].run = r
        /\ jobs'[work[w].job].attempt = a
        /\ jobs'[work[w].job].status # "pending"

(* Each statement of a working worker does so. *)
LEMMA WorkTouches ==
    ASSUME QuietCase, IndInv, QuietInv, NEW w \in Workers, Works(w), WorkerStep(w)
    PROVE  /\ Touches(w)
           /\ WorksCurrent(w)'
           /\ RunOf(w)' = RunOf(w)
           /\ Works(w)' \/ Agrees(RunOf(w))'
<1> DEFINE j == work[w].job
           r == RunOf(w)
           a == JobOf(w).attempt
<1>1. TypeOK /\ WorkInv /\ JobsInv BY DEF IndInv, BaseInv
<1>2. /\ j \in DOMAIN jobs /\ r \in Runs /\ a \in Attempts
      /\ runs[r].attempt = a /\ runs[r].status \in Open
      /\ runs[r] # Absent
  BY WorksFacts
<1>3. WorksCurrent(w) BY DEF QuietInv
<1>4. JobsKeep /\ DOMAIN jobs' = DOMAIN jobs BY <1>1, WorkerFrame DEF WorkStep
<1>5. /\ r = jobs[j].run /\ a = jobs[j].attempt /\ jobs[j].status # "pending"
      /\ jobs'[j].run = r /\ jobs'[j].attempt = a /\ jobs'[j].status # "pending"
  BY <1>1, <1>2, <1>4 DEF RunOf, JobOf, JobsKeep, Works, WorkInv
<1>6. /\ DOMAIN work = Workers /\ DOMAIN runs = Runs /\ work[w] \in WorkRecords
      /\ DOMAIN work[w] = {"pc", "job", "rec", "result", "seen"}
  BY <1>1 DEF TypeOK, WorkRecords
<1>7. Reads(runs[r], Absent) = {runs[r]} /\ Reads(results[r], FALSE) = {results[r]}
      /\ Reads(StepsOf(r), {}) = {StepsOf(r)}
      /\ Reads(JobOf(w).status, "none") = {JobOf(w).status}
  BY DEF QuietCase, Reads
<1>8. work[w].pc \in Loaded \cup Executing => AttemptOf(w) = a
  BY <1>1 DEF WorkInv
<1>9. UNCHANGED <<runs, steps, jobs>> => Touches(w)
  BY <1>2, <1>5 DEF Touches
<1>10. work'[w].job = j => RunOf(w)' = r /\ JobOf(w)' = jobs'[j]
  BY <1>5 DEF RunOf, JobOf
<1> USE DEF Works
<1>a. CASE LoadRun(w)
  <2>1. ~Superseded(runs[r], JobOf(w))
    BY <1>2 DEF Superseded, Open
  <2>2. work' = [work EXCEPT ![w].pc = "findStep", ![w].rec = runs[r]]
        /\ UNCHANGED <<runs, steps, jobs>> /\ work[w].pc = "load"
    BY <1>2, <1>7, <1>a, <2>1 DEF LoadRun
  <2>3. work'[w].pc = "findStep" /\ work'[w].rec = runs[r] /\ work'[w].job = j
    BY <1>6, <2>2
  <2>4. runs[r].status = "pending"
    BY <1>3, <2>2 DEF WorksCurrent, BeforeClaim, BeforeStep, At
  <2>5. WorksCurrent(w)'
    BY <1>3, <1>10, <2>2, <2>3, <2>4 DEF WorksCurrent, BeforeClaim, BeforeStep,
       RunOf, JobOf, HasGateway
  <2> QED BY <1>9, <1>10, <2>2, <2>3, <2>5
<1>b. CASE FindGatewayStep(w)
  <2>1. work[w].pc = "findStep" /\ AttemptOf(w) = a /\ ~HasGateway(r, a)
    BY <1>3, <1>8, <1>b DEF FindGatewayStep, Loaded, Preparing, WorksCurrent, BeforeStep
  <2>2. ~HasStep(StepsOf(r), a, "gateway") /\ GatewayStep(r, a, "running") \notin StepsOf(r)
    BY <2>1 DEF HasGateway, HasStep, StepsOf, GatewayStep, Step
  <2>3. Goto(w, "insertStep") /\ UNCHANGED <<runs, steps, jobs>>
    <3>1. PICK seen \in {StepsOf(r)} :
             Goto(w, CASE ~HasStep(seen, AttemptOf(w), "gateway") -> "insertStep"
                       [] GatewayStep(r, AttemptOf(w), "running") \in seen -> "saveClaim"
                       [] OTHER -> "reopenStep")
      BY <1>7, <1>b, Zenon DEF FindGatewayStep
    <3>2. UNCHANGED <<runs, steps, jobs>> BY <1>b DEF FindGatewayStep
    <3> QED BY <2>1, <2>2, <3>1, <3>2
  <2>4. work'[w].pc = "insertStep" /\ work'[w].rec = work[w].rec /\ work'[w].job = j
    BY <1>6, <2>3 DEF Goto
  <2>5. WorksCurrent(w)'
    BY <1>3, <1>10, <2>1, <2>3, <2>4 DEF WorksCurrent, BeforeClaim, BeforeStep,
       RunOf, JobOf, HasGateway
  <2> QED BY <1>9, <1>10, <2>3, <2>4, <2>5
<1>c. CASE OpenStep(w)
  <2> DEFINE s == GatewayStep(r, a, "running")
  <2>1. work[w].pc = "insertStep" /\ AttemptOf(w) = a /\ ~HasGateway(r, a)
    BY <1>3, <1>8, <1>c DEF OpenStep, Loaded, Preparing, WorksCurrent, BeforeClaim,
       BeforeStep, Claimed, Executing
  <2>2. /\ s.run = r /\ s.attempt = a /\ s.suffix = "gateway"
        /\ s.order = 2 * (a - 1) + 2
    BY DEF GatewayStep, Step, FixedOrder
  <2>3. CanInsert(s)
    <3> SUFFICES ASSUME NEW t \in steps, t.run = r
                 PROVE  ~SameKey(s, t) /\ t.order # s.order
      BY <2>2 DEF CanInsert, StepsOf
    <3>1. ~SameKey(s, t) BY <2>1, <2>2 DEF SameKey, HasGateway
    <3>2. /\ t.order = FixedOrder(t.attempt, t.suffix) /\ t.attempt <= a
          /\ t.suffix \in {"dispatch", "gateway"}
      BY <1>2 DEF QuietInv, StepsFollowRun
    <3>3. t.attempt \in Nat BY <1>1 DEF TypeOK, StepRecords, Attempts
    <3>4. a \in Nat BY <1>2 DEF Attempts
    <3>5. t.suffix = "dispatch" => t.order = 2 * (t.attempt - 1) + 1
      BY <3>2 DEF FixedOrder
    <3>6. t.suffix = "gateway" => t.order = 2 * (t.attempt - 1) + 2 /\ t.attempt # a
      BY <2>1, <3>2 DEF FixedOrder, HasGateway
    <3> HIDE DEF s
    <3>7. t.order # s.order BY <2>2, <3>2, <3>3, <3>4, <3>5, <3>6
    <3> QED BY <3>1, <3>7
  <2>4. steps' = steps \cup {s} /\ Goto(w, "saveClaim") /\ UNCHANGED <<runs, jobs>>
    BY <1>c, <2>1, <2>3 DEF OpenStep
  <2>5. work'[w].pc = "saveClaim" /\ work'[w].rec = work[w].rec /\ work'[w].job = j
    BY <1>6, <2>4 DEF Goto
  <2>6. Touches(w) BY <1>2, <1>5, <2>4 DEF Touches
  <2>7. WorksCurrent(w)'
    BY <1>3, <1>5, <1>10, <2>1, <2>4, <2>5 DEF WorksCurrent, BeforeClaim, BeforeStep,
       RunOf, JobOf
  <2> QED BY <1>10, <2>5, <2>6, <2>7
<1>d. CASE SaveClaimedRun(w)
  <2>1. /\ work[w].pc = "saveClaim" /\ AttemptOf(w) = a /\ work[w].rec.status = "pending"
        /\ JobOf(w).status = "running" /\ GatewayStep(r, a, "running") \in steps
    BY <1>3, <1>8, <1>d DEF SaveClaimedRun, Loaded, Preparing, WorksCurrent, BeforeClaim,
       BeforeStep
  <2>2. /\ runs' = [runs EXCEPT ![r] = At("running", a)] /\ Goto(w, "logClaim")
        /\ UNCHANGED <<steps, jobs>>
    BY <1>d, <2>1 DEF SaveClaimedRun, SetRun, At
  <2>3. work'[w].pc = "logClaim" /\ work'[w].rec = work[w].rec /\ work'[w].job = j
    BY <1>6, <2>2 DEF Goto
  <2>4. runs'[r] = At("running", a) /\ \A x \in Runs \ {r} : runs'[x] = runs[x]
    BY <1>2, <1>6, <2>2
  <2>5. Touches(w) BY <1>2, <1>5, <2>2, <2>4 DEF Touches, At
  <2>6. WorksCurrent(w)'
    BY <1>5, <1>10, <2>1, <2>2, <2>3, <2>4 DEF WorksCurrent, BeforeClaim, BeforeStep,
       Claimed, RunOf, JobOf
  <2> QED BY <1>10, <2>3, <2>5, <2>6
<1>e. CASE LogClaim(w) \/ LookUpResult(w) \/ CallProvider(w) \/ SaveResult(w)
           \/ RecheckJob(w) \/ RecheckRun(w)
  <2>1. /\ work[w].pc \in {"logClaim", "lookup", "callProvider", "saveResult", "recheckJob",
                           "recheckRun"}
        /\ UNCHANGED <<runs, steps, jobs>>
    BY <1>e DEF LogClaim, LookUpResult, CallProvider, SaveResult, RecheckJob, RecheckRun
  <2>2. /\ runs[r] = At("running", a) /\ JobOf(w).status = "running"
        /\ GatewayStep(r, a, "running") \in steps
        /\ work[w].pc = "recheckRun" => work[w].seen = "running"
    BY <1>3, <2>1 DEF WorksCurrent, BeforeClaim, BeforeStep
  <2>3. /\ work'[w].job = j
        /\ work'[w].pc \in {"lookup", "callProvider", "saveResult", "recheckJob",
                            "recheckRun", "endStep"}
        /\ work'[w].pc = "recheckRun" => work'[w].seen = "running"
    <3>1. CASE LogClaim(w) \/ LookUpResult(w) \/ CallProvider(w) \/ SaveResult(w)
      <4>1. PICK pc \in {"lookup", "callProvider", "saveResult", "recheckJob"} :
                   Goto(w, pc) \/ (pc = "recheckJob" /\ \E x \in {"ok", "error"} : Got(w, x))
        BY <3>1 DEF LogClaim, LookUpResult, CallProvider, SaveResult
      <4> QED BY <1>6, <4>1 DEF Goto, Got
    <3>2. CASE RecheckJob(w)
      <4>1. work' = [work EXCEPT ![w].pc = "recheckRun", ![w].seen = "running"]
        BY <1>7, <2>2, <3>2 DEF RecheckJob
      <4> QED BY <1>6, <4>1
    <3>3. CASE RecheckRun(w)
      <4>1. work[w].seen = "running" /\ runs[r].status = "running"
        BY <2>2, <3>3 DEF RecheckRun, At
      <4>2. Goto(w, "endStep") BY <1>7, <3>3, <4>1 DEF RecheckRun
      <4> QED BY <1>6, <4>2 DEF Goto
    <3> QED BY <1>e, <3>1, <3>2, <3>3
  <2>4. RunOf(w)' = r /\ JobOf(w)' = JobOf(w)
    BY <2>1, <2>3 DEF RunOf, JobOf
  <2>5. WorksCurrent(w)'
    BY <2>1, <2>2, <2>3, <2>4 DEF WorksCurrent, BeforeClaim, BeforeStep, Claimed, Executing
  <2> QED BY <1>9, <2>1, <2>3, <2>4, <2>5
<1>f. CASE EndStep(w)
  <2> DEFINE s == GatewayStep(r, a, EndStatus(w))
  <2>1. /\ work[w].pc = "endStep" /\ AttemptOf(w) = a
        /\ runs[r] = At("running", a) /\ JobOf(w).status = "running"
    BY <1>3, <1>8, <1>f DEF EndStep, Executing, WorksCurrent, BeforeClaim, BeforeStep
  <2>2. steps' = WithStep(s) /\ Goto(w, "endJob") /\ UNCHANGED <<runs, jobs>>
    BY <1>f, <2>1 DEF EndStep
  <2>3. work'[w].pc = "endJob" /\ work'[w].job = j /\ work'[w].result = work[w].result
    BY <1>6, <2>2 DEF Goto
  <2>4. RunOf(w)' = r /\ JobOf(w)' = JobOf(w) /\ EndStatus(w)' = EndStatus(w)
    BY <2>2, <2>3 DEF RunOf, JobOf, EndStatus
  <2>5. s \in steps' /\ \A t \in steps' \ steps : t = s
    BY <2>2 DEF WithStep
  <2>6. \A t \in steps \ steps' : t.run = r
    BY <2>2 DEF WithStep, SameKey, GatewayStep, Step
  <2>7. Touches(w) BY <1>2, <1>5, <2>2, <2>5, <2>6 DEF Touches
  <2>8. WorksCurrent(w)'
    BY <2>1, <2>2, <2>3, <2>4, <2>5 DEF WorksCurrent, BeforeClaim, BeforeStep, Claimed,
       Executing
  <2> QED BY <2>3, <2>4, <2>7, <2>8
<1>g. CASE EndJob(w)
  <2>1. /\ work[w].pc = "endJob" /\ runs[r] = At("running", a)
        /\ GatewayStep(r, a, EndStatus(w)) \in steps
    BY <1>3, <1>g DEF EndJob, WorksCurrent, BeforeClaim, BeforeStep
  <2>2. SetJob(j, EndStatus(w)) /\ Goto(w, "endRun") /\ UNCHANGED <<runs, steps>>
    BY <1>g DEF EndJob
  <2>3. work'[w].pc = "endRun" /\ work'[w].job = j /\ work'[w].result = work[w].result
    BY <1>6, <2>2 DEF Goto
  <2>4. EndStatus(w) \in Statuses BY DEF EndStatus
  <2>5. \A i \in DOMAIN jobs : jobs'[i] = IF i = j THEN [jobs[i] EXCEPT !.status = EndStatus(w)]
                                                   ELSE jobs[i]
    BY <1>1, <1>2, <2>2, <2>4, JobsType
  <2>6. jobs[j] \in JobRecords BY <1>1, <1>2, JobFacts
  <2>7. RunOf(w)' = r /\ JobOf(w)'.status = EndStatus(w) /\ JobOf(w)'.attempt = a
        /\ EndStatus(w)' = EndStatus(w)
    BY <1>2, <1>5, <2>3, <2>5, <2>6 DEF RunOf, JobOf, EndStatus, JobRecords
  <2>8. Touches(w) BY <1>2, <1>4, <1>5, <2>2, <2>5 DEF Touches
  <2>9. WorksCurrent(w)'
    BY <2>1, <2>2, <2>3, <2>7 DEF WorksCurrent, BeforeClaim, BeforeStep, Claimed, Executing
  <2> QED BY <2>3, <2>7, <2>8, <2>9
<1>h. CASE EndRun(w)
  <2>1. /\ work[w].pc = "endRun" /\ AttemptOf(w) = a
        /\ JobOf(w).status = EndStatus(w)
        /\ GatewayStep(r, a, EndStatus(w)) \in steps
    BY <1>3, <1>8, <1>h DEF EndRun, Executing, WorksCurrent, BeforeClaim, BeforeStep
  <2>2. /\ runs' = [runs EXCEPT ![r] = At(EndStatus(w), a)] /\ Goto(w, "logEnd")
        /\ UNCHANGED <<steps, jobs>>
    BY <1>h, <2>1 DEF EndRun, SetRun, At
  <2>3. work'[w].pc = "logEnd" /\ work'[w].job = j
    BY <1>6, <2>2 DEF Goto
  <2>4. runs'[r] = At(EndStatus(w), a) /\ \A x \in Runs \ {r} : runs'[x] = runs[x]
    BY <1>2, <1>6, <2>2
  <2>5. Touches(w) BY <1>2, <1>5, <2>2, <2>4 DEF Touches, At
  <2>6. WorksCurrent(w)' BY <2>3 DEF WorksCurrent, BeforeClaim, BeforeStep
  <2>7. runs'[r].status = EndStatus(w) /\ runs'[r].attempt = a /\ EndStatus(w) # "pending"
    BY <2>4 DEF At, EndStatus
  <2>8. jobs'[j].status = EndStatus(w) BY <2>1, <2>2 DEF JobOf
  <2>9. RunOf(w)' = r BY <1>10, <2>3
  <2>10. /\ \E i \in DOMAIN jobs' : /\ jobs'[i].run = r /\ jobs'[i].attempt = a
                                    /\ jobs'[i].status = EndStatus(w)
         /\ GatewayStep(r, a, EndStatus(w)) \in steps'
    BY <1>2, <1>4, <1>5, <2>1, <2>2, <2>8
  <2> HIDE DEF j, r, a
  <2>11. Agrees(RunOf(w))'
    BY <2>7, <2>9, <2>10 DEF Agrees, IsJobOf
  <2> QED BY <2>5, <2>6, <2>9, <2>11 DEF r
<1>i. CASE SettleJob(w) \/ DropJob(w) \/ FindDroppedStep(w) \/ DropStep(w) \/ LogEnd(w)
  BY <1>3, <1>i DEF SettleJob, DropJob, FindDroppedStep, DropStep, LogEnd, WorksCurrent,
     BeforeClaim, BeforeStep, Claimed, Executing
<1> QED BY <1>a, <1>b, <1>c, <1>d, <1>e, <1>f, <1>g, <1>h, <1>i DEF WorkerStep

(* A working worker preserves the quiet invariant. *)
LEMMA QuietByWorks ==
    ASSUME QuietCase, IndInv, QuietInv, NEW w \in Workers, Works(w), WorkerStep(w)
    PROVE  QuietInv'
<1> DEFINE j == work[w].job
           r == RunOf(w)
           a == JobOf(w).attempt
<1>1. TypeOK /\ WorkInv /\ JobsInv /\ CallsInv BY DEF IndInv, BaseInv
<1>2. /\ j \in DOMAIN jobs /\ r \in Runs /\ a \in Attempts
      /\ runs[r].attempt = a /\ runs[r] # Absent
      /\ r = jobs[j].run /\ a = jobs[j].attempt
  BY WorksFacts DEF RunOf, JobOf
<1>3. UNCHANGED call /\ \A v \in Workers \ {w} : work'[v] = work[v]
  BY <1>1, WorkerFrame DEF WorkStep
<1>4. Touches(w) /\ WorksCurrent(w)' /\ RunOf(w)' = r /\ (Works(w)' \/ Agrees(r)')
  BY WorkTouches
<1>5. /\ \A x \in Runs \ {r} : runs'[x] = runs[x]
      /\ runs'[r].attempt = a
      /\ DOMAIN jobs' = DOMAIN jobs
      /\ \A i \in DOMAIN jobs : i # j => jobs'[i] = jobs[i]
      /\ jobs'[j].run = r /\ jobs'[j].attempt = a /\ jobs'[j].status # "pending"
      /\ \A s \in steps \ steps' : s.run = r
  BY <1>4 DEF Touches
<1>6. /\ \A i \in DOMAIN jobs : jobs[i].run = r => jobs[i].status # "pending"
      /\ \A v \in Workers : v # w /\ Works(v) => RunOf(v) # r
      /\ \A h \in Handlers : call[h].run = r =>
            /\ ~Queues(h)
            /\ call[h].pc = "saveRun" => call[h].rec = Absent
  BY WorksAlone
<1>7. \A i \in DOMAIN jobs : jobs[i].run \in Runs BY <1>1, JobFacts
<1>9. \A s \in steps' \ steps : /\ s.run = r /\ s.attempt = a /\ s.suffix = "gateway"
                                /\ s.order = FixedOrder(s.attempt, s.suffix)
  BY <1>4 DEF Touches, GatewayStep, Step
<1> DEFINE Gateway(x, b) == \E s \in steps' : /\ s.run = x /\ s.attempt = b
                                               /\ s.suffix = "gateway"
<1>8. \A x, b : Gateway(x, b) /\ x # r => HasGateway(x, b)
  BY <1>9 DEF HasGateway
<1>a. JobsFollowRun'
  <2> SUFFICES ASSUME NEW i \in DOMAIN jobs
               PROVE  /\ jobs'[i].attempt <= runs'[jobs'[i].run].attempt
                      /\ jobs'[i].status = "pending" =>
                            /\ runs'[jobs'[i].run] = At("pending", jobs'[i].attempt)
                            /\ ~Gateway(jobs'[i].run, jobs'[i].attempt)
    BY <1>5 DEF JobsFollowRun, At, HasGateway
  <2>1. /\ jobs[i].attempt <= runs[jobs[i].run].attempt
        /\ jobs[i].status = "pending" =>
              /\ runs[jobs[i].run] = At("pending", jobs[i].attempt)
              /\ ~HasGateway(jobs[i].run, jobs[i].attempt)
    BY DEF QuietInv, JobsFollowRun
  <2> HIDE DEF j, r, a
  <2>2. CASE i = j
    <3>1. a <= a BY <1>2 DEF Attempts
    <3> QED BY <1>5, <2>2, <3>1
  <2>3. CASE i # j /\ jobs[i].run = r
    <3>1. jobs'[i] = jobs[i] /\ jobs'[i].status # "pending" BY <1>5, <1>6, <2>3
    <3> QED BY <1>2, <1>5, <2>1, <2>3, <3>1
  <2>4. CASE i # j /\ jobs[i].run # r
    <3>1. jobs'[i] = jobs[i] /\ runs'[jobs[i].run] = runs[jobs[i].run]
      BY <1>5, <1>7, <2>4
    <3> QED BY <1>8, <2>1, <2>4, <3>1
  <2> QED BY <2>2, <2>3, <2>4
<1>b. StepsFollowRun'
  <2> SUFFICES ASSUME NEW s \in steps'
               PROVE  /\ s.suffix \in {"dispatch", "gateway"}
                      /\ s.order = FixedOrder(s.attempt, s.suffix)
                      /\ s.attempt <= runs'[s.run].attempt
    BY DEF StepsFollowRun, FixedOrder
  <2> HIDE DEF j, r, a
  <2>1. CASE s \in steps
    <3>1. /\ s.suffix \in {"dispatch", "gateway"}
          /\ s.order = FixedOrder(s.attempt, s.suffix)
          /\ s.attempt <= runs[s.run].attempt
      BY <2>1 DEF QuietInv, StepsFollowRun
    <3>2. s.run \in Runs BY <1>1, <2>1 DEF TypeOK, StepRecords
    <3>3. runs'[s.run].attempt = runs[s.run].attempt BY <1>2, <1>5, <3>2
    <3> QED BY <3>1, <3>3
  <2>2. CASE s \notin steps
    <3>1. a <= a BY <1>2 DEF Attempts
    <3> QED BY <1>5, <1>9, <2>2, <3>1
  <2> QED BY <2>1, <2>2
<1>c. ASSUME NEW h \in Handlers PROVE QueuesCurrent(h)'
  <2>1. QueuesCurrent(h) BY DEF QuietInv
  <2>2. call[h].pc # "idle" => call[h].run \in Runs BY <1>1 DEF CallsInv
  <2> HIDE DEF j, r, a
  <2>3. CASE call[h].run = r
    BY <1>3, <1>6, <2>1, <2>3 DEF QueuesCurrent, Queues, Queueing
  <2>4. CASE call[h].run # r
    <3>1. call[h].pc # "idle" => runs'[call[h].run] = runs[call[h].run]
      BY <1>5, <2>2, <2>4
    <3>2. \A s \in steps' : s.run = call[h].run => s \in steps
      BY <1>9, <2>4
    <3>3. HasGateway(call[h].run, NextAttempt(h))' => HasGateway(call[h].run, NextAttempt(h))
      BY <1>3, <1>8, <2>4 DEF NextAttempt, HasGateway
    <3>4. Queues(h)' = Queues(h) /\ NextAttempt(h)' = NextAttempt(h)
      BY <1>3 DEF Queues, NextAttempt
    <3>5. Queues(h) => call[h].pc # "idle" BY DEF Queues, Queueing
    <3> QED BY <1>3, <2>1, <3>1, <3>2, <3>3, <3>4, <3>5 DEF QueuesCurrent, StepsOf
  <2> QED BY <2>3, <2>4
<1>d. ASSUME NEW v \in Workers PROVE WorksCurrent(v)'
  <2>1. CASE v = w BY <1>4, <2>1
  <2>2. CASE v # w
    <3>1. WorksCurrent(v) /\ work'[v] = work[v] BY <1>3, <2>2 DEF QuietInv
    <3>2. CASE ~Works(v) BY <3>1, <3>2 DEF WorksCurrent, Works, BeforeClaim, BeforeStep, Claimed, Executing
    <3>3. CASE Works(v)
      <4>1. RunOf(v) # r /\ RunOf(v) \in Runs /\ work[v].job \in DOMAIN jobs
        BY <1>6, <2>2, <3>3, WorksFacts
      <4>2. work[v].job # j BY <4>1 DEF RunOf, JobOf
      <4>3. jobs'[work[v].job] = jobs[work[v].job] BY <1>5, <4>1, <4>2
      <4>4. JobOf(v)' = JobOf(v) /\ RunOf(v)' = RunOf(v) /\ EndStatus(v)' = EndStatus(v)
        BY <3>1, <4>3 DEF JobOf, RunOf, EndStatus
      <4>5. runs'[RunOf(v)] = runs[RunOf(v)] BY <1>5, <4>1
      <4>6. \A s \in steps : s.run = RunOf(v) => s \in steps' BY <1>5, <4>1
      <4>7. \A st : GatewayStep(RunOf(v), JobOf(v).attempt, st) \in steps =>
                       GatewayStep(RunOf(v), JobOf(v).attempt, st) \in steps'
        BY <4>6 DEF GatewayStep, Step
      <4>8. HasGateway(RunOf(v), JobOf(v).attempt)' => HasGateway(RunOf(v), JobOf(v).attempt)
        BY <1>8, <4>1, <4>4 DEF HasGateway
      <4>9. Works(v)' BY <3>1, <3>3 DEF Works
      <4> HIDE DEF j, r, a
      <4> QED BY <3>1, <3>3, <4>4, <4>5, <4>7, <4>8, <4>9 DEF WorksCurrent
    <3> QED BY <3>2, <3>3
  <2> QED BY <2>1, <2>2
<1>e. MovedOrAgrees'
  <2> SUFFICES ASSUME NEW x \in Runs, runs'[x] # Absent
               PROVE  \/ \E h \in Handlers : Queues(h)' /\ call'[h].run = x
                      \/ \E v \in Workers : Works(v)' /\ RunOf(v)' = x
                      \/ Agrees(x)'
    BY DEF MovedOrAgrees
  <2>1. CASE x = r BY <1>4, <2>1
  <2>2. CASE x # r
    <3>1. runs'[x] = runs[x] BY <1>5, <2>2
    <3>2. CASE \E h \in Handlers : Queues(h) /\ call[h].run = x
      BY <1>3, <3>2 DEF Queues
    <3>3. CASE \E v \in Workers : Works(v) /\ RunOf(v) = x
      <4>1. PICK v \in Workers : Works(v) /\ RunOf(v) = x BY <3>3
      <4>2. v # w /\ work'[v] = work[v] BY <1>3, <2>2, <4>1
      <4>3. jobs'[work[v].job].run = jobs[work[v].job].run
        BY <1>2, <1>5, <4>1, WorksFacts
      <4> QED BY <4>1, <4>2, <4>3 DEF Works, RunOf, JobOf
    <3>4. CASE Agrees(x)
      <4> HIDE DEF j, r, a
      <4>1. PICK i \in DOMAIN jobs : IsJobOf(i, x, runs[x].attempt) /\ jobs[i].status = runs[x].status
        BY <3>4 DEF Agrees
      <4>2. i \in DOMAIN jobs' /\ jobs'[i] = jobs[i]
        BY <1>2, <1>5, <2>2, <4>1 DEF IsJobOf
      <4>3. \E k \in DOMAIN jobs' : /\ jobs'[k].run = x /\ jobs'[k].attempt = runs'[x].attempt
                                    /\ jobs'[k].status = runs'[x].status
        BY <3>1, <4>1, <4>2 DEF IsJobOf
      <4>4. runs[x].status = "pending" => ~Gateway(x, runs[x].attempt)
        BY <1>8, <2>2, <3>4 DEF Agrees
      <4>5. \A s \in steps : s.run = x => s \in steps' BY <1>5, <2>2
      <4>6. runs[x].status # "pending" => GatewayStep(x, runs[x].attempt, runs[x].status) \in steps'
        BY <3>4, <4>5 DEF Agrees, GatewayStep, Step
      <4> QED BY <3>1, <4>3, <4>4, <4>6 DEF Agrees, IsJobOf, HasGateway
    <3>5. runs[x] # Absent BY <3>1
    <3> QED BY <3>2, <3>3, <3>4, <3>5 DEF QuietInv, MovedOrAgrees
  <2> QED BY <2>1, <2>2
<1> QED BY <1>a, <1>b, <1>c, <1>d, <1>e DEF QuietInv


(* Taking up a job and logging the end of a run preserve it too. *)
LEMMA QuietByWork ==
    ASSUME QuietCase, IndInv, QuietInv, NEW w \in Workers, WorkStep(w)
    PROVE  QuietInv'
<1>1. TypeOK /\ WorkInv /\ JobsInv BY DEF IndInv, BaseInv
<1>2. /\ UNCHANGED call /\ \A v \in Workers \ {w} : work'[v] = work[v]
      /\ DOMAIN jobs' = DOMAIN jobs
  BY <1>1, WorkerFrame
<1>3. DOMAIN work = Workers BY <1>1 DEF TypeOK
<1>4. CASE Works(w)
  <2>1. work[w] # IdleWork BY <1>4 DEF Works, IdleWork
  <2>2. "abort" \notin Faults BY DEF QuietCase
  <2>3. WorkerStep(w) BY <2>1, <2>2 DEF WorkStep, ClaimJob, AbortWork
  <2> QED BY <1>4, <2>3, QuietByWorks
<1>5. CASE ClaimJob(w)
  <2>1. PICK j \in DOMAIN jobs :
          /\ jobs[j].status = "pending" /\ SetJob(j, "running")
          /\ work' = [work EXCEPT ![w] = [IdleWork EXCEPT !.pc = "load", !.job = j]]
    BY <1>5 DEF ClaimJob, Claimable
  <2>2. work'[w].pc = "load" /\ work'[w].job = j BY <1>3, <2>1 DEF IdleWork
  <2>3. \A i \in DOMAIN jobs : jobs'[i] = IF i = j THEN [jobs[i] EXCEPT !.status = "running"]
                                                   ELSE jobs[i]
    BY <1>1, <2>1, JobsType
  <2>4. jobs[j] \in JobRecords BY <1>1, JobFacts
  <2>5. \A i \in DOMAIN jobs : /\ jobs'[i].run = jobs[i].run
                              /\ jobs'[i].attempt = jobs[i].attempt
                              /\ jobs'[i].status = IF i = j THEN "running" ELSE jobs[i].status
    BY <2>3, <2>4 DEF JobRecords
  <2>6. UNCHANGED <<runs, steps>> BY <1>5 DEF ClaimJob
  <2>7. JobsFollowRun' /\ StepsFollowRun'
    BY <1>2, <2>5, <2>6
    DEF QuietInv, JobsFollowRun, StepsFollowRun, At, HasGateway, FixedOrder
  <2>8. \A h \in Handlers : QueuesCurrent(h)'
    BY <1>2, <2>6 DEF QuietInv, QueuesCurrent, Queues, HasGateway, StepsOf, NextAttempt
  <2>9. WorksCurrent(w)'
    <3>1. runs[jobs[j].run] = At("pending", jobs[j].attempt)
          /\ ~HasGateway(jobs[j].run, jobs[j].attempt)
      BY <2>1 DEF QuietInv, JobsFollowRun
    <3>2. JobOf(w)' = jobs'[j] /\ RunOf(w)' = jobs[j].run
      BY <2>2, <2>5 DEF JobOf, RunOf
    <3>3. JobOf(w)'.attempt = jobs[j].attempt /\ JobOf(w)'.status = "running"
      BY <2>5, <3>2
    <3> QED
      BY <2>2, <2>6, <3>1, <3>2, <3>3 DEF WorksCurrent, BeforeClaim, BeforeStep, HasGateway
  <2>10. \A v \in Workers \ {w} : Works(v) =>
            /\ JobOf(v)' = JobOf(v) /\ RunOf(v)' = RunOf(v) /\ EndStatus(v)' = EndStatus(v)
            /\ Works(v)'
    <3> SUFFICES ASSUME NEW v \in Workers \ {w}, Works(v)
                 PROVE  /\ JobOf(v)' = JobOf(v) /\ RunOf(v)' = RunOf(v)
                        /\ EndStatus(v)' = EndStatus(v) /\ Works(v)'
      OBVIOUS
    <3>1. work[v].job \in DOMAIN jobs /\ jobs[work[v].job].status # "pending"
      BY <1>1 DEF WorkInv, Works, JobOf
    <3>2. jobs'[work[v].job] = jobs[work[v].job] BY <2>1, <2>3, <3>1
    <3> QED BY <1>2, <3>2 DEF JobOf, RunOf, EndStatus, Works
  <2>11. ASSUME NEW v \in Workers \ {w} PROVE WorksCurrent(v)'
    <3>1. WorksCurrent(v) /\ work'[v] = work[v] BY <1>2 DEF QuietInv
    <3>2. CASE Works(v)
      <4>1. /\ JobOf(v)' = JobOf(v) /\ RunOf(v)' = RunOf(v) /\ EndStatus(v)' = EndStatus(v)
            /\ Works(v)'
        BY <2>10, <3>2
      <4> QED BY <2>6, <3>1, <3>2, <4>1 DEF WorksCurrent, HasGateway
    <3>3. CASE ~Works(v)
      BY <3>1, <3>3 DEF WorksCurrent, Works, BeforeClaim, BeforeStep, Claimed, Executing
    <3> QED BY <3>2, <3>3
  <2>12. MovedOrAgrees'
    <3> SUFFICES ASSUME NEW x \in Runs, runs'[x] # Absent
                 PROVE  \/ \E h \in Handlers : Queues(h)' /\ call'[h].run = x
                        \/ \E v \in Workers : Works(v)' /\ RunOf(v)' = x
                        \/ Agrees(x)'
      BY DEF MovedOrAgrees
    <3>1. CASE \E h \in Handlers : Queues(h) /\ call[h].run = x
      BY <1>2, <3>1 DEF Queues
    <3>2. CASE \E v \in Workers : Works(v) /\ RunOf(v) = x
      <4>1. ~Works(w) BY <1>5 DEF ClaimJob, Works, IdleWork
      <4> QED BY <2>10, <3>2, <4>1
    <3>3. CASE x = jobs[j].run
      <4>1. Works(w)' /\ RunOf(w)' = x BY <2>2, <2>5, <3>3 DEF Works, RunOf, JobOf
      <4> QED BY <4>1
    <3>4. CASE Agrees(x) /\ x # jobs[j].run
      <4>1. \E i \in DOMAIN jobs' : /\ jobs'[i].run = x /\ jobs'[i].attempt = runs[x].attempt
                                    /\ jobs'[i].status = runs[x].status
        BY <1>2, <2>5, <3>4 DEF Agrees, IsJobOf
      <4> QED BY <2>6, <3>4, <4>1 DEF Agrees, IsJobOf, HasGateway
    <3> QED BY <2>6, <3>1, <3>2, <3>3, <3>4 DEF QuietInv, MovedOrAgrees
  <2> QED BY <2>7, <2>8, <2>9, <2>11, <2>12 DEF QuietInv
<1>6. CASE LogEnd(w) /\ ~Works(w)
  <2>1. /\ UNCHANGED <<runs, steps, jobs>> /\ work'[w].pc = "idle" /\ work[w].pc = "logEnd"
    BY <1>3, <1>6 DEF LogEnd, Leave, IdleWork
  <2>2. JobsFollowRun' /\ StepsFollowRun' /\ \A h \in Handlers : QueuesCurrent(h)'
    BY <1>2, <2>1 DEF QuietInv, JobsFollowRun, StepsFollowRun, QueuesCurrent, Queues,
       HasGateway, StepsOf, NextAttempt, FixedOrder, At
  <2>3. WorksCurrent(w)' BY <2>1 DEF WorksCurrent, Works, BeforeClaim, BeforeStep
  <2>4. ASSUME NEW v \in Workers \ {w} PROVE WorksCurrent(v)'
    BY <1>2, <2>1 DEF QuietInv, WorksCurrent, Works, RunOf, JobOf, EndStatus, HasGateway
  <2>5. \A v \in Workers : Works(v) => v # w BY <1>6
  <2>6. MovedOrAgrees'
    BY <1>2, <2>1, <2>5 DEF QuietInv, MovedOrAgrees, Agrees, Queues, Works, RunOf, JobOf,
       IsJobOf, HasGateway
  <2> QED BY <2>2, <2>3, <2>4, <2>6 DEF QuietInv
<1>7. CASE ~Works(w) /\ ~ClaimJob(w) /\ ~LogEnd(w)
  BY <1>7 DEF QuietCase, WorkStep, AbortWork, WorkerStep, Works, LoadRun, SettleJob,
     FindGatewayStep, OpenStep, SaveClaimedRun, LogClaim, LookUpResult, CallProvider,
     SaveResult, RecheckJob, RecheckRun, DropJob, FindDroppedStep, DropStep, EndStep,
     EndJob, EndRun, LogEnd
<1> QED BY <1>4, <1>5, <1>6, <1>7

(* So does a request that is served alone: its inserts meet no row of the *)
(* attempt it queues.                                                      *)
LEMMA QuietByCalls ==
    ASSUME QuietCase, IndInv, QuietInv, NEW h \in Handlers, CallStep(h)
    PROVE  QuietInv'
<1> DEFINE r == call[h].run
           b == NextAttempt(h)
<1>1. TypeOK /\ WorkInv /\ JobsInv /\ CallsInv BY DEF IndInv, BaseInv
<1>2. UNCHANGED work /\ DOMAIN call = Handlers /\ call[h] \in CallRecords
  BY <1>1, HandlerFrame DEF TypeOK
<1>3. \A g \in Handlers : g = h BY DEF QuietCase
<1>4. QueuesCurrent(h) BY DEF QuietInv
<1>5. /\ call[h].pc # "idle" => r \in Runs
      /\ call[h].pc \in Queueing => b \in Attempts
  BY <1>1 DEF CallsInv
<1>6. ASSUME UNCHANGED <<runs, steps, jobs>>, QueuesCurrent(h)',
             Queues(h) => Queues(h)' /\ call'[h].run = r
      PROVE  QuietInv'
  <2>1. JobsFollowRun' /\ StepsFollowRun'
    BY <1>6 DEF QuietInv, JobsFollowRun, StepsFollowRun, HasGateway, FixedOrder, At
  <2>2. \A v \in Workers : WorksCurrent(v)'
    BY <1>2, <1>6 DEF QuietInv, WorksCurrent, Works, RunOf, JobOf, EndStatus, HasGateway
  <2>3. MovedOrAgrees'
    BY <1>2, <1>3, <1>6 DEF QuietInv, MovedOrAgrees, Agrees, Works, RunOf, JobOf,
       IsJobOf, HasGateway
  <2> QED BY <1>3, <1>6, <2>1, <2>2, <2>3 DEF QuietInv
<1>7. ASSUME Return(h) PROVE QueuesCurrent(h)' /\ ~Queues(h)'
  BY <1>2, <1>7 DEF Return, IdleCall, QueuesCurrent, Queues, Queueing
<1>8. CASE \E x \in Runs : BeginStart(h, x) \/ BeginRetry(h, x)
  <2>1. PICK x \in Runs : BeginStart(h, x) \/ BeginRetry(h, x) BY <1>8
  <2>2. /\ call[h] = IdleCall /\ UNCHANGED <<runs, steps, jobs>>
        /\ \E rec \in {Absent, runs[x]} : Accept(h, "saveRun", x, rec)
    BY <2>1 DEF BeginStart, BeginRetry
  <2>3. PICK rec \in {Absent, runs[x]} : Accept(h, "saveRun", x, rec) BY <2>2
  <2>4. call'[h].pc = "saveRun" /\ call'[h].run = x /\ call'[h].rec = rec
    BY <1>2, <2>3 DEF Accept, IdleCall
  <2>5. QueuesCurrent(h)' BY <2>2, <2>4 DEF QueuesCurrent, Queues, Queueing
  <2>6. ~Queues(h) BY <2>2 DEF Queues, IdleCall, Queueing
  <2> QED BY <1>6, <2>2, <2>5, <2>6
<1>9. CASE SaveQueuedRun(h)
  <2>1. call[h].pc = "saveRun" /\ UNCHANGED <<steps, jobs>> /\ ~Queues(h)
    BY <1>9 DEF SaveQueuedRun, Queues
  <2>2. CASE Return(h) /\ UNCHANGED runs BY <1>6, <1>7, <2>1, <2>2
  <2>3. CASE /\ ~(call[h].rec = Absent /\ runs[r] # Absent)
             /\ SetRun(r, "pending", b) /\ Go(h, "logQueued")
    <3>1. r \in Runs /\ b \in Attempts /\ call[h].pc \in Queueing
      BY <1>5, <2>1 DEF Queueing
    <3>2. call[h].rec = runs[r] BY <1>4, <2>1, <2>3 DEF QueuesCurrent
    <3>3. runs[r].status \in {"none", "failed"}
      BY <3>1, <3>2 DEF IndInv, QueuesAfterFailure, Absent
    <3>4. b = runs[r].attempt + 1 /\ runs[r].attempt \in Nat
      BY <1>1, <3>2, CallFacts DEF NextAttempt
    <3>5. runs' = [runs EXCEPT ![r] = At("pending", b)] BY <2>3 DEF SetRun, At
    <3>6. runs'[r] = At("pending", b) /\ \A x \in Runs \ {r} : runs'[x] = runs[x]
      BY <1>1, <3>1, <3>5 DEF TypeOK
    <3>7. call'[h].pc = "logQueued" /\ call'[h].run = r /\ call'[h].rec = call[h].rec
      BY <1>2, <2>3 DEF Go, CallRecords
    <3>8. NextAttempt(h)' = b BY <3>7 DEF NextAttempt
    <3>9. \A v \in Workers : Works(v) => RunOf(v) # r /\ RunOf(v) \in Runs
      BY <3>3, WorksFacts DEF Open
    <3>10. runs'[r].attempt = b BY <3>6 DEF At
    <3>11. JobsFollowRun'
      <4> SUFFICES ASSUME NEW i \in DOMAIN jobs
                   PROVE  /\ jobs[i].attempt <= runs'[jobs[i].run].attempt
                          /\ jobs[i].status = "pending" =>
                                /\ runs'[jobs[i].run] = At("pending", jobs[i].attempt)
                                /\ ~HasGateway(jobs[i].run, jobs[i].attempt)
        BY <2>1 DEF JobsFollowRun, At, HasGateway
      <4>1. /\ jobs[i].attempt <= runs[jobs[i].run].attempt
            /\ jobs[i].status = "pending" =>
                  /\ runs[jobs[i].run] = At("pending", jobs[i].attempt)
                  /\ ~HasGateway(jobs[i].run, jobs[i].attempt)
        BY DEF QuietInv, JobsFollowRun
      <4>2. jobs[i].run \in Runs /\ jobs[i].attempt \in Nat
        BY <1>1, JobFacts DEF Attempts
      <4> HIDE DEF r, b
      <4>3. CASE jobs[i].run = r
        <5>1. jobs[i].status # "pending" BY <3>3, <4>1, <4>3 DEF At
        <5>2. jobs[i].attempt <= b BY <3>4, <4>1, <4>2, <4>3
        <5> QED BY <3>10, <4>3, <5>1, <5>2
      <4>4. CASE jobs[i].run # r BY <3>6, <4>1, <4>2, <4>4
      <4> QED BY <4>3, <4>4
    <3>12. ASSUME NEW s \in steps
           PROVE  /\ s.attempt <= runs'[s.run].attempt
                  /\ s.run = r => s.attempt < b
      <4>1. s.attempt <= runs[s.run].attempt BY DEF QuietInv, StepsFollowRun
      <4>2. s.run \in Runs /\ s.attempt \in Nat BY <1>1 DEF TypeOK, StepRecords, Attempts
      <4> HIDE DEF r, b
      <4>3. CASE s.run = r BY <3>4, <3>10, <4>1, <4>2, <4>3
      <4>4. CASE s.run # r BY <3>6, <4>1, <4>2, <4>4
      <4> QED BY <4>3, <4>4
    <3>13. StepsFollowRun'
      BY <2>1, <3>12 DEF QuietInv, StepsFollowRun, FixedOrder
    <3>14. ~(\E s \in steps : s.run = r /\ s.attempt = b)
      BY <3>1, <3>12 DEF Attempts
    <3>15. QueuesCurrent(h)'
      BY <2>1, <3>6, <3>7, <3>8, <3>12, <3>14
      DEF QueuesCurrent, Queues, Queueing, HasGateway, StepsOf
    <3>16. ASSUME NEW v \in Workers PROVE WorksCurrent(v)'
      <4>1. WorksCurrent(v) BY DEF QuietInv
      <4>2. Works(v) => runs'[RunOf(v)] = runs[RunOf(v)] BY <3>6, <3>9
      <4>3. JobOf(v)' = JobOf(v) /\ RunOf(v)' = RunOf(v) /\ EndStatus(v)' = EndStatus(v)
            /\ Works(v)' = Works(v)
        BY <1>2, <2>1 DEF JobOf, RunOf, EndStatus, Works
      <4> QED BY <1>2, <2>1, <4>1, <4>2, <4>3 DEF WorksCurrent, HasGateway
    <3>17. MovedOrAgrees'
      <4> SUFFICES ASSUME NEW x \in Runs, runs'[x] # Absent
                   PROVE  \/ Queues(h)' /\ call'[h].run = x
                          \/ \E v \in Workers : Works(v)' /\ RunOf(v)' = x
                          \/ Agrees(x)'
        BY DEF MovedOrAgrees
      <4>1. CASE x = r BY <3>7, <4>1 DEF Queues, Queueing
      <4>2. CASE x # r
        <5>1. runs'[x] = runs[x] BY <3>6, <4>2
        <5>2. (\E v \in Workers : Works(v) /\ RunOf(v) = x) \/ Agrees(x)
          BY <1>3, <2>1, <5>1 DEF QuietInv, MovedOrAgrees
        <5> QED BY <1>2, <2>1, <5>1, <5>2 DEF Agrees, IsJobOf, HasGateway, Works, RunOf, JobOf
      <4> QED BY <4>1, <4>2
    <3> QED BY <1>3, <3>11, <3>13, <3>15, <3>16, <3>17 DEF QuietInv
  <2> QED BY <1>9, <2>2, <2>3 DEF SaveQueuedRun, NextAttempt
<1>10. CASE LogQueued(h)
  <2>1. /\ call[h].pc = "logQueued" /\ UNCHANGED <<runs, steps, jobs>> /\ Go(h, "dispatch")
    BY <1>10 DEF LogQueued
  <2>2. call'[h].pc = "dispatch" /\ call'[h].run = r /\ call'[h].rec = call[h].rec
    BY <1>2, <2>1 DEF Go, CallRecords
  <2>3. NextAttempt(h)' = b /\ Queues(h) /\ Queues(h)'
    BY <2>1, <2>2 DEF NextAttempt, Queues, Queueing
  <2>4. QueuesCurrent(h)'
    BY <1>4, <2>1, <2>2, <2>3 DEF QueuesCurrent, Queueing, HasGateway, StepsOf
  <2> QED BY <1>6, <2>1, <2>2, <2>3, <2>4
<1>11. CASE SaveDispatchStep(h)
  <2> DEFINE s == Step(r, b, "dispatch", FixedOrder(b, "dispatch"), "completed")
  <2>1. call[h].pc = "dispatch" /\ UNCHANGED <<runs, jobs>> /\ Queues(h)
    BY <1>11 DEF SaveDispatchStep, Queues, Queueing
  <2>2. /\ runs[r] = At("pending", b) /\ ~HasGateway(r, b)
        /\ \A t \in steps : t.run = r => t.attempt < b
    BY <1>4, <2>1 DEF QueuesCurrent, StepsOf
  <2>3. /\ s.run = r /\ s.attempt = b /\ s.suffix = "dispatch"
        /\ s.order = 2 * (b - 1) + 1 /\ s.order = FixedOrder(b, "dispatch")
    BY DEF Step, FixedOrder
  <2>4. r \in Runs /\ b \in Nat BY <1>5, <2>1 DEF Queueing, Attempts
  <2>5. CanInsert(s)
    <3> SUFFICES ASSUME NEW t \in steps, t.run = r
                 PROVE  ~SameKey(s, t) /\ t.order # s.order
      BY <2>3 DEF CanInsert, StepsOf
    <3>1. t.attempt < b /\ t.attempt \in Nat
      BY <1>1, <2>2 DEF TypeOK, StepRecords, Attempts
    <3>2. t.order \in {2 * (t.attempt - 1) + 1, 2 * (t.attempt - 1) + 2}
      BY DEF QuietInv, StepsFollowRun, FixedOrder
    <3> HIDE DEF s, b
    <3>3. ~SameKey(s, t) BY <2>3, <2>4, <3>1 DEF SameKey
    <3>4. t.order # s.order BY <2>3, <2>4, <3>1, <3>2
    <3> QED BY <3>3, <3>4
  <2>6. steps' = steps \cup {s} /\ Go(h, "enqueue")
    BY <1>11, <2>5 DEF SaveDispatchStep, NextAttempt
  <2>7. call'[h].pc = "enqueue" /\ call'[h].run = r /\ call'[h].rec = call[h].rec
    BY <1>2, <2>6 DEF Go, CallRecords
  <2>8. NextAttempt(h)' = b /\ Queues(h)' BY <2>7 DEF NextAttempt, Queues, Queueing
  <2> HIDE DEF s, r, b
  <2>9. \A x, y : (\E t \in steps' : t.run = x /\ t.attempt = y /\ t.suffix = "gateway")
                    => HasGateway(x, y)
    BY <2>3, <2>6 DEF HasGateway
  <2>10. JobsFollowRun' BY <2>1, <2>9 DEF QuietInv, JobsFollowRun, At, HasGateway
  <2>11. StepsFollowRun'
    <3>1. s.attempt <= runs[s.run].attempt BY <2>2, <2>3, <2>4 DEF At
    <3>2. s.suffix \in {"dispatch", "gateway"} /\ s.order = FixedOrder(s.attempt, s.suffix)
      BY <2>3
    <3>3. \A t \in steps' : /\ t.suffix \in {"dispatch", "gateway"}
                            /\ t.order = FixedOrder(t.attempt, t.suffix)
                            /\ t.attempt <= runs[t.run].attempt
      BY <2>6, <3>1, <3>2 DEF QuietInv, StepsFollowRun
    <3> QED BY <2>1, <3>3 DEF StepsFollowRun, FixedOrder
  <2>12. QueuesCurrent(h)'
    <3>1. ~(\E t \in steps' : t.run = r /\ t.attempt = b /\ t.suffix = "gateway")
      BY <2>2, <2>9
    <3> QED BY <2>1, <2>2, <2>7, <2>8, <3>1 DEF QueuesCurrent, Queues, Queueing, HasGateway
  <2>13. ASSUME NEW v \in Workers PROVE WorksCurrent(v)'
    <3>1. WorksCurrent(v) BY DEF QuietInv
    <3>2. JobOf(v)' = JobOf(v) /\ RunOf(v)' = RunOf(v) /\ EndStatus(v)' = EndStatus(v)
          /\ Works(v)' = Works(v)
      BY <1>2, <2>1 DEF JobOf, RunOf, EndStatus, Works
    <3>3. HasGateway(RunOf(v), JobOf(v).attempt)' => HasGateway(RunOf(v), JobOf(v).attempt)
      BY <2>9, <3>2 DEF HasGateway
    <3>4. \A t \in steps : t \in steps' BY <2>6
    <3> QED BY <1>2, <2>1, <3>1, <3>2, <3>3, <3>4 DEF WorksCurrent
  <2>14. MovedOrAgrees'
    <3> SUFFICES ASSUME NEW x \in Runs, runs'[x] # Absent
                 PROVE  \/ Queues(h)' /\ call'[h].run = x
                        \/ \E v \in Workers : Works(v)' /\ RunOf(v)' = x
                        \/ Agrees(x)'
      BY DEF MovedOrAgrees
    <3>1. CASE x = r BY <2>7, <2>8, <3>1
    <3>2. CASE \E v \in Workers : Works(v) /\ RunOf(v) = x
      BY <1>2, <2>1, <3>2 DEF Works, RunOf, JobOf
    <3>3. CASE Agrees(x)
      <4>1. \A t \in steps : t \in steps' BY <2>6
      <4> QED BY <2>1, <2>9, <3>3, <4>1 DEF Agrees, IsJobOf, HasGateway
    <3> QED BY <1>3, <2>1, <3>1, <3>2, <3>3 DEF QuietInv, MovedOrAgrees, r
  <2> QED BY <1>3, <2>10, <2>11, <2>12, <2>13, <2>14 DEF QuietInv
<1>12. CASE EnqueueJob(h)
  <2> DEFINE n == Len(jobs) + 1
  <2>1. call[h].pc = "enqueue" /\ UNCHANGED <<runs, steps>> /\ Return(h)
    BY <1>12 DEF EnqueueJob
  <2>2. Queues(h) /\ r \in Runs /\ b \in Attempts /\ b \in Nat
    BY <1>5, <2>1 DEF Queues, Queueing, Attempts
  <2>3. runs[r] = At("pending", b) /\ ~HasGateway(r, b) BY <1>4, <2>2 DEF QueuesCurrent
  <2>4. /\ DOMAIN jobs' = DOMAIN jobs \cup {n}
        /\ \A i \in DOMAIN jobs : jobs'[i] = jobs[i]
        /\ jobs'[n] = [run |-> r, attempt |-> b, status |-> "pending"]
    BY <1>1, <1>12, <2>2, NewJobType DEF EnqueueJob, NextAttempt
  <2>5. jobs'[n].run = r /\ jobs'[n].attempt = b /\ jobs'[n].status = "pending"
    BY <2>4
  <2> HIDE DEF n, r, b
  <2>6. runs[r].attempt = b /\ runs[r].status = "pending" BY <2>3 DEF At
  <2>7. JobsFollowRun'
    <3> SUFFICES ASSUME NEW i \in DOMAIN jobs'
                 PROVE  /\ jobs'[i].attempt <= runs[jobs'[i].run].attempt
                        /\ jobs'[i].status = "pending" =>
                              /\ runs[jobs'[i].run] = At("pending", jobs'[i].attempt)
                              /\ ~HasGateway(jobs'[i].run, jobs'[i].attempt)
      BY <2>1 DEF JobsFollowRun, At, HasGateway
    <3>1. CASE i = n BY <2>2, <2>3, <2>5, <2>6, <3>1
    <3>2. CASE i \in DOMAIN jobs BY <2>4, <3>2 DEF QuietInv, JobsFollowRun
    <3> QED BY <2>4, <3>1, <3>2
  <2>8. StepsFollowRun' BY <2>1 DEF QuietInv, StepsFollowRun, FixedOrder
  <2>9. QueuesCurrent(h)' BY <1>7, <2>1
  <2>10. ASSUME NEW v \in Workers PROVE WorksCurrent(v)'
    <3>1. WorksCurrent(v) BY DEF QuietInv
    <3>2. CASE ~Works(v)
      BY <1>2, <3>1, <3>2 DEF WorksCurrent, Works, BeforeClaim, BeforeStep, Claimed, Executing
    <3>3. CASE Works(v)
      <4>1. JobOf(v)' = JobOf(v) /\ RunOf(v)' = RunOf(v) /\ EndStatus(v)' = EndStatus(v)
            /\ Works(v)'
        BY <1>2, <2>4, <3>3, WorksFacts DEF JobOf, RunOf, EndStatus, Works
      <4> QED BY <1>2, <2>1, <3>1, <3>3, <4>1 DEF WorksCurrent, HasGateway
    <3> QED BY <3>2, <3>3
  <2>11. MovedOrAgrees'
    <3> SUFFICES ASSUME NEW x \in Runs, runs'[x] # Absent
                 PROVE  (\E v \in Workers : Works(v)' /\ RunOf(v)' = x) \/ Agrees(x)'
      BY DEF MovedOrAgrees
    <3>1. CASE x = r
      <4>1. n \in DOMAIN jobs' BY <2>4
      <4> QED BY <2>1, <2>3, <2>5, <2>6, <3>1, <4>1 DEF Agrees, IsJobOf, HasGateway
    <3>2. CASE \E v \in Workers : Works(v) /\ RunOf(v) = x
      <4>1. PICK v \in Workers : Works(v) /\ RunOf(v) = x BY <3>2
      <4>2. work[v].job \in DOMAIN jobs BY <4>1, WorksFacts
      <4> QED BY <1>2, <2>4, <4>1, <4>2 DEF Works, RunOf, JobOf
    <3>3. CASE Agrees(x)
      <4>1. \A i \in DOMAIN jobs : i \in DOMAIN jobs' /\ jobs'[i] = jobs[i] BY <2>4
      <4> QED BY <2>1, <3>3, <4>1 DEF Agrees, IsJobOf, HasGateway
    <3> QED BY <1>3, <2>1, <3>1, <3>2, <3>3 DEF QuietInv, MovedOrAgrees, r
  <2> QED BY <1>3, <2>7, <2>8, <2>9, <2>10, <2>11 DEF QuietInv
<1>13. CASE AbortCall(h) \/ \E x \in Runs : BeginCancel(h, x)
  BY <1>13 DEF QuietCase, AbortCall, BeginCancel
<1>14. CASE \/ ListOpenJobs(h) \/ CancelOneJob(h) \/ FindOpenGatewayStep(h)
            \/ CancelGatewayStep(h) \/ FindCancelStep(h) \/ OrderCancelStep(h)
            \/ InsertCancelStep(h) \/ SaveCancelledRun(h) \/ LogCancelled(h)
  BY <1>4, <1>14 DEF QueuesCurrent, Queueing, ListOpenJobs, CancelOneJob,
     FindOpenGatewayStep, CancelGatewayStep, FindCancelStep, OrderCancelStep,
     InsertCancelStep, SaveCancelledRun, LogCancelled
<1> QED BY <1>8, <1>9, <1>10, <1>11, <1>12, <1>13, <1>14 DEF CallStep, HandlerStep

(* One request at a time, none of them a cancellation, and no fault but in the
   gateway: whenever a run is quiet, workflow_runs, jobs and workflow_steps agree on
   it, for every number of runs, workers and attempts. *)
THEOREM QuietRunsAgree ==
    ASSUME QuietCase
    PROVE  Spec => []QuietRunAgrees
<1>1. Init => QuietInv
  <2> SUFFICES ASSUME Init PROVE QuietInv OBVIOUS
  <2>1. DOMAIN jobs = {} /\ steps = {} /\ \A r \in Runs : runs[r] = Absent BY DEF Init
  <2>2. \A h \in Handlers : call[h].pc = "idle" BY DEF Init, IdleCall
  <2>3. \A w \in Workers : work[w].pc = "idle" BY DEF Init, IdleWork
  <2>4. \A h \in Handlers : QueuesCurrent(h)
    BY <2>2 DEF QueuesCurrent, Queues, Queueing
  <2>5. \A w \in Workers : WorksCurrent(w)
    BY <2>3 DEF WorksCurrent, Works, BeforeClaim, BeforeStep
  <2> QED BY <2>1, <2>4, <2>5 DEF QuietInv, JobsFollowRun, StepsFollowRun, MovedOrAgrees
<1>2. IndInv /\ QuietInv /\ [Next]_vars => QuietInv'
  <2> SUFFICES ASSUME IndInv, QuietInv, [Next]_vars PROVE QuietInv' OBVIOUS
  <2>1. CASE Next BY <2>1, NextSteps, QuietByCalls, QuietByWork
  <2>2. CASE UNCHANGED vars
    <3>1. JobsFollowRun' /\ StepsFollowRun' /\ \A h \in Handlers : QueuesCurrent(h)'
      BY <2>2 DEF vars, QuietInv, JobsFollowRun, StepsFollowRun, QueuesCurrent, Queues,
         HasGateway, StepsOf, NextAttempt, FixedOrder, At
    <3>2. \A w \in Workers : WorksCurrent(w)'
      BY <2>2 DEF vars, QuietInv, WorksCurrent, Works, RunOf, JobOf, EndStatus, HasGateway
    <3>3. MovedOrAgrees'
      BY <2>2 DEF vars, QuietInv, MovedOrAgrees, Agrees, Queues, Works, RunOf, JobOf,
         IsJobOf, HasGateway
    <3> QED BY <3>1, <3>2, <3>3 DEF QuietInv
  <2> QED BY <2>1, <2>2
<1>3. IndInv /\ QuietInv => QuietRunAgrees
  <2> SUFFICES ASSUME IndInv, QuietInv, NEW r \in Runs, Quiet(r), runs[r] # Absent
               PROVE  /\ \E j \in JobOfAttempt(r, runs[r].attempt) : jobs[j].status = runs[r].status
                      /\ \A j \in DOMAIN jobs : jobs[j].run = r => jobs[j].attempt <= runs[r].attempt
                      /\ IF runs[r].status = "pending"
                           THEN ~HasStep(StepsOf(r), runs[r].attempt, "gateway")
                           ELSE GatewayStep(r, runs[r].attempt, runs[r].status) \in steps
    BY DEF QuietRunAgrees
  <2>1. \A h \in Handlers : call[h].run # r BY DEF Quiet
  <2>2. \A w \in Workers : Works(w) => RunOf(w) # r
    BY DEF Quiet, Works, IdleWork
  <2>3. Agrees(r) BY <2>1, <2>2 DEF QuietInv, MovedOrAgrees
  <2>4. \A j \in DOMAIN jobs : jobs[j].run = r => jobs[j].attempt <= runs[r].attempt
    BY DEF QuietInv, JobsFollowRun
  <2> QED BY <2>3, <2>4 DEF Agrees, JobOfAttempt, IsJobOf, HasGateway, HasStep, StepsOf
<1> QED BY Invariance, <1>1, <1>2, <1>3, PTL DEF Spec
=============================================================================
