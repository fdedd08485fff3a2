----------------------------- MODULE RenderProofs -----------------------------
(***************************************************************************)
(* Proofs about RenderRuntime.  The engine below it keeps that part of its *)
(* own inductive invariant that does not depend on who writes the runs     *)
(* (BaseInv of WorkflowInvariant), although callbacks overwrite rows and   *)
(* audio requests insert rows, steps and jobs of their own; its lemmas are *)
(* used here as they are, through the instance W.  On top of it RenderInv  *)
(* says how far each render request is, in the engine and outside.         *)
(***************************************************************************)
EXTENDS RenderRuntime, TLAPS

W == INSTANCE WorkflowProofs

Exists(r) == runs[r] # W!Absent
HasJob(r) == W!HasJob(r, 1)

(* A runtime that is linked has a run and a job, one that left idle is      *)
(* linked, and an audio run came with its link.                             *)
RowOk(r) ==
    /\ runtimes[r].linked => Exists(r) /\ HasJob(r)
    /\ runtimes[r].status \notin {"none", "idle"} => runtimes[r].linked
    /\ runtimes[r].output => effects[r] > 0
    /\ kind[r] = "audio" /\ Exists(r) => runtimes[r].linked

(* A preview request that starts its workflow is the engine's request, and  *)
(* it saves the runtime only when the engine has queued the run.            *)
AskOk(h) ==
    /\ asks[h].pc = "idle" => asks[h] = IdleAsk
    /\ asks[h].pc # "idle" => asks[h].runtime \in Runs
    /\ asks[h].pc = "starting" =>
          /\ call[h].pc \in W!Queueing
          /\ call[h].run = asks[h].runtime
          /\ call[h].rec = W!Absent
          /\ kind[asks[h].runtime] = "preview"
    /\ asks[h].pc = "save" => Exists(asks[h].runtime) /\ HasJob(asks[h].runtime)

(* Nobody else starts a run; every other call is about a run that exists.   *)
Starts(h) == call[h].pc \in W!Queueing /\ call[h].rec = W!Absent
CallOk(h) ==
    /\ Starts(h) => asks[h].pc = "starting"
    /\ call[h].pc # "idle" =>
          Exists(call[h].run) \/ (Starts(h) /\ call[h].pc = "saveRun")

(* A callback that was accepted is about a runtime that stays linked, and   *)
(* writes back a row that exists.                                           *)
UpdateOk(c) ==
    /\ updates[c].pc # "idle" =>
          /\ updates[c].runtime \in Runs
          /\ runtimes[updates[c].runtime].linked
          /\ effects[updates[c].runtime] > 0
          /\ updates[c].status \in Reports
          /\ updates[c].rec.linked
    /\ updates[c].pc \in {"save", "saveRun"} =>
          updates[c].run \in [status : W!Statuses, attempt : W!Attempts]

AskPCs == {"idle", "create", "start", "starting", "save"}
AskRecords == [pc : AskPCs, runtime : Runs \cup {None}, rec : RuntimeRecords]
UpdateRecords == [pc : {"idle", "readRun", "save", "saveRun"},
                  runtime : Runs \cup {None}, status : Reports \cup {"none"},
                  rec : RuntimeRecords, run : W!RunRecords]
RenderTypes ==
    /\ kind \in [Runs -> {"preview", "audio"}]
    /\ runtimes \in [Runs -> RuntimeRecords]
    /\ asks \in [Handlers -> AskRecords]
    /\ updates \in [Callbacks -> UpdateRecords]

RenderInv ==
    /\ W!BaseInv /\ RenderTypes
    /\ \A j \in DOMAIN jobs : Exists(jobs[j].run)
    /\ \A r \in Runs : RowOk(r)
    /\ \A h \in Handlers : AskOk(h) /\ CallOk(h)
    /\ \A c \in Callbacks : UpdateOk(c)

-----------------------------------------------------------------------------
(* The engine as the model instantiates it and the engine that W is about are   *)
(* one: their definitions are the same, word for word.                          *)

(* Rows and constants. *)
LEMMA SameRows ==
    /\ Engine!Absent = W!Absent /\ Engine!IdleCall = W!IdleCall
    /\ Engine!RunRecords = W!RunRecords /\ Engine!Attempts = W!Attempts
    /\ Engine!TypeOK = W!TypeOK
<1>1. /\ Engine!Absent = W!Absent /\ Engine!Attempts = W!Attempts
  BY DEF Engine!Absent, W!Absent, Engine!Attempts, W!Attempts
<1>2. /\ Engine!IdleCall = W!IdleCall /\ Engine!RunRecords = W!RunRecords
  BY <1>1 DEF Engine!IdleCall, W!IdleCall, Engine!RunRecords, W!RunRecords,
     Engine!Statuses, W!Statuses
<1>3. Engine!TypeOK = W!TypeOK
  BY <1>1, <1>2 DEF Engine!TypeOK, W!TypeOK, Engine!StepRecords, W!StepRecords,
     Engine!JobRecords, W!JobRecords, Engine!CallRecords, W!CallRecords, Engine!WorkRecords,
     W!WorkRecords, Engine!CallPCs, W!CallPCs, Engine!Preparing, W!Preparing,
     Engine!Executing, W!Executing, Engine!Clearing, W!Clearing, Engine!Statuses,
     W!Statuses
<1> QED BY <1>1, <1>2, <1>3

(* The initial states. *)
LEMMA SameInit == Engine!Init = W!Init
BY SameRows DEF Engine!Init, W!Init, Engine!IdleWork, W!IdleWork

(* The beginnings of calls. *)
LEMMA SameBegin ==
    ASSUME NEW h, NEW r
    PROVE  /\ Engine!BeginStart(h, r) = W!BeginStart(h, r)
           /\ Engine!BeginRetry(h, r) = W!BeginRetry(h, r)
           /\ Engine!BeginCancel(h, r) = W!BeginCancel(h, r)
<1> USE SameRows DEF Engine!Accept, W!Accept
<1>1. Engine!BeginStart(h, r) = W!BeginStart(h, r)
  BY DEF Engine!BeginStart, W!BeginStart
<1>2. Engine!BeginRetry(h, r) = W!BeginRetry(h, r)
  BY DEF Engine!BeginRetry, W!BeginRetry, Engine!RetryAllowed, W!RetryAllowed
<1>3. Engine!BeginCancel(h, r) = W!BeginCancel(h, r)
  BY DEF Engine!BeginCancel, W!BeginCancel, Engine!CancelAllowed, W!CancelAllowed,
     Engine!Open, W!Open
<1> QED BY <1>1, <1>2, <1>3

(* The statements that queue an attempt. *)
LEMMA SameQueueing ==
    ASSUME NEW h
    PROVE  /\ Engine!SaveQueuedRun(h) = W!SaveQueuedRun(h)
           /\ Engine!LogQueued(h) = W!LogQueued(h)
           /\ Engine!SaveDispatchStep(h) = W!SaveDispatchStep(h)
           /\ Engine!EnqueueJob(h) = W!EnqueueJob(h)
<1> USE SameRows DEF Engine!Go, W!Go, Engine!Return, W!Return
<1>1. Engine!SaveQueuedRun(h) = W!SaveQueuedRun(h)
  BY DEF Engine!SaveQueuedRun, W!SaveQueuedRun, Engine!SetRun, W!SetRun
<1>2. Engine!LogQueued(h) = W!LogQueued(h)
  BY DEF Engine!LogQueued, W!LogQueued, Engine!Log, W!Log
<1>3. Engine!SaveDispatchStep(h) = W!SaveDispatchStep(h)
  BY DEF Engine!SaveDispatchStep, W!SaveDispatchStep, Engine!Step, W!Step,
     Engine!FixedOrder, W!FixedOrder, Engine!CanInsert, W!CanInsert, Engine!StepsOf,
     W!StepsOf, Engine!SameKey, W!SameKey
<1>4. Engine!EnqueueJob(h) = W!EnqueueJob(h)
  BY DEF Engine!EnqueueJob, W!EnqueueJob
<1> QED BY <1>1, <1>2, <1>3, <1>4

(* The other statements of requests. *)
LEMMA SameHandlerStep ==
    ASSUME NEW h
    PROVE  Engine!HandlerStep(h) = W!HandlerStep(h)
<1> USE SameRows DEF Engine!Go, W!Go, Engine!Return, W!Return, Engine!Reads, W!Reads,
        Engine!StepsOf, W!StepsOf, Engine!GatewayStep, W!GatewayStep, Engine!Step, W!Step,
        Engine!FixedOrder, W!FixedOrder, Engine!WithStep, W!WithStep, Engine!SameKey,
        W!SameKey, Engine!Open, W!Open
<1>1. /\ Engine!ListOpenJobs(h) = W!ListOpenJobs(h)
      /\ Engine!CancelOneJob(h) = W!CancelOneJob(h)
  BY DEF Engine!ListOpenJobs, W!ListOpenJobs, Engine!CancelOneJob, W!CancelOneJob,
     Engine!SetJob, W!SetJob
<1>2. /\ Engine!FindOpenGatewayStep(h) = W!FindOpenGatewayStep(h)
      /\ Engine!CancelGatewayStep(h) = W!CancelGatewayStep(h)
  BY DEF Engine!FindOpenGatewayStep, W!FindOpenGatewayStep, Engine!CancelGatewayStep,
     W!CancelGatewayStep, Engine!OpenGatewayStep, W!OpenGatewayStep
<1>3. /\ Engine!FindCancelStep(h) = W!FindCancelStep(h)
      /\ Engine!OrderCancelStep(h) = W!OrderCancelStep(h)
  BY DEF Engine!FindCancelStep, W!FindCancelStep, Engine!OrderCancelStep,
     W!OrderCancelStep, Engine!HasStep, W!HasStep, Engine!CancelOrders, W!CancelOrders
<1>4. Engine!InsertCancelStep(h) = W!InsertCancelStep(h)
  BY DEF Engine!InsertCancelStep, W!InsertCancelStep, Engine!CanInsert, W!CanInsert
<1>5. /\ Engine!SaveCancelledRun(h) = W!SaveCancelledRun(h)
      /\ Engine!LogCancelled(h) = W!LogCancelled(h)
  BY DEF Engine!SaveCancelledRun, W!SaveCancelledRun, Engine!LogCancelled,
     W!LogCancelled, Engine!SetRun, W!SetRun, Engine!Log, W!Log
<1> QED
  BY <1>1, <1>2, <1>3, <1>4, <1>5, SameQueueing DEF Engine!HandlerStep, W!HandlerStep

(* The workers. *)
LEMMA SameWork ==
    ASSUME NEW w
    PROVE  /\ Engine!ClaimJob(w) = W!ClaimJob(w)
           /\ Engine!WorkerStep(w) = W!WorkerStep(w)
<1> USE SameRows DEF Engine!Goto, W!Goto, Engine!Leave, W!Leave, Engine!Got, W!Got,
        Engine!IdleWork, W!IdleWork, Engine!JobOf, W!JobOf, Engine!RunOf, W!RunOf,
        Engine!AttemptOf, W!AttemptOf, Engine!Reads, W!Reads, Engine!StepsOf, W!StepsOf,
        Engine!GatewayStep, W!GatewayStep, Engine!Step, W!Step, Engine!FixedOrder,
        W!FixedOrder, Engine!WithStep, W!WithStep, Engine!SameKey, W!SameKey,
        Engine!SetJob, W!SetJob, Engine!SetRun, W!SetRun, Engine!Log, W!Log,
        Engine!EndStatus, W!EndStatus
<1>1. Engine!ClaimJob(w) = W!ClaimJob(w)
  BY DEF Engine!ClaimJob, W!ClaimJob, Engine!Claimable, W!Claimable
<1>2. Engine!LoadRun(w) = W!LoadRun(w) /\ Engine!SettleJob(w) = W!SettleJob(w)
  BY DEF Engine!LoadRun, W!LoadRun, Engine!Superseded, W!Superseded,
     Engine!SettleJob, W!SettleJob
<1>3. /\ Engine!FindGatewayStep(w) = W!FindGatewayStep(w)
      /\ Engine!OpenStep(w) = W!OpenStep(w)
  BY DEF Engine!FindGatewayStep, W!FindGatewayStep, Engine!OpenStep, W!OpenStep,
     Engine!HasStep, W!HasStep, Engine!CanInsert, W!CanInsert
<1>4. /\ Engine!SaveClaimedRun(w) = W!SaveClaimedRun(w)
      /\ Engine!LogClaim(w) = W!LogClaim(w)
  BY DEF Engine!SaveClaimedRun, W!SaveClaimedRun, Engine!LogClaim, W!LogClaim
<1>5. /\ Engine!LookUpResult(w) = W!LookUpResult(w)
      /\ Engine!CallProvider(w) = W!CallProvider(w)
      /\ Engine!SaveResult(w) = W!SaveResult(w)
  BY DEF Engine!LookUpResult, W!LookUpResult, Engine!CallProvider, W!CallProvider,
     Engine!SaveResult, W!SaveResult
<1>6. /\ Engine!RecheckJob(w) = W!RecheckJob(w)
      /\ Engine!RecheckRun(w) = W!RecheckRun(w)
  BY DEF Engine!RecheckJob, W!RecheckJob, Engine!RecheckRun, W!RecheckRun
<1>7. /\ Engine!DropJob(w) = W!DropJob(w)
      /\ Engine!FindDroppedStep(w) = W!FindDroppedStep(w)
      /\ Engine!DropStep(w) = W!DropStep(w)
  BY DEF Engine!DropJob, W!DropJob, Engine!FindDroppedStep, W!FindDroppedStep,
     Engine!DropStep, W!DropStep, Engine!OpenGatewayStep, W!OpenGatewayStep, Engine!Open,
     W!Open
<1>8. /\ Engine!EndStep(w) = W!EndStep(w) /\ Engine!EndJob(w) = W!EndJob(w)
      /\ Engine!EndRun(w) = W!EndRun(w) /\ Engine!LogEnd(w) = W!LogEnd(w)
  BY DEF Engine!EndStep, W!EndStep, Engine!EndJob, W!EndJob, Engine!EndRun, W!EndRun,
     Engine!LogEnd, W!LogEnd
<1> QED
  BY <1>1, <1>2, <1>3, <1>4, <1>5, <1>6, <1>7, <1>8
  DEF Engine!WorkerStep, W!WorkerStep

-----------------------------------------------------------------------------
(* What grows.  No step takes away a run, the first job of a run, the link of   *)
(* a runtime or the effect of a provider call.                                  *)
Grows ==
    /\ UNCHANGED kind
    /\ \A r \in Runs : /\ Exists(r) => Exists(r)'
                       /\ HasJob(r) => HasJob(r)'
                       /\ runtimes[r].linked => runtimes'[r].linked
                       /\ effects[r] > 0 => effects'[r] > 0

(* What is true of a request stays so while it is left alone. *)
LEMMA AskStays ==
    ASSUME RenderInv, Grows, NEW g \in Handlers, asks'[g] = asks[g], call'[g] = call[g]
    PROVE  AskOk(g)' /\ CallOk(g)'
<1>1. AskOk(g) /\ CallOk(g) /\ W!CallsInv BY DEF RenderInv, W!BaseInv
<1>2. AskOk(g)' BY <1>1 DEF Grows, AskOk
<1>3. call[g].pc # "idle" => call[g].run \in Runs BY <1>1 DEF W!CallsInv
<1>4. CallOk(g)' BY <1>1, <1>3 DEF Grows, CallOk, Starts
<1> QED BY <1>2, <1>4

(* What is true of a callback stays so while it is left alone. *)
LEMMA UpdateStays ==
    ASSUME RenderInv, Grows, NEW c \in Callbacks, updates'[c] = updates[c]
    PROVE  UpdateOk(c)'
<1>1. UpdateOk(c) BY DEF RenderInv
<1> QED BY <1>1 DEF Grows, UpdateOk

(* What is true of a runtime stays so while nobody saves it or inserts its run. *)
LEMMA RowStays ==
    ASSUME RenderInv, Grows, NEW r \in Runs, runtimes'[r] = runtimes[r],
           Exists(r)' => Exists(r) \/ kind[r] = "preview"
    PROVE  RowOk(r)'
<1>1. RowOk(r) BY DEF RenderInv
<1> QED BY <1>1 DEF Grows, RowOk

(* A step that leaves the engine alone. *)
LEMMA EngineIdles ==
    ASSUME RenderInv, UNCHANGED engineVars
    PROVE  /\ W!BaseInv'
           /\ \A j \in DOMAIN jobs' : Exists(jobs[j].run)'
           /\ \A r \in Runs : /\ Exists(r)' <=> Exists(r)
                              /\ HasJob(r)' <=> HasJob(r)
<1>1. UNCHANGED W!vars BY DEF engineVars, W!vars
<1>2. W!BaseInv' BY <1>1, EngineAssumptions, W!BaseInvStutters DEF RenderInv
<1>3. \A j \in DOMAIN jobs' : Exists(jobs[j].run)'
  BY DEF RenderInv, engineVars, Exists
<1>4. \A r \in Runs : /\ Exists(r)' <=> Exists(r)
                      /\ HasJob(r)' <=> HasJob(r)
  BY DEF engineVars, Exists, HasJob, W!HasJob, W!IsJobOf
<1> QED BY <1>2, <1>3, <1>4

(* Jobs that are kept are found again. *)
LEMMA JobsGrow ==
    ASSUME W!JobsKeep, NEW r \in Runs, HasJob(r)
    PROVE  HasJob(r)'
BY DEF W!JobsKeep, HasJob, W!HasJob, W!IsJobOf

(* What a step of the engine's requests keeps, and whose run it may insert. *)
LEMMA CallGrows ==
    ASSUME RenderInv, NEW h \in Handlers, W!CallStep(h)
    PROVE  /\ W!BaseInv'
           /\ UNCHANGED <<effects, ledger>>
           /\ \A g \in Handlers \ {h} : call'[g] = call[g]
           /\ \A j \in DOMAIN jobs' : Exists(jobs[j].run)'
           /\ \A r \in Runs : /\ Exists(r) => Exists(r)'
                              /\ HasJob(r) => HasJob(r)'
                              /\ Exists(r)' => Exists(r) \/ kind[r] = "preview"
<1>0. W!BaseInv /\ W!TypeOK /\ W!CallsInv /\ AskOk(h) /\ CallOk(h)
  BY DEF RenderInv, W!BaseInv
<1>1. W!BaseInv' BY <1>0, EngineAssumptions, W!BaseInvByCalls
<1>2. /\ UNCHANGED <<effects, ledger>> /\ W!JobsKeep
      /\ \A g \in Handlers \ {h} : call'[g] = call[g]
      /\ DOMAIN jobs' = DOMAIN jobs \/ W!EnqueueJob(h)
  BY <1>0, EngineAssumptions, W!HandlerFrame
<1>3. \A r \in Runs : HasJob(r) => HasJob(r)' BY <1>2, JobsGrow
<1>4. /\ \A r \in Runs : Exists(r) => Exists(r)'
      /\ \A r \in Runs : Exists(r)' => Exists(r) \/ kind[r] = "preview"
  <2>1. CASE UNCHANGED runs BY <2>1 DEF Exists
  <2>2. CASE W!SaveQueuedRun(h) \/ W!SaveCancelledRun(h)
    <3>1. \/ UNCHANGED runs
          \/ \E st \in {"pending", "cancelled"} : \E a : W!SetRun(call[h].run, st, a)
      BY <2>2 DEF W!SaveQueuedRun, W!SaveCancelledRun
    <3>2. CASE \E st \in {"pending", "cancelled"} : \E a : W!SetRun(call[h].run, st, a)
      <4>1. PICK st \in {"pending", "cancelled"} : \E a : W!SetRun(call[h].run, st, a)
        BY <3>2
      <4>2. \A r \in Runs : /\ r = call[h].run => runs'[r].status = st
                            /\ r # call[h].run => runs'[r] = runs[r]
        BY <1>0, <4>1 DEF W!SetRun, W!TypeOK
      <4>3. W!Absent.status # st BY DEF W!Absent
      <4>4. Exists(call[h].run) \/ kind[call[h].run] = "preview"
        BY <1>0, <2>2 DEF CallOk, AskOk, W!SaveQueuedRun, W!SaveCancelledRun
      <4> QED BY <4>2, <4>3, <4>4 DEF Exists
    <3> QED BY <2>1, <3>1, <3>2
  <2> QED
    BY <2>1, <2>2
    DEF W!CallStep, W!BeginStart, W!BeginRetry, W!BeginCancel, W!AbortCall, W!HandlerStep,
      W!LogQueued, W!SaveDispatchStep, W!EnqueueJob, W!ListOpenJobs, W!CancelOneJob,
      W!FindOpenGatewayStep, W!CancelGatewayStep, W!FindCancelStep, W!OrderCancelStep,
      W!InsertCancelStep, W!LogCancelled
<1>5. \A j \in DOMAIN jobs' : Exists(jobs[j].run)'
  <2>1. ASSUME NEW j \in DOMAIN jobs PROVE runs'[jobs'[j].run] # W!Absent
    <3>1. jobs'[j].run = jobs[j].run BY <1>2 DEF W!JobsKeep
    <3>2. jobs[j].run \in Runs BY <1>0, EngineAssumptions, W!JobFacts
    <3> QED BY <1>4, <3>1, <3>2 DEF RenderInv, Exists
  <2>2. CASE W!EnqueueJob(h)
    <3>1. call[h].run \in Runs /\ call[h].rec.attempt + 1 \in W!Attempts
          /\ Exists(call[h].run)
      BY <1>0, <2>2, EngineAssumptions, W!CallFacts DEF W!EnqueueJob, CallOk
    <3>2. /\ DOMAIN jobs' = DOMAIN jobs \cup {Len(jobs) + 1}
          /\ jobs'[Len(jobs) + 1].run = call[h].run
      BY <1>0, <2>2, <3>1, EngineAssumptions, W!NewJobType DEF W!EnqueueJob
    <3>3. runs'[call[h].run] # W!Absent BY <1>4, <3>1 DEF Exists
    <3> QED BY <2>1, <3>2, <3>3 DEF Exists
  <2> QED BY <1>2, <2>1, <2>2 DEF Exists
<1> QED BY <1>1, <1>2, <1>3, <1>4, <1>5

(* What a request holds after a statement: what it held, about a run that exists. *)
LEMMA CallHolds ==
    ASSUME RenderInv, NEW h \in Handlers, W!HandlerStep(h)
    PROVE  \/ call'[h] = W!IdleCall
           \/ /\ call'[h].run = call[h].run
              /\ call'[h].rec = call[h].rec
              /\ call[h].pc # "idle"
              /\ call'[h].pc \in W!Queueing => call[h].pc \in W!Queueing
              /\ runs'[call[h].run] # W!Absent
<1>0. W!TypeOK /\ W!CallsInv /\ CallOk(h) BY DEF RenderInv, W!BaseInv
<1>1. \/ call'[h] = W!IdleCall
      \/ /\ call'[h].run = call[h].run
         /\ call'[h].rec = call[h].rec
         /\ call[h].pc # "idle"
         /\ call'[h].pc \in W!Queueing => call[h].pc \in W!Queueing
  BY <1>0, EngineAssumptions, W!HandlerLocal
<1>2. call[h].pc # "idle" => call[h].run \in Runs BY <1>0 DEF W!CallsInv
<1>3. CASE W!SaveQueuedRun(h)
  <2>1. CASE call'[h] = W!IdleCall BY <2>1
  <2>2. CASE W!SetRun(call[h].run, "pending", call[h].rec.attempt + 1)
    <3>1. runs'[call[h].run].status = "pending"
      BY <1>0, <1>2, <1>3, <2>2 DEF W!SetRun, W!TypeOK, W!SaveQueuedRun
    <3> QED BY <1>1, <3>1 DEF W!Absent
  <2>3. W!Return(h) \/ W!SetRun(call[h].run, "pending", call[h].rec.attempt + 1)
    BY <1>3 DEF W!SaveQueuedRun
  <2>4. W!Return(h) => call'[h] = W!IdleCall BY <1>0 DEF W!Return, W!TypeOK
  <2> QED BY <2>1, <2>2, <2>3, <2>4
<1>4. CASE ~W!SaveQueuedRun(h)
  <2>1. call[h].pc # "saveRun" /\ call[h].pc # "idle"
    BY <1>4 DEF W!HandlerStep, W!LogQueued, W!SaveDispatchStep, W!EnqueueJob,
       W!ListOpenJobs, W!CancelOneJob, W!FindOpenGatewayStep, W!CancelGatewayStep,
       W!FindCancelStep, W!OrderCancelStep, W!InsertCancelStep, W!SaveCancelledRun,
       W!LogCancelled
  <2>2. Exists(call[h].run) BY <1>0, <2>1 DEF CallOk
  <2>3. W!CallStep(h) BY DEF W!CallStep
  <2>4. runs'[call[h].run] # W!Absent
    BY <1>2, <2>1, <2>2, <2>3, CallGrows DEF Exists
  <2> QED BY <1>1, <2>4
<1> QED BY <1>3, <1>4

(* What a step of a worker keeps; it inserts no run. *)
LEMMA WorkGrows ==
    ASSUME RenderInv, NEW w \in Workers, W!WorkStep(w)
    PROVE  /\ W!BaseInv'
           /\ UNCHANGED call
           /\ \A j \in DOMAIN jobs' : Exists(jobs[j].run)'
           /\ \A r \in Runs : /\ Exists(r)' <=> Exists(r)
                              /\ HasJob(r) => HasJob(r)'
                              /\ effects[r] > 0 => effects'[r] > 0
<1>0. W!BaseInv /\ W!TypeOK /\ W!WorkInv BY DEF RenderInv, W!BaseInv
<1>1. W!BaseInv' BY <1>0, EngineAssumptions, W!BaseInvByWork
<1>2. UNCHANGED call /\ W!JobsKeep /\ DOMAIN jobs' = DOMAIN jobs
  BY <1>0, EngineAssumptions, W!WorkerFrame
<1>3. \A r \in Runs : HasJob(r) => HasJob(r)' BY <1>2, JobsGrow
<1>4. \A r \in Runs : Exists(r)' <=> Exists(r)
  <2>1. CASE UNCHANGED runs BY <2>1 DEF Exists
  <2>2. CASE W!SaveClaimedRun(w) \/ W!EndRun(w)
    <3>1. \E st \in {"running", "completed", "failed"} : \E a : W!SetRun(W!RunOf(w), st, a)
      BY <2>2 DEF W!SaveClaimedRun, W!EndRun, W!EndStatus
    <3>2. PICK st \in {"running", "completed", "failed"} : \E a : W!SetRun(W!RunOf(w), st, a)
      BY <3>1
    <3>3. \A r \in Runs : /\ r = W!RunOf(w) => runs'[r].status = st
                          /\ r # W!RunOf(w) => runs'[r] = runs[r]
      BY <1>0, <3>2 DEF W!SetRun, W!TypeOK
    <3>4. work[w].job \in DOMAIN jobs
      BY <1>0, <2>2 DEF W!WorkInv, W!SaveClaimedRun, W!EndRun
    <3>5. Exists(W!RunOf(w)) BY <3>4 DEF RenderInv, W!RunOf, W!JobOf
    <3>6. W!Absent.status # st BY DEF W!Absent
    <3> QED BY <3>3, <3>5, <3>6 DEF Exists
  <2> QED
    BY <2>1, <2>2
    DEF W!WorkStep, W!ClaimJob, W!AbortWork, W!WorkerStep, W!LoadRun, W!SettleJob,
      W!FindGatewayStep, W!OpenStep, W!LogClaim, W!LookUpResult, W!CallProvider,
      W!SaveResult, W!RecheckJob, W!RecheckRun, W!DropJob, W!FindDroppedStep, W!DropStep,
      W!EndStep, W!EndJob, W!LogEnd
<1>5. \A r \in Runs : effects[r] > 0 => effects'[r] > 0
  <2>1. CASE UNCHANGED effects BY <2>1
  <2>2. CASE effects' = [effects EXCEPT ![W!RunOf(w)] = @ + 1]
    BY <1>0, <2>2 DEF W!TypeOK
  <2> QED
    BY <2>1, <2>2
    DEF W!WorkStep, W!ClaimJob, W!AbortWork, W!WorkerStep, W!LoadRun, W!SettleJob,
      W!FindGatewayStep, W!OpenStep, W!SaveClaimedRun, W!LogClaim, W!LookUpResult,
      W!CallProvider, W!SaveResult, W!RecheckJob, W!RecheckRun, W!DropJob,
      W!FindDroppedStep, W!DropStep, W!EndStep, W!EndJob, W!EndRun, W!LogEnd
<1>6. \A j \in DOMAIN jobs' : Exists(jobs[j].run)'
  <2>1. ASSUME NEW j \in DOMAIN jobs PROVE runs'[jobs'[j].run] # W!Absent
    <3>1. jobs'[j].run = jobs[j].run BY <1>2 DEF W!JobsKeep
    <3>2. jobs[j].run \in Runs BY <1>0, EngineAssumptions, W!JobFacts
    <3> QED BY <1>4, <3>1, <3>2 DEF RenderInv, Exists
  <2> QED BY <1>2, <2>1 DEF Exists
<1> QED BY <1>1, <1>2, <1>3, <1>4, <1>5, <1>6

-----------------------------------------------------------------------------
(* Render requests preserve RenderInv. *)

(* Where a request goes, its record stays typed. *)
LEMMA AskMoves ==
    ASSUME RenderTypes, NEW h \in Handlers, NEW r \in Runs, NEW pc \in AskPCs,
           NEW rec \in RuntimeRecords, Leave(h) \/ Hold(h, r, pc, rec)
    PROVE  /\ asks' \in [Handlers -> AskRecords]
           /\ \A g \in Handlers \ {h} : asks'[g] = asks[g]
           /\ Leave(h) => asks'[h] = IdleAsk
           /\ Hold(h, r, pc, rec) => asks'[h] = [pc |-> pc, runtime |-> r, rec |-> rec]
<1>1. [pc |-> pc, runtime |-> r, rec |-> rec] \in AskRecords BY DEF AskRecords
<1>2. IdleAsk \in AskRecords
  BY DEF IdleAsk, AskRecords, AskPCs, NoRuntime, RuntimeRecords
<1>3. asks \in [Handlers -> AskRecords] BY DEF RenderTypes
<1> QED BY <1>1, <1>2, <1>3 DEF Leave, Hold

(* Records of runtimes that requests and callbacks save. *)
LEMMA RuntimeTypes ==
    /\ NoRuntime \in RuntimeRecords /\ NewRuntime \in RuntimeRecords
    /\ NewRuntime.status = "idle" /\ ~NewRuntime.linked /\ ~NewRuntime.output
    /\ ~NoRuntime.linked
    /\ \A rec \in RuntimeRecords :
          /\ Queued(rec) \in RuntimeRecords
          /\ Queued(rec).linked /\ ~Queued(rec).output
<1>1. NoRuntime \in RuntimeRecords /\ ~NoRuntime.linked /\ ~NoRuntime.output
  BY DEF NoRuntime, RuntimeRecords
<1>2. /\ NewRuntime \in RuntimeRecords
      /\ NewRuntime.status = "idle" /\ ~NewRuntime.linked /\ ~NewRuntime.output
  BY <1>1 DEF NewRuntime, RuntimeRecords, NoRuntime
<1>3. ASSUME NEW rec \in RuntimeRecords
      PROVE  /\ Queued(rec) \in RuntimeRecords
             /\ Queued(rec).linked /\ ~Queued(rec).output
  BY DEF Queued, RuntimeRecords
<1> QED BY <1>1, <1>2, <1>3

(* A save of a runtime keeps the table typed and the other rows. *)
LEMMA RuntimeSaved ==
    ASSUME RenderTypes, NEW r \in Runs, NEW rec \in RuntimeRecords, SaveRuntime(r, rec)
    PROVE  /\ runtimes' \in [Runs -> RuntimeRecords]
           /\ runtimes'[r] = rec
           /\ \A q \in Runs \ {r} : runtimes'[q] = runtimes[q]
BY DEF RenderTypes, SaveRuntime

(* A request that has nothing to do with the engine yet. *)
LEMMA AskWaits ==
    ASSUME NEW h, asks'[h].pc \in {"create", "start"}, asks'[h].runtime \in Runs
    PROVE  AskOk(h)'
BY DEF AskOk

(* A request that is over. *)
LEMMA AskEnds ==
    ASSUME NEW h, asks'[h] = IdleAsk
    PROVE  AskOk(h)'
BY DEF AskOk, IdleAsk

(* A call that nothing changes while the request that made it is elsewhere. *)
LEMMA CallWaits ==
    ASSUME RenderInv, NEW h \in Handlers, UNCHANGED engineVars, asks[h].pc # "starting"
    PROVE  CallOk(h)'
<1>1. CallOk(h) BY DEF RenderInv
<1>2. ~Starts(h) BY <1>1 DEF CallOk
<1> QED BY <1>1, <1>2 DEF CallOk, Starts, engineVars, Exists

(* FindRuntime. *)
LEMMA InvByFind ==
    ASSUME RenderInv, NEW h \in Handlers, NEW r \in Runs, FindRuntime(h, r)
    PROVE  RenderInv'
<1>0. RenderTypes /\ asks[h].pc = "idle" /\ UNCHANGED <<engineVars, kind, runtimes, updates>>
  BY DEF RenderInv, FindRuntime, IdleAsk
<1>1. Grows BY <1>0, EngineIdles DEF Grows, engineVars
<1>2. /\ asks' \in [Handlers -> AskRecords]
      /\ \A g \in Handlers \ {h} : asks'[g] = asks[g]
      /\ \/ asks'[h] = IdleAsk
         \/ asks'[h].pc \in {"create", "start"} /\ asks'[h].runtime = r
  <2>1. PICK pc \in {"create", "start"}, rec \in {NewRuntime, runtimes[r]} :
           Leave(h) \/ Hold(h, r, pc, rec)
    BY DEF FindRuntime, Proceed
  <2>2. pc \in AskPCs /\ rec \in RuntimeRecords
    BY <1>0, <2>1, RuntimeTypes DEF RenderTypes, AskPCs
  <2>3. CASE Leave(h) BY <1>0, <2>2, <2>3, AskMoves
  <2>4. CASE Hold(h, r, pc, rec)
    <3>1. asks'[h] = [pc |-> pc, runtime |-> r, rec |-> rec]
      BY <1>0, <2>2, <2>4, AskMoves
    <3> QED BY <1>0, <2>2, <2>4, <3>1, AskMoves
  <2> QED BY <2>1, <2>3, <2>4
<1>3. AskOk(h)' BY <1>2, AskWaits, AskEnds
<1>4. CallOk(h)' BY <1>0, CallWaits
<1>5. \A g \in Handlers : AskOk(g)' /\ CallOk(g)'
  BY <1>0, <1>1, <1>2, <1>3, <1>4, AskStays DEF engineVars
<1>6. \A c \in Callbacks : UpdateOk(c)' BY <1>0, <1>1, UpdateStays
<1>7. \A q \in Runs : RowOk(q)' BY <1>0, <1>1, EngineIdles, RowStays
<1>8. RenderTypes' BY <1>0, <1>2 DEF RenderTypes
<1> QED BY <1>0, <1>5, <1>6, <1>7, <1>8, EngineIdles DEF RenderInv

(* CreateRuntime: a row that is there is linked or not, but nobody overwrites it. *)
LEMMA InvByCreate ==
    ASSUME RenderInv, NEW h \in Handlers, CreateRuntime(h)
    PROVE  RenderInv'
<1>0. /\ RenderTypes /\ asks[h].pc = "create" /\ UNCHANGED <<engineVars, kind, updates>>
      /\ asks[h].runtime \in Runs
  BY DEF RenderInv, CreateRuntime, AskOk
<1>r. PICK r \in Runs : r = asks[h].runtime BY <1>0
<1>1. /\ runtimes' \in [Runs -> RuntimeRecords]
      /\ \A q \in Runs \ {r} : runtimes'[q] = runtimes[q]
      /\ \/ runtimes'[r] = runtimes[r]
         \/ runtimes[r] = NoRuntime /\ runtimes'[r] = NewRuntime
  <2>1. CASE UNCHANGED runtimes BY <1>0, <2>1 DEF RenderTypes
  <2>2. CASE runtimes[r] = NoRuntime /\ SaveRuntime(r, NewRuntime)
    BY <1>0, <2>2, RuntimeSaved, RuntimeTypes
  <2> QED BY <1>r, <2>1, <2>2 DEF CreateRuntime
<1>2. /\ asks' \in [Handlers -> AskRecords]
      /\ \A g \in Handlers \ {h} : asks'[g] = asks[g]
      /\ \/ asks'[h] = IdleAsk
         \/ asks'[h].pc = "start" /\ asks'[h].runtime = r
  <2>1. PICK rec \in {NewRuntime, runtimes[r]} : Leave(h) \/ Hold(h, r, "start", rec)
    BY <1>r DEF CreateRuntime, Proceed
  <2>2. "start" \in AskPCs /\ rec \in RuntimeRecords
    BY <1>0, <2>1, RuntimeTypes DEF RenderTypes, AskPCs
  <2>3. CASE Leave(h) BY <1>0, <2>2, <2>3, AskMoves
  <2>4. CASE Hold(h, r, "start", rec)
    <3>1. asks'[h] = [pc |-> "start", runtime |-> r, rec |-> rec]
      BY <1>0, <2>2, <2>4, AskMoves
    <3> QED BY <1>0, <2>2, <2>4, <3>1, AskMoves
  <2> QED BY <2>1, <2>3, <2>4
<1>3. \A q \in Runs : runtimes[q].linked => runtimes'[q].linked
  BY <1>0, <1>1, RuntimeTypes
<1>4. Grows BY <1>0, <1>3, EngineIdles DEF Grows, engineVars
<1>5. AskOk(h)' BY <1>0, <1>2, AskWaits, AskEnds
<1>6. CallOk(h)' BY <1>0, CallWaits
<1>7. \A g \in Handlers : AskOk(g)' /\ CallOk(g)'
  BY <1>0, <1>2, <1>4, <1>5, <1>6, AskStays DEF engineVars
<1>8. \A c \in Callbacks : UpdateOk(c)' BY <1>0, <1>4, UpdateStays
<1>9. \A q \in Runs : RowOk(q)'
  <2>1. ASSUME NEW q \in Runs, runtimes'[q] = runtimes[q] PROVE RowOk(q)'
    BY <1>0, <1>4, <2>1, EngineIdles, RowStays
  <2>2. ASSUME runtimes[r] = NoRuntime, runtimes'[r] = NewRuntime PROVE RowOk(r)'
    <3>1. RowOk(r) /\ ~runtimes[r].linked
      BY <1>0, <2>2, RuntimeTypes DEF RenderInv
    <3>2. Exists(r)' <=> Exists(r) BY <1>0, EngineIdles
    <3> QED BY <1>0, <2>2, <3>1, <3>2, RuntimeTypes DEF RowOk
  <2> QED BY <1>1, <2>1, <2>2
<1>10. RenderTypes' BY <1>0, <1>1, <1>2 DEF RenderTypes
<1> QED BY <1>0, <1>7, <1>8, <1>9, <1>10, EngineIdles DEF RenderInv

(* SavePreview: the run has been queued. *)
LEMMA InvBySave ==
    ASSUME RenderInv, NEW h \in Handlers, SavePreview(h)
    PROVE  RenderInv'
<1> DEFINE rec == Queued(asks[h].rec)
<1>r. PICK r \in Runs : r = asks[h].runtime BY DEF RenderInv, SavePreview, AskOk
<1>0. /\ RenderTypes /\ asks[h].pc = "save" /\ UNCHANGED <<engineVars, kind, updates>>
      /\ Exists(r) /\ HasJob(r)
  BY <1>r DEF RenderInv, SavePreview, AskOk
<1>1. rec \in RuntimeRecords /\ rec.linked /\ ~rec.output
  <2>1. asks[h].rec \in RuntimeRecords BY <1>0 DEF RenderTypes, AskRecords
  <2> QED BY <2>1, RuntimeTypes
<1>2. /\ runtimes' \in [Runs -> RuntimeRecords]
      /\ \A q \in Runs \ {r} : runtimes'[q] = runtimes[q]
      /\ runtimes'[r] = rec
  BY <1>0, <1>1, <1>r, RuntimeSaved DEF SavePreview
<1>3. /\ asks' \in [Handlers -> AskRecords]
      /\ \A g \in Handlers \ {h} : asks'[g] = asks[g]
      /\ asks'[h] = IdleAsk
  <2>1. Leave(h) /\ "idle" \in AskPCs BY DEF SavePreview, AskPCs
  <2> QED BY <1>0, <1>1, <2>1, AskMoves
<1> HIDE DEF rec
<1>4. Grows BY <1>0, <1>1, <1>2, EngineIdles DEF Grows, engineVars
<1>5. AskOk(h)' BY <1>3, AskEnds
<1>6. CallOk(h)' BY <1>0, CallWaits
<1>7. \A g \in Handlers : AskOk(g)' /\ CallOk(g)'
  BY <1>0, <1>3, <1>4, <1>5, <1>6, AskStays DEF engineVars
<1>8. \A c \in Callbacks : UpdateOk(c)' BY <1>0, <1>4, UpdateStays
<1>9. \A q \in Runs : RowOk(q)'
  <2>1. ASSUME NEW q \in Runs, runtimes'[q] = runtimes[q] PROVE RowOk(q)'
    BY <1>0, <1>4, <2>1, EngineIdles, RowStays
  <2>2. RowOk(r)'
    <3>1. Exists(r)' /\ HasJob(r)' BY <1>0, EngineIdles
    <3> QED BY <1>1, <1>2, <3>1 DEF RowOk
  <2> QED BY <1>2, <2>1, <2>2
<1>10. RenderTypes' BY <1>0, <1>2, <1>3 DEF RenderTypes
<1> QED BY <1>0, <1>7, <1>8, <1>9, <1>10, EngineIdles DEF RenderInv

(* What Grows asks of a step of the engine's requests that saves no runtime. *)
LEMMA CallStepGrows ==
    ASSUME RenderInv, NEW h \in Handlers, W!CallStep(h), UNCHANGED <<kind, runtimes>>
    PROVE  /\ Grows
           /\ \A q \in Runs : RowOk(q)'
<1>1. Grows BY CallGrows DEF Grows
<1>2. \A q \in Runs : RowOk(q)' BY <1>1, CallGrows, RowStays
<1> QED BY <1>1, <1>2

(* StartPreview: the engine's request starts with this one. *)
LEMMA InvByStartPreview ==
    ASSUME RenderInv, NEW h \in Handlers, StartPreview(h)
    PROVE  RenderInv'
<1>r. PICK r \in Runs : r = asks[h].runtime BY DEF RenderInv, StartPreview, AskOk
<1>0. /\ RenderTypes /\ UNCHANGED <<kind, runtimes, updates>> /\ kind[r] = "preview"
      /\ W!BeginStart(h, r) /\ W!CallStep(h)
  BY <1>r, SameBegin DEF RenderInv, StartPreview, W!CallStep
<1>1. Grows /\ \A q \in Runs : RowOk(q)' BY <1>0, CallStepGrows
<1>2. /\ asks' \in [Handlers -> AskRecords]
      /\ \A g \in Handlers \ {h} : asks'[g] = asks[g]
      /\ asks'[h].pc = "starting" /\ asks'[h].runtime = r
  <2>1. "starting" \in AskPCs /\ asks[h].rec \in RuntimeRecords
    BY <1>0 DEF RenderTypes, AskRecords, AskPCs
  <2>2. Hold(h, r, "starting", asks[h].rec) BY <1>r DEF StartPreview
  <2>3. asks'[h] = [pc |-> "starting", runtime |-> r, rec |-> asks[h].rec]
    BY <1>0, <2>1, <2>2, AskMoves
  <2> QED BY <1>0, <2>1, <2>2, <2>3, AskMoves
<1>3. call'[h].pc = "saveRun" /\ call'[h].run = r /\ call'[h].rec = W!Absent
  <2>1. call \in [Handlers -> W!CallRecords] BY DEF RenderInv, W!BaseInv, W!TypeOK
  <2> QED BY <1>0, <2>1 DEF W!BeginStart, W!Accept, W!IdleCall
<1>4. AskOk(h)' BY <1>0, <1>2, <1>3 DEF AskOk, W!Queueing
<1>5. CallOk(h)' BY <1>2, <1>3 DEF CallOk, Starts, W!Queueing
<1>6. \A g \in Handlers : AskOk(g)' /\ CallOk(g)'
  BY <1>0, <1>1, <1>2, <1>4, <1>5, AskStays, CallGrows
<1>7. \A c \in Callbacks : UpdateOk(c)' BY <1>0, <1>1, UpdateStays
<1>8. RenderTypes' BY <1>0, <1>2 DEF RenderTypes
<1> QED BY <1>0, <1>1, <1>6, <1>7, <1>8, CallGrows DEF RenderInv

(* EnqueueJob leaves the job of the first attempt behind. *)
LEMMA FirstJob ==
    ASSUME RenderInv, NEW h \in Handlers, W!EnqueueJob(h), call[h].rec = W!Absent,
           NEW r \in Runs, r = call[h].run
    PROVE  HasJob(r)'
<1>1. W!TypeOK /\ W!CallsInv BY DEF RenderInv, W!BaseInv
<1>2. call[h].rec.attempt + 1 = 1 BY DEF W!Absent
<1>3. 1 \in W!Attempts BY EngineAssumptions DEF W!Attempts
<1>4. /\ DOMAIN jobs' = DOMAIN jobs \cup {Len(jobs) + 1}
      /\ jobs'[Len(jobs) + 1] = [run |-> r, attempt |-> 1, status |-> "pending"]
  BY <1>1, <1>2, <1>3, EngineAssumptions, W!NewJobType DEF W!EnqueueJob
<1> QED BY <1>4 DEF HasJob, W!HasJob, W!IsJobOf

(* StartingPreview: this request follows the engine's to its last statement. *)
LEMMA InvByStarting ==
    ASSUME RenderInv, NEW h \in Handlers, StartingPreview(h)
    PROVE  RenderInv'
<1>r. PICK r \in Runs : r = asks[h].runtime BY DEF RenderInv, StartingPreview, AskOk
<1>0. /\ RenderTypes /\ UNCHANGED <<kind, runtimes, updates>>
      /\ asks[h].pc = "starting" /\ asks[h].rec \in RuntimeRecords
      /\ call[h].run = r /\ call[h].rec = W!Absent /\ kind[r] = "preview"
      /\ call[h].pc \in W!Queueing
  BY <1>r DEF RenderInv, StartingPreview, AskOk, RenderTypes, AskRecords
<1>t. call \in [Handlers -> W!CallRecords] BY DEF RenderInv, W!BaseInv, W!TypeOK
<1>s. /\ \/ W!SaveQueuedRun(h) \/ W!LogQueued(h)
         \/ W!SaveDispatchStep(h) \/ W!EnqueueJob(h)
      /\ W!HandlerStep(h) /\ W!CallStep(h)
  BY SameQueueing DEF StartingPreview, W!HandlerStep, W!CallStep
<1>1. Grows /\ \A q \in Runs : RowOk(q)' BY <1>0, <1>s, CallStepGrows
<1> DEFINE Moved == /\ asks' \in [Handlers -> AskRecords]
                    /\ \A g \in Handlers \ {h} : asks'[g] = asks[g]
                    /\ AskOk(h)' /\ CallOk(h)'
<1>2. ASSUME call[h].pc = "enqueue" PROVE Moved
  <2>1. W!EnqueueJob(h)
    BY <1>2, <1>s DEF W!SaveQueuedRun, W!LogQueued, W!SaveDispatchStep
  <2>2. Hold(h, r, "save", asks[h].rec) BY <1>r, <1>2 DEF StartingPreview
  <2>3. "save" \in AskPCs BY DEF AskPCs
  <2>4. /\ asks' \in [Handlers -> AskRecords]
        /\ \A g \in Handlers \ {h} : asks'[g] = asks[g]
        /\ asks'[h] = [pc |-> "save", runtime |-> r, rec |-> asks[h].rec]
    BY <1>0, <2>2, <2>3, AskMoves
  <2>5. Exists(r)' /\ HasJob(r)'
    <3>1. Exists(r) BY <1>0, <1>2 DEF RenderInv, CallOk
    <3>2. Exists(r)' BY <1>1, <3>1 DEF Grows
    <3> QED BY <1>0, <2>1, <3>2, FirstJob
  <2>6. AskOk(h)' BY <2>4, <2>5 DEF AskOk
  <2>7. call'[h] = W!IdleCall BY <1>t, <2>1 DEF W!EnqueueJob, W!Return
  <2>8. CallOk(h)' BY <2>7 DEF CallOk, Starts, W!IdleCall, W!Queueing
  <2> QED BY <2>4, <2>6, <2>8
<1>3. ASSUME call[h].pc # "enqueue", call'[h] = Engine!IdleCall PROVE Moved
  <2>1. Leave(h) /\ "idle" \in AskPCs BY <1>3 DEF StartingPreview, AskPCs
  <2>2. /\ asks' \in [Handlers -> AskRecords]
        /\ \A g \in Handlers \ {h} : asks'[g] = asks[g]
        /\ asks'[h] = IdleAsk
    BY <1>0, <2>1, AskMoves
  <2>3. AskOk(h)' BY <2>2, AskEnds
  <2>4. CallOk(h)' BY <1>3, SameRows DEF CallOk, Starts, W!IdleCall, W!Queueing
  <2> QED BY <2>2, <2>3, <2>4
<1>4. ASSUME call[h].pc # "enqueue", call'[h] # Engine!IdleCall PROVE Moved
  <2>1. asks' = asks BY <1>4 DEF StartingPreview
  <2>2. /\ call'[h].run = r /\ call'[h].rec = W!Absent
        /\ runs'[r] # W!Absent
    BY <1>0, <1>4, <1>s, CallHolds, SameRows
  <2>3. call'[h].pc \in W!Queueing
    <3>1. ~W!EnqueueJob(h) BY <1>4 DEF W!EnqueueJob
    <3>2. W!Return(h) => call'[h] = W!IdleCall BY <1>t DEF W!Return
    <3>3. \E pc \in {"logQueued", "dispatch", "enqueue"} : W!Go(h, pc)
      BY <1>4, <1>s, <3>1, <3>2, SameRows
      DEF W!SaveQueuedRun, W!LogQueued, W!SaveDispatchStep
    <3> QED BY <1>t, <3>3 DEF W!Go, W!Queueing, W!CallRecords
  <2>4. AskOk(h)' BY <1>0, <1>r, <2>1, <2>2, <2>3 DEF AskOk
  <2>5. CallOk(h)' BY <1>0, <2>1, <2>2 DEF CallOk, Starts, Exists
  <2> QED BY <1>0, <2>1, <2>4, <2>5 DEF RenderTypes
<1>5. Moved BY <1>2, <1>3, <1>4
<1>6. \A g \in Handlers : AskOk(g)' /\ CallOk(g)'
  BY <1>1, <1>5, <1>s, AskStays, CallGrows
<1>7. \A c \in Callbacks : UpdateOk(c)' BY <1>0, <1>1, UpdateStays
<1>8. RenderTypes' BY <1>0, <1>5 DEF RenderTypes
<1> QED BY <1>1, <1>6, <1>7, <1>8, <1>s, CallGrows DEF RenderInv

(* Retries and cancels of clients, from their first statement to their last:    *)
(* whatever they hold is about a run that exists.                               *)
LEMMA InvByEngineCall ==
    ASSUME RenderInv, NEW h \in Handlers,
           EngineCallStep(h) \/ \E r \in Runs : BeginEngineCall(h, r)
    PROVE  RenderInv'
<1>0. /\ RenderTypes /\ asks[h] = IdleAsk /\ asks[h].pc = "idle"
      /\ UNCHANGED <<kind, runtimes, asks, updates>>
  BY DEF RenderInv, EngineCallStep, BeginEngineCall, renderVars, IdleAsk
<1>t. call \in [Handlers -> W!CallRecords] BY DEF RenderInv, W!BaseInv, W!TypeOK
<1>s. \/ W!HandlerStep(h)
      \/ \E r \in Runs : W!BeginRetry(h, r) \/ W!BeginCancel(h, r)
  BY SameHandlerStep, SameBegin DEF EngineCallStep, BeginEngineCall
<1>1. W!CallStep(h) BY <1>s DEF W!CallStep
<1>2. Grows /\ \A q \in Runs : RowOk(q)' BY <1>0, <1>1, CallStepGrows
<1>3. ~Starts(h) BY <1>0 DEF RenderInv, CallOk
<1>4. CallOk(h)'
  <2>1. CASE W!HandlerStep(h)
    <3>1. CASE call'[h] = W!IdleCall
      BY <3>1 DEF CallOk, Starts, W!IdleCall, W!Queueing
    <3>2. CASE /\ call'[h].run = call[h].run /\ call'[h].rec = call[h].rec
               /\ call'[h].pc \in W!Queueing => call[h].pc \in W!Queueing
               /\ runs'[call[h].run] # W!Absent
      BY <1>3, <3>2 DEF CallOk, Starts, Exists
    <3> QED BY <2>1, <3>1, <3>2, CallHolds
  <2>2. ASSUME NEW r \in Runs, W!BeginRetry(h, r) \/ W!BeginCancel(h, r)
        PROVE  CallOk(h)'
    <3>1. call'[h].run = r /\ call'[h].rec = runs[r] /\ runs' = runs
      BY <1>t, <2>2 DEF W!BeginRetry, W!BeginCancel, W!Accept, W!IdleCall
    <3>2. runs[r].status # "none"
      BY <2>2 DEF W!BeginRetry, W!BeginCancel, W!RetryAllowed, W!CancelAllowed, W!Open
    <3>3. runs[r] # W!Absent BY <3>2 DEF W!Absent
    <3> QED BY <3>1, <3>3 DEF CallOk, Starts, Exists
  <2> QED BY <1>s, <2>1, <2>2
<1>5. AskOk(h)' BY <1>0, AskEnds
<1>6. \A g \in Handlers : AskOk(g)' /\ CallOk(g)'
  BY <1>0, <1>1, <1>2, <1>4, <1>5, AskStays, CallGrows
<1>7. \A c \in Callbacks : UpdateOk(c)' BY <1>0, <1>2, UpdateStays
<1>8. RenderTypes' BY <1>0 DEF RenderTypes
<1> QED BY <1>1, <1>2, <1>6, <1>7, <1>8, CallGrows DEF RenderInv

(* Workers preserve RenderInv. *)
LEMMA InvByWorking ==
    ASSUME RenderInv, NEW w \in Workers, Working(w)
    PROVE  RenderInv'
<1>0. RenderTypes /\ UNCHANGED <<kind, runtimes, asks, updates>>
  BY DEF RenderInv, Working, renderVars
<1>1. W!WorkStep(w) BY SameWork DEF Working, W!WorkStep
<1>2. Grows BY <1>0, <1>1, WorkGrows DEF Grows
<1>3. \A q \in Runs : RowOk(q)' BY <1>0, <1>1, <1>2, WorkGrows, RowStays
<1>4. \A g \in Handlers : AskOk(g)' /\ CallOk(g)'
  BY <1>0, <1>1, <1>2, AskStays, WorkGrows
<1>5. \A c \in Callbacks : UpdateOk(c)' BY <1>0, <1>2, UpdateStays
<1>6. RenderTypes' BY <1>0 DEF RenderTypes
<1> QED BY <1>1, <1>3, <1>4, <1>5, <1>6, WorkGrows DEF RenderInv

-----------------------------------------------------------------------------
(* StartAudio saves five rows at once, three of them the engine's.              *)

(* A run, its transition, its dispatch step and its job inserted together: the  *)
(* unique index on the step finds no dispatch step of the run, so there is no   *)
(* job of the run, no request about to enqueue one and nothing executed.        *)
InsertsRun(r) ==
    LET step == W!Step(r, 1, "dispatch", W!FixedOrder(1, "dispatch"), "completed")
    IN  /\ W!CanInsert(step)
        /\ W!SetRun(r, "pending", 1)
        /\ W!Log(r, "none", "pending")
        /\ steps' = steps \cup {step}
        /\ jobs' = Append(jobs, [run |-> r, attempt |-> 1, status |-> "pending"])
        /\ UNCHANGED <<results, effects, call, work, ledger>>

(* Such a step keeps what the engine's invariant says. *)
LEMMA InsertKeepsBase ==
    ASSUME RenderInv, NEW r \in Runs, InsertsRun(r)
    PROVE  /\ W!BaseInv'
           /\ HasJob(r)'
           /\ \A q \in Runs : HasJob(q) => HasJob(q)'
           /\ DOMAIN jobs' = DOMAIN jobs \cup {Len(jobs) + 1}
           /\ \A j \in DOMAIN jobs : jobs'[j] = jobs[j]
           /\ jobs'[Len(jobs) + 1] = [run |-> r, attempt |-> 1, status |-> "pending"]
<1> DEFINE n == Len(jobs) + 1
           step == W!Step(r, 1, "dispatch", W!FixedOrder(1, "dispatch"), "completed")
<1>0. /\ W!TypeOK /\ W!JobsInv /\ W!CallsInv /\ W!WorkInv /\ W!LedgerInv
      /\ 1 \in W!Attempts /\ "pending" \in W!Statuses /\ "completed" \in W!Statuses
  BY EngineAssumptions DEF RenderInv, W!BaseInv, W!Attempts, W!Statuses
<1>1. /\ jobs' \in Seq(W!JobRecords)
      /\ DOMAIN jobs' = DOMAIN jobs \cup {n}
      /\ \A j \in DOMAIN jobs : jobs'[j] = jobs[j]
      /\ jobs'[n] = [run |-> r, attempt |-> 1, status |-> "pending"]
  BY <1>0, EngineAssumptions, W!NewJobType DEF InsertsRun
<1>2. ~W!HasDispatch(r, 1)
  BY DEF InsertsRun, W!CanInsert, W!Step, W!StepsOf, W!SameKey, W!HasDispatch
<1>3. \A j \in DOMAIN jobs : ~ (jobs[j].run = r /\ jobs[j].attempt = 1)
  BY <1>0, <1>2 DEF W!JobsInv
<1>4. ledger[r][1] = "none"
  BY <1>0, <1>3 DEF W!LedgerInv, W!OutcomeOf, W!IsJobOf
<1>5. W!StepsKeep
  BY EngineAssumptions, W!InsertKeeps DEF InsertsRun
<1>6. \E s \in steps' : s.run = r /\ s.attempt = 1 /\ s.suffix = "dispatch"
  BY DEF InsertsRun, W!Step
<1>7. UNCHANGED <<results, effects, call, work, ledger>> BY DEF InsertsRun
<1>8. W!TypeOK'
  <2>1. runs' \in [Runs -> W!RunRecords]
    BY <1>0, EngineAssumptions, W!RunsType DEF InsertsRun
  <2>2. steps' \in SUBSET W!StepRecords
    <3>1. W!FixedOrder(1, "dispatch") \in Nat BY <1>0, EngineAssumptions, W!FixedOrderNat
    <3> QED BY <1>0, <3>1, EngineAssumptions, W!StepsType DEF InsertsRun
  <2>3. trail' \in [Runs -> (W!Statuses \cup {"none"}) \X (W!Statuses \cup {"none"})]
    BY <1>0, EngineAssumptions, W!TrailType DEF InsertsRun
  <2>4. call' \in [Handlers -> W!CallRecords']
    BY <1>0, <1>1, <1>7 DEF W!TypeOK, W!CallRecords
  <2>5. work' \in [Workers -> W!WorkRecords']
    BY <1>0, <1>1, <1>7 DEF W!TypeOK, W!WorkRecords
  <2> QED BY <1>0, <1>1, <1>7, <2>1, <2>2, <2>3, <2>4, <2>5 DEF W!TypeOK
<1> HIDE DEF n, step
<1>9. W!JobsInv'
  <2>1. ASSUME NEW j \in DOMAIN jobs'
        PROVE  /\ \E s \in steps' : /\ s.run = jobs'[j].run /\ s.attempt = jobs'[j].attempt
                                    /\ s.suffix = "dispatch"
               /\ jobs'[j].status = "pending" =>
                     ledger'[jobs'[j].run][jobs'[j].attempt] = "none"
    <3>1. CASE j \in DOMAIN jobs
      <4>1. /\ W!HasDispatch(jobs[j].run, jobs[j].attempt)
            /\ jobs[j].status = "pending" => ledger[jobs[j].run][jobs[j].attempt] = "none"
        BY <1>0, <3>1 DEF W!JobsInv, W!OutcomeOf
      <4> QED BY <1>1, <1>5, <1>7, <3>1, <4>1 DEF W!StepsKeep, W!HasDispatch
    <3>2. CASE j = n BY <1>1, <1>4, <1>6, <1>7, <3>2
    <3> QED BY <1>1, <2>1, <3>1, <3>2
  <2>2. \A i, j \in DOMAIN jobs' :
           jobs'[i].run = jobs'[j].run /\ jobs'[i].attempt = jobs'[j].attempt => i = j
    BY <1>0, <1>1, <1>3 DEF W!JobsInv, W!IsJobOf
  <2> QED BY <2>1, <2>2 DEF W!JobsInv, W!HasDispatch, W!IsJobOf, W!OutcomeOf
<1>10. W!CallsInv'
  <2>1. ASSUME NEW h \in Handlers, call[h].pc = "enqueue"
        PROVE  /\ \E s \in steps' : /\ s.run = call[h].run
                                    /\ s.attempt = W!NextAttempt(h)
                                    /\ s.suffix = "dispatch"
               /\ \A j \in DOMAIN jobs' : ~ (/\ jobs'[j].run = call[h].run
                                             /\ jobs'[j].attempt = W!NextAttempt(h))
    <3>1. /\ W!HasDispatch(call[h].run, W!NextAttempt(h))
          /\ ~W!HasJob(call[h].run, W!NextAttempt(h))
      BY <1>0, <2>1 DEF W!CallsInv
    <3>2. ~ (call[h].run = r /\ W!NextAttempt(h) = 1) BY <1>2, <3>1
    <3> QED BY <1>1, <1>5, <3>1, <3>2 DEF W!StepsKeep, W!HasDispatch, W!HasJob, W!IsJobOf
  <2> QED
    BY <1>0, <1>7, <2>1
    DEF W!CallsInv, W!NextAttempt, W!HasDispatch, W!HasJob, W!IsJobOf
<1>11. W!WorkInv'
  <2>1. \A w \in Workers : work[w].pc # "idle" =>
           work[w].job \in DOMAIN jobs' /\ jobs'[work[w].job] = jobs[work[w].job]
    BY <1>0, <1>1 DEF W!WorkInv
  <2>2. \A w \in Workers :
           work[w].pc \in W!Preparing \cup W!Executing \cup W!Loaded \cup W!Settling
              => work[w].pc # "idle"
    BY DEF W!Preparing, W!Executing, W!Loaded, W!Settling
  <2> QED
    BY <1>0, <1>7, <2>1, <2>2
    DEF W!WorkInv, W!JobOf, W!RunOf, W!AttemptOf, W!OutcomeOf
<1>12. W!LedgerInv' BY <1>0, <1>1, <1>7 DEF W!LedgerInv, W!OutcomeOf, W!IsJobOf
<1>13. /\ HasJob(r)'
       /\ \A q \in Runs : HasJob(q) => HasJob(q)'
  BY <1>1 DEF HasJob, W!HasJob, W!IsJobOf
<1> QED BY <1>1, <1>8, <1>9, <1>10, <1>11, <1>12, <1>13 DEF W!BaseInv, n

(* StartAudio: runtime and run are there together, or neither is. *)
LEMMA InvByStartAudio ==
    ASSUME RenderInv, NEW h \in Handlers, StartAudio(h)
    PROVE  RenderInv'
<1>r. PICK r \in Runs : r = asks[h].runtime BY DEF RenderInv, StartAudio, AskOk
<1>0. /\ RenderTypes /\ UNCHANGED <<results, effects, call, work, ledger, kind, updates>>
      /\ asks[h].pc = "start" /\ asks[h].rec \in RuntimeRecords /\ kind[r] = "audio"
      /\ W!TypeOK
  BY <1>r DEF RenderInv, W!BaseInv, StartAudio, RenderTypes, AskRecords
<1>1. /\ asks' \in [Handlers -> AskRecords]
      /\ \A g \in Handlers \ {h} : asks'[g] = asks[g]
      /\ asks'[h] = IdleAsk
  <2>1. Leave(h) /\ "idle" \in AskPCs BY DEF StartAudio, AskPCs
  <2> QED BY <1>0, <2>1, AskMoves
<1>2. AskOk(h)' BY <1>1, AskEnds
<1>3. CASE UNCHANGED <<runtimes, runs, trail, steps, jobs>>
  <2>1. UNCHANGED engineVars BY <1>0, <1>3 DEF engineVars
  <2>2. Grows BY <1>0, <1>3, <2>1, EngineIdles DEF Grows
  <2>3. CallOk(h)' BY <1>0, <2>1, CallWaits
  <2>4. \A g \in Handlers : AskOk(g)' /\ CallOk(g)'
    BY <1>0, <1>1, <1>2, <2>2, <2>3, AskStays
  <2>5. \A c \in Callbacks : UpdateOk(c)' BY <1>0, <2>2, UpdateStays
  <2>6. \A q \in Runs : RowOk(q)' BY <1>3, <2>1, <2>2, EngineIdles, RowStays
  <2>7. RenderTypes' BY <1>0, <1>1, <1>3 DEF RenderTypes
  <2> QED BY <2>1, <2>4, <2>5, <2>6, <2>7, EngineIdles DEF RenderInv
<1>4. CASE /\ SaveRuntime(r, Queued(asks[h].rec)) /\ InsertsRun(r)
  <2>1. /\ runtimes' \in [Runs -> RuntimeRecords]
        /\ runtimes'[r].linked /\ ~runtimes'[r].output
        /\ \A q \in Runs \ {r} : runtimes'[q] = runtimes[q]
    <3>1. /\ Queued(asks[h].rec) \in RuntimeRecords
          /\ Queued(asks[h].rec).linked /\ ~Queued(asks[h].rec).output
      BY <1>0, RuntimeTypes
    <3> QED BY <1>0, <1>4, <3>1, RuntimeSaved
  <2>2. runs'[r] # W!Absent /\ \A q \in Runs \ {r} : runs'[q] = runs[q]
    <3>1. runs'[r] = [status |-> "pending", attempt |-> 1]
          /\ \A q \in Runs \ {r} : runs'[q] = runs[q]
      BY <1>0, <1>4 DEF InsertsRun, W!SetRun, W!TypeOK
    <3>2. runs'[r].status # W!Absent.status BY <3>1 DEF W!Absent
    <3> QED BY <3>1, <3>2
  <2>3. Grows BY <1>0, <1>4, <2>1, <2>2, InsertKeepsBase DEF Grows, Exists
  <2>4. CallOk(h)'
    <3>1. CallOk(h) /\ ~Starts(h) BY <1>0 DEF RenderInv, CallOk
    <3>2. call[h].pc # "idle" => call[h].run \in Runs
      BY DEF RenderInv, W!BaseInv, W!CallsInv
    <3> QED BY <1>0, <2>3, <3>1, <3>2 DEF CallOk, Starts, Grows, Exists
  <2>5. \A g \in Handlers : AskOk(g)' /\ CallOk(g)'
    BY <1>0, <1>1, <1>2, <2>3, <2>4, AskStays
  <2>6. \A c \in Callbacks : UpdateOk(c)' BY <1>0, <2>3, UpdateStays
  <2>7. \A q \in Runs : RowOk(q)'
    <3>1. RowOk(r)' BY <1>4, <2>1, <2>2, InsertKeepsBase DEF RowOk, Exists
    <3>2. \A q \in Runs \ {r} : RowOk(q)' BY <2>1, <2>2, <2>3, RowStays DEF Exists
    <3> QED BY <3>1, <3>2
  <2>8. \A j \in DOMAIN jobs' : Exists(jobs[j].run)'
    <3>1. \A j \in DOMAIN jobs : Exists(jobs[j].run) /\ jobs[j].run \in Runs
      BY <1>0, EngineAssumptions, W!JobFacts DEF RenderInv
    <3>2. \A j \in DOMAIN jobs : runs'[jobs[j].run] # W!Absent
      BY <2>2, <3>1 DEF Exists
    <3>3. /\ DOMAIN jobs' = DOMAIN jobs \cup {Len(jobs) + 1}
          /\ \A j \in DOMAIN jobs : jobs'[j] = jobs[j]
          /\ jobs'[Len(jobs) + 1] = [run |-> r, attempt |-> 1, status |-> "pending"]
      BY <1>4, InsertKeepsBase
    <3>4. \A j \in DOMAIN jobs' : runs'[jobs'[j].run] # W!Absent
      BY <2>2, <3>2, <3>3
    <3> QED BY <3>4 DEF Exists
  <2>9. RenderTypes' BY <1>0, <1>1, <2>1 DEF RenderTypes
  <2> QED BY <1>4, <2>5, <2>6, <2>7, <2>8, <2>9, InsertKeepsBase DEF RenderInv
<1> QED
  <2>1. \/ UNCHANGED <<runtimes, runs, trail, steps, jobs>>
        \/ SaveRuntime(r, Queued(asks[h].rec)) /\ InsertsRun(r)
    BY <1>r
    DEF StartAudio, InsertsRun, Engine!SetRun, W!SetRun, Engine!Log, W!Log, Engine!Step,
        W!Step, Engine!FixedOrder, W!FixedOrder, Engine!CanInsert, W!CanInsert,
        Engine!StepsOf, W!StepsOf, Engine!SameKey, W!SameKey
  <2> QED BY <1>3, <1>4, <2>1

-----------------------------------------------------------------------------
(* Callbacks preserve RenderInv. *)

(* What a callback writes back of a runtime. *)
LEMMA UpdatedTypes ==
    ASSUME NEW rec \in RuntimeRecords, NEW status \in Reports, rec.linked
    PROVE  Updated(rec, status) \in RuntimeRecords /\ Updated(rec, status).linked
<1>1. PICK out \in BOOLEAN : out = ((status = "completed") \/ rec.output) OBVIOUS
<1>2. Updated(rec, status) = [rec EXCEPT !.status = status, !.output = out]
  BY <1>1 DEF Updated
<1> QED BY <1>2 DEF RuntimeRecords

(* Where a callback goes, its record stays typed. *)
LEMMA UpdateMoves ==
    ASSUME RenderTypes, NEW c \in Callbacks, NEW u \in UpdateRecords,
           updates' = [updates EXCEPT ![c] = u]
    PROVE  /\ updates' \in [Callbacks -> UpdateRecords]
           /\ updates'[c] = u
           /\ \A d \in Callbacks \ {c} : updates'[d] = updates[d]
BY DEF RenderTypes

(* A callback that holds nothing is typed. *)
LEMMA IdleUpdateType == IdleUpdate \in UpdateRecords
BY SameRows DEF IdleUpdate, UpdateRecords, NoRuntime, RuntimeRecords, W!RunRecords

(* A callback that is over. *)
LEMMA UpdateEnds ==
    ASSUME RenderTypes, NEW c \in Callbacks, EndUpdate(c)
    PROVE  /\ updates' \in [Callbacks -> UpdateRecords]
           /\ UpdateOk(c)'
           /\ \A d \in Callbacks \ {c} : updates'[d] = updates[d]
<1>1. /\ updates' \in [Callbacks -> UpdateRecords]
      /\ updates'[c] = IdleUpdate
      /\ \A d \in Callbacks \ {c} : updates'[d] = updates[d]
  BY IdleUpdateType, UpdateMoves DEF EndUpdate
<1> QED BY <1>1 DEF UpdateOk, IdleUpdate

(* A step that at most overwrites the row of a run that exists keeps the engine's   *)
(* invariant: no part of it reads that table.                                       *)
LEMMA RunSaved ==
    ASSUME RenderInv, NEW r \in Runs, Exists(r), NEW st \in W!Statuses,
           NEW a \in W!Attempts, UNCHANGED runs \/ W!SetRun(r, st, a),
           UNCHANGED <<steps, jobs, trail, results, effects, call, work, ledger>>
    PROVE  /\ W!BaseInv'
           /\ \A j \in DOMAIN jobs' : Exists(jobs[j].run)'
           /\ \A q \in Runs : /\ Exists(q)' <=> Exists(q)
                              /\ HasJob(q)' <=> HasJob(q)
<1>0. W!BaseInv /\ W!TypeOK BY DEF RenderInv, W!BaseInv
<1>1. runs' \in [Runs -> W!RunRecords]
  BY <1>0, EngineAssumptions, W!RunsType DEF W!TypeOK
<1>2. W!TypeOK' BY <1>0, <1>1 DEF W!TypeOK, W!CallRecords, W!WorkRecords
<1>3. W!JobsInv' BY <1>0 DEF W!BaseInv, W!JobsInv, W!HasDispatch, W!OutcomeOf, W!IsJobOf
<1>4. W!CallsInv'
  BY <1>0 DEF W!BaseInv, W!CallsInv, W!NextAttempt, W!HasDispatch, W!HasJob, W!IsJobOf
<1>5. W!WorkInv'
  BY <1>0 DEF W!BaseInv, W!WorkInv, W!JobOf, W!RunOf, W!AttemptOf, W!OutcomeOf
<1>6. W!LedgerInv' BY <1>0 DEF W!BaseInv, W!LedgerInv, W!OutcomeOf, W!IsJobOf
<1>7. \A q \in Runs : Exists(q)' <=> Exists(q)
  <2>1. CASE UNCHANGED runs BY <2>1 DEF Exists
  <2>2. CASE W!SetRun(r, st, a)
    <3>1. /\ runs'[r].status = st
          /\ \A q \in Runs \ {r} : runs'[q] = runs[q]
      BY <1>0, <2>2 DEF W!SetRun, W!TypeOK
    <3>2. W!Absent.status # st BY DEF W!Absent, W!Statuses
    <3> QED BY <3>1, <3>2 DEF Exists
  <2> QED BY <2>1, <2>2
<1>8. \A q \in Runs : HasJob(q)' <=> HasJob(q) BY DEF HasJob, W!HasJob, W!IsJobOf
<1>9. \A j \in DOMAIN jobs' : Exists(jobs[j].run)'
  <2>1. ASSUME NEW j \in DOMAIN jobs PROVE runs'[jobs'[j].run] # W!Absent
    <3>1. jobs[j].run \in Runs /\ Exists(jobs[j].run)
      BY <1>0, EngineAssumptions, W!JobFacts DEF RenderInv
    <3> QED BY <1>7, <3>1 DEF Exists
  <2> QED BY <2>1 DEF Exists
<1> QED BY <1>1, <1>2, <1>3, <1>4, <1>5, <1>6, <1>7, <1>8, <1>9 DEF W!BaseInv

(* A step of a callback that saves nothing. *)
LEMMA NothingSaved ==
    ASSUME RenderInv, NEW c \in Callbacks, NEW u \in UpdateRecords,
           updates' = [updates EXCEPT ![c] = u], UpdateOk(c)',
           UNCHANGED <<engineVars, kind, runtimes, asks>>
    PROVE  RenderInv'
<1>0. RenderTypes BY DEF RenderInv
<1>1. /\ updates' \in [Callbacks -> UpdateRecords]
      /\ \A d \in Callbacks \ {c} : updates'[d] = updates[d]
  BY <1>0, UpdateMoves
<1>2. Grows BY EngineIdles DEF Grows, engineVars
<1>3. \A q \in Runs : RowOk(q)' BY <1>2, EngineIdles, RowStays
<1>4. \A g \in Handlers : AskOk(g)' /\ CallOk(g)' BY <1>2, AskStays DEF engineVars
<1>5. \A d \in Callbacks : UpdateOk(d)' BY <1>1, <1>2, UpdateStays
<1>6. RenderTypes' BY <1>0, <1>1 DEF RenderTypes
<1> QED BY <1>3, <1>4, <1>5, <1>6, EngineIdles DEF RenderInv

(* BeginUpdate: the report is accepted, and the runtime stays linked. *)
LEMMA InvByBeginUpdate ==
    ASSUME RenderInv, NEW c \in Callbacks, NEW r \in Runs, NEW status \in Reports,
           BeginUpdate(c, r, status)
    PROVE  RenderInv'
<1>0. /\ RenderTypes /\ runtimes[r] \in RuntimeRecords /\ runtimes[r].linked
      /\ effects[r] > 0 /\ UNCHANGED <<engineVars, kind, runtimes, asks>>
  BY DEF RenderInv, RenderTypes, BeginUpdate
<1>1. PICK rec \in RuntimeRecords : rec = Updated(runtimes[r], status) /\ rec.linked
  BY <1>0, UpdatedTypes
<1>2. PICK u : u = [IdleUpdate EXCEPT !.pc = "readRun", !.runtime = r, !.status = status,
                       !.rec = rec]
  OBVIOUS
<1>3. /\ u \in UpdateRecords /\ u.pc = "readRun" /\ u.runtime = r /\ u.status = status
      /\ u.rec = rec
  BY <1>1, <1>2, IdleUpdateType DEF UpdateRecords
<1>4. updates' = [updates EXCEPT ![c] = u] BY <1>1, <1>2 DEF BeginUpdate
<1>5. updates'[c] = u BY <1>0, <1>3, <1>4, UpdateMoves
<1>6. UpdateOk(c)' BY <1>0, <1>1, <1>3, <1>5 DEF UpdateOk, engineVars
<1> QED BY <1>0, <1>3, <1>4, <1>6, NothingSaved

(* ReadRun: the runtime is linked, so the row is there to be read. *)
LEMMA InvByReadRun ==
    ASSUME RenderInv, NEW c \in Callbacks, ReadRun(c)
    PROVE  RenderInv'
<1>0. /\ RenderTypes /\ UpdateOk(c) /\ updates[c].pc = "readRun"
      /\ updates[c] \in UpdateRecords /\ runs \in [Runs -> W!RunRecords]
      /\ UNCHANGED <<engineVars, kind, runtimes, asks>>
  BY DEF RenderInv, RenderTypes, ReadRun, W!BaseInv, W!TypeOK
<1>1. PICK r \in Runs : /\ r = updates[c].runtime /\ runtimes[r].linked
                        /\ effects[r] > 0
  BY <1>0 DEF UpdateOk
<1>2. PICK status \in Reports : status = updates[c].status BY <1>0 DEF UpdateOk
<1>3. status \in W!Statuses BY ReportsAssumption DEF W!Statuses
<1>4. runs[r] \in [status : W!Statuses, attempt : W!Attempts]
  <2>1. RowOk(r) BY DEF RenderInv
  <2> QED BY <1>0, <1>1, <2>1 DEF RowOk, Exists, W!RunRecords
<1>5. PICK run \in [status : W!Statuses, attempt : W!Attempts] :
         run = [runs[r] EXCEPT !.status = status]
  BY <1>3, <1>4
<1>6. PICK u : u = [updates[c] EXCEPT !.pc = "save", !.run = run] OBVIOUS
<1>7. /\ u \in UpdateRecords /\ u.pc = "save" /\ u.run = run /\ u.runtime = r
      /\ u.status = status /\ u.rec = updates[c].rec
  BY <1>0, <1>1, <1>2, <1>6 DEF UpdateRecords, W!RunRecords
<1>8. updates' = [updates EXCEPT ![c] = u]
  <2>1. updates' = [updates EXCEPT ![c].pc = "save", ![c].run = run]
    BY <1>1, <1>2, <1>5 DEF ReadRun
  <2> QED BY <1>0, <1>6, <2>1 DEF RenderTypes
<1>9. updates'[c] = u BY <1>0, <1>7, <1>8, UpdateMoves
<1>10. UpdateOk(c)' BY <1>0, <1>1, <1>7, <1>9 DEF UpdateOk, engineVars
<1> QED BY <1>0, <1>7, <1>8, <1>10, NothingSaved

(* SaveUpdate: the runtime stays linked, and an audio run is written with it. *)
LEMMA InvBySaveUpdate ==
    ASSUME RenderInv, NEW c \in Callbacks, SaveUpdate(c)
    PROVE  RenderInv'
<1>0. /\ RenderTypes /\ UpdateOk(c) /\ updates[c].pc = "save"
      /\ updates[c] \in UpdateRecords
      /\ UNCHANGED <<steps, jobs, trail, results, effects, call, work, ledger, kind, asks>>
  BY DEF RenderInv, RenderTypes, SaveUpdate
<1>1. PICK r \in Runs : /\ r = updates[c].runtime /\ runtimes[r].linked
                        /\ effects[r] > 0
  BY <1>0 DEF UpdateOk
<1>2. Exists(r) /\ HasJob(r)
  <2>1. RowOk(r) BY DEF RenderInv
  <2> QED BY <1>1, <2>1 DEF RowOk
<1>3. PICK rec \in RuntimeRecords : rec = updates[c].rec /\ rec.linked
  BY <1>0 DEF UpdateOk, UpdateRecords
<1>4. PICK st \in W!Statuses, a \in W!Attempts :
         st = updates[c].run.status /\ a = updates[c].run.attempt
  <2>1. updates[c].run \in [status : W!Statuses, attempt : W!Attempts]
    BY <1>0 DEF UpdateOk
  <2> QED BY <2>1
<1>5. UNCHANGED runs \/ W!SetRun(r, st, a)
  BY <1>1, <1>4 DEF SaveUpdate, SaveRun, Engine!SetRun, W!SetRun
<1>6. /\ W!BaseInv'
      /\ \A j \in DOMAIN jobs' : Exists(jobs[j].run)'
      /\ \A q \in Runs : /\ Exists(q)' <=> Exists(q)
                         /\ HasJob(q)' <=> HasJob(q)
  BY <1>0, <1>2, <1>5, RunSaved
<1>7. /\ runtimes' \in [Runs -> RuntimeRecords]
      /\ runtimes'[r] = rec
      /\ \A q \in Runs \ {r} : runtimes'[q] = runtimes[q]
  BY <1>0, <1>1, <1>3, RuntimeSaved DEF SaveUpdate
<1>8. Grows BY <1>0, <1>3, <1>6, <1>7 DEF Grows
<1>9. /\ updates' \in [Callbacks -> UpdateRecords]
      /\ UpdateOk(c)'
      /\ \A d \in Callbacks \ {c} : updates'[d] = updates[d]
  <2>1. CASE EndUpdate(c) BY <1>0, <2>1, UpdateEnds
  <2>2. CASE updates' = [updates EXCEPT ![c].pc = "saveRun"]
    <3>1. PICK u : u = [updates[c] EXCEPT !.pc = "saveRun"] OBVIOUS
    <3>2. /\ u \in UpdateRecords /\ u.pc = "saveRun" /\ u.run = updates[c].run
          /\ u.runtime = r /\ u.status = updates[c].status /\ u.rec = rec
      BY <1>0, <1>1, <1>3, <3>1 DEF UpdateRecords
    <3>3. updates' = [updates EXCEPT ![c] = u] BY <1>0, <2>2, <3>1 DEF RenderTypes
    <3>4. /\ updates' \in [Callbacks -> UpdateRecords]
          /\ updates'[c] = u
          /\ \A d \in Callbacks \ {c} : updates'[d] = updates[d]
      BY <1>0, <3>2, <3>3, UpdateMoves
    <3>5. UpdateOk(c)' BY <1>0, <1>1, <1>3, <1>7, <3>2, <3>4 DEF UpdateOk
    <3> QED BY <3>4, <3>5
  <2> QED BY <2>1, <2>2 DEF SaveUpdate
<1>10. \A d \in Callbacks : UpdateOk(d)' BY <1>8, <1>9, UpdateStays
<1>11. \A g \in Handlers : AskOk(g)' /\ CallOk(g)' BY <1>0, <1>8, AskStays
<1>12. \A q \in Runs : RowOk(q)'
  <2>1. \A q \in Runs \ {r} : RowOk(q)' BY <1>6, <1>7, <1>8, RowStays
  <2>2. RowOk(r)' BY <1>0, <1>1, <1>2, <1>3, <1>6, <1>7 DEF RowOk
  <2> QED BY <2>1, <2>2
<1>13. RenderTypes' BY <1>0, <1>7, <1>9 DEF RenderTypes
<1> QED BY <1>6, <1>10, <1>11, <1>12, <1>13 DEF RenderInv

(* SavePreviewRun: the run that is overwritten exists. *)
LEMMA InvBySavePreviewRun ==
    ASSUME RenderInv, NEW c \in Callbacks, SavePreviewRun(c)
    PROVE  RenderInv'
<1>0. /\ RenderTypes /\ UpdateOk(c) /\ updates[c].pc = "saveRun" /\ EndUpdate(c)
      /\ UNCHANGED <<steps, jobs, trail, results, effects, call, work, ledger>>
      /\ UNCHANGED <<kind, runtimes, asks>>
  BY DEF RenderInv, SavePreviewRun
<1>1. PICK r \in Runs : r = updates[c].runtime /\ runtimes[r].linked
  BY <1>0 DEF UpdateOk
<1>2. Exists(r)
  <2>1. RowOk(r) BY DEF RenderInv
  <2> QED BY <1>1, <2>1 DEF RowOk
<1>3. PICK st \in W!Statuses, a \in W!Attempts :
         st = updates[c].run.status /\ a = updates[c].run.attempt
  <2>1. updates[c].run \in [status : W!Statuses, attempt : W!Attempts]
    BY <1>0 DEF UpdateOk
  <2> QED BY <2>1
<1>4. W!SetRun(r, st, a)
  BY <1>1, <1>3 DEF SavePreviewRun, SaveRun, Engine!SetRun, W!SetRun
<1>5. /\ W!BaseInv'
      /\ \A j \in DOMAIN jobs' : Exists(jobs[j].run)'
      /\ \A q \in Runs : /\ Exists(q)' <=> Exists(q)
                         /\ HasJob(q)' <=> HasJob(q)
  BY <1>0, <1>2, <1>4, RunSaved
<1>6. Grows BY <1>0, <1>5 DEF Grows
<1>7. /\ updates' \in [Callbacks -> UpdateRecords]
      /\ \A d \in Callbacks : UpdateOk(d)'
  BY <1>0, <1>6, UpdateEnds, UpdateStays
<1>8. \A g \in Handlers : AskOk(g)' /\ CallOk(g)' BY <1>0, <1>6, AskStays
<1>9. \A q \in Runs : RowOk(q)' BY <1>0, <1>5, <1>6, RowStays
<1>10. RenderTypes' BY <1>0, <1>7 DEF RenderTypes
<1> QED BY <1>5, <1>7, <1>8, <1>9, <1>10 DEF RenderInv

-----------------------------------------------------------------------------
(* The initial states satisfy RenderInv, every step keeps it, and so does none. *)
LEMMA InitRenderInv == Init => RenderInv
<1> SUFFICES ASSUME Init PROVE RenderInv OBVIOUS
<1>1. W!Init BY SameInit DEF Init
<1>2. W!BaseInv BY <1>1, EngineAssumptions, W!InitIndInv DEF W!IndInv
<1>3. /\ \A r \in Runs : runs[r] = W!Absent
      /\ DOMAIN jobs = {}
      /\ \A h \in Handlers : call[h] = W!IdleCall
  BY <1>1 DEF W!Init
<1>4. RenderTypes
  <2>1. IdleAsk \in AskRecords
    BY DEF IdleAsk, AskRecords, AskPCs, NoRuntime, RuntimeRecords
  <2> QED BY <2>1, IdleUpdateType, RuntimeTypes DEF Init, RenderTypes
<1>5. \A r \in Runs : RowOk(r) BY <1>3 DEF Init, RowOk, NoRuntime, Exists
<1>6. \A h \in Handlers : AskOk(h) /\ CallOk(h)
  BY <1>3 DEF Init, AskOk, IdleAsk, CallOk, Starts, W!IdleCall, W!Queueing
<1>7. \A c \in Callbacks : UpdateOk(c) BY DEF Init, UpdateOk, IdleUpdate
<1> QED BY <1>2, <1>3, <1>4, <1>5, <1>6, <1>7 DEF RenderInv

(* Stuttering preserves RenderInv. *)
LEMMA RenderStutters == RenderInv /\ UNCHANGED vars => RenderInv'
<1> SUFFICES ASSUME RenderInv, UNCHANGED vars PROVE RenderInv' OBVIOUS
<1>0. UNCHANGED engineVars /\ UNCHANGED <<kind, runtimes, asks, updates>>
  BY DEF vars, renderVars
<1>1. Grows BY <1>0, EngineIdles DEF Grows, engineVars
<1>2. \A q \in Runs : RowOk(q)' BY <1>0, <1>1, EngineIdles, RowStays
<1>3. \A g \in Handlers : AskOk(g)' /\ CallOk(g)' BY <1>0, <1>1, AskStays DEF engineVars
<1>4. \A c \in Callbacks : UpdateOk(c)' BY <1>0, <1>1, UpdateStays
<1>5. RenderTypes' BY <1>0 DEF RenderInv, RenderTypes
<1> QED BY <1>0, <1>2, <1>3, <1>4, <1>5, EngineIdles DEF RenderInv

(* Every step preserves RenderInv. *)
LEMMA NextKeeps == RenderInv /\ [Next]_vars => RenderInv'
<1> SUFFICES ASSUME RenderInv, [Next]_vars PROVE RenderInv' OBVIOUS
<1>1. CASE \E h \in Handlers, r \in Runs : FindRuntime(h, r) BY <1>1, InvByFind
<1>2. CASE \E h \in Handlers : AskStep(h)
  BY <1>2, InvByCreate, InvByStartPreview, InvByStarting, InvBySave, InvByStartAudio
  DEF AskStep
<1>3. CASE \E h \in Handlers : EngineCallStep(h) \/ \E r \in Runs : BeginEngineCall(h, r)
  BY <1>3, InvByEngineCall
<1>4. CASE \E w \in Workers : Working(w) BY <1>4, InvByWorking
<1>5. CASE \E c \in Callbacks, r \in Runs, status \in Reports : BeginUpdate(c, r, status)
  BY <1>5, InvByBeginUpdate
<1>6. CASE \E c \in Callbacks : UpdateStep(c)
  BY <1>6, InvByReadRun, InvBySaveUpdate, InvBySavePreviewRun DEF UpdateStep
<1>7. CASE UNCHANGED vars BY <1>7, RenderStutters
<1> QED BY <1>1, <1>2, <1>3, <1>4, <1>5, <1>6, <1>7 DEF Next

(* The inductive invariant holds in every state, for every number of runs, requests,
   workers, callbacks and attempts, and every choice of calls, faults and reports. *)
THEOREM RenderInvariance == Spec => []RenderInv
<1> QED BY InitRenderInv, NextKeeps, PTL DEF Spec

(* The rows of the engine and of the runtimes, and what requests and callbacks hold in
   memory of them, always have their types. *)
THEOREM RenderTyped == Spec => []TypeOK
<1>1. RenderInv => TypeOK
  BY SameRows
  DEF RenderInv, W!BaseInv, TypeOK, RenderTypes, AskRecords, AskPCs, UpdateRecords
<1> QED BY <1>1, RenderInvariance, PTL

(* A runtime that left idle refers to a run with its row and the job of its first
   attempt, and has output only where a provider call took effect: whatever requests,
   retries, cancels and callbacks race, RequestPreviewRender never marks a runtime queued
   for a run that was not queued completely. *)
THEOREM RenderHasJob == Spec => []QueuedRenderHasJob
<1>1. RenderInv => QueuedRenderHasJob
  <2> SUFFICES ASSUME RenderInv, NEW r \in Runs
               PROVE  /\ runtimes[r].status \notin {"none", "idle"} =>
                            /\ runtimes[r].linked
                            /\ runs[r] # Engine!Absent
                            /\ Engine!JobOfAttempt(r, 1) # {}
                      /\ runtimes[r].output => effects[r] > 0
    BY DEF QueuedRenderHasJob
  <2>1. RowOk(r) BY DEF RenderInv
  <2>2. HasJob(r) => Engine!JobOfAttempt(r, 1) # {}
    BY DEF HasJob, W!HasJob, W!IsJobOf, Engine!JobOfAttempt
  <2> QED BY <2>1, <2>2, SameRows DEF RowOk, Exists
<1> QED BY <1>1, RenderInvariance, PTL

(* An audio run is never without its runtime: RequestAudioRender saves both in one
   transaction and no callback takes the link away. *)
THEOREM AudioLinked == Spec => []AudioRunIsLinked
<1>1. RenderInv => AudioRunIsLinked
  BY SameRows DEF RenderInv, RowOk, Exists, AudioRunIsLinked
<1> QED BY <1>1, RenderInvariance, PTL

(* An attempt has one job, although audio requests insert jobs of their own and callbacks
   rewrite the status and the attempt of the run that retries start from. *)
THEOREM RenderJobsUnique == Spec => []OneJobPerAttempt
<1>1. RenderInv => OneJobPerAttempt
  BY DEF RenderInv, W!BaseInv, W!JobsInv, W!HasDispatch, W!IsJobOf, OneJobPerAttempt,
     Engine!OneJobPerAttempt, Engine!StepsOf
<1> QED BY <1>1, RenderInvariance, PTL

(* No attempt that was executed is executed again, whatever status callbacks write back
   while its worker runs and whoever retries from there. *)
THEOREM RunsExecutedOnce == Spec => ExecutedOnce
<1> DEFINE Once == \A r \in Runs : \A a \in Engine!Attempts :
                      ledger[r][a] \notin {"none", "executing"} =>
                         ledger'[r][a] # "executing"
<1>1. ASSUME RenderInv, [Next]_vars PROVE Once \/ UNCHANGED ledger
  <2>1. ASSUME NEW w \in Workers, Working(w) PROVE Once \/ UNCHANGED ledger
    <3>1. W!WorkStep(w) /\ W!TypeOK /\ W!WorkInv
      BY <1>1, <2>1, SameWork DEF Working, W!WorkStep, RenderInv, W!BaseInv
    <3>2. CASE ~ UNCHANGED ledger
      <4>1. PICK from \in {"none", "executing"},
                 to \in {"executing"} \cup W!Contract!Ends : W!LedgerMove(w, from, to)
        BY <3>1, <3>2, EngineAssumptions, W!WorkerLedger
      <4>2. work[w].pc # "idle"
        BY <3>1, <3>2, EngineAssumptions, W!WorkerLedger DEF W!LookUpResult, W!Executing
      <4>3. \A r \in Runs, a \in W!Attempts :
               ledger'[r][a] = IF r = W!RunOf(w) /\ a = W!JobOf(w).attempt
                                 THEN to ELSE ledger[r][a]
        BY <3>1, <4>1, <4>2, EngineAssumptions, W!LedgerPoint
      <4>4. ledger[W!RunOf(w)][W!JobOf(w).attempt] = from
        BY <4>1 DEF W!LedgerMove, W!OutcomeOf
      <4> QED BY <4>3, <4>4, SameRows
    <3> QED BY <3>2
  <2>2. ASSUME NEW h \in Handlers, W!CallStep(h) PROVE UNCHANGED ledger
    BY <1>1, <2>2, CallGrows
  <2>3. ASSUME NEW h \in Handlers, AskStep(h) PROVE UNCHANGED ledger
    <3>1. CASE CreateRuntime(h) \/ SavePreview(h) \/ StartAudio(h)
      BY <3>1 DEF CreateRuntime, SavePreview, StartAudio, engineVars
    <3>2. CASE StartPreview(h)
      <4>1. W!BeginStart(h, asks[h].runtime) /\ asks[h].runtime \in Runs
        BY <1>1, <3>2, SameBegin DEF StartPreview, RenderInv, AskOk
      <4> QED BY <2>2, <4>1 DEF W!CallStep
    <3>3. CASE StartingPreview(h)
      <4>1. W!HandlerStep(h) BY <3>3, SameQueueing DEF StartingPreview, W!HandlerStep
      <4> QED BY <2>2, <4>1 DEF W!CallStep
    <3> QED BY <2>3, <3>1, <3>2, <3>3 DEF AskStep
  <2>4. ASSUME NEW h \in Handlers,
               EngineCallStep(h) \/ \E r \in Runs : BeginEngineCall(h, r)
        PROVE  UNCHANGED ledger
    <3>1. \/ W!HandlerStep(h)
          \/ \E r \in Runs : W!BeginRetry(h, r) \/ W!BeginCancel(h, r)
      BY <2>4, SameHandlerStep, SameBegin DEF EngineCallStep, BeginEngineCall
    <3> QED BY <2>2, <3>1 DEF W!CallStep
  <2>5. CASE \/ \E h \in Handlers, r \in Runs : FindRuntime(h, r)
             \/ \E c \in Callbacks :
                   \/ \E r \in Runs, status \in Reports : BeginUpdate(c, r, status)
                   \/ UpdateStep(c)
             \/ UNCHANGED vars
    BY <2>5
    DEF FindRuntime, BeginUpdate, UpdateStep, ReadRun, SaveUpdate, SavePreviewRun,
        engineVars, vars
  <2> QED BY <1>1, <2>1, <2>3, <2>4, <2>5 DEF Next
<1> QED BY <1>1, RenderInvariance, PTL DEF Spec, ExecutedOnce
=============================================================================
