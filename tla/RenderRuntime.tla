---------------------------- MODULE RenderRuntime ----------------------------
(***************************************************************************)
(* Preview and audio renders on top of the workflow engine.  A request     *)
(* finds or creates the runtime of its scope, starts a workflow run for it *)
(* and marks it queued; the renderer reports progress later, out of band,  *)
(* and that callback writes the runtime and the workflow row.  The two     *)
(* kinds differ in one thing: an audio request and an audio callback save  *)
(* what they save in one transaction, a preview saves row by row.          *)
(* The idempotency key of a render is made of its type and its runtime, so *)
(* a runtime has one workflow run ever: Runs names both.                   *)
(***************************************************************************)
EXTENDS Naturals, Sequences, FiniteSets

CONSTANTS
    Runs, Handlers, Workers, MaxAttempts, Calls, Faults, None,
    Callbacks, \* callback requests that can be in progress at once
    Reports    \* what the renderer reports

ASSUME ReportsAssumption == Reports \subseteq {"running", "completed", "failed"}
ASSUME EngineAssumptions == \* those of WorkflowEngine
    /\ MaxAttempts \in Nat \ {0}
    /\ Calls \subseteq {"start", "retry", "cancel"}
    /\ Faults \subseteq {"abort", "read", "gatewaySave"}

VARIABLES
    runs, steps, jobs, trail, results, effects, call, work, ledger,
    kind,      \* whether a runtime is for a preview or for audio
    runtimes,  \* tables preview_runtimes and audio_runtimes
    asks,      \* render requests, on top of what call holds
    updates    \* what each callback holds in memory

Engine == INSTANCE WorkflowEngine

engineVars == <<runs, steps, jobs, trail, results, effects, call, work, ledger>>
renderVars == <<kind, runtimes, asks, updates>>
vars == <<engineVars, renderVars>>

(* linked: render_workflow_run_id names the run; output: playback, export or *)
(* mix is set.                                                               *)
NoRuntime == [status |-> "none", linked |-> FALSE, output |-> FALSE]
NewRuntime == [NoRuntime EXCEPT !.status = "idle"]
IdleAsk    == [pc |-> "idle", runtime |-> None, rec |-> NoRuntime]
IdleUpdate == [pc |-> "idle", runtime |-> None, status |-> "none",
               rec |-> NoRuntime, run |-> Engine!Absent]

InFlight(rec) == rec.status \in {"queued", "running"}

Init ==
    /\ Engine!Init
    /\ kind \in [Runs -> {"preview", "audio"}]
    /\ runtimes = [r \in Runs |-> NoRuntime]
    /\ asks = [h \in Handlers |-> IdleAsk]
    /\ updates = [c \in Callbacks |-> IdleUpdate]

SaveRuntime(r, rec) == runtimes' = [runtimes EXCEPT ![r] = rec]

Queued(rec) ==
    [rec EXCEPT !.status = "queued", !.linked = TRUE, !.output = FALSE]

-----------------------------------------------------------------------------
(* RequestPreviewRender and RequestAudioRender.                            *)

Leave(h) == asks' = [asks EXCEPT ![h] = IdleAsk]
Hold(h, r, pc, rec) ==
    asks' = [asks EXCEPT ![h] = [pc |-> pc, runtime |-> r, rec |-> rec]]

(* A render in flight refuses another request; the check is of the record   *)
(* read here.                                                               *)
Proceed(h, r, rec) ==
    IF InFlight(rec) THEN Leave(h) ELSE Hold(h, r, "start", rec)

FindRuntime(h, r) ==
    /\ asks[h] = IdleAsk
    /\ call[h] = Engine!IdleCall
    /\ IF runtimes[r] = NoRuntime THEN Hold(h, r, "create", NewRuntime)
                                  ELSE Proceed(h, r, runtimes[r])
    /\ UNCHANGED <<engineVars, kind, runtimes, updates>>

(* One row for a scope: who inserts second uses the row that is there. *)
CreateRuntime(h) ==
    LET r == asks[h].runtime
    IN  /\ asks[h].pc = "create"
        /\ IF runtimes[r] = NoRuntime
             THEN /\ SaveRuntime(r, NewRuntime)
                  /\ Proceed(h, r, NewRuntime)
             ELSE /\ Proceed(h, r, runtimes[r])
                  /\ UNCHANGED runtimes
        /\ UNCHANGED <<engineVars, kind, updates>>

(* A preview starts its workflow statement by statement and saves the       *)
(* runtime last ...                                                         *)
StartPreviewSavingFirst(h) ==
    LET r == asks[h].runtime
    IN  /\ asks[h].pc = "start"
        /\ kind[r] = "preview"
        /\ Engine!BeginStart(h, r)
        /\ SaveRuntime(r, Queued(asks[h].rec))
        /\ Hold(h, r, "starting", asks[h].rec)
        /\ UNCHANGED <<kind, updates>>
StartPreview(h) ==
    LET r == asks[h].runtime
    IN  /\ asks[h].pc = "start"
        /\ kind[r] = "preview"
        /\ Engine!BeginStart(h, r)
        /\ Hold(h, r, "starting", asks[h].rec)
        /\ UNCHANGED <<kind, runtimes, updates>>

StartingPreview(h) ==
    /\ asks[h].pc = "starting"
    /\ \/ Engine!SaveQueuedRun(h) \/ Engine!LogQueued(h)
       \/ Engine!SaveDispatchStep(h) \/ Engine!EnqueueJob(h)
    /\ CASE call[h].pc = "enqueue" ->
              Hold(h, asks[h].runtime, "save", asks[h].rec)
         [] call[h].pc # "enqueue" /\ call'[h] = Engine!IdleCall -> Leave(h)
         [] OTHER -> UNCHANGED asks
    /\ UNCHANGED <<kind, runtimes, updates>>

SavePreview(h) ==
    /\ asks[h].pc = "save"
    /\ SaveRuntime(asks[h].runtime, Queued(asks[h].rec))
    /\ Leave(h)
    /\ UNCHANGED <<engineVars, kind, updates>>

(* ... audio saves runtime, run, transition, dispatch step and job at once, *)
(* or nothing when the idempotency key is taken.                            *)
StartAudioBeforeSaving(h) ==
    LET r == asks[h].runtime
        step == Engine!Step(r, 1, "dispatch", 1, "completed")
    IN  /\ asks[h].pc = "start"
        /\ kind[r] = "audio"
        /\ runs[r] = Engine!Absent
        /\ Engine!SetRun(r, "pending", 1)
        /\ Engine!Log(r, "none", "pending")
        /\ steps' = steps \cup {step}
        /\ jobs' = Append(jobs, [run |-> r, attempt |-> 1, status |-> "pending"])
        /\ Hold(h, r, "save", asks[h].rec)
        /\ UNCHANGED <<runtimes, results, effects, call, work, ledger, kind,
                       updates>>
StartAudio(h) ==
    LET r == asks[h].runtime
        step == Engine!Step(r, 1, "dispatch", Engine!FixedOrder(1, "dispatch"),
                            "completed")
    IN  /\ asks[h].pc = "start"
        /\ kind[r] = "audio"
        /\ IF runs[r] = Engine!Absent /\ Engine!CanInsert(step)
             THEN /\ SaveRuntime(r, Queued(asks[h].rec))
                  /\ Engine!SetRun(r, "pending", 1)
                  /\ Engine!Log(r, "none", "pending")
                  /\ steps' = steps \cup {step}
                  /\ jobs' = Append(jobs, [run |-> r, attempt |-> 1,
                                           status |-> "pending"])
             ELSE UNCHANGED <<runtimes, runs, trail, steps, jobs>>
        /\ Leave(h)
        /\ UNCHANGED <<results, effects, call, work, ledger, kind, updates>>

-----------------------------------------------------------------------------
(* ApplyPreviewRenderUpdate and ApplyAudioRenderUpdate.  The renderer is    *)
(* outside: once a provider call took effect it may report anything, in any *)
(* order and more than once.  A report for a runtime that is not linked to  *)
(* its run is refused.                                                      *)

UpdatedReady(rec, status) ==
    [rec EXCEPT !.status = IF status = "completed" THEN "ready" ELSE status,
                !.output = (status = "completed") \/ @]
Updated(rec, status) ==
    [rec EXCEPT !.status = status,
                !.output = (status = "completed") \/ @]

BeginUpdate(c, r, status) ==
    /\ updates[c] = IdleUpdate
    /\ effects[r] > 0
    /\ runtimes[r].linked
    /\ updates' = [updates EXCEPT ![c] =
                     [IdleUpdate EXCEPT !.pc = "readRun", !.runtime = r,
                        !.status = status, !.rec = Updated(runtimes[r], status)]]
    /\ UNCHANGED <<engineVars, kind, runtimes, asks>>

ReadRun(c) ==
    LET r == updates[c].runtime
    IN  /\ updates[c].pc = "readRun"
        /\ updates' = [updates EXCEPT ![c].pc = "save",
                         ![c].run = [runs[r] EXCEPT !.status = updates[c].status]]
        /\ UNCHANGED <<engineVars, kind, runtimes, asks>>

SaveRun(c) ==
    Engine!SetRun(updates[c].runtime, updates[c].run.status,
                  updates[c].run.attempt)

EndUpdate(c) == updates' = [updates EXCEPT ![c] = IdleUpdate]

SaveUpdate(c) ==
    LET r == updates[c].runtime
    IN  /\ updates[c].pc = "save"
        /\ SaveRuntime(r, updates[c].rec)
        /\ IF kind[r] = "audio"
             THEN SaveRun(c) /\ EndUpdate(c)
             ELSE /\ updates' = [updates EXCEPT ![c].pc = "saveRun"]
                  /\ UNCHANGED runs
        /\ UNCHANGED <<steps, jobs, trail, results, effects, call, work, ledger,
                       kind, asks>>

SavePreviewRun(c) ==
    /\ updates[c].pc = "saveRun"
    /\ SaveRun(c)
    /\ EndUpdate(c)
    /\ UNCHANGED <<steps, jobs, trail, results, effects, call, work, ledger,
                   kind, runtimes, asks>>

UpdateStep(c) == ReadRun(c) \/ SaveUpdate(c) \/ SavePreviewRun(c)

-----------------------------------------------------------------------------
(* The engine at work: retries and cancels by clients, and the workers.    *)

AskStep(h) ==
    \/ CreateRuntime(h) \/ StartPreview(h) \/ StartingPreview(h)
    \/ SavePreview(h) \/ StartAudio(h)

BeginEngineCall(h, r) ==
    /\ asks[h] = IdleAsk
    /\ Engine!BeginRetry(h, r) \/ Engine!BeginCancel(h, r)
    /\ UNCHANGED renderVars

EngineCallStep(h) ==
    /\ asks[h] = IdleAsk
    /\ Engine!HandlerStep(h)
    /\ UNCHANGED renderVars

Working(w) ==
    /\ Engine!ClaimJob(w) \/ Engine!WorkerStep(w)
    /\ UNCHANGED renderVars

Next ==
    \/ \E h \in Handlers :
          \/ \E r \in Runs : FindRuntime(h, r) \/ BeginEngineCall(h, r)
          \/ AskStep(h)
          \/ EngineCallStep(h)
    \/ \E w \in Workers : Working(w)
    \/ \E c \in Callbacks :
          \/ \E r \in Runs, status \in Reports : BeginUpdate(c, r, status)
          \/ UpdateStep(c)

Spec == Init /\ [][Next]_vars

(* Requests that are served, workers that poll and callbacks that arrived    *)
(* keep going, and clients ask for and retry a failed render again and again.*)
Persistence ==
    /\ \A h \in Handlers :
          /\ WF_vars(AskStep(h) \/ EngineCallStep(h))
          /\ \A r \in Runs :
                /\ SF_vars(FindRuntime(h, r) /\ ~InFlight(runtimes[r]))
                /\ SF_vars(BeginEngineCall(h, r))
    /\ \A w \in Workers : WF_vars(Working(w))
    /\ \A c \in Callbacks : WF_vars(UpdateStep(c))

FairSpec == Spec /\ Persistence

-----------------------------------------------------------------------------
(* Properties. *)

RuntimeRecords == [status : {"none", "idle", "queued"} \cup Reports,
                   linked : BOOLEAN, output : BOOLEAN]

(* Type invariant of what renders add to the engine. *)
TypeOK ==
    /\ Engine!TypeOK
    /\ kind \in [Runs -> {"preview", "audio"}]
    /\ runtimes \in [Runs -> RuntimeRecords]
    /\ asks \in [Handlers ->
                   [pc : {"idle", "create", "start", "starting", "save"},
                    runtime : Runs \cup {None}, rec : RuntimeRecords]]
    /\ updates \in [Callbacks ->
                      [pc : {"idle", "readRun", "save", "saveRun"},
                       runtime : Runs \cup {None}, status : Reports \cup {"none"},
                       rec : RuntimeRecords, run : Engine!RunRecords]]

(* A runtime that left idle refers to a run that was queued completely: row, *)
(* dispatch step and job are there, so a worker will come by; and output     *)
(* exists only where a provider call took effect.                            *)
QueuedRenderHasJob ==
    \A r \in Runs :
        /\ runtimes[r].status \notin {"none", "idle"} =>
              /\ runtimes[r].linked
              /\ runs[r] # Engine!Absent
              /\ Engine!JobOfAttempt(r, 1) # {}
        /\ runtimes[r].output => effects[r] > 0

(* An audio run is never without its runtime: whatever request races with   *)
(* it or stops, the run's callbacks are accepted.                           *)
AudioRunIsLinked ==
    \A r \in Runs :
        kind[r] = "audio" /\ runs[r] # Engine!Absent => runtimes[r].linked

(* Callbacks rewrite the status and the attempt of a run at will, but they  *)
(* queue nothing: an attempt still has one job, and no executed attempt is  *)
(* executed again.                                                          *)
OneJobPerAttempt == Engine!OneJobPerAttempt
ExecutedOnce ==
    [][\A r \in Runs : \A a \in Engine!Attempts :
          ledger[r][a] \notin {"none", "executing"} =>
             ledger'[r][a] # "executing"]_ledger

(* A failed render can be rendered again: a client that keeps asking and    *)
(* retrying gets it out of "failed", while the model leaves it attempts.    *)
FailedRenderRecovers ==
    \A r \in Runs :
        runtimes[r].status = "failed" ~>
            runtimes[r].status # "failed" \/ runs[r].attempt = MaxAttempts
=============================================================================
