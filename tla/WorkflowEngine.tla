--------------------------- MODULE WorkflowEngine ---------------------------
(***************************************************************************)
(* The workflow engine of the backend: the API process starts, retries and *)
(* cancels workflow runs, worker processes claim jobs and call the model   *)
(* gateway, and they meet only in PostgreSQL.  No transaction spans two    *)
(* statements, every save writes the whole row it read earlier, and a read *)
(* that fails looks like a missing row: each statement is an action.       *)
(* The runs are those whose rows only the workflow service writes; render  *)
(* runs, which callbacks write too, are the subject of RenderRuntime.      *)
(***************************************************************************)
EXTENDS Naturals, Sequences, FiniteSets

CONSTANTS
    Runs,         \* workflow runs, one for each idempotency key
    Handlers,     \* API requests that can be in progress at once
    Workers,      \* worker processes
    MaxAttempts,  \* bound on the attempts of a run
    Calls,        \* the API calls clients make
    Faults,       \* what can go wrong beside provider errors
    None          \* no run

ASSUME MaxAttemptsAssumption == MaxAttempts \in Nat \ {0}
ASSUME CallsAssumption  == Calls \subseteq {"start", "retry", "cancel"}
ASSUME FaultsAssumption == Faults \subseteq {"abort", "read", "gatewaySave"}

VARIABLES
    runs,     \* table workflow_runs: status and attempt_count
    steps,    \* table workflow_steps
    jobs,     \* table jobs, in the order of insertion; the index is the id
    trail,    \* table state_transitions: the newest (from, to) row of each run
    results,  \* the gateway results saved under the run's idempotency key
    effects,  \* provider calls that took effect, for each run
    call,     \* what each API request holds in memory
    work,     \* what each worker holds in memory
    ledger    \* history: what became of executing each attempt

vars == <<runs, steps, jobs, trail, results, effects, call, work, ledger>>

Attempts == 1 .. MaxAttempts
Statuses == {"pending", "running", "completed", "failed", "cancelled"}
Open     == {"pending", "running"}

(* The row a lookup of a missing run yields. *)
Absent == [status |-> "none", attempt |-> 0]

IdleCall == [pc |-> "idle", run |-> None, rec |-> Absent, todo |-> {},
             order |-> 0]
IdleWork == [pc |-> "idle", job |-> 0, rec |-> Absent, result |-> "none",
             seen |-> "none"]

Init ==
    /\ runs    = [r \in Runs |-> Absent]
    /\ steps   = {}
    /\ jobs    = <<>>
    /\ trail   = [r \in Runs |-> <<"none", "none">>]
    /\ results = [r \in Runs |-> FALSE]
    /\ effects = [r \in Runs |-> 0]
    /\ call    = [h \in Handlers |-> IdleCall]
    /\ work    = [w \in Workers |-> IdleWork]
    /\ ledger  = [r \in Runs |-> [a \in Attempts |-> "none"]]

-----------------------------------------------------------------------------
(* The database as the service sees it. *)

(* A query that fails is reported as an empty answer. *)
Reads(answer, empty) ==
    {answer} \cup (IF "read" \in Faults THEN {empty} ELSE {})

StepsOf(r) == {s \in steps : s.run = r}

FixedOrder(a, suffix) == 2 * (a - 1) + (IF suffix = "dispatch" THEN 1 ELSE 2)

Step(r, a, suffix, order, status) ==
    [run |-> r, attempt |-> a, suffix |-> suffix, order |-> order,
     status |-> status]

SameKey(s, t) == s.run = t.run /\ s.attempt = t.attempt /\ s.suffix = t.suffix

(* The unique indexes on (run, step_key) and on (run, step_order). *)
CanInsertNoIndex(s) == TRUE
CanInsert(s) == \A t \in StepsOf(s.run) : ~SameKey(s, t) /\ t.order # s.order

(* An upsert by id of a step that exists. *)
WithStep(s) == {t \in steps : ~SameKey(s, t)} \cup {s}

HasStep(seen, a, suffix) == \E s \in seen : s.attempt = a /\ s.suffix = suffix

OpenGatewayStep(seen, a) ==
    \E s \in seen : s.attempt = a /\ s.suffix = "gateway" /\ s.status \in Open

(* Where a cancel step goes: behind the last step of its attempt. *)
CancelOrders(seen, a) ==
    LET own == {s \in seen : s.attempt = a}
    IN  IF own = {} THEN {FixedOrder(a, "cancel")}
        ELSE {s.order + 1 : s \in {t \in own : \A u \in own : u.order <= t.order}}

SetJob(j, status) == jobs' = [jobs EXCEPT ![j].status = status]
SetRun(r, status, a) ==
    runs' = [runs EXCEPT ![r] = [status |-> status, attempt |-> a]]
Log(r, from, to) == trail' = [trail EXCEPT ![r] = <<from, to>>]

-----------------------------------------------------------------------------
(* API requests. *)

Go(h, pc)  == call' = [call EXCEPT ![h].pc = pc]
Return(h)  == call' = [call EXCEPT ![h] = IdleCall]
Accept(h, pc, r, rec) ==
    call' = [call EXCEPT ![h] = [IdleCall EXCEPT !.pc = pc, !.run = r,
                                                 !.rec = rec]]

(* What the policy service lets through. *)
RetryAllowedUnlessCompleted(rec) == rec.status \in {"failed", "running"}
RetryAllowed(rec)  == rec.status = "failed"
CancelAllowed(rec) == rec.status \in Open

(* A request whose guard refuses it returns an error and changes nothing. *)
BeginStart(h, r) ==
    /\ "start" \in Calls
    /\ call[h] = IdleCall
    /\ Accept(h, "saveRun", r, Absent)
    /\ UNCHANGED <<runs, steps, jobs, trail, results, effects, work, ledger>>

BeginRetry(h, r) ==
    /\ "retry" \in Calls
    /\ call[h] = IdleCall
    /\ RetryAllowed(runs[r])
    /\ runs[r].attempt < MaxAttempts
    /\ Accept(h, "saveRun", r, runs[r])
    /\ UNCHANGED <<runs, steps, jobs, trail, results, effects, work, ledger>>

BeginCancel(h, r) ==
    /\ "cancel" \in Calls
    /\ call[h] = IdleCall
    /\ CancelAllowed(runs[r])
    /\ Accept(h, "listJobs", r, runs[r])
    /\ UNCHANGED <<runs, steps, jobs, trail, results, effects, work, ledger>>

(* Start inserts a new row and meets the unique index on idempotency_key;  *)
(* retry overwrites the row with the record it read, one attempt further.  *)
SaveQueuedRun(h) ==
    LET r == call[h].run
        rec == call[h].rec
    IN  /\ call[h].pc = "saveRun"
        /\ IF rec = Absent /\ runs[r] # Absent
             THEN /\ Return(h)
                  /\ UNCHANGED runs
             ELSE /\ SetRun(r, "pending", rec.attempt + 1)
                  /\ Go(h, "logQueued")
        /\ UNCHANGED <<steps, jobs, trail, results, effects, work, ledger>>

LogQueued(h) ==
    /\ call[h].pc = "logQueued"
    /\ Log(call[h].run, call[h].rec.status, "pending")
    /\ Go(h, "dispatch")
    /\ UNCHANGED <<runs, steps, jobs, results, effects, work, ledger>>

SaveDispatchStep(h) ==
    LET a == call[h].rec.attempt + 1
        s == Step(call[h].run, a, "dispatch", FixedOrder(a, "dispatch"),
                  "completed")
    IN  /\ call[h].pc = "dispatch"
        /\ IF CanInsert(s)
             THEN /\ steps' = steps \cup {s}
                  /\ Go(h, "enqueue")
             ELSE /\ Return(h)
                  /\ UNCHANGED steps
        /\ UNCHANGED <<runs, jobs, trail, results, effects, work, ledger>>

EnqueueJobStaleAttempt(h) ==
    /\ call[h].pc = "enqueue"
    /\ jobs' = Append(jobs, [run |-> call[h].run,
                             attempt |-> call[h].rec.attempt,
                             status |-> "pending"])
    /\ Return(h)
    /\ UNCHANGED <<runs, steps, trail, results, effects, work, ledger>>
EnqueueJob(h) ==
    /\ call[h].pc = "enqueue"
    /\ jobs' = Append(jobs, [run |-> call[h].run,
                             attempt |-> call[h].rec.attempt + 1,
                             status |-> "pending"])
    /\ Return(h)
    /\ UNCHANGED <<runs, steps, trail, results, effects, work, ledger>>

(* CancelWorkflowRun: the open jobs it listed, one save each ... *)
ListOpenJobs(h) ==
    /\ call[h].pc = "listJobs"
    /\ \E seen \in Reads({j \in DOMAIN jobs : /\ jobs[j].run = call[h].run
                                              /\ jobs[j].status \in Open}, {}) :
          call' = [call EXCEPT ![h].pc = "cancelJobs", ![h].todo = seen]
    /\ UNCHANGED <<runs, steps, jobs, trail, results, effects, work, ledger>>

CancelOneJob(h) ==
    /\ call[h].pc = "cancelJobs"
    /\ \E j \in call[h].todo :
          /\ SetJob(j, "cancelled")
          /\ call' = [call EXCEPT ![h].todo = @ \ {j}]
    /\ UNCHANGED <<runs, steps, trail, results, effects, work, ledger>>

(* ... then the gateway step of the attempt it read, if that is open ... *)
FindOpenGatewayStep(h) ==
    /\ call[h].pc = "cancelJobs"
    /\ call[h].todo = {}
    /\ \E seen \in Reads(StepsOf(call[h].run), {}) :
          Go(h, IF OpenGatewayStep(seen, call[h].rec.attempt)
                  THEN "cancelStep" ELSE "findCancelStep")
    /\ UNCHANGED <<runs, steps, jobs, trail, results, effects, work, ledger>>

GatewayStep(r, a, status) ==
    Step(r, a, "gateway", FixedOrder(a, "gateway"), status)

CancelGatewayStep(h) ==
    /\ call[h].pc = "cancelStep"
    /\ steps' = WithStep(GatewayStep(call[h].run, call[h].rec.attempt,
                                     "cancelled"))
    /\ Go(h, "findCancelStep")
    /\ UNCHANGED <<runs, jobs, trail, results, effects, work, ledger>>

(* ... then a cancel step, unless the attempt has one ... *)
FindCancelStep(h) ==
    /\ call[h].pc = "findCancelStep"
    /\ \E seen \in Reads(StepsOf(call[h].run), {}) :
          Go(h, IF HasStep(seen, call[h].rec.attempt, "cancel")
                  THEN "saveCancelled" ELSE "orderCancelStep")
    /\ UNCHANGED <<runs, steps, jobs, trail, results, effects, work, ledger>>

OrderCancelStep(h) ==
    /\ call[h].pc = "orderCancelStep"
    /\ \E seen \in Reads(StepsOf(call[h].run), {}) :
          \E o \in CancelOrders(seen, call[h].rec.attempt) :
             call' = [call EXCEPT ![h].pc = "insertCancelStep", ![h].order = o]
    /\ UNCHANGED <<runs, steps, jobs, trail, results, effects, work, ledger>>

InsertCancelStep(h) ==
    LET s == Step(call[h].run, call[h].rec.attempt, "cancel", call[h].order,
                  "completed")
    IN  /\ call[h].pc = "insertCancelStep"
        /\ IF CanInsert(s)
             THEN /\ steps' = steps \cup {s}
                  /\ Go(h, "saveCancelled")
             ELSE /\ Return(h)
                  /\ UNCHANGED steps
        /\ UNCHANGED <<runs, jobs, trail, results, effects, work, ledger>>

(* ... and last the run itself. *)
SaveCancelledRun(h) ==
    /\ call[h].pc = "saveCancelled"
    /\ SetRun(call[h].run, "cancelled", call[h].rec.attempt)
    /\ Go(h, "logCancelled")
    /\ UNCHANGED <<steps, jobs, trail, results, effects, work, ledger>>

LogCancelled(h) ==
    /\ call[h].pc = "logCancelled"
    /\ Log(call[h].run, call[h].rec.status, "cancelled")
    /\ Return(h)
    /\ UNCHANGED <<runs, steps, jobs, results, effects, work, ledger>>

HandlerStep(h) ==
    \/ SaveQueuedRun(h) \/ LogQueued(h) \/ SaveDispatchStep(h) \/ EnqueueJob(h)
    \/ ListOpenJobs(h) \/ CancelOneJob(h)
    \/ FindOpenGatewayStep(h) \/ CancelGatewayStep(h)
    \/ FindCancelStep(h) \/ OrderCancelStep(h) \/ InsertCancelStep(h)
    \/ SaveCancelledRun(h) \/ LogCancelled(h)

(* The process dies, the client goes away or a save fails: the request ends *)
(* where it is and nothing undoes what it saved.                            *)
AbortCall(h) ==
    /\ "abort" \in Faults
    /\ call[h] # IdleCall
    /\ Return(h)
    /\ UNCHANGED <<runs, steps, jobs, trail, results, effects, work, ledger>>

-----------------------------------------------------------------------------
(* Workers. *)

JobOf(w)  == jobs[work[w].job]
RunOf(w)  == JobOf(w).run
AttemptOf(w) == work[w].rec.attempt

Goto(w, pc) == work' = [work EXCEPT ![w].pc = pc]
Leave(w)    == work' = [work EXCEPT ![w] = IdleWork]

(* FOR UPDATE SKIP LOCKED passes over a row another statement holds, so any *)
(* pending job may be the next one.                                         *)
ClaimableAgain(j) == jobs[j].status \in {"pending", "failed"}
Claimable(j) == jobs[j].status = "pending"

ClaimJob(w) ==
    /\ work[w] = IdleWork
    /\ \E j \in DOMAIN jobs :
          /\ Claimable(j)
          /\ SetJob(j, "running")
          /\ work' = [work EXCEPT ![w] = [IdleWork EXCEPT !.pc = "load",
                                                          !.job = j]]
    /\ UNCHANGED <<runs, steps, trail, results, effects, call, ledger>>

(* A job for a cancelled run or for another attempt is dropped; one whose   *)
(* run cannot be read is failed and the run is left as it is.               *)
Superseded(rec, job) ==
    rec.status = "cancelled" \/ rec.attempt # job.attempt

LoadRun(w) ==
    /\ work[w].pc = "load"
    /\ \E rec \in Reads(runs[RunOf(w)], Absent) :
          \/ /\ rec = Absent
             /\ Goto(w, "failJob")
          \/ /\ rec # Absent
             /\ Superseded(rec, JobOf(w))
             /\ Goto(w, "cancelJob")
          \/ /\ rec # Absent
             /\ ~Superseded(rec, JobOf(w))
             /\ work' = [work EXCEPT ![w].pc = "findStep", ![w].rec = rec]
    /\ UNCHANGED <<runs, steps, jobs, trail, results, effects, call, ledger>>

SettleJob(w) ==
    /\ \/ work[w].pc = "failJob"   /\ SetJob(work[w].job, "failed")
       \/ work[w].pc = "cancelJob" /\ SetJob(work[w].job, "cancelled")
    /\ Leave(w)
    /\ UNCHANGED <<runs, steps, trail, results, effects, call, ledger>>

(* ensureGatewayStep: use the running step, reopen a settled one, or insert. *)
FindGatewayStep(w) ==
    /\ work[w].pc = "findStep"
    /\ \E seen \in Reads(StepsOf(RunOf(w)), {}) :
          Goto(w, CASE ~HasStep(seen, AttemptOf(w), "gateway") -> "insertStep"
                    [] GatewayStep(RunOf(w), AttemptOf(w), "running") \in seen
                         -> "saveClaim"
                    [] OTHER -> "reopenStep")
    /\ UNCHANGED <<runs, steps, jobs, trail, results, effects, call, ledger>>

OpenStep(w) ==
    LET s == GatewayStep(RunOf(w), AttemptOf(w), "running")
    IN  /\ \/ /\ work[w].pc = "reopenStep"
              /\ steps' = WithStep(s)
              /\ Goto(w, "saveClaim")
           \/ /\ work[w].pc = "insertStep"
              /\ CanInsert(s)
              /\ steps' = steps \cup {s}
              /\ Goto(w, "saveClaim")
           \/ /\ work[w].pc = "insertStep"
              /\ ~CanInsert(s)
              /\ Leave(w)
              /\ UNCHANGED steps
        /\ UNCHANGED <<runs, jobs, trail, results, effects, call, ledger>>

SaveClaimedRun(w) ==
    /\ work[w].pc = "saveClaim"
    /\ SetRun(RunOf(w), "running", AttemptOf(w))
    /\ Goto(w, IF work[w].rec.status = "running" THEN "lookup" ELSE "logClaim")
    /\ UNCHANGED <<steps, jobs, trail, results, effects, call, ledger>>

LogClaim(w) ==
    /\ work[w].pc = "logClaim"
    /\ Log(RunOf(w), work[w].rec.status, "running")
    /\ Goto(w, "lookup")
    /\ UNCHANGED <<runs, steps, jobs, results, effects, call, ledger>>

(* The executor is called; the gateway looks for a saved result first. *)
Got(w, result) == work' = [work EXCEPT ![w].pc = "recheckJob",
                                       ![w].result = result]

LookUpResult(w) ==
    /\ work[w].pc = "lookup"
    /\ ledger' = [ledger EXCEPT ![RunOf(w)][AttemptOf(w)] = "executing"]
    /\ \E hit \in Reads(results[RunOf(w)], FALSE) :
          IF hit THEN Got(w, "ok") ELSE Goto(w, "callProvider")
    /\ UNCHANGED <<runs, steps, jobs, trail, results, effects, call>>

(* The provider fails, or does the work and answers. *)
CallProvider(w) ==
    /\ work[w].pc = "callProvider"
    /\ \/ /\ effects' = [effects EXCEPT ![RunOf(w)] = @ + 1]
          /\ Goto(w, "saveResult")
       \/ /\ Got(w, "error")
          /\ UNCHANGED effects
    /\ UNCHANGED <<runs, steps, jobs, trail, results, call, ledger>>

(* An error from the save is returned as if the provider had failed, though *)
(* the row may be there.                                                    *)
SaveResult(w) ==
    /\ work[w].pc = "saveResult"
    /\ \/ /\ results' = [results EXCEPT ![RunOf(w)] = TRUE]
          /\ Got(w, "ok")
       \/ /\ "gatewaySave" \in Faults
          /\ \E saved \in {results[RunOf(w)], TRUE} :
                results' = [results EXCEPT ![RunOf(w)] = saved]
          /\ Got(w, "error")
    /\ UNCHANGED <<runs, steps, jobs, trail, effects, call, ledger>>

(* The result is in: look whether the job or the run was cancelled since. *)
RecheckJob(w) ==
    /\ work[w].pc = "recheckJob"
    /\ \E status \in Reads(JobOf(w).status, "none") :
          work' = [work EXCEPT ![w].pc = "recheckRun", ![w].seen = status]
    /\ UNCHANGED <<runs, steps, jobs, trail, results, effects, call, ledger>>

RecheckRun(w) ==
    /\ work[w].pc = "recheckRun"
    /\ \E rec \in Reads(runs[RunOf(w)], Absent) :
          IF work[w].seen = "cancelled" \/ rec.status = "cancelled"
            THEN /\ work' = [work EXCEPT
                               ![w].pc = IF work[w].seen = "cancelled"
                                           THEN "findDrop" ELSE "dropJob",
                               ![w].rec = IF rec = Absent THEN @ ELSE rec]
                 /\ ledger' = [ledger EXCEPT
                                 ![RunOf(w)][AttemptOf(w)] = "discarded"]
            ELSE /\ Goto(w, "endStep")
                 /\ UNCHANGED ledger
    /\ UNCHANGED <<runs, steps, jobs, trail, results, effects, call>>

(* discardCancelledResult: the job and the gateway step follow the run. *)
DropJob(w) ==
    /\ work[w].pc = "dropJob"
    /\ SetJob(work[w].job, "cancelled")
    /\ Goto(w, "findDrop")
    /\ UNCHANGED <<runs, steps, trail, results, effects, call, ledger>>

FindDroppedStep(w) ==
    /\ work[w].pc = "findDrop"
    /\ \E seen \in Reads(StepsOf(RunOf(w)), {}) :
          IF OpenGatewayStep(seen, AttemptOf(w))
            THEN Goto(w, "dropStep") ELSE Leave(w)
    /\ UNCHANGED <<runs, steps, jobs, trail, results, effects, call, ledger>>

DropStep(w) ==
    /\ work[w].pc = "dropStep"
    /\ steps' = WithStep(GatewayStep(RunOf(w), AttemptOf(w), "cancelled"))
    /\ Leave(w)
    /\ UNCHANGED <<runs, jobs, trail, results, effects, call, ledger>>

(* The result is kept: step, job, run and transition are saved in turn. *)
EndStatusRaw(w) == work[w].result
EndStatusIgnoringError(w) == "completed"
EndStatus(w) == IF work[w].result = "ok" THEN "completed" ELSE "failed"

EndStep(w) ==
    /\ work[w].pc = "endStep"
    /\ steps' = WithStep(GatewayStep(RunOf(w), AttemptOf(w), EndStatus(w)))
    /\ Goto(w, "endJob")
    /\ UNCHANGED <<runs, jobs, trail, results, effects, call, ledger>>

EndJobCompleted(w) ==
    /\ work[w].pc = "endJob"
    /\ SetJob(work[w].job, "completed")
    /\ Goto(w, "endRun")
    /\ UNCHANGED <<runs, steps, trail, results, effects, call, ledger>>
EndJob(w) ==
    /\ work[w].pc = "endJob"
    /\ SetJob(work[w].job, EndStatus(w))
    /\ Goto(w, "endRun")
    /\ UNCHANGED <<runs, steps, trail, results, effects, call, ledger>>

EndRun(w) ==
    /\ work[w].pc = "endRun"
    /\ SetRun(RunOf(w), EndStatus(w), AttemptOf(w))
    /\ ledger' = [ledger EXCEPT ![RunOf(w)][AttemptOf(w)] =
                    IF work[w].result = "ok" THEN "succeeded" ELSE "failed"]
    /\ Goto(w, "logEnd")
    /\ UNCHANGED <<steps, jobs, trail, results, effects, call>>

LogEnd(w) ==
    /\ work[w].pc = "logEnd"
    /\ Log(RunOf(w), "running", EndStatus(w))
    /\ Leave(w)
    /\ UNCHANGED <<runs, steps, jobs, results, effects, call, ledger>>

WorkerStep(w) ==
    \/ LoadRun(w) \/ SettleJob(w)
    \/ FindGatewayStep(w) \/ OpenStep(w) \/ SaveClaimedRun(w) \/ LogClaim(w)
    \/ LookUpResult(w) \/ CallProvider(w) \/ SaveResult(w)
    \/ RecheckJob(w) \/ RecheckRun(w)
    \/ DropJob(w) \/ FindDroppedStep(w) \/ DropStep(w)
    \/ EndStep(w) \/ EndJob(w) \/ EndRun(w) \/ LogEnd(w)

(* The worker dies or a statement fails: nothing claims its job again. *)
AbortWork(w) ==
    /\ "abort" \in Faults
    /\ work[w] # IdleWork
    /\ Leave(w)
    /\ UNCHANGED <<runs, steps, jobs, trail, results, effects, call, ledger>>

-----------------------------------------------------------------------------

Next ==
    \/ \E h \in Handlers :
          \/ \E r \in Runs : BeginStart(h, r) \/ BeginRetry(h, r) \/ BeginCancel(h, r)
          \/ HandlerStep(h)
          \/ AbortCall(h)
    \/ \E w \in Workers : ClaimJob(w) \/ WorkerStep(w) \/ AbortWork(w)

Spec == Init /\ [][Next]_vars

(* A request that is being served and a worker that polls keep going; clients *)
(* need not call.                                                            *)
Fairness ==
    /\ \A h \in Handlers : WF_vars(HandlerStep(h))
    /\ \A w \in Workers : WF_vars(ClaimJob(w) \/ WorkerStep(w))

FairSpec == Spec /\ Fairness

-----------------------------------------------------------------------------
(* Properties. *)

StepRecords == [run : Runs, attempt : Attempts, order : Nat,
                suffix : {"dispatch", "gateway", "cancel"}, status : Statuses]
JobRecords  == [run : Runs, attempt : Attempts, status : Statuses]
RunRecords  == {Absent} \cup [status : Statuses, attempt : Attempts]
CallPCs == {"idle", "saveRun", "logQueued", "dispatch", "enqueue", "listJobs",
            "cancelJobs", "cancelStep", "findCancelStep", "orderCancelStep",
            "insertCancelStep", "saveCancelled", "logCancelled"}
Preparing == {"load", "findStep", "reopenStep", "insertStep", "saveClaim",
              "logClaim", "lookup"}
Executing == {"callProvider", "saveResult", "recheckJob", "recheckRun",
              "endStep", "endJob", "endRun"}
Clearing  == {"failJob", "cancelJob", "dropJob", "findDrop", "dropStep", "logEnd"}

CallRecords == [pc : CallPCs, run : Runs \cup {None}, rec : RunRecords,
                todo : SUBSET (DOMAIN jobs), order : Nat]
WorkRecords == [pc : {"idle"} \cup Preparing \cup Executing \cup Clearing,
                job : {0} \cup DOMAIN jobs, rec : RunRecords,
                result : {"none", "ok", "error"}, seen : Statuses \cup {"none"}]

(* Type invariant: rows and in-memory copies are what the code can build.  *)
TypeOK ==
    /\ runs \in [Runs -> RunRecords]
    /\ steps \in SUBSET StepRecords
    /\ jobs \in Seq(JobRecords)
    /\ trail \in [Runs -> (Statuses \cup {"none"}) \X (Statuses \cup {"none"})]
    /\ results \in [Runs -> BOOLEAN]
    /\ effects \in [Runs -> Nat]
    /\ ledger \in [Runs -> [Attempts -> {"none", "executing", "failed",
                                         "succeeded", "discarded"}]]
    /\ call \in [Handlers -> CallRecords]
    /\ work \in [Workers -> WorkRecords]

(* The promise about attempts, with the ledger kept at the call of the      *)
(* executor and at the save that settles the run: see AttemptContract.      *)
Contract == INSTANCE AttemptContract
                WITH Runs <- Runs, MaxAttempts <- MaxAttempts, ledger <- ledger
KeepsContract == Contract!Spec

(* A status never lies about its attempt: whoever overwrote whose row, a    *)
(* failed run's attempt was executed and failed, and a completed run's      *)
(* attempt succeeded and its gateway result is saved.                       *)
StatusIsEarned ==
    \A r \in Runs :
        /\ runs[r].status = "failed" =>
              ledger[r][runs[r].attempt] = "failed"
        /\ runs[r].status = "completed" =>
              ledger[r][runs[r].attempt] = "succeeded" /\ results[r]

(* Two requests that race to queue an attempt queue it once, and a queued   *)
(* attempt has its dispatch step.                                           *)
OneJobPerAttempt ==
    \A i \in DOMAIN jobs :
        /\ \E s \in StepsOf(jobs[i].run) :
              s.attempt = jobs[i].attempt /\ s.suffix = "dispatch"
        /\ \A j \in DOMAIN jobs :
              /\ jobs[i].run = jobs[j].run
              /\ jobs[i].attempt = jobs[j].attempt
              => i = j

(* The moves of a run that state_transitions records are the ones of its    *)
(* life cycle: no stale record makes a worker take up a cancelled or ended  *)
(* run, or a request queue or cancel one it must not.                       *)
LegalMoves ==
    {<<"none", "pending">>, <<"pending", "running">>, <<"running", "completed">>,
     <<"running", "failed">>, <<"failed", "pending">>, <<"pending", "cancelled">>,
     <<"running", "cancelled">>}
TrailIsLegal ==
    \A r \in Runs : trail[r] \in LegalMoves \cup {<<"none", "none">>}

(* However often a run is retried, and whatever crashes, its provider call  *)
(* takes effect once, as long as the gateway can save results.              *)
OneEffect ==
    "gatewaySave" \notin Faults => \A r \in Runs : effects[r] <= 1

(* No stale save puts a job back into the queue, and none takes a settled   *)
(* job up again.                                                            *)
JobsNeverReopen ==
    [][\A j \in DOMAIN jobs :
          /\ jobs[j].status # "pending" => jobs'[j].status # "pending"
          /\ jobs[j].status \notin Open => jobs'[j].status \notin Open]_jobs

(* When nobody works on a run that no request cancelled, its row, its last  *)
(* job and the gateway step of its attempt tell the same story.  (One       *)
(* request at a time and no fault: every other case can break it.)          *)
Quiet(r) == /\ \A h \in Handlers : call[h].run # r
            /\ \A w \in Workers : work[w] # IdleWork => RunOf(w) # r
JobOfAttempt(r, a) == {j \in DOMAIN jobs : jobs[j].run = r /\ jobs[j].attempt = a}
QuietRunAgrees ==
    \A r \in Runs :
        LET status == runs[r].status
            a == runs[r].attempt
        IN  Quiet(r) /\ runs[r] # Absent =>
              /\ \E j \in JobOfAttempt(r, a) : jobs[j].status = status
              /\ \A j \in DOMAIN jobs : jobs[j].run = r => jobs[j].attempt <= a
              /\ IF status = "pending" THEN ~HasStep(StepsOf(r), a, "gateway")
                   ELSE GatewayStep(r, a, status) \in steps

(* Every queued run ends: it completes or fails.  (Same case as above.) *)
QueuedRunsEnd ==
    \A r \in Runs : runs[r].status \in Open ~> runs[r].status \notin Open

(* The result of a provider call that comes after the run was cancelled is *)
(* dropped: a cancelled run is not completed with it.                      *)
LateResultIsDropped ==
    [][\A r \in Runs : runs[r].status = "cancelled" => runs'[r].status # "completed"]_runs
=============================================================================
