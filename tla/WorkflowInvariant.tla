------------------------- MODULE WorkflowInvariant -------------------------
(***************************************************************************)
(* The inductive invariant of WorkflowEngine.  The unique index on step    *)
(* keys makes the dispatch step of an attempt a ticket that is handed out  *)
(* once; the ticket allows one job, the job one claim, and the claim one   *)
(* execution.  A job follows only a recorded failure of the attempt before *)
(* it, so executions come one after the other.                             *)
(***************************************************************************)
EXTENDS WorkflowEngine

Queueing == {"saveRun", "logQueued", "dispatch", "enqueue"}
Cancelling == CallPCs \ (Queueing \cup {"idle"})
Loaded  == Preparing \ {"load"}
Settling == {"recheckJob", "recheckRun", "endStep", "endJob", "endRun"}

OutcomeOf(r, a) == ledger[r][a]

HasDispatch(r, a) == \E s \in steps : /\ s.run = r /\ s.attempt = a
                                      /\ s.suffix = "dispatch"
IsJobOf(j, r, a) == jobs[j].run = r /\ jobs[j].attempt = a
HasJob(r, a) == \E j \in DOMAIN jobs : IsJobOf(j, r, a)

(* The first four hold whoever else writes the table of runs: RenderRuntime, *)
(* where callbacks do, relies on them too.  A job has the ticket of its     *)
(* attempt, and no other job has it.                                        *)
JobsInv ==
    /\ \A j \in DOMAIN jobs :
          /\ HasDispatch(jobs[j].run, jobs[j].attempt)
          /\ jobs[j].status = "pending" =>
                OutcomeOf(jobs[j].run, jobs[j].attempt) = "none"
    /\ \A i, j \in DOMAIN jobs : IsJobOf(i, jobs[j].run, jobs[j].attempt) => i = j

(* A request that is about to enqueue holds the ticket alone. *)
NextAttempt(h) == call[h].rec.attempt + 1
CallsInv ==
    \A h \in Handlers :
        /\ call[h].pc # "idle" => call[h].run \in Runs
        /\ call[h].pc \in Queueing => NextAttempt(h) \in Attempts
        /\ call[h].pc \in Cancelling => call[h].rec.status \in Open
        /\ call[h].pc = "enqueue" =>
              /\ HasDispatch(call[h].run, NextAttempt(h))
              /\ ~HasJob(call[h].run, NextAttempt(h))
              /\ \A g \in Handlers :
                    /\ call[g].pc = "enqueue" /\ call[g].run = call[h].run
                    /\ NextAttempt(g) = NextAttempt(h)
                    => g = h

(* A worker holds its job alone.  Until it calls the executor nothing has  *)
(* been executed of its attempt; from then on the ledger says so.          *)
WorkInv ==
    /\ \A w \in Workers :
          /\ work[w].pc # "idle" =>
                /\ work[w].job \in DOMAIN jobs
                /\ JobOf(w).status # "pending"
          /\ work[w].pc \in Preparing =>
                OutcomeOf(RunOf(w), JobOf(w).attempt) = "none"
          /\ work[w].pc \in Loaded \cup Executing =>
                AttemptOf(w) = JobOf(w).attempt
          /\ work[w].pc \in Executing =>
                OutcomeOf(RunOf(w), JobOf(w).attempt) = "executing"
          /\ work[w].pc \in Settling /\ work[w].result = "ok" => results[RunOf(w)]
          /\ work[w].pc \in {"dropJob", "findDrop", "dropStep"} => AttemptOf(w) \in Attempts
    /\ \A v, w \in Workers :
          /\ work[v].pc # "idle" /\ work[w].pc # "idle"
          /\ work[v].job = work[w].job
          => v = w

(* What the ledger says of an attempt was done for a job that was claimed. *)
LedgerInv ==
    \A r \in Runs, a \in Attempts :
        OutcomeOf(r, a) # "none" =>
            \E j \in DOMAIN jobs : IsJobOf(j, r, a) /\ jobs[j].status # "pending"

(* The others need that only the engine writes a run.  A request that       *)
(* queues an attempt started from no run or from a failure on record, so    *)
(* the attempt before that of a job failed, and the run that a worker takes *)
(* up is open.                                                              *)
QueuesAfterFailure ==
    \A h \in Handlers : call[h].pc \in Queueing =>
        \/ call[h].rec = Absent
        \/ /\ call[h].rec.status = "failed"
           /\ OutcomeOf(call[h].run, call[h].rec.attempt) = "failed"
JobAfterFailure ==
    \A j \in DOMAIN jobs :
        \/ jobs[j].attempt = 1
        \/ OutcomeOf(jobs[j].run, jobs[j].attempt - 1) = "failed"
TakesUpOpenRun ==
    \A w \in Workers :
        /\ work[w].pc \in Loaded => work[w].rec.status \in Open
        /\ work[w].pc = "logClaim" => work[w].rec.status = "pending"

(* Attempts are executed in order: whoever comes before one that was       *)
(* executed has failed.                                                    *)
InOrder ==
    \A r \in Runs, a, b \in Attempts :
        OutcomeOf(r, a) # "none" /\ b < a => OutcomeOf(r, b) = "failed"

(* When results can be saved, the provider has done nothing for a run of   *)
(* which every attempt failed so far, nor for one whose worker is about to *)
(* call it or holds an error.                                              *)
EffectsInv ==
    "gatewaySave" \notin Faults =>
        /\ \A r \in Runs :
              /\ effects[r] <= 1
              /\ (\A a \in Attempts : OutcomeOf(r, a) \in {"none", "failed"})
                    => effects[r] = 0
        /\ \A w \in Workers :
              \/ work[w].pc = "callProvider"
              \/ work[w].pc \in Settling /\ work[w].result # "ok"
              => effects[RunOf(w)] = 0

BaseInv == TypeOK /\ JobsInv /\ CallsInv /\ WorkInv /\ LedgerInv
IndInv == /\ BaseInv
          /\ QueuesAfterFailure /\ JobAfterFailure /\ TakesUpOpenRun
          /\ StatusIsEarned /\ TrailIsLegal /\ InOrder /\ EffectsInv

(* The case of QuietRunAgrees: requests come one at a time, none cancels, and *)
(* nothing fails but the gateway and its save.                              *)
QuietCase ==
    /\ \A g, h \in Handlers : g = h
    /\ Calls \subseteq {"start", "retry"}
    /\ Faults \subseteq {"gatewaySave"}

(* There the table of runs leads the others: no job and no step is ahead of *)
(* its run, steps have the order of their kind, and a queued job waits for  *)
(* the attempt its run is pending at.                                       *)
At(status, a) == [status |-> status, attempt |-> a]
HasGateway(r, a) == \E s \in steps : /\ s.run = r /\ s.attempt = a
                                     /\ s.suffix = "gateway"
JobsFollowRun ==
    \A j \in DOMAIN jobs :
        /\ jobs[j].attempt <= runs[jobs[j].run].attempt
        /\ jobs[j].status = "pending" =>
              /\ runs[jobs[j].run] = At("pending", jobs[j].attempt)
              /\ ~HasGateway(jobs[j].run, jobs[j].attempt)
StepsFollowRun ==
    \A s \in steps :
        /\ s.suffix \in {"dispatch", "gateway"}
        /\ s.order = FixedOrder(s.attempt, s.suffix)
        /\ s.attempt <= runs[s.run].attempt

(* The request that queues an attempt holds the row it read, then the row   *)
(* is the one it wrote and the attempt is its own.                          *)
Queues(h)   == call[h].pc \in Queueing \ {"saveRun"}
QueuesCurrent(h) ==
    /\ call[h].pc \in Queueing \cup {"idle"}
    /\ call[h].pc = "saveRun" /\ call[h].rec # Absent =>
          call[h].rec = runs[call[h].run]
    /\ Queues(h) =>
          /\ runs[call[h].run] = At("pending", NextAttempt(h))
          /\ ~HasGateway(call[h].run, NextAttempt(h))
    /\ call[h].pc \in {"logQueued", "dispatch"} =>
          \A s \in StepsOf(call[h].run) : s.attempt < NextAttempt(h)

(* A worker's run, job and gateway step move on together, a statement apart. *)
Works(w) == work[w].pc \notin {"idle", "logEnd"}
BeforeStep  == {"load", "findStep", "insertStep"}
BeforeClaim == BeforeStep \cup {"saveClaim"}
Claimed     == {"logClaim", "lookup"} \cup Executing
WorksCurrent(w) ==
    /\ work[w].pc \in {"idle", "logEnd"} \cup BeforeClaim \cup Claimed
    /\ Works(w) =>
          /\ runs[RunOf(w)] = At(IF work[w].pc \in BeforeClaim THEN "pending"
                                 ELSE "running", JobOf(w).attempt)
          /\ JobOf(w).status = IF work[w].pc = "endRun" THEN EndStatus(w)
                                 ELSE "running"
          /\ IF work[w].pc \in BeforeStep THEN ~HasGateway(RunOf(w), JobOf(w).attempt)
               ELSE GatewayStep(RunOf(w), JobOf(w).attempt,
                                IF work[w].pc \in {"endJob", "endRun"}
                                  THEN EndStatus(w) ELSE "running") \in steps
    /\ work[w].pc \in BeforeClaim \ {"load"} => work[w].rec.status = "pending"
    /\ work[w].pc = "recheckRun" => work[w].seen = "running"

(* A run nobody is about to move agrees with its job and its gateway step. *)
Agrees(r) ==
    LET status == runs[r].status
        a == runs[r].attempt
    IN  /\ \E j \in DOMAIN jobs : IsJobOf(j, r, a) /\ jobs[j].status = status
        /\ IF status = "pending" THEN ~HasGateway(r, a)
             ELSE GatewayStep(r, a, status) \in steps
MovedOrAgrees ==
    \A r \in Runs :
        \/ runs[r] = Absent
        \/ \E h \in Handlers : Queues(h) /\ call[h].run = r
        \/ \E w \in Workers : Works(w) /\ RunOf(w) = r
        \/ Agrees(r)

QuietInv == /\ JobsFollowRun /\ StepsFollowRun
            /\ \A h \in Handlers : QueuesCurrent(h)
            /\ \A w \in Workers : WorksCurrent(w)
            /\ MovedOrAgrees
=============================================================================
