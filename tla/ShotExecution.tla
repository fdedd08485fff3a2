---------------------------- MODULE ShotExecution ----------------------------
(***************************************************************************)
(* Shot executions of one project and the budget they spend: API requests  *)
(* start numbered runs, reserve their cost, and move an execution through  *)
(* candidate, primary asset, review and approval.  A request reads rows,   *)
(* decides, and saves whole rows back, one statement at a time and with no *)
(* transaction; a read that fails looks like a missing row.  A request may *)
(* stop anywhere: one that is cut off, or whose save fails, is one that    *)
(* takes no further step.                                                  *)
(***************************************************************************)
EXTENDS Naturals, Sequences, FiniteSets, FiniteSetsExt, Functions

CONSTANTS
    Shots,     \* shots; each has at most one execution
    Handlers,  \* API requests that can be in progress at once
    MaxRuns,   \* bound: a request starts a run of a shot that has fewer
    Costs,     \* estimated costs a client may give for a run
    Limits,    \* budget limits a client may set
    Calls,     \* the API calls clients make
    Faults,    \* reads that can fail: of executions and runs, of the budget
    None       \* no shot

ASSUME ShotsAssumption   == IsFiniteSet(Shots)
ASSUME CostsAssumption   == Costs \subseteq Nat /\ IsFiniteSet(Costs) /\ Costs # {}
ASSUME LimitsAssumption  == Limits \subseteq Nat \ {0} /\ IsFiniteSet(Limits)
ASSUME MaxRunsAssumption == MaxRuns \in Nat \ {0}
ASSUME FaultsAssumption  == Faults \subseteq {"read", "budget"}
ASSUME HandlersAssumption == IsFiniteSet(Handlers)

Moves == {"candidate", "primary", "rework", "approve"}
ASSUME CallsAssumption == Calls \subseteq Moves \cup {"start", "submit", "setBudget"}

VARIABLES
    executions,  \* table shot_executions
    runs,        \* table shot_execution_runs, in the order of insertion
    candidates,  \* the shots with a row in candidate_assets
    limit,       \* the limit in budget_policies; 0 when there is no row
    usage,       \* the sum of the usage_records of each run
    billed,      \* the sum of the billing_events of each run
    selected,    \* history: the shots a primary asset was ever saved for
    budgeted,    \* history: whether the project had a budget from the start
    call         \* what each request holds in memory

vars == <<executions, runs, candidates, limit, usage, billed, selected, budgeted,
          call>>
facts  == <<selected, budgeted>>
tables == <<executions, runs, candidates, limit, usage, billed, facts>>

RunNumbers == 1 .. MaxRuns + Cardinality(Handlers)
Charges    == Shots \X RunNumbers

(* The row a lookup of a missing execution yields. *)
Missing == [status |-> "none", current |-> 0, primary |-> FALSE]
Idle    == [pc |-> "idle", shot |-> None, found |-> FALSE, rec |-> Missing,
            number |-> 0, cost |-> 0, limit |-> 0]

Init ==
    /\ executions = [s \in Shots |-> Missing]
    /\ runs       = [s \in Shots |-> <<>>]
    /\ candidates = {}
    /\ limit \in Limits \cup {0}
    /\ usage  = [c \in Charges |-> 0]
    /\ billed = [c \in Charges |-> 0]
    /\ selected = {}
    /\ budgeted = (limit # 0)
    /\ call   = [h \in Handlers |-> Idle]

-----------------------------------------------------------------------------
(* The database as the services see it. *)

Reads(fault, answer, empty) ==
    {answer} \cup (IF fault \in Faults THEN {empty} ELSE {})

ReadExecution(s) == Reads("read", executions[s], Missing)
ReadLimit        == Reads("budget", limit, 0)

(* The run list of an execution: empty when the query or a row cannot be read, *)
(* and what came so far when the query ends early.                            *)
ReadRuns(s) ==
    {SubSeq(runs[s], 1, n) : n \in IF "read" \in Faults THEN 0..Len(runs[s])
                                                         ELSE {Len(runs[s])}}

Numbers(list) == {list[i].number : i \in DOMAIN list}
NextNumber(list) == Max({0} \cup Numbers(list)) + 1

(* What GetBudgetByProject reports as reserved. *)
Spent == SumFunction(usage)

SaveExecution(s, rec) == executions' = [executions EXCEPT ![s] = rec]

Goto(h, pc) == call' = [call EXCEPT ![h].pc = pc]
Return(h)   == call' = [call EXCEPT ![h] = Idle]

-----------------------------------------------------------------------------
(* StartShotExecutionRun: find the execution and number the run ...        *)

StartedUnchanged(rec) == rec
Started(rec) == [rec EXCEPT !.status = "in_progress"]

BeginRun(h, s, cost) ==
    /\ "start" \in Calls
    /\ call[h] = Idle
    /\ Len(runs[s]) < MaxRuns
    /\ \E rec \in ReadExecution(s) :
          call' = [call EXCEPT ![h] =
                     [Idle EXCEPT !.pc = "number", !.shot = s, !.cost = cost,
                                  !.found = (rec # Missing),
                                  !.rec = Started(rec)]]
    /\ UNCHANGED tables

(* A new execution has a new id, under which there are no runs. *)
NumberRun(h) ==
    /\ call[h].pc = "number"
    /\ \E list \in IF call[h].found THEN ReadRuns(call[h].shot) ELSE {<<>>} :
          call' = [call EXCEPT
                     ![h].number = NextNumber(list),
                     ![h].pc = CASE call[h].cost > 0 -> "readLimit"
                                 [] call[h].cost = 0 /\ call[h].found -> "insertRun"
                                 [] OTHER -> "insertExecution"]
    /\ UNCHANGED tables

(* ... check the budget: the policy is read first, the sum after it, and no *)
(* budget means no limit ...                                                *)
Saving(h) == IF call[h].found THEN "insertRun" ELSE "insertExecution"

ReadBudget(h) ==
    /\ call[h].pc = "readLimit"
    /\ \E seen \in ReadLimit :
          call' = [call EXCEPT ![h].limit = seen,
                               ![h].pc = IF seen = 0 THEN Saving(h) ELSE "check"]
    /\ UNCHANGED tables

AllowedBeforeCost(h) == Spent <= call[h].limit
Allowed(h) == Spent + call[h].cost <= call[h].limit

CheckBudget(h) ==
    /\ call[h].pc = "check"
    /\ \/ Allowed(h) /\ Goto(h, Saving(h))
       \/ ~Allowed(h) /\ Return(h)
       \/ "budget" \in Faults /\ Goto(h, Saving(h))
    /\ UNCHANGED tables

(* ... save the execution when it is new, the run, and the execution again;  *)
(* shot_id and (execution, run_number) are unique ...                        *)
InsertExecution(h) ==
    LET s == call[h].shot
    IN  /\ call[h].pc = "insertExecution"
        /\ IF executions[s] = Missing
             THEN /\ SaveExecution(s, call[h].rec)
                  /\ Goto(h, "insertRun")
             ELSE /\ Return(h)
                  /\ UNCHANGED executions
        /\ UNCHANGED <<runs, candidates, limit, usage, billed, facts>>

NumberIsFreeUnindexed(s, n) == TRUE
NumberIsFree(s, n) == n \notin Numbers(runs[s])

InsertRun(h) ==
    LET s == call[h].shot
        n == call[h].number
    IN  /\ call[h].pc = "insertRun"
        /\ IF NumberIsFree(s, n)
             THEN /\ runs' = [runs EXCEPT ![s] =
                                Append(@, [number |-> n, cost |-> call[h].cost])]
                  /\ Goto(h, "saveCurrent")
             ELSE /\ Return(h)
                  /\ UNCHANGED runs
        /\ UNCHANGED <<executions, candidates, limit, usage, billed, facts>>

SaveCurrent(h) ==
    LET s == call[h].shot
    IN  /\ call[h].pc = "saveCurrent"
        /\ SaveExecution(s, [call[h].rec EXCEPT !.current = call[h].number])
        /\ IF call[h].cost > 0 THEN Goto(h, "reserve") ELSE Return(h)
        /\ UNCHANGED <<runs, candidates, limit, usage, billed, facts>>

(* ... and reserve its cost: the budget is read and saved back as it was    *)
(* read, only the usage record changes what is spent.                       *)
Reserve(h) ==
    /\ call[h].pc = "reserve"
    /\ \E seen \in ReadLimit :
          IF seen = 0 THEN Return(h)
            ELSE call' = [call EXCEPT ![h].pc = "saveBudget", ![h].limit = seen]
    /\ UNCHANGED tables

SaveBudget(h) ==
    /\ call[h].pc = "saveBudget"
    /\ limit' = call[h].limit
    /\ Goto(h, "recordUsage")
    /\ UNCHANGED <<executions, runs, candidates, usage, billed, facts>>

Charge(h) == <<call[h].shot, call[h].number>>

RecordUsage(h) ==
    /\ call[h].pc = "recordUsage"
    /\ usage' = [usage EXCEPT ![Charge(h)] = @ + call[h].cost]
    /\ Goto(h, "recordEvent")
    /\ UNCHANGED <<executions, runs, candidates, limit, billed, facts>>

RecordEvent(h) ==
    /\ call[h].pc = "recordEvent"
    /\ billed' = [billed EXCEPT ![Charge(h)] = @ + call[h].cost]
    /\ Return(h)
    /\ UNCHANGED <<executions, runs, candidates, limit, usage, facts>>

StartRunStep(h) ==
    \/ NumberRun(h) \/ ReadBudget(h) \/ CheckBudget(h)
    \/ InsertExecution(h) \/ InsertRun(h) \/ SaveCurrent(h)
    \/ Reserve(h) \/ SaveBudget(h) \/ RecordUsage(h) \/ RecordEvent(h)

-----------------------------------------------------------------------------
(* SetProjectBudget: a project has one policy row; a second insert fails. *)

BeginSetBudget(h, l) ==
    /\ "setBudget" \in Calls
    /\ call[h] = Idle
    /\ \E seen \in ReadLimit :
          call' = [call EXCEPT ![h] =
                     [Idle EXCEPT !.pc = "setBudget", !.limit = l,
                                  !.found = (seen # 0)]]
    /\ UNCHANGED tables

SetBudget(h) ==
    /\ call[h].pc = "setBudget"
    /\ limit' = IF call[h].found \/ limit = 0 THEN call[h].limit ELSE limit
    /\ Return(h)
    /\ UNCHANGED <<executions, runs, candidates, usage, billed, facts>>

-----------------------------------------------------------------------------
(* The other moves of an execution: read it, then save it changed.         *)

Moved(rec, move) ==
    CASE move = "candidate" -> [rec EXCEPT !.status = "candidate_ready"]
      [] move = "primary"   -> [rec EXCEPT !.status = "primary_selected",
                                           !.primary = TRUE]
      [] move = "rework"    -> [rec EXCEPT !.status = "rework_required"]
      [] move = "approve"   -> [rec EXCEPT !.status = "approved_for_use"]

BeginMove(h, s, move) ==
    /\ move \in Calls
    /\ call[h] = Idle
    /\ executions[s] # Missing
    /\ call' = [call EXCEPT ![h] =
                  [Idle EXCEPT !.pc = IF move = "candidate" THEN "saveCandidate"
                                                            ELSE "saveMove",
                               !.shot = s, !.rec = Moved(executions[s], move)]]
    /\ UNCHANGED tables

(* AddCandidateAsset saves the candidate before the execution. *)
SaveCandidate(h) ==
    /\ call[h].pc = "saveCandidate"
    /\ candidates' = candidates \cup {call[h].shot}
    /\ Goto(h, "saveMove")
    /\ UNCHANGED <<executions, runs, limit, usage, billed, facts>>

SaveMove(h) ==
    LET s == call[h].shot
    IN  /\ call[h].pc = "saveMove"
        /\ SaveExecution(s, call[h].rec)
        /\ selected' = IF call[h].rec.primary THEN selected \cup {s} ELSE selected
        /\ Return(h)
        /\ UNCHANGED <<runs, candidates, limit, usage, billed, budgeted>>

-----------------------------------------------------------------------------
(* SubmitShotForReview: the gate reads the execution again and checks that  *)
(* row, the candidates and the budget, but what is saved is the row that    *)
(* was read first.  The gate's other checks may fail at will: the request   *)
(* then stops.                                                              *)

BeginSubmit(h, s) ==
    /\ "submit" \in Calls
    /\ call[h] = Idle
    /\ executions[s] # Missing
    /\ call' = [call EXCEPT ![h] =
                  [Idle EXCEPT !.pc = "gateRow", !.shot = s,
                     !.rec = [executions[s] EXCEPT !.status = "submitted_for_review"]]]
    /\ UNCHANGED tables

HasPrimaryUnchecked(h) == TRUE
HasPrimary(h) == executions[call[h].shot].primary
HasCandidate(h) == call[h].shot \in candidates

GateRow(h) ==
    /\ call[h].pc = "gateRow"
    /\ IF HasPrimary(h) THEN Goto(h, "gateCandidates") ELSE Return(h)
    /\ UNCHANGED tables

GateCandidates(h) ==
    /\ call[h].pc = "gateCandidates"
    /\ IF HasCandidate(h) THEN Goto(h, "gateLimit") ELSE Return(h)
    /\ UNCHANGED tables

GateLimit(h) ==
    /\ call[h].pc = "gateLimit"
    /\ \E seen \in ReadLimit :
          call' = [call EXCEPT ![h].limit = seen,
                               ![h].pc = IF seen = 0 THEN "submit" ELSE "gateBudget"]
    /\ UNCHANGED tables

GateBudget(h) ==
    /\ call[h].pc = "gateBudget"
    /\ \/ Spent <= call[h].limit /\ Goto(h, "submit")
       \/ Spent > call[h].limit /\ Return(h)
       \/ "budget" \in Faults /\ Goto(h, "submit")
    /\ UNCHANGED tables

Submit(h) ==
    /\ call[h].pc = "submit"
    /\ SaveExecution(call[h].shot, call[h].rec)
    /\ Return(h)
    /\ UNCHANGED <<runs, candidates, limit, usage, billed, facts>>

SubmitStep(h) ==
    GateRow(h) \/ GateCandidates(h) \/ GateLimit(h) \/ GateBudget(h) \/ Submit(h)

-----------------------------------------------------------------------------

Next ==
    \E h \in Handlers :
        \/ \E s \in Shots :
              \/ \E cost \in Costs : BeginRun(h, s, cost)
              \/ \E move \in Moves : BeginMove(h, s, move)
              \/ BeginSubmit(h, s)
        \/ \E l \in Limits : BeginSetBudget(h, l)
        \/ StartRunStep(h) \/ SubmitStep(h)
        \/ SetBudget(h) \/ SaveCandidate(h) \/ SaveMove(h)

Spec == Init /\ [][Next]_vars

-----------------------------------------------------------------------------
(* Properties. *)

PCs == {"idle", "number", "readLimit", "check", "insertExecution", "insertRun",
        "saveCurrent", "reserve", "saveBudget", "recordUsage", "recordEvent",
        "setBudget", "saveCandidate", "saveMove", "gateRow", "gateCandidates",
        "gateLimit", "gateBudget", "submit"}
Statuses == {"none", "in_progress", "candidate_ready", "primary_selected",
             "submitted_for_review", "rework_required", "approved_for_use"}
Executions == [status : Statuses, current : RunNumbers \cup {0}, primary : BOOLEAN]

(* Type invariant; in particular a row is never half of one status and half *)
(* of another: "none" is no execution at all.                               *)
TypeOK ==
    /\ executions \in [Shots -> Executions]
    /\ \A s \in Shots : executions[s].status = "none" => executions[s] = Missing
    /\ runs \in [Shots -> Seq([number : RunNumbers, cost : Costs])]
    /\ candidates \subseteq Shots
    /\ limit \in Limits \cup {0}
    /\ usage \in [Charges -> Nat]
    /\ billed \in [Charges -> Nat]
    /\ selected \subseteq Shots
    /\ budgeted \in BOOLEAN
    /\ call \in [Handlers ->
                   [pc : PCs, shot : Shots \cup {None}, found : BOOLEAN,
                    rec : Executions, number : RunNumbers \cup {0},
                    cost : Costs \cup {0}, limit : Limits \cup {0}]]

(* Runs are numbered 1, 2, 3, ... in the order in which they are recorded,  *)
(* though requests number them from lists that are stale or cut short.      *)
RunNumbersDense ==
    \A s \in Shots : \A i \in DOMAIN runs[s] : runs[s][i].number = i

(* Starts that race past the budget check overspend by no more than the    *)
(* runs of the other requests in progress, even while the limit changes.   *)
SpendBounded ==
    "budget" \notin Faults =>
        Spent <= Max(Limits \cup Costs) + (Cardinality(Handlers) - 1) * Max(Costs)

(* Money is charged for recorded runs only, and once; a run is announced as *)
(* reserved after it is charged, and the current run of an execution is a   *)
(* recorded one.  In a project that has a budget every recorded run is      *)
(* charged in full and announced, unless its request is still at it.        *)
CostOf(c)     == {run.cost : run \in {runs[c[1]][i] : i \in DOMAIN runs[c[1]]}
                                    \cap [number : {c[2]}, cost : Costs]}
InProgress(c) == \E h \in Handlers : Charge(h) = c /\ call[h].pc # "idle"
ChargesMatchRuns ==
    /\ \A c \in Charges :
          /\ usage[c] \in {0} \cup CostOf(c)
          /\ billed[c] \in {0, usage[c]}
          /\ budgeted /\ "budget" \notin Faults /\ ~InProgress(c) =>
                \A cost \in CostOf(c) : usage[c] = cost /\ billed[c] = cost
    /\ \A s \in Shots : executions[s].current \in {0} \cup Numbers(runs[s])

(* What is in review has passed the gate: it has a candidate, and a primary *)
(* asset was chosen for it, whatever stale rows were saved since.           *)
SubmittedIsGated ==
    \A s \in Shots : executions[s].status = "submitted_for_review" =>
        s \in candidates /\ s \in selected

(* A task that would exceed the budget is blocked. *)
NeverOverspent == limit # 0 => Spent <= limit
=============================================================================
