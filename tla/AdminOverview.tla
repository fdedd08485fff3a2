---------------------------- MODULE AdminOverview ----------------------------
(***************************************************************************)
(* The overview page of the admin console (useAdminOverviewController).    *)
(* It shows the project's budget and reviews (the overview), and what      *)
(* blocks a release (the operations overview): those of budget and review  *)
(* are derived from the overview, those of workflow runs and import        *)
(* batches are read after it.  An event about a run or a batch reads the   *)
(* second part again, with the overview of the moment the event came; an   *)
(* event about budget or review is only merged into the recent changes.    *)
(* The controller loads the overview whatever page of the console is open, *)
(* and the console has events only while there is one.                     *)
(*                                                                         *)
(* The server is external: one shot execution with its evaluations and     *)
(* reviews, one workflow run, one import batch, and the project's budget.  *)
(***************************************************************************)
EXTENDS ScreenRequests, Integers, SequencesExt

CONSTANTS
    MaxReports,     \* bound: changes on the server
    MaxGlances      \* bound: moves of the operator and faults, together

ASSUME OverviewBounds == MaxReports \in Nat /\ MaxGlances \in Nat

Limits == 0..2
BlockerKinds == {"budget", "review", "workflow", "asset"}
AlertKinds == {"workflow_failed", "workflow_running", "asset_attention"}

(* What the page shows of its two parts, and from which states of the      *)
(* server.                                                                 *)
Overviews ==
    [limit : Limits \ {0}, remaining : Int,
     evaluation : {"pending", "passed", "failed"}, review : {"none", "approved", "rejected"},
     latestConclusion : {"pending", "approved", "rejected"},
     recent : [billing : {"reserved", "pending", "updated"},
               evaluation : {"pending", "passed", "failed"},
               review : {"pending", "approved", "rejected"}],
     budgetAt : Nat \ {0}, summaryAt : Nat \ {0}]
OperationsOverviews ==
    [blockers : SUBSET BlockerKinds, alerts : SUBSET AlertKinds,
     runAt : Nat \ {0}, batchAt : Nat \ {0}]

ASSUME BlankShowsNothing == Blank \notin Overviews /\ Blank \notin OperationsOverviews

VARIABLES
    overviewRoute,      \* the route is the overview: operationsEnabled
    overview,           \* the overview shown, or Blank
    operationsOverview, \* the blockers and alerts shown, or Blank
    overviewError,      \* there is an error message, which replaces the page
    budgetLimit,        \* the limit typed, 0 where there is no field
    requests,           \* the asynchronous functions running, oldest first
    worlds,             \* the states of the server, newest last
    news,               \* events published, in order, that may still come
    glances,            \* how many bounded moves there were
    overtaken           \* what need not be current: "limit", "operations",
                        \* "recent", "error"

overviewVars == <<overviewRoute, overview, operationsOverview, overviewError, budgetLimit,
                  requests, worlds, news, glances, overtaken>>
reportedVars == <<worlds, news>>

Latest == worlds[Len(worlds)]
Glance == glances < MaxGlances /\ glances' = glances + 1

-----------------------------------------------------------------------------
(* The server's lists are ordered by id, and an id is a random UUID.       *)

Unreported ==
    [limit |-> 1, reserved |-> 0, evaluations |-> <<>>, reviews |-> <<>>,
     run |-> "none", batch |-> "none"]

FirstListed(list) == CHOOSE x \in Range(list) : \A y \in Range(list) : x.id <= y.id
LastListed(list) == CHOOSE x \in Range(list) : \A y \in Range(list) : x.id >= y.id

FirstOr(list, none) == IF list = <<>> THEN none ELSE FirstListed(list).says

(* The last of that list is taken for the latest review.                   *)
GetShotReviewSummary(w) ==
    IF w.reviews = <<>> THEN "pending" ELSE LastListed(w.reviews).says

(* Reads of states n of the server, sent at once: each answers for itself. *)
OverviewOf(budget, billing, evaluation, review, summary) ==
    LET evaluated == FirstOr(worlds[evaluation].evaluations, "pending")
        latest == GetShotReviewSummary(worlds[summary])
        first == FirstOr(worlds[review].reviews, "none") IN
    [limit |-> worlds[budget].limit,
     remaining |-> worlds[budget].limit - worlds[budget].reserved,
     evaluation |-> evaluated, review |-> first, latestConclusion |-> latest,
     recent |-> [billing |-> IF worlds[billing].reserved > 0 THEN "reserved" ELSE "pending",
                 evaluation |-> evaluated,
                 review |-> IF first = "none" THEN latest ELSE first],
     budgetAt |-> budget, summaryAt |-> summary]

loadAdminOverview(since) ==
    LET at == since..Len(worlds) IN
    {OverviewOf(b, i, e, r, s) : b \in at, i \in at, e \in at, r \in at, s \in at}

-----------------------------------------------------------------------------
(* What blocks a release.  A batch is pending, and blocked, until it is    *)
(* confirmed.                                                              *)
buildReleaseBlockers(o, run, batch) ==
    {kind \in BlockerKinds :
        \/ kind = "budget" /\ o.remaining <= 0
        \/ kind = "review" /\ \/ o.evaluation # "passed"
                              \/ (IF o.review = "none" THEN o.latestConclusion
                                                       ELSE o.review) # "approved"
        \/ kind = "workflow" /\ run = "failed"
        \/ kind = "asset" /\ batch = "uploaded"}

buildRuntimeAlerts(run, batch) ==
    {kind \in AlertKinds :
        \/ kind = "workflow_failed" /\ run = "failed"
        \/ kind = "workflow_running" /\ run = "running"
        \/ kind = "asset_attention" /\ batch = "uploaded"}

OperationsOf(o, run, batch) ==
    [blockers |-> buildReleaseBlockers(o, worlds[run].run, worlds[batch].batch),
     alerts |-> buildRuntimeAlerts(worlds[run].run, worlds[batch].batch),
     runAt |-> run, batchAt |-> batch]

loadAdminOperationsOverview(o, since) ==
    LET at == since..Len(worlds) IN {OperationsOf(o, r, b) : r \in at, b \in at}

-----------------------------------------------------------------------------
(* Every function remembers whether it was made on the overview, and when  *)
(* its last request was sent.  The second part keeps the overview it is    *)
(* for, a command the limit it asks for.                                   *)
Asked(kind, enabled, phase, o, limit) ==
    [kind |-> kind, phase |-> phase, enabled |-> enabled, since |-> Len(worlds),
     of |-> o, limit |-> limit]

loadOverviewState(enabled) == Asked("load", enabled, "overview", Blank, 0)

LimitField(route, o) == IF route /\ o # Blank THEN o.limit ELSE 0

(* The operator comes to the overview or leaves it, by the navigation, a   *)
(* blocker's or an alert's button, or the browser's buttons.  The load     *)
(* under way is cancelled, for what it reads depends on the route.         *)
SwitchOverview ==
    LET kept == Cancel(requests, "load") IN
    /\ Glance
    /\ overviewRoute' = ~overviewRoute
    /\ requests' = Append(kept, loadOverviewState(overviewRoute'))
    /\ budgetLimit' = LimitField(overviewRoute', overview)
    /\ overtaken' = (IF kept = <<>> THEN {} ELSE overtaken)
    /\ UNCHANGED <<overview, operationsOverview, overviewError, reportedVars>>

TypeLimit(limit) ==
    /\ Glance /\ overviewRoute /\ overview # Blank /\ limit # budgetLimit
    /\ budgetLimit' = limit
    /\ UNCHANGED <<overviewRoute, overview, operationsOverview, overviewError, requests,
                   reportedVars, overtaken>>

(* Nothing disables the button while an update runs.                       *)
onUpdateBudgetLimit ==
    /\ Glance /\ overviewRoute /\ overview # Blank
    /\ UNCHANGED <<overviewRoute, overview, operationsOverview, overviewError, budgetLimit,
                   reportedVars, overtaken>>
    /\ requests' = Append(requests, Asked("budget", TRUE, "asked", Blank, budgetLimit))

-----------------------------------------------------------------------------
(* The server.                                                             *)

Report(w, events) ==
    /\ Len(worlds) <= MaxReports
    /\ worlds' = Append(worlds, w)
    /\ news' = news \o events

About(kind, says) == <<[kind |-> kind, says |-> says]>>

SetProjectBudget(limit) ==
    limit > 0 /\ Report([Latest EXCEPT !.limit = limit], About("billing", "updated"))

FreeIds(list) == 1..MaxReports \ {list[i].id : i \in DOMAIN list}

CreateShotReview(id, says) ==
    /\ id \in FreeIds(Latest.reviews)
    /\ Report([Latest EXCEPT !.reviews = Append(@, [id |-> id, says |-> says])],
              About("review", says))
CreateEvaluationRun(id, says) ==
    /\ id \in FreeIds(Latest.evaluations)
    /\ Report([Latest EXCEPT !.evaluations = Append(@, [id |-> id, says |-> says])],
              About("evaluation", says))

(* A shot run that is charged is no event.                                 *)
ChargeRun == Report([Latest EXCEPT !.reserved = @ + 1], <<>>)

(* The engine publishes a run it saved, the callbacks of a render do not.  *)
MoveRun(to) ==
    /\ to # Latest.run
    /\ \E events \in {About("workflow", to), <<>>} :
          Report([Latest EXCEPT !.run = to], events)
MoveBatch(to) == to # Latest.batch /\ Report([Latest EXCEPT !.batch = to], About("asset", to))

OthersReport ==
    /\ \/ \E limit \in Limits : limit # Latest.limit /\ SetProjectBudget(limit)
       \/ \E id \in 1..MaxReports :
             \/ \E says \in {"approved", "rejected"} : CreateShotReview(id, says)
             \/ \E says \in {"passed", "failed"} : CreateEvaluationRun(id, says)
       \/ ChargeRun
       \/ \E to \in {"running", "failed"} : MoveRun(to)
       \/ \E to \in {"uploaded", "confirmed"} : MoveBatch(to)
    /\ overtaken' = overtaken
          \cup (IF Latest.limit # worlds'[Len(worlds')].limit THEN {"limit"} ELSE {})
          \cup (IF Latest.run # worlds'[Len(worlds')].run /\ news' = news
                THEN {"operations"} ELSE {})
    /\ UNCHANGED <<overviewRoute, overview, operationsOverview, overviewError, budgetLimit,
                   requests, glances>>

(* updateBudgetPolicy is executed, after which the page is refreshed;      *)
(* its answer can get lost; or it is refused.                              *)
ServeBudget(i) ==
    LET r == requests[i] IN
    /\ r.phase = "asked"
    /\ \/ /\ SetProjectBudget(r.limit)
          /\ \/ /\ requests' = [requests EXCEPT ![i].phase = "overview",
                                                ![i].since = Len(worlds')]
                /\ UNCHANGED <<glances, overtaken>>
             \/ /\ Glance /\ requests' = RemoveAt(requests, i)
                /\ overtaken' = overtaken \cup {"limit"}
       \/ /\ r.limit > 0 => Glance
          /\ r.limit = 0 => UNCHANGED glances
          /\ requests' = RemoveAt(requests, i)
          /\ UNCHANGED <<reportedVars, overtaken>>
    /\ UNCHANGED <<overviewRoute, overview, operationsOverview, overviewError, budgetLimit>>

-----------------------------------------------------------------------------
(* Answers.                                                                *)

(* What is no longer current when an older overview replaces a newer.      *)
OverviewSlips(o) ==
    IF overview = Blank THEN {}
    ELSE {slip \in {"limit", "recent"} :
            \/ slip = "limit" /\ o.budgetAt < overview.budgetAt
            \/ slip = "recent" /\ \E kind \in {"evaluation", "review"} :
                  o.recent[kind] = "pending" /\ overview.recent[kind] # "pending"}

OperationsSlips(p) ==
    IF operationsOverview # Blank /\ (\/ p.runAt < operationsOverview.runAt
                                      \/ p.batchAt < operationsOverview.batchAt)
    THEN {"operations"} ELSE {}

(* applyLoadedState.  The budget field starts anew when the limit changed. *)
applyLoadedState(o, p) ==
    /\ overview' = o /\ operationsOverview' = p /\ overviewError' = FALSE
    /\ budgetLimit' = IF overview # Blank /\ o.limit = overview.limit
                      THEN budgetLimit ELSE LimitField(overviewRoute, o)
    /\ overtaken' = overtaken \cup OverviewSlips(o)
                              \cup (IF p = Blank THEN {} ELSE OperationsSlips(p))

(* The overview is read: on another page of the console that is all.       *)
TakeOverview(i) ==
    LET r == requests[i] IN
    /\ r.phase = "overview"
    /\ \E o \in loadAdminOverview(r.since) :
          IF r.enabled
          THEN /\ requests' = [requests EXCEPT ![i].phase = "operations", ![i].of = o,
                                               ![i].since = Len(worlds)]
               /\ UNCHANGED <<overview, operationsOverview, overviewError, budgetLimit,
                              overtaken>>
          ELSE requests' = RemoveAt(requests, i) /\ applyLoadedState(o, Blank)
    /\ UNCHANGED <<overviewRoute, reportedVars, glances>>

(* The blockers are read: after the overview they are for, or alone, which *)
(* clears the error of a load that failed meanwhile.                       *)
TakeBlockers(i) ==
    LET r == requests[i] IN
    /\ r.phase = "operations"
    /\ requests' = RemoveAt(requests, i)
    /\ \E p \in loadAdminOperationsOverview(r.of, r.since) :
          IF r.kind # "operations" THEN applyLoadedState(r.of, p)
          ELSE /\ operationsOverview' = p /\ overviewError' = FALSE
               /\ overtaken' = overtaken \cup OperationsSlips(p)
                    \cup (IF overview = Blank THEN {"error"} ELSE {})
                    \cup (IF overview # Blank /\ \E kind \in {"budget", "review"} :
                                (kind \in p.blockers) #
                                (kind \in buildReleaseBlockers(overview, "none", "none"))
                          THEN {"operations"} ELSE {})
               /\ UNCHANGED <<overview, budgetLimit>>
    /\ UNCHANGED <<overviewRoute, reportedVars, glances>>

(* A load that fails shows an error instead of the page, which also ends   *)
(* the subscription: what the others read meanwhile lands on nothing it    *)
(* could be older than.  The others leave the page as it is.               *)
TakeOverviewFailure(i) ==
    /\ Glance /\ requests[i].phase # "asked"
    /\ requests' = RemoveAt(requests, i)
    /\ IF requests[i].kind = "load"
       THEN /\ overview' = Blank /\ operationsOverview' = Blank /\ overviewError' = TRUE
            /\ budgetLimit' = 0
            /\ overtaken' = overtaken \cup IF Len(requests) > 1
                                           THEN {"limit", "operations", "recent"} ELSE {}
       ELSE /\ overtaken' = overtaken
                   \cup IF requests[i].kind = "budget" THEN {"limit"} ELSE {"operations"}
            /\ UNCHANGED <<overview, operationsOverview, overviewError, budgetLimit>>
    /\ UNCHANGED <<overviewRoute, reportedVars>>

-----------------------------------------------------------------------------
(* The recent-changes subscription, which is there while an overview is.   *)

(* Mutant: an import batch that changed is not read again.                 *)
RefreshesRunsOnly(event) == overviewRoute /\ event.kind = "workflow"

(* onWorkflowUpdated, onAssetImportBatchUpdated.                           *)
RefreshesOperations(event) == overviewRoute /\ event.kind \in {"workflow", "asset"}

(* The events that are recent changes.                                     *)
mapEventToRecentChange(event) == event.kind \in {"billing", "evaluation", "review"}

(* The change replaces the last one of its kind.                           *)
applyRecentChange(event) ==
    overview' = IF mapEventToRecentChange(event)
                THEN [overview EXCEPT !.recent[event.kind] = event.says] ELSE overview

subscribeAdminRecentChanges ==
    LET event == Head(news) IN
    /\ news # <<>> /\ overview # Blank
    /\ news' = Tail(news)
    /\ applyRecentChange(event)
    /\ requests' = IF RefreshesOperations(event)
                   THEN Append(requests, Asked("operations", TRUE, "operations", overview, 0))
                   ELSE requests
    /\ UNCHANGED <<overviewRoute, operationsOverview, overviewError, budgetLimit, worlds,
                   glances, overtaken>>

(* An event never comes: the channel of the stream was full, or the worker *)
(* process published it and a later event moved the cursor past it, or the *)
(* process that saved stopped before it published.                         *)
LoseReport ==
    LET event == Head(news) IN
    /\ news # <<>> /\ Glance
    /\ news' = Tail(news)
    /\ overtaken' = overtaken
          \cup (IF event.kind \in {"workflow", "asset"} THEN {"operations"} ELSE {})
          \cup (IF event.kind \in {"evaluation", "review"} THEN {"recent"} ELSE {})
    /\ UNCHANGED <<overviewRoute, overview, operationsOverview, overviewError, budgetLimit,
                   requests, worlds>>

-----------------------------------------------------------------------------
(* The console has just been opened.                                       *)
OverviewInit ==
    /\ overviewRoute = TRUE /\ overview = Blank /\ operationsOverview = Blank
    /\ overviewError = FALSE /\ budgetLimit = 0
    /\ worlds = <<Unreported>> /\ news = <<>>
    /\ requests = <<[kind |-> "load", phase |-> "overview", enabled |-> TRUE, since |-> 1,
                     of |-> Blank, limit |-> 0]>>
    /\ glances = 0 /\ overtaken = {}

OverviewNext ==
    \/ SwitchOverview
    \/ \E limit \in Limits : TypeLimit(limit)
    \/ onUpdateBudgetLimit
    \/ OthersReport
    \/ \E i \in DOMAIN requests :
          ServeBudget(i) \/ TakeOverview(i) \/ TakeBlockers(i) \/ TakeOverviewFailure(i)
    \/ subscribeAdminRecentChanges
    \/ LoseReport

OverviewSpec == OverviewInit /\ [][OverviewNext]_overviewVars

-----------------------------------------------------------------------------
OverviewTypeOK ==
    /\ overviewRoute \in BOOLEAN /\ overviewError \in BOOLEAN /\ budgetLimit \in Limits
    /\ overview \in Overviews \cup {Blank}
    /\ operationsOverview \in OperationsOverviews \cup {Blank}
    /\ operationsOverview # Blank => operationsOverview.runAt \in DOMAIN worlds
    /\ \A i \in DOMAIN requests :
          requests[i].phase \in {"asked", "overview", "operations"}
    /\ Len(worlds) \in 1..MaxReports + 1 /\ Len(news) <= MaxReports
    /\ overtaken \subseteq {"limit", "operations", "recent", "error"}

(* When no function runs, the overview page shows what it should.  Either  *)
(* there is an error, or once every event has come: what blocks a release  *)
(* follows from the overview shown and from the run and the batch as the   *)
(* server has them, the limit shown is the server's, and an evaluation or  *)
(* review that was recorded is among the recent changes.  One of them may  *)
(* be off only if a function that read earlier landed later, or landed on  *)
(* a page that a failed load had emptied meanwhile, one failed halfway, an *)
(* event about it was lost or never published, or (the limit) somebody     *)
(* else changed it, which no event makes the page read.                    *)
BlockersAreCurrent ==
    requests = <<>> /\ overviewRoute =>
        /\ overview = Blank => overviewError \/ "error" \in overtaken
        /\ overview # Blank /\ news = <<>> =>
              /\ "operations" \notin overtaken =>
                    /\ operationsOverview # Blank
                    /\ operationsOverview.blockers =
                           buildReleaseBlockers(overview, Latest.run, Latest.batch)
                    /\ operationsOverview.alerts = buildRuntimeAlerts(Latest.run, Latest.batch)
              /\ "limit" \notin overtaken => overview.limit = Latest.limit
              /\ "recent" \notin overtaken =>
                    /\ Latest.evaluations # <<>> => overview.recent.evaluation # "pending"
                    /\ Latest.reviews # <<>> => overview.recent.review # "pending"

(* The conclusion the overview reports as the latest is that of the newest *)
(* review there was when it was read.  (Refuted: reviews are ordered by    *)
(* their random id.)                                                       *)
LatestReviewIsReported ==
    overview # Blank /\ worlds[overview.summaryAt].reviews # <<>> =>
        overview.latestConclusion = Last(worlds[overview.summaryAt].reviews).says
=============================================================================
