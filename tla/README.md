# Hualala: a TLA+ model

Hualala is a platform for producing series with generative AI: projects hold
scripts, shots and assets; shots are executed by paid model calls under a
budget; previews and audio mixes are rendered; uploads, reviews and
collaboration go around them. The backend is written in Go (`apps/backend`),
runs as an API process and worker processes, and keeps everything in
PostgreSQL. Two browser apps written in TypeScript and React are its clients,
through a shared SDK: the creator app (`apps/creator`) and the admin console
(`apps/admin`). Both the backend and the apps are modelled.

What makes the backend worth modelling is one habit of its services: they read
rows, decide, and save **whole rows** back, one statement at a time, with no
transaction around them, no version check, and reads that report "not found"
when they fail. Which promises survive that is hard to see from the code and
nearly impossible to test. The only guards that hold across processes are unique
indexes and the claim of a job (`FOR UPDATE SKIP LOCKED`).

The apps have a habit of their own: a page starts asynchronous functions (loads,
silent refreshes on events, handlers) that write what they read into the page when
they end, and only some of them notice that the user has moved on, edited on, or
that something newer has been read. What a page shows once everything has come in
depends on the order of the answers, which no test of the repository varies much.

## Inventory

| Part | State | Operations | Talks to | Hard behaviour | What makes it correct |
|---|---|---|---|---|---|
| Workflow engine (`workflowapp`, `platform/db/postgres_store_review_workflow.go`) | `workflow_runs`, `workflow_steps`, `jobs`, `state_transitions` | start, retry, cancel, process the next job | gateway, policy, store; called by RPC, by renders, by the worker | stale saves by requests and workers, death between two saves, late results, attempts that race | an attempt runs once, in order, after a recorded failure; one job per attempt; statuses are earned; queued runs end |
| Model gateway (`gatewayapp`) | `gateway results` under an idempotency key | execute | provider adapters | a result that cannot be saved; a call repeated by a retry | the call takes effect once |
| Worker and API processes (`cmd/`, `platform/temporal`) | none | poll, execute | engine | crash with a claimed job | every claimed job is settled |
| Policy (`policyapp`) | none | retry, cancel, budget, upload and reuse rules | engine, executions, uploads | rules are evaluated on records that are stale by the time of the save | |
| Shot execution (`executionapp`) | `shot_executions`, `shot_execution_runs` | start run, select primary, gate, submit, rework, approve | billing, assets | numbering and saving races; a gate that checks one row and saves another | dense run numbers; what is in review was gated |
| Billing (`billingapp`) | `budget_policies`, `usage_records`, `billing_events` | set budget, reserve | executions | check before charge; three saves for one charge | money is charged for recorded runs, once, within the limit |
| Render runtime (`projectapp/service_{preview,audio}_runtime.go`) | `preview_runtimes`, `audio_runtimes` | request a render, apply an update | engine, renderer callbacks | callbacks late, repeated, out of order; a request cut between run and runtime | a queued render has a run and a job; a failed one can be rendered again |
| Event stream (`platform/events`, `interfaces/sse`, `db/postgres_events.go`, SDK) | ring of 256 events, `event_outbox`, subscribers and their channels, the client's cursor | publish, subscribe, replay, stream | every service | subscribe racing publish, dropped events, cursors, two ids for an event | a connected client gets each event behind its cursor, once |
| Upload sessions (`interfaces/upload`) | `upload_sessions`, files, assets, candidates, import items | create, retry, complete | assets, executions | two completes; failure after the session is marked uploaded | one asset per session |
| Collaboration (`contentapp`) | sessions, presences | take, keep and release the edit lease | clients | two users claim at once; a conflict saved over a newer row | one holder at a time |
| Assets and imports (`assetapp`) | media assets, candidates, batches | add a candidate, confirm items | executions | batch confirmation item by item | |
| Organisations and sessions (`orgapp`, `authapp`) | roles, members, cookies | change roles and members, start and end a session | admin and creator apps | a check before a write, twice at once | someone can still govern |
| Model governance (`modelgovernanceapp`) | prompt templates in versions, model profiles | draft, update, publish | admin console | publishing archives the others one by one | one published version |
| Reviews (`reviewapp`) | reviews, evaluation runs | record, summarise | executions, overview | "latest" by random id | the summary tells the newest |
| Backup (`backupapp`) | packages | create, preflight, restore | admin console | a restore replaces everything | what is applied was compared first |
| Creator shell (`creator/src/app`, `features/home`, `features/session`) | route, history, session, remembered project, data of each page | move between pages, start and clear a session | every creator page | functions that end after their page was left | the page shown is the route's |
| Creator screens (shot, import, collaboration, preview and audio runtimes) | the data shown, feedback, the event stream | load, refresh silently, act | services, events | answers that overtake each other, moves, cuts | a quiet screen is current |
| Draft editors (preview assembly, audio timeline) | the draft | edit, reorder, save, switch language | project service | replies laid over later edits | the user's work is kept |
| Asset reuse pages | shot, library, provenance | apply an asset, audit it | assets, policy | three copies of one rule; a command racing a load | the page shows its shot; the rules agree |
| Admin monitors (workflow, assets) | list, filter, dialogs, ticked items | select, act, refresh | services, events | a dialog closed under an action | one action at a time; a quiet page is current |
| Admin backup, governance and overview pages | packages and preflight; two panels and their forms; blockers and budget | select, act, reload | services, events | an answer lost halfway; two panels that depend on each other; refreshes with old inputs | a restore follows its preflight; panels agree; blockers are current |
| Projects, content, stores, RPC, generated SDK code | their rows | plain saves, reads, encoding | | little; see "Not modelled" | |

## Modules

    AttemptContract         what the engine promises of attempts (abstract)
    WorkflowEngine          requests, workers and tables; implements it
      WorkflowInvariant     the inductive invariant
        WorkflowProofs      theorems, for every value of the constants
        MCWorkflow          for TLC
    RenderRuntime           renders and callbacks over INSTANCE WorkflowEngine
      RenderProofs          its inductive invariant and theorems
      MCRenderRuntime       for TLC
    ShotExecution           shot executions and the budget
      ShotProofs            its inductive invariant and theorems
      MCShotExecution       for TLC
    EventStream             publishers, the outbox and clients that reconnect
      EventProofs           its inductive invariant and theorems
      MCEventStream         for TLC
    UploadSession           uploads into one import batch
    CollabLease             the edit lease of a shot or scene
    UnderWay                the functions of a page that run
      WorkLemmas            lemmas about them, and about sequences
    ScreenRequests          what the pages ask of the server
      Screens               a screen kept current by events
      DraftEditor           the two editors that keep a draft
      CreatorShell          routes, session and home of the creator app
      AssetReuse            the reuse page, its audit and the rule
      AdminConsole          the workflow and asset monitors
      AdminBackup           the backup page
      GovernancePage        roles and models: the page and the services
      AdminOverview         the overview page
        ScreenProofs        inductive invariants and theorems of Screens,
                            AdminConsole and AdminOverview
        PageProofs          inductive invariants and theorems of DraftEditor,
                            CreatorShell, AssetReuse, AdminBackup, GovernancePage
        MCWorkspace         the pages, uploads and the lease, for TLC
          WorkspaceProofs   inductive invariants and theorems of UploadSession and
                            CollabLease, and what holds of all of them together

### WorkflowEngine

| Variable | Code |
|---|---|
| `runs[r]` | the row of `workflow_runs`: status and `attempt_count`; `Absent` is a missing row |
| `steps`, `jobs`, `trail` | `workflow_steps` (a set, with step key and order), `jobs` (a sequence, the index is the id), the newest row of `state_transitions` |
| `results`, `effects` | whether a gateway result is saved under the run's key; how often the provider did the work |
| `call[h]`, `work[w]` | the locals of a request and of `processWorkflowJob`: where it is and the record it read |
| `ledger` | history only: set where the executor is called and where the run is settled |

A run stands for one idempotency key (`normalizeIdempotencyKey`), which the
unique index on `workflow_runs` makes one row. Every statement of
`StartWorkflow`, `RetryWorkflowRun`, `CancelWorkflowRun` and
`processWorkflowJob` is an action, in the order of the code: for a retry
`BeginRetry`, `SaveQueuedRun`, `LogQueued`, `SaveDispatchStep`, `EnqueueJob`;
for a cancel `BeginCancel` ... `LogCancelled`; for a worker `ClaimJob` ...
`LogEnd`. The two unique indexes on steps are `CanInsert`. `Faults` chooses what
may go wrong: `"abort"` (a process dies or a save fails, so what was saved stays),
`"read"` (any read reports an empty answer, as the store does when a query
fails), `"gatewaySave"` (the result of a provider call is not saved, or is saved
and reported as failed). A provider error needs no fault.

Left out: publishing (nothing reads it back), error texts, timestamps, and the
jobs' payloads, which name the run and the attempt. `ProcessNextWorkflowJob`
fails a job whose payload does not parse; the only writer of payloads is
`enqueueWorkflowJob`, which writes well-formed ones.
Runs written by render callbacks are `RenderRuntime`'s subject.

### RenderRuntime

Instantiates the engine and adds the runtime rows (`runtimes`), what a render
request holds in memory (`asks`) and what a callback holds (`updates`). `kind`
chooses preview or audio for each runtime: `RequestPreviewRender` starts its
workflow statement by statement and saves the runtime last
(`StartPreview`, `StartingPreview`, `SavePreview`), `RequestAudioRender` saves
all of it in `SaveAudioRuntimeAndWorkflowDispatch`, one transaction
(`StartAudio`); the callbacks differ the same way (`SaveUpdate`,
`SavePreviewRun`). The renderer is external: once a provider call took effect it
may report anything in `Reports`, any number of times. The key of a render's
workflow run is made of its type and its runtime, so one constant names both.

### ShotExecution

One project. `executions`, `runs`, `candidates`, `limit`, `usage` and `billed`
are rows, `call[h]` a request's locals; `selected` and `budgeted` are history.
`GetBudgetByProject` is two statements in the code (the policy, then the sum) and
two actions here. A request may stop anywhere by taking no further step (the
specification has no fairness), which stands for a cut-off request, a crash and a
failed save alike. `Faults` has `"read"` (executions, run lists) and `"budget"`
(the policy or its sum). The gate's checks on shots, assets' rights, labels and
locales read data nothing here changes; a request they refuse is one that stops.

### EventStream

The events of one project. `outbox` is the table; `ring`, `nextID` and the
subscriptions belong to the publisher of the API process; `pub[p]` is what a call
of `PublishWithContext` holds, `conn[c]` what the handler of a connection holds
(`replay`, `replayed`, its channel `chan`), and `cursor[c]` what the SDK stores.
`sent`, `early`, `listed`, `remote` and `dropped` are history. The publisher
releases its lock around the append, so a publication is five steps: `Begin` (the
caller takes the event's time), `Select` (id and subscribers), `AppendRow`,
`Record`, `Send`; a connection is `Connect`, `ListRows`, `Merge`, then
`WriteReplay` and `WriteLive` until `Cut`. The worker process has a publisher of
its own without subscribers (`db/postgres_store.go` makes one per store): its
publications end with the append. An event is a number, its place in the order of
`(created_at, id)` by which rows are listed; that the clocks of the processes agree
is assumed. `Merged` is any order by creation of the listed rows and the local
records of the ring: an event may be among both, under two ids, either of which may
be the smaller. Writing to the socket and storing the cursor are one step: what is
written and not received before a cut is the same as not written. `Faults`:
`"append"` and `"reply"` (the insert fails, or its reply is lost), `"list"` (the
replay falls back to the ring), `"restart"`.

### UploadSession

One import batch and several sessions. `uploads` are the rows of the sessions,
`imports` what completed uploads saved: a complete saves the session as
uploaded and then up to seven rows, one statement each, and a run of these rows is
one entry of `imports`, with the set of rows that were reached. `uploadWork` holds
the requests under way with what they read and what they have left to save;
`Stop` ends one after any statement. `BatchConfirmImportBatchItems` confirms items
one by one and then the batch. `uploadSlips` is history: which session was saved
over a newer row ("stale"), cut short ("cut") or confirmed in part ("skipped").

### CollabLease

One row `lease` and a row of `presence` for each user; `call[u]` is the request of
a user: what it is, how far it came, and the row it read. A claim reads or inserts
the row, writes the presence, decides by what it read and saves the row whole; a
refusal saves it whole as well, with the note of the conflict. `counted[u]` is
until when a user was told that it holds the lease and `doubtful` the users whose
lease a save has overwritten or brought back; both are history. Time is counted in
ticks, and a lease lasts `LeaseTTL` of them. Notes, draft versions and the event
published last are left out.

### ScreenRequests and Screens

`ScreenRequests` lists, for every loader, mutation and handler of the pages, which
requests it sends together and which one after another. `Screens` runs the
controllers of eight pages that share one shape: a page shows one owner (a shot, a
batch, a session, a runtime), loads it when the route names it, refreshes it
silently on events, and sends commands. Where they differ (whether a load is
guarded, refreshes are coalesced, the stream waits for the data, the answer of a
command is shown) a record of each controller says (`useShotWorkbenchController`
... in `ScreenRequests`, the table `Screen` in `Screens`). `view`, `note` and
`file` are the page's state, `calls` the asynchronous functions running, `queue`
the hook `useQueuedSilentRefresh`, `stream` and `stored` the subscription and the
cursor, `log` the server. A request takes effect in `Answer` and reaches the page
in `Land`. The server is a version for each owner.

### DraftEditor

`drafts` are the items of the preview assembly or the audio timeline; `jobs` the
loads and saves on their way; `saved` the server's items. An item's title has a
language (preview), its time fields a value (audio). `wanted` is history: what the
user made of the draft. Audio tracks and the asset pool are one list.

### CreatorShell

`App.tsx` with its URLs (`parseCreatorRouteState`, `buildCreatorRouteUrl`), the
browser's history, the session gate, the home page, and per page whose data it
has. `Render` fires the effects whose dependencies changed, in the order of the
code; `CreatorWorkspaceShell` is which page is shown. Functions of a page other
than its load write it whenever they end (`EndFunction`).

### AssetReuse

The picker and the audit with their loads, commands and provenance dialogs, and
the rule for using an asset of another project, which the code writes three times:
`decideReuseEligibility` (page), `decideAdminReuseEligibility` (audit) and
`EvaluateAssetReusePolicy` (server).

### AdminConsole, AdminBackup, GovernancePage, AdminOverview

`AdminConsole` runs the workflow and asset monitors: a chain of reads after an
action or an event, each written as it arrives, for the filter and the item of the
moment it was made. `AdminBackup` runs the backup page; the selection is a
dependency of its load. `GovernancePage` has both panels and, unlike the other
pages, the services behind them: a command is checked in one step (`ServeCheck`)
and written in the next (`ServeWrite`), so two commands cross. `AdminOverview` has
the overview and its blockers, of which the second part is read again on events.
In all four `slips`, `unwatched`, `governanceSlips` and `overtaken` are history:
what has gone wrong in a way the code does not make good.

### MCWorkspace

A behaviour is about one of ten subjects (the variable `page`): eight kinds of
pages, uploads, or the lease. They share no variable, so one run explores each of
them in full, and their product, which shows nothing more, is left out.

## Runs

| Run | Question | Bounds |
|---|---|---|
| `workflow_races` | do the engine's promises survive every interleaving? | 1 run, 2 requests, 2 workers, 2 attempts, start, retry and cancel |
| `workflow_crashes` | ... and processes that die and reads that fail? | 1 run, 1 request at a time, 2 workers, 2 attempts |
| `workflow_settles` | do queued runs end, and agree with their job and step? | 2 runs, 1 request at a time, 1 worker, 2 attempts, gateway saves that fail |
| `workflow_late` | is a late result dropped after a cancel? (no) | 1 request, 1 worker |
| `shot_execution` | numbering, charges, bounded overspending, gating | 1 shot, 2 requests, up to 3 runs, costs 0 and 2, limit 3 |
| `shot_overspend` | is a start that exceeds the budget always blocked? (no) | 2 shots, 2 requests, cost 2, limit 3 |
| `render_runtime` | do runtime, run and callbacks stay together? | 1 runtime of either kind, 2 requests, 1 worker, 1 callback at a time, 2 attempts |
| `render_recovery` | can a failed render be rendered again? (no) | 1 request, 1 worker, 1 callback, all reports, 3 attempts |
| `event_stream` | does a client get every event behind its cursor, no id twice? | 1 client, 2 publications in the API process and 1 in a worker, 3 events, a channel of 1, a ring of 2, all faults |
| `workspace` | do pages stay current, keep the user's work and run one action at a time; do uploads settle, and is the lease held? | 2 owners, 2 languages, 2 events, 2 or 3 moves and faults, 2 sessions with 4 requests, 2 users with 4 requests |
| `latest_review` | is the latest conclusion that of the newest review? (no) | 2 reports on the server, 1 move |
| `event_dropped` | can what a full channel drops be recovered by a replay? (no) | 1 client, 1 publication at a time, 3 events, a channel of 1, no faults |

The bounds are small because the actors are interchangeable and runs do not
share rows: two runs meet only in a worker's choice of job (`workflow_settles`
has two) and two shots only in the budget (`shot_overspend` has two). Two
requests and two workers are the least for every race of a request with a
request, a worker with a worker, and one with the other; two attempts are the
least for a stale attempt (a stale record that skips one needs three, which the
proofs cover). Cost 2 under
limit 3 makes one run fit and two not, which is the only comparison the code
makes; cost 0 is the branch without a budget. With reads that fail a run list
can be cut short, which is why `shot_execution` allows a third run in the race.
Clients of the event stream share nothing but the publisher, so one is enough; a
channel of 1 (16 in the code) and a ring of 2 (256) overflow within three events,
and three events are the least for one that is delivered after one that is dropped.
Every property was also tried against a mutant of the code it is about
(PROJECT.json, "mutants"): a dropped guard, a missing index or a swapped save
makes each of them fail.

In `workspace`, two owners are the least for a page that moves; one page and one
other user change them, so two events and two or three moves and faults make every
pair of functions overlap with a move and an event between them. The bounds
differ by page: `MaxMoves` and `MaxEvents` (screens, together at most 3 in
`MCWorkspace`), `MaxActs` (commands under way), `MaxItems`, `MaxEdits` and
`MaxChanges` (editors, edits and changes together at most 4), `MaxTurns` and
`MaxHistory` (monitors), `MaxPackages`, `MaxRestores` and `MaxSteps` (backup, seven
steps: two packages, a preflight, a restore and a second one), `MaxTrips` (shell),
`MaxPicks` (reuse), `MaxForms` (governance), `MaxReports` and `MaxGlances`
(overview), `MaxRequests` and `MaxMoments` (uploads: a create and a complete for
each of two sessions, or two completes, a retry and a confirm of one), `MaxClaims`
and `MaxTicks` (lease: a claim, a renewal, another user's claim and a release, over
three ticks of a lease that lasts two, so that it runs out within the run). The
assets monitor is given one change of the server and three functions at a time,
the governance page two functions or edited forms at a time. The run has about a
million states and takes two to three minutes.

Deadlock is checked of the backend runs, not of `workspace` and `latest_review`,
whose users stop at their bounds. There clients may always call again up to the bounds,
and an idle state of the whole system only arises where `MaxAttempts` or
`MaxRuns` forbids more calls; none of the runs reaches one that has no step.

### Fairness

`workflow_settles` assumes weak fairness of a request that is being served and
of each worker's polling: `cmd/worker/main.go` polls in a loop without end, and a
request's goroutine is scheduled. Nothing is assumed of clients and nothing of
providers except that a call returns. It has one request at a time and no
crashes, because the code has no lease on claimed jobs and no repair of partial
saves: with a crash the property is false, and the hazards say so.
`render_recovery` assumes more, on the side of the code: clients that keep asking
and keep retrying (strong fairness) — the counterexample shows the runtime stays
failed even so.

### What the violations show

* `workflow_late`: a worker re-reads its job and run after the gateway answered
  and drops the result if they were cancelled. A cancel that saves the run after
  that look and before the worker's last save is overwritten, and the run ends
  completed or failed. The repository's test of the late result covers the
  cancel before the look.
* `shot_overspend`: the check adds the estimate to the recorded use; the use is
  recorded several statements later. `SpendBounded` states what is left of the
  promise: each request in progress can exceed the limit by its own cost.
* `render_recovery`: with PostgreSQL a second request for a runtime meets the
  unique idempotency key; the test that expects it to be queued uses the in-memory
  store, which has no such index. A retry of the run finds the saved result and
  reaches no renderer.
* `latest_review`: `GetShotReviewSummary` takes the last review of a list that is
  ordered by id, and ids are random; of two reviews the older can be reported.
* `event_dropped`: the first event fills the channel, the second is dropped, the
  third is delivered, and with it the cursor passes the second. The comment beside
  the drop counts on a replay that starts behind the cursor.

## Properties worth reading

* `KeepsContract` — the engine implements `AttemptContract` under the history
  variable `ledger`: attempts execute in order, each once, one at a time, a next
  one only after the failure of the one before was recorded.
* `StatusIsEarned` — no stale overwrite makes a status lie about its attempt.
* `TrailIsLegal` — no stale record makes a worker take up an ended run.
* `OneEffect` — a provider call is not repeated across retries and crashes.
* `QueuedRunsEnd`, `QuietRunAgrees` — runs end and the tables agree at rest.
* `ChargesMatchRuns` — charges, announcements, runs and current runs fit together
  in every state, with the exact exception of a request in between.
* `SubmittedIsGated` — although submit saves a row older than the one it checked.
* `QueuedRenderHasJob`, `AudioRunIsLinked`, `ExecutedOnce` — runtime and run stay
  together, and callbacks that rewrite the run's status cause no second execution.
* `NoGap` — what a client that is up to date has missed, exactly: of the events
  that reached the table after its replay was read, those its full channel dropped,
  those a worker published, and those whose publisher had chosen its subscribers
  before the client came. Everything else behind its cursor it has, whatever the
  interleaving and the faults, as long as rows could be listed and the cursor is a
  row. (Events created before the cursor and committed after it are outside the
  property; so are events that never reached the table.)
* `NoDuplicate` — no id twice on a connection; with the fault `"reply"` an event may
  come under two ids, which the code cannot tell.

* `UploadsSettle` — with no request under way a session is uploaded exactly if it
  has an import, one, with all its rows, and the batch is confirmed exactly if all
  of its items are; with the exceptions the code cannot exclude, each named.
* `LeaseIsHeld` — who was told that it holds the lease does, until it was told;
  so two users count on it only after a stale whole-row save.
* `QuietScreenIsCurrent`, `ForeignDataIsStray`, `SuccessIsShown` — a screen on which
  nothing is on its way shows the route's owner, no part older than the server's;
  another owner's data are there only because a function started for it wrote
  them; a success message stays true. The exceptions (a refresh that failed or was
  overtaken, events skipped by a stream that started after them) are what the
  pages do not make good.
* `WorkIsKept`, `TitlesFollowLocale` — what the user made of a draft survives loads
  and replies, except a reply to a save sent before the last edit, a second load
  of an audio timeline, and a failed load; titles follow the language.
* `MonitorSettles`, `OneAction` — a monitor shows what route and filter ask for once
  all is read; one action at a time, unless the dialog or page was closed under it,
  which clears the flag.
* `AppliesWhatWasChecked` — a restore follows a preflight of the same package made
  since the last restore, unless an answer was lost or the page left.
* `PageFollowsRoute`, `SessionIsOwn` — page and session are the route's and the
  user's; a function that ends after its page was left is the exception.
* `ReuseShowsItsShot` — the page shows its shot and its primary asset; page, audit
  and server agree on every asset.
* `PanelsAgree`, `SomeoneGoverns`, `OneActivePrompt` — the panels show what the
  session's permissions allow, nobody can lock the organisation out, one version is
  published; the last two unless two commands cross, which nothing prevents.
* `BlockersAreCurrent` — the release blockers follow from the overview shown and
  from the run and batch as the server has them.

Most of these are of the form "holds, except": the exceptions are history
variables, set only at the step where the code does what it does not make good
later, for the part of the page or the row it does it to. The exceptions of a
property are part of what it says of the code.

## Proofs

`WorkflowProofs` proves, for any finite or infinite sets of runs, requests and
workers, any bound on attempts and any faults:

| Theorem | States |
|---|---|
| `Invariance` | `Spec => []IndInv` |
| `TypeCorrect`, `StatusEarned`, `TrailLegal`, `JobsUnique`, `EffectOnce` | the safety invariants of the runs |
| `JobsOnlyAdvance` | `Spec => JobsNeverReopen` |
| `ImplementsContract` | `Spec => KeepsContract`, the refinement of `AttemptContract` |
| `QuietRunsAgree` | `ASSUME QuietCase PROVE Spec => []QuietRunAgrees` |

They rest on the assumptions `WorkflowEngine` names about its constants
(`MaxAttemptsAssumption`, `CallsAssumption`, `FaultsAssumption`), which TLC
evaluates in every run of the engine.

The safety properties are not inductive: that a failed status is earned depends
on what every request and worker still holds in memory and will save. `IndInv`
(`WorkflowInvariant`) therefore says, beside the types, who may be under way. Its
central idea is a token: attempt `a` of a run exists as a dispatch step; the
request that inserted it is the only one that will enqueue its job; the job is
claimed by one worker; and that worker is the only actor that executes, ends or
discards the attempt. A stale request or worker may still overwrite the row, but
only with a record whose status was earned when it was read. From this, each
action preserves each part; the proof has a lemma for an action and, under it, a
step for each part the action can disturb, and the properties follow from
`IndInv` and one step. TLC checks `IndInv` as an invariant in `workflow_crashes`.

`IndInv` has two halves. `BaseInv` (types, jobs, requests, workers, the ledger) says
nothing of what is in the table of runs, and is inductive on its own whoever writes
that table; the other parts need that only the engine does. The division is what
lets `RenderProofs` start from the engine's lemmas.

`QuietRunsAgree` has a hypothesis, `QuietCase`: at most one request at a time, no
cancellation, and no fault but the lost save of a gateway result. It is the case of
`workflow_settles`, for any number of runs, workers and attempts; outside it the
property is false (a cancellation meets a worker, or a statement fails between two
tables). That tables agree at rest says nothing of the states in between, so `QuietInv` says
what is still to be written while a run moves: the run leads (no job and no step
is of a later attempt), the request that queues an attempt holds the row it wrote,
and the run, the job and the gateway step of a worker are each at most one
statement behind the other (`WorksCurrent`). A run that nobody moves agrees
(`MovedOrAgrees`), and an actor that lets go of a run has just made it agree. That
two workers never hold jobs of one run at once follows from the first two parts.

`RenderProofs` proves, for any runs, requests, workers and callbacks, any faults
and any set of reports (`EngineAssumptions`, `ReportsAssumption`):

| Theorem | States |
|---|---|
| `RenderInvariance` | `Spec => []RenderInv` |
| `RenderTyped` | `TypeOK` |
| `RenderHasJob` | `QueuedRenderHasJob` |
| `AudioLinked` | `AudioRunIsLinked` |
| `RunsExecutedOnce` | `Spec => ExecutedOnce` |
| `RenderJobsUnique` | `OneJobPerAttempt` |

Callbacks overwrite the status and attempt of a run with what they read earlier,
and audio requests insert run, step and job past the engine, so most of `IndInv` is
false here: a run may be failed without a failed attempt. `RenderInv` keeps
`BaseInv` and adds how each request is tied to the engine: only a preview request
that is "starting" owns a call that starts a run, so every other call, job and
callback is about a run that exists; a request saves its runtime as queued only
behind the last statement of its call, when the job is there; a runtime stays
linked. Runs, first jobs, links and effects only ever come to be (`Grows`), which
carries these facts over the steps of others. That an audio transaction keeps
`BaseInv` (`InsertKeepsBase`) rests on the unique index of steps: if the dispatch
step of attempt 1 can be inserted, there is no job for it, nobody is about to
enqueue one, and nothing of it was executed. The instance `W` of `WorkflowProofs`
brings the engine's lemmas; the lemmas `Same...` say that its definitions and those
of `Engine`, the instance the model uses, are the same. TLC checked `RenderInv` on
the instance of `render_runtime` before it was proved.

`WorkspaceProofs` proves of the lease, for any set of users, any number of requests and
moments, and any length of a lease (`NobodyIsNoUser`, `LeasesLast`, `ClaimsAreBounded`):

| Theorem | States |
|---|---|
| `LeaseInvariance` | `LeaseSpec => []LeaseInv` |
| `LeaseHeld` | `LeaseSpec => []LeaseIsHeld`, the invariant of `workspace` |
| `LeaseIsExclusive` | of two users who count on the lease at once, one is in doubt |

`LeaseIsHeld` is not inductive: whether a save breaks it depends on what the request
read, when it decided and for how long. `LeaseInv` adds `CallsAgree`: a request that
was granted the lease read a row nobody else held, and since time only passes that
stays true of the row it read; its user is shown as editing for as long as it will
be told, which is not less than it was told before; a refused one read that another
user holds it; one that releases counts on nothing. A save then has two cases. If
the row is the one that was read, nobody else who is not in doubt can hold it. If
it is not, whoever held it is in doubt from then on (`SaveDoubts`). There is a lemma
for each action, and `QuietStep` for those that only move a request on.

`ShotProofs` proves, for any shots, any finite number of requests, any costs, limits
and failing reads, and any bound on runs (`CostsAssumption`, `LimitsAssumption`,
`MaxRunsAssumption`, `HandlersAssumption`; for `SpendBounded` also `ShotsAssumption`,
that the shots are finite, without which there is no sum):

| Theorem | States |
|---|---|
| `ShotInvariance` | `Spec => []ShotInv` |
| `ShotTyped` | `TypeOK` |
| `RunsAreDense` | `RunNumbersDense` |
| `ReviewIsGated` | `SubmittedIsGated` |
| `ChargesAgree` | `ChargesMatchRuns` |
| `SpendInvariance` | `Spec => []SpendInv` |
| `SpendIsBounded` | `SpendBounded` |

None of these is inductive, since a request saves what it read several statements
ago. `ShotInv` says what each request may still save. Numbers (`NumberFits`): the
number a request took is at most the next one, because lists it read were shorter or
cut short; so if the unique index lets it through it *is* the next one, which keeps
the runs dense. Its run then belongs to that request alone (`OneRequestPerRun`),
uncharged until it charges it, and is its own until it ends (`Settled`), so nothing is
charged twice and, with a budget, nothing is forgotten. Rows (`SavesFit`): a row in
memory names a recorded current run, carries the status its own command gives, and
had its primary asset if it says so, all of which stays true while others write.
`NumbersSuffice` shows that the numbers of the model (`RunNumbers`) are enough for
every request under way. TLC checked `ShotInv` on the instance of `shot_execution`
before it was proved.

`SpendBounded` needs `SpendInv` beside it: while the budget can be read, what was
charged and what the requests that passed the check are about to charge (`Ahead`) stay
within `SpendBound`. Where a request passes, what was charged and its own cost are
within one limit, and each other request has one run ahead of it at most. The sums
are folds over functions on finite sets; they are reasoned about through what changing
one value does to a sum (`TotalReplaced` and the lemmas beside it).

`EventProofs` proves, for any clients and publishers, any bound on events, any size
of ring and channels and any faults (`MaxEventsAssumption`, `SizesAssumption`):

| Theorem | States |
|---|---|
| `EventInvariance` | `Spec => []EventInv` |
| `EventsTyped` | `TypeOK` |
| `WrittenOnce` | `NoDuplicate` |
| `NothingMissed` | `NoGap` |

An event reaches a client by table, ring or channel, under the id of its row or
under a local number that a restart forgets. `EventInv` says of every event that a
client has not received where it is: in the hands of a publisher of the process
(`InHand`), in the channel, in the replay, or gone in one of the ways `NoGap` allows
(`Coming`, `GapFits`). For duplicates it says that an id names one event
(`ItemsNamed`), that ring and channels get an event once and only from the publisher
that holds it (`RingFits`, `ChanFits`), and that what was written was in the replay,
whose ids the connection skips, or is neither in the channel nor in a publisher's
hands any more (`SentFits`). `NumbersSuffice` shows that the numbers of the model
are enough: as many events exist as local numbers were given and are about to be.

`WorkspaceProofs` proves of uploads, for any sessions and any number of requests and of retries
(`UploadBounds`):

| Theorem | States |
|---|---|
| `UploadInvariance` | `UploadSpec => []UploadInv` |
| `UploadsTyped` | `UploadTypeOK` |
| `UploadsAreSettled` | `UploadsSettle`, the invariant of `workspace` |

`UploadsSettle` speaks of states with no request under way, so it says nothing of
the states on the way there. `UploadInv` says what each request has left to save
(`RequestFits`, `ChainFits`): unless a stale save brought the session back, a session
is uploaded by one complete, and that one alone begins its import (`UploadedOnce`); an
import without its item has a request that will save it, unless one was cut
(`RowsCome`); and with no confirm under way the status of the batch is right, or a
complete will save it (`BatchFits`). When no request is left, these are the
equivalences of `UploadsSettle`.

`PageProofs` proves of four of the pages, for any number of functions under way
and any order in which they end:

| Theorem | States |
|---|---|
| `BackupInvariance`, `BackupTyped` | `BackupSpec => []BackupInv`, `BackupTypeOK` |
| `AppliedAsChecked` | `AppliesWhatWasChecked` |
| `ShellInvariance`, `ShellTyped` | `ShellSpec => []ShellInv`, `ShellTypeOK` |
| `PageIsOfRoute`, `SessionBelongs` | `PageFollowsRoute`, `SessionIsOwn` |
| `GovernanceInvariance`, `GovernanceTyped` | `GovernanceSpec => []GovernanceInv`, `GovernanceTypeOK` |
| `SomeoneAlwaysGoverns`, `OnePromptActive`, `PanelsAlwaysAgree` | `SomeoneGoverns`, `OneActivePrompt`, `PanelsAgree` |
| `ReuseInvariance`, `ReuseTypes` | `ReuseSpec => []ReuseInv`, `ReuseTypeOK` |
| `ReuseShowsTheShot` | `ReuseShowsItsShot` |

The assumptions are `BackupBounds`, `OwnersAreNot` (neither `Off` nor `Blank` is an
owner), `SomeoneOperates` (the page has an operator) and `OffIsNothing` (`Off` is
neither a role nor a set of permissions).

`BackupInv` says what each action that has not ended carries: an answered
preflight knows how many restores there were, and a restore under way carries the
preflight that was shown when it was asked for, made after the last one; a
preflight shown knows of every restore but one that is ending. `ShellInv` ties the
data of every page to whether its controller is enabled and what it was last given:
`Render` runs the effects in order, so the proof follows a page through the loads,
the functions that end late, and the fallback from one page to another; the session
is tied to the call about it that is under way. `GovernanceInv` says that a command
that was checked and is about to be written is still allowed as long as no two
overlapped (`CommandsHold`): then writing it leaves someone who governs and one
published version. For the panels it says that one load of each is under way at
most (`OneLoad`), so that cancelling "the" load cancels every one, and that with no
load under way the second panel has the codes it would be loaded with (`CodesAgree`).
`ReuseInv` says what every call of the reuse pages is about, that a page that is open
waits for one answer about its shot at most, and that the answer brings the primary
asset the server has (`WaitsForOne`); that page shows it unless it still waits
(`ShowsItsShot`). It also says that the primary asset of a shot always satisfies the
rule for reuse (`Fair`), so page, audit and server, which each have a copy of that
rule, never contradict each other. Where the page may show another shot, or an older
asset, the model counts a slip: an asset applied before the last one was done or the
page left, an answer that was lost, and a change by another user.

`ScreenProofs` proves of the overview, for any number of changes, moves and
functions under way (`OverviewBounds`; `BlankShowsNothing`, that `Blank` is neither of
the two records shown):

| Theorem | States |
|---|---|
| `OverviewInvariance` | `OverviewSpec => []OverviewInv` |
| `OverviewTypes` | `OverviewTypeOK` |
| `BlockersCurrent` | `BlockersAreCurrent`, the invariant of `workspace` |

`BlockersAreCurrent` speaks of a page on which nothing runs. `OverviewInv` says, for
each thing the page shows, who will bring it up to date as long as it is not: a run
or a batch that changed has its event on the way or a function that will read it
(`PartKept`, `WillRead`); a limit that changed through this page will be read by the
update that changed it (`LimitKept`, `WillLimit`); an evaluation or review that was
recorded is shown, comes as an event, or is read by a load (`RecentKept`, `WillTell`).
A function counts only if nothing it read has changed since, and a command never
does for the blockers, because it may fail halfway. The proof follows what each step
does to the promises of the others. That looks at more states than the run has, and
it showed that a load that fails while another function runs empties the page, on
which what the other one read earlier then lands without anything to compare it
with: `TakeOverviewFailure` counts that as overtaken, and `NothingLands` is the part
of the invariant that rests on it.

`ScreenProofs` proves of the monitors, for any items, any number of moves, of changes
and of functions under way (`ConsoleBounds`; `BlankIsNoPart`, that `Blank` is none of
the parts shown; `OwnersAreNot`):

| Theorem | States |
|---|---|
| `ConsoleInvariance` | `ConsoleSpec => []ConsoleInv` |
| `ConsoleTypes` | `ConsoleTypeOK` |
| `MonitorsSettle`, `OneActionRuns` | `MonitorSettles`, `OneAction`, invariants of `workspace` |

`ConsoleInv` says of each part of an open page (`KeptUp`) that it shows what the server
has now, or that a function will make it so (`WillShow`): a load that was sent after
the last change, or a refresh made for what the page is on that has still to read the
part, or will run again. Otherwise an event is on its way, or the part slipped. This
rests on there being one refresh at most, and one load of each part, for what the
route and the filter ask for (`TasksRun`, `MonitorTaskFits`): cancelling "the" load cancels
every one, and an event that finds a refresh running finds the only one. A read that
arrives is current if what it replaces was, because versions only grow and one that
stayed the same had no change since (`ShownSettles`, `NewerIsCurrent`) - unless it
is older. `OperatorMoveKeeps` covers the moves of the operator, `StepKeeps` the
other steps, `RefreshProceeds` what a refresh does after each read. The proof found a
case that the run is too small for: a refresh that began before a load, and reads
before it what it writes after it, puts an older state over a newer one, and nothing
reads it again. TLC confirms it with five moves and three changes; `TakeRead` counts
it as a slip, as `TakeLoad` did for loads.

`ScreenProofs` proves of the screens, for any owners, of which there is one at
least, and any number of moves, commands, events and functions under way
(`OwnersAreNot`; `BlankIsNoData`, that `Blank` is no data of an owner):

| Theorem | States |
|---|---|
| `ScreensInvariance`, `ScreensTyped` | `ScreensSpec => []ScreensInv`, `ScreensTypeOK` |
| `QuietScreensAreCurrent` | `QuietScreenIsCurrent` |
| `ForeignDataIsOnlyStray`, `SuccessesAreShown` | `ForeignDataIsStray`, `SuccessIsShown` |

These speak of eight controllers at once, so the proof reads their differences from
the table of screens and never lists the states of each. `ScreensInv` has three parts.
`ScreenHolds`: no function has read a version newer than the server's, each is at a
place its list of requests has, and the stream is subscribed to what its key says.
`ScreenComes`: as long as the page does not show the owner of its route, a load or a
fetch of that owner runs, or it failed, or another function's data lies over it; and
one refresh runs exactly as long as the queue says. `OldIsRefreshed`: unless an event
was skipped or a read failed or was overtaken, what the page shows, or a function has
read, is as new as the events seen, or a refresh that will read it again is owed. A
quiet page owes nothing, hence is current. Two disturbances carry the proof: an event
makes everything old at once (`queue` then says so), and an answer that lands replaces
a view by one that was read earlier or later.

`PageProofs` proves of the editors, for any owners and languages, and any number of
edits, items and functions under way (`LocalesAssumption`, `OwnersAreNot`):

| Theorem | States |
|---|---|
| `EditorInvariance`, `EditorTypes` | `EditorSpec => []EditorInv`, `EditorTypeOK` |
| `WorkStaysKept` | `WorkIsKept` |
| `TitlesFollow` | `TitlesFollowLocale` |

`EditorInv` says what each load, save and fetch of options is about (`JobsFit`), that
one load runs at most, that the items are numbered in their order, in the draft and on
the server (`Numbers`), and that what the page shows is what the user made of it
unless something replaced it (`WorkKept`). `Numbers` is why loading what was saved
changes nothing: the page sorts what it gets by number, and sorting what is in order
is the identity. For titles it says that those in another language have a load on its
way (`Titled`), which a switch of language begins, and that the load was sent for the
language the page has now.

Last, `WorkspaceProofs` proves of all ten subjects together, under the assumptions of
each:

| Theorem | States |
|---|---|
| `WorkspaceTyped` | `MCWorkspace`: `Spec => []TypeOK` |
| `WorkspaceIsSafe` | `MCWorkspace`: `Spec` implies every other invariant of `workspace` |

A step of `MCWorkspace` is a step of one subject that leaves the variables of the
others alone (`OnePageSteps`), so a behaviour of `MCWorkspace` is a behaviour of each
(`EachOnItsOwn`), and the theorems about each hold of it. The bounds by which
`MCWorkspace` divides a budget between moves and events only take steps away.

`WorkLemmas` holds what these proofs need of sequences: what `RemoveAt`, `Append`,
`ReplaceAt`, `EXCEPT` and `Cancel` leave of the elements and of their places, and that
of those of which one at most ran, none runs once it is cancelled. Each of the invariants
(`QuietInv`, `EventInv`, `UploadInv`, `BackupInv`, `ShellInv`, `GovernanceInv`,
`OverviewInv`, `ConsoleInv`, `ScreensInv`, `EditorInv`, `ReuseInv`) was checked by TLC before it was
proved, on the instance of its run or, for `ConsoleInv`, on random behaviours of a larger one.

Only model-checked: liveness, which is out of the prover's reach (`QueuedRunsEnd`,
which holds, and `FailedRenderRecovers`, which does not). Every safety invariant, every
action property and the refinement that the passing runs check are theorems.

## Not modelled

Of the backend: listings and other reads (no state), encoding and RPC plumbing, the
signing of session tokens, model profiles, projects, episodes, scenes and shots as
such (single-row saves), what a restore does inside its transaction, usage records
beside the budget, pricing and localisation helpers, the bootstrap data and the
migration runner. Of uploads: sessions outside a batch, and the batch writes of
`AddCandidateAsset`. Of collaboration: draft versions and the wording of a conflict. The
in-memory store is a test and development double: its maps are not locked by the
services, and it has no unique indexes; all models are of PostgreSQL.

Of the apps: layout, wording and styles; the feedback texts beyond which command
they are about; how React batches the state updates of one handler (a handler's
updates are one step); the scope of episodes; the forward history a navigation
truncates; a change of identity while pages are open; the project-level creator of
a collaboration session in `App.tsx`, which no route reaches; restores by other
operators (the preflight a page shows says how the system was when it was made, and
nothing tells the page of a restore elsewhere); the reads of members and roles,
which `loadGovernancePanel` sends together, are one. The generated code and the one-line services of
the SDK carry no state.

## Plan

Done: the engine with its contract and proofs, renders, shot executions, events,
uploads and the lease, and the pages of both apps, each with its proofs. Next, in
this order:

1. An abstract event log that a client reads in order, and `EventStream` shown to
   implement it where `NoGap` allows.
2. A screen composed with `EventStream` instead of its own log of events.
3. Backup restore against services that write meanwhile, if the transaction leaves
   anything between them.
