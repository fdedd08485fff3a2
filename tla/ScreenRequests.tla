--------------------------- MODULE ScreenRequests ---------------------------
(***************************************************************************)
(* What the creator and admin screens ask the server, one definition per   *)
(* loader, mutation and handler of src/apps.                               *)
(*                                                                         *)
(* A request is named by the part of the screen its answer fills, or is a  *)
(* command, whose answer only says that it was done: a "change" that the   *)
(* screen's subscription hears of, or one that stays "unheard".  A set of  *)
(* requests is sent at once (Promise.all), a sequence of sets is awaited   *)
(* set by set.  The screens are named by the controller that runs them:    *)
(* "shot", "import", "collab", "preview" and "audio" in the creator,       *)
(* "adminCollab", "adminPreview" and "adminAudio" in the admin console.    *)
(***************************************************************************)
EXTENDS UnderWay

CONSTANTS
    Owners,     \* what a screen can be opened on: shots, batches, projects
    Off,        \* it is closed
    Blank,      \* it shows nothing
    MaxMoves    \* bound: moves of the user and of the environment, together

ASSUME OwnersAreNot ==
    Owners # {} /\ Off \notin Owners /\ Blank \notin Owners /\ MaxMoves \in Nat

(* The kinds of event a screen asks for: of the workbenches by name, of    *)
(* the others the one kind their service publishes.                        *)
shotWorkbenchEvents ==
    {"shot.execution.updated", "shot.evaluation.created", "shot.review.created",
     "workflow.updated"}
importWorkbenchEvents == {"asset.upload_session.updated", "shot.execution.updated"}
collaborationEvents == {"content.collaboration.updated"}

(* A command, by what the service publishes when it is done and by what    *)
(* the screen hears.                                                       *)
Announces(published, heard) ==
    IF published \cap heard # {} THEN <<{"change"}>> ELSE <<{"unheard"}>>

-----------------------------------------------------------------------------
(* The shot workbench.  The execution must load; the workflow panel and    *)
(* the review timeline are asked for next, together.  The panel is the     *)
(* list of runs, which must load, and then the newest run's detail.        *)

loadShotWorkbench == {"execution"}
loadShotWorkflowPanel == {"workflow"}
loadShotReviewTimeline == {"reviews"}

loadShotWorkbenchState ==
    <<loadShotWorkbench, loadShotWorkflowPanel \cup loadShotReviewTimeline>>

(* The gate is looked at: the checks save nothing.                         *)
runSubmissionGateChecks == <<{"check"}>>
submitShotForReview == Announces({"shot.execution.updated"}, shotWorkbenchEvents)
selectPrimaryAssetForShotWorkbench ==
    Announces({"shot.execution.updated"}, shotWorkbenchEvents)
startShotWorkflow == Announces({"workflow.updated"}, shotWorkbenchEvents)
retryShotWorkflowRun == Announces({"workflow.updated"}, shotWorkbenchEvents)

(* Each handler sends its command and reads the whole screen again.        *)
handleRunSubmissionGateChecks == runSubmissionGateChecks \o loadShotWorkbenchState
handleSubmitShotForReview == submitShotForReview \o loadShotWorkbenchState
handleStartWorkflow == startShotWorkflow \o loadShotWorkbenchState
handleRetryWorkflowRun == retryShotWorkflowRun \o loadShotWorkbenchState
handleSelectShotPrimaryAsset ==
    selectPrimaryAssetForShotWorkbench \o loadShotWorkbenchState

-----------------------------------------------------------------------------
(* The import batch workbench: one read.  A file is looked at in the       *)
(* browser before it can be registered, and registering it is two          *)
(* commands: create the upload session, complete it.                       *)

loadImportBatchWorkbench == <<{"batch"}>>

deriveUploadFileMetadata == <<{"file"}>>
uploadEvents == {"asset.upload_session.updated", "asset.import_batch.updated"}
createUploadSessionForImportBatch == Announces(uploadEvents, importWorkbenchEvents)
completeUploadSessionForImportBatch ==
    Announces(uploadEvents \cup {"shot.execution.updated"}, importWorkbenchEvents)
retryUploadSessionForImportBatch == Announces(uploadEvents, importWorkbenchEvents)
confirmImportBatchItems ==
    Announces({"asset.import_batch.updated"}, importWorkbenchEvents)
selectPrimaryAssetForImportBatch ==
    Announces({"shot.execution.updated"}, importWorkbenchEvents)

handleRegisterSelectedUpload ==
    createUploadSessionForImportBatch \o completeUploadSessionForImportBatch
        \o loadImportBatchWorkbench
handleRetryUploadSession ==
    retryUploadSessionForImportBatch \o loadImportBatchWorkbench
handleConfirmMatches == confirmImportBatchItems \o loadImportBatchWorkbench
handleSelectImportPrimaryAsset ==
    selectPrimaryAssetForImportBatch \o loadImportBatchWorkbench

-----------------------------------------------------------------------------
(* The collaboration pages: the session, then (for a shot opened without a *)
(* project) the project it belongs to, whose failure leaves it unknown.    *)

resolveCollaborationScope == {"project"}
loadCollaborationSession == <<{"session"}, resolveCollaborationScope>>
claimLease == Announces({"content.collaboration.updated"}, collaborationEvents)
releaseLease == Announces({"content.collaboration.updated"}, collaborationEvents)
handleClaimLease == claimLease \o loadCollaborationSession
handleReleaseLease == releaseLease \o loadCollaborationSession

loadAdminCollaborationSession == <<{"session"}>>

-----------------------------------------------------------------------------
(* The render runtimes.  The answer to a render request is the runtime     *)
(* itself, so the handler reads nothing more.                              *)

loadPreviewRuntime == <<{"runtime"}>>
loadAudioRuntime == <<{"runtime"}>>
loadAdminPreviewRuntime == <<{"runtime"}>>
loadAdminAudioRuntime == <<{"runtime"}>>
requestPreviewRender == <<{"render"}>>
requestAudioRender == <<{"render"}>>

-----------------------------------------------------------------------------
(* Which events a subscription lets through, of the kinds it asks for: any *)
(* of the project, or those that name the owner the screen is on.          *)

subscribeWorkbenchEvents == "project"
subscribeCollaborationEvents == "owner"
subscribePreviewRuntime == "owner"
subscribeAudioRuntime == "owner"
subscribeAdminCollaboration == "owner"
subscribeAdminPreviewRuntime == "owner"
subscribeAdminAudioRuntime == "owner"

(* The controllers: what each reads, the commands it sends, and            *)
(*   guarded  a load is given up when the screen moves,                    *)
(*   queued   events that arrive during a refresh ask for one more,        *)
(*   waits    what the stream waits for: the data that names the project,  *)
(*            the timeline that belongs to it, or nothing,                 *)
(*   shares   one project holds every owner, so they share the stream,     *)
(*   events   which events of the stream ask for a refresh.                *)

Controller(load, handlers, guarded, queued, waits, shares, events) ==
    [load |-> load, handlers |-> handlers, guarded |-> guarded,
     queued |-> queued, waits |-> waits, shares |-> shares, events |-> events]

useShotWorkbenchController ==
    Controller(loadShotWorkbenchState,
               {handleRunSubmissionGateChecks, handleSubmitShotForReview,
                handleStartWorkflow, handleRetryWorkflowRun,
                handleSelectShotPrimaryAsset},
               TRUE, TRUE, "data", TRUE, subscribeWorkbenchEvents)

useImportWorkbenchController ==
    Controller(loadImportBatchWorkbench,
               {handleRetryUploadSession, handleConfirmMatches,
                handleSelectImportPrimaryAsset},
               TRUE, TRUE, "data", TRUE, subscribeWorkbenchEvents)

useCollabController ==
    Controller(loadCollaborationSession, {handleClaimLease, handleReleaseLease},
               TRUE, TRUE, "data", TRUE, subscribeCollaborationEvents)

usePreviewRuntime ==
    Controller(loadPreviewRuntime, {requestPreviewRender},
               TRUE, TRUE, "nothing", FALSE, subscribePreviewRuntime)

useAudioRuntime ==
    Controller(loadAudioRuntime, {requestAudioRender},
               FALSE, TRUE, "timeline", FALSE, subscribeAudioRuntime)

useAdminCollaborationController ==
    Controller(loadAdminCollaborationSession, {},
               TRUE, TRUE, "nothing", TRUE, subscribeAdminCollaboration)

useAdminPreviewController ==
    Controller(loadAdminPreviewRuntime, {},
               FALSE, FALSE, "nothing", FALSE, subscribeAdminPreviewRuntime)

useAdminAudioController ==
    Controller(loadAdminAudioRuntime, {},
               FALSE, FALSE, "timeline", FALSE, subscribeAdminAudioRuntime)
=============================================================================
