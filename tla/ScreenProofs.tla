---------------------------- MODULE ScreenProofs ---------------------------
(***************************************************************************)
(* Proofs about pages that events keep current, the screens of both apps   *)
(* (Screens) and the overview of the console (AdminOverview), and about    *)
(* two services that several users call from such pages at once, uploads   *)
(* into a batch (UploadSession) and the edit lease (CollabLease).          *)
(*                                                                         *)
(* Of a screen, for every set of owners and every bound: when quiet it     *)
(* shows all that the events it could hear of told, another owner's data   *)
(* is on it only until its own arrives, and a success shown is true.  The  *)
(* invariant has four parts, each kept by every operation:                 *)
(*   ScreenHolds     the data is typed, no version read is newer than the  *)
(*                   server's, and the stream follows its key;             *)
(*   ScreenComes     a load of the route's owner runs until it is shown,   *)
(*                   and one refresh as long as the queue says so;         *)
(*   OldIsRefreshed  what is older than the events seen is read again;     *)
(*   EffectStays     the effect of a command whose event the screen does   *)
(*                   not hear is shown, or a load of its owner that will   *)
(*                   show it is on its way.                                *)
(*                                                                         *)
(* That the overview is current once nothing runs depends on the functions *)
(* that still run: OverviewInv says which of them will read what changed,  *)
(* or that the event is still on its way.                                  *)
(*                                                                         *)
(* Whether a session that was uploaded has one import with all its rows,   *)
(* and whether a confirmed batch has only confirmed items, depends on the  *)
(* requests that have not ended: UploadInv says what each of them still    *)
(* has to save, and for which import.  LeaseIsHeld is not inductive        *)
(* either: whether a save breaks it depends on what the request read, when *)
(* it decided, and for how long it will hold the lease.  CallsAgree says   *)
(* that of every request under way.                                        *)
(***************************************************************************)
EXTENDS Screens, AdminOverview, UploadSession, CollabLease, WorkLemmas,
        FiniteSetTheorems, WellFoundedInduction

-----------------------------------------------------------------------------
(* The screens: what each reads first, and what it reads after it.         *)
MainOf == [shot |-> "execution", import |-> "batch", collab |-> "session",
           preview |-> "runtime", audio |-> "runtime", adminCollab |-> "session",
           adminPreview |-> "runtime", adminAudio |-> "runtime"]
Main == MainOf[scene]
LaterOf(s) == IF s = "shot" THEN {"workflow", "reviews"} ELSE {"project"}
TwoReads == {"shot", "collab"}

(* What is left to do until the first read, and after it.                  *)
Preludes == {{"change"}, {"unheard"}, {"check"}}
Before(s) ==
    LET m == {MainOf[s]}
        l == LaterOf(s)
        c == {"change"}
    IN  IF s \in TwoReads THEN {<<c, m, l>>, <<{"check"}, m, l>>, <<m, l>>}
        ELSE IF s \in {"import", "adminCollab"}
        THEN {<<c, c, m>>, <<c, m>>, <<{"unheard"}, m>>, <<m>>}
        ELSE {<<m>>, <<{"render"}>>}
After(s) == IF s \in TwoReads THEN {<<LaterOf(s)>>, <<>>} ELSE {<<>>}
Todos == (UNION {Before(s) \cup After(s) : s \in ScreenNames}) \cup {<<{"file"}>>}

(* A sequence that begins with one element.                                *)
LEMMA OneThen ==
    ASSUME NEW S, NEW a \in S, NEW s \in Seq(S), NEW t \in Seq(S),
           Len(t) = Len(s) + 1, t[1] = a, \A i \in 1..Len(s) : t[i+1] = s[i]
    PROVE  <<a>> \o s = t
<1>1. <<a>> \in Seq(S) /\ Len(<<a>>) = 1 /\ <<a>>[1] = a OBVIOUS
<1>2. PICK u : u = <<a>> \o s OBVIOUS
<1>3. /\ u \in Seq(S) /\ Len(u) = 1 + Len(s)
      /\ \A i \in 1..1 + Len(s) : u[i] = IF i <= 1 THEN <<a>>[i] ELSE s[i - 1]
  BY <1>1, <1>2, ConcatProperties
<1>4. Len(s) \in Nat BY LenProperties
<1>5. \A i \in 1..Len(u) : u[i] = t[i]
  <2> SUFFICES ASSUME NEW i \in 1..Len(u) PROVE u[i] = t[i] OBVIOUS
  <2>1. CASE i = 1 BY <1>1, <1>3, <1>4, <2>1
  <2>2. CASE i # 1
    <3>1. i - 1 \in 1..Len(s) /\ (i - 1) + 1 = i BY <1>3, <1>4, <2>2
    <3>2. t[i] = s[i - 1] BY <3>1
    <3>3. u[i] = s[i - 1] BY <1>3, <1>4, <2>2
    <3> QED BY <3>2, <3>3
  <2> QED BY <2>1, <2>2
<1> QED BY <1>2, <1>3, <1>4, <1>5, SeqEqual

LEMMA StepPair ==
    ASSUME NEW a, NEW b PROVE <<a>> \o <<b>> = <<a, b>>
<1> DEFINE S == {a, b}
<1>1. a \in S /\ <<b>> \in Seq(S) /\ <<a, b>> \in Seq(S) OBVIOUS
<1>2. Len(<<a, b>>) = Len(<<b>>) + 1 /\ <<a, b>>[1] = a
      /\ \A i \in 1..Len(<<b>>) : <<a, b>>[i + 1] = <<b>>[i]
  OBVIOUS
<1> QED BY <1>1, <1>2, OneThen

LEMMA StepTriple ==
    ASSUME NEW a, NEW b, NEW c PROVE <<a>> \o <<b, c>> = <<a, b, c>>
<1> DEFINE S == {a, b, c}
<1>1. a \in S /\ <<b, c>> \in Seq(S) /\ <<a, b, c>> \in Seq(S) OBVIOUS
<1>2. Len(<<a, b, c>>) = Len(<<b, c>>) + 1 /\ <<a, b, c>>[1] = a
      /\ \A i \in 1..Len(<<b, c>>) : <<a, b, c>>[i + 1] = <<b, c>>[i]
  OBVIOUS
<1> QED BY <1>1, <1>2, OneThen

LEMMA StepTwice ==
    ASSUME NEW a, NEW b PROVE <<a>> \o <<a>> \o <<b>> = <<a, a, b>>
<1>1. <<a>> \o <<a>> \o <<b>> = <<a>> \o (<<a>> \o <<b>>)
  <2>1. <<a>> \in Seq({a, b}) /\ <<b>> \in Seq({a, b}) OBVIOUS
  <2> QED BY <2>1, ConcatAssociative
<1> QED BY <1>1, StepPair, StepTriple

LEMMA LoadersAre ==
    /\ loadShotWorkbenchState = <<{"execution"}, {"workflow", "reviews"}>>
    /\ loadImportBatchWorkbench = <<{"batch"}>>
    /\ loadCollaborationSession = <<{"session"}, {"project"}>>
    /\ loadAdminCollaborationSession = <<{"session"}>>
    /\ \A load \in {loadPreviewRuntime, loadAudioRuntime, loadAdminPreviewRuntime,
                      loadAdminAudioRuntime} : load = <<{"runtime"}>>
<1>1. {"workflow"} \cup {"reviews"} = {"workflow", "reviews"} OBVIOUS
<1> QED
  BY <1>1
     DEF loadShotWorkbenchState, loadImportBatchWorkbench, loadCollaborationSession,
         loadPreviewRuntime, loadAudioRuntime, loadAdminCollaborationSession,
         loadAdminPreviewRuntime, loadAdminAudioRuntime, loadShotWorkbench,
         loadShotWorkflowPanel, loadShotReviewTimeline, resolveCollaborationScope

LEMMA ScreensAre ==
    /\ ScreenNames = {"shot", "import", "collab", "preview", "audio", "adminCollab",
                      "adminPreview", "adminAudio"}
    /\ Screen["shot"] = useShotWorkbenchController
    /\ Screen["import"] = useImportWorkbenchController
    /\ Screen["collab"] = useCollabController
    /\ Screen["preview"] = usePreviewRuntime
    /\ Screen["audio"] = useAudioRuntime
    /\ Screen["adminCollab"] = useAdminCollaborationController
    /\ Screen["adminPreview"] = useAdminPreviewController
    /\ Screen["adminAudio"] = useAdminAudioController
BY DEF ScreenNames, Screen

LEMMA ControllersAre ==
    /\ Screen["shot"].load = loadShotWorkbenchState /\ Screen["shot"].waits = "data"
    /\ Screen["shot"].guarded = TRUE /\ Screen["shot"].queued = TRUE
    /\ Screen["shot"].shares = TRUE /\ Screen["shot"].events = "project"
    /\ Screen["import"].load = loadImportBatchWorkbench /\ Screen["import"].waits = "data"
    /\ Screen["import"].guarded = TRUE /\ Screen["import"].queued = TRUE
    /\ Screen["import"].shares = TRUE /\ Screen["import"].events = "project"
    /\ Screen["collab"].load = loadCollaborationSession /\ Screen["collab"].waits = "data"
    /\ Screen["collab"].guarded = TRUE /\ Screen["collab"].queued = TRUE
    /\ Screen["collab"].shares = TRUE /\ Screen["collab"].events = "owner"
    /\ Screen["preview"].load = loadPreviewRuntime /\ Screen["preview"].waits = "nothing"
    /\ Screen["preview"].guarded = TRUE /\ Screen["preview"].queued = TRUE
    /\ Screen["preview"].shares = FALSE /\ Screen["preview"].events = "owner"
    /\ Screen["audio"].load = loadAudioRuntime /\ Screen["audio"].waits = "timeline"
    /\ Screen["audio"].guarded = FALSE /\ Screen["audio"].queued = TRUE
    /\ Screen["audio"].shares = FALSE /\ Screen["audio"].events = "owner"
    /\ Screen["adminCollab"].load = loadAdminCollaborationSession /\ Screen["adminCollab"].waits = "nothing"
    /\ Screen["adminCollab"].guarded = TRUE /\ Screen["adminCollab"].queued = TRUE
    /\ Screen["adminCollab"].shares = TRUE /\ Screen["adminCollab"].events = "owner"
    /\ Screen["adminPreview"].load = loadAdminPreviewRuntime /\ Screen["adminPreview"].waits = "nothing"
    /\ Screen["adminPreview"].guarded = FALSE /\ Screen["adminPreview"].queued = FALSE
    /\ Screen["adminPreview"].shares = FALSE /\ Screen["adminPreview"].events = "owner"
    /\ Screen["adminAudio"].load = loadAdminAudioRuntime /\ Screen["adminAudio"].waits = "timeline"
    /\ Screen["adminAudio"].guarded = FALSE /\ Screen["adminAudio"].queued = FALSE
    /\ Screen["adminAudio"].shares = FALSE /\ Screen["adminAudio"].events = "owner"
BY ScreensAre
   DEF Controller, useShotWorkbenchController, useImportWorkbenchController,
       useCollabController, usePreviewRuntime, useAudioRuntime,
       useAdminCollaborationController, useAdminPreviewController, useAdminAudioController,
       subscribeWorkbenchEvents, subscribeCollaborationEvents, subscribePreviewRuntime,
       subscribeAudioRuntime, subscribeAdminCollaboration, subscribeAdminPreviewRuntime,
       subscribeAdminAudioRuntime

LEMMA ScenesAre ==
    /\ Runtimes = {"preview", "audio", "adminPreview", "adminAudio"}
    /\ ViewGated = {"shot", "import", "collab"}
    /\ ReadyGated = {"audio", "adminAudio"}
    /\ Unguarded = {"audio", "adminPreview", "adminAudio"}
    /\ Uncoalesced = {"adminPreview", "adminAudio"}
    /\ SharedStream = {"shot", "import", "collab", "adminCollab"}
    /\ AnyOwner = {"shot", "import"}
<1>1. ViewGated = {"shot", "import", "collab"}
  BY ScreensAre, ControllersAre DEF ViewGated, ScreensThat
<1>2. ReadyGated = {"audio", "adminAudio"}
  BY ScreensAre, ControllersAre DEF ReadyGated, ScreensThat
<1>3. Unguarded = {"audio", "adminPreview", "adminAudio"}
  BY ScreensAre, ControllersAre DEF Unguarded, ScreensThat
<1>4. Uncoalesced = {"adminPreview", "adminAudio"}
  BY ScreensAre, ControllersAre DEF Uncoalesced, ScreensThat
<1>5. SharedStream = {"shot", "import", "collab", "adminCollab"}
  BY ScreensAre, ControllersAre DEF SharedStream, ScreensThat
<1>6. AnyOwner = {"shot", "import"}
  BY ScreensAre, ControllersAre DEF AnyOwner, ScreensThat
<1>7. Runtimes = {"preview", "audio", "adminPreview", "adminAudio"}
  <2>1. \A a, b : <<a, b>> # <<{"runtime"}>> OBVIOUS
  <2>2. <<{"batch"}>> # <<{"runtime"}>> /\ <<{"session"}>> # <<{"runtime"}>>
    <3>1. {"batch"} # {"runtime"} /\ {"session"} # {"runtime"} OBVIOUS
    <3>2. \A a, b : <<a>> = <<b>> => a = b OBVIOUS
    <3> QED BY <3>1, <3>2
  <2> QED BY <2>1, <2>2, ScreensAre, ControllersAre, LoadersAre DEF Runtimes, ScreensThat
<1> QED BY <1>1, <1>2, <1>3, <1>4, <1>5, <1>6, <1>7

LEMMA LoadsAre ==
    ASSUME NEW s \in ScreenNames
    PROVE  Load[s] = IF s \in TwoReads THEN <<{MainOf[s]}, LaterOf(s)>> ELSE <<{MainOf[s]}>>
<1>1. Load[s] = Screen[s].load BY DEF Load
<1>2. Load["shot"] = <<{"execution"}, {"workflow", "reviews"}>> /\ Load["import"] = <<{"batch"}>>
      /\ Load["collab"] = <<{"session"}, {"project"}>> /\ Load["adminCollab"] = <<{"session"}>>
      /\ \A r \in {"preview", "audio", "adminPreview", "adminAudio"} : Load[r] = <<{"runtime"}>>
  BY ScreensAre, ControllersAre, LoadersAre DEF Load
<1>3. /\ MainOf["shot"] = "execution" /\ MainOf["import"] = "batch" /\ MainOf["collab"] = "session"
      /\ MainOf["adminCollab"] = "session" /\ LaterOf("shot") = {"workflow", "reviews"}
      /\ LaterOf("collab") = {"project"}
      /\ \A r \in {"preview", "audio", "adminPreview", "adminAudio"} : MainOf[r] = "runtime"
  BY DEF MainOf, LaterOf
<1>4. s \in TwoReads <=> s = "shot" \/ s = "collab" BY DEF TwoReads
<1>5. CASE s \in {"preview", "audio", "adminPreview", "adminAudio"}
  BY <1>2, <1>3, <1>4, <1>5
<1>6. CASE s = "shot" BY <1>2, <1>3, <1>4, <1>6
<1>7. CASE s = "collab" BY <1>2, <1>3, <1>4, <1>7
<1>8. CASE s \in {"import", "adminCollab"} BY <1>2, <1>3, <1>4, <1>8
<1> QED BY <1>5, <1>6, <1>7, <1>8, ScreensAre

(* What a call still has to do, until it has read the first part.          *)
LEMMA TodosAre ==
    ASSUME NEW s \in ScreenNames
    PROVE  /\ MainOf[s] \in Parts \ {"workflow", "reviews", "project"}
           /\ LaterOf(s) \subseteq Parts \ {MainOf[s]}
           /\ s \in Runtimes => MainOf[s] = "runtime"
           /\ <<>> \in After(s)
           /\ \A t \in Before(s) :
                 /\ t # <<>>
                 /\ \/ Head(t) \in Preludes /\ Tail(t) \in Before(s)
                    \/ Head(t) = {MainOf[s]} /\ Tail(t) \in After(s)
                    \/ Head(t) = {"render"} /\ s \in Runtimes /\ Tail(t) \in After(s)
           /\ \A t \in After(s) :
                 t # <<>> => Head(t) = LaterOf(s) /\ Tail(t) \in After(s)
<1>1. /\ MainOf["shot"] = "execution" /\ MainOf["import"] = "batch" /\ MainOf["collab"] = "session"
      /\ MainOf["adminCollab"] = "session"
      /\ \A r \in {"preview", "audio", "adminPreview", "adminAudio"} : MainOf[r] = "runtime"
  BY DEF MainOf
<1>2. /\ MainOf[s] \in Parts \ {"workflow", "reviews", "project"}
      /\ LaterOf(s) \subseteq Parts \ {MainOf[s]}
      /\ s \in Runtimes => MainOf[s] = "runtime"
  BY <1>1, ScreensAre, ScenesAre DEF Parts, LaterOf
<1>3. PICK m, l, c, u, k : /\ m = {MainOf[s]} /\ l = LaterOf(s) /\ c = {"change"}
                           /\ u = {"unheard"} /\ k = {"check"}
  OBVIOUS
<1>10. c \in Preludes /\ u \in Preludes /\ k \in Preludes BY <1>3 DEF Preludes
<1>4. /\ \A x : Head(<<x, m, l>>) = x /\ Tail(<<x, m, l>>) = <<m, l>> /\ <<x, m, l>> # <<>>
      /\ Head(<<m, l>>) = m /\ Tail(<<m, l>>) = <<l>> /\ Head(<<l>>) = l /\ Tail(<<l>>) = <<>>
      /\ <<m, l>> # <<>>
  OBVIOUS
<1>5. /\ Head(<<c, c, m>>) = c /\ Tail(<<c, c, m>>) = <<c, m>>
      /\ \A x : Head(<<x, m>>) = x /\ Tail(<<x, m>>) = <<m>> /\ <<x, m>> # <<>>
      /\ Head(<<m>>) = m /\ Tail(<<m>>) = <<>>
      /\ <<c, c, m>> # <<>> /\ <<m>> # <<>>
  OBVIOUS
<1>6. Head(<<{"render"}>>) = {"render"} /\ Tail(<<{"render"}>>) = <<>> /\ <<{"render"}>> # <<>>
  OBVIOUS
<1>7. CASE s \in TwoReads
  <2>1. Before(s) = {<<c, m, l>>, <<k, m, l>>, <<m, l>>} /\ After(s) = {<<l>>, <<>>}
    BY <1>3, <1>7 DEF Before, After
  <2> QED BY <1>2, <1>3, <1>4, <1>10, <2>1
<1>8. CASE s \in {"import", "adminCollab"}
  <2>1. Before(s) = {<<c, c, m>>, <<c, m>>, <<u, m>>, <<m>>} /\ After(s) = {<<>>}
    BY <1>3, <1>8 DEF Before, After, TwoReads
  <2> QED BY <1>2, <1>3, <1>5, <1>10, <2>1
<1>9. CASE s \notin TwoReads \cup {"import", "adminCollab"}
  <2>1. Before(s) = {<<m>>, <<{"render"}>>} /\ After(s) = {<<>>}
    BY <1>3, <1>9 DEF Before, After, TwoReads
  <2>2. s \in Runtimes BY <1>9, ScreensAre, ScenesAre DEF TwoReads
  <2> QED BY <1>2, <1>3, <1>5, <1>6, <2>1, <2>2
<1> QED BY <1>7, <1>8, <1>9

LEMMA ProgramsAre ==
    ASSUME NEW s \in ScreenNames
    PROVE  /\ Load[s] \in Before(s)
           /\ \A h \in Handlers[s] : h \in Before(s) /\ s \in ViewGated \cup Runtimes
           /\ s = "import" => handleRegisterSelectedUpload \in Before(s)
<1>1. /\ MainOf["shot"] = "execution" /\ MainOf["import"] = "batch" /\ MainOf["collab"] = "session"
      /\ \A r \in {"preview", "audio", "adminPreview", "adminAudio"} : MainOf[r] = "runtime"
      /\ LaterOf("shot") = {"workflow", "reviews"} /\ LaterOf("collab") = {"project"}
  BY DEF MainOf, LaterOf
<1>2. Load[s] \in Before(s)
  <2>1. CASE s \in TwoReads BY <2>1, LoadsAre DEF Before
  <2>2. CASE s \notin TwoReads BY <2>2, LoadsAre DEF Before
  <2> QED BY <2>1, <2>2
<1>3. PICK change, unheard, check :
         change = <<{"change"}>> /\ unheard = <<{"unheard"}>> /\ check = <<{"check"}>>
  OBVIOUS
<1>4. CASE s = "shot"
  <2>4. loadShotWorkbenchState = <<{"execution"}, {"workflow", "reviews"}>> BY LoadersAre
  <2>1. change \o loadShotWorkbenchState \in Before(s)
    <3>1. change \o loadShotWorkbenchState = <<{"change"}, {"execution"}, {"workflow", "reviews"}>>
      BY <1>3, <2>4, StepTriple
    <3> QED BY <1>1, <1>4, <3>1 DEF Before, TwoReads
  <2>3. check \o loadShotWorkbenchState \in Before(s)
    <3>1. check \o loadShotWorkbenchState = <<{"check"}, {"execution"}, {"workflow", "reviews"}>>
      BY <1>3, <2>4, StepTriple
    <3> QED BY <1>1, <1>4, <3>1 DEF Before, TwoReads
  <2>2. \A h \in Handlers[s] : h \in {change \o loadShotWorkbenchState,
                                       check \o loadShotWorkbenchState}
    <3>1. Handlers[s] = useShotWorkbenchController.handlers BY <1>4, ScreensAre DEF Handlers
    <3>2. /\ runSubmissionGateChecks = check /\ submitShotForReview = change
          /\ selectPrimaryAssetForShotWorkbench = change /\ startShotWorkflow = change
          /\ retryShotWorkflowRun = change
      BY <1>3
         DEF runSubmissionGateChecks, submitShotForReview, Announces, shotWorkbenchEvents,
             selectPrimaryAssetForShotWorkbench, startShotWorkflow, retryShotWorkflowRun
    <3> QED BY <3>1, <3>2
        DEF useShotWorkbenchController, Controller, handleRunSubmissionGateChecks,
            handleSubmitShotForReview, handleStartWorkflow, handleRetryWorkflowRun,
            handleSelectShotPrimaryAsset
  <2> QED BY <1>2, <1>4, <2>1, <2>2, <2>3, ScenesAre
<1>5. CASE s = "import"
  <2>8. loadImportBatchWorkbench = <<{"batch"}>> BY LoadersAre
  <2>1. change \o loadImportBatchWorkbench \in Before(s)
    <3>1. change \o loadImportBatchWorkbench = <<{"change"}, {"batch"}>>
      BY <1>3, <2>8, StepPair
    <3> QED BY <1>1, <1>5, <3>1 DEF Before, TwoReads
  <2>4. unheard \o loadImportBatchWorkbench \in Before(s)
    <3>1. unheard \o loadImportBatchWorkbench = <<{"unheard"}, {"batch"}>>
      BY <1>3, <2>8, StepPair
    <3> QED BY <1>1, <1>5, <3>1 DEF Before, TwoReads
  <2>5. /\ createUploadSessionForImportBatch = change
        /\ completeUploadSessionForImportBatch = change
        /\ retryUploadSessionForImportBatch = change /\ confirmImportBatchItems = unheard
        /\ selectPrimaryAssetForImportBatch = change
    BY <1>3
       DEF createUploadSessionForImportBatch, completeUploadSessionForImportBatch,
           retryUploadSessionForImportBatch, confirmImportBatchItems, uploadEvents,
           selectPrimaryAssetForImportBatch, Announces, importWorkbenchEvents
  <2>2. \A h \in Handlers[s] : h \in {change \o loadImportBatchWorkbench,
                                       unheard \o loadImportBatchWorkbench}
    <3>1. Handlers[s] = useImportWorkbenchController.handlers BY <1>5, ScreensAre DEF Handlers
    <3> QED BY <2>5, <3>1
        DEF useImportWorkbenchController, Controller, handleRetryUploadSession,
            handleConfirmMatches, handleSelectImportPrimaryAsset
  <2>3. handleRegisterSelectedUpload = <<{"change"}, {"change"}, {"batch"}>>
    BY <1>3, <2>5, <2>8, StepTwice DEF handleRegisterSelectedUpload
  <2>6. <<{"change"}, {"change"}, {"batch"}>> \in Before(s) BY <1>1, <1>5 DEF Before, TwoReads
  <2>7. \A h \in Handlers[s] : h \in Before(s) BY <2>1, <2>2, <2>4
  <2> QED BY <1>2, <1>5, <2>3, <2>6, <2>7, ScenesAre
<1>6. CASE s = "collab"
  <2>1. change \o loadCollaborationSession \in Before(s)
    <3>2. loadCollaborationSession = <<{"session"}, {"project"}>> BY LoadersAre
    <3>1. change \o loadCollaborationSession = <<{"change"}, {"session"}, {"project"}>>
      BY <1>3, <3>2, StepTriple
    <3> QED BY <1>1, <1>6, <3>1 DEF Before, TwoReads
  <2>2. \A h \in Handlers[s] : h = change \o loadCollaborationSession
    <3>1. Handlers[s] = useCollabController.handlers BY <1>6, ScreensAre DEF Handlers
    <3>2. claimLease = change /\ releaseLease = change
      BY <1>3 DEF claimLease, releaseLease, Announces, collaborationEvents
    <3> QED BY <3>1, <3>2
        DEF useCollabController, Controller, handleClaimLease, handleReleaseLease
  <2> QED BY <1>2, <1>6, <2>1, <2>2, ScenesAre
<1>7. CASE s \in {"preview", "audio"}
  <2>1. \A h \in Handlers[s] : h = <<{"render"}>>
    <3>1. /\ Handlers["preview"] = usePreviewRuntime.handlers
          /\ Handlers["audio"] = useAudioRuntime.handlers
      BY ScreensAre DEF Handlers
    <3> QED BY <1>7, <3>1
        DEF usePreviewRuntime, useAudioRuntime, Controller, requestPreviewRender,
            requestAudioRender
  <2> QED BY <1>2, <1>7, <2>1, ScenesAre DEF Before, TwoReads
<1>8. CASE s \in {"adminCollab", "adminPreview", "adminAudio"}
  <2>1. Handlers[s] = {}
    <3>1. /\ Handlers["adminCollab"] = useAdminCollaborationController.handlers
          /\ Handlers["adminPreview"] = useAdminPreviewController.handlers
          /\ Handlers["adminAudio"] = useAdminAudioController.handlers
      BY ScreensAre DEF Handlers
    <3> QED BY <1>8, <3>1
        DEF useAdminCollaborationController, useAdminPreviewController,
            useAdminAudioController, Controller
  <2> QED BY <1>2, <1>8, <2>1
<1> QED BY <1>4, <1>5, <1>6, <1>7, <1>8, ScreensAre

-----------------------------------------------------------------------------
(* What the screen holds.                                                  *)
Kinds == UserKinds \cup {"load", "fetch", "silent"}
Versions == Nat \cup {Unavailable}
CallRecords == [kind : Kinds, owner : Owners, target : Owners, todo : Todos,
                got : [Parts -> Versions], effect : Nat, ok : BOOLEAN]
ViewRecords == [owner : Owners, got : [Parts -> Versions]]
StreamRecords == [state : {"off", "connecting", "open"},
                  key : (Owners \cup {Off}) \X (Owners \cup {Off}), pos : Nat]
NoteRecords == [tone : {"none", "pending", "success", "error"},
                owner : Owners \cup {Off}, effect : Nat]
LogRecords == [owner : Owners, heard : BOOLEAN]
FactNames == {"stray", "overtaken", "failed", "skipped"}

(* What has the first part, and nothing older than it.                     *)
Complete(got) ==
    /\ got[Main] # Unavailable
    /\ \A p \in Parts \ {"project"} : got[p] = Unavailable \/ got[p] >= got[Main]

(* No part read is older than a command, if it is about what was read.     *)
Includes(r, effect) ==
    \A p \in Parts \ {"project"} : r.got[p] = Unavailable \/ r.got[p] >= effect

(* Nothing read is newer than the server, and until the first part is read *)
(* nothing is.                                                             *)
ScreenCallFits(c) ==
    /\ c.effect <= Version(c.target)
    /\ \A p \in Parts : c.got[p] <= Version(c.owner)
    /\ c.owner = c.target => Includes(c, c.effect)
    /\ scene \in Runtimes => c.owner = c.target
    /\ c.kind \in UserKinds => scene \in ViewGated \cup Runtimes
    /\ c.kind = "fetch" => scene \notin ViewGated
    /\ c.todo # <<>> => c.ok
    /\ ~c.ok => c.got = Unread
    /\ c.kind = "choose" => c.todo \in {<<>>, <<{"file"}>>} /\ c.got = Unread
    /\ c.ok /\ c.kind # "choose" =>
          \/ c.todo \in Before(scene) /\ c.got = Unread
          \/ c.todo \in After(scene) /\ Complete(c.got)

ViewFits ==
    view # Blank =>
        /\ view \in ViewRecords /\ Complete(view.got)
        /\ \A p \in Parts : view.got[p] <= Version(view.owner)
NoteFits ==
    note.tone = "success" =>
        scene \in ViewGated /\ note.owner \in Owners /\ note.effect <= Version(note.owner)
StreamFits ==
    LET key == KeyOf(scope, view, ready)
    IN  /\ key[1] = Off => stream = Closed
        /\ key[1] # Off => stream.state # "off" /\ stream.key = key

ServerTyped ==
    /\ log \in Seq(LogRecords) /\ stored \in [Owners -> 0..Len(log)] /\ moves \in 0..MaxMoves
PageTyped ==
    /\ scene \in ScreenNames /\ scope \in Owners \cup {Off}
    /\ ready \in BOOLEAN /\ file \in BOOLEAN
    /\ queue \in {"idle", "running", "again"} /\ facts \subseteq FactNames
    /\ note \in NoteRecords
    /\ stream \in StreamRecords /\ stream.pos \in 0..Len(log)
    /\ calls \in Seq(CallRecords)

ScreenHolds ==
    /\ ServerTyped /\ PageTyped
    /\ \A c \in Range(calls) : ScreenCallFits(c)
    /\ ViewFits /\ NoteFits /\ StreamFits

-----------------------------------------------------------------------------
(* Versions.                                                               *)
LEMMA VersionsAre ==
    ASSUME log \in Seq(LogRecords), NEW w
    PROVE  /\ Len(log) \in Nat /\ Version(w) \in Nat
           /\ \A n \in 0..Len(log) :
                 /\ VersionAt(n, w) \in Nat /\ VersionAt(n, w) <= Version(w)
                 /\ Told(n, w) \in Nat /\ Told(n, w) <= Version(w)
<1>1. Len(log) \in Nat BY LenProperties
<1>2. ASSUME NEW n \in 0..Len(log)
      PROVE  /\ VersionAt(n, w) \in Nat /\ VersionAt(n, w) <= Version(w)
             /\ Told(n, w) \in Nat /\ Told(n, w) <= Version(w)
  <2> DEFINE A == {k \in 1..n : log[k].owner = w}
             B == {k \in 1..Len(log) : log[k].owner = w}
             T == {k \in 1..n : /\ log[k].owner = w
                                /\ \E h \in k..n : log[h].owner = w /\ log[h].heard}
  <2>1. IsFiniteSet(1..Len(log)) BY <1>1, FS_Interval
  <2>2. B \subseteq 1..Len(log) /\ A \subseteq B /\ T \subseteq B BY <1>1
  <2>3. IsFiniteSet(B) BY <2>1, <2>2, FS_Subset
  <2>4. IsFiniteSet(A) /\ Cardinality(A) <= Cardinality(B) BY <2>2, <2>3, FS_Subset
  <2>5. Cardinality(A) \in Nat BY <2>4, FS_CardinalityType
  <2>6. IsFiniteSet(T) /\ Cardinality(T) <= Cardinality(B) BY <2>2, <2>3, FS_Subset
  <2>7. Cardinality(T) \in Nat BY <2>6, FS_CardinalityType
  <2> QED BY <2>4, <2>5, <2>6, <2>7 DEF Version, VersionAt, Told
<1>3. Version(w) \in Nat
  <2>1. Len(log) \in 0..Len(log) BY <1>1
  <2> QED BY <1>2, <2>1 DEF Version
<1> QED BY <1>1, <1>2, <1>3

(* Another command raises the version of its owner and of no other.        *)
LEMMA VersionsGrow ==
    ASSUME log \in Seq(LogRecords), NEW e \in LogRecords, log' = Append(log, e), NEW w
    PROVE  /\ log' \in Seq(LogRecords) /\ Len(log') = Len(log) + 1
           /\ \A n \in 0..Len(log) : Told(n, w)' = Told(n, w)
           /\ Version(w)' = IF w = e.owner THEN Version(w) + 1 ELSE Version(w)
           /\ Told(Len(log), w) <= Told(Len(log), w)' /\ Told(Len(log), w)' \in Nat
<1>1. /\ Len(log) \in Nat /\ log' \in Seq(LogRecords) /\ Len(log') = Len(log) + 1
      /\ \A k \in 1..Len(log) : log'[k] = log[k]
      /\ log'[Len(log) + 1] = e
  BY AppendProperties, LenProperties
<1>2. ASSUME NEW n \in 0..Len(log) PROVE Told(n, w)' = Told(n, w)
  <2>1. \A k \in 1..n : log'[k] = log[k] /\ \A h \in k..n : log'[h] = log[h] BY <1>1
  <2>2. {k \in 1..n : /\ log'[k].owner = w
                      /\ \E h \in k..n : log'[h].owner = w /\ log'[h].heard}
         = {k \in 1..n : /\ log[k].owner = w
                         /\ \E h \in k..n : log[h].owner = w /\ log[h].heard}
    BY <2>1
  <2> QED BY <2>2 DEF Told
<1>4. Told(Len(log), w) <= Told(Len(log), w)' /\ Told(Len(log), w)' \in Nat
  <2> DEFINE T == {k \in 1..Len(log) :
                      /\ log[k].owner = w
                      /\ \E h \in k..Len(log) : log[h].owner = w /\ log[h].heard}
             U == {k \in 1..Len(log') :
                      /\ log'[k].owner = w
                      /\ \E h \in k..Len(log') : log'[h].owner = w /\ log'[h].heard}
  <2>1. T \subseteq U
    <3> SUFFICES ASSUME NEW k \in T PROVE k \in U OBVIOUS
    <3>1. PICK h \in k..Len(log) : log[h].owner = w /\ log[h].heard OBVIOUS
    <3>2. h \in k..Len(log') /\ log'[h] = log[h] /\ k \in 1..Len(log') /\ log'[k] = log[k]
      BY <1>1
    <3> QED BY <3>1, <3>2
  <2>2. IsFiniteSet(1..Len(log')) BY <1>1, FS_Interval
  <2>3. IsFiniteSet(U) BY <2>2, FS_Subset
  <2>4. Cardinality(T) <= Cardinality(U) BY <2>1, <2>3, FS_Subset
  <2>5. Cardinality(U) \in Nat BY <2>3, FS_CardinalityType
  <2> QED BY <2>4, <2>5 DEF Told
<1>3. Version(w)' = IF w = e.owner THEN Version(w) + 1 ELSE Version(w)
  <2> DEFINE B == {k \in 1..Len(log) : log[k].owner = w}
             C == {k \in 1..Len(log') : log'[k].owner = w}
  <2>1. IsFiniteSet(1..Len(log)) BY <1>1, FS_Interval
  <2>2. IsFiniteSet(B) BY <2>1, FS_Subset
  <2>3. CASE w = e.owner
    <3>1. C = B \cup {Len(log) + 1} /\ Len(log) + 1 \notin B BY <1>1, <2>3
    <3>2. Cardinality(C) = Cardinality(B) + 1 BY <2>2, <3>1, FS_AddElement
    <3> QED BY <2>3, <3>2 DEF Version, VersionAt
  <2>4. CASE w # e.owner
    <3>1. C = B BY <1>1, <2>4
    <3> QED BY <2>4, <3>1 DEF Version, VersionAt
  <2> QED BY <2>3, <2>4
<1> QED BY <1>1, <1>2, <1>3, <1>4

LEMMA LogSteps ==
    ASSUME log \in Seq(LogRecords), log' = log \/ \E e \in LogRecords : log' = Append(log, e)
    PROVE  /\ log' \in Seq(LogRecords) /\ Len(log) <= Len(log')
           /\ \A w : /\ Version(w)' \in Nat /\ Version(w) <= Version(w)'
                     /\ Told(Len(log), w) \in Nat /\ Told(Len(log), w)' \in Nat
                     /\ Told(Len(log), w) <= Told(Len(log), w)'
                     /\ \A n \in 0..Len(log) : Told(n, w)' = Told(n, w)
<1>2. Len(log) \in Nat BY LenProperties
<1>5. Len(log) \in 0..Len(log) BY <1>2
<1>1. \A w : Version(w) \in Nat /\ Told(Len(log), w) \in Nat BY <1>5, VersionsAre
<1>3. CASE log' = log
  <2>1. \A w : /\ Version(w)' = Version(w) /\ Told(Len(log), w)' = Told(Len(log), w)
               /\ \A n \in 0..Len(log) : Told(n, w)' = Told(n, w)
    BY <1>3 DEF Version, VersionAt, Told
  <2> QED BY <1>1, <1>2, <1>3, <2>1
<1>4. CASE \E e \in LogRecords : log' = Append(log, e)
  <2>1. PICK e \in LogRecords : log' = Append(log, e) BY <1>4
  <2>2. \A w : Version(w)' = IF w = e.owner THEN Version(w) + 1 ELSE Version(w)
    BY <2>1, VersionsGrow
  <2> QED BY <1>1, <1>2, <2>1, <2>2, VersionsGrow
<1> QED BY <1>3, <1>4

-----------------------------------------------------------------------------
(* The parts of what the screen holds.                                     *)
LEMMA HoldsFacts ==
    ASSUME ScreenHolds
    PROVE  /\ log \in Seq(LogRecords) /\ Len(log) \in Nat /\ calls \in Seq(CallRecords)
           /\ scene \in ScreenNames /\ Main \in Parts \ {"workflow", "reviews", "project"}
           /\ \A w : Version(w) \in Nat /\ Told(stream.pos, w) \in Nat
                     /\ Told(stream.pos, w) <= Version(w)
           /\ stream.pos \in 0..Len(log)
           /\ \A i \in DOMAIN calls : calls[i] \in CallRecords /\ calls[i] \in Range(calls)
                                      /\ ScreenCallFits(calls[i])
<1>1. log \in Seq(LogRecords) /\ calls \in Seq(CallRecords) /\ scene \in ScreenNames
      /\ stream.pos \in 0..Len(log)
  BY DEF ScreenHolds, ServerTyped, PageTyped
<1>2. Main \in Parts \ {"workflow", "reviews", "project"} BY <1>1, TodosAre DEF Main
<1>3. \A i \in DOMAIN calls : calls[i] \in CallRecords /\ calls[i] \in Range(calls)
  BY <1>1, ElementOfSeq, LenProperties DEF Range
<1> QED BY <1>1, <1>2, <1>3, VersionsAre DEF ScreenHolds

(* Fitting calls go on fitting as the server goes on.                      *)
LEMMA CallStays ==
    ASSUME ScreenHolds, NEW c \in CallRecords, ScreenCallFits(c), scene' = scene,
           log' = log \/ \E e \in LogRecords : log' = Append(log, e)
    PROVE  ScreenCallFits(c)'
<1>1. log \in Seq(LogRecords) /\ \A w : Version(w) \in Nat BY HoldsFacts
<1>2. log' \in Seq(LogRecords) /\ \A w : Version(w) <= Version(w)' BY <1>1, LogSteps
<1>3. \A w : Version(w)' \in Nat BY <1>1, LogSteps
<1>4. c.effect \in Nat /\ \A p \in Parts : c.got[p] \in Int
  BY DEF CallRecords, Versions, Unavailable
<1>5. c.effect <= Version(c.target)' /\ \A p \in Parts : c.got[p] <= Version(c.owner)'
  BY <1>1, <1>2, <1>3, <1>4 DEF ScreenCallFits
<1> QED BY <1>5 DEF ScreenCallFits, Complete, Main

LEMMA CallsStay ==
    ASSUME ScreenHolds, NEW c \in Range(calls), scene' = scene,
           log' = log \/ \E e \in LogRecords : log' = Append(log, e)
    PROVE  ScreenCallFits(c)'
<1>1. c \in CallRecords /\ ScreenCallFits(c)
  BY HoldsFacts, ElementOfSeq DEF ScreenHolds, Range
<1> QED BY <1>1, CallStays

(* A call that begins fits.                                                *)
LEMMA ScreenCallBegins ==
    ASSUME ScreenHolds, NEW kind \in Kinds, NEW owner \in Owners, NEW target \in Owners,
           NEW todo, IF kind = "choose" THEN todo = <<{"file"}>> ELSE todo \in Before(scene),
           scene \in Runtimes => owner = target,
           kind \in UserKinds => scene \in ViewGated \cup Runtimes,
           kind = "fetch" => scene \notin ViewGated
    PROVE  Call(kind, owner, target, todo) \in CallRecords
           /\ ScreenCallFits(Call(kind, owner, target, todo))
<1>1. todo \in Todos BY HoldsFacts DEF Todos
<1>2. Unread \in [Parts -> Versions] /\ \A p \in Parts : Unread[p] = -1
  BY DEF Unread, Versions, Unavailable
<1> DEFINE c == Call(kind, owner, target, todo)
<1>3. c \in CallRecords BY <1>1, <1>2 DEF Call, CallRecords
<1>4. /\ c.kind = kind /\ c.owner = owner /\ c.target = target /\ c.todo = todo
      /\ c.got = Unread /\ c.effect = 0 /\ c.ok = TRUE
  BY DEF Call
<1>5. \A w : Version(w) \in Nat BY HoldsFacts
<1> HIDE DEF c
<1>6. /\ c.effect <= Version(c.target) /\ \A p \in Parts : c.got[p] <= Version(c.owner)
      /\ Includes(c, c.effect)
  BY <1>2, <1>4, <1>5 DEF Includes, Unavailable
<1>7. ScreenCallFits(c) BY <1>4, <1>6 DEF ScreenCallFits
<1> QED BY <1>3, <1>7 DEF c

LEMMA ScreenLoadBegins ==
    ASSUME ScreenHolds, NEW owner \in Owners
    PROVE  /\ LoadOf(owner) \in CallRecords /\ ScreenCallFits(LoadOf(owner))
           /\ LoadOf(owner).owner = owner
           /\ LoadOf(owner).kind = IF scene \in Unguarded THEN "fetch" ELSE "load"
<1>1. Load[scene] \in Before(scene) BY HoldsFacts, ProgramsAre
<1>2. scene \in Unguarded => scene \notin ViewGated BY ScenesAre
<1>3. PICK kind : kind = IF scene \in Unguarded THEN "fetch" ELSE "load" OBVIOUS
<1>4. kind \in Kinds /\ kind \notin UserKinds BY <1>3 DEF Kinds, UserKinds
<1>5. kind # "choose" /\ (kind = "fetch" => scene \notin ViewGated) BY <1>2, <1>3
<1>6. LoadOf(owner) = Call(kind, owner, owner, Load[scene]) BY <1>3 DEF LoadOf
<1>7. LoadOf(owner) \in CallRecords /\ ScreenCallFits(LoadOf(owner))
  BY <1>1, <1>4, <1>5, <1>6, ScreenCallBegins
<1>8. LoadOf(owner).owner = owner /\ LoadOf(owner).kind = kind BY <1>6 DEF Call
<1> QED BY <1>3, <1>7, <1>8

LEMMA RefreshBegins ==
    ASSUME ScreenHolds, NEW owner \in Owners, NEW kind \in {"fetch", "silent"},
           kind = "fetch" => scene \notin ViewGated
    PROVE  Call(kind, owner, owner, Load[scene]) \in CallRecords
           /\ ScreenCallFits(Call(kind, owner, owner, Load[scene]))
<1>1. Load[scene] \in Before(scene) BY HoldsFacts, ProgramsAre
<1>2. kind \in Kinds /\ kind \notin UserKinds /\ kind # "choose" BY DEF Kinds, UserKinds
<1> QED BY <1>1, <1>2, ScreenCallBegins

-----------------------------------------------------------------------------
(* What the server answers to a call.                                      *)
SameCall(d, c) == d.kind = c.kind /\ d.owner = c.owner /\ d.target = c.target

(* Each part is as it was, or unavailable, or the newest there is; and the *)
(* first part changes only when it is the first to be read.                *)
ReadsNew(d, c) ==
    /\ \A p \in Parts : d.got[p] = c.got[p] \/ d.got[p] = Unavailable \/ d.got[p] >= Version(c.owner)
    /\ d.got[Main] = c.got[Main] \/ c.got = Unread \/ d.got = Unread

LogMoves == log' = log \/ \E e \in LogRecords : log' = Append(log, e)

LEMMA UnreadIs ==
    /\ Unread \in [Parts -> Versions] /\ \A p \in Parts : Unread[p] = Unavailable
    /\ Unavailable = -1 /\ Unavailable \in Versions
BY DEF Unread, Versions, Unavailable

LEMMA RestIsTodo ==
    ASSUME ScreenHolds, NEW c \in CallRecords, ScreenCallFits(c), c.todo # <<>>
    PROVE  /\ c.ok /\ Tail(c.todo) \in Todos /\ <<>> \in Todos
           /\ c.kind = "choose" => Head(c.todo) = {"file"} /\ Tail(c.todo) = <<>>
           /\ c.kind # "choose" /\ c.todo \in Before(scene) =>
                 \/ Head(c.todo) \in Preludes /\ Tail(c.todo) \in Before(scene)
                 \/ Head(c.todo) = {Main} /\ Tail(c.todo) \in After(scene)
                 \/ Head(c.todo) = {"render"} /\ scene \in Runtimes /\ Tail(c.todo) \in After(scene)
           /\ c.kind # "choose" /\ c.todo \in After(scene) =>
                 Head(c.todo) = LaterOf(scene) /\ Tail(c.todo) \in After(scene)
           /\ c.kind # "choose" => c.todo \in Before(scene) \/ c.todo \in After(scene)
<1>1. scene \in ScreenNames BY HoldsFacts
<1>2. Head(<<{"file"}>>) = {"file"} /\ Tail(<<{"file"}>>) = <<>> OBVIOUS
<1>3. /\ c.ok /\ (c.kind = "choose" => c.todo = <<{"file"}>>)
      /\ c.kind # "choose" => c.todo \in Before(scene) \/ c.todo \in After(scene)
  BY DEF ScreenCallFits
<1>4. <<>> \in After(scene) BY <1>1, TodosAre
<1>5. /\ \A t \in Before(scene) :
            \/ Head(t) \in Preludes /\ Tail(t) \in Before(scene)
            \/ Head(t) = {Main} /\ Tail(t) \in After(scene)
            \/ Head(t) = {"render"} /\ scene \in Runtimes /\ Tail(t) \in After(scene)
      /\ \A t \in After(scene) : t # <<>> => Head(t) = LaterOf(scene) /\ Tail(t) \in After(scene)
  BY <1>1, TodosAre DEF Main
<1>6. Before(scene) \subseteq Todos /\ After(scene) \subseteq Todos BY <1>1 DEF Todos
<1>7. Tail(c.todo) \in Todos
  <2>1. CASE c.kind = "choose" BY <1>2, <1>3, <1>4, <1>6, <2>1
  <2>2. CASE c.kind # "choose" BY <1>3, <1>5, <1>6, <2>2
  <2> QED BY <2>1, <2>2
<1> QED BY <1>2, <1>3, <1>4, <1>5, <1>6, <1>7

(* A request that fails, here or elsewhere: the call ends with nothing.    *)
LEMMA RefusedFits ==
    ASSUME ScreenHolds, NEW c \in CallRecords, ScreenCallFits(c), scene' = scene, LogMoves
    PROVE  Refused(c) \in CallRecords /\ SameCall(Refused(c), c) /\ ScreenCallFits(Refused(c))'
           /\ ReadsNew(Refused(c), c)
<1> DEFINE d == Refused(c)
<1>1. /\ d = [c EXCEPT !.todo = <<>>, !.ok = FALSE, !.got = Unread, !.effect = 0]
  BY DEF Refused
<1>2. <<>> \in Todos BY HoldsFacts, TodosAre DEF Todos
<1>3. d \in CallRecords /\ SameCall(d, c) /\ d.todo = <<>> /\ ~d.ok /\ d.got = Unread /\ d.effect = 0
  <2>1. /\ c = [kind |-> c.kind, owner |-> c.owner, target |-> c.target, todo |-> c.todo,
                got |-> c.got, effect |-> c.effect, ok |-> c.ok]
        /\ c.kind \in Kinds /\ c.owner \in Owners /\ c.target \in Owners
    BY DEF CallRecords
  <2>2. d = [kind |-> c.kind, owner |-> c.owner, target |-> c.target, todo |-> <<>>,
             got |-> Unread, effect |-> 0, ok |-> FALSE]
    BY <1>1, <2>1
  <2> HIDE DEF d
  <2> QED BY <1>2, <2>1, <2>2, UnreadIs DEF CallRecords, SameCall
<1> HIDE DEF d
<1>4. \A w : Version(w)' \in Nat BY HoldsFacts, LogSteps DEF LogMoves
<1>5. /\ d.effect <= Version(d.target)' /\ \A p \in Parts : d.got[p] <= Version(d.owner)'
      /\ Includes(d, d.effect)
  BY <1>3, <1>4, UnreadIs DEF Includes
<1>6. ScreenCallFits(d)' BY <1>3, <1>5 DEF ScreenCallFits, SameCall
<1>7. ReadsNew(d, c) BY <1>3, UnreadIs DEF ReadsNew
<1> QED BY <1>3, <1>6, <1>7 DEF d

LEMMA RecordIsCall ==
    ASSUME NEW kind \in Kinds, NEW owner \in Owners, NEW target \in Owners,
           NEW todo \in Todos, NEW got \in [Parts -> Versions], NEW n \in Nat,
           NEW ok \in BOOLEAN
    PROVE  [kind |-> kind, owner |-> owner, target |-> target, todo |-> todo,
            got |-> got, effect |-> n, ok |-> ok] \in CallRecords
BY DEF CallRecords

(* What an answered call holds.                                            *)
LEMMA AnsweredIs ==
    ASSUME NEW c \in CallRecords, NEW got \in [Parts -> Versions], NEW n \in Nat,
           Tail(c.todo) \in Todos, NEW d, d = Answered(c, got, n)
    PROVE  /\ d \in CallRecords
           /\ d.kind = c.kind /\ d.owner = c.owner /\ d.target = c.target /\ SameCall(d, c)
           /\ d.todo = Tail(c.todo) /\ d.got = got /\ d.effect = n /\ d.ok = c.ok
<1>1. /\ c = [kind |-> c.kind, owner |-> c.owner, target |-> c.target, todo |-> c.todo,
              got |-> c.got, effect |-> c.effect, ok |-> c.ok]
      /\ c.kind \in Kinds /\ c.owner \in Owners /\ c.target \in Owners /\ c.ok \in BOOLEAN
  BY DEF CallRecords
<1>2. PICK rest : rest = Tail(c.todo) OBVIOUS
<1>3. d = [c EXCEPT !.todo = rest, !.got = got, !.effect = n] BY <1>2 DEF Answered
<1>4. d = [kind |-> c.kind, owner |-> c.owner, target |-> c.target,
           todo |-> rest, got |-> got, effect |-> n, ok |-> c.ok]
  BY <1>1, <1>3
<1>6. /\ d.kind = c.kind /\ d.owner = c.owner /\ d.target = c.target
      /\ d.todo = rest /\ d.got = got /\ d.effect = n /\ d.ok = c.ok
  BY <1>4
<1>7. d \in CallRecords
  <2>1. rest \in Todos BY <1>2
  <2> QED BY <1>1, <1>4, <2>1, RecordIsCall
<1> QED BY <1>2, <1>6, <1>7 DEF SameCall

(* The server answers what is asked: the first part, or what comes after.  *)
LEMMA ReadsFits ==
    ASSUME ScreenHolds, NEW i \in DOMAIN calls, calls[i].todo # <<>>, Reads(i), scene' = scene
    PROVE  \E d \in CallRecords :
              /\ calls' = [calls EXCEPT ![i] = d] /\ SameCall(d, calls[i])
              /\ ScreenCallFits(d)' /\ ReadsNew(d, calls[i])
<1> PICK c : c = calls[i] OBVIOUS
<1> PICK asked : asked = Head(c.todo) OBVIOUS
<1>1. c \in CallRecords /\ ScreenCallFits(c) BY HoldsFacts
<1>2. PICK lost \in {{}, asked \cap Swallowed} :
        calls' = [calls EXCEPT ![i] =
          Answered(c, [p \in Parts |-> CASE p \in asked \cap lost -> Unavailable
                                        [] p \in asked \ lost -> Version(c.owner)
                                        [] OTHER -> c.got[p]], c.effect)]
  BY DEF Reads
<1>3. asked \subseteq Parts /\ log' = log BY DEF Reads
<1>18. PICK got : got = [p \in Parts |-> CASE p \in asked \cap lost -> Unavailable
                                         [] p \in asked \ lost -> Version(c.owner)
                                         [] OTHER -> c.got[p]]
  OBVIOUS
<1>19. PICK d : d = Answered(c, got, c.effect) OBVIOUS
<1> PICK now : now = Version(c.owner) OBVIOUS
<1>4. /\ c.ok /\ c.kind # "choose" /\ Tail(c.todo) \in After(scene) /\ Tail(c.todo) \in Todos
      /\ \/ asked = {Main} /\ c.got = Unread
         \/ asked = LaterOf(scene) /\ Complete(c.got)
  <2>1. /\ "change" \notin Parts /\ "unheard" \notin Parts /\ "check" \notin Parts
        /\ "render" \notin Parts /\ "file" \notin Parts
    BY DEF Parts
  <2>2. asked \notin Preludes /\ asked # {"render"} /\ asked # {"file"}
    BY <1>3, <2>1 DEF Preludes
  <2>3. c.kind # "choose" /\ c.ok /\ Tail(c.todo) \in Todos BY <1>1, <2>2, RestIsTodo
  <2>4. \/ c.todo \in Before(scene) /\ c.got = Unread
        \/ c.todo \in After(scene) /\ Complete(c.got)
    BY <1>1, <2>3 DEF ScreenCallFits
  <2>5. CASE c.todo \in Before(scene) /\ c.got = Unread
    <3>1. asked = {Main} /\ Tail(c.todo) \in After(scene) BY <1>1, <2>2, <2>3, <2>5, RestIsTodo
    <3> QED BY <2>3, <2>5, <3>1
  <2>6. CASE c.todo \in After(scene) /\ Complete(c.got)
    <3>1. asked = LaterOf(scene) /\ Tail(c.todo) \in After(scene) BY <1>1, <2>3, <2>6, RestIsTodo
    <3> QED BY <2>3, <2>6, <3>1
  <2> QED BY <2>4, <2>5, <2>6
<1>6. /\ c.got \in [Parts -> Versions] /\ c.kind \in Kinds /\ c.owner \in Owners /\ c.target \in Owners
      /\ c.effect \in Nat /\ c.ok \in BOOLEAN
  BY <1>1 DEF CallRecords
<1>7. /\ Main \in Parts \ {"workflow", "reviews", "project"} /\ scene \in ScreenNames
      /\ \A w : Version(w) \in Nat
  BY HoldsFacts
<1>8. \A p \in Parts :
        \/ p \in asked /\ (got[p] = now \/ (got[p] = Unavailable /\ p \in Swallowed))
        \/ p \notin asked /\ got[p] = c.got[p]
  <2> SUFFICES ASSUME NEW p \in Parts
               PROVE  \/ p \in asked /\ (got[p] = Version(c.owner) \/ (got[p] = Unavailable /\ p \in Swallowed))
                      \/ p \notin asked /\ got[p] = c.got[p]
    OBVIOUS
  <2>3. got[p] = CASE p \in asked \cap lost -> Unavailable
                   [] p \in asked \ lost -> Version(c.owner)
                   [] OTHER -> c.got[p]
    BY <1>18
  <2>4. CASE p \in asked \cap lost BY <2>3, <2>4
  <2>5. CASE p \in asked \ lost BY <2>3, <2>5
  <2>6. CASE p \notin asked BY <2>3, <2>6
  <2> QED BY <2>4, <2>5, <2>6
<1>9. got \in [Parts -> Versions]
  <2>1. \A p \in Parts : got[p] \in Versions BY <1>6, <1>7, <1>8, UnreadIs DEF Versions
  <2> QED BY <1>18, <2>1
<1>10. \A w : Version(w)' = Version(w) BY <1>3 DEF Version, VersionAt
<1>11. /\ d \in CallRecords /\ SameCall(d, c)
       /\ d.got = got /\ d.effect = c.effect /\ d.ok = c.ok /\ d.todo = Tail(c.todo)
  <2>1. Tail(c.todo) \in Todos BY <1>4
  <2>2. c.effect \in Nat BY <1>6
  <2> QED BY <1>1, <1>9, <1>19, <2>1, <2>2, AnsweredIs
<1>13. \A p \in Parts : got[p] <= now
  <2>1. \A p \in Parts : c.got[p] <= now BY <1>1 DEF ScreenCallFits
  <2> QED BY <1>7, <1>8, <2>1, UnreadIs
<1>14. Complete(got)
  <2>1. now \in Nat BY <1>7
  <2>2. CASE asked = {Main} /\ c.got = Unread
    <3>1. Main \notin Swallowed BY <1>7 DEF Swallowed
    <3>2. got[Main] = now BY <1>7, <1>8, <2>2, <3>1
    <3>3. \A p \in Parts \ {Main} : got[p] = Unavailable BY <1>8, <2>2, UnreadIs
    <3>4. now # Unavailable /\ now >= now BY <2>1, UnreadIs
    <3> QED BY <3>2, <3>3, <3>4 DEF Complete
  <2>3. CASE asked = LaterOf(scene) /\ Complete(c.got)
    <3>1. Main \notin asked BY <1>7, <2>3, TodosAre DEF Main
    <3>2. got[Main] = c.got[Main] BY <1>7, <1>8, <3>1
    <3>3. c.got[Main] <= now /\ c.got[Main] \in Int BY <1>1, <1>6, <1>7 DEF ScreenCallFits, Versions, Unavailable
    <3>4. \A p \in Parts \ {"project"} : got[p] = Unavailable \/ got[p] >= c.got[Main]
      BY <1>8, <2>1, <2>3, <3>3 DEF Complete
    <3> QED BY <2>3, <3>2, <3>4 DEF Complete
  <2> QED BY <1>4, <2>2, <2>3
<1>15. ScreenCallFits(d)'
  <2>1. /\ d.kind = c.kind /\ d.owner = c.owner /\ d.target = c.target
    BY <1>11 DEF SameCall
  <2>2. d.effect <= Version(d.target)' /\ \A p \in Parts : d.got[p] <= Version(d.owner)'
    <3>1. d.effect <= Version(d.target) BY <1>1, <1>11, <2>1 DEF ScreenCallFits
    <3>2. \A p \in Parts : d.got[p] <= Version(d.owner) BY <1>11, <1>13, <2>1
    <3> QED BY <1>10, <3>1, <3>2
  <2>3. Complete(d.got)' BY <1>11, <1>14, <2>1 DEF Complete, Main
  <2>4. d.owner = d.target => Includes(d, d.effect)
    <3> SUFFICES ASSUME c.owner = c.target PROVE Includes(d, c.effect) BY <1>11, <2>1
    <3>1. c.effect <= now /\ Includes(c, c.effect) BY <1>1 DEF ScreenCallFits
    <3>2. \A p \in Parts \ {"project"} : got[p] = Unavailable \/ got[p] >= c.effect
      BY <1>6, <1>7, <1>8, <3>1 DEF Includes
    <3> QED BY <1>11, <3>2 DEF Includes
  <2> QED BY <1>1, <1>4, <1>11, <2>1, <2>2, <2>3, <2>4 DEF ScreenCallFits
<1>16. ReadsNew(d, c)
  <2>1. d.got = got BY <1>11
  <2>2. \A p \in Parts : got[p] = c.got[p] \/ got[p] = Unavailable \/ got[p] >= now
    <3>1. now >= now BY <1>7
    <3> QED BY <1>8, <3>1
  <2>3. got[Main] = c.got[Main] \/ c.got = Unread
    <3>1. CASE asked = LaterOf(scene)
      <4>1. Main \notin asked BY <1>7, <3>1, TodosAre DEF Main
      <4> QED BY <1>7, <1>8, <4>1
    <3> QED BY <1>4, <3>1
  <2> QED BY <2>1, <2>2, <2>3 DEF ReadsNew
<1>17. calls' = [calls EXCEPT ![i] = d] BY <1>2, <1>18, <1>19
<1> QED BY <1>11, <1>15, <1>16, <1>17

(* A command takes effect.                                                 *)
LEMMA ChangesFits ==
    ASSUME ScreenHolds, NEW i \in DOMAIN calls, calls[i].todo # <<>>, Changes(i), scene' = scene
    PROVE  /\ LogMoves
           /\ \E d \in CallRecords :
              /\ calls' = [calls EXCEPT ![i] = d] /\ SameCall(d, calls[i])
              /\ ScreenCallFits(d)' /\ ReadsNew(d, calls[i])
<1> PICK c : c = calls[i] OBVIOUS
<1> PICK version : version = Version(c.target) + 1 OBVIOUS
<1>1. c \in CallRecords /\ ScreenCallFits(c) BY HoldsFacts
<1> PICK render : render = Answered(c, [c.got EXCEPT !["runtime"] = version], version) OBVIOUS
<1> PICK done : done = Answered(c, c.got, version) OBVIOUS
<1>2. /\ Head(c.todo) \in {{"change"}, {"unheard"}, {"render"}}
      /\ \E told \in BOOLEAN : log' = Append(log, [owner |-> c.target, heard |-> told])
      /\ \/ calls' = [calls EXCEPT ![i] = IF Head(c.todo) # {"render"} THEN done ELSE render]
         \/ calls' = [calls EXCEPT ![i] = Refused(c)]
  <2>1. PICK got : got = IF Head(c.todo) = {"render"} THEN [c.got EXCEPT !["runtime"] = version]
                         ELSE c.got
    OBVIOUS
  <2>2. /\ Head(c.todo) \in {{"change"}, {"unheard"}, {"render"}}
        /\ \E told \in BOOLEAN : log' = Append(log, [owner |-> c.target, heard |-> told])
        /\ \/ calls' = [calls EXCEPT ![i] = Answered(c, got, version)]
           \/ calls' = [calls EXCEPT ![i] = Refused(c)]
    BY <2>1 DEF Changes
  <2>4. Answered(c, got, version) = IF Head(c.todo) # {"render"} THEN done ELSE render
    BY <2>1
  <2> QED BY <2>2, <2>4
<1>3. /\ c.got \in [Parts -> Versions] /\ c.kind \in Kinds /\ c.owner \in Owners /\ c.target \in Owners
      /\ c.effect \in Nat /\ c.ok \in BOOLEAN
  BY <1>1 DEF CallRecords
<1>8. PICK e \in LogRecords : log' = Append(log, e) /\ e.owner = c.target
  BY <1>2, <1>3 DEF LogRecords
<1>4. LogMoves BY <1>8 DEF LogMoves
<1>5. /\ \A w : Version(w) \in Nat /\ Version(w)' \in Nat /\ Version(w) <= Version(w)'
      /\ Version(c.target)' = version /\ log \in Seq(LogRecords) /\ scene \in ScreenNames
      /\ Main \in Parts
  <2>1. log \in Seq(LogRecords) /\ \A w : Version(w) \in Nat BY HoldsFacts
  <2>2. \A w : Version(w)' \in Nat /\ Version(w) <= Version(w)' BY <1>4, <2>1, LogSteps DEF LogMoves
  <2>3. Version(c.target)' = Version(c.target) + 1 BY <1>3, <1>8, <2>1, VersionsGrow
  <2> QED BY <2>1, <2>2, <2>3, HoldsFacts
<1>6. /\ c.ok /\ c.kind # "choose" /\ Tail(c.todo) \in Todos
      /\ \/ Head(c.todo) \in Preludes /\ Tail(c.todo) \in Before(scene) /\ c.got = Unread
         \/ Head(c.todo) = {"render"} /\ scene \in Runtimes /\ Tail(c.todo) \in After(scene) /\ c.got = Unread
  <2>1. /\ {"file"} # {"change"} /\ {"file"} # {"render"} /\ {"file"} # {"unheard"}
        /\ {"render"} \notin Preludes
    BY DEF Preludes
  <2>2. c.ok /\ c.kind # "choose" /\ Tail(c.todo) \in Todos BY <1>1, <1>2, <2>1, RestIsTodo
  <2>3. /\ {"change"} # {Main} /\ {"render"} # {Main} /\ LaterOf(scene) # {"change"}
        /\ LaterOf(scene) # {"render"} /\ {"unheard"} # {Main} /\ LaterOf(scene) # {"unheard"}
    <3>1. "change" \notin Parts /\ "render" \notin Parts /\ "unheard" \notin Parts
      BY DEF Parts
    <3>2. LaterOf(scene) \subseteq Parts BY <1>5, TodosAre
    <3> QED BY <1>5, <3>1, <3>2
  <2>4. CASE c.todo \in Before(scene) /\ c.got = Unread
    BY <1>1, <1>2, <2>2, <2>3, <2>4, RestIsTodo
  <2>5. CASE c.todo \in After(scene)
    BY <1>1, <1>2, <2>2, <2>3, <2>5, RestIsTodo
  <2> QED BY <1>1, <2>2, <2>4, <2>5 DEF ScreenCallFits
<1>7. CASE calls' = [calls EXCEPT ![i] = Refused(c)]
  <2>1. Refused(c) \in CallRecords /\ SameCall(Refused(c), c) /\ ScreenCallFits(Refused(c))'
        /\ ReadsNew(Refused(c), c)
    BY <1>1, <1>4, RefusedFits
  <2> QED BY <1>4, <1>7, <2>1
<1>9. CASE Head(c.todo) # {"render"} /\ calls' = [calls EXCEPT ![i] = done]
  <2>1. /\ done.kind = c.kind /\ done.owner = c.owner /\ done.target = c.target
        /\ done.todo = Tail(c.todo) /\ done.got = c.got /\ done.effect = version /\ done.ok = c.ok
        /\ done \in CallRecords
    <3>1. version \in Nat BY <1>5
    <3>2. Tail(c.todo) \in Todos BY <1>6
    <3>3. c.got \in [Parts -> Versions] BY <1>3
    <3> QED BY <1>1, <3>1, <3>2, <3>3, AnsweredIs
  <2>2. Tail(c.todo) \in Before(scene) /\ c.got = Unread BY <1>6, <1>9
  <2>3. /\ done.effect <= Version(done.target)' /\ \A p \in Parts : done.got[p] <= Version(done.owner)'
        /\ Includes(done, done.effect)
    BY <1>5, <2>1, <2>2, UnreadIs DEF Includes
  <2>4. ScreenCallFits(done)' BY <1>1, <1>6, <2>1, <2>2, <2>3 DEF ScreenCallFits
  <2>5. SameCall(done, c) /\ ReadsNew(done, c) BY <2>1, <2>2 DEF SameCall, ReadsNew
  <2> QED BY <1>4, <1>9, <2>1, <2>4, <2>5
<1>10. CASE Head(c.todo) = {"render"} /\ calls' = [calls EXCEPT ![i] = render]
  <2>1. scene \in Runtimes /\ Tail(c.todo) \in After(scene) /\ c.got = Unread
    BY <1>6, <1>10 DEF Preludes
  <2>2. Main = "runtime" /\ c.owner = c.target BY <1>1, <1>5, <2>1, TodosAre DEF Main, ScreenCallFits
  <2>3. /\ version \in Nat /\ version \in Versions /\ version # Unavailable /\ version >= version
        /\ version = Version(c.owner) + 1 /\ Version(c.owner) \in Nat
    BY <1>5, <2>2, UnreadIs DEF Versions
  <2>13. PICK got : got = [c.got EXCEPT !["runtime"] = version] OBVIOUS
  <2>4. /\ got \in [Parts -> Versions] /\ got["runtime"] = version
        /\ \A p \in Parts \ {"runtime"} : got[p] = Unavailable
    <3>1. "runtime" \in Parts BY DEF Parts
    <3> QED BY <1>3, <2>1, <2>3, <2>13, <3>1, UnreadIs
  <2>5. Complete(got)
    <3>1. \A p \in Parts \ {"project"} : got[p] = Unavailable \/ got[p] >= version BY <2>3, <2>4
    <3> QED BY <2>2, <2>3, <2>4, <3>1 DEF Complete
  <2>6. /\ render.kind = c.kind /\ render.owner = c.owner /\ render.target = c.target
        /\ render.todo = Tail(c.todo) /\ render.got = got /\ render.effect = version
        /\ render.ok = c.ok /\ render \in CallRecords
    <3>1. Tail(c.todo) \in Todos BY <1>6
    <3>2. version \in Nat /\ got \in [Parts -> Versions] BY <2>3, <2>4
    <3> QED BY <1>1, <2>13, <3>1, <3>2, AnsweredIs
  <2>7. \A p \in Parts : got[p] <= version /\ (got[p] = Unavailable \/ got[p] >= Version(c.owner))
    <3> QED BY <1>5, <2>3, <2>4, UnreadIs
  <2>8. render.effect <= Version(render.target)' /\ \A p \in Parts : render.got[p] <= Version(render.owner)'
    BY <1>5, <2>2, <2>3, <2>6, <2>7
  <2>12. Includes(render, render.effect) BY <2>3, <2>4, <2>6 DEF Includes
  <2>9. Complete(render.got)' BY <2>5, <2>6 DEF Complete, Main
  <2>10. ScreenCallFits(render)' BY <1>1, <1>6, <2>1, <2>6, <2>8, <2>9, <2>12 DEF ScreenCallFits
  <2>11. SameCall(render, c) /\ ReadsNew(render, c) BY <2>1, <2>6, <2>7 DEF SameCall, ReadsNew
  <2> QED BY <1>4, <1>10, <2>6, <2>10, <2>11
<1> QED BY <1>2, <1>7, <1>9, <1>10

LEMMA AnswerFits ==
    ASSUME ScreenHolds, NEW i \in DOMAIN calls, Answer(i)
    PROVE  /\ LogMoves /\ moves' \in 0..MaxMoves
           /\ \E d \in CallRecords :
              /\ calls' = [calls EXCEPT ![i] = d] /\ SameCall(d, calls[i])
              /\ ScreenCallFits(d)' /\ ReadsNew(d, calls[i])
<1>1. scene' = scene /\ calls[i].todo # <<>> BY DEF Answer
<1>2. calls[i] \in CallRecords /\ ScreenCallFits(calls[i]) BY HoldsFacts
<1>3. moves \in 0..MaxMoves /\ MaxMoves \in Nat BY OwnersAreNot DEF ScreenHolds, ServerTyped
<1>4. CASE Fails(i)
  <2>1. LogMoves /\ moves' \in 0..MaxMoves BY <1>3, <1>4 DEF Fails, LogMoves
  <2>2. calls' = [calls EXCEPT ![i] = Refused(calls[i])] BY <1>4 DEF Fails
  <2> QED BY <1>1, <1>2, <2>1, <2>2, RefusedFits
<1>5. CASE Reads(i)
  <2>1. LogMoves /\ moves' \in 0..MaxMoves BY <1>3, <1>5 DEF Reads, LogMoves
  <2> QED BY <1>1, <1>5, <2>1, ReadsFits
<1>6. CASE Changes(i)
  <2>1. moves' \in 0..MaxMoves BY <1>3, <1>6 DEF Changes
  <2> QED BY <1>1, <1>6, <2>1, ChangesFits
<1>7. CASE Inspects(i)
  <2> PICK c : c = calls[i] OBVIOUS
  <2> PICK d : d = Answered(c, c.got, c.effect) OBVIOUS
  <2>1. LogMoves /\ moves' \in 0..MaxMoves /\ log' = log BY <1>3, <1>7 DEF Inspects, LogMoves
  <2>2. calls' = [calls EXCEPT ![i] = d] /\ Head(c.todo) \in {{"file"}, {"check"}}
    BY <1>7 DEF Inspects
  <2>3. /\ c.got = Unread /\ c.ok /\ Tail(c.todo) \in Todos
        /\ c.kind = "choose" => Tail(c.todo) = <<>>
        /\ c.kind # "choose" => Tail(c.todo) \in Before(scene)
    <3>1. scene \in ScreenNames /\ Main \in Parts BY HoldsFacts
    <3>2. "file" \notin Parts /\ "check" \notin Parts BY DEF Parts
    <3>3. LaterOf(scene) \subseteq Parts BY <3>1, TodosAre
    <3>4. /\ {"file"} # {Main} /\ {"file"} \notin Preludes /\ {"file"} # {"render"}
          /\ {"check"} # {Main} /\ {"check"} # {"file"} /\ {"check"} # {"render"}
          /\ LaterOf(scene) # {"file"} /\ LaterOf(scene) # {"check"}
      BY <3>1, <3>2, <3>3 DEF Preludes
    <3>5. c.ok /\ Tail(c.todo) \in Todos /\ (c.kind = "choose" => Tail(c.todo) = <<>>)
      BY <1>1, <1>2, RestIsTodo
    <3>6. CASE c.kind = "choose" BY <1>2, <3>5, <3>6 DEF ScreenCallFits
    <3>7. CASE c.kind # "choose"
      <4>1. c.todo \notin After(scene) BY <1>1, <1>2, <2>2, <3>4, <3>7, RestIsTodo
      <4>2. c.todo \in Before(scene) BY <1>1, <1>2, <3>7, <4>1, RestIsTodo
      <4>3. Tail(c.todo) \in Before(scene) BY <1>1, <1>2, <2>2, <3>4, <3>7, <4>2, RestIsTodo
      <4>4. c.got = Unread BY <1>2, <3>5, <3>7, <4>1 DEF ScreenCallFits
      <4> QED BY <3>5, <3>7, <4>3, <4>4
    <3> QED BY <3>5, <3>6, <3>7
  <2>4. c.got \in [Parts -> Versions] /\ c.effect \in Nat BY <1>2 DEF CallRecords
  <2>7. /\ d \in CallRecords /\ d.kind = c.kind /\ d.owner = c.owner /\ d.target = c.target
        /\ d.todo = Tail(c.todo) /\ d.got = c.got /\ d.effect = c.effect /\ d.ok = c.ok
    <3>1. Tail(c.todo) \in Todos BY <2>3
    <3> QED BY <1>2, <2>4, <3>1, AnsweredIs
  <2>8. \A w : Version(w)' = Version(w) BY <2>1 DEF Version, VersionAt
  <2>5. c.owner = c.target => Includes(d, d.effect)
    BY <1>2, <2>7 DEF ScreenCallFits, Includes
  <2>9. ScreenCallFits(d)' BY <1>1, <1>2, <2>3, <2>5, <2>7, <2>8 DEF ScreenCallFits
  <2>10. SameCall(d, c) /\ ReadsNew(d, c) BY <2>7 DEF SameCall, ReadsNew
  <2> QED BY <2>1, <2>2, <2>7, <2>9, <2>10
<1> QED BY <1>4, <1>5, <1>6, <1>7 DEF Answer

-----------------------------------------------------------------------------
(* The stream follows its key.                                             *)
Data(v) == v = Blank \/ v \in ViewRecords

LEMMA KeyIs ==
    ASSUME NEW s \in Owners \cup {Off}, NEW v, Data(v), NEW r
    PROVE  /\ KeyOf(s, v, r) \in (Owners \cup {Off}) \X (Owners \cup {Off})
           /\ KeyOf(s, v, r)[1] = Wanted(s, v, r) /\ Wanted(s, v, r) \in {Off, s}
           /\ KeyOf(s, v, r)[2] = IF scene \in ViewGated /\ v # Blank THEN v.owner ELSE Off
<1>1. Wanted(s, v, r) \in {Off, s} BY DEF Wanted
<1>2. PICK w : w = Wanted(s, v, r) OBVIOUS
<1>3. PICK o : o = IF scene \in ViewGated /\ v # Blank THEN v.owner ELSE Off OBVIOUS
<1>4. o \in Owners \cup {Off} BY <1>3 DEF Data, ViewRecords
<1>5. KeyOf(s, v, r) = <<w, o>> BY <1>2, <1>3 DEF KeyOf
<1>6. <<w, o>>[1] = w /\ <<w, o>>[2] = o OBVIOUS
<1> QED BY <1>1, <1>2, <1>3, <1>4, <1>5, <1>6

LEMMA ClosedIs ==
    Closed \in StreamRecords /\ Closed.state = "off" /\ Closed.key[1] = Off /\ Closed.pos = 0
<1>1. <<Off, Off>> \in (Owners \cup {Off}) \X (Owners \cup {Off}) /\ <<Off, Off>>[1] = Off
  OBVIOUS
<1> QED BY <1>1 DEF Closed, StreamRecords

LEMMA ConnectingIs ==
    ASSUME NEW key \in (Owners \cup {Off}) \X (Owners \cup {Off})
    PROVE  /\ Connecting(key) \in StreamRecords /\ Connecting(key).state = "connecting"
           /\ Connecting(key).key = key /\ Connecting(key).pos = 0
BY DEF Connecting, StreamRecords

LEMMA StreamIs ==
    ASSUME ScreenHolds
    PROVE  /\ stream \in StreamRecords /\ Data(view) /\ scope \in Owners \cup {Off}
           /\ stream.state = "off" <=> stream.key[1] = Off
           /\ stream.state # "off" => stream.key = KeyOf(scope, view, ready) /\ stream.key[1] = scope
           /\ scope = Off => stream.state = "off"
<1>1. stream \in StreamRecords /\ Data(view) /\ scope \in Owners \cup {Off}
  BY DEF ScreenHolds, PageTyped, ViewFits, Data
<1>2. PICK key : key = KeyOf(scope, view, ready) OBVIOUS
<1>3. key[1] \in {Off, scope} BY <1>1, <1>2, KeyIs
<1>4. (key[1] = Off => stream = Closed) /\ (key[1] # Off => stream.state # "off" /\ stream.key = key)
  BY <1>2 DEF ScreenHolds, StreamFits
<1> QED BY <1>1, <1>2, <1>3, <1>4, ClosedIs

LEMMA RewiredIs ==
    ASSUME ScreenHolds, NEW s \in Owners \cup {Off}, NEW v, Data(v), NEW r
    PROVE  LET key == KeyOf(s, v, r)
               t == Rewired(s, v, r)
           IN  /\ t \in StreamRecords /\ t.pos \in {0, stream.pos}
               /\ key[1] = Off => t = Closed
               /\ key[1] # Off => t.state # "off" /\ t.key = key
               /\ key[1] # Off /\ key = stream.key => t = stream
               /\ t.state = "open" => t = stream /\ key = stream.key
<1>1. PICK key : key = KeyOf(s, v, r) OBVIOUS
<1>2. key \in (Owners \cup {Off}) \X (Owners \cup {Off}) BY <1>1, KeyIs
<1>3. PICK t : t = Rewired(s, v, r) OBVIOUS
<1>4. CASE key[1] = Off
  <2>1. t = Closed BY <1>1, <1>3, <1>4 DEF Rewired
  <2> QED BY <1>1, <1>3, <1>4, <2>1, ClosedIs
<1>5. CASE key[1] # Off /\ key = stream.key
  <2>1. t = stream BY <1>1, <1>3, <1>5 DEF Rewired
  <2> QED BY <1>1, <1>3, <1>5, <2>1, StreamIs
<1>6. CASE key[1] # Off /\ key # stream.key
  <2>1. t = Connecting(key) BY <1>1, <1>3, <1>6 DEF Rewired
  <2> QED BY <1>1, <1>2, <1>3, <1>6, <2>1, ConnectingIs
<1> QED BY <1>4, <1>5, <1>6

(* The key of the page after a step.                                       *)
LEMMA KeyAfter ==
    ASSUME scene' = scene, NEW s, NEW v, NEW r, scope' = s, view' = v, ready' = r
    PROVE  KeyOf(scope, view, ready)' = KeyOf(s, v, r)
BY DEF KeyOf, Wanted, Shows

LEMMA StreamFollows ==
    ASSUME ScreenHolds, scene' = scene, scope' \in Owners \cup {Off}, Data(view)',
           stream' = Rewired(scope', view', ready'), Len(log) <= Len(log'), Len(log') \in Nat
    PROVE  /\ StreamFits' /\ stream' \in StreamRecords /\ stream'.pos \in 0..Len(log')
           /\ stream'.state = "open" =>
                 stream' = stream /\ stream.key = KeyOf(scope', view', ready')
<1>1. PICK s, v, r : s = scope' /\ v = view' /\ r = ready' OBVIOUS
<1>2. s \in Owners \cup {Off} /\ Data(v) BY <1>1 DEF Data
<1>3. KeyOf(scope, view, ready)' = KeyOf(s, v, r) BY <1>1, KeyAfter
<1>4. PICK t : t = Rewired(s, v, r) OBVIOUS
<1>5. t = stream' BY <1>1, <1>4
<1>6. PICK key : key = KeyOf(s, v, r) OBVIOUS
<1>7. /\ t \in StreamRecords /\ t.pos \in {0, stream.pos}
      /\ key[1] = Off => t = Closed
      /\ key[1] # Off => t.state # "off" /\ t.key = key
      /\ t.state = "open" => t = stream /\ key = stream.key
  BY <1>2, <1>4, <1>6, RewiredIs
<1>8. StreamFits' BY <1>3, <1>5, <1>6, <1>7 DEF StreamFits, Closed
<1>9. t.pos \in 0..Len(log') BY <1>7, HoldsFacts
<1> QED BY <1>1, <1>5, <1>6, <1>7, <1>8, <1>9

-----------------------------------------------------------------------------
(* What does not change goes on fitting.                                   *)
LEMMA ViewStays ==
    ASSUME ScreenHolds, LogMoves, scene' = scene, view' = view
    PROVE  ViewFits' /\ Data(view)'
<1>1. log \in Seq(LogRecords) /\ \A w : Version(w) \in Nat BY HoldsFacts
<1>2. \A w : Version(w)' \in Nat /\ Version(w) <= Version(w)' BY <1>1, LogSteps DEF LogMoves
<1>3. PICK v : v = view OBVIOUS
<1>4. CASE v = Blank BY <1>3, <1>4 DEF ViewFits, Data
<1>5. CASE v # Blank
  <2>1. /\ v \in ViewRecords /\ Complete(v.got)
        /\ \A p \in Parts : v.got[p] <= Version(v.owner)
    BY <1>3, <1>5 DEF ScreenHolds, ViewFits
  <2>2. \A p \in Parts : v.got[p] \in Int BY <2>1 DEF ViewRecords, Versions, Unavailable
  <2>3. \A p \in Parts : v.got[p] <= Version(v.owner)' BY <1>1, <1>2, <2>1, <2>2
  <2>4. Complete(v.got)' BY <2>1 DEF Complete, Main
  <2> QED BY <1>3, <2>1, <2>3, <2>4 DEF ViewFits, Data, Version, VersionAt, Complete, Main
<1> QED BY <1>4, <1>5

LEMMA NoteStays ==
    ASSUME ScreenHolds, LogMoves, scene' = scene, note' = note \/ (note'.tone # "success")
    PROVE  NoteFits'
<1>1. CASE note'.tone # "success" BY <1>1 DEF NoteFits
<1>2. CASE note' = note /\ note.tone = "success"
  <2>1. log \in Seq(LogRecords) /\ \A w : Version(w) \in Nat BY HoldsFacts
  <2>2. \A w : Version(w)' \in Nat /\ Version(w) <= Version(w)' BY <2>1, LogSteps DEF LogMoves
  <2>3. PICK n : n = note OBVIOUS
  <2>4. /\ scene \in ViewGated /\ n.owner \in Owners /\ n.effect <= Version(n.owner)
        /\ n.effect \in Nat
    BY <1>2, <2>3 DEF ScreenHolds, NoteFits, PageTyped, NoteRecords
  <2>5. n.effect <= Version(n.owner)' BY <2>1, <2>2, <2>4
  <2> QED BY <1>2, <2>3, <2>4, <2>5 DEF NoteFits, Version, VersionAt
<1> QED BY <1>1, <1>2

(* The page and the stream stay as they are.                               *)
LEMMA StreamStays ==
    ASSUME ScreenHolds, LogMoves, UNCHANGED <<scene, scope, view, ready, stream>>
    PROVE  StreamFits' /\ stream' \in StreamRecords /\ stream'.pos \in 0..Len(log')
<1>1. /\ Len(log) \in Nat /\ stream.pos \in 0..Len(log) /\ stream \in StreamRecords
      /\ log \in Seq(LogRecords)
  BY HoldsFacts, StreamIs
<1>2. log' \in Seq(LogRecords) /\ Len(log) <= Len(log') BY <1>1, LogSteps DEF LogMoves
<1>3. Len(log') \in Nat BY <1>2, LenProperties
<1>4. PICK s, v, r : s = scope /\ v = view /\ r = ready OBVIOUS
<1>5. KeyOf(scope, view, ready)' = KeyOf(s, v, r) BY <1>4, KeyAfter
<1>6. StreamFits' BY <1>4, <1>5 DEF ScreenHolds, StreamFits, Closed
<1> QED BY <1>1, <1>2, <1>3, <1>6

LEMMA LogTyped ==
    ASSUME ScreenHolds, LogMoves
    PROVE  /\ log' \in Seq(LogRecords) /\ Len(log) <= Len(log') /\ Len(log') \in Nat /\ Len(log) \in Nat
           /\ stored \in [Owners -> 0..Len(log')]
<1>1. log \in Seq(LogRecords) /\ stored \in [Owners -> 0..Len(log)] /\ Len(log) \in Nat
  BY HoldsFacts DEF ScreenHolds, ServerTyped
<1>2. log' \in Seq(LogRecords) /\ Len(log) <= Len(log') BY <1>1, LogSteps DEF LogMoves
<1>3. Len(log') \in Nat BY <1>2, LenProperties
<1>4. 0..Len(log) \subseteq 0..Len(log') BY <1>1, <1>2, <1>3
<1> QED BY <1>1, <1>2, <1>3, <1>4

(* A call that begins, ends or goes on.                                    *)
LEMMA CallsFitStill ==
    ASSUME ScreenHolds, LogMoves, scene' = scene,
           NEW s \in Seq(CallRecords), \A c \in Range(s) : c \in Range(calls) \/ ScreenCallFits(c)
    PROVE  \A c \in Range(s) : ScreenCallFits(c)'
<1> TAKE c \in Range(s)
<1>1. c \in CallRecords BY ElementOfSeq DEF Range
<1>2. ScreenCallFits(c) BY DEF ScreenHolds
<1> QED BY <1>1, <1>2, CallStays DEF LogMoves

-----------------------------------------------------------------------------
(* What a call has read is shown.                                          *)
LEMMA DisplayFits ==
    ASSUME ScreenHolds, NEW c \in CallRecords, ScreenCallFits(c), c.ok, c.kind # "choose", c.todo = <<>>,
           Display(c), UNCHANGED <<scene, scope, ready, log>>
    PROVE  /\ ViewFits' /\ StreamFits' /\ Data(view)'
           /\ stream' \in StreamRecords /\ stream'.pos \in 0..Len(log')
           /\ facts' \subseteq FactNames /\ facts \subseteq facts'
           /\ view' # Blank /\ view'.owner = c.owner /\ view'.got = c.got
           /\ Complete(c.got)
           /\ stream'.state = "open" => stream' = stream
           /\ stream'.state = "open" /\ scene \in ViewGated => view # Blank /\ view.owner = c.owner
           /\ "overtaken" \notin facts' => ~Overtaken(c)
           /\ "stray" \notin facts' => c.kind = "load" \/ c.owner = scope
<1>1. view' = [owner |-> c.owner, got |-> c.got] BY DEF Display
<1>2. c.owner \in Owners /\ c.got \in [Parts -> Versions] BY DEF CallRecords
<1>3. PICK v : v = [owner |-> c.owner, got |-> c.got] OBVIOUS
<1>4. /\ v \in ViewRecords /\ v.owner = c.owner /\ v.got = c.got BY <1>2, <1>3 DEF ViewRecords
<1>5. v # Blank
  <2>1. ViewRecords \subseteq [owner : Owners, got : [Parts -> Int]]
    <3>1. Versions \subseteq Int BY DEF Versions, Unavailable
    <3>2. [Parts -> Versions] \subseteq [Parts -> Int] BY <3>1
    <3> QED BY <3>2 DEF ViewRecords
  <2> QED BY <1>4, <2>1, BlankIsNoData
<1>6. Complete(c.got)
  <2>1. \A t \in Before(scene) : t # <<>> BY HoldsFacts, TodosAre
  <2> QED BY <2>1 DEF ScreenCallFits
<1>7. \A w : Version(w)' = Version(w) BY DEF Version, VersionAt
<1>8. \A p \in Parts : v.got[p] <= Version(v.owner)' BY <1>4, <1>7 DEF ScreenCallFits
<1>9. Complete(v.got)' BY <1>4, <1>6 DEF Complete, Main
<1>10. ViewFits' /\ Data(view)'
  BY <1>1, <1>3, <1>4, <1>8, <1>9 DEF ViewFits, Data, Version, VersionAt, Complete, Main
<1>11. stream' = Rewired(scope', view', ready') BY DEF Display
<1>12. scope' \in Owners \cup {Off} BY DEF ScreenHolds, PageTyped
<1>13. LogMoves BY DEF LogMoves
<1>14. Len(log) <= Len(log') /\ Len(log') \in Nat BY <1>13, LogTyped
<1>15. /\ StreamFits' /\ stream' \in StreamRecords /\ stream'.pos \in 0..Len(log')
       /\ stream'.state = "open" => stream' = stream /\ stream.key = KeyOf(scope', view', ready')
  BY <1>10, <1>11, <1>12, <1>14, StreamFollows
<1>16. ASSUME stream'.state = "open", scene \in ViewGated
       PROVE  view # Blank /\ view.owner = c.owner
  <2>1. PICK s, r : s = scope' /\ r = ready' OBVIOUS
  <2>2. stream.key = KeyOf(s, v, r) /\ stream.state = "open" BY <1>1, <1>3, <1>15, <1>16, <2>1
  <2>3. stream.key[2] = v.owner
    <3>1. s \in Owners \cup {Off} /\ Data(v) BY <1>4, <1>12, <2>1 DEF Data
    <3>2. KeyOf(s, v, r)[2] = IF scene \in ViewGated /\ v # Blank THEN v.owner ELSE Off
      BY <3>1, KeyIs
    <3> QED BY <1>5, <1>16, <2>2, <3>2
  <2>4. /\ stream.key = KeyOf(scope, view, ready) /\ Data(view) /\ scope \in Owners \cup {Off}
    BY <2>2, StreamIs
  <2>5. stream.key[2] = IF view # Blank THEN view.owner ELSE Off BY <1>16, <2>4, KeyIs
  <2> QED BY <1>2, <1>4, <2>3, <2>5, OwnersAreNot
<1>17. facts' = facts \cup (IF c.kind # "load" /\ c.owner # scope THEN {"stray"} ELSE {})
                      \cup (IF Overtaken(c) THEN {"overtaken"} ELSE {})
  BY DEF Display
<1>18. facts \subseteq FactNames BY DEF ScreenHolds, PageTyped
<1>19. /\ facts' \subseteq FactNames /\ facts \subseteq facts'
       /\ "overtaken" \notin facts' => ~Overtaken(c)
       /\ "stray" \notin facts' => c.kind = "load" \/ c.owner = scope
  BY <1>17, <1>18 DEF FactNames
<1> QED BY <1>1, <1>3, <1>4, <1>5, <1>6, <1>10, <1>15, <1>16, <1>19

-----------------------------------------------------------------------------
(* Each operation keeps what the screen holds.                             *)
LEMMA NavigateHolds ==
    ASSUME ScreenHolds, NEW to \in Owners \cup {Off}, Navigate(to)
    PROVE  ScreenHolds'
<1>1. scene' = scene /\ log' = log /\ stored' = stored BY DEF Navigate
<1>2. LogMoves BY <1>1 DEF LogMoves
<1>3. /\ view' = view \/ view' = Blank
      /\ note' = note \/ note' = NoNote
      /\ file' \in BOOLEAN
  BY DEF Navigate, ScreenHolds, PageTyped
<1>4. ViewFits' /\ Data(view)'
  <2>1. CASE view' = view BY <1>1, <1>2, <2>1, ViewStays
  <2>2. CASE view' = Blank BY <2>2 DEF ViewFits, Data
  <2> QED BY <1>3, <2>1, <2>2
<1>5. NoteFits' /\ note' \in NoteRecords
  <2>1. NoNote \in NoteRecords /\ NoNote.tone # "success" BY DEF NoNote, NoteRecords
  <2>2. note' = note \/ note'.tone # "success" BY <1>3, <2>1
  <2>3. note \in NoteRecords BY DEF ScreenHolds, PageTyped
  <2>4. NoteFits' BY <1>1, <1>2, <2>2, NoteStays
  <2> QED BY <1>3, <2>1, <2>3, <2>4
<1>6. scope' = to /\ ready' = FALSE BY DEF Navigate
<1>7. stream' = Rewired(scope', view', ready') BY <1>6 DEF Navigate
<1>8. /\ log' \in Seq(LogRecords) /\ Len(log) <= Len(log') /\ Len(log') \in Nat
      /\ stored' \in [Owners -> 0..Len(log')]
  BY <1>1, <1>2, LogTyped
<1>9. StreamFits' /\ stream' \in StreamRecords /\ stream'.pos \in 0..Len(log')
  BY <1>1, <1>4, <1>6, <1>7, <1>8, StreamFollows
<1>10. moves' \in 0..MaxMoves BY OwnersAreNot DEF Navigate, ScreenHolds, ServerTyped
<1>11. calls' \in Seq(CallRecords) /\ \A c \in Range(calls') : c \in Range(calls) \/ ScreenCallFits(c)
  <2>1. calls \in Seq(CallRecords) BY HoldsFacts
  <2>2. Uncancelled \in Seq(CallRecords) /\ Range(Uncancelled) \subseteq Range(calls)
    BY <2>1, LoadCancelled DEF Uncancelled
  <2>3. PICK new : new = IF to = Off \/ scene \in ReadyGated THEN <<>> ELSE <<LoadOf(to)>> OBVIOUS
  <2>4. new \in Seq(CallRecords) /\ \A c \in Range(new) : ScreenCallFits(c)
    <3>1. CASE new = <<>> BY <3>1 DEF Range
    <3>2. CASE to # Off /\ new = <<LoadOf(to)>>
      <4>1. PICK l : l = LoadOf(to) OBVIOUS
      <4>2. l \in CallRecords /\ ScreenCallFits(l) BY <3>2, <4>1, ScreenLoadBegins
      <4>3. new = <<l>> BY <3>2, <4>1
      <4>4. <<l>> \in Seq(CallRecords) /\ Range(<<l>>) = {l} BY <4>2 DEF Range
      <4> QED BY <4>2, <4>3, <4>4
    <3> QED BY <2>3, <3>1, <3>2
  <2>5. calls' = Uncancelled \o new BY <2>3 DEF Navigate
  <2>6. calls' \in Seq(CallRecords) /\ Range(calls') = Range(Uncancelled) \cup Range(new)
    BY <2>2, <2>4, <2>5, Joined
  <2> QED BY <2>2, <2>4, <2>6
<1>12. \A c \in Range(calls') : ScreenCallFits(c)' BY <1>1, <1>2, <1>11, CallsFitStill
<1>13. PageTyped'
  BY <1>1, <1>3, <1>5, <1>6, <1>9, <1>11, HoldsFacts DEF Navigate, PageTyped, ScreenHolds
<1>14. ServerTyped' BY <1>8, <1>10 DEF ServerTyped
<1> QED BY <1>4, <1>5, <1>9, <1>12, <1>13, <1>14 DEF ScreenHolds

LEMMA TimelineLoadedHolds ==
    ASSUME ScreenHolds, TimelineLoaded
    PROVE  ScreenHolds'
<1>1. UNCHANGED <<scene, scope, view, note, file, queue, stored, log, facts>> BY DEF TimelineLoaded
<1>2. LogMoves BY <1>1 DEF LogMoves
<1>3. ViewFits' /\ Data(view)' BY <1>1, <1>2, ViewStays
<1>4. NoteFits' BY <1>1, <1>2, NoteStays
<1>5. /\ log' \in Seq(LogRecords) /\ Len(log) <= Len(log') /\ Len(log') \in Nat
      /\ stored' \in [Owners -> 0..Len(log')]
  BY <1>1, <1>2, LogTyped
<1>6. scope \in Owners /\ ready' = TRUE /\ scene \in ReadyGated BY DEF TimelineLoaded, ScreenHolds, PageTyped
<1>7. StreamFits' /\ stream' \in StreamRecords /\ stream'.pos \in 0..Len(log')
  <2>1. PICK s, v, r : s = scope /\ v = view /\ r = TRUE OBVIOUS
  <2>2. KeyOf(scope, view, ready)' = KeyOf(s, v, r) BY <1>1, <1>6, <2>1, KeyAfter
  <2>3. PICK key : key = KeyOf(s, v, r) OBVIOUS
  <2>4. Data(v) /\ s \in Owners BY <1>6, <2>1, StreamIs
  <2>5. key \in (Owners \cup {Off}) \X (Owners \cup {Off}) /\ key[1] = Wanted(s, v, r)
    BY <2>3, <2>4, KeyIs
  <2>6. Wanted(s, v, r) = s
    <3>1. scene \notin ViewGated /\ scene # "collab" BY <1>6, ScenesAre
    <3> QED BY <2>1, <2>4, <3>1, OwnersAreNot DEF Wanted
  <2>7. key[1] # Off BY <2>4, <2>5, <2>6, OwnersAreNot
  <2>8. stream' = Connecting(key) BY <2>1, <2>3 DEF TimelineLoaded
  <2>9. stream' \in StreamRecords /\ stream'.pos = 0 /\ stream'.state = "connecting" /\ stream'.key = key
    BY <2>5, <2>8, ConnectingIs
  <2> QED BY <1>5, <2>2, <2>3, <2>7, <2>9 DEF StreamFits
<1>8. moves' \in 0..MaxMoves BY OwnersAreNot DEF TimelineLoaded, ScreenHolds, ServerTyped
<1>9. calls' \in Seq(CallRecords) /\ \A c \in Range(calls') : c \in Range(calls) \/ ScreenCallFits(c)
  <2>1. PICK l : l = LoadOf(scope) OBVIOUS
  <2>2. l \in CallRecords /\ ScreenCallFits(l) BY <1>6, <2>1, ScreenLoadBegins
  <2>3. calls' = Append(calls, l) BY <2>1 DEF TimelineLoaded
  <2>4. calls' \in Seq(CallRecords) /\ Range(calls') = Range(calls) \cup {l}
    BY <2>2, <2>3, HoldsFacts, TaskBegins
  <2> QED BY <2>2, <2>4
<1>10. \A c \in Range(calls') : ScreenCallFits(c)' BY <1>1, <1>2, <1>9, CallsFitStill
<1>11. PageTyped' BY <1>1, <1>6, <1>7, <1>9 DEF PageTyped, ScreenHolds
<1>12. ServerTyped' BY <1>5, <1>8 DEF ServerTyped
<1> QED BY <1>3, <1>4, <1>7, <1>10, <1>11, <1>12 DEF ScreenHolds

(* A handler begins.                                                       *)
LEMMA StartHolds ==
    ASSUME ScreenHolds, NEW kind \in UserKinds, NEW todo, Start(kind, todo),
           IF kind = "choose" THEN todo = <<{"file"}>> ELSE todo \in Before(scene),
           scene \in ViewGated \cup Runtimes
    PROVE  ScreenHolds'
<1>1. UNCHANGED <<scene, scope, ready, view, file, queue, stream, stored, log, moves, facts>>
  BY DEF Start
<1>2. LogMoves BY <1>1 DEF LogMoves
<1>3. ViewFits' BY <1>1, <1>2, ViewStays
<1>4. note'.tone # "success" /\ note' \in NoteRecords
  <2>1. note' = [NoNote EXCEPT !.tone = "pending"] BY DEF Start
  <2>2. note' = [tone |-> "pending", owner |-> Off, effect |-> 0] BY <2>1 DEF NoNote
  <2> QED BY <2>2 DEF NoteRecords
<1>5. NoteFits' BY <1>1, <1>2, <1>4, NoteStays
<1>6. log' \in Seq(LogRecords) /\ stored' \in [Owners -> 0..Len(log')] BY <1>1, <1>2, LogTyped
<1>7. StreamFits' /\ stream' \in StreamRecords /\ stream'.pos \in 0..Len(log')
  BY <1>1, <1>2, StreamStays
<1>8. calls' \in Seq(CallRecords) /\ \A c \in Range(calls') : c \in Range(calls) \/ ScreenCallFits(c)
  <2>1. PICK target : target = IF scene \in {"shot", "import"} THEN view.owner ELSE scope OBVIOUS
  <2>2. scope \in Owners BY DEF Start, ScreenHolds, PageTyped
  <2>3. target \in Owners /\ (scene \in Runtimes => scope = target)
    <3>1. scene \in {"shot", "import"} => scene \notin Runtimes BY ScenesAre
    <3>2. CASE scene \in {"shot", "import"}
      <4>1. view # Blank BY <3>1, <3>2 DEF Start
      <4>2. view.owner \in Owners BY <4>1, StreamIs DEF Data, ViewRecords
      <4> QED BY <2>1, <3>1, <3>2, <4>2
    <3>3. CASE scene \notin {"shot", "import"} BY <2>1, <2>2, <3>3
    <3> QED BY <3>2, <3>3
  <2>4. PICK l : l = Call(kind, scope, target, todo) OBVIOUS
  <2>5. l \in CallRecords /\ ScreenCallFits(l)
    <3>1. kind \in Kinds /\ kind # "fetch" BY DEF Kinds, UserKinds
    <3> QED BY <2>2, <2>3, <2>4, <3>1, ScreenCallBegins
  <2>6. calls' = Append(calls, l) BY <2>1, <2>4 DEF Start
  <2>7. calls' \in Seq(CallRecords) /\ Range(calls') = Range(calls) \cup {l}
    BY <2>5, <2>6, HoldsFacts, TaskBegins
  <2> QED BY <2>5, <2>7
<1>9. \A c \in Range(calls') : ScreenCallFits(c)' BY <1>1, <1>2, <1>8, CallsFitStill
<1>10. PageTyped' BY <1>1, <1>4, <1>7, <1>8 DEF PageTyped, ScreenHolds
<1>11. ServerTyped' BY <1>1, <1>6 DEF ServerTyped, ScreenHolds
<1> QED BY <1>3, <1>5, <1>7, <1>9, <1>10, <1>11 DEF ScreenHolds

LEMMA HandlersHold ==
    ASSUME ScreenHolds, Command \/ RegisterSelectedUpload \/ ChooseUploadFile
    PROVE  ScreenHolds'
<1>1. scene \in ScreenNames BY HoldsFacts
<1>2. "act" \in UserKinds /\ "register" \in UserKinds /\ "choose" \in UserKinds BY DEF UserKinds
<1>3. scene = "import" => scene \in ViewGated \cup Runtimes BY ScenesAre
<1>4. CASE Command
  <2>1. PICK todo \in Handlers[scene] : Start("act", todo) BY <1>4 DEF Command
  <2>2. todo \in Before(scene) /\ scene \in ViewGated \cup Runtimes BY <1>1, ProgramsAre
  <2> QED BY <1>2, <2>1, <2>2, StartHolds
<1>5. CASE RegisterSelectedUpload
  <2>1. scene = "import" /\ Start("register", handleRegisterSelectedUpload)
    BY <1>5 DEF RegisterSelectedUpload
  <2>2. handleRegisterSelectedUpload \in Before(scene) BY <1>1, <2>1, ProgramsAre
  <2> QED BY <1>2, <1>3, <2>1, <2>2, StartHolds
<1>6. CASE ChooseUploadFile
  <2>1. scene = "import" /\ Start("choose", <<{"file"}>>)
    BY <1>6 DEF ChooseUploadFile, deriveUploadFileMetadata
  <2> QED BY <1>2, <1>3, <2>1, StartHolds
<1> QED BY <1>4, <1>5, <1>6

(* The page stays as it is, but for what is asked of it.                   *)
LEMMA PageStays ==
    ASSUME ScreenHolds, LogMoves, UNCHANGED <<scene, scope, ready, view, stream>>,
           file' \in BOOLEAN, queue' \in {"idle", "running", "again"}, facts' \subseteq FactNames,
           note' = note \/ (note' \in NoteRecords /\ note'.tone # "success"),
           calls' \in Seq(CallRecords), \A c \in Range(calls') : ScreenCallFits(c)',
           stored' \in [Owners -> 0..Len(log')], moves' \in 0..MaxMoves
    PROVE  ScreenHolds'
<1>1. ViewFits' BY ViewStays
<1>2. NoteFits' /\ note' \in NoteRecords BY NoteStays DEF ScreenHolds, PageTyped
<1>3. StreamFits' /\ stream' \in StreamRecords /\ stream'.pos \in 0..Len(log') BY StreamStays
<1>4. log' \in Seq(LogRecords) BY LogTyped
<1>5. PageTyped' BY <1>2, <1>3 DEF PageTyped, ScreenHolds
<1>6. ServerTyped' BY <1>4 DEF ServerTyped
<1> QED BY <1>1, <1>2, <1>3, <1>5, <1>6 DEF ScreenHolds

LEMMA ClearUploadFileHolds ==
    ASSUME ScreenHolds, ClearUploadFile
    PROVE  ScreenHolds'
<1>1. /\ UNCHANGED <<scene, scope, ready, view, calls, queue, stream, stored, log, moves, facts>>
      /\ file' = FALSE /\ note' = NoNote
  BY DEF ClearUploadFile
<1>2. LogMoves BY <1>1 DEF LogMoves
<1>3. NoNote \in NoteRecords /\ NoNote.tone # "success" BY DEF NoNote, NoteRecords
<1>4. \A c \in Range(calls') : ScreenCallFits(c)' BY <1>1, <1>2, HoldsFacts, CallsFitStill
<1>5. stored' \in [Owners -> 0..Len(log')] BY <1>1, <1>2, LogTyped
<1> QED BY <1>1, <1>2, <1>3, <1>4, <1>5, PageStays, HoldsFacts DEF ScreenHolds, PageTyped, ServerTyped

LEMMA AnswerHolds ==
    ASSUME ScreenHolds, NEW i \in DOMAIN calls, Answer(i)
    PROVE  ScreenHolds'
<1>1. UNCHANGED <<scene, scope, ready, view, note, file, queue, stream, stored, facts>> BY DEF Answer
<1>2. LogMoves /\ moves' \in 0..MaxMoves BY AnswerFits
<1>3. PICK d \in CallRecords :
         calls' = [calls EXCEPT ![i] = d] /\ SameCall(d, calls[i]) /\ ScreenCallFits(d)'
  BY AnswerFits
<1>4. /\ calls' \in Seq(CallRecords)
      /\ \A x \in Range(calls') : x = d \/ \E j \in DOMAIN calls \ {i} : x = calls[j]
  <2>1. calls \in Seq(CallRecords) /\ d.kind = calls[i].kind BY <1>3, HoldsFacts DEF SameCall
  <2>2. /\ [calls EXCEPT ![i] = d] \in Seq(CallRecords)
        /\ \A x \in Range([calls EXCEPT ![i] = d]) : x = d \/ \E j \in DOMAIN calls \ {i} : x = calls[j]
    BY <2>1, TaskGoesOn
  <2> QED BY <1>3, <2>2
<1>5. ASSUME NEW c \in Range(calls') PROVE ScreenCallFits(c)'
  <2>1. CASE c = d BY <1>3, <2>1
  <2>2. CASE c \in Range(calls) BY <1>1, <1>2, <2>2, CallsStay DEF LogMoves
  <2>3. c = d \/ c \in Range(calls) BY <1>4, HoldsFacts
  <2> QED BY <2>1, <2>2, <2>3
<1>6. stored' \in [Owners -> 0..Len(log')] BY <1>1, <1>2, LogTyped
<1> QED BY <1>1, <1>2, <1>4, <1>5, <1>6, PageStays DEF ScreenHolds, PageTyped

LEMMA OthersHold ==
    ASSUME ScreenHolds, NEW owner \in Owners,
           (\E heard \in BOOLEAN : OtherUser(owner, heard)) \/ OtherTab(owner)
    PROVE  ScreenHolds'
<1>1. UNCHANGED <<scene, scope, ready, view, note, file, calls, queue, stream, facts>>
  BY DEF OtherUser, OtherTab
<1>2. LogMoves BY DEF OtherUser, OtherTab, LogMoves, LogRecords
<1>3. \A c \in Range(calls') : ScreenCallFits(c)' BY <1>1, <1>2, HoldsFacts, CallsFitStill
<1>4. stored \in [Owners -> 0..Len(log')] /\ Len(log') \in Nat BY <1>2, LogTyped
<1>5. moves' \in 0..MaxMoves /\ stored' \in [Owners -> 0..Len(log')]
  <2>1. moves \in 0..MaxMoves /\ MaxMoves \in Nat BY OwnersAreNot DEF ScreenHolds, ServerTyped
  <2>2. CASE \E heard \in BOOLEAN : OtherUser(owner, heard)
    BY <1>4, <2>1, <2>2 DEF OtherUser
  <2>3. CASE OtherTab(owner)
    <3>1. Len(log) \in 0..Len(log') BY <1>4, <2>3 DEF OtherTab
    <3>2. moves' \in 0..MaxMoves BY <2>1, <2>3 DEF OtherTab
    <3>3. PICK n : n = Len(log) OBVIOUS
    <3>4. stored' = [stored EXCEPT ![CursorOf(owner)] = n] BY <2>3, <3>3 DEF OtherTab
    <3>5. stored' \in [Owners -> 0..Len(log')] BY <1>4, <3>1, <3>3, <3>4
    <3> QED BY <3>2, <3>5
  <2> QED BY <2>2, <2>3
<1> QED BY <1>1, <1>2, <1>3, <1>5, PageStays, HoldsFacts DEF ScreenHolds, PageTyped

LEMMA CutHolds ==
    ASSUME ScreenHolds, Cut
    PROVE  ScreenHolds'
<1>1. UNCHANGED <<scene, scope, ready, view, note, file, calls, queue, stored, log, facts>> BY DEF Cut
<1>2. LogMoves BY <1>1 DEF LogMoves
<1>3. \A c \in Range(calls') : ScreenCallFits(c)' BY <1>1, <1>2, HoldsFacts, CallsFitStill
<1>4. stored' \in [Owners -> 0..Len(log')] BY <1>1, <1>2, LogTyped
<1>5. moves' \in 0..MaxMoves BY OwnersAreNot DEF Cut, ScreenHolds, ServerTyped
<1>6. ViewFits' BY <1>1, <1>2, ViewStays
<1>7. NoteFits' BY <1>1, <1>2, NoteStays
<1>8. /\ stream' \in StreamRecords /\ stream'.state = "connecting" /\ stream'.key = stream.key
      /\ stream'.pos = stream.pos
  <2>1. stream' = [stream EXCEPT !.state = "connecting"] BY DEF Cut
  <2>2. stream = [state |-> stream.state, key |-> stream.key, pos |-> stream.pos]
        /\ stream.key \in (Owners \cup {Off}) \X (Owners \cup {Off}) /\ stream.pos \in Nat
    BY StreamIs DEF StreamRecords
  <2>3. stream' = [state |-> "connecting", key |-> stream.key, pos |-> stream.pos] BY <2>1, <2>2
  <2> QED BY <2>2, <2>3 DEF StreamRecords
<1>9. StreamFits' /\ stream'.pos \in 0..Len(log')
  <2>1. stream.state = "open" BY DEF Cut
  <2>2. PICK s, v, r : s = scope /\ v = view /\ r = ready OBVIOUS
  <2>3. KeyOf(scope, view, ready)' = KeyOf(s, v, r) BY <1>1, <2>2, KeyAfter
  <2>4. stream.key = KeyOf(s, v, r) /\ stream.key[1] # Off BY <2>1, <2>2, StreamIs
  <2>5. StreamFits' BY <1>8, <2>3, <2>4 DEF StreamFits
  <2> QED BY <1>1, <1>8, <2>5, HoldsFacts
<1>10. PageTyped' BY <1>1, <1>8, <1>9 DEF PageTyped, ScreenHolds
<1>11. ServerTyped' BY <1>1, <1>4, <1>5 DEF ServerTyped, ScreenHolds
<1> QED BY <1>3, <1>6, <1>7, <1>9, <1>10, <1>11 DEF ScreenHolds

LEMMA CursorIs ==
    ASSUME ScreenHolds, NEW owner \in Owners
    PROVE  CursorOf(owner) \in Owners /\ stored[CursorOf(owner)] \in 0..Len(log)
<1>1. (CHOOSE o \in Owners : TRUE) \in Owners BY OwnersAreNot
<1>2. CursorOf(owner) \in Owners BY <1>1 DEF CursorOf
<1> QED BY <1>2 DEF ScreenHolds, ServerTyped

(* The stream moves along the log.                                         *)
LEMMA StreamMoves ==
    ASSUME ScreenHolds, UNCHANGED <<scene, scope, ready, view, log>>, NEW n \in 0..Len(log),
           stream.state # "off", stream' = [state |-> "open", key |-> stream.key, pos |-> n]
    PROVE  /\ StreamFits' /\ stream' \in StreamRecords /\ stream'.pos = n /\ n \in 0..Len(log')
           /\ stream'.state = "open" /\ stream'.key = stream.key
<1>1. stream.key \in (Owners \cup {Off}) \X (Owners \cup {Off})
  BY StreamIs DEF StreamRecords
<1>2. n \in Nat BY HoldsFacts
<1>4. /\ stream' \in StreamRecords /\ stream'.pos = n
      /\ stream'.state = "open" /\ stream'.key = stream.key
  BY <1>1, <1>2 DEF StreamRecords
<1>5. PICK s, v, r : s = scope /\ v = view /\ r = ready OBVIOUS
<1>6. KeyOf(scope, view, ready)' = KeyOf(s, v, r) BY <1>5, KeyAfter
<1>7. stream.key = KeyOf(s, v, r) /\ stream.key[1] # Off BY <1>5, StreamIs
<1>8. StreamFits' BY <1>4, <1>6, <1>7 DEF StreamFits
<1> QED BY <1>4, <1>8

(* A connection that is made, or that was not sent an event.               *)
Passing == Connect \/ \E n \in DOMAIN log : Lose(n)

LEMMA PassingIs ==
    ASSUME ScreenHolds, Passing
    PROVE  /\ UNCHANGED <<scene, scope, ready, view, note, file, calls, queue, stored, log>>
           /\ \E n \in 0..Len(log) :
                 /\ stream.state # "off" /\ Passes(n)
                 /\ stream' = [state |-> "open", key |-> stream.key, pos |-> n]
           /\ moves' \in 0..MaxMoves
<1>1. stream = [state |-> stream.state, key |-> stream.key, pos |-> stream.pos]
  BY StreamIs DEF StreamRecords
<1>2. moves \in 0..MaxMoves /\ MaxMoves \in Nat BY OwnersAreNot DEF ScreenHolds, ServerTyped
<1>3. Len(log) \in 0..Len(log) BY HoldsFacts
<1>4. CASE Connect
  <2>1. stream.key[1] = scope /\ scope # Off /\ scope \in Owners \cup {Off}
    BY <1>4, StreamIs DEF Connect
  <2>2. stored[CursorOf(stream.key[1])] \in 0..Len(log) BY <2>1, CursorIs
  <2>3. PICK n \in {stored[CursorOf(stream.key[1])], Len(log)} :
          stream' = [stream EXCEPT !.state = "open", !.pos = n] /\ Passes(n)
    BY <1>4 DEF Connect
  <2>4. n \in 0..Len(log) BY <1>3, <2>2
  <2>5. stream' = [state |-> "open", key |-> stream.key, pos |-> n] BY <1>1, <2>3
  <2>6. moves' \in 0..MaxMoves BY <1>2, <1>4 DEF Connect
  <2>7. /\ UNCHANGED <<scene, scope, ready, view, note, file, calls, queue, stored, log>>
        /\ stream.state # "off"
    BY <1>4 DEF Connect
  <2> QED BY <2>3, <2>4, <2>5, <2>6, <2>7
<1>5. CASE \E n \in DOMAIN log : Lose(n)
  <2>1. PICK n \in DOMAIN log : Lose(n) BY <1>5
  <2>2. n \in 0..Len(log) BY HoldsFacts
  <2>3. stream' = [stream EXCEPT !.pos = n] /\ stream.state = "open" BY <2>1 DEF Lose, ComesNext
  <2>4. stream' = [state |-> "open", key |-> stream.key, pos |-> n] BY <1>1, <2>3
  <2>5. moves' \in 0..MaxMoves BY <1>2, <2>1 DEF Lose
  <2>6. UNCHANGED <<scene, scope, ready, view, note, file, calls, queue, stored, log>>
        /\ Passes(n)
    BY <2>1 DEF Lose
  <2> QED BY <2>2, <2>3, <2>4, <2>5, <2>6
<1> QED BY <1>4, <1>5 DEF Passing

LEMMA PassingHolds ==
    ASSUME ScreenHolds, Passing
    PROVE  /\ ScreenHolds'
           /\ stream'.state = "open" /\ stream'.key = stream.key
           /\ Skips(stream'.pos) => "skipped" \in facts'
           /\ facts \subseteq facts'
<1>1. UNCHANGED <<scene, scope, ready, view, note, file, calls, queue, stored, log>>
      /\ moves' \in 0..MaxMoves
  BY PassingIs
<1>2. LogMoves BY <1>1 DEF LogMoves
<1>3. \A c \in Range(calls') : ScreenCallFits(c)' BY <1>1, <1>2, HoldsFacts, CallsFitStill
<1>4. stored' \in [Owners -> 0..Len(log')] BY <1>1, <1>2, LogTyped
<1>5. ViewFits' /\ NoteFits' BY <1>1, <1>2, ViewStays, NoteStays
<1>6. PICK n \in 0..Len(log) :
         /\ stream.state # "off" /\ Passes(n)
         /\ stream' = [state |-> "open", key |-> stream.key, pos |-> n]
  BY PassingIs
<1>7. facts' = facts \cup (IF Skips(n) THEN {"skipped"} ELSE {}) BY <1>6 DEF Passes
<1>9. /\ StreamFits' /\ stream' \in StreamRecords /\ stream'.pos = n /\ n \in 0..Len(log')
      /\ stream'.state = "open" /\ stream'.key = stream.key
  BY <1>1, <1>6, StreamMoves
<1>10. facts' \subseteq FactNames /\ facts \subseteq facts' BY <1>7 DEF ScreenHolds, PageTyped, FactNames
<1>11. PageTyped' BY <1>1, <1>9, <1>10 DEF PageTyped, ScreenHolds
<1>12. ServerTyped' BY <1>1, <1>4 DEF ServerTyped, ScreenHolds
<1>13. ScreenHolds' BY <1>3, <1>5, <1>9, <1>11, <1>12 DEF ScreenHolds
<1> QED BY <1>7, <1>9, <1>10, <1>13

LEMMA ScheduleFits ==
    ASSUME ScreenHolds, scope \in Owners, Schedule(scope), UNCHANGED <<scene, log>>
    PROVE  /\ calls' \in Seq(CallRecords) /\ \A c \in Range(calls') : ScreenCallFits(c)'
           /\ queue' \in {"idle", "running", "again"}
<1>1. LogMoves BY DEF LogMoves
<1>2. queue \in {"idle", "running", "again"} BY DEF ScreenHolds, PageTyped
<1>3. calls \in Seq(CallRecords) BY HoldsFacts
<1>4. ASSUME NEW kind \in {"fetch", "silent"}, kind = "fetch" => scene \in Uncoalesced,
             calls' = Append(calls, Call(kind, scope, scope, Load[scene]))
      PROVE  calls' \in Seq(CallRecords) /\ \A c \in Range(calls') : ScreenCallFits(c)'
  <2>1. kind = "fetch" => scene \notin ViewGated BY <1>4, ScenesAre
  <2>2. PICK l : l = Call(kind, scope, scope, Load[scene]) OBVIOUS
  <2>3. l \in CallRecords /\ ScreenCallFits(l) BY <2>1, <2>2, RefreshBegins
  <2>4. Append(calls, l) \in Seq(CallRecords) /\ Range(Append(calls, l)) = Range(calls) \cup {l}
    BY <1>3, <2>3, TaskBegins
  <2>5. calls' = Append(calls, l) BY <1>4, <2>2
  <2>6. \A c \in Range(calls') : c \in Range(calls) \/ ScreenCallFits(c) BY <2>3, <2>4, <2>5
  <2> QED BY <1>1, <2>4, <2>5, <2>6, CallsFitStill
<1>5. CASE scene \in Uncoalesced BY <1>2, <1>4, <1>5 DEF Schedule
<1>6. CASE scene \notin Uncoalesced /\ queue = "idle" BY <1>4, <1>6 DEF Schedule
<1>7. CASE scene \notin Uncoalesced /\ queue # "idle"
  <2>1. calls' = calls /\ queue' = "again" BY <1>7 DEF Schedule
  <2> QED BY <1>1, <1>3, <2>1, CallsFitStill
<1> QED BY <1>5, <1>6, <1>7

LEMMA DeliverHolds ==
    ASSUME ScreenHolds, NEW n \in DOMAIN log, Deliver(n)
    PROVE  /\ ScreenHolds' /\ stream.key[1] = scope /\ scope \in Owners
           /\ stream'.pos = n /\ stream'.state = "open" /\ stream'.key = stream.key
<1>1. /\ UNCHANGED <<scene, scope, ready, view, note, file, log, moves, facts>>
      /\ stream.state = "open"
  BY DEF Deliver, ComesNext
<1>2. LogMoves BY <1>1 DEF LogMoves
<1>3. stream.key[1] = scope /\ scope \in Owners BY <1>1, StreamIs
<1>4. n \in 0..Len(log) /\ n \in 0..Len(log') BY <1>1, HoldsFacts
<1>5. /\ StreamFits' /\ stream' \in StreamRecords /\ stream'.pos = n
      /\ stream'.state = "open" /\ stream'.key = stream.key
  <2>1. stream = [state |-> stream.state, key |-> stream.key, pos |-> stream.pos]
    BY StreamIs DEF StreamRecords
  <2>2. stream' = [stream EXCEPT !.pos = n] BY DEF Deliver, ComesNext
  <2>3. stream' = [state |-> "open", key |-> stream.key, pos |-> n] BY <1>1, <2>1, <2>2
  <2> QED BY <1>1, <1>4, <2>3, StreamMoves
<1>6. stored' \in [Owners -> 0..Len(log')]
  <2>1. stored' = [stored EXCEPT ![CursorOf(stream.key[1])] = n] \/ stored' = stored
    BY DEF Deliver
  <2>2. stored \in [Owners -> 0..Len(log')] BY <1>2, LogTyped
  <2> QED BY <1>4, <2>1, <2>2
<1>7. /\ calls' \in Seq(CallRecords) /\ \A c \in Range(calls') : ScreenCallFits(c)'
      /\ queue' \in {"idle", "running", "again"}
  <2>1. CASE Schedule(scope) BY <1>1, <1>3, <2>1, ScheduleFits
  <2>2. CASE UNCHANGED <<calls, queue>>
    BY <1>1, <1>2, <2>2, HoldsFacts, CallsFitStill DEF ScreenHolds, PageTyped
  <2> QED BY <1>3, <2>1, <2>2 DEF Deliver
<1>8. ViewFits' /\ NoteFits' BY <1>1, <1>2, ViewStays, NoteStays
<1>9. PageTyped' BY <1>1, <1>4, <1>5, <1>7 DEF PageTyped, ScreenHolds
<1>10. ServerTyped' BY <1>1, <1>6 DEF ServerTyped, ScreenHolds
<1>11. ScreenHolds' BY <1>5, <1>7, <1>8, <1>9, <1>10 DEF ScreenHolds
<1> QED BY <1>3, <1>5, <1>11

(* What a call leaves behind that shows nothing new.                       *)
IsShown(c) == Display(c) /\ c.ok /\ c.kind # "choose"
Aside(c) ==
    /\ ~c.ok \/ c.kind = "choose"
    /\ \/ UNCHANGED <<view, stream>>
       \/ /\ view' \in {view, Blank} /\ stream' = Rewired(scope', view', ready')
          /\ facts' = facts \cup {"failed"} /\ c.kind = "load"
    /\ \/ facts' = facts \cup {"failed"}
       \/ facts' = facts /\ (c.kind \in UserKinds \/ (c.kind = "silent" /\ queue = "again"))

LEMMA Landed ==
    ASSUME ScreenHolds, NEW i \in DOMAIN calls, Land(i)
    PROVE  /\ calls[i] \in CallRecords /\ ScreenCallFits(calls[i]) /\ calls[i].todo = <<>>
           /\ UNCHANGED <<scene, scope, ready, stored, log, moves>> /\ LogMoves
           /\ Ended(i) \in Seq(CallRecords) /\ Range(Ended(i)) \subseteq Range(calls)
           /\ IsShown(calls[i]) \/ Aside(calls[i])
<1>1. calls[i] \in CallRecords /\ ScreenCallFits(calls[i]) BY HoldsFacts
<1>2. UNCHANGED <<scene, scope, ready, stored, log, moves>> /\ calls[i].todo = <<>> BY DEF Land
<1>3. LogMoves BY <1>2 DEF LogMoves
<1>4. Ended(i) \in Seq(CallRecords) /\ Range(Ended(i)) \subseteq Range(calls)
  BY HoldsFacts, TaskEnds DEF Ended
<1>5. "load" # "choose" /\ "fetch" # "choose" /\ "silent" # "choose" OBVIOUS
<1>6. IsShown(calls[i]) \/ Aside(calls[i])
  <2>1. CASE LandLoad(i)
    <3>1. PICK c : c = calls[i] OBVIOUS
    <3>2. c.kind = "load" /\ (c.ok => Display(c)) BY <2>1, <3>1 DEF LandLoad
    <3>3. ~c.ok => /\ view' \in {view, Blank} /\ stream' = Rewired(scope', view', ready')
                   /\ facts' = facts \cup {"failed"}
      BY <1>2, <2>1, <3>1 DEF LandLoad
    <3> QED BY <1>5, <3>1, <3>2, <3>3 DEF IsShown, Aside
  <2>2. CASE LandFetch(i) BY <1>5, <2>2 DEF LandFetch, IsShown, Aside
  <2>3. CASE LandSilent(i) BY <1>5, <2>3 DEF LandSilent, IsShown, Aside
  <2>4. CASE LandAct(i)
    <3>1. PICK c : c = calls[i] OBVIOUS
    <3>2. /\ c.kind \in UserKinds
          /\ IF c.ok /\ c.kind # "choose" THEN Display(c) ELSE UNCHANGED <<view, stream, facts>>
      BY <2>4, <3>1 DEF LandAct
    <3> QED BY <3>1, <3>2 DEF IsShown, Aside
  <2> QED BY <2>1, <2>2, <2>3, <2>4 DEF Land
<1> QED BY <1>1, <1>2, <1>3, <1>4, <1>6

LEMMA PageLands ==
    ASSUME ScreenHolds, NEW i \in DOMAIN calls, Land(i)
    PROVE  /\ ViewFits' /\ StreamFits' /\ stream' \in StreamRecords /\ stream'.pos \in 0..Len(log')
           /\ facts' \subseteq FactNames /\ facts \subseteq facts'
<1>1. PICK c : c = calls[i] OBVIOUS
<1>2. /\ c \in CallRecords /\ ScreenCallFits(c) /\ c.todo = <<>>
      /\ UNCHANGED <<scene, scope, ready, stored, log, moves>> /\ LogMoves
  BY <1>1, Landed
<1>3. CASE IsShown(c) BY <1>2, <1>3, DisplayFits DEF IsShown
<1>4. CASE Aside(c)
  <2> USE <1>4 DEF Aside
  <2>1. ViewFits' /\ Data(view)'
    <3>1. CASE view' = view BY <1>2, <3>1, ViewStays
    <3>2. CASE view' = Blank BY <3>2 DEF ViewFits, Data
    <3> QED BY <3>1, <3>2
  <2>2. StreamFits' /\ stream' \in StreamRecords /\ stream'.pos \in 0..Len(log')
    <3>1. CASE stream' = stream /\ view' = view BY <1>2, <3>1, StreamStays
    <3>2. CASE stream' = Rewired(scope', view', ready')
      <4>1. Len(log) <= Len(log') /\ Len(log') \in Nat BY <1>2, LogTyped
      <4>2. scope' \in Owners \cup {Off} BY <1>2, StreamIs
      <4> QED BY <1>2, <2>1, <3>2, <4>1, <4>2, StreamFollows
    <3> QED BY <3>1, <3>2
  <2>3. facts' \subseteq FactNames /\ facts \subseteq facts'
    BY DEF ScreenHolds, PageTyped, FactNames
  <2> QED BY <2>1, <2>2, <2>3
<1> QED BY <1>1, <1>3, <1>4, Landed

(* Feedback is about a command that took effect.                           *)
LEMMA NoteLands ==
    ASSUME ScreenHolds, NEW i \in DOMAIN calls, Land(i)
    PROVE  /\ NoteFits' /\ note' \in NoteRecords /\ file' \in BOOLEAN
           /\ note' # note /\ note'.tone = "success" =>
                 /\ calls[i].ok /\ calls[i].kind \in UserKinds \ {"choose"} /\ scene \in ViewGated
                 /\ note'.owner = calls[i].target /\ note'.effect = calls[i].effect
                 /\ Display(calls[i])
<1>1. PICK c : c = calls[i] OBVIOUS
<1>2. c \in CallRecords /\ ScreenCallFits(c) /\ UNCHANGED <<scene, log>> /\ LogMoves BY <1>1, Landed
<1>3. note \in NoteRecords /\ file \in BOOLEAN BY DEF ScreenHolds, PageTyped
<1>4. CASE note' = note /\ file' \in BOOLEAN
  BY <1>2, <1>3, <1>4, NoteStays
<1>5. CASE LandAct(i)
  <2>1. file' \in BOOLEAN BY <1>3, <1>5 DEF LandAct
  <2>2. note' = CASE ~c.ok -> [NoNote EXCEPT !.tone = "error"]
                 [] c.ok /\ (c.kind = "choose" \/ scene \in Runtimes) -> NoNote
                 [] OTHER -> [tone |-> "success", owner |-> c.target, effect |-> c.effect]
    BY <1>1, <1>5 DEF LandAct
  <2>3. c.kind \in UserKinds /\ (c.ok /\ c.kind # "choose" => Display(c)) BY <1>1, <1>5 DEF LandAct
  <2>4. CASE ~c.ok
    <3>1. note' = [NoNote EXCEPT !.tone = "error"] BY <2>2, <2>4
    <3>2. note' = [tone |-> "error", owner |-> Off, effect |-> 0] BY <3>1 DEF NoNote
    <3>3. note' \in NoteRecords /\ note'.tone # "success" BY <3>2 DEF NoteRecords
    <3> QED BY <1>2, <2>1, <3>3, NoteStays
  <2>5. CASE c.ok /\ (c.kind = "choose" \/ scene \in Runtimes)
    <3>1. note' = NoNote BY <2>2, <2>5
    <3>2. note' \in NoteRecords /\ note'.tone # "success" BY <3>1 DEF NoNote, NoteRecords
    <3> QED BY <1>2, <2>1, <3>2, NoteStays
  <2>6. CASE c.ok /\ c.kind # "choose" /\ scene \notin Runtimes
    <3>1. PICK n : n = [tone |-> "success", owner |-> c.target, effect |-> c.effect] OBVIOUS
    <3>2. note' = n BY <2>2, <2>6, <3>1
    <3>3. c.target \in Owners /\ c.effect \in Nat /\ c.effect <= Version(c.target) /\ scene \in ViewGated
      BY <1>2, <2>3, <2>6 DEF CallRecords, ScreenCallFits
    <3>4. n \in NoteRecords /\ n.tone = "success" /\ n.owner = c.target /\ n.effect = c.effect
      BY <3>1, <3>3 DEF NoteRecords
    <3>5. n.effect <= Version(n.owner)' BY <1>2, <3>3, <3>4 DEF Version, VersionAt
    <3>6. NoteFits' BY <1>2, <3>2, <3>3, <3>4, <3>5 DEF NoteFits, Version, VersionAt
    <3> QED BY <1>1, <2>1, <2>3, <2>6, <3>2, <3>3, <3>4, <3>6
  <2> QED BY <2>4, <2>5, <2>6
<1>6. CASE ~LandAct(i)
  <2>1. note' = note /\ file' \in BOOLEAN
    BY <1>3, <1>6 DEF Land, LandLoad, LandFetch, LandSilent
  <2> QED BY <1>4, <2>1
<1> QED BY <1>5, <1>6

LEMMA LandHolds ==
    ASSUME ScreenHolds, NEW i \in DOMAIN calls, Land(i)
    PROVE  ScreenHolds'
<1>1. PICK c : c = calls[i] OBVIOUS
<1>2. /\ c \in CallRecords /\ ScreenCallFits(c)
      /\ UNCHANGED <<scene, scope, ready, stored, log, moves>> /\ LogMoves
      /\ Ended(i) \in Seq(CallRecords) /\ Range(Ended(i)) \subseteq Range(calls)
  BY <1>1, Landed
<1>3. queue' \in {"idle", "running", "again"} /\ calls' \in Seq(CallRecords)
      /\ \A x \in Range(calls') : x \in Range(calls) \/ ScreenCallFits(x)
  <2>1. queue \in {"idle", "running", "again"} BY DEF ScreenHolds, PageTyped
  <2>2. CASE calls' = Ended(i) /\ queue' \in {queue, "idle"} BY <1>2, <2>1, <2>2
  <2>3. CASE /\ calls' = Append(Ended(i), Call("silent", c.owner, c.owner, Load[scene]))
             /\ queue' = "running"
    <3>1. PICK l : l = Call("silent", c.owner, c.owner, Load[scene]) OBVIOUS
    <3>2. c.owner \in Owners BY <1>2 DEF CallRecords
    <3>3. "silent" \in {"fetch", "silent"} /\ "silent" # "fetch" OBVIOUS
    <3>4. l \in CallRecords /\ ScreenCallFits(l) BY <3>1, <3>2, <3>3, RefreshBegins
    <3>5. PICK s : s = Ended(i) OBVIOUS
    <3>6. Append(s, l) \in Seq(CallRecords) /\ Range(Append(s, l)) = Range(s) \cup {l}
      BY <1>2, <3>4, <3>5, TaskBegins
    <3>7. calls' = Append(s, l) BY <2>3, <3>1, <3>5
    <3> QED BY <1>2, <2>3, <3>4, <3>5, <3>6, <3>7
  <2>4. CASE LandSilent(i) BY <1>1, <2>2, <2>3, <2>4 DEF LandSilent
  <2>5. CASE LandLoad(i) \/ LandFetch(i) \/ LandAct(i)
    BY <2>2, <2>5 DEF LandLoad, LandFetch, LandAct
  <2> QED BY <2>4, <2>5 DEF Land
<1>4. \A x \in Range(calls') : ScreenCallFits(x)' BY <1>2, <1>3, CallsFitStill
<1>5. /\ ViewFits' /\ StreamFits' /\ stream' \in StreamRecords /\ stream'.pos \in 0..Len(log')
      /\ facts' \subseteq FactNames
  BY PageLands
<1>6. NoteFits' /\ note' \in NoteRecords /\ file' \in BOOLEAN BY NoteLands
<1>7. PageTyped' BY <1>2, <1>3, <1>5, <1>6 DEF PageTyped, ScreenHolds
<1>8. ServerTyped' BY <1>2 DEF ServerTyped, ScreenHolds
<1> QED BY <1>4, <1>5, <1>6, <1>7, <1>8 DEF ScreenHolds

-----------------------------------------------------------------------------
LEMMA InitHolds ==
    ASSUME ScreensInit
    PROVE  ScreenHolds
<1>1. PICK o : o = CHOOSE w \in Owners : TRUE OBVIOUS
<1>2. o \in Owners BY <1>1, OwnersAreNot
<1>3. /\ scene \in ScreenNames /\ scope = o /\ ready = FALSE /\ view = Blank /\ note = NoNote
      /\ file = FALSE /\ queue = "idle" /\ stored = [w \in Owners |-> 0] /\ log = <<>>
      /\ moves = 0 /\ facts = {}
      /\ calls = IF scene \in ReadyGated THEN <<>> ELSE <<LoadOf(o)>>
      /\ stream = IF scene \in {"preview", "adminPreview", "adminCollab"}
                  THEN [state |-> "connecting", key |-> <<o, Off>>, pos |-> 0] ELSE Closed
  BY <1>1 DEF ScreensInit
<1>4. log \in Seq(LogRecords) /\ Len(log) = 0 BY <1>3
<1>5. ServerTyped BY <1>3, <1>4, OwnersAreNot DEF ServerTyped
<1>6. ViewFits BY <1>3 DEF ViewFits
<1>7. NoteFits /\ note \in NoteRecords BY <1>3 DEF NoteFits, NoNote, NoteRecords
<1>8. \A c \in Range(calls) : ScreenCallFits(c) /\ c \in CallRecords
  <2>1. CASE calls = <<>> BY <2>1 DEF Range
  <2>2. CASE scene \notin ReadyGated /\ calls = <<LoadOf(o)>>
    <3>1. PICK kind : kind = IF scene \in Unguarded THEN "fetch" ELSE "load" OBVIOUS
    <3>2. PICK l : l = LoadOf(o) OBVIOUS
    <3>3. PICK todo : todo = Load[scene] OBVIOUS
    <3>4. todo \in Before(scene) /\ todo \in Todos BY <1>3, <3>3, ProgramsAre DEF Todos
    <3>5. kind \in Kinds /\ kind \notin UserKinds /\ kind # "choose"
          /\ (kind = "fetch" => scene \notin ViewGated)
      BY <3>1, ScenesAre DEF Kinds, UserKinds
    <3>6. l = [kind |-> kind, owner |-> o, target |-> o, todo |-> todo, got |-> Unread,
               effect |-> 0, ok |-> TRUE]
      BY <3>1, <3>2, <3>3 DEF LoadOf, Call
    <3>7. l \in CallRecords BY <1>2, <3>4, <3>5, <3>6, UnreadIs DEF CallRecords
    <3>8. /\ l.kind = kind /\ l.owner = o /\ l.target = o /\ l.todo = todo /\ l.got = Unread
          /\ l.effect = 0 /\ l.ok = TRUE
      BY <3>6
    <3>9. Version(o) \in Nat BY <1>4, VersionsAre
    <3>10. /\ l.effect <= Version(l.target) /\ \A p \in Parts : l.got[p] <= Version(l.owner)
           /\ Includes(l, l.effect)
      BY <3>8, <3>9, UnreadIs DEF Includes
    <3>11. ScreenCallFits(l) BY <3>4, <3>5, <3>8, <3>10 DEF ScreenCallFits
    <3>12. Range(<<l>>) = {l} BY DEF Range
    <3> QED BY <2>2, <3>2, <3>7, <3>11, <3>12
  <2> QED BY <1>3, <2>1, <2>2
<1>9. calls \in Seq(CallRecords)
  <2>1. CASE calls = <<>> BY <2>1
  <2>2. CASE calls = <<LoadOf(o)>>
    <3>1. PICK l : l = LoadOf(o) OBVIOUS
    <3>2. Range(<<l>>) = {l} BY DEF Range
    <3>3. l \in CallRecords BY <1>8, <2>2, <3>1, <3>2
    <3> QED BY <2>2, <3>1, <3>3
  <2> QED BY <1>3, <2>1, <2>2
<1>10. StreamFits /\ stream \in StreamRecords /\ stream.pos \in 0..Len(log)
  <2>1. PICK v : v = Blank OBVIOUS
  <2>2. PICK key : key = KeyOf(o, v, FALSE) OBVIOUS
  <2>3. key = <<Wanted(o, v, FALSE), Off>> BY <2>1, <2>2 DEF KeyOf
  <2>4. KeyOf(scope, view, ready) = key BY <1>3, <2>1, <2>2
  <2>5. 0 \in 0..Len(log) /\ o # Off BY <1>2, <1>4, OwnersAreNot
  <2>6. CASE scene \in {"preview", "adminPreview", "adminCollab"}
    <3>1. scene \notin ViewGated /\ scene \notin ReadyGated /\ scene # "collab" BY <2>6, ScenesAre
    <3>2. Wanted(o, v, FALSE) = o BY <2>5, <3>1 DEF Wanted
    <3>3. key = <<o, Off>> BY <2>3, <3>2
    <3>4. stream = [state |-> "connecting", key |-> key, pos |-> 0] BY <1>3, <2>6, <3>3
    <3>5. key \in (Owners \cup {Off}) \X (Owners \cup {Off}) /\ key[1] = o BY <1>2, <3>3
    <3>6. stream \in StreamRecords /\ stream.state = "connecting" /\ stream.key = key /\ stream.pos = 0
      BY <3>4, <3>5 DEF StreamRecords
    <3>7. StreamFits BY <2>4, <2>5, <3>5, <3>6 DEF StreamFits
    <3> QED BY <2>5, <3>6, <3>7
  <2>7. CASE scene \notin {"preview", "adminPreview", "adminCollab"}
    <3>1. scene \in ViewGated \/ scene \in ReadyGated BY <1>3, <2>7, ScenesAre, ScreensAre
    <3>2. Wanted(o, v, FALSE) = Off BY <2>1, <3>1 DEF Wanted
    <3>3. key = <<Off, Off>> BY <2>3, <3>2
    <3>4. key[1] = Off BY <3>3
    <3>5. stream = Closed BY <1>3, <2>7
    <3>6. StreamFits BY <2>4, <3>4, <3>5 DEF StreamFits
    <3> QED BY <2>5, <3>5, <3>6, ClosedIs
  <2> QED BY <2>6, <2>7
<1>11. PageTyped BY <1>2, <1>3, <1>7, <1>9, <1>10 DEF PageTyped
<1> QED BY <1>5, <1>6, <1>7, <1>8, <1>10, <1>11 DEF ScreenHolds

LEMMA ScreensStill ==
    ASSUME ScreenHolds, UNCHANGED screenVars
    PROVE  ScreenHolds'
<1>1. LogMoves BY DEF LogMoves, screenVars
<1>2. \A c \in Range(calls') : ScreenCallFits(c)' BY <1>1, HoldsFacts, CallsFitStill DEF screenVars
<1>3. stored' \in [Owners -> 0..Len(log')] BY <1>1, LogTyped DEF screenVars
<1> QED BY <1>1, <1>2, <1>3, PageStays, HoldsFacts DEF ScreenHolds, PageTyped, ServerTyped, screenVars

LEMMA ScreensHold ==
    ASSUME ScreenHolds, [ScreensNext]_screenVars
    PROVE  ScreenHolds'
<1>1. CASE \E to \in Owners \cup {Off} : Navigate(to) BY <1>1, NavigateHolds
<1>2. CASE TimelineLoaded BY <1>2, TimelineLoadedHolds
<1>3. CASE Command \/ RegisterSelectedUpload \/ ChooseUploadFile BY <1>3, HandlersHold
<1>4. CASE ClearUploadFile BY <1>4, ClearUploadFileHolds
<1>5. CASE \E i \in DOMAIN calls : Answer(i) \/ Land(i) BY <1>5, AnswerHolds, LandHolds
<1>6. CASE \E owner \in Owners : (\E heard \in BOOLEAN : OtherUser(owner, heard)) \/ OtherTab(owner)
  BY <1>6, OthersHold
<1>7. CASE Passing BY <1>7, PassingHolds
<1>8. CASE Cut BY <1>8, CutHolds
<1>9. CASE \E n \in DOMAIN log : Deliver(n) BY <1>9, DeliverHolds
<1>10. CASE UNCHANGED screenVars BY <1>10, ScreensStill
<1> QED BY <1>1, <1>2, <1>3, <1>4, <1>5, <1>6, <1>7, <1>8, <1>9, <1>10 
       DEF ScreensNext, Passing

-----------------------------------------------------------------------------
(* The load of the owner the route names is the only one; a refresh runs   *)
(* as long as the queue says so; and what the screen shows is that owner's *)
(* or will be.                                                             *)
LoadsAreOurs ==
    AtMostOne(calls, "load") /\ \A c \in Range(calls) : c.kind = "load" => c.owner = scope
QueueRuns ==
    /\ AtMostOne(calls, "silent") /\ (queue = "idle" <=> NoneOf(calls, "silent"))
    /\ scene \in Uncoalesced => queue = "idle"
ReadsOurs(c) == c.kind \in {"load", "fetch"} /\ c.owner = scope
ViewComes ==
    scope # Off /\ (view = Blank \/ view.owner # scope) =>
        \/ facts \cap {"stray", "failed"} # {}
        \/ scene \in ReadyGated /\ ~ready
        \/ \E c \in Range(calls) : ReadsOurs(c)
ClosedShows == scope = Off /\ view # Blank => "stray" \in facts
ScreenComes == LoadsAreOurs /\ QueueRuns /\ ViewComes /\ ClosedShows

LEMMA NoneOfCalls ==
    ASSUME NEW s, NEW k
    PROVE  NoneOf(s, k) <=> \A c \in Range(s) : c.kind # k
BY DEF NoneOf, Range

(* The same view goes on coming.                                           *)
LEMMA ComesStill ==
    ASSUME ScreenComes, UNCHANGED <<scene, scope, ready, view>>, facts \subseteq facts',
           \A c \in Range(calls) : c.kind \in {"load", "fetch"} =>
              \E d \in Range(calls') : d.kind = c.kind /\ d.owner = c.owner
    PROVE  ViewComes' /\ ClosedShows'
<1>1. (\E c \in Range(calls) : ReadsOurs(c)) => (\E c \in Range(calls') : ReadsOurs(c)')
  <2> SUFFICES ASSUME NEW c \in Range(calls), ReadsOurs(c)
               PROVE  \E d \in Range(calls') : ReadsOurs(d)'
    OBVIOUS
  <2>1. PICK d \in Range(calls') : d.kind = c.kind /\ d.owner = c.owner BY DEF ReadsOurs
  <2>2. ReadsOurs(d)' BY <2>1 DEF ReadsOurs
  <2> QED BY <2>2
<1>2. facts \cap {"stray", "failed"} # {} => facts' \cap {"stray", "failed"} # {} OBVIOUS
<1>3. ViewComes' BY <1>1, <1>2 DEF ScreenComes, ViewComes
<1>4. ClosedShows' BY DEF ScreenComes, ClosedShows
<1> QED BY <1>3, <1>4

LEMMA NavigateComes ==
    ASSUME ScreenHolds, ScreenComes, NEW to \in Owners \cup {Off}, Navigate(to)
    PROVE  ScreenComes'
<1>1. /\ scope' = to /\ ready' = FALSE /\ UNCHANGED <<scene, queue>>
      /\ to = Off => view' = Blank
  BY DEF Navigate
<1>2. PICK s : s = Cancel(calls, "load") OBVIOUS
<1>3. /\ s \in Seq(CallRecords) /\ NoneOf(s, "load") /\ AtMostOne(s, "load")
      /\ AtMostOne(s, "silent") /\ (NoneOf(s, "silent") <=> NoneOf(calls, "silent"))
  BY <1>2, HoldsFacts, LoadCancelled DEF ScreenComes, LoadsAreOurs, QueueRuns
<1>4. CASE to = Off \/ scene \in ReadyGated
  <2>1. calls' = s \o <<>> BY <1>2, <1>4 DEF Navigate, Uncancelled
  <2>2. calls' = s BY <1>3, <2>1, ConcatEmptySeq
  <2>3. LoadsAreOurs' BY <1>3, <2>2, NoneOfCalls DEF LoadsAreOurs
  <2>4. QueueRuns' BY <1>1, <1>3, <2>2 DEF QueueRuns, ScreenComes
  <2>5. ViewComes' /\ ClosedShows' BY <1>1, <1>4 DEF ViewComes, ClosedShows
  <2> QED BY <2>3, <2>4, <2>5 DEF ScreenComes
<1>5. CASE to # Off /\ scene \notin ReadyGated
  <2>1. PICK l : l = LoadOf(to) OBVIOUS
  <2>2. l \in CallRecords /\ l.owner = to /\ l.kind \in {"load", "fetch"} BY <1>5, <2>1, ScreenLoadBegins
  <2>3. calls' = s \o <<l>> BY <1>2, <1>5, <2>1 DEF Navigate, Uncancelled
  <2>4. calls' = Append(s, l) BY <1>3, <2>2, <2>3, AppendIsConcat
  <2>5. /\ Range(Append(s, l)) = Range(s) \cup {l}
        /\ \A k : NoneOf(Append(s, l), k) <=> NoneOf(s, k) /\ l.kind # k
        /\ \A k : AtMostOne(s, k) /\ (l.kind # k \/ NoneOf(s, k)) => AtMostOne(Append(s, l), k)
    BY <1>3, <2>2, TaskBegins
  <2>6. l.kind # "silent" BY <2>2
  <2>7. LoadsAreOurs'
    <3>1. AtMostOne(calls', "load") BY <1>3, <2>4, <2>5
    <3>2. \A c \in Range(calls') : c.kind = "load" => c.owner = to
      BY <1>3, <2>2, <2>4, <2>5, NoneOfCalls
    <3> QED BY <1>1, <3>1, <3>2 DEF LoadsAreOurs
  <2>8. QueueRuns' BY <1>1, <1>3, <2>4, <2>5, <2>6 DEF QueueRuns, ScreenComes
  <2>9. \E c \in Range(calls') : ReadsOurs(c)' BY <1>1, <2>2, <2>4, <2>5 DEF ReadsOurs
  <2>10. ViewComes' /\ ClosedShows' BY <1>1, <1>5, <2>9 DEF ViewComes, ClosedShows
  <2> QED BY <2>7, <2>8, <2>10 DEF ScreenComes
<1> QED BY <1>4, <1>5

(* A call begins that is no load and no refresh, or a fetch.               *)
LEMMA BeginComes ==
    ASSUME ScreenHolds, ScreenComes, NEW l \in CallRecords, calls' = Append(calls, l),
           l.kind \notin {"load", "silent"}, UNCHANGED <<scene, scope, queue>>
    PROVE  /\ LoadsAreOurs' /\ QueueRuns' /\ Range(calls') = Range(calls) \cup {l}
           /\ \A c \in Range(calls) : c.kind \in {"load", "fetch"} =>
                 \E d \in Range(calls') : d.kind = c.kind /\ d.owner = c.owner
<1>1. /\ Range(calls') = Range(calls) \cup {l}
      /\ \A k : NoneOf(calls', k) <=> NoneOf(calls, k) /\ l.kind # k
      /\ \A k : AtMostOne(calls, k) /\ (l.kind # k \/ NoneOf(calls, k)) => AtMostOne(calls', k)
  <2>1. calls \in Seq(CallRecords) BY HoldsFacts
  <2>2. /\ Range(Append(calls, l)) = Range(calls) \cup {l}
        /\ \A k : NoneOf(Append(calls, l), k) <=> NoneOf(calls, k) /\ l.kind # k
        /\ \A k : AtMostOne(calls, k) /\ (l.kind # k \/ NoneOf(calls, k)) => AtMostOne(Append(calls, l), k)
    BY <2>1, TaskBegins
  <2> QED BY <2>2
<1>2. LoadsAreOurs' BY <1>1 DEF LoadsAreOurs, ScreenComes
<1>3. QueueRuns' BY <1>1 DEF QueueRuns, ScreenComes
<1> QED BY <1>1, <1>2, <1>3

LEMMA TimelineLoadedComes ==
    ASSUME ScreenHolds, ScreenComes, TimelineLoaded
    PROVE  ScreenComes'
<1>1. UNCHANGED <<scene, scope, view, queue, facts>> /\ scope # Off /\ scene \in ReadyGated
  BY DEF TimelineLoaded
<1>2. PICK l : l = LoadOf(scope) OBVIOUS
<1>3. scope \in Owners BY <1>1, StreamIs
<1>4. l \in CallRecords /\ l.owner = scope /\ l.kind = "fetch"
  BY <1>1, <1>2, <1>3, ScreenLoadBegins, ScenesAre
<1>5. calls' = Append(calls, l) BY <1>2 DEF TimelineLoaded
<1>6. LoadsAreOurs' /\ QueueRuns' /\ Range(calls') = Range(calls) \cup {l}
  BY <1>1, <1>4, <1>5, BeginComes
<1>7. \E c \in Range(calls') : ReadsOurs(c)' BY <1>1, <1>4, <1>6 DEF ReadsOurs
<1> QED BY <1>1, <1>6, <1>7 DEF ScreenComes, ViewComes, ClosedShows

(* What a handler asks for when it begins.                                 *)
LEMMA StartBegins ==
    ASSUME ScreenHolds, Command \/ RegisterSelectedUpload \/ ChooseUploadFile
    PROVE  /\ UNCHANGED <<scene, scope, ready, view, queue, stream, log, facts>>
           /\ \E l \in CallRecords : /\ calls' = Append(calls, l) /\ l.kind \in UserKinds
                                     /\ l.got = Unread
<1>7. PICK kind \in UserKinds : \E todo : Start(kind, todo)
  <2>1. "act" \in UserKinds /\ "register" \in UserKinds /\ "choose" \in UserKinds BY DEF UserKinds
  <2> QED BY <2>1 DEF Command, RegisterSelectedUpload, ChooseUploadFile
<1>1. PICK todo : Start(kind, todo) BY <1>7
<1>2. UNCHANGED <<scene, scope, ready, view, queue, stream, log, facts>> BY <1>1 DEF Start
<1>3. PICK l : l = Call(kind, scope, IF scene \in {"shot", "import"} THEN view.owner ELSE scope, todo)
  OBVIOUS
<1>4. calls' = Append(calls, l) BY <1>1, <1>3 DEF Start
<1>5. l.kind = kind /\ l.got = Unread BY <1>3 DEF Call
<1>6. l \in CallRecords
  <2>1. calls' \in Seq(CallRecords) BY HandlersHold DEF ScreenHolds, PageTyped
  <2>2. calls \in Seq(CallRecords) BY HoldsFacts
  <2>3. Len(calls) + 1 \in DOMAIN calls' /\ calls'[Len(calls) + 1] = l
    BY <1>4, <2>1, <2>2, LenProperties
  <2> QED BY <2>1, <2>3, ElementOfSeq, LenProperties
<1> QED BY <1>2, <1>4, <1>5, <1>6

LEMMA StartComes ==
    ASSUME ScreenHolds, ScreenComes, Command \/ RegisterSelectedUpload \/ ChooseUploadFile
    PROVE  ScreenComes'
<1>1. UNCHANGED <<scene, scope, ready, view, queue, facts>> BY StartBegins
<1>2. PICK l \in CallRecords : calls' = Append(calls, l) /\ l.kind \in UserKinds BY StartBegins
<1>3. l.kind \notin {"load", "silent"} BY <1>2 DEF UserKinds
<1>4. /\ LoadsAreOurs' /\ QueueRuns'
      /\ \A c \in Range(calls) : c.kind \in {"load", "fetch"} =>
                 \E d \in Range(calls') : d.kind = c.kind /\ d.owner = c.owner
  BY <1>1, <1>2, <1>3, BeginComes
<1>5. ViewComes' /\ ClosedShows' BY <1>1, <1>4, ComesStill
<1> QED BY <1>4, <1>5 DEF ScreenComes

(* The calls stay as they are.                                             *)
LEMMA StillComes ==
    ASSUME ScreenComes, UNCHANGED <<scene, scope, ready, view, calls, queue>>, facts \subseteq facts'
    PROVE  ScreenComes'
<1>1. ViewComes' /\ ClosedShows' BY ComesStill
<1> QED BY <1>1 DEF ScreenComes, LoadsAreOurs, QueueRuns

(* What an answer makes of the calls.                                      *)
LEMMA CallGoesOn ==
    ASSUME ScreenHolds, NEW i \in DOMAIN calls, NEW d \in CallRecords, SameCall(d, calls[i]),
           NEW s, s = [calls EXCEPT ![i] = d]
    PROVE  /\ \A x \in Range(s) : x = d \/ x \in Range(calls)
           /\ d \in Range(s)
           /\ \A x \in Range(calls) : x = calls[i] \/ x \in Range(s)
           /\ \A k : NoneOf(s, k) <=> NoneOf(calls, k)
           /\ \A k : AtMostOne(s, k) <=> AtMostOne(calls, k)
<1>1. d.kind = calls[i].kind BY DEF SameCall
<1>2. calls \in Seq(CallRecords) /\ \A j \in DOMAIN calls : calls[j] \in Range(calls) BY HoldsFacts
<1>3. PICK t \in Seq(CallRecords) : t = calls BY <1>2
<1>4. i \in DOMAIN t /\ d.kind = t[i].kind /\ s = [t EXCEPT ![i] = d] BY <1>1, <1>3
<1>5. /\ [t EXCEPT ![i] = d] \in Seq(CallRecords)
      /\ \A x \in Range([t EXCEPT ![i] = d]) : x = d \/ \E j \in DOMAIN t \ {i} : x = t[j]
      /\ d \in Range([t EXCEPT ![i] = d])
      /\ \A j \in DOMAIN t \ {i} : t[j] \in Range([t EXCEPT ![i] = d])
      /\ \A k : NoneOf([t EXCEPT ![i] = d], k) <=> NoneOf(t, k)
      /\ \A k : AtMostOne([t EXCEPT ![i] = d], k) <=> AtMostOne(t, k)
  BY <1>4, TaskGoesOn
<1>6. /\ \A x \in Range(s) : x = d \/ \E j \in DOMAIN t \ {i} : x = t[j]
      /\ d \in Range(s)
      /\ \A j \in DOMAIN t \ {i} : t[j] \in Range(s)
      /\ \A k : NoneOf(s, k) <=> NoneOf(t, k)
      /\ \A k : AtMostOne(s, k) <=> AtMostOne(t, k)
  BY <1>4, <1>5
<1>7. \A x \in Range(t) : x = t[i] \/ x \in Range(s) BY <1>6 DEF Range
<1>8. \A x \in Range(s) : x = d \/ x \in Range(t) BY <1>2, <1>3, <1>6
<1> QED BY <1>3, <1>6, <1>7, <1>8

LEMMA AnswerComes ==
    ASSUME ScreenHolds, ScreenComes, NEW i \in DOMAIN calls, Answer(i)
    PROVE  ScreenComes'
<1>1. UNCHANGED <<scene, scope, ready, view, queue, facts>> BY DEF Answer
<1>2. PICK d \in CallRecords : calls' = [calls EXCEPT ![i] = d] /\ SameCall(d, calls[i])
  BY AnswerFits
<1>3. d.kind = calls[i].kind /\ d.owner = calls[i].owner BY <1>2 DEF SameCall
<1>4. calls[i] \in Range(calls) BY HoldsFacts
<1>5. PICK s : s = [calls EXCEPT ![i] = d] OBVIOUS
<1>6. /\ \A x \in Range(s) : x = d \/ x \in Range(calls)
      /\ d \in Range(s)
      /\ \A x \in Range(calls) : x = calls[i] \/ x \in Range(s)
      /\ \A k : NoneOf(s, k) <=> NoneOf(calls, k)
      /\ \A k : AtMostOne(s, k) <=> AtMostOne(calls, k)
  BY <1>2, <1>5, CallGoesOn
<1>7. calls' = s BY <1>2, <1>5
<1>8. LoadsAreOurs'
  <2>1. \A c \in Range(s) : c.kind = "load" => c.owner = scope
    BY <1>3, <1>4, <1>6 DEF ScreenComes, LoadsAreOurs
  <2> QED BY <1>1, <1>6, <1>7, <2>1 DEF ScreenComes, LoadsAreOurs
<1>9. QueueRuns' BY <1>1, <1>6, <1>7 DEF ScreenComes, QueueRuns
<1>10. \A c \in Range(calls) : \E e \in Range(calls') : e.kind = c.kind /\ e.owner = c.owner
  BY <1>3, <1>6, <1>7
<1>11. ViewComes' /\ ClosedShows' BY <1>1, <1>10, ComesStill
<1> QED BY <1>8, <1>9, <1>11 DEF ScreenComes

(* A refresh is asked for.                                                 *)
LEMMA ScheduleAsks ==
    ASSUME ScreenHolds, ScreenComes, scope \in Owners, Schedule(scope)
    PROVE  \/ scene \in Uncoalesced /\ queue' = queue
              /\ \E l \in CallRecords : /\ calls' = Append(calls, l) /\ l.kind = "fetch"
                                        /\ l.owner = scope /\ l.got = Unread
           \/ scene \notin Uncoalesced /\ queue = "idle" /\ queue' = "running"
              /\ \E l \in CallRecords : /\ calls' = Append(calls, l) /\ l.kind = "silent"
                                        /\ l.owner = scope /\ l.got = Unread
           \/ scene \notin Uncoalesced /\ queue # "idle" /\ queue' = "again" /\ calls' = calls
<1>1. ASSUME NEW kind \in {"fetch", "silent"}, kind = "fetch" => scene \in Uncoalesced,
             calls' = Append(calls, Call(kind, scope, scope, Load[scene]))
      PROVE  \E l \in CallRecords : /\ calls' = Append(calls, l) /\ l.kind = kind
                                    /\ l.owner = scope /\ l.got = Unread
  <2>1. PICK l : l = Call(kind, scope, scope, Load[scene]) OBVIOUS
  <2>2. kind = "fetch" => scene \notin ViewGated BY <1>1, ScenesAre
  <2>3. l \in CallRecords BY <2>1, <2>2, RefreshBegins
  <2>4. l.kind = kind /\ l.owner = scope /\ l.got = Unread BY <2>1 DEF Call
  <2> QED BY <1>1, <2>1, <2>3, <2>4
<1>2. CASE scene \in Uncoalesced
  <2>1. queue' = queue /\ calls' = Append(calls, Call("fetch", scope, scope, Load[scene]))
    BY <1>2 DEF Schedule
  <2> QED BY <1>1, <1>2, <2>1
<1>3. CASE scene \notin Uncoalesced /\ queue = "idle"
  <2>1. queue' = "running" /\ calls' = Append(calls, Call("silent", scope, scope, Load[scene]))
    BY <1>3 DEF Schedule
  <2> QED BY <1>1, <1>3, <2>1
<1>4. CASE scene \notin Uncoalesced /\ queue # "idle" BY <1>4 DEF Schedule
<1> QED BY <1>2, <1>3, <1>4

LEMMA DeliverComes ==
    ASSUME ScreenHolds, ScreenComes, NEW n \in DOMAIN log, Deliver(n)
    PROVE  ScreenComes'
<1>1. UNCHANGED <<scene, scope, ready, view, facts>> BY DEF Deliver
<1>2. stream.key[1] = scope /\ scope \in Owners BY DeliverHolds
<1>3. CASE UNCHANGED <<calls, queue>> BY <1>1, <1>3, StillComes
<1>4. CASE Schedule(scope)
  <2>1. CASE scene \in Uncoalesced /\ queue' = queue
    <3>1. PICK l \in CallRecords : calls' = Append(calls, l) /\ l.kind = "fetch"
      BY <1>2, <1>4, <2>1, ScheduleAsks
    <3>2. /\ LoadsAreOurs' /\ QueueRuns'
          /\ \A c \in Range(calls) : c.kind \in {"load", "fetch"} =>
                 \E d \in Range(calls') : d.kind = c.kind /\ d.owner = c.owner
      BY <1>1, <2>1, <3>1, BeginComes
    <3> QED BY <1>1, <3>2, ComesStill DEF ScreenComes
  <2>2. CASE scene \notin Uncoalesced /\ queue = "idle" /\ queue' = "running"
    <3>1. PICK l \in CallRecords : calls' = Append(calls, l) /\ l.kind = "silent"
      BY <1>2, <1>4, <2>2, ScheduleAsks
    <3>2. calls \in Seq(CallRecords) BY HoldsFacts
    <3>3. /\ Range(Append(calls, l)) = Range(calls) \cup {l}
          /\ \A k : NoneOf(Append(calls, l), k) <=> NoneOf(calls, k) /\ l.kind # k
          /\ \A k : AtMostOne(calls, k) /\ (l.kind # k \/ NoneOf(calls, k)) => AtMostOne(Append(calls, l), k)
      BY <3>2, TaskBegins
    <3>4. NoneOf(calls, "silent") BY <2>2 DEF ScreenComes, QueueRuns
    <3>5. LoadsAreOurs' BY <1>1, <3>1, <3>3 DEF ScreenComes, LoadsAreOurs
    <3>6. QueueRuns'
      <4>1. AtMostOne(Append(calls, l), "silent") /\ ~NoneOf(Append(calls, l), "silent")
        BY <3>1, <3>3, <3>4 DEF ScreenComes, QueueRuns
      <4>2. AtMostOne(calls', "silent") /\ ~NoneOf(calls', "silent") BY <3>1, <4>1
      <4> QED BY <1>1, <2>2, <4>2 DEF QueueRuns
    <3>7. \A c \in Range(calls) : c \in Range(calls') BY <3>1, <3>3
    <3> QED BY <1>1, <3>5, <3>6, <3>7, ComesStill DEF ScreenComes
  <2>3. CASE scene \notin Uncoalesced /\ queue # "idle" /\ queue' = "again" /\ calls' = calls
    <3>1. LoadsAreOurs' /\ QueueRuns' BY <1>1, <2>3 DEF ScreenComes, LoadsAreOurs, QueueRuns
    <3> QED BY <1>1, <2>3, <3>1, ComesStill DEF ScreenComes
  <2> QED BY <1>2, <1>4, <2>1, <2>2, <2>3, ScheduleAsks
<1> QED BY <1>2, <1>3, <1>4 DEF Deliver

(* What landing makes of the calls: the call is over, and a refresh that   *)
(* was asked for again runs again, for the owner it was made for.          *)
AsksAgain(i) == calls[i].kind = "silent" /\ queue = "again"
LEMMA LandedCalls ==
    ASSUME ScreenHolds, ScreenComes, NEW i \in DOMAIN calls, Land(i)
    PROVE  /\ LoadsAreOurs' /\ QueueRuns'
           /\ \A x \in Range(calls) : x = calls[i] \/ x \in Range(calls')
           /\ \A x \in Range(calls') : x \in Range(calls) \/ (AsksAgain(i) /\ x.kind = "silent" /\ x.got = Unread)
           /\ calls[i].kind = "silent" =>
                 \A x \in Range(calls') : x.kind = "silent" => AsksAgain(i) /\ x.got = Unread
           /\ queue' = IF calls[i].kind # "silent" THEN queue
                       ELSE IF queue = "again" THEN "running" ELSE "idle"
<1>1. PICK c : c = calls[i] OBVIOUS
<1>2. /\ c \in CallRecords /\ UNCHANGED <<scene, scope>>
      /\ calls \in Seq(CallRecords)
  BY <1>1, Landed, HoldsFacts
<1>3. PICK s : s = Ended(i) OBVIOUS
<1>4. /\ s \in Seq(CallRecords) /\ Range(s) \subseteq Range(calls)
      /\ \A j \in DOMAIN calls \ {i} : calls[j] \in Range(s)
      /\ \A k : NoneOf(calls, k) => NoneOf(s, k)
      /\ \A k : AtMostOne(calls, k) => AtMostOne(s, k)
      /\ \A k : c.kind # k /\ NoneOf(s, k) => NoneOf(calls, k)
      /\ \A k : c.kind = k /\ AtMostOne(calls, k) => NoneOf(s, k)
  <2>1. PICK t \in Seq(CallRecords) : t = calls BY <1>2
  <2>2. i \in DOMAIN t /\ s = RemoveAt(t, i) /\ c = t[i] BY <1>1, <1>3, <2>1 DEF Ended
  <2>3. /\ RemoveAt(t, i) \in Seq(CallRecords) /\ Range(RemoveAt(t, i)) \subseteq Range(t)
        /\ \A j \in DOMAIN t \ {i} : t[j] \in Range(RemoveAt(t, i))
        /\ \A k : NoneOf(t, k) => NoneOf(RemoveAt(t, i), k)
        /\ \A k : AtMostOne(t, k) => AtMostOne(RemoveAt(t, i), k)
        /\ \A k : t[i].kind # k /\ NoneOf(RemoveAt(t, i), k) => NoneOf(t, k)
        /\ \A k : t[i].kind = k /\ AtMostOne(t, k) => NoneOf(RemoveAt(t, i), k)
    BY <2>2, TaskEnds
  <2> QED BY <2>1, <2>2, <2>3
<1>5. \A x \in Range(calls) : x = c \/ x \in Range(s) BY <1>1, <1>4 DEF Range
<1>6. AtMostOne(s, "load") /\ AtMostOne(s, "silent") /\ \A x \in Range(s) : x.kind = "load" => x.owner = scope
  BY <1>4 DEF ScreenComes, LoadsAreOurs, QueueRuns
<1>7. c.kind = "silent" => NoneOf(s, "silent") /\ \A x \in Range(s) : x.kind # "silent"
  BY <1>4, NoneOfCalls DEF ScreenComes, QueueRuns
<1>8. CASE calls' = s /\ c.kind # "silent" /\ queue' = queue
  <2>1. NoneOf(s, "silent") <=> NoneOf(calls, "silent") BY <1>4, <1>8
  <2>2. QueueRuns' BY <1>2, <1>6, <1>8, <2>1 DEF QueueRuns, ScreenComes
  <2>3. LoadsAreOurs' BY <1>2, <1>6, <1>8 DEF LoadsAreOurs
  <2> QED BY <1>1, <1>4, <1>5, <1>8, <2>2, <2>3
<1>9. CASE calls' = s /\ c.kind = "silent" /\ queue # "again" /\ queue' = "idle"
  <2>1. QueueRuns' BY <1>2, <1>6, <1>7, <1>9 DEF QueueRuns
  <2>2. LoadsAreOurs' BY <1>2, <1>6, <1>9 DEF LoadsAreOurs
  <2> QED BY <1>1, <1>4, <1>5, <1>7, <1>9, <2>1, <2>2
<1>10. CASE /\ c.kind = "silent" /\ queue = "again" /\ queue' = "running"
            /\ calls' = Append(s, Call("silent", c.owner, c.owner, Load[scene]))
  <2>1. PICK l : l = Call("silent", c.owner, c.owner, Load[scene]) OBVIOUS
  <2>2. c.owner \in Owners BY <1>2 DEF CallRecords
  <2>3. "silent" \in {"fetch", "silent"} /\ "silent" # "fetch" OBVIOUS
  <2>4. l \in CallRecords BY <2>1, <2>2, <2>3, RefreshBegins
  <2>5. l.kind = "silent" /\ l.got = Unread BY <2>1 DEF Call
  <2>6. /\ Range(Append(s, l)) = Range(s) \cup {l}
        /\ \A k : NoneOf(Append(s, l), k) <=> NoneOf(s, k) /\ l.kind # k
        /\ \A k : AtMostOne(s, k) /\ (l.kind # k \/ NoneOf(s, k)) => AtMostOne(Append(s, l), k)
    BY <1>4, <2>4, TaskBegins
  <2>7. calls' = Append(s, l) BY <1>10, <2>1
  <2>8. /\ Range(calls') = Range(s) \cup {l} /\ ~NoneOf(calls', "silent")
        /\ AtMostOne(calls', "silent") /\ AtMostOne(calls', "load")
    <3>1. ~NoneOf(Append(s, l), "silent") /\ AtMostOne(Append(s, l), "silent") BY <1>6, <1>7, <1>10, <2>5, <2>6
    <3>2. AtMostOne(Append(s, l), "load") BY <1>6, <2>5, <2>6
    <3> QED BY <2>6, <2>7, <3>1, <3>2
  <2>9. QueueRuns'
    <3>1. scene \notin Uncoalesced BY <1>10 DEF QueueRuns, ScreenComes
    <3> QED BY <1>2, <1>10, <2>8, <3>1 DEF QueueRuns
  <2>10. LoadsAreOurs' BY <1>2, <1>6, <2>5, <2>8 DEF LoadsAreOurs
  <2>11. AsksAgain(i) BY <1>1, <1>10 DEF AsksAgain
  <2>12. \A x \in Range(calls') : x.kind = "silent" => x.got = Unread BY <1>7, <1>10, <2>5, <2>8
  <2> QED BY <1>1, <1>4, <1>5, <1>10, <2>5, <2>8, <2>9, <2>10, <2>11, <2>12
<1>11. CASE LandSilent(i)
  <2>1. c.kind = "silent" BY <1>1, <1>11 DEF LandSilent
  <2>2. IF queue = "again"
        THEN /\ calls' = Append(s, Call("silent", c.owner, c.owner, Load[scene]))
             /\ queue' = "running"
        ELSE calls' = s /\ queue' = "idle"
    BY <1>1, <1>3, <1>11 DEF LandSilent
  <2> QED BY <1>9, <1>10, <2>1, <2>2
<1>12. CASE LandLoad(i) \/ LandFetch(i) \/ LandAct(i)
  <2>1. c.kind # "silent" BY <1>1, <1>12 DEF LandLoad, LandFetch, LandAct, UserKinds
  <2>2. calls' = s /\ queue' = queue BY <1>3, <1>12 DEF LandLoad, LandFetch, LandAct
  <2> QED BY <1>8, <2>1, <2>2
<1> QED BY <1>11, <1>12 DEF Land

LEMMA LandComes ==
    ASSUME ScreenHolds, ScreenComes, NEW i \in DOMAIN calls, Land(i)
    PROVE  ScreenComes'
<1>1. PICK c : c = calls[i] OBVIOUS
<1>2. /\ c \in CallRecords /\ ScreenCallFits(c) /\ c.todo = <<>> /\ (IsShown(c) \/ Aside(c))
      /\ UNCHANGED <<scene, scope, ready, log>>
  BY <1>1, Landed
<1>3. LoadsAreOurs' /\ QueueRuns' /\ \A x \in Range(calls) : x = c \/ x \in Range(calls')
  BY <1>1, LandedCalls
<1>4. facts \subseteq facts' BY PageLands
<1>5. ViewComes' /\ ClosedShows'
  <2>1. CASE IsShown(c)
    <3>1. /\ view' # Blank /\ view'.owner = c.owner
          /\ "stray" \notin facts' => c.kind = "load" \/ c.owner = scope
      BY <1>2, <2>1, DisplayFits DEF IsShown
    <3>2. c \in Range(calls) BY <1>1, HoldsFacts
    <3>3. "stray" \notin facts' => c.owner = scope BY <3>1, <3>2 DEF ScreenComes, LoadsAreOurs
    <3>4. c.owner # Off BY <1>2, OwnersAreNot DEF CallRecords
    <3> QED BY <1>2, <3>1, <3>3, <3>4 DEF ViewComes, ClosedShows
  <2>2. CASE Aside(c) /\ "failed" \in facts'
    <3>1. ViewComes' BY <2>2 DEF ViewComes
    <3>2. view' \in {view, Blank} BY <2>2 DEF Aside
    <3> QED BY <1>2, <1>4, <3>1, <3>2 DEF ClosedShows, ScreenComes
  <2>3. CASE Aside(c) /\ "failed" \notin facts'
    <3>1. view' = view /\ c.kind \notin {"load", "fetch"} BY <2>3 DEF Aside, UserKinds
    <3>2. \A x \in Range(calls) : x.kind \in {"load", "fetch"} => x \in Range(calls') BY <1>3, <3>1
    <3> QED BY <1>2, <1>4, <3>1, <3>2, ComesStill
  <2> QED BY <1>2, <2>1, <2>2, <2>3
<1> QED BY <1>3, <1>5 DEF ScreenComes

LEMMA InitComes ==
    ASSUME ScreensInit
    PROVE  ScreenComes
<1>1. ScreenHolds BY InitHolds
<1>2. PICK o : o = CHOOSE w \in Owners : TRUE OBVIOUS
<1>3. o \in Owners BY <1>2, OwnersAreNot
<1>4. /\ scope = o /\ ready = FALSE /\ view = Blank /\ queue = "idle"
      /\ calls = IF scene \in ReadyGated THEN <<>> ELSE <<LoadOf(o)>>
  BY <1>2 DEF ScreensInit
<1>5. CASE scene \in ReadyGated
  <2>1. Range(calls) = {} BY <1>4, <1>5 DEF Range
  <2>2. NoneOf(calls, "silent") /\ AtMostOne(calls, "silent") /\ AtMostOne(calls, "load")
    BY <1>4, <1>5 DEF NoneOf, AtMostOne
  <2> QED BY <1>3, <1>4, <1>5, <2>1, <2>2, OwnersAreNot
       DEF ScreenComes, LoadsAreOurs, QueueRuns, ViewComes, ClosedShows
<1>6. CASE scene \notin ReadyGated
  <2>1. PICK l : l = LoadOf(o) OBVIOUS
  <2>2. l \in CallRecords /\ l.owner = o /\ l.kind \in {"load", "fetch"} BY <1>1, <1>3, <2>1, ScreenLoadBegins
  <2>3. calls = <<l>> BY <1>4, <1>6, <2>1
  <2>4. Range(calls) = {l} BY <2>3 DEF Range
  <2>5. DOMAIN calls = {1} /\ calls[1] = l BY <2>3
  <2>6. NoneOf(calls, "silent") /\ AtMostOne(calls, "silent") /\ AtMostOne(calls, "load")
    BY <2>2, <2>5 DEF NoneOf, AtMostOne
  <2>7. ViewComes
    <3>1. ReadsOurs(l) /\ l \in Range(calls) BY <1>4, <2>2, <2>4 DEF ReadsOurs
    <3> QED BY <3>1 DEF ViewComes
  <2> QED BY <1>3, <1>4, <2>2, <2>4, <2>6, <2>7, OwnersAreNot
       DEF ScreenComes, LoadsAreOurs, QueueRuns, ClosedShows
<1> QED BY <1>5, <1>6

LEMMA ScreenComesOn ==
    ASSUME ScreenHolds, ScreenComes, [ScreensNext]_screenVars
    PROVE  ScreenComes'
<1>1. CASE \E to \in Owners \cup {Off} : Navigate(to) BY <1>1, NavigateComes
<1>2. CASE TimelineLoaded BY <1>2, TimelineLoadedComes
<1>3. CASE Command \/ RegisterSelectedUpload \/ ChooseUploadFile BY <1>3, StartComes
<1>4. CASE ClearUploadFile BY <1>4, StillComes DEF ClearUploadFile
<1>5. CASE \E i \in DOMAIN calls : Answer(i) \/ Land(i) BY <1>5, AnswerComes, LandComes
<1>6. CASE \E owner \in Owners : (\E heard \in BOOLEAN : OtherUser(owner, heard)) \/ OtherTab(owner)
  BY <1>6, StillComes DEF OtherUser, OtherTab
<1>7. CASE Passing BY <1>7, PassingIs, PassingHolds, StillComes
<1>8. CASE Cut BY <1>8, StillComes DEF Cut
<1>9. CASE \E n \in DOMAIN log : Deliver(n) BY <1>9, DeliverComes
<1>10. CASE UNCHANGED screenVars BY <1>10, StillComes DEF screenVars
<1> QED BY <1>1, <1>2, <1>3, <1>4, <1>5, <1>6, <1>7, <1>8, <1>9, <1>10 
       DEF ScreensNext, Passing

-----------------------------------------------------------------------------
(* What is older than the events seen will be read again: while no event   *)
(* was skipped, no read failed and none was overtaken, a refresh is owed   *)
(* for what the screen shows, and what a call would show instead is either *)
(* followed by a refresh or has been overtaken already.                    *)
Old(r) ==
    /\ r.owner = scope
    /\ \E p \in Parts \ {"project"} :
          r.got[p] # Unavailable /\ r.got[p] < Told(stream.pos, scope)
Fresh(c) == c.kind = "fetch" /\ c.owner = scope /\ ~Old(c)
Owed == queue # "idle" \/ \E c \in Range(calls) : Fresh(c)
Good ==
    /\ stream.state = "open" /\ facts \cap {"overtaken", "failed", "skipped"} = {}
    /\ "stray" \in facts => scene \in ViewGated
Behind(c) ==
    \/ Owed
    \/ scene \in ViewGated /\ view.owner # scope
    \/ view # Blank /\ view.owner = scope /\ view.got[Main] > c.got[Main]
OldIsRefreshed ==
    Good => /\ view # Blank /\ Old(view) => Owed
            /\ \A c \in Range(calls) :
                  Old(c) => IF c.kind = "silent" THEN queue = "again" ELSE Behind(c)

(* The events seen are the same.                                           *)
LEMMA VersionSeen ==
    ASSUME ScreenHolds, LogMoves, scope' = scope, stream'.pos = stream.pos
    PROVE  Told(stream.pos, scope)' = Told(stream.pos, scope)
<1>1. PICK n, w : n = stream.pos /\ w = scope OBVIOUS
<1>2. log \in Seq(LogRecords) /\ n \in 0..Len(log) BY <1>1, HoldsFacts
<1>3. Told(n, w)' = Told(n, w) BY <1>2, LogSteps DEF LogMoves
<1>4. Told(stream.pos, scope)' = Told(n, w)' BY <1>1 DEF Told
<1> QED BY <1>1, <1>3, <1>4

LEMMA OldStays ==
    ASSUME scope' = scope, Told(stream.pos, scope)' = Told(stream.pos, scope), NEW r
    PROVE  (Old(r)' <=> Old(r)) /\ (Fresh(r)' <=> Fresh(r))
<1>1. Old(r)' <=> Old(r) BY DEF Old
<1> QED BY <1>1 DEF Fresh

LEMMA UnreadIsNotOld ==
    ASSUME NEW r, r.got = Unread
    PROVE  ~Old(r) /\ ~Old(r)'
BY UnreadIs DEF Old

(* Every fetch that will show enough goes on, and what is old was old.     *)
LEMMA RefreshedStill ==
    ASSUME ScreenHolds, OldIsRefreshed, UNCHANGED <<scene, scope, view, queue, facts>>,
           Told(stream.pos, scope)' = Told(stream.pos, scope),
           stream'.state = "open" => stream.state = "open",
           \A c \in Range(calls) : Fresh(c) => \E d \in Range(calls') : Fresh(d),
           \A d \in Range(calls') : Old(d) =>
              \E c \in Range(calls) : Old(c) /\ c.kind = d.kind /\ c.got[Main] = d.got[Main]
    PROVE  OldIsRefreshed'
<1>1. Good' => Good BY DEF Good
<1>2. \A r : (Old(r)' <=> Old(r)) /\ (Fresh(r)' <=> Fresh(r)) BY OldStays
<1>3. Owed => Owed'
  <2>1. CASE queue # "idle" BY <2>1 DEF Owed
  <2>2. CASE \E c \in Range(calls) : Fresh(c)
    <3>1. PICK d \in Range(calls') : Fresh(d) BY <2>2
    <3>2. Fresh(d)' BY <1>2, <3>1
    <3> QED BY <3>1, <3>2 DEF Owed
  <2> QED BY <2>1, <2>2 DEF Owed
<1>4. PICK v : v = view OBVIOUS
<1>5. SUFFICES ASSUME Good, Good' PROVE OldIsRefreshed'
  BY <1>1 DEF OldIsRefreshed
<1>6. view' # Blank /\ Old(view)' => Owed'
  <2>1. Old(view)' <=> Old(v)' BY <1>4 DEF Old
  <2>2. Old(view) <=> Old(v) BY <1>4 DEF Old
  <2> QED BY <1>2, <1>3, <1>4, <1>5, <2>1, <2>2 DEF OldIsRefreshed
<1>7. ASSUME NEW d \in Range(calls'), Old(d)'
      PROVE  IF d.kind = "silent" THEN queue' = "again" ELSE Behind(d)'
  <2>1. Old(d) BY <1>2, <1>7
  <2>2. PICK c \in Range(calls) : Old(c) /\ c.kind = d.kind /\ c.got[Main] = d.got[Main] BY <2>1
  <2>3. IF c.kind = "silent" THEN queue = "again" ELSE Behind(c) BY <1>5, <2>2 DEF OldIsRefreshed
  <2>4. Behind(c) => Behind(d)' BY <1>3, <2>2 DEF Behind, Main
  <2> QED BY <2>2, <2>3, <2>4
<1> QED BY <1>6, <1>7 DEF OldIsRefreshed

(* The same with the same calls.                                           *)
LEMMA SameCallsRefreshed ==
    ASSUME ScreenHolds, OldIsRefreshed, UNCHANGED <<scene, scope, view, queue, facts, calls, stream>>,
           LogMoves
    PROVE  OldIsRefreshed'
<1>1. Told(stream.pos, scope)' = Told(stream.pos, scope) BY VersionSeen
<1>2. \A c \in Range(calls) : c \in Range(calls') OBVIOUS
<1>3. \A d \in Range(calls') : d \in Range(calls) OBVIOUS
<1> QED BY <1>1, <1>2, <1>3, RefreshedStill

LEMMA NavigateRefreshed ==
    ASSUME ScreenHolds, NEW to \in Owners \cup {Off}, Navigate(to)
    PROVE  OldIsRefreshed'
<1>1. scene' = scene /\ log' = log /\ scope' = to /\ ready' = FALSE /\ to # scope
      /\ (view' = view \/ view' = Blank)
  BY DEF Navigate
<1>2. Data(view)' BY <1>1, StreamIs DEF Data
<1>3. stream' = Rewired(scope', view', ready') BY <1>1 DEF Navigate
<1>4. Len(log) <= Len(log') /\ Len(log') \in Nat BY <1>1, HoldsFacts
<1>5. stream'.state = "open" => stream' = stream /\ stream.key = KeyOf(scope', view', ready')
  BY <1>1, <1>2, <1>3, <1>4, StreamFollows
<1>6. PICK v : v = view' OBVIOUS
<1>7. KeyOf(to, v, FALSE)[1] \in {Off, to}
  <2>1. Data(v) BY <1>2, <1>6 DEF Data
  <2> QED BY <2>1, KeyIs
<1>8. stream'.state # "open"
  <2>1. SUFFICES ASSUME stream'.state = "open" PROVE FALSE OBVIOUS
  <2>2. stream' = stream /\ stream.key = KeyOf(to, v, FALSE) BY <1>1, <1>5, <1>6, <2>1
  <2>3. stream.key[1] = scope /\ stream.key[1] # Off BY <2>1, <2>2, StreamIs
  <2> QED BY <1>1, <1>7, <2>2, <2>3
<1> QED BY <1>8 DEF OldIsRefreshed, Good

LEMMA TimelineLoadedRefreshed ==
    ASSUME TimelineLoaded
    PROVE  OldIsRefreshed'
<1>1. PICK key : stream' = Connecting(key) BY DEF TimelineLoaded
<1>2. stream'.state # "open" BY <1>1 DEF Connecting
<1> QED BY <1>2 DEF OldIsRefreshed, Good

LEMMA CutRefreshed ==
    ASSUME ScreenHolds, Cut
    PROVE  OldIsRefreshed'
<1>1. stream = [state |-> stream.state, key |-> stream.key, pos |-> stream.pos]
  BY StreamIs DEF StreamRecords
<1>2. stream' = [stream EXCEPT !.state = "connecting"] BY DEF Cut
<1>3. stream'.state # "open" BY <1>1, <1>2
<1> QED BY <1>3 DEF OldIsRefreshed, Good

LEMMA StartRefreshed ==
    ASSUME ScreenHolds, ScreenComes, OldIsRefreshed,
           Command \/ RegisterSelectedUpload \/ ChooseUploadFile
    PROVE  OldIsRefreshed'
<1>1. UNCHANGED <<scene, scope, ready, view, queue, stream, log, facts>> BY StartBegins
<1>2. PICK l \in CallRecords : calls' = Append(calls, l) /\ l.kind \in UserKinds /\ l.got = Unread
  BY StartBegins
<1>3. l.kind \notin {"load", "silent"} BY <1>2 DEF UserKinds
<1>4. Range(calls') = Range(calls) \cup {l} BY <1>1, <1>2, <1>3, BeginComes
<1>5. ~Old(l) BY <1>2, UnreadIsNotOld
<1>6. LogMoves BY <1>1 DEF LogMoves
<1>7. Told(stream.pos, scope)' = Told(stream.pos, scope) BY <1>1, <1>6, VersionSeen
<1>8. \A c \in Range(calls) : c \in Range(calls') BY <1>4
<1>9. \A d \in Range(calls') : Old(d) => d \in Range(calls) BY <1>4, <1>5
<1> QED BY <1>1, <1>7, <1>8, <1>9, RefreshedStill

LEMMA AnswerRefreshed ==
    ASSUME ScreenHolds, OldIsRefreshed, NEW i \in DOMAIN calls, Answer(i)
    PROVE  OldIsRefreshed'
<1>1. UNCHANGED <<scene, scope, ready, view, queue, stream, facts>> BY DEF Answer
<1>2. LogMoves BY AnswerFits
<1>3. PICK d \in CallRecords :
         calls' = [calls EXCEPT ![i] = d] /\ SameCall(d, calls[i]) /\ ReadsNew(d, calls[i])
  BY AnswerFits
<1>4. PICK c : c = calls[i] OBVIOUS
<1>5. c \in Range(calls) /\ c \in CallRecords BY <1>4, HoldsFacts
<1>6. PICK s : s = [calls EXCEPT ![i] = d] OBVIOUS
<1>7. /\ \A x \in Range(s) : x = d \/ x \in Range(calls)
      /\ d \in Range(s)
      /\ \A x \in Range(calls) : x = calls[i] \/ x \in Range(s)
  BY <1>3, <1>6, CallGoesOn
<1>8. calls' = s BY <1>3, <1>6
<1>9. Told(stream.pos, scope)' = Told(stream.pos, scope) BY <1>1, <1>2, VersionSeen
<1>10. d.kind = c.kind /\ d.owner = c.owner BY <1>3, <1>4 DEF SameCall
<1>11. Old(d) => Old(c) /\ c.got[Main] = d.got[Main]
  <2>1. SUFFICES ASSUME Old(d) PROVE Old(c) /\ c.got[Main] = d.got[Main] OBVIOUS
  <2>2. PICK p \in Parts \ {"project"} :
           d.got[p] # Unavailable /\ d.got[p] < Told(stream.pos, scope)
    BY <2>1 DEF Old
  <2>3. c.owner = scope /\ d.owner = scope BY <1>10, <2>1 DEF Old
  <2>4. Told(stream.pos, scope) \in Nat /\ Version(scope) \in Nat
        /\ Told(stream.pos, scope) <= Version(scope)
    BY HoldsFacts
  <2>5. d.got[p] \in Int BY DEF CallRecords, Versions, Unavailable
  <2>6. d.got[p] = c.got[p] BY <1>3, <1>4, <2>2, <2>3, <2>4, <2>5 DEF ReadsNew
  <2>7. Old(c) BY <2>2, <2>3, <2>6 DEF Old
  <2>8. c.got # Unread /\ d.got # Unread BY <2>1, <2>7, UnreadIsNotOld
  <2>9. c.got[Main] = d.got[Main] BY <1>3, <1>4, <2>8 DEF ReadsNew
  <2> QED BY <2>7, <2>9
<1>12. \A x \in Range(calls) : Fresh(x) => \E y \in Range(calls') : Fresh(y)
  <2>1. Fresh(c) => Fresh(d) BY <1>10, <1>11 DEF Fresh
  <2> QED BY <1>4, <1>7, <1>8, <2>1
<1>13. \A x \in Range(calls') : Old(x) =>
          \E y \in Range(calls) : Old(y) /\ y.kind = x.kind /\ y.got[Main] = x.got[Main]
  BY <1>5, <1>7, <1>8, <1>10, <1>11
<1> QED BY <1>1, <1>9, <1>12, <1>13, RefreshedStill

LEMMA PassingRefreshed ==
    ASSUME ScreenHolds, Passing
    PROVE  OldIsRefreshed'
<1>1. UNCHANGED <<scene, scope, view, calls, queue, log>> BY PassingIs
<1>2. Skips(stream'.pos) => "skipped" \in facts' BY PassingHolds
<1>3. PICK n, w, v : n = stream'.pos /\ w = scope /\ v = view OBVIOUS
<1>4. Told(stream.pos, scope)' = Told(n, w) BY <1>1, <1>3 DEF Told
<1>5. SUFFICES ASSUME Good' PROVE OldIsRefreshed' BY DEF OldIsRefreshed
<1>6. ~Skips(n) BY <1>2, <1>3, <1>5 DEF Good
<1>7. \A r : Old(r)' <=> /\ r.owner = w
                         /\ \E p \in Parts \ {"project"} : r.got[p] # Unavailable /\ r.got[p] < Told(n, w)
  BY <1>1, <1>3, <1>4 DEF Old
<1>8. ~(view' # Blank /\ Old(view)')
  <2>1. Old(view)' <=> Old(v)' BY <1>1, <1>3 DEF Old
  <2>2. ~(v # Blank /\ Old(v)') BY <1>3, <1>6, <1>7 DEF Skips
  <2> QED BY <1>1, <1>3, <2>1, <2>2
<1>9. ASSUME NEW c \in Range(calls') PROVE ~Old(c)'
  <2>1. PICK i \in DOMAIN calls : c = calls[i] BY <1>1 DEF Range
  <2> QED BY <1>3, <1>6, <1>7, <2>1 DEF Skips
<1> QED BY <1>8, <1>9 DEF OldIsRefreshed

LEMMA DeliverRefreshed ==
    ASSUME ScreenHolds, ScreenComes, OldIsRefreshed, NEW n \in DOMAIN log, Deliver(n)
    PROVE  OldIsRefreshed'
<1>1. UNCHANGED <<scene, scope, ready, view, log, facts>> BY DEF Deliver
<1>2. stream.key[1] = scope /\ scope \in Owners /\ stream'.pos = n /\ stream.state = "open"
  BY DeliverHolds DEF Deliver, ComesNext
<1>3. CASE ~Matches(n) /\ UNCHANGED <<calls, queue>>
  <2>1. /\ n > stream.pos /\ stream.pos \in Nat /\ n \in Nat
        /\ \A k \in 1..n - 1 : ~Undelivered(k)
    <3>1. n \in Nat /\ stream.pos \in Nat BY HoldsFacts, LenProperties
    <3> QED BY <3>1 DEF Deliver, ComesNext, Undelivered
  <2>2. \A k \in 1..n : log[k].owner = scope /\ log[k].heard => k <= stream.pos
    <3> SUFFICES ASSUME NEW k \in 1..n, log[k].owner = scope, log[k].heard, k > stream.pos
                 PROVE  FALSE
      BY <2>1
    <3>1. Undelivered(k) BY <1>2 DEF Undelivered, OnStream
    <3>2. k = n BY <2>1, <3>1
    <3> QED BY <1>2, <1>3, <3>2 DEF Matches
  <2>3. {k \in 1..n : /\ log[k].owner = scope
                      /\ \E h \in k..n : log[h].owner = scope /\ log[h].heard}
         = {k \in 1..stream.pos :
               /\ log[k].owner = scope
               /\ \E h \in k..stream.pos : log[h].owner = scope /\ log[h].heard}
    BY <2>1, <2>2
  <2>4. Told(stream.pos, scope)' = Told(stream.pos, scope)
    BY <1>1, <1>2, <2>3 DEF Told
  <2>5. \A c \in Range(calls) : c \in Range(calls') BY <1>3
  <2>6. \A d \in Range(calls') : d \in Range(calls) BY <1>3
  <2> QED BY <1>1, <1>2, <1>3, <2>4, <2>5, <2>6, RefreshedStill
<1>4. CASE Schedule(scope)
  <2>1. SUFFICES ASSUME Owed', \A d \in Range(calls') : d.kind = "silent" /\ Old(d)' => queue' = "again"
                 PROVE  OldIsRefreshed'
    <3>1. CASE scene \in Uncoalesced /\ queue' = queue
      <4>1. PICK l \in CallRecords : /\ calls' = Append(calls, l) /\ l.kind = "fetch"
                                     /\ l.owner = scope /\ l.got = Unread
        BY <1>2, <1>4, <3>1, ScheduleAsks
      <4>2. Range(calls') = Range(calls) \cup {l} BY <1>1, <3>1, <4>1, BeginComes
      <4>3. Fresh(l)' BY <1>1, <4>1, UnreadIsNotOld DEF Fresh
      <4>4. \A c \in Range(calls) : c.kind # "silent" BY <3>1, NoneOfCalls DEF ScreenComes, QueueRuns
      <4>5. \A d \in Range(calls') : d.kind # "silent" BY <4>1, <4>2, <4>4
      <4>6. Owed' BY <4>2, <4>3 DEF Owed
      <4> QED BY <4>5, <4>6, <2>1
    <3>2. CASE scene \notin Uncoalesced /\ queue = "idle" /\ queue' = "running"
      <4>1. PICK l \in CallRecords : calls' = Append(calls, l) /\ l.kind = "silent" /\ l.got = Unread
        BY <1>2, <1>4, <3>2, ScheduleAsks
      <4>2. calls \in Seq(CallRecords) BY HoldsFacts
      <4>3. Range(Append(calls, l)) = Range(calls) \cup {l} BY <4>2, TaskBegins
      <4>4. \A c \in Range(calls) : c.kind # "silent" BY <3>2, NoneOfCalls DEF ScreenComes, QueueRuns
      <4>5. ~Old(l)' BY <4>1, UnreadIsNotOld
      <4>6. \A d \in Range(calls') : d.kind = "silent" => ~Old(d)' BY <4>1, <4>3, <4>4, <4>5
      <4>7. Owed' BY <3>2 DEF Owed
      <4> QED BY <4>6, <4>7, <2>1
    <3>3. CASE queue # "idle" /\ queue' = "again"
      <4>1. Owed' BY <3>3 DEF Owed
      <4> QED BY <3>3, <4>1, <2>1
    <3> QED BY <1>2, <1>4, <3>1, <3>2, <3>3, ScheduleAsks
  <2> QED BY <2>1 DEF OldIsRefreshed, Behind
<1> QED BY <1>2, <1>3, <1>4 DEF Deliver

(* What an answer that is old leaves behind is behind itself.              *)
LEMMA OldIsBehind ==
    ASSUME ScreenHolds, NEW x \in CallRecords, ScreenCallFits(x), Old(x)
    PROVE  x.got[Main] # Unavailable /\ x.got[Main] < Told(stream.pos, scope)
<1>1. x.got # Unread BY UnreadIsNotOld
<1>2. Complete(x.got) BY <1>1 DEF ScreenCallFits
<1>3. PICK p \in Parts \ {"project"} :
         x.got[p] # Unavailable /\ x.got[p] < Told(stream.pos, scope)
  BY DEF Old
<1>4. Told(stream.pos, scope) \in Nat /\ Main \in Parts BY HoldsFacts
<1>5. x.got[p] \in Int /\ x.got[Main] \in Int BY <1>4 DEF CallRecords, Versions, Unavailable
<1>6. x.got[p] >= x.got[Main] /\ x.got[Main] # Unavailable BY <1>2, <1>3 DEF Complete
<1> QED BY <1>3, <1>4, <1>5, <1>6

LEMMA NewIsAhead ==
    ASSUME ScreenHolds, NEW c \in CallRecords, Complete(c.got), c.owner = scope, ~Old(c),
           NEW x \in CallRecords, ScreenCallFits(x), Old(x)
    PROVE  c.got[Main] > x.got[Main]
<1>1. x.got[Main] < Told(stream.pos, scope) BY OldIsBehind
<1>2. Told(stream.pos, scope) \in Nat /\ Main \in Parts \ {"project"} BY HoldsFacts
<1>3. c.got[Main] \in Int /\ x.got[Main] \in Int BY <1>2 DEF CallRecords, Versions, Unavailable
<1>4. c.got[Main] # Unavailable BY DEF Complete
<1>5. ~(c.got[Main] < Told(stream.pos, scope)) BY <1>2, <1>4 DEF Old
<1> QED BY <1>1, <1>2, <1>3, <1>5

(* What is shown was not overtaken.                                        *)
LEMMA ShownIsLater ==
    ASSUME ScreenHolds, NEW c \in CallRecords, ~Overtaken(c), c.kind # "silent",
           view # Blank, view.owner = c.owner
    PROVE  view.got[Main] \in Int /\ c.got[Main] \in Int /\ c.got[Main] >= view.got[Main]
<1>1. Main \in Parts BY HoldsFacts
<1>2. view \in ViewRecords BY DEF ScreenHolds, ViewFits
<1>3. view.got[Main] \in Int /\ c.got[Main] \in Int
  BY <1>1, <1>2 DEF ViewRecords, CallRecords, Versions, Unavailable
<1>4. ~(c.got[Main] < view.got[Main]) BY <1>1 DEF Overtaken
<1> QED BY <1>3, <1>4

LEMMA LandRefreshed ==
    ASSUME ScreenHolds, ScreenComes, OldIsRefreshed, NEW i \in DOMAIN calls, Land(i)
    PROVE  OldIsRefreshed'
<1>1. PICK c : c = calls[i] OBVIOUS
<1>2. /\ c \in CallRecords /\ ScreenCallFits(c) /\ c.todo = <<>> /\ (IsShown(c) \/ Aside(c))
      /\ UNCHANGED <<scene, scope, ready, log>> /\ LogMoves /\ c \in Range(calls)
  BY <1>1, Landed, HoldsFacts
<1>3. /\ \A x \in Range(calls) : x = c \/ x \in Range(calls')
      /\ \A x \in Range(calls') : x \in Range(calls) \/ (AsksAgain(i) /\ x.kind = "silent" /\ x.got = Unread)
      /\ c.kind = "silent" =>
           \A x \in Range(calls') : x.kind = "silent" => AsksAgain(i) /\ x.got = Unread
      /\ queue' = IF c.kind # "silent" THEN queue ELSE IF queue = "again" THEN "running" ELSE "idle"
  BY <1>1, LandedCalls
<1>4. facts \subseteq facts' BY PageLands
<1>5. SUFFICES ASSUME Good' PROVE OldIsRefreshed' BY DEF OldIsRefreshed
<1>6. "failed" \notin facts' /\ "overtaken" \notin facts' /\ stream'.state = "open"
      /\ ("stray" \in facts' => scene \in ViewGated)
  BY <1>2, <1>5 DEF Good
<1>7. stream' = stream
  <2>1. CASE IsShown(c) BY <1>2, <1>6, <2>1, DisplayFits DEF IsShown
  <2>2. CASE Aside(c) BY <1>6, <2>2 DEF Aside
  <2> QED BY <1>2, <2>1, <2>2
<1>8. Good BY <1>2, <1>4, <1>5, <1>7 DEF Good
<1>9. /\ view # Blank /\ Old(view) => Owed
      /\ \A x \in Range(calls) : Old(x) => IF x.kind = "silent" THEN queue = "again" ELSE Behind(x)
  BY <1>8 DEF OldIsRefreshed
<1>10. \A r : (Old(r)' <=> Old(r)) /\ (Fresh(r)' <=> Fresh(r))
  <2>1. Told(stream.pos, scope)' = Told(stream.pos, scope) BY <1>2, <1>7, VersionSeen
  <2> QED BY <1>2, <2>1, OldStays
<1>11. ASSUME NEW x \in Range(calls'), Old(x)
       PROVE  x \in Range(calls) /\ x \in CallRecords /\ ScreenCallFits(x)
              /\ (c.kind = "silent" => x.kind # "silent")
  <2>1. x.got # Unread BY <1>11, UnreadIsNotOld
  <2>2. x \in Range(calls) BY <1>3, <2>1
  <2>3. x \in CallRecords /\ ScreenCallFits(x) BY <2>2, HoldsFacts DEF Range
  <2> QED BY <1>3, <2>1, <2>2, <2>3
<1>12. CASE c.kind = "silent" /\ queue = "again"
  <2>1. Owed' BY <1>3, <1>12 DEF Owed
  <2>2. \A x \in Range(calls') : Old(x)' => x.kind # "silent" BY <1>10, <1>11, <1>12
  <2> QED BY <2>1, <2>2 DEF OldIsRefreshed, Behind
<1>13. CASE Aside(c) /\ ~(c.kind = "silent" /\ queue = "again")
  <2>1. facts' = facts /\ view' = view /\ c.kind \in UserKinds BY <1>6, <1>13 DEF Aside
  <2>2. c.kind \notin {"silent", "fetch"} BY <2>1 DEF UserKinds
  <2>3. queue' = queue BY <1>3, <2>2
  <2>4. \A x \in Range(calls) : Fresh(x) => x \in Range(calls') BY <1>3, <2>2 DEF Fresh
  <2>5. \A x \in Range(calls') : Old(x) => x \in Range(calls) BY <1>11
  <2>6. Told(stream.pos, scope)' = Told(stream.pos, scope) BY <1>2, <1>7, VersionSeen
  <2> QED BY <1>2, <1>7, <2>1, <2>3, <2>4, <2>5, <2>6, RefreshedStill
<1>14. CASE IsShown(c) /\ ~(c.kind = "silent" /\ queue = "again")
  <2>1. /\ view' # Blank /\ view'.owner = c.owner /\ view'.got = c.got /\ Complete(c.got)
        /\ scene \in ViewGated => view # Blank /\ view.owner = c.owner
        /\ ~Overtaken(c)
        /\ "stray" \notin facts' => c.kind = "load" \/ c.owner = scope
    BY <1>2, <1>6, <1>14, DisplayFits DEF IsShown
  <2>2. scene \notin ViewGated => c.owner = scope
    BY <1>2, <1>6, <2>1 DEF ScreenComes, LoadsAreOurs
  <2>3. c.kind = "silent" => ~Old(c) /\ queue' = "idle" BY <1>2, <1>3, <1>9, <1>14
  <2>4. Main \in Parts /\ Main' = Main BY <1>2, HoldsFacts DEF Main
  <2>5. ASSUME c.kind # "silent", Owed
        PROVE  Owed' \/ Fresh(c)
    <3>1. CASE queue # "idle" BY <1>3, <2>5, <3>1 DEF Owed
    <3>2. CASE \E y \in Range(calls) : Fresh(y)
      <4>1. PICK y \in Range(calls) : Fresh(y) BY <3>2
      <4>2. CASE y = c BY <4>1, <4>2
      <4>3. CASE y # c
        <5>1. y \in Range(calls') /\ Fresh(y)' BY <1>3, <1>10, <4>1, <4>3
        <5> QED BY <5>1 DEF Owed
      <4> QED BY <4>2, <4>3
    <3> QED BY <2>5, <3>1, <3>2 DEF Owed
  <2>6. Old(view)' => Owed'
    <3>1. Old(view)' <=> Old(c)'
      BY <2>1 DEF Old
    <3>2. SUFFICES ASSUME Old(c) PROVE Owed' BY <1>10, <3>1
    <3>3. c.kind # "silent" BY <2>3, <3>2
    <3>4. Behind(c) /\ c.owner = scope BY <1>2, <1>9, <3>2, <3>3 DEF Old
    <3>5. ~(scene \in ViewGated /\ view.owner # scope) BY <2>1, <3>4
    <3>6. ~(view # Blank /\ view.owner = scope /\ view.got[Main] > c.got[Main])
      BY <1>2, <2>1, <3>3, <3>4, ShownIsLater
    <3>7. Owed BY <3>4, <3>5, <3>6 DEF Behind
    <3>8. ~Fresh(c) BY <3>2 DEF Fresh
    <3> QED BY <2>5, <3>3, <3>7, <3>8
  <2>7. ASSUME NEW x \in Range(calls'), Old(x), x.kind = "silent"
        PROVE  queue' = "again"
    <3>1. x \in Range(calls) /\ c.kind # "silent" BY <1>11, <2>7
    <3> QED BY <1>3, <1>9, <2>7, <3>1
  <2>8. ASSUME NEW x \in Range(calls'), Old(x), x.kind # "silent"
        PROVE  Behind(x)'
    <3>1. x \in Range(calls) /\ x \in CallRecords /\ ScreenCallFits(x) BY <1>11, <2>8
    <3>2. Behind(x) BY <1>9, <2>8, <3>1
    <3>3. ~Old(c) /\ c.owner = scope => Behind(x)'
      <4>1. ~Old(c) /\ c.owner = scope => c.got[Main] > x.got[Main]
        BY <1>2, <2>1, <2>8, <3>1, NewIsAhead
      <4> QED BY <1>2, <2>1, <2>4, <4>1 DEF Behind
    <3>4. scene \in ViewGated /\ c.owner # scope => Behind(x)' BY <1>2, <2>1 DEF Behind
    <3>5. CASE c.kind = "silent" BY <2>2, <2>3, <3>3, <3>4, <3>5
    <3>6. CASE c.kind # "silent"
      <4>1. CASE Owed
        <5>1. Owed' => Behind(x)' BY DEF Behind
        <5>2. Fresh(c) => ~Old(c) /\ c.owner = scope BY DEF Fresh
        <5> QED BY <2>5, <3>3, <3>6, <4>1, <5>1, <5>2
      <4>2. CASE scene \in ViewGated /\ view.owner # scope BY <2>1, <3>4, <4>2
      <4>3. CASE view # Blank /\ view.owner = scope /\ view.got[Main] > x.got[Main]
        <5>1. c.owner = scope BY <2>1, <2>2, <4>3
        <5>2. view.got[Main] \in Int /\ c.got[Main] \in Int /\ c.got[Main] >= view.got[Main]
          BY <1>2, <2>1, <3>6, <4>3, <5>1, ShownIsLater
        <5>3. x.got[Main] \in Int BY <2>4, <3>1 DEF CallRecords, Versions, Unavailable
        <5>4. c.got[Main] > x.got[Main] BY <4>3, <5>2, <5>3
        <5> QED BY <1>2, <2>1, <2>4, <5>1, <5>4 DEF Behind
      <4> QED BY <3>2, <4>1, <4>2, <4>3 DEF Behind
    <3> QED BY <3>5, <3>6
  <2> QED BY <1>10, <2>6, <2>7, <2>8 DEF OldIsRefreshed
<1> QED BY <1>2, <1>12, <1>13, <1>14

LEMMA InitRefreshed ==
    ASSUME ScreensInit
    PROVE  OldIsRefreshed
<1>1. stream.state # "open" BY DEF ScreensInit, Closed
<1> QED BY <1>1 DEF OldIsRefreshed, Good

LEMMA ScreenRefreshedOn ==
    ASSUME ScreenHolds, ScreenComes, OldIsRefreshed, [ScreensNext]_screenVars
    PROVE  OldIsRefreshed'
<1>1. CASE \E to \in Owners \cup {Off} : Navigate(to) BY <1>1, NavigateRefreshed
<1>2. CASE TimelineLoaded BY <1>2, TimelineLoadedRefreshed
<1>3. CASE Command \/ RegisterSelectedUpload \/ ChooseUploadFile BY <1>3, StartRefreshed
<1>4. CASE ClearUploadFile
  <2>1. LogMoves BY <1>4 DEF ClearUploadFile, LogMoves
  <2> QED BY <1>4, <2>1, SameCallsRefreshed DEF ClearUploadFile
<1>5. CASE \E i \in DOMAIN calls : Answer(i) \/ Land(i) BY <1>5, AnswerRefreshed, LandRefreshed
<1>6. CASE \E owner \in Owners : (\E heard \in BOOLEAN : OtherUser(owner, heard)) \/ OtherTab(owner)
  <2>1. LogMoves BY <1>6 DEF OtherUser, OtherTab, LogMoves, LogRecords
  <2> QED BY <1>6, <2>1, SameCallsRefreshed DEF OtherUser, OtherTab
<1>7. CASE Passing BY <1>7, PassingRefreshed
<1>8. CASE Cut BY <1>8, CutRefreshed
<1>9. CASE \E n \in DOMAIN log : Deliver(n) BY <1>9, DeliverRefreshed
<1>10. CASE UNCHANGED screenVars
  <2>1. LogMoves BY <1>10 DEF screenVars, LogMoves
  <2> QED BY <1>10, <2>1, SameCallsRefreshed DEF screenVars
<1> QED BY <1>1, <1>2, <1>3, <1>4, <1>5, <1>6, <1>7, <1>8, <1>9, <1>10 
       DEF ScreensNext, Passing

-----------------------------------------------------------------------------
(* The effect of a command that no event will tell of.  Only the handler   *)
(* shows it, and what may show something else is the owner's load, which   *)
(* then has not read anything older: while nothing has gone wrong either   *)
(* the effect is shown, or that load is on its way.                        *)
EffectShown == view # Blank /\ view.owner = scope /\ Includes(view, note.effect)
EffectComes ==
    /\ \E c \in Range(calls) : ReadsOurs(c)
    /\ \A c \in Range(calls) : ReadsOurs(c) => Includes(c, note.effect)
Unannounced ==
    /\ note.tone = "success" /\ note.owner = scope
    /\ Told(Len(log), scope) < note.effect /\ facts = {}
EffectStays == Unannounced => EffectShown \/ EffectComes

LEMMA UnannouncedIs ==
    ASSUME ScreenHolds, Unannounced
    PROVE  scene \in ViewGated /\ scene \notin Runtimes /\ scene \notin ReadyGated
           /\ scope \in Owners /\ scope # Off /\ note.effect \in Nat
           /\ note.effect <= Version(scope) /\ Told(Len(log), scope) \in Nat
           /\ \A c \in Range(calls) : ReadsOurs(c) => c.kind = "load"
<1>1. note.tone = "success" /\ note.owner = scope /\ note \in NoteRecords
  BY DEF Unannounced, ScreenHolds, PageTyped
<1>2. scene \in ViewGated /\ scope \in Owners /\ note.effect <= Version(scope)
  BY <1>1 DEF ScreenHolds, NoteFits
<1>3. scene \notin Runtimes /\ scene \notin ReadyGated BY <1>2, ScenesAre
<1>4. Len(log) \in 0..Len(log) /\ log \in Seq(LogRecords) BY HoldsFacts
<1>5. Told(Len(log), scope) \in Nat BY <1>4, VersionsAre
<1>6. \A c \in Range(calls) : ReadsOurs(c) => c.kind = "load"
  BY <1>2 DEF ScreenHolds, ScreenCallFits, ReadsOurs
<1> QED BY <1>1, <1>2, <1>3, <1>5, <1>6, OwnersAreNot DEF NoteRecords

LEMMA UnannouncedNext ==
    ASSUME ScreenHolds', scene' = scene, Unannounced'
    PROVE  /\ scene \in ViewGated /\ scene \notin Runtimes /\ scene \notin ReadyGated
           /\ scope' \in Owners /\ scope' # Off
           /\ \A c \in Range(calls') : ReadsOurs(c)' => c.kind = "load"
<1>1. note'.tone = "success" /\ note'.owner = scope' BY DEF Unannounced
<1>2. NoteFits' /\ \A c \in Range(calls') : ScreenCallFits(c)' BY DEF ScreenHolds
<1>3. scene \in ViewGated /\ scope' \in Owners BY <1>1, <1>2 DEF NoteFits
<1>4. scene \notin Runtimes /\ scene \notin ReadyGated BY <1>3, ScenesAre
<1>5. \A c \in Range(calls') : ReadsOurs(c)' => c.kind = "load"
  BY <1>2, <1>3 DEF ScreenCallFits, ReadsOurs
<1> QED BY <1>3, <1>4, <1>5, OwnersAreNot

(* It was not told of before either.                                       *)
LEMMA UnannouncedBefore ==
    ASSUME ScreenHolds, UNCHANGED <<scope, note>>, LogMoves, facts \subseteq facts', Unannounced'
    PROVE  Unannounced
<1>1. PICK w, e : w = scope /\ e = note.effect OBVIOUS
<1>2. log \in Seq(LogRecords) BY HoldsFacts
<1>3. /\ Told(Len(log), w) \in Nat /\ Told(Len(log), w)' \in Nat
      /\ Told(Len(log), w) <= Told(Len(log), w)'
  BY <1>2, LogSteps DEF LogMoves
<1>4. e \in Nat BY <1>1 DEF ScreenHolds, PageTyped, NoteRecords
<1>5. Told(Len(log), w)' < e
  <2>1. Told(Len(log), scope)' = Told(Len(log), w)' BY <1>1 DEF Told
  <2> QED BY <1>1, <2>1 DEF Unannounced
<1>6. Told(Len(log), w) < e BY <1>3, <1>4, <1>5
<1>7. facts = {} /\ note.tone = "success" /\ note.owner = scope BY DEF Unannounced
<1> QED BY <1>1, <1>6, <1>7 DEF Unannounced

(* The same page, and loads that read no less.                             *)
LEMMA EffectStill ==
    ASSUME ScreenHolds, EffectStays, UNCHANGED <<scope, view, note>>, LogMoves, facts \subseteq facts',
           \A c \in Range(calls) : ReadsOurs(c) => \E d \in Range(calls') : ReadsOurs(d),
           \A d \in Range(calls') : Unannounced /\ ReadsOurs(d) =>
              \E c \in Range(calls) :
                 ReadsOurs(c) /\ (Includes(c, note.effect) => Includes(d, note.effect))
    PROVE  EffectStays'
<1>1. SUFFICES ASSUME Unannounced' PROVE EffectShown' \/ EffectComes' BY DEF EffectStays
<1>2. Unannounced BY <1>1, UnannouncedBefore
<1>3. PICK v, e : v = view /\ e = note.effect OBVIOUS
<1>4. CASE EffectShown
  <2>1. EffectShown' BY <1>3, <1>4 DEF EffectShown, Includes
  <2> QED BY <2>1
<1>5. CASE EffectComes
  <2>1. \E d \in Range(calls') : ReadsOurs(d)' BY <1>5 DEF EffectComes, ReadsOurs
  <2>2. ASSUME NEW d \in Range(calls'), ReadsOurs(d)' PROVE Includes(d, e)
    <3>1. ReadsOurs(d) BY <2>2 DEF ReadsOurs
    <3> QED BY <1>2, <1>3, <1>5, <3>1 DEF EffectComes
  <2>3. EffectComes' BY <1>3, <2>1, <2>2 DEF EffectComes
  <2> QED BY <2>3
<1> QED BY <1>2, <1>4, <1>5 DEF EffectStays

LEMMA NavigateKeepsEffect ==
    ASSUME ScreenHolds, ScreenHolds', ScreenComes, NEW to \in Owners \cup {Off}, Navigate(to)
    PROVE  EffectStays'
<1>1. SUFFICES ASSUME Unannounced' PROVE EffectComes' BY DEF EffectStays
<1>2. scope' = to /\ scene' = scene BY DEF Navigate
<1>3. /\ scene \notin ReadyGated /\ to # Off /\ to \in Owners
      /\ \A c \in Range(calls') : ReadsOurs(c)' => c.kind = "load"
  BY <1>1, <1>2, UnannouncedNext
<1>4. scene \notin ReadyGated /\ to \in Owners BY <1>3
<1>5. PICK l, s : l = LoadOf(to) /\ s = Cancel(calls, "load") OBVIOUS
<1>6. l \in CallRecords /\ l.owner = to /\ l.kind \in {"load", "fetch"} BY <1>4, <1>5, ScreenLoadBegins
<1>7. l.got = Unread BY <1>5 DEF LoadOf, Call
<1>8. s \in Seq(CallRecords) /\ NoneOf(s, "load")
  BY <1>5, HoldsFacts, LoadCancelled DEF ScreenComes, LoadsAreOurs
<1>9. calls' = s \o <<l>> BY <1>3, <1>4, <1>5 DEF Navigate, Uncancelled
<1>10. calls' = Append(s, l) BY <1>6, <1>8, <1>9, AppendIsConcat
<1>11. Range(Append(s, l)) = Range(s) \cup {l} BY <1>6, <1>8, TaskBegins
<1>12. l \in Range(calls') /\ ReadsOurs(l)' BY <1>2, <1>6, <1>10, <1>11 DEF ReadsOurs
<1>13. PICK e : e = note.effect' OBVIOUS
<1>14. ASSUME NEW c \in Range(calls'), ReadsOurs(c)' PROVE Includes(c, e)
  <2>1. c.kind = "load" BY <1>3, <1>14
  <2>2. \A x \in Range(s) : x.kind # "load" BY <1>8, NoneOfCalls
  <2>3. c = l BY <1>10, <1>11, <2>1, <2>2
  <2> QED BY <1>7, <2>3, UnreadIs DEF Includes
<1> QED BY <1>12, <1>13, <1>14 DEF EffectComes

LEMMA AnswerKeepsEffect ==
    ASSUME ScreenHolds, EffectStays, NEW i \in DOMAIN calls, Answer(i)
    PROVE  EffectStays'
<1>1. UNCHANGED <<scene, scope, ready, view, note, queue, stream, facts>> BY DEF Answer
<1>2. LogMoves BY AnswerFits
<1>3. PICK d \in CallRecords :
         calls' = [calls EXCEPT ![i] = d] /\ SameCall(d, calls[i]) /\ ReadsNew(d, calls[i])
  BY AnswerFits
<1>4. PICK c : c = calls[i] OBVIOUS
<1>5. c \in Range(calls) /\ c \in CallRecords BY <1>4, HoldsFacts
<1>6. PICK s : s = [calls EXCEPT ![i] = d] OBVIOUS
<1>7. /\ \A x \in Range(s) : x = d \/ x \in Range(calls)
      /\ d \in Range(s)
      /\ \A x \in Range(calls) : x = calls[i] \/ x \in Range(s)
  BY <1>3, <1>6, CallGoesOn
<1>8. calls' = s BY <1>3, <1>6
<1>9. ReadsOurs(d) <=> ReadsOurs(c) BY <1>3, <1>4 DEF SameCall, ReadsOurs
<1>10. ASSUME Unannounced, ReadsOurs(d), Includes(c, note.effect)
       PROVE  Includes(d, note.effect)
  <2>1. PICK e : e = note.effect OBVIOUS
  <2>2. e \in Nat /\ e <= Version(scope) /\ Version(scope) \in Nat
    BY <1>10, <2>1, UnannouncedIs, HoldsFacts
  <2>3. c.owner = scope BY <1>9, <1>10 DEF ReadsOurs
  <2>4. \A p \in Parts : d.got[p] = c.got[p] \/ d.got[p] = Unavailable \/ d.got[p] >= Version(scope)
    BY <1>3, <1>4, <2>3 DEF ReadsNew
  <2>5. \A p \in Parts : d.got[p] \in Int BY DEF CallRecords, Versions, Unavailable
  <2> QED BY <1>10, <2>1, <2>2, <2>4, <2>5 DEF Includes
<1>11. \A x \in Range(calls) : ReadsOurs(x) => \E y \in Range(calls') : ReadsOurs(y)
  BY <1>4, <1>7, <1>8, <1>9
<1>12. \A y \in Range(calls') : Unannounced /\ ReadsOurs(y) =>
          \E x \in Range(calls) :
             ReadsOurs(x) /\ (Includes(x, note.effect) => Includes(y, note.effect))
  BY <1>5, <1>7, <1>8, <1>9, <1>10
<1> QED BY <1>1, <1>2, <1>11, <1>12, EffectStill

(* What is shown instead of the effect includes it as well.                *)
LEMMA NoEffectLost ==
    ASSUME ScreenHolds, Unannounced, EffectShown, NEW c \in CallRecords, c.owner = scope,
           Complete(c.got), ~Overtaken(c)
    PROVE  Includes(c, note.effect)
<1>1. PICK v, e : v = view /\ e = note.effect OBVIOUS
<1>2. v # Blank /\ v \in ViewRecords /\ v.owner = scope /\ Complete(v.got) /\ Includes(v, e)
  BY <1>1 DEF ScreenHolds, ViewFits, EffectShown
<1>3. e \in Nat /\ Told(Len(log), scope) \in Nat /\ Told(Len(log), scope) < e
  BY <1>1, UnannouncedIs DEF Unannounced
<1>4. Main \in Parts \ {"project"} BY HoldsFacts
<1>5. \A p \in Parts : c.got[p] \in Int /\ v.got[p] \in Int
  BY <1>2 DEF CallRecords, ViewRecords, Versions, Unavailable
<1>6. v.got[Main] >= e BY <1>2, <1>4 DEF Complete, Includes
<1>7. c.got[Main] >= v.got[Main]
  <2>1. ~(c.got[Main] < v.got[Main] /\ Told(Len(log), c.owner) < v.got[Main])
    BY <1>1, <1>2, <1>4 DEF Overtaken
  <2> QED BY <1>3, <1>4, <1>5, <1>6, <2>1
<1>8. \A p \in Parts \ {"project"} : c.got[p] = Unavailable \/ c.got[p] >= c.got[Main]
  BY DEF Complete
<1>9. \A p \in Parts \ {"project"} : c.got[p] = Unavailable \/ c.got[p] >= e
  BY <1>3, <1>4, <1>5, <1>6, <1>7, <1>8
<1> QED BY <1>1, <1>9 DEF Includes

LEMMA LandKeepsEffect ==
    ASSUME ScreenHolds, ScreenHolds', ScreenComes, EffectStays, NEW i \in DOMAIN calls, Land(i)
    PROVE  EffectStays'
<1>1. PICK c : c = calls[i] OBVIOUS
<1>2. /\ c \in CallRecords /\ ScreenCallFits(c) /\ c.todo = <<>> /\ (IsShown(c) \/ Aside(c))
      /\ UNCHANGED <<scene, scope, ready, log>> /\ LogMoves /\ c \in Range(calls)
  BY <1>1, Landed, HoldsFacts
<1>3. /\ \A x \in Range(calls) : x = c \/ x \in Range(calls')
      /\ \A x \in Range(calls') : x \in Range(calls) \/ x.kind = "silent"
  BY <1>1, LandedCalls
<1>4. facts \subseteq facts' BY PageLands
<1>5. SUFFICES ASSUME Unannounced' PROVE EffectStays' BY DEF EffectStays
<1>6. facts' = {} /\ note'.tone = "success" BY <1>5 DEF Unannounced
<1>7. c.kind # "fetch" /\ scene \notin Runtimes
  <2>1. scene \in ViewGated /\ scene \notin Runtimes BY <1>2, <1>5, UnannouncedNext
  <2> QED BY <1>2, <2>1 DEF ScreenCallFits
<1>8. IsShown(c) =>
         /\ view' # Blank /\ view'.owner = c.owner /\ view'.got = c.got /\ Complete(c.got)
         /\ ~Overtaken(c) /\ c.owner = scope
  <2>1. IsShown(c) =>
         /\ view' # Blank /\ view'.owner = c.owner /\ view'.got = c.got /\ Complete(c.got)
         /\ ~Overtaken(c) /\ (c.kind = "load" \/ c.owner = scope)
    BY <1>2, <1>6, DisplayFits DEF IsShown
  <2> QED BY <1>2, <2>1 DEF ScreenComes, LoadsAreOurs
<1>9. PICK e : e = note.effect' OBVIOUS
<1>10. ASSUME IsShown(c), Includes(c, e) PROVE EffectStays'
  <2>1. EffectShown' BY <1>2, <1>8, <1>9, <1>10 DEF EffectShown, Includes
  <2> QED BY <2>1 DEF EffectStays
<1>11. CASE LandAct(i)
  <2>1. /\ c.ok /\ c.kind # "choose"
        /\ note' = [tone |-> "success", owner |-> c.target, effect |-> c.effect]
    <3>1. note' = CASE ~c.ok -> [NoNote EXCEPT !.tone = "error"]
                    [] c.ok /\ (c.kind = "choose" \/ scene \in Runtimes) -> NoNote
                    [] OTHER -> [tone |-> "success", owner |-> c.target, effect |-> c.effect]
      BY <1>1, <1>11 DEF LandAct
    <3>2. NoNote.tone # "success" /\ [NoNote EXCEPT !.tone = "error"].tone # "success"
      BY DEF NoNote
    <3>3. c.ok BY <1>6, <3>1, <3>2
    <3>4. c.kind # "choose" BY <1>6, <3>1, <3>2, <3>3
    <3> QED BY <1>7, <3>1, <3>3, <3>4
  <2>2. IsShown(c) BY <1>1, <1>11, <2>1 DEF LandAct, IsShown
  <2>3. c.target = scope /\ e = c.effect BY <1>2, <1>5, <1>9, <2>1 DEF Unannounced
  <2>4. Includes(c, e) BY <1>2, <1>8, <2>2, <2>3 DEF ScreenCallFits
  <2> QED BY <1>10, <2>2, <2>4
<1>12. CASE ~LandAct(i)
  <2>1. note' = note BY <1>12 DEF Land, LandLoad, LandFetch, LandSilent
  <2>2. Unannounced BY <1>2, <1>4, <1>5, <2>1, UnannouncedBefore
  <2>3. c.kind \in {"load", "silent"}
    BY <1>1, <1>7, <1>12 DEF Land, LandLoad, LandFetch, LandSilent
  <2>4. CASE IsShown(c) /\ EffectShown
    <3>1. Includes(c, e) BY <1>2, <1>8, <1>9, <2>1, <2>2, <2>4, NoEffectLost
    <3> QED BY <1>10, <2>4, <3>1
  <2>5. CASE IsShown(c) /\ EffectComes /\ c.kind = "load"
    <3>1. ReadsOurs(c) BY <1>8, <2>5 DEF ReadsOurs
    <3>2. Includes(c, e) BY <1>2, <1>9, <2>1, <2>5, <3>1 DEF EffectComes
    <3> QED BY <1>10, <2>5, <3>2
  <2>6. CASE EffectComes /\ c.kind = "silent"
    <3>1. \A x \in Range(calls) : ReadsOurs(x) => x \in Range(calls')
      BY <1>3, <2>6 DEF ReadsOurs
    <3>2. \A x \in Range(calls') : ReadsOurs(x) => x \in Range(calls)
      BY <1>3 DEF ReadsOurs
    <3>3. \A x : ReadsOurs(x)' <=> ReadsOurs(x) BY <1>2 DEF ReadsOurs
    <3>4. EffectComes' BY <1>9, <2>1, <2>6, <3>1, <3>2, <3>3 DEF EffectComes
    <3> QED BY <3>4 DEF EffectStays
  <2>7. CASE Aside(c) /\ EffectShown
    <3>1. view' = view BY <1>6, <2>7 DEF Aside
    <3>2. PICK v : v = view OBVIOUS
    <3>3. EffectShown' BY <1>2, <2>1, <2>7, <3>1, <3>2 DEF EffectShown, Includes
    <3> QED BY <3>3 DEF EffectStays
  <2>8. Aside(c) => c.kind = "silent" BY <1>6, <2>3 DEF Aside, UserKinds
  <2> QED BY <1>2, <2>2, <2>3, <2>4, <2>5, <2>6, <2>7, <2>8 DEF EffectStays
<1> QED BY <1>11, <1>12

LEMMA DeliverKeepsEffect ==
    ASSUME ScreenHolds, ScreenComes, EffectStays, NEW n \in DOMAIN log, Deliver(n)
    PROVE  EffectStays'
<1>1. UNCHANGED <<scene, scope, view, note, log, facts>> /\ LogMoves BY DEF Deliver, LogMoves
<1>2. stream.key[1] = scope /\ scope \in Owners BY DeliverHolds
<1>3. CASE UNCHANGED <<calls, queue>>
  <2>1. Range(calls') = Range(calls) BY <1>3
  <2> QED BY <1>1, <2>1, EffectStill
<1>4. CASE Schedule(scope)
  <2>1. ASSUME scene \in ViewGated
        PROVE  /\ \A x \in Range(calls) : x \in Range(calls')
               /\ \A x \in Range(calls') : x \in Range(calls) \/ x.kind = "silent"
    <3>1. scene \notin Uncoalesced BY <2>1, ScenesAre
    <3>2. CASE calls' = calls BY <3>2
    <3>3. CASE \E l \in CallRecords : calls' = Append(calls, l) /\ l.kind = "silent"
      <4>1. PICK l \in CallRecords : calls' = Append(calls, l) /\ l.kind = "silent" BY <3>3
      <4>2. calls \in Seq(CallRecords) BY HoldsFacts
      <4>3. Range(Append(calls, l)) = Range(calls) \cup {l} BY <4>1, <4>2, TaskBegins
      <4> QED BY <4>1, <4>3
    <3> QED BY <1>2, <1>4, <3>1, <3>2, <3>3, ScheduleAsks
  <2>2. SUFFICES ASSUME Unannounced' PROVE EffectStays' BY DEF EffectStays
  <2>3. Unannounced BY <1>1, <2>2, UnannouncedBefore
  <2>4. scene \in ViewGated BY <2>3, UnannouncedIs
  <2>5. \A x \in Range(calls') : ReadsOurs(x) => x \in Range(calls)
    BY <2>1, <2>4 DEF ReadsOurs
  <2> QED BY <1>1, <2>1, <2>4, <2>5, EffectStill
<1> QED BY <1>2, <1>3, <1>4 DEF Deliver

LEMMA EffectStaysOn ==
    ASSUME ScreenHolds, ScreenHolds', ScreenComes, EffectStays, [ScreensNext]_screenVars
    PROVE  EffectStays'
<1>1. CASE \E to \in Owners \cup {Off} : Navigate(to) BY <1>1, NavigateKeepsEffect
<1>2. CASE TimelineLoaded
  <2>1. scene' = scene /\ scene \in ReadyGated BY <1>2 DEF TimelineLoaded
  <2>2. ~Unannounced' BY <2>1, UnannouncedNext
  <2> QED BY <2>2 DEF EffectStays
<1>3. CASE Command \/ RegisterSelectedUpload \/ ChooseUploadFile \/ ClearUploadFile
  <2>1. note'.tone # "success"
    <3>1. [NoNote EXCEPT !.tone = "pending"].tone # "success" /\ NoNote.tone # "success"
      BY DEF NoNote
    <3> QED BY <1>3, <3>1
         DEF Command, RegisterSelectedUpload, ChooseUploadFile, Start, ClearUploadFile
  <2> QED BY <2>1 DEF EffectStays, Unannounced
<1>4. CASE \E i \in DOMAIN calls : Answer(i) \/ Land(i)
  BY <1>4, AnswerKeepsEffect, LandKeepsEffect
<1>5. ASSUME UNCHANGED <<scope, view, note, calls>>, LogMoves, facts \subseteq facts'
      PROVE  EffectStays'
  <2>1. Range(calls') = Range(calls) BY <1>5
  <2> QED BY <1>5, <2>1, EffectStill
<1>6. CASE \E owner \in Owners : (\E heard \in BOOLEAN : OtherUser(owner, heard)) \/ OtherTab(owner)
  BY <1>5, <1>6 DEF OtherUser, OtherTab, LogMoves, LogRecords
<1>7. CASE Passing BY <1>5, <1>7, PassingIs, PassingHolds DEF LogMoves
<1>8. CASE Cut BY <1>5, <1>8 DEF Cut, LogMoves
<1>9. CASE \E n \in DOMAIN log : Deliver(n) BY <1>9, DeliverKeepsEffect
<1>10. CASE UNCHANGED screenVars BY <1>5, <1>10 DEF screenVars, LogMoves
<1> QED BY <1>1, <1>2, <1>3, <1>4, <1>6, <1>7, <1>8, <1>9, <1>10
       DEF ScreensNext, Passing

LEMMA InitKeepsEffect ==
    ASSUME ScreensInit
    PROVE  EffectStays
<1>1. note.tone # "success" BY DEF ScreensInit, NoNote
<1> QED BY <1>1 DEF EffectStays, Unannounced

-----------------------------------------------------------------------------
(* What every reachable state of a screen satisfies.                       *)
ScreensInv == ScreenHolds /\ ScreenComes /\ OldIsRefreshed /\ EffectStays

(* The screen keeps what its parts promise each other: useShotWorkbench-   *)
(* Controller.ts and the other controllers, useQueuedSilentRefresh.ts and  *)
(* the subscriptions, whatever the order in which answers land.            *)
THEOREM ScreensInvariance == ScreensSpec => []ScreensInv
<1>1. ScreensInit => ScreensInv 
  BY InitHolds, InitComes, InitRefreshed, InitKeepsEffect DEF ScreensInv
<1>2. ScreensInv /\ [ScreensNext]_screenVars => ScreensInv'
  <2> SUFFICES ASSUME ScreensInv, [ScreensNext]_screenVars PROVE ScreensInv' OBVIOUS
  <2>1. ScreenHolds' BY ScreensHold DEF ScreensInv
  <2>2. ScreenComes' BY ScreenComesOn DEF ScreensInv
  <2>3. OldIsRefreshed' BY ScreenRefreshedOn DEF ScreensInv
  <2>4. EffectStays' BY <2>1, EffectStaysOn DEF ScreensInv
  <2> QED BY <2>1, <2>2, <2>3, <2>4 DEF ScreensInv
<1> QED BY <1>1, <1>2, PTL DEF ScreensSpec

(* Every variable has its type.                                            *)
THEOREM ScreensTyped == ScreensSpec => []ScreensTypeOK
<1>1. ScreensInv => ScreensTypeOK
  <2> SUFFICES ASSUME ScreensInv PROVE ScreensTypeOK OBVIOUS
  <2>1. ScreenHolds BY DEF ScreensInv
  <2>2. view = Blank \/ (view.owner \in Owners /\ DOMAIN view.got = Parts)
    BY <2>1 DEF ScreenHolds, ViewFits, ViewRecords
  <2>3. \A i \in DOMAIN calls :
           /\ calls[i].kind \in UserKinds \cup {"load", "fetch", "silent"}
           /\ calls[i].owner \in Owners /\ calls[i].target \in Owners
    BY <2>1, HoldsFacts DEF CallRecords, Kinds
  <2>4. stream.state \in {"off", "connecting", "open"} BY <2>1, StreamIs DEF StreamRecords
  <2>5. note.tone \in {"none", "pending", "success", "error"}
    BY <2>1 DEF ScreenHolds, PageTyped, NoteRecords
  <2> QED BY <2>1, <2>2, <2>3, <2>4, <2>5
       DEF ScreensTypeOK, ScreenHolds, PageTyped, ServerTyped, FactNames, LogRecords
<1> QED BY <1>1, ScreensInvariance, PTL

(* The whole of the stream has been read.                                  *)
LEMMA AllIsSeen ==
    ASSUME ScreenHolds, stream.state = "open", \A n \in DOMAIN log : ~Undelivered(n)
    PROVE  Told(stream.pos, scope) = Told(Len(log), scope) /\ scope \in Owners
<1>1. stream.key[1] = scope /\ scope \in Owners BY StreamIs
<1>2. /\ stream.pos \in 0..Len(log) /\ Len(log) \in Nat /\ DOMAIN log = 1..Len(log)
  BY HoldsFacts, LenProperties
<1>3. \A k \in 1..Len(log) : log[k].owner = scope => k <= stream.pos
  BY <1>1, <1>2 DEF Undelivered, OnStream
<1>4. {k \in 1..Len(log) : /\ log[k].owner = scope
                           /\ \E h \in k..Len(log) : log[h].owner = scope /\ log[h].heard}
       = {k \in 1..stream.pos : /\ log[k].owner = scope
                                /\ \E h \in k..stream.pos : log[h].owner = scope /\ log[h].heard}
  BY <1>2, <1>3
<1> QED BY <1>1, <1>4 DEF Told

(* A screen with nothing on its way shows the owner the route names, no    *)
(* part of it older than the last change it could hear of                  *)
(* (useQueuedSilentRefresh.ts with the subscriptions of the controllers).  *)
THEOREM QuietScreensAreCurrent == ScreensSpec => []QuietScreenIsCurrent
<1>1. ScreensInv => QuietScreenIsCurrent
  <2> SUFFICES ASSUME ScreensInv, Quiet, facts = {}
               PROVE  view # Blank /\ view.owner = scope /\ \A p \in Parts \ {"project"} : Current(p)
    BY DEF QuietScreenIsCurrent
  <2>1. ScreenHolds /\ ScreenComes /\ OldIsRefreshed BY DEF ScreensInv
  <2>2. scope # Off /\ Range(calls) = {} /\ queue = "idle" /\ stream.state = "open"
        /\ \A n \in DOMAIN log : ~Undelivered(n)
    BY DEF Quiet, Range
  <2>3. Told(stream.pos, scope) = Told(Len(log), scope) BY <2>1, <2>2, AllIsSeen
  <2>4. ~(scene \in ReadyGated /\ ~ready)
    <3>1. KeyOf(scope, view, ready)[1] = scope BY <2>1, <2>2, StreamIs
    <3>2. KeyOf(scope, view, ready)[1] = Wanted(scope, view, ready) BY <2>1, StreamIs, KeyIs
    <3>3. scene \in ReadyGated /\ ~ready => Wanted(scope, view, ready) = Off BY DEF Wanted
    <3> QED BY <2>2, <3>1, <3>2, <3>3
  <2>5. view # Blank /\ view.owner = scope BY <2>1, <2>2, <2>4 DEF ScreenComes, ViewComes
  <2>6. ~Old(view)
    <3>1. Good BY <2>2 DEF Good
    <3>2. ~Owed BY <2>2 DEF Owed
    <3> QED BY <2>1, <2>5, <3>1, <3>2 DEF OldIsRefreshed
  <2>7. ASSUME NEW p \in Parts \ {"project"} PROVE Current(p)
    <3>1. view.got[p] \in Int /\ view.got[p] <= Version(scope)
      BY <2>1, <2>5 DEF ScreenHolds, ViewFits, ViewRecords, Versions, Unavailable
    <3>2. view.got[p] = Unavailable \/ ~(view.got[p] < Told(Len(log), scope))
      BY <2>3, <2>5, <2>6 DEF Old
    <3>3. Told(Len(log), scope) \in Nat BY <2>1, <2>3, HoldsFacts
    <3> QED BY <3>1, <3>2, <3>3 DEF Current
  <2> QED BY <2>5, <2>7
<1> QED BY <1>1, ScreensInvariance, PTL

(* Another owner's data is on the screen only until this one's arrives, or *)
(* because a function started for the other wrote it.                      *)
THEOREM ForeignDataIsOnlyStray == ScreensSpec => []ForeignDataIsStray
<1>1. ScreensInv => ForeignDataIsStray
  <2> SUFFICES ASSUME ScreensInv, view # Blank, view.owner # scope
               PROVE  \/ facts \cap {"stray", "failed"} # {}
                      \/ scope # Off /\ scene \in ReadyGated /\ ~ready
                      \/ \E i \in DOMAIN calls : calls[i].kind \in {"load", "fetch"}
                                                 /\ calls[i].owner = scope
    BY DEF ForeignDataIsStray
  <2>1. ScreenComes BY DEF ScreensInv
  <2>2. CASE scope = Off BY <2>1, <2>2 DEF ScreenComes, ClosedShows
  <2>3. CASE scope # Off
    <3>1. (\E c \in Range(calls) : ReadsOurs(c)) =>
             \E i \in DOMAIN calls : calls[i].kind \in {"load", "fetch"} /\ calls[i].owner = scope
      BY DEF Range, ReadsOurs
    <3> QED BY <2>1, <2>3, <3>1 DEF ScreenComes, ViewComes
  <2> QED BY <2>2, <2>3
<1> QED BY <1>1, ScreensInvariance, PTL

(* The success shown for a command is true of what is shown with it: once  *)
(* the refresh its event asked for has landed, or, if no event tells of    *)
(* it, once the owner's load has.                                          *)
THEOREM SuccessesAreShown == ScreensSpec => []SuccessIsShown
<1>1. ScreensInv => SuccessIsShown
  <2> SUFFICES ASSUME ScreensInv, note.tone = "success", view # Blank, view.owner = scope,
                      note.owner = scope, ~RefreshOwed,
                      facts \cap {"overtaken", "failed", "skipped"} = {},
                      ~ /\ Told(Len(log), scope) < note.effect
                        /\ "stray" \in facts \/ \E i \in DOMAIN calls : calls[i].kind = "load"
               PROVE  \A p \in Parts \ {"project"} :
                         view.got[p] = Unavailable \/ view.got[p] >= note.effect
    BY DEF SuccessIsShown
  <2>1. ScreenHolds /\ OldIsRefreshed /\ EffectStays BY DEF ScreensInv
  <2>2. queue = "idle" /\ stream.state = "open" /\ \A n \in DOMAIN log : ~Undelivered(n)
    BY DEF RefreshOwed
  <2>3. Told(stream.pos, scope) = Told(Len(log), scope) BY <2>1, <2>2, AllIsSeen
  <2>4. scene \in ViewGated /\ note.effect <= Version(scope) /\ note.effect \in Nat
    BY <2>1 DEF ScreenHolds, NoteFits, PageTyped, NoteRecords
  <2>5. CASE ~(Told(Len(log), scope) < note.effect)
    <3>1. ~Owed
      <4>1. \A c \in Range(calls) : c.kind = "fetch" => scene \notin ViewGated
        BY <2>1 DEF ScreenHolds, ScreenCallFits
      <4> QED BY <2>2, <2>4, <4>1 DEF Owed, Fresh
    <3>2. ~Old(view)
      <4>1. Good BY <2>2, <2>4 DEF Good
      <4> QED BY <2>1, <3>1, <4>1 DEF OldIsRefreshed
    <3> TAKE p \in Parts \ {"project"}
    <3>3. view.got[p] \in Int
      BY <2>1 DEF ScreenHolds, ViewFits, ViewRecords, Versions, Unavailable
    <3>4. view.got[p] = Unavailable \/ ~(view.got[p] < Told(Len(log), scope))
      BY <2>3, <3>2 DEF Old
    <3>5. Told(Len(log), scope) \in Nat BY <2>1, <2>3, HoldsFacts
    <3> QED BY <2>4, <2>5, <3>3, <3>4, <3>5
  <2>6. CASE Told(Len(log), scope) < note.effect
    <3>1. facts = {}
      <4>1. facts \subseteq FactNames BY <2>1 DEF ScreenHolds, PageTyped
      <4> QED BY <2>6, <4>1 DEF FactNames
    <3>2. Unannounced BY <2>6, <3>1 DEF Unannounced
    <3>3. ~EffectComes
      <4>1. \A c \in Range(calls) : ReadsOurs(c) => c.kind = "load" BY <2>1, <3>2, UnannouncedIs
      <4>2. \A c \in Range(calls) : c.kind # "load" BY <2>6 DEF Range
      <4> QED BY <4>1, <4>2 DEF EffectComes
    <3> QED BY <2>1, <3>2, <3>3 DEF EffectStays, EffectShown, Includes
  <2> QED BY <2>5, <2>6
<1> QED BY <1>1, ScreensInvariance, PTL

-----------------------------------------------------------------------------
(* What is on the server, on its way, and under way.                       *)
Worlds ==
    [limit : Limits \ {0}, reserved : Nat,
     evaluations : Seq([id : 1..MaxReports, says : {"passed", "failed"}]),
     reviews : Seq([id : 1..MaxReports, says : {"approved", "rejected"}]),
     run : {"none", "running", "failed"}, batch : {"none", "uploaded", "confirmed"}]
News == [kind : {"billing"}, says : {"updated"}]
          \cup [kind : {"evaluation"}, says : {"passed", "failed"}]
          \cup [kind : {"review"}, says : {"approved", "rejected"}]
          \cup [kind : {"workflow"}, says : {"running", "failed"}]
          \cup [kind : {"asset"}, says : {"uploaded", "confirmed"}]
OverviewCalls == [kind : {"load", "operations", "budget"}, phase : {"asked", "overview", "operations"},
          enabled : BOOLEAN, since : Nat \ {0}, of : Overviews \cup {Blank}, limit : Limits]

OverviewFits(w, o) ==
    /\ o.budgetAt \in DOMAIN w /\ o.summaryAt \in DOMAIN w
    /\ o.limit = w[o.budgetAt].limit
OperationsFits(w, p) ==
    /\ p.runAt \in DOMAIN w /\ p.batchAt \in DOMAIN w
    /\ "workflow" \in p.blockers <=> w[p.runAt].run = "failed"
    /\ "asset" \in p.blockers <=> w[p.batchAt].batch = "uploaded"
    /\ p.alerts = buildRuntimeAlerts(w[p.runAt].run, w[p.batchAt].batch)

(* A function made on the overview has the second part to read, too, and   *)
(* of the loads only that of the route there is goes on.                   *)
ReadFits(w, route, r) ==
    /\ r.since \in DOMAIN w
    /\ r.phase = "asked" => r.kind = "budget"
    /\ r.kind = "operations" => r.phase = "operations"
    /\ r.phase = "operations" => r.of # Blank /\ OverviewFits(w, r.of) /\ r.enabled
    /\ r.enabled = (r.kind = "load" => route)

OverviewTyped ==
    /\ overviewRoute \in BOOLEAN /\ overviewError \in BOOLEAN /\ budgetLimit \in Limits
    /\ overview \in Overviews \cup {Blank}
    /\ operationsOverview \in OperationsOverviews \cup {Blank}
    /\ worlds \in Seq(Worlds) /\ worlds # <<>> /\ Len(worlds) <= MaxReports + 1
    /\ news \in Seq(News) /\ Len(news) < Len(worlds)
    /\ requests \in Seq(OverviewCalls)
    /\ overtaken \subseteq {"limit", "operations", "recent", "error"}

ReadsFit ==
    /\ overview # Blank => OverviewFits(worlds, overview)
    /\ operationsOverview # Blank => OperationsFits(worlds, operationsOverview)
    /\ \A r \in Range(requests) : ReadFits(worlds, overviewRoute, r)
    /\ AtMostOne(requests, "load")

(* Evaluations and reviews are recorded for good.                          *)
OnlyGrow(w) == \A m \in DOMAIN w : \A n \in 1..m :
    /\ w[n].evaluations # <<>> => w[m].evaluations # <<>>
    /\ w[n].reviews # <<>> => w[m].reviews # <<>>

Unchanged(w, field, n) == \A m \in n..Len(w) : w[m][field] = w[Len(w)][field]
EventComing(events, kind) == \E e \in Range(events) : e.kind = kind
Loading(tasks) == \E r \in Range(tasks) : r.kind = "load"

ErrorTold ==
    overview = Blank => overviewError \/ "error" \in overtaken \/ Loading(requests)

(* On a page without an overview only a load lands, unless one failed that *)
(* was not alone.                                                          *)
NothingLands ==
    overview = Blank => \/ \A r \in Range(requests) : r.kind = "load"
                        \/ {"limit", "operations", "recent"} \subseteq overtaken

(* A run or a batch that changed: its event comes, a function will read    *)
(* it, or it was read.  A command does not count, for it may fail halfway. *)
WillRead(w, r, field) ==
    \/ r.kind = "load" /\ r.phase = "overview"
    \/ r.kind \in {"load", "operations"} /\ r.phase = "operations" /\ Unchanged(w, field, r.since)
PartKept(field, kind, p, place) ==
    \/ EventComing(news, kind)
    \/ \E r \in Range(requests) : WillRead(worlds, r, field)
    \/ p # Blank /\ Unchanged(worlds, field, place)

(* The other blockers are those of the overview shown.                     *)
Derived(p, o) == \A kind \in {"budget", "review"} :
    kind \in p.blockers <=> kind \in buildReleaseBlockers(o, "none", "none")

OperationsKept ==
    overviewRoute /\ "operations" \notin overtaken /\ (overview # Blank \/ Loading(requests)) =>
        /\ PartKept("run", "workflow", operationsOverview, operationsOverview.runAt)
        /\ PartKept("batch", "asset", operationsOverview, operationsOverview.batchAt)
        /\ \/ Loading(requests)
           \/ operationsOverview # Blank /\ Derived(operationsOverview, overview)

(* The limit was read since it changed, or is going to be shown.           *)
WillLimit(w, r) ==
    /\ r.kind \in {"load", "budget"}
    /\ \/ r.phase = "overview" /\ Unchanged(w, "limit", r.since)
       \/ r.phase = "operations" /\ Unchanged(w, "limit", r.of.budgetAt)
LimitKept ==
    "limit" \notin overtaken =>
        IF overview = Blank THEN \A r \in Range(requests) : WillLimit(worlds, r)
        ELSE \/ Unchanged(worlds, "limit", overview.budgetAt)
             \/ \E r \in Range(requests) : WillLimit(worlds, r)

(* What was recorded is shown, on its way, or read by a load.              *)
WillTell(w, r, kind, reports) ==
    /\ r.kind = "load"
    /\ \/ r.phase = "overview" /\ w[r.since][reports] # <<>>
       \/ r.phase = "operations" /\ r.of.recent[kind] # "pending"
RecentKept(kind, reports) ==
    "recent" \notin overtaken /\ worlds[Len(worlds)][reports] # <<>> =>
        \/ EventComing(news, kind)
        \/ overview # Blank /\ overview.recent[kind] # "pending"
        \/ \E r \in Range(requests) : WillTell(worlds, r, kind, reports)
        \/ overview = Blank /\ requests = <<>>

OverviewInv ==
    /\ OverviewTyped /\ ReadsFit /\ OnlyGrow(worlds)
    /\ ErrorTold /\ NothingLands
    /\ OperationsKept /\ LimitKept
    /\ RecentKept("evaluation", "evaluations") /\ RecentKept("review", "reviews")

-----------------------------------------------------------------------------
(* A bounded set of numbers has a least one and a greatest one.            *)
LEMMA HasLeast ==
    ASSUME NEW n \in Nat, NEW T \in SUBSET (1..n), T # {}
    PROVE  \E x \in T : \A y \in T : x <= y
<1>1. PICK F : F = {{y \in T : y <= x} : x \in T} OBVIOUS
<1>2. F \subseteq FiniteSubsetsOf(1..n) /\ F # {}
  <2>1. IsFiniteSet(1..n) BY FS_Interval
  <2>2. FiniteSubsetsOf(1..n) = SUBSET (1..n) BY <2>1, FS_FiniteSubsetsOfFinite
  <2>3. \A x \in T : {y \in T : y <= x} \in SUBSET (1..n) OBVIOUS
  <2>4. F \subseteq SUBSET (1..n)
    <3>1. ASSUME NEW X \in F PROVE X \in SUBSET (1..n)
      <4>1. PICK x \in T : X = {y \in T : y <= x} BY <1>1
      <4> QED BY <2>3, <4>1
    <3> QED BY <3>1
  <2>5. F # {} BY <1>1
  <2> QED BY <2>2, <2>4, <2>5
<1>3. \E X \in F : \A Y \in F : ~(<<Y, X>> \in StrictSubsetOrdering(1..n))
  BY <1>2, FS_StrictSubsetOrderingWellFounded, WFMin
<1>4. PICK x \in T : \A z \in T :
          ~({y \in T : y <= z} \subseteq {y \in T : y <= x}
            /\ {y \in T : y <= z} # {y \in T : y <= x})
  <2>1. PICK X \in F : \A Y \in F : ~(<<Y, X>> \in StrictSubsetOrdering(1..n)) BY <1>3
  <2>2. PICK x \in T : X = {y \in T : y <= x} BY <1>1, <2>1
  <2>3. ASSUME NEW z \in T
        PROVE  ~({y \in T : y <= z} \subseteq X /\ {y \in T : y <= z} # X)
    <3>1. PICK Z : Z = {y \in T : y <= z} OBVIOUS
    <3>2. Z \in F /\ Z \in SUBSET (1..n) /\ X \in SUBSET (1..n) BY <1>1, <2>2, <3>1
    <3>3. ~(<<Z, X>> \in StrictSubsetOrdering(1..n)) BY <2>1, <3>2
    <3>4. ~(Z \subseteq X /\ Z # X) BY <3>2, <3>3 DEF StrictSubsetOrdering
    <3> QED BY <3>1, <3>4
  <2> QED BY <2>2, <2>3
<1>5. ASSUME NEW z \in T, z < x PROVE FALSE
  <2>1. x \in Nat /\ z \in Nat OBVIOUS
  <2>2. \A y \in T : y \in Nat /\ (y <= z => y <= x)
    <3>1. \A y \in T : y \in Nat OBVIOUS
    <3>2. \A y \in Nat : y <= z => y <= x BY <1>5, <2>1
    <3> QED BY <3>1, <3>2
  <2>3. x \in {y \in T : y <= x} /\ x \notin {y \in T : y <= z} BY <1>5, <2>1
  <2>4. {y \in T : y <= z} \subseteq {y \in T : y <= x} BY <2>2
  <2> QED BY <1>4, <2>3, <2>4
<1> QED BY <1>5

(* A set of positions that is not empty has a greatest.                    *)
LEMMA HasGreatest ==
    ASSUME NEW n \in Nat, NEW T \in SUBSET (1..n), T # {}
    PROVE  \E x \in T : \A y \in T : x >= y
<1>1. PICK U : U = {n + 1 - x : x \in T} OBVIOUS
<1>2. U \in SUBSET (1..n) /\ U # {}
  <2>1. \A x \in T : n + 1 - x \in 1..n OBVIOUS
  <2> QED BY <1>1, <2>1
<1>3. PICK u \in U : \A v \in U : u <= v BY <1>2, HasLeast
<1>4. PICK x \in T : u = n + 1 - x BY <1>1, <1>3
<1>5. \A y \in T : n + 1 - x <= n + 1 - y BY <1>1, <1>3, <1>4
<1>6. \A y \in T : y \in Nat /\ x \in Nat OBVIOUS
<1> QED BY <1>5, <1>6

(* The first and the last of a list are among what it lists.               *)
LEMMA ListedFirstAndLast ==
    ASSUME NEW S, NEW reports \in Seq([id : 1..MaxReports, says : S]), reports # <<>>
    PROVE  FirstListed(reports).says \in S /\ LastListed(reports).says \in S
<1>1. PICK R : R = Range(reports) OBVIOUS
<1>2. R \subseteq [id : 1..MaxReports, says : S] /\ R # {}
  <2>1. \A i \in DOMAIN reports : reports[i] \in [id : 1..MaxReports, says : S]
    BY ElementOfSeq, LenProperties
  <2>2. 1 \in DOMAIN reports BY LenProperties, EmptySeq
  <2> QED BY <1>1, <2>1, <2>2 DEF Range
<1>3. PICK T : T = {x.id : x \in R} OBVIOUS
<1>4. T \in SUBSET (1..MaxReports) /\ T # {} BY <1>2, <1>3
<1>5. \E x \in R : \A y \in R : x.id <= y.id
  <2>1. PICK t \in T : \A u \in T : t <= u BY <1>4, HasLeast, OverviewBounds
  <2> QED BY <1>3, <2>1
<1>6. \E x \in R : \A y \in R : x.id >= y.id
  <2>1. PICK t \in T : \A u \in T : t >= u BY <1>4, HasGreatest, OverviewBounds
  <2> QED BY <1>3, <2>1
<1>7. FirstListed(reports) \in R BY <1>1, <1>5 DEF FirstListed
<1>8. LastListed(reports) \in R BY <1>1, <1>6 DEF LastListed
<1> QED BY <1>2, <1>7, <1>8

(* There is a latest state of the server, and each of them is one.         *)
LEMMA WorldAt ==
    ASSUME OverviewTyped
    PROVE  /\ Len(worlds) \in Nat \ {0} /\ DOMAIN worlds = 1..Len(worlds)
           /\ \A n \in DOMAIN worlds : worlds[n] \in Worlds
           /\ Latest \in Worlds /\ Len(worlds) \in DOMAIN worlds
<1>1. worlds \in Seq(Worlds) /\ worlds # <<>> BY DEF OverviewTyped
<1>2. Len(worlds) \in Nat \ {0} /\ DOMAIN worlds = 1..Len(worlds)
  BY <1>1, LenProperties, EmptySeq
<1> QED BY <1>1, <1>2, ElementOfSeq DEF Latest

(* What a load reads of the first part, from states since it was asked.    *)
LEMMA OverviewRead ==
    ASSUME OverviewTyped, OnlyGrow(worlds), NEW since \in DOMAIN worlds, NEW o \in loadAdminOverview(since)
    PROVE  /\ o \in Overviews /\ OverviewFits(worlds, o) /\ o.budgetAt \in since..Len(worlds)
           /\ worlds[since].evaluations # <<>> => o.recent.evaluation # "pending"
           /\ worlds[since].reviews # <<>> => o.recent.review # "pending"
<1>1. PICK b \in since..Len(worlds), i \in since..Len(worlds), e \in since..Len(worlds),
           r \in since..Len(worlds), s \in since..Len(worlds) : o = OverviewOf(b, i, e, r, s)
  BY DEF loadAdminOverview
<1>2. /\ Len(worlds) \in Nat \ {0} /\ DOMAIN worlds = 1..Len(worlds)
      /\ \A n \in DOMAIN worlds : worlds[n] \in Worlds
  BY WorldAt
<1>3. \A n \in since..Len(worlds) : n \in DOMAIN worlds /\ n \in Nat \ {0} BY <1>2
<1>4. PICK evaluated : evaluated = FirstOr(worlds[e].evaluations, "pending") OBVIOUS
<1>5. PICK latest : latest = GetShotReviewSummary(worlds[s]) OBVIOUS
<1>6. PICK first : first = FirstOr(worlds[r].reviews, "none") OBVIOUS
<1>7. /\ evaluated \in {"pending", "passed", "failed"}
      /\ worlds[e].evaluations # <<>> => evaluated # "pending"
  <2>1. worlds[e].evaluations \in Seq([id : 1..MaxReports, says : {"passed", "failed"}])
    BY <1>2, <1>3 DEF Worlds
  <2>2. worlds[e].evaluations # <<>> => evaluated \in {"passed", "failed"}
    BY <1>4, <2>1, ListedFirstAndLast DEF FirstOr
  <2> QED BY <1>4, <2>2 DEF FirstOr
<1>8. latest \in {"pending", "approved", "rejected"}
  <2>1. worlds[s].reviews \in Seq([id : 1..MaxReports, says : {"approved", "rejected"}])
    BY <1>2, <1>3 DEF Worlds
  <2>2. worlds[s].reviews # <<>> => latest \in {"approved", "rejected"}
    BY <1>5, <2>1, ListedFirstAndLast DEF GetShotReviewSummary
  <2> QED BY <1>5, <2>2 DEF GetShotReviewSummary
<1>9. /\ first \in {"none", "approved", "rejected"}
      /\ worlds[r].reviews # <<>> => first # "none"
  <2>1. worlds[r].reviews \in Seq([id : 1..MaxReports, says : {"approved", "rejected"}])
    BY <1>2, <1>3 DEF Worlds
  <2>2. worlds[r].reviews # <<>> => first \in {"approved", "rejected"}
    BY <1>6, <2>1, ListedFirstAndLast DEF FirstOr
  <2> QED BY <1>6, <2>2 DEF FirstOr
<1>10. o = [limit |-> worlds[b].limit, remaining |-> worlds[b].limit - worlds[b].reserved,
            evaluation |-> evaluated, review |-> first, latestConclusion |-> latest,
            recent |-> [billing |-> IF worlds[i].reserved > 0 THEN "reserved" ELSE "pending",
                        evaluation |-> evaluated,
                        review |-> IF first = "none" THEN latest ELSE first],
            budgetAt |-> b, summaryAt |-> s]
  BY <1>1, <1>4, <1>5, <1>6 DEF OverviewOf
<1>11. worlds[b].limit \in Limits \ {0} /\ worlds[b].reserved \in Nat
  BY <1>2, <1>3 DEF Worlds
<1>12. worlds[b].limit - worlds[b].reserved \in Int BY <1>11 DEF Limits
<1>13. o \in Overviews
  <2>1. o.recent \in [billing : {"reserved", "pending", "updated"},
                      evaluation : {"pending", "passed", "failed"},
                      review : {"pending", "approved", "rejected"}]
    BY <1>7, <1>8, <1>9, <1>10
  <2> QED BY <1>3, <1>7, <1>8, <1>9, <1>10, <1>11, <1>12, <2>1 DEF Overviews
<1>14. /\ worlds[since].evaluations # <<>> => worlds[e].evaluations # <<>>
       /\ worlds[since].reviews # <<>> => worlds[r].reviews # <<>>
  BY <1>2, <1>3 DEF OnlyGrow
<1> QED BY <1>3, <1>7, <1>9, <1>10, <1>13, <1>14 DEF OverviewFits

(* What is read of the second part.                                        *)
LEMMA OperationsRead ==
    ASSUME OverviewTyped, NEW since \in DOMAIN worlds, NEW o \in Overviews,
           NEW p \in loadAdminOperationsOverview(o, since)
    PROVE  /\ p \in OperationsOverviews /\ OperationsFits(worlds, p) /\ Derived(p, o)
           /\ p.runAt \in since..Len(worlds) /\ p.batchAt \in since..Len(worlds)
<1>1. PICK r \in since..Len(worlds), b \in since..Len(worlds) : p = OperationsOf(o, r, b)
  BY DEF loadAdminOperationsOverview
<1>2. /\ Len(worlds) \in Nat \ {0} /\ DOMAIN worlds = 1..Len(worlds)
  BY WorldAt
<1>3. r \in DOMAIN worlds /\ b \in DOMAIN worlds /\ r \in Nat \ {0} /\ b \in Nat \ {0} BY <1>2
<1>4. /\ p.blockers = buildReleaseBlockers(o, worlds[r].run, worlds[b].batch)
      /\ p.alerts = buildRuntimeAlerts(worlds[r].run, worlds[b].batch)
      /\ p.runAt = r /\ p.batchAt = b
      /\ p = [blockers |-> p.blockers, alerts |-> p.alerts, runAt |-> r, batchAt |-> b]
  BY <1>1 DEF OperationsOf
<1>5. p.blockers \in SUBSET BlockerKinds /\ p.alerts \in SUBSET AlertKinds
  BY <1>4 DEF buildReleaseBlockers, buildRuntimeAlerts
<1>6. p \in OperationsOverviews BY <1>3, <1>4, <1>5 DEF OperationsOverviews
<1>7. /\ "workflow" \in p.blockers <=> worlds[r].run = "failed"
      /\ "asset" \in p.blockers <=> worlds[b].batch = "uploaded"
      /\ Derived(p, o)
  BY <1>4 DEF buildReleaseBlockers, BlockerKinds, Derived
<1> QED BY <1>3, <1>4, <1>6, <1>7 DEF OperationsFits

(* A request under way is one that the code sends.                         *)
LEMMA ReadIs ==
    ASSUME OverviewTyped, ReadsFit, NEW i \in DOMAIN requests
    PROVE  /\ requests \in Seq(OverviewCalls)
           /\ requests[i] \in OverviewCalls /\ requests[i] \in Range(requests)
           /\ ReadFits(worlds, overviewRoute, requests[i])
<1>1. requests \in Seq(OverviewCalls) BY DEF OverviewTyped
<1>2. requests[i] \in OverviewCalls BY <1>1, ElementOfSeq, LenProperties
<1>3. requests[i] \in Range(requests) BY DEF Range
<1> QED BY <1>1, <1>2, <1>3 DEF ReadsFit

(* The same of a request in the set of them.                               *)
LEMMA ReadsAre ==
    ASSUME OverviewTyped, ReadsFit, NEW r \in Range(requests)
    PROVE  r \in OverviewCalls /\ ReadFits(worlds, overviewRoute, r)
<1>1. PICK i \in DOMAIN requests : r = requests[i] BY DEF Range
<1> QED BY <1>1, ReadIs

(* Of an empty sequence.                                                   *)
LEMMA NoneRuns ==
    ASSUME NEW S, NEW s \in Seq(S), Range(s) = {}
    PROVE  s = <<>>
<1>1. DOMAIN s = {} BY DEF Range
<1> QED BY <1>1, LenProperties, EmptySeq

-----------------------------------------------------------------------------
(* Steps that neither report nor show anything: every function that was to read
   something is still there or has gone on, unless it slipped. *)
GoesOn(r, q) ==
    /\ q.kind = r.kind
    /\ \A field : WillRead(worlds, r, field) => WillRead(worlds, q, field)
    /\ WillLimit(worlds, r) => WillLimit(worlds, q)
    /\ WillTell(worlds, r, "evaluation", "evaluations")
         => WillTell(worlds, q, "evaluation", "evaluations")
    /\ WillTell(worlds, r, "review", "reviews") => WillTell(worlds, q, "review", "reviews")

(* Where the server is as it was and every request goes on as something    *)
(* that does as much, the invariant stays.                                 *)
LEMMA FunctionsGoOn ==
    ASSUME OverviewInv, worlds' = worlds, news' = news,
           UNCHANGED <<overviewRoute, overview, operationsOverview, overviewError>>,
           budgetLimit' \in Limits,
           overtaken \subseteq overtaken',
           overtaken' \subseteq {"limit", "operations", "recent", "error"},
           requests' \in Seq(OverviewCalls), AtMostOne(requests', "load"),
           \A r \in Range(requests') :
              /\ ReadFits(worlds, overviewRoute, r)
              /\ overview # Blank \/ \E q \in Range(requests) : q.kind = r.kind
              /\ overview = Blank /\ "limit" \notin overtaken' => WillLimit(worlds, r),
           \A r \in Range(requests) :
              \/ \E q \in Range(requests') : GoesOn(r, q)
              \/ r.kind = "operations" /\ "operations" \in overtaken'
              \/ r.kind = "budget" /\ (r.phase = "asked" \/ "limit" \in overtaken')
    PROVE  OverviewInv'
<1>1. OverviewTyped' BY DEF OverviewInv, OverviewTyped
<1>2. ReadsFit' BY DEF OverviewInv, ReadsFit
<1>3. OnlyGrow(worlds') BY DEF OverviewInv
<1>4. Loading(requests) => Loading(requests') BY DEF Loading, GoesOn
<1>5. ErrorTold' BY <1>4 DEF OverviewInv, ErrorTold
<1>6. NothingLands' BY DEF OverviewInv, NothingLands
<1>7. ASSUME NEW field, NEW r \in Range(requests), WillRead(worlds, r, field),
             "operations" \notin overtaken'
      PROVE  \E q \in Range(requests') : WillRead(worlds, q, field)
  <2>1. r.kind # "budget" BY <1>7 DEF WillRead
  <2> QED BY <1>7, <2>1 DEF GoesOn
<1>8. OperationsKept'
  <2> SUFFICES ASSUME overviewRoute, "operations" \notin overtaken',
                      overview # Blank \/ Loading(requests')
               PROVE  /\ PartKept("run", "workflow", operationsOverview, operationsOverview.runAt)'
                      /\ PartKept("batch", "asset", operationsOverview, operationsOverview.batchAt)'
                      /\ \/ Loading(requests')
                         \/ operationsOverview # Blank /\ Derived(operationsOverview, overview)
    BY DEF OperationsKept
  <2>1. /\ PartKept("run", "workflow", operationsOverview, operationsOverview.runAt)
        /\ PartKept("batch", "asset", operationsOverview, operationsOverview.batchAt)
        /\ \/ Loading(requests)
           \/ operationsOverview # Blank /\ Derived(operationsOverview, overview)
    <3>1. overview # Blank \/ Loading(requests) BY DEF Loading
    <3> QED BY <3>1 DEF OverviewInv, OperationsKept
  <2> QED BY <1>4, <1>7, <2>1 DEF PartKept
<1>9. LimitKept'
  <2> SUFFICES ASSUME "limit" \notin overtaken', overview # Blank
               PROVE  \/ Unchanged(worlds, "limit", overview.budgetAt)
                      \/ \E r \in Range(requests') : WillLimit(worlds, r)
    BY DEF LimitKept
  <2>1. \/ Unchanged(worlds, "limit", overview.budgetAt)
        \/ \E r \in Range(requests) : WillLimit(worlds, r)
    BY DEF OverviewInv, LimitKept
  <2>2. ASSUME NEW r \in Range(requests), WillLimit(worlds, r)
        PROVE  \E q \in Range(requests') : WillLimit(worlds, q)
    <3>1. r.kind # "operations" /\ r.phase # "asked" BY <2>2 DEF WillLimit
    <3> QED BY <2>2, <3>1 DEF GoesOn
  <2> QED BY <2>1, <2>2
<1>10. overview = Blank /\ requests = <<>> => requests' = <<>>
  <2>1. requests = <<>> => Range(requests) = {} BY DEF Range
  <2>2. overview = Blank /\ requests = <<>> => Range(requests') = {} BY <2>1
  <2> QED BY <2>2, NoneRuns
<1>11. RecentKept("evaluation", "evaluations")'
  <2>1. ASSUME NEW r \in Range(requests), WillTell(worlds, r, "evaluation", "evaluations")
        PROVE  \E q \in Range(requests') : WillTell(worlds, q, "evaluation", "evaluations")
    BY <2>1 DEF GoesOn, WillTell
  <2> QED BY <1>10, <2>1 DEF OverviewInv, RecentKept
<1>12. RecentKept("review", "reviews")'
  <2>1. ASSUME NEW r \in Range(requests), WillTell(worlds, r, "review", "reviews")
        PROVE  \E q \in Range(requests') : WillTell(worlds, q, "review", "reviews")
    BY <2>1 DEF GoesOn, WillTell
  <2> QED BY <1>10, <2>1 DEF OverviewInv, RecentKept
<1> QED BY <1>1, <1>2, <1>3, <1>5, <1>6, <1>8, <1>9, <1>11, <1>12 DEF OverviewInv

(* A request that stays does as much as itself.                            *)
LEMMA GoesOnItself == \A r : GoesOn(r, r)
BY DEF GoesOn

(* The limit in the field is a limit.                                      *)
LEMMA LimitTyped ==
    ASSUME NEW o \in Overviews \cup {Blank}, NEW route
    PROVE  LimitField(route, o) \in Limits
BY DEF LimitField, Overviews, Limits

(* A function that ends leaves the others; a page without an overview may count on
   every function it has left. *)
LEMMA OneLess ==
    ASSUME OverviewInv, NEW i \in DOMAIN requests
    PROVE  /\ RemoveAt(requests, i) \in Seq(OverviewCalls) /\ AtMostOne(RemoveAt(requests, i), "load")
           /\ Range(RemoveAt(requests, i)) \subseteq Range(requests)
           /\ \A r \in Range(requests) : r = requests[i] \/ r \in Range(RemoveAt(requests, i))
           /\ requests[i].kind = "load" =>
                 \A r \in Range(RemoveAt(requests, i)) : r.kind # "load"
<1>1. requests \in Seq(OverviewCalls) /\ AtMostOne(requests, "load")
  BY DEF OverviewInv, OverviewTyped, ReadsFit
<1>2. PICK s : s = RemoveAt(requests, i) OBVIOUS
<1>3. /\ s \in Seq(OverviewCalls) /\ AtMostOne(s, "load") /\ Range(s) \subseteq Range(requests)
      /\ \A j \in DOMAIN requests \ {i} : requests[j] \in Range(s)
      /\ requests[i].kind = "load" => NoneOf(s, "load")
  BY <1>1, <1>2, TaskEnds
<1>4. \A r \in Range(requests) : r = requests[i] \/ r \in Range(s) BY <1>3 DEF Range
<1> QED BY <1>2, <1>3, <1>4 DEF NoneOf, Range

(* The operator types a limit.                                             *)
LEMMA TypingKeeps ==
    ASSUME OverviewInv, NEW limit \in Limits, TypeLimit(limit)
    PROVE  OverviewInv'
<1>1. \A r \in Range(requests) : ReadFits(worlds, overviewRoute, r)
  BY DEF OverviewInv, ReadsFit
<1>2. \A r \in Range(requests) : \E q \in Range(requests) : GoesOn(r, q) BY GoesOnItself
<1>3. requests \in Seq(OverviewCalls) /\ AtMostOne(requests, "load")
      /\ overtaken \subseteq {"limit", "operations", "recent", "error"}
  BY DEF OverviewInv, OverviewTyped, ReadsFit
<1>4. /\ worlds' = worlds /\ news' = news /\ requests' = requests /\ overtaken' = overtaken
      /\ UNCHANGED <<overviewRoute, overview, operationsOverview, overviewError>>
      /\ budgetLimit' \in Limits /\ overview # Blank
  BY DEF TypeLimit, reportedVars
<1> QED BY <1>1, <1>2, <1>3, <1>4, FunctionsGoOn

(* The operator sends the limit.                                           *)
LEMMA CommandKeeps ==
    ASSUME OverviewInv, onUpdateBudgetLimit
    PROVE  OverviewInv'
<1>1. \A r \in Range(requests) : ReadFits(worlds, overviewRoute, r)
  BY DEF OverviewInv, ReadsFit
<1>2. requests \in Seq(OverviewCalls) /\ AtMostOne(requests, "load") /\ budgetLimit \in Limits
      /\ overtaken \subseteq {"limit", "operations", "recent", "error"} /\ OverviewTyped
  BY DEF OverviewInv, OverviewTyped, ReadsFit
<1>3. /\ worlds' = worlds /\ news' = news /\ overtaken' = overtaken
      /\ UNCHANGED <<overviewRoute, overview, operationsOverview, overviewError>>
      /\ budgetLimit' = budgetLimit /\ overview # Blank
  BY DEF onUpdateBudgetLimit, reportedVars
<1>4. PICK b : b = Asked("budget", TRUE, "asked", Blank, budgetLimit) OBVIOUS
<1>5. requests' = Append(requests, b) BY <1>4 DEF onUpdateBudgetLimit
<1>6. /\ Len(worlds) \in Nat \ {0} /\ Len(worlds) \in DOMAIN worlds BY <1>2, WorldAt
<1>7. /\ b \in OverviewCalls /\ ReadFits(worlds, overviewRoute, b) /\ b.kind = "budget"
  BY <1>2, <1>4, <1>6 DEF Asked, OverviewCalls, ReadFits
<1>8. /\ requests' \in Seq(OverviewCalls) /\ AtMostOne(requests', "load")
      /\ Range(requests') = Range(requests) \cup {b}
  BY <1>2, <1>5, <1>7, TaskBegins
<1>9. \A r \in Range(requests) : \E q \in Range(requests') : GoesOn(r, q)
  BY <1>8, GoesOnItself
<1> QED BY <1>1, <1>2, <1>3, <1>7, <1>8, <1>9, FunctionsGoOn

(* The service refuses a limit.                                            *)
LEMMA RefusalKeeps ==
    ASSUME OverviewInv, NEW i \in DOMAIN requests, requests[i].phase = "asked",
           requests' = RemoveAt(requests, i), UNCHANGED <<worlds, news, overtaken>>,
           UNCHANGED <<overviewRoute, overview, operationsOverview, overviewError, budgetLimit>>
    PROVE  OverviewInv'
<1>1. \A r \in Range(requests) : ReadFits(worlds, overviewRoute, r)
  BY DEF OverviewInv, ReadsFit
<1>2. /\ requests' \in Seq(OverviewCalls) /\ AtMostOne(requests', "load")
      /\ Range(requests') \subseteq Range(requests)
      /\ \A r \in Range(requests) : r = requests[i] \/ r \in Range(requests')
  BY OneLess
<1>3. requests[i].kind = "budget" BY <1>1 DEF Range, ReadFits
<1>4. \A r \in Range(requests) :
         \/ \E q \in Range(requests') : GoesOn(r, q)
         \/ r.kind = "budget" /\ r.phase = "asked"
  BY <1>2, <1>3, GoesOnItself
<1>5. overview = Blank /\ "limit" \notin overtaken =>
         \A r \in Range(requests') : WillLimit(worlds, r)
  BY <1>2 DEF OverviewInv, LimitKept
<1>6. budgetLimit \in Limits /\ overtaken \subseteq {"limit", "operations", "recent", "error"}
  BY DEF OverviewInv, OverviewTyped
<1> QED BY <1>1, <1>2, <1>4, <1>5, <1>6, FunctionsGoOn

(* The second part, or what a command wanted to show, cannot be read.      *)
LEMMA FailedReadKeeps ==
    ASSUME OverviewInv, NEW i \in DOMAIN requests, TakeOverviewFailure(i),
           requests[i].kind # "load"
    PROVE  OverviewInv'
<1>1. \A r \in Range(requests) : ReadFits(worlds, overviewRoute, r)
  BY DEF OverviewInv, ReadsFit
<1>2. /\ requests' \in Seq(OverviewCalls) /\ AtMostOne(requests', "load")
      /\ Range(requests') \subseteq Range(requests)
      /\ \A r \in Range(requests) : r = requests[i] \/ r \in Range(requests')
  BY OneLess DEF TakeOverviewFailure
<1>3. requests[i] \in OverviewCalls BY ReadIs DEF OverviewInv
<1>4. /\ UNCHANGED <<worlds, news, overviewRoute, overview, operationsOverview, overviewError,
                     budgetLimit>>
      /\ overtaken' = overtaken
             \cup IF requests[i].kind = "budget" THEN {"limit"} ELSE {"operations"}
  BY DEF TakeOverviewFailure, reportedVars
<1>5. \A r \in Range(requests) :
         \/ \E q \in Range(requests') : GoesOn(r, q)
         \/ r.kind = "operations" /\ "operations" \in overtaken'
         \/ r.kind = "budget" /\ "limit" \in overtaken'
  <2>1. \/ requests[i].kind = "operations" /\ "operations" \in overtaken'
        \/ requests[i].kind = "budget" /\ "limit" \in overtaken'
    BY <1>3, <1>4 DEF OverviewCalls
  <2> QED BY <1>2, <2>1, GoesOnItself
<1>6. overview = Blank /\ "limit" \notin overtaken =>
         \A r \in Range(requests') : WillLimit(worlds, r)
  BY <1>2 DEF OverviewInv, LimitKept
<1>7. /\ budgetLimit \in Limits /\ overtaken \subseteq overtaken'
      /\ overtaken' \subseteq {"limit", "operations", "recent", "error"}
  BY <1>4 DEF OverviewInv, OverviewTyped
<1>8. overview = Blank /\ "limit" \notin overtaken' =>
         \A r \in Range(requests') : WillLimit(worlds, r)
  BY <1>6, <1>7
<1> QED BY <1>1, <1>2, <1>4, <1>5, <1>7, <1>8, FunctionsGoOn

(* The overview is read, and the second part is asked for.                 *)
LEMMA OverviewReadKeeps ==
    ASSUME OverviewInv, NEW i \in DOMAIN requests, TakeOverview(i), requests[i].enabled
    PROVE  OverviewInv'
<1>1. \A r \in Range(requests) : ReadFits(worlds, overviewRoute, r)
  BY DEF OverviewInv, ReadsFit
<1>2. requests \in Seq(OverviewCalls) /\ AtMostOne(requests, "load") /\ budgetLimit \in Limits
      /\ overtaken \subseteq {"limit", "operations", "recent", "error"} /\ OverviewTyped
      /\ ReadsFit /\ OnlyGrow(worlds)
  BY DEF OverviewInv, OverviewTyped, ReadsFit
<1>3. PICK r : r = requests[i] OBVIOUS
<1>4. r \in OverviewCalls /\ ReadFits(worlds, overviewRoute, r) /\ r \in Range(requests)
  BY <1>2, <1>3, ReadIs
<1>5. r.phase = "overview" /\ r.enabled BY <1>3 DEF TakeOverview
<1>6. PICK o \in loadAdminOverview(r.since) :
         requests' = [requests EXCEPT ![i].phase = "operations", ![i].of = o,
                                      ![i].since = Len(worlds)]
  BY <1>3, <1>5 DEF TakeOverview
<1>7. /\ UNCHANGED <<worlds, news, overviewRoute, overview, operationsOverview, overviewError,
                     budgetLimit, overtaken>>
  BY <1>3, <1>5 DEF TakeOverview, reportedVars
<1>8. /\ o \in Overviews /\ OverviewFits(worlds, o) /\ o.budgetAt \in r.since..Len(worlds)
      /\ worlds[r.since].evaluations # <<>> => o.recent.evaluation # "pending"
      /\ worlds[r.since].reviews # <<>> => o.recent.review # "pending"
  BY <1>2, <1>4, OverviewRead DEF ReadFits
<1>9. Len(worlds) \in Nat \ {0} /\ Len(worlds) \in DOMAIN worlds /\ DOMAIN worlds = 1..Len(worlds)
  BY <1>2, WorldAt
<1>10. PICK q : q = [r EXCEPT !.phase = "operations", !.of = o, !.since = Len(worlds)] OBVIOUS
<1>11. /\ q \in OverviewCalls /\ q.kind = r.kind /\ q.phase = "operations" /\ q.of = o
       /\ q.since = Len(worlds) /\ q.enabled = r.enabled
  BY <1>4, <1>8, <1>9, <1>10 DEF OverviewCalls
<1>12. requests' = [requests EXCEPT ![i] = q] BY <1>3, <1>6, <1>10
<1>13. /\ requests' \in Seq(OverviewCalls) /\ AtMostOne(requests', "load")
       /\ \A x \in Range(requests') : x = q \/ \E j \in DOMAIN requests \ {i} : x = requests[j]
       /\ q \in Range(requests')
       /\ \A j \in DOMAIN requests \ {i} : requests[j] \in Range(requests')
  <2>1. q.kind = requests[i].kind BY <1>3, <1>11
  <2> HIDE <1>12
  <2>2. /\ [requests EXCEPT ![i] = q] \in Seq(OverviewCalls)
        /\ \A x \in Range([requests EXCEPT ![i] = q]) :
              x = q \/ \E j \in DOMAIN requests \ {i} : x = requests[j]
        /\ q \in Range([requests EXCEPT ![i] = q])
        /\ \A j \in DOMAIN requests \ {i} : requests[j] \in Range([requests EXCEPT ![i] = q])
        /\ \A k : NoneOf([requests EXCEPT ![i] = q], k) <=> NoneOf(requests, k)
        /\ \A k : AtMostOne([requests EXCEPT ![i] = q], k) <=> AtMostOne(requests, k)
    BY <1>2, <1>11, <2>1, TaskGoesOn
  <2> QED BY <1>2, <1>12, <2>2
<1>15. ReadFits(worlds, overviewRoute, q)
  BY <1>4, <1>5, <1>8, <1>9, <1>11, BlankShowsNothing DEF ReadFits
<1>16. GoesOn(r, q)
  <2>1. \A field : WillRead(worlds, r, field) => WillRead(worlds, q, field)
    <3>1. \A field : Unchanged(worlds, field, Len(worlds)) BY <1>9 DEF Unchanged
    <3> QED BY <1>5, <1>11, <3>1 DEF WillRead
  <2>2. WillLimit(worlds, r) => WillLimit(worlds, q)
    <3>1. Unchanged(worlds, "limit", r.since) => Unchanged(worlds, "limit", o.budgetAt)
      <4>1. r.since \in Nat /\ o.budgetAt \in Nat /\ o.budgetAt >= r.since
        BY <1>4, <1>8, <1>9 DEF OverviewCalls
      <4>2. \A m \in o.budgetAt..Len(worlds) : m \in r.since..Len(worlds) BY <1>9, <4>1
      <4> QED BY <4>2 DEF Unchanged
    <3> QED BY <1>5, <1>11, <3>1 DEF WillLimit
  <2>3. /\ WillTell(worlds, r, "evaluation", "evaluations")
             => WillTell(worlds, q, "evaluation", "evaluations")
        /\ WillTell(worlds, r, "review", "reviews") => WillTell(worlds, q, "review", "reviews")
    BY <1>5, <1>8, <1>11 DEF WillTell
  <2> QED BY <1>11, <2>1, <2>2, <2>3 DEF GoesOn
<1>17. \A x \in Range(requests) : \E y \in Range(requests') : GoesOn(x, y)
  <2>1. ASSUME NEW j \in DOMAIN requests
        PROVE  \E y \in Range(requests') : GoesOn(requests[j], y)
    <3>1. CASE j = i BY <1>3, <1>13, <1>16, <3>1
    <3>2. CASE j # i BY <1>13, <3>2, GoesOnItself
    <3> QED BY <3>1, <3>2
  <2> QED BY <2>1 DEF Range
<1>18. ASSUME NEW x \in Range(requests')
       PROVE  /\ ReadFits(worlds, overviewRoute, x)
              /\ overview # Blank \/ \E y \in Range(requests) : y.kind = x.kind
              /\ overview = Blank /\ "limit" \notin overtaken' => WillLimit(worlds, x)
  <2>1. CASE x = q
    <3>1. overview = Blank /\ "limit" \notin overtaken => WillLimit(worlds, r)
      BY <1>4 DEF OverviewInv, LimitKept
    <3> QED BY <1>4, <1>7, <1>11, <1>15, <1>16, <2>1, <3>1 DEF GoesOn
  <2>2. CASE \E j \in DOMAIN requests \ {i} : x = requests[j]
    <3>1. x \in Range(requests) BY <2>2 DEF Range
    <3>2. overview = Blank /\ "limit" \notin overtaken => WillLimit(worlds, x)
      BY <3>1 DEF OverviewInv, LimitKept
    <3> QED BY <1>1, <1>7, <3>1, <3>2
  <2> QED BY <1>13, <2>1, <2>2
<1> QED BY <1>2, <1>7, <1>13, <1>17, <1>18, FunctionsGoOn

-----------------------------------------------------------------------------
(* What a report leaves as it was.                                         *)
OneMore(w, x, v) ==
    /\ v \in Seq(Worlds) /\ v # <<>> /\ Len(v) = Len(w) + 1 /\ v[Len(v)] = x
    /\ Len(v) \in DOMAIN v /\ Len(v) \in Nat \ {0}
    /\ \A n \in DOMAIN w : n \in DOMAIN v /\ v[n] = w[n]
    /\ \A field : x[field] = w[Len(w)][field] =>
          \A n \in DOMAIN w : Unchanged(w, field, n) => Unchanged(v, field, n)
    /\ \A field : Unchanged(v, field, Len(v))
    /\ \A o : OverviewFits(w, o) => OverviewFits(v, o)
    /\ \A p : OperationsFits(w, p) => OperationsFits(v, p)
    /\ \A route, r : ReadFits(w, route, r) => ReadFits(v, route, r)

(* A state appended to the states of the server is one more.               *)
LEMMA OneMoreWorld ==
    ASSUME NEW w \in Seq(Worlds), w # <<>>, NEW x \in Worlds
    PROVE  OneMore(w, x, Append(w, x))
<1> DEFINE v == Append(w, x)
<1>1. Len(w) \in Nat \ {0} /\ DOMAIN w = 1..Len(w) BY LenProperties, EmptySeq
<1>2. /\ v \in Seq(Worlds) /\ Len(v) = Len(w) + 1 /\ v[Len(w) + 1] = x
      /\ \A n \in 1..Len(w) : v[n] = w[n]
  BY AppendProperties
<1>3. DOMAIN v = 1..Len(w) + 1 BY <1>2, LenProperties
<1> HIDE DEF v
<1>4. v # <<>> BY <1>1, <1>2, EmptySeq
<1>5. \A n \in DOMAIN w : n \in DOMAIN v /\ v[n] = w[n] BY <1>1, <1>2, <1>3
<1>6. ASSUME NEW field, x[field] = w[Len(w)][field], NEW n \in DOMAIN w, Unchanged(w, field, n)
      PROVE  Unchanged(v, field, n)
  <2>1. \A m \in n..Len(w) + 1 : m \in n..Len(w) \/ m = Len(w) + 1 BY <1>1
  <2>2. \A m \in n..Len(w) : m \in 1..Len(w) BY <1>1
  <2>3. v[Len(v)] = x BY <1>2
  <2> QED BY <1>2, <1>6, <2>1, <2>2, <2>3 DEF Unchanged
<1>7. \A field : Unchanged(v, field, Len(v))
  <2>1. Len(v) \in Nat /\ \A m \in Len(v)..Len(v) : m = Len(v) BY <1>1, <1>2
  <2> QED BY <2>1 DEF Unchanged
<1>8. \A o : OverviewFits(w, o) => OverviewFits(v, o) BY <1>5 DEF OverviewFits
<1>9. \A p : OperationsFits(w, p) => OperationsFits(v, p) BY <1>5 DEF OperationsFits
<1>10. \A route, r : ReadFits(w, route, r) => ReadFits(v, route, r)
  BY <1>5, <1>8 DEF ReadFits
<1>11. OneMore(w, x, v)
  BY <1>1, <1>2, <1>3, <1>4, <1>5, <1>6, <1>7, <1>8, <1>9, <1>10 DEF OneMore
<1> QED BY <1>11 DEF v

(* A step that reports: what changed has its event on the way, but the limit, which
   slips or which the command that changed it will read. *)
LEMMA ReportKeeps ==
    ASSUME OverviewInv, NEW x \in Worlds, worlds' = Append(worlds, x), Len(worlds) <= MaxReports,
           NEW events \in Seq(News), Len(events) <= 1, news' = news \o events,
           x.run = Latest.run \/ EventComing(events, "workflow") \/ "operations" \in overtaken',
           x.batch = Latest.batch \/ EventComing(events, "asset"),
           x.evaluations = Latest.evaluations
             \/ (x.evaluations # <<>> /\ EventComing(events, "evaluation")),
           x.reviews = Latest.reviews \/ (x.reviews # <<>> /\ EventComing(events, "review")),
           \/ x.limit = Latest.limit \/ "limit" \in overtaken'
           \/ /\ \E r \in Range(requests') : WillLimit(worlds', r)
              /\ \E r \in Range(requests) : r.kind = "budget",
           UNCHANGED <<overviewRoute, overview, operationsOverview, overviewError, budgetLimit>>,
           overtaken \subseteq overtaken',
           overtaken' \subseteq {"limit", "operations", "recent", "error"},
           requests' \in Seq(OverviewCalls), AtMostOne(requests', "load"),
           \A r \in Range(requests') :
              \/ r \in Range(requests)
              \/ /\ r.kind = "budget" /\ ReadFits(worlds', overviewRoute, r)
                 /\ WillLimit(worlds', r)
                 /\ \E q \in Range(requests) : q.kind = "budget",
           \A r \in Range(requests) :
              r \in Range(requests') \/ (r.kind = "budget" /\ r.phase = "asked")
    PROVE  OverviewInv'
<1>1. OverviewTyped /\ ReadsFit BY DEF OverviewInv
<1>2. worlds \in Seq(Worlds) /\ worlds # <<>> BY <1>1 DEF OverviewTyped
<1>3. /\ Len(worlds) \in Nat \ {0} /\ DOMAIN worlds = 1..Len(worlds)
      /\ Len(worlds) \in DOMAIN worlds
  BY <1>1, WorldAt
<1>4. PICK v : v = worlds' OBVIOUS
<1>5. /\ v \in Seq(Worlds) /\ v # <<>> /\ Len(v) = Len(worlds) + 1 /\ v[Len(v)] = x
      /\ Len(v) \in DOMAIN v /\ Len(v) \in Nat \ {0}
      /\ \A n \in DOMAIN worlds : n \in DOMAIN v /\ v[n] = worlds[n]
      /\ \A field : x[field] = worlds[Len(worlds)][field] =>
            \A n \in DOMAIN worlds : Unchanged(worlds, field, n) => Unchanged(v, field, n)
      /\ \A field : Unchanged(v, field, Len(v))
      /\ \A o : OverviewFits(worlds, o) => OverviewFits(v, o)
      /\ \A p : OperationsFits(worlds, p) => OperationsFits(v, p)
      /\ \A route, r : ReadFits(worlds, route, r) => ReadFits(v, route, r)
  <2>1. OneMore(worlds, x, Append(worlds, x)) BY <1>2, OneMoreWorld
  <2>2. OneMore(worlds, x, v) BY <1>4, <2>1
  <2> QED BY <2>2 DEF OneMore
<1>6. PICK n2 : n2 = news' OBVIOUS
<1>7. /\ n2 \in Seq(News) /\ Len(n2) = Len(news) + Len(events)
      /\ Range(n2) = Range(news) \cup Range(events)
  <2>1. news \in Seq(News) BY <1>1 DEF OverviewTyped
  <2> QED BY <1>6, <2>1, ConcatProperties, RangeConcatenation
<1>8. \A kind : /\ EventComing(news, kind) => EventComing(n2, kind)
                /\ EventComing(events, kind) => EventComing(n2, kind)
  BY <1>7 DEF EventComing
<1>9. OverviewTyped'
  <2>1. Len(events) \in Nat /\ Len(news) \in Nat /\ MaxReports \in Nat
    BY <1>1, OverviewBounds, LenProperties DEF OverviewTyped
  <2>2. Len(n2) < Len(v) /\ Len(v) <= MaxReports + 1
    BY <1>1, <1>3, <1>5, <1>7, <2>1 DEF OverviewTyped
  <2> QED BY <1>1, <1>4, <1>5, <1>6, <1>7, <2>2 DEF OverviewTyped
<1>10. ReadsFit'
  <2>1. \A r \in Range(requests') : ReadFits(v, overviewRoute, r)
    BY <1>1, <1>4, <1>5 DEF ReadsFit
  <2> QED BY <1>1, <1>4, <1>5, <2>1 DEF ReadsFit
<1>11. OnlyGrow(v)
  <2>1. /\ worlds[Len(worlds)].evaluations # <<>> => x.evaluations # <<>>
        /\ worlds[Len(worlds)].reviews # <<>> => x.reviews # <<>>
    BY DEF Latest
  <2>2. OnlyGrow(worlds) BY DEF OverviewInv
  <2>3. ASSUME NEW n \in DOMAIN worlds
        PROVE  /\ worlds[n].evaluations # <<>> => x.evaluations # <<>>
               /\ worlds[n].reviews # <<>> => x.reviews # <<>>
    <3>1. n \in 1..Len(worlds) BY <1>3
    <3> QED BY <1>3, <2>1, <2>2, <3>1 DEF OnlyGrow
  <2>4. DOMAIN v = 1..Len(worlds) + 1 BY <1>5, LenProperties
  <2>5. ASSUME NEW m \in DOMAIN v, NEW n \in 1..m
        PROVE  /\ v[n].evaluations # <<>> => v[m].evaluations # <<>>
               /\ v[n].reviews # <<>> => v[m].reviews # <<>>
    <3>1. CASE m = Len(worlds) + 1
      <4>1. n \in DOMAIN worlds \/ n = m BY <1>3, <2>4, <3>1
      <4> QED BY <1>5, <2>3, <3>1, <4>1
    <3>2. CASE m # Len(worlds) + 1
      <4>1. m \in DOMAIN worlds /\ n \in DOMAIN worlds BY <1>3, <2>4, <3>2
      <4> QED BY <1>5, <2>2, <4>1 DEF OnlyGrow
    <3> QED BY <3>1, <3>2
  <2> QED BY <2>5 DEF OnlyGrow
<1>12. Loading(requests) => Loading(requests') BY DEF Loading
<1>13. ErrorTold' BY <1>12 DEF OverviewInv, ErrorTold
<1>14. NothingLands'
  <2>1. \A r \in Range(requests') : \E q \in Range(requests) : q.kind = r.kind OBVIOUS
  <2> QED BY <2>1 DEF OverviewInv, NothingLands
<1>15. ASSUME NEW field, x[field] = worlds[Len(worlds)][field], NEW r \in Range(requests),
              WillRead(worlds, r, field)
       PROVE  \E q \in Range(requests') : WillRead(v, q, field)
  <2>1. r.kind # "budget" BY <1>15 DEF WillRead
  <2>2. r.since \in DOMAIN worlds BY <1>1 DEF ReadsFit, ReadFits
  <2>3. WillRead(v, r, field) BY <1>5, <1>15, <2>2 DEF WillRead
  <2> QED BY <2>1, <2>3
<1>16. OperationsKept'
  <2> SUFFICES ASSUME overviewRoute, "operations" \notin overtaken',
                      overview # Blank \/ Loading(requests')
               PROVE  /\ PartKept("run", "workflow", operationsOverview, operationsOverview.runAt)'
                      /\ PartKept("batch", "asset", operationsOverview, operationsOverview.batchAt)'
                      /\ \/ Loading(requests')
                         \/ operationsOverview # Blank /\ Derived(operationsOverview, overview)
    BY DEF OperationsKept
  <2>1. /\ PartKept("run", "workflow", operationsOverview, operationsOverview.runAt)
        /\ PartKept("batch", "asset", operationsOverview, operationsOverview.batchAt)
        /\ \/ Loading(requests)
           \/ operationsOverview # Blank /\ Derived(operationsOverview, overview)
    <3>1. \A r \in Range(requests') : r.kind = "load" => r \in Range(requests) OBVIOUS
    <3>2. overview # Blank \/ Loading(requests) BY <3>1 DEF Loading
    <3> QED BY <3>2 DEF OverviewInv, OperationsKept
  <2>2. operationsOverview # Blank =>
          operationsOverview.runAt \in DOMAIN worlds /\ operationsOverview.batchAt \in DOMAIN worlds
    BY <1>1 DEF ReadsFit, OperationsFits
  <2>3. PartKept("run", "workflow", operationsOverview, operationsOverview.runAt)'
    <3>1. CASE EventComing(n2, "workflow") BY <1>6, <3>1 DEF PartKept
    <3>2. CASE ~EventComing(n2, "workflow")
      <4>1. x["run"] = worlds[Len(worlds)]["run"]
        <5>1. ~EventComing(events, "workflow") BY <1>8, <3>2
        <5>2. x.run = Latest.run BY <5>1
        <5> QED BY <5>2 DEF Latest
      <4> QED BY <1>4, <1>5, <1>8, <1>15, <2>1, <2>2, <3>2, <4>1 DEF PartKept
    <3> QED BY <3>1, <3>2
  <2>4. PartKept("batch", "asset", operationsOverview, operationsOverview.batchAt)'
    <3>1. CASE EventComing(n2, "asset") BY <1>6, <3>1 DEF PartKept
    <3>2. CASE ~EventComing(n2, "asset")
      <4>1. x["batch"] = worlds[Len(worlds)]["batch"] BY <1>8, <3>2 DEF Latest
      <4> QED BY <1>4, <1>5, <1>8, <1>15, <2>1, <2>2, <3>2, <4>1 DEF PartKept
    <3> QED BY <3>1, <3>2
  <2> QED BY <1>12, <2>1, <2>3, <2>4
<1>17. ASSUME x["limit"] = worlds[Len(worlds)]["limit"], NEW r \in Range(requests),
              WillLimit(worlds, r)
       PROVE  WillLimit(v, r)
  <2>1. /\ r.since \in DOMAIN worlds
        /\ r.phase = "operations" => r.of.budgetAt \in DOMAIN worlds
    BY <1>1 DEF ReadsFit, ReadFits, OverviewFits
  <2> QED BY <1>5, <1>17, <2>1 DEF WillLimit
<1>18. LimitKept'
  <2> SUFFICES ASSUME "limit" \notin overtaken'
               PROVE  IF overview = Blank THEN \A r \in Range(requests') : WillLimit(v, r)
                      ELSE \/ Unchanged(v, "limit", overview.budgetAt)
                           \/ \E r \in Range(requests') : WillLimit(v, r)
    BY <1>4 DEF LimitKept
  <2>1. IF overview = Blank THEN \A r \in Range(requests) : WillLimit(worlds, r)
        ELSE \/ Unchanged(worlds, "limit", overview.budgetAt)
             \/ \E r \in Range(requests) : WillLimit(worlds, r)
    BY DEF OverviewInv, LimitKept
  <2>2. CASE x.limit = Latest.limit
    <3>1. x["limit"] = worlds[Len(worlds)]["limit"] BY <2>2 DEF Latest
    <3>2. overview # Blank => overview.budgetAt \in DOMAIN worlds
      BY <1>1 DEF ReadsFit, OverviewFits
    <3>3. \A r \in Range(requests) : WillLimit(worlds, r) => WillLimit(v, r) BY <1>17, <3>1
    <3>4. \A r \in Range(requests) : WillLimit(worlds, r) => r \in Range(requests')
      BY DEF WillLimit
    <3> QED BY <1>4, <1>5, <2>1, <3>1, <3>2, <3>3, <3>4
  <2>3. CASE x.limit # Latest.limit
    <3>1. /\ \E r \in Range(requests') : WillLimit(v, r)
          /\ \E r \in Range(requests) : r.kind = "budget"
      BY <1>4, <2>3
    <3>2. overview # Blank BY <3>1 DEF OverviewInv, NothingLands
    <3> QED BY <3>1, <3>2
  <2> QED BY <2>2, <2>3
<1>19. ASSUME NEW kind, NEW reports, NEW r \in Range(requests), WillTell(worlds, r, kind, reports)
       PROVE  \E q \in Range(requests') : WillTell(v, q, kind, reports)
  <2>1. r.kind # "budget" /\ r.since \in DOMAIN worlds
    BY <1>1, <1>19 DEF WillTell, ReadsFit, ReadFits
  <2>2. WillTell(v, r, kind, reports) BY <1>5, <1>19, <2>1 DEF WillTell
  <2> QED BY <2>1, <2>2
<1>20. overview = Blank /\ requests = <<>> => requests' = <<>>
  <2>1. requests = <<>> => Range(requests) = {} BY DEF Range
  <2>2. requests = <<>> => Range(requests') = {} BY <2>1
  <2> QED BY <2>2, NoneRuns
<1>21. RecentKept("evaluation", "evaluations")'
  <2> SUFFICES ASSUME "recent" \notin overtaken', x["evaluations"] # <<>>,
                      ~EventComing(n2, "evaluation")
               PROVE  \/ overview # Blank /\ overview.recent["evaluation"] # "pending"
                      \/ \E r \in Range(requests') : WillTell(v, r, "evaluation", "evaluations")
                      \/ overview = Blank /\ requests' = <<>>
    BY <1>4, <1>5, <1>6 DEF RecentKept
  <2>1. worlds[Len(worlds)]["evaluations"] # <<>> BY <1>8 DEF Latest
  <2> QED BY <1>8, <1>19, <1>20, <2>1 DEF OverviewInv, RecentKept
<1>22. RecentKept("review", "reviews")'
  <2> SUFFICES ASSUME "recent" \notin overtaken', x["reviews"] # <<>>, ~EventComing(n2, "review")
               PROVE  \/ overview # Blank /\ overview.recent["review"] # "pending"
                      \/ \E r \in Range(requests') : WillTell(v, r, "review", "reviews")
                      \/ overview = Blank /\ requests' = <<>>
    BY <1>4, <1>5, <1>6 DEF RecentKept
  <2>1. worlds[Len(worlds)]["reviews"] # <<>> BY <1>8 DEF Latest
  <2> QED BY <1>8, <1>19, <1>20, <2>1 DEF OverviewInv, RecentKept
<1> QED BY <1>4, <1>9, <1>10, <1>11, <1>13, <1>14, <1>16, <1>18, <1>21, <1>22 DEF OverviewInv

(* The latest state of the server is one.                                  *)
LEMMA LatestIs ==
    ASSUME OverviewInv
    PROVE  Latest \in Worlds
BY WorldAt DEF OverviewInv

(* One event.                                                              *)
LEMMA EventIs ==
    ASSUME NEW e \in News
    PROVE  /\ <<e>> \in Seq(News) /\ Len(<<e>>) = 1 /\ Range(<<e>>) = {e}
           /\ EventComing(<<e>>, e.kind)
<1>1. <<e>> \in Seq(News) /\ Len(<<e>>) = 1 /\ DOMAIN <<e>> = {1} /\ <<e>>[1] = e OBVIOUS
<1>2. Range(<<e>>) = {e} BY <1>1 DEF Range
<1> QED BY <1>1, <1>2 DEF EventComing

(* No event is a sequence of events.                                       *)
LEMMA NoEvent == <<>> \in Seq(News) /\ Len(<<>>) = 0
BY EmptySeq

(* An evaluation or a review more.                                         *)
LEMMA OneListed ==
    ASSUME NEW S, NEW reports \in Seq([id : 1..MaxReports, says : S]), NEW says \in S,
           NEW id \in FreeIds(reports)
    PROVE  /\ Append(reports, [id |-> id, says |-> says]) \in Seq([id : 1..MaxReports, says : S])
           /\ Append(reports, [id |-> id, says |-> says]) # <<>>
<1>1. id \in 1..MaxReports BY DEF FreeIds
<1>2. [id |-> id, says |-> says] \in [id : 1..MaxReports, says : S] BY <1>1
<1>3. PICK t : t = Append(reports, [id |-> id, says |-> says]) OBVIOUS
<1>4. t \in Seq([id : 1..MaxReports, says : S]) /\ Len(t) = Len(reports) + 1
  BY <1>2, <1>3, AppendProperties
<1>5. Len(reports) \in Nat BY LenProperties
<1>6. t # <<>> BY <1>4, <1>5, EmptySeq
<1> QED BY <1>3, <1>4, <1>6

(* What others report: everything that changes is an event, but the limit  *)
(* and a run that is moved in silence.                                     *)
Reports(x, events) ==
    /\ Report(x, events) /\ Len(events) <= 1
    /\ x.run = Latest.run \/ EventComing(events, "workflow") \/ events = <<>>
    /\ x.batch = Latest.batch \/ EventComing(events, "asset")
    /\ \/ x.evaluations = Latest.evaluations
       \/ x.evaluations # <<>> /\ EventComing(events, "evaluation")
    /\ \/ x.reviews = Latest.reviews
       \/ x.reviews # <<>> /\ EventComing(events, "review")

(* A change of one thing that its event tells of is reported.              *)
LEMMA OneEventReports ==
    ASSUME NEW x \in Worlds, NEW e \in News, Report(x, <<e>>),
           x.run = Latest.run \/ e.kind = "workflow",
           x.batch = Latest.batch \/ e.kind = "asset",
           x.evaluations = Latest.evaluations
             \/ (x.evaluations # <<>> /\ e.kind = "evaluation"),
           x.reviews = Latest.reviews \/ (x.reviews # <<>> /\ e.kind = "review")
    PROVE  \E y \in Worlds, events \in Seq(News) : Reports(y, events)
<1>1. <<e>> \in Seq(News) /\ Len(<<e>>) = 1 /\ EventComing(<<e>>, e.kind) BY EventIs
<1>2. PICK events : events = <<e>> OBVIOUS
<1>3. events \in Seq(News) /\ Len(events) <= 1 /\ EventComing(events, e.kind) BY <1>1, <1>2
<1>4. Report(x, events) BY <1>2
<1>5. Reports(x, events) BY <1>3, <1>4 DEF Reports
<1> QED BY <1>3, <1>5

(* What others do on the server is reported.                               *)
LEMMA OthersReports ==
    ASSUME OverviewInv, OthersReport
    PROVE  \E x \in Worlds, events \in Seq(News) : Reports(x, events)
<1>1. CASE \E limit \in Limits : limit # Latest.limit /\ SetProjectBudget(limit)
  <2>1. PICK limit \in Limits : limit > 0
            /\ Report([Latest EXCEPT !.limit = limit], About("billing", "updated"))
    BY <1>1 DEF SetProjectBudget
  <2>2. PICK x : x = [Latest EXCEPT !.limit = limit] OBVIOUS
  <2>3. /\ x \in Worlds /\ x.run = Latest.run /\ x.batch = Latest.batch
        /\ x.evaluations = Latest.evaluations /\ x.reviews = Latest.reviews
    <3>1. Latest \in Worlds /\ limit \in Limits \ {0} BY LatestIs, <2>1 DEF Limits
    <3> QED BY <2>2, <3>1 DEF Worlds
  <2>4. PICK e : e = [kind |-> "billing", says |-> "updated"] OBVIOUS
  <2>5. e \in News BY <2>4 DEF News
  <2>6. Report(x, <<e>>) BY <2>1, <2>2, <2>4 DEF About
  <2> QED BY <2>3, <2>5, <2>6, OneEventReports
<1>2. CASE \E id \in 1..MaxReports : \E says \in {"approved", "rejected"} :
              CreateShotReview(id, says)
  <2>1. PICK id \in 1..MaxReports, says \in {"approved", "rejected"} :
            /\ id \in FreeIds(Latest.reviews)
            /\ Report([Latest EXCEPT !.reviews = Append(@, [id |-> id, says |-> says])],
                      About("review", says))
    BY <1>2 DEF CreateShotReview
  <2>2. PICK reports : reports = Append(Latest.reviews, [id |-> id, says |-> says]) OBVIOUS
  <2>3. PICK x : x = [Latest EXCEPT !.reviews = reports] OBVIOUS
  <2>4. reports \in Seq([id : 1..MaxReports, says : {"approved", "rejected"}]) /\ reports # <<>>
    <3>1. Latest.reviews \in Seq([id : 1..MaxReports, says : {"approved", "rejected"}])
      BY LatestIs DEF Worlds
    <3> QED BY <2>1, <2>2, <3>1, OneListed
  <2>5. /\ x \in Worlds /\ x.run = Latest.run /\ x.batch = Latest.batch
        /\ x.evaluations = Latest.evaluations /\ x.reviews = reports
    BY LatestIs, <2>3, <2>4 DEF Worlds
  <2>6. PICK e : e = [kind |-> "review", says |-> says] OBVIOUS
  <2>7. e \in News /\ e.kind = "review" BY <2>6 DEF News
  <2>8. Report(x, <<e>>) BY <2>1, <2>2, <2>3, <2>6 DEF About
  <2> QED BY <2>4, <2>5, <2>7, <2>8, OneEventReports
<1>3. CASE \E id \in 1..MaxReports : \E says \in {"passed", "failed"} :
              CreateEvaluationRun(id, says)
  <2>1. PICK id \in 1..MaxReports, says \in {"passed", "failed"} :
            /\ id \in FreeIds(Latest.evaluations)
            /\ Report([Latest EXCEPT !.evaluations = Append(@, [id |-> id, says |-> says])],
                      About("evaluation", says))
    BY <1>3 DEF CreateEvaluationRun
  <2>2. PICK reports : reports = Append(Latest.evaluations, [id |-> id, says |-> says]) OBVIOUS
  <2>3. PICK x : x = [Latest EXCEPT !.evaluations = reports] OBVIOUS
  <2>4. reports \in Seq([id : 1..MaxReports, says : {"passed", "failed"}]) /\ reports # <<>>
    <3>1. Latest.evaluations \in Seq([id : 1..MaxReports, says : {"passed", "failed"}])
      BY LatestIs DEF Worlds
    <3> QED BY <2>1, <2>2, <3>1, OneListed
  <2>5. /\ x \in Worlds /\ x.run = Latest.run /\ x.batch = Latest.batch
        /\ x.evaluations = reports /\ x.reviews = Latest.reviews
    BY LatestIs, <2>3, <2>4 DEF Worlds
  <2>6. PICK e : e = [kind |-> "evaluation", says |-> says] OBVIOUS
  <2>7. e \in News /\ e.kind = "evaluation" BY <2>6 DEF News
  <2>8. Report(x, <<e>>) BY <2>1, <2>2, <2>3, <2>6 DEF About
  <2> QED BY <2>4, <2>5, <2>7, <2>8, OneEventReports
<1>4. CASE ChargeRun
  <2>1. PICK x : x = [Latest EXCEPT !.reserved = @ + 1] OBVIOUS
  <2>2. Latest \in Worlds /\ Latest.reserved + 1 \in Nat BY LatestIs DEF Worlds
  <2>3. /\ x \in Worlds /\ x.run = Latest.run /\ x.batch = Latest.batch
        /\ x.evaluations = Latest.evaluations /\ x.reviews = Latest.reviews
    BY <2>1, <2>2 DEF Worlds
  <2>4. PICK events : events = <<>> OBVIOUS
  <2>5. events \in Seq(News) /\ Len(events) <= 1 BY <2>4, NoEvent
  <2>6. Report(x, events) BY <1>4, <2>1, <2>4 DEF ChargeRun
  <2>7. Reports(x, events) BY <2>3, <2>5, <2>6 DEF Reports
  <2> QED BY <2>3, <2>5, <2>7
<1>5. CASE \E to \in {"running", "failed"} : MoveRun(to)
  <2>1. PICK to \in {"running", "failed"} :
            \E events \in {About("workflow", to), <<>>} :
               Report([Latest EXCEPT !.run = to], events)
    BY <1>5 DEF MoveRun
  <2>2. PICK x : x = [Latest EXCEPT !.run = to] OBVIOUS
  <2>3. /\ x \in Worlds /\ x.batch = Latest.batch
        /\ x.evaluations = Latest.evaluations /\ x.reviews = Latest.reviews
    BY LatestIs, <2>2 DEF Worlds
  <2>4. PICK e : e = [kind |-> "workflow", says |-> to] OBVIOUS
  <2>5. e \in News /\ e.kind = "workflow" BY <2>4 DEF News
  <2>6. Report(x, <<e>>) \/ Report(x, <<>>) BY <2>1, <2>2, <2>4 DEF About
  <2>7. CASE Report(x, <<e>>) BY <2>3, <2>5, <2>7, OneEventReports
  <2>8. CASE Report(x, <<>>)
    <3>1. PICK events : events = <<>> OBVIOUS
    <3>2. events \in Seq(News) /\ Len(events) <= 1 BY <3>1, NoEvent
    <3>3. Reports(x, events) BY <2>3, <2>8, <3>1, <3>2 DEF Reports
    <3> QED BY <2>3, <3>2, <3>3
  <2> QED BY <2>6, <2>7, <2>8
<1>6. CASE \E to \in {"uploaded", "confirmed"} : MoveBatch(to)
  <2>1. PICK to \in {"uploaded", "confirmed"} :
            Report([Latest EXCEPT !.batch = to], About("asset", to))
    BY <1>6 DEF MoveBatch
  <2>2. PICK x : x = [Latest EXCEPT !.batch = to] OBVIOUS
  <2>3. /\ x \in Worlds /\ x.run = Latest.run
        /\ x.evaluations = Latest.evaluations /\ x.reviews = Latest.reviews
    BY LatestIs, <2>2 DEF Worlds
  <2>4. PICK e : e = [kind |-> "asset", says |-> to] OBVIOUS
  <2>5. e \in News /\ e.kind = "asset" BY <2>4 DEF News
  <2>6. Report(x, <<e>>) BY <2>1, <2>2, <2>4 DEF About
  <2> QED BY <2>3, <2>5, <2>6, OneEventReports
<1> QED BY <1>1, <1>2, <1>3, <1>4, <1>5, <1>6 DEF OthersReport

(* The others change the server.                                           *)
LEMMA OthersReportKeeps ==
    ASSUME OverviewInv, OthersReport
    PROVE  OverviewInv'
<1>1. Latest \in Worlds BY LatestIs
<1>2. /\ requests \in Seq(OverviewCalls) /\ AtMostOne(requests, "load") /\ OverviewTyped
      /\ overtaken \subseteq {"limit", "operations", "recent", "error"}
  BY DEF OverviewInv, OverviewTyped, ReadsFit
<1>3. /\ UNCHANGED <<overviewRoute, overview, operationsOverview, overviewError, budgetLimit>>
      /\ requests' = requests
      /\ overtaken' = overtaken
            \cup (IF Latest.limit # worlds'[Len(worlds')].limit THEN {"limit"} ELSE {})
            \cup (IF Latest.run # worlds'[Len(worlds')].run /\ news' = news
                  THEN {"operations"} ELSE {})
  BY DEF OthersReport
<1>4. PICK x \in Worlds, events \in Seq(News) : Reports(x, events) BY OthersReports
<1>5. /\ worlds' = Append(worlds, x) /\ news' = news \o events /\ Len(worlds) <= MaxReports
      /\ Len(events) <= 1
      /\ x.run = Latest.run \/ EventComing(events, "workflow") \/ events = <<>>
      /\ x.batch = Latest.batch \/ EventComing(events, "asset")
      /\ \/ x.evaluations = Latest.evaluations
         \/ x.evaluations # <<>> /\ EventComing(events, "evaluation")
      /\ \/ x.reviews = Latest.reviews
         \/ x.reviews # <<>> /\ EventComing(events, "review")
  BY <1>4 DEF Reports, Report
<1>6. worlds'[Len(worlds')] = x
  <2>1. worlds \in Seq(Worlds) /\ worlds # <<>> BY <1>2 DEF OverviewTyped
  <2> QED BY <1>5, <2>1, AppendProperties
<1>7. /\ x.limit = Latest.limit \/ "limit" \in overtaken'
      /\ overtaken \subseteq overtaken'
      /\ overtaken' \subseteq {"limit", "operations", "recent", "error"}
  BY <1>2, <1>3, <1>6
<1>8. x.run = Latest.run \/ EventComing(events, "workflow") \/ "operations" \in overtaken'
  <2>1. news \in Seq(News) BY <1>2 DEF OverviewTyped
  <2>2. events = <<>> => news' = news
    <3>1. ASSUME events = <<>> PROVE news \o events = news BY <2>1, <3>1, ConcatEmptySeq
    <3> QED BY <1>5, <3>1
  <2>3. CASE x.run # Latest.run /\ events = <<>> BY <1>3, <1>6, <2>2, <2>3
  <2> QED BY <1>5, <2>3
<1> QED BY <1>2, <1>3, <1>5, <1>7, <1>8, ReportKeeps

(* The command sets the limit: it goes on to read it, or its answer is lost. *)
LEMMA CommandSetsLimit ==
    ASSUME OverviewInv, NEW i \in DOMAIN requests, ServeBudget(i)
    PROVE  OverviewInv'
<1>1. Latest \in Worlds /\ OverviewTyped /\ ReadsFit BY LatestIs DEF OverviewInv
<1>2. /\ requests \in Seq(OverviewCalls) /\ AtMostOne(requests, "load")
      /\ overtaken \subseteq {"limit", "operations", "recent", "error"}
      /\ worlds \in Seq(Worlds) /\ worlds # <<>>
  BY <1>1 DEF OverviewTyped, ReadsFit
<1>3. PICK r : r = requests[i] OBVIOUS
<1>4. r \in OverviewCalls /\ ReadFits(worlds, overviewRoute, r) /\ r \in Range(requests)
  BY <1>1, <1>3, ReadIs
<1>5. /\ r.phase = "asked"
      /\ UNCHANGED <<overviewRoute, overview, operationsOverview, overviewError, budgetLimit>>
  BY <1>3 DEF ServeBudget
<1>6. r.kind = "budget" BY <1>4, <1>5 DEF ReadFits
<1>7. CASE /\ requests' = RemoveAt(requests, i) /\ UNCHANGED <<reportedVars, overtaken>>
  BY <1>3, <1>5, <1>7, RefusalKeeps DEF reportedVars
<1>8. CASE /\ SetProjectBudget(r.limit)
           /\ \/ /\ requests' = [requests EXCEPT ![i].phase = "overview",
                                                 ![i].since = Len(worlds')]
                 /\ UNCHANGED overtaken
              \/ requests' = RemoveAt(requests, i) /\ overtaken' = overtaken \cup {"limit"}
  <2>1. PICK x : x = [Latest EXCEPT !.limit = r.limit] OBVIOUS
  <2>2. PICK e : e = [kind |-> "billing", says |-> "updated"] OBVIOUS
  <2>3. /\ r.limit > 0 /\ worlds' = Append(worlds, x) /\ Len(worlds) <= MaxReports
        /\ news' = news \o <<e>>
    BY <1>8, <2>1, <2>2 DEF SetProjectBudget, Report, About
  <2>4. /\ x \in Worlds /\ x.run = Latest.run /\ x.batch = Latest.batch
        /\ x.evaluations = Latest.evaluations /\ x.reviews = Latest.reviews
    BY <1>1, <1>4, <2>1, <2>3 DEF Worlds, OverviewCalls, Limits
  <2>5. e \in News BY <2>2 DEF News
  <2>6. <<e>> \in Seq(News) /\ Len(<<e>>) <= 1 BY <2>5, EventIs
  <2>7. CASE requests' = RemoveAt(requests, i) /\ overtaken' = overtaken \cup {"limit"}
    <3>1. /\ requests' \in Seq(OverviewCalls) /\ AtMostOne(requests', "load")
          /\ Range(requests') \subseteq Range(requests)
          /\ \A q \in Range(requests) : q = r \/ q \in Range(requests')
      BY <1>3, <2>7, OneLess
    <3>2. \A q \in Range(requests) :
             q \in Range(requests') \/ (q.kind = "budget" /\ q.phase = "asked")
      BY <1>5, <1>6, <3>1
    <3>3. /\ "limit" \in overtaken' /\ overtaken \subseteq overtaken'
          /\ overtaken' \subseteq {"limit", "operations", "recent", "error"}
      BY <1>2, <2>7
    <3> QED BY <1>5, <2>3, <2>4, <2>6, <3>1, <3>2, <3>3, ReportKeeps
  <2>8. CASE requests' = [requests EXCEPT ![i].phase = "overview", ![i].since = Len(worlds')]
                /\ overtaken' = overtaken
    <3>1. PICK v : v = worlds' OBVIOUS
    <3>2. /\ v \in Seq(Worlds) /\ v # <<>> /\ Len(v) = Len(worlds) + 1 /\ v[Len(v)] = x
          /\ Len(v) \in DOMAIN v /\ Len(v) \in Nat \ {0}
          /\ \A n \in DOMAIN worlds : n \in DOMAIN v /\ v[n] = worlds[n]
          /\ \A field : x[field] = worlds[Len(worlds)][field] =>
                \A n \in DOMAIN worlds : Unchanged(worlds, field, n) => Unchanged(v, field, n)
          /\ \A field : Unchanged(v, field, Len(v))
          /\ \A o : OverviewFits(worlds, o) => OverviewFits(v, o)
          /\ \A p : OperationsFits(worlds, p) => OperationsFits(v, p)
          /\ \A route, q : ReadFits(worlds, route, q) => ReadFits(v, route, q)
      <4>1. OneMore(worlds, x, Append(worlds, x)) BY <1>2, <2>4, OneMoreWorld
      <4>2. OneMore(worlds, x, v) BY <2>3, <3>1, <4>1
      <4> QED BY <4>2 DEF OneMore
    <3>3. PICK q : q = [r EXCEPT !.phase = "overview", !.since = Len(v)] OBVIOUS
    <3>4. /\ q \in OverviewCalls /\ q.kind = "budget" /\ q.phase = "overview" /\ q.since = Len(v)
          /\ q.enabled = r.enabled
      BY <1>4, <1>6, <3>2, <3>3 DEF OverviewCalls
    <3>5. requests' = [requests EXCEPT ![i] = q] BY <1>3, <2>8, <3>1, <3>3
    <3>6. ReadFits(v, overviewRoute, q) BY <1>4, <1>6, <3>2, <3>4 DEF ReadFits
    <3>7. WillLimit(v, q) BY <3>2, <3>4 DEF WillLimit
    <3>8. /\ requests' \in Seq(OverviewCalls) /\ AtMostOne(requests', "load")
          /\ \A y \in Range(requests') : y = q \/ \E j \in DOMAIN requests \ {i} : y = requests[j]
          /\ q \in Range(requests')
          /\ \A j \in DOMAIN requests \ {i} : requests[j] \in Range(requests')
      <4>1. q.kind = requests[i].kind BY <1>3, <1>6, <3>4
      <4>2. /\ [requests EXCEPT ![i] = q] \in Seq(OverviewCalls)
            /\ \A y \in Range([requests EXCEPT ![i] = q]) :
                  y = q \/ \E j \in DOMAIN requests \ {i} : y = requests[j]
            /\ q \in Range([requests EXCEPT ![i] = q])
            /\ \A j \in DOMAIN requests \ {i} : requests[j] \in Range([requests EXCEPT ![i] = q])
            /\ \A k : NoneOf([requests EXCEPT ![i] = q], k) <=> NoneOf(requests, k)
            /\ \A k : AtMostOne([requests EXCEPT ![i] = q], k) <=> AtMostOne(requests, k)
        BY <1>2, <3>4, <4>1, TaskGoesOn
      <4> QED BY <1>2, <3>5, <4>2
    <3>9. \A y \in Range(requests') :
             \/ y \in Range(requests)
             \/ /\ y.kind = "budget" /\ ReadFits(worlds', overviewRoute, y)
                /\ WillLimit(worlds', y)
                /\ \E z \in Range(requests) : z.kind = "budget"
      BY <1>4, <1>6, <3>1, <3>4, <3>6, <3>7, <3>8 DEF Range
    <3>10. \A y \in Range(requests) :
              y \in Range(requests') \/ (y.kind = "budget" /\ y.phase = "asked")
      BY <1>3, <1>5, <1>6, <3>8 DEF Range
    <3>11. /\ \E y \in Range(requests') : WillLimit(worlds', y)
           /\ \E y \in Range(requests) : y.kind = "budget"
      BY <1>4, <1>6, <3>1, <3>7, <3>8
    <3> QED BY <1>2, <1>5, <2>3, <2>4, <2>6, <2>8, <3>8, <3>9, <3>10, <3>11, ReportKeeps
  <2> QED BY <1>8, <2>7, <2>8
<1> QED BY <1>3, <1>7, <1>8 DEF ServeBudget


-----------------------------------------------------------------------------
(* What was current at one state of the server is so at a later one.       *)
LEMMA LaterIsCurrent ==
    ASSUME OverviewTyped, NEW field, NEW n \in DOMAIN worlds, NEW m \in DOMAIN worlds, n <= m,
           Unchanged(worlds, field, n)
    PROVE  Unchanged(worlds, field, m)
<1>1. Len(worlds) \in Nat /\ m \in Nat /\ n \in Nat
  <2>1. Len(worlds) \in Nat /\ DOMAIN worlds = 1..Len(worlds) BY WorldAt
  <2> QED BY <2>1
<1>2. \A k \in m..Len(worlds) : k \in n..Len(worlds) BY <1>1
<1> QED BY <1>2 DEF Unchanged

(* A function that ends, in a step that neither reports nor moves the operator. *)
LEMMA OthersStay ==
    ASSUME OverviewInv, NEW i \in DOMAIN requests, requests' = RemoveAt(requests, i),
           UNCHANGED <<worlds, overviewRoute>>
    PROVE  /\ requests' \in Seq(OverviewCalls) /\ AtMostOne(requests', "load")
           /\ Range(requests') \subseteq Range(requests)
           /\ \A r \in Range(requests) : r = requests[i] \/ r \in Range(requests')
           /\ \A r \in Range(requests') : ReadFits(worlds', overviewRoute', r)
           /\ requests # <<>>
<1>1. /\ requests' \in Seq(OverviewCalls) /\ AtMostOne(requests', "load")
      /\ Range(requests') \subseteq Range(requests)
      /\ \A r \in Range(requests) : r = requests[i] \/ r \in Range(requests')
  BY OneLess
<1>2. \A r \in Range(requests') : ReadFits(worlds, overviewRoute, r)
  BY <1>1 DEF OverviewInv, ReadsFit
<1>3. requests # <<>> BY EmptySeq, LenProperties
<1> QED BY <1>1, <1>2, <1>3

(* A load or a command lands: the page shows what it read, which is as new as what
   there was, or what it is not as new in slips. *)
LEMMA LandingKeeps ==
    ASSUME OverviewInv, NEW i \in DOMAIN requests, requests' = RemoveAt(requests, i),
           UNCHANGED <<worlds, news, overviewRoute>>,
           NEW o \in Overviews, NEW p \in OperationsOverviews \cup {Blank},
           applyLoadedState(o, p), requests[i].kind \in {"load", "budget"},
           OverviewFits(worlds, o), overviewRoute => p # Blank,
           p # Blank => OperationsFits(worlds, p) /\ Derived(p, o),
           WillLimit(worlds, requests[i]) => Unchanged(worlds, "limit", o.budgetAt),
           WillTell(worlds, requests[i], "evaluation", "evaluations")
             => o.recent["evaluation"] # "pending",
           WillTell(worlds, requests[i], "review", "reviews") => o.recent["review"] # "pending",
           p # Blank /\ WillRead(worlds, requests[i], "run") => Unchanged(worlds, "run", p.runAt),
           p # Blank /\ WillRead(worlds, requests[i], "batch")
             => Unchanged(worlds, "batch", p.batchAt)
    PROVE  OverviewInv'
<1>1. OverviewTyped /\ ReadsFit BY DEF OverviewInv
<1>2. /\ requests' \in Seq(OverviewCalls) /\ AtMostOne(requests', "load")
      /\ Range(requests') \subseteq Range(requests)
      /\ \A r \in Range(requests) : r = requests[i] \/ r \in Range(requests')
      /\ \A r \in Range(requests') : ReadFits(worlds', overviewRoute', r)
      /\ requests # <<>>
  BY OthersStay
<1>3. PICK s : s = requests' OBVIOUS
<1>4. o # Blank BY BlankShowsNothing
<1>5. /\ overview' = o /\ operationsOverview' = p /\ overviewError' = FALSE
      /\ overtaken' = overtaken \cup OverviewSlips(o)
                                \cup (IF p = Blank THEN {} ELSE OperationsSlips(p))
      /\ overtaken \subseteq overtaken'
  BY DEF applyLoadedState
<1>6. budgetLimit' \in Limits
  <2>1. budgetLimit \in Limits BY <1>1 DEF OverviewTyped
  <2> QED BY <2>1, LimitTyped DEF applyLoadedState
<1>7. OverviewTyped'
  <2>1. /\ OverviewSlips(o) \subseteq {"limit", "recent"}
        /\ OperationsSlips(p) \subseteq {"operations"}
    BY DEF OverviewSlips, OperationsSlips
  <2>2. overtaken' \subseteq {"limit", "operations", "recent", "error"}
    BY <1>1, <1>5, <2>1 DEF OverviewTyped
  <2> QED BY <1>1, <1>2, <1>5, <1>6, <2>2 DEF OverviewTyped
<1>8. ReadsFit' BY <1>2, <1>5 DEF ReadsFit
<1>9. OnlyGrow(worlds') BY DEF OverviewInv
<1>10. ErrorTold' /\ NothingLands' BY <1>4, <1>5 DEF ErrorTold, NothingLands
<1>11. ASSUME NEW field, NEW kind, NEW place, p # Blank, place \in {"runAt", "batchAt"},
              "operations" \notin overtaken',
              PartKept(field, kind, operationsOverview, operationsOverview[place]),
              WillRead(worlds, requests[i], field) => Unchanged(worlds, field, p[place])
       PROVE  \/ EventComing(news, kind)
              \/ \E r \in Range(s) : WillRead(worlds, r, field)
              \/ Unchanged(worlds, field, p[place])
  <2>1. CASE \E r \in Range(requests) : WillRead(worlds, r, field)
    BY <1>2, <1>3, <1>11, <2>1
  <2>2. CASE operationsOverview # Blank /\ Unchanged(worlds, field, operationsOverview[place])
    <3>1. /\ ~(p.runAt < operationsOverview.runAt) /\ ~(p.batchAt < operationsOverview.batchAt)
      BY <1>5, <1>11, <2>2 DEF OperationsSlips
    <3>2. /\ p.runAt \in DOMAIN worlds /\ p.batchAt \in DOMAIN worlds
          /\ operationsOverview.runAt \in DOMAIN worlds
          /\ operationsOverview.batchAt \in DOMAIN worlds
      BY <1>1, <1>11, <2>2 DEF ReadsFit, OperationsFits
    <3>3. DOMAIN worlds = 1..Len(worlds) /\ Len(worlds) \in Nat BY <1>1, WorldAt
    <3>4. operationsOverview[place] <= p[place] /\ p[place] \in DOMAIN worlds
          /\ operationsOverview[place] \in DOMAIN worlds
      <4>1. CASE place = "runAt" BY <3>1, <3>2, <3>3, <4>1
      <4>2. CASE place = "batchAt" BY <3>1, <3>2, <3>3, <4>2
      <4> QED BY <1>11, <4>1, <4>2
    <3>5. Unchanged(worlds, field, p[place]) BY <1>1, <2>2, <3>4, LaterIsCurrent
    <3> QED BY <3>5
  <2> QED BY <1>11, <2>1, <2>2 DEF PartKept
<1>12. OperationsKept'
  <2> SUFFICES ASSUME overviewRoute, "operations" \notin overtaken'
               PROVE  /\ PartKept("run", "workflow", p, p.runAt)'
                      /\ PartKept("batch", "asset", p, p.batchAt)'
                      /\ p # Blank /\ Derived(p, o)
    BY <1>5 DEF OperationsKept
  <2>1. p # Blank OBVIOUS
  <2>2. "operations" \notin overtaken BY <1>5
  <2>3. overview # Blank \/ Loading(requests)
    <3>1. CASE overview = Blank
      <4>1. \A r \in Range(requests) : r.kind = "load"
        BY <2>2, <3>1 DEF OverviewInv, NothingLands
      <4>2. requests[i] \in Range(requests) BY DEF Range
      <4> QED BY <4>1, <4>2 DEF Loading
    <3> QED BY <3>1
  <2>4. /\ PartKept("run", "workflow", operationsOverview, operationsOverview.runAt)
        /\ PartKept("batch", "asset", operationsOverview, operationsOverview.batchAt)
    BY <2>2, <2>3 DEF OverviewInv, OperationsKept
  <2>5. \/ EventComing(news, "workflow")
        \/ \E r \in Range(s) : WillRead(worlds, r, "run")
        \/ Unchanged(worlds, "run", p["runAt"])
    BY <1>11, <2>1, <2>4
  <2>6. \/ EventComing(news, "asset")
        \/ \E r \in Range(s) : WillRead(worlds, r, "batch")
        \/ Unchanged(worlds, "batch", p["batchAt"])
    BY <1>11, <2>1, <2>4
  <2> QED BY <1>3, <2>1, <2>5, <2>6 DEF PartKept
<1>13. LimitKept'
  <2> SUFFICES ASSUME "limit" \notin overtaken'
               PROVE  \/ Unchanged(worlds, "limit", o.budgetAt)
                      \/ \E r \in Range(s) : WillLimit(worlds, r)
    BY <1>3, <1>4, <1>5 DEF LimitKept
  <2>1. "limit" \notin overtaken BY <1>5
  <2>2. CASE overview = Blank
    <3>1. requests[i] \in Range(requests) BY DEF Range
    <3> QED BY <2>1, <2>2, <3>1 DEF OverviewInv, LimitKept
  <2>3. CASE overview # Blank /\ Unchanged(worlds, "limit", overview.budgetAt)
    <3>1. ~(o.budgetAt < overview.budgetAt) BY <1>5, <2>3 DEF OverviewSlips
    <3>2. o.budgetAt \in DOMAIN worlds /\ overview.budgetAt \in DOMAIN worlds
      BY <1>1, <2>3 DEF ReadsFit, OverviewFits
    <3>3. DOMAIN worlds = 1..Len(worlds) /\ Len(worlds) \in Nat BY <1>1, WorldAt
    <3>4. overview.budgetAt <= o.budgetAt BY <3>1, <3>2, <3>3
    <3> QED BY <1>1, <2>3, <3>2, <3>4, LaterIsCurrent
  <2>4. CASE \E r \in Range(requests) : WillLimit(worlds, r) BY <1>2, <1>3, <2>4
  <2> QED BY <2>1, <2>2, <2>3, <2>4 DEF OverviewInv, LimitKept
<1>14. ASSUME NEW kind \in {"evaluation", "review"}, NEW reports, RecentKept(kind, reports),
              WillTell(worlds, requests[i], kind, reports) => o.recent[kind] # "pending",
              "recent" \notin overtaken', worlds[Len(worlds)][reports] # <<>>
       PROVE  \/ EventComing(news, kind)
              \/ o.recent[kind] # "pending"
              \/ \E r \in Range(s) : WillTell(worlds, r, kind, reports)
  <2>1. CASE overview # Blank /\ overview.recent[kind] # "pending"
    BY <1>5, <1>14, <2>1 DEF OverviewSlips
  <2>2. CASE \E r \in Range(requests) : WillTell(worlds, r, kind, reports)
    BY <1>2, <1>3, <1>14, <2>2
  <2>3. "recent" \notin overtaken BY <1>5, <1>14
  <2> QED BY <1>2, <1>14, <2>1, <2>2, <2>3 DEF RecentKept
<1>15. RecentKept("evaluation", "evaluations")'
  <2>1. RecentKept("evaluation", "evaluations") BY DEF OverviewInv
  <2> QED BY <1>3, <1>4, <1>5, <1>14, <2>1 DEF RecentKept
<1>16. RecentKept("review", "reviews")'
  <2>1. RecentKept("review", "reviews") BY DEF OverviewInv
  <2> QED BY <1>3, <1>4, <1>5, <1>14, <2>1 DEF RecentKept
<1> QED BY <1>7, <1>8, <1>9, <1>10, <1>12, <1>13, <1>15, <1>16 DEF OverviewInv

(* On another page of the console the overview is all a load reads.        *)
LEMMA OverviewAloneKeeps ==
    ASSUME OverviewInv, NEW i \in DOMAIN requests, TakeOverview(i), ~requests[i].enabled
    PROVE  OverviewInv'
<1>1. OverviewTyped /\ ReadsFit /\ OnlyGrow(worlds) BY DEF OverviewInv
<1>2. PICK r : r = requests[i] OBVIOUS
<1>3. r \in OverviewCalls /\ ReadFits(worlds, overviewRoute, r) BY <1>1, <1>2, ReadIs
<1>4. /\ r.phase = "overview" /\ requests' = RemoveAt(requests, i)
      /\ UNCHANGED <<worlds, news, overviewRoute>>
  BY <1>2 DEF TakeOverview, reportedVars
<1>5. PICK o \in loadAdminOverview(r.since) : applyLoadedState(o, Blank)
  BY <1>2 DEF TakeOverview
<1>6. r.kind = "load" /\ ~overviewRoute /\ r.since \in DOMAIN worlds
  BY <1>1, <1>2, <1>3 DEF ReadFits, OverviewTyped
<1>7. /\ o \in Overviews /\ OverviewFits(worlds, o) /\ o.budgetAt \in r.since..Len(worlds)
      /\ worlds[r.since].evaluations # <<>> => o.recent.evaluation # "pending"
      /\ worlds[r.since].reviews # <<>> => o.recent.review # "pending"
  BY <1>1, <1>6, OverviewRead
<1>8. WillLimit(worlds, r) => Unchanged(worlds, "limit", o.budgetAt)
  <2>1. r.since \in DOMAIN worlds /\ o.budgetAt \in DOMAIN worlds /\ r.since <= o.budgetAt
    <3>1. DOMAIN worlds = 1..Len(worlds) /\ Len(worlds) \in Nat BY <1>1, WorldAt
    <3> QED BY <1>6, <1>7, <3>1
  <2> QED BY <1>1, <1>4, <2>1, LaterIsCurrent DEF WillLimit
<1>9. /\ WillTell(worlds, r, "evaluation", "evaluations") => o.recent["evaluation"] # "pending"
      /\ WillTell(worlds, r, "review", "reviews") => o.recent["review"] # "pending"
  BY <1>4, <1>7 DEF WillTell
<1> QED BY <1>2, <1>4, <1>5, <1>6, <1>7, <1>8, <1>9, LandingKeeps

(* What a function reads of the second part is as new as it was to be.     *)
LEMMA ReadIsCurrent ==
    ASSUME OverviewInv, NEW i \in DOMAIN requests, requests[i].phase = "operations",
           NEW p \in loadAdminOperationsOverview(requests[i].of, requests[i].since)
    PROVE  /\ requests[i].of \in Overviews /\ OverviewFits(worlds, requests[i].of)
           /\ p \in OperationsOverviews /\ p # Blank /\ OperationsFits(worlds, p)
           /\ Derived(p, requests[i].of)
           /\ WillRead(worlds, requests[i], "run") => Unchanged(worlds, "run", p.runAt)
           /\ WillRead(worlds, requests[i], "batch") => Unchanged(worlds, "batch", p.batchAt)
<1>1. OverviewTyped /\ ReadsFit BY DEF OverviewInv
<1>2. PICK r : r = requests[i] OBVIOUS
<1>3. r \in OverviewCalls /\ ReadFits(worlds, overviewRoute, r) BY <1>1, <1>2, ReadIs
<1>4. r.of \in Overviews /\ OverviewFits(worlds, r.of) /\ r.since \in DOMAIN worlds
  BY <1>2, <1>3 DEF ReadFits, OverviewCalls
<1>5. /\ p \in OperationsOverviews /\ OperationsFits(worlds, p) /\ Derived(p, r.of)
      /\ p.runAt \in r.since..Len(worlds) /\ p.batchAt \in r.since..Len(worlds)
  BY <1>1, <1>2, <1>4, OperationsRead
<1>6. DOMAIN worlds = 1..Len(worlds) /\ Len(worlds) \in Nat BY <1>1, WorldAt
<1>7. /\ p.runAt \in DOMAIN worlds /\ r.since <= p.runAt
      /\ p.batchAt \in DOMAIN worlds /\ r.since <= p.batchAt
  BY <1>4, <1>5, <1>6
<1>8. \A field : WillRead(worlds, r, field) => Unchanged(worlds, field, r.since)
  BY <1>2 DEF WillRead
<1>9. /\ WillRead(worlds, r, "run") => Unchanged(worlds, "run", p.runAt)
      /\ WillRead(worlds, r, "batch") => Unchanged(worlds, "batch", p.batchAt)
  BY <1>1, <1>4, <1>7, <1>8, LaterIsCurrent
<1> QED BY <1>2, <1>4, <1>5, <1>9, BlankShowsNothing

(* A load or a command shows both parts.                                   *)
LEMMA BothPartsKeep ==
    ASSUME OverviewInv, NEW i \in DOMAIN requests, TakeBlockers(i),
           requests[i].kind # "operations"
    PROVE  OverviewInv'
<1>1. OverviewTyped /\ ReadsFit BY DEF OverviewInv
<1>2. PICK r : r = requests[i] OBVIOUS
<1>3. r \in OverviewCalls /\ ReadFits(worlds, overviewRoute, r) BY <1>1, <1>2, ReadIs
<1>4. /\ r.phase = "operations" /\ requests' = RemoveAt(requests, i)
      /\ UNCHANGED <<worlds, news, overviewRoute>>
  BY <1>2 DEF TakeBlockers, reportedVars
<1>5. PICK p \in loadAdminOperationsOverview(r.of, r.since) : applyLoadedState(r.of, p)
  BY <1>2 DEF TakeBlockers
<1>6. /\ r.of \in Overviews /\ OverviewFits(worlds, r.of)
      /\ p \in OperationsOverviews /\ p # Blank /\ OperationsFits(worlds, p)
      /\ Derived(p, r.of)
      /\ WillRead(worlds, r, "run") => Unchanged(worlds, "run", p.runAt)
      /\ WillRead(worlds, r, "batch") => Unchanged(worlds, "batch", p.batchAt)
  BY <1>2, <1>4, <1>5, ReadIsCurrent
<1>7. r.kind \in {"load", "budget"} BY <1>2, <1>3 DEF OverviewCalls
<1>8. /\ WillLimit(worlds, r) => Unchanged(worlds, "limit", r.of.budgetAt)
      /\ WillTell(worlds, r, "evaluation", "evaluations") => r.of.recent["evaluation"] # "pending"
      /\ WillTell(worlds, r, "review", "reviews") => r.of.recent["review"] # "pending"
  BY <1>4 DEF WillLimit, WillTell
<1>9. PICK o : o = r.of OBVIOUS
<1>10. /\ o \in Overviews /\ OverviewFits(worlds, o) /\ Derived(p, o)
       /\ applyLoadedState(o, p)
       /\ WillLimit(worlds, requests[i]) => Unchanged(worlds, "limit", o.budgetAt)
       /\ WillTell(worlds, requests[i], "evaluation", "evaluations")
            => o.recent["evaluation"] # "pending"
       /\ WillTell(worlds, requests[i], "review", "reviews") => o.recent["review"] # "pending"
  BY <1>2, <1>5, <1>6, <1>8, <1>9
<1> QED BY <1>2, <1>4, <1>6, <1>7, <1>10, LandingKeeps

(* The second part is read alone.                                          *)
LEMMA BlockersAloneKeep ==
    ASSUME OverviewInv, NEW i \in DOMAIN requests, TakeBlockers(i),
           requests[i].kind = "operations"
    PROVE  OverviewInv'
<1>1. OverviewTyped /\ ReadsFit BY DEF OverviewInv
<1>2. PICK r : r = requests[i] OBVIOUS
<1>3. /\ r.phase = "operations" /\ requests' = RemoveAt(requests, i)
      /\ UNCHANGED <<worlds, news, overviewRoute>>
  BY <1>2 DEF TakeBlockers, reportedVars
<1>4. PICK p \in loadAdminOperationsOverview(r.of, r.since) :
         /\ operationsOverview' = p /\ overviewError' = FALSE
         /\ overtaken' = overtaken \cup OperationsSlips(p)
              \cup (IF overview = Blank THEN {"error"} ELSE {})
              \cup (IF overview # Blank /\ \E kind \in {"budget", "review"} :
                          (kind \in p.blockers) #
                          (kind \in buildReleaseBlockers(overview, "none", "none"))
                    THEN {"operations"} ELSE {})
         /\ UNCHANGED <<overview, budgetLimit>>
  BY <1>2 DEF TakeBlockers
<1>5. /\ p \in OperationsOverviews /\ p # Blank /\ OperationsFits(worlds, p)
      /\ WillRead(worlds, r, "run") => Unchanged(worlds, "run", p.runAt)
      /\ WillRead(worlds, r, "batch") => Unchanged(worlds, "batch", p.batchAt)
  BY <1>2, <1>3, <1>4, ReadIsCurrent
<1>6. /\ requests' \in Seq(OverviewCalls) /\ AtMostOne(requests', "load")
      /\ Range(requests') \subseteq Range(requests)
      /\ \A q \in Range(requests) : q = r \/ q \in Range(requests')
      /\ \A q \in Range(requests') : ReadFits(worlds', overviewRoute', q)
      /\ requests # <<>> /\ r \in Range(requests)
  <2>1. r \in Range(requests) BY <1>2 DEF Range
  <2> QED BY <1>2, <1>3, <2>1, OthersStay
<1>7. PICK s : s = requests' OBVIOUS
<1>8. overtaken \subseteq overtaken' BY <1>4
<1>9. OverviewTyped'
  <2>1. overtaken' \subseteq {"limit", "operations", "recent", "error"}
    BY <1>1, <1>4 DEF OverviewTyped, OperationsSlips
  <2> QED BY <1>1, <1>3, <1>4, <1>5, <1>6, <2>1 DEF OverviewTyped
<1>10. ReadsFit' BY <1>1, <1>3, <1>4, <1>5, <1>6 DEF ReadsFit
<1>11. OnlyGrow(worlds') BY <1>3 DEF OverviewInv
<1>12. ErrorTold' BY <1>4 DEF ErrorTold
<1>13. NothingLands'
  <2>1. overview = Blank => {"limit", "operations", "recent"} \subseteq overtaken
    BY <1>2, <1>6 DEF OverviewInv, NothingLands
  <2> QED BY <1>4, <1>8, <2>1 DEF NothingLands
<1>14. ASSUME NEW field, NEW kind, NEW place \in {"runAt", "batchAt"},
              "operations" \notin overtaken',
              PartKept(field, kind, operationsOverview, operationsOverview[place]),
              WillRead(worlds, r, field) => Unchanged(worlds, field, p[place])
       PROVE  \/ EventComing(news, kind)
              \/ \E q \in Range(s) : WillRead(worlds, q, field)
              \/ Unchanged(worlds, field, p[place])
  <2>1. CASE \E q \in Range(requests) : WillRead(worlds, q, field)
    BY <1>6, <1>7, <1>14, <2>1
  <2>2. CASE operationsOverview # Blank /\ Unchanged(worlds, field, operationsOverview[place])
    <3>1. /\ ~(p.runAt < operationsOverview.runAt) /\ ~(p.batchAt < operationsOverview.batchAt)
      BY <1>4, <1>14, <2>2 DEF OperationsSlips
    <3>2. /\ p.runAt \in DOMAIN worlds /\ p.batchAt \in DOMAIN worlds
          /\ operationsOverview.runAt \in DOMAIN worlds
          /\ operationsOverview.batchAt \in DOMAIN worlds
      BY <1>1, <1>5, <2>2 DEF ReadsFit, OperationsFits
    <3>3. DOMAIN worlds = 1..Len(worlds) /\ Len(worlds) \in Nat BY <1>1, WorldAt
    <3>4. operationsOverview[place] <= p[place] /\ p[place] \in DOMAIN worlds
          /\ operationsOverview[place] \in DOMAIN worlds
      <4>1. CASE place = "runAt" BY <3>1, <3>2, <3>3, <4>1
      <4>2. CASE place = "batchAt" BY <3>1, <3>2, <3>3, <4>2
      <4> QED BY <1>14, <4>1, <4>2
    <3>5. Unchanged(worlds, field, p[place]) BY <1>1, <2>2, <3>4, LaterIsCurrent
    <3> QED BY <3>5
  <2> QED BY <1>14, <2>1, <2>2 DEF PartKept
<1>15. OperationsKept'
  <2> SUFFICES ASSUME overviewRoute, "operations" \notin overtaken',
                      overview # Blank \/ Loading(requests')
               PROVE  /\ PartKept("run", "workflow", p, p.runAt)'
                      /\ PartKept("batch", "asset", p, p.batchAt)'
                      /\ Loading(requests') \/ (p # Blank /\ Derived(p, overview))
    BY <1>3, <1>4 DEF OperationsKept
  <2>1. "operations" \notin overtaken BY <1>8
  <2>2. overview # Blank \/ Loading(requests) BY <1>6 DEF Loading
  <2>3. /\ PartKept("run", "workflow", operationsOverview, operationsOverview.runAt)
        /\ PartKept("batch", "asset", operationsOverview, operationsOverview.batchAt)
    BY <2>1, <2>2 DEF OverviewInv, OperationsKept
  <2>4. \/ EventComing(news, "workflow")
        \/ \E q \in Range(s) : WillRead(worlds, q, "run")
        \/ Unchanged(worlds, "run", p["runAt"])
    BY <1>5, <1>14, <2>3
  <2>5. \/ EventComing(news, "asset")
        \/ \E q \in Range(s) : WillRead(worlds, q, "batch")
        \/ Unchanged(worlds, "batch", p["batchAt"])
    BY <1>5, <1>14, <2>3
  <2>6. overview # Blank => Derived(p, overview) BY <1>4 DEF Derived
  <2> QED BY <1>3, <1>5, <1>7, <2>4, <2>5, <2>6 DEF PartKept
<1>16. LimitKept'
  <2>1. ~WillLimit(worlds, r) BY <1>2 DEF WillLimit
  <2>2. \A q \in Range(requests) : WillLimit(worlds, q) => q \in Range(requests') BY <1>6, <2>1
  <2>3. LimitKept /\ ("limit" \in overtaken => "limit" \in overtaken') BY <1>8 DEF OverviewInv
  <2> QED BY <1>3, <1>4, <1>6, <2>2, <2>3 DEF LimitKept
<1>17. ASSUME NEW kind, NEW reports, RecentKept(kind, reports), "recent" \notin overtaken',
              worlds[Len(worlds)][reports] # <<>>
       PROVE  \/ EventComing(news, kind)
              \/ overview # Blank /\ overview.recent[kind] # "pending"
              \/ \E q \in Range(s) : WillTell(worlds, q, kind, reports)
  <2>1. ~WillTell(worlds, r, kind, reports) BY <1>2 DEF WillTell
  <2>2. "recent" \notin overtaken BY <1>8, <1>17
  <2> QED BY <1>6, <1>7, <1>17, <2>1, <2>2 DEF RecentKept
<1>18. RecentKept("evaluation", "evaluations")'
  <2>1. RecentKept("evaluation", "evaluations") BY DEF OverviewInv
  <2> QED BY <1>3, <1>4, <1>7, <1>17, <2>1 DEF RecentKept
<1>19. RecentKept("review", "reviews")'
  <2>1. RecentKept("review", "reviews") BY DEF OverviewInv
  <2> QED BY <1>3, <1>4, <1>7, <1>17, <2>1 DEF RecentKept
<1> QED BY <1>9, <1>10, <1>11, <1>12, <1>13, <1>15, <1>16, <1>18, <1>19 DEF OverviewInv

(* The load fails: the page is empty, and if it was not alone everything slips. *)
LEMMA FailedLoadKeeps ==
    ASSUME OverviewInv, NEW i \in DOMAIN requests, TakeOverviewFailure(i),
           requests[i].kind = "load"
    PROVE  OverviewInv'
<1>1. OverviewTyped /\ ReadsFit BY DEF OverviewInv
<1>2. /\ overview' = Blank /\ operationsOverview' = Blank /\ overviewError' = TRUE
      /\ budgetLimit' = 0 /\ requests' = RemoveAt(requests, i)
      /\ overtaken' = overtaken \cup IF Len(requests) > 1
                                     THEN {"limit", "operations", "recent"} ELSE {}
      /\ UNCHANGED <<worlds, news, overviewRoute>>
  BY DEF TakeOverviewFailure, reportedVars
<1>3. /\ requests' \in Seq(OverviewCalls) /\ AtMostOne(requests', "load")
      /\ \A r \in Range(requests') : ReadFits(worlds', overviewRoute', r)
  BY <1>2, OthersStay
<1>4. \A r \in Range(requests') : r.kind # "load" BY <1>2, OneLess
<1>5. \/ {"limit", "operations", "recent"} \subseteq overtaken'
      \/ requests' = <<>>
  <2>1. CASE Len(requests) > 1 BY <1>2, <2>1
  <2>2. CASE ~(Len(requests) > 1)
    <3>1. requests \in Seq(OverviewCalls) BY <1>1 DEF OverviewTyped
    <3>2. Len(requests') = Len(requests) - 1 BY <1>2, <3>1, OneIsOver
    <3>3. Len(requests) \in Nat /\ Len(requests') \in Nat BY <1>3, <3>1, LenProperties
    <3>4. Len(requests') = 0 BY <2>2, <3>2, <3>3
    <3> QED BY <1>3, <3>4, EmptySeq
  <2> QED BY <2>1, <2>2
<1>6. requests' = <<>> => Range(requests') = {} BY DEF Range
<1>7. OverviewTyped' BY <1>1, <1>2, <1>3 DEF OverviewTyped, Limits
<1>8. ReadsFit' BY <1>2, <1>3 DEF ReadsFit
<1>9. OnlyGrow(worlds') BY <1>2 DEF OverviewInv
<1>10. ErrorTold' BY <1>2 DEF ErrorTold
<1>11. NothingLands' BY <1>5, <1>6 DEF NothingLands
<1>12. OperationsKept' BY <1>2, <1>4 DEF OperationsKept, Loading
<1>13. LimitKept' BY <1>2, <1>5, <1>6 DEF LimitKept
<1>14. RecentKept("evaluation", "evaluations")' BY <1>2, <1>5 DEF RecentKept
<1>15. RecentKept("review", "reviews")' BY <1>2, <1>5 DEF RecentKept
<1> QED BY <1>7, <1>8, <1>9, <1>10, <1>11, <1>12, <1>13, <1>14, <1>15 DEF OverviewInv

(* The operator comes or leaves: a new load takes the place of the one under way. *)
LEMMA SwitchKeeps ==
    ASSUME OverviewInv, SwitchOverview
    PROVE  OverviewInv'
<1>1. OverviewTyped /\ ReadsFit BY DEF OverviewInv
<1>2. PICK kept : kept = Cancel(requests, "load") OBVIOUS
<1>3. PICK l : l = [kind |-> "load", phase |-> "overview", enabled |-> overviewRoute',
                    since |-> Len(worlds), of |-> Blank, limit |-> 0] OBVIOUS
<1>4. /\ overviewRoute' = ~overviewRoute /\ requests' = Append(kept, l)
      /\ budgetLimit' = LimitField(overviewRoute', overview)
      /\ overtaken' = (IF kept = <<>> THEN {} ELSE overtaken)
      /\ UNCHANGED <<overview, operationsOverview, overviewError, worlds, news>>
  BY <1>2, <1>3 DEF SwitchOverview, loadOverviewState, Asked, reportedVars
<1>5. /\ requests \in Seq(OverviewCalls) /\ AtMostOne(requests, "load") /\ overviewRoute \in BOOLEAN
  BY <1>1 DEF OverviewTyped, ReadsFit
<1>6. /\ Len(worlds) \in DOMAIN worlds /\ Len(worlds) \in Nat \ {0} BY <1>1, WorldAt
<1>7. /\ kept \in Seq(OverviewCalls) /\ Range(kept) \subseteq Range(requests)
      /\ NoneOf(kept, "load") /\ AtMostOne(kept, "load")
  BY <1>2, <1>5, LoadCancelled
<1>8. /\ l \in OverviewCalls /\ l.kind = "load" /\ l.phase = "overview" /\ l.since = Len(worlds)
      /\ l.enabled = overviewRoute'
  BY <1>3, <1>4, <1>5, <1>6 DEF OverviewCalls, Limits
<1>9. /\ requests' \in Seq(OverviewCalls) /\ Range(requests') = Range(kept) \cup {l}
      /\ AtMostOne(requests', "load")
  BY <1>4, <1>7, <1>8, TaskBegins
<1>10. \A r \in Range(kept) : r \in Range(requests) /\ r.kind # "load"
  BY <1>7 DEF NoneOf, Range
<1>11. OverviewTyped'
  <2>1. budgetLimit' \in Limits BY <1>1, <1>4, LimitTyped DEF OverviewTyped
  <2>2. overtaken' \subseteq {"limit", "operations", "recent", "error"}
    BY <1>1, <1>4 DEF OverviewTyped
  <2> QED BY <1>1, <1>4, <1>5, <1>9, <2>1, <2>2 DEF OverviewTyped
<1>12. ReadsFit'
  <2>1. ReadFits(worlds, overviewRoute', l)
    <3>1. overviewRoute' \in BOOLEAN BY <1>4, <1>5
    <3>2. l.enabled = (l.kind = "load" => overviewRoute') BY <1>8, <3>1
    <3> QED BY <1>6, <1>8, <3>2 DEF ReadFits
  <2>2. \A r \in Range(kept) : ReadFits(worlds, overviewRoute', r)
    BY <1>1, <1>10 DEF ReadsFit, ReadFits
  <2>3. \A r \in Range(requests') : ReadFits(worlds, overviewRoute', r) BY <1>9, <2>1, <2>2
  <2> QED BY <1>1, <1>4, <1>9, <2>3 DEF ReadsFit
<1>13. OnlyGrow(worlds') BY <1>4 DEF OverviewInv
<1>14. Loading(requests') BY <1>8, <1>9 DEF Loading
<1>15. ErrorTold' BY <1>14 DEF ErrorTold
<1>16. kept # <<>> => \E r \in Range(requests) : r.kind # "load"
  <2>1. Range(kept) = {} => kept = <<>> BY <1>7, NoneRuns
  <2> QED BY <1>10, <2>1
<1>17. kept = <<>> => Range(requests') = {l}
  <2>1. kept = <<>> => Range(kept) = {} BY DEF Range
  <2> QED BY <1>9, <2>1
<1>18. NothingLands'
  <2>1. CASE kept = <<>> BY <1>8, <1>17, <2>1 DEF NothingLands
  <2>2. CASE kept # <<>> BY <1>4, <1>16, <2>2 DEF OverviewInv, NothingLands
  <2> QED BY <2>1, <2>2
<1>19. /\ \A field : WillRead(worlds, l, field)
       /\ WillLimit(worlds, l)
       /\ \A kind, reports : worlds[Len(worlds)][reports] # <<>> => WillTell(worlds, l, kind, reports)
  <2>1. \A field : Unchanged(worlds, field, Len(worlds))
    <3>1. \A m \in Len(worlds)..Len(worlds) : m = Len(worlds) BY <1>6
    <3> QED BY <3>1 DEF Unchanged
  <2> QED BY <1>8, <2>1 DEF WillRead, WillLimit, WillTell
<1>20. OperationsKept'
  <2>1. /\ PartKept("run", "workflow", operationsOverview, operationsOverview.runAt)'
        /\ PartKept("batch", "asset", operationsOverview, operationsOverview.batchAt)'
    BY <1>4, <1>9, <1>19 DEF PartKept
  <2> QED BY <1>14, <2>1 DEF OperationsKept
<1>21. LimitKept'
  <2>1. CASE kept = <<>> BY <1>4, <1>9, <1>17, <1>19, <2>1 DEF LimitKept
  <2>2. CASE kept # <<>>
    <3>1. LimitKept /\ overtaken' = overtaken BY <1>4, <2>2 DEF OverviewInv
    <3> QED BY <1>4, <1>9, <1>10, <1>19, <3>1 DEF LimitKept
  <2> QED BY <2>1, <2>2
<1>22. RecentKept("evaluation", "evaluations")' BY <1>4, <1>9, <1>19 DEF RecentKept
<1>23. RecentKept("review", "reviews")' BY <1>4, <1>9, <1>19 DEF RecentKept
<1> QED BY <1>11, <1>12, <1>13, <1>15, <1>18, <1>20, <1>21, <1>22, <1>23 DEF OverviewInv

(* The first event goes: the others are still coming.                      *)
LEMMA EventGoes ==
    ASSUME OverviewTyped, news # <<>>, news' = Tail(news)
    PROVE  /\ Head(news) \in News /\ news' \in Seq(News) /\ Len(news') = Len(news) - 1
           /\ Range(news) \subseteq Range(news') \cup {Head(news)}
           /\ \A kind : EventComing(news, kind) => EventComing(news', kind) \/ Head(news).kind = kind
<1>1. news \in Seq(News) BY DEF OverviewTyped
<1>2. PICK event : event = Head(news) OBVIOUS
<1>3. PICK t : t = Tail(news) OBVIOUS
<1>4. /\ event \in News /\ t \in Seq(News) /\ Len(t) = Len(news) - 1 /\ event = news[1]
      /\ \A k \in 1..Len(t) : t[k] = news[k + 1]
  BY <1>1, <1>2, <1>3, HeadTailProperties
<1>5. /\ Len(news) \in Nat /\ DOMAIN news = 1..Len(news) /\ DOMAIN t = 1..Len(t)
  BY <1>1, <1>4, LenProperties
<1>6. ASSUME NEW k \in DOMAIN news
      PROVE  news[k] \in Range(t) \cup {event}
  <2>1. CASE k = 1 BY <1>4, <2>1
  <2>2. CASE k # 1
    <3>1. k - 1 \in 1..Len(t) /\ k = (k - 1) + 1 BY <1>4, <1>5, <2>2
    <3>2. news[k] = t[k - 1] /\ k - 1 \in DOMAIN t BY <1>4, <1>5, <3>1
    <3> QED BY <3>2 DEF Range
  <2> QED BY <2>1, <2>2
<1>7. Range(news) \subseteq Range(t) \cup {event} BY <1>6 DEF Range
<1>8. \A kind : EventComing(news, kind) => EventComing(t, kind) \/ event.kind = kind
  BY <1>7 DEF EventComing
<1> QED BY <1>2, <1>3, <1>4, <1>7, <1>8

(* An event is lost: what it would have made current slips.                *)
LEMMA LossKeeps ==
    ASSUME OverviewInv, LoseReport
    PROVE  OverviewInv'
<1>1. OverviewTyped /\ ReadsFit BY DEF OverviewInv
<1>2. PICK event : event = Head(news) OBVIOUS
<1>3. /\ news # <<>> /\ news' = Tail(news)
      /\ overtaken' = overtaken
            \cup (IF event.kind \in {"workflow", "asset"} THEN {"operations"} ELSE {})
            \cup (IF event.kind \in {"evaluation", "review"} THEN {"recent"} ELSE {})
      /\ UNCHANGED <<overviewRoute, overview, operationsOverview, overviewError, budgetLimit,
                     requests, worlds>>
  BY <1>2 DEF LoseReport
<1>4. /\ event \in News /\ news' \in Seq(News) /\ Len(news') = Len(news) - 1
      /\ \A kind : EventComing(news, kind) => EventComing(news', kind) \/ event.kind = kind
  BY <1>1, <1>2, <1>3, EventGoes
<1>5. Len(news') < Len(worlds)
  <2>1. Len(worlds) \in Nat /\ Len(news) \in Nat BY <1>1, WorldAt, LenProperties DEF OverviewTyped
  <2> QED BY <1>1, <1>4, <2>1 DEF OverviewTyped
<1>6. overtaken \subseteq overtaken' /\ overtaken' \subseteq {"limit", "operations", "recent", "error"}
  BY <1>1, <1>3 DEF OverviewTyped
<1>7. OverviewTyped' /\ ReadsFit' BY <1>1, <1>3, <1>4, <1>5, <1>6 DEF OverviewTyped, ReadsFit
<1>8. OnlyGrow(worlds') /\ ErrorTold' /\ NothingLands'
  BY <1>3, <1>6 DEF OverviewInv, ErrorTold, NothingLands, Loading
<1>9. OperationsKept'
  <2>1. CASE event.kind \in {"workflow", "asset"} BY <1>3, <2>1 DEF OperationsKept
  <2>2. CASE event.kind \notin {"workflow", "asset"}
    <3>1. /\ EventComing(news, "workflow") => EventComing(news', "workflow")
          /\ EventComing(news, "asset") => EventComing(news', "asset")
      BY <1>4, <2>2
    <3> QED BY <1>3, <1>6, <3>1 DEF OverviewInv, OperationsKept, PartKept, Loading
  <2> QED BY <2>1, <2>2
<1>10. LimitKept' BY <1>3, <1>6 DEF OverviewInv, LimitKept
<1>11. RecentKept("evaluation", "evaluations")' /\ RecentKept("review", "reviews")'
  <2>1. CASE event.kind \in {"evaluation", "review"} BY <1>3, <2>1 DEF RecentKept
  <2>2. CASE event.kind \notin {"evaluation", "review"}
    <3>1. /\ EventComing(news, "evaluation") => EventComing(news', "evaluation")
          /\ EventComing(news, "review") => EventComing(news', "review")
      BY <1>4, <2>2
    <3> QED BY <1>3, <1>6, <3>1 DEF OverviewInv, RecentKept
  <2> QED BY <2>1, <2>2
<1> QED BY <1>7, <1>8, <1>9, <1>10, <1>11 DEF OverviewInv

(* An event comes: it is shown, or the second part is read again.          *)
LEMMA NewsKeep ==
    ASSUME OverviewInv, subscribeAdminRecentChanges
    PROVE  OverviewInv'
<1>1. OverviewTyped /\ ReadsFit BY DEF OverviewInv
<1>2. PICK event : event = Head(news) OBVIOUS
<1>3. /\ news # <<>> /\ overview # Blank /\ news' = Tail(news)
      /\ UNCHANGED <<overviewRoute, operationsOverview, overviewError, budgetLimit, worlds,
                     overtaken>>
  BY DEF subscribeAdminRecentChanges
<1>4. /\ news \in Seq(News) /\ requests \in Seq(OverviewCalls) /\ overview \in Overviews
      /\ AtMostOne(requests, "load")
  BY <1>1, <1>3 DEF OverviewTyped, ReadsFit
<1>5. /\ event \in News /\ news' \in Seq(News) /\ Len(news') = Len(news) - 1
      /\ \A kind : EventComing(news, kind) => EventComing(news', kind) \/ event.kind = kind
  BY <1>1, <1>2, <1>3, EventGoes
<1>6. PICK o : o = overview' OBVIOUS
<1>7. /\ o \in Overviews /\ o # Blank
      /\ o.budgetAt = overview.budgetAt /\ o.summaryAt = overview.summaryAt
      /\ o.limit = overview.limit /\ o.remaining = overview.remaining
      /\ o.evaluation = overview.evaluation /\ o.review = overview.review
      /\ o.latestConclusion = overview.latestConclusion
      /\ \A kind \in {"evaluation", "review"} :
            \/ o.recent[kind] = overview.recent[kind] /\ event.kind # kind
            \/ o.recent[kind] # "pending"
  <2>1. CASE mapEventToRecentChange(event)
    <3>1. o = [overview EXCEPT !.recent[event.kind] = event.says]
      BY <1>2, <1>6, <2>1 DEF subscribeAdminRecentChanges, applyRecentChange
    <3>2. PICK recent : recent = [overview.recent EXCEPT ![event.kind] = event.says] OBVIOUS
    <3>3. o = [overview EXCEPT !.recent = recent] BY <3>1, <3>2
    <3>4. \/ event.kind = "billing" /\ event.says = "updated"
          \/ event.kind = "evaluation" /\ event.says \in {"passed", "failed"}
          \/ event.kind = "review" /\ event.says \in {"approved", "rejected"}
      BY <1>5, <2>1 DEF News, mapEventToRecentChange
    <3>5. overview.recent \in [billing : {"reserved", "pending", "updated"},
                               evaluation : {"pending", "passed", "failed"},
                               review : {"pending", "approved", "rejected"}]
      BY <1>4 DEF Overviews
    <3>6. /\ recent \in [billing : {"reserved", "pending", "updated"},
                         evaluation : {"pending", "passed", "failed"},
                         review : {"pending", "approved", "rejected"}]
          /\ \A kind \in {"evaluation", "review"} :
                \/ recent[kind] = overview.recent[kind] /\ event.kind # kind
                \/ recent[kind] # "pending"
      BY <3>2, <3>4, <3>5
    <3>7. o \in Overviews BY <1>4, <3>3, <3>6 DEF Overviews
    <3>8. o.recent = recent BY <1>4, <3>3 DEF Overviews
    <3>9. /\ o.budgetAt = overview.budgetAt /\ o.summaryAt = overview.summaryAt
          /\ o.limit = overview.limit /\ o.remaining = overview.remaining
          /\ o.evaluation = overview.evaluation /\ o.review = overview.review
          /\ o.latestConclusion = overview.latestConclusion
      BY <1>4, <3>3 DEF Overviews
    <3> QED BY <3>6, <3>7, <3>8, <3>9, BlankShowsNothing
  <2>2. CASE ~mapEventToRecentChange(event)
    <3>1. o = overview
      BY <1>2, <1>6, <2>2 DEF subscribeAdminRecentChanges, applyRecentChange
    <3>2. event.kind \notin {"evaluation", "review"} BY <2>2 DEF mapEventToRecentChange
    <3> QED BY <1>3, <1>4, <3>1, <3>2
  <2> QED BY <2>1, <2>2
<1>8. OverviewFits(worlds, overview) BY <1>1, <1>3 DEF ReadsFit
<1>9. Len(worlds) \in DOMAIN worlds /\ Len(worlds) \in Nat \ {0} BY <1>1, WorldAt
<1>10. PICK q : q = [kind |-> "operations", phase |-> "operations", enabled |-> TRUE,
                     since |-> Len(worlds), of |-> overview, limit |-> 0] OBVIOUS
<1>11. /\ q \in OverviewCalls /\ q.kind = "operations" /\ q.phase = "operations"
       /\ q.since = Len(worlds) /\ q.of = overview /\ q.enabled = TRUE
  BY <1>4, <1>9, <1>10 DEF OverviewCalls, Limits
<1>12. ReadFits(worlds, overviewRoute, q) BY <1>3, <1>8, <1>9, <1>11 DEF ReadFits
<1>13. requests' = IF RefreshesOperations(event) THEN Append(requests, q) ELSE requests
  BY <1>2, <1>10 DEF subscribeAdminRecentChanges, Asked
<1>14. /\ requests' \in Seq(OverviewCalls) /\ AtMostOne(requests', "load")
       /\ Range(requests) \subseteq Range(requests')
       /\ Range(requests') \subseteq Range(requests) \cup {q}
       /\ RefreshesOperations(event) => q \in Range(requests')
  <2>1. CASE RefreshesOperations(event) BY <1>4, <1>11, <1>13, <2>1, TaskBegins
  <2>2. CASE ~RefreshesOperations(event) BY <1>4, <1>13, <2>2
  <2> QED BY <2>1, <2>2
<1>15. \A kind : EventComing(news, kind) => EventComing(news', kind) \/ event.kind = kind
  BY <1>5
<1>16. OverviewTyped'
  <2>1. Len(news) \in Nat /\ Len(worlds) \in Nat BY <1>4, <1>9, LenProperties
  <2>2. Len(news') < Len(worlds') BY <1>1, <1>3, <1>5, <2>1 DEF OverviewTyped
  <2> QED BY <1>1, <1>3, <1>5, <1>6, <1>7, <1>14, <2>2 DEF OverviewTyped
<1>17. ReadsFit'
  <2>1. OverviewFits(worlds, o) BY <1>7, <1>8 DEF OverviewFits
  <2>2. \A r \in Range(requests') : ReadFits(worlds, overviewRoute, r)
    BY <1>1, <1>12, <1>14 DEF ReadsFit
  <2> QED BY <1>1, <1>3, <1>6, <1>14, <2>1, <2>2 DEF ReadsFit
<1>18. OnlyGrow(worlds') BY <1>3 DEF OverviewInv
<1>19. ErrorTold' /\ NothingLands' BY <1>6, <1>7 DEF ErrorTold, NothingLands
<1>20. \A field : WillRead(worlds, q, field)
  <2>1. \A m \in Len(worlds)..Len(worlds) : m = Len(worlds) BY <1>9
  <2> QED BY <1>11, <2>1 DEF WillRead, Unchanged
<1>21. OperationsKept'
  <2> SUFFICES ASSUME overviewRoute, "operations" \notin overtaken
               PROVE  /\ PartKept("run", "workflow", operationsOverview, operationsOverview.runAt)'
                      /\ PartKept("batch", "asset", operationsOverview, operationsOverview.batchAt)'
                      /\ \/ Loading(requests')
                         \/ operationsOverview # Blank /\ Derived(operationsOverview, o)
    BY <1>3, <1>6 DEF OperationsKept
  <2>1. /\ PartKept("run", "workflow", operationsOverview, operationsOverview.runAt)
        /\ PartKept("batch", "asset", operationsOverview, operationsOverview.batchAt)
        /\ \/ Loading(requests)
           \/ operationsOverview # Blank /\ Derived(operationsOverview, overview)
    BY <1>3 DEF OverviewInv, OperationsKept
  <2>2. event.kind \in {"workflow", "asset"} => q \in Range(requests')
    BY <1>14 DEF RefreshesOperations
  <2>3. PartKept("run", "workflow", operationsOverview, operationsOverview.runAt)'
    BY <1>3, <1>14, <1>15, <1>20, <2>1, <2>2 DEF PartKept
  <2>4. PartKept("batch", "asset", operationsOverview, operationsOverview.batchAt)'
    BY <1>3, <1>14, <1>15, <1>20, <2>1, <2>2 DEF PartKept
  <2>5. Derived(operationsOverview, overview) => Derived(operationsOverview, o)
    <3>1. buildReleaseBlockers(overview, "none", "none") = buildReleaseBlockers(o, "none", "none")
      BY <1>7 DEF buildReleaseBlockers
    <3> QED BY <3>1 DEF Derived
  <2>6. Loading(requests) => Loading(requests') BY <1>14 DEF Loading
  <2> QED BY <2>1, <2>3, <2>4, <2>5, <2>6
<1>22. LimitKept' BY <1>3, <1>6, <1>7, <1>14 DEF OverviewInv, LimitKept
<1>23. RecentKept("evaluation", "evaluations")'
  BY <1>3, <1>6, <1>7, <1>14, <1>15 DEF OverviewInv, RecentKept
<1>24. RecentKept("review", "reviews")'
  BY <1>3, <1>6, <1>7, <1>14, <1>15 DEF OverviewInv, RecentKept
<1> QED BY <1>16, <1>17, <1>18, <1>19, <1>21, <1>22, <1>23, <1>24 DEF OverviewInv

-----------------------------------------------------------------------------
(* The invariant holds at first.                                           *)
LEMMA OverviewStarts ==
    ASSUME OverviewInit
    PROVE  OverviewInv
<1>1. PICK l : l = [kind |-> "load", phase |-> "overview", enabled |-> TRUE, since |-> 1,
                    of |-> Blank, limit |-> 0] OBVIOUS
<1>2. /\ overviewRoute = TRUE /\ overview = Blank /\ operationsOverview = Blank
      /\ overviewError = FALSE /\ budgetLimit = 0 /\ worlds = <<Unreported>>
      /\ news = <<>> /\ requests = <<l>> /\ overtaken = {}
  BY <1>1 DEF OverviewInit
<1>3. Unreported \in Worlds BY EmptySeq DEF Unreported, Worlds, Limits
<1>4. /\ worlds \in Seq(Worlds) /\ Len(worlds) = 1 /\ DOMAIN worlds = {1}
      /\ worlds[1] = Unreported
  BY <1>2, <1>3
<1>5. /\ l \in OverviewCalls /\ l.kind = "load" /\ l.phase = "overview" /\ l.since = 1 /\ l.enabled = TRUE
  BY <1>1 DEF OverviewCalls, Limits
<1>6. /\ requests \in Seq(OverviewCalls) /\ DOMAIN requests = {1} /\ requests[1] = l
  BY <1>2, <1>5
<1>7. Range(requests) = {l} BY <1>6 DEF Range
<1>8. OverviewTyped
  <2>1. Len(news) = 0 /\ news \in Seq(News) BY <1>2, EmptySeq
  <2>2. worlds # <<>> BY <1>4
  <2>3. Len(worlds) <= MaxReports + 1 BY <1>4, OverviewBounds
  <2>4. budgetLimit \in Limits BY <1>2 DEF Limits
  <2>5. /\ overviewRoute \in BOOLEAN /\ overviewError \in BOOLEAN
        /\ overview = Blank /\ operationsOverview = Blank /\ overtaken = {}
    BY <1>2
  <2>6. Len(news) < Len(worlds) BY <1>4, <2>1
  <2>7. worlds \in Seq(Worlds) /\ requests \in Seq(OverviewCalls) BY <1>4, <1>6
  <2> QED BY <2>1, <2>2, <2>3, <2>4, <2>5, <2>6, <2>7 DEF OverviewTyped
<1>9. ReadsFit
  <2>1. ReadFits(worlds, overviewRoute, l) BY <1>2, <1>4, <1>5 DEF ReadFits
  <2>2. AtMostOne(requests, "load") BY <1>6 DEF AtMostOne
  <2> QED BY <1>2, <1>7, <2>1, <2>2 DEF ReadsFit
<1>10. OnlyGrow(worlds)
  <2>1. \A m \in {1} : \A n \in 1..m : n = m OBVIOUS
  <2> QED BY <1>4, <2>1 DEF OnlyGrow
<1>11. Loading(requests) BY <1>5, <1>7 DEF Loading
<1>12. ErrorTold /\ NothingLands BY <1>5, <1>7, <1>11 DEF ErrorTold, NothingLands
<1>13. \A field : WillRead(worlds, l, field) BY <1>5 DEF WillRead
<1>14. OperationsKept BY <1>7, <1>11, <1>13 DEF OperationsKept, PartKept
<1>15. LimitKept
  <2>1. \A m \in 1..1 : m = 1 OBVIOUS
  <2>2. WillLimit(worlds, l) BY <1>4, <1>5, <2>1 DEF WillLimit, Unchanged
  <2> QED BY <1>2, <1>7, <2>2 DEF LimitKept
<1>16. worlds[Len(worlds)]["evaluations"] = <<>> /\ worlds[Len(worlds)]["reviews"] = <<>>
  BY <1>4 DEF Unreported
<1>17. RecentKept("evaluation", "evaluations") /\ RecentKept("review", "reviews")
  BY <1>16 DEF RecentKept
<1> QED BY <1>8, <1>9, <1>10, <1>12, <1>14, <1>15, <1>17 DEF OverviewInv

(* Every step of the overview keeps it.                                    *)
LEMMA OverviewSteps ==
    ASSUME OverviewInv, [OverviewNext]_overviewVars
    PROVE  OverviewInv'
<1>1. CASE SwitchOverview BY <1>1, SwitchKeeps
<1>2. CASE \E limit \in Limits : TypeLimit(limit) BY <1>2, TypingKeeps
<1>3. CASE onUpdateBudgetLimit BY <1>3, CommandKeeps
<1>4. CASE OthersReport BY <1>4, OthersReportKeeps
<1>5. ASSUME NEW i \in DOMAIN requests,
             ServeBudget(i) \/ TakeOverview(i) \/ TakeBlockers(i) \/ TakeOverviewFailure(i)
      PROVE  OverviewInv'
  <2>1. CASE ServeBudget(i) BY <2>1, CommandSetsLimit
  <2>2. CASE TakeOverview(i) BY <2>2, OverviewReadKeeps, OverviewAloneKeeps
  <2>3. CASE TakeBlockers(i) BY <2>3, BothPartsKeep, BlockersAloneKeep
  <2>4. CASE TakeOverviewFailure(i) BY <2>4, FailedLoadKeeps, FailedReadKeeps
  <2> QED BY <1>5, <2>1, <2>2, <2>3, <2>4
<1>6. CASE subscribeAdminRecentChanges BY <1>6, NewsKeep
<1>7. CASE LoseReport BY <1>7, LossKeeps
<1>8. CASE UNCHANGED overviewVars
  <2>1. \A r \in Range(requests) : ReadFits(worlds, overviewRoute, r)
    BY DEF OverviewInv, ReadsFit
  <2>2. \A r \in Range(requests) : \E q \in Range(requests) : GoesOn(r, q) BY GoesOnItself
  <2>3. /\ requests \in Seq(OverviewCalls) /\ AtMostOne(requests, "load") /\ budgetLimit \in Limits
        /\ overtaken \subseteq {"limit", "operations", "recent", "error"}
    BY DEF OverviewInv, OverviewTyped, ReadsFit
  <2>4. /\ worlds' = worlds /\ news' = news /\ requests' = requests /\ overtaken' = overtaken
        /\ UNCHANGED <<overviewRoute, overview, operationsOverview, overviewError>>
        /\ budgetLimit' = budgetLimit
    BY <1>8 DEF overviewVars
  <2>5. overview = Blank /\ "limit" \notin overtaken =>
           \A r \in Range(requests) : WillLimit(worlds, r)
    BY DEF OverviewInv, LimitKept
  <2> QED BY <2>1, <2>2, <2>3, <2>4, <2>5, FunctionsGoOn
<1> QED BY <1>1, <1>2, <1>3, <1>4, <1>5, <1>6, <1>7, <1>8 DEF OverviewNext

(* The invariant of the overview page: what it shows was read, at states   *)
(* of the server it names, and what changed since is still going to be     *)
(* read, by a function that runs or one that an event on its way starts.   *)
THEOREM OverviewInvariance == OverviewSpec => []OverviewInv
<1>1. OverviewInit => OverviewInv BY OverviewStarts
<1>2. OverviewInv /\ [OverviewNext]_overviewVars => OverviewInv' BY OverviewSteps
<1> QED BY <1>1, <1>2, PTL DEF OverviewSpec

(* The page's state has its types, and what is shown of runs and batches   *)
(* was read from a state the server was in.                                *)
THEOREM OverviewTypes == OverviewSpec => []OverviewTypeOK
<1>1. OverviewInv => OverviewTypeOK
  <2> SUFFICES ASSUME OverviewInv PROVE OverviewTypeOK
    OBVIOUS
  <2>1. OverviewTyped /\ ReadsFit BY DEF OverviewInv
  <2>2. \A i \in DOMAIN requests : requests[i].phase \in {"asked", "overview", "operations"}
    BY <2>1, ReadIs DEF OverviewCalls
  <2>3. Len(worlds) \in Nat \ {0} BY <2>1, WorldAt
  <2>4. news \in Seq(News) BY <2>1 DEF OverviewTyped
  <2>5. Len(news) \in Nat BY <2>4, LenProperties
  <2>6. Len(worlds) \in 1..MaxReports + 1 /\ Len(news) <= MaxReports
    BY <2>1, <2>3, <2>5, OverviewBounds DEF OverviewTyped
  <2> QED BY <2>1, <2>2, <2>6 DEF OverviewTyped, ReadsFit, OperationsFits, OverviewTypeOK
<1> QED BY <1>1, OverviewInvariance, PTL

(* With no function running and no event on its way, whatever the limits   *)
(* on changes and moves, the overview page shows what follows from the     *)
(* server's state, or something slipped that is named.                     *)
THEOREM BlockersCurrent == OverviewSpec => []BlockersAreCurrent
<1>1. OverviewInv => BlockersAreCurrent
  <2> SUFFICES ASSUME OverviewInv, requests = <<>>, overviewRoute
               PROVE  /\ overview = Blank => overviewError \/ "error" \in overtaken
                      /\ overview # Blank /\ news = <<>> =>
                            /\ "operations" \notin overtaken =>
                                  /\ operationsOverview # Blank
                                  /\ operationsOverview.blockers =
                                         buildReleaseBlockers(overview, Latest.run, Latest.batch)
                                  /\ operationsOverview.alerts =
                                         buildRuntimeAlerts(Latest.run, Latest.batch)
                            /\ "limit" \notin overtaken => overview.limit = Latest.limit
                            /\ "recent" \notin overtaken =>
                                  /\ Latest.evaluations # <<>> =>
                                        overview.recent.evaluation # "pending"
                                  /\ Latest.reviews # <<>> => overview.recent.review # "pending"
    BY DEF BlockersAreCurrent
  <2>1. OverviewTyped /\ ReadsFit BY DEF OverviewInv
  <2>2. Range(requests) = {} BY DEF Range
  <2>3. ~Loading(requests) BY <2>2 DEF Loading
  <2>4. overview = Blank => overviewError \/ "error" \in overtaken
    BY <2>3 DEF OverviewInv, ErrorTold
  <2> SUFFICES ASSUME overview # Blank, news = <<>>
               PROVE  /\ "operations" \notin overtaken =>
                            /\ operationsOverview # Blank
                            /\ operationsOverview.blockers =
                                   buildReleaseBlockers(overview, Latest.run, Latest.batch)
                            /\ operationsOverview.alerts =
                                   buildRuntimeAlerts(Latest.run, Latest.batch)
                      /\ "limit" \notin overtaken => overview.limit = Latest.limit
                      /\ "recent" \notin overtaken =>
                            /\ Latest.evaluations # <<>> => overview.recent.evaluation # "pending"
                            /\ Latest.reviews # <<>> => overview.recent.review # "pending"
    BY <2>4
  <2>5. \A kind : ~EventComing(news, kind)
    <3>1. Range(news) = {} BY DEF Range
    <3> QED BY <3>1 DEF EventComing
  <2>6. DOMAIN worlds = 1..Len(worlds) /\ Len(worlds) \in Nat BY <2>1, WorldAt
  <2>7. ASSUME NEW field, NEW n \in DOMAIN worlds, Unchanged(worlds, field, n)
        PROVE  worlds[n][field] = Latest[field]
    <3>1. n \in n..Len(worlds) BY <2>6
    <3> QED BY <2>7, <3>1 DEF Unchanged, Latest
  <2>8. ASSUME "operations" \notin overtaken
        PROVE  /\ operationsOverview # Blank
               /\ operationsOverview.blockers =
                      buildReleaseBlockers(overview, Latest.run, Latest.batch)
               /\ operationsOverview.alerts = buildRuntimeAlerts(Latest.run, Latest.batch)
    <3>1. PICK p : p = operationsOverview OBVIOUS
    <3>2. /\ PartKept("run", "workflow", p, p.runAt) /\ PartKept("batch", "asset", p, p.batchAt)
          /\ p # Blank /\ Derived(p, overview)
      BY <2>3, <2>8, <3>1 DEF OverviewInv, OperationsKept
    <3>3. /\ Unchanged(worlds, "run", p.runAt) /\ Unchanged(worlds, "batch", p.batchAt)
      BY <2>2, <2>5, <3>2 DEF PartKept
    <3>4. OperationsFits(worlds, p) BY <2>1, <3>1, <3>2 DEF ReadsFit
    <3>5. worlds[p.runAt]["run"] = Latest["run"] /\ worlds[p.batchAt]["batch"] = Latest["batch"]
      BY <2>7, <3>3, <3>4 DEF OperationsFits
    <3>6. /\ "workflow" \in p.blockers <=> Latest.run = "failed"
          /\ "asset" \in p.blockers <=> Latest.batch = "uploaded"
          /\ p.alerts = buildRuntimeAlerts(Latest.run, Latest.batch)
      BY <3>4, <3>5 DEF OperationsFits
    <3>7. p.blockers \subseteq BlockerKinds
      BY <2>1, <3>1, <3>2 DEF OverviewTyped, OperationsOverviews
    <3>8. PICK b : b = buildReleaseBlockers(overview, Latest.run, Latest.batch) OBVIOUS
    <3>9. /\ "workflow" \in b <=> Latest.run = "failed"
          /\ "asset" \in b <=> Latest.batch = "uploaded"
          /\ "budget" \in b <=> "budget" \in buildReleaseBlockers(overview, "none", "none")
          /\ "review" \in b <=> "review" \in buildReleaseBlockers(overview, "none", "none")
          /\ b \subseteq BlockerKinds
      BY <3>8 DEF buildReleaseBlockers, BlockerKinds
    <3>10. \A kind \in BlockerKinds : kind \in p.blockers <=> kind \in b
      BY <3>2, <3>6, <3>9 DEF BlockerKinds, Derived
    <3>11. p.blockers = b BY <3>7, <3>9, <3>10
    <3> QED BY <3>1, <3>2, <3>6, <3>8, <3>11
  <2>9. ASSUME "limit" \notin overtaken
        PROVE  overview.limit = Latest.limit
    <3>1. Unchanged(worlds, "limit", overview.budgetAt)
      BY <2>2, <2>9 DEF OverviewInv, LimitKept
    <3>2. OverviewFits(worlds, overview) BY <2>1 DEF ReadsFit
    <3>3. worlds[overview.budgetAt]["limit"] = Latest["limit"]
      BY <2>7, <3>1, <3>2 DEF OverviewFits
    <3> QED BY <3>2, <3>3 DEF OverviewFits
  <2>10. ASSUME "recent" \notin overtaken
         PROVE  /\ Latest.evaluations # <<>> => overview.recent.evaluation # "pending"
                /\ Latest.reviews # <<>> => overview.recent.review # "pending"
    <3>1. RecentKept("evaluation", "evaluations") /\ RecentKept("review", "reviews")
      BY DEF OverviewInv
    <3> QED BY <2>2, <2>5, <2>10, <3>1 DEF RecentKept, Latest
  <2> QED BY <2>8, <2>9, <2>10
<1> QED BY <1>1, OverviewInvariance, PTL

-----------------------------------------------------------------------------
(* Uploads into a batch.                                                   *)

UploadRows == [status : {"none", "pending", "uploaded"}, until : 0..MaxMoments + 1]
ImportRows == {"asset", "file", "variant", "candidate", "execution", "item"}
Imports == [of : Uploads, rows : SUBSET ImportRows, confirmed : BOOLEAN]
CompleteStatuses == {"matched_pending_confirm", "uploaded_pending_match"}
Statements == ImportRows \cup CompleteStatuses \cup {"session", "confirmed"}
Requests ==
    [of : Uploads \cup {"batch"}, read : UploadRows, save : UploadRows,
     left : Seq(Statements), import : Nat, items : SUBSET Nat]

(* What a complete still has to save: the session, then the asset, the     *)
(* item after the other rows, and last the batch.                          *)
ChainFits(left) ==
    /\ Len(left) > 0
    /\ \A j \in DOMAIN left :
          /\ left[j] # "confirmed"
          /\ left[j] \in CompleteStatuses <=> j = Len(left)
          /\ left[j] = "item" => j = Len(left) - 1
          /\ left[j] = "session" => j = 1
          /\ left[j] = "asset" => j = 1 \/ (j = 2 /\ left[1] = "session")
    /\ left[1] = "session" => Len(left) > 1 /\ left[2] = "asset"
    /\ left[1] \in {"session", "asset"} => \E j \in DOMAIN left : left[j] = "item"

ItemLeft(r) == \E j \in DOMAIN r.left : r.left[j] = "item"
IsRetry(r) == r.left = <<"session">>

(* A complete that saved the asset row writes the rows of that import.     *)
Imported(r) == ~IsConfirm(r) /\ r.left[1] \notin {"session", "asset"}

(* A confirm names items of the batch; a retry and a complete read a       *)
(* session that was pending; a complete has an import whose rows it saved. *)
RequestFits(r) ==
    /\ IsConfirm(r) => r.left = <<"confirmed">> /\ r.items \subseteq BatchItems /\ BatchItems # {}
    /\ ~IsConfirm(r) =>
          /\ r.items = {} /\ r.read.status = "pending"
          /\ IsRetry(r) => r.save.status = "pending"
          /\ ~IsRetry(r) => r.save.status = "uploaded" /\ ChainFits(r.left)
    /\ Imported(r) =>
          /\ r.import \in DOMAIN imports /\ imports[r.import].of = r.of
          /\ ItemLeft(r) \/ "item" \in imports[r.import].rows

(* Request i has saved the session s as uploaded, and will begin its import*)
Begins(i, s) == uploadWork[i].of = s /\ uploadWork[i].left[1] = "asset"

(* Without a stale save a session is uploaded once, and that begins one    *)
(* import.                                                                 *)
UploadedOnce(s) ==
    <<"stale", s>> \notin uploadSlips =>
        /\ \A i, j \in DOMAIN uploadWork : Begins(i, s) /\ Begins(j, s) => i = j
        /\ \A k, l \in ImportsOf(s) : k = l
        /\ \A i \in DOMAIN uploadWork :
              Begins(i, s) => ImportsOf(s) = {} /\ uploads[s].status = "uploaded"
        /\ ImportsOf(s) # {} => uploads[s].status = "uploaded"
        /\ uploads[s].status = "uploaded" /\ <<"cut", s>> \notin uploadSlips =>
              ImportsOf(s) # {} \/ \E i \in DOMAIN uploadWork : Begins(i, s)

(* An import whose request did not stop has its item, or will have it.     *)
Saving(i, k) ==
    Imported(uploadWork[i]) /\ uploadWork[i].import = k /\ ItemLeft(uploadWork[i])
RowsCome(s) ==
    <<"cut", s>> \notin uploadSlips =>
        \A k \in ImportsOf(s) : k \in BatchItems \/ \E i \in DOMAIN uploadWork : Saving(i, k)

(* With no confirm under way the status of the batch is right, or will be  *)
(* saved by a complete; and what a complete imports is not confirmed.      *)
StatusFits ==
    batchStatus = "confirmed" <=> BatchItems # {} /\ \A k \in BatchItems : imports[k].confirmed
SavesStatus(i) == ~IsConfirm(uploadWork[i]) /\ uploadWork[i].left[1] \in CompleteStatuses
Undisturbed == \A slip \in uploadSlips : slip[1] = "stale"
Calm == Undisturbed /\ \A i \in DOMAIN uploadWork : ~IsConfirm(uploadWork[i])
BatchFits ==
    Calm =>
        /\ \A i \in DOMAIN uploadWork :
              Imported(uploadWork[i]) => ~imports[uploadWork[i].import].confirmed
        /\ StatusFits \/ \E i \in DOMAIN uploadWork : SavesStatus(i)

UploadInv ==
    /\ UploadTypeOK
    /\ imports \in Seq(Imports) /\ uploadWork \in Seq(Requests)
    /\ \A i \in DOMAIN uploadWork : RequestFits(uploadWork[i])
    /\ \A s \in Uploads : UploadedOnce(s) /\ RowsCome(s)
    /\ BatchFits

-----------------------------------------------------------------------------
LEMMA RequestAt ==
    ASSUME UploadInv, NEW i \in DOMAIN uploadWork
    PROVE  /\ uploadWork[i] \in Requests /\ RequestFits(uploadWork[i])
           /\ i \in Nat /\ Len(uploadWork) \in Nat
           /\ DOMAIN uploadWork = 1 .. Len(uploadWork)
<1>1. uploadWork \in Seq(Requests) BY DEF UploadInv
<1>2. Len(uploadWork) \in Nat /\ DOMAIN uploadWork = 1 .. Len(uploadWork)
  BY <1>1, LenProperties
<1>3. uploadWork[i] \in Requests BY <1>1, <1>2, ElementOfSeq
<1> QED BY <1>2, <1>3 DEF UploadInv

LEMMA ImportAt ==
    ASSUME UploadInv
    PROVE  /\ \A k \in DOMAIN imports : imports[k] \in Imports /\ k \in Nat
           /\ Len(imports) \in Nat /\ DOMAIN imports = 1 .. Len(imports)
<1>1. imports \in Seq(Imports) BY DEF UploadInv
<1>2. Len(imports) \in Nat /\ DOMAIN imports = 1 .. Len(imports) BY <1>1, LenProperties
<1>3. \A k \in 1 .. Len(imports) : imports[k] \in Imports BY <1>1, ElementOfSeq
<1> QED BY <1>2, <1>3

(* What is left of a request is something, and its first statement is one. *)
LEMMA FirstStatement ==
    ASSUME NEW r \in Requests, RequestFits(r)
    PROVE  /\ Len(r.left) \in Nat \ {0} /\ DOMAIN r.left = 1 .. Len(r.left)
           /\ Head(r.left) = r.left[1] /\ r.left[1] \in Statements
           /\ IsConfirm(r) <=> r.left[1] = "confirmed"
           /\ r.left[1] # "session" => ~IsRetry(r)
           /\ ~IsConfirm(r) /\ ~IsRetry(r) => ChainFits(r.left)
           /\ Len(r.left) = 1 <=>
                 IsConfirm(r) \/ IsRetry(r) \/ r.left[1] \in CompleteStatuses
<1>1. r.left \in Seq(Statements) BY DEF Requests
<1>2. Len(r.left) \in Nat /\ DOMAIN r.left = 1 .. Len(r.left) BY <1>1, LenProperties
<1>3. CASE IsConfirm(r)
  <2>1. r.left = <<"confirmed">> BY <1>3 DEF RequestFits
  <2> QED BY <1>3, <2>1 DEF IsRetry, Statements
<1>4. CASE IsRetry(r)
  <2>1. r.left = <<"session">> BY <1>4 DEF IsRetry
  <2>2. ~IsConfirm(r) BY <2>1 DEF RequestFits
  <2> QED BY <1>4, <2>1, <2>2 DEF IsRetry, Statements, CompleteStatuses
<1>5. CASE ~IsConfirm(r) /\ ~IsRetry(r)
  <2>1. ChainFits(r.left) BY <1>5 DEF RequestFits
  <2>2. Len(r.left) \in Nat \ {0} /\ 1 \in DOMAIN r.left BY <1>2, <2>1 DEF ChainFits
  <2>3. Head(r.left) = r.left[1] /\ r.left[1] \in Statements
    BY <1>1, <1>2, <2>2, ElementOfSeq
  <2>4. /\ r.left[1] # "confirmed"
        /\ r.left[1] \in CompleteStatuses <=> 1 = Len(r.left)
    BY <2>1, <2>2 DEF ChainFits
  <2> QED BY <1>2, <1>5, <2>1, <2>2, <2>3, <2>4
<1> QED BY <1>3, <1>4, <1>5

(* What is left of a complete when its first statement is done. *)
LEMMA ChainGoesOn ==
    ASSUME NEW left \in Seq(Statements), ChainFits(left), Len(left) # 1
    PROVE  /\ Tail(left) \in Seq(Statements) /\ ChainFits(Tail(left))
           /\ Tail(left) # <<"session">>
           /\ Tail(left)[1] # "session"
           /\ Tail(left)[1] = "asset" <=> left[1] = "session"
           /\ left[1] = "item" => Tail(left)[1] \in CompleteStatuses
           /\ left[1] # "item" /\ (\E j \in DOMAIN left : left[j] = "item") =>
                 \E j \in DOMAIN Tail(left) : Tail(left)[j] = "item"
<1> DEFINE n == Len(left)
           t == Tail(left)
<1>1. n \in Nat \ {0, 1} /\ DOMAIN left = 1 .. n /\ left # <<>>
  <2>1. n \in Nat /\ DOMAIN left = 1 .. n BY LenProperties
  <2>2. n > 0 BY DEF ChainFits
  <2>3. Len(<<>>) = 0 OBVIOUS
  <2> QED BY <2>1, <2>2, <2>3
<1>2. /\ t \in Seq(Statements) /\ Len(t) = n - 1
      /\ \A j \in 1 .. Len(t) : t[j] = left[j + 1]
  BY <1>1, HeadTailProperties
<1> HIDE DEF t, n
<1>3. DOMAIN t = 1 .. n - 1
  <2>1. DOMAIN t = 1 .. Len(t) BY <1>2, LenProperties
  <2> QED BY <1>2, <2>1
<1>4. \A j \in DOMAIN t : j + 1 \in DOMAIN left /\ t[j] = left[j + 1] /\ j \in Nat /\ j >= 1
  BY <1>1, <1>2, <1>3
<1>5. 1 \in DOMAIN t /\ 1 \in DOMAIN left /\ t[1] = left[2]
  <2>1. 1 \in DOMAIN t BY <1>1, <1>3
  <2>2. 1 + 1 = 2 OBVIOUS
  <2> QED BY <1>1, <1>4, <2>1, <2>2
<1>6. \A j \in DOMAIN left :
          /\ left[j] # "confirmed"
          /\ left[j] \in CompleteStatuses <=> j = n
          /\ left[j] = "item" => j = n - 1
          /\ left[j] = "session" => j = 1
          /\ left[j] = "asset" => j = 1 \/ (j = 2 /\ left[1] = "session")
  BY DEF ChainFits, n
<1>7. ASSUME NEW j \in DOMAIN t
      PROVE  /\ t[j] # "confirmed"
             /\ t[j] \in CompleteStatuses <=> j = n - 1
             /\ t[j] = "item" => j = n - 1 - 1
             /\ t[j] # "session"
             /\ t[j] = "asset" => j = 1 /\ left[1] = "session"
  <2>1. j + 1 \in DOMAIN left /\ t[j] = left[j + 1] /\ j \in Nat /\ j >= 1 BY <1>4
  <2>2. /\ left[j + 1] # "confirmed"
        /\ left[j + 1] \in CompleteStatuses <=> j + 1 = n
        /\ left[j + 1] = "item" => j + 1 = n - 1
        /\ left[j + 1] = "session" => j + 1 = 1
        /\ left[j + 1] = "asset" => j + 1 = 1 \/ (j + 1 = 2 /\ left[1] = "session")
    BY <1>6, <2>1
  <2>3. /\ j + 1 = n <=> j = n - 1
        /\ j + 1 = n - 1 <=> j = n - 1 - 1
        /\ j + 1 # 1
        /\ j + 1 = 2 <=> j = 1
    BY <1>1, <2>1
  <2> QED BY <2>1, <2>2, <2>3
<1>8. \A j \in DOMAIN left : j # 1 => \E k \in DOMAIN t : t[k] = left[j]
  <2> SUFFICES ASSUME NEW j \in DOMAIN left, j # 1
               PROVE  \E k \in DOMAIN t : t[k] = left[j]
    OBVIOUS
  <2>1. j - 1 \in DOMAIN t /\ j - 1 + 1 = j BY <1>1, <1>3
  <2>2. t[j - 1] = left[j] BY <1>4, <2>1
  <2> QED BY <2>1, <2>2
<1>9. left[1] \in {"session", "asset"} => \E j \in DOMAIN left : left[j] = "item"
  BY DEF ChainFits
<1>10. left[1] # "item" /\ (\E j \in DOMAIN left : left[j] = "item") =>
          \E j \in DOMAIN t : t[j] = "item"
  BY <1>8
<1>11. left[1] = "session" => t[1] = "asset" BY <1>5 DEF ChainFits
<1>12. t[1] = "asset" <=> left[1] = "session" BY <1>5, <1>7, <1>11
<1>13. ChainFits(t)
  <2>1. Len(t) > 0 BY <1>1, <1>2
  <2>2. t[1] # "session" BY <1>5, <1>7
  <2>3. t[1] = "asset" => \E j \in DOMAIN t : t[j] = "item"
    BY <1>9, <1>10, <1>12
  <2>4. Len(t) = n - 1 BY <1>2
  <2> QED BY <1>7, <2>1, <2>2, <2>3, <2>4 DEF ChainFits
<1>14. left[1] = "item" => t[1] \in CompleteStatuses
  <2> SUFFICES ASSUME left[1] = "item" PROVE 1 = n - 1 BY <1>5, <1>7
  <2>1. 1 = n - 1 BY <1>5, <1>6
  <2> QED BY <2>1
<1>15. t # <<"session">> BY <1>5, <1>7
<1> QED BY <1>2, <1>5, <1>7, <1>10, <1>12, <1>13, <1>14, <1>15 DEF t

LEMMA StatementsFit ==
    ASSUME NEW matched \in BOOLEAN
    PROVE  /\ StatementsOf(matched) \in Seq(Statements) /\ ChainFits(StatementsOf(matched))
           /\ StatementsOf(matched) # <<"session">> /\ StatementsOf(matched)[1] = "session"
<1>1. CASE matched
  <2>1. PICK left : left = <<"session", "asset", "file", "variant", "candidate", "execution",
                             "item", "matched_pending_confirm">>
    OBVIOUS
  <2>2. left \in Seq(Statements)
    BY <2>1 DEF Statements, ImportRows, CompleteStatuses
  <2>3. /\ Len(left) = 8 /\ DOMAIN left = {1, 2, 3, 4, 5, 6, 7, 8}
        /\ left[1] = "session" /\ left[2] = "asset" /\ left[3] = "file"
        /\ left[4] = "variant" /\ left[5] = "candidate" /\ left[6] = "execution"
        /\ left[7] = "item" /\ left[8] = "matched_pending_confirm"
    BY <2>1
  <2>4. ChainFits(left) BY <2>3 DEF ChainFits, CompleteStatuses
  <2>5. Len(<<"session">>) = 1 OBVIOUS
  <2> QED BY <1>1, <2>1, <2>2, <2>3, <2>4, <2>5 DEF StatementsOf
<1>2. CASE ~matched
  <2>1. PICK left : left = <<"session", "asset", "file", "variant", "item",
                             "uploaded_pending_match">>
    OBVIOUS
  <2>2. left \in Seq(Statements)
    BY <2>1 DEF Statements, ImportRows, CompleteStatuses
  <2>3. /\ Len(left) = 6 /\ DOMAIN left = {1, 2, 3, 4, 5, 6}
        /\ left[1] = "session" /\ left[2] = "asset" /\ left[3] = "file"
        /\ left[4] = "variant" /\ left[5] = "item" /\ left[6] = "uploaded_pending_match"
    BY <2>1
  <2>4. ChainFits(left) BY <2>3 DEF ChainFits, CompleteStatuses
  <2>5. Len(<<"session">>) = 1 OBVIOUS
  <2> QED BY <1>2, <2>1, <2>2, <2>3, <2>4, <2>5 DEF StatementsOf
<1> QED BY <1>1, <1>2

-----------------------------------------------------------------------------
(* Rows of imports are added, and never taken away. *)
ImportsGrow ==
    \A k \in DOMAIN imports :
        /\ k \in DOMAIN imports' /\ imports'[k].of = imports[k].of
        /\ imports[k].rows \subseteq imports'[k].rows

LEMMA FitStays ==
    ASSUME ImportsGrow
    PROVE  BatchItems \subseteq BatchItems' /\ \A r : RequestFits(r) => RequestFits(r)'
<1>1. BatchItems \subseteq BatchItems' BY DEF ImportsGrow, BatchItems
<1>2. ASSUME NEW r, RequestFits(r) PROVE RequestFits(r)'
  <2>1. Imported(r) => /\ r.import \in DOMAIN imports' /\ imports'[r.import].of = r.of
                       /\ ItemLeft(r) \/ "item" \in imports'[r.import].rows
    BY <1>2 DEF RequestFits, ImportsGrow
  <2>2. IsConfirm(r) => /\ r.left = <<"confirmed">> /\ r.items \subseteq BatchItems'
                        /\ BatchItems' # {}
    BY <1>1, <1>2 DEF RequestFits
  <2> QED BY <1>2, <2>1, <2>2 DEF RequestFits, Imported, IsConfirm, IsRetry, ItemLeft, ChainFits
<1> QED BY <1>1, <1>2

(* A step after which a session has the imports and the row it had, and    *)
(* the same requests will begin an import of it.                           *)
LEMMA OnceStays ==
    ASSUME NEW s \in Uploads, UploadedOnce(s), uploadSlips \subseteq uploadSlips',
           ImportsOf(s)' = ImportsOf(s), uploads'[s].status = uploads[s].status,
           NEW f,
           \A j \in DOMAIN uploadWork' :
              /\ Begins(j, s)' => f[j] \in DOMAIN uploadWork /\ Begins(f[j], s)
              /\ \A k \in DOMAIN uploadWork' : f[j] = f[k] => j = k,
           \/ <<"cut", s>> \in uploadSlips'
           \/ \A i \in DOMAIN uploadWork :
                 Begins(i, s) => \E j \in DOMAIN uploadWork' : Begins(j, s)'
    PROVE  UploadedOnce(s)'
<1> SUFFICES ASSUME <<"stale", s>> \notin uploadSlips'
             PROVE  /\ \A j, k \in DOMAIN uploadWork' : Begins(j, s)' /\ Begins(k, s)' => j = k
                    /\ \A k, l \in ImportsOf(s)' : k = l
                    /\ \A j \in DOMAIN uploadWork' :
                          Begins(j, s)' => ImportsOf(s)' = {} /\ uploads'[s].status = "uploaded"
                    /\ ImportsOf(s)' # {} => uploads'[s].status = "uploaded"
                    /\ uploads'[s].status = "uploaded" /\ <<"cut", s>> \notin uploadSlips' =>
                          ImportsOf(s)' # {} \/ \E j \in DOMAIN uploadWork' : Begins(j, s)'
  BY DEF UploadedOnce
<1>1. /\ \A i, j \in DOMAIN uploadWork : Begins(i, s) /\ Begins(j, s) => i = j
      /\ \A k, l \in ImportsOf(s) : k = l
      /\ \A i \in DOMAIN uploadWork :
            Begins(i, s) => ImportsOf(s) = {} /\ uploads[s].status = "uploaded"
      /\ ImportsOf(s) # {} => uploads[s].status = "uploaded"
      /\ uploads[s].status = "uploaded" /\ <<"cut", s>> \notin uploadSlips =>
            ImportsOf(s) # {} \/ \E i \in DOMAIN uploadWork : Begins(i, s)
  BY DEF UploadedOnce
<1>2. \A j, k \in DOMAIN uploadWork' : Begins(j, s)' /\ Begins(k, s)' => j = k
  <2> SUFFICES ASSUME NEW j \in DOMAIN uploadWork', NEW k \in DOMAIN uploadWork',
                      Begins(j, s)', Begins(k, s)'
               PROVE  j = k
    OBVIOUS
  <2>1. /\ f[j] \in DOMAIN uploadWork /\ Begins(f[j], s)
        /\ f[k] \in DOMAIN uploadWork /\ Begins(f[k], s)
    OBVIOUS
  <2>2. f[j] = f[k] BY <1>1, <2>1
  <2> QED BY <2>2
<1>3. \A j \in DOMAIN uploadWork' :
          Begins(j, s)' => ImportsOf(s)' = {} /\ uploads'[s].status = "uploaded"
  BY <1>1
<1>4. uploads'[s].status = "uploaded" /\ <<"cut", s>> \notin uploadSlips' =>
          ImportsOf(s)' # {} \/ \E j \in DOMAIN uploadWork' : Begins(j, s)'
  BY <1>1
<1> QED BY <1>1, <1>2, <1>3, <1>4

(* A step after which an import has its item, or a request that saves it,  *)
(* if it had one.                                                          *)
LEMMA RowsStay ==
    ASSUME NEW s \in Uploads, RowsCome(s), uploadSlips \subseteq uploadSlips',
           ImportsOf(s)' = ImportsOf(s), BatchItems \subseteq BatchItems',
           \A k \in ImportsOf(s) : \A i \in DOMAIN uploadWork : Saving(i, k) =>
              \/ <<"cut", s>> \in uploadSlips' \/ k \in BatchItems'
              \/ \E j \in DOMAIN uploadWork' : Saving(j, k)'
    PROVE  RowsCome(s)'
<1> SUFFICES ASSUME <<"cut", s>> \notin uploadSlips', NEW k \in ImportsOf(s)
             PROVE  k \in BatchItems' \/ \E j \in DOMAIN uploadWork' : Saving(j, k)'
  BY DEF RowsCome
<1>1. k \in BatchItems \/ \E i \in DOMAIN uploadWork : Saving(i, k) BY DEF RowsCome
<1> QED BY <1>1

(* A step that changes no import and no status. *)
LEMMA ImportsStand ==
    ASSUME UNCHANGED imports
    PROVE  /\ ImportsGrow /\ BatchItems' = BatchItems
           /\ \A s : ImportsOf(s)' = ImportsOf(s)
           /\ UNCHANGED batchStatus => (StatusFits' <=> StatusFits)
BY DEF ImportsGrow, BatchItems, ImportsOf, StatusFits

LEMMA UploadInvInit == ASSUME UploadInit PROVE UploadInv
<1>1. /\ imports = <<>> /\ uploadWork = <<>> /\ batchStatus = "pending_review"
      /\ \A s \in Uploads : uploads[s] = NoUpload
  BY DEF UploadInit
<1>2. DOMAIN <<>> = {} OBVIOUS
<1>3. <<>> \in Seq(Imports) /\ <<>> \in Seq(Requests) OBVIOUS
<1>4. NoUpload \in UploadRows /\ NoUpload.status = "none"
  <2>1. 0 \in 0..MaxMoments + 1 BY UploadBounds
  <2> QED BY <2>1 DEF NoUpload, UploadRows
<1>5. UploadTypeOK
  <2>1. uploads \in [Uploads -> UploadRows] BY <1>4 DEF UploadInit
  <2>2. 0 \in 0..MaxRequests /\ 0 \in 0..MaxMoments BY UploadBounds
  <2> QED BY <1>1, <1>2, <2>1, <2>2 DEF UploadTypeOK, UploadInit, UploadRows
<1>6. BatchItems = {} /\ \A s : ImportsOf(s) = {} BY <1>1, <1>2 DEF BatchItems, ImportsOf
<1>7. \A s \in Uploads : UploadedOnce(s) /\ RowsCome(s)
  BY <1>1, <1>2, <1>4, <1>6 DEF UploadedOnce, RowsCome
<1>8. BatchFits BY <1>1, <1>2, <1>6 DEF BatchFits, StatusFits, Calm
<1> QED BY <1>1, <1>2, <1>3, <1>5, <1>7, <1>8 DEF UploadInv

(* The rest of the type: a row that is saved, and time that passes. *)
LEMMA TypeStays ==
    ASSUME UploadInv, uploads' \in [Uploads -> UploadRows], imports' \in Seq(Imports),
           ImportsGrow, \A k \in DOMAIN imports' \ DOMAIN imports : "asset" \in imports'[k].rows,
           batchStatus' \in CompleteStatuses \cup {batchStatus, "confirmed"},
           requested' \in 0..MaxRequests, moment' \in 0..MaxMoments
    PROVE  UploadTypeOK'
<1>1. ASSUME NEW k \in DOMAIN imports'
      PROVE  imports'[k].of \in Uploads /\ "asset" \in imports'[k].rows
  <2>1. imports'[k] \in Imports
    <3>1. DOMAIN imports' = 1 .. Len(imports') BY LenProperties
    <3> QED BY <3>1, ElementOfSeq
  <2>2. k \in DOMAIN imports => "asset" \in imports'[k].rows
    BY DEF ImportsGrow, UploadInv, UploadTypeOK
  <2> QED BY <2>1, <2>2 DEF Imports
<1>2. batchStatus' \in CompleteStatuses \cup {"pending_review", "confirmed"}
  BY DEF UploadInv, UploadTypeOK, CompleteStatuses
<1> QED BY <1>1, <1>2 DEF UploadTypeOK, UploadRows, CompleteStatuses

-----------------------------------------------------------------------------
(* The requests under way are those there were, at f: request i has become *)
(* w, and the others are what they were.                                   *)
Follows(f, i, w) ==
    /\ \A j \in DOMAIN uploadWork' :
          f[j] \in DOMAIN uploadWork
            /\ uploadWork'[j] = IF f[j] = i THEN w ELSE uploadWork[f[j]]
    /\ \A j, k \in DOMAIN uploadWork' : f[j] = f[k] => j = k
    /\ \A m \in DOMAIN uploadWork \ {i} : \E j \in DOMAIN uploadWork' : f[j] = m
IsGone(f, i) == \A j \in DOMAIN uploadWork' : f[j] # i
IsLeft(f, i) == \E j \in DOMAIN uploadWork' : f[j] = i

LEMMA Removed ==
    ASSUME UploadInv, NEW i \in DOMAIN uploadWork, uploadWork' = RemoveAt(uploadWork, i), NEW w
    PROVE  uploadWork' \in Seq(Requests) /\ \E f : Follows(f, i, w) /\ IsGone(f, i)
<1>1. uploadWork \in Seq(Requests) BY DEF UploadInv
<1>2. i \in Nat BY RequestAt
<1>3. /\ uploadWork' \in Seq(Requests)
      /\ \A j \in DOMAIN uploadWork' :
            uploadWork'[j] = uploadWork[IF j < i THEN j ELSE j + 1]
      /\ \A j \in DOMAIN uploadWork' :
            (IF j < i THEN j ELSE j + 1) \in DOMAIN uploadWork \ {i}
      /\ \A k \in DOMAIN uploadWork \ {i} : \E j \in DOMAIN uploadWork' :
            k = IF j < i THEN j ELSE j + 1
  BY <1>1, OneIsOver
<1>4. DOMAIN uploadWork' \subseteq Nat BY <1>3, LenProperties
<1>5. PICK f : f = [j \in DOMAIN uploadWork' |-> IF j < i THEN j ELSE j + 1] OBVIOUS
<1>6. \A j \in DOMAIN uploadWork' : f[j] = IF j < i THEN j ELSE j + 1 BY <1>5
<1>7. \A j, k \in DOMAIN uploadWork' : f[j] = f[k] => j = k BY <1>2, <1>4, <1>6
<1>8. IsGone(f, i) BY <1>3, <1>6 DEF IsGone
<1>9. Follows(f, i, w)
  <2>1. \A j \in DOMAIN uploadWork' :
            f[j] \in DOMAIN uploadWork /\ f[j] # i /\ uploadWork'[j] = uploadWork[f[j]]
    BY <1>3, <1>6
  <2>2. \A m \in DOMAIN uploadWork \ {i} : \E j \in DOMAIN uploadWork' : f[j] = m
    BY <1>3, <1>6
  <2> QED BY <1>7, <2>1, <2>2 DEF Follows
<1> QED BY <1>3, <1>8, <1>9

LEMMA Changed ==
    ASSUME UploadInv, NEW i \in DOMAIN uploadWork, NEW w \in Requests,
           uploadWork' = [uploadWork EXCEPT ![i] = w]
    PROVE  uploadWork' \in Seq(Requests) /\ \E f : Follows(f, i, w) /\ IsLeft(f, i)
<1>1. uploadWork \in Seq(Requests) BY DEF UploadInv
<1>2. /\ uploadWork' \in Seq(Requests) /\ DOMAIN uploadWork' = DOMAIN uploadWork
      /\ \A j \in DOMAIN uploadWork : uploadWork'[j] = IF j = i THEN w ELSE uploadWork[j]
  BY <1>1, OneChanges
<1>3. PICK f : f = [j \in DOMAIN uploadWork |-> j] OBVIOUS
<1>4. \A j \in DOMAIN uploadWork : f[j] = j BY <1>3
<1>5. Follows(f, i, w) BY <1>2, <1>4 DEF Follows
<1>6. IsLeft(f, i) BY <1>2, <1>4 DEF IsLeft
<1> QED BY <1>2, <1>5, <1>6

(* A statement is done: the request has what is left to do, or is gone.    *)
RestOf(r) == [r EXCEPT !.left = Tail(@)]

LEMMA StatementDone ==
    ASSUME UploadInv, NEW i \in DOMAIN uploadWork, NEW r \in Requests, RequestFits(r),
           Done(i, r)
    PROVE  /\ uploadWork' \in Seq(Requests)
           /\ \E f : /\ Follows(f, i, RestOf(r))
                     /\ Len(r.left) = 1 => IsGone(f, i)
                     /\ Len(r.left) # 1 => IsLeft(f, i)
<1>1. CASE Len(r.left) = 1
  <2>1. uploadWork' = RemoveAt(uploadWork, i) BY <1>1 DEF Done
  <2> QED BY <1>1, <2>1, Removed
<1>2. CASE Len(r.left) # 1
  <2>1. uploadWork' = [uploadWork EXCEPT ![i] = RestOf(r)] BY <1>2 DEF Done, RestOf
  <2>2. RestOf(r) \in Requests
    <3>1. r.left \in Seq(Statements) BY DEF Requests
    <3>2. ChainFits(r.left) BY <1>2, FirstStatement
    <3>3. Tail(r.left) \in Seq(Statements) BY <1>2, <3>1, <3>2, ChainGoesOn
    <3> QED BY <3>3 DEF RestOf, Requests
  <2> QED BY <1>2, <2>1, <2>2, Changed
<1> QED BY <1>1, <1>2

(* The requests fit when the one that went on does. *)
LEMMA FitFollows ==
    ASSUME UploadInv, ImportsGrow, NEW f, NEW i \in DOMAIN uploadWork, NEW w,
           Follows(f, i, w), IsLeft(f, i) => RequestFits(w)'
    PROVE  (\A j \in DOMAIN uploadWork : RequestFits(uploadWork[j]))'
<1> SUFFICES ASSUME NEW j \in DOMAIN uploadWork', NEW x, x = uploadWork'[j]
             PROVE  RequestFits(x)'
  OBVIOUS
<1>1. CASE f[j] = i
  BY <1>1 DEF Follows, IsLeft
<1>2. CASE f[j] # i
  <2>1. f[j] \in DOMAIN uploadWork /\ x = uploadWork[f[j]] BY <1>2 DEF Follows
  <2>2. RequestFits(x) BY <2>1 DEF UploadInv
  <2> QED BY <2>2, FitStays
<1> QED BY <1>1, <1>2

(* Nothing changed for session s, and a request that will begin an import  *)
(* of it is still there, or was cut.                                       *)
LEMMA OnceFollows ==
    ASSUME UploadInv, NEW s \in Uploads, uploadSlips \subseteq uploadSlips',
           ImportsOf(s)' = ImportsOf(s), uploads'[s].status = uploads[s].status,
           NEW f, NEW i \in DOMAIN uploadWork, NEW w, Follows(f, i, w),
           IsLeft(f, i) => (w.of = s /\ w.left[1] = "asset" <=> Begins(i, s)),
           IsLeft(f, i) \/ ~Begins(i, s) \/ <<"cut", s>> \in uploadSlips'
    PROVE  UploadedOnce(s)'
<1>1. ASSUME NEW j \in DOMAIN uploadWork', Begins(j, s)'
      PROVE  f[j] \in DOMAIN uploadWork /\ Begins(f[j], s)
  BY <1>1 DEF Follows, IsLeft, Begins
<1>2. \A j, k \in DOMAIN uploadWork' : f[j] = f[k] => j = k BY DEF Follows
<1>3. ASSUME NEW m \in DOMAIN uploadWork, Begins(m, s), <<"cut", s>> \notin uploadSlips'
      PROVE  \E j \in DOMAIN uploadWork' : Begins(j, s)'
  BY <1>3 DEF Follows, IsLeft, Begins
<1>4. UploadedOnce(s) BY DEF UploadInv
<1>5. \A j \in DOMAIN uploadWork' :
        /\ Begins(j, s)' => f[j] \in DOMAIN uploadWork /\ Begins(f[j], s)
        /\ \A k \in DOMAIN uploadWork' : f[j] = f[k] => j = k
  BY <1>1, <1>2
<1>6. \/ <<"cut", s>> \in uploadSlips'
      \/ \A m \in DOMAIN uploadWork :
            Begins(m, s) => \E j \in DOMAIN uploadWork' : Begins(j, s)'
  BY <1>3
<1> QED BY <1>4, <1>5, <1>6, OnceStays

(* The request that saves the item of an import is still there, or the     *)
(* item is, or it was cut.                                                 *)
LEMMA RowsFollow ==
    ASSUME UploadInv, NEW s \in Uploads, uploadSlips \subseteq uploadSlips',
           ImportsOf(s)' = ImportsOf(s), BatchItems \subseteq BatchItems',
           NEW f, NEW i \in DOMAIN uploadWork, NEW w, Follows(f, i, w),
           \A k \in ImportsOf(s) : Saving(i, k) =>
              \/ <<"cut", s>> \in uploadSlips' \/ k \in BatchItems'
              \/ IsLeft(f, i) /\ Imported(w) /\ w.import = k /\ ItemLeft(w)
    PROVE  RowsCome(s)'
<1>1. ASSUME NEW k \in ImportsOf(s), NEW m \in DOMAIN uploadWork, Saving(m, k),
             <<"cut", s>> \notin uploadSlips', k \notin BatchItems'
      PROVE  \E j \in DOMAIN uploadWork' : Saving(j, k)'
  <2>1. CASE m = i
    <3>1. PICK j \in DOMAIN uploadWork' : f[j] = i BY <1>1, <2>1 DEF IsLeft
    <3>2. uploadWork'[j] = w BY <3>1 DEF Follows
    <3>3. Imported(w) /\ w.import = k /\ ItemLeft(w) BY <1>1, <2>1
    <3> QED BY <3>2, <3>3 DEF Saving, Imported, ItemLeft, IsConfirm
  <2>2. CASE m # i
    <3>1. PICK j \in DOMAIN uploadWork' : f[j] = m BY <2>2 DEF Follows
    <3>2. uploadWork'[j] = uploadWork[m] BY <2>2, <3>1 DEF Follows
    <3> QED BY <1>1, <3>2 DEF Saving, Imported, ItemLeft, IsConfirm
  <2> QED BY <2>1, <2>2
<1>2. RowsCome(s) BY DEF UploadInv
<1> QED BY <1>1, <1>2, RowsStay

(* A request that is no confirm does a statement: the items stay, or it is *)
(* about to save the status of the batch.                                  *)
LEMMA BatchFollows ==
    ASSUME UploadInv, uploadSlips \subseteq uploadSlips',
           \A k \in DOMAIN imports : imports'[k].confirmed = imports[k].confirmed,
           NEW f, NEW i \in DOMAIN uploadWork, NEW w, Follows(f, i, w),
           ~IsConfirm(uploadWork[i]),
           Calm /\ IsLeft(f, i) /\ Imported(w) => ~imports'[w.import].confirmed,
           \/ BatchItems' = BatchItems /\ batchStatus' = batchStatus /\ ~SavesStatus(i)
           \/ IsLeft(f, i) /\ ~IsConfirm(w) /\ w.left[1] \in CompleteStatuses
    PROVE  BatchFits'
<1> SUFFICES ASSUME Calm'
             PROVE  /\ \A j \in DOMAIN uploadWork' :
                          Imported(uploadWork[j])' =>
                              ~imports'[uploadWork'[j].import].confirmed
                    /\ StatusFits' \/ \E j \in DOMAIN uploadWork' : SavesStatus(j)'
  BY DEF BatchFits
<1>1. Calm
  <2>1. Undisturbed BY DEF Calm, Undisturbed
  <2>2. ASSUME NEW m \in DOMAIN uploadWork PROVE ~IsConfirm(uploadWork[m])
    <3>1. CASE m # i
      <4>1. PICK j \in DOMAIN uploadWork' : f[j] = m BY <3>1 DEF Follows
      <4>2. uploadWork'[j] = uploadWork[m] BY <3>1, <4>1 DEF Follows
      <4>3. uploadWork'[j].of # "batch" BY DEF Calm, IsConfirm
      <4> QED BY <4>2, <4>3 DEF IsConfirm
    <3> QED BY <3>1
  <2> QED BY <2>1, <2>2 DEF Calm
<1>2. /\ \A m \in DOMAIN uploadWork :
            Imported(uploadWork[m]) => ~imports[uploadWork[m].import].confirmed
      /\ StatusFits \/ \E m \in DOMAIN uploadWork : SavesStatus(m)
  BY <1>1 DEF BatchFits, UploadInv
<1>3. ASSUME NEW j \in DOMAIN uploadWork', Imported(uploadWork[j])'
      PROVE  ~imports'[uploadWork'[j].import].confirmed
  <2>1. CASE f[j] = i
    <3>1. uploadWork'[j] = w BY <2>1 DEF Follows
    <3>2. Imported(w) BY <1>3, <3>1 DEF Imported, IsConfirm
    <3> QED BY <1>1, <2>1, <3>1, <3>2 DEF IsLeft
  <2>2. CASE f[j] # i
    <3>1. f[j] \in DOMAIN uploadWork /\ uploadWork'[j] = uploadWork[f[j]]
      BY <2>2 DEF Follows
    <3>2. Imported(uploadWork[f[j]]) BY <1>3, <3>1 DEF Imported, IsConfirm
    <3>3. uploadWork[f[j]].import \in DOMAIN imports
      BY <3>1, <3>2, RequestAt DEF RequestFits
    <3> QED BY <1>2, <3>1, <3>2, <3>3
  <2> QED BY <2>1, <2>2
<1>4. CASE BatchItems' = BatchItems /\ batchStatus' = batchStatus /\ ~SavesStatus(i)
  <2>1. BatchItems \subseteq DOMAIN imports BY DEF BatchItems
  <2>2. StatusFits => StatusFits' BY <1>4, <2>1 DEF StatusFits
  <2>3. ASSUME NEW m \in DOMAIN uploadWork, SavesStatus(m)
        PROVE  \E j \in DOMAIN uploadWork' : SavesStatus(j)'
    <3>1. m # i BY <1>4, <2>3
    <3>2. PICK j \in DOMAIN uploadWork' : f[j] = m BY <3>1 DEF Follows
    <3>3. uploadWork'[j] = uploadWork[m] BY <3>1, <3>2 DEF Follows
    <3> QED BY <2>3, <3>3 DEF SavesStatus, IsConfirm
  <2> QED BY <1>2, <1>3, <2>2, <2>3
<1>5. CASE IsLeft(f, i) /\ ~IsConfirm(w) /\ w.left[1] \in CompleteStatuses
  <2>1. PICK j \in DOMAIN uploadWork' : f[j] = i BY <1>5 DEF IsLeft
  <2>2. uploadWork'[j] = w BY <2>1 DEF Follows
  <2>3. SavesStatus(j)' BY <1>5, <2>2 DEF SavesStatus, IsConfirm
  <2> QED BY <1>3, <2>3
<1> QED BY <1>4, <1>5

-----------------------------------------------------------------------------
LEMMA SaveUploadSessionStep ==
    ASSUME UploadInv, NEW i \in DOMAIN uploadWork, SaveUploadSession(i) PROVE UploadInv'
<1>0. PICK r : r = uploadWork[i] OBVIOUS
<1>20. PICK w : w = RestOf(r) OBVIOUS
<1>1. r \in Requests /\ RequestFits(r) BY <1>0, RequestAt
<1>2. /\ Head(r.left) = "session" /\ uploads' = [uploads EXCEPT ![r.of] = r.save]
      /\ uploadSlips' = IF uploads[r.of].status = r.read.status THEN uploadSlips
                        ELSE uploadSlips \cup {<<"stale", r.of>>}
      /\ Done(i, r) /\ UNCHANGED <<imports, batchStatus, requested, moment>>
  BY <1>0 DEF SaveUploadSession
<1>3. PICK f : /\ Follows(f, i, w)
               /\ Len(r.left) = 1 => IsGone(f, i)
               /\ Len(r.left) # 1 => IsLeft(f, i)
  BY <1>1, <1>2, <1>20, StatementDone
<1>4. uploadWork' \in Seq(Requests) BY <1>1, <1>2, StatementDone
<1>5. /\ r.left[1] = "session" /\ ~IsConfirm(r) /\ r.of \in Uploads
      /\ r.items = {} /\ r.read.status = "pending"
      /\ Len(r.left) = 1 <=> IsRetry(r)
  <2>1. r.left[1] = "session" /\ ~IsConfirm(r) BY <1>1, <1>2, FirstStatement
  <2>2. Len(r.left) = 1 <=> IsRetry(r)
    BY <1>1, <2>1, FirstStatement DEF CompleteStatuses
  <2> QED BY <1>1, <2>1, <2>2 DEF RequestFits, Requests, IsConfirm
<1>6. ~Imported(r) /\ ~SavesStatus(i) BY <1>0, <1>5 DEF Imported, SavesStatus, CompleteStatuses
<1>7. /\ IsRetry(r) => r.save.status = "pending"
      /\ ~IsRetry(r) => /\ r.save.status = "uploaded" /\ ChainFits(r.left)
                        /\ Len(r.left) # 1
  BY <1>1, <1>5 DEF RequestFits
<1>8. /\ w.of = r.of /\ w.left = Tail(r.left) /\ w.items = r.items /\ w.read = r.read
      /\ w.save = r.save
  BY <1>1, <1>20 DEF RestOf, Requests
<1>9. ~IsRetry(r) => /\ ChainFits(w.left) /\ w.left # <<"session">>
                    /\ w.left[1] = "asset"
  <2>1. r.left \in Seq(Statements) BY <1>1 DEF Requests
  <2> QED BY <1>5, <1>7, <1>8, <2>1, ChainGoesOn
<1>10. IsLeft(f, i) => ~IsRetry(r) BY <1>3, <1>5 DEF IsLeft, IsGone
<1>11. IsLeft(f, i) => RequestFits(w) /\ ~Imported(w)
  <2> SUFFICES ASSUME ~IsRetry(r) PROVE RequestFits(w) /\ ~Imported(w) BY <1>10
  <2>1. ~IsConfirm(w) /\ ~IsRetry(w) BY <1>5, <1>8, <1>9 DEF IsConfirm, IsRetry
  <2>2. ~Imported(w) BY <1>9 DEF Imported
  <2>3. w.items = {} /\ w.read.status = "pending" /\ w.save.status = "uploaded"
    BY <1>5, <1>7, <1>8
  <2> QED BY <1>9, <2>1, <2>2, <2>3 DEF RequestFits
<1>12. /\ ImportsGrow /\ BatchItems' = BatchItems /\ \A s : ImportsOf(s)' = ImportsOf(s)
  BY <1>2, ImportsStand
<1>13. (\A j \in DOMAIN uploadWork : RequestFits(uploadWork[j]))'
  <2>1. IsLeft(f, i) => RequestFits(w)' BY <1>11, <1>12, FitStays
  <2> QED BY <1>3, <1>12, <2>1, FitFollows
<1>14. uploads \in [Uploads -> UploadRows] /\ uploads' \in [Uploads -> UploadRows]
  <2>1. uploads \in [Uploads -> UploadRows] BY DEF UploadInv, UploadTypeOK, UploadRows
  <2>2. r.save \in UploadRows BY <1>1 DEF Requests
  <2> QED BY <1>2, <1>5, <2>1, <2>2
<1>15. UploadTypeOK'
  <2>1. imports' \in Seq(Imports) BY <1>2 DEF UploadInv
  <2>2. requested' \in 0..MaxRequests /\ moment' \in 0..MaxMoments
    BY <1>2 DEF UploadInv, UploadTypeOK
  <2> QED BY <1>2, <1>12, <1>14, <2>1, <2>2, TypeStays
<1>16. uploadSlips \subseteq uploadSlips' BY <1>2
<1>17. ASSUME NEW s \in Uploads PROVE UploadedOnce(s)' /\ RowsCome(s)'
  <2>1. RowsCome(s)'
    <3>1. \A k : ~Saving(i, k) BY <1>0, <1>6 DEF Saving
    <3> QED BY <1>3, <1>12, <1>16, <3>1, RowsFollow
  <2>2. CASE s # r.of
    <3>1. uploads'[s].status = uploads[s].status BY <1>2, <1>14, <2>2
    <3>2. ~Begins(i, s) /\ w.of # s BY <1>0, <1>8, <2>2 DEF Begins
    <3>3. UploadedOnce(s)' BY <1>3, <1>12, <1>16, <3>1, <3>2, OnceFollows
    <3> QED BY <2>1, <3>3
  <2>3. CASE s = r.of
    <3>1. uploads'[s] = r.save BY <1>2, <1>14, <2>3
    <3>2. SUFFICES ASSUME <<"stale", s>> \notin uploadSlips' PROVE UploadedOnce(s)'
      BY <2>1 DEF UploadedOnce
    <3>3. uploads[s].status = "pending" /\ <<"stale", s>> \notin uploadSlips
      <4>1. uploadSlips' = IF uploads[r.of].status = r.read.status THEN uploadSlips
                           ELSE uploadSlips \cup {<<"stale", r.of>>}
        BY <1>2
      <4>2. uploads[r.of].status = r.read.status BY <2>3, <3>2, <4>1
      <4> QED BY <1>5, <2>3, <3>2, <4>1, <4>2
    <3>4. ImportsOf(s) = {} /\ \A m \in DOMAIN uploadWork : ~Begins(m, s)
      BY <3>3 DEF UploadInv, UploadedOnce
    <3>5. \A j \in DOMAIN uploadWork' : Begins(j, s)' => f[j] = i
      BY <1>3, <3>4 DEF Follows, Begins
    <3>6. \A j, k \in DOMAIN uploadWork' : Begins(j, s)' /\ Begins(k, s)' => j = k
      <4>1. \A j, k \in DOMAIN uploadWork' : f[j] = f[k] => j = k BY <1>3 DEF Follows
      <4> QED BY <3>5, <4>1
    <3>7. \A j \in DOMAIN uploadWork' : Begins(j, s)' => uploads'[s].status = "uploaded"
      BY <1>7, <1>10, <3>1, <3>5 DEF IsLeft
    <3>8. uploads'[s].status = "uploaded" => \E j \in DOMAIN uploadWork' : Begins(j, s)'
      <4> SUFFICES ASSUME ~IsRetry(r) PROVE \E j \in DOMAIN uploadWork' : Begins(j, s)'
        BY <1>7, <3>1
      <4>1. PICK j \in DOMAIN uploadWork' : f[j] = i BY <1>3, <1>7 DEF IsLeft
      <4>2. uploadWork'[j] = w BY <1>3, <4>1 DEF Follows
      <4> QED BY <1>8, <1>9, <2>3, <4>2 DEF Begins
    <3> QED BY <1>12, <3>4, <3>6, <3>7, <3>8 DEF UploadedOnce
  <2> QED BY <2>2, <2>3
<1>18. BatchFits'
  <2>1. \A k \in DOMAIN imports : imports'[k].confirmed = imports[k].confirmed BY <1>2
  <2>2. ~IsConfirm(uploadWork[i]) BY <1>0, <1>5
  <2> QED BY <1>2, <1>3, <1>6, <1>11, <1>12, <1>16, <2>1, <2>2, BatchFollows
<1>19. imports' \in Seq(Imports) BY <1>2 DEF UploadInv
<1> QED BY <1>4, <1>13, <1>15, <1>17, <1>18, <1>19 DEF UploadInv

(* A row of an import: the first begins it. *)
LEMMA SaveAssetStep ==
    ASSUME UploadInv, NEW i \in DOMAIN uploadWork, SaveImportRow(i),
           uploadWork[i].left[1] = "asset"
    PROVE  UploadInv'
<1>1. PICK r, k : r = uploadWork[i] /\ k = Len(imports) + 1 OBVIOUS
<1>2. PICK q, w : q = [r EXCEPT !.import = k] /\ w = RestOf(q) OBVIOUS
<1>3. PICK new : new = [of |-> r.of, rows |-> {"asset"}, confirmed |-> FALSE] OBVIOUS
<1>4. r \in Requests /\ RequestFits(r) /\ r.left[1] = "asset" BY <1>1, RequestAt
<1>5. /\ Head(r.left) = r.left[1] /\ ~IsConfirm(r) /\ ~IsRetry(r)
      /\ ChainFits(r.left) /\ Len(r.left) # 1
  BY <1>4, FirstStatement DEF CompleteStatuses
<1>6. /\ imports' = Append(imports, new) /\ Done(i, q)
      /\ UNCHANGED <<uploads, batchStatus, requested, moment, uploadSlips>>
  BY <1>1, <1>2, <1>3, <1>4, <1>5 DEF SaveImportRow
<1>7. /\ DOMAIN imports = 1 .. Len(imports) /\ Len(imports) \in Nat /\ k \in Nat
      /\ k \notin DOMAIN imports
  BY <1>1, ImportAt
<1>8. r.of \in Uploads /\ new \in Imports
  <2>1. r.of \in Uploads BY <1>4, <1>5 DEF Requests, IsConfirm
  <2>2. "asset" \in ImportRows BY DEF ImportRows
  <2> QED BY <1>3, <2>1, <2>2 DEF Imports
<1>9. /\ imports' \in Seq(Imports) /\ imports'[k] = new /\ k \in DOMAIN imports'
      /\ DOMAIN imports' = DOMAIN imports \cup {k}
      /\ \A l \in DOMAIN imports : imports'[l] = imports[l]
  <2>1. imports \in Seq(Imports) BY DEF UploadInv
  <2>2. /\ imports' \in Seq(Imports) /\ Len(imports') = Len(imports) + 1
        /\ \A l \in 1 .. Len(imports) : imports'[l] = imports[l]
        /\ imports'[Len(imports) + 1] = new
    BY <1>6, <1>8, <2>1, AppendProperties
  <2>3. DOMAIN imports' = 1 .. Len(imports) + 1 BY <2>2, LenProperties
  <2> QED BY <1>1, <1>7, <2>2, <2>3
<1>10. ImportsGrow BY <1>9 DEF ImportsGrow
<1>11. /\ q.left = r.left /\ q.of = r.of /\ q.items = r.items /\ q.read = r.read
       /\ q.save = r.save /\ q.import = k /\ q \in Requests
  BY <1>2, <1>4, <1>7 DEF Requests
<1>12. /\ r.items = {} /\ r.read.status = "pending" /\ r.save.status = "uploaded"
  BY <1>4, <1>5 DEF RequestFits
<1>13. RequestFits(q)
  <2>1. ~IsConfirm(q) /\ ~IsRetry(q) /\ ~Imported(q) BY <1>4, <1>5, <1>11 DEF IsConfirm, IsRetry, Imported
  <2> QED BY <1>5, <1>11, <1>12, <2>1 DEF RequestFits
<1>14. PICK f : Follows(f, i, w) /\ IsLeft(f, i)
  BY <1>2, <1>5, <1>6, <1>11, <1>13, StatementDone
<1>15. uploadWork' \in Seq(Requests) BY <1>6, <1>11, <1>13, StatementDone
<1>16. /\ w.of = r.of /\ w.left = Tail(r.left) /\ w.items = r.items /\ w.read = r.read
       /\ w.save = r.save /\ w.import = k
  BY <1>2, <1>11 DEF RestOf, Requests
<1>17. /\ ChainFits(w.left) /\ w.left # <<"session">> /\ w.left[1] # "session"
       /\ w.left[1] # "asset" /\ ItemLeft(w)
  <2>1. r.left \in Seq(Statements) BY <1>4 DEF Requests
  <2>2. \E j \in DOMAIN r.left : r.left[j] = "item" BY <1>4, <1>5 DEF ChainFits
  <2>3. PICK left, t : left = r.left /\ t = Tail(left) OBVIOUS
  <2>4. /\ ChainFits(t) /\ t # <<"session">> /\ t[1] # "session"
        /\ t[1] = "asset" <=> left[1] = "session"
        /\ left[1] # "item" /\ (\E j \in DOMAIN left : left[j] = "item") =>
              \E j \in DOMAIN t : t[j] = "item"
    BY <1>4, <1>5, <2>1, <2>3, ChainGoesOn
  <2>5. w.left = t /\ left[1] = r.left[1] BY <1>16, <2>3
  <2> QED BY <1>4, <1>5, <2>2, <2>3, <2>4, <2>5 DEF ItemLeft
<1>18. ~IsConfirm(w) /\ ~IsRetry(w) /\ Imported(w)
  BY <1>5, <1>16, <1>17 DEF IsConfirm, IsRetry, Imported
<1>19. RequestFits(w)'
  <2>1. imports'[k].of = r.of BY <1>3, <1>9
  <2> QED BY <1>9, <1>12, <1>16, <1>17, <1>18, <2>1
        DEF RequestFits, IsConfirm, IsRetry, Imported, ItemLeft, ChainFits
<1>20. (\A j \in DOMAIN uploadWork : RequestFits(uploadWork[j]))'
  BY <1>10, <1>14, <1>19, FitFollows
<1>21. BatchItems' = BatchItems
  <2>1. "item" \notin imports'[k].rows BY <1>3, <1>9
  <2>2. \A l \in DOMAIN imports : imports'[l].rows = imports[l].rows BY <1>9
  <2> QED BY <1>9, <2>1, <2>2 DEF BatchItems
<1>22. /\ ImportsOf(r.of)' = ImportsOf(r.of) \cup {k}
       /\ \A s : s # r.of => ImportsOf(s)' = ImportsOf(s)
  <2>1. imports'[k].of = r.of BY <1>3, <1>9
  <2>2. \A l \in DOMAIN imports : imports'[l].of = imports[l].of BY <1>9
  <2> QED BY <1>9, <2>1, <2>2 DEF ImportsOf
<1>23. UploadTypeOK'
  <2>1. uploads' \in [Uploads -> UploadRows]
    BY <1>6 DEF UploadInv, UploadTypeOK, UploadRows
  <2>2. requested' \in 0..MaxRequests /\ moment' \in 0..MaxMoments
    BY <1>6 DEF UploadInv, UploadTypeOK
  <2>3. \A l \in DOMAIN imports' \ DOMAIN imports : "asset" \in imports'[l].rows
    BY <1>3, <1>9
  <2> QED BY <1>6, <1>9, <1>10, <2>1, <2>2, <2>3, TypeStays
<1>24. ASSUME NEW s \in Uploads PROVE UploadedOnce(s)' /\ RowsCome(s)'
  <2>1. \A l : ~Saving(i, l) BY <1>1, <1>4 DEF Saving, Imported
  <2>2. CASE s # r.of
    <3>1. ImportsOf(s)' = ImportsOf(s) BY <1>22, <2>2
    <3>2. w.of # s /\ ~Begins(i, s) BY <1>1, <1>16, <2>2 DEF Begins
    <3>3. uploads'[s].status = uploads[s].status /\ uploadSlips \subseteq uploadSlips'
      BY <1>6
    <3>4. UploadedOnce(s)' BY <1>14, <3>1, <3>2, <3>3, OnceFollows
    <3>5. RowsCome(s)' BY <1>14, <1>21, <2>1, <3>1, <3>3, RowsFollow
    <3> QED BY <3>4, <3>5
  <2>3. CASE s = r.of
    <3>1. Begins(i, s) BY <1>1, <1>4, <2>3 DEF Begins
    <3>2. UploadedOnce(s)'
      <4>1. SUFFICES ASSUME <<"stale", s>> \notin uploadSlips PROVE UploadedOnce(s)'
        BY <1>6 DEF UploadedOnce
      <4>2. /\ ImportsOf(s) = {} /\ uploads[s].status = "uploaded"
            /\ \A m \in DOMAIN uploadWork : Begins(m, s) => m = i
        BY <3>1, <4>1 DEF UploadInv, UploadedOnce
      <4>3. ImportsOf(s)' = {k} BY <1>22, <2>3, <4>2
      <4>4. ASSUME NEW j \in DOMAIN uploadWork' PROVE ~Begins(j, s)'
        <5>1. f[j] \in DOMAIN uploadWork
                /\ uploadWork'[j] = IF f[j] = i THEN w ELSE uploadWork[f[j]]
          BY <1>14 DEF Follows
        <5> QED BY <1>17, <4>2, <5>1 DEF Begins
      <4>5. uploads'[s].status = "uploaded" BY <1>6, <4>2
      <4> QED BY <4>3, <4>4, <4>5 DEF UploadedOnce
    <3>3. RowsCome(s)'
      <4>1. SUFFICES ASSUME <<"cut", s>> \notin uploadSlips, NEW l \in ImportsOf(s)'
                     PROVE  l \in BatchItems' \/ \E j \in DOMAIN uploadWork' : Saving(j, l)'
        BY <1>6 DEF RowsCome
      <4>2. CASE l = k
        <5>1. PICK j \in DOMAIN uploadWork' : f[j] = i BY <1>14 DEF IsLeft
        <5>2. uploadWork'[j] = w BY <1>14, <5>1 DEF Follows
        <5> QED BY <1>16, <1>17, <1>18, <4>2, <5>2
              DEF Saving, Imported, ItemLeft, IsConfirm
      <4>3. CASE l # k
        <5>1. l \in ImportsOf(s) BY <1>22, <2>3, <4>3
        <5>2. l \in BatchItems \/ \E m \in DOMAIN uploadWork : Saving(m, l)
          BY <4>1, <5>1 DEF UploadInv, RowsCome
        <5>3. ASSUME NEW m \in DOMAIN uploadWork, Saving(m, l)
              PROVE  \E j \in DOMAIN uploadWork' : Saving(j, l)'
          <6>1. m # i BY <2>1, <5>3
          <6>2. PICK j \in DOMAIN uploadWork' : f[j] = m BY <1>14, <6>1 DEF Follows
          <6>3. uploadWork'[j] = uploadWork[m] BY <1>14, <6>1, <6>2 DEF Follows
          <6> QED BY <5>3, <6>3 DEF Saving, Imported, ItemLeft, IsConfirm
        <5> QED BY <1>21, <5>2, <5>3
      <4> QED BY <4>2, <4>3
    <3> QED BY <3>2, <3>3
  <2> QED BY <2>2, <2>3
<1>25. BatchFits'
  <2>1. \A l \in DOMAIN imports : imports'[l].confirmed = imports[l].confirmed BY <1>9
  <2>2. ~IsConfirm(uploadWork[i]) /\ ~SavesStatus(i)
    BY <1>1, <1>4, <1>5 DEF SavesStatus, CompleteStatuses
  <2>3. ~imports'[w.import].confirmed BY <1>3, <1>9, <1>16
  <2> QED BY <1>6, <1>14, <1>21, <2>1, <2>2, <2>3, BatchFollows
<1> QED BY <1>9, <1>15, <1>20, <1>23, <1>24, <1>25 DEF UploadInv

LEMMA SaveOtherRowStep ==
    ASSUME UploadInv, NEW i \in DOMAIN uploadWork, SaveImportRow(i),
           uploadWork[i].left[1] # "asset"
    PROVE  UploadInv'
<1>1. PICK r, w : r = uploadWork[i] /\ w = RestOf(r) OBVIOUS
<1>2. PICK k, row : k = r.import /\ row = r.left[1] OBVIOUS
<1>3. r \in Requests /\ RequestFits(r) BY <1>1, RequestAt
<1>4. Head(r.left) = row BY <1>2, <1>3, FirstStatement
<1>5. /\ row \in ImportRows \ {"asset"}
      /\ imports' = [imports EXCEPT ![k].rows = @ \cup {row}] /\ Done(i, r)
      /\ UNCHANGED <<uploads, batchStatus, requested, moment, uploadSlips>>
  BY <1>1, <1>2, <1>4 DEF SaveImportRow, ImportRows
<1>6. /\ row # "session" /\ row # "asset" /\ row # "confirmed"
      /\ row \notin CompleteStatuses
  BY <1>5 DEF ImportRows, CompleteStatuses
<1>7. ~IsConfirm(r) /\ ~IsRetry(r) /\ ChainFits(r.left) /\ Len(r.left) # 1
  BY <1>2, <1>3, <1>6, FirstStatement
<1>8. Imported(r) BY <1>2, <1>6, <1>7 DEF Imported
<1>9. /\ k \in DOMAIN imports /\ imports[k].of = r.of
      /\ ItemLeft(r) \/ "item" \in imports[k].rows
      /\ r.items = {} /\ r.read.status = "pending" /\ r.save.status = "uploaded"
  BY <1>2, <1>3, <1>7, <1>8 DEF RequestFits
<1>10. /\ imports' \in Seq(Imports) /\ DOMAIN imports' = DOMAIN imports
       /\ \A l \in DOMAIN imports :
             /\ imports'[l].of = imports[l].of /\ imports'[l].confirmed = imports[l].confirmed
             /\ imports'[l].rows =
                   IF l = k THEN imports[l].rows \cup {row} ELSE imports[l].rows
  <2>1. PICK new : new = [imports[k] EXCEPT !.rows = @ \cup {row}] OBVIOUS
  <2>2. imports[k] \in Imports BY <1>9, ImportAt
  <2>3. /\ new \in Imports /\ new.of = imports[k].of
        /\ new.confirmed = imports[k].confirmed /\ new.rows = imports[k].rows \cup {row}
    BY <1>5, <2>1, <2>2 DEF Imports
  <2>4. imports' = [imports EXCEPT ![k] = new] BY <1>5, <2>1
  <2>5. imports \in Seq(Imports) BY DEF UploadInv
  <2>6. /\ imports' \in Seq(Imports) /\ DOMAIN imports' = DOMAIN imports
        /\ \A l \in DOMAIN imports : imports'[l] = IF l = k THEN new ELSE imports[l]
    BY <1>9, <2>3, <2>4, <2>5, OneChanges
  <2> QED BY <2>3, <2>6
<1>11. ImportsGrow BY <1>10 DEF ImportsGrow
<1>12. /\ BatchItems \subseteq BatchItems' /\ \A s : ImportsOf(s)' = ImportsOf(s)
       /\ row # "item" => BatchItems' = BatchItems
       /\ row = "item" => k \in BatchItems'
  BY <1>9, <1>10 DEF BatchItems, ImportsOf
<1>13. PICK f : Follows(f, i, w) /\ IsLeft(f, i)
  BY <1>1, <1>3, <1>5, <1>7, StatementDone
<1>14. uploadWork' \in Seq(Requests) BY <1>3, <1>5, StatementDone
<1>15. /\ w.of = r.of /\ w.left = Tail(r.left) /\ w.items = r.items /\ w.read = r.read
       /\ w.save = r.save /\ w.import = k
  BY <1>1, <1>2, <1>3 DEF RestOf, Requests
<1>16. /\ ChainFits(w.left) /\ w.left # <<"session">> /\ w.left[1] # "session"
       /\ w.left[1] # "asset"
       /\ row = "item" => w.left[1] \in CompleteStatuses
       /\ row # "item" /\ ItemLeft(r) => ItemLeft(w)
  <2>1. r.left \in Seq(Statements) BY <1>3 DEF Requests
  <2>2. PICK left, t : left = r.left /\ t = Tail(left) OBVIOUS
  <2>3. /\ ChainFits(t) /\ t # <<"session">> /\ t[1] # "session"
        /\ t[1] = "asset" <=> left[1] = "session"
        /\ left[1] = "item" => t[1] \in CompleteStatuses
        /\ left[1] # "item" /\ (\E j \in DOMAIN left : left[j] = "item") =>
              \E j \in DOMAIN t : t[j] = "item"
    BY <1>7, <2>1, <2>2, ChainGoesOn
  <2>4. w.left = t /\ left[1] = row BY <1>2, <1>15, <2>2
  <2> QED BY <1>6, <2>2, <2>3, <2>4, Zenon DEF ItemLeft
<1>17. ~IsConfirm(w) /\ ~IsRetry(w) /\ Imported(w)
  BY <1>7, <1>15, <1>16 DEF IsConfirm, IsRetry, Imported
<1>18. RequestFits(w)'
  <2>1. imports'[k].of = r.of /\ k \in DOMAIN imports' BY <1>9, <1>10
  <2>2. ItemLeft(w) \/ "item" \in imports'[k].rows BY <1>9, <1>10, <1>16
  <2>3. w.items = {} /\ w.read.status = "pending" /\ w.save.status = "uploaded"
    BY <1>9, <1>15
  <2> QED BY <1>15, <1>16, <1>17, <2>1, <2>2, <2>3
        DEF RequestFits, IsConfirm, IsRetry, Imported, ItemLeft, ChainFits
<1>19. (\A j \in DOMAIN uploadWork : RequestFits(uploadWork[j]))'
  BY <1>11, <1>13, <1>18, FitFollows
<1>20. UploadTypeOK'
  <2>1. uploads' \in [Uploads -> UploadRows]
    BY <1>5 DEF UploadInv, UploadTypeOK, UploadRows
  <2>2. requested' \in 0..MaxRequests /\ moment' \in 0..MaxMoments
    BY <1>5 DEF UploadInv, UploadTypeOK
  <2> QED BY <1>5, <1>10, <1>11, <2>1, <2>2, TypeStays
<1>21. ASSUME NEW s \in Uploads PROVE UploadedOnce(s)' /\ RowsCome(s)'
  <2>1. ~Begins(i, s) BY <1>1, <1>2, <1>6 DEF Begins
  <2>2. uploads'[s].status = uploads[s].status /\ uploadSlips \subseteq uploadSlips'
    BY <1>5
  <2>3. UploadedOnce(s)' BY <1>12, <1>13, <1>16, <2>1, <2>2, OnceFollows
  <2>4. ASSUME NEW l \in ImportsOf(s), Saving(i, l)
        PROVE  l \in BatchItems' \/ (Imported(w) /\ w.import = l /\ ItemLeft(w))
    <3>1. l = k /\ ItemLeft(r) BY <1>1, <1>2, <2>4 DEF Saving
    <3> QED BY <1>12, <1>15, <1>16, <1>17, <3>1
  <2>5. RowsCome(s)' BY <1>12, <1>13, <2>2, <2>4, RowsFollow
  <2> QED BY <2>3, <2>5
<1>22. BatchFits'
  <2>1. \A l \in DOMAIN imports : imports'[l].confirmed = imports[l].confirmed BY <1>10
  <2>2. ~IsConfirm(uploadWork[i]) /\ ~SavesStatus(i)
    BY <1>1, <1>2, <1>6, <1>7 DEF SavesStatus
  <2>3. Calm => ~imports'[w.import].confirmed
    <3>1. Calm => ~imports[k].confirmed
      BY <1>1, <1>2, <1>8 DEF UploadInv, BatchFits
    <3> QED BY <1>9, <1>10, <1>15, <3>1
  <2> QED BY <1>5, <1>12, <1>13, <1>16, <1>17, <2>1, <2>2, <2>3, BatchFollows
<1> QED BY <1>10, <1>14, <1>19, <1>20, <1>21, <1>22 DEF UploadInv

(* The items of a confirm are confirmed while it goes on. *)
LEMMA ConfirmItemStep ==
    ASSUME UploadInv, NEW i \in DOMAIN uploadWork, ConfirmItem(i) PROVE UploadInv'
<1>1. PICK r : r = uploadWork[i] OBVIOUS
<1>2. PICK k \in r.items :
        /\ imports' = [imports EXCEPT ![k].confirmed = TRUE]
        /\ uploadWork' = [uploadWork EXCEPT ![i].items = @ \ {k}]
        /\ UNCHANGED <<uploads, batchStatus, requested, moment, uploadSlips>>
  BY <1>1 DEF ConfirmItem
<1>3. PICK w : w = [r EXCEPT !.items = @ \ {k}] OBVIOUS
<1>4. r \in Requests /\ RequestFits(r) BY <1>1, RequestAt
<1>5. /\ w \in Requests /\ w.of = r.of /\ w.left = r.left /\ w.items = r.items \ {k}
  BY <1>3, <1>4 DEF Requests
<1>6. /\ IsConfirm(r) /\ r.left = <<"confirmed">> /\ r.items \subseteq BatchItems
      /\ BatchItems # {} /\ k \in DOMAIN imports
  BY <1>2, <1>4 DEF RequestFits, BatchItems
<1>7. uploadWork' = [uploadWork EXCEPT ![i] = w] BY <1>1, <1>2, <1>3
<1>8. PICK f : Follows(f, i, w) /\ IsLeft(f, i) BY <1>5, <1>7, Changed
<1>9. uploadWork' \in Seq(Requests) BY <1>5, <1>7, Changed
<1>10. /\ imports' \in Seq(Imports) /\ DOMAIN imports' = DOMAIN imports
       /\ \A l \in DOMAIN imports :
             imports'[l].of = imports[l].of /\ imports'[l].rows = imports[l].rows
  <2>1. PICK new : new = [imports[k] EXCEPT !.confirmed = TRUE] OBVIOUS
  <2>2. imports[k] \in Imports BY <1>6, ImportAt
  <2>3. new \in Imports /\ new.of = imports[k].of /\ new.rows = imports[k].rows
    BY <2>1, <2>2 DEF Imports
  <2>4. imports' = [imports EXCEPT ![k] = new] BY <1>2, <2>1
  <2>5. imports \in Seq(Imports) BY DEF UploadInv
  <2>6. /\ imports' \in Seq(Imports) /\ DOMAIN imports' = DOMAIN imports
        /\ \A l \in DOMAIN imports : imports'[l] = IF l = k THEN new ELSE imports[l]
    BY <1>6, <2>3, <2>4, <2>5, OneChanges
  <2> QED BY <2>3, <2>6
<1>11. /\ ImportsGrow /\ BatchItems' = BatchItems /\ \A s : ImportsOf(s)' = ImportsOf(s)
  BY <1>10 DEF ImportsGrow, BatchItems, ImportsOf
<1>12. (\A j \in DOMAIN uploadWork : RequestFits(uploadWork[j]))'
  <2>1. IsConfirm(w) /\ ~Imported(w) BY <1>5, <1>6 DEF IsConfirm, Imported
  <2>2. RequestFits(w) BY <1>5, <1>6, <2>1 DEF RequestFits
  <2> QED BY <1>8, <1>11, <2>2, FitFollows, FitStays
<1>13. UploadTypeOK'
  <2>1. uploads' \in [Uploads -> UploadRows]
    BY <1>2 DEF UploadInv, UploadTypeOK, UploadRows
  <2>2. requested' \in 0..MaxRequests /\ moment' \in 0..MaxMoments
    BY <1>2 DEF UploadInv, UploadTypeOK
  <2> QED BY <1>2, <1>10, <1>11, <2>1, <2>2, TypeStays
<1>14. ASSUME NEW s \in Uploads PROVE UploadedOnce(s)' /\ RowsCome(s)'
  <2>1. ~Begins(i, s) /\ w.left[1] # "asset" BY <1>1, <1>5, <1>6 DEF Begins
  <2>2. uploads'[s].status = uploads[s].status /\ uploadSlips \subseteq uploadSlips'
    BY <1>2
  <2>3. UploadedOnce(s)' BY <1>8, <1>11, <2>1, <2>2, OnceFollows
  <2>4. \A l : ~Saving(i, l) BY <1>1, <1>6 DEF Saving, Imported
  <2> QED BY <1>8, <1>11, <2>2, <2>3, <2>4, RowsFollow
<1>15. BatchFits'
  <2>1. PICK j \in DOMAIN uploadWork' : f[j] = i BY <1>8 DEF IsLeft
  <2>2. uploadWork'[j] = w BY <1>8, <2>1 DEF Follows
  <2> QED BY <1>5, <1>6, <2>2 DEF BatchFits, Calm, IsConfirm
<1> QED BY <1>9, <1>10, <1>12, <1>13, <1>14, <1>15 DEF UploadInv

(* The batch is saved: by a confirm whose items are confirmed, which are   *)
(* all if it skipped none, or by a complete with an item that is not.      *)
LEMMA SaveImportBatchStep ==
    ASSUME UploadInv, NEW i \in DOMAIN uploadWork, SaveImportBatch(i) PROVE UploadInv'
<1> DEFINE Crossed == \E o \in Others(i) :
                        IsConfirm(o) # IsConfirm(uploadWork[i]) /\ o.left # <<"session">>
           Skipped == IsConfirm(uploadWork[i]) /\ \E k \in BatchItems : ~imports[k].confirmed
<1>1. PICK r, w : r = uploadWork[i] /\ w = RestOf(r) OBVIOUS
<1>2. r \in Requests /\ RequestFits(r) BY <1>1, RequestAt
<1>3. Head(r.left) = r.left[1] BY <1>2, FirstStatement
<1>4. /\ r.left[1] \in CompleteStatuses \cup {"confirmed"}
      /\ batchStatus' \in {r.left[1], batchStatus} /\ Done(i, r)
      /\ uploadSlips' = IF Crossed \/ Skipped \/ batchStatus' # r.left[1]
                        THEN uploadSlips \cup {<<"skipped", "batch">>} ELSE uploadSlips
      /\ UNCHANGED <<uploads, imports, requested, moment>>
  BY <1>1, <1>3 DEF SaveImportBatch, CompleteStatuses
<1> HIDE DEF Crossed, Skipped
<1>5. /\ r.left[1] # "session" /\ r.left[1] # "asset" /\ r.left[1] # "item"
      /\ Len(r.left) = 1 /\ DOMAIN r.left = 1 .. 1 /\ ~ItemLeft(r)
  <2>1. Len(r.left) = 1 /\ DOMAIN r.left = 1 .. Len(r.left) BY <1>2, <1>4, FirstStatement
  <2> QED BY <1>4, <2>1 DEF CompleteStatuses, ItemLeft
<1>6. PICK f : Follows(f, i, w) /\ IsGone(f, i) BY <1>1, <1>2, <1>4, <1>5, StatementDone
<1>7. uploadWork' \in Seq(Requests) BY <1>2, <1>4, StatementDone
<1>8. ~IsLeft(f, i) BY <1>6 DEF IsLeft, IsGone
<1>9. /\ ImportsGrow /\ BatchItems' = BatchItems /\ \A s : ImportsOf(s)' = ImportsOf(s)
  BY <1>4, ImportsStand
<1>10. (\A j \in DOMAIN uploadWork : RequestFits(uploadWork[j]))'
  BY <1>6, <1>8, <1>9, FitFollows
<1>11. imports' \in Seq(Imports) BY <1>4 DEF UploadInv
<1>12. UploadTypeOK'
  <2>1. uploads' \in [Uploads -> UploadRows]
    BY <1>4 DEF UploadInv, UploadTypeOK, UploadRows
  <2>2. requested' \in 0..MaxRequests /\ moment' \in 0..MaxMoments
    BY <1>4 DEF UploadInv, UploadTypeOK
  <2>3. batchStatus' \in CompleteStatuses \cup {batchStatus, "confirmed"} BY <1>4
  <2> QED BY <1>4, <1>9, <1>11, <2>1, <2>2, <2>3, TypeStays
<1>13. uploadSlips \subseteq uploadSlips' BY <1>4
<1>14. ASSUME NEW s \in Uploads PROVE UploadedOnce(s)' /\ RowsCome(s)'
  <2>1. ~Begins(i, s) BY <1>1, <1>5 DEF Begins
  <2>2. uploads'[s].status = uploads[s].status BY <1>4
  <2>3. UploadedOnce(s)' BY <1>6, <1>8, <1>9, <1>13, <2>1, <2>2, OnceFollows
  <2>4. \A l : ~Saving(i, l) BY <1>1, <1>5 DEF Saving
  <2> QED BY <1>6, <1>9, <1>13, <2>3, <2>4, RowsFollow
<1>15. BatchFits'
  <2> SUFFICES ASSUME Calm'
               PROVE  /\ \A j \in DOMAIN uploadWork' :
                            Imported(uploadWork[j])' =>
                                ~imports'[uploadWork'[j].import].confirmed
                      /\ StatusFits'
    BY DEF BatchFits
  <2>1. /\ ~Crossed /\ ~Skipped /\ batchStatus' = r.left[1] /\ Undisturbed
    <3>1. \A slip \in uploadSlips' : slip[1] = "stale" BY DEF Calm, Undisturbed
    <3>2. <<"skipped", "batch">>[1] # "stale" OBVIOUS
    <3>3. ~(Crossed \/ Skipped \/ batchStatus' # r.left[1]) BY <1>4, <3>1, <3>2
    <3> QED BY <1>13, <3>1, <3>3 DEF Undisturbed
  <2>2. \A j \in DOMAIN uploadWork' :
            /\ f[j] \in DOMAIN uploadWork \ {i} /\ uploadWork'[j] = uploadWork[f[j]]
            /\ ~IsConfirm(uploadWork[f[j]])
    <3>1. \A j \in DOMAIN uploadWork' :
            f[j] \in DOMAIN uploadWork \ {i} /\ uploadWork'[j] = uploadWork[f[j]]
      BY <1>6 DEF Follows, IsGone
    <3>2. \A j \in DOMAIN uploadWork' : uploadWork'[j].of # "batch" BY DEF Calm, IsConfirm
    <3> QED BY <3>1, <3>2 DEF IsConfirm
  <2>3. CASE IsConfirm(r)
    <3>1. r.left[1] = "confirmed" /\ BatchItems # {} BY <1>2, <2>3 DEF RequestFits
    <3>2. StatusFits'
      <4>1. \A k \in BatchItems : imports[k].confirmed BY <1>1, <2>1, <2>3 DEF Skipped
      <4>2. batchStatus' = "confirmed" BY <2>1, <3>1
      <4>3. imports' = imports BY <1>4
      <4> QED BY <1>9, <3>1, <4>1, <4>2, <4>3 DEF StatusFits
    <3>3. ASSUME NEW j \in DOMAIN uploadWork' PROVE ~Imported(uploadWork[j])'
      <4>1. f[j] \in DOMAIN uploadWork \ {i} /\ uploadWork'[j] = uploadWork[f[j]]
              /\ ~IsConfirm(uploadWork[f[j]])
        BY <2>2
      <4>2. uploadWork[f[j]] \in Others(i) BY <4>1 DEF Others
      <4>3. uploadWork[f[j]].left = <<"session">>
        BY <1>1, <2>1, <2>3, <4>1, <4>2 DEF Crossed
      <4> QED BY <4>1, <4>3 DEF Imported
    <3> QED BY <3>2, <3>3
  <2>4. CASE ~IsConfirm(r)
    <3>1. Calm
      <4>1. ASSUME NEW m \in DOMAIN uploadWork PROVE ~IsConfirm(uploadWork[m])
        <5>1. CASE m = i BY <1>1, <2>4, <5>1
        <5>2. CASE m # i
          <6>1. PICK j \in DOMAIN uploadWork' : f[j] = m BY <1>6, <5>2 DEF Follows
          <6> QED BY <2>2, <6>1
        <5> QED BY <5>1, <5>2
      <4> QED BY <2>1, <4>1 DEF Calm
    <3>2. \A m \in DOMAIN uploadWork :
            Imported(uploadWork[m]) => ~imports[uploadWork[m].import].confirmed
      BY <3>1 DEF UploadInv, BatchFits
    <3>3. ASSUME NEW j \in DOMAIN uploadWork', Imported(uploadWork[j])'
          PROVE  ~imports'[uploadWork'[j].import].confirmed
      <4>1. f[j] \in DOMAIN uploadWork /\ uploadWork'[j] = uploadWork[f[j]] BY <2>2
      <4>2. Imported(uploadWork[f[j]]) BY <3>3, <4>1 DEF Imported, IsConfirm
      <4> QED BY <1>4, <3>2, <4>1, <4>2
    <3>4. Imported(r) BY <1>5, <2>4 DEF Imported
    <3>5. r.import \in BatchItems /\ ~imports[r.import].confirmed
      BY <1>1, <1>2, <1>5, <3>2, <3>4 DEF RequestFits, BatchItems
    <3>6. batchStatus' # "confirmed"
      BY <1>2, <1>4, <2>1, <2>4, FirstStatement
    <3>7. imports' = imports BY <1>4
    <3> QED BY <1>9, <3>3, <3>5, <3>6, <3>7 DEF StatusFits
  <2> QED BY <2>3, <2>4
<1> QED BY <1>7, <1>10, <1>11, <1>12, <1>14, <1>15 DEF UploadInv

(* A request stops: what it would have done is cut, except that nothing is *)
(* cut when it has not saved its session yet.                              *)
LEMMA StopStep ==
    ASSUME UploadInv, NEW i \in DOMAIN uploadWork, Stop(i) PROVE UploadInv'
<1>1. PICK r : r = uploadWork[i] OBVIOUS
<1>2. r \in Requests /\ RequestFits(r) BY <1>1, RequestAt
<1>3. Head(r.left) = r.left[1] BY <1>2, FirstStatement
<1>4. /\ uploadWork' = RemoveAt(uploadWork, i)
      /\ r.left[1] = "session" => uploadSlips' = uploadSlips
      /\ r.left[1] # "session" => uploadSlips' = uploadSlips \cup {<<"cut", r.of>>}
      /\ UNCHANGED <<uploads, imports, batchStatus, requested, moment>>
  BY <1>1, <1>3 DEF Stop
<1>5. PICK f : Follows(f, i, r) /\ IsGone(f, i) BY <1>4, Removed
<1>6. uploadWork' \in Seq(Requests) BY <1>4, Removed
<1>7. ~IsLeft(f, i) BY <1>5 DEF IsLeft, IsGone
<1>8. /\ ImportsGrow /\ BatchItems' = BatchItems /\ \A s : ImportsOf(s)' = ImportsOf(s)
  BY <1>4, ImportsStand
<1>9. (\A j \in DOMAIN uploadWork : RequestFits(uploadWork[j]))'
  BY <1>5, <1>7, <1>8, FitFollows
<1>10. imports' \in Seq(Imports) BY <1>4 DEF UploadInv
<1>11. UploadTypeOK'
  <2>1. uploads' \in [Uploads -> UploadRows]
    BY <1>4 DEF UploadInv, UploadTypeOK, UploadRows
  <2>2. requested' \in 0..MaxRequests /\ moment' \in 0..MaxMoments
    BY <1>4 DEF UploadInv, UploadTypeOK
  <2> QED BY <1>4, <1>8, <1>10, <2>1, <2>2, TypeStays
<1>12. uploadSlips \subseteq uploadSlips' BY <1>4
<1>13. ASSUME NEW s \in Uploads PROVE UploadedOnce(s)' /\ RowsCome(s)'
  <2>1. ~Begins(i, s) \/ <<"cut", s>> \in uploadSlips'
    BY <1>1, <1>4 DEF Begins
  <2>2. uploads'[s].status = uploads[s].status BY <1>4
  <2>3. UploadedOnce(s)' BY <1>5, <1>7, <1>8, <1>12, <2>1, <2>2, OnceFollows
  <2>4. ASSUME NEW l \in ImportsOf(s), Saving(i, l) PROVE <<"cut", s>> \in uploadSlips'
    <3>1. Imported(r) /\ r.import = l BY <1>1, <2>4 DEF Saving
    <3>2. imports[l].of = r.of BY <1>2, <3>1 DEF RequestFits
    <3>3. r.of = s BY <3>2 DEF ImportsOf
    <3> QED BY <1>4, <3>1, <3>3 DEF Imported
  <2> QED BY <1>5, <1>8, <1>12, <2>3, <2>4, RowsFollow
<1>14. BatchFits'
  <2>1. CASE r.left[1] = "session"
    <3>1. ~IsConfirm(uploadWork[i]) /\ ~SavesStatus(i)
      BY <1>1, <1>2, <2>1, FirstStatement DEF SavesStatus, CompleteStatuses
    <3>2. \A l \in DOMAIN imports : imports'[l].confirmed = imports[l].confirmed BY <1>4
    <3> QED BY <1>4, <1>5, <1>7, <1>8, <1>12, <3>1, <3>2, BatchFollows
  <2>2. CASE r.left[1] # "session"
    <3>1. <<"cut", r.of>> \in uploadSlips' /\ <<"cut", r.of>>[1] = "cut" BY <1>4, <2>2
    <3>2. ~Undisturbed' BY <3>1 DEF Undisturbed
    <3> QED BY <3>2 DEF BatchFits, Calm
  <2> QED BY <2>1, <2>2
<1> QED BY <1>6, <1>9, <1>10, <1>11, <1>13, <1>14 DEF UploadInv

-----------------------------------------------------------------------------
(* A request that begins has saved nothing yet. *)
LEMMA AskStep ==
    ASSUME UploadInv, NEW w \in Requests, RequestFits(w),
           w.left[1] = "session" \/ IsConfirm(w), Ask(w),
           UNCHANGED <<uploads, imports, batchStatus, moment, uploadSlips>>
    PROVE  UploadInv'
<1>1. uploadWork' = Append(uploadWork, w) /\ requested < MaxRequests /\ requested' = requested + 1
  BY DEF Ask
<1>2. /\ uploadWork' \in Seq(Requests)
      /\ \A j \in DOMAIN uploadWork' :
            \/ j = Len(uploadWork) + 1 /\ uploadWork'[j] = w
            \/ j \in DOMAIN uploadWork /\ uploadWork'[j] = uploadWork[j]
      /\ \A j \in DOMAIN uploadWork : j \in DOMAIN uploadWork' /\ uploadWork'[j] = uploadWork[j]
  <2>1. uploadWork \in Seq(Requests) BY DEF UploadInv
  <2> QED BY <1>1, <2>1, OneBegins
<1>3. w.left[1] \in {"session", "confirmed"} BY FirstStatement
<1>4. w.left[1] # "asset" /\ ~Imported(w) /\ w.left[1] \notin CompleteStatuses
  BY <1>3 DEF Imported, CompleteStatuses
<1>5. /\ ImportsGrow /\ BatchItems' = BatchItems /\ \A s : ImportsOf(s)' = ImportsOf(s)
      /\ StatusFits' <=> StatusFits
  BY ImportsStand
<1>6. (\A j \in DOMAIN uploadWork : RequestFits(uploadWork[j]))'
  <2> SUFFICES ASSUME NEW j \in DOMAIN uploadWork', NEW x, x = uploadWork'[j]
               PROVE  RequestFits(x)'
    OBVIOUS
  <2>1. RequestFits(x) BY <1>2 DEF UploadInv
  <2> QED BY <1>5, <2>1, FitStays
<1>7. imports' \in Seq(Imports) BY DEF UploadInv
<1>8. UploadTypeOK'
  <2>1. uploads' \in [Uploads -> UploadRows] BY DEF UploadInv, UploadTypeOK, UploadRows
  <2>2. moment' \in 0..MaxMoments /\ requested \in 0..MaxRequests
    BY DEF UploadInv, UploadTypeOK
  <2>3. requested' \in 0..MaxRequests BY <1>1, <2>2, UploadBounds
  <2> QED BY <1>5, <1>7, <2>1, <2>2, <2>3, TypeStays
<1>9. ASSUME NEW s \in Uploads PROVE UploadedOnce(s)' /\ RowsCome(s)'
  <2>1. PICK f : f = [j \in DOMAIN uploadWork' |-> j] OBVIOUS
  <2>2. \A j \in DOMAIN uploadWork' : f[j] = j BY <2>1
  <2>3. \A j \in DOMAIN uploadWork' :
            /\ Begins(j, s)' => f[j] \in DOMAIN uploadWork /\ Begins(f[j], s)
            /\ \A k \in DOMAIN uploadWork' : f[j] = f[k] => j = k
    BY <1>2, <1>4, <2>2 DEF Begins
  <2>4. \A m \in DOMAIN uploadWork :
            Begins(m, s) => \E j \in DOMAIN uploadWork' : Begins(j, s)'
    BY <1>2 DEF Begins
  <2>5. UploadedOnce(s) /\ RowsCome(s) BY DEF UploadInv
  <2>6. UploadedOnce(s)' BY <1>5, <2>3, <2>4, <2>5, OnceStays
  <2>7. \A k : \A m \in DOMAIN uploadWork :
            Saving(m, k) => \E j \in DOMAIN uploadWork' : Saving(j, k)'
    BY <1>2 DEF Saving, Imported, ItemLeft, IsConfirm
  <2>8. RowsCome(s)' BY <1>5, <2>5, <2>7, RowsStay
  <2> QED BY <2>6, <2>8
<1>10. BatchFits'
  <2> SUFFICES ASSUME Calm'
               PROVE  /\ \A j \in DOMAIN uploadWork' :
                            Imported(uploadWork[j])' =>
                                ~imports'[uploadWork'[j].import].confirmed
                      /\ StatusFits' \/ \E j \in DOMAIN uploadWork' : SavesStatus(j)'
    BY DEF BatchFits
  <2>1. Calm BY <1>2 DEF Calm, Undisturbed, IsConfirm
  <2>2. /\ \A m \in DOMAIN uploadWork :
              Imported(uploadWork[m]) => ~imports[uploadWork[m].import].confirmed
        /\ StatusFits \/ \E m \in DOMAIN uploadWork : SavesStatus(m)
    BY <2>1 DEF UploadInv, BatchFits
  <2>3. \A m \in DOMAIN uploadWork :
            SavesStatus(m) => \E j \in DOMAIN uploadWork' : SavesStatus(j)'
    BY <1>2 DEF SavesStatus, IsConfirm
  <2>4. ASSUME NEW j \in DOMAIN uploadWork', Imported(uploadWork[j])'
        PROVE  ~imports'[uploadWork'[j].import].confirmed
    <3>1. Imported(uploadWork'[j]) BY <2>4 DEF Imported, IsConfirm
    <3>2. j \in DOMAIN uploadWork /\ uploadWork'[j] = uploadWork[j] BY <1>2, <1>4, <3>1
    <3> QED BY <2>2, <3>1, <3>2
  <2> QED BY <1>5, <2>2, <2>3, <2>4
<1> QED BY <1>2, <1>6, <1>7, <1>8, <1>9, <1>10 DEF UploadInv

LEMMA RetrySessionStep ==
    ASSUME UploadInv, NEW s \in Uploads, RetrySession(s) PROVE UploadInv'
<1>1. PICK save : save = IF IsOpen(uploads[s]) THEN uploads[s]
                         ELSE [uploads[s] EXCEPT !.until = moment + 1]
  OBVIOUS
<1>2. PICK w : w = Request(s, uploads[s], save, <<"session">>) OBVIOUS
<1>3. /\ uploads[s].status = "pending" /\ Ask(w)
      /\ UNCHANGED <<uploads, imports, batchStatus, moment, uploadSlips>>
  BY <1>1, <1>2 DEF RetrySession, CanRetry
<1>4. uploads[s] \in UploadRows /\ moment \in 0..MaxMoments
  BY DEF UploadInv, UploadTypeOK, UploadRows
<1>5. save \in UploadRows /\ save.status = "pending"
  <2>1. moment + 1 \in 0..MaxMoments + 1 BY <1>4, UploadBounds
  <2> QED BY <1>1, <1>3, <1>4, <2>1 DEF UploadRows
<1>6. <<"session">> \in Seq(Statements) /\ <<"session">>[1] = "session"
  <2>1. "session" \in Statements BY DEF Statements
  <2> QED BY <2>1
<1>7. /\ w.of = s /\ w.read = uploads[s] /\ w.save = save /\ w.left = <<"session">>
      /\ w.items = {} /\ w \in Requests
  BY <1>2, <1>4, <1>5, <1>6 DEF Request, Requests
<1>8. ~IsConfirm(w) /\ IsRetry(w) /\ ~Imported(w)
  <2>1. s # "batch" BY UploadBounds
  <2> QED BY <1>6, <1>7, <2>1 DEF IsConfirm, IsRetry, Imported
<1>9. RequestFits(w) BY <1>3, <1>5, <1>7, <1>8 DEF RequestFits
<1> QED BY <1>3, <1>6, <1>7, <1>9, AskStep

LEMMA CompleteSessionStep ==
    ASSUME UploadInv, NEW s \in Uploads, CompleteSession(s) PROVE UploadInv'
<1>1. PICK save : save = [uploads[s] EXCEPT !.status = "uploaded"] OBVIOUS
<1>2. PICK matched \in BOOLEAN :
          /\ Ask(Request(s, uploads[s], save, StatementsOf(matched)))
          /\ uploads[s].status = "pending"
          /\ UNCHANGED <<uploads, imports, batchStatus, moment, uploadSlips>>
  BY <1>1 DEF CompleteSession, CanComplete
<1>3. PICK left : left = StatementsOf(matched) OBVIOUS
<1>4. /\ left \in Seq(Statements) /\ ChainFits(left) /\ left # <<"session">>
      /\ left[1] = "session"
  BY <1>3, StatementsFit
<1>5. PICK w : w = Request(s, uploads[s], save, left) OBVIOUS
<1>6. Ask(w) BY <1>2, <1>3, <1>5
<1>7. uploads[s] \in UploadRows BY DEF UploadInv, UploadTypeOK, UploadRows
<1>8. save \in UploadRows /\ save.status = "uploaded" BY <1>1, <1>7 DEF UploadRows
<1>9. /\ w.of = s /\ w.read = uploads[s] /\ w.save = save /\ w.left = left
      /\ w.items = {} /\ w \in Requests
  BY <1>4, <1>5, <1>7, <1>8 DEF Request, Requests
<1>10. ~IsConfirm(w) /\ ~IsRetry(w) /\ ~Imported(w)
  <2>1. s # "batch" BY UploadBounds
  <2> QED BY <1>4, <1>9, <2>1 DEF IsConfirm, IsRetry, Imported
<1>11. RequestFits(w) BY <1>2, <1>4, <1>8, <1>9, <1>10 DEF RequestFits
<1> QED BY <1>2, <1>4, <1>6, <1>9, <1>11, AskStep

LEMMA ConfirmItemsStep ==
    ASSUME UploadInv, BatchConfirmImportBatchItems PROVE UploadInv'
<1>1. PICK items \in (SUBSET BatchItems) \ {{}} :
          /\ Ask([Request("batch", NoUpload, NoUpload, <<"confirmed">>) EXCEPT !.items = items])
          /\ UNCHANGED <<uploads, imports, batchStatus, moment, uploadSlips>>
  BY DEF BatchConfirmImportBatchItems
<1>2. PICK w : w = [Request("batch", NoUpload, NoUpload, <<"confirmed">>) EXCEPT !.items = items]
  OBVIOUS
<1>3. Ask(w) BY <1>1, <1>2
<1>4. NoUpload \in UploadRows
  <2>1. 0 \in 0..MaxMoments + 1 BY UploadBounds
  <2> QED BY <2>1 DEF NoUpload, UploadRows
<1>5. <<"confirmed">> \in Seq(Statements)
  <2>1. "confirmed" \in Statements BY DEF Statements
  <2> QED BY <2>1
<1>6. BatchItems \subseteq Nat /\ items \subseteq BatchItems /\ BatchItems # {}
  BY <1>1, ImportAt DEF BatchItems
<1>7. w.of = "batch" /\ w.left = <<"confirmed">> /\ w.items = items /\ w \in Requests
  BY <1>2, <1>4, <1>5, <1>6 DEF Request, Requests
<1>8. IsConfirm(w) /\ ~Imported(w) BY <1>7 DEF IsConfirm, Imported
<1>9. RequestFits(w) BY <1>6, <1>7, <1>8 DEF RequestFits
<1> QED BY <1>1, <1>3, <1>7, <1>8, <1>9, AskStep

(* CreateSession has no request under way, and a row that is new. *)
LEMMA CreateSessionStep ==
    ASSUME UploadInv, NEW s \in Uploads, CreateSession(s) PROVE UploadInv'
<1>1. /\ requested < MaxRequests /\ uploads[s] = NoUpload /\ requested' = requested + 1
      /\ UNCHANGED <<imports, batchStatus, uploadWork, moment, uploadSlips>>
  BY DEF CreateSession
<1>2. PICK length \in 0..1 :
          uploads' = [uploads EXCEPT ![s].status = "pending", ![s].until = moment + length]
  BY DEF CreateSession
<1>3. /\ uploads \in [Uploads -> UploadRows] /\ moment \in 0..MaxMoments
      /\ requested \in 0..MaxRequests
  BY DEF UploadInv, UploadTypeOK, UploadRows
<1>4. PICK row : row = [uploads[s] EXCEPT !.status = "pending", !.until = moment + length]
  OBVIOUS
<1>5. row \in UploadRows /\ row.status = "pending"
  <2>1. moment + length \in 0..MaxMoments + 1 BY <1>2, <1>3, UploadBounds
  <2>2. uploads[s] \in UploadRows BY <1>3
  <2> QED BY <1>4, <2>1, <2>2 DEF UploadRows
<1>6. uploads' = [uploads EXCEPT ![s] = row] BY <1>2, <1>3, <1>4 DEF UploadRows
<1>7. uploads' \in [Uploads -> UploadRows] BY <1>3, <1>5, <1>6
<1>8. /\ ImportsGrow /\ BatchItems' = BatchItems /\ \A t : ImportsOf(t)' = ImportsOf(t)
      /\ StatusFits' <=> StatusFits
  BY <1>1, ImportsStand
<1>9. UploadTypeOK'
  <2>1. requested' \in 0..MaxRequests BY <1>1, <1>3, UploadBounds
  <2>2. imports' \in Seq(Imports) BY <1>1 DEF UploadInv
  <2> QED BY <1>1, <1>3, <1>7, <1>8, <2>1, <2>2, TypeStays
<1>10. (\A j \in DOMAIN uploadWork : RequestFits(uploadWork[j]))'
  BY <1>1 DEF UploadInv, RequestFits, IsConfirm, IsRetry, Imported, ItemLeft, ChainFits,
              BatchItems
<1>11. ASSUME NEW t \in Uploads PROVE UploadedOnce(t)' /\ RowsCome(t)'
  <2>1. UploadedOnce(t) /\ RowsCome(t) BY DEF UploadInv
  <2>2. RowsCome(t)'
    BY <1>1, <2>1 DEF RowsCome, ImportsOf, BatchItems, Saving, Imported, ItemLeft, IsConfirm
  <2>3. CASE t # s
    <3>1. uploads'[t] = uploads[t] BY <1>3, <1>6, <2>3
    <3> QED BY <1>1, <2>1, <2>2, <3>1 DEF UploadedOnce, ImportsOf, Begins
  <2>4. CASE t = s
    <3>1. uploads[t].status # "uploaded" BY <1>1, <2>4 DEF NoUpload
    <3>2. uploads'[t].status # "uploaded" BY <1>3, <1>5, <1>6, <2>4
    <3> QED BY <1>1, <2>1, <2>2, <3>1, <3>2 DEF UploadedOnce, ImportsOf, Begins
  <2> QED BY <2>3, <2>4
<1>12. BatchFits'
  BY <1>1, <1>8 DEF UploadInv, BatchFits, Calm, Undisturbed, Imported, SavesStatus, IsConfirm
<1> QED BY <1>1, <1>9, <1>10, <1>11, <1>12 DEF UploadInv

LEMMA UnchangedStep ==
    ASSUME UploadInv,
           UNCHANGED <<uploads, imports, batchStatus, uploadWork, requested, uploadSlips>>,
           moment' \in 0..MaxMoments
    PROVE  UploadInv'
<1>1. UploadTypeOK' BY DEF UploadInv, UploadTypeOK
<1>2. (\A j \in DOMAIN uploadWork : RequestFits(uploadWork[j]))'
  BY DEF UploadInv, RequestFits, IsConfirm, IsRetry, Imported, ItemLeft, ChainFits, BatchItems
<1>3. ASSUME NEW s \in Uploads PROVE UploadedOnce(s)' /\ RowsCome(s)'
  <2>1. UploadedOnce(s) /\ RowsCome(s) BY DEF UploadInv
  <2> QED BY <2>1 DEF UploadedOnce, RowsCome, ImportsOf, BatchItems, Begins, Saving, Imported,
                      ItemLeft, IsConfirm
<1>4. BatchFits'
  BY DEF UploadInv, BatchFits, StatusFits, BatchItems, Calm, Undisturbed, Imported,
         SavesStatus, IsConfirm
<1> QED BY <1>1, <1>2, <1>3, <1>4 DEF UploadInv

LEMMA UploadKeeps == ASSUME UploadInv, [UploadNext]_uploadVars PROVE UploadInv'
<1>1. ASSUME NEW s \in Uploads,
             CreateSession(s) \/ RetrySession(s) \/ CompleteSession(s)
      PROVE  UploadInv'
  BY <1>1, CreateSessionStep, RetrySessionStep, CompleteSessionStep
<1>2. ASSUME NEW i \in DOMAIN uploadWork,
             \/ SaveUploadSession(i) \/ SaveImportRow(i) \/ ConfirmItem(i)
             \/ SaveImportBatch(i) \/ Stop(i)
      PROVE  UploadInv'
  BY <1>2, SaveUploadSessionStep, SaveAssetStep, SaveOtherRowStep, ConfirmItemStep,
     SaveImportBatchStep, StopStep
<1>3. CASE Pass
  <2>1. moment \in 0..MaxMoments /\ moment < MaxMoments /\ moment' = moment + 1
    BY <1>3 DEF Pass, UploadInv, UploadTypeOK
  <2>2. moment' \in 0..MaxMoments BY <2>1, UploadBounds
  <2> QED BY <1>3, <2>2, UnchangedStep DEF Pass
<1>4. CASE UNCHANGED uploadVars
  <2>1. moment' \in 0..MaxMoments BY <1>4 DEF uploadVars, UploadInv, UploadTypeOK
  <2> QED BY <1>4, <2>1, UnchangedStep DEF uploadVars
<1> QED BY <1>1, <1>2, <1>3, <1>4, ConfirmItemsStep DEF UploadNext

(* What the rows say and what every request has still to save fit together *)
(* at all times (session_handler.go, BatchConfirmImportBatchItems).        *)
THEOREM UploadInvariance == UploadSpec => []UploadInv
<1>1. UploadInit => UploadInv BY UploadInvInit
<1>2. UploadInv /\ [UploadNext]_uploadVars => UploadInv' BY UploadKeeps
<1> QED BY <1>1, <1>2, PTL DEF UploadSpec

(* Sessions, imports and the batch have values of the kinds the code gives *)
(* them, and every import belongs to a session and has its asset row.      *)
THEOREM UploadsTyped == UploadSpec => []UploadTypeOK
<1>1. UploadInv => UploadTypeOK BY DEF UploadInv
<1> QED BY <1>1, UploadInvariance, PTL

(* What UploadInv says with no request under way: a session was uploaded   *)
(* exactly if it has an import, which has all its rows, and the batch is   *)
(* confirmed exactly if its items are, but for a stale save, a request     *)
(* that stopped and a confirm that named some items.                       *)
THEOREM UploadsAreSettled == UploadSpec => []UploadsSettle
<1>1. UploadInv => UploadsSettle
  <2> SUFFICES ASSUME UploadInv, uploadWork = <<>> PROVE UploadsSettle
    BY DEF UploadsSettle
  <2>1. DOMAIN uploadWork = {}
    <3>1. DOMAIN <<>> = {} OBVIOUS
    <3> QED BY <3>1
  <2>2. ASSUME NEW s \in Uploads
        PROVE  /\ <<"stale", s>> \notin uploadSlips =>
                    /\ Cardinality(ImportsOf(s)) <= 1
                    /\ ImportsOf(s) # {} => uploads[s].status = "uploaded"
                    /\ uploads[s].status = "uploaded" /\ <<"cut", s>> \notin uploadSlips =>
                            ImportsOf(s) # {}
               /\ <<"cut", s>> \notin uploadSlips => ImportsOf(s) \subseteq BatchItems
    <3>1. UploadedOnce(s) /\ RowsCome(s) BY DEF UploadInv
    <3>2. ASSUME <<"stale", s>> \notin uploadSlips PROVE Cardinality(ImportsOf(s)) <= 1
      <4>1. CASE ImportsOf(s) = {}
        <5>1. Cardinality({}) = 0 BY FS_EmptySet
        <5> QED BY <4>1, <5>1
      <4>2. CASE ImportsOf(s) # {}
        <5>1. PICK k : k \in ImportsOf(s) BY <4>2
        <5>2. ImportsOf(s) = {k} BY <3>1, <3>2, <5>1 DEF UploadedOnce
        <5>3. Cardinality({k}) = 1 BY FS_Singleton
        <5> QED BY <5>2, <5>3
      <4> QED BY <4>1, <4>2
    <3> QED BY <2>1, <3>1, <3>2 DEF UploadedOnce, RowsCome
  <2>3. (\A slip \in uploadSlips : slip[1] = "stale") => StatusFits
    BY <2>1 DEF UploadInv, BatchFits, Calm, Undisturbed
  <2> QED BY <2>2, <2>3 DEF UploadsSettle, StatusFits
<1> QED BY <1>1, UploadInvariance, PTL

-----------------------------------------------------------------------------
(* The edit lease.                                                         *)

(* A request that decides or saves has read a row.  One that was granted   *)
(* the lease read that nobody else held it, and time has only passed since;*)
(* its user is entered as editing for as long as it will be told, which is *)
(* not less than it was told before.  One that was refused read that       *)
(* another holds it.  A user who releases counts on nothing.               *)
CallAgrees(u) ==
    LET c == call[u] IN
    /\ c.at \in {"enter", "claim", "refuse", "release"} => c.read.exists
    /\ c.at = "claim" =>
          /\ ~HeldByAnother(c.read, u, tick)
          /\ presence[u].status = "editing" /\ presence[u].until = c.until
          /\ c.until >= counted[u] /\ c.until <= tick + LeaseTTL
    /\ c.at = "refuse" => c.read.holder # u
    /\ c.at = "release" => c.read.holder = u
    /\ c.at \in {"release", "leave"} => counted[u] = 0

CallsAgree == \A u \in Users : CallAgrees(u)

LeaseInv ==
    /\ LeaseTypeOK
    /\ lease.exists \/ lease.holder = Nobody
    /\ \A u \in Users : counted[u] <= tick + LeaseTTL
    /\ CallsAgree
    /\ LeaseIsHeld

-----------------------------------------------------------------------------
(* The values steps build are typed. *)
LEMMA LeaseValues ==
    ASSUME LeaseTypeOK
    PROVE  /\ NoLease \in Leases /\ [NoLease EXCEPT !.exists = TRUE] \in Leases
           /\ Idle \in LeaseCalls
           /\ tick \in Moments /\ tick + LeaseTTL \in Moments /\ 0 \in Moments
           /\ \A u \in Users : call[u] \in LeaseCalls /\ call[u].read \in Leases
                                /\ call[u].until \in Moments
<1> USE LeasesLast, ClaimsAreBounded
<1>1. tick \in Moments /\ tick + LeaseTTL \in Moments /\ 0 \in Moments
  BY DEF LeaseTypeOK, Moments
<1>2. NoLease \in Leases /\ [NoLease EXCEPT !.exists = TRUE] \in Leases
  BY <1>1 DEF NoLease, Leases
<1>3. Idle \in LeaseCalls BY <1>1, <1>2 DEF Idle, LeaseCalls
<1>4. \A u \in Users : call[u] \in LeaseCalls BY DEF LeaseTypeOK
<1>5. \A u \in Users : call[u].read \in Leases /\ call[u].until \in Moments
  BY <1>4 DEF LeaseCalls
<1> QED BY <1>1, <1>2, <1>3, <1>4, <1>5

(* A save of a row puts only users in doubt. *)
LEMMA SaveTyped ==
    ASSUME LeaseTypeOK, NEW u \in Users, NEW row \in Leases, SaveCollaborationSession(u, row)
    PROVE  lease' \in Leases /\ doubtful' \subseteq Users
BY DEF SaveCollaborationSession, LeaseTypeOK, Leases

(* Every step keeps the types. *)
LEMMA LeaseTypes == LeaseTypeOK /\ [LeaseNext]_leaseVars => LeaseTypeOK'
<1> SUFFICES ASSUME LeaseTypeOK, [LeaseNext]_leaseVars PROVE LeaseTypeOK'
  OBVIOUS
<1> USE LeaseValues, LeasesLast, ClaimsAreBounded
<1>1. ASSUME NEW u \in Users, NEW kind \in {"get", "claim"}, GetCollaborationSession(u, kind)
      PROVE  LeaseTypeOK'
  <2> DEFINE c == [kind |-> kind, read |-> lease, until |-> 0,
                   at |-> IF lease.exists THEN "enter" ELSE "insert"]
  <2>1. c \in LeaseCalls BY DEF LeaseTypeOK, LeaseCalls
  <2> QED BY <1>1, <2>1 DEF GetCollaborationSession, LeaseTypeOK
<1>2. ASSUME NEW u \in Users, ensureCollaborationSession(u) PROVE LeaseTypeOK'
  <2>1. lease' \in Leases BY <1>2 DEF ensureCollaborationSession
  <2>2. [call[u] EXCEPT !.at = "enter", !.read = lease'] \in LeaseCalls
    BY <2>1 DEF LeaseCalls
  <2> QED BY <1>2, <2>1, <2>2 DEF ensureCollaborationSession, LeaseTypeOK
<1>3. ASSUME NEW u \in Users, AnswerSession(u) \/ FailLease(u) PROVE LeaseTypeOK'
  BY <1>3 DEF AnswerSession, FailLease, Returned, LeaseTypeOK
<1>4. ASSUME NEW u \in Users, EnterPresence(u) PROVE LeaseTypeOK'
  <2> DEFINE c == [call[u] EXCEPT !.until = tick + LeaseTTL,
                      !.at = IF HeldByAnother(call[u].read, u, tick) THEN "refuse"
                             ELSE "claim"]
  <2>1. c \in LeaseCalls BY DEF LeaseCalls
  <2> QED BY <1>4, <2>1 DEF EnterPresence, LeaseTypeOK
<1>5. ASSUME NEW u \in Users, UpsertCollaborationLease(u) PROVE LeaseTypeOK'
  <2> DEFINE row == [call[u].read EXCEPT !.holder = u, !.until = call[u].until]
  <2>1. row \in Leases /\ row.until \in Moments BY DEF Leases
  <2>2. lease' \in Leases /\ doubtful' \subseteq Users
    BY <1>5, <2>1, SaveTyped DEF UpsertCollaborationLease
  <2>3. counted' \in [Users -> Moments]
    BY <1>5, <2>1 DEF UpsertCollaborationLease, LeaseTypeOK
  <2>4. call' \in [Users -> LeaseCalls]
    BY <1>5 DEF UpsertCollaborationLease, Returned, LeaseTypeOK
  <2> QED BY <1>5, <2>2, <2>3, <2>4 DEF UpsertCollaborationLease, LeaseTypeOK
<1>6. ASSUME NEW u \in Users, RefuseLease(u) PROVE LeaseTypeOK'
  <2>1. lease' \in Leases /\ doubtful' \subseteq Users
    BY <1>6, SaveTyped DEF RefuseLease
  <2> QED BY <1>6, <2>1 DEF RefuseLease, Returned, LeaseTypeOK
<1>7. ASSUME NEW u \in Users, ReleaseCollaborationLease(u) PROVE LeaseTypeOK'
  <2>1. [Idle EXCEPT !.kind = "release", !.at = "release", !.read = lease] \in LeaseCalls
    BY DEF LeaseCalls, LeaseTypeOK
  <2> QED BY <1>7, <2>1 DEF ReleaseCollaborationLease, LeaseTypeOK
<1>8. ASSUME NEW u \in Users, SaveRelease(u) PROVE LeaseTypeOK'
  <2>1. [call[u].read EXCEPT !.holder = Nobody, !.until = 0] \in Leases BY DEF Leases
  <2>2. lease' \in Leases /\ doubtful' \subseteq Users
    BY <1>8, <2>1, SaveTyped DEF SaveRelease
  <2>3. [call[u] EXCEPT !.at = "leave"] \in LeaseCalls BY DEF LeaseCalls
  <2> QED BY <1>8, <2>2, <2>3 DEF SaveRelease, LeaseTypeOK
<1>9. ASSUME NEW u \in Users, LeavePresence(u) PROVE LeaseTypeOK'
  BY <1>9 DEF LeavePresence, Returned, LeaseTypeOK
<1>10. CASE Tick BY <1>10 DEF Tick, LeaseTypeOK
<1>11. CASE UNCHANGED leaseVars BY <1>11 DEF leaseVars, LeaseTypeOK
<1> QED
  BY <1>1, <1>2, <1>3, <1>4, <1>5, <1>6, <1>7, <1>8, <1>9, <1>10, <1>11 DEF LeaseNext

-----------------------------------------------------------------------------
(* Times are numbers, the tables are functions, and a row read is a row. *)
LEMMA LeaseFacts ==
    ASSUME LeaseTypeOK
    PROVE  /\ tick \in Nat /\ LeaseTTL \in Nat /\ LeaseTTL > 0
           /\ lease.until \in Nat /\ lease.holder \in Users \cup {Nobody}
           /\ DOMAIN call = Users /\ DOMAIN counted = Users /\ DOMAIN presence = Users
           /\ \A u \in Users :
                 /\ counted[u] \in Nat /\ presence[u].until \in Nat
                 /\ call[u].until \in Nat /\ call[u].read.until \in Nat
                 /\ call[u].read.holder \in Users \cup {Nobody}
<1> USE LeasesLast, ClaimsAreBounded
<1>1. Moments \subseteq Nat BY DEF Moments
<1>2. \A row \in Leases : row.until \in Nat /\ row.holder \in Users \cup {Nobody}
  BY <1>1 DEF Leases
<1>3. \A u \in Users : call[u].read \in Leases /\ call[u].until \in Nat
  BY <1>1, LeaseValues
<1>4. lease \in Leases BY DEF LeaseTypeOK
<1>5. tick \in Nat BY DEF LeaseTypeOK
<1>6. \A u \in Users : counted[u] \in Nat /\ presence[u].until \in Nat
  BY <1>1 DEF LeaseTypeOK
<1>7. DOMAIN call = Users /\ DOMAIN counted = Users /\ DOMAIN presence = Users
  BY DEF LeaseTypeOK
<1> QED BY <1>2, <1>3, <1>4, <1>5, <1>6, <1>7

(* A request of u that only moves on, without a word to anyone or a change
   of the row, keeps what holds of the others, and what they count on. *)
LEMMA QuietStep ==
    ASSUME LeaseInv, NEW u \in Users, NEW c \in LeaseCalls,
           call' = [call EXCEPT ![u] = c],
           UNCHANGED <<lease, presence, tick, counted, doubtful>>,
           CallAgrees(u)'
    PROVE  CallsAgree' /\ LeaseIsHeld' /\ (lease.exists \/ lease.holder = Nobody)'
           /\ \A v \in Users : (counted[v] <= tick + LeaseTTL)'
<1>1. ASSUME NEW v \in Users, v # u PROVE CallAgrees(v)'
  <2>1. call'[v] = call[v] BY <1>1 DEF LeaseInv, LeaseTypeOK
  <2> QED BY <1>1, <2>1 DEF LeaseInv, CallsAgree, CallAgrees, HeldByAnother
<1>2. CallsAgree' BY <1>1 DEF CallsAgree
<1>3. LeaseIsHeld' BY DEF LeaseInv, LeaseIsHeld
<1> QED BY <1>2, <1>3 DEF LeaseInv

(* A save by u of a row that was read unchanged, or over another's: whoever
   counts on the lease and is not in doubt after it, unless it is u taking
   the lease, held it in the row that was read. *)
LEMMA SaveDoubts ==
    ASSUME LeaseInv, NEW u \in Users, NEW row \in Leases, SaveCollaborationSession(u, row),
           NEW v \in Users, v # u \/ row.holder # u, v \notin doubtful', counted[v] > tick
    PROVE  /\ v \notin doubtful /\ lease.holder = v /\ lease.until >= counted[v]
           /\ presence[v].status = "editing" /\ presence[v].until >= counted[v]
           /\ lease = call[u].read
<1>1. v \notin doubtful BY DEF SaveCollaborationSession
<1>2. /\ lease.holder = v /\ lease.until >= counted[v]
      /\ presence[v].status = "editing" /\ presence[v].until >= counted[v]
  BY <1>1 DEF LeaseInv, LeaseIsHeld
<1>3. v # Nobody BY NobodyIsNoUser
<1>4. lease = call[u].read BY <1>2, <1>3 DEF SaveCollaborationSession
<1> QED BY <1>1, <1>2, <1>4

(* What holds of a request of v stays so while another's is served. *)
LEMMA OthersAgree ==
    ASSUME LeaseInv, NEW v \in Users, call'[v] = call[v], presence'[v] = presence[v],
           counted'[v] = counted[v], tick' = tick
    PROVE  CallAgrees(v)'
BY DEF LeaseInv, CallsAgree, CallAgrees, HeldByAnother

(* What is known of everyone's words, and that a row that is held exists,
   kept by a step, one conjunct each. *)
LeaseKept ==
    /\ (lease.exists \/ lease.holder = Nobody)'
    /\ (\A v \in Users : counted[v] <= tick + LeaseTTL)'
    /\ CallsAgree'
    /\ LeaseIsHeld'

LEMMA GetKeeps ==
    ASSUME LeaseInv, NEW u \in Users, NEW kind \in {"get", "claim"},
           GetCollaborationSession(u, kind)
    PROVE  LeaseKept
<1> DEFINE c == [kind |-> kind, read |-> lease, until |-> 0,
                 at |-> IF lease.exists THEN "enter" ELSE "insert"]
<1>1. c \in LeaseCalls BY LeaseValues DEF LeaseInv, LeaseTypeOK, LeaseCalls
<1>2. call' = [call EXCEPT ![u] = c] /\ UNCHANGED <<lease, presence, tick, counted, doubtful>>
  BY DEF GetCollaborationSession
<1>3. call'[u] = c BY <1>2 DEF LeaseInv, LeaseTypeOK
<1>4. CallAgrees(u)' BY <1>3 DEF CallAgrees
<1> QED BY <1>1, <1>2, <1>4, QuietStep DEF LeaseKept

LEMMA ReturnKeeps ==
    ASSUME LeaseInv, NEW u \in Users, AnswerSession(u) \/ FailLease(u)
    PROVE  LeaseKept
<1>1. Idle \in LeaseCalls BY LeaseValues DEF LeaseInv
<1>2. /\ call' = [call EXCEPT ![u] = Idle]
      /\ UNCHANGED <<lease, presence, tick, counted, doubtful>>
  BY DEF AnswerSession, FailLease, Returned
<1>3. call'[u] = Idle BY <1>2 DEF LeaseInv, LeaseTypeOK
<1>4. CallAgrees(u)' BY <1>3 DEF CallAgrees, Idle
<1> QED BY <1>1, <1>2, <1>4, QuietStep DEF LeaseKept

(* Nobody counts on a lease that has no row. *)
LEMMA InsertKeeps ==
    ASSUME LeaseInv, NEW u \in Users, ensureCollaborationSession(u)
    PROVE  LeaseKept
<1> USE LeaseFacts
<1>1. /\ lease' = [NoLease EXCEPT !.exists = TRUE] /\ lease.holder = Nobody
      /\ call' = [call EXCEPT ![u] = [@ EXCEPT !.at = "enter", !.read = lease']]
      /\ UNCHANGED <<presence, tick, counted, doubtful>>
  BY DEF ensureCollaborationSession, LeaseInv
<1>2. lease'.exists = TRUE BY <1>1 DEF NoLease
<1>3. LeaseTypeOK BY DEF LeaseInv
<1>4. call'[u] = [call[u] EXCEPT !.at = "enter", !.read = lease']
  BY <1>1, <1>3
<1>5. CallAgrees(u)'
  <2>1. call[u] \in LeaseCalls BY <1>3, LeaseValues
  <2>2. call'[u].at = "enter" /\ call'[u].read = lease' BY <1>4, <2>1 DEF LeaseCalls
  <2> QED BY <1>2, <2>2 DEF CallAgrees
<1>6. ASSUME NEW v \in Users, v # u PROVE CallAgrees(v)'
  <2>1. call'[v] = call[v] BY <1>1, <1>3, <1>6
  <2> QED BY <1>1, <2>1, OthersAgree
<1>7. CallsAgree' BY <1>5, <1>6 DEF CallsAgree
<1>8. LeaseIsHeld' BY <1>1, NobodyIsNoUser DEF LeaseInv, LeaseIsHeld
<1> QED BY <1>1, <1>2, <1>7, <1>8 DEF LeaseInv, LeaseKept

(* Being entered as editing ends no sooner than what the user was told. *)
LEMMA EnterPresenceKeeps ==
    ASSUME LeaseInv, NEW u \in Users, EnterPresence(u)
    PROVE  LeaseKept
<1> DEFINE until == tick + LeaseTTL
<1>1. LeaseTypeOK BY DEF LeaseInv
<1>2. /\ call[u].at = "enter" /\ UNCHANGED <<lease, tick, counted, doubtful>>
      /\ presence' = [presence EXCEPT ![u] = [status |-> "editing", until |-> until]]
      /\ call' = [call EXCEPT ![u] = [@ EXCEPT !.until = until,
            !.at = IF HeldByAnother(call[u].read, u, tick) THEN "refuse" ELSE "claim"]]
  BY DEF EnterPresence
<1>3. counted[u] <= until BY DEF LeaseInv
<1>4. presence'[u].status = "editing" /\ presence'[u].until = until
  BY <1>1, <1>2, LeaseFacts
<1>5. call[u] \in LeaseCalls BY <1>1, LeaseValues
<1>6. /\ call'[u].until = until /\ call'[u].read = call[u].read
      /\ call'[u].at = IF HeldByAnother(call[u].read, u, tick) THEN "refuse" ELSE "claim"
  BY <1>1, <1>2, <1>5, LeaseFacts DEF LeaseCalls
<1>7. call[u].read.exists BY <1>2 DEF LeaseInv, CallsAgree, CallAgrees
<1>8. until \in Nat /\ counted[u] \in Nat BY <1>1, LeaseFacts
<1>9. CallAgrees(u)'
  <2>1. CASE HeldByAnother(call[u].read, u, tick)
    <3>1. call[u].read.holder # u BY <2>1 DEF HeldByAnother
    <3>2. call'[u].at = "refuse" BY <1>6, <2>1
    <3> QED BY <1>6, <1>7, <3>1, <3>2 DEF CallAgrees
  <2>2. CASE ~HeldByAnother(call[u].read, u, tick)
    <3>1. call'[u].at = "claim" BY <1>6, <2>2
    <3>2. ~HeldByAnother(call'[u].read, u, tick') BY <1>2, <1>6, <2>2
    <3>3. until >= counted'[u] /\ until <= tick' + LeaseTTL BY <1>2, <1>3, <1>8
    <3> QED BY <1>4, <1>6, <1>7, <3>1, <3>2, <3>3 DEF CallAgrees
  <2> QED BY <2>1, <2>2
<1>10. ASSUME NEW v \in Users, v # u PROVE CallAgrees(v)' /\ presence'[v] = presence[v]
  <2>1. call'[v] = call[v] /\ presence'[v] = presence[v] BY <1>1, <1>2, <1>10, LeaseFacts
  <2> QED BY <1>2, <2>1, OthersAgree
<1>11. CallsAgree' BY <1>9, <1>10 DEF CallsAgree
<1>12. LeaseIsHeld'
  <2> SUFFICES ASSUME NEW v \in Users, counted[v] > tick, v \notin doubtful
               PROVE  /\ lease.holder = v /\ lease.until >= counted[v]
                      /\ presence'[v].status = "editing" /\ presence'[v].until >= counted[v]
    BY <1>2 DEF LeaseIsHeld
  <2>1. /\ lease.holder = v /\ lease.until >= counted[v]
        /\ presence[v].status = "editing" /\ presence[v].until >= counted[v]
    BY DEF LeaseInv, LeaseIsHeld
  <2>2. CASE v = u BY <1>3, <1>4, <1>8, <2>1, <2>2
  <2>3. CASE v # u BY <1>10, <2>1, <2>3
  <2> QED BY <2>2, <2>3
<1> QED BY <1>2, <1>11, <1>12 DEF LeaseInv, LeaseKept

(* A claim is granted by a row nobody else held: if that row is still there
   nobody else counts on the lease, and if not whoever did is in doubt. *)
LEMMA ClaimKeeps ==
    ASSUME LeaseInv, NEW u \in Users, UpsertCollaborationLease(u)
    PROVE  LeaseKept
<1> DEFINE row == [call[u].read EXCEPT !.holder = u, !.until = call[u].until]
<1>1. LeaseTypeOK BY DEF LeaseInv
<1>2. /\ call[u].at = "claim" /\ SaveCollaborationSession(u, row)
      /\ counted' \in {counted, [counted EXCEPT ![u] = row.until]}
      /\ call' = [call EXCEPT ![u] = Idle] /\ UNCHANGED <<presence, tick>>
  BY DEF UpsertCollaborationLease, Returned
<1>3. /\ call[u].read.exists /\ ~HeldByAnother(call[u].read, u, tick)
      /\ presence[u].status = "editing" /\ presence[u].until = call[u].until
      /\ call[u].until >= counted[u] /\ call[u].until <= tick + LeaseTTL
  BY <1>2 DEF LeaseInv, CallsAgree, CallAgrees
<1>4. call[u].read \in Leases /\ call[u].until \in Moments BY <1>1, LeaseValues
<1>5. row \in Leases /\ row.until = call[u].until /\ row.holder = u
      /\ row.exists = call[u].read.exists
  BY <1>4 DEF Leases
<1>6. lease' = row BY <1>2 DEF SaveCollaborationSession
<1>7. \A v \in Users : v # u => counted'[v] = counted[v]
  <2>1. CASE counted' = counted BY <2>1
  <2>2. CASE counted' = [counted EXCEPT ![u] = row.until] BY <1>1, <2>2, LeaseFacts
  <2> QED BY <1>2, <2>1, <2>2
<1>8. counted'[u] <= call[u].until /\ counted'[u] <= tick + LeaseTTL
  <2>1. counted'[u] = counted[u] \/ counted'[u] = call[u].until
    BY <1>1, <1>2, <1>5, LeaseFacts
  <2> QED BY <1>1, <1>3, <2>1, LeaseFacts
<1>9. CallsAgree'
  <2> SUFFICES ASSUME NEW v \in Users PROVE CallAgrees(v)' BY DEF CallsAgree
  <2>1. CASE v = u
    <3>1. call'[u] = Idle BY <1>1, <1>2, LeaseFacts
    <3> QED BY <2>1, <3>1 DEF CallAgrees, Idle
  <2>2. CASE v # u
    <3>1. call'[v] = call[v] BY <1>1, <1>2, <2>2
    <3> QED BY <1>2, <1>7, <2>2, <3>1, OthersAgree
  <2> QED BY <2>1, <2>2
<1>10. LeaseIsHeld'
  <2> SUFFICES ASSUME NEW v \in Users, counted'[v] > tick, v \notin doubtful'
               PROVE  /\ lease'.holder = v /\ lease'.until >= counted'[v]
                      /\ presence[v].status = "editing" /\ presence[v].until >= counted'[v]
    BY <1>2 DEF LeaseIsHeld
  <2>1. CASE v = u BY <1>1, <1>3, <1>5, <1>6, <1>8, <2>1, LeaseFacts
  <2>2. CASE v # u
    <3>1. lease.holder = v /\ lease.until >= counted[v] /\ lease = call[u].read
      BY <1>2, <1>5, <1>7, <2>2, SaveDoubts
    <3>2. lease.until > tick BY <1>1, <1>7, <2>2, <3>1, LeaseFacts
    <3>3. v \notin {Nobody, u} BY <2>2, NobodyIsNoUser
    <3>4. HeldByAnother(call[u].read, u, tick) BY <3>1, <3>2, <3>3 DEF HeldByAnother
    <3> QED BY <1>3, <3>4
  <2> QED BY <2>1, <2>2
<1>11. \A v \in Users : counted'[v] <= tick + LeaseTTL BY <1>7, <1>8 DEF LeaseInv
<1> QED BY <1>2, <1>3, <1>5, <1>6, <1>9, <1>10, <1>11 DEF LeaseKept

(* The note of a conflict saves a row another holds: if it is still there
   nothing changes, and if not whoever it was taken from is in doubt. *)
LEMMA RefuseLeaseKeeps ==
    ASSUME LeaseInv, NEW u \in Users, RefuseLease(u)
    PROVE  LeaseKept
<1>1. LeaseTypeOK BY DEF LeaseInv
<1>2. /\ call[u].at = "refuse" /\ SaveCollaborationSession(u, call[u].read)
      /\ call' = [call EXCEPT ![u] = Idle] /\ UNCHANGED <<presence, tick, counted>>
  BY DEF RefuseLease, Returned
<1>3. call[u].read.exists /\ call[u].read.holder # u
  BY <1>2 DEF LeaseInv, CallsAgree, CallAgrees
<1>4. call[u].read \in Leases BY <1>1, LeaseValues
<1>5. lease' = call[u].read BY <1>2 DEF SaveCollaborationSession
<1>6. CallsAgree'
  <2> SUFFICES ASSUME NEW v \in Users PROVE CallAgrees(v)' BY DEF CallsAgree
  <2>1. CASE v = u
    <3>1. call'[u] = Idle BY <1>1, <1>2, LeaseFacts
    <3> QED BY <2>1, <3>1 DEF CallAgrees, Idle
  <2>2. CASE v # u
    <3>1. call'[v] = call[v] BY <1>1, <1>2, <2>2
    <3> QED BY <1>2, <3>1, OthersAgree
  <2> QED BY <2>1, <2>2
<1>7. LeaseIsHeld'
  <2> SUFFICES ASSUME NEW v \in Users, counted[v] > tick, v \notin doubtful'
               PROVE  /\ lease'.holder = v /\ lease'.until >= counted[v]
                      /\ presence[v].status = "editing" /\ presence[v].until >= counted[v]
    BY <1>2 DEF LeaseIsHeld
  <2> QED BY <1>2, <1>3, <1>4, <1>5, SaveDoubts
<1> QED BY <1>2, <1>3, <1>5, <1>6, <1>7 DEF LeaseInv, LeaseKept

(* Who asks for its release counts on the lease no more. *)
LEMMA AskReleaseKeeps ==
    ASSUME LeaseInv, NEW u \in Users, ReleaseCollaborationLease(u)
    PROVE  LeaseKept
<1> DEFINE c == [Idle EXCEPT !.kind = "release", !.at = "release", !.read = lease]
<1>1. LeaseTypeOK BY DEF LeaseInv
<1>2. /\ call[u] = Idle /\ UNCHANGED <<lease, presence, tick, doubtful>>
      /\ counted' = [counted EXCEPT ![u] = 0]
      /\ \/ lease.holder = u /\ call' = [call EXCEPT ![u] = c]
         \/ call' = call
  BY DEF ReleaseCollaborationLease
<1>3. counted'[u] = 0 /\ \A v \in Users : v # u => counted'[v] = counted[v]
  BY <1>1, <1>2, LeaseFacts
<1>4. CallAgrees(u)'
  <2>1. CASE lease.holder = u /\ call' = [call EXCEPT ![u] = c]
    <3>1. lease.exists BY <2>1, NobodyIsNoUser DEF LeaseInv
    <3>2. call'[u] = c BY <1>1, <2>1, LeaseFacts
    <3>3. c.at = "release" /\ c.read = lease BY DEF Idle
    <3> QED BY <1>3, <2>1, <3>1, <3>2, <3>3 DEF CallAgrees
  <2>2. CASE call' = call BY <1>2, <2>2 DEF CallAgrees, Idle
  <2> QED BY <1>2, <2>1, <2>2
<1>5. ASSUME NEW v \in Users, v # u PROVE CallAgrees(v)'
  <2>1. call'[v] = call[v]
    <3> HIDE DEF c
    <3> QED BY <1>1, <1>2, <1>5, LeaseFacts
  <2> QED BY <1>2, <1>3, <1>5, <2>1, OthersAgree
<1>6. CallsAgree' BY <1>4, <1>5 DEF CallsAgree
<1>7. LeaseIsHeld'
  <2>1. ~(counted'[u] > tick) BY <1>1, <1>3, LeaseFacts
  <2> QED BY <1>2, <1>3, <2>1 DEF LeaseInv, LeaseIsHeld
<1>8. \A v \in Users : counted'[v] <= tick + LeaseTTL
  BY <1>1, <1>3, LeaseFacts DEF LeaseInv
<1> QED BY <1>2, <1>6, <1>7, <1>8 DEF LeaseInv, LeaseKept

(* The row that is released is its user's: if it is still there nobody else
   counts on the lease, and if not whoever did is in doubt. *)
LEMMA ReleaseKeeps ==
    ASSUME LeaseInv, NEW u \in Users, SaveRelease(u)
    PROVE  LeaseKept
<1> DEFINE row == [call[u].read EXCEPT !.holder = Nobody, !.until = 0]
           c == [call[u] EXCEPT !.at = "leave"]
<1>1. LeaseTypeOK BY DEF LeaseInv
<1>2. /\ call[u].at = "release" /\ SaveCollaborationSession(u, row)
      /\ call' = [call EXCEPT ![u] = c] /\ UNCHANGED <<presence, tick, counted>>
  BY DEF SaveRelease
<1>3. call[u].read.exists /\ call[u].read.holder = u /\ counted[u] = 0
  BY <1>2 DEF LeaseInv, CallsAgree, CallAgrees
<1>4. call[u] \in LeaseCalls /\ call[u].read \in Leases /\ 0 \in Moments
  BY <1>1, LeaseValues
<1>5. row \in Leases /\ row.holder = Nobody BY <1>4 DEF Leases
<1>6. lease' = row BY <1>2 DEF SaveCollaborationSession
<1>7. CallsAgree'
  <2> SUFFICES ASSUME NEW v \in Users PROVE CallAgrees(v)' BY DEF CallsAgree
  <2>1. CASE v = u
    <3>1. call'[u] = c BY <1>1, <1>2, LeaseFacts
    <3>2. c.at = "leave" BY <1>4 DEF LeaseCalls
    <3> QED BY <1>2, <1>3, <2>1, <3>1, <3>2 DEF CallAgrees
  <2>2. CASE v # u
    <3>1. call'[v] = call[v] BY <1>1, <1>2, <2>2
    <3> QED BY <1>2, <3>1, OthersAgree
  <2> QED BY <2>1, <2>2
<1>8. LeaseIsHeld'
  <2> SUFFICES ASSUME NEW v \in Users, counted[v] > tick, v \notin doubtful' PROVE FALSE
    BY <1>2 DEF LeaseIsHeld
  <2>1. v # u BY <1>1, <1>3, LeaseFacts
  <2>2. lease.holder = v /\ lease = call[u].read BY <1>2, <1>5, <2>1, SaveDoubts
  <2> QED BY <1>3, <2>1, <2>2
<1> QED BY <1>2, <1>5, <1>6, <1>7, <1>8 DEF LeaseInv, LeaseKept

LEMMA LeavePresenceKeeps ==
    ASSUME LeaseInv, NEW u \in Users, LeavePresence(u)
    PROVE  LeaseKept
<1>1. LeaseTypeOK BY DEF LeaseInv
<1>2. /\ call[u].at = "leave" /\ UNCHANGED <<lease, tick, counted, doubtful>>
      /\ presence' = [presence EXCEPT ![u] = [status |-> "released", until |-> tick]]
      /\ call' = [call EXCEPT ![u] = Idle]
  BY DEF LeavePresence, Returned
<1>3. counted[u] = 0 BY <1>2 DEF LeaseInv, CallsAgree, CallAgrees
<1>4. call'[u] = Idle BY <1>1, <1>2, LeaseFacts
<1>5. CallAgrees(u)' BY <1>4 DEF CallAgrees, Idle
<1>6. ASSUME NEW v \in Users, v # u PROVE CallAgrees(v)' /\ presence'[v] = presence[v]
  <2>1. call'[v] = call[v] /\ presence'[v] = presence[v] BY <1>1, <1>2, <1>6, LeaseFacts
  <2> QED BY <1>2, <2>1, OthersAgree
<1>7. CallsAgree' BY <1>5, <1>6 DEF CallsAgree
<1>8. LeaseIsHeld'
  <2>1. ~(counted[u] > tick) BY <1>1, <1>3, LeaseFacts
  <2> QED BY <1>2, <1>6, <2>1 DEF LeaseInv, LeaseIsHeld
<1> QED BY <1>2, <1>7, <1>8 DEF LeaseInv, LeaseKept

(* As time passes leases run out, and none begins. *)
LEMMA LeaseTickKeeps ==
    ASSUME LeaseInv, Tick
    PROVE  LeaseKept
<1>1. LeaseTypeOK BY DEF LeaseInv
<1>2. tick' = tick + 1 /\ UNCHANGED <<lease, presence, call, counted, doubtful>> BY DEF Tick
<1>3. CallsAgree'
  <2> SUFFICES ASSUME NEW v \in Users PROVE CallAgrees(v)' BY DEF CallsAgree
  <2>1. CallAgrees(v) BY DEF LeaseInv, CallsAgree
  <2>2. HeldByAnother(call[v].read, v, tick + 1) => HeldByAnother(call[v].read, v, tick)
    BY <1>1, LeaseFacts DEF HeldByAnother
  <2>3. call[v].until <= tick + LeaseTTL => call[v].until <= tick + 1 + LeaseTTL
    BY <1>1, LeaseFacts
  <2> QED BY <1>2, <2>1, <2>2, <2>3 DEF CallAgrees
<1>4. LeaseIsHeld'
  <2>1. \A v \in Users : counted[v] > tick + 1 => counted[v] > tick BY <1>1, LeaseFacts
  <2> QED BY <1>2, <2>1 DEF LeaseInv, LeaseIsHeld
<1>5. \A v \in Users : counted[v] <= tick + 1 + LeaseTTL
  BY <1>1, LeaseFacts DEF LeaseInv
<1> QED BY <1>2, <1>3, <1>4, <1>5 DEF LeaseInv, LeaseKept

-----------------------------------------------------------------------------
LEMMA LeaseBegins == LeaseInit => LeaseInv
<1> SUFFICES ASSUME LeaseInit PROVE LeaseInv
  OBVIOUS
<1> USE LeasesLast, ClaimsAreBounded DEF LeaseInit
<1>1. 0 \in Moments BY DEF Moments
<1>2. NoLease \in Leases BY <1>1 DEF NoLease, Leases
<1>3. Idle \in LeaseCalls BY <1>1, <1>2 DEF Idle, LeaseCalls
<1>4. LeaseTypeOK BY <1>1, <1>2, <1>3 DEF LeaseTypeOK
<1>5. CallsAgree BY DEF CallsAgree, CallAgrees, Idle
<1>6. LeaseIsHeld BY DEF LeaseIsHeld
<1> QED BY <1>4, <1>5, <1>6 DEF LeaseInv, NoLease

LEMMA LeaseKeeps == LeaseInv /\ [LeaseNext]_leaseVars => LeaseInv'
<1> SUFFICES ASSUME LeaseInv, [LeaseNext]_leaseVars PROVE LeaseInv'
  OBVIOUS
<1>1. LeaseTypeOK' BY LeaseTypes DEF LeaseInv
<1>2. CASE LeaseNext
  <2>1. LeaseKept
    BY <1>2, GetKeeps, ReturnKeeps, InsertKeeps, EnterPresenceKeeps, ClaimKeeps, RefuseLeaseKeeps,
       AskReleaseKeeps, ReleaseKeeps, LeavePresenceKeeps, LeaseTickKeeps DEF LeaseNext
  <2> QED BY <1>1, <2>1 DEF LeaseInv, LeaseKept
<1>3. CASE UNCHANGED leaseVars
  BY <1>1, <1>3 DEF leaseVars, LeaseInv, CallsAgree, CallAgrees, LeaseIsHeld, HeldByAnother
<1> QED BY <1>2, <1>3

(* The lease's types, its row, every request under way, and what users were
   told always agree, however the requests' reads and whole-row saves fall
   between each other, and whichever of them fail. *)
THEOREM LeaseInvariance == LeaseSpec => []LeaseInv
<1>1. LeaseInit => LeaseInv BY LeaseBegins
<1>2. LeaseInv /\ [LeaseNext]_leaseVars => LeaseInv' BY LeaseKeeps
<1> QED BY <1>1, <1>2, PTL DEF LeaseSpec

(* The lease's row, its calls and what users count on keep their types.    *)
THEOREM LeaseTyped == LeaseSpec => []LeaseTypeOK
<1>1. LeaseInv => LeaseTypeOK BY DEF LeaseInv
<1> QED BY <1>1, LeaseInvariance, PTL

(* For any number of users, of requests and of moments: a user who was told
   that it holds the lease does hold it, and is shown as editing, until the
   time it was told, unless a request saved the row over one it had not read
   (UpsertCollaborationLease and ReleaseCollaborationLease). *)
THEOREM LeaseHeld == LeaseSpec => []LeaseIsHeld
<1>1. LeaseInv => LeaseIsHeld BY DEF LeaseInv
<1> QED BY <1>1, LeaseInvariance, PTL

(* Two users who count on the lease at once were not both served in order:
   at least one of them is in doubt. *)
THEOREM LeaseIsExclusive ==
    LeaseSpec => [](\A u, v \in Users :
        counted[u] > tick /\ counted[v] > tick /\ u # v => u \in doubtful \/ v \in doubtful)
<1>1. LeaseInv => \A u, v \in Users :
        counted[u] > tick /\ counted[v] > tick /\ u # v => u \in doubtful \/ v \in doubtful
  BY DEF LeaseInv, LeaseIsHeld
<1> QED BY <1>1, LeaseInvariance, PTL
=============================================================================
