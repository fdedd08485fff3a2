---------------------------- MODULE CreatorShell ----------------------------
(***************************************************************************)
(* The creator app around its pages (App.tsx): the route and its URLs, the *)
(* session it waits for, the project it remembers, and which page it shows.*)
(*                                                                         *)
(* Every page has a controller that is told whether it is enabled and what *)
(* for; when that changes, an effect loads its data, or clears them.  A    *)
(* load is cancelled by the next one, the other functions of a page write  *)
(* what they read whenever they end, on whatever page the user is then.    *)
(*                                                                         *)
(* A project has one shot and one import batch, which are named like it.   *)
(* The server is external: it keeps the session that a cookie names.  The  *)
(* admin console has the same session gate (useAdminSessionGate).          *)
(***************************************************************************)
EXTENDS ScreenRequests, Integers, FiniteSets, SequencesExt

CONSTANT MaxTrips   \* bound: the user's moves, faults and functions, together

VARIABLES
    routeState,     \* the route: a page and the ids it has
    visited,        \* the URLs in the browser's history, parsed
    overridden,     \* the URL names a user (orgId and userId)
    remembered,     \* the project in the browser's local storage
    homeProjectId,  \* the project the page was last rendered with
    sessionState,   \* "loading", "ready" or "unauthenticated"
    session,        \* whose session it is: "named" by the URL, "dev", or Off
    sessionError,   \* sessionErrorMessage is set
    sessionCalls,   \* the calls about the session under way, oldest first
    cookie,         \* server: the cookie names a session
    pageData,       \* per page the project of the data shown, or Off
    pageError,      \* the pages whose load failed
    pageLoading,    \* a load of the route's page is under way
    importBatches,  \* the project whose batches the home page lists, or Off
    importBatchesPending,
    functions,      \* the other functions of pages running: page and project
    trips,          \* how many bounded moves there were
    shellSlips      \* pages written by a function they are not on, "session"

shellVars == <<routeState, visited, overridden, remembered, homeProjectId, sessionState,
               session, sessionError, sessionCalls, cookie, pageData, pageError,
               pageLoading, importBatches, importBatchesPending, functions, trips,
               shellSlips>>

sessionVars == <<sessionState, session, sessionError>>

Pages == {"shots", "imports", "collab", "preview", "audio", "reuse"}
projectOnly == {"preview", "audio"}     \* isProjectOnlyCreatorRoute
shotScoped == {"collab", "reuse"}       \* isShotScopedCreatorRoute

Trip == trips < MaxTrips /\ trips' = trips + 1

-----------------------------------------------------------------------------
(* Routes and URLs.                                                        *)

Ids == Owners \cup {Off}
CreatorRouteState ==
    [route : Pages \cup {"home"}, projectId : Ids, shotId : Ids, importBatchId : Ids,
     sourceProjectId : Ids]

Only(if, id) == IF if THEN id ELSE Off

(* parseCreatorRouteState: a batch wins, then the page the path names if   *)
(* the URL has what it needs, then a shot; otherwise it is home.           *)
parseCreatorRouteState(url) ==
    LET page == CASE url.importBatchId # Off -> "imports"
                  [] url.importBatchId = Off /\ url.shotId # Off ->
                        IF \/ url.route \in shotScoped
                           \/ url.route \in projectOnly /\ url.projectId # Off
                        THEN url.route ELSE "shots"
                  [] OTHER -> IF url.route \in projectOnly /\ url.projectId # Off
                              THEN url.route ELSE "home"
    IN [route |-> page, projectId |-> url.projectId,
        shotId |-> Only(page \in {"shots"} \cup shotScoped, url.shotId),
        importBatchId |-> url.importBatchId,
        sourceProjectId |-> Only(page = "reuse", url.sourceProjectId)]

(* buildCreatorRouteUrl: what of a route its URL keeps.                    *)
buildCreatorRouteUrl(r) ==
    [route |-> r.route,
     projectId |-> Only(r.route \notin {"shots", "imports"}, r.projectId),
     shotId |-> Only(r.route \in {"shots"} \cup shotScoped, r.shotId),
     importBatchId |-> Only(r.route = "imports", r.importBatchId),
     sourceProjectId |-> Only(r.route = "reuse", r.sourceProjectId)]

(* What is left of a route when its URL is loaded again.                   *)
normalizeRoute(r) == parseCreatorRouteState(buildCreatorRouteUrl(r))

(* selectCreatorRoute: the ids that a move to the page drops.              *)
selectCreatorRoute(r, page) ==
    [route |-> page, projectId |-> r.projectId,
     shotId |-> Only(page \in {"shots"} \cup shotScoped, r.shotId),
     importBatchId |-> Only(page = "imports", r.importBatchId),
     sourceProjectId |-> Only(page \in {"home", "reuse"}, r.sourceProjectId)]

Either(id, other) == IF id # Off THEN id ELSE other
-----------------------------------------------------------------------------
(* What the controllers are told.                                          *)

Owner(p, r) ==
    CASE p \in {"shots", "reuse"} -> r.shotId
      [] p = "imports" -> r.importBatchId
      [] p = "collab" -> Either(r.shotId, r.projectId)
      [] p \in projectOnly -> r.projectId

Enabled(p, r, state) ==
    /\ state = "ready" /\ r.route = p /\ p # "home" /\ Owner(p, r) # Off
    /\ p = "reuse" => r.projectId # Off

(* The dependencies of the effect that loads the page, besides enabled.    *)
Deps(p, r, who) ==
    CASE p \in {"shots", "imports"} -> <<Owner(p, r)>>
      [] p = "collab" -> <<Owner(p, r), r.projectId, who>>
      [] p \in projectOnly -> <<r.projectId, who>>
      [] p = "reuse" -> <<r.shotId, r.sourceProjectId, who>>

(* The pages whose effect runs once r, state and who are rendered.         *)
Fired(r, state, who) ==
    {p \in Pages : \/ Enabled(p, r, state) # Enabled(p, routeState, sessionState)
                   \/ Deps(p, r, who) # Deps(p, routeState, session)}

(* Mutant: a page that is left keeps its data.                             *)
ClearedNever(r, state, who) == {}

(* The pages that are cleared, for they are not enabled.                   *)
Cleared(r, state, who) == {p \in Fired(r, state, who) : ~Enabled(p, r, state)}

HomeEnabled(r, state) == state = "ready" /\ r.route = "home"

(* useCreatorHomeController: its batches are loaded for another project,   *)
(* or when the home page is entered, and cleared when it is left.          *)
RenderHome(r, state) ==
    LET project == Either(r.projectId, remembered')
        same == HomeEnabled(routeState, sessionState) /\ project = homeProjectId
    IN /\ homeProjectId' = project
       /\ importBatches' = IF HomeEnabled(r, state) /\ project # Off
                           THEN importBatches ELSE Off
       /\ importBatchesPending' =
             (HomeEnabled(r, state) /\ project # Off /\ (same => importBatchesPending))

(* The app is rendered with a route and a session, and its effects run.    *)
Render(r, state, who) ==
    LET cleared == Cleared(r, state, who)
        loads == {p \in Fired(r, state, who) : Enabled(p, r, state)}
    IN /\ routeState' = r /\ sessionState' = state /\ session' = who
       /\ pageData' = [p \in Pages |-> IF p \in cleared THEN Off ELSE pageData[p]]
       /\ pageError' = pageError \ (cleared \cup (loads \cap {"reuse"}))
       /\ pageLoading' = (loads # {} \/ (pageLoading /\ Enabled(r.route, r, state)))
       /\ RenderHome(r, state)

(* A project is remembered when it is typed, or new in the route.          *)
Rerouted(r, typed) ==
    /\ remembered' = IF ~typed /\ r.projectId \in {Off, routeState.projectId}
                     THEN remembered ELSE r.projectId
    /\ Render(r, sessionState, session)
    /\ UNCHANGED <<overridden, sessionError, sessionCalls, cookie, functions>>

-----------------------------------------------------------------------------
(* What is shown.                                                          *)

(* A batch and a shot are shown whenever there are data of them, the other *)
(* pages if the route is theirs too.                                       *)
ImportsShown == pageData["imports"] # Off
ShotsShown == pageData["shots"] # Off
CollabShown == routeState.route = "collab" /\ pageData["collab"] # Off
PreviewShown == routeState.route = "preview" /\ pageData["preview"] # Off
AudioShown == routeState.route = "audio" /\ pageData["audio"] # Off
ReuseShown == routeState.route = "reuse" /\ pageData["reuse"] # Off
HomeShown == routeState.route = "home"

(* The reuse page only fails when there is no shot to show.                *)
ErrorShown ==
    \/ sessionError
    \/ routeState.route \in pageError /\ (routeState.route = "reuse" => ~ReuseShown)

(* Errors come first, and have no button; then the session gate.           *)
Shown ==
    IF ErrorShown THEN "error"
    ELSE IF sessionState = "loading" THEN "loading"
    ELSE IF sessionState = "unauthenticated" THEN "gate"
    ELSE IF ImportsShown THEN "imports"
    ELSE IF ShotsShown THEN "shots"
    ELSE IF CollabShown \/ PreviewShown \/ AudioShown \/ ReuseShown \/ HomeShown
    THEN routeState.route
    ELSE "loading"

CreatorWorkspaceShell == Shown \in Pages \cup {"home"}

-----------------------------------------------------------------------------
(* The user moves.                                                         *)

Committed(r, typed) ==
    /\ Trip /\ Rerouted(r, typed)
    /\ visited' = visited \cup {normalizeRoute(r)}
    /\ shellSlips' = shellSlips \ Cleared(r, sessionState, session)

commitRouteState(r) == Committed(r, FALSE)

(* The home page: a project is typed, and a button opens its preview; its  *)
(* batches are listed once they have been read; a shot is typed.           *)
ProjectForm == Shown = "home"
BatchList == Shown = "home" /\ importBatches # Off /\ ~importBatchesPending
ShotForm == Shown = "home"

handleSelectProjectId(o) ==
    /\ ProjectForm
    /\ Committed([selectCreatorRoute(routeState, "home") EXCEPT !.projectId = o], TRUE)

handleOpenPreviewWorkbench ==
    /\ ProjectForm /\ homeProjectId # Off
    /\ commitRouteState([selectCreatorRoute(routeState, "preview")
                            EXCEPT !.projectId = homeProjectId])

handleOpenImportWorkbench ==
    /\ BatchList
    /\ commitRouteState([selectCreatorRoute(routeState, "imports")
                EXCEPT !.projectId = homeProjectId, !.importBatchId = importBatches])

handleOpenShotWorkbench(o) ==
    /\ ShotForm
    /\ commitRouteState([selectCreatorRoute(routeState, "shots")
                            EXCEPT !.projectId = homeProjectId, !.shotId = o])

(* The preview page opens a shot of its list, or the audio page.           *)
onOpenShotWorkbench(o) ==
    /\ Shown = "preview"
    /\ commitRouteState([selectCreatorRoute(routeState, "shots")
                            EXCEPT !.projectId = pageData["preview"], !.shotId = o])
onOpenAudioWorkbench ==
    /\ Shown = "preview"
    /\ commitRouteState([selectCreatorRoute(routeState, "audio")
                            EXCEPT !.projectId = pageData["preview"]])

(* The reuse page looks for assets in another project, or goes back.       *)
onLoadSourceProject(id) ==
    /\ Shown = "reuse"
    /\ commitRouteState([selectCreatorRoute(routeState, "reuse")
                            EXCEPT !.sourceProjectId = id])
onBackToShotWorkbench ==
    /\ Shown = "reuse"
    /\ commitRouteState([selectCreatorRoute(routeState, "shots")
                            EXCEPT !.shotId = pageData["reuse"]])

(* Home is the route's project, or the remembered one, or that of the data.*)
handleReturnHome ==
    LET ofData == {pageData[p] : p \in {"imports", "collab", "preview", "audio", "shots"}}
        known == Either(routeState.projectId, remembered)
    IN /\ Shown \in Pages
       /\ \E id \in IF known # Off THEN {known}
                    ELSE IF ofData = {Off} THEN {Off} ELSE ofData \ {Off} :
            commitRouteState([selectCreatorRoute(routeState, "home") EXCEPT !.projectId = id])

(* Back and forward.                                                       *)
handlePopState(r) ==
    /\ Trip /\ r # routeState /\ Rerouted(r, FALSE)
    /\ shellSlips' = shellSlips \ Cleared(r, sessionState, session)
    /\ UNCHANGED visited

(* Another tab remembers another project; nothing renders for that.        *)
OtherTabRemembers(o) ==
    /\ Trip /\ remembered # o /\ remembered' = o
    /\ UNCHANGED <<routeState, visited, overridden, homeProjectId, sessionVars,
                   sessionCalls, cookie, pageData, pageError, pageLoading, importBatches,
                   importBatchesPending, functions, shellSlips>>

(* onProjectIdInputChange and onShotIdInputChange render.                  *)
TypeOnHome ==
    /\ Shown = "home" /\ remembered # homeProjectId
    /\ UNCHANGED remembered
    /\ Render(routeState, sessionState, session)
    /\ UNCHANGED <<visited, overridden, sessionError, sessionCalls, cookie, functions, trips,
                   shellSlips>>

-----------------------------------------------------------------------------
(* The session.                                                            *)

SessionCall(kind) == [kind |-> kind, answer |-> "none"]

Sessions(state, who, error) ==
    /\ UNCHANGED <<visited, overridden, remembered, functions>>
    /\ Render(routeState, state, who) /\ sessionError' = error

handleStartDevSession ==
    /\ Trip /\ Shown = "gate"
    /\ Sessions("loading", session, FALSE)
    /\ sessionCalls' = Append(sessionCalls, SessionCall("start"))
    /\ shellSlips' = shellSlips \cup
                        IF overridden \/ sessionCalls # <<>> THEN {"session"} ELSE {}
    /\ UNCHANGED cookie

(* The button is there on every page, unless the URL names the user.       *)
handleClearCurrentSession ==
    /\ Trip /\ CreatorWorkspaceShell /\ ~overridden
    /\ sessionCalls' = Append(sessionCalls, SessionCall("clear"))
    /\ UNCHANGED <<routeState, visited, overridden, remembered, homeProjectId, sessionVars,
                   cookie, pageData, pageError, pageLoading, importBatches,
                   importBatchesPending, functions, shellSlips>>

(* The server answers; an answer can be lost, or be an error.              *)
loadCurrentSession == IF cookie \/ overridden THEN {"session"} ELSE {"unauthenticated"}

ServeSession(i) ==
    LET c == sessionCalls[i]
        Reply(with) == sessionCalls' = [sessionCalls EXCEPT ![i].answer = with]
    IN
    /\ c.answer = "none"
    /\ \/ /\ c.kind = "load" /\ \E a \in loadCurrentSession : Reply(a)
          /\ UNCHANGED <<cookie, trips, shellSlips>>
       \/ /\ c.kind # "load" /\ cookie' = (c.kind = "start")
          /\ \/ Reply(IF c.kind = "start" THEN "session" ELSE "cleared")
                /\ UNCHANGED <<trips, shellSlips>>
             \/ Trip /\ Reply("error") /\ shellSlips' = shellSlips \cup {"session"}
       \/ Trip /\ Reply("error") /\ UNCHANGED <<cookie, shellSlips>>
       \/ /\ Trip /\ c.kind = "load" /\ overridden /\ Reply("unauthenticated")
          /\ UNCHANGED <<cookie, shellSlips>>
    /\ UNCHANGED <<routeState, visited, overridden, remembered, homeProjectId, sessionVars,
                   pageData, pageError, pageLoading, importBatches, importBatchesPending,
                   functions>>

(* Mutant: a session that could not be cleared counts as cleared.          *)
TakeFailureAsDone(i, c) ==
    CASE c.kind = "load" -> Sessions("unauthenticated", Off, TRUE)
      [] c.kind = "start" -> Sessions("unauthenticated", session, TRUE)
      [] c.kind = "clear" -> Sessions("unauthenticated", Off, FALSE)

(* A failure is shown instead of the pages, with nothing to click.         *)
TakeFailure(i, c) ==
    CASE c.kind = "load" -> Sessions("unauthenticated", Off, TRUE)
      [] c.kind = "start" -> Sessions("unauthenticated", session, TRUE)
      [] c.kind = "clear" -> Sessions(sessionState, session, TRUE)

(* The answer arrives; a call that overlapped with another may be older.   *)
TakeSessionAnswer(i) ==
    LET c == sessionCalls[i]
        slip == IF Len(sessionCalls) > 1 THEN {"session"} ELSE {}
    IN
    /\ c.answer # "none"
    /\ CASE c.answer = "error" -> TakeFailure(i, c)
         [] c.answer = "session" ->
               Sessions("ready", IF c.kind = "load" /\ overridden THEN "named" ELSE "dev",
                        sessionError)
         [] c.answer = "unauthenticated" -> Sessions("unauthenticated", Off, sessionError)
         [] c.answer = "cleared" -> Sessions("unauthenticated", Off, FALSE)
    /\ sessionCalls' = RemoveAt(sessionCalls, i)
    /\ shellSlips' = (shellSlips \cup slip) \ Cleared(routeState, sessionState', session')
    /\ UNCHANGED <<cookie, trips>>

-----------------------------------------------------------------------------
(* The pages.                                                              *)

RouteAndSession == <<routeState, visited, overridden, remembered, homeProjectId, sessionVars,
           sessionCalls, cookie>>

LandPage ==
    LET p == routeState.route IN
    /\ pageLoading /\ pageLoading' = FALSE
    /\ \/ /\ pageData' = [pageData EXCEPT ![p] = Owner(p, routeState)]
          /\ pageError' = pageError \ {p}
          /\ UNCHANGED trips
       \/ /\ Trip
          /\ pageData' = [pageData EXCEPT ![p] = Off]
          /\ pageError' = pageError \cup {p}
    /\ shellSlips' = shellSlips \ {p}
    /\ UNCHANGED <<RouteAndSession, importBatches, importBatchesPending, functions>>

loadImportBatchSummaries ==
    /\ importBatchesPending /\ importBatchesPending' = FALSE
    /\ \/ importBatches' = homeProjectId /\ UNCHANGED trips
       \/ Trip /\ importBatches' = Off
    /\ UNCHANGED <<RouteAndSession, pageData, pageError, pageLoading, functions, shellSlips>>

(* A refresh, a save or a command that ends with a write to its page.      *)
BeginFunction ==
    /\ Trip /\ Shown = routeState.route /\ Shown \in Pages
    /\ functions' = functions \cup {<<Shown, Owner(Shown, routeState)>>}
    /\ UNCHANGED <<RouteAndSession, pageData, pageError, pageLoading, importBatches,
                   importBatchesPending, shellSlips>>

EndFunction(f) ==
    /\ functions' = functions \ {f}
    /\ pageData' = [pageData EXCEPT ![f[1]] = f[2]]
    /\ pageError' = pageError \ {f[1]}
    /\ shellSlips' = shellSlips \cup
            IF Enabled(f[1], routeState, sessionState) /\ Owner(f[1], routeState) = f[2]
            THEN {} ELSE {f[1]}
    /\ UNCHANGED <<RouteAndSession, pageLoading, importBatches, importBatchesPending, trips>>

-----------------------------------------------------------------------------
(* The app is opened at a URL, or loaded again.                            *)
ShellInit ==
    /\ routeState \in {parseCreatorRouteState(url) : url \in CreatorRouteState}
    /\ visited = {normalizeRoute(routeState)}
    /\ overridden \in BOOLEAN /\ cookie \in BOOLEAN
    /\ remembered \in IF routeState.projectId # Off THEN {routeState.projectId} ELSE Ids
    /\ homeProjectId = remembered
    /\ sessionState = "loading" /\ session = Off /\ sessionError = FALSE
    /\ sessionCalls = <<SessionCall("load")>>
    /\ pageData = [p \in Pages |-> Off] /\ pageError = {} /\ pageLoading = FALSE
    /\ importBatches = Off /\ importBatchesPending = FALSE
    /\ functions = {} /\ trips = 0 /\ shellSlips = {}

ShellNext ==
    \/ \E o \in Owners : handleSelectProjectId(o) \/ handleOpenShotWorkbench(o)
                            \/ onOpenShotWorkbench(o) \/ OtherTabRemembers(o)
    \/ handleOpenImportWorkbench \/ handleOpenPreviewWorkbench \/ onOpenAudioWorkbench
    \/ \E id \in Ids : onLoadSourceProject(id)
    \/ onBackToShotWorkbench \/ handleReturnHome \/ TypeOnHome
    \/ \E r \in visited : handlePopState(r)
    \/ handleStartDevSession \/ handleClearCurrentSession
    \/ \E i \in DOMAIN sessionCalls : ServeSession(i) \/ TakeSessionAnswer(i)
    \/ LandPage \/ loadImportBatchSummaries \/ BeginFunction
    \/ \E f \in functions : EndFunction(f)

ShellSpec == ShellInit /\ [][ShellNext]_shellVars

-----------------------------------------------------------------------------
ShellTypeOK ==
    /\ routeState \in CreatorRouteState /\ visited \subseteq CreatorRouteState
    /\ {remembered, homeProjectId, importBatches} \subseteq Ids
    /\ sessionState \in {"loading", "ready", "unauthenticated"}
    /\ session \in {"named", "dev", Off}
    /\ {overridden, sessionError, cookie, pageLoading, importBatchesPending} \subseteq BOOLEAN
    /\ pageData \in [Pages -> Ids] /\ pageError \subseteq Pages
    /\ functions \subseteq Pages \X Owners /\ shellSlips \subseteq Pages \cup {"session"}

(* The page shown is the one the route names, and once nothing is under    *)
(* way it is there, for the ids of the route; the home page lists the      *)
(* batches of the project it names.  The exceptions: a function that ended *)
(* after its page was left or moved wrote it, for a batch or a shot is     *)
(* shown whenever there are data of it; and the reuse page of a URL        *)
(* without a project waits for ever.                                       *)
PageFollowsRoute ==
    /\ Shown \in Pages => Shown = routeState.route \/ Shown \in shellSlips
    /\ Shown = "loading" /\ sessionState = "ready" /\ ~pageLoading =>
           routeState.route = "reuse" /\ routeState.projectId = Off
    /\ Shown \in Pages /\ ~pageLoading /\ Shown \notin shellSlips =>
           pageData[Shown] = Owner(Shown, routeState)
    /\ Shown = "home" /\ ~importBatchesPending =>
           importBatches \in {Off, homeProjectId}

(* When no call about the session is under way, the app works under the    *)
(* user its URL names, or has a session exactly if the server has; unless  *)
(* an error is shown.  The exceptions: an answer was lost, two calls       *)
(* overlapped (the button that clears the session can be clicked twice),   *)
(* or the gate of a URL that names a user started the developer's session. *)
SessionIsOwn ==
    sessionCalls = <<>> /\ "session" \notin shellSlips =>
        /\ sessionState # "loading"
        /\ sessionState = "ready" => session = IF overridden THEN "named" ELSE "dev"
        /\ ~overridden /\ ~sessionError => (sessionState = "ready" <=> cookie)
        /\ sessionState = "ready" /\ ~overridden => cookie
=============================================================================
