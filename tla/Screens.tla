------------------------------ MODULE Screens ------------------------------
(***************************************************************************)
(* A screen of the creator or of the admin console that shows one owner (a *)
(* shot, an import batch, a collaboration session or a project's render    *)
(* runtime) and is kept current by the server's event stream.              *)
(*                                                                         *)
(* The user moves the screen to another owner while answers for the last   *)
(* one are still on their way; handlers, loads and silent refreshes        *)
(* overlap; another user changes the owner; the stream is cut; another tab *)
(* of the browser moves the cursor they share.  A request is evaluated by  *)
(* the server in one step (Answer) and its answer reaches the page in a    *)
(* later one (Land), so answers overtake each other.                       *)
(*                                                                         *)
(* The server is external: per owner it is a version that every change     *)
(* raises.  A change whose event the screen asks for is heard of; others   *)
(* publish nothing, or an event of a kind the screen passes over.  What is *)
(* published may be lost on its way (EventStream.tla): it then reaches the *)
(* page only when a later connection replays it.                           *)
(***************************************************************************)
EXTENDS ScreenRequests, Integers, FiniteSets, SequencesExt

CONSTANTS
    MaxEvents,  \* bound: commands the server runs
    MaxActs     \* bound: handlers of one page running at once

VARIABLES
    scene,      \* the controller that runs
    scope,      \* the owner the route names
    ready,      \* audio screens: the timeline loaded is that of scope
    view,       \* the data shown: whose, and the version of each part
    note,       \* the feedback shown, and the command it is about
    file,       \* import screen: a file is chosen
    calls,      \* the asynchronous functions running, oldest first
    queue,      \* the coalescing silent refresh
    stream,     \* the event stream of the page
    stored,     \* the cursor in the browser's local storage
    log,        \* the server's events
    moves,      \* how many of those there were
    facts       \* what has gone wrong since the screen was last moved

screenVars == <<scene, scope, ready, view, note, file, calls, queue, stream,
                stored, log, moves, facts>>

-----------------------------------------------------------------------------
(* The screens and how they differ.                                        *)

Screen ==
    [shot |-> useShotWorkbenchController, import |-> useImportWorkbenchController,
     collab |-> useCollabController, preview |-> usePreviewRuntime,
     audio |-> useAudioRuntime, adminCollab |-> useAdminCollaborationController,
     adminPreview |-> useAdminPreviewController,
     adminAudio |-> useAdminAudioController]

ScreenNames == DOMAIN Screen
ScreensThat(P(_)) == {s \in ScreenNames : P(Screen[s])}

Load == [s \in ScreenNames |-> Screen[s].load]
Handlers == [s \in ScreenNames |-> Screen[s].handlers]

Runtimes == ScreensThat(LAMBDA c : c.load = <<{"runtime"}>>)

(* The subscription opens only once the data names the project, or once    *)
(* the timeline of the project has loaded.                                 *)
ViewGated == ScreensThat(LAMBDA c : c.waits = "data")
ReadyGated == ScreensThat(LAMBDA c : c.waits = "timeline")

Unguarded == ScreensThat(LAMBDA c : ~c.guarded)
Uncoalesced == ScreensThat(LAMBDA c : ~c.queued)
SharedStream == ScreensThat(LAMBDA c : c.shares)
AnyOwner == ScreensThat(LAMBDA c : c.events = "project")

-----------------------------------------------------------------------------
(* The server.                                                             *)

Unavailable == -1
Parts == {"execution", "workflow", "reviews", "batch", "session", "project",
          "runtime"}

VersionAt(n, owner) == Cardinality({k \in 1..n : log[k].owner = owner})
Version(owner) == VersionAt(Len(log), owner)

(* The version that the last change heard of, among the first n, made.     *)
Told(n, owner) ==
    Cardinality({k \in 1..n : /\ log[k].owner = owner
                              /\ \E h \in k..n : log[h].owner = owner /\ log[h].heard})

(* A part whose loader answers "unavailable" instead of failing.           *)
Swallowed == {"workflow", "reviews", "project"}

-----------------------------------------------------------------------------
(* The page.                                                               *)

(* What shows nothing shows no owner's data.                               *)
ASSUME BlankIsNoData == Blank \notin [owner : Owners, got : [Parts -> Int]]

NoNote == [tone |-> "none", owner |-> Off, effect |-> 0]

Unread == [p \in Parts |-> Unavailable]

Call(kind, owner, target, todo) ==
    [kind |-> kind, owner |-> owner, target |-> target,
     todo |-> todo, got |-> Unread, effect |-> 0, ok |-> TRUE]

(* A load is cancelled by the effect's clean-up, a fetch is not.           *)
LoadOf(owner) ==
    Call(IF scene \in Unguarded THEN "fetch" ELSE "load", owner, owner, Load[scene])

(* Mutant: the clean-up does not cancel the load.                          *)
UncancelledKeepsAll == calls

(* The answer of a load that was cancelled is dropped when it arrives.     *)
Uncancelled == Cancel(calls, "load")

Shows(v, part) == v # Blank /\ v.got[part] # Unavailable

(* The owner whose stream the page wants, given what it shows.             *)
Wanted(s, v, r) ==
    IF \/ s = Off
       \/ scene \in ViewGated /\ v = Blank
       \/ scene = "collab" /\ ~Shows(v, "project")
       \/ scene \in ReadyGated /\ ~r
    THEN Off
    ELSE s

(* The key of the subscription's effect: when it changes the stream is     *)
(* closed and opened again, even on the same project.                      *)
KeyOf(s, v, r) ==
    <<Wanted(s, v, r), IF scene \in ViewGated /\ v # Blank THEN v.owner ELSE Off>>

Closed == [state |-> "off", key |-> <<Off, Off>>, pos |-> 0]

Connecting(key) == [state |-> "connecting", key |-> key, pos |-> 0]

Rewired(s, v, r) ==
    LET key == KeyOf(s, v, r) IN
    CASE key[1] = Off -> Closed
      [] key[1] # Off /\ key = stream.key -> stream
      [] OTHER -> Connecting(key)

(* The cursor is kept per project.                                         *)
CursorOf(owner) == IF scene \in SharedStream THEN CHOOSE o \in Owners : TRUE ELSE owner

(* The event is on the stream the page has open.                           *)
OnStream(n) == scene \in SharedStream \/ log[n].owner = stream.key[1]
(* The page refreshes on it.                                               *)
Matches(n) == log[n].heard /\ (scene \in AnyOwner \/ log[n].owner = stream.key[1])

-----------------------------------------------------------------------------
(* The user moves the screen to another owner, or closes it.  The load in  *)
(* flight is cancelled, the other calls run on.  Closing clears the page;  *)
(* moving keeps what it shows, and the feedback, until the load lands.     *)

Navigate(to) ==
    /\ moves < MaxMoves /\ to # scope
    /\ moves' = moves + 1
    /\ scope' = to
    /\ ready' = FALSE
    /\ facts' = {}
    /\ IF to = Off
       THEN view' = Blank /\ note' = NoNote /\ file' = FALSE
       ELSE UNCHANGED <<view, note, file>>
    /\ calls' = Uncancelled
                \o IF to = Off \/ scene \in ReadyGated THEN <<>> ELSE <<LoadOf(to)>>
    /\ stream' = Rewired(to, view', FALSE)
    /\ UNCHANGED <<scene, queue, stored, log>>

(* Audio: the timeline of the project has loaded, or was saved, and is a   *)
(* new object: the effects read the runtime and subscribe again.           *)
TimelineLoaded ==
    /\ scene \in ReadyGated /\ scope # Off
    /\ moves < MaxMoves
    /\ moves' = moves + 1
    /\ ready' = TRUE
    /\ calls' = Append(calls, LoadOf(scope))
    /\ stream' = Connecting(KeyOf(scope, view, TRUE))
    /\ UNCHANGED <<scene, scope, view, note, file, queue, stored, log, facts>>

-----------------------------------------------------------------------------
(* The user gives a command.  It is about the owner shown, which the page  *)
(* passes along; what is read afterwards is the owner the route names.     *)
(* Only the render buttons wait for their own answer.                      *)

Pending == note.tone = "pending"
UserKinds == {"act", "register", "choose"}
Acts == {i \in DOMAIN calls : calls[i].kind \in UserKinds}

Start(kind, todo) ==
    /\ scope # Off
    /\ IF scene \in Runtimes THEN ~Pending /\ (scene \in ReadyGated => ready)
                             ELSE view # Blank
    /\ Len(log) < MaxEvents /\ Cardinality(Acts) < MaxActs
    /\ calls' = Append(calls, Call(kind, scope,
                       IF scene \in {"shot", "import"} THEN view.owner ELSE scope, todo))
    /\ note' = [NoNote EXCEPT !.tone = "pending"]
    /\ UNCHANGED <<scene, scope, ready, view, file, queue, stream, stored, log,
                   moves, facts>>

Command == \E todo \in Handlers[scene] : Start("act", todo)

RegisterSelectedUpload ==
    scene = "import" /\ file /\ Start("register", handleRegisterSelectedUpload)

ChooseUploadFile == scene = "import" /\ Start("choose", deriveUploadFileMetadata)

(* The file input is emptied.                                              *)
ClearUploadFile ==
    /\ scene = "import" /\ view # Blank /\ file
    /\ file' = FALSE /\ note' = NoNote
    /\ UNCHANGED <<scene, scope, ready, view, calls, queue, stream, stored, log,
                   moves, facts>>

-----------------------------------------------------------------------------
(* The server evaluates what calls[i] has sent: requests sent together are *)
(* answered together.                                                      *)

Answered(c, got, effect) == [c EXCEPT !.todo = Tail(@), !.got = got, !.effect = effect]

Refused(c) ==
    [c EXCEPT !.todo = <<>>, !.ok = FALSE, !.got = Unread, !.effect = 0]

Fails(i) ==
    /\ moves < MaxMoves /\ moves' = moves + 1
    /\ calls' = [calls EXCEPT ![i] = Refused(@)]
    /\ log' = log

(* Some loaders catch a failure and answer that the part is unavailable.   *)
Reads(i) ==
    LET c == calls[i]
        asked == Head(c.todo)
    IN  /\ asked \subseteq Parts
        /\ \E lost \in {{}, asked \cap Swallowed} :
             LET got == [p \in Parts |-> CASE p \in asked \cap lost -> Unavailable
                                           [] p \in asked \ lost -> Version(c.owner)
                                           [] OTHER -> c.got[p]]
             IN  /\ lost # {} => moves < MaxMoves
                 /\ moves' = IF lost = {} THEN moves ELSE moves + 1
                 /\ calls' = [calls EXCEPT ![i] = Answered(c, got, c.effect)]
        /\ log' = log

(* A command takes effect, and then is published.  Its answer may be lost  *)
(* all the same, or the service has stopped before it published anything.  *)
(* The answer to a render request is the runtime.                          *)
Changes(i) ==
    LET c == calls[i]
        version == Version(c.target) + 1
        got == IF Head(c.todo) = {"render"} THEN [c.got EXCEPT !["runtime"] = version]
               ELSE c.got
        heard == Head(c.todo) # {"unheard"}
        changed(told) == log' = Append(log, [owner |-> c.target, heard |-> told])
    IN  /\ Head(c.todo) \in {{"change"}, {"unheard"}, {"render"}}
        /\ Len(log) < MaxEvents
        /\ \/ /\ calls' = [calls EXCEPT ![i] = Answered(c, got, version)]
              /\ changed(heard)
              /\ moves' = moves
           \/ /\ calls' = [calls EXCEPT ![i] = Refused(c)]
              /\ \E told \in {heard, FALSE} : changed(told)
              /\ moves < MaxMoves /\ moves' = moves + 1

(* The file is looked at in the browser, the gate by the server: neither   *)
(* changes anything.                                                       *)
Inspects(i) ==
    /\ Head(calls[i].todo) \in {{"file"}, {"check"}}
    /\ calls' = [calls EXCEPT ![i] = Answered(@, @.got, @.effect)]
    /\ UNCHANGED <<log, moves>>

Answer(i) ==
    /\ calls[i].todo # <<>>
    /\ Fails(i) \/ Reads(i) \/ Changes(i) \/ Inspects(i)
    /\ UNCHANGED <<scene, scope, ready, view, note, file, queue, stream, stored,
                   facts>>

(* Another user, a worker or the service itself changes an owner.          *)
OtherUser(owner, heard) ==
    /\ Len(log) < MaxEvents
    /\ log' = Append(log, [owner |-> owner, heard |-> heard])
    /\ UNCHANGED <<scene, scope, ready, view, note, file, calls, queue, stream,
                   stored, moves, facts>>

-----------------------------------------------------------------------------
(* The last answer of calls[i] arrives and the function goes on.           *)

(* It replaces something newer.  A silent refresh is run again for the     *)
(* change that made it newer, if that was heard of.                        *)
Overtaken(c) ==
    /\ view # Blank /\ view.owner = c.owner
    /\ \E p \in Parts :
          /\ c.got[p] < view.got[p]
          /\ c.kind = "silent" => Told(Len(log), c.owner) < view.got[p]

(* What the function read is shown, whatever the screen shows or was moved *)
(* to since: only a load asks whether it was cancelled.                    *)
Display(c) ==
    /\ view' = [owner |-> c.owner, got |-> c.got]
    /\ stream' = Rewired(scope, view', ready)
    /\ facts' = facts \cup (IF c.kind # "load" /\ c.owner # scope
                                THEN {"stray"} ELSE {})
                      \cup (IF Overtaken(c) THEN {"overtaken"} ELSE {})

Ended(i) == RemoveAt(calls, i)

LandLoad(i) ==
    /\ calls[i].kind = "load"
    /\ calls' = Ended(i)
    /\ file' = FALSE
    /\ IF calls[i].ok THEN Display(calls[i])
       ELSE /\ view' = IF scene \in Runtimes THEN view ELSE Blank
            /\ stream' = Rewired(scope, view', ready)
            /\ facts' = facts \cup {"failed"}
    /\ UNCHANGED <<note, queue>>

LandFetch(i) ==
    /\ calls[i].kind = "fetch"
    /\ calls' = Ended(i)
    /\ IF calls[i].ok THEN Display(calls[i])
       ELSE facts' = facts \cup {"failed"} /\ UNCHANGED <<view, stream>>
    /\ UNCHANGED <<note, file, queue>>

(* Mutant: the refresh that was asked for again is forgotten.              *)
LandSilentOnce(i) ==
    /\ calls[i].kind = "silent"
    /\ IF calls[i].ok THEN Display(calls[i])
       ELSE /\ facts' = IF queue = "again" THEN facts ELSE facts \cup {"failed"}
            /\ UNCHANGED <<view, stream>>
    /\ calls' = Ended(i) /\ queue' = "idle"
    /\ UNCHANGED <<note, file>>

(* A silent refresh ends.  If it was asked for again meanwhile the same    *)
(* function runs again, for the owner it was made for.                     *)
LandSilent(i) ==
    /\ calls[i].kind = "silent"
    /\ IF calls[i].ok THEN Display(calls[i])
       ELSE /\ facts' = IF queue = "again" THEN facts ELSE facts \cup {"failed"}
            /\ UNCHANGED <<view, stream>>
    /\ IF queue = "again"
       THEN /\ calls' = Append(Ended(i), Call("silent", calls[i].owner, calls[i].owner,
                                              Load[scene]))
            /\ queue' = "running"
       ELSE calls' = Ended(i) /\ queue' = "idle"
    /\ UNCHANGED <<note, file>>

(* A handler ends: its outcome is the feedback.  The file registered is    *)
(* forgotten, and so is one chosen since.                                  *)
LandAct(i) ==
    LET c == calls[i] IN
    /\ c.kind \in UserKinds
    /\ calls' = Ended(i)
    /\ IF c.ok /\ c.kind # "choose" THEN Display(c)
       ELSE UNCHANGED <<view, stream, facts>>
    /\ file' = (IF c.ok /\ c.kind # "act" THEN c.kind = "choose" ELSE file)
    /\ note' = CASE ~c.ok -> [NoNote EXCEPT !.tone = "error"]
                 [] c.ok /\ (c.kind = "choose" \/ scene \in Runtimes) -> NoNote
                 [] OTHER -> [tone |-> "success", owner |-> c.target, effect |-> c.effect]
    /\ UNCHANGED queue

Land(i) ==
    /\ calls[i].todo = <<>>
    /\ LandLoad(i) \/ LandFetch(i) \/ LandSilent(i) \/ LandAct(i)
    /\ UNCHANGED <<scene, scope, ready, stored, log, moves>>

-----------------------------------------------------------------------------
(* The event stream.                                                       *)

(* A read for the owner is older than what the page would have heard of    *)
(* with the events up to pos.                                              *)
Skips(pos) ==
    LET old(c) == /\ c.owner = scope
                  /\ \E p \in Parts \ {"project"} :
                        c.got[p] # Unavailable /\ c.got[p] < Told(pos, scope)
    IN  (view # Blank /\ old(view)) \/ \E i \in DOMAIN calls : old(calls[i])

Passes(pos) == facts' = facts \cup (IF Skips(pos) THEN {"skipped"} ELSE {})

(* The server sends again what follows the stored cursor, everything if    *)
(* there is none, and then what happens next.  When it cannot list its     *)
(* events, or does not know the cursor, it sends only what happens next.   *)
Connect ==
    /\ stream.state = "connecting"
    /\ \E pos \in {stored[CursorOf(stream.key[1])], Len(log)} :
          /\ stream' = [stream EXCEPT !.state = "open", !.pos = pos]
          /\ Passes(pos)
          /\ IF pos = stored[CursorOf(stream.key[1])] THEN moves' = moves
             ELSE moves < MaxMoves /\ moves' = moves + 1
    /\ UNCHANGED <<scene, scope, ready, view, note, file, calls, queue, stored, log>>

(* The connection ends; it is made again a second later.                   *)
Cut ==
    /\ stream.state = "open" /\ moves < MaxMoves
    /\ moves' = moves + 1
    /\ stream' = [stream EXCEPT !.state = "connecting"]
    /\ UNCHANGED <<scene, scope, ready, view, note, file, calls, queue, stored,
                   log, facts>>

(* Mutant: an event that arrives while a refresh runs asks for nothing.    *)
ScheduleOnce(owner) ==
    IF queue = "idle"
    THEN calls' = Append(calls, Call("silent", owner, owner, Load[scene]))
         /\ queue' = "running"
    ELSE UNCHANGED <<calls, queue>>

(* useQueuedSilentRefresh: one refresh runs, and one more is owed however  *)
(* many events ask for it.                                                 *)
Schedule(owner) ==
    LET refresh(kind) == Append(calls, Call(kind, owner, owner, Load[scene])) IN
    IF scene \in Uncoalesced
    THEN calls' = refresh("fetch") /\ queue' = queue
    ELSE IF queue = "idle"
    THEN calls' = refresh("silent") /\ queue' = "running"
    ELSE calls' = calls /\ queue' = "again"

Undelivered(n) == n > stream.pos /\ OnStream(n)

ComesNext(n) ==
    /\ stream.state = "open" /\ Undelivered(n) /\ \A k \in 1..n - 1 : ~Undelivered(k)
    /\ stream' = [stream EXCEPT !.pos = n]

(* The next event of the stream reaches the page, which notes its id for   *)
(* the next connection before it looks at it.  A change that was not heard *)
(* of published another event, or none.                                    *)
Deliver(n) ==
    /\ ComesNext(n)
    /\ \/ stored' = [stored EXCEPT ![CursorOf(stream.key[1])] = n]
       \/ ~log[n].heard /\ stored' = stored
    /\ IF Matches(n) THEN Schedule(stream.key[1]) ELSE UNCHANGED <<calls, queue>>
    /\ UNCHANGED <<scene, scope, ready, view, note, file, log, moves, facts>>

(* The server does not send it on this connection: the connection's queue  *)
(* is full, or another process published it.                               *)
Lose(n) ==
    /\ log[n].heard /\ ComesNext(n)
    /\ moves < MaxMoves /\ moves' = moves + 1
    /\ Passes(n)
    /\ UNCHANGED <<scene, scope, ready, view, note, file, calls, queue, stored, log>>

(* Another tab of the browser has the project open and is up to date.      *)
OtherTab(owner) ==
    /\ moves < MaxMoves /\ stored[CursorOf(owner)] # Len(log)
    /\ moves' = moves + 1
    /\ stored' = [stored EXCEPT ![CursorOf(owner)] = Len(log)]
    /\ UNCHANGED <<scene, scope, ready, view, note, file, calls, queue, stream,
                   log, facts>>

-----------------------------------------------------------------------------
ScreensInit ==
    /\ scene \in ScreenNames
    /\ scope = (CHOOSE o \in Owners : TRUE)
    /\ ready = FALSE
    /\ view = Blank /\ note = NoNote /\ file = FALSE
    /\ calls = IF scene \in ReadyGated THEN <<>> ELSE <<LoadOf(scope)>>
    /\ queue = "idle"
    /\ stream = IF scene \in {"preview", "adminPreview", "adminCollab"}
                THEN [state |-> "connecting", key |-> <<scope, Off>>, pos |-> 0]
                ELSE Closed
    /\ stored = [o \in Owners |-> 0]
    /\ log = <<>> /\ moves = 0 /\ facts = {}

ScreensNext ==
    \/ \E to \in Owners \cup {Off} : Navigate(to)
    \/ TimelineLoaded
    \/ Command \/ RegisterSelectedUpload \/ ChooseUploadFile \/ ClearUploadFile
    \/ \E i \in DOMAIN calls : Answer(i) \/ Land(i)
    \/ \E owner \in Owners, heard \in BOOLEAN : OtherUser(owner, heard)
    \/ \E owner \in Owners : OtherTab(owner)
    \/ Connect \/ Cut
    \/ \E n \in DOMAIN log : Deliver(n) \/ Lose(n)

ScreensSpec == ScreensInit /\ [][ScreensNext]_screenVars

-----------------------------------------------------------------------------
ScreensTypeOK ==
    /\ scene \in ScreenNames
    /\ scope \in Owners \cup {Off}
    /\ ready \in BOOLEAN /\ file \in BOOLEAN
    /\ view = Blank \/ (view.owner \in Owners /\ DOMAIN view.got = Parts)
    /\ note.tone \in {"none", "pending", "success", "error"}
    /\ \A i \in DOMAIN calls :
         /\ calls[i].kind \in UserKinds \cup {"load", "fetch", "silent"}
         /\ calls[i].owner \in Owners /\ calls[i].target \in Owners
    /\ queue \in {"idle", "running", "again"}
    /\ stream.state \in {"off", "connecting", "open"} /\ stream.pos \in 0..Len(log)
    /\ stored \in [Owners -> 0..Len(log)]
    /\ log \in Seq([owner : Owners, heard : BOOLEAN]) /\ moves \in 0..MaxMoves
    /\ facts \subseteq {"stray", "overtaken", "failed", "skipped"}

(* When nothing is on its way - no call runs, no refresh is owed, the      *)
(* stream is open and read to its end - the screen shows the owner the     *)
(* route names, no part of it older than the last change it could hear of. *)
(* A change that publishes nothing the screen asks for stays unseen until  *)
(* one that does, and the exceptions are what can go wrong and is not made *)
(* good: a read that failed, a read overtaken by an older one, events that *)
(* a connection was not sent, and what a function started for another      *)
(* owner wrote (one that was owed this owner's refresh among them).        *)
Quiet ==
    /\ scope # Off /\ calls = <<>> /\ queue = "idle"
    /\ stream.state = "open" /\ \A n \in DOMAIN log : ~Undelivered(n)

Current(p) == view.got[p] = Unavailable \/ view.got[p] >= Told(Len(log), scope)

QuietScreenIsCurrent ==
    Quiet /\ facts = {} =>
        view # Blank /\ view.owner = scope /\ \A p \in Parts \ {"project"} : Current(p)

(* The screen shows another owner than the route's, or shows one although  *)
(* it is closed, only until the load of this owner has landed or failed,   *)
(* or because a function started for the other one wrote it.               *)
ForeignDataIsStray ==
    view # Blank /\ view.owner # scope =>
        \/ facts \cap {"stray", "failed"} # {}
        \/ scope # Off /\ scene \in ReadyGated /\ ~ready
        \/ \E i \in DOMAIN calls : calls[i].kind \in {"load", "fetch"}
                                   /\ calls[i].owner = scope

(* A success message about the owner shown stays true: every part shown    *)
(* includes the effect of the command.  An older silent refresh may hide   *)
(* it until the one that its event asks for lands; what hides it for good  *)
(* is a load or a handler that read earlier, or an event that was skipped  *)
(* or whose refresh failed.  A command of which nothing is heard has no    *)
(* such refresh: its effect is shown once the owner's load has landed, and *)
(* what a function started for another owner wrote may hide it.            *)
RefreshOwed ==
    queue # "idle" \/ stream.state # "open" \/ \E n \in DOMAIN log : Undelivered(n)

SuccessIsShown ==
    note.tone = "success" /\ view # Blank /\ view.owner = scope /\ note.owner = scope
        => \/ RefreshOwed
           \/ facts \cap {"overtaken", "failed", "skipped"} # {}
           \/ /\ Told(Len(log), scope) < note.effect
              /\ "stray" \in facts \/ \E i \in DOMAIN calls : calls[i].kind = "load"
           \/ \A p \in Parts \ {"project"} :
                view.got[p] = Unavailable \/ view.got[p] >= note.effect
=============================================================================
