---------------------------- MODULE AdminConsole ----------------------------
(***************************************************************************)
(* The pages of the admin console that monitor the work and act on it:     *)
(* "workflow" (useAdminWorkflowController) and "assets"                    *)
(* (useAdminAssetController and its hooks).                                *)
(*                                                                         *)
(* A page shows a list, filters it and opens a dialog on an item that the  *)
(* route names (a workflow run, an import batch), the assets page a second *)
(* one on an asset.  The operator's action is followed by a refresh, and   *)
(* so is an event of the server.  A refresh is a chain of reads, each      *)
(* written to the page as it arrives, for the filter and the item of the   *)
(* moment it was made; nothing cancels it.                                 *)
(*                                                                         *)
(* The server is external: a sequence of changes of items.  A batch has    *)
(* one import item and one asset, which are named like the batch.  The     *)
(* console listens to workflow.updated and asset.import_batch.updated; of  *)
(* a shot execution, which only the batch's dialog shows, it hears nothing.*)
(***************************************************************************)
EXTENDS ScreenRequests, Integers, FiniteSets, SequencesExt

CONSTANTS
    MaxTurns,   \* bound: moves of the operator and faults, together
    MaxHistory  \* bound: changes the server makes

ASSUME ConsoleBounds == MaxTurns \in Nat /\ MaxHistory \in Nat

VARIABLES
    console,    \* the page
    at,         \* the route: page open, item and asset it names
    filter,     \* the filter chosen
    list,       \* the list shown: its filter and version
    dialog,     \* the item shown, its version, and whether it can be confirmed
    provenance, \* the asset shown
    chosen,     \* the import items ticked
    pending,    \* an action is under way: the buttons are disabled
    refreshing, \* the silent refresh: "idle", "running" or "again"
    sent,       \* the asynchronous functions running, oldest first
    history,    \* server: the items changed, in order, what was confirmed, and
                \* the parts of the page that show the change
    due,        \* how many events are on their way
    turns,      \* how many bounded moves there were
    slips       \* parts of the page that need not be current, "act": an action
                \* runs though its flag was cleared

pageVars == <<list, dialog, provenance>>
consoleVars == <<console, at, filter, pageVars, chosen, pending, refreshing, sent,
                 history, due, turns, slips>>

Filters == {"all", "some"}
Consoles == {"workflow", "assets"}
Panes == {"list", "dialog", "provenance"}

(* What a part of the page shows.                                          *)
Lists == [filter : Filters, version : Nat]
Dialogs == [of : Owners, version : Nat, open : BOOLEAN]
Provenances == [of : Owners, version : Nat]

ASSUME BlankIsNoPart == Blank \notin Lists \cup Dialogs \cup Provenances

-----------------------------------------------------------------------------
(* The reads of a page, and the commands of its handlers.                  *)

loadWorkflowMonitorPanel == <<"list">>
loadWorkflowRunDetails == <<"dialog">>
loadAssetMonitorPanel == <<"list">>
loadImportBatchDetails == <<"dialog">>
loadAssetProvenanceDetails == <<"provenance">>

mutateWorkflowRun == <<"change">>
confirmImportBatchItem == <<"change">>
selectPrimaryAssetForMonitor == <<"select">>
MonitorCommands == {mutateWorkflowRun, confirmImportBatchItem, selectPrimaryAssetForMonitor}

(* What the refresh reads when this item and this asset are selected.      *)
refreshWorkflow(item) ==
    loadWorkflowMonitorPanel \o IF item = Off THEN <<>> ELSE loadWorkflowRunDetails
refreshAsset(item, asset) ==
    loadAssetMonitorPanel
        \o (IF item = Off THEN <<>> ELSE loadImportBatchDetails)
        \o (IF asset = Off THEN <<>> ELSE loadAssetProvenanceDetails)

Refresh(item, asset) ==
    IF console = "workflow" THEN refreshWorkflow(item) ELSE refreshAsset(item, asset)

-----------------------------------------------------------------------------
Nowhere == [open |-> FALSE, item |-> Off, asset |-> Off]

(* A function keeps the filter, item and asset it was made with, and reads *)
(* the server as it is at some moment since its request was sent.  "left"  *)
(* says that the operator has left the page since.                         *)
Sent(kind, f, a, todo) ==
    [kind |-> kind, filter |-> f, item |-> a.item, asset |-> a.asset, todo |-> todo,
     since |-> Len(history), target |-> Off, items |-> {}, left |-> FALSE]

Reading(kind, a) == Sent(kind, filter, a, <<kind>>)

(* The effects of the dialogs, and of the page, cancel their loads.        *)
DialogsCancelled == Cancel(Cancel(sent, "dialog"), "provenance")
LoadsCancelled == Cancel(DialogsCancelled, "list")

Actions == {i \in DOMAIN sent : sent[i].kind = "act"}

(* The flag is cleared although its action runs on.                        *)
Reset(with) ==
    /\ pending' = FALSE
    /\ slips' = with \cup (IF Actions # {} THEN {"act"} ELSE {})

Turn == turns < MaxTurns /\ turns' = turns + 1

-----------------------------------------------------------------------------
(* The operator opens the page, at an item the route may name.  The filter *)
(* is still the one it had, and so is what a refresh wrote since it was    *)
(* left, except that no item and no asset have no dialog.                  *)
OpenPage(item) ==
    LET a == [open |-> TRUE, item |-> item, asset |-> Off]
        listed == Append(sent, Reading("list", a))
    IN
    /\ ~at.open
    /\ at' = a
    /\ dialog' = (IF item = Off THEN Blank ELSE dialog)
    /\ provenance' = Blank
    /\ sent' = (IF item = Off THEN listed ELSE Append(listed, Reading("dialog", a)))
    /\ slips' = slips \cap {"act"}
    /\ UNCHANGED <<console, filter, list, chosen, pending, refreshing, history, due, turns>>

(* Leaving clears the page.  The assets page forgets its action only when  *)
(* a batch is selected.                                                    *)
LeavePage ==
    LET kept == LoadsCancelled IN
    /\ Turn /\ at.open
    /\ at' = Nowhere
    /\ list' = Blank /\ dialog' = Blank /\ provenance' = Blank /\ chosen' = {}
    /\ sent' = [i \in DOMAIN kept |-> [kept[i] EXCEPT !.left = TRUE]]
    /\ IF console = "assets" /\ at.item = Off
       THEN slips' = slips \cap {"act"} /\ UNCHANGED pending
       ELSE Reset(slips \cap {"act"})
    /\ UNCHANGED <<console, filter, refreshing, history, due>>

(* onSelectWorkflowRun, onSelectImportBatch: the dialog of the last item   *)
(* stays until the new item has loaded.  Only the assets page forgets the  *)
(* action.                                                                 *)
Select(item) ==
    /\ Turn /\ at.open /\ item \notin {Off, at.item}
    /\ at' = [open |-> TRUE, item |-> item, asset |-> Off]
    /\ sent' = Append(DialogsCancelled, Reading("dialog", at'))
    /\ IF console = "assets"
       THEN provenance' = Blank /\ chosen' = {} /\ Reset(slips \cap {"list", "act"})
       ELSE slips' = slips \cap {"list", "act"} /\ UNCHANGED <<provenance, chosen, pending>>
    /\ UNCHANGED <<console, filter, list, dialog, refreshing, history, due>>

(* onCloseWorkflowDetail, onCloseImportBatchDetail.  A dialog that is open *)
(* though the route names no item cannot be closed: the close button only  *)
(* changes the route.                                                      *)
CloseDialog ==
    /\ Turn /\ at.open /\ at.item # Off
    /\ at' = [Nowhere EXCEPT !.open = TRUE]
    /\ dialog' = Blank /\ provenance' = Blank /\ chosen' = {}
    /\ sent' = DialogsCancelled
    /\ Reset(slips \cap {"list", "act"})
    /\ UNCHANGED <<console, filter, list, refreshing, history, due>>

onSelectAssetProvenance ==
    /\ Turn /\ console = "assets" /\ at.item # Off
    /\ dialog # Blank /\ provenance = Blank /\ at.asset # dialog.of
    /\ at' = [at EXCEPT !.asset = dialog.of]
    /\ sent' = Append(Cancel(sent, "provenance"), Reading("provenance", at'))
    /\ slips' = slips \ {"provenance"}
    /\ UNCHANGED <<console, filter, pageVars, chosen, pending, refreshing, history, due>>

onCloseAssetProvenance ==
    /\ at.asset # Off
    /\ at' = [at EXCEPT !.asset = Off]
    /\ provenance' = Blank
    /\ sent' = Cancel(sent, "provenance")
    /\ slips' = slips \ {"provenance"}
    /\ UNCHANGED <<console, filter, list, dialog, chosen, pending, refreshing, history,
                   due, turns>>

(* onWorkflowStatusFilterChange and its like.                              *)
ChooseFilter(f) ==
    /\ Turn /\ at.open /\ f # filter
    /\ filter' = f
    /\ sent' = Append(Cancel(sent, "list"), Sent("list", f, at, <<"list">>))
    /\ slips' = slips \ {"list"}
    /\ UNCHANGED <<console, at, pageVars, chosen, pending, refreshing, history, due>>

-----------------------------------------------------------------------------
(* The operator acts on what the dialog shows.                             *)

BatchShown == console = "assets" /\ dialog # Blank /\ provenance = Blank

Actionable == IF dialog.open THEN {dialog.of} ELSE {}

(* deriveImportBatchSelections: of the items ticked, those of the batch    *)
(* shown that can be confirmed.                                            *)
selectedActionableImportItemIds == chosen \cap Actionable

onToggleImportBatchItemSelection ==
    /\ BatchShown /\ dialog.open /\ ~pending
    /\ chosen' = IF dialog.of \in chosen THEN chosen \ {dialog.of}
                                         ELSE chosen \cup {dialog.of}
    /\ UNCHANGED <<console, at, filter, pageVars, pending, refreshing, sent, history,
                   due, turns, slips>>

(* Mutant: a second action may start.                                      *)
RunActionAlways(command, item, items) ==
    /\ at.open
    /\ Len(history) < MaxHistory
    /\ pending' = TRUE
    /\ sent' = Append(sent, [Sent("act", filter, at, command)
                                EXCEPT !.target = item, !.items = items])
    /\ UNCHANGED <<console, at, filter, pageVars, chosen, refreshing, history, due,
                   turns, slips>>

(* runWorkflowAction, runAssetAction: the item is the one the dialog shows, *)
(* what is refreshed afterwards is what is selected now.                   *)
RunAction(command, item, items) ==
    /\ at.open /\ ~pending
    /\ Len(history) < MaxHistory
    /\ pending' = TRUE
    /\ sent' = Append(sent, [Sent("act", filter, at, command)
                                EXCEPT !.target = item, !.items = items])
    /\ UNCHANGED <<console, at, filter, pageVars, chosen, refreshing, history, due,
                   turns, slips>>

(* onRetryWorkflowRun, onCancelWorkflowRun.                                *)
ActOnRun ==
    /\ console = "workflow" /\ dialog # Blank
    /\ RunAction(mutateWorkflowRun, dialog.of, {})

ConfirmSelected ==
    /\ BatchShown /\ selectedActionableImportItemIds # {}
    /\ RunAction(confirmImportBatchItem, dialog.of, selectedActionableImportItemIds)
ConfirmAll ==
    /\ BatchShown /\ Actionable # {}
    /\ RunAction(confirmImportBatchItem, dialog.of, Actionable)
onSelectPrimaryAsset ==
    BatchShown /\ RunAction(selectPrimaryAssetForMonitor, dialog.of, {})

-----------------------------------------------------------------------------
(* The server.                                                             *)

(* What a read shows after the first n changes.                            *)
Touches(entry, part, key) ==
    part \in entry.parts /\ (part = "list" \/ entry.item = key)
VersionOf(part, key, n) == Cardinality({k \in 1..n : Touches(history[k], part, key)})

ListAt(f, n) == [filter |-> f, version |-> VersionOf("list", f, n)]
DialogAt(item, n) ==
    [of |-> item, version |-> VersionOf("dialog", item, n),
     open |-> \A k \in 1..n : item \notin history[k].items]
ProvenanceAt(asset, n) == [of |-> asset, version |-> VersionOf("provenance", asset, n)]

ReadAt(c, part, n) ==
    CASE part = "list" -> ListAt(c.filter, n)
      [] part = "dialog" -> DialogAt(c.item, n)
      [] part = "provenance" -> ProvenanceAt(c.asset, n)

(* An item changes, and the page will get an event, or it will not.        *)
Change(item, items, parts, heard) ==
    /\ Len(history) < MaxHistory
    /\ history' = Append(history, [item |-> item, items |-> items, parts |-> parts])
    /\ due' = IF heard THEN due + 1 ELSE due

(* What such a change makes old on the page if nothing reads it again.     *)
Aged(item, parts) ==
    {part \in parts : part = "list" \/ item = IF part = "dialog" THEN at.item ELSE at.asset}

(* The function was made for something else than the page is on now.       *)
Astray(c, part) ==
    \/ c.left
    \/ part = "list" /\ c.filter # filter
    \/ part = "dialog" /\ c.item # at.item
    \/ part = "provenance" /\ c.asset # at.asset

(* A command is executed; or in full or in part, but its answer is lost or *)
(* an error, maybe before it was published; or it is refused.  Selecting   *)
(* the primary asset publishes shot.execution.updated only, so that it is  *)
(* up to the refresh that follows to read the dialog again.                *)
Serve(i) ==
    LET c == sent[i]
        quiet == c.todo = selectPrimaryAssetForMonitor
        parts == IF quiet THEN {"dialog"} ELSE Panes
        Answered(with) == sent' = [sent EXCEPT ![i].todo = <<with>>]
    IN
    /\ c.todo \in MonitorCommands
    /\ \/ /\ Change(c.target, c.items, parts, ~quiet)
          /\ Answered(IF quiet THEN "selected" ELSE "changed")
          /\ slips' = slips \cup IF quiet /\ Astray(c, "dialog") THEN Aged(c.target, parts)
                                                               ELSE {}
          /\ UNCHANGED turns
       \/ \E heard \in {~quiet, FALSE} :
             /\ Turn /\ Answered("refused")
             /\ Change(c.target, c.items, parts, heard)
             /\ slips' = slips \cup IF heard THEN {} ELSE Aged(c.target, parts)
       \/ Turn /\ Answered("refused") /\ UNCHANGED <<history, due, slips>>
    /\ UNCHANGED <<console, at, filter, pageVars, chosen, pending, refreshing>>

(* Another operator, or a worker, changes an item.  The console hears      *)
(* nothing if what changed is the batch's shot execution, or a run that    *)
(* the callbacks of a render save.                                         *)
OthersChange(item, heard) ==
    LET parts == IF heard \/ console = "workflow" THEN Panes ELSE {"dialog"} IN
    /\ Change(item, {}, parts, heard)
    /\ slips' = slips \cup IF heard THEN {} ELSE Aged(item, parts)
    /\ UNCHANGED <<console, at, filter, pageVars, chosen, pending, refreshing, sent,
                   turns>>

-----------------------------------------------------------------------------
(* An answer reaches the page.                                             *)

(* What is shown is newer than what is read of the same.                   *)
Older(part, got) ==
    LET shown == CASE part = "list" -> list
                   [] part = "dialog" -> dialog
                   [] part = "provenance" -> provenance IN
    /\ shown # Blank /\ shown.version > got.version
    /\ IF part = "list" THEN shown.filter = got.filter ELSE shown.of = got.of

Write(part, got) ==
    /\ list' = IF part = "list" THEN got ELSE list
    /\ dialog' = IF part = "dialog" THEN got ELSE dialog
    /\ provenance' = IF part = "provenance" THEN got ELSE provenance

(* A load, of which nobody is told that it failed; a list that cannot be   *)
(* read is empty.                                                          *)
TakeLoad(i) ==
    LET c == sent[i] IN
    /\ c.kind \in Panes
    /\ sent' = RemoveAt(sent, i)
    /\ \/ \E n \in c.since..Len(history) :
            LET got == ReadAt(c, c.kind, n) IN
            /\ Write(c.kind, got)
            /\ slips' = slips \cup IF Older(c.kind, got) THEN {c.kind} ELSE {}
            /\ UNCHANGED turns
       \/ /\ Turn
          /\ list' = IF c.kind = "list" THEN Blank ELSE list
          /\ slips' = slips \cup {c.kind}
          /\ UNCHANGED <<dialog, provenance>>
    /\ UNCHANGED <<chosen, pending, refreshing>>

(* The refresh of a monitor ends: if it was asked for meanwhile the same   *)
(* function runs again, with the filter and the item it had.               *)
Again(c) == [c EXCEPT !.kind = "silent", !.todo = Refresh(c.item, c.asset),
                      !.since = Len(history), !.target = Off, !.items = {}]

Rest(i) ==
    IF refreshing = "again"
    THEN sent' = Append(RemoveAt(sent, i), Again(sent[i])) /\ refreshing' = "running"
    ELSE sent' = RemoveAt(sent, i) /\ refreshing' = "idle"

(* The action is over, and the flag is cleared, its own or another's.      *)
EndAction(with) ==
    /\ pending' = FALSE
    /\ slips' = IF Cardinality(Actions) = 1 THEN with \ {"act"} ELSE with

(* On the assets page a confirmation clears all ticks, those made since    *)
(* included.                                                               *)
Succeed(c, with) ==
    /\ EndAction(with)
    /\ chosen' = IF c.items # {} THEN {} ELSE chosen

(* A function that refreshes the page.                                     *)
Refreshes(c) == c.kind \in {"silent", "act"} /\ Head(c.todo) \in Panes

(* A read of a refresh is written to the page, or fails.  Then the         *)
(* workflow page gives up and the assets page goes on with the next;       *)
(* neither tells the action that waits for it.  A load may have written    *)
(* something newer meanwhile, which only a refresh that runs again makes   *)
(* good.                                                                   *)
TakeRead(i) ==
    LET c == sent[i]
        part == Head(c.todo)
        Proceed(todo, with) ==
            IF todo # <<>>
            THEN /\ sent' = [sent EXCEPT ![i].todo = todo, ![i].since = Len(history)]
                 /\ slips' = slips \cup with
                 /\ UNCHANGED <<chosen, pending, refreshing>>
            ELSE /\ Rest(i)
                 /\ IF c.kind = "act" THEN Succeed(c, slips \cup with)
                    ELSE slips' = slips \cup with /\ UNCHANGED <<chosen, pending>>
    IN
    /\ Refreshes(c)
    /\ \/ /\ \E n \in c.since..Len(history) :
                LET got == ReadAt(c, part, n) IN
                /\ Write(part, got)
                /\ Proceed(Tail(c.todo),
                           IF Astray(c, part) \/ (Older(part, got) /\ refreshing # "again")
                           THEN {part} ELSE {})
          /\ UNCHANGED turns
       \/ /\ Turn /\ UNCHANGED pageVars
          /\ IF console = "workflow" THEN Proceed(<<>>, Range(c.todo))
             ELSE Proceed(Tail(c.todo), {part})

(* A refresh under way that was made for something else does not read what *)
(* is asked for when it runs again.                                        *)
Misses ==
    {part \in Panes : \E i \in DOMAIN sent : Refreshes(sent[i]) /\ Astray(sent[i], part)}

(* The command is done: the page is refreshed, unless a refresh runs, of   *)
(* which one more is asked.                                                *)
TakeChanged(i) ==
    LET c == sent[i] IN
    /\ c.todo \in {<<"changed">>, <<"selected">>}
    /\ IF refreshing # "idle"
       THEN /\ sent' = RemoveAt(sent, i) /\ refreshing' = "again"
            /\ Succeed(c, slips \cup IF c.todo = <<"selected">> THEN Misses \cap {"dialog"}
                                                                ELSE {})
       ELSE /\ sent' = [sent EXCEPT ![i].todo = Refresh(c.item, c.asset),
                                    ![i].since = Len(history)]
            /\ refreshing' = "running"
            /\ UNCHANGED <<chosen, pending, slips>>
    /\ UNCHANGED <<pageVars, turns>>

TakeRefused(i) ==
    /\ sent[i].todo = <<"refused">>
    /\ sent' = RemoveAt(sent, i)
    /\ EndAction(slips)
    /\ UNCHANGED <<pageVars, chosen, refreshing, turns>>

Take(i) ==
    /\ TakeLoad(i) \/ TakeRead(i) \/ TakeChanged(i) \/ TakeRefused(i)
    /\ UNCHANGED <<console, at, filter, history, due>>

-----------------------------------------------------------------------------
(* The recent-changes subscription.                                        *)

(* Mutant: an event during a refresh asks for nothing.                     *)
refreshSilentlyOnce ==
    IF refreshing = "idle"
    THEN /\ sent' = Append(sent, Sent("silent", filter, at, Refresh(at.item, at.asset)))
         /\ refreshing' = "running"
    ELSE UNCHANGED <<sent, refreshing>>

(* refreshWorkflowSilently, refreshAssetSilently.                          *)
refreshSilently ==
    IF refreshing = "idle"
    THEN /\ sent' = Append(sent, Sent("silent", filter, at, Refresh(at.item, at.asset)))
         /\ refreshing' = "running"
    ELSE sent' = sent /\ refreshing' = "again"

OnEvent ==
    /\ due > 0 /\ due' = due - 1
    /\ IF at.open THEN refreshSilently /\ slips' = slips \cup Misses
       ELSE UNCHANGED <<sent, refreshing, slips>>
    /\ UNCHANGED <<console, at, filter, pageVars, chosen, pending, history, turns>>

(* The stream was down when the event was published (EventStream).         *)
EventLost ==
    /\ Turn /\ due > 0 /\ due' = due - 1
    /\ slips' = slips \cup Panes
    /\ UNCHANGED <<console, at, filter, pageVars, chosen, pending, refreshing, sent,
                   history>>

-----------------------------------------------------------------------------
(* The page is open and has loaded.                                        *)
ConsoleInit ==
    /\ console \in Consoles
    /\ at \in [open : {TRUE}, item : Owners \cup {Off}, asset : {Off}]
    /\ filter = "all"
    /\ history = <<>>
    /\ list = ListAt("all", 0)
    /\ dialog = (IF at.item = Off THEN Blank ELSE DialogAt(at.item, 0))
    /\ provenance = Blank
    /\ chosen = {} /\ pending = FALSE /\ refreshing = "idle"
    /\ sent = <<>> /\ due = 0 /\ turns = 0 /\ slips = {}

ConsoleNext ==
    \/ \E item \in Owners \cup {Off} : OpenPage(item)
    \/ LeavePage
    \/ \E item \in Owners : Select(item) \/ \E heard \in BOOLEAN : OthersChange(item, heard)
    \/ CloseDialog
    \/ onSelectAssetProvenance \/ onCloseAssetProvenance
    \/ \E f \in Filters : ChooseFilter(f)
    \/ onToggleImportBatchItemSelection
    \/ ActOnRun \/ ConfirmSelected \/ ConfirmAll \/ onSelectPrimaryAsset
    \/ \E i \in DOMAIN sent : Serve(i) \/ Take(i)
    \/ OnEvent \/ EventLost

ConsoleSpec == ConsoleInit /\ [][ConsoleNext]_consoleVars

-----------------------------------------------------------------------------
ConsoleTypeOK ==
    /\ console \in Consoles /\ filter \in Filters
    /\ at \in [open : BOOLEAN, item : Owners \cup {Off}, asset : Owners \cup {Off}]
    /\ list \in Lists \cup {Blank} /\ dialog \in Dialogs \cup {Blank}
    /\ provenance \in Provenances \cup {Blank}
    /\ \A shown \in {list, dialog, provenance} \ {Blank} : shown.version <= MaxHistory
    /\ chosen \subseteq Owners /\ pending \in BOOLEAN
    /\ refreshing \in {"idle", "running", "again"}
    /\ history \in Seq([item : Owners, items : SUBSET Owners, parts : {Panes, {"dialog"}}])
    /\ due \in 0..MaxHistory
    /\ slips \subseteq Panes \cup {"act"}

(* When no function runs and no event is on its way, a monitor shows what  *)
(* the route and the filter ask for, as the server has it: the list of     *)
(* this filter, the dialog of this item or none, the provenance of this    *)
(* asset or none.  A part of the page slips from this if a read of it      *)
(* failed or was overtaken, a refresh made for another filter, item, asset *)
(* or visit wrote it, or such a refresh was under way when the event came  *)
(* or the action ended: it runs again for what it was made for.  And it    *)
(* slips if it changed without an event that reached the console: the      *)
(* event was lost, or never published, or is one the console does not      *)
(* listen to.  The operator's own selection of a primary asset is no       *)
(* such case: the refresh after it reads the dialog again, unless the      *)
(* operator moved on or the answer was lost.                               *)
MonitorSettles ==
    at.open /\ sent = <<>> /\ due = 0 =>
        LET now == Len(history) IN
        /\ "list" \notin slips => list = ListAt(filter, now)
        /\ "dialog" \notin slips =>
               dialog = IF at.item = Off THEN Blank ELSE DialogAt(at.item, now)
        /\ "provenance" \notin slips =>
               provenance = IF at.asset = Off THEN Blank ELSE ProvenanceAt(at.asset, now)

(* One action runs at a time, and the buttons are disabled exactly while   *)
(* it does, unless the dialog or the page was closed under it: that clears *)
(* the flag, and a second action can start.  And a batch is only asked to  *)
(* confirm items of its own, though items can be ticked in the dialog of   *)
(* the batch before while the next one loads.                              *)
OneAction ==
    /\ "act" \notin slips => Cardinality(Actions) <= 1 /\ (pending <=> Actions # {})
    /\ \A i \in Actions :
          sent[i].todo \in MonitorCommands => sent[i].items \subseteq {sent[i].target}
=============================================================================
