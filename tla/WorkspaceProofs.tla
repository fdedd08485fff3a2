-------------------------- MODULE WorkspaceProofs --------------------------
(***************************************************************************)
(* Proofs about the pages of the console that monitor the work and act on  *)
(* it (AdminConsole), and about all of the pages and services together     *)
(* (MCWorkspace).                                                          *)
(*                                                                         *)
(* That a monitor is current once nothing runs depends on the functions    *)
(* that still run: ConsoleInv says which of them will read what changed,   *)
(* or that the event is still on its way.                                  *)
(*                                                                         *)
(* A step of MCWorkspace is one of a page or leaves that page alone, so    *)
(* what is proved of each page on its own holds of them together.          *)
(***************************************************************************)
EXTENDS MCWorkspace, PageProofs, ScreenProofs, SequenceTheorems

-----------------------------------------------------------------------------
(* The monitors: what a function that runs can be.                         *)
ActWords == {"change", "changed", "select", "selected", "refused"}
ActCommands == {<<word>> : word \in ActWords}
MonitorTasks ==
    [kind : Panes \cup {"silent", "act"}, filter : Filters, item : Owners \cup {Off},
     asset : Owners \cup {Off}, todo : ActCommands \cup Seq(Panes), since : Nat,
     target : Owners \cup {Off}, items : SUBSET Owners, left : BOOLEAN]
Refreshing == {c \in MonitorTasks : Refreshes(c)}

(* What each part of the page is for, or a function was made for, and what *)
(* it shows of that after n changes.                                       *)
KeysOf(f, a) == [list |-> f, dialog |-> a.item, provenance |-> a.asset]
Absent(keys, part) == part # "list" /\ keys[part] = Off
Stray(keys, c, part) == c.left \/ KeysOf(c.filter, c)[part] # keys[part]

ServerChanges == [item : Owners, items : SUBSET Owners, parts : {Panes, {"dialog"}}]
ItemVersion(h, part, key, n) == Cardinality({k \in 1..n : Touches(h[k], part, key)})
ShownAt(h, part, key, n) ==
    CASE part = "list" -> [filter |-> key, version |-> ItemVersion(h, part, key, n)]
      [] part = "dialog" -> [of |-> key, version |-> ItemVersion(h, part, key, n),
                             open |-> \A k \in 1..n : key \notin h[k].items]
      [] part = "provenance" -> [of |-> key, version |-> ItemVersion(h, part, key, n)]
PartsShown == [list |-> list, dialog |-> dialog, provenance |-> provenance]

(* What a refresh reads.                                                   *)
PartsOf(monitor, c) ==
    {"list"} \cup (IF c.item = Off THEN {} ELSE {"dialog"})
             \cup (IF monitor = "workflow" \/ c.asset = Off THEN {} ELSE {"provenance"})

-----------------------------------------------------------------------------
ConsoleTyped ==
    /\ console \in Consoles /\ filter \in Filters
    /\ at \in [open : BOOLEAN, item : Owners \cup {Off}, asset : Owners \cup {Off}]
    /\ list \in Lists \cup {Blank} /\ dialog \in Dialogs \cup {Blank}
    /\ provenance \in Provenances \cup {Blank}
    /\ \A part \in Panes : PartsShown[part] = Blank \/ PartsShown[part].version <= MaxHistory
    /\ chosen \subseteq Owners /\ pending \in BOOLEAN
    /\ refreshing \in {"idle", "running", "again"}
    /\ history \in Seq(ServerChanges) /\ Len(history) <= MaxHistory
    /\ due \in 0..Len(history)
    /\ slips \subseteq Panes \cup {"act"}

(* Of the functions under way, one load of each part runs at most, for     *)
(* what the page is on; one refreshes the page, unless none does; a        *)
(* command is about the item shown when it was given.                      *)
MonitorTaskFits(monitor, now, f, a, c) ==
    /\ c.since <= now
    /\ ~a.open => c.left
    /\ c.kind \in Panes =>
          /\ c.todo = <<c.kind>> /\ a.open
          /\ ~Stray(KeysOf(f, a), c, c.kind) /\ ~Absent(KeysOf(f, a), c.kind)
    /\ c.kind \notin Panes /\ c \notin Refreshing =>
          /\ c.kind = "act" /\ c.todo \in ActCommands /\ c.target \in Owners
          /\ c.todo \in MonitorCommands => c.items \subseteq {c.target}
    /\ c \in Refreshing =>
          c.todo \in Seq(Panes) /\ c.todo # <<>> /\ Range(c.todo) \subseteq PartsOf(monitor, c)
TasksRun(tasks, how) ==
    /\ tasks \in Seq(MonitorTasks)
    /\ \A part \in Panes : AtMostOne(tasks, part)
    /\ AtMostOneOf(tasks, Refreshing)
    /\ how = "idle" <=> Range(tasks) \cap Refreshing = {}

(* The buttons are disabled exactly while the action runs.                 *)
PendingFits ==
    "act" \notin slips => AtMostOne(sent, "act") /\ (pending <=> ~NoneOf(sent, "act"))

MonitorFits ==
    /\ console = "workflow" => provenance = Blank /\ at.asset = Off
    /\ ~at.open => at = Nowhere

(* What a part of the page shows is current, or a function will show what  *)
(* is: it has been asked since the last change of that, is going to be, or *)
(* follows the command that made the change.                               *)
Recent(h, part, key, since) ==
    \A n \in since..Len(h) : ShownAt(h, part, key, n) = ShownAt(h, part, key, Len(h))
WillShow(h, keys, again, c, part) ==
    \/ c.kind = part /\ Recent(h, part, keys[part], c.since)
    \/ /\ c \in Refreshing /\ ~Stray(keys, c, part)
       /\ \/ /\ part \in Range(c.todo)
             /\ (Head(c.todo) = part => Recent(h, part, keys[part], c.since))
          \/ again
    \/ c.todo = <<"selected">> /\ part = "dialog" /\ ~Stray(keys, c, part)
Promised(h, keys, again, tasks, part) ==
    \E c \in Range(tasks) : WillShow(h, keys, again, c, part)
IsKept(h, keys, again, tasks, part, shown) ==
    IF Absent(keys, part) THEN shown = Blank
    ELSE \/ shown = ShownAt(h, part, keys[part], Len(h))
         \/ Promised(h, keys, again, tasks, part)
KeptUp(part) ==
    \/ part \in slips
    \/ IsKept(history, KeysOf(filter, at), refreshing = "again", sent, part, PartsShown[part])
    \/ due > 0 /\ ~Absent(KeysOf(filter, at), part)

ConsoleInv ==
    /\ ConsoleTyped
    /\ TasksRun(sent, refreshing)
    /\ \A c \in Range(sent) : MonitorTaskFits(console, Len(history), filter, at, c)
    /\ \A k \in DOMAIN history : history[k].items \subseteq {history[k].item}
    /\ PendingFits /\ MonitorFits
    /\ at.open => \A part \in Panes : KeptUp(part)

-----------------------------------------------------------------------------
(* Sequences of functions.                                                 *)
LEMMA PanesAre ==
    /\ Panes = {"list", "dialog", "provenance"} /\ "act" \notin Panes /\ "silent" \notin Panes
    /\ \A x \in ActWords : x \notin Panes
BY DEF Panes, ActWords

(* A function under way is one that the code makes.                        *)
LEMMA MonitorTaskAt ==
    ASSUME NEW t \in Seq(MonitorTasks), NEW i \in DOMAIN t
    PROVE  t[i] \in MonitorTasks /\ t[i] \in Range(t)
<1>1. t[i] \in Range(t) BY DEF Range
<1>2. DOMAIN t = 1..Len(t) BY LenProperties
<1>3. t[i] \in MonitorTasks BY <1>2, ElementOfSeq
<1> QED BY <1>1, <1>3

(* The same of all of them as a set.                                       *)
LEMMA TasksAre ==
    ASSUME NEW t \in Seq(MonitorTasks)
    PROVE  Range(t) \subseteq MonitorTasks /\ \A c \in Range(t) : \E i \in DOMAIN t : c = t[i]
BY MonitorTaskAt DEF Range

(* That none of a kind runs, said of the set.                              *)
LEMMA NoneOfTasks ==
    ASSUME NEW t \in Seq(MonitorTasks), NEW kind
    PROVE  NoneOf(t, kind) <=> \A c \in Range(t) : c.kind # kind
BY DEF NoneOf, Range

(* A load is no refresh, and a command that was not answered is none yet.  *)
LEMMA LoadsRefreshNothing ==
    ASSUME NEW c \in Refreshing
    PROVE  c.kind \notin Panes /\ c.kind \in {"silent", "act"} /\ c.todo \notin ActCommands
<1>1. c.kind \in {"silent", "act"} /\ Head(c.todo) \in Panes BY DEF Refreshing, Refreshes
<1>2. \A x : Head(<<x>>) = x OBVIOUS
<1>3. c.todo \in ActCommands => Head(c.todo) \in ActWords BY <1>2 DEF ActCommands
<1> QED BY <1>1, <1>3, PanesAre

(* A load is cancelled: what runs is all but it.                           *)
LEMMA CancelRuns ==
    ASSUME NEW t, NEW how, TasksRun(t, how), NEW part \in Panes
    PROVE  LET s == Cancel(t, part) IN
           /\ TasksRun(s, how) /\ NoneOf(s, part)
           /\ Range(s) = {c \in Range(t) : c.kind # part}
           /\ \A k : k # part => (NoneOf(s, k) <=> NoneOf(t, k))
           /\ \A k : NoneOf(t, k) => NoneOf(s, k)
           /\ \A k : AtMostOne(t, k) => AtMostOne(s, k)
<1>1. PICK s : s = Cancel(t, part) OBVIOUS
<1>2. t \in Seq(MonitorTasks) /\ AtMostOne(t, part) /\ AtMostOneOf(t, Refreshing)
      /\ \A k \in Panes : AtMostOne(t, k)
  BY DEF TasksRun
<1>3. /\ s \in Seq(MonitorTasks) /\ Range(s) \subseteq Range(t)
      /\ \A x \in Range(t) : x.kind = part \/ x \in Range(s)
      /\ \A k : NoneOf(t, k) => NoneOf(s, k)
      /\ \A k : AtMostOne(t, k) => AtMostOne(s, k)
      /\ \A k : k # part /\ NoneOf(s, k) => NoneOf(t, k)
      /\ NoneOf(s, part)
  BY <1>1, <1>2, LoadCancelled
<1>4. Range(s) = {c \in Range(t) : c.kind # part}
  <2>1. \A c \in Range(s) : c.kind # part BY <1>3, NoneOfTasks
  <2> QED BY <1>3, <2>1
<1>5. Range(s) \cap Refreshing = Range(t) \cap Refreshing
  <2>1. \A c \in Refreshing : c.kind # part BY LoadsRefreshNothing
  <2> QED BY <1>4, <2>1
<1>6. AtMostOneOf(s, Refreshing) BY <1>1, <1>2, CancelledStill
<1> QED BY <1>1, <1>2, <1>3, <1>4, <1>5, <1>6 DEF TasksRun

(* A load begins of which none runs.                                       *)
LEMMA PaneLoadBegins ==
    ASSUME NEW t, NEW how, TasksRun(t, how), NEW w \in MonitorTasks, w.kind \in Panes, NoneOf(t, w.kind)
    PROVE  LET s == Append(t, w) IN
           /\ TasksRun(s, how) /\ Range(s) = Range(t) \cup {w}
           /\ \A k : k # w.kind => (NoneOf(s, k) <=> NoneOf(t, k))
           /\ \A k : k # w.kind => (AtMostOne(t, k) => AtMostOne(s, k))
<1>1. PICK s : s = Append(t, w) OBVIOUS
<1>2. t \in Seq(MonitorTasks) /\ AtMostOneOf(t, Refreshing) /\ \A k \in Panes : AtMostOne(t, k)
  BY DEF TasksRun
<1>3. /\ s \in Seq(MonitorTasks) /\ Range(s) = Range(t) \cup {w}
      /\ \A k : NoneOf(s, k) <=> NoneOf(t, k) /\ w.kind # k
      /\ \A k : AtMostOne(t, k) /\ (w.kind # k \/ NoneOf(t, k)) => AtMostOne(s, k)
  BY <1>1, <1>2, TaskBegins
<1>4. w \notin Refreshing BY LoadsRefreshNothing
<1>5. Range(s) \cap Refreshing = Range(t) \cap Refreshing BY <1>3, <1>4
<1>6. AtMostOneOf(s, Refreshing) BY <1>1, <1>2, <1>4, BegunStill
<1>7. \A k \in Panes : AtMostOne(s, k) BY <1>2, <1>3
<1> QED BY <1>1, <1>2, <1>3, <1>5, <1>6, <1>7 DEF TasksRun

(* A command is a word, and has the meaning of that word only.             *)
LEMMA WordsAre ==
    /\ \A x, y : <<x>> = <<y>> => x = y
    /\ MonitorCommands = {<<"change">>, <<"select">>} /\ MonitorCommands \subseteq ActCommands
    /\ <<"selected">> \notin MonitorCommands /\ <<"changed">> \notin MonitorCommands
    /\ <<"refused">> \notin MonitorCommands
    /\ \A part \in Panes : <<part>> # <<"selected">>
<1>1. \A x, y : <<x>> = <<y>> => x = y
  <2>1. \A x : <<x>>[1] = x OBVIOUS
  <2> QED BY <2>1
<1>2. MonitorCommands = {<<"change">>, <<"select">>}
  BY DEF MonitorCommands, mutateWorkflowRun, confirmImportBatchItem, selectPrimaryAssetForMonitor
<1>3. /\ \A x \in {"selected", "changed", "refused"} : x # "change" /\ x # "select"
      /\ \A part \in Panes : part # "selected"
  BY DEF Panes
<1>4. MonitorCommands \subseteq ActCommands BY <1>2 DEF ActCommands, ActWords
<1> QED BY <1>1, <1>2, <1>3, <1>4

-----------------------------------------------------------------------------
(* What a part of the page shows.                                          *)
KeyFits(part, key) == IF part = "list" THEN key \in Filters ELSE key \in Owners
ShownOf(part) ==
    IF part = "list" THEN Lists ELSE IF part = "dialog" THEN Dialogs ELSE Provenances

(* Versions only grow, and one that stayed had no change since.            *)
LEMMA VersionGrows ==
    ASSUME NEW h, NEW part, NEW key, NEW m \in Nat, NEW n \in 0..m
    PROVE  /\ ItemVersion(h, part, key, n) \in 0..n
           /\ ItemVersion(h, part, key, n) <= ItemVersion(h, part, key, m)
           /\ ItemVersion(h, part, key, n) = ItemVersion(h, part, key, m) =>
                 \A k \in 1..m : Touches(h[k], part, key) => k \in 1..n
<1>1. PICK N : N = {k \in 1..n : Touches(h[k], part, key)} OBVIOUS
<1>2. PICK M : M = {k \in 1..m : Touches(h[k], part, key)} OBVIOUS
<1>3. IsFiniteSet(1..n) /\ IsFiniteSet(1..m) /\ Cardinality(1..n) = n
  <2>1. 1 \in Int /\ n \in Int /\ m \in Int /\ (IF 1 > n THEN 0 ELSE n - 1 + 1) = n OBVIOUS
  <2> QED BY <2>1, FS_Interval
<1>4. N \in SUBSET (1..n) /\ M \in SUBSET (1..m) /\ N \in SUBSET M BY <1>1, <1>2
<1>5. IsFiniteSet(M) /\ IsFiniteSet(N) /\ Cardinality(N) <= n BY <1>3, <1>4, FS_Subset
<1>6. Cardinality(N) \in Nat /\ Cardinality(M) \in Nat BY <1>5, FS_CardinalityType
<1>7. Cardinality(N) <= Cardinality(M) /\ (Cardinality(M) = Cardinality(N) => M = N)
  BY <1>4, <1>5, FS_Subset
<1>8. ItemVersion(h, part, key, n) = Cardinality(N) /\ ItemVersion(h, part, key, m) = Cardinality(M)
  BY <1>1, <1>2 DEF ItemVersion
<1>9. M = N => \A k \in 1..m : Touches(h[k], part, key) => k \in 1..n BY <1>1, <1>2
<1> QED BY <1>5, <1>6, <1>7, <1>8, <1>9

(* What a read shows is of the part and the key it was made for, and no    *)
(* newer than the server.                                                  *)
LEMMA ShownIsTyped ==
    ASSUME NEW h, NEW part \in Panes, NEW key, KeyFits(part, key), NEW n \in Nat
    PROVE  /\ ShownAt(h, part, key, n) \in ShownOf(part) /\ ShownAt(h, part, key, n) # Blank
           /\ ShownAt(h, part, key, n).version \in 0..n
           /\ IF part = "list" THEN ShownAt(h, part, key, n).filter = key
                               ELSE ShownAt(h, part, key, n).of = key
<1>1. ItemVersion(h, part, key, n) \in 0..n BY VersionGrows
<1>2. CASE part = "list"
  BY <1>1, <1>2, BlankIsNoPart DEF ShownAt, KeyFits, ShownOf, Lists
<1>3. CASE part = "dialog"
  <2>1. PICK open : open = \A k \in 1..n : key \notin h[k].items OBVIOUS
  <2>2. open \in BOOLEAN BY <2>1
  <2>3. ShownAt(h, part, key, n) = [of |-> key, version |-> ItemVersion(h, part, key, n), open |-> open]
    BY <1>3, <2>1 DEF ShownAt
  <2>4. ShownAt(h, part, key, n) \in Dialogs BY <1>1, <1>3, <2>2, <2>3 DEF KeyFits, Dialogs
  <2> QED BY <1>1, <1>3, <2>3, <2>4, BlankIsNoPart DEF ShownOf
<1>4. CASE part = "provenance"
  BY <1>1, <1>4, BlankIsNoPart DEF ShownAt, KeyFits, ShownOf, Provenances
<1> QED BY <1>2, <1>3, <1>4 DEF Panes

(* What is read later is not older, and the same if it is not newer.       *)
LEMMA ShownSettles ==
    ASSUME NEW h, NEW part \in Panes, NEW key, NEW m \in Nat, NEW n \in 0..m,
           \A k \in 1..m : h[k].items \subseteq {h[k].item} /\ "dialog" \in h[k].parts
    PROVE  /\ ShownAt(h, part, key, n).version <= ShownAt(h, part, key, m).version
           /\ ShownAt(h, part, key, n).version = ShownAt(h, part, key, m).version =>
                 ShownAt(h, part, key, n) = ShownAt(h, part, key, m)
<1>1. /\ ItemVersion(h, part, key, n) <= ItemVersion(h, part, key, m)
      /\ ItemVersion(h, part, key, n) = ItemVersion(h, part, key, m) =>
            \A k \in 1..m : Touches(h[k], part, key) => k \in 1..n
  BY VersionGrows
<1>2. CASE part = "list" BY <1>1, <1>2 DEF ShownAt
<1>3. CASE part = "dialog"
  <2>1. PICK open : open = [x \in {n, m} |-> \A k \in 1..x : key \notin h[k].items] OBVIOUS
  <2>2. ItemVersion(h, part, key, n) = ItemVersion(h, part, key, m) => open[n] = open[m]
    <3>1. 1..n \subseteq 1..m OBVIOUS
    <3>2. \A k \in 1..m : key \in h[k].items => Touches(h[k], part, key) BY <1>3 DEF Touches
    <3> QED BY <1>1, <2>1, <3>1, <3>2
  <2>3. \A x \in {n, m} : ShownAt(h, part, key, x) =
           [of |-> key, version |-> ItemVersion(h, part, key, x), open |-> open[x]]
    BY <1>3, <2>1 DEF ShownAt
  <2> QED BY <1>1, <2>2, <2>3
<1>4. CASE part = "provenance" BY <1>1, <1>4 DEF ShownAt
<1> QED BY <1>2, <1>3, <1>4 DEF Panes

(* The model's words for it.                                               *)
LEMMA ReadsShow ==
    ASSUME NEW c, NEW part \in Panes, NEW n
    PROVE  ReadAt(c, part, n) = ShownAt(history, part, KeysOf(c.filter, c)[part], n)
<1>1. CASE part = "list"
  BY <1>1 DEF ReadAt, ListAt, VersionOf, ItemVersion, Touches, ShownAt, KeysOf
<1>2. CASE part = "dialog"
  BY <1>2 DEF ReadAt, DialogAt, VersionOf, ItemVersion, ShownAt, KeysOf
<1>3. CASE part = "provenance"
  BY <1>3 DEF ReadAt, ProvenanceAt, VersionOf, ItemVersion, ShownAt, KeysOf
<1> QED BY <1>1, <1>2, <1>3 DEF Panes

(* The model's word for a function made for something else.                *)
LEMMA AstrayIsStray ==
    ASSUME NEW c, NEW part \in Panes
    PROVE  Astray(c, part) <=> Stray(KeysOf(filter, at), c, part)
<1>1. CASE part = "list" BY <1>1 DEF Astray, Stray, KeysOf
<1>2. CASE part = "dialog" BY <1>2 DEF Astray, Stray, KeysOf
<1>3. CASE part = "provenance" BY <1>3 DEF Astray, Stray, KeysOf
<1> QED BY <1>1, <1>2, <1>3 DEF Panes

(* A read that is written changes the part it is of and no other.          *)
LEMMA WrittenPart ==
    ASSUME NEW part \in Panes, NEW got, Write(part, got)
    PROVE  \A p \in Panes : PartsShown'[p] = IF p = part THEN got ELSE PartsShown[p]
BY DEF Panes, Write, PartsShown

(* The model's word for a read that is older than what is shown.           *)
LEMMA OlderIs ==
    ASSUME NEW part \in Panes, NEW got
    PROVE  Older(part, got) <=>
              /\ PartsShown[part] # Blank /\ PartsShown[part].version > got.version
              /\ IF part = "list" THEN PartsShown[part].filter = got.filter
                                  ELSE PartsShown[part].of = got.of
BY DEF Panes, Older, PartsShown

(* A refresh reads the list and whatever it was made for.                  *)
LEMMA RefreshReads ==
    ASSUME NEW c, console \in Consoles
    PROVE  LET todo == Refresh(c.item, c.asset) IN
           /\ todo \in Seq(Panes) /\ todo # <<>> /\ Range(todo) = PartsOf(console, c)
<1>1. /\ <<"list">> \in Seq(Panes) /\ <<"dialog">> \in Seq(Panes)
      /\ <<"provenance">> \in Seq(Panes) /\ <<>> \in Seq(Panes) /\ <<"list">> # <<>>
  BY DEF Panes
<1>2. /\ Range(<<"list">>) = {"list"} /\ Range(<<"dialog">>) = {"dialog"}
      /\ Range(<<"provenance">>) = {"provenance"}
  <2>1. \A x : DOMAIN <<x>> = {1} /\ <<x>>[1] = x
    <3>1. \A x : DOMAIN <<x>> = 1..1 /\ <<x>>[1] = x OBVIOUS
    <3>2. 1..1 = {1} OBVIOUS
    <3> QED BY <3>1, <3>2
  <2> QED BY <2>1 DEF Range
<1>3. Range(<<>>) = {} BY DEF Range
<1>4. PICK d : d = IF c.item = Off THEN <<>> ELSE <<"dialog">> OBVIOUS
<1>5. PICK a : a = IF c.asset = Off THEN <<>> ELSE <<"provenance">> OBVIOUS
<1>6. /\ d \in Seq(Panes) /\ Range(d) = IF c.item = Off THEN {} ELSE {"dialog"}
      /\ a \in Seq(Panes) /\ Range(a) = IF c.asset = Off THEN {} ELSE {"provenance"}
  BY <1>1, <1>2, <1>3, <1>4, <1>5
<1>7. PICK w : w = <<"list">> \o d OBVIOUS
<1>8. w \in Seq(Panes) /\ w # <<>> /\ Range(w) = {"list"} \cup Range(d)
  <2>1. PICK l : l = <<"list">> OBVIOUS
  <2>2. l \in Seq(Panes) /\ l # <<>> /\ Range(l) = {"list"} BY <1>1, <1>2, <2>1
  <2>3. l \o d \in Seq(Panes) /\ l \o d # <<>> /\ Range(l \o d) = Range(l) \cup Range(d)
    BY <1>6, <2>2, Joined
  <2> QED BY <1>7, <2>1, <2>2, <2>3
<1>9. w \o a \in Seq(Panes) /\ w \o a # <<>> /\ Range(w \o a) = Range(w) \cup Range(a)
  BY <1>6, <1>8, Joined
<1>10. CASE console = "workflow"
  <2>1. Refresh(c.item, c.asset) = w
    BY <1>4, <1>7, <1>10 DEF Refresh, refreshWorkflow, loadWorkflowMonitorPanel,
       loadWorkflowRunDetails
  <2> QED BY <1>6, <1>8, <1>10, <2>1 DEF PartsOf
<1>11. CASE console # "workflow"
  <2>1. Refresh(c.item, c.asset) = w \o a
    BY <1>4, <1>5, <1>7, <1>11 DEF Refresh, refreshAsset, loadAssetMonitorPanel,
       loadImportBatchDetails, loadAssetProvenanceDetails
  <2> QED BY <1>6, <1>8, <1>9, <1>11, <2>1 DEF PartsOf
<1> QED BY <1>10, <1>11

(* What is read now is current.                                            *)
LEMMA NowIsRecent ==
    ASSUME NEW h, NEW part, NEW key, Len(h) \in Nat
    PROVE  Recent(h, part, key, Len(h))
BY DEF Recent

(* What a change does not touch shows the same before and after.           *)
Grows(h, w, g) ==
    /\ h \in Seq(ServerChanges) /\ g = Append(h, w)
    /\ w \in ServerChanges /\ w.items \subseteq {w.item}
LEMMA UntouchedShows ==
    ASSUME NEW h, NEW w, NEW g, Grows(h, w, g),
           NEW part \in Panes, NEW key, ~Touches(w, part, key)
    PROVE  /\ Len(h) \in Nat /\ Len(g) = Len(h) + 1
           /\ \A n \in 0..Len(h) : ShownAt(g, part, key, n) = ShownAt(h, part, key, n)
           /\ ShownAt(g, part, key, Len(g)) = ShownAt(h, part, key, Len(h))
           /\ \A since \in 0..Len(h) :
                 Recent(h, part, key, since) => Recent(g, part, key, since)
<1>1. /\ Len(h) \in Nat /\ Len(g) = Len(h) + 1 /\ g[Len(g)] = w
      /\ \A k \in 1..Len(h) : g[k] = h[k]
  BY AppendProperties, LenProperties DEF Grows
<1>2. ASSUME NEW n \in 0..Len(h)
      PROVE  /\ ItemVersion(g, part, key, n) = ItemVersion(h, part, key, n)
             /\ (\A k \in 1..n : key \notin g[k].items) <=> (\A k \in 1..n : key \notin h[k].items)
  <2>1. \A k \in 1..n : g[k] = h[k] BY <1>1
  <2>2. {k \in 1..n : Touches(g[k], part, key)} = {k \in 1..n : Touches(h[k], part, key)} BY <2>1
  <2> QED BY <2>1, <2>2 DEF ItemVersion
<1>3. ItemVersion(g, part, key, Len(g)) = ItemVersion(h, part, key, Len(h))
  <2>1. {k \in 1..Len(g) : Touches(g[k], part, key)} = {k \in 1..Len(h) : Touches(h[k], part, key)}
    <3>1. \A k \in 1..Len(g) : k \in 1..Len(h) \/ k = Len(g) BY <1>1
    <3>2. 1..Len(h) \subseteq 1..Len(g) BY <1>1
    <3> QED BY <1>1, <3>1, <3>2
  <2> QED BY <2>1 DEF ItemVersion
<1>4. part = "dialog" =>
         ((\A k \in 1..Len(g) : key \notin g[k].items) <=> (\A k \in 1..Len(h) : key \notin h[k].items))
  <2>1. part = "dialog" => key \notin w.items
    <3>1. "dialog" \in w.parts /\ w.items \subseteq {w.item} BY DEF Grows, ServerChanges, Panes
    <3> QED BY <3>1 DEF Touches
  <2>2. \A k \in 1..Len(g) : k \in 1..Len(h) \/ k = Len(g) BY <1>1
  <2>3. 1..Len(h) \subseteq 1..Len(g) BY <1>1
  <2> QED BY <1>1, <2>1, <2>2, <2>3
<1>5. ASSUME NEW n \in 0..Len(h) PROVE ShownAt(g, part, key, n) = ShownAt(h, part, key, n)
  <2>1. CASE part = "list" BY <1>2, <2>1 DEF ShownAt
  <2>2. CASE part = "dialog" BY <1>2, <2>2 DEF ShownAt
  <2>3. CASE part = "provenance" BY <1>2, <2>3 DEF ShownAt
  <2> QED BY <2>1, <2>2, <2>3 DEF Panes
<1>6. ShownAt(g, part, key, Len(g)) = ShownAt(h, part, key, Len(h))
  <2>1. CASE part = "list" BY <1>3, <2>1 DEF ShownAt
  <2>2. CASE part = "dialog" BY <1>3, <1>4, <2>2 DEF ShownAt
  <2>3. CASE part = "provenance" BY <1>3, <2>3 DEF ShownAt
  <2> QED BY <2>1, <2>2, <2>3 DEF Panes
<1>7. ASSUME NEW since \in 0..Len(h), Recent(h, part, key, since), NEW n \in since..Len(g)
      PROVE  ShownAt(g, part, key, n) = ShownAt(g, part, key, Len(g))
  <2>1. CASE n \in 0..Len(h)
    <3>1. n \in since..Len(h) BY <1>1, <2>1
    <3> QED BY <1>5, <1>6, <1>7, <2>1, <3>1 DEF Recent
  <2>2. CASE n = Len(g) BY <2>2
  <2> QED BY <1>1, <2>1, <2>2
<1> QED BY <1>1, <1>5, <1>6, <1>7 DEF Recent

-----------------------------------------------------------------------------
(* What still holds of a function, and of a part.                          *)
LEMMA StillFits ==
    ASSUME NEW monitor, NEW now \in Nat, NEW later \in Nat, now <= later,
           NEW f, NEW a, NEW g, NEW b, NEW c \in MonitorTasks, MonitorTaskFits(monitor, now, f, a, c),
           b.open \/ b = a, c.kind \in Panes => KeysOf(g, b)[c.kind] = KeysOf(f, a)[c.kind]
    PROVE  MonitorTaskFits(monitor, later, g, b, c)
<1>1. c.since \in Nat BY DEF MonitorTasks
<1>2. c.since <= later BY <1>1 DEF MonitorTaskFits
<1>3. c.kind \in Panes =>
         /\ c.todo = <<c.kind>> /\ b.open
         /\ ~Stray(KeysOf(g, b), c, c.kind) /\ ~Absent(KeysOf(g, b), c.kind)
  BY DEF MonitorTaskFits, Stray, Absent
<1>4. /\ c.kind \notin Panes /\ c \notin Refreshing =>
            /\ c.kind = "act" /\ c.todo \in ActCommands /\ c.target \in Owners
            /\ c.todo \in MonitorCommands => c.items \subseteq {c.target}
      /\ c \in Refreshing =>
            c.todo \in Seq(Panes) /\ c.todo # <<>> /\ Range(c.todo) \subseteq PartsOf(monitor, c)
  BY DEF MonitorTaskFits
<1>5. ~b.open => c.left BY DEF MonitorTaskFits
<1> QED BY <1>2, <1>3, <1>4, <1>5 DEF MonitorTaskFits

(* The parts shown are the three variables.                                *)
LEMMA ShownParts ==
    /\ PartsShown["list"] = list /\ PartsShown["dialog"] = dialog /\ PartsShown["provenance"] = provenance
    /\ PartsShown'["list"] = list' /\ PartsShown'["dialog"] = dialog' /\ PartsShown'["provenance"] = provenance'
BY DEF PartsShown

(* A part stays kept while it, its key and the server stay, if every       *)
(* function that will show it leaves one that will.                        *)
LEMMA StillKept ==
    ASSUME NEW part \in Panes, KeptUp(part), part \in slips => part \in slips',
           KeysOf(filter', at')[part] = KeysOf(filter, at)[part],
           PartsShown'[part] = PartsShown[part], history' = history, due' = due,
           \A c \in Range(sent) :
              WillShow(history, KeysOf(filter, at), refreshing = "again", c, part) =>
                 \E d \in Range(sent') :
                    WillShow(history, KeysOf(filter', at'), refreshing' = "again", d, part)
    PROVE  KeptUp(part)'
<1>1. PICK k : k = KeysOf(filter, at) OBVIOUS
<1>2. PICK l : l = KeysOf(filter', at') OBVIOUS
<1>3. l[part] = k[part] BY <1>1, <1>2
<1>4. CASE part \in slips BY <1>4 DEF KeptUp
<1>5. CASE due > 0 /\ ~Absent(k, part)
  <2>1. due' > 0 /\ ~Absent(l, part) BY <1>3, <1>5 DEF Absent
  <2> QED BY <1>2, <2>1 DEF KeptUp
<1>6. CASE IsKept(history, k, refreshing = "again", sent, part, PartsShown[part])
  <2>1. Promised(history, k, refreshing = "again", sent, part) =>
           Promised(history, l, refreshing' = "again", sent', part)
    BY <1>1, <1>2 DEF Promised
  <2>2. IsKept(history, l, refreshing' = "again", sent', part, PartsShown[part])
    BY <1>3, <1>6, <2>1 DEF IsKept, Absent
  <2> QED BY <1>2, <2>2 DEF KeptUp
<1> QED BY <1>1, <1>4, <1>5, <1>6 DEF KeptUp

(* A part that a load has just been sent for, or that is for nothing.      *)
LEMMA AskedIsKept ==
    ASSUME NEW part \in Panes, history' = history,
           \/ Absent(KeysOf(filter', at'), part) /\ PartsShown'[part] = Blank
           \/ /\ ~Absent(KeysOf(filter', at'), part)
              /\ \E c \in Range(sent') : c.kind = part /\ c.since = Len(history)
    PROVE  Len(history) \in Nat => KeptUp(part)'
<1>1. PICK l : l = KeysOf(filter', at') OBVIOUS
<1>2. Len(history) \in Nat => Recent(history, part, l[part], Len(history)) BY NowIsRecent
<1>3. Len(history) \in Nat =>
         IsKept(history, l, refreshing' = "again", sent', part, PartsShown'[part])
  BY <1>1, <1>2 DEF IsKept, Promised, WillShow
<1> QED BY <1>1, <1>3 DEF KeptUp

-----------------------------------------------------------------------------
(* The operator moves: some loads are cancelled and others begin.          *)
IsAsked(now, keys, c) ==
    /\ c \in MonitorTasks /\ c.kind \in Panes /\ c.todo = <<c.kind>> /\ c.since = now
    /\ ~Stray(keys, c, c.kind) /\ ~Absent(keys, c.kind)

(* A move of the operator keeps the invariant if each part is for nothing, *)
(* has just been asked for, or is left alone.                              *)
LEMMA OperatorMoveKeeps ==
    ASSUME ConsoleInv, UNCHANGED <<console, refreshing, history, due>>,
           TasksRun(sent', refreshing),
           \A c \in Range(sent) : c.kind \in Panes \/ c \in Range(sent'),
           \A c \in Range(sent') :
              \/ /\ c \in Range(sent)
                 /\ c.kind \in Panes => KeysOf(filter', at')[c.kind] = KeysOf(filter, at)[c.kind]
              \/ IsAsked(Len(history), KeysOf(filter', at'), c),
           NoneOf(sent', "act") <=> NoneOf(sent, "act"),
           AtMostOne(sent, "act") => AtMostOne(sent', "act"),
           \/ pending' = pending /\ ("act" \in slips => "act" \in slips')
           \/ pending' = FALSE /\ (NoneOf(sent, "act") \/ "act" \in slips'),
           filter' \in Filters, at'.open, chosen' \subseteq Owners, slips' \subseteq slips \cup {"act"},
           at' \in [open : BOOLEAN, item : Owners \cup {Off}, asset : Owners \cup {Off}],
           \A part \in Panes : PartsShown'[part] = PartsShown[part] \/ PartsShown'[part] = Blank,
           console = "workflow" => provenance' = Blank /\ at'.asset = Off,
           \A part \in Panes :
              \/ Absent(KeysOf(filter', at'), part) /\ PartsShown'[part] = Blank
              \/ /\ ~Absent(KeysOf(filter', at'), part)
                 /\ \E c \in Range(sent') : c.kind = part /\ c.since = Len(history)
              \/ /\ at.open /\ KeysOf(filter', at')[part] = KeysOf(filter, at)[part]
                 /\ PartsShown'[part] = PartsShown[part] /\ (part \in slips => part \in slips')
                 /\ \A c \in Range(sent) : c.kind = part => c \in Range(sent')
    PROVE  ConsoleInv'
<1>1. ConsoleTyped /\ TasksRun(sent, refreshing) /\ PendingFits BY DEF ConsoleInv
<1>2. Len(history) \in Nat BY <1>1, LenProperties DEF ConsoleTyped
<1>3. Range(sent) \subseteq MonitorTasks BY <1>1, TasksAre DEF TasksRun
<1>4. ConsoleTyped'
  <2>1. /\ list' = list \/ list' = Blank
        /\ dialog' = dialog \/ dialog' = Blank
        /\ provenance' = provenance \/ provenance' = Blank
    BY ShownParts DEF Panes
  <2>2. \A part \in Panes : PartsShown'[part] = Blank \/ PartsShown'[part].version <= MaxHistory
    BY <1>1 DEF ConsoleTyped
  <2>3. pending' \in BOOLEAN BY <1>1 DEF ConsoleTyped
  <2>4. /\ list' \in Lists \cup {Blank} /\ dialog' \in Dialogs \cup {Blank}
        /\ provenance' \in Provenances \cup {Blank}
    BY <1>1, <2>1 DEF ConsoleTyped
  <2>5. /\ console \in Consoles /\ refreshing \in {"idle", "running", "again"}
        /\ history \in Seq(ServerChanges) /\ Len(history) <= MaxHistory
        /\ due \in 0..Len(history) /\ slips \subseteq Panes \cup {"act"}
    BY <1>1 DEF ConsoleTyped
  <2> QED BY <2>2, <2>3, <2>4, <2>5 DEF ConsoleTyped
<1>5. ASSUME NEW c \in Range(sent')
      PROVE  MonitorTaskFits(console, Len(history), filter', at', c)
  <2>1. CASE c \in Range(sent)
                /\ (c.kind \in Panes => KeysOf(filter', at')[c.kind] = KeysOf(filter, at)[c.kind])
    <3>1. MonitorTaskFits(console, Len(history), filter, at, c) BY <2>1 DEF ConsoleInv
    <3> QED BY <1>2, <1>3, <2>1, <3>1, StillFits
  <2>2. CASE IsAsked(Len(history), KeysOf(filter', at'), c)
    <3>1. c \notin Refreshing BY <2>2, LoadsRefreshNothing DEF IsAsked
    <3> QED BY <1>2, <2>2, <3>1 DEF IsAsked, MonitorTaskFits
  <2> QED BY <2>1, <2>2
<1>6. PendingFits'
  <2>1. AtMostOne(sent', "act") \/ ~NoneOf(sent', "act") BY DEF NoneOf, AtMostOne
  <2> QED BY <1>1, <2>1 DEF PendingFits
<1>7. ASSUME NEW part \in Panes PROVE KeptUp(part)'
  <2>1. CASE /\ at.open /\ KeysOf(filter', at')[part] = KeysOf(filter, at)[part]
             /\ PartsShown'[part] = PartsShown[part] /\ (part \in slips => part \in slips')
             /\ \A c \in Range(sent) : c.kind = part => c \in Range(sent')
    <3>1. KeptUp(part) BY <2>1 DEF ConsoleInv
    <3>2. PICK k : k = KeysOf(filter, at) OBVIOUS
    <3>3. PICK l : l = KeysOf(filter', at') OBVIOUS
    <3>4. l[part] = k[part] BY <2>1, <3>2, <3>3
    <3>5. ASSUME NEW c \in Range(sent),
                 WillShow(history, k, refreshing = "again", c, part)
          PROVE  c \in Range(sent') /\ WillShow(history, l, refreshing' = "again", c, part)
      <4>1. c.kind = part \/ c \in Refreshing \/ c.todo = <<"selected">> BY <3>5 DEF WillShow
      <4>2. c \in Range(sent')
        <5>1. MonitorTaskFits(console, Len(history), filter, at, c) BY DEF ConsoleInv
        <5>2. c.todo = <<"selected">> => c.kind \notin Panes
          BY <5>1, WordsAre DEF MonitorTaskFits
        <5> QED BY <2>1, <4>1, <5>2, LoadsRefreshNothing
      <4>3. WillShow(history, l, refreshing = "again", c, part)
        BY <3>4, <3>5 DEF WillShow, Stray
      <4> QED BY <4>2, <4>3
    <3> QED BY <2>1, <3>1, <3>2, <3>3, <3>5, StillKept
  <2> QED BY <1>2, <2>1, AskedIsKept
<1>8. MonitorFits' BY DEF MonitorFits
<1>9. TasksRun(sent', refreshing') BY <1>1
<1>10. \A k \in DOMAIN history : history[k].items \subseteq {history[k].item}
  BY DEF ConsoleInv
<1> QED BY <1>4, <1>5, <1>6, <1>7, <1>8, <1>9, <1>10 DEF ConsoleInv

(* A load sent for a part is one that asks for it now.                     *)
LEMMA LoadSent ==
    ASSUME ConsoleTyped, NEW kind \in Panes, NEW f \in Filters,
           NEW a \in [open : BOOLEAN, item : Owners \cup {Off}, asset : Owners \cup {Off}],
           ~Absent(KeysOf(f, a), kind)
    PROVE  /\ IsAsked(Len(history), KeysOf(f, a), Sent(kind, f, a, <<kind>>))
           /\ Sent(kind, f, a, <<kind>>).kind = kind
<1>1. Len(history) \in Nat BY LenProperties DEF ConsoleTyped
<1>2. <<kind>> \in Seq(Panes) OBVIOUS
<1>3. PICK c : c = Sent(kind, f, a, <<kind>>) OBVIOUS
<1>4. /\ c \in MonitorTasks /\ c.kind = kind /\ c.todo = <<kind>> /\ c.since = Len(history)
      /\ c.left = FALSE
  BY <1>1, <1>2, <1>3 DEF Sent, MonitorTasks
<1>5. KeysOf(c.filter, c) = KeysOf(f, a) BY <1>3 DEF Sent, KeysOf
<1> QED BY <1>3, <1>4, <1>5 DEF IsAsked, Stray

(* The model's word for the actions under way.                             *)
LEMMA ActionsAre == Actions # {} <=> ~NoneOf(sent, "act")
BY DEF Actions, NoneOf

(* The loads of both dialogs are cancelled.                                *)
LEMMA DialogsGone ==
    ASSUME ConsoleInv
    PROVE  LET s == DialogsCancelled IN
           /\ TasksRun(s, refreshing) /\ NoneOf(s, "dialog") /\ NoneOf(s, "provenance")
           /\ Range(s) = {c \in Range(sent) : c.kind \notin {"dialog", "provenance"}}
           /\ NoneOf(s, "act") <=> NoneOf(sent, "act")
           /\ AtMostOne(sent, "act") => AtMostOne(s, "act")
<1>1. TasksRun(sent, refreshing) /\ "dialog" \in Panes /\ "provenance" \in Panes
  BY DEF ConsoleInv, Panes
<1>2. PICK r : r = Cancel(sent, "dialog") OBVIOUS
<1>3. /\ TasksRun(r, refreshing) /\ NoneOf(r, "dialog")
      /\ Range(r) = {c \in Range(sent) : c.kind # "dialog"}
      /\ NoneOf(r, "act") <=> NoneOf(sent, "act")
      /\ AtMostOne(sent, "act") => AtMostOne(r, "act")
  BY <1>1, <1>2, CancelRuns
<1>4. PICK s : s = Cancel(r, "provenance") OBVIOUS
<1>5. /\ TasksRun(s, refreshing) /\ NoneOf(s, "provenance") /\ NoneOf(s, "dialog")
      /\ Range(s) = {c \in Range(r) : c.kind # "provenance"}
      /\ NoneOf(s, "act") <=> NoneOf(r, "act")
      /\ AtMostOne(r, "act") => AtMostOne(s, "act")
  BY <1>1, <1>3, <1>4, CancelRuns
<1> QED BY <1>2, <1>3, <1>4, <1>5 DEF DialogsCancelled

(* The operator selects an item.                                           *)
LEMMA SelectItemKeeps ==
    ASSUME ConsoleInv, NEW item \in Owners, Select(item)
    PROVE  ConsoleInv'
<1>1. PICK s : s = DialogsCancelled OBVIOUS
<1>2. /\ TasksRun(s, refreshing) /\ NoneOf(s, "dialog") /\ NoneOf(s, "provenance")
      /\ Range(s) = {c \in Range(sent) : c.kind \notin {"dialog", "provenance"}}
      /\ NoneOf(s, "act") <=> NoneOf(sent, "act")
      /\ AtMostOne(sent, "act") => AtMostOne(s, "act")
  BY <1>1, DialogsGone
<1>3. /\ UNCHANGED <<console, refreshing, history, due, filter, list, dialog>>
      /\ at.open /\ at' = [open |-> TRUE, item |-> item, asset |-> Off]
  BY DEF Select
<1>4. at' \in [open : BOOLEAN, item : Owners \cup {Off}, asset : Owners \cup {Off}] BY <1>3
<1>5. PICK w : w = Reading("dialog", at') OBVIOUS
<1>6. PICK l : l = KeysOf(filter', at') OBVIOUS
<1>7. /\ l["list"] = KeysOf(filter, at)["list"]
      /\ ~Absent(l, "dialog") /\ ~Absent(l, "list") /\ Absent(l, "provenance")
  BY <1>3, <1>6, OwnersAreNot DEF KeysOf, Absent
<1>8. ConsoleTyped /\ MonitorFits /\ filter \in Filters /\ chosen \subseteq Owners
  BY DEF ConsoleInv, ConsoleTyped
<1>9. IsAsked(Len(history), l, w) /\ w.kind = "dialog"
  <2>1. w = Sent("dialog", filter, at', <<"dialog">>) /\ l = KeysOf(filter, at') /\ "dialog" \in Panes
    BY <1>3, <1>5, <1>6 DEF Reading, Panes
  <2> QED BY <1>4, <1>7, <1>8, <2>1, LoadSent
<1>10. sent' = Append(s, w) BY <1>1, <1>5 DEF Select
<1>11. /\ TasksRun(sent', refreshing) /\ Range(sent') = Range(s) \cup {w}
       /\ NoneOf(sent', "act") <=> NoneOf(s, "act")
       /\ AtMostOne(s, "act") => AtMostOne(sent', "act")
  BY <1>2, <1>9, <1>10, PaneLoadBegins DEF IsAsked
<1>12. /\ \/ pending' = pending /\ ("act" \in slips => "act" \in slips')
          \/ pending' = FALSE /\ (NoneOf(sent, "act") \/ "act" \in slips')
       /\ slips' \subseteq slips \cup {"act"} /\ ("list" \in slips => "list" \in slips')
       /\ chosen' \subseteq Owners /\ provenance' = Blank
  <2>1. CASE console = "assets" BY <2>1, ActionsAre DEF Select, Reset
  <2>2. CASE console # "assets"
    <3>1. console = "workflow" BY <1>8, <2>2 DEF ConsoleTyped, Consoles
    <3> QED BY <1>8, <2>2, <3>1 DEF Select, MonitorFits
  <2> QED BY <2>1, <2>2
<1>13. /\ \A c \in Range(sent) : c.kind \in Panes \/ c \in Range(sent')
       /\ \A c \in Range(sent) : c.kind = "list" => c \in Range(sent')
  BY <1>2, <1>11 DEF Panes
<1>14. \A c \in Range(sent') :
          \/ c \in Range(sent) /\ (c.kind \in Panes => l[c.kind] = KeysOf(filter, at)[c.kind])
          \/ IsAsked(Len(history), l, c)
  BY <1>2, <1>7, <1>9, <1>11 DEF Panes
<1>15. /\ PartsShown'["list"] = PartsShown["list"] /\ PartsShown'["dialog"] = PartsShown["dialog"]
       /\ PartsShown'["provenance"] = Blank
  BY <1>3, <1>12, ShownParts
<1>16. \A part \in Panes : PartsShown'[part] = PartsShown[part] \/ PartsShown'[part] = Blank
  BY <1>15 DEF Panes
<1>17. \A part \in Panes :
          \/ Absent(l, part) /\ PartsShown'[part] = Blank
          \/ ~Absent(l, part) /\ \E c \in Range(sent') : c.kind = part /\ c.since = Len(history)
          \/ /\ at.open /\ l[part] = KeysOf(filter, at)[part]
             /\ PartsShown'[part] = PartsShown[part] /\ (part \in slips => part \in slips')
             /\ \A c \in Range(sent) : c.kind = part => c \in Range(sent')
  <2>1. w \in Range(sent') /\ w.kind = "dialog" /\ w.since = Len(history)
    BY <1>9, <1>11 DEF IsAsked
  <2> QED BY <1>3, <1>7, <1>12, <1>13, <1>15, <2>1 DEF Panes
<1> QED BY <1>2, <1>3, <1>4, <1>6, <1>8, <1>11, <1>12, <1>13, <1>14, <1>16, <1>17, OperatorMoveKeeps

(* The operator closes the dialog.                                         *)
LEMMA CloseKeeps ==
    ASSUME ConsoleInv, CloseDialog
    PROVE  ConsoleInv'
<1>1. PICK s : s = DialogsCancelled OBVIOUS
<1>2. /\ TasksRun(s, refreshing)
      /\ Range(s) = {c \in Range(sent) : c.kind \notin {"dialog", "provenance"}}
      /\ NoneOf(s, "act") <=> NoneOf(sent, "act")
      /\ AtMostOne(sent, "act") => AtMostOne(s, "act")
  BY <1>1, DialogsGone
<1>3. /\ UNCHANGED <<console, refreshing, history, due, filter, list>>
      /\ at.open /\ at' = [open |-> TRUE, item |-> Off, asset |-> Off]
      /\ sent' = s /\ dialog' = Blank /\ provenance' = Blank /\ chosen' = {}
  BY <1>1 DEF CloseDialog, Nowhere
<1>4. at' \in [open : BOOLEAN, item : Owners \cup {Off}, asset : Owners \cup {Off}] BY <1>3
<1>5. PICK l : l = KeysOf(filter', at') OBVIOUS
<1>6. /\ l["list"] = KeysOf(filter, at)["list"]
      /\ Absent(l, "dialog") /\ Absent(l, "provenance")
  BY <1>3, <1>5 DEF KeysOf, Absent
<1>7. filter \in Filters BY DEF ConsoleInv, ConsoleTyped
<1>8. /\ pending' = FALSE /\ (NoneOf(sent, "act") \/ "act" \in slips')
      /\ slips' \subseteq slips \cup {"act"} /\ ("list" \in slips => "list" \in slips')
  BY ActionsAre DEF CloseDialog, Reset
<1>9. /\ \A c \in Range(sent) : c.kind \in Panes \/ c \in Range(sent')
      /\ \A c \in Range(sent) : c.kind = "list" => c \in Range(sent')
  BY <1>2, <1>3 DEF Panes
<1>10. \A c \in Range(sent') :
          c \in Range(sent) /\ (c.kind \in Panes => l[c.kind] = KeysOf(filter, at)[c.kind])
  BY <1>2, <1>3, <1>6 DEF Panes
<1>11. /\ PartsShown'["list"] = PartsShown["list"] /\ PartsShown'["dialog"] = Blank
       /\ PartsShown'["provenance"] = Blank
  BY <1>3, ShownParts
<1>12. \A part \in Panes : PartsShown'[part] = PartsShown[part] \/ PartsShown'[part] = Blank
  BY <1>11 DEF Panes
<1>13. \A part \in Panes :
          \/ Absent(l, part) /\ PartsShown'[part] = Blank
          \/ /\ at.open /\ l[part] = KeysOf(filter, at)[part]
             /\ PartsShown'[part] = PartsShown[part] /\ (part \in slips => part \in slips')
             /\ \A c \in Range(sent) : c.kind = part => c \in Range(sent')
  BY <1>3, <1>6, <1>8, <1>9, <1>11 DEF Panes
<1> QED BY <1>2, <1>3, <1>4, <1>5, <1>7, <1>8, <1>9, <1>10, <1>12, <1>13, OperatorMoveKeeps

(* The operator selects an asset.                                          *)
LEMMA SelectAssetKeeps ==
    ASSUME ConsoleInv, onSelectAssetProvenance
    PROVE  ConsoleInv'
<1>1. PICK s : s = Cancel(sent, "provenance") OBVIOUS
<1>2. TasksRun(sent, refreshing) /\ "provenance" \in Panes BY DEF ConsoleInv, Panes
<1>3. /\ TasksRun(s, refreshing) /\ NoneOf(s, "provenance")
      /\ Range(s) = {c \in Range(sent) : c.kind # "provenance"}
      /\ NoneOf(s, "act") <=> NoneOf(sent, "act")
      /\ AtMostOne(sent, "act") => AtMostOne(s, "act")
  BY <1>1, <1>2, CancelRuns
<1>4. ConsoleTyped /\ MonitorFits /\ filter \in Filters /\ chosen \subseteq Owners
      /\ slips \subseteq Panes \cup {"act"}
      /\ at \in [open : BOOLEAN, item : Owners \cup {Off}, asset : Owners \cup {Off}]
  BY DEF ConsoleInv, ConsoleTyped
<1>5. /\ UNCHANGED <<console, refreshing, history, due, filter, list, dialog, provenance,
                     chosen, pending>>
      /\ console = "assets" /\ at' = [at EXCEPT !.asset = dialog.of]
      /\ at.item # Off /\ dialog # Blank /\ slips' = slips \ {"provenance"}
  BY DEF onSelectAssetProvenance, pageVars
<1>6. dialog.of \in Owners BY <1>4, <1>5 DEF ConsoleTyped, Dialogs
<1>7. /\ at.open /\ at'.open /\ at'.item = at.item /\ at'.asset = dialog.of
      /\ at' \in [open : BOOLEAN, item : Owners \cup {Off}, asset : Owners \cup {Off}]
  BY <1>4, <1>5, <1>6 DEF MonitorFits, Nowhere
<1>8. PICK w : w = Reading("provenance", at') OBVIOUS
<1>9. PICK l : l = KeysOf(filter', at') OBVIOUS
<1>10. /\ l["list"] = KeysOf(filter, at)["list"] /\ l["dialog"] = KeysOf(filter, at)["dialog"]
       /\ ~Absent(l, "provenance")
  BY <1>5, <1>6, <1>7, <1>9, OwnersAreNot DEF KeysOf, Absent
<1>11. IsAsked(Len(history), l, w) /\ w.kind = "provenance"
  BY <1>2, <1>4, <1>5, <1>7, <1>8, <1>9, <1>10, LoadSent DEF Reading
<1>12. sent' = Append(s, w) BY <1>1, <1>8 DEF onSelectAssetProvenance
<1>13. /\ TasksRun(sent', refreshing) /\ Range(sent') = Range(s) \cup {w}
       /\ NoneOf(sent', "act") <=> NoneOf(s, "act")
       /\ AtMostOne(s, "act") => AtMostOne(sent', "act")
  BY <1>3, <1>11, <1>12, PaneLoadBegins DEF IsAsked
<1>14. /\ \A c \in Range(sent) : c.kind \in Panes \/ c \in Range(sent')
       /\ \A c \in Range(sent) : c.kind # "provenance" => c \in Range(sent')
  BY <1>2, <1>3, <1>13
<1>15. \A c \in Range(sent') :
          \/ c \in Range(sent) /\ (c.kind \in Panes => l[c.kind] = KeysOf(filter, at)[c.kind])
          \/ IsAsked(Len(history), l, c)
  BY <1>3, <1>10, <1>11, <1>13 DEF Panes
<1>16. \A part \in Panes : PartsShown'[part] = PartsShown[part] BY <1>5, ShownParts DEF Panes
<1>17. \A part \in Panes :
          \/ ~Absent(l, part) /\ \E c \in Range(sent') : c.kind = part /\ c.since = Len(history)
          \/ /\ at.open /\ l[part] = KeysOf(filter, at)[part]
             /\ PartsShown'[part] = PartsShown[part] /\ (part \in slips => part \in slips')
             /\ \A c \in Range(sent) : c.kind = part => c \in Range(sent')
  <2>1. w \in Range(sent') /\ w.kind = "provenance" /\ w.since = Len(history)
    BY <1>11, <1>13 DEF IsAsked
  <2> QED BY <1>5, <1>7, <1>10, <1>14, <1>16, <2>1 DEF Panes
<1>18. slips' \subseteq slips \cup {"act"} /\ ("act" \in slips => "act" \in slips') BY <1>5
<1>19. console # "workflow" BY <1>5
<1> QED BY <1>3, <1>4, <1>5, <1>7, <1>9, <1>13, <1>14, <1>15, <1>16, <1>17, <1>18, <1>19, OperatorMoveKeeps

(* The operator closes the dialog of the asset.                            *)
LEMMA CloseAssetKeeps ==
    ASSUME ConsoleInv, onCloseAssetProvenance
    PROVE  ConsoleInv'
<1>1. PICK s : s = Cancel(sent, "provenance") OBVIOUS
<1>2. TasksRun(sent, refreshing) /\ "provenance" \in Panes BY DEF ConsoleInv, Panes
<1>3. /\ TasksRun(s, refreshing)
      /\ Range(s) = {c \in Range(sent) : c.kind # "provenance"}
      /\ NoneOf(s, "act") <=> NoneOf(sent, "act")
      /\ AtMostOne(sent, "act") => AtMostOne(s, "act")
  BY <1>1, <1>2, CancelRuns
<1>4. ConsoleTyped /\ MonitorFits /\ filter \in Filters /\ chosen \subseteq Owners
      /\ at \in [open : BOOLEAN, item : Owners \cup {Off}, asset : Owners \cup {Off}]
  BY DEF ConsoleInv, ConsoleTyped
<1>5. /\ UNCHANGED <<console, refreshing, history, due, filter, list, dialog, chosen, pending>>
      /\ at' = [at EXCEPT !.asset = Off] /\ provenance' = Blank /\ sent' = s
      /\ at.asset # Off /\ slips' = slips \ {"provenance"}
  BY <1>1 DEF onCloseAssetProvenance
<1>6. /\ at.open /\ at'.open /\ at'.item = at.item /\ at'.asset = Off
      /\ at' \in [open : BOOLEAN, item : Owners \cup {Off}, asset : Owners \cup {Off}]
  BY <1>4, <1>5 DEF MonitorFits, Nowhere
<1>7. PICK l : l = KeysOf(filter', at') OBVIOUS
<1>8. /\ l["list"] = KeysOf(filter, at)["list"] /\ l["dialog"] = KeysOf(filter, at)["dialog"]
      /\ Absent(l, "provenance")
  BY <1>5, <1>6, <1>7 DEF KeysOf, Absent
<1>9. /\ \A c \in Range(sent) : c.kind \in Panes \/ c \in Range(sent')
      /\ \A c \in Range(sent) : c.kind # "provenance" => c \in Range(sent')
  BY <1>2, <1>3, <1>5
<1>10. \A c \in Range(sent') :
          c \in Range(sent) /\ (c.kind \in Panes => l[c.kind] = KeysOf(filter, at)[c.kind])
  BY <1>3, <1>5, <1>8 DEF Panes
<1>11. /\ PartsShown'["list"] = PartsShown["list"] /\ PartsShown'["dialog"] = PartsShown["dialog"]
       /\ PartsShown'["provenance"] = Blank
  BY <1>5, ShownParts
<1>12. \A part \in Panes : PartsShown'[part] = PartsShown[part] \/ PartsShown'[part] = Blank
  BY <1>11 DEF Panes
<1>13. \A part \in Panes :
          \/ Absent(l, part) /\ PartsShown'[part] = Blank
          \/ /\ at.open /\ l[part] = KeysOf(filter, at)[part]
             /\ PartsShown'[part] = PartsShown[part] /\ (part \in slips => part \in slips')
             /\ \A c \in Range(sent) : c.kind = part => c \in Range(sent')
  BY <1>5, <1>6, <1>8, <1>9, <1>11 DEF Panes
<1>14. slips' \subseteq slips \cup {"act"} /\ ("act" \in slips => "act" \in slips') BY <1>5
<1> QED BY <1>3, <1>4, <1>5, <1>6, <1>7, <1>9, <1>10, <1>12, <1>13, <1>14, OperatorMoveKeeps

(* The operator chooses a filter.                                          *)
LEMMA FilterKeeps ==
    ASSUME ConsoleInv, NEW f \in Filters, ChooseFilter(f)
    PROVE  ConsoleInv'
<1>1. PICK s : s = Cancel(sent, "list") OBVIOUS
<1>2. TasksRun(sent, refreshing) /\ "list" \in Panes BY DEF ConsoleInv, Panes
<1>3. /\ TasksRun(s, refreshing) /\ NoneOf(s, "list")
      /\ Range(s) = {c \in Range(sent) : c.kind # "list"}
      /\ NoneOf(s, "act") <=> NoneOf(sent, "act")
      /\ AtMostOne(sent, "act") => AtMostOne(s, "act")
  BY <1>1, <1>2, CancelRuns
<1>4. ConsoleTyped /\ MonitorFits /\ chosen \subseteq Owners
      /\ at \in [open : BOOLEAN, item : Owners \cup {Off}, asset : Owners \cup {Off}]
  BY DEF ConsoleInv, ConsoleTyped
<1>5. /\ UNCHANGED <<console, refreshing, history, due, at, list, dialog, provenance,
                     chosen, pending>>
      /\ at.open /\ filter' = f /\ slips' = slips \ {"list"}
  BY DEF ChooseFilter, pageVars
<1>6. PICK w : w = Sent("list", f, at, <<"list">>) OBVIOUS
<1>7. PICK l : l = KeysOf(filter', at') OBVIOUS
<1>8. /\ l["dialog"] = KeysOf(filter, at)["dialog"]
      /\ l["provenance"] = KeysOf(filter, at)["provenance"]
      /\ ~Absent(l, "list") /\ l = KeysOf(f, at)
  BY <1>5, <1>7 DEF KeysOf, Absent
<1>9. IsAsked(Len(history), l, w) /\ w.kind = "list"
  BY <1>2, <1>4, <1>6, <1>8, LoadSent
<1>10. sent' = Append(s, w) BY <1>1, <1>6 DEF ChooseFilter
<1>11. /\ TasksRun(sent', refreshing) /\ Range(sent') = Range(s) \cup {w}
       /\ NoneOf(sent', "act") <=> NoneOf(s, "act")
       /\ AtMostOne(s, "act") => AtMostOne(sent', "act")
  BY <1>3, <1>9, <1>10, PaneLoadBegins DEF IsAsked
<1>12. /\ \A c \in Range(sent) : c.kind \in Panes \/ c \in Range(sent')
       /\ \A c \in Range(sent) : c.kind # "list" => c \in Range(sent')
  BY <1>2, <1>3, <1>11
<1>13. \A c \in Range(sent') :
          \/ c \in Range(sent) /\ (c.kind \in Panes => l[c.kind] = KeysOf(filter, at)[c.kind])
          \/ IsAsked(Len(history), l, c)
  BY <1>3, <1>8, <1>9, <1>11 DEF Panes
<1>14. \A part \in Panes : PartsShown'[part] = PartsShown[part] BY <1>5, ShownParts DEF Panes
<1>15. \A part \in Panes :
          \/ ~Absent(l, part) /\ \E c \in Range(sent') : c.kind = part /\ c.since = Len(history)
          \/ /\ at.open /\ l[part] = KeysOf(filter, at)[part]
             /\ PartsShown'[part] = PartsShown[part] /\ (part \in slips => part \in slips')
             /\ \A c \in Range(sent) : c.kind = part => c \in Range(sent')
  <2>1. w \in Range(sent') /\ w.kind = "list" /\ w.since = Len(history)
    BY <1>9, <1>11 DEF IsAsked
  <2> QED BY <1>5, <1>8, <1>12, <1>14, <2>1 DEF Panes
<1>16. slips' \subseteq slips \cup {"act"} /\ ("act" \in slips => "act" \in slips') BY <1>5
<1>17. console = "workflow" => provenance' = Blank /\ at'.asset = Off
  BY <1>4, <1>5 DEF MonitorFits
<1>18. filter' \in Filters /\ chosen' \subseteq Owners /\ at'.open
       /\ at' \in [open : BOOLEAN, item : Owners \cup {Off}, asset : Owners \cup {Off}]
  BY <1>4, <1>5
<1> QED BY <1>3, <1>5, <1>7, <1>11, <1>12, <1>13, <1>14, <1>15, <1>16, <1>17, <1>18, OperatorMoveKeeps

(* The operator opens the page.                                            *)
LEMMA OpenPageKeeps ==
    ASSUME ConsoleInv, NEW item \in Owners \cup {Off}, OpenPage(item)
    PROVE  ConsoleInv'
<1>1. TasksRun(sent, refreshing) /\ ConsoleTyped /\ filter \in Filters /\ chosen \subseteq Owners
  BY DEF ConsoleInv, ConsoleTyped
<1>2. ~at.open BY DEF OpenPage
<1>3. \A c \in Range(sent) : c.kind \notin Panes BY <1>2 DEF ConsoleInv, MonitorTaskFits
<1>4. \A part \in Panes : NoneOf(sent, part) BY <1>1, <1>3, NoneOfTasks DEF TasksRun
<1>5. PICK a : a = [open |-> TRUE, item |-> item, asset |-> Off] OBVIOUS
<1>6. /\ a \in [open : BOOLEAN, item : Owners \cup {Off}, asset : Owners \cup {Off}]
      /\ a.open /\ a.item = item /\ a.asset = Off
  BY <1>5
<1>7. /\ UNCHANGED <<console, refreshing, history, due, filter, list, chosen, pending>>
      /\ at' = a /\ provenance' = Blank /\ slips' = slips \cap {"act"}
      /\ dialog' = IF item = Off THEN Blank ELSE dialog
  BY <1>5 DEF OpenPage
<1>8. PICK l : l = KeysOf(filter', at') OBVIOUS
<1>9. /\ l = KeysOf(filter, a) /\ ~Absent(l, "list") /\ Absent(l, "provenance")
      /\ Absent(l, "dialog") <=> item = Off
  BY <1>6, <1>7, <1>8 DEF KeysOf, Absent
<1>10. PICK w : w = Reading("list", a) OBVIOUS
<1>11. IsAsked(Len(history), l, w) /\ w.kind = "list"
  BY <1>1, <1>6, <1>9, <1>10, LoadSent DEF Reading, Panes
<1>12. PICK s : s = Append(sent, w) OBVIOUS
<1>13. /\ TasksRun(s, refreshing) /\ Range(s) = Range(sent) \cup {w}
       /\ \A k : k # "list" => (NoneOf(s, k) <=> NoneOf(sent, k))
       /\ \A k : k # "list" => (AtMostOne(sent, k) => AtMostOne(s, k))
  <2>1. w \in MonitorTasks /\ w.kind \in Panes /\ NoneOf(sent, w.kind) BY <1>4, <1>11 DEF IsAsked
  <2> QED BY <1>1, <1>11, <1>12, <2>1, PaneLoadBegins
<1>14. ASSUME NEW d, d = Reading("dialog", a), item # Off
       PROVE  /\ IsAsked(Len(history), l, d) /\ d.kind = "dialog"
              /\ TasksRun(Append(s, d), refreshing)
              /\ Range(Append(s, d)) = Range(s) \cup {d}
              /\ NoneOf(Append(s, d), "act") <=> NoneOf(s, "act")
              /\ AtMostOne(s, "act") => AtMostOne(Append(s, d), "act")
  <2>1. "dialog" \in Panes BY DEF Panes
  <2>2. IsAsked(Len(history), l, d) /\ d.kind = "dialog"
    BY <1>1, <1>6, <1>9, <1>14, <2>1, LoadSent DEF Reading
  <2>3. d \in MonitorTasks /\ d.kind \in Panes /\ NoneOf(s, d.kind)
    BY <1>4, <1>13, <2>1, <2>2 DEF IsAsked
  <2> QED BY <1>13, <2>2, <2>3, PaneLoadBegins
<1>15. PICK d : d = Reading("dialog", a) OBVIOUS
<1>16. sent' = IF item = Off THEN s ELSE Append(s, d)
  BY <1>5, <1>10, <1>12, <1>15 DEF OpenPage
<1>17. /\ TasksRun(sent', refreshing)
       /\ Range(sent') = Range(sent) \cup {w} \cup (IF item = Off THEN {} ELSE {d})
       /\ NoneOf(sent', "act") <=> NoneOf(sent, "act")
       /\ AtMostOne(sent, "act") => AtMostOne(sent', "act")
  <2>1. CASE item = Off BY <1>13, <1>16, <2>1
  <2>2. CASE item # Off BY <1>13, <1>14, <1>15, <1>16, <2>2
  <2> QED BY <2>1, <2>2
<1>18. \A c \in Range(sent) : c \in Range(sent') BY <1>17
<1>19. \A c \in Range(sent') :
          \/ c \in Range(sent) /\ (c.kind \in Panes => l[c.kind] = KeysOf(filter, at)[c.kind])
          \/ IsAsked(Len(history), l, c)
  BY <1>3, <1>11, <1>14, <1>15, <1>17
<1>20. \A part \in Panes : PartsShown'[part] = PartsShown[part] \/ PartsShown'[part] = Blank
  BY <1>7, ShownParts DEF Panes
<1>21. \A part \in Panes :
          \/ Absent(l, part) /\ PartsShown'[part] = Blank
          \/ ~Absent(l, part) /\ \E c \in Range(sent') : c.kind = part /\ c.since = Len(history)
  <2>1. w \in Range(sent') /\ w.kind = "list" /\ w.since = Len(history)
    BY <1>11, <1>17 DEF IsAsked
  <2>2. item # Off => d \in Range(sent') /\ d.kind = "dialog" /\ d.since = Len(history)
    BY <1>14, <1>15, <1>17 DEF IsAsked
  <2> QED BY <1>7, <1>9, <2>1, <2>2, ShownParts DEF Panes
<1>22. slips' \subseteq slips \cup {"act"} /\ ("act" \in slips => "act" \in slips') BY <1>7
<1>23. /\ filter' \in Filters /\ chosen' \subseteq Owners /\ at'.open
       /\ at' \in [open : BOOLEAN, item : Owners \cup {Off}, asset : Owners \cup {Off}]
       /\ provenance' = Blank /\ at'.asset = Off
  BY <1>1, <1>6, <1>7
<1> QED BY <1>7, <1>8, <1>17, <1>18, <1>19, <1>20, <1>21, <1>22, <1>23, OperatorMoveKeeps

(* All loads are cancelled.                                                *)
LEMMA LoadsGone ==
    ASSUME ConsoleInv
    PROVE  LET s == LoadsCancelled IN
           /\ TasksRun(s, refreshing) /\ \A c \in Range(s) : c.kind \notin Panes
           /\ Range(s) \subseteq Range(sent)
           /\ NoneOf(s, "act") <=> NoneOf(sent, "act")
           /\ AtMostOne(sent, "act") => AtMostOne(s, "act")
<1>1. PICK r : r = DialogsCancelled OBVIOUS
<1>2. /\ TasksRun(r, refreshing)
      /\ Range(r) = {c \in Range(sent) : c.kind \notin {"dialog", "provenance"}}
      /\ NoneOf(r, "act") <=> NoneOf(sent, "act")
      /\ AtMostOne(sent, "act") => AtMostOne(r, "act")
  BY <1>1, DialogsGone
<1>3. PICK s : s = Cancel(r, "list") OBVIOUS
<1>4. /\ TasksRun(s, refreshing) /\ Range(s) = {c \in Range(r) : c.kind # "list"}
      /\ NoneOf(s, "act") <=> NoneOf(r, "act")
      /\ AtMostOne(r, "act") => AtMostOne(s, "act")
  BY <1>2, <1>3, CancelRuns DEF Panes
<1> QED BY <1>1, <1>2, <1>3, <1>4 DEF LoadsCancelled, Panes

(* A function that is left behind goes on as it is.                        *)
LEMMA LeftBehind ==
    ASSUME NEW c \in MonitorTasks
    PROVE  LET d == [c EXCEPT !.left = TRUE] IN
           /\ d \in MonitorTasks /\ d.left = TRUE /\ d.kind = c.kind /\ d.todo = c.todo
           /\ d.since = c.since /\ d.target = c.target /\ d.items = c.items
           /\ d.item = c.item /\ d.asset = c.asset
           /\ d \in Refreshing <=> c \in Refreshing
<1>1. PICK d : d = [c EXCEPT !.left = TRUE] OBVIOUS
<1>2. /\ d \in MonitorTasks /\ d.left = TRUE /\ d.kind = c.kind /\ d.todo = c.todo
      /\ d.since = c.since /\ d.target = c.target /\ d.items = c.items
      /\ d.item = c.item /\ d.asset = c.asset
  BY <1>1 DEF MonitorTasks
<1>3. d \in Refreshing <=> c \in Refreshing BY <1>2 DEF Refreshing, Refreshes
<1> QED BY <1>1, <1>2, <1>3

(* The operator leaves the page.                                           *)
LEMMA LeaveMonitorKeeps ==
    ASSUME ConsoleInv, LeavePage
    PROVE  ConsoleInv'
<1>1. PICK s : s = LoadsCancelled OBVIOUS
<1>2. /\ TasksRun(s, refreshing) /\ \A c \in Range(s) : c.kind \notin Panes
      /\ Range(s) \subseteq Range(sent)
      /\ NoneOf(s, "act") <=> NoneOf(sent, "act")
      /\ AtMostOne(sent, "act") => AtMostOne(s, "act")
  BY <1>1, LoadsGone
<1>3. s \in Seq(MonitorTasks) /\ AtMostOneOf(s, Refreshing) /\ \A part \in Panes : AtMostOne(s, part)
  BY <1>2 DEF TasksRun
<1>4. PICK t : t = [i \in DOMAIN s |-> [s[i] EXCEPT !.left = TRUE]] OBVIOUS
<1>5. /\ UNCHANGED <<console, refreshing, history, due, filter>>
      /\ at' = Nowhere /\ list' = Blank /\ dialog' = Blank /\ provenance' = Blank
      /\ chosen' = {} /\ sent' = t
  BY <1>1, <1>4 DEF LeavePage
<1>6. ASSUME NEW i \in DOMAIN s
      PROVE  /\ t[i] \in MonitorTasks /\ t[i].left = TRUE /\ t[i].kind = s[i].kind /\ t[i].todo = s[i].todo
             /\ t[i].since = s[i].since /\ t[i].target = s[i].target /\ t[i].items = s[i].items
             /\ t[i].item = s[i].item /\ t[i].asset = s[i].asset
             /\ t[i] \in Refreshing <=> s[i] \in Refreshing
  <2>1. s[i] \in MonitorTasks BY <1>3, MonitorTaskAt
  <2> QED BY <1>4, <2>1, LeftBehind
<1>7. t \in Seq(MonitorTasks) /\ DOMAIN t = DOMAIN s
  <2>1. Len(s) \in Nat /\ DOMAIN s = 1..Len(s) BY <1>3, LenProperties
  <2>2. t = [i \in 1..Len(s) |-> [s[i] EXCEPT !.left = TRUE]] BY <1>4, <2>1
  <2>3. \A i \in 1..Len(s) : [s[i] EXCEPT !.left = TRUE] \in MonitorTasks BY <1>4, <1>6, <2>1
  <2> QED BY <1>4, <2>1, <2>2, <2>3, IsASeq
<1>8. TasksRun(t, refreshing)
  <2>1. ASSUME NEW part \in Panes PROVE AtMostOne(t, part)
    <3>1. AtMostOne(s, part) BY <1>3
    <3>2. \A i \in DOMAIN t : t[i].kind = s[i].kind BY <1>6, <1>7
    <3> QED BY <1>7, <3>1, <3>2 DEF AtMostOne
  <2>2. AtMostOneOf(t, Refreshing) BY <1>3, <1>6, <1>7 DEF AtMostOneOf
  <2>3. Range(t) \cap Refreshing = {} <=> Range(s) \cap Refreshing = {}
    <3>1. Range(t) \cap Refreshing = {} <=> \A i \in DOMAIN t : t[i] \notin Refreshing
      BY DEF Range
    <3>2. Range(s) \cap Refreshing = {} <=> \A i \in DOMAIN s : s[i] \notin Refreshing
      BY DEF Range
    <3>3. \A i \in DOMAIN s : t[i] \in Refreshing <=> s[i] \in Refreshing BY <1>6
    <3> QED BY <1>7, <3>1, <3>2, <3>3
  <2> QED BY <1>2, <1>7, <2>1, <2>2, <2>3 DEF TasksRun
<1>9. /\ NoneOf(t, "act") <=> NoneOf(sent, "act")
      /\ AtMostOne(sent, "act") => AtMostOne(t, "act")
  <2>1. NoneOf(t, "act") <=> NoneOf(s, "act") BY <1>6, <1>7 DEF NoneOf
  <2>2. AtMostOne(s, "act") => AtMostOne(t, "act") BY <1>6, <1>7 DEF AtMostOne
  <2> QED BY <1>2, <2>1, <2>2
<1>10. ASSUME NEW c \in Range(t) PROVE MonitorTaskFits(console, Len(history), filter, Nowhere, c)
  <2>1. PICK i \in DOMAIN s : c = t[i] BY <1>7 DEF Range
  <2>2. s[i] \in Range(sent) /\ s[i].kind \notin Panes BY <1>2 DEF Range
  <2>3. MonitorTaskFits(console, Len(history), filter, at, s[i]) BY <2>2 DEF ConsoleInv
  <2>4. /\ c.left = TRUE /\ c.kind = s[i].kind /\ c.todo = s[i].todo
        /\ c.since = s[i].since /\ c.target = s[i].target /\ c.items = s[i].items
        /\ c.item = s[i].item /\ c.asset = s[i].asset
        /\ c \in Refreshing <=> s[i] \in Refreshing
    BY <1>6, <2>1
  <2> QED BY <2>2, <2>3, <2>4 DEF MonitorTaskFits, PartsOf
<1>11. /\ \/ pending' = pending /\ ("act" \in slips => "act" \in slips')
          \/ pending' = FALSE /\ (NoneOf(sent, "act") \/ "act" \in slips')
       /\ slips' \subseteq {"act"}
  BY ActionsAre DEF LeavePage, Reset
<1>12. PendingFits'
  <2>1. PendingFits BY DEF ConsoleInv
  <2>2. AtMostOne(t, "act") \/ ~NoneOf(t, "act") BY DEF NoneOf, AtMostOne
  <2> QED BY <1>5, <1>9, <1>11, <2>1, <2>2 DEF PendingFits
<1>13. ConsoleTyped'
  <2>1. /\ console \in Consoles /\ refreshing \in {"idle", "running", "again"}
        /\ history \in Seq(ServerChanges) /\ Len(history) <= MaxHistory
        /\ due \in 0..Len(history) /\ filter \in Filters /\ pending \in BOOLEAN
    BY DEF ConsoleInv, ConsoleTyped
  <2>2. Nowhere \in [open : BOOLEAN, item : Owners \cup {Off}, asset : Owners \cup {Off}]
    BY DEF Nowhere
  <2>3. \A part \in Panes : PartsShown'[part] = Blank BY <1>5, ShownParts DEF Panes
  <2>4. pending' \in BOOLEAN BY <1>11, <2>1
  <2> QED BY <1>5, <1>11, <2>1, <2>2, <2>3, <2>4 DEF ConsoleTyped
<1>14. MonitorFits' /\ ~at'.open BY <1>5 DEF MonitorFits, Nowhere
<1>15. \A k \in DOMAIN history : history[k].items \subseteq {history[k].item}
  BY DEF ConsoleInv
<1> QED BY <1>5, <1>8, <1>10, <1>12, <1>13, <1>14, <1>15 DEF ConsoleInv

-----------------------------------------------------------------------------
(* The other steps leave the route and the filter alone.                   *)
LEMMA StepKeeps ==
    ASSUME ConsoleInv, UNCHANGED <<console, at, filter>>,
           TasksRun(sent', refreshing'),
           \A c \in Range(sent') : MonitorTaskFits(console, Len(history'), filter, at, c),
           history' \in Seq(ServerChanges), Len(history') <= MaxHistory, due' \in 0..Len(history'),
           \A k \in DOMAIN history' : history'[k].items \subseteq {history'[k].item},
           PendingFits', chosen' \subseteq Owners, pending' \in BOOLEAN,
           refreshing' \in {"idle", "running", "again"}, slips' \subseteq Panes \cup {"act"},
           \A part \in Panes : \/ PartsShown'[part] = Blank \/ PartsShown'[part] = PartsShown[part]
                               \/ /\ PartsShown'[part] \in ShownOf(part)
                                  /\ PartsShown'[part].version <= MaxHistory,
           console = "workflow" => provenance' = Blank,
           at.open => \A part \in Panes : KeptUp(part)'
    PROVE  ConsoleInv'
<1>1. ConsoleTyped /\ MonitorFits BY DEF ConsoleInv
<1>2. \A part \in Panes : PartsShown'[part] = Blank \/ PartsShown'[part].version <= MaxHistory
  BY <1>1 DEF ConsoleTyped
<1>3. /\ list' \in Lists \cup {Blank} /\ dialog' \in Dialogs \cup {Blank}
      /\ provenance' \in Provenances \cup {Blank}
  BY <1>1, ShownParts DEF ConsoleTyped, ShownOf, Panes
<1>4. ConsoleTyped'
  <2>1. /\ console \in Consoles /\ filter \in Filters
        /\ at \in [open : BOOLEAN, item : Owners \cup {Off}, asset : Owners \cup {Off}]
    BY <1>1 DEF ConsoleTyped
  <2> QED BY <1>2, <1>3, <2>1 DEF ConsoleTyped, ServerChanges
<1>5. MonitorFits' BY <1>1 DEF MonitorFits
<1> QED BY <1>4, <1>5 DEF ConsoleInv

(* The flag is right as long as it and the actions stay.                   *)
LEMMA ActionStays ==
    ASSUME PendingFits, pending' = pending, "act" \in slips => "act" \in slips',
           NoneOf(sent', "act") <=> NoneOf(sent, "act"),
           AtMostOne(sent, "act") => AtMostOne(sent', "act")
    PROVE  PendingFits'
BY DEF PendingFits

(* What the invariant says of types, in words that are used often.         *)
LEMMA HistoryIs ==
    ASSUME ConsoleInv
    PROVE  /\ history \in Seq(ServerChanges) /\ Len(history) \in Nat /\ Len(history) <= MaxHistory
           /\ DOMAIN history = 1..Len(history) /\ MaxHistory \in Nat
           /\ \A k \in DOMAIN history : history[k].items \subseteq {history[k].item}
           /\ \A k \in DOMAIN history : "dialog" \in history[k].parts
           /\ due \in 0..Len(history) /\ console \in Consoles
           /\ chosen \subseteq Owners /\ pending \in BOOLEAN
           /\ refreshing \in {"idle", "running", "again"} /\ slips \subseteq Panes \cup {"act"}
           /\ sent \in Seq(MonitorTasks) /\ Range(sent) \subseteq MonitorTasks
           /\ \A i \in DOMAIN sent : sent[i] \in MonitorTasks /\ sent[i] \in Range(sent)
<1>1. history \in Seq(ServerChanges) BY DEF ConsoleInv, ConsoleTyped, ServerChanges
<1>2. sent \in Seq(MonitorTasks) BY DEF ConsoleInv, TasksRun
<1>3. Range(sent) \subseteq MonitorTasks /\ \A i \in DOMAIN sent : sent[i] \in MonitorTasks /\ sent[i] \in Range(sent)
  BY <1>2, TasksAre, MonitorTaskAt
<1>4. \A k \in DOMAIN history : "dialog" \in history[k].parts
  <2>1. \A w \in ServerChanges : "dialog" \in w.parts BY DEF ServerChanges, Panes
  <2>2. DOMAIN history = 1..Len(history) BY <1>1, LenProperties
  <2> QED BY <1>1, <2>1, <2>2, ElementOfSeq
<1> QED BY <1>1, <1>2, <1>3, <1>4, LenProperties, ConsoleBounds DEF ConsoleInv, ConsoleTyped

(* The operator ticks an import item.                                      *)
LEMMA TickItemKeeps ==
    ASSUME ConsoleInv, onToggleImportBatchItemSelection
    PROVE  ConsoleInv'
<1>1. /\ UNCHANGED <<console, at, filter, list, dialog, provenance, pending, refreshing, sent,
                     history, due, slips>>
      /\ dialog # Blank
      /\ chosen' \in {chosen \ {dialog.of}, chosen \cup {dialog.of}}
  BY DEF onToggleImportBatchItemSelection, pageVars, BatchShown
<1>2. dialog.of \in Owners BY <1>1 DEF ConsoleInv, ConsoleTyped, Dialogs
<1>3. chosen' \subseteq Owners BY <1>1, <1>2, HistoryIs
<1>4. \A part \in Panes : PartsShown'[part] = PartsShown[part] BY <1>1, ShownParts DEF Panes
<1>5. PendingFits' BY <1>1 DEF ConsoleInv, PendingFits
<1>6. at.open => \A part \in Panes : KeptUp(part)'
  <2>1. ASSUME at.open, NEW part \in Panes PROVE KeptUp(part)'
    <3>1. KeptUp(part) BY <2>1 DEF ConsoleInv
    <3> QED BY <1>1, <1>4, <3>1, StillKept
  <2> QED BY <2>1
<1>7. /\ TasksRun(sent, refreshing) /\ MonitorFits
      /\ \A c \in Range(sent) : MonitorTaskFits(console, Len(history), filter, at, c)
  BY DEF ConsoleInv
<1>8. console = "workflow" => provenance' = Blank BY <1>1, <1>7 DEF MonitorFits
<1> QED BY <1>1, <1>3, <1>4, <1>5, <1>6, <1>7, <1>8, HistoryIs, StepKeeps

(* The operator acts on what the dialog shows.                             *)
LEMMA ActKeeps ==
    ASSUME ConsoleInv, NEW items \in SUBSET Owners, dialog # Blank, items \subseteq {dialog.of},
           NEW command \in MonitorCommands, RunAction(command, dialog.of, items)
    PROVE  ConsoleInv'
<1>1. /\ UNCHANGED <<console, at, filter, list, dialog, provenance, chosen, refreshing,
                     history, due, slips>>
      /\ at.open /\ pending = FALSE /\ pending' = TRUE
  <2>1. pending \in BOOLEAN BY HistoryIs
  <2> QED BY <2>1 DEF RunAction, pageVars
<1>2. PICK w : w = [Sent("act", filter, at, command) EXCEPT !.target = dialog.of,
                                                           !.items = items]
  OBVIOUS
<1>3. sent' = Append(sent, w) BY <1>2 DEF RunAction
<1>4. dialog.of \in Owners BY DEF ConsoleInv, ConsoleTyped, Dialogs
<1>5. /\ w \in MonitorTasks /\ w.kind = "act" /\ w.todo = command /\ w.since = Len(history)
      /\ w.target = dialog.of /\ w.items = items
  <2>1. /\ filter \in Filters
        /\ at \in [open : BOOLEAN, item : Owners \cup {Off}, asset : Owners \cup {Off}]
    BY DEF ConsoleInv, ConsoleTyped
  <2> QED BY <1>2, <1>4, <2>1, HistoryIs, WordsAre DEF Sent, MonitorTasks
<1>6. w \notin Refreshing /\ w.todo \in ActCommands BY <1>5, LoadsRefreshNothing, WordsAre
<1>7. /\ TasksRun(sent, refreshing) /\ MonitorFits /\ PendingFits
      /\ \A c \in Range(sent) : MonitorTaskFits(console, Len(history), filter, at, c)
  BY DEF ConsoleInv
<1>8. /\ sent' \in Seq(MonitorTasks) /\ Range(sent') = Range(sent) \cup {w}
      /\ \A k : NoneOf(sent', k) <=> NoneOf(sent, k) /\ w.kind # k
      /\ \A k : AtMostOne(sent, k) /\ (w.kind # k \/ NoneOf(sent, k)) => AtMostOne(sent', k)
  BY <1>3, <1>5, HistoryIs, TaskBegins
<1>9. TasksRun(sent', refreshing)
  <2>1. AtMostOneOf(sent', Refreshing) BY <1>3, <1>5, <1>6, <1>7, HistoryIs, BegunStill DEF TasksRun
  <2>2. \A part \in Panes : AtMostOne(sent', part) BY <1>5, <1>7, <1>8, PanesAre DEF TasksRun
  <2>3. Range(sent') \cap Refreshing = Range(sent) \cap Refreshing BY <1>6, <1>8
  <2> QED BY <1>7, <1>8, <2>1, <2>2, <2>3 DEF TasksRun
<1>10. MonitorTaskFits(console, Len(history), filter, at, w)
  BY <1>1, <1>4, <1>5, <1>6, HistoryIs, PanesAre DEF MonitorTaskFits
<1>11. PendingFits'
  <2>1. "act" \notin slips => NoneOf(sent, "act") BY <1>1, <1>7 DEF PendingFits
  <2>2. NoneOf(sent, "act") => AtMostOne(sent, "act") BY DEF NoneOf, AtMostOne
  <2> QED BY <1>1, <1>5, <1>8, <2>1, <2>2 DEF PendingFits
<1>12. \A part \in Panes : PartsShown'[part] = PartsShown[part] BY <1>1, ShownParts DEF Panes
<1>13. \A part \in Panes : KeptUp(part)'
  <2>1. ASSUME NEW part \in Panes PROVE KeptUp(part)'
    <3>1. KeptUp(part) BY <1>1 DEF ConsoleInv
    <3> QED BY <1>1, <1>8, <1>12, <3>1, StillKept
  <2> QED BY <2>1
<1>14. console = "workflow" => provenance' = Blank BY <1>1, <1>7 DEF MonitorFits
<1> QED BY <1>1, <1>7, <1>8, <1>9, <1>10, <1>11, <1>12, <1>13, <1>14, HistoryIs, StepKeeps

(* The server.                                                             *)
LEMMA KeptByEvent ==
    ASSUME NEW part \in Panes, KeptUp(part), UNCHANGED <<at, filter>>, slips \subseteq slips',
           PartsShown'[part] = PartsShown[part], due' > 0
    PROVE  KeptUp(part)'
<1>1. PICK k : k = KeysOf(filter, at) OBVIOUS
<1>2. CASE part \in slips BY <1>2 DEF KeptUp
<1>3. CASE ~Absent(k, part) BY <1>1, <1>3 DEF KeptUp
<1>4. CASE Absent(k, part) /\ part \notin slips
  <2>1. PartsShown[part] = Blank BY <1>1, <1>4 DEF KeptUp, IsKept
  <2>2. IsKept(history', k, refreshing' = "again", sent', part, PartsShown'[part])
    BY <1>4, <2>1 DEF IsKept
  <2> QED BY <1>1, <2>2 DEF KeptUp
<1> QED BY <1>2, <1>3, <1>4

(* A change of the server is a change of one item, heard of or not.        *)
LEMMA ChangeIs ==
    ASSUME ConsoleInv, NEW item \in Owners, NEW items \in SUBSET Owners, items \subseteq {item},
           NEW parts \in {Panes, {"dialog"}}, NEW heard, Change(item, items, parts, heard)
    PROVE  /\ history' \in Seq(ServerChanges) /\ Len(history') = Len(history) + 1
           /\ Len(history') <= MaxHistory /\ due' \in 0..Len(history')
           /\ (heard => due' > 0) /\ (~heard => due' = due)
           /\ \A k \in DOMAIN history' : history'[k].items \subseteq {history'[k].item}
<1>1. PICK w : w = [item |-> item, items |-> items, parts |-> parts] OBVIOUS
<1>2. w \in ServerChanges /\ w.items \subseteq {w.item} BY <1>1 DEF ServerChanges
<1>3. /\ history' = Append(history, w) /\ Len(history) < MaxHistory
      /\ due' = IF heard THEN due + 1 ELSE due
  BY <1>1 DEF Change
<1>4. /\ history' \in Seq(ServerChanges) /\ Len(history') = Len(history) + 1
      /\ \A j \in DOMAIN history' : \/ j = Len(history) + 1 /\ history'[j] = w
                                    \/ j \in DOMAIN history /\ history'[j] = history[j]
  BY <1>2, <1>3, HistoryIs, OneBegins
<1>5. \A k \in DOMAIN history' : history'[k].items \subseteq {history'[k].item}
  BY <1>2, <1>4, HistoryIs
<1> QED BY <1>3, <1>4, <1>5, HistoryIs

(* A change that no event tells of leaves alone what it does not touch; it *)
(* may be made by a command that runs on.                                  *)
LEMMA UntouchedKept ==
    ASSUME ConsoleInv, NEW item \in Owners, NEW items \in SUBSET Owners, items \subseteq {item},
           NEW parts \in {Panes, {"dialog"}}, Change(item, items, parts, FALSE),
           UNCHANGED <<at, filter, refreshing>>, NEW part \in Panes, KeptUp(part),
           slips \subseteq slips', PartsShown'[part] = PartsShown[part],
           part \notin Aged(item, parts),
           \A x \in Range(sent) :
              WillShow(history, KeysOf(filter, at), refreshing = "again", x, part) =>
                 x \in Range(sent')
    PROVE  KeptUp(part)'
<1>1. PICK w : w = [item |-> item, items |-> items, parts |-> parts] OBVIOUS
<1>2. /\ w \in ServerChanges /\ w.items \subseteq {w.item}
      /\ history' = Append(history, w) /\ due' = due
  BY <1>1 DEF ServerChanges, Change
<1>3. PICK k : k = KeysOf(filter, at) OBVIOUS
<1>4. CASE part \in slips BY <1>4 DEF KeptUp
<1>5. CASE due > 0 /\ ~Absent(k, part) BY <1>2, <1>3, <1>5 DEF KeptUp
<1>6. CASE IsKept(history, k, refreshing = "again", sent, part, PartsShown[part])
  <2>1. CASE Absent(k, part)
    <3>1. IsKept(history', k, refreshing' = "again", sent', part, PartsShown'[part])
      BY <1>6, <2>1 DEF IsKept
    <3> QED BY <1>3, <3>1 DEF KeptUp
  <2>2. CASE ~Absent(k, part)
    <3>1. ~Touches(w, part, k[part])
      BY <1>1, <1>3 DEF Touches, Aged, KeysOf, Panes
    <3>2. /\ ShownAt(history', part, k[part], Len(history')) = ShownAt(history, part, k[part], Len(history))
          /\ \A since \in 0..Len(history) :
                Recent(history, part, k[part], since) => Recent(history', part, k[part], since)
      <4>1. PICK g : g = history' OBVIOUS
      <4>2. PICK key : key = k[part] OBVIOUS
      <4>3. Grows(history, w, g) /\ ~Touches(w, part, key)
        BY <1>2, <3>1, <4>1, <4>2, HistoryIs DEF Grows
      <4>4. /\ ShownAt(g, part, key, Len(g)) = ShownAt(history, part, key, Len(history))
            /\ \A since \in 0..Len(history) :
                  Recent(history, part, key, since) => Recent(g, part, key, since)
        BY <4>3, UntouchedShows
      <4> QED BY <4>1, <4>2, <4>4
    <3>3. ASSUME NEW x \in Range(sent), WillShow(history, k, refreshing = "again", x, part)
          PROVE  WillShow(history', k, refreshing = "again", x, part)
      <4>1. x.since \in 0..Len(history)
        <5>1. x \in MonitorTasks /\ MonitorTaskFits(console, Len(history), filter, at, x)
          BY HistoryIs DEF ConsoleInv
        <5> QED BY <5>1, HistoryIs DEF MonitorTasks, MonitorTaskFits
      <4> QED BY <3>2, <3>3, <4>1 DEF WillShow
    <3>4. IsKept(history', k, refreshing' = "again", sent', part, PartsShown'[part])
      BY <1>3, <1>6, <2>2, <3>2, <3>3 DEF IsKept, Promised
    <3> QED BY <1>3, <3>4 DEF KeptUp
  <2> QED BY <2>1, <2>2
<1> QED BY <1>3, <1>4, <1>5, <1>6 DEF KeptUp

(* Another operator changes an item.                                       *)
LEMMA OthersChangeKeeps ==
    ASSUME ConsoleInv, NEW item \in Owners, NEW heard \in BOOLEAN, OthersChange(item, heard)
    PROVE  ConsoleInv'
<1>1. PICK parts \in {Panes, {"dialog"}} :
         /\ UNCHANGED <<console, at, filter, list, dialog, provenance, chosen, pending,
                        refreshing, sent>>
         /\ Change(item, {}, parts, heard)
         /\ slips' = slips \cup IF heard THEN {} ELSE Aged(item, parts)
  BY DEF OthersChange, pageVars
<1>2. /\ history' \in Seq(ServerChanges) /\ Len(history') = Len(history) + 1
      /\ Len(history') <= MaxHistory /\ due' \in 0..Len(history') /\ (heard => due' > 0)
      /\ \A k \in DOMAIN history' : history'[k].items \subseteq {history'[k].item}
  <2>1. {} \in SUBSET Owners /\ {} \subseteq {item} OBVIOUS
  <2> QED BY <1>1, <2>1, ChangeIs
<1>3. /\ TasksRun(sent, refreshing) /\ MonitorFits /\ PendingFits
      /\ \A c \in Range(sent) : MonitorTaskFits(console, Len(history), filter, at, c)
  BY DEF ConsoleInv
<1>4. \A c \in Range(sent) : MonitorTaskFits(console, Len(history'), filter, at, c)
  BY <1>2, <1>3, HistoryIs, StillFits
<1>5. \A part \in Panes : PartsShown'[part] = PartsShown[part] BY <1>1, ShownParts DEF Panes
<1>6. /\ slips \subseteq slips' /\ slips' \subseteq Panes \cup {"act"}
      /\ "act" \in slips <=> "act" \in slips'
  BY <1>1, HistoryIs, PanesAre DEF Aged
<1>7. ASSUME at.open, NEW part \in Panes PROVE KeptUp(part)'
  <2>1. KeptUp(part) BY <1>7 DEF ConsoleInv
  <2>2. CASE heard
    <3>1. slips' = slips BY <1>1, <2>2
    <3> QED BY <1>1, <1>2, <1>5, <2>1, <2>2, <3>1, KeptByEvent
  <2>3. CASE ~heard
    <3>1. CASE part \in Aged(item, parts)
      <4>1. part \in slips' BY <1>1, <2>3, <3>1
      <4> QED BY <4>1 DEF KeptUp
    <3>2. CASE part \notin Aged(item, parts)
      <4>1. Change(item, {}, parts, FALSE) BY <1>1, <2>3
      <4>2. {} \in SUBSET Owners /\ {} \subseteq {item} OBVIOUS
      <4> QED BY <1>1, <1>5, <1>6, <2>1, <3>2, <4>1, <4>2, UntouchedKept
    <3> QED BY <3>1, <3>2
  <2> QED BY <2>2, <2>3
<1>8. PendingFits' /\ (console = "workflow" => provenance' = Blank)
  BY <1>1, <1>3, <1>6 DEF PendingFits, MonitorFits
<1>9. chosen' \subseteq Owners /\ pending' \in BOOLEAN /\ refreshing' \in {"idle", "running", "again"}
  BY <1>1, HistoryIs
<1>10. TasksRun(sent', refreshing')
       /\ \A c \in Range(sent') : MonitorTaskFits(console, Len(history'), filter, at, c)
  BY <1>1, <1>3, <1>4
<1> QED BY <1>1, <1>2, <1>5, <1>6, <1>7, <1>8, <1>9, <1>10, StepKeeps

(* An action on its way or answered.                                       *)
LEMMA CommandIs ==
    ASSUME ConsoleInv, NEW i \in DOMAIN sent, sent[i].todo \in ActCommands
    PROVE  LET c == sent[i] IN
           /\ c \in MonitorTasks /\ c \in Range(sent) /\ c \notin Refreshing /\ c.kind = "act"
           /\ c.target \in Owners /\ c.items \in SUBSET Owners /\ c.since \in 0..Len(history)
           /\ c.todo \in MonitorCommands => c.items \subseteq {c.target}
           /\ ~at.open => c.left
<1>1. PICK c : c = sent[i] OBVIOUS
<1>2. c \in MonitorTasks /\ c \in Range(sent) BY <1>1, HistoryIs
<1>3. MonitorTaskFits(console, Len(history), filter, at, c) BY <1>2 DEF ConsoleInv
<1>4. c \notin Refreshing BY <1>1, LoadsRefreshNothing
<1>5. c.kind \notin Panes
  <2>1. ASSUME c.kind \in Panes PROVE FALSE
    <3>1. c.todo = <<c.kind>> BY <1>3, <2>1 DEF MonitorTaskFits
    <3>2. <<c.kind>>[1] = c.kind OBVIOUS
    <3>3. c.todo[1] \in ActWords BY <1>1 DEF ActCommands
    <3> QED BY <2>1, <3>1, <3>2, <3>3, PanesAre
  <2> QED BY <2>1
<1>6. c.since \in Nat /\ c.since <= Len(history) /\ c.items \in SUBSET Owners
  BY <1>2, <1>3 DEF MonitorTaskFits, MonitorTasks
<1> QED BY <1>1, <1>2, <1>3, <1>4, <1>5, <1>6, HistoryIs DEF MonitorTaskFits

(* The server executes a command, or refuses it.                           *)
LEMMA ServeTaskKeeps ==
    ASSUME ConsoleInv, NEW i \in DOMAIN sent, Serve(i)
    PROVE  ConsoleInv'
<1>1. PICK c : c = sent[i] OBVIOUS
<1>2. c.todo \in MonitorCommands /\ c.todo \in ActCommands BY <1>1, WordsAre DEF Serve
<1>3. /\ c \in MonitorTasks /\ c \in Range(sent) /\ c \notin Refreshing /\ c.kind = "act"
      /\ c.target \in Owners /\ c.items \in SUBSET Owners /\ c.since \in 0..Len(history)
      /\ c.items \subseteq {c.target} /\ (~at.open => c.left)
  BY <1>1, <1>2, CommandIs
<1> DEFINE Served(with, parts, heard) ==
              /\ sent' = [sent EXCEPT ![i].todo = <<with>>]
              /\ slips \subseteq slips' /\ slips' \subseteq slips \cup Panes
              /\ \/ /\ Change(c.target, c.items, parts, heard)
                    /\ \/ heard \/ Aged(c.target, parts) \subseteq slips'
                       \/ with = "selected" /\ parts = {"dialog"} /\ ~Astray(c, "dialog")
                 \/ UNCHANGED <<history, due>>
<1>4. PICK with \in {"changed", "selected", "refused"}, parts \in {Panes, {"dialog"}},
           heard \in BOOLEAN : Served(with, parts, heard)
  <2>1. PICK quiet \in BOOLEAN : quiet = (c.todo = selectPrimaryAssetForMonitor) OBVIOUS
  <2>2. PICK ps \in {Panes, {"dialog"}} : ps = IF quiet THEN {"dialog"} ELSE Panes OBVIOUS
  <2>3. Aged(c.target, ps) \subseteq Panes BY <2>2 DEF Aged, Panes
  <2>4. CASE /\ Change(c.target, c.items, ps, ~quiet)
             /\ sent' = [sent EXCEPT ![i].todo = <<IF quiet THEN "selected" ELSE "changed">>]
             /\ slips' = slips \cup IF quiet /\ Astray(c, "dialog") THEN Aged(c.target, ps) ELSE {}
    <3>1. CASE quiet
      <4>1. Served("selected", ps, ~quiet) BY <2>2, <2>3, <2>4, <3>1
      <4> QED BY <4>1
    <3>2. CASE ~quiet
      <4>1. Served("changed", ps, ~quiet) BY <2>4, <3>2
      <4> QED BY <4>1
    <3> QED BY <3>1, <3>2
  <2>5. CASE \E heard \in {~quiet, FALSE} :
                /\ sent' = [sent EXCEPT ![i].todo = <<"refused">>]
                /\ Change(c.target, c.items, ps, heard)
                /\ slips' = slips \cup IF heard THEN {} ELSE Aged(c.target, ps)
    <3>1. PICK heard \in BOOLEAN :
             /\ sent' = [sent EXCEPT ![i].todo = <<"refused">>]
             /\ Change(c.target, c.items, ps, heard)
             /\ slips' = slips \cup IF heard THEN {} ELSE Aged(c.target, ps)
      BY <2>5
    <3>2. Served("refused", ps, heard) BY <2>3, <3>1
    <3> QED BY <3>2
  <2>6. CASE sent' = [sent EXCEPT ![i].todo = <<"refused">>] /\ UNCHANGED <<history, due, slips>>
    <3>1. Served("refused", ps, FALSE) BY <2>6
    <3> QED BY <3>1
  <2> QED BY <1>1, <2>1, <2>2, <2>4, <2>5, <2>6 DEF Serve
<1>5. UNCHANGED <<console, at, filter, list, dialog, provenance, chosen, pending, refreshing>>
  BY DEF Serve, pageVars
<1>6. PICK w : w = [c EXCEPT !.todo = <<with>>] OBVIOUS
<1>7. /\ w \in MonitorTasks /\ w.kind = "act" /\ w.todo = <<with>> /\ w.target = c.target
      /\ w.since = c.since /\ w.left = c.left /\ w.filter = c.filter
      /\ w.item = c.item /\ w.asset = c.asset
  BY <1>3, <1>6 DEF MonitorTasks, ActCommands, ActWords
<1>8. w.todo \in ActCommands /\ w.todo \notin MonitorCommands /\ w \notin Refreshing
  <2>1. w.todo \in ActCommands BY <1>7 DEF ActCommands, ActWords
  <2>2. w.todo \notin MonitorCommands BY <1>7, WordsAre
  <2> QED BY <2>1, <2>2, LoadsRefreshNothing
<1>9. sent' = [sent EXCEPT ![i] = w] BY <1>1, <1>4, <1>6
<1>10. /\ sent' \in Seq(MonitorTasks)
       /\ \A x \in Range(sent') : x = w \/ \E j \in DOMAIN sent \ {i} : x = sent[j]
       /\ \A j \in DOMAIN sent \ {i} : sent[j] \in Range(sent')
       /\ \A k : NoneOf(sent', k) <=> NoneOf(sent, k)
       /\ \A k : AtMostOne(sent', k) <=> AtMostOne(sent, k)
  <2>1. w.kind = sent[i].kind /\ sent \in Seq(MonitorTasks) BY <1>1, <1>3, <1>7, HistoryIs
  <2>2. sent' = ReplaceAt(sent, i, w) BY <1>9 DEF ReplaceAt
  <2> QED BY <1>7, <2>1, <2>2, TaskReplaced
<1>11. /\ TasksRun(sent, refreshing) /\ MonitorFits /\ PendingFits
       /\ \A x \in Range(sent) : MonitorTaskFits(console, Len(history), filter, at, x)
  BY DEF ConsoleInv
<1>12. \A x \in Range(sent) : x \in Range(sent') \/ x = c BY <1>1, <1>10 DEF Range
<1>13. TasksRun(sent', refreshing')
  <2>1. AtMostOneOf(sent', Refreshing)
    BY <1>7, <1>8, <1>9, <1>11, HistoryIs, ChangedStill DEF TasksRun
  <2>2. Range(sent') \cap Refreshing = Range(sent) \cap Refreshing
    BY <1>3, <1>8, <1>10, <1>12, HistoryIs
  <2> QED BY <1>5, <1>10, <1>11, <2>1, <2>2 DEF TasksRun
<1>14. /\ history' \in Seq(ServerChanges) /\ Len(history') <= MaxHistory /\ due' \in 0..Len(history')
       /\ \A k \in DOMAIN history' : history'[k].items \subseteq {history'[k].item}
       /\ Len(history') \in Nat /\ Len(history) <= Len(history')
  <2>1. CASE Change(c.target, c.items, parts, heard)
    <3>1. /\ history' \in Seq(ServerChanges) /\ Len(history') = Len(history) + 1
          /\ Len(history') <= MaxHistory /\ due' \in 0..Len(history')
          /\ \A k \in DOMAIN history' : history'[k].items \subseteq {history'[k].item}
      BY <1>3, <2>1, ChangeIs, ZenonT(60)
    <3> QED BY <3>1, HistoryIs
  <2>2. CASE UNCHANGED <<history, due>> BY <2>2, HistoryIs
  <2> QED BY <1>4, <2>1, <2>2
<1>15. MonitorTaskFits(console, Len(history'), filter, at, w)
  BY <1>3, <1>7, <1>8, <1>14, HistoryIs, PanesAre DEF MonitorTaskFits
<1>16. \A x \in Range(sent') : MonitorTaskFits(console, Len(history'), filter, at, x)
  BY <1>10, <1>11, <1>14, <1>15, HistoryIs, StillFits
<1>17. PendingFits' BY <1>4, <1>5, <1>10, <1>11, PanesAre, ActionStays
<1>18. \A part \in Panes : PartsShown'[part] = PartsShown[part] BY <1>5, ShownParts DEF Panes
<1>19. ASSUME at.open, NEW part \in Panes PROVE KeptUp(part)'
  <2>1. KeptUp(part) BY <1>19 DEF ConsoleInv
  <2>2. PICK k : k = KeysOf(filter, at) OBVIOUS
  <2>3. ASSUME NEW x \in Range(sent), WillShow(history, k, refreshing = "again", x, part)
        PROVE  x \in Range(sent')
    <3>1. c.todo # <<"selected">> BY <1>2, WordsAre
    <3> QED BY <1>3, <1>12, <2>3, <3>1, PanesAre DEF WillShow
  <2>4. CASE UNCHANGED <<history, due>>
    BY <1>4, <1>5, <1>18, <2>1, <2>2, <2>3, <2>4, StillKept
  <2>5. CASE Change(c.target, c.items, parts, heard) /\ heard
    <3>1. due' > 0 BY <1>3, <2>5, ChangeIs
    <3> QED BY <1>4, <1>5, <1>18, <2>1, <3>1, KeptByEvent
  <2>6. CASE Change(c.target, c.items, parts, heard) /\ ~heard /\ part \notin Aged(c.target, parts)
    <3>1. Change(c.target, c.items, parts, FALSE) BY <2>6
    <3> QED BY <1>3, <1>4, <1>5, <1>18, <2>1, <2>2, <2>3, <2>6, <3>1, UntouchedKept, ZenonT(60)
  <2>7. CASE part \in Aged(c.target, parts) /\ Aged(c.target, parts) \subseteq slips'
    <3>1. part \in slips' BY <2>7
    <3> QED BY <3>1 DEF KeptUp
  <2>8. CASE part \in Aged(c.target, parts)
                /\ with = "selected" /\ parts = {"dialog"} /\ ~Astray(c, "dialog")
    <3>1. part = "dialog" /\ at.item = c.target BY <2>8 DEF Aged
    <3>2. ~Stray(k, c, part) BY <2>2, <2>8, <3>1, AstrayIsStray
    <3>3. ~Stray(k, w, part) BY <1>7, <3>2 DEF Stray, KeysOf
    <3>4. WillShow(history', k, refreshing' = "again", w, part) BY <1>7, <2>8, <3>1, <3>3 DEF WillShow
    <3>5. w \in Range(sent')
      <4>1. i \in DOMAIN sent' /\ sent'[i] = w BY <1>9
      <4> QED BY <4>1 DEF Range
    <3>6. ~Absent(k, part) BY <1>3, <2>2, <3>1, OwnersAreNot DEF Absent, KeysOf
    <3>7. IsKept(history', k, refreshing' = "again", sent', part, PartsShown'[part])
      BY <3>4, <3>5, <3>6 DEF IsKept, Promised
    <3> QED BY <1>5, <2>2, <3>7 DEF KeptUp
  <2> QED BY <1>4, <2>4, <2>5, <2>6, <2>7, <2>8
<1>20. console = "workflow" => provenance' = Blank BY <1>5, <1>11 DEF MonitorFits
<1>21. slips' \subseteq Panes \cup {"act"} BY <1>4, HistoryIs
<1> HIDE DEF Served
<1> QED BY <1>5, <1>13, <1>14, <1>16, <1>17, <1>18, <1>19, <1>20, <1>21, HistoryIs, StepKeeps

(* An event is lost.                                                       *)
LEMMA LostKeeps ==
    ASSUME ConsoleInv, EventLost
    PROVE  ConsoleInv'
<1>1. /\ UNCHANGED <<console, at, filter, list, dialog, provenance, chosen, pending,
                     refreshing, sent, history>>
      /\ due' = due - 1 /\ due > 0 /\ slips' = slips \cup Panes
  BY DEF EventLost, pageVars
<1>2. /\ TasksRun(sent, refreshing) /\ MonitorFits /\ PendingFits
      /\ \A c \in Range(sent) : MonitorTaskFits(console, Len(history), filter, at, c)
  BY DEF ConsoleInv
<1>3. PendingFits' BY <1>1, <1>2 DEF PendingFits
<1>4. due' \in 0..Len(history) BY <1>1, HistoryIs
<1>5. \A part \in Panes : PartsShown'[part] = PartsShown[part] /\ KeptUp(part)'
  BY <1>1, ShownParts DEF Panes, KeptUp
<1>6. console = "workflow" => provenance' = Blank BY <1>1, <1>2 DEF MonitorFits
<1>7. slips' \subseteq Panes \cup {"act"} BY <1>1, HistoryIs
<1> QED BY <1>1, <1>2, <1>3, <1>4, <1>5, <1>6, <1>7, HistoryIs, StepKeeps

(* An event comes: a refresh begins, or one more is asked of the one that runs. *)
LEMMA NothingAbsent ==
    ASSUME NEW part \in Panes, KeptUp(part), Absent(KeysOf(filter, at), part),
           UNCHANGED <<at, filter>>, slips \subseteq slips', PartsShown'[part] = PartsShown[part]
    PROVE  KeptUp(part)'
<1>1. PICK k : k = KeysOf(filter, at) OBVIOUS
<1>2. CASE part \in slips BY <1>2 DEF KeptUp
<1>3. CASE part \notin slips
  <2>1. PartsShown[part] = Blank BY <1>1, <1>3 DEF KeptUp, IsKept
  <2>2. IsKept(history', k, refreshing' = "again", sent', part, PartsShown'[part])
    BY <1>1, <2>1 DEF IsKept
  <2> QED BY <1>1, <2>2 DEF KeptUp
<1> QED BY <1>2, <1>3

(* A refresh runs unless the page says that none does.                     *)
LEMMA SomeRefresh ==
    ASSUME ConsoleInv, refreshing # "idle"
    PROVE  \E i \in DOMAIN sent : sent[i] \in Refreshing /\ Refreshes(sent[i])
<1>1. Range(sent) \cap Refreshing # {} BY DEF ConsoleInv, TasksRun
<1> QED BY <1>1 DEF Range, Refreshing

(* What is not absent is read by a refresh made for it.                    *)
LEMMA RefreshHas ==
    ASSUME NEW part \in Panes, NEW c, ~Stray(KeysOf(filter, at), c, part),
           ~Absent(KeysOf(filter, at), part), MonitorFits
    PROVE  part \in PartsOf(console, c)
<1>1. CASE part = "list" BY <1>1 DEF PartsOf
<1>2. CASE part = "dialog" BY <1>2 DEF PartsOf, Stray, Absent, KeysOf
<1>3. CASE part = "provenance"
  <2>1. at.asset # Off /\ c.asset = at.asset BY <1>3 DEF Stray, Absent, KeysOf
  <2> QED BY <1>3, <2>1 DEF PartsOf, MonitorFits
<1> QED BY <1>1, <1>2, <1>3 DEF Panes

(* An event comes.                                                         *)
LEMMA EventKeeps ==
    ASSUME ConsoleInv, OnEvent
    PROVE  ConsoleInv'
<1>1. /\ UNCHANGED <<console, at, filter, list, dialog, provenance, chosen, pending, history>>
      /\ due' = due - 1 /\ due > 0
  BY DEF OnEvent, pageVars
<1>2. /\ TasksRun(sent, refreshing) /\ MonitorFits /\ PendingFits
      /\ \A c \in Range(sent) : MonitorTaskFits(console, Len(history), filter, at, c)
  BY DEF ConsoleInv
<1>3. due' \in 0..Len(history) BY <1>1, HistoryIs
<1>4. \A part \in Panes : PartsShown'[part] = PartsShown[part] BY <1>1, ShownParts DEF Panes
<1>5. console = "workflow" => provenance' = Blank BY <1>1, <1>2 DEF MonitorFits
<1>6. CASE ~at.open
  <2>1. UNCHANGED <<sent, refreshing, slips>> BY <1>6 DEF OnEvent
  <2>2. PendingFits' BY <1>1, <1>2, <2>1 DEF PendingFits
  <2> QED BY <1>1, <1>2, <1>3, <1>4, <1>5, <1>6, <2>1, <2>2, HistoryIs, StepKeeps
<1>7. CASE at.open /\ refreshing # "idle"
  <2>1. /\ sent' = sent /\ refreshing' = "again" /\ slips' = slips \cup Misses
    BY <1>7 DEF OnEvent, refreshSilently
  <2>2. Misses \subseteq Panes BY DEF Misses
  <2>3. slips' \subseteq Panes \cup {"act"} /\ ("act" \in slips <=> "act" \in slips')
        /\ slips \subseteq slips'
    BY <2>1, <2>2, HistoryIs, PanesAre
  <2>4. PendingFits' BY <1>1, <1>2, <2>1, <2>3 DEF PendingFits
  <2>5. TasksRun(sent', refreshing') BY <1>2, <1>7, <2>1 DEF TasksRun
  <2>6. PICK i \in DOMAIN sent : sent[i] \in Refreshing /\ Refreshes(sent[i])
    BY <1>7, SomeRefresh
  <2>7. ASSUME NEW part \in Panes PROVE KeptUp(part)'
    <3>1. KeptUp(part) BY <1>7 DEF ConsoleInv
    <3>2. PICK k : k = KeysOf(filter, at) OBVIOUS
    <3>3. CASE Absent(k, part) BY <1>1, <1>4, <2>3, <3>1, <3>2, <3>3, NothingAbsent
    <3>4. CASE Stray(k, sent[i], part)
      <4>1. Astray(sent[i], part) BY <3>2, <3>4, AstrayIsStray
      <4>2. part \in Misses BY <2>6, <4>1 DEF Misses
      <4> QED BY <2>1, <4>2 DEF KeptUp
    <3>5. CASE ~Absent(k, part) /\ ~Stray(k, sent[i], part)
      <4>1. WillShow(history, k, TRUE, sent[i], part) BY <2>6, <3>5 DEF WillShow
      <4>2. Promised(history, k, TRUE, sent, part) BY <2>6, <4>1, HistoryIs DEF Promised
      <4>3. IsKept(history, k, TRUE, sent, part, PartsShown[part]) BY <3>5, <4>2 DEF IsKept
      <4> QED BY <1>1, <1>4, <2>1, <3>2, <4>3 DEF KeptUp
    <3> QED BY <3>3, <3>4, <3>5
  <2> QED BY <1>1, <1>2, <1>3, <1>4, <1>5, <2>1, <2>3, <2>4, <2>5, <2>7, HistoryIs, StepKeeps
<1>8. CASE at.open /\ refreshing = "idle"
  <2>1. PICK w : w = Sent("silent", filter, at, Refresh(at.item, at.asset)) OBVIOUS
  <2>2. sent' = Append(sent, w) /\ refreshing' = "running" /\ slips' = slips \cup Misses
    BY <1>8, <2>1 DEF OnEvent, refreshSilently
  <2>3. /\ w.todo \in Seq(Panes) /\ w.todo # <<>> /\ Range(w.todo) = PartsOf(console, at)
        /\ w.kind = "silent" /\ w.since = Len(history) /\ w.item = at.item /\ w.asset = at.asset
        /\ w.filter = filter /\ w.left = FALSE
    <3>1. w.todo = Refresh(at.item, at.asset) BY <2>1 DEF Sent
    <3>2. Refresh(at.item, at.asset) \in Seq(Panes) /\ Refresh(at.item, at.asset) # <<>>
          /\ Range(Refresh(at.item, at.asset)) = PartsOf(console, at)
      BY HistoryIs, RefreshReads
    <3> QED BY <2>1, <3>1, <3>2 DEF Sent
  <2>4. w \in MonitorTasks
    <3>1. /\ filter \in Filters
          /\ at \in [open : BOOLEAN, item : Owners \cup {Off}, asset : Owners \cup {Off}]
      BY DEF ConsoleInv, ConsoleTyped
    <3>2. Refresh(at.item, at.asset) \in Seq(Panes) BY HistoryIs, RefreshReads
    <3> QED BY <2>1, <3>1, <3>2, HistoryIs DEF Sent, MonitorTasks
  <2>5. w \in Refreshing
    <3>1. Head(w.todo) \in Panes BY <2>3, FirstAndRest
    <3> QED BY <2>3, <2>4, <3>1 DEF Refreshing, Refreshes
  <2>6. /\ sent' \in Seq(MonitorTasks) /\ Range(sent') = Range(sent) \cup {w}
        /\ \A k : NoneOf(sent', k) <=> NoneOf(sent, k) /\ w.kind # k
        /\ \A k : AtMostOne(sent, k) /\ (w.kind # k \/ NoneOf(sent, k)) => AtMostOne(sent', k)
    BY <2>2, <2>4, HistoryIs, TaskBegins
  <2>7. TasksRun(sent', refreshing')
    <3>1. AtMostOneOf(sent', Refreshing)
      BY <1>2, <1>8, <2>2, <2>4, HistoryIs, BegunStill DEF TasksRun
    <3>2. \A part \in Panes : AtMostOne(sent', part) BY <1>2, <2>3, <2>6, PanesAre DEF TasksRun
    <3> QED BY <2>2, <2>5, <2>6, <3>1, <3>2 DEF TasksRun
  <2>8. MonitorTaskFits(console, Len(history), filter, at, w)
    <3>1. PartsOf(console, w) = PartsOf(console, at) BY <2>3 DEF PartsOf
    <3> QED BY <1>8, <2>3, <2>5, <3>1, HistoryIs, PanesAre DEF MonitorTaskFits
  <2>9. slips' \subseteq Panes \cup {"act"} /\ ("act" \in slips <=> "act" \in slips')
        /\ slips \subseteq slips'
    BY <2>2, HistoryIs, PanesAre DEF Misses
  <2>10. PendingFits' BY <1>1, <1>2, <2>3, <2>6, <2>9 DEF PendingFits
  <2>11. ASSUME NEW part \in Panes PROVE KeptUp(part)'
    <3>1. KeptUp(part) BY <1>8 DEF ConsoleInv
    <3>2. PICK k : k = KeysOf(filter, at) OBVIOUS
    <3>3. CASE Absent(k, part) BY <1>1, <1>4, <2>9, <3>1, <3>2, <3>3, NothingAbsent
    <3>4. CASE ~Absent(k, part)
      <4>1. ~Stray(k, w, part) BY <2>3, <3>2 DEF Stray, KeysOf
      <4>2. part \in Range(w.todo)
        <5>1. part \in PartsOf(console, w) BY <1>2, <3>2, <3>4, <4>1, RefreshHas
        <5> QED BY <2>3, <5>1 DEF PartsOf
      <4>3. WillShow(history, k, FALSE, w, part)
        BY <2>3, <2>5, <4>1, <4>2, HistoryIs, NowIsRecent DEF WillShow
      <4>4. IsKept(history, k, FALSE, sent', part, PartsShown[part])
        BY <2>6, <3>4, <4>3 DEF IsKept, Promised
      <4> QED BY <1>1, <1>4, <2>2, <3>2, <4>4 DEF KeptUp
    <3> QED BY <3>3, <3>4
  <2>12. \A c \in Range(sent') : MonitorTaskFits(console, Len(history), filter, at, c)
    BY <1>2, <2>6, <2>8
  <2> QED BY <1>1, <1>3, <1>4, <1>5, <2>2, <2>7, <2>9, <2>10, <2>11, <2>12, HistoryIs, StepKeeps
<1> QED BY <1>6, <1>7, <1>8

-----------------------------------------------------------------------------
(* Answers.                                                                *)
LEMMA EndRuns ==
    ASSUME NEW t, NEW how, TasksRun(t, how), NEW i \in DOMAIN t
    PROVE  LET s == RemoveAt(t, i) IN
           /\ s \in Seq(MonitorTasks) /\ Range(s) \subseteq Range(t)
           /\ \A j \in DOMAIN t \ {i} : t[j] \in Range(s)
           /\ \A k : AtMostOne(t, k) => AtMostOne(s, k)
           /\ \A k : t[i].kind # k => (NoneOf(s, k) <=> NoneOf(t, k))
           /\ \A k : t[i].kind = k /\ AtMostOne(t, k) => NoneOf(s, k)
           /\ t[i] \notin Refreshing => TasksRun(s, how)
           /\ t[i] \in Refreshing => TasksRun(s, "idle")
<1>1. PICK s : s = RemoveAt(t, i) OBVIOUS
<1>2. t \in Seq(MonitorTasks) /\ AtMostOneOf(t, Refreshing) /\ \A part \in Panes : AtMostOne(t, part)
  BY DEF TasksRun
<1>3. /\ s \in Seq(MonitorTasks) /\ Range(s) \subseteq Range(t)
      /\ \A j \in DOMAIN t \ {i} : t[j] \in Range(s)
      /\ \A k : NoneOf(t, k) => NoneOf(s, k)
      /\ \A k : AtMostOne(t, k) => AtMostOne(s, k)
      /\ \A k : t[i].kind # k /\ NoneOf(s, k) => NoneOf(t, k)
      /\ \A k : t[i].kind = k /\ AtMostOne(t, k) => NoneOf(s, k)
  BY <1>1, <1>2, TaskEnds
<1>4. AtMostOneOf(s, Refreshing) /\ (t[i] \in Refreshing => Range(s) \cap Refreshing = {})
  BY <1>1, <1>2, EndedStill
<1>5. \A part \in Panes : AtMostOne(s, part) BY <1>2, <1>3
<1>6. t[i] \in Refreshing => TasksRun(s, "idle") BY <1>3, <1>4, <1>5 DEF TasksRun
<1>7. t[i] \notin Refreshing => Range(s) \cap Refreshing = Range(t) \cap Refreshing
  BY <1>3 DEF Range
<1>8. t[i] \notin Refreshing => TasksRun(s, how) BY <1>3, <1>4, <1>5, <1>7 DEF TasksRun
<1> QED BY <1>1, <1>3, <1>6, <1>8

(* The number of actions says whether one at most runs.                    *)
LEMMA OneActionCounted ==
    ASSUME sent \in Seq(MonitorTasks), NEW i \in DOMAIN sent, sent[i].kind = "act"
    PROVE  Cardinality(Actions) = 1 <=> AtMostOne(sent, "act")
<1>1. PICK A : A = Actions OBVIOUS
<1>2. i \in A /\ A \subseteq 1..Len(sent) BY <1>1, LenProperties DEF Actions
<1>3. IsFiniteSet(A)
  <2>1. IsFiniteSet(1..Len(sent))
    <3>1. 1 \in Int /\ Len(sent) \in Int BY LenProperties
    <3> QED BY <3>1, FS_Interval
  <2> QED BY <1>2, <2>1, FS_Subset
<1>4. Cardinality(A) = 1 <=> \E x : A = {x} BY <1>3, FS_Singleton
<1>5. \A j \in DOMAIN sent : j \in A <=> sent[j].kind = "act" BY <1>1 DEF Actions
<1>6. ASSUME NEW x, A = {x} PROVE AtMostOne(sent, "act") BY <1>5, <1>6 DEF AtMostOne
<1>7. ASSUME AtMostOne(sent, "act") PROVE A = {i}
  <2>1. A \subseteq DOMAIN sent BY <1>1 DEF Actions
  <2> QED BY <1>2, <1>5, <1>7, <2>1 DEF AtMostOne
<1> QED BY <1>1, <1>4, <1>6, <1>7

(* If one action at most runs, their number is one at most.                *)
LEMMA AtMostOneCounted ==
    ASSUME sent \in Seq(MonitorTasks), AtMostOne(sent, "act")
    PROVE  Cardinality(Actions) <= 1
<1>1. CASE Actions = {} BY <1>1, FS_EmptySet
<1>2. CASE Actions # {}
  <2>1. PICK i \in DOMAIN sent : sent[i].kind = "act" BY <1>2 DEF Actions
  <2> QED BY <2>1, OneActionCounted
<1> QED BY <1>1, <1>2

(* An action that ends clears the flag; it is right unless another runs.   *)
LEMMA OperatorActionEnds ==
    ASSUME PendingFits, sent \in Seq(MonitorTasks), NEW i \in DOMAIN sent, sent[i].kind = "act",
           NEW with, slips \subseteq with, EndAction(with),
           AtMostOne(sent, "act") => NoneOf(sent', "act")
    PROVE  /\ PendingFits' /\ pending' = FALSE
           /\ slips' \subseteq with /\ with \subseteq slips' \cup {"act"}
<1>1. pending' = FALSE /\ slips' = IF Cardinality(Actions) = 1 THEN with \ {"act"} ELSE with
  BY DEF EndAction
<1>2. Cardinality(Actions) = 1 <=> AtMostOne(sent, "act") BY OneActionCounted
<1>3. "act" \notin slips' => NoneOf(sent', "act") BY <1>1, <1>2 DEF PendingFits
<1>4. NoneOf(sent', "act") => AtMostOne(sent', "act") BY DEF NoneOf, AtMostOne
<1>5. PendingFits' BY <1>1, <1>3, <1>4 DEF PendingFits
<1> QED BY <1>1, <1>5

(* What is read and is not older is current if what was shown is.          *)
LEMMA NewerIsCurrent ==
    ASSUME ConsoleInv, NEW part \in Panes, NEW key, KeyFits(part, key), NEW n \in 0..Len(history),
           PartsShown[part] = ShownAt(history, part, key, Len(history)),
           NEW got, got = ShownAt(history, part, key, n), ~Older(part, got)
    PROVE  got = ShownAt(history, part, key, Len(history))
<1>1. PICK cur : cur = ShownAt(history, part, key, Len(history)) OBVIOUS
<1>2. /\ got.version <= cur.version /\ (got.version = cur.version => got = cur)
  <2>1. \A k \in 1..Len(history) :
           history[k].items \subseteq {history[k].item} /\ "dialog" \in history[k].parts
    BY HistoryIs
  <2> QED BY <1>1, <2>1, HistoryIs, ShownSettles
<1>3. /\ cur # Blank /\ cur.version \in Nat
      /\ IF part = "list" THEN cur.filter = key ELSE cur.of = key
  BY <1>1, HistoryIs, ShownIsTyped
<1>4. /\ got.version \in Nat /\ IF part = "list" THEN got.filter = key ELSE got.of = key
  <2>1. n \in Nat BY HistoryIs
  <2> QED BY <2>1, ShownIsTyped
<1>5. ~(cur.version > got.version) BY <1>1, <1>3, <1>4, OlderIs
<1> QED BY <1>1, <1>2, <1>3, <1>4, <1>5

(* A function that is for something has a key of the right kind.           *)
LEMMA KeysFit ==
    ASSUME NEW part \in Panes, NEW c \in MonitorTasks, ~Absent(KeysOf(c.filter, c), part)
    PROVE  KeyFits(part, KeysOf(c.filter, c)[part])
BY DEF Panes, MonitorTasks, Absent, KeysOf, KeyFits

(* So has the page.                                                        *)
LEMMA KeysOfPage ==
    ASSUME ConsoleInv, NEW part \in Panes, ~Absent(KeysOf(filter, at), part)
    PROVE  KeyFits(part, KeysOf(filter, at)[part])
BY DEF ConsoleInv, ConsoleTyped, Panes, Absent, KeysOf, KeyFits

(* A load ends.                                                            *)
LEMMA LoadKeeps ==
    ASSUME ConsoleInv, NEW i \in DOMAIN sent, TakeLoad(i),
           UNCHANGED <<console, at, filter, history, due>>
    PROVE  ConsoleInv'
<1>1. PICK c : c = sent[i] OBVIOUS
<1>2. c \in MonitorTasks /\ c \in Range(sent) BY <1>1, HistoryIs
<1>3. /\ TasksRun(sent, refreshing) /\ MonitorFits /\ PendingFits
      /\ \A x \in Range(sent) : MonitorTaskFits(console, Len(history), filter, at, x)
  BY DEF ConsoleInv
<1>4. PICK part \in Panes : part = c.kind BY <1>1 DEF TakeLoad
<1>5. c \notin Refreshing /\ c.kind # "act" BY <1>4, LoadsRefreshNothing, PanesAre
<1>6. sent' = RemoveAt(sent, i) /\ UNCHANGED <<chosen, pending, refreshing>>
  BY DEF TakeLoad
<1>7. /\ sent' \in Seq(MonitorTasks) /\ Range(sent') \subseteq Range(sent)
      /\ \A j \in DOMAIN sent \ {i} : sent[j] \in Range(sent')
      /\ AtMostOne(sent, "act") => AtMostOne(sent', "act")
      /\ NoneOf(sent', "act") <=> NoneOf(sent, "act")
      /\ TasksRun(sent', refreshing)
  BY <1>1, <1>3, <1>5, <1>6, EndRuns
<1>8. \A x \in Range(sent) : x = c \/ x \in Range(sent') BY <1>1, <1>7 DEF Range
<1>9. PICK k : k = KeysOf(filter, at) OBVIOUS
<1>10. /\ ~Absent(k, part) /\ ~Stray(k, c, part) /\ c.since \in 0..Len(history)
       /\ c.todo # <<"selected">>
  <2>1. c.since \in Nat /\ c.since <= Len(history) BY <1>2, <1>3 DEF MonitorTasks, MonitorTaskFits
  <2> QED BY <1>2, <1>3, <1>4, <1>9, <2>1, HistoryIs, WordsAre DEF MonitorTaskFits
<1>11. KeyFits(part, k[part]) BY <1>9, <1>10, KeysOfPage
<1>12. slips \subseteq slips' /\ slips' \subseteq slips \cup {part}
  BY <1>1, <1>4 DEF TakeLoad
<1>13. PendingFits' BY <1>3, <1>6, <1>7, <1>12, PanesAre, ActionStays
<1>14. ASSUME at.open, NEW p \in Panes, p # part, PartsShown'[p] = PartsShown[p] PROVE KeptUp(p)'
  <2>1. KeptUp(p) BY <1>14 DEF ConsoleInv
  <2>2. \A x \in Range(sent) :
           WillShow(history, k, refreshing = "again", x, p) => x \in Range(sent')
    BY <1>4, <1>5, <1>8, <1>10, <1>14 DEF WillShow
  <2> QED BY <1>6, <1>9, <1>12, <1>14, <2>1, <2>2, StillKept
<1>15. slips' \subseteq Panes \cup {"act"} BY <1>12, HistoryIs
<1>16. \A x \in Range(sent') : MonitorTaskFits(console, Len(history), filter, at, x) BY <1>3, <1>7
<1>17. console = "workflow" => part # "provenance"
  BY <1>3, <1>9, <1>10 DEF MonitorFits, Absent, KeysOf
<1>18. CASE \E n \in c.since..Len(history) :
               LET got == ReadAt(c, c.kind, n) IN
               /\ Write(c.kind, got)
               /\ slips' = slips \cup IF Older(c.kind, got) THEN {c.kind} ELSE {}
  <2>1. PICK n \in c.since..Len(history) :
           /\ Write(part, ReadAt(c, part, n))
           /\ slips' = slips \cup IF Older(part, ReadAt(c, part, n)) THEN {part} ELSE {}
    BY <1>4, <1>18
  <2>2. PICK got : got = ReadAt(c, part, n) OBVIOUS
  <2>3. n \in 0..Len(history) /\ n \in Nat BY <1>10, <2>1, HistoryIs
  <2>4. got = ShownAt(history, part, k[part], n)
    <3>1. KeysOf(c.filter, c)[part] = k[part] BY <1>10 DEF Stray
    <3> QED BY <2>2, <3>1, ReadsShow
  <2>5. \A p \in Panes : PartsShown'[p] = IF p = part THEN got ELSE PartsShown[p]
    BY <2>1, <2>2, WrittenPart
  <2>6. got \in ShownOf(part) /\ got.version <= MaxHistory
    <3>1. got \in ShownOf(part) /\ got.version \in 0..n BY <1>11, <2>3, <2>4, ShownIsTyped
    <3> QED BY <2>3, <3>1, HistoryIs
  <2>7. ASSUME at.open PROVE KeptUp(part)'
    <3>1. KeptUp(part) BY <2>7 DEF ConsoleInv
    <3>2. CASE part \in slips' BY <3>2 DEF KeptUp
    <3>3. CASE due > 0 BY <1>9, <1>10, <3>3 DEF KeptUp
    <3>4. CASE part \notin slips' /\ PartsShown[part] = ShownAt(history, part, k[part], Len(history))
      <4>1. ~Older(part, got) BY <2>1, <2>2, <3>4
      <4>2. got = ShownAt(history, part, k[part], Len(history))
        BY <1>11, <2>3, <2>4, <3>4, <4>1, NewerIsCurrent
      <4>3. IsKept(history, k, refreshing' = "again", sent', part, PartsShown'[part])
        BY <1>10, <2>5, <4>2 DEF IsKept
      <4> QED BY <1>9, <4>3 DEF KeptUp
    <3>5. CASE Promised(history, k, refreshing = "again", sent, part)
      <4>1. PICK x \in Range(sent) : WillShow(history, k, refreshing = "again", x, part)
        BY <3>5 DEF Promised
      <4>2. CASE x = c
        <5>1. Recent(history, part, k[part], c.since) BY <1>5, <1>10, <4>1, <4>2 DEF WillShow
        <5>2. got = ShownAt(history, part, k[part], Len(history)) BY <2>1, <2>4, <5>1 DEF Recent
        <5>3. IsKept(history, k, refreshing' = "again", sent', part, PartsShown'[part])
          BY <1>10, <2>5, <5>2 DEF IsKept
        <5> QED BY <1>9, <5>3 DEF KeptUp
      <4>3. CASE x \in Range(sent')
        <5>1. Promised(history, k, refreshing' = "again", sent', part)
          BY <1>6, <4>1, <4>3 DEF Promised
        <5>2. IsKept(history, k, refreshing' = "again", sent', part, PartsShown'[part])
          BY <1>10, <5>1 DEF IsKept
        <5> QED BY <1>9, <5>2 DEF KeptUp
      <4> QED BY <1>8, <4>2, <4>3
    <3> QED BY <1>9, <1>10, <1>12, <3>1, <3>2, <3>3, <3>4, <3>5 DEF KeptUp, IsKept
  <2>8. at.open => \A p \in Panes : KeptUp(p)' BY <1>14, <2>5, <2>7
  <2>9. \A p \in Panes : \/ PartsShown'[p] = PartsShown[p]
                         \/ PartsShown'[p] \in ShownOf(p) /\ PartsShown'[p].version <= MaxHistory
    BY <2>5, <2>6
  <2>10. console = "workflow" => provenance' = Blank
    BY <1>3, <1>17, <2>5, ShownParts DEF MonitorFits, Panes
  <2> QED BY <1>6, <1>7, <1>13, <1>15, <1>16, <2>8, <2>9, <2>10, HistoryIs, StepKeeps
<1>19. CASE /\ list' = IF c.kind = "list" THEN Blank ELSE list
            /\ slips' = slips \cup {c.kind} /\ UNCHANGED <<dialog, provenance>>
  <2>1. \A p \in Panes : PartsShown'[p] = PartsShown[p] \/ (p = part /\ PartsShown'[p] = Blank)
    BY <1>4, <1>19, ShownParts DEF Panes
  <2>2. KeptUp(part)' BY <1>4, <1>19 DEF KeptUp
  <2>3. at.open => \A p \in Panes : KeptUp(p)' BY <1>14, <2>1, <2>2
  <2>4. console = "workflow" => provenance' = Blank BY <1>3, <1>19 DEF MonitorFits
  <2>5. \A p \in Panes : PartsShown'[p] = Blank \/ PartsShown'[p] = PartsShown[p] BY <2>1
  <2> QED BY <1>6, <1>7, <1>13, <1>15, <1>16, <2>3, <2>4, <2>5, HistoryIs, StepKeeps
<1> QED BY <1>1, <1>18, <1>19 DEF TakeLoad

(* An action that was refused is over, and so is one that leaves its refresh *)
(* to the one that runs.                                                   *)
LEMMA ActionOver ==
    ASSUME ConsoleInv, NEW i \in DOMAIN sent, sent[i].todo \in ActCommands,
           UNCHANGED <<console, at, filter, history, due, list, dialog, provenance>>,
           sent' = RemoveAt(sent, i), chosen' \subseteq Owners,
           NEW with, slips \subseteq with, with \subseteq slips \cup Panes, EndAction(with),
           \/ refreshing' = refreshing /\ sent[i].todo # <<"selected">>
           \/ /\ refreshing # "idle" /\ refreshing' = "again"
              /\ sent[i].todo = <<"selected">> => Misses \cap {"dialog"} \subseteq with
    PROVE  ConsoleInv'
<1>1. PICK c : c = sent[i] OBVIOUS
<1>2. c \in Range(sent) /\ c \notin Refreshing /\ c.kind = "act" BY <1>1, CommandIs
<1>3. /\ TasksRun(sent, refreshing) /\ MonitorFits /\ PendingFits
      /\ \A x \in Range(sent) : MonitorTaskFits(console, Len(history), filter, at, x)
  BY DEF ConsoleInv
<1>4. /\ Range(sent') \subseteq Range(sent)
      /\ \A j \in DOMAIN sent \ {i} : sent[j] \in Range(sent')
      /\ AtMostOne(sent, "act") => NoneOf(sent', "act")
      /\ TasksRun(sent', refreshing)
  BY <1>1, <1>2, <1>3, EndRuns
<1>5. TasksRun(sent', refreshing') BY <1>4 DEF TasksRun
<1>6. /\ PendingFits' /\ pending' = FALSE /\ slips' \subseteq with
      /\ with \subseteq slips' \cup {"act"}
  BY <1>1, <1>2, <1>3, <1>4, HistoryIs, OperatorActionEnds
<1>7. \A x \in Range(sent) : x = c \/ x \in Range(sent') BY <1>1, <1>4 DEF Range
<1>8. \A part \in Panes : PartsShown'[part] = PartsShown[part] BY ShownParts DEF Panes
<1>9. ASSUME at.open, NEW part \in Panes PROVE KeptUp(part)'
  <2>1. KeptUp(part) BY <1>9 DEF ConsoleInv
  <2>2. /\ part \in slips => part \in slips'
        /\ part \in with => part \in slips'
    BY <1>6, PanesAre
  <2>3. PICK k : k = KeysOf(filter, at) OBVIOUS
  <2>4. CASE part \in slips' BY <2>4 DEF KeptUp
  <2>5. CASE part \notin slips'
    <3>1. ASSUME NEW x \in Range(sent), WillShow(history, k, refreshing = "again", x, part)
          PROVE  \E d \in Range(sent') : WillShow(history, k, refreshing' = "again", d, part)
      <4>1. CASE x # c
        <5>1. refreshing = "again" => refreshing' = "again" OBVIOUS
        <5> QED BY <1>7, <3>1, <4>1, <5>1 DEF WillShow
      <4>2. CASE x = c
        <5>1. c.todo = <<"selected">> /\ part = "dialog"
          BY <1>2, <3>1, <4>2, PanesAre DEF WillShow
        <5>2. refreshing # "idle" /\ refreshing' = "again" /\ Misses \cap {"dialog"} \subseteq with
          BY <1>1, <5>1
        <5>3. PICK j \in DOMAIN sent : sent[j] \in Refreshing /\ Refreshes(sent[j])
          BY <5>2, SomeRefresh
        <5>4. part \notin Misses BY <2>2, <2>5, <5>1, <5>2
        <5>5. ~Stray(k, sent[j], part) BY <2>3, <5>3, <5>4, AstrayIsStray DEF Misses
        <5>6. sent[j] \in Range(sent')
          <6>1. sent[j] # c BY <1>2, <5>3
          <6> QED BY <1>7, <6>1, HistoryIs
        <5>7. WillShow(history, k, refreshing' = "again", sent[j], part)
          BY <5>2, <5>3, <5>5 DEF WillShow
        <5> QED BY <5>6, <5>7
      <4> QED BY <4>1, <4>2
    <3> QED BY <1>8, <2>1, <2>2, <2>3, <3>1, StillKept
  <2> QED BY <2>4, <2>5
<1>10. console = "workflow" => provenance' = Blank BY <1>3 DEF MonitorFits
<1>11. slips' \subseteq Panes \cup {"act"} BY <1>6, HistoryIs
<1>12. refreshing' \in {"idle", "running", "again"} /\ pending' \in BOOLEAN BY <1>6, HistoryIs
<1> QED BY <1>3, <1>4, <1>5, <1>6, <1>8, <1>9, <1>10, <1>11, <1>12, HistoryIs, StepKeeps

(* An action was refused.                                                  *)
LEMMA RefusedKeeps ==
    ASSUME ConsoleInv, NEW i \in DOMAIN sent, TakeRefused(i),
           UNCHANGED <<console, at, filter, history, due>>
    PROVE  ConsoleInv'
<1>1. sent[i].todo \in ActCommands /\ sent[i].todo # <<"selected">>
  <2>1. "refused" # "selected" OBVIOUS
  <2> QED BY <2>1, WordsAre DEF TakeRefused, ActCommands, ActWords
<1>2. slips \subseteq slips /\ slips \subseteq slips \cup Panes OBVIOUS
<1> QED BY <1>1, <1>2, HistoryIs, ActionOver DEF TakeRefused, pageVars

(* An action that refreshes the page itself.                               *)
LEMMA ChangedKeeps ==
    ASSUME ConsoleInv, NEW i \in DOMAIN sent, TakeChanged(i),
           UNCHANGED <<console, at, filter, history, due>>
    PROVE  ConsoleInv'
<1>1. PICK c : c = sent[i] OBVIOUS
<1>2. c.todo \in ActCommands /\ UNCHANGED <<list, dialog, provenance>>
  BY <1>1 DEF TakeChanged, ActCommands, ActWords, pageVars
<1>3. c \in Range(sent) /\ c \in MonitorTasks /\ c \notin Refreshing /\ c.kind = "act"
      /\ (~at.open => c.left)
  BY <1>1, <1>2, CommandIs
<1>4. CASE refreshing # "idle"
  <2>1. PICK with : with = slips \cup IF c.todo = <<"selected">> THEN Misses \cap {"dialog"} ELSE {}
    OBVIOUS
  <2>2. /\ sent' = RemoveAt(sent, i) /\ refreshing' = "again" /\ EndAction(with)
        /\ chosen' = IF c.items # {} THEN {} ELSE chosen
    BY <1>1, <1>4, <2>1 DEF TakeChanged, Succeed
  <2>3. /\ slips \subseteq with /\ with \subseteq slips \cup Panes
        /\ c.todo = <<"selected">> => Misses \cap {"dialog"} \subseteq with
    BY <2>1 DEF Misses
  <2>4. chosen' \subseteq Owners BY <2>2, HistoryIs
  <2> QED BY <1>1, <1>2, <1>4, <2>2, <2>3, <2>4, ActionOver
<1>5. CASE refreshing = "idle"
  <2>1. PICK w : w = [c EXCEPT !.todo = Refresh(c.item, c.asset), !.since = Len(history)]
    OBVIOUS
  <2>2. /\ sent' = [sent EXCEPT ![i] = w] /\ refreshing' = "running"
        /\ UNCHANGED <<chosen, pending, slips>>
    <3>1. sent' = [sent EXCEPT ![i].todo = Refresh(c.item, c.asset), ![i].since = Len(history)]
          /\ refreshing' = "running" /\ UNCHANGED <<chosen, pending, slips>>
      BY <1>1, <1>5 DEF TakeChanged
    <3> QED BY <1>1, <2>1, <3>1
  <2>3. /\ Refresh(c.item, c.asset) \in Seq(Panes) /\ Refresh(c.item, c.asset) # <<>>
        /\ Range(Refresh(c.item, c.asset)) = PartsOf(console, c)
    BY HistoryIs, RefreshReads
  <2>4. /\ w \in MonitorTasks /\ w.kind = "act" /\ w.todo = Refresh(c.item, c.asset)
        /\ w.since = Len(history) /\ w.item = c.item /\ w.asset = c.asset /\ w.left = c.left
    BY <1>3, <2>1, <2>3, HistoryIs DEF MonitorTasks
  <2>5. w \in Refreshing
    <3>1. Head(w.todo) \in Panes BY <2>3, <2>4, FirstAndRest
    <3> QED BY <2>4, <3>1 DEF Refreshing, Refreshes
  <2>6. /\ TasksRun(sent, refreshing) /\ MonitorFits /\ PendingFits
        /\ \A x \in Range(sent) : MonitorTaskFits(console, Len(history), filter, at, x)
    BY DEF ConsoleInv
  <2>7. /\ sent' \in Seq(MonitorTasks)
        /\ \A x \in Range(sent') : x = w \/ \E j \in DOMAIN sent \ {i} : x = sent[j]
        /\ w \in Range(sent') /\ \A j \in DOMAIN sent \ {i} : sent[j] \in Range(sent')
        /\ \A k : NoneOf(sent', k) <=> NoneOf(sent, k)
        /\ \A k : AtMostOne(sent', k) <=> AtMostOne(sent, k)
    <3>1. w.kind = sent[i].kind /\ sent \in Seq(MonitorTasks) BY <1>1, <1>3, <2>4, HistoryIs
    <3>2. sent' = ReplaceAt(sent, i, w) BY <2>2 DEF ReplaceAt
    <3> QED BY <2>4, <3>1, <3>2, TaskReplaced
  <2>8. TasksRun(sent', refreshing')
    <3>1. AtMostOneOf(sent', Refreshing)
      BY <1>5, <2>2, <2>4, <2>6, HistoryIs, ChangedStill DEF TasksRun
    <3> QED BY <2>2, <2>5, <2>6, <2>7, <3>1 DEF TasksRun
  <2>9. MonitorTaskFits(console, Len(history), filter, at, w)
    <3>1. PartsOf(console, w) = PartsOf(console, c) BY <2>4 DEF PartsOf
    <3> QED BY <1>3, <2>3, <2>4, <2>5, <3>1, HistoryIs, PanesAre DEF MonitorTaskFits
  <2>10. \A x \in Range(sent') : MonitorTaskFits(console, Len(history), filter, at, x)
    BY <2>6, <2>7, <2>9, HistoryIs
  <2>11. PendingFits' BY <2>2, <2>6, <2>7, ActionStays
  <2>12. \A part \in Panes : PartsShown'[part] = PartsShown[part] BY <1>2, ShownParts DEF Panes
  <2>13. ASSUME at.open, NEW part \in Panes PROVE KeptUp(part)'
    <3>1. KeptUp(part) BY <2>13 DEF ConsoleInv
    <3>2. PICK k : k = KeysOf(filter, at) OBVIOUS
    <3>3. CASE Absent(k, part)
      <4>1. slips \subseteq slips' BY <2>2
      <4> QED BY <2>12, <3>1, <3>2, <3>3, <4>1, NothingAbsent
    <3>4. CASE ~Absent(k, part)
      <4>1. ASSUME NEW x \in Range(sent), WillShow(history, k, refreshing = "again", x, part)
            PROVE  \E d \in Range(sent') : WillShow(history, k, refreshing' = "again", d, part)
        <5>1. CASE x # c
          <6>1. x \in Range(sent') BY <1>1, <2>7, <5>1 DEF Range
          <6>2. WillShow(history, k, refreshing' = "again", x, part)
            BY <1>5, <4>1 DEF WillShow
          <6> QED BY <6>1, <6>2
        <5>2. CASE x = c
          <6>1. ~Stray(k, c, part) BY <1>3, <4>1, <5>2, PanesAre DEF WillShow
          <6>2. ~Stray(k, w, part) /\ part \in Range(w.todo)
            <7>1. w.filter = c.filter BY <1>3, <2>1 DEF MonitorTasks
            <7>2. ~Stray(k, w, part) BY <2>4, <6>1, <7>1 DEF Stray, KeysOf
            <7>3. part \in PartsOf(console, c) BY <2>6, <3>2, <3>4, <6>1, RefreshHas
            <7> QED BY <2>3, <2>4, <7>2, <7>3
          <6>3. WillShow(history, k, refreshing' = "again", w, part)
            BY <2>4, <2>5, <6>2, HistoryIs, NowIsRecent DEF WillShow
          <6> QED BY <2>7, <6>3
        <5> QED BY <5>1, <5>2
      <4> QED BY <2>2, <2>12, <3>1, <3>2, <4>1, StillKept
    <3> QED BY <3>3, <3>4
  <2>14. console = "workflow" => provenance' = Blank BY <1>2, <2>6 DEF MonitorFits
  <2> QED BY <2>2, <2>8, <2>10, <2>11, <2>12, <2>13, <2>14, HistoryIs, StepKeeps
<1> QED BY <1>4, <1>5

(* A read of a refresh is over: the refresh goes on with what is left of it, *)
(* is over, or runs again.                                                 *)
Continues(i, todo, with) ==
    /\ sent' = [sent EXCEPT ![i].todo = todo, ![i].since = Len(history)]
    /\ slips' = slips \cup with
    /\ UNCHANGED <<chosen, pending, refreshing>>
Stops(i, with) ==
    /\ Rest(i)
    /\ IF sent[i].kind = "act" THEN Succeed(sent[i], slips \cup with)
       ELSE slips' = slips \cup with /\ UNCHANGED <<chosen, pending>>

(* A function that refreshes the page is the only one, and has parts to    *)
(* read.                                                                   *)
LEMMA RefreshIs ==
    ASSUME ConsoleInv, NEW i \in DOMAIN sent, Refreshes(sent[i])
    PROVE  LET c == sent[i] IN
           /\ c \in Refreshing /\ c \in MonitorTasks /\ c \in Range(sent)
           /\ c.kind \in {"silent", "act"} /\ c.kind \notin Panes
           /\ c.since \in 0..Len(history) /\ (~at.open => c.left)
           /\ c.todo \in Seq(Panes) /\ c.todo # <<>> /\ Range(c.todo) \subseteq PartsOf(console, c)
           /\ \A x \in Range(sent) : x \in Refreshing => x = c
<1>1. PICK c : c = sent[i] OBVIOUS
<1>2. c \in MonitorTasks /\ c \in Range(sent) BY <1>1, HistoryIs
<1>3. c \in Refreshing BY <1>1, <1>2 DEF Refreshing
<1>4. MonitorTaskFits(console, Len(history), filter, at, c) /\ AtMostOneOf(sent, Refreshing)
  BY <1>2 DEF ConsoleInv, TasksRun
<1>5. \A x \in Range(sent) : x \in Refreshing => x = c
  BY <1>1, <1>3, <1>4 DEF Range, AtMostOneOf
<1>6. c.since \in 0..Len(history)
  <2>1. c.since \in Nat BY <1>2 DEF MonitorTasks
  <2> QED BY <1>4, <2>1, HistoryIs DEF MonitorTaskFits
<1>7. /\ ~at.open => c.left
      /\ c.todo \in Seq(Panes) /\ c.todo # <<>> /\ Range(c.todo) \subseteq PartsOf(console, c)
  BY <1>3, <1>4 DEF MonitorTaskFits
<1> QED BY <1>1, <1>2, <1>3, <1>5, <1>6, <1>7, LoadsRefreshNothing

(* A refresh has more to read: it still will show what it was going to.    *)
LEMMA RefreshGoesOn ==
    ASSUME ConsoleInv, NEW i \in DOMAIN sent, Refreshes(sent[i]),
           NEW todo \in Seq(Panes), todo # <<>>, Range(todo) \subseteq Range(sent[i].todo),
           NEW with \in SUBSET Panes, Continues(i, todo, with), UNCHANGED <<at, filter>>
    PROVE  /\ TasksRun(sent', refreshing')
           /\ \A x \in Range(sent') : MonitorTaskFits(console, Len(history), filter, at, x)
           /\ PendingFits' /\ chosen' \subseteq Owners /\ pending' \in BOOLEAN
           /\ refreshing' \in {"idle", "running", "again"}
           /\ slips' \subseteq Panes \cup {"act"} /\ with \subseteq slips'
           /\ \A part \in Panes : part \in slips => part \in slips'
           /\ \A x \in Range(sent) : x \in Range(sent') \/ x = sent[i]
           /\ \A part \in Panes :
                 /\ ~Stray(KeysOf(filter, at), sent[i], part)
                 /\ ~Absent(KeysOf(filter, at), part)
                 /\ part \in Range(todo) \/ refreshing = "again"
                 => Promised(history, KeysOf(filter, at), refreshing' = "again", sent', part)
<1>1. PICK c : c = sent[i] OBVIOUS
<1>2. /\ c \in Refreshing /\ c \in MonitorTasks /\ c \in Range(sent) /\ c.kind \in {"silent", "act"}
      /\ c.kind \notin Panes /\ (~at.open => c.left) /\ Range(c.todo) \subseteq PartsOf(console, c)
  BY <1>1, RefreshIs
<1>3. PICK w : w = [c EXCEPT !.todo = todo, !.since = Len(history)] OBVIOUS
<1>4. /\ w \in MonitorTasks /\ w.kind = c.kind /\ w.todo = todo /\ w.since = Len(history)
      /\ w.item = c.item /\ w.asset = c.asset /\ w.filter = c.filter /\ w.left = c.left
  BY <1>2, <1>3, HistoryIs DEF MonitorTasks
<1>5. w \in Refreshing
  <2>1. Head(w.todo) \in Panes BY <1>4, FirstAndRest
  <2> QED BY <1>2, <1>4, <2>1 DEF Refreshing, Refreshes
<1>6. /\ sent' = [sent EXCEPT ![i] = w] /\ slips' = slips \cup with
      /\ UNCHANGED <<chosen, pending, refreshing>>
  BY <1>1, <1>3 DEF Continues
<1>7. /\ TasksRun(sent, refreshing) /\ PendingFits
      /\ \A x \in Range(sent) : MonitorTaskFits(console, Len(history), filter, at, x)
  BY DEF ConsoleInv
<1>8. /\ sent' \in Seq(MonitorTasks)
      /\ \A x \in Range(sent') : x = w \/ \E j \in DOMAIN sent \ {i} : x = sent[j]
      /\ w \in Range(sent') /\ \A j \in DOMAIN sent \ {i} : sent[j] \in Range(sent')
      /\ \A k : NoneOf(sent', k) <=> NoneOf(sent, k)
      /\ \A k : AtMostOne(sent', k) <=> AtMostOne(sent, k)
  <2>1. w.kind = sent[i].kind /\ sent \in Seq(MonitorTasks) BY <1>1, <1>4, HistoryIs
  <2>2. sent' = ReplaceAt(sent, i, w) BY <1>6 DEF ReplaceAt
  <2> QED BY <1>4, <2>1, <2>2, TaskReplaced
<1>9. TasksRun(sent', refreshing')
  <2>1. AtMostOneOf(sent', Refreshing)
    BY <1>1, <1>2, <1>4, <1>6, <1>7, HistoryIs, ChangedStill DEF TasksRun
  <2>2. refreshing # "idle" BY <1>2, <1>7 DEF TasksRun
  <2> QED BY <1>5, <1>6, <1>7, <1>8, <2>1, <2>2 DEF TasksRun
<1>10. MonitorTaskFits(console, Len(history), filter, at, w)
  <2>1. PartsOf(console, w) = PartsOf(console, c) BY <1>4 DEF PartsOf
  <2> QED BY <1>1, <1>2, <1>4, <1>5, <2>1, HistoryIs DEF MonitorTaskFits
<1>11. \A x \in Range(sent') : MonitorTaskFits(console, Len(history), filter, at, x)
  BY <1>7, <1>8, <1>10, HistoryIs
<1>12. PendingFits' BY <1>6, <1>7, <1>8, ActionStays
<1>13. \A x \in Range(sent) : x \in Range(sent') \/ x = c BY <1>1, <1>8 DEF Range
<1>14. slips' \subseteq Panes \cup {"act"} BY <1>6, HistoryIs
<1>15. ASSUME NEW part \in Panes, ~Stray(KeysOf(filter, at), c, part),
              part \in Range(todo) \/ refreshing = "again"
       PROVE  Promised(history, KeysOf(filter, at), refreshing' = "again", sent', part)
  <2>1. PICK k : k = KeysOf(filter, at) OBVIOUS
  <2>2. ~Stray(k, w, part) BY <1>4, <1>15, <2>1 DEF Stray, KeysOf
  <2>3. WillShow(history, k, refreshing' = "again", w, part)
    BY <1>4, <1>5, <1>6, <1>15, <2>2, HistoryIs, NowIsRecent DEF WillShow
  <2> QED BY <1>8, <2>1, <2>3 DEF Promised
<1> QED BY <1>1, <1>6, <1>9, <1>11, <1>12, <1>13, <1>14, <1>15, HistoryIs

(* A refresh is over: if it was asked for again it runs again, for all     *)
(* that it was made for.                                                   *)
LEMMA RefreshStops ==
    ASSUME ConsoleInv, NEW i \in DOMAIN sent, Refreshes(sent[i]),
           NEW with \in SUBSET Panes, Stops(i, with), UNCHANGED <<at, filter>>
    PROVE  /\ TasksRun(sent', refreshing')
           /\ \A x \in Range(sent') : MonitorTaskFits(console, Len(history), filter, at, x)
           /\ PendingFits' /\ chosen' \subseteq Owners /\ pending' \in BOOLEAN
           /\ refreshing' \in {"idle", "running", "again"}
           /\ slips' \subseteq Panes \cup {"act"} /\ with \subseteq slips'
           /\ \A part \in Panes : part \in slips => part \in slips'
           /\ \A x \in Range(sent) : x \in Range(sent') \/ x = sent[i]
           /\ \A part \in Panes :
                 /\ ~Stray(KeysOf(filter, at), sent[i], part)
                 /\ ~Absent(KeysOf(filter, at), part)
                 /\ refreshing = "again"
                 => Promised(history, KeysOf(filter, at), refreshing' = "again", sent', part)
<1>1. PICK c : c = sent[i] OBVIOUS
<1>2. /\ c \in Refreshing /\ c \in MonitorTasks /\ c \in Range(sent) /\ c.kind \in {"silent", "act"}
      /\ c.kind \notin Panes /\ (~at.open => c.left)
  BY <1>1, RefreshIs
<1>3. /\ TasksRun(sent, refreshing) /\ PendingFits /\ MonitorFits
      /\ \A x \in Range(sent) : MonitorTaskFits(console, Len(history), filter, at, x)
  BY DEF ConsoleInv
<1>4. PICK s : s = RemoveAt(sent, i) OBVIOUS
<1>5. /\ s \in Seq(MonitorTasks) /\ Range(s) \subseteq Range(sent)
      /\ \A j \in DOMAIN sent \ {i} : sent[j] \in Range(s)
      /\ \A k : AtMostOne(sent, k) => AtMostOne(s, k)
      /\ \A k : c.kind # k => (NoneOf(s, k) <=> NoneOf(sent, k))
      /\ \A k : c.kind = k /\ AtMostOne(sent, k) => NoneOf(s, k)
      /\ TasksRun(s, "idle")
  BY <1>1, <1>2, <1>3, <1>4, EndRuns
<1>6. /\ TasksRun(sent', refreshing')
      /\ \A x \in Range(sent') : MonitorTaskFits(console, Len(history), filter, at, x)
      /\ refreshing' \in {"idle", "running", "again"}
      /\ NoneOf(sent', "act") <=> NoneOf(s, "act")
      /\ AtMostOne(s, "act") => AtMostOne(sent', "act")
      /\ \A x \in Range(s) : x \in Range(sent')
      /\ \A part \in Panes :
            /\ ~Stray(KeysOf(filter, at), c, part)
            /\ ~Absent(KeysOf(filter, at), part)
            /\ refreshing = "again"
            => Promised(history, KeysOf(filter, at), refreshing' = "again", sent', part)
  <2>1. CASE refreshing # "again"
    <3>1. sent' = s /\ refreshing' = "idle" BY <1>4, <2>1 DEF Stops, Rest
    <3> QED BY <1>3, <1>5, <2>1, <3>1
  <2>2. CASE refreshing = "again"
    <3>1. PICK w : w = Again(c) OBVIOUS
    <3>2. sent' = Append(s, w) /\ refreshing' = "running"
      BY <1>1, <1>4, <2>2, <3>1 DEF Stops, Rest
    <3>3. /\ Refresh(c.item, c.asset) \in Seq(Panes) /\ Refresh(c.item, c.asset) # <<>>
          /\ Range(Refresh(c.item, c.asset)) = PartsOf(console, c)
      BY HistoryIs, RefreshReads
    <3>4. /\ w \in MonitorTasks /\ w.kind = "silent" /\ w.todo = Refresh(c.item, c.asset)
          /\ w.since = Len(history) /\ w.item = c.item /\ w.asset = c.asset
          /\ w.filter = c.filter /\ w.left = c.left
      BY <1>2, <3>1, <3>3, HistoryIs DEF Again, MonitorTasks
    <3>5. w \in Refreshing
      <4>1. Head(w.todo) \in Panes BY <3>3, <3>4, FirstAndRest
      <4> QED BY <3>4, <4>1 DEF Refreshing, Refreshes
    <3>6. /\ sent' \in Seq(MonitorTasks) /\ Range(sent') = Range(s) \cup {w}
          /\ \A k : NoneOf(sent', k) <=> NoneOf(s, k) /\ w.kind # k
          /\ \A k : AtMostOne(s, k) /\ (w.kind # k \/ NoneOf(s, k)) => AtMostOne(sent', k)
      BY <1>5, <3>2, <3>4, TaskBegins
    <3>7. TasksRun(sent', refreshing')
      <4>1. AtMostOneOf(s, Refreshing) /\ Range(s) \cap Refreshing = {}
            /\ \A part \in Panes : AtMostOne(s, part)
        BY <1>5 DEF TasksRun
      <4>2. AtMostOneOf(sent', Refreshing) BY <1>5, <3>2, <3>4, <4>1, BegunStill
      <4>3. \A part \in Panes : AtMostOne(sent', part) BY <3>4, <3>6, <4>1, PanesAre
      <4> QED BY <3>2, <3>5, <3>6, <4>2, <4>3 DEF TasksRun
    <3>8. MonitorTaskFits(console, Len(history), filter, at, w)
      <4>1. PartsOf(console, w) = PartsOf(console, c) BY <3>4 DEF PartsOf
      <4> QED BY <1>2, <3>3, <3>4, <3>5, <4>1, HistoryIs, PanesAre DEF MonitorTaskFits
    <3>9. ASSUME NEW part \in Panes, ~Stray(KeysOf(filter, at), c, part),
                 ~Absent(KeysOf(filter, at), part)
          PROVE  Promised(history, KeysOf(filter, at), refreshing' = "again", sent', part)
      <4>1. PICK k : k = KeysOf(filter, at) OBVIOUS
      <4>2. ~Stray(k, w, part) BY <3>4, <3>9, <4>1 DEF Stray, KeysOf
      <4>3. part \in Range(w.todo) BY <1>3, <3>3, <3>4, <3>9, RefreshHas
      <4>4. WillShow(history, k, refreshing' = "again", w, part)
        BY <3>4, <3>5, <4>2, <4>3, HistoryIs, NowIsRecent DEF WillShow
      <4> QED BY <3>6, <4>1, <4>4 DEF Promised
    <3>10. \A x \in Range(sent') : MonitorTaskFits(console, Len(history), filter, at, x)
      BY <1>3, <1>5, <3>6, <3>8
    <3> QED BY <3>2, <3>4, <3>6, <3>7, <3>9, <3>10
  <2> QED BY <2>1, <2>2
<1>7. /\ PendingFits' /\ chosen' \subseteq Owners /\ pending' \in BOOLEAN
      /\ slips' \subseteq Panes \cup {"act"} /\ with \subseteq slips'
      /\ \A part \in Panes : part \in slips => part \in slips'
  <2>1. CASE c.kind = "act"
    <3>1. /\ EndAction(slips \cup with)
          /\ chosen' = IF c.items # {} THEN {} ELSE chosen
      BY <1>1, <2>1 DEF Stops, Succeed
    <3>2. AtMostOne(sent, "act") => NoneOf(sent', "act") BY <1>5, <1>6, <2>1
    <3>3. /\ PendingFits' /\ pending' = FALSE /\ slips' \subseteq slips \cup with
          /\ slips \cup with \subseteq slips' \cup {"act"}
      BY <1>1, <1>3, <2>1, <3>1, <3>2, HistoryIs, OperatorActionEnds
    <3> QED BY <3>1, <3>3, HistoryIs, PanesAre
  <2>2. CASE c.kind # "act"
    <3>1. slips' = slips \cup with /\ UNCHANGED <<chosen, pending>>
      BY <1>1, <2>2 DEF Stops
    <3>2. PendingFits' BY <1>3, <1>5, <1>6, <2>2, <3>1, ActionStays
    <3> QED BY <3>1, <3>2, HistoryIs
  <2> QED BY <2>1, <2>2
<1>8. \A x \in Range(sent) : x \in Range(sent') \/ x = c BY <1>1, <1>5, <1>6 DEF Range
<1> QED BY <1>1, <1>6, <1>7, <1>8

Proceeds(i, todo, with) == IF todo # <<>> THEN Continues(i, todo, with) ELSE Stops(i, with)

(* Either of the two.                                                      *)
LEMMA RefreshProceeds ==
    ASSUME ConsoleInv, NEW i \in DOMAIN sent, Refreshes(sent[i]),
           NEW todo \in Seq(Panes), Range(todo) \subseteq Range(sent[i].todo),
           NEW with \in SUBSET Panes, Proceeds(i, todo, with), UNCHANGED <<at, filter>>
    PROVE  /\ TasksRun(sent', refreshing')
           /\ \A x \in Range(sent') : MonitorTaskFits(console, Len(history), filter, at, x)
           /\ PendingFits' /\ chosen' \subseteq Owners /\ pending' \in BOOLEAN
           /\ refreshing' \in {"idle", "running", "again"}
           /\ slips' \subseteq Panes \cup {"act"} /\ with \subseteq slips'
           /\ \A part \in Panes : part \in slips => part \in slips'
           /\ \A x \in Range(sent) : x \in Range(sent') \/ x = sent[i]
           /\ \A part \in Panes :
                 /\ ~Stray(KeysOf(filter, at), sent[i], part)
                 /\ ~Absent(KeysOf(filter, at), part)
                 /\ part \in Range(todo) \/ refreshing = "again"
                 => Promised(history, KeysOf(filter, at), refreshing' = "again", sent', part)
<1>1. CASE todo # <<>>
  <2>1. Continues(i, todo, with) BY <1>1 DEF Proceeds
  <2> QED BY <1>1, <2>1, RefreshGoesOn
<1>2. CASE todo = <<>>
  <2>1. Stops(i, with) BY <1>2 DEF Proceeds
  <2>2. Range(todo) = {} BY <1>2 DEF Range
  <2> QED BY <2>1, <2>2, RefreshStops
<1> QED BY <1>1, <1>2

(* What a refresh reads of what the page is on is not nothing.             *)
LEMMA PartsAreThere ==
    ASSUME NEW c, NEW part \in PartsOf(console, c)
    PROVE  /\ part \in Panes /\ ~Absent(KeysOf(c.filter, c), part)
           /\ ~Stray(KeysOf(filter, at), c, part) => ~Absent(KeysOf(filter, at), part)
           /\ console = "workflow" => part # "provenance"
<1>1. part \in Panes /\ (console = "workflow" => part # "provenance")
  BY DEF PartsOf, Panes
<1>2. ~Absent(KeysOf(c.filter, c), part) BY DEF PartsOf, Absent, KeysOf
<1> QED BY <1>1, <1>2 DEF Stray, Absent

(* A part that the read did not write.                                     *)
LEMMA UnwrittenKept ==
    ASSUME ConsoleInv, NEW i \in DOMAIN sent, Refreshes(sent[i]),
           NEW todo \in Seq(Panes), Range(todo) \subseteq Range(sent[i].todo),
           NEW with \in SUBSET Panes, Proceeds(i, todo, with), UNCHANGED <<at, filter, history, due>>,
           NEW part \in Panes, KeptUp(part), PartsShown'[part] = PartsShown[part],
           part \in Range(sent[i].todo) => part \in with \cup Range(todo)
    PROVE  KeptUp(part)'
<1>1. PICK c : c = sent[i] OBVIOUS
<1>2. PICK k : k = KeysOf(filter, at) OBVIOUS
<1>3. /\ with \subseteq slips' /\ (part \in slips => part \in slips')
      /\ \A x \in Range(sent) : x \in Range(sent') \/ x = c
      /\ /\ ~Stray(k, c, part) /\ ~Absent(k, part)
         /\ part \in Range(todo) \/ refreshing = "again"
         => Promised(history, k, refreshing' = "again", sent', part)
  BY <1>1, <1>2, RefreshProceeds
<1>4. CASE part \in slips' BY <1>4 DEF KeptUp
<1>5. CASE due > 0 /\ ~Absent(k, part) BY <1>2, <1>5 DEF KeptUp
<1>6. CASE part \notin slips' /\ IsKept(history, k, refreshing = "again", sent, part, PartsShown[part])
  <2>1. IsKept(history, k, refreshing' = "again", sent', part, PartsShown'[part])
    <3>1. CASE Absent(k, part) BY <1>6, <3>1 DEF IsKept
    <3>2. CASE ~Absent(k, part) /\ PartsShown[part] = ShownAt(history, part, k[part], Len(history))
      BY <3>2 DEF IsKept
    <3>3. CASE ~Absent(k, part) /\ Promised(history, k, refreshing = "again", sent, part)
      <4>1. PICK x \in Range(sent) : WillShow(history, k, refreshing = "again", x, part)
        BY <3>3 DEF Promised
      <4>2. CASE x = c
        <5>1. c.kind # part /\ c.todo # <<"selected">>
          <6>1. c \in Refreshing /\ c.kind \notin Panes BY <1>1, RefreshIs
          <6>2. <<"selected">> \in ActCommands BY DEF ActCommands, ActWords
          <6> QED BY <6>1, <6>2, LoadsRefreshNothing
        <5>2. ~Stray(k, c, part) /\ (part \in Range(c.todo) \/ refreshing = "again")
          BY <4>1, <4>2, <5>1 DEF WillShow
        <5>3. part \in Range(todo) \/ refreshing = "again" BY <1>1, <1>3, <1>6, <5>2
        <5> QED BY <1>3, <3>3, <5>2, <5>3 DEF IsKept
      <4>3. CASE x # c
        <5>1. x \notin Refreshing BY <1>1, <4>3, RefreshIs
        <5>2. x \in Range(sent') /\ WillShow(history, k, refreshing' = "again", x, part)
          BY <1>3, <4>1, <4>3, <5>1 DEF WillShow
        <5> QED BY <3>3, <5>2 DEF IsKept, Promised
      <4> QED BY <4>2, <4>3
    <3> QED BY <1>6, <3>1, <3>2, <3>3 DEF IsKept
  <2> QED BY <1>2, <2>1 DEF KeptUp
<1> QED BY <1>2, <1>3, <1>4, <1>5, <1>6 DEF KeptUp

(* The part that it wrote.                                                 *)
LEMMA WrittenKept ==
    ASSUME ConsoleInv, NEW i \in DOMAIN sent, Refreshes(sent[i]),
           NEW todo \in Seq(Panes), Range(todo) \subseteq Range(sent[i].todo),
           NEW with \in SUBSET Panes, Proceeds(i, todo, with), UNCHANGED <<at, filter, history, due>>,
           NEW part \in PartsOf(console, sent[i]), part = Head(sent[i].todo), KeptUp(part),
           NEW n \in sent[i].since..Len(history),
           NEW got, got = ReadAt(sent[i], part, n), PartsShown'[part] = got,
           with = IF Astray(sent[i], part) \/ (Older(part, got) /\ refreshing # "again")
                  THEN {part} ELSE {}
    PROVE  KeptUp(part)'
<1>1. PICK c : c = sent[i] OBVIOUS
<1>2. PICK k : k = KeysOf(filter, at) OBVIOUS
<1>3. /\ with \subseteq slips' /\ (part \in slips => part \in slips')
      /\ \A x \in Range(sent) : x \in Range(sent') \/ x = c
      /\ /\ ~Stray(k, c, part) /\ ~Absent(k, part) /\ refreshing = "again"
         => Promised(history, k, refreshing' = "again", sent', part)
  BY <1>1, <1>2, PartsAreThere, RefreshProceeds
<1>4. part \in Panes /\ (~Stray(k, c, part) => ~Absent(k, part)) BY <1>1, <1>2, PartsAreThere
<1>5. CASE part \in slips' BY <1>5 DEF KeptUp
<1>6. CASE part \notin slips'
  <2>1. ~Stray(k, c, part) /\ ~Absent(k, part) /\ (Older(part, got) => refreshing = "again")
    BY <1>1, <1>2, <1>3, <1>4, <1>6, AstrayIsStray
  <2>2. ASSUME \/ got = ShownAt(history, part, k[part], Len(history))
               \/ Promised(history, k, refreshing' = "again", sent', part)
        PROVE  KeptUp(part)'
    <3>1. IsKept(history, k, refreshing' = "again", sent', part, PartsShown'[part])
      BY <2>1, <2>2 DEF IsKept
    <3> QED BY <1>2, <3>1 DEF KeptUp
  <2>3. CASE refreshing = "again" BY <1>3, <2>1, <2>2, <2>3
  <2>4. CASE due > 0 BY <1>2, <2>1, <2>4 DEF KeptUp
  <2>5. n \in 0..Len(history) /\ c.kind # part /\ c.todo # <<"selected">>
    <3>1. c \in Refreshing /\ c.since \in 0..Len(history) /\ c.kind \notin Panes
      BY <1>1, RefreshIs
    <3>2. <<"selected">> \in ActCommands BY DEF ActCommands, ActWords
    <3>3. c.todo # <<"selected">> BY <3>1, <3>2, LoadsRefreshNothing
    <3>4. n \in 0..Len(history) BY <1>1, <3>1, HistoryIs
    <3> QED BY <1>4, <3>1, <3>3, <3>4
  <2>6. got = ShownAt(history, part, k[part], n)
    <3>1. KeysOf(c.filter, c)[part] = k[part] BY <2>1 DEF Stray
    <3> QED BY <1>1, <1>4, <3>1, ReadsShow
  <2>7. CASE refreshing # "again" /\ PartsShown[part] = ShownAt(history, part, k[part], Len(history))
    <3>1. KeyFits(part, k[part]) BY <1>2, <1>4, <2>1, KeysOfPage
    <3>2. got = ShownAt(history, part, k[part], Len(history))
      BY <1>4, <2>1, <2>5, <2>6, <2>7, <3>1, NewerIsCurrent
    <3> QED BY <2>2, <3>2
  <2>8. CASE refreshing # "again" /\ Promised(history, k, refreshing = "again", sent, part)
    <3>1. PICK x \in Range(sent) : WillShow(history, k, FALSE, x, part)
      BY <2>8 DEF Promised
    <3>2. CASE x = c
      <4>1. Recent(history, part, k[part], c.since) BY <1>1, <2>5, <3>1, <3>2 DEF WillShow
      <4>2. got = ShownAt(history, part, k[part], Len(history)) BY <1>1, <2>6, <4>1 DEF Recent
      <4> QED BY <2>2, <4>2
    <3>3. CASE x # c
      <4>1. x \notin Refreshing BY <1>1, <3>3, RefreshIs
      <4>2. x \in Range(sent') /\ WillShow(history, k, refreshing' = "again", x, part)
        BY <1>3, <3>1, <3>3, <4>1 DEF WillShow
      <4>3. Promised(history, k, refreshing' = "again", sent', part) BY <4>2 DEF Promised
      <4> QED BY <2>2, <4>3
    <3> QED BY <3>2, <3>3
  <2> QED BY <1>2, <1>3, <1>6, <2>1, <2>3, <2>4, <2>7, <2>8 DEF KeptUp, IsKept
<1> QED BY <1>5, <1>6

(* A read of a refresh arrives or fails.                                   *)
LEMMA TakeReadKeeps ==
    ASSUME ConsoleInv, NEW i \in DOMAIN sent, TakeRead(i),
           UNCHANGED <<console, at, filter, history, due>>
    PROVE  ConsoleInv'
<1>1. Refreshes(sent[i]) BY DEF TakeRead
<1>2. PICK c : c = sent[i] OBVIOUS
<1>3. /\ c \in MonitorTasks /\ c.since \in 0..Len(history)
      /\ c.todo \in Seq(Panes) /\ c.todo # <<>> /\ Range(c.todo) \subseteq PartsOf(console, c)
  BY <1>1, <1>2, RefreshIs
<1>4. PICK part : part = Head(c.todo) OBVIOUS
<1>5. /\ part \in Range(c.todo) /\ Tail(c.todo) \in Seq(Panes)
      /\ Range(c.todo) = {part} \cup Range(Tail(c.todo))
  BY <1>3, <1>4, FirstAndRest
<1>6. /\ part \in PartsOf(console, c) /\ part \in Panes /\ ~Absent(KeysOf(c.filter, c), part)
      /\ console = "workflow" => part # "provenance"
  BY <1>3, <1>5, PartsAreThere
<1>7. at.open => \A p \in Panes : KeptUp(p) BY DEF ConsoleInv
<1>8. console = "workflow" => provenance = Blank BY DEF ConsoleInv, MonitorFits
<1>9. ASSUME NEW todo \in Seq(Panes), Range(todo) \subseteq Range(c.todo),
             NEW with \in SUBSET Panes, Proceeds(i, todo, with),
             \A p \in Panes : \/ PartsShown'[p] = PartsShown[p]
                              \/ PartsShown'[p] \in ShownOf(p) /\ PartsShown'[p].version <= MaxHistory,
             console = "workflow" => provenance' = Blank,
             at.open => \A p \in Panes : KeptUp(p)'
      PROVE  ConsoleInv'
  <2>1. /\ TasksRun(sent', refreshing')
        /\ \A x \in Range(sent') : MonitorTaskFits(console, Len(history), filter, at, x)
        /\ PendingFits' /\ chosen' \subseteq Owners /\ pending' \in BOOLEAN
        /\ refreshing' \in {"idle", "running", "again"} /\ slips' \subseteq Panes \cup {"act"}
    BY <1>1, <1>2, <1>9, RefreshProceeds
  <2> QED BY <1>9, <2>1, HistoryIs, StepKeeps
<1>10. CASE \E n \in c.since..Len(history) :
               LET got == ReadAt(c, part, n) IN
               /\ Write(part, got)
               /\ Proceeds(i, Tail(c.todo),
                           IF Astray(c, part) \/ (Older(part, got) /\ refreshing # "again")
                           THEN {part} ELSE {})
  <2>1. PICK n \in c.since..Len(history) :
           /\ Write(part, ReadAt(c, part, n))
           /\ Proceeds(i, Tail(c.todo),
                       IF Astray(c, part) \/ (Older(part, ReadAt(c, part, n)) /\ refreshing # "again")
                       THEN {part} ELSE {})
    BY <1>10
  <2>2. PICK got : got = ReadAt(c, part, n) OBVIOUS
  <2>3. PICK with : with = IF Astray(c, part) \/ (Older(part, got) /\ refreshing # "again")
                           THEN {part} ELSE {}
    OBVIOUS
  <2>4. /\ Proceeds(i, Tail(c.todo), with) /\ with \in SUBSET Panes
        /\ Range(Tail(c.todo)) \subseteq Range(c.todo)
    BY <1>5, <1>6, <2>1, <2>2, <2>3
  <2>5. \A p \in Panes : PartsShown'[p] = IF p = part THEN got ELSE PartsShown[p]
    BY <1>6, <2>1, <2>2, WrittenPart
  <2>6. got \in ShownOf(part) /\ got.version <= MaxHistory
    <3>1. n \in Nat /\ n <= Len(history) BY <1>3, <2>1, HistoryIs
    <3>2. KeyFits(part, KeysOf(c.filter, c)[part]) BY <1>3, <1>6, KeysFit
    <3>3. got = ShownAt(history, part, KeysOf(c.filter, c)[part], n) BY <1>6, <2>2, ReadsShow
    <3>4. got \in ShownOf(part) /\ got.version \in 0..n
      BY <1>6, <3>1, <3>2, <3>3, ShownIsTyped
    <3> QED BY <3>1, <3>4, HistoryIs
  <2>7. ASSUME at.open, NEW p \in Panes PROVE KeptUp(p)'
    <3>1. KeptUp(p) BY <1>7, <2>7
    <3>2. CASE p = part
      <4>1. KeptUp(part) /\ PartsShown'[part] = got BY <1>6, <2>5, <3>1, <3>2
      <4>2. KeptUp(part)'
        BY <1>1, <1>2, <1>4, <1>5, <1>6, <2>1, <2>2, <2>3, <2>4, <4>1, WrittenKept
      <4> QED BY <3>2, <4>2
    <3>3. CASE p # part
      <4>1. PartsShown'[p] = PartsShown[p] BY <2>5, <3>3
      <4>2. p \in Range(c.todo) => p \in with \cup Range(Tail(c.todo)) BY <1>5, <3>3
      <4> QED BY <1>1, <1>2, <1>5, <2>4, <3>1, <4>1, <4>2, UnwrittenKept
    <3> QED BY <3>2, <3>3
  <2>8. \A p \in Panes : \/ PartsShown'[p] = PartsShown[p]
                         \/ PartsShown'[p] \in ShownOf(p) /\ PartsShown'[p].version <= MaxHistory
    BY <2>5, <2>6
  <2>9. console = "workflow" => provenance' = Blank
    BY <1>6, <1>8, <2>5, ShownParts DEF Panes
  <2> QED BY <1>5, <1>9, <2>4, <2>7, <2>8, <2>9
<1>11. CASE /\ UNCHANGED pageVars
            /\ IF console = "workflow" THEN Proceeds(i, <<>>, Range(c.todo))
               ELSE Proceeds(i, Tail(c.todo), {part})
  <2>1. PICK todo \in {<<>>, Tail(c.todo)}, with \in {Range(c.todo), {part}} :
           Proceeds(i, todo, with) /\ Range(c.todo) \subseteq with \cup Range(todo)
    BY <1>5, <1>11
  <2>2. /\ todo \in Seq(Panes) /\ Range(todo) \subseteq Range(c.todo)
        /\ with \in SUBSET Panes
    <3>1. <<>> \in Seq(Panes) /\ Range(<<>>) = {} BY DEF Range
    <3>2. Range(c.todo) \subseteq Panes BY <1>3 DEF PartsOf, Panes
    <3> QED BY <1>5, <1>6, <2>1, <3>1, <3>2
  <2>3. UNCHANGED <<list, dialog, provenance>> BY <1>11 DEF pageVars
  <2>4. \A p \in Panes : PartsShown'[p] = PartsShown[p] BY <2>3, ShownParts DEF Panes
  <2>5. at.open => \A p \in Panes : KeptUp(p)'
    BY <1>1, <1>2, <1>7, <2>1, <2>2, <2>4, UnwrittenKept
  <2> QED BY <1>8, <1>9, <2>1, <2>2, <2>3, <2>4, <2>5
<1> QED BY <1>2, <1>4, <1>10, <1>11 DEF TakeRead, Proceeds, Continues, Stops

-----------------------------------------------------------------------------
(* The invariant.                                                          *)
LEMMA ConsoleStarts ==
    ASSUME ConsoleInit
    PROVE  ConsoleInv
<1>1. /\ console \in Consoles /\ filter = "all" /\ history = <<>> /\ sent = <<>>
      /\ at \in [open : {TRUE}, item : Owners \cup {Off}, asset : {Off}]
      /\ provenance = Blank /\ chosen = {} /\ pending = FALSE /\ refreshing = "idle"
      /\ due = 0 /\ slips = {}
  BY DEF ConsoleInit
<1>2. /\ history \in Seq(ServerChanges) /\ sent \in Seq(MonitorTasks) /\ Len(history) = 0
      /\ DOMAIN history = {} /\ DOMAIN sent = {} /\ Range(sent) = {}
  <2>1. /\ history \in Seq(ServerChanges) /\ sent \in Seq(MonitorTasks) /\ Len(history) = 0
        /\ DOMAIN history = {} /\ DOMAIN sent = {}
    BY <1>1
  <2> QED BY <2>1 DEF Range
<1>3. PICK k : k = KeysOf(filter, at) OBVIOUS
<1>4. \A part \in Panes :
         PartsShown[part] = IF Absent(k, part) THEN Blank ELSE ShownAt(history, part, k[part], 0)
  <2>1. PartsShown["list"] = ShownAt(history, "list", k["list"], 0)
    BY <1>1, <1>3, ShownParts DEF ConsoleInit, ListAt, VersionOf, ItemVersion, ShownAt, KeysOf
  <2>2. at.item # Off => PartsShown["dialog"] = ShownAt(history, "dialog", k["dialog"], 0)
    BY <1>3, ShownParts DEF ConsoleInit, DialogAt, VersionOf, ItemVersion, ShownAt, KeysOf
  <2>3. at.item = Off => PartsShown["dialog"] = Blank BY ShownParts DEF ConsoleInit
  <2>4. at.asset = Off /\ PartsShown["provenance"] = Blank BY <1>1, ShownParts
  <2> QED BY <1>3, <2>1, <2>2, <2>3, <2>4 DEF Panes, Absent, KeysOf
<1>5. \A part \in Panes : KeptUp(part)
  BY <1>2, <1>3, <1>4 DEF KeptUp, IsKept
<1>6. \A part \in Panes : PartsShown[part] = Blank \/ (PartsShown[part] \in ShownOf(part) /\ PartsShown[part].version = 0)
  <2>1. ASSUME NEW part \in Panes, ~Absent(k, part)
        PROVE  PartsShown[part] \in ShownOf(part) /\ PartsShown[part].version = 0
    <3>1. KeyFits(part, k[part]) BY <1>1, <1>3, <2>1 DEF Panes, Absent, KeysOf, KeyFits, Filters
    <3>2. 0 \in Nat OBVIOUS
    <3>3. /\ ShownAt(history, part, k[part], 0) \in ShownOf(part)
          /\ ShownAt(history, part, k[part], 0).version \in 0..0
      BY <3>1, <3>2, ShownIsTyped
    <3> QED BY <1>4, <2>1, <3>3
  <2> QED BY <1>4, <2>1
<1>7. ConsoleTyped
  <2>1. /\ list \in Lists \cup {Blank} /\ dialog \in Dialogs \cup {Blank}
        /\ provenance \in Provenances \cup {Blank}
    BY <1>6, ShownParts DEF ShownOf, Panes
  <2>2. \A part \in Panes : PartsShown[part] = Blank \/ PartsShown[part].version <= MaxHistory
    BY <1>6, ConsoleBounds
  <2>3. at \in [open : BOOLEAN, item : Owners \cup {Off}, asset : Owners \cup {Off}]
    <3>1. {TRUE} \subseteq BOOLEAN /\ {Off} \subseteq Owners \cup {Off} OBVIOUS
    <3> QED BY <1>1, <3>1
  <2>4. /\ history \in Seq(ServerChanges)
        /\ Len(history) <= MaxHistory /\ due \in 0..Len(history)
    BY <1>1, <1>2, ConsoleBounds 
  <2> QED BY <1>1, <2>1, <2>2, <2>3, <2>4 DEF ConsoleTyped, Filters
<1>8. TasksRun(sent, refreshing) /\ PendingFits
  BY <1>1, <1>2 DEF TasksRun, AtMostOne, AtMostOneOf, PendingFits, NoneOf
<1> QED BY <1>1, <1>2, <1>5, <1>7, <1>8 DEF ConsoleInv, MonitorFits

(* An answer arrives at the page.                                          *)
LEMMA TakeKeeps ==
    ASSUME ConsoleInv, NEW i \in DOMAIN sent, Take(i)
    PROVE  ConsoleInv'
BY LoadKeeps, TakeReadKeeps, ChangedKeeps, RefusedKeeps DEF Take

(* The actions of the operator, each about the item shown.                 *)
LEMMA OperatorActs ==
    ASSUME ConsoleInv, ActOnRun \/ ConfirmSelected \/ ConfirmAll \/ onSelectPrimaryAsset
    PROVE  ConsoleInv'
<1>1. chosen \subseteq Owners /\ (dialog # Blank => dialog.of \in Owners)
  BY DEF ConsoleInv, ConsoleTyped, Dialogs
<1>2. Actionable \subseteq {dialog.of} BY DEF Actionable
<1>3. PICK items \in SUBSET Owners :
         /\ dialog # Blank /\ items \subseteq {dialog.of}
         /\ \E command \in MonitorCommands : RunAction(command, dialog.of, items)
  <2>1. CASE ActOnRun BY <2>1 DEF ActOnRun, MonitorCommands
  <2>2. CASE ConfirmSelected
    BY <1>1, <1>2, <2>2 DEF ConfirmSelected, BatchShown, selectedActionableImportItemIds,
       MonitorCommands
  <2>3. CASE ConfirmAll BY <1>1, <1>2, <2>3 DEF ConfirmAll, BatchShown, MonitorCommands
  <2>4. CASE onSelectPrimaryAsset
    BY <2>4 DEF onSelectPrimaryAsset, BatchShown, MonitorCommands
  <2> QED BY <2>1, <2>2, <2>3, <2>4
<1> QED BY <1>3, ActKeeps

(* Nothing changes.                                                        *)
LEMMA StutterKeeps ==
    ASSUME ConsoleInv, UNCHANGED consoleVars
    PROVE  ConsoleInv'
<1>1. UNCHANGED <<console, at, filter, list, dialog, provenance, chosen, pending, refreshing,
                  sent, history, due, slips>>
  BY DEF consoleVars, pageVars
<1>2. \A part \in Panes : PartsShown'[part] = PartsShown[part] BY <1>1, ShownParts DEF Panes
<1>3. /\ TasksRun(sent, refreshing) /\ MonitorFits /\ PendingFits
      /\ \A c \in Range(sent) : MonitorTaskFits(console, Len(history), filter, at, c)
  BY DEF ConsoleInv
<1>4. PendingFits' /\ (console = "workflow" => provenance' = Blank)
  BY <1>1, <1>3 DEF PendingFits, MonitorFits
<1>5. ASSUME at.open, NEW part \in Panes PROVE KeptUp(part)'
  <2>1. KeptUp(part) BY <1>5 DEF ConsoleInv
  <2> QED BY <1>1, <1>2, <2>1, StillKept
<1> QED BY <1>1, <1>2, <1>3, <1>4, <1>5, HistoryIs, StepKeeps

(* Every step of the monitors keeps the invariant.                         *)
LEMMA ConsoleMoves ==
    ASSUME ConsoleInv, [ConsoleNext]_consoleVars
    PROVE  ConsoleInv'
BY OpenPageKeeps, LeaveMonitorKeeps, SelectItemKeeps, OthersChangeKeeps, CloseKeeps, SelectAssetKeeps,
   CloseAssetKeeps, FilterKeeps, TickItemKeeps, OperatorActs, ServeTaskKeeps, TakeKeeps, EventKeeps,
   LostKeeps, StutterKeeps DEF ConsoleNext

(* What the monitors of the console keep as the operator moves and acts,   *)
(* as the answers come in any order and as others change the items.        *)
THEOREM ConsoleInvariance == ConsoleSpec => []ConsoleInv
BY ConsoleStarts, ConsoleMoves, PTL DEF ConsoleSpec

(* The variables of the monitors of the console keep their types.          *)
THEOREM ConsoleTypes == ConsoleSpec => []ConsoleTypeOK
<1>1. ASSUME ConsoleInv PROVE ConsoleTypeOK
  <2>1. due \in 0..MaxHistory BY HistoryIs, <1>1
  <2>2. \A shown \in {list, dialog, provenance} \ {Blank} : shown.version <= MaxHistory
    BY <1>1, ShownParts DEF ConsoleInv, ConsoleTyped, Panes
  <2> QED BY <1>1, <2>1, <2>2 DEF ConsoleInv, ConsoleTyped, ConsoleTypeOK, ServerChanges
<1> QED BY <1>1, ConsoleInvariance, PTL

(* When no function runs and no event is on its way, a monitor shows what  *)
(* the route and the filter ask for, as the server has it, whatever was    *)
(* selected, closed, filtered, left and opened meanwhile, unless a read of *)
(* it failed, the page was not told that it changed, or something made for *)
(* another state of the page, or older, was written over it.               *)
THEOREM MonitorsSettle == ConsoleSpec => []MonitorSettles
<1>1. ASSUME ConsoleInv, at.open, sent = <<>>, due = 0, NEW part \in Panes, part \notin slips
      PROVE  PartsShown[part] = IF Absent(KeysOf(filter, at), part) THEN Blank
                           ELSE ShownAt(history, part, KeysOf(filter, at)[part], Len(history))
  <2>1. KeptUp(part) BY <1>1 DEF ConsoleInv
  <2>2. Range(sent) = {} BY <1>1 DEF Range
  <2>3. IsKept(history, KeysOf(filter, at), refreshing = "again", sent, part, PartsShown[part])
    BY <1>1, <2>1 DEF KeptUp
  <2> QED BY <2>2, <2>3 DEF IsKept, Promised
<1>2. ASSUME ConsoleInv PROVE MonitorSettles
  <2>1. SUFFICES ASSUME at.open, sent = <<>>, due = 0
                 PROVE  /\ "list" \notin slips => list = ListAt(filter, Len(history))
                        /\ "dialog" \notin slips =>
                              dialog = IF at.item = Off THEN Blank ELSE DialogAt(at.item, Len(history))
                        /\ "provenance" \notin slips =>
                              provenance = IF at.asset = Off THEN Blank
                                           ELSE ProvenanceAt(at.asset, Len(history))
    BY DEF MonitorSettles
  <2>2. "list" \notin slips => list = ListAt(filter, Len(history))
    <3>1. ShownAt(history, "list", filter, Len(history)) = ListAt(filter, Len(history))
      BY DEF ShownAt, ListAt, VersionOf, ItemVersion
    <3> QED BY <1>1, <1>2, <2>1, <3>1, ShownParts DEF Panes, Absent, KeysOf
  <2>3. "dialog" \notin slips =>
           dialog = IF at.item = Off THEN Blank ELSE DialogAt(at.item, Len(history))
    <3>1. ShownAt(history, "dialog", at.item, Len(history)) = DialogAt(at.item, Len(history))
      BY DEF ShownAt, DialogAt, VersionOf, ItemVersion
    <3> QED BY <1>1, <1>2, <2>1, <3>1, ShownParts DEF Panes, Absent, KeysOf
  <2>4. "provenance" \notin slips =>
           provenance = IF at.asset = Off THEN Blank ELSE ProvenanceAt(at.asset, Len(history))
    <3>1. ShownAt(history, "provenance", at.asset, Len(history))
             = ProvenanceAt(at.asset, Len(history))
      BY DEF ShownAt, ProvenanceAt, VersionOf, ItemVersion
    <3> QED BY <1>1, <1>2, <2>1, <3>1, ShownParts DEF Panes, Absent, KeysOf
  <2> QED BY <2>2, <2>3, <2>4
<1> QED BY <1>2, ConsoleInvariance, PTL

(* Of the actions of an operator one runs at a time, and the buttons are   *)
(* disabled exactly while it does, unless the dialog or the page was       *)
(* closed under it; and a batch is asked to confirm items of its own only. *)
THEOREM OneActionRuns == ConsoleSpec => []OneAction
<1>1. ASSUME ConsoleInv PROVE OneAction
  <2>1. "act" \notin slips => Cardinality(Actions) <= 1 /\ (pending <=> Actions # {})
    <3>1. PendingFits BY <1>1 DEF ConsoleInv
    <3> QED BY <1>1, <3>1, HistoryIs, AtMostOneCounted, ActionsAre DEF PendingFits
  <2>2. ASSUME NEW i \in Actions, sent[i].todo \in MonitorCommands
        PROVE  sent[i].items \subseteq {sent[i].target}
    <3>1. i \in DOMAIN sent /\ sent[i].todo \in ActCommands BY <2>2, WordsAre DEF Actions
    <3> QED BY <1>1, <2>2, <3>1, CommandIs
  <2> QED BY <2>1, <2>2 DEF OneAction
<1> QED BY <1>1, ConsoleInvariance, PTL
-----------------------------------------------------------------------------
(* The pages together (MCWorkspace): what holds of one page on its own     *)
(* holds of it in a behaviour that may be about any of them.               *)
AboutOne == page \in {"screen", "editor", "console", "backup", "shell", "reuse", "governance",
                      "overview", "uploads", "lease"}

(* No step takes two pages, and none changes which page it is about.       *)
LEMMA OnePageSteps ==
    [Next]_vars =>
           /\ [ScreensNext]_screenVars
           /\ [EditorNext]_editorVars
           /\ [ConsoleNext]_consoleVars
           /\ [BackupNext]_backupVars
           /\ [ShellNext]_shellVars
           /\ [ReuseNext]_reuseVars
           /\ [GovernanceNext]_governanceVars
           /\ [OverviewNext]_overviewVars
           /\ [UploadNext]_uploadVars
           /\ [LeaseNext]_leaseVars
           /\ page' = page
<1> SUFFICES ASSUME [Next]_vars
             PROVE  /\ [ScreensNext]_screenVars
                    /\ [EditorNext]_editorVars
                    /\ [ConsoleNext]_consoleVars
                    /\ [BackupNext]_backupVars
                    /\ [ShellNext]_shellVars
                    /\ [ReuseNext]_reuseVars
                    /\ [GovernanceNext]_governanceVars
                    /\ [OverviewNext]_overviewVars
                    /\ [UploadNext]_uploadVars
                    /\ [LeaseNext]_leaseVars
                    /\ page' = page
  OBVIOUS
<1>1. CASE ScreenStep BY <1>1 DEF ScreenStep, pagesVars, serviceVars
<1>2. CASE EditorStep BY <1>2 DEF EditorStep, pagesVars, serviceVars
<1>3. CASE ConsoleStep BY <1>3 DEF ConsoleStep, pagesVars, serviceVars
<1>4. CASE BackupStep BY <1>4 DEF BackupStep, pagesVars, serviceVars
<1>5. CASE ShellStep BY <1>5 DEF ShellStep, pagesVars, serviceVars
<1>6. CASE ReuseStep BY <1>6 DEF ReuseStep, pagesVars, serviceVars
<1>7. CASE GovernanceStep BY <1>7 DEF GovernanceStep, pagesVars, serviceVars
<1>8. CASE OverviewStep BY <1>8 DEF OverviewStep, pagesVars, serviceVars
<1>9. CASE UploadStep BY <1>9 DEF UploadStep, pagesVars, serviceVars
<1>10. CASE LeaseStep BY <1>10 DEF LeaseStep, pagesVars, serviceVars
<1>11. CASE UNCHANGED vars BY <1>11 DEF vars, pagesVars, serviceVars
<1> QED BY <1>1, <1>2, <1>3, <1>4, <1>5, <1>6, <1>7, <1>8, <1>9, <1>10, <1>11 DEF Next

(* Every behaviour of the pages together is one of each page.              *)
LEMMA EachOnItsOwn ==
    Spec => /\ ScreensSpec
            /\ EditorSpec
            /\ ConsoleSpec
            /\ BackupSpec
            /\ ShellSpec
            /\ ReuseSpec
            /\ GovernanceSpec
            /\ OverviewSpec
            /\ UploadSpec
            /\ LeaseSpec
<1>1. Init => ScreensInit /\ EditorInit /\ ConsoleInit /\ BackupInit /\ ShellInit
                /\ ReuseInit /\ GovernanceInit /\ OverviewInit /\ UploadInit /\ LeaseInit
  BY DEF Init
<1>2. [Next]_vars => [ScreensNext]_screenVars BY OnePageSteps
<1>3. [Next]_vars => [EditorNext]_editorVars BY OnePageSteps
<1>4. [Next]_vars => [ConsoleNext]_consoleVars BY OnePageSteps
<1>5. [Next]_vars => [BackupNext]_backupVars BY OnePageSteps
<1>6. [Next]_vars => [ShellNext]_shellVars BY OnePageSteps
<1>7. [Next]_vars => [ReuseNext]_reuseVars BY OnePageSteps
<1>8. [Next]_vars => [GovernanceNext]_governanceVars BY OnePageSteps
<1>9. [Next]_vars => [OverviewNext]_overviewVars BY OnePageSteps
<1>10. [Next]_vars => [UploadNext]_uploadVars BY OnePageSteps
<1>11. [Next]_vars => [LeaseNext]_leaseVars BY OnePageSteps
<1> QED BY <1>1, <1>2, <1>3, <1>4, <1>5, <1>6, <1>7, <1>8, <1>9, <1>10, <1>11, PTL
    DEF Spec, ScreensSpec, EditorSpec, ConsoleSpec, BackupSpec, ShellSpec, ReuseSpec, GovernanceSpec, OverviewSpec, UploadSpec, LeaseSpec

(* Every variable of every page keeps its type, whichever page the         *)
(* behaviour is about.                                                     *)
THEOREM WorkspaceTyped == Spec => []TypeOK
<1>1. Init => AboutOne BY DEF Init, AboutOne
<1>2. AboutOne /\ [Next]_vars => AboutOne' BY OnePageSteps DEF AboutOne
<1>3. AboutOne /\ ScreensTypeOK /\ EditorTypeOK /\ ConsoleTypeOK /\ BackupTypeOK /\ ShellTypeOK
        /\ ReuseTypeOK /\ GovernanceTypeOK /\ OverviewTypeOK /\ UploadTypeOK /\ LeaseTypeOK
        => TypeOK
  BY DEF AboutOne, TypeOK
<1> QED BY <1>1, <1>2, <1>3, EachOnItsOwn, ScreensTyped, EditorTypes, ConsoleTypes, BackupTyped,
    ShellTyped, ReuseTypes, GovernanceTyped, OverviewTypes, UploadsTyped, LeaseTyped, PTL DEF Spec

(* The creator and admin pages and the two services, in one behaviour:     *)
(* every safety invariant that the run of the pages checks.                *)
THEOREM WorkspaceIsSafe ==
    Spec => [](/\ QuietScreenIsCurrent /\ ForeignDataIsStray /\ SuccessIsShown
               /\ WorkIsKept /\ TitlesFollowLocale
               /\ MonitorSettles /\ OneAction
               /\ AppliesWhatWasChecked
               /\ PageFollowsRoute /\ SessionIsOwn
               /\ ReuseShowsItsShot
               /\ PanelsAgree /\ SomeoneGoverns /\ OneActivePrompt
               /\ BlockersAreCurrent
               /\ UploadsSettle /\ LeaseIsHeld)
BY EachOnItsOwn, QuietScreensAreCurrent, ForeignDataIsOnlyStray, SuccessesAreShown, WorkStaysKept,
   TitlesFollow, MonitorsSettle, OneActionRuns, AppliedAsChecked, PageIsOfRoute, SessionBelongs,
   ReuseShowsTheShot, PanelsAlwaysAgree, SomeoneAlwaysGoverns, OnePromptActive, BlockersCurrent,
   UploadsAreSettled, LeaseHeld, PTL
=============================================================================
