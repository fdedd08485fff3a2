---------------------------- MODULE MCWorkspace ----------------------------
(***************************************************************************)
(* The creator and admin pages, for TLC.  A behaviour is about one page: a *)
(* screen that shows server data (Screens), an editor that keeps a draft   *)
(* (DraftEditor), the creator app around its pages (CreatorShell), the     *)
(* pages about reused assets (AssetReuse), or of the console a monitor     *)
(* (AdminConsole), the backup page (AdminBackup), the governance page      *)
(* (GovernancePage) or the overview (AdminOverview); or about one of two   *)
(* services that several users call from such pages: uploads into a batch  *)
(* (UploadSession) and the edit lease (CollabLease).  The others stay as   *)
(* they start.                                                             *)
(***************************************************************************)
EXTENDS Screens, DraftEditor, AdminConsole, AdminBackup, CreatorShell, AssetReuse,
        GovernancePage, AdminOverview, UploadSession, CollabLease

VARIABLE page   \* which of them the behaviour is about

pagesVars == <<screenVars, editorVars, consoleVars, backupVars, shellVars, reuseVars,
              governanceVars, overviewVars>>
serviceVars == <<uploadVars, leaseVars>>

vars == <<page, pagesVars, serviceVars>>

(* Of two owners that differ in nothing the console starts on one.         *)
FirstOwner == CHOOSE o \in Owners : TRUE

(* The pages a behaviour is not about have one start each.                 *)
Init ==
    /\ page \in {"screen", "editor", "console", "backup", "shell", "reuse", "governance",
              "overview", "uploads", "lease"}
    /\ ScreensInit /\ (page # "screen" => scene = "shot")
    /\ EditorInit /\ (page # "editor" => editor = "audio")
    /\ ConsoleInit /\ at.item \in {Off, FirstOwner}
    /\ page # "console" => console = "workflow" /\ at.item = Off
    /\ BackupInit /\ (page # "backup" => packages = 0)
    /\ ReuseInit
    /\ GovernanceInit /\ \A m \in Members : memberRole[m] = "lead"
    /\ OverviewInit /\ UploadInit /\ LeaseInit
    /\ ShellInit
    /\ page # "shell" =>
          /\ routeState.route = "home" /\ routeState.projectId = Off
          /\ remembered = Off /\ ~overridden /\ ~cookie

(* Moves and events share a budget, and so do edits and moves of an editor.*)
(* The shot page, which reads in two steps, runs two functions at a time.  *)
ScreenStep ==
    /\ page = "screen" /\ ScreensNext
    /\ moves' + Len(log') <= 3
    /\ scene = "shot" => Len(calls') <= 2
    /\ UNCHANGED <<page, editorVars, consoleVars, backupVars, shellVars, reuseVars,
                   governanceVars, overviewVars, serviceVars>>
EditorStep ==
    /\ page = "editor" /\ EditorNext
    /\ edits' + changes' <= 4
    /\ UNCHANGED <<page, screenVars, consoleVars, backupVars, shellVars, reuseVars,
                   governanceVars, overviewVars, serviceVars>>

(* The assets page has three panes to refresh: one change is enough.  Of   *)
(* the functions of a page three run at a time: a load, a refresh and an   *)
(* action.                                                                 *)
ConsoleStep ==
    /\ page = "console" /\ ConsoleNext
    /\ Len(sent') <= 3
    /\ console = "assets" => Len(history') <= 1
    /\ UNCHANGED <<page, screenVars, editorVars, backupVars, shellVars, reuseVars,
                   governanceVars, overviewVars, serviceVars>>
BackupStep ==
    /\ page = "backup" /\ BackupNext
    /\ UNCHANGED <<page, screenVars, editorVars, consoleVars, shellVars, reuseVars,
                   governanceVars, overviewVars, serviceVars>>
ShellStep ==
    /\ page = "shell" /\ ShellNext
    /\ UNCHANGED <<page, screenVars, editorVars, consoleVars, backupVars, reuseVars,
                   governanceVars, overviewVars, serviceVars>>
ReuseStep ==
    /\ page = "reuse" /\ ReuseNext
    /\ UNCHANGED <<page, screenVars, editorVars, consoleVars, backupVars, shellVars,
                   governanceVars, overviewVars, serviceVars>>

(* Two functions or commands at a time are enough for every race of them,  *)
(* and so is one with a form that is edited meanwhile.                     *)
GovernanceStep ==
    /\ page = "governance" /\ GovernanceNext
    /\ Cardinality(edited') + Len(governanceWork') <= 2
    /\ UNCHANGED <<page, screenVars, editorVars, consoleVars, backupVars, shellVars,
                   reuseVars, overviewVars, serviceVars>>

(* Two reports on the server and a move, or one and three.                 *)
OverviewStep ==
    /\ page = "overview" /\ OverviewNext
    /\ glances' + 2 * Len(worlds') <= 7
    /\ UNCHANGED <<page, screenVars, editorVars, consoleVars, backupVars, shellVars,
                   reuseVars, governanceVars, serviceVars>>

UploadStep ==
    /\ page = "uploads" /\ UploadNext
    /\ UNCHANGED <<page, pagesVars, leaseVars>>
LeaseStep ==
    /\ page = "lease" /\ LeaseNext
    /\ UNCHANGED <<page, pagesVars, uploadVars>>

Next ==
    \/ ScreenStep \/ EditorStep \/ ConsoleStep \/ BackupStep
    \/ ShellStep \/ ReuseStep \/ GovernanceStep \/ OverviewStep
    \/ UploadStep \/ LeaseStep

Spec == Init /\ [][Next]_vars

(* Every variable of what the behaviour is about keeps its type; the       *)
(* others do not change.                                                   *)
TypeOK ==
    CASE page = "screen" -> ScreensTypeOK
      [] page = "editor" -> EditorTypeOK
      [] page = "console" -> ConsoleTypeOK
      [] page = "backup" -> BackupTypeOK
      [] page = "shell" -> ShellTypeOK
      [] page = "reuse" -> ReuseTypeOK
      [] page = "governance" -> GovernanceTypeOK
      [] page = "overview" -> OverviewTypeOK
      [] page = "uploads" -> UploadTypeOK
      [] page = "lease" -> LeaseTypeOK
=============================================================================
