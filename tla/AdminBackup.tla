---------------------------- MODULE AdminBackup ----------------------------
(***************************************************************************)
(* The backup page of the admin console (useAdminBackupController).  The   *)
(* operator creates packages, selects one, has a preflight compare it with *)
(* the running system, and applies it: that replaces the running system.   *)
(* A package can only be applied while the preflight shown is its own.     *)
(*                                                                         *)
(* The load runs again whenever the selection changes, for it closes over  *)
(* it; the actions refresh the list for the selection they were made with, *)
(* which the operator may have changed since.                              *)
(*                                                                         *)
(* The server is external (backupapp): packages are numbered as they are   *)
(* created, and listed newest first.                                       *)
(***************************************************************************)
EXTENDS ScreenRequests, Integers, FiniteSets, SequencesExt

CONSTANTS
    MaxPackages,    \* bound: packages there can be
    MaxRestores,    \* bound: how often one is applied
    MaxSteps        \* bound: selections, actions, visits and faults, together

ASSUME BackupBounds == MaxPackages \in Nat \ {0} /\ MaxRestores \in Nat

VARIABLES
    backupOpen,         \* the page is open
    backup,             \* the newest package listed, or Blank
    selectedPackageId,  \* the package selected, or 0
    restorePreflight,   \* the preflight shown: its package, and how many
                        \* restores the system had seen, or Blank
    actionPending,      \* backupActionPending
    loadSince,          \* the load under way: packages when it was sent, or Off
    work,               \* the actions running, oldest first
    packages,           \* server: the newest package
    restores,           \* server: how many packages were applied
    steps,              \* how many bounded moves there were
    unwatched           \* an action was left running, or failed halfway

backupVars == <<backupOpen, backup, selectedPackageId, restorePreflight, actionPending,
                loadSince, work, packages, restores, steps, unwatched>>

Step == steps < MaxSteps /\ steps' = steps + 1

-----------------------------------------------------------------------------
(* What a list asked for at "since" may show, newest package of which.     *)
loadBackupPanel(since) == since..packages

(* A command names the package selected, and remembers the preflight shown.*)
mutateBackup(kind) ==
    [kind |-> kind, of |-> selectedPackageId, at |-> "asked", since |-> 0, from |-> 0,
     checked |-> restorePreflight]

(* What syncSelection selects when the packages 1..newest are listed and   *)
(* the selection was "current": the one preferred, else the current one,   *)
(* else the newest.                                                        *)
syncSelection(newest, preferred, current) ==
    CASE preferred \in 1..newest -> preferred
      [] preferred \notin 1..newest /\ current \in 1..newest -> current
      [] OTHER -> newest

(* The preflight that is kept when p is selected.                          *)
PreflightOf(p) ==
    IF restorePreflight # Blank /\ restorePreflight.of = p THEN restorePreflight ELSE Blank

(* refreshBackup: the packages listed are shown and p is selected, which   *)
(* makes the load run again, or a page that is closed clear itself.        *)
ShowPackages(newest, p, preflight) ==
    IF p # selectedPackageId /\ ~backupOpen
    THEN /\ selectedPackageId' = 0 /\ restorePreflight' = Blank /\ backup' = Blank
         /\ UNCHANGED loadSince
    ELSE /\ selectedPackageId' = p /\ restorePreflight' = preflight /\ backup' = newest
         /\ loadSince' = IF p # selectedPackageId THEN packages ELSE loadSince

EnterBackup ==
    /\ Step /\ ~backupOpen
    /\ backupOpen' = TRUE /\ loadSince' = packages
    /\ UNCHANGED <<backup, selectedPackageId, restorePreflight, actionPending, work,
                   packages, restores, unwatched>>

LeaveBackup ==
    /\ Step /\ backupOpen
    /\ backupOpen' = FALSE /\ loadSince' = Off
    /\ backup' = Blank /\ selectedPackageId' = 0 /\ restorePreflight' = Blank
    /\ actionPending' = FALSE
    /\ unwatched' = (work # <<>>)
    /\ UNCHANGED <<work, packages, restores>>

(* The answer to the load: the packages at some moment since it was sent.  *)
(* A load that fails shows nothing but keeps the selection.                *)
LandPackages ==
    /\ loadSince # Off
    /\ \/ \E newest \in loadBackupPanel(loadSince) :
            LET p == syncSelection(newest, 0, selectedPackageId) IN
            /\ selectedPackageId' = p /\ backup' = newest
            /\ restorePreflight' = PreflightOf(p)
            /\ loadSince' = IF p = selectedPackageId THEN Off ELSE packages
            /\ UNCHANGED steps
       \/ /\ Step /\ backup' = Blank /\ loadSince' = Off
          /\ UNCHANGED <<selectedPackageId, restorePreflight>>
    /\ UNCHANGED <<backupOpen, actionPending, work, packages, restores, unwatched>>

onSelectBackupPackage ==
    /\ Step /\ backupOpen /\ backup # Blank
    /\ \E p \in 1..backup \ {selectedPackageId} : ShowPackages(backup, p, PreflightOf(p))
    /\ UNCHANGED <<backupOpen, actionPending, work, packages, restores, unwatched>>

-----------------------------------------------------------------------------
(* runBackupAction: one at a time, while the packages are shown.           *)
runBackupAction(kind) ==
    /\ Step /\ backupOpen /\ ~actionPending /\ backup # Blank
    /\ actionPending' = TRUE
    /\ work' = Append(work, mutateBackup(kind))
    /\ UNCHANGED <<backupOpen, backup, selectedPackageId, restorePreflight, loadSince,
                   packages, restores, unwatched>>

onCreateBackupPackage == packages < MaxPackages /\ runBackupAction("create")
onDownloadBackupPackage == selectedPackageId # 0 /\ runBackupAction("download")
onPreflightRestoreBackupPackage ==
    selectedPackageId # 0 /\ runBackupAction("preflight")

onApplyBackupPackage ==
    /\ selectedPackageId # 0 /\ restores < MaxRestores
    /\ restorePreflight # Blank /\ restorePreflight.of = selectedPackageId
    /\ runBackupAction("apply")

(* The server runs a command; the answer to one that changes something can *)
(* be lost.  The answer names the package created, or how many restores    *)
(* the system has seen.                                                    *)
ServeBackup(i) ==
    LET w == work[i]
        Reply(at) == work' = [work EXCEPT ![i].at = at,
                                ![i].since = IF w.kind = "create" THEN packages' ELSE restores']
    IN
    /\ w.at = "asked"
    /\ packages' = packages + (IF w.kind = "create" THEN 1 ELSE 0)
    /\ restores' = restores + (IF w.kind = "apply" THEN 1 ELSE 0)
    /\ packages' <= MaxPackages /\ restores' <= MaxRestores
    /\ \/ Reply("done") /\ UNCHANGED <<steps, unwatched>>
       \/ /\ w.kind \in {"create", "apply"} /\ Step /\ Reply("failed")
          /\ unwatched' = (unwatched \/ w.kind = "apply")
    /\ UNCHANGED <<backupOpen, backup, selectedPackageId, restorePreflight,
                   actionPending, loadSince>>

RefuseBackup(i) ==
    /\ Step /\ work[i].at = "asked"
    /\ work' = [work EXCEPT ![i].at = "failed"]
    /\ UNCHANGED <<backupOpen, backup, selectedPackageId, restorePreflight,
                   actionPending, loadSince, packages, restores, unwatched>>

Finished(i) == work' = RemoveAt(work, i) /\ actionPending' = FALSE

(* The answer to a command: a preflight is shown, whatever is selected     *)
(* now; a creation and a restore read the list again.                      *)
TakeBackupAnswer(i) ==
    LET w == work[i] IN
    /\ \/ /\ w.at = "failed" \/ (w.at = "done" /\ w.kind = "download")
          /\ Finished(i) /\ UNCHANGED restorePreflight
       \/ /\ w.at = "done" /\ w.kind = "preflight"
          /\ Finished(i) /\ restorePreflight' = [of |-> w.of, after |-> w.since]
       \/ /\ w.at = "done" /\ w.kind \in {"create", "apply"}
          /\ work' = [work EXCEPT ![i].at = "listing", ![i].from = packages]
          /\ UNCHANGED <<actionPending, restorePreflight>>
    /\ UNCHANGED <<backupOpen, backup, selectedPackageId, loadSince, packages,
                   restores, steps, unwatched>>

(* Mutant: a restore does not use up its preflight.                        *)
PreflightNeverUsedUp(kind, p) == PreflightOf(p)

PreflightAfter(kind, p) == IF kind = "apply" THEN Blank ELSE PreflightOf(p)

(* The list read after a command: the package created is selected, or the  *)
(* package restored again, and the preflight of the latter is used up.  If *)
(* the list cannot be read the restore counts as failed and keeps it.      *)
TakeBackupList(i) ==
    LET w == work[i] IN
    /\ w.at = "listing"
    /\ \/ /\ \E newest \in loadBackupPanel(w.from) :
                LET p == syncSelection(newest, IF w.kind = "create" THEN w.since ELSE w.of, w.of)
                IN  ShowPackages(newest, p, PreflightAfter(w.kind, p))
          /\ UNCHANGED <<steps, unwatched>>
       \/ /\ Step /\ unwatched' = (unwatched \/ w.kind = "apply")
          /\ UNCHANGED <<selectedPackageId, restorePreflight, backup, loadSince>>
    /\ Finished(i)
    /\ UNCHANGED <<backupOpen, packages, restores>>

-----------------------------------------------------------------------------
BackupInit ==
    /\ backupOpen = FALSE /\ backup = Blank /\ selectedPackageId = 0
    /\ restorePreflight = Blank /\ actionPending = FALSE /\ loadSince = Off
    /\ work = <<>> /\ packages \in 0..1 /\ restores = 0 /\ steps = 0
    /\ unwatched = FALSE

BackupNext ==
    \/ EnterBackup \/ LeaveBackup \/ LandPackages \/ onSelectBackupPackage
    \/ onCreateBackupPackage \/ onDownloadBackupPackage
    \/ onPreflightRestoreBackupPackage \/ onApplyBackupPackage
    \/ \E i \in DOMAIN work :
            ServeBackup(i) \/ RefuseBackup(i) \/ TakeBackupAnswer(i) \/ TakeBackupList(i)

BackupSpec == BackupInit /\ [][BackupNext]_backupVars

-----------------------------------------------------------------------------
BackupTypeOK ==
    /\ backupOpen \in BOOLEAN /\ actionPending \in BOOLEAN /\ unwatched \in BOOLEAN
    /\ backup \in 0..MaxPackages \cup {Blank}
    /\ selectedPackageId \in 0..MaxPackages
    /\ restorePreflight = Blank
         \/ restorePreflight \in [of : 1..MaxPackages, after : 0..MaxRestores]
    /\ loadSince \in 0..MaxPackages \cup {Off}
    /\ packages \in 0..MaxPackages /\ restores \in 0..MaxRestores

(* A restore is only asked for on the strength of a preflight of the same  *)
(* package, made since this page last restored anything.  The exceptions:  *)
(* the page was left while an action ran, or a restore was done but its    *)
(* answer, or the list read after it, failed; the preflight then outlives  *)
(* the restore, and the package can be applied again without a new one.    *)
AppliesWhatWasChecked ==
    \A i \in DOMAIN work : work[i].kind = "apply" /\ work[i].at = "asked" =>
        /\ work[i].checked.of = work[i].of
        /\ ~unwatched => work[i].checked.after = restores
=============================================================================
