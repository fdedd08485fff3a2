----------------------------- MODULE PageProofs -----------------------------
(***************************************************************************)
(* Proofs about the backup page of the admin console (AdminBackup), the    *)
(* creator app around its pages (CreatorShell), the governance page with   *)
(* its services (GovernancePage), the pages that reuse an asset            *)
(* (AssetReuse) and the editors that keep a draft (DraftEditor).           *)
(*                                                                         *)
(* Whether a restore is applied on the strength of a preflight that still  *)
(* holds depends on the actions that have not ended: BackupInv says what   *)
(* each of them carries, and where the restore is that a preflight shown   *)
(* does not know of.  Whether the app shows the page of its route depends  *)
(* on which controllers are enabled, and what each was last given:         *)
(* ShellInv relates the data of every page to that, and the session to the *)
(* call about it.  Whether someone can govern depends on the commands that *)
(* were checked and not yet written: GovernanceInv says that each of them  *)
(* is still allowed, and what the two panels of the page have in common.   *)
(* Whether the reuse page shows its shot depends on the order in which the *)
(* answers come: ReuseInv says which one it waits for.  Whether an editor  *)
(* keeps the user's work, and its titles follow the language of the page,  *)
(* depends on the loads and saves under way: EditorInv says what each is   *)
(* about, and that items are numbered in their order.                      *)
(***************************************************************************)
EXTENDS AdminBackup, CreatorShell, GovernancePage, AssetReuse, DraftEditor, WorkLemmas,
        FiniteSetTheorems, WellFoundedInduction

Preflights == [of : 1..MaxPackages, after : 0..MaxRestores]

(* What an action under way can be.                                        *)
BackupActions ==
    [kind : {"create", "download", "preflight", "apply"}, of : 0..MaxPackages,
     at : {"asked", "done", "failed", "listing"}, since : Nat, from : 0..MaxPackages,
     checked : Preflights \cup {Blank}]

(* An answered preflight says how many restores there had been, and that   *)
(* is still right while no other action was let loose; a restore carries   *)
(* the preflight of its package that was shown when it was asked for.      *)
ActionFits(w) ==
    /\ w.kind \in {"preflight", "apply"} => w.of # 0
    /\ w.kind = "preflight" /\ w.at = "done" =>
          /\ w.since \in 0..MaxRestores
          /\ ~unwatched => w.since = restores
    /\ w.kind = "apply" =>
          /\ w.checked \in Preflights /\ w.checked.of = w.of
          /\ w.at = "asked" /\ ~unwatched => w.checked.after = restores

(* One action at a time, unless one was left running.                      *)
OneAtATime == ~unwatched => Len(work) <= 1 /\ (work # <<>> => actionPending)

(* A preflight shown knows of every restore, but of one that is ending.    *)
RestoreEnding == \E i \in DOMAIN work : work[i].kind = "apply" /\ work[i].at \in {"done", "listing"}
PreflightHolds ==
    ~unwatched /\ restorePreflight # Blank =>
        restorePreflight.after = restores \/ RestoreEnding

BackupInv ==
    /\ BackupTypeOK
    /\ work \in Seq(BackupActions)
    /\ \A i \in DOMAIN work : ActionFits(work[i])
    /\ OneAtATime
    /\ PreflightHolds

-----------------------------------------------------------------------------
LEMMA ActionAt ==
    ASSUME BackupInv, NEW i \in DOMAIN work
    PROVE  work[i] \in BackupActions /\ ActionFits(work[i]) /\ i \in Nat
           /\ Len(work) \in Nat /\ DOMAIN work = 1 .. Len(work)
<1>1. work \in Seq(BackupActions) BY DEF BackupInv
<1>2. Len(work) \in Nat /\ DOMAIN work = 1 .. Len(work) BY <1>1, LenProperties
<1>3. i \in 1 .. Len(work) BY <1>2
<1>4. work[i] \in BackupActions BY <1>1, <1>3, ElementOfSeq
<1> QED BY <1>2, <1>3, <1>4 DEF BackupInv

(* Of two actions under way one was left running. *)
LEMMA OnlyAction ==
    ASSUME BackupInv, ~unwatched, NEW i \in DOMAIN work, NEW j \in DOMAIN work
    PROVE  i = j /\ Len(work) = 1
<1>1. /\ Len(work) \in Nat /\ DOMAIN work = 1 .. Len(work) BY ActionAt
<1>2. Len(work) <= 1 BY DEF BackupInv, OneAtATime
<1> QED BY <1>1, <1>2

(* What is selected is a package, or none. *)
LEMMA SelectionIsListed ==
    ASSUME NEW newest \in 0..MaxPackages, NEW preferred, NEW current \in 0..MaxPackages
    PROVE  syncSelection(newest, preferred, current) \in 0..MaxPackages
<1>1. \A x \in 1..newest : x \in 0..MaxPackages BY BackupBounds
<1> QED BY <1>1 DEF syncSelection

(* Showing a list keeps the preflight it is given, or shows none. *)
LEMMA PackagesShown ==
    ASSUME BackupTypeOK, NEW newest \in 0..MaxPackages, NEW p \in 0..MaxPackages,
           NEW preflight, ShowPackages(newest, p, preflight)
    PROVE  /\ backup' \in 0..MaxPackages \cup {Blank}
           /\ selectedPackageId' \in 0..MaxPackages
           /\ restorePreflight' \in {preflight, Blank}
           /\ loadSince' \in 0..MaxPackages \cup {Off}
<1>1. CASE p # selectedPackageId /\ ~backupOpen
  <2>1. /\ selectedPackageId' = 0 /\ restorePreflight' = Blank /\ backup' = Blank
        /\ loadSince' = loadSince
    BY <1>1 DEF ShowPackages
  <2> QED BY <2>1, BackupBounds DEF BackupTypeOK
<1>2. CASE ~(p # selectedPackageId /\ ~backupOpen)
  <2>1. /\ selectedPackageId' = p /\ restorePreflight' = preflight /\ backup' = newest
        /\ loadSince' = IF p # selectedPackageId THEN packages ELSE loadSince
    BY <1>2 DEF ShowPackages
  <2> QED BY <2>1 DEF BackupTypeOK
<1> QED BY <1>1, <1>2

(* A step that leaves the actions alone, and shows no new preflight. *)
LEMMA ActionsStand ==
    ASSUME BackupInv, restorePreflight' \in {restorePreflight, Blank},
           UNCHANGED <<actionPending, work, restores, unwatched>>
    PROVE  /\ work' \in Seq(BackupActions)
           /\ (\A i \in DOMAIN work : ActionFits(work[i]))'
           /\ OneAtATime' /\ PreflightHolds'
<1>1. \A w : ActionFits(w)' <=> ActionFits(w) BY DEF ActionFits
<1>2. RestoreEnding' <=> RestoreEnding BY DEF RestoreEnding
<1>3. PreflightHolds' BY <1>2 DEF BackupInv, PreflightHolds
<1>4. OneAtATime' BY DEF BackupInv, OneAtATime
<1>5. (\A i \in DOMAIN work : ActionFits(work[i]))' BY <1>1 DEF BackupInv
<1> QED BY <1>3, <1>4, <1>5 DEF BackupInv

LEMMA BackupInvInit == ASSUME BackupInit PROVE BackupInv
<1>1. work = <<>> /\ DOMAIN work = {} /\ Len(work) = 0
  <2>1. work = <<>> BY DEF BackupInit
  <2>2. DOMAIN <<>> = {} /\ Len(<<>>) = 0 OBVIOUS
  <2> QED BY <2>1, <2>2
<1>2. <<>> \in Seq(BackupActions) OBVIOUS
<1>3. BackupTypeOK
  <2>1. /\ 0 \in 0..MaxPackages /\ 0 \in 0..MaxRestores
        /\ \A n \in 0..1 : n \in 0..MaxPackages
    BY BackupBounds
  <2> QED BY <2>1 DEF BackupInit, BackupTypeOK
<1>4. OneAtATime BY <1>1 DEF OneAtATime
<1>5. PreflightHolds BY DEF BackupInit, PreflightHolds
<1> QED BY <1>1, <1>2, <1>3, <1>4, <1>5 DEF BackupInv

LEMMA EnterKeeps == ASSUME BackupInv, EnterBackup PROVE BackupInv'
<1>1. BackupTypeOK' BY DEF BackupInv, BackupTypeOK, EnterBackup
<1> QED BY <1>1, ActionsStand DEF EnterBackup, BackupInv

LEMMA LeaveKeeps == ASSUME BackupInv, LeaveBackup PROVE BackupInv'
<1>1. BackupTypeOK'
  <2>1. unwatched' \in BOOLEAN /\ actionPending' \in BOOLEAN BY DEF LeaveBackup
  <2>2. 0 \in 0..MaxPackages BY BackupBounds
  <2>3. /\ backupOpen' = FALSE /\ loadSince' = Off /\ backup' = Blank
        /\ selectedPackageId' = 0 /\ restorePreflight' = Blank
        /\ UNCHANGED <<packages, restores>>
    BY DEF LeaveBackup
  <2>4. packages \in 0..MaxPackages /\ restores \in 0..MaxRestores
    BY DEF BackupInv, BackupTypeOK
  <2> QED BY <2>1, <2>2, <2>3, <2>4 DEF BackupTypeOK
<1>2. work' = work /\ restores' = restores /\ restorePreflight' = Blank
      /\ (unwatched' <=> work # <<>>)
  BY DEF LeaveBackup
<1>3. \A i \in DOMAIN work : unwatched'
  <2>1. DOMAIN <<>> = {} OBVIOUS
  <2> QED BY <1>2, <2>1
<1>4. \A i \in DOMAIN work : ActionFits(work[i])'
  <2> SUFFICES ASSUME NEW i \in DOMAIN work PROVE ActionFits(work[i])' OBVIOUS
  <2>1. unwatched' /\ ActionFits(work[i]) BY <1>3 DEF BackupInv
  <2> QED BY <1>2, <2>1 DEF ActionFits
<1>5. (\A i \in DOMAIN work : ActionFits(work[i]))' BY <1>2, <1>4
<1>6. OneAtATime'
  <2>1. work = <<>> => Len(work) = 0 OBVIOUS
  <2> QED BY <1>2, <2>1 DEF OneAtATime
<1>7. PreflightHolds' BY <1>2 DEF PreflightHolds
<1> QED BY <1>1, <1>2, <1>5, <1>6, <1>7 DEF BackupInv

LEMMA LandKeeps == ASSUME BackupInv, LandPackages PROVE BackupInv'
<1>1. BackupTypeOK BY DEF BackupInv
<1>2. UNCHANGED <<backupOpen, actionPending, work, packages, restores, unwatched>>
  BY DEF LandPackages
<1>3. /\ restorePreflight' \in {restorePreflight, Blank}
      /\ backup' \in 0..MaxPackages \cup {Blank}
      /\ selectedPackageId' \in 0..MaxPackages
      /\ loadSince' \in 0..MaxPackages \cup {Off}
  <2>1. ASSUME NEW newest \in loadBackupPanel(loadSince), NEW p,
               p = syncSelection(newest, 0, selectedPackageId),
               selectedPackageId' = p, backup' = newest,
               restorePreflight' = PreflightOf(p),
               loadSince' = IF p = selectedPackageId THEN Off ELSE packages
        PROVE  <1>3!1 /\ <1>3!2 /\ <1>3!3 /\ <1>3!4
    <3>1. newest \in 0..MaxPackages
      <4>1. loadSince \in 0..MaxPackages /\ packages \in 0..MaxPackages
        BY <1>1 DEF BackupTypeOK, LandPackages
      <4> QED BY <4>1, BackupBounds DEF loadBackupPanel
    <3>2. p \in 0..MaxPackages BY <1>1, <2>1, <3>1, SelectionIsListed DEF BackupTypeOK
    <3>3. restorePreflight' \in {restorePreflight, Blank} BY <2>1 DEF PreflightOf
    <3> QED BY <1>1, <2>1, <3>1, <3>2, <3>3 DEF BackupTypeOK
  <2>2. CASE /\ backup' = Blank /\ loadSince' = Off
             /\ UNCHANGED <<selectedPackageId, restorePreflight>>
    BY <1>1, <2>2 DEF BackupTypeOK
  <2> QED BY <2>1, <2>2 DEF LandPackages
<1>4. BackupTypeOK' BY <1>1, <1>2, <1>3 DEF BackupTypeOK
<1> QED BY <1>2, <1>3, <1>4, ActionsStand DEF BackupInv

LEMMA SelectKeeps == ASSUME BackupInv, onSelectBackupPackage PROVE BackupInv'
<1>1. BackupTypeOK BY DEF BackupInv
<1>2. UNCHANGED <<backupOpen, actionPending, work, packages, restores, unwatched>>
  BY DEF onSelectBackupPackage
<1>3. PICK p \in 1..backup \ {selectedPackageId} : ShowPackages(backup, p, PreflightOf(p))
  BY DEF onSelectBackupPackage
<1>4. backup \in 0..MaxPackages BY <1>1 DEF BackupTypeOK, onSelectBackupPackage
<1>5. p \in 0..MaxPackages BY <1>4, BackupBounds
<1>6. PreflightOf(p) \in {restorePreflight, Blank} BY DEF PreflightOf
<1>7. /\ backup' \in 0..MaxPackages \cup {Blank}
      /\ selectedPackageId' \in 0..MaxPackages
      /\ restorePreflight' \in {PreflightOf(p), Blank}
      /\ loadSince' \in 0..MaxPackages \cup {Off}
  BY <1>1, <1>3, <1>4, <1>5, PackagesShown
<1>8. restorePreflight' \in {restorePreflight, Blank} BY <1>6, <1>7
<1>9. BackupTypeOK' BY <1>1, <1>2, <1>7, <1>8 DEF BackupTypeOK
<1> QED BY <1>2, <1>8, <1>9, ActionsStand DEF BackupInv

(* An action begins alone, unless one was left running. *)
LEMMA BeginKeeps ==
    ASSUME BackupInv, NEW kind \in {"create", "download", "preflight", "apply"},
           runBackupAction(kind),
           kind \in {"preflight", "apply"} => selectedPackageId # 0,
           kind = "apply" => restorePreflight # Blank /\ restorePreflight.of = selectedPackageId
    PROVE  BackupInv'
<1>1. BackupTypeOK BY DEF BackupInv
<1>2. /\ UNCHANGED <<backupOpen, backup, selectedPackageId, restorePreflight, loadSince,
                     packages, restores, unwatched>>
      /\ ~actionPending /\ actionPending' = TRUE /\ work' = Append(work, mutateBackup(kind))
  BY DEF runBackupAction
<1>3. BackupTypeOK' BY <1>1, <1>2 DEF BackupTypeOK
<1>4. PICK w : w = mutateBackup(kind) OBVIOUS
<1>5. /\ w.kind = kind /\ w.of = selectedPackageId /\ w.at = "asked"
      /\ w.checked = restorePreflight /\ w \in BackupActions
  <2>1. restorePreflight \in Preflights \cup {Blank} BY <1>1 DEF BackupTypeOK, Preflights
  <2>2. 0 \in 0..MaxPackages /\ 0 \in Nat BY BackupBounds
  <2>3. selectedPackageId \in 0..MaxPackages BY <1>1 DEF BackupTypeOK
  <2>4. w = [kind |-> kind, of |-> selectedPackageId, at |-> "asked", since |-> 0, from |-> 0,
             checked |-> restorePreflight]
    BY <1>4 DEF mutateBackup
  <2> QED BY <2>1, <2>2, <2>3, <2>4 DEF BackupActions
<1>6. /\ work' \in Seq(BackupActions) /\ Len(work') = Len(work) + 1
      /\ \A j \in DOMAIN work' :
            \/ j = Len(work) + 1 /\ work'[j] = w
            \/ j \in DOMAIN work /\ work'[j] = work[j]
  <2>1. work \in Seq(BackupActions) BY DEF BackupInv
  <2>2. work' = Append(work, w) BY <1>2, <1>4
  <2> QED BY <1>5, <2>1, <2>2, OneBegins
<1>7. ~unwatched => work = <<>> BY <1>2 DEF BackupInv, OneAtATime
<1>8. ~unwatched /\ restorePreflight # Blank => restorePreflight.after = restores
  <2>1. DOMAIN <<>> = {} OBVIOUS
  <2>2. ~unwatched => ~RestoreEnding BY <1>7, <2>1 DEF RestoreEnding
  <2> QED BY <2>2 DEF BackupInv, PreflightHolds
<1>9. ActionFits(w)'
  <2>1. kind = "apply" => restorePreflight \in Preflights
    BY <1>1 DEF BackupTypeOK, Preflights
  <2> QED BY <1>2, <1>5, <1>8, <2>1 DEF ActionFits
<1>10. (\A j \in DOMAIN work : ActionFits(work[j]))'
  <2>1. ASSUME NEW j \in DOMAIN work', NEW x, x = work'[j]
        PROVE  ActionFits(x)'
    <3>1. x = w \/ (j \in DOMAIN work /\ x = work[j]) BY <1>6, <2>1
    <3>2. j \in DOMAIN work => ActionFits(work[j]) BY DEF BackupInv
    <3>3. x = work[j] /\ j \in DOMAIN work => ActionFits(x)'
      BY <1>2, <3>2 DEF ActionFits
    <3> QED BY <1>9, <3>1, <3>3
  <2> QED BY <2>1 DEF ActionFits
<1>11. OneAtATime'
  <2>1. Len(<<>>) = 0 OBVIOUS
  <2>2. ~unwatched => Len(work') = 1 BY <1>6, <1>7, <2>1
  <2> QED BY <1>2, <2>2 DEF OneAtATime
<1>12. PreflightHolds' BY <1>2, <1>8 DEF PreflightHolds
<1> QED BY <1>3, <1>6, <1>10, <1>11, <1>12 DEF BackupInv

(* Action i changes, and no other does. *)
LEMMA ActionChanges ==
    ASSUME BackupInv, NEW i \in DOMAIN work, NEW w \in BackupActions,
           work' = [work EXCEPT ![i] = w],
           UNCHANGED actionPending, unwatched => unwatched', ActionFits(w)'
    PROVE  /\ work' \in Seq(BackupActions) /\ i \in DOMAIN work' /\ work'[i] = w
           /\ (\A j \in DOMAIN work : ActionFits(work[j]))'
           /\ OneAtATime'
<1>1. work \in Seq(BackupActions) BY DEF BackupInv
<1>2. /\ work' \in Seq(BackupActions) /\ Len(work') = Len(work) /\ DOMAIN work' = DOMAIN work
      /\ \A j \in DOMAIN work : work'[j] = IF j = i THEN w ELSE work[j]
  BY <1>1, OneChanges
<1>3. ASSUME NEW j \in DOMAIN work', NEW x, x = work'[j]
      PROVE  ActionFits(x)'
  <2>1. CASE j = i BY <1>2, <1>3, <2>1
  <2>2. CASE j # i
    <3>1. j \in DOMAIN work /\ x = work[j] BY <1>2, <1>3, <2>2
    <3>2. unwatched /\ unwatched' BY <2>2, <3>1, OnlyAction
    <3>3. ActionFits(x) BY <3>1 DEF BackupInv
    <3> QED BY <3>1, <3>2, <3>3 DEF ActionFits
  <2> QED BY <2>1, <2>2
<1>4. OneAtATime'
  <2>1. work' # <<>> => work # <<>>
    <3>1. DOMAIN <<>> = {} OBVIOUS
    <3> QED BY <3>1
  <2> QED BY <1>2, <2>1 DEF BackupInv, OneAtATime
<1>5. (\A j \in DOMAIN work : ActionFits(work[j]))' BY <1>3 DEF ActionFits
<1> QED BY <1>2, <1>4, <1>5

(* Action i is over, and the others go on. *)
LEMMA ActionEnds ==
    ASSUME BackupInv, NEW i \in DOMAIN work, Finished(i),
           UNCHANGED restores, unwatched => unwatched'
    PROVE  /\ work' \in Seq(BackupActions)
           /\ (\A j \in DOMAIN work : ActionFits(work[j]))'
           /\ OneAtATime'
           /\ ~unwatched => work' = <<>>
<1> DEFINE old(j) == IF j < i THEN j ELSE j + 1
<1>1. work \in Seq(BackupActions) BY DEF BackupInv
<1>2. /\ work' \in Seq(BackupActions) /\ Len(work') = Len(work) - 1
      /\ \A j \in DOMAIN work' : work'[j] = work[old(j)] /\ old(j) \in DOMAIN work
  BY <1>1, OneIsOver DEF Finished
<1>3. ASSUME NEW j \in DOMAIN work', NEW x, x = work'[j]
      PROVE  ActionFits(x)'
  <2>1. old(j) \in DOMAIN work /\ x = work[old(j)] BY <1>2, <1>3
  <2>2. ActionFits(x) BY <2>1 DEF BackupInv
  <2> QED BY <2>2 DEF ActionFits
<1>4. (\A j \in DOMAIN work : ActionFits(work[j]))' BY <1>3 DEF ActionFits
<1>5. ~unwatched => work' = <<>>
  <2>1. ~unwatched => Len(work) = 1 BY OnlyAction
  <2>2. Len(work') = Len(work) - 1 BY <1>2
  <2>3. ~unwatched => Len(work') = 0 BY <2>1, <2>2
  <2>4. work' \in Seq(BackupActions) BY <1>2
  <2> QED BY <2>3, <2>4, EmptySeq
<1>6. OneAtATime'
  <2>1. Len(<<>>) = 0 OBVIOUS
  <2> QED BY <1>5, <2>1 DEF OneAtATime
<1> QED BY <1>2, <1>4, <1>5, <1>6

LEMMA RefuseKeeps ==
    ASSUME BackupInv, NEW i \in DOMAIN work, RefuseBackup(i)
    PROVE  BackupInv'
<1>1. BackupTypeOK' BY DEF BackupInv, BackupTypeOK, RefuseBackup
<1>2. work[i] \in BackupActions /\ ActionFits(work[i]) BY ActionAt
<1>3. PICK w : w = [work[i] EXCEPT !.at = "failed"] OBVIOUS
<1>4. /\ w \in BackupActions /\ w.at = "failed"
      /\ w.kind = work[i].kind /\ w.of = work[i].of /\ w.checked = work[i].checked
  BY <1>2, <1>3 DEF BackupActions
<1>5. /\ work[i].at = "asked" /\ work' = [work EXCEPT ![i] = w]
      /\ UNCHANGED <<restorePreflight, actionPending, restores, unwatched>>
  BY <1>3 DEF RefuseBackup
<1>6. ActionFits(w)' BY <1>2, <1>4 DEF ActionFits
<1>7. /\ work' \in Seq(BackupActions) /\ i \in DOMAIN work' /\ work'[i] = w
      /\ (\A j \in DOMAIN work : ActionFits(work[j]))' /\ OneAtATime'
  BY <1>4, <1>5, <1>6, ActionChanges
<1>8. PreflightHolds'
  <2> SUFFICES ASSUME ~unwatched, restorePreflight # Blank
               PROVE  restorePreflight.after = restores
    BY <1>5 DEF PreflightHolds
  <2>1. ~RestoreEnding
    <3> SUFFICES ASSUME NEW j \in DOMAIN work
                 PROVE  work[j].at \notin {"done", "listing"}
      BY DEF RestoreEnding
    <3> QED BY <1>5, OnlyAction
  <2> QED BY <2>1 DEF BackupInv, PreflightHolds
<1> QED BY <1>1, <1>7, <1>8 DEF BackupInv

(* The server applies a package: the preflight shown does not know of it. *)
LEMMA ServeKeeps ==
    ASSUME BackupInv, NEW i \in DOMAIN work, ServeBackup(i)
    PROVE  BackupInv'
<1>1. BackupTypeOK BY DEF BackupInv
<1>2. work[i] \in BackupActions /\ ActionFits(work[i]) BY ActionAt
<1>3. /\ work[i].at = "asked"
      /\ packages' = packages + (IF work[i].kind = "create" THEN 1 ELSE 0)
      /\ restores' = restores + (IF work[i].kind = "apply" THEN 1 ELSE 0)
      /\ packages' <= MaxPackages /\ restores' <= MaxRestores
      /\ UNCHANGED <<backupOpen, backup, selectedPackageId, restorePreflight,
                     actionPending, loadSince>>
  BY DEF ServeBackup
<1>4. packages' \in 0..MaxPackages /\ restores' \in 0..MaxRestores
  BY <1>1, <1>3, BackupBounds DEF BackupTypeOK
<1>5. PICK at \in {"done", "failed"} :
        /\ work' = [work EXCEPT ![i].at = at,
                       ![i].since = IF work[i].kind = "create" THEN packages' ELSE restores']
        /\ at = "done" => UNCHANGED unwatched
        /\ at = "failed" => /\ work[i].kind \in {"create", "apply"}
                            /\ unwatched' = (unwatched \/ work[i].kind = "apply")
  BY DEF ServeBackup
<1> DEFINE n == IF work[i].kind = "create" THEN packages' ELSE restores'
<1>6. PICK w : w = [work[i] EXCEPT !.at = at, !.since = n] OBVIOUS
<1>7. work' = [work EXCEPT ![i] = w]
  <2>1. work \in [1 .. Len(work) -> BackupActions] BY LenProperties DEF BackupInv
  <2> QED BY <1>2, <1>5, <1>6, <2>1 DEF BackupActions
<1>8. /\ w \in BackupActions /\ w.at = at /\ w.kind = work[i].kind /\ w.of = work[i].of
      /\ w.checked = work[i].checked /\ w.since = n
  <2>1. n \in Nat BY <1>4, BackupBounds
  <2> HIDE DEF n
  <2> QED BY <1>2, <1>6, <2>1 DEF BackupActions
<1>9. unwatched' \in BOOLEAN /\ (unwatched => unwatched')
  <2>1. unwatched \in BOOLEAN BY <1>1 DEF BackupTypeOK
  <2>2. CASE at = "done" BY <1>5, <2>1, <2>2
  <2>3. CASE at = "failed" BY <1>5, <2>1, <2>3
  <2> QED BY <2>2, <2>3
<1>10. BackupTypeOK' BY <1>1, <1>3, <1>4, <1>9 DEF BackupTypeOK
<1>11. ActionFits(w)' BY <1>2, <1>4, <1>5, <1>8 DEF ActionFits
<1>12. /\ work' \in Seq(BackupActions) /\ i \in DOMAIN work' /\ work'[i] = w
       /\ (\A j \in DOMAIN work : ActionFits(work[j]))' /\ OneAtATime'
  BY <1>3, <1>7, <1>8, <1>9, <1>11, ActionChanges
<1>13. PreflightHolds'
  <2> SUFFICES ASSUME ~unwatched', restorePreflight # Blank
               PROVE  restorePreflight.after = restores' \/ RestoreEnding'
    BY <1>3 DEF PreflightHolds
  <2>1. CASE work[i].kind = "apply"
    <3>1. at = "done" BY <1>5, <2>1
    <3> QED BY <1>8, <1>12, <2>1, <3>1 DEF RestoreEnding
  <2>2. CASE work[i].kind # "apply"
    <3>1. restores' = restores BY <1>1, <1>3, <2>2 DEF BackupTypeOK
    <3>2. ~RestoreEnding
      <4>1. ~unwatched BY <1>9
      <4> QED BY <2>2, <4>1, OnlyAction DEF RestoreEnding
    <3> QED BY <1>9, <3>1, <3>2 DEF BackupInv, PreflightHolds
  <2> QED BY <2>1, <2>2
<1> QED BY <1>10, <1>12, <1>13 DEF BackupInv

(* A preflight that arrives is of the system as it is, or an action was    *)
(* left running; a restore that was applied reads the list.                *)
LEMMA AnswerKeeps ==
    ASSUME BackupInv, NEW i \in DOMAIN work, TakeBackupAnswer(i)
    PROVE  BackupInv'
<1>1. BackupTypeOK BY DEF BackupInv
<1>2. work[i] \in BackupActions /\ ActionFits(work[i]) BY ActionAt
<1>3. UNCHANGED <<backupOpen, backup, selectedPackageId, loadSince, packages, restores,
                  unwatched>>
  BY DEF TakeBackupAnswer
<1>4. ASSUME Finished(i),
             \/ restorePreflight' = restorePreflight /\ (work[i].kind # "apply" \/ work[i].at = "failed")
             \/ /\ restorePreflight' \in Preflights
                /\ ~unwatched => restorePreflight'.after = restores
      PROVE  BackupInv'
  <2>1. /\ work' \in Seq(BackupActions) /\ OneAtATime' /\ (~unwatched => work' = <<>>)
        /\ (\A j \in DOMAIN work : ActionFits(work[j]))'
    BY <1>3, <1>4, ActionEnds
  <2>2. actionPending' \in BOOLEAN BY <1>4 DEF Finished
  <2>3. restorePreflight' = Blank \/ restorePreflight' \in Preflights
    BY <1>1, <1>4 DEF BackupTypeOK, Preflights
  <2>4. BackupTypeOK' BY <1>1, <1>3, <2>2, <2>3 DEF BackupTypeOK, Preflights
  <2>5. PreflightHolds'
    <3> SUFFICES ASSUME ~unwatched, restorePreflight' # Blank
                 PROVE  restorePreflight'.after = restores
      BY <1>3 DEF PreflightHolds
    <3>1. CASE restorePreflight' = restorePreflight /\ (work[i].kind # "apply" \/ work[i].at = "failed")
      <4>1. ~RestoreEnding
        <5> SUFFICES ASSUME NEW j \in DOMAIN work
                     PROVE  ~(work[j].kind = "apply" /\ work[j].at \in {"done", "listing"})
          BY DEF RestoreEnding
        <5> QED BY <3>1, OnlyAction
      <4> QED BY <3>1, <4>1 DEF BackupInv, PreflightHolds
    <3> QED BY <1>4, <3>1
  <2> QED BY <2>1, <2>4, <2>5 DEF BackupInv
<1>5. CASE /\ work[i].at = "failed" \/ (work[i].at = "done" /\ work[i].kind = "download")
           /\ Finished(i) /\ UNCHANGED restorePreflight
  BY <1>4, <1>5
<1>6. CASE /\ work[i].at = "done" /\ work[i].kind = "preflight"
           /\ Finished(i) /\ restorePreflight' = [of |-> work[i].of, after |-> work[i].since]
  <2>1. /\ work[i].of \in 1..MaxPackages /\ work[i].since \in 0..MaxRestores
        /\ ~unwatched => work[i].since = restores
    <3>1. work[i].of \in 0..MaxPackages /\ work[i].of # 0
      BY <1>2, <1>6 DEF ActionFits, BackupActions
    <3>2. work[i].of \in 1..MaxPackages BY <3>1, BackupBounds
    <3> QED BY <1>2, <1>6, <3>2 DEF ActionFits
  <2>2. restorePreflight' \in Preflights /\ restorePreflight'.after = work[i].since
    BY <1>6, <2>1 DEF Preflights
  <2> QED BY <1>4, <1>6, <2>1, <2>2
<1>7. CASE /\ work[i].at = "done" /\ work[i].kind \in {"create", "apply"}
           /\ work' = [work EXCEPT ![i].at = "listing", ![i].from = packages]
           /\ UNCHANGED <<actionPending, restorePreflight>>
  <2>1. PICK w : w = [work[i] EXCEPT !.at = "listing", !.from = packages] OBVIOUS
  <2>2. work' = [work EXCEPT ![i] = w]
    <3>1. work \in [1 .. Len(work) -> BackupActions] BY LenProperties DEF BackupInv
    <3> QED BY <1>2, <1>7, <2>1, <3>1 DEF BackupActions
  <2>3. /\ w \in BackupActions /\ w.at = "listing" /\ w.kind = work[i].kind /\ w.of = work[i].of
        /\ w.checked = work[i].checked
    <3>1. packages \in 0..MaxPackages BY <1>1 DEF BackupTypeOK
    <3> QED BY <1>2, <2>1, <3>1 DEF BackupActions
  <2>4. ActionFits(w)' BY <1>2, <1>7, <2>3 DEF ActionFits
  <2>5. /\ work' \in Seq(BackupActions) /\ i \in DOMAIN work' /\ work'[i] = w
        /\ (\A j \in DOMAIN work : ActionFits(work[j]))' /\ OneAtATime'
    BY <1>3, <1>7, <2>2, <2>3, <2>4, ActionChanges
  <2>6. BackupTypeOK' BY <1>1, <1>3, <1>7 DEF BackupTypeOK
  <2>7. PreflightHolds'
    <3> SUFFICES ASSUME ~unwatched, restorePreflight # Blank
                 PROVE  restorePreflight.after = restores \/ RestoreEnding'
      BY <1>3, <1>7 DEF PreflightHolds
    <3>1. CASE work[i].kind = "apply" BY <2>3, <2>5, <3>1 DEF RestoreEnding
    <3>2. CASE work[i].kind # "apply"
      <4>1. ~RestoreEnding BY <3>2, OnlyAction DEF RestoreEnding
      <4> QED BY <4>1 DEF BackupInv, PreflightHolds
    <3> QED BY <3>1, <3>2
  <2> QED BY <2>5, <2>6, <2>7 DEF BackupInv
<1> QED BY <1>5, <1>6, <1>7 DEF TakeBackupAnswer

(* The list read after a restore shows no preflight any more; if it cannot *)
(* be read the preflight outlives the restore, which is then a known slip. *)
LEMMA ListKeeps ==
    ASSUME BackupInv, NEW i \in DOMAIN work, TakeBackupList(i)
    PROVE  BackupInv'
<1>1. BackupTypeOK BY DEF BackupInv
<1>2. work[i] \in BackupActions BY ActionAt
<1>3. work[i].at = "listing" /\ Finished(i) /\ UNCHANGED <<backupOpen, packages, restores>>
  BY DEF TakeBackupList
<1>4. actionPending' \in BOOLEAN BY <1>3 DEF Finished
<1>5. CASE /\ \E newest \in loadBackupPanel(work[i].from) :
                 LET p == syncSelection(newest,
                              IF work[i].kind = "create" THEN work[i].since ELSE work[i].of,
                              work[i].of)
                 IN  ShowPackages(newest, p, PreflightAfter(work[i].kind, p))
           /\ UNCHANGED <<steps, unwatched>>
  <2>1. PICK newest \in loadBackupPanel(work[i].from), p \in 0..MaxPackages :
                ShowPackages(newest, p, PreflightAfter(work[i].kind, p))
    <3>1. PICK newest \in loadBackupPanel(work[i].from) :
                 ShowPackages(newest,
                    syncSelection(newest,
                              IF work[i].kind = "create" THEN work[i].since ELSE work[i].of,
                              work[i].of),
                    PreflightAfter(work[i].kind,
                        syncSelection(newest,
                              IF work[i].kind = "create" THEN work[i].since ELSE work[i].of,
                              work[i].of)))
      BY <1>5
    <3>2. newest \in 0..MaxPackages
      BY <1>1, <1>2, BackupBounds DEF loadBackupPanel, BackupActions, BackupTypeOK
    <3>3. work[i].of \in 0..MaxPackages BY <1>2 DEF BackupActions
    <3> QED BY <3>1, <3>2, <3>3, SelectionIsListed
  <2>2. newest \in 0..MaxPackages
    BY <1>1, <1>2, BackupBounds DEF loadBackupPanel, BackupActions, BackupTypeOK
  <2>3. /\ PreflightAfter(work[i].kind, p) \in {restorePreflight, Blank}
        /\ work[i].kind = "apply" => PreflightAfter(work[i].kind, p) = Blank
    BY DEF PreflightAfter, PreflightOf
  <2>4. /\ backup' \in 0..MaxPackages \cup {Blank}
        /\ selectedPackageId' \in 0..MaxPackages
        /\ restorePreflight' \in {PreflightAfter(work[i].kind, p), Blank}
        /\ loadSince' \in 0..MaxPackages \cup {Off}
    BY <1>1, <2>1, <2>2, PackagesShown
  <2>5. /\ restorePreflight' \in {restorePreflight, Blank}
        /\ work[i].kind = "apply" => restorePreflight' = Blank
    BY <2>3, <2>4
  <2>6. BackupTypeOK' BY <1>1, <1>3, <1>4, <1>5, <2>4, <2>5 DEF BackupTypeOK
  <2>7. /\ work' \in Seq(BackupActions) /\ OneAtATime'
        /\ (\A j \in DOMAIN work : ActionFits(work[j]))'
    BY <1>3, <1>5, ActionEnds
  <2>8. PreflightHolds'
    <3> SUFFICES ASSUME ~unwatched, restorePreflight' # Blank
                 PROVE  restorePreflight'.after = restores
      BY <1>3, <1>5 DEF PreflightHolds
    <3>1. work[i].kind # "apply" /\ restorePreflight' = restorePreflight BY <2>5
    <3>2. ~RestoreEnding BY <3>1, OnlyAction DEF RestoreEnding
    <3> QED BY <3>1, <3>2 DEF BackupInv, PreflightHolds
  <2> QED BY <2>6, <2>7, <2>8 DEF BackupInv
<1>6. CASE /\ Step /\ unwatched' = (unwatched \/ work[i].kind = "apply")
           /\ UNCHANGED <<selectedPackageId, restorePreflight, backup, loadSince>>
  <2>1. unwatched' \in BOOLEAN /\ (unwatched => unwatched')
        /\ (work[i].kind = "apply" => unwatched')
    <3>1. unwatched' = (unwatched \/ work[i].kind = "apply") BY <1>6
    <3>2. unwatched \in BOOLEAN BY <1>1 DEF BackupTypeOK
    <3> QED BY <3>1, <3>2
  <2>2. BackupTypeOK' BY <1>1, <1>3, <1>4, <1>6, <2>1 DEF BackupTypeOK
  <2>3. /\ work' \in Seq(BackupActions) /\ OneAtATime'
        /\ (\A j \in DOMAIN work : ActionFits(work[j]))'
    BY <1>3, <2>1, ActionEnds
  <2>4. PreflightHolds'
    <3> SUFFICES ASSUME ~unwatched', restorePreflight # Blank
                 PROVE  restorePreflight.after = restores
      BY <1>3, <1>6 DEF PreflightHolds
    <3>1. ~unwatched /\ work[i].kind # "apply" BY <2>1
    <3>2. ~RestoreEnding BY <3>1, OnlyAction DEF RestoreEnding
    <3> QED BY <3>1, <3>2 DEF BackupInv, PreflightHolds
  <2> QED BY <2>2, <2>3, <2>4 DEF BackupInv
<1> QED BY <1>5, <1>6 DEF TakeBackupList

LEMMA BackupKeeps == ASSUME BackupInv, [BackupNext]_backupVars PROVE BackupInv'
<1>1. CASE EnterBackup BY <1>1, EnterKeeps
<1>2. CASE LeaveBackup BY <1>2, LeaveKeeps
<1>3. CASE LandPackages BY <1>3, LandKeeps
<1>4. CASE onSelectBackupPackage BY <1>4, SelectKeeps
<1>5. CASE onCreateBackupPackage BY <1>5, BeginKeeps DEF onCreateBackupPackage
<1>6. CASE onDownloadBackupPackage BY <1>6, BeginKeeps DEF onDownloadBackupPackage
<1>7. CASE onPreflightRestoreBackupPackage
  BY <1>7, BeginKeeps DEF onPreflightRestoreBackupPackage
<1>8. CASE onApplyBackupPackage BY <1>8, BeginKeeps DEF onApplyBackupPackage
<1>9. ASSUME NEW i \in DOMAIN work, ServeBackup(i) PROVE BackupInv' BY <1>9, ServeKeeps
<1>10. ASSUME NEW i \in DOMAIN work, RefuseBackup(i) PROVE BackupInv' BY <1>10, RefuseKeeps
<1>11. ASSUME NEW i \in DOMAIN work, TakeBackupAnswer(i) PROVE BackupInv'
  BY <1>11, AnswerKeeps
<1>12. ASSUME NEW i \in DOMAIN work, TakeBackupList(i) PROVE BackupInv' BY <1>12, ListKeeps
<1>13. CASE UNCHANGED backupVars
  <2>1. BackupTypeOK' BY <1>13 DEF BackupInv, BackupTypeOK, backupVars
  <2> QED BY <1>13, <2>1, ActionsStand DEF BackupInv, backupVars
<1> QED
  BY <1>1, <1>2, <1>3, <1>4, <1>5, <1>6, <1>7, <1>8, <1>9, <1>10, <1>11, <1>12, <1>13
  DEF BackupNext

-----------------------------------------------------------------------------
(* What the backup page shows, and each of its actions under way, fit      *)
(* together at all times (useAdminBackupController).                       *)
THEOREM BackupInvariance == BackupSpec => []BackupInv
<1>1. BackupInit => BackupInv BY BackupInvInit
<1>2. BackupInv /\ [BackupNext]_backupVars => BackupInv' BY BackupKeeps
<1> QED BY <1>1, <1>2, PTL DEF BackupSpec

(* The page selects a package there is, or none, and shows the preflight   *)
(* of a package, or none.                                                  *)
THEOREM BackupTyped == BackupSpec => []BackupTypeOK
<1>1. BackupInv => BackupTypeOK BY DEF BackupInv
<1> QED BY <1>1, BackupInvariance, PTL

(* A restore is asked for with a preflight of the same package, and unless *)
(* an action was left running or failed halfway, one that knows of every   *)
(* restore there was.                                                      *)
THEOREM AppliedAsChecked == BackupSpec => []AppliesWhatWasChecked
<1>1. BackupInv => AppliesWhatWasChecked
  BY DEF BackupInv, AppliesWhatWasChecked, ActionFits
<1> QED BY <1>1, BackupInvariance, PTL

-----------------------------------------------------------------------------
(* The creator app.  A page that has a route has what it needs to load.    *)
RouteFits(r) == r \in CreatorRouteState /\ (r.route \in Pages => Owner(r.route, r) # Off)

(* The calls about the session, with the answers each can have.            *)
Calls ==
    [kind : {"load"}, answer : {"none", "session", "unauthenticated", "error"}]
      \cup [kind : {"start"}, answer : {"none", "session", "error"}]
      \cup [kind : {"clear"}, answer : {"none", "cleared", "error"}]

Ready(p) == Enabled(p, routeState, sessionState)

(* A page that is not enabled was cleared; one that is has its data, or an *)
(* error, or is loading.  The exceptions are written by a function.        *)
PageFits(p) ==
    /\ ~Ready(p) => pageData[p] = Off \/ p \in shellSlips
    /\ Ready(p) /\ ~pageLoading =>
          /\ pageData[p] # Off \/ p \in pageError
          /\ pageData[p] \in {Off, Owner(p, routeState)} \/ p \in shellSlips

HomeFits ==
    HomeEnabled(routeState, sessionState) /\ ~importBatchesPending =>
        importBatches \in {Off, homeProjectId}

(* What the only call under way finds when its answer arrives.             *)
CallFits(c) ==
    CASE c.kind = "load" ->
            /\ sessionState = "loading" /\ ~sessionError
            /\ c.answer = "session" => overridden \/ cookie
            /\ c.answer = "unauthenticated" => overridden \/ ~cookie
      [] c.kind = "start" ->
            /\ sessionState = "loading" /\ ~sessionError /\ ~overridden
            /\ c.answer = "session" => cookie
      [] c.kind = "clear" ->
            /\ sessionState = "ready" /\ session = "dev" /\ ~overridden
            /\ c.answer = "cleared" <=> ~cookie

(* Of two calls the first to be answered is a known slip.                  *)
SessionFits ==
    /\ SessionIsOwn
    /\ Len(sessionCalls) = 1 /\ "session" \notin shellSlips => CallFits(sessionCalls[1])

ShellInv ==
    /\ ShellTypeOK
    /\ RouteFits(routeState) /\ \A r \in visited : RouteFits(r)
    /\ sessionCalls \in Seq(Calls)
    /\ pageLoading => Ready(routeState.route)
    /\ \A p \in Pages : PageFits(p)
    /\ HomeFits
    /\ SessionFits

-----------------------------------------------------------------------------
LEMMA PagesApart ==
    /\ "home" \notin Pages /\ "session" \notin Pages
    /\ \A p \in Pages : p \in {"shots", "imports", "collab", "preview", "audio", "reuse"}
    /\ Off \notin Owners
BY OwnersAreNot DEF Pages

(* What a page is for is one of the things its effect depends on. *)
LEMMA OwnerIsDep ==
    ASSUME NEW p \in Pages, NEW r, NEW q, NEW who, NEW whom,
           Deps(p, r, who) = Deps(p, q, whom)
    PROVE  Owner(p, r) = Owner(p, q)
<1>1. CASE p \in {"shots", "imports"}
  <2>1. <<Owner(p, r)>> = <<Owner(p, q)>> BY <1>1 DEF Deps, projectOnly
  <2> QED BY <2>1
<1>2. CASE p = "collab"
  <2>1. <<Owner(p, r), r.projectId, who>> = <<Owner(p, q), q.projectId, whom>>
    BY <1>2 DEF Deps, projectOnly
  <2> QED BY <2>1
<1>3. CASE p \in projectOnly
  <2>1. <<r.projectId, who>> = <<q.projectId, whom>> BY <1>3 DEF Deps, projectOnly
  <2>2. Owner(p, r) = r.projectId /\ Owner(p, q) = q.projectId
    BY <1>3 DEF Owner, projectOnly
  <2> QED BY <2>1, <2>2
<1>4. CASE p = "reuse"
  <2>1. <<r.shotId, r.sourceProjectId, who>> = <<q.shotId, q.sourceProjectId, whom>>
    BY <1>4 DEF Deps, projectOnly
  <2>2. Owner(p, r) = r.shotId /\ Owner(p, q) = q.shotId BY <1>4 DEF Owner, projectOnly
  <2> QED BY <2>1, <2>2
<1> QED BY <1>1, <1>2, <1>3, <1>4, PagesApart DEF projectOnly

LEMMA OwnerIsId ==
    ASSUME NEW p \in Pages, NEW r \in CreatorRouteState
    PROVE  Owner(p, r) \in Ids
<1>1. r.shotId \in Ids /\ r.importBatchId \in Ids /\ r.projectId \in Ids
  BY DEF CreatorRouteState
<1> QED BY <1>1 DEF Owner, Either, Pages, projectOnly

(* A URL that is loaded names a page that has what it needs. *)
LEMMA ParsedFits ==
    ASSUME NEW url \in CreatorRouteState
    PROVE  RouteFits(parseCreatorRouteState(url))
<1>1. /\ url.route \in Pages \cup {"home"} /\ url.projectId \in Ids /\ url.shotId \in Ids
      /\ url.importBatchId \in Ids /\ url.sourceProjectId \in Ids /\ Off \in Ids
  BY DEF CreatorRouteState, Ids
<1>2. PICK r : r = parseCreatorRouteState(url) OBVIOUS
<1>3. /\ r.projectId = url.projectId /\ r.importBatchId = url.importBatchId
      /\ r.shotId = Only(r.route \in {"shots"} \cup shotScoped, url.shotId)
      /\ \/ r.route = "imports" /\ url.importBatchId # Off
         \/ /\ url.shotId # Off
            /\ r.route = "shots" \/ r.route \in shotScoped
                 \/ (r.route \in projectOnly /\ url.projectId # Off)
         \/ r.route \in projectOnly /\ url.projectId # Off
         \/ r.route = "home"
  BY <1>2 DEF parseCreatorRouteState
<1>4. r \in CreatorRouteState
  BY <1>1, <1>2, <1>3
  DEF parseCreatorRouteState, CreatorRouteState, Only, Pages, projectOnly, shotScoped
<1>5. ASSUME r.route \in Pages PROVE Owner(r.route, r) # Off
  BY <1>3, <1>5 DEF Owner, Either, Only, Pages, projectOnly, shotScoped
<1> QED BY <1>2, <1>4, <1>5 DEF RouteFits

LEMMA NormalizedFits ==
    ASSUME NEW r \in CreatorRouteState
    PROVE  RouteFits(normalizeRoute(r))
<1>1. /\ r.route \in Pages \cup {"home"} /\ r.projectId \in Ids /\ r.shotId \in Ids
      /\ r.importBatchId \in Ids /\ r.sourceProjectId \in Ids /\ Off \in Ids
  BY DEF CreatorRouteState, Ids
<1>2. buildCreatorRouteUrl(r) \in CreatorRouteState
  BY <1>1 DEF buildCreatorRouteUrl, CreatorRouteState, Only
<1> QED BY <1>2, ParsedFits DEF normalizeRoute

(* What of a route is kept by a move to a page. *)
LEMMA SelectedRoute ==
    ASSUME NEW r \in CreatorRouteState, NEW page \in Pages \cup {"home"}
    PROVE  LET s == selectCreatorRoute(r, page)
           IN  /\ s \in CreatorRouteState /\ s.route = page
               /\ page \in {"shots", "collab", "reuse"} => s.shotId = r.shotId
<1>1. /\ r.projectId \in Ids /\ r.shotId \in Ids /\ r.importBatchId \in Ids
      /\ r.sourceProjectId \in Ids /\ Off \in Ids
  BY DEF CreatorRouteState, Ids
<1> QED BY <1>1 DEF selectCreatorRoute, CreatorRouteState, Only, shotScoped

(* Rendering the app runs the effects of the pages whose controller is     *)
(* told something else, and the pages still fit.                           *)
LEMMA RenderKeeps ==
    ASSUME ShellTypeOK, \A p \in Pages : PageFits(p), HomeFits,
           pageLoading => Ready(routeState.route),
           NEW r, RouteFits(r), NEW state \in {"loading", "ready", "unauthenticated"},
           NEW who \in {"named", "dev", Off}, Render(r, state, who), remembered' \in Ids,
           shellSlips \ Cleared(r, state, who) \subseteq shellSlips'
    PROVE  /\ routeState' = r /\ RouteFits(routeState)' /\ sessionState' = state
           /\ session' = who
           /\ pageData' \in [Pages -> Ids] /\ pageError' \subseteq Pages
           /\ {pageLoading', importBatchesPending'} \subseteq BOOLEAN
           /\ {homeProjectId', importBatches'} \subseteq Ids
           /\ pageLoading' => Ready(routeState.route)'
           /\ \A p \in Pages : PageFits(p)'
           /\ HomeFits'
<1> DEFINE cleared == Cleared(r, state, who)
           loads == {p \in Fired(r, state, who) : Enabled(p, r, state)}
<1>1. /\ routeState' = r /\ sessionState' = state /\ session' = who
      /\ pageData' = [p \in Pages |-> IF p \in cleared THEN Off ELSE pageData[p]]
      /\ pageError' = pageError \ (cleared \cup (loads \cap {"reuse"}))
      /\ pageLoading' = (loads # {} \/ (pageLoading /\ Enabled(r.route, r, state)))
      /\ RenderHome(r, state)
  BY DEF Render
<1>2. RouteFits(routeState)' BY <1>1 DEF RouteFits, CreatorRouteState, Owner, Either
<1>3. pageData' \in [Pages -> Ids] /\ pageError' \subseteq Pages /\ pageLoading' \in BOOLEAN
  <2>1. pageData \in [Pages -> Ids] /\ pageError \subseteq Pages /\ Off \in Ids
    BY DEF ShellTypeOK, Ids
  <2> QED BY <1>1, <2>1
<1>4. \A p : Ready(p)' <=> Enabled(p, r, state) BY <1>1 DEF Ready, Enabled
<1>5. \A p \in Pages : p \in cleared <=> p \in Fired(r, state, who) /\ ~Ready(p)'
  BY <1>4 DEF Cleared, Fired
<1>6. \A p \in Pages : p \in Fired(r, state, who) =>
          p \in loads \/ p \in cleared
  BY <1>4, <1>5
<1>7. \A p \in Pages : p \notin Fired(r, state, who) =>
          /\ Ready(p)' = Ready(p)
          /\ Owner(p, r) = Owner(p, routeState)
  <2> SUFFICES ASSUME NEW p \in Pages, p \notin Fired(r, state, who)
               PROVE  Ready(p)' = Ready(p) /\ Owner(p, r) = Owner(p, routeState)
    OBVIOUS
  <2>1. /\ Enabled(p, r, state) = Enabled(p, routeState, sessionState)
        /\ Deps(p, r, who) = Deps(p, routeState, session)
    BY DEF Fired
  <2>2. Owner(p, r) = Owner(p, routeState) BY <2>1, OwnerIsDep
  <2>3. Enabled(p, routeState, sessionState)' = Enabled(p, r, state) BY <1>1 DEF Enabled
  <2> QED BY <2>1, <2>2, <2>3 DEF Ready
<1>8. \A p \in Pages : Ready(p)' => p = r.route BY <1>4 DEF Enabled
<1>9. pageLoading' => Ready(routeState.route)'
  <2> SUFFICES ASSUME pageLoading' PROVE Ready(r.route)' BY <1>1 DEF Ready
  <2>1. CASE loads # {}
    <3>1. PICK p \in loads : TRUE BY <2>1
    <3>2. p \in Pages /\ Enabled(p, r, state) BY <3>1 DEF Fired
    <3> QED BY <1>4, <1>8, <3>2
  <2>2. CASE Enabled(r.route, r, state) BY <1>4, <2>2
  <2> QED BY <1>1, <2>1, <2>2
<1>10. ASSUME NEW p \in Pages PROVE PageFits(p)'
  <2>1. PageFits(p) OBVIOUS
  <2>2. pageData'[p] = IF p \in cleared THEN Off ELSE pageData[p] BY <1>1
  <2>3. p \notin cleared /\ p \in shellSlips => p \in shellSlips' OBVIOUS
  <2>4. ASSUME ~Ready(p)' PROVE pageData'[p] = Off \/ p \in shellSlips'
    <3>1. CASE p \in cleared BY <2>2, <3>1
    <3>2. CASE p \notin cleared
      <4>1. p \notin Fired(r, state, who) BY <1>5, <2>4, <3>2
      <4>2. ~Ready(p) BY <1>7, <2>4, <4>1
      <4> QED BY <2>1, <2>2, <2>3, <3>2, <4>2 DEF PageFits
    <3> QED BY <3>1, <3>2
  <2>5. ASSUME Ready(p)', ~pageLoading'
        PROVE  /\ pageData'[p] # Off \/ p \in pageError'
               /\ pageData'[p] \in {Off, Owner(p, r)} \/ p \in shellSlips'
    <3>1. loads = {} BY <1>1, <2>5
    <3>2. p \notin cleared BY <1>5, <2>5
    <3>3. p \notin Fired(r, state, who) BY <1>6, <3>1, <3>2
    <3>4. Ready(p) /\ Owner(p, r) = Owner(p, routeState) BY <1>7, <2>5, <3>3
    <3>5. ~pageLoading
      <4>1. p = r.route /\ Enabled(p, r, state) BY <1>4, <1>8, <2>5
      <4> QED BY <1>1, <2>5, <4>1
    <3>6. /\ pageData[p] # Off \/ p \in pageError
          /\ pageData[p] \in {Off, Owner(p, routeState)} \/ p \in shellSlips
      BY <2>1, <3>4, <3>5 DEF PageFits
    <3>7. p \in pageError => p \in pageError' BY <1>1, <3>1, <3>2
    <3> QED BY <2>2, <2>3, <3>2, <3>4, <3>6, <3>7
  <2>6. Owner(p, routeState)' = Owner(p, r) BY <1>1 DEF Owner
  <2> QED BY <1>1, <2>4, <2>5, <2>6 DEF PageFits
<1>11. PICK projId : projId = Either(r.projectId, remembered') OBVIOUS
<1>12. projId \in Ids BY <1>11 DEF Either, RouteFits, CreatorRouteState
<1>13. /\ homeProjectId' = projId
       /\ importBatches' = IF HomeEnabled(r, state) /\ projId # Off
                           THEN importBatches ELSE Off
       /\ importBatchesPending' =
            (HomeEnabled(r, state) /\ projId # Off
               /\ (HomeEnabled(routeState, sessionState) /\ projId = homeProjectId
                     => importBatchesPending))
  BY <1>1, <1>11 DEF RenderHome
<1>14. {homeProjectId', importBatches'} \subseteq Ids /\ importBatchesPending' \in BOOLEAN
  BY <1>12, <1>13 DEF ShellTypeOK, Ids
<1>15. HomeFits'
  <2> SUFFICES ASSUME HomeEnabled(r, state), ~importBatchesPending', importBatches' # Off
               PROVE  importBatches' = homeProjectId'
    BY <1>1 DEF HomeFits, HomeEnabled
  <2>1. projId # Off /\ importBatches' = importBatches BY <1>13
  <2>2. /\ HomeEnabled(routeState, sessionState) /\ projId = homeProjectId
        /\ ~importBatchesPending
    BY <1>13, <2>1
  <2> QED BY <1>13, <2>1, <2>2 DEF HomeFits
<1> QED BY <1>1, <1>2, <1>3, <1>9, <1>10, <1>14, <1>15

(* Only pages are cleared, so a slip about the session stays. *)
LEMMA SlipStays ==
    ASSUME NEW r, NEW state, NEW who
    PROVE  Cleared(r, state, who) \subseteq Pages /\ "session" \notin Cleared(r, state, who)
BY PagesApart DEF Cleared, Fired

(* A step that is not about the session. *)
LEMMA SessionStands ==
    ASSUME SessionFits, "session" \in shellSlips => "session" \in shellSlips',
           UNCHANGED <<sessionState, session, sessionError, sessionCalls, overridden, cookie>>
    PROVE  SessionFits'
<1>1. SessionIsOwn' BY DEF SessionFits, SessionIsOwn
<1>2. \A c : CallFits(c)' <=> CallFits(c) BY DEF CallFits
<1> QED BY <1>1, <1>2 DEF SessionFits

(* A step that is not about the pages. *)
LEMMA PagesStand ==
    ASSUME ShellInv, shellSlips \subseteq shellSlips',
           UNCHANGED <<routeState, visited, homeProjectId, sessionState, pageData, pageError,
                       pageLoading, importBatches, importBatchesPending>>
    PROVE  /\ RouteFits(routeState)' /\ (\A r \in visited : RouteFits(r))'
           /\ (pageLoading => Ready(routeState.route))'
           /\ (\A p \in Pages : PageFits(p))'
           /\ HomeFits'
<1>1. \A r : RouteFits(r)' <=> RouteFits(r) BY DEF RouteFits, Owner, Either
<1>2. RouteFits(routeState)' /\ (\A r \in visited : RouteFits(r))'
  BY <1>1 DEF ShellInv, RouteFits
<1>3. \A p : Ready(p)' <=> Ready(p) BY DEF Ready
<1>4. (pageLoading => Ready(routeState.route))' BY <1>3 DEF ShellInv, Ready
<1>5. (\A p \in Pages : PageFits(p))'
  <2> SUFFICES ASSUME NEW p \in Pages PROVE PageFits(p)' OBVIOUS
  <2>1. PageFits(p) BY DEF ShellInv
  <2> QED BY <1>3, <2>1 DEF PageFits
<1>6. HomeFits' BY DEF ShellInv, HomeFits
<1> QED BY <1>2, <1>4, <1>5, <1>6

(* A move of the user, to a route that has what its page needs. *)
LEMMA RerouteKeeps ==
    ASSUME ShellInv, NEW r, RouteFits(r), NEW typed \in BOOLEAN, Rerouted(r, typed),
           shellSlips' = shellSlips \ Cleared(r, sessionState, session),
           \A v \in visited' : v \in visited \/ RouteFits(v)
    PROVE  ShellInv'
<1>1. ShellTypeOK BY DEF ShellInv
<1>2. /\ Render(r, sessionState, session)
      /\ UNCHANGED <<overridden, sessionError, sessionCalls, cookie, functions>>
  BY DEF Rerouted
<1>3. remembered' \in Ids
  <2>1. r.projectId \in Ids BY DEF RouteFits, CreatorRouteState
  <2>2. remembered \in Ids BY <1>1 DEF ShellTypeOK
  <2> QED BY <2>1, <2>2 DEF Rerouted
<1>4. /\ routeState' = r /\ RouteFits(routeState)' /\ sessionState' = sessionState
      /\ session' = session
      /\ pageData' \in [Pages -> Ids] /\ pageError' \subseteq Pages
      /\ {pageLoading', importBatchesPending'} \subseteq BOOLEAN
      /\ {homeProjectId', importBatches'} \subseteq Ids
      /\ pageLoading' => Ready(routeState.route)'
      /\ \A p \in Pages : PageFits(p)'
      /\ HomeFits'
  <2>1. /\ sessionState \in {"loading", "ready", "unauthenticated"}
        /\ session \in {"named", "dev", Off}
    BY <1>1 DEF ShellTypeOK
  <2>2. /\ \A p \in Pages : PageFits(p)
        /\ HomeFits /\ (pageLoading => Ready(routeState.route))
    BY DEF ShellInv
  <2> QED BY <1>1, <1>2, <1>3, <2>1, <2>2, RenderKeeps
<1>5. (\A v \in visited : RouteFits(v))'
  <2>1. \A v : RouteFits(v)' <=> RouteFits(v) BY DEF RouteFits, Owner, Either
  <2>2. \A v \in visited : RouteFits(v) BY DEF ShellInv
  <2> QED BY <2>1, <2>2
<1>6. shellSlips' \subseteq Pages \cup {"session"} BY <1>1 DEF ShellTypeOK
<1>7. visited' \subseteq CreatorRouteState
  BY <1>1 DEF ShellTypeOK, RouteFits
<1>8. ShellTypeOK'
  <2>1. routeState' \in CreatorRouteState BY <1>4 DEF RouteFits
  <2> QED BY <1>1, <1>2, <1>3, <1>4, <1>6, <1>7, <2>1 DEF ShellTypeOK
<1>9. SessionFits'
  <2>1. "session" \in shellSlips => "session" \in shellSlips' BY SlipStays
  <2>2. SessionFits BY DEF ShellInv
  <2> QED BY <1>2, <1>4, <2>1, <2>2, SessionStands
<1>10. sessionCalls' \in Seq(Calls) BY <1>2 DEF ShellInv
<1> QED BY <1>4, <1>5, <1>8, <1>9, <1>10 DEF ShellInv

LEMMA CommitKeeps ==
    ASSUME ShellInv, NEW r, RouteFits(r), NEW typed \in BOOLEAN, Committed(r, typed)
    PROVE  ShellInv'
<1>1. RouteFits(normalizeRoute(r)) BY NormalizedFits DEF RouteFits
<1>2. /\ Rerouted(r, typed) /\ visited' = visited \cup {normalizeRoute(r)}
      /\ shellSlips' = shellSlips \ Cleared(r, sessionState, session)
  BY DEF Committed
<1>3. \A v \in visited' : v \in visited \/ RouteFits(v) BY <1>1, <1>2
<1> QED BY <1>2, <1>3, RerouteKeeps

(* What the page shown says about the route and the data. *)
LEMMA ShownFacts ==
    ASSUME ShellInv
    PROVE  /\ Shown # "error" /\ Shown # "loading" /\ Shown # "gate" =>
                 sessionState = "ready" /\ ~sessionError
           /\ Shown = "gate" => sessionState = "unauthenticated" /\ ~sessionError
           /\ Shown = "home" => routeState.route = "home"
           /\ \A p \in {"preview", "reuse", "collab", "audio"} : Shown = p =>
                 routeState.route = p /\ pageData[p] # Off
<1>1. sessionState \in {"loading", "ready", "unauthenticated"}
  BY DEF ShellInv, ShellTypeOK
<1>2. Shown = "gate" => sessionState = "unauthenticated" /\ ~sessionError
  <2>1. routeState.route # "gate"
    BY DEF ShellInv, RouteFits, CreatorRouteState, Pages
  <2> QED BY <2>1 DEF Shown, ErrorShown
<1>3. Shown # "error" => ~sessionError BY DEF Shown, ErrorShown
<1> QED
  BY <1>1, <1>2, <1>3
  DEF Shown, CollabShown, PreviewShown, AudioShown, ReuseShown, HomeShown

(* A route to a page, with the ids that are given to it. *)
LEMMA RouteChosen ==
    ASSUME ShellInv, NEW page \in Pages \cup {"home"}, NEW id \in Ids
    PROVE  LET s == selectCreatorRoute(routeState, page)
           IN  /\ page = "home" \/ (page \in projectOnly /\ id # Off) =>
                     RouteFits([s EXCEPT !.projectId = id])
               /\ page = "shots" /\ id # Off =>
                     /\ RouteFits([s EXCEPT !.shotId = id])
                     /\ \A projId \in Ids :
                           RouteFits([s EXCEPT !.projectId = projId, !.shotId = id])
               /\ page = "imports" /\ id # Off =>
                     \A projId \in Ids :
                        RouteFits([s EXCEPT !.projectId = projId, !.importBatchId = id])
               /\ page = "reuse" /\ routeState.route = "reuse" =>
                     RouteFits([s EXCEPT !.sourceProjectId = id])
<1>1. routeState \in CreatorRouteState BY DEF ShellInv, RouteFits
<1>2. PICK s : s = selectCreatorRoute(routeState, page) OBVIOUS
<1>3. /\ s \in CreatorRouteState /\ s.route = page
      /\ page \in {"shots", "collab", "reuse"} => s.shotId = routeState.shotId
  BY <1>1, <1>2, SelectedRoute
<1>4. ASSUME page = "home" \/ (page \in projectOnly /\ id # Off)
      PROVE  RouteFits([s EXCEPT !.projectId = id])
  <2>1. PICK t : t = [s EXCEPT !.projectId = id] OBVIOUS
  <2>2. t \in CreatorRouteState /\ t.route = page /\ t.projectId = id
    BY <1>3, <2>1 DEF CreatorRouteState
  <2>3. page \in projectOnly => Owner(page, t) = t.projectId
    BY DEF Owner, projectOnly
  <2> QED BY <1>4, <2>1, <2>2, <2>3, PagesApart DEF RouteFits
<1>5. ASSUME page = "shots", id # Off
      PROVE  /\ RouteFits([s EXCEPT !.shotId = id])
             /\ \A projId \in Ids : RouteFits([s EXCEPT !.projectId = projId, !.shotId = id])
  <2>1. ASSUME NEW t, t \in CreatorRouteState, t.route = "shots", t.shotId = id
        PROVE  RouteFits(t)
    BY <1>5, <2>1 DEF RouteFits, Owner, projectOnly
  <2>2. PICK t : t = [s EXCEPT !.shotId = id] OBVIOUS
  <2>3. t \in CreatorRouteState /\ t.route = "shots" /\ t.shotId = id
    BY <1>3, <1>5, <2>2 DEF CreatorRouteState
  <2>4. ASSUME NEW projId \in Ids
        PROVE  RouteFits([s EXCEPT !.projectId = projId, !.shotId = id])
    <3>1. PICK u : u = [s EXCEPT !.projectId = projId, !.shotId = id] OBVIOUS
    <3>2. u \in CreatorRouteState /\ u.route = "shots" /\ u.shotId = id
      BY <1>3, <1>5, <3>1 DEF CreatorRouteState
    <3> QED BY <2>1, <3>1, <3>2
  <2> QED BY <2>1, <2>2, <2>3, <2>4
<1>6. ASSUME page = "imports", id # Off, NEW projId \in Ids
      PROVE  RouteFits([s EXCEPT !.projectId = projId, !.importBatchId = id])
  <2>1. PICK t : t = [s EXCEPT !.projectId = projId, !.importBatchId = id] OBVIOUS
  <2>2. t \in CreatorRouteState /\ t.route = "imports" /\ t.importBatchId = id
    BY <1>3, <1>6, <2>1 DEF CreatorRouteState
  <2>3. Owner("imports", t) = id BY <2>2 DEF Owner, projectOnly
  <2> QED BY <1>6, <2>1, <2>2, <2>3 DEF RouteFits
<1>7. ASSUME page = "reuse", routeState.route = "reuse"
      PROVE  RouteFits([s EXCEPT !.sourceProjectId = id])
  <2>1. PICK t : t = [s EXCEPT !.sourceProjectId = id] OBVIOUS
  <2>2. t \in CreatorRouteState /\ t.route = "reuse" /\ t.shotId = routeState.shotId
    BY <1>3, <1>7, <2>1 DEF CreatorRouteState
  <2>3. routeState.shotId # Off
    BY <1>7 DEF ShellInv, RouteFits, Owner, Pages, projectOnly
  <2>4. Owner("reuse", t) = t.shotId BY DEF Owner, projectOnly
  <2> QED BY <1>7, <2>1, <2>2, <2>3, <2>4 DEF RouteFits
<1> QED BY <1>2, <1>4, <1>5, <1>6, <1>7

(* The moves from the home page. *)
LEMMA HomeMovesKeep ==
    ASSUME ShellInv,
           \/ handleOpenPreviewWorkbench \/ handleOpenImportWorkbench
           \/ \E o \in Owners : handleSelectProjectId(o) \/ handleOpenShotWorkbench(o)
    PROVE  ShellInv'
<1>1. homeProjectId \in Ids /\ importBatches \in Ids /\ \A o \in Owners : o \in Ids /\ o # Off
  BY PagesApart DEF ShellInv, ShellTypeOK, Ids
<1>2. CASE handleOpenPreviewWorkbench
  <2>1. RouteFits([selectCreatorRoute(routeState, "preview") EXCEPT !.projectId = homeProjectId])
    BY <1>1, <1>2, RouteChosen DEF handleOpenPreviewWorkbench, Pages, projectOnly
  <2> QED BY <1>2, <2>1, CommitKeeps DEF handleOpenPreviewWorkbench, commitRouteState
<1>3. CASE handleOpenImportWorkbench
  <2>1. RouteFits([selectCreatorRoute(routeState, "imports")
                EXCEPT !.projectId = homeProjectId, !.importBatchId = importBatches])
    BY <1>1, <1>3, RouteChosen DEF handleOpenImportWorkbench, BatchList, Pages
  <2> QED BY <1>3, <2>1, CommitKeeps DEF handleOpenImportWorkbench, commitRouteState
<1>4. ASSUME NEW o \in Owners, handleSelectProjectId(o) PROVE ShellInv'
  <2>1. RouteFits([selectCreatorRoute(routeState, "home") EXCEPT !.projectId = o])
    BY <1>1, RouteChosen
  <2> QED BY <1>4, <2>1, CommitKeeps DEF handleSelectProjectId
<1>5. ASSUME NEW o \in Owners, handleOpenShotWorkbench(o) PROVE ShellInv'
  <2>1. RouteFits([selectCreatorRoute(routeState, "shots")
                            EXCEPT !.projectId = homeProjectId, !.shotId = o])
    BY <1>1, RouteChosen DEF Pages
  <2> QED BY <1>5, <2>1, CommitKeeps DEF handleOpenShotWorkbench, commitRouteState
<1> QED BY <1>2, <1>3, <1>4, <1>5

(* The moves from the pages, and back and forward. *)
LEMMA PageMovesKeep ==
    ASSUME ShellInv,
           \/ onOpenAudioWorkbench \/ onBackToShotWorkbench \/ handleReturnHome
           \/ \E o \in Owners : onOpenShotWorkbench(o)
           \/ \E id \in Ids : onLoadSourceProject(id)
           \/ \E r \in visited : handlePopState(r)
    PROVE  ShellInv'
<1>1. /\ \A p \in Pages : pageData[p] \in Ids
      /\ \A o \in Owners : o \in Ids /\ o # Off
      /\ routeState.projectId \in Ids /\ remembered \in Ids /\ Off \in Ids
  BY PagesApart DEF ShellInv, ShellTypeOK, Ids, CreatorRouteState
<1>2. CASE onOpenAudioWorkbench
  <2>1. pageData["preview"] \in Ids /\ pageData["preview"] # Off
    BY <1>1, <1>2, ShownFacts DEF onOpenAudioWorkbench, Pages
  <2>2. RouteFits([selectCreatorRoute(routeState, "audio")
                            EXCEPT !.projectId = pageData["preview"]])
    BY <2>1, RouteChosen DEF Pages, projectOnly
  <2> QED BY <1>2, <2>2, CommitKeeps DEF onOpenAudioWorkbench, commitRouteState
<1>3. CASE onBackToShotWorkbench
  <2>1. pageData["reuse"] \in Ids /\ pageData["reuse"] # Off
    BY <1>1, <1>3, ShownFacts DEF onBackToShotWorkbench, Pages
  <2>2. RouteFits([selectCreatorRoute(routeState, "shots") EXCEPT !.shotId = pageData["reuse"]])
    BY <2>1, RouteChosen DEF Pages
  <2> QED BY <1>3, <2>2, CommitKeeps DEF onBackToShotWorkbench, commitRouteState
<1>4. CASE handleReturnHome
  <2>1. PICK id \in Ids :
            commitRouteState([selectCreatorRoute(routeState, "home") EXCEPT !.projectId = id])
    <3>1. {pageData[p] : p \in {"imports", "collab", "preview", "audio", "shots"}} \subseteq Ids
      BY <1>1 DEF Pages
    <3>2. Either(routeState.projectId, remembered) \in Ids BY <1>1 DEF Either
    <3> QED BY <1>1, <1>4, <3>1, <3>2 DEF handleReturnHome
  <2>2. RouteFits([selectCreatorRoute(routeState, "home") EXCEPT !.projectId = id])
    BY RouteChosen
  <2> QED BY <2>1, <2>2, CommitKeeps DEF commitRouteState
<1>5. ASSUME NEW o \in Owners, onOpenShotWorkbench(o) PROVE ShellInv'
  <2>1. RouteFits([selectCreatorRoute(routeState, "shots")
                            EXCEPT !.projectId = pageData["preview"], !.shotId = o])
    BY <1>1, RouteChosen DEF Pages
  <2> QED BY <1>5, <2>1, CommitKeeps DEF onOpenShotWorkbench, commitRouteState
<1>6. ASSUME NEW id \in Ids, onLoadSourceProject(id) PROVE ShellInv'
  <2>1. routeState.route = "reuse" BY <1>6, ShownFacts DEF onLoadSourceProject
  <2>2. RouteFits([selectCreatorRoute(routeState, "reuse") EXCEPT !.sourceProjectId = id])
    BY <2>1, RouteChosen DEF Pages
  <2> QED BY <1>6, <2>2, CommitKeeps DEF onLoadSourceProject, commitRouteState
<1>7. ASSUME NEW r \in visited, handlePopState(r) PROVE ShellInv'
  <2>1. RouteFits(r) BY DEF ShellInv
  <2>2. /\ Rerouted(r, FALSE) /\ visited' = visited
        /\ shellSlips' = shellSlips \ Cleared(r, sessionState, session)
    BY <1>7 DEF handlePopState
  <2> QED BY <2>1, <2>2, RerouteKeeps
<1> QED BY <1>2, <1>3, <1>4, <1>5, <1>6, <1>7

(* Steps that render nothing, or the home page alone. *)
LEMMA QuietMovesKeep ==
    ASSUME ShellInv, TypeOnHome \/ \E o \in Owners : OtherTabRemembers(o)
    PROVE  ShellInv'
<1>1. ShellTypeOK BY DEF ShellInv
<1>2. CASE TypeOnHome
  <2>1. /\ Render(routeState, sessionState, session)
        /\ UNCHANGED <<visited, overridden, remembered, sessionError, sessionCalls, cookie,
                       functions, shellSlips>>
    BY <1>2 DEF TypeOnHome
  <2>2. /\ RouteFits(routeState) /\ remembered' \in Ids
        /\ sessionState \in {"loading", "ready", "unauthenticated"}
        /\ session \in {"named", "dev", Off}
        /\ shellSlips \ Cleared(routeState, sessionState, session) \subseteq shellSlips'
    BY <1>1, <2>1 DEF ShellTypeOK, ShellInv
  <2>3. /\ (\A p \in Pages : PageFits(p)) /\ HomeFits
        /\ (pageLoading => Ready(routeState.route))
    BY DEF ShellInv
  <2>4. /\ routeState' = routeState /\ RouteFits(routeState)' /\ sessionState' = sessionState
        /\ session' = session
        /\ pageData' \in [Pages -> Ids] /\ pageError' \subseteq Pages
        /\ {pageLoading', importBatchesPending'} \subseteq BOOLEAN
        /\ {homeProjectId', importBatches'} \subseteq Ids
        /\ pageLoading' => Ready(routeState.route)'
        /\ \A p \in Pages : PageFits(p)'
        /\ HomeFits'
    BY <1>1, <2>1, <2>2, <2>3, RenderKeeps
  <2>5. ShellTypeOK'
    <3>1. routeState' \in CreatorRouteState BY <2>4 DEF RouteFits
    <3> QED BY <1>1, <2>1, <2>2, <2>4, <3>1 DEF ShellTypeOK
  <2>6. (\A v \in visited : RouteFits(v))'
    BY <2>1 DEF ShellInv, RouteFits, Owner, Either
  <2>7. SessionFits' BY <2>1, <2>4, SessionStands DEF ShellInv
  <2>8. sessionCalls' \in Seq(Calls) BY <2>1 DEF ShellInv
  <2> QED BY <2>4, <2>5, <2>6, <2>7, <2>8 DEF ShellInv
<1>3. ASSUME NEW o \in Owners, OtherTabRemembers(o) PROVE ShellInv'
  <2>1. /\ remembered' = o
        /\ UNCHANGED <<routeState, visited, overridden, homeProjectId, sessionVars,
                   sessionCalls, cookie, pageData, pageError, pageLoading, importBatches,
                   importBatchesPending, functions, shellSlips>>
    BY <1>3 DEF OtherTabRemembers
  <2>2. UNCHANGED <<sessionState, session, sessionError>> BY <2>1 DEF sessionVars
  <2>3. ShellTypeOK' BY <1>1, <2>1, <2>2 DEF ShellTypeOK, Ids
  <2>4. SessionFits' BY <2>1, <2>2, SessionStands DEF ShellInv
  <2>5. /\ RouteFits(routeState)' /\ (\A r \in visited : RouteFits(r))'
        /\ (pageLoading => Ready(routeState.route))'
        /\ (\A p \in Pages : PageFits(p))' /\ HomeFits'
    BY <2>1, <2>2, PagesStand
  <2>6. sessionCalls' \in Seq(Calls) BY <2>1 DEF ShellInv
  <2> QED BY <2>3, <2>4, <2>5, <2>6 DEF ShellInv
<1> QED BY <1>2, <1>3

(* The pages. *)
LEMMA LandPageKeeps == ASSUME ShellInv, LandPage PROVE ShellInv'
<1>1. ShellTypeOK BY DEF ShellInv
<1> DEFINE p == routeState.route
<1>2. /\ pageLoading /\ pageLoading' = FALSE
      /\ shellSlips' = shellSlips \ {p}
      /\ UNCHANGED <<routeState, visited, overridden, remembered, homeProjectId, sessionState,
                     session, sessionError, sessionCalls, cookie, importBatches,
                     importBatchesPending, functions>>
      /\ \/ /\ pageData' = [pageData EXCEPT ![p] = Owner(p, routeState)]
            /\ pageError' = pageError \ {p}
         \/ /\ pageData' = [pageData EXCEPT ![p] = Off]
            /\ pageError' = pageError \cup {p}
  BY DEF LandPage, RouteAndSession, sessionVars
<1>3. Ready(p) /\ RouteFits(routeState) BY <1>2 DEF ShellInv
<1>4. p \in Pages /\ Owner(p, routeState) # Off /\ Owner(p, routeState) \in Ids
  <2>1. p \in Pages \cup {"home"} /\ p # "home"
    BY <1>3 DEF Ready, Enabled, RouteFits, CreatorRouteState
  <2> QED BY <1>3, <2>1, OwnerIsId DEF RouteFits
<1> HIDE DEF p
<1>5. pageData' \in [Pages -> Ids] /\ pageError' \subseteq Pages
      /\ shellSlips' \subseteq Pages \cup {"session"}
  BY <1>1, <1>2, <1>4 DEF ShellTypeOK, Ids
<1>6. ShellTypeOK' BY <1>1, <1>2, <1>5 DEF ShellTypeOK
<1>7. \A q : Ready(q)' <=> Ready(q) BY <1>2 DEF Ready
<1>8. \A q \in Pages : Ready(q) => q = p BY <1>3 DEF Ready, Enabled, p
<1>9. ASSUME NEW q \in Pages PROVE PageFits(q)'
  <2>1. PageFits(q) BY DEF ShellInv
  <2>2. CASE q = p
    <3>1. Owner(q, routeState)' = Owner(q, routeState) BY <1>2
    <3>2. \/ pageData'[q] = Owner(q, routeState)
          \/ pageData'[q] = Off /\ q \in pageError'
      BY <1>1, <1>2, <1>4, <2>2 DEF ShellTypeOK
    <3> QED BY <1>3, <1>4, <1>7, <2>2, <3>1, <3>2 DEF PageFits
  <2>3. CASE q # p
    <3>1. pageData'[q] = pageData[q] /\ (q \in shellSlips => q \in shellSlips')
      BY <1>1, <1>2, <2>3 DEF ShellTypeOK
    <3>2. ~Ready(q) /\ ~Ready(q)' BY <1>7, <1>8, <2>3
    <3> QED BY <2>1, <3>1, <3>2 DEF PageFits
  <2> QED BY <2>2, <2>3
<1>10. SessionFits'
  <2>1. "session" \in shellSlips => "session" \in shellSlips' BY <1>2, <1>4, PagesApart
  <2> QED BY <1>2, <2>1, SessionStands DEF ShellInv
<1>11. HomeFits' BY <1>2 DEF ShellInv, HomeFits
<1>12. RouteFits(routeState)' /\ (\A v \in visited : RouteFits(v))'
  BY <1>2 DEF ShellInv, RouteFits, Owner, Either
<1>13. sessionCalls' \in Seq(Calls) BY <1>2 DEF ShellInv
<1> QED BY <1>2, <1>6, <1>9, <1>10, <1>11, <1>12, <1>13 DEF ShellInv

LEMMA BatchesKeep == ASSUME ShellInv, loadImportBatchSummaries PROVE ShellInv'
<1>1. ShellTypeOK BY DEF ShellInv
<1>2. /\ importBatchesPending' = FALSE /\ importBatches' \in {homeProjectId, Off}
      /\ UNCHANGED <<routeState, visited, overridden, remembered, homeProjectId, sessionState,
                     session, sessionError, sessionCalls, cookie, pageData, pageError,
                     pageLoading, functions, shellSlips>>
  BY DEF loadImportBatchSummaries, RouteAndSession, sessionVars
<1>3. ShellTypeOK' BY <1>1, <1>2 DEF ShellTypeOK, Ids
<1>4. HomeFits' BY <1>2 DEF HomeFits
<1>5. \A q : Ready(q)' <=> Ready(q) BY <1>2 DEF Ready
<1>6. ASSUME NEW q \in Pages PROVE PageFits(q)'
  <2>1. PageFits(q) BY DEF ShellInv
  <2> QED BY <1>2, <1>5, <2>1 DEF PageFits
<1>7. SessionFits' BY <1>2, SessionStands DEF ShellInv
<1>8. RouteFits(routeState)' /\ (\A v \in visited : RouteFits(v))'
  BY <1>2 DEF ShellInv, RouteFits, Owner, Either
<1>9. sessionCalls' \in Seq(Calls) BY <1>2 DEF ShellInv
<1>10. (pageLoading => Ready(routeState.route))' BY <1>2, <1>5 DEF ShellInv, Ready
<1> QED BY <1>3, <1>4, <1>6, <1>7, <1>8, <1>9, <1>10 DEF ShellInv

LEMMA BeginFunctionKeeps == ASSUME ShellInv, BeginFunction PROVE ShellInv'
<1>1. ShellTypeOK /\ RouteFits(routeState) BY DEF ShellInv
<1>2. /\ Shown = routeState.route /\ Shown \in Pages
      /\ functions' = functions \cup {<<Shown, Owner(Shown, routeState)>>}
      /\ UNCHANGED <<routeState, visited, overridden, remembered, homeProjectId, sessionState,
                     session, sessionError, sessionCalls, cookie, pageData, pageError,
                     pageLoading, importBatches, importBatchesPending, shellSlips>>
  BY DEF BeginFunction, RouteAndSession, sessionVars
<1>3. Owner(Shown, routeState) \in Owners
  <2>1. Owner(Shown, routeState) \in Ids BY <1>1, <1>2, OwnerIsId DEF RouteFits
  <2>2. Owner(Shown, routeState) # Off BY <1>1, <1>2 DEF RouteFits
  <2> QED BY <2>1, <2>2 DEF Ids
<1>4. functions' \subseteq Pages \X Owners BY <1>1, <1>2, <1>3 DEF ShellTypeOK
<1>5. ShellTypeOK' BY <1>1, <1>2, <1>4 DEF ShellTypeOK
<1>6. SessionFits' BY <1>2, SessionStands DEF ShellInv
<1>7. /\ RouteFits(routeState)' /\ (\A r \in visited : RouteFits(r))'
      /\ (pageLoading => Ready(routeState.route))'
      /\ (\A p \in Pages : PageFits(p))' /\ HomeFits'
  BY <1>2, PagesStand
<1>8. sessionCalls' \in Seq(Calls) BY <1>2 DEF ShellInv
<1> QED BY <1>5, <1>6, <1>7, <1>8 DEF ShellInv

(* A function writes its page wherever the user is: a known slip, unless   *)
(* the page is still there and for the same.                               *)
LEMMA EndFunctionKeeps == ASSUME ShellInv, NEW f \in functions, EndFunction(f) PROVE ShellInv'
<1>1. ShellTypeOK BY DEF ShellInv
<1>2. PICK p \in Pages, o \in Owners : f = <<p, o>> BY <1>1 DEF ShellTypeOK
<1>3. /\ functions' = functions \ {f}
      /\ pageData' = [pageData EXCEPT ![p] = o]
      /\ pageError' = pageError \ {p}
      /\ shellSlips' = shellSlips \cup
              IF Enabled(p, routeState, sessionState) /\ Owner(p, routeState) = o
              THEN {} ELSE {p}
      /\ UNCHANGED <<routeState, visited, overridden, remembered, homeProjectId, sessionState,
                     session, sessionError, sessionCalls, cookie, pageLoading, importBatches,
                     importBatchesPending>>
  BY <1>2 DEF EndFunction, RouteAndSession, sessionVars
<1>4. shellSlips' \subseteq Pages \cup {"session"} /\ shellSlips \subseteq shellSlips'
      /\ pageError' \subseteq Pages
  BY <1>1, <1>3 DEF ShellTypeOK
<1>5. pageData' \in [Pages -> Ids]
  <2>1. pageData \in [Pages -> Ids] /\ o \in Ids BY <1>1 DEF ShellTypeOK, Ids
  <2> QED BY <1>3, <2>1
<1>6. functions' \subseteq Pages \X Owners BY <1>1, <1>3 DEF ShellTypeOK
<1>7. ShellTypeOK' BY <1>1, <1>3, <1>4, <1>5, <1>6 DEF ShellTypeOK
<1>8. \A q : Ready(q)' <=> Ready(q) BY <1>3 DEF Ready
<1>9. ASSUME NEW q \in Pages PROVE PageFits(q)'
  <2>1. PageFits(q) BY DEF ShellInv
  <2>2. CASE q = p
    <3>1. pageData'[q] = o /\ o # Off BY <1>1, <1>3, <2>2, PagesApart DEF ShellTypeOK
    <3>2. (Ready(q) /\ Owner(q, routeState) = o) \/ q \in shellSlips'
      BY <1>3, <2>2 DEF Ready
    <3>3. Owner(q, routeState)' = Owner(q, routeState) BY <1>3
    <3> QED BY <1>8, <3>1, <3>2, <3>3 DEF PageFits
  <2>3. CASE q # p
    <3>1. /\ pageData'[q] = pageData[q] /\ (q \in shellSlips => q \in shellSlips')
          /\ (q \in pageError => q \in pageError')
      BY <1>1, <1>3, <2>3 DEF ShellTypeOK
    <3>2. Owner(q, routeState)' = Owner(q, routeState) BY <1>3
    <3> QED BY <1>3, <1>8, <2>1, <3>1, <3>2 DEF PageFits
  <2> QED BY <2>2, <2>3
<1>10. SessionFits' BY <1>3, <1>4, SessionStands DEF ShellInv
<1>11. HomeFits' BY <1>3 DEF ShellInv, HomeFits
<1>12. RouteFits(routeState)' /\ (\A v \in visited : RouteFits(v))'
  BY <1>3 DEF ShellInv, RouteFits, Owner, Either
<1>13. sessionCalls' \in Seq(Calls) BY <1>3 DEF ShellInv
<1>14. (pageLoading => Ready(routeState.route))' BY <1>3, <1>8 DEF ShellInv, Ready
<1> QED BY <1>7, <1>9, <1>10, <1>11, <1>12, <1>13, <1>14 DEF ShellInv

(* A step that changes the session the app has renders its pages.          *)
LEMMA SessionsRendered ==
    ASSUME ShellInv, NEW state \in {"loading", "ready", "unauthenticated"},
           NEW who \in {"named", "dev", Off}, NEW error \in BOOLEAN,
           Sessions(state, who, error), cookie' \in BOOLEAN,
           shellSlips' \subseteq Pages \cup {"session"},
           shellSlips \ Cleared(routeState, state, who) \subseteq shellSlips'
    PROVE  /\ ShellTypeOK'
           /\ RouteFits(routeState)' /\ (\A r \in visited : RouteFits(r))'
           /\ (pageLoading => Ready(routeState.route))'
           /\ (\A p \in Pages : PageFits(p))'
           /\ HomeFits'
           /\ sessionState' = state /\ session' = who /\ sessionError' = error
           /\ overridden' = overridden
<1>1. ShellTypeOK /\ RouteFits(routeState) BY DEF ShellInv
<1>2. /\ UNCHANGED <<visited, overridden, remembered, functions>>
      /\ Render(routeState, state, who) /\ sessionError' = error
  BY DEF Sessions
<1>3. remembered' \in Ids BY <1>1, <1>2 DEF ShellTypeOK
<1>4. /\ routeState' = routeState /\ RouteFits(routeState)' /\ sessionState' = state
      /\ session' = who
      /\ pageData' \in [Pages -> Ids] /\ pageError' \subseteq Pages
      /\ {pageLoading', importBatchesPending'} \subseteq BOOLEAN
      /\ {homeProjectId', importBatches'} \subseteq Ids
      /\ pageLoading' => Ready(routeState.route)'
      /\ \A p \in Pages : PageFits(p)'
      /\ HomeFits'
  <2>1. /\ \A p \in Pages : PageFits(p)
        /\ HomeFits /\ (pageLoading => Ready(routeState.route))
    BY DEF ShellInv
  <2> QED BY <1>1, <1>2, <1>3, <2>1, RenderKeeps
<1>5. ShellTypeOK'
  <2>1. routeState' \in CreatorRouteState BY <1>4 DEF RouteFits
  <2> QED BY <1>1, <1>2, <1>3, <1>4, <2>1 DEF ShellTypeOK
<1>6. (\A v \in visited : RouteFits(v))'
  BY <1>2 DEF ShellInv, RouteFits, Owner, Either
<1> QED BY <1>2, <1>4, <1>5, <1>6

LEMMA CallBegins ==
    ASSUME ShellInv, NEW kind \in {"start", "clear"},
           sessionCalls' = Append(sessionCalls, SessionCall(kind))
    PROVE  /\ sessionCalls' \in Seq(Calls) /\ sessionCalls' # <<>>
           /\ Len(sessionCalls') = 1 => sessionCalls = <<>>
           /\ sessionCalls = <<>> =>
                 sessionCalls'[1].kind = kind /\ sessionCalls'[1].answer = "none"
<1>1. sessionCalls \in Seq(Calls) BY DEF ShellInv
<1>2. PICK c : c = SessionCall(kind) OBVIOUS
<1>3. c \in Calls /\ c.kind = kind /\ c.answer = "none" BY <1>2 DEF SessionCall, Calls
<1>4. sessionCalls' = Append(sessionCalls, c) BY <1>2
<1>5. /\ sessionCalls' \in Seq(Calls) /\ sessionCalls' # <<>>
      /\ Len(sessionCalls') = Len(sessionCalls) + 1
      /\ sessionCalls'[Len(sessionCalls) + 1] = c
  BY <1>1, <1>3, <1>4, AppendProperties
<1>6. Len(<<>>) = 0 OBVIOUS
<1>7. Len(sessionCalls') = 1 => sessionCalls = <<>>
  <2>1. Len(sessionCalls) \in Nat BY <1>1, LenProperties
  <2>2. Len(sessionCalls') = 1 => Len(sessionCalls) = 0 BY <1>5, <2>1
  <2> QED BY <1>1, <2>2, EmptySeq
<1>8. sessionCalls = <<>> => sessionCalls'[1] = c
  <2>1. sessionCalls = <<>> => Len(sessionCalls) + 1 = 1 BY <1>6
  <2> QED BY <1>5, <2>1
<1> QED BY <1>3, <1>5, <1>7, <1>8

LEMMA StartKeeps == ASSUME ShellInv, handleStartDevSession PROVE ShellInv'
<1>1. ShellTypeOK BY DEF ShellInv
<1>2. /\ Sessions("loading", session, FALSE)
      /\ sessionCalls' = Append(sessionCalls, SessionCall("start"))
      /\ shellSlips' = shellSlips \cup
                          IF overridden \/ sessionCalls # <<>> THEN {"session"} ELSE {}
      /\ cookie' = cookie
  BY DEF handleStartDevSession
<1>3. shellSlips' \subseteq Pages \cup {"session"} BY <1>1, <1>2 DEF ShellTypeOK
<1>4. /\ ShellTypeOK'
      /\ RouteFits(routeState)' /\ (\A r \in visited : RouteFits(r))'
      /\ (pageLoading => Ready(routeState.route))'
      /\ (\A p \in Pages : PageFits(p))' /\ HomeFits'
      /\ sessionState' = "loading" /\ sessionError' = FALSE /\ overridden' = overridden
  <2>1. cookie' \in BOOLEAN /\ session \in {"named", "dev", Off} BY <1>1, <1>2 DEF ShellTypeOK
  <2>2. shellSlips \ Cleared(routeState, "loading", session) \subseteq shellSlips' BY <1>2
  <2> QED BY <1>2, <1>3, <2>1, <2>2, SessionsRendered
<1>5. /\ sessionCalls' \in Seq(Calls) /\ sessionCalls' # <<>>
      /\ Len(sessionCalls') = 1 => sessionCalls = <<>>
      /\ sessionCalls = <<>> =>
            sessionCalls'[1].kind = "start" /\ sessionCalls'[1].answer = "none"
  BY <1>2, CallBegins
<1>6. SessionFits'
  <2>1. SessionIsOwn' BY <1>5 DEF SessionIsOwn
  <2>2. ASSUME "session" \notin shellSlips', Len(sessionCalls') = 1, NEW c,
               c = sessionCalls'[1]
        PROVE  CallFits(c)'
    <3>1. ~overridden BY <1>2, <2>2
    <3>2. c.kind = "start" /\ c.answer = "none" BY <1>5, <2>2
    <3> QED BY <1>4, <3>1, <3>2 DEF CallFits
  <2> QED BY <2>1, <2>2 DEF SessionFits, CallFits
<1> QED BY <1>4, <1>5, <1>6 DEF ShellInv

LEMMA ClearKeeps == ASSUME ShellInv, handleClearCurrentSession PROVE ShellInv'
<1>1. ShellTypeOK BY DEF ShellInv
<1>2. /\ CreatorWorkspaceShell /\ ~overridden
      /\ sessionCalls' = Append(sessionCalls, SessionCall("clear"))
      /\ UNCHANGED <<routeState, visited, overridden, remembered, homeProjectId, sessionState,
                     session, sessionError, cookie, pageData, pageError, pageLoading,
                     importBatches, importBatchesPending, functions, shellSlips>>
  BY DEF handleClearCurrentSession, sessionVars
<1>3. ShellTypeOK' BY <1>1, <1>2 DEF ShellTypeOK
<1>4. /\ RouteFits(routeState)' /\ (\A r \in visited : RouteFits(r))'
      /\ (pageLoading => Ready(routeState.route))'
      /\ (\A p \in Pages : PageFits(p))' /\ HomeFits'
  BY <1>2, PagesStand
<1>5. /\ sessionCalls' \in Seq(Calls) /\ sessionCalls' # <<>>
      /\ Len(sessionCalls') = 1 => sessionCalls = <<>>
      /\ sessionCalls = <<>> =>
            sessionCalls'[1].kind = "clear" /\ sessionCalls'[1].answer = "none"
  BY <1>2, CallBegins
<1>6. sessionState = "ready"
  <2>1. Shown \in Pages \cup {"home"} BY <1>2 DEF CreatorWorkspaceShell
  <2>2. Shown # "error" /\ Shown # "loading" /\ Shown # "gate" BY <2>1 DEF Pages
  <2> QED BY <2>2, ShownFacts
<1>7. SessionFits'
  <2>1. SessionIsOwn' BY <1>5 DEF SessionIsOwn
  <2>2. ASSUME "session" \notin shellSlips', Len(sessionCalls') = 1, NEW c,
               c = sessionCalls'[1]
        PROVE  CallFits(c)'
    <3>1. sessionCalls = <<>> /\ c.kind = "clear" /\ c.answer = "none" BY <1>5, <2>2
    <3>2. session = "dev" /\ cookie
      BY <1>2, <1>6, <2>2, <3>1 DEF ShellInv, SessionFits, SessionIsOwn
    <3> QED BY <1>2, <1>6, <3>1, <3>2 DEF CallFits
  <2> QED BY <2>1, <2>2 DEF SessionFits, CallFits
<1> QED BY <1>3, <1>4, <1>5, <1>7 DEF ShellInv

(* The server answers call i. *)
LEMMA ServeSessionKeeps ==
    ASSUME ShellInv, NEW i \in DOMAIN sessionCalls, ServeSession(i)
    PROVE  ShellInv'
<1>1. ShellTypeOK BY DEF ShellInv
<1>2. /\ sessionCalls \in Seq(Calls) /\ Len(sessionCalls) \in Nat
      /\ i \in 1 .. Len(sessionCalls) /\ DOMAIN sessionCalls = 1 .. Len(sessionCalls)
      /\ sessionCalls[i] \in Calls
  BY LenProperties, ElementOfSeq DEF ShellInv
<1>3. PICK c : c = sessionCalls[i] OBVIOUS
<1>4. c.answer = "none" /\ c \in Calls BY <1>2, <1>3 DEF ServeSession
<1>5. UNCHANGED <<routeState, visited, overridden, remembered, homeProjectId, sessionState,
                  session, sessionError, pageData, pageError, pageLoading, importBatches,
                  importBatchesPending, functions>>
  BY DEF ServeSession, sessionVars
<1>6. PICK answer :
        /\ sessionCalls' = [sessionCalls EXCEPT ![i].answer = answer]
        /\ \/ /\ c.kind = "load" /\ answer \in loadCurrentSession
              /\ UNCHANGED <<cookie, shellSlips>>
           \/ /\ c.kind # "load" /\ cookie' = (c.kind = "start")
              /\ \/ /\ answer = IF c.kind = "start" THEN "session" ELSE "cleared"
                    /\ UNCHANGED shellSlips
                 \/ answer = "error" /\ shellSlips' = shellSlips \cup {"session"}
           \/ answer = "error" /\ UNCHANGED <<cookie, shellSlips>>
           \/ /\ c.kind = "load" /\ overridden /\ answer = "unauthenticated"
              /\ UNCHANGED <<cookie, shellSlips>>
  BY <1>3 DEF ServeSession
<1>7. c.kind \in {"load", "start", "clear"} BY <1>4 DEF Calls
<1>8. PICK w : w = [c EXCEPT !.answer = answer] OBVIOUS
<1>9. w.kind = c.kind /\ w.answer = answer /\ w \in Calls
  <2>1. \/ c.kind = "load" /\ answer \in {"session", "unauthenticated", "error"}
        \/ c.kind = "start" /\ answer \in {"session", "error"}
        \/ c.kind = "clear" /\ answer \in {"cleared", "error"}
    BY <1>6, <1>7 DEF loadCurrentSession
  <2>2. c = [kind |-> c.kind, answer |-> "none"] BY <1>4 DEF Calls
  <2>3. w = [kind |-> c.kind, answer |-> answer] BY <1>8, <2>2
  <2> QED BY <2>1, <2>3 DEF Calls
<1>10. sessionCalls' = [sessionCalls EXCEPT ![i] = w] BY <1>3, <1>6, <1>8
<1>11. /\ sessionCalls' \in Seq(Calls) /\ Len(sessionCalls') = Len(sessionCalls)
       /\ sessionCalls'[i] = w
  <2>1. i \in DOMAIN sessionCalls OBVIOUS
  <2> QED BY <1>2, <1>9, <1>10, <2>1, OneChanges
<1>12. cookie' \in BOOLEAN /\ shellSlips' \subseteq Pages \cup {"session"}
       /\ shellSlips \subseteq shellSlips'
  BY <1>1, <1>6 DEF ShellTypeOK
<1>13. ShellTypeOK' BY <1>1, <1>5, <1>12 DEF ShellTypeOK
<1>14. /\ RouteFits(routeState)' /\ (\A r \in visited : RouteFits(r))'
       /\ (pageLoading => Ready(routeState.route))'
       /\ (\A p \in Pages : PageFits(p))' /\ HomeFits'
  BY <1>5, <1>12, PagesStand
<1>15. SessionFits'
  <2>1. sessionCalls' # <<>>
    <3>1. Len(<<>>) = 0 OBVIOUS
    <3> QED BY <1>2, <1>11, <3>1
  <2>2. SessionIsOwn' BY <2>1 DEF SessionIsOwn
  <2>3. ASSUME "session" \notin shellSlips', Len(sessionCalls') = 1, NEW x,
               x = sessionCalls'[1]
        PROVE  CallFits(x)'
    <3>1. i = 1 /\ x = w BY <1>2, <1>11, <2>3
    <3>2. CallFits(c)
      <4>1. Len(sessionCalls) = 1 /\ "session" \notin shellSlips BY <1>11, <1>12, <2>3
      <4> QED BY <1>3, <3>1, <4>1 DEF ShellInv, SessionFits
    <3>3. cookie \in BOOLEAN BY <1>1 DEF ShellTypeOK
    <3>4. CASE c.kind = "load"
      <4>1. /\ answer = "session" => overridden \/ cookie
            /\ answer = "unauthenticated" => overridden \/ ~cookie
            /\ cookie' = cookie
        BY <1>6, <2>3, <3>4 DEF loadCurrentSession
      <4>2. sessionState = "loading" /\ ~sessionError BY <3>2, <3>4 DEF CallFits
      <4>3. overridden' = overridden BY DEF ServeSession
      <4>4. x.kind = "load" /\ x.answer = answer BY <1>9, <3>1, <3>4
      <4>5. sessionState' = "loading" /\ ~sessionError' BY <1>5, <4>2
      <4>6. /\ x.answer = "session" => overridden' \/ cookie'
            /\ x.answer = "unauthenticated" => overridden' \/ ~cookie'
        BY <4>1, <4>3, <4>4
      <4> QED BY <4>4, <4>5, <4>6 DEF CallFits
    <3>5. CASE c.kind = "start"
      BY <1>5, <1>6, <1>9, <2>3, <3>1, <3>2, <3>3, <3>5 DEF CallFits
    <3>6. CASE c.kind = "clear"
      <4>1. cookie BY <1>4, <3>2, <3>3, <3>6 DEF CallFits
      <4>2. \/ answer = "cleared" /\ ~cookie'
            \/ answer = "error" /\ cookie'
        BY <1>6, <2>3, <3>6, <4>1
      <4> QED BY <1>5, <1>9, <3>1, <3>2, <3>6, <4>2 DEF CallFits
    <3> QED BY <1>7, <3>4, <3>5, <3>6
  <2> QED BY <2>2, <2>3 DEF SessionFits, CallFits
<1> QED BY <1>11, <1>13, <1>14, <1>15 DEF ShellInv

(* An answer arrives.  If it is to the only call, the session is settled.  *)
LEMMA AnswerSettles ==
    ASSUME ShellInv, NEW i \in DOMAIN sessionCalls, TakeSessionAnswer(i)
    PROVE  ShellInv'
<1>1. ShellTypeOK BY DEF ShellInv
<1>2. /\ sessionCalls \in Seq(Calls) /\ Len(sessionCalls) \in Nat
      /\ i \in 1 .. Len(sessionCalls) /\ DOMAIN sessionCalls = 1 .. Len(sessionCalls)
      /\ sessionCalls[i] \in Calls
  BY LenProperties, ElementOfSeq DEF ShellInv
<1>3. PICK c : c = sessionCalls[i] OBVIOUS
<1>4. /\ c \in Calls /\ c.answer # "none"
      /\ c.kind \in {"load", "start", "clear"}
      /\ c.answer \in {"session", "unauthenticated", "error", "cleared"}
  BY <1>2, <1>3 DEF TakeSessionAnswer, Calls
<1>5. /\ sessionCalls' = RemoveAt(sessionCalls, i)
      /\ shellSlips' = (shellSlips \cup IF Len(sessionCalls) > 1 THEN {"session"} ELSE {})
                          \ Cleared(routeState, sessionState', session')
      /\ cookie' = cookie
  BY DEF TakeSessionAnswer
<1>6. PICK state \in {"loading", "ready", "unauthenticated"}, who \in {"named", "dev", Off},
           error \in BOOLEAN :
        /\ Sessions(state, who, error)
        /\ c.answer = "error" =>
              CASE c.kind = "load" -> state = "unauthenticated" /\ who = Off /\ error
                [] c.kind = "start" -> state = "unauthenticated" /\ error
                [] c.kind = "clear" -> state = sessionState /\ who = session /\ error
        /\ c.answer = "session" =>
              /\ state = "ready" /\ error = sessionError
              /\ who = IF c.kind = "load" /\ overridden THEN "named" ELSE "dev"
        /\ c.answer = "unauthenticated" =>
              state = "unauthenticated" /\ who = Off /\ error = sessionError
        /\ c.answer = "cleared" => state = "unauthenticated" /\ who = Off /\ ~error
  <2>1. /\ sessionState \in {"loading", "ready", "unauthenticated"}
        /\ session \in {"named", "dev", Off} /\ sessionError \in BOOLEAN
    BY <1>1 DEF ShellTypeOK
  <2>2. CASE c.answer = "error"
    <3>1. TakeFailure(i, c) BY <1>3, <2>2 DEF TakeSessionAnswer
    <3>2. CASE c.kind = "load" BY <2>2, <3>1, <3>2 DEF TakeFailure
    <3>3. CASE c.kind = "start" BY <2>1, <2>2, <3>1, <3>3 DEF TakeFailure
    <3>4. CASE c.kind = "clear" BY <2>1, <2>2, <3>1, <3>4 DEF TakeFailure
    <3> QED BY <1>4, <3>2, <3>3, <3>4
  <2>3. CASE c.answer = "session"
    <3>1. Sessions("ready", IF c.kind = "load" /\ overridden THEN "named" ELSE "dev",
                   sessionError)
      BY <1>3, <2>3 DEF TakeSessionAnswer
    <3> QED BY <2>1, <2>3, <3>1
  <2>4. CASE c.answer = "unauthenticated"
    <3>1. Sessions("unauthenticated", Off, sessionError)
      BY <1>3, <2>4 DEF TakeSessionAnswer
    <3> QED BY <2>1, <2>4, <3>1
  <2>5. CASE c.answer = "cleared"
    <3>1. Sessions("unauthenticated", Off, FALSE) BY <1>3, <2>5 DEF TakeSessionAnswer
    <3> QED BY <2>5, <3>1
  <2> QED BY <1>4, <2>2, <2>3, <2>4, <2>5
<1>7. sessionState' = state /\ session' = who BY <1>6 DEF Sessions, Render
<1>8. /\ ShellTypeOK'
      /\ RouteFits(routeState)' /\ (\A r \in visited : RouteFits(r))'
      /\ (pageLoading => Ready(routeState.route))'
      /\ (\A p \in Pages : PageFits(p))' /\ HomeFits'
      /\ sessionState' = state /\ session' = who /\ sessionError' = error
      /\ overridden' = overridden
  <2>1. cookie' \in BOOLEAN BY <1>1, <1>5 DEF ShellTypeOK
  <2>2. /\ shellSlips' \subseteq Pages \cup {"session"}
        /\ shellSlips \ Cleared(routeState, state, who) \subseteq shellSlips'
    BY <1>1, <1>5, <1>7, SMTT(30) DEF ShellTypeOK
  <2> QED BY <1>6, <2>1, <2>2, SessionsRendered
<1>9. sessionCalls' \in Seq(Calls) /\ Len(sessionCalls') = Len(sessionCalls) - 1
  <2>1. i \in DOMAIN sessionCalls OBVIOUS
  <2> QED BY <1>2, <1>5, <2>1, OneIsOver
<1>10. "session" \notin shellSlips' => "session" \notin shellSlips /\ ~(Len(sessionCalls) > 1)
  BY <1>5, SlipStays
<1>11. SessionFits'
  <2>1. "session" \notin shellSlips' => Len(sessionCalls) = 1 /\ CallFits(c)
    <3> SUFFICES ASSUME "session" \notin shellSlips'
                 PROVE  Len(sessionCalls) = 1 /\ CallFits(c)
      OBVIOUS
    <3>1. Len(sessionCalls) = 1 /\ i = 1 BY <1>2, <1>10
    <3> QED BY <1>3, <1>10, <3>1 DEF ShellInv, SessionFits
  <2>2. ASSUME "session" \notin shellSlips'
        PROVE  /\ state # "loading"
               /\ state = "ready" => who = IF overridden THEN "named" ELSE "dev"
               /\ ~overridden /\ ~error => (state = "ready" <=> cookie)
               /\ state = "ready" /\ ~overridden => cookie
    <3>1. CallFits(c) BY <2>1, <2>2
    <3>2. cookie \in BOOLEAN /\ overridden \in BOOLEAN BY <1>1 DEF ShellTypeOK
    <3>3. CASE c.kind = "load"
      <4>1. c.answer \in {"session", "unauthenticated", "error"} BY <1>4, <3>3 DEF Calls
      <4> QED BY <1>6, <3>1, <3>2, <3>3, <4>1 DEF CallFits
    <3>4. CASE c.kind = "start"
      <4>1. c.answer \in {"session", "error"} BY <1>4, <3>4 DEF Calls
      <4> QED BY <1>6, <3>1, <3>2, <3>4, <4>1 DEF CallFits
    <3>5. CASE c.kind = "clear"
      <4>1. c.answer \in {"cleared", "error"} BY <1>4, <3>5 DEF Calls
      <4> QED BY <1>6, <3>1, <3>2, <3>5, <4>1 DEF CallFits
    <3> QED BY <1>4, <3>3, <3>4, <3>5
  <2>3. SessionIsOwn' BY <1>5, <1>8, <2>2 DEF SessionIsOwn
  <2>4. "session" \notin shellSlips' => Len(sessionCalls') # 1
    <3>1. Len(sessionCalls') = Len(sessionCalls) - 1 BY <1>9
    <3> QED BY <2>1, <3>1
  <2> QED BY <2>3, <2>4 DEF SessionFits
<1> QED BY <1>8, <1>9, <1>11 DEF ShellInv

LEMMA ShellInvInit == ASSUME ShellInit PROVE ShellInv
<1>1. PICK url \in CreatorRouteState : routeState = parseCreatorRouteState(url)
  BY DEF ShellInit
<1>2. RouteFits(routeState) /\ routeState \in CreatorRouteState
  BY <1>1, ParsedFits DEF RouteFits
<1>3. visited = {normalizeRoute(routeState)} /\ RouteFits(normalizeRoute(routeState))
  BY <1>2, NormalizedFits DEF ShellInit
<1>4. remembered \in Ids
  <2>1. routeState.projectId \in Ids BY <1>2 DEF CreatorRouteState
  <2> QED BY <2>1 DEF ShellInit
<1>5. PICK c : c = SessionCall("load") OBVIOUS
<1>6. c \in Calls /\ c.kind = "load" /\ c.answer = "none" BY <1>5 DEF SessionCall, Calls
<1>7. sessionCalls = <<c>> /\ sessionState = "loading" /\ ~sessionError
  BY <1>5 DEF ShellInit
<1>8. sessionCalls \in Seq(Calls) /\ sessionCalls # <<>> /\ sessionCalls[1] = c
  BY <1>6, <1>7
<1>9. ShellTypeOK
  <2>1. visited \subseteq CreatorRouteState BY <1>3 DEF RouteFits
  <2> QED BY <1>2, <1>4, <2>1 DEF ShellInit, ShellTypeOK, Ids
<1>10. \A p : ~Ready(p) BY <1>7 DEF Ready, Enabled
<1>11. \A p \in Pages : PageFits(p) BY <1>10 DEF ShellInit, PageFits
<1>12. HomeFits BY <1>7 DEF HomeFits, HomeEnabled
<1>13. SessionFits
  <2>1. CallFits(c) BY <1>6, <1>7 DEF CallFits
  <2> QED BY <1>8, <2>1 DEF SessionFits, SessionIsOwn
<1>14. \A r \in visited : RouteFits(r) BY <1>3
<1>15. ~pageLoading BY DEF ShellInit
<1> QED BY <1>2, <1>8, <1>9, <1>11, <1>12, <1>13, <1>14, <1>15 DEF ShellInv

LEMMA ShellKeeps == ASSUME ShellInv, [ShellNext]_shellVars PROVE ShellInv'
<1>1. CASE ShellNext
  <2>1. CASE \/ handleOpenPreviewWorkbench \/ handleOpenImportWorkbench
             \/ \E o \in Owners : handleSelectProjectId(o) \/ handleOpenShotWorkbench(o)
    BY <2>1, HomeMovesKeep
  <2>2. CASE \/ onOpenAudioWorkbench \/ onBackToShotWorkbench \/ handleReturnHome
             \/ \E o \in Owners : onOpenShotWorkbench(o)
             \/ \E id \in Ids : onLoadSourceProject(id)
             \/ \E r \in visited : handlePopState(r)
    BY <2>2, PageMovesKeep
  <2>3. CASE TypeOnHome \/ \E o \in Owners : OtherTabRemembers(o)
    BY <2>3, QuietMovesKeep
  <2>4. CASE handleStartDevSession BY <2>4, StartKeeps
  <2>5. CASE handleClearCurrentSession BY <2>5, ClearKeeps
  <2>6. CASE \E i \in DOMAIN sessionCalls : ServeSession(i) BY <2>6, ServeSessionKeeps
  <2>7. CASE \E i \in DOMAIN sessionCalls : TakeSessionAnswer(i) BY <2>7, AnswerSettles
  <2>8. CASE LandPage BY <2>8, LandPageKeeps
  <2>9. CASE loadImportBatchSummaries BY <2>9, BatchesKeep
  <2>10. CASE BeginFunction BY <2>10, BeginFunctionKeeps
  <2>11. CASE \E f \in functions : EndFunction(f) BY <2>11, EndFunctionKeeps
  <2> QED
    BY <1>1, <2>1, <2>2, <2>3, <2>4, <2>5, <2>6, <2>7, <2>8, <2>9, <2>10, <2>11
    DEF ShellNext
<1>2. CASE UNCHANGED shellVars
  <2>1. ShellTypeOK' BY <1>2 DEF ShellInv, ShellTypeOK, shellVars
  <2>2. SessionFits' BY <1>2, SessionStands DEF ShellInv, shellVars
  <2>3. /\ RouteFits(routeState)' /\ (\A r \in visited : RouteFits(r))'
        /\ (pageLoading => Ready(routeState.route))'
        /\ (\A p \in Pages : PageFits(p))' /\ HomeFits'
    BY <1>2, PagesStand DEF shellVars
  <2>4. sessionCalls' \in Seq(Calls) BY <1>2 DEF ShellInv, shellVars
  <2> QED BY <2>1, <2>2, <2>3, <2>4 DEF ShellInv
<1> QED BY <1>1, <1>2

(* The page shown is the one whose controller is enabled, for a page that  *)
(* was left was cleared or is a known slip.                                *)
LEMMA ShownPage == ASSUME ShellInv PROVE PageFollowsRoute
<1> DEFINE page == routeState.route
<1>1. /\ page \in Pages \cup {"home"}
      /\ \A p \in Pages : PageFits(p)
      /\ \A p \in Pages : Ready(p) => p = page
  BY DEF ShellInv, RouteFits, CreatorRouteState, Ready, Enabled
<1>2. ASSUME Shown \in Pages
      PROVE  pageData[Shown] # Off /\ (Shown = page \/ Shown \in {"imports", "shots"})
  <2>1. Shown # "error" /\ Shown # "loading" /\ Shown # "gate" /\ Shown # "home"
    BY <1>2 DEF Pages
  <2>2. CASE Shown = "imports" /\ ImportsShown BY <2>2 DEF ImportsShown
  <2>3. CASE Shown = "shots" /\ ShotsShown BY <2>3 DEF ShotsShown
  <2>4. CASE /\ Shown = page /\ page # "home"
             /\ CollabShown \/ PreviewShown \/ AudioShown \/ ReuseShown \/ HomeShown
    BY <2>4 DEF CollabShown, PreviewShown, AudioShown, ReuseShown, HomeShown
  <2> QED BY <2>1, <2>2, <2>3, <2>4 DEF Shown
<1>3. ASSUME Shown \in Pages, Shown \notin shellSlips
      PROVE  Shown = page /\ Ready(Shown)
             /\ (~pageLoading => pageData[Shown] = Owner(Shown, routeState))
  <2>1. pageData[Shown] # Off BY <1>2, <1>3
  <2>2. PageFits(Shown) BY <1>1, <1>3
  <2>3. Ready(Shown) BY <1>3, <2>1, <2>2 DEF PageFits
  <2> QED BY <1>1, <1>3, <2>1, <2>2, <2>3 DEF PageFits
<1>4. ASSUME Shown = "loading", sessionState = "ready", ~pageLoading
      PROVE  page = "reuse" /\ routeState.projectId = Off
  <2>1. page # "loading" BY <1>1 DEF Pages
  <2>2. /\ ~ErrorShown /\ ~ImportsShown /\ ~ShotsShown
        /\ ~(CollabShown \/ PreviewShown \/ AudioShown \/ ReuseShown \/ HomeShown)
    BY <1>4, <2>1 DEF Shown
  <2>3. page \in Pages BY <1>1, <2>2 DEF HomeShown
  <2>4. pageData[page] = Off
    BY <2>2, <2>3
    DEF Pages, ImportsShown, ShotsShown, CollabShown, PreviewShown, AudioShown, ReuseShown
  <2>5. ~Ready(page)
    <3> SUFFICES ASSUME Ready(page) PROVE FALSE OBVIOUS
    <3>1. PageFits(page) BY <1>1, <2>3
    <3>2. page \in pageError BY <1>4, <2>4, <3>1 DEF PageFits
    <3> QED BY <2>2, <3>2 DEF ErrorShown
  <2>6. Owner(page, routeState) # Off /\ page # "home"
    BY <2>3, PagesApart DEF ShellInv, RouteFits
  <2>7. ~(page = "reuse" => routeState.projectId # Off)
    BY <1>4, <2>5, <2>6 DEF Ready, Enabled
  <2> QED BY <2>7
<1>5. ASSUME Shown = "home", ~importBatchesPending
      PROVE  importBatches \in {Off, homeProjectId}
  <2>1. sessionState = "ready" /\ page = "home" BY <1>5, ShownFacts
  <2> QED BY <1>5, <2>1 DEF ShellInv, HomeFits, HomeEnabled
<1> QED BY <1>3, <1>4, <1>5 DEF PageFollowsRoute

-----------------------------------------------------------------------------
(* The route, the data of the pages and the session of the creator app fit *)
(* together at all times (App.tsx and the controllers of its pages).       *)
THEOREM ShellInvariance == ShellSpec => []ShellInv
<1>1. ShellInit => ShellInv BY ShellInvInit
<1>2. ShellInv /\ [ShellNext]_shellVars => ShellInv' BY ShellKeeps
<1> QED BY <1>1, <1>2, PTL DEF ShellSpec

(* Every route names a page and ids there are, and every page shows data   *)
(* of a project there is, or none.                                         *)
THEOREM ShellTyped == ShellSpec => []ShellTypeOK
<1>1. ShellInv => ShellTypeOK BY DEF ShellInv
<1> QED BY <1>1, ShellInvariance, PTL

(* The app shows the page of its route, for the ids of its route, and does *)
(* not wait for a load that will not come, but on the reuse page of a URL  *)
(* without a project; a page written by a function after it was left is a  *)
(* known exception.                                                        *)
THEOREM PageIsOfRoute == ShellSpec => []PageFollowsRoute
<1>1. ShellInv => PageFollowsRoute BY ShownPage
<1> QED BY <1>1, ShellInvariance, PTL

(* With no call about the session under way the app works under the user   *)
(* its URL names, or has a session exactly if the server has; the known    *)
(* exceptions are answers that were lost, calls that overlapped, and the   *)
(* developer's session started from a URL that names a user.               *)
THEOREM SessionBelongs == ShellSpec => []SessionIsOwn
<1>1. ShellInv => SessionIsOwn BY DEF ShellInv, SessionFits
<1> QED BY <1>1, ShellInvariance, PTL

-----------------------------------------------------------------------------
(* The governance page.                                                    *)

Grants == SUBSET availablePermissions
Permissions == Grants \cup {Off}
PromptStatuses == {"draft", "active", "archived"}

(* What a panel shows, and what a function brings it.                      *)
GovernancePanels ==
    [codes : Grants, roles : [Roles -> Permissions], members : [Members -> Roles \cup {Off}]]
ModelPanels == [codes : Grants, prompts : Seq(PromptStatuses)]

Commands ==
    [op : {"none"} \cup OrgCommands \cup ModelCommands,
     of : Roles \cup Members \cup Nat \cup {Off},
     to : Permissions \cup Roles \cup {"active", "archived"}]
TaskKinds == {"load", "act", "loadModels", "actModels", "other"}
Gots == GovernancePanels \cup ModelPanels \cup Grants \cup (SUBSET Nat) \cup {Blank}
TodoSteps == {"check", "write", "session", "rows", "models"}
Tasks ==
    [kind : TaskKinds, command : Commands,
     todo : Seq(TodoSteps), codes : Grants,
     failed : BOOLEAN, got : Gots]

(* A command names a role, a member or a version there is.                 *)
CommandFits(c) ==
    /\ c.op \in {"createRole", "updateRole"} => c.of \in Roles /\ c.to \in Permissions
    /\ c.op = "deleteRole" => c.of \in Roles
    /\ c.op = "updateMemberRole" => c.of \in Members /\ c.to \in Roles
    /\ c.op \in {"updatePromptTemplateDraft", "setPromptTemplateStatus"} =>
          c.of \in DOMAIN prompts
    /\ c.op = "setPromptTemplateStatus" => c.to \in {"active", "archived"}

(* What is left of a function, by its kind.                                *)
TodoFits(kind, todo) ==
    /\ kind = "load" => todo \in {<<"session", "rows">>, <<"rows">>, <<>>}
    /\ kind = "act" =>
          todo \in {<<"check", "write", "session", "rows">>, <<"write", "session", "rows">>,
                    <<"session", "rows">>, <<"rows">>, <<>>}
    /\ kind = "loadModels" => todo \in {<<"models">>, <<>>}
    /\ kind = "actModels" =>
          todo \in {<<"check", "write", "models">>, <<"write", "models">>, <<"models">>, <<>>}
    /\ kind = "other" => todo \in {<<"check", "write">>, <<"write">>, <<>>}

(* A function that read all it has to read brings its panel.               *)
GotFits(w) ==
    /\ w.todo = <<"rows">> => w.got \in Grants
    /\ w.todo = <<>> /\ ~w.failed =>
          /\ w.kind \in {"load", "act"} => w.got \in GovernancePanels
          /\ w.kind \in {"loadModels", "actModels"} =>
                w.got \in ModelPanels /\ w.got.codes = w.codes

TaskFits(w) == CommandFits(w.command) /\ TodoFits(w.kind, w.todo) /\ GotFits(w)

(* A command that was checked and is about to be written: what was checked *)
(* is still so, unless commands overlapped.                                *)
Writes(w) == w.todo # <<>> /\ Head(w.todo) = "write"
StillAllowed(w) ==
    LET c == w.command IN
    /\ c.op = "createRole" => rolePermissions[c.of] = Off
    /\ c.op = "updateRole" => Governed([rolePermissions EXCEPT ![c.of] = c.to], memberRole)
    /\ c.op = "deleteRole" => Governed([rolePermissions EXCEPT ![c.of] = Off], memberRole)
    /\ c.op = "updateMemberRole" =>
          Governed(rolePermissions, [memberRole EXCEPT ![c.of] = c.to])
RolesHold ==
    "race" \notin governanceSlips =>
        /\ Governed(rolePermissions, memberRole)
        /\ \A w \in Range(governanceWork) : Writes(w) => StillAllowed(w)

(* What is about to be published comes with the list of what is published  *)
(* now, but for versions that are loose, unless it is loose itself.        *)
Publishes(w) == Writes(w) /\ w.command.op = "setPromptTemplateStatus" /\ w.command.to = "active"
ListsActive(w) ==
    w.command.of \in looseVersions \/ OthersActive(w.command.of) \ looseVersions \subseteq w.got
OneActive ==
    \A i, j \in DOMAIN prompts \ looseVersions :
        prompts[i] = "active" /\ prompts[j] = "active" => i = j
PromptsHold == OneActive /\ \A w \in Range(governanceWork) : Publishes(w) => ListsActive(w)

CommandsHold == RolesHold /\ PromptsHold
MayWrite(w) ==
    ("race" \notin governanceSlips => StillAllowed(w)) /\ (Publishes(w) => ListsActive(w))

(* One load of each panel, and none of a page that was left.               *)
OneLoad ==
    \A kind \in {"load", "loadModels"} :
        /\ AtMostOne(governanceWork, kind)
        /\ ~governanceOpen => NoneOf(governanceWork, kind)

(* With both panels there, forms nobody edited show their rows.            *)
DraftsAgree ==
    governance # Blank /\ modelGovernance # Blank /\ panelErrors = {} =>
        /\ \A r \in Roles : governance.roles[r] # Off => roleDrafts[r] \in Grants
        /\ \A r \in Roles \ edited : roleDrafts[r] = governance.roles[r]
        /\ \A m \in Members \ edited : memberDrafts[m] = governance.members[m]

(* The second panel has the codes it would be loaded with, or is loading.  *)
CodesAgree ==
    /\ governanceOpen /\ modelGovernance # Blank
    /\ NoneOf(governanceWork, "loadModels") /\ "codes" \notin governanceSlips
    => modelGovernance.codes = sessionPermissionCodes(governance)

GovernanceInv ==
    /\ GovernanceTypeOK
    /\ governance \in GovernancePanels \cup {Blank}
    /\ modelGovernance \in ModelPanels \cup {Blank}
    /\ governanceWork \in Seq(Tasks)
    /\ \A w \in Range(governanceWork) : TaskFits(w)
    /\ CommandsHold /\ OneLoad /\ DraftsAgree /\ CodesAgree

-----------------------------------------------------------------------------
LEMMA TaskAt ==
    ASSUME GovernanceInv, NEW i \in DOMAIN governanceWork
    PROVE  /\ governanceWork[i] \in Tasks /\ TaskFits(governanceWork[i])
           /\ governanceWork[i] \in Range(governanceWork)
<1>1. governanceWork \in Seq(Tasks) BY DEF GovernanceInv
<1>2. DOMAIN governanceWork = 1 .. Len(governanceWork) BY <1>1, LenProperties
<1>3. governanceWork[i] \in Tasks BY <1>1, <1>2, ElementOfSeq
<1>4. governanceWork[i] \in Range(governanceWork) BY DEF Range
<1> QED BY <1>3, <1>4 DEF GovernanceInv

LEMMA CodesAreGrants ==
    ASSUME NEW panel \in GovernancePanels \cup {Blank}
    PROVE  sessionPermissionCodes(panel) \in Grants
BY DEF sessionPermissionCodes, GovernancePanels, Grants, gateCodes, availablePermissions

(* What is left of a function, in full. *)
LEMMA TodosAreSteps ==
    /\ <<"check", "write", "session", "rows">> \in Seq(TodoSteps)
    /\ <<"write", "session", "rows">> \in Seq(TodoSteps)
    /\ <<"session", "rows">> \in Seq(TodoSteps) /\ <<"rows">> \in Seq(TodoSteps)
    /\ <<"check", "write", "models">> \in Seq(TodoSteps)
    /\ <<"write", "models">> \in Seq(TodoSteps) /\ <<"models">> \in Seq(TodoSteps)
    /\ <<"check", "write">> \in Seq(TodoSteps) /\ <<"write">> \in Seq(TodoSteps)
    /\ <<>> \in Seq(TodoSteps)
BY DEF TodoSteps

(* Loads, and what a form starts. *)
LEMMA LoadsFit ==
    ASSUME NEW panel \in Panels, NEW codes \in Grants
    PROVE  /\ Loads(panel, codes) \in Tasks /\ TaskFits(Loads(panel, codes))
           /\ ~Writes(Loads(panel, codes)) /\ Loads(panel, codes).codes = codes
           /\ Loads(panel, codes).kind = IF panel = "governance" THEN "load" ELSE "loadModels"
<1>1. PICK w : w = Loads(panel, codes) OBVIOUS
<1>2. /\ w.kind = IF panel = "governance" THEN "load" ELSE "loadModels"
      /\ w.command = NoCommand /\ w.codes = codes /\ w.failed = FALSE /\ w.got = Blank
      /\ w.todo = IF panel = "governance" THEN <<"session", "rows">> ELSE <<"models">>
      /\ w = [kind |-> w.kind, command |-> NoCommand, todo |-> w.todo, codes |-> codes,
              failed |-> FALSE, got |-> Blank]
  BY <1>1 DEF Loads, Task, loadGovernancePanel, loadModelGovernancePanel
<1>3. NoCommand \in Commands /\ CommandFits(NoCommand)
  BY DEF NoCommand, Asks, Commands, Permissions, CommandFits
<1>4. w \in Tasks BY <1>2, <1>3, TodosAreSteps DEF Tasks, TaskKinds, Gots
<1>5. w.todo # <<>> /\ w.todo # <<"rows">> /\ Head(w.todo) # "write"
  <2>1. CASE panel = "governance"
    <3>1. <<"session", "rows">> # <<>> /\ <<"session", "rows">> # <<"rows">>
            /\ Head(<<"session", "rows">>) = "session"
      OBVIOUS
    <3> QED BY <1>2, <2>1, <3>1
  <2>2. CASE panel # "governance"
    <3>1. <<"models">> # <<>> /\ <<"models">> # <<"rows">> /\ Head(<<"models">>) = "models"
      OBVIOUS
    <3> QED BY <1>2, <2>2, <3>1
  <2> QED BY <2>1, <2>2
<1>6. TodoFits(w.kind, w.todo) BY <1>2 DEF TodoFits, Panels
<1>7. TaskFits(w) BY <1>2, <1>3, <1>5, <1>6 DEF TaskFits, GotFits
<1> QED BY <1>1, <1>2, <1>4, <1>5, <1>7 DEF Writes

LEMMA ActionTodos ==
    /\ <<"check", "write">> \o loadGovernancePanel = <<"check", "write", "session", "rows">>
    /\ <<"check", "write">> \o loadModelGovernancePanel = <<"check", "write", "models">>
<1>1. PICK a : a = <<"check", "write">> OBVIOUS
<1>2. PICK b : b = <<"session", "rows">> OBVIOUS
<1>3. PICK c : c = <<"models">> OBVIOUS
<1>4. a \in Seq(TodoSteps) /\ b \in Seq(TodoSteps) /\ c \in Seq(TodoSteps)
  BY <1>1, <1>2, <1>3, TodosAreSteps
<1>5. Len(a) = 2 /\ a[1] = "check" /\ a[2] = "write"
  <2>1. Len(<<"check", "write">>) = 2 OBVIOUS
  <2> QED BY <1>1, <2>1
<1>6. Len(b) = 2 /\ b[1] = "session" /\ b[2] = "rows"
  <2>1. Len(<<"session", "rows">>) = 2 OBVIOUS
  <2> QED BY <1>2, <2>1
<1>7. Len(c) = 1 /\ c[1] = "models"
  <2>1. Len(<<"models">>) = 1 OBVIOUS
  <2> QED BY <1>3, <2>1
<1>8. a \o b = <<"check", "write", "session", "rows">>
  <2>1. /\ a \o b \in Seq(TodoSteps) /\ Len(a \o b) = 4
        /\ \A i \in 1 .. 4 : (a \o b)[i] = IF i <= 2 THEN a[i] ELSE b[i - 2]
    <3>1. /\ a \o b \in Seq(TodoSteps) /\ Len(a \o b) = Len(a) + Len(b)
          /\ \A i \in 1 .. Len(a) + Len(b) :
                (a \o b)[i] = IF i <= Len(a) THEN a[i] ELSE b[i - Len(a)]
      BY <1>4, ConcatProperties
    <3>2. Len(a) = 2 /\ Len(a) + Len(b) = 4 BY <1>5, <1>6
    <3> QED BY <3>1, <3>2
  <2>2. (a \o b)[1] = "check" /\ (a \o b)[2] = "write" BY <1>5, <2>1
  <2>3. (a \o b)[3] = "session" /\ (a \o b)[4] = "rows" BY <1>6, <2>1
  <2>4. PICK d : d = <<"check", "write", "session", "rows">> OBVIOUS
  <2>5. Len(d) = 4 /\ d[1] = "check" /\ d[2] = "write" /\ d[3] = "session" /\ d[4] = "rows"
    <3>1. Len(<<"check", "write", "session", "rows">>) = 4 OBVIOUS
    <3> QED BY <2>4, <3>1
  <2>6. \A i \in 1 .. Len(d) : (a \o b)[i] = d[i]
    <3>1. \A i \in 1 .. 4 : i = 1 \/ i = 2 \/ i = 3 \/ i = 4 OBVIOUS
    <3>2. 1 .. Len(d) = 1 .. 4 BY <2>5
    <3>3. \A i \in 1 .. 4 : (a \o b)[i] = d[i] BY <2>2, <2>3, <2>5, <3>1
    <3> QED BY <3>2, <3>3
  <2>7. d \in Seq(TodoSteps) BY <2>4, TodosAreSteps
  <2> QED BY <2>1, <2>4, <2>5, <2>6, <2>7, SeqEqual
<1>9. a \o c = <<"check", "write", "models">>
  <2>1. /\ a \o c \in Seq(TodoSteps) /\ Len(a \o c) = 3
        /\ \A i \in 1 .. 3 : (a \o c)[i] = IF i <= 2 THEN a[i] ELSE c[i - 2]
    <3>1. /\ a \o c \in Seq(TodoSteps) /\ Len(a \o c) = Len(a) + Len(c)
          /\ \A i \in 1 .. Len(a) + Len(c) :
                (a \o c)[i] = IF i <= Len(a) THEN a[i] ELSE c[i - Len(a)]
      BY <1>4, ConcatProperties
    <3>2. Len(a) = 2 /\ Len(a) + Len(c) = 3 BY <1>5, <1>7
    <3> QED BY <3>1, <3>2
  <2>2. (a \o c)[1] = "check" /\ (a \o c)[2] = "write" BY <1>5, <2>1
  <2>3. (a \o c)[3] = "models" BY <1>7, <2>1
  <2>4. PICK d : d = <<"check", "write", "models">> OBVIOUS
  <2>5. Len(d) = 3 /\ d[1] = "check" /\ d[2] = "write" /\ d[3] = "models"
    <3>1. Len(<<"check", "write", "models">>) = 3 OBVIOUS
    <3> QED BY <2>4, <3>1
  <2>6. \A i \in 1 .. Len(d) : (a \o c)[i] = d[i]
    <3>1. \A i \in 1 .. 3 : i = 1 \/ i = 2 \/ i = 3 OBVIOUS
    <3>2. 1 .. Len(d) = 1 .. 3 BY <2>5
    <3>3. \A i \in 1 .. 3 : (a \o c)[i] = d[i] BY <2>2, <2>3, <2>5, <3>1
    <3> QED BY <3>2, <3>3
  <2>7. d \in Seq(TodoSteps) BY <2>4, TodosAreSteps
  <2> QED BY <2>1, <2>4, <2>5, <2>6, <2>7, SeqEqual
<1> QED BY <1>1, <1>2, <1>3, <1>8, <1>9 DEF loadGovernancePanel, loadModelGovernancePanel

LEMMA CommandTaskFits ==
    ASSUME NEW kind \in {"act", "actModels", "other"}, NEW c \in Commands, CommandFits(c),
           NEW codes \in Grants, NEW todo,
           todo = IF kind = "act" THEN <<"check", "write", "session", "rows">>
                  ELSE IF kind = "actModels" THEN <<"check", "write", "models">>
                  ELSE <<"check", "write">>
    PROVE  /\ Task(kind, c, todo, codes) \in Tasks /\ TaskFits(Task(kind, c, todo, codes))
           /\ ~Writes(Task(kind, c, todo, codes)) /\ Task(kind, c, todo, codes).kind = kind
<1>1. PICK w : w = Task(kind, c, todo, codes) OBVIOUS
<1>2. /\ w.kind = kind /\ w.command = c /\ w.todo = todo /\ w.codes = codes
      /\ w = [kind |-> kind, command |-> c, todo |-> todo, codes |-> codes,
              failed |-> FALSE, got |-> Blank]
  BY <1>1 DEF Task
<1>3. w \in Tasks BY <1>2, TodosAreSteps DEF Tasks, TaskKinds, Gots
<1>4. todo # <<>> /\ todo # <<"rows">> /\ Head(todo) # "write"
  <2>1. /\ Len(<<"check", "write", "session", "rows">>) = 4
        /\ Len(<<"check", "write", "models">>) = 3 /\ Len(<<"check", "write">>) = 2
        /\ Len(<<>>) = 0 /\ Len(<<"rows">>) = 1
    OBVIOUS
  <2>2. /\ Head(<<"check", "write", "session", "rows">>) = "check"
        /\ Head(<<"check", "write", "models">>) = "check" /\ Head(<<"check", "write">>) = "check"
    OBVIOUS
  <2>3. todo # <<>> /\ todo # <<"rows">> BY <2>1
  <2>4. Head(todo) = "check" BY <2>2
  <2> QED BY <2>3, <2>4
<1>5. TodoFits(w.kind, w.todo) BY <1>2 DEF TodoFits
<1>6. TaskFits(w) BY <1>2, <1>4, <1>5 DEF TaskFits, GotFits
<1> QED BY <1>1, <1>2, <1>3, <1>4, <1>6 DEF Writes

(* Steps in which no row is written at the server. *)
LEMMA RowsStand ==
    ASSUME GovernanceInv, UNCHANGED rowVars, looseVersions \subseteq looseVersions',
           "race" \in governanceSlips => "race" \in governanceSlips',
           \A w \in Range(governanceWork') \ Range(governanceWork) :
              /\ TaskFits(w)
              /\ Writes(w) =>
                    /\ "race" \notin governanceSlips => StillAllowed(w)
                    /\ Publishes(w) => ListsActive(w) \/ w.command.of \in looseVersions'
    PROVE  /\ (\A w \in Range(governanceWork) : TaskFits(w))'
           /\ CommandsHold'
<1>1. /\ \A w : TaskFits(w) => TaskFits(w)'
      /\ \A w : StillAllowed(w) => StillAllowed(w)'
      /\ \A w : ListsActive(w) => ListsActive(w)'
      /\ Governed(rolePermissions, memberRole) => Governed(rolePermissions, memberRole)'
      /\ OneActive => OneActive'
  BY DEF rowVars, TaskFits, CommandFits, TodoFits, GotFits, StillAllowed, Governed, OneActive,
         OthersActive, ListsActive
<1>2. ASSUME NEW w, w \in Range(governanceWork') PROVE TaskFits(w)
  BY <1>2 DEF GovernanceInv
<1>3. (\A w \in Range(governanceWork) : TaskFits(w))'
  <2> SUFFICES ASSUME NEW w \in Range(governanceWork)' PROVE TaskFits(w)' OBVIOUS
  <2>1. w \in Range(governanceWork') BY DEF Range
  <2> QED BY <1>1, <1>2, <2>1
<1>4. RolesHold'
  <2> SUFFICES ASSUME "race" \notin governanceSlips'
               PROVE  /\ Governed(rolePermissions, memberRole)'
                      /\ (\A w \in Range(governanceWork) : Writes(w) => StillAllowed(w))'
    BY DEF RolesHold
  <2>1. /\ Governed(rolePermissions, memberRole)
        /\ \A w \in Range(governanceWork) : Writes(w) => StillAllowed(w)
    BY DEF GovernanceInv, CommandsHold, RolesHold
  <2>2. ASSUME NEW w \in Range(governanceWork)', Writes(w)' PROVE StillAllowed(w)'
    <3>1. w \in Range(governanceWork') /\ Writes(w) BY <2>2 DEF Range, Writes
    <3>2. StillAllowed(w) BY <2>1, <3>1
    <3> QED BY <1>1, <3>2
  <2> QED BY <1>1, <2>1, <2>2
<1>5. PromptsHold'
  <2>1. OneActive /\ \A w \in Range(governanceWork) : Publishes(w) => ListsActive(w)
    BY DEF GovernanceInv, CommandsHold, PromptsHold
  <2>2. ASSUME NEW w \in Range(governanceWork)', Publishes(w)' PROVE ListsActive(w)'
    <3>1. w \in Range(governanceWork') /\ Publishes(w) /\ Writes(w)
      BY <2>2 DEF Range, Publishes, Writes
    <3>2. ListsActive(w) \/ w.command.of \in looseVersions' BY <2>1, <3>1
    <3>3. w.command.of \in looseVersions' => ListsActive(w)' BY DEF ListsActive
    <3> QED BY <1>1, <3>2, <3>3
  <2> QED BY <1>1, <2>1, <2>2 DEF PromptsHold
<1> QED BY <1>3, <1>4, <1>5 DEF CommandsHold

(* Steps in which nothing is written at the server. *)
LEMMA ServerStands ==
    ASSUME GovernanceInv, UNCHANGED serverVars,
           "race" \in governanceSlips => "race" \in governanceSlips',
           \A w \in Range(governanceWork') \ Range(governanceWork) :
              TaskFits(w) /\ (Writes(w) => MayWrite(w))
    PROVE  /\ (\A w \in Range(governanceWork) : TaskFits(w))'
           /\ CommandsHold'
<1>1. UNCHANGED rowVars /\ looseVersions \subseteq looseVersions' BY DEF serverVars, rowVars
<1>2. \A w \in Range(governanceWork') \ Range(governanceWork) :
         /\ TaskFits(w)
         /\ Writes(w) =>
               /\ "race" \notin governanceSlips => StillAllowed(w)
               /\ Publishes(w) => ListsActive(w) \/ w.command.of \in looseVersions'
  BY DEF MayWrite
<1> QED BY <1>1, <1>2, RowsStand

-----------------------------------------------------------------------------
(* The parts of the invariant that a step of the page alone can disturb.   *)
LEMMA ServerTypes ==
    ASSUME GovernanceTypeOK
    PROVE  /\ rolePermissions \in [Roles -> Permissions]
           /\ memberRole \in [Members -> Roles \cup {Off}]
           /\ prompts \in Seq(PromptStatuses)
           /\ roleDrafts \in [Roles -> Permissions]
           /\ memberDrafts \in [Members -> Roles \cup {Off}]
           /\ panelErrors \subseteq Panels /\ panelPending \subseteq Panels
           /\ edited \subseteq Roles \cup Members
           /\ governanceSlips \subseteq {"codes", "race"} /\ governanceOpen \in BOOLEAN
           /\ looseVersions \subseteq DOMAIN prompts
BY DEF GovernanceTypeOK, Permissions, Grants, PromptStatuses

LEMMA TypesFrom ==
    ASSUME rolePermissions \in [Roles -> Permissions],
           memberRole \in [Members -> Roles \cup {Off}],
           prompts \in Seq(PromptStatuses),
           roleDrafts \in [Roles -> Permissions],
           memberDrafts \in [Members -> Roles \cup {Off}],
           panelErrors \subseteq Panels, panelPending \subseteq Panels,
           edited \subseteq Roles \cup Members,
           governanceSlips \subseteq {"codes", "race"}, governanceOpen \in BOOLEAN,
           looseVersions \subseteq DOMAIN prompts
    PROVE  GovernanceTypeOK
BY DEF GovernanceTypeOK, Permissions, Grants, PromptStatuses

(* The page opens: both panels are loaded. *)
LEMMA OpenKeeps == ASSUME GovernanceInv, OpenGovernance PROVE GovernanceInv'
<1>1. PICK w : w = Loads("governance", {}) OBVIOUS
<1>2. PICK v : v = Loads("models", sessionPermissionCodes(governance)) OBVIOUS
<1>3. {} \in Grants /\ sessionPermissionCodes(governance) \in Grants
  BY CodesAreGrants DEF GovernanceInv, Grants
<1>4. /\ w \in Tasks /\ TaskFits(w) /\ ~Writes(w) /\ w.kind = "load"
      /\ v \in Tasks /\ TaskFits(v) /\ ~Writes(v) /\ v.kind = "loadModels"
  BY <1>1, <1>2, <1>3, LoadsFit DEF Panels
<1>5. PICK s : s = Append(governanceWork, w) OBVIOUS
<1>6. governanceWork' = Append(s, v) BY <1>1, <1>2, <1>5 DEF OpenGovernance
<1>7. /\ s \in Seq(Tasks) /\ Range(s) = Range(governanceWork) \cup {w}
      /\ \A k : NoneOf(s, k) <=> NoneOf(governanceWork, k) /\ w.kind # k
      /\ \A k : AtMostOne(governanceWork, k) /\ (w.kind # k \/ NoneOf(governanceWork, k))
            => AtMostOne(s, k)
  BY <1>4, <1>5, TaskBegins DEF GovernanceInv
<1>8. /\ governanceWork' \in Seq(Tasks) /\ Range(governanceWork') = Range(s) \cup {v}
      /\ \A k : NoneOf(governanceWork', k) <=> NoneOf(s, k) /\ v.kind # k
      /\ \A k : AtMostOne(s, k) /\ (v.kind # k \/ NoneOf(s, k)) => AtMostOne(governanceWork', k)
  BY <1>4, <1>6, <1>7, TaskBegins
<1>9. ~governanceOpen /\ governanceOpen' /\ UNCHANGED <<panelVars, panelPending, serverVars>>
        /\ governanceSlips' = governanceSlips \ {"codes"}
  BY DEF OpenGovernance
<1>10. GovernanceTypeOK'
  <2>1. UNCHANGED <<roleDrafts, memberDrafts, panelErrors, edited, panelPending,
                    rolePermissions, memberRole, prompts, looseVersions>>
    BY <1>9 DEF panelVars, serverVars
  <2>2. GovernanceTypeOK BY DEF GovernanceInv
  <2> QED BY <1>9, <2>1, <2>2 DEF GovernanceTypeOK
<1>11. (\A x \in Range(governanceWork) : TaskFits(x))' /\ CommandsHold'
  BY <1>4, <1>7, <1>8, <1>9, ServerStands
<1>12. OneLoad'
  <2>1. \A k \in {"load", "loadModels"} : AtMostOne(governanceWork, k) /\ NoneOf(governanceWork, k)
    BY <1>9 DEF GovernanceInv, OneLoad
  <2>2. \A k \in {"load", "loadModels"} : AtMostOne(governanceWork', k)
    BY <1>4, <1>7, <1>8, <2>1
  <2> QED BY <1>9, <2>2 DEF OneLoad, AtMostOne
<1>13. DraftsAgree' BY <1>9 DEF GovernanceInv, DraftsAgree, panelVars
<1>14. CodesAgree'
  <2>1. ~NoneOf(governanceWork', "loadModels") BY <1>4, <1>8
  <2> QED BY <2>1 DEF CodesAgree, NoneOf
<1>15. governance' = governance /\ modelGovernance' = modelGovernance BY <1>9 DEF panelVars
<1> QED BY <1>8, <1>10, <1>11, <1>12, <1>13, <1>14, <1>15 DEF GovernanceInv

(* The page is left: nothing is shown, and nothing is loaded any more. *)
LEMMA LeavePageKeeps == ASSUME GovernanceInv, LeaveGovernance PROVE GovernanceInv'
<1>1. PICK s : s = Cancel(governanceWork, "load") OBVIOUS
<1>2. governanceWork' = Cancel(s, "loadModels") BY <1>1 DEF LeaveGovernance
<1>3. /\ s \in Seq(Tasks) /\ Range(s) \subseteq Range(governanceWork)
      /\ \A k : AtMostOne(governanceWork, k) => AtMostOne(s, k)
      /\ AtMostOne(governanceWork, "load") => NoneOf(s, "load")
  BY <1>1, LoadCancelled DEF GovernanceInv
<1>4. /\ governanceWork' \in Seq(Tasks) /\ Range(governanceWork') \subseteq Range(s)
      /\ \A k : NoneOf(s, k) => NoneOf(governanceWork', k)
      /\ \A k : AtMostOne(s, k) => AtMostOne(governanceWork', k)
      /\ AtMostOne(s, "loadModels") => NoneOf(governanceWork', "loadModels")
  BY <1>2, <1>3, LoadCancelled
<1>5. /\ governanceOpen' = FALSE /\ governance' = Blank /\ modelGovernance' = Blank
      /\ panelErrors' = {} /\ edited' = {} /\ panelPending' = {}
      /\ UNCHANGED <<roleDrafts, memberDrafts, serverVars, governanceSlips>>
  BY DEF LeaveGovernance
<1>6. GovernanceTypeOK'
  <2>1. GovernanceTypeOK BY DEF GovernanceInv
  <2> QED BY <1>5, <2>1 DEF GovernanceTypeOK, serverVars
<1>7. (\A x \in Range(governanceWork) : TaskFits(x))' /\ CommandsHold'
  BY <1>3, <1>4, <1>5, ServerStands
<1>8. OneLoad'
  <2>1. \A k \in {"load", "loadModels"} : AtMostOne(governanceWork, k)
    BY DEF GovernanceInv, OneLoad
  <2>2. \A k \in {"load", "loadModels"} :
            AtMostOne(governanceWork', k) /\ NoneOf(governanceWork', k)
    BY <1>3, <1>4, <2>1
  <2> QED BY <2>2 DEF OneLoad, AtMostOne, NoneOf
<1>9. DraftsAgree' BY <1>5 DEF DraftsAgree
<1>10. CodesAgree' BY <1>5 DEF CodesAgree
<1> QED BY <1>4, <1>5, <1>6, <1>7, <1>8, <1>9, <1>10 DEF GovernanceInv

(* A form is edited. *)
LEMMA EditStands ==
    ASSUME GovernanceInv, GovernanceTypeOK', DraftsAgree',
           UNCHANGED <<governanceOpen, governance, modelGovernance, governanceWork, serverVars,
                       governanceSlips>>
    PROVE  GovernanceInv'
<1>1. (\A x \in Range(governanceWork) : TaskFits(x))' /\ CommandsHold' BY ServerStands
<1>2. OneLoad' BY DEF GovernanceInv, OneLoad, AtMostOne, NoneOf
<1>3. CodesAgree' BY DEF GovernanceInv, CodesAgree, NoneOf, sessionPermissionCodes
<1> QED BY <1>1, <1>2, <1>3 DEF GovernanceInv

LEMMA RoleDraftKeeps ==
    ASSUME GovernanceInv, NEW r \in Roles, NEW p \in availablePermissions,
           setRolePermissionDrafts(r, p)
    PROVE  GovernanceInv'
<1>1. /\ governance # Blank /\ modelGovernance # Blank /\ panelErrors = {}
      /\ governance.roles[r] # Off
  BY DEF setRolePermissionDrafts, canManage, AdminGovernancePage
<1>2. /\ \A q \in Roles : governance.roles[q] # Off => roleDrafts[q] \in Grants
      /\ \A q \in Roles \ edited : roleDrafts[q] = governance.roles[q]
      /\ \A m \in Members \ edited : memberDrafts[m] = governance.members[m]
  BY <1>1 DEF GovernanceInv, DraftsAgree
<1>3. PICK x : x = IF p \in roleDrafts[r] THEN roleDrafts[r] \ {p} ELSE roleDrafts[r] \cup {p}
  OBVIOUS
<1>4. x \in Grants BY <1>1, <1>2, <1>3 DEF Grants
<1>5. /\ roleDrafts' = [roleDrafts EXCEPT ![r] = x] /\ edited' = edited \cup {r}
      /\ UNCHANGED <<governanceOpen, governance, modelGovernance, panelErrors, memberDrafts,
                     panelPending, governanceWork, serverVars, governanceSlips>>
  BY <1>3 DEF setRolePermissionDrafts
<1>6. GovernanceTypeOK BY DEF GovernanceInv
<1>7. roleDrafts' \in [Roles -> Permissions] BY <1>4, <1>5, <1>6, ServerTypes DEF Permissions
<1>8. GovernanceTypeOK'
  BY <1>5, <1>6, <1>7 DEF GovernanceTypeOK, Permissions, Grants, serverVars
<1>9. \A q \in Roles : roleDrafts'[q] = IF q = r THEN x ELSE roleDrafts[q]
  BY <1>5, <1>6, ServerTypes
<1>10. DraftsAgree' BY <1>1, <1>2, <1>4, <1>5, <1>9 DEF DraftsAgree
<1> QED BY <1>5, <1>8, <1>10, EditStands

LEMMA MemberDraftKeeps ==
    ASSUME GovernanceInv, NEW r \in Roles, NEW m \in Members, setMemberRoleDrafts(m, r)
    PROVE  GovernanceInv'
<1>1. governance # Blank /\ modelGovernance # Blank /\ panelErrors = {}
  BY DEF setMemberRoleDrafts, canManage, AdminGovernancePage
<1>2. /\ \A q \in Roles : governance.roles[q] # Off => roleDrafts[q] \in Grants
      /\ \A q \in Roles \ edited : roleDrafts[q] = governance.roles[q]
      /\ \A n \in Members \ edited : memberDrafts[n] = governance.members[n]
  BY <1>1 DEF GovernanceInv, DraftsAgree
<1>3. /\ memberDrafts' = [memberDrafts EXCEPT ![m] = r] /\ edited' = edited \cup {m}
      /\ UNCHANGED <<governanceOpen, governance, modelGovernance, panelErrors, roleDrafts,
                     panelPending, governanceWork, serverVars, governanceSlips>>
  BY DEF setMemberRoleDrafts
<1>4. GovernanceTypeOK BY DEF GovernanceInv
<1>5. memberDrafts' \in [Members -> Roles \cup {Off}] BY <1>3, <1>4, ServerTypes
<1>6. GovernanceTypeOK' BY <1>3, <1>4, <1>5 DEF GovernanceTypeOK, serverVars
<1>7. \A n \in Members : memberDrafts'[n] = IF n = m THEN r ELSE memberDrafts[n]
  BY <1>3, <1>4, ServerTypes
<1>8. DraftsAgree' BY <1>2, <1>3, <1>7 DEF DraftsAgree
<1> QED BY <1>3, <1>6, <1>8, EditStands

(* A command is given, on the page or by another operator. *)
LEMMA CommandBegins ==
    ASSUME GovernanceInv, NEW w \in Tasks, TaskFits(w), ~Writes(w),
           w.kind \notin {"load", "loadModels"},
           governanceWork' = Append(governanceWork, w), panelPending' \subseteq Panels,
           UNCHANGED <<governanceOpen, panelVars, serverVars, governanceSlips>>
    PROVE  GovernanceInv'
<1>1. /\ governanceWork' \in Seq(Tasks) /\ Range(governanceWork') = Range(governanceWork) \cup {w}
      /\ \A k : NoneOf(governanceWork', k) <=> NoneOf(governanceWork, k) /\ w.kind # k
      /\ \A k : AtMostOne(governanceWork, k) /\ (w.kind # k \/ NoneOf(governanceWork, k))
            => AtMostOne(governanceWork', k)
  BY TaskBegins DEF GovernanceInv
<1>2. GovernanceTypeOK'
  <2>1. GovernanceTypeOK BY DEF GovernanceInv
  <2> QED BY <2>1 DEF GovernanceTypeOK, serverVars, panelVars
<1>3. (\A x \in Range(governanceWork) : TaskFits(x))' /\ CommandsHold' BY <1>1, ServerStands
<1>4. OneLoad'
  <2>1. \A k \in {"load", "loadModels"} :
            AtMostOne(governanceWork, k) /\ (~governanceOpen => NoneOf(governanceWork, k))
    BY DEF GovernanceInv, OneLoad
  <2>2. \A k \in {"load", "loadModels"} :
            AtMostOne(governanceWork', k) /\ (~governanceOpen => NoneOf(governanceWork', k))
    BY <1>1, <2>1
  <2> QED BY <2>2 DEF OneLoad, AtMostOne, NoneOf
<1>5. DraftsAgree' BY DEF GovernanceInv, DraftsAgree, panelVars
<1>6. CodesAgree'
  <2>1. NoneOf(governanceWork', "loadModels") => NoneOf(governanceWork, "loadModels") BY <1>1
  <2>2. CodesAgree BY DEF GovernanceInv
  <2> QED BY <2>1, <2>2 DEF CodesAgree, NoneOf, sessionPermissionCodes, panelVars
<1> QED BY <1>1, <1>2, <1>3, <1>4, <1>5, <1>6 DEF GovernanceInv, panelVars

LEMMA runActionKeeps ==
    ASSUME GovernanceInv, NEW panel \in Panels, NEW c \in Commands, CommandFits(c),
           runAction(panel, c)
    PROVE  GovernanceInv'
<1>1. {} \in Grants /\ sessionPermissionCodes(governance) \in Grants
  BY CodesAreGrants DEF GovernanceInv, Grants
<1>2. PICK w \in Tasks :
         /\ governanceWork' = Append(governanceWork, w) /\ TaskFits(w) /\ ~Writes(w)
         /\ w.kind \in {"act", "actModels"}
  <2>1. CASE panel = "governance"
    <3>1. governanceWork' = Append(governanceWork,
             Task("act", c, <<"check", "write", "session", "rows">>, {}))
      BY <2>1, ActionTodos DEF runAction
    <3> QED BY <1>1, <3>1, CommandTaskFits
  <2>2. CASE panel # "governance"
    <3>1. governanceWork' = Append(governanceWork,
             Task("actModels", c, <<"check", "write", "models">>,
                  sessionPermissionCodes(governance)))
      BY <2>2, ActionTodos DEF runAction
    <3> QED BY <1>1, <3>1, CommandTaskFits
  <2> QED BY <2>1, <2>2
<1>3. panelPending' \subseteq Panels
        /\ UNCHANGED <<governanceOpen, panelVars, serverVars, governanceSlips>>
  BY ServerTypes DEF runAction, GovernanceInv
<1> QED BY <1>2, <1>3, CommandBegins

LEMMA OtherCommandKeeps ==
    ASSUME GovernanceInv, NEW c \in Commands, CommandFits(c), OtherCommand(c)
    PROVE  GovernanceInv'
<1>1. {} \in Grants BY DEF Grants
<1>2. PICK w : w = Task("other", c, <<"check", "write">>, {}) OBVIOUS
<1>3. w \in Tasks /\ TaskFits(w) /\ ~Writes(w) /\ w.kind = "other"
  BY <1>1, <1>2, CommandTaskFits
<1>4. /\ governanceWork' = Append(governanceWork, w)
      /\ panelPending' = panelPending
      /\ UNCHANGED <<governanceOpen, panelVars, serverVars, governanceSlips>>
  BY <1>2 DEF OtherCommand
<1>5. panelPending' \subseteq Panels BY <1>4, ServerTypes DEF GovernanceInv
<1> QED BY <1>3, <1>4, <1>5, CommandBegins

LEMMA VersionsAreNumbers ==
    ASSUME GovernanceTypeOK
    PROVE  /\ DOMAIN prompts \subseteq Nat /\ Len(prompts) \in Nat
           /\ DOMAIN prompts = 1 .. Len(prompts)
BY ServerTypes, LenProperties

LEMMA ButtonsKeep ==
    ASSUME GovernanceInv,
           \/ \E r \in Roles : onUpdateRole(r) \/ onDeleteRole(r)
           \/ \E m \in Members : onUpdateMemberRole(m)
           \/ \E codes \in {{}, availablePermissions} : onCreateRole(codes)
           \/ onUpdateSettings \/ onCreatePromptTemplateVersion \/ onUpdateModelProfile
           \/ \E n \in DOMAIN prompts :
                 onUpdatePromptTemplateDraft(n) \/ onSetPromptTemplateStatus(n)
    PROVE  GovernanceInv'
<1> USE DEF Panels
<1>1. /\ roleDrafts \in [Roles -> Permissions]
      /\ memberDrafts \in [Members -> Roles \cup {Off}]
      /\ DOMAIN prompts \subseteq Nat
  BY ServerTypes, VersionsAreNumbers DEF GovernanceInv
<1>2. Off \in Permissions BY DEF Permissions
<1>3. ASSUME NEW r \in Roles, onUpdateRole(r) PROVE GovernanceInv'
  <2>1. roleDrafts[r] \in Permissions BY <1>1
  <2>2. PICK c : c = Asks("updateRole", r, roleDrafts[r]) OBVIOUS
  <2>3. c \in Commands /\ c.op = "updateRole" /\ c.of = r /\ c.to = roleDrafts[r]
    <3>1. "updateRole" \in {"none"} \cup OrgCommands \cup ModelCommands BY DEF OrgCommands
    <3>2. r \in Roles \cup Members \cup Nat \cup {Off} OBVIOUS
    <3>3. roleDrafts[r] \in Permissions \cup Roles \cup {"active", "archived"} BY <2>1
    <3> QED BY <2>2, <3>1, <3>2, <3>3 DEF Asks, Commands
  <2>4. CommandFits(c) BY <2>1, <2>3 DEF CommandFits
  <2>5. runAction("governance", c) BY <1>3, <2>2 DEF onUpdateRole
  <2> QED BY <2>3, <2>4, <2>5, runActionKeeps
<1>4. ASSUME NEW r \in Roles, onDeleteRole(r) PROVE GovernanceInv'
  <2>1. PICK c : c = Asks("deleteRole", r, Off) OBVIOUS
  <2>2. c \in Commands /\ c.op = "deleteRole" /\ c.of = r
    <3>1. "deleteRole" \in {"none"} \cup OrgCommands \cup ModelCommands BY DEF OrgCommands
    <3>2. r \in Roles \cup Members \cup Nat \cup {Off} OBVIOUS
    <3>3. Off \in Permissions \cup Roles \cup {"active", "archived"} BY <1>2
    <3> QED BY <2>1, <3>1, <3>2, <3>3 DEF Asks, Commands
  <2>3. CommandFits(c) BY <2>2 DEF CommandFits
  <2>4. runAction("governance", c) BY <1>4, <2>1 DEF onDeleteRole
  <2> QED BY <2>2, <2>3, <2>4, runActionKeeps
<1>5. ASSUME NEW m \in Members, onUpdateMemberRole(m) PROVE GovernanceInv'
  <2>1. memberDrafts[m] \in Roles BY <1>1, <1>5 DEF onUpdateMemberRole
  <2>2. PICK c : c = Asks("updateMemberRole", m, memberDrafts[m]) OBVIOUS
  <2>3. c \in Commands /\ c.op = "updateMemberRole" /\ c.of = m /\ c.to \in Roles
    <3>1. "updateMemberRole" \in {"none"} \cup OrgCommands \cup ModelCommands BY DEF OrgCommands
    <3>2. m \in Roles \cup Members \cup Nat \cup {Off} OBVIOUS
    <3>3. memberDrafts[m] \in Permissions \cup Roles \cup {"active", "archived"} BY <2>1
    <3> QED BY <2>1, <2>2, <3>1, <3>2, <3>3 DEF Asks, Commands
  <2>4. CommandFits(c) BY <2>3 DEF CommandFits
  <2>5. runAction("governance", c) BY <1>5, <2>2 DEF onUpdateMemberRole
  <2> QED BY <2>3, <2>4, <2>5, runActionKeeps
<1>6. ASSUME NEW codes \in {{}, availablePermissions}, onCreateRole(codes) PROVE GovernanceInv'
  <2>1. codes \in Permissions BY DEF Permissions, Grants
  <2>2. PICK c : c = Asks("createRole", "extra", codes) OBVIOUS
  <2>3. c \in Commands /\ c.op = "createRole" /\ c.of = "extra" /\ c.to = codes
    <3>1. "extra" \in Roles /\ "createRole" \in OrgCommands BY DEF Roles, OrgCommands
    <3> QED BY <2>1, <2>2, <3>1 DEF Asks, Commands
  <2>4. CommandFits(c) BY <2>1, <2>3 DEF CommandFits, Roles
  <2>5. runAction("governance", c) BY <1>6, <2>2 DEF onCreateRole
  <2> QED BY <2>3, <2>4, <2>5, runActionKeeps
<1>7. CASE onUpdateSettings
  <2>1. PICK c : c = Asks("updateSettings", Off, Off) OBVIOUS
  <2>2. c \in Commands /\ c.op = "updateSettings"
    <3>1. "updateSettings" \in {"none"} \cup OrgCommands \cup ModelCommands BY DEF OrgCommands
    <3>2. Off \in Roles \cup Members \cup Nat \cup {Off} OBVIOUS
    <3>3. Off \in Permissions \cup Roles \cup {"active", "archived"} BY <1>2
    <3> QED BY <2>1, <3>1, <3>2, <3>3 DEF Asks, Commands
  <2>3. CommandFits(c) BY <2>2 DEF CommandFits
  <2>4. runAction("governance", c) BY <1>7, <2>1 DEF onUpdateSettings
  <2> QED BY <2>2, <2>3, <2>4, runActionKeeps
<1>8. CASE onCreatePromptTemplateVersion
  <2>1. PICK c : c = Asks("createPromptTemplateVersion", Off, Off) OBVIOUS
  <2>2. c \in Commands /\ c.op = "createPromptTemplateVersion"
    <3>1. "createPromptTemplateVersion" \in {"none"} \cup OrgCommands \cup ModelCommands BY DEF ModelCommands
    <3>2. Off \in Roles \cup Members \cup Nat \cup {Off} OBVIOUS
    <3>3. Off \in Permissions \cup Roles \cup {"active", "archived"} BY <1>2
    <3> QED BY <2>1, <3>1, <3>2, <3>3 DEF Asks, Commands
  <2>3. CommandFits(c) BY <2>2 DEF CommandFits
  <2>4. runAction("models", c) BY <1>8, <2>1 DEF onCreatePromptTemplateVersion
  <2> QED BY <2>2, <2>3, <2>4, runActionKeeps
<1>9. CASE onUpdateModelProfile
  <2>1. PICK c : c = Asks("updateModelProfile", Off, Off) OBVIOUS
  <2>2. c \in Commands /\ c.op = "updateModelProfile"
    <3>1. "updateModelProfile" \in {"none"} \cup OrgCommands \cup ModelCommands BY DEF ModelCommands
    <3>2. Off \in Roles \cup Members \cup Nat \cup {Off} OBVIOUS
    <3>3. Off \in Permissions \cup Roles \cup {"active", "archived"} BY <1>2
    <3> QED BY <2>1, <3>1, <3>2, <3>3 DEF Asks, Commands
  <2>3. CommandFits(c) BY <2>2 DEF CommandFits
  <2>4. runAction("models", c) BY <1>9, <2>1 DEF onUpdateModelProfile
  <2> QED BY <2>2, <2>3, <2>4, runActionKeeps
<1>10. ASSUME NEW n \in DOMAIN prompts, onUpdatePromptTemplateDraft(n) PROVE GovernanceInv'
  <2>1. PICK c : c = Asks("updatePromptTemplateDraft", n, Off) OBVIOUS
  <2>2. c \in Commands /\ c.op = "updatePromptTemplateDraft" /\ c.of = n
    <3>1. "updatePromptTemplateDraft" \in {"none"} \cup OrgCommands \cup ModelCommands BY DEF ModelCommands
    <3>2. n \in Roles \cup Members \cup Nat \cup {Off} BY <1>1, <1>2
    <3>3. Off \in Permissions \cup Roles \cup {"active", "archived"} BY <1>1, <1>2
    <3> QED BY <2>1, <3>1, <3>2, <3>3 DEF Asks, Commands
  <2>3. CommandFits(c) BY <2>2 DEF CommandFits
  <2>4. runAction("models", c) BY <1>10, <2>1 DEF onUpdatePromptTemplateDraft
  <2> QED BY <2>2, <2>3, <2>4, runActionKeeps
<1>11. ASSUME NEW n \in DOMAIN prompts, onSetPromptTemplateStatus(n) PROVE GovernanceInv'
  <2>1. PICK status \in {"active", "archived"} :
           runAction("models", Asks("setPromptTemplateStatus", n, status))
    BY <1>11 DEF onSetPromptTemplateStatus
  <2>2. PICK c : c = Asks("setPromptTemplateStatus", n, status) OBVIOUS
  <2>3. "setPromptTemplateStatus" \in {"none"} \cup OrgCommands \cup ModelCommands
    BY DEF ModelCommands
  <2>4. n \in Roles \cup Members \cup Nat \cup {Off} BY <1>1
  <2>5. status \in Permissions \cup Roles \cup {"active", "archived"} OBVIOUS
  <2>6. c \in Commands /\ c.op = "setPromptTemplateStatus" /\ c.of = n /\ c.to = status
    BY <2>2, <2>3, <2>4, <2>5 DEF Asks, Commands
  <2>7. CommandFits(c) BY <2>6 DEF CommandFits
  <2>8. runAction("models", c) BY <2>1, <2>2
  <2> QED BY <2>6, <2>7, <2>8, runActionKeeps
<1> QED BY <1>3, <1>4, <1>5, <1>6, <1>7, <1>8, <1>9, <1>10, <1>11

LEMMA OthersKeep ==
    ASSUME GovernanceInv,
           \/ \E r \in Roles :
                 \/ \E m \in Members : OtherCommand(Asks("updateMemberRole", m, r))
                 \/ OtherCommand(Asks("deleteRole", r, Off))
           \/ \E n \in DOMAIN prompts : OtherCommand(Asks("setPromptTemplateStatus", n, "active"))
    PROVE  GovernanceInv'
<1>1. DOMAIN prompts \subseteq Nat /\ Off \in Permissions
  BY VersionsAreNumbers DEF GovernanceInv, Permissions
<1>2. ASSUME NEW r \in Roles, NEW m \in Members, OtherCommand(Asks("updateMemberRole", m, r))
      PROVE  GovernanceInv'
  <2>1. PICK c : c = Asks("updateMemberRole", m, r) OBVIOUS
  <2>2. c \in Commands /\ c.op = "updateMemberRole" /\ c.of = m /\ c.to = r
    <3>1. "updateMemberRole" \in {"none"} \cup OrgCommands \cup ModelCommands BY DEF OrgCommands
    <3>2. m \in Roles \cup Members \cup Nat \cup {Off} OBVIOUS
    <3>3. r \in Permissions \cup Roles \cup {"active", "archived"} OBVIOUS
    <3> QED BY <2>1, <3>1, <3>2, <3>3 DEF Asks, Commands
  <2>3. CommandFits(c) BY <2>2 DEF CommandFits
  <2> QED BY <1>2, <2>1, <2>2, <2>3, OtherCommandKeeps
<1>3. ASSUME NEW r \in Roles, OtherCommand(Asks("deleteRole", r, Off)) PROVE GovernanceInv'
  <2>1. PICK c : c = Asks("deleteRole", r, Off) OBVIOUS
  <2>2. c \in Commands /\ c.op = "deleteRole" /\ c.of = r
    <3>1. "deleteRole" \in {"none"} \cup OrgCommands \cup ModelCommands BY DEF OrgCommands
    <3>2. r \in Roles \cup Members \cup Nat \cup {Off} OBVIOUS
    <3>3. Off \in Permissions \cup Roles \cup {"active", "archived"} BY <1>1
    <3> QED BY <2>1, <3>1, <3>2, <3>3 DEF Asks, Commands
  <2>3. CommandFits(c) BY <2>2 DEF CommandFits
  <2> QED BY <1>3, <2>1, <2>2, <2>3, OtherCommandKeeps
<1>4. ASSUME NEW n \in DOMAIN prompts, OtherCommand(Asks("setPromptTemplateStatus", n, "active"))
      PROVE  GovernanceInv'
  <2>1. PICK c : c = Asks("setPromptTemplateStatus", n, "active") OBVIOUS
  <2>2. c \in Commands /\ c.op = "setPromptTemplateStatus" /\ c.of = n /\ c.to = "active"
    <3>1. "setPromptTemplateStatus" \in {"none"} \cup OrgCommands \cup ModelCommands BY DEF ModelCommands
    <3>2. n \in Roles \cup Members \cup Nat \cup {Off} BY <1>1
    <3>3. "active" \in Permissions \cup Roles \cup {"active", "archived"} OBVIOUS
    <3> QED BY <2>1, <3>1, <3>2, <3>3 DEF Asks, Commands
  <2>3. CommandFits(c) BY <2>2 DEF CommandFits
  <2> QED BY <1>4, <2>1, <2>2, <2>3, OtherCommandKeeps
<1> QED BY <1>2, <1>3, <1>4

-----------------------------------------------------------------------------
(* What is left of a function after its next step.                         *)
LEMMA NextTodo ==
    ASSUME NEW kind \in TaskKinds, NEW todo, TodoFits(kind, todo), todo # <<>>
    PROVE  /\ TodoFits(kind, Tail(todo)) /\ Tail(todo) \in Seq(TodoSteps)
           /\ Head(todo) = "check" => Tail(todo) # <<>> /\ Tail(todo) # <<"rows">>
           /\ Head(todo) = "write" =>
                 /\ Tail(todo) # <<"rows">>
                 /\ IF Tail(todo) = <<>> THEN kind = "other" ELSE Head(Tail(todo)) # "write"
           /\ Head(todo) = "session" => Tail(todo) = <<"rows">>
           /\ Head(todo) = "rows" =>
                 todo = <<"rows">> /\ Tail(todo) = <<>> /\ kind \in {"load", "act"}
           /\ Head(todo) = "models" => Tail(todo) = <<>> /\ kind \in {"loadModels", "actModels"}
<1>1. /\ Tail(<<"check", "write", "session", "rows">>) = <<"write", "session", "rows">>
      /\ Tail(<<"write", "session", "rows">>) = <<"session", "rows">>
      /\ Tail(<<"session", "rows">>) = <<"rows">> /\ Tail(<<"rows">>) = <<>>
      /\ Tail(<<"check", "write", "models">>) = <<"write", "models">>
      /\ Tail(<<"write", "models">>) = <<"models">> /\ Tail(<<"models">>) = <<>>
      /\ Tail(<<"check", "write">>) = <<"write">> /\ Tail(<<"write">>) = <<>>
  OBVIOUS
<1>2. /\ Head(<<"check", "write", "session", "rows">>) = "check"
      /\ Head(<<"write", "session", "rows">>) = "write"
      /\ Head(<<"session", "rows">>) = "session" /\ Head(<<"rows">>) = "rows"
      /\ Head(<<"check", "write", "models">>) = "check"
      /\ Head(<<"write", "models">>) = "write" /\ Head(<<"models">>) = "models"
      /\ Head(<<"check", "write">>) = "check" /\ Head(<<"write">>) = "write"
  OBVIOUS
<1>3. /\ <<"write", "session", "rows">> # <<>> /\ <<"session", "rows">> # <<>>
      /\ <<"rows">> # <<>> /\ <<"write", "models">> # <<>> /\ <<"models">> # <<>>
      /\ <<"write">> # <<>>
      /\ <<"write", "session", "rows">> # <<"rows">> /\ <<"session", "rows">> # <<"rows">>
      /\ <<"write", "models">> # <<"rows">> /\ <<"models">> # <<"rows">>
      /\ <<"write">> # <<"rows">> /\ <<>> # <<"rows">>
  OBVIOUS
<1>4. CASE kind = "load"
  <2>1. todo \in {<<"session", "rows">>, <<"rows">>} BY <1>4 DEF TodoFits
  <2>2. CASE todo = <<"session", "rows">>
    <3>1. Tail(todo) = <<"rows">> /\ Head(todo) = "session" BY <1>1, <1>2, <2>2
    <3>2. TodoFits(kind, Tail(todo)) BY <1>4, <3>1 DEF TodoFits
    <3> QED BY <3>1, <3>2, TodosAreSteps
  <2>3. CASE todo = <<"rows">>
    <3>1. Tail(todo) = <<>> /\ Head(todo) = "rows" BY <1>1, <1>2, <2>3
    <3>2. TodoFits(kind, Tail(todo)) BY <1>4, <3>1 DEF TodoFits
    <3> QED BY <1>4, <2>3, <3>1, <3>2, TodosAreSteps
  <2> QED BY <2>1, <2>2, <2>3
<1>5. CASE kind = "act"
  <2>1. todo \in {<<"check", "write", "session", "rows">>, <<"write", "session", "rows">>,
                  <<"session", "rows">>, <<"rows">>}
    BY <1>5 DEF TodoFits
  <2>2. CASE todo = <<"check", "write", "session", "rows">>
    <3>1. Tail(todo) = <<"write", "session", "rows">> /\ Head(todo) = "check" BY <1>1, <1>2, <2>2
    <3>2. TodoFits(kind, Tail(todo)) BY <1>5, <3>1 DEF TodoFits
    <3> QED BY <1>3, <3>1, <3>2, TodosAreSteps
  <2>3. CASE todo = <<"write", "session", "rows">>
    <3>1. Tail(todo) = <<"session", "rows">> /\ Head(todo) = "write"
            /\ Head(Tail(todo)) = "session"
      BY <1>1, <1>2, <2>3
    <3>2. TodoFits(kind, Tail(todo)) BY <1>5, <3>1 DEF TodoFits
    <3> QED BY <1>3, <3>1, <3>2, TodosAreSteps
  <2>4. CASE todo = <<"session", "rows">>
    <3>1. Tail(todo) = <<"rows">> /\ Head(todo) = "session" BY <1>1, <1>2, <2>4
    <3>2. TodoFits(kind, Tail(todo)) BY <1>5, <3>1 DEF TodoFits
    <3> QED BY <3>1, <3>2, TodosAreSteps
  <2>5. CASE todo = <<"rows">>
    <3>1. Tail(todo) = <<>> /\ Head(todo) = "rows" BY <1>1, <1>2, <2>5
    <3>2. TodoFits(kind, Tail(todo)) BY <1>5, <3>1 DEF TodoFits
    <3> QED BY <1>5, <2>5, <3>1, <3>2, TodosAreSteps
  <2> QED BY <2>1, <2>2, <2>3, <2>4, <2>5
<1>6. CASE kind = "loadModels"
  <2>1. todo = <<"models">> BY <1>6 DEF TodoFits
  <2>2. Tail(todo) = <<>> /\ Head(todo) = "models" BY <1>1, <1>2, <2>1
  <2>3. TodoFits(kind, Tail(todo)) BY <1>6, <2>2 DEF TodoFits
  <2> QED BY <1>6, <2>2, <2>3, TodosAreSteps
<1>7. CASE kind = "actModels"
  <2>1. todo \in {<<"check", "write", "models">>, <<"write", "models">>, <<"models">>}
    BY <1>7 DEF TodoFits
  <2>2. CASE todo = <<"check", "write", "models">>
    <3>1. Tail(todo) = <<"write", "models">> /\ Head(todo) = "check" BY <1>1, <1>2, <2>2
    <3>2. TodoFits(kind, Tail(todo)) BY <1>7, <3>1 DEF TodoFits
    <3> QED BY <1>3, <3>1, <3>2, TodosAreSteps
  <2>3. CASE todo = <<"write", "models">>
    <3>1. Tail(todo) = <<"models">> /\ Head(todo) = "write" /\ Head(Tail(todo)) = "models"
      BY <1>1, <1>2, <2>3
    <3>2. TodoFits(kind, Tail(todo)) BY <1>7, <3>1 DEF TodoFits
    <3> QED BY <1>3, <3>1, <3>2, TodosAreSteps
  <2>4. CASE todo = <<"models">>
    <3>1. Tail(todo) = <<>> /\ Head(todo) = "models" BY <1>1, <1>2, <2>4
    <3>2. TodoFits(kind, Tail(todo)) BY <1>7, <3>1 DEF TodoFits
    <3> QED BY <1>7, <3>1, <3>2, TodosAreSteps
  <2> QED BY <2>1, <2>2, <2>3, <2>4
<1>8. CASE kind = "other"
  <2>1. todo \in {<<"check", "write">>, <<"write">>} BY <1>8 DEF TodoFits
  <2>2. CASE todo = <<"check", "write">>
    <3>1. Tail(todo) = <<"write">> /\ Head(todo) = "check" BY <1>1, <1>2, <2>2
    <3>2. TodoFits(kind, Tail(todo)) BY <1>8, <3>1 DEF TodoFits
    <3> QED BY <1>3, <3>1, <3>2, TodosAreSteps
  <2>3. CASE todo = <<"write">>
    <3>1. Tail(todo) = <<>> /\ Head(todo) = "write" BY <1>1, <1>2, <2>3
    <3>2. TodoFits(kind, Tail(todo)) BY <1>8, <3>1 DEF TodoFits
    <3> QED BY <1>3, <1>8, <3>1, <3>2, TodosAreSteps
  <2> QED BY <2>1, <2>2, <2>3
<1> QED BY <1>4, <1>5, <1>6, <1>7, <1>8 DEF TaskKinds

(* A function goes on, or fails. *)
LEMMA AdvancedTask ==
    ASSUME governanceWork \in Seq(Tasks), NEW i \in DOMAIN governanceWork,
           governanceWork[i] \in Tasks, TaskFits(governanceWork[i]),
           governanceWork[i].todo # <<>>, NEW got \in Gots, Advanced(i, got)
    PROVE  \E w \in Tasks :
              /\ governanceWork' = [governanceWork EXCEPT ![i] = w]
              /\ w.kind = governanceWork[i].kind /\ w.command = governanceWork[i].command
              /\ w.codes = governanceWork[i].codes /\ w.failed = governanceWork[i].failed
              /\ w.todo = Tail(governanceWork[i].todo) /\ w.got = got
<1>1. PICK o : o = governanceWork[i] OBVIOUS
<1>2. PICK w : w = [o EXCEPT !.todo = Tail(o.todo), !.got = got] OBVIOUS
<1>3. Tail(o.todo) \in Seq(TodoSteps) BY <1>1, NextTodo DEF TaskFits, Tasks
<1>4. /\ w \in Tasks /\ w.kind = o.kind /\ w.command = o.command /\ w.codes = o.codes
      /\ w.failed = o.failed /\ w.todo = Tail(o.todo) /\ w.got = got
  BY <1>1, <1>2, <1>3 DEF Tasks
<1>5. governanceWork' = [governanceWork EXCEPT ![i] = w] BY <1>1, <1>2 DEF Advanced
<1> QED BY <1>1, <1>4, <1>5

LEMMA FailedTask ==
    ASSUME governanceWork \in Seq(Tasks), NEW i \in DOMAIN governanceWork,
           governanceWork[i] \in Tasks, TaskFits(governanceWork[i]), Failed(i)
    PROVE  \E w \in Tasks :
              /\ governanceWork' = [governanceWork EXCEPT ![i] = w]
              /\ w.kind = governanceWork[i].kind /\ w.command = governanceWork[i].command
              /\ TaskFits(w) /\ ~Writes(w)
<1>1. PICK o : o = governanceWork[i] OBVIOUS
<1>2. PICK w : w = [o EXCEPT !.todo = <<>>, !.failed = TRUE] OBVIOUS
<1>3. /\ w \in Tasks /\ w.kind = o.kind /\ w.command = o.command
      /\ w.failed = TRUE /\ w.todo = <<>>
  BY <1>1, <1>2, TodosAreSteps DEF Tasks
<1>4. governanceWork' = [governanceWork EXCEPT ![i] = w] BY <1>1, <1>2 DEF Failed
<1>5. TodoFits(w.kind, w.todo) BY <1>3 DEF TodoFits
<1>6. w.todo # <<"rows">>
  <2>1. <<>> # <<"rows">> OBVIOUS
  <2> QED BY <1>3, <2>1
<1>7. TaskFits(w) BY <1>1, <1>3, <1>5, <1>6 DEF TaskFits, GotFits
<1> QED BY <1>1, <1>3, <1>4, <1>7 DEF Writes

(* What does not depend on how far a function is. *)
LEMMA TaskMoves ==
    ASSUME GovernanceInv, NEW i \in DOMAIN governanceWork, NEW w \in Tasks,
           w.kind = governanceWork[i].kind, governanceWork' = [governanceWork EXCEPT ![i] = w],
           UNCHANGED <<governanceOpen, panelVars, panelPending>>,
           "codes" \in governanceSlips => "codes" \in governanceSlips'
    PROVE  /\ governanceWork' \in Seq(Tasks)
           /\ \A x \in Range(governanceWork') :
                 x = w \/ \E j \in DOMAIN governanceWork \ {i} : x = governanceWork[j]
           /\ OneLoad' /\ DraftsAgree' /\ CodesAgree'
<1>1. /\ governanceWork' \in Seq(Tasks)
      /\ \A x \in Range(governanceWork') :
            x = w \/ \E j \in DOMAIN governanceWork \ {i} : x = governanceWork[j]
      /\ \A k : NoneOf(governanceWork', k) <=> NoneOf(governanceWork, k)
      /\ \A k : AtMostOne(governanceWork', k) <=> AtMostOne(governanceWork, k)
  <2>1. governanceWork \in Seq(Tasks) BY DEF GovernanceInv
  <2>2. /\ [governanceWork EXCEPT ![i] = w] \in Seq(Tasks)
        /\ \A x \in Range([governanceWork EXCEPT ![i] = w]) :
              x = w \/ \E j \in DOMAIN governanceWork \ {i} : x = governanceWork[j]
        /\ w \in Range([governanceWork EXCEPT ![i] = w])
        /\ \A j \in DOMAIN governanceWork \ {i} :
              governanceWork[j] \in Range([governanceWork EXCEPT ![i] = w])
        /\ \A k : NoneOf([governanceWork EXCEPT ![i] = w], k) <=> NoneOf(governanceWork, k)
        /\ \A k : AtMostOne([governanceWork EXCEPT ![i] = w], k) <=> AtMostOne(governanceWork, k)
    BY <2>1, TaskGoesOn
  <2> QED BY <2>2
<1>2. OneLoad'
  <2>1. \A k \in {"load", "loadModels"} :
            AtMostOne(governanceWork', k) /\ (~governanceOpen => NoneOf(governanceWork', k))
    BY <1>1 DEF GovernanceInv, OneLoad
  <2> QED BY <2>1 DEF OneLoad, AtMostOne, NoneOf
<1>3. DraftsAgree' BY DEF GovernanceInv, DraftsAgree, panelVars
<1>4. CodesAgree'
  <2>1. NoneOf(governanceWork', "loadModels") => NoneOf(governanceWork, "loadModels") BY <1>1
  <2>2. CodesAgree BY DEF GovernanceInv
  <2> QED BY <2>1, <2>2 DEF CodesAgree, NoneOf, sessionPermissionCodes, panelVars
<1> QED BY <1>1, <1>2, <1>3, <1>4

(* A function is served, and nothing is written. *)
LEMMA ServedQuietly ==
    ASSUME GovernanceInv, NEW i \in DOMAIN governanceWork, NEW w \in Tasks,
           w.kind = governanceWork[i].kind, governanceWork' = [governanceWork EXCEPT ![i] = w],
           UNCHANGED <<governanceOpen, panelVars, panelPending, serverVars, governanceSlips>>,
           TaskFits(w), Writes(w) => MayWrite(w)
    PROVE  GovernanceInv'
<1>1. /\ governanceWork' \in Seq(Tasks)
      /\ \A x \in Range(governanceWork') :
            x = w \/ \E j \in DOMAIN governanceWork \ {i} : x = governanceWork[j]
      /\ OneLoad' /\ DraftsAgree' /\ CodesAgree'
  BY TaskMoves
<1>2. \A x \in Range(governanceWork') \ Range(governanceWork) : x = w BY <1>1, TaskAt
<1>3. (\A x \in Range(governanceWork) : TaskFits(x))' /\ CommandsHold' BY <1>2, ServerStands
<1>4. GovernanceTypeOK'
  <2>1. GovernanceTypeOK BY DEF GovernanceInv
  <2> QED BY <2>1 DEF GovernanceTypeOK, serverVars, panelVars
<1> QED BY <1>1, <1>3, <1>4 DEF GovernanceInv, panelVars

LEMMA CheckKeeps ==
    ASSUME GovernanceInv, NEW i \in DOMAIN governanceWork, governanceWork[i].todo # <<>>,
           ServeCheck(i), UNCHANGED <<governanceOpen, panelVars, panelPending>>
    PROVE  GovernanceInv'
<1>1. PICK o : o = governanceWork[i] OBVIOUS
<1>2. o \in Tasks /\ TaskFits(o) /\ governanceWork \in Seq(Tasks)
  BY <1>1, TaskAt DEF GovernanceInv
<1>3. Head(o.todo) = "check" /\ UNCHANGED <<serverVars, governanceSlips>> BY <1>1 DEF ServeCheck
<1>4. CASE Checked(By(o), o.command)
  <2>1. PICK got : got = IF o.command.op = "setPromptTemplateStatus"
                         THEN OthersActive(o.command.of) ELSE {}
    OBVIOUS
  <2>2. Advanced(i, got) BY <1>1, <1>4, <2>1 DEF ServeCheck
  <2>3. got \in Gots
    <3>1. DOMAIN prompts \subseteq Nat BY VersionsAreNumbers DEF GovernanceInv
    <3>2. got \subseteq Nat BY <2>1, <3>1 DEF OthersActive
    <3> QED BY <3>2 DEF Gots
  <2>4. PICK w \in Tasks :
           /\ governanceWork' = [governanceWork EXCEPT ![i] = w]
           /\ w.kind = o.kind /\ w.command = o.command /\ w.todo = Tail(o.todo) /\ w.got = got
    BY <1>1, <1>2, <2>2, <2>3, AdvancedTask
  <2>5. /\ TodoFits(w.kind, w.todo) /\ w.todo # <<>> /\ w.todo # <<"rows">>
    BY <1>1, <1>2, <1>3, <2>4, NextTodo DEF TaskFits, Tasks
  <2>6. TaskFits(w) BY <1>2, <2>4, <2>5 DEF TaskFits, GotFits
  <2>7. StillAllowed(w)
    <3>1. o.command.op = "createRole" => rolePermissions[o.command.of] = Off
      BY <1>4 DEF Checked
    <3>2. o.command.op = "updateRole" =>
             Governed([rolePermissions EXCEPT ![o.command.of] = o.command.to], memberRole)
      BY <1>4 DEF Checked
    <3>3. o.command.op = "deleteRole" =>
             Governed([rolePermissions EXCEPT ![o.command.of] = Off], memberRole)
      BY <1>4 DEF Checked
    <3>4. o.command.op = "updateMemberRole" =>
             Governed(rolePermissions, [memberRole EXCEPT ![o.command.of] = o.command.to])
      BY <1>4 DEF Checked
    <3> QED BY <2>1, <2>4, <3>1, <3>2, <3>3, <3>4 DEF StillAllowed
  <2>8. Publishes(w) => ListsActive(w) BY <2>1, <2>4 DEF Publishes, ListsActive
  <2> QED BY <1>1, <1>3, <2>4, <2>6, <2>7, <2>8, ServedQuietly DEF MayWrite
<1>5. CASE ~Checked(By(o), o.command)
  <2>1. Failed(i) BY <1>1, <1>5 DEF ServeCheck
  <2> QED BY <1>1, <1>2, <1>3, <2>1, FailedTask, ServedQuietly
<1> QED BY <1>4, <1>5

(* A list the check reads is cut short: what is published then is loose. *)
LEMMA CutCheckKeeps ==
    ASSUME GovernanceInv, NEW i \in DOMAIN governanceWork, governanceWork[i].todo # <<>>,
           ServeCutCheck(i), UNCHANGED <<governanceOpen, panelVars, panelPending>>
    PROVE  GovernanceInv'
<1>1. PICK o : o = governanceWork[i] OBVIOUS
<1>2. o \in Tasks /\ TaskFits(o) /\ governanceWork \in Seq(Tasks) /\ CommandFits(o.command)
  BY <1>1, TaskAt DEF GovernanceInv, TaskFits
<1>3. Head(o.todo) = "check" /\ UNCHANGED <<rowVars, governanceSlips>>
  BY <1>1 DEF ServeCutCheck, serverVars, rowVars
<1>4. PICK got \in SUBSET Nat :
         /\ Advanced(i, got)
         /\ \/ /\ o.command.op = "setPromptTemplateStatus" /\ o.command.to = "active"
               /\ looseVersions' = looseVersions \cup {o.command.of}
            \/ /\ o.command.op = "deleteRole" /\ looseVersions' = looseVersions
               /\ Governed([rolePermissions EXCEPT ![o.command.of] = Off], memberRole)
  <2>1. DOMAIN prompts \subseteq Nat BY VersionsAreNumbers DEF GovernanceInv
  <2>2. \A n : {j \in OthersActive(o.command.of) : j < n} \in SUBSET Nat
    BY <2>1 DEF OthersActive
  <2>3. {} \in SUBSET Nat OBVIOUS
  <2> QED BY <1>1, <2>2, <2>3 DEF ServeCutCheck, serverVars
<1>5. PICK w \in Tasks :
         /\ governanceWork' = [governanceWork EXCEPT ![i] = w]
         /\ w.kind = o.kind /\ w.command = o.command /\ w.todo = Tail(o.todo) /\ w.got = got
  <2>1. got \in Gots BY DEF Gots
  <2> QED BY <1>1, <1>2, <1>4, <2>1, AdvancedTask
<1>6. TodoFits(w.kind, w.todo) /\ w.todo # <<>> /\ w.todo # <<"rows">>
  BY <1>1, <1>2, <1>3, <1>5, NextTodo DEF TaskFits, Tasks
<1>7. TaskFits(w) BY <1>2, <1>5, <1>6 DEF TaskFits, GotFits
<1>8. StillAllowed(w) BY <1>4, <1>5 DEF StillAllowed
<1>9. Publishes(w) => w.command.of \in looseVersions' BY <1>4, <1>5 DEF Publishes
<1>10. /\ governanceWork' \in Seq(Tasks)
       /\ \A x \in Range(governanceWork') :
             x = w \/ \E j \in DOMAIN governanceWork \ {i} : x = governanceWork[j]
       /\ OneLoad' /\ DraftsAgree' /\ CodesAgree'
  BY <1>1, <1>3, <1>5, TaskMoves
<1>11. \A x \in Range(governanceWork') \ Range(governanceWork) : x = w BY <1>10, TaskAt
<1>12. (\A x \in Range(governanceWork) : TaskFits(x))' /\ CommandsHold'
  <2>1. looseVersions \subseteq looseVersions' BY <1>4
  <2> QED BY <1>3, <1>7, <1>8, <1>9, <1>11, <2>1, RowsStand
<1>13. GovernanceTypeOK'
  <2>1. GovernanceTypeOK BY DEF GovernanceInv
  <2>2. looseVersions' \subseteq DOMAIN prompts BY <1>2, <1>4, <2>1 DEF CommandFits, GovernanceTypeOK
  <2> QED BY <1>3, <2>1, <2>2 DEF GovernanceTypeOK, rowVars, panelVars
<1> QED BY <1>10, <1>12, <1>13 DEF GovernanceInv, panelVars

LEMMA FaultKeeps ==
    ASSUME GovernanceInv, NEW i \in DOMAIN governanceWork, Failed(i),
           UNCHANGED <<governanceOpen, panelVars, panelPending, serverVars, governanceSlips>>
    PROVE  GovernanceInv'
BY TaskAt, FailedTask, ServedQuietly DEF GovernanceInv

(* What the server answers is a set of permissions, a panel, or versions. *)
LEMMA CodesTyped == ASSUME GovernanceTypeOK PROVE CodesOf(Operator) \in Grants
<1>1. Operator \in Members BY SomeoneOperates DEF Operator, Members
<1>2. memberRole[Operator] \in Roles \cup {Off} BY <1>1, ServerTypes
<1>3. \A r \in Roles : rolePermissions[r] \in Permissions BY ServerTypes
<1> QED BY <1>2, <1>3 DEF CodesOf, ListRolePermissions, Permissions, Grants

LEMMA ReadKeeps ==
    ASSUME GovernanceInv, NEW i \in DOMAIN governanceWork, governanceWork[i].todo # <<>>,
           ServeRead(i), UNCHANGED <<governanceOpen, panelVars, panelPending>>
    PROVE  GovernanceInv'
<1>1. PICK o : o = governanceWork[i] OBVIOUS
<1>2. o \in Tasks /\ TaskFits(o) /\ governanceWork \in Seq(Tasks) /\ GovernanceTypeOK
  BY <1>1, TaskAt DEF GovernanceInv
<1>3. UNCHANGED <<serverVars, governanceSlips>> BY DEF ServeRead
<1>4. CASE Failed(i) BY <1>3, <1>4, FaultKeeps
<1>5. CASE Head(o.todo) = "session" /\ ~Failed(i)
  <2>1. Advanced(i, CodesOf(Operator)) BY <1>1, <1>5 DEF ServeRead
  <2>2. CodesOf(Operator) \in Gots BY <1>2, CodesTyped DEF Gots
  <2>3. PICK w \in Tasks :
           /\ governanceWork' = [governanceWork EXCEPT ![i] = w]
           /\ w.kind = o.kind /\ w.command = o.command /\ w.todo = Tail(o.todo)
           /\ w.got = CodesOf(Operator)
    BY <1>1, <1>2, <2>1, <2>2, AdvancedTask
  <2>4. TodoFits(w.kind, w.todo) /\ w.todo = <<"rows">>
    BY <1>1, <1>2, <1>5, <2>3, NextTodo DEF TaskFits, Tasks
  <2>5. <<"rows">> # <<>> /\ Head(<<"rows">>) = "rows" OBVIOUS
  <2>6. TaskFits(w) BY <1>2, <2>3, <2>4, <2>5, CodesTyped DEF TaskFits, GotFits
  <2>7. ~Writes(w) BY <2>4, <2>5 DEF Writes
  <2> QED BY <1>1, <1>3, <2>3, <2>6, <2>7, ServedQuietly
<1>6. CASE Head(o.todo) = "rows" /\ ~Failed(i)
  <2>1. PICK panel : panel = [codes |-> o.got, roles |-> rolePermissions, members |-> memberRole]
    OBVIOUS
  <2>2. Advanced(i, panel) BY <1>1, <1>6, <2>1 DEF ServeRead
  <2>3. /\ o.todo = <<"rows">> /\ Tail(o.todo) = <<>> /\ o.kind \in {"load", "act"}
        /\ TodoFits(o.kind, Tail(o.todo))
    BY <1>1, <1>2, <1>6, NextTodo DEF TaskFits, Tasks
  <2>4. panel \in GovernancePanels
    <3>1. o.got \in Grants BY <1>2, <2>3 DEF TaskFits, GotFits
    <3> QED BY <1>2, <2>1, <3>1, ServerTypes DEF GovernancePanels
  <2>5. PICK w \in Tasks :
           /\ governanceWork' = [governanceWork EXCEPT ![i] = w]
           /\ w.kind = o.kind /\ w.command = o.command /\ w.todo = Tail(o.todo) /\ w.got = panel
    BY <1>1, <1>2, <2>2, <2>4, AdvancedTask DEF Gots
  <2>6. <<"rows">> # <<>> OBVIOUS
  <2>7. TaskFits(w) BY <1>2, <2>3, <2>4, <2>5, <2>6 DEF TaskFits, GotFits
  <2>8. ~Writes(w) BY <2>3, <2>5 DEF Writes
  <2> QED BY <1>1, <1>3, <2>5, <2>7, <2>8, ServedQuietly
<1>7. CASE Head(o.todo) = "models" /\ ~Failed(i)
  <2>1. PICK panel \in ModelPanels : panel.codes = o.codes /\ Advanced(i, panel)
    <3>1. o.codes \in Grants /\ prompts \in Seq(PromptStatuses) /\ <<>> \in Seq(PromptStatuses)
      BY <1>2, ServerTypes DEF Tasks
    <3>2. PICK rows \in {<<>>, prompts} : Advanced(i, [codes |-> o.codes, prompts |-> rows])
      BY <1>1, <1>7 DEF ServeRead
    <3>3. [codes |-> o.codes, prompts |-> rows] \in ModelPanels BY <3>1 DEF ModelPanels
    <3> QED BY <3>2, <3>3
  <2>2. Tail(o.todo) = <<>> /\ o.kind \in {"loadModels", "actModels"}
          /\ TodoFits(o.kind, Tail(o.todo))
    BY <1>1, <1>2, <1>7, NextTodo DEF TaskFits, Tasks
  <2>3. PICK w \in Tasks :
           /\ governanceWork' = [governanceWork EXCEPT ![i] = w]
           /\ w.kind = o.kind /\ w.command = o.command /\ w.codes = o.codes
           /\ w.todo = Tail(o.todo) /\ w.got = panel
    BY <1>1, <1>2, <2>1, AdvancedTask DEF Gots
  <2>4. <<"rows">> # <<>> OBVIOUS
  <2>5. TaskFits(w) BY <1>2, <2>1, <2>2, <2>3, <2>4 DEF TaskFits, GotFits
  <2>6. ~Writes(w) BY <2>2, <2>3 DEF Writes
  <2> QED BY <1>1, <1>3, <2>3, <2>5, <2>6, ServedQuietly
<1>8. Head(o.todo) \in {"session", "rows", "models"} BY <1>1 DEF ServeRead
<1> QED BY <1>4, <1>5, <1>6, <1>7, <1>8

-----------------------------------------------------------------------------
(* A command is written.                                                   *)
LEMMA VersionsWritten ==
    ASSUME GovernanceTypeOK, NEW listed
    PROVE  /\ Archived(listed) \in Seq(PromptStatuses) /\ DOMAIN Archived(listed) = DOMAIN prompts
           /\ \A j \in DOMAIN prompts :
                 Archived(listed)[j] = IF j \in listed THEN "archived" ELSE prompts[j]
           /\ \A n \in DOMAIN prompts, x \in PromptStatuses :
                 LET written == [Archived(listed) EXCEPT ![n] = x]
                 IN  /\ written \in Seq(PromptStatuses) /\ DOMAIN written = DOMAIN prompts
                     /\ \A j \in DOMAIN prompts :
                           written[j] = IF j = n THEN x ELSE Archived(listed)[j]
<1>1. /\ prompts \in Seq(PromptStatuses) /\ Len(prompts) \in Nat
      /\ DOMAIN prompts = 1 .. Len(prompts)
  BY ServerTypes, VersionsAreNumbers
<1>2. \A j \in DOMAIN prompts : prompts[j] \in PromptStatuses BY <1>1, ElementOfSeq
<1>3. PICK s : s = Archived(listed) OBVIOUS
<1>4. /\ s \in [1 .. Len(prompts) -> PromptStatuses]
      /\ \A j \in DOMAIN prompts : s[j] = IF j \in listed THEN "archived" ELSE prompts[j]
  BY <1>1, <1>2, <1>3 DEF Archived, PromptStatuses
<1>5. s \in Seq(PromptStatuses) BY <1>1, <1>4, SeqDef
<1>6. ASSUME NEW n \in DOMAIN prompts, NEW x \in PromptStatuses
      PROVE  LET written == [s EXCEPT ![n] = x]
             IN  /\ written \in Seq(PromptStatuses) /\ DOMAIN written = DOMAIN prompts
                 /\ \A j \in DOMAIN prompts : written[j] = IF j = n THEN x ELSE s[j]
  <2>1. DOMAIN s = DOMAIN prompts BY <1>1, <1>4
  <2> QED BY <1>5, <2>1, OneChanges
<1> QED BY <1>1, <1>3, <1>4, <1>5, <1>6

LEMMA WriteTyped ==
    ASSUME GovernanceTypeOK, NEW c \in Commands, CommandFits(c), NEW listed,
           Written(c, listed) \/ WrittenHalf(c, listed) \/ UNCHANGED rowVars
    PROVE  /\ rolePermissions' \in [Roles -> Permissions]
           /\ memberRole' \in [Members -> Roles \cup {Off}]
           /\ prompts' \in Seq(PromptStatuses) /\ DOMAIN prompts \subseteq DOMAIN prompts'
<1>1. /\ rolePermissions \in [Roles -> Permissions]
      /\ memberRole \in [Members -> Roles \cup {Off}] /\ prompts \in Seq(PromptStatuses)
  BY ServerTypes
<1>2. Off \in Permissions /\ {} \in Permissions BY DEF Permissions, Grants
<1>3. CASE UNCHANGED rowVars BY <1>1, <1>3 DEF rowVars
<1>4. CASE WrittenHalf(c, listed)
  <2>1. CASE c.op = "createRole" /\ UNCHANGED <<memberRole, prompts>>
               /\ rolePermissions' = [rolePermissions EXCEPT ![c.of] = {}]
    BY <1>1, <1>2, <2>1
  <2>2. CASE prompts' = Archived(listed) /\ UNCHANGED <<rolePermissions, memberRole>>
    BY <1>1, <2>2, VersionsWritten
  <2> QED BY <1>3, <1>4, <2>1, <2>2 DEF WrittenHalf
<1>5. CASE Written(c, listed)
  <2>1. CASE c.op \in {"createRole", "updateRole"}
    <3>1. c.to \in Permissions BY <2>1 DEF CommandFits
    <3>2. rolePermissions' = [rolePermissions EXCEPT ![c.of] = c.to]
            /\ UNCHANGED <<memberRole, prompts>>
      BY <1>5, <2>1 DEF Written
    <3> QED BY <1>1, <3>1, <3>2
  <2>2. CASE c.op = "deleteRole"
    <3>1. /\ rolePermissions' = [rolePermissions EXCEPT ![c.of] = Off] /\ UNCHANGED prompts
          /\ memberRole' = [m \in Members |-> IF memberRole[m] = c.of THEN Off ELSE memberRole[m]]
      BY <1>5, <2>2 DEF Written
    <3> QED BY <1>1, <1>2, <3>1
  <2>3. CASE c.op = "updateMemberRole"
    <3>1. c.to \in Roles BY <2>3 DEF CommandFits
    <3>2. memberRole' = [memberRole EXCEPT ![c.of] = c.to]
            /\ UNCHANGED <<rolePermissions, prompts>>
      BY <1>5, <2>3 DEF Written
    <3> QED BY <1>1, <3>1, <3>2
  <2>4. CASE c.op = "createPromptTemplateVersion"
    <3>1. prompts' = Append(prompts, "draft") /\ UNCHANGED <<rolePermissions, memberRole>>
      BY <1>5, <2>4 DEF Written
    <3>2. "draft" \in PromptStatuses BY DEF PromptStatuses
    <3>3. prompts' \in Seq(PromptStatuses) /\ DOMAIN prompts \subseteq DOMAIN prompts'
      BY <1>1, <3>1, <3>2, OneBegins
    <3> QED BY <1>1, <3>1, <3>3
  <2>5. CASE c.op = "updatePromptTemplateDraft"
    <3>1. prompts' = [prompts EXCEPT ![c.of] = "draft"] /\ UNCHANGED <<rolePermissions, memberRole>>
      BY <1>5, <2>5 DEF Written
    <3>2. "draft" \in PromptStatuses /\ c.of \in DOMAIN prompts
      BY <2>5 DEF PromptStatuses, CommandFits
    <3>3. prompts' \in Seq(PromptStatuses) /\ DOMAIN prompts = DOMAIN prompts'
      BY <1>1, <3>1, <3>2, OneChanges
    <3> QED BY <1>1, <3>1, <3>3
  <2>6. CASE c.op = "setPromptTemplateStatus"
    <3>1. PICK versions : prompts' = [Archived(versions) EXCEPT ![c.of] = c.to]
      BY <1>5, <2>6 DEF Written
    <3>2. UNCHANGED <<rolePermissions, memberRole>> BY <1>5, <2>6 DEF Written
    <3>3. c.of \in DOMAIN prompts /\ c.to \in PromptStatuses
      BY <2>6 DEF PromptStatuses, CommandFits
    <3>4. prompts' \in Seq(PromptStatuses) /\ DOMAIN prompts' = DOMAIN prompts
      BY <3>1, <3>3, VersionsWritten
    <3> QED BY <1>1, <3>2, <3>4
  <2>7. CASE c.op \notin {"createRole", "updateRole", "deleteRole", "updateMemberRole",
                         "createPromptTemplateVersion", "updatePromptTemplateDraft",
                         "setPromptTemplateStatus"}
    BY <1>3, <1>5, <2>7 DEF Written
  <2> QED BY <2>1, <2>2, <2>3, <2>4, <2>5, <2>6, <2>7
<1> QED BY <1>3, <1>4, <1>5

(* What was allowed leaves someone who governs, and one version published. *)
LEMMA RoleAppears ==
    ASSUME GovernanceTypeOK, NEW r \in Roles, rolePermissions[r] = Off, NEW to,
           Governed(rolePermissions, memberRole)
    PROVE  Governed([rolePermissions EXCEPT ![r] = to], memberRole)
<1>1. PICK m \in Members : "govern" \in ListRolePermissions(memberRole[m], rolePermissions)
  BY DEF Governed
<1>2. memberRole[m] # Off /\ rolePermissions[memberRole[m]] # Off
        /\ "govern" \in rolePermissions[memberRole[m]]
  BY <1>1 DEF ListRolePermissions
<1>3. memberRole[m] \in Roles /\ memberRole[m] # r BY <1>2, ServerTypes
<1>4. [rolePermissions EXCEPT ![r] = to][memberRole[m]] = rolePermissions[memberRole[m]]
  BY <1>3, ServerTypes
<1> QED BY <1>2, <1>4 DEF Governed, ListRolePermissions

LEMMA WriteGoverns ==
    ASSUME GovernanceTypeOK, NEW w, w.command \in Commands, CommandFits(w.command),
           StillAllowed(w), Governed(rolePermissions, memberRole), NEW listed,
           \/ Written(w.command, listed) \/ WrittenHalf(w.command, listed)
           \/ UNCHANGED rowVars
    PROVE  Governed(rolePermissions', memberRole')
<1>1. PICK c : c = w.command OBVIOUS
<1>2. CASE UNCHANGED <<rolePermissions, memberRole>> BY <1>2
<1>3. CASE /\ c.op = "createRole" /\ memberRole' = memberRole
           /\ \E to : rolePermissions' = [rolePermissions EXCEPT ![c.of] = to]
  <2>1. rolePermissions[c.of] = Off /\ c.of \in Roles
    BY <1>1, <1>3 DEF StillAllowed, CommandFits
  <2> QED BY <1>3, <2>1, RoleAppears
<1>4. CASE WrittenHalf(c, listed) BY <1>2, <1>3, <1>4 DEF WrittenHalf, rowVars
<1>5. CASE Written(c, listed)
  <2>1. CASE c.op = "createRole" BY <1>3, <1>5, <2>1 DEF Written
  <2>2. CASE c.op = "updateRole"
    <3>1. rolePermissions' = [rolePermissions EXCEPT ![c.of] = c.to] /\ memberRole' = memberRole
      BY <1>5, <2>2 DEF Written
    <3> QED BY <1>1, <2>2, <3>1 DEF StillAllowed
  <2>3. CASE c.op = "deleteRole"
    <3>1. /\ rolePermissions' = [rolePermissions EXCEPT ![c.of] = Off]
          /\ memberRole' = [m \in Members |-> IF memberRole[m] = c.of THEN Off ELSE memberRole[m]]
      BY <1>5, <2>3 DEF Written
    <3>2. PICK m \in Members :
             "govern" \in ListRolePermissions(memberRole[m], [rolePermissions EXCEPT ![c.of] = Off])
      BY <1>1, <2>3 DEF StillAllowed, Governed
    <3>3. memberRole[m] # Off /\ rolePermissions'[memberRole[m]] # Off
      BY <3>1, <3>2 DEF ListRolePermissions
    <3>4. memberRole[m] # c.of
      <4>1. memberRole[m] \in Roles BY <3>3, ServerTypes
      <4>2. rolePermissions \in [Roles -> Permissions] BY ServerTypes
      <4> QED BY <3>1, <3>3, <4>1, <4>2
    <3>5. memberRole'[m] = memberRole[m] BY <3>1, <3>4
    <3> QED BY <3>1, <3>2, <3>5 DEF Governed, ListRolePermissions
  <2>4. CASE c.op = "updateMemberRole"
    <3>1. memberRole' = [memberRole EXCEPT ![c.of] = c.to] /\ rolePermissions' = rolePermissions
      BY <1>5, <2>4 DEF Written
    <3> QED BY <1>1, <2>4, <3>1 DEF StillAllowed
  <2>5. CASE c.op \notin {"createRole", "updateRole", "deleteRole", "updateMemberRole"}
    <3>1. UNCHANGED <<rolePermissions, memberRole>> BY <1>5, <2>5 DEF Written, rowVars
    <3> QED BY <1>2, <3>1
  <2> QED BY <2>1, <2>2, <2>3, <2>4, <2>5
<1>6. CASE UNCHANGED rowVars BY <1>2, <1>6 DEF rowVars
<1> QED BY <1>1, <1>4, <1>5, <1>6

LEMMA WritePublishesOne ==
    ASSUME GovernanceTypeOK, NEW w, w.command \in Commands, CommandFits(w.command),
           OneActive, looseVersions \subseteq looseVersions',
           w.command.op = "setPromptTemplateStatus" /\ w.command.to = "active" =>
              \/ w.command.of \in looseVersions'
              \/ OthersActive(w.command.of) \ looseVersions' \subseteq w.got,
           \/ Written(w.command, w.got) \/ WrittenHalf(w.command, w.got)
           \/ UNCHANGED rowVars
    PROVE  /\ OneActive'
           /\ \A j \in DOMAIN prompts' : prompts'[j] = "active" =>
                 \/ j \in DOMAIN prompts /\ prompts[j] = "active"
                 \/ /\ w.command.op = "setPromptTemplateStatus" /\ w.command.to = "active"
                    /\ j = w.command.of
<1>1. PICK c : c = w.command OBVIOUS
<1>2. prompts \in Seq(PromptStatuses) BY ServerTypes
<1>3. CASE UNCHANGED prompts BY <1>3 DEF OneActive
<1>4. CASE /\ DOMAIN prompts' = DOMAIN prompts
           /\ \A j \in DOMAIN prompts : prompts'[j] = "active" => prompts[j] = "active"
  BY <1>4 DEF OneActive
<1>5. CASE WrittenHalf(c, w.got)
  <2>1. CASE prompts' = Archived(w.got)
    <3>1. DOMAIN prompts' = DOMAIN prompts
            /\ \A j \in DOMAIN prompts :
                  prompts'[j] = IF j \in w.got THEN "archived" ELSE prompts[j]
      BY <2>1, VersionsWritten
    <3> QED BY <1>4, <3>1
  <2> QED BY <1>3, <1>5, <2>1 DEF WrittenHalf, rowVars
<1>6. CASE Written(c, w.got)
  <2>1. CASE c.op = "createPromptTemplateVersion"
    <3>1. prompts' = Append(prompts, "draft") /\ "draft" \in PromptStatuses
      BY <1>6, <2>1 DEF Written, PromptStatuses
    <3>2. \A j \in DOMAIN prompts' :
             \/ prompts'[j] = "draft"
             \/ j \in DOMAIN prompts /\ prompts'[j] = prompts[j]
      BY <1>2, <3>1, OneBegins
    <3> QED BY <3>2 DEF OneActive
  <2>2. CASE c.op = "updatePromptTemplateDraft"
    <3>1. prompts' = [prompts EXCEPT ![c.of] = "draft"] BY <1>6, <2>2 DEF Written
    <3>2. "draft" \in PromptStatuses /\ c.of \in DOMAIN prompts
      BY <1>1, <2>2 DEF PromptStatuses, CommandFits
    <3>3. DOMAIN prompts = DOMAIN prompts'
            /\ \A j \in DOMAIN prompts : prompts'[j] = IF j = c.of THEN "draft" ELSE prompts[j]
      BY <1>2, <3>1, <3>2, OneChanges
    <3> QED BY <1>4, <3>3
  <2>3. CASE c.op = "setPromptTemplateStatus"
    <3>1. PICK listed : listed = IF c.to = "active" THEN w.got ELSE {} OBVIOUS
    <3>2. prompts' = [Archived(listed) EXCEPT ![c.of] = c.to] BY <1>6, <2>3, <3>1 DEF Written
    <3>3. c.of \in DOMAIN prompts /\ c.to \in {"active", "archived"}
      BY <1>1, <2>3 DEF CommandFits
    <3>4. /\ \A j \in DOMAIN prompts :
                Archived(listed)[j] = IF j \in listed THEN "archived" ELSE prompts[j]
          /\ DOMAIN prompts' = DOMAIN prompts
          /\ \A j \in DOMAIN prompts :
                prompts'[j] = IF j = c.of THEN c.to ELSE Archived(listed)[j]
      BY <3>2, <3>3, VersionsWritten DEF PromptStatuses
    <3>5. CASE c.to = "active"
      <4>1. \A j \in DOMAIN prompts : prompts'[j] = "active" /\ j # c.of =>
               prompts[j] = "active" /\ j \notin w.got
        BY <3>1, <3>4, <3>5
      <4>2. CASE c.of \in looseVersions'
        BY <1>1, <2>3, <3>4, <3>5, <4>1, <4>2 DEF OneActive
      <4>3. CASE OthersActive(c.of) \ looseVersions' \subseteq w.got
        <5>1. \A j \in DOMAIN prompts \ looseVersions' : prompts'[j] = "active" => j = c.of
          BY <4>1, <4>3 DEF OthersActive
        <5> QED BY <3>4, <4>1, <5>1, <1>1, <2>3, <3>5 DEF OneActive
      <4> QED BY <1>1, <2>3, <3>5, <4>2, <4>3
    <3>6. CASE c.to = "archived"
      <4>1. \A j \in DOMAIN prompts : prompts'[j] = "active" => prompts[j] = "active"
        BY <3>1, <3>4, <3>6
      <4> QED BY <1>4, <3>4, <4>1
    <3> QED BY <3>3, <3>5, <3>6
  <2>4. CASE c.op \notin {"createPromptTemplateVersion", "updatePromptTemplateDraft",
                          "setPromptTemplateStatus"}
    <3>1. UNCHANGED prompts BY <1>6, <2>4 DEF Written, rowVars
    <3> QED BY <1>3, <3>1
  <2> QED BY <2>1, <2>2, <2>3, <2>4
<1>7. CASE UNCHANGED rowVars BY <1>3, <1>7 DEF rowVars
<1> QED BY <1>1, <1>5, <1>6, <1>7

LEMMA WriteKeeps ==
    ASSUME GovernanceInv, NEW i \in DOMAIN governanceWork, governanceWork[i].todo # <<>>,
           ServeWrite(i), UNCHANGED <<governanceOpen, panelVars, panelPending>>
    PROVE  GovernanceInv'
<1>1. PICK o : o = governanceWork[i] OBVIOUS
<1>2. o \in Tasks /\ TaskFits(o) /\ governanceWork \in Seq(Tasks) /\ GovernanceTypeOK
        /\ o \in Range(governanceWork)
  BY <1>1, TaskAt DEF GovernanceInv
<1>3. o.command \in Commands /\ CommandFits(o.command) BY <1>2 DEF Tasks, TaskFits
<1>4. /\ Head(o.todo) = "write"
      /\ \/ Written(o.command, o.got) \/ WrittenHalf(o.command, o.got)
         \/ UNCHANGED rowVars
      /\ Advanced(i, Blank) \/ Failed(i)
      /\ governanceSlips' = governanceSlips \/ governanceSlips' = governanceSlips \cup {"race"}
  BY <1>1 DEF ServeWrite
<1>5. PICK w \in Tasks :
         /\ governanceWork' = [governanceWork EXCEPT ![i] = w] /\ w.kind = o.kind
         /\ TaskFits(w) /\ ~Writes(w)
  <2>1. CASE Failed(i) BY <1>1, <1>2, <2>1, FailedTask
  <2>2. CASE Advanced(i, Blank)
    <3>1. PICK w \in Tasks :
             /\ governanceWork' = [governanceWork EXCEPT ![i] = w] /\ w.kind = o.kind
             /\ w.command = o.command /\ w.todo = Tail(o.todo)
      BY <1>1, <1>2, <2>2, AdvancedTask DEF Gots
    <3>2. /\ TodoFits(w.kind, w.todo) /\ w.todo # <<"rows">>
          /\ IF w.todo = <<>> THEN w.kind = "other" ELSE Head(w.todo) # "write"
      BY <1>1, <1>2, <1>4, <3>1, NextTodo DEF TaskFits, Tasks
    <3>3. TaskFits(w) BY <1>3, <3>1, <3>2 DEF TaskFits, GotFits
    <3> QED BY <3>1, <3>2, <3>3 DEF Writes
  <2> QED BY <1>4, <2>1, <2>2
<1>6. /\ rolePermissions' \in [Roles -> Permissions]
      /\ memberRole' \in [Members -> Roles \cup {Off}]
      /\ prompts' \in Seq(PromptStatuses) /\ DOMAIN prompts \subseteq DOMAIN prompts'
  BY <1>2, <1>3, <1>4, WriteTyped
<1>7. /\ governanceWork' \in Seq(Tasks)
      /\ \A x \in Range(governanceWork') :
            x = w \/ \E j \in DOMAIN governanceWork \ {i} : x = governanceWork[j]
      /\ OneLoad' /\ DraftsAgree' /\ CodesAgree'
  <2>1. "codes" \in governanceSlips => "codes" \in governanceSlips' BY <1>4
  <2> QED BY <1>1, <1>5, <2>1, TaskMoves
<1>8. \A x : TaskFits(x) => TaskFits(x)'
  <2>1. \A x : CommandFits(x.command) => CommandFits(x.command)' BY <1>6 DEF CommandFits
  <2> QED BY <2>1 DEF TaskFits, GotFits
<1>9. (\A x \in Range(governanceWork) : TaskFits(x))'
  <2> SUFFICES ASSUME NEW x \in Range(governanceWork)' PROVE TaskFits(x)' OBVIOUS
  <2>1. x \in Range(governanceWork') BY DEF Range
  <2>2. TaskFits(x) BY <1>5, <1>7, <2>1, TaskAt
  <2> QED BY <1>8, <2>2
<1>10. RolesHold'
  <2> SUFFICES ASSUME "race" \notin governanceSlips' PROVE
          /\ Governed(rolePermissions', memberRole')
          /\ \A x \in Range(governanceWork') : ~Writes(x)
    BY DEF RolesHold, Governed, ListRolePermissions, Range, Writes
  <2>1. "race" \notin governanceSlips BY <1>4
  <2>2. Writes(o) BY <1>1, <1>4 DEF Writes
  <2>3. Governed(rolePermissions, memberRole) /\ StillAllowed(o)
    BY <1>2, <2>1, <2>2 DEF GovernanceInv, CommandsHold, RolesHold
  <2>4. Governed(rolePermissions', memberRole')
    BY <1>2, <1>3, <1>4, <2>3, WriteGoverns
  <2>5. \A j \in DOMAIN governanceWork \ {i} : ~Writes(governanceWork[j])
    BY DEF ServeWrite, Writes, Writing
  <2>6. \A x \in Range(governanceWork') : ~Writes(x) BY <1>5, <1>7, <2>5
  <2> QED BY <2>4, <2>6
<1>12. /\ looseVersions \subseteq looseVersions'
       /\ i \notin Publishing => looseVersions' = looseVersions
       /\ i \in Publishing => \A j \in Publishing :
             governanceWork[j].command.of \in looseVersions' \/ j = i
       /\ i \in Publishing =>
             o.command.of \in looseVersions' \/ looseVersions' = looseVersions
  BY <1>1 DEF ServeWrite
<1>13. /\ i \in Publishing <=> Publishes(o)
       /\ \A j \in DOMAIN governanceWork : Publishes(governanceWork[j]) => j \in Publishing
  BY <1>1 DEF Publishing, Writing, Publishes, Writes
<1>14. OneActive /\ \A x \in Range(governanceWork) : Publishes(x) => ListsActive(x)
  BY DEF GovernanceInv, CommandsHold, PromptsHold
<1>15. /\ OneActive'
       /\ \A j \in DOMAIN prompts' : prompts'[j] = "active" =>
             (j \in DOMAIN prompts /\ prompts[j] = "active") \/ (Publishes(o) /\ j = o.command.of)
  <2>1. o.command.op = "setPromptTemplateStatus" /\ o.command.to = "active" =>
           \/ o.command.of \in looseVersions'
           \/ OthersActive(o.command.of) \ looseVersions' \subseteq o.got
    <3> SUFFICES ASSUME o.command.op = "setPromptTemplateStatus", o.command.to = "active"
                 PROVE  \/ o.command.of \in looseVersions'
                        \/ OthersActive(o.command.of) \ looseVersions' \subseteq o.got
      OBVIOUS
    <3>1. Publishes(o) BY <1>1, <1>4 DEF Publishes, Writes
    <3>2. ListsActive(o) BY <1>2, <1>14, <3>1
    <3> QED BY <1>12, <1>13, <3>1, <3>2 DEF ListsActive
  <2>2. o.command.op = "setPromptTemplateStatus" /\ o.command.to = "active" => Publishes(o)
    BY <1>1, <1>4 DEF Publishes, Writes
  <2> QED BY <1>2, <1>3, <1>4, <1>12, <1>14, <2>1, <2>2, WritePublishesOne
<1>16. PromptsHold'
  <2> SUFFICES ASSUME NEW x \in Range(governanceWork)', Publishes(x)' PROVE ListsActive(x)'
    BY <1>15 DEF PromptsHold
  <2>1. x \in Range(governanceWork') /\ Publishes(x) /\ Writes(x)
    BY DEF Range, Publishes, Writes
  <2>2. PICK j \in DOMAIN governanceWork \ {i} : x = governanceWork[j] BY <1>5, <1>7, <2>1
  <2>3. ListsActive(x) /\ j \in Publishing BY <1>13, <1>14, <2>1, <2>2, TaskAt
  <2>4. CASE i \in Publishing BY <1>12, <2>2, <2>3, <2>4 DEF ListsActive
  <2>5. CASE i \notin Publishing
    <3>1. ~Publishes(o) /\ looseVersions' = looseVersions BY <1>12, <1>13, <2>5
    <3>2. \A k \in DOMAIN prompts' : prompts'[k] = "active" => k \in DOMAIN prompts /\ prompts[k] = "active"
      BY <1>15, <3>1
    <3>3. OthersActive(x.command.of)' \subseteq OthersActive(x.command.of)
      BY <3>2 DEF OthersActive
    <3> QED BY <2>3, <3>1, <3>3 DEF ListsActive
  <2> QED BY <2>4, <2>5
<1>17. looseVersions' \subseteq DOMAIN prompts'
  <2>1. \A j \in Publishing : governanceWork[j].command.of \in DOMAIN prompts
    BY TaskAt DEF Publishing, Writing, TaskFits, CommandFits
  <2>2. looseVersions' \subseteq looseVersions \cup {governanceWork[j].command.of : j \in Publishing}
    BY DEF ServeWrite
  <2>3. looseVersions \subseteq DOMAIN prompts BY <1>2, ServerTypes
  <2> QED BY <1>6, <2>1, <2>2, <2>3
<1>11. GovernanceTypeOK'
  <2>1. governanceSlips' \subseteq {"codes", "race"} BY <1>2, <1>4, ServerTypes
  <2>2. UNCHANGED <<governanceOpen, roleDrafts, memberDrafts, panelErrors, panelPending, edited>>
    BY DEF panelVars
  <2> QED BY <1>2, <1>6, <1>17, <2>1, <2>2
          DEF GovernanceTypeOK, Permissions, Grants, PromptStatuses
<1> QED BY <1>7, <1>9, <1>10, <1>11, <1>16 DEF GovernanceInv, CommandsHold, panelVars

LEMMA ServeGovernanceKeeps ==
    ASSUME GovernanceInv, NEW i \in DOMAIN governanceWork, ServeGovernance(i)
    PROVE  GovernanceInv'
<1>1. governanceWork[i].todo # <<>> /\ UNCHANGED <<governanceOpen, panelVars, panelPending>>
  BY DEF ServeGovernance
<1>2. CASE ServeCheck(i) BY <1>1, <1>2, CheckKeeps
<1>6. CASE ServeCutCheck(i) BY <1>1, <1>6, CutCheckKeeps
<1>3. CASE ServeWrite(i) BY <1>1, <1>3, WriteKeeps
<1>4. CASE ServeRead(i) BY <1>1, <1>4, ReadKeeps
<1>5. CASE ServeFault(i) BY <1>1, <1>5, FaultKeeps DEF ServeFault
<1> QED BY <1>2, <1>3, <1>4, <1>5, <1>6 DEF ServeGovernance

-----------------------------------------------------------------------------
(* A function of the first panel ends: the second may be loaded again.     *)
LEMMA FirstPanelTaken ==
    ASSUME GovernanceInv, NEW i \in DOMAIN governanceWork,
           governanceWork[i].kind \in {"load", "act"},
           NEW panel \in GovernancePanels \cup {Blank}, governance' = panel,
           governanceWork' = ReloadModels(panel, WithoutTask(i)),
           UNCHANGED <<governanceOpen, modelGovernance, serverVars, governanceSlips>>
    PROVE  /\ governanceWork' \in Seq(Tasks)
           /\ (\A x \in Range(governanceWork) : TaskFits(x))' /\ CommandsHold'
           /\ OneLoad' /\ CodesAgree'
<1>1. PICK rest : rest = WithoutTask(i) OBVIOUS
<1>2. /\ rest \in Seq(Tasks) /\ Range(rest) \subseteq Range(governanceWork)
      /\ \A k : NoneOf(governanceWork, k) => NoneOf(rest, k)
      /\ \A k : AtMostOne(governanceWork, k) => AtMostOne(rest, k)
      /\ NoneOf(rest, "loadModels") => NoneOf(governanceWork, "loadModels")
  BY <1>1, TaskEnds DEF GovernanceInv, WithoutTask
<1>3. \A k \in {"load", "loadModels"} :
         AtMostOne(governanceWork, k) /\ (~governanceOpen => NoneOf(governanceWork, k))
  BY DEF GovernanceInv, OneLoad
<1>4. CodesAgree BY DEF GovernanceInv
<1>5. CASE /\ governanceWork' = rest
           /\ ~governanceOpen \/ sessionPermissionCodes(panel) = sessionPermissionCodes(governance)
  <2>1. (\A x \in Range(governanceWork) : TaskFits(x))' /\ CommandsHold'
    BY <1>2, <1>5, ServerStands
  <2>2. OneLoad'
    <3>1. \A k \in {"load", "loadModels"} :
             AtMostOne(governanceWork', k) /\ (~governanceOpen => NoneOf(governanceWork', k))
      BY <1>2, <1>3, <1>5
    <3> QED BY <3>1 DEF OneLoad, AtMostOne, NoneOf
  <2>3. CodesAgree'
    <3>1. sessionPermissionCodes(governance)' = sessionPermissionCodes(panel)
      BY DEF sessionPermissionCodes, gateCodes
    <3>2. NoneOf(governanceWork, "loadModels")' => NoneOf(governanceWork, "loadModels")
      BY <1>2, <1>5 DEF NoneOf
    <3> QED BY <1>4, <1>5, <3>1, <3>2 DEF CodesAgree
  <2> QED BY <1>2, <1>5, <2>1, <2>2, <2>3
<1>6. CASE /\ governanceOpen
           /\ governanceWork' =
                 Append(Cancel(rest, "loadModels"), Loads("models", sessionPermissionCodes(panel)))
  <2>1. PICK w : w = Loads("models", sessionPermissionCodes(panel)) OBVIOUS
  <2>2. w \in Tasks /\ TaskFits(w) /\ ~Writes(w) /\ w.kind = "loadModels"
    <3>1. sessionPermissionCodes(panel) \in Grants BY CodesAreGrants
    <3> QED BY <2>1, <3>1, LoadsFit DEF Panels
  <2>3. PICK s : s = Cancel(rest, "loadModels") OBVIOUS
  <2>4. governanceWork' = Append(s, w) BY <1>6, <2>1, <2>3
  <2>5. /\ s \in Seq(Tasks) /\ Range(s) \subseteq Range(rest)
        /\ \A k : AtMostOne(rest, k) => AtMostOne(s, k)
        /\ AtMostOne(rest, "loadModels") => NoneOf(s, "loadModels")
    BY <1>2, <2>3, LoadCancelled
  <2>6. /\ governanceWork' \in Seq(Tasks) /\ Range(governanceWork') = Range(s) \cup {w}
        /\ \A k : NoneOf(governanceWork', k) <=> NoneOf(s, k) /\ w.kind # k
        /\ \A k : AtMostOne(s, k) /\ (w.kind # k \/ NoneOf(s, k)) => AtMostOne(governanceWork', k)
    BY <2>2, <2>4, <2>5, TaskBegins
  <2>7. (\A x \in Range(governanceWork) : TaskFits(x))' /\ CommandsHold'
    BY <1>2, <2>2, <2>5, <2>6, ServerStands
  <2>8. OneLoad'
    <3>1. \A k \in {"load", "loadModels"} : AtMostOne(governanceWork', k)
      BY <1>2, <1>3, <2>2, <2>5, <2>6
    <3> QED BY <1>6, <3>1 DEF OneLoad, AtMostOne
  <2>9. CodesAgree'
    <3>1. ~NoneOf(governanceWork', "loadModels") BY <2>2, <2>6
    <3> QED BY <3>1 DEF CodesAgree, NoneOf
  <2> QED BY <2>6, <2>7, <2>8, <2>9
<1> QED BY <1>1, <1>5, <1>6 DEF ReloadModels

(* Another function ends, and takes its place out. *)
LEMMA TaskTaken ==
    ASSUME GovernanceInv, NEW i \in DOMAIN governanceWork, governanceWork' = WithoutTask(i),
           UNCHANGED <<governanceOpen, serverVars>>,
           "race" \in governanceSlips => "race" \in governanceSlips'
    PROVE  /\ governanceWork' \in Seq(Tasks)
           /\ (\A x \in Range(governanceWork) : TaskFits(x))' /\ CommandsHold' /\ OneLoad'
           /\ governanceWork[i].kind # "loadModels" /\ NoneOf(governanceWork', "loadModels") =>
                 NoneOf(governanceWork, "loadModels")
<1>1. /\ governanceWork' \in Seq(Tasks) /\ Range(governanceWork') \subseteq Range(governanceWork)
      /\ \A k : NoneOf(governanceWork, k) => NoneOf(governanceWork', k)
      /\ \A k : AtMostOne(governanceWork, k) => AtMostOne(governanceWork', k)
      /\ governanceWork[i].kind # "loadModels" /\ NoneOf(governanceWork', "loadModels") =>
            NoneOf(governanceWork, "loadModels")
  BY TaskEnds DEF GovernanceInv, WithoutTask
<1>2. (\A x \in Range(governanceWork) : TaskFits(x))' /\ CommandsHold' BY <1>1, ServerStands
<1>3. OneLoad'
  <2>1. \A k \in {"load", "loadModels"} :
           AtMostOne(governanceWork', k) /\ (~governanceOpen => NoneOf(governanceWork', k))
    BY <1>1 DEF GovernanceInv, OneLoad
  <2> QED BY <2>1 DEF OneLoad, AtMostOne, NoneOf
<1> QED BY <1>1, <1>2, <1>3

LEMMA TakeGovernanceKeeps ==
    ASSUME GovernanceInv, NEW i \in DOMAIN governanceWork, TakeGovernance(i)
    PROVE  GovernanceInv'
<1>1. PICK w : w = governanceWork[i] OBVIOUS
<1>2. w \in Tasks /\ TaskFits(w) /\ GovernanceTypeOK /\ w.todo = <<>>
  BY <1>1, TaskAt DEF GovernanceInv, TakeGovernance
<1>3. UNCHANGED <<governanceOpen, serverVars>> /\ panelPending' \subseteq Panels
  BY <1>2, ServerTypes DEF TakeGovernance
<1>4. w.kind \in TaskKinds BY <1>2 DEF Tasks
<1>5. CASE w.kind \in {"load", "act"} /\ ~w.failed
  <2>1. PICK panel : panel = w.got OBVIOUS
  <2>2. panel \in GovernancePanels BY <1>2, <1>5, <2>1 DEF TaskFits, GotFits
  <2>3. /\ governance' = panel /\ panelErrors' = panelErrors \ {"governance"}
        /\ roleDrafts' = panel.roles /\ memberDrafts' = panel.members /\ edited' = {}
        /\ governanceWork' = ReloadModels(panel, WithoutTask(i))
        /\ UNCHANGED <<modelGovernance, governanceSlips>>
    BY <1>1, <1>2, <1>5, <2>1 DEF TakeGovernance, ShowGovernance, draftsOf
  <2>4. /\ governanceWork' \in Seq(Tasks)
        /\ (\A x \in Range(governanceWork) : TaskFits(x))' /\ CommandsHold'
        /\ OneLoad' /\ CodesAgree'
    BY <1>1, <1>3, <1>5, <2>2, <2>3, FirstPanelTaken
  <2>5. /\ panel.roles \in [Roles -> Permissions] /\ panel.members \in [Members -> Roles \cup {Off}]
    BY <2>2 DEF GovernancePanels
  <2>6. GovernanceTypeOK'
    BY <1>2, <1>3, <2>3, <2>5 DEF GovernanceTypeOK, Permissions, Grants, serverVars
  <2>7. DraftsAgree'
    <3>1. \A r \in Roles : panel.roles[r] # Off => panel.roles[r] \in Grants
      BY <2>5 DEF Permissions
    <3> QED BY <2>3, <3>1 DEF DraftsAgree
  <2>8. /\ governance' \in GovernancePanels \cup {Blank}
        /\ modelGovernance' \in ModelPanels \cup {Blank}
    BY <2>2, <2>3 DEF GovernanceInv
  <2> QED BY <2>4, <2>6, <2>7, <2>8 DEF GovernanceInv
<1>6. CASE w.kind = "load" /\ w.failed
  <2>1. /\ governance' = Blank /\ panelErrors' = panelErrors \cup {"governance"} /\ edited' = {}
        /\ governanceWork' = ReloadModels(Blank, WithoutTask(i))
        /\ UNCHANGED <<modelGovernance, roleDrafts, memberDrafts, governanceSlips>>
    BY <1>1, <1>2, <1>6 DEF TakeGovernance
  <2>2. /\ governanceWork' \in Seq(Tasks)
        /\ (\A x \in Range(governanceWork) : TaskFits(x))' /\ CommandsHold'
        /\ OneLoad' /\ CodesAgree'
    BY <1>1, <1>3, <1>6, <2>1, FirstPanelTaken
  <2>3. GovernanceTypeOK' BY <1>2, <1>3, <2>1 DEF GovernanceTypeOK, Panels, serverVars
  <2>4. DraftsAgree' BY <2>1 DEF DraftsAgree
  <2>5. governance' \in GovernancePanels \cup {Blank} /\ modelGovernance' \in ModelPanels \cup {Blank}
    BY <2>1 DEF GovernanceInv
  <2> QED BY <2>2, <2>3, <2>4, <2>5 DEF GovernanceInv
<1>7. CASE w.kind \in {"loadModels", "actModels"} /\ ~w.failed
  <2>1. PICK panel : panel = w.got OBVIOUS
  <2>2. panel \in ModelPanels /\ panel.codes = w.codes
    BY <1>2, <1>7, <2>1 DEF TaskFits, GotFits
  <2>3. ShowModels(i, panel)
          /\ governanceSlips' = governanceSlips \cup
                IF w.codes # sessionPermissionCodes(governance) THEN {"codes"} ELSE {}
    BY <1>1, <1>2, <1>7, <2>1 DEF TakeGovernance
  <2>4. /\ modelGovernance' = panel /\ panelErrors' = panelErrors \ {"models"}
        /\ edited' = (IF AdminGovernancePage THEN edited ELSE {})
        /\ governanceWork' = WithoutTask(i) /\ governance' = governance
    BY <2>3 DEF ShowModels
  <2>5. IF governance = Blank \/ AdminGovernancePage
        THEN UNCHANGED <<roleDrafts, memberDrafts>>
        ELSE roleDrafts' = governance.roles /\ memberDrafts' = governance.members
    BY <2>3 DEF ShowModels
  <2>6. /\ governanceWork' \in Seq(Tasks)
        /\ (\A x \in Range(governanceWork) : TaskFits(x))' /\ CommandsHold' /\ OneLoad'
    BY <1>3, <2>3, <2>4, TaskTaken
  <2>7. governance # Blank =>
           /\ governance.roles \in [Roles -> Permissions]
           /\ governance.members \in [Members -> Roles \cup {Off}]
    BY DEF GovernanceInv, GovernancePanels
  <2>8. GovernanceTypeOK'
    <3>1. /\ roleDrafts' \in [Roles -> Permissions]
          /\ memberDrafts' \in [Members -> Roles \cup {Off}]
      BY <1>2, <2>5, <2>7, ServerTypes
    <3>2. edited' \subseteq Roles \cup Members /\ panelErrors' \subseteq Panels
      BY <1>2, <2>4, ServerTypes
    <3>3. governanceSlips' \subseteq {"codes", "race"} BY <1>2, <2>3, ServerTypes
    <3> QED BY <1>2, <1>3, <3>1, <3>2, <3>3
            DEF GovernanceTypeOK, Permissions, Grants, serverVars
  <2>9. DraftsAgree'
    <3>1. CASE governance = Blank BY <2>4, <3>1 DEF DraftsAgree
    <3>2. CASE AdminGovernancePage
      <4>1. governance # Blank /\ modelGovernance # Blank /\ panelErrors = {}
        BY <3>2 DEF AdminGovernancePage
      <4>2. UNCHANGED <<roleDrafts, memberDrafts, edited>> BY <2>4, <2>5, <3>2
      <4> QED BY <2>4, <4>1, <4>2 DEF GovernanceInv, DraftsAgree
    <3>3. CASE governance # Blank /\ ~AdminGovernancePage
      <4>1. \A r \in Roles : governance.roles[r] # Off => governance.roles[r] \in Grants
        BY <2>7, <3>3 DEF Permissions
      <4> QED BY <2>4, <2>5, <3>3, <4>1 DEF DraftsAgree
    <3> QED BY <3>1, <3>2, <3>3
  <2>10. CodesAgree'
    <3>1. sessionPermissionCodes(governance)' = sessionPermissionCodes(governance)
      BY <2>4 DEF sessionPermissionCodes
    <3>2. "codes" \notin governanceSlips' => w.codes = sessionPermissionCodes(governance)
      BY <2>3
    <3> QED BY <2>2, <2>4, <3>1, <3>2 DEF CodesAgree
  <2>11. governance' \in GovernancePanels \cup {Blank} /\ modelGovernance' \in ModelPanels \cup {Blank}
    BY <2>2, <2>4 DEF GovernanceInv
  <2> QED BY <2>6, <2>8, <2>9, <2>10, <2>11 DEF GovernanceInv
<1>8. CASE w.kind = "loadModels" /\ w.failed
  <2>1. /\ modelGovernance' = Blank /\ panelErrors' = panelErrors \cup {"models"} /\ edited' = {}
        /\ governanceWork' = WithoutTask(i)
        /\ UNCHANGED <<governance, roleDrafts, memberDrafts, governanceSlips>>
    BY <1>1, <1>2, <1>8 DEF TakeGovernance
  <2>2. /\ governanceWork' \in Seq(Tasks)
        /\ (\A x \in Range(governanceWork) : TaskFits(x))' /\ CommandsHold' /\ OneLoad'
    BY <1>3, <2>1, TaskTaken
  <2>3. GovernanceTypeOK' BY <1>2, <1>3, <2>1 DEF GovernanceTypeOK, Panels, serverVars
  <2>4. DraftsAgree' /\ CodesAgree' BY <2>1 DEF DraftsAgree, CodesAgree
  <2>5. governance' \in GovernancePanels \cup {Blank} /\ modelGovernance' \in ModelPanels \cup {Blank}
    BY <2>1 DEF GovernanceInv
  <2> QED BY <2>2, <2>3, <2>4, <2>5 DEF GovernanceInv
<1>9. CASE w.kind = "other" \/ (w.kind \in {"act", "actModels"} /\ w.failed)
  <2>1. governanceWork' = WithoutTask(i) /\ UNCHANGED <<panelVars, governanceSlips>>
    BY <1>1, <1>9 DEF TakeGovernance
  <2>2. /\ governanceWork' \in Seq(Tasks)
        /\ (\A x \in Range(governanceWork) : TaskFits(x))' /\ CommandsHold' /\ OneLoad'
        /\ NoneOf(governanceWork', "loadModels") => NoneOf(governanceWork, "loadModels")
    BY <1>1, <1>3, <1>9, <2>1, TaskTaken
  <2>3. GovernanceTypeOK' BY <1>2, <1>3, <2>1 DEF GovernanceTypeOK, serverVars, panelVars
  <2>4. DraftsAgree' BY <2>1 DEF GovernanceInv, DraftsAgree, panelVars
  <2>5. CodesAgree'
    <3>1. CodesAgree BY DEF GovernanceInv
    <3> QED BY <1>3, <2>1, <2>2, <3>1
            DEF CodesAgree, NoneOf, sessionPermissionCodes, panelVars
  <2> QED BY <2>1, <2>2, <2>3, <2>4, <2>5 DEF GovernanceInv, panelVars
<1> QED BY <1>4, <1>5, <1>6, <1>7, <1>8, <1>9 DEF TaskKinds

-----------------------------------------------------------------------------
LEMMA GovernanceInvInit == ASSUME GovernanceInit PROVE GovernanceInv
<1>1. governanceWork = <<>> /\ <<>> \in Seq(Tasks) /\ DOMAIN <<>> = {} BY DEF GovernanceInit
<1>2. gateCodes \in Grants /\ {"models"} \in Grants
  BY DEF gateCodes, Grants, availablePermissions
<1>3. rolePermissions \in [Roles -> Permissions]
  <2>1. rolePermissions = [r \in Roles |-> CASE r = "lead" -> gateCodes
                                             [] r = "staff" -> {"models"}
                                             [] r = "extra" -> Off]
    BY DEF GovernanceInit
  <2> QED BY <1>2, <2>1 DEF Roles, Permissions
<1>4. memberRole \in [Members -> {"lead", "staff"}] /\ memberRole[Operator] = "lead"
  BY DEF GovernanceInit
<1>5. memberRole \in [Members -> Roles \cup {Off}] BY <1>4 DEF Roles
<1>6. /\ prompts = <<"active", "draft">> /\ prompts \in Seq(PromptStatuses)
      /\ DOMAIN prompts = {1, 2} /\ looseVersions = {} /\ prompts[2] # "active"
  <2>1. DOMAIN <<"active", "draft">> = {1, 2} /\ <<"active", "draft">>[2] = "draft" OBVIOUS
  <2>2. "active" \in PromptStatuses /\ "draft" \in PromptStatuses BY DEF PromptStatuses
  <2>3. <<"active", "draft">> \in Seq(PromptStatuses) BY <2>2
  <2> QED BY <2>1, <2>3 DEF GovernanceInit
<1>7. GovernanceTypeOK
  <2>1. /\ roleDrafts = rolePermissions /\ memberDrafts = memberRole /\ governanceOpen = TRUE
        /\ panelErrors = {} /\ panelPending = {} /\ edited = {} /\ governanceSlips = {}
    BY DEF GovernanceInit
  <2>2. looseVersions \subseteq DOMAIN prompts BY <1>6
  <2> QED BY <1>3, <1>5, <1>6, <2>1, <2>2, TypesFrom
<1>8. governance \in GovernancePanels /\ modelGovernance \in ModelPanels
  BY <1>2, <1>3, <1>5, <1>6 DEF GovernanceInit, GovernancePanels, ModelPanels
<1>9. Range(governanceWork) = {} BY <1>1 DEF Range
<1>10. CommandsHold
  <2>1. Operator \in Members BY SomeoneOperates DEF Operator, Members
  <2>2. "govern" \in ListRolePermissions("lead", rolePermissions)
    <3>1. rolePermissions["lead"] = gateCodes BY DEF GovernanceInit, Roles
    <3>2. Off # "lead" /\ Off # gateCodes
      BY OffIsNothing DEF Roles, gateCodes, availablePermissions
    <3> QED BY <3>1, <3>2 DEF ListRolePermissions, gateCodes
  <2>3. Governed(rolePermissions, memberRole) BY <1>4, <2>1, <2>2 DEF Governed
  <2>4. OneActive BY <1>6 DEF OneActive
  <2> QED BY <1>9, <2>3, <2>4 DEF CommandsHold, RolesHold, PromptsHold
<1>11. OneLoad BY <1>1 DEF OneLoad, AtMostOne, NoneOf
<1>12. DraftsAgree
  <2>1. /\ governance.roles = rolePermissions /\ governance.members = memberRole
        /\ roleDrafts = rolePermissions /\ memberDrafts = memberRole
    BY DEF GovernanceInit
  <2>2. \A r \in Roles : rolePermissions[r] # Off => rolePermissions[r] \in Grants
    BY <1>3 DEF Permissions
  <2> QED BY <2>1, <2>2 DEF DraftsAgree
<1>13. CodesAgree
  <2>1. governance.codes = gateCodes /\ modelGovernance.codes = gateCodes BY DEF GovernanceInit
  <2> QED BY <2>1 DEF CodesAgree, sessionPermissionCodes
<1> QED BY <1>1, <1>7, <1>8, <1>9, <1>10, <1>11, <1>12, <1>13 DEF GovernanceInv

LEMMA GovernanceKeeps == ASSUME GovernanceInv, [GovernanceNext]_governanceVars PROVE GovernanceInv'
<1>1. CASE UNCHANGED governanceVars
  <2>1. UNCHANGED <<governanceOpen, panelVars, panelPending, governanceWork, serverVars,
                    governanceSlips>>
    BY <1>1 DEF governanceVars
  <2>2. GovernanceTypeOK'
    <3>1. GovernanceTypeOK BY DEF GovernanceInv
    <3> QED BY <2>1, <3>1 DEF GovernanceTypeOK, panelVars, serverVars
  <2>3. DraftsAgree' BY <2>1 DEF GovernanceInv, DraftsAgree, panelVars
  <2> QED BY <2>1, <2>2, <2>3, EditStands DEF panelVars
<1>2. CASE OpenGovernance BY <1>2, OpenKeeps
<1>3. CASE LeaveGovernance BY <1>3, LeavePageKeeps
<1>4. CASE \E r \in Roles, p \in availablePermissions : setRolePermissionDrafts(r, p)
  BY <1>4, RoleDraftKeeps
<1>5. CASE \E r \in Roles, m \in Members : setMemberRoleDrafts(m, r)
  BY <1>5, MemberDraftKeeps
<1>6. CASE \/ \E r \in Roles : onUpdateRole(r) \/ onDeleteRole(r)
           \/ \E m \in Members : onUpdateMemberRole(m)
           \/ \E codes \in {{}, availablePermissions} : onCreateRole(codes)
           \/ onUpdateSettings \/ onCreatePromptTemplateVersion \/ onUpdateModelProfile
           \/ \E n \in DOMAIN prompts :
                 onUpdatePromptTemplateDraft(n) \/ onSetPromptTemplateStatus(n)
  BY <1>6, ButtonsKeep
<1>7. CASE \/ \E r \in Roles :
                 \/ \E m \in Members : OtherCommand(Asks("updateMemberRole", m, r))
                 \/ OtherCommand(Asks("deleteRole", r, Off))
           \/ \E n \in DOMAIN prompts : OtherCommand(Asks("setPromptTemplateStatus", n, "active"))
  BY <1>7, OthersKeep
<1>8. CASE \E i \in DOMAIN governanceWork : ServeGovernance(i) BY <1>8, ServeGovernanceKeeps
<1>9. CASE \E i \in DOMAIN governanceWork : TakeGovernance(i) BY <1>9, TakeGovernanceKeeps
<1> QED BY <1>1, <1>2, <1>3, <1>4, <1>5, <1>6, <1>7, <1>8, <1>9 DEF GovernanceNext

(* What is being written was allowed, one load of a panel is under way and *)
(* what the panels show hangs together.                                    *)
THEOREM GovernanceInvariance == GovernanceSpec => []GovernanceInv
<1>1. GovernanceInit => GovernanceInv BY GovernanceInvInit
<1>2. GovernanceInv /\ [GovernanceNext]_governanceVars => GovernanceInv' BY GovernanceKeeps
<1> QED BY <1>1, <1>2, PTL DEF GovernanceSpec

(* Roles, members and versions, and the drafts of them, are ones there     *)
(* can be.                                                                 *)
THEOREM GovernanceTyped == GovernanceSpec => []GovernanceTypeOK
<1>1. GovernanceInv => GovernanceTypeOK BY DEF GovernanceInv
<1> QED BY <1>1, GovernanceInvariance, PTL

(* Unless two commands were under way at once, someone can govern: no role *)
(* is deleted or changed, and no member moved, so that nobody could.       *)
THEOREM SomeoneAlwaysGoverns == GovernanceSpec => []SomeoneGoverns
<1>1. GovernanceInv => SomeoneGoverns
  BY DEF GovernanceInv, CommandsHold, RolesHold, Governed, SomeoneGoverns, CodesOf
<1> QED BY <1>1, GovernanceInvariance, PTL

(* Of the versions published one at a time, with the full list of those    *)
(* published before, one is published: setPromptTemplateStatus archives    *)
(* the others.  An overlap or a list cut short leaves what it published    *)
(* beside another, and only that.                                          *)
THEOREM OnePromptActive == GovernanceSpec => []OneActivePrompt
<1>1. ASSUME GovernanceInv
      PROVE  Cardinality({i \in DOMAIN prompts : prompts[i] = "active"} \ looseVersions) <= 1
  <2>1. PICK active : active = {i \in DOMAIN prompts : prompts[i] = "active"} \ looseVersions
    OBVIOUS
  <2>2. \A i, j \in active : i = j
    BY <1>1, <2>1 DEF GovernanceInv, CommandsHold, PromptsHold, OneActive
  <2>3. CASE active = {}
    <3>1. Cardinality(active) = 0 BY <2>3, FS_EmptySet
    <3> QED BY <2>1, <3>1
  <2>4. CASE active # {}
    <3>1. PICK x : active = {x} BY <2>2, <2>4
    <3>2. Cardinality(active) = 1 BY <3>1, FS_Singleton
    <3> QED BY <2>1, <3>2
  <2> QED BY <2>3, <2>4
<1>2. GovernanceInv => OneActivePrompt BY <1>1 DEF OneActivePrompt
<1> QED BY <1>2, GovernanceInvariance, PTL

(* Both panels go by the same permissions, and a form that was not edited  *)
(* shows the row it would write.                                           *)
THEOREM PanelsAlwaysAgree == GovernanceSpec => []PanelsAgree
<1>1. ASSUME GovernanceInv, AdminGovernancePage
      PROVE  /\ Running({"loadModels"}) = {} /\ "codes" \notin governanceSlips =>
                    modelGovernance.codes = governance.codes
             /\ \A r \in Roles \ edited : roleDrafts[r] = governance.roles[r]
             /\ \A m \in Members \ edited : memberDrafts[m] = governance.members[m]
  <2>1. governanceOpen /\ governance # Blank /\ modelGovernance # Blank /\ panelErrors = {}
    BY <1>1 DEF AdminGovernancePage
  <2>2. Running({"loadModels"}) = {} => NoneOf(governanceWork, "loadModels")
    BY DEF Running, NoneOf
  <2>3. sessionPermissionCodes(governance) = governance.codes
    BY <2>1 DEF sessionPermissionCodes
  <2> QED BY <1>1, <2>1, <2>2, <2>3 DEF GovernanceInv, CodesAgree, DraftsAgree
<1>2. GovernanceInv => PanelsAgree BY <1>1 DEF PanelsAgree
<1> QED BY <1>2, GovernanceInvariance, PTL

-----------------------------------------------------------------------------
(* The pages that use an asset of another project.                         *)

Places == Owners \cup {Off}
ReuseShots == [shot : Owners, primary : Assets \cup {Blank}]

ReuseCalls ==
    [kind : {"load", "apply", "look", "audit", "auditLook"}, shot : Places,
     asset : Assets \cup {Blank}, source : Places, of : ReuseShots \cup {Blank},
     got : {"nothing", "answer", "error"}]

(* The calls that change what the page shows of its shot.                  *)
ShotCalls == {w \in ReuseCalls : w.kind \in {"load", "apply"}}

(* A primary asset is none, or one the server allows.                      *)
Fair(shot, asset) == asset = Blank \/ SelectPrimaryAsset(shot, asset)

ReuseTyped ==
    /\ reuseAt \in [shot : Places, source : Places]
    /\ reuseShot \in ReuseShots \cup {Blank} /\ audit \in ReuseShots \cup {Blank}
    /\ reusableAssets.assets \subseteq Assets
    /\ reuseError \in BOOLEAN /\ refused \in BOOLEAN
    /\ looked \in [asked : Assets \cup {Blank}, shown : Assets \cup {Blank}]
    /\ auditLook \in Assets \cup {Blank} /\ auditAt \in Places
    /\ primary \in [Owners -> Assets \cup {Blank}]
    /\ reuseWork \in Seq(ReuseCalls) /\ reuseSlips \subseteq {"shot"}

(* What a call is about: a load the route, an application an asset that    *)
(* may be used on the shot the page showed, a look the asset asked for, an *)
(* audit the shot it is open on.                                           *)
ReuseCallFits(w) ==
    /\ w.kind = "load" => w.shot \in Owners /\ w.shot = reuseAt.shot
    /\ w.kind = "apply" =>
          /\ w.of \in ReuseShots /\ w.shot = w.of.shot /\ w.asset \in Assets
          /\ SelectPrimaryAsset(w.shot, w.asset)
    /\ w.kind = "look" => w.asset = looked.asked
    /\ w.kind = "audit" =>
          /\ w.shot \in Owners /\ w.shot = auditAt
          /\ w.got = "answer" => Fair(w.shot, w.asset)

(* Without a slip an open page waits for one answer about its shot at      *)
(* most, which brings the server's primary asset.                          *)
WaitsForOne ==
    "shot" \notin reuseSlips /\ reuseAt.shot # Off =>
        /\ AtMostOneOf(reuseWork, ShotCalls)
        /\ \A w \in Range(reuseWork) :
              /\ w.kind = "apply" => w.shot = reuseAt.shot
              /\ w \in ShotCalls /\ w.got = "answer" => w.asset = primary[reuseAt.shot]

(* Before that answer it shows its shot as the server has it.              *)
Changing(w) == w.kind = "load" \/ (w.kind = "apply" /\ w.got = "answer")

ShowsItsShot ==
    "shot" \notin reuseSlips =>
        /\ reuseAt.shot = Off => reuseShot = Blank
        /\ reuseAt.shot # Off /\ (\A w \in Range(reuseWork) : ~Changing(w)) =>
              \/ reuseShot = [shot |-> reuseAt.shot, primary |-> primary[reuseAt.shot]]
              \/ reuseShot = Blank /\ reuseError

AuditFits ==
    /\ auditAt = Off => audit = Blank
    /\ audit # Blank => Fair(audit.shot, audit.primary)
    /\ audit # Blank /\ NoneOf(reuseWork, "audit") => audit.shot = auditAt

ReuseInv ==
    /\ ReuseTyped
    /\ \A w \in Range(reuseWork) : ReuseCallFits(w)
    /\ AtMostOne(reuseWork, "load") /\ AtMostOne(reuseWork, "look")
    /\ AtMostOne(reuseWork, "audit")
    /\ WaitsForOne /\ ShowsItsShot /\ AuditFits
    /\ \A o \in Owners : Fair(o, primary[o])
    /\ looked.shown \in {Blank, looked.asked}
    /\ ~refused

LEMMA ReuseFacts ==
    ASSUME ReuseInv
    PROVE  /\ reuseWork \in Seq(ReuseCalls)
           /\ \A i \in DOMAIN reuseWork : reuseWork[i] \in Range(reuseWork)
           /\ \A w \in Range(reuseWork) : w \in ReuseCalls /\ ReuseCallFits(w)
<1>1. PICK t \in Seq(ReuseCalls) : t = reuseWork BY DEF ReuseInv, ReuseTyped
<1>2. \A i \in DOMAIN t : t[i] \in ReuseCalls BY <1>1, LenProperties, ElementOfSeq
<1> QED BY <1>1, <1>2 DEF ReuseInv, Range

LEMMA ReuseCallIs ==
    ASSUME ReuseInv, NEW kind \in {"load", "apply", "look", "audit", "auditLook"},
           NEW shot \in Places, NEW asset \in Assets \cup {Blank}
    PROVE  /\ ReuseCall(kind, shot, asset) \in ReuseCalls
           /\ ReuseCall(kind, shot, asset).kind = kind
           /\ ReuseCall(kind, shot, asset).shot = shot
           /\ ReuseCall(kind, shot, asset).asset = asset
           /\ ReuseCall(kind, shot, asset).of = reuseShot
           /\ ReuseCall(kind, shot, asset).got = "nothing"
<1>1. reuseAt.source \in Places /\ reuseShot \in ReuseShots \cup {Blank}
  BY DEF ReuseInv, ReuseTyped
<1> QED BY <1>1 DEF ReuseCall, ReuseCalls

LEMMA ReuseLoadIs ==
    ASSUME ReuseInv, NEW shot \in Places, NEW source \in Places
    PROVE  LET l == [ReuseCall("load", shot, Blank) EXCEPT !.source = source]
           IN  l \in ReuseCalls /\ l.kind = "load" /\ l.shot = shot
<1>1. reuseShot \in ReuseShots \cup {Blank} BY DEF ReuseInv, ReuseTyped
<1> QED BY <1>1 DEF ReuseCall, ReuseCalls

LEMMA ReuseAnswered ==
    ASSUME NEW w \in ReuseCalls, NEW got \in {"answer", "error"}
    PROVE  /\ [w EXCEPT !.got = got] \in ReuseCalls
           /\ [w EXCEPT !.got = got].got = got /\ [w EXCEPT !.got = got].kind = w.kind
           /\ [w EXCEPT !.got = got].shot = w.shot /\ [w EXCEPT !.got = got].of = w.of
           /\ [w EXCEPT !.got = got].asset = w.asset
BY DEF ReuseCalls

(* What begins or ends that is not about the shot changes nothing of it.   *)
LEMMA SameShot ==
    ASSUME ReuseInv, UNCHANGED <<reuseAt, reuseShot, reuseError, primary, reuseSlips>>,
           AtMostOneOf(reuseWork, ShotCalls) => AtMostOneOf(reuseWork', ShotCalls),
           \A w \in Range(reuseWork') : w \in Range(reuseWork) \/ w.kind \notin {"load", "apply"},
           \A w \in Range(reuseWork) : Changing(w) => w \in Range(reuseWork')
    PROVE  WaitsForOne' /\ ShowsItsShot'
<1>1. WaitsForOne /\ ShowsItsShot BY DEF ReuseInv
<1>2. WaitsForOne'
  <2>1. SUFFICES ASSUME "shot" \notin reuseSlips, reuseAt.shot # Off
                 PROVE  /\ AtMostOneOf(reuseWork', ShotCalls)
                        /\ \A w \in Range(reuseWork') :
                              /\ w.kind = "apply" => w.shot = reuseAt.shot
                              /\ w \in ShotCalls /\ w.got = "answer" => w.asset = primary[reuseAt.shot]
    BY DEF WaitsForOne
  <2>2. /\ AtMostOneOf(reuseWork, ShotCalls)
        /\ \A w \in Range(reuseWork) :
              /\ w.kind = "apply" => w.shot = reuseAt.shot
              /\ w \in ShotCalls /\ w.got = "answer" => w.asset = primary[reuseAt.shot]
    BY <1>1, <2>1 DEF WaitsForOne
  <2>3. \A w \in ShotCalls : w.kind \in {"load", "apply"} BY DEF ShotCalls
  <2> QED BY <2>2, <2>3
<1>3. ShowsItsShot' BY <1>1 DEF ShowsItsShot
<1> QED BY <1>2, <1>3

LEMMA SameAudit ==
    ASSUME ReuseInv, UNCHANGED <<auditAt, audit>>,
           NoneOf(reuseWork', "audit") => NoneOf(reuseWork, "audit")
    PROVE  AuditFits'
BY DEF ReuseInv, AuditFits

(* A call fits as long as what it is about stays.                          *)
LEMMA FitsStill ==
    ASSUME NEW w, ReuseCallFits(w),
           w.kind = "load" => reuseAt'.shot = reuseAt.shot,
           w.kind = "look" => looked'.asked = looked.asked,
           w.kind = "audit" => auditAt' = auditAt
    PROVE  ReuseCallFits(w)'
BY DEF ReuseCallFits

(* The calls left when one kind is cancelled.                              *)
LEMMA ReuseCancelled ==
    ASSUME ReuseInv, NEW t \in Seq(ReuseCalls), NEW kind, AtMostOne(t, kind)
    PROVE  /\ Cancel(t, kind) \in Seq(ReuseCalls)
           /\ Range(Cancel(t, kind)) \subseteq Range(t)
           /\ \A w \in Range(t) : w.kind = kind \/ w \in Range(Cancel(t, kind))
           /\ \A w \in Range(Cancel(t, kind)) : w.kind # kind
           /\ NoneOf(Cancel(t, kind), kind)
           /\ \A k : AtMostOne(t, k) => AtMostOne(Cancel(t, kind), k)
           /\ \A k : NoneOf(t, k) => NoneOf(Cancel(t, kind), k)
           /\ \A k : k # kind /\ NoneOf(Cancel(t, kind), k) => NoneOf(t, k)
           /\ AtMostOneOf(t, ShotCalls) => AtMostOneOf(Cancel(t, kind), ShotCalls)
<1>1. PICK s : s = Cancel(t, kind) OBVIOUS
<1>2. /\ s \in Seq(ReuseCalls) /\ Range(s) \subseteq Range(t)
      /\ \A w \in Range(t) : w.kind = kind \/ w \in Range(s)
      /\ NoneOf(s, kind)
      /\ \A k : AtMostOne(t, k) => AtMostOne(s, k)
      /\ \A k : NoneOf(t, k) => NoneOf(s, k)
      /\ \A k : k # kind /\ NoneOf(s, k) => NoneOf(t, k)
  BY <1>1, LoadCancelled
<1>3. AtMostOneOf(t, ShotCalls) => AtMostOneOf(s, ShotCalls) BY <1>1, CancelledStill
<1>4. \A w \in Range(s) : w.kind # kind BY <1>2 DEF NoneOf, Range
<1> QED BY <1>1, <1>2, <1>3, <1>4

LEMMA GoToReuseKeeps ==
    ASSUME ReuseInv, NEW shot \in Owners, NEW source \in Places, GoToReuse(shot, source)
    PROVE  ReuseInv'
<1>1. PICK t \in Seq(ReuseCalls) : t = reuseWork BY ReuseFacts
<1>2. PICK s : s = Cancel(Cancel(t, "load"), "look") OBVIOUS
<1>3. PICK l : l = [ReuseCall("load", shot, Blank) EXCEPT !.source = source] OBVIOUS
<1>4. l \in ReuseCalls /\ l.kind = "load" /\ l.shot = shot BY <1>3, ReuseLoadIs DEF Places
<1>5. /\ s \in Seq(ReuseCalls) /\ Range(s) \subseteq Range(t)
      /\ \A w \in Range(s) : w.kind \notin {"load", "look"}
      /\ NoneOf(s, "load") /\ AtMostOne(s, "load")
      /\ AtMostOne(s, "look") /\ AtMostOne(s, "audit")
      /\ NoneOf(s, "audit") => NoneOf(t, "audit")
  <2>1. AtMostOne(t, "load") /\ AtMostOne(t, "look") /\ AtMostOne(t, "audit")
    BY <1>1 DEF ReuseInv
  <2>2. PICK u : u = Cancel(t, "load") OBVIOUS
  <2>3. /\ u \in Seq(ReuseCalls) /\ Range(u) \subseteq Range(t) /\ NoneOf(u, "load")
        /\ AtMostOne(u, "load") /\ AtMostOne(u, "look") /\ AtMostOne(u, "audit")
        /\ \A w \in Range(u) : w.kind # "load"
        /\ NoneOf(u, "audit") => NoneOf(t, "audit")
    BY <2>1, <2>2, ReuseCancelled
  <2>4. s = Cancel(u, "look") BY <1>2, <2>2
  <2>5. /\ s \in Seq(ReuseCalls) /\ Range(s) \subseteq Range(u) /\ NoneOf(s, "load")
        /\ AtMostOne(s, "load") /\ AtMostOne(s, "look") /\ AtMostOne(s, "audit")
        /\ \A w \in Range(s) : w.kind # "look"
        /\ NoneOf(s, "audit") => NoneOf(u, "audit")
    BY <2>3, <2>4, ReuseCancelled
  <2> QED BY <2>3, <2>5
<1>6. /\ reuseWork' = Append(s, l)
      /\ reuseAt' = [shot |-> shot, source |-> source] /\ reuseError' = FALSE
      /\ looked' = [asked |-> Blank, shown |-> Blank]
      /\ reuseSlips' = IF Applying # {} THEN {"shot"} ELSE {}
      /\ UNCHANGED <<reuseShot, reusableAssets, auditAt, audit, auditLook, primary, refused>>
  BY <1>1, <1>2, <1>3 DEF GoToReuse, Without, NotLooking
<1>7. PICK r : r = Append(s, l) OBVIOUS
<1>8. /\ r \in Seq(ReuseCalls) /\ Range(r) = Range(s) \cup {l}
      /\ AtMostOne(r, "load") /\ AtMostOne(r, "look") /\ AtMostOne(r, "audit")
      /\ NoneOf(r, "audit") => NoneOf(s, "audit")
  BY <1>4, <1>5, <1>7, TaskBegins
<1>9. ReuseTyped' BY <1>6, <1>7, <1>8 DEF ReuseInv, ReuseTyped, Places
<1>10. \A w \in Range(r) : ReuseCallFits(w)'
  <2>1. ASSUME NEW w \in Range(s) PROVE ReuseCallFits(w)'
    <3>1. ReuseCallFits(w) BY <1>1, <1>5, ReuseFacts
    <3> QED BY <1>5, <1>6, <3>1, FitsStill
  <2>2. ReuseCallFits(l)' BY <1>4, <1>6 DEF ReuseCallFits
  <2> QED BY <1>8, <2>1, <2>2
<1>11. WaitsForOne'
  <2>1. SUFFICES ASSUME "shot" \notin reuseSlips'
                 PROVE  /\ AtMostOneOf(r, ShotCalls)
                        /\ \A w \in Range(r) :
                              w.kind = "apply" => w.shot = shot
                        /\ \A w \in Range(r) :
                              w \in ShotCalls => w.got # "answer"
    BY <1>6, <1>7 DEF WaitsForOne
  <2>2. \A w \in Range(s) : w.kind # "apply"
    <3>1. \A i \in DOMAIN t : t[i].kind # "apply" BY <1>1, <1>6, <2>1 DEF Applying
    <3> QED BY <1>5, <3>1 DEF Range
  <2>3. Range(s) \cap ShotCalls = {} BY <1>5, <2>2 DEF ShotCalls
  <2>4. AtMostOneOf(s, ShotCalls) BY <2>3 DEF AtMostOneOf, Range
  <2>5. AtMostOneOf(r, ShotCalls) BY <1>4, <1>5, <1>7, <2>3, <2>4, BegunStill
  <2>6. l.got = "nothing" BY <1>3 DEF ReuseCall
  <2> QED BY <1>4, <1>8, <2>2, <2>3, <2>5, <2>6
<1>12. ShowsItsShot'
  <2>1. l \in Range(reuseWork') /\ Changing(l) BY <1>4, <1>6, <1>7, <1>8 DEF Changing
  <2>2. reuseAt'.shot # Off BY <1>6, OwnersAreNot
  <2> QED BY <2>1, <2>2 DEF ShowsItsShot
<1>13. AuditFits' BY <1>1, <1>5, <1>6, <1>7, <1>8, SameAudit
<1> QED
  BY <1>6, <1>7, <1>8, <1>9, <1>10, <1>11, <1>12, <1>13 DEF ReuseInv

LEMMA LeaveReuseKeeps ==
    ASSUME ReuseInv, LeaveReuse
    PROVE  ReuseInv'
<1>1. PICK t \in Seq(ReuseCalls) : t = reuseWork BY ReuseFacts
<1>2. PICK s : s = Cancel(Cancel(t, "load"), "look") OBVIOUS
<1>3. /\ s \in Seq(ReuseCalls) /\ Range(s) \subseteq Range(t)
      /\ \A w \in Range(s) : w.kind \notin {"load", "look"}
      /\ AtMostOne(s, "load") /\ AtMostOne(s, "look") /\ AtMostOne(s, "audit")
      /\ NoneOf(s, "audit") => NoneOf(t, "audit")
  <2>1. AtMostOne(t, "load") /\ AtMostOne(t, "look") /\ AtMostOne(t, "audit")
    BY <1>1 DEF ReuseInv
  <2>2. PICK u : u = Cancel(t, "load") OBVIOUS
  <2>3. /\ u \in Seq(ReuseCalls) /\ Range(u) \subseteq Range(t) /\ AtMostOne(u, "load")
        /\ AtMostOne(u, "look") /\ AtMostOne(u, "audit")
        /\ \A w \in Range(u) : w.kind # "load"
        /\ NoneOf(u, "audit") => NoneOf(t, "audit")
    BY <2>1, <2>2, ReuseCancelled
  <2>4. s = Cancel(u, "look") BY <1>2, <2>2
  <2>5. /\ s \in Seq(ReuseCalls) /\ Range(s) \subseteq Range(u) /\ AtMostOne(s, "load")
        /\ AtMostOne(s, "look") /\ AtMostOne(s, "audit")
        /\ \A w \in Range(s) : w.kind # "look"
        /\ NoneOf(s, "audit") => NoneOf(u, "audit")
    BY <2>3, <2>4, ReuseCancelled
  <2> QED BY <2>3, <2>5
<1>4. /\ reuseWork' = s
      /\ reuseAt' = [shot |-> Off, source |-> Off] /\ reuseError' = FALSE
      /\ reuseShot' = Blank /\ reusableAssets'.assets = {}
      /\ looked' = [asked |-> Blank, shown |-> Blank] /\ reuseSlips' = {}
      /\ UNCHANGED <<auditAt, audit, auditLook, primary, refused>>
  BY <1>1, <1>2 DEF LeaveReuse, Without, NotLooking, NoLibrary
<1>5. ReuseTyped' BY <1>3, <1>4 DEF ReuseInv, ReuseTyped, Places
<1>6. ASSUME NEW w \in Range(s) PROVE ReuseCallFits(w)'
  <2>1. ReuseCallFits(w) BY <1>1, <1>3, ReuseFacts
  <2> QED BY <1>3, <1>4, <2>1, FitsStill
<1>7. WaitsForOne' /\ ShowsItsShot' BY <1>4 DEF WaitsForOne, ShowsItsShot
<1>8. AuditFits' BY <1>1, <1>3, <1>4, SameAudit
<1> QED BY <1>3, <1>4, <1>5, <1>6, <1>7, <1>8 DEF ReuseInv

LEMMA handleApplyReuseKeeps ==
    ASSUME ReuseInv, NEW a \in Assets, handleApplyReuse(a)
    PROVE  ReuseInv'
<1>1. PICK t \in Seq(ReuseCalls) : t = reuseWork BY ReuseFacts
<1>2. reuseShot \in ReuseShots /\ reuseShot.shot \in Owners
  BY DEF handleApplyReuse, Allowed, AssetReusePage, ReuseInv, ReuseTyped, ReuseShots
<1>3. PICK l : l = ReuseCall("apply", reuseShot.shot, a) OBVIOUS
<1>4. /\ l \in ReuseCalls /\ l.kind = "apply" /\ l.shot = reuseShot.shot /\ l.asset = a
      /\ l.of = reuseShot /\ l.got = "nothing"
  BY <1>2, <1>3, ReuseCallIs DEF Places
<1>5. /\ reuseWork' = Append(t, l)
      /\ reuseSlips' = reuseSlips \cup
            IF \/ reuseShot.shot # reuseAt.shot
               \/ \E i \in DOMAIN t : t[i].kind \in {"apply", "load"}
            THEN {"shot"} ELSE {}
      /\ UNCHANGED <<reuseAt, reuseShot, reusableAssets, reuseError, looked, auditAt, audit,
                     auditLook, primary, refused>>
  BY <1>1, <1>3 DEF handleApplyReuse
<1>6. PICK s : s = Append(t, l) OBVIOUS
<1>7. /\ s \in Seq(ReuseCalls) /\ Range(s) = Range(t) \cup {l}
      /\ AtMostOne(s, "load") /\ AtMostOne(s, "look") /\ AtMostOne(s, "audit")
      /\ NoneOf(s, "audit") => NoneOf(t, "audit")
  <2>1. AtMostOne(t, "load") /\ AtMostOne(t, "look") /\ AtMostOne(t, "audit")
    BY <1>1 DEF ReuseInv
  <2> QED BY <1>4, <1>6, <2>1, TaskBegins
<1>8. ReuseTyped' BY <1>5, <1>6, <1>7 DEF ReuseInv, ReuseTyped
<1>9. \A w \in Range(s) : ReuseCallFits(w)'
  <2>1. ASSUME NEW w \in Range(t) PROVE ReuseCallFits(w)'
    <3>1. ReuseCallFits(w) BY <1>1, ReuseFacts
    <3> QED BY <1>5, <3>1, FitsStill
  <2>2. SelectPrimaryAsset(reuseShot.shot, a)
    BY DEF handleApplyReuse, Allowed, decideReuseEligibility, SelectPrimaryAsset,
           EvaluateAssetReusePolicy
  <2>3. ReuseCallFits(l)' BY <1>2, <1>4, <2>2 DEF ReuseCallFits
  <2> QED BY <1>7, <2>1, <2>3
<1>10. ASSUME "shot" \notin reuseSlips'
       PROVE  /\ "shot" \notin reuseSlips /\ reuseShot.shot = reuseAt.shot
              /\ \A i \in DOMAIN t : t[i].kind \notin {"apply", "load"}
  BY <1>5, <1>10
<1>11. WaitsForOne'
  <2>1. SUFFICES ASSUME "shot" \notin reuseSlips'
                 PROVE  /\ AtMostOneOf(s, ShotCalls)
                        /\ \A w \in Range(s) :
                              /\ w.kind = "apply" => w.shot = reuseAt.shot
                              /\ w \in ShotCalls => w.got # "answer"
    BY <1>5, <1>6 DEF WaitsForOne
  <2>2. \A w \in Range(t) : w.kind \notin {"apply", "load"} BY <1>10, <2>1 DEF Range
  <2>3. Range(t) \cap ShotCalls = {} BY <2>2 DEF ShotCalls
  <2>4. AtMostOneOf(t, ShotCalls) BY <2>3 DEF AtMostOneOf, Range
  <2>5. AtMostOneOf(s, ShotCalls) BY <1>4, <1>6, <2>3, <2>4, BegunStill
  <2> QED BY <1>4, <1>7, <1>10, <2>1, <2>2, <2>3, <2>5
<1>12. ShowsItsShot'
  <2>1. ASSUME "shot" \notin reuseSlips' PROVE reuseAt.shot # Off
    BY <1>2, <1>10, <2>1, OwnersAreNot
  <2>2. \A w \in Range(reuseWork) : w \in Range(reuseWork') BY <1>1, <1>5, <1>6, <1>7
  <2> QED BY <1>5, <1>10, <2>1, <2>2 DEF ReuseInv, ShowsItsShot
<1>13. AuditFits' BY <1>1, <1>5, <1>6, <1>7, SameAudit
<1> QED
  BY <1>5, <1>6, <1>7, <1>8, <1>9, <1>11, <1>12, <1>13 DEF ReuseInv

LEMMA OpenReuseProvenanceKeeps ==
    ASSUME ReuseInv, NEW a \in Assets, OpenReuseProvenance(a)
    PROVE  ReuseInv'
<1>1. PICK t \in Seq(ReuseCalls) : t = reuseWork BY ReuseFacts
<1>2. PICK s : s = Cancel(t, "look") OBVIOUS
<1>3. PICK l : l = ReuseCall("look", Off, a) OBVIOUS
<1>4. l \in ReuseCalls /\ l.kind = "look" /\ l.asset = a BY <1>3, ReuseCallIs DEF Places
<1>5. AtMostOne(t, "load") /\ AtMostOne(t, "look") /\ AtMostOne(t, "audit")
  BY <1>1 DEF ReuseInv
<1>6. /\ s \in Seq(ReuseCalls) /\ Range(s) \subseteq Range(t) /\ NoneOf(s, "look")
      /\ \A w \in Range(t) : w.kind = "look" \/ w \in Range(s)
      /\ \A w \in Range(s) : w.kind # "look"
      /\ AtMostOne(s, "load") /\ AtMostOne(s, "look") /\ AtMostOne(s, "audit")
      /\ NoneOf(s, "audit") => NoneOf(t, "audit")
      /\ AtMostOneOf(t, ShotCalls) => AtMostOneOf(s, ShotCalls)
  BY <1>2, <1>5, ReuseCancelled
<1>7. /\ reuseWork' = Append(s, l)
      /\ looked' = [asked |-> a, shown |-> Blank]
      /\ UNCHANGED <<reuseAt, reuseShot, reusableAssets, reuseError, auditAt, audit,
                     auditLook, primary, refused, reuseSlips>>
  BY <1>1, <1>2, <1>3 DEF OpenReuseProvenance, Without
<1>8. PICK r : r = Append(s, l) OBVIOUS
<1>9. /\ r \in Seq(ReuseCalls) /\ Range(r) = Range(s) \cup {l}
      /\ AtMostOne(r, "load") /\ AtMostOne(r, "look") /\ AtMostOne(r, "audit")
      /\ NoneOf(r, "audit") => NoneOf(s, "audit")
  BY <1>4, <1>6, <1>8, TaskBegins
<1>10. AtMostOneOf(t, ShotCalls) => AtMostOneOf(r, ShotCalls)
  BY <1>4, <1>6, <1>8, BegunStill DEF ShotCalls
<1>11. ReuseTyped' BY <1>7, <1>8, <1>9 DEF ReuseInv, ReuseTyped
<1>12. \A w \in Range(r) : ReuseCallFits(w)'
  <2>1. ASSUME NEW w \in Range(s) PROVE ReuseCallFits(w)'
    <3>1. ReuseCallFits(w) BY <1>1, <1>6, ReuseFacts
    <3> QED BY <1>6, <1>7, <3>1, FitsStill
  <2>2. ReuseCallFits(l)' BY <1>4, <1>7 DEF ReuseCallFits
  <2> QED BY <1>9, <2>1, <2>2
<1>13. WaitsForOne' /\ ShowsItsShot'
  <2>1. \A w \in Range(reuseWork') : w \in Range(reuseWork) \/ w.kind \notin {"load", "apply"}
    BY <1>1, <1>4, <1>6, <1>7, <1>8, <1>9
  <2>2. \A w \in Range(reuseWork) : Changing(w) => w \in Range(reuseWork')
    BY <1>1, <1>6, <1>7, <1>8, <1>9 DEF Changing
  <2> QED BY <1>1, <1>7, <1>8, <1>10, <2>1, <2>2, SameShot
<1>14. AuditFits' BY <1>1, <1>6, <1>7, <1>8, <1>9, SameAudit
<1> QED
  BY <1>7, <1>8, <1>9, <1>11, <1>12, <1>13, <1>14 DEF ReuseInv

LEMMA ResetProvenanceKeeps ==
    ASSUME ReuseInv, resetAssetProvenance
    PROVE  ReuseInv'
<1>1. PICK t \in Seq(ReuseCalls) : t = reuseWork BY ReuseFacts
<1>2. PICK s : s = Cancel(t, "look") OBVIOUS
<1>3. AtMostOne(t, "load") /\ AtMostOne(t, "look") /\ AtMostOne(t, "audit")
  BY <1>1 DEF ReuseInv
<1>4. /\ s \in Seq(ReuseCalls) /\ Range(s) \subseteq Range(t)
      /\ \A w \in Range(t) : w.kind = "look" \/ w \in Range(s)
      /\ \A w \in Range(s) : w.kind # "look"
      /\ AtMostOne(s, "load") /\ AtMostOne(s, "look") /\ AtMostOne(s, "audit")
      /\ NoneOf(s, "audit") => NoneOf(t, "audit")
      /\ AtMostOneOf(t, ShotCalls) => AtMostOneOf(s, ShotCalls)
  BY <1>2, <1>3, ReuseCancelled
<1>5. /\ reuseWork' = s /\ looked' = [asked |-> Blank, shown |-> Blank]
      /\ UNCHANGED <<reuseAt, reuseShot, reusableAssets, reuseError, auditAt, audit,
                     auditLook, primary, refused, reuseSlips>>
  BY <1>1, <1>2 DEF resetAssetProvenance, Without, NotLooking
<1>6. ReuseTyped' BY <1>4, <1>5 DEF ReuseInv, ReuseTyped
<1>7. ASSUME NEW w \in Range(s) PROVE ReuseCallFits(w)'
  <2>1. ReuseCallFits(w) BY <1>1, <1>4, ReuseFacts
  <2> QED BY <1>4, <1>5, <2>1, FitsStill
<1>8. WaitsForOne' /\ ShowsItsShot'
  <2>1. \A w \in Range(reuseWork) : Changing(w) => w \in Range(reuseWork')
    BY <1>1, <1>4, <1>5 DEF Changing
  <2> QED BY <1>1, <1>4, <1>5, <2>1, SameShot
<1>9. AuditFits' BY <1>1, <1>4, <1>5, SameAudit
<1> QED BY <1>4, <1>5, <1>6, <1>7, <1>8, <1>9 DEF ReuseInv

LEMMA GoToAuditKeeps ==
    ASSUME ReuseInv, NEW shot \in Places, GoToAudit(shot)
    PROVE  ReuseInv'
<1>1. PICK t \in Seq(ReuseCalls) : t = reuseWork BY ReuseFacts
<1>2. PICK s : s = Cancel(t, "audit") OBVIOUS
<1>3. PICK l : l = ReuseCall("audit", shot, Blank) OBVIOUS
<1>4. l \in ReuseCalls /\ l.kind = "audit" /\ l.shot = shot /\ l.got = "nothing"
  BY <1>3, ReuseCallIs
<1>5. AtMostOne(t, "load") /\ AtMostOne(t, "look") /\ AtMostOne(t, "audit")
  BY <1>1 DEF ReuseInv
<1>6. /\ s \in Seq(ReuseCalls) /\ Range(s) \subseteq Range(t) /\ NoneOf(s, "audit")
      /\ \A w \in Range(t) : w.kind = "audit" \/ w \in Range(s)
      /\ \A w \in Range(s) : w.kind # "audit"
      /\ AtMostOne(s, "load") /\ AtMostOne(s, "look") /\ AtMostOne(s, "audit")
      /\ AtMostOneOf(t, ShotCalls) => AtMostOneOf(s, ShotCalls)
  BY <1>2, <1>5, ReuseCancelled
<1>7. PICK r : r = IF shot = Off THEN s ELSE Append(s, l) OBVIOUS
<1>8. /\ reuseWork' = r /\ auditAt' = shot
      /\ IF shot = Off THEN audit' = Blank /\ auditLook' = Blank
                       ELSE UNCHANGED <<audit, auditLook>>
      /\ UNCHANGED <<reuseAt, reuseShot, reusableAssets, reuseError, looked, primary, refused,
                     reuseSlips>>
  BY <1>1, <1>2, <1>3, <1>7 DEF GoToAudit, Without
<1>9. /\ r \in Seq(ReuseCalls) /\ Range(s) \subseteq Range(r)
      /\ Range(r) \subseteq Range(s) \cup (IF shot = Off THEN {} ELSE {l})
      /\ AtMostOne(r, "load") /\ AtMostOne(r, "look") /\ AtMostOne(r, "audit")
      /\ shot # Off => ~NoneOf(r, "audit")
      /\ AtMostOneOf(t, ShotCalls) => AtMostOneOf(r, ShotCalls)
  <2>1. CASE shot = Off BY <1>6, <1>7, <2>1
  <2>2. CASE shot # Off
    <3>1. r = Append(s, l) BY <1>7, <2>2
    <3>2. /\ r \in Seq(ReuseCalls) /\ Range(r) = Range(s) \cup {l}
          /\ AtMostOne(r, "load") /\ AtMostOne(r, "look") /\ AtMostOne(r, "audit")
          /\ ~NoneOf(r, "audit")
      BY <1>4, <1>6, <3>1, TaskBegins
    <3>3. AtMostOneOf(t, ShotCalls) => AtMostOneOf(r, ShotCalls)
      BY <1>4, <1>6, <3>1, BegunStill DEF ShotCalls
    <3> QED BY <2>2, <3>2, <3>3
  <2> QED BY <2>1, <2>2
<1>10. ReuseTyped' BY <1>8, <1>9 DEF ReuseInv, ReuseTyped
<1>11. \A w \in Range(r) : ReuseCallFits(w)'
  <2>1. ASSUME NEW w \in Range(s) PROVE ReuseCallFits(w)'
    <3>1. ReuseCallFits(w) BY <1>1, <1>6, ReuseFacts
    <3> QED BY <1>6, <1>8, <3>1, FitsStill
  <2>2. shot # Off => ReuseCallFits(l)' BY <1>4, <1>8 DEF ReuseCallFits, Places
  <2> QED BY <1>9, <2>1, <2>2
<1>12. WaitsForOne' /\ ShowsItsShot'
  <2>1. \A w \in Range(reuseWork') : w \in Range(reuseWork) \/ w.kind \notin {"load", "apply"}
    BY <1>1, <1>4, <1>6, <1>8, <1>9
  <2>2. \A w \in Range(reuseWork) : Changing(w) => w \in Range(reuseWork')
    BY <1>1, <1>6, <1>8, <1>9 DEF Changing
  <2> QED BY <1>1, <1>8, <1>9, <2>1, <2>2, SameShot
<1>13. AuditFits' BY <1>8, <1>9 DEF ReuseInv, AuditFits
<1> QED BY <1>8, <1>9, <1>10, <1>11, <1>12, <1>13 DEF ReuseInv

LEMMA OpenAuditProvenanceKeeps ==
    ASSUME ReuseInv, OpenAuditProvenance
    PROVE  ReuseInv'
<1>1. PICK t \in Seq(ReuseCalls) : t = reuseWork BY ReuseFacts
<1>2. audit.primary \in Assets \cup {Blank}
  BY DEF OpenAuditProvenance, AdminAssetReusePage, ReuseInv, ReuseTyped, ReuseShots
<1>3. PICK l : l = ReuseCall("auditLook", Off, audit.primary) OBVIOUS
<1>4. l \in ReuseCalls /\ l.kind = "auditLook" BY <1>2, <1>3, ReuseCallIs DEF Places
<1>5. /\ reuseWork' = Append(t, l) /\ auditLook' = Blank
      /\ UNCHANGED <<reuseAt, reuseShot, reusableAssets, reuseError, looked, auditAt, audit,
                     primary, refused, reuseSlips>>
  BY <1>1, <1>3 DEF OpenAuditProvenance
<1>6. PICK s : s = Append(t, l) OBVIOUS
<1>7. /\ s \in Seq(ReuseCalls) /\ Range(s) = Range(t) \cup {l}
      /\ AtMostOne(s, "load") /\ AtMostOne(s, "look") /\ AtMostOne(s, "audit")
      /\ NoneOf(s, "audit") => NoneOf(t, "audit")
  <2>1. AtMostOne(t, "load") /\ AtMostOne(t, "look") /\ AtMostOne(t, "audit")
    BY <1>1 DEF ReuseInv
  <2> QED BY <1>4, <1>6, <2>1, TaskBegins
<1>8. AtMostOneOf(t, ShotCalls) => AtMostOneOf(s, ShotCalls)
  BY <1>4, <1>6, BegunStill DEF ShotCalls
<1>9. ReuseTyped' BY <1>5, <1>6, <1>7 DEF ReuseInv, ReuseTyped
<1>10. \A w \in Range(s) : ReuseCallFits(w)'
  <2>1. ASSUME NEW w \in Range(t) PROVE ReuseCallFits(w)'
    <3>1. ReuseCallFits(w) BY <1>1, ReuseFacts
    <3> QED BY <1>5, <3>1, FitsStill
  <2>2. ReuseCallFits(l)' BY <1>4 DEF ReuseCallFits
  <2> QED BY <1>7, <2>1, <2>2
<1>11. WaitsForOne' /\ ShowsItsShot'
  <2>1. \A w \in Range(reuseWork') : w \in Range(reuseWork) \/ w.kind \notin {"load", "apply"}
    BY <1>1, <1>4, <1>5, <1>6, <1>7
  <2>2. \A w \in Range(reuseWork) : w \in Range(reuseWork') BY <1>1, <1>5, <1>6, <1>7
  <2> QED BY <1>1, <1>5, <1>6, <1>8, <2>1, <2>2, SameShot
<1>12. AuditFits' BY <1>1, <1>5, <1>6, <1>7, SameAudit
<1> QED BY <1>5, <1>6, <1>7, <1>9, <1>10, <1>11, <1>12 DEF ReuseInv

LEMMA OtherPrimaryKeeps ==
    ASSUME ReuseInv, NEW shot \in Owners, NEW a \in Assets, OtherPrimary(shot, a)
    PROVE  ReuseInv'
<1>1. /\ primary' = [primary EXCEPT ![shot] = a] /\ "shot" \in reuseSlips'
      /\ reuseSlips' \subseteq reuseSlips \cup {"shot"} /\ SelectPrimaryAsset(shot, a)
      /\ UNCHANGED <<reuseAt, reuseShot, reusableAssets, reuseError, reuseWork, looked,
                     auditAt, audit, auditLook, refused>>
  BY DEF OtherPrimary
<1>2. primary \in [Owners -> Assets \cup {Blank}] BY DEF ReuseInv, ReuseTyped
<1>3. ReuseTyped' BY <1>1, <1>2 DEF ReuseInv, ReuseTyped
<1>4. \A w \in Range(reuseWork) : ReuseCallFits(w)'
  BY <1>1, ReuseFacts, FitsStill
<1>5. WaitsForOne' /\ ShowsItsShot' BY <1>1 DEF WaitsForOne, ShowsItsShot
<1>6. AuditFits' BY <1>1, SameAudit
<1>7. \A o \in Owners : Fair(o, primary'[o]) BY <1>1, <1>2 DEF ReuseInv, Fair
<1> QED BY <1>1, <1>3, <1>4, <1>5, <1>6, <1>7 DEF ReuseInv

LEMMA CloseProvenanceKeeps ==
    ASSUME ReuseInv, handleCloseAssetProvenance
    PROVE  ReuseInv'
<1>1. /\ auditLook' = Blank
      /\ UNCHANGED <<reuseAt, reuseShot, reusableAssets, reuseError, reuseWork, looked, auditAt,
                     audit, primary, refused, reuseSlips>>
  BY DEF handleCloseAssetProvenance
<1>2. ReuseTyped' BY <1>1 DEF ReuseInv, ReuseTyped
<1>3. \A w \in Range(reuseWork) : ReuseCallFits(w)'
  BY <1>1, ReuseFacts, FitsStill
<1>4. WaitsForOne' /\ ShowsItsShot' BY <1>1, SameShot
<1>5. AuditFits' BY <1>1, SameAudit
<1> QED BY <1>1, <1>2, <1>3, <1>4, <1>5 DEF ReuseInv

-----------------------------------------------------------------------------
(* The server answers a call.                                              *)

(* The call that is answered keeps its kind, its shot and what the page    *)
(* showed; all others stay.                                                *)
LEMMA ServedCalls ==
    ASSUME ReuseInv, NEW i \in DOMAIN reuseWork, NEW d \in ReuseCalls,
           d.kind = reuseWork[i].kind, reuseWork' = [reuseWork EXCEPT ![i] = d]
    PROVE  /\ reuseWork' \in Seq(ReuseCalls) /\ d \in Range(reuseWork')
           /\ \A x \in Range(reuseWork') :
                 x = d \/ \E j \in DOMAIN reuseWork \ {i} : x = reuseWork[j]
           /\ \A x \in Range(reuseWork') : x = d \/ x \in Range(reuseWork)
           /\ \A x \in Range(reuseWork) : x = reuseWork[i] \/ x \in Range(reuseWork')
           /\ \A j \in DOMAIN reuseWork \ {i} : reuseWork[j] \in Range(reuseWork')
           /\ NoneOf(reuseWork', "audit") => NoneOf(reuseWork, "audit")
           /\ AtMostOne(reuseWork', "load") /\ AtMostOne(reuseWork', "look")
           /\ AtMostOne(reuseWork', "audit")
           /\ AtMostOneOf(reuseWork, ShotCalls) => AtMostOneOf(reuseWork', ShotCalls)
<1>1. PICK t \in Seq(ReuseCalls) : t = reuseWork BY ReuseFacts
<1>2. i \in DOMAIN t /\ d.kind = t[i].kind BY <1>1
<1>3. PICK s : s = [t EXCEPT ![i] = d] OBVIOUS
<1>4. /\ [t EXCEPT ![i] = d] \in Seq(ReuseCalls)
      /\ \A x \in Range([t EXCEPT ![i] = d]) : x = d \/ \E j \in DOMAIN t \ {i} : x = t[j]
      /\ d \in Range([t EXCEPT ![i] = d])
      /\ \A j \in DOMAIN t \ {i} : t[j] \in Range([t EXCEPT ![i] = d])
      /\ \A k : NoneOf([t EXCEPT ![i] = d], k) <=> NoneOf(t, k)
      /\ \A k : AtMostOne([t EXCEPT ![i] = d], k) <=> AtMostOne(t, k)
  BY ONLY <1>2, TaskGoesOn
<1>5. /\ s \in Seq(ReuseCalls) /\ d \in Range(s)
      /\ \A x \in Range(s) : x = d \/ \E j \in DOMAIN t \ {i} : x = t[j]
      /\ \A j \in DOMAIN t \ {i} : t[j] \in Range(s)
      /\ NoneOf(s, "audit") => NoneOf(t, "audit")
      /\ AtMostOne(t, "load") => AtMostOne(s, "load")
      /\ AtMostOne(t, "look") => AtMostOne(s, "look")
      /\ AtMostOne(t, "audit") => AtMostOne(s, "audit")
  BY <1>3, <1>4
<1>6. AtMostOne(t, "load") /\ AtMostOne(t, "look") /\ AtMostOne(t, "audit")
  BY <1>1 DEF ReuseInv
<1>7. \A x \in Range(t) : x = t[i] \/ x \in Range(s) BY <1>5 DEF Range
<1>8. AtMostOneOf(t, ShotCalls) => AtMostOneOf(s, ShotCalls)
  <2>1. SUFFICES ASSUME AtMostOneOf(t, ShotCalls) PROVE AtMostOneOf([t EXCEPT ![i] = d], ShotCalls)
    BY <1>3
  <2>2. t[i] \in ReuseCalls BY <1>1, ReuseFacts
  <2>3. d \in ShotCalls => t[i] \in ShotCalls BY <1>2, <2>2 DEF ShotCalls
  <2> QED BY ONLY <1>2, <2>1, <2>3, ChangedStill
<1>9. \A x \in Range(s) : x = d \/ x \in Range(t) BY <1>5 DEF Range
<1>10. reuseWork' = s BY <1>1, <1>3
<1> QED BY <1>1, <1>5, <1>6, <1>7, <1>8, <1>9, <1>10

LEMMA ServeReuseKeeps ==
    ASSUME ReuseInv, NEW i \in DOMAIN reuseWork, ServeReuse(i)
    PROVE  ReuseInv'
<1>1. PICK w : w = reuseWork[i] OBVIOUS
<1>2. w \in ReuseCalls /\ w \in Range(reuseWork) /\ ReuseCallFits(w) /\ w.got = "nothing"
  BY <1>1, ReuseFacts DEF ServeReuse
<1>3. UNCHANGED <<reuseAt, reuseShot, reusableAssets, reuseError, looked, auditAt, audit,
                  auditLook>>
  BY DEF ServeReuse
<1>4. primary \in [Owners -> Assets \cup {Blank}] BY DEF ReuseInv, ReuseTyped
<1>5. ~Changing(w) \/ w.kind = "load" BY <1>2 DEF Changing
<1>6. CASE /\ w.kind \in {"load", "audit"}
           /\ reuseWork' = [reuseWork EXCEPT
                               ![i] = [@ EXCEPT !.got = "answer", !.asset = primary[w.shot]]]
           /\ UNCHANGED <<primary, refused, picks, reuseSlips>>
  <2>1. w.shot \in Owners BY <1>2, <1>6 DEF ReuseCallFits
  <2>2. primary[w.shot] \in Assets \cup {Blank} /\ Fair(w.shot, primary[w.shot])
    BY <1>4, <2>1 DEF ReuseInv
  <2>3. PICK d : d = [w EXCEPT !.got = "answer", !.asset = primary[w.shot]] OBVIOUS
  <2>4. /\ d \in ReuseCalls /\ d.got = "answer" /\ d.kind = w.kind /\ d.shot = w.shot
        /\ d.asset = primary[w.shot]
    <3>1. PICK asset \in Assets \cup {Blank} : asset = primary[w.shot] BY <2>2
    <3>2. d = [w EXCEPT !.got = "answer", !.asset = asset] BY <2>3, <3>1
    <3>3. /\ d \in ReuseCalls /\ d.got = "answer" /\ d.kind = w.kind /\ d.shot = w.shot
          /\ d.asset = asset
      BY <1>2, <3>2 DEF ReuseCalls
    <3> QED BY <3>1, <3>3
  <2>5. reuseWork' = [reuseWork EXCEPT ![i] = d] BY <1>1, <1>6, <2>3
  <2>6. ReuseTyped'
    BY <1>1, <1>3, <1>6, <2>4, <2>5, ServedCalls DEF ReuseInv, ReuseTyped
  <2>7. \A x \in Range(reuseWork') : ReuseCallFits(x)'
    <3>1. ReuseCallFits(d)' BY <1>2, <1>3, <1>6, <2>2, <2>4 DEF ReuseCallFits
    <3>2. ASSUME NEW x \in Range(reuseWork) PROVE ReuseCallFits(x)'
      BY <1>3, <3>2, ReuseFacts, FitsStill
    <3>3. \A x \in Range(reuseWork') : x = d \/ x \in Range(reuseWork)
      BY <1>1, <2>4, <2>5, ServedCalls, ReuseFacts
    <3> QED BY <3>1, <3>2, <3>3
  <2>8. WaitsForOne' /\ ShowsItsShot'
    <3>1. CASE w.kind = "audit"
      <4>1. d.kind \notin {"load", "apply"} /\ ~Changing(w) BY <1>2, <2>4, <3>1 DEF Changing
      <4>2. \A x \in Range(reuseWork') : x \in Range(reuseWork) \/ x.kind \notin {"load", "apply"}
        BY <1>1, <2>4, <2>5, <4>1, ServedCalls, ReuseFacts
      <4>3. \A x \in Range(reuseWork) : Changing(x) => x \in Range(reuseWork')
        BY <1>1, <2>4, <2>5, <4>1, ServedCalls
      <4>4. AtMostOneOf(reuseWork, ShotCalls) => AtMostOneOf(reuseWork', ShotCalls)
        BY <1>1, <2>4, <2>5, ServedCalls
      <4> QED BY <1>3, <1>6, <4>2, <4>3, <4>4, SameShot
    <3>2. CASE w.kind = "load"
      <4>1. reuseAt.shot = w.shot /\ reuseAt.shot # Off
        BY <1>2, <2>1, <3>2, OwnersAreNot DEF ReuseCallFits
      <4>2. ASSUME "shot" \notin reuseSlips
            PROVE  /\ AtMostOneOf(reuseWork', ShotCalls)
                   /\ \A x \in Range(reuseWork') :
                         /\ x.kind = "apply" => x.shot = reuseAt.shot
                         /\ x \in ShotCalls /\ x.got = "answer" => x.asset = primary[reuseAt.shot]
        <5>1. /\ AtMostOneOf(reuseWork, ShotCalls)
              /\ \A x \in Range(reuseWork) :
                    /\ x.kind = "apply" => x.shot = reuseAt.shot
                    /\ x \in ShotCalls /\ x.got = "answer" => x.asset = primary[reuseAt.shot]
          BY <4>1, <4>2 DEF ReuseInv, WaitsForOne
        <5>2. \A x \in Range(reuseWork') : x = d \/ x \in Range(reuseWork)
          BY <1>1, <2>4, <2>5, ServedCalls, ReuseFacts
        <5>3. AtMostOneOf(reuseWork', ShotCalls) BY <1>1, <2>4, <2>5, <5>1, ServedCalls
        <5> QED BY <2>4, <3>2, <4>1, <5>1, <5>2, <5>3
      <4>3. WaitsForOne' BY <1>3, <1>6, <4>2 DEF WaitsForOne
      <4>4. d \in Range(reuseWork') /\ Changing(d)
        BY <1>1, <2>4, <2>5, <3>2, ServedCalls DEF Changing
      <4>5. ShowsItsShot' BY <1>3, <4>1, <4>4 DEF ShowsItsShot
      <4> QED BY <4>3, <4>5
    <3> QED BY <1>6, <3>1, <3>2
  <2>9. AuditFits' BY <1>1, <1>3, <2>4, <2>5, ServedCalls, SameAudit
  <2> QED
    BY <1>1, <1>3, <1>6, <2>4, <2>5, <2>6, <2>7, <2>8, <2>9, ServedCalls DEF ReuseInv
<1>7. ASSUME NEW got \in {"answer", "error"}, got = "answer" => w.kind \in {"look", "auditLook"},
             reuseWork' = [reuseWork EXCEPT ![i].got = got],
             UNCHANGED <<primary, refused, reuseSlips>>
      PROVE  ReuseInv'
  <2>3. PICK d : d = [w EXCEPT !.got = got] OBVIOUS
  <2>4. /\ d \in ReuseCalls /\ d.got = got /\ d.kind = w.kind /\ d.shot = w.shot
        /\ d.asset = w.asset /\ d.of = w.of
    BY <1>2, <2>3, ReuseAnswered
  <2>5. reuseWork' = [reuseWork EXCEPT ![i] = d] BY <1>1, <1>7, <2>3
  <2>6. ReuseTyped'
    BY <1>1, <1>3, <1>7, <2>4, <2>5, ServedCalls DEF ReuseInv, ReuseTyped
  <2>7. \A x \in Range(reuseWork') : x = d \/ x \in Range(reuseWork)
    BY <1>1, <2>4, <2>5, ServedCalls, ReuseFacts
  <2>8. \A x \in Range(reuseWork') : ReuseCallFits(x)'
    <3>1. ReuseCallFits(d) BY <1>2, <1>7, <2>4 DEF ReuseCallFits
    <3>2. \A x \in Range(reuseWork) : ReuseCallFits(x) BY ReuseFacts
    <3> QED BY <1>3, <2>7, <3>1, <3>2, FitsStill
  <2>9. Changing(d) <=> Changing(w) BY <1>2, <1>7, <2>4 DEF Changing
  <2>10. WaitsForOne'
    <3>1. SUFFICES ASSUME "shot" \notin reuseSlips, reuseAt.shot # Off
                   PROVE  /\ AtMostOneOf(reuseWork', ShotCalls)
                          /\ \A x \in Range(reuseWork') :
                                /\ x.kind = "apply" => x.shot = reuseAt.shot
                                /\ x \in ShotCalls /\ x.got = "answer" =>
                                      x.asset = primary[reuseAt.shot]
      BY <1>3, <1>7 DEF WaitsForOne
    <3>2. /\ AtMostOneOf(reuseWork, ShotCalls)
          /\ \A x \in Range(reuseWork) :
                /\ x.kind = "apply" => x.shot = reuseAt.shot
                /\ x \in ShotCalls /\ x.got = "answer" => x.asset = primary[reuseAt.shot]
      BY <3>1 DEF ReuseInv, WaitsForOne
    <3>3. AtMostOneOf(reuseWork', ShotCalls) BY <1>1, <2>4, <2>5, <3>2, ServedCalls
    <3>4. d \in ShotCalls => d.got # "answer" BY <1>7, <2>4 DEF ShotCalls
    <3> QED BY <1>2, <2>4, <2>7, <3>2, <3>3, <3>4
  <2>11. ShowsItsShot'
    <3>1. ASSUME \A x \in Range(reuseWork') : ~Changing(x)
          PROVE  \A x \in Range(reuseWork) : ~Changing(x)
      <4>1. d \in Range(reuseWork') BY <1>1, <2>4, <2>5, ServedCalls
      <4>2. \A x \in Range(reuseWork) : x = w \/ x \in Range(reuseWork')
        BY <1>1, <2>4, <2>5, ServedCalls
      <4> QED BY <2>9, <3>1, <4>1, <4>2
    <3> QED BY <1>3, <1>7, <3>1 DEF ReuseInv, ShowsItsShot
  <2>12. AuditFits' BY <1>1, <1>3, <2>4, <2>5, ServedCalls, SameAudit
  <2> QED
    BY <1>1, <1>3, <1>7, <2>4, <2>5, <2>6, <2>8, <2>10, <2>11, <2>12, ServedCalls DEF ReuseInv
<1>8. ASSUME NEW got \in {"answer", "error"}, w.kind = "apply",
             primary' = [primary EXCEPT ![w.shot] = w.asset], UNCHANGED refused,
             reuseWork' = [reuseWork EXCEPT ![i].got = got],
             reuseSlips' = reuseSlips \/ reuseSlips' = reuseSlips \cup {"shot"},
             got = "error" => "shot" \in reuseSlips'
      PROVE  ReuseInv'
  <2>1. w.asset \in Assets /\ w.shot \in Owners /\ SelectPrimaryAsset(w.shot, w.asset)
    BY <1>2, <1>8 DEF ReuseCallFits, ReuseShots
  <2>3. PICK d : d = [w EXCEPT !.got = got] OBVIOUS
  <2>4. /\ d \in ReuseCalls /\ d.got = got /\ d.kind = w.kind /\ d.shot = w.shot
        /\ d.asset = w.asset /\ d.of = w.of
    BY <1>2, <2>3, ReuseAnswered
  <2>5. reuseWork' = [reuseWork EXCEPT ![i] = d] BY <1>1, <1>8, <2>3
  <2>6. ReuseTyped'
    <3>1. primary' \in [Owners -> Assets \cup {Blank}] BY <1>4, <1>8, <2>1
    <3> QED BY <1>1, <1>3, <1>8, <2>4, <2>5, <3>1, ServedCalls, ZenonT(60) DEF ReuseInv, ReuseTyped
  <2>7. \A x \in Range(reuseWork') : x = d \/ x \in Range(reuseWork)
    BY <1>1, <2>4, <2>5, ServedCalls, ReuseFacts
  <2>8. \A x \in Range(reuseWork') : ReuseCallFits(x)'
    <3>1. ReuseCallFits(d) BY <1>2, <1>8, <2>4 DEF ReuseCallFits
    <3>2. \A x \in Range(reuseWork) : ReuseCallFits(x) BY ReuseFacts
    <3> QED BY <1>3, <2>7, <3>1, <3>2, FitsStill
  <2>9. WaitsForOne'
    <3>1. SUFFICES ASSUME "shot" \notin reuseSlips', reuseAt.shot # Off
                   PROVE  /\ AtMostOneOf(reuseWork', ShotCalls)
                          /\ \A x \in Range(reuseWork') :
                                /\ x.kind = "apply" => x.shot = reuseAt.shot
                                /\ x \in ShotCalls /\ x.got = "answer" =>
                                      x.asset = primary'[reuseAt.shot]
      BY <1>3 DEF WaitsForOne
    <3>2. /\ AtMostOneOf(reuseWork, ShotCalls)
          /\ \A x \in Range(reuseWork) : x.kind = "apply" => x.shot = reuseAt.shot
      BY <1>8, <3>1 DEF ReuseInv, WaitsForOne
    <3>3. AtMostOneOf(reuseWork', ShotCalls) BY <1>1, <2>4, <2>5, <3>2, ServedCalls
    <3>4. d.asset = primary'[reuseAt.shot] BY <1>2, <1>4, <1>8, <2>1, <2>4, <3>2
    <3>5. \A x \in Range(reuseWork') : x = d \/ x \notin ShotCalls
      <4>1. \A x \in Range(reuseWork') : x = d \/ \E j \in DOMAIN reuseWork \ {i} : x = reuseWork[j]
        BY <1>1, <2>4, <2>5, ServedCalls
      <4>2. reuseWork[i] \in ShotCalls BY <1>1, <1>2, <1>8 DEF ShotCalls
      <4>3. \A j \in DOMAIN reuseWork \ {i} : reuseWork[j] \notin ShotCalls
        BY <3>2, <4>2 DEF AtMostOneOf
      <4> QED BY <4>1, <4>3
    <3> QED BY <1>2, <1>8, <2>4, <2>7, <3>2, <3>3, <3>4, <3>5
  <2>10. ShowsItsShot'
    <3>1. ASSUME "shot" \notin reuseSlips' PROVE d \in Range(reuseWork') /\ Changing(d)
      BY <1>1, <1>8, <2>4, <2>5, <3>1, ServedCalls DEF Changing
    <3> QED BY <1>3, <1>8, <3>1 DEF ReuseInv, ShowsItsShot
  <2>11. AuditFits' BY <1>1, <1>3, <2>4, <2>5, ServedCalls, SameAudit
  <2>12. \A o \in Owners : Fair(o, primary'[o]) BY <1>4, <1>8, <2>1 DEF ReuseInv, Fair
  <2> QED
    BY <1>1, <1>3, <1>8, <2>4, <2>5, <2>6, <2>8, <2>9, <2>10, <2>11, <2>12, ServedCalls
    DEF ReuseInv
<1>9. w.kind = "apply" => SelectPrimaryAsset(w.shot, w.asset) BY <1>2 DEF ReuseCallFits
<1> QED
  <2>1. \/ /\ w.kind \in {"load", "audit"}
           /\ reuseWork' = [reuseWork EXCEPT
                               ![i] = [@ EXCEPT !.got = "answer", !.asset = primary[w.shot]]]
           /\ UNCHANGED <<primary, refused, picks, reuseSlips>>
        \/ /\ w.kind \in {"look", "auditLook"} /\ reuseWork' = [reuseWork EXCEPT ![i].got = "answer"]
           /\ UNCHANGED <<primary, refused, reuseSlips>>
        \/ /\ w.kind = "apply" /\ primary' = [primary EXCEPT ![w.shot] = w.asset]
           /\ UNCHANGED refused
           /\ \/ /\ reuseWork' = [reuseWork EXCEPT ![i].got = "answer"]
                 /\ UNCHANGED reuseSlips
              \/ /\ reuseWork' = [reuseWork EXCEPT ![i].got = "error"]
                 /\ reuseSlips' = reuseSlips \cup {"shot"}
        \/ /\ reuseWork' = [reuseWork EXCEPT ![i].got = "error"]
           /\ UNCHANGED <<primary, refused, reuseSlips>>
    BY <1>1, <1>9 DEF ServeReuse
  <2> QED BY <1>6, <1>7, <1>8, <2>1

-----------------------------------------------------------------------------
(* An answer reaches the page.                                             *)

LEMMA TakenCalls ==
    ASSUME ReuseInv, NEW i \in DOMAIN reuseWork, reuseWork' = RemoveAt(reuseWork, i)
    PROVE  /\ reuseWork' \in Seq(ReuseCalls)
           /\ \A x \in Range(reuseWork') : x \in Range(reuseWork)
           /\ \A x \in Range(reuseWork) : x = reuseWork[i] \/ x \in Range(reuseWork')
           /\ reuseWork[i].kind # "audit" /\ NoneOf(reuseWork', "audit") => NoneOf(reuseWork, "audit")
           /\ AtMostOne(reuseWork', "load") /\ AtMostOne(reuseWork', "look")
           /\ AtMostOne(reuseWork', "audit")
           /\ AtMostOneOf(reuseWork, ShotCalls) =>
                 /\ AtMostOneOf(reuseWork', ShotCalls)
                 /\ reuseWork[i] \in ShotCalls => Range(reuseWork') \cap ShotCalls = {}
<1>1. PICK t \in Seq(ReuseCalls) : t = reuseWork BY ReuseFacts
<1>2. PICK s : s = RemoveAt(t, i) OBVIOUS
<1>3. AtMostOne(t, "load") /\ AtMostOne(t, "look") /\ AtMostOne(t, "audit")
  BY <1>1 DEF ReuseInv
<1>4. /\ s \in Seq(ReuseCalls) /\ Range(s) \subseteq Range(t)
      /\ \A j \in DOMAIN t \ {i} : t[j] \in Range(s)
      /\ AtMostOne(s, "load") /\ AtMostOne(s, "look") /\ AtMostOne(s, "audit")
      /\ t[i].kind # "audit" /\ NoneOf(s, "audit") => NoneOf(t, "audit")
  BY <1>1, <1>2, <1>3, TaskEnds
<1>5. AtMostOneOf(t, ShotCalls) =>
          AtMostOneOf(s, ShotCalls) /\ (t[i] \in ShotCalls => Range(s) \cap ShotCalls = {})
  <2>1. i \in DOMAIN t BY <1>1
  <2> QED BY ONLY <1>2, <2>1, EndedStill
<1>6. \A x \in Range(t) : x = t[i] \/ x \in Range(s) BY <1>4 DEF Range
<1>7. reuseWork' = s BY <1>1, <1>2
<1> QED BY <1>1, <1>4, <1>5, <1>6, <1>7

(* The last answer about the shot an open page waited for.                 *)
LEMMA LastOfShot ==
    ASSUME ReuseInv, NEW i \in DOMAIN reuseWork, reuseWork' = RemoveAt(reuseWork, i),
           reuseWork[i] \in ShotCalls, "shot" \notin reuseSlips, reuseAt.shot # Off
    PROVE  /\ reuseWork[i].got = "answer" => reuseWork[i].asset = primary[reuseAt.shot]
           /\ AtMostOneOf(reuseWork', ShotCalls)
           /\ \A x \in Range(reuseWork') : x.kind \notin {"load", "apply"} /\ x \notin ShotCalls
<1>1. AtMostOneOf(reuseWork, ShotCalls) BY DEF ReuseInv, WaitsForOne
<1>2. reuseWork[i].got = "answer" => reuseWork[i].asset = primary[reuseAt.shot]
  BY ReuseFacts DEF ReuseInv, WaitsForOne
<1>3. Range(reuseWork') \cap ShotCalls = {} /\ AtMostOneOf(reuseWork', ShotCalls)
  BY <1>1, TakenCalls
<1>4. \A x \in Range(reuseWork') : x \in ReuseCalls BY TakenCalls, ReuseFacts
<1>5. \A x \in Range(reuseWork') : x \notin ShotCalls BY <1>3
<1> QED BY <1>2, <1>3, <1>4, <1>5 DEF ShotCalls

LEMMA TakeReuseLoadKeeps ==
    ASSUME ReuseInv, NEW i \in DOMAIN reuseWork, TakeReuseLoad(reuseWork[i]),
           reuseWork' = RemoveAt(reuseWork, i),
           UNCHANGED <<reuseAt, auditAt, primary, refused>>
    PROVE  ReuseInv'
<1>1. PICK w : w = reuseWork[i] OBVIOUS
<1>2. w \in ReuseCalls /\ w \in Range(reuseWork) /\ ReuseCallFits(w) BY <1>1, ReuseFacts
<1>3. w.kind = "load" /\ w \in ShotCalls BY <1>1, <1>2 DEF TakeReuseLoad, ShotCalls
<1>4. w.shot \in Owners /\ w.shot = reuseAt.shot BY <1>2, <1>3 DEF ReuseCallFits
<1>5. UNCHANGED <<looked, audit, auditLook, reuseSlips>> BY DEF TakeReuseLoad
<1>6. \/ w.got = "answer" /\ reuseShot' = [shot |-> w.shot, primary |-> w.asset]
      \/ reuseShot' = Blank /\ reuseError' = TRUE
  BY <1>1 DEF TakeReuseLoad
<1>7. reuseError' \in BOOLEAN /\ reusableAssets'.assets \subseteq Assets
  <2>1. \A c, f, lost : loadReusableAssetLibrary(c, f, lost) \subseteq Assets
    BY DEF loadReusableAssetLibrary
  <2>2. \/ \E b : b \subseteq Assets /\ reusableAssets' = [for |-> w.shot, assets |-> b]
        \/ reusableAssets' = [for |-> Off, assets |-> {}]
    BY <1>1, <2>1 DEF TakeReuseLoad, NoLibrary
  <2>3. reusableAssets'.assets \subseteq Assets
    <3>1. ASSUME NEW b, b \subseteq Assets, reusableAssets' = [for |-> w.shot, assets |-> b]
          PROVE  reusableAssets'.assets \subseteq Assets
      BY <3>1
    <3> QED BY <2>2, <3>1
  <2>4. reuseError' \in BOOLEAN BY <1>1 DEF TakeReuseLoad
  <2> QED BY <2>3, <2>4
<1>8. reuseShot' \in ReuseShots \cup {Blank} BY <1>2, <1>4, <1>6 DEF ReuseShots, ReuseCalls
<1>9. ReuseTyped' BY <1>5, <1>7, <1>8, TakenCalls DEF ReuseInv, ReuseTyped
<1>10. \A x \in Range(reuseWork') : ReuseCallFits(x)'
  BY <1>5, TakenCalls, ReuseFacts, FitsStill
<1>11. reuseAt.shot # Off BY <1>4, OwnersAreNot
<1>12. ASSUME "shot" \notin reuseSlips
       PROVE  /\ w.got = "answer" => w.asset = primary[reuseAt.shot]
              /\ AtMostOneOf(reuseWork', ShotCalls)
              /\ \A x \in Range(reuseWork') : x.kind \notin {"load", "apply"} /\ x \notin ShotCalls
  BY <1>1, <1>3, <1>11, <1>12, LastOfShot
<1>13. WaitsForOne' BY <1>5, <1>12 DEF WaitsForOne
<1>14. ShowsItsShot'
  <2>1. ASSUME "shot" \notin reuseSlips
        PROVE  \/ reuseShot' = [shot |-> reuseAt.shot, primary |-> primary[reuseAt.shot]]
               \/ reuseShot' = Blank /\ reuseError'
    BY <1>4, <1>6, <1>12, <2>1
  <2> QED BY <1>5, <1>11, <2>1 DEF ShowsItsShot
<1>15. AuditFits' BY <1>1, <1>3, <1>5, TakenCalls, SameAudit
<1> QED BY <1>5, <1>9, <1>10, <1>13, <1>14, <1>15, TakenCalls DEF ReuseInv

LEMMA TakeApplyKeeps ==
    ASSUME ReuseInv, NEW i \in DOMAIN reuseWork, TakeApply(reuseWork[i]),
           reuseWork' = RemoveAt(reuseWork, i),
           UNCHANGED <<reuseAt, auditAt, primary, refused>>
    PROVE  ReuseInv'
<1>1. PICK w : w = reuseWork[i] OBVIOUS
<1>2. w \in ReuseCalls /\ w \in Range(reuseWork) /\ ReuseCallFits(w) BY <1>1, ReuseFacts
<1>3. w.kind = "apply" /\ w \in ShotCalls BY <1>1, <1>2 DEF TakeApply, ShotCalls
<1>4. w.of \in ReuseShots /\ w.shot = w.of.shot /\ w.asset \in Assets
  BY <1>2, <1>3 DEF ReuseCallFits
<1>5. UNCHANGED <<reusableAssets, looked, audit, auditLook>> BY DEF TakeApply
<1>6. \A x \in Range(reuseWork') : ReuseCallFits(x)'
  BY <1>5, TakenCalls, ReuseFacts, FitsStill
<1>7. AuditFits' BY <1>1, <1>3, <1>5, TakenCalls, SameAudit
<1>8. CASE w.got = "answer"
  <2>1. /\ reuseShot' = [w.of EXCEPT !.primary = w.asset] /\ reuseError' = FALSE
        /\ reuseSlips' = reuseSlips \cup IF w.shot # reuseAt.shot THEN {"shot"} ELSE {}
    BY <1>1, <1>8 DEF TakeApply
  <2>2. reuseShot' = [shot |-> w.shot, primary |-> w.asset] /\ w.shot \in Owners
    BY <1>4, <2>1 DEF ReuseShots
  <2>3. ReuseTyped' BY <1>4, <1>5, <2>1, <2>2, TakenCalls DEF ReuseInv, ReuseTyped, ReuseShots
  <2>4. ASSUME "shot" \notin reuseSlips'
        PROVE  "shot" \notin reuseSlips /\ w.shot = reuseAt.shot /\ reuseAt.shot # Off
    BY <2>1, <2>2, <2>4, OwnersAreNot
  <2>5. ASSUME "shot" \notin reuseSlips'
        PROVE  /\ w.asset = primary[reuseAt.shot]
               /\ AtMostOneOf(reuseWork', ShotCalls)
               /\ \A x \in Range(reuseWork') : x.kind \notin {"load", "apply"} /\ x \notin ShotCalls
    BY <1>1, <1>3, <1>8, <2>4, <2>5, LastOfShot
  <2>6. WaitsForOne' BY <2>5 DEF WaitsForOne
  <2>7. ShowsItsShot' BY <2>2, <2>4, <2>5 DEF ShowsItsShot
  <2> QED BY <1>5, <1>6, <1>7, <2>3, <2>6, <2>7, TakenCalls DEF ReuseInv
<1>9. CASE w.got # "answer"
  <2>1. UNCHANGED <<reuseShot, reuseError, reuseSlips>> BY <1>1, <1>9 DEF TakeApply
  <2>2. ReuseTyped' BY <1>5, <2>1, TakenCalls DEF ReuseInv, ReuseTyped
  <2>3. ~Changing(w) BY <1>3, <1>9 DEF Changing
  <2>4. \A x \in Range(reuseWork) : Changing(x) => x \in Range(reuseWork')
    BY <1>1, <2>3, TakenCalls
  <2>5. WaitsForOne' /\ ShowsItsShot' BY <2>1, <2>4, TakenCalls, SameShot
  <2> QED BY <1>5, <1>6, <1>7, <2>2, <2>5, TakenCalls DEF ReuseInv
<1> QED BY <1>8, <1>9

(* An answer that is not about the shot.                                   *)
LEMMA TakeOtherKeeps ==
    ASSUME ReuseInv, NEW i \in DOMAIN reuseWork,
           \/ TakeLook(reuseWork[i]) \/ TakeAudit(reuseWork[i]) \/ TakeAuditLook(reuseWork[i]),
           reuseWork' = RemoveAt(reuseWork, i),
           UNCHANGED <<reuseAt, auditAt, primary, refused>>
    PROVE  ReuseInv'
<1>1. PICK w : w = reuseWork[i] OBVIOUS
<1>2. w \in ReuseCalls /\ w \in Range(reuseWork) /\ ReuseCallFits(w) BY <1>1, ReuseFacts
<1>3. UNCHANGED <<reuseShot, reusableAssets, reuseError, reuseSlips>>
  BY DEF TakeLook, TakeAudit, TakeAuditLook
<1>4. w.kind \in {"look", "audit", "auditLook"} /\ w.asset \in Assets \cup {Blank}
  BY <1>1, <1>2 DEF TakeLook, TakeAudit, TakeAuditLook, ReuseCalls
<1>5. WaitsForOne' /\ ShowsItsShot'
  <2>1. ~Changing(w) BY <1>4 DEF Changing
  <2>2. \A x \in Range(reuseWork) : Changing(x) => x \in Range(reuseWork')
    BY <1>1, <2>1, TakenCalls
  <2> QED BY <1>3, <2>2, TakenCalls, SameShot
<1>6. ASSUME looked'.asked = looked.asked PROVE \A x \in Range(reuseWork') : ReuseCallFits(x)'
  BY <1>6, TakenCalls, ReuseFacts, FitsStill
<1>7. CASE TakeLook(w)
  <2>1. UNCHANGED <<audit, auditLook>> BY <1>7 DEF TakeLook
  <2>2. looked \in [asked : Assets \cup {Blank}, shown : Assets \cup {Blank}]
    BY DEF ReuseInv, ReuseTyped
  <2>3. w.kind = "look" /\ w.asset = looked.asked BY <1>2, <1>7 DEF TakeLook, ReuseCallFits
  <2>4. looked' = looked \/ looked' = [looked EXCEPT !.shown = w.asset] BY <1>7 DEF TakeLook
  <2>5. /\ looked' \in [asked : Assets \cup {Blank}, shown : Assets \cup {Blank}]
        /\ looked'.asked = looked.asked
        /\ looked'.shown \in {Blank, looked'.asked}
    <3>1. CASE looked' = looked BY <2>2, <3>1 DEF ReuseInv
    <3>2. CASE looked' = [looked EXCEPT !.shown = w.asset] BY <1>4, <2>2, <2>3, <3>2
    <3> QED BY <2>4, <3>1, <3>2
  <2>6. ReuseTyped' BY <1>3, <2>1, <2>5, TakenCalls DEF ReuseInv, ReuseTyped
  <2>7. AuditFits' BY <1>1, <2>1, <2>3, TakenCalls, SameAudit
  <2> QED BY <1>5, <1>6, <2>5, <2>6, <2>7, TakenCalls DEF ReuseInv
<1>8. CASE TakeAudit(w)
  <2>1. UNCHANGED <<looked, auditLook>> BY <1>8 DEF TakeAudit
  <2>2. w.shot \in Owners /\ w.shot = auditAt /\ (w.got = "answer" => Fair(w.shot, w.asset))
    BY <1>2, <1>8 DEF TakeAudit, ReuseCallFits
  <2>3. \/ w.got = "answer" /\ audit' = [shot |-> w.shot, primary |-> w.asset]
        \/ audit' = Blank
    BY <1>8 DEF TakeAudit
  <2>4. audit' \in ReuseShots \cup {Blank} BY <1>4, <2>2, <2>3 DEF ReuseShots
  <2>5. ReuseTyped' BY <1>3, <2>1, <2>4, TakenCalls DEF ReuseInv, ReuseTyped
  <2>6. auditAt # Off BY <2>2, OwnersAreNot
  <2>7. AuditFits'
    <3>1. audit' # Blank => Fair(audit'.shot, audit'.primary) /\ audit'.shot = auditAt
      BY <2>2, <2>3
    <3> QED BY <2>6, <3>1 DEF AuditFits
  <2> QED BY <1>5, <1>6, <2>1, <2>5, <2>7, TakenCalls DEF ReuseInv
<1>9. CASE TakeAuditLook(w)
  <2>1. UNCHANGED <<looked, audit>> /\ w.kind = "auditLook" BY <1>9 DEF TakeAuditLook
  <2>2. auditLook' \in Assets \cup {Blank} BY <1>4, <1>9 DEF TakeAuditLook
  <2>3. ReuseTyped' BY <1>3, <2>1, <2>2, TakenCalls DEF ReuseInv, ReuseTyped
  <2>4. AuditFits' BY <1>1, <2>1, TakenCalls, SameAudit
  <2> QED BY <1>5, <1>6, <2>1, <2>3, <2>4, TakenCalls DEF ReuseInv
<1> QED BY <1>1, <1>7, <1>8, <1>9

-----------------------------------------------------------------------------
LEMMA ReuseBegins ==
    ASSUME ReuseInit
    PROVE  ReuseInv
<1>1. /\ reuseAt = [shot |-> Off, source |-> Off] /\ reuseShot = Blank
      /\ reusableAssets.assets = {} /\ reuseError = FALSE /\ reuseWork = <<>>
      /\ looked = [asked |-> Blank, shown |-> Blank] /\ auditAt = Off /\ audit = Blank
      /\ auditLook = Blank /\ primary = [o \in Owners |-> Blank] /\ refused = FALSE
      /\ reuseSlips = {}
  BY DEF ReuseInit, NoLibrary, NotLooking
<1>2. <<>> \in Seq(ReuseCalls) /\ DOMAIN <<>> = {} BY EmptySeq
<1>3. Range(<<>>) = {} BY <1>2 DEF Range
<1>4. ReuseTyped BY <1>1, <1>2 DEF ReuseTyped, Places
<1>5. \A k : AtMostOne(<<>>, k) BY <1>2 DEF AtMostOne
<1>6. AtMostOneOf(<<>>, ShotCalls) BY <1>2 DEF AtMostOneOf
<1> QED BY <1>1, <1>3, <1>4, <1>5, <1>6 DEF ReuseInv, WaitsForOne, ShowsItsShot, AuditFits, Fair

LEMMA ReuseKeeps ==
    ASSUME ReuseInv, [ReuseNext]_reuseVars
    PROVE  ReuseInv'
<1>1. CASE UNCHANGED reuseVars
  <2>1. UNCHANGED <<reuseAt, reuseShot, reusableAssets, reuseError, reuseWork, looked, auditAt,
                    audit, auditLook, primary, refused, reuseSlips>>
    BY <1>1 DEF reuseVars
  <2>2. ReuseTyped' BY <2>1 DEF ReuseInv, ReuseTyped
  <2>3. \A w \in Range(reuseWork) : ReuseCallFits(w)' BY <2>1, ReuseFacts, FitsStill
  <2>4. WaitsForOne' /\ ShowsItsShot' /\ AuditFits' BY <2>1, SameShot, SameAudit
  <2> QED BY <2>1, <2>2, <2>3, <2>4 DEF ReuseInv
<1>2. CASE ReuseNext
  <2>1. ASSUME NEW shot \in Owners, NEW source \in Owners \cup {Off}, GoToReuse(shot, source)
        PROVE  ReuseInv'
    BY <2>1, GoToReuseKeeps DEF Places
  <2>2. CASE LeaveReuse BY <2>2, LeaveReuseKeeps
  <2>3. ASSUME NEW a \in Assets,
               \/ handleApplyReuse(a) \/ OpenReuseProvenance(a)
               \/ \E shot \in Owners : OtherPrimary(shot, a)
        PROVE  ReuseInv'
    BY <2>3, handleApplyReuseKeeps, OpenReuseProvenanceKeeps, OtherPrimaryKeeps
  <2>4. CASE resetAssetProvenance BY <2>4, ResetProvenanceKeeps
  <2>5. ASSUME NEW shot \in Owners \cup {Off}, GoToAudit(shot) PROVE ReuseInv'
    BY <2>5, GoToAuditKeeps DEF Places
  <2>6. CASE OpenAuditProvenance \/ handleCloseAssetProvenance
    BY <2>6, OpenAuditProvenanceKeeps, CloseProvenanceKeeps
  <2>7. ASSUME NEW i \in DOMAIN reuseWork, ServeReuse(i) PROVE ReuseInv'
    BY <2>7, ServeReuseKeeps
  <2>8. ASSUME NEW i \in DOMAIN reuseWork, TakeReuse(i) PROVE ReuseInv'
    <3>1. /\ reuseWork' = RemoveAt(reuseWork, i)
          /\ UNCHANGED <<reuseAt, auditAt, primary, refused>>
          /\ \/ TakeReuseLoad(reuseWork[i]) \/ TakeApply(reuseWork[i]) \/ TakeLook(reuseWork[i])
             \/ TakeAudit(reuseWork[i]) \/ TakeAuditLook(reuseWork[i])
      BY <2>8 DEF TakeReuse
    <3> QED BY <3>1, TakeReuseLoadKeeps, TakeApplyKeeps, TakeOtherKeeps
  <2> QED BY <1>2, <2>1, <2>2, <2>3, <2>4, <2>5, <2>6, <2>7, <2>8 DEF ReuseNext
<1> QED BY <1>1, <1>2

(* The inductive invariant of the reuse pages: each call is about what its *)
(* page is open on, and an open page waits for one answer about its shot.  *)
THEOREM ReuseInvariance == ReuseSpec => []ReuseInv
<1>1. ReuseInit => ReuseInv BY ReuseBegins
<1>2. ReuseInv /\ [ReuseNext]_reuseVars => ReuseInv' BY ReuseKeeps
<1> QED BY <1>1, <1>2, PTL DEF ReuseSpec

(* The two pages, their calls and the server's primaries are always what   *)
(* the code can build.                                                     *)
THEOREM ReuseTypes == ReuseSpec => []ReuseTypeOK
<1>1. ReuseInv => ReuseTypeOK BY DEF ReuseInv, ReuseTyped, ReuseTypeOK, ReuseShots
<1> QED BY <1>1, ReuseInvariance, PTL

(* A quiet reuse page shows the shot of its route with the server's        *)
(* primary asset, but for the slips named; a quiet audit is of its shot;   *)
(* and the rules of the page, the audit and the server agree.              *)
THEOREM ReuseShowsTheShot == ReuseSpec => []ReuseShowsItsShot
<1>1. ReuseInv => ReuseShowsItsShot
  <2>1. SUFFICES ASSUME ReuseInv, reuseWork = <<>> PROVE ReuseShowsItsShot
    BY DEF ReuseShowsItsShot
  <2>2. DOMAIN reuseWork = {} BY <2>1, EmptySeq
  <2>3. Range(reuseWork) = {} /\ NoneOf(reuseWork, "audit") BY <2>2 DEF Range, NoneOf
  <2>4. ASSUME "shot" \notin reuseSlips
        PROVE  \/ reuseShot = IF reuseAt.shot = Off THEN Blank
                              ELSE [shot |-> reuseAt.shot, primary |-> primary[reuseAt.shot]]
               \/ reuseShot = Blank /\ reuseError
    BY <2>1, <2>3, <2>4 DEF ReuseInv, ShowsItsShot
  <2>5. audit # Blank => audit.shot = auditAt BY <2>1, <2>3 DEF ReuseInv, AuditFits
  <2>6. ASSUME audit # Blank, audit.primary # Blank
        PROVE  \/ audit.primary.project = audit.shot
               \/ decideAdminReuseEligibility(audit.shot, audit.primary)
    BY <2>1, <2>6 DEF ReuseInv, AuditFits, Fair, SelectPrimaryAsset, EvaluateAssetReusePolicy,
                      decideAdminReuseEligibility
  <2> QED BY <2>1, <2>4, <2>5, <2>6 DEF ReuseShowsItsShot, ReuseInv
<1> QED BY <1>1, ReuseInvariance, PTL

-----------------------------------------------------------------------------
(* The draft editors (DraftEditor).                                        *)

Titles == Locales \cup {Untitled, ServerTitle}
Offers == [of : Owners \cup {Blank}, in : Locales \cup {Untitled}]
JobRecords ==
    [kind : {"load", "save"}, of : Owners, in : Locales,
     state : {"sent", "done", "failed"}, items : Seq(Items), drafts : Seq(Items),
     options : Offers]

(* The items are numbered in the order they have.                          *)
Ordered(items) == \A i \in DOMAIN items : items[i].sequence = i

AllTitled(items, title) == \A i \in DOMAIN items : items[i].title = title

(* What a load or a save is and carries, on project p in language l.       *)
JobFits(j, p, l) ==
    /\ Ordered(j.items)
    /\ j.kind = "load" => j.of = p /\ j.in = l
    /\ j.kind = "load" /\ j.state = "done" =>
          /\ AllTitled(j.items, l)
          /\ j.options = NoOptions \/ (j.options.of = p /\ j.options.in = l)
    /\ j.kind = "save" => Made(j.items) = Made(j.drafts)
    /\ j.kind = "save" /\ j.state = "done" => AllTitled(j.items, ServerTitle)

(* A function over the places of a sequence is a sequence.                 *)
LEMMA Mapped ==
    ASSUME NEW S, NEW T, NEW s \in Seq(S), NEW f, f = [i \in DOMAIN s |-> f[i]],
           \A i \in DOMAIN s : f[i] \in T
    PROVE  f \in Seq(T) /\ DOMAIN f = DOMAIN s /\ Len(f) = Len(s)
<1>1. Len(s) \in Nat /\ DOMAIN s = 1..Len(s) BY LenProperties
<1>2. f \in [1..Len(s) -> T] BY <1>1
<1>3. f \in Seq(T) BY <1>1, <1>2, SeqDef
<1>4. Len(f) \in Nat /\ DOMAIN f = 1..Len(f) BY <1>3, LenProperties
<1>5. DOMAIN f = 1..Len(s) BY <1>2
<1>6. Len(f) = Len(s)
  <2>1. 1..Len(f) = 1..Len(s) BY <1>4, <1>5
  <2> HIDE <1>5
  <2>2. CASE Len(f) < Len(s)
    <3>1. Len(s) \in 1..Len(s) /\ Len(s) \notin 1..Len(f) BY <1>1, <1>4, <2>2
    <3> QED BY <2>1, <3>1
  <2>3. CASE Len(s) < Len(f)
    <3>1. Len(f) \in 1..Len(f) /\ Len(f) \notin 1..Len(s) BY <1>1, <1>4, <2>3
    <3> QED BY <2>1, <3>1
  <2> QED BY <1>1, <1>4, <2>2, <2>3
<1> QED BY <1>1, <1>3, <1>5, <1>6

LEMMA ItemOf ==
    ASSUME NEW s \in Seq(Items), NEW i \in DOMAIN s
    PROVE  s[i] \in Items /\ i \in Nat
<1>1. DOMAIN s = 1..Len(s) /\ Len(s) \in Nat BY LenProperties
<1> QED BY <1>1, ElementOfSeq

LEMMA ItemIs ==
    ASSUME NEW x \in Items
    PROVE  /\ x = [id |-> x.id, home |-> x.home, title |-> x.title, value |-> x.value,
                   sequence |-> x.sequence]
           /\ x.id \in {"item", "draft"} \X Nat /\ x.home \in Owners /\ x.title \in Titles
           /\ x.value \in Nat /\ x.sequence \in Nat
BY DEF Items, Titles

(* Items that only differ in ids, titles and numbers are the same work.    *)
LEMMA SameWork ==
    ASSUME NEW s, NEW t, DOMAIN t = DOMAIN s,
           \A i \in DOMAIN s : t[i].home = s[i].home /\ t[i].value = s[i].value
    PROVE  Made(t) = Made(s)
BY DEF Made

LEMMA Built ==
    ASSUME NEW s \in Seq(Items), NEW t, t = buildOrderedDraftItems(s)
    PROVE  /\ t \in Seq(Items) /\ DOMAIN t = DOMAIN s /\ Ordered(t) /\ Made(t) = Made(s)
           /\ \A i \in DOMAIN s : t[i].home = s[i].home /\ t[i].title = s[i].title
           /\ Ordered(s) => t = s
<1>1. /\ t = [i \in DOMAIN s |-> [s[i] EXCEPT !.sequence = i]]
      /\ t = [i \in DOMAIN s |-> t[i]]
      /\ \A i \in DOMAIN s : t[i] = [s[i] EXCEPT !.sequence = i]
  BY DEF buildOrderedDraftItems
<1>2. ASSUME NEW i \in DOMAIN s
      PROVE  /\ t[i] \in Items /\ t[i].sequence = i
             /\ t[i].home = s[i].home /\ t[i].value = s[i].value /\ t[i].title = s[i].title
             /\ s[i].sequence = i => t[i] = s[i]
  <2>1. PICK x : x = s[i] OBVIOUS
  <2>2. x \in Items /\ i \in Nat BY <2>1, ItemOf
  <2>3. x = [id |-> x.id, home |-> x.home, title |-> x.title, value |-> x.value,
             sequence |-> x.sequence]
    BY <2>2, ItemIs
  <2>4. PICK y : y = [x EXCEPT !.sequence = i] OBVIOUS
  <2>5. y = [id |-> x.id, home |-> x.home, title |-> x.title, value |-> x.value,
             sequence |-> i]
    BY <2>3, <2>4
  <2>6. y \in Items BY <2>2, <2>5, ItemIs DEF Items, Titles
  <2>7. t[i] = y BY <1>1, <2>1, <2>4
  <2>8. y.sequence = i /\ y.home = x.home /\ y.value = x.value /\ y.title = x.title BY <2>5
  <2>9. x.sequence = i => y = x BY <2>3, <2>5
  <2> QED BY <2>1, <2>6, <2>7, <2>8, <2>9
<1>3. t \in Seq(Items) /\ DOMAIN t = DOMAIN s /\ Len(t) = Len(s) BY <1>1, <1>2, Mapped
<1>4. Made(t) = Made(s) BY <1>2, <1>3, SameWork
<1>5. ASSUME Ordered(s) PROVE t = s
  <2>1. \A i \in 1..Len(t) : t[i] = s[i]
    <3>1. DOMAIN t = 1..Len(t) BY <1>3, LenProperties
    <3> QED BY <1>2, <1>3, <1>5, <3>1 DEF Ordered
  <2> QED BY <1>3, <2>1, SeqEqual
<1> QED BY <1>2, <1>3, <1>4, <1>5 DEF Ordered

(* Sorting numbered items changes nothing.                                 *)
LEMMA Normalized ==
    ASSUME NEW s \in Seq(Items), Ordered(s)
    PROVE  /\ normalizePreviewWorkbench(s) = s
           /\ seedDraftTracks(normalizeAudioWorkbench(s)) = s
<1>1. Len(s) \in Nat /\ DOMAIN s = 1..Len(s) BY LenProperties
<1>2. ASSUME NEW i \in DOMAIN s PROVE Place(s, i) = i
  <2>1. PICK earlier :
           earlier = {j \in DOMAIN s :
                        \/ s[j].sequence < s[i].sequence
                        \/ s[j].sequence = s[i].sequence /\ j <= i}
    OBVIOUS
  <2>2. \A j \in DOMAIN s : s[j].sequence = j BY DEF Ordered
  <2>3. earlier = 1..i BY <1>1, <2>1, <2>2
  <2>4. Place(s, i) = Cardinality(earlier) BY <2>1 DEF Place
  <2>5. i \in Int /\ 1 \in Int /\ ~(1 > i) /\ i - 1 + 1 = i BY <1>1
  <2>6. Cardinality(1..i) = i BY <2>5, FS_Interval
  <2> QED BY <2>3, <2>4, <2>6
<1>3. PICK u : u = InSequence(s) OBVIOUS
<1>4. u = [k \in DOMAIN s |-> s[CHOOSE i \in DOMAIN s : Place(s, i) = k]] BY <1>3 DEF InSequence
<1>5. ASSUME NEW k \in DOMAIN s PROVE u[k] = s[k]
  <2>1. PICK i : i = CHOOSE h \in DOMAIN s : Place(s, h) = k OBVIOUS
  <2>2. i \in DOMAIN s /\ Place(s, i) = k BY <1>2, <2>1
  <2>3. i = k BY <1>2, <2>2
  <2> QED BY <1>4, <2>1, <2>3
<1>6. u = s
  <2>1. u = [k \in DOMAIN s |-> u[k]] BY <1>4
  <2>2. \A k \in DOMAIN s : u[k] \in Items BY <1>5, ItemOf
  <2>3. u \in Seq(Items) /\ DOMAIN u = DOMAIN s /\ Len(u) = Len(s) BY <2>1, <2>2, Mapped
  <2>4. \A k \in 1..Len(u) : u[k] = s[k] BY <1>1, <1>5, <2>3
  <2> QED BY <2>3, <2>4, SeqEqual
<1>7. buildOrderedDraftItems(s) = s BY Built
<1>8. normalizePreviewWorkbench(s) = s BY <1>3, <1>6, <1>7 DEF normalizePreviewWorkbench
<1> QED BY <1>7, <1>8 DEF normalizeAudioWorkbench, seedDraftTracks, resequenceAudioClips

-----------------------------------------------------------------------------
(* The title an item gets: of a localized item of its shot, of the option  *)
(* of its shot, or its own.                                                *)
TitleFrom(title, item, localized, offered) ==
    \/ \E k \in DOMAIN localized : localized[k].home = item.home /\ localized[k].title = title
    \/ offered.of = item.home /\ title = offered.in
    \/ /\ offered.of # item.home
       /\ title = item.title

LEMMA FirstOf ==
    ASSUME NEW T, T \subseteq Nat, T # {}
    PROVE  (CHOOSE i \in T : \A j \in T : i <= j) \in T
<1>1. IsWellFoundedOn(OpToRel(<, Nat), Nat) BY Zenon, NatLessThanWellFounded
<1>2. PICK x \in T : \A y \in T : ~(<<y, x>> \in OpToRel(<, Nat)) BY Zenon, <1>1, WFMin
<1>3. \A y \in T : ~(y < x) BY <1>2 DEF OpToRel
<1>4. \A y \in T : x <= y BY <1>3
<1> QED BY <1>4

LEMMA TitleIs ==
    ASSUME NEW x \in Items, NEW l \in Seq(Items), NEW o \in Offers
    PROVE  TitleIn(x, l, o) \in Titles /\ TitleFrom(TitleIn(x, l, o), x, l, o)
<1> DEFINE sameItem == {i \in DOMAIN l : l[i].id = x.id /\ l[i].home = x.home}
           sameShot == {i \in DOMAIN l : l[i].home = x.home}
           from == IF sameItem # {} THEN sameItem ELSE sameShot
           k == CHOOSE i \in from : \A j \in from : i <= j
           first == IF from = {} THEN Untitled ELSE l[k].title
<1>1. PICK t : t = TitleIn(x, l, o) BY Zenon
<1>2. t = CASE first # Untitled -> first
            [] first = Untitled /\ o.of = x.home -> o.in
            [] OTHER -> x.title
  BY <1>1 DEF TitleIn
<1>3. first = IF from = {} THEN Untitled ELSE l[k].title OBVIOUS
<1>5. k = CHOOSE i \in from : \A j \in from : i <= j OBVIOUS
<1>4. from \subseteq DOMAIN l /\ \A i \in from : l[i].home = x.home OBVIOUS
<1> HIDE DEF first, k, from, sameItem, sameShot
<1>6. from # {} => k \in DOMAIN l /\ l[k].home = x.home /\ l[k].title \in Titles
  <2>1. \A i \in DOMAIN l : i \in Nat /\ l[i] \in Items BY ItemOf
  <2>2. ASSUME from # {} PROVE k \in from BY <1>4, <1>5, <2>1, <2>2, FirstOf
  <2> QED BY <1>4, <2>1, <2>2 DEF Items, Titles
<1>10. t \in Titles /\ TitleFrom(t, x, l, o)
  <2>1. o.in \in Titles /\ x.title \in Titles BY DEF Offers, Titles, Items
  <2>2. CASE first # Untitled
    <3>1. t = first /\ from # {} /\ first = l[k].title BY <1>2, <1>3, <2>2
    <3> QED BY <1>6, <3>1 DEF TitleFrom
  <2>3. CASE first = Untitled /\ o.of = x.home
    <3>1. t = o.in BY <1>2, <2>3
    <3> QED BY <2>1, <2>3, <3>1 DEF TitleFrom
  <2>4. CASE first = Untitled /\ o.of # x.home
    <3>1. t = x.title BY <1>2, <2>4
    <3> QED BY <2>1, <2>4, <3>1 DEF TitleFrom
  <2> QED BY <2>2, <2>3, <2>4
<1> QED BY <1>1, <1>10

TitlesFrom(t, s, localized, offered) ==
    \A i \in DOMAIN s : /\ t[i].home = s[i].home
                        /\ TitleFrom(t[i].title, s[i], localized, offered)

(* Hydrating a draft changes nothing but its titles.                       *)
LEMMA Hydrated ==
    ASSUME NEW s \in Seq(Items), NEW l \in Seq(Items), NEW o \in Offers,
           NEW t, t = hydratePreviewDraftItemsFromLocale(s, l, o)
    PROVE  /\ t \in Seq(Items) /\ DOMAIN t = DOMAIN s /\ Ordered(t) /\ Made(t) = Made(s)
           /\ TitlesFrom(t, s, l, o)
<1>1. PICK u : u = [i \in DOMAIN s |-> [s[i] EXCEPT !.title = TitleIn(s[i], l, o)]] OBVIOUS
<1>2. ASSUME NEW i \in DOMAIN s
      PROVE  /\ u[i] \in Items /\ u[i].home = s[i].home /\ u[i].value = s[i].value
             /\ TitleFrom(u[i].title, s[i], l, o)
  <2>1. PICK x : x = s[i] OBVIOUS
  <2>2. x \in Items BY <2>1, ItemOf
  <2>3. x = [id |-> x.id, home |-> x.home, title |-> x.title, value |-> x.value,
             sequence |-> x.sequence]
    BY <2>2, ItemIs
  <2>4. PICK title : title = TitleIn(x, l, o) OBVIOUS
  <2>5. title \in Titles /\ TitleFrom(title, x, l, o) BY <2>2, <2>4, TitleIs
  <2>6. PICK y : y = [x EXCEPT !.title = title] OBVIOUS
  <2>7. y = [id |-> x.id, home |-> x.home, title |-> title, value |-> x.value,
             sequence |-> x.sequence]
    BY <2>3, <2>6
  <2>8. y \in Items BY <2>2, <2>5, <2>7, ItemIs DEF Items, Titles
  <2>9. u[i] = y BY <1>1, <2>1, <2>4, <2>6
  <2>10. y.home = x.home /\ y.value = x.value /\ y.title = title BY <2>7
  <2> QED BY <2>1, <2>5, <2>8, <2>9, <2>10
<1>3. u = [i \in DOMAIN s |-> u[i]] BY <1>1
<1>4. u \in Seq(Items) /\ DOMAIN u = DOMAIN s BY <1>2, <1>3, Mapped
<1>5. Made(u) = Made(s) BY <1>2, <1>4, SameWork
<1>6. t = buildOrderedDraftItems(u) BY <1>1 DEF hydratePreviewDraftItemsFromLocale
<1>7. /\ t \in Seq(Items) /\ DOMAIN t = DOMAIN u /\ Ordered(t) /\ Made(t) = Made(u)
      /\ \A i \in DOMAIN u : t[i].home = u[i].home /\ t[i].title = u[i].title
  BY <1>4, <1>6, Built
<1> QED BY <1>2, <1>4, <1>5, <1>7 DEF TitlesFrom

-----------------------------------------------------------------------------
EditorTyped ==
    /\ editor \in {"preview", "audio"}
    /\ project \in Owners \cup {Off} /\ locale \in Locales
    /\ workbench \in Owners \cup {Blank} /\ hydrated \in Owners \cup {Off}
    /\ drafts \in Seq(Items) /\ saved \in [Owners -> Seq(Items)] /\ options \in Offers
    /\ draftId \in Nat /\ nextItemId \in Nat
    /\ mishaps \subseteq Replacements \cup {"untranslated"}
    /\ jobs \in Seq(JobRecords)

Numbers == Ordered(drafts) /\ \A p \in Owners : Ordered(saved[p])

OneLoadRuns == AtMostOne(jobs, "load")
JobsFit == \A j \in Range(jobs) : JobFits(j, project, locale)

(* Unless a load of the page or of its options is on its way, the titles   *)
(* of the project's shots are in the page's language.                      *)
TitleFits(title, home, p, l) == home = p /\ title \in Locales => title = l

Titled ==
    IsPreview /\ NoneOf(jobs, "load") /\ "untranslated" \notin mishaps =>
        /\ \A i \in DOMAIN drafts :
              TitleFits(drafts[i].title, drafts[i].home, project, locale)
        /\ TitleFits(options.in, options.of, project, locale)

(* What a page that is not empty shows is what the user made of it; an     *)
(* empty one has no items.                                                 *)
WorkKept ==
    mishaps \cap Replacements = {} /\ (workbench # Blank \/ wanted # Blank) =>
        Made(drafts) = wanted

DraftCleared == workbench = Blank => drafts = <<>>

EditorInv ==
    /\ EditorTyped /\ Numbers /\ OneLoadRuns /\ JobsFit
    /\ Titled /\ WorkKept /\ DraftCleared

(* The draft does not change.                                              *)
SamePage == UNCHANGED <<editor, workbench, drafts, hydrated, options, wanted, mishaps>>

LEMMA EmptyDraft ==
    /\ <<>> \in Seq(Items) /\ Ordered(<<>>) /\ Made(<<>>) = <<>> /\ DOMAIN <<>> = {}
<1>1. <<>> \in Seq(Items) /\ DOMAIN <<>> = {} OBVIOUS
<1>2. Made(<<>>) = <<>> BY DEF Made
<1> QED BY <1>1, <1>2 DEF Ordered

LEMMA NoOptionsIs ==
    /\ NoOptions \in Offers /\ NoOptions.of = Blank /\ NoOptions.in = Untitled
BY DEF NoOptions, Offers

LEMMA DomainOfNone == \A k : NoneOf(<<>>, k) /\ AtMostOne(<<>>, k)
BY DEF NoneOf, AtMostOne

-----------------------------------------------------------------------------
(* The job of a load, or of a save of items.                               *)
JobOf(kind, p, l, items, shown, offered) ==
    [kind |-> kind, of |-> p, in |-> l, state |-> "sent", items |-> items,
     drafts |-> shown, options |-> offered]

LEMMA JobIs ==
    ASSUME NEW kind \in {"load", "save"}, NEW p \in Owners, NEW items \in Seq(Items),
           NEW l \in Locales, NEW shown \in Seq(Items), NEW offered \in Offers,
           NEW j, j = JobOf(kind, p, l, items, shown, offered)
    PROVE  /\ j \in JobRecords /\ j.kind = kind /\ j.of = p /\ j.in = l /\ j.state = "sent"
           /\ j.items = items /\ j.drafts = shown /\ j.options = offered
BY DEF JobOf, JobRecords

(* A load replaces the one that runs, as the project or the language of    *)
(* the page changes.                                                       *)
LEMMA Reloads ==
    ASSUME EditorInv, NEW p \in Owners, NEW l \in Locales,
           NEW j, j = JobOf("load", p, l, <<>>, drafts, options),
           jobs' = Append(Saves, j), project' = p, locale' = l,
           SamePage, UNCHANGED <<draftId, saved, nextItemId>>
    PROVE  EditorInv'
<1> USE DEF EditorInv
<1>1. PICK t \in Seq(JobRecords) : t = jobs BY DEF EditorTyped
<1>2. PICK u \in Seq(JobRecords) : u = Cancel(t, "load") BY LoadCancelled
<1>3. AtMostOne(t, "load") BY <1>1 DEF OneLoadRuns
<1>4. Range(u) \subseteq Range(t) /\ NoneOf(u, "load") /\ AtMostOne(u, "load")
  BY <1>2, <1>3, LoadCancelled
<1>5. /\ j \in JobRecords /\ j.kind = "load" /\ j.of = p /\ j.in = l /\ j.state = "sent"
      /\ j.items = <<>>
  <2>1. PICK shown \in Seq(Items) : shown = drafts BY DEF EditorTyped
  <2>2. PICK offered \in Offers : offered = options BY DEF EditorTyped
  <2>3. PICK none \in Seq(Items) : none = <<>> BY EmptyDraft
  <2>4. j = JobOf("load", p, l, none, shown, offered) BY <2>1, <2>2, <2>3
  <2>5. PICK kind \in {"load", "save"} : kind = "load" OBVIOUS
  <2>6. j = JobOf(kind, p, l, none, shown, offered) BY <2>4, <2>5
  <2>7. /\ j \in JobRecords /\ j.kind = kind /\ j.of = p /\ j.in = l /\ j.state = "sent"
        /\ j.items = none /\ j.drafts = shown /\ j.options = offered
    BY ONLY <2>6, JobIs
  <2> QED BY <2>3, <2>5, <2>7
<1>6. PICK v : v = Append(u, j) OBVIOUS
<1>7. /\ v \in Seq(JobRecords) /\ Range(v) = Range(u) \cup {j} /\ AtMostOne(v, "load")
      /\ ~NoneOf(v, "load")
  <2>1. /\ v \in Seq(JobRecords) /\ Range(v) = Range(u) \cup {j}
        /\ \A k : NoneOf(v, k) <=> NoneOf(u, k) /\ j.kind # k
        /\ \A k : AtMostOne(u, k) /\ (j.kind # k \/ NoneOf(u, k)) => AtMostOne(v, k)
    BY <1>4, <1>5, <1>6, TaskBegins
  <2> QED BY <1>4, <1>5, <2>1
<1>8. jobs' = v BY <1>1, <1>2, <1>6 DEF Saves
<1>9. EditorTyped' BY <1>7, <1>8 DEF EditorTyped, SamePage
<1>10. Numbers' BY DEF Numbers, SamePage
<1>11. OneLoadRuns' BY <1>7, <1>8 DEF OneLoadRuns
<1>12. JobsFit'
  <2>1. \A x \in Range(u) : x.kind # "load" BY <1>4 DEF NoneOf, Range
  <2>2. \A x \in Range(u) : JobFits(x, project, locale) BY <1>1, <1>4 DEF JobsFit
  <2>3. \A x \in Range(u) : JobFits(x, p, l) BY <2>1, <2>2 DEF JobFits
  <2>4. JobFits(j, p, l) BY <1>5, EmptyDraft DEF JobFits
  <2> QED BY <1>7, <1>8, <2>3, <2>4 DEF JobsFit
<1>13. Titled' BY <1>7, <1>8 DEF Titled
<1>14. WorkKept' /\ DraftCleared' BY DEF WorkKept, DraftCleared, SamePage
<1> QED BY <1>9, <1>10, <1>11, <1>12, <1>13, <1>14

LEMMA OpenProjectKeeps ==
    ASSUME EditorInv, NEW p \in Owners, OpenProject(p)
    PROVE  EditorInv'
<1>1. PICK j : j = JobOf("load", p, locale, <<>>, drafts, options) OBVIOUS
<1>2. j = Job("load", p, <<>>) BY <1>1 DEF Job, JobOf
<1>3. /\ jobs' = Append(Saves, j) /\ project' = p /\ locale' = locale /\ SamePage
      /\ UNCHANGED <<draftId, saved, nextItemId>>
  BY <1>2 DEF OpenProject, SamePage
<1>4. locale \in Locales BY DEF EditorInv, EditorTyped
<1> QED BY <1>1, <1>3, <1>4, Reloads

LEMMA SwitchLocaleKeeps ==
    ASSUME EditorInv, NEW l \in Locales, SwitchLocale(l)
    PROVE  EditorInv'
<1>1. PICK p : p = project OBVIOUS
<1>2. p \in Owners BY <1>1 DEF SwitchLocale, EditorInv, EditorTyped
<1>3. PICK j : j = JobOf("load", p, l, <<>>, drafts, options) OBVIOUS
<1>5. j = [Job("load", p, <<>>) EXCEPT !.in = l] BY <1>3 DEF Job, JobOf
<1>4. /\ jobs' = Append(Saves, j) /\ project' = p /\ locale' = l /\ SamePage
      /\ UNCHANGED <<draftId, saved, nextItemId>>
  BY <1>1, <1>5 DEF SwitchLocale, SamePage
<1> QED BY <1>2, <1>3, <1>4, Reloads

LEMMA CloseEditorKeeps ==
    ASSUME EditorInv, CloseEditor
    PROVE  EditorInv'
<1> USE DEF EditorInv
<1>1. PICK t \in Seq(JobRecords) : t = jobs BY DEF EditorTyped
<1>2. PICK u : u = Cancel(t, "load") OBVIOUS
<1>3. AtMostOne(t, "load") BY <1>1 DEF OneLoadRuns
<1>4. u \in Seq(JobRecords) /\ Range(u) \subseteq Range(t) /\ NoneOf(u, "load")
      /\ AtMostOne(u, "load")
  BY <1>2, <1>3, LoadCancelled
<1>5. /\ jobs' = u /\ project' = Off /\ workbench' = Blank /\ drafts' = <<>>
      /\ hydrated' = Off /\ options' = NoOptions /\ wanted' = <<>> /\ mishaps' = {}
      /\ UNCHANGED <<editor, locale, draftId, saved, nextItemId>>
  BY <1>1, <1>2 DEF CloseEditor, Saves
<1>6. EditorTyped' BY <1>4, <1>5, EmptyDraft, NoOptionsIs DEF EditorTyped
<1>7. Numbers' BY <1>5, EmptyDraft DEF Numbers
<1>8. OneLoadRuns' BY <1>4, <1>5 DEF OneLoadRuns
<1>9. JobsFit'
  <2>1. \A x \in Range(u) : x.kind # "load" BY <1>4 DEF NoneOf, Range
  <2>2. \A x \in Range(u) : JobFits(x, project, locale) BY <1>1, <1>4 DEF JobsFit
  <2>3. \A x \in Range(u) : JobFits(x, Off, locale) BY <2>1, <2>2 DEF JobFits
  <2> QED BY <1>5, <2>3 DEF JobsFit
<1>10. Titled'
  BY <1>5, EmptyDraft, NoOptionsIs, LocalesAssumption DEF Titled, TitleFits
<1>11. WorkKept' /\ DraftCleared' BY <1>5, EmptyDraft DEF WorkKept, DraftCleared
<1> QED BY <1>6, <1>7, <1>8, <1>9, <1>10, <1>11

-----------------------------------------------------------------------------
(* A title of an edited draft is one that was shown of the item's shot, or *)
(* that of its option, or in no language.                                  *)
TitleKnown(x) ==
    \/ x.title \notin Locales
    \/ \E k \in DOMAIN drafts : drafts[k].home = x.home /\ drafts[k].title = x.title
    \/ options.of = x.home /\ options.in = x.title

LEMMA EditKeeps ==
    ASSUME EditorInv, NEW items \in Seq(Items), Edit(items), draftId' \in Nat,
           workbench # Blank, \A i \in DOMAIN items : TitleKnown(items[i])
    PROVE  EditorInv'
<1> USE DEF EditorInv
<1>1. PICK t \in Seq(Items) : t = buildOrderedDraftItems(items) BY Built
<1>2. /\ DOMAIN t = DOMAIN items /\ Ordered(t) /\ Made(t) = Made(items)
      /\ \A i \in DOMAIN items : t[i].home = items[i].home /\ t[i].title = items[i].title
  BY ONLY <1>1, Built
<1>3. /\ drafts' = t /\ wanted' = Made(items) /\ mishaps' = mishaps \ Replacements
      /\ editor' = editor /\ project' = project /\ locale' = locale
      /\ workbench' = workbench /\ hydrated' = hydrated /\ options' = options
      /\ jobs' = jobs /\ saved' = saved /\ nextItemId' = nextItemId
  BY <1>1 DEF Edit
<1>4. EditorTyped' BY <1>3 DEF EditorTyped
<1>5. Numbers' BY <1>2, <1>3 DEF Numbers
<1>6. OneLoadRuns' /\ JobsFit' BY <1>3 DEF OneLoadRuns, JobsFit
<1>7. Titled'
  <2>1. SUFFICES ASSUME IsPreview, NoneOf(jobs, "load"), "untranslated" \notin mishaps'
                 PROVE  /\ \A i \in DOMAIN t : TitleFits(t[i].title, t[i].home, project, locale)
                        /\ TitleFits(options.in, options.of, project, locale)
    BY <1>3 DEF Titled, IsPreview
  <2>2. "untranslated" \notin mishaps BY <1>3, <2>1 DEF Replacements
  <2>3. /\ \A i \in DOMAIN drafts :
              TitleFits(drafts[i].title, drafts[i].home, project, locale)
        /\ TitleFits(options.in, options.of, project, locale)
    BY <2>1, <2>2 DEF Titled
  <2>4. ASSUME NEW i \in DOMAIN t PROVE TitleFits(t[i].title, t[i].home, project, locale)
    <3>1. TitleKnown(items[i]) /\ t[i].home = items[i].home /\ t[i].title = items[i].title
      BY <1>2
    <3> QED BY <2>3, <3>1 DEF TitleKnown, TitleFits
  <2> QED BY <2>3, <2>4
<1>8. WorkKept' /\ DraftCleared' BY <1>2, <1>3 DEF WorkKept, DraftCleared
<1> QED BY <1>4, <1>5, <1>6, <1>7, <1>8

(* Items of the draft, in whatever order and with whatever values.         *)
LEMMA ShownIsKnown ==
    ASSUME NEW x, NEW k \in DOMAIN drafts,
           x.home = drafts[k].home, x.title = drafts[k].title
    PROVE  TitleKnown(x)
BY DEF TitleKnown

LEMMA AddKeeps ==
    ASSUME EditorInv, NEW home \in Owners, NEW title \in Titles, workbench # Blank,
           title \notin Locales \/ (options.of = home /\ options.in = title),
           Add(NewItem(home, title))
    PROVE  EditorInv'
<1>1. PICK s \in Seq(Items) : s = drafts BY DEF EditorInv, EditorTyped
<1>2. PICK x : x = NewItem(home, title) OBVIOUS
<1>3. Len(s) \in Nat BY LenProperties
<1>4. x = [id |-> <<"draft", draftId>>, home |-> home, title |-> title, value |-> 1,
           sequence |-> Len(s) + 1]
  BY <1>1, <1>2 DEF NewItem
<1>5. x \in Items /\ x.home = home /\ x.title = title
  <2>1. draftId \in Nat BY DEF EditorInv, EditorTyped
  <2>2. <<"draft", draftId>> \in {"item", "draft"} \X Nat BY <2>1
  <2>3. 1 \in Nat /\ Len(s) + 1 \in Nat BY <1>3
  <2> QED BY <1>4, <2>2, <2>3 DEF Items, Titles
<1>6. PICK items : items = Append(s, x) OBVIOUS
<1>7. /\ items \in Seq(Items)
      /\ \A j \in DOMAIN items : items[j] = x \/ (j \in DOMAIN s /\ items[j] = s[j])
  BY <1>5, <1>6, OneBegins
<1>8. \A j \in DOMAIN items : TitleKnown(items[j])
  <2>1. TitleKnown(x) BY <1>5 DEF TitleKnown
  <2>2. \A j \in DOMAIN s : TitleKnown(s[j]) BY <1>1, ShownIsKnown
  <2> QED BY <1>7, <2>1, <2>2
<1>9. Edit(items) /\ draftId' = draftId + 1 BY <1>1, <1>2, <1>6 DEF Add
<1>10. draftId' \in Nat BY <1>9 DEF EditorInv, EditorTyped
<1> QED BY <1>7, <1>8, <1>9, <1>10, EditKeeps

LEMMA AdditionsKeep ==
    ASSUME EditorInv,
           \/ handleAddItemFromChooser
           \/ \E p \in Owners : handleAddManualItem(p)
    PROVE  EditorInv'
<1>1. CASE handleAddItemFromChooser
  <2>1. PICK home : home = options.of OBVIOUS
  <2>2. PICK title : title = options.in OBVIOUS
  <2>3. home \in Owners /\ title \in Titles
    BY <1>1, <2>1, <2>2 DEF handleAddItemFromChooser, EditorInv, EditorTyped, Offers, Titles
  <2>4. workbench # Blank /\ Add(NewItem(home, title))
    BY <1>1, <2>1, <2>2 DEF handleAddItemFromChooser
  <2> QED BY <2>1, <2>2, <2>3, <2>4, AddKeeps
<1>2. ASSUME NEW p \in Owners, handleAddManualItem(p) PROVE EditorInv'
  <2>1. workbench # Blank /\ Add(NewItem(p, Untitled)) BY <1>2 DEF handleAddManualItem
  <2>2. Untitled \in Titles /\ Untitled \notin Locales BY LocalesAssumption DEF Titles
  <2> QED BY <2>1, <2>2, AddKeeps
<1> QED BY <1>1, <1>2

LEMMA RemoveKeeps ==
    ASSUME EditorInv, NEW i \in DOMAIN drafts, handleRemoveItem(i)
    PROVE  EditorInv'
<1>1. PICK s \in Seq(Items) : s = drafts BY DEF EditorInv, EditorTyped
<1>2. PICK items : items = RemoveAt(s, i) OBVIOUS
<1>3. /\ items \in Seq(Items)
      /\ \A j \in DOMAIN items : items[j] = s[IF j < i THEN j ELSE j + 1]
      /\ \A j \in DOMAIN items : (IF j < i THEN j ELSE j + 1) \in DOMAIN s \ {i}
  BY <1>1, <1>2, OneIsOver
<1>4. \A j \in DOMAIN items : TitleKnown(items[j]) BY <1>1, <1>3, ShownIsKnown
<1>5. Edit(items) /\ draftId' = draftId BY <1>1, <1>2 DEF handleRemoveItem
<1>6. draftId' \in Nat BY <1>5 DEF EditorInv, EditorTyped
<1>7. workbench # Blank BY EmptyDraft DEF EditorInv, DraftCleared
<1> QED BY <1>3, <1>4, <1>5, <1>6, <1>7, EditKeeps

LEMMA MoveItemKeeps ==
    ASSUME EditorInv, NEW i \in DOMAIN drafts, handleMoveItem(i)
    PROVE  EditorInv'
<1>1. PICK s \in Seq(Items) : s = drafts BY DEF EditorInv, EditorTyped
<1>2. PICK items : items = [s EXCEPT ![i] = s[i + 1], ![i + 1] = s[i]] OBVIOUS
<1>3. Len(s) \in Nat /\ DOMAIN s = 1..Len(s) BY LenProperties
<1>4. i + 1 \in DOMAIN s BY <1>1, <1>3 DEF handleMoveItem
<1>5. \A j \in DOMAIN s : items[j] = IF j = i + 1 THEN s[i] ELSE IF j = i THEN s[i + 1] ELSE s[j]
  BY <1>1, <1>2, <1>3, <1>4
<1>6. \A j \in DOMAIN s : \E k \in DOMAIN s : items[j] = s[k] BY <1>1, <1>4, <1>5
<1>7. items = [j \in DOMAIN s |-> items[j]] BY <1>2
<1>8. \A j \in DOMAIN s : items[j] \in Items BY <1>6, ItemOf
<1>9. items \in Seq(Items) /\ DOMAIN items = DOMAIN s BY <1>7, <1>8, Mapped
<1>10. \A j \in DOMAIN items : TitleKnown(items[j]) BY <1>1, <1>6, <1>9, ShownIsKnown
<1>11. Edit(items) /\ draftId' = draftId BY <1>1, <1>2 DEF handleMoveItem
<1>12. draftId' \in Nat BY <1>11 DEF EditorInv, EditorTyped
<1>13. workbench # Blank BY EmptyDraft DEF EditorInv, DraftCleared
<1> QED BY <1>9, <1>10, <1>11, <1>12, <1>13, EditKeeps

LEMMA FieldChangeKeeps ==
    ASSUME EditorInv, NEW i \in DOMAIN drafts, NEW input \in {-1, 2},
           handleClipFieldChange(i, input)
    PROVE  EditorInv'
<1>1. PICK s \in Seq(Items) : s = drafts BY DEF EditorInv, EditorTyped
<1>2. PICK v : v = IF input < 0 THEN 0 ELSE input OBVIOUS
<1>3. v \in Nat
  <2>1. input = -1 \/ input = 2 OBVIOUS
  <2> QED BY <1>2, <2>1
<1>4. PICK x \in Items : x = s[i] BY <1>1, ItemOf
<1>5. PICK y : y = [x EXCEPT !.value = v] OBVIOUS
<1>6. y = [id |-> x.id, home |-> x.home, title |-> x.title, value |-> v,
           sequence |-> x.sequence]
  <2>1. x = [id |-> x.id, home |-> x.home, title |-> x.title, value |-> x.value,
             sequence |-> x.sequence]
    BY ItemIs
  <2> QED BY <1>5, <2>1
<1>7. y \in Items BY <1>3, <1>6, ItemIs DEF Items, Titles
<1>8. y.home = x.home /\ y.title = x.title BY <1>6
<1>9. PICK items : items = [s EXCEPT ![i] = y] OBVIOUS
<1>10. /\ items \in Seq(Items) /\ DOMAIN items = DOMAIN s
       /\ \A j \in DOMAIN s : items[j] = IF j = i THEN y ELSE s[j]
  BY <1>1, <1>7, <1>9, OneChanges
<1>11. \A j \in DOMAIN items : TitleKnown(items[j])
  BY <1>1, <1>4, <1>8, <1>10, ShownIsKnown
<1>12. [drafts EXCEPT ![i].value = IF input < 0 THEN 0 ELSE input] = items
  BY <1>1, <1>2, <1>4, <1>5, <1>9
<1>13. Edit(items) /\ draftId' = draftId BY <1>12 DEF handleClipFieldChange
<1>14. draftId' \in Nat BY <1>13 DEF EditorInv, EditorTyped
<1>15. workbench # Blank BY EmptyDraft DEF EditorInv, DraftCleared
<1> QED BY <1>10, <1>11, <1>13, <1>14, <1>15, EditKeeps

LEMMA SaveKeeps ==
    ASSUME EditorInv, Save
    PROVE  EditorInv'
<1> USE DEF EditorInv
<1>1. PICK t \in Seq(JobRecords) : t = jobs BY DEF EditorTyped
<1>2. PICK shown \in Seq(Items) : shown = drafts BY DEF EditorTyped
<1>3. PICK offered \in Offers : offered = options BY DEF EditorTyped
<1>4. PICK p \in Owners : p = project BY DEF EditorTyped, Save
<1>5. PICK l \in Locales : l = locale BY DEF EditorTyped
<1>6. PICK kind \in {"load", "save"} : kind = "save" OBVIOUS
<1>7. PICK j : j = JobOf(kind, p, l, shown, shown, offered) OBVIOUS
<1>8. /\ j \in JobRecords /\ j.kind = kind /\ j.of = p /\ j.in = l /\ j.state = "sent"
      /\ j.items = shown /\ j.drafts = shown /\ j.options = offered
  BY ONLY <1>7, JobIs
<1>9. j = Job("save", project, drafts)
  BY <1>2, <1>3, <1>4, <1>5, <1>6, <1>7 DEF Job, JobOf
<1>10. PICK u : u = Append(t, j) OBVIOUS
<1>11. /\ u \in Seq(JobRecords) /\ Range(u) = Range(t) \cup {j}
       /\ \A k : NoneOf(u, k) <=> NoneOf(t, k) /\ j.kind # k
       /\ \A k : AtMostOne(t, k) /\ (j.kind # k \/ NoneOf(t, k)) => AtMostOne(u, k)
  BY ONLY <1>8, <1>10, TaskBegins
<1>12. /\ jobs' = u
       /\ editor' = editor /\ project' = project /\ locale' = locale /\ drafts' = drafts
       /\ workbench' = workbench /\ hydrated' = hydrated /\ options' = options
       /\ saved' = saved /\ nextItemId' = nextItemId /\ draftId' = draftId
       /\ wanted' = wanted /\ mishaps' = mishaps
  BY <1>1, <1>9, <1>10 DEF Save
<1>13. EditorTyped' BY <1>11, <1>12 DEF EditorTyped
<1>14. Numbers' BY <1>12 DEF Numbers
<1>15. NoneOf(u, "load") <=> NoneOf(t, "load") BY <1>6, <1>8, <1>11
<1>16. OneLoadRuns'
  <2>1. AtMostOne(t, "load") BY <1>1 DEF OneLoadRuns
  <2>2. AtMostOne(u, "load") BY <1>6, <1>8, <1>11, <2>1
  <2> QED BY <1>12, <2>2 DEF OneLoadRuns
<1>17. JobsFit'
  <2>1. JobFits(j, project, locale) BY <1>2, <1>6, <1>8 DEF JobFits, Numbers
  <2> QED BY <1>1, <1>11, <1>12, <2>1 DEF JobsFit
<1>18. Titled' BY <1>1, <1>12, <1>15 DEF Titled, IsPreview
<1>19. WorkKept' /\ DraftCleared' BY <1>12 DEF WorkKept, DraftCleared
<1> QED BY <1>13, <1>14, <1>16, <1>17, <1>18, <1>19

-----------------------------------------------------------------------------
(* The server numbers the items anew and titles them in no language; it    *)
(* answers a load in the language asked for.                               *)
LEMMA Renamed ==
    ASSUME NEW s \in Seq(Items), NEW l \in Titles, NEW t, DOMAIN t = DOMAIN s,
           t = [i \in DOMAIN s |-> t[i]],
           \A i \in DOMAIN s : /\ t[i] \in Items /\ t[i].title = l
                               /\ t[i].home = s[i].home /\ t[i].value = s[i].value
                               /\ t[i].sequence = s[i].sequence
    PROVE  /\ t \in Seq(Items) /\ Made(t) = Made(s) /\ AllTitled(t, l)
           /\ Ordered(s) => Ordered(t)
<1>1. t \in Seq(Items) BY Mapped
<1>2. Made(t) = Made(s) BY SameWork
<1> QED BY <1>1, <1>2 DEF AllTitled, Ordered

LEMMA NumberedAre ==
    ASSUME NEW s \in Seq(Items), NEW n \in Nat, NEW t, t = Numbered(s, n)
    PROVE  /\ t \in Seq(Items) /\ Made(t) = Made(s) /\ AllTitled(t, ServerTitle)
           /\ Ordered(s) => Ordered(t)
<1>1. t = [i \in DOMAIN s |-> [s[i] EXCEPT !.id = <<"item", n + i - 1>>, !.title = ServerTitle]]
  BY DEF Numbered
<1>2. t = [i \in DOMAIN s |-> t[i]] /\ DOMAIN t = DOMAIN s BY <1>1
<1>3. ASSUME NEW i \in DOMAIN s
      PROVE  /\ t[i] \in Items /\ t[i].title = ServerTitle
             /\ t[i].home = s[i].home /\ t[i].value = s[i].value
             /\ t[i].sequence = s[i].sequence
  <2>1. PICK x \in Items : x = s[i] BY ItemOf
  <2>2. i \in Nat /\ i >= 1 /\ n + i - 1 \in Nat
    <3>1. Len(s) \in Nat /\ DOMAIN s = 1..Len(s) BY LenProperties
    <3> QED BY <3>1
  <2>3. PICK m : m = <<"item", n + i - 1>> OBVIOUS
  <2>4. m \in {"item", "draft"} \X Nat BY <2>2, <2>3
  <2>5. PICK y : y = [id |-> m, home |-> x.home, title |-> ServerTitle, value |-> x.value,
                      sequence |-> x.sequence]
    OBVIOUS
  <2>6. x = [id |-> x.id, home |-> x.home, title |-> x.title, value |-> x.value,
             sequence |-> x.sequence]
    BY ItemIs
  <2>7. y = [x EXCEPT !.id = m, !.title = ServerTitle]
    <3>1. PICK z : z = [x EXCEPT !.id = m, !.title = ServerTitle] OBVIOUS
    <3>2. y = z BY ONLY <2>5, <2>6, <3>1
    <3> QED BY <3>1, <3>2
  <2>8. y \in Items BY <2>4, <2>5, ItemIs DEF Items, Titles
  <2>9. t[i] = y BY <1>1, <2>1, <2>3, <2>7
  <2>10. y.title = ServerTitle /\ y.home = x.home /\ y.value = x.value /\ y.sequence = x.sequence
    BY <2>5
  <2> QED BY <2>1, <2>8, <2>9, <2>10
<1>4. ServerTitle \in Titles BY DEF Titles
<1> QED BY <1>2, <1>3, <1>4, Renamed

LEMMA LocalizedAre ==
    ASSUME NEW s \in Seq(Items), NEW l \in Titles,
           NEW t, t = [i \in DOMAIN s |-> [s[i] EXCEPT !.title = l]]
    PROVE  /\ t \in Seq(Items) /\ Made(t) = Made(s) /\ AllTitled(t, l)
           /\ Ordered(s) => Ordered(t)
<1>1. t = [i \in DOMAIN s |-> t[i]] /\ DOMAIN t = DOMAIN s OBVIOUS
<1>2. ASSUME NEW i \in DOMAIN s
      PROVE  /\ t[i] \in Items /\ t[i].title = l
             /\ t[i].home = s[i].home /\ t[i].value = s[i].value
             /\ t[i].sequence = s[i].sequence
  <2>1. PICK x \in Items : x = s[i] BY ItemOf
  <2>2. PICK y : y = [id |-> x.id, home |-> x.home, title |-> l, value |-> x.value,
                      sequence |-> x.sequence]
    OBVIOUS
  <2>3. x = [id |-> x.id, home |-> x.home, title |-> x.title, value |-> x.value,
             sequence |-> x.sequence]
    BY ItemIs
  <2>4. y = [x EXCEPT !.title = l] BY <2>2, <2>3
  <2>5. y \in Items BY <2>2, ItemIs DEF Items, Titles
  <2>6. t[i] = y BY <2>1, <2>4
  <2>7. y.title = l /\ y.home = x.home /\ y.value = x.value /\ y.sequence = x.sequence BY <2>2
  <2> QED BY <2>1, <2>5, <2>6, <2>7
<1> QED BY <1>1, <1>2, Renamed

ServerHolds ==
    /\ saved \in [Owners -> Seq(Items)] /\ nextItemId \in Nat
    /\ \A p \in Owners : Ordered(saved[p])

LEMMA UpsertHolds ==
    ASSUME ServerHolds, NEW p \in Owners, NEW items \in Seq(Items), Ordered(items),
           UpsertItems(p, items)
    PROVE  /\ ServerHolds' /\ saved'[p] \in Seq(Items) /\ Ordered(saved'[p])
           /\ Made(saved'[p]) = Made(items) /\ AllTitled(saved'[p], ServerTitle)
<1>1. PICK n \in Nat : n = nextItemId BY DEF ServerHolds
<1>2. PICK t : t = Numbered(items, n) OBVIOUS
<1>3. /\ t \in Seq(Items) /\ Made(t) = Made(items) /\ AllTitled(t, ServerTitle) /\ Ordered(t)
  BY <1>2, NumberedAre
<1>4. saved' = [saved EXCEPT ![p] = t] /\ nextItemId' = nextItemId + Len(items)
  BY <1>1, <1>2 DEF UpsertItems
<1>5. Len(items) \in Nat BY LenProperties
<1>6. saved'[p] = t /\ saved' \in [Owners -> Seq(Items)]
      /\ \A q \in Owners : q # p => saved'[q] = saved[q]
  BY <1>3, <1>4 DEF ServerHolds
<1>7. nextItemId' \in Nat BY <1>4, <1>5 DEF ServerHolds
<1>8. \A q \in Owners : Ordered(saved'[q]) BY <1>3, <1>6 DEF ServerHolds
<1> QED BY <1>3, <1>6, <1>7, <1>8 DEF ServerHolds

(* A job goes on as what fits it; the page shows what it did.              *)
LEMMA JobChanges ==
    ASSUME EditorInv, NEW k \in DOMAIN jobs, NEW w \in JobRecords, w.kind = jobs[k].kind,
           JobFits(w, project, locale), jobs' = [jobs EXCEPT ![k] = w],
           SamePage, UNCHANGED <<project, locale, draftId>>, ServerHolds'
    PROVE  EditorInv'
<1> USE DEF EditorInv
<1>1. PICK t \in Seq(JobRecords) : t = jobs BY DEF EditorTyped
<1>2. PICK u : u = [t EXCEPT ![k] = w] OBVIOUS
<1>3. k \in DOMAIN t /\ w.kind = t[k].kind BY <1>1
<1>4. /\ u \in Seq(JobRecords) /\ \A x \in Range(u) : x = w \/ \E j \in DOMAIN t \ {k} : x = t[j]
      /\ \A kind : NoneOf(u, kind) <=> NoneOf(t, kind)
      /\ \A kind : AtMostOne(u, kind) <=> AtMostOne(t, kind)
  <2>1. /\ [t EXCEPT ![k] = w] \in Seq(JobRecords)
        /\ \A x \in Range([t EXCEPT ![k] = w]) : x = w \/ \E j \in DOMAIN t \ {k} : x = t[j]
        /\ w \in Range([t EXCEPT ![k] = w])
        /\ \A j \in DOMAIN t \ {k} : t[j] \in Range([t EXCEPT ![k] = w])
        /\ \A kind : NoneOf([t EXCEPT ![k] = w], kind) <=> NoneOf(t, kind)
        /\ \A kind : AtMostOne([t EXCEPT ![k] = w], kind) <=> AtMostOne(t, kind)
    BY <1>3, TaskGoesOn
  <2> QED BY <1>2, <2>1
<1>5. /\ jobs' = u
      /\ editor' = editor /\ project' = project /\ locale' = locale /\ drafts' = drafts
      /\ workbench' = workbench /\ hydrated' = hydrated /\ options' = options
      /\ draftId' = draftId /\ wanted' = wanted /\ mishaps' = mishaps
  BY <1>1, <1>2 DEF SamePage
<1>6. EditorTyped' BY <1>4, <1>5 DEF EditorTyped, ServerHolds
<1>7. Numbers' BY <1>5 DEF Numbers, ServerHolds
<1>8. OneLoadRuns' BY <1>1, <1>4, <1>5 DEF OneLoadRuns
<1>9. JobsFit'
  <2>1. \A j \in DOMAIN t : JobFits(t[j], project, locale) BY <1>1 DEF JobsFit, Range
  <2>2. \A x \in Range(u) : JobFits(x, project, locale) BY ONLY <1>4, <2>1, JobFits(w, project, locale)
  <2> QED BY <1>5, <2>2 DEF JobsFit
<1>10. Titled' BY <1>1, <1>4, <1>5 DEF Titled, IsPreview
<1>11. WorkKept' /\ DraftCleared' BY <1>5 DEF WorkKept, DraftCleared
<1> QED BY <1>6, <1>7, <1>8, <1>9, <1>10, <1>11

(* The job that an answer changes, with its new state and what it brings.  *)
LEMMA JobWith ==
    ASSUME NEW j \in JobRecords, NEW state \in {"sent", "done", "failed"},
           NEW items \in Seq(Items), NEW offered \in Offers, NEW w,
           w = [kind |-> j.kind, of |-> j.of, in |-> j.in, state |-> state, items |-> items,
                drafts |-> j.drafts, options |-> offered]
    PROVE  /\ w \in JobRecords /\ w.kind = j.kind /\ w.of = j.of /\ w.in = j.in
           /\ w.state = state /\ w.items = items /\ w.drafts = j.drafts /\ w.options = offered
BY DEF JobRecords

LEMMA JobRecord ==
    ASSUME NEW j \in JobRecords
    PROVE  /\ j = [kind |-> j.kind, of |-> j.of, in |-> j.in, state |-> j.state,
                   items |-> j.items, drafts |-> j.drafts, options |-> j.options]
           /\ j.kind \in {"load", "save"} /\ j.of \in Owners /\ j.in \in Locales
           /\ j.state \in {"sent", "done", "failed"} /\ j.items \in Seq(Items)
           /\ j.drafts \in Seq(Items) /\ j.options \in Offers
BY DEF JobRecords

LEMMA AnswerJobKeeps ==
    ASSUME EditorInv, NEW k \in DOMAIN jobs, AnswerJob(k)
    PROVE  EditorInv'
<1>1. SamePage /\ UNCHANGED <<project, locale, draftId>> BY DEF AnswerJob, SamePage
<1>2. PICK t \in Seq(JobRecords) : t = jobs BY DEF EditorInv, EditorTyped
<1>3. PICK j \in JobRecords : j = jobs[k]
  <2>1. k \in 1..Len(t) BY <1>2, LenProperties
  <2> QED BY <1>2, <2>1, ElementOfSeq
<1>4. JobFits(j, project, locale) BY <1>3 DEF EditorInv, JobsFit, Range
<1>5. ServerHolds BY DEF EditorInv, EditorTyped, Numbers, ServerHolds
<1>6. /\ j = [kind |-> j.kind, of |-> j.of, in |-> j.in, state |-> j.state,
              items |-> j.items, drafts |-> j.drafts, options |-> j.options]
      /\ j.kind \in {"load", "save"} /\ j.of \in Owners /\ j.in \in Locales
      /\ j.items \in Seq(Items) /\ j.drafts \in Seq(Items) /\ j.options \in Offers
  BY JobRecord
<1>7. ASSUME Fail(k) PROVE EditorInv'
  <2>1. PICK w : w = [kind |-> j.kind, of |-> j.of, in |-> j.in, state |-> "failed",
                      items |-> j.items, drafts |-> j.drafts, options |-> j.options]
    OBVIOUS
  <2>2. "failed" \in {"sent", "done", "failed"} OBVIOUS
  <2>3. /\ w \in JobRecords /\ w.kind = j.kind /\ w.of = j.of /\ w.in = j.in
        /\ w.state = "failed" /\ w.items = j.items /\ w.drafts = j.drafts
        /\ w.options = j.options
    BY ONLY <1>6, <2>1, <2>2, JobWith
  <2>4. w = [j EXCEPT !.state = "failed"] BY <1>6, <2>1
  <2>5. jobs' = [jobs EXCEPT ![k] = w] /\ UNCHANGED <<saved, nextItemId>>
    BY <1>3, <1>7, <2>4 DEF Fail
  <2>6. ServerHolds' BY <1>5, <2>5 DEF ServerHolds
  <2>7. JobFits(w, project, locale) BY <1>4, <2>3 DEF JobFits
  <2> QED BY <1>1, <1>3, <2>3, <2>5, <2>6, <2>7, JobChanges
<1>8. ASSUME j.kind = "save", UpsertItems(j.of, j.items),
             jobs' = [jobs EXCEPT ![k] = [j EXCEPT !.state = "done", !.items = saved'[j.of]]]
      PROVE  EditorInv'
  <2>1. Ordered(j.items) BY <1>4 DEF JobFits
  <2>2. /\ ServerHolds' /\ saved'[j.of] \in Seq(Items) /\ Ordered(saved'[j.of])
        /\ Made(saved'[j.of]) = Made(j.items) /\ AllTitled(saved'[j.of], ServerTitle)
    BY <1>5, <1>6, <1>8, <2>1, UpsertHolds
  <2>3. PICK items \in Seq(Items) : items = saved'[j.of] BY <2>2
  <2>4. PICK w : w = [kind |-> j.kind, of |-> j.of, in |-> j.in, state |-> "done",
                      items |-> items, drafts |-> j.drafts, options |-> j.options]
    OBVIOUS
  <2>5. "done" \in {"sent", "done", "failed"} OBVIOUS
  <2>6. /\ w \in JobRecords /\ w.kind = j.kind /\ w.of = j.of /\ w.in = j.in
        /\ w.state = "done" /\ w.items = items /\ w.drafts = j.drafts
        /\ w.options = j.options
    BY ONLY <1>6, <2>4, <2>5, JobWith
  <2>7. w = [j EXCEPT !.state = "done", !.items = items]
    <3>1. j = [kind |-> j.kind, of |-> j.of, in |-> j.in, state |-> j.state,
               items |-> j.items, drafts |-> j.drafts, options |-> j.options]
      BY <1>6
    <3>2. PICK z : z = [j EXCEPT !.state = "done", !.items = items] OBVIOUS
    <3>3. w = z BY ONLY <2>4, <3>1, <3>2
    <3> QED BY <3>2, <3>3
  <2>8. jobs' = [jobs EXCEPT ![k] = w] BY <1>8, <2>3, <2>7
  <2>9. JobFits(w, project, locale) BY <1>4, <1>8, <2>2, <2>3, <2>6 DEF JobFits
  <2> QED BY <1>1, <1>3, <2>2, <2>6, <2>8, <2>9, JobChanges
<1>9. ASSUME j.kind = "load", NEW offered \in Offers,
             offered = NoOptions \/ (offered.of = j.of /\ offered.in = j.in),
             NEW items, items = [i \in DOMAIN saved[j.of] |-> [saved[j.of][i] EXCEPT !.title = j.in]],
             jobs' = [jobs EXCEPT ![k] = [j EXCEPT !.state = "done", !.items = items,
                                                   !.options = offered]],
             UNCHANGED <<saved, nextItemId>>
      PROVE  EditorInv'
  <2>1. PICK s \in Seq(Items) : s = saved[j.of] BY <1>5, <1>6 DEF ServerHolds
  <2>2. Ordered(s) BY <1>5, <1>6, <2>1 DEF ServerHolds
  <2>3. j.in \in Titles BY <1>6 DEF Titles
  <2>4. items = [i \in DOMAIN s |-> [s[i] EXCEPT !.title = j.in]] BY <1>9, <2>1
  <2>5. items \in Seq(Items) /\ AllTitled(items, j.in) /\ Ordered(items)
    BY ONLY <2>2, <2>3, <2>4, LocalizedAre
  <2>6. PICK w : w = [kind |-> j.kind, of |-> j.of, in |-> j.in, state |-> "done",
                      items |-> items, drafts |-> j.drafts, options |-> offered]
    OBVIOUS
  <2>7. "done" \in {"sent", "done", "failed"} OBVIOUS
  <2>8. /\ w \in JobRecords /\ w.kind = j.kind /\ w.of = j.of /\ w.in = j.in
        /\ w.state = "done" /\ w.items = items /\ w.drafts = j.drafts
        /\ w.options = offered
    BY ONLY <1>6, <2>5, <2>6, <2>7, JobWith
  <2>9. w = [j EXCEPT !.state = "done", !.items = items, !.options = offered]
    <3>1. j = [kind |-> j.kind, of |-> j.of, in |-> j.in, state |-> j.state,
               items |-> j.items, drafts |-> j.drafts, options |-> j.options]
      BY <1>6
    <3>2. PICK z : z = [j EXCEPT !.state = "done", !.items = items, !.options = offered]
      OBVIOUS
    <3>3. w = z BY ONLY <2>6, <3>1, <3>2
    <3> QED BY <3>2, <3>3
  <2>10. jobs' = [jobs EXCEPT ![k] = w] BY <1>9, <2>9
  <2>11. ServerHolds' BY <1>5, <1>9 DEF ServerHolds
  <2>12. JobFits(w, project, locale) BY <1>4, <1>9, <2>5, <2>8 DEF JobFits
  <2> QED BY <1>1, <1>3, <2>8, <2>10, <2>11, <2>12, JobChanges
<1>10. CASE AnswerSave(k)
  <2>1. \/ /\ j.kind = "save" /\ UpsertItems(j.of, j.items)
           /\ jobs' = [jobs EXCEPT ![k] = [j EXCEPT !.state = "done", !.items = saved'[j.of]]]
        \/ Fail(k)
    BY <1>3, <1>10 DEF AnswerSave
  <2> QED BY <1>7, <1>8, <2>1
<1>11. CASE AnswerLoad(k)
  <2>1. PICK items : items = [i \in DOMAIN saved[j.of] |-> [saved[j.of][i] EXCEPT !.title = j.in]]
    OBVIOUS
  <2>2. PICK offered : offered = [of |-> j.of, in |-> j.in] OBVIOUS
  <2>3. offered \in Offers /\ offered.of = j.of /\ offered.in = j.in
    BY <1>6, <2>2 DEF Offers
  <2>4. j.kind = "load"
        /\ \/ /\ jobs' = [jobs EXCEPT ![k] = [j EXCEPT !.state = "done", !.items = items,
                                                      !.options = offered]]
              /\ UNCHANGED <<saved, nextItemId>>
           \/ /\ jobs' = [jobs EXCEPT ![k] = [j EXCEPT !.state = "done", !.items = items,
                                                      !.options = NoOptions]]
              /\ UNCHANGED <<saved, nextItemId>>
           \/ Fail(k)
    BY <1>3, <1>11, <2>1, <2>2 DEF AnswerLoad
  <2> QED BY <1>7, <1>9, <2>1, <2>3, <2>4, NoOptionsIs
<1> QED BY <1>10, <1>11 DEF AnswerJob

LEMMA FirstItemIs ==
    ASSUME NEW p \in Owners
    PROVE  FirstItem(p) \in Seq(Items) /\ Ordered(FirstItem(p)) /\ Accepts(p, FirstItem(p))
<1>1. PICK x : x = [id |-> <<"item", 0>>, home |-> p, title |-> ServerTitle, value |-> 1,
                    sequence |-> 1]
  OBVIOUS
<1>2. FirstItem(p) = <<x>> BY <1>1 DEF FirstItem
<1>3. x \in Items BY <1>1 DEF Items
<1>4. x.home = p /\ x.sequence = 1 BY <1>1
<1>5. DOMAIN <<x>> = {1} /\ <<x>>[1] = x OBVIOUS
<1> QED BY <1>2, <1>3, <1>4, <1>5 DEF Ordered, Accepts

LEMMA OtherUserKeeps ==
    ASSUME EditorInv, NEW p \in Owners, OtherUserSaves(p)
    PROVE  EditorInv'
<1> USE DEF EditorInv
<1>1. ServerHolds BY DEF EditorTyped, Numbers, ServerHolds
<1>2. ServerHolds' BY <1>1, FirstItemIs, UpsertHolds DEF OtherUserSaves
<1>3. /\ jobs' = jobs
      /\ editor' = editor /\ project' = project /\ locale' = locale /\ drafts' = drafts
      /\ workbench' = workbench /\ hydrated' = hydrated /\ options' = options
      /\ draftId' = draftId /\ wanted' = wanted /\ mishaps' = mishaps
  BY DEF OtherUserSaves
<1>4. EditorTyped' /\ Numbers' BY <1>2, <1>3 DEF EditorTyped, Numbers, ServerHolds
<1>5. OneLoadRuns' /\ JobsFit' BY <1>3 DEF OneLoadRuns, JobsFit
<1>6. Titled' /\ WorkKept' /\ DraftCleared' BY <1>3 DEF Titled, IsPreview, WorkKept, DraftCleared
<1> QED BY <1>4, <1>5, <1>6

-----------------------------------------------------------------------------
(* An answer reaches the page: its job is over.                            *)
LEMMA Landing ==
    ASSUME EditorInv, NEW k \in DOMAIN jobs, LandJob(k), NEW j, j = jobs[k]
    PROVE  /\ j \in JobRecords /\ JobFits(j, project, locale) /\ j.state \in {"done", "failed"}
           /\ jobs' \in Seq(JobRecords) /\ AtMostOne(jobs', "load")
           /\ Range(jobs') \subseteq Range(jobs)
           /\ j.kind # "load" /\ NoneOf(jobs', "load") => NoneOf(jobs, "load")
           /\ editor' = editor /\ project' = project /\ locale' = locale
           /\ draftId' = draftId /\ saved' = saved /\ nextItemId' = nextItemId
<1>1. PICK t \in Seq(JobRecords) : t = jobs BY DEF EditorInv, EditorTyped
<1>2. k \in DOMAIN t BY <1>1
<1>3. j \in JobRecords
  <2>1. k \in 1..Len(t) BY <1>2, LenProperties
  <2> QED BY <1>1, <2>1, ElementOfSeq
<1>4. JobFits(j, project, locale) BY DEF EditorInv, JobsFit, Range
<1>5. j.state \in {"done", "failed"}
  <2>1. j.state # "sent" BY DEF LandJob
  <2> QED BY <1>3, <2>1, JobRecord
<1>6. /\ RemoveAt(t, k) \in Seq(JobRecords) /\ Range(RemoveAt(t, k)) \subseteq Range(t)
      /\ \A kind : AtMostOne(t, kind) => AtMostOne(RemoveAt(t, k), kind)
      /\ \A kind : t[k].kind # kind /\ NoneOf(RemoveAt(t, k), kind) => NoneOf(t, kind)
  BY <1>2, TaskEnds
<1>7. jobs' = RemoveAt(t, k) BY <1>1 DEF LandJob
<1>8. AtMostOne(t, "load") BY <1>1 DEF EditorInv, OneLoadRuns
<1>9. /\ jobs' \in Seq(JobRecords) /\ Range(jobs') \subseteq Range(jobs)
      /\ AtMostOne(jobs', "load")
      /\ j.kind # "load" /\ NoneOf(jobs', "load") => NoneOf(jobs, "load")
  BY <1>1, <1>6, <1>7, <1>8
<1>10. /\ editor' = editor /\ project' = project /\ locale' = locale
       /\ draftId' = draftId /\ saved' = saved /\ nextItemId' = nextItemId
  BY DEF LandJob
<1> QED BY <1>3, <1>4, <1>5, <1>9, <1>10

LEMMA LandedKeeps ==
    ASSUME EditorInv, NEW k \in DOMAIN jobs, LandJob(k),
           drafts' \in Seq(Items), Ordered(drafts'), workbench' \in Owners \cup {Blank},
           hydrated' \in Owners \cup {Off}, options' \in Offers,
           mishaps' \subseteq Replacements \cup {"untranslated"}, Titled', WorkKept', DraftCleared'
    PROVE  EditorInv'
<1> USE DEF EditorInv
<1>1. PICK j : j = jobs[k] OBVIOUS
<1>2. /\ jobs' \in Seq(JobRecords) /\ AtMostOne(jobs', "load")
      /\ Range(jobs') \subseteq Range(jobs)
      /\ editor' = editor /\ project' = project /\ locale' = locale
      /\ draftId' = draftId /\ saved' = saved /\ nextItemId' = nextItemId
  BY <1>1, Landing
<1>3. EditorTyped' BY <1>2 DEF EditorTyped
<1>4. Numbers' BY <1>2 DEF Numbers
<1>5. OneLoadRuns' BY <1>2 DEF OneLoadRuns
<1>6. JobsFit' BY <1>2 DEF JobsFit
<1> QED BY <1>3, <1>4, <1>5, <1>6

LEMMA LandLoadedKeeps ==
    ASSUME EditorInv, NEW k \in DOMAIN jobs, LandJob(k), NEW j, j = jobs[k],
           j.kind = "load", j.state = "done"
    PROVE  EditorInv'
<1>1. /\ j \in JobRecords /\ JobFits(j, project, locale)
      /\ editor' = editor /\ project' = project /\ locale' = locale
  BY Landing
<1>2. LandLoaded(j) BY DEF LandJob
<1>3. /\ j.of \in Owners /\ j.items \in Seq(Items) /\ j.options \in Offers
      /\ j.of = project /\ Ordered(j.items) /\ AllTitled(j.items, locale)
      /\ j.options = NoOptions \/ (j.options.of = project /\ j.options.in = locale)
  BY <1>1, JobRecord DEF JobFits
<1>4. /\ drafts \in Seq(Items) /\ Ordered(drafts) /\ options \in Offers
      /\ mishaps \subseteq Replacements \cup {"untranslated"} /\ hydrated \in Owners \cup {Off}
  BY DEF EditorInv, EditorTyped, Numbers
<1>5. PICK s \in Seq(Items) : s = drafts BY <1>4
<1>6. PICK l \in Seq(Items) : l = j.items BY <1>3
<1>7. PICK o \in Offers : o = j.options BY <1>3
<1>8. normalizePreviewWorkbench(l) = l /\ seedDraftTracks(normalizeAudioWorkbench(l)) = l
  BY <1>3, <1>6, Normalized
<1>9. workbench' = project /\ project \in Owners /\ project # Blank
  BY <1>2, <1>3, OwnersAreNot DEF LandLoaded
<1>10. hydrated' \in Owners \cup {Off} BY <1>2, <1>3, <1>4 DEF LandLoaded
<1>11. DraftCleared' BY <1>9 DEF DraftCleared
<1>12. "untranslated" \in mishaps'
       \/ (o # NoOptions /\ options' = o /\ o.of = project /\ o.in = locale)
  BY <1>2, <1>3, <1>7 DEF LandLoaded
<1>13. TitleFits(o.in, o.of, project, locale) \/ o = NoOptions
  BY <1>3, <1>7 DEF TitleFits
<1>14. CASE isHydratingExistingScope(j.of)
  <2>1. PICK t : t = hydratePreviewDraftItemsFromLocale(s, l, o) OBVIOUS
  <2>2. /\ t \in Seq(Items) /\ DOMAIN t = DOMAIN s /\ Ordered(t) /\ Made(t) = Made(s)
        /\ TitlesFrom(t, s, l, o)
    BY ONLY <2>1, Hydrated
  <2>3. /\ drafts' = t
        /\ options' = IF o = NoOptions THEN options ELSE o
        /\ wanted' = IF wanted # Blank THEN wanted ELSE Made(l)
        /\ mishaps' = ((mishaps \cap Replacements)
                         \cup (IF wanted = Blank THEN {"emptied"} ELSE {}))
                      \cup (IF o = NoOptions THEN {"untranslated"} ELSE {})
    BY <1>2, <1>5, <1>6, <1>7, <1>8, <1>14, <2>1 DEF LandLoaded
  <2>4. options' \in Offers BY <1>4, <2>3
  <2>5. mishaps' \subseteq Replacements \cup {"untranslated"}
    BY <2>3 DEF Replacements
  <2>6. Titled'
    <3>1. SUFFICES ASSUME "untranslated" \notin mishaps'
                   PROVE  /\ \A i \in DOMAIN t :
                                TitleFits(t[i].title, t[i].home, project, locale)
                          /\ TitleFits(o.in, o.of, project, locale)
      BY <1>1, <1>12, <2>3 DEF Titled
    <3>2. o.of = project /\ o.in = locale BY <1>12, <3>1
    <3>3. ASSUME NEW i \in DOMAIN t, t[i].home = project PROVE t[i].title = locale
      <4>1. t[i].home = s[i].home /\ TitleFrom(t[i].title, s[i], l, o)
        BY <2>2 DEF TitlesFrom
      <4>2. \A m \in DOMAIN l : l[m].title = locale BY <1>3, <1>6 DEF AllTitled
      <4> QED BY <3>2, <3>3, <4>1, <4>2 DEF TitleFrom
    <3> QED BY <3>2, <3>3 DEF TitleFits
  <2>7. WorkKept'
    <3>1. SUFFICES ASSUME mishaps' \cap Replacements = {}
                   PROVE  drafts' = t /\ Made(t) = wanted'
      BY <2>3 DEF WorkKept
    <3>2. wanted # Blank
      <4>1. SUFFICES ASSUME wanted = Blank PROVE FALSE OBVIOUS
      <4>2. "emptied" \in mishaps' BY <2>3, <4>1
      <4> QED BY <3>1, <4>2 DEF Replacements
    <3>3. mishaps \cap Replacements = {} BY <2>3, <3>1
    <3>4. Made(s) = wanted BY <1>5, <3>2, <3>3 DEF EditorInv, WorkKept
    <3> QED BY <2>2, <2>3, <3>2, <3>4
  <2> QED BY <1>9, <1>10, <1>11, <2>2, <2>3, <2>4, <2>5, <2>6, <2>7, LandedKeeps
<1>15. CASE ~isHydratingExistingScope(j.of)
  <2>1. drafts' = l
    <3>1. CASE IsPreview BY <1>2, <1>6, <1>8, <1>15, <3>1 DEF LandLoaded
    <3>2. CASE ~IsPreview BY <1>2, <1>6, <1>8, <1>15, <3>2 DEF LandLoaded
    <3> QED BY <3>1, <3>2
  <2>2. /\ options' = o
        /\ wanted' = IF (~IsPreview /\ workbench = j.of) /\ wanted # Blank THEN wanted ELSE Made(l)
        /\ mishaps' = (IF ~IsPreview /\ workbench = j.of THEN {"reseeded"} ELSE {})
                      \cup (IF o = NoOptions THEN {"untranslated"} ELSE {})
    BY <1>2, <1>6, <1>7, <1>15 DEF LandLoaded
  <2>3. mishaps' \subseteq Replacements \cup {"untranslated"} BY <2>2 DEF Replacements
  <2>4. Titled'
    <3>1. SUFFICES ASSUME "untranslated" \notin mishaps'
                   PROVE  /\ \A i \in DOMAIN l :
                                TitleFits(l[i].title, l[i].home, project, locale)
                          /\ TitleFits(o.in, o.of, project, locale)
      BY <1>1, <2>1, <2>2 DEF Titled
    <3>2. o.of = project /\ o.in = locale BY <1>12, <3>1
    <3> QED BY <1>3, <1>6, <3>2 DEF TitleFits, AllTitled
  <2>5. WorkKept'
    <3>1. SUFFICES ASSUME mishaps' \cap Replacements = {}
                   PROVE  Made(l) = wanted'
      BY <2>1 DEF WorkKept
    <3>2. ~(~IsPreview /\ workbench = j.of)
      <4>1. SUFFICES ASSUME ~IsPreview /\ workbench = j.of PROVE FALSE OBVIOUS
      <4>2. "reseeded" \in mishaps' BY <2>2, <4>1
      <4> QED BY <3>1, <4>2 DEF Replacements
    <3> QED BY <2>2, <3>2
  <2>6. Ordered(l) /\ o \in Offers BY <1>3, <1>6
  <2> QED BY <1>9, <1>10, <1>11, <2>1, <2>2, <2>3, <2>4, <2>5, <2>6, LandedKeeps
<1> QED BY <1>14, <1>15

LEMMA LandLoadFailedKeeps ==
    ASSUME EditorInv, NEW k \in DOMAIN jobs, LandJob(k), NEW j, j = jobs[k],
           j.kind = "load", j.state = "failed"
    PROVE  EditorInv'
<1>1. editor' = editor /\ project' = project /\ locale' = locale BY Landing
<1>2. LandLoadFailed(j) BY DEF LandJob
<1>3. /\ drafts \in Seq(Items) /\ Ordered(drafts) /\ options \in Offers
      /\ mishaps \subseteq Replacements \cup {"untranslated"} /\ hydrated \in Owners \cup {Off}
      /\ workbench \in Owners \cup {Blank}
  BY DEF EditorInv, EditorTyped, Numbers
<1>4. CASE isHydratingExistingScope(j.of) /\ workbench # Blank
  <2>1. /\ mishaps' = mishaps \cup {"untranslated"} /\ workbench' = workbench
        /\ drafts' = drafts /\ options' = options /\ wanted' = wanted /\ hydrated' = hydrated
    BY <1>2, <1>4 DEF LandLoadFailed
  <2>2. Titled' BY <2>1 DEF Titled
  <2>3. WorkKept'
    <3>1. mishaps' \cap Replacements = mishaps \cap Replacements BY <2>1 DEF Replacements
    <3> QED BY <2>1, <3>1 DEF EditorInv, WorkKept
  <2>4. DraftCleared' BY <2>1 DEF EditorInv, DraftCleared
  <2>5. mishaps' \subseteq Replacements \cup {"untranslated"} BY <1>3, <2>1
  <2> QED BY <1>3, <2>1, <2>2, <2>3, <2>4, <2>5, LandedKeeps
<1>5. CASE ~(isHydratingExistingScope(j.of) /\ workbench # Blank)
  <2>1. /\ workbench' = Blank /\ drafts' = <<>> /\ options' = NoOptions
        /\ wanted' = Blank /\ mishaps' = {} /\ hydrated' = hydrated
    BY <1>2, <1>5 DEF LandLoadFailed
  <2>2. Titled'
    BY <2>1, EmptyDraft, NoOptionsIs, LocalesAssumption DEF Titled, TitleFits
  <2>3. WorkKept' /\ DraftCleared' BY <2>1 DEF WorkKept, DraftCleared
  <2>4. workbench' \in Owners \cup {Blank} /\ options' \in Offers
        /\ mishaps' \subseteq Replacements \cup {"untranslated"}
        /\ hydrated' \in Owners \cup {Off} /\ drafts' \in Seq(Items) /\ Ordered(drafts')
    BY <1>3, <2>1, EmptyDraft, NoOptionsIs
  <2> QED BY <2>2, <2>3, <2>4, LandedKeeps
<1> QED BY <1>4, <1>5

LEMMA LandSavedKeeps ==
    ASSUME EditorInv, NEW k \in DOMAIN jobs, LandJob(k), NEW j, j = jobs[k],
           j.kind = "save", j.state = "done"
    PROVE  EditorInv'
<1>1. /\ j \in JobRecords /\ JobFits(j, project, locale)
      /\ editor' = editor /\ project' = project /\ locale' = locale
      /\ NoneOf(jobs', "load") => NoneOf(jobs, "load")
  BY Landing
<1>2. LandSaved(j) BY DEF LandJob
<1>3. /\ j.of \in Owners /\ j.items \in Seq(Items) /\ j.options \in Offers
      /\ j.drafts \in Seq(Items)
      /\ Ordered(j.items) /\ AllTitled(j.items, ServerTitle) /\ Made(j.items) = Made(j.drafts)
  BY <1>1, JobRecord DEF JobFits
<1>4. /\ options \in Offers /\ hydrated \in Owners \cup {Off}
      /\ mishaps \subseteq Replacements \cup {"untranslated"}
  BY DEF EditorInv, EditorTyped
<1>5. PICK s \in Seq(Items) : s = j.items BY <1>3
<1>6. PICK l \in Seq(Items) : l = j.drafts BY <1>3
<1>7. PICK o \in Offers : o = j.options BY <1>3
<1>8. normalizePreviewWorkbench(s) = s /\ seedDraftTracks(normalizeAudioWorkbench(s)) = s
  BY <1>3, <1>5, Normalized
<1>9. PICK foreign : foreign = Locales \ {locale} OBVIOUS
<1>10. /\ workbench' = j.of /\ hydrated' = hydrated /\ options' = options /\ wanted' = wanted
       /\ mishaps' = (mishaps \cup (IF wanted # Made(l) THEN {"replied"} ELSE {}))
            \cup (IF \/ project # j.of \/ workbench # j.of \/ o.in \in foreign
                     \/ \E i \in DOMAIN l : l[i].title \in foreign
                  THEN {"untranslated"} ELSE {})
  BY <1>2, <1>6, <1>7, <1>9 DEF LandSaved
<1>11. PICK t : t = IF IsPreview THEN hydratePreviewDraftItemsFromLocale(s, l, o) ELSE s OBVIOUS
<1>12. drafts' = t BY <1>2, <1>5, <1>6, <1>7, <1>8, <1>11 DEF LandSaved
<1>13. t \in Seq(Items) /\ Ordered(t) /\ Made(t) = Made(s)
  <2>1. CASE IsPreview BY <1>11, <2>1, Hydrated
  <2>2. CASE ~IsPreview BY <1>3, <1>5, <1>11, <2>2
  <2> QED BY <2>1, <2>2
<1>14. Titled'
  <2>1. SUFFICES ASSUME IsPreview, NoneOf(jobs, "load"), "untranslated" \notin mishaps'
                 PROVE  /\ \A i \in DOMAIN t :
                              TitleFits(t[i].title, t[i].home, project, locale)
                        /\ TitleFits(options.in, options.of, project, locale)
    BY <1>1, <1>10, <1>12 DEF Titled, IsPreview
  <2>2. "untranslated" \notin mishaps BY <1>10, <2>1
  <2>3. TitleFits(options.in, options.of, project, locale)
    BY <2>1, <2>2 DEF EditorInv, Titled
  <2>4. o.in \notin foreign /\ \A i \in DOMAIN l : l[i].title \notin foreign
    BY <1>10, <2>1
  <2>5. /\ DOMAIN t = DOMAIN s
        /\ TitlesFrom(t, s, l, o)
    <3>1. t = hydratePreviewDraftItemsFromLocale(s, l, o) BY <1>11, <2>1
    <3> QED BY ONLY <3>1, Hydrated
  <2>6. ASSUME NEW i \in DOMAIN t PROVE TitleFits(t[i].title, t[i].home, project, locale)
    <3>1. TitleFrom(t[i].title, s[i], l, o) BY <2>5 DEF TitlesFrom
    <3>2. s[i].title = ServerTitle BY <1>3, <1>5, <2>5 DEF AllTitled
    <3> QED BY <1>9, <2>4, <3>1, <3>2, LocalesAssumption DEF TitleFrom, TitleFits
  <2> QED BY <2>3, <2>6
<1>15. WorkKept'
  <2>1. SUFFICES ASSUME mishaps' \cap Replacements = {} PROVE Made(t) = wanted
    BY <1>10, <1>12 DEF WorkKept
  <2>2. wanted = Made(l)
    <3>1. SUFFICES ASSUME wanted # Made(l) PROVE FALSE OBVIOUS
    <3>2. "replied" \in mishaps' BY <1>10, <3>1
    <3> QED BY <2>1, <3>2 DEF Replacements
  <2> QED BY <1>3, <1>5, <1>6, <1>13, <2>2
<1>16. DraftCleared' BY <1>3, <1>10, OwnersAreNot DEF DraftCleared
<1>17. mishaps' \subseteq Replacements \cup {"untranslated"} BY <1>4, <1>10 DEF Replacements
<1> QED BY <1>3, <1>4, <1>10, <1>12, <1>13, <1>14, <1>15, <1>16, <1>17, LandedKeeps

LEMMA LandJobKeeps ==
    ASSUME EditorInv, NEW k \in DOMAIN jobs, LandJob(k)
    PROVE  EditorInv'
<1>1. PICK j : j = jobs[k] OBVIOUS
<1>2. /\ j \in JobRecords /\ j.state \in {"done", "failed"}
      /\ editor' = editor /\ project' = project /\ locale' = locale
      /\ j.kind # "load" /\ NoneOf(jobs', "load") => NoneOf(jobs, "load")
  BY <1>1, Landing
<1>3. j.kind \in {"load", "save"} BY <1>2, JobRecord
<1>4. CASE j.kind = "save" /\ j.state = "failed"
  <2>1. UNCHANGED <<workbench, drafts, hydrated, options, wanted, mishaps>>
    BY <1>1, <1>4 DEF LandJob
  <2>2. Titled' BY <1>2, <1>4, <2>1 DEF EditorInv, Titled, IsPreview
  <2>3. WorkKept' /\ DraftCleared' BY <2>1 DEF EditorInv, WorkKept, DraftCleared
  <2>4. drafts' \in Seq(Items) /\ Ordered(drafts') /\ workbench' \in Owners \cup {Blank}
        /\ hydrated' \in Owners \cup {Off} /\ options' \in Offers
        /\ mishaps' \subseteq Replacements \cup {"untranslated"}
    BY <2>1 DEF EditorInv, EditorTyped, Numbers
  <2> QED BY <2>2, <2>3, <2>4, LandedKeeps
<1> QED BY <1>1, <1>2, <1>3, <1>4, LandLoadedKeeps, LandLoadFailedKeeps, LandSavedKeeps

-----------------------------------------------------------------------------
LEMMA EditorBegins ==
    ASSUME EditorInit
    PROVE  EditorInv
<1>1. PICK p \in Owners : p = (CHOOSE q \in Owners : TRUE) BY OwnersAreNot
<1>2. PICK l \in Locales : l = (CHOOSE m \in Locales : TRUE) BY LocalesAssumption
<1>3. /\ editor \in {"preview", "audio"} /\ project = p /\ locale = l
      /\ workbench = Blank /\ drafts = <<>> /\ hydrated = Off /\ options = NoOptions
      /\ draftId = 1 /\ nextItemId = 1 /\ wanted = Blank /\ mishaps = {}
      /\ jobs = <<Job("load", project, <<>>)>>
      /\ saved = [q \in Owners |-> FirstItem(q)]
  BY <1>1, <1>2 DEF EditorInit
<1>4. PICK none \in Seq(Items) : none = <<>> BY EmptyDraft
<1>5. PICK offered \in Offers : offered = NoOptions BY NoOptionsIs
<1>6. PICK kind \in {"load", "save"} : kind = "load" OBVIOUS
<1>7. PICK j : j = JobOf(kind, p, l, none, none, offered) OBVIOUS
<1>8. /\ j \in JobRecords /\ j.kind = kind /\ j.of = p /\ j.in = l /\ j.state = "sent"
      /\ j.items = none /\ j.drafts = none /\ j.options = offered
  BY ONLY <1>7, JobIs
<1>9. jobs = <<j>> BY <1>3, <1>4, <1>5, <1>6, <1>7 DEF Job, JobOf
<1>10. PICK s : s = <<j>> OBVIOUS
<1>11. s \in Seq(JobRecords) /\ DOMAIN s = {1} /\ s[1] = j /\ Range(s) = {j}
  BY <1>8, <1>10 DEF Range
<1>12. EditorTyped
  <2>1. saved \in [Owners -> Seq(Items)] BY <1>3, FirstItemIs
  <2> QED BY <1>3, <1>9, <1>10, <1>11, <2>1, EmptyDraft, NoOptionsIs DEF EditorTyped
<1>13. Numbers BY <1>3, EmptyDraft, FirstItemIs DEF Numbers
<1>14. OneLoadRuns BY <1>9, <1>10, <1>11 DEF OneLoadRuns, AtMostOne
<1>15. JobsFit
  <2>1. JobFits(j, p, l) BY <1>4, <1>6, <1>8, EmptyDraft DEF JobFits
  <2> QED BY <1>3, <1>9, <1>10, <1>11, <2>1 DEF JobsFit
<1>16. Titled
  <2>1. ~NoneOf(jobs, "load") BY <1>6, <1>8, <1>9, <1>10, <1>11 DEF NoneOf
  <2> QED BY <2>1 DEF Titled
<1>17. WorkKept /\ DraftCleared BY <1>3 DEF WorkKept, DraftCleared
<1> QED BY <1>12, <1>13, <1>14, <1>15, <1>16, <1>17 DEF EditorInv

LEMMA EditorStill ==
    ASSUME EditorInv, UNCHANGED editorVars
    PROVE  EditorInv'
<1>1. /\ editor' = editor /\ project' = project /\ locale' = locale /\ drafts' = drafts
      /\ workbench' = workbench /\ hydrated' = hydrated /\ options' = options
      /\ draftId' = draftId /\ wanted' = wanted /\ mishaps' = mishaps /\ jobs' = jobs
      /\ saved' = saved /\ nextItemId' = nextItemId
  BY DEF editorVars
<1> QED
  BY <1>1 DEF EditorInv, EditorTyped, Numbers, OneLoadRuns, JobsFit, Titled, IsPreview, WorkKept,
              DraftCleared

LEMMA EditorKeeps ==
    ASSUME EditorInv, [EditorNext]_editorVars
    PROVE  EditorInv'
<1>1. CASE UNCHANGED editorVars BY <1>1, EditorStill
<1>2. CASE EditorNext
  <2>1. ASSUME NEW p \in Owners, OpenProject(p) \/ OtherUserSaves(p) \/ handleAddManualItem(p)
        PROVE  EditorInv'
    BY <2>1, OpenProjectKeeps, OtherUserKeeps, AdditionsKeep
  <2>2. CASE CloseEditor BY <2>2, CloseEditorKeeps
  <2>3. ASSUME NEW l \in Locales, SwitchLocale(l) PROVE EditorInv'
    BY <2>3, SwitchLocaleKeeps
  <2>4. CASE handleAddItemFromChooser BY <2>4, AdditionsKeep
  <2>5. CASE Save BY <2>5, SaveKeeps
  <2>6. ASSUME NEW i \in DOMAIN drafts,
               \/ handleRemoveItem(i) \/ handleMoveItem(i)
               \/ \E input \in {-1, 2} : handleClipFieldChange(i, input)
        PROVE  EditorInv'
    BY <2>6, RemoveKeeps, MoveItemKeeps, FieldChangeKeeps
  <2>7. ASSUME NEW k \in DOMAIN jobs, AnswerJob(k) \/ LandJob(k) PROVE EditorInv'
    BY <2>7, AnswerJobKeeps, LandJobKeeps
  <2> QED BY <1>2, <2>1, <2>2, <2>3, <2>4, <2>5, <2>6, <2>7 DEF EditorNext
<1> QED BY <1>1, <1>2

(* The inductive invariant of the editors: every job carries what fits the *)
(* page, and the draft is what the user made of it.                        *)
THEOREM EditorInvariance == EditorSpec => []EditorInv
<1>1. EditorInit => EditorInv BY EditorBegins
<1>2. EditorInv /\ [EditorNext]_editorVars => EditorInv' BY EditorKeeps
<1> QED BY <1>1, <1>2, PTL DEF EditorSpec

(* The page, its jobs and the server's items are always what the code can  *)
(* build.                                                                  *)
THEOREM EditorTypes == EditorSpec => []EditorTypeOK
<1>1. EditorInv => EditorTypeOK
  <2>1. SUFFICES ASSUME EditorInv PROVE EditorTypeOK OBVIOUS
  <2>2. options.of \in Owners \cup {Blank} BY <2>1 DEF EditorInv, EditorTyped, Offers
  <2>3. ASSUME NEW k \in DOMAIN jobs
        PROVE  jobs[k].kind \in {"load", "save"} /\ jobs[k].state \in {"sent", "done", "failed"}
    <3>1. PICK t \in Seq(JobRecords) : t = jobs BY <2>1 DEF EditorInv, EditorTyped
    <3>2. k \in 1..Len(t) BY <3>1, LenProperties
    <3>3. t[k] \in JobRecords BY <3>2, ElementOfSeq
    <3> QED BY <3>1, <3>3, JobRecord
  <2> QED BY <2>1, <2>2, <2>3 DEF EditorInv, EditorTyped, EditorTypeOK
<1> QED BY <1>1, EditorInvariance, PTL

(* What the user made of the draft stays until the user changes it, but    *)
(* for the mishaps named: loads and replies keep every item, in order.     *)
THEOREM WorkStaysKept == EditorSpec => []WorkIsKept
<1>1. EditorInv => WorkIsKept
  <2>1. SUFFICES ASSUME EditorInv, workbench = project, mishaps \cap Replacements = {}
                 PROVE  Made(drafts) = wanted
    BY DEF WorkIsKept
  <2>2. workbench # Blank
    BY <2>1, OwnersAreNot, LocalesAssumption DEF EditorInv, EditorTyped
  <2> QED BY <2>1, <2>2 DEF EditorInv, WorkKept
<1> QED BY <1>1, EditorInvariance, PTL

(* When nothing is on its way, the titles of the project's shots are in    *)
(* the page's language.                                                    *)
THEOREM TitlesFollow == EditorSpec => []TitlesFollowLocale
<1>1. EditorInv => TitlesFollowLocale
  <2>1. SUFFICES ASSUME EditorInv, IsPreview, jobs = <<>>, "untranslated" \notin mishaps
                 PROVE  \A i \in DOMAIN drafts :
                            drafts[i].home = project /\ drafts[i].title \in Locales
                                => drafts[i].title = locale
    BY DEF TitlesFollowLocale
  <2>2. NoneOf(jobs, "load") BY <2>1 DEF NoneOf
  <2> QED BY <2>1, <2>2 DEF EditorInv, Titled, TitleFits
<1> QED BY <1>1, EditorInvariance, PTL
=============================================================================
