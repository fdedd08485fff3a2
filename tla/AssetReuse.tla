----------------------------- MODULE AssetReuse -----------------------------
(***************************************************************************)
(* Assets used across projects.  The creator's reuse page shows a shot and *)
(* the assets of another project, and makes one of them the shot's primary *)
(* (useAssetReusePicker); the admin console audits the primary of a shot   *)
(* (useAdminAssetReuseController).  Whether an asset may be used is decided*)
(* three times, by the page, by the server and by the audit.               *)
(*                                                                         *)
(* A project has one shot, which is named like it, and assets that differ  *)
(* in their terms, each in an import batch of its own.  The server is      *)
(* external but for its rule (policyapp); assets never change.             *)
(***************************************************************************)
EXTENDS ScreenRequests, Integers, FiniteSets

CONSTANT MaxPicks   \* bound: moves, commands and faults, together

VARIABLES
    reuseAt,        \* the route of the reuse page: shot and source project
    reuseShot,      \* the shot shown and its primary asset, or Blank
    reusableAssets, \* the assets listed: for which project, and which
    reuseError,     \* errorMessage is set
    reuseWork,      \* the asynchronous functions running, oldest first
    looked,         \* the asset of the provenance dialog: asked for, and shown
    auditAt,        \* the shot the audit page is open on, or Off
    audit,          \* the shot and primary asset audited, or Blank
    auditLook,      \* the asset of the audit's provenance dialog, or Blank
    primary,        \* server: the primary asset of each shot, or Blank
    refused,        \* server: it refused an asset the page offered
    picks,          \* how many bounded moves there were
    reuseSlips      \* "shot": what is shown need not be the route's

reuseVars == <<reuseAt, reuseShot, reusableAssets, reuseError, reuseWork, looked, auditAt,
               audit, auditLook, primary, refused, picks, reuseSlips>>

-----------------------------------------------------------------------------
(* Assets.                                                                 *)

Terms ==
    {[rights |-> "clear", consent |-> "unknown", ai |-> FALSE],
     [rights |-> "clear", consent |-> "granted", ai |-> TRUE],
     [rights |-> "clear", consent |-> "unknown", ai |-> TRUE],
     [rights |-> "restricted", consent |-> "granted", ai |-> FALSE]}

Assets == [project : Owners, terms : Terms]

NormalizeConsentStatus(terms) ==
    IF ~terms.ai /\ terms.consent = "unknown" THEN "not_required" ELSE terms.consent

(* The rule of the server.                                                 *)
EvaluateAssetReusePolicy(target, asset) ==
    /\ asset.project # target
    /\ asset.terms.rights = "clear"
    /\ asset.terms.ai => NormalizeConsentStatus(asset.terms) = "granted"

(* The command asks it about the assets of other projects only.     *)
SelectPrimaryAsset(target, asset) ==
    asset.project = target \/ EvaluateAssetReusePolicy(target, asset)

(* The rule of the page.                                                   *)
decideReuseEligibility(target, asset) ==
    /\ asset.project # target
    /\ asset.terms.rights = "clear"
    /\ asset.terms.ai => NormalizeConsentStatus(asset.terms) = "granted"

(* The rule of the audit, which calls an asset of the shot's own project   *)
(* not eligible either.                                                    *)
decideAdminReuseEligibility(target, asset) ==
    /\ asset.project # target
    /\ asset.terms.rights = "clear"
    /\ asset.terms.ai => NormalizeConsentStatus(asset.terms) = "granted"

(* loadReusableAssetLibrary: the assets of the source project, if it is    *)
(* not the shot's own.  The batches that cannot be read are left out.      *)
loadReusableAssetLibrary(current, source, lost) ==
    {a \in Assets : a.project = source /\ source # current /\ a.terms \notin lost}

NoLibrary == [for |-> Off, assets |-> {}]

-----------------------------------------------------------------------------
Pick == picks < MaxPicks /\ picks' = picks + 1

(* A load of the page ("load") or of the audit, a command to use an asset  *)
(* ("apply") or a look at one, and what it got.                            *)
ReuseCall(kind, shot, asset) ==
    [kind |-> kind, shot |-> shot, asset |-> asset, source |-> reuseAt.source,
     of |-> reuseShot, got |-> "nothing"]

(* Mutant: nothing is cancelled.                                           *)
WithoutNone(kind) == reuseWork

(* The function of a kind that runs is cancelled: its answer is dropped.   *)
(* One load, one look and one audit at most run at a time.                 *)
Without(kind) == Cancel(reuseWork, kind)

Applying == {i \in DOMAIN reuseWork : reuseWork[i].kind = "apply"}

NotLooking == [asked |-> Blank, shown |-> Blank]

(* The page is opened, or moved to a shot or a source: what it shows stays *)
(* until the load lands.  The provenance dialog is closed.                 *)
GoToReuse(shot, source) ==
    /\ Pick /\ reuseAt # [shot |-> shot, source |-> source]
    /\ reuseAt' = [shot |-> shot, source |-> source]
    /\ reuseError' = FALSE
    /\ looked' = NotLooking
    /\ reuseWork' = Append(Cancel(Without("load"), "look"),
                           [ReuseCall("load", shot, Blank) EXCEPT !.source = source])
    /\ reuseSlips' = IF Applying # {} THEN {"shot"} ELSE {}
    /\ UNCHANGED <<reuseShot, reusableAssets, auditAt, audit, auditLook, primary, refused>>

LeaveReuse ==
    /\ Pick /\ reuseAt.shot # Off
    /\ reuseAt' = [shot |-> Off, source |-> Off]
    /\ reuseShot' = Blank /\ reusableAssets' = NoLibrary /\ reuseError' = FALSE
    /\ looked' = NotLooking
    /\ reuseWork' = Cancel(Without("load"), "look")
    /\ reuseSlips' = {}
    /\ UNCHANGED <<auditAt, audit, auditLook, primary, refused>>

(* The page lists the assets once the shot has loaded, each with a button  *)
(* to look at it and, if the page's rule allows it, one to apply it.       *)
AssetReusePage(a) == reuseShot # Blank /\ a \in reusableAssets.assets
Allowed(a) == AssetReusePage(a) /\ decideReuseEligibility(reusableAssets.for, a)

(* Nothing keeps the user from applying another before it is done.         *)
handleApplyReuse(a) ==
    /\ Pick /\ Allowed(a)
    /\ reuseWork' = Append(reuseWork, ReuseCall("apply", reuseShot.shot, a))
    /\ reuseSlips' = reuseSlips \cup
            IF \/ reuseShot.shot # reuseAt.shot
               \/ \E i \in DOMAIN reuseWork : reuseWork[i].kind \in {"apply", "load"}
            THEN {"shot"} ELSE {}
    /\ UNCHANGED <<reuseAt, reuseShot, reusableAssets, reuseError, looked, auditAt, audit,
                   auditLook, primary, refused>>

(* handleOpenAssetProvenance of useAssetProvenanceState, and its close:    *)
(* each gives up what was asked before.                                    *)
OpenReuseProvenance(a) ==
    /\ Pick /\ AssetReusePage(a)
    /\ looked' = [asked |-> a, shown |-> Blank]
    /\ reuseWork' = Append(Without("look"), ReuseCall("look", Off, a))
    /\ UNCHANGED <<reuseAt, reuseShot, reusableAssets, reuseError, auditAt, audit,
                   auditLook, primary, refused, reuseSlips>>

resetAssetProvenance ==
    /\ looked.shown # Blank
    /\ looked' = NotLooking /\ reuseWork' = Without("look")
    /\ UNCHANGED <<reuseAt, reuseShot, reusableAssets, reuseError, auditAt, audit,
                   auditLook, primary, refused, picks, reuseSlips>>

-----------------------------------------------------------------------------
(* The audit page.                                                         *)

GoToAudit(shot) ==
    /\ Pick /\ auditAt # shot
    /\ auditAt' = shot
    /\ IF shot = Off THEN audit' = Blank /\ auditLook' = Blank
                     ELSE UNCHANGED <<audit, auditLook>>
    /\ reuseWork' = IF shot = Off THEN Without("audit")
                    ELSE Append(Without("audit"), ReuseCall("audit", shot, Blank))
    /\ UNCHANGED <<reuseAt, reuseShot, reusableAssets, reuseError, looked, primary, refused,
                   reuseSlips>>

AdminAssetReusePage == audit # Blank /\ audit.primary # Blank

(* handleOpenAssetProvenance of the audit gives up nothing.                *)
OpenAuditProvenance ==
    /\ Pick /\ AdminAssetReusePage
    /\ auditLook' = Blank
    /\ reuseWork' = Append(reuseWork, ReuseCall("auditLook", Off, audit.primary))
    /\ UNCHANGED <<reuseAt, reuseShot, reusableAssets, reuseError, looked, auditAt, audit,
                   primary, refused, reuseSlips>>

handleCloseAssetProvenance ==
    /\ auditLook # Blank /\ auditLook' = Blank
    /\ UNCHANGED <<reuseAt, reuseShot, reusableAssets, reuseError, reuseWork, looked, auditAt,
                   audit, primary, refused, picks, reuseSlips>>

-----------------------------------------------------------------------------
(* The server: a shot is read, an asset is made its primary or refused.    *)
(* An answer may be lost.                                                  *)
ServeReuse(i) ==
    LET w == reuseWork[i]
        Got(what) == reuseWork' = [reuseWork EXCEPT ![i].got = what]
    IN
    /\ w.got = "nothing"
    /\ \/ /\ w.kind \in {"load", "audit"}
          /\ reuseWork' = [reuseWork EXCEPT
                              ![i] = [@ EXCEPT !.got = "answer", !.asset = primary[w.shot]]]
          /\ UNCHANGED <<primary, refused, picks, reuseSlips>>
       \/ /\ w.kind \in {"look", "auditLook"} /\ Got("answer")
          /\ UNCHANGED <<primary, refused, picks, reuseSlips>>
       \/ /\ w.kind = "apply"
          /\ IF SelectPrimaryAsset(w.shot, w.asset)
             THEN /\ primary' = [primary EXCEPT ![w.shot] = w.asset] /\ UNCHANGED refused
                  /\ \/ Got("answer") /\ UNCHANGED <<picks, reuseSlips>>
                     \/ Pick /\ Got("error") /\ reuseSlips' = reuseSlips \cup {"shot"}
             ELSE /\ refused' = TRUE /\ Got("error")
                  /\ UNCHANGED <<primary, picks, reuseSlips>>
       \/ Pick /\ Got("error") /\ UNCHANGED <<primary, refused, reuseSlips>>
    /\ UNCHANGED <<reuseAt, reuseShot, reusableAssets, reuseError, looked, auditAt, audit,
                   auditLook>>

(* Another user changes the primary of a shot.                             *)
OtherPrimary(shot, a) ==
    /\ Pick /\ SelectPrimaryAsset(shot, a) /\ primary[shot] # a
    /\ primary' = [primary EXCEPT ![shot] = a]
    /\ reuseSlips' = reuseSlips \cup {"shot"}
    /\ UNCHANGED <<reuseAt, reuseShot, reusableAssets, reuseError, reuseWork, looked, auditAt,
                   audit, auditLook, refused>>

-----------------------------------------------------------------------------
(* The answers.                                                            *)

(* The shot was read; the assets are read next, and shown with it.  If     *)
(* they cannot be read the shot is shown with an error; if the shot cannot *)
(* be read there is nothing but the error.                                 *)
TakeReuseLoad(w) ==
    /\ w.kind = "load"
    /\ IF w.got = "answer"
       THEN /\ reuseShot' = [shot |-> w.shot, primary |-> w.asset]
            /\ \/ /\ \E lost \in {{}} \cup {{terms} : terms \in Terms} :
                        /\ lost # {} => w.source \notin {Off, w.shot} /\ picks < MaxPicks
                        /\ picks' = IF lost # {} THEN picks + 1 ELSE picks
                        /\ reusableAssets' =
                               [for |-> w.shot,
                                assets |-> loadReusableAssetLibrary(w.shot, w.source, lost)]
                  /\ reuseError' = FALSE
               \/ /\ Pick /\ w.source # Off
                  /\ reusableAssets' = NoLibrary /\ reuseError' = TRUE
       ELSE /\ reuseShot' = Blank /\ reusableAssets' = NoLibrary /\ reuseError' = TRUE
            /\ UNCHANGED picks
    /\ UNCHANGED <<looked, audit, auditLook, reuseSlips>>

(* The shot the page showed when the asset was applied is shown again with *)
(* it, wherever the page is now.                                           *)
TakeApply(w) ==
    /\ w.kind = "apply"
    /\ IF w.got = "answer"
       THEN /\ reuseShot' = [w.of EXCEPT !.primary = w.asset] /\ reuseError' = FALSE
            /\ reuseSlips' = reuseSlips \cup IF w.shot # reuseAt.shot THEN {"shot"} ELSE {}
       ELSE UNCHANGED <<reuseShot, reuseError, reuseSlips>>
    /\ UNCHANGED <<reusableAssets, looked, audit, auditLook, picks>>

TakeLook(w) ==
    /\ w.kind = "look"
    /\ looked' = IF w.got = "answer" THEN [looked EXCEPT !.shown = w.asset] ELSE looked
    /\ UNCHANGED <<reuseShot, reusableAssets, reuseError, audit, auditLook, picks, reuseSlips>>

(* loadAdminAssetReuseAudit: then the provenance of the primary is read.   *)
TakeAudit(w) ==
    /\ w.kind = "audit"
    /\ \/ w.got = "answer" /\ audit' = [shot |-> w.shot, primary |-> w.asset] /\ UNCHANGED picks
       \/ w.got = "answer" /\ w.asset # Blank /\ Pick /\ audit' = Blank
       \/ w.got = "error" /\ audit' = Blank /\ UNCHANGED picks
    /\ UNCHANGED <<reuseShot, reusableAssets, reuseError, looked, auditLook, reuseSlips>>

TakeAuditLook(w) ==
    /\ w.kind = "auditLook"
    /\ auditLook' = IF w.got = "answer" THEN w.asset ELSE Blank
    /\ UNCHANGED <<reuseShot, reusableAssets, reuseError, looked, audit, picks, reuseSlips>>

TakeReuse(i) ==
    LET w == reuseWork[i] IN
    /\ w.got # "nothing"
    /\ \/ TakeReuseLoad(w) \/ TakeApply(w) \/ TakeLook(w) \/ TakeAudit(w) \/ TakeAuditLook(w)
    /\ reuseWork' = RemoveAt(reuseWork, i)
    /\ UNCHANGED <<reuseAt, auditAt, primary, refused>>

-----------------------------------------------------------------------------
ReuseInit ==
    /\ reuseAt = [shot |-> Off, source |-> Off]
    /\ reuseShot = Blank /\ reusableAssets = NoLibrary /\ reuseError = FALSE
    /\ reuseWork = <<>> /\ looked = NotLooking
    /\ auditAt = Off /\ audit = Blank /\ auditLook = Blank
    /\ primary = [o \in Owners |-> Blank] /\ refused = FALSE
    /\ picks = 0 /\ reuseSlips = {}

ReuseNext ==
    \/ \E shot \in Owners, source \in Owners \cup {Off} : GoToReuse(shot, source)
    \/ LeaveReuse
    \/ \E a \in Assets : handleApplyReuse(a) \/ OpenReuseProvenance(a)
                            \/ \E shot \in Owners : OtherPrimary(shot, a)
    \/ resetAssetProvenance
    \/ \E shot \in Owners \cup {Off} : GoToAudit(shot)
    \/ OpenAuditProvenance \/ handleCloseAssetProvenance
    \/ \E i \in DOMAIN reuseWork : ServeReuse(i) \/ TakeReuse(i)

ReuseSpec == ReuseInit /\ [][ReuseNext]_reuseVars

-----------------------------------------------------------------------------
ReuseTypeOK ==
    LET Primaries == Assets \cup {Blank}
        Shots == [shot : Owners, primary : Primaries] \cup {Blank} IN
    /\ reuseShot \in Shots /\ audit \in Shots
    /\ reusableAssets.assets \subseteq Assets
    /\ {reuseError, refused} \subseteq BOOLEAN
    /\ {looked.asked, looked.shown, auditLook} \subseteq Primaries
    /\ primary \in [Owners -> Primaries] /\ reuseSlips \subseteq {"shot"}

(* When nothing is under way, the page shows the shot its route names with *)
(* the primary asset the server has for it, or an error; and the audit is  *)
(* of the shot its route names.  The exceptions: another user changed the  *)
(* primary, an answer was lost, two assets were applied at once, or one    *)
(* was applied while the page loaded or moved, whose answers then come in  *)
(* any order: the answer to the command brings the shot before back.  The  *)
(* dialog only shows the asset last asked for.  The rules of the page, the *)
(* audit and the server agree: the server never refused an asset the page  *)
(* offered, though it may be listed for the shot before, and the audit     *)
(* calls every primary asset of another project eligible.                  *)
ReuseShowsItsShot ==
    reuseWork = <<>> =>
        /\ "shot" \notin reuseSlips =>
               \/ reuseShot = IF reuseAt.shot = Off THEN Blank
                              ELSE [shot |-> reuseAt.shot, primary |-> primary[reuseAt.shot]]
               \/ reuseShot = Blank /\ reuseError
        /\ audit # Blank => audit.shot = auditAt
        /\ looked.shown \in {Blank, looked.asked}
        /\ audit # Blank /\ audit.primary # Blank =>
               audit.primary.project = audit.shot
                 \/ decideAdminReuseEligibility(audit.shot, audit.primary)
        /\ ~refused
=============================================================================
