--------------------------- MODULE UploadSession ---------------------------
(***************************************************************************)
(* Uploads into one import batch (session_handler.go, assetapp).  A client *)
(* opens a session for a file, may ask for it again when it ran out, and   *)
(* completes it: the session is saved as uploaded and then its rows are    *)
(* saved one after the other - asset, file, variant, if the file belongs   *)
(* to a shot its candidate and execution, the item of the batch, and the   *)
(* status of the batch.  Another user confirms items of the batch.         *)
(*                                                                         *)
(* Every statement is a transaction of its own and a row is saved whole,   *)
(* as it was when the request read it.  Requests run at the same time, and *)
(* any of them may stop after any of its statements.  The execution's own  *)
(* life, and AddCandidateAsset, are ShotExecution's; names, sizes and      *)
(* retry counts are left out, and so are sessions outside a batch.         *)
(***************************************************************************)
EXTENDS Integers, FiniteSets, SequencesExt

CONSTANTS
    Uploads,       \* the upload sessions there can be
    MaxRequests,    \* bound: requests that are made
    MaxMoments      \* bound: moments that pass

ASSUME UploadBounds == "batch" \notin Uploads /\ MaxRequests \in Nat /\ MaxMoments \in Nat

VARIABLES
    uploads,        \* the rows of the sessions: status, and when they run out
    imports,        \* what requests saved: the rows of each upload or candidate
    batchStatus,    \* the status of the batch
    uploadWork,     \* the requests under way, oldest first
    requested,      \* how many requests were made
    moment,         \* the time
    uploadSlips     \* sessions and confirms that went wrong in a known way:
                    \* "stale", "cut" or "skipped" of which

uploadVars ==
    <<uploads, imports, batchStatus, uploadWork, requested, moment, uploadSlips>>

NoUpload == [status |-> "none", until |-> 0]
IsOpen(row) == row.until > moment

-----------------------------------------------------------------------------
(* EvaluateUploadResumeAllowed.                                            *)
CanRetry(row) == row.status = "pending"

(* Mutant: a session that was uploaded can be completed again.             *)
CanCompleteOpen(row) == row.status # "none" /\ IsOpen(row)

CanComplete(row) == row.status = "pending" /\ IsOpen(row)

Ask(request) ==
    /\ requested < MaxRequests /\ Len(uploadWork) < 2
    /\ requested' = requested + 1
    /\ uploadWork' = Append(uploadWork, request)

(* CreateSession saves a row and is done; its length may be zero.          *)
CreateSession(s) ==
    /\ requested < MaxRequests /\ uploads[s] = NoUpload
    /\ requested' = requested + 1
    /\ \E length \in 0..1 :
            uploads' = [uploads EXCEPT ![s].status = "pending", ![s].until = moment + length]
    /\ UNCHANGED <<imports, batchStatus, uploadWork, moment, uploadSlips>>

Request(s, read, save, left) ==
    [of |-> s, read |-> read, save |-> save, left |-> left, import |-> 0, items |-> {}]

(* RetrySession reads the row, and gives a session that ran out a new      *)
(* window.  What it will save is made from what it read.                   *)
RetrySession(s) ==
    LET row == uploads[s] IN
    /\ CanRetry(row)
    /\ Ask(Request(s, row, IF IsOpen(row) THEN row ELSE [row EXCEPT !.until = moment + 1],
                   <<"session">>))
    /\ UNCHANGED <<uploads, imports, batchStatus, moment, uploadSlips>>

(* What a completed upload saves, in this order.                           *)
StatementsOf(matched) ==
    IF matched
    THEN <<"session", "asset", "file", "variant", "candidate", "execution", "item",
           "matched_pending_confirm">>
    ELSE <<"session", "asset", "file", "variant", "item", "uploaded_pending_match">>

CompleteSession(s) ==
    LET row == uploads[s] IN
    /\ CanComplete(row)
    /\ \E matched \in BOOLEAN :
            Ask(Request(s, row, [row EXCEPT !.status = "uploaded"], StatementsOf(matched)))
    /\ UNCHANGED <<uploads, imports, batchStatus, moment, uploadSlips>>

(* The items of the batch: uploads whose item was saved.                   *)
BatchItems == {k \in DOMAIN imports : "item" \in imports[k].rows}

(* BatchConfirmImportBatchItems names items the user was shown.            *)
BatchConfirmImportBatchItems ==
    /\ \E items \in (SUBSET BatchItems) \ {{}} :
            Ask([Request("batch", NoUpload, NoUpload, <<"confirmed">>)
                    EXCEPT !.items = items])
    /\ UNCHANGED <<uploads, imports, batchStatus, moment, uploadSlips>>

-----------------------------------------------------------------------------
Others(i) == {uploadWork[j] : j \in DOMAIN uploadWork \ {i}}
IsConfirm(r) == r.of = "batch"

(* Statement i is done; a request with none left has been answered.        *)
Done(i, request) ==
    uploadWork' = IF Len(request.left) = 1 THEN RemoveAt(uploadWork, i)
                ELSE [uploadWork EXCEPT ![i] = [request EXCEPT !.left = Tail(@)]]

(* SaveUploadSession.  A stale save: the row's status is not the one read. *)
SaveUploadSession(i) ==
    LET r == uploadWork[i] IN
    /\ Head(r.left) = "session"
    /\ uploads' = [uploads EXCEPT ![r.of] = r.save]
    /\ uploadSlips' = IF uploads[r.of].status = r.read.status THEN uploadSlips
                      ELSE uploadSlips \cup {<<"stale", r.of>>}
    /\ Done(i, r)
    /\ UNCHANGED <<imports, batchStatus, requested, moment>>

(* SaveMediaAsset, which begins an import, and the rows that belong to it. *)
SaveImportRow(i) ==
    LET r == uploadWork[i]  row == Head(r.left)  k == Len(imports) + 1 IN
    /\ row \in {"asset", "file", "variant", "candidate", "execution", "item"}
    /\ IF row = "asset"
       THEN /\ imports' = Append(imports, [of |-> r.of, rows |-> {row},
                                           confirmed |-> FALSE])
            /\ Done(i, [r EXCEPT !.import = k])
       ELSE /\ imports' = [imports EXCEPT ![r.import].rows = @ \cup {row}]
            /\ Done(i, r)
    /\ UNCHANGED <<uploads, batchStatus, requested, moment, uploadSlips>>

(* SaveImportBatchItem of one of the items a confirm names.                *)
ConfirmItem(i) ==
    \E k \in uploadWork[i].items :
        /\ imports' = [imports EXCEPT ![k].confirmed = TRUE]
        /\ uploadWork' = [uploadWork EXCEPT ![i].items = @ \ {k}]
        /\ UNCHANGED <<uploads, batchStatus, requested, moment, uploadSlips>>

(* SaveImportBatch with the status the request gives it; a complete leaves *)
(* it out, without an error, when it cannot read the batch.  A confirm     *)
(* skips items it did not name; a batch is saved out of turn while a       *)
(* confirm and a complete are both under way.                              *)
SaveImportBatch(i) ==
    LET r == uploadWork[i]  status == Head(r.left)
        Crossed == \E o \in Others(i) : IsConfirm(o) # IsConfirm(r) /\ o.left # <<"session">>
        Skipped == IsConfirm(r) /\ \E k \in BatchItems : ~imports[k].confirmed
    IN
    /\ status \in {"matched_pending_confirm", "uploaded_pending_match", "confirmed"}
    /\ r.items = {}
    /\ \/ batchStatus' = status
       \/ ~IsConfirm(r) /\ UNCHANGED batchStatus
    /\ uploadSlips' = IF Crossed \/ Skipped \/ batchStatus' # status
                      THEN uploadSlips \cup {<<"skipped", "batch">>} ELSE uploadSlips
    /\ Done(i, r)
    /\ UNCHANGED <<uploads, imports, requested, moment>>

(* A statement fails, or the process dies.                                 *)
Stop(i) ==
    LET r == uploadWork[i] IN
    /\ uploadWork' = RemoveAt(uploadWork, i)
    /\ uploadSlips' = IF Head(r.left) = "session" THEN uploadSlips
                      ELSE uploadSlips \cup {<<"cut", r.of>>}
    /\ UNCHANGED <<uploads, imports, batchStatus, requested, moment>>

Pass ==
    /\ moment < MaxMoments
    /\ moment' = moment + 1
    /\ UNCHANGED <<uploads, imports, batchStatus, uploadWork, requested, uploadSlips>>

-----------------------------------------------------------------------------
UploadInit ==
    /\ uploads = [s \in Uploads |-> NoUpload]
    /\ imports = <<>> /\ batchStatus = "pending_review"
    /\ uploadWork = <<>> /\ requested = 0 /\ moment = 0 /\ uploadSlips = {}

UploadNext ==
    \/ \E s \in Uploads : CreateSession(s) \/ RetrySession(s) \/ CompleteSession(s)
    \/ BatchConfirmImportBatchItems
    \/ \E i \in DOMAIN uploadWork :
            \/ SaveUploadSession(i) \/ SaveImportRow(i) \/ ConfirmItem(i)
            \/ SaveImportBatch(i) \/ Stop(i)
    \/ Pass

UploadSpec == UploadInit /\ [][UploadNext]_uploadVars

-----------------------------------------------------------------------------
UploadTypeOK ==
    /\ uploads \in [Uploads -> [status : {"none", "pending", "uploaded"},
                                 until : 0..MaxMoments + 1]]
    /\ \A k \in DOMAIN imports : imports[k].of \in Uploads /\ "asset" \in imports[k].rows
    /\ batchStatus \in {"pending_review", "matched_pending_confirm",
                        "uploaded_pending_match", "confirmed"}
    /\ requested \in 0..MaxRequests /\ moment \in 0..MaxMoments

ImportsOf(s) == {k \in DOMAIN imports : imports[k].of = s}

(* With no request under way a session was uploaded exactly if it has an   *)
(* import, and has one with all its rows; and the batch is confirmed       *)
(* exactly if it has items and all of them are.  The exceptions are what   *)
(* the code cannot exclude: a session saved by a request that had read it  *)
(* before another completed it may have two imports, or one and be open    *)
(* again; a request that stopped halfway leaves a session uploaded whose   *)
(* rows are missing, and a batch as it was, as does a complete that cannot *)
(* read the batch; a confirm that named some items, or ran while a         *)
(* complete did, may leave others unconfirmed.                             *)
UploadsSettle ==
    uploadWork = <<>> =>
        /\ \A s \in Uploads :
              /\ <<"stale", s>> \notin uploadSlips =>
                    /\ Cardinality(ImportsOf(s)) <= 1
                    /\ ImportsOf(s) # {} => uploads[s].status = "uploaded"
                    /\ uploads[s].status = "uploaded" /\ <<"cut", s>> \notin uploadSlips =>
                            ImportsOf(s) # {}
              /\ <<"cut", s>> \notin uploadSlips => ImportsOf(s) \subseteq BatchItems
        /\ (\A slip \in uploadSlips : slip[1] = "stale") =>
              (batchStatus = "confirmed"
                 <=> BatchItems # {} /\ \A k \in BatchItems : imports[k].confirmed)
=============================================================================
