---------------------------- MODULE CollabLease ----------------------------
(***************************************************************************)
(* The edit lease of one shot, scene or project (contentapp).  A row says  *)
(* who holds it and until when.  A user claims it, for some time, claims   *)
(* it again to keep it, and releases it; whoever asks while another user   *)
(* holds it is refused, and a note of the conflict is saved in the row.    *)
(*                                                                         *)
(* A request reads the row, enters the user as present, decides by what it *)
(* read, and saves the row whole: there is no transaction around the       *)
(* three, and a row saved in between is overwritten.  Any statement may    *)
(* fail.  The note, draft versions and the event published last are left   *)
(* out; a user has one request under way.                                  *)
(***************************************************************************)
EXTENDS Integers, FiniteSets

CONSTANTS
    Users,          \* who asks for the lease
    Nobody,         \* no user
    LeaseTTL,       \* how long a lease lasts
    MaxClaims,      \* bound: requests that are made
    MaxTicks        \* bound: moments that pass

ASSUME NobodyIsNoUser == Nobody \notin Users
ASSUME LeasesLast == LeaseTTL \in Nat \ {0}
ASSUME ClaimsAreBounded == MaxClaims \in Nat /\ MaxTicks \in Nat

VARIABLES
    lease,          \* the row: whether it exists, the holder, and until when
    presence,       \* the row of each user's presence
    call,           \* the request of each user
    claims,         \* how many requests were made
    tick,           \* the time
    counted,        \* until when a user was told that it holds the lease, or 0
    doubtful        \* users whose lease was saved over, or brought back, by a
                    \* request that had read another row

leaseVars == <<lease, presence, call, claims, tick, counted, doubtful>>

NoLease == [exists |-> FALSE, holder |-> Nobody, until |-> 0]
Idle == [kind |-> "none", at |-> "idle", read |-> NoLease, until |-> 0]

(* The lease of row is held by another user than u at the time now.        *)
(* Mutant: whose it is does not matter.                                    *)
HeldByNobodyElse(row, u, now) == FALSE

HeldByAnother(row, u, now) == row.holder \notin {Nobody, u} /\ row.until > now

-----------------------------------------------------------------------------
Returned(u) == call' = [call EXCEPT ![u] = Idle]

(* A request begins with reading the row.  GetCollaborationSession and a   *)
(* claim make a row if there is none.                                      *)
GetCollaborationSession(u, kind) ==
    /\ claims < MaxClaims /\ claims' = claims + 1
    /\ call[u] = Idle
    /\ call' = [call EXCEPT ![u] =
            [kind |-> kind, read |-> lease, until |-> 0,
             at |-> IF lease.exists THEN "enter" ELSE "insert"]]
    /\ UNCHANGED <<lease, presence, tick, counted, doubtful>>

(* ensureCollaborationSession inserts; the owner's index takes one row.    *)
ensureCollaborationSession(u) ==
    /\ call[u].at = "insert" /\ ~lease.exists
    /\ lease' = [NoLease EXCEPT !.exists = TRUE]
    /\ call' = [call EXCEPT ![u] = [@ EXCEPT !.at = "enter", !.read = lease']]
    /\ UNCHANGED <<presence, claims, tick, counted, doubtful>>

(* Reading a session ends with its answer.                                 *)
AnswerSession(u) ==
    /\ call[u].at = "enter" /\ call[u].kind = "get"
    /\ Returned(u)
    /\ UNCHANGED <<lease, presence, claims, tick, counted, doubtful>>

(* upsertPresence of a claim, made before it is known whether the lease is *)
(* another user's.  The time of the decision is that of this statement.    *)
(* The one client that claims asks to be shown as editing, and always for  *)
(* the same time (useCollabController).                                    *)
EnterPresence(u) ==
    LET until == tick + LeaseTTL IN
    /\ call[u].at = "enter" /\ call[u].kind = "claim"
    /\ presence' = [presence EXCEPT ![u] = [status |-> "editing", until |-> until]]
    /\ call' = [call EXCEPT ![u] = [@ EXCEPT !.until = until,
            !.at = IF HeldByAnother(call[u].read, u, tick) THEN "refuse" ELSE "claim"]]
    /\ UNCHANGED <<lease, claims, tick, counted, doubtful>>

(* SaveCollaborationSession: the row is replaced.  If it is not the one    *)
(* that was read, whoever holds it before and after is in doubt.           *)
SaveCollaborationSession(u, row) ==
    /\ lease' = row
    /\ doubtful' =
        (IF lease = call[u].read THEN doubtful
         ELSE doubtful \cup ({lease.holder, row.holder} \ {Nobody}))
            \ (IF row.holder = u THEN {u} ELSE {})

(* A claim that is granted; its answer may be lost.                        *)
UpsertCollaborationLease(u) ==
    LET row == [call[u].read EXCEPT !.holder = u, !.until = call[u].until] IN
    /\ call[u].at = "claim"
    /\ SaveCollaborationSession(u, row)
    /\ counted' \in {counted, [counted EXCEPT ![u] = row.until]}
    /\ Returned(u)
    /\ UNCHANGED <<presence, claims, tick>>

(* A refused claim saves the row it read, with the note of the conflict.   *)
RefuseLease(u) ==
    /\ call[u].at = "refuse"
    /\ SaveCollaborationSession(u, call[u].read)
    /\ Returned(u)
    /\ UNCHANGED <<presence, claims, tick, counted>>

(* ReleaseCollaborationLease: only the holder of a lease that has not run  *)
(* out.  Who asks for it no longer counts on the lease.                    *)
ReleaseCollaborationLease(u) ==
    /\ claims < MaxClaims /\ claims' = claims + 1
    /\ call[u] = Idle
    /\ counted' = [counted EXCEPT ![u] = 0]
    /\ IF lease.holder = u /\ lease.until > tick
       THEN call' = [call EXCEPT ![u] = [Idle EXCEPT !.kind = "release", !.at = "release",
                                                     !.read = lease]]
       ELSE UNCHANGED call
    /\ UNCHANGED <<lease, presence, tick, doubtful>>

SaveRelease(u) ==
    /\ call[u].at = "release"
    /\ SaveCollaborationSession(u, [call[u].read EXCEPT !.holder = Nobody, !.until = 0])
    /\ call' = [call EXCEPT ![u] = [@ EXCEPT !.at = "leave"]]
    /\ UNCHANGED <<presence, claims, tick, counted>>

LeavePresence(u) ==
    /\ call[u].at = "leave"
    /\ presence' = [presence EXCEPT ![u] = [status |-> "released", until |-> tick]]
    /\ Returned(u)
    /\ UNCHANGED <<lease, claims, tick, counted, doubtful>>

(* A statement fails, as an insert does when another made the row.         *)
FailLease(u) ==
    /\ call[u] # Idle
    /\ Returned(u)
    /\ UNCHANGED <<lease, presence, claims, tick, counted, doubtful>>

Tick ==
    /\ tick < MaxTicks
    /\ tick' = tick + 1
    /\ UNCHANGED <<lease, presence, call, claims, counted, doubtful>>

-----------------------------------------------------------------------------
LeaseInit ==
    /\ lease = NoLease
    /\ presence = [u \in Users |-> [status |-> "none", until |-> 0]]
    /\ call = [u \in Users |-> Idle]
    /\ claims = 0 /\ tick = 0 /\ counted = [u \in Users |-> 0] /\ doubtful = {}

LeaseNext ==
    \/ \E u \in Users :
        \/ \E kind \in {"get", "claim"} : GetCollaborationSession(u, kind)
        \/ ensureCollaborationSession(u) \/ AnswerSession(u) \/ EnterPresence(u)
        \/ UpsertCollaborationLease(u) \/ RefuseLease(u)
        \/ ReleaseCollaborationLease(u) \/ SaveRelease(u) \/ LeavePresence(u)
        \/ FailLease(u)
    \/ Tick

LeaseSpec == LeaseInit /\ [][LeaseNext]_leaseVars

-----------------------------------------------------------------------------
Moments == 0..MaxTicks + LeaseTTL
Leases == [exists : BOOLEAN, holder : Users \cup {Nobody}, until : Moments]
LeaseCalls == [kind : {"none", "get", "claim", "release"},
               at : {"idle", "insert", "enter", "claim", "refuse", "release", "leave"},
               read : Leases, until : Moments]

LeaseTypeOK ==
    /\ lease \in Leases
    /\ presence \in [Users -> [status : {"none", "editing", "released"}, until : Moments]]
    /\ call \in [Users -> LeaseCalls]
    /\ claims \in 0..MaxClaims /\ tick \in 0..MaxTicks
    /\ counted \in [Users -> Moments] /\ doubtful \subseteq Users

(* A user who was told that it holds the lease, and whose time has not run *)
(* out, does hold it, until then or longer, and is shown as editing.       *)
(* So two users count on the lease at once only if a request saved the row *)
(* over another's: two claims of a free lease, a claim and a renewal of    *)
(* one that just ran out, or the note of a conflict, which takes back a    *)
(* renewal and brings back a lease that was released.                      *)
LeaseIsHeld ==
    \A u \in Users : counted[u] > tick /\ u \notin doubtful =>
        /\ lease.holder = u /\ lease.until >= counted[u]
        /\ presence[u].status = "editing" /\ presence[u].until >= counted[u]
=============================================================================
