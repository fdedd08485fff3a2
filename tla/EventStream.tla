----------------------------- MODULE EventStream -----------------------------
(***************************************************************************)
(* The events of one project: services publish them, the publisher of each *)
(* process appends them to the outbox table and keeps the newest in memory,*)
(* and the API process streams them to connected clients, who come back    *)
(* with the id of the last event they received and get the rest replayed.  *)
(* Subscribers live in the API process: what a worker publishes reaches a  *)
(* client by replay only.  An event is named by its place in the order of  *)
(* (created_at, id); the clocks of the processes are taken to agree.       *)
(***************************************************************************)
EXTENDS Naturals, Sequences, FiniteSets, FiniteSetsExt, SequencesExt

CONSTANTS
    Clients,     \* browser tabs
    Api,         \* publications that can be in progress in the API process
    Remote,      \* ... and in worker processes
    MaxEvents,   \* bound on the events published
    Buffer,      \* what the channel of a subscriber holds
    RingSize,    \* what the publisher keeps in memory
    Faults       \* what can go wrong

ASSUME MaxEventsAssumption == MaxEvents \in Nat
ASSUME SizesAssumption  == Buffer \in Nat \ {0} /\ RingSize \in Nat \ {0}
ASSUME FaultsAssumption == Faults \subseteq {"append", "reply", "list", "restart"}

VARIABLES
    clock,    \* the events created so far
    outbox,   \* table event_outbox
    ring,     \* the publisher's records, oldest first
    nextID,   \* the publisher's counter of events
    pub,      \* what each publication holds in memory
    conn,     \* what the handler of each client's connection holds
    cursor,   \* the id each client received last
    remote,   \* history: the events workers published
    dropped   \* history: what a full channel dropped and nobody made up for

vars == <<clock, outbox, ring, nextID, pub, conn, cursor, remote, dropped>>

Publications == Api \cup Remote
Events == 1 .. MaxEvents

(* Rows have a uuid; an event that is not in the table is "evt-<number>".  *)
Row(e)   == [kind |-> "row", n |-> e]
Local(n) == [kind |-> "evt", n |-> n]
NoId     == [kind |-> "none", n |-> 0]

Item(e, id) == [event |-> e, id |-> id]
IdlePub == [pc |-> "idle", item |-> Item(0, NoId), targets |-> {}]
Off     == [pc |-> "off", from |-> NoId, rows |-> {}, failed |-> FALSE,
            replay |-> <<>>, replayed |-> {}, chan |-> <<>>, sent |-> <<>>,
            early |-> {}, listed |-> {}]

Init ==
    /\ clock = 0
    /\ outbox = {}
    /\ ring = <<>>
    /\ nextID = 0
    /\ pub = [p \in Publications |-> IdlePub]
    /\ conn = [c \in Clients |-> Off]
    /\ cursor = [c \in Clients |-> NoId]
    /\ remote = {}
    /\ dropped = [c \in Clients |-> {}]

clients == <<conn, cursor, dropped>>

-----------------------------------------------------------------------------
(* PublishWithContext.  The time of an event is taken before its publisher  *)
(* is entered: renders pass it along.                                       *)

Begin(p) ==
    /\ pub[p].pc = "idle"
    /\ clock < MaxEvents
    /\ clock' = clock + 1
    /\ pub' = [pub EXCEPT ![p].pc = "select", ![p].item.event = clock + 1]
    /\ remote' = IF p \in Remote THEN remote \cup {clock + 1} ELSE remote
    /\ UNCHANGED <<outbox, ring, nextID, clients>>

(* Who is subscribed is looked up first; a worker has no subscribers, and   *)
(* its counter and its records are its own.                                 *)
SubscribedOnceLive == {c \in Clients : conn[c].pc = "live"}
Subscribed == {c \in Clients : conn[c].pc # "off"}

Select(p) ==
    /\ pub[p].pc = "select"
    /\ IF p \in Api
         THEN /\ nextID' = nextID + 1
              /\ pub' = [pub EXCEPT ![p].pc = "append", ![p].targets = Subscribed,
                                    ![p].item.id = Local(nextID + 1)]
         ELSE /\ pub' = [pub EXCEPT ![p].pc = "append"]
              /\ UNCHANGED nextID
    /\ UNCHANGED <<clock, outbox, ring, remote, clients>>

(* The append fails, or succeeds and is taken to have failed, and then the  *)
(* event keeps its local id.  A worker is done: nobody listens there.       *)
Appended(p, id) ==
    pub' = [pub EXCEPT ![p] = IF p \in Api THEN [@ EXCEPT !.pc = "record",
                                                         !.item.id = id]
                                           ELSE IdlePub]

AppendRow(p) ==
    LET e == pub[p].item.event
    IN  /\ pub[p].pc = "append"
        /\ \/ /\ outbox' = outbox \cup {e}
              /\ Appended(p, Row(e))
           \/ /\ "reply" \in Faults
              /\ outbox' = outbox \cup {e}
              /\ Appended(p, pub[p].item.id)
           \/ /\ "append" \in Faults
              /\ outbox' = outbox
              /\ Appended(p, pub[p].item.id)
        /\ UNCHANGED <<clock, ring, nextID, remote, clients>>

(* appendRecordLocked: the oldest record makes room. *)
KeptOneMore(records) ==
    IF Len(records) <= RingSize THEN records ELSE Tail(records)
Kept(records) == IF Len(records) < RingSize THEN records ELSE Tail(records)

Record(p) ==
    /\ pub[p].pc = "record"
    /\ ring' = Append(Kept(ring), pub[p].item)
    /\ pub' = [pub EXCEPT ![p].pc = "send"]
    /\ UNCHANGED <<clock, outbox, nextID, remote, clients>>

(* No send blocks: a full channel drops the event, which is of no matter if *)
(* it was replayed.  (The sends do not depend on one another.)              *)
Send(p) ==
    LET item == pub[p].item
        room == {c \in pub[p].targets : Len(conn[c].chan) < Buffer}
        lost == {c \in pub[p].targets \ room : item.id \notin conn[c].replayed}
    IN  /\ pub[p].pc = "send"
        /\ conn' = [c \in Clients |->
                      IF c \in room
                        THEN [conn[c] EXCEPT !.chan = Append(@, item)]
                        ELSE conn[c]]
        /\ dropped' = [c \in Clients |->
                         IF c \in lost
                           THEN dropped[c] \cup {item.event} ELSE dropped[c]]
        /\ pub' = [pub EXCEPT ![p] = IdlePub]
        /\ UNCHANGED <<clock, outbox, ring, nextID, remote, cursor>>

Publish(p) == Begin(p) \/ Select(p) \/ AppendRow(p) \/ Record(p) \/ Send(p)

-----------------------------------------------------------------------------
(* /sse/events: subscribe, replay what is behind the cursor, then stream.   *)

(* The events that chose their subscribers before c subscribed.  (History.) *)
Chosen == {pub[p].item.event : p \in {q \in Api : pub[q].pc \notin {"idle", "select"}}}

Connect(c) ==
    /\ conn[c].pc = "off"
    /\ conn' = [conn EXCEPT ![c] = [Off EXCEPT !.pc = "list", !.from = cursor[c],
                                               !.early = Chosen]]
    /\ UNCHANGED <<clock, outbox, ring, nextID, pub, remote, cursor, dropped>>

(* postgresEventRecorder.List: a cursor that is no row yields nothing.      *)
RowsBehind(from) ==
    CASE from.kind = "none" -> outbox
      [] from.kind = "row"  -> {e \in outbox : e > from.n}
      [] from.kind = "evt"  -> {}

ListRows(c) ==
    /\ conn[c].pc = "list"
    /\ \/ conn' = [conn EXCEPT ![c].pc = "merge", ![c].rows = RowsBehind(conn[c].from),
                                ![c].listed = outbox]
       \/ /\ "list" \in Faults
          /\ conn' = [conn EXCEPT ![c].pc = "merge", ![c].failed = TRUE]
    /\ UNCHANGED <<clock, outbox, ring, nextID, pub, remote, cursor, dropped>>

(* listRecordedEventsLocked: the records behind the cursor; a cursor that   *)
(* is not among them yields nothing.                                        *)
RecordsBehind(from) ==
    LET At == {i \in DOMAIN ring : ring[i].id = from}
    IN  CASE from = NoId -> ring
          [] from # NoId /\ At = {} -> <<>>
          [] OTHER -> SubSeq(ring, Min(At) + 1, Len(ring))

(* mergeReplayEvents: rows and local events in the order of creation, those *)
(* created at once in the order of their ids, which may be either; when the *)
(* rows cannot be listed, all the records as they are.                      *)
Merged(rows, records) ==
    LET items == {Item(e, Row(e)) : e \in rows}
                   \cup {item \in Range(records) : item.id.kind = "evt"}
    IN  {q \in SetToSeqs(items) :
            \A i, j \in DOMAIN q : i < j => q[i].event <= q[j].event}

Merge(c) ==
    LET records == RecordsBehind(conn[c].from)
    IN  /\ conn[c].pc = "merge"
        /\ \E replay \in IF conn[c].failed THEN {records}
                                           ELSE Merged(conn[c].rows, records) :
              conn' = [conn EXCEPT
                         ![c].pc = "live", ![c].replay = replay, ![c].rows = {},
                         ![c].replayed = {item.id : item \in Range(replay)}]
        /\ UNCHANGED <<clock, outbox, ring, nextID, pub, remote, cursor, dropped>>

(* An event is written, and the client keeps its id.                        *)
Receive(c, item, rest) ==
    /\ conn' = [conn EXCEPT ![c] = [rest EXCEPT !.sent = Append(@, item)]]
    /\ cursor' = [cursor EXCEPT ![c] = item.id]
    /\ dropped' = [dropped EXCEPT ![c] = @ \ {item.event}]

WriteReplay(c) ==
    /\ conn[c].replay # <<>>
    /\ Receive(c, Head(conn[c].replay), [conn[c] EXCEPT !.replay = Tail(@)])
    /\ UNCHANGED <<clock, outbox, ring, nextID, pub, remote>>

IsFreshAlways(c, item) == TRUE
IsFresh(c, item) == item.id \notin conn[c].replayed

WriteLive(c) ==
    LET item == Head(conn[c].chan)
        rest == [conn[c] EXCEPT !.chan = Tail(@)]
    IN  /\ conn[c].pc = "live"
        /\ conn[c].replay = <<>>
        /\ conn[c].chan # <<>>
        /\ IF IsFresh(c, item)
             THEN Receive(c, item, rest)
             ELSE /\ conn' = [conn EXCEPT ![c] = rest]
                  /\ UNCHANGED <<cursor, dropped>>
        /\ UNCHANGED <<clock, outbox, ring, nextID, pub, remote>>

(* The connection ends.  Who still sends to its channel sends to nobody.    *)
Unsubscribe(cs) ==
    pub' = [p \in Publications |-> [pub[p] EXCEPT !.targets = @ \ cs]]

Cut(c) ==
    /\ conn[c].pc # "off"
    /\ conn' = [conn EXCEPT ![c] = Off]
    /\ Unsubscribe({c})
    /\ UNCHANGED <<clock, outbox, ring, nextID, remote, cursor, dropped>>

(* The API process restarts: only the table is left, and numbers start over. *)
Restart ==
    /\ "restart" \in Faults
    /\ conn' = [c \in Clients |-> Off]
    /\ pub' = [p \in Publications |-> IF p \in Api THEN IdlePub ELSE pub[p]]
    /\ ring' = <<>>
    /\ nextID' = 0
    /\ UNCHANGED <<clock, outbox, remote, cursor, dropped>>

Next ==
    \/ \E p \in Publications : Publish(p)
    \/ \E c \in Clients :
          \/ Connect(c) \/ ListRows(c) \/ Merge(c)
          \/ WriteReplay(c) \/ WriteLive(c) \/ Cut(c)
    \/ Restart

Spec == Init /\ [][Next]_vars

-----------------------------------------------------------------------------
(* Properties. *)

Ids   == {NoId} \cup {Row(e) : e \in Events} \cup {Local(n) : n \in Events}
Items == [event : Events, id : Ids]

(* Type invariant; memory stays within its bounds. *)
TypeOK ==
    /\ clock \in 0 .. MaxEvents
    /\ outbox \subseteq 1 .. clock
    /\ ring \in Seq(Items) /\ Len(ring) <= RingSize
    /\ nextID \in 0 .. MaxEvents
    /\ pub \in [Publications ->
                   [pc : {"idle", "select", "append", "record", "send"},
                    item : [event : 0 .. clock, id : Ids], targets : SUBSET Subscribed]]
    /\ conn \in [Clients ->
                    [pc : {"off", "list", "merge", "live"}, from : Ids,
                     rows : SUBSET outbox, failed : BOOLEAN, replay : Seq(Items),
                     replayed : SUBSET Ids, chan : Seq(Items), sent : Seq(Items),
                     early : SUBSET (1 .. clock), listed : SUBSET outbox]]
    /\ \A c \in Clients : Len(conn[c].chan) <= Buffer
    /\ cursor \in [Clients -> Ids]
    /\ remote \subseteq 1 .. clock
    /\ dropped \in [Clients -> SUBSET (1 .. clock)]

(* No id is written twice on a connection, though an event may be both       *)
(* replayed and streamed.                                                    *)
NoDuplicate ==
    \A c \in Clients : \A i, j \in DOMAIN conn[c].sent :
        conn[c].sent[i].id = conn[c].sent[j].id => i = j

(* Between what is replayed and what is streamed there is no gap but one: a  *)
(* client that is up to date has every event of the table behind its cursor, *)
(* except those that reached the table after the replay was read and that    *)
(* its full channel dropped, a worker published, or a publisher was sending  *)
(* since before the client subscribed.  (The rows could be listed, and the   *)
(* cursor is a row.)                                                         *)
UpToDate(c) == /\ conn[c].pc = "live" /\ ~conn[c].failed
               /\ conn[c].replay = <<>> /\ conn[c].chan = <<>>
Sending(e)  == \E p \in Api : pub[p].item.event = e
Unlisted(c) == outbox \ conn[c].listed
Excused(c)  == Unlisted(c) \cap (dropped[c] \cup remote \cup conn[c].early)
NoGap ==
    \A c \in Clients :
        UpToDate(c) /\ conn[c].from.kind # "evt" =>
            \A e \in outbox \ Excused(c) :
                \/ e <= conn[c].from.n
                \/ Sending(e)
                \/ \E i \in DOMAIN conn[c].sent : conn[c].sent[i].event = e

(* What a full channel drops can be recovered by a replay behind the cursor. *)
DroppedIsRecoverable ==
    \A c \in Clients : \A e \in dropped[c] :
        \/ e \in RowsBehind(cursor[c])
        \/ \E i \in DOMAIN RecordsBehind(cursor[c]) :
              RecordsBehind(cursor[c])[i].event = e
=============================================================================
