----------------------------- MODULE EventProofs ----------------------------
(***************************************************************************)
(* Proofs about the event stream (EventStream).                            *)
(*                                                                         *)
(* Whether a connection writes an event once, and misses none, depends on  *)
(* what publications and channels still hold: EventInv says where each     *)
(* event is that a client has not received.                                *)
(***************************************************************************)
EXTENDS EventStream, WorkLemmas, FiniteSetTheorems, SequenceTheorems

EventsOf(s) == {s[i].event : i \in DOMAIN s}
IdsOf(s)    == {s[i].id : i \in DOMAIN s}
EventsDiffer(s) == \A i, j \in DOMAIN s : s[i].event = s[j].event => i = j
IdsDiffer(s)    == \A i, j \in DOMAIN s : s[i].id = s[j].id => i = j

(* The items the API process knows: those it publishes, its records, and  *)
(* what is in its connections.                                            *)
Publishing == {p \in Api : pub[p].pc \in {"append", "record", "send"}}
KnownOf(c) == Range(conn[c].chan) \cup Range(conn[c].replay) \cup Range(conn[c].sent)
Known == Range(ring) \cup {pub[p].item : p \in Publishing}
           \cup UNION {KnownOf(c) : c \in Clients}

(* An id is the id of one event. *)
Named(x) ==
    /\ x.event \in 1 .. clock
    /\ \/ x.id = Row(x.event)
       \/ \E n \in 1 .. nextID : x.id = Local(n)
ItemsNamed ==
    /\ \A x \in Known : Named(x)
    /\ \A x, y \in Known : x.id = y.id => x.event = y.event

(* What a publication holds; no two of them have the same event.          *)
PubFits(p) ==
    /\ pub[p].pc = "idle" => pub[p] = IdlePub
    /\ pub[p].pc = "select" => pub[p].targets = {}
    /\ pub[p].pc # "idle" => pub[p].item.event \in 1 .. clock
    /\ p \notin Api =>
          /\ pub[p].targets = {} /\ pub[p].pc \in {"idle", "select", "append"}
          /\ pub[p].pc # "idle" => pub[p].item.event \in remote
OneEventEach ==
    \A p, q \in Publications :
        p # q /\ pub[p].pc # "idle" /\ pub[q].pc # "idle" =>
            pub[p].item.event # pub[q].item.event

(* There are as many events as local numbers given and about to be given. *)
Selecting == {pub[p].item.event : p \in {q \in Api : pub[q].pc = "select"}}
NumbersSuffice == nextID + Cardinality(Selecting) <= clock

(* An event is recorded once, and sent to a channel once.                 *)
InHand(e) == \E p \in Api : pub[p].pc # "idle" /\ pub[p].item.event = e
RingFits ==
    /\ EventsDiffer(ring)
    /\ \A p \in Api : pub[p].pc \in {"select", "append", "record"} =>
          pub[p].item.event \notin EventsOf(ring)
ChanFits(c) ==
    /\ EventsDiffer(conn[c].chan)
    /\ \A e \in EventsOf(conn[c].chan) : ~InHand(e)

(* What was written was replayed, or streamed and will not come again.    *)
SentFits(c) ==
    LET x == conn[c] IN
    /\ x.pc = "off" => x = Off
    /\ x.pc # "live" => x.sent = <<>> /\ x.replay = <<>> /\ x.replayed = {}
    /\ IdsDiffer(x.replay) /\ IdsDiffer(x.sent)
    /\ IdsOf(x.replay) \cap IdsOf(x.sent) = {}
    /\ IdsOf(x.replay) \subseteq x.replayed
    /\ x.replayed \subseteq IdsOf(x.replay) \cup IdsOf(x.sent)
    /\ \A y \in Range(x.sent) :
          \/ y.id \in x.replayed
          \/ y.event \notin EventsOf(x.chan) /\ ~InHand(y.event)

(* Every event of the table was listed or comes some other way.           *)
Got(c)  == EventsOf(conn[c].replay) \cup EventsOf(conn[c].sent)
Coming(c, e) ==
    \/ e \in remote \cup conn[c].early \cup dropped[c]
    \/ InHand(e)
    \/ e \in EventsOf(conn[c].chan) \cup Got(c)
Targeted(c) ==
    conn[c].pc # "off" =>
        \A p \in Publishing : c \in pub[p].targets \/ pub[p].item.event \in conn[c].early
GapFits(c) ==
    LET x == conn[c] IN
    x.pc \in {"merge", "live"} /\ ~x.failed /\ x.from.kind # "evt" =>
        /\ \A e \in x.listed : \/ e <= x.from.n
                               \/ x.pc = "merge" /\ e \in x.rows
                               \/ x.pc = "live" /\ e \in Got(c)
        /\ \A e \in outbox \ x.listed : Coming(c, e)

ClientFits(c) == ChanFits(c) /\ SentFits(c) /\ Targeted(c) /\ GapFits(c)

EventInv ==
    /\ TypeOK
    /\ ItemsNamed
    /\ \A p \in Publications : PubFits(p)
    /\ OneEventEach
    /\ NumbersSuffice
    /\ RingFits
    /\ \A c \in Clients : ClientFits(c)

-----------------------------------------------------------------------------
(* Sequences of items. *)

USE MaxEventsAssumption, SizesAssumption

(* The empty sequence. *)
LEMMA NoItems ==
    /\ Range(<<>>) = {} /\ EventsOf(<<>>) = {} /\ IdsOf(<<>>) = {}
    /\ EventsDiffer(<<>>) /\ IdsDiffer(<<>>)
BY DEF Range, EventsOf, IdsOf, EventsDiffer, IdsDiffer

(* The items of a sequence and what they are made of. *)
LEMMA ItemsOf ==
    ASSUME NEW s
    PROVE  /\ \A x \in Range(s) : x.event \in EventsOf(s) /\ x.id \in IdsOf(s)
           /\ \A e \in EventsOf(s) : \E x \in Range(s) : x.event = e
           /\ \A id \in IdsOf(s) : \E x \in Range(s) : x.id = id
BY DEF Range, EventsOf, IdsOf

(* One item more. *)
LEMMA AppendItem ==
    ASSUME NEW S, NEW s \in Seq(S), NEW x \in S
    PROVE  /\ Append(s, x) \in Seq(S) /\ Len(Append(s, x)) = Len(s) + 1
           /\ Range(Append(s, x)) = Range(s) \cup {x}
           /\ EventsOf(Append(s, x)) = EventsOf(s) \cup {x.event}
           /\ IdsOf(Append(s, x)) = IdsOf(s) \cup {x.id}
           /\ EventsDiffer(s) /\ x.event \notin EventsOf(s) => EventsDiffer(Append(s, x))
           /\ IdsDiffer(s) /\ x.id \notin IdsOf(s) => IdsDiffer(Append(s, x))
<1> DEFINE t == Append(s, x)
<1>1. /\ t \in Seq(S) /\ Len(t) = Len(s) + 1 /\ Len(s) \in Nat
      /\ DOMAIN s = 1 .. Len(s) /\ DOMAIN t = 1 .. Len(s) + 1
      /\ \A i \in 1 .. Len(s) : t[i] = s[i]
      /\ t[Len(s) + 1] = x
  BY AppendProperties
<1> HIDE DEF t
<1>2. \A i \in DOMAIN t : i \in DOMAIN s \/ i = Len(s) + 1 BY <1>1
<1>3. Len(s) + 1 \in DOMAIN t /\ \A i \in DOMAIN s : i \in DOMAIN t BY <1>1
<1>4. Range(t) = Range(s) \cup {x} BY <1>1, <1>2, <1>3 DEF Range
<1>5. EventsOf(t) = EventsOf(s) \cup {x.event} BY <1>1, <1>2, <1>3 DEF EventsOf
<1>6. IdsOf(t) = IdsOf(s) \cup {x.id} BY <1>1, <1>2, <1>3 DEF IdsOf
<1>7. EventsDiffer(s) /\ x.event \notin EventsOf(s) => EventsDiffer(t)
  BY <1>1, <1>2 DEF EventsDiffer, EventsOf
<1>8. IdsDiffer(s) /\ x.id \notin IdsOf(s) => IdsDiffer(t)
  BY <1>1, <1>2 DEF IdsDiffer, IdsOf
<1> QED BY <1>1, <1>4, <1>5, <1>6, <1>7, <1>8 DEF t

(* One item less. *)
LEMMA TailItem ==
    ASSUME NEW S, NEW s \in Seq(S), s # <<>>
    PROVE  /\ Head(s) \in S /\ Tail(s) \in Seq(S)
           /\ Len(s) \in Nat /\ Len(s) >= 1 /\ Len(Tail(s)) = Len(s) - 1
           /\ Range(s) = {Head(s)} \cup Range(Tail(s))
           /\ EventsOf(s) = {Head(s).event} \cup EventsOf(Tail(s))
           /\ IdsOf(s) = {Head(s).id} \cup IdsOf(Tail(s))
           /\ EventsDiffer(s) =>
                 EventsDiffer(Tail(s)) /\ Head(s).event \notin EventsOf(Tail(s))
           /\ IdsDiffer(s) => IdsDiffer(Tail(s)) /\ Head(s).id \notin IdsOf(Tail(s))
<1> DEFINE t == Tail(s)
           x == Head(s)
<1>1. /\ t \in Seq(S) /\ Len(t) = Len(s) - 1 /\ Len(s) \in Nat /\ Len(s) >= 1
      /\ DOMAIN s = 1 .. Len(s) /\ DOMAIN t = 1 .. Len(s) - 1
      /\ \A i \in 1 .. Len(t) : t[i] = s[i + 1]
      /\ x = s[1] /\ x \in S
  <2>1. Len(s) \in Nat /\ Len(s) >= 1 BY EmptySeq
  <2>2. s[1] \in S BY <2>1, ElementOfSeq
  <2> QED BY <2>1, <2>2, HeadTailProperties
<1> HIDE DEF t, x
<1>2. \A i \in DOMAIN s : i = 1 \/ (i - 1 \in DOMAIN t /\ s[i] = t[i - 1]) BY <1>1
<1>3. 1 \in DOMAIN s /\ \A i \in DOMAIN t : i + 1 \in DOMAIN s /\ t[i] = s[i + 1] BY <1>1
<1>4. Range(s) = {x} \cup Range(t) BY <1>1, <1>2, <1>3 DEF Range
<1>5. EventsOf(s) = {x.event} \cup EventsOf(t) BY <1>1, <1>2, <1>3 DEF EventsOf
<1>6. IdsOf(s) = {x.id} \cup IdsOf(t) BY <1>1, <1>2, <1>3 DEF IdsOf
<1>7. EventsDiffer(s) => EventsDiffer(t) /\ x.event \notin EventsOf(t)
  <2> SUFFICES ASSUME EventsDiffer(s) PROVE EventsDiffer(t) /\ x.event \notin EventsOf(t)
    OBVIOUS
  <2>1. \A i, j \in DOMAIN t : t[i].event = t[j].event => i + 1 = j + 1
    BY <1>3 DEF EventsDiffer
  <2>2. \A i \in DOMAIN t : t[i].event # x.event
    <3> SUFFICES ASSUME NEW i \in DOMAIN t, t[i].event = x.event PROVE FALSE
      OBVIOUS
    <3>1. i + 1 = 1 BY <1>1, <1>3 DEF EventsDiffer
    <3> QED BY <1>1, <3>1
  <2>3. \A i \in DOMAIN t : i \in Nat BY <1>1
  <2> QED BY <2>1, <2>2, <2>3 DEF EventsDiffer, EventsOf
<1>8. IdsDiffer(s) => IdsDiffer(t) /\ x.id \notin IdsOf(t)
  <2> SUFFICES ASSUME IdsDiffer(s) PROVE IdsDiffer(t) /\ x.id \notin IdsOf(t)
    OBVIOUS
  <2>1. \A i, j \in DOMAIN t : t[i].id = t[j].id => i + 1 = j + 1
    BY <1>3 DEF IdsDiffer
  <2>2. \A i \in DOMAIN t : t[i].id # x.id
    <3> SUFFICES ASSUME NEW i \in DOMAIN t, t[i].id = x.id PROVE FALSE
      OBVIOUS
    <3>1. i + 1 = 1 BY <1>1, <1>3 DEF IdsDiffer
    <3> QED BY <1>1, <3>1
  <2>3. \A i \in DOMAIN t : i \in Nat BY <1>1
  <2> QED BY <2>1, <2>2, <2>3 DEF IdsDiffer, IdsOf
<1> QED BY <1>1, <1>4, <1>5, <1>6, <1>7, <1>8 DEF t, x

(* The end of a sequence. *)
LEMMA EndItems ==
    ASSUME NEW S, NEW s \in Seq(S), NEW m \in 1 .. Len(s)
    PROVE  LET t == SubSeq(s, m + 1, Len(s))
           IN  /\ t \in Seq(S) /\ Range(t) \subseteq Range(s)
               /\ EventsDiffer(s) => EventsDiffer(t)
<1> DEFINE t == SubSeq(s, m + 1, Len(s))
<1>1. Len(s) \in Nat /\ m \in Nat /\ m >= 1 /\ m <= Len(s) /\ DOMAIN s = 1 .. Len(s)
  BY LenProperties
<1>2. \A i \in m + 1 .. Len(s) : s[i] \in S BY <1>1, ElementOfSeq
<1>3. /\ t \in Seq(S)
      /\ DOMAIN t = 1 .. Len(s) - m
      /\ \A i \in 1 .. Len(s) - m : t[i] = s[m + i]
  BY <1>1, <1>2, SubSeqProperties
<1> HIDE DEF t
<1>4. \A i \in DOMAIN t : m + i \in DOMAIN s /\ i \in Int /\ t[i] = s[m + i] BY <1>1, <1>3
<1>5. Range(t) \subseteq Range(s) BY <1>4 DEF Range
<1>6. EventsDiffer(s) => EventsDiffer(t)
  <2> SUFFICES ASSUME EventsDiffer(s), NEW i \in DOMAIN t, NEW j \in DOMAIN t,
                      t[i].event = t[j].event
               PROVE  i = j
    BY DEF EventsDiffer
  <2>1. m + i = m + j BY <1>4 DEF EventsDiffer
  <2> QED BY <1>1, <1>4, <2>1
<1> QED BY <1>3, <1>5, <1>6 DEF t

(* An ordering of a set has each of its items once. *)
LEMMA OrderedItems ==
    ASSUME NEW rows, NEW records, NEW q \in Merged(rows, records),
           IsFiniteSet(rows), IsFiniteSet(Range(records))
    PROVE  LET items == {Item(e, Row(e)) : e \in rows}
                          \cup {item \in Range(records) : item.id.kind = "evt"}
           IN  /\ q \in Seq(items) /\ Range(q) = items
               /\ \A i, j \in DOMAIN q : q[i] = q[j] => i = j
<1> DEFINE items == {Item(e, Row(e)) : e \in rows}
                      \cup {item \in Range(records) : item.id.kind = "evt"}
           n == Cardinality(items)
<1>1. IsFiniteSet(items)
  <2>1. IsFiniteSet({Item(e, Row(e)) : e \in rows})
    <3> DEFINE f == [e \in rows |-> Item(e, Row(e))]
               T == {Item(e, Row(e)) : e \in rows}
    <3>1. f \in [rows -> T] /\ \A t \in T : \E e \in rows : f[e] = t OBVIOUS
    <3>2. f \in Surjection(rows, T) BY <3>1 DEF Surjection
    <3> QED BY <3>2, FS_Surjection
  <2>2. IsFiniteSet({item \in Range(records) : item.id.kind = "evt"})
    BY FS_Subset
  <2> QED BY <2>1, <2>2, FS_Union
<1>2. n \in Nat BY <1>1, FS_CardinalityType
<1>3. q \in [1 .. n -> items] /\ \A i, j \in 1 .. n : i # j => q[i] # q[j]
  BY DEF Merged, SetToSeqs
<1> HIDE DEF items, n
<1>4. q \in Seq(items) /\ DOMAIN q = 1 .. n BY <1>2, <1>3
<1>5. q \in Injection(1 .. n, items) BY <1>3 DEF Injection, IsInjective
<1>6. IsFiniteSet(1 .. n) /\ Cardinality(1 .. n) = n BY <1>2, FS_Interval
<1>7. q \in Surjection(1 .. n, items) BY <1>1, <1>5, <1>6, FS_Injection DEF n
<1>8. Range(q) = items BY <1>3, <1>4, <1>7 DEF Range, Surjection
<1> QED BY <1>3, <1>4, <1>8 DEF items

-----------------------------------------------------------------------------
(* Values. *)

PubRecords == [pc : {"idle", "select", "append", "record", "send"},
               item : [event : 0 .. clock, id : Ids], targets : SUBSET Subscribed]
ConnRecords ==
    [pc : {"off", "list", "merge", "live"}, from : Ids, rows : SUBSET outbox,
     failed : BOOLEAN, replay : Seq(Items), replayed : SUBSET Ids, chan : Seq(Items),
     sent : Seq(Items), early : SUBSET (1 .. clock), listed : SUBSET outbox]

(* Ids of the table and of a process are told apart, and so are numbers. *)
LEMMA IdsApart ==
    /\ NoId \in Ids /\ NoId.kind = "none" /\ NoId.n = 0
    /\ \A e : Row(e).kind = "row" /\ Row(e).n = e
    /\ \A n : Local(n).kind = "evt" /\ Local(n).n = n
    /\ \A e \in Events : Row(e) \in Ids /\ Local(e) \in Ids
    /\ \A e, n : Row(e) # Local(n)
BY DEF Ids, NoId, Row, Local

(* Clock and ids. *)
LEMMA ClockFacts ==
    ASSUME TypeOK
    PROVE  /\ clock \in Nat /\ clock <= MaxEvents /\ nextID \in Nat /\ nextID <= MaxEvents
           /\ 1 .. clock \subseteq Events /\ 1 .. clock \subseteq Nat
           /\ outbox \subseteq 1 .. clock /\ remote \subseteq 1 .. clock
           /\ outbox \subseteq Events
BY DEF TypeOK, Events

(* The parts of a typed state are typed. *)
LEMMA ConnFacts ==
    ASSUME TypeOK, NEW c \in Clients
    PROVE  /\ DOMAIN conn = Clients /\ conn[c] \in ConnRecords
           /\ conn[c].pc \in {"off", "list", "merge", "live"} /\ conn[c].from \in Ids
           /\ conn[c].rows \subseteq outbox /\ conn[c].failed \in BOOLEAN
           /\ conn[c].replay \in Seq(Items) /\ conn[c].replayed \subseteq Ids
           /\ conn[c].chan \in Seq(Items) /\ conn[c].sent \in Seq(Items)
           /\ conn[c].early \subseteq 1 .. clock /\ conn[c].listed \subseteq outbox
           /\ Len(conn[c].chan) \in Nat /\ Len(conn[c].chan) <= Buffer
           /\ dropped[c] \subseteq 1 .. clock /\ cursor[c] \in Ids
<1>1. DOMAIN conn = Clients /\ conn[c] \in ConnRecords BY DEF TypeOK, ConnRecords
<1>2. /\ conn[c].pc \in {"off", "list", "merge", "live"} /\ conn[c].from \in Ids
      /\ conn[c].rows \subseteq outbox /\ conn[c].failed \in BOOLEAN
      /\ conn[c].replay \in Seq(Items) /\ conn[c].replayed \subseteq Ids
      /\ conn[c].chan \in Seq(Items) /\ conn[c].sent \in Seq(Items)
      /\ conn[c].early \subseteq 1 .. clock /\ conn[c].listed \subseteq outbox
  BY <1>1 DEF ConnRecords
<1>3. Len(conn[c].chan) \in Nat BY <1>2, LenProperties
<1>4. Len(conn[c].chan) <= Buffer /\ dropped[c] \subseteq 1 .. clock /\ cursor[c] \in Ids
  BY DEF TypeOK
<1> QED BY <1>1, <1>2, <1>3, <1>4

(* What a publication holds is typed. *)
LEMMA PubFacts ==
    ASSUME TypeOK, NEW p \in Publications
    PROVE  /\ DOMAIN pub = Publications /\ pub[p] \in PubRecords
           /\ pub[p].pc \in {"idle", "select", "append", "record", "send"}
           /\ pub[p].item.event \in 0 .. clock /\ pub[p].item.event \in Nat
           /\ pub[p].item.id \in Ids /\ pub[p].targets \subseteq Subscribed
           /\ pub[p].item \in [event : 0 .. clock, id : Ids]
<1>1. DOMAIN pub = Publications /\ pub[p] \in PubRecords BY DEF TypeOK, PubRecords
<1>2. pub[p].item \in [event : 0 .. clock, id : Ids] /\ pub[p].targets \subseteq Subscribed
      /\ pub[p].pc \in {"idle", "select", "append", "record", "send"}
  BY <1>1 DEF PubRecords
<1>3. clock \in Nat BY ClockFacts
<1>4. pub[p].item.event \in 0 .. clock /\ pub[p].item.id \in Ids BY <1>2
<1>5. pub[p].item.event \in Nat BY <1>3, <1>4
<1> QED BY <1>1, <1>2, <1>4, <1>5

(* Connections stay typed while the table and the clock grow. *)
LEMMA ConnGrows ==
    ASSUME TypeOK, outbox \subseteq outbox', clock' \in Nat, clock <= clock',
           NEW x \in ConnRecords
    PROVE  x \in ConnRecords'
<1>1. clock \in Nat BY ClockFacts
<1>2. SUBSET (1 .. clock) \subseteq SUBSET (1 .. clock') BY <1>1
<1>3. SUBSET outbox \subseteq SUBSET outbox' OBVIOUS
<1> QED BY <1>2, <1>3 DEF ConnRecords

(* No new item but rows: items stay named. *)
LEMMA NamesStay ==
    ASSUME EventInv, clock' \in Nat, clock <= clock', nextID' \in Nat, nextID <= nextID',
           \A y \in Known' : y \in Known \/ \E e \in 1 .. clock' : y = Item(e, Row(e))
    PROVE  ItemsNamed'
<1>1. clock \in Nat /\ nextID \in Nat BY ClockFacts DEF EventInv
<1>2. \A e : Item(e, Row(e)).event = e /\ Item(e, Row(e)).id = Row(e) BY DEF Item
<1>3. \A y \in Known : Named(y)' 
  <2> SUFFICES ASSUME NEW y \in Known PROVE Named(y)'
    OBVIOUS
  <2>1. Named(y) BY DEF EventInv, ItemsNamed
  <2> QED BY <1>1, <2>1 DEF Named
<1>4. \A e \in 1 .. clock' : Named(Item(e, Row(e)))' BY <1>2 DEF Named
<1>5. \A y \in Known' : Named(y)' BY <1>3, <1>4
<1>6. ASSUME NEW y \in Known', NEW z \in Known', y.id = z.id
      PROVE  y.event = z.event
  <2>1. CASE y \in Known /\ z \in Known BY <1>6, <2>1 DEF EventInv, ItemsNamed
  <2>2. CASE y.id = Row(y.event) \/ z.id = Row(z.event)
    <3>1. \A n : Local(n) # y.id \/ Local(n) # z.id BY <2>2, <1>6, IdsApart
    <3>2. y.id = Row(y.event) /\ z.id = Row(z.event) BY <1>5, <1>6, <3>1 DEF Named
    <3>3. Row(y.event).n = y.event /\ Row(z.event).n = z.event BY IdsApart
    <3> QED BY <1>6, <3>2, <3>3
  <2> QED BY <1>2, <2>1, <2>2
<1> QED BY <1>5, <1>6 DEF ItemsNamed

(* What is known of an event of an item. *)
LEMMA KnownFacts ==
    ASSUME EventInv
    PROVE  /\ \A y \in Known : y.event \in 1 .. clock /\ y.event \in Nat
           /\ \A y \in Range(ring) : y \in Known
           /\ \A p \in Publishing : pub[p].item \in Known
           /\ \A c \in Clients : \A y \in KnownOf(c) : y \in Known
           /\ \A e \in EventsOf(ring) : e \in 1 .. clock
           /\ \A c \in Clients : \A e \in EventsOf(conn[c].chan) \cup Got(c) : e \in 1 .. clock
<1>1. \A y \in Known : y.event \in 1 .. clock /\ y.event \in Nat
  BY ClockFacts DEF EventInv, ItemsNamed, Named
<1>2. /\ \A y \in Range(ring) : y \in Known
      /\ \A p \in Publishing : pub[p].item \in Known
      /\ \A c \in Clients : \A y \in KnownOf(c) : y \in Known
  BY DEF Known
<1>3. \A e \in EventsOf(ring) : e \in 1 .. clock BY <1>1, <1>2, ItemsOf
<1>4. ASSUME NEW c \in Clients, NEW e \in EventsOf(conn[c].chan) \cup Got(c)
      PROVE  e \in 1 .. clock
  <2>1. PICK y \in KnownOf(c) : y.event = e BY <1>4, ItemsOf DEF Got, KnownOf
  <2> QED BY <1>1, <1>2, <2>1
<1> QED BY <1>1, <1>2, <1>3, <1>4

-----------------------------------------------------------------------------
(* Connections. *)

(* A connection is not concerned by what changes elsewhere. *)
LEMMA OtherFits ==
    ASSUME NEW c, ClientFits(c), conn'[c] = conn[c], dropped'[c] = dropped[c],
           UNCHANGED <<outbox, remote, pub>>
    PROVE  ClientFits(c)'
<1>1. \A e : InHand(e)' <=> InHand(e) BY DEF InHand
<1>2. Publishing' = Publishing BY DEF Publishing
<1>3. Got(c)' = Got(c) BY DEF Got
<1>4. ChanFits(c)' BY <1>1 DEF ClientFits, ChanFits
<1>5. SentFits(c)' BY <1>1 DEF ClientFits, SentFits
<1>6. Targeted(c)' BY <1>2 DEF ClientFits, Targeted
<1>7. \A e : Coming(c, e)' <=> Coming(c, e) BY <1>1, <1>3 DEF Coming
<1>8. GapFits(c)' BY <1>3, <1>7 DEF ClientFits, GapFits
<1> QED BY <1>4, <1>5, <1>6, <1>8 DEF ClientFits

(* What a step of one connection has to show to preserve EventInv. *)
LEMMA ClientStep ==
    ASSUME EventInv, NEW c \in Clients, NEW x \in ConnRecords, x.pc # "off",
           conn' = [conn EXCEPT ![c] = x], Len(x.chan) <= Buffer,
           UNCHANGED <<clock, outbox, ring, nextID, pub, remote>>,
           cursor' \in [Clients -> Ids], dropped' \in [Clients -> SUBSET (1 .. clock)],
           \A d \in Clients : d # c => dropped'[d] = dropped[d],
           \A y \in Range(x.chan) \cup Range(x.replay) \cup Range(x.sent) :
               y \in Known \/ \E e \in 1 .. clock : y = Item(e, Row(e)),
           ClientFits(c)'
    PROVE  EventInv'
<1>1. TypeOK BY DEF EventInv
<1>2. conn'[c] = x /\ (\A d \in Clients : d # c => conn'[d] = conn[d]) /\ DOMAIN conn = Clients
  BY <1>1, ConnFacts
<1>3. TypeOK'
  <2>1. conn' \in [Clients -> ConnRecords] BY <1>1, <1>2 DEF TypeOK, ConnRecords
  <2>2. \A d \in Clients : Len(conn'[d].chan) <= Buffer BY <1>1, <1>2 DEF TypeOK
  <2>3. Subscribed \subseteq Subscribed' BY <1>2 DEF Subscribed
  <2>4. pub' \in [Publications -> [pc : {"idle", "select", "append", "record", "send"},
              item : [event : 0 .. clock, id : Ids], targets : SUBSET Subscribed']]
    <3>1. pub \in [Publications -> PubRecords] BY <1>1 DEF TypeOK, PubRecords
    <3>2. SUBSET Subscribed \subseteq SUBSET Subscribed' BY <2>3
    <3>3. PubRecords \subseteq [pc : {"idle", "select", "append", "record", "send"},
              item : [event : 0 .. clock, id : Ids], targets : SUBSET Subscribed']
      BY <3>2 DEF PubRecords
    <3> QED BY <3>1, <3>3
  <2>5. conn' \in [Clients -> ConnRecords'] BY <2>1 DEF ConnRecords
  <2> QED BY <1>1, <2>2, <2>4, <2>5 DEF TypeOK, ConnRecords
<1>4. ItemsNamed'
  <2> SUFFICES ASSUME NEW y \in Known'
               PROVE  y \in Known \/ \E e \in 1 .. clock' : y = Item(e, Row(e))
    BY <1>1, ClockFacts, NamesStay
  <2>1. CASE \E d \in Clients : d # c /\ y \in KnownOf(d)'
    BY <1>2, <2>1 DEF Known, KnownOf
  <2>2. CASE y \in KnownOf(c)' BY <1>2, <2>2 DEF KnownOf
  <2>3. CASE y \in Range(ring) \cup {pub[p].item : p \in Publishing} BY <2>3 DEF Known
  <2> QED BY <2>1, <2>2, <2>3 DEF Known, Publishing
<1>5. /\ \A p \in Publications : PubFits(p)'
      /\ OneEventEach' /\ NumbersSuffice' /\ RingFits'
  BY DEF EventInv, PubFits, OneEventEach, NumbersSuffice, Selecting, RingFits
<1>6. ASSUME NEW d \in Clients PROVE ClientFits(d)'
  <2>1. CASE d # c BY <1>2, <2>1, OtherFits DEF EventInv
  <2>2. CASE d = c BY <2>2
  <2> QED BY <2>1, <2>2
<1> QED BY <1>3, <1>4, <1>5, <1>6 DEF EventInv

(* Connect: nothing is listed or written yet. *)
LEMMA ConnectKeeps ==
    ASSUME EventInv, NEW c \in Clients, Connect(c)
    PROVE  EventInv'
<1> DEFINE x == [Off EXCEPT !.pc = "list", !.from = cursor[c], !.early = Chosen]
<1>1. /\ TypeOK /\ conn' = [conn EXCEPT ![c] = x]
      /\ UNCHANGED <<clock, outbox, ring, nextID, pub, remote, cursor, dropped>>
  BY DEF Connect, EventInv
<1>2. Chosen \subseteq 1 .. clock
  <2> SUFFICES ASSUME NEW p \in Api, pub[p].pc \notin {"idle", "select"}
               PROVE  pub[p].item.event \in 1 .. clock
    BY DEF Chosen
  <2>1. p \in Publications BY DEF Publications
  <2> QED BY <2>1 DEF EventInv, PubFits
<1>3. x \in ConnRecords
  <2>1. cursor[c] \in Ids /\ <<>> \in Seq(Items) BY <1>1, ConnFacts, EmptySeq
  <2> QED BY <1>2, <2>1 DEF ConnRecords, Off
<1>4. /\ x.pc = "list" /\ x.early = Chosen /\ x.chan = <<>> /\ x.replay = <<>>
      /\ x.sent = <<>> /\ x.replayed = {}
  BY DEF Off
<1> HIDE DEF x
<1>5. conn'[c] = x BY <1>1, ConnFacts
<1>6. Len(x.chan) <= Buffer BY <1>4, EmptySeq
<1>7. ChanFits(c)' BY <1>4, <1>5, NoItems DEF ChanFits
<1>8. SentFits(c)' BY <1>4, <1>5, NoItems DEF SentFits
<1>9. Targeted(c)'
  <2>1. Publishing' = Publishing BY <1>1 DEF Publishing
  <2>2. \A p \in Publishing : pub[p].item.event \in Chosen BY DEF Publishing, Chosen
  <2> QED BY <1>1, <1>4, <1>5, <2>1, <2>2 DEF Targeted
<1>10. GapFits(c)' BY <1>4, <1>5 DEF GapFits
<1>11. ClientFits(c)' BY <1>7, <1>8, <1>9, <1>10 DEF ClientFits
<1>12. cursor' \in [Clients -> Ids] /\ dropped' \in [Clients -> SUBSET (1 .. clock)]
  BY <1>1 DEF TypeOK
<1> QED BY <1>1, <1>3, <1>4, <1>6, <1>11, <1>12, NoItems, ClientStep

(* ListRows: what the table holds is listed, and what it will hold is coming. *)
LEMMA ListRowsKeeps ==
    ASSUME EventInv, NEW c \in Clients, ListRows(c)
    PROVE  EventInv'
<1>1. PICK x : /\ conn' = [conn EXCEPT ![c] = x]
               /\ \/ x = [conn[c] EXCEPT !.pc = "merge", !.rows = RowsBehind(conn[c].from),
                                         !.listed = outbox]
                  \/ x = [conn[c] EXCEPT !.pc = "merge", !.failed = TRUE]
  BY DEF ListRows
<1>2. /\ TypeOK /\ conn[c].pc = "list"
      /\ UNCHANGED <<clock, outbox, ring, nextID, pub, remote, cursor, dropped>>
  BY DEF ListRows, EventInv
<1>3. conn[c] \in ConnRecords /\ conn[c].from \in Ids BY <1>2, ConnFacts
<1>4. RowsBehind(conn[c].from) \subseteq outbox
      /\ \A e \in outbox : \/ conn[c].from.kind = "evt"
                           \/ e <= conn[c].from.n
                           \/ e \in RowsBehind(conn[c].from)
  <2>1. conn[c].from.kind \in {"none", "row", "evt"} BY <1>3 DEF Ids, NoId, Row, Local
  <2>2. conn[c].from.kind = "row" => conn[c].from.n \in Nat
    BY <1>3 DEF Ids, NoId, Row, Local, Events
  <2>3. outbox \subseteq Nat BY <1>2, ClockFacts
  <2>4. CASE conn[c].from.kind = "none" BY <2>4 DEF RowsBehind
  <2>5. CASE conn[c].from.kind = "row"
    <3>1. RowsBehind(conn[c].from) = {e \in outbox : e > conn[c].from.n} BY <2>5 DEF RowsBehind
    <3> QED BY <2>2, <2>3, <2>5, <3>1
  <2>6. CASE conn[c].from.kind = "evt" BY <2>6 DEF RowsBehind
  <2> QED BY <2>1, <2>4, <2>5, <2>6
<1>5. /\ x \in ConnRecords /\ x.pc = "merge" /\ x.from = conn[c].from
      /\ x.chan = conn[c].chan /\ x.replay = conn[c].replay /\ x.sent = conn[c].sent
      /\ x.replayed = conn[c].replayed /\ x.early = conn[c].early
      /\ ~x.failed => x.listed = outbox /\ x.rows = RowsBehind(conn[c].from)
  <2>1. CASE x = [conn[c] EXCEPT !.pc = "merge", !.rows = RowsBehind(conn[c].from),
                                 !.listed = outbox]
    BY <1>3, <1>4, <2>1 DEF ConnRecords
  <2>2. CASE x = [conn[c] EXCEPT !.pc = "merge", !.failed = TRUE]
    BY <1>3, <2>2 DEF ConnRecords
  <2> QED BY <1>1, <2>1, <2>2
<1>6. conn'[c] = x BY <1>1, <1>2, ConnFacts
<1>7. ClientFits(c) BY DEF EventInv
<1>8. \A e : InHand(e)' <=> InHand(e) BY <1>2 DEF InHand
<1>9. ChanFits(c)' BY <1>5, <1>6, <1>7, <1>8 DEF ClientFits, ChanFits
<1>10. SentFits(c)' BY <1>2, <1>5, <1>6, <1>7, <1>8 DEF ClientFits, SentFits
<1>11. Targeted(c)'
  <2>1. Publishing' = Publishing BY <1>2 DEF Publishing
  <2> QED BY <1>2, <1>5, <1>6, <1>7, <2>1 DEF ClientFits, Targeted
<1>12. GapFits(c)' BY <1>2, <1>4, <1>5, <1>6 DEF GapFits
<1>13. ClientFits(c)' BY <1>9, <1>10, <1>11, <1>12 DEF ClientFits
<1>14. /\ cursor' \in [Clients -> Ids] /\ dropped' \in [Clients -> SUBSET (1 .. clock)]
       /\ Len(x.chan) <= Buffer
  BY <1>2, <1>5, ConnFacts DEF TypeOK
<1>15. \A y \in Range(x.chan) \cup Range(x.replay) \cup Range(x.sent) : y \in Known
  BY <1>5, KnownFacts DEF KnownOf
<1> QED BY <1>1, <1>2, <1>5, <1>13, <1>14, <1>15, ClientStep

(* The records behind a cursor are records, each once. *)
LEMMA RecordsFit ==
    ASSUME EventInv, NEW from
    PROVE  /\ RecordsBehind(from) \in Seq(Items)
           /\ Range(RecordsBehind(from)) \subseteq Range(ring)
           /\ EventsDiffer(RecordsBehind(from))
           /\ IsFiniteSet(Range(RecordsBehind(from)))
<1> DEFINE At == {i \in DOMAIN ring : ring[i].id = from}
           records == RecordsBehind(from)
<1>1. ring \in Seq(Items) /\ EventsDiffer(ring) /\ DOMAIN ring = 1 .. Len(ring)
      /\ Len(ring) \in Nat
  BY LenProperties DEF EventInv, TypeOK, RingFits
<1>2. /\ records \in Seq(Items) /\ Range(records) \subseteq Range(ring)
      /\ EventsDiffer(records)
  <2>1. CASE from = NoId
    <3>1. records = ring BY <2>1 DEF RecordsBehind
    <3> QED BY <1>1, <3>1
  <2>2. CASE from # NoId /\ At = {}
    <3>1. records = <<>> BY <2>2 DEF RecordsBehind
    <3> QED BY <3>1, NoItems, EmptySeq
  <2>3. CASE from # NoId /\ At # {}
    <3>1. records = SubSeq(ring, Min(At) + 1, Len(ring)) BY <2>3 DEF RecordsBehind
    <3>2. PICK i \in At : TRUE BY <2>3
    <3>3. ASSUME NEW j \in At PROVE j = i
      <4>1. ring[i] \in Known /\ ring[j] \in Known BY <3>2, <3>3, KnownFacts DEF Range
      <4>2. ring[i].event = ring[j].event BY <3>2, <3>3, <4>1 DEF EventInv, ItemsNamed
      <4> QED BY <1>1, <3>2, <3>3, <4>2 DEF EventsDiffer
    <3>4. At = {i} /\ i \in 1 .. Len(ring) BY <1>1, <3>2, <3>3
    <3> HIDE DEF At, records
    <3>5. Min(At) = i
      <4>1. \A j \in At : i <= j BY <1>1, <3>4
      <4> QED BY <3>4, <4>1 DEF Min
    <3> QED BY <1>1, <3>1, <3>4, <3>5, EndItems
  <2> QED BY <2>1, <2>2, <2>3
<1> HIDE DEF records
<1>3. IsFiniteSet(Range(records))
  <2>1. Len(records) \in Nat /\ DOMAIN records = 1 .. Len(records)
        /\ records \in [1 .. Len(records) -> Items]
    BY <1>2, LenProperties
  <2>2. records \in [1 .. Len(records) -> Range(records)] BY <2>1 DEF Range
  <2>3. \A y \in Range(records) : \E i \in 1 .. Len(records) : records[i] = y
    BY <2>1 DEF Range
  <2>4. records \in Surjection(1 .. Len(records), Range(records))
    BY <2>2, <2>3 DEF Surjection
  <2>5. IsFiniteSet(1 .. Len(records)) BY <2>1, FS_Interval
  <2> QED BY <2>4, <2>5, FS_Surjection
<1> QED BY <1>2, <1>3 DEF records

(* What is replayed is known or a row, and no id twice. *)
LEMMA ReplayFits ==
    ASSUME EventInv, NEW c \in Clients, NEW replay,
           replay \in IF conn[c].failed THEN {RecordsBehind(conn[c].from)}
                                        ELSE Merged(conn[c].rows, RecordsBehind(conn[c].from))
    PROVE  /\ replay \in Seq(Items) /\ IdsDiffer(replay)
           /\ \A y \in Range(replay) : y \in Known \/ \E e \in 1 .. clock : y = Item(e, Row(e))
           /\ ~conn[c].failed => conn[c].rows \subseteq EventsOf(replay)
<1> DEFINE records == RecordsBehind(conn[c].from)
           rows == conn[c].rows
           items == {Item(e, Row(e)) : e \in rows}
                      \cup {item \in Range(records) : item.id.kind = "evt"}
<1>1. TypeOK BY DEF EventInv
<1>2. /\ records \in Seq(Items) /\ Range(records) \subseteq Range(ring)
      /\ EventsDiffer(records) /\ IsFiniteSet(Range(records))
  BY RecordsFit
<1>3. \A y \in Range(records) : y \in Known /\ y \in Items
  <2>1. records \in [1 .. Len(records) -> Items] /\ DOMAIN records = 1 .. Len(records)
    BY <1>2, LenProperties
  <2>2. \A y \in Range(records) : y \in Items BY <2>1 DEF Range
  <2> QED BY <1>2, <2>2, KnownFacts
<1>4. CASE conn[c].failed
  <2>1. replay = records BY <1>4
  <2>2. IdsDiffer(records)
    <3> SUFFICES ASSUME NEW i \in DOMAIN records, NEW j \in DOMAIN records,
                        records[i].id = records[j].id
                 PROVE  i = j
      BY DEF IdsDiffer
    <3>1. records[i] \in Known /\ records[j] \in Known BY <1>3 DEF Range
    <3>2. records[i].event = records[j].event BY <3>1 DEF EventInv, ItemsNamed
    <3> QED BY <1>2, <3>2 DEF EventsDiffer
  <2> QED BY <1>2, <1>3, <1>4, <2>1, <2>2
<1>5. CASE ~conn[c].failed
  <2>1. replay \in Merged(rows, records) BY <1>5
  <2>2. rows \subseteq 1 .. clock /\ rows \subseteq Events /\ IsFiniteSet(rows)
    <3>1. rows \subseteq 1 .. clock /\ rows \subseteq Events BY <1>1, ClockFacts, ConnFacts
    <3>2. IsFiniteSet(1 .. clock) BY <1>1, ClockFacts, FS_Interval
    <3> QED BY <3>1, <3>2, FS_Subset
  <2>3. /\ replay \in Seq(items) /\ Range(replay) = items
        /\ \A i, j \in DOMAIN replay : replay[i] = replay[j] => i = j
    BY <1>2, <2>1, <2>2, OrderedItems
  <2>4. \A e : Item(e, Row(e)).event = e /\ Item(e, Row(e)).id = Row(e) BY DEF Item
  <2>5. \A e \in rows : Item(e, Row(e)) \in Items
    <3>1. \A e \in rows : Row(e) \in Ids BY <2>2, IdsApart
    <3> QED BY <2>2, <3>1 DEF Item, Items
  <2>6. items \subseteq Items BY <1>3, <2>5
  <2>7. \A y \in items : \/ \E e \in rows : y = Item(e, Row(e))
                         \/ y \in Known /\ y.id.kind = "evt"
    BY <1>3
  <2>8. \A y, z \in items : y.id = z.id => y.event = z.event
    <3> SUFFICES ASSUME NEW y \in items, NEW z \in items, y.id = z.id PROVE y.event = z.event
      OBVIOUS
    <3>1. CASE y \in Known /\ z \in Known BY <3>1 DEF EventInv, ItemsNamed
    <3>2. CASE (\E e \in rows : y = Item(e, Row(e))) \/ (\E e \in rows : z = Item(e, Row(e)))
      <4>1. y.id.kind = "row" /\ z.id.kind = "row" BY <2>4, <3>2, IdsApart
      <4>2. PICK d \in rows : y = Item(d, Row(d)) BY <2>7, <4>1
      <4>3. PICK e \in rows : z = Item(e, Row(e)) BY <2>7, <4>1
      <4> QED BY <2>4, <4>2, <4>3, IdsApart
    <3> QED BY <2>7, <3>1, <3>2
  <2> HIDE DEF items
  <2>9. \A y, z \in items : y.id = z.id => y = z BY <2>6, <2>8 DEF Items
  <2>10. IdsDiffer(replay) BY <2>3, <2>9 DEF IdsDiffer, Range
  <2>11. replay \in Seq(Items)
    <3>1. \A S, T : S \subseteq T => Seq(S) \subseteq Seq(T) BY SeqMonotonic
    <3> QED BY <2>3, <2>6, <3>1
  <2>12. rows \subseteq EventsOf(replay)
    <3>1. \A e \in rows : Item(e, Row(e)) \in Range(replay) BY <2>3 DEF items
    <3> QED BY <2>4, <3>1, ItemsOf
  <2>13. \A y \in Range(replay) : y \in Known \/ \E e \in 1 .. clock : y = Item(e, Row(e))
    BY <2>2, <2>3, <2>7
  <2> QED BY <2>10, <2>11, <2>12, <2>13
<1> QED BY <1>4, <1>5

(* Merge: the replay has each id once, and every listed event. *)
LEMMA MergeKeeps ==
    ASSUME EventInv, NEW c \in Clients, Merge(c)
    PROVE  EventInv'
<1>1. PICK replay \in IF conn[c].failed THEN {RecordsBehind(conn[c].from)}
                      ELSE Merged(conn[c].rows, RecordsBehind(conn[c].from)) :
         conn' = [conn EXCEPT ![c].pc = "live", ![c].replay = replay, ![c].rows = {},
                              ![c].replayed = {item.id : item \in Range(replay)}]
  BY DEF Merge
<1> DEFINE x == [conn[c] EXCEPT !.pc = "live", !.replay = replay, !.rows = {},
                                !.replayed = {item.id : item \in Range(replay)}]
<1>2. /\ TypeOK /\ conn[c].pc = "merge" /\ conn' = [conn EXCEPT ![c] = x]
      /\ UNCHANGED <<clock, outbox, ring, nextID, pub, remote, cursor, dropped>>
  BY <1>1 DEF Merge, EventInv
<1>3. /\ replay \in Seq(Items) /\ IdsDiffer(replay)
      /\ \A y \in Range(replay) : y \in Known \/ \E e \in 1 .. clock : y = Item(e, Row(e))
      /\ ~conn[c].failed => conn[c].rows \subseteq EventsOf(replay)
  BY ReplayFits
<1>4. {item.id : item \in Range(replay)} = IdsOf(replay) BY DEF IdsOf, Range
<1>5. IdsOf(replay) \subseteq Ids
  <2>1. DOMAIN replay = 1 .. Len(replay) /\ replay \in [1 .. Len(replay) -> Items]
    BY <1>3, LenProperties
  <2>2. \A i \in DOMAIN replay : replay[i] \in Items BY <2>1
  <2> QED BY <2>2 DEF IdsOf, Items
<1>6. conn[c] \in ConnRecords BY <1>2, ConnFacts
<1>7. /\ x \in ConnRecords /\ x.pc = "live" /\ x.from = conn[c].from /\ x.replay = replay
      /\ x.chan = conn[c].chan /\ x.sent = conn[c].sent /\ x.replayed = IdsOf(replay)
      /\ x.early = conn[c].early /\ x.listed = conn[c].listed /\ x.failed = conn[c].failed
  BY <1>3, <1>4, <1>5, <1>6 DEF ConnRecords
<1> HIDE DEF x
<1>8. conn'[c] = x BY <1>2, ConnFacts
<1>9. ClientFits(c) BY DEF EventInv
<1>10. \A e : InHand(e)' <=> InHand(e) BY <1>2 DEF InHand
<1>11. conn[c].sent = <<>> /\ conn[c].replay = <<>>
  BY <1>2, <1>9 DEF ClientFits, SentFits
<1>12. ChanFits(c)' BY <1>7, <1>8, <1>9, <1>10 DEF ClientFits, ChanFits
<1>13. SentFits(c)' BY <1>3, <1>7, <1>8, <1>11, NoItems DEF SentFits
<1>14. Targeted(c)'
  <2>1. Publishing' = Publishing BY <1>2 DEF Publishing
  <2> QED BY <1>2, <1>7, <1>8, <1>9, <2>1 DEF ClientFits, Targeted
<1>15. GapFits(c)'
  <2>1. Got(c) = {} /\ Got(c)' = EventsOf(replay)
    BY <1>7, <1>8, <1>11, NoItems DEF Got
  <2>2. \A e : Coming(c, e) => Coming(c, e)'
    BY <1>2, <1>7, <1>8, <1>10, <2>1 DEF Coming
  <2> QED BY <1>2, <1>3, <1>7, <1>8, <1>9, <2>1, <2>2 DEF ClientFits, GapFits
<1>16. ClientFits(c)' BY <1>12, <1>13, <1>14, <1>15 DEF ClientFits
<1>17. /\ cursor' \in [Clients -> Ids] /\ dropped' \in [Clients -> SUBSET (1 .. clock)]
       /\ Len(x.chan) <= Buffer
  BY <1>2, <1>7, ConnFacts DEF TypeOK
<1>18. \A y \in Range(x.chan) \cup Range(x.replay) \cup Range(x.sent) :
           y \in Known \/ \E e \in 1 .. clock : y = Item(e, Row(e))
  BY <1>3, <1>7, KnownFacts DEF KnownOf
<1> QED BY <1>2, <1>7, <1>16, <1>17, <1>18, ClientStep

(* An event is received: once, and what was dropped is not missing any more. *)
LEMMA WriteReplayKeeps ==
    ASSUME EventInv, NEW c \in Clients, WriteReplay(c)
    PROVE  EventInv'
<1> DEFINE item == Head(conn[c].replay)
           x == [conn[c] EXCEPT !.replay = Tail(@), !.sent = Append(@, item)]
<1>1. /\ TypeOK /\ conn[c].replay # <<>> /\ conn' = [conn EXCEPT ![c] = x]
      /\ cursor' = [cursor EXCEPT ![c] = item.id]
      /\ dropped' = [dropped EXCEPT ![c] = @ \ {item.event}]
      /\ UNCHANGED <<clock, outbox, ring, nextID, pub, remote>>
  BY DEF WriteReplay, Receive, EventInv
<1>2. conn[c] \in ConnRecords /\ conn[c].replay \in Seq(Items) /\ conn[c].sent \in Seq(Items)
  BY <1>1, ConnFacts
<1>3. /\ item \in Items /\ Tail(conn[c].replay) \in Seq(Items)
      /\ Range(conn[c].replay) = {item} \cup Range(Tail(conn[c].replay))
      /\ EventsOf(conn[c].replay) = {item.event} \cup EventsOf(Tail(conn[c].replay))
      /\ IdsOf(conn[c].replay) = {item.id} \cup IdsOf(Tail(conn[c].replay))
      /\ IdsDiffer(conn[c].replay) =>
            IdsDiffer(Tail(conn[c].replay)) /\ item.id \notin IdsOf(Tail(conn[c].replay))
  BY <1>1, <1>2, TailItem
<1> HIDE DEF item
<1>4. /\ Append(conn[c].sent, item) \in Seq(Items)
      /\ Range(Append(conn[c].sent, item)) = Range(conn[c].sent) \cup {item}
      /\ EventsOf(Append(conn[c].sent, item)) = EventsOf(conn[c].sent) \cup {item.event}
      /\ IdsOf(Append(conn[c].sent, item)) = IdsOf(conn[c].sent) \cup {item.id}
      /\ IdsDiffer(conn[c].sent) /\ item.id \notin IdsOf(conn[c].sent)
            => IdsDiffer(Append(conn[c].sent, item))
  BY <1>2, <1>3, AppendItem
<1>5. ClientFits(c) BY DEF EventInv
<1>6. /\ x \in ConnRecords /\ x.pc = conn[c].pc /\ x.from = conn[c].from
      /\ x.replay = Tail(conn[c].replay) /\ x.sent = Append(conn[c].sent, item)
      /\ x.chan = conn[c].chan /\ x.replayed = conn[c].replayed /\ x.rows = conn[c].rows
      /\ x.early = conn[c].early /\ x.listed = conn[c].listed /\ x.failed = conn[c].failed
  BY <1>2, <1>3, <1>4 DEF ConnRecords
<1> HIDE DEF x
<1>7. conn'[c] = x BY <1>1, ConnFacts
<1>8. \A e : InHand(e)' <=> InHand(e) BY <1>1 DEF InHand
<1>9. conn[c].pc = "live" BY <1>1, <1>2, <1>5, ConnFacts DEF ClientFits, SentFits, Off
<1>10. ChanFits(c)' BY <1>5, <1>6, <1>7, <1>8 DEF ClientFits, ChanFits
<1>11. SentFits(c)'
  <2>1. item.id \in IdsOf(conn[c].replay) /\ item.id \in conn[c].replayed
    BY <1>3, <1>5 DEF ClientFits, SentFits
  <2>2. item.id \notin IdsOf(conn[c].sent) BY <1>5, <2>1 DEF ClientFits, SentFits
  <2>3. IdsDiffer(x.replay) /\ IdsDiffer(x.sent)
    BY <1>3, <1>4, <1>5, <1>6, <2>2 DEF ClientFits, SentFits
  <2>4. IdsOf(x.replay) \cap IdsOf(x.sent) = {}
    BY <1>3, <1>4, <1>5, <1>6 DEF ClientFits, SentFits
  <2>5. /\ IdsOf(x.replay) \subseteq x.replayed
        /\ x.replayed \subseteq IdsOf(x.replay) \cup IdsOf(x.sent)
    BY <1>3, <1>4, <1>5, <1>6 DEF ClientFits, SentFits
  <2>6. \A y \in Range(x.sent) :
            \/ y.id \in x.replayed
            \/ y.event \notin EventsOf(x.chan) /\ ~InHand(y.event)
    BY <1>4, <1>5, <1>6, <2>1 DEF ClientFits, SentFits
  <2> QED BY <1>6, <1>7, <1>8, <1>9, <2>3, <2>4, <2>5, <2>6 DEF SentFits
<1>12. Targeted(c)'
  <2>1. Publishing' = Publishing BY <1>1 DEF Publishing
  <2> QED BY <1>1, <1>5, <1>6, <1>7, <2>1 DEF ClientFits, Targeted
<1>13. GapFits(c)'
  <2>1. Got(c)' = Got(c) BY <1>3, <1>4, <1>6, <1>7 DEF Got
  <2>2. item.event \in Got(c) BY <1>3 DEF Got
  <2>3. dropped'[c] = dropped[c] \ {item.event} BY <1>1 DEF TypeOK
  <2>4. \A e : Coming(c, e) => Coming(c, e)'
    BY <1>1, <1>6, <1>7, <1>8, <2>1, <2>2, <2>3 DEF Coming
  <2> QED BY <1>1, <1>5, <1>6, <1>7, <2>1, <2>4 DEF ClientFits, GapFits
<1>14. ClientFits(c)' BY <1>10, <1>11, <1>12, <1>13 DEF ClientFits
<1>15. cursor' \in [Clients -> Ids] /\ dropped' \in [Clients -> SUBSET (1 .. clock)]
  <2>1. item.id \in Ids BY <1>3 DEF Items
  <2> QED BY <1>1, <2>1 DEF TypeOK
<1>16. Len(x.chan) <= Buffer BY <1>1, <1>6, ConnFacts
<1>17. \A y \in Range(x.chan) \cup Range(x.replay) \cup Range(x.sent) : y \in Known
  BY <1>3, <1>4, <1>6, KnownFacts DEF KnownOf
<1>18. \A d \in Clients : d # c => dropped'[d] = dropped[d] BY <1>1 DEF TypeOK
<1> QED BY <1>1, <1>6, <1>9, <1>14, <1>15, <1>16, <1>17, <1>18, ClientStep

(* WriteLive: what was replayed is skipped, the rest is new. *)
LEMMA WriteLiveKeeps ==
    ASSUME EventInv, NEW c \in Clients, WriteLive(c)
    PROVE  EventInv'
<1> DEFINE item == Head(conn[c].chan)
           rest == [conn[c] EXCEPT !.chan = Tail(@)]
           x == IF IsFresh(c, item) THEN [rest EXCEPT !.sent = Append(@, item)] ELSE rest
<1>1. /\ TypeOK /\ conn[c].pc = "live" /\ conn[c].replay = <<>> /\ conn[c].chan # <<>>
      /\ conn' = [conn EXCEPT ![c] = x]
      /\ IF IsFresh(c, item) THEN /\ cursor' = [cursor EXCEPT ![c] = item.id]
                                  /\ dropped' = [dropped EXCEPT ![c] = @ \ {item.event}]
                             ELSE UNCHANGED <<cursor, dropped>>
      /\ UNCHANGED <<clock, outbox, ring, nextID, pub, remote>>
  BY DEF WriteLive, Receive, EventInv
<1>2. /\ conn[c] \in ConnRecords /\ conn[c].chan \in Seq(Items) /\ conn[c].sent \in Seq(Items)
      /\ Len(conn[c].chan) <= Buffer
  BY <1>1, ConnFacts
<1>3. /\ item \in Items /\ Tail(conn[c].chan) \in Seq(Items)
      /\ Len(Tail(conn[c].chan)) <= Buffer
      /\ Range(conn[c].chan) = {item} \cup Range(Tail(conn[c].chan))
      /\ EventsOf(conn[c].chan) = {item.event} \cup EventsOf(Tail(conn[c].chan))
      /\ EventsDiffer(conn[c].chan) =>
            /\ EventsDiffer(Tail(conn[c].chan))
            /\ item.event \notin EventsOf(Tail(conn[c].chan))
  <2>1. Len(conn[c].chan) \in Nat /\ Len(Tail(conn[c].chan)) = Len(conn[c].chan) - 1
    BY <1>1, <1>2, TailItem
  <2>2. Len(Tail(conn[c].chan)) <= Buffer BY <1>2, <2>1
  <2> QED BY <1>1, <1>2, <2>2, TailItem
<1>4. /\ Append(conn[c].sent, item) \in Seq(Items)
      /\ Range(Append(conn[c].sent, item)) = Range(conn[c].sent) \cup {item}
      /\ EventsOf(Append(conn[c].sent, item)) = EventsOf(conn[c].sent) \cup {item.event}
      /\ IdsOf(Append(conn[c].sent, item)) = IdsOf(conn[c].sent) \cup {item.id}
      /\ IdsDiffer(conn[c].sent) /\ item.id \notin IdsOf(conn[c].sent)
            => IdsDiffer(Append(conn[c].sent, item))
  BY <1>2, <1>3, AppendItem
<1> HIDE DEF item
<1>5. ClientFits(c) BY DEF EventInv
<1>6. /\ x \in ConnRecords /\ x.pc = conn[c].pc /\ x.from = conn[c].from
      /\ x.replay = <<>> /\ x.chan = Tail(conn[c].chan)
      /\ x.sent = IF IsFresh(c, item) THEN Append(conn[c].sent, item) ELSE conn[c].sent
      /\ x.replayed = conn[c].replayed /\ x.rows = conn[c].rows
      /\ x.early = conn[c].early /\ x.listed = conn[c].listed /\ x.failed = conn[c].failed
  BY <1>1, <1>2, <1>3, <1>4 DEF ConnRecords
<1> HIDE DEF x
<1>7. conn'[c] = x BY <1>1, ConnFacts
<1>8. \A e : InHand(e)' <=> InHand(e) BY <1>1 DEF InHand
<1>9. item \in Known /\ \A y \in Range(conn[c].sent) : y \in Known
  BY <1>3, KnownFacts DEF KnownOf
<1>10. item.event \in EventsOf(conn[c].chan) /\ ~InHand(item.event)
  BY <1>3, <1>5 DEF ClientFits, ChanFits
<1>11. ChanFits(c)' BY <1>3, <1>5, <1>6, <1>7, <1>8 DEF ClientFits, ChanFits
<1>12. SentFits(c)'
  <2>1. IdsOf(conn[c].replay) = {} /\ IdsDiffer(<<>>) /\ IdsOf(<<>>) = {} BY <1>1, NoItems
  <2>2. \A y \in Range(conn[c].sent) :
            \/ y.id \in x.replayed
            \/ y.event \notin EventsOf(x.chan) /\ ~InHand(y.event)
    BY <1>3, <1>5, <1>6 DEF ClientFits, SentFits
  <2>3. CASE IsFresh(c, item)
    <3>1. item.id \notin conn[c].replayed BY <2>3 DEF IsFresh
    <3>2. ASSUME item.id \in IdsOf(conn[c].sent) PROVE FALSE
      <4>1. PICK y \in Range(conn[c].sent) : y.id = item.id BY <3>2, ItemsOf
      <4>2. y.event = item.event BY <1>9, <4>1 DEF EventInv, ItemsNamed
      <4> QED BY <1>5, <1>10, <3>1, <4>1, <4>2 DEF ClientFits, SentFits
    <3>3. x.sent = Append(conn[c].sent, item) BY <1>6, <2>3
    <3>4. IdsDiffer(x.sent) BY <1>4, <1>5, <3>2, <3>3 DEF ClientFits, SentFits
    <3>5. item.event \notin EventsOf(x.chan) BY <1>3, <1>5, <1>6 DEF ClientFits, ChanFits
    <3>6. \A y \in Range(x.sent) :
              \/ y.id \in x.replayed
              \/ y.event \notin EventsOf(x.chan) /\ ~InHand(y.event)
      BY <1>4, <1>10, <2>2, <3>3, <3>5
    <3>7. x.replayed \subseteq IdsOf(x.sent)
      BY <1>4, <1>5, <1>6, <2>1, <3>3 DEF ClientFits, SentFits
    <3> QED BY <1>1, <1>6, <1>7, <1>8, <2>1, <3>4, <3>6, <3>7 DEF SentFits
  <2>4. CASE ~IsFresh(c, item)
    <3>1. x.sent = conn[c].sent BY <1>6, <2>4
    <3>2. IdsDiffer(x.sent) /\ x.replayed \subseteq IdsOf(x.sent)
      BY <1>5, <1>6, <2>1, <3>1 DEF ClientFits, SentFits
    <3> QED BY <1>1, <1>6, <1>7, <1>8, <2>1, <2>2, <3>1, <3>2 DEF SentFits
  <2> QED BY <2>3, <2>4
<1>13. Targeted(c)'
  <2>1. Publishing' = Publishing BY <1>1 DEF Publishing
  <2> QED BY <1>1, <1>5, <1>6, <1>7, <2>1 DEF ClientFits, Targeted
(* An event that is skipped was replayed before, under the same id. *)
<1>14. item.event \in EventsOf(x.sent)
  <2>1. CASE IsFresh(c, item) BY <1>4, <1>6, <2>1
  <2>2. CASE ~IsFresh(c, item)
    <3>1. item.id \in conn[c].replayed /\ x.sent = conn[c].sent BY <1>6, <2>2 DEF IsFresh
    <3>2. item.id \in IdsOf(conn[c].sent) BY <1>1, <1>5, <3>1, NoItems DEF ClientFits, SentFits
    <3>3. PICK y \in Range(conn[c].sent) : y.id = item.id BY <3>2, ItemsOf
    <3>4. y.event = item.event BY <1>9, <3>3 DEF EventInv, ItemsNamed
    <3> QED BY <3>1, <3>3, <3>4, ItemsOf
  <2> QED BY <2>1, <2>2
<1>15. GapFits(c)'
  <2>1. Got(c) = EventsOf(conn[c].sent) /\ Got(c)' = EventsOf(x.sent)
    BY <1>1, <1>6, <1>7, NoItems DEF Got
  <2>2. EventsOf(conn[c].sent) \subseteq EventsOf(x.sent) BY <1>4, <1>6
  <2>3. dropped[c] \subseteq dropped'[c] \cup {item.event} BY <1>1 DEF TypeOK
  <2>4. \A e : Coming(c, e) => Coming(c, e)'
    BY <1>1, <1>3, <1>6, <1>7, <1>8, <1>14, <2>1, <2>2, <2>3 DEF Coming
  <2> QED BY <1>1, <1>5, <1>6, <1>7, <2>1, <2>2, <2>4 DEF ClientFits, GapFits
<1>16. ClientFits(c)' BY <1>11, <1>12, <1>13, <1>15 DEF ClientFits
<1>17. cursor' \in [Clients -> Ids] /\ dropped' \in [Clients -> SUBSET (1 .. clock)]
  <2>1. item.id \in Ids BY <1>3 DEF Items
  <2>2. cursor \in [Clients -> Ids] /\ dropped \in [Clients -> SUBSET (1 .. clock)]
    BY <1>1 DEF TypeOK
  <2> QED BY <1>1, <2>1, <2>2
<1>18. \A y \in Range(x.chan) \cup Range(x.replay) \cup Range(x.sent) : y \in Known
  BY <1>3, <1>4, <1>6, <1>9, KnownFacts, NoItems DEF KnownOf
<1>19. \A d \in Clients : d # c => dropped'[d] = dropped[d] BY <1>1 DEF TypeOK
<1> QED BY <1>1, <1>3, <1>6, <1>16, <1>17, <1>18, <1>19, ClientStep

(* A connection that is off holds nothing. *)
LEMMA OffFits ==
    /\ Off \in ConnRecords /\ Off.pc = "off" /\ Off.chan = <<>> /\ Off.replay = <<>>
    /\ Off.sent = <<>> /\ Off.replayed = {} /\ Off.early = {} /\ Len(Off.chan) <= Buffer
    /\ \A c : conn'[c] = Off => ClientFits(c)'
<1>1. /\ Off.pc = "off" /\ Off.chan = <<>> /\ Off.replay = <<>>
      /\ Off.sent = <<>> /\ Off.replayed = {} /\ Off.early = {}
  BY DEF Off
<1>2. Off \in ConnRecords
  <2>1. <<>> \in Seq(Items) BY EmptySeq
  <2> QED BY <2>1, IdsApart DEF Off, ConnRecords
<1>3. Len(Off.chan) <= Buffer BY <1>1, EmptySeq
<1>4. \A c : conn'[c] = Off => ClientFits(c)'
  BY <1>1, NoItems DEF ClientFits, ChanFits, SentFits, Targeted, GapFits
<1> QED BY <1>1, <1>2, <1>3, <1>4

(* Cut. *)
LEMMA CutKeeps ==
    ASSUME EventInv, NEW c \in Clients, Cut(c)
    PROVE  EventInv'
<1>1. /\ TypeOK /\ conn' = [conn EXCEPT ![c] = Off]
      /\ pub' = [p \in Publications |-> [pub[p] EXCEPT !.targets = @ \ {c}]]
      /\ UNCHANGED <<clock, outbox, ring, nextID, remote, cursor, dropped>>
  BY DEF Cut, Unsubscribe, EventInv
<1>2. conn'[c] = Off /\ \A d \in Clients : d # c => conn'[d] = conn[d] BY <1>1, ConnFacts
<1>3. \A p \in Publications :
          /\ pub'[p].pc = pub[p].pc /\ pub'[p].item = pub[p].item
          /\ pub'[p].targets = pub[p].targets \ {c}
          /\ pub[p] = IdlePub => pub'[p] = IdlePub
  <2> SUFFICES ASSUME NEW p \in Publications
               PROVE  /\ pub'[p].pc = pub[p].pc /\ pub'[p].item = pub[p].item
                      /\ pub'[p].targets = pub[p].targets \ {c}
                      /\ pub[p] = IdlePub => pub'[p] = IdlePub
    OBVIOUS
  <2>1. pub[p] \in PubRecords BY <1>1, PubFacts
  <2>2. pub'[p] = [pub[p] EXCEPT !.targets = @ \ {c}] BY <1>1
  <2>3. IdlePub.targets \ {c} = IdlePub.targets BY DEF IdlePub
  <2>4. /\ pub'[p].pc = pub[p].pc /\ pub'[p].item = pub[p].item
        /\ pub'[p].targets = pub[p].targets \ {c}
    BY <2>1, <2>2 DEF PubRecords
  <2>5. pub[p] = IdlePub => pub'[p] = IdlePub BY <2>2, <2>3 DEF IdlePub
  <2> QED BY <2>4, <2>5
<1>4. Api \subseteq Publications BY DEF Publications
<1>5. /\ \A e : InHand(e)' <=> InHand(e)
      /\ Publishing' = Publishing /\ Selecting' = Selecting
  BY <1>3, <1>4 DEF InHand, Publishing, Selecting
<1>6. TypeOK'
  <2>1. Subscribed' = Subscribed \ {c}
    BY <1>2, OffFits, ConnFacts DEF Subscribed
  <2>2. ASSUME NEW p \in Publications PROVE pub'[p] \in PubRecords'
    <3>1. pub[p] \in PubRecords BY <1>1, PubFacts
    <3>2. pub'[p] = [pub[p] EXCEPT !.targets = @ \ {c}] BY <1>1
    <3> QED BY <1>1, <2>1, <3>1, <3>2 DEF PubRecords
  <2>3. pub' \in [Publications -> PubRecords'] BY <1>1, <2>2
  <2>4. conn' \in [Clients -> ConnRecords] BY <1>1, OffFits DEF TypeOK, ConnRecords
  <2>5. \A d \in Clients : Len(conn'[d].chan) <= Buffer
    BY <1>1, <1>2, ConnFacts, OffFits
  <2> QED BY <1>1, <2>3, <2>4, <2>5 DEF TypeOK, ConnRecords, PubRecords
<1>7. ItemsNamed'
  <2> SUFFICES ASSUME NEW y \in Known' PROVE y \in Known
    BY <1>1, ClockFacts, NamesStay
  <2>1. CASE \E d \in Clients : y \in KnownOf(d)'
    <3>1. PICK d \in Clients : y \in KnownOf(d)' BY <2>1
    <3>2. d # c BY <1>2, <3>1, OffFits, NoItems DEF KnownOf
    <3> QED BY <1>2, <3>1, <3>2 DEF Known, KnownOf
  <2>2. CASE y \in Range(ring) BY <2>2 DEF Known
  <2>3. CASE \E p \in Publishing : y = pub'[p].item
    <3>1. \A p \in Publishing : pub'[p].item = pub[p].item BY <1>3, <1>4 DEF Publishing
    <3> QED BY <2>3, <3>1 DEF Known
  <2> QED BY <1>1, <1>5, <2>1, <2>2, <2>3 DEF Known
<1>8. \A p \in Publications : PubFits(p)'
  BY <1>1, <1>3 DEF EventInv, PubFits
<1>9. OneEventEach' BY <1>3 DEF EventInv, OneEventEach
<1>10. NumbersSuffice' BY <1>1, <1>5 DEF EventInv, NumbersSuffice
<1>11. RingFits' BY <1>1, <1>3, <1>4 DEF EventInv, RingFits
<1>12. ASSUME NEW d \in Clients PROVE ClientFits(d)'
  <2>1. CASE d = c BY <1>2, <2>1, OffFits
  <2>2. CASE d # c
    <3>1. conn'[d] = conn[d] /\ ClientFits(d) BY <1>2, <2>2 DEF EventInv
    <3>2. Got(d)' = Got(d) BY <3>1 DEF Got
    <3>3. ChanFits(d)' BY <1>5, <3>1 DEF ClientFits, ChanFits
    <3>4. SentFits(d)' BY <1>5, <3>1 DEF ClientFits, SentFits
    <3>5. Targeted(d)'
      <4>1. \A p \in Publishing : p \in Publications BY <1>4 DEF Publishing
      <4> QED BY <1>3, <1>5, <2>2, <3>1, <4>1 DEF ClientFits, Targeted
    <3>6. \A e : Coming(d, e)' <=> Coming(d, e) BY <1>1, <1>5, <3>1, <3>2 DEF Coming
    <3>7. GapFits(d)' BY <1>1, <3>1, <3>2, <3>6 DEF ClientFits, GapFits
    <3> QED BY <3>3, <3>4, <3>5, <3>7 DEF ClientFits
  <2> QED BY <2>1, <2>2
<1> QED BY <1>6, <1>7, <1>8, <1>9, <1>10, <1>11, <1>12 DEF EventInv

(* Restart: ring, local numbers and connections are forgotten together. *)
LEMMA RestartKeeps ==
    ASSUME EventInv, Restart
    PROVE  EventInv'
<1>1. /\ TypeOK /\ conn' = [c \in Clients |-> Off]
      /\ pub' = [p \in Publications |-> IF p \in Api THEN IdlePub ELSE pub[p]]
      /\ ring' = <<>> /\ nextID' = 0
      /\ UNCHANGED <<clock, outbox, remote, cursor, dropped>>
  BY DEF Restart, EventInv
<1>2. \A c \in Clients : conn'[c] = Off BY <1>1
<1>3. /\ \A p \in Publications : p \in Api => pub'[p] = IdlePub
      /\ \A p \in Publications : p \notin Api => pub'[p] = pub[p]
      /\ Api \subseteq Publications
  BY <1>1 DEF Publications
<1>4. IdlePub.pc = "idle" /\ IdlePub.targets = {} BY DEF IdlePub
<1>5. Publishing' = {} /\ Selecting' = {}
  BY <1>3, <1>4 DEF Publishing, Selecting
<1>6. clock \in Nat BY <1>1, ClockFacts
<1>7. TypeOK'
  <2>1. ASSUME NEW p \in Publications PROVE pub'[p] \in PubRecords'
    <3>1. CASE p \in Api
      <4>1. IdlePub.item \in [event : 0 .. clock, id : Ids]
        BY <1>6, IdsApart DEF IdlePub, Item
      <4> QED BY <1>1, <1>3, <3>1, <4>1 DEF IdlePub, PubRecords
    <3>2. CASE p \notin Api
      <4>1. pub'[p] = pub[p] /\ pub[p] \in PubRecords /\ pub[p].targets = {}
        BY <1>1, <1>3, <3>2, PubFacts DEF EventInv, PubFits
      <4> QED BY <1>1, <4>1 DEF PubRecords
    <3> QED BY <3>1, <3>2
  <2>2. pub' \in [Publications -> PubRecords'] BY <1>1, <2>1
  <2>3. conn' \in [Clients -> ConnRecords] BY <1>1, OffFits
  <2>4. \A c \in Clients : Len(conn'[c].chan) <= Buffer BY <1>2, OffFits
  <2>5. ring' \in Seq(Items) /\ Len(ring') <= RingSize BY <1>1, EmptySeq
  <2> QED BY <1>1, <2>2, <2>3, <2>4, <2>5 DEF TypeOK, ConnRecords, PubRecords
<1>8. ItemsNamed'
  <2>1. \A c \in Clients : KnownOf(c)' = {} BY <1>2, OffFits, NoItems DEF KnownOf
  <2>2. Known' = {} BY <1>1, <1>5, <2>1, NoItems DEF Known
  <2> QED BY <2>2 DEF ItemsNamed
<1>9. \A p \in Publications : PubFits(p)'
  BY <1>1, <1>3, <1>4 DEF EventInv, PubFits
<1>10. OneEventEach' BY <1>3, <1>4 DEF EventInv, OneEventEach
<1>11. NumbersSuffice' BY <1>1, <1>5, <1>6, FS_EmptySet DEF NumbersSuffice
<1>12. RingFits' BY <1>1, <1>3, <1>4, NoItems DEF RingFits
<1>13. \A c \in Clients : ClientFits(c)' BY <1>2, OffFits
<1> QED BY <1>7, <1>8, <1>9, <1>10, <1>11, <1>12, <1>13 DEF EventInv

-----------------------------------------------------------------------------
(* Publications. *)

(* What is held is held by a publication of the API process only.          *)
LEMMA SelectingFinite ==
    ASSUME EventInv
    PROVE  /\ Selecting \subseteq 1 .. clock /\ IsFiniteSet(Selecting)
           /\ Cardinality(Selecting) \in Nat
<1>1. Selecting \subseteq 1 .. clock
  <2>1. Api \subseteq Publications BY DEF Publications
  <2> QED BY <2>1 DEF Selecting, EventInv, PubFits
<1>2. IsFiniteSet(1 .. clock) BY ClockFacts, FS_Interval DEF EventInv
<1>3. IsFiniteSet(Selecting) BY <1>1, <1>2, FS_Subset
<1> QED BY <1>1, <1>3, FS_CardinalityType

(* A publication of an event begun before goes on; the table may grow by it. *)
LEMMA PublishStep ==
    ASSUME EventInv, NEW p \in Publications, NEW x \in PubRecords,
           pub' = [pub EXCEPT ![p] = x],
           UNCHANGED <<clock, clients, remote>>, pub[p].pc # "idle",
           p \in Api => x.pc # "idle" /\ x.item.event = pub[p].item.event,
           p \notin Api /\ x.pc # "idle" => x.item.event = pub[p].item.event,
           outbox' \in {outbox, outbox \cup {pub[p].item.event}},
           ring' \in Seq(Items), Len(ring') <= RingSize, nextID' \in 0 .. MaxEvents,
           ItemsNamed', PubFits(p)', NumbersSuffice', RingFits',
           p \in Api => \A c \in Subscribed :
               x.pc \in {"append", "record", "send"} =>
                   \/ c \in x.targets
                   \/ p \in Publishing /\ x.targets = pub[p].targets
    PROVE  EventInv'
<1>1. TypeOK /\ conn' = conn /\ cursor' = cursor /\ dropped' = dropped
  BY DEF EventInv, clients
<1>2. pub'[p] = x /\ \A q \in Publications : q # p => pub'[q] = pub[q] BY <1>1, PubFacts
<1>3. Api \subseteq Publications BY DEF Publications
<1>4. \A e : InHand(e)' <=> InHand(e) BY <1>2, <1>3 DEF InHand
<1>5. pub[p].item.event \in 1 .. clock BY DEF EventInv, PubFits
<1>6. outbox \subseteq outbox' /\ outbox' \subseteq 1 .. clock /\ clock \in Nat
  BY <1>1, <1>5, ClockFacts
<1>7. TypeOK'
  <2>1. pub' \in [Publications -> PubRecords] BY <1>1 DEF TypeOK, PubRecords
  <2>2. pub' \in [Publications -> PubRecords'] BY <1>1, <2>1 DEF PubRecords, Subscribed
  <2>3. \A c \in Clients : conn[c] \in ConnRecords' BY <1>1, <1>6, ConnFacts, ConnGrows
  <2>4. conn' \in [Clients -> ConnRecords'] BY <1>1, <2>3 DEF TypeOK
  <2> QED BY <1>1, <1>6, <2>2, <2>4 DEF TypeOK, ConnRecords, PubRecords
<1>8. \A q \in Publications : PubFits(q)' BY <1>2 DEF EventInv, PubFits
<1>9. OneEventEach' BY <1>2 DEF EventInv, OneEventEach
<1>10. ASSUME NEW c \in Clients PROVE ClientFits(c)'
  <2>1. conn'[c] = conn[c] /\ ClientFits(c) /\ dropped'[c] = dropped[c] BY <1>1 DEF EventInv
  <2>2. Got(c)' = Got(c) BY <2>1 DEF Got
  <2>3. ChanFits(c)' BY <1>4, <2>1 DEF ClientFits, ChanFits
  <2>4. SentFits(c)' BY <1>4, <2>1 DEF ClientFits, SentFits
  <2>5. Targeted(c)'
    <3> SUFFICES ASSUME conn[c].pc # "off", NEW q \in Publishing'
                 PROVE  c \in pub'[q].targets \/ pub'[q].item.event \in conn[c].early
      BY <2>1 DEF Targeted
    <3>1. CASE q # p
      <4>1. q \in Publishing /\ pub'[q] = pub[q] BY <1>2, <1>3, <3>1 DEF Publishing
      <4> QED BY <2>1, <4>1 DEF ClientFits, Targeted
    <3>2. CASE q = p
      <4>1. p \in Api /\ x.pc \in {"append", "record", "send"} /\ c \in Subscribed
        BY <1>2, <3>2 DEF Publishing, Subscribed
      <4> QED BY <1>2, <2>1, <3>2, <4>1 DEF ClientFits, Targeted
    <3> QED BY <3>1, <3>2
  <2>6. \A e : Coming(c, e)' <=> Coming(c, e) BY <1>4, <2>1, <2>2 DEF Coming
  <2>7. Coming(c, pub[p].item.event)
    <3>1. CASE p \in Api BY <3>1 DEF Coming, InHand
    <3>2. CASE p \notin Api BY <3>2 DEF Coming, EventInv, PubFits
    <3> QED BY <3>1, <3>2
  <2>8. GapFits(c)' BY <2>1, <2>2, <2>6, <2>7 DEF ClientFits, GapFits
  <2> QED BY <2>3, <2>4, <2>5, <2>8 DEF ClientFits
<1> QED BY <1>7, <1>8, <1>9, <1>10 DEF EventInv


(* A set has one element fewer without one of its elements. *)
LEMMA OneFewer ==
    ASSUME NEW S, IsFiniteSet(S), NEW x \in S
    PROVE  Cardinality(S) \in Nat /\ Cardinality(S) # 0
           /\ Cardinality(S \ {x}) = Cardinality(S) - 1
<1>1. Cardinality(S) \in Nat BY FS_CardinalityType
<1>2. Cardinality(S) # 0 BY FS_EmptySet
<1>3. Cardinality(S \ {x}) = Cardinality(S) - 1 BY FS_RemoveElement
<1> QED BY <1>1, <1>2, <1>3

(* What an API publication in progress holds. *)
LEMMA ApiFacts ==
    ASSUME EventInv, NEW p \in Publications, pub[p].pc # "idle"
    PROVE  /\ pub[p].item.event \in 1 .. clock /\ pub[p].item.event \in Events
           /\ pub[p].item \in Items /\ Api \subseteq Publications
           /\ \A q \in Publications : q # p /\ pub[q].pc # "idle" =>
                 pub[q].item.event # pub[p].item.event
           /\ pub[p].pc \in {"record", "send"} => p \in Api
           /\ p \in Api /\ pub[p].pc # "select" => p \in Publishing /\ pub[p].item \in Known
<1>1. TypeOK /\ PubFits(p) /\ OneEventEach BY DEF EventInv
<1>2. pub[p].item.event \in 1 .. clock BY <1>1 DEF PubFits
<1>3. pub[p].item.event \in Events BY <1>1, <1>2, ClockFacts
<1>4. pub[p].item \in Items BY <1>1, <1>3, PubFacts DEF Items
<1>5. pub[p].pc \in {"record", "send"} => p \in Api BY <1>1 DEF PubFits
<1>6. p \in Api /\ pub[p].pc # "select" => p \in Publishing
  BY <1>1, PubFacts DEF Publishing
<1> QED BY <1>1, <1>2, <1>3, <1>4, <1>5, <1>6, KnownFacts DEF OneEventEach, Publications

(* Where no publication enters or leaves the choice, numbers still suffice. *)
LEMMA SameNumbers ==
    ASSUME EventInv, NEW p \in Publications, NEW x, pub[p].pc # "select", x.pc # "select",
           pub' = [pub EXCEPT ![p] = x], UNCHANGED <<clock, nextID>>
    PROVE  NumbersSuffice'
<1>1. DOMAIN pub = Publications /\ Api \subseteq Publications
  BY PubFacts DEF EventInv, Publications
<1>2. pub'[p] = x /\ \A q \in Publications : q # p => pub'[q] = pub[q] BY <1>1
<1>3. Selecting' = Selecting BY <1>1, <1>2 DEF Selecting
<1> QED BY <1>3 DEF EventInv, NumbersSuffice

(* What is known after a publication went on. *)
LEMMA KnownStep ==
    ASSUME EventInv, NEW p \in Publications, NEW x,
           pub' = [pub EXCEPT ![p] = x], UNCHANGED conn
    PROVE  \A y \in Known' :
              \/ y \in Range(ring')
              \/ y \in Known
              \/ p \in Api /\ x.pc \in {"append", "record", "send"} /\ y = x.item
<1>1. DOMAIN pub = Publications /\ Api \subseteq Publications
  BY PubFacts DEF EventInv, Publications
<1>2. pub'[p] = x /\ \A q \in Publications : q # p => pub'[q] = pub[q] BY <1>1
<1>3. \A c \in Clients : KnownOf(c)' = KnownOf(c) BY DEF KnownOf
<1>4. ASSUME NEW q \in Publishing'
      PROVE  \/ pub'[q].item \in Known
             \/ p \in Api /\ x.pc \in {"append", "record", "send"} /\ pub'[q].item = x.item
  <2>1. CASE q = p BY <1>2, <1>4, <2>1 DEF Publishing
  <2>2. CASE q # p
    <3>1. q \in Publishing /\ pub'[q] = pub[q] BY <1>1, <1>2, <1>4, <2>2 DEF Publishing
    <3> QED BY <3>1, KnownFacts
  <2> QED BY <2>1, <2>2
<1> QED BY <1>3, <1>4 DEF Known

(* Select: a new id, and a subscriber registered before is a target. *)
LEMMA SelectKeeps ==
    ASSUME EventInv, NEW p \in Publications, Select(p)
    PROVE  EventInv'
<1> DEFINE e == pub[p].item.event
<1> PICK x : x = IF p \in Api
                   THEN [pub[p] EXCEPT !.pc = "append", !.targets = Subscribed,
                                       !.item.id = Local(nextID + 1)]
                   ELSE [pub[p] EXCEPT !.pc = "append"]
  OBVIOUS
<1>1. /\ TypeOK /\ pub[p].pc = "select" /\ pub' = [pub EXCEPT ![p] = x]
      /\ UNCHANGED <<clock, outbox, ring, remote, clients>>
      /\ nextID' = IF p \in Api THEN nextID + 1 ELSE nextID
  BY DEF Select, EventInv
<1>2. /\ e \in 1 .. clock /\ e \in Events /\ pub[p] \in PubRecords
      /\ Api \subseteq Publications
      /\ \A q \in Publications : q # p /\ pub[q].pc # "idle" => pub[q].item.event # e
  BY <1>1, ApiFacts, PubFacts
<1>3. DOMAIN pub = Publications /\ nextID \in Nat /\ clock \in Nat
      /\ clock <= MaxEvents /\ nextID <= MaxEvents
  BY <1>1, ClockFacts, PubFacts
<1>4. p \in Api => nextID + 1 <= clock
  <2> SUFFICES ASSUME p \in Api PROVE nextID + 1 <= clock
    OBVIOUS
  <2>1. e \in Selecting BY <1>1 DEF Selecting
  <2>2. Cardinality(Selecting) # 0 BY <2>1, SelectingFinite, FS_EmptySet
  <2> QED BY <1>3, <2>2, SelectingFinite DEF EventInv, NumbersSuffice
<1>5. /\ x \in PubRecords /\ x.pc = "append" /\ x.item.event = e
      /\ p \in Api => x.item.id = Local(nextID + 1) /\ x.targets = Subscribed
      /\ p \notin Api => x.targets = pub[p].targets
  <2>1. CASE p \in Api
    <3>1. nextID + 1 \in Events BY <1>3, <1>4, <2>1 DEF Events
    <3>2. Local(nextID + 1) \in Ids BY <3>1, IdsApart
    <3>3. x = [pub[p] EXCEPT !.pc = "append", !.targets = Subscribed,
                             !.item.id = Local(nextID + 1)]
      BY <2>1
    <3>4. Subscribed \in SUBSET Subscribed OBVIOUS
    <3>5. [pub[p].item EXCEPT !.id = Local(nextID + 1)] \in [event : 0 .. clock, id : Ids]
      BY <1>2, <3>2 DEF PubRecords
    <3>6. x.item = [pub[p].item EXCEPT !.id = Local(nextID + 1)] BY <1>2, <3>3 DEF PubRecords
    <3>7. x.item.id = Local(nextID + 1) /\ x.item.event = e BY <1>2, <3>6 DEF PubRecords
    <3>8. x \in PubRecords /\ x.pc = "append" /\ x.targets = Subscribed
      BY <1>2, <3>3, <3>4, <3>5, <3>6 DEF PubRecords
    <3> QED BY <2>1, <3>7, <3>8
  <2>2. CASE p \notin Api
    <3>1. x = [pub[p] EXCEPT !.pc = "append"] BY <2>2
    <3> QED BY <1>2, <2>2, <3>1 DEF PubRecords
  <2> QED BY <2>1, <2>2
<1>6. pub'[p] = x /\ \A q \in Publications : q # p => pub'[q] = pub[q] BY <1>1, <1>3
<1>7. ItemsNamed'
  <2>1. \A y \in Known' : y \in Known \/ (p \in Api /\ y = x.item)
    BY <1>1, KnownStep, KnownFacts DEF clients
  <2>2. CASE p \notin Api BY <1>1, <1>3, <2>1, <2>2, NamesStay
  <2>3. CASE p \in Api
    <3>1. \A y \in Known : Named(y) /\ Named(y)'
      <4> SUFFICES ASSUME NEW y \in Known PROVE Named(y) /\ Named(y)'
        OBVIOUS
      <4>1. Named(y) BY DEF EventInv, ItemsNamed
      <4> QED BY <1>1, <1>3, <2>3, <4>1 DEF Named
    <3>2. Named(x.item)' BY <1>1, <1>2, <1>3, <1>5, <2>3 DEF Named
    <3>3. \A y \in Known : y.id # x.item.id
      <4> SUFFICES ASSUME NEW y \in Known, y.id = Local(nextID + 1) PROVE FALSE
        BY <1>5, <2>3
      <4>1. PICK n \in 1 .. nextID : y.id = Local(n) BY <3>1, IdsApart DEF Named
      <4>2. n = nextID + 1 BY <4>1, IdsApart
      <4> QED BY <1>3, <4>1, <4>2
    <3>4. \A y, z \in Known : y.id = z.id => y.event = z.event BY DEF EventInv, ItemsNamed
    <3>5. \A y, z \in Known' : y.id = z.id => y.event = z.event BY <2>1, <3>3, <3>4
    <3> QED BY <2>1, <3>1, <3>2, <3>5 DEF ItemsNamed
  <2> QED BY <2>2, <2>3
<1>8. PubFits(p)'
  <2>1. p \notin Api => pub[p].targets = {} /\ e \in remote
    BY <1>1 DEF EventInv, PubFits
  <2>2. p \notin Api => pub'[p].targets = {} BY <1>5, <1>6, <2>1
  <2>3. pub'[p].pc = "append" /\ pub'[p].item.event = e /\ clock' = clock /\ remote' = remote
    BY <1>1, <1>5, <1>6
  <2> QED BY <1>2, <2>1, <2>2, <2>3 DEF PubFits
<1>9. NumbersSuffice'
  <2>1. CASE p \in Api
    <3>1. e \in Selecting BY <1>1, <2>1 DEF Selecting
    <3>2. Selecting' = Selecting \ {e}
      <4>1. \A d : d \in Selecting' <=>
                      \E q \in Api : q # p /\ pub[q].pc = "select" /\ pub[q].item.event = d
        <5>1. \A d : d \in Selecting' <=>
                      \E q \in Api : pub'[q].pc = "select" /\ pub'[q].item.event = d
          BY DEF Selecting
        <5>2. pub'[p].pc # "select" BY <1>5, <1>6
        <5>3. \A q \in Api : q # p => pub'[q] = pub[q] BY <1>2, <1>6
        <5>4. \A q \in Api : q # p => (pub'[q].pc = "select" <=> pub[q].pc = "select")
                                      /\ pub'[q].item.event = pub[q].item.event
          BY <5>3
        <5> QED BY <5>1, <5>2, <5>4
      <4>2. \A d : d \in Selecting <=>
                      \E q \in Api : pub[q].pc = "select" /\ pub[q].item.event = d
        BY DEF Selecting
      <4>3. \A q \in Api : q # p /\ pub[q].pc = "select" => pub[q].item.event # e
        BY <1>2
      <4> QED BY <4>1, <4>2, <4>3
    <3>3. Cardinality(Selecting') = Cardinality(Selecting) - 1
      <4>1. Cardinality(Selecting \ {e}) = Cardinality(Selecting) - 1
        BY <3>1, SelectingFinite, OneFewer
      <4> QED BY <3>2, <4>1
    <3>4. /\ Cardinality(Selecting) \in Nat
          /\ nextID + Cardinality(Selecting) <= clock
      BY SelectingFinite DEF EventInv, NumbersSuffice
    <3> QED BY <1>1, <1>3, <2>1, <3>3, <3>4 DEF NumbersSuffice
  <2>2. CASE p \notin Api
    <3>1. Selecting' = Selecting BY <1>2, <1>6, <2>2 DEF Selecting
    <3> QED BY <1>1, <2>2, <3>1 DEF EventInv, NumbersSuffice
  <2> QED BY <2>1, <2>2
<1>10. RingFits' BY <1>1, <1>2, <1>5, <1>6 DEF EventInv, RingFits
<1>11. nextID' \in 0 .. MaxEvents BY <1>1, <1>3, <1>4
<1>12. ring' \in Seq(Items) /\ Len(ring') <= RingSize BY <1>1 DEF TypeOK
<1>13. /\ pub[p].pc # "idle" /\ x.pc # "idle" /\ outbox' \in {outbox, outbox \cup {e}}
       /\ p \in Api => \A c \in Subscribed : c \in x.targets
  BY <1>1, <1>5
<1> QED BY <1>1, <1>5, <1>7, <1>8, <1>9, <1>10, <1>11, <1>12, <1>13, PublishStep

(* AppendRow: the new row is in the hands of its publisher, or a worker's. *)
LEMMA AppendRowKeeps ==
    ASSUME EventInv, NEW p \in Publications, AppendRow(p)
    PROVE  EventInv'
<1> DEFINE e == pub[p].item.event
<1>1. PICK id \in {Row(e), pub[p].item.id} : Appended(p, id)
  BY DEF AppendRow
<1>2. /\ TypeOK /\ pub[p].pc = "append" /\ outbox' \in {outbox, outbox \cup {e}}
      /\ UNCHANGED <<clock, ring, nextID, remote, clients>>
  BY DEF AppendRow, EventInv
<1>3. PICK x : x = IF p \in Api THEN [pub[p] EXCEPT !.pc = "record", !.item.id = id]
                                ELSE IdlePub
  OBVIOUS
<1>4. pub' = [pub EXCEPT ![p] = x] BY <1>1, <1>3 DEF Appended
<1>5. /\ e \in 1 .. clock /\ e \in Events /\ pub[p] \in PubRecords /\ pub[p].item \in Items
      /\ Api \subseteq Publications
      /\ \A q \in Publications : q # p /\ pub[q].pc # "idle" => pub[q].item.event # e
      /\ p \in Api => p \in Publishing /\ pub[p].item \in Known
  BY <1>2, ApiFacts, PubFacts
<1>6. DOMAIN pub = Publications /\ nextID \in Nat /\ clock \in Nat BY <1>2, ClockFacts, PubFacts
<1>7. /\ p \in Api => /\ x \in PubRecords /\ x.pc = "record" /\ x.item.event = e
                      /\ x.item \in {Item(e, Row(e)), pub[p].item}
                      /\ x.targets = pub[p].targets
      /\ p \notin Api => x \in PubRecords /\ x = IdlePub /\ x.pc = "idle" /\ x.targets = {}
  <2>1. CASE p \in Api
    <3>1. x = [pub[p] EXCEPT !.pc = "record", !.item.id = id] BY <1>3, <2>1
    <3>2. id \in Ids BY <1>2, <1>5, IdsApart, PubFacts
    <3>3. x \in PubRecords /\ x.pc = "record" /\ x.item.event = e /\ x.targets = pub[p].targets
      BY <1>5, <3>1, <3>2 DEF PubRecords
    <3>4. x.item = [pub[p].item EXCEPT !.id = id] BY <1>5, <3>1 DEF PubRecords
    <3>5. x.item \in {Item(e, Row(e)), pub[p].item} BY <1>1, <1>5, <3>4 DEF Item, Items
    <3> QED BY <2>1, <3>3, <3>5
  <2>2. CASE p \notin Api
    <3>1. IdlePub \in PubRecords BY <1>6, IdsApart DEF IdlePub, PubRecords, Item
    <3> QED BY <1>3, <2>2, <3>1 DEF IdlePub
  <2> QED BY <2>1, <2>2
<1>8. pub'[p] = x /\ \A q \in Publications : q # p => pub'[q] = pub[q] BY <1>4, <1>6
<1>9. ItemsNamed'
  <2>1. \A y \in Known' : y \in Known \/ y = Item(e, Row(e))
    <3>1. UNCHANGED conn /\ Range(ring') \subseteq Known
      BY <1>2, KnownFacts DEF clients
    <3>2. \A y \in Known' : y \in Range(ring') \/ y \in Known \/ (p \in Api /\ y = x.item)
      BY <1>4, <3>1, KnownStep
    <3> QED BY <1>5, <1>7, <3>1, <3>2
  <2> QED BY <1>2, <1>5, <1>6, <2>1, NamesStay
<1>10. PubFits(p)' BY <1>2, <1>5, <1>7, <1>8 DEF PubFits
<1>11. x.pc # "select" BY <1>7
<1>12. NumbersSuffice' BY <1>2, <1>4, <1>11, SameNumbers
<1>13. RingFits' BY <1>2, <1>5, <1>7, <1>8 DEF EventInv, RingFits
<1>14. ring' \in Seq(Items) /\ Len(ring') <= RingSize /\ nextID' \in 0 .. MaxEvents
  BY <1>2 DEF TypeOK
<1>15. x \in PubRecords BY <1>7
<1> QED BY <1>2, <1>4, <1>5, <1>7, <1>9, <1>10, <1>12, <1>13, <1>14, <1>15, PublishStep

(* Record: the ring gets each event once. *)
LEMMA RecordKeeps ==
    ASSUME EventInv, NEW p \in Publications, Record(p)
    PROVE  EventInv'
<1> DEFINE item == pub[p].item
           e == pub[p].item.event
<1>1. /\ TypeOK /\ pub[p].pc = "record" /\ ring' = Append(Kept(ring), item)
      /\ UNCHANGED <<clock, outbox, nextID, remote, clients>>
  BY DEF Record, EventInv
<1>2. PICK x : x = [pub[p] EXCEPT !.pc = "send"] OBVIOUS
<1>3. pub' = [pub EXCEPT ![p] = x] BY <1>2 DEF Record
<1>4. /\ e \in 1 .. clock /\ item \in Items /\ pub[p] \in PubRecords
      /\ Api \subseteq Publications /\ p \in Api /\ p \in Publishing /\ item \in Known
      /\ \A q \in Publications : q # p /\ pub[q].pc # "idle" => pub[q].item.event # e
  BY <1>1, ApiFacts, PubFacts
<1>5. DOMAIN pub = Publications /\ nextID \in Nat /\ clock \in Nat BY <1>1, ClockFacts, PubFacts
<1>6. x \in PubRecords /\ x.pc = "send" /\ x.item = item /\ x.targets = pub[p].targets
  BY <1>2, <1>4 DEF PubRecords
<1>7. pub'[p] = x /\ \A q \in Publications : q # p => pub'[q] = pub[q] BY <1>3, <1>5
<1>8. /\ Kept(ring) \in Seq(Items) /\ Len(Kept(ring)) + 1 <= RingSize
      /\ Len(Kept(ring)) \in Nat
      /\ Range(Kept(ring)) \subseteq Range(ring)
      /\ EventsOf(Kept(ring)) \subseteq EventsOf(ring) /\ EventsDiffer(Kept(ring))
  <2>1. ring \in Seq(Items) /\ Len(ring) \in Nat /\ Len(ring) <= RingSize
        /\ EventsDiffer(ring) /\ RingSize \in Nat /\ RingSize >= 1
    BY <1>1, LenProperties DEF TypeOK, EventInv, RingFits
  <2>2. CASE Len(ring) < RingSize BY <2>1, <2>2 DEF Kept
  <2>3. CASE ~(Len(ring) < RingSize)
    <3>1. ring # <<>> BY <2>1, <2>3, EmptySeq
    <3>2. Kept(ring) = Tail(ring) BY <2>3 DEF Kept
    <3> QED BY <2>1, <3>1, <3>2, TailItem
  <2> QED BY <2>2, <2>3
<1>9. e \notin EventsOf(ring) BY <1>1, <1>4 DEF EventInv, RingFits
<1>10. /\ ring' \in Seq(Items) /\ Len(ring') <= RingSize
       /\ Range(ring') \subseteq Range(ring) \cup {item}
       /\ EventsOf(ring') \subseteq EventsOf(ring) \cup {e}
       /\ EventsDiffer(ring')
  BY <1>1, <1>4, <1>8, <1>9, AppendItem
<1>11. ItemsNamed'
  <2>1. \A y \in Known' : y \in Known
    <3>1. UNCHANGED conn /\ Range(ring') \subseteq Known
      BY <1>1, <1>4, <1>10, KnownFacts DEF clients
    <3>2. \A y \in Known' : y \in Range(ring') \/ y \in Known \/ y = x.item
      BY <1>3, <3>1, KnownStep
    <3> QED BY <1>4, <1>6, <3>1, <3>2
  <2> QED BY <1>1, <1>5, <2>1, NamesStay
<1>12. PubFits(p)' BY <1>1, <1>4, <1>6, <1>7 DEF PubFits
<1>13. NumbersSuffice' BY <1>1, <1>3, <1>6, SameNumbers
<1>14. RingFits' 
  <2> SUFFICES ASSUME NEW q \in Api, pub'[q].pc \in {"select", "append", "record"}
               PROVE  pub'[q].item.event \notin EventsOf(ring')
    BY <1>10 DEF RingFits
  <2>1. q # p /\ q \in Publications /\ pub'[q] = pub[q] BY <1>4, <1>6, <1>7
  <2>2. pub[q].item.event \notin EventsOf(ring) BY <2>1 DEF EventInv, RingFits
  <2> QED BY <1>4, <1>10, <2>1, <2>2
<1>15. nextID' \in 0 .. MaxEvents BY <1>1 DEF TypeOK
<1> QED BY <1>1, <1>3, <1>4, <1>6, <1>10, <1>11, <1>12, <1>13, <1>14, <1>15, PublishStep

(* Begin: a new event that nobody knows. *)
LEMMA BeginKeeps ==
    ASSUME EventInv, NEW p \in Publications, Begin(p)
    PROVE  EventInv'
<1>1. /\ TypeOK /\ pub[p].pc = "idle" /\ clock < MaxEvents /\ clock' = clock + 1
      /\ remote' = IF p \in Remote THEN remote \cup {clock + 1} ELSE remote
      /\ outbox' = outbox /\ ring' = ring /\ nextID' = nextID
      /\ conn' = conn /\ cursor' = cursor /\ dropped' = dropped
  BY DEF Begin, EventInv, clients
<1>2. PICK x : x = [pub[p] EXCEPT !.pc = "select", !.item.event = clock + 1] OBVIOUS
<1>3. pub' = [pub EXCEPT ![p] = x] BY <1>2 DEF Begin
<1>4. /\ DOMAIN pub = Publications /\ Api \subseteq Publications
      /\ pub[p] = IdlePub /\ pub[p] \in PubRecords
  BY <1>1, PubFacts DEF EventInv, PubFits, Publications
<1>5. clock \in Nat /\ nextID \in Nat /\ MaxEvents \in Nat /\ clock' \in Nat
      /\ clock <= clock' /\ clock + 1 \in 1 .. clock' /\ clock + 1 \notin 1 .. clock
      /\ 1 .. clock \subseteq 1 .. clock' /\ 0 .. clock \subseteq 0 .. clock'
  BY <1>1, ClockFacts
<1>6. x.pc = "select" /\ x.item.event = clock + 1 /\ x.targets = {} /\ x \in PubRecords'
  <2>1. pub[p].item \in [event : 0 .. clock, id : Ids] /\ pub[p].targets = {}
    BY <1>4 DEF PubRecords, IdlePub
  <2>2. x.item = [pub[p].item EXCEPT !.event = clock + 1] BY <1>2, <1>4 DEF PubRecords
  <2>3. x.item \in [event : 0 .. clock', id : Ids] /\ x.item.event = clock + 1
    BY <1>5, <2>1, <2>2
  <2>4. x.pc = "select" /\ x.targets = {} BY <1>2, <1>4, <2>1 DEF PubRecords
  <2>5. x = [pc |-> x.pc, item |-> x.item, targets |-> x.targets]
    BY <1>2, <1>4 DEF PubRecords
  <2> QED BY <2>3, <2>4, <2>5 DEF PubRecords
<1>7. pub'[p] = x /\ \A q \in Publications : q # p => pub'[q] = pub[q] BY <1>3, <1>4
<1>8. Publishing' = Publishing /\ p \notin Publishing
  BY <1>1, <1>4, <1>6, <1>7 DEF Publishing
<1>9. \A d : InHand(d)' <=> InHand(d) \/ (p \in Api /\ d = clock + 1)
  BY <1>1, <1>4, <1>6, <1>7 DEF InHand
<1>10. TypeOK'
  <2>1. ASSUME NEW q \in Publications PROVE pub'[q] \in PubRecords'
    <3>1. CASE q = p BY <1>6, <1>7, <3>1
    <3>2. CASE q # p
      <4>1. pub'[q] = pub[q] /\ pub[q] \in PubRecords BY <1>1, <1>7, <3>2, PubFacts
      <4>2. [event : 0 .. clock, id : Ids] \subseteq [event : 0 .. clock', id : Ids]
        BY <1>5
      <4> QED BY <1>1, <4>1, <4>2 DEF PubRecords, Subscribed
    <3> QED BY <3>1, <3>2
  <2>2. pub' \in [Publications -> PubRecords'] BY <1>3, <1>4, <2>1
  <2>3. \A c \in Clients : conn[c] \in ConnRecords' BY <1>1, <1>5, ConnFacts, ConnGrows
  <2>4. conn' \in [Clients -> ConnRecords'] BY <1>1, <2>3 DEF TypeOK
  <2>5. dropped' \in [Clients -> SUBSET (1 .. clock')]
    <3>1. SUBSET (1 .. clock) \subseteq SUBSET (1 .. clock') BY <1>5
    <3> QED BY <1>1, <3>1 DEF TypeOK
  <2>6. /\ clock' \in 0 .. MaxEvents /\ outbox' \subseteq 1 .. clock'
        /\ remote' \subseteq 1 .. clock'
    BY <1>1, <1>5 DEF TypeOK
  <2> QED BY <1>1, <2>2, <2>4, <2>5, <2>6 DEF TypeOK, ConnRecords, PubRecords
<1>11. ItemsNamed'
  <2>1. \A c \in Clients : KnownOf(c)' = KnownOf(c) BY <1>1 DEF KnownOf
  <2>2. \A q \in Publishing : pub'[q] = pub[q] BY <1>4, <1>7, <1>8 DEF Publishing
  <2>3. Known' = Known BY <1>1, <1>8, <2>1, <2>2 DEF Known
  <2> QED BY <1>1, <1>5, <2>3, NamesStay
<1>12. ASSUME NEW q \in Publications PROVE PubFits(q)'
  <2>1. CASE q = p BY <1>1, <1>5, <1>6, <1>7, <2>1 DEF PubFits, Publications
  <2>2. CASE q # p
    <3>1. pub'[q] = pub[q] /\ PubFits(q) BY <1>7, <2>2 DEF EventInv
    <3> QED BY <1>1, <1>5, <3>1 DEF PubFits
  <2> QED BY <2>1, <2>2
<1>13. \A q \in Publications : q # p /\ pub[q].pc # "idle" =>
           pub[q].item.event \in 1 .. clock
  BY DEF EventInv, PubFits
<1>14. OneEventEach' BY <1>5, <1>6, <1>7, <1>13 DEF EventInv, OneEventEach
<1>15. NumbersSuffice'
  <2>1. clock + 1 \notin Selecting BY <1>5, SelectingFinite
  <2>2. Selecting' = IF p \in Api THEN Selecting \cup {clock + 1} ELSE Selecting
    BY <1>1, <1>4, <1>6, <1>7 DEF Selecting
  <2>3. Cardinality(Selecting \cup {clock + 1}) = Cardinality(Selecting) + 1
    BY <2>1, SelectingFinite, FS_AddElement
  <2>4. Cardinality(Selecting) \in Nat /\ nextID + Cardinality(Selecting) <= clock
    BY SelectingFinite DEF EventInv, NumbersSuffice
  <2>5. CASE p \in Api
    <3>1. Cardinality(Selecting') = Cardinality(Selecting) + 1 BY <2>2, <2>3, <2>5
    <3> QED BY <1>1, <1>5, <2>4, <3>1 DEF NumbersSuffice
  <2>6. CASE p \notin Api
    <3>1. Selecting' = Selecting BY <2>2, <2>6
    <3> QED BY <1>1, <1>5, <2>4, <3>1 DEF NumbersSuffice
  <2> QED BY <2>5, <2>6
<1>16. RingFits'
  <2>1. clock + 1 \notin EventsOf(ring) BY <1>5, KnownFacts
  <2> QED BY <1>1, <1>4, <1>6, <1>7, <2>1 DEF EventInv, RingFits
<1>17. ASSUME NEW c \in Clients PROVE ClientFits(c)'
  <2>1. conn'[c] = conn[c] /\ dropped'[c] = dropped[c] /\ ClientFits(c)
    BY <1>1 DEF EventInv
  <2>2. Got(c)' = Got(c) BY <2>1 DEF Got
  <2>3. \A d \in EventsOf(conn[c].chan) \cup Got(c) : d # clock + 1 BY <1>5, KnownFacts
  <2>4. ChanFits(c)' BY <1>9, <2>1, <2>3 DEF ClientFits, ChanFits
  <2>5. \A y \in Range(conn[c].sent) : y.event # clock + 1 BY <2>3, ItemsOf DEF Got
  <2>6. SentFits(c)' BY <1>9, <2>1, <2>5 DEF ClientFits, SentFits
  <2>7. Targeted(c)'
    <3>1. \A q \in Publishing : pub'[q] = pub[q] BY <1>4, <1>7, <1>8 DEF Publishing
    <3> QED BY <1>8, <2>1, <3>1 DEF ClientFits, Targeted
  <2>8. \A d : Coming(c, d) => Coming(c, d)' BY <1>1, <1>9, <2>1, <2>2 DEF Coming
  <2>9. GapFits(c)' BY <1>1, <2>1, <2>2, <2>8 DEF ClientFits, GapFits
  <2> QED BY <2>4, <2>6, <2>7, <2>9 DEF ClientFits
<1> QED BY <1>10, <1>11, <1>12, <1>14, <1>15, <1>16, <1>17 DEF EventInv

(* Send: the event is in every channel or dropped there. *)
LEMMA SendKeeps ==
    ASSUME EventInv, NEW p \in Publications, Send(p)
    PROVE  EventInv'
<1> DEFINE item == pub[p].item
           e == pub[p].item.event
           room == {c \in pub[p].targets : Len(conn[c].chan) < Buffer}
           lost == {c \in pub[p].targets \ room : item.id \notin conn[c].replayed}
<1>1. /\ TypeOK /\ pub[p].pc = "send" /\ pub' = [pub EXCEPT ![p] = IdlePub]
      /\ conn' = [c \in Clients |-> IF c \in room
                                      THEN [conn[c] EXCEPT !.chan = Append(@, item)]
                                      ELSE conn[c]]
      /\ dropped' = [c \in Clients |-> IF c \in lost THEN dropped[c] \cup {e} ELSE dropped[c]]
      /\ clock' = clock /\ outbox' = outbox /\ ring' = ring /\ nextID' = nextID
      /\ remote' = remote /\ cursor' = cursor
  BY DEF Send, EventInv
<1>2. /\ e \in 1 .. clock /\ item \in Items /\ Api \subseteq Publications /\ p \in Api
      /\ p \in Publishing /\ item \in Known /\ pub[p].targets \subseteq Subscribed
      /\ \A q \in Publications : q # p /\ pub[q].pc # "idle" => pub[q].item.event # e
  BY <1>1, ApiFacts, PubFacts
<1>3. /\ DOMAIN pub = Publications /\ nextID \in Nat /\ clock \in Nat /\ Buffer \in Nat
      /\ IdlePub.pc = "idle" /\ IdlePub.targets = {}
  BY <1>1, ClockFacts, PubFacts DEF IdlePub
<1>4. pub'[p] = IdlePub /\ \A q \in Publications : q # p => pub'[q] = pub[q]
  BY <1>1, <1>3
<1>5. Publishing' = Publishing \ {p} /\ \A q \in Publishing' : pub'[q] = pub[q]
  BY <1>2, <1>3, <1>4 DEF Publishing
<1>6. InHand(e) /\ \A d : InHand(d)' <=> InHand(d) /\ d # e
  BY <1>1, <1>2, <1>3, <1>4 DEF InHand
<1>7. ASSUME NEW c \in Clients
      PROVE  /\ conn'[c] \in ConnRecords /\ conn'[c].pc = conn[c].pc
             /\ Len(conn'[c].chan) <= Buffer
             /\ \/ conn'[c] = conn[c] /\ c \notin room
                \/ /\ c \in room /\ conn[c].pc # "off" /\ EventsDiffer(conn'[c].chan)
                   /\ Range(conn'[c].chan) = Range(conn[c].chan) \cup {item}
                   /\ EventsOf(conn'[c].chan) = EventsOf(conn[c].chan) \cup {e}
             /\ conn'[c].replay = conn[c].replay /\ conn'[c].sent = conn[c].sent
             /\ conn'[c].replayed = conn[c].replayed /\ conn'[c].from = conn[c].from
             /\ conn'[c].rows = conn[c].rows /\ conn'[c].failed = conn[c].failed
             /\ conn'[c].early = conn[c].early /\ conn'[c].listed = conn[c].listed
  <2>1. conn[c] \in ConnRecords /\ conn[c].chan \in Seq(Items) /\ Len(conn[c].chan) <= Buffer
        /\ Len(conn[c].chan) \in Nat
    BY <1>1, ConnFacts
  <2>2. CASE c \notin room
    <3>1. conn'[c] = conn[c] BY <1>1, <2>2
    <3> QED BY <2>1, <2>2, <3>1
  <2>3. CASE c \in room
    <3>1. conn'[c] = [conn[c] EXCEPT !.chan = Append(@, item)] BY <1>1, <2>3
    <3>2. conn[c].pc # "off" /\ Len(conn[c].chan) < Buffer BY <1>2, <2>3 DEF Subscribed
    <3>3. e \notin EventsOf(conn[c].chan) /\ EventsDiffer(conn[c].chan)
      BY <1>6 DEF EventInv, ClientFits, ChanFits
    <3>4. /\ Append(conn[c].chan, item) \in Seq(Items)
          /\ Len(Append(conn[c].chan, item)) <= Buffer
          /\ Range(Append(conn[c].chan, item)) = Range(conn[c].chan) \cup {item}
          /\ EventsOf(Append(conn[c].chan, item)) = EventsOf(conn[c].chan) \cup {e}
          /\ EventsDiffer(Append(conn[c].chan, item))
      BY <1>2, <1>3, <2>1, <3>2, <3>3, AppendItem
    <3>5. conn'[c].chan = Append(conn[c].chan, item) BY <2>1, <3>1 DEF ConnRecords
    <3>6. /\ conn'[c] \in ConnRecords /\ conn'[c].pc = conn[c].pc
          /\ conn'[c].replay = conn[c].replay /\ conn'[c].sent = conn[c].sent
          /\ conn'[c].replayed = conn[c].replayed /\ conn'[c].from = conn[c].from
          /\ conn'[c].rows = conn[c].rows /\ conn'[c].failed = conn[c].failed
          /\ conn'[c].early = conn[c].early /\ conn'[c].listed = conn[c].listed
      BY <2>1, <3>1, <3>4 DEF ConnRecords
    <3> QED BY <2>3, <3>2, <3>4, <3>5, <3>6
  <2> QED BY <2>2, <2>3
<1>8. \A c \in Clients : dropped'[c] \subseteq 1 .. clock /\ dropped[c] \subseteq dropped'[c]
                         /\ (c \in lost => e \in dropped'[c])
  BY <1>1, <1>2, ConnFacts
<1> HIDE DEF room, lost
<1>9. TypeOK'
  <2>1. IdlePub \in PubRecords BY <1>3, IdsApart DEF IdlePub, PubRecords, Item
  <2>2. pub \in [Publications -> PubRecords] BY <1>1 DEF TypeOK, PubRecords
  <2>3. pub' \in [Publications -> PubRecords] BY <1>1, <2>1, <2>2
  <2>4. Subscribed' = Subscribed BY <1>7 DEF Subscribed
  <2>5. pub' \in [Publications -> PubRecords'] BY <1>1, <2>3, <2>4 DEF PubRecords
  <2>6. conn' \in [Clients -> ConnRecords] BY <1>1, <1>7
  <2>7. conn' \in [Clients -> ConnRecords'] BY <1>1, <2>6 DEF ConnRecords
  <2>8. dropped' \in [Clients -> SUBSET (1 .. clock)] BY <1>1, <1>8
  <2>9. \A c \in Clients : Len(conn'[c].chan) <= Buffer BY <1>7
  <2> QED BY <1>1, <2>5, <2>7, <2>8, <2>9 DEF TypeOK, ConnRecords, PubRecords
<1>10. ItemsNamed'
  <2>1. ASSUME NEW c \in Clients, NEW y \in KnownOf(c)' PROVE y \in Known
    <3>1. y \in KnownOf(c) \cup {item} BY <1>7, <2>1 DEF KnownOf
    <3> QED BY <1>2, <3>1, KnownFacts
  <2>2. \A q \in Publishing' : pub'[q].item \in Known BY <1>5, KnownFacts
  <2>3. \A y \in Known' : y \in Known BY <1>1, <2>1, <2>2, KnownFacts DEF Known
  <2> QED BY <1>1, <1>3, <2>3, NamesStay
<1>11. ASSUME NEW q \in Publications PROVE PubFits(q)'
  <2>1. CASE q = p BY <1>2, <1>3, <1>4, <2>1 DEF PubFits
  <2>2. CASE q # p
    <3>1. pub'[q] = pub[q] /\ PubFits(q) BY <1>4, <2>2 DEF EventInv
    <3> QED BY <1>1, <3>1 DEF PubFits
  <2> QED BY <2>1, <2>2
<1>12. OneEventEach' BY <1>3, <1>4 DEF EventInv, OneEventEach
<1>13. NumbersSuffice' BY <1>1, <1>3, SameNumbers
<1>14. RingFits' BY <1>1, <1>2, <1>3, <1>4 DEF EventInv, RingFits
<1>15. ASSUME NEW c \in Clients PROVE ClientFits(c)'
  <2>1. ClientFits(c) BY DEF EventInv
  <2>2. Got(c)' = Got(c) BY <1>7 DEF Got
  <2>3. ChanFits(c)'
    <3>1. CASE c \in room BY <1>6, <1>7, <2>1, <3>1 DEF ClientFits, ChanFits
    <3>2. CASE c \notin room BY <1>6, <1>7, <2>1, <3>2 DEF ClientFits, ChanFits
    <3> QED BY <3>1, <3>2
  <2>4. SentFits(c)'
    <3>1. CASE c \in room
      <4>1. /\ EventsOf(conn'[c].chan) = EventsOf(conn[c].chan) \cup {e}
            /\ conn'[c].pc # "off" /\ conn'[c].pc = conn[c].pc
            /\ conn'[c].replay = conn[c].replay /\ conn'[c].sent = conn[c].sent
            /\ conn'[c].replayed = conn[c].replayed
        BY <1>7, <3>1
      <4>2. ASSUME NEW y \in Range(conn[c].sent), y.id \notin conn[c].replayed
            PROVE  y.event \notin EventsOf(conn'[c].chan) /\ ~InHand(y.event)'
        <5>1. y.event \notin EventsOf(conn[c].chan) /\ ~InHand(y.event)
          BY <2>1, <4>2 DEF ClientFits, SentFits
        <5> QED BY <1>6, <4>1, <5>1
      <4> QED BY <2>1, <4>1, <4>2 DEF ClientFits, SentFits
    <3>2. CASE c \notin room BY <1>6, <1>7, <2>1, <3>2 DEF ClientFits, SentFits
    <3> QED BY <3>1, <3>2
  <2>5. Targeted(c)' BY <1>5, <1>7, <2>1 DEF ClientFits, Targeted
  <2>6. ASSUME conn[c].pc # "off", NEW d, Coming(c, d) PROVE Coming(c, d)'
    <3>1. EventsOf(conn[c].chan) \subseteq EventsOf(conn'[c].chan) BY <1>7
    <3>2. CASE d # e BY <1>1, <1>6, <1>7, <1>8, <2>2, <2>6, <3>1, <3>2 DEF Coming
    <3>3. CASE d = e /\ c \in room BY <1>7, <3>3 DEF Coming
    <3>4. CASE d = e /\ c \in lost BY <1>8, <3>4 DEF Coming
    <3>5. CASE d = e /\ c \in pub[p].targets /\ c \notin room /\ c \notin lost
      <4>1. item.id \in IdsOf(conn[c].replay) \cup IdsOf(conn[c].sent)
        BY <2>1, <3>5 DEF lost, ClientFits, SentFits
      <4>2. PICK y \in Range(conn[c].replay) \cup Range(conn[c].sent) : y.id = item.id
        BY <4>1, ItemsOf
      <4>3. y \in Known BY KnownFacts DEF KnownOf
      <4>4. y.event = e BY <1>2, <4>2, <4>3 DEF EventInv, ItemsNamed
      <4>5. e \in Got(c) BY <4>4, ItemsOf DEF Got
      <4> QED BY <2>2, <3>5, <4>5 DEF Coming
    <3>6. CASE d = e /\ c \notin pub[p].targets
      <4>1. e \in conn[c].early BY <1>2, <2>1, <2>6, <3>6 DEF ClientFits, Targeted
      <4> QED BY <1>7, <3>6, <4>1 DEF Coming
    <3> QED BY <3>2, <3>3, <3>4, <3>5, <3>6
  <2>7. GapFits(c)'
    <3> SUFFICES ASSUME conn[c].pc \in {"merge", "live"}, ~conn[c].failed,
                        conn[c].from.kind # "evt"
                 PROVE  /\ \A d \in conn[c].listed :
                             \/ d <= conn[c].from.n
                             \/ conn[c].pc = "merge" /\ d \in conn[c].rows
                             \/ conn[c].pc = "live" /\ d \in Got(c)
                        /\ \A d \in outbox \ conn[c].listed : Coming(c, d)'
      BY <1>1, <1>7, <2>2 DEF GapFits
    <3> QED BY <2>1, <2>6 DEF ClientFits, GapFits
  <2> QED BY <2>3, <2>4, <2>5, <2>7 DEF ClientFits
<1> QED BY <1>9, <1>10, <1>11, <1>12, <1>13, <1>14, <1>15 DEF EventInv

-----------------------------------------------------------------------------
(* The specification. *)

(* The initial states, ... *)
LEMMA InitFits == Init => EventInv
<1> SUFFICES ASSUME Init PROVE EventInv
  OBVIOUS
<1>1. /\ clock = 0 /\ outbox = {} /\ ring = <<>> /\ nextID = 0 /\ remote = {}
      /\ \A p \in Publications : pub[p] = IdlePub
      /\ \A c \in Clients : conn[c] = Off
      /\ Api \subseteq Publications
  BY DEF Init, Publications
<1>2. IdlePub.pc = "idle" /\ IdlePub.targets = {} BY DEF IdlePub
<1>3. TypeOK
  <2>1. IdlePub \in PubRecords
    BY <1>1, IdsApart DEF IdlePub, PubRecords, Item
  <2>2. Off \in [pc : {"off", "list", "merge", "live"}, from : Ids, rows : SUBSET outbox,
                 failed : BOOLEAN, replay : Seq(Items), replayed : SUBSET Ids,
                 chan : Seq(Items), sent : Seq(Items), early : SUBSET (1 .. clock),
                 listed : SUBSET outbox]
    <3>1. <<>> \in Seq(Items) BY EmptySeq
    <3> QED BY <3>1, IdsApart DEF Off
  <2>3. \A c \in Clients : Len(conn[c].chan) <= Buffer BY <1>1, OffFits
  <2>4. ring \in Seq(Items) /\ Len(ring) <= RingSize BY <1>1, EmptySeq
  <2>5. cursor \in [Clients -> Ids] BY IdsApart DEF Init
  <2> QED BY <1>1, <2>1, <2>2, <2>3, <2>4, <2>5 DEF Init, TypeOK, PubRecords
<1>4. Publishing = {} /\ Selecting = {} BY <1>1, <1>2 DEF Publishing, Selecting
<1>5. \A c \in Clients : KnownOf(c) = {} BY <1>1, OffFits, NoItems DEF KnownOf
<1>6. ItemsNamed
  <2>1. Known = {} BY <1>1, <1>4, <1>5, NoItems DEF Known
  <2> QED BY <2>1 DEF ItemsNamed
<1>7. \A p \in Publications : PubFits(p) BY <1>1, <1>2 DEF PubFits
<1>8. OneEventEach BY <1>1, <1>2 DEF OneEventEach
<1>9. NumbersSuffice BY <1>1, <1>4, FS_EmptySet DEF NumbersSuffice
<1>10. RingFits BY <1>1, <1>2, NoItems DEF RingFits
<1>11. \A c \in Clients : ClientFits(c)
  BY <1>1, OffFits, NoItems
     DEF ClientFits, ChanFits, SentFits, Targeted, GapFits
<1> QED BY <1>3, <1>6, <1>7, <1>8, <1>9, <1>10, <1>11 DEF EventInv

(* ... every step and stuttering. *)
LEMMA NextKeeps == EventInv /\ [Next]_vars => EventInv'
<1> SUFFICES ASSUME EventInv, [Next]_vars PROVE EventInv'
  OBVIOUS
<1>1. CASE \E p \in Publications : Publish(p)
  <2>1. PICK p \in Publications : Publish(p) BY <1>1
  <2> QED BY <2>1, BeginKeeps, SelectKeeps, AppendRowKeeps, RecordKeeps, SendKeeps
          DEF Publish
<1>2. CASE \E c \in Clients : Connect(c) \/ ListRows(c) \/ Merge(c)
  BY <1>2, ConnectKeeps, ListRowsKeeps, MergeKeeps
<1>3. CASE \E c \in Clients : WriteReplay(c) \/ WriteLive(c) \/ Cut(c)
  BY <1>3, WriteReplayKeeps, WriteLiveKeeps, CutKeeps
<1>4. CASE Restart BY <1>4, RestartKeeps
<1>5. CASE UNCHANGED vars
  <2>1. /\ clock' = clock /\ outbox' = outbox /\ ring' = ring /\ nextID' = nextID
        /\ pub' = pub /\ conn' = conn /\ cursor' = cursor /\ remote' = remote
        /\ dropped' = dropped
    BY <1>5 DEF vars
  <2>2. TypeOK' BY <2>1 DEF EventInv, TypeOK, Subscribed
  <2>3. ItemsNamed'
    <3>1. Known' = Known BY <2>1 DEF Known, KnownOf, Publishing
    <3> QED BY <2>1, <2>2, <3>1, ClockFacts, NamesStay DEF EventInv
  <2>4. \A p \in Publications : PubFits(p)' BY <2>1 DEF EventInv, PubFits
  <2>5. OneEventEach' /\ NumbersSuffice' /\ RingFits'
    BY <2>1 DEF EventInv, OneEventEach, NumbersSuffice, Selecting, RingFits
  <2>6. \A c \in Clients : ClientFits(c)' BY <2>1, OtherFits DEF EventInv
  <2> QED BY <2>2, <2>3, <2>4, <2>5, <2>6 DEF EventInv
<1> QED BY <1>1, <1>2, <1>3, <1>4, <1>5 DEF Next

(* The ids written differ, so none is written twice. *)
LEMMA InvGivesNoDuplicate == EventInv => NoDuplicate
BY DEF EventInv, ClientFits, SentFits, IdsDiffer, NoDuplicate

(* Up to date, a client has nothing left to come but what is still sent. *)
LEMMA InvGivesNoGap == EventInv => NoGap
<1> SUFFICES ASSUME EventInv, NEW c \in Clients, UpToDate(c), conn[c].from.kind # "evt",
                    NEW e \in outbox \ Excused(c),
                    ~(e <= conn[c].from.n), ~Sending(e)
             PROVE  \E i \in DOMAIN conn[c].sent : conn[c].sent[i].event = e
  BY DEF NoGap
<1>1. /\ conn[c].pc = "live" /\ ~conn[c].failed
      /\ conn[c].replay = <<>> /\ conn[c].chan = <<>>
  BY DEF UpToDate
<1>2. EventsOf(conn[c].chan) = {} /\ Got(c) = EventsOf(conn[c].sent)
  BY <1>1, NoItems DEF Got
<1>3. ~InHand(e) BY DEF Sending, InHand
<1>4. e \in Got(c)
  <2>1. CASE e \in conn[c].listed BY <1>1, <2>1 DEF EventInv, ClientFits, GapFits
  <2>2. CASE e \notin conn[c].listed
    <3>1. Coming(c, e) BY <1>1, <2>2 DEF EventInv, ClientFits, GapFits
    <3> QED BY <1>2, <1>3, <2>2, <3>1 DEF Coming, Excused, Unlisted
  <2> QED BY <2>1, <2>2
<1> QED BY <1>2, <1>4 DEF EventsOf

(* In every reachable state it is known where each event is that a client   *)
(* has not received, and whose id an id is.                                 *)
THEOREM EventInvariance == Spec => []EventInv
<1> QED BY InitFits, NextKeeps, PTL DEF Spec

(* Publications, connections and the publisher's memory hold what they      *)
(* should, and neither a channel nor the records outgrow their bounds.      *)
THEOREM EventsTyped == Spec => []TypeOK
<1>1. EventInv => TypeOK BY DEF EventInv
<1> QED BY <1>1, EventInvariance, PTL

(* mergeReplayEvents and the stream together write no id twice on a         *)
(* connection, whenever the subscriber was registered and however events    *)
(* were stored, recorded or dropped meanwhile.                              *)
THEOREM WrittenOnce == Spec => []NoDuplicate
<1> QED BY InvGivesNoDuplicate, EventInvariance, PTL

(* Between replay and stream there is no gap but the one the code leaves:   *)
(* an event that is neither behind the cursor nor written was stored after  *)
(* the replay was read and dropped by a full channel, published by a        *)
(* worker, or in the hands of a publisher when the client subscribed.       *)
THEOREM NothingMissed == Spec => []NoGap
<1> QED BY InvGivesNoGap, EventInvariance, PTL
=============================================================================
