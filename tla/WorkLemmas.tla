----------------------------- MODULE WorkLemmas -----------------------------
(***************************************************************************)
(* Lemmas about a sequence of what is under way: a page keeps its actions  *)
(* in one and a service its requests, adds to it, changes one of them, and *)
(* takes one out when it is over.                                          *)
(***************************************************************************)
EXTENDS UnderWay, Integers, SequenceTheorems, TLAPS

(* What is left when one is over: one fewer, each of which was there, at   *)
(* the same place or the next.                                             *)
LEMMA OneIsOver ==
    ASSUME NEW S, NEW s \in Seq(S), NEW i \in DOMAIN s
    PROVE  /\ RemoveAt(s, i) \in Seq(S)
           /\ Len(RemoveAt(s, i)) = Len(s) - 1
           /\ \A j \in DOMAIN RemoveAt(s, i) :
                 RemoveAt(s, i)[j] = s[IF j < i THEN j ELSE j + 1]
           /\ \A j \in DOMAIN RemoveAt(s, i) :
                 (IF j < i THEN j ELSE j + 1) \in DOMAIN s \ {i}
           /\ \A k \in DOMAIN s \ {i} : \E j \in DOMAIN RemoveAt(s, i) :
                 k = IF j < i THEN j ELSE j + 1
<1> DEFINE a == SubSeq(s, 1, i - 1)
           b == SubSeq(s, i + 1, Len(s))
<1>1. Len(s) \in Nat /\ DOMAIN s = 1 .. Len(s) /\ i \in 1 .. Len(s)
  BY LenProperties
<1>2. \A k \in 1 .. Len(s) : s[k] \in S BY ElementOfSeq
<1>3. /\ a \in Seq(S) /\ Len(a) = i - 1
      /\ \A k \in 1 .. i - 1 : a[k] = s[k]
  <2>1. /\ a \in Seq(S) /\ Len(a) = IF 1 <= i - 1 THEN i - 1 - 1 + 1 ELSE 0
        /\ \A k \in 1 .. i - 1 - 1 + 1 : a[k] = s[1 + k - 1]
    <3>1. \A k \in 1 .. i - 1 : s[k] \in S BY <1>1, <1>2
    <3>2. 1 \in Int /\ i - 1 \in Int BY <1>1
    <3> QED BY <3>1, <3>2, SubSeqProperties
  <2> HIDE DEF a
  <2>2. i - 1 - 1 + 1 = i - 1 BY <1>1
  <2>3. \A k \in 1 .. i - 1 : 1 + k - 1 = k BY <1>1
  <2> QED BY <1>1, <2>1, <2>2, <2>3
<1>4. /\ b \in Seq(S) /\ Len(b) = Len(s) - i
      /\ \A k \in 1 .. Len(s) - i : b[k] = s[i + k]
  <2>1. /\ b \in Seq(S)
        /\ Len(b) = IF i + 1 <= Len(s) THEN Len(s) - (i + 1) + 1 ELSE 0
        /\ \A k \in 1 .. Len(s) - (i + 1) + 1 : b[k] = s[i + 1 + k - 1]
    <3>1. \A k \in i + 1 .. Len(s) : s[k] \in S BY <1>1, <1>2
    <3>2. i + 1 \in Int /\ Len(s) \in Int BY <1>1
    <3> QED BY <3>1, <3>2, SubSeqProperties
  <2> HIDE DEF b
  <2>2. Len(s) - (i + 1) + 1 = Len(s) - i BY <1>1
  <2>3. \A k \in 1 .. Len(s) - i : i + 1 + k - 1 = i + k BY <1>1
  <2> QED BY <1>1, <2>1, <2>2, <2>3
<1> HIDE DEF a, b
<1>5. /\ a \o b \in Seq(S) /\ Len(a \o b) = Len(a) + Len(b)
      /\ \A k \in 1 .. Len(a) + Len(b) :
            (a \o b)[k] = IF k <= Len(a) THEN a[k] ELSE b[k - Len(a)]
  BY <1>3, <1>4, ConcatProperties
<1>6. RemoveAt(s, i) = a \o b BY DEF RemoveAt, a, b
<1>7. DOMAIN (a \o b) = 1 .. Len(s) - 1
  <2>1. DOMAIN (a \o b) = 1 .. Len(a \o b) BY <1>5, LenProperties
  <2>2. Len(a \o b) = Len(s) - 1 BY <1>1, <1>3, <1>4, <1>5
  <2> QED BY <2>1, <2>2
<1>8. ASSUME NEW j \in 1 .. Len(s) - 1
      PROVE  /\ (a \o b)[j] = s[IF j < i THEN j ELSE j + 1]
             /\ (IF j < i THEN j ELSE j + 1) \in 1 .. Len(s) \ {i}
  <2>1. (a \o b)[j] = IF j <= i - 1 THEN a[j] ELSE b[j - (i - 1)]
    BY <1>1, <1>3, <1>4, <1>5
  <2>2. CASE j < i
    <3>1. j \in 1 .. i - 1 /\ j <= i - 1 BY <1>1, <2>2
    <3> QED BY <1>1, <1>3, <2>1, <2>2, <3>1
  <2>3. CASE ~(j < i)
    <3>1. /\ ~(j <= i - 1) /\ j - (i - 1) \in 1 .. Len(s) - i
          /\ i + (j - (i - 1)) = j + 1
      BY <1>1, <2>3
    <3>2. (a \o b)[j] = s[j + 1] BY <1>4, <2>1, <3>1
    <3> QED BY <1>1, <2>3, <3>2
  <2> QED BY <2>2, <2>3
<1>9. Len(a \o b) = Len(s) - 1 BY <1>1, <1>3, <1>4, <1>5
<1>10. ASSUME NEW k \in 1 .. Len(s), k # i
       PROVE  \E j \in 1 .. Len(s) - 1 : k = IF j < i THEN j ELSE j + 1
  <2>1. CASE k < i
    <3>1. k \in 1 .. Len(s) - 1 BY <1>1, <2>1
    <3> QED BY <2>1, <3>1
  <2>2. CASE ~(k < i)
    <3>1. k - 1 \in 1 .. Len(s) - 1 /\ ~(k - 1 < i) /\ k = k - 1 + 1
      BY <1>1, <1>10, <2>2
    <3> QED BY <3>1
  <2> QED BY <2>1, <2>2
<1> QED BY <1>1, <1>5, <1>6, <1>7, <1>8, <1>9, <1>10

(* What is under way when one more begins.                                 *)
LEMMA OneBegins ==
    ASSUME NEW S, NEW s \in Seq(S), NEW w \in S
    PROVE  /\ Append(s, w) \in Seq(S)
           /\ Len(Append(s, w)) = Len(s) + 1
           /\ \A j \in DOMAIN Append(s, w) :
                 \/ j = Len(s) + 1 /\ Append(s, w)[j] = w
                 \/ j \in DOMAIN s /\ Append(s, w)[j] = s[j]
           /\ \A j \in DOMAIN s : j \in DOMAIN Append(s, w) /\ Append(s, w)[j] = s[j]
<1>1. Len(s) \in Nat /\ DOMAIN s = 1 .. Len(s) BY LenProperties
<1>2. /\ Append(s, w) \in Seq(S) /\ Len(Append(s, w)) = Len(s) + 1
      /\ \A k \in 1 .. Len(s) : Append(s, w)[k] = s[k]
      /\ Append(s, w)[Len(s) + 1] = w
  BY AppendProperties
<1>3. DOMAIN Append(s, w) = 1 .. Len(s) + 1 BY <1>2, LenProperties
<1> QED BY <1>1, <1>2, <1>3

(* What is under way when one of them changes.                             *)
LEMMA OneChanges ==
    ASSUME NEW S, NEW s \in Seq(S), NEW i \in DOMAIN s, NEW w \in S
    PROVE  LET t == [s EXCEPT ![i] = w]
           IN  /\ t \in Seq(S) /\ Len(t) = Len(s) /\ DOMAIN t = DOMAIN s
               /\ \A j \in DOMAIN s : t[j] = IF j = i THEN w ELSE s[j]
<1>1. i \in 1 .. Len(s) BY LenProperties
<1> QED BY <1>1, ExceptSeq, LenProperties

-----------------------------------------------------------------------------
AtMostOne(tasks, kind) ==
    \A i, j \in DOMAIN tasks : tasks[i].kind = kind /\ tasks[j].kind = kind => i = j
NoneOf(tasks, kind) == \A i \in DOMAIN tasks : tasks[i].kind # kind

(* What a sequence of functions has when one begins, goes on or ends.      *)
LEMMA TaskBegins ==
    ASSUME NEW S, NEW t \in Seq(S), NEW w \in S
    PROVE  /\ Append(t, w) \in Seq(S) /\ Range(Append(t, w)) = Range(t) \cup {w}
           /\ \A k : NoneOf(Append(t, w), k) <=> NoneOf(t, k) /\ w.kind # k
           /\ \A k : AtMostOne(t, k) /\ (w.kind # k \/ NoneOf(t, k)) => AtMostOne(Append(t, w), k)
<1>1. PICK s : s = Append(t, w) OBVIOUS
<1>2. /\ s \in Seq(S) /\ Len(s) = Len(t) + 1
      /\ \A j \in DOMAIN s :
            \/ j = Len(t) + 1 /\ s[j] = w
            \/ j \in DOMAIN t /\ s[j] = t[j]
      /\ \A j \in DOMAIN t : j \in DOMAIN s /\ s[j] = t[j]
  BY <1>1, OneBegins
<1>3. Len(t) + 1 \in DOMAIN s /\ s[Len(t) + 1] = w
  <2>1. Len(t) \in Nat /\ DOMAIN t = 1 .. Len(t) /\ DOMAIN s = 1 .. Len(s)
    BY <1>2, LenProperties
  <2>2. Len(t) + 1 \in DOMAIN s /\ Len(t) + 1 \notin DOMAIN t BY <1>2, <2>1
  <2> QED BY <1>2, <2>2
<1>4. Range(s) = Range(t) \cup {w} BY <1>2, <1>3 DEF Range
<1>5. \A k : NoneOf(s, k) <=> NoneOf(t, k) /\ w.kind # k BY <1>2, <1>3 DEF NoneOf
<1>6. \A k : AtMostOne(t, k) /\ (w.kind # k \/ NoneOf(t, k)) => AtMostOne(s, k)
  BY <1>2 DEF NoneOf, AtMostOne
<1> QED BY <1>1, <1>2, <1>4, <1>5, <1>6

(* One of them goes on as something else of its kind.                      *)
LEMMA TaskGoesOn ==
    ASSUME NEW S, NEW t \in Seq(S), NEW i \in DOMAIN t, NEW w \in S, w.kind = t[i].kind
    PROVE  /\ [t EXCEPT ![i] = w] \in Seq(S)
           /\ \A x \in Range([t EXCEPT ![i] = w]) :
                 x = w \/ \E j \in DOMAIN t \ {i} : x = t[j]
           /\ w \in Range([t EXCEPT ![i] = w])
           /\ \A j \in DOMAIN t \ {i} : t[j] \in Range([t EXCEPT ![i] = w])
           /\ \A k : NoneOf([t EXCEPT ![i] = w], k) <=> NoneOf(t, k)
           /\ \A k : AtMostOne([t EXCEPT ![i] = w], k) <=> AtMostOne(t, k)
<1>1. PICK s : s = [t EXCEPT ![i] = w] OBVIOUS
<1>2. /\ s \in Seq(S) /\ DOMAIN s = DOMAIN t
      /\ \A j \in DOMAIN t : s[j] = IF j = i THEN w ELSE t[j]
  BY <1>1, OneChanges
<1>3. /\ \A x \in Range(s) : x = w \/ \E j \in DOMAIN t \ {i} : x = t[j]
      /\ w \in Range(s) /\ \A j \in DOMAIN t \ {i} : t[j] \in Range(s)
  BY <1>2 DEF Range
<1>4. \A j \in DOMAIN t : s[j].kind = t[j].kind BY <1>2
<1>5. \A k : NoneOf(s, k) <=> NoneOf(t, k) BY <1>2, <1>4 DEF NoneOf
<1>6. \A k : AtMostOne(s, k) <=> AtMostOne(t, k) BY <1>2, <1>4 DEF AtMostOne
<1> QED BY <1>1, <1>2, <1>3, <1>5, <1>6

(* One of them is over.                                                    *)
LEMMA TaskEnds ==
    ASSUME NEW S, NEW t \in Seq(S), NEW i \in DOMAIN t
    PROVE  /\ RemoveAt(t, i) \in Seq(S) /\ Range(RemoveAt(t, i)) \subseteq Range(t)
           /\ \A j \in DOMAIN t \ {i} : t[j] \in Range(RemoveAt(t, i))
           /\ \A k : NoneOf(t, k) => NoneOf(RemoveAt(t, i), k)
           /\ \A k : AtMostOne(t, k) => AtMostOne(RemoveAt(t, i), k)
           /\ \A k : t[i].kind # k /\ NoneOf(RemoveAt(t, i), k) => NoneOf(t, k)
           /\ \A k : t[i].kind = k /\ AtMostOne(t, k) => NoneOf(RemoveAt(t, i), k)
<1>1. PICK s : s = RemoveAt(t, i) OBVIOUS
<1>2. /\ s \in Seq(S)
      /\ \A j \in DOMAIN s : s[j] = t[IF j < i THEN j ELSE j + 1]
      /\ \A j \in DOMAIN s : (IF j < i THEN j ELSE j + 1) \in DOMAIN t \ {i}
      /\ \A k \in DOMAIN t \ {i} : \E j \in DOMAIN s : k = IF j < i THEN j ELSE j + 1
  BY <1>1, OneIsOver
<1>3. i \in Nat /\ DOMAIN s \subseteq Nat
  <2>1. DOMAIN t \subseteq Nat /\ DOMAIN s \subseteq Nat BY <1>2, LenProperties
  <2> QED BY <2>1
<1>4. PICK f : f = [j \in DOMAIN s |-> IF j < i THEN j ELSE j + 1] OBVIOUS
<1>5. /\ \A j \in DOMAIN s : f[j] \in DOMAIN t \ {i} /\ s[j] = t[f[j]]
      /\ \A k \in DOMAIN t \ {i} : \E j \in DOMAIN s : k = f[j]
  BY <1>2, <1>4
<1>6. \A j, k \in DOMAIN s : f[j] = f[k] => j = k BY <1>3, <1>4
<1>7. Range(s) \subseteq Range(t) /\ \A j \in DOMAIN t \ {i} : t[j] \in Range(s)
  BY <1>5 DEF Range
<1>8. \A k : NoneOf(t, k) => NoneOf(s, k) BY <1>5 DEF NoneOf
<1>9. \A k : AtMostOne(t, k) => AtMostOne(s, k) BY <1>5, <1>6 DEF AtMostOne
<1>10. \A k : t[i].kind # k /\ NoneOf(s, k) => NoneOf(t, k) BY <1>5 DEF NoneOf
<1>11. \A k : t[i].kind = k /\ AtMostOne(t, k) => NoneOf(s, k) BY <1>5 DEF NoneOf, AtMostOne
<1> QED BY <1>1, <1>2, <1>7, <1>8, <1>9, <1>10, <1>11

(* A load that is cancelled was the only one of its kind.                  *)
LEMMA LoadCancelled ==
    ASSUME NEW S, NEW t \in Seq(S), NEW kind
    PROVE  /\ Cancel(t, kind) \in Seq(S) /\ Range(Cancel(t, kind)) \subseteq Range(t)
           /\ AtMostOne(t, kind) =>
                 \A x \in Range(t) : x.kind = kind \/ x \in Range(Cancel(t, kind))
           /\ \A k : NoneOf(t, k) => NoneOf(Cancel(t, kind), k)
           /\ \A k : AtMostOne(t, k) => AtMostOne(Cancel(t, kind), k)
           /\ \A k : k # kind /\ NoneOf(Cancel(t, kind), k) => NoneOf(t, k)
           /\ AtMostOne(t, kind) => NoneOf(Cancel(t, kind), kind)
<1>1. PICK loads : loads = {i \in DOMAIN t : t[i].kind = kind} OBVIOUS
<1>2. CASE loads = {}
  <2>1. Cancel(t, kind) = t BY <1>1, <1>2 DEF Cancel
  <2>2. NoneOf(t, kind) BY <1>1, <1>2 DEF NoneOf
  <2> QED BY <2>1, <2>2
<1>3. CASE loads # {}
  <2>1. PICK i : i = CHOOSE j \in loads : TRUE OBVIOUS
  <2>2. i \in DOMAIN t /\ t[i].kind = kind BY <1>1, <1>3, <2>1
  <2>3. Cancel(t, kind) = RemoveAt(t, i) BY <1>1, <1>3, <2>1 DEF Cancel
  <2>4. AtMostOne(t, kind) =>
           \A x \in Range(t) : x.kind = kind \/ x \in Range(RemoveAt(t, i))
    <3>1. \A j \in DOMAIN t \ {i} : t[j] \in Range(RemoveAt(t, i)) BY <2>2, TaskEnds
    <3> QED BY <2>2, <3>1 DEF Range
  <2> QED BY <2>2, <2>3, <2>4, TaskEnds
<1> QED BY <1>2, <1>3

-----------------------------------------------------------------------------
AtMostOneOf(tasks, some) ==
    \A i, j \in DOMAIN tasks : tasks[i] \in some /\ tasks[j] \in some => i = j

-----------------------------------------------------------------------------
(* Of some functions one at most runs: as they begin, go on, end and are   *)
(* cancelled.                                                              *)
LEMMA BegunStill ==
    ASSUME NEW S, NEW t \in Seq(S), NEW w \in S, NEW some, AtMostOneOf(t, some),
           w \notin some \/ Range(t) \cap some = {}
    PROVE  AtMostOneOf(Append(t, w), some)
<1>1. PICK s : s = Append(t, w) OBVIOUS
<1>2. \A j \in DOMAIN s : \/ j = Len(t) + 1 /\ s[j] = w
                          \/ j \in DOMAIN t /\ s[j] = t[j]
  BY <1>1, OneBegins
<1>3. \A j \in DOMAIN t : t[j] \in Range(t) BY DEF Range
<1> QED BY <1>1, <1>2, <1>3 DEF AtMostOneOf

(* One that goes on is one of some only if it was, or none was.            *)
LEMMA ChangedStill ==
    ASSUME NEW S, NEW t \in Seq(S), NEW i \in DOMAIN t, NEW w \in S, NEW some,
           AtMostOneOf(t, some), w \in some => t[i] \in some \/ Range(t) \cap some = {}
    PROVE  AtMostOneOf([t EXCEPT ![i] = w], some)
<1>1. PICK s : s = [t EXCEPT ![i] = w] OBVIOUS
<1>2. DOMAIN s = DOMAIN t /\ \A j \in DOMAIN t : s[j] = IF j = i THEN w ELSE t[j]
  BY <1>1, OneChanges
<1>3. \A j \in DOMAIN t : t[j] \in Range(t) BY DEF Range
<1> QED BY <1>1, <1>2, <1>3 DEF AtMostOneOf

(* After the end of the one of some there is none of them.                 *)
LEMMA EndedStill ==
    ASSUME NEW S, NEW t \in Seq(S), NEW i \in DOMAIN t, NEW some, AtMostOneOf(t, some)
    PROVE  /\ AtMostOneOf(RemoveAt(t, i), some)
           /\ t[i] \in some => Range(RemoveAt(t, i)) \cap some = {}
<1>1. PICK s : s = RemoveAt(t, i) OBVIOUS
<1>2. /\ \A j \in DOMAIN s : s[j] = t[IF j < i THEN j ELSE j + 1]
      /\ \A j \in DOMAIN s : (IF j < i THEN j ELSE j + 1) \in DOMAIN t \ {i}
      /\ s \in Seq(S)
  BY <1>1, OneIsOver
<1>3. i \in Nat /\ DOMAIN s \subseteq Nat
  <2>1. DOMAIN t \subseteq Nat /\ DOMAIN s \subseteq Nat BY <1>2, LenProperties
  <2> QED BY <2>1
<1>4. PICK f : f = [j \in DOMAIN s |-> IF j < i THEN j ELSE j + 1] OBVIOUS
<1>5. \A j \in DOMAIN s : f[j] \in DOMAIN t \ {i} /\ s[j] = t[f[j]] BY <1>2, <1>4
<1>6. \A j, k \in DOMAIN s : f[j] = f[k] => j = k BY <1>3, <1>4
<1>7. AtMostOneOf(s, some) BY <1>5, <1>6 DEF AtMostOneOf
<1>8. t[i] \in some => \A j \in DOMAIN s : s[j] \notin some BY <1>5 DEF AtMostOneOf
<1> QED BY <1>1, <1>7, <1>8 DEF Range

(* A cancelled load makes no more of any.                                  *)
LEMMA CancelledStill ==
    ASSUME NEW S, NEW t \in Seq(S), NEW kind, NEW some, AtMostOneOf(t, some)
    PROVE  AtMostOneOf(Cancel(t, kind), some)
<1>1. PICK loads : loads = {i \in DOMAIN t : t[i].kind = kind} OBVIOUS
<1>2. CASE loads = {} BY <1>1, <1>2 DEF Cancel
<1>3. CASE loads # {}
  <2>1. PICK i : i = CHOOSE j \in loads : TRUE OBVIOUS
  <2>2. i \in DOMAIN t BY <1>1, <1>3, <2>1
  <2>3. Cancel(t, kind) = RemoveAt(t, i) BY <1>1, <1>3, <2>1 DEF Cancel
  <2> QED BY <2>2, <2>3, EndedStill
<1> QED BY <1>2, <1>3

-----------------------------------------------------------------------------
(* What TaskGoesOn says, in the words of the library.                      *)
LEMMA TaskReplaced ==
    ASSUME NEW S, NEW t \in Seq(S), NEW i \in DOMAIN t, NEW w \in S, w.kind = t[i].kind
    PROVE  /\ ReplaceAt(t, i, w) \in Seq(S)
           /\ \A x \in Range(ReplaceAt(t, i, w)) : x = w \/ \E j \in DOMAIN t \ {i} : x = t[j]
           /\ w \in Range(ReplaceAt(t, i, w))
           /\ \A j \in DOMAIN t \ {i} : t[j] \in Range(ReplaceAt(t, i, w))
           /\ \A k : NoneOf(ReplaceAt(t, i, w), k) <=> NoneOf(t, k)
           /\ \A k : AtMostOne(ReplaceAt(t, i, w), k) <=> AtMostOne(t, k)
<1>1. /\ [t EXCEPT ![i] = w] \in Seq(S)
      /\ \A x \in Range([t EXCEPT ![i] = w]) :
            x = w \/ \E j \in DOMAIN t \ {i} : x = t[j]
      /\ w \in Range([t EXCEPT ![i] = w])
      /\ \A j \in DOMAIN t \ {i} : t[j] \in Range([t EXCEPT ![i] = w])
      /\ \A k : NoneOf([t EXCEPT ![i] = w], k) <=> NoneOf(t, k)
      /\ \A k : AtMostOne([t EXCEPT ![i] = w], k) <=> AtMostOne(t, k)
  BY TaskGoesOn
<1> QED BY <1>1 DEF ReplaceAt

(* Two sequences in one, and the first of one and the rest.                *)
LEMMA Joined ==
    ASSUME NEW S, NEW s \in Seq(S), NEW t \in Seq(S)
    PROVE  /\ s \o t \in Seq(S) /\ Range(s \o t) = Range(s) \cup Range(t)
           /\ s # <<>> => s \o t # <<>>
<1>1. PICK u : u = s \o t OBVIOUS
<1>2. /\ u \in Seq(S) /\ Len(u) = Len(s) + Len(t)
      /\ \A i \in 1..Len(s) + Len(t) : u[i] = IF i <= Len(s) THEN s[i] ELSE t[i - Len(s)]
  BY <1>1, ConcatProperties
<1>3. /\ Len(s) \in Nat /\ DOMAIN s = 1..Len(s) /\ Len(t) \in Nat /\ DOMAIN t = 1..Len(t)
      /\ DOMAIN u = 1..Len(s) + Len(t)
  BY <1>2, LenProperties
<1>4. \A i \in DOMAIN u : u[i] \in Range(s) \cup Range(t)
  <2>1. ASSUME NEW i \in DOMAIN u PROVE u[i] \in Range(s) \cup Range(t)
    <3>1. CASE i <= Len(s)
      <4>1. i \in DOMAIN s /\ u[i] = s[i] BY <1>2, <1>3, <3>1
      <4> QED BY <4>1 DEF Range
    <3>2. CASE ~(i <= Len(s))
      <4>1. i - Len(s) \in DOMAIN t /\ u[i] = t[i - Len(s)] BY <1>2, <1>3, <3>2
      <4> QED BY <4>1 DEF Range
    <3> QED BY <3>1, <3>2
  <2> QED BY <2>1
<1>5. ASSUME NEW i \in DOMAIN s PROVE s[i] \in Range(u)
  <2>1. i \in DOMAIN u /\ u[i] = s[i] BY <1>2, <1>3
  <2> QED BY <2>1 DEF Range
<1>6. ASSUME NEW i \in DOMAIN t PROVE t[i] \in Range(u)
  <2>1. i + Len(s) \in DOMAIN u /\ u[i + Len(s)] = t[i] BY <1>2, <1>3
  <2> QED BY <2>1 DEF Range
<1>7. Range(u) = Range(s) \cup Range(t) BY <1>4, <1>5, <1>6 DEF Range
<1>8. s # <<>> => u # <<>>
  <2>1. s # <<>> => Len(s) # 0 BY <1>3, EmptySeq
  <2>2. u = <<>> => Len(u) = 0 BY EmptySeq
  <2> QED BY <1>2, <1>3, <2>1, <2>2
<1> QED BY <1>1, <1>2, <1>7, <1>8

(* A sequence is its first and the rest.                                   *)
LEMMA FirstAndRest ==
    ASSUME NEW S, NEW s \in Seq(S), s # <<>>
    PROVE  /\ Head(s) \in S /\ Head(s) \in Range(s) /\ Tail(s) \in Seq(S)
           /\ Range(s) = {Head(s)} \cup Range(Tail(s))
<1>1. PICK u : u = Tail(s) OBVIOUS
<1>2. /\ Head(s) \in S /\ u \in Seq(S) /\ Len(u) = Len(s) - 1
      /\ \A i \in 1..Len(u) : u[i] = s[i + 1]
  BY <1>1, HeadTailProperties
<1>3. Len(s) \in Nat /\ Len(s) # 0 /\ DOMAIN s = 1..Len(s) /\ DOMAIN u = 1..Len(s) - 1
  BY <1>2, LenProperties, EmptySeq
<1>4. Head(s) = s[1] /\ 1 \in DOMAIN s BY <1>3 DEF Head
<1>5. \A i \in DOMAIN u : i + 1 \in DOMAIN s /\ u[i] = s[i + 1] BY <1>2, <1>3
<1>6. \A i \in DOMAIN s : i = 1 \/ (i - 1 \in DOMAIN u /\ s[i] = u[i - 1])
  <2>1. ASSUME NEW i \in DOMAIN s, i # 1 PROVE i - 1 \in DOMAIN u /\ s[i] = u[i - 1]
    <3>1. i - 1 \in DOMAIN u /\ (i - 1) + 1 = i BY <1>3, <2>1
    <3> QED BY <1>5, <3>1
  <2> QED BY <2>1
<1>7. Range(s) = {s[1]} \cup Range(u) BY <1>4, <1>5, <1>6 DEF Range
<1> QED BY <1>1, <1>2, <1>4, <1>7
=============================================================================
