----------------------------- MODULE ShotProofs -----------------------------
(***************************************************************************)
(* Proofs about ShotExecution.  What a run number, a charge and a review   *)
(* rest on is held by the requests in progress: ShotInv says what each of  *)
(* them has read and may still save.  SpendInv counts what they will spend. *)
(***************************************************************************)
EXTENDS ShotExecution, Integers, FiniteSetTheorems, SequenceTheorems,
        WellFoundedInduction, TLAPS

(* A request that starts a run has numbered it or not, and inserted it or  *)
(* not.                                                                    *)
Inserting == {"number", "readLimit", "check", "insertExecution", "insertRun"}
Inserted  == {"saveCurrent", "reserve", "saveBudget", "recordUsage", "recordEvent"}
Moving    == {"saveCandidate", "saveMove"}
Gating    == {"gateRow", "gateCandidates", "gateLimit", "gateBudget", "submit"}

Pending(s) == {h \in Handlers : call[h].pc \in Inserting /\ call[h].shot = s}

(* There is room for the number of every run that may still be inserted. *)
NumbersSuffice ==
    \A s \in Shots :
        Len(runs[s]) + Cardinality(Pending(s)) < MaxRuns + Cardinality(Handlers)

(* The row a request will save: its status is the one the request gives,   *)
(* its current run is recorded, and its primary asset was chosen.          *)
SavesFit(h) ==
    LET c == call[h] IN
    /\ c.pc \in Inserting \cup Inserted \cup Moving \cup Gating =>
          /\ c.shot \in Shots
          /\ c.rec.current <= Len(runs[c.shot])
    /\ c.pc \in Inserting \cup Inserted => c.rec.status = "in_progress"
    /\ c.pc \in Moving => c.rec.status \notin {"none", "submitted_for_review"}
    /\ c.pc \in Gating => c.rec.status = "submitted_for_review"
    /\ c.pc \in Inserting \cup Inserted \cup Gating /\ c.rec.primary => c.shot \in selected
    /\ c.pc \in Gating \ {"gateRow"} => c.shot \in selected
    /\ c.pc \in {"gateLimit", "gateBudget", "submit"} => c.shot \in candidates
    /\ c.pc \in {"setBudget", "saveBudget"} => c.limit # 0

(* The number of a run that is not inserted is at most the next one; one   *)
(* that is inserted has its run, not charged yet, or charged and not       *)
(* announced.                                                              *)
NumberFits(h) ==
    LET c == call[h] IN
    /\ c.pc \in Inserting \ {"number"} =>
          c.number >= 1 /\ c.number <= Len(runs[c.shot]) + 1
    /\ c.pc \in Inserting => c.cost \in Costs
    /\ c.pc \in {"readLimit", "check", "reserve", "saveBudget", "recordUsage", "recordEvent"}
          => c.cost > 0
    /\ c.pc \in Inserted =>
          /\ c.number >= 1 /\ c.number <= Len(runs[c.shot])
          /\ runs[c.shot][c.number].cost = c.cost
          /\ usage[Charge(h)] = IF c.pc = "recordEvent" THEN c.cost ELSE 0
          /\ billed[Charge(h)] = 0

(* No two requests have inserted the same run. *)
OneRequestPerRun ==
    \A g, h \in Handlers :
        call[g].pc \in Inserted /\ call[h].pc \in Inserted /\ g # h => Charge(g) # Charge(h)

RowsFit ==
    \A s \in Shots :
        /\ executions[s].current <= Len(runs[s])
        /\ executions[s].primary => s \in selected

(* What is charged and announced for run n of shot s, recorded or not. *)
Settled(s, n) == \A h \in Handlers : call[h].pc \in Inserted => Charge(h) # <<s, n>>

ChargeFits(s, n) ==
    /\ n > Len(runs[s]) => usage[<<s, n>>] = 0
    /\ n <= Len(runs[s]) => usage[<<s, n>>] \in {0, runs[s][n].cost}
    /\ billed[<<s, n>>] \in {0, usage[<<s, n>>]}
    /\ budgeted /\ "budget" \notin Faults /\ Settled(s, n) /\ n <= Len(runs[s]) =>
          usage[<<s, n>>] = runs[s][n].cost /\ billed[<<s, n>>] = runs[s][n].cost
ChargesFit == \A s \in Shots : \A n \in RunNumbers : ChargeFits(s, n)

ShotInv ==
    /\ TypeOK
    /\ NumbersSuffice
    /\ RunNumbersDense
    /\ \A h \in Handlers : SavesFit(h) /\ NumberFits(h)
    /\ OneRequestPerRun
    /\ RowsFit
    /\ ChargesFit
    /\ budgeted => limit # 0
    /\ SubmittedIsGated

-----------------------------------------------------------------------------
(* Sums of numbers.  What a recursive function computes is shown by         *)
(* induction over the size of its argument.                                 *)

(* Induction: a set that has 0 and every successor has every number.       *)
LEMMA NumbersReached ==
    ASSUME NEW S, 0 \in S, \A n \in Nat : n \in S => n + 1 \in S
    PROVE  Nat \subseteq S
<1> DEFINE T == Nat \ S
<1> SUFFICES ASSUME T # {} PROVE FALSE OBVIOUS
<1>1. IsWellFoundedOn(OpToRel(<, Nat), Nat) BY Zenon, NatLessThanWellFounded
<1>2. PICK x \in T : \A y \in T : ~(<<y, x>> \in OpToRel(<, Nat))
  <2>1. T \subseteq Nat OBVIOUS
  <2> HIDE DEF T
  <2> QED BY Zenon, <1>1, <2>1, WFMin
<1>3. \A y \in T : ~(y < x) BY <1>2 DEF OpToRel
<1>4. x # 0 /\ x - 1 \in Nat OBVIOUS
<1>5. x - 1 \in S BY <1>3, <1>4
<1> QED BY <1>4, <1>5

(* The sums over the subsets of D, as SumFunction computes them.          *)
One(s) == CHOOSE x \in s : TRUE
SumsOver(g, f, sets) ==
    g = [s \in sets |-> IF s = {} THEN 0 ELSE f[One(s)] + g[s \ {One(s)}]]
Sums(f, D) == CHOOSE g : SumsOver(g, f, SUBSET D)

(* SumFunction is the sum over the whole domain. *)
LEMMA TotalIsSum ==
    ASSUME NEW D, NEW f \in [D -> Nat]
    PROVE  SumFunction(f) = Sums(f, D)[D]
<1>1. DOMAIN f = D OBVIOUS
<1>2. SumFunction(f) = Sums(f, DOMAIN f)[DOMAIN f]
  BY Zenon
     DEF SumFunction, SumFunctionOnSet, FoldFunctionOnSet, MapThenFoldSet, Sums, SumsOver, One
<1> QED BY <1>1, <1>2

(* What is left of a set when one element is taken out.                    *)
LEMMA Rest ==
    ASSUME NEW D, IsFiniteSet(D), NEW s \in SUBSET D, NEW x \in s
    PROVE  /\ s \ {x} \in SUBSET D /\ IsFiniteSet(s)
           /\ Cardinality(s) \in Nat /\ Cardinality(s \ {x}) \in Nat
           /\ Cardinality(s) = Cardinality(s \ {x}) + 1
<1>1. IsFiniteSet(s) BY FS_Subset
<1>2. IsFiniteSet(s \ {x}) /\ Cardinality(s \ {x}) = Cardinality(s) - 1
  BY <1>1, FS_RemoveElement
<1> QED BY <1>1, <1>2, FS_CardinalityType

(* They exist: by induction over the size of the set. *)
LEMMA SumsExist ==
    ASSUME NEW D, IsFiniteSet(D), NEW f
    PROVE  SumsOver(Sums(f, D), f, SUBSET D)
<1> DEFINE Small(n) == {s \in SUBSET D : Cardinality(s) <= n}
           Reached == {n \in Nat : \E g : SumsOver(g, f, Small(n))}
<1>1. 0 \in Reached
  <2> DEFINE g == [s \in Small(0) |-> 0]
  <2>1. \A s \in Small(0) : s = {}
    <3> SUFFICES ASSUME NEW s \in Small(0) PROVE s = {} OBVIOUS
    <3>1. IsFiniteSet(s) BY FS_Subset
    <3>2. Cardinality(s) = 0 BY <3>1, FS_CardinalityType
    <3> QED BY <3>1, <3>2, FS_EmptySet
  <2>2. SumsOver(g, f, Small(0)) BY <2>1 DEF SumsOver
  <2> QED BY <2>2
<1>2. ASSUME NEW n \in Nat, n \in Reached PROVE n + 1 \in Reached
  <2>1. PICK g : SumsOver(g, f, Small(n)) BY <1>2
  <2> DEFINE h == [s \in Small(n + 1) |->
                     IF s = {} THEN 0 ELSE f[One(s)] + g[s \ {One(s)}]]
  <2>2. ASSUME NEW s \in Small(n + 1), s # {} PROVE h[s \ {One(s)}] = g[s \ {One(s)}]
    <3> DEFINE t == s \ {One(s)}
    <3>1. One(s) \in s BY <2>2 DEF One
    <3>2. t \in Small(n) BY <2>2, <3>1, Rest
    <3>3. t \in Small(n + 1)
      <4>1. IsFiniteSet(t) BY <3>2, FS_Subset
      <4>2. Cardinality(t) \in Nat BY <4>1, FS_CardinalityType
      <4> QED BY <3>2, <4>2
    <3>4. g[t] = IF t = {} THEN 0 ELSE f[One(t)] + g[t \ {One(t)}]
      <4> HIDE DEF t, Small
      <4> QED BY <2>1, <3>2 DEF SumsOver
    <3>5. h[t] = IF t = {} THEN 0 ELSE f[One(t)] + g[t \ {One(t)}]
      <4> HIDE DEF t, Small
      <4> QED BY <3>3
    <3> QED BY <3>4, <3>5
  <2>3. SumsOver(h, f, Small(n + 1))
    <3> HIDE DEF Small
    <3> QED BY <2>2 DEF SumsOver
  <2>4. \E k : SumsOver(k, f, Small(n + 1))
    <3> HIDE DEF h, Small
    <3> QED BY <2>3
  <2> HIDE DEF Small, h
  <2> QED BY <2>4
<1>3. Cardinality(D) \in Reached
  <2> HIDE DEF Reached
  <2> QED BY <1>1, <1>2, NumbersReached, FS_CardinalityType
<1>4. Small(Cardinality(D)) = SUBSET D BY FS_Subset
<1> HIDE DEF Small
<1> QED BY <1>3, <1>4 DEF Sums

(* The sum of nothing, and of a set one element of which is known.         *)
LEMMA SumsStart ==
    ASSUME NEW D, IsFiniteSet(D), NEW f \in [D -> Nat]
    PROVE  /\ Sums(f, D)[{}] = 0
           /\ \A T \in SUBSET D : T # {} =>
                One(T) \in T /\ Sums(f, D)[T] = f[One(T)] + Sums(f, D)[T \ {One(T)}]
<1> DEFINE g == Sums(f, D)
<1>1. g = [s \in SUBSET D |-> IF s = {} THEN 0 ELSE f[One(s)] + g[s \ {One(s)}]]
  BY SumsExist DEF SumsOver
<1>2. \A T \in SUBSET D : T # {} => One(T) \in T BY DEF One
<1> HIDE DEF g
<1>3. g[{}] = 0 /\ \A T \in SUBSET D : T # {} => g[T] = f[One(T)] + g[T \ {One(T)}]
  BY <1>1
<1> QED BY <1>2, <1>3 DEF g

(* Sums of numbers are numbers. *)
LEMMA SumsAreNumbers ==
    ASSUME NEW D, IsFiniteSet(D), NEW f \in [D -> Nat]
    PROVE  \A T \in SUBSET D : Sums(f, D)[T] \in Nat
<1> DEFINE g == Sums(f, D)
           Reached == {n \in Nat : \A T \in SUBSET D : Cardinality(T) = n => g[T] \in Nat}
<1>1. 0 \in Reached
  <2> SUFFICES ASSUME NEW T \in SUBSET D, Cardinality(T) = 0 PROVE g[T] \in Nat OBVIOUS
  <2>1. IsFiniteSet(T) BY FS_Subset
  <2>2. T = {} BY <2>1, FS_EmptySet
  <2> QED BY <2>2, SumsStart
<1>2. ASSUME NEW n \in Nat, n \in Reached PROVE n + 1 \in Reached
  <2> SUFFICES ASSUME NEW T \in SUBSET D, Cardinality(T) = n + 1 PROVE g[T] \in Nat
    OBVIOUS
  <2>1. T # {} BY FS_EmptySet
  <2>2. One(T) \in T /\ g[T] = f[One(T)] + g[T \ {One(T)}] BY <2>1, SumsStart
  <2>3. T \ {One(T)} \in SUBSET D /\ Cardinality(T \ {One(T)}) = n BY <2>2, Rest
  <2>4. g[T \ {One(T)}] \in Nat
    <3> HIDE DEF g
    <3> QED BY <1>2, <2>3
  <2>5. f[One(T)] \in Nat BY <2>2
  <2> HIDE DEF g
  <2> QED BY <2>2, <2>4, <2>5
<1> SUFFICES ASSUME NEW T \in SUBSET D PROVE g[T] \in Nat OBVIOUS
<1>3. Cardinality(T) \in Nat BY FS_Subset, FS_CardinalityType
<1>4. Cardinality(T) \in Reached
  <2> HIDE DEF Reached
  <2> QED BY <1>1, <1>2, <1>3, NumbersReached
<1> HIDE DEF g
<1> QED BY <1>4

(* Any element can be counted first.                                       *)
LEMMA SumsTake ==
    ASSUME NEW D, IsFiniteSet(D), NEW f \in [D -> Nat]
    PROVE  \A T \in SUBSET D : \A x \in T : Sums(f, D)[T] = f[x] + Sums(f, D)[T \ {x}]
<1> DEFINE g == Sums(f, D)
           Reached == {n \in Nat : \A T \in SUBSET D :
                          Cardinality(T) = n => \A x \in T : g[T] = f[x] + g[T \ {x}]}
<1>1. 0 \in Reached
  <2> SUFFICES ASSUME NEW T \in SUBSET D, Cardinality(T) = 0 PROVE T = {} OBVIOUS
  <2>1. IsFiniteSet(T) BY FS_Subset
  <2> QED BY <2>1, FS_EmptySet
<1>2. ASSUME NEW n \in Nat, n \in Reached PROVE n + 1 \in Reached
  <2> SUFFICES ASSUME NEW T \in SUBSET D, Cardinality(T) = n + 1, NEW x \in T
               PROVE  g[T] = f[x] + g[T \ {x}]
    OBVIOUS
  <2> DEFINE y == One(T)
             R == T \ {x}
             Q == T \ {y}
             P == R \ {y}
  <2>1. y \in T /\ g[T] = f[y] + g[Q] BY SumsStart
  <2>2. CASE x = y
    <3> HIDE DEF g, y
    <3> QED BY <2>1, <2>2
  <2>3. CASE x # y
    <3>1. /\ R \in SUBSET D /\ Cardinality(R) = n /\ y \in R
          /\ Q \in SUBSET D /\ Cardinality(Q) = n /\ x \in Q
      BY <2>1, <2>3, Rest
    <3>2. P = Q \ {x} /\ P \in SUBSET D OBVIOUS
    <3>3. g[R] = f[y] + g[P]
      <4> HIDE DEF g, y, R, Q
      <4> QED BY <1>2, <3>1
    <3>4. g[Q] = f[x] + g[P]
      <4>1. g[Q] = f[x] + g[Q \ {x}]
        <5> HIDE DEF g, y, R, Q
        <5> QED BY <1>2, <3>1
      <4> QED BY <4>1, <3>2
    <3>5. f[x] \in Nat /\ f[y] \in Nat BY <2>1
    <3>6. g[P] \in Nat BY <3>2, SumsAreNumbers
    <3> HIDE DEF g, y, R, Q, P
    <3>7. g[T] = f[y] + (f[x] + g[P]) BY <2>1, <3>4
    <3>8. f[x] + g[R] = f[x] + (f[y] + g[P]) BY <3>3
    <3>9. g[T] = f[x] + g[R] BY <3>5, <3>6, <3>7, <3>8
    <3> QED BY <3>9 DEF R
  <2> QED BY <2>2, <2>3
<1> SUFFICES ASSUME NEW T \in SUBSET D, NEW x \in T PROVE g[T] = f[x] + g[T \ {x}] OBVIOUS
<1>3. Cardinality(T) \in Nat BY FS_Subset, FS_CardinalityType
<1>4. Cardinality(T) \in Reached
  <2> HIDE DEF Reached
  <2> QED BY <1>1, <1>2, <1>3, NumbersReached
<1> HIDE DEF g
<1> QED BY <1>4

(* Sums of the same numbers are the same.                                  *)
LEMMA SumsAgree ==
    ASSUME NEW D, IsFiniteSet(D), NEW f \in [D -> Nat], NEW h \in [D -> Nat]
    PROVE  \A T \in SUBSET D : (\A y \in T : f[y] = h[y]) => Sums(f, D)[T] = Sums(h, D)[T]
<1> DEFINE g == Sums(f, D)
           k == Sums(h, D)
           Reached == {n \in Nat : \A T \in SUBSET D :
                    Cardinality(T) = n /\ (\A y \in T : f[y] = h[y]) => g[T] = k[T]}
<1>1. 0 \in Reached
  <2> SUFFICES ASSUME NEW T \in SUBSET D, Cardinality(T) = 0 PROVE g[T] = k[T] OBVIOUS
  <2>1. IsFiniteSet(T) BY FS_Subset
  <2>2. T = {} BY <2>1, FS_EmptySet
  <2>3. g[{}] = 0 /\ k[{}] = 0 BY SumsStart
  <2> QED BY <2>2, <2>3
<1>2. ASSUME NEW n \in Nat, n \in Reached PROVE n + 1 \in Reached
  <2> SUFFICES ASSUME NEW T \in SUBSET D, Cardinality(T) = n + 1, \A y \in T : f[y] = h[y]
               PROVE  g[T] = k[T]
    OBVIOUS
  <2> DEFINE x == One(T)
             R == T \ {x}
  <2>1. T # {} BY FS_EmptySet
  <2>2. x \in T /\ g[T] = f[x] + g[R] /\ k[T] = h[x] + k[R] BY <2>1, SumsStart, ZenonT(60)
  <2>3. R \in SUBSET D /\ Cardinality(R) = n BY <2>2, Rest
  <2>4. \A y \in R : f[y] = h[y] OBVIOUS
  <2>5. g[R] = k[R]
    <3> HIDE DEF g, k, R
    <3> QED BY <1>2, <2>3, <2>4
  <2> HIDE DEF g, k, R, x
  <2> QED BY <2>2, <2>5
<1> SUFFICES ASSUME NEW T \in SUBSET D, \A y \in T : f[y] = h[y] PROVE g[T] = k[T] OBVIOUS
<1>3. Cardinality(T) \in Nat BY FS_Subset, FS_CardinalityType
<1>4. Cardinality(T) \in Reached
  <2> HIDE DEF Reached
  <2> QED BY <1>1, <1>2, <1>3, NumbersReached
<1> HIDE DEF g, k
<1> QED BY <1>4

(* A sum of numbers that are at most c.                                    *)
LEMMA SumsBounded ==
    ASSUME NEW D, IsFiniteSet(D), NEW f \in [D -> Nat], NEW c \in Nat, \A y \in D : f[y] <= c
    PROVE  \A T \in SUBSET D : Sums(f, D)[T] <= Cardinality(T) * c
<1> DEFINE g == Sums(f, D)
           Reached == {n \in Nat : \A T \in SUBSET D : Cardinality(T) = n => g[T] <= n * c}
<1>1. 0 \in Reached
  <2> SUFFICES ASSUME NEW T \in SUBSET D, Cardinality(T) = 0 PROVE g[T] <= 0 * c OBVIOUS
  <2>1. IsFiniteSet(T) BY FS_Subset
  <2>2. T = {} BY <2>1, FS_EmptySet
  <2>3. g[{}] = 0 BY SumsStart
  <2> HIDE DEF g
  <2> QED BY <2>2, <2>3
<1>2. ASSUME NEW n \in Nat, n \in Reached PROVE n + 1 \in Reached
  <2> SUFFICES ASSUME NEW T \in SUBSET D, Cardinality(T) = n + 1 PROVE g[T] <= (n + 1) * c
    OBVIOUS
  <2> DEFINE x == One(T)
             R == T \ {x}
  <2>1. T # {} BY FS_EmptySet
  <2>2. x \in T /\ g[T] = f[x] + g[R] BY <2>1, SumsStart
  <2>3. R \in SUBSET D /\ Cardinality(R) = n BY <2>2, Rest
  <2>4. g[R] \in Nat /\ f[x] \in Nat /\ f[x] <= c BY <2>2, <2>3, SumsAreNumbers
  <2>5. g[R] <= n * c
    <3> HIDE DEF g, R
    <3> QED BY <1>2, <2>3
  <2>6. (n + 1) * c = n * c + c /\ n * c \in Nat OBVIOUS
  <2> HIDE DEF g, R, x
  <2> QED BY <2>2, <2>4, <2>5, <2>6
<1> SUFFICES ASSUME NEW T \in SUBSET D PROVE g[T] <= Cardinality(T) * c OBVIOUS
<1>3. Cardinality(T) \in Nat BY FS_Subset, FS_CardinalityType
<1>4. Cardinality(T) \in Reached
  <2> HIDE DEF Reached
  <2> QED BY <1>1, <1>2, <1>3, NumbersReached
<1> HIDE DEF g
<1> QED BY <1>4

(* The sum of a function, and what replacing one of its values does to it. *)
LEMMA TotalApart ==
    ASSUME NEW D, IsFiniteSet(D), NEW f \in [D -> Nat], NEW x \in D
    PROVE  /\ Sums(f, D)[D \ {x}] \in Nat
           /\ SumFunction(f) = f[x] + Sums(f, D)[D \ {x}]
BY TotalIsSum, SumsTake, SumsAreNumbers

(* One value is replaced by another. *)
LEMMA TotalReplaced ==
    ASSUME NEW D, IsFiniteSet(D), NEW f \in [D -> Nat], NEW h \in [D -> Nat], NEW x \in D,
           \A y \in D : y # x => h[y] = f[y]
    PROVE  /\ SumFunction(f) \in Nat /\ SumFunction(h) \in Nat
           /\ SumFunction(h) = SumFunction(f) - f[x] + h[x]
<1>1. Sums(f, D)[D \ {x}] = Sums(h, D)[D \ {x}] BY SumsAgree
<1>2. f[x] \in Nat /\ h[x] \in Nat OBVIOUS
<1>3. /\ Sums(f, D)[D \ {x}] \in Nat
      /\ SumFunction(f) = f[x] + Sums(f, D)[D \ {x}]
  BY TotalApart
<1>4. SumFunction(h) = h[x] + Sums(h, D)[D \ {x}] BY TotalApart
<1> QED BY <1>1, <1>2, <1>3, <1>4

(* All but one of the values are at most c each.                           *)
LEMMA TotalBounded ==
    ASSUME NEW D, IsFiniteSet(D), NEW f \in [D -> Nat], NEW x \in D,
           NEW c \in Nat, \A y \in D : f[y] <= c
    PROVE  SumFunction(f) <= f[x] + (Cardinality(D) - 1) * c
<1>1. D \ {x} \in SUBSET D /\ Cardinality(D \ {x}) = Cardinality(D) - 1
  BY Rest
<1>2. Sums(f, D)[D \ {x}] <= Cardinality(D \ {x}) * c BY SumsBounded
<1>3. /\ Sums(f, D)[D \ {x}] \in Nat
      /\ SumFunction(f) = f[x] + Sums(f, D)[D \ {x}]
  BY TotalApart
<1>4. Cardinality(D) \in Nat /\ f[x] \in Nat BY FS_CardinalityType
<1> QED BY <1>1, <1>2, <1>3, <1>4

(* Nothing adds up to nothing. *)
LEMMA TotalOfNothing ==
    ASSUME NEW D, IsFiniteSet(D), NEW f \in [D -> Nat], \A y \in D : f[y] = 0
    PROVE  SumFunction(f) = 0
<1>1. Sums(f, D)[D] <= Cardinality(D) * 0 /\ Sums(f, D)[D] \in Nat
  BY SumsBounded, SumsAreNumbers
<1>2. Cardinality(D) * 0 = 0 BY FS_CardinalityType
<1> QED BY <1>1, <1>2, TotalIsSum

(* A finite set of numbers has a greatest.                                 *)
LEMMA GreatestExists ==
    ASSUME NEW S, IsFiniteSet(S), S \subseteq Nat, S # {}
    PROVE  \E x \in S : \A y \in S : x >= y
<1>0. ASSUME NEW T \in SUBSET S, NEW z \in T
      PROVE  Cardinality(T) = Cardinality(T \ {z}) + 1 /\ Cardinality(T \ {z}) \in Nat
  <2>1. IsFiniteSet(T) BY FS_Subset
  <2>2. IsFiniteSet(T \ {z}) /\ Cardinality(T \ {z}) = Cardinality(T) - 1
    BY <2>1, FS_RemoveElement
  <2> QED BY <2>1, <2>2, FS_CardinalityType
<1> DEFINE Reached == {n \in Nat : \A T \in SUBSET S :
                  Cardinality(T) = n /\ T # {} => \E x \in T : \A y \in T : x >= y}
<1>1. 0 \in Reached
  <2> SUFFICES ASSUME NEW T \in SUBSET S, Cardinality(T) = 0 PROVE T = {} OBVIOUS
  <2>1. IsFiniteSet(T) BY FS_Subset
  <2> QED BY <2>1, FS_EmptySet
<1>2. ASSUME NEW n \in Nat, n \in Reached PROVE n + 1 \in Reached
  <2> SUFFICES ASSUME NEW T \in SUBSET S, Cardinality(T) = n + 1, NEW z \in T
               PROVE  \E x \in T : \A y \in T : x >= y
    <3> SUFFICES ASSUME NEW T \in SUBSET S, Cardinality(T) = n + 1, T # {}
                 PROVE  \E x \in T : \A y \in T : x >= y
      OBVIOUS
    <3> QED OBVIOUS
  <2>1. Cardinality(T) = Cardinality(T \ {z}) + 1 /\ Cardinality(T \ {z}) \in Nat
    BY <1>0
  <2>2. CASE T \ {z} = {} BY <2>2
  <2>3. CASE T \ {z} # {}
    <3>1. PICK x \in T \ {z} : \A y \in T \ {z} : x >= y
      <4>1. Cardinality(T \ {z}) = n BY <2>1
      <4> QED BY <1>2, <2>3, <4>1
    <3>2. CASE x >= z BY <3>1, <3>2
    <3>3. CASE ~(x >= z) BY <3>1, <3>3
    <3> QED BY <3>2, <3>3
  <2> QED BY <2>2, <2>3
<1>3. Cardinality(S) \in Nat BY FS_CardinalityType
<1>4. Cardinality(S) \in Reached
  <2> HIDE DEF Reached
  <2> QED BY <1>1, <1>2, <1>3, NumbersReached
<1> QED BY <1>4

-----------------------------------------------------------------------------
(* Values. *)

RunRecords == [number : RunNumbers, cost : Costs]
CallRecords == [pc : PCs, shot : Shots \cup {None}, found : BOOLEAN,
                rec : Executions, number : RunNumbers \cup {0},
                cost : Costs \cup {0}, limit : Limits \cup {0}]

USE CostsAssumption, LimitsAssumption, MaxRunsAssumption, HandlersAssumption

(* Numbers of runs are positive numbers. *)
LEMMA NumbersAreNumbers ==
    /\ Cardinality(Handlers) \in Nat /\ MaxRuns + Cardinality(Handlers) \in Nat
    /\ RunNumbers \subseteq Nat \ {0}
    /\ \A n \in Nat : n >= 1 /\ n <= MaxRuns + Cardinality(Handlers) => n \in RunNumbers
<1>1. Cardinality(Handlers) \in Nat BY FS_CardinalityType
<1> QED BY <1>1 DEF RunNumbers

(* The parts of a typed state are typed. *)
LEMMA ShotFacts ==
    ASSUME TypeOK
    PROVE  /\ Missing \in Executions /\ Idle \in CallRecords
           /\ DOMAIN call = Handlers /\ DOMAIN executions = Shots /\ DOMAIN runs = Shots
           /\ limit \in Limits \cup {0} /\ budgeted \in BOOLEAN
           /\ \A s \in Shots : /\ executions[s] \in Executions
                               /\ executions[s].current \in Nat
                               /\ runs[s] \in Seq(RunRecords) /\ Len(runs[s]) \in Nat
                               /\ \A i \in 1..Len(runs[s]) : runs[s][i] \in RunRecords
           /\ \A c \in Charges : usage[c] \in Nat /\ billed[c] \in Nat
           /\ \A h \in Handlers :
                 /\ call[h] \in CallRecords
                 /\ call[h].rec \in Executions /\ call[h].rec.current \in Nat
                 /\ call[h].number \in Nat /\ call[h].number \in RunNumbers \cup {0}
                 /\ call[h].cost \in Nat /\ call[h].limit \in Limits \cup {0}
                 /\ call[h].shot \in Shots \cup {None} /\ call[h].found \in BOOLEAN
<1>1. Missing \in Executions BY DEF Missing, Executions, Statuses
<1>2. Idle \in CallRecords BY <1>1 DEF Idle, CallRecords, PCs
<1>3. \A rec \in Executions : rec.current \in Nat
  <2>1. \A rec \in Executions : rec.current \in RunNumbers \cup {0} BY DEF Executions
  <2>2. RunNumbers \cup {0} \subseteq Nat BY NumbersAreNumbers
  <2> QED BY <2>1, <2>2
<1>4. \A s \in Shots : executions[s] \in Executions BY DEF TypeOK
<1>5. \A s \in Shots : runs[s] \in Seq(RunRecords) BY DEF TypeOK, RunRecords
<1>6. \A h \in Handlers : call[h] \in CallRecords BY DEF TypeOK, CallRecords
<1>7. \A c \in CallRecords :
        /\ c.rec \in Executions /\ c.number \in Nat /\ c.number \in RunNumbers \cup {0}
        /\ c.cost \in Nat
        /\ c.limit \in Limits \cup {0} /\ c.shot \in Shots \cup {None} /\ c.found \in BOOLEAN
  <2>1. RunNumbers \cup {0} \subseteq Nat /\ Costs \cup {0} \subseteq Nat BY NumbersAreNumbers
  <2>2. \A c \in CallRecords :
        /\ c.rec \in Executions /\ c.number \in RunNumbers \cup {0} /\ c.cost \in Costs \cup {0}
        /\ c.limit \in Limits \cup {0} /\ c.shot \in Shots \cup {None} /\ c.found \in BOOLEAN
    BY DEF CallRecords
  <2> QED BY <2>1, <2>2
<1>8. /\ DOMAIN call = Handlers /\ DOMAIN executions = Shots /\ DOMAIN runs = Shots
      /\ limit \in Limits \cup {0} /\ budgeted \in BOOLEAN
      /\ \A c \in Charges : usage[c] \in Nat /\ billed[c] \in Nat
  BY DEF TypeOK
<1>9. \A s \in Shots : Len(runs[s]) \in Nat /\ \A i \in 1..Len(runs[s]) : runs[s][i] \in RunRecords
  BY <1>5
<1> QED BY <1>1, <1>2, <1>3, <1>4, <1>5, <1>6, <1>7, <1>8, <1>9

(* The next number of a list that is numbered 1, 2, ... *)
LEMMA NextOfDense ==
    ASSUME NEW list \in Seq(RunRecords), \A i \in 1..Len(list) : list[i].number = i
    PROVE  Numbers(list) = 1..Len(list) /\ NextNumber(list) = Len(list) + 1
<1>1. Numbers(list) = 1..Len(list) BY DEF Numbers
<1>2. {0} \cup Numbers(list) = 0..Len(list) BY <1>1
<1>3. Max(0..Len(list)) = Len(list)
  <2>1. Len(list) \in 0..Len(list) /\ \A y \in 0..Len(list) : Len(list) >= y OBVIOUS
  <2>2. \A x \in 0..Len(list) : (\A y \in 0..Len(list) : x >= y) => x = Len(list)
    BY <2>1
  <2> QED BY <2>1, <2>2 DEF Max
<1> QED BY <1>1, <1>2, <1>3 DEF NextNumber

(* A run list that is read is a beginning of the list, numbered as it is. *)
LEMMA ReadRunsFit ==
    ASSUME TypeOK, RunNumbersDense, NEW s \in Shots, NEW list \in ReadRuns(s)
    PROVE  NextNumber(list) \in Nat /\ NextNumber(list) >= 1
           /\ NextNumber(list) <= Len(runs[s]) + 1
<1>1. runs[s] \in Seq(RunRecords) /\ Len(runs[s]) \in Nat BY ShotFacts
<1>2. \A i \in 1..Len(runs[s]) : runs[s][i] \in RunRecords /\ runs[s][i].number = i
  BY <1>1, ShotFacts DEF RunNumbersDense
<1>3. PICK n \in 0..Len(runs[s]) : list = SubSeq(runs[s], 1, n)
  BY <1>1 DEF ReadRuns
<1>4. n \in Nat /\ n <= Len(runs[s]) BY <1>1, <1>3
<1>5. \A i \in 1..n : runs[s][i] \in RunRecords BY <1>1, <1>2, <1>4
<1>6. /\ list \in Seq(RunRecords) /\ Len(list) = n
      /\ \A i \in 1..n : list[i] = runs[s][i]
  <2>1. /\ SubSeq(runs[s], 1, n) \in Seq(RunRecords)
        /\ Len(SubSeq(runs[s], 1, n)) = IF 1 <= n THEN n - 1 + 1 ELSE 0
        /\ \A i \in 1..n - 1 + 1 : SubSeq(runs[s], 1, n)[i] = runs[s][1 + i - 1]
    BY <1>4, <1>5, SubSeqProperties
  <2> QED BY <1>3, <1>4, <2>1
<1>7. \A i \in 1..Len(list) : list[i].number = i BY <1>1, <1>2, <1>4, <1>6
<1>8. NextNumber(list) = n + 1 BY <1>6, <1>7, NextOfDense
<1> QED BY <1>1, <1>4, <1>8

LEMMA NextOfNone == NextNumber(<<>>) = 1
<1>1. Numbers(<<>>) = {} BY DEF Numbers
<1>2. Max({0}) = 0 BY DEF Max
<1>3. {0} \cup Numbers(<<>>) = {0} BY <1>1
<1>4. Max({0} \cup Numbers(<<>>)) = 0 BY <1>2, <1>3
<1> QED BY <1>4 DEF NextNumber

-----------------------------------------------------------------------------
(* What one request does leaves the others as they are. *)

OnlyCall(h) == \A g \in Handlers : g # h => call'[g] = call[g]

RunsGrow ==
    \A s \in Shots :
        /\ Len(runs'[s]) \in Nat /\ Len(runs[s]) <= Len(runs'[s])
        /\ \A i \in 1..Len(runs[s]) : runs'[s][i] = runs[s][i]

LEMMA RunsStay == ASSUME TypeOK, runs' = runs PROVE RunsGrow
BY ShotFacts DEF RunsGrow

LEMMA OnlyOne ==
    ASSUME TypeOK, NEW h \in Handlers, NEW c, call' = [call EXCEPT ![h] = c]
    PROVE  OnlyCall(h) /\ call'[h] = c
BY ShotFacts DEF OnlyCall

(* The rows the others will save still fit, and so do their numbers, if    *)
(* their charges are not touched.                                          *)
LEMMA OthersSave ==
    ASSUME ShotInv, NEW h \in Handlers, OnlyCall(h), RunsGrow,
           selected \subseteq selected', candidates \subseteq candidates',
           NEW g \in Handlers, g # h
    PROVE  SavesFit(g)'
<1>1. call'[g] = call[g] BY DEF OnlyCall
<1>2. SavesFit(g) BY DEF ShotInv
<1>3. \A s \in Shots : Len(runs[s]) <= Len(runs'[s]) /\ Len(runs[s]) \in Nat /\ Len(runs'[s]) \in Nat
  BY ShotFacts DEF RunsGrow, ShotInv
<1>4. call[g].rec.current \in Nat BY ShotFacts DEF ShotInv
<1> QED BY <1>1, <1>2, <1>3, <1>4 DEF SavesFit

LEMMA OthersNumber ==
    ASSUME ShotInv, NEW h \in Handlers, OnlyCall(h), RunsGrow,
           NEW g \in Handlers, g # h,
           call[g].pc \in Inserted =>
               usage'[Charge(g)] = usage[Charge(g)] /\ billed'[Charge(g)] = billed[Charge(g)]
    PROVE  NumberFits(g)'
<1>1. call'[g] = call[g] BY DEF OnlyCall
<1>2. NumberFits(g) /\ SavesFit(g) BY DEF ShotInv
<1>3. \A s \in Shots : Len(runs[s]) <= Len(runs'[s]) /\ Len(runs[s]) \in Nat /\ Len(runs'[s]) \in Nat
  BY ShotFacts DEF RunsGrow, ShotInv
<1>4. call[g].number \in Nat BY ShotFacts DEF ShotInv
<1>5. call[g].pc \in Inserting \cup Inserted => call[g].shot \in Shots BY <1>2 DEF SavesFit
<1>6. Charge(g)' = Charge(g) BY <1>1 DEF Charge
<1>7. call[g].pc \in Inserted =>
        runs'[call[g].shot][call[g].number] = runs[call[g].shot][call[g].number]
  BY <1>2, <1>3, <1>4, <1>5 DEF RunsGrow, NumberFits
<1>8. call[g].pc \in Inserting \ {"number"} =>
        call[g].number >= 1 /\ call[g].number <= Len(runs'[call[g].shot]) + 1
  BY <1>2, <1>3, <1>4, <1>5 DEF NumberFits
<1>9. call[g].pc \in Inserted =>
        call[g].number >= 1 /\ call[g].number <= Len(runs'[call[g].shot])
  BY <1>2, <1>3, <1>4, <1>5 DEF NumberFits
<1> QED BY <1>1, <1>2, <1>6, <1>7, <1>8, <1>9 DEF NumberFits

(* The numbers still suffice if no run is recorded and no request begins. *)
LEMMA RoomStays ==
    ASSUME ShotInv, \A s \in Shots : Len(runs'[s]) = Len(runs[s]),
           NEW h \in Handlers, OnlyCall(h),
           call'[h].pc \in Inserting =>
               \/ call[h].pc \in Inserting /\ call'[h].shot = call[h].shot
               \/ Len(runs[call'[h].shot]) < MaxRuns
    PROVE  NumbersSuffice'
<1> SUFFICES ASSUME NEW s \in Shots
             PROVE  Len(runs[s]) + Cardinality(Pending(s)') < MaxRuns + Cardinality(Handlers)
  BY DEF NumbersSuffice
<1>1. IsFiniteSet(Pending(s)) /\ IsFiniteSet(Pending(s)') /\ Cardinality(Pending(s)) \in Nat
      /\ Cardinality(Pending(s)') \in Nat /\ Cardinality(Pending(s)') <= Cardinality(Handlers)
  <2>1. Pending(s) \in SUBSET Handlers /\ Pending(s)' \in SUBSET Handlers BY DEF Pending
  <2> QED BY <2>1, FS_Subset, FS_CardinalityType
<1>2. Len(runs[s]) \in Nat BY ShotFacts DEF ShotInv
<1>3. CASE Len(runs[s]) < MaxRuns BY <1>1, <1>2, <1>3, NumbersAreNumbers
<1>4. CASE ~(Len(runs[s]) < MaxRuns)
  <2>1. Pending(s)' \subseteq Pending(s) BY <1>4 DEF Pending, OnlyCall
  <2>2. Cardinality(Pending(s)') <= Cardinality(Pending(s)) BY <1>1, <2>1, FS_Subset
  <2>3. Len(runs[s]) + Cardinality(Pending(s)) < MaxRuns + Cardinality(Handlers)
    BY DEF ShotInv, NumbersSuffice
  <2> QED BY <1>1, <1>2, <2>2, <2>3, NumbersAreNumbers
<1> QED BY <1>3, <1>4

(* No two requests have the same run, if this one had its run before. *)
LEMMA OneRequestStays ==
    ASSUME ShotInv, NEW h \in Handlers, OnlyCall(h),
           call'[h].pc \in Inserted => call[h].pc \in Inserted /\ Charge(h)' = Charge(h)
    PROVE  OneRequestPerRun'
<1>1. \A g \in Handlers : g # h => call'[g] = call[g] /\ Charge(g)' = Charge(g)
  BY DEF OnlyCall, Charge
<1> QED BY <1>1 DEF ShotInv, OneRequestPerRun

(* The number of a run that will be recorded is one there is room for. *)
LEMMA RoomForNumber ==
    ASSUME ShotInv, NEW h \in Handlers, call[h].pc \in Inserting,
           NEW n \in Nat, n >= 1, n <= Len(runs[call[h].shot]) + 1
    PROVE  n \in RunNumbers
<1> DEFINE s == call[h].shot
<1>1. s \in Shots BY DEF ShotInv, SavesFit
<1>2. Pending(s) \in SUBSET Handlers /\ h \in Pending(s) BY DEF Pending
<1>3. IsFiniteSet(Pending(s)) /\ Cardinality(Pending(s)) \in Nat
  BY <1>2, FS_Subset, FS_CardinalityType
<1>4. Cardinality(Pending(s)) # 0 BY <1>2, <1>3, FS_EmptySet
<1>5. Len(runs[s]) + Cardinality(Pending(s)) < MaxRuns + Cardinality(Handlers)
  BY <1>1 DEF ShotInv, NumbersSuffice
<1>6. Len(runs[s]) \in Nat BY <1>1, ShotFacts DEF ShotInv
<1>7. n <= MaxRuns + Cardinality(Handlers) BY <1>3, <1>4, <1>5, <1>6, NumbersAreNumbers
<1> QED BY <1>7, NumbersAreNumbers

(* A request that only reads and moves on. *)
LEMMA QuietStep ==
    ASSUME ShotInv, NEW h \in Handlers, NEW c \in CallRecords,
           call' = [call EXCEPT ![h] = c], UNCHANGED tables,
           SavesFit(h)', NumberFits(h)',
           c.pc \in Inserting =>
               \/ call[h].pc \in Inserting /\ c.shot = call[h].shot
               \/ Len(runs[c.shot]) < MaxRuns,
           c.pc \in Inserted => call[h].pc \in Inserted /\ Charge(h)' = Charge(h),
           call[h].pc \in Inserted /\ budgeted /\ "budget" \notin Faults => c.pc \in Inserted
    PROVE  ShotInv'
<1>1. TypeOK BY DEF ShotInv
<1>2. OnlyCall(h) /\ call'[h] = c BY <1>1, OnlyOne
<1>3. UNCHANGED <<executions, runs, candidates, limit, usage, billed, selected, budgeted>>
  BY DEF tables, facts
<1>4. TypeOK' BY <1>1, <1>3, ShotFacts DEF TypeOK, CallRecords
<1>5. RunsGrow BY <1>1, <1>3, RunsStay
<1>6. \A g \in Handlers : SavesFit(g)' /\ NumberFits(g)'
  BY <1>2, <1>3, <1>5, OthersSave, OthersNumber
<1>7. NumbersSuffice' BY <1>2, <1>3, RoomStays
<1>8. OneRequestPerRun' BY <1>2, OneRequestStays
<1>9. ChargesFit'
  <2>1. \A s \in Shots, n \in RunNumbers :
            budgeted /\ "budget" \notin Faults /\ Settled(s, n)' => Settled(s, n)
    <3> SUFFICES ASSUME NEW s \in Shots, NEW n \in RunNumbers, budgeted, "budget" \notin Faults,
                        Settled(s, n)', NEW g \in Handlers, call[g].pc \in Inserted
                 PROVE  Charge(g) # <<s, n>>
      BY DEF Settled
    <3>1. call'[g].pc \in Inserted /\ Charge(g)' = Charge(g)
      BY <1>2 DEF OnlyCall, Charge
    <3> QED BY <3>1 DEF Settled
  <2> QED BY <1>3, <2>1 DEF ShotInv, ChargesFit, ChargeFits
<1>10. RunNumbersDense' /\ RowsFit' /\ SubmittedIsGated' /\ (budgeted => limit # 0)'
  BY <1>3 DEF ShotInv, RunNumbersDense, RowsFit, SubmittedIsGated
<1> QED BY <1>4, <1>6, <1>7, <1>8, <1>9, <1>10 DEF ShotInv

-----------------------------------------------------------------------------
(* Requests that read. *)

LEMMA IdleFits ==
    ASSUME NEW h \in Handlers, call'[h] = Idle
    PROVE  SavesFit(h)' /\ NumberFits(h)'
BY DEF Idle, SavesFit, NumberFits, Inserting, Inserted, Moving, Gating

(* A request that ends without a save. *)
LEMMA ReturnStep ==
    ASSUME ShotInv, NEW h \in Handlers, Return(h), UNCHANGED tables,
           call[h].pc \in Inserted => ~budgeted \/ "budget" \in Faults
    PROVE  ShotInv'
<1>1. call' = [call EXCEPT ![h] = Idle] /\ Idle \in CallRecords /\ call'[h] = Idle
  BY ShotFacts DEF Return, ShotInv
<1>2. Idle.pc \notin Inserting \cup Inserted BY DEF Idle, Inserting, Inserted
<1> QED BY <1>1, <1>2, IdleFits, QuietStep

LEMMA BeginRunKeeps ==
    ASSUME ShotInv, NEW h \in Handlers, NEW s \in Shots, NEW cost \in Costs, BeginRun(h, s, cost)
    PROVE  ShotInv'
<1>1. PICK rec \in ReadExecution(s) : call' = [call EXCEPT ![h] =
                     [Idle EXCEPT !.pc = "number", !.shot = s, !.cost = cost,
                                  !.found = (rec # Missing), !.rec = Started(rec)]]
  BY DEF BeginRun
<1> DEFINE c == [Idle EXCEPT !.pc = "number", !.shot = s, !.cost = cost,
                             !.found = (rec # Missing), !.rec = Started(rec)]
<1>2. TypeOK /\ call[h] = Idle /\ Len(runs[s]) < MaxRuns /\ UNCHANGED tables
  BY DEF BeginRun, ShotInv
<1>3. rec \in {executions[s], Missing} BY DEF ReadExecution, Reads
<1>4. rec \in Executions /\ rec.current \in Nat /\ rec.current <= Len(runs[s])
      /\ (rec.primary => s \in selected)
  <2>1. CASE rec = executions[s] BY <1>2, <2>1, ShotFacts DEF ShotInv, RowsFit
  <2>2. CASE rec = Missing
    <3>1. Missing.current = 0 /\ Missing.primary = FALSE BY DEF Missing
    <3>2. Missing \in Executions /\ Len(runs[s]) \in Nat BY <1>2, ShotFacts
    <3> QED BY <2>2, <3>1, <3>2
  <2> QED BY <1>3, <2>1, <2>2
<1>5. Started(rec) \in Executions /\ Started(rec).status = "in_progress"
      /\ Started(rec).current = rec.current /\ Started(rec).primary = rec.primary
  BY <1>4 DEF Started, Executions, Statuses
<1>6. c \in CallRecords /\ c.pc = "number" /\ c.shot = s /\ c.rec = Started(rec) /\ c.cost = cost
  BY <1>2, <1>5, ShotFacts, ZenonT(60) DEF CallRecords, Idle, PCs
<1>7. call'[h] = c BY <1>1, <1>2, OnlyOne
<1>8. selected' = selected /\ runs' = runs BY <1>2 DEF tables, facts
<1> HIDE DEF c
<1>9. SavesFit(h)'
  BY <1>4, <1>5, <1>6, <1>7, <1>8 DEF SavesFit, Inserting, Inserted, Moving, Gating
<1>10. NumberFits(h)' BY <1>6, <1>7 DEF NumberFits, Inserting, Inserted
<1>11. c.pc \notin Inserted /\ call[h].pc \notin Inserted BY <1>2, <1>6 DEF Inserted, Idle
<1> QED BY <1>1, <1>2, <1>6, <1>9, <1>10, <1>11, QuietStep DEF c

(* A request that reads and goes on, if it may go there. *)
LEMMA GoOn ==
    ASSUME ShotInv, NEW h \in Handlers, NEW pc \in PCs, NEW number \in RunNumbers \cup {0},
           NEW l \in Limits \cup {0}, UNCHANGED tables,
           call' = [call EXCEPT
                       ![h] = [call[h] EXCEPT !.pc = pc, !.number = number, !.limit = l]],
           \/ /\ call[h].pc \in Inserting /\ pc \in Inserting \ {"number"}
              /\ number >= 1 /\ number <= Len(runs[call[h].shot]) + 1
              /\ pc \in {"readLimit", "check"} => call[h].cost > 0
           \/ /\ call[h].pc \in {"reserve"} /\ pc = "saveBudget" /\ number = call[h].number
              /\ l # 0
           \/ call[h].pc = "gateRow" /\ pc = "gateCandidates" /\ call[h].shot \in selected
           \/ call[h].pc = "gateCandidates" /\ pc = "gateLimit" /\ call[h].shot \in candidates
           \/ call[h].pc \in {"gateLimit", "gateBudget"} /\ pc \in {"gateBudget", "submit"}
    PROVE  ShotInv'
<1> DEFINE c == [call[h] EXCEPT !.pc = pc, !.number = number, !.limit = l]
<1>1. TypeOK BY DEF ShotInv
<1>2. /\ c \in CallRecords /\ c.pc = pc /\ c.number = number /\ c.limit = l
      /\ c.shot = call[h].shot /\ c.rec = call[h].rec /\ c.cost = call[h].cost
  BY <1>1, ShotFacts DEF CallRecords
<1>3. call'[h] = c BY <1>1, OnlyOne
<1>4. selected' = selected /\ candidates' = candidates /\ runs' = runs
      /\ usage' = usage /\ billed' = billed
  BY DEF tables, facts
<1>5. call' = [call EXCEPT ![h] = c] OBVIOUS
<1> HIDE DEF c
<1>6. SavesFit(h) /\ NumberFits(h) BY DEF ShotInv
<1>7. SavesFit(h)'
  BY <1>2, <1>3, <1>4, <1>6 DEF SavesFit, Inserting, Inserted, Moving, Gating
<1>8. pc \in Inserted => call[h].pc = "reserve" /\ pc = "saveBudget" /\ number = call[h].number
  BY DEF Inserted, Inserting
<1>9. pc \in Inserted => Charge(h)' = Charge(h) BY <1>2, <1>3, <1>8 DEF Charge
<1>10. NumberFits(h)'
  <2>1. CASE pc \in Inserting
    <3>1. pc \notin Inserted BY <2>1 DEF Inserting, Inserted
    <3>2. call[h].pc \in Inserting BY <2>1 DEF Inserting
    <3>3. call[h].cost \in Costs BY <1>6, <3>2 DEF NumberFits
    <3>4. pc \in Inserting \ {"number"} /\ number >= 1 /\ number <= Len(runs[call[h].shot]) + 1
          /\ (pc \in {"readLimit", "check"} => call[h].cost > 0)
      BY <2>1 DEF Inserting
    <3>5. pc \notin {"reserve", "saveBudget", "recordUsage", "recordEvent"}
      BY <2>1 DEF Inserting
    <3> QED BY <1>2, <1>3, <1>4, <3>1, <3>3, <3>4, <3>5 DEF NumberFits
  <2>2. CASE pc = "saveBudget"
    <3>1. call[h].pc = "reserve" BY <2>2 DEF Inserting
    <3>2. /\ call[h].number >= 1 /\ call[h].number <= Len(runs[call[h].shot])
          /\ runs[call[h].shot][call[h].number].cost = call[h].cost /\ call[h].cost > 0
          /\ usage[Charge(h)] = 0 /\ billed[Charge(h)] = 0
      BY <1>6, <3>1 DEF NumberFits, Inserted
    <3>3. Charge(h)' = Charge(h) BY <1>9, <2>2 DEF Inserted
    <3>4. pc \notin Inserting BY <2>2 DEF Inserting
    <3> QED BY <1>2, <1>3, <1>4, <2>2, <3>1, <3>2, <3>3, <3>4, <1>8 DEF NumberFits, Inserted
  <2>3. CASE pc \notin Inserting /\ pc # "saveBudget"
    <3>1. pc \in {"gateCandidates", "gateLimit", "gateBudget", "submit"} BY <2>3
    <3> QED BY <1>2, <1>3, <3>1 DEF NumberFits, Inserting, Inserted
  <2> QED BY <2>1, <2>2, <2>3
<1>11. pc \in Inserting => call[h].pc \in Inserting BY DEF Inserting
<1>12. call[h].pc \in Inserted => pc \in Inserted BY DEF Inserting, Inserted
<1>13. pc \in Inserted => call[h].pc \in Inserted BY <1>8 DEF Inserted
<1> QED BY <1>2, <1>5, <1>7, <1>9, <1>10, <1>11, <1>12, <1>13, QuietStep

(* Going on without a word is going on with the same number and limit. *)
LEMMA GotoIs ==
    ASSUME TypeOK, NEW h \in Handlers, NEW pc \in PCs, Goto(h, pc)
    PROVE  call' = [call EXCEPT ![h] = [call[h] EXCEPT !.pc = pc, !.number = call[h].number,
                                                       !.limit = call[h].limit]]
<1>1. [call[h] EXCEPT !.pc = pc] =
        [call[h] EXCEPT !.pc = pc, !.number = call[h].number, !.limit = call[h].limit]
  BY ShotFacts DEF CallRecords
<1> QED BY <1>1 DEF Goto

LEMMA SavingPoint ==
    ASSUME NEW h
    PROVE  Saving(h) \in {"insertRun", "insertExecution"} /\ Saving(h) \in PCs
           /\ Saving(h) \in Inserting \ {"number"}
BY DEF Saving, PCs, Inserting

LEMMA NumberRunKeeps ==
    ASSUME ShotInv, NEW h \in Handlers, NumberRun(h)
    PROVE  ShotInv'
<1> DEFINE pc == CASE call[h].cost > 0 -> "readLimit"
                   [] call[h].cost = 0 /\ call[h].found -> "insertRun"
                   [] OTHER -> "insertExecution"
           s == call[h].shot
<1>1. PICK list \in IF call[h].found THEN ReadRuns(s) ELSE {<<>>} :
        call' = [call EXCEPT ![h].number = NextNumber(list), ![h].pc = pc]
  BY DEF NumberRun
<1>2. TypeOK /\ call[h].pc = "number" /\ UNCHANGED tables BY DEF NumberRun, ShotInv
<1>3. call[h].pc \in Inserting /\ s \in Shots BY <1>2 DEF Inserting, ShotInv, SavesFit
<1>4. NextNumber(list) \in Nat /\ NextNumber(list) >= 1 /\ NextNumber(list) <= Len(runs[s]) + 1
  <2>1. CASE call[h].found BY <1>1, <1>3, <2>1, ReadRunsFit DEF ShotInv
  <2>2. CASE ~call[h].found BY <1>1, <1>2, <1>3, <2>2, NextOfNone, ShotFacts
  <2> QED BY <2>1, <2>2
<1>5. NextNumber(list) \in RunNumbers BY <1>3, <1>4, RoomForNumber
<1>6. /\ pc \in {"readLimit", "insertRun", "insertExecution"}
      /\ pc = "readLimit" => call[h].cost > 0
  OBVIOUS
<1> HIDE DEF pc
<1>7. call[h].limit \in Limits \cup {0} /\ call[h] \in CallRecords BY <1>2, ShotFacts
<1>8. call' = [call EXCEPT ![h] = [call[h] EXCEPT !.pc = pc, !.number = NextNumber(list),
                                                  !.limit = call[h].limit]]
  <2>1. [[call[h] EXCEPT !.number = NextNumber(list)] EXCEPT !.pc = pc] =
          [call[h] EXCEPT !.pc = pc, !.number = NextNumber(list), !.limit = call[h].limit]
    BY <1>7 DEF CallRecords
  <2>2. call' = [call EXCEPT ![h] = [[call[h] EXCEPT !.number = NextNumber(list)] EXCEPT !.pc = pc]]
    BY <1>1, <1>2, ShotFacts
  <2> QED BY <2>1, <2>2
<1>9. pc \in PCs /\ pc \in Inserting \ {"number"} BY <1>6 DEF PCs, Inserting
<1> QED BY <1>2, <1>3, <1>4, <1>5, <1>6, <1>7, <1>8, <1>9, GoOn

LEMMA ReadBudgetKeeps ==
    ASSUME ShotInv, NEW h \in Handlers, ReadBudget(h)
    PROVE  ShotInv'
<1>1. PICK seen \in ReadLimit :
        call' = [call EXCEPT ![h].limit = seen,
                             ![h].pc = IF seen = 0 THEN Saving(h) ELSE "check"]
  BY DEF ReadBudget
<1> DEFINE pc == IF seen = 0 THEN Saving(h) ELSE "check"
<1>2. TypeOK /\ call[h].pc = "readLimit" /\ UNCHANGED tables BY DEF ReadBudget, ShotInv
<1>3. seen \in Limits \cup {0} BY <1>2, ShotFacts DEF ReadLimit, Reads
<1>4. /\ call[h].number >= 1 /\ call[h].number <= Len(runs[call[h].shot]) + 1
      /\ call[h].cost > 0
  BY <1>2 DEF ShotInv, NumberFits, Inserting
<1>5. pc \in PCs /\ pc \in Inserting \ {"number"} BY SavingPoint DEF PCs, Inserting
<1> HIDE DEF pc
<1>6. call[h] \in CallRecords /\ call[h].number \in RunNumbers \cup {0} BY <1>2, ShotFacts
<1>7. call' = [call EXCEPT ![h] = [call[h] EXCEPT !.pc = pc, !.number = call[h].number,
                                                  !.limit = seen]]
  <2>1. [[call[h] EXCEPT !.limit = seen] EXCEPT !.pc = pc] =
          [call[h] EXCEPT !.pc = pc, !.number = call[h].number, !.limit = seen]
    BY <1>6 DEF CallRecords
  <2>2. call' = [call EXCEPT ![h] = [[call[h] EXCEPT !.limit = seen] EXCEPT !.pc = pc]]
    BY <1>1, <1>2, ShotFacts DEF pc
  <2> QED BY <2>1, <2>2
<1>8. call[h].pc \in Inserting BY <1>2 DEF Inserting
<1> QED BY <1>2, <1>3, <1>4, <1>5, <1>6, <1>7, <1>8, GoOn

LEMMA CheckBudgetKeeps ==
    ASSUME ShotInv, NEW h \in Handlers, CheckBudget(h)
    PROVE  ShotInv'
<1>1. TypeOK /\ call[h].pc = "check" /\ UNCHANGED tables BY DEF CheckBudget, ShotInv
<1>2. CASE Return(h)
  <2>1. call[h].pc \notin Inserted BY <1>1 DEF Inserted
  <2> QED BY <1>1, <1>2, <2>1, ReturnStep
<1>3. CASE Goto(h, Saving(h))
  <2>1. /\ call[h].number >= 1 /\ call[h].number <= Len(runs[call[h].shot]) + 1
        /\ call[h].pc \in Inserting
    BY <1>1 DEF ShotInv, NumberFits, Inserting
  <2>2. call' = [call EXCEPT ![h] = [call[h] EXCEPT !.pc = Saving(h), !.number = call[h].number,
                                                    !.limit = call[h].limit]]
    BY <1>1, <1>3, SavingPoint, GotoIs
  <2>3. call[h].number \in RunNumbers \cup {0} /\ call[h].limit \in Limits \cup {0}
    BY <1>1, ShotFacts
  <2>4. Saving(h) \notin {"readLimit", "check"} BY SavingPoint
  <2> QED BY <1>1, <2>1, <2>2, <2>3, <2>4, SavingPoint, GoOn
<1> QED BY <1>2, <1>3 DEF CheckBudget

LEMMA ReserveKeeps ==
    ASSUME ShotInv, NEW h \in Handlers, Reserve(h)
    PROVE  ShotInv'
<1>1. PICK seen \in ReadLimit :
        IF seen = 0 THEN Return(h)
        ELSE call' = [call EXCEPT ![h].pc = "saveBudget", ![h].limit = seen]
  BY DEF Reserve
<1>2. TypeOK /\ call[h].pc = "reserve" /\ UNCHANGED tables BY DEF Reserve, ShotInv
<1>3. seen \in Limits \cup {0} BY <1>2, ShotFacts DEF ReadLimit, Reads
<1>4. CASE seen = 0
  <2>1. budgeted /\ "budget" \notin Faults => seen # 0
    BY DEF ReadLimit, Reads, ShotInv
  <2> QED BY <1>1, <1>2, <1>4, <2>1, ReturnStep
<1>5. CASE seen # 0
  <2>1. call[h] \in CallRecords /\ call[h].number \in RunNumbers \cup {0} /\ "saveBudget" \in PCs
    BY <1>2, ShotFacts DEF PCs
  <2>2. [[call[h] EXCEPT !.pc = "saveBudget"] EXCEPT !.limit = seen] =
          [call[h] EXCEPT !.pc = "saveBudget", !.number = call[h].number, !.limit = seen]
    BY <2>1 DEF CallRecords
  <2>3. call' = [call EXCEPT ![h] = [[call[h] EXCEPT !.pc = "saveBudget"] EXCEPT !.limit = seen]]
    BY <1>1, <1>2, <1>5, ShotFacts
  <2>4. call' = [call EXCEPT ![h] = [call[h] EXCEPT !.pc = "saveBudget",
                                        !.number = call[h].number, !.limit = seen]]
    BY <2>2, <2>3
  <2> HIDE <2>2, <2>3
  <2> QED BY <1>2, <1>3, <1>5, <2>1, <2>4, GoOn
<1> QED BY <1>4, <1>5

LEMMA GateKeeps ==
    ASSUME ShotInv, NEW h \in Handlers,
           GateRow(h) \/ GateCandidates(h) \/ GateLimit(h) \/ GateBudget(h)
    PROVE  ShotInv'
<1>1. /\ TypeOK /\ call[h].pc \in Gating \ {"submit"} /\ UNCHANGED tables
      /\ call[h].number \in RunNumbers \cup {0} /\ call[h].limit \in Limits \cup {0}
      /\ call[h].shot \in Shots /\ call[h] \in CallRecords
  <2>1. TypeOK BY DEF ShotInv
  <2>2. call[h].pc \in Gating \ {"submit"} /\ UNCHANGED tables
    BY DEF GateRow, GateCandidates, GateLimit, GateBudget, Gating
  <2>3. call[h].shot \in Shots BY <2>2 DEF ShotInv, SavesFit
  <2> QED BY <2>1, <2>2, <2>3, ShotFacts
<1>2. {"gateCandidates", "gateLimit", "gateBudget", "submit"} \subseteq PCs BY DEF PCs
<1>3. CASE Return(h)
  <2>1. call[h].pc \notin Inserted BY <1>1 DEF Inserted, Gating
  <2> QED BY <1>1, <1>3, <2>1, ReturnStep
<1>4. CASE GateRow(h) /\ ~Return(h)
  <2>1. call[h].pc = "gateRow" /\ HasPrimary(h) /\ Goto(h, "gateCandidates") BY <1>4 DEF GateRow
  <2>2. call[h].shot \in selected BY <1>1, <2>1 DEF HasPrimary, ShotInv, RowsFit
  <2>3. call' = [call EXCEPT ![h] = [call[h] EXCEPT !.pc = "gateCandidates",
                                        !.number = call[h].number, !.limit = call[h].limit]]
    BY <1>1, <1>2, <2>1, GotoIs
  <2> QED BY <1>1, <1>2, <2>1, <2>2, <2>3, GoOn
<1>5. CASE GateCandidates(h) /\ ~Return(h)
  <2>1. /\ call[h].pc = "gateCandidates" /\ call[h].shot \in candidates
        /\ Goto(h, "gateLimit")
    BY <1>5 DEF GateCandidates, HasCandidate
  <2>2. call' = [call EXCEPT ![h] = [call[h] EXCEPT !.pc = "gateLimit",
                                        !.number = call[h].number, !.limit = call[h].limit]]
    BY <1>1, <1>2, <2>1, GotoIs
  <2> QED BY <1>1, <1>2, <2>1, <2>2, GoOn
<1>6. CASE GateLimit(h)
  <2>1. PICK seen \in ReadLimit :
          call' = [call EXCEPT ![h].limit = seen,
                               ![h].pc = IF seen = 0 THEN "submit" ELSE "gateBudget"]
    BY <1>6 DEF GateLimit
  <2> DEFINE pc == IF seen = 0 THEN "submit" ELSE "gateBudget"
  <2>2. seen \in Limits \cup {0} /\ call[h].pc = "gateLimit"
    BY <1>1, <1>6, ShotFacts DEF ReadLimit, Reads, GateLimit
  <2>3. pc \in {"gateBudget", "submit"} OBVIOUS
  <2> HIDE DEF pc
  <2>4. [[call[h] EXCEPT !.limit = seen] EXCEPT !.pc = pc] =
          [call[h] EXCEPT !.pc = pc, !.number = call[h].number, !.limit = seen]
    BY <1>1 DEF CallRecords
  <2>5. call' = [call EXCEPT ![h] = [[call[h] EXCEPT !.limit = seen] EXCEPT !.pc = pc]]
    BY <1>1, <2>1, ShotFacts DEF pc
  <2>6. call' = [call EXCEPT ![h] = [call[h] EXCEPT !.pc = pc, !.number = call[h].number,
                                                    !.limit = seen]]
    BY <2>4, <2>5
  <2> HIDE <2>4, <2>5
  <2> QED BY <1>1, <1>2, <2>2, <2>3, <2>6, GoOn
<1>7. CASE GateBudget(h) /\ ~Return(h)
  <2>1. call[h].pc = "gateBudget" /\ Goto(h, "submit") BY <1>7 DEF GateBudget
  <2>2. call' = [call EXCEPT ![h] = [call[h] EXCEPT !.pc = "submit",
                                        !.number = call[h].number, !.limit = call[h].limit]]
    BY <1>1, <1>2, <2>1, GotoIs
  <2> QED BY <1>1, <1>2, <2>1, <2>2, GoOn
<1> QED BY <1>3, <1>4, <1>5, <1>6, <1>7

(* Requests that begin with a row or a limit. *)
LEMMA BeginKeeps ==
    ASSUME ShotInv, NEW h \in Handlers, call[h] = Idle, UNCHANGED tables,
           NEW c \in CallRecords, call' = [call EXCEPT ![h] = c],
           c.pc \in {"setBudget"} \cup Moving \cup Gating,
           c.pc \in Moving \cup Gating => c.shot \in Shots /\ c.rec.current <= Len(runs[c.shot]),
           c.pc \in Moving => c.rec.status \notin {"none", "submitted_for_review"},
           c.pc \in Gating =>
               /\ c.rec.status = "submitted_for_review" /\ c.pc = "gateRow"
               /\ c.rec.primary => c.shot \in selected,
           c.pc = "setBudget" => c.limit # 0
    PROVE  ShotInv'
<1>1. TypeOK BY DEF ShotInv
<1>2. call'[h] = c BY <1>1, OnlyOne
<1>3. selected' = selected /\ runs' = runs BY DEF tables, facts
<1>4. SavesFit(h)' BY <1>2, <1>3 DEF SavesFit, Inserting, Inserted, Moving, Gating
<1>5. NumberFits(h)' BY <1>2 DEF NumberFits, Inserting, Inserted, Moving, Gating
<1>6. c.pc \notin Inserting \cup Inserted /\ call[h].pc \notin Inserted
  BY DEF Inserting, Inserted, Moving, Gating, Idle
<1> QED BY <1>4, <1>5, <1>6, QuietStep

LEMMA BeginSetBudgetKeeps ==
    ASSUME ShotInv, NEW h \in Handlers, NEW l \in Limits, BeginSetBudget(h, l)
    PROVE  ShotInv'
<1>1. PICK seen \in ReadLimit : call' = [call EXCEPT ![h] =
                [Idle EXCEPT !.pc = "setBudget", !.limit = l, !.found = (seen # 0)]]
  BY DEF BeginSetBudget
<1> DEFINE c == [Idle EXCEPT !.pc = "setBudget", !.limit = l, !.found = (seen # 0)]
<1>2. call[h] = Idle /\ UNCHANGED tables /\ Idle \in CallRecords /\ l # 0
  BY ShotFacts DEF BeginSetBudget, ShotInv
<1>3. c \in CallRecords /\ c.pc = "setBudget" /\ c.limit = l
  BY <1>2 DEF CallRecords, PCs
<1> HIDE DEF c
<1>4. c.pc \notin Moving \cup Gating BY <1>3 DEF Moving, Gating
<1> QED BY <1>1, <1>2, <1>3, <1>4, BeginKeeps DEF c

LEMMA BeginMoveKeeps ==
    ASSUME ShotInv, NEW h \in Handlers, NEW s \in Shots, NEW move \in Moves, BeginMove(h, s, move)
    PROVE  ShotInv'
<1> DEFINE pc == IF move = "candidate" THEN "saveCandidate" ELSE "saveMove"
           c == [Idle EXCEPT !.pc = pc, !.shot = s, !.rec = Moved(executions[s], move)]
<1>1. call[h] = Idle /\ UNCHANGED tables /\ Idle \in CallRecords /\ call' = [call EXCEPT ![h] = c]
  BY ShotFacts DEF BeginMove, ShotInv
<1>2. /\ Moved(executions[s], move) \in Executions
      /\ Moved(executions[s], move).current = executions[s].current
      /\ Moved(executions[s], move).status \notin {"none", "submitted_for_review"}
  <2>1. executions[s] \in Executions BY ShotFacts DEF ShotInv
  <2> QED BY <2>1 DEF Moved, Moves, Executions, Statuses
<1>3. pc \in Moving BY DEF Moving
<1>4. c \in CallRecords /\ c.pc = pc /\ c.shot = s /\ c.rec = Moved(executions[s], move)
  BY <1>1, <1>2, ZenonT(60) DEF CallRecords, PCs
<1>5. executions[s].current <= Len(runs[s]) BY DEF ShotInv, RowsFit
<1> HIDE DEF pc, c
<1>6. c.pc \notin Gating /\ c.pc # "setBudget" BY <1>3, <1>4 DEF Moving, Gating
<1> QED BY <1>1, <1>2, <1>3, <1>4, <1>5, <1>6, BeginKeeps

LEMMA BeginSubmitKeeps ==
    ASSUME ShotInv, NEW h \in Handlers, NEW s \in Shots, BeginSubmit(h, s)
    PROVE  ShotInv'
<1> DEFINE row == [executions[s] EXCEPT !.status = "submitted_for_review"]
           c == [Idle EXCEPT !.pc = "gateRow", !.shot = s, !.rec = row]
<1>1. call[h] = Idle /\ UNCHANGED tables /\ Idle \in CallRecords /\ call' = [call EXCEPT ![h] = c]
  BY ShotFacts DEF BeginSubmit, ShotInv
<1>2. /\ row \in Executions /\ row.current = executions[s].current
      /\ row.status = "submitted_for_review" /\ row.primary = executions[s].primary
  <2>1. executions[s] \in Executions BY ShotFacts DEF ShotInv
  <2> QED BY <2>1 DEF Executions, Statuses
<1> HIDE DEF row
<1>3. c \in CallRecords /\ c.pc = "gateRow" /\ c.shot = s /\ c.rec = row
  BY <1>1, <1>2 DEF CallRecords, PCs
<1>4. executions[s].current <= Len(runs[s]) /\ (executions[s].primary => s \in selected)
  BY DEF ShotInv, RowsFit
<1> HIDE DEF c
<1>5. c.pc \notin Moving /\ c.pc # "setBudget" /\ c.pc \in Gating BY <1>3 DEF Moving, Gating
<1> QED BY <1>1, <1>2, <1>3, <1>4, <1>5, BeginKeeps

-----------------------------------------------------------------------------
(* Requests that save. *)

(* What is charged stays right if a request that leaves its run owes it    *)
(* nothing.                                                                *)
LEMMA ChargesStay ==
    ASSUME ShotInv, NEW h \in Handlers, OnlyCall(h),
           UNCHANGED <<runs, usage, billed, budgeted>>,
           call'[h].pc \in Inserted => Charge(h)' = Charge(h),
           call[h].pc \in Inserted /\ call'[h].pc \notin Inserted =>
               call[h].pc # "recordEvent" /\ call[h].cost = 0
    PROVE  ChargesFit'
<1> SUFFICES ASSUME NEW s \in Shots, NEW n \in RunNumbers, budgeted, "budget" \notin Faults,
                    Settled(s, n)', n <= Len(runs[s])
             PROVE  usage[<<s, n>>] = runs[s][n].cost /\ billed[<<s, n>>] = runs[s][n].cost
  BY DEF ShotInv, ChargesFit, ChargeFits
<1>1. CASE Settled(s, n) BY <1>1 DEF ShotInv, ChargesFit, ChargeFits
<1>2. CASE ~Settled(s, n)
  <2>1. PICK g \in Handlers : call[g].pc \in Inserted /\ Charge(g) = <<s, n>>
    BY <1>2 DEF Settled
  <2>2. g = h
    <3> SUFFICES ASSUME g # h PROVE FALSE
      OBVIOUS
    <3>1. call'[g] = call[g] BY DEF OnlyCall
    <3>2. call'[g].pc \in Inserted /\ Charge(g)' = <<s, n>> BY <2>1, <3>1 DEF Charge
    <3> QED BY <3>2 DEF Settled
  <2>3. call'[h].pc \notin Inserted
    <3> SUFFICES ASSUME call'[h].pc \in Inserted PROVE FALSE
      OBVIOUS
    <3>1. Charge(h)' = <<s, n>> BY <2>1, <2>2
    <3> QED BY <3>1 DEF Settled
  <2>4. call[h].cost = 0 /\ call[h].pc # "recordEvent" BY <2>1, <2>2, <2>3
  <2>5. call[h].shot = s /\ call[h].number = n BY <2>1, <2>2 DEF Charge
  <2>6. runs[s][n].cost = 0 /\ usage[<<s, n>>] = 0 /\ billed[<<s, n>>] = 0
    BY <2>1, <2>2, <2>4, <2>5 DEF ShotInv, NumberFits
  <2> QED BY <2>6
<1> QED BY <1>1, <1>2

(* A save that records no run and touches no other request's charge. *)
LEMMA SaveStep ==
    ASSUME ShotInv, TypeOK', NEW h \in Handlers, OnlyCall(h), UNCHANGED runs,
           selected \subseteq selected', candidates \subseteq candidates',
           \A g \in Handlers : g # h /\ call[g].pc \in Inserted =>
               usage'[Charge(g)] = usage[Charge(g)] /\ billed'[Charge(g)] = billed[Charge(g)],
           SavesFit(h)', NumberFits(h)',
           call'[h].pc \in Inserting => call[h].pc \in Inserting /\ call'[h].shot = call[h].shot,
           call'[h].pc \in Inserted => call[h].pc \in Inserted /\ Charge(h)' = Charge(h),
           RowsFit', ChargesFit', (budgeted => limit # 0)', SubmittedIsGated'
    PROVE  ShotInv'
<1>1. RunsGrow BY RunsStay DEF ShotInv
<1>2. \A g \in Handlers : SavesFit(g)' /\ NumberFits(g)' BY <1>1, OthersSave, OthersNumber
<1>3. NumbersSuffice' BY RoomStays
<1>4. OneRequestPerRun' BY OneRequestStays
<1>5. RunNumbersDense' BY DEF ShotInv, RunNumbersDense
<1> QED BY <1>2, <1>3, <1>4, <1>5 DEF ShotInv

(* A row that fits is saved. *)
LEMMA SaveRow ==
    ASSUME ShotInv, NEW h \in Handlers, NEW s \in Shots, NEW row \in Executions, NEW c \in CallRecords,
           SaveExecution(s, row), call' = [call EXCEPT ![h] = c],
           UNCHANGED <<runs, candidates, limit, usage, billed, budgeted>>,
           selected \subseteq selected', selected' \subseteq Shots,
           row.status # "none", row.current <= Len(runs[s]), row.primary => s \in selected',
           row.status = "submitted_for_review" => s \in candidates /\ s \in selected',
           SavesFit(h)', NumberFits(h)',
           c.pc \in Inserting => call[h].pc \in Inserting /\ c.shot = call[h].shot,
           c.pc \in Inserted => call[h].pc \in Inserted /\ Charge(h)' = Charge(h),
           call[h].pc \in Inserted /\ c.pc \notin Inserted =>
               call[h].pc # "recordEvent" /\ call[h].cost = 0
    PROVE  ShotInv'
<1>1. TypeOK BY DEF ShotInv
<1>2. OnlyCall(h) /\ call'[h] = c BY <1>1, OnlyOne
<1>3. executions' = [executions EXCEPT ![s] = row] BY DEF SaveExecution
<1>4. \A t \in Shots : executions'[t] = IF t = s THEN row ELSE executions[t]
  BY <1>1, <1>3, ShotFacts
<1>5. TypeOK'
  <2>1. call' \in [Handlers -> CallRecords] BY <1>1 DEF TypeOK, CallRecords
  <2>2. executions' \in [Shots -> Executions] BY <1>1, <1>3 DEF TypeOK
  <2>3. \A t \in Shots : executions'[t].status = "none" => executions'[t] = Missing
    BY <1>1, <1>4 DEF TypeOK
  <2> QED BY <1>1, <2>1, <2>2, <2>3 DEF TypeOK, CallRecords
<1>6. RowsFit' BY <1>4 DEF ShotInv, RowsFit
<1>7. SubmittedIsGated' BY <1>4 DEF ShotInv, SubmittedIsGated
<1>8. ChargesFit' BY <1>2, ChargesStay
<1>9. (budgeted => limit # 0)' BY DEF ShotInv
<1> QED BY <1>2, <1>5, <1>6, <1>7, <1>8, <1>9, SaveStep

LEMMA InsertExecutionKeeps ==
    ASSUME ShotInv, NEW h \in Handlers, InsertExecution(h)
    PROVE  ShotInv'
<1> DEFINE s == call[h].shot
           c == [call[h] EXCEPT !.pc = "insertRun"]
<1>1. /\ TypeOK /\ call[h].pc = "insertExecution"
      /\ UNCHANGED <<runs, candidates, limit, usage, billed, facts>>
  BY DEF InsertExecution, ShotInv
<1>2. CASE executions[s] # Missing
  <2>1. Return(h) /\ UNCHANGED tables BY <1>1, <1>2 DEF InsertExecution, tables
  <2>2. call[h].pc \notin Inserted BY <1>1 DEF Inserted
  <2> QED BY <2>1, <2>2, ReturnStep
<1>3. CASE executions[s] = Missing
  <2>1. SaveExecution(s, call[h].rec) /\ call' = [call EXCEPT ![h] = c]
    BY <1>3 DEF InsertExecution, Goto
  <2>2. SavesFit(h) /\ NumberFits(h) BY DEF ShotInv
  <2>3. /\ c \in CallRecords /\ c.pc = "insertRun" /\ c.shot = s /\ c.rec = call[h].rec
        /\ c.cost = call[h].cost /\ c.number = call[h].number
    BY <1>1, ShotFacts DEF CallRecords, PCs
  <2> HIDE DEF c
  <2>4. call'[h] = c BY <1>1, <2>1, OnlyOne
  <2>5. call[h].pc \in Inserting /\ c.pc \in Inserting /\ c.pc \notin Inserted
        /\ call[h].pc \notin Inserted
    BY <1>1, <2>3 DEF Inserting, Inserted
  <2>6. /\ s \in Shots /\ call[h].rec.status = "in_progress"
        /\ call[h].rec.current <= Len(runs[s])
        /\ call[h].rec.primary => s \in selected
    BY <2>2, <2>5 DEF SavesFit
  <2>7. selected' = selected /\ budgeted' = budgeted BY <1>1 DEF facts
  <2>8. SavesFit(h)'
    BY <1>1, <2>3, <2>4, <2>6, <2>7 DEF SavesFit, Inserting, Inserted, Moving, Gating
  <2>9. NumberFits(h)'
    BY <1>1, <2>2, <2>3, <2>4, <2>5 DEF NumberFits, Inserting, Inserted
  <2>10. call[h].rec \in Executions /\ selected \subseteq Shots BY <1>1, ShotFacts DEF TypeOK
  <2> QED BY <1>1, <2>1, <2>3, <2>5, <2>6, <2>7, <2>8, <2>9, <2>10, SaveRow
<1> QED BY <1>2, <1>3

LEMMA SaveCurrentKeeps ==
    ASSUME ShotInv, NEW h \in Handlers, SaveCurrent(h)
    PROVE  ShotInv'
<1> DEFINE s == call[h].shot
           row == [call[h].rec EXCEPT !.current = call[h].number]
           c == IF call[h].cost > 0 THEN [call[h] EXCEPT !.pc = "reserve"] ELSE Idle
<1>1. /\ TypeOK /\ call[h].pc = "saveCurrent" /\ SaveExecution(s, row)
      /\ UNCHANGED <<runs, candidates, limit, usage, billed, facts>>
      /\ call' = [call EXCEPT ![h] = c]
  BY DEF SaveCurrent, ShotInv, Goto, Return
<1>2. SavesFit(h) /\ NumberFits(h) BY DEF ShotInv
<1>3. call[h].pc \in Inserted BY <1>1 DEF Inserted
<1>4. /\ s \in Shots /\ call[h].rec.status = "in_progress"
      /\ call[h].rec.current <= Len(runs[s])
      /\ call[h].rec.primary => s \in selected
  BY <1>2, <1>3 DEF SavesFit
<1>5. /\ call[h].number >= 1 /\ call[h].number <= Len(runs[s])
      /\ runs[s][call[h].number].cost = call[h].cost
      /\ usage[Charge(h)] = 0 /\ billed[Charge(h)] = 0
  BY <1>1, <1>2, <1>3 DEF NumberFits
<1>6. /\ row \in Executions /\ row.current = call[h].number /\ row.status = "in_progress"
      /\ row.primary = call[h].rec.primary
  <2>1. call[h].rec \in Executions /\ call[h].number \in RunNumbers \cup {0}
    BY <1>1, ShotFacts
  <2> QED BY <1>4, <2>1 DEF Executions
<1>7. selected' = selected /\ budgeted' = budgeted /\ selected \subseteq Shots
  BY <1>1 DEF facts, TypeOK
<1>8. call[h].cost \in Nat /\ call[h] \in CallRecords /\ Idle \in CallRecords BY <1>1, ShotFacts
<1>9. CASE call[h].cost > 0
  <2>1. /\ c \in CallRecords /\ c.pc = "reserve" /\ c.shot = s /\ c.rec = call[h].rec
        /\ c.cost = call[h].cost /\ c.number = call[h].number
    BY <1>8, <1>9 DEF CallRecords, PCs
  <2> HIDE DEF c, row
  <2>2. call'[h] = c BY <1>1, OnlyOne
  <2>3. c.pc \in Inserted /\ c.pc \notin Inserting BY <2>1 DEF Inserted, Inserting
  <2>4. Charge(h)' = Charge(h) BY <2>1, <2>2 DEF Charge
  <2>5. SavesFit(h)'
    BY <1>1, <1>4, <1>7, <2>1, <2>2 DEF SavesFit, Inserting, Inserted, Moving, Gating
  <2>6. NumberFits(h)'
    BY <1>1, <1>5, <1>9, <2>1, <2>2, <2>3, <2>4 DEF NumberFits
  <2> QED BY <1>1, <1>3, <1>4, <1>5, <1>6, <1>7, <2>1, <2>3, <2>4, <2>5, <2>6, SaveRow
<1>10. CASE ~(call[h].cost > 0)
  <2>1. c = Idle /\ call[h].cost = 0 BY <1>8, <1>10
  <2> HIDE DEF c, row
  <2>2. call'[h] = Idle BY <1>1, <2>1, OnlyOne
  <2>3. Idle.pc \notin Inserting \cup Inserted BY DEF Idle, Inserting, Inserted
  <2> QED BY <1>1, <1>4, <1>5, <1>6, <1>7, <1>8, <2>1, <2>2, <2>3, IdleFits, SaveRow
<1> QED BY <1>9, <1>10

LEMMA SaveMoveKeeps ==
    ASSUME ShotInv, NEW h \in Handlers, SaveMove(h)
    PROVE  ShotInv'
<1> DEFINE s == call[h].shot
<1>1. /\ TypeOK /\ call[h].pc = "saveMove" /\ SaveExecution(s, call[h].rec)
      /\ UNCHANGED <<runs, candidates, limit, usage, billed, budgeted>>
      /\ call' = [call EXCEPT ![h] = Idle]
      /\ selected' = IF call[h].rec.primary THEN selected \cup {s} ELSE selected
  BY DEF SaveMove, ShotInv, Return
<1>2. /\ s \in Shots /\ call[h].rec.current <= Len(runs[s])
      /\ call[h].rec.status \notin {"none", "submitted_for_review"}
  BY <1>1 DEF ShotInv, SavesFit, Moving
<1>3. call[h].pc \notin Inserted BY <1>1 DEF Inserted
<1>4. call'[h] = Idle /\ call[h].rec \in Executions /\ Idle \in CallRecords
  BY <1>1, OnlyOne, ShotFacts
<1>5. selected \subseteq selected' /\ selected' \subseteq Shots
      /\ (call[h].rec.primary => s \in selected')
  BY <1>1, <1>2 DEF TypeOK
<1>6. Idle.pc \notin Inserting \cup Inserted BY DEF Idle, Inserting, Inserted
<1> QED BY <1>1, <1>2, <1>3, <1>4, <1>5, <1>6, IdleFits, SaveRow

LEMMA SubmitKeeps ==
    ASSUME ShotInv, NEW h \in Handlers, Submit(h)
    PROVE  ShotInv'
<1> DEFINE s == call[h].shot
<1>1. /\ TypeOK /\ call[h].pc = "submit" /\ SaveExecution(s, call[h].rec)
      /\ UNCHANGED <<runs, candidates, limit, usage, billed, budgeted, selected>>
      /\ call' = [call EXCEPT ![h] = Idle]
  BY DEF Submit, ShotInv, Return, facts
<1>2. /\ s \in Shots /\ call[h].rec.current <= Len(runs[s])
      /\ call[h].rec.status = "submitted_for_review" /\ s \in selected /\ s \in candidates
  BY <1>1 DEF ShotInv, SavesFit, Gating
<1>3. call[h].pc \notin Inserted BY <1>1 DEF Inserted
<1>4. call'[h] = Idle /\ call[h].rec \in Executions /\ Idle \in CallRecords
  BY <1>1, OnlyOne, ShotFacts
<1>5. selected \subseteq Shots BY <1>1 DEF TypeOK
<1>6. Idle.pc \notin Inserting \cup Inserted BY DEF Idle, Inserting, Inserted
<1> QED BY <1>1, <1>2, <1>3, <1>4, <1>5, <1>6, IdleFits, SaveRow

LEMMA SaveCandidateKeeps ==
    ASSUME ShotInv, NEW h \in Handlers, SaveCandidate(h)
    PROVE  ShotInv'
<1> DEFINE c == [call[h] EXCEPT !.pc = "saveMove"]
<1>1. /\ TypeOK /\ call[h].pc = "saveCandidate"
      /\ candidates' = candidates \cup {call[h].shot}
      /\ UNCHANGED <<executions, runs, limit, usage, billed, selected, budgeted>>
      /\ call' = [call EXCEPT ![h] = c]
  BY DEF SaveCandidate, ShotInv, Goto, facts
<1>2. SavesFit(h) BY DEF ShotInv
<1>3. /\ call[h].shot \in Shots /\ call[h].rec.current <= Len(runs[call[h].shot])
      /\ call[h].rec.status \notin {"none", "submitted_for_review"}
  BY <1>1, <1>2 DEF SavesFit, Moving
<1>4. /\ c \in CallRecords /\ c.pc = "saveMove" /\ c.shot = call[h].shot /\ c.rec = call[h].rec
  BY <1>1, ShotFacts DEF CallRecords, PCs
<1> HIDE DEF c
<1>5. OnlyCall(h) /\ call'[h] = c BY <1>1, OnlyOne
<1>6. c.pc \notin Inserting \cup Inserted /\ call[h].pc \notin Inserted
  BY <1>1, <1>4 DEF Inserting, Inserted
<1>7. SavesFit(h)' BY <1>1, <1>3, <1>4, <1>5 DEF SavesFit, Inserting, Inserted, Moving, Gating
<1>8. NumberFits(h)' BY <1>4, <1>5 DEF NumberFits, Inserting, Inserted
<1>9. TypeOK' BY <1>1, <1>3, <1>4 DEF TypeOK, CallRecords
<1>10. ChargesFit' BY <1>1, <1>5, <1>6, ChargesStay
<1>11. RowsFit' /\ (budgeted => limit # 0)' BY <1>1 DEF ShotInv, RowsFit
<1>12. SubmittedIsGated' BY <1>1 DEF ShotInv, SubmittedIsGated
<1> QED BY <1>1, <1>5, <1>6, <1>7, <1>8, <1>9, <1>10, <1>11, <1>12, SaveStep

(* The limit is set, or saved back as it was read. *)
LEMMA LimitKeeps ==
    ASSUME ShotInv, NEW h \in Handlers, SetBudget(h) \/ SaveBudget(h)
    PROVE  ShotInv'
<1> DEFINE c == IF call[h].pc = "setBudget" THEN Idle ELSE [call[h] EXCEPT !.pc = "recordUsage"]
<1>1. /\ TypeOK /\ call[h].pc \in {"setBudget", "saveBudget"}
      /\ limit' \in {limit, call[h].limit}
      /\ UNCHANGED <<executions, runs, candidates, usage, billed, selected, budgeted>>
      /\ call' = [call EXCEPT ![h] = c]
  BY DEF SetBudget, SaveBudget, ShotInv, Goto, Return, facts
<1>2. SavesFit(h) /\ NumberFits(h) BY DEF ShotInv
<1>3. call[h].limit # 0 BY <1>1, <1>2 DEF SavesFit
<1>4. call[h].limit \in Limits \cup {0} /\ Idle \in CallRecords /\ call[h] \in CallRecords
  BY <1>1, ShotFacts
<1>5. c \in CallRecords BY <1>4 DEF CallRecords, PCs
<1>6. OnlyCall(h) /\ call'[h] = c BY <1>1, OnlyOne
<1>7. TypeOK' BY <1>1, <1>4, <1>5 DEF TypeOK, CallRecords
<1>8. (budgeted => limit # 0)' BY <1>1, <1>3 DEF ShotInv
<1>9. RowsFit' /\ SubmittedIsGated' BY <1>1 DEF ShotInv, RowsFit, SubmittedIsGated
<1>10. CASE call[h].pc = "setBudget"
  <2>1. call'[h] = Idle BY <1>6, <1>10
  <2>2. Idle.pc \notin Inserting \cup Inserted /\ call[h].pc \notin Inserted
    BY <1>10 DEF Idle, Inserting, Inserted
  <2>3. ChargesFit' BY <1>1, <1>6, <2>1, <2>2, ChargesStay
  <2> HIDE DEF c
  <2> QED BY <1>1, <1>6, <1>7, <1>8, <1>9, <2>1, <2>2, <2>3, IdleFits, SaveStep
<1>11. CASE call[h].pc = "saveBudget"
  <2>1. /\ c.pc = "recordUsage" /\ c.shot = call[h].shot /\ c.rec = call[h].rec
        /\ c.cost = call[h].cost /\ c.number = call[h].number
    BY <1>4, <1>11 DEF CallRecords
  <2> HIDE DEF c
  <2>2. call[h].pc \in Inserted /\ c.pc \in Inserted /\ c.pc \notin Inserting
    BY <1>11, <2>1 DEF Inserted, Inserting
  <2>3. Charge(h)' = Charge(h) BY <1>6, <2>1 DEF Charge
  <2>4. SavesFit(h)'
    BY <1>1, <1>2, <1>6, <2>1, <2>2 DEF SavesFit, Moving, Gating
  <2>5. NumberFits(h)'
    BY <1>1, <1>2, <1>6, <1>11, <2>1, <2>2, <2>3 DEF NumberFits
  <2>6. ChargesFit' BY <1>1, <1>6, <2>2, <2>3, ChargesStay
  <2> QED BY <1>1, <1>6, <1>7, <1>8, <1>9, <2>2, <2>3, <2>4, <2>5, <2>6, SaveStep
<1> QED BY <1>1, <1>10, <1>11

(* What is true of a request that has a run it has not finished. *)
LEMMA InsertedFacts ==
    ASSUME ShotInv, NEW h \in Handlers, call[h].pc \in Inserted
    PROVE  /\ Charge(h) \in Charges /\ Charge(h) = <<call[h].shot, call[h].number>>
           /\ call[h].shot \in Shots /\ call[h].number \in RunNumbers
           /\ call[h].number >= 1 /\ call[h].number <= Len(runs[call[h].shot])
           /\ runs[call[h].shot][call[h].number].cost = call[h].cost
           /\ usage[Charge(h)] = (IF call[h].pc = "recordEvent" THEN call[h].cost ELSE 0)
           /\ billed[Charge(h)] = 0
<1>1. SavesFit(h) /\ NumberFits(h) /\ TypeOK BY DEF ShotInv
<1>2. call[h].shot \in Shots BY <1>1 DEF SavesFit
<1>3. call[h].number \in RunNumbers \cup {0} /\ call[h].number \in Nat BY <1>1, ShotFacts
<1>4. call[h].number >= 1 BY <1>1 DEF NumberFits
<1>5. call[h].number \in RunNumbers BY <1>3, <1>4
<1> QED BY <1>1, <1>2, <1>4, <1>5 DEF NumberFits, Charge, Charges

LEMMA RecordUsageKeeps ==
    ASSUME ShotInv, NEW h \in Handlers, RecordUsage(h)
    PROVE  ShotInv'
<1> DEFINE c == [call[h] EXCEPT !.pc = "recordEvent"]
<1>1. /\ TypeOK /\ call[h].pc = "recordUsage"
      /\ usage' = [usage EXCEPT ![Charge(h)] = @ + call[h].cost]
      /\ UNCHANGED <<executions, runs, candidates, limit, billed, selected, budgeted>>
      /\ call' = [call EXCEPT ![h] = c]
  BY DEF RecordUsage, ShotInv, Goto, facts
<1>2. SavesFit(h) /\ NumberFits(h) BY DEF ShotInv
<1>3. call[h].pc \in Inserted BY <1>1 DEF Inserted
<1>4. call[h] \in CallRecords /\ call[h].cost \in Nat BY <1>1, ShotFacts
<1>5. /\ c \in CallRecords /\ c.pc = "recordEvent" /\ c.shot = call[h].shot
      /\ c.rec = call[h].rec /\ c.cost = call[h].cost /\ c.number = call[h].number
  BY <1>4 DEF CallRecords, PCs
<1> HIDE DEF c
<1>6. OnlyCall(h) /\ call'[h] = c BY <1>1, OnlyOne
<1>7. Charge(h)' = Charge(h) BY <1>5, <1>6 DEF Charge
<1>8. c.pc \in Inserted /\ c.pc \notin Inserting BY <1>5 DEF Inserted, Inserting
<1>9. \A d \in Charges : usage'[d] = IF d = Charge(h) THEN call[h].cost ELSE usage[d]
  <2>1. usage[Charge(h)] = 0 /\ Charge(h) \in Charges BY <1>1, <1>3, InsertedFacts
  <2>2. usage \in [Charges -> Nat] BY <1>1 DEF TypeOK
  <2> QED BY <1>1, <1>4, <2>1, <2>2
<1>10. TypeOK'
  <2>1. usage' \in [Charges -> Nat]
    <3>1. usage[Charge(h)] + call[h].cost \in Nat BY <1>1, <1>3, <1>4, InsertedFacts
    <3> QED BY <1>1, <3>1 DEF TypeOK
  <2> QED BY <1>1, <1>5, <2>1 DEF TypeOK, CallRecords
<1>11. \A g \in Handlers : g # h /\ call[g].pc \in Inserted =>
            usage'[Charge(g)] = usage[Charge(g)] /\ billed'[Charge(g)] = billed[Charge(g)]
  BY <1>1, <1>3, <1>9, InsertedFacts DEF ShotInv, OneRequestPerRun
<1>12. SavesFit(h)' BY <1>1, <1>2, <1>3, <1>5, <1>6, <1>8 DEF SavesFit, Moving, Gating
<1>13. NumberFits(h)'
  BY <1>1, <1>2, <1>3, <1>5, <1>6, <1>7, <1>8, <1>9, InsertedFacts DEF NumberFits
<1>14. ChargesFit'
  <2> SUFFICES ASSUME NEW s \in Shots, NEW n \in RunNumbers
               PROVE  ChargeFits(s, n)'
    BY DEF ChargesFit
  <2>0. ChargeFits(s, n) BY DEF ShotInv, ChargesFit
  <2>1. <<s, n>> \in Charges BY DEF Charges
  <2>2. CASE <<s, n>> = Charge(h)
    <3>1. s = call[h].shot /\ n = call[h].number BY <2>2 DEF Charge
    <3>2. ~Settled(s, n)' BY <1>6, <1>7, <1>8, <2>2 DEF Settled
    <3>3. n <= Len(runs[s]) /\ runs[s][n].cost = call[h].cost /\ billed[<<s, n>>] = 0
      BY <1>3, <2>2, <3>1, InsertedFacts
    <3>4. n \in Nat /\ Len(runs[s]) \in Nat BY <1>1, ShotFacts, NumbersAreNumbers
    <3> QED BY <1>1, <1>9, <2>1, <2>2, <3>2, <3>3, <3>4 DEF ChargeFits
  <2>3. CASE <<s, n>> # Charge(h)
    <3>1. usage'[<<s, n>>] = usage[<<s, n>>] BY <1>9, <2>1, <2>3
    <3>2. Settled(s, n)' => Settled(s, n)
      <4> SUFFICES ASSUME Settled(s, n)', NEW g \in Handlers, call[g].pc \in Inserted
                   PROVE  Charge(g) # <<s, n>>
        BY DEF Settled
      <4>1. CASE g = h BY <2>3, <4>1
      <4>2. CASE g # h
        <5>1. call'[g] = call[g] /\ Charge(g)' = Charge(g) BY <1>6, <4>2 DEF OnlyCall, Charge
        <5> QED BY <5>1 DEF Settled
      <4> QED BY <4>1, <4>2
    <3> QED BY <1>1, <2>0, <3>1, <3>2 DEF ChargeFits
  <2> QED BY <2>2, <2>3
<1>15. RowsFit' /\ SubmittedIsGated' /\ (budgeted => limit # 0)'
  BY <1>1 DEF ShotInv, RowsFit, SubmittedIsGated
<1> QED BY <1>1, <1>3, <1>6, <1>7, <1>8, <1>10, <1>11, <1>12, <1>13, <1>14, <1>15, SaveStep

LEMMA RecordEventKeeps ==
    ASSUME ShotInv, NEW h \in Handlers, RecordEvent(h)
    PROVE  ShotInv'
<1>1. /\ TypeOK /\ call[h].pc = "recordEvent"
      /\ billed' = [billed EXCEPT ![Charge(h)] = @ + call[h].cost]
      /\ UNCHANGED <<executions, runs, candidates, limit, usage, selected, budgeted>>
      /\ call' = [call EXCEPT ![h] = Idle]
  BY DEF RecordEvent, ShotInv, Return, facts
<1>2. call[h].pc \in Inserted BY <1>1 DEF Inserted
<1>3. call[h].cost \in Nat /\ Idle \in CallRecords BY <1>1, ShotFacts
<1>4. OnlyCall(h) /\ call'[h] = Idle BY <1>1, OnlyOne
<1>5. Idle.pc \notin Inserting \cup Inserted BY DEF Idle, Inserting, Inserted
<1>6. \A d \in Charges : billed'[d] = IF d = Charge(h) THEN call[h].cost ELSE billed[d]
  <2>1. billed[Charge(h)] = 0 /\ Charge(h) \in Charges BY <1>2, InsertedFacts
  <2>2. billed \in [Charges -> Nat] BY <1>1 DEF TypeOK
  <2> QED BY <1>1, <1>3, <2>1, <2>2
<1>7. TypeOK'
  <2>1. billed' \in [Charges -> Nat]
    <3>1. billed[Charge(h)] + call[h].cost \in Nat BY <1>2, <1>3, InsertedFacts
    <3> QED BY <1>1, <3>1 DEF TypeOK
  <2> QED BY <1>1, <1>3, <2>1 DEF TypeOK, CallRecords
<1>8. \A g \in Handlers : g # h /\ call[g].pc \in Inserted =>
            usage'[Charge(g)] = usage[Charge(g)] /\ billed'[Charge(g)] = billed[Charge(g)]
  BY <1>1, <1>2, <1>6, InsertedFacts DEF ShotInv, OneRequestPerRun
<1>9. ChargesFit'
  <2> SUFFICES ASSUME NEW s \in Shots, NEW n \in RunNumbers
               PROVE  ChargeFits(s, n)'
    BY DEF ChargesFit
  <2>0. ChargeFits(s, n) BY DEF ShotInv, ChargesFit
  <2>1. <<s, n>> \in Charges BY DEF Charges
  <2>2. CASE <<s, n>> = Charge(h)
    <3>1. s = call[h].shot /\ n = call[h].number BY <2>2 DEF Charge
    <3>2. runs[s][n].cost = call[h].cost /\ usage[<<s, n>>] = call[h].cost
      BY <1>1, <1>2, <2>2, <3>1, InsertedFacts
    <3>3. billed'[<<s, n>>] = call[h].cost BY <1>6, <2>1, <2>2
    <3> QED BY <1>1, <2>0, <2>2, <3>2, <3>3 DEF ChargeFits
  <2>3. CASE <<s, n>> # Charge(h)
    <3>1. billed'[<<s, n>>] = billed[<<s, n>>] BY <1>6, <2>1, <2>3
    <3>2. Settled(s, n)' => Settled(s, n)
      <4> SUFFICES ASSUME Settled(s, n)', NEW g \in Handlers, call[g].pc \in Inserted
                   PROVE  Charge(g) # <<s, n>>
        BY DEF Settled
      <4>1. CASE g = h BY <2>3, <4>1
      <4>2. CASE g # h
        <5>1. call'[g] = call[g] /\ Charge(g)' = Charge(g) BY <1>4, <4>2 DEF OnlyCall, Charge
        <5> QED BY <5>1 DEF Settled
      <4> QED BY <4>1, <4>2
    <3> QED BY <1>1, <2>0, <3>1, <3>2 DEF ChargeFits
  <2> QED BY <2>2, <2>3
<1>10. RowsFit' /\ SubmittedIsGated' /\ (budgeted => limit # 0)'
  BY <1>1 DEF ShotInv, RowsFit, SubmittedIsGated
<1> QED BY <1>1, <1>2, <1>4, <1>5, <1>7, <1>8, <1>9, <1>10, IdleFits, SaveStep

LEMMA InsertRunKeeps ==
    ASSUME ShotInv, NEW h \in Handlers, InsertRun(h)
    PROVE  ShotInv'
<1> DEFINE s == call[h].shot
           n == call[h].number
           run == [number |-> n, cost |-> call[h].cost]
           c == [call[h] EXCEPT !.pc = "saveCurrent"]
<1>1. /\ TypeOK /\ call[h].pc = "insertRun"
      /\ UNCHANGED <<executions, candidates, limit, usage, billed, selected, budgeted>>
  BY DEF InsertRun, ShotInv, facts
<1>2. call[h].pc \in Inserting /\ call[h].pc \notin Inserted BY <1>1 DEF Inserting, Inserted
<1>3. CASE ~NumberIsFree(s, n)
  <2>1. Return(h) /\ UNCHANGED tables BY <1>1, <1>3 DEF InsertRun, tables, facts
  <2> QED BY <1>2, <2>1, ReturnStep
<1>4. CASE NumberIsFree(s, n)
  <2>1. /\ runs' = [runs EXCEPT ![s] = Append(@, run)]
        /\ call' = [call EXCEPT ![h] = c]
    BY <1>4 DEF InsertRun, Goto
  <2>2. SavesFit(h) /\ NumberFits(h) BY DEF ShotInv
  <2>3. /\ s \in Shots /\ call[h].rec.status = "in_progress"
        /\ call[h].rec.current <= Len(runs[s])
        /\ call[h].rec.primary => s \in selected
    BY <1>2, <2>2 DEF SavesFit
  <2>4. n >= 1 /\ n <= Len(runs[s]) + 1 /\ call[h].cost \in Costs
    BY <1>1, <1>2, <2>2 DEF NumberFits
  <2>5. /\ n \in Nat /\ call[h].rec.current \in Nat
        /\ runs[s] \in Seq(RunRecords) /\ Len(runs[s]) \in Nat
        /\ \A i \in 1..Len(runs[s]) : runs[s][i].number = i
    <3>1. /\ n \in Nat /\ call[h].rec.current \in Nat /\ runs[s] \in Seq(RunRecords)
          /\ Len(runs[s]) \in Nat
      BY <1>1, <2>3, ShotFacts
    <3> QED BY <2>3, <3>1 DEF ShotInv, RunNumbersDense
  (* A number that is free and at most the next one is the next one. *)
  <2>6. n = Len(runs[s]) + 1
    <3>1. Numbers(runs[s]) = 1..Len(runs[s]) BY <2>5, NextOfDense
    <3>2. n \notin 1..Len(runs[s]) BY <1>4, <3>1 DEF NumberIsFree
    <3> QED BY <2>4, <2>5, <3>2
  <2>7. n \in RunNumbers BY <1>2, <2>4, <2>5, RoomForNumber
  <2>8. run \in RunRecords BY <2>4, <2>7 DEF RunRecords
  <2>9. /\ c \in CallRecords /\ c.pc = "saveCurrent" /\ c.shot = s /\ c.rec = call[h].rec
        /\ c.cost = call[h].cost /\ c.number = n
    BY <1>1, ShotFacts DEF CallRecords, PCs
  <2>10. run.number = n /\ run.cost = call[h].cost OBVIOUS
  <2> HIDE DEF c, run
  <2>11. /\ runs'[s] = Append(runs[s], run) /\ runs'[s] \in Seq(RunRecords)
         /\ Len(runs'[s]) = Len(runs[s]) + 1
         /\ \A i \in 1..Len(runs[s]) : runs'[s][i] = runs[s][i]
         /\ runs'[s][n] = run
    <3>1. runs'[s] = Append(runs[s], run) BY <1>1, <2>1, <2>3, ShotFacts
    <3> QED BY <2>5, <2>6, <2>8, <3>1, AppendProperties
  <2>12. \A x \in Shots : x # s => runs'[x] = runs[x] BY <1>1, <2>1, ShotFacts
  <2>13. \A x \in Shots : Len(runs[x]) \in Nat BY <1>1, ShotFacts
  <2>14. RunsGrow BY <2>11, <2>12, <2>13 DEF RunsGrow
  <2>15. OnlyCall(h) /\ call'[h] = c BY <1>1, <2>1, OnlyOne
  <2>16. c.pc \in Inserted /\ c.pc \notin Inserting BY <2>9 DEF Inserted, Inserting
  <2>17. Charge(h)' = <<s, n>> BY <2>9, <2>15 DEF Charge
  <2>18. TypeOK'
    <3>1. runs' \in [Shots -> Seq(RunRecords)]
      BY <1>1, <2>1, <2>3, <2>11, ShotFacts DEF TypeOK, RunRecords
    <3> QED BY <1>1, <2>1, <2>9, <3>1 DEF TypeOK, CallRecords, RunRecords
  (* The run takes the room of the request that inserts it. *)
  <2>19. NumbersSuffice'
    <3> SUFFICES ASSUME NEW x \in Shots
                 PROVE  Len(runs'[x]) + Cardinality(Pending(x)') < MaxRuns + Cardinality(Handlers)
      BY DEF NumbersSuffice
    <3>1. Len(runs[x]) + Cardinality(Pending(x)) < MaxRuns + Cardinality(Handlers)
      BY DEF ShotInv, NumbersSuffice
    <3>2. IsFiniteSet(Pending(x)) /\ Cardinality(Pending(x)) \in Nat
      <4>1. Pending(x) \in SUBSET Handlers BY DEF Pending
      <4> QED BY <4>1, FS_Subset, FS_CardinalityType
    <3>3. CASE x = s
      <4>1. h \in Pending(x) BY <1>2, <3>3 DEF Pending
      <4>2. Pending(x)' = Pending(x) \ {h} BY <2>15, <2>16 DEF Pending, OnlyCall
      <4>3. Cardinality(Pending(x)') = Cardinality(Pending(x)) - 1
        BY <3>2, <4>1, <4>2, FS_RemoveElement, ZenonT(60)
      <4>4. Len(runs'[x]) = Len(runs[x]) + 1 /\ Len(runs[x]) \in Nat BY <2>5, <2>11, <3>3
      <4> QED BY <3>1, <3>2, <3>3, <4>3, <4>4, NumbersAreNumbers
    <3>4. CASE x # s
      <4>1. Pending(x)' = Pending(x) BY <2>15, <2>16, <3>4 DEF Pending, OnlyCall
      <4> QED BY <2>12, <3>1, <3>4, <4>1
    <3> QED BY <3>3, <3>4
  <2>20. RunNumbersDense'
    <3> SUFFICES ASSUME NEW x \in Shots, NEW i \in DOMAIN runs'[x] PROVE runs'[x][i].number = i
      BY DEF RunNumbersDense
    <3>1. CASE x = s
      <4>1. i \in 1..Len(runs[s]) + 1 BY <2>5, <2>11, <3>1
      <4>2. CASE i = n BY <2>10, <2>11, <3>1, <4>2
      <4>3. CASE i # n
        <5>1. i \in 1..Len(runs[s]) BY <2>5, <2>6, <4>1, <4>3
        <5> QED BY <2>5, <2>11, <3>1, <5>1
      <4> QED BY <4>2, <4>3
    <3>2. CASE x # s BY <2>12, <3>2 DEF ShotInv, RunNumbersDense
    <3> QED BY <3>1, <3>2
  <2>21. SavesFit(h)'
    <3>1. c.rec.current <= Len(runs'[s]) BY <2>3, <2>5, <2>9, <2>11
    <3> QED BY <1>1, <2>3, <2>9, <2>15, <3>1 DEF SavesFit, Inserting, Inserted, Moving, Gating
  (* Nothing was charged for a run that was not recorded. *)
  <2>22. usage[<<s, n>>] = 0 /\ billed[<<s, n>>] = 0
    <3>1. ChargeFits(s, n) BY <2>3, <2>7 DEF ShotInv, ChargesFit
    <3>2. n > Len(runs[s]) BY <2>5, <2>6
    <3> QED BY <3>1, <3>2 DEF ChargeFits
  <2>23. NumberFits(h)'
    <3>1. n <= Len(runs'[s]) BY <2>5, <2>6, <2>11
    <3>2. runs'[s][n].cost = call[h].cost BY <2>10, <2>11
    <3> QED BY <1>1, <2>4, <2>9, <2>15, <2>16, <2>17, <2>22, <3>1, <3>2 DEF NumberFits
  <2>24. \A g \in Handlers : SavesFit(g)' /\ NumberFits(g)'
    BY <1>1, <2>14, <2>15, <2>21, <2>23, OthersSave, OthersNumber
  <2>25. OneRequestPerRun'
    <3>1. \A g \in Handlers : g # h => call'[g] = call[g] /\ Charge(g)' = Charge(g)
      BY <2>15 DEF OnlyCall, Charge
    <3>2. \A g \in Handlers : call[g].pc \in Inserted => Charge(g) # <<s, n>>
      <4> SUFFICES ASSUME NEW g \in Handlers, call[g].pc \in Inserted, Charge(g) = <<s, n>>
                   PROVE  FALSE
        OBVIOUS
      <4>1. call[g].shot = s /\ call[g].number = n BY DEF Charge
      <4>2. call[g].number <= Len(runs[s]) BY <4>1, InsertedFacts
      <4> QED BY <2>5, <2>6, <4>1, <4>2
    <3> QED BY <2>17, <3>1, <3>2 DEF ShotInv, OneRequestPerRun
  <2>26. RowsFit'
    <3>1. \A x \in Shots : executions[x].current \in Nat BY <1>1, ShotFacts
    <3>2. \A x \in Shots : Len(runs[x]) <= Len(runs'[x]) /\ Len(runs'[x]) \in Nat
      BY <2>14 DEF RunsGrow
    <3> QED BY <1>1, <2>13, <3>1, <3>2 DEF ShotInv, RowsFit
  <2>27. ChargesFit'
    <3> SUFFICES ASSUME NEW x \in Shots, NEW i \in RunNumbers
                 PROVE  ChargeFits(x, i)'
      BY DEF ChargesFit
    <3>0. ChargeFits(x, i) BY DEF ShotInv, ChargesFit
    <3>1. CASE x = s /\ i = n
      <4>1. ~Settled(x, i)' BY <2>15, <2>16, <2>17, <3>1 DEF Settled
      <4>2. n <= Len(runs'[s]) /\ Len(runs'[s]) \in Nat BY <2>5, <2>6, <2>11
      <4> QED BY <1>1, <2>5, <2>22, <3>1, <4>1, <4>2 DEF ChargeFits
    <3>2. CASE ~(x = s /\ i = n)
      <4>1. Settled(x, i)' => Settled(x, i)
        <5> SUFFICES ASSUME Settled(x, i)', NEW g \in Handlers, call[g].pc \in Inserted
                     PROVE  Charge(g) # <<x, i>>
          BY DEF Settled
        <5>1. g # h BY <1>2
        <5>2. call'[g] = call[g] /\ Charge(g)' = Charge(g) BY <2>15, <5>1 DEF OnlyCall, Charge
        <5> QED BY <5>2 DEF Settled
      <4>2. i \in Nat /\ i >= 1 /\ Len(runs[x]) \in Nat BY <2>13, NumbersAreNumbers
      <4>3. CASE x # s BY <1>1, <2>12, <3>0, <4>1, <4>3 DEF ChargeFits
      <4>4. CASE x = s
        <5>1. i <= Len(runs'[s]) <=> i <= Len(runs[s]) BY <2>5, <2>6, <2>11, <3>2, <4>2, <4>4
        <5>2. i > Len(runs'[s]) => i > Len(runs[s]) BY <2>5, <2>11, <4>2
        <5>3. i <= Len(runs[s]) => runs'[s][i] = runs[s][i] BY <2>5, <2>11, <4>2
        <5> QED BY <1>1, <3>0, <4>1, <4>4, <5>1, <5>2, <5>3 DEF ChargeFits
      <4> QED BY <4>3, <4>4
    <3> QED BY <3>1, <3>2
  <2>28. (budgeted => limit # 0)' /\ SubmittedIsGated'
    BY <1>1 DEF ShotInv, SubmittedIsGated
  <2> QED BY <2>18, <2>19, <2>20, <2>24, <2>25, <2>26, <2>27, <2>28 DEF ShotInv
<1> QED BY <1>3, <1>4

-----------------------------------------------------------------------------
(* Every state. *)

LEMMA InitFits == Init => ShotInv
<1> SUFFICES ASSUME Init PROVE ShotInv
  OBVIOUS
<1>1. /\ executions = [s \in Shots |-> Missing] /\ runs = [s \in Shots |-> <<>>]
      /\ candidates = {} /\ limit \in Limits \cup {0} /\ selected = {}
      /\ budgeted = (limit # 0)
      /\ usage = [d \in Charges |-> 0] /\ billed = [d \in Charges |-> 0]
      /\ call = [h \in Handlers |-> Idle]
  BY DEF Init
<1>2. TypeOK
  <2>1. Missing \in Executions BY DEF Missing, Executions, Statuses
  <2>2. Idle \in CallRecords BY <2>1 DEF Idle, CallRecords, PCs
  <2>3. <<>> \in Seq(RunRecords) OBVIOUS
  <2>4. executions \in [Shots -> Executions] /\ call \in [Handlers -> CallRecords]
        /\ runs \in [Shots -> Seq(RunRecords)]
    BY <1>1, <2>1, <2>2, <2>3
  <2>5. usage \in [Charges -> Nat] /\ billed \in [Charges -> Nat] BY <1>1
  <2>6. budgeted \in BOOLEAN BY <1>1
  <2>7. \A s \in Shots : executions[s] = Missing BY <1>1
  <2> QED BY <1>1, <2>4, <2>5, <2>6, <2>7 DEF TypeOK, CallRecords, RunRecords
<1>3. \A h \in Handlers : call[h] = Idle BY <1>1
<1>4. \A h \in Handlers : call[h].pc \notin Inserting \cup Inserted \cup Moving \cup Gating
                          /\ call[h].pc = "idle"
  BY <1>3 DEF Idle, Inserting, Inserted, Moving, Gating
<1>5. \A h \in Handlers : SavesFit(h) BY <1>4 DEF SavesFit
<1>6. \A h \in Handlers : NumberFits(h) BY <1>4 DEF NumberFits, Inserted
<1>7. \A s \in Shots : runs[s] = <<>> /\ Len(runs[s]) = 0 BY <1>1
<1>8. NumbersSuffice
  <2> SUFFICES ASSUME NEW s \in Shots
               PROVE  Len(runs[s]) + Cardinality(Pending(s)) < MaxRuns + Cardinality(Handlers)
    BY DEF NumbersSuffice
  <2>1. Pending(s) = {} BY <1>4 DEF Pending
  <2>2. Cardinality(Pending(s)) = 0 BY <2>1, FS_EmptySet
  <2> QED BY <1>7, <2>2, NumbersAreNumbers
<1>9. RunNumbersDense
  <2>1. \A s \in Shots : DOMAIN runs[s] = {} BY <1>7
  <2> QED BY <2>1 DEF RunNumbersDense
<1>10. OneRequestPerRun BY <1>4 DEF OneRequestPerRun
<1>11. \A s \in Shots : executions[s].current = 0 /\ executions[s].primary = FALSE
                        /\ executions[s].status = "none"
  BY <1>1 DEF Missing
<1>12. RowsFit BY <1>7, <1>11 DEF RowsFit
<1>13. ChargesFit
  <2> SUFFICES ASSUME NEW s \in Shots, NEW n \in RunNumbers PROVE ChargeFits(s, n)
    BY DEF ChargesFit
  <2>1. <<s, n>> \in Charges BY DEF Charges
  <2>2. usage[<<s, n>>] = 0 /\ billed[<<s, n>>] = 0 BY <1>1, <2>1
  <2>3. ~(n <= Len(runs[s])) BY <1>7, NumbersAreNumbers
  <2> QED BY <2>2, <2>3 DEF ChargeFits
<1>14. SubmittedIsGated BY <1>11 DEF SubmittedIsGated
<1>15. budgeted => limit # 0 BY <1>1
<1> QED BY <1>2, <1>5, <1>6, <1>8, <1>9, <1>10, <1>12, <1>13, <1>14, <1>15 DEF ShotInv

LEMMA NextKeeps == ShotInv /\ [Next]_vars => ShotInv'
<1> SUFFICES ASSUME ShotInv, [Next]_vars PROVE ShotInv'
  OBVIOUS
<1>1. CASE UNCHANGED vars
  <2>1. UNCHANGED <<executions, runs, candidates, limit, usage, billed, selected, budgeted, call>>
    BY <1>1 DEF vars
  <2>2. TypeOK' BY <2>1 DEF ShotInv, TypeOK
  <2>3. NumbersSuffice'
    <3>1. \A s \in Shots : Pending(s)' = Pending(s) BY <2>1 DEF Pending
    <3> QED BY <2>1, <3>1 DEF ShotInv, NumbersSuffice
  <2>4. \A h \in Handlers : SavesFit(h)' /\ NumberFits(h)'
    BY <2>1 DEF ShotInv, SavesFit, NumberFits, Charge
  <2>5. OneRequestPerRun' BY <2>1 DEF ShotInv, OneRequestPerRun, Charge
  <2>6. ChargesFit'
    <3>1. \A s \in Shots, n \in RunNumbers : ChargeFits(s, n)' <=> ChargeFits(s, n)
      BY <2>1 DEF ChargeFits, Settled, Charge
    <3> QED BY <3>1 DEF ShotInv, ChargesFit
  <2>7. RunNumbersDense' /\ RowsFit' /\ (budgeted => limit # 0)' /\ SubmittedIsGated'
    BY <2>1 DEF ShotInv, RunNumbersDense, RowsFit, SubmittedIsGated
  <2> QED BY <2>2, <2>3, <2>4, <2>5, <2>6, <2>7 DEF ShotInv
<1>2. CASE Next
  <2>1. PICK h \in Handlers :
          \/ \E s \in Shots :
                \/ \E cost \in Costs : BeginRun(h, s, cost)
                \/ \E move \in Moves : BeginMove(h, s, move)
                \/ BeginSubmit(h, s)
          \/ \E l \in Limits : BeginSetBudget(h, l)
          \/ StartRunStep(h) \/ SubmitStep(h)
          \/ SetBudget(h) \/ SaveCandidate(h) \/ SaveMove(h)
    BY <1>2 DEF Next
  <2>2. CASE \E s \in Shots : \/ \E cost \in Costs : BeginRun(h, s, cost)
                              \/ \E move \in Moves : BeginMove(h, s, move)
                              \/ BeginSubmit(h, s)
    BY <2>2, BeginRunKeeps, BeginMoveKeeps, BeginSubmitKeeps
  <2>3. CASE \E l \in Limits : BeginSetBudget(h, l) BY <2>3, BeginSetBudgetKeeps
  <2>4. CASE StartRunStep(h)
    BY <2>4, NumberRunKeeps, ReadBudgetKeeps, CheckBudgetKeeps, InsertExecutionKeeps,
       InsertRunKeeps, SaveCurrentKeeps, ReserveKeeps, LimitKeeps, RecordUsageKeeps,
       RecordEventKeeps DEF StartRunStep
  <2>5. CASE SubmitStep(h) BY <2>5, GateKeeps, SubmitKeeps DEF SubmitStep
  <2>6. CASE SetBudget(h) BY <2>6, LimitKeeps
  <2>7. CASE SaveCandidate(h) BY <2>7, SaveCandidateKeeps
  <2>8. CASE SaveMove(h) BY <2>8, SaveMoveKeeps
  <2> QED BY <2>1, <2>2, <2>3, <2>4, <2>5, <2>6, <2>7, <2>8
<1> QED BY <1>1, <1>2

(* The run a charge is for, by its number. *)
LEMMA CostOfDense ==
    ASSUME TypeOK, RunNumbersDense, NEW s \in Shots, NEW n \in RunNumbers
    PROVE  CostOf(<<s, n>>) = IF n <= Len(runs[s]) THEN {runs[s][n].cost} ELSE {}
<1>1. n \in Nat /\ n >= 1 BY NumbersAreNumbers
<1>2. runs[s] \in Seq(RunRecords) /\ Len(runs[s]) \in Nat /\ DOMAIN runs[s] = 1..Len(runs[s])
      /\ \A i \in 1..Len(runs[s]) : runs[s][i] \in RunRecords /\ runs[s][i].number = i
  <2>1. runs[s] \in Seq(RunRecords) BY ShotFacts
  <2>2. Len(runs[s]) \in Nat /\ DOMAIN runs[s] = 1..Len(runs[s])
        /\ \A i \in 1..Len(runs[s]) : runs[s][i] \in RunRecords
    BY <2>1
  <2> QED BY <2>1, <2>2 DEF RunNumbersDense
<1> DEFINE recorded == {runs[s][i] : i \in DOMAIN runs[s]} \cap [number : {n}, cost : Costs]
<1>3. recorded = IF n <= Len(runs[s]) THEN {runs[s][n]} ELSE {}
  <2>1. \A i \in 1..Len(runs[s]) : runs[s][i] \in [number : {n}, cost : Costs] <=> i = n
    BY <1>2 DEF RunRecords
  <2> QED BY <1>1, <1>2, <2>1
<1>4. CostOf(<<s, n>>) = {run.cost : run \in recorded} BY DEF CostOf
<1> QED BY <1>3, <1>4

LEMMA ChargesFollow == ShotInv => ChargesMatchRuns
<1> SUFFICES ASSUME ShotInv PROVE ChargesMatchRuns
  OBVIOUS
<1>1. TypeOK /\ RunNumbersDense BY DEF ShotInv
<1>2. ASSUME NEW d \in Charges
      PROVE  /\ usage[d] \in {0} \cup CostOf(d)
             /\ billed[d] \in {0, usage[d]}
             /\ budgeted /\ "budget" \notin Faults /\ ~InProgress(d) =>
                   \A cost \in CostOf(d) : usage[d] = cost /\ billed[d] = cost
  <2>1. PICK s \in Shots, n \in RunNumbers : d = <<s, n>> BY DEF Charges
  <2>2. CostOf(d) = IF n <= Len(runs[s]) THEN {runs[s][n].cost} ELSE {}
    BY <1>1, <2>1, CostOfDense
  <2>3. ChargeFits(s, n) BY DEF ShotInv, ChargesFit
  <2>4. n \in Nat /\ Len(runs[s]) \in Nat BY <1>1, ShotFacts, NumbersAreNumbers
  <2>5. ~InProgress(d) => Settled(s, n)
    BY <2>1 DEF InProgress, Settled, Inserted
  <2>6. usage[d] \in {0} \cup CostOf(d)
    BY <2>1, <2>2, <2>3, <2>4 DEF ChargeFits
  <2>7. billed[d] \in {0, usage[d]} BY <2>1, <2>3 DEF ChargeFits
  <2>8. budgeted /\ "budget" \notin Faults /\ ~InProgress(d) =>
            \A cost \in CostOf(d) : usage[d] = cost /\ billed[d] = cost
    BY <2>1, <2>2, <2>3, <2>5 DEF ChargeFits
  <2> QED BY <2>6, <2>7, <2>8
<1>3. \A s \in Shots : executions[s].current \in {0} \cup Numbers(runs[s])
  <2> SUFFICES ASSUME NEW s \in Shots PROVE executions[s].current \in {0} \cup Numbers(runs[s])
    OBVIOUS
  <2>1. runs[s] \in Seq(RunRecords) /\ executions[s].current \in Nat /\ Len(runs[s]) \in Nat
    BY <1>1, ShotFacts
  <2>2. \A i \in 1..Len(runs[s]) : runs[s][i].number = i BY <1>1, <2>1 DEF RunNumbersDense
  <2>3. Numbers(runs[s]) = 1..Len(runs[s]) BY <2>1, <2>2, NextOfDense
  <2>4. executions[s].current <= Len(runs[s]) BY DEF ShotInv, RowsFit
  <2> QED BY <2>1, <2>3, <2>4
<1> QED BY <1>2, <1>3 DEF ChargesMatchRuns

-----------------------------------------------------------------------------
(* What is spent, and what the requests the budget let pass will spend. *)

(* The requests that the budget has let pass and that have not charged yet.*)
Passed == {"insertExecution", "insertRun", "saveCurrent", "reserve", "saveBudget",
           "recordUsage"}
Ahead == [h \in Handlers |-> IF call[h].pc \in Passed THEN call[h].cost ELSE 0]

(* What is spent and what they are about to spend is bounded; before there *)
(* is a budget nothing is spent, and no budget is taken away again.        *)
SpendBound == Max(Limits \cup Costs) + (Cardinality(Handlers) - 1) * Max(Costs)
SpendInv ==
    "budget" \notin Faults =>
        /\ Spent + SumFunction(Ahead) <= SpendBound
        /\ limit = 0 => Spent = 0
        /\ \A h \in Handlers : call[h].pc \in {"saveBudget", "recordUsage"} => limit # 0

(* The greatest of a finite set of numbers. *)
LEMMA MaxIs ==
    ASSUME NEW S, IsFiniteSet(S), S \subseteq Nat, S # {}
    PROVE  Max(S) \in S /\ \A y \in S : Max(S) >= y
BY GreatestExists DEF Max

(* The bounds are numbers, and what a request may cost is within them. *)
LEMMA Bounds ==
    /\ Max(Costs) \in Nat /\ \A c \in Costs \cup {0} : c \in Nat /\ c <= Max(Costs)
    /\ Max(Limits \cup Costs) \in Nat /\ Max(Costs) <= Max(Limits \cup Costs)
    /\ \A l \in Limits \cup {0} : l \in Nat /\ l <= Max(Limits \cup Costs)
    /\ Cardinality(Handlers) \in Nat
<1>1. Max(Costs) \in Costs /\ \A c \in Costs : Max(Costs) >= c BY MaxIs
<1>2. IsFiniteSet(Limits \cup Costs) BY FS_Union
<1>3. Limits \cup Costs \subseteq Nat /\ Limits \cup Costs # {} OBVIOUS
<1>4. /\ Max(Limits \cup Costs) \in Limits \cup Costs
      /\ \A c \in Limits \cup Costs : Max(Limits \cup Costs) >= c
  BY <1>2, <1>3, MaxIs
<1>5. Max(Costs) \in Nat /\ Max(Limits \cup Costs) \in Nat BY <1>1, <1>3, <1>4
<1>6. \A c \in Costs \cup {0} : c \in Nat /\ c <= Max(Costs) BY <1>1, <1>5
<1>7. \A l \in Limits \cup {0} : l \in Nat /\ l <= Max(Limits \cup Costs) BY <1>4, <1>5
<1>8. Max(Costs) <= Max(Limits \cup Costs) BY <1>1, <1>4, <1>5
<1> QED BY <1>5, <1>6, <1>7, <1>8, FS_CardinalityType

(* What is spent is the total of the charges, of which there are so many.  *)
LEMMA SpentIs ==
    ASSUME usage \in [Charges -> Nat]
    PROVE  IsFiniteSet(Charges) /\ Spent = SumFunction(usage) /\ Spent \in Nat
<1>1. IsFiniteSet(RunNumbers) BY NumbersAreNumbers, FS_Interval DEF RunNumbers
<1>2. IsFiniteSet(Charges) BY <1>1, ShotsAssumption, FS_Product DEF Charges
<1>3. Spent = SumFunction(usage) BY DEF Spent
<1>4. SumFunction(usage) \in Nat BY <1>2, TotalIsSum, SumsAreNumbers
<1> QED BY <1>2, <1>3, <1>4

(* No request is about to spend more than the greatest cost. *)
LEMMA AheadIs ==
    ASSUME TypeOK
    PROVE  /\ Ahead \in [Handlers -> Nat] /\ \A h \in Handlers : Ahead[h] <= Max(Costs)
           /\ SumFunction(Ahead) \in Nat
<1>1. \A h \in Handlers : call[h].cost \in Costs \cup {0} BY DEF TypeOK
<1>2. \A h \in Handlers : call[h].cost \in Nat /\ call[h].cost <= Max(Costs)
  BY <1>1, Bounds
<1>3. Ahead \in [Handlers -> Nat] BY <1>2 DEF Ahead
<1>4. \A h \in Handlers : Ahead[h] <= Max(Costs) BY <1>2, Bounds DEF Ahead
<1>5. SumFunction(Ahead) \in Nat BY <1>3, TotalIsSum, SumsAreNumbers
<1> QED BY <1>3, <1>4, <1>5

(* What one request does to what is ahead.                                 *)
LEMMA AheadChanges ==
    ASSUME TypeOK, TypeOK', NEW h \in Handlers, OnlyCall(h)
    PROVE  /\ SumFunction(Ahead') = SumFunction(Ahead) - Ahead[h] + Ahead'[h]
           /\ SumFunction(Ahead) \in Nat /\ SumFunction(Ahead') \in Nat /\ Ahead[h] \in Nat
           /\ Ahead'[h] \in Nat
           /\ SumFunction(Ahead') <= Ahead'[h] + (Cardinality(Handlers) - 1) * Max(Costs)
<1>1. Ahead \in [Handlers -> Nat] BY AheadIs
<1>2. Ahead' \in [Handlers -> Nat] /\ \A g \in Handlers : Ahead'[g] <= Max(Costs)
  <2>1. \A g \in Handlers : call'[g].cost \in Costs \cup {0} BY DEF TypeOK
  <2>2. \A g \in Handlers : call'[g].cost \in Nat /\ call'[g].cost <= Max(Costs)
    BY <2>1, Bounds
  <2> QED BY <2>2, Bounds DEF Ahead
<1>3. \A g \in Handlers : g # h => Ahead'[g] = Ahead[g] BY DEF OnlyCall, Ahead
<1>4. /\ SumFunction(Ahead) \in Nat /\ SumFunction(Ahead') \in Nat
      /\ SumFunction(Ahead') = SumFunction(Ahead) - Ahead[h] + Ahead'[h]
  <2> DEFINE a == Ahead
             b == Ahead'
  <2>1. a \in [Handlers -> Nat] /\ b \in [Handlers -> Nat] BY <1>1, <1>2
  <2>2. \A g \in Handlers : g # h => b[g] = a[g] BY <1>3
  <2> HIDE DEF a, b
  <2>3. /\ SumFunction(a) \in Nat /\ SumFunction(b) \in Nat
        /\ SumFunction(b) = SumFunction(a) - a[h] + b[h]
    BY <2>1, <2>2, TotalReplaced
  <2> QED BY <2>3 DEF a, b
<1>5. SumFunction(Ahead') <= Ahead'[h] + (Cardinality(Handlers) - 1) * Max(Costs)
  <2> DEFINE b == Ahead'
             c == Max(Costs)
  <2>1. b \in [Handlers -> Nat] /\ c \in Nat /\ \A g \in Handlers : b[g] <= c BY <1>2, Bounds
  <2> HIDE DEF b, c
  <2>2. SumFunction(b) <= b[h] + (Cardinality(Handlers) - 1) * c BY <2>1, TotalBounded
  <2> QED BY <2>2 DEF b, c
<1> QED BY <1>1, <1>2, <1>4, <1>5

(* A step that charges nothing and lets no request pass.                   *)
LEMMA SpendStays ==
    ASSUME ShotInv, TypeOK', SpendInv, NEW h \in Handlers, OnlyCall(h), usage' = usage,
           limit' = limit \/ limit' # 0,
           call'[h].pc \in Passed =>
               call'[h].cost = 0 \/ (call[h].pc \in Passed /\ call'[h].cost = call[h].cost),
           call'[h].pc \in {"saveBudget", "recordUsage"} => limit' # 0
    PROVE  SpendInv'
<1> SUFFICES ASSUME "budget" \notin Faults
             PROVE  /\ Spent' + SumFunction(Ahead)' <= SpendBound
                    /\ limit' = 0 => Spent' = 0
                    /\ \A g \in Handlers :
                          call'[g].pc \in {"saveBudget", "recordUsage"} => limit' # 0
  BY DEF SpendInv, SpendBound
<1>1. TypeOK BY DEF ShotInv
<1>2. /\ SumFunction(Ahead') = SumFunction(Ahead) - Ahead[h] + Ahead'[h]
      /\ SumFunction(Ahead) \in Nat /\ Ahead[h] \in Nat /\ Ahead'[h] \in Nat
  BY <1>1, AheadChanges
<1>3. Ahead'[h] <= Ahead[h] BY <1>2 DEF Ahead
<1>4. Spent' = Spent BY DEF Spent
<1>5. Spent \in Nat BY <1>1, SpentIs DEF TypeOK
<1>6. SpendBound \in Int BY Bounds DEF SpendBound
<1>7. Spent + SumFunction(Ahead) <= SpendBound /\ (limit = 0 => Spent = 0) BY DEF SpendInv
<1>8. Spent' + SumFunction(Ahead)' <= SpendBound BY <1>2, <1>3, <1>4, <1>5, <1>6, <1>7
<1>9. \A g \in Handlers : call'[g].pc \in {"saveBudget", "recordUsage"} => limit' # 0
  BY DEF SpendInv, OnlyCall
<1> QED BY <1>4, <1>7, <1>8, <1>9

(* The budget lets a request pass.                                         *)
LEMMA PassedSpends ==
    ASSUME ShotInv, TypeOK', SpendInv, NEW h \in Handlers, OnlyCall(h), usage' = usage,
           limit' = limit, call'[h].cost = call[h].cost,
           call'[h].pc \in {"insertRun", "insertExecution"},
           "budget" \notin Faults => Spent + call[h].cost <= Max(Limits \cup Costs)
    PROVE  SpendInv'
<1> SUFFICES ASSUME "budget" \notin Faults
             PROVE  /\ Spent' + SumFunction(Ahead)' <= SpendBound
                    /\ limit' = 0 => Spent' = 0
                    /\ \A g \in Handlers :
                          call'[g].pc \in {"saveBudget", "recordUsage"} => limit' # 0
  BY DEF SpendInv, SpendBound
<1>1. TypeOK BY DEF ShotInv
<1> DEFINE others == (Cardinality(Handlers) - 1) * Max(Costs)
<1>2. others \in Int BY Bounds
<1>3. SumFunction(Ahead') <= Ahead'[h] + others /\ SumFunction(Ahead') \in Nat /\ Ahead'[h] \in Nat
  BY <1>1, AheadChanges
<1>4. Ahead'[h] = call[h].cost BY DEF Ahead, Passed
<1>5. Spent' = Spent BY DEF Spent
<1>6. Spent \in Nat BY <1>1, SpentIs DEF TypeOK
<1>7. SpendBound = Max(Limits \cup Costs) + others BY DEF SpendBound
<1>8. Max(Limits \cup Costs) \in Nat BY Bounds
<1> HIDE DEF others
<1>9. Spent' + SumFunction(Ahead)' <= SpendBound
  BY <1>2, <1>3, <1>4, <1>5, <1>6, <1>7, <1>8
<1>10. \A g \in Handlers : call'[g].pc \in {"saveBudget", "recordUsage"} => limit' # 0
  BY DEF SpendInv, OnlyCall
<1> QED BY <1>5, <1>9, <1>10 DEF SpendInv

(* A request charges what it was about to spend.                           *)
LEMMA RecordUsageSpends ==
    ASSUME ShotInv, TypeOK', SpendInv, NEW h \in Handlers, RecordUsage(h)
    PROVE  SpendInv'
<1> SUFFICES ASSUME "budget" \notin Faults
             PROVE  /\ Spent' + SumFunction(Ahead)' <= SpendBound
                    /\ limit' = 0 => Spent' = 0
                    /\ \A g \in Handlers :
                          call'[g].pc \in {"saveBudget", "recordUsage"} => limit' # 0
  BY DEF SpendInv, SpendBound
<1>1. TypeOK /\ NumberFits(h) /\ SavesFit(h) BY DEF ShotInv
<1>2. call' = [call EXCEPT ![h] = [call[h] EXCEPT !.pc = "recordEvent"]]
  BY DEF RecordUsage, Goto
<1>3. OnlyCall(h) /\ call'[h] = [call[h] EXCEPT !.pc = "recordEvent"] BY <1>1, <1>2, OnlyOne
<1>4. call[h] \in CallRecords BY <1>1, ShotFacts
<1>5. call'[h].pc = "recordEvent" BY <1>3, <1>4 DEF CallRecords
<1>6. /\ SumFunction(Ahead') = SumFunction(Ahead) - Ahead[h] + Ahead'[h]
      /\ SumFunction(Ahead) \in Nat /\ Ahead[h] \in Nat /\ Ahead'[h] \in Nat
  BY <1>1, <1>3, AheadChanges
<1>7. Ahead'[h] = 0 /\ Ahead[h] = call[h].cost BY <1>5 DEF Ahead, Passed, RecordUsage
<1>8. Charge(h) \in Charges
  <2>1. call[h].pc \in Inserting \cup Inserted \cup Moving \cup Gating /\ call[h].pc \in Inserted
    BY DEF RecordUsage, Inserted
  <2>2. call[h].shot \in Shots BY <1>1, <2>1 DEF SavesFit
  <2>3. call[h].number >= 1 BY <1>1, <2>1 DEF NumberFits
  <2>4. call[h].number \in RunNumbers \cup {0} BY <1>1, ShotFacts
  <2>5. call[h].number \in RunNumbers BY <2>3, <2>4
  <2> QED BY <2>2, <2>5 DEF Charge, Charges
<1>9. Spent' = Spent + call[h].cost /\ Spent \in Nat /\ call[h].cost \in Nat
  <2> DEFINE u == usage
             v == usage'
             x == Charge(h)
  <2>1. u \in [Charges -> Nat] /\ v \in [Charges -> Nat] /\ x \in Charges
    BY <1>1, <1>8 DEF TypeOK
  <2>2. v[x] = u[x] + call[h].cost /\ \A y \in Charges : y # x => v[y] = u[y]
    BY <2>1 DEF RecordUsage
  <2>3. IsFiniteSet(Charges) /\ Spent = SumFunction(u) BY <2>1, SpentIs
  <2>4. Spent' = SumFunction(v) BY DEF Spent
  <2>5. u[x] \in Nat /\ call[h].cost \in Nat BY <1>1, <2>1, ShotFacts
  <2> HIDE DEF u, v, x
  <2>6. SumFunction(v) = SumFunction(u) - u[x] + v[x] /\ SumFunction(u) \in Nat
    BY <2>1, <2>2, <2>3, TotalReplaced
  <2> QED BY <2>2, <2>3, <2>4, <2>5, <2>6
<1>10. SpendBound \in Int BY Bounds DEF SpendBound
<1>11. Spent + SumFunction(Ahead) <= SpendBound BY DEF SpendInv
<1>12. Spent' + SumFunction(Ahead)' <= SpendBound BY <1>6, <1>7, <1>9, <1>10, <1>11
<1>13. limit # 0 /\ limit' = limit BY DEF SpendInv, RecordUsage
<1>14. \A g \in Handlers : call'[g].pc \in {"saveBudget", "recordUsage"} => limit' # 0
  BY <1>13
<1> QED BY <1>12, <1>13, <1>14

(* Without a budget nothing is spent yet, so what passes is within a cost. *)
LEMMA ReadBudgetSpends ==
    ASSUME ShotInv, TypeOK', SpendInv, NEW h \in Handlers, ReadBudget(h)
    PROVE  SpendInv'
<1>1. PICK seen \in ReadLimit :
        call' = [call EXCEPT ![h] = [call[h] EXCEPT !.limit = seen,
                    !.pc = IF seen = 0 THEN Saving(h) ELSE "check"]]
  BY ShotFacts DEF ReadBudget, ShotInv, CallRecords
<1>2. UNCHANGED <<usage, limit>> BY DEF ReadBudget, tables
<1>3. TypeOK BY DEF ShotInv
<1>4. /\ OnlyCall(h)
      /\ call'[h] = [call[h] EXCEPT !.limit = seen,
                        !.pc = IF seen = 0 THEN Saving(h) ELSE "check"]
  BY <1>1, <1>3, OnlyOne
<1>5. call[h] \in CallRecords BY <1>3, ShotFacts
<1>6. /\ call'[h].cost = call[h].cost
      /\ call'[h].pc = IF seen = 0 THEN Saving(h) ELSE "check"
  BY <1>4, <1>5 DEF CallRecords
<1>7. CASE seen = 0
  <2>1. "budget" \notin Faults => Spent + call[h].cost <= Max(Limits \cup Costs)
    <3> SUFFICES ASSUME "budget" \notin Faults
                 PROVE  Spent + call[h].cost <= Max(Limits \cup Costs)
      OBVIOUS
    <3>1. limit = 0 BY <1>7 DEF ReadLimit, Reads
    <3>2. Spent = 0 BY <3>1 DEF SpendInv
    <3>3. call[h].cost \in Costs \cup {0} BY <1>5 DEF CallRecords
    <3>4. call[h].cost \in Nat /\ call[h].cost <= Max(Costs) BY <3>3, Bounds
    <3> QED BY <3>2, <3>4, Bounds
  <2>2. call'[h].pc \in {"insertRun", "insertExecution"} BY <1>6, <1>7, SavingPoint
  <2> QED BY <1>2, <1>4, <1>6, <2>1, <2>2, PassedSpends
<1>8. CASE seen # 0
  <2>1. call'[h].pc \notin Passed BY <1>6, <1>8 DEF Passed
  <2>2. call'[h].pc \notin {"saveBudget", "recordUsage"} BY <1>6, <1>8
  <2> QED BY <1>2, <1>4, <2>1, <2>2, SpendStays
<1> QED BY <1>7, <1>8

(* What the check lets pass is within the limit that was read. *)
LEMMA CheckBudgetSpends ==
    ASSUME ShotInv, TypeOK', SpendInv, NEW h \in Handlers, CheckBudget(h)
    PROVE  SpendInv'
<1>1. UNCHANGED <<usage, limit>> BY DEF CheckBudget, tables
<1>2. TypeOK BY DEF ShotInv
<1>3. call[h] \in CallRecords BY <1>2, ShotFacts
<1>4. CASE Goto(h, Saving(h)) /\ (Allowed(h) \/ "budget" \in Faults)
  <2>1. call' = [call EXCEPT ![h] = [call[h] EXCEPT !.pc = Saving(h)]] BY <1>4 DEF Goto
  <2>2. OnlyCall(h) /\ call'[h] = [call[h] EXCEPT !.pc = Saving(h)] BY <1>2, <2>1, OnlyOne
  <2>3. call'[h].cost = call[h].cost /\ call'[h].pc = Saving(h) BY <1>3, <2>2 DEF CallRecords
  <2>4. call'[h].pc \in {"insertRun", "insertExecution"} BY <2>3, SavingPoint
  <2>5. "budget" \notin Faults => Spent + call[h].cost <= Max(Limits \cup Costs)
    <3> SUFFICES ASSUME Allowed(h) PROVE Spent + call[h].cost <= Max(Limits \cup Costs)
      BY <1>4
    <3>1. call[h].limit \in Limits \cup {0} /\ call[h].cost \in Nat BY <1>2, ShotFacts
    <3>2. call[h].limit \in Nat /\ call[h].limit <= Max(Limits \cup Costs) BY <3>1, Bounds
    <3>3. Spent \in Nat BY <1>2, SpentIs DEF TypeOK
    <3> QED BY <3>1, <3>2, <3>3, Bounds DEF Allowed
  <2> QED BY <1>1, <2>2, <2>3, <2>4, <2>5, PassedSpends
<1>5. CASE Return(h)
  <2>1. OnlyCall(h) /\ call'[h] = Idle BY <1>2, <1>5, OnlyOne DEF Return
  <2>2. call'[h].pc \notin Passed /\ call'[h].pc \notin {"saveBudget", "recordUsage"}
    BY <2>1 DEF Idle, Passed
  <2> QED BY <1>1, <2>1, <2>2, SpendStays
<1> QED BY <1>4, <1>5 DEF CheckBudget

(* A request that ends, begins or goes on where nothing is charged.        *)
LEMMA OutsideSpends ==
    ASSUME ShotInv, TypeOK', SpendInv, NEW h \in Handlers, OnlyCall(h), usage' = usage,
           limit' = limit \/ limit' # 0, call'[h].pc \notin Passed
    PROVE  SpendInv'
BY SpendStays DEF Passed

(* A request that ends. *)
LEMMA ReturnSpends ==
    ASSUME ShotInv, TypeOK', SpendInv, NEW h \in Handlers, Return(h), usage' = usage,
           limit' = limit \/ limit' # 0
    PROVE  SpendInv'
<1>1. TypeOK BY DEF ShotInv
<1>2. OnlyCall(h) /\ call'[h] = Idle BY <1>1, OnlyOne DEF Return
<1> QED BY <1>2, OutsideSpends DEF Idle, Passed

(* A request that goes on to a point with what it holds.                   *)
LEMMA GotoSpends ==
    ASSUME ShotInv, TypeOK', SpendInv, NEW h \in Handlers, NEW pc, Goto(h, pc), usage' = usage,
           limit' = limit \/ limit' # 0, pc \in Passed => call[h].pc \in Passed,
           pc \in {"saveBudget", "recordUsage"} => limit' # 0
    PROVE  SpendInv'
<1>1. TypeOK BY DEF ShotInv
<1>2. OnlyCall(h) /\ call'[h] = [call[h] EXCEPT !.pc = pc]
  BY <1>1, OnlyOne DEF Goto
<1>3. call[h] \in CallRecords BY <1>1, ShotFacts
<1>4. call'[h].pc = pc /\ call'[h].cost = call[h].cost BY <1>2, <1>3 DEF CallRecords
<1> QED BY <1>2, <1>4, SpendStays

(* A request that begins. *)
LEMMA BeginSpends ==
    ASSUME ShotInv, TypeOK', SpendInv, NEW h \in Handlers, UNCHANGED tables,
           NEW c, call' = [call EXCEPT ![h] = c], c.pc \notin Passed
    PROVE  SpendInv'
<1>1. TypeOK BY DEF ShotInv
<1>2. OnlyCall(h) /\ call'[h] = c BY <1>1, OnlyOne
<1>3. usage' = usage /\ limit' = limit BY DEF tables
<1> QED BY <1>2, <1>3, OutsideSpends

LEMMA BeginRunSpends ==
    ASSUME ShotInv, TypeOK', SpendInv, NEW h \in Handlers,
           NEW s \in Shots, NEW cost \in Costs, BeginRun(h, s, cost)
    PROVE  SpendInv'
<1>1. PICK rec \in ReadExecution(s) :
        call' = [call EXCEPT ![h] =
                   [Idle EXCEPT !.pc = "number", !.shot = s, !.cost = cost,
                                !.found = (rec # Missing), !.rec = Started(rec)]]
  BY DEF BeginRun
<1> DEFINE c == [Idle EXCEPT !.pc = "number", !.shot = s, !.cost = cost,
                             !.found = (rec # Missing), !.rec = Started(rec)]
<1>2. c.pc \notin Passed BY DEF Idle, Passed
<1>3. call' = [call EXCEPT ![h] = c] /\ UNCHANGED tables BY <1>1 DEF BeginRun
<1> HIDE DEF c
<1> QED BY <1>2, <1>3, BeginSpends

LEMMA BeginMoveSpends ==
    ASSUME ShotInv, TypeOK', SpendInv, NEW h \in Handlers,
           NEW s \in Shots, NEW move \in Moves, BeginMove(h, s, move)
    PROVE  SpendInv'
<1> DEFINE c == [Idle EXCEPT !.pc = IF move = "candidate" THEN "saveCandidate" ELSE "saveMove",
                             !.shot = s, !.rec = Moved(executions[s], move)]
<1>1. c.pc \notin Passed BY DEF Idle, Passed
<1>2. call' = [call EXCEPT ![h] = c] /\ UNCHANGED tables BY DEF BeginMove
<1> HIDE DEF c
<1> QED BY <1>1, <1>2, BeginSpends

LEMMA BeginSubmitSpends ==
    ASSUME ShotInv, TypeOK', SpendInv, NEW h \in Handlers, NEW s \in Shots, BeginSubmit(h, s)
    PROVE  SpendInv'
<1> DEFINE c == [Idle EXCEPT !.pc = "gateRow", !.shot = s,
                             !.rec = [executions[s] EXCEPT !.status = "submitted_for_review"]]
<1>1. c.pc \notin Passed BY DEF Idle, Passed
<1>2. call' = [call EXCEPT ![h] = c] /\ UNCHANGED tables BY DEF BeginSubmit
<1> HIDE DEF c
<1> QED BY <1>1, <1>2, BeginSpends

LEMMA BeginSetBudgetSpends ==
    ASSUME ShotInv, TypeOK', SpendInv, NEW h \in Handlers,
           NEW l \in Limits, BeginSetBudget(h, l)
    PROVE  SpendInv'
<1>1. PICK seen \in ReadLimit :
        call' = [call EXCEPT ![h] = [Idle EXCEPT !.pc = "setBudget", !.limit = l,
                                                 !.found = (seen # 0)]]
  BY DEF BeginSetBudget
<1> DEFINE c == [Idle EXCEPT !.pc = "setBudget", !.limit = l, !.found = (seen # 0)]
<1>2. c.pc \notin Passed BY DEF Idle, Passed
<1>3. call' = [call EXCEPT ![h] = c] /\ UNCHANGED tables BY <1>1 DEF BeginSetBudget
<1> HIDE DEF c
<1> QED BY <1>2, <1>3, BeginSpends

(* A run that costs nothing passes the budget by.                          *)
LEMMA NumberRunSpends ==
    ASSUME ShotInv, TypeOK', SpendInv, NEW h \in Handlers, NumberRun(h)
    PROVE  SpendInv'
<1>1. TypeOK BY DEF ShotInv
<1>2. call[h] \in CallRecords /\ call[h].cost \in Nat BY <1>1, ShotFacts
<1> DEFINE next == CASE call[h].cost > 0 -> "readLimit"
                     [] call[h].cost = 0 /\ call[h].found -> "insertRun"
                     [] OTHER -> "insertExecution"
<1>3. PICK list \in IF call[h].found THEN ReadRuns(call[h].shot) ELSE {<<>>} :
        call' = [call EXCEPT ![h].number = NextNumber(list), ![h].pc = next]
  BY DEF NumberRun
<1>4. next \notin {"saveBudget", "recordUsage"} /\ (next \in Passed => call[h].cost = 0)
  BY <1>2 DEF Passed
<1> HIDE DEF next
<1>5. call' = [call EXCEPT ![h] = [[call[h] EXCEPT !.number = NextNumber(list)] EXCEPT !.pc = next]]
  BY <1>1, <1>3, ShotFacts
<1>6. /\ OnlyCall(h)
      /\ call'[h] = [[call[h] EXCEPT !.number = NextNumber(list)] EXCEPT !.pc = next]
  BY <1>1, <1>5, OnlyOne
<1>7. call'[h].pc = next /\ call'[h].cost = call[h].cost BY <1>2, <1>6 DEF CallRecords
<1>8. usage' = usage /\ limit' = limit BY DEF NumberRun, tables
<1> QED BY <1>4, <1>6, <1>7, <1>8, SpendStays

(* A budget is saved back only if one was read. *)
LEMMA ReserveSpends ==
    ASSUME ShotInv, TypeOK', SpendInv, NEW h \in Handlers, Reserve(h)
    PROVE  SpendInv'
<1>1. TypeOK BY DEF ShotInv
<1>2. call[h] \in CallRecords /\ call[h].pc = "reserve" BY <1>1, ShotFacts DEF Reserve
<1>3. usage' = usage /\ limit' = limit BY DEF Reserve, tables
<1>4. PICK seen \in ReadLimit :
        \/ seen = 0 /\ Return(h)
        \/ /\ seen # 0
           /\ call' = [call EXCEPT ![h] = [call[h] EXCEPT !.pc = "saveBudget", !.limit = seen]]
  BY <1>1, ShotFacts DEF Reserve, CallRecords
<1>5. CASE seen = 0 /\ Return(h) BY <1>3, <1>5, ReturnSpends
<1>6. CASE seen # 0
  <2>1. limit # 0 BY <1>6 DEF ReadLimit, Reads
  <2>2. OnlyCall(h) /\ call'[h] = [call[h] EXCEPT !.pc = "saveBudget", !.limit = seen]
    BY <1>1, <1>4, <1>6, OnlyOne
  <2>3. call'[h].cost = call[h].cost BY <1>2, <2>2 DEF CallRecords
  <2> QED BY <1>2, <1>3, <2>1, <2>2, <2>3, SpendStays DEF Passed
<1> QED BY <1>4, <1>5, <1>6

(* A budget that is saved, as a client set it or as it was read, is one.   *)
LEMMA LimitSpends ==
    ASSUME ShotInv, TypeOK', SpendInv, NEW h \in Handlers, SaveBudget(h) \/ SetBudget(h)
    PROVE  SpendInv'
<1>1. SavesFit(h) BY DEF ShotInv
<1>2. CASE SaveBudget(h)
  <2>1. limit' # 0 BY <1>1, <1>2 DEF SaveBudget, SavesFit
  <2> QED BY <1>2, <2>1, GotoSpends DEF SaveBudget, Passed
<1>3. CASE SetBudget(h)
  <2>1. limit' # 0 BY <1>1, <1>3 DEF SetBudget, SavesFit
  <2> QED BY <1>3, <2>1, ReturnSpends DEF SetBudget
<1> QED BY <1>2, <1>3

LEMMA InsertExecutionSpends ==
    ASSUME ShotInv, TypeOK', SpendInv, NEW h \in Handlers, InsertExecution(h)
    PROVE  SpendInv'
<1>1. usage' = usage /\ limit' = limit BY DEF InsertExecution
<1>2. CASE Goto(h, "insertRun") BY <1>1, <1>2, GotoSpends DEF InsertExecution, Passed
<1>3. CASE Return(h) BY <1>1, <1>3, ReturnSpends
<1> QED BY <1>2, <1>3 DEF InsertExecution

LEMMA InsertRunSpends ==
    ASSUME ShotInv, TypeOK', SpendInv, NEW h \in Handlers, InsertRun(h)
    PROVE  SpendInv'
<1>1. usage' = usage /\ limit' = limit BY DEF InsertRun
<1>2. CASE Goto(h, "saveCurrent") BY <1>1, <1>2, GotoSpends DEF InsertRun, Passed
<1>3. CASE Return(h) BY <1>1, <1>3, ReturnSpends
<1> QED BY <1>2, <1>3 DEF InsertRun

LEMMA SaveCurrentSpends ==
    ASSUME ShotInv, TypeOK', SpendInv, NEW h \in Handlers, SaveCurrent(h)
    PROVE  SpendInv'
<1>1. usage' = usage /\ limit' = limit BY DEF SaveCurrent
<1>2. CASE Goto(h, "reserve") BY <1>1, <1>2, GotoSpends DEF SaveCurrent, Passed
<1>3. CASE Return(h) BY <1>1, <1>3, ReturnSpends
<1> QED BY <1>2, <1>3 DEF SaveCurrent

LEMMA LastStepsSpend ==
    ASSUME ShotInv, TypeOK', SpendInv, NEW h \in Handlers,
           RecordEvent(h) \/ SaveMove(h) \/ Submit(h)
    PROVE  SpendInv'
BY ReturnSpends DEF RecordEvent, SaveMove, Submit

LEMMA SaveCandidateSpends ==
    ASSUME ShotInv, TypeOK', SpendInv, NEW h \in Handlers, SaveCandidate(h)
    PROVE  SpendInv'
BY GotoSpends DEF SaveCandidate, Passed

LEMMA GateSpends ==
    ASSUME ShotInv, TypeOK', SpendInv, NEW h \in Handlers,
           GateRow(h) \/ GateCandidates(h) \/ GateLimit(h) \/ GateBudget(h)
    PROVE  SpendInv'
<1>1. usage' = usage /\ limit' = limit
  BY DEF GateRow, GateCandidates, GateLimit, GateBudget, tables
<1>2. CASE Return(h) BY <1>1, <1>2, ReturnSpends
<1>3. CASE \E pc \in {"gateCandidates", "gateLimit", "submit"} : Goto(h, pc)
  BY <1>1, <1>3, GotoSpends DEF Passed
<1>4. CASE GateLimit(h)
  <2>1. TypeOK BY DEF ShotInv
  <2>2. call[h] \in CallRecords BY <2>1, ShotFacts
  <2>3. PICK seen \in ReadLimit :
          call' = [call EXCEPT ![h] = [call[h] EXCEPT !.limit = seen,
                      !.pc = IF seen = 0 THEN "submit" ELSE "gateBudget"]]
    BY <1>4, <2>1, ShotFacts, ZenonT(60) DEF GateLimit, CallRecords
  <2>4. /\ OnlyCall(h)
        /\ call'[h] = [call[h] EXCEPT !.limit = seen,
                          !.pc = IF seen = 0 THEN "submit" ELSE "gateBudget"]
    BY <2>1, <2>3, OnlyOne
  <2>5. call'[h].pc \in {"submit", "gateBudget"} BY <2>2, <2>4 DEF CallRecords
  <2>6. call'[h].pc \notin Passed BY <2>5 DEF Passed
  <2> QED BY <1>1, <2>4, <2>6, OutsideSpends
<1> QED BY <1>2, <1>3, <1>4 DEF GateRow, GateCandidates, GateBudget

(* At first nothing is spent. *)
LEMMA SpendInit == Init => SpendInv
<1> SUFFICES ASSUME Init PROVE SpendInv OBVIOUS
<1>1. TypeOK BY InitFits DEF ShotInv
<1>2. Spent = 0
  <2> DEFINE u == usage
  <2>1. IsFiniteSet(Charges) /\ Spent = SumFunction(u) BY <1>1, SpentIs DEF TypeOK
  <2>2. u \in [Charges -> Nat] /\ \A c \in Charges : u[c] = 0 BY <1>1 DEF Init, TypeOK
  <2> HIDE DEF u
  <2> QED BY <2>1, <2>2, TotalOfNothing
<1>3. \A h \in Handlers : call[h].pc = "idle" BY DEF Init, Idle
<1>4. SumFunction(Ahead) = 0
  <2> DEFINE a == Ahead
  <2>1. a \in [Handlers -> Nat] /\ \A h \in Handlers : a[h] = 0
    BY <1>1, <1>3, AheadIs DEF Ahead, Passed
  <2> HIDE DEF a
  <2>2. SumFunction(a) = 0 BY <2>1, TotalOfNothing
  <2> QED BY <2>2 DEF a
<1>5. SpendBound >= 0
  <2> DEFINE c == Max(Costs)
             n == Cardinality(Handlers)
             m == Max(Limits \cup Costs)
  <2>1. c \in Nat /\ n \in Nat /\ m \in Nat /\ c <= m BY Bounds
  <2>2. SpendBound = m + (n - 1) * c BY DEF SpendBound
  <2> HIDE DEF c, n, m
  <2>3. (n - 1) * c >= 0 - c
    <3>1. (n - 1) * c = n * c - c BY <2>1
    <3>2. n * c \in Nat BY <2>1
    <3> QED BY <2>1, <3>1, <3>2
  <2>4. (n - 1) * c \in Int BY <2>1
  <2> QED BY <2>1, <2>2, <2>3, <2>4
<1> QED BY <1>2, <1>3, <1>4, <1>5 DEF SpendInv

(* Every step keeps what is spent and ahead within the bound. *)
LEMMA SpendKeeps == ShotInv /\ SpendInv /\ [Next]_vars => SpendInv'
<1> SUFFICES ASSUME ShotInv, SpendInv, [Next]_vars PROVE SpendInv'
  OBVIOUS
<1>1. TypeOK' BY NextKeeps DEF ShotInv
<1>2. CASE UNCHANGED vars
  <2>1. /\ Spent' = Spent /\ Ahead' = Ahead /\ limit' = limit /\ call' = call
    BY <1>2 DEF vars, Spent, Ahead
  <2> QED BY <2>1 DEF SpendInv, SpendBound
<1>3. CASE Next
  <2>1. PICK h \in Handlers :
          \/ \E s \in Shots :
                \/ \E cost \in Costs : BeginRun(h, s, cost)
                \/ \E move \in Moves : BeginMove(h, s, move)
                \/ BeginSubmit(h, s)
          \/ \E l \in Limits : BeginSetBudget(h, l)
          \/ StartRunStep(h) \/ SubmitStep(h)
          \/ SetBudget(h) \/ SaveCandidate(h) \/ SaveMove(h)
    BY <1>3 DEF Next
  <2>2. CASE \E s \in Shots : \/ \E cost \in Costs : BeginRun(h, s, cost)
                              \/ \E move \in Moves : BeginMove(h, s, move)
                              \/ BeginSubmit(h, s)
    BY <1>1, <2>2, BeginRunSpends, BeginMoveSpends, BeginSubmitSpends
  <2>3. CASE \E l \in Limits : BeginSetBudget(h, l) BY <1>1, <2>3, BeginSetBudgetSpends
  <2>4. CASE StartRunStep(h)
    BY <1>1, <2>4, NumberRunSpends, ReadBudgetSpends, CheckBudgetSpends, InsertExecutionSpends,
       InsertRunSpends, SaveCurrentSpends, ReserveSpends, LimitSpends, RecordUsageSpends,
       LastStepsSpend DEF StartRunStep
  <2>5. CASE SubmitStep(h) BY <1>1, <2>5, GateSpends, LastStepsSpend DEF SubmitStep
  <2>6. CASE SetBudget(h) BY <1>1, <2>6, LimitSpends
  <2>7. CASE SaveCandidate(h) BY <1>1, <2>7, SaveCandidateSpends
  <2>8. CASE SaveMove(h) BY <1>1, <2>8, LastStepsSpend
  <2> QED BY <2>1, <2>2, <2>3, <2>4, <2>5, <2>6, <2>7, <2>8
<1> QED BY <1>2, <1>3

(* What is spent alone is within it then, too. *)
LEMMA SpendFollows == ShotInv /\ SpendInv => SpendBounded
<1> SUFFICES ASSUME ShotInv, SpendInv, "budget" \notin Faults PROVE Spent <= SpendBound
  BY DEF SpendBounded, SpendBound
<1>1. TypeOK BY DEF ShotInv
<1>2. Spent \in Nat BY <1>1, SpentIs DEF TypeOK
<1>3. SumFunction(Ahead) \in Nat BY <1>1, AheadIs
<1>4. Spent + SumFunction(Ahead) <= SpendBound BY DEF SpendInv
<1>5. SpendBound \in Int BY Bounds DEF SpendBound
<1> QED BY <1>2, <1>3, <1>4, <1>5

-----------------------------------------------------------------------------
(* Theorems. *)

(* What the requests of startRun, setBudget, submit and the other moves     *)
(* hold in memory fits the tables in every state: the numbers they took     *)
(* from stale lists, the rows they will save, the charges they still owe.   *)
THEOREM ShotInvariance == Spec => []ShotInv
<1> QED BY InitFits, NextKeeps, PTL DEF Spec

(* The tables and the requests in progress are typed: a row saved whole     *)
(* from what a request read is a row.                                       *)
THEOREM ShotTyped == Spec => []TypeOK
<1>1. ShotInv => TypeOK BY DEF ShotInv
<1> QED BY <1>1, ShotInvariance, PTL

(* However many requests number runs at once, from lists that are stale or  *)
(* cut short, the runs of a shot are 1, 2, 3, ...: a request that lost the  *)
(* race fails on the unique index of (execution, run number).               *)
THEOREM RunsAreDense == Spec => []RunNumbersDense
<1>1. ShotInv => RunNumbersDense BY DEF ShotInv
<1> QED BY <1>1, ShotInvariance, PTL

(* No stale row a start, a move or a submission saves brings an execution   *)
(* into review that has no candidate or had no primary asset chosen.        *)
THEOREM ReviewIsGated == Spec => []SubmittedIsGated
<1>1. ShotInv => SubmittedIsGated BY DEF ShotInv
<1> QED BY <1>1, ShotInvariance, PTL

(* A run is charged once, with its own cost, and announced as charged only  *)
(* after it is; with a budget from the start and a readable one, no run     *)
(* whose request has ended is left uncharged.                               *)
THEOREM ChargesAgree == Spec => []ChargesMatchRuns
<1> QED BY ChargesFollow, ShotInvariance, PTL

(* While the budget can be read, the charges and what the requests that     *)
(* passed the check are about to charge stay within one limit and a run of  *)
(* every other request; nothing is charged before there is a budget.        *)
THEOREM SpendInvariance == Spec => []SpendInv
<1> QED BY SpendInit, SpendKeeps, ShotInvariance, PTL DEF Spec

(* However many starts race past the check, whatever limits are set between *)
(* the read and the check, overspending is at most the costliest run of     *)
(* every other request.                                                     *)
THEOREM SpendIsBounded == Spec => []SpendBounded
<1> QED BY SpendFollows, SpendInvariance, ShotInvariance, PTL
=============================================================================
