-------------------------- MODULE JoinBatchProofs --------------------------
(***************************************************************************)
(* The batch methods for any number of batches that run together, of any   *)
(* items, with any number of blocking threads and of threads that the      *)
(* operating system refuses.                                               *)
(***************************************************************************)
EXTENDS JoinBatch, FiniteSetTheorems, SequenceTheorems, WellFoundedInduction, TLAPS

-----------------------------------------------------------------------------
(* Data.                                                                   *)

Values == 0..(Word - 1)

LEMMA NatMin ==
  ASSUME NEW T \in SUBSET Nat, T # {}
  PROVE  \E n \in T : \A m \in T : n <= m
<1> DEFINE R == {ss \in Nat \X Nat : ss[1] < ss[2]}
<1>1. IsWellFoundedOn(R, Nat)
  BY NatLessThanWellFounded DEF OpToRel
<1>2. PICK n \in T : \A m \in T : <<m, n>> \notin R
  <2> HIDE DEF R
  <2> QED
    BY <1>1, WFMin
<1>3. \A m \in T : ~(m < n)
  BY <1>2
<1> QED
  BY <1>3

LEMMA ModType ==
  ASSUME NEW n \in Nat
  PROVE  n % Word \in Values
BY BatchAssumption DEF Values

LEMMA TimesNat ==
  ASSUME NEW m \in Nat, NEW n \in Nat
  PROVE  m * n \in Nat
OBVIOUS

LEMMA StepType ==
  ASSUME NEW n \in Values
  PROVE  (n * Multiplier + Increment) % Word \in Values
<1>1. n \in Nat /\ Multiplier \in Nat /\ Increment \in Nat
  BY BatchAssumption DEF Values
<1>2. n * Multiplier \in Nat
  BY <1>1, TimesNat
<1>3. n * Multiplier + Increment \in Nat
  BY <1>1, <1>2
<1> QED
  BY <1>3, ModType

LEMMA SquareType ==
  ASSUME NEW v \in Values
  PROVE  Square(v) \in Values
<1>1. v \in Nat
  BY BatchAssumption DEF Values
<1> QED
  BY <1>1, TimesNat, ModType DEF Square

LEMMA ChainExists ==
  ASSUME NEW v \in Values, NEW k \in Nat
  PROVE  \E f \in [0..k -> Values] :
           /\ f[0] = v
           /\ \A n \in 1..k : f[n] = (f[n - 1] * Multiplier + Increment) % Word
<1> DEFINE Upto(m) == \E f \in [0..m -> Values] :
                        /\ f[0] = v
                        /\ \A n \in 1..m : f[n] = (f[n - 1] * Multiplier + Increment) % Word
           T == {m \in Nat : ~Upto(m)}
<1>1. Upto(0)
  <2> DEFINE f == [n \in 0..0 |-> v]
  <2>1. f \in [0..0 -> Values] /\ f[0] = v /\ 1..0 = {}
    OBVIOUS
  <2> HIDE DEF f
  <2> QED
    BY <2>1
<1>2. ASSUME NEW m \in Nat, Upto(m) PROVE Upto(m + 1)
  <2>1. PICK f \in [0..m -> Values] :
               /\ f[0] = v
               /\ \A n \in 1..m : f[n] = (f[n - 1] * Multiplier + Increment) % Word
    BY <1>2
  <2> DEFINE w == (f[m] * Multiplier + Increment) % Word
             g == [n \in 0..(m + 1) |-> IF n = m + 1 THEN w ELSE f[n]]
  <2>2. w \in Values
    BY <2>1, StepType
  <2> HIDE DEF w
  <2>3. g \in [0..(m + 1) -> Values] /\ g[0] = v
    BY <2>1, <2>2
  <2>4. ASSUME NEW n \in 1..(m + 1)
        PROVE  g[n] = (g[n - 1] * Multiplier + Increment) % Word
    <3>1. n - 1 \in 0..m /\ g[n - 1] = f[n - 1]
      OBVIOUS
    <3>2. CASE n = m + 1
      BY <3>1, <3>2 DEF w
    <3>3. CASE n # m + 1
      BY <2>1, <3>1, <3>3
    <3> QED
      BY <3>2, <3>3
  <2> HIDE DEF g
  <2> QED
    BY <2>3, <2>4
<1> HIDE DEF Upto
<1>3. CASE T # {}
  <2>1. PICK m \in T : \A n \in T : m <= n
    BY <1>3, NatMin
  <2>2. m # 0 /\ m - 1 \in Nat /\ m - 1 \notin T
    BY <1>1, <2>1
  <2>3. Upto(m)
    BY <1>2, <2>2
  <2> QED
    BY <2>1, <2>3
<1>4. CASE T = {}
  BY <1>4 DEF Upto
<1> QED
  BY <1>3, <1>4

LEMMA ChainType ==
  ASSUME NEW v \in Values
  PROVE  Chain(v) \in Values
<1> DEFINE D == 0..Iterations
           Links(x) == [n \in D |-> IF n = 0 THEN v
                                    ELSE (x[n - 1] * Multiplier + Increment) % Word]
           c == CHOOSE x : x = Links(x)
<1>0. Iterations \in Nat
  BY BatchAssumption
<1>1. PICK f \in [D -> Values] :
             /\ f[0] = v
             /\ \A n \in 1..Iterations : f[n] = (f[n - 1] * Multiplier + Increment) % Word
  BY <1>0, ChainExists
<1>2. f = Links(f)
  BY <1>0, <1>1
<1>3. c = Links(c)
  BY <1>2
<1>4. Chain(v) = c[Iterations]
  BY DEF Chain
<1> DEFINE T == {n \in D : c[n] \notin Values}
<1> HIDE DEF c
<1>5. ASSUME T # {} PROVE FALSE
  <2>1. PICK n \in T : \A m \in T : n <= m
    <3>1. T \in SUBSET Nat
      BY <1>0
    <3> HIDE DEF T
    <3> QED
      BY <1>5, <3>1, NatMin
  <2>2. n # 0
    BY <1>3, <2>1
  <2>3. n - 1 \in D /\ c[n - 1] \in Values
    BY <1>0, <2>1, <2>2
  <2>4. c[n] = (c[n - 1] * Multiplier + Increment) % Word
    BY <1>3, <2>1, <2>2
  <2> QED
    BY <2>1, <2>3, <2>4, StepType
<1>6. Iterations \in D
  BY <1>0
<1> QED
  BY <1>4, <1>5, <1>6
LEMMA KeysCover ==
  ASSUME NEW n \in Nat, NEW f \in Injection(1..n, 1..n)
  PROVE  \A i \in 1..n : \E k \in 1..n : f[k] = i
<1>2. IsFiniteSet(1..n)
  BY FS_Interval
<1>3. f \in Surjection(1..n, 1..n)
  BY <1>2, FS_Injection
<1> QED
  BY <1>3 DEF Surjection

LEMMA FewKeys ==
  ASSUME NEW n \in Nat, NEW m \in Nat, NEW f \in Injection(1..m, 1..n)
  PROVE  m <= n
<1>2. /\ IsFiniteSet(1..n)
      /\ Cardinality(1..n) = n /\ Cardinality(1..m) = m
  BY FS_Interval
<1>3. Cardinality(1..m) <= Cardinality(1..n)
  BY <1>2, FS_Injection
<1> QED
  BY <1>2, <1>3

LEMMA RankIsKey ==
  ASSUME NEW n \in Nat, NEW f \in Injection(1..n, 1..n),
         NEW k \in 1..n
  PROVE  Cardinality({j \in 1..n : f[j] < f[k]}) + 1 = f[k]
<1>0. \A i \in 1..n : \E j \in 1..n : f[j] = i
  BY KeysCover
<1>c. f \in [1..n -> 1..n] /\ \A i, j \in 1..n : f[i] = f[j] => i = j
  BY DEF Injection, IsInjective
<1> DEFINE A == {j \in 1..n : f[j] < f[k]}
           L == 1..(f[k] - 1)
           g == [j \in A |-> f[j]]
<1>1. g \in [A -> L] /\ \A i, j \in A : g[i] = g[j] => i = j
  <2>1. f[k] \in 1..n /\ \A j \in A : j \in 1..n /\ f[j] \in 1..n /\ f[j] < f[k]
    BY <1>c
  <2>2. \A j \in A : f[j] \in L
    BY <2>1
  <2> HIDE DEF A, L
  <2> QED
    BY <1>c, <2>1, <2>2
<1>2. \A i \in L : \E j \in A : g[j] = i
  <2> TAKE i \in L
  <2>1. i \in 1..n /\ i < f[k]
    BY <1>c
  <2>2. PICK j \in 1..n : f[j] = i
    BY <1>0, <2>1
  <2> QED
    BY <2>1, <2>2
<1>3. ExistsBijection(A, L)
  <2> HIDE DEF A, L, g
  <2>1. g \in Bijection(A, L)
    BY <1>1, <1>2 DEF Bijection, Injection, Surjection, IsInjective
  <2> QED
    BY <2>1 DEF ExistsBijection
<1>4. IsFiniteSet(A)
  <2>1. IsFiniteSet(1..n) /\ A \in SUBSET (1..n)
    BY FS_Interval
  <2> HIDE DEF A
  <2> QED
    BY <2>1, FS_Subset
<1>5. Cardinality(L) = Cardinality(A)
  <2> HIDE DEF A, L
  <2> QED
    BY <1>3, <1>4, FS_Bijection
<1>6. Cardinality(L) = f[k] - 1
  BY <1>c, FS_Interval
<1> QED
  BY <1>c, <1>5, <1>6

LEMMA SortedIs ==
  ASSUME NEW n \in Nat, NEW s, DOMAIN s = 1..n,
         \A k \in 1..n : s[k][1] \in 1..n,
         \A j, k \in 1..n : s[j][1] = s[k][1] => j = k
  PROVE  /\ Sorted(s) = [i \in 1..n |-> Sorted(s)[i]]
         /\ \A i \in 1..n : \E k \in 1..n : s[k][1] = i /\ Sorted(s)[i] = s[k]
<1> DEFINE f == [k \in 1..n |-> s[k][1]]
           Rank(k) == Cardinality({j \in 1..n : s[j][1] < s[k][1]}) + 1
           c(i) == CHOOSE k \in 1..n : Rank(k) = i
<1>1. f \in Injection(1..n, 1..n)
  BY DEF Injection, IsInjective
<1> HIDE DEF f
<1>2. ASSUME NEW k \in 1..n PROVE Rank(k) = s[k][1]
  <2>1. {j \in 1..n : f[j] < f[k]} = {j \in 1..n : s[j][1] < s[k][1]}
    BY DEF f
  <2>2. Cardinality({j \in 1..n : f[j] < f[k]}) + 1 = f[k]
    BY <1>1, RankIsKey
  <2> QED
    BY <2>1, <2>2 DEF f
<1>3. Sorted(s) = [i \in 1..n |-> s[c(i)]]
  BY DEF Sorted
<1>4. ASSUME NEW i \in 1..n
      PROVE  \E k \in 1..n : s[k][1] = i /\ Sorted(s)[i] = s[k]
  <2>1. PICK k \in 1..n : f[k] = i
    BY <1>1, KeysCover
  <2>2. Rank(k) = i
    BY <1>2, <2>1 DEF f
  <2> HIDE DEF Rank
  <2>3. c(i) \in 1..n /\ Rank(c(i)) = i
    BY <2>2
  <2>4. s[c(i)][1] = i
    BY <1>2, <2>3
  <2>5. Sorted(s)[i] = s[c(i)]
    BY <1>3
  <2> QED
    BY <2>3, <2>4, <2>5
<1> QED
  BY <1>3, <1>4
-----------------------------------------------------------------------------
(* The inductive invariant.                                                *)

States == {"new", "waiting", "done", "panicked", "aborting", "aborted"}
Outcomes == [ok : BOOLEAN, value : Values]

Shape ==
  /\ gil \in Batches \cup {LoopThread, Nobody}
  /\ phase \in [Batches -> {"python", "spawn", "join", "attach", "over"}]
  /\ method \in [Batches -> Methods \cup {"none"}]
  /\ items \in [Batches -> Seq(Values)]
  /\ fail \in [Batches -> FailOn \cup {{}}]
  /\ task \in [Batches -> Seq(States)]
  /\ out \in [Batches -> Seq(Nat \X Outcomes)]
  /\ raised \subseteq Batches
  /\ armed \subseteq Timers
  /\ queued \subseteq Jobs /\ running \subseteq Jobs
  /\ IsFiniteSet(running) /\ Cardinality(running) <= BlockingThreads
  /\ faults \in 0..MaxFaults

\* A task per item, before the first of them is joined.
Spawned(b) ==
  /\ Len(task[b]) <= Len(items[b])
  /\ phase[b] = "python" => task[b] = <<>>
  /\ phase[b] \in {"python", "spawn"} => out[b] = <<>> /\ b \notin raised
  /\ phase[b] \in {"join", "attach", "over"} => Len(task[b]) = Len(items[b])

\* What the end of a task says about it.
Fates(b) ==
  \A i \in DOMAIN task[b] :
    /\ task[b][i] = "done" => ~Fails(b, i)
    /\ task[b][i] = "panicked" => Fails(b, i) \/ method[b] = "map_blocking"
    /\ task[b][i] \in {"aborting", "aborted"} => b \in raised

\* The outcomes joined so far: each of a task of its own that is over, those
\* of run_fallible in the order of the items.
Answers(b) ==
  /\ \A k \in DOMAIN out[b] :
       /\ out[b][k][1] \in DOMAIN task[b]
       /\ out[b][k][2] = Outcome(b, out[b][k][1])
       /\ IF method[b] = "run_fallible"
          THEN out[b][k][1] = k /\ task[b][k] \in {"done", "panicked"}
          ELSE task[b][out[b][k][1]] = "done"
  /\ \A j, k \in DOMAIN out[b] : out[b][j][1] = out[b][k][1] => j = k

InOrder(b) ==
  Ended(b) /\ b \notin raised =>
    out[b] = [i \in 1..Len(items[b]) |-> <<i, Outcome(b, i)>>]

\* An exception stands for a panic, and no task outlives it.
Raises(b) ==
  b \in raised => /\ Ended(b)
                  /\ method[b] # "run_fallible"
                  /\ \E i \in DOMAIN task[b] : task[b][i] = "panicked"
                  /\ \A i \in DOMAIN task[b] : ~Live(task[b][i])

\* A closure belongs to a task that waits for it, or that was aborted.
Pooled(b) ==
  \A i \in Nat \ {0} :
    <<b, i>> \in queued \cup running =>
      i \in DOMAIN task[b] /\ task[b][i] \in {"waiting", "aborted"}

BatchInv(b) == /\ Spawned(b) /\ Fates(b) /\ Answers(b)
               /\ InOrder(b) /\ Raises(b) /\ Pooled(b)

IInv == Shape /\ \A b \in Batches : BatchInv(b)


LEMMA IndicesType == Indices \subseteq Nat \ {0}
<1> DEFINE L == {Len(s) : s \in Inputs}
           R == {Word - n : n \in L}
<1>1. \A n \in L : n \in Nat /\ n <= Word
  BY BatchAssumption, LenProperties
<1>2. Word \in Nat /\ L # {}
  BY BatchAssumption
<1> HIDE DEF L
<1>3. PICK m \in R : \A n \in R : m <= n
  <2>1. R \in SUBSET Nat /\ R # {}
    BY <1>1, <1>2
  <2> HIDE DEF R
  <2> QED
    BY <2>1, NatMin
<1>4. PICK n \in L : m = Word - n
  BY <1>3
<1>5. \A k \in L : k <= n
  BY <1>1, <1>2, <1>3, <1>4
<1>6. \E k \in L : \A s \in Inputs : Len(s) <= k
  BY <1>4, <1>5 DEF L
<1>7. MaxItems \in Nat
  <2>1. MaxItems \in {Len(s) : s \in Inputs}
    BY <1>6 DEF MaxItems, L
  <2> QED
    BY <1>1, <2>1 DEF L
<1> QED
  BY <1>7 DEF Indices
LEMMA OutcomeType ==
  ASSUME NEW b \in Batches, items[b] \in Seq(Values), NEW i \in DOMAIN items[b]
  PROVE  Outcome(b, i) \in Outcomes
<1> DEFINE v == items[b][i]
<1>1. v \in Values /\ 0 \in Values
  BY BatchAssumption, ElementOfSeq, LenProperties DEF Values
<1>2. Chain(v) \in Values /\ Square(v) \in Values
  BY <1>1, ChainType, SquareType
<1> HIDE DEF v
<1> QED
  BY <1>1, <1>2 DEF Outcome, Outcomes, v

\* A step that is none of b's.
Same(b) == /\ phase'[b] = phase[b] /\ method'[b] = method[b]
           /\ items'[b] = items[b] /\ fail'[b] = fail[b]
           /\ task'[b] = task[b] /\ out'[b] = out[b]
           /\ b \in raised' <=> b \in raised
           /\ \A i \in Nat \ {0} :
                <<b, i>> \in queued' \cup running' => <<b, i>> \in queued \cup running

LEMMA OutcomeStays ==
  ASSUME NEW b \in Batches,
         method'[b] = method[b], items'[b] = items[b], fail'[b] = fail[b]
  PROVE  \A i : (Fails(b, i)' <=> Fails(b, i)) /\ Outcome(b, i)' = Outcome(b, i)
BY DEF Outcome, Fails, Chain, Square

LEMMA SameKeeps ==
  ASSUME NEW b \in Batches, BatchInv(b), Same(b)
  PROVE  BatchInv(b)'
<1>1. \A i : (Fails(b, i)' <=> Fails(b, i)) /\ Outcome(b, i)' = Outcome(b, i)
  BY OutcomeStays DEF Same
<1>2. Spawned(b)' /\ Fates(b)' /\ Raises(b)' /\ Pooled(b)'
  BY <1>1 DEF BatchInv, Same, Spawned, Fates, Raises, Pooled, Ended, Live
<1>3. Answers(b)'
  BY <1>1 DEF BatchInv, Same, Answers
<1>4. InOrder(b)'
  BY <1>1 DEF BatchInv, Same, InOrder, Ended
<1> QED
  BY <1>2, <1>3, <1>4 DEF BatchInv

LEMMA InitIInv == Init => IInv
<1> SUFFICES ASSUME Init PROVE IInv
  OBVIOUS
<1>1. Shape
  <2>1. /\ \A b \in Batches : <<>> \in Seq(Values)
        /\ <<>> \in Seq(States) /\ <<>> \in Seq(Nat \X Outcomes)
    BY EmptySeq
  <2>2. IsFiniteSet({}) /\ Cardinality({}) = 0
    BY FS_EmptySet
  <2> QED
    BY <2>1, <2>2, BatchAssumption DEF Init, Shape
<1>2. ASSUME NEW b \in Batches PROVE BatchInv(b)
  BY DEF Init, BatchInv, Spawned, Fates, Answers, InOrder, Raises, Pooled, Ended
<1> QED
  BY <1>1, <1>2 DEF IInv

-----------------------------------------------------------------------------
(* The calling thread keeps it.                                            *)

LEMMA GilKeeps ==
  ASSUME IInv, NEW x \in Batches \cup {LoopThread}, TakeGil(x) \/ DropGil(x)
  PROVE  IInv'
<1>1. Shape'
  BY DEF IInv, Shape, TakeGil, DropGil, call, pool
<1>2. \A b \in Batches : Same(b)
  BY DEF TakeGil, DropGil, call, pool, Same
<1> QED
  BY <1>1, <1>2, SameKeeps DEF IInv

LEMMA NumberedType ==
  ASSUME NEW m \in Methods, NEW s \in Inputs
  PROVE  Numbered(m, s) \in Seq(Values)
<1>1. s \in Seq(Values) /\ Len(s) \in Nat /\ Len(s) <= Word /\ Word \in Nat
  BY BatchAssumption, LenProperties DEF Values
<1>2. [i \in 1..Len(s) |-> i - 1] \in [1..Len(s) -> Values]
  BY <1>1 DEF Values
<1>3. [i \in 1..Len(s) |-> i - 1] \in Seq(Values)
  BY <1>1, <1>2
<1> QED
  BY <1>1, <1>3 DEF Numbered

LEMMA CallKeeps ==
  ASSUME IInv, NEW b \in Batches, NEW m \in Methods, NEW s \in Inputs,
         NEW f \in FailOn \cup {{}}, Call(b, m, s, f)
  PROVE  IInv'
<1> USE DEF Call, pool, Goto
<1>1. Shape'
  BY NumberedType DEF IInv, Shape
<1>2. \A c \in Batches \ {b} : Same(c)
  BY DEF IInv, Shape, Same
<1>3. BatchInv(b)'
  <2>1. /\ task'[b] = <<>> /\ out'[b] = <<>> /\ b \notin raised'
        /\ items[b] \in Seq(Values) /\ items'[b] \in Seq(Values)
    BY <1>1 DEF IInv, BatchInv, Spawned, Shape
  <2>2. \/ phase'[b] = "spawn"
        \/ phase'[b] = "over" /\ items'[b] = <<>>
    BY DEF IInv, Shape, Numbered
  <2>3. Spawned(b)'
    BY <2>1, <2>2, LenProperties DEF Spawned
  <2>4. InOrder(b)'
    BY <2>1, <2>2 DEF InOrder, Ended
  <2>5. Pooled(b)'
    BY DEF IInv, BatchInv, Pooled
  <2> QED
    BY <2>1, <2>3, <2>4, <2>5 DEF BatchInv, Fates, Answers, Raises
<1> QED
  BY <1>1, <1>2, <1>3, SameKeeps DEF IInv

LEMMA SpawnKeeps ==
  ASSUME IInv, NEW b \in Batches, Spawn(b)
  PROVE  IInv'
<1> USE DEF Spawn, call, pool, Goto
<1>0. task[b] \in Seq(States) /\ Len(task[b]) \in Nat /\ Len(items[b]) \in Nat
  BY LenProperties DEF IInv, Shape
<1> DEFINE t == Append(task[b], "new")
<1>a. /\ t \in Seq(States) /\ Len(t) = Len(task[b]) + 1 /\ DOMAIN t = 1..Len(t)
      /\ DOMAIN task[b] = 1..Len(task[b])
      /\ \A i \in 1..Len(task[b]) : t[i] = task[b][i]
      /\ t[Len(task[b]) + 1] = "new"
  BY <1>0, AppendProperties, LenProperties DEF States
<1> HIDE DEF t
<1>1. Shape'
  BY <1>a DEF IInv, Shape, t
<1>2. \A c \in Batches \ {b} : Same(c)
  BY DEF IInv, Shape, Same
<1>3. BatchInv(b)'
  <2>1. \A i : (Fails(b, i)' <=> Fails(b, i))
    BY OutcomeStays
  <2>2. out'[b] = <<>> /\ b \notin raised'
    BY DEF IInv, BatchInv, Spawned
  <2>3. CASE Len(task[b]) < Len(items[b])
    <3>1. task'[b] = t /\ phase'[b] = "spawn" /\ items'[b] = items[b]
      BY <2>3 DEF t, IInv, Shape
    <3>2. Spawned(b)'
      BY <1>0, <1>a, <2>2, <2>3, <3>1 DEF Spawned
    <3>3. Fates(b)'
      BY <1>0, <1>a, <2>1, <3>1 DEF IInv, BatchInv, Fates
    <3>4. Pooled(b)'
      BY <1>0, <1>a, <3>1 DEF IInv, BatchInv, Pooled
    <3> QED
      BY <2>2, <3>1, <3>2, <3>3, <3>4 DEF BatchInv, Answers, InOrder, Raises, Ended
  <2>4. CASE ~(Len(task[b]) < Len(items[b]))
    <3>1. task'[b] = task[b] /\ phase'[b] = "join" /\ items'[b] = items[b]
      BY <2>4 DEF IInv, Shape
    <3>2. Spawned(b)'
      BY <1>0, <2>4, <2>2, <3>1 DEF IInv, BatchInv, Spawned
    <3>3. Fates(b)'
      BY <2>1, <3>1 DEF IInv, BatchInv, Fates
    <3>4. Pooled(b)'
      BY <3>1 DEF IInv, BatchInv, Pooled
    <3> QED
      BY <2>2, <3>1, <3>2, <3>3, <3>4 DEF BatchInv, Answers, InOrder, Raises, Ended
  <2> QED
    BY <2>3, <2>4
<1> QED
  BY <1>1, <1>2, <1>3, SameKeeps DEF IInv

\* One more outcome: of a task that is over, and has not been joined.
LEMMA AnswerKeeps ==
  ASSUME IInv, NEW b \in Batches, phase[b] = "join", NEW i \in DOMAIN task[b],
         i \notin Joined(b),
         IF method[b] = "run_fallible"
         THEN i = Len(out[b]) + 1 /\ task[b][i] \in {"done", "panicked"}
         ELSE task[b][i] = "done",
         out' = [out EXCEPT ![b] = Append(@, <<i, Outcome(b, i)>>)],
         UNCHANGED <<gil, phase, call, task, raised, pool, faults>>
  PROVE  IInv'
<1> USE DEF call, pool
<1> DEFINE o == out[b]  e == <<i, Outcome(b, i)>>  n == Len(o)
<1>0. /\ o \in Seq(Nat \X Outcomes) /\ n \in Nat
      /\ i \in DOMAIN items[b] /\ i \in Nat /\ Len(task[b]) = Len(items[b])
      /\ DOMAIN task[b] = 1..Len(task[b]) /\ Len(task[b]) \in Nat
  BY LenProperties DEF IInv, Shape, BatchInv, Spawned
<1>a. e \in Nat \X Outcomes
  BY <1>0, OutcomeType DEF IInv, Shape
<1> HIDE DEF e
<1>b. /\ Append(o, e) \in Seq(Nat \X Outcomes) /\ DOMAIN Append(o, e) = 1..(n + 1)
      /\ DOMAIN o = 1..n
      /\ \A k \in 1..n : Append(o, e)[k] = o[k]
      /\ Append(o, e)[n + 1] = e
  BY <1>0, <1>a, AppendProperties, LenProperties
<1>c. out'[b] = Append(o, e)
  BY DEF IInv, Shape, e
<1>1. Shape'
  BY <1>b DEF IInv, Shape, e
<1>2. \A c \in Batches \ {b} : Same(c)
  BY DEF IInv, Shape, Same
<1>3. BatchInv(b)'
  <2>1. \A k : (Fails(b, k)' <=> Fails(b, k)) /\ Outcome(b, k)' = Outcome(b, k)
    BY OutcomeStays
  <2>2. Spawned(b)' /\ Fates(b)' /\ InOrder(b)' /\ Raises(b)' /\ Pooled(b)'
    <3>1. Spawned(b)' /\ Pooled(b)'
      BY DEF IInv, BatchInv, Spawned, Pooled
    <3>2. Fates(b)' /\ Raises(b)'
      BY <2>1 DEF IInv, BatchInv, Fates, Raises, Ended
    <3>3. InOrder(b)'
      BY DEF InOrder, Ended
    <3> QED
      BY <3>1, <3>2, <3>3
  <2>3. Answers(b)'
    <3> DEFINE p == Append(o, e)
    <3> HIDE DEF p
    <3>0. /\ DOMAIN p = 1..(n + 1) /\ DOMAIN o = 1..n /\ \A k \in 1..n : p[k] = o[k]
          /\ p[n + 1] = e /\ out'[b] = p
      BY <1>b, <1>c DEF p
    <3>1. \A k \in 1..n :
            /\ o[k][1] \in DOMAIN task[b]
            /\ o[k][2] = Outcome(b, o[k][1])
            /\ IF method[b] = "run_fallible"
               THEN o[k][1] = k /\ task[b][k] \in {"done", "panicked"}
               ELSE task[b][o[k][1]] = "done"
            /\ o[k][1] # i
            /\ \A j \in 1..n : o[j][1] = o[k][1] => j = k
      BY <3>0 DEF IInv, BatchInv, Answers, Joined
    <3>2. e[1] = i /\ e[2] = Outcome(b, i)
      BY DEF e
    <3>3. \A k \in 1..(n + 1) : k \in 1..n \/ k = n + 1
      <4> HIDE DEF n
      <4> QED
        BY <1>0
    <3>4. \A k \in 1..(n + 1) :
            /\ p[k][1] \in DOMAIN task[b]
            /\ p[k][2] = Outcome(b, p[k][1])
            /\ IF method[b] = "run_fallible"
               THEN p[k][1] = k /\ task[b][k] \in {"done", "panicked"}
               ELSE task[b][p[k][1]] = "done"
      BY <3>0, <3>1, <3>2, <3>3
    <3>5. \A j, k \in 1..(n + 1) : p[j][1] = p[k][1] => j = k
      BY <3>0, <3>1, <3>2, <3>3
    <3> QED
      BY <2>1, <3>0, <3>4, <3>5 DEF Answers
  <2> QED
    BY <2>2, <2>3 DEF BatchInv
<1> QED
  BY <1>1, <1>2, <1>3, SameKeeps DEF IInv

LEMMA JoinKeeps ==
  ASSUME IInv, NEW b \in Batches, NEW i \in Indices, Join(b, i)
  PROVE  IInv'
BY AnswerKeeps DEF Join

LEMMA AwaitNextKeeps ==
  ASSUME IInv, NEW b \in Batches, AwaitNext(b)
  PROVE  IInv'
<1> DEFINE i == Len(out[b]) + 1
<1>1. /\ phase[b] = "join" /\ method[b] = "run_fallible"
      /\ i \in DOMAIN task[b] /\ ~Live(task[b][i])
      /\ UNCHANGED <<gil, phase, call, task, raised, pool, faults>>
  BY DEF AwaitNext
<1>2. /\ task[b] \in Seq(States) /\ Len(out[b]) \in Nat
      /\ DOMAIN out[b] = 1..Len(out[b])
  BY LenProperties DEF IInv, Shape
<1>3. i \notin Joined(b)
  BY <1>1, <1>2 DEF IInv, BatchInv, Answers, Joined
<1>4. task[b][i] \in {"done", "panicked"}
  <2>1. task[b][i] \in States
    BY <1>1, <1>2
  <2>2. task[b][i] \notin {"aborting", "aborted"}
    BY <1>1 DEF IInv, BatchInv, Fates, Raises
  <2> QED
    BY <1>1, <2>1, <2>2 DEF States, Live
<1>5. task[b][i] = "done" <=> ~Fails(b, i)
  BY <1>1, <1>4 DEF IInv, BatchInv, Fates
<1>6. Outcome(b, i) = [ok |-> task[b][i] = "done", value |-> Outcome(b, i).value]
  BY <1>5 DEF Outcome
<1>7. out' = [out EXCEPT ![b] = Append(@, <<i, Outcome(b, i)>>)]
  <2>1. out' = [out EXCEPT ![b] =
                  Append(@, <<i, [ok |-> task[b][i] = "done",
                                  value |-> Outcome(b, i).value]>>)]
    BY DEF AwaitNext
  <2> HIDE DEF i
  <2> QED
    BY <1>6, <2>1
<1> HIDE DEF i
<1> QED
  BY <1>1, <1>3, <1>4, <1>7, AnswerKeeps DEF i

LEMMA JoinFailsKeeps ==
  ASSUME IInv, NEW b \in Batches, NEW i \in Indices, JoinFails(b, i)
  PROVE  IInv'
<1> USE DEF JoinFails, call, pool, Goto
<1>p. PICK polled \in SUBSET {k \in DOMAIN task[b] : task[b][k] = "new"} :
             task' = [task EXCEPT ![b] = [k \in DOMAIN @ |->
                        IF ~Live(@[k]) THEN @[k]
                        ELSE IF k \in polled THEN "aborting" ELSE "aborted"]]
  OBVIOUS
<1> DEFINE t == [k \in DOMAIN task[b] |->
                   IF ~Live(task[b][k]) THEN task[b][k]
                   ELSE IF k \in polled THEN "aborting" ELSE "aborted"]
<1>0. /\ task[b] \in Seq(States) /\ Len(task[b]) \in Nat
      /\ DOMAIN task[b] = 1..Len(task[b])
  BY LenProperties DEF IInv, Shape
<1>a. \A k \in DOMAIN task[b] : task[b][k] \in States /\ t[k] \in States
  BY <1>0, ElementOfSeq DEF States
<1>b. t \in Seq(States) /\ Len(t) = Len(task[b])
  <2>1. t \in [1..Len(task[b]) -> States]
    BY <1>0, <1>a
  <2> HIDE DEF t, JoinFails
  <2> QED
    BY <1>0, <2>1
<1>c. /\ task'[b] = t /\ DOMAIN t = DOMAIN task[b]
      /\ phase'[b] = "attach" /\ b \in raised'
  BY <1>p DEF IInv, Shape
<1>d. \A k \in DOMAIN t : IF Live(task[b][k]) THEN t[k] \in {"aborting", "aborted"}
                                             ELSE t[k] = task[b][k]
  OBVIOUS
<1>e. \A k \in DOMAIN t : t[k] = "aborting" => task[b][k] \in {"new", "aborting"}
  OBVIOUS
<1>1. Shape'
  BY <1>b, <1>p DEF IInv, Shape
<1> HIDE DEF t
<1>2. \A c \in Batches \ {b} : Same(c)
  BY <1>p DEF IInv, Shape, Same
<1>3. BatchInv(b)'
  <2>1. \A k : (Fails(b, k)' <=> Fails(b, k)) /\ Outcome(b, k)' = Outcome(b, k)
    BY OutcomeStays
  <2>2. Spawned(b)'
    BY <1>b, <1>c DEF IInv, BatchInv, Spawned
  <2>3. Fates(b)'
    BY <1>c, <1>d, <2>1 DEF IInv, BatchInv, Fates
  <2>4. Answers(b)'
    BY <1>c, <1>d, <2>1 DEF IInv, BatchInv, Answers, Live
  <2>5. InOrder(b)'
    BY <1>c DEF InOrder
  <2>6. Raises(b)'
    BY <1>c, <1>d DEF Raises, Ended, Live
  <2>7. Pooled(b)'
    <3> SUFFICES ASSUME NEW k \in Nat \ {0}, <<b, k>> \in queued \cup running
                 PROVE  k \in DOMAIN t /\ t[k] \in {"waiting", "aborted"}
      BY <1>c DEF Pooled
    <3>1. k \in DOMAIN t /\ task[b][k] \in {"waiting", "aborted"}
      BY <1>c DEF IInv, BatchInv, Pooled
    <3> QED
      BY <1>d, <1>e, <3>1 DEF Live
  <2> QED
    BY <2>2, <2>3, <2>4, <2>5, <2>6, <2>7 DEF BatchInv
<1> QED
  BY <1>1, <1>2, <1>3, SameKeeps DEF IInv

\* As many outcomes as items, each of another task: the sorted list answers
\* item by item.
LEMMA SortedAnswers ==
  ASSUME NEW b \in Batches, Shape, Spawned(b), Answers(b), phase[b] = "join",
         Len(out[b]) = Len(items[b])
  PROVE  Sorted(out[b]) = [i \in 1..Len(items[b]) |-> <<i, Outcome(b, i)>>]
<1> DEFINE o == out[b]  n == Len(items[b])
<1>1. /\ n \in Nat /\ DOMAIN o = 1..n /\ DOMAIN task[b] = 1..n
      /\ \A k \in 1..n : o[k] \in Nat \X Outcomes
  BY LenProperties, ElementOfSeq DEF Shape, Spawned
<1>2. /\ \A k \in DOMAIN o : o[k][1] \in DOMAIN task[b] /\ o[k][2] = Outcome(b, o[k][1])
      /\ \A j, k \in DOMAIN o : o[j][1] = o[k][1] => j = k
  BY DEF Answers
<1> HIDE DEF o, n
<1>6. \A k \in 1..n : o[k][1] \in 1..n /\ o[k] = <<o[k][1], Outcome(b, o[k][1])>>
  <2>1. \A k \in 1..n : o[k] = <<o[k][1], o[k][2]>>
    BY <1>1
  <2> QED
    BY <1>1, <1>2, <2>1
<1>3. /\ Sorted(o) = [i \in 1..n |-> Sorted(o)[i]]
      /\ \A i \in 1..n : \E k \in 1..n : o[k][1] = i /\ Sorted(o)[i] = o[k]
  <2>1. \A k \in 1..n : o[k][1] \in 1..n
    BY <1>6
  <2>2. \A j, k \in 1..n : o[j][1] = o[k][1] => j = k
    BY <1>1, <1>2
  <2> QED
    BY <1>1, <2>1, <2>2, SortedIs
<1>4. \A i \in 1..n : Sorted(o)[i] = <<i, Outcome(b, i)>>
  BY <1>3, <1>6
<1>5. Sorted(o) = [i \in 1..n |-> <<i, Outcome(b, i)>>]
  BY <1>3, <1>4
<1> QED
  BY <1>5 DEF o, n

LEMMA ListAnswers ==
  ASSUME NEW b \in Batches, NEW n \in Nat, NEW p,
         DOMAIN p = 1..n, \A k \in 1..n : p[k] = <<k, Outcome(b, k)>>,
         DOMAIN task[b] = 1..n,
         \A k \in 1..n : IF method[b] = "run_fallible"
                         THEN task[b][k] \in {"done", "panicked"}
                         ELSE task[b][k] = "done",
         out'[b] = p, task'[b] = task[b], method'[b] = method[b],
         items'[b] = items[b], fail'[b] = fail[b]
  PROVE  Answers(b)'
<1>1. \A k : Outcome(b, k)' = Outcome(b, k)
  BY OutcomeStays
<1>2. \A k \in 1..n : p[k][1] = k /\ p[k][2] = Outcome(b, k)
  OBVIOUS
<1> QED
  BY <1>1, <1>2 DEF Answers

LEMMA JoinedAllKeeps ==
  ASSUME IInv, NEW b \in Batches, JoinedAll(b)
  PROVE  IInv'
<1> USE DEF JoinedAll, call, pool, Goto
<1> DEFINE p == [i \in 1..Len(items[b]) |-> <<i, Outcome(b, i)>>]
<1>0. Len(items[b]) \in Nat /\ DOMAIN items[b] = 1..Len(items[b])
  BY LenProperties DEF IInv, Shape
<1>a. out'[b] = p /\ phase'[b] = "attach" /\ b \notin raised'
  <2>1. Sorted(out[b]) = p
    BY SortedAnswers DEF IInv, BatchInv
  <2>2. b \notin raised
    BY DEF IInv, BatchInv, Raises, Ended
  <2> QED
    BY <2>1, <2>2 DEF IInv, Shape
<1>b. p \in Seq(Nat \X Outcomes)
  <2>1. \A i \in 1..Len(items[b]) : <<i, Outcome(b, i)>> \in Nat \X Outcomes
    BY <1>0, OutcomeType DEF IInv, Shape
  <2> QED
    BY <1>0, <2>1
<1>d. DOMAIN p = 1..Len(items[b]) /\ \A k \in DOMAIN p : p[k] = <<k, Outcome(b, k)>>
  OBVIOUS
<1>1. Shape'
  BY <1>a, <1>b DEF IInv, Shape
<1>2. \A c \in Batches \ {b} : Same(c)
  BY DEF IInv, Shape, Same
<1>3. BatchInv(b)'
  <2>1. \A k : (Fails(b, k)' <=> Fails(b, k)) /\ Outcome(b, k)' = Outcome(b, k)
    BY OutcomeStays
  <2>2. Spawned(b)' /\ Pooled(b)'
    BY <1>a DEF IInv, BatchInv, Spawned, Pooled
  <2>3. Fates(b)' /\ Raises(b)'
    BY <1>a, <2>1 DEF IInv, BatchInv, Fates, Raises
  <2>4. InOrder(b)'
    BY <1>a, <2>1 DEF InOrder
  <2>5. Answers(b)'
    <3> DEFINE o == out[b]  n == Len(items[b])
    <3>0. DOMAIN o = 1..n /\ DOMAIN task[b] = 1..n
      BY LenProperties DEF IInv, Shape, BatchInv, Spawned
    <3>1. /\ \A k \in DOMAIN o : /\ o[k][1] \in DOMAIN task[b]
                                 /\ IF method[b] = "run_fallible"
                                    THEN o[k][1] = k /\ task[b][k] \in {"done", "panicked"}
                                    ELSE task[b][o[k][1]] = "done"
          /\ \A j, k \in DOMAIN o : o[j][1] = o[k][1] => j = k
      BY DEF IInv, BatchInv, Answers
    <3>2. \A i \in 1..n : \E k \in 1..n : o[k][1] = i
      <4> DEFINE f == [k \in 1..n |-> o[k][1]]
      <4>1. f \in Injection(1..n, 1..n)
        <5> HIDE DEF o, n
        <5> QED
          BY <3>0, <3>1 DEF Injection, IsInjective
      <4> HIDE DEF f
      <4>2. \A i \in 1..n : \E k \in 1..n : f[k] = i
        BY <1>0, <4>1, KeysCover
      <4> QED
        BY <4>2 DEF f
    <3>3. \A i \in 1..n : IF method[b] = "run_fallible"
                          THEN task[b][i] \in {"done", "panicked"}
                          ELSE task[b][i] = "done"
      <4> HIDE DEF o, n
      <4> QED
        BY <3>0, <3>1, <3>2
    <3>4. /\ n \in Nat /\ DOMAIN p = 1..n /\ out'[b] = p
          /\ \A k \in 1..n : p[k] = <<k, Outcome(b, k)>>
          /\ task'[b] = task[b] /\ method'[b] = method[b]
          /\ items'[b] = items[b] /\ fail'[b] = fail[b]
      BY <1>0, <1>a, <1>d
    <3> HIDE DEF o, n, p
    <3> QED
      BY <3>0, <3>3, <3>4, ListAnswers
  <2> QED
    BY <2>2, <2>3, <2>4, <2>5 DEF BatchInv
<1> QED
  BY <1>1, <1>2, <1>3, SameKeeps DEF IInv

LEMMA AttachKeeps ==
  ASSUME IInv, NEW b \in Batches, Attach(b)
  PROVE  IInv'
<1> USE DEF Attach, call, pool, Goto
<1>1. Shape'
  BY DEF IInv, Shape
<1>2. \A c \in Batches \ {b} : Same(c)
  BY DEF IInv, Shape, Same
<1>3. BatchInv(b)'
  <2>1. \A k : (Fails(b, k)' <=> Fails(b, k)) /\ Outcome(b, k)' = Outcome(b, k)
    BY OutcomeStays
  <2>2. phase[b] = "attach" /\ phase'[b] = "over"
    BY DEF IInv, Shape
  <2>3. Spawned(b)' /\ Pooled(b)'
    BY <2>2 DEF IInv, BatchInv, Spawned, Pooled
  <2>4. Fates(b)' /\ Raises(b)'
    BY <2>1, <2>2 DEF IInv, BatchInv, Fates, Raises, Ended
  <2>6. InOrder(b)'
    BY <2>1, <2>2 DEF IInv, BatchInv, InOrder, Ended
  <2>5. Answers(b)'
    BY <2>1 DEF IInv, BatchInv, Answers
  <2> QED
    BY <2>3, <2>4, <2>5, <2>6 DEF BatchInv
<1> QED
  BY <1>1, <1>2, <1>3, SameKeeps DEF IInv

-----------------------------------------------------------------------------
(* The pool keeps it.                                                      *)

\* The i-th task of b goes on, to s.
LEMMA PollKeeps ==
  ASSUME IInv, NEW b \in Batches, NEW i \in DOMAIN task[b], NEW s \in States,
         Live(task[b][i]) \/ (task[b][i] = "aborting" /\ ~Live(s)),
         s \in {"aborting", "aborted"} => b \in raised,
         s = "done" => ~Fails(b, i),
         s = "panicked" => Fails(b, i) \/ method[b] = "map_blocking",
         Become(b, i, s),
         UNCHANGED <<gil, phase, call, out, raised, armed, running>>,
         queued' \in SUBSET Jobs, queued' \subseteq queued \cup {<<b, i>>},
         <<b, i>> \in queued' \cup running => s \in {"waiting", "aborted"},
         faults' \in 0..MaxFaults
  PROVE  IInv'
<1> USE DEF Become, call
<1>0. /\ task[b] \in Seq(States) /\ Len(task[b]) \in Nat /\ i \in 1..Len(task[b])
      /\ DOMAIN task[b] = 1..Len(task[b])
  BY LenProperties DEF IInv, Shape
<1> DEFINE t == [task[b] EXCEPT ![i] = s]
<1>a. /\ t \in Seq(States) /\ Len(t) = Len(task[b]) /\ DOMAIN t = DOMAIN task[b]
      /\ \A k \in DOMAIN task[b] : t[k] = IF k = i THEN s ELSE task[b][k]
  BY <1>0, ExceptSeq
<1>b. task'[b] = t
  BY DEF IInv, Shape
<1>1. Shape'
  BY <1>a DEF IInv, Shape
<1> HIDE DEF t
<1>2. \A c \in Batches \ {b} : Same(c)
  BY DEF IInv, Shape, Same
<1>3. BatchInv(b)'
  <2>1. \A k : (Fails(b, k)' <=> Fails(b, k)) /\ Outcome(b, k)' = Outcome(b, k)
    BY OutcomeStays
  <2>2. Spawned(b)'
    BY <1>0, <1>a, <1>b DEF IInv, BatchInv, Spawned
  <2>3. Fates(b)'
    BY <1>a, <1>b, <2>1 DEF IInv, BatchInv, Fates
  <2>4. Answers(b)'
    BY <1>a, <1>b, <2>1 DEF IInv, BatchInv, Answers, Live
  <2>5. InOrder(b)'
    BY <2>1 DEF IInv, BatchInv, InOrder, Ended
  <2>6. b \in raised => task[b][i] = "aborting" /\ ~Live(s)
    BY DEF IInv, BatchInv, Raises
  <2>7. Raises(b)'
    BY <1>a, <1>b, <2>6 DEF IInv, BatchInv, Raises, Ended, Live
  <2>8. Pooled(b)'
    BY <1>a, <1>b DEF IInv, BatchInv, Pooled
  <2> QED
    BY <2>2, <2>3, <2>4, <2>5, <2>7, <2>8 DEF BatchInv
<1> QED
  BY <1>1, <1>2, <1>3, SameKeeps DEF IInv

LEMMA FirstPollKeeps ==
  ASSUME IInv, NEW b \in Batches, NEW i \in Indices, FirstPoll(b, i)
  PROVE  IInv'
<1> DEFINE s == IF task[b][i] = "new" THEN "waiting" ELSE "aborted"
<1>1. /\ i \in DOMAIN task[b] /\ task[b][i] \in {"new", "aborting"} /\ i \in Nat \ {0}
      /\ <<b, i>> \notin queued \cup running
  <2>1. i \in DOMAIN task[b] /\ task[b][i] \in {"new", "aborting"}
    BY DEF FirstPoll
  <2>2. i \in Nat \ {0}
    BY <2>1, LenProperties DEF IInv, Shape
  <2> QED
    BY <2>1, <2>2 DEF IInv, BatchInv, Pooled
<1>2. /\ queued' \in SUBSET Jobs /\ queued' \subseteq queued \cup {<<b, i>>}
      /\ faults' \in 0..MaxFaults
  BY DEF FirstPoll, IInv, Shape, Jobs
<1>3. /\ s \in {"waiting", "aborted"} /\ s \in States /\ Become(b, i, s)
      /\ Live(task[b][i]) \/ (task[b][i] = "aborting" /\ ~Live(s))
  BY <1>1 DEF FirstPoll, States, Live
<1>4. s = "aborted" => b \in raised
  BY <1>1 DEF IInv, BatchInv, Fates
<1> HIDE DEF s
<1>5. UNCHANGED <<gil, phase, call, out, raised, armed, running>>
  BY DEF FirstPoll
<1> QED
  BY <1>1, <1>2, <1>3, <1>4, <1>5, PollKeeps

LEMMA RefusedKeeps ==
  ASSUME IInv, NEW b \in Batches, NEW i \in Indices, Refused(b, i)
  PROVE  IInv'
<1>1. /\ i \in DOMAIN task[b] /\ task[b][i] \in {"new", "aborting"}
      /\ <<b, i>> \notin queued \cup running
  <2>1. i \in DOMAIN task[b] /\ task[b][i] \in {"new", "aborting"}
    BY DEF Refused
  <2>2. i \in Nat \ {0}
    BY <2>1, LenProperties DEF IInv, Shape
  <2> QED
    BY <2>1, <2>2 DEF IInv, BatchInv, Pooled
<1>2. queued' \in SUBSET Jobs /\ faults' \in 0..MaxFaults
  BY BatchAssumption DEF Refused, pool, IInv, Shape
<1>3. /\ "panicked" \in States /\ ~Live("panicked")
      /\ Live(task[b][i]) \/ task[b][i] = "aborting"
  BY <1>1 DEF States, Live
<1> QED
  BY <1>1, <1>2, <1>3, PollKeeps DEF Refused, pool

LEMMA LastPollKeeps ==
  ASSUME IInv, NEW b \in Batches, NEW i \in Indices, LastPoll(b, i)
  PROVE  IInv'
<1> DEFINE s == IF Fails(b, i) THEN "panicked" ELSE "done"
<1>1. /\ i \in DOMAIN task[b] /\ Live(task[b][i]) /\ s \in States
      /\ <<b, i>> \notin queued \cup running /\ Become(b, i, s)
      /\ s \in {"done", "panicked"} /\ (s = "done" => ~Fails(b, i)) /\ (s = "panicked" => Fails(b, i))
  BY DEF LastPoll, States, Live
<1>2. queued' \in SUBSET Jobs /\ faults' \in 0..MaxFaults
  BY DEF LastPoll, pool, IInv, Shape
<1>3. UNCHANGED <<gil, phase, call, out, raised, armed, queued, running>>
  BY DEF LastPoll, pool
<1> HIDE DEF s
<1> QED
  BY <1>1, <1>2, <1>3, PollKeeps

\* A step of the pool that starts no job of a batch.
LEMMA PoolKeeps ==
  ASSUME IInv, UNCHANGED <<gil, phase, call, task, out, raised, faults>>,
         armed' \in SUBSET armed, queued' \in SUBSET Jobs, running' \in SUBSET Jobs,
         IsFiniteSet(running'), Cardinality(running') <= BlockingThreads,
         \A b, i : i \in Nat \ {0} /\ <<b, i>> \in queued' \cup running'
                     => <<b, i>> \in queued \cup running
  PROVE  IInv'
<1>1. Shape'
  BY DEF IInv, Shape, call
<1>2. \A b \in Batches : Same(b)
  BY DEF Same, call
<1> QED
  BY <1>1, <1>2, SameKeeps DEF IInv

LEMMA ExpireKeeps ==
  ASSUME IInv, NEW k \in Timers, Expire(k)
  PROVE  IInv'
<1>1. queued' \in SUBSET Jobs /\ running' \in SUBSET Jobs /\ armed' \in SUBSET armed
  BY DEF Expire, IInv, Shape, Jobs
<1>2. /\ IsFiniteSet(running') /\ Cardinality(running') <= BlockingThreads
      /\ UNCHANGED <<gil, phase, call, task, out, raised, faults>>
  BY DEF Expire, IInv, Shape
<1>3. \A b, i : i \in Nat \ {0} /\ <<b, i>> \in queued' \cup running'
                  => <<b, i>> \in queued \cup running
  BY DEF Expire
<1> QED
  BY <1>1, <1>2, <1>3, PoolKeeps

LEMMA StartJobKeeps ==
  ASSUME IInv, NEW j \in Jobs, StartJob(j)
  PROVE  IInv'
<1>1. /\ queued' \in SUBSET Jobs /\ running' \in SUBSET Jobs /\ armed' \in SUBSET armed
      /\ UNCHANGED <<gil, phase, call, task, out, raised, faults>>
  BY DEF StartJob, IInv, Shape
<1>2. IsFiniteSet(running') /\ Cardinality(running') <= BlockingThreads
  <2>1. running' = running \cup {j} /\ Cardinality(running) < BlockingThreads
    BY DEF StartJob
  <2>2. IsFiniteSet(running) /\ Cardinality(running) \in Nat /\ BlockingThreads \in Nat
    BY BatchAssumption, FS_CardinalityType DEF IInv, Shape
  <2> QED
    BY <2>1, <2>2, FS_AddElement
<1>3. \A b, i : i \in Nat \ {0} /\ <<b, i>> \in queued' \cup running'
                  => <<b, i>> \in queued \cup running
  BY DEF StartJob
<1> QED
  BY <1>1, <1>2, <1>3, PoolKeeps

LEMMA EndJobKeeps ==
  ASSUME IInv, NEW j \in Jobs, EndJob(j)
  PROVE  IInv'
<1>1. /\ queued' \in SUBSET Jobs /\ running' \in SUBSET Jobs /\ armed' \in SUBSET armed
      /\ UNCHANGED <<gil, phase, call, task, out, raised, faults>>
  BY DEF EndJob, IInv, Shape
<1>2. IsFiniteSet(running') /\ Cardinality(running') <= BlockingThreads
  <2>1. running' = running \ {j} /\ Cardinality(running) <= BlockingThreads
    BY DEF EndJob, IInv, Shape
  <2>2. IsFiniteSet(running) /\ Cardinality(running) \in Nat /\ BlockingThreads \in Nat
    BY BatchAssumption, FS_CardinalityType DEF IInv, Shape
  <2> QED
    BY <2>1, <2>2, FS_RemoveElement
<1>3. \A b, i : i \in Nat \ {0} /\ <<b, i>> \in queued' \cup running'
                  => <<b, i>> \in queued \cup running
  BY DEF EndJob
<1> QED
  BY <1>1, <1>2, <1>3, PoolKeeps

-----------------------------------------------------------------------------
LEMMA NextKeeps == IInv /\ [Next]_vars => IInv'
<1> SUFFICES ASSUME IInv, [Next]_vars PROVE IInv'
  OBVIOUS
<1>1. CASE UNCHANGED vars
  <2>1. Shape'
    BY <1>1 DEF IInv, Shape, vars, call, pool
  <2>2. \A b \in Batches : Same(b)
    BY <1>1 DEF Same, vars, call, pool
  <2> QED
    BY <2>1, <2>2, SameKeeps DEF IInv
<1>2. ASSUME NEW b \in Batches, Caller(b) PROVE IInv'
  BY <1>2, CallKeeps, SpawnKeeps, AwaitNextKeeps, JoinedAllKeeps, AttachKeeps,
     JoinKeeps, JoinFailsKeeps DEF Caller
<1>3. ASSUME NEW b \in Batches, NEW i \in Indices, Poll(b, i) PROVE IInv'
  BY <1>3, FirstPollKeeps, RefusedKeeps, LastPollKeeps DEF Poll
<1> QED
  BY <1>1, <1>2, <1>3, GilKeeps, ExpireKeeps, StartJobKeeps, EndJobKeeps DEF Next

LEMMA AlwaysIInv == Spec => []IInv
BY InitIInv, NextKeeps, PTL DEF Spec

-----------------------------------------------------------------------------
(* The theorems.                                                           *)

(* Every value of a batch method is a u64, whatever it computes, and the   *)
(* closures that run at a time are no more than the blocking threads.      *)
THEOREM TypeCorrect == Spec => []TypeOK
<1>1. ASSUME IInv PROVE TypeOK
  <2>1. ASSUME NEW b \in Batches
        PROVE  /\ items[b] \in Seq(0..(Word - 1))
               /\ Len(task[b]) <= Len(items[b])
               /\ \A i \in DOMAIN task[b] : task[b][i] \in States
               /\ \A k \in DOMAIN out[b] : /\ out[b][k][1] \in DOMAIN items[b]
                                           /\ out[b][k][2].value \in Values
    <3>1. /\ items[b] \in Seq(Values) /\ task[b] \in Seq(States)
          /\ out[b] \in Seq(Nat \X Outcomes)
          /\ Spawned(b) /\ Answers(b)
      BY <1>1 DEF IInv, Shape, BatchInv
    <3>2. DOMAIN task[b] \subseteq DOMAIN items[b]
      BY <3>1, LenProperties DEF Spawned
    <3>3. \A k \in DOMAIN out[b] : out[b][k] \in Nat \X Outcomes
      BY <3>1, LenProperties, ElementOfSeq
    <3>4. \A i \in DOMAIN task[b] : task[b][i] \in States
      BY <3>1, LenProperties, ElementOfSeq
    <3> QED
      BY <3>1, <3>2, <3>3, <3>4 DEF Spawned, Answers, Values, Outcomes
  <2>2. ASSUME NEW b \in Batches PROVE Len(out[b]) <= Len(items[b])
    <3> DEFINE o == out[b]  m == Len(o)  n == Len(items[b])
               f == [k \in 1..m |-> o[k][1]]
    <3>1. /\ DOMAIN o = 1..m /\ m \in Nat /\ DOMAIN items[b] = 1..n /\ n \in Nat
      BY <1>1, LenProperties DEF IInv, Shape
    <3>2. /\ \A k \in DOMAIN o : o[k][1] \in DOMAIN items[b]
          /\ \A j, k \in DOMAIN o : o[j][1] = o[k][1] => j = k
      BY <1>1, <2>1 DEF IInv, BatchInv, Answers
    <3>3. f \in Injection(1..m, 1..n)
      <4> HIDE DEF m, n, o
      <4> QED
        BY <3>1, <3>2 DEF Injection, IsInjective
    <3> HIDE DEF f
    <3> QED
      BY <3>1, <3>3, FewKeys
  <2> QED
    BY <1>1, <2>1, <2>2 DEF TypeOK, IInv, Shape, States, Values
<1> QED
  BY <1>1, AlwaysIInv, PTL

(* A list that is returned answers item by item in the order of the input, *)
(* for any order in which the tasks end and any number of panics.          *)
THEOREM AnswersInOrder == Spec => []InInputOrder
<1>1. IInv => InInputOrder
  BY DEF IInv, BatchInv, InOrder, InInputOrder
<1> QED
  BY <1>1, AlwaysIInv, PTL

\* A list answers for every task.
LEMMA ListOfAll ==
  ASSUME IInv, NEW b \in Batches, Ended(b), b \notin raised, NEW i \in DOMAIN task[b]
  PROVE  IF method[b] = "run_fallible" THEN task[b][i] \in {"done", "panicked"}
                                       ELSE task[b][i] = "done"
<1>1. /\ DOMAIN task[b] = 1..Len(items[b])
      /\ out[b] = [k \in 1..Len(items[b]) |-> <<k, Outcome(b, k)>>]
  BY LenProperties DEF IInv, Shape, BatchInv, Spawned, InOrder, Ended
<1>2. i \in DOMAIN out[b] /\ out[b][i][1] = i
  BY <1>1
<1> QED
  BY <1>2 DEF IInv, BatchInv, Answers

(* An exception stands for a panic and a panic for an exception, except    *)
(* that run_fallible answers with it: no panic is lost, none is made up.   *)
THEOREM PanicsRaised == Spec => []PanicsAreRaised
<1>1. ASSUME IInv, NEW b \in Batches, Ended(b)
      PROVE  (b \in raised <=> /\ method[b] # "run_fallible"
                               /\ \E i \in DOMAIN task[b] : task[b][i] = "panicked")
  <2>1. CASE b \in raised
    BY <1>1, <2>1 DEF IInv, BatchInv, Raises
  <2>2. CASE b \notin raised
    BY <1>1, <2>2, ListOfAll
  <2> QED
    BY <2>1, <2>2
<1>2. IInv => PanicsAreRaised
  BY <1>1 DEF PanicsAreRaised
<1> QED
  BY <1>2, AlwaysIInv, PTL

LEMMA EndedRests == IInv => NoneLeftBehind
<1>1. ASSUME IInv, NEW b \in Batches, Ended(b)
      PROVE  /\ \A i \in DOMAIN task[b] : ~Live(task[b][i])
             /\ b \notin raised => \A i \in Indices : <<b, i>> \notin queued \cup running
  <2>1. CASE b \in raised
    BY <1>1, <2>1 DEF IInv, BatchInv, Raises
  <2>2. CASE b \notin raised
    <3>1. \A i \in DOMAIN task[b] : task[b][i] \in {"done", "panicked"}
      BY <1>1, <2>2, ListOfAll
    <3>2. \A i \in Indices : <<b, i>> \notin queued \cup running
      BY <1>1, <3>1, IndicesType DEF IInv, BatchInv, Pooled
    <3> QED
      BY <3>1, <3>2 DEF Live
  <2> QED
    BY <2>1, <2>2
<1> QED
  BY <1>1 DEF NoneLeftBehind

(* When a call is over so are its tasks, and after a list its closures.    *)
THEOREM NothingLeft == Spec => []NoneLeftBehind
  BY EndedRests, AlwaysIInv, PTL

-----------------------------------------------------------------------------
(* The contract.                                                           *)

\* A call on which a step has no effect that its caller sees.
Unseen(b) == /\ State(b)' = State(b) /\ Request(b)' = Request(b)
             /\ Work(b)' = Work(b) /\ Answer(b)' = Answer(b)

LEMMA UnseenStutters ==
  ASSUME \A b \in Batches : Unseen(b)
  PROVE  UNCHANGED Contract!vars
<1>1. /\ [b \in Batches |-> State(b)'] = [b \in Batches |-> State(b)]
      /\ [b \in Batches |-> Request(b)'] = [b \in Batches |-> Request(b)]
      /\ [b \in Batches |-> Work(b)'] = [b \in Batches |-> Work(b)]
      /\ [b \in Batches |-> Answer(b)'] = [b \in Batches |-> Answer(b)]
  BY DEF Unseen
<1> QED
  BY <1>1 DEF Contract!vars

LEMMA OthersUnseen ==
  ASSUME NEW b,
         phase'[b] = phase[b], method'[b] = method[b], items'[b] = items[b],
         fail'[b] = fail[b], task'[b] = task[b], out'[b] = out[b],
         b \in raised' <=> b \in raised
  PROVE  Unseen(b)
BY DEF Unseen, State, Request, Work, Answer, Outcome, Fails, Live

\* What a step does to the call b that it is about, as the contract has it.
Asked(b) == /\ State(b) = "none"
            /\ \/ State(b)' = "asked"
               \/ State(b)' = "returned" /\ Request(b)'.outcomes = <<>>
            /\ Work(b)' = Work(b) /\ Answer(b)' = Answer(b)
Returned(b) == /\ State(b) = "asked" /\ State(b)' = "returned"
               /\ Request(b)' = Request(b)
               /\ Work(b) = {} /\ Work(b)' = Work(b)
               /\ Answer(b)' = Request(b).outcomes
Raised(b) == /\ State(b) = "asked" /\ State(b)' = "raised"
             /\ Request(b)' = Request(b) /\ ~Request(b).collects
             /\ Work(b)' = {} /\ Answer(b)' = Answer(b)
Worked(b, i) == /\ State(b)' = State(b) /\ Request(b)' = Request(b)
                /\ Answer(b)' = Answer(b)
                /\ i \in DOMAIN Request(b).outcomes
                /\ \/ /\ State(b) = "asked" /\ i \notin Work(b)
                      /\ Work(b)' = Work(b) \cup {i}
                   \/ i \in Work(b) /\ Work(b)' = Work(b) \ {i}

LEMMA ContractStep ==
  ASSUME NEW b \in Batches, \A d \in Batches \ {b} : Unseen(d),
         Asked(b) \/ Returned(b) \/ Raised(b) \/ \E i : Worked(b, i)
  PROVE  Contract!Next
<1> DEFINE st == [d \in Batches |-> State(d)]
           re == [d \in Batches |-> Request(d)]
           wo == [d \in Batches |-> Work(d)]
           an == [d \in Batches |-> Answer(d)]
<1>1. /\ st[b] = State(b) /\ re[b] = Request(b) /\ wo[b] = Work(b) /\ an[b] = Answer(b)
      /\ re'[b] = Request(b)' /\ \A d \in Batches \ {b} : re'[d] = re[d]
      /\ \A s : State(b)' = s => st' = [st EXCEPT ![b] = s]
      /\ \A s : Work(b)' = s => wo' = [wo EXCEPT ![b] = s]
      /\ \A s : Answer(b)' = s => an' = [an EXCEPT ![b] = s]
      /\ State(b)' = State(b) => st' = st
      /\ Request(b)' = Request(b) => re' = re
      /\ Work(b)' = Work(b) => wo' = wo
      /\ Answer(b)' = Answer(b) => an' = an
  BY DEF Unseen
<1> HIDE DEF st, re, wo, an
<1>2. CASE Asked(b)
  <2>1. Contract!Ask(b) \/ Contract!AskNothing(b)
    BY <1>1, <1>2 DEF Asked, Contract!Ask, Contract!AskNothing, Contract!Asks,
       Contract!Becomes, st, re, wo, an
  <2> QED
    BY <2>1 DEF Contract!Next
<1>3. CASE Returned(b)
  <2>1. Contract!Return(b)
    BY <1>1, <1>3 DEF Returned, Contract!Return, Contract!Becomes, st, re, wo, an
  <2> QED
    BY <2>1 DEF Contract!Next
<1>4. CASE Raised(b)
  <2>1. Contract!Raise(b)
    BY <1>1, <1>4 DEF Raised, Contract!Raise, Contract!Becomes, st, re, wo, an
  <2> QED
    BY <2>1 DEF Contract!Next
<1>5. ASSUME NEW i, Worked(b, i) PROVE Contract!Next
  <2>1. i \in DOMAIN re[b].outcomes
    BY <1>1, <1>5 DEF Worked
  <2>2. CASE State(b) = "asked" /\ i \notin Work(b) /\ Work(b)' = Work(b) \cup {i}
    <3>1. Contract!Start(b, i)
      BY <1>1, <1>5, <2>1, <2>2 DEF Worked, Contract!Start, st, re, wo, an
    <3> QED
      BY <2>1, <3>1 DEF Contract!Next, re
  <2>3. CASE i \in Work(b) /\ Work(b)' = Work(b) \ {i}
    <3>1. Contract!Stop(b, i) /\ i \in wo[b]
      BY <1>1, <1>5, <2>3 DEF Worked, Contract!Stop, st, re, wo, an
    <3> QED
      BY <3>1 DEF Contract!Next, wo
  <2> QED
    BY <1>5, <2>2, <2>3 DEF Worked
<1> QED
  BY <1>2, <1>3, <1>4, <1>5

LEMMA StateIs ==
  ASSUME NEW b
  PROVE  /\ phase[b] = "python" => State(b) = "none"
         /\ phase[b] \in {"spawn", "join"} => State(b) = "asked"
         /\ phase[b] \in {"attach", "over"} =>
              State(b) = IF b \in raised THEN "raised" ELSE "returned"
BY DEF State

LEMMA InitContract == Init => Contract!Init
<1> SUFFICES ASSUME Init PROVE Contract!Init
  OBVIOUS
<1>1. ASSUME NEW b \in Batches
      PROVE  /\ State(b) = "none" /\ Work(b) = {} /\ Answer(b) = <<>>
             /\ Request(b) = [outcomes |-> <<>>, collects |-> FALSE]
  <2>1. State(b) = "none"
    BY StateIs DEF Init
  <2>2. items[b] = <<>> /\ task[b] = <<>> /\ method[b] = "none"
    BY DEF Init
  <2>3. 1..Len(items[b]) = {} /\ DOMAIN task[b] = {}
    BY <2>2
  <2>4. [i \in {} |-> <<i, Outcome(b, i)>>] = <<>>
    OBVIOUS
  <2> QED
    BY <2>1, <2>2, <2>3, <2>4 DEF Work, Answer, Request
<1> QED
  BY <1>1 DEF Contract!Init

\* A step that touches no call but b.
Alone(b) == \A d \in Batches \ {b} :
              /\ phase'[d] = phase[d] /\ method'[d] = method[d]
              /\ items'[d] = items[d] /\ fail'[d] = fail[d]
              /\ task'[d] = task[d] /\ out'[d] = out[d]
              /\ d \in raised' <=> d \in raised

LEMMA AloneUnseen ==
  ASSUME NEW b \in Batches, Alone(b)
  PROVE  \A d \in Batches \ {b} : Unseen(d)
BY OthersUnseen DEF Alone

\* The caller's steps.
LEMMA CallAsks ==
  ASSUME IInv, IInv', NEW b \in Batches, NEW m \in Methods, NEW s \in Inputs,
         NEW f \in FailOn \cup {{}}, Call(b, m, s, f)
  PROVE  Contract!Next
<1>1. Alone(b)
  BY DEF Alone, IInv, Shape, Call, pool, Goto
<1>2. /\ phase[b] = "python" /\ task' = task /\ out' = out /\ raised' = raised
      /\ out[b] = <<>> /\ b \notin raised
      /\ \/ phase'[b] = "spawn"
         \/ phase'[b] = "over" /\ items'[b] = <<>>
  BY DEF Call, pool, Goto, IInv, Shape, BatchInv, Spawned, Numbered
<1>3. State(b) = "none" /\ Work(b)' = Work(b) /\ Answer(b)' = Answer(b)
  BY <1>2, StateIs DEF Work, Answer
<1>4. \/ State(b)' = "asked"
      \/ State(b)' = "returned" /\ Request(b)'.outcomes = <<>>
  <2>1. CASE phase'[b] = "spawn"
    BY <2>1 DEF State
  <2>2. CASE phase'[b] = "over" /\ items'[b] = <<>>
    <3>1. State(b)' = "returned"
      BY <1>2, <2>2 DEF State
    <3>2. 1..Len(items'[b]) = {}
      BY <2>2
    <3>3. Request(b)'.outcomes = <<>>
      BY <3>2 DEF Request
    <3> QED
      BY <3>1, <3>3
  <2> QED
    BY <1>2, <2>1, <2>2
<1> QED
  BY <1>1, <1>3, <1>4, AloneUnseen, ContractStep DEF Asked

\* A step after which b is where it was, for its caller.
LEMMA RequestStays ==
  ASSUME NEW b \in Batches,
         method'[b] = method[b], items'[b] = items[b], fail'[b] = fail[b]
  PROVE  Request(b)' = Request(b)
BY OutcomeStays DEF Request

LEMMA SpawnStarts ==
  ASSUME IInv, NEW b \in Batches, Spawn(b)
  PROVE  Contract!Next \/ UNCHANGED Contract!vars
<1> USE DEF Spawn, call, pool, Goto
<1>0. task[b] \in Seq(States) /\ Len(task[b]) \in Nat /\ Len(items[b]) \in Nat
  BY LenProperties DEF IInv, Shape
<1>1. Alone(b) /\ Request(b)' = Request(b) /\ out'[b] = out[b] /\ raised' = raised
  BY RequestStays DEF Alone, IInv, Shape
<1>2. /\ phase[b] = "spawn" /\ phase'[b] \in {"spawn", "join"}
      /\ State(b) = "asked"
  BY StateIs DEF IInv, Shape
<1>3. State(b)' = State(b) /\ Answer(b)' = Answer(b)
  <2>1. State(b)' = "asked"
    BY <1>2 DEF State
  <2> QED
    BY <1>2, <2>1 DEF Answer
<1>4. CASE Len(task[b]) < Len(items[b])
  <2> DEFINE n == Len(task[b]) + 1
  <2>1. task'[b] = Append(task[b], "new")
    BY <1>4 DEF IInv, Shape
  <2>2. /\ DOMAIN task'[b] = DOMAIN task[b] \cup {n} /\ n \notin DOMAIN task[b]
        /\ task'[b][n] = "new" /\ \A i \in DOMAIN task[b] : task'[b][i] = task[b][i]
    BY <1>0, <2>1, AppendProperties, LenProperties DEF States
  <2>3. n \in 1..Len(items[b])
    BY <1>0, <1>4
  <2> HIDE DEF n
  <2>4. Work(b)' = Work(b) \cup {n} /\ n \notin Work(b)
    BY <2>2 DEF Work, Live
  <2>5. n \in DOMAIN Request(b).outcomes
    BY <2>3 DEF Request
  <2>6. Worked(b, n)
    BY <1>1, <1>2, <1>3, <2>4, <2>5 DEF Worked
  <2> QED
    BY <1>1, <2>6, AloneUnseen, ContractStep
<1>5. CASE ~(Len(task[b]) < Len(items[b]))
  <2>1. Work(b)' = Work(b)
    BY <1>5 DEF Work
  <2>2. \A d \in Batches : Unseen(d)
    BY <1>1, <1>3, <2>1, AloneUnseen DEF Unseen
  <2> QED
    BY <2>2, UnseenStutters
<1> QED
  BY <1>4, <1>5

LEMMA JoinUnseen ==
  ASSUME IInv, NEW b \in Batches, AwaitNext(b) \/ \E i \in Indices : Join(b, i)
  PROVE  UNCHANGED Contract!vars
<1>1. /\ phase[b] = "join"
      /\ UNCHANGED <<phase, method, items, fail, task, raised>>
      /\ \A d \in Batches \ {b} : out'[d] = out[d]
  BY DEF IInv, Shape, AwaitNext, Join, call, pool
<1>2. /\ State(b) = "asked" /\ State(b)' = "asked" /\ Request(b)' = Request(b)
      /\ Work(b)' = Work(b)
  BY <1>1, RequestStays DEF State, Work
<1>3. Unseen(b)
  BY <1>2 DEF Unseen, Answer
<1>4. Alone(b)
  BY <1>1 DEF Alone
<1> QED
  BY <1>3, <1>4, AloneUnseen, UnseenStutters

LEMMA JoinedAllReturns ==
  ASSUME IInv, IInv', NEW b \in Batches, JoinedAll(b)
  PROVE  Contract!Next
<1>1. /\ phase[b] = "join" /\ phase'[b] = "attach"
      /\ UNCHANGED <<method, items, fail, task, raised>>
      /\ Alone(b)
  BY DEF IInv, Shape, JoinedAll, call, pool, Goto, Alone
<1>2. b \notin raised
  BY <1>1 DEF IInv, BatchInv, Raises, Ended
<1>3. State(b) = "asked" /\ State(b)' = "returned" /\ Request(b)' = Request(b)
  BY <1>2, <1>1, RequestStays DEF State
<1>4. Work(b)' = Work(b) /\ Work(b)' = {}
  <2>1. IInv' => NoneLeftBehind'
    BY EndedRests, PTL
  <2>2. \A i \in DOMAIN task'[b] : ~Live(task'[b][i])
    BY <1>1, <2>1 DEF NoneLeftBehind, Ended, Live
  <2> QED
    BY <1>1, <2>2 DEF Work, Live
<1>5. Answer(b)' = Request(b).outcomes
  <2>1. out'[b] = [i \in 1..Len(items'[b]) |-> <<i, Outcome(b, i)'>>]
    BY <1>2, <1>1 DEF IInv, BatchInv, InOrder, Ended
  <2>2. Answer(b)' = Request(b)'.outcomes
    BY <1>3, <2>1 DEF Answer, Request
  <2> QED
    BY <1>3, <2>2
<1> QED
  BY <1>1, <1>3, <1>4, <1>5, AloneUnseen, ContractStep DEF Returned

LEMMA JoinFailsRaises ==
  ASSUME IInv, NEW b \in Batches, NEW i \in Indices, JoinFails(b, i)
  PROVE  Contract!Next
<1>1. /\ phase[b] = "join" /\ phase'[b] = "attach" /\ method[b] # "run_fallible"
      /\ UNCHANGED <<method, items, fail, out>> /\ b \in raised'
      /\ Alone(b)
      /\ \A k \in DOMAIN task'[b] : ~Live(task'[b][k])
  BY DEF IInv, Shape, JoinFails, call, pool, Goto, Alone, Live
<1>2. /\ State(b) = "asked" /\ State(b)' = "raised" /\ Request(b)' = Request(b)
      /\ ~Request(b).collects
  BY <1>1, RequestStays DEF State, Request
<1>3. Work(b)' = {}
  BY <1>1 DEF Work, Live
<1> QED
  BY <1>1, <1>2, <1>3, AloneUnseen, ContractStep DEF Raised, Answer

LEMMA AttachUnseen ==
  ASSUME IInv, NEW b \in Batches, Attach(b)
  PROVE  UNCHANGED Contract!vars
<1>1. /\ phase[b] = "attach" /\ phase'[b] = "over"
      /\ UNCHANGED <<method, items, fail, task, out, raised>>
      /\ Alone(b)
  BY DEF IInv, Shape, Attach, call, pool, Goto, Alone
<1>2. State(b)' = State(b) /\ Request(b)' = Request(b) /\ Work(b)' = Work(b)
  BY <1>1, RequestStays DEF State, Work
<1>3. Unseen(b)
  BY <1>1, <1>2 DEF Unseen, Answer
<1> QED
  BY <1>1, <1>3, AloneUnseen, UnseenStutters

\* The pool's steps.
LEMMA PollStops ==
  ASSUME IInv, NEW b \in Batches, NEW i \in Indices, Poll(b, i)
  PROVE  Contract!Next \/ UNCHANGED Contract!vars
<1>1. /\ i \in DOMAIN task[b]
      /\ \/ Live(task[b][i]) /\ Become(b, i, "waiting")
         \/ Live(task[b][i]) /\ (Become(b, i, "done") \/ Become(b, i, "panicked"))
         \/ task[b][i] = "aborting" /\ (Become(b, i, "aborted") \/ Become(b, i, "panicked"))
      /\ UNCHANGED <<phase, method, items, fail, out, raised>>
  BY DEF Poll, FirstPoll, Refused, LastPoll, call, pool, Live
<1>2. \A d \in Batches \ {b} : task'[d] = task[d]
  BY <1>1 DEF Become, IInv, Shape
<1>3. Alone(b) /\ State(b)' = State(b) /\ Request(b)' = Request(b) /\ Answer(b)' = Answer(b)
  BY <1>1, <1>2, RequestStays DEF Alone, State, Answer
<1>4. DOMAIN task = Batches
  BY DEF IInv, Shape
<1>5. CASE \/ Live(task[b][i]) /\ Become(b, i, "waiting")
           \/ task[b][i] = "aborting" /\ (Become(b, i, "aborted") \/ Become(b, i, "panicked"))
  <2>1. Work(b)' = Work(b)
    BY <1>1, <1>4, <1>5 DEF Become, Work, Live
  <2> QED
    BY <1>3, <2>1, AloneUnseen, UnseenStutters DEF Unseen
<1>6. CASE Live(task[b][i]) /\ (Become(b, i, "done") \/ Become(b, i, "panicked"))
  <2>1. i \in Work(b) /\ Work(b)' = Work(b) \ {i}
    BY <1>1, <1>4, <1>6 DEF Become, Work, Live
  <2>2. i \in DOMAIN Request(b).outcomes
    <3>1. Len(task[b]) <= Len(items[b]) /\ DOMAIN task[b] = 1..Len(task[b])
          /\ Len(task[b]) \in Nat /\ Len(items[b]) \in Nat
      BY LenProperties DEF IInv, Shape, BatchInv, Spawned
    <3>2. i \in 1..Len(items[b])
      BY <1>1, <3>1
    <3> QED
      BY <3>2 DEF Request
  <2>3. Worked(b, i)
    BY <1>3, <2>1, <2>2 DEF Worked
  <2> QED
    BY <1>3, <2>3, AloneUnseen, ContractStep
<1> QED
  BY <1>1, <1>5, <1>6

LEMMA QuietUnseen ==
  ASSUME UNCHANGED <<phase, call, task, out, raised>>
  PROVE  UNCHANGED Contract!vars
<1>1. \A b \in Batches : Unseen(b)
  BY OthersUnseen DEF call
<1> QED
  BY <1>1, UnseenStutters

LEMMA NextKeepsContract ==
  IInv /\ [Next]_vars => [Contract!Next]_(Contract!vars)
<1> SUFFICES ASSUME IInv, [Next]_vars PROVE Contract!Next \/ UNCHANGED Contract!vars
  OBVIOUS
<1>0. IInv'
  BY NextKeeps
<1>1. CASE UNCHANGED vars
  BY <1>1, QuietUnseen DEF vars, call
<1>2. ASSUME NEW b \in Batches, Caller(b)
      PROVE  Contract!Next \/ UNCHANGED Contract!vars
  BY <1>0, <1>2, CallAsks, SpawnStarts, JoinUnseen, JoinedAllReturns, AttachUnseen,
     JoinFailsRaises DEF Caller
<1>3. ASSUME NEW b \in Batches, NEW i \in Indices, Poll(b, i)
      PROVE  Contract!Next \/ UNCHANGED Contract!vars
  BY <1>3, PollStops
<1>4. ASSUME NEW x, NEW k, NEW j, TakeGil(x) \/ DropGil(x) \/ Expire(k) \/ StartJob(j) \/ EndJob(j)
      PROVE  UNCHANGED Contract!vars
  BY <1>4, QuietUnseen DEF TakeGil, DropGil, Expire, StartJob, EndJob
<1> QED
  BY <1>1, <1>2, <1>3, <1>4 DEF Next

(* A batch method implements its contract: one answer to each call, which  *)
(* is a whole list in the order of the input or an exception, and never    *)
(* changes; its tasks begin and end between the call and the answer.       *)
THEOREM BatchesKeepContract == Spec => KeepsContract
  BY InitContract, NextKeepsContract, AlwaysIInv, PTL DEF Spec, KeepsContract, Contract!Spec
=============================================================================
