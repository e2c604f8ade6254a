--------------------------- MODULE PlanningProofs ---------------------------
(***************************************************************************)
(* What is proved about the planner of CASE v5, for every catalogue of     *)
(* profiles, every intake and all budgets: it refuses an intake only for   *)
(* want of room, its plans pass the validator that was written separately, *)
(* and they are fair.                                                      *)
(*                                                                         *)
(* The scheduler is a loop, and what its turns keep is LaneInv: after any  *)
(* number of turns everybody up to the one served last has had at most one *)
(* turn more than the others, and whoever still waits has had all of them. *)
(***************************************************************************)
EXTENDS ResearchPlanning, FiniteSetTheorems, SequenceTheorems, WellFoundedInduction, TLAPS

-----------------------------------------------------------------------------
(* Lists in order, and lists that take turns.                              *)

\* A strict total order of a finite set ranks its elements from 1 on.
IsOrderOf(R, S) ==
    /\ \A x \in S : <<x, x>> \notin R
    /\ \A x, y \in S : x # y => <<x, y>> \in R \/ <<y, x>> \in R
    /\ \A x, y, z \in S : <<x, y>> \in R /\ <<y, z>> \in R => <<x, z>> \in R

\* Sorting a finite set gives each of its elements one place.
LEMMA SortedIsOnto ==
    ASSUME NEW S, IsFiniteSet(S), NEW R, IsOrderOf(R, S)
    PROVE  /\ Cardinality(S) \in Nat
           /\ Sorted(S, R) \in [1..Cardinality(S) -> S]
           /\ \A x \in S : \E k \in 1..Cardinality(S) : Sorted(S, R)[k] = x
           /\ \A j, k \in 1..Cardinality(S) : Sorted(S, R)[j] = Sorted(S, R)[k] => j = k
<1> DEFINE N == Cardinality(S)
           Below(x) == {y \in S : <<y, x>> \in R}
           rank == [x \in S |-> Cardinality(Below(x)) + 1]
<1>1. N \in Nat /\ \A x \in S : IsFiniteSet(Below(x)) /\ Cardinality(Below(x)) \in Nat
  BY FS_CardinalityType, FS_Subset
<1>2. ASSUME NEW x \in S PROVE rank[x] \in 1..N
  <2>1. Cardinality(Below(x)) <= N /\ Cardinality(Below(x)) # N
    <3>1. x \notin Below(x) /\ Below(x) \in SUBSET S
      BY DEF IsOrderOf
    <3> QED
      BY <3>1, FS_Subset
  <2> QED
    BY <1>1, <2>1
<1>3. ASSUME NEW x \in S, NEW y \in S, <<x, y>> \in R PROVE rank[x] < rank[y]
  <2>1. Below(x) \in SUBSET Below(y) /\ x \in Below(y) /\ x \notin Below(x)
    BY <1>3 DEF IsOrderOf
  <2>2. Cardinality(Below(x)) <= Cardinality(Below(y)) /\ Cardinality(Below(x)) # Cardinality(Below(y))
    BY <2>1, <1>1, FS_Subset
  <2> QED
    BY <1>1, <2>2
<1>4. rank \in [S -> 1..N]
  BY <1>2
<1>5. \A x, y \in S : rank[x] = rank[y] => x = y
  <2> SUFFICES ASSUME NEW x \in S, NEW y \in S, x # y PROVE rank[x] # rank[y]
    OBVIOUS
  <2>1. rank[x] < rank[y] \/ rank[y] < rank[x]
    BY <1>3 DEF IsOrderOf
  <2>2. rank[x] \in Int /\ rank[y] \in Int
    BY <1>2
  <2> HIDE DEF rank
  <2> QED
    BY <2>1, <2>2
<1>6. rank \in Surjection(S, 1..N)
  <2>1. rank \in Injection(S, 1..N)
    <3> HIDE DEF rank
    <3> QED
      BY <1>4, <1>5 DEF Injection, IsInjective
  <2>2. IsFiniteSet(1..N) /\ Cardinality(1..N) = N
    BY <1>1, FS_Interval
  <2> QED
    BY <2>1, <2>2, FS_Injection
<1>7. \A k \in 1..N : \E x \in S : rank[x] = k
  <2> HIDE DEF rank
  <2> QED
    BY <1>6 DEF Surjection
<1>8. ASSUME NEW k \in 1..N
      PROVE  Sorted(S, R)[k] \in S /\ rank[Sorted(S, R)[k]] = k
  <2>1. Sorted(S, R)[k] = CHOOSE x \in S : Cardinality(Below(x)) = k - 1
    BY DEF Sorted
  <2>2. PICK x \in S : rank[x] = k
    BY <1>7
  <2>3. Cardinality(Below(x)) = k - 1
    <3>1. rank[x] = Cardinality(Below(x)) + 1 /\ Cardinality(Below(x)) \in Nat
      BY <1>1
    <3> HIDE DEF Below, rank
    <3> QED
      BY <2>2, <3>1
  <2>4. Sorted(S, R)[k] \in S /\ Cardinality(Below(Sorted(S, R)[k])) = k - 1
    <3> HIDE DEF Below
    <3> QED
      BY <2>1, <2>3
  <2> QED
    BY <2>4
<1>9. Sorted(S, R) \in [1..N -> S]
  <2> DEFINE pick(k) == CHOOSE x \in S : Cardinality(Below(x)) = k - 1
  <2>1. Sorted(S, R) = [k \in 1..N |-> pick(k)]
    BY DEF Sorted
  <2> HIDE DEF pick, N
  <2>2. Sorted(S, R) = [k \in 1..N |-> Sorted(S, R)[k]]
    BY <2>1
  <2> QED
    BY <1>8, <2>2
<1>10. ASSUME NEW x \in S PROVE \E k \in 1..N : Sorted(S, R)[k] = x
  <2>1. rank[x] \in 1..N
    BY <1>2
  <2>2. Sorted(S, R)[rank[x]] = x
    <3> HIDE DEF rank
    <3> QED
      BY <1>5, <1>8, <2>1
  <2> QED
    BY <2>1, <2>2
<1> HIDE DEF rank
<1> QED
  BY <1>1, <1>8, <1>9, <1>10

\* Numbers in ascending order.
LEMMA OrderIsOnto ==
    ASSUME NEW S, S \subseteq Int, IsFiniteSet(S)
    PROVE  /\ Cardinality(S) \in Nat
           /\ Order(S) \in [1..Cardinality(S) -> S]
           /\ \A x \in S : \E k \in 1..Cardinality(S) : Order(S)[k] = x
           /\ \A j, k \in 1..Cardinality(S) : Order(S)[j] = Order(S)[k] => j = k
<1> DEFINE R == {c \in S \X S : c[1] < c[2]}
<1>1. IsOrderOf(R, S)
  BY DEF IsOrderOf
<1> HIDE DEF R
<1>2. Order(S) = Sorted(S, R)
  BY DEF Order, R
<1> QED
  BY <1>1, <1>2, SortedIsOnto

\* Pairs of numbers in lexicographic order.
LEMMA LexicalIsOnto ==
    ASSUME NEW S, S \subseteq Int \X Int, IsFiniteSet(S)
    PROVE  /\ Cardinality(S) \in Nat
           /\ Lexical(S) \in [1..Cardinality(S) -> S]
           /\ \A x \in S : \E k \in 1..Cardinality(S) : Lexical(S)[k] = x
           /\ \A j, k \in 1..Cardinality(S) : Lexical(S)[j] = Lexical(S)[k] => j = k
<1> DEFINE R == {c \in S \X S : \/ c[1][1] < c[2][1]
                                \/ c[1][1] = c[2][1] /\ c[1][2] < c[2][2]}
<1>1. IsOrderOf(R, S)
  <2>1. \A x \in S : x = <<x[1], x[2]>> /\ x[1] \in Int /\ x[2] \in Int
    OBVIOUS
  <2>2. \A x, y \in S : <<x, y>> \in R <=> \/ x[1] < y[1]
                                           \/ x[1] = y[1] /\ x[2] < y[2]
    OBVIOUS
  <2>3. \A x, y \in S : x # y => x[1] # y[1] \/ x[2] # y[2]
    BY <2>1
  <2> HIDE DEF R
  <2>4. \A x \in S : <<x, x>> \notin R
    BY <2>1, <2>2
  <2>5. \A x, y \in S : x # y => <<x, y>> \in R \/ <<y, x>> \in R
    BY <2>1, <2>2, <2>3
  <2>6. ASSUME NEW x \in S, NEW y \in S, NEW z \in S, <<x, y>> \in R, <<y, z>> \in R
        PROVE  <<x, z>> \in R
    <3>1. /\ x[1] \in Int /\ x[2] \in Int /\ y[1] \in Int /\ y[2] \in Int
          /\ z[1] \in Int /\ z[2] \in Int
      BY <2>1
    <3>2. x[1] < y[1] \/ (x[1] = y[1] /\ x[2] < y[2])
      BY <2>2, <2>6
    <3>3. y[1] < z[1] \/ (y[1] = z[1] /\ y[2] < z[2])
      BY <2>2, <2>6
    <3>4. x[1] < z[1] \/ (x[1] = z[1] /\ x[2] < z[2])
      BY <3>1, <3>2, <3>3
    <3> QED
      BY <2>2, <3>4
  <2> QED
    BY <2>4, <2>5, <2>6 DEF IsOrderOf
<1> HIDE DEF R
<1>2. Lexical(S) = Sorted(S, R)
  BY DEF Lexical, R
<1>3. /\ Cardinality(S) \in Nat
      /\ Sorted(S, R) \in [1..Cardinality(S) -> S]
      /\ \A x \in S : \E k \in 1..Cardinality(S) : Sorted(S, R)[k] = x
      /\ \A j, k \in 1..Cardinality(S) : Sorted(S, R)[j] = Sorted(S, R)[k] => j = k
  <2>1. IsFiniteSet(S)
    OBVIOUS
  <2> QED
    BY <1>1, <2>1, SortedIsOnto
<1> QED
  BY <1>2, <1>3

\* Taking turns loses nothing, repeats nothing and adds nothing.
LEMMA RoundForm ==
    ASSUME NEW n \in Nat, NEW X, NEW queues \in [1..n -> Seq(X)]
    PROVE  /\ RoundRobin(queues) \in Seq(X)
           /\ \A i \in DOMAIN RoundRobin(queues) : \E q \in 1..n : \E k \in DOMAIN queues[q] :
                 RoundRobin(queues)[i] = queues[q][k]
           /\ \A q \in 1..n : \A k \in DOMAIN queues[q] :
                 \E i \in DOMAIN RoundRobin(queues) : RoundRobin(queues)[i] = queues[q][k]
           /\ (\A q, r \in 1..n : \A k \in DOMAIN queues[q], l \in DOMAIN queues[r] :
                  queues[q][k] = queues[r][l] => q = r /\ k = l) =>
              \A i, j \in DOMAIN RoundRobin(queues) :
                 RoundRobin(queues)[i] = RoundRobin(queues)[j] => i = j
<1> DEFINE T == UNION {(DOMAIN queues[q]) \X {q} : q \in 1..n}
           L == Lexical(T)
           m == Cardinality(T)
           R == [i \in 1..m |-> queues[L[i][2]][L[i][1]]]
<1>1. /\ T \subseteq Int \X Int
      /\ \A q \in 1..n : \A k \in DOMAIN queues[q] : <<k, q>> \in T
      /\ \A c \in T : c[2] \in 1..n /\ c[1] \in DOMAIN queues[c[2]]
  <2>1. \A q \in 1..n : DOMAIN queues[q] \subseteq Int
    OBVIOUS
  <2> QED
    BY <2>1
<1>2. IsFiniteSet(T)
  <2> DEFINE f == [q \in 1..n |-> (DOMAIN queues[q]) \X {q}]
             P == {(DOMAIN queues[q]) \X {q} : q \in 1..n}
  <2>1. f \in Surjection(1..n, P)
    BY DEF Surjection
  <2>2. IsFiniteSet(P)
    <3> HIDE DEF f, P
    <3> QED
      BY <2>1, FS_Surjection, FS_Interval
  <2>3. \A q \in 1..n : IsFiniteSet((DOMAIN queues[q]) \X {q})
    <3> TAKE q \in 1..n
    <3>1. IsFiniteSet(DOMAIN queues[q])
      <4>1. DOMAIN queues[q] = 1..Len(queues[q]) /\ Len(queues[q]) \in Nat
        OBVIOUS
      <4> QED
        BY <4>1, FS_Interval
    <3> QED
      BY <3>1, FS_Singleton, FS_Product
  <2> HIDE DEF f
  <2>4. \A S \in P : IsFiniteSet(S)
    BY <2>3
  <2> QED
    BY <2>2, <2>4, FS_UNION
<1> HIDE DEF T
<1>3. /\ m \in Nat /\ L \in [1..m -> T]
      /\ \A x \in T : \E k \in 1..m : L[k] = x
      /\ \A j, k \in 1..m : L[j] = L[k] => j = k
  BY <1>1, <1>2, LexicalIsOnto
<1>4. RoundRobin(queues) = R
  <2>1. DOMAIN L = 1..m /\ DOMAIN queues = 1..n
    BY <1>3
  <2> HIDE DEF L, m
  <2>2. RoundRobin(queues) = [i \in DOMAIN L |-> queues[L[i][2]][L[i][1]]]
    BY <2>1 DEF RoundRobin, T, L
  <2> QED
    BY <2>1, <2>2
<1> HIDE DEF L, m
<1>5. \A i \in 1..m : L[i][2] \in 1..n /\ L[i][1] \in DOMAIN queues[L[i][2]]
  BY <1>1, <1>3
<1>6. DOMAIN R = 1..m /\ \A i \in 1..m : R[i] = queues[L[i][2]][L[i][1]]
  OBVIOUS
<1>7. \A i \in 1..m : R[i] \in X
  BY <1>5, <1>6
<1>8. R \in Seq(X)
  <2>1. R \in [1..m -> X]
    BY <1>7
  <2> HIDE DEF R
  <2> QED
    BY <1>3, <2>1
<1> HIDE DEF R
<1>9. \A i \in DOMAIN R : \E q \in 1..n : \E k \in DOMAIN queues[q] : R[i] = queues[q][k]
  BY <1>5, <1>6
<1>10. ASSUME NEW q \in 1..n, NEW k \in DOMAIN queues[q]
       PROVE  \E i \in DOMAIN R : R[i] = queues[q][k]
  <2>1. PICK i \in 1..m : L[i] = <<k, q>>
    BY <1>1, <1>3
  <2> QED
    BY <1>6, <2>1
<1>11. ASSUME \A q, r \in 1..n : \A k \in DOMAIN queues[q], l \in DOMAIN queues[r] :
                 queues[q][k] = queues[r][l] => q = r /\ k = l
       PROVE  \A i, j \in DOMAIN R : R[i] = R[j] => i = j
  <2> TAKE i, j \in DOMAIN R
  <2> HAVE R[i] = R[j]
  <2>1. L[i][2] = L[j][2] /\ L[i][1] = L[j][1]
    <3>1. /\ L[i][2] \in 1..n /\ L[i][1] \in DOMAIN queues[L[i][2]]
          /\ L[j][2] \in 1..n /\ L[j][1] \in DOMAIN queues[L[j][2]]
      BY <1>5, <1>6
    <3>2. queues[L[i][2]][L[i][1]] = queues[L[j][2]][L[j][1]]
      BY <1>6
    <3> QED
      <4>1. PICK q \in 1..n : q = L[i][2]
        BY <3>1, Zenon
      <4>2. PICK r \in 1..n : r = L[j][2]
        BY <3>1, Zenon
      <4>3. PICK k \in DOMAIN queues[q] : k = L[i][1]
        BY <3>1, <4>1, Zenon
      <4>4. PICK l \in DOMAIN queues[r] : l = L[j][1]
        BY <3>1, <4>2, Zenon
      <4>5. queues[q][k] = queues[r][l]
        BY <3>2, <4>1, <4>2, <4>3, <4>4, Zenon
      <4>6. q = r /\ k = l
        BY <1>11, <4>5, Zenon
      <4> QED
        BY <4>1, <4>2, <4>3, <4>4, <4>6
  <2>2. L[i] = <<L[i][1], L[i][2]>> /\ L[j] = <<L[j][1], L[j][2]>>
    <3>1. L[i] \in Int \X Int /\ L[j] \in Int \X Int
      BY <1>1, <1>3, <1>6
    <3> QED
      BY <3>1
  <2>3. L[i] = L[j]
    BY <2>1, <2>2
  <2> QED
    BY <1>3, <1>6, <2>3
<1> QED
  BY <1>4, <1>8, <1>9, <1>10, <1>11

-----------------------------------------------------------------------------
(* The open questions, the aspects and the offers of hints.                *)

\* Aspects of some of the open questions.
AspectsOf(intake, numbers) ==
    [question : numbers, scope : {"generic_limited", "profiled_finite"},
     facts : SUBSET (DOMAIN intake.facts)]

\* The open questions are questions of the intake.
LEMMA OpenForm ==
    ASSUME NEW intake, IntakeAccepted(intake)
    PROVE  \E n \in Nat : OpenQuestions(intake) \in [1..n -> Range(intake.questions)]
<1> DEFINE S == {n \in DOMAIN intake.questions : intake.questions[n].open}
           O == Order(S)
<1>1. intake.questions \in Seq(Range(intake.questions))
  BY DEF IntakeAccepted
<1>2. /\ Len(intake.questions) \in Nat
      /\ DOMAIN intake.questions = 1..Len(intake.questions)
      /\ \A k \in DOMAIN intake.questions : intake.questions[k] \in Range(intake.questions)
  BY <1>1
<1>3. S \subseteq Int /\ IsFiniteSet(S) /\ S \subseteq DOMAIN intake.questions
  <2>1. IsFiniteSet(1..Len(intake.questions)) /\ S \in SUBSET (1..Len(intake.questions))
    BY <1>2, FS_Interval
  <2> QED
    BY <1>2, <2>1, FS_Subset
<1> HIDE DEF S
<1>4. Cardinality(S) \in Nat /\ O \in [1..Cardinality(S) -> S]
  BY <1>3, OrderIsOnto
<1>5. OpenQuestions(intake) = [n \in DOMAIN O |-> intake.questions[O[n]]]
  BY DEF OpenQuestions, S
<1> HIDE DEF O
<1>6. OpenQuestions(intake) \in [1..Cardinality(S) -> Range(intake.questions)]
  BY <1>2, <1>3, <1>4, <1>5
<1> QED
  BY <1>4, <1>6

\* A question has an aspect at least, and its aspects rest on facts of the intake.
LEMMA CandidatesForm ==
    ASSUME PlanningAssumption, NEW intake, IntakeAccepted(intake), NEW number \in Nat,
           NEW question \in Range(intake.questions)
    PROVE  /\ CandidateAspects(intake.facts, number, question) \in Seq(AspectsOf(intake, {number}))
           /\ CandidateAspects(intake.facts, number, question) # <<>>
<1> DEFINE C == CandidateAspects(intake.facts, number, question)
           A == AspectsOf(intake, {number})
<1>1. /\ question.matched \subseteq DOMAIN Catalog
      /\ question.depends \subseteq DOMAIN intake.facts
  BY DEF IntakeAccepted
<1>2. CASE question.matched = {}
  <2>1. GenericFacts(intake.facts, question) \subseteq DOMAIN intake.facts
    BY <1>1 DEF GenericFacts, Confirmed
  <2>2. C = << [question |-> number, scope |-> "generic_limited",
                facts |-> GenericFacts(intake.facts, question)] >>
    BY <1>2 DEF CandidateAspects
  <2>3. [question |-> number, scope |-> "generic_limited",
         facts |-> GenericFacts(intake.facts, question)] \in A
    BY <2>1 DEF AspectsOf
  <2> HIDE DEF A, C
  <2> QED
    BY <2>2, <2>3 DEF A, C
<1>3. CASE question.matched # {}
  <2> DEFINE T == UNION {{p} \X (DOMAIN Catalog[p]) : p \in question.matched}
             L == Lexical(T)
             m == Cardinality(T)
             Entry(i) == [question |-> number, scope |-> "profiled_finite",
                          facts |-> DimensionFacts(intake.facts, question, Catalog[L[i][1]][L[i][2]])]
  <2>1. /\ Len(Catalog) \in Nat /\ DOMAIN Catalog = 1..Len(Catalog)
        /\ \A p \in DOMAIN Catalog : /\ Catalog[p] # <<>> /\ Len(Catalog[p]) \in Nat
                                     /\ DOMAIN Catalog[p] = 1..Len(Catalog[p])
                                     /\ 1 \in DOMAIN Catalog[p]
    <3>1. Catalog \in Seq(Range(Catalog))
      BY DEF PlanningAssumption
    <3>2. ASSUME NEW p \in DOMAIN Catalog
          PROVE  /\ Catalog[p] # <<>> /\ Len(Catalog[p]) \in Nat
                 /\ DOMAIN Catalog[p] = 1..Len(Catalog[p]) /\ 1 \in DOMAIN Catalog[p]
      <4>1. Catalog[p] \in Seq(Range(Catalog[p])) /\ Catalog[p] # <<>>
        BY DEF PlanningAssumption
      <4> QED
        BY <4>1
    <3> QED
      BY <3>1, <3>2
  <2>2. /\ T \subseteq Int \X Int
        /\ \A c \in T : c[1] \in question.matched /\ c[2] \in DOMAIN Catalog[c[1]]
        /\ \A p \in question.matched : <<p, 1>> \in T
    BY <1>1, <2>1
  <2>3. IsFiniteSet(T)
    <3> DEFINE f == [p \in question.matched |-> {p} \X (DOMAIN Catalog[p])]
               P == {{p} \X (DOMAIN Catalog[p]) : p \in question.matched}
    <3>1. f \in Surjection(question.matched, P)
      BY DEF Surjection
    <3>2. IsFiniteSet(question.matched)
      <4>1. IsFiniteSet(1..Len(Catalog)) /\ question.matched \in SUBSET (1..Len(Catalog))
        BY <1>1, <2>1, FS_Interval
      <4> QED
        BY <4>1, FS_Subset
    <3>3. IsFiniteSet(P)
      <4> HIDE DEF f, P
      <4> QED
        BY <3>1, <3>2, FS_Surjection
    <3>4. \A p \in question.matched : IsFiniteSet({p} \X (DOMAIN Catalog[p]))
      <4> TAKE p \in question.matched
      <4>1. Len(Catalog[p]) \in Int /\ DOMAIN Catalog[p] = 1..Len(Catalog[p])
        BY <1>1, <2>1
      <4>2. IsFiniteSet(DOMAIN Catalog[p])
        BY <4>1, FS_Interval
      <4> QED
        BY <4>2, FS_Singleton, FS_Product
    <3> HIDE DEF f
    <3>5. \A S \in P : IsFiniteSet(S)
      BY <3>4
    <3> QED
      BY <3>3, <3>5, FS_UNION
  <2>4. C = [i \in DOMAIN L |-> Entry(i)]
    BY <1>3 DEF CandidateAspects
  <2> HIDE DEF T, C
  <2>5. /\ m \in Nat /\ L \in [1..m -> T]
        /\ \A x \in T : \E k \in 1..m : L[k] = x
    BY <2>2, <2>3, LexicalIsOnto
  <2>6. m # 0
    <3>1. PICK p \in question.matched : TRUE
      BY <1>3
    <3>2. PICK k \in 1..m : L[k] = <<p, 1>>
      BY <2>2, <2>5, <3>1
    <3> QED
      BY <2>5, <3>2
  <2> HIDE DEF L, m
  <2>7. ASSUME NEW i \in 1..m PROVE Entry(i) \in A
    <3>1. DimensionFacts(intake.facts, question, Catalog[L[i][1]][L[i][2]])
            \subseteq DOMAIN intake.facts
      BY <1>1 DEF DimensionFacts
    <3> QED
      BY <3>1 DEF AspectsOf
  <2> HIDE DEF Entry, A
  <2>8. C \in [1..m -> A]
    BY <2>4, <2>5, <2>7
  <2>9. C \in Seq(A) /\ Len(C) = m
    BY <2>5, <2>8
  <2>10. C # <<>>
    BY <2>5, <2>6, <2>9
  <2> QED
    BY <2>9, <2>10 DEF C, A
<1> QED
  BY <1>2, <1>3

\* Aspects are of open questions, rest on facts of the intake, and leave no open
\* question out.
LEMMA AspectsForm ==
    ASSUME PlanningAssumption, NEW intake, IntakeAccepted(intake)
    PROVE  /\ Aspects(intake) \in Seq(AspectsOf(intake, DOMAIN OpenQuestions(intake)))
           /\ \A q \in DOMAIN OpenQuestions(intake) : \E a \in DOMAIN Aspects(intake) :
                 Aspects(intake)[a].question = q
<1> DEFINE open == OpenQuestions(intake)
           A == AspectsOf(intake, DOMAIN open)
           queues == [n \in DOMAIN open |-> CandidateAspects(intake.facts, n, open[n])]
<1>1. PICK n \in Nat : open \in [1..n -> Range(intake.questions)]
  BY OpenForm
<1> HIDE DEF open
<1>2. ASSUME NEW q \in 1..n
      PROVE  /\ queues[q] \in Seq(AspectsOf(intake, {q})) /\ queues[q] # <<>>
             /\ queues[q] \in Seq(A)
  <2>1. q \in DOMAIN open /\ open[q] \in Range(intake.questions)
    BY <1>1
  <2>2. queues[q] = CandidateAspects(intake.facts, q, open[q])
    BY <2>1
  <2>3. queues[q] \in Seq(AspectsOf(intake, {q})) /\ queues[q] # <<>>
    <3>1. q \in Nat
      OBVIOUS
    <3> HIDE DEF queues
    <3> QED
      BY <2>1, <2>2, <3>1, CandidatesForm
  <2>4. AspectsOf(intake, {q}) \subseteq A
    BY <2>1 DEF AspectsOf
  <2> HIDE DEF queues, A
  <2>5. queues[q] \in Seq(A)
    BY <2>3, <2>4, SeqMonotonic
  <2> QED
    BY <2>3, <2>5
<1>3. queues \in [1..n -> Seq(A)]
  <2>1. DOMAIN open = 1..n
    BY <1>1
  <2> QED
    BY <1>2, <2>1
<1>4. Aspects(intake) = RoundRobin(queues)
  BY DEF Aspects, open
<1> HIDE DEF A
<1>5. Aspects(intake) \in Seq(A)
  <2> HIDE DEF queues
  <2> QED
    BY <1>3, <1>4, RoundForm
<1>6. ASSUME NEW q \in 1..n
      PROVE  \E a \in DOMAIN Aspects(intake) : Aspects(intake)[a].question = q
  <2> HIDE DEF queues
  <2>1. 1 \in DOMAIN queues[q] /\ queues[q][1] \in AspectsOf(intake, {q})
    <3>1. queues[q] \in Seq(AspectsOf(intake, {q})) /\ queues[q] # <<>>
      BY <1>2
    <3> QED
      BY <3>1
  <2>2. \A r \in 1..n : \A k \in DOMAIN queues[r] :
           \E i \in DOMAIN RoundRobin(queues) : RoundRobin(queues)[i] = queues[r][k]
    BY <1>3, RoundForm
  <2>3. PICK a \in DOMAIN Aspects(intake) : Aspects(intake)[a] = queues[q][1]
    BY <1>4, <2>1, <2>2
  <2> QED
    BY <2>1, <2>3 DEF AspectsOf
<1> QED
  BY <1>1, <1>5, <1>6 DEF A, open

\* No hint is offered to a question twice.
LEMMA OffersForm ==
    ASSUME NEW intake, IntakeAccepted(intake)
    PROVE  /\ Offers(intake) \in Seq([question : DOMAIN OpenQuestions(intake),
                                      hint : 1..Len(intake.hints)])
           /\ \A i, j \in DOMAIN Offers(intake) : Offers(intake)[i] = Offers(intake)[j] => i = j
<1> DEFINE D == DOMAIN OpenQuestions(intake)
           H(q) == HintsOf(intake, q)
           X == [question : D, hint : 1..Len(intake.hints)]
           queues == [q \in D |-> [i \in DOMAIN H(q) |-> [question |-> q, hint |-> H(q)[i]]]]
<1>1. PICK n \in Nat : D = 1..n
  BY OpenForm
<1>2. Len(intake.hints) \in Nat /\ DOMAIN intake.hints = 1..Len(intake.hints)
  <2>1. intake.hints \in Seq(Range(intake.hints))
    BY DEF IntakeAccepted
  <2> QED
    BY <2>1
<1>3. Offers(intake) = RoundRobin(queues)
  BY DEF Offers
<1> HIDE DEF D
<1>4. ASSUME NEW q \in 1..n
      PROVE  \E m \in Nat : /\ H(q) \in [1..m -> 1..Len(intake.hints)]
                            /\ \A i, j \in 1..m : H(q)[i] = H(q)[j] => i = j
  <2> DEFINE S == {h \in DOMAIN intake.hints : q \in intake.hints[h].questions}
  <2>1. S \subseteq Int /\ S \subseteq 1..Len(intake.hints) /\ IsFiniteSet(S)
    <3>1. IsFiniteSet(1..Len(intake.hints)) /\ S \in SUBSET (1..Len(intake.hints))
      BY <1>2, FS_Interval
    <3> QED
      BY <1>2, <3>1, FS_Subset
  <2>2. H(q) = Order(S)
    BY DEF HintsOf
  <2> HIDE DEF S, H
  <2>3. /\ Cardinality(S) \in Nat /\ Order(S) \in [1..Cardinality(S) -> S]
        /\ \A j, k \in 1..Cardinality(S) : Order(S)[j] = Order(S)[k] => j = k
    BY <2>1, OrderIsOnto
  <2>4. Order(S) \in [1..Cardinality(S) -> 1..Len(intake.hints)]
    BY <2>1, <2>3
  <2> QED
    BY <2>2, <2>3, <2>4
<1> HIDE DEF H
<1>5. ASSUME NEW q \in 1..n
      PROVE  /\ queues[q] \in Seq(X)
             /\ \A k \in DOMAIN queues[q] : /\ k \in DOMAIN H(q)
                                            /\ queues[q][k].question = q
                                            /\ queues[q][k].hint = H(q)[k]
  <2>1. PICK m \in Nat : H(q) \in [1..m -> 1..Len(intake.hints)]
    BY <1>4
  <2>2. q \in D
    BY <1>1
  <2>3. queues[q] = [i \in 1..m |-> [question |-> q, hint |-> H(q)[i]]]
    BY <2>1, <2>2
  <2>4. queues[q] \in [1..m -> X]
    BY <2>1, <2>2, <2>3
  <2>5. queues[q] \in Seq(X)
    <3> HIDE DEF queues, X
    <3> QED
      BY <2>4
  <2>6. DOMAIN queues[q] = 1..m
    BY <2>3
  <2> QED
    BY <2>1, <2>3, <2>5, <2>6
<1>6. queues \in [1..n -> Seq(X)]
  BY <1>1, <1>5
<1> HIDE DEF queues, X
<1>7. \A q, r \in 1..n : \A k \in DOMAIN queues[q], l \in DOMAIN queues[r] :
         queues[q][k] = queues[r][l] => q = r /\ k = l
  <2> SUFFICES ASSUME NEW q \in 1..n, NEW r \in 1..n, NEW k \in DOMAIN queues[q],
                      NEW l \in DOMAIN queues[r], queues[q][k] = queues[r][l]
               PROVE  q = r /\ k = l
    BY Zenon
  <2>1. q = r /\ H(q)[k] = H(r)[l] /\ k \in DOMAIN H(q) /\ l \in DOMAIN H(r)
    BY <1>5
  <2>2. PICK m \in Nat : /\ H(q) \in [1..m -> 1..Len(intake.hints)]
                         /\ \A i, j \in 1..m : H(q)[i] = H(q)[j] => i = j
    BY <1>4
  <2> QED
    BY <2>1, <2>2
<1>8. /\ Offers(intake) \in Seq(X)
      /\ \A i, j \in DOMAIN Offers(intake) : Offers(intake)[i] = Offers(intake)[j] => i = j
  <2>1. RoundRobin(queues) \in Seq(X)
    BY <1>6, RoundForm
  <2>2. (\A q, r \in 1..n : \A k \in DOMAIN queues[q], l \in DOMAIN queues[r] :
            queues[q][k] = queues[r][l] => q = r /\ k = l) =>
        \A i, j \in DOMAIN RoundRobin(queues) :
           RoundRobin(queues)[i] = RoundRobin(queues)[j] => i = j
    BY <1>6, RoundForm, ZenonT(40)
  <2>3. \A i, j \in DOMAIN RoundRobin(queues) :
           RoundRobin(queues)[i] = RoundRobin(queues)[j] => i = j
    BY <1>7, <2>2, Zenon
  <2> QED
    BY <1>3, <2>1, <2>3
<1> QED
  BY <1>8 DEF X, D

\* Induction: a set that holds 0 and the successor of each of its members holds every
\* number.  (Among the segments 1..n whose n it lacks there would be a smallest.)
LEMMA NatSet ==
    ASSUME NEW G, 0 \in G, \A n \in Nat : n \in G => n + 1 \in G
    PROVE  \A n \in Nat : n \in G
<1> SUFFICES ASSUME NEW b \in Nat, b \notin G PROVE FALSE
  OBVIOUS
<1> DEFINE bad == {1..n : n \in {k \in Nat : k \notin G}}
<1>1. bad \subseteq FiniteSubsetsOf(Nat) /\ bad # {}
  <2>1. \A n \in Nat : 1..n \subseteq Nat /\ IsFiniteSet(1..n)
    BY FS_Interval
  <2> QED
    BY <2>1 DEF FiniteSubsetsOf
<1>2. IsWellFoundedOn(StrictSubsetOrdering(Nat), FiniteSubsetsOf(Nat))
  BY FS_StrictSubsetOrderingWellFounded
<1>3. PICK x \in bad : \A y \in bad : ~ (<<y, x>> \in StrictSubsetOrdering(Nat))
  <2> HIDE DEF bad
  <2> QED
    BY <1>1, <1>2, WFMin
<1>4. PICK m \in Nat : m \notin G /\ x = 1..m
  BY <1>3
<1>5. m # 0 /\ m - 1 \in Nat /\ m - 1 \notin G
  BY <1>4
<1>6. 1..(m-1) \in bad
  BY <1>5
<1>7. 1..(m-1) \subseteq 1..m /\ 1..(m-1) # 1..m /\ 1..m \subseteq Nat /\ 1..(m-1) \subseteq Nat
  <2>1. m \in 1..m /\ m \notin 1..(m-1)
    BY <1>5
  <2> QED
    BY <2>1, <1>5
<1> QED
  BY <1>3, <1>4, <1>6, <1>7 DEF StrictSubsetOrdering

\* A set of numbers that is not empty has a least one, and Min is it.
LEMMA LeastNumber ==
    ASSUME NEW S, S \subseteq Nat, S # {}
    PROVE  Min(S) \in S /\ \A x \in S : Min(S) <= x
<1>1. \E x \in S : \A y \in S : x <= y
  <2> SUFFICES ASSUME \A x \in S : \E y \in S : ~(x <= y) PROVE FALSE
    OBVIOUS
  <2> DEFINE G == {n \in Nat : \A x \in S : n <= x}
  <2>1. 0 \in G
    OBVIOUS
  <2>2. ASSUME NEW n \in Nat, n \in G PROVE n + 1 \in G
    <3>1. n \notin S
      BY <2>2
    <3> QED
      BY <2>2, <3>1
  <2> HIDE DEF G
  <2>3. \A n \in Nat : n \in G
    BY <2>1, <2>2, NatSet
  <2>4. PICK x \in S : TRUE
    OBVIOUS
  <2>5. x + 1 \in G
    BY <2>3, <2>4
  <2> QED
    BY <2>4, <2>5 DEF G
<1> QED
  BY <1>1 DEF Min

-----------------------------------------------------------------------------
(* The tasks made of hints.                                                *)

\* Offers are taken in their order.
LEMMA TakeHintsForm ==
    ASSUME NEW offers, Len(offers) \in Nat, NEW aspects, NEW slots
    PROVE  \E f : /\ f[0] = <<>>
                  /\ \A k \in 1..Len(offers) : f[k] = TakeHint(aspects, slots, f[k - 1], offers[k])
                  /\ TakeHints(offers, aspects, slots) = f[Len(offers)]
<1> DEFINE N == Len(offers)
           Step(made, k) == TakeHint(aspects, slots, made, offers[k])
           Solves(g, n) == g = [k \in 0..n |-> IF k = 0 THEN <<>> ELSE Step(g[k - 1], k)]
           G == {n \in Nat : \E g : Solves(g, n)}
<1> HIDE DEF Step
<1>2. 0 \in G
  <2>1. Solves([k \in 0..0 |-> <<>>], 0)
    OBVIOUS
  <2> QED
    BY <2>1
<1>3. ASSUME NEW n \in Nat, n \in G PROVE n + 1 \in G
  <2>1. PICK g : Solves(g, n)
    BY <1>3
  <2> DEFINE h == [k \in 0..n + 1 |-> IF k <= n THEN g[k] ELSE Step(g[n], n + 1)]
  <2>2. /\ \A k \in 0..n : h[k] = g[k]
        /\ h[n + 1] = Step(g[n], n + 1)
        /\ h = [k \in 0..n + 1 |-> h[k]]
    <3>1. n + 1 \in 0..n + 1 /\ ~(n + 1 <= n)
      OBVIOUS
    <3> QED
      BY <3>1
  <2> HIDE DEF h
  <2>3. \A k \in 0..n : g[k] = IF k = 0 THEN <<>> ELSE Step(g[k - 1], k)
    BY <2>1
  <2>4. ASSUME NEW k \in 0..n + 1
        PROVE  h[k] = IF k = 0 THEN <<>> ELSE Step(h[k - 1], k)
    <3>1. CASE k = n + 1
      <4>1. k # 0 /\ k - 1 = n /\ n \in 0..n
        BY <3>1
      <4> QED
        BY <2>2, <3>1, <4>1
    <3>2. CASE k \in 0..n
      <4>1. k # 0 => k - 1 \in 0..n
        BY <3>2
      <4> QED
        BY <2>2, <2>3, <3>2, <4>1
    <3> QED
      BY <3>1, <3>2
  <2>5. Solves(h, n + 1)
    BY <2>2, <2>4
  <2> QED
    BY <2>5
<1>4. N \in G
  <2> HIDE DEF G
  <2>1. \A n \in Nat : n \in G => n + 1 \in G
    BY <1>3
  <2> QED
    BY <1>2, <2>1, NatSet
<1> DEFINE f == CHOOSE g : Solves(g, N)
<1>5. TakeHints(offers, aspects, slots) = f[N]
  BY DEF TakeHints, Step
<1>6. Solves(f, N)
  BY <1>4
<1> HIDE DEF f
<1>7. f[0] = <<>> /\ \A k \in 1..N : f[k] = Step(f[k - 1], k)
  BY <1>6
<1> QED
  BY <1>5, <1>7 DEF Step

\* Tasks that hints may become.
HintsMade(aspects, hints) == [aspect : DOMAIN aspects, required : {FALSE}, hint : hints]

\* The tasks made so far: as many as there is room for, each of another offer among the
\* first k ones, and at least one query less for each aspect than it may have.
MadeInv(aspects, offers, hints, slots, made, k) ==
    /\ made \in Seq(HintsMade(aspects, hints))
    /\ Len(made) <= slots
    /\ \A t \in DOMAIN made : \E i \in 1..k :
          made[t].hint = offers[i].hint /\ aspects[made[t].aspect].question = offers[i].question
    /\ \A t, u \in DOMAIN made : made[t] = made[u] => t = u
    /\ \A a \in DOMAIN aspects : Cardinality({t \in DOMAIN made : made[t].aspect = a}) < MaxQueries

\* An offer keeps to the room that is left and repeats no task.
LEMMA HintStep ==
    ASSUME PlanningAssumption, NEW A, NEW aspects \in Seq(A), NEW D, NEW hints,
           \A q \in D : \E a \in DOMAIN aspects : aspects[a].question = q,
           NEW offers \in Seq([question : D, hint : hints]),
           \A i, j \in DOMAIN offers : offers[i] = offers[j] => i = j,
           NEW slots \in Nat, NEW k \in 1..Len(offers), NEW made,
           MadeInv(aspects, offers, hints, slots, made, k - 1)
    PROVE  MadeInv(aspects, offers, hints, slots, TakeHint(aspects, slots, made, offers[k]), k)
<1> DEFINE offer == offers[k]
           options == {a \in DOMAIN aspects : aspects[a].question = offer.question}
           Queries(a) == 1 + Cardinality({t \in DOMAIN made : made[t].aspect = a})
           fewest == {a \in options : \A b \in options : Queries(a) <= Queries(b)}
           new == [aspect |-> Min(fewest), required |-> FALSE, hint |-> offer.hint]
           after == TakeHint(aspects, slots, made, offer)
<1>1. /\ Len(aspects) \in Nat /\ DOMAIN aspects = 1..Len(aspects)
      /\ Len(offers) \in Nat /\ DOMAIN offers = 1..Len(offers)
      /\ offer.question \in D /\ offer.hint \in hints
      /\ \A i \in DOMAIN offers : offers[i] = [question |-> offers[i].question, hint |-> offers[i].hint]
  <2>1. /\ Len(aspects) \in Nat /\ DOMAIN aspects = 1..Len(aspects)
        /\ Len(offers) \in Nat /\ DOMAIN offers = 1..Len(offers)
    BY LenProperties
  <2>2. \A i \in 1..Len(offers) : offers[i] \in [question : D, hint : hints]
    BY ElementOfSeq
  <2> QED
    BY <2>1, <2>2
<1>2. /\ made \in Seq(HintsMade(aspects, hints)) /\ Len(made) \in Nat
      /\ DOMAIN made = 1..Len(made)
      /\ \A t \in DOMAIN made : made[t] \in HintsMade(aspects, hints)
  BY DEF MadeInv
<1>3. ASSUME NEW a PROVE Cardinality({t \in DOMAIN made : made[t].aspect = a}) \in Nat
  <2>1. IsFiniteSet(1..Len(made)) /\ {t \in DOMAIN made : made[t].aspect = a} \in SUBSET (1..Len(made))
    BY <1>2, FS_Interval
  <2> QED
    BY <2>1, FS_Subset, FS_CardinalityType
<1>31. ASSUME NEW a PROVE Queries(a) \in Nat
  <2> DEFINE c == Cardinality({t \in DOMAIN made : made[t].aspect = a})
  <2>1. c \in Nat
    BY <1>3
  <2>2. Queries(a) = 1 + c
    OBVIOUS
  <2> HIDE DEF c, Queries
  <2> QED
    BY <2>1, <2>2
<1>4. Min(fewest) \in fewest
  <2> DEFINE Q == {Queries(a) : a \in options}
  <2>1. Q \subseteq Nat /\ Q # {}
    <3>1. options # {}
      BY <1>1
    <3> HIDE DEF Queries, options
    <3> QED
      BY <1>31, <3>1
  <2>2. Min(Q) \in Q /\ \A x \in Q : Min(Q) <= x
    <3> HIDE DEF Q
    <3> QED
      BY <2>1, LeastNumber
  <2>3. PICK a \in options : Queries(a) = Min(Q)
    BY <2>2
  <2>4. a \in fewest
    <3>1. \A b \in options : Queries(b) \in Q
      <4> HIDE DEF Queries, options
      <4> QED
        OBVIOUS
    <3> HIDE DEF Queries, options, Q
    <3> QED
      BY <2>2, <2>3, <3>1
  <2>5. fewest # {} /\ fewest \subseteq Nat
    <3>1. options \subseteq 1..Len(aspects)
      BY <1>1
    <3>2. fewest \subseteq options
      OBVIOUS
    <3>3. 1..Len(aspects) \subseteq Nat
      BY <1>1
    <3> HIDE DEF Queries, fewest, options
    <3> QED
      BY <2>4, <3>1, <3>2, <3>3
  <2> HIDE DEF fewest
  <2> QED
    BY <2>5, LeastNumber
<1>5. after = IF Len(made) >= slots \/ Queries(Min(fewest)) >= MaxQueries
                THEN made ELSE Append(made, new)
  BY DEF TakeHint
<1>6. CASE after = made
  <2>1. 1..k - 1 \subseteq 1..k
    OBVIOUS
  <2> QED
    BY <1>6, <2>1 DEF MadeInv
<1>7. CASE after # made
  <2> DEFINE n == Len(made)
  <2>1. /\ after = Append(made, new) /\ n < slots /\ Queries(Min(fewest)) < MaxQueries
    <3>1. ~(Len(made) >= slots) /\ ~(Queries(Min(fewest)) >= MaxQueries) /\ after = Append(made, new)
      <4> HIDE DEF Queries, new, fewest, after
      <4> QED
        BY <1>5, <1>7
    <3>2. Queries(Min(fewest)) \in Nat /\ MaxQueries \in Nat
      BY <1>31 DEF PlanningAssumption
    <3> HIDE DEF Queries, new, fewest, after
    <3> QED
      BY <1>2, <3>1, <3>2
  <2>2. /\ Min(fewest) \in DOMAIN aspects /\ aspects[Min(fewest)].question = offer.question
    BY <1>4
  <2>3. new \in HintsMade(aspects, hints)
    BY <1>1, <2>2 DEF HintsMade
  <2> HIDE DEF new, after
  <2>4. /\ after \in Seq(HintsMade(aspects, hints)) /\ Len(after) = n + 1
        /\ DOMAIN after = 1..n + 1 /\ after[n + 1] = new
        /\ \A t \in 1..n : after[t] = made[t]
    BY <1>2, <2>1, <2>3
  <2>5. /\ new.aspect = Min(fewest) /\ new.hint = offer.hint
    BY DEF new
  <2>6. ASSUME NEW t \in 1..n + 1
        PROVE  \E i \in 1..k : /\ after[t].hint = offers[i].hint
                               /\ aspects[after[t].aspect].question = offers[i].question
    <3>1. CASE t = n + 1
      <4>1. k \in 1..k
        OBVIOUS
      <4>2. after[t].hint = offers[k].hint /\ aspects[after[t].aspect].question = offers[k].question
        <5> HIDE DEF fewest
        <5> QED
          BY <2>2, <2>4, <2>5, <3>1
      <4> QED
        BY <4>1, <4>2
    <3>2. CASE t \in 1..n
      <4>1. PICK i \in 1..k - 1 : /\ made[t].hint = offers[i].hint
                                  /\ aspects[made[t].aspect].question = offers[i].question
        BY <1>2, <3>2 DEF MadeInv
      <4>2. i \in 1..k
        OBVIOUS
      <4> QED
        BY <2>4, <3>2, <4>1, <4>2
    <3> QED
      BY <1>2, <3>1, <3>2
  <2>7. \A t \in 1..n : made[t] # new
    <3> TAKE t \in 1..n
    <3>1. PICK i \in 1..k - 1 : /\ made[t].hint = offers[i].hint
                                /\ aspects[made[t].aspect].question = offers[i].question
      BY <1>2 DEF MadeInv
    <3>2. i \in DOMAIN offers /\ k \in DOMAIN offers /\ i # k
      BY <1>1
    <3>3. offers[i] # offers[k]
      BY <3>2
    <3>4. offers[i].question # offers[k].question \/ offers[i].hint # offers[k].hint
      BY <1>1, <3>2, <3>3
    <3> QED
      BY <2>2, <2>5, <3>1, <3>4
  <2>8. \A t, u \in 1..n + 1 : after[t] = after[u] => t = u
    <3>1. \A t, u \in 1..n : made[t] = made[u] => t = u
      BY <1>2 DEF MadeInv
    <3>2. \A t \in 1..n + 1 : t = n + 1 \/ t \in 1..n
      BY <1>2
    <3> SUFFICES ASSUME NEW t \in 1..n + 1, NEW u \in 1..n + 1, after[t] = after[u] PROVE t = u
      BY Zenon
    <3>3. CASE t \in 1..n /\ u \in 1..n
      BY <2>4, <3>1, <3>3
    <3>4. CASE t = n + 1 /\ u \in 1..n
      BY <2>4, <2>7, <3>4
    <3>5. CASE t \in 1..n /\ u = n + 1
      BY <2>4, <2>7, <3>5
    <3> QED
      BY <3>2, <3>3, <3>4, <3>5
  <2>9. ASSUME NEW a \in DOMAIN aspects
        PROVE  Cardinality({t \in 1..n + 1 : after[t].aspect = a}) < MaxQueries
    <3> DEFINE S == {t \in DOMAIN made : made[t].aspect = a}
               T == {t \in 1..n + 1 : after[t].aspect = a}
    <3>1. Cardinality(S) \in Nat /\ IsFiniteSet(S) /\ Cardinality(S) < MaxQueries
      <4>1. IsFiniteSet(1..n) /\ S \in SUBSET (1..n)
        BY <1>2, FS_Interval
      <4> QED
        BY <1>3, <4>1, FS_Subset DEF MadeInv
    <3>2. CASE a = Min(fewest)
      <4>1. T = S \cup {n + 1} /\ n + 1 \notin S
        <5>1. \A t : t \in 1..n + 1 <=> t \in 1..n \/ t = n + 1
          BY <1>2
        <5>2. n + 1 \notin 1..n /\ DOMAIN made = 1..n
          BY <1>2
        <5>3. after[n + 1].aspect = a
          BY <2>4, <2>5, <3>2
        <5> QED
          BY <2>4, <5>1, <5>2, <5>3
      <4>2. Cardinality(T) = Cardinality(S) + 1
        <5> HIDE DEF S, T
        <5> QED
          BY <3>1, <4>1, FS_AddElement
      <4>3. 1 + Cardinality(S) < MaxQueries
        BY <2>1, <3>2
      <4> QED
        BY <3>1, <4>2, <4>3
    <3>3. CASE a # Min(fewest)
      <4>1. T = S
        BY <1>2, <2>4, <2>5, <3>3, SMTT(30)
      <4> QED
        BY <3>1, <4>1
    <3> QED
      BY <3>2, <3>3
  <2> QED
    <3>1. Len(after) <= slots
      BY <1>2, <2>1, <2>4
    <3> HIDE DEF fewest
    <3>2. \A t \in DOMAIN after : \E i \in 1..k :
             /\ after[t].hint = offers[i].hint
             /\ aspects[after[t].aspect].question = offers[i].question
      BY <2>4, <2>6
    <3>3. \A t, u \in DOMAIN after : after[t] = after[u] => t = u
      BY <2>4, <2>8
    <3>4. \A a \in DOMAIN aspects :
             Cardinality({t \in DOMAIN after : after[t].aspect = a}) < MaxQueries
      BY <2>4, <2>9
    <3>5. MadeInv(aspects, offers, hints, slots, after, k)
      BY <2>4, <3>1, <3>2, <3>3, <3>4, Zenon DEF MadeInv
    <3> QED
      BY <3>5 DEF after, offer
<1> QED
  BY <1>6, <1>7 DEF after, offer

\* Hints become distinct tasks, no more than there is room for and than an aspect may have.
LEMMA HintsForm ==
    ASSUME PlanningAssumption, NEW A, NEW aspects \in Seq(A), NEW D, NEW hints,
           \A q \in D : \E a \in DOMAIN aspects : aspects[a].question = q,
           NEW offers \in Seq([question : D, hint : hints]),
           \A i, j \in DOMAIN offers : offers[i] = offers[j] => i = j,
           NEW slots \in Nat
    PROVE  MadeInv(aspects, offers, hints, slots, TakeHints(offers, aspects, slots), Len(offers))
<1> DEFINE N == Len(offers)
           Good(made, k) == MadeInv(aspects, offers, hints, slots, made, k)
<1>1. N \in Nat
  OBVIOUS
<1>2. PICK f : /\ f[0] = <<>>
               /\ \A k \in 1..N : f[k] = TakeHint(aspects, slots, f[k - 1], offers[k])
               /\ TakeHints(offers, aspects, slots) = f[N]
  <2> HIDE DEF N
  <2>1. \E f : /\ f[0] = <<>>
               /\ \A k \in 1..Len(offers) : f[k] = TakeHint(aspects, slots, f[k - 1], offers[k])
               /\ TakeHints(offers, aspects, slots) = f[Len(offers)]
    BY <1>1, TakeHintsForm DEF N
  <2> QED
    BY <2>1 DEF N
<1> DEFINE G == {n \in Nat : n <= N => Good(f[n], n)}
<1>3. 0 \in G
  <2>1. \A a \in DOMAIN aspects : {t \in DOMAIN <<>> : <<>>[t].aspect = a} = {}
    OBVIOUS
  <2>2. <<>> \in Seq(HintsMade(aspects, hints)) /\ Len(<<>>) = 0 /\ DOMAIN <<>> = {}
    OBVIOUS
  <2>3. Good(<<>>, 0)
    BY <2>1, <2>2, FS_EmptySet DEF MadeInv, PlanningAssumption
  <2> QED
    BY <1>2, <2>3
<1>4. ASSUME NEW n \in Nat, n \in G PROVE n + 1 \in G
  <2> SUFFICES ASSUME n + 1 <= N PROVE Good(f[n + 1], n + 1)
    OBVIOUS
  <2>1. n + 1 \in 1..N /\ n + 1 - 1 = n
    BY <1>1
  <2>2. Good(f[n + 1 - 1], n + 1 - 1)
    BY <1>4, <2>1, <1>1
  <2>3. f[n + 1] = TakeHint(aspects, slots, f[n + 1 - 1], offers[n + 1])
    BY <1>2, <2>1
  <2> DEFINE k == n + 1
  <2>4. k \in 1..Len(offers) /\ MadeInv(aspects, offers, hints, slots, f[k - 1], k - 1)
    BY <2>1, <2>2
  <2> HIDE DEF k
  <2>5. MadeInv(aspects, offers, hints, slots, TakeHint(aspects, slots, f[k - 1], offers[k]), k)
    BY <2>4, HintStep
  <2> QED
    BY <2>3, <2>5 DEF k
<1>5. N \in G
  <2> HIDE DEF G
  <2>1. \A n \in Nat : n \in G
    BY <1>3, <1>4, NatSet
  <2> QED
    BY <1>1, <2>1
<1> QED
  BY <1>1, <1>2, <1>5

-----------------------------------------------------------------------------
(* Taking turns.                                                           *)

\* How many of the first n places of out are of x.
Count(f, out, x, n) == Cardinality({m \in 1..n : f[out[m]] = x})

\* Everybody up to the one served last has had at most one turn more than the others, and
\* whoever still waits has had all of them.
Even(f, members, waiting, out, cursor) ==
    \E b \in Nat : \A x \in members :
      LET due == IF x <= cursor THEN b + 1 ELSE b
      IN /\ Count(f, out, x, Len(out)) <= due
         /\ x \in waiting => Count(f, out, x, Len(out)) = due

\* Whoever was two turns behind had no turn afterwards, and waits for none.
NobodyLeft(f, members, waiting, out) ==
    \A n \in 0..Len(out) : \A x, y \in members :
      Count(f, out, x, n) > Count(f, out, y, n) + 1
        => y \notin waiting /\ \A m \in n + 1..Len(out) : f[out[m]] # y

\* Turns are counted in natural numbers.
LEMMA CountIsNat ==
    ASSUME NEW f, NEW out, NEW x, NEW n \in Nat
    PROVE  /\ Count(f, out, x, n) \in Nat
           /\ IsFiniteSet({m \in 1..n : f[out[m]] = x})
<1>1. IsFiniteSet(1..n) /\ {m \in 1..n : f[out[m]] = x} \in SUBSET (1..n)
  BY FS_Interval
<1> QED
  BY <1>1, FS_Subset, FS_CardinalityType DEF Count

\* One more turn counts for the one who has it.
LEMMA CountOfTurn ==
    ASSUME NEW T, NEW out \in Seq(T), NEW task \in T, NEW f, NEW x
    PROVE  /\ \A n \in 0..Len(out) : Count(f, Append(out, task), x, n) = Count(f, out, x, n)
           /\ Count(f, Append(out, task), x, Len(out) + 1) =
                IF f[task] = x THEN Count(f, out, x, Len(out)) + 1 ELSE Count(f, out, x, Len(out))
<1> DEFINE after == Append(out, task)
           N == Len(out)
           S == {m \in 1..N : f[out[m]] = x}
           R == {m \in 1..N + 1 : f[after[m]] = x}
<1>1. /\ N \in Nat /\ after[N + 1] = task /\ \A m \in 1..N : after[m] = out[m]
  OBVIOUS
<1> HIDE DEF after, N
<1>2. ASSUME NEW n \in 0..N PROVE Count(f, after, x, n) = Count(f, out, x, n)
  <2>1. \A m \in 1..n : m \in 1..N
    BY <1>1
  <2>2. {m \in 1..n : f[after[m]] = x} = {m \in 1..n : f[out[m]] = x}
    BY <1>1, <2>1
  <2> QED
    BY <2>2 DEF Count
<1>3. Count(f, out, x, N) = Cardinality(S) /\ Cardinality(S) \in Nat /\ IsFiniteSet(S)
  <2>1. Count(f, out, x, N) = Cardinality(S)
    BY DEF Count
  <2>2. IsFiniteSet(1..N) /\ S \in SUBSET (1..N)
    BY <1>1, FS_Interval
  <2> QED
    BY <2>1, <2>2, FS_Subset, FS_CardinalityType
<1>4. Count(f, after, x, N + 1) = Cardinality(R)
  BY DEF Count
<1>5. \A m : m \in 1..N + 1 <=> m \in 1..N \/ m = N + 1
  BY <1>1
<1>6. N + 1 \notin 1..N
  BY <1>1
<1>7. CASE f[task] = x
  <2>1. R = S \cup {N + 1} /\ N + 1 \notin S
    BY <1>1, <1>5, <1>6, <1>7
  <2>2. Cardinality(R) = Cardinality(S) + 1
    <3> HIDE DEF R, S
    <3> QED
      BY <1>3, <2>1, FS_AddElement
  <2> QED
    BY <1>2, <1>3, <1>4, <1>7, <2>2 DEF after, N
<1>8. CASE f[task] # x
  <2>1. R = S
    BY <1>1, <1>5, <1>6, <1>8
  <2> QED
    BY <1>2, <1>3, <1>4, <1>8, <2>1 DEF after, N
<1> QED
  BY <1>7, <1>8

\* Nobody who is two turns behind is waiting.
LEMMA EvenIsFair ==
    ASSUME NEW f, NEW members, members \subseteq Nat, NEW waiting, NEW T, NEW out \in Seq(T),
           NEW cursor \in Nat, Even(f, members, waiting, out, cursor),
           NEW x \in members, NEW y \in members,
           Count(f, out, x, Len(out)) > Count(f, out, y, Len(out)) + 1
    PROVE  y \notin waiting
<1> DEFINE cx == Count(f, out, x, Len(out))
           cy == Count(f, out, y, Len(out))
<1>1. PICK b \in Nat : \A z \in members :
         /\ Count(f, out, z, Len(out)) <= (IF z <= cursor THEN b + 1 ELSE b)
         /\ z \in waiting => Count(f, out, z, Len(out)) = IF z <= cursor THEN b + 1 ELSE b
  BY DEF Even
<1>2. cx \in Nat /\ cy \in Nat
  <2>1. Len(out) \in Nat
    OBVIOUS
  <2> QED
    BY <2>1, CountIsNat
<1>3. cx <= (IF x <= cursor THEN b + 1 ELSE b)
  BY <1>1
<1>4. y \in waiting => cy = IF y <= cursor THEN b + 1 ELSE b
  BY <1>1
<1>5. cx > cy + 1
  OBVIOUS
<1> HIDE DEF cx, cy
<1> QED
  BY <1>2, <1>3, <1>4, <1>5

\* A turn of the next one who waits.
LEMMA EvenTurn ==
    ASSUME NEW f, NEW members, members \subseteq Nat, NEW waiting, waiting \subseteq members,
           waiting # {}, NEW T, NEW out \in Seq(T), NEW cursor \in Nat,
           Even(f, members, waiting, out, cursor), NobodyLeft(f, members, waiting, out),
           NEW task \in T, f[task] = NextAfter(waiting, cursor),
           NEW rest, rest \subseteq waiting
    PROVE  /\ f[task] \in waiting
           /\ Even(f, members, rest, Append(out, task), f[task])
           /\ NobodyLeft(f, members, rest, Append(out, task))
<1> DEFINE after == Append(out, task)
           N == Len(out)
           j == f[task]
           ahead == {w \in waiting : w > cursor}
           C(x) == Count(f, out, x, N)
           D(x) == Count(f, after, x, N + 1)
<1>1. N \in Nat /\ after \in Seq(T) /\ Len(after) = N + 1 /\ after[N + 1] = task
      /\ \A m \in 1..N : after[m] = out[m]
  OBVIOUS
<1>2. /\ j \in waiting
      /\ ahead # {} => j > cursor /\ \A w \in waiting : w > cursor => j <= w
      /\ ahead = {} => \A w \in waiting : w <= cursor /\ j <= w
  <2>1. CASE ahead # {}
    <3>1. ahead \subseteq Nat /\ j = Min(ahead)
      BY <2>1 DEF NextAfter
    <3>2. Min(ahead) \in ahead /\ \A w \in ahead : Min(ahead) <= w
      <4> HIDE DEF ahead
      <4> QED
        BY <2>1, <3>1, LeastNumber
    <3> QED
      BY <2>1, <3>1, <3>2
  <2>2. CASE ahead = {}
    <3>1. waiting \subseteq Nat /\ j = Min(waiting)
      BY <2>2 DEF NextAfter
    <3>2. Min(waiting) \in waiting /\ \A w \in waiting : Min(waiting) <= w
      BY <3>1, LeastNumber
    <3>3. \A w \in waiting : w <= cursor
      BY <2>2, <3>1
    <3> QED
      BY <2>2, <3>1, <3>2, <3>3
  <2> QED
    BY <2>1, <2>2
<1>3. j \in Nat /\ j \in members
  BY <1>2
<1>4. ASSUME NEW x PROVE /\ C(x) \in Nat /\ D(x) = IF j = x THEN C(x) + 1 ELSE C(x)
                         /\ \A n \in 0..N : Count(f, after, x, n) = Count(f, out, x, n)
  <2>1. C(x) \in Nat
    BY <1>1, CountIsNat
  <2>2. /\ \A n \in 0..Len(out) : Count(f, Append(out, task), x, n) = Count(f, out, x, n)
        /\ Count(f, Append(out, task), x, Len(out) + 1) =
             IF f[task] = x THEN Count(f, out, x, Len(out)) + 1 ELSE Count(f, out, x, Len(out))
    BY CountOfTurn
  <2> QED
    BY <2>1, <2>2
<1>5. PICK b \in Nat : \A x \in members :
         /\ C(x) <= (IF x <= cursor THEN b + 1 ELSE b)
         /\ x \in waiting => C(x) = IF x <= cursor THEN b + 1 ELSE b
  BY DEF Even
<1> HIDE DEF j, C, D, N, after
<1>6. Even(f, members, rest, after, j)
  <2>1. CASE ahead # {}
    <3>1. ASSUME NEW x \in members
          PROVE  /\ D(x) <= (IF x <= j THEN b + 1 ELSE b)
                 /\ x \in rest => D(x) = IF x <= j THEN b + 1 ELSE b
      <4>1. j > cursor /\ (x \in waiting /\ x > cursor => j <= x)
        BY <1>2, <2>1
      <4>2. /\ C(x) \in Nat /\ D(x) = IF j = x THEN C(x) + 1 ELSE C(x)
            /\ C(x) <= (IF x <= cursor THEN b + 1 ELSE b)
            /\ x \in waiting => C(x) = IF x <= cursor THEN b + 1 ELSE b
        BY <1>4, <1>5
      <4>3. x \in Nat /\ j \in waiting /\ (x \in rest => x \in waiting)
        BY <1>2
      <4> HIDE DEF ahead
      <4>4. CASE x = j
        BY <1>3, <4>1, <4>2, <4>3, <4>4
      <4>5. CASE x # j
        BY <1>3, <4>1, <4>2, <4>3, <4>5
      <4> QED
        BY <4>4, <4>5
    <3> QED
      BY <1>1, <3>1 DEF Even, D
  <2>2. CASE ahead = {}
    <3>1. ASSUME NEW x \in members
          PROVE  /\ D(x) <= (IF x <= j THEN b + 1 + 1 ELSE b + 1)
                 /\ x \in rest => D(x) = IF x <= j THEN b + 1 + 1 ELSE b + 1
      <4>1. j <= cursor /\ (x \in waiting => x <= cursor /\ j <= x)
        BY <1>2, <2>2
      <4>2. /\ C(x) \in Nat /\ D(x) = IF j = x THEN C(x) + 1 ELSE C(x)
            /\ C(x) <= (IF x <= cursor THEN b + 1 ELSE b)
            /\ x \in waiting => C(x) = IF x <= cursor THEN b + 1 ELSE b
        BY <1>4, <1>5
      <4>3. x \in Nat /\ j \in waiting /\ (x \in rest => x \in waiting)
        BY <1>2
      <4> HIDE DEF ahead
      <4>4. CASE x = j
        BY <1>3, <4>1, <4>2, <4>3, <4>4
      <4>5. CASE x # j
        BY <1>3, <4>1, <4>2, <4>3, <4>5
      <4> QED
        BY <4>4, <4>5
    <3>2. b + 1 \in Nat
      OBVIOUS
    <3> QED
      BY <1>1, <3>1, <3>2 DEF Even, D
  <2> QED
    BY <2>1, <2>2
<1>7. NobodyLeft(f, members, rest, after)
  <2> SUFFICES ASSUME NEW n \in 0..N + 1, NEW x \in members, NEW y \in members,
                      Count(f, after, x, n) > Count(f, after, y, n) + 1
               PROVE  y \notin rest /\ \A m \in n + 1..N + 1 : f[after[m]] # y
    BY <1>1 DEF NobodyLeft
  <2>1. CASE n = N + 1
    <3>1. n + 1..N + 1 = {}
      BY <1>1, <2>1
    <3>2. y \notin rest
      BY <1>1, <1>3, <1>6, <2>1, EvenIsFair
    <3> QED
      BY <3>1, <3>2
  <2>2. CASE n \in 0..N
    <3>1. Count(f, out, x, n) > Count(f, out, y, n) + 1
      BY <1>4, <2>2
    <3>2. y \notin waiting /\ \A m \in n + 1..N : f[out[m]] # y
      BY <2>2, <3>1 DEF NobodyLeft, N
    <3>3. \A m \in n + 1..N + 1 : m = N + 1 \/ (m \in n + 1..N /\ m \in 1..N)
      BY <1>1, <2>2
    <3>4. f[after[N + 1]] # y
      BY <1>1, <1>2, <3>2 DEF j
    <3> QED
      BY <1>1, <3>2, <3>3, <3>4
  <2> QED
    BY <1>1, <2>1, <2>2
<1> QED
  BY <1>2, <1>6, <1>7 DEF j, after

\* A turn of somebody else.
LEMMA EvenElsewhere ==
    ASSUME NEW f, NEW members, members \subseteq Nat, NEW waiting,
           NEW T, NEW out \in Seq(T), NEW cursor \in Nat,
           Even(f, members, waiting, out, cursor), NobodyLeft(f, members, waiting, out),
           NEW task \in T, f[task] \notin members,
           NEW rest, rest \subseteq waiting
    PROVE  /\ Even(f, members, rest, Append(out, task), cursor)
           /\ NobodyLeft(f, members, rest, Append(out, task))
<1> DEFINE after == Append(out, task)
           N == Len(out)
<1>1. N \in Nat /\ after \in Seq(T) /\ Len(after) = N + 1 /\ after[N + 1] = task
      /\ \A m \in 1..N : after[m] = out[m]
  OBVIOUS
<1>2. ASSUME NEW x \in members
      PROVE  /\ Count(f, after, x, N + 1) = Count(f, out, x, N)
             /\ \A n \in 0..N : Count(f, after, x, n) = Count(f, out, x, n)
  BY CountOfTurn
<1> HIDE DEF N, after
<1>3. Even(f, members, rest, after, cursor)
  <2>1. PICK b \in Nat : \A x \in members :
         /\ Count(f, out, x, N) <= (IF x <= cursor THEN b + 1 ELSE b)
         /\ x \in waiting => Count(f, out, x, N) = IF x <= cursor THEN b + 1 ELSE b
    BY DEF Even, N
  <2>2. \A x \in members :
         /\ Count(f, after, x, N + 1) <= (IF x <= cursor THEN b + 1 ELSE b)
         /\ x \in rest => Count(f, after, x, N + 1) = IF x <= cursor THEN b + 1 ELSE b
    BY <1>2, <2>1
  <2> QED
    BY <1>1, <2>2 DEF Even
<1>4. NobodyLeft(f, members, rest, after)
  <2> SUFFICES ASSUME NEW n \in 0..N + 1, NEW x \in members, NEW y \in members,
                      Count(f, after, x, n) > Count(f, after, y, n) + 1
               PROVE  y \notin rest /\ \A m \in n + 1..N + 1 : f[after[m]] # y
    BY <1>1 DEF NobodyLeft
  <2>1. CASE n = N + 1
    <3>1. n + 1..N + 1 = {}
      BY <1>1, <2>1
    <3>2. y \notin rest
      BY <1>1, <1>3, <2>1, EvenIsFair
    <3> QED
      BY <3>1, <3>2
  <2>2. CASE n \in 0..N
    <3>1. Count(f, out, x, n) > Count(f, out, y, n) + 1
      BY <1>2, <2>2
    <3>2. y \notin waiting /\ \A m \in n + 1..N : f[out[m]] # y
      BY <2>2, <3>1 DEF NobodyLeft, N
    <3>3. \A m \in n + 1..N + 1 : m = N + 1 \/ (m \in n + 1..N /\ m \in 1..N)
      BY <1>1, <2>2
    <3>4. f[after[N + 1]] # y
      BY <1>1
    <3> QED
      BY <1>1, <3>2, <3>3, <3>4
  <2> QED
    BY <1>1, <2>1, <2>2
<1> QED
  BY <1>3, <1>4 DEF after

-----------------------------------------------------------------------------
(* One lane.                                                               *)

\* A lane before its first turn.
LaneStart(own) == [left |-> own, turn |-> 0, cursor |-> [t \in own |-> 0], out |-> <<>>]

\* A lane takes its turns one after the other.
LEMMA LaneTurnsForm ==
    ASSUME NEW own, Cardinality(own) \in Nat, NEW question, NEW aspect
    PROVE  /\ LaneTurns(own, question, aspect)[0] = LaneStart(own)
           /\ \A k \in 1..Cardinality(own) : LaneTurns(own, question, aspect)[k] =
                 TakeTurn(LaneTurns(own, question, aspect)[k - 1], question, aspect)
<1> DEFINE N == Cardinality(own)
           Start == LaneStart(own)
           Step(state) == TakeTurn(state, question, aspect)
           Solves(g, n) == g = [k \in 0..n |-> IF k = 0 THEN Start ELSE Step(g[k - 1])]
           G == {n \in Nat : \E g : Solves(g, n)}
<1> HIDE DEF Step, Start
<1>2. 0 \in G
  <2>1. Solves([k \in 0..0 |-> Start], 0)
    OBVIOUS
  <2> QED
    BY <2>1
<1>3. ASSUME NEW n \in Nat, n \in G PROVE n + 1 \in G
  <2>1. PICK g : Solves(g, n)
    BY <1>3
  <2> DEFINE h == [k \in 0..n + 1 |-> IF k <= n THEN g[k] ELSE Step(g[n])]
  <2>2. /\ \A k \in 0..n : h[k] = g[k]
        /\ h[n + 1] = Step(g[n])
        /\ h = [k \in 0..n + 1 |-> h[k]]
    <3>1. n + 1 \in 0..n + 1 /\ ~(n + 1 <= n)
      OBVIOUS
    <3> QED
      BY <3>1
  <2> HIDE DEF h
  <2>3. \A k \in 0..n : g[k] = IF k = 0 THEN Start ELSE Step(g[k - 1])
    BY <2>1
  <2>4. ASSUME NEW k \in 0..n + 1
        PROVE  h[k] = IF k = 0 THEN Start ELSE Step(h[k - 1])
    <3>1. CASE k = n + 1
      <4>1. k # 0 /\ k - 1 = n /\ n \in 0..n
        BY <3>1
      <4> QED
        BY <2>2, <3>1, <4>1
    <3>2. CASE k \in 0..n
      <4>1. k # 0 => k - 1 \in 0..n
        BY <3>2
      <4> QED
        BY <2>2, <2>3, <3>2, <4>1
    <3> QED
      BY <3>1, <3>2
  <2>5. Solves(h, n + 1)
    BY <2>2, <2>4
  <2> QED
    BY <2>5
<1>4. N \in G
  <2> HIDE DEF G
  <2>1. \A n \in Nat : n \in G => n + 1 \in G
    BY <1>3
  <2> QED
    BY <1>2, <2>1, NatSet
<1> DEFINE f == CHOOSE g : Solves(g, N)
<1>5. LaneTurns(own, question, aspect) = f
  BY DEF LaneTurns, Step, Start, LaneStart
<1>6. Solves(f, N)
  BY <1>4
<1> HIDE DEF f
<1>7. f[0] = Start /\ \A k \in 1..N : f[k] = Step(f[k - 1])
  BY <1>6
<1> QED
  BY <1>5, <1>7 DEF Step, Start

\* Whom the tasks of S are for.
Names(f, S) == {f[t] : t \in S}

\* The state of a lane after k turns: each task is left or has had one turn, and turns
\* were fair, among the questions and among the aspects of each.
LaneInv(own, question, aspect, s, k) ==
    /\ s.left \subseteq own /\ Cardinality(s.left) = Cardinality(own) - k
    /\ s.turn \in Nat /\ s.cursor \in [own -> Nat]
    /\ s.out \in Seq(own) /\ Len(s.out) = k
    /\ \A t \in own : t \in s.left <=> \A m \in 1..k : s.out[m] # t
    /\ \A m, n \in 1..k : s.out[m] = s.out[n] => m = n
    /\ Even(question, Names(question, own), Names(question, s.left), s.out, s.turn)
    /\ NobodyLeft(question, Names(question, own), Names(question, s.left), s.out)
    /\ \A q \in own :
         /\ Even(aspect, Names(aspect, {t \in own : question[t] = q}),
                 Names(aspect, {t \in s.left : question[t] = q}), s.out, s.cursor[q])
         /\ NobodyLeft(aspect, Names(aspect, {t \in own : question[t] = q}),
                       Names(aspect, {t \in s.left : question[t] = q}), s.out)

\* Who is served was waiting.
LEMMA NextWaits ==
    ASSUME NEW waiting, waiting \subseteq Nat, waiting # {}, NEW cursor
    PROVE  NextAfter(waiting, cursor) \in waiting
<1> DEFINE ahead == {w \in waiting : w > cursor}
<1>1. CASE ahead # {}
  <2>1. ahead \subseteq Nat /\ NextAfter(waiting, cursor) = Min(ahead)
    BY <1>1 DEF NextAfter
  <2>2. Min(ahead) \in ahead
    <3> HIDE DEF ahead
    <3> QED
      BY <1>1, <2>1, LeastNumber
  <2> QED
    BY <2>1, <2>2
<1>2. CASE ahead = {}
  BY <1>2, LeastNumber DEF NextAfter
<1> QED
  BY <1>1, <1>2

\* A turn keeps a lane even.
LEMMA LaneStep ==
    ASSUME NEW own, own \subseteq Nat, IsFiniteSet(own),
           NEW question \in [own -> own], NEW aspect \in [own -> own],
           \A t, u \in own : aspect[t] = aspect[u] => question[t] = question[u],
           NEW k \in 1..Cardinality(own), NEW s, LaneInv(own, question, aspect, s, k - 1)
    PROVE  LaneInv(own, question, aspect, TakeTurn(s, question, aspect), k)
<1> DEFINE N == Cardinality(own)
           waiting == Names(question, s.left)
           q == NextAfter(waiting, s.turn)
           behind(r) == Names(aspect, {t \in s.left : question[t] = r})
           members(r) == Names(aspect, {t \in own : question[t] = r})
           a == NextAfter(behind(q), s.cursor[q])
           options == {t \in s.left : aspect[t] = a}
           task == Min(options)
           left == s.left \ {task}
           after == Append(s.out, task)
           cursor == [s.cursor EXCEPT ![q] = a]
           now == TakeTurn(s, question, aspect)
<1>1. N \in Nat /\ k \in Nat /\ k - 1 \in Nat /\ k <= N
  BY FS_CardinalityType
<1>2. /\ s.left \subseteq own /\ Cardinality(s.left) = N - (k - 1) /\ IsFiniteSet(s.left)
      /\ s.left # {}
  <2>1. s.left \subseteq own /\ Cardinality(s.left) = N - (k - 1)
    BY DEF LaneInv
  <2>2. IsFiniteSet(s.left)
    BY <2>1, FS_Subset
  <2>3. Cardinality(s.left) # 0
    <3> HIDE DEF N
    <3> QED
      BY <1>1, <2>1
  <2> QED
    BY <2>1, <2>2, <2>3, FS_EmptySet
<1>3. now = [left |-> left, turn |-> q, cursor |-> cursor, out |-> after]
  <2>1. waiting = {question[t] : t \in s.left}
        /\ behind(q) = {aspect[t] : t \in {u \in s.left : question[u] = q}}
    BY DEF Names
  <2> QED
    BY <2>1 DEF TakeTurn
<1>4. q \in waiting /\ waiting \subseteq own
  <2>1. waiting \subseteq own
    BY <1>2 DEF Names
  <2>2. waiting # {}
    <3>1. PICK t \in s.left : TRUE
      BY <1>2
    <3>2. question[t] \in waiting
      BY <3>1 DEF Names
    <3> QED
      BY <3>2
  <2> HIDE DEF waiting
  <2>3. waiting \subseteq Nat
    BY <2>1
  <2> QED
    BY <2>1, <2>2, <2>3, NextWaits
<1> HIDE DEF q
<1>5. a \in behind(q) /\ behind(q) \subseteq own
  <2>1. behind(q) \subseteq own
    BY <1>2 DEF Names
  <2>2. behind(q) # {}
    BY <1>4 DEF Names
  <2> HIDE DEF behind
  <2> QED
    BY <2>1, <2>2, NextWaits
<1> HIDE DEF a
<1>6. task \in s.left /\ task \in own /\ aspect[task] = a
  <2>1. options \subseteq Nat /\ options # {}
    BY <1>2, <1>5 DEF Names
  <2>2. task \in options
    <3> HIDE DEF options
    <3> QED
      BY <2>1, LeastNumber
  <2> QED
    BY <1>2, <2>2
<1> HIDE DEF task
<1>7. question[task] = q
  <2>1. PICK t \in s.left : aspect[t] = a /\ question[t] = q
    BY <1>5 DEF Names
  <2> QED
    BY <1>2, <1>6, <2>1
<1>8. /\ s.turn \in Nat /\ s.cursor \in [own -> Nat]
      /\ s.out \in Seq(own) /\ Len(s.out) = k - 1
      /\ \A t \in own : t \in s.left <=> \A m \in 1..k - 1 : s.out[m] # t
      /\ \A m, n \in 1..k - 1 : s.out[m] = s.out[n] => m = n
  BY DEF LaneInv
<1>9. /\ after \in Seq(own) /\ Len(after) = k /\ after[k] = task
      /\ \A m \in 1..k - 1 : after[m] = s.out[m]
  BY <1>1, <1>6, <1>8
<1>10. left \subseteq own /\ Cardinality(left) = N - k
  <2>1. Cardinality(left) = Cardinality(s.left) - 1
    BY <1>2, <1>6, FS_RemoveElement
  <2> HIDE DEF left, N
  <2>2. Cardinality(left) = N - k
    BY <1>1, <1>2, <2>1
  <2> QED
    BY <1>2, <2>2 DEF left
<1>11. q \in Nat /\ a \in Nat /\ cursor \in [own -> Nat] /\ cursor[q] = a
       /\ \A r \in own : r # q => cursor[r] = s.cursor[r]
  BY <1>4, <1>5, <1>8
<1>12. ASSUME NEW t \in own PROVE t \in left <=> \A m \in 1..k : after[m] # t
  <2>1. \A m : m \in 1..k <=> m \in 1..k - 1 \/ m = k
    BY <1>1
  <2> HIDE DEF after
  <2> QED
    BY <1>6, <1>8, <1>9, <2>1, ZenonT(40)
<1>13. \A m, n \in 1..k : after[m] = after[n] => m = n
  <2>1. \A m : m \in 1..k <=> m \in 1..k - 1 \/ m = k
    BY <1>1
  <2>2. \A m \in 1..k - 1 : after[m] # task
    BY <1>6, <1>8, <1>9
  <2> HIDE DEF after
  <2> SUFFICES ASSUME NEW m \in 1..k, NEW n \in 1..k, after[m] = after[n] PROVE m = n
    BY Zenon
  <2>3. CASE m \in 1..k - 1 /\ n \in 1..k - 1
    BY <1>8, <1>9, <2>3
  <2>4. CASE m = k /\ n \in 1..k - 1
    BY <1>9, <2>2, <2>4
  <2>5. CASE m \in 1..k - 1 /\ n = k
    BY <1>9, <2>2, <2>5
  <2> QED
    BY <2>1, <2>3, <2>4, <2>5
<1>14. /\ Even(question, Names(question, own), Names(question, left), after, q)
       /\ NobodyLeft(question, Names(question, own), Names(question, left), after)
  <2> DEFINE all == Names(question, own)
             rest == Names(question, left)
  <2>1. /\ all \subseteq Nat /\ waiting \subseteq all /\ rest \subseteq waiting /\ waiting # {}
    BY <1>2, <1>4 DEF Names
  <2>2. /\ Even(question, all, waiting, s.out, s.turn) /\ NobodyLeft(question, all, waiting, s.out)
    BY DEF LaneInv
  <2>3. question[task] = NextAfter(waiting, s.turn)
    BY <1>7 DEF q
  <2> HIDE DEF all, rest, waiting, after
  <2>4. /\ Even(question, all, rest, Append(s.out, task), question[task])
        /\ NobodyLeft(question, all, rest, Append(s.out, task))
    BY <1>6, <1>8, <2>1, <2>2, <2>3, EvenTurn, ZenonT(40)
  <2> QED
    BY <1>7, <2>4 DEF all, rest, after
<1>15. ASSUME NEW r \in own
       PROVE  /\ Even(aspect, members(r), Names(aspect, {t \in left : question[t] = r}),
                      after, cursor[r])
              /\ NobodyLeft(aspect, members(r), Names(aspect, {t \in left : question[t] = r}), after)
  <2> DEFINE all == members(r)
             before == behind(r)
             rest == Names(aspect, {t \in left : question[t] = r})
  <2>1. /\ all \subseteq Nat /\ before \subseteq all /\ rest \subseteq before
    <3>1. all \subseteq Nat
      BY DEF Names
    <3>2. left \subseteq s.left /\ s.left \subseteq own
      BY <1>2
    <3> HIDE DEF left
    <3>3. before \subseteq all
      BY <3>2 DEF Names
    <3>4. rest \subseteq before
      BY <3>2 DEF Names
    <3> QED
      BY <3>1, <3>3, <3>4
  <2>2. /\ Even(aspect, all, before, s.out, s.cursor[r])
        /\ NobodyLeft(aspect, all, before, s.out)
    BY DEF LaneInv
  <2>3. CASE r = q
    <3>1. before # {} /\ aspect[task] = NextAfter(before, s.cursor[r])
      BY <1>5, <1>6, <2>3 DEF a
    <3>2. s.cursor[r] \in Nat
      BY <1>8
    <3> HIDE DEF all, before, rest, after
    <3>3. /\ Even(aspect, all, rest, Append(s.out, task), aspect[task])
          /\ NobodyLeft(aspect, all, rest, Append(s.out, task))
      BY <1>6, <1>8, <2>1, <2>2, <3>1, <3>2, EvenTurn, ZenonT(40)
    <3> QED
      BY <1>6, <1>11, <2>3, <3>3 DEF all, rest, after
  <2>4. CASE r # q
    <3>1. aspect[task] \notin all
      BY <1>6, <1>7, <2>4 DEF Names
    <3>2. s.cursor[r] \in Nat /\ cursor[r] = s.cursor[r]
      BY <1>8, <1>11, <2>4
    <3> HIDE DEF all, before, rest, after
    <3>3. /\ Even(aspect, all, rest, Append(s.out, task), s.cursor[r])
          /\ NobodyLeft(aspect, all, rest, Append(s.out, task))
      BY <1>6, <1>8, <2>1, <2>2, <3>1, <3>2, EvenElsewhere
    <3> QED
      BY <3>2, <3>3 DEF all, rest, after
  <2> QED
    BY <2>3, <2>4
<1>16. now.left = left /\ now.turn = q /\ now.cursor = cursor /\ now.out = after
  BY <1>3
<1> HIDE DEF now, left, after, cursor, members
<1>17. LaneInv(own, question, aspect, now, k)
  <2>1. /\ now.left \subseteq own /\ Cardinality(now.left) = Cardinality(own) - k
        /\ now.turn \in Nat /\ now.cursor \in [own -> Nat]
        /\ now.out \in Seq(own) /\ Len(now.out) = k
    BY <1>9, <1>10, <1>11, <1>16
  <2>2. /\ \A t \in own : t \in now.left <=> \A m \in 1..k : now.out[m] # t
        /\ \A m, n \in 1..k : now.out[m] = now.out[n] => m = n
    BY <1>12, <1>13, <1>16
  <2>3. /\ Even(question, Names(question, own), Names(question, now.left), now.out, now.turn)
        /\ NobodyLeft(question, Names(question, own), Names(question, now.left), now.out)
    BY <1>14, <1>16
  <2>4. \A r \in own :
         /\ Even(aspect, Names(aspect, {t \in own : question[t] = r}),
                 Names(aspect, {t \in now.left : question[t] = r}), now.out, now.cursor[r])
         /\ NobodyLeft(aspect, Names(aspect, {t \in own : question[t] = r}),
                       Names(aspect, {t \in now.left : question[t] = r}), now.out)
    BY <1>15, <1>16 DEF members
  <2> HIDE DEF N
  <2> QED
    BY <2>1, <2>2, <2>3, <2>4, Zenon DEF LaneInv
<1> QED
  BY <1>17 DEF now

\* A lane is even after all of its turns.
LEMMA LaneForm ==
    ASSUME NEW own, own \subseteq Nat \ {0}, IsFiniteSet(own),
           NEW question \in [own -> own], NEW aspect \in [own -> own],
           \A t, u \in own : aspect[t] = aspect[u] => question[t] = question[u]
    PROVE  LaneInv(own, question, aspect, LaneTurns(own, question, aspect)[Cardinality(own)],
                   Cardinality(own))
<1> DEFINE N == Cardinality(own)
           turns == LaneTurns(own, question, aspect)
           G == {n \in Nat : n <= N => LaneInv(own, question, aspect, turns[n], n)}
<1>1. N \in Nat
  BY FS_CardinalityType
<1>2. turns[0] = LaneStart(own) /\ \A k \in 1..N : turns[k] = TakeTurn(turns[k - 1], question, aspect)
  BY <1>1, LaneTurnsForm
<1> HIDE DEF turns
<1>3. 0 \in G
  <2> DEFINE s == LaneStart(own)
  <2>1. s.left = own /\ s.turn = 0 /\ s.cursor = [t \in own |-> 0] /\ s.out = <<>>
    BY DEF LaneStart
  <2>2. <<>> \in Seq(own) /\ Len(<<>>) = 0 /\ 1..0 = {}
    OBVIOUS
  <2>3. ASSUME NEW f, NEW members, members \subseteq Nat \ {0}, NEW waiting
        PROVE  Even(f, members, waiting, <<>>, 0) /\ NobodyLeft(f, members, waiting, <<>>)
    <3>1. ASSUME NEW x PROVE Count(f, <<>>, x, 0) = 0
      <4>1. {m \in 1..0 : f[<<>>[m]] = x} = {}
        BY <2>2
      <4> QED
        BY <4>1, FS_EmptySet DEF Count
    <3>2. \A x \in members : ~(x <= 0)
      BY <2>3
    <3>3. Even(f, members, waiting, <<>>, 0)
      <4>1. \A x \in members : LET due == IF x <= 0 THEN 0 + 1 ELSE 0
              IN /\ Count(f, <<>>, x, 0) <= due
                 /\ x \in waiting => Count(f, <<>>, x, 0) = due
        BY <3>1, <3>2
      <4> QED
        BY <2>2, <4>1 DEF Even
    <3>4. NobodyLeft(f, members, waiting, <<>>)
      <4>1. \A n \in 0..0 : \A x, y \in members : ~(Count(f, <<>>, x, n) > Count(f, <<>>, y, n) + 1)
        BY <3>1
      <4> QED
        BY <2>2, <4>1 DEF NobodyLeft
    <3> QED
      BY <3>3, <3>4
  <2>4. Names(question, own) \subseteq Nat \ {0}
    BY DEF Names
  <2>5. \A q \in own : Names(aspect, {t \in own : question[t] = q}) \subseteq Nat \ {0}
    BY DEF Names
  <2> HIDE DEF s
  <2>6. /\ Even(question, Names(question, own), Names(question, s.left), s.out, s.turn)
        /\ NobodyLeft(question, Names(question, own), Names(question, s.left), s.out)
    BY <2>1, <2>3, <2>4
  <2>7. \A q \in own :
         /\ Even(aspect, Names(aspect, {t \in own : question[t] = q}),
                 Names(aspect, {t \in s.left : question[t] = q}), s.out, s.cursor[q])
         /\ NobodyLeft(aspect, Names(aspect, {t \in own : question[t] = q}),
                       Names(aspect, {t \in s.left : question[t] = q}), s.out)
    <3> TAKE q \in own
    <3>1. s.cursor[q] = 0
      BY <2>1
    <3> QED
      BY <2>1, <2>3, <2>5, <3>1
  <2>8. /\ s.left \subseteq own /\ Cardinality(s.left) = N - 0
        /\ s.turn \in Nat /\ s.cursor \in [own -> Nat]
        /\ s.out \in Seq(own) /\ Len(s.out) = 0
        /\ \A t \in own : t \in s.left <=> \A m \in 1..0 : s.out[m] # t
        /\ \A m, n \in 1..0 : s.out[m] = s.out[n] => m = n
    BY <1>1, <2>1, <2>2
  <2>9. LaneInv(own, question, aspect, s, 0)
    BY <2>6, <2>7, <2>8 DEF LaneInv
  <2> QED
    BY <1>2, <2>9 DEF s
<1>4. ASSUME NEW n \in Nat, n \in G PROVE n + 1 \in G
  <2> SUFFICES ASSUME n + 1 <= N PROVE LaneInv(own, question, aspect, turns[n + 1], n + 1)
    OBVIOUS
  <2> DEFINE k == n + 1
  <2>1. k \in 1..N /\ k - 1 = n
    BY <1>1
  <2>2. LaneInv(own, question, aspect, turns[k - 1], k - 1)
    BY <1>1, <1>4, <2>1
  <2>3. turns[k] = TakeTurn(turns[k - 1], question, aspect)
    BY <1>2, <2>1
  <2> HIDE DEF k
  <2>4. LaneInv(own, question, aspect, TakeTurn(turns[k - 1], question, aspect), k)
    <3>1. own \subseteq Nat
      OBVIOUS
    <3> QED
      BY <2>1, <2>2, <3>1, LaneStep
  <2> QED
    BY <2>3, <2>4 DEF k
<1>5. N \in G
  <2> HIDE DEF G
  <2>1. \A n \in Nat : n \in G
    BY <1>3, <1>4, NatSet
  <2> QED
    BY <1>1, <2>1
<1> QED
  BY <1>1, <1>5 DEF turns

\* How many of the first n places of out are in S.
Hits(out, S, n) == Cardinality({m \in 1..n : out[m] \in S})

\* T has no place after it fell two behind S.
Passed(out, S, T) ==
    \A n \in 0..Len(out) :
      Hits(out, S, n) > Hits(out, T, n) + 1 => \A m \in n + 1..Len(out) : out[m] \notin T

\* Where nobody is left behind, none of two groups passes the other.
LEMMA PassedOfNobodyLeft ==
    ASSUME NEW own, NEW f \in [own -> own], NEW out \in Seq(own), NEW waiting,
           NobodyLeft(f, Names(f, own), waiting, out),
           NEW t \in own, NEW u \in own,
           NEW A, A = {w \in own : f[w] = f[t]}, NEW B, B = {w \in own : f[w] = f[u]}
    PROVE  Passed(out, A, B)
<1> DEFINE S(x) == {w \in own : f[w] = f[x]}
           N == Len(out)
<1>1. N \in Nat /\ \A m \in 1..N : out[m] \in own
  BY ElementOfSeq
<1> HIDE DEF N
<1>2. ASSUME NEW n \in 0..N, NEW x \in own PROVE Hits(out, S(x), n) = Count(f, out, f[x], n)
  <2>1. \A m \in 1..n : m \in 1..N
    BY <1>1
  <2>2. {m \in 1..n : out[m] \in S(x)} = {m \in 1..n : f[out[m]] = f[x]}
    BY <1>1, <2>1
  <2> QED
    BY <2>2 DEF Hits, Count
<1>3. ASSUME NEW n \in 0..N, Hits(out, S(t), n) > Hits(out, S(u), n) + 1
      PROVE  \A m \in n + 1..N : out[m] \notin S(u)
  <2>1. f[t] \in Names(f, own) /\ f[u] \in Names(f, own)
    BY DEF Names
  <2>2. Count(f, out, f[t], n) > Count(f, out, f[u], n) + 1
    BY <1>2, <1>3
  <2>3. \A m \in n + 1..N : f[out[m]] # f[u]
    BY <2>1, <2>2 DEF NobodyLeft, N
  <2> QED
    BY <2>3
<1>4. A = S(t) /\ B = S(u)
  OBVIOUS
<1> HIDE DEF S
<1> QED
  BY <1>3, <1>4 DEF Passed, N

\* Tasks of a lane that share the question of t, and those that share its aspect.
SameQuestion(aspects, tasks, own, t) ==
    {w \in own : aspects[tasks[w].aspect].question = aspects[tasks[t].aspect].question}

SameAspect(tasks, own, t) == {w \in own : tasks[w].aspect = tasks[t].aspect}

\* A lane lists its tasks, each once, and is fair to the questions and to the aspects of each.
LaneIsFair(aspects, tasks, own, out) ==
    /\ out \in Seq(own) /\ Len(out) = Cardinality(own)
    /\ \A t \in own : \E m \in 1..Len(out) : out[m] = t
    /\ \A m, n \in 1..Len(out) : out[m] = out[n] => m = n
    /\ \A t, u \in own : Passed(out, SameQuestion(aspects, tasks, own, t),
                                    SameQuestion(aspects, tasks, own, u))
    /\ \A t, u \in own :
         aspects[tasks[t].aspect].question = aspects[tasks[u].aspect].question =>
           Passed(out, SameAspect(tasks, own, t), SameAspect(tasks, own, u))

\* round_robin_lane lists the tasks of its lane, each once, and is fair.
LEMMA RoundRobinForm ==
    ASSUME NEW aspects, NEW tasks, Len(tasks) \in Nat, DOMAIN tasks = 1..Len(tasks), NEW lane
    PROVE  /\ LaneTasks(tasks, lane) \subseteq DOMAIN tasks /\ IsFiniteSet(LaneTasks(tasks, lane))
           /\ LaneIsFair(aspects, tasks, LaneTasks(tasks, lane), RoundRobinLane(aspects, tasks, lane))
<1> DEFINE own == LaneTasks(tasks, lane)
           out == RoundRobinLane(aspects, tasks, lane)
           N == Cardinality(own)
<1>0. own = LaneTasks(tasks, lane) /\ out = RoundRobinLane(aspects, tasks, lane) /\ N = Cardinality(own)
  OBVIOUS
<1> HIDE DEF own, out, N
<1> DEFINE Q == [t \in own |-> aspects[tasks[t].aspect].question]
           A == [t \in own |-> tasks[t].aspect]
           question == [t \in own |-> Min({u \in own : Q[u] = Q[t]})]
           aspect == [t \in own |-> Min({u \in own : A[u] = A[t]})]
           s == LaneTurns(own, question, aspect)[N]
<1>1. own \subseteq DOMAIN tasks /\ own \subseteq Nat \ {0} /\ own \subseteq Nat /\ IsFiniteSet(own)
  <2>1. IsFiniteSet(1..Len(tasks)) /\ own \in SUBSET (1..Len(tasks))
    BY <1>0, FS_Interval DEF LaneTasks
  <2> QED
    <3>1. IsFiniteSet(own)
      BY <2>1, FS_Subset
    <3>2. own \subseteq 1..Len(tasks) /\ 1..Len(tasks) \subseteq Nat \ {0}
      BY <2>1
    <3> QED
      BY <3>1, <3>2
<1>2. N \in Nat
  BY <1>0, <1>1, FS_CardinalityType
<1>3. out = s.out
  <2>1. /\ \A t \in own : Q[t] = aspects[tasks[t].aspect].question
        /\ \A t \in own : A[t] = tasks[t].aspect
    OBVIOUS
  <2>2. question = [t \in own |-> Min({u \in own : aspects[tasks[u].aspect].question
                                                     = aspects[tasks[t].aspect].question})]
    <3>1. \A t \in own : {u \in own : Q[u] = Q[t]}
            = {u \in own : aspects[tasks[u].aspect].question = aspects[tasks[t].aspect].question}
      BY <2>1
    <3> HIDE DEF Q
    <3> QED
      BY <3>1
  <2>3. aspect = [t \in own |-> Min({u \in own : tasks[u].aspect = tasks[t].aspect})]
    <3>1. \A t \in own : {u \in own : A[u] = A[t]} = {u \in own : tasks[u].aspect = tasks[t].aspect}
      BY <2>1
    <3> HIDE DEF A
    <3> QED
      BY <3>1
  <2> HIDE DEF question, aspect
  <2> QED
    BY <1>0, <2>2, <2>3 DEF RoundRobinLane
<1>4. /\ question \in [own -> own] /\ \A t, u \in own : question[t] = question[u] <=> Q[t] = Q[u]
      /\ aspect \in [own -> own] /\ \A t, u \in own : aspect[t] = aspect[u] <=> A[t] = A[u]
  <2> HIDE DEF Q, A
  <2>1. ASSUME NEW t \in own
        PROVE  /\ question[t] \in own /\ Q[question[t]] = Q[t]
               /\ aspect[t] \in own /\ A[aspect[t]] = A[t]
    <3> DEFINE S == {u \in own : Q[u] = Q[t]}
               T == {u \in own : A[u] = A[t]}
    <3>1. S \subseteq Nat /\ S # {} /\ T \subseteq Nat /\ T # {}
      BY <1>1
    <3>2. question[t] = Min(S) /\ aspect[t] = Min(T)
      OBVIOUS
    <3>3. Min(S) \in S /\ Min(T) \in T
      <4> HIDE DEF S, T
      <4> QED
        BY <3>1, LeastNumber
    <3> HIDE DEF question, aspect
    <3> QED
      BY <3>2, <3>3
  <2>2. \A t, u \in own : /\ Q[t] = Q[u] => question[t] = question[u]
                          /\ A[t] = A[u] => aspect[t] = aspect[u]
    OBVIOUS
  <2>3. question = [t \in own |-> question[t]] /\ aspect = [t \in own |-> aspect[t]]
    OBVIOUS
  <2> HIDE DEF question, aspect
  <2>4. question \in [own -> own] /\ aspect \in [own -> own]
    BY <2>1, <2>3
  <2> QED
    BY <2>1, <2>2, <2>4
<1>5. \A t, u \in own : A[t] = A[u] => Q[t] = Q[u]
  OBVIOUS
<1>51. \A t, u \in own : aspect[t] = aspect[u] => question[t] = question[u]
  <2> HIDE DEF Q, A, question, aspect
  <2> QED
    BY <1>4, <1>5
<1>6. LaneInv(own, question, aspect, s, N)
  <2> HIDE DEF question, aspect, Q, A
  <2>1. own \subseteq Nat \ {0}
    BY <1>1
  <2>2. IsFiniteSet(own)
    BY <1>1
  <2>3. question \in [own -> own]
    BY <1>4
  <2>4. aspect \in [own -> own]
    BY <1>4
  <2>5. LaneInv(own, question, aspect, LaneTurns(own, question, aspect)[Cardinality(own)],
                Cardinality(own))
    BY ONLY <1>51, <2>1, <2>2, <2>3, <2>4, LaneForm
  <2> QED
    BY <1>0, <2>5
<1> HIDE DEF s, question, aspect
<1>7. /\ out \in Seq(own) /\ Len(out) = N
      /\ \A t \in own : t \in s.left <=> \A m \in 1..N : out[m] # t
      /\ \A m, n \in 1..N : out[m] = out[n] => m = n
      /\ s.left \subseteq own /\ Cardinality(s.left) = N - N
  BY <1>0, <1>3, <1>6 DEF LaneInv
<1>8. s.left = {}
  <2>1. IsFiniteSet(s.left)
    BY <1>1, <1>7, FS_Subset
  <2> QED
    BY <1>2, <1>7, <2>1, FS_EmptySet
<1>9. \A t \in own : \E m \in 1..N : out[m] = t
  BY <1>7, <1>8
<1>10. ASSUME NEW t \in own, NEW u \in own
       PROVE  Passed(out, {w \in own : Q[w] = Q[t]}, {w \in own : Q[w] = Q[u]})
  <2>1. NobodyLeft(question, Names(question, own), Names(question, s.left), out)
    BY <1>3, <1>6 DEF LaneInv
  <2>2. Passed(out, {w \in own : question[w] = question[t]}, {w \in own : question[w] = question[u]})
    <3>1. question \in [own -> own] /\ out \in Seq(own)
      BY <1>4, <1>7
    <3> DEFINE X == {w \in own : question[w] = question[t]}
               Y == {w \in own : question[w] = question[u]}
    <3>2. X = {w \in own : question[w] = question[t]} /\ Y = {w \in own : question[w] = question[u]}
      OBVIOUS
    <3> HIDE DEF X, Y
    <3>3. Passed(out, X, Y)
      BY <2>1, <3>1, <3>2, PassedOfNobodyLeft
    <3> QED
      BY <3>3 DEF X, Y
  <2>3. /\ {w \in own : question[w] = question[t]} = {w \in own : Q[w] = Q[t]}
        /\ {w \in own : question[w] = question[u]} = {w \in own : Q[w] = Q[u]}
    <3> HIDE DEF Q
    <3> QED
      BY <1>4
  <2> QED
    BY <2>2, <2>3
<1>11. ASSUME NEW t \in own, NEW u \in own, Q[t] = Q[u]
       PROVE  Passed(out, {w \in own : A[w] = A[t]}, {w \in own : A[w] = A[u]})
  <2> DEFINE S(x) == {w \in own : aspect[w] = aspect[x]}
             members == Names(aspect, {w \in own : question[w] = question[t]})
  <2>1. NobodyLeft(aspect, members, Names(aspect, {w \in s.left : question[w] = question[t]}), out)
    <3>1. question[t] \in own
      BY <1>4
    <3> QED
      BY <1>3, <1>6, <3>1 DEF LaneInv
  <2>2. aspect[t] \in members /\ aspect[u] \in members
    <3>1. question[u] = question[t]
      BY <1>4, <1>11
    <3> QED
      BY <3>1 DEF Names
  <2>3. \A n \in 0..N : Count(aspect, out, aspect[t], n) > Count(aspect, out, aspect[u], n) + 1
          => \A m \in n + 1..N : aspect[out[m]] # aspect[u]
    <3>1. \A n \in 0..Len(out) : \A x, y \in members :
             Count(aspect, out, x, n) > Count(aspect, out, y, n) + 1
               => \A m \in n + 1..Len(out) : aspect[out[m]] # y
      BY <2>1 DEF NobodyLeft
    <3> HIDE DEF members
    <3> QED
      BY <1>7, <2>2, <3>1
  <2>4. ASSUME NEW n \in 0..N, NEW x \in own
        PROVE  Hits(out, S(x), n) = Count(aspect, out, aspect[x], n)
    <3>1. \A m \in 1..n : m \in 1..N
      BY <1>2
    <3>2. \A m \in 1..N : out[m] \in own
      BY <1>2, <1>7, ElementOfSeq
    <3>3. {m \in 1..n : out[m] \in S(x)} = {m \in 1..n : aspect[out[m]] = aspect[x]}
      BY <3>1, <3>2
    <3> QED
      BY <3>3 DEF Hits, Count
  <2>5. Passed(out, S(t), S(u))
    <3>1. ASSUME NEW n \in 0..N, Hits(out, S(t), n) > Hits(out, S(u), n) + 1
          PROVE  \A m \in n + 1..N : out[m] \notin S(u)
      BY <2>3, <2>4, <3>1
    <3> HIDE DEF S
    <3> QED
      BY <1>7, <3>1 DEF Passed
  <2>6. S(t) = {w \in own : A[w] = A[t]} /\ S(u) = {w \in own : A[w] = A[u]}
    <3> HIDE DEF A
    <3> QED
      BY <1>4
  <2> QED
    BY <2>5, <2>6
<1>12. ASSUME NEW t \in own
       PROVE  /\ {w \in own : Q[w] = Q[t]} = {w \in own : aspects[tasks[w].aspect].question
                                                            = aspects[tasks[t].aspect].question}
              /\ {w \in own : A[w] = A[t]} = {w \in own : tasks[w].aspect = tasks[t].aspect}
  OBVIOUS
<1>13. \A t, u \in own : aspects[tasks[t].aspect].question = aspects[tasks[u].aspect].question => Q[t] = Q[u]
  OBVIOUS
<1> HIDE DEF Q, A
<1>14. ASSUME NEW t \in own, NEW u \in own
       PROVE  Passed(out, SameQuestion(aspects, tasks, own, t), SameQuestion(aspects, tasks, own, u))
  BY <1>10, <1>12 DEF SameQuestion
<1>15. ASSUME NEW t \in own, NEW u \in own,
              aspects[tasks[t].aspect].question = aspects[tasks[u].aspect].question
       PROVE  Passed(out, SameAspect(tasks, own, t), SameAspect(tasks, own, u))
  BY <1>11, <1>12, <1>13, <1>15 DEF SameAspect
<1>16. LaneIsFair(aspects, tasks, own, out)
  BY <1>0, <1>7, <1>9, <1>14, <1>15 DEF LaneIsFair
<1> QED
  BY <1>0, <1>1, <1>16

-----------------------------------------------------------------------------
(* The two lanes of a plan.                                                *)

\* Adding a number to each element of a set keeps its size.
LEMMA Shifted ==
    ASSUME NEW d \in Nat, NEW Y, Y \subseteq Nat, IsFiniteSet(Y), NEW X,
           \A t : t \in X <=> \E m \in Y : t = d + m
    PROVE  IsFiniteSet(X) /\ Cardinality(X) = Cardinality(Y)
<1> DEFINE f == [m \in Y |-> d + m]
<1>1. f \in [Y -> X] /\ \A m \in Y : f[m] = d + m
  OBVIOUS
<1> HIDE DEF f
<1>2. \A m, n \in Y : f[m] = f[n] => m = n
  BY <1>1
<1>3. \A t \in X : \E m \in Y : f[m] = t
  BY <1>1
<1>4. f \in Bijection(Y, X)
  BY <1>1, <1>2, <1>3 DEF Bijection, Injection, Surjection, IsInjective
<1> QED
  BY <1>4, FS_Bijection DEF ExistsBijection

\* A schedule puts the lane of the required tasks before the other one.
LanesOf(aspects, tasks, plan, first, last) ==
    /\ Len(first) \in Nat /\ Len(last) \in Nat /\ Len(first) + Len(last) = Len(tasks)
    /\ DOMAIN plan = 1..Len(tasks) /\ Len(plan) = Len(tasks)
    /\ \A i \in 1..Len(first) :
         /\ plan[i] = tasks[first[i]] /\ first[i] \in DOMAIN tasks
         /\ plan[i].required = TRUE
    /\ \A i \in 1..Len(last) :
         /\ plan[Len(first) + i] = tasks[last[i]] /\ last[i] \in DOMAIN tasks
         /\ plan[Len(first) + i].required = FALSE
    /\ \A t \in DOMAIN tasks :
         (\E i \in 1..Len(first) : first[i] = t) \/ (\E i \in 1..Len(last) : last[i] = t)
    /\ LaneIsFair(aspects, tasks, LaneTasks(tasks, 0), first)
    /\ LaneIsFair(aspects, tasks, LaneTasks(tasks, 2), last)

\* schedule_research_tasks puts one lane after the other.
LEMMA LanesOfSchedule ==
    ASSUME NEW aspects, NEW T, NEW tasks \in Seq(T), \A t \in DOMAIN tasks : tasks[t].required \in BOOLEAN
    PROVE  /\ ScheduleTasks(aspects, tasks) \in Seq(T)
           /\ Len(ScheduleTasks(aspects, tasks)) = Len(tasks)
           /\ \E first, last : LanesOf(aspects, tasks, ScheduleTasks(aspects, tasks), first, last)
<1> DEFINE A == LaneTasks(tasks, 0)
           B == LaneTasks(tasks, 2)
           first == RoundRobinLane(aspects, tasks, 0)
           last == RoundRobinLane(aspects, tasks, 2)
           order == first \o last
           plan == ScheduleTasks(aspects, tasks)
           N == Len(first)
           M == Len(last)
<1>1. Len(tasks) \in Nat /\ DOMAIN tasks = 1..Len(tasks) /\ \A t \in DOMAIN tasks : tasks[t] \in T
  OBVIOUS
<1>2. /\ A \subseteq DOMAIN tasks /\ IsFiniteSet(A) /\ LaneIsFair(aspects, tasks, A, first)
      /\ B \subseteq DOMAIN tasks /\ IsFiniteSet(B) /\ LaneIsFair(aspects, tasks, B, last)
  BY <1>1, RoundRobinForm
<1>3. A \cup B = DOMAIN tasks /\ A \cap B = {}
      /\ (\A t \in A : tasks[t].required = TRUE) /\ \A t \in B : tasks[t].required = FALSE
  <2>1. \A t \in DOMAIN tasks :
           /\ tasks[t].required = TRUE \/ tasks[t].required = FALSE
           /\ tasks[t].required = TRUE => t \in A /\ t \notin B
           /\ tasks[t].required = FALSE => t \in B /\ t \notin A
    BY DEF LaneTasks, Lane
  <2>2. A \subseteq DOMAIN tasks /\ B \subseteq DOMAIN tasks
    BY <1>2
  <2>3. \A t \in A : t \in DOMAIN tasks /\ tasks[t].required = TRUE
    BY DEF LaneTasks, Lane
  <2>4. \A t \in B : t \in DOMAIN tasks /\ tasks[t].required = FALSE
    BY <2>1, <2>2
  <2> HIDE DEF A, B
  <2>5. A \cup B = DOMAIN tasks
    BY <2>1, <2>2
  <2>6. A \cap B = {}
    BY <2>1, <2>2
  <2> QED
    BY <2>3, <2>4, <2>5, <2>6
<1> HIDE DEF A, B, first, last, order, plan
<1>4. /\ N \in Nat /\ N = Cardinality(A) /\ first \in Seq(A)
      /\ M \in Nat /\ M = Cardinality(B) /\ last \in Seq(B)
      /\ \A t \in A : \E m \in 1..N : first[m] = t
      /\ \A t \in B : \E m \in 1..M : last[m] = t
  BY <1>2, FS_CardinalityType DEF LaneIsFair
<1> HIDE DEF N, M
<1>5. N + M = Len(tasks)
  <2>1. Cardinality(A \cup B) = Cardinality(A) + Cardinality(B) - Cardinality(A \cap B)
    BY <1>2, FS_Union
  <2>2. Cardinality(A \cap B) = 0
    BY <1>3, FS_EmptySet
  <2>3. Cardinality(1..Len(tasks)) = Len(tasks)
    <3> DEFINE L == Len(tasks)
    <3>1. L \in Nat
      BY <1>1
    <3> HIDE DEF L
    <3>2. Cardinality(1..L) = L
      BY <3>1, FS_Interval
    <3> QED
      BY <3>2 DEF L
  <2>4. Cardinality(A \cup B) = Len(tasks)
    BY <1>1, <1>3, <2>3
  <2>5. Len(tasks) = N + M - 0
    BY <1>4, <2>1, <2>2, <2>4
  <2> QED
    BY <1>4, <2>5
<1>6. /\ order \in Seq(DOMAIN tasks) /\ Len(order) = N + M /\ DOMAIN order = 1..N + M
      /\ \A i \in 1..N + M : order[i] = IF i <= N THEN first[i] ELSE last[i - N]
  <2>1. first \in Seq(DOMAIN tasks) /\ last \in Seq(DOMAIN tasks)
    BY <1>2, <1>4, SeqMonotonic
  <2> QED
    BY <2>1, ConcatProperties, LenProperties DEF order, N, M
<1>7. \A i \in 1..N + M : order[i] \in DOMAIN tasks
  BY <1>6, ElementOfSeq
<1>8. plan = [i \in 1..N + M |-> tasks[order[i]]]
  BY <1>6 DEF ScheduleTasks, plan, order, first, last
<1>9. plan \in Seq(T) /\ Len(plan) = Len(tasks) /\ DOMAIN plan = 1..Len(tasks)
  <2> DEFINE L == Len(tasks)
  <2>1. plan \in [1..L -> T] /\ L \in Nat
    BY <1>1, <1>5, <1>7, <1>8
  <2> HIDE DEF L
  <2>2. plan \in Seq(T) /\ Len(plan) = L /\ DOMAIN plan = 1..L
    BY <2>1
  <2> QED
    BY <2>2 DEF L
<1>10. ASSUME NEW i \in 1..N
       PROVE  /\ plan[i] = tasks[first[i]] /\ first[i] \in DOMAIN tasks
              /\ plan[i].required = TRUE
  <2>1. i \in 1..N + M /\ i <= N
    BY <1>4
  <2>2. order[i] = first[i]
    <3>1. order[i] = IF i <= N THEN first[i] ELSE last[i - N]
      BY <1>6, <2>1
    <3> QED
      BY <2>1, <3>1
  <2>3. first[i] \in A
    BY <1>4, ElementOfSeq DEF N
  <2> QED
    BY <1>2, <1>3, <1>8, <2>1, <2>2, <2>3
<1>11. ASSUME NEW i \in 1..M
       PROVE  /\ plan[N + i] = tasks[last[i]] /\ last[i] \in DOMAIN tasks
              /\ plan[N + i].required = FALSE
  <2>1. N + i \in 1..N + M /\ ~(N + i <= N) /\ N + i - N = i
    BY <1>4
  <2>2. order[N + i] = last[i]
    <3> DEFINE k == N + i
    <3>1. k \in 1..N + M /\ ~(k <= N) /\ k - N = i
      BY <1>4
    <3> HIDE DEF k
    <3>2. order[k] = IF k <= N THEN first[k] ELSE last[k - N]
      BY <1>6, <3>1
    <3> QED
      BY <3>1, <3>2 DEF k
  <2>3. last[i] \in B
    BY <1>4, ElementOfSeq DEF M
  <2> QED
    BY <1>2, <1>3, <1>8, <2>1, <2>2, <2>3
<1>12. \A t \in DOMAIN tasks : (\E i \in 1..N : first[i] = t) \/ (\E i \in 1..M : last[i] = t)
  BY <1>3, <1>4
<1>13. LanesOf(aspects, tasks, plan, first, last)
  BY <1>2, <1>4, <1>5, <1>9, <1>10, <1>11, <1>12 DEF LanesOf, N, M, A, B
<1> QED
  BY <1>9, <1>13 DEF plan

\* The schedule reorders the tasks, the required ones first.
LEMMA ScheduleForm ==
    ASSUME NEW aspects, NEW T, NEW tasks \in Seq(T), NEW plan, NEW first, NEW last,
           LanesOf(aspects, tasks, plan, first, last)
    PROVE  /\ \A i \in DOMAIN plan : \E t \in DOMAIN tasks : plan[i] = tasks[t]
           /\ \A t \in DOMAIN tasks : \E i \in DOMAIN plan : plan[i] = tasks[t]
           /\ (\A t, u \in DOMAIN tasks : tasks[t] = tasks[u] => t = u) =>
              \A i, j \in DOMAIN plan : plan[i] = plan[j] => i = j
           /\ \A i, j \in DOMAIN plan : plan[j].required /\ ~plan[i].required => j < i
<1> DEFINE N == Len(first)
           M == Len(last)
<1>1. /\ DOMAIN plan = 1..N + M
      /\ N \in Nat /\ M \in Nat /\ N + M = Len(tasks)
      /\ \A i \in 1..N : /\ plan[i] = tasks[first[i]] /\ first[i] \in DOMAIN tasks
                         /\ plan[i].required = TRUE
      /\ \A i \in 1..M : /\ plan[N + i] = tasks[last[i]] /\ last[i] \in DOMAIN tasks
                         /\ plan[N + i].required = FALSE
      /\ \A t \in DOMAIN tasks : (\E i \in 1..N : first[i] = t) \/ (\E i \in 1..M : last[i] = t)
  BY DEF LanesOf
<1>0. /\ \A i, j \in 1..N : first[i] = first[j] => i = j
      /\ \A i, j \in 1..M : last[i] = last[j] => i = j
  BY DEF LanesOf, LaneIsFair
<1> HIDE DEF N, M
<1>3. ASSUME NEW i \in 1..N + M, i \notin 1..N PROVE \E k \in 1..M : i = N + k
  <2>1. i - N \in 1..M /\ i = N + (i - N)
    BY <1>1, <1>3
  <2> QED
    BY <2>1
<1>4. \A k \in 1..M : N + k \in 1..N + M /\ N + k > N
  BY <1>1
<1>5. \A i \in DOMAIN plan : \E t \in DOMAIN tasks : plan[i] = tasks[t]
  <2> TAKE i \in DOMAIN plan
  <2>1. CASE i \in 1..N
    BY <1>1, <2>1
  <2>2. CASE i \notin 1..N
    <3>1. PICK k \in 1..M : i = N + k
      BY <1>1, <1>3, <2>2
    <3>2. plan[i] = tasks[last[k]] /\ last[k] \in DOMAIN tasks
      BY <1>1, <3>1
    <3> QED
      BY <3>2
  <2> QED
    BY <2>1, <2>2
<1>6. ASSUME NEW t \in DOMAIN tasks PROVE \E i \in DOMAIN plan : plan[i] = tasks[t]
  <2>1. CASE \E i \in 1..N : first[i] = t
    <3>1. \A i \in 1..N : i \in 1..N + M
      BY <1>1
    <3> QED
      BY <1>1, <2>1, <3>1
  <2>2. CASE \E i \in 1..M : last[i] = t
    <3>1. PICK i \in 1..M : last[i] = t
      BY <2>2
    <3>2. N + i \in DOMAIN plan /\ plan[N + i] = tasks[t]
      BY <1>1, <1>4, <3>1
    <3> QED
      BY <3>2
  <2> QED
    BY <1>1, <2>1, <2>2
<1>7. ASSUME \A t, u \in DOMAIN tasks : tasks[t] = tasks[u] => t = u,
             NEW i \in DOMAIN plan, NEW j \in DOMAIN plan, plan[i] = plan[j]
      PROVE  i = j
  <2>1. CASE i \in 1..N /\ j \in 1..N
    BY <1>0, <1>1, <1>7, <2>1
  <2>2. CASE i \notin 1..N /\ j \notin 1..N
    <3>1. PICK k \in 1..M : i = N + k
      BY <1>1, <1>3, <2>2
    <3>2. PICK l \in 1..M : j = N + l
      BY <1>1, <1>3, <2>2
    <3>3. last[k] = last[l]
      BY <1>1, <1>7, <3>1, <3>2
    <3> QED
      BY <1>0, <1>1, <3>1, <3>2, <3>3
  <2>3. CASE i \in 1..N /\ j \notin 1..N
    <3>1. PICK l \in 1..M : j = N + l
      BY <1>1, <1>3, <2>3
    <3> QED
      BY <1>1, <1>7, <2>3, <3>1
  <2>4. CASE i \notin 1..N /\ j \in 1..N
    <3>1. PICK k \in 1..M : i = N + k
      BY <1>1, <1>3, <2>4
    <3> QED
      BY <1>1, <1>7, <2>4, <3>1
  <2> QED
    BY <2>1, <2>2, <2>3, <2>4
<1>8. ASSUME NEW i \in DOMAIN plan, NEW j \in DOMAIN plan, plan[j].required, ~plan[i].required
      PROVE  j < i
  <2>1. j \in 1..N
    <3> SUFFICES ASSUME j \notin 1..N PROVE FALSE
      OBVIOUS
    <3>1. PICK k \in 1..M : j = N + k
      BY <1>1, <1>3
    <3> QED
      BY <1>1, <1>8, <3>1
  <2>2. i \notin 1..N
    BY <1>1, <1>8
  <2>3. PICK k \in 1..M : i = N + k
    BY <1>1, <1>3, <2>2
  <2> QED
    BY <1>1, <2>1, <2>3
<1> QED
  BY <1>1, <1>5, <1>6, <1>7, <1>8

\* The tasks of a lane that are for a group of aspects.
OwnOf(tasks, own, group) == {w \in own : tasks[w].aspect \in group}

\* Turns in the plan are places in one of its lanes.
LEMMA TurnsOfRequired ==
    ASSUME NEW aspects, NEW tasks, NEW plan, NEW first, NEW last,
           LanesOf(aspects, tasks, plan, first, last), NEW group,
           NEW n \in 0..Len(tasks), NEW r,
           \A i \in 1..Len(first) : plan[i].required = r,
           \A i \in 1..Len(last) : plan[Len(first) + i].required # r,
           NEW c, c = IF n <= Len(first) THEN n ELSE Len(first)
    PROVE  Turns(plan, n, r, group) = Hits(first, OwnOf(tasks, LaneTasks(tasks, 0), group), c)
<1> DEFINE N == Len(first)
           M == Len(last)
           S == OwnOf(tasks, LaneTasks(tasks, 0), group)
<1>1. /\ N \in Nat /\ M \in Nat /\ N + M = Len(tasks)
      /\ \A i \in 1..N : plan[i] = tasks[first[i]] /\ plan[i].required = r
      /\ \A i \in 1..M : plan[N + i].required # r
  BY DEF LanesOf
<1>2. \A i \in 1..N : first[i] \in LaneTasks(tasks, 0)
  <2>1. first \in Seq(LaneTasks(tasks, 0))
    BY DEF LanesOf, LaneIsFair
  <2> QED
    BY <2>1, ElementOfSeq
<1>0. c = IF n <= N THEN n ELSE N
  OBVIOUS
<1> HIDE DEF N, M
<1>3. \A t \in 1..n : t \in 1..N \/ \E i \in 1..M : t = N + i
  <2> TAKE t \in 1..n
  <2> SUFFICES ASSUME t \notin 1..N PROVE \E i \in 1..M : t = N + i
    OBVIOUS
  <2>1. t - N \in 1..M /\ t = N + (t - N)
    BY <1>1
  <2> QED
    BY <2>1
<1>4. \A t : t \in 1..c <=> t \in 1..n /\ t \in 1..N
  BY <1>0, <1>1
<1>5. {t \in 1..n : plan[t].required = r /\ plan[t].aspect \in group} = {m \in 1..c : first[m] \in S}
  <2>1. ASSUME NEW t \in 1..n, plan[t].required = r, plan[t].aspect \in group
        PROVE  t \in 1..c /\ first[t] \in S
    <3>1. t \in 1..N
      BY <1>1, <1>3, <2>1
    <3> QED
      BY <1>1, <1>2, <1>4, <2>1, <3>1 DEF OwnOf
  <2>2. ASSUME NEW t \in 1..c, first[t] \in S
        PROVE  t \in 1..n /\ plan[t].required = r /\ plan[t].aspect \in group
    <3>1. t \in 1..N /\ t \in 1..n
      BY <1>4
    <3> QED
      BY <1>1, <2>2, <3>1 DEF OwnOf
  <2> HIDE DEF S
  <2> QED
    BY <2>1, <2>2
<1> QED
  BY <1>5 DEF Turns, Hits, N

\* The optional tasks have no turn before the required ones are through.
LEMMA OthersWait ==
    ASSUME NEW aspects, NEW tasks, NEW plan, NEW first, NEW last,
           LanesOf(aspects, tasks, plan, first, last), NEW group,
           NEW n \in 0..Len(tasks), n <= Len(first), NEW r,
           \A i \in 1..Len(first) : plan[i].required # r
    PROVE  Turns(plan, n, r, group) = 0
<1> DEFINE X == {t \in 1..n : plan[t].required = r /\ plan[t].aspect \in group}
<1>1. Len(first) \in Nat /\ Len(tasks) \in Nat
  BY DEF LanesOf
<1>2. \A t \in 1..n : t \in 1..Len(first)
  BY <1>1
<1>3. X = {}
  BY <1>2
<1> HIDE DEF X
<1>4. Cardinality(X) = 0
  BY <1>3, FS_EmptySet
<1> QED
  BY <1>4 DEF Turns, X

\* After them, turns in the plan are places in the lane of the optional ones.
LEMMA TurnsOfOthers ==
    ASSUME NEW aspects, NEW tasks, NEW plan, NEW first, NEW last,
           LanesOf(aspects, tasks, plan, first, last), NEW group,
           NEW n \in 0..Len(tasks), NEW r,
           \A i \in 1..Len(first) : plan[i].required # r,
           \A i \in 1..Len(last) : plan[Len(first) + i].required = r,
           ~(n <= Len(first)), NEW d, d = n - Len(first)
    PROVE  Turns(plan, n, r, group) = Hits(last, OwnOf(tasks, LaneTasks(tasks, 2), group), d)
<1> DEFINE N == Len(first)
           M == Len(last)
           S == OwnOf(tasks, LaneTasks(tasks, 2), group)
           X == {t \in 1..n : plan[t].required = r /\ plan[t].aspect \in group}
<1>1. /\ N \in Nat /\ M \in Nat /\ N + M = Len(tasks)
      /\ \A i \in 1..N : plan[i].required # r
      /\ \A i \in 1..M : plan[N + i] = tasks[last[i]] /\ plan[N + i].required = r
  BY DEF LanesOf
<1>2. \A i \in 1..M : last[i] \in LaneTasks(tasks, 2)
  <2>1. last \in Seq(LaneTasks(tasks, 2))
    BY DEF LanesOf, LaneIsFair
  <2> QED
    BY <2>1, ElementOfSeq
<1>0. n \in 0..N + M /\ ~(n <= N) /\ d = n - N
  BY <1>1
<1> HIDE DEF N, M
<1> DEFINE Y == {m \in 1..d : last[m] \in S}
<1>3. d \in Nat /\ n = N + d /\ d <= M
  <2>1. n \in Nat /\ n <= N + M /\ n > N
    BY <1>0, <1>1
  <2>2. d = n - N /\ N \in Nat /\ M \in Nat
    BY <1>0, <1>1
  <2>3. n - N \in Nat /\ n = N + (n - N) /\ n - N <= M
    BY <2>1, <2>2
  <2> QED
    BY <2>2, <2>3
<1>4. Y \subseteq Nat /\ IsFiniteSet(Y)
  <2>1. IsFiniteSet(1..d) /\ Y \in SUBSET (1..d)
    BY <1>3, FS_Interval
  <2>2. \A m \in 1..d : m \in Nat
    OBVIOUS
  <2> HIDE DEF Y
  <2>3. IsFiniteSet(Y)
    BY <2>1, FS_Subset
  <2> QED
    BY <2>1, <2>2, <2>3
<1> HIDE DEF S
<1>5. ASSUME NEW t PROVE t \in X <=> \E m \in Y : t = N + m
  <2>1. ASSUME NEW m \in Y, t = N + m PROVE t \in X
    <3>1. m \in 1..d /\ m \in 1..M /\ last[m] \in S
      <4>1. m \in 1..d /\ last[m] \in S
        OBVIOUS
      <4> QED
        BY <1>1, <1>3, <4>1
    <3>2. N + m \in 1..n
      BY <1>1, <1>3, <3>1, SMTT(30)
    <3>3. plan[N + m].required = r /\ plan[N + m].aspect \in group
      BY <1>1, <3>1 DEF S, OwnOf
    <3> QED
      BY <2>1, <3>2, <3>3
  <2>2. ASSUME t \in X PROVE \E m \in Y : t = N + m
    <3>1. t \in 1..n /\ plan[t].required = r /\ plan[t].aspect \in group
      BY <2>2
    <3>2. t \notin 1..N
      BY <1>1, <3>1
    <3>3. t - N \in 1..d /\ t = N + (t - N) /\ t - N \in 1..M
      BY <1>1, <1>3, <3>1, <3>2, SMTT(30)
    <3>4. PICK m \in 1..d : t = N + m /\ m \in 1..M
      BY <3>3
    <3>5. last[m] \in S
      BY <1>1, <1>2, <3>1, <3>4 DEF S, OwnOf
    <3> QED
      BY <3>4, <3>5
  <2> QED
    BY <2>1, <2>2
<1> HIDE DEF X, Y
<1>6. Cardinality(X) = Cardinality(Y)
  <2>1. \A t : t \in X <=> \E m \in Y : t = N + m
    BY <1>5
  <2>2. N \in Nat
    BY <1>1
  <2> QED
    BY <1>4, <2>1, <2>2, Shifted, Zenon
<1> QED
  BY <1>6 DEF Turns, Hits, X, Y, S

\* A lane in which the tasks of one group do not pass those of another is fair.
LEMMA HitsEnd ==
    ASSUME NEW out, NEW T, NEW N \in Nat, NEW c \in 0..N, \A m \in c + 1..N : out[m] \notin T
    PROVE  Hits(out, T, c) = Hits(out, T, N)
<1>1. \A m : m \in 1..N <=> m \in 1..c \/ m \in c + 1..N
  OBVIOUS
<1>2. {m \in 1..c : out[m] \in T} = {m \in 1..N : out[m] \in T}
  BY <1>1
<1> QED
  BY <1>2 DEF Hits

\* A plan is fair between two groups that do not pass each other in its lanes.
LEMMA FairOfPassed ==
    ASSUME NEW aspects, NEW tasks, NEW plan, NEW first, NEW last,
           LanesOf(aspects, tasks, plan, first, last), NEW G, NEW H, NEW r
    PROVE  /\ r = TRUE /\ Passed(first, OwnOf(tasks, LaneTasks(tasks, 0), G), OwnOf(tasks, LaneTasks(tasks, 0), H))
                => FairBetween(plan, r, G, H)
           /\ r = FALSE /\ Passed(last, OwnOf(tasks, LaneTasks(tasks, 2), G), OwnOf(tasks, LaneTasks(tasks, 2), H))
                => FairBetween(plan, r, G, H)
<1> DEFINE N == Len(first)
           M == Len(last)
           L == Len(tasks)
<1>1. N \in Nat /\ M \in Nat /\ N + M = L /\ L \in Nat /\ Len(plan) = L
  BY DEF LanesOf
<1>0. /\ (r = TRUE =>
            (\A i \in 1..Len(first) : plan[i].required = r)
              /\ \A i \in 1..Len(last) : plan[Len(first) + i].required # r)
      /\ (r = FALSE =>
            (\A i \in 1..Len(first) : plan[i].required # r)
              /\ \A i \in 1..Len(last) : plan[Len(first) + i].required = r)
  BY DEF LanesOf
<1> HIDE DEF N, M, L
<1>2. ASSUME r = TRUE, Passed(first, OwnOf(tasks, LaneTasks(tasks, 0), G), OwnOf(tasks, LaneTasks(tasks, 0), H))
      PROVE  FairBetween(plan, r, G, H)
  <2> DEFINE A == OwnOf(tasks, LaneTasks(tasks, 0), G)
             B == OwnOf(tasks, LaneTasks(tasks, 0), H)
             At(n) == IF n <= N THEN n ELSE N
  <2>1. ASSUME NEW n \in 0..L
        PROVE  Turns(plan, n, r, G) = Hits(first, A, At(n)) /\ Turns(plan, n, r, H) = Hits(first, B, At(n))
    <3> DEFINE c == At(n)
    <3>6. c = IF n <= Len(first) THEN n ELSE Len(first)
      BY DEF N
    <3> HIDE DEF c
    <3>1. n \in 0..Len(tasks)
      BY DEF L
    <3>4. \A i \in 1..Len(first) : plan[i].required = r
      BY <1>0, <1>2
    <3>5. \A i \in 1..Len(last) : plan[Len(first) + i].required # r
      BY <1>0, <1>2
    <3>2. Turns(plan, n, r, G) = Hits(first, OwnOf(tasks, LaneTasks(tasks, 0), G), c)
      BY <3>1, <3>4, <3>5, <3>6, TurnsOfRequired
    <3>3. Turns(plan, n, r, H) = Hits(first, OwnOf(tasks, LaneTasks(tasks, 0), H), c)
      BY <3>1, <3>4, <3>5, <3>6, TurnsOfRequired
    <3> QED
      BY <3>2, <3>3 DEF c
  <2>2. \A n \in 0..L : At(n) \in 0..N
    BY <1>1
  <2>3. At(L) = N /\ L \in 0..L
    BY <1>1
  <2> HIDE DEF A, B, At
  <2>4. ASSUME NEW n \in 0..L, Turns(plan, n, r, G) > Turns(plan, n, r, H) + 1
        PROVE  Turns(plan, n, r, H) = Turns(plan, L, r, H)
    <3>1. Hits(first, A, At(n)) > Hits(first, B, At(n)) + 1
      BY <2>1, <2>4
    <3>2. \A m \in At(n) + 1..N : first[m] \notin B
      BY <1>2, <2>2, <3>1 DEF Passed, A, B, N
    <3>3. Hits(first, B, At(n)) = Hits(first, B, N)
      BY <1>1, <2>2, <3>2, HitsEnd
    <3> QED
      BY <2>1, <2>3, <3>3
  <2> QED
    BY <1>1, <2>4 DEF FairBetween
<1>3. ASSUME r = FALSE, Passed(last, OwnOf(tasks, LaneTasks(tasks, 2), G), OwnOf(tasks, LaneTasks(tasks, 2), H))
      PROVE  FairBetween(plan, r, G, H)
  <2> DEFINE A == OwnOf(tasks, LaneTasks(tasks, 2), G)
             B == OwnOf(tasks, LaneTasks(tasks, 2), H)
  <2>1. ASSUME NEW n \in 0..L
        PROVE  /\ Turns(plan, n, r, G) = IF n <= N THEN 0 ELSE Hits(last, A, n - N)
               /\ Turns(plan, n, r, H) = IF n <= N THEN 0 ELSE Hits(last, B, n - N)
    <3> DEFINE d == n - N
    <3>8. d = n - Len(first)
      BY DEF N
    <3> HIDE DEF d
    <3>1. n \in 0..Len(tasks)
      BY DEF L
    <3>4. \A i \in 1..Len(first) : plan[i].required # r
      BY <1>0, <1>3
    <3>5. \A i \in 1..Len(last) : plan[Len(first) + i].required = r
      BY <1>0, <1>3
    <3>2. n <= Len(first) => Turns(plan, n, r, G) = 0
      BY <3>1, <3>4, OthersWait
    <3>6. ASSUME ~(n <= Len(first))
          PROVE  Turns(plan, n, r, G) = Hits(last, OwnOf(tasks, LaneTasks(tasks, 2), G), d)
      BY <3>1, <3>4, <3>5, <3>8, <3>6, TurnsOfOthers
    <3>3. n <= Len(first) => Turns(plan, n, r, H) = 0
      BY <3>1, <3>4, OthersWait
    <3>7. ASSUME ~(n <= Len(first))
          PROVE  Turns(plan, n, r, H) = Hits(last, OwnOf(tasks, LaneTasks(tasks, 2), H), d)
      BY <3>1, <3>4, <3>5, <3>8, <3>7, TurnsOfOthers
    <3> QED
      BY <3>2, <3>3, <3>6, <3>7 DEF N, d
  <2> HIDE DEF A, B
  <2>4. ASSUME NEW n \in 0..L, Turns(plan, n, r, G) > Turns(plan, n, r, H) + 1
        PROVE  Turns(plan, n, r, H) = Turns(plan, L, r, H)
    <3>0. ~(n <= N)
      <4> SUFFICES ASSUME n <= N PROVE FALSE
        OBVIOUS
      <4>1. Turns(plan, n, r, G) = 0 /\ Turns(plan, n, r, H) = 0
        BY <2>1
      <4> QED
        BY <2>4, <4>1
    <3>1. Hits(last, A, n - N) > Hits(last, B, n - N) + 1
      BY <2>1, <2>4, <3>0
    <3>2. n - N \in 0..M /\ L - N = M /\ ~(L <= N) /\ L \in 0..L
      BY <1>1, <3>0
    <3> DEFINE c == n - N
    <3>3. c \in 0..M /\ Hits(last, A, c) > Hits(last, B, c) + 1
      BY <3>1, <3>2
    <3> HIDE DEF c
    <3>4. \A m \in c + 1..M : last[m] \notin B
      BY <1>3, <3>3 DEF Passed, A, B, M
    <3>5. Hits(last, B, c) = Hits(last, B, M)
      BY <1>1, <3>3, <3>4, HitsEnd
    <3> QED
      BY <2>1, <3>0, <3>2, <3>5 DEF c
  <2> QED
    BY <1>1, <2>4 DEF FairBetween
<1> QED
  BY <1>2, <1>3

\* Lanes do not let one question pass another, nor one aspect of a question another.
LEMMA GroupsOfLane ==
    ASSUME NEW aspects, NEW tasks, NEW own, NEW out, LaneIsFair(aspects, tasks, own, out),
           \A t \in own : tasks[t].aspect \in DOMAIN aspects
    PROVE  /\ \A p, q : Passed(out, OwnOf(tasks, own, Group(aspects, p)), OwnOf(tasks, own, Group(aspects, q)))
           /\ \A a, b \in DOMAIN aspects : aspects[a].question = aspects[b].question =>
                 Passed(out, OwnOf(tasks, own, {a}), OwnOf(tasks, own, {b}))
<1>1. Len(out) \in Nat /\ \A m \in 1..Len(out) : out[m] \in own
  <2>1. out \in Seq(own)
    BY DEF LaneIsFair
  <2> QED
    BY <2>1, ElementOfSeq
<1>2. ASSUME NEW A PROVE Passed(out, {}, A) /\ Passed(out, A, {})
  <2>1. ASSUME NEW n \in 0..Len(out) PROVE Hits(out, {}, n) = 0 /\ Hits(out, A, n) \in Nat
    <3>1. {m \in 1..n : out[m] \in {}} = {}
      OBVIOUS
    <3>2. IsFiniteSet(1..n) /\ {m \in 1..n : out[m] \in A} \in SUBSET (1..n)
      BY FS_Interval
    <3> QED
      BY <3>1, <3>2, FS_EmptySet, FS_Subset, FS_CardinalityType DEF Hits
  <2>2. \A n \in 0..Len(out) : ~(Hits(out, {}, n) > Hits(out, A, n) + 1)
    BY <2>1
  <2> QED
    BY <2>2 DEF Passed
<1>3. ASSUME NEW p, NEW q
      PROVE  Passed(out, OwnOf(tasks, own, Group(aspects, p)), OwnOf(tasks, own, Group(aspects, q)))
  <2> DEFINE A == OwnOf(tasks, own, Group(aspects, p))
             B == OwnOf(tasks, own, Group(aspects, q))
  <2>1. CASE A = {} \/ B = {}
    BY <1>2, <2>1
  <2>2. CASE A # {} /\ B # {}
    <3>1. PICK t \in own : t \in A
      BY <2>2 DEF OwnOf
    <3>2. PICK u \in own : u \in B
      BY <2>2 DEF OwnOf
    <3>3. A = SameQuestion(aspects, tasks, own, t)
      BY <3>1 DEF OwnOf, Group, SameQuestion
    <3>4. B = SameQuestion(aspects, tasks, own, u)
      BY <3>2 DEF OwnOf, Group, SameQuestion
    <3> HIDE DEF A, B
    <3>5. Passed(out, A, B)
      BY <3>3, <3>4 DEF LaneIsFair
    <3> QED
      BY <3>5 DEF A, B
  <2> QED
    BY <2>1, <2>2
<1>4. ASSUME NEW a \in DOMAIN aspects, NEW b \in DOMAIN aspects,
             aspects[a].question = aspects[b].question
      PROVE  Passed(out, OwnOf(tasks, own, {a}), OwnOf(tasks, own, {b}))
  <2> DEFINE A == OwnOf(tasks, own, {a})
             B == OwnOf(tasks, own, {b})
  <2>1. CASE A = {} \/ B = {}
    BY <1>2, <2>1
  <2>2. CASE A # {} /\ B # {}
    <3>1. PICK t \in own : tasks[t].aspect = a
      BY <2>2 DEF OwnOf
    <3>2. PICK u \in own : tasks[u].aspect = b
      BY <2>2 DEF OwnOf
    <3>3. A = SameAspect(tasks, own, t)
      BY <3>1 DEF OwnOf, SameAspect
    <3>4. B = SameAspect(tasks, own, u)
      BY <3>2 DEF OwnOf, SameAspect
    <3>5. aspects[tasks[t].aspect].question = aspects[tasks[u].aspect].question
      BY <1>4, <3>1, <3>2
    <3> HIDE DEF A, B
    <3>6. Passed(out, A, B)
      BY <3>3, <3>4, <3>5 DEF LaneIsFair
    <3> QED
      BY <3>6 DEF A, B
  <2> QED
    BY <2>1, <2>2
<1> QED
  BY <1>3, <1>4

\* The tasks a plan may have.
TaskSet(intake, aspects) ==
    [aspect : DOMAIN aspects, required : BOOLEAN, hint : 0..Len(intake.hints)]

\* The optional tasks fit into what the required ones leave.
HintsFit(intake, aspects, made) ==
    /\ made \in Seq(HintsMade(aspects, 1..Len(intake.hints)))
    /\ Len(made) <= MaxTasks - Len(aspects)
    /\ \A t, u \in DOMAIN made : made[t] = made[u] => t = u
    /\ \A a \in DOMAIN aspects : Cardinality({t \in DOMAIN made : made[t].aspect = a}) < MaxQueries

\* They do, whatever the hints.
LEMMA OptionalForm ==
    ASSUME PlanningAssumption, NEW intake, IntakeAccepted(intake), Plannable(intake)
    PROVE  HintsFit(intake, Aspects(intake),
                    HintTasks(intake, Aspects(intake), MaxTasks - Len(Aspects(intake))))
<1> SUFFICES ASSUME NEW aspects, aspects = Aspects(intake),
                    NEW made, made = HintTasks(intake, aspects, MaxTasks - Len(aspects))
             PROVE  HintsFit(intake, aspects, made)
  OBVIOUS
<1> DEFINE D == DOMAIN OpenQuestions(intake)
           hints == 1..Len(intake.hints)
           slots == MaxTasks - Len(aspects)
<1>1. /\ aspects \in Seq(AspectsOf(intake, D)) /\ Len(aspects) \in Nat
      /\ \A q \in D : \E a \in DOMAIN aspects : aspects[a].question = q
  BY AspectsForm, LenProperties
<1>2. slots \in Nat
  BY <1>1 DEF Plannable, PlanningAssumption
<1>3. CASE slots <= 0 \/ MaxQueries <= 1
  <2>1. made = <<>>
    BY <1>3 DEF HintTasks
  <2>2. \A a \in DOMAIN aspects : {t \in DOMAIN made : made[t].aspect = a} = {}
    BY <2>1
  <2>3. MaxQueries \in Nat \ {0}
    BY DEF PlanningAssumption
  <2>4. \A a \in DOMAIN aspects : Cardinality({t \in DOMAIN made : made[t].aspect = a}) < MaxQueries
    <3> TAKE a \in DOMAIN aspects
    <3> DEFINE S == {t \in DOMAIN made : made[t].aspect = a}
    <3>1. S = {}
      BY <2>2
    <3> HIDE DEF S
    <3>2. Cardinality(S) = 0
      BY <3>1, FS_EmptySet
    <3>3. Cardinality(S) < MaxQueries
      BY <2>3, <3>2
    <3> QED
      BY <3>3 DEF S
  <2>5. /\ made \in Seq(HintsMade(aspects, hints)) /\ Len(made) = 0 /\ DOMAIN made = {}
    <3>1. \A S : <<>> \in Seq(S)
      OBVIOUS
    <3>2. Len(<<>>) = 0 /\ DOMAIN <<>> = {}
      OBVIOUS
    <3> QED
      BY <2>1, <3>1, <3>2, Zenon
  <2>6. Len(made) <= slots
    BY <1>2, <2>5
  <2> QED
    BY <2>4, <2>5, <2>6 DEF HintsFit
<1>4. CASE ~(slots <= 0 \/ MaxQueries <= 1)
  <2>1. made = TakeHints(Offers(intake), aspects, slots)
    BY <1>4 DEF HintTasks
  <2>2. /\ Offers(intake) \in Seq([question : D, hint : hints])
        /\ \A i, j \in DOMAIN Offers(intake) : Offers(intake)[i] = Offers(intake)[j] => i = j
    BY OffersForm
  <2> HIDE DEF D, hints, slots
  <2>3. MadeInv(aspects, Offers(intake), hints, slots, made, Len(Offers(intake)))
    <3>1. \A q \in D : \E a \in DOMAIN aspects : aspects[a].question = q
      BY <1>1
    <3>2. aspects \in Seq(AspectsOf(intake, D))
      BY <1>1
    <3>3. MadeInv(aspects, Offers(intake), hints, slots, TakeHints(Offers(intake), aspects, slots),
                  Len(Offers(intake)))
      <4> DEFINE offers == Offers(intake)
      <4>1. offers \in Seq([question : D, hint : hints])
        BY <2>2
      <4>2. \A i, j \in DOMAIN offers : offers[i] = offers[j] => i = j
        BY <2>2
      <4>3. \A c, q : (c \in Seq(AspectsOf(intake, q)) /\ slots \in Nat) => c \in Seq(AspectsOf(intake, q))
        OBVIOUS
      <4>4. slots \in Nat
        BY <1>2
      <4> HIDE DEF offers
      <4>5. MadeInv(aspects, offers, hints, slots, TakeHints(offers, aspects, slots), Len(offers))
        BY ONLY PlanningAssumption, <3>1, <3>2, <4>1, <4>2, <4>4, HintsForm
      <4> QED
        BY <4>5 DEF offers
    <3> QED
      BY <2>1, <3>3
  <2> QED
    BY <2>3 DEF MadeInv, hints, slots, HintsFit
<1> QED
  BY <1>3, <1>4

\* The tasks of a plan before they are scheduled: they fit the budgets, differ from each
\* other, and include a required one for every aspect.
PlanTasks(intake) ==
    RequiredTasks(Aspects(intake))
      \o HintTasks(intake, Aspects(intake), MaxTasks - Len(Aspects(intake)))

TasksFit(intake, aspects, tasks) ==
    /\ tasks \in Seq(TaskSet(intake, aspects)) /\ Len(tasks) <= MaxTasks
    /\ \A t, u \in DOMAIN tasks : tasks[t] = tasks[u] => t = u
    /\ \A a \in DOMAIN aspects : \E t \in DOMAIN tasks : tasks[t].aspect = a /\ tasks[t].required
    /\ \A a \in DOMAIN aspects : /\ IsFiniteSet({t \in DOMAIN tasks : tasks[t].aspect = a})
                                 /\ Cardinality({t \in DOMAIN tasks : tasks[t].aspect = a}) <= MaxQueries

\* The plan has room for its tasks, and for the queries of each aspect.
LEMMA TasksForm ==
    ASSUME PlanningAssumption, NEW intake, IntakeAccepted(intake), Plannable(intake)
    PROVE  TasksFit(intake, Aspects(intake), PlanTasks(intake))
<1> SUFFICES ASSUME NEW aspects, aspects = Aspects(intake),
                    NEW made, made = HintTasks(intake, aspects, MaxTasks - Len(aspects)),
                    NEW tasks, tasks = RequiredTasks(aspects) \o made
             PROVE  TasksFit(intake, aspects, tasks)
  BY DEF PlanTasks
<1> DEFINE required == RequiredTasks(aspects)
           N == Len(aspects)
           M == Len(made)
           T == TaskSet(intake, aspects)
<1>1. /\ N \in Nat /\ DOMAIN aspects = 1..N
  <2>1. aspects \in Seq(AspectsOf(intake, DOMAIN OpenQuestions(intake)))
    BY AspectsForm
  <2> QED
    BY <2>1, LenProperties
<1>2. /\ made \in Seq(HintsMade(aspects, 1..Len(intake.hints)))
      /\ M <= MaxTasks - N
      /\ \A t, u \in DOMAIN made : made[t] = made[u] => t = u
      /\ \A a \in DOMAIN aspects : Cardinality({t \in DOMAIN made : made[t].aspect = a}) < MaxQueries
  <2>1. HintsFit(intake, aspects, made)
    BY OptionalForm
  <2> QED
    BY <2>1 DEF HintsFit
<1>3. /\ M \in Nat /\ DOMAIN made = 1..M
      /\ \A m \in 1..M : made[m] \in HintsMade(aspects, 1..Len(intake.hints))
  BY <1>2, LenProperties, ElementOfSeq
<1>4. Len(intake.hints) \in Nat /\ MaxTasks \in Nat /\ MaxQueries \in Nat
  <2>1. intake.hints \in Seq(Range(intake.hints))
    BY DEF IntakeAccepted
  <2> QED
    BY <2>1, LenProperties DEF PlanningAssumption
<1>5. /\ required \in Seq(T) /\ Len(required) = N
      /\ \A a \in 1..N : required[a] = [aspect |-> a, required |-> TRUE, hint |-> 0]
  <2>1. required = [a \in 1..N |-> [aspect |-> a, required |-> TRUE, hint |-> 0]]
    BY <1>1 DEF RequiredTasks
  <2>2. ASSUME NEW a \in 1..N PROVE [aspect |-> a, required |-> TRUE, hint |-> 0] \in T
    BY <1>1, <1>4 DEF TaskSet
  <2> HIDE DEF required, T, N
  <2>3. required \in [1..N -> T]
    BY <2>1, <2>2
  <2>4. required \in Seq(T)
    BY ONLY <1>1, <2>3
  <2>5. N \in Nat /\ DOMAIN required = 1..N
    BY <1>1, <2>1
  <2>6. Len(required) = N
    BY ONLY <2>4, <2>5, LenProperties
  <2> QED
    BY <2>1, <2>4, <2>6
<1>6. HintsMade(aspects, 1..Len(intake.hints)) \subseteq T
  <2> SUFFICES ASSUME NEW x \in HintsMade(aspects, 1..Len(intake.hints)) PROVE x \in T
    OBVIOUS
  <2>1. /\ x = [aspect |-> x.aspect, required |-> x.required, hint |-> x.hint]
        /\ x.aspect \in DOMAIN aspects /\ x.required = FALSE /\ x.hint \in 1..Len(intake.hints)
    BY DEF HintsMade
  <2>2. x.hint \in 0..Len(intake.hints)
    BY <1>4, <2>1
  <2>4. x.required \in BOOLEAN
    BY <2>1, Zenon
  <2>3. [aspect |-> x.aspect, required |-> x.required, hint |-> x.hint] \in T
    BY <2>1, <2>2, <2>4 DEF TaskSet
  <2> QED
    BY <2>1, <2>3, Zenon
<1>31. M \in Nat /\ DOMAIN made = 1..M
  BY <1>3
<1> HIDE DEF required, T, N, M
<1>7. made \in Seq(T)
  BY <1>2, <1>6, SeqMonotonic
<1>8. /\ tasks \in Seq(T) /\ Len(tasks) = N + M /\ DOMAIN tasks = 1..N + M
      /\ \A i \in 1..N : tasks[i] = [aspect |-> i, required |-> TRUE, hint |-> 0]
      /\ \A i \in 1..M : tasks[N + i] = made[i]
  <2>1. tasks = required \o made
    BY DEF required
  <2>2. /\ tasks \in Seq(T) /\ Len(tasks) = N + M
        /\ \A i \in 1..N + M : tasks[i] = IF i <= N THEN required[i] ELSE made[i - N]
    <3>1. required \in Seq(T) /\ made \in Seq(T)
      BY <1>5, <1>7
    <3>2. /\ required \o made \in Seq(T) /\ Len(required \o made) = Len(required) + Len(made)
          /\ \A i \in 1..Len(required) + Len(made) : (required \o made)[i] =
                IF i <= Len(required) THEN required[i] ELSE made[i - Len(required)]
      BY <3>1, ConcatProperties
    <3>3. Len(required) = N /\ Len(made) = M
      BY <1>5 DEF M
    <3>4. \A i \in 1..N + M : tasks[i] = IF i <= N THEN required[i] ELSE made[i - N]
      <4> TAKE i \in 1..N + M
      <4>1. i \in 1..Len(required) + Len(made)
        BY <3>3
      <4>2. (required \o made)[i] = IF i <= Len(required) THEN required[i] ELSE made[i - Len(required)]
        BY ONLY <3>2, <4>1
      <4> QED
        BY ONLY <2>1, <3>3, <4>2
    <3>5. tasks \in Seq(T) /\ Len(tasks) = N + M
      BY ONLY <2>1, <3>2, <3>3
    <3> QED
      BY <3>4, <3>5
  <2>3. DOMAIN tasks = 1..N + M
    BY <2>2, LenProperties
  <2>4. ASSUME NEW i \in 1..N PROVE tasks[i] = [aspect |-> i, required |-> TRUE, hint |-> 0]
    <3>1. i \in 1..N + M /\ i <= N
      BY <1>1, <1>3
    <3>2. tasks[i] = IF i <= N THEN required[i] ELSE made[i - N]
      BY <2>2, <3>1
    <3> QED
      BY <1>5, <3>1, <3>2
  <2>5. ASSUME NEW i \in 1..M PROVE tasks[N + i] = made[i]
    <3> DEFINE k == N + i
    <3>1. k \in 1..N + M /\ ~(k <= N) /\ k - N = i
      BY <1>1, <1>3
    <3> HIDE DEF k
    <3>2. tasks[k] = IF k <= N THEN required[k] ELSE made[k - N]
      BY <2>2, <3>1
    <3> QED
      BY <3>1, <3>2 DEF k
  <2> QED
    BY <2>2, <2>3, <2>4, <2>5
<1>9. Len(tasks) <= MaxTasks
  BY <1>1, <1>2, <1>3, <1>4, <1>8 DEF N, M
<1>10. ASSUME NEW t \in DOMAIN tasks, t \notin 1..N PROVE \E i \in 1..M : t = N + i
  <2>1. t - N \in 1..M /\ t = N + (t - N)
    BY <1>1, <1>3, <1>8, <1>10
  <2> QED
    BY <2>1
<1>11. \A i \in 1..M : tasks[N + i].required = FALSE
  BY <1>3, <1>8 DEF HintsMade
<1>12. \A i \in 1..N : tasks[i].required = TRUE /\ tasks[i].aspect = i
  <2> TAKE i \in 1..N
  <2> DEFINE x == [aspect |-> i, required |-> TRUE, hint |-> 0]
  <2>1. tasks[i] = x
    BY <1>8
  <2>2. x.aspect = i /\ x.required = TRUE
    OBVIOUS
  <2> HIDE DEF x
  <2> QED
    BY <2>1, <2>2, Zenon
<1>13. ASSUME NEW t \in DOMAIN tasks, NEW u \in DOMAIN tasks, tasks[t] = tasks[u] PROVE t = u
  <2>1. CASE t \in 1..N /\ u \in 1..N
    BY <1>12, <1>13, <2>1, SMTT(30)
  <2>2. CASE t \notin 1..N /\ u \notin 1..N
    <3>1. PICK i \in 1..M : t = N + i
      BY <1>10, <2>2
    <3>2. PICK j \in 1..M : u = N + j
      BY <1>10, <2>2
    <3>3. made[i] = made[j]
      BY <1>8, <1>13, <3>1, <3>2
    <3> QED
      BY <1>2, <1>3, <3>1, <3>2, <3>3
  <2>3. CASE t \in 1..N /\ u \notin 1..N
    <3>1. PICK j \in 1..M : u = N + j
      BY <1>10, <2>3
    <3> QED
      BY <1>11, <1>12, <1>13, <2>3, <3>1
  <2>4. CASE t \notin 1..N /\ u \in 1..N
    <3>1. PICK i \in 1..M : t = N + i
      BY <1>10, <2>4
    <3> QED
      BY <1>11, <1>12, <1>13, <2>4, <3>1
  <2> QED
    BY <2>1, <2>2, <2>3, <2>4
<1>14. ASSUME NEW a \in DOMAIN aspects
       PROVE  \E t \in DOMAIN tasks : tasks[t].aspect = a /\ tasks[t].required
  <2>1. a \in 1..N /\ a \in DOMAIN tasks
    BY <1>1, <1>3, <1>8
  <2> QED
    BY <1>12, <2>1
<1>15. ASSUME NEW a \in DOMAIN aspects
       PROVE  /\ IsFiniteSet({t \in DOMAIN tasks : tasks[t].aspect = a})
              /\ Cardinality({t \in DOMAIN tasks : tasks[t].aspect = a}) <= MaxQueries
  <2> DEFINE Y == {m \in DOMAIN made : made[m].aspect = a}
             X == {t \in DOMAIN tasks : t \notin 1..N /\ tasks[t].aspect = a}
             Z == {t \in DOMAIN tasks : tasks[t].aspect = a}
  <2>1. Y \subseteq Nat /\ IsFiniteSet(Y)
    <3>1. IsFiniteSet(1..M) /\ Y \in SUBSET (1..M)
      <4>1. Y \subseteq 1..M
        BY <1>31
      <4>2. IsFiniteSet(1..M)
        <5>1. M \in Int
          BY <1>31
        <5> QED
          BY <5>1, FS_Interval
      <4> HIDE DEF Y
      <4> QED
        BY <4>1, <4>2
    <3>2. \A m \in 1..M : m \in Nat
      OBVIOUS
    <3> HIDE DEF Y
    <3>3. IsFiniteSet(Y)
      BY <3>1, FS_Subset
    <3> QED
      BY <3>1, <3>2, <3>3
  <2>2. Cardinality(Y) < MaxQueries /\ Cardinality(Y) \in Nat
    BY <1>2, <2>1, FS_CardinalityType
  <2>3. ASSUME NEW t PROVE t \in X <=> \E m \in Y : t = N + m
    <3>1. ASSUME t \in X PROVE \E m \in Y : t = N + m
      <4>1. PICK m \in 1..M : t = N + m
        BY <1>10, <3>1
      <4>2. m \in Y
        BY <1>3, <1>8, <3>1, <4>1
      <4> QED
        BY <4>1, <4>2
    <3>2. ASSUME NEW m \in Y, t = N + m PROVE t \in X
      <4>1. m \in 1..M /\ made[m].aspect = a
        BY <1>3
      <4>2. N + m \in 1..N + M /\ N + m \notin 1..N
        BY <1>1, <1>3, <4>1
      <4>3. tasks[N + m].aspect = a
        BY <1>8, <4>1
      <4> QED
        BY <1>8, <3>2, <4>2, <4>3
    <3> QED
      BY <3>1, <3>2
  <2>4. IsFiniteSet(X) /\ Cardinality(X) = Cardinality(Y)
    <3>1. \A t : t \in X <=> \E m \in Y : t = N + m
      BY <2>3
    <3> HIDE DEF X, Y
    <3> QED
      BY <1>1, <2>1, <3>1, Shifted, Zenon
  <2>5. Z = X \cup {a} /\ a \notin X
    <3>1. a \in 1..N /\ a \in DOMAIN tasks
      BY <1>1, <1>3, <1>8
    <3>2. \A t \in 1..N : tasks[t].aspect = t
      BY <1>12
    <3> QED
      BY <3>1, <3>2
  <2> HIDE DEF X, Y, Z
  <2>6. IsFiniteSet(Z) /\ Cardinality(Z) = Cardinality(X) + 1
    BY <2>4, <2>5, FS_AddElement
  <2>7. IsFiniteSet(Z) /\ Cardinality(Z) <= MaxQueries
    BY <1>4, <2>2, <2>4, <2>6
  <2> QED
    BY <2>7 DEF Z
<1> USE DEF T, TasksFit
<1> QED
  BY <1>8, <1>9, <1>13, <1>14, <1>15

\* The two parts of a plan.
LEMMA BuiltPlan ==
    ASSUME PlanningAssumption, NEW intake, IntakeAccepted(intake),
           NEW aspects, aspects = Aspects(intake)
    PROVE  /\ BuildPlan(intake).aspects = aspects
           /\ BuildPlan(intake).tasks = ScheduleTasks(aspects, PlanTasks(intake))
<1>1. Len(RequiredTasks(aspects)) = Len(aspects)
  <2>1. aspects \in Seq(AspectsOf(intake, DOMAIN OpenQuestions(intake)))
    BY AspectsForm
  <2>2. Len(aspects) \in Nat /\ DOMAIN aspects = 1..Len(aspects)
    BY <2>1, LenProperties
  <2> DEFINE S == {[aspect |-> a, required |-> TRUE, hint |-> 0] : a \in DOMAIN aspects}
             R == RequiredTasks(aspects)
             N == Len(aspects)
  <2>3. R \in [1..N -> S] /\ DOMAIN R = 1..N
    BY <2>2 DEF RequiredTasks
  <2> HIDE DEF S, R
  <2>4. R \in Seq(S)
    BY <2>2, <2>3
  <2>5. Len(R) = N
    BY <2>2, <2>3, <2>4, LenProperties
  <2> QED
    BY <2>5 DEF R
<1>2. BuildPlan(intake) = [aspects |-> aspects, tasks |-> ScheduleTasks(aspects, PlanTasks(intake))]
  BY <1>1, Zenon DEF BuildPlan, PlanTasks
<1> QED
  BY <1>2

\* The planner's plans pass the validator of plans, and keep to the queries of
\* each aspect.
LEMMA PlansFit ==
    ASSUME PlanningAssumption, NEW intake, IntakeAccepted(intake), Plannable(intake)
    PROVE  PlanAccepted(intake, BuildPlan(intake)) /\ QueriesFit(BuildPlan(intake))
<1> DEFINE aspects == Aspects(intake)
           tasks == PlanTasks(intake)
           plan == BuildPlan(intake)
           P == plan.tasks
           D == DOMAIN OpenQuestions(intake)
           T == TaskSet(intake, aspects)
<1>1. /\ tasks \in Seq(T) /\ Len(tasks) <= MaxTasks
      /\ \A t, u \in DOMAIN tasks : tasks[t] = tasks[u] => t = u
      /\ \A a \in DOMAIN aspects : \E t \in DOMAIN tasks : tasks[t].aspect = a /\ tasks[t].required
      /\ \A a \in DOMAIN aspects : /\ IsFiniteSet({t \in DOMAIN tasks : tasks[t].aspect = a})
                                   /\ Cardinality({t \in DOMAIN tasks : tasks[t].aspect = a}) <= MaxQueries
  BY TasksForm DEF TasksFit
<1>2. plan.aspects = aspects /\ P = ScheduleTasks(aspects, tasks)
  BY BuiltPlan
<1>3. /\ aspects \in Seq(AspectsOf(intake, D))
      /\ \A q \in D : \E a \in DOMAIN aspects : aspects[a].question = q
  BY AspectsForm
<1> HIDE DEF aspects, tasks, P, D, plan
<1>4. \A t \in DOMAIN tasks : tasks[t] \in T
  BY <1>1, ElementOfSeq
<1>5. \A t \in DOMAIN tasks : tasks[t].required \in BOOLEAN
  BY <1>4 DEF TaskSet
<1>6. /\ P \in Seq(T) /\ Len(P) = Len(tasks)
      /\ \E first, last : LanesOf(aspects, tasks, P, first, last)
  BY <1>1, <1>2, <1>5, LanesOfSchedule
<1>7. PICK first, last : LanesOf(aspects, tasks, P, first, last)
  BY <1>6
<1>8. /\ \A i \in DOMAIN P : \E t \in DOMAIN tasks : P[i] = tasks[t]
      /\ \A t \in DOMAIN tasks : \E i \in DOMAIN P : P[i] = tasks[t]
      /\ \A i, j \in DOMAIN P : P[i] = P[j] => i = j
  <2> HIDE DEF T
  <2>1. \A i \in DOMAIN P : \E t \in DOMAIN tasks : P[i] = tasks[t]
    BY ONLY <1>1, <1>7, ScheduleForm, ZenonT(40)
  <2>2. \A t \in DOMAIN tasks : \E i \in DOMAIN P : P[i] = tasks[t]
    BY ONLY <1>1, <1>7, ScheduleForm, ZenonT(40)
  <2>3. \A i, j \in DOMAIN P : P[i] = P[j] => i = j
    BY ONLY <1>1, <1>7, ScheduleForm
  <2> QED
    BY <2>1, <2>2, <2>3
<1>9. DOMAIN P = 1..Len(P) /\ Len(P) \in Nat /\ \A i \in DOMAIN P : P[i] \in T
  BY <1>6, LenProperties, ElementOfSeq
<1>10. /\ DOMAIN aspects = 1..Len(aspects) /\ Len(aspects) \in Nat
       /\ \A a \in DOMAIN aspects : aspects[a] \in AspectsOf(intake, D)
  BY <1>3, LenProperties, ElementOfSeq
<1>11. aspects \in Seq(Range(aspects)) /\ P \in Seq(Range(P))
  <2>1. ASSUME NEW X, NEW s \in Seq(X) PROVE s \in Seq(Range(s))
    BY DEF Range
  <2> HIDE DEF T
  <2> QED
    BY <1>3, <1>6, <2>1
<1>12. IsInjective(P)
  BY <1>8 DEF IsInjective
<1>13. ASSUME NEW a \in DOMAIN aspects
       PROVE  /\ aspects[a].question \in D
              /\ aspects[a].facts \subseteq DOMAIN intake.facts
              /\ \E t \in Range(P) : t.aspect = a /\ t.required
  <2>1. aspects[a].question \in D /\ aspects[a].facts \subseteq DOMAIN intake.facts
    BY <1>10 DEF AspectsOf
  <2>2. PICK t \in DOMAIN tasks : tasks[t].aspect = a /\ tasks[t].required
    BY <1>1
  <2>3. PICK i \in DOMAIN P : P[i] = tasks[t]
    BY <1>8
  <2>4. P[i] \in Range(P) /\ P[i].aspect = a /\ P[i].required
    BY <2>2, <2>3 DEF Range
  <2> QED
    BY <2>1, <2>4
<1>14. ASSUME NEW t \in Range(P)
       PROVE  t.aspect \in DOMAIN aspects /\ t.hint \in 0..Len(intake.hints)
  <2>1. PICK i \in DOMAIN P : t = P[i]
    BY DEF Range
  <2>2. t \in T
    BY <1>9, <2>1
  <2> QED
    BY <2>2 DEF TaskSet
<1>15. Len(P) <= MaxTasks
  BY <1>1, <1>6
<1>16. PlanAccepted(intake, plan)
  <2> HIDE DEF T
  <2> QED
    BY <1>2, <1>3, <1>11, <1>12, <1>13, <1>14, <1>15 DEF PlanAccepted, P, D
<1>17. ASSUME NEW a \in DOMAIN aspects
       PROVE  Cardinality({i \in DOMAIN P : P[i].aspect = a}) <= MaxQueries
  <2> DEFINE S == {i \in DOMAIN P : P[i].aspect = a}
             U == {t \in DOMAIN tasks : tasks[t].aspect = a}
             g == [i \in S |-> CHOOSE t \in DOMAIN tasks : tasks[t] = P[i]]
  <2>1. IsFiniteSet(U) /\ Cardinality(U) <= MaxQueries
    BY <1>1
  <2>2. ASSUME NEW i \in S PROVE g[i] \in U /\ tasks[g[i]] = P[i]
    <3>1. \E t \in DOMAIN tasks : tasks[t] = P[i]
      BY <1>8
    <3>2. g[i] \in DOMAIN tasks /\ tasks[g[i]] = P[i]
      BY <3>1
    <3>3. P[i].aspect = a
      OBVIOUS
    <3> HIDE DEF g
    <3> QED
      BY <3>2, <3>3, Zenon
  <2>3. DOMAIN g = S
    OBVIOUS
  <2>31. g = [i \in S |-> g[i]]
    OBVIOUS
  <2> HIDE DEF g
  <2>32. g \in [S -> U]
    <3> HIDE DEF S, U
    <3> QED
      BY <2>2, <2>31
  <2>4. \A i, j \in S : g[i] = g[j] => i = j
    BY <1>8, <2>2
  <2> HIDE DEF S, U
  <2>5. g \in Injection(S, U)
    BY <2>32, <2>4 DEF Injection, IsInjective
  <2>6. IsFiniteSet(S) /\ Cardinality(S) <= Cardinality(U)
    BY <2>1, <2>5, FS_Injection
  <2>7. Cardinality(S) \in Nat /\ Cardinality(U) \in Nat /\ MaxQueries \in Nat
    BY <2>1, <2>6, FS_CardinalityType DEF PlanningAssumption
  <2>8. Cardinality(S) <= MaxQueries
    BY <2>1, <2>6, <2>7
  <2> QED
    BY <2>8 DEF S
<1>18. QueriesFit(plan)
  BY <1>2, <1>17 DEF QueriesFit, P
<1> QED
  BY <1>16, <1>18 DEF plan

\* The planner's plans are fair.
LEMMA PlansFair ==
    ASSUME PlanningAssumption, NEW intake, IntakeAccepted(intake), Plannable(intake)
    PROVE  Fair(BuildPlan(intake))
<1> SUFFICES ASSUME NEW aspects, aspects = BuildPlan(intake).aspects,
                    NEW P, P = BuildPlan(intake).tasks
             PROVE  /\ \A i, j \in DOMAIN P : P[j].required /\ ~P[i].required => j < i
                    /\ \A r \in BOOLEAN :
                         /\ \A p, q : FairBetween(P, r, Group(aspects, p), Group(aspects, q))
                         /\ \A a, b \in DOMAIN aspects : aspects[a].question = aspects[b].question =>
                              FairBetween(P, r, {a}, {b})
  BY DEF Fair
<1> DEFINE tasks == PlanTasks(intake)
           T == TaskSet(intake, aspects)
           R == LaneTasks(tasks, 0)
           O == LaneTasks(tasks, 2)
<1>1. aspects = Aspects(intake)
  BY BuiltPlan
<1>2. P = ScheduleTasks(aspects, tasks)
  BY <1>1, BuiltPlan
<1>3. tasks \in Seq(T)
  BY <1>1, TasksForm DEF TasksFit
<1> HIDE DEF tasks, R, O
<1>4. \A t \in DOMAIN tasks : tasks[t].required \in BOOLEAN /\ tasks[t].aspect \in DOMAIN aspects
  <2>1. \A t \in DOMAIN tasks : tasks[t] \in T
    BY <1>3, ElementOfSeq
  <2> QED
    BY <2>1 DEF TaskSet
<1> HIDE DEF T
<1>5. \E first, last : LanesOf(aspects, tasks, P, first, last)
  BY <1>2, <1>3, <1>4, LanesOfSchedule
<1>6. PICK first, last : LanesOf(aspects, tasks, P, first, last)
  BY <1>5
<1>7. \A i, j \in DOMAIN P : P[j].required /\ ~P[i].required => j < i
  BY ONLY <1>3, <1>6, ScheduleForm
<1>8. /\ LaneIsFair(aspects, tasks, R, first) /\ LaneIsFair(aspects, tasks, O, last)
  BY <1>6 DEF LanesOf, R, O
<1>9. /\ \A t \in R : tasks[t].aspect \in DOMAIN aspects
      /\ \A t \in O : tasks[t].aspect \in DOMAIN aspects
  BY <1>4 DEF R, O, LaneTasks
<1>10. ASSUME NEW G, NEW H, Passed(first, OwnOf(tasks, R, G), OwnOf(tasks, R, H)),
              Passed(last, OwnOf(tasks, O, G), OwnOf(tasks, O, H)), NEW r \in BOOLEAN
       PROVE  FairBetween(P, r, G, H)
  <2>1. CASE r = TRUE
    BY <1>6, <1>10, <2>1, FairOfPassed DEF R
  <2>2. CASE r = FALSE
    BY <1>6, <1>10, <2>2, FairOfPassed DEF O
  <2> QED
    BY <2>1, <2>2
<1>11. /\ \A p, q : Passed(first, OwnOf(tasks, R, Group(aspects, p)), OwnOf(tasks, R, Group(aspects, q)))
       /\ \A a, b \in DOMAIN aspects : aspects[a].question = aspects[b].question =>
            Passed(first, OwnOf(tasks, R, {a}), OwnOf(tasks, R, {b}))
  <2>1. \A p, q : Passed(first, OwnOf(tasks, R, Group(aspects, p)), OwnOf(tasks, R, Group(aspects, q)))
    BY ONLY <1>8, <1>9, GroupsOfLane
  <2>2. \A a, b \in DOMAIN aspects : aspects[a].question = aspects[b].question =>
            Passed(first, OwnOf(tasks, R, {a}), OwnOf(tasks, R, {b}))
    BY ONLY <1>8, <1>9, GroupsOfLane
  <2> QED
    BY <2>1, <2>2
<1>12. /\ \A p, q : Passed(last, OwnOf(tasks, O, Group(aspects, p)), OwnOf(tasks, O, Group(aspects, q)))
       /\ \A a, b \in DOMAIN aspects : aspects[a].question = aspects[b].question =>
            Passed(last, OwnOf(tasks, O, {a}), OwnOf(tasks, O, {b}))
  <2>1. \A p, q : Passed(last, OwnOf(tasks, O, Group(aspects, p)), OwnOf(tasks, O, Group(aspects, q)))
    BY ONLY <1>8, <1>9, GroupsOfLane
  <2>2. \A a, b \in DOMAIN aspects : aspects[a].question = aspects[b].question =>
            Passed(last, OwnOf(tasks, O, {a}), OwnOf(tasks, O, {b}))
    BY ONLY <1>8, <1>9, GroupsOfLane
  <2> QED
    BY <2>1, <2>2
<1>13. \A r \in BOOLEAN : \A p, q : FairBetween(P, r, Group(aspects, p), Group(aspects, q))
  BY ONLY <1>10, <1>11, <1>12
<1>14. \A r \in BOOLEAN : \A a, b \in DOMAIN aspects : aspects[a].question = aspects[b].question =>
          FairBetween(P, r, {a}, {b})
  BY ONLY <1>10, <1>11, <1>12
<1> QED
  BY <1>7, <1>13, <1>14
=============================================================================
