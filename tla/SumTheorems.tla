----------------------------- MODULE SumTheorems -----------------------------
(***************************************************************************)
(* Sums over finite sets: what the proofs need of MapThenSumSet, the       *)
(* operator the modules add numbers up with.  The weights are a function,  *)
(* and the induction over a finite set is stated with a set of its         *)
(* subsets, so that every lemma is first-order.                            *)
(***************************************************************************)
EXTENDS FiniteSetsExt, FiniteSetTheorems, TLAPS

Total(w, S) == MapThenSumSet(LAMBDA x : w[x], S)

\* A set of subsets of a finite set that holds the empty set, and with a set also
\* the set with one element more, holds the whole set.
LEMMA SetInduction ==
  ASSUME NEW S, IsFiniteSet(S), NEW Q \in SUBSET SUBSET S, {} \in Q,
         \A T \in Q : \A x \in S \ T : T \cup {x} \in Q
  PROVE  S \in Q
<1> SUFFICES ASSUME S \notin Q PROVE FALSE
  OBVIOUS
<1> DEFINE C == {S \ T : T \in Q}
<1> HIDE DEF C
<1>1. IsWellFoundedOn(StrictSubsetOrdering(S), SUBSET S)
  <2>1. FiniteSubsetsOf(S) = SUBSET S
    BY FS_FiniteSubsetsOfFinite, Zenon
  <2>2. IsWellFoundedOn(StrictSubsetOrdering(S), FiniteSubsetsOf(S))
    BY FS_StrictSubsetOrderingWellFounded, Zenon
  <2>3. QED
    BY <2>1, <2>2, Zenon
<1>2. C \subseteq SUBSET S /\ C # {}
  <2>1. S \ {} \in C
    BY DEF C
  <2>2. C \subseteq SUBSET S
    BY DEF C
  <2>3. QED
    BY <2>1, <2>2
<1>3. PICK R \in C : \A U \in C : <<U, R>> \notin StrictSubsetOrdering(S)
  BY <1>1, <1>2, WFMin
<1> USE DEF C
<1>4. PICK T \in Q : R = S \ T
  BY <1>3
<1>5. PICK x \in S \ T : TRUE
  BY <1>4
<1>6. S \ (T \cup {x}) \in C
  BY <1>4, <1>5
<1>7. <<S \ (T \cup {x}), R>> \in StrictSubsetOrdering(S)
  BY <1>4, <1>5 DEF StrictSubsetOrdering
<1>8. QED
  BY <1>3, <1>6, <1>7

-------------------------------------------------------------------------------
(* The recursion behind the sum *)

Chosen(s) == CHOOSE x \in s : TRUE
Step(w, g, s) == IF s = {} THEN 0 ELSE w[Chosen(s)] + g[s \ {Chosen(s)}]
Solves(w, g, S) == g = [s \in SUBSET S |-> Step(w, g, s)]

LEMMA ChosenIn == ASSUME NEW s, s # {} PROVE Chosen(s) \in s
  BY DEF Chosen

\* A chosen element less is a set of one element less.
LEMMA Smaller ==
  ASSUME NEW S, IsFiniteSet(S), NEW s \in SUBSET S
  PROVE  /\ IsFiniteSet(s) /\ Cardinality(s) \in Nat /\ Cardinality(s) <= Cardinality(S)
         /\ s = {} <=> Cardinality(s) = 0
         /\ \A x \in s : /\ s \ {x} \in SUBSET S /\ IsFiniteSet(s \ {x})
                        /\ Cardinality(s \ {x}) = Cardinality(s) - 1
         /\ \A x \in S \ s : /\ s \cup {x} \in SUBSET S /\ IsFiniteSet(s \cup {x})
                            /\ Cardinality(s \cup {x}) = Cardinality(s) + 1
<1>1. IsFiniteSet(s) /\ Cardinality(s) <= Cardinality(S)
  BY FS_Subset
<1>2. Cardinality(s) \in Nat /\ (s = {} <=> Cardinality(s) = 0)
  BY <1>1, FS_CardinalityType, FS_EmptySet
<1>3. ASSUME NEW x \in s
      PROVE  /\ s \ {x} \in SUBSET S /\ IsFiniteSet(s \ {x})
             /\ Cardinality(s \ {x}) = Cardinality(s) - 1
  BY <1>1, FS_RemoveElement
<1>4. ASSUME NEW x \in S \ s
      PROVE  /\ s \cup {x} \in SUBSET S /\ IsFiniteSet(s \cup {x})
             /\ Cardinality(s \cup {x}) = Cardinality(s) + 1
  BY <1>1, FS_AddElement
<1>5. QED
  BY <1>1, <1>2, <1>3, <1>4

LEMMA SolutionExists ==
  ASSUME NEW S, IsFiniteSet(S), NEW w \in [S -> Int]
  PROVE  \E g \in [SUBSET S -> Int] : Solves(w, g, S)
<1> DEFINE Upto(g, T) == \A s \in SUBSET S :
                           Cardinality(s) <= Cardinality(T) => g[s] = Step(w, g, s)
           Q == {T \in SUBSET S : \E g \in [SUBSET S -> Int] : Upto(g, T)}
<1>1. {} \in Q
  <2> DEFINE g == [s \in SUBSET S |-> 0]
  <2>1. g \in [SUBSET S -> Int]
    OBVIOUS
  <2>2. ASSUME NEW s \in SUBSET S, Cardinality(s) <= Cardinality({})
        PROVE  g[s] = Step(w, g, s)
    <3>1. s = {}
      BY <2>2, Smaller, FS_EmptySet
    <3>2. QED
      BY <3>1 DEF Step
  <2> HIDE DEF g
  <2>3. QED
    BY <2>1, <2>2
<1>2. ASSUME NEW T \in Q, NEW x \in S \ T
      PROVE  T \cup {x} \in Q
  <2>1. T \in SUBSET S
    OBVIOUS
  <2>2. PICK g \in [SUBSET S -> Int] : Upto(g, T)
    OBVIOUS
  <2> DEFINE h == [s \in SUBSET S |-> IF Cardinality(s) <= Cardinality(T)
                                      THEN g[s] ELSE Step(w, g, s)]
  <2>3. ASSUME NEW s \in SUBSET S
        PROVE  /\ h[s] \in Int /\ Step(w, g, s) \in Int
               /\ Cardinality(s) <= Cardinality(T) => h[s] = g[s]
               /\ ~ (Cardinality(s) <= Cardinality(T)) => h[s] = Step(w, g, s)
    <3>1. Step(w, g, s) \in Int
      <4>1. CASE s = {}
        BY <4>1 DEF Step
      <4>2. CASE s # {}
        <5>1. Chosen(s) \in S /\ s \ {Chosen(s)} \in SUBSET S
          BY <4>2, ChosenIn
        <5>2. QED
          BY <5>1 DEF Step
      <4>3. QED
        BY <4>1, <4>2
    <3>2. g[s] \in Int
      OBVIOUS
    <3>3. QED
      BY <3>1, <3>2
  <2>4. h \in [SUBSET S -> Int]
    BY <2>3
  <2> HIDE DEF h
  <2>5. ASSUME NEW s \in SUBSET S, Cardinality(s) <= Cardinality(T \cup {x})
        PROVE  h[s] = Step(w, h, s)
    <3>1. /\ Cardinality(T \cup {x}) = Cardinality(T) + 1 /\ Cardinality(T) \in Nat
          /\ Cardinality(s) \in Nat
      BY <2>1, Smaller
    <3>2. h[s] = Step(w, g, s)
      BY <2>2, <2>3
    <3>3. CASE s = {}
      BY <3>2, <3>3 DEF Step
    <3>4. CASE s # {}
      <4> DEFINE r == s \ {Chosen(s)}
      <4>1. r \in SUBSET S /\ Cardinality(r) = Cardinality(s) - 1
        BY <3>4, ChosenIn, Smaller
      <4> HIDE DEF r
      <4>2. h[r] = g[r]
        BY <2>3, <2>5, <3>1, <4>1
      <4>3. QED
        BY <3>2, <3>4, <4>2 DEF Step, r
    <3>5. QED
      BY <3>3, <3>4
  <2>6. T \cup {x} \in SUBSET S
    BY <2>1
  <2>7. QED
    BY <2>4, <2>5, <2>6
<1>3. S \in Q
  <2> HIDE DEF Q
  <2>1. Q \in SUBSET SUBSET S
    BY DEF Q
  <2>2. QED
    BY <1>1, <1>2, <2>1, SetInduction
<1>4. PICK g \in [SUBSET S -> Int] : Upto(g, S)
  BY <1>3
<1>5. ASSUME NEW s \in SUBSET S PROVE g[s] = Step(w, g, s)
  BY <1>4, Smaller
<1>6. g = [s \in SUBSET S |-> Step(w, g, s)]
  BY <1>5
<1>7. QED
  BY <1>6 DEF Solves

LEMMA SolutionsAgree ==
  ASSUME NEW S, IsFiniteSet(S), NEW T \in SUBSET S, NEW w, NEW g, NEW h,
         Solves(w, g, S), Solves(w, h, T)
  PROVE  \A t \in SUBSET T : g[t] = h[t]
<1> DEFINE Q == {U \in SUBSET T : \A t \in SUBSET T :
                   Cardinality(t) <= Cardinality(U) => g[t] = h[t]}
<1>0. IsFiniteSet(T)
  BY Smaller
<1>1. ASSUME NEW t \in SUBSET T
      PROVE  g[t] = Step(w, g, t) /\ h[t] = Step(w, h, t)
  BY DEF Solves
<1>2. {} \in Q
  <2>1. ASSUME NEW t \in SUBSET T, Cardinality(t) <= Cardinality({})
        PROVE  g[t] = h[t]
    <3>1. t = {}
      BY <1>0, <2>1, Smaller, FS_EmptySet
    <3>2. QED
      BY <1>1, <3>1 DEF Step
  <2>2. QED
    BY <2>1
<1>3. ASSUME NEW U \in Q, NEW x \in T \ U
      PROVE  U \cup {x} \in Q
  <2>1. U \in SUBSET T /\ \A t \in SUBSET T : Cardinality(t) <= Cardinality(U) => g[t] = h[t]
    OBVIOUS
  <2>2. ASSUME NEW t \in SUBSET T, Cardinality(t) <= Cardinality(U \cup {x})
        PROVE  g[t] = h[t]
    <3>1. /\ Cardinality(U \cup {x}) = Cardinality(U) + 1 /\ Cardinality(U) \in Nat
          /\ Cardinality(t) \in Nat
      BY <1>0, <2>1, Smaller
    <3>2. CASE t = {}
      BY <1>1, <3>2 DEF Step
    <3>3. CASE t # {}
      <4> DEFINE r == t \ {Chosen(t)}
      <4>1. r \in SUBSET T /\ Cardinality(r) = Cardinality(t) - 1
        BY <1>0, <3>3, ChosenIn, Smaller
      <4> HIDE DEF r
      <4>2. g[r] = h[r]
        BY <2>1, <2>2, <3>1, <4>1
      <4>3. g[t] = Step(w, g, t) /\ h[t] = Step(w, h, t)
        BY <1>1
      <4>4. QED
        BY <3>3, <4>2, <4>3 DEF Step, r
    <3>4. QED
      BY <3>2, <3>3
  <2>3. QED
    BY <2>1, <2>2
<1>4. T \in Q
  <2> HIDE DEF Q
  <2>1. Q \in SUBSET SUBSET T
    BY DEF Q
  <2>2. QED
    BY <1>0, <1>2, <1>3, <2>1, SetInduction
<1>5. QED
  BY <1>0, <1>4, Smaller

-------------------------------------------------------------------------------
(* The sum *)

IsSum(w, g, S) == Solves(w, g, S) /\ \A T \in SUBSET S : Total(w, T) = g[T]

LEMMA TotalSolves ==
  ASSUME NEW S, IsFiniteSet(S), NEW w \in [S -> Int]
  PROVE  \E g \in [SUBSET S -> Int] : IsSum(w, g, S)
<1>1. ASSUME NEW T \in SUBSET S
      PROVE  \E h : Solves(w, h, T) /\ Total(w, T) = h[T]
  <2> DEFINE h == CHOOSE h : Solves(w, h, T)
  <2>1. PICK g \in [SUBSET S -> Int] : Solves(w, g, S)
    BY SolutionExists
  <2>2. Solves(w, [t \in SUBSET T |-> g[t]], T)
    <3> DEFINE k == [t \in SUBSET T |-> g[t]]
    <3>1. ASSUME NEW t \in SUBSET T PROVE k[t] = Step(w, k, t)
      <4>1. g[t] = Step(w, g, t)
        BY <2>1 DEF Solves
      <4>2. CASE t = {}
        BY <4>1, <4>2 DEF Step
      <4>3. CASE t # {}
        BY <4>1, <4>3 DEF Step
      <4>4. QED
        BY <4>2, <4>3
    <3>2. k = [t \in SUBSET T |-> Step(w, k, t)]
      BY <3>1
    <3>3. QED
      BY <3>2 DEF Solves
  <2>3. Solves(w, h, T)
    BY <2>2
  <2>4. Total(w, T) = h[T]
    BY Zenon DEF Total, MapThenSumSet, MapThenFoldSet, Solves, Step, Chosen
  <2>5. QED
    BY <2>3, <2>4
<1>2. PICK g \in [SUBSET S -> Int] : Solves(w, g, S)
  BY SolutionExists
<1>3. ASSUME NEW T \in SUBSET S PROVE Total(w, T) = g[T]
  BY <1>1, <1>2, SolutionsAgree
<1>4. QED
  BY <1>2, <1>3 DEF IsSum

LEMMA TotalRecursion ==
  ASSUME NEW S, IsFiniteSet(S), NEW w \in [S -> Int]
  PROVE  /\ \A T \in SUBSET S : Total(w, T) \in Int
         /\ Total(w, {}) = 0
         /\ \A T \in SUBSET S : T # {} =>
              Total(w, T) = w[Chosen(T)] + Total(w, T \ {Chosen(T)})
<1>0. PICK g \in [SUBSET S -> Int] : IsSum(w, g, S)
  BY TotalSolves
<1>1. Solves(w, g, S) /\ \A T \in SUBSET S : Total(w, T) = g[T]
  BY <1>0 DEF IsSum
<1>2. ASSUME NEW T \in SUBSET S PROVE g[T] = Step(w, g, T)
  BY <1>1 DEF Solves
<1>3. Total(w, {}) = 0
  BY <1>1, <1>2 DEF Step
<1>4. ASSUME NEW T \in SUBSET S, T # {}
      PROVE  Total(w, T) = w[Chosen(T)] + Total(w, T \ {Chosen(T)})
  BY <1>1, <1>2, <1>4 DEF Step
<1>5. QED
  BY <1>1, <1>3, <1>4

\* A sum does not depend on the order the elements are taken in.
LEMMA TotalAdd ==
  ASSUME NEW S, IsFiniteSet(S), NEW w \in [S -> Int]
  PROVE  \A T \in SUBSET S : \A x \in S \ T : Total(w, T \cup {x}) = Total(w, T) + w[x]
<1> DEFINE Good(T) == \A x \in S \ T : Total(w, T \cup {x}) = Total(w, T) + w[x]
           Q == {U \in SUBSET S : \A T \in SUBSET S :
                   Cardinality(T) <= Cardinality(U) => Good(T)}
<1>1. \A T \in SUBSET S : Total(w, T) \in Int
  BY TotalRecursion
<1>2. {} \in Q
  <2>1. ASSUME NEW T \in SUBSET S, Cardinality(T) <= Cardinality({}), NEW x \in S \ T
        PROVE  Total(w, T \cup {x}) = Total(w, T) + w[x]
    <3>1. T = {}
      BY <2>1, Smaller, FS_EmptySet
    <3>2. T \cup {x} = {x} /\ {x} \in SUBSET S /\ {x} # {}
      BY <3>1
    <3>3. Chosen({x}) = x
      BY <3>2, ChosenIn
    <3>4. Total(w, {x}) = w[Chosen({x})] + Total(w, {x} \ {Chosen({x})})
      BY <3>2, TotalRecursion
    <3>5. {x} \ {x} = {} /\ w[x] \in Int
      OBVIOUS
    <3>6. Total(w, {}) = 0
      BY TotalRecursion
    <3>7. Total(w, {x}) = w[x] + 0
      BY <3>3, <3>4, <3>5, <3>6, Zenon
    <3>8. QED
      BY <3>1, <3>2, <3>5, <3>6, <3>7
  <2>2. QED
    BY <2>1
<1>3. ASSUME NEW U \in Q, NEW z \in S \ U
      PROVE  U \cup {z} \in Q
  <2>1. U \in SUBSET S /\ \A T \in SUBSET S : Cardinality(T) <= Cardinality(U) => Good(T)
    OBVIOUS
  <2>2. ASSUME NEW T \in SUBSET S, Cardinality(T) <= Cardinality(U \cup {z}), NEW x \in S \ T
        PROVE  Total(w, T \cup {x}) = Total(w, T) + w[x]
    <3> DEFINE V == T \cup {x}
               c == Chosen(V)
    <3>1. /\ Cardinality(U \cup {z}) = Cardinality(U) + 1 /\ Cardinality(U) \in Nat
          /\ Cardinality(T) \in Nat
      BY <2>1, Smaller
    <3>2. V \in SUBSET S /\ V # {} /\ x \in V /\ c \in V
      BY ChosenIn
    <3>3. Total(w, V) = w[c] + Total(w, V \ {c})
      <4> HIDE DEF V
      <4>1. QED
        BY <3>2, TotalRecursion
    <3>4. CASE c = x
      <4>1. V \ {c} = T
        BY <3>4
      <4>2. w[x] \in Int /\ Total(w, T) \in Int
        BY <1>1
      <4>3. Total(w, T \cup {x}) = w[x] + Total(w, T)
        BY <3>3, <3>4, <4>1, Zenon
      <4>4. QED
        BY <4>2, <4>3
    <3>5. CASE c # x
      <4> DEFINE R == T \ {c}
      <4>1. c \in T
        BY <3>2, <3>5
      <4> HIDE DEF c, V
      <4>2. R \in SUBSET S /\ Cardinality(R) = Cardinality(T) - 1
        BY <4>1, Smaller
      <4>3. V \ {c} = R \cup {x} /\ T = R \cup {c} /\ x \in S \ R /\ c \in S \ R
        BY <3>2, <3>5, <4>1 DEF V
      <4> HIDE DEF R
      <4>4. \A y \in S \ R : Total(w, R \cup {y}) = Total(w, R) + w[y]
        BY <2>1, <2>2, <3>1, <4>2
      <4>5. Total(w, V \ {c}) = Total(w, R) + w[x] /\ Total(w, T) = Total(w, R) + w[c]
        BY <4>3, <4>4
      <4>6. w[x] \in Int /\ w[c] \in Int /\ Total(w, R) \in Int
        BY <1>1, <4>2, <4>3
      <4>7. QED
        BY <3>3, <4>5, <4>6 DEF V
    <3>6. QED
      BY <3>4, <3>5
  <2>3. QED
    BY <2>1, <2>2
<1>4. S \in Q
  <2> HIDE DEF Q
  <2>1. Q \in SUBSET SUBSET S
    BY DEF Q
  <2>2. QED
    BY <1>2, <1>3, <2>1, SetInduction
<1>5. QED
  BY <1>4, Smaller

LEMMA TotalRemove ==
  ASSUME NEW S, IsFiniteSet(S), NEW w \in [S -> Int], NEW T \in SUBSET S, NEW x \in T
  PROVE  Total(w, T) = Total(w, T \ {x}) + w[x]
<1>1. T \ {x} \in SUBSET S /\ x \in S \ (T \ {x}) /\ T = (T \ {x}) \cup {x}
  OBVIOUS
<1>2. QED
  BY <1>1, TotalAdd

\* Weights outside the set that is added up do not matter.
LEMMA TotalRestricted ==
  ASSUME NEW S, IsFiniteSet(S), NEW w \in [S -> Int], NEW T \in SUBSET S
  PROVE  Total([x \in T |-> w[x]], T) = Total(w, T)
<1> DEFINE v == [x \in T |-> w[x]]
           Q == {U \in SUBSET T : Total(v, U) = Total(w, U)}
<1>1. v \in [T -> Int] /\ IsFiniteSet(T) /\ \A x \in T : v[x] = w[x]
  BY Smaller
<1> HIDE DEF v
<1>2. {} \in Q
  BY <1>1, TotalRecursion
<1>3. ASSUME NEW U \in Q, NEW x \in T \ U
      PROVE  U \cup {x} \in Q
  <2>1. U \in SUBSET T /\ U \in SUBSET S /\ x \in S \ U /\ Total(v, U) = Total(w, U)
    OBVIOUS
  <2>2. Total(v, U \cup {x}) = Total(v, U) + v[x]
    BY <1>1, <2>1, TotalAdd
  <2>3. Total(w, U \cup {x}) = Total(w, U) + w[x]
    BY <2>1, TotalAdd
  <2>4. QED
    BY <1>1, <2>1, <2>2, <2>3
<1>4. T \in Q
  <2> HIDE DEF Q
  <2>1. Q \in SUBSET SUBSET T
    BY DEF Q
  <2>2. QED
    BY <1>1, <1>2, <1>3, <2>1, SetInduction
<1>5. QED
  BY <1>4 DEF v

\* Equal weights make equal sums.
LEMMA TotalSame ==
  ASSUME NEW S, IsFiniteSet(S), NEW v \in [S -> Int], NEW w \in [S -> Int],
         NEW T \in SUBSET S, \A x \in T : v[x] = w[x]
  PROVE  Total(v, T) = Total(w, T)
<1> DEFINE Q == {U \in SUBSET T : Total(v, U) = Total(w, U)}
<1>1. {} \in Q
  BY TotalRecursion
<1>2. ASSUME NEW U \in Q, NEW x \in T \ U
      PROVE  U \cup {x} \in Q
  <2>1. U \in SUBSET S /\ x \in S \ U /\ v[x] = w[x] /\ Total(v, U) = Total(w, U)
    OBVIOUS
  <2>2. Total(v, U \cup {x}) = Total(v, U) + v[x] /\ Total(w, U \cup {x}) = Total(w, U) + w[x]
    BY <2>1, TotalAdd
  <2>3. QED
    BY <2>1, <2>2
<1>3. T \in Q
  <2> HIDE DEF Q
  <2>1. Q \in SUBSET SUBSET T /\ IsFiniteSet(T)
    BY Smaller DEF Q
  <2>2. QED
    BY <1>1, <1>2, <2>1, SetInduction
<1>4. QED
  BY <1>3

\* What a change of one weight does to the sum.
LEMMA TotalChange ==
  ASSUME NEW S, IsFiniteSet(S), NEW v \in [S -> Int], NEW w \in [S -> Int], NEW x \in S,
         \A y \in S \ {x} : v[y] = w[y]
  PROVE  Total(v, S) = Total(w, S) - w[x] + v[x]
<1>1. Total(v, S \ {x}) = Total(w, S \ {x})
  BY TotalSame
<1>2. Total(v, S) = Total(v, S \ {x}) + v[x] /\ Total(w, S) = Total(w, S \ {x}) + w[x]
  BY TotalRemove
<1>3. Total(w, S \ {x}) \in Int /\ w[x] \in Int /\ v[x] \in Int
  BY TotalRecursion
<1>4. QED
  BY <1>1, <1>2, <1>3

\* Smaller weights make smaller sums.
LEMMA TotalMonotone ==
  ASSUME NEW S, IsFiniteSet(S), NEW v \in [S -> Int], NEW w \in [S -> Int],
         \A x \in S : v[x] <= w[x]
  PROVE  Total(v, S) <= Total(w, S)
<1> DEFINE Q == {U \in SUBSET S : Total(v, U) <= Total(w, U)}
<1>1. {} \in Q
  BY TotalRecursion
<1>2. ASSUME NEW U \in Q, NEW x \in S \ U
      PROVE  U \cup {x} \in Q
  <2>1. U \in SUBSET S /\ v[x] <= w[x] /\ Total(v, U) <= Total(w, U)
    OBVIOUS
  <2>2. Total(v, U \cup {x}) = Total(v, U) + v[x] /\ Total(w, U \cup {x}) = Total(w, U) + w[x]
    BY <2>1, TotalAdd
  <2>3. Total(v, U) \in Int /\ Total(w, U) \in Int /\ v[x] \in Int /\ w[x] \in Int
    BY <2>1, TotalRecursion
  <2>4. U \cup {x} \in SUBSET S
    BY <2>1
  <2>5. QED
    BY <2>1, <2>2, <2>3, <2>4
<1>3. S \in Q
  <2> HIDE DEF Q
  <2>1. Q \in SUBSET SUBSET S
    BY DEF Q
  <2>2. QED
    BY <1>1, <1>2, <2>1, SetInduction
<1>4. QED
  BY <1>3

\* The sum of nothing but zeros.
LEMMA TotalZero ==
  ASSUME NEW S, IsFiniteSet(S), NEW w \in [S -> Int], \A x \in S : w[x] = 0
  PROVE  Total(w, S) = 0
<1> DEFINE Q == {U \in SUBSET S : Total(w, U) = 0}
<1>1. {} \in Q
  BY TotalRecursion
<1>2. ASSUME NEW U \in Q, NEW x \in S \ U
      PROVE  U \cup {x} \in Q
  <2>1. U \in SUBSET S /\ w[x] = 0 /\ Total(w, U) = 0
    OBVIOUS
  <2>2. Total(w, U \cup {x}) = Total(w, U) + w[x]
    BY <2>1, TotalAdd
  <2>3. QED
    BY <2>1, <2>2
<1>3. S \in Q
  <2> HIDE DEF Q
  <2>1. Q \in SUBSET SUBSET S
    BY DEF Q
  <2>2. QED
    BY <1>1, <1>2, <2>1, SetInduction
<1>4. QED
  BY <1>3

-------------------------------------------------------------------------------
(* Sums of one column, and of all columns at once *)

Column(v, c, S) == MapThenSumSet(LAMBDA x : v[x][c], S)

LEMMA ColumnIsTotal ==
  ASSUME NEW S, IsFiniteSet(S), NEW v, NEW c, \A x \in S : v[x][c] \in Int
  PROVE  Column(v, c, S) = Total([x \in S |-> v[x][c]], S)
<1> DEFINE w == [x \in S |-> v[x][c]]
           Body(h, s) == IF s = {} THEN 0
                         ELSE v[CHOOSE x \in s : TRUE][c] + h[s \ {CHOOSE x \in s : TRUE}]
           h == CHOOSE h : h = [s \in SUBSET S |-> Body(h, s)]
<1>1. w \in [S -> Int]
  OBVIOUS
<1>2. PICK g \in [SUBSET S -> Int] : IsSum(w, g, S)
  BY <1>1, TotalSolves
<1>3. ASSUME NEW k, NEW s \in SUBSET S PROVE Step(w, k, s) = Body(k, s)
  <2>1. CASE s = {}
    BY <2>1 DEF Step
  <2>2. CASE s # {}
    <3>1. Chosen(s) \in S /\ w[Chosen(s)] = v[Chosen(s)][c]
      BY <2>2, ChosenIn
    <3>2. QED
      BY <2>2, <3>1 DEF Step, Chosen
  <2>3. QED
    BY <2>1, <2>2
<1> HIDE DEF w, Body
<1>4. ASSUME NEW k PROVE [s \in SUBSET S |-> Step(w, k, s)] = [s \in SUBSET S |-> Body(k, s)]
  BY <1>3
<1>5. Solves(w, g, S) /\ Total(w, S) = g[S]
  BY <1>2 DEF IsSum
<1>6. g = [s \in SUBSET S |-> Body(g, s)]
  BY <1>4, <1>5, Zenon DEF Solves
<1>7. h = [s \in SUBSET S |-> Body(h, s)]
  BY <1>6, Zenon
<1>8. Solves(w, h, S)
  BY <1>4, <1>7, Zenon DEF Solves
<1>9. Column(v, c, S) = h[S]
  BY Zenon DEF Column, MapThenSumSet, MapThenFoldSet, Body
<1> HIDE DEF h
<1>10. g[S] = h[S]
  BY <1>5, <1>8, SolutionsAgree
<1>11. QED
  BY <1>5, <1>9, <1>10 DEF w

LEMMA ColumnOver ==
  ASSUME NEW S, IsFiniteSet(S), NEW v, NEW c, \A x \in S : v[x][c] \in Int,
         NEW T \in SUBSET S
  PROVE  Column(v, c, T) = Total([x \in S |-> v[x][c]], T)
<1> DEFINE w == [x \in S |-> v[x][c]]
<1>1. IsFiniteSet(T) /\ \A x \in T : v[x][c] \in Int
  BY Smaller
<1>2. Column(v, c, T) = Total([x \in T |-> v[x][c]], T)
  BY <1>1, ColumnIsTotal
<1>3. [x \in T |-> v[x][c]] = [x \in T |-> w[x]] /\ w \in [S -> Int]
  OBVIOUS
<1> HIDE DEF w
<1>4. Total([x \in T |-> w[x]], T) = Total(w, T)
  BY <1>3, TotalRestricted
<1>5. QED
  BY <1>2, <1>3, <1>4, Zenon DEF w

\* The sum of functions to numbers, added up pointwise from a function of zeros.
Sums(v, zero, S) == FoldSet(LAMBDA x, sum : [c \in DOMAIN zero |-> v[x][c] + sum[c]], zero, S)

LEMMA SumsAreTotals ==
  ASSUME NEW S, IsFiniteSet(S), NEW C, NEW zero, zero = [c \in C |-> 0], NEW v,
         \A x \in S : \A c \in C : v[x][c] \in Int
  PROVE  Sums(v, zero, S) = [c \in C |-> Column(v, c, S)]
<1> DEFINE Body(h, s) == IF s = {} THEN zero
                         ELSE [c \in DOMAIN zero |->
                                 v[CHOOSE x \in s : TRUE][c] + h[s \ {CHOOSE x \in s : TRUE}][c]]
           h == CHOOSE h : h = [s \in SUBSET S |-> Body(h, s)]
           w == [c \in C |-> [x \in S |-> v[x][c]]]
           g == [s \in SUBSET S |-> [c \in C |-> Total(w[c], s)]]
<1>1. \A c \in C : w[c] \in [S -> Int]
  OBVIOUS
<1>2. ASSUME NEW s \in SUBSET S PROVE g[s] = Body(g, s)
  <2>1. CASE s = {}
    <3>1. \A c \in C : Total(w[c], s) = 0
      BY <1>1, <2>1, TotalRecursion
    <3>2. QED
      BY <2>1, <3>1
  <2>2. CASE s # {}
    <3> DEFINE r == s \ {Chosen(s)}
    <3>1. Chosen(s) \in S /\ r \in SUBSET S
      BY <2>2, ChosenIn
    <3>2. ASSUME NEW c \in C
          PROVE  Total(w[c], s) = v[Chosen(s)][c] + Total(w[c], r)
      <4> DEFINE u == w[c]
      <4>1. u \in [S -> Int] /\ u[Chosen(s)] = v[Chosen(s)][c]
        BY <1>1, <3>1
      <4> HIDE DEF u, r
      <4>2. Total(u, s) = u[Chosen(s)] + Total(u, s \ {Chosen(s)})
        BY <2>2, <4>1, TotalRecursion
      <4>3. QED
        BY <4>1, <4>2 DEF u, r
    <3>3. g[r] = [c \in C |-> Total(w[c], r)] /\ DOMAIN zero = C
      BY <3>1
    <3>4. Body(g, s) = [c \in C |-> v[Chosen(s)][c] + g[r][c]]
      BY <2>2, <3>3 DEF Chosen
    <3>5. g[s] = [c \in C |-> Total(w[c], s)]
      OBVIOUS
    <3> HIDE DEF r, w, Body, g
    <3>6. \A c \in C : Total(w[c], s) = v[Chosen(s)][c] + g[r][c]
      BY <3>2, <3>3
    <3>7. QED
      BY <3>4, <3>5, <3>6
  <2>3. QED
    BY <2>1, <2>2
<1>3. g = [s \in SUBSET S |-> Body(g, s)]
  BY <1>2
<1> HIDE DEF Body, g
<1>4. h = [s \in SUBSET S |-> Body(h, s)]
  BY <1>3, Zenon
<1> HIDE DEF h
<1>5. ASSUME NEW s \in SUBSET S PROVE h[s] = Body(h, s)
  BY <1>4
<1> DEFINE Q == {U \in SUBSET S : \A s \in SUBSET S :
                   Cardinality(s) <= Cardinality(U) => g[s] = h[s]}
<1>6. {} \in Q
  <2>1. ASSUME NEW s \in SUBSET S, Cardinality(s) <= Cardinality({}) PROVE g[s] = h[s]
    <3>1. s = {}
      BY <2>1, Smaller, FS_EmptySet
    <3>2. QED
      BY <1>2, <1>5, <3>1 DEF Body
  <2>2. QED
    BY <2>1
<1>7. ASSUME NEW U \in Q, NEW y \in S \ U
      PROVE  U \cup {y} \in Q
  <2>1. U \in SUBSET S /\ \A s \in SUBSET S : Cardinality(s) <= Cardinality(U) => g[s] = h[s]
    OBVIOUS
  <2>2. ASSUME NEW s \in SUBSET S, Cardinality(s) <= Cardinality(U \cup {y})
        PROVE  g[s] = h[s]
    <3>1. /\ Cardinality(U \cup {y}) = Cardinality(U) + 1 /\ Cardinality(U) \in Nat
          /\ Cardinality(s) \in Nat
      BY <2>1, Smaller
    <3>2. CASE s = {}
      BY <1>2, <1>5, <3>2 DEF Body
    <3>3. CASE s # {}
      <4> DEFINE r == s \ {Chosen(s)}
      <4>1. r \in SUBSET S /\ Cardinality(r) = Cardinality(s) - 1
        BY <3>3, ChosenIn, Smaller
      <4> HIDE DEF r
      <4>2. g[r] = h[r]
        BY <2>1, <2>2, <3>1, <4>1
      <4>3. g[s] = Body(g, s) /\ h[s] = Body(h, s)
        BY <1>2, <1>5
      <4>4. QED
        BY <3>3, <4>2, <4>3 DEF Body, r, Chosen
    <3>4. QED
      BY <3>2, <3>3
  <2>3. QED
    BY <2>1, <2>2
<1>8. S \in Q
  <2> HIDE DEF Q
  <2>1. Q \in SUBSET SUBSET S
    BY DEF Q
  <2>2. QED
    BY <1>6, <1>7, <2>1, SetInduction
<1>9. g[S] = h[S]
  <2>1. \A s \in SUBSET S : Cardinality(s) <= Cardinality(S) => g[s] = h[s]
    BY <1>8
  <2>2. QED
    BY <2>1, Smaller
<1>10. Sums(v, zero, S) = h[S]
  BY Zenon DEF Sums, FoldSet, MapThenFoldSet, Body, h
<1>11. \A c \in C : Column(v, c, S) = Total(w[c], S)
  BY ColumnIsTotal
<1>12. QED
  BY <1>9, <1>10, <1>11 DEF g

-------------------------------------------------------------------------------
(* Sums split into buckets *)

\* The part of T that falls into bucket b.
Part(k, T, b) == {x \in T : k[x] = b}

LEMMA ImageFinite ==
  ASSUME NEW S, IsFiniteSet(S), NEW k
  PROVE  IsFiniteSet({k[x] : x \in S})
<1> DEFINE Image(T) == {k[x] : x \in T}
           Q == {T \in SUBSET S : IsFiniteSet(Image(T))}
<1>1. {} \in Q
  <2>1. Image({}) = {}
    OBVIOUS
  <2>2. QED
    BY <2>1, FS_EmptySet
<1>2. ASSUME NEW T \in Q, NEW x \in S \ T
      PROVE  T \cup {x} \in Q
  <2>1. Image(T \cup {x}) = Image(T) \cup {k[x]} /\ IsFiniteSet(Image(T))
    OBVIOUS
  <2>2. T \cup {x} \in SUBSET S
    OBVIOUS
  <2> HIDE DEF Image
  <2>3. IsFiniteSet(Image(T) \cup {k[x]})
    BY <2>1, FS_AddElement
  <2>4. QED
    BY <2>1, <2>2, <2>3
<1>3. S \in Q
  <2> HIDE DEF Q
  <2>1. Q \in SUBSET SUBSET S
    BY DEF Q
  <2>2. QED
    BY <1>1, <1>2, <2>1, SetInduction
<1>4. QED
  BY <1>3

\* What the buckets of a set add up to is what the set adds up to.
LEMMA TotalSplits ==
  ASSUME NEW S, IsFiniteSet(S), NEW w \in [S -> Int],
         NEW B, IsFiniteSet(B), NEW k \in [S -> B]
  PROVE  Total([b \in B |-> Total(w, Part(k, S, b))], B) = Total(w, S)
<1> DEFINE By(T) == [b \in B |-> Total(w, Part(k, T, b))]
           Q == {T \in SUBSET S : Total(By(T), B) = Total(w, T)}
<1>1. ASSUME NEW T \in SUBSET S
      PROVE  By(T) \in [B -> Int]
  <2>1. \A b \in B : Part(k, T, b) \in SUBSET S
    BY DEF Part
  <2>2. QED
    BY <2>1, TotalRecursion
<1>2. {} \in Q
  <2>1. \A b \in B : Part(k, {}, b) = {}
    BY DEF Part
  <2>2. \A b \in B : By({})[b] = 0
    BY <2>1, TotalRecursion
  <2> HIDE DEF By
  <2>3. By({}) \in [B -> Int]
    BY <1>1
  <2>4. Total(By({}), B) = 0
    BY <2>2, <2>3, TotalZero
  <2>5. QED
    BY <2>4, TotalRecursion
<1>3. ASSUME NEW T \in Q, NEW x \in S \ T
      PROVE  T \cup {x} \in Q
  <2> DEFINE U == T \cup {x}
  <2>1. T \in SUBSET S /\ U \in SUBSET S /\ Total(By(T), B) = Total(w, T) /\ k[x] \in B
    OBVIOUS
  <2>2. \A b \in B \ {k[x]} : By(U)[b] = By(T)[b]
    <3>1. \A b \in B \ {k[x]} : Part(k, U, b) = Part(k, T, b)
      BY DEF Part
    <3>2. QED
      BY <3>1
  <2>3. By(U)[k[x]] = By(T)[k[x]] + w[x]
    <3> DEFINE P == Part(k, T, k[x])
    <3>1. P \in SUBSET S /\ x \in S \ P /\ Part(k, U, k[x]) = P \cup {x}
      BY DEF Part
    <3> HIDE DEF P, U
    <3>2. Total(w, P \cup {x}) = Total(w, P) + w[x]
      BY <3>1, TotalAdd
    <3>3. By(U)[k[x]] = Total(w, Part(k, U, k[x])) /\ By(T)[k[x]] = Total(w, Part(k, T, k[x]))
      BY <2>1
    <3>4. QED
      BY <3>1, <3>2, <3>3 DEF P
  <2> HIDE DEF By, U
  <2>4. By(T) \in [B -> Int] /\ By(U) \in [B -> Int]
    BY <1>1, <2>1
  <2>5. Total(By(U), B) = Total(By(T), B) - By(T)[k[x]] + By(U)[k[x]]
    BY <2>1, <2>2, <2>4, TotalChange
  <2>6. Total(w, U) = Total(w, T) + w[x]
    BY <2>1, TotalAdd DEF U
  <2>7. By(T)[k[x]] \in Int /\ w[x] \in Int /\ Total(w, T) \in Int
    BY <2>1, <2>4, TotalRecursion
  <2>8. Total(By(U), B) = Total(w, U)
    BY <2>1, <2>3, <2>5, <2>6, <2>7
  <2>9. QED
    BY <2>1, <2>8 DEF U
<1>4. S \in Q
  <2> HIDE DEF Q
  <2>1. Q \in SUBSET SUBSET S
    BY DEF Q
  <2>2. QED
    BY <1>2, <1>3, <2>1, SetInduction
<1>5. QED
  BY <1>4
=============================================================================
