------------------------ MODULE CoreAllocationProofs ------------------------
(***************************************************************************)
(* Proofs about CoreAllocation, for schedules of any length and any number *)
(* of cores and seconds, and the theorems about sums they rest on.         *)
(*                                                                         *)
(* The sums of FiniteSetsExt and Folds are recursive functions on subsets. *)
(* Each recursion is shown to define what it should by an argument about a *)
(* smallest counterexample: among sets of natural numbers, or of finite    *)
(* sets, that are not empty there is a least one.                          *)
(***************************************************************************)
EXTENDS CoreAllocation, FiniteSetTheorems, SequenceTheorems, TLAPS

LEMMA LeastNatural ==
    ASSUME NEW T, T \subseteq Nat, T # {}
    PROVE  \E n \in T : \A k \in T : n <= k
<1>1. IsWellFoundedOn(OpToRel(<, Nat), Nat)
  BY NatLessThanWellFounded
<1>2. PICK n \in T : \A k \in T : <<k, n>> \notin OpToRel(<, Nat)
  BY <1>1, WFMin, Zenon
<1>3. \A k \in T : ~ (k < n)
  BY <1>2 DEF OpToRel
<1> QED
  BY <1>3

LEMMA SmallestSubset ==
    ASSUME NEW U, IsFiniteSet(U), NEW T, T \subseteq SUBSET U, T # {}
    PROVE  \E S \in T : \A R \in T : R \subseteq S => R = S
<1>1. FiniteSubsetsOf(U) = SUBSET U
  BY FS_FiniteSubsetsOfFinite
<1>2. IsWellFoundedOn(StrictSubsetOrdering(U), SUBSET U)
  BY <1>1, FS_StrictSubsetOrderingWellFounded
<1>3. PICK S \in T : \A R \in T : <<R, S>> \notin StrictSubsetOrdering(U)
  BY <1>2, WFMin, Zenon
<1> QED
  BY <1>3 DEF StrictSubsetOrdering

----------------------------------------------------------------------------
(* The function that MapThenSumSet and FoldFunction recur with *)

Some(S) == CHOOSE x \in S : TRUE

IsSum(f, w, U) ==
    f = [S \in SUBSET U |-> IF S = {} THEN 0 ELSE w[Some(S)] + f[S \ {Some(S)}]]

SumsOf(w, U) == CHOOSE f : IsSum(f, w, U)
SumOf(w, S)  == SumsOf(w, S)[S]

LEMMA SomeIsIn == ASSUME NEW S, S # {} PROVE Some(S) \in S
BY DEF Some

LEMMA SumRecursion ==
    ASSUME NEW f, NEW w, NEW U, IsSum(f, w, U), NEW S \in SUBSET U
    PROVE  /\ S = {} => f[S] = 0
           /\ S # {} => f[S] = w[Some(S)] + f[S \ {Some(S)}]
<1>1. f[S] = IF S = {} THEN 0 ELSE w[Some(S)] + f[S \ {Some(S)}]
  BY Zenon DEF IsSum
<1> QED
  BY <1>1

LEMMA SumsAgree ==
    ASSUME NEW w, NEW U, IsFiniteSet(U), NEW V, NEW f, IsSum(f, w, U), NEW g, IsSum(g, w, V),
           NEW S, S \subseteq U, S \subseteq V
    PROVE  f[S] = g[S]
<1> DEFINE Bad == {R \in SUBSET U : R \subseteq V /\ f[R] # g[R]}
<1> SUFFICES ASSUME Bad # {} PROVE FALSE
  OBVIOUS
<1>1. PICK R \in Bad : \A Q \in Bad : Q \subseteq R => Q = R
  <2>1. Bad \subseteq SUBSET U /\ Bad # {}
    OBVIOUS
  <2> HIDE DEF Bad
  <2> QED
    BY <2>1, SmallestSubset
<1>2. R # {}
  BY SumRecursion
<1>3. R \ {Some(R)} \notin Bad
  BY <1>1, <1>2, SomeIsIn
<1>4. f[R \ {Some(R)}] = g[R \ {Some(R)}]
  BY <1>3
<1>5. R \in SUBSET U /\ R \in SUBSET V
  OBVIOUS
<1>6. f[R] = w[Some(R)] + f[R \ {Some(R)}] /\ g[R] = w[Some(R)] + g[R \ {Some(R)}]
  BY <1>2, <1>5, SumRecursion
<1> QED
  BY <1>4, <1>6

(* A sum over a set is made of those over its proper subsets. *)
LEMMA SumExists ==
    ASSUME NEW w, NEW U, IsFiniteSet(U)
    PROVE  \E f : IsSum(f, w, U)
<1> DEFINE Bad == {S \in SUBSET U : ~ \E f : IsSum(f, w, S)}
<1> SUFFICES ASSUME Bad # {} PROVE FALSE
  OBVIOUS
<1>1. PICK S \in Bad : \A R \in Bad : R \subseteq S => R = S
  <2>1. Bad \subseteq SUBSET U /\ Bad # {}
    OBVIOUS
  <2> HIDE DEF Bad
  <2> QED
    BY <2>1, SmallestSubset
<1> DEFINE part == [R \in SUBSET S |-> CHOOSE f : IsSum(f, w, R)]
<1>2. \A R \in SUBSET S : R # S => IsSum(part[R], w, R)
  <2> SUFFICES ASSUME NEW R \in SUBSET S, R # S
               PROVE  IsSum(part[R], w, R)
    OBVIOUS
  <2>1. \E f : IsSum(f, w, R)
    BY <1>1
  <2> QED
    BY <2>1
<1> HIDE DEF part
<1>3. \A R \in SUBSET S : IsFiniteSet(R)
  BY FS_Subset
<1>6. PICK whole : whole = [R \in SUBSET S |->
                              IF R = {} THEN 0
                              ELSE w[Some(R)] + part[R \ {Some(R)}][R \ {Some(R)}]]
  OBVIOUS
<1>4. \A R \in SUBSET S : R # S => whole[R] = part[R][R]
  <2> SUFFICES ASSUME NEW R \in SUBSET S, R # S
               PROVE  whole[R] = part[R][R]
    OBVIOUS
  <2>1. IsSum(part[R], w, R)
    BY <1>2
  <2>2. CASE R = {}
    <3>1. part[R][R] = 0
      BY <2>1, <2>2, SumRecursion
    <3> QED
      BY <1>6, <2>2, <3>1
  <2>3. CASE R # {}
    <3> DEFINE Q == R \ {Some(R)}
    <3>1. Q \in SUBSET R /\ Q \in SUBSET S /\ Q # S
      BY <2>3, SomeIsIn
    <3>2. IsSum(part[Q], w, Q)
      BY <1>2, <3>1
    <3>3. part[R][Q] = part[Q][Q]
      BY <1>3, <2>1, <3>1, <3>2, SumsAgree
    <3>4. part[R][R] = w[Some(R)] + part[R][Q]
      BY <2>1, <2>3, SumRecursion
    <3>5. whole[R] = w[Some(R)] + part[Q][Q]
      BY <1>6, <2>3
    <3> QED
      BY <3>3, <3>4, <3>5
  <2> QED
    BY <2>2, <2>3
<1>5. IsSum(whole, w, S)
  <2>1. \A R \in SUBSET S : R # {} =>
           part[R \ {Some(R)}][R \ {Some(R)}] = whole[R \ {Some(R)}]
    <3> SUFFICES ASSUME NEW R \in SUBSET S, R # {}
                 PROVE  part[R \ {Some(R)}][R \ {Some(R)}] = whole[R \ {Some(R)}]
      OBVIOUS
    <3>1. R \ {Some(R)} \in SUBSET S /\ R \ {Some(R)} # S
      BY SomeIsIn
    <3> QED
      BY <1>4, <3>1
  <2>2. whole = [R \in SUBSET S |-> IF R = {} THEN 0
                                   ELSE w[Some(R)] + whole[R \ {Some(R)}]]
    BY <1>6, <2>1
  <2> QED
    BY <2>2 DEF IsSum
<1> QED
  BY <1>5

LEMMA SumsDefined ==
    ASSUME NEW w, NEW U, IsFiniteSet(U)
    PROVE  IsSum(SumsOf(w, U), w, U)
BY SumExists DEF SumsOf

LEMMA SumFromAny ==
    ASSUME NEW w, NEW U, IsFiniteSet(U), NEW f, IsSum(f, w, U), NEW S \in SUBSET U
    PROVE  f[S] = SumOf(w, S)
<1>1. IsFiniteSet(S)
  BY FS_Subset
<1>2. IsSum(SumsOf(w, S), w, S)
  BY <1>1, SumsDefined
<1> QED
  BY <1>2, SumsAgree DEF SumOf

----------------------------------------------------------------------------
(* What sums are *)

LEMMA SumOfNothing == ASSUME NEW w PROVE SumOf(w, {}) = 0
<1> DEFINE f == SumsOf(w, {})
<1>1. IsSum(f, w, {})
  BY SumsDefined, FS_EmptySet
<1> HIDE DEF f
<1>2. f[{}] = 0
  BY <1>1, SumRecursion
<1> QED
  BY <1>2 DEF f, SumOf

LEMMA SumStep ==
    ASSUME NEW w, NEW S, IsFiniteSet(S), S # {}
    PROVE  SumOf(w, S) = w[Some(S)] + SumOf(w, S \ {Some(S)})
<1> DEFINE f == SumsOf(w, S)
           Q == S \ {Some(S)}
<1>1. IsSum(f, w, S)
  BY SumsDefined
<1>2. Q \in SUBSET S /\ S \in SUBSET S
  OBVIOUS
<1> HIDE DEF f
<1>3. f[S] = w[Some(S)] + f[Q]
  BY <1>1, SumRecursion
<1>4. f[Q] = SumOf(w, Q)
  BY <1>1, <1>2, SumFromAny
<1> QED
  BY <1>3, <1>4 DEF f, SumOf

LEMMA SumIsInt ==
    ASSUME NEW w, NEW S, IsFiniteSet(S), \A x \in S : w[x] \in Int
    PROVE  SumOf(w, S) \in Int
<1> DEFINE Bad == {R \in SUBSET S : SumOf(w, R) \notin Int}
<1> SUFFICES ASSUME Bad # {} PROVE FALSE
  OBVIOUS
<1>1. PICK R \in Bad : \A Q \in Bad : Q \subseteq R => Q = R
  <2>1. Bad \subseteq SUBSET S /\ Bad # {}
    OBVIOUS
  <2> HIDE DEF Bad
  <2> QED
    BY <2>1, SmallestSubset
<1>2. R # {}
  BY SumOfNothing
<1>3. SumOf(w, R) = w[Some(R)] + SumOf(w, R \ {Some(R)})
  BY <1>2, SumStep, FS_Subset
<1>4. R \ {Some(R)} \notin Bad
  BY <1>1, <1>2, SomeIsIn
<1> QED
  BY <1>2, <1>3, <1>4, SomeIsIn

(* The order in which elements are taken does not matter. *)
LEMMA SumWithout ==
    ASSUME NEW w, NEW S, IsFiniteSet(S), \A x \in S : w[x] \in Int, NEW y \in S
    PROVE  SumOf(w, S) = SumOf(w, S \ {y}) + w[y]
<1> DEFINE Bad == {R \in SUBSET S : \E z \in R : SumOf(w, R) # SumOf(w, R \ {z}) + w[z]}
<1> SUFFICES ASSUME Bad # {} PROVE FALSE
  OBVIOUS
<1>1. PICK R \in Bad : \A Q \in Bad : Q \subseteq R => Q = R
  <2>1. Bad \subseteq SUBSET S /\ Bad # {}
    OBVIOUS
  <2> HIDE DEF Bad
  <2> QED
    BY <2>1, SmallestSubset
<1>2. PICK z \in R : SumOf(w, R) # SumOf(w, R \ {z}) + w[z]
  OBVIOUS
<1> DEFINE x == Some(R)
<1>3. x \in R
  BY SomeIsIn
<1> HIDE DEF x
<1>4. \A Q \in SUBSET S : SumOf(w, Q) \in Int
  BY SumIsInt, FS_Subset
<1>5. SumOf(w, R) = w[x] + SumOf(w, R \ {x})
  <2>1. IsFiniteSet(R) /\ R # {}
    BY FS_Subset
  <2> QED
    BY <2>1, SumStep DEF x
<1>6. x # z
  <2> SUFFICES ASSUME x = z PROVE FALSE
    OBVIOUS
  <2> DEFINE a == w[z]
             b == SumOf(w, R \ {z})
  <2>1. a \in Int /\ b \in Int
    BY <1>4
  <2>2. SumOf(w, R) = a + b /\ SumOf(w, R) # b + a
    BY <1>2, <1>5
  <2> HIDE DEF a, b
  <2> QED
    BY <2>1, <2>2
<1>7. SumOf(w, R \ {x}) = SumOf(w, (R \ {x}) \ {z}) + w[z]
  <2>1. R \ {x} \notin Bad
    BY <1>1, <1>3
  <2> QED
    BY <1>6, <2>1
<1>8. SumOf(w, R \ {z}) = SumOf(w, (R \ {z}) \ {x}) + w[x]
  <2>1. R \ {z} \notin Bad
    BY <1>1
  <2> QED
    BY <1>3, <1>6, <2>1
<1>9. (R \ {x}) \ {z} = (R \ {z}) \ {x}
  OBVIOUS
<1> DEFINE a == w[x]
           b == w[z]
           rest == SumOf(w, (R \ {z}) \ {x})
<1>10. a \in Int /\ b \in Int /\ rest \in Int
  BY <1>3, <1>4
<1>11. /\ SumOf(w, R) = a + SumOf(w, R \ {x}) /\ SumOf(w, R) # SumOf(w, R \ {z}) + b
       /\ SumOf(w, R \ {x}) = rest + b /\ SumOf(w, R \ {z}) = rest + a
  BY <1>2, <1>5, <1>7, <1>8, <1>9
<1> HIDE DEF a, b, rest
<1> QED
  BY <1>10, <1>11

LEMMA SumWith ==
    ASSUME NEW w, NEW S, IsFiniteSet(S), NEW y, y \notin S, \A x \in S \cup {y} : w[x] \in Int
    PROVE  SumOf(w, S \cup {y}) = SumOf(w, S) + w[y]
<1>1. IsFiniteSet(S \cup {y})
  BY FS_AddElement
<1>2. (S \cup {y}) \ {y} = S
  OBVIOUS
<1> QED
  BY <1>1, <1>2, SumWithout

LEMMA SumAtMost ==
    ASSUME NEW w, NEW v, NEW S, IsFiniteSet(S),
           \A x \in S : w[x] \in Int /\ v[x] \in Int /\ w[x] <= v[x]
    PROVE  SumOf(w, S) <= SumOf(v, S)
<1> DEFINE Bad == {R \in SUBSET S : ~ (SumOf(w, R) <= SumOf(v, R))}
<1> SUFFICES ASSUME Bad # {} PROVE FALSE
  OBVIOUS
<1>1. PICK R \in Bad : \A Q \in Bad : Q \subseteq R => Q = R
  <2>1. Bad \subseteq SUBSET S /\ Bad # {}
    OBVIOUS
  <2> HIDE DEF Bad
  <2> QED
    BY <2>1, SmallestSubset
<1>2. R # {}
  BY SumOfNothing
<1> DEFINE x == Some(R)
           Q == R \ {x}
<1>3. x \in R
  BY <1>2, SomeIsIn
<1> HIDE DEF x
<1>4. SumOf(w, R) = SumOf(w, Q) + w[x] /\ SumOf(v, R) = SumOf(v, Q) + v[x]
  BY <1>3, SumWithout, FS_Subset
<1>5. SumOf(w, Q) <= SumOf(v, Q)
  BY <1>1, <1>3
<1>6. SumOf(w, Q) \in Int /\ SumOf(v, Q) \in Int
  BY SumIsInt, FS_Subset
<1> QED
  BY <1>3, <1>4, <1>5, <1>6

LEMMA SumOfPart ==
    ASSUME NEW w, NEW S, IsFiniteSet(S), \A x \in S : w[x] \in Nat, NEW P, P \subseteq S
    PROVE  SumOf(w, P) <= SumOf(w, S)
<1> DEFINE Bad == {R \in SUBSET S : P \subseteq R /\ ~ (SumOf(w, P) <= SumOf(w, R))}
<1> SUFFICES ASSUME Bad # {} PROVE FALSE
  OBVIOUS
<1>1. PICK R \in Bad : \A Q \in Bad : Q \subseteq R => Q = R
  <2>1. Bad \subseteq SUBSET S
    OBVIOUS
  <2> HIDE DEF Bad
  <2> QED
    BY <2>1, SmallestSubset
<1>2. \A Q \in SUBSET S : SumOf(w, Q) \in Int
  <2> SUFFICES ASSUME NEW Q \in SUBSET S PROVE SumOf(w, Q) \in Int
    OBVIOUS
  <2>1. IsFiniteSet(Q) /\ \A x \in Q : w[x] \in Int
    BY FS_Subset
  <2> QED
    BY <2>1, SumIsInt
<1>3. PICK x \in R : x \notin P
  BY <1>2
<1>4. SumOf(w, R) = SumOf(w, R \ {x}) + w[x]
  <2>1. IsFiniteSet(R) /\ \A y \in R : w[y] \in Int
    BY FS_Subset
  <2> QED
    BY <2>1, SumWithout
<1>5. SumOf(w, P) <= SumOf(w, R \ {x})
  <2>1. P \subseteq R \ {x} /\ R \ {x} \in SUBSET S /\ R \ {x} # R /\ R \ {x} \subseteq R
    BY <1>3
  <2> QED
    BY <1>1, <2>1
<1>6. SumOf(w, R \ {x}) \in Int /\ SumOf(w, P) \in Int /\ SumOf(w, R) \in Int /\ w[x] \in Nat
  BY <1>2
<1> DEFINE a == SumOf(w, P)
           b == SumOf(w, R \ {x})
           c == SumOf(w, R)
           d == w[x]
<1>7. a \in Int /\ b \in Int /\ c \in Int /\ d \in Nat /\ c = b + d /\ a <= b /\ ~(a <= c)
  BY <1>4, <1>5, <1>6
<1> HIDE DEF a, b, c, d
<1> QED
  BY <1>7

LEMMA SumSame ==
    ASSUME NEW w, NEW v, NEW S, IsFiniteSet(S), \A x \in S : w[x] \in Int /\ w[x] = v[x]
    PROVE  SumOf(w, S) = SumOf(v, S)
<1>1. SumOf(w, S) <= SumOf(v, S) /\ SumOf(v, S) <= SumOf(w, S)
  BY SumAtMost
<1>2. SumOf(w, S) \in Int /\ SumOf(v, S) \in Int
  BY SumIsInt
<1> QED
  BY <1>1, <1>2

(* Things that are sorted into places, not more of them into a place than  *)
(* it has room for                                                         *)
LEMMA CountByPlaces ==
    ASSUME NEW B, IsFiniteSet(B), NEW S, IsFiniteSet(S), NEW room, NEW place,
           \A b \in B : place[b] \in S,
           \A s \in S : room[s] \in Nat /\ Cardinality({b \in B : place[b] = s}) <= room[s]
    PROVE  Cardinality(B) <= SumOf(room, S)
<1> DEFINE At(R) == {b \in B : place[b] \in R}
           Bad   == {R \in SUBSET S : ~ (Cardinality(At(R)) <= SumOf(room, R))}
<1>1. ASSUME Bad # {} PROVE FALSE
  <2>1. PICK R \in Bad : \A Q \in Bad : Q \subseteq R => Q = R
    <3>1. Bad \subseteq SUBSET S /\ Bad # {}
      BY <1>1
    <3> HIDE DEF Bad
    <3> QED
      BY <3>1, SmallestSubset
  <2>2. R # {}
    <3>1. At({}) = {}
      OBVIOUS
    <3> QED
      BY <3>1, SumOfNothing, FS_EmptySet
  <2> DEFINE x == Some(R)
             Q == R \ {x}
             X == {b \in B : place[b] = x}
  <2>3. x \in R
    BY <2>2, SomeIsIn
  <2> HIDE DEF x
  <2>4. SumOf(room, R) = SumOf(room, Q) + room[x] /\ SumOf(room, Q) \in Int
    <3>1. IsFiniteSet(R) /\ IsFiniteSet(Q) /\ x \in R
      BY <2>3, FS_Subset
    <3>2. (\A y \in R : room[y] \in Int) /\ (\A y \in Q : room[y] \in Int)
      <4>1. \A y \in S : room[y] \in Nat
        OBVIOUS
      <4>2. R \subseteq S /\ Q \subseteq S
        OBVIOUS
      <4> QED
        BY <4>1, <4>2
    <3> HIDE DEF Q
    <3>3. SumOf(room, Q) \in Int
      BY <3>1, <3>2, SumIsInt
    <3>4. SumOf(room, R) = SumOf(room, R \ {x}) + room[x]
      BY <3>1, <3>2, SumWithout, Zenon
    <3> QED
      BY <3>3, <3>4 DEF Q
  <2>5. Cardinality(At(Q)) <= SumOf(room, Q)
    BY <2>1, <2>3
  <2>6. Cardinality(X) <= room[x] /\ room[x] \in Nat
    BY <2>3
  <2>7. At(R) = At(Q) \cup X /\ At(Q) \cap X = {}
    BY <2>3
  <2>8. IsFiniteSet(At(Q)) /\ IsFiniteSet(X)
    BY FS_Subset
  <2>9. /\ Cardinality(At(R)) = Cardinality(At(Q)) + Cardinality(X) - Cardinality(At(Q) \cap X)
        /\ Cardinality(At(Q)) \in Nat /\ Cardinality(X) \in Nat
    BY <2>7, <2>8, FS_Union, FS_CardinalityType
  <2>10. Cardinality(At(Q) \cap X) = 0
    BY <2>7, FS_EmptySet
  <2> QED
    BY <2>4, <2>5, <2>6, <2>9, <2>10
<1>2. At(S) = B
  OBVIOUS
<1> QED
  BY <1>1, <1>2

----------------------------------------------------------------------------
(* Counting up and down *)

LEMMA CountUp ==
    ASSUME NEW n \in Nat, NEW T, 0 \in T, \A i \in 1..n : i - 1 \in T => i \in T
    PROVE  \A i \in 0..n : i \in T
<1> DEFINE Bad == {i \in 0..n : i \notin T}
<1> SUFFICES ASSUME Bad # {} PROVE FALSE
  OBVIOUS
<1>1. PICK m \in Bad : \A k \in Bad : m <= k
  <2>1. Bad \subseteq Nat
    OBVIOUS
  <2> HIDE DEF Bad
  <2> QED
    BY <2>1, LeastNatural
<1>2. m \in 1..n /\ m - 1 \in 0..n /\ ~(m <= m - 1)
  BY <1>1
<1>3. m - 1 \in T
  BY <1>1, <1>2
<1> QED
  BY <1>1, <1>2, <1>3

LEMMA CountingRecursion ==
    ASSUME NEW n \in Nat, NEW base \in Int, NEW step \in [1..n -> [Int -> Int]]
    PROVE  \E f \in [0..n -> Int] : f[0] = base /\ \A i \in 1..n : f[i] = step[i][f[i - 1]]
<1> DEFINE Fits(f, k) == /\ f \in [0..k -> Int] /\ f[0] = base
                         /\ \A i \in 1..k : f[i] = step[i][f[i - 1]]
           T == {k \in 0..n : \E f : Fits(f, k)}
<1>1. 0 \in T
  <2>1. Fits([i \in 0..0 |-> base], 0)
    OBVIOUS
  <2> HIDE DEF Fits
  <2> QED
    BY <2>1
<1>2. ASSUME NEW k \in 1..n, k - 1 \in T
      PROVE  k \in T
  <2>1. PICK f : Fits(f, k - 1)
    BY <1>2
  <2> DEFINE g == [i \in 0..k |-> IF i = k THEN step[k][f[k - 1]] ELSE f[i]]
  <2>2. f[k - 1] \in Int /\ step[k][f[k - 1]] \in Int
    BY <2>1
  <2>3. \A i \in 0..k : i # k => i \in 0..(k - 1)
    OBVIOUS
  <2>4. g \in [0..k -> Int] /\ g[0] = base
    <3>1. f \in [0..(k - 1) -> Int] /\ f[0] = base /\ 0 \in 0..k /\ k # 0
      BY <2>1
    <3>2. \A i \in 0..k : g[i] \in Int
      BY <2>2, <2>3, <3>1
    <3>3. g[0] = base
      BY <3>1
    <3> QED
      BY <3>2, <3>3
  <2>5. ASSUME NEW i \in 1..k
        PROVE  g[i] = step[i][g[i - 1]]
    <3>1. i - 1 \in 0..k /\ i - 1 # k /\ i \in 0..k
      OBVIOUS
    <3>2. g[i - 1] = f[i - 1]
      BY <3>1
    <3>3. CASE i = k
      BY <3>1, <3>2, <3>3
    <3>4. CASE i # k
      <4>1. i \in 1..(k - 1) /\ g[i] = f[i]
        BY <3>1, <3>4
      <4> QED
        BY <2>1, <3>2, <4>1
    <3> QED
      BY <3>3, <3>4
  <2> HIDE DEF g
  <2>6. Fits(g, k)
    BY <2>4, <2>5
  <2> HIDE DEF Fits
  <2> QED
    BY <2>6
<1>3. n \in T
  <2> HIDE DEF T
  <2>1. \A i \in 0..n : i \in T
    BY <1>1, <1>2, CountUp
  <2> QED
    BY <2>1
<1> QED
  BY <1>3

LEMMA CountingDown ==
    ASSUME NEW n \in Nat, NEW base \in Int, NEW step \in [1..n -> [Int -> Int]]
    PROVE  \E f \in [1..(n + 1) -> Int] : f[n + 1] = base /\ \A i \in 1..n : f[i] = step[i][f[i + 1]]
<1> DEFINE back == [i \in 1..n |-> step[n + 1 - i]]
<1>1. back \in [1..n -> [Int -> Int]] /\ \A i \in 1..n : back[n + 1 - i] = step[i]
  OBVIOUS
<1> HIDE DEF back
<1>2. PICK g \in [0..n -> Int] : g[0] = base /\ \A i \in 1..n : g[i] = back[i][g[i - 1]]
  <2>1. back \in [1..n -> [Int -> Int]]
    BY <1>1
  <2> QED
    BY <2>1, CountingRecursion, Zenon
<1> DEFINE f == [i \in 1..(n + 1) |-> g[n + 1 - i]]
<1>3. f \in [1..(n + 1) -> Int] /\ f[n + 1] = base
  BY <1>2
<1>4. ASSUME NEW i \in 1..n
      PROVE  f[i] = step[i][f[i + 1]]
  <2>1. n + 1 - i \in 1..n /\ n + 1 - i - 1 = n + 1 - (i + 1) /\ i \in 1..(n + 1) /\ i + 1 \in 1..(n + 1)
    OBVIOUS
  <2>2. g[n + 1 - i] = step[i][g[n + 1 - (i + 1)]]
    BY <1>1, <1>2, <2>1
  <2> QED
    BY <2>1, <2>2
<1> HIDE DEF f
<1> QED
  BY <1>3, <1>4

(* A sum over an interval grows by its last number. *)
LEMMA SumUpTo ==
    ASSUME NEW w, NEW i \in Nat, i > 0, \A k \in 1..i : w[k] \in Int
    PROVE  SumOf(w, 1..i) = SumOf(w, 1..(i - 1)) + w[i] /\ SumOf(w, 1..(i - 1)) \in Int
<1>1. /\ 1..i = (1..(i - 1)) \cup {i} /\ i \notin 1..(i - 1)
      /\ \A x \in (1..(i - 1)) \cup {i} : w[x] \in Int
      /\ \A x \in 1..(i - 1) : w[x] \in Int
  OBVIOUS
<1>2. IsFiniteSet(1..(i - 1))
  BY FS_Interval
<1>3. SumOf(w, (1..(i - 1)) \cup {i}) = SumOf(w, 1..(i - 1)) + w[i]
  BY <1>1, <1>2, SumWith, Zenon
<1>4. SumOf(w, 1..(i - 1)) \in Int
  BY <1>1, <1>2, SumIsInt, Zenon
<1> QED
  BY <1>1, <1>3, <1>4

LEMMA TotalIsSum ==
    ASSUME NEW f
    PROVE  Total(f) = SumOf(f, DOMAIN f)
BY Zenon DEF Total, FoldSeq, FoldFunction, FoldFunctionOnSet, MapThenFoldSet, SumOf, SumsOf, IsSum, Some

----------------------------------------------------------------------------
(* The shares of cores *)

LEMMA TotalOf ==
    ASSUME NEW n \in Nat, NEW f, DOMAIN f = 1..n, \A i \in 1..n : f[i] \in Int
    PROVE  Total(f) = SumOf(f, 1..n) /\ Total(f) \in Int
<1>1. IsFiniteSet(1..n)
  BY FS_Interval
<1>2. SumOf(f, 1..n) \in Int
  BY <1>1, SumIsInt
<1> QED
  BY <1>2, TotalIsSum

LEMMA SumAtLeast ==
    ASSUME NEW n \in Nat, NEW f, \A i \in 1..n : f[i] \in Nat /\ f[i] >= 1
    PROVE  SumOf(f, 1..n) >= n /\ SumOf(f, 1..n) \in Int
<1> DEFINE T == {i \in 0..n : SumOf(f, 1..i) \in Int /\ SumOf(f, 1..i) >= i}
<1>1. 0 \in T
  <2>1. 1..0 = {}
    OBVIOUS
  <2> QED
    BY <2>1, SumOfNothing
<1>2. ASSUME NEW i \in 1..n, i - 1 \in T
      PROVE  i \in T
  <2>1. SumOf(f, 1..i) = SumOf(f, 1..(i - 1)) + f[i]
    BY SumUpTo
  <2>2. SumOf(f, 1..(i - 1)) \in Int /\ SumOf(f, 1..(i - 1)) >= i - 1 /\ f[i] \in Nat /\ f[i] >= 1
    BY <1>2
  <2> QED
    BY <2>1, <2>2
<1>3. n \in T
  <2> HIDE DEF T
  <2>1. \A i \in 0..n : i \in T
    BY <1>1, <1>2, CountUp
  <2> QED
    BY <2>1
<1> QED
  BY <1>3

(* The correction of the rounded shares, from the last one down *)
IsCorrection(f, given, error, n) ==
    /\ f \in [1..(n + 1) -> Int] /\ f[n + 1] = error
    /\ \A i \in 1..n : f[i] = f[i + 1] - Take(given[i], f[i + 1])

LEMMA CorrectionRunsOnce ==
    ASSUME NEW n \in Nat, NEW given \in [1..n -> Int], NEW error \in Int
    PROVE  IsCorrection(ErrorAfter(given, error), given, error, n)
<1> DEFINE step == [i \in 1..n |-> [e \in Int |-> e - Take(given[i], e)]]
           Goes(f) == f = [i \in 1..(n + 1) |-> IF i = n + 1 THEN error ELSE f[i + 1] - Take(given[i], f[i + 1])]
           rest == ErrorAfter(given, error)
<1>0. Len(given) = n
  <2>1. given \in Seq(Int)
    OBVIOUS
  <2> QED
    BY <2>1, LenProperties
<1>1. \A i \in 1..n : \A e \in Int : e - Take(given[i], e) \in Int
  BY DEF Take, Least
<1>2. step \in [1..n -> [Int -> Int]]
  BY <1>1
<1>3. \A i \in 1..n : \A e \in Int : step[i][e] = e - Take(given[i], e)
  OBVIOUS
<1> HIDE DEF step, Goes, rest
<1>4. PICK f \in [1..(n + 1) -> Int] : f[n + 1] = error /\ \A i \in 1..n : f[i] = step[i][f[i + 1]]
  <2>1. \A base \in Int, turn \in [1..n -> [Int -> Int]] :
          \E f \in [1..(n + 1) -> Int] : f[n + 1] = base /\ \A i \in 1..n : f[i] = turn[i][f[i + 1]]
    BY CountingDown, Zenon
  <2> QED
    BY <1>2, <2>1, Zenon
<1> USE DEF Goes, rest
<1>5. Goes(f)
  <2>1. ASSUME NEW i \in 1..(n + 1)
        PROVE  f[i] = IF i = n + 1 THEN error ELSE f[i + 1] - Take(given[i], f[i + 1])
    <3>1. CASE i = n + 1
      BY <1>4, <3>1
    <3>2. CASE i # n + 1
      <4>1. i \in 1..n /\ i + 1 \in 1..(n + 1)
        BY <3>2
      <4> QED
        BY <1>3, <1>4, <3>2, <4>1
    <3> QED
      BY <3>1, <3>2
  <2> QED
    BY <2>1
<1>6. rest = CHOOSE g : Goes(g)
  BY <1>0, Zenon DEF ErrorAfter
<1>7. Goes(rest)
  <2> HIDE DEF Goes, rest
  <2> QED
    BY <1>5, <1>6
<1> HIDE DEF rest
<1>8. /\ DOMAIN rest = 1..(n + 1)
      /\ \A i \in 1..(n + 1) : rest[i] = IF i = n + 1 THEN error ELSE rest[i + 1] - Take(given[i], rest[i + 1])
  BY <1>7
<1>9. rest[n + 1] = error
  BY <1>8
<1>10. \A i \in 1..n : rest[i] = rest[i + 1] - Take(given[i], rest[i + 1])
  BY <1>8
<1>11. \A i \in 1..(n + 1) : rest[i] \in Int
  <2> DEFINE T == {k \in 0..n : rest[n + 1 - k] \in Int}
  <2>1. 0 \in T
    BY <1>9
  <2>2. ASSUME NEW k \in 1..n, k - 1 \in T
        PROVE  k \in T
    <3>1. n + 1 - k \in 1..n /\ n + 1 - k + 1 = n + 1 - (k - 1)
      OBVIOUS
    <3>2. rest[n + 1 - k + 1] \in Int
      BY <2>2, <3>1
    <3>3. rest[n + 1 - k] \in Int
      BY <1>1, <1>10, <3>1, <3>2
    <3> QED
      BY <3>3
  <2>3. \A k \in 0..n : k \in T
    <3> HIDE DEF T
    <3> QED
      BY <2>1, <2>2, CountUp
  <2>4. \A i \in 1..(n + 1) : n + 1 - i \in 0..n /\ n + 1 - (n + 1 - i) = i
    OBVIOUS
  <2> QED
    BY <2>3, <2>4
<1>12. rest \in [1..(n + 1) -> Int]
  <2>1. rest = [i \in 1..(n + 1) |-> rest[i]]
    BY <1>7
  <2> QED
    BY <1>11, <2>1
<1> QED
  BY <1>9, <1>10, <1>12 DEF rest, IsCorrection

LEMMA CorrectionRuns ==
    \A n \in Nat : \A given \in [1..n -> Int] : \A error \in Int :
        IsCorrection(ErrorAfter(given, error), given, error, n)
<1> TAKE n \in Nat
<1> TAKE given \in [1..n -> Int]
<1> TAKE error \in Int
<1> QED
  BY CorrectionRunsOnce

LEMMA Percent == \A x \in 1..100 : x \in Int /\ x \in Nat /\ x >= 1
OBVIOUS

LEMMA SharesGiven ==
    ASSUME NEW fractions \in Seq(1..100), NEW cores \in Nat \ {0}, NEW noisy
    PROVE  LET short == Shortened(fractions, cores)
               given == [i \in DOMAIN short |->
                           RoundedShare(short[i], Whole(fractions, cores), cores, i \in noisy)]
               n     == Least(Len(fractions), cores)
           IN  /\ n \in Nat /\ n <= cores /\ (fractions # <<>> => n >= 1)
               /\ DOMAIN short = 1..n
               /\ \A i \in 1..n : given[i] \in Nat /\ given[i] >= 1
<1> DEFINE short == Shortened(fractions, cores)
           whole == Whole(fractions, cores)
           n     == Least(Len(fractions), cores)
<1>1. /\ n \in Nat /\ n <= Len(fractions) /\ n <= cores /\ Len(fractions) \in Nat
      /\ (fractions # <<>> => n >= 1)
  <2>1. Len(fractions) \in Nat /\ (fractions # <<>> => Len(fractions) # 0)
    OBVIOUS
  <2> QED
    BY <2>1 DEF Least
<1>2. /\ DOMAIN short = 1..n
      /\ \A i \in 1..n : short[i] \in 1..100
  <2>2. short = SubSeq(fractions, 1, n)
    BY DEF Shortened
  <2> HIDE DEF n, short
  <2>1. ASSUME NEW i \in 1..n
        PROVE  fractions[i] \in 1..100
    <3>1. i \in 1..Len(fractions)
      BY <1>1
    <3> QED
      BY <3>1, ElementOfSeq
  <2>3. SubSeq(fractions, 1, n) \in Seq(1..100) /\ Len(SubSeq(fractions, 1, n)) = n
    <3>1. /\ Len(SubSeq(fractions, 1, n)) = IF 1 <= n THEN n - 1 + 1 ELSE 0
          /\ SubSeq(fractions, 1, n) \in Seq(1..100)
      BY <1>1, <2>1, SubSeqProperties
    <3> QED
      BY <1>1, <3>1
  <2>4. \A i \in 1..n : SubSeq(fractions, 1, n)[i] \in 1..100
    BY <1>1, <2>3, ElementOfSeq
  <2> QED
    BY <2>2, <2>3, <2>4, LenProperties
<1> HIDE DEF n, short
<1>3. whole \in Nat \ {0}
  <2>1. CASE Len(fractions) > cores
    <3>1. whole = Total(short) /\ fractions # <<>>
      BY <2>1 DEF Whole, short
    <3>4. \A i \in 1..n : short[i] \in Int /\ short[i] \in Nat /\ short[i] >= 1
      BY <1>2, Percent, Zenon
    <3>5. n \in Nat /\ DOMAIN short = 1..n
      BY <1>1, <1>2
    <3>2. Total(short) = SumOf(short, 1..n)
      BY <3>4, <3>5, TotalOf
    <3>3. SumOf(short, 1..n) >= n /\ SumOf(short, 1..n) \in Int
      BY <3>4, <3>5, SumAtLeast
    <3> QED
      BY <1>1, <3>1, <3>2, <3>3
  <2>2. CASE ~(Len(fractions) > cores)
    BY <2>2 DEF Whole
  <2> QED
    BY <2>1, <2>2
<1> HIDE DEF whole
<1>4. ASSUME NEW i \in 1..n
      PROVE  LET share == RoundedShare(short[i], whole, cores, i \in noisy)
             IN  share \in Nat /\ share >= 1
  <2> DEFINE part == short[i]
  <2> HIDE DEF part
  <2>5. part \in 1..100
    BY <1>2 DEF part
  <2>3. part \in Int /\ cores \in Int /\ whole \in Int
    BY <1>3, <2>5
  <2>4. part * cores \in Int
    BY <2>3
  <2>1. short[i] * cores + whole - 1 \in Int
    BY <2>3, <2>4 DEF part
  <2>2. CeilDiv(short[i] * cores, whole) \in Int
    BY <1>3, <2>1 DEF CeilDiv
  <2> QED
    BY <2>2 DEF RoundedShare, Greatest
<1> QED
  BY <1>1, <1>2, <1>4 DEF n, short, whole

LEMMA SharesAllocated ==
    ASSUME NEW fractions \in Seq(1..100), NEW cores \in Nat \ {0}, NEW noisy, fractions # <<>>
    PROVE  LET cut == AllocatedCores(fractions, cores, noisy)
           IN  Total(cut) = cores /\ \A i \in DOMAIN cut : cut[i] \in Nat /\ cut[i] >= 1
<1> DEFINE short == Shortened(fractions, cores)
           given == [i \in DOMAIN short |->
                       RoundedShare(short[i], Whole(fractions, cores), cores, i \in noisy)]
           n     == Least(Len(fractions), cores)
           error == Total(given) - cores
           rest  == ErrorAfter(given, error)
           cut   == [i \in DOMAIN short |-> given[i] - Take(given[i], rest[i + 1])]
<1>1. /\ n \in Nat /\ 1 <= n /\ n <= cores
      /\ DOMAIN short = 1..n
      /\ \A i \in 1..n : given[i] \in Nat /\ given[i] >= 1
  BY SharesGiven
<1>2. AllocatedCores(fractions, cores, noisy) = cut
  BY DEF AllocatedCores
<1>3. DOMAIN given = 1..n /\ Len(given) = n
  BY <1>1
<1>4. DOMAIN cut = 1..n /\ \A i \in 1..n : cut[i] = given[i] - Take(given[i], rest[i + 1])
  BY <1>1
<1> HIDE DEF short, given, n, cut
<1>5. Total(given) = SumOf(given, 1..n) /\ Total(given) \in Int
  BY <1>1, <1>3, TotalOf
<1>6. error \in Int /\ error = SumOf(given, 1..n) - cores
  BY <1>5
<1> HIDE DEF error
<1>7. /\ rest \in [1..(n + 1) -> Int] /\ rest[n + 1] = error
      /\ \A i \in 1..n : rest[i] = rest[i + 1] - Take(given[i], rest[i + 1])
  <2>1. \A i \in 1..n : given[i] \in Int
    BY <1>1
  <2>2. n \in Nat /\ error \in Int /\ given \in [1..n -> Int]
    BY <1>1, <1>3, <1>6, <2>1 DEF given
  <2> HIDE DEF rest
  <2>3. IsCorrection(ErrorAfter(given, error), given, error, n)
    <3>1. \A g \in [1..n -> Int] : \A e \in Int : IsCorrection(ErrorAfter(g, e), g, e, n)
      BY <2>2, CorrectionRuns, Zenon
    <3> QED
      BY <2>2, <3>1, Zenon
  <2>4. rest = ErrorAfter(given, error)
    BY DEF rest
  <2> QED
    BY <2>3, <2>4 DEF IsCorrection
<1> HIDE DEF rest
<1>8. \A i \in 1..n : /\ rest[i] \in Int /\ rest[i + 1] \in Int
                      /\ cut[i] = given[i] + rest[i] - rest[i + 1]
                      /\ cut[i] \in Nat /\ cut[i] >= 1
                      /\ rest[i] = Greatest(0, rest[i + 1] - given[i] + 1)
  <2> SUFFICES ASSUME NEW i \in 1..n
               PROVE  /\ rest[i] \in Int /\ rest[i + 1] \in Int
                      /\ cut[i] = given[i] + rest[i] - rest[i + 1]
                      /\ cut[i] \in Nat /\ cut[i] >= 1
                      /\ rest[i] = Greatest(0, rest[i + 1] - given[i] + 1)
    OBVIOUS
  <2>1. i \in 1..(n + 1) /\ i + 1 \in 1..(n + 1)
    BY <1>1
  <2>2. rest[i] \in Int /\ rest[i + 1] \in Int
    BY <1>7, <2>1
  <2>3. given[i] \in Nat /\ given[i] >= 1
    BY <1>1
  <2>4. rest[i] = rest[i + 1] - Take(given[i], rest[i + 1])
    BY <1>7
  <2>5. cut[i] = given[i] - Take(given[i], rest[i + 1])
    BY <1>4
  <2> DEFINE x == given[i]
             r == rest[i]
             q == rest[i + 1]
             c == cut[i]
  <2>6. /\ r \in Int /\ q \in Int /\ x \in Nat /\ x >= 1
        /\ r = q - Take(x, q) /\ c = x - Take(x, q)
    BY <2>2, <2>3, <2>4, <2>5
  <2> HIDE DEF x, r, q, c
  <2>7. /\ c = x + r - q /\ c \in Nat /\ c >= 1
        /\ r = Greatest(0, q - x + 1)
    BY <2>6 DEF Take, Least, Greatest
  <2> QED
    BY <2>6, <2>7 DEF x, r, q, c
(* The sum of the first shares after the correction, and what a great      *)
(* error leaves of itself below them                                       *)
<1> DEFINE T == {i \in 0..n : /\ SumOf(given, 1..i) \in Int /\ SumOf(given, 1..i) >= i
                              /\ SumOf(cut, 1..i) = SumOf(given, 1..i) + rest[1] - rest[i + 1]
                              /\ i >= 1 => rest[1] <= Greatest(0, rest[i + 1] - SumOf(given, 1..i) + i)}
<1>9. 0 \in T
  <2>1. 1..0 = {}
    OBVIOUS
  <2>2. SumOf(given, 1..0) = 0 /\ SumOf(cut, 1..0) = 0
    BY <2>1, SumOfNothing
  <2>3. rest[1] \in Int
    BY <1>1, <1>8
  <2> QED
    BY <1>1, <2>2, <2>3
<1>10. ASSUME NEW i \in 1..n, i - 1 \in T
       PROVE  i \in T
  <2>1. /\ SumOf(given, 1..i) = SumOf(given, 1..(i - 1)) + given[i]
        /\ SumOf(cut, 1..i) = SumOf(cut, 1..(i - 1)) + cut[i]
    <3>1. i \in Nat /\ i > 0 /\ \A k \in 1..i : given[k] \in Int /\ cut[k] \in Int
      BY <1>1, <1>8
    <3> QED
      BY <3>1, SumUpTo
  <2> DEFINE g == SumOf(given, 1..(i - 1))
             h == SumOf(cut, 1..(i - 1))
             r == rest[i]
             q == rest[i + 1]
             x == given[i]
             f == rest[1]
  <2>2. g \in Int /\ g >= i - 1 /\ h = g + f - r /\ (i - 1 >= 1 => f <= Greatest(0, r - g + (i - 1)))
    BY <1>10
  <2>3. /\ r \in Int /\ q \in Int /\ f \in Int /\ x \in Nat /\ x >= 1
        /\ r = Greatest(0, q - x + 1) /\ cut[i] = x + r - q
        /\ i = 1 => r = f
    BY <1>1, <1>8
  <2>4. SumOf(given, 1..i) = g + x /\ SumOf(cut, 1..i) = h + cut[i]
    BY <2>1
  <2>7. i = 1 => g = 0
    <3>1. 1..(1 - 1) = {}
      OBVIOUS
    <3> QED
      BY <3>1, SumOfNothing
  <2> HIDE DEF g, h, r, q, x, f
  <2>5. f <= Greatest(0, q - (g + x) + i)
    <3>1. CASE i = 1
      BY <2>2, <2>3, <2>7, <3>1 DEF Greatest
    <3>2. CASE i # 1
      <4>1. i - 1 >= 1
        BY <3>2
      <4> QED
        BY <2>2, <2>3, <4>1 DEF Greatest
    <3> QED
      BY <3>1, <3>2
  <2>6. g + x \in Int /\ g + x >= i /\ h + cut[i] = g + x + f - q
    BY <2>2, <2>3
  <2> QED
    BY <2>4, <2>5, <2>6 DEF f, q
<1>11. n \in T
  <2> HIDE DEF T
  <2>1. \A i \in 0..n : i \in T
    BY <1>1, <1>9, <1>10, CountUp
  <2> QED
    BY <1>1, <2>1
<1>12. rest[1] = 0
  <2>1. rest[1] >= 0 /\ rest[1] \in Int
    BY <1>1, <1>8 DEF Greatest
  <2>2. rest[1] <= Greatest(0, error - SumOf(given, 1..n) + n)
    BY <1>1, <1>7, <1>11
  <2> QED
    BY <1>1, <1>5, <1>6, <2>1, <2>2 DEF Greatest
<1>13. Total(cut) = cores
  <2>1. Total(cut) = SumOf(cut, 1..n)
    BY <1>1, <1>4, <1>8, TotalOf
  <2>2. SumOf(cut, 1..n) = SumOf(given, 1..n) + rest[1] - error
    BY <1>7, <1>11
  <2> QED
    BY <1>5, <1>6, <1>12, <2>1, <2>2
<1> QED
  BY <1>2, <1>4, <1>8, <1>13

(* For all schedules with a strategy, numbers of cores and roundings: the  *)
(* cores given to the strategies are at least one each and add up to those *)
(* of the machine, so that every strategy can be started and the last      *)
(* correction of ScheduleTimesInitMultiCore leaves nothing over.           *)
THEOREM SharesFitAlways ==
    \A fractions \in Seq(1..100), cores \in Nat \ {0} : \A noisy :
        fractions # <<>> => SharesFit(fractions, cores, noisy)
BY SharesAllocated DEF SharesFit

(* So has every process of the preprocessing schedule a core, with one     *)
(* core per strategy if they run one after the other.                      *)
LEMMA CoresGiven ==
    ASSUME NEW fractions \in Seq(1..100), NEW cores \in Nat \ {0}, NEW noisy, NEW serialize \in BOOLEAN
    PROVE  LET given == PreprocessingCores(fractions, cores, noisy, serialize)
           IN  given \in Seq(Nat) /\ \A i \in 1..Len(given) : given[i] \in Nat /\ given[i] >= 1
<1> DEFINE short == Shortened(fractions, cores)
           given == PreprocessingCores(fractions, cores, noisy, serialize)
           n     == Least(Len(fractions), cores)
<1>1. n \in Nat /\ DOMAIN short = 1..n /\ (fractions # <<>> => n >= 1)
  BY SharesGiven
<1>2. n = 0 => fractions = <<>>
  BY <1>1
<1>3. DOMAIN given = 1..n /\ \A i \in 1..n : given[i] \in Nat /\ given[i] >= 1
  <2>1. CASE serialize
    BY <1>1, <2>1 DEF PreprocessingCores
  <2>2. CASE ~serialize /\ fractions # <<>>
    <3>1. given = AllocatedCores(fractions, cores, noisy)
      BY <2>2 DEF PreprocessingCores
    <3>2. DOMAIN given = 1..n
      BY <1>1, <3>1 DEF AllocatedCores
    <3> QED
      BY <2>2, <3>1, <3>2, SharesAllocated
  <2>3. CASE ~serialize /\ fractions = <<>>
    <3>1. given = AllocatedCores(fractions, cores, noisy)
      BY <2>3 DEF PreprocessingCores
    <3>2. DOMAIN given = 1..n
      BY <1>1, <3>1 DEF AllocatedCores
    <3>3. n = 0
      BY <2>3 DEF Least
    <3> QED
      BY <3>2, <3>3
  <2> QED
    BY <2>1, <2>2, <2>3
<1>4. given = [i \in DOMAIN given |-> given[i]]
  BY DEF PreprocessingCores, AllocatedCores
<1> HIDE DEF given, n, short
<1>5. given \in Seq(Nat)
  <2>1. given \in [1..n -> Nat]
    BY <1>1, <1>3, <1>4
  <2> QED
    BY <1>1, <2>1
<1>6. Len(given) = n
  <2>1. Len(given) \in Nat /\ DOMAIN given = 1..Len(given)
    BY <1>5, LenProperties
  <2> QED
    BY <1>1, <1>3, <2>1
<1> QED
  BY <1>3, <1>5, <1>6 DEF given

----------------------------------------------------------------------------
(* The times of a search schedule *)

Wanted(fractions, limit, i) == CeilDiv(fractions[i] * limit, 100)

(* What is spent after i strategies *)
IsSpent(f, fractions, limit) ==
    f = [i \in 0..Len(fractions) |->
           IF i = 0 THEN 0
           ELSE IF f[i - 1] >= limit THEN f[i - 1]
           ELSE f[i - 1] + CutTime(Wanted(fractions, limit, i), limit - f[i - 1])]

LEMMA WantedIsNat ==
    ASSUME NEW fraction \in Nat, NEW limit \in Nat
    PROVE  LET wanted == CeilDiv(fraction * limit, 100)
           IN  wanted \in Nat /\ (fraction > 0 /\ limit > 0 => wanted >= 1)
<1> DEFINE all == fraction * limit
<1>1. all \in Nat
  OBVIOUS
<1>2. fraction > 0 /\ limit > 0 => all >= 1
  OBVIOUS
<1> HIDE DEF all
<1>3. (all + 100 - 1) \div 100 \in Nat /\ (all >= 1 => (all + 100 - 1) \div 100 >= 1)
  BY <1>1
<1> QED
  BY <1>2, <1>3 DEF CeilDiv, all

LEMMA SpendingRuns ==
    ASSUME NEW fractions \in Seq(Nat), NEW limit \in Nat
    PROVE  \E f : IsSpent(f, fractions, limit)
<1> DEFINE n == Len(fractions)
           step == [i \in 1..n |-> [t \in Int |->
                      IF t >= limit THEN t ELSE t + CutTime(Wanted(fractions, limit, i), limit - t)]]
<1>1. n \in Nat
  OBVIOUS
<1>2. \A i \in 1..n : Wanted(fractions, limit, i) \in Nat
  <2> SUFFICES ASSUME NEW i \in 1..n PROVE Wanted(fractions, limit, i) \in Nat
    OBVIOUS
  <2>1. fractions[i] \in Nat
    BY ElementOfSeq
  <2> QED
    BY <2>1, WantedIsNat DEF Wanted
<1> HIDE DEF n
<1>3. step \in [1..n -> [Int -> Int]]
  BY <1>2 DEF CutTime, Least
<1>4. \A i \in 1..n : \A t \in Int :
        step[i][t] = IF t >= limit THEN t ELSE t + CutTime(Wanted(fractions, limit, i), limit - t)
  OBVIOUS
<1> HIDE DEF step
<1>5. 0 \in Int
  OBVIOUS
<1>6. \A turn \in [1..n -> [Int -> Int]] :
         \E f \in [0..n -> Int] : f[0] = 0 /\ \A i \in 1..n : f[i] = turn[i][f[i - 1]]
  BY <1>1, <1>5, CountingRecursion, Zenon
<1>7. PICK f \in [0..n -> Int] : f[0] = 0 /\ \A i \in 1..n : f[i] = step[i][f[i - 1]]
  BY <1>3, <1>6, Zenon
<1>8. ASSUME NEW i \in 0..n
      PROVE  f[i] = IF i = 0 THEN 0
                    ELSE IF f[i - 1] >= limit THEN f[i - 1]
                    ELSE f[i - 1] + CutTime(Wanted(fractions, limit, i), limit - f[i - 1])
  <2>1. CASE i = 0
    BY <1>7, <2>1
  <2>2. CASE i # 0
    <3>1. i \in 1..n /\ i - 1 \in 0..n
      BY <1>1, <2>2
    <3>2. f[i - 1] \in Int /\ f[i] = step[i][f[i - 1]]
      BY <1>7, <3>1
    <3> QED
      BY <1>4, <2>2, <3>1, <3>2
  <2> QED
    BY <2>1, <2>2
<1> QED
  BY <1>8 DEF IsSpent, n

LEMMA SpentGrows ==
    ASSUME NEW fractions \in Seq(Nat), NEW limit \in Nat, NEW f, IsSpent(f, fractions, limit)
    PROVE  /\ f[0] = 0
           /\ \A i \in 1..Len(fractions) :
                /\ f[i - 1] \in Nat /\ f[i] \in Nat /\ f[i - 1] <= f[i] /\ f[i] <= limit
                /\ fractions[i] > 0 /\ f[i - 1] < limit => f[i - 1] < f[i]
<1> DEFINE n == Len(fractions)
           T == {i \in 0..n : f[i] \in Nat /\ f[i] <= limit}
<1>1. /\ n \in Nat /\ f[0] = 0
      /\ \A i \in 1..n : f[i] = IF f[i - 1] >= limit THEN f[i - 1]
                                ELSE f[i - 1] + CutTime(Wanted(fractions, limit, i), limit - f[i - 1])
  <2>1. n \in Nat
    OBVIOUS
  <2>2. \A i \in 0..n : f[i] = IF i = 0 THEN 0
                               ELSE IF f[i - 1] >= limit THEN f[i - 1]
                               ELSE f[i - 1] + CutTime(Wanted(fractions, limit, i), limit - f[i - 1])
    BY DEF IsSpent
  <2> HIDE DEF n
  <2>3. 0 \in 0..n /\ \A i \in 1..n : i \in 0..n /\ i # 0
    BY <2>1
  <2> QED
    BY <2>1, <2>2, <2>3
<1>2. \A i \in 1..n : /\ Wanted(fractions, limit, i) \in Nat
                      /\ fractions[i] > 0 /\ limit > 0 => Wanted(fractions, limit, i) >= 1
  <2> SUFFICES ASSUME NEW i \in 1..n
               PROVE  /\ Wanted(fractions, limit, i) \in Nat
                      /\ fractions[i] > 0 /\ limit > 0 => Wanted(fractions, limit, i) >= 1
    OBVIOUS
  <2>1. fractions[i] \in Nat
    BY ElementOfSeq
  <2> QED
    BY <2>1, WantedIsNat DEF Wanted
<1> HIDE DEF n
<1>3. ASSUME NEW i \in 1..n, f[i - 1] \in Nat, f[i - 1] <= limit
      PROVE  /\ f[i] \in Nat /\ f[i - 1] <= f[i] /\ f[i] <= limit
             /\ fractions[i] > 0 /\ f[i - 1] < limit => f[i - 1] < f[i]
  <2> DEFINE a == f[i - 1]
             w == Wanted(fractions, limit, i)
             b == f[i]
             p == fractions[i] > 0
  <2>1. a \in Nat /\ a <= limit /\ w \in Nat /\ (p /\ limit > 0 => w >= 1)
    BY <1>2, <1>3
  <2>2. b = IF a >= limit THEN a ELSE a + CutTime(w, limit - a)
    BY <1>1
  <2> HIDE DEF a, w, b, p
  <2>3. CASE a >= limit
    BY <2>1, <2>2, <2>3 DEF a, b
  <2>4. CASE ~(a >= limit)
    <3>1. b = a + Least(w, limit - a)
      BY <2>2, <2>4 DEF CutTime
    <3>2. limit > 0 /\ limit - a >= 1
      BY <2>1, <2>4
    <3>3. b \in Nat /\ a <= b /\ b <= limit /\ (w >= 1 => a < b)
      BY <2>1, <3>1, <3>2 DEF Least
    <3>4. p => a < b
      BY <2>1, <3>2, <3>3, Zenon
    <3> QED
      BY <3>3, <3>4, Zenon DEF a, b, p
  <2> QED
    BY <2>3, <2>4
<1>4. 0 \in T
  BY <1>1
<1>5. ASSUME NEW i \in 1..n, i - 1 \in T
      PROVE  i \in T
  BY <1>3, <1>5
<1>6. \A i \in 0..n : i \in T
  <2> HIDE DEF T
  <2> QED
    BY <1>1, <1>4, <1>5, CountUp
<1>7. \A i \in 1..n : f[i - 1] \in Nat /\ f[i - 1] <= limit
  <2> SUFFICES ASSUME NEW i \in 1..n PROVE f[i - 1] \in Nat /\ f[i - 1] <= limit
    OBVIOUS
  <2>1. i - 1 \in 0..n
    BY <1>1
  <2> QED
    BY <1>6, <2>1
<1> QED
  BY <1>1, <1>3, <1>7 DEF n

(* The differences of what is spent add up to what is spent at the end. *)
LEMMA TimesAddUp ==
    ASSUME NEW n \in Nat, NEW f, \A i \in 0..n : f[i] \in Int, f[0] = 0
    PROVE  Total([i \in 1..n |-> f[i] - f[i - 1]]) = f[n]
<1> DEFINE times == [i \in 1..n |-> f[i] - f[i - 1]]
<1>1. \A i \in 1..n : f[i] \in Int /\ f[i - 1] \in Int
  <2> SUFFICES ASSUME NEW i \in 1..n PROVE f[i] \in Int /\ f[i - 1] \in Int
    OBVIOUS
  <2>1. i \in 0..n /\ i - 1 \in 0..n
    OBVIOUS
  <2> QED
    BY <2>1
<1>2. DOMAIN times = 1..n /\ \A i \in 1..n : times[i] \in Int /\ times[i] = f[i] - f[i - 1]
  BY <1>1
<1> HIDE DEF times
<1>3. Total(times) = SumOf(times, 1..n)
  BY <1>2, TotalOf
<1> DEFINE T == {i \in 0..n : SumOf(times, 1..i) = f[i]}
<1>4. 0 \in T
  <2>1. 1..0 = {}
    OBVIOUS
  <2> QED
    BY <2>1, SumOfNothing
<1>5. ASSUME NEW i \in 1..n, i - 1 \in T
      PROVE  i \in T
  <2>1. i \in Nat /\ i > 0 /\ \A k \in 1..i : times[k] \in Int
    BY <1>2
  <2>2. SumOf(times, 1..i) = SumOf(times, 1..(i - 1)) + times[i]
    BY <2>1, SumUpTo
  <2>3. SumOf(times, 1..(i - 1)) = f[i - 1]
    BY <1>5
  <2> QED
    BY <1>1, <1>2, <2>2, <2>3
<1>6. n \in T
  <2> HIDE DEF T
  <2>1. \A i \in 0..n : i \in T
    BY <1>4, <1>5, CountUp
  <2> QED
    BY <2>1
<1> QED
  BY <1>3, <1>6 DEF times

LEMMA InitialPart ==
    ASSUME NEW n \in Nat, NEW K, K \subseteq 1..n, \A i \in K : i > 1 => i - 1 \in K
    PROVE  Cardinality(K) \in 0..n /\ K = 1..Cardinality(K)
<1> DEFINE Missing == {i \in 1..(n + 1) : i \notin K}
<1>1. PICK m \in Missing : \A i \in Missing : m <= i
  <2>1. n + 1 \in Missing /\ Missing \subseteq Nat
    OBVIOUS
  <2>2. Missing # {}
    BY <2>1
  <2> HIDE DEF Missing
  <2> QED
    BY <2>1, <2>2, LeastNatural
<1>2. \A i \in 1..(m - 1) : i \in K
  <2> SUFFICES ASSUME NEW i \in 1..(m - 1) PROVE i \in K
    OBVIOUS
  <2>1. i \in 1..(n + 1) /\ ~(m <= i)
    BY <1>1
  <2> QED
    BY <1>1, <2>1
<1> DEFINE T == {i \in 0..n : i >= m => i \notin K}
<1>3. 0 \in T
  BY <1>1
<1>4. ASSUME NEW i \in 1..n, i - 1 \in T
      PROVE  i \in T
  <2>1. m \notin K /\ m \in 1..(n + 1)
    BY <1>1
  <2>2. CASE i > m
    <3>1. i - 1 >= m /\ i > 1
      BY <2>1, <2>2
    <3>2. i - 1 \notin K
      BY <1>4, <3>1
    <3> QED
      BY <3>1, <3>2
  <2>3. CASE ~(i > m)
    BY <2>1, <2>3
  <2> QED
    BY <2>2, <2>3
<1>5. \A i \in 0..n : i \in T
  <2> HIDE DEF T
  <2> QED
    BY <1>3, <1>4, CountUp
<1>6. K = 1..(m - 1)
  <2>1. ASSUME NEW i \in K PROVE i \in 1..(m - 1)
    <3>1. i \in 1..n /\ i \in 0..n
      OBVIOUS
    <3>2. ~(i >= m)
      BY <1>5, <3>1
    <3> QED
      BY <1>1, <3>1, <3>2
  <2> QED
    BY <1>2, <2>1
<1>7. m - 1 \in Int /\ m - 1 \in 0..n
  BY <1>1
<1>8. Cardinality(1..(m - 1)) = m - 1
  <2> DEFINE e == m - 1
  <2>1. e \in Nat
    BY <1>7
  <2> HIDE DEF e
  <2>2. Cardinality(1..e) = IF 1 > e THEN 0 ELSE e - 1 + 1
    BY <2>1, FS_Interval
  <2> QED
    BY <2>1, <2>2 DEF e
<1> QED
  BY <1>6, <1>7, <1>8

(* For all schedules and time limits: the times ScheduleTimesInitMultiCore *)
(* gives to the strategies of a search schedule never add up to more than  *)
(* the limit of their process, and a strategy with a share is started for  *)
(* a second at least.                                                      *)
THEOREM TimesFitAlways ==
    \A fractions \in Seq(Nat), limit \in Nat : TimesFit(fractions, limit)
<1> SUFFICES ASSUME NEW fractions \in Seq(Nat), NEW limit \in Nat
             PROVE  TimesFit(fractions, limit)
  OBVIOUS
<1> DEFINE n     == Len(fractions)
           spent == CHOOSE f : IsSpent(f, fractions, limit)
           K     == {i \in DOMAIN fractions : spent[i - 1] < limit}
           kept  == Cardinality(K)
           times == [i \in 1..kept |-> spent[i] - spent[i - 1]]
<1>1. SearchTimes(fractions, limit) = times
  BY Zenon DEF SearchTimes, IsSpent, Wanted
<1>2. IsSpent(spent, fractions, limit)
  BY SpendingRuns, Zenon
<1> HIDE DEF spent
<1>3. /\ spent[0] = 0
      /\ \A i \in 1..Len(fractions) :
           /\ spent[i - 1] \in Nat /\ spent[i] \in Nat /\ spent[i - 1] <= spent[i] /\ spent[i] <= limit
           /\ fractions[i] > 0 /\ spent[i - 1] < limit => spent[i - 1] < spent[i]
  BY <1>2, SpentGrows, Zenon
<1>4. n \in Nat /\ DOMAIN fractions = 1..n
  OBVIOUS
<1>5. kept \in 0..n /\ K = 1..kept
  <2>1. K \subseteq 1..n
    BY <1>4
  <2>2. \A i \in K : i > 1 => i - 1 \in K
    <3> SUFFICES ASSUME NEW i \in 1..n, spent[i - 1] < limit, i > 1
                 PROVE  i - 1 \in 1..n /\ spent[i - 1 - 1] < limit
      BY <1>4
    <3>1. i - 1 \in 1..n
      BY <1>4
    <3>2. /\ spent[i - 1 - 1] \in Nat /\ spent[i - 1] \in Nat
          /\ spent[i - 1 - 1] <= spent[i - 1]
      BY <1>3, <3>1
    <3> QED
      BY <3>1, <3>2
  <2> HIDE DEF K, n
  <2> QED
    BY <1>4, <2>1, <2>2, InitialPart
<1>6. \A i \in 0..kept : spent[i] \in Nat /\ spent[i] <= limit
  <2> SUFFICES ASSUME NEW i \in 0..kept PROVE spent[i] \in Nat /\ spent[i] <= limit
    OBVIOUS
  <2> HIDE DEF kept
  <2>1. CASE i = 0
    BY <1>3, <2>1
  <2>2. CASE i # 0
    <3>1. i \in 1..n
      BY <1>4, <1>5, <2>2
    <3> QED
      BY <1>3, <3>1
  <2> QED
    BY <2>1, <2>2
<1>7. Total(times) = spent[kept]
  <2> HIDE DEF kept
  <2>1. kept \in Nat /\ \A i \in 0..kept : spent[i] \in Int
    BY <1>4, <1>5, <1>6
  <2> QED
    BY <1>3, <2>1, TimesAddUp
<1>8. \A i \in DOMAIN times : fractions[i] > 0 => times[i] >= 1
  <2> SUFFICES ASSUME NEW i \in 1..kept, fractions[i] > 0
               PROVE  spent[i] - spent[i - 1] >= 1
    OBVIOUS
  <2>1. i \in K
    BY <1>5
  <2>2. i \in 1..n /\ spent[i - 1] < limit
    BY <1>4, <2>1
  <2>3. spent[i - 1] \in Nat /\ spent[i] \in Nat /\ spent[i - 1] < spent[i]
    BY <1>3, <2>2
  <2> QED
    BY <2>3
<1>9. Total(times) <= limit
  <2> HIDE DEF kept, times
  <2>1. kept \in 0..kept
    BY <1>4, <1>5
  <2> QED
    BY <1>6, <1>7, <2>1
<1> HIDE DEF times
<1> QED
  BY <1>1, <1>8, <1>9 DEF TimesFit
=============================================================================
