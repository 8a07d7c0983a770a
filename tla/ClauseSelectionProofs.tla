----------------------- MODULE ClauseSelectionProofs -----------------------
(***************************************************************************)
(* Proofs about ClauseSelection: the search is fair, for every heuristic,  *)
(* whatever clauses arrive and however they are evaluated.  The theorems   *)
(* about sums and counting are those of CoreAllocationProofs.              *)
(***************************************************************************)
EXTENDS ClauseSelection, CoreAllocationProofs

(* The clauses of the list, with their places and their ages *)
Cell == [id : 1..MaxClauses, evals : [1..wfcb_no -> Ranks \cup Nat], orphaned : BOOLEAN]

Age(k) == unprocessed[k].evals[wfcb_no]

(* The turns: the ends of the functions' turns are increasing, and the     *)
(* count has not reached the end for the function whose turn it is.        *)
TurnsInv ==
    /\ hcb \in [select_switch : Seq(Nat), current_eval : Nat, select_count : Nat]
    /\ wfcb_no \in Nat \ {0}
    /\ hcb.select_switch[1] > 0
    /\ \A i, j \in 1..wfcb_no : i < j => hcb.select_switch[i] < hcb.select_switch[j]
    /\ hcb.current_eval \in 1..wfcb_no
    /\ hcb.select_count < hcb.select_switch[hcb.current_eval]

(* The list is in the order of ids, and of ages. *)
ListInv ==
    /\ unprocessed \in Seq(Cell)
    /\ arrived \in 0..MaxClauses
    /\ evaluated \in Nat
    /\ \A k \in DOMAIN unprocessed :
          unprocessed[k].id <= arrived /\ Age(k) \in Nat /\ Age(k) <= evaluated
    /\ \A k, m \in DOMAIN unprocessed :
          k < m => unprocessed[k].id < unprocessed[m].id /\ Age(k) < Age(m)

(* The oldest clause has waited for the selections of this round, or, when *)
(* it is the turn of the function that selects by age, of the others.      *)
WaitInv ==
    /\ waited \in Nat
    /\ wfcb_no = 1 => waited = 0
    /\ wfcb_no > 1 => waited <= hcb.select_switch[wfcb_no - 1]
    /\ hcb.current_eval < wfcb_no => waited <= hcb.select_count

SelectionInv == TurnsInv /\ ListInv /\ WaitInv

----------------------------------------------------------------------------
(* Parts of the list *)

LEMMA MinOf ==
    ASSUME NEW T, T \subseteq Nat, T # {}
    PROVE  Min(T) \in T /\ \A x \in T : Min(T) <= x
BY LeastNatural DEF Min

(* Of every n there is a place of which it is the number among the places  *)
(* that are kept.                                                          *)
LEMMA PlaceNumbered ==
    ASSUME NEW L \in Nat, NEW kept, kept \subseteq 1..L, NEW n \in 1..Cardinality(kept)
    PROVE  \E k \in kept : Cardinality((1..k) \cap kept) = n
<1> DEFINE C(k) == Cardinality((1..k) \cap kept)
           T == {k \in 0..L : n <= C(k)}
<1>0. IsFiniteSet(kept) /\ Cardinality(kept) \in Nat
  <2>1. IsFiniteSet(1..L)
    BY FS_Interval
  <2> QED
    BY <2>1, FS_Subset, FS_CardinalityType
<1>1. \A k \in 0..L : IsFiniteSet((1..k) \cap kept) /\ C(k) \in Nat
  <2> TAKE k \in 0..L
  <2>1. (1..k) \cap kept \subseteq kept
    OBVIOUS
  <2> QED
    BY <1>0, <2>1, FS_Subset, FS_CardinalityType
<1>2. L \in T
  <2>1. (1..L) \cap kept = kept
    OBVIOUS
  <2> QED
    BY <1>0, <2>1
<1>3. PICK k \in T : \A j \in T : k <= j
  <2>1. \A k \in T : k \in 0..L
    OBVIOUS
  <2>2. L \in T
    BY <1>2
  <2> HIDE DEF T
  <2>3. T \subseteq Nat
    BY <2>1
  <2> QED
    BY <2>2, <2>3, LeastNatural
<1>4. k \in 1..L
  <2>1. (1..0) \cap kept = {}
    OBVIOUS
  <2>2. C(0) = 0
    BY <2>1, FS_EmptySet
  <2>3. k \in 0..L /\ n <= C(k)
    BY <1>3
  <2> QED
    BY <2>2, <2>3
<1>5. k - 1 \in 0..L /\ C(k - 1) < n /\ C(k - 1) \in Nat /\ C(k) \in Nat /\ n <= C(k)
  <2>1. k - 1 \in 0..L /\ ~(k <= k - 1)
    BY <1>4
  <2>2. k - 1 \notin T
    BY <1>3, <2>1
  <2> QED
    BY <1>1, <1>3, <2>1, <2>2
<1>6. k \in kept /\ C(k) = C(k - 1) + 1
  <2> DEFINE before == (1..(k - 1)) \cap kept
  <2>1. k \notin kept => (1..k) \cap kept = before
    BY <1>4
  <2>2. k \in kept => (1..k) \cap kept = before \cup {k} /\ k \notin before
    BY <1>4
  <2>3. IsFiniteSet(before)
    BY <1>1, <1>5
  <2>4. k \in kept => C(k) = Cardinality(before) + 1
    BY <2>2, <2>3, FS_AddElement
  <2>5. k \notin kept => C(k) = Cardinality(before)
    BY <2>1
  <2>6. C(k - 1) = Cardinality(before)
    OBVIOUS
  <2> HIDE DEF before, C
  <2> QED
    BY <1>5, <2>4, <2>5, <2>6
<1>7. n \in Int /\ C(k) = n
  <2> HIDE DEF C
  <2> QED
    BY <1>0, <1>5, <1>6
<1> QED
  BY <1>6, <1>7

(* What is left of the list are clauses from the places kept, in order. *)
LEMMA WithoutIsPart ==
    ASSUME ListInv, NEW places
    PROVE  \E m, g :
              /\ m \in Nat
              /\ Without(places) \in [1..m -> Cell]
              /\ \A n \in 1..m : /\ g[n] \in DOMAIN unprocessed \ places
                                 /\ Without(places)[n] = unprocessed[g[n]]
              /\ \A n, o \in 1..m : n < o => g[n] < g[o]
<1> DEFINE L == Len(unprocessed)
           kept == DOMAIN unprocessed \ places
           m == Cardinality(kept)
           At(n) == CHOOSE k \in kept : Cardinality((1..k) \cap kept) = n
           g == [n \in 1..m |-> At(n)]
<1>1. L \in Nat /\ DOMAIN unprocessed = 1..L /\ \A k \in 1..L : unprocessed[k] \in Cell
  BY DEF ListInv
<1>2. kept \subseteq 1..L /\ IsFiniteSet(kept) /\ m \in Nat
  <2>1. kept \subseteq 1..L /\ IsFiniteSet(1..L)
    BY <1>1, FS_Interval
  <2> QED
    BY <2>1, FS_Subset, FS_CardinalityType
<1>3. \A n \in 1..m : At(n) \in kept /\ Cardinality((1..At(n)) \cap kept) = n
  <2> TAKE n \in 1..m
  <2>1. \E k \in kept : Cardinality((1..k) \cap kept) = n
    <3> HIDE DEF L, kept
    <3> QED
      BY <1>1, <1>2, PlaceNumbered
  <2> HIDE DEF kept
  <2> QED
    BY <2>1
<1>4. Without(places) = [n \in 1..m |-> unprocessed[At(n)]]
  BY DEF Without
<1> HIDE DEF At
<1>5. \A n \in 1..m : /\ g[n] \in kept
                      /\ Without(places)[n] = unprocessed[g[n]]
                      /\ Without(places)[n] \in Cell
  BY <1>1, <1>2, <1>3, <1>4
<1>6. Without(places) \in [1..m -> Cell]
  <2>1. DOMAIN Without(places) = 1..m /\ Without(places) = [n \in 1..m |-> Without(places)[n]]
    BY <1>4
  <2> HIDE DEF m
  <2> QED
    BY <1>5, <2>1
<1>7. ASSUME NEW n \in 1..m, NEW o \in 1..m, n < o
      PROVE  g[n] < g[o]
  <2>1. /\ At(n) \in 1..L /\ At(o) \in 1..L
        /\ Cardinality((1..At(n)) \cap kept) = n /\ Cardinality((1..At(o)) \cap kept) = o
    BY <1>2, <1>3
  <2> HIDE DEF kept
  <2>2. ASSUME At(o) <= At(n) PROVE FALSE
    <3>1. (1..At(o)) \cap kept \subseteq (1..At(n)) \cap kept
      BY <1>1, <2>1, <2>2
    <3>2. IsFiniteSet((1..At(n)) \cap kept)
      BY <1>2, FS_Subset
    <3>3. o <= n
      BY <2>1, <3>1, <3>2, FS_Subset
    <3> QED
      BY <1>7, <1>2, <3>3
  <2> QED
    BY <1>1, <2>1, <2>2
<1> HIDE DEF g
<1> QED
  BY <1>2, <1>5, <1>6, <1>7

SameTurns == hcb'.select_switch = hcb.select_switch

(* A list of clauses from places in order is in order. *)
LEMMA ListOfPart ==
    ASSUME ListInv, SameTurns, NEW m \in Nat, NEW g,
           unprocessed' \in [1..m -> Cell],
           arrived' = arrived, evaluated' = evaluated,
           \A n \in 1..m : g[n] \in DOMAIN unprocessed /\ unprocessed'[n] = unprocessed[g[n]],
           \A n, o \in 1..m : n < o => g[n] < g[o]
    PROVE  ListInv'
<1>1. Cell' = Cell /\ wfcb_no' = wfcb_no
  BY DEF Cell, SameTurns, wfcb_no
<1>2. unprocessed' \in Seq(Cell) /\ DOMAIN unprocessed' = 1..m
  OBVIOUS
<1>3. \A n \in 1..m : /\ unprocessed'[n].id = unprocessed[g[n]].id
                      /\ unprocessed'[n].evals[wfcb_no] = Age(g[n])
  BY DEF Age
<1>4. \A n \in 1..m : /\ unprocessed'[n].id <= arrived
                      /\ unprocessed'[n].evals[wfcb_no] \in Nat
                      /\ unprocessed'[n].evals[wfcb_no] <= evaluated
  BY <1>3 DEF ListInv
<1>5. \A n, o \in 1..m : n < o =>
         /\ unprocessed'[n].id < unprocessed'[o].id
         /\ unprocessed'[n].evals[wfcb_no] < unprocessed'[o].evals[wfcb_no]
  BY <1>3 DEF ListInv
<1>6. arrived' \in 0..MaxClauses /\ evaluated' \in Nat
  BY DEF ListInv
<1> QED
  BY <1>1, <1>2, <1>4, <1>5, <1>6 DEF ListInv, Age

LEMMA ListWithout ==
    ASSUME ListInv, SameTurns, arrived' = arrived, evaluated' = evaluated,
           NEW places, unprocessed' = Without(places)
    PROVE  ListInv'
<1>1. PICK m, g :
         /\ m \in Nat
         /\ Without(places) \in [1..m -> Cell]
         /\ \A n \in 1..m : /\ g[n] \in DOMAIN unprocessed \ places
                            /\ Without(places)[n] = unprocessed[g[n]]
         /\ \A n, o \in 1..m : n < o => g[n] < g[o]
  BY WithoutIsPart
<1>2. /\ m \in Nat /\ unprocessed' \in [1..m -> Cell]
      /\ \A n \in 1..m : g[n] \in DOMAIN unprocessed /\ unprocessed'[n] = unprocessed[g[n]]
      /\ \A n, o \in 1..m : n < o => g[n] < g[o]
  BY <1>1
<1> QED
  BY <1>2, ListOfPart

LEMMA EvaluatedCell ==
    ASSUME TurnsInv, NEW E, NEW c \in [id : 1..MaxClauses, evals : E, orphaned : BOOLEAN],
           NEW ranks \in RankLists, NEW count \in Nat
    PROVE  /\ HCBClauseEvaluate(c, ranks, count) \in Cell
           /\ HCBClauseEvaluate(c, ranks, count).id = c.id
           /\ HCBClauseEvaluate(c, ranks, count).evals[wfcb_no] = count
<1>1. PICK n : n = wfcb_no
  OBVIOUS
<1>2. PICK new : new = [i \in 1..n |-> IF i = n THEN count ELSE ranks[i]]
  OBVIOUS
<1>3. n \in Nat \ {0} /\ ranks \in [1..n -> Ranks]
  BY <1>1 DEF TurnsInv, RankLists
<1>4. HCBClauseEvaluate(c, ranks, count) = [c EXCEPT !.evals = new]
  BY <1>1, <1>2 DEF HCBClauseEvaluate
<1>5. new \in [1..n -> Ranks \cup Nat] /\ new[n] = count
  BY <1>2, <1>3
<1>6. PICK d : d = [c EXCEPT !.evals = new]
  OBVIOUS
<1>7. d.id = c.id /\ d.evals = new /\ d \in Cell
  BY <1>1, <1>5, <1>6 DEF Cell
<1> QED
  BY <1>1, <1>4, <1>5, <1>6, <1>7

LEMMA ListArrive ==
    ASSUME TurnsInv, ListInv, Arrive
    PROVE  ListInv'
<1> DEFINE L == Len(unprocessed)
           first == [id |-> arrived + 1, evals |-> <<>>, orphaned |-> FALSE]
<1>1. PICK ranks \in RankLists :
         unprocessed' = Append(unprocessed, HCBClauseEvaluate(first, ranks, evaluated + 1))
  BY DEF Arrive
<1>2. /\ arrived < MaxClauses /\ arrived' = arrived + 1 /\ evaluated' = evaluated + 1
      /\ hcb' = hcb
  BY DEF Arrive
<1>3. arrived \in Nat /\ evaluated \in Nat /\ MaxClauses \in Nat /\ arrived + 1 \in 1..MaxClauses
  BY <1>2, SelectionAssumption DEF ListInv
<1> DEFINE new == HCBClauseEvaluate(first, ranks, evaluated + 1)
<1>4. new \in Cell /\ new.id = arrived + 1 /\ new.evals[wfcb_no] = evaluated + 1
  <2>1. first \in [id : 1..MaxClauses, evals : {<<>>}, orphaned : BOOLEAN] /\ evaluated + 1 \in Nat
    BY <1>3
  <2>2. first.id = arrived + 1
    OBVIOUS
  <2> HIDE DEF first
  <2> QED
    BY <2>1, <2>2, EvaluatedCell
<1> HIDE DEF new
<1>5. /\ unprocessed \in Seq(Cell) /\ unprocessed' = Append(unprocessed, new)
      /\ L \in Nat /\ DOMAIN unprocessed = 1..L
  BY <1>1 DEF new, ListInv
<1>6. /\ unprocessed' \in Seq(Cell) /\ DOMAIN unprocessed' = 1..(L + 1)
      /\ \A k \in 1..L : unprocessed'[k] = unprocessed[k]
      /\ unprocessed'[L + 1] = new
  BY <1>4, <1>5
<1> HIDE DEF L
<1>7. \A k \in 1..(L + 1) : k \in 1..L \/ k = L + 1
  BY <1>5
<1>8. Cell' = Cell /\ wfcb_no' = wfcb_no
  BY <1>2 DEF Cell, wfcb_no
<1>9. \A k \in 1..L : /\ unprocessed'[k].id <= arrived
                      /\ unprocessed[k].id \in Int
                      /\ unprocessed'[k].evals[wfcb_no] \in Nat
                      /\ unprocessed'[k].evals[wfcb_no] <= evaluated
  <2> TAKE k \in 1..L
  <2>1. unprocessed[k] \in Cell /\ unprocessed'[k] = unprocessed[k]
    BY <1>5, <1>6
  <2>2. unprocessed[k].id \in Int
    BY <2>1 DEF Cell
  <2> QED
    BY <1>5, <2>1, <2>2 DEF ListInv, Age
<1>10. \A k \in 1..(L + 1) : /\ unprocessed'[k].id <= arrived'
                             /\ unprocessed'[k].evals[wfcb_no] \in Nat
                             /\ unprocessed'[k].evals[wfcb_no] <= evaluated'
  BY <1>2, <1>3, <1>4, <1>6, <1>7, <1>9
<1>11. \A k, m \in 1..(L + 1) : k < m =>
          /\ unprocessed'[k].id < unprocessed'[m].id
          /\ unprocessed'[k].evals[wfcb_no] < unprocessed'[m].evals[wfcb_no]
  <2> SUFFICES ASSUME NEW k \in 1..(L + 1), NEW m \in 1..(L + 1), k < m
               PROVE  /\ unprocessed'[k].id < unprocessed'[m].id
                      /\ unprocessed'[k].evals[wfcb_no] < unprocessed'[m].evals[wfcb_no]
    OBVIOUS
  <2>1. k \in 1..L
    BY <1>5
  <2>2. CASE m = L + 1
    BY <1>3, <1>4, <1>6, <1>9, <2>1, <2>2
  <2>3. CASE m \in 1..L
    BY <1>5, <1>6, <2>1, <2>3 DEF ListInv, Age
  <2> QED
    BY <1>7, <2>2, <2>3
<1> QED
  BY <1>2, <1>3, <1>6, <1>8, <1>10, <1>11 DEF ListInv, Age

LEMMA ListOrphan ==
    ASSUME ListInv, BecomeOrphan
    PROVE  ListInv'
<1>1. PICK k \in DOMAIN unprocessed : unprocessed' = [unprocessed EXCEPT ![k].orphaned = TRUE]
  BY DEF BecomeOrphan
<1>2. hcb' = hcb /\ arrived' = arrived /\ evaluated' = evaluated
  BY DEF BecomeOrphan
<1>3. Cell' = Cell /\ wfcb_no' = wfcb_no
  BY <1>2 DEF Cell, wfcb_no
<1> DEFINE L == Len(unprocessed)
<1>4. L \in Nat /\ DOMAIN unprocessed = 1..L /\ \A m \in 1..L : unprocessed[m] \in Cell
  BY DEF ListInv
<1> HIDE DEF L
<1>5. \A m \in 1..L : /\ unprocessed'[m] \in Cell
                      /\ unprocessed'[m].id = unprocessed[m].id
                      /\ unprocessed'[m].evals = unprocessed[m].evals
  <2> TAKE m \in 1..L
  <2>0. PICK c \in Cell : c = unprocessed[m]
    BY <1>4
  <2>1. CASE m = k
    <3>1. unprocessed'[m] = [c EXCEPT !.orphaned = TRUE]
      BY <1>1, <1>4, <2>0, <2>1
    <3> QED
      BY <2>0, <3>1 DEF Cell
  <2>2. CASE m # k
    BY <1>1, <1>4, <2>2
  <2> QED
    BY <2>1, <2>2
<1>6. DOMAIN unprocessed' = 1..L /\ unprocessed' \in [1..L -> Cell]
  <2>1. DOMAIN unprocessed' = 1..L /\ unprocessed' = [m \in 1..L |-> unprocessed'[m]]
    BY <1>1, <1>4
  <2> QED
    BY <1>5, <2>1
<1>7. unprocessed' \in Seq(Cell)
  BY <1>4, <1>6
<1> QED
  BY <1>2, <1>3, <1>4, <1>5, <1>6, <1>7 DEF ListInv, Age

LEMMA ListReweight ==
    ASSUME TurnsInv, ListInv, ForwardContractSetReweight
    PROVE  ListInv'
<1>1. PICK gone \in SUBSET DOMAIN unprocessed, ranks \in RankLists :
         LET left == Without(gone)
         IN /\ unprocessed' = [k \in DOMAIN left |-> HCBClauseEvaluate(left[k], ranks, evaluated + k)]
            /\ evaluated' = evaluated + Len(left)
  BY DEF ForwardContractSetReweight
<1>2. hcb' = hcb /\ arrived' = arrived
  BY DEF ForwardContractSetReweight
<1>3. Cell' = Cell /\ wfcb_no' = wfcb_no
  BY <1>2 DEF Cell, wfcb_no
<1>4. PICK m, g :
         /\ m \in Nat
         /\ Without(gone) \in [1..m -> Cell]
         /\ \A n \in 1..m : /\ g[n] \in DOMAIN unprocessed \ gone
                            /\ Without(gone)[n] = unprocessed[g[n]]
         /\ \A n, o \in 1..m : n < o => g[n] < g[o]
  BY WithoutIsPart
<1> DEFINE left == Without(gone)
<1>5. /\ DOMAIN left = 1..m /\ Len(left) = m /\ \A n \in 1..m : left[n] \in Cell
      /\ evaluated \in Nat
  BY <1>4 DEF ListInv
<1>6. /\ unprocessed' = [k \in 1..m |-> HCBClauseEvaluate(left[k], ranks, evaluated + k)]
      /\ evaluated' = evaluated + m
  BY <1>1, <1>5
<1>7. \A n \in 1..m : left[n].id = unprocessed[g[n]].id
  BY <1>4
<1> HIDE DEF left
<1>8. \A n \in 1..m : /\ unprocessed'[n] \in Cell
                      /\ unprocessed'[n].id = left[n].id
                      /\ unprocessed'[n].evals[wfcb_no] = evaluated + n
  <2> TAKE n \in 1..m
  <2>1. PICK c \in Cell : c = left[n]
    BY <1>5
  <2>2. c \in [id : 1..MaxClauses, evals : [1..wfcb_no -> Ranks \cup Nat], orphaned : BOOLEAN]
    BY DEF Cell
  <2>3. evaluated + n \in Nat
    BY <1>5
  <2>4. /\ HCBClauseEvaluate(c, ranks, evaluated + n) \in Cell
        /\ HCBClauseEvaluate(c, ranks, evaluated + n).id = c.id
        /\ HCBClauseEvaluate(c, ranks, evaluated + n).evals[wfcb_no] = evaluated + n
    BY <2>2, <2>3, EvaluatedCell
  <2> QED
    BY <1>6, <2>1, <2>4
<1>9. unprocessed' \in [1..m -> Cell]
  <2>1. DOMAIN unprocessed' = 1..m /\ unprocessed' = [n \in 1..m |-> unprocessed'[n]]
    BY <1>6
  <2> QED
    BY <1>8, <2>1
<1>10. unprocessed' \in Seq(Cell) /\ DOMAIN unprocessed' = 1..m
  BY <1>4, <1>9
<1>11. \A n \in 1..m : /\ unprocessed'[n].id <= arrived'
                       /\ unprocessed'[n].evals[wfcb_no] \in Nat
                       /\ unprocessed'[n].evals[wfcb_no] <= evaluated'
  <2> TAKE n \in 1..m
  <2>1. g[n] \in DOMAIN unprocessed
    BY <1>4
  <2>2. unprocessed[g[n]].id <= arrived
    BY <2>1 DEF ListInv
  <2>3. evaluated + n \in Nat /\ evaluated + n <= evaluated + m
    BY <1>5
  <2> QED
    BY <1>2, <1>6, <1>7, <1>8, <2>2, <2>3
<1>12. \A n, o \in 1..m : n < o =>
          /\ unprocessed'[n].id < unprocessed'[o].id
          /\ unprocessed'[n].evals[wfcb_no] < unprocessed'[o].evals[wfcb_no]
  <2> SUFFICES ASSUME NEW n \in 1..m, NEW o \in 1..m, n < o
               PROVE  /\ unprocessed'[n].id < unprocessed'[o].id
                      /\ unprocessed'[n].evals[wfcb_no] < unprocessed'[o].evals[wfcb_no]
    OBVIOUS
  <2>1. g[n] \in DOMAIN unprocessed /\ g[o] \in DOMAIN unprocessed /\ g[n] < g[o]
    BY <1>4
  <2>2. unprocessed[g[n]].id < unprocessed[g[o]].id
    BY <2>1 DEF ListInv
  <2>3. evaluated + n < evaluated + o
    BY <1>5
  <2> QED
    BY <1>7, <1>8, <2>2, <2>3
<1>13. arrived' \in 0..MaxClauses /\ evaluated' \in Nat
  BY <1>2, <1>5, <1>6 DEF ListInv
<1> QED
  BY <1>3, <1>10, <1>11, <1>12, <1>13 DEF ListInv, Age

LEMMA ListSelect ==
    ASSUME ListInv, SameTurns, HCBStandardClauseSelect
    PROVE  ListInv'
<1> DEFINE found  == DOMAIN unprocessed \ Orphans
           eval   == hcb.current_eval
           passed == {k \in Orphans : FindBest({k} \cup found, eval) = k}
<1>1. /\ unprocessed' = IF found = {} THEN <<>>
                        ELSE Without(passed \cup {FindBest(found, eval)})
      /\ arrived' = arrived /\ evaluated' = evaluated
  BY DEF HCBStandardClauseSelect
<1>2. CASE found = {}
  <2>1. unprocessed' = <<>>
    BY <1>1, <1>2
  <2>2. unprocessed' \in [1..0 -> Cell] /\ \A n \in 1..0 : FALSE
    BY <2>1
  <2>3. \A n \in 1..0 : /\ unprocessed[n] \in DOMAIN unprocessed
                        /\ unprocessed'[n] = unprocessed[unprocessed[n]]
    BY <2>2
  <2>4. \A n, o \in 1..0 : n < o => unprocessed[n] < unprocessed[o]
    BY <2>2
  <2> QED
    BY <1>1, <2>2, <2>3, <2>4, ListOfPart
<1>3. CASE found # {}
  <2>1. unprocessed' = Without(passed \cup {FindBest(found, eval)})
    BY <1>1, <1>3
  <2> QED
    BY <1>1, <2>1, ListWithout
<1> QED
  BY <1>2, <1>3

LEMMA ListStep ==
    ASSUME TurnsInv, ListInv, SameTurns, [SelectionNext]_selectionVars
    PROVE  ListInv'
<1>1. CASE Arrive
  BY <1>1, ListArrive
<1>2. CASE BecomeOrphan
  BY <1>2, ListOrphan
<1>3. CASE HCBStandardClauseSelect
  BY <1>3, ListSelect
<1>4. CASE ClauseSetDeleteOrphans
  BY <1>4, ListWithout DEF ClauseSetDeleteOrphans
<1>5. CASE ForwardContractSetReweight
  BY <1>5, ListReweight
<1>6. CASE HCBClauseSetDeleteBadClauses
  <2>1. /\ \E places : unprocessed' = Without(places)
        /\ arrived' = arrived /\ evaluated' = evaluated
    BY <1>6 DEF HCBClauseSetDeleteBadClauses
  <2> QED
    BY <2>1, ListWithout
<1>7. CASE UNCHANGED selectionVars
  BY <1>7 DEF selectionVars, ListInv, Age, Cell, wfcb_no
<1> QED
  BY <1>1, <1>2, <1>3, <1>4, <1>5, <1>6, <1>7 DEF SelectionNext

----------------------------------------------------------------------------
(* The turns *)

(* The next turn is one of the same function, or the first of the next     *)
(* one; after the last turn of all a new round begins.                     *)
LEMMA NextTurnIs ==
    ASSUME TurnsInv, hcb' = NextTurn
    PROVE  /\ TurnsInv' /\ SameTurns
           /\ hcb'.current_eval = hcb.current_eval \/ hcb'.current_eval = hcb.current_eval + 1
              \/ (hcb'.current_eval = 1 /\ hcb.current_eval = wfcb_no)
           /\ \/ hcb'.select_count = hcb.select_count + 1
              \/ hcb'.select_count = 0 /\ hcb'.current_eval = 1 /\ hcb.current_eval = wfcb_no
<1> DEFINE S == hcb.select_switch
           n == wfcb_no
           e == hcb.current_eval
           count == hcb.select_count + 1
           waiting == {i \in e..n : S[i] # count}
<1>1. /\ n \in Nat \ {0} /\ e \in 1..n /\ count \in Nat /\ S[e] \in Nat /\ count <= S[e]
      /\ \A i \in 1..n : S[i] \in Nat
      /\ \A i, j \in 1..n : i < j => S[i] < S[j]
      /\ hcb.select_count \in Nat
  BY DEF TurnsInv, wfcb_no
<1>2. hcb' = IF waiting # {} THEN [hcb EXCEPT !.select_count = count, !.current_eval = Min(waiting)]
             ELSE [hcb EXCEPT !.select_count = 0, !.current_eval = 1]
  BY DEF NextTurn
<1>3. hcb \in [select_switch : Seq(Nat), current_eval : Nat, select_count : Nat]
  BY DEF TurnsInv
<1>a. \A T : T \subseteq e..n /\ T # {} => Min(T) \in T /\ \A x \in T : Min(T) <= x
  <2> SUFFICES ASSUME NEW T, T \subseteq e..n, T # {}
               PROVE  Min(T) \in T /\ \A x \in T : Min(T) <= x
    OBVIOUS
  <2>1. T \subseteq Nat
    BY <1>1
  <2> QED
    BY <2>1, MinOf
<1>b. \A i \in e..n : i \in waiting <=> S[i] # count
  OBVIOUS
<1>c. waiting \subseteq e..n
  OBVIOUS
<1>d. S[1] > 0 /\ S \in Seq(Nat) /\ n = Len(S)
  BY DEF TurnsInv, wfcb_no
<1> DEFINE Becomes(f, c) == hcb' = [hcb EXCEPT !.select_count = c, !.current_eval = f]
<1>4. \/ Becomes(e, count) /\ count < S[e]
      \/ Becomes(e + 1, count) /\ e + 1 \in 1..n /\ count = S[e]
      \/ Becomes(1, 0) /\ e = n
  <2>2. CASE count < S[e]
    <3>1. e \in waiting
      BY <1>1, <2>2
    <3>2. Min(waiting) \in e..n /\ Min(waiting) <= e
      BY <1>a, <1>c, <3>1
    <3>3. Min(waiting) = e
      BY <1>1, <3>2
    <3>4. hcb' = [hcb EXCEPT !.select_count = count, !.current_eval = e]
      BY <1>2, <3>1, <3>3
    <3> QED
      BY <2>2, <3>4
  <2>3. CASE count = S[e] /\ e < n
    <3>1. e \notin waiting /\ e + 1 \in e..n /\ e + 1 \in 1..n /\ S[e] < S[e + 1]
      BY <1>1, <2>3
    <3>2. e + 1 \in waiting
      BY <1>1, <1>b, <2>3, <3>1
    <3>3. Min(waiting) \in waiting /\ Min(waiting) \in e..n /\ Min(waiting) <= e + 1
      BY <1>a, <1>c, <3>2
    <3>4. Min(waiting) = e + 1
      BY <1>1, <3>1, <3>3
    <3>5. hcb' = [hcb EXCEPT !.select_count = count, !.current_eval = e + 1]
      BY <1>2, <3>2, <3>4
    <3> QED
      BY <2>3, <3>1, <3>5
  <2>4. CASE count = S[e] /\ e = n
    <3>1. \A i \in e..n : i = e
      BY <1>1, <2>4
    <3>2. waiting = {}
      BY <1>b, <1>c, <2>4, <3>1
    <3>3. hcb' = [hcb EXCEPT !.select_count = 0, !.current_eval = 1]
      BY <1>2, <3>2
    <3> QED
      BY <2>4, <3>3
  <2> QED
    BY <1>1, <2>2, <2>3, <2>4
<1>5. ASSUME NEW f \in 1..n, NEW c \in Nat, Becomes(f, c), c < S[f]
      PROVE  TurnsInv' /\ SameTurns /\ hcb'.current_eval = f /\ hcb'.select_count = c
  <2>1. /\ hcb'.select_switch = S /\ hcb'.current_eval = f /\ hcb'.select_count = c
        /\ hcb' \in [select_switch : Seq(Nat), current_eval : Nat, select_count : Nat]
    <3>1. f \in Nat /\ c \in Nat
      BY <1>1
    <3>2. PICK h \in [select_switch : Seq(Nat), current_eval : Nat, select_count : Nat] : h = hcb
      BY <1>3
    <3>3. hcb' = [h EXCEPT !.select_count = c, !.current_eval = f] /\ S = h.select_switch
      BY <1>5, <3>2
    <3> HIDE DEF S
    <3> QED
      BY ONLY <3>1, <3>3, h \in [select_switch : Seq(Nat), current_eval : Nat, select_count : Nat]
  <2>2. wfcb_no' = n
    BY <2>1 DEF wfcb_no
  <2> QED
    BY <1>1, <1>5, <1>d, <2>1, <2>2 DEF TurnsInv, SameTurns
<1>6. CASE Becomes(e, count) /\ count < S[e]
  BY <1>1, <1>5, <1>6
<1>7. CASE Becomes(e + 1, count) /\ e + 1 \in 1..n /\ count = S[e]
  <2>1. count < S[e + 1]
    BY <1>1, <1>7
  <2> QED
    BY <1>1, <1>5, <1>7, <2>1
<1>8. CASE Becomes(1, 0) /\ e = n
  <2>1. 1 \in 1..n
    BY <1>1
  <2> QED
    BY <1>5, <1>8, <1>d, <2>1
<1> HIDE DEF Becomes
<1> QED
  BY <1>4, <1>6, <1>7, <1>8

----------------------------------------------------------------------------
(* Where the functions' turns end *)

LEMMA SwitchIsSum ==
    ASSUME NEW steps, NEW i \in DOMAIN steps
    PROVE  HCBAddWFCB(steps)[i] = SumOf(steps, 1..i)
BY Zenon DEF HCBAddWFCB, MapThenSumSet, MapThenFoldSet, SumOf, SumsOf, IsSum, Some

LEMMA SwitchIncreases ==
    ASSUME NEW steps \in Seq(Nat \ {0}), steps # <<>>
    PROVE  /\ HCBAddWFCB(steps) \in Seq(Nat) /\ Len(HCBAddWFCB(steps)) \in Nat \ {0}
           /\ HCBAddWFCB(steps)[1] > 0
           /\ \A i, j \in 1..Len(HCBAddWFCB(steps)) :
                 i < j => HCBAddWFCB(steps)[i] < HCBAddWFCB(steps)[j]
<1> DEFINE n == Len(steps)
           S == HCBAddWFCB(steps)
<1>1. n \in Nat /\ n > 0 /\ DOMAIN steps = 1..n /\ \A k \in 1..n : steps[k] \in Nat /\ steps[k] > 0
  OBVIOUS
<1>2. DOMAIN S = 1..n /\ S = [i \in 1..n |-> S[i]]
  BY <1>1 DEF HCBAddWFCB
<1>3. \A i \in 1..n : S[i] = SumOf(steps, 1..i)
  BY <1>1, SwitchIsSum
<1> HIDE DEF n, S
<1> DEFINE R == {i \in 0..n : SumOf(steps, 1..i) \in Nat}
<1>4. 0 \in R
  <2>1. 1..0 = {}
    OBVIOUS
  <2>2. SumOf(steps, 1..0) = 0
    BY <2>1, SumOfNothing
  <2> QED
    BY <1>1, <2>2
<1>5. ASSUME NEW i \in 1..n
      PROVE  SumOf(steps, 1..i) = SumOf(steps, 1..(i - 1)) + steps[i]
  BY <1>1, SumUpTo
<1>6. ASSUME NEW i \in 1..n, i - 1 \in R
      PROVE  i \in R
  BY <1>1, <1>5, <1>6
<1>7. \A i \in 0..n : i \in R
  <2> HIDE DEF R
  <2> QED
    BY <1>1, <1>4, <1>6, CountUp
<1>8. \A i \in 1..n : S[i] \in Nat
  BY <1>3, <1>7
<1>9. S[1] > 0
  <2>1. 1 \in 1..n /\ 0 \in 0..n /\ 1 - 1 = 0
    BY <1>1
  <2>2. SumOf(steps, 1..1) = SumOf(steps, 1..0) + steps[1] /\ SumOf(steps, 1..0) \in Nat
    BY <1>5, <1>7, <2>1
  <2>3. S[1] = SumOf(steps, 1..0) + steps[1] /\ steps[1] \in Nat /\ steps[1] > 0
    BY <1>1, <1>3, <2>1, <2>2
  <2> QED
    BY ONLY <2>2, <2>3
<1>10. \A i \in 2..n : S[i - 1] < S[i]
  <2> TAKE i \in 2..n
  <2>1. i \in 1..n /\ i - 1 \in 1..n
    BY <1>1
  <2>2. S[i] = S[i - 1] + steps[i]
    BY <1>3, <1>5, <2>1
  <2> QED
    BY <1>1, <1>8, <2>1, <2>2
<1>11. ASSUME NEW i \in 1..n
       PROVE  \A j \in 1..n : i < j => S[i] < S[j]
  <2> DEFINE T == {j \in 0..n : i < j => S[i] < S[j]}
  <2>1. 0 \in T
    BY <1>1
  <2>2. ASSUME NEW j \in 1..n, j - 1 \in T
        PROVE  j \in T
    <3>1. CASE ~(i < j)
      BY <3>1
    <3>2. CASE i < j /\ i = j - 1
      <4>1. j \in 2..n
        BY <3>2
      <4> QED
        BY <1>10, <3>2, <4>1
    <3>3. CASE i < j /\ i # j - 1
      <4>1. i < j - 1 /\ j \in 2..n /\ j - 1 \in 1..n
        BY <1>1, <3>3
      <4>2. S[i] < S[j - 1] /\ S[j - 1] < S[j]
        BY <1>10, <2>2, <4>1
      <4> QED
        BY <1>8, <4>1, <4>2
    <3> QED
      BY <3>1, <3>2, <3>3
  <2> HIDE DEF T
  <2>3. \A j \in 0..n : j \in T
    BY <1>1, <2>1, <2>2, CountUp
  <2> QED
    BY <2>3 DEF T
<1>12. S \in Seq(Nat) /\ Len(S) = n
  <2>1. S \in [1..n -> Nat]
    BY <1>2, <1>8
  <2> QED
    BY <1>1, <2>1
<1> QED
  BY <1>1, <1>9, <1>11, <1>12 DEF S

----------------------------------------------------------------------------
(* The function that selects by age *)

LEMMA BestByAge ==
    ASSUME TurnsInv, ListInv, NEW P, P \subseteq DOMAIN unprocessed, P # {}
    PROVE  FindBest(P, wfcb_no) \in P /\ \A k \in P : FindBest(P, wfcb_no) <= k
<1> DEFINE Best(k) == \A m \in P \ {k} :
                         \/ unprocessed[k].evals[wfcb_no] < unprocessed[m].evals[wfcb_no]
                         \/ unprocessed[k].evals[wfcb_no] = unprocessed[m].evals[wfcb_no] /\ k < m
<1>1. P \subseteq Nat
  BY DEF ListInv
<1>2. PICK first \in P : \A k \in P : first <= k
  BY <1>1, LeastNatural
<1>3. \A k \in P : Age(k) \in Nat /\ \A m \in P : k < m => Age(k) < Age(m)
  BY DEF ListInv
<1>4. Best(first)
  BY <1>1, <1>2, <1>3 DEF Age
<1>5. \A k \in P : Best(k) => k = first
  BY <1>1, <1>2, <1>3 DEF Age
<1>6. FindBest(P, wfcb_no) \in P /\ Best(FindBest(P, wfcb_no))
  BY <1>2, <1>4 DEF FindBest
<1> HIDE DEF Best
<1> QED
  BY <1>2, <1>5, <1>6

LEMMA OldestIsLeast ==
    ASSUME ListInv
    PROVE  /\ Oldest \in Nat
           /\ \A k \in DOMAIN unprocessed \ Orphans : Oldest <= unprocessed[k].id
           /\ \/ Oldest = MaxClauses + 1
              \/ \E k \in DOMAIN unprocessed \ Orphans : Oldest = unprocessed[k].id
<1> DEFINE ids == {unprocessed[k].id : k \in DOMAIN unprocessed \ Orphans} \cup {MaxClauses + 1}
<1>1. ids \subseteq Nat /\ ids # {}
  <2>1. \A k \in DOMAIN unprocessed : unprocessed[k] \in Cell
    BY DEF ListInv
  <2>2. \A c \in Cell : c.id \in Nat
    BY SelectionAssumption DEF Cell
  <2>3. MaxClauses + 1 \in Nat
    BY SelectionAssumption
  <2> QED
    BY <2>1, <2>2, <2>3
<1>2. Oldest = Min(ids)
  BY DEF Oldest
<1>3. Min(ids) \in ids /\ \A x \in ids : Min(ids) <= x
  <2> HIDE DEF ids
  <2> QED
    BY <1>1, MinOf
<1>4. Min(ids) \in Nat
  <2> HIDE DEF ids
  <2> QED
    BY <1>1, <1>3
<1> QED
  BY <1>2, <1>3, <1>4

(* When the turn is that of the function that selects by age, the oldest   *)
(* clause is what it selects.                                              *)
LEMMA OldestSelected ==
    ASSUME TurnsInv, ListInv, ListInv', HCBStandardClauseSelect, hcb.current_eval = wfcb_no
    PROVE  waited' = 0
<1> DEFINE found  == DOMAIN unprocessed \ Orphans
           passed == {k \in Orphans : FindBest({k} \cup found, wfcb_no) = k}
           best   == FindBest(found, wfcb_no)
<1>1. /\ unprocessed' = IF found = {} THEN <<>> ELSE Without(passed \cup {best})
      /\ waited' = IF Oldest' = Oldest /\ Oldest <= MaxClauses THEN waited + 1 ELSE 0
  BY DEF HCBStandardClauseSelect, Waiting
<1> SUFFICES ASSUME Oldest' = Oldest, Oldest <= MaxClauses PROVE FALSE
  BY <1>1
<1>2. /\ Oldest \in Nat /\ MaxClauses \in Nat
      /\ Oldest # MaxClauses + 1
  BY OldestIsLeast, SelectionAssumption
<1>3. PICK k \in found : Oldest = unprocessed[k].id
  BY <1>2, OldestIsLeast
<1>4. /\ Oldest' = MaxClauses + 1
         \/ \E n \in DOMAIN unprocessed' : Oldest' = unprocessed'[n].id
  <2> DEFINE ids == {unprocessed'[i].id : i \in DOMAIN unprocessed' \ Orphans'} \cup {MaxClauses + 1}
  <2>1. Oldest' = Min(ids)
    BY DEF Oldest
  <2>2. ids \subseteq Nat /\ ids # {}
    <3>1. \A i \in DOMAIN unprocessed' : unprocessed'[i] \in Cell'
      BY DEF ListInv
    <3>2. \A c \in Cell' : c.id \in Nat
      BY <1>2 DEF Cell
    <3>3. MaxClauses + 1 \in Nat
      BY <1>2
    <3> QED
      BY <3>1, <3>2, <3>3
  <2>3. Min(ids) \in ids
    <3> HIDE DEF ids
    <3> QED
      BY <2>2, MinOf
  <2> QED
    BY <2>1, <2>3
<1>5. PICK n \in DOMAIN unprocessed' : Oldest = unprocessed'[n].id
  BY <1>2, <1>4
<1>6. /\ unprocessed' = Without(passed \cup {best})
      /\ best \in found /\ best <= k
  <2>1. found \subseteq DOMAIN unprocessed /\ found # {}
    BY <1>3
  <2> HIDE DEF found
  <2> QED
    BY <1>1, <1>3, <2>1, BestByAge
<1> DEFINE places == passed \cup {best}
<1>7. PICK m, g :
         /\ m \in Nat
         /\ Without(places) \in [1..m -> Cell]
         /\ \A i \in 1..m : /\ g[i] \in DOMAIN unprocessed \ places
                            /\ Without(places)[i] = unprocessed[g[i]]
  <2> HIDE DEF places
  <2> QED
    BY WithoutIsPart
<1>8. g[n] \in DOMAIN unprocessed /\ g[n] # best /\ unprocessed[g[n]].id = unprocessed[k].id
  <2>1. unprocessed' = Without(places)
    BY <1>6
  <2> HIDE DEF places
  <2>2. n \in 1..m /\ unprocessed'[n] = unprocessed[g[n]] /\ g[n] \in DOMAIN unprocessed \ places
    BY <1>5, <1>7, <2>1
  <2> USE DEF places
  <2> QED
    BY <1>3, <1>5, <2>2
<1> HIDE DEF best
<1>9. \A i, j \in DOMAIN unprocessed : i < j => unprocessed[i].id < unprocessed[j].id
  BY DEF ListInv
<1>10. \A i \in DOMAIN unprocessed : unprocessed[i].id \in Int /\ i \in Int
  <2>1. \A i \in DOMAIN unprocessed : unprocessed[i] \in Cell /\ i \in Int
    BY DEF ListInv
  <2>2. \A c \in Cell : c.id \in Int
    BY <1>2 DEF Cell
  <2> QED
    BY <2>1, <2>2
<1>11. best = k
  <2>1. best \in DOMAIN unprocessed \ Orphans
    BY <1>6
  <2>2. unprocessed[k].id <= unprocessed[best].id
    BY <1>3, <2>1, OldestIsLeast
  <2> QED
    BY <1>3, <1>6, <1>9, <1>10, <2>1, <2>2
<1> QED
  BY <1>3, <1>8, <1>9, <1>10, <1>11

LEMMA SelectionWaits ==
    ASSUME SelectionInv, ListInv', HCBStandardClauseSelect
    PROVE  TurnsInv' /\ SameTurns /\ WaitInv'
<1> DEFINE S == hcb.select_switch
           n == wfcb_no
           e == hcb.current_eval
<1>1. /\ n \in Nat \ {0} /\ e \in 1..n /\ hcb.select_count \in Nat /\ hcb.select_count < S[e]
      /\ \A i \in 1..n : S[i] \in Nat
      /\ \A i, j \in 1..n : i < j => S[i] < S[j]
  BY DEF SelectionInv, TurnsInv, wfcb_no
<1>2. waited' \in {0, waited + 1} /\ hcb' = IF n = 1 THEN hcb ELSE NextTurn
  BY DEF HCBStandardClauseSelect, Waiting
<1>3. e = n => waited' = 0
  BY OldestSelected DEF SelectionInv
<1>4. CASE n = 1
  <2>1. hcb' = hcb /\ waited' = 0
    BY <1>1, <1>2, <1>3, <1>4
  <2> QED
    BY <2>1, <1>1, <1>4 DEF SelectionInv, TurnsInv, SameTurns, WaitInv, wfcb_no
<1>5. CASE n > 1
  <2>1. /\ TurnsInv' /\ SameTurns
        /\ hcb'.current_eval = e \/ hcb'.current_eval = e + 1
           \/ (hcb'.current_eval = 1 /\ e = n)
        /\ \/ hcb'.select_count = hcb.select_count + 1
           \/ hcb'.select_count = 0 /\ hcb'.current_eval = 1 /\ e = n
    BY <1>2, <1>5, NextTurnIs DEF SelectionInv
  <2>2. wfcb_no' = n
    BY <2>1 DEF SameTurns, wfcb_no
  <2>3. waited' \in Nat /\ hcb'.select_count \in Nat
    BY <1>1, <1>2, <2>1 DEF SelectionInv, WaitInv
  <2>4. ASSUME e < n PROVE waited' <= hcb.select_count + 1 /\ waited' <= S[n - 1]
    <3>1. waited <= hcb.select_count /\ waited \in Nat
      BY <2>4 DEF SelectionInv, WaitInv
    <3>2. S[e] <= S[n - 1] /\ S[e] \in Nat /\ S[n - 1] \in Nat
      <4>1. n - 1 \in 1..n /\ (e = n - 1 \/ e < n - 1)
        BY <1>1, <2>4
      <4> QED
        BY <1>1, <4>1
    <3> QED
      BY <1>1, <1>2, <3>1, <3>2
  <2>5. waited' <= S[n - 1]
    <3>1. CASE e = n
      <4>1. n - 1 \in 1..n
        BY <1>1, <1>5
      <4> QED
        BY <1>1, <1>3, <3>1, <4>1
    <3>2. CASE e < n
      BY <2>4, <3>2
    <3> QED
      BY <1>1, <3>1, <3>2
  <2>6. hcb'.current_eval < n => waited' <= hcb'.select_count
    <3>1. CASE e = n
      BY <1>3, <2>3, <3>1
    <3>2. CASE e < n
      BY <1>1, <2>1, <2>4, <3>2
    <3> QED
      BY <1>1, <3>1, <3>2
  <2>7. hcb'.select_switch = S
    BY <2>1 DEF SameTurns
  <2> QED
    BY <1>5, <2>1, <2>2, <2>3, <2>5, <2>6, <2>7 DEF WaitInv
<1> QED
  BY <1>1, <1>4, <1>5

LEMMA SelectionStep ==
    ASSUME SelectionInv, [SelectionNext]_selectionVars
    PROVE  SelectionInv'
<1>1. CASE HCBStandardClauseSelect
  <2>1. SameTurns
    <3>1. hcb' = hcb \/ hcb' = NextTurn
      BY <1>1 DEF HCBStandardClauseSelect
    <3> QED
      BY <3>1, NextTurnIs DEF SelectionInv, SameTurns
  <2>2. ListInv'
    BY <1>1, <2>1, ListSelect DEF SelectionInv
  <2> QED
    BY <1>1, <2>2, SelectionWaits DEF SelectionInv
<1>2. CASE /\ [SelectionNext]_selectionVars
           /\ ~HCBStandardClauseSelect
  <2>1. hcb' = hcb /\ waited' \in {waited, waited + 0, 0}
    BY <1>2 DEF SelectionNext, selectionVars, Arrive, BecomeOrphan, ClauseSetDeleteOrphans,
                ForwardContractSetReweight, HCBClauseSetDeleteBadClauses, Waiting
  <2>2. ListInv'
    BY <2>1, ListStep DEF SelectionInv, SameTurns
  <2>3. TurnsInv'
    BY <2>1 DEF SelectionInv, TurnsInv, wfcb_no
  <2>4. waited \in Nat /\ wfcb_no' = wfcb_no /\ waited' \in {waited, 0}
    BY <2>1 DEF SelectionInv, WaitInv, wfcb_no
  <2>5. wfcb_no > 1 => hcb.select_switch[wfcb_no - 1] \in Nat
    <3>1. ASSUME wfcb_no > 1 PROVE wfcb_no - 1 \in 1..wfcb_no
      BY <3>1 DEF SelectionInv, TurnsInv
    <3> QED
      BY <3>1 DEF SelectionInv, TurnsInv, wfcb_no
  <2>6. hcb.select_count \in Nat
    BY DEF SelectionInv, TurnsInv
  <2> QED
    BY <2>1, <2>2, <2>3, <2>4, <2>5, <2>6 DEF SelectionInv, WaitInv
<1> QED
  BY <1>1, <1>2

LEMMA SelectionStart ==
    ASSUME SelectionInit
    PROVE  SelectionInv
<1>1. PICK steps \in StepLists :
         hcb = [select_switch |-> HCBAddWFCB(steps), current_eval |-> 1, select_count |-> 0]
  BY DEF SelectionInit
<1>2. steps \in Seq(Nat \ {0}) /\ steps # <<>>
  BY SelectionAssumption
<1> DEFINE S == HCBAddWFCB(steps)
<1>3. /\ S \in Seq(Nat) /\ Len(S) \in Nat \ {0} /\ S[1] > 0
      /\ \A i, j \in 1..Len(S) : i < j => S[i] < S[j]
  BY <1>2, SwitchIncreases
<1> HIDE DEF S
<1>4. hcb.select_switch = S /\ hcb.current_eval = 1 /\ hcb.select_count = 0
      /\ hcb \in [select_switch : Seq(Nat), current_eval : Nat, select_count : Nat]
  BY <1>1, <1>3 DEF S
<1>5. wfcb_no = Len(S)
  BY <1>4 DEF wfcb_no
<1>6. TurnsInv
  BY <1>3, <1>4, <1>5 DEF TurnsInv
<1>7. ListInv
  <2>1. unprocessed = <<>> /\ arrived = 0 /\ evaluated = 0
    BY DEF SelectionInit
  <2>2. unprocessed \in Seq(Cell) /\ DOMAIN unprocessed = {}
    BY <2>1
  <2> QED
    BY <2>1, <2>2, SelectionAssumption DEF ListInv
<1>8. WaitInv
  <2>1. waited = 0
    BY DEF SelectionInit
  <2>2. wfcb_no > 1 => hcb.select_switch[wfcb_no - 1] \in Nat
    BY <1>3, <1>4, <1>5
  <2> QED
    BY <1>4, <2>1, <2>2 DEF WaitInv
<1> QED
  BY <1>6, <1>7, <1>8 DEF SelectionInv

(* Fairness of HCBStandardClauseSelect: in every heuristic that has a      *)
(* function for the age of a clause, no number of arrivals, evaluations    *)
(* and deletions keeps the oldest clause from being selected longer than   *)
(* the turns of the other functions in one round.                          *)
THEOREM OldestIsServed == SelectionSpec => []OldestComesSoon
<1>1. SelectionInit => SelectionInv
  BY SelectionStart
<1>2. SelectionInv /\ [SelectionNext]_selectionVars => SelectionInv'
  BY SelectionStep
<1>3. SelectionInv => OldestComesSoon
  BY DEF SelectionInv, WaitInv, TurnsInv, OldestComesSoon
<1> QED
  BY <1>1, <1>2, <1>3, PTL DEF SelectionSpec
=============================================================================
