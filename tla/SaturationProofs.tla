-------------------------- MODULE SaturationProofs --------------------------
(***************************************************************************)
(* Proofs about Saturation for every signature, problem and set of         *)
(* options: type correctness, soundness, that no clause is lost unnoticed, *)
(* that "Unsatisfiable" is a true verdict, that the marks of victims are   *)
(* right, and that the processed clauses stay reduced.                     *)
(***************************************************************************)
EXTENDS Saturation, FiniteSetTheorems, TLAPS

----------------------------------------------------------------------------
(* The inferences of ClauseLogic: a simplification turns a clause that     *)
(* holds in an interpretation v into one that holds in v, and back, if the *)
(* clauses it uses hold.                                                   *)

(* A subset of a set of clauses has at least its models. *)
LEMMA ModelsMonotone ==
    ASSUME NEW M, NEW N, M \subseteq N
    PROVE  Models(N) \subseteq Models(M)
BY DEF Models

(* Rewriting a literal with a unit rule (ClauseComputeLINormalform). *)
LEMMA RewriteSound ==
    ASSUME NEW v, NEW c \in Clause, NEW r \in Rewrites, r.from \in c,
           Holds(v, {r.rule})
    PROVE  Holds(v, c) <=> Holds(v, (c \ {r.from}) \cup r.to)
<1> v \in Sat[r.rule]
  BY DEF Holds
<1> v \in Sat[r.from] <=> \E l \in r.to : v \in Sat[l]
  BY RewritesAssumption
<1> QED
  BY DEF Holds

(* A literal that covers another one of the clause is superfluous. *)
LEMMA CondenseSound ==
    ASSUME NEW v, NEW c \in Clause, NEW l \in c, NEW k \in c \ {l},
           <<l, k>> \in Covers
    PROVE  Holds(v, c) <=> Holds(v, c \ {l})
<1> Sat[l] \subseteq Sat[k]
  BY MatchAssumption DEF Clause
<1> QED
  BY DEF Holds

(* Simplify-reflect: a unit cuts a literal. *)
LEMMA CutSound ==
    ASSUME NEW v, NEW c \in Clause, NEW l \in c, NEW u \in Lit,
           <<u, l>> \in Cuts, Holds(v, {u})
    PROVE  Holds(v, c) <=> Holds(v, c \ {l})
<1> v \in Sat[u] /\ v \notin Sat[l]
  BY MatchAssumption DEF Holds, Clause
<1> QED
  BY DEF Holds

(* Subsumption: what is subsumed follows. *)
LEMMA SubsumptionSound ==
    ASSUME NEW v, NEW d \in Clause, NEW c \in Clause, Subsumes(d, c),
           Holds(v, d)
    PROVE  Holds(v, c)
<1>1. PICK f \in Injection(d, c) : \A l \in d : <<l, f[l]>> \in Covers
  BY DEF Subsumes
<1>2. f \in [d -> c]
  BY DEF Injection
<1>3. PICK l \in d : v \in Sat[l]
  BY DEF Holds
<1>4. v \in Sat[f[l]] /\ f[l] \in c
  BY <1>1, <1>2, <1>3, MatchAssumption DEF Clause
<1> QED
  BY <1>4 DEF Holds

(* Contextual simplify-reflect: the flipped clause subsumes. *)
LEMMA ContextCutSound ==
    ASSUME NEW v, NEW d \in Clause, NEW c \in Clause, NEW cut \in c,
           ContextCuts(d, c, cut), Holds(v, d)
    PROVE  Holds(v, c) <=> Holds(v, c \ {cut})
<1>1. PICK f \in Injection(d, c), m \in d :
         /\ f[m] = cut
         /\ <<m, cut>> \in Cuts
         /\ \A l \in d \ {m} : <<l, f[l]>> \in Covers
  BY DEF ContextCuts
<1>2. f \in [d -> c] /\ \A a, b \in d : f[a] = f[b] => a = b
  BY DEF Injection, IsInjective
<1>3. PICK l \in d : v \in Sat[l]
  BY DEF Holds
<1>4. CASE l = m
  <2> v \notin Sat[cut]
    BY <1>1, <1>3, <1>4, MatchAssumption DEF Clause
  <2> QED
    BY DEF Holds
<1>5. CASE l # m
  <2> f[l] \in c \ {cut} /\ v \in Sat[f[l]]
    BY <1>1, <1>2, <1>3, <1>5, MatchAssumption DEF Clause
  <2> QED
    BY DEF Holds
<1> QED
  BY <1>4, <1>5

(* Generating inferences conclude what their premises imply. *)
LEMMA ParamodulantSound ==
    ASSUME NEW v \in Val, NEW c \in Clause, NEW d \in Clause,
           Holds(v, c), Holds(v, d), NEW e \in Paramodulants(c, d)
    PROVE  e \in Clause /\ Holds(v, e)
<1>1. PICK p \in Paramods : e = (c \ {p.from}) \cup (d \ {p.into}) \cup p.to
  BY DEF Paramodulants
<1>2. /\ p.to \subseteq Lit
      /\ \A w \in Sat[p.from] \cap Sat[p.into] : \E l \in p.to : w \in Sat[l]
  BY InferenceAssumption DEF Clause
<1> QED
  BY <1>1, <1>2 DEF Holds, Clause

LEMMA EqFactorSound ==
    ASSUME NEW v \in Val, NEW c \in Clause, Holds(v, c), NEW e \in EqFactors(c)
    PROVE  e \in Clause /\ Holds(v, e)
<1>1. PICK f \in Factors : /\ f.other \in c \ {f.lit}
                           /\ e = (c \ {f.lit}) \cup f.to
  BY DEF EqFactors
<1>2. /\ f.to \subseteq Lit
      /\ \A w \in Sat[f.lit] : w \in Sat[f.other] \/ \E l \in f.to : w \in Sat[l]
  BY InferenceAssumption DEF Clause
<1> QED
  BY <1>1, <1>2 DEF Holds, Clause

LEMMA EqResolventSound ==
    ASSUME NEW v \in Val, NEW c \in Clause, Holds(v, c), NEW e \in EqResolvents(c)
    PROVE  e \in Clause /\ Holds(v, e)
BY SatAssumption DEF EqResolvents, Holds, Clause

(* Destructive equality resolution drops literals that never hold. *)
LEMMA VarLitsSound ==
    ASSUME NEW v, NEW c \in Clause
    PROVE  Holds(v, c) <=> Holds(v, c \ VarLits)
BY SatAssumption, LitAssumption DEF Holds

(* A trivial clause and a tautology hold everywhere. *)
LEMMA TrivialHolds ==
    ASSUME NEW v \in Val, NEW c \in Clause, IsTrivial(c) \/ IsTautology(c)
    PROVE  Holds(v, c)
<1>1. CASE Top \in c
  BY <1>1, SatAssumption DEF Holds
<1>2. ASSUME NEW l \in c, NEW k \in c, Sat[l] \cup Sat[k] = Val
      PROVE  Holds(v, c)
  BY <1>2 DEF Holds
<1>3. CASE IsTautology(c)
  BY <1>3 DEF IsTautology, Holds
<1> QED
  BY <1>1, <1>2, <1>3 DEF IsTrivial

----------------------------------------------------------------------------
(* Types *)

(* TypeOK with what makes it inductive: finitely many ids, the parents of  *)
(* the clause at hand, no clause at hand between the loops, and a pending  *)
(* part that is empty outside ForwardContractSet.                          *)
Between == {"saturate", "generate", "insert_new", "cleanup", "contract",
            "delete_bad", "sat_check"}

TypeInv ==
    /\ TypeOK
    /\ IsFiniteSet(DOMAIN store)
    /\ cur # NoClause => cur.parents \subseteq DOMAIN store
    /\ pc \notin {"filter", "report", "done"} => pending = {}
    /\ pc \in Between => cur = NoClause

----------------------------------------------------------------------------
(* Clause cells *)

LEMMA NewCell ==
    ASSUME NEW c \in Clause, NEW ps \in SUBSET (Nat \ {0})
    PROVE  /\ NewClause(c, ps) \in ClauseCell
           /\ NewClause(c, ps).lits = c
           /\ NewClause(c, ps).parents = ps
           /\ NewClause(c, ps).victim = FALSE
BY DEF NewClause, ClauseCell

LEMMA NoCell == NoClause \notin ClauseCell
BY DEF NoClause, ClauseCell

(* The copies of victims quote their originals: they have no parents. *)
LEMMA CopyCell ==
    ASSUME TypeInv, NEW I \in SUBSET DOMAIN store, NEW c \in Copies(I)
    PROVE  /\ c \in ClauseCell /\ c.parents = {} /\ c.lim = TRUE
           /\ c.victim = FALSE
           /\ \E i \in I : c.lits = store[i].lits
<1>1. PICK i \in I : c = [lits |-> store[i].lits, parents |-> {}, lim |-> TRUE,
                         victim |-> FALSE]
  BY DEF Copies
<1>2. store[i].lits \in Clause
  BY DEF TypeInv, TypeOK
<1> QED
  BY <1>1, <1>2 DEF ClauseCell

LEMMA CopyOf ==
    ASSUME NEW I, NEW i \in I
    PROVE  \E c \in Copies(I) : c.lits = store[i].lits
<1> DEFINE c == [lits |-> store[i].lits, parents |-> {}, lim |-> TRUE, victim |-> FALSE]
<1> c \in Copies(I) /\ c.lits = store[i].lits
  BY DEF Copies
<1> QED
  OBVIOUS

LEMMA CutType ==
    ASSUME NEW c \in ClauseCell, NEW l
    PROVE  /\ Cut(c, l) \in ClauseCell
           /\ Cut(c, l).lits = c.lits \ {l}
           /\ Cut(c, l).parents = c.parents
           /\ Cut(c, l).victim = c.victim
BY DEF Cut, ClauseCell, Clause

(* One simplification keeps the derivation of the clause. *)
LEMMA ModifyType ==
    ASSUME TypeInv, NEW c \in ClauseCell, NEW level, NEW n \in ModifySteps(c, level)
    PROVE  n \in ClauseCell /\ n.parents = c.parents /\ n.victim = c.victim
<1>1. CASE n \in RewriteSteps(c, level)
  <2>1. PICK r \in Rewrites :
          n = [c EXCEPT
                 !.lits = (c.lits \ {r.from}) \cup r.to,
                 !.lim  = /\ c.lim
                          /\ ~(r.side = "max" /\ r.from \in Positive
                                              /\ Maximal(r.from, c.lits))
                          /\ ~(r.to \subseteq c.lits \ {r.from})]
    BY <1>1 DEF RewriteSteps
  <2>2. r.to \in Clause
    BY RewritesAssumption
  <2> QED
    BY <2>1, <2>2 DEF ClauseCell, Clause
<1>2. CASE n \in CondenseSteps(c)
  BY <1>2 DEF CondenseSteps, ClauseCell, Clause
<1>3. CASE n \in CutSteps(c)
  BY <1>3, CutType DEF CutSteps
<1> QED
  BY <1>1, <1>2, <1>3 DEF ModifySteps

LEMMA ContextType ==
    ASSUME TypeInv, NEW c \in ClauseCell, NEW n \in ContextSteps(c)
    PROVE  n \in ClauseCell /\ n.parents = c.parents /\ n.victim = c.victim
BY CutType DEF ContextSteps

LEMMA ResolvedType ==
    ASSUME NEW c \in ClauseCell
    PROVE  /\ Resolved(c) \in ClauseCell /\ Resolved(c).parents = c.parents
           /\ Resolved(c).victim = c.victim /\ Resolved(c).lits = c.lits \ VarLits
BY DEF Resolved, ClauseCell, Clause

----------------------------------------------------------------------------
(* Simplification with the processed clauses, in an interpretation v in    *)
(* which these hold                                                        *)

ProcessedHold(v) == \A d \in LitsIn(ProcSets) : Holds(v, d)

LEMMA LitsInMonotone ==
    ASSUME NEW S, NEW T, S \subseteq T
    PROVE  LitsIn(S) \subseteq LitsIn(T)
BY DEF LitsIn, In

LEMMA LitsInClause ==
    ASSUME TypeInv, NEW S
    PROVE  LitsIn(S) \subseteq Clause
BY DEF LitsIn, In, TypeInv, TypeOK

LEMMA ModifySound ==
    ASSUME TypeInv, NEW v \in Val, ProcessedHold(v),
           NEW c \in ClauseCell, NEW level, NEW n \in ModifySteps(c, level)
    PROVE  Holds(v, c.lits) <=> Holds(v, n.lits)
<1>0. c.lits \in Clause
  BY DEF ClauseCell
<1>1. CASE n \in RewriteSteps(c, level)
  <2>1. PICK r \in Rewrites :
          /\ {r.rule} \in Demods(level)
          /\ r.from \in c.lits
          /\ n.lits = (c.lits \ {r.from}) \cup r.to
    BY <1>1 DEF RewriteSteps, Rewritable, ClauseCell
  <2>2. Demods(level) \subseteq LitsIn(ProcSets)
    BY DEF Demods, LitsIn, In, ProcSets, DemodSets
  <2>3. Holds(v, {r.rule})
    BY <2>1, <2>2 DEF ProcessedHold
  <2> QED
    BY <1>0, <2>1, <2>3, RewriteSound
<1>2. CASE n \in CondenseSteps(c)
  <2>1. PICK l \in c.lits : /\ \E k \in c.lits \ {l} : <<l, k>> \in Covers
                            /\ n.lits = c.lits \ {l}
    BY <1>2 DEF CondenseSteps, ClauseCell
  <2> QED
    BY <1>0, <2>1, CondenseSound
<1>3. CASE n \in CutSteps(c)
  <2>1. PICK l \in c.lits :
          /\ n = Cut(c, l)
          /\ \E u \in Lit :
               /\ <<u, l>> \in Cuts
               /\ {u} \in LitsIn(IF l \in Positive THEN {"processed_neg_units"}
                                                 ELSE {"processed_pos_eqns"})
    BY <1>3 DEF CutSteps
  <2>2. PICK u \in Lit : <<u, l>> \in Cuts /\ {u} \in LitsIn(ProcSets)
    BY <2>1, LitsInMonotone DEF ProcSets, DemodSets
  <2> QED
    BY <1>0, <2>1, <2>2, CutType, CutSound DEF ProcessedHold
<1> QED
  BY <1>1, <1>2, <1>3 DEF ModifySteps

LEMMA ContextSound ==
    ASSUME TypeInv, NEW v \in Val, ProcessedHold(v),
           NEW c \in ClauseCell, NEW n \in ContextSteps(c)
    PROVE  Holds(v, c.lits) <=> Holds(v, n.lits)
<1>1. PICK l \in c.lits, d \in LitsIn({"processed_non_units"}) :
        ContextCuts(d, c.lits, l) /\ n.lits = c.lits \ {l}
  BY CutType DEF ContextSteps
<1>2. d \in Clause /\ Holds(v, d) /\ c.lits \in Clause
  BY LitsInClause, LitsInMonotone DEF ProcessedHold, ProcSets, ClauseCell
<1> QED
  BY <1>1, <1>2, ContextCutSound

LEMMA SubsumedHolds ==
    ASSUME TypeInv, NEW v \in Val, ProcessedHold(v),
           NEW c \in Clause, NEW b, ForwardSubsumed(c, b)
    PROVE  Holds(v, c)
<1>1. PICK d \in LitsIn(ProcSets) : Subsumes(d, c)
  BY LitsInMonotone DEF ForwardSubsumed, ProcSets, DemodSets
<1> QED
  BY <1>1, SubsumptionSound, LitsInClause DEF ProcessedHold

LEMMA RedundantHolds ==
    ASSUME TypeInv, NEW v \in Val, ProcessedHold(v),
           NEW c \in Clause, NEW b, Redundant(c, b)
    PROVE  Holds(v, c)
BY TrivialHolds, SubsumedHolds DEF Redundant

----------------------------------------------------------------------------
(* Type correctness *)

LEMMA BuryType ==
    ASSUME TypeInv, NEW I, store' = Bury(I)
    PROVE  /\ DOMAIN store' = DOMAIN store
           /\ \A i \in DOMAIN store :
                /\ store'[i] \in [lits : Clause, set : ProcSets \cup {"archive"},
                                  dead : BOOLEAN]
                /\ store'[i].lits = store[i].lits
                /\ i \notin I => store'[i] = store[i]
BY DEF TypeInv, TypeOK, Bury

(* Backward simplification finds its victims among the stored clauses. *)
LEMMA VictimsStored ==
    ASSUME NEW c
    PROVE  /\ BackRewritable(c) \subseteq Processed
           /\ BackSubsumed(c) \subseteq Processed
           /\ UnitSimplified(c) \subseteq Processed
           /\ ContextSimplified(c) \subseteq Processed
           /\ Processed \subseteq DOMAIN store
BY DEF BackRewritable, BackSubsumed, UnitSimplified, ContextSimplified, Processed,
       In, ProcSets, DemodSets

LEMMA CopiesType ==
    ASSUME TypeInv, NEW I \in SUBSET DOMAIN store
    PROVE  /\ tmp_store \cup Copies(I) \subseteq ClauseCell
           /\ \A c \in tmp_store \cup Copies(I) : c.parents \subseteq DOMAIN store
BY CopyCell DEF TypeInv, TypeOK

LEMMA GeneratedType ==
    ASSUME TypeInv, given \in DOMAIN store, NEW c \in Generated(given)
    PROVE  c \in ClauseCell /\ c.parents \subseteq DOMAIN store /\ c.victim = FALSE
<1>1. store[given].lits \in Clause /\ given \in Nat \ {0}
  BY DEF TypeInv, TypeOK
<1>2. CASE \E d \in EqResolvents(store[given].lits) \cup EqFactors(store[given].lits) :
             c = NewClause(d, {given})
  <2>1. PICK d \in EqResolvents(store[given].lits) \cup EqFactors(store[given].lits) :
          c = NewClause(d, {given})
    BY <1>2
  <2>2. d \in Clause
    BY <1>1, <2>1, InferenceAssumption DEF EqResolvents, EqFactors, Clause
  <2>3. {given} \in SUBSET (Nat \ {0})
    BY <1>1
  <2>4. /\ NewClause(d, {given}) \in ClauseCell
        /\ NewClause(d, {given}).parents = {given}
        /\ NewClause(d, {given}).victim = FALSE
    BY ONLY <2>2, <2>3, NewCell
  <2> QED
    BY <2>1, <2>4
<1>3. CASE \E i \in ParamodPartners(store[given].lits) :
             \E d \in Paramodulants(store[given].lits, store[i].lits) \cup
                     Paramodulants(store[i].lits, store[given].lits) :
                c = NewClause(d, {given, i})
  <2>0. PICK i \in ParamodPartners(store[given].lits) :
          \E d \in Paramodulants(store[given].lits, store[i].lits) \cup
                  Paramodulants(store[i].lits, store[given].lits) :
             c = NewClause(d, {given, i})
    BY <1>3
  <2>1. PICK d \in Paramodulants(store[given].lits, store[i].lits) \cup
                  Paramodulants(store[i].lits, store[given].lits) :
          c = NewClause(d, {given, i})
    BY <2>0
  <2>2. i \in DOMAIN store
    BY DEF ParamodPartners, In
  <2>3. store[i].lits \in Clause /\ i \in Nat \ {0}
    BY <2>2 DEF TypeInv, TypeOK
  <2>4. d \in Clause
    BY <1>1, <2>1, <2>3, InferenceAssumption DEF Paramodulants, Clause
  <2>5. {given, i} \in SUBSET (Nat \ {0})
    BY <1>1, <2>3
  <2>6. /\ NewClause(d, {given, i}) \in ClauseCell
        /\ NewClause(d, {given, i}).parents = {given, i}
        /\ NewClause(d, {given, i}).victim = FALSE
    BY ONLY <2>4, <2>5, NewCell
  <2> QED
    BY <2>1, <2>2, <2>6
<1> QED
  BY <1>2, <1>3 DEF Generated

LEMMA FreshIdType ==
    ASSUME TypeInv
    PROVE  FreshId \in Nat \ {0} /\ FreshId \notin Referenced
<1>1. Processed \subseteq DOMAIN store
  BY DEF Processed
<1>2. \A c \in unprocessed \cup tmp_store \cup eval_store : c.parents \subseteq DOMAIN store
  BY DEF TypeInv, TypeOK
<1>3. Referenced \subseteq DOMAIN store \cup {0}
  BY <1>1, <1>2 DEF Referenced, TypeInv, NoClause
<1>4. IsFiniteSet(Referenced)
  BY <1>3, FS_Subset, FS_AddElement DEF TypeInv
<1>5. Cardinality(Referenced) \in Nat
  BY <1>4, FS_CardinalityType
<1> DEFINE n == Cardinality(Referenced) + 1
<1>6. \E i \in 1..n : i \notin Referenced
  <2> SUFFICES ASSUME 1..n \subseteq Referenced PROVE FALSE
    OBVIOUS
  <2>1. Cardinality(1..n) <= Cardinality(Referenced)
    BY <1>4, FS_Subset
  <2>2. Cardinality(1..n) = n
    BY <1>5, FS_Interval
  <2> QED
    BY <1>5, <2>1, <2>2
<1>7. FreshId \in 1..n /\ FreshId \notin Referenced
  BY <1>6 DEF FreshId
<1> QED
  BY <1>5, <1>7

LEMMA TypeStep ==
    ASSUME TypeInv, [Next]_vars
    PROVE  TypeInv'
<1> USE NoCell DEF TypeInv, TypeOK, stores, input, InProcessing, Between, Goto
<1>1. CASE SelectClause
  BY <1>1 DEF SelectClause
<1>2. CASE ForwardModifyClause
  BY <1>2, ModifyType DEF ForwardModifyClause
<1>3. CASE ForwardContractClause
  BY <1>3 DEF ForwardContractClause, Refuted
<1>4. CASE ForwardContextSR
  BY <1>4, ContextType DEF ForwardContextSR
<1>5. CASE ReplacingInferences
  BY <1>5, ResolvedType DEF ReplacingInferences
<1>6. CASE EliminateBackwardRewritten
  <2>1. BackRewritable(cur.lits) \subseteq DOMAIN store
    BY VictimsStored
  <2>2. store' = Bury(BackRewritable(cur.lits))
    BY <1>6 DEF EliminateBackwardRewritten, MoveSimplified
  <2>3. /\ tmp_store' \subseteq ClauseCell
        /\ \A c \in tmp_store' : c.parents \subseteq DOMAIN store
    BY <1>6, <2>1, CopiesType DEF EliminateBackwardRewritten, MoveSimplified
  <2> QED
    BY <1>6, <2>2, <2>3, BuryType DEF EliminateBackwardRewritten, BackUnchanged
<1>7. CASE EliminateBackwardSubsumed
  BY <1>7, BuryType DEF EliminateBackwardSubsumed, BackUnchanged
<1>8. CASE EliminateUnitSimplified
  <2>1. UnitSimplified(cur.lits) \subseteq DOMAIN store
    BY VictimsStored
  <2>2. store' = Bury(UnitSimplified(cur.lits))
    BY <1>8 DEF EliminateUnitSimplified, MoveSimplified
  <2>3. /\ tmp_store' \subseteq ClauseCell
        /\ \A c \in tmp_store' : c.parents \subseteq DOMAIN store
    BY <1>8, <2>1, CopiesType DEF EliminateUnitSimplified, MoveSimplified
  <2> QED
    BY <1>8, <2>2, <2>3, BuryType DEF EliminateUnitSimplified, BackUnchanged
<1>9. CASE EliminateContextSR
  <2>1. ContextSimplified(cur.lits) \subseteq DOMAIN store
    BY VictimsStored
  <2>2. store' = Bury(ContextSimplified(cur.lits))
    BY <1>9 DEF EliminateContextSR
  <2>3. \A c \in ClauseCell : /\ [c EXCEPT !.victim = TRUE] \in ClauseCell
                             /\ [c EXCEPT !.victim = TRUE].parents = c.parents
    BY DEF ClauseCell
  <2>4. \A c \in tmp_store' : \E d \in tmp_store \cup Copies(ContextSimplified(cur.lits)) :
           c = [d EXCEPT !.victim = TRUE]
    BY <1>9 DEF EliminateContextSR
  <2>5. /\ tmp_store' \subseteq ClauseCell
        /\ \A c \in tmp_store' : c.parents \subseteq DOMAIN store
    <3> DEFINE before == tmp_store \cup Copies(ContextSimplified(cur.lits))
    <3>1. /\ before \subseteq ClauseCell
          /\ \A d \in before : d.parents \subseteq DOMAIN store
      BY <2>1, CopiesType
    <3> HIDE DEF before
    <3>2. \A c \in tmp_store' : \E d \in before : c = [d EXCEPT !.victim = TRUE]
      BY <2>4 DEF before
    <3>3. ASSUME NEW c \in tmp_store'
          PROVE  c \in ClauseCell /\ c.parents \subseteq DOMAIN store
      <4>1. PICK d \in before : c = [d EXCEPT !.victim = TRUE]
        BY <3>2
      <4>2. d \in ClauseCell /\ d.parents \subseteq DOMAIN store
        BY <3>1
      <4>3. [d EXCEPT !.victim = TRUE] \in ClauseCell /\ [d EXCEPT !.victim = TRUE].parents = d.parents
        BY ONLY <2>3, <4>2
      <4> QED
        BY ONLY <4>1, <4>2, <4>3
    <3> QED
      BY ONLY <3>3
  <2> QED
    BY <1>9, <2>2, <2>5, BuryType DEF EliminateContextSR, BackUnchanged
<1>10. CASE InsertGiven
  <2>1. given' \in Nat \ {0} /\ DOMAIN store' = (Referenced \cap DOMAIN store) \cup {given'}
    BY <1>10, FreshIdType DEF InsertGiven
  <2>2. IsFiniteSet(DOMAIN store')
    <3>1. IsFiniteSet(Referenced \cap DOMAIN store)
      BY FS_Subset
    <3>2. IsFiniteSet((Referenced \cap DOMAIN store) \cup {given'})
      BY ONLY <3>1, FS_AddElement
    <3> QED
      BY ONLY <2>1, <3>2
  <2>3. cur \in ClauseCell /\ cur.lits \in Clause /\ pending = {}
    BY <1>10 DEF InsertGiven, ClauseCell
  <2>4. \A i \in DOMAIN store' :
          store'[i] \in [lits : Clause, set : ProcSets \cup {"archive"}, dead : BOOLEAN]
    BY <1>10, <2>1, <2>3 DEF InsertGiven, ProcessedSetOf, ProcSets, DemodSets
  <2>5. \A c \in unprocessed \cup tmp_store \cup eval_store : c.parents \subseteq DOMAIN store'
    BY <2>1 DEF Referenced
  <2> QED
    BY <1>10, <2>1, <2>2, <2>3, <2>4, <2>5 DEF InsertGiven
<1>11. CASE GenerateNewClauses
  BY <1>11, GeneratedType DEF GenerateNewClauses
<1>12. CASE TakeNewClause
  BY <1>12 DEF TakeNewClause
<1>13. CASE ModifiedVictim
  BY <1>13 DEF ModifiedVictim, Modified, ClauseCell
<1>14. CASE ModifiedNewClause
  <2>1. cur \in ClauseCell /\ cur.parents \subseteq DOMAIN store
    BY <1>14 DEF ModifiedNewClause, Modified
  <2>2. Resolved(cur) \in ClauseCell /\ Resolved(cur).parents \subseteq DOMAIN store
    BY <2>1, ResolvedType
  <2>3. /\ tmp_store' \in {tmp_store, tmp_store \cup {Resolved(cur)}}
        /\ eval_store' \in {eval_store, eval_store \cup {cur}}
        /\ extract_roots' \in {extract_roots, extract_roots \cup {{}}}
        /\ pc' \in {"insert_new", "report"} /\ pc = "modify"
        /\ cur' = NoClause
    BY <1>14 DEF ModifiedNewClause, Refuted
  <2> QED
    BY <1>14, <2>1, <2>2, <2>3 DEF ModifiedNewClause
<1>15. CASE EvaluateNewClauses
  BY <1>15 DEF EvaluateNewClauses
<1>16. CASE DeleteOrphans
  BY <1>16 DEF DeleteOrphans
<1>17. CASE StartContraction
  BY <1>17 DEF StartContraction
<1>18. CASE TakePending
  BY <1>18 DEF TakePending
<1>19. CASE ContractedPending
  <2>1. /\ unprocessed' \in {unprocessed, unprocessed \cup {cur}}
        /\ extract_roots' \in {extract_roots, extract_roots \cup {{}}}
        /\ pc = "filter" /\ pc' \in {"filter", "report"}
        /\ cur \in ClauseCell /\ cur.parents \subseteq DOMAIN store
        /\ cur' = NoClause
    BY <1>19 DEF ContractedPending, Refuted, Modified
  <2> QED
    BY <1>19, <2>1 DEF ContractedPending
<1>20. CASE EndContraction
  BY <1>20 DEF EndContraction
<1>21. CASE DeleteBadClauses
  BY <1>21 DEF DeleteBadClauses, StillComplete
<1>22. CASE SATCheck
  <2>0. NewClause({}, {}).lits = {}
    BY DEF NewClause
  <2>1. /\ extract_roots' \in {extract_roots, extract_roots \cup {{}}}
        /\ pc' \in {"saturate", "report"}
    BY <1>22, <2>0 DEF SATCheck, Refuted
  <2> QED
    BY <1>22, <2>1 DEF SATCheck
<1>23. CASE EndPresaturation
  <2>1. /\ DOMAIN store' = DOMAIN store
        /\ \A i \in DOMAIN store :
             store'[i] \in [lits : Clause, set : ProcSets \cup {"archive"}, dead : BOOLEAN]
    BY <1>23 DEF EndPresaturation
  <2>2. /\ unprocessed' \subseteq ClauseCell
        /\ \A c \in unprocessed' : c.parents \subseteq DOMAIN store
    BY <1>23, VictimsStored, CopyCell DEF EndPresaturation
  <2> QED
    BY <1>23, <2>1, <2>2 DEF EndPresaturation, SaturateReturns
<1>24. CASE EndSaturation
  BY <1>24 DEF EndSaturation, SaturateReturns
<1>25. CASE Report
  BY <1>25 DEF Report
<1>26. CASE Done \/ UNCHANGED vars
  BY <1>26 DEF Done, vars
<1> QED
  BY <1>1, <1>2, <1>3, <1>4, <1>5, <1>6, <1>7, <1>8, <1>9, <1>10, <1>11, <1>12,
     <1>13, <1>14, <1>15, <1>16, <1>17, <1>18, <1>19, <1>20, <1>21, <1>22, <1>23,
     <1>24, <1>25, <1>26 DEF Next

(* Type correctness of the initial state and of the whole specification. *)
LEMMA TypeInit ==
    ASSUME Init
    PROVE  TypeInv
<1>1. IsFiniteSet(DOMAIN store)
  BY FS_EmptySet DEF Init
<1>2. axioms \subseteq Clause
  BY ProblemsAssumption DEF Init
<1>3. unprocessed \subseteq ClauseCell /\ \A c \in unprocessed : c.parents = {}
  <2>1. ASSUME NEW c \in unprocessed
        PROVE  c \in ClauseCell /\ c.parents = {}
    <3>1. PICK a \in Clause : c = NewClause(a, {})
      BY <1>2 DEF Init
    <3>2. {} \in SUBSET (Nat \ {0})
      OBVIOUS
    <3> QED
      BY ONLY <3>1, <3>2, NewCell
  <2> QED
    BY <2>1
<1> QED
  BY <1>1, <1>2, <1>3, NoCell DEF Init, TypeInv, TypeOK, InProcessing, Between

(* In every run every variable keeps its type; no derivation ever names a  *)
(* clause that was freed (ClauseIsOrphaned would read it).                 *)
THEOREM TypeCorrect == Spec => []TypeOK
<1>1. Init => TypeInv
  BY TypeInit
<1>2. TypeInv /\ [Next]_vars => TypeInv'
  BY TypeStep
<1>3. TypeInv => TypeOK
  BY DEF TypeInv
<1> QED
  BY <1>1, <1>2, <1>3, PTL DEF Spec

----------------------------------------------------------------------------
(* Soundness: in an interpretation in which everything held holds,         *)
(* everything held after the next step holds.                              *)

AllHold(v) ==
    /\ \A i \in DOMAIN store : Holds(v, store[i].lits)
    /\ \A c \in Waiting : Holds(v, c.lits)
    /\ cur # NoClause => Holds(v, cur.lits)
    /\ \A c \in extract_roots : Holds(v, c)

LEMMA GeneratedSound ==
    ASSUME TypeInv, given \in DOMAIN store, NEW v \in Val,
           \A i \in DOMAIN store : Holds(v, store[i].lits),
           NEW c \in Generated(given)
    PROVE  Holds(v, c.lits)
<1>1. \A i \in DOMAIN store : store[i].lits \in Clause
  BY DEF TypeInv, TypeOK
<1>2. CASE \E d \in EqResolvents(store[given].lits) \cup EqFactors(store[given].lits) :
             c = NewClause(d, {given})
  <2>1. PICK d \in EqResolvents(store[given].lits) \cup EqFactors(store[given].lits) :
          c = NewClause(d, {given})
    BY <1>2
  <2>2. Holds(v, d)
    BY <1>1, EqResolventSound, EqFactorSound
  <2> QED
    BY <2>1, <2>2 DEF NewClause
<1>3. CASE \E i \in ParamodPartners(store[given].lits) :
             \E d \in Paramodulants(store[given].lits, store[i].lits) \cup
                     Paramodulants(store[i].lits, store[given].lits) :
                c = NewClause(d, {given, i})
  <2>1. PICK i \in ParamodPartners(store[given].lits) :
          \E d \in Paramodulants(store[given].lits, store[i].lits) \cup
                  Paramodulants(store[i].lits, store[given].lits) :
             c = NewClause(d, {given, i})
    BY <1>3
  <2>2. PICK d \in Paramodulants(store[given].lits, store[i].lits) \cup
                  Paramodulants(store[i].lits, store[given].lits) :
          c = NewClause(d, {given, i})
    BY <2>1
  <2>3. i \in DOMAIN store
    BY DEF ParamodPartners, In
  <2>4. Holds(v, d)
    BY <1>1, <2>3, ParamodulantSound
  <2> QED
    BY <2>2, <2>4 DEF NewClause
<1> QED
  BY <1>2, <1>3 DEF Generated

LEMMA BurySound ==
    ASSUME TypeInv, NEW v \in Val, AllHold(v), NEW I \in SUBSET DOMAIN store
    PROVE  /\ store' = Bury(I) =>
                \A i \in DOMAIN store' : Holds(v, store'[i].lits)
           /\ \A c \in tmp_store \cup Copies(I) : Holds(v, c.lits)
<1>1. ASSUME NEW c \in Copies(I)
      PROVE  Holds(v, c.lits)
  <2>1. PICK i \in I : c.lits = store[i].lits
    BY CopyCell
  <2> QED
    BY <2>1 DEF AllHold
<1>2. ASSUME store' = Bury(I)
      PROVE  \A i \in DOMAIN store' : Holds(v, store'[i].lits)
  BY <1>2, BuryType DEF AllHold
<1>3. \A c \in tmp_store : Holds(v, c.lits)
  BY DEF AllHold, Waiting
<1> QED
  BY <1>1, <1>2, <1>3

LEMMA SoundStep ==
    ASSUME TypeInv, [Next]_vars, NEW v \in Val, AllHold(v)
    PROVE  AllHold(v)'
<1> USE DEF AllHold, Waiting, stores, input, Goto
<1>a. ProcessedHold(v)
  BY DEF ProcessedHold, LitsIn, In
<1>b. cur # NoClause => cur \in ClauseCell /\ cur.lits \in Clause
  BY DEF TypeInv, TypeOK, ClauseCell
<1>1. CASE SelectClause
  BY <1>1 DEF SelectClause
<1>2. CASE ForwardModifyClause
  BY <1>2, <1>a, <1>b, ModifySound DEF ForwardModifyClause
<1>3. CASE ForwardContractClause
  BY <1>3 DEF ForwardContractClause, Refuted, Modified
<1>4. CASE ForwardContextSR
  BY <1>4, <1>a, <1>b, ContextSound DEF ForwardContextSR, TypeInv, TypeOK, InProcessing
<1>5. CASE ReplacingInferences
  BY <1>5, <1>b, ResolvedType, VarLitsSound DEF ReplacingInferences, TypeInv, TypeOK, InProcessing
<1>6. CASE EliminateBackwardRewritten
  <2> BackRewritable(cur.lits) \subseteq DOMAIN store
    BY VictimsStored
  <2> QED
    BY <1>6, BurySound DEF EliminateBackwardRewritten, MoveSimplified, BackUnchanged
<1>7. CASE EliminateBackwardSubsumed
  BY <1>7, BuryType DEF EliminateBackwardSubsumed, BackUnchanged
<1>8. CASE EliminateUnitSimplified
  <2> UnitSimplified(cur.lits) \subseteq DOMAIN store
    BY VictimsStored
  <2> QED
    BY <1>8, BurySound DEF EliminateUnitSimplified, MoveSimplified, BackUnchanged
<1>9. CASE EliminateContextSR
  <2> DEFINE before == tmp_store \cup Copies(ContextSimplified(cur.lits))
  <2>1. ContextSimplified(cur.lits) \subseteq DOMAIN store
    BY VictimsStored
  <2>2. \A c \in before : c \in ClauseCell /\ Holds(v, c.lits)
    BY <2>1, BurySound, CopiesType
  <2>3. store' = Bury(ContextSimplified(cur.lits))
    BY <1>9 DEF EliminateContextSR
  <2>4. \A i \in DOMAIN store' : Holds(v, store'[i].lits)
    BY <2>1, <2>3, BurySound
  <2>5. \A c \in tmp_store' : \E d \in before : c = [d EXCEPT !.victim = TRUE]
    BY <1>9 DEF EliminateContextSR
  <2>6. \A d \in ClauseCell : [d EXCEPT !.victim = TRUE].lits = d.lits
    BY DEF ClauseCell
  <2> HIDE DEF before
  <2>7. \A c \in tmp_store' : Holds(v, c.lits)
    BY ONLY <2>2, <2>5, <2>6
  <2> QED
    BY <1>9, <2>4, <2>7 DEF EliminateContextSR, BackUnchanged
<1>10. CASE InsertGiven
  BY <1>10 DEF InsertGiven, TypeInv, TypeOK, InProcessing
<1>11. CASE GenerateNewClauses
  BY <1>11, GeneratedSound DEF GenerateNewClauses, TypeInv, TypeOK
<1>12. CASE TakeNewClause
  BY <1>12 DEF TakeNewClause
<1>13. CASE ModifiedVictim
  BY <1>13, <1>b DEF ModifiedVictim, Modified, ClauseCell
<1>14. CASE ModifiedNewClause
  <2>1. cur \in ClauseCell /\ cur.lits \in Clause /\ Holds(v, cur.lits)
    BY <1>14, <1>b DEF ModifiedNewClause, Modified
  <2>2. Holds(v, Resolved(cur).lits)
    BY <2>1, ResolvedType, VarLitsSound
  <2>3. /\ tmp_store' \in {tmp_store, tmp_store \cup {Resolved(cur)}}
        /\ eval_store' \in {eval_store, eval_store \cup {cur}}
        /\ extract_roots' \in {extract_roots, extract_roots \cup {cur.lits}}
        /\ cur' = NoClause
    BY <1>14 DEF ModifiedNewClause, Refuted
  <2> QED
    BY <1>14, <2>1, <2>2, <2>3 DEF ModifiedNewClause
<1>15. CASE EvaluateNewClauses
  BY <1>15 DEF EvaluateNewClauses
<1>16. CASE DeleteOrphans
  BY <1>16 DEF DeleteOrphans
<1>17. CASE StartContraction
  BY <1>17 DEF StartContraction
<1>18. CASE TakePending
  BY <1>18 DEF TakePending
<1>19. CASE ContractedPending
  BY <1>19 DEF ContractedPending, Refuted, Modified
<1>20. CASE EndContraction
  BY <1>20 DEF EndContraction
<1>21. CASE DeleteBadClauses
  BY <1>21 DEF DeleteBadClauses
<1>22. CASE SATCheck
  BY <1>22, <1>a DEF SATCheck, Refuted, Models, ProcessedHold
<1>23. CASE EndPresaturation
  <2> Processed \subseteq DOMAIN store
    BY VictimsStored
  <2>1. \A c \in unprocessed' : Holds(v, c.lits)
    BY <1>23, BurySound DEF EndPresaturation
  <2>2. \A i \in DOMAIN store' : i \in DOMAIN store /\ store'[i].lits = store[i].lits
    BY <1>23 DEF EndPresaturation, TypeInv, TypeOK
  <2> QED
    BY <1>23, <2>1, <2>2 DEF EndPresaturation, SaturateReturns
<1>24. CASE EndSaturation
  BY <1>24 DEF EndSaturation, SaturateReturns
<1>25. CASE Report
  BY <1>25 DEF Report
<1>26. CASE Done \/ UNCHANGED vars
  BY <1>26 DEF Done, vars
<1> QED
  BY <1>1, <1>2, <1>3, <1>4, <1>5, <1>6, <1>7, <1>8, <1>9, <1>10, <1>11, <1>12,
     <1>13, <1>14, <1>15, <1>16, <1>17, <1>18, <1>19, <1>20, <1>21, <1>22, <1>23,
     <1>24, <1>25, <1>26 DEF Next

LEMMA HeldModels ==
    ASSUME NEW v \in Val
    PROVE  v \in Models(Held) <=> AllHold(v)
BY DEF Models, Held, AllHold, Waiting, AtHand

LEMMA InputFixed ==
    ASSUME [Next]_vars
    PROVE  axioms' = axioms /\ parms' = parms
BY DEF Next, vars, input, SelectClause, ForwardModifyClause, ForwardContractClause,
       ForwardContextSR, ReplacingInferences, EliminateBackwardRewritten,
       EliminateBackwardSubsumed, EliminateUnitSimplified, EliminateContextSR,
       BackUnchanged, InsertGiven, GenerateNewClauses, TakeNewClause, ModifiedVictim,
       ModifiedNewClause, EvaluateNewClauses, DeleteOrphans, StartContraction,
       TakePending, ContractedPending, EndContraction, DeleteBadClauses, SATCheck,
       EndPresaturation, EndSaturation, Report, Done

LEMMA SoundInit ==
    ASSUME Init
    PROVE  Sound
<1>1. \A c \in Held : c \in axioms
  <2>1. DOMAIN store = {} /\ extract_roots = {} /\ cur = NoClause
    BY DEF Init
  <2>2. Held = {c.lits : c \in unprocessed}
    BY <2>1 DEF Init, Held, Waiting, AtHand
  <2> QED
    BY <2>2 DEF Init, NewClause
<1> QED
  BY <1>1, ModelsMonotone DEF Sound

LEMMA SoundInductive ==
    ASSUME TypeInv, Sound, [Next]_vars
    PROVE  Sound'
<1> SUFFICES ASSUME NEW v \in Models(axioms)
             PROVE  v \in Models(Held)'
  BY InputFixed DEF Sound
<1>1. v \in Val /\ v \in Models(Held)
  BY DEF Sound, Models
<1>2. AllHold(v)
  BY <1>1, HeldModels
<1>3. AllHold(v)'
  BY <1>1, <1>2, SoundStep
<1> QED
  BY <1>1, <1>3 DEF Models, Held, AllHold, Waiting, AtHand

(* Whatever sequence of given clauses, simplifications and deletions the   *)
(* heuristics choose, the prover holds consequences of the axioms only     *)
(* (ProcessClause and everything it calls).                                *)
THEOREM Soundness == Spec => []Sound
<1>1. Init => TypeInv /\ Sound
  BY TypeInit, SoundInit
<1>2. TypeInv /\ Sound /\ [Next]_vars => (TypeInv /\ Sound)'
  BY TypeStep, SoundInductive
<1> QED
  BY <1>1, <1>2, PTL DEF Spec

----------------------------------------------------------------------------
(* The verdict "Unsatisfiable" *)

RefutedInv == verdict = "Unsatisfiable" => extract_roots # {}

LEMMA RefutedStep ==
    ASSUME RefutedInv, [Next]_vars
    PROVE  RefutedInv'
<1>1. CASE Report
  BY <1>1 DEF Report, RefutedInv
<1>2. CASE ~Report
  <2>1. verdict' = verdict /\ extract_roots \subseteq extract_roots'
    BY <1>2 DEF Next, vars, Refuted, SelectClause, ForwardModifyClause,
       ForwardContractClause, ForwardContextSR, ReplacingInferences,
       EliminateBackwardRewritten, EliminateBackwardSubsumed,
       EliminateUnitSimplified, EliminateContextSR, BackUnchanged, InsertGiven,
       GenerateNewClauses, TakeNewClause, ModifiedVictim, ModifiedNewClause,
       EvaluateNewClauses, DeleteOrphans, StartContraction, TakePending,
       ContractedPending, EndContraction, DeleteBadClauses, SATCheck,
       EndPresaturation, EndSaturation, Done
  <2> QED
    BY <2>1 DEF RefutedInv
<1> QED
  BY <1>1, <1>2

(* When main() prints "Unsatisfiable" (eprover.c), the axioms have no model.*)
THEOREM RefutationCorrect == Spec => []UnsatisfiableIsRight
<1>1. Init => TypeInv /\ Sound /\ RefutedInv
  BY TypeInit, SoundInit DEF Init, RefutedInv
<1>2. TypeInv /\ Sound /\ RefutedInv /\ [Next]_vars
        => (TypeInv /\ Sound /\ RefutedInv)'
  BY TypeStep, SoundInductive, RefutedStep
<1>3. TypeInv /\ Sound /\ RefutedInv => UnsatisfiableIsRight
  <2> SUFFICES ASSUME TypeInv, Sound, RefutedInv, verdict = "Unsatisfiable"
               PROVE  Models(axioms) = {}
    BY DEF UnsatisfiableIsRight
  <2>1. {} \in Held
    BY DEF TypeInv, TypeOK, RefutedInv, Held
  <2>2. Models(Held) = {}
    BY <2>1 DEF Models, Holds
  <2> QED
    BY <2>2 DEF Sound
<1> QED
  BY <1>1, <1>2, <1>3, PTL DEF Spec

----------------------------------------------------------------------------
(* Nothing is lost: in an interpretation in which the lasting clauses hold *)
(* after a step, those of before hold, too.                                *)

KeptHold(v) ==
    /\ \A i \in Processed : Holds(v, store[i].lits)
    /\ \A c \in Waiting : c.parents = {} => Holds(v, c.lits)
    /\ cur # NoClause /\ (cur.parents = {} \/ pc \in Committed) => Holds(v, cur.lits)
    /\ \A c \in extract_roots : Holds(v, c)

LEMMA NothingHolds ==
    ASSUME NEW v
    PROVE  ~Holds(v, {})
BY DEF Holds

LEMMA KeptModels ==
    ASSUME NEW v \in Val
    PROVE  v \in Models(Kept) <=> KeptHold(v)
BY DEF Models, Kept, KeptHold, Lasting, AtHand, LitsIn, In, Processed

(* Burying clauses keeps what the others say, and that of the victims if   *)
(* their copies are kept.                                                  *)
LEMMA StayedHold ==
    ASSUME TypeInv, NEW v, KeptHold(v)', NEW I, store' = Bury(I),
           NEW i \in Processed, i \notin I
    PROVE  Holds(v, store[i].lits)
<1>1. i \in DOMAIN store' /\ store'[i] = store[i]
  BY BuryType DEF Processed
<1>2. i \in Processed'
  BY <1>1 DEF Processed
<1> QED
  BY <1>1, <1>2 DEF KeptHold

LEMMA BuriedHold ==
    ASSUME TypeInv, NEW v, KeptHold(v)', NEW I \in SUBSET Processed,
           store' = Bury(I),
           \A c \in tmp_store \cup Copies(I) : c.parents = {} => Holds(v, c.lits),
           NEW i \in Processed
    PROVE  Holds(v, store[i].lits)
<1>1. CASE i \in I
  <2>1. PICK c \in Copies(I) : c.lits = store[i].lits
    BY <1>1, CopyOf
  <2>2. c.parents = {}
    BY CopyCell, VictimsStored
  <2> QED
    BY <2>1, <2>2
<1>2. CASE i \notin I
  BY <1>2, StayedHold
<1> QED
  BY <1>1, <1>2

LEMMA KeptStep ==
    ASSUME TypeInv, [Next]_vars, state_is_complete', NEW v \in Val, KeptHold(v)'
    PROVE  state_is_complete /\ KeptHold(v)
<1> USE DEF Waiting, stores, input, Goto, Committed
<1>a. store' = store => /\ ProcessedHold(v)
                        /\ \A i \in Processed : Holds(v, store[i].lits)
  BY DEF KeptHold, ProcessedHold, LitsIn, In, Processed
<1>b. cur # NoClause => cur \in ClauseCell /\ cur.lits \in Clause
  BY DEF TypeInv, TypeOK, ClauseCell
<1>c. \A c \in Waiting : c \in ClauseCell /\ c.lits \in Clause /\ c # NoClause
  BY NoCell DEF TypeInv, TypeOK, ClauseCell
<1>d. /\ pc \in InProcessing \cup {"victim", "modify"} => cur # NoClause
      /\ pc \in Between => cur = NoClause
  BY DEF TypeInv, TypeOK
<1>e. /\ \A c \in Waiting' : c.parents = {} => Holds(v, c.lits)
      /\ cur' # NoClause /\ (cur'.parents = {} \/ pc' \in Committed)
           => Holds(v, cur'.lits)
      /\ \A c \in extract_roots' : Holds(v, c)
  BY DEF KeptHold
<1>f. SUFFICES /\ state_is_complete
               /\ \A i \in Processed : Holds(v, store[i].lits)
               /\ \A c \in Waiting : c.parents = {} => Holds(v, c.lits)
               /\ cur # NoClause /\ (cur.parents = {} \/ pc \in Committed)
                    => Holds(v, cur.lits)
               /\ \A c \in extract_roots : Holds(v, c)
  BY DEF KeptHold
<1>1. CASE SelectClause
  <2>1. cur = NoClause
    BY <1>1, <1>d DEF SelectClause, Between
  <2>2. \A c \in unprocessed : c.parents = {} => c \in unprocessed' \cup {cur'}
    BY <1>1 DEF SelectClause, Orphaned
  <2>3. \A c \in Waiting : c.parents = {} => c \in Waiting' \cup {cur'}
    BY <1>1, <2>2 DEF SelectClause
  <2> QED
    BY <1>1, <1>a, <1>c, <1>e, <2>1, <2>3 DEF SelectClause
<1>2. CASE ForwardModifyClause
  <2>1. store' = store /\ pc \notin Committed /\ cur # NoClause
        /\ cur' \in ModifySteps(cur, Level)
    BY <1>2 DEF ForwardModifyClause
  <2>2. cur' # NoClause /\ cur'.parents = cur.parents
        /\ (Holds(v, cur.lits) <=> Holds(v, cur'.lits))
    BY <2>1, <1>a, <1>b, NoCell, ModifyType, ModifySound
  <2> QED
    BY <1>2, <1>a, <1>e, <2>1, <2>2 DEF ForwardModifyClause
<1>3. CASE ForwardContractClause
  BY <1>3, <1>a, <1>b, <1>e, RedundantHolds, NothingHolds
     DEF ForwardContractClause, Refuted, Modified
<1>4. CASE ForwardContextSR
  <2>1. cur # NoClause /\ pc \notin Committed /\ store' = store
    BY <1>4, <1>d DEF ForwardContextSR, InProcessing
  <2>2. cur' # NoClause /\ cur'.parents = cur.parents
        /\ (Holds(v, cur.lits) <=> Holds(v, cur'.lits))
    BY <1>4, <1>a, <1>b, <2>1, NoCell, ContextType, ContextSound DEF ForwardContextSR
  <2> QED
    BY <1>4, <1>a, <1>e, <2>1, <2>2 DEF ForwardContextSR
<1>5. CASE ReplacingInferences
  <2>1. cur \in ClauseCell /\ cur.lits \in Clause /\ pc \notin Committed
    BY <1>5, <1>b, <1>d DEF ReplacingInferences, InProcessing
  <2> QED
    BY <1>5, <1>a, <1>e, <2>1, ResolvedType, VarLitsSound DEF ReplacingInferences
<1>6. CASE EliminateBackwardRewritten
  <2>1. BackRewritable(cur.lits) \subseteq Processed
    BY VictimsStored
  <2>2. \A i \in Processed : Holds(v, store[i].lits)
    BY <1>6, <1>e, <2>1, BuriedHold DEF EliminateBackwardRewritten, MoveSimplified
  <2> QED
    BY <1>6, <1>e, <2>2 DEF EliminateBackwardRewritten, MoveSimplified, BackUnchanged
<1>7. CASE EliminateBackwardSubsumed
  <2>1. Holds(v, cur.lits) /\ cur.lits \in Clause
    BY <1>7, <1>b, <1>d, <1>e
    DEF EliminateBackwardSubsumed, InProcessing, BackUnchanged
  <2>2. ASSUME NEW i \in Processed
        PROVE  Holds(v, store[i].lits)
    <3>1. store[i].lits \in Clause
      BY DEF Processed, TypeInv, TypeOK
    <3>2. CASE i \in BackSubsumed(cur.lits)
      BY <2>1, <3>1, <3>2, SubsumptionSound DEF BackSubsumed
    <3>3. CASE i \notin BackSubsumed(cur.lits)
      BY <1>7, <3>3, StayedHold DEF EliminateBackwardSubsumed
    <3> QED
      BY <3>2, <3>3
  <2> QED
    BY <1>7, <1>e, <2>1, <2>2 DEF EliminateBackwardSubsumed, BackUnchanged
<1>8. CASE EliminateUnitSimplified
  <2>1. UnitSimplified(cur.lits) \subseteq Processed
    BY VictimsStored
  <2>2. \A i \in Processed : Holds(v, store[i].lits)
    BY <1>8, <1>e, <2>1, BuriedHold DEF EliminateUnitSimplified, MoveSimplified
  <2> QED
    BY <1>8, <1>e, <2>2 DEF EliminateUnitSimplified, MoveSimplified, BackUnchanged
<1>9. CASE EliminateContextSR
  <2> DEFINE before == tmp_store \cup Copies(ContextSimplified(cur.lits))
  <2>1. ContextSimplified(cur.lits) \subseteq Processed /\ Processed \subseteq DOMAIN store
    BY VictimsStored
  <2>2. \A c \in before : c \in ClauseCell
    BY <2>1, CopiesType
  <2>3. tmp_store' = {[c EXCEPT !.victim = TRUE] : c \in before}
    BY <1>9 DEF EliminateContextSR
  <2>4. \A c \in before : \E d \in tmp_store' : d = [c EXCEPT !.victim = TRUE]
    BY <2>3
  <2>5. \A c \in ClauseCell : /\ [c EXCEPT !.victim = TRUE].lits = c.lits
                             /\ [c EXCEPT !.victim = TRUE].parents = c.parents
    BY DEF ClauseCell
  <2>6. \A d \in tmp_store' : d.parents = {} => Holds(v, d.lits)
    BY <1>e
  <2> HIDE DEF before
  <2>7. \A c \in before : c.parents = {} => Holds(v, c.lits)
    BY ONLY <2>2, <2>4, <2>5, <2>6
  <2> USE DEF before
  <2>8. \A i \in Processed : Holds(v, store[i].lits)
    BY <1>9, <2>1, <2>7, BuriedHold DEF EliminateContextSR
  <2> QED
    BY <1>9, <1>e, <2>7, <2>8 DEF EliminateContextSR, BackUnchanged
<1>10. CASE InsertGiven
  <2>1. cur # NoClause /\ cur.lits \in Clause
    BY <1>10, <1>b, <1>d DEF InsertGiven, InProcessing
  <2>2. given' \notin Processed /\ Processed \subseteq Referenced \cap DOMAIN store
    BY <1>10, FreshIdType DEF InsertGiven, Referenced, Processed
  <2>3. \A i \in Processed : i \in Processed' /\ store'[i].lits = store[i].lits
    BY <1>10, <2>2 DEF InsertGiven, Processed
  <2>4. given' \in Processed' /\ store'[given'].lits = cur.lits
    BY <1>10 DEF InsertGiven, Processed, ProcessedSetOf, ProcSets, DemodSets
  <2>5. \A i \in Processed' : Holds(v, store'[i].lits)
    BY DEF KeptHold
  <2> QED
    BY <1>10, <1>e, <2>3, <2>4, <2>5 DEF InsertGiven
<1>11. CASE GenerateNewClauses
  BY <1>11, <1>a, <1>e DEF GenerateNewClauses
<1>12. CASE TakeNewClause
  <2>1. cur = NoClause
    BY <1>12, <1>d DEF TakeNewClause, Between
  <2>2. \A c \in Waiting : c \in Waiting' \cup {cur'}
    BY <1>12 DEF TakeNewClause
  <2> QED
    BY <1>12, <1>a, <1>c, <1>e, <2>1, <2>2 DEF TakeNewClause
<1>13. CASE ModifiedVictim
  <2>1. cur # NoClause /\ cur \in ClauseCell /\ pc \notin Committed
    BY <1>13, <1>b DEF ModifiedVictim, Modified
  <2>2. cur' # NoClause /\ cur'.parents = cur.parents /\ cur'.lits = cur.lits
    BY <1>13, <2>1, NoCell DEF ModifiedVictim, ClauseCell
  <2> QED
    BY <1>13, <1>a, <1>e, <2>1, <2>2 DEF ModifiedVictim
<1>14. CASE ModifiedNewClause
  <2>1. /\ cur \in ClauseCell /\ cur.lits \in Clause /\ pc \notin Committed
        /\ store' = store /\ state_is_complete' = state_is_complete
        /\ UNCHANGED <<unprocessed, pending>>
    BY <1>14, <1>b DEF ModifiedNewClause, Modified
  <2>2. /\ tmp_store \subseteq tmp_store' /\ eval_store \subseteq eval_store'
        /\ extract_roots \subseteq extract_roots'
    BY <1>14 DEF ModifiedNewClause, Refuted
  <2>3. cur.parents = {} => Holds(v, cur.lits)
    <3>1. CASE \/ IsTrivial(cur.lits) \/ ForwardSubsumed(cur.lits, TRUE)
      BY <1>a, <2>1, <3>1, TrivialHolds, SubsumedHolds
    <3>2. CASE cur.lits \in extract_roots'
      BY <1>e, <3>2
    <3>3. CASE Resolved(cur) \in tmp_store'
      BY <1>e, <2>1, <3>3, ResolvedType, VarLitsSound
    <3>4. CASE cur \in eval_store'
      BY <1>e, <3>4
    <3> QED
      BY <1>14, <3>1, <3>2, <3>3, <3>4 DEF ModifiedNewClause, Refuted
  <2> QED
    BY <1>a, <1>e, <2>1, <2>2, <2>3
<1>15. CASE EvaluateNewClauses
  BY <1>15, <1>a, <1>d, <1>e DEF EvaluateNewClauses, Between
<1>16. CASE DeleteOrphans
  BY <1>16, <1>a, <1>d, <1>e DEF DeleteOrphans, Orphaned, Between
<1>17. CASE StartContraction
  <2>1. cur = NoClause
    BY <1>17, <1>d DEF StartContraction, Between
  <2>2. pending = {} /\ Waiting \subseteq Waiting'
    BY <1>17 DEF StartContraction, TypeInv
  <2> QED
    BY <1>17, <1>a, <1>e, <2>1, <2>2 DEF StartContraction
<1>18. CASE TakePending
  <2>1. \A c \in Waiting : c \in Waiting' \cup {cur'}
    BY <1>18 DEF TakePending
  <2> QED
    BY <1>18, <1>a, <1>c, <1>e, <2>1 DEF TakePending
<1>19. CASE ContractedPending
  <2>1. cur \in ClauseCell /\ cur.lits \in Clause /\ pc \notin Committed
    BY <1>19, <1>b DEF ContractedPending, Modified
  <2>2. cur.parents = {} => Holds(v, cur.lits)
    <3>1. CASE Redundant(cur.lits, FALSE)
      BY <1>19, <1>a, <2>1, <3>1, RedundantHolds DEF ContractedPending
    <3>2. CASE cur.lits \in extract_roots'
      BY <1>e, <3>2
    <3>3. CASE cur \in unprocessed'
      BY <1>e, <3>3
    <3> QED
      BY <1>19, <3>1, <3>2, <3>3 DEF ContractedPending, Refuted
  <2>3. Waiting \subseteq Waiting' /\ extract_roots \subseteq extract_roots'
    BY <1>19 DEF ContractedPending, Refuted
  <2> QED
    BY <1>19, <1>a, <1>e, <2>1, <2>2, <2>3 DEF ContractedPending
<1>20. CASE EndContraction
  BY <1>20, <1>a, <1>e DEF EndContraction
<1>21. CASE DeleteBadClauses
  BY <1>21, <1>a, <1>d, <1>e DEF DeleteBadClauses, StillComplete, Orphaned, Between
<1>22. CASE SATCheck
  BY <1>22, <1>a, <1>d, <1>e DEF SATCheck, Refuted, Between
<1>23. CASE EndPresaturation
  <2>1. cur = NoClause
    BY <1>23, <1>d DEF EndPresaturation, SaturateReturns, Between
  <2>2. ASSUME NEW i \in Processed
        PROVE  Holds(v, store[i].lits)
    <3>1. PICK c \in Copies(Processed) : c.lits = store[i].lits
      BY CopyOf
    <3>2. c.parents = {}
      BY CopyCell, VictimsStored
    <3>3. c \in Waiting'
      BY <1>23 DEF EndPresaturation
    <3> QED
      BY <1>e, <3>1, <3>2, <3>3
  <2> QED
    BY <1>23, <1>e, <2>1, <2>2 DEF EndPresaturation
<1>24. CASE EndSaturation
  BY <1>24, <1>a, <1>d, <1>e DEF EndSaturation, SaturateReturns, Between
<1>25. CASE Report
  BY <1>25, <1>a, <1>e DEF Report
<1>26. CASE Done \/ UNCHANGED vars
  BY <1>26, <1>a, <1>e DEF Done, vars
<1> QED
  BY <1>1, <1>2, <1>3, <1>4, <1>5, <1>6, <1>7, <1>8, <1>9, <1>10, <1>11, <1>12,
     <1>13, <1>14, <1>15, <1>16, <1>17, <1>18, <1>19, <1>20, <1>21, <1>22, <1>23,
     <1>24, <1>25, <1>26 DEF Next

LEMMA NothingLostInit ==
    ASSUME Init
    PROVE  NothingLost
<1>1. Init => unprocessed = {NewClause(c, {}) : c \in axioms} /\ extract_roots = {}
              /\ cur = NoClause /\ DOMAIN store = {} /\ tmp_store = {}
              /\ eval_store = {} /\ pending = {}
  BY DEF Init
<1> SUFFICES ASSUME NEW v \in Models(Kept)
             PROVE  v \in Models(axioms \cup Held)
  BY DEF NothingLost
<1>2. v \in Val /\ KeptHold(v)
  BY KeptModels DEF Models
<1>3. ASSUME NEW c \in axioms
      PROVE  Holds(v, c)
  <2>1. PICK d \in unprocessed : d = NewClause(c, {})
    BY <1>1
  <2>2. d.parents = {} /\ d.lits = c
    BY <2>1 DEF NewClause
  <2> QED
    BY <1>2, <2>2 DEF KeptHold, Waiting
<1>4. \A c \in Held : c \in axioms
  BY <1>1 DEF Held, Waiting, AtHand, NewClause
<1> QED
  BY <1>2, <1>3, <1>4 DEF Models

LEMMA NothingLostInductive ==
    ASSUME TypeInv, NothingLost, [Next]_vars
    PROVE  NothingLost'
<1> SUFFICES ASSUME state_is_complete', NEW v \in Models(Kept)'
             PROVE  v \in Models(axioms \cup Held)'
  BY DEF NothingLost
<1>1. v \in Val /\ KeptHold(v)'
  BY DEF Models, Kept, KeptHold, Lasting, AtHand, LitsIn, In, Processed
<1>2. state_is_complete /\ KeptHold(v)
  BY <1>1, KeptStep
<1>3. v \in Models(axioms \cup Held)
  BY <1>1, <1>2, KeptModels DEF NothingLost
<1>4. AllHold(v) /\ \A c \in axioms : Holds(v, c)
  BY <1>1, <1>3, HeldModels DEF Models
<1>5. AllHold(v)'
  BY <1>1, <1>4, SoundStep
<1>6. v \in Models(Held)'
  BY <1>1, <1>5 DEF Models, Held, AllHold, Waiting, AtHand
<1> QED
  BY <1>1, <1>4, <1>6, InputFixed DEF Models

(* As long as state_is_complete says so, the clauses that no deletion of   *)
(* orphans (ClauseIsOrphaned) can take away imply the axioms and all that  *)
(* was derived: backward simplification may declare clauses dead, and so   *)
(* turn their children into orphans, without losing anything.              *)
THEOREM NothingIsLost == Spec => []NothingLost
<1>1. Init => TypeInv /\ NothingLost
  BY TypeInit, NothingLostInit
<1>2. TypeInv /\ NothingLost /\ [Next]_vars => (TypeInv /\ NothingLost)'
  BY TypeStep, NothingLostInductive
<1> QED
  BY <1>1, <1>2, PTL DEF Spec

----------------------------------------------------------------------------
(* The assertions about victims of interreduction.  tmp_store is empty     *)
(* except from backward simplification to the last new clause, and it      *)
(* holds copies only (all CPLimitedRW) until the victims are marked.       *)

Collecting == {"bwsub", "unit_simplify", "context_sr"}

VictimInv ==
    /\ \A c \in unprocessed \cup eval_store \cup pending : ~c.victim
    /\ pc \in InProcessing \cup {"modify", "filter"} => ~cur.victim
    /\ \A c \in tmp_store : c.victim => c.lim
    /\ pc \in Collecting => \A c \in tmp_store : c.lim
    /\ pc \notin Collecting \cup {"insert_given", "generate", "insert_new",
                                 "victim", "modify", "report", "done"}
         => tmp_store = {}

LEMMA VictimStep ==
    ASSUME TypeInv, VictimInv, [Next]_vars
    PROVE  VictimInv'
<1> USE DEF VictimInv, stores, input, Goto, InProcessing, Collecting
<1>a. cur # NoClause => cur \in ClauseCell
  BY DEF TypeInv, TypeOK
<1>b. ~NoClause.victim
  BY DEF NoClause
<1>c. \A I \in SUBSET DOMAIN store : \A c \in Copies(I) : ~c.victim /\ c.lim
  BY CopyCell
<1>d. pc \in InProcessing \cup {"victim", "modify"} => cur # NoClause
  BY DEF TypeInv, TypeOK
<1>e. pc \in Between => cur = NoClause
  BY DEF TypeInv
<1>1. CASE SelectClause
  BY <1>1, <1>b DEF SelectClause
<1>2. CASE ForwardModifyClause
  BY <1>2, <1>a, ModifyType DEF ForwardModifyClause
<1>3. CASE ForwardContractClause
  BY <1>3, <1>b DEF ForwardContractClause, Refuted
<1>4. CASE ForwardContextSR
  BY <1>4, <1>a, <1>d, ContextType DEF ForwardContextSR
<1>5. CASE ReplacingInferences
  BY <1>5, <1>a, <1>b, <1>d, ResolvedType DEF ReplacingInferences
<1>6. CASE EliminateBackwardRewritten
  <2> BackRewritable(cur.lits) \in SUBSET DOMAIN store
    BY VictimsStored
  <2> QED
    BY <1>6, <1>c DEF EliminateBackwardRewritten, MoveSimplified, BackUnchanged
<1>7. CASE EliminateBackwardSubsumed
  BY <1>7 DEF EliminateBackwardSubsumed, BackUnchanged
<1>8. CASE EliminateUnitSimplified
  <2> UnitSimplified(cur.lits) \in SUBSET DOMAIN store
    BY VictimsStored
  <2> QED
    BY <1>8, <1>c DEF EliminateUnitSimplified, MoveSimplified, BackUnchanged
<1>9. CASE EliminateContextSR
  <2> DEFINE before == tmp_store \cup Copies(ContextSimplified(cur.lits))
  <2>1. ContextSimplified(cur.lits) \in SUBSET DOMAIN store
    BY VictimsStored
  <2>2. \A c \in before : c \in ClauseCell /\ c.lim
    BY <1>9, <1>c, <2>1, CopiesType DEF EliminateContextSR
  <2>3. \A c \in tmp_store' : \E d \in before : c = [d EXCEPT !.victim = TRUE]
    BY <1>9 DEF EliminateContextSR
  <2>4. \A d \in ClauseCell : [d EXCEPT !.victim = TRUE].lim = d.lim
    BY DEF ClauseCell
  <2> HIDE DEF before
  <2>5. \A c \in tmp_store' : c.lim
    BY ONLY <2>2, <2>3, <2>4
  <2> QED
    BY <1>9, <2>5 DEF EliminateContextSR, BackUnchanged
<1>10. CASE InsertGiven
  BY <1>10, <1>b DEF InsertGiven
<1>11. CASE GenerateNewClauses
  <2> given \in DOMAIN store
    BY <1>11 DEF GenerateNewClauses, TypeInv, TypeOK
  <2> QED
    BY <1>11, GeneratedType DEF GenerateNewClauses
<1>12. CASE TakeNewClause
  BY <1>12 DEF TakeNewClause
<1>13. CASE ModifiedVictim
  BY <1>13, <1>a, <1>d DEF ModifiedVictim, ClauseCell
<1>14. CASE ModifiedNewClause
  <2>1. cur \in ClauseCell /\ ~cur.victim
    BY <1>14, <1>a, <1>d DEF ModifiedNewClause
  <2>2. /\ tmp_store' \subseteq tmp_store \cup {Resolved(cur)}
        /\ eval_store' \subseteq eval_store \cup {cur}
    BY <1>14 DEF ModifiedNewClause
  <2> QED
    BY <1>14, <1>b, <2>1, <2>2, ResolvedType DEF ModifiedNewClause, Refuted
<1>15. CASE EvaluateNewClauses
  BY <1>15 DEF EvaluateNewClauses
<1>16. CASE DeleteOrphans
  BY <1>16 DEF DeleteOrphans
<1>17. CASE StartContraction
  BY <1>17, <1>b, <1>e DEF StartContraction, Between
<1>18. CASE TakePending
  BY <1>18 DEF TakePending
<1>19. CASE ContractedPending
  BY <1>19, <1>b DEF ContractedPending, Refuted
<1>20. CASE EndContraction
  BY <1>20 DEF EndContraction
<1>21. CASE DeleteBadClauses
  BY <1>21 DEF DeleteBadClauses
<1>22. CASE SATCheck
  BY <1>22 DEF SATCheck, Refuted
<1>23. CASE EndPresaturation
  <2> Processed \in SUBSET DOMAIN store
    BY VictimsStored
  <2> QED
    BY <1>23, <1>c DEF EndPresaturation, SaturateReturns
<1>24. CASE EndSaturation
  BY <1>24 DEF EndSaturation, SaturateReturns
<1>25. CASE Report
  BY <1>25 DEF Report
<1>26. CASE Done \/ UNCHANGED vars
  BY <1>26 DEF Done, vars
<1> QED
  BY <1>1, <1>2, <1>3, <1>4, <1>5, <1>6, <1>7, <1>8, <1>9, <1>10, <1>11, <1>12,
     <1>13, <1>14, <1>15, <1>16, <1>17, <1>18, <1>19, <1>20, <1>21, <1>22, <1>23,
     <1>24, <1>25, <1>26 DEF Next

(* The assertions of ProcessClause and insert_new_clauses never fail: a    *)
(* given clause is no victim, and every victim waiting for its rewriting   *)
(* is still restricted to limited rewriting.                               *)
THEOREM VictimsCorrect == Spec => []VictimsAreLimited
<1>1. Init => TypeInv /\ VictimInv
  BY TypeInit DEF Init, VictimInv, NewClause, InProcessing, Collecting
<1>2. TypeInv /\ VictimInv /\ [Next]_vars => (TypeInv /\ VictimInv)'
  BY TypeStep, VictimStep
<1>3. VictimInv => VictimsAreLimited
  BY DEF VictimInv, VictimsAreLimited
<1> QED
  BY <1>1, <1>2, <1>3, PTL DEF Spec

----------------------------------------------------------------------------
(* The processed set is reduced *)

RewrittenBy(u, c) == \E r \in Rewrites : {r.rule} = u /\ Rewritable(r, c, TRUE)

(* Processed clause d neither rewrites nor subsumes c. *)
Spares(d, c) ==
    /\ d.set \in DemodSets => ~RewrittenBy(d.lits, c)
    /\ d.set # "processed_pos_rules" => ~Subsumes(d.lits, c)

(* Reduced at every step; what it needs of the given clause: forward       *)
(* contraction has left it reduced, and the processed clauses it rewrites  *)
(* or subsumes are gone before it joins them.                              *)
InPlace     == \A i \in Processed :
                  /\ store[i].lits # {}
                  /\ store[i].set = ProcessedSetOf(store[i].lits)
PairsSpared == \A i, j \in Processed : i # j => Spares(store[i], store[j].lits)
Contracted  == {"context", "replace", "bwrw"} \cup Committed

GivenReduced ==
    pc \in Contracted => /\ cur.lits # {}
                         /\ \A i \in Processed : Spares(store[i], cur.lits)
GivenRewritesNone ==
    pc \in Committed =>
        \A j \in Processed :
            IsDemodulator(cur.lits) => ~RewrittenBy(cur.lits, store[j].lits)
GivenSubsumesNone ==
    pc \in Committed \ {"bwsub"} =>
        \A j \in Processed :
            ~IsRWRule(cur.lits) => ~Subsumes(cur.lits, store[j].lits)

ReducedInv == InPlace /\ PairsSpared /\ GivenReduced
              /\ GivenRewritesNone /\ GivenSubsumesNone

(* A clause that loses a literal is no easier to rewrite or to subsume:    *)
(* what was maximal still is.                                              *)
LEMMA ShorterSpared ==
    ASSUME NEW d, d.lits \in Clause, NEW c \in Clause, NEW l, Spares(d, c)
    PROVE  Spares(d, c \ {l})
<1> DEFINE e == c \ {l}
<1>1. ASSUME NEW r \in Rewrites, Rewritable(r, e, TRUE)
      PROVE  Rewritable(r, c, TRUE)
  BY <1>1 DEF Rewritable, Restricted, Maximal
<1>2. ASSUME Subsumes(d.lits, e) PROVE Subsumes(d.lits, c)
  <2>1. IsFiniteSet(c)
    BY LitAssumption, FS_Subset DEF Clause
  <2>2. Cardinality(e) <= Cardinality(c) /\ Cardinality(e) \in Nat /\ Cardinality(c) \in Nat
    BY <2>1, FS_Subset, FS_CardinalityType
  <2>3. PICK f \in Injection(d.lits, e) : \A k \in d.lits : <<k, f[k]>> \in Covers
    BY <1>2 DEF Subsumes
  <2>4. f \in Injection(d.lits, c)
    BY DEF Injection
  <2>5. Cardinality(d.lits) <= Cardinality(e) /\ Cardinality(d.lits) \in Nat
    BY <1>2, LitAssumption, FS_Subset, FS_CardinalityType DEF Subsumes, Clause
  <2> QED
    BY <2>2, <2>3, <2>4, <2>5 DEF Subsumes
<1> QED
  BY <1>1, <1>2 DEF Spares, RewrittenBy

LEMMA UnitSubsumes ==
    ASSUME NEW d \in Clause, NEW c \in Clause, IsUnit(d), IsUnit(c), Subsumes(d, c)
    PROVE  IsPositive(d) <=> IsPositive(c)
<1>0. IsFiniteSet(d) /\ IsFiniteSet(c)
  BY LitAssumption, FS_Subset DEF Clause
<1>1. PICK l : d = {l}
  BY <1>0, FS_Singleton DEF IsUnit
<1>2. PICK k : c = {k}
  BY <1>0, FS_Singleton DEF IsUnit
<1>3. PICK f \in Injection(d, c) : \A m \in d : <<m, f[m]>> \in Covers
  BY DEF Subsumes
<1>4. f[l] = k
  BY <1>1, <1>2, <1>3 DEF Injection
<1>5. <<l, k>> \in Covers /\ l \in Lit /\ k \in Lit
  BY <1>1, <1>2, <1>3, <1>4 DEF Clause
<1> QED
  BY <1>1, <1>2, <1>5, MatchAssumption DEF IsPositive

(* A clause of two literals does not subsume a unit. *)
LEMMA LongerSubsumesNoUnit ==
    ASSUME NEW d \in Clause, NEW c \in Clause, d # {}, ~IsUnit(d), c # {}, IsUnit(c)
    PROVE  ~Subsumes(d, c)
<1>1. IsFiniteSet(d)
  BY LitAssumption, FS_Subset DEF Clause
<1>2. Cardinality(d) \in Nat /\ Cardinality(d) # 0 /\ Cardinality(d) # 1
  BY <1>1, FS_CardinalityType, FS_EmptySet DEF IsUnit
<1> QED
  BY <1>2 DEF Subsumes, IsUnit

(* Where ClauseSetIndexedInsert puts a clause says what it looks like. *)
LEMMA PlaceSays ==
    ASSUME NEW c
    PROVE  /\ ProcessedSetOf(c) \in ProcSets
           /\ ProcessedSetOf(c) \in DemodSets <=> IsDemodulator(c)
           /\ ProcessedSetOf(c) = "processed_pos_rules" <=> IsRWRule(c)
           /\ ProcessedSetOf(c) = "processed_neg_units" <=> IsUnit(c) /\ ~IsPositive(c)
           /\ ProcessedSetOf(c) = "processed_non_units" <=> ~IsUnit(c)
<1>1. c \subseteq Oriented => c \subseteq Positive
  BY LitAssumption
<1> QED
  BY <1>1 DEF ProcessedSetOf, ProcSets, DemodSets, IsDemodulator, IsRWRule, IsPositive

(* What remains after clauses were removed is as reduced as before. *)
LEMMA BuriedReduced ==
    ASSUME TypeInv, ReducedInv, NEW I \in SUBSET DOMAIN store, store' = Bury(I)
    PROVE  /\ Processed' = Processed \ I
           /\ \A i \in Processed' : store'[i] = store[i]
           /\ InPlace' /\ PairsSpared'
<1>1. /\ DOMAIN store' = DOMAIN store
      /\ \A i \in DOMAIN store : i \notin I => store'[i] = store[i]
  BY BuryType
<1>2. \A i \in I : store'[i].set \notin ProcSets
  <2> TAKE i \in I
  <2>1. i \in DOMAIN store /\ store[i] \in [lits : Clause, set : ProcSets \cup {"archive"},
                                 dead : BOOLEAN]
    BY DEF TypeInv, TypeOK
  <2>2. store'[i] = [store[i] EXCEPT !.set = "archive", !.dead = TRUE]
    BY <2>1 DEF Bury
  <2>3. store'[i].set = "archive"
    BY <2>1, <2>2
  <2> QED
    BY <2>3 DEF ProcSets, DemodSets
<1>3. Processed' = Processed \ I /\ \A i \in Processed' : store'[i] = store[i]
  BY <1>1, <1>2 DEF Processed
<1>4. InPlace'
  BY <1>3 DEF ReducedInv, InPlace
<1>5. PairsSpared'
  <2> SUFFICES ASSUME NEW i \in Processed', NEW j \in Processed', i # j
               PROVE  Spares(store'[i], store'[j].lits)
    BY DEF PairsSpared
  <2>1. Spares(store[i], store[j].lits)
    BY <1>3 DEF ReducedInv, PairsSpared
  <2> QED
    BY <1>3, <2>1
<1> QED
  BY <1>3, <1>4, <1>5

(* After forward contraction the given clause is spared by all processed   *)
(* clauses: none of them rewrites it, and none but a rule is left out of   *)
(* the subsumption test.                                                   *)
LEMMA GivenContracted ==
    ASSUME TypeInv, InPlace, pc = "forward", Modified, cur.lits # {},
           ~Redundant(cur.lits, TRUE)
    PROVE  \A i \in Processed : Spares(store[i], cur.lits)
<1> DEFINE c == cur.lits
<1>0. cur \in ClauseCell /\ c \in Clause
  BY DEF TypeInv, TypeOK, Modified, ClauseCell
<1>1. ModifySteps(cur, 2) = {}
  BY DEF Modified, Redundant, Level
<1> SUFFICES ASSUME NEW i \in Processed PROVE Spares(store[i], c)
  OBVIOUS
<1>2. store[i].lits \in Clause /\ i \in DOMAIN store
  BY DEF TypeInv, TypeOK, Processed
<1>3. store[i].set = ProcessedSetOf(store[i].lits) /\ store[i].lits # {}
  BY DEF InPlace
<1>4. ASSUME store[i].set \in DemodSets, RewrittenBy(store[i].lits, c) PROVE FALSE
  <2>1. PICK r \in Rewrites : {r.rule} = store[i].lits /\ Rewritable(r, c, TRUE)
    BY <1>4 DEF RewrittenBy
  <2>2. Rewritable(r, c, cur.lim)
    BY <2>1 DEF Rewritable, Restricted
  <2>3. {r.rule} \in Demods(2)
    BY <1>2, <1>4, <2>1 DEF Demods, LitsIn, In
  <2>4. RewriteSteps(cur, 2) # {}
    BY <2>2, <2>3 DEF RewriteSteps
  <2> QED
    BY <1>1, <2>4 DEF ModifySteps
<1>5. ASSUME store[i].set # "processed_pos_rules", Subsumes(store[i].lits, c) PROVE FALSE
  <2>1. ~ForwardSubsumed(c, TRUE)
    BY DEF Redundant
  <2>2. store[i].set \in ProcSets
    BY DEF Processed
  <2>3. CASE store[i].set \in {"processed_pos_eqns", "processed_neg_units"}
    <3>1. store[i].lits \in LitsIn({"processed_pos_eqns", "processed_neg_units"})
      BY <1>2, <2>3 DEF LitsIn, In
    <3> QED
      BY <1>5, <2>1, <3>1 DEF ForwardSubsumed
  <2>4. CASE store[i].set = "processed_non_units"
    <3>1. store[i].lits \in LitsIn({"processed_non_units"})
      BY <1>2, <2>4 DEF LitsIn, In
    <3>2. ~(Cardinality(c) > 1)
      BY <1>5, <2>1, <3>1 DEF ForwardSubsumed
    <3>3. IsUnit(c)
      <4>1. IsFiniteSet(c)
        BY <1>0, LitAssumption, FS_Subset DEF Clause
      <4> QED
        BY <3>2, <4>1, FS_CardinalityType, FS_EmptySet DEF IsUnit
    <3>4. ~IsUnit(store[i].lits)
      BY <1>3, <2>4, PlaceSays
    <3> QED
      BY <1>0, <1>2, <1>3, <1>5, <3>3, <3>4, LongerSubsumesNoUnit
  <2> QED
    BY <1>5, <2>2, <2>3, <2>4 DEF ProcSets, DemodSets
<1> QED
  BY <1>4, <1>5 DEF Spares

(* What eliminate_backward_subsumed_clauses leaves is not subsumed by the  *)
(* given clause, unless that is a rule: a unit subsumes no unit of the     *)
(* other sign, and a longer clause no unit.                                *)
LEMMA NoneSubsumedStays ==
    ASSUME TypeInv, ReducedInv, NEW c \in Clause, c # {}, ~IsRWRule(c),
           NEW j \in Processed \ BackSubsumed(c)
    PROVE  ~Subsumes(c, store[j].lits)
<1> SUFFICES ASSUME Subsumes(c, store[j].lits) PROVE FALSE
  OBVIOUS
<1>1. /\ store[j].lits \in Clause /\ j \in DOMAIN store /\ store[j].set \in ProcSets
      /\ store[j].lits # {} /\ store[j].set = ProcessedSetOf(store[j].lits)
  BY DEF TypeInv, TypeOK, Processed, ReducedInv, InPlace
<1>2. CASE ~IsUnit(c)
  <2>1. store[j].set # "processed_non_units"
    BY <1>1, <1>2 DEF BackSubsumed, In
  <2>2. IsUnit(store[j].lits)
    BY <1>1, <2>1, PlaceSays
  <2> QED
    BY <1>1, <1>2, <2>2, LongerSubsumesNoUnit
<1>3. CASE IsUnit(c) /\ IsPositive(c)
  <2>1. store[j].set \notin DemodSets \cup {"processed_non_units"}
    BY <1>1, <1>3 DEF BackSubsumed, In
  <2>2. IsUnit(store[j].lits) /\ ~IsPositive(store[j].lits)
    BY <1>1, <2>1, PlaceSays DEF ProcSets
  <2> QED
    BY <1>1, <1>3, <2>2, UnitSubsumes
<1>4. CASE IsUnit(c) /\ ~IsPositive(c)
  <2>1. store[j].set \notin {"processed_neg_units", "processed_non_units"}
    BY <1>1, <1>4 DEF BackSubsumed, In
  <2>2. IsUnit(store[j].lits) /\ IsPositive(store[j].lits)
    BY <1>1, <2>1, PlaceSays DEF IsDemodulator
  <2> QED
    BY <1>1, <1>4, <2>2, UnitSubsumes
<1> QED
  BY <1>2, <1>3, <1>4

(* The given clause joins a set it neither rewrites nor subsumes, and that *)
(* leaves it alone.                                                        *)
LEMMA InsertReduced ==
    ASSUME TypeInv, ReducedInv, InsertGiven
    PROVE  InPlace' /\ PairsSpared'
<1> DEFINE n == FreshId
           c == cur.lits
<1>1. /\ store' = [i \in (Referenced \cap DOMAIN store) \cup {n} |->
                     IF i = n THEN [lits |-> c, set |-> ProcessedSetOf(c), dead |-> FALSE]
                              ELSE store[i]]
      /\ pc = "insert_given"
  BY DEF InsertGiven
<1>2. n \notin Processed /\ Processed \subseteq Referenced \cap DOMAIN store
  BY FreshIdType DEF Referenced, Processed
<1>3. /\ c \in Clause /\ c # {}
      /\ \A i \in Processed : /\ Spares(store[i], c)
                              /\ IsDemodulator(c) => ~RewrittenBy(c, store[i].lits)
                              /\ ~IsRWRule(c) => ~Subsumes(c, store[i].lits)
  BY <1>1 DEF ReducedInv, GivenReduced, GivenRewritesNone, GivenSubsumesNone,
              Contracted, Committed, TypeInv, TypeOK, InProcessing, ClauseCell
<1> HIDE DEF n
<1>4. /\ store'[n] = [lits |-> c, set |-> ProcessedSetOf(c), dead |-> FALSE]
      /\ n \in DOMAIN store'
  BY <1>1
<1>5. \A i \in Processed : store'[i] = store[i] /\ i \in DOMAIN store'
  BY <1>1, <1>2
<1>6. \A i \in DOMAIN store' : i = n \/ (i \in DOMAIN store /\ store'[i] = store[i])
  BY <1>1
<1>7. Processed' \subseteq Processed \cup {n}
  BY <1>6 DEF Processed
<1>8. InPlace'
  <2> SUFFICES ASSUME NEW i \in Processed'
               PROVE  /\ store'[i].lits # {}
                      /\ store'[i].set = ProcessedSetOf(store'[i].lits)
    BY DEF InPlace
  <2>1. CASE i = n
    BY <1>3, <1>4, <2>1
  <2>2. CASE i \in Processed
    BY <1>5, <2>2 DEF ReducedInv, InPlace
  <2> QED
    BY <1>7, <2>1, <2>2
<1>9. PairsSpared'
  <2> SUFFICES ASSUME NEW i \in Processed', NEW j \in Processed', i # j
               PROVE  Spares(store'[i], store'[j].lits)
    BY DEF PairsSpared
  <2>1. CASE i \in Processed /\ j \in Processed
    BY <1>5, <2>1 DEF ReducedInv, PairsSpared
  <2>2. CASE i \in Processed /\ j = n
    BY <1>3, <1>4, <1>5, <2>2
  <2>3. CASE i = n /\ j \in Processed
    <3>1. /\ store'[i].lits = c /\ store'[i].set = ProcessedSetOf(c)
          /\ store'[j].lits = store[j].lits
      BY <1>4, <1>5, <2>3
    <3> QED
      BY <1>3, <2>3, <3>1, PlaceSays DEF Spares
  <2> QED
    BY <1>7, <2>1, <2>2, <2>3
<1> QED
  BY <1>8, <1>9

LEMMA ReducedStep ==
    ASSUME TypeInv, ReducedInv, [Next]_vars
    PROVE  ReducedInv'
<1> USE DEF stores, input, Goto
<1>a. /\ Processed \subseteq DOMAIN store
      /\ \A i \in DOMAIN store : store[i].lits \in Clause
  BY DEF Processed, TypeInv, TypeOK
<1>b. ASSUME UNCHANGED store, pc' \notin Contracted PROVE ReducedInv'
  BY <1>b DEF ReducedInv, InPlace, PairsSpared, GivenReduced, GivenRewritesNone,
              GivenSubsumesNone, Contracted, Committed, Processed
<1>c. ASSUME UNCHANGED <<store, cur>>, pc' \in Contracted \ Committed, pc \in Contracted
      PROVE  ReducedInv'
  BY <1>c DEF ReducedInv, InPlace, PairsSpared, GivenReduced, GivenRewritesNone,
              GivenSubsumesNone, Contracted, Committed, Processed
<1>d. pc \in Contracted => cur.lits \in Clause
  BY DEF Contracted, Committed, TypeInv, TypeOK, InProcessing, ClauseCell
<1>1. CASE SelectClause
  BY <1>1, <1>b DEF SelectClause, Contracted, Committed
<1>2. CASE ForwardModifyClause
  BY <1>2, <1>b DEF ForwardModifyClause, Contracted, Committed
<1>3. CASE ForwardContractClause
  <2>1. CASE pc' # "context"
    BY <1>3, <1>b, <2>1 DEF ForwardContractClause, Refuted, Contracted, Committed
  <2>2. CASE pc' = "context"
    <3>1. /\ pc = "forward" /\ Modified /\ cur.lits # {} /\ ~Redundant(cur.lits, TRUE)
          /\ cur' = cur /\ store' = store
      BY <1>3, <2>2 DEF ForwardContractClause, Refuted
    <3>2. \A i \in Processed : Spares(store[i], cur.lits)
      BY <3>1, GivenContracted DEF ReducedInv
    <3> QED
      BY <2>2, <3>1, <3>2 DEF ReducedInv, InPlace, PairsSpared, GivenReduced,
          GivenRewritesNone, GivenSubsumesNone, Contracted, Committed, Processed
  <2> QED
    BY <2>1, <2>2
<1>4. CASE ForwardContextSR
  <2>1. CASE cur' = cur
    BY <1>4, <1>c, <2>1 DEF ForwardContextSR, Contracted, Committed
  <2>2. CASE cur' # cur
    <3>1. /\ pc = "context" /\ pc' = pc /\ store' = store /\ cur' \in ContextSteps(cur)
      BY <1>4, <2>2 DEF ForwardContextSR
    <3>2. cur \in ClauseCell
      BY <3>1 DEF TypeInv, TypeOK, InProcessing
    <3>3. PICK l \in cur.lits : /\ Cardinality(cur.lits) > 1
                                /\ cur'.lits = cur.lits \ {l}
      BY <3>1, <3>2, CutType DEF ContextSteps
    <3>4. cur'.lits # {}
      BY <3>3, FS_Singleton
    <3>5. \A i \in Processed : Spares(store[i], cur'.lits)
      <4> TAKE i \in Processed
      <4>1. Spares(store[i], cur.lits)
        BY <3>1 DEF ReducedInv, GivenReduced, Contracted
      <4>2. store[i].lits \in Clause /\ cur.lits \in Clause
        BY <1>a, <1>d, <3>1 DEF Contracted
      <4>3. Spares(store[i], cur.lits \ {l})
        BY <4>1, <4>2, ShorterSpared
      <4> QED
        BY <3>3, <4>3
    <3> QED
      BY <3>1, <3>4, <3>5 DEF ReducedInv, InPlace, PairsSpared, GivenReduced,
          GivenRewritesNone, GivenSubsumesNone, Contracted, Committed, Processed
  <2> QED
    BY <2>1, <2>2
<1>5. CASE ReplacingInferences
  <2>1. CASE pc' = "bwrw"
    BY <1>5, <1>c, <2>1 DEF ReplacingInferences, Contracted, Committed
  <2>2. CASE pc' = "insert_new"
    BY <1>5, <1>b, <2>2 DEF ReplacingInferences, Contracted, Committed
  <2> QED
    BY <1>5, <2>1, <2>2 DEF ReplacingInferences
<1>6. CASE EliminateBackwardRewritten
  <2>1. /\ pc = "bwrw" /\ pc' = "bwsub" /\ cur' = cur
        /\ store' = Bury(BackRewritable(cur.lits))
    BY <1>6 DEF EliminateBackwardRewritten, MoveSimplified, BackUnchanged
  <2>2. /\ Processed' = Processed \ BackRewritable(cur.lits)
        /\ \A i \in Processed' : store'[i] = store[i]
        /\ InPlace' /\ PairsSpared'
    BY <1>a, <2>1, BuriedReduced, VictimsStored
  <2>3. \A j \in Processed' : IsDemodulator(cur.lits) => ~RewrittenBy(cur.lits, store[j].lits)
    BY <2>2 DEF BackRewritable, RewrittenBy
  <2> QED
    BY <2>1, <2>2, <2>3 DEF ReducedInv, GivenReduced, GivenRewritesNone,
        GivenSubsumesNone, Contracted, Committed
<1>7. CASE EliminateBackwardSubsumed
  <2>1. /\ pc = "bwsub" /\ pc' = "unit_simplify" /\ cur' = cur
        /\ store' = Bury(BackSubsumed(cur.lits))
    BY <1>7 DEF EliminateBackwardSubsumed, BackUnchanged
  <2>2. /\ Processed' = Processed \ BackSubsumed(cur.lits)
        /\ \A i \in Processed' : store'[i] = store[i]
        /\ InPlace' /\ PairsSpared'
    BY <1>a, <2>1, BuriedReduced, VictimsStored
  <2>3. cur.lits \in Clause /\ cur.lits # {}
    BY <1>d, <2>1 DEF ReducedInv, GivenReduced, Contracted, Committed
  <2>4. \A j \in Processed' : ~IsRWRule(cur.lits) => ~Subsumes(cur.lits, store[j].lits)
    BY <2>2, <2>3, NoneSubsumedStays
  <2> QED
    BY <2>1, <2>2, <2>4 DEF ReducedInv, GivenReduced, GivenRewritesNone,
        GivenSubsumesNone, Contracted, Committed
<1>8. CASE EliminateUnitSimplified
  <2>1. /\ pc = "unit_simplify" /\ pc' = "context_sr" /\ cur' = cur
        /\ store' = Bury(UnitSimplified(cur.lits))
    BY <1>8 DEF EliminateUnitSimplified, MoveSimplified, BackUnchanged
  <2>2. /\ Processed' = Processed \ UnitSimplified(cur.lits)
        /\ \A i \in Processed' : store'[i] = store[i]
        /\ InPlace' /\ PairsSpared'
    BY <1>a, <2>1, BuriedReduced, VictimsStored
  <2> QED
    BY <2>1, <2>2 DEF ReducedInv, GivenReduced, GivenRewritesNone,
        GivenSubsumesNone, Contracted, Committed
<1>9. CASE EliminateContextSR
  <2>1. /\ pc = "context_sr" /\ pc' = "insert_given" /\ cur' = cur
        /\ store' = Bury(ContextSimplified(cur.lits))
    BY <1>9 DEF EliminateContextSR, BackUnchanged
  <2>2. /\ Processed' = Processed \ ContextSimplified(cur.lits)
        /\ \A i \in Processed' : store'[i] = store[i]
        /\ InPlace' /\ PairsSpared'
    BY <1>a, <2>1, BuriedReduced, VictimsStored
  <2> QED
    BY <2>1, <2>2 DEF ReducedInv, GivenReduced, GivenRewritesNone,
        GivenSubsumesNone, Contracted, Committed
<1>10. CASE InsertGiven
  <2>1. InPlace' /\ PairsSpared'
    BY <1>10, InsertReduced
  <2>2. pc' = "generate"
    BY <1>10 DEF InsertGiven
  <2> QED
    BY <2>1, <2>2 DEF ReducedInv, GivenReduced, GivenRewritesNone,
        GivenSubsumesNone, Contracted, Committed
<1>11. CASE GenerateNewClauses
  BY <1>11, <1>b DEF GenerateNewClauses, Contracted, Committed
<1>12. CASE TakeNewClause
  BY <1>12, <1>b DEF TakeNewClause, Contracted, Committed
<1>13. CASE ModifiedVictim
  BY <1>13, <1>b DEF ModifiedVictim, Contracted, Committed
<1>14. CASE ModifiedNewClause
  BY <1>14, <1>b DEF ModifiedNewClause, Refuted, Contracted, Committed
<1>15. CASE EvaluateNewClauses
  BY <1>15, <1>b DEF EvaluateNewClauses, Contracted, Committed
<1>16. CASE DeleteOrphans
  BY <1>16, <1>b DEF DeleteOrphans, Contracted, Committed
<1>17. CASE StartContraction
  BY <1>17, <1>b DEF StartContraction, Contracted, Committed
<1>18. CASE TakePending
  BY <1>18, <1>b DEF TakePending, Contracted, Committed
<1>19. CASE ContractedPending
  BY <1>19, <1>b DEF ContractedPending, Refuted, Contracted, Committed
<1>20. CASE EndContraction
  BY <1>20, <1>b DEF EndContraction, Contracted, Committed
<1>21. CASE DeleteBadClauses
  BY <1>21, <1>b DEF DeleteBadClauses, Contracted, Committed
<1>22. CASE SATCheck
  BY <1>22, <1>b DEF SATCheck, Refuted, Contracted, Committed
<1>23. CASE EndPresaturation
  <2>1. store' = [i \in DOMAIN store |-> [store[i] EXCEPT !.set = "archive"]]
    BY <1>23 DEF EndPresaturation
  <2>2. pc' \notin Contracted
    BY <1>23 DEF EndPresaturation, SaturateReturns, Contracted, Committed
  <2>3. \A i \in DOMAIN store' : store'[i].set = "archive"
    BY <2>1 DEF TypeInv, TypeOK
  <2>4. Processed' = {}
    BY <2>3 DEF Processed, ProcSets, DemodSets
  <2> QED
    BY <2>2, <2>4 DEF ReducedInv, InPlace, PairsSpared, GivenReduced,
        GivenRewritesNone, GivenSubsumesNone, Contracted
<1>24. CASE EndSaturation
  BY <1>24, <1>b DEF EndSaturation, Contracted, Committed
<1>25. CASE Report
  BY <1>25, <1>b DEF Report, Contracted, Committed
<1>26. CASE Done \/ UNCHANGED vars
  BY <1>26 DEF Done, vars, ReducedInv, InPlace, PairsSpared, GivenReduced,
      GivenRewritesNone, GivenSubsumesNone, Processed
<1> QED
  BY <1>1, <1>2, <1>3, <1>4, <1>5, <1>6, <1>7, <1>8, <1>9, <1>10, <1>11, <1>12,
     <1>13, <1>14, <1>15, <1>16, <1>17, <1>18, <1>19, <1>20, <1>21, <1>22, <1>23,
     <1>24, <1>25, <1>26 DEF Next

(* Between two given clauses no processed clause can be rewritten by       *)
(* another one, or is subsumed by another one that is not a rule, in every *)
(* strategy, in the interreduction as in the search that follows it.       *)
THEOREM ProcessedReduced == Spec => []Reduced
<1>1. Init => TypeInv /\ ReducedInv
  BY TypeInit DEF Init, ReducedInv, InPlace, PairsSpared, GivenReduced,
      GivenRewritesNone, GivenSubsumesNone, Contracted, Committed, Processed
<1>2. TypeInv /\ ReducedInv /\ [Next]_vars => (TypeInv /\ ReducedInv)'
  BY TypeStep, ReducedStep
<1>3. ReducedInv => Reduced
  BY DEF ReducedInv, PairsSpared, Spares, RewrittenBy, Reduced
<1> QED
  BY <1>1, <1>2, <1>3, PTL DEF Spec
=============================================================================
