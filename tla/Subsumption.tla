----------------------------- MODULE Subsumption -----------------------------
(***************************************************************************)
(* Does a clause make another one redundant?  CLAUSES/ccl_subsumption.c    *)
(* for two clauses, CLAUSES/ccl_unit_simplify.c for an indexed set of      *)
(* units.                                                                  *)
(*                                                                         *)
(* A literal is [l, r, positive, oriented]; an atom P that is no equation  *)
(* is P = $true.  A clause is the sequence of its literals.                *)
(***************************************************************************)
EXTENDS Unification, TLC

CONSTANT Codes \* the function codes: a number for every symbol

True == <<"$true">>

EqnIsEquLit(lit)       == lit.r # True
EqnStandardWeight(lit) == StandardWeight(lit.l) + StandardWeight(lit.r)
PosLits(clause) == SelectSeq(clause, LAMBDA lit : lit.positive)
NegLits(clause) == SelectSeq(clause, LAMBDA lit : ~lit.positive)
ClauseStandardWeight(clause) == FoldSeq(LAMBDA lit, w : EqnStandardWeight(lit) + w, 0, clause)

----------------------------------------------------------------------------
(* Only literals that are equal in this quasi-ordering can subsume each    *)
(* other; clauses are sorted from the greatest to the least, and heavier   *)
(* literals first.                                                         *)

Number(condition) == IF condition THEN 1 ELSE 0

EqnSubsumeQOrderCompare(l1, l2) ==
    IF l1.positive # l2.positive THEN Number(l1.positive) - Number(l2.positive)
    ELSE IF EqnIsEquLit(l1) # EqnIsEquLit(l2) THEN Number(EqnIsEquLit(l1)) - Number(EqnIsEquLit(l2))
    ELSE IF EqnIsEquLit(l1) THEN 0 ELSE Codes[FCode(l1.l)] - Codes[FCode(l2.l)]

EqnSubsumeInverseCompareRef(l1, l2) ==
    LET res == EqnSubsumeQOrderCompare(l2, l1)
    IN IF res # 0 THEN res ELSE EqnStandardWeight(l2) - EqnStandardWeight(l1)

ClauseSubsumeOrderSortLits(clause) ==
    SortSeq(clause, LAMBDA l1, l2 : EqnSubsumeInverseCompareRef(l1, l2) < 0)

(* Can no literal of a sorted clause from eqn on be an instance of lit? *)
NoneFrom(eqn, lit) == LET res == EqnSubsumeQOrderCompare(eqn, lit)
                      IN res < 0 \/ (res = 0 /\ EqnStandardWeight(eqn) < EqnStandardWeight(lit))

(* May eqn itself be one?  An instance of an oriented literal is oriented. *)
MayBeInstance(eqn, lit) == /\ EqnSubsumeQOrderCompare(eqn, lit) = 0
                           /\ EqnStandardWeight(eqn) >= EqnStandardWeight(lit)
                           /\ lit.oriented => eqn.oriented

(* The extensions of subst that match the pair l, r with s, t: one or none *)
Found(res) == IF res.ok THEN {res.subst} ELSE {}
MatchPair(l, r, s, t, subst) ==
    UNION {Found(SubstComputeMatch(r, t, left)) : left \in Found(SubstComputeMatch(l, s, subst))}

(* Those that match lit with eqn; both ways round unless lit is oriented   *)
EqnMatches(lit, eqn, subst) ==
    MatchPair(lit.l, lit.r, eqn.l, eqn.r, subst)
    \cup IF lit.oriented THEN {} ELSE MatchPair(lit.l, lit.r, eqn.r, eqn.l, subst)

find_spec_literal(lit, clause) ==
    \E i \in DOMAIN clause : /\ \A j \in 1..i : ~NoneFrom(clause[j], lit)
                             /\ MayBeInstance(clause[i], lit)
                             /\ EqnMatches(lit, clause[i], <<>>) # {}

check_subsumption_possibility(subsumer, clause) ==
    \A i \in DOMAIN subsumer : find_spec_literal(subsumer[i], clause)

(* Match the literals one after the other with literals of clause that are *)
(* not in pick_list yet, with backtracking over both choices.              *)
RECURSIVE eqn_list_rec_subsume(_, _, _, _)

(* Mutant: a literal that was picked stops the search like one too light.  *)
RecSubsumeStopped(lits, clause, subst, pick_list) ==
    \/ lits = <<>>
    \/ \E i \in DOMAIN clause \ pick_list :
         /\ \A j \in 1..i : j \notin pick_list /\ ~NoneFrom(clause[j], lits[1])
         /\ MayBeInstance(clause[i], lits[1])
         /\ \E extended \in EqnMatches(lits[1], clause[i], subst) :
               eqn_list_rec_subsume(Tail(lits), clause, extended, pick_list \cup {i})

eqn_list_rec_subsume(lits, clause, subst, pick_list) ==
    \/ lits = <<>>
    \/ \E i \in DOMAIN clause \ pick_list :
         /\ \A j \in (1..i) \ pick_list : ~NoneFrom(clause[j], lits[1])
         /\ MayBeInstance(clause[i], lits[1])
         /\ \E extended \in EqnMatches(lits[1], clause[i], subst) :
               eqn_list_rec_subsume(Tail(lits), clause, extended, pick_list \cup {i})

----------------------------------------------------------------------------
(* Units *)

(* The second way round is tried only if the left sides do not match.      *)
eqn_topsubsumes_termpair(eqn, s, t) ==
    IF SubstComputeMatch(eqn.l, s, <<>>).ok THEN MatchPair(eqn.l, eqn.r, s, t, <<>>) # {}
                                            ELSE MatchPair(eqn.l, eqn.r, t, s, <<>>) # {}

Differing(s, t) == {i \in DOMAIN Args(s) : Args(s)[i] # Args(t)[i]}

(* A positive unit may also apply at the one position where s and t differ.*)
RECURSIVE eqn_subsumes_termpair(_, _, _)

(* Mutant: at the first position where they differ. *)
SubsumesFirstDifference(eqn, s, t) ==
    \/ eqn_topsubsumes_termpair(eqn, s, t)
    \/ /\ FCode(s) = FCode(t) /\ Args(s) # <<>>
       /\ \/ Differing(s, t) = {}
          \/ LET i == Min(Differing(s, t))
             IN eqn_subsumes_termpair(eqn, Args(s)[i], Args(t)[i])

eqn_subsumes_termpair(eqn, s, t) ==
    \/ eqn_topsubsumes_termpair(eqn, s, t)
    \/ /\ FCode(s) = FCode(t) /\ Args(s) # <<>>
       /\ \/ Differing(s, t) = {}
          \/ \E i \in DOMAIN Args(s) : /\ Differing(s, t) = {i}
                                       /\ eqn_subsumes_termpair(eqn, Args(s)[i], Args(t)[i])

LiteralSubsumesClause(literal, clause) ==
    \E i \in DOMAIN clause :
       IF literal.positive
       THEN clause[i].positive /\ eqn_subsumes_termpair(literal, clause[i].l, clause[i].r)
       ELSE ~clause[i].positive /\ eqn_topsubsumes_termpair(literal, clause[i].l, clause[i].r)

(* In the set of indexed units an oriented unit is found by its left side  *)
(* only.                                                                   *)
FindSignedTopSimplifyingUnit(units, s, t, sign) ==
    \E unit \in units :
       /\ unit.positive = sign
       /\ \/ MatchPair(unit.l, unit.r, s, t, <<>>) # {}
          \/ ~unit.oriented /\ MatchPair(unit.r, unit.l, s, t, <<>>) # {}

RECURSIVE FindSimplifyingUnit(_, _, _)
FindSimplifyingUnit(units, s, t) ==
    \/ FindSignedTopSimplifyingUnit(units, s, t, TRUE)
    \/ /\ ~IsVar(s) /\ ~IsVar(t) /\ FCode(s) = FCode(t)
       /\ \E i \in DOMAIN Args(s) : /\ Differing(s, t) = {i}
                                    /\ FindSimplifyingUnit(units, Args(s)[i], Args(t)[i])

(* With StrongUnitForwardSubsumption the units may be different ones at    *)
(* all positions where the terms differ.                                   *)
RECURSIVE strongsubsumes_termpair(_, _, _)
strongsubsumes_termpair(units, s, t) ==
    \/ FindSignedTopSimplifyingUnit(units, s, t, TRUE)
    \/ /\ FCode(s) = FCode(t) /\ Differing(s, t) # {}
       /\ \A i \in Differing(s, t) : strongsubsumes_termpair(units, Args(s)[i], Args(t)[i])

unit_clause_set_subsumes_clause(units, clause, strong) ==
    \E i \in DOMAIN clause :
       LET s == clause[i].l
           t == clause[i].r
       IN IF ~clause[i].positive THEN FindSignedTopSimplifyingUnit(units, s, t, FALSE)
          ELSE IF strong THEN strongsubsumes_termpair(units, s, t)
          ELSE FindSimplifyingUnit(units, s, t)

(* Both clauses are sorted. *)
clause_subsumes_clause(subsumer, clause) ==
    IF subsumer = <<>> THEN TRUE
    ELSE IF Len(subsumer) = 1 THEN LiteralSubsumesClause(subsumer[1], clause)
    ELSE /\ Len(PosLits(subsumer)) <= Len(PosLits(clause))
         /\ Len(NegLits(subsumer)) <= Len(NegLits(clause))
         /\ ClauseStandardWeight(subsumer) <= ClauseStandardWeight(clause)
         /\ (Len(PosLits(clause)) >= 3 \/ Len(NegLits(clause)) >= 3)
               => check_subsumption_possibility(subsumer, clause)
         /\ eqn_list_rec_subsume(subsumer, clause, <<>>, {})

----------------------------------------------------------------------------
(* Properties *)

TermsOf(clause) == UNION {Subterms(clause[i].l) \cup Subterms(clause[i].r) : i \in DOMAIN clause}

(* Is eqn, instantiated by subst, the pair s, t one way or the other? *)
IsInstance(eqn, subst, s, t) ==
    {<<Apply(subst, eqn.l), Apply(subst, eqn.r)>>} \subseteq {<<s, t>>, <<t, s>>}

(* Multiset subsumption: an instance of the subsumer whose literals are    *)
(* different literals of the clause.                                       *)
MultisetSubsumes(subsumer, clause) ==
    \E subst \in [UNION {VarsOf(t) : t \in TermsOf(subsumer)} -> TermsOf(clause)] :
      \E pick \in {p \in [DOMAIN subsumer -> DOMAIN clause] : IsInjective(p)} :
         \A i \in DOMAIN subsumer :
            /\ subsumer[i].positive = clause[pick[i]].positive
            /\ EqnIsEquLit(subsumer[i]) = EqnIsEquLit(clause[pick[i]])
            /\ IsInstance(subsumer[i], subst, clause[pick[i]].l, clause[pick[i]].r)

(* Is the pair s, t an instance of one of the units, or, in contexts, does *)
(* it follow from instances (at one position only unless strong)?          *)
RECURSIVE FollowsFrom(_, _, _, _)
FollowsFrom(units, s, t, strong) ==
    \/ \E unit \in units, subst \in [UNION {VarsOf(u.l) \cup VarsOf(u.r) : u \in units}
                                     -> Subterms(s) \cup Subterms(t)] :
          IsInstance(unit, subst, s, t)
    \/ /\ FCode(s) = FCode(t) /\ Differing(s, t) # {}
       /\ strong \/ Cardinality(Differing(s, t)) = 1
       /\ \A i \in Differing(s, t) : FollowsFrom(units, Args(s)[i], Args(t)[i], strong)

UnitsSubsume(units, clause, strong) ==
    LET of(sign) == {u \in units : u.positive = sign}
    IN \E i \in DOMAIN clause :
          LET s == clause[i].l
              t == clause[i].r
          IN IF clause[i].positive
             THEN s = t \/ (of(TRUE) # {} /\ FollowsFrom(of(TRUE), s, t, strong))
             ELSE \E unit \in of(FALSE) :
                     MatchPair(unit.l, unit.r, s, t, <<>>) \cup
                     MatchPair(unit.r, unit.l, s, t, <<>>) # {}

(* Subsumption between clauses of several literals is exactly multiset     *)
(* subsumption: sorting, weights and counts let it give up early, and      *)
(* partial matches are taken back, without a wrong answer.                 *)
SubsumptionIsRight(subsumer, clause) ==
    Len(subsumer) # 1 =>
        (clause_subsumes_clause(ClauseSubsumeOrderSortLits(subsumer),
                                ClauseSubsumeOrderSortLits(clause))
            <=> MultisetSubsumes(subsumer, clause))

(* A unit discards only clauses that follow from it.  For clauses without  *)
(* trivial literals, which are gone before, the search among the indexed   *)
(* units misses nothing, and the search for clauses that a new unit        *)
(* discards misses one only if the left side of the unit matches terms on  *)
(* both sides of a literal.                                                *)
UnitSubsumptionIsRight(unit, clause) ==
    LET backward == LiteralSubsumesClause(unit, clause)
        forward(strong) == unit_clause_set_subsumes_clause({unit}, clause, strong)
        implied(strong) == UnitsSubsume({unit}, clause, strong)
        twice == \E i \in DOMAIN clause, s, t \in TermsOf(clause) :
                    /\ s \in Subterms(clause[i].l) /\ t \in Subterms(clause[i].r)
                    /\ SubstComputeMatch(unit.l, s, <<>>).ok /\ SubstComputeMatch(unit.l, t, <<>>).ok
        trivial == \E i \in DOMAIN clause : clause[i].positive /\ clause[i].l = clause[i].r
    IN /\ backward => implied(FALSE)
       /\ forward(TRUE) => implied(TRUE)
       /\ ~trivial => /\ forward(FALSE) <=> implied(FALSE)
                      /\ forward(FALSE) => forward(TRUE)
                      /\ implied(FALSE) /\ ~twice => backward
=============================================================================
