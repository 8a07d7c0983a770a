--------------------------- MODULE TermOrderings ---------------------------
(***************************************************************************)
(* Reduction orderings on terms, as E computes them (ORDERINGS/).          *)
(***************************************************************************)
EXTENDS Terms

CONSTANTS
    Weight,    \* OCBFunWeight: of a function symbol
    VarWeight, \* ocb->var_weight
    Prec       \* a number for every function symbol; OCBFunCompare compares them

ASSUME OrderingAssumption ==
    /\ VarWeight \in Nat \ {0}
    /\ DOMAIN Weight = DOMAIN Prec /\ IsInjective(Prec)
    /\ \A f \in DOMAIN Weight : Weight[f] \in Nat /\ Prec[f] \in Nat

----------------------------------------------------------------------------
(* The Knuth-Bendix ordering by its definition, the reference *)

RECURSIVE TermWeight(_)
TermWeight(t) == IF IsVar(t) THEN VarWeight
                 ELSE Weight[FCode(t)] + FoldSeq(LAMBDA a, w : TermWeight(a) + w, 0, Args(t))

RECURSIVE KBOGreater(_, _)
KBOGreater(s, t) ==
    LET lex == \E i \in DOMAIN Args(s) :
                  /\ \A j \in 1..(i - 1) : Args(s)[j] = Args(t)[j]
                  /\ KBOGreater(Args(s)[i], Args(t)[i])
    IN /\ ~IsVar(s) /\ \A x \in VarsOf(t) : Occurrences(x, s) >= Occurrences(x, t)
       /\ \/ TermWeight(s) > TermWeight(t)
          \/ /\ TermWeight(s) = TermWeight(t)
             /\ \/ IsVar(t)
                \/ Prec[FCode(s)] > Prec[FCode(t)]
                \/ FCode(s) = FCode(t) /\ lex
----------------------------------------------------------------------------
(* Results of a comparison, and the precedence                             *)

OCBFunCompare(f, g) == IF Prec[f] > Prec[g] THEN "greater"
                       ELSE IF Prec[f] < Prec[g] THEN "lesser" ELSE "equal"

----------------------------------------------------------------------------
(* cto_kbo.c: weights and occurrences of variables are counted anew for    *)
(* every pair of subterms.                                                 *)

KBOVarCompare(s, t) ==
    LET vars == VarsOf(s) \cup VarsOf(t)
        more == {x \in vars : Occurrences(x, s) > Occurrences(x, t)}
        less == {x \in vars : Occurrences(x, s) < Occurrences(x, t)}
    IN IF more # {} /\ less # {} THEN "uncomparable"
       ELSE IF more # {} THEN "greater" ELSE IF less # {} THEN "lesser" ELSE "equal"

(* res, if the variables allow it *)
Confirmed(res, s, t) == IF KBOVarCompare(s, t) \in {res, "equal"} THEN res ELSE "uncomparable"

RECURSIVE KBOCompare(_, _)
KBOCompare(s, t) ==
    LET ws  == TermWeight(s)
        wt  == TermWeight(t)
        top == OCBFunCompare(FCode(s), FCode(t))
        differ == {i \in DOMAIN Args(s) : KBOCompare(Args(s)[i], Args(t)[i]) # "equal"}
        lex == LET i == Min(differ) IN KBOCompare(Args(s)[i], Args(t)[i])
    IN IF s = t THEN "equal"
       ELSE IF IsVar(t) THEN IF t \in Subterms(s) THEN "greater" ELSE "uncomparable"
       ELSE IF IsVar(s) THEN IF s \in Subterms(t) THEN "lesser" ELSE "uncomparable"
       ELSE IF ws # wt THEN Confirmed(IF ws > wt THEN "greater" ELSE "lesser", s, t)
       ELSE IF top # "equal" THEN Confirmed(top, s, t)
       ELSE IF differ = {} THEN "equal"
       ELSE IF lex = "uncomparable" THEN lex ELSE Confirmed(lex, s, t)

----------------------------------------------------------------------------
(* cto_kbolin.c: one pass over both terms, with the balance of weights and *)
(* of variables kept in the OCB.  pos_bal and neg_bal count the variables  *)
(* whose balance is above and below zero.                                  *)

NoBalance == [wb |-> 0, vb |-> [x \in Variables |-> 0], pos_bal |-> 0, neg_bal |-> 0]

One(condition) == IF condition THEN 1 ELSE 0

(* Mutant: a variable that is balanced again stays counted as negative.    *)
IncPositive(b, x) == [wb |-> b.wb + VarWeight, vb |-> [b.vb EXCEPT ![x] = @ + 1],
                      pos_bal |-> b.pos_bal + One(b.vb[x] = 0), neg_bal |-> b.neg_bal]

inc_vb(b, x) == [wb |-> b.wb + VarWeight, vb |-> [b.vb EXCEPT ![x] = @ + 1],
                 pos_bal |-> b.pos_bal + One(b.vb[x] = 0),
                 neg_bal |-> b.neg_bal - One(b.vb[x] = -1)]

dec_vb(b, x) == [wb |-> b.wb - VarWeight, vb |-> [b.vb EXCEPT ![x] = @ - 1],
                 neg_bal |-> b.neg_bal + One(b.vb[x] = 0),
                 pos_bal |-> b.pos_bal - One(b.vb[x] = 1)]

RECURSIVE mfyvwblhs(_, _)
mfyvwblhs(b, t) ==
    IF IsVar(t) THEN inc_vb(b, FCode(t))
    ELSE FoldSeq(LAMBDA a, bal : mfyvwblhs(bal, a),
                 [b EXCEPT !.wb = @ + Weight[FCode(t)]], Args(t))

RECURSIVE mfyvwbrhs(_, _)
mfyvwbrhs(b, t) ==
    IF IsVar(t) THEN dec_vb(b, FCode(t))
    ELSE FoldSeq(LAMBDA a, bal : mfyvwbrhs(bal, a),
                 [b EXCEPT !.wb = @ - Weight[FCode(t)]], Args(t))

(* The balance decides, and res only if the weights are the same.          *)
Decide(b, res) ==
    LET greater == IF b.neg_bal # 0 THEN "uncomparable" ELSE "greater"
        lesser  == IF b.pos_bal # 0 THEN "uncomparable" ELSE "lesser"
    IN IF b.wb > 0 \/ (b.wb = 0 /\ res = "greater") THEN greater
       ELSE IF b.wb < 0 \/ res = "lesser" THEN lesser ELSE res

RECURSIVE kbolincmp(_, _, _)
kbolincmp(b, s, t) ==
    LET n == Len(Args(s))
        (* the arguments from the first different one on are only weighed *)
        after[i \in 0..n] ==
            IF i = 0 THEN [res |-> "equal", bal |-> b]
            ELSE IF after[i - 1].res = "equal"
                 THEN kbolincmp(after[i - 1].bal, Args(s)[i], Args(t)[i])
            ELSE [after[i - 1] EXCEPT !.bal = mfyvwbrhs(mfyvwblhs(@, Args(s)[i]), Args(t)[i])]
        weighed == mfyvwbrhs(mfyvwblhs(b, s), t)
    IN IF FCode(s) = FCode(t)
       THEN IF n = 0 \/ after[n - 1].res = "equal" THEN after[n]
            ELSE [res |-> Decide(after[n].bal, after[n].res), bal |-> after[n].bal]
       ELSE [bal |-> weighed,
             res |-> IF IsVar(s) THEN IF IsVar(t) \/ weighed.pos_bal # 0 THEN "uncomparable"
                                                                        ELSE "lesser"
                     ELSE IF IsVar(t) THEN IF weighed.neg_bal # 0 THEN "uncomparable"
                                                                   ELSE "greater"
                     ELSE Decide(weighed, OCBFunCompare(FCode(s), FCode(t)))]

KBO6Compare(s, t) == kbolincmp(NoBalance, s, t).res

(* The earlier version, which the assertion in KBO6Compare compares with.  *)
RECURSIVE Unwrapped(_, _)
Unwrapped(s, t) == IF FCode(s) = FCode(t) /\ Len(Args(s)) = 1
                   THEN Unwrapped(Args(s)[1], Args(t)[1]) ELSE <<s, t>>

RECURSIVE kbo6cmp(_, _, _)
kbo6cmp(b, s0, t0) ==
    LET s == Unwrapped(s0, t0)[1]
        t == Unwrapped(s0, t0)[2]
        n == Len(Args(s))
        after[i \in 0..n] ==
            IF i = 0 THEN [res |-> "equal", bal |-> b]
            ELSE IF after[i - 1].res = "equal"
                 THEN kbo6cmp(after[i - 1].bal, Args(s)[i], Args(t)[i])
            ELSE [after[i - 1] EXCEPT !.bal = mfyvwbrhs(mfyvwblhs(@, Args(s)[i]), Args(t)[i])]
        weighed == mfyvwbrhs(mfyvwblhs(b, s), t)
    IN IF IsVar(s) /\ IsVar(t) THEN [bal |-> weighed,
                                     res |-> IF s = t THEN "equal" ELSE "uncomparable"]
       ELSE IF IsVar(s) THEN [bal |-> weighed, res |-> IF FCode(s) \in VarsOf(t) THEN "lesser"
                                                       ELSE "uncomparable"]
       ELSE IF IsVar(t) THEN [bal |-> weighed, res |-> IF FCode(t) \in VarsOf(s) THEN "greater"
                                                       ELSE "uncomparable"]
       ELSE IF FCode(s) = FCode(t) THEN [bal |-> after[n].bal,
                                         res |-> Decide(after[n].bal, after[n].res)]
       ELSE [bal |-> weighed, res |-> Decide(weighed, OCBFunCompare(FCode(s), FCode(t)))]

----------------------------------------------------------------------------
(* The lexicographic path ordering by its definition, the reference *)

RECURSIVE LPODefinition(_, _)
LPODefinition(s, t) ==
    /\ ~IsVar(s)
    /\ \/ \E i \in DOMAIN Args(s) : Args(s)[i] = t \/ LPODefinition(Args(s)[i], t)
       \/ /\ ~IsVar(t) /\ \A j \in DOMAIN Args(t) : LPODefinition(s, Args(t)[j])
          /\ \/ Prec[FCode(s)] > Prec[FCode(t)]
             \/ /\ FCode(s) = FCode(t)
                /\ \E i \in DOMAIN Args(s) :
                      /\ \A j \in 1..(i - 1) : Args(s)[j] = Args(t)[j]
                      /\ LPODefinition(Args(s)[i], Args(t)[i])

----------------------------------------------------------------------------
(* cto_lpo.c: lpo_greater, with the condition (iii) of its header; a       *)
(* result "notgteq" says that only the other direction is still possible.  *)

RECURSIVE lpo_greater(_, _)
lpo_greater(s, t) ==
    LET dominates_args == \A i \in DOMAIN Args(t) : lpo_greater(s, Args(t)[i]) = "greater"
        arg_dominates  == \E i \in DOMAIN Args(s) :
                              lpo_greater(Args(s)[i], t) \in {"greater", "equal"}
        top    == OCBFunCompare(FCode(s), FCode(t))
        differ == {i \in DOMAIN Args(s) : lpo_greater(Args(s)[i], Args(t)[i]) # "equal"}
        lex    == IF differ = {} THEN "equal"
                  ELSE LET i == Min(differ) IN lpo_greater(Args(s)[i], Args(t)[i])
        greater(condition) == IF condition THEN "greater" ELSE "notgteq"
    IN IF IsVar(s) THEN IF s = t THEN "equal" ELSE IF IsVar(t) THEN "uncomparable" ELSE "notgteq"
       ELSE IF IsVar(t) THEN IF t \in Subterms(s) THEN "greater" ELSE "uncomparable"
       ELSE IF top = "greater" THEN greater(dominates_args)
       ELSE IF top = "lesser"  THEN greater(arg_dominates)
       ELSE IF lex = "equal"   THEN "equal"
       ELSE greater(\/ lex = "greater" /\ dominates_args
                    \/ Len(Args(s)) >= 2 /\ arg_dominates)

LPOCompare(s, t) ==
    IF lpo_greater(s, t) # "notgteq" THEN lpo_greater(s, t)
    ELSE IF lpo_greater(t, s) = "greater" THEN "lesser" ELSE "uncomparable"

----------------------------------------------------------------------------
(* LPO4: an argument of s that was found to be equal to that of t, or not  *)
(* greater, is not looked at again.                                        *)

RECURSIVE lpo4_greater(_, _), lpo4_majo(_, _, _), lpo4_alpha(_, _, _), lpo4_lex_ma(_, _)

(* Mutant: the argument after the first greater one is not looked at.      *)
MajoAfter(s, t, pos) == \A i \in DOMAIN Args(t) : i > pos => lpo4_greater(s, Args(t)[i])

lpo4_majo(s, t, pos) == \A i \in DOMAIN Args(t) : i >= pos => lpo4_greater(s, Args(t)[i])

lpo4_alpha(s, pos, t) ==
    \E i \in DOMAIN Args(s) : i >= pos /\ (Args(s)[i] = t \/ lpo4_greater(Args(s)[i], t))

lpo4_lex_ma(s, t) ==
    LET differ == {i \in DOMAIN Args(s) : Args(s)[i] # Args(t)[i]}
        pos    == Min(differ)
    IN /\ differ # {}
       /\ IF lpo4_greater(Args(s)[pos], Args(t)[pos]) THEN lpo4_majo(s, t, pos + 1)
                                                      ELSE lpo4_alpha(s, pos + 1, t)

lpo4_greater(s, t) ==
    LET top == OCBFunCompare(FCode(s), FCode(t))
    IN /\ ~IsVar(s)
       /\ IF IsVar(t) THEN t \in Subterms(s)
          ELSE IF top = "greater" THEN lpo4_majo(s, t, 1)
          ELSE IF top = "equal"   THEN lpo4_lex_ma(s, t)
          ELSE lpo4_alpha(s, 1, t)

LPO4Compare(s, t) == IF s = t THEN "equal"
                     ELSE IF lpo4_greater(s, t) THEN "greater"
                     ELSE IF lpo4_greater(t, s) THEN "lesser" ELSE "uncomparable"

----------------------------------------------------------------------------
(* Properties *)

Defined(greater(_, _), s, t) ==
    IF s = t THEN "equal" ELSE IF greater(s, t) THEN "greater"
    ELSE IF greater(t, s) THEN "lesser" ELSE "uncomparable"

(* The three computations of the Knuth-Bendix ordering give what its       *)
(* definition says, and the one-pass version agrees with the earlier one:  *)
(* the assertion in KBO6Compare.                                           *)
KBOIsRight(s, t) ==
    LET res == Defined(KBOGreater, s, t)
    IN KBO6Compare(s, t) = res /\ kbo6cmp(NoBalance, s, t).res = res /\ KBOCompare(s, t) = res

(* So do the two computations of the lexicographic path ordering (the      *)
(* assertion in LPO4CompareCopy).                                          *)
LPOIsRight(s, t) ==
    LET res == Defined(LPODefinition, s, t)
    IN LPOCompare(s, t) = res /\ LPO4Compare(s, t) = res
=============================================================================
