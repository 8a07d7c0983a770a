--------------------------- MODULE MCSharedTerms ---------------------------
(* Small problems for SharedTerms, with the terms of a small signature up  *)
(* to a weight and their Knuth-Bendix ordering.  No term is rewritten to a *)
(* heavier one.                                                            *)
EXTENDS SharedTerms, FiniteSets

Variables  == {"X", "Y"}
Weight     == [s \in {"a", "b", "c", "f", "g"} |-> 1]
VarWeight  == 1
Prec       == [a |-> 1, b |-> 3, c |-> 2, f |-> 4, g |-> 5]
KBO        == INSTANCE TermOrderings

X == <<"X">>
Y == <<"Y">>
a == <<"a">>
b == <<"b">>
c == <<"c">>
f(t) == <<"f", t>>
g(s, t) == <<"g", s, t>>

TermsOfWeight[w \in 1..4] ==
    IF w = 1 THEN {X, Y, a, b, c}
    ELSE {f(t) : t \in TermsOfWeight[w - 1]}
         \cup UNION {{g(s, t) : s \in TermsOfWeight[v], t \in TermsOfWeight[w - 1 - v]} :
                       v \in 1..(w - 2)}

Terms == UNION {TermsOfWeight[w] : w \in 1..4}

(* Tables, so that nothing is computed twice *)
SubtermTable == [t \in Terms |-> KBO!Subterms(t)]
MatchTable   == [l \in Terms |-> [t \in Terms |-> KBO!Matchers(l, t)]]
SmallerTable == [s \in Terms |-> {t \in Terms : KBO!KBOGreater(s, t)}]

TermIsVar(t)         == KBO!IsVar(t)
TermArgs(t)          == KBO!Args(t)
TermSubterms(t)      == SubtermTable[t]
TermVarsOf(t)        == KBO!VarsOf(t)
TermRebuilt(t, args) == <<KBO!FCode(t)>> \o args
TermMatchers(l, t)   == MatchTable[l][t]
TermApply(subst, t)  == KBO!Apply(subst, t)
TermIsRenaming(subst) == KBO!IsRenaming(subst)
TermGreater(s, t)    == t \in SmallerTable[s]

Eq(s, t) == <<s, t, TRUE>>
Ne(s, t) == <<s, t, FALSE>>

(* The searches for some clauses, with both ways of finding what is        *)
(* backward rewritten.                                                     *)
Searches(axioms, new, levels, indexed) ==
    {[axioms |-> axioms, later |-> new, forward_demod |-> level, indexed |-> i] :
        level \in levels, i \in indexed}

(* Rules with subterms in common, one of them rewrites to a variable.      *)
Unary(levels, indexed) ==
    Searches({Eq(f(b), a), Eq(c, b), Ne(f(c), b)}, {Eq(f(X), X)}, levels, indexed)

(* A rule on its way back with a restricted left side f(a), a proper       *)
(* instance of the equation that came meanwhile, and another use of f(a).  *)
Instance(indexed) ==
    Searches({Eq(f(a), b), Eq(b, c), Ne(g(f(a), a), c)}, {Eq(f(X), a)}, {2}, indexed)

(* The same, and the rule that comes meanwhile has the same left side.     *)
Variant == Searches({Eq(f(a), b), Eq(b, c)}, {Eq(f(a), a)}, {0, 2}, BOOLEAN)

(* An equation that has no direction, but its instances have.              *)
Commutative == Searches({Eq(g(X, Y), g(Y, X)), Ne(f(g(b, a)), f(c)), Eq(g(a, b), c)},
                        {Eq(c, b)}, {2}, {FALSE})

(* A term below the reach of the index.                                    *)
Deep(indexed) == Searches({Eq(f(f(f(b))), c), Ne(f(f(c)), b)}, {Eq(b, a), Eq(f(a), a)}, {2},
                          indexed)

AllProblems == Unary({2}, {FALSE}) \cup Unary({1}, {TRUE}) \cup Instance({FALSE}) \cup Variant
               \cup Commutative \cup Deep({FALSE})
DeepProblems     == Deep({TRUE})
InstanceProblems == Instance(BOOLEAN)
=============================================================================
