---------------------------- MODULE ClauseLogic ----------------------------
(***************************************************************************)
(* Clauses and the inferences between them, as the saturation loop of      *)
(* CONTROL/cco_proofproc.c uses them.  A clause is a finite set of         *)
(* literals.  What a literal is, and which terms match, unify or are       *)
(* bigger than others, is given by constant relations: one element of      *)
(* Rewrites, Paramods or Factors is one successful match or unification    *)
(* of the code.  Sat gives the meaning of a literal, so that an inference  *)
(* can be called sound.                                                    *)
(***************************************************************************)
EXTENDS Integers, FiniteSets, Functions

CONSTANTS
    Lit,        \* literals (EqnCell)
    Val,        \* interpretations
    Sat,        \* Sat[l]: the interpretations in which l holds
    Positive,   \* EqnIsPositive
    Oriented,   \* the positive literals with EqnIsOriented
    Top,        \* the literal $true=$true that EqnListFindTrue looks for
    Covers,     \* <<l, k>>: k is an instance of l (EqnSubsumeP)
    Cuts,       \* <<u, l>>: l is an instance of the negation of u
    Bigger,     \* <<l, k>>: l is greater than k in the literal ordering
    Selected,   \* Selected[c]: the negative literals DoLiteralSelection marks
    Rewrites,   \* [rule, from, to, side, renaming]: unit rule rewrites from
    Paramods,   \* [from, into, to]: from paramodulates into into
    Factors,    \* [lit, other, to]: equality factoring of lit with other
    EqRes,      \* the negative literals whose sides unify
    VarLits     \* the ones among them of the form X!=t (ER is destructive)

Clause == SUBSET Lit
Side   == {"max", "min"}

ASSUME LitAssumption ==
    /\ IsFiniteSet(Lit)
    /\ Positive \subseteq Lit
    /\ Oriented \subseteq Positive
    /\ Top \in Lit
    /\ Bigger \subseteq Lit \X Lit
    /\ VarLits \subseteq EqRes
    /\ EqRes \subseteq Lit
    /\ Selected \in [Clause -> Clause]

(***************************************************************************)
(* The relations record sound inferences: that is nearly all the proofs    *)
(* use.  Covers relates literals of one sign only, as the subsumption code *)
(* tests with PropsAreEquiv before it matches.                             *)
(***************************************************************************)
ASSUME SatAssumption ==
    /\ Sat \in [Lit -> SUBSET Val]
    /\ Sat[Top] = Val
    /\ \A l \in EqRes : Sat[l] = {}

ASSUME MatchAssumption ==
    /\ Covers \subseteq Lit \X Lit
    /\ Cuts \subseteq Lit \X Lit
    /\ \A l, k \in Lit : <<l, k>> \in Covers => Sat[l] \subseteq Sat[k]
    /\ \A l, k \in Lit : <<l, k>> \in Covers => (l \in Positive <=> k \in Positive)
    /\ \A u, l \in Lit : <<u, l>> \in Cuts => Sat[u] \cap Sat[l] = {}

ASSUME RewritesAssumption ==
    /\ Rewrites \subseteq [rule : Lit, from : Lit, to : Clause,
                           side : Side, renaming : BOOLEAN]
    /\ \A r \in Rewrites : \A v \in Sat[r.rule] :
          v \in Sat[r.from] <=> \E l \in r.to : v \in Sat[l]

ASSUME InferenceAssumption ==
    /\ Paramods \subseteq [from : Lit, into : Lit, to : Clause]
    /\ \A p \in Paramods : \A v \in Sat[p.from] \cap Sat[p.into] :
          \E l \in p.to : v \in Sat[l]
    /\ Factors \subseteq [lit : Lit, other : Lit, to : Clause]
    /\ \A f \in Factors : \A v \in Sat[f.lit] :
          v \in Sat[f.other] \/ \E l \in f.to : v \in Sat[l]

----------------------------------------------------------------------------
(* Meaning *)

Holds(v, c) == \E l \in c : v \in Sat[l]
Models(N)   == {v \in Val : \A c \in N : Holds(v, c)}

----------------------------------------------------------------------------
(* Shape of a clause *)

IsUnit(c)        == Cardinality(c) = 1
IsPositive(c)    == c \subseteq Positive
IsNegative(c)    == c \cap Positive = {}
IsDemodulator(c) == IsUnit(c) /\ IsPositive(c)
IsRWRule(c)      == IsUnit(c) /\ c \subseteq Oriented
Maximal(l, c)    == \A k \in c : <<k, l>> \notin Bigger

(* ClauseIsTrivial: a literal $true, or a literal and its negation. *)
IsTrivial(c) == \/ Top \in c
                \/ \E l \in c \cap Positive, k \in c \ Positive :
                      <<l, k>> \in Cuts /\ Sat[l] \cup Sat[k] = Val

(* ClauseIsTautology: completing the negative equations decides validity. *)
IsTautology(c) == UNION {Sat[l] : l \in c} = Val

----------------------------------------------------------------------------
(* Subsumption: an injection of the literals, so a clause never subsumes a *)
(* shorter one.                                                            *)

Subsumes(d, c) ==
    /\ Cardinality(d) <= Cardinality(c)
    /\ \E f \in Injection(d, c) : \A l \in d : <<l, f[l]>> \in Covers

(* Mutant: the candidate of the index is taken without the subsumption     *)
(* test.                                                                   *)
CutCandidates(d, c, cut) == \E m \in d : <<m, cut>> \in Cuts

(* With literal cut of c flipped, d subsumes c: then cut can be removed. *)
ContextCuts(d, c, cut) ==
    /\ Cardinality(d) <= Cardinality(c)
    /\ \E f \in Injection(d, c) : \E m \in d :
          /\ f[m] = cut
          /\ <<m, cut>> \in Cuts
          /\ \A l \in d \ {m} : <<l, f[l]>> \in Covers

----------------------------------------------------------------------------
(* Generating inferences: conclusions as sets of literals. *)

Into(c) == IF Selected[c] # {} THEN Selected[c]
           ELSE {l \in c : Maximal(l, c)}
From(c) == IF Selected[c] # {} THEN {}
           ELSE {l \in c \cap Positive : Maximal(l, c)}

Paramodulants(c, d) ==
    {(c \ {p.from}) \cup (d \ {p.into}) \cup p.to :
        p \in {q \in Paramods : q.from \in From(c) /\ q.into \in Into(d)}}

EqFactors(c) ==
    {(c \ {f.lit}) \cup f.to :
        f \in {g \in Factors : g.lit \in From(c) /\ g.other \in c \ {g.lit}}}

EqResolvents(c) == {c \ {l} : l \in Into(c) \cap EqRes}
=============================================================================
