---------------------------- MODULE MCAlgorithms ----------------------------
(***************************************************************************)
(* The algorithms on terms, clauses and formulas, each for many small      *)
(* inputs: a behaviour takes one part, and runs its algorithm on one input *)
(* or its index through operations in any order.                           *)
(***************************************************************************)
EXTENDS CoreAllocation, TermOrderings, Precedence, FingerprintIndex, PDTrees, FVIndexing,
        Clausification, ClauseSelection

VARIABLES part, \* which algorithm
          call  \* its input: <<x>>, then <<x, y>>

indexVars     == <<fpindex, pdt, answer, fvi>>
algorithmVars == <<part, call, precedenceVars, indexVars, selectionVars>>

----------------------------------------------------------------------------
(* Symbols, in the order of their codes; g and n come after the feature    *)
(* vectors are set up.                                                     *)

FunCodes    == [s \in {"$true", "p", "a", "b", "f", "q", "n", "g"} |->
                  CASE s = "$true" -> 1 [] s = "p" -> 3 [] s = "a" -> 4 [] s = "b" -> 5
                    [] s = "f" -> 6 [] s = "q" -> 7 [] s = "n" -> 8 [] s = "g" -> 9]
FunWeights  == [a |-> 1, b |-> 2, f |-> 0, g |-> 1, n |-> 1]
Precedences == [a |-> 2, b |-> 1, f |-> 5, g |-> 3, n |-> 4]

X == <<"X">>
Y == <<"Y">>
Z == <<"Z">>
U == <<"U">>
V == <<"V">>
a == <<"a">>
b == <<"b">>
n == <<"n">>
f(t) == <<"f", t>>
g(s, t) == <<"g", s, t>>
p(t) == <<"p", t>>
q(t) == <<"q", t>>

(* Terms over some terms, one and two symbols deep *)
Over(S)      == {f(t) : t \in S} \cup {g(s, t) : s \in S, t \in S}
TwoOver(S)   == {g(s, t) : s \in S, t \in Over(S)} \cup {g(t, s) : s \in S, t \in Over(S)}

Simple == {X, Y, a, b}
Unary  == {f(t) : t \in Simple}
OrderingTerms == Simple \cup Over(Simple) \cup {f(t) : t \in Over(Simple)}
                 \cup {g(s, t) : s \in Simple, t \in Unary} \cup {g(t, s) : s \in Simple, t \in Unary}

----------------------------------------------------------------------------
(* What the user says of the precedence: relations of different symbols,   *)
(* and two contradictions                                                  *)

Relations == {<<f1, f2, r>> : f1 \in 2..5, f2 \in 2..5, r \in {"greater", "lesser", "equal"}}
UserConstraints == {c \in Relations : c[1] < c[2]} \cup {<<2, 2, "equal">>, <<1, 3, "greater">>}
Generated       == {<<2, 3, 4, 5>>, <<5, 3, 2, 4>>, <<4, 5, 2, 3>>}

----------------------------------------------------------------------------
(* Matching and unification *)

Small  == {X, Y, a}
Patterns == Small \cup Over(Small) \cup TwoOver(Small)
Earlier == {<<>>, <<<<"X", a>>>>, <<<<"Y", f(a)>>>>}
Values   == {a, f(a), X, f(X), g(a, a)}

----------------------------------------------------------------------------
(* Subsumption: literals are oriented by the ordering                      *)

Eqn(s, t, positive) ==
    CASE KBOGreater(s, t) -> [l |-> s, r |-> t, positive |-> positive, oriented |-> TRUE]
      [] KBOGreater(t, s) -> [l |-> t, r |-> s, positive |-> positive, oriented |-> TRUE]
      [] OTHER            -> [l |-> s, r |-> t, positive |-> positive, oriented |-> FALSE]
Atom(t, positive) == [l |-> t, r |-> True, positive |-> positive, oriented |-> TRUE]

General == {Atom(p(X), TRUE), Atom(p(Y), TRUE), Atom(p(f(X)), FALSE), Eqn(f(X), Y, TRUE),
            Eqn(f(X), a, FALSE), Eqn(g(X, Y), g(Y, X), TRUE), Eqn(f(a), X, TRUE), Eqn(f(X), f(Y), TRUE)}
Special == {Atom(p(a), TRUE), Atom(p(b), TRUE), Atom(p(f(a)), TRUE), Atom(p(f(b)), FALSE),
            Eqn(f(a), b, TRUE), Eqn(f(b), f(a), TRUE), Eqn(f(X), a, TRUE), Eqn(f(b), a, FALSE),
            Eqn(g(a, b), g(b, a), TRUE)}
Subsumers == {<<l, k>> : l \in General, k \in General}
Subsumed  == {<<l, k>> : l \in Special, k \in Special}
             \cup {<<l, k, Atom(p(a), TRUE), Atom(p(f(a)), TRUE)>> : l \in Special, k \in Special}

UnitSides == Simple \cup {f(X), f(a), g(X, Y), g(Y, X), g(a, X), g(f(a), b), f(f(X))}
Units     == {Eqn(s, t, TRUE) : s \in UnitSides, t \in UnitSides \ {Y, b}}
             \cup {Eqn(s, t, FALSE) : s \in {f(X), g(X, Y), a}, t \in {f(a), g(Y, X), b}}
UnitTerms == {a, b, f(a), f(b), f(f(a)), g(a, b), g(b, a), g(f(a), f(b)), g(f(b), f(a)), g(a, a),
              g(a, X), g(f(a), a)}
Targets   == {<<Eqn(s, t, positive)>> : s \in UnitTerms, t \in UnitTerms, positive \in BOOLEAN}

----------------------------------------------------------------------------
(* The indices *)

IndexedTerms == {f(X), f(a), g(X, X), g(f(X), b), g(a, Y), f(g(X, a)), f(f(a)), a}
SoughtTerms  == {U, f(U), f(f(U)), g(U, V), g(U, U), g(f(U), V), f(g(a, V)), g(f(b), V), f(a), a, b,
                 f(f(a)), g(U, b)}

LeftSides == {<<g(X, X), 1>>, <<g(X, Y), 2>>, <<g(f(X), X), 3>>, <<g(X, f(a)), 4>>}
Redexes   == {g(f(a), f(a)), g(f(a), a), g(Y, Y)}

Clause(literals) == ClauseSubsumeOrderSortLits(literals)
Widest(t) == Clause(<<Atom(p(t), TRUE), Atom(q(t), FALSE)>>)
Wider(t)  == Clause(<<Atom(p(f(t)), TRUE), Atom(q(f(t)), FALSE), Eqn(f(a), b, TRUE)>>)
Narrow    == Clause(<<Atom(p(f(n)), TRUE), Atom(q(f(n)), FALSE), Eqn(f(a), b, TRUE), Eqn(f(f(b)), n, FALSE)>>)
Unit      == <<Eqn(f(X), b, TRUE)>>
FVKept    == {Wider(X), Narrow, Unit}
FVSought  == {Widest(X), Wider(Y), Unit, Widest(n), Clause(<<Eqn(f(a), b, TRUE), Atom(p(a), FALSE)>>)}
FVTuning  == {{Widest(X), Wider(Y)}, {Widest(X)}}

----------------------------------------------------------------------------
(* Formulas *)

P == <<"+", <<"P">>>>
N == <<"-", <<"P">>>>
Q(x)      == <<"+", <<"Q", <<x>>>>>>
R(x, y)   == <<"+", <<"R", <<x>>, <<y>>>>>>
Same(x, y) == <<"+", <<"=", <<x>>, <<y>>>>>>
Connectives == {"&", "|", "=>", "<=>", "<~>", "<=", "~|", "~&"}
Quantifiers == {"!", "?"}

TwoVariables == {<<k1, "X", <<k2, "Y", <<o, F, G>>>>>> : k1 \in Quantifiers, k2 \in Quantifiers,
                   o \in Connectives, F \in {P, Q("X"), R("X", "Y")},
                   G \in {TrueForm, N, Q("X"), Q("Y"), Same("X", "Y")}}
Alternating  == {<<k1, "X", <<o1, Q("X"), <<k2, "Y", <<o2, R("X", "Y"), Q("Y")>>>>>>>> :
                   k1 \in Quantifiers, k2 \in Quantifiers, o1 \in {"&", "|", "=>", "<=>"},
                   o2 \in {"&", "|", "=>", "<=>"}}
Shadowed     == {<<"?", "X", <<"&", Q("X"), <<k, "X", <<o, Q("X"), P>>>>>>>> :
                   k \in Quantifiers, o \in Connectives}
Big          == <<"!", "X", <<"<=>", Q("X"), <<"?", "Y", R("X", "Y")>>>>>>
Shared       == {<<<<o1, F, P>>, <<o2, F, N>>>> : o1 \in {"|", "=>"}, o2 \in {"|", "=>", "<=>", "&"},
                   F \in {Big, <<"&", P, Big>>, <<"~", Big>>}}
                \cup {<<<<"|", F, P>>, <<"~", F>>>> : F \in {Big, <<"<=>", P, Big>>, <<"<~>", P, Big>>}}
FormulaSets  == {<<F>> : F \in TwoVariables \cup Alternating \cup Shadowed} \cup Shared

NewVariables == <<"V1", "V2", "V3", "V4", "V5", "V6", "V7", "V8">>
NewSymbols   == <<"s1", "s2", "s3", "s4", "s5", "s6", "s7", "s8", "s9", "s10", "s11", "s12">>

----------------------------------------------------------------------------
(* Schedules: fractions of some strategies, in percent *)

Fractions == UNION {[1..k -> {5, 33, 40}] : k \in 1..4} \cup {<<100>>, <<60, 40>>}

(* Heuristics: the turns of the evaluation functions in a round *)
Turns == {<<1>>, <<1, 1>>, <<2, 1>>}

----------------------------------------------------------------------------
Parts == {"schedules", "orderings", "precedence", "matching", "unification", "subsumption", "units",
          "fingerprints", "pdtrees", "vectors", "formulas", "selection"}

FirstArguments(algorithm) ==
    CASE algorithm = "schedules"   -> Fractions
      [] algorithm = "orderings"   -> OrderingTerms
      [] algorithm = "matching"    -> Patterns
      [] algorithm = "unification" -> Patterns
      [] algorithm = "subsumption" -> Subsumers
      [] algorithm = "units"       -> Units
      [] algorithm = "formulas"    -> FormulaSets
      [] OTHER                     -> {}

SecondArguments(algorithm) ==
    CASE algorithm = "schedules"   -> (1..6) \X (SUBSET (1..4)) \X {1, 7}
      [] algorithm = "orderings"   -> OrderingTerms
      [] algorithm = "matching"    -> Patterns \X Earlier
      [] algorithm = "unification" -> Patterns
      [] algorithm = "subsumption" -> Subsumed
      [] algorithm = "units"       -> Targets
      [] algorithm = "formulas"    -> {0, 10} \X {0, 1}
      [] OTHER                     -> {}

AlgorithmsInit ==
    /\ part \in Parts
    /\ IF FirstArguments(part) = {} THEN call = <<>> ELSE call \in {<<x>> : x \in FirstArguments(part)}
    /\ IF part = "precedence"   THEN PrecedenceInit ELSE ocb = {} /\ parsed = {} /\ stage = {}
    /\ IF part = "fingerprints" THEN FPInit  ELSE fpindex = {}
    /\ IF part = "pdtrees"      THEN PDTInit ELSE pdt = {} /\ answer = {}
    /\ IF part = "vectors"      THEN FVInit  ELSE fvi = {}
    /\ IF part = "selection"    THEN SelectionInit
       ELSE /\ hcb = {} /\ unprocessed = {} /\ evaluated = {}
            /\ arrived = {} /\ reweights = {} /\ waited = {}

Ask == /\ Len(call) = 1
       /\ \E y \in SecondArguments(part) : call' = Append(call, y)
       /\ UNCHANGED <<part, precedenceVars, indexVars, selectionVars>>

AlgorithmsNext ==
    \/ Ask
    \/ part = "precedence"   /\ PrecedenceNext /\ UNCHANGED <<part, call, indexVars, selectionVars>>
    \/ part = "fingerprints" /\ FPNext  /\ UNCHANGED <<part, call, precedenceVars, pdtVars, fvi, selectionVars>>
    \/ part = "pdtrees"      /\ PDTNext /\ UNCHANGED <<part, call, precedenceVars, fpindex, fvi, selectionVars>>
    \/ part = "vectors"      /\ FVNext  /\ UNCHANGED <<part, call, precedenceVars, fpindex, pdtVars, selectionVars>>
    \/ part = "selection"    /\ SelectionNext /\ UNCHANGED <<part, call, precedenceVars, indexVars>>

AlgorithmsSpec == AlgorithmsInit /\ [][AlgorithmsNext]_algorithmVars

Asked(algorithm) == part = algorithm /\ Len(call) = 2

(* ScheduleTimesInitMultiCore: rounded shares of cores add up, and no      *)
(* strategy is left without a core.                                        *)
SharesAlwaysFit == Asked("schedules") => SharesFit(call[1], call[2][1], call[2][2])

(* ScheduleTimesInitMultiCore: rounded times never exceed the limit.       *)
TimesAlwaysFit == Asked("schedules") => TimesFit(call[1], call[2][3])

(* The Knuth-Bendix ordering with its variable balance is the textbook's.  *)
KBOAlwaysRight == Asked("orderings") => KBOIsRight(call[1], call[2])

(* The lexicographic path ordering with its shortcuts is the textbook's.   *)
LPOAlwaysRight == Asked("orderings") => LPOIsRight(call[1], call[2])

(* The precedence stays a quasi-ordering, whatever the user says.          *)
PrecedenceStaysOrder == part = "precedence" => PrecedenceIsOrder

(* SubstComputeMatch finds the matcher, and takes back what it bound.      *)
MatchAlwaysRight == Asked("matching") => MatchIsRight(call[1], call[2][1], call[2][2])

(* SubstComputeMgu finds the most general unifier if there is one.         *)
MguAlwaysRight == Asked("unification") => MguIsRight(call[1], call[2], Values)

(* Subsumption by backtracking is multiset subsumption.                    *)
SubsumptionAlwaysRight == Asked("subsumption") => SubsumptionIsRight(call[1], call[2])

(* Units discard what follows from them, and mostly nothing less.          *)
UnitsAlwaysRight == Asked("units") => UnitSubsumptionIsRight(call[1], call[2])

(* A fingerprint index returns every term that unifies or matches.         *)
FPNeverMisses == part = "fingerprints" => FPMissesNothing

(* A fingerprint index keeps no branches without entries.                  *)
FPStaysPruned == part = "fingerprints" => FPHasNoDeadBranches

(* A perfect discrimination tree returns every demodulator.                *)
PDTAlwaysFinds == part = "pdtrees" => PDTFindsAll

(* The bounds in a discrimination tree's nodes prune only what is useless. *)
PDTStaysExact == part = "pdtrees" => PDTConstraintsAreExact

(* A feature vector index returns what a scan of the clauses would.        *)
FVNeverMisses == part = "vectors" => FVMissesNothing

(* Clausification keeps satisfiability.                                    *)
ClausesAlwaysSayTheSame ==
    Asked("formulas") => ClausesSayTheSame(call[1], call[2][1], call[2][2])

(* The oldest unprocessed clause gets its turn in every round.             *)
OldestAlwaysComesSoon == part = "selection" => OldestComesSoon
=============================================================================
