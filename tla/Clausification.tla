--------------------------- MODULE Clausification ---------------------------
(***************************************************************************)
(* The way of first-order formulas to clauses, CLAUSES/ccl_tcnf.c:         *)
(* simplification, definitions for subformulas that would be copied often, *)
(* negation normal form, miniscoping, renaming of variables, Skolem terms, *)
(* quantifiers outwards, distribution.                                     *)
(*                                                                         *)
(* A formula is <<op, F>> or <<op, F, G>>, <<"!", x, F>> or <<"?", x, F>>, *)
(* or a literal <<"+", A>> or <<"-", A>> with an atom A = <<p, t1, ...>>.  *)
(* Cells are shared in the code, so that equal formulas are one formula.   *)
(***************************************************************************)
EXTENDS Terms, TLC

CONSTANTS FreshVars, \* the sequence of variables that no formula uses
          Skolems,   \* the sequence of symbols that no formula uses
          LongMax,   \* the largest value of the type long
          Elements   \* the domain of the interpretations

IsLiteral(F)    == F[1] \in {"+", "-"}
IsQuantified(F) == F[1] \in {"!", "?"}
IsFOFOp(F)      == ~IsLiteral(F) /\ ~IsQuantified(F)
SubForms(F)     == IF IsLiteral(F) THEN <<>> ELSE IF IsQuantified(F) THEN <<F[3]>> ELSE Tail(F)
Rebuilt(F, forms) == IF IsQuantified(F) THEN <<F[1], F[2], forms[1]>> ELSE <<F[1]>> \o forms

TrueForm  == <<"+", <<"=", <<"$true">>, <<"$true">>>>>>
FalseForm == <<"-", TrueForm[2]>>

SigGetOtherEqnCode(F) == <<IF F[1] = "+" THEN "-" ELSE "+", F[2]>>
TFormulaNegAlloc(F)   == IF F[1] = "~" THEN F[2] ELSE <<"~", F>>

RECURSIVE FreeVars(_), HasVars(_)
FreeVars(F) == CASE IsLiteral(F)    -> VarsOf(F[2])
                 [] IsQuantified(F) -> FreeVars(F[3]) \ {F[2]}
                 [] OTHER -> UNION {FreeVars(SubForms(F)[i]) : i \in DOMAIN SubForms(F)}
HasVars(F) == \/ IsQuantified(F)
              \/ IsLiteral(F) /\ VarsOf(F[2]) # {}
              \/ \E i \in DOMAIN SubForms(F) : HasVars(SubForms(F)[i])

TFormulaVarIsFree(F, x) == x \in FreeVars(F)

----------------------------------------------------------------------------
(* Simplification.  quopt: formulas are small enough for the search of     *)
(* quantifiers that bind nothing.                                          *)

RECURSIVE TFormulaSimplify(_, _), SimplifiedTop(_, _)

WithConstant(F, neutral, dominant) ==
    IF F[2] = neutral THEN F[3]
    ELSE IF F[3] = neutral THEN F[2]
    ELSE IF dominant \in {F[2], F[3]} THEN dominant
    ELSE IF F[2] = F[3] THEN F[2] ELSE F

SimplifiedEquiv(F) ==
    IF F[2] = TrueForm THEN F[3]
    ELSE IF F[3] = TrueForm THEN F[2]
    ELSE IF F[2] = FalseForm THEN TFormulaNegAlloc(F[3])
    ELSE IF F[3] = FalseForm THEN TFormulaNegAlloc(F[2])
    ELSE IF F[2] = F[3] THEN TrueForm ELSE F

SimplifiedImpl(F) ==
    IF F[2] = TrueForm THEN F[3]
    ELSE IF F[2] = FalseForm THEN TrueForm
    ELSE IF F[3] = FalseForm THEN TFormulaNegAlloc(F[2])
    ELSE IF F[3] = TrueForm \/ F[2] = F[3] THEN TrueForm ELSE F

SimplifiedOnce(F, quopt) ==
    CASE F[1] = "~"   -> IF IsLiteral(F[2]) THEN SigGetOtherEqnCode(F[2]) ELSE F
      [] F[1] = "|"   -> WithConstant(F, FalseForm, TrueForm)
      [] F[1] = "&"   -> WithConstant(F, TrueForm, FalseForm)
      [] F[1] = "<=>" -> SimplifiedEquiv(F)
      [] F[1] = "=>"  -> SimplifiedImpl(F)
      [] F[1] = "<~>" -> TFormulaSimplify(<<"~", <<"<=>", F[2], F[3]>>>>, quopt)
      [] F[1] = "<="  -> TFormulaSimplify(<<"=>", F[3], F[2]>>, quopt)
      [] F[1] = "~|"  -> TFormulaSimplify(<<"~", <<"|", F[2], F[3]>>>>, quopt)
      [] F[1] = "~&"  -> TFormulaSimplify(<<"~", <<"&", F[2], F[3]>>>>, quopt)
      [] IsQuantified(F) -> IF quopt /\ ~TFormulaVarIsFree(F[3], F[2]) THEN F[3] ELSE F
      [] OTHER -> F

SimplifiedTop(F, quopt) == LET G == SimplifiedOnce(F, quopt)
                           IN IF G = F THEN F ELSE SimplifiedTop(G, quopt)

TFormulaSimplify(F, quopt) ==
    IF IsLiteral(F) THEN F
    ELSE SimplifiedTop(Rebuilt(F, [i \in DOMAIN SubForms(F) |->
                                      TFormulaSimplify(SubForms(F)[i], quopt)]), quopt)

----------------------------------------------------------------------------
(* Definitions: defs is the sequence of <<F, A>>, F being renamed to the   *)
(* atom A.  A formula with a definition carries TPCheckFlag.               *)

HasDef(F, defs) == \E i \in DOMAIN defs : defs[i][1] = F
DefOf(F, defs)  == CHOOSE i \in DOMAIN defs : defs[i][1] = F

(* All numbers of clauses are below TFORM_MANY_LIMIT here.                 *)
RECURSIVE TFormulaEstimateClauses(_, _, _)
TFormulaEstimateClauses(F, pos, defs) ==
    LET P(i) == TFormulaEstimateClauses(SubForms(F)[i], TRUE, defs)
        N(i) == TFormulaEstimateClauses(SubForms(F)[i], FALSE, defs)
    IN CASE HasDef(F, defs) \/ IsLiteral(F) -> 1
         [] F[1] = "&"   -> IF pos THEN P(1) + P(2) ELSE N(1) * N(2)
         [] F[1] = "|"   -> IF pos THEN P(1) * P(2) ELSE N(1) + N(2)
         [] F[1] = "=>"  -> IF pos THEN N(1) * P(2) ELSE P(1) + N(2)
         [] F[1] = "<=>" -> IF pos THEN P(1) * N(2) + N(1) * P(2) ELSE P(1) * P(2) + N(1) * N(2)
         [] F[1] = "~"   -> IF pos THEN N(1) ELSE P(1)
         [] IsQuantified(F) -> IF pos THEN P(1) ELSE N(1)

(* The sign of the argument of an implication is always negative: the test *)
(* for it compares the position, 0 or 1, with 2.                           *)
tformula_rename_test(F, i, polarity, limit, defs) ==
    LET Large(pos) == TFormulaEstimateClauses(SubForms(F)[i], pos, defs) > limit
    IN CASE F[1] = "<=>" -> Large(TRUE) \/ Large(FALSE)
         [] F[1] \in {"&", "|", "=>"} ->
              \/ polarity = 1  /\ ((F[1] = "|" /\ Large(TRUE)) \/ (F[1] = "=>" /\ Large(FALSE)))
              \/ polarity = -1 /\ F[1] = "&" /\ Large(FALSE)
              \/ polarity = 0  /\ (Large(TRUE) \/ Large(FALSE))
         [] OTHER -> FALSE

TBAllocNewSkolem(n, vars) == <<Skolems[n]>> \o [i \in DOMAIN vars |-> <<vars[i]>>]

TFormulaDefRename(F, defs) ==
    IF HasDef(F, defs) THEN defs
    ELSE Append(defs, <<F, TBAllocNewSkolem(Len(defs) + 1, SetToSeq(FreeVars(F)))>>)

(* The polarity of the i-th subformula of F, given that of F *)
SubPolarity(F, i, polarity) == CASE F[1] = "<=>" -> 0
                                 [] F[1] = "~" \/ (F[1] = "=>" /\ i = 1) -> -polarity
                                 [] OTHER -> polarity

(* rename_test() gets the polarity of the argument but at an equivalence,  *)
(* where it does not matter.                                               *)
RECURSIVE TFormulaFindDefs(_, _, _, _)
TFormulaFindDefs(F, polarity, limit, defs) ==
    IF IsLiteral(F) THEN defs
    ELSE FoldLeftDomain(
           LAMBDA acc, i :
             LET p    == SubPolarity(F, i, polarity)
                 deep == TFormulaFindDefs(SubForms(F)[i], p, limit, acc)
             IN IF tformula_rename_test(F, i, p, limit, deep)
                THEN TFormulaDefRename(SubForms(F)[i], deep) ELSE deep,
           defs, SubForms(F))

(* The marks TPPosPolarity and TPNegPolarity: pairs of formula and sign    *)
RECURSIVE TFormulaMarkPolarity(_, _)
TFormulaMarkPolarity(F, polarity) ==
    IF IsLiteral(F) THEN {}
    ELSE {<<F, sign>> : sign \in IF polarity = 0 THEN {-1, 1} ELSE {polarity}}
         \cup UNION {TFormulaMarkPolarity(SubForms(F)[i], SubPolarity(F, i, polarity)) :
                       i \in DOMAIN SubForms(F)}

(* Mutant: the negative mark decides. *)
DecodeNegative(F, marks) == IF <<F, -1>> \in marks THEN -1 ELSE 1

TFormulaDecodePolarity(F, marks) ==
    IF {<<F, 1>>, <<F, -1>>} \subseteq marks THEN 0
    ELSE IF <<F, 1>> \in marks THEN 1 ELSE -1

TFormulaAddQuantors(F, vars) == FoldSeq(LAMBDA x, G : <<"!", x, G>>, F, vars)

TFormulaCreateDef(A, F, polarity) ==
    TFormulaAddQuantors(<<CASE polarity = -1 -> "<=" [] polarity = 0 -> "<=>" [] polarity = 1 -> "=>",
                          <<"+", A>>, F>>,
                        SetToSeq(VarsOf(A)))

(* F with all formulas that have a definition replaced, but for the one    *)
(* that F itself defines                                                   *)
RECURSIVE TFormulaCopyDef(_, _, _)
TFormulaCopyDef(F, blocked, defs) ==
    IF IsLiteral(F) THEN F
    ELSE IF HasDef(F, defs) /\ DefOf(F, defs) # blocked THEN <<"+", defs[DefOf(F, defs)][2]>>
    ELSE Rebuilt(F, [i \in DOMAIN SubForms(F) |-> TFormulaCopyDef(SubForms(F)[i], blocked, defs)])

(* The formulas of set with definitions for some subformulas               *)
WithDefinitions(set, defs, marks) ==
    LET new == [i \in DOMAIN defs |->
                  TFormulaCreateDef(defs[i][2], defs[i][1], TFormulaDecodePolarity(defs[i][1], marks))]
    IN [forms |-> [i \in DOMAIN set |-> TFormulaCopyDef(set[i], 0, defs)]
                  \o [i \in DOMAIN new |-> TFormulaCopyDef(new[i], i, defs)],
        used  |-> Len(defs)]

TFormulaSetIntroduceDefs(set, limit) ==
    WithDefinitions(set, FoldLeft(LAMBDA acc, F : TFormulaFindDefs(F, 1, limit, acc), <<>>, set),
            UNION {TFormulaMarkPolarity(set[i], 1) : i \in DOMAIN set})

----------------------------------------------------------------------------
(* Negation normal form *)

RECURSIVE troot_nnf(_, _), TFormulaNNF(_, _)

(* The rules for the root, until there is none *)
troot_nnf(F, polarity) ==
    LET G   == F[2]
        Not(H) == <<"~", H>>
    IN CASE F[1] = "~" /\ IsLiteral(G)  -> SigGetOtherEqnCode(G)
         [] F[1] = "~" /\ G[1] = "~"    -> troot_nnf(G[2], polarity)
         [] F[1] = "~" /\ G[1] = "|"    -> <<"&", Not(G[2]), Not(G[3])>>
         [] F[1] = "~" /\ G[1] = "&"    -> <<"|", Not(G[2]), Not(G[3])>>
         [] F[1] = "~" /\ G[1] = "!"    -> <<"?", G[2], Not(G[3])>>
         [] F[1] = "~" /\ G[1] = "?"    -> <<"!", G[2], Not(G[3])>>
         [] F[1] = "=>" -> <<"|", Not(F[2]), F[3]>>
         [] F[1] = "<=>" /\ polarity = 1  -> <<"&", <<"=>", F[2], F[3]>>, <<"=>", F[3], F[2]>>>>
         [] F[1] = "<=>" /\ polarity = -1 -> <<"|", <<"&", F[2], F[3]>>,
                                                    <<"&", Not(F[2]), Not(F[3])>>>>
         [] OTHER -> F

TFormulaNNF(F, polarity) ==
    LET G   == troot_nnf(F, polarity)
        sub == IF G[1] = "~" THEN -polarity ELSE polarity
        H   == Rebuilt(G, [i \in DOMAIN SubForms(G) |-> TFormulaNNF(SubForms(G)[i], sub)])
    IN IF IsLiteral(G) \/ H = G THEN G ELSE TFormulaNNF(H, polarity)

----------------------------------------------------------------------------
(* Miniscoping *)

ScopeOnce(F) ==
    LET quant == F[1] x == F[2] G == F[3]
    IN IF ~IsQuantified(F) THEN F
       ELSE IF G[1] \notin {"&", "|"} THEN F
       ELSE IF ~TFormulaVarIsFree(G[2], x) THEN <<G[1], G[2], <<quant, x, G[3]>>>>
       ELSE IF ~TFormulaVarIsFree(G[3], x) THEN <<G[1], <<quant, x, G[2]>>, G[3]>>
       ELSE IF <<quant, G[1]>> \in {<<"!", "&">>, <<"?", "|">>}
            THEN <<G[1], <<quant, x, G[2]>>, <<quant, x, G[3]>>>>
       ELSE F

RECURSIVE TFormulaMiniScope(_)
TFormulaMiniScope(F) ==
    LET G == ScopeOnce(F)
        H == Rebuilt(G, [i \in DOMAIN SubForms(G) |-> TFormulaMiniScope(SubForms(G)[i])])
    IN IF IsLiteral(G) \/ H = G THEN G ELSE TFormulaMiniScope(H)

(* Sizes are of type long, and a formula without variables is said to have *)
(* the greatest: the sums for formulas above it overflow, and wrap.        *)
Long(n) == ((n + LongMax + 1) % (2 * LongMax + 2)) - (LongMax + 1)

(* [size, the candidates, whether there is an existential quantifier]      *)
RECURSIVE tform_find_miniscopeable(_, _)
tform_find_miniscopeable(F, limit) ==
    LET sub(i) == tform_find_miniscopeable(SubForms(F)[i], limit)
        below  == UNION {sub(i).candidates : i \in DOMAIN SubForms(F)}
        exq    == F[1] = "?" \/ \E i \in DOMAIN SubForms(F) : sub(i).exq
        size   == IF IsQuantified(F) THEN Long(1 + sub(1).size)
                  ELSE FoldLeftDomain(LAMBDA n, i : Long(n + n + sub(i).size), 1, SubForms(F))
    IN CASE ~HasVars(F)  -> [size |-> LongMax, candidates |-> {}, exq |-> FALSE]
         [] IsLiteral(F) -> [size |-> 1, candidates |-> {}, exq |-> FALSE]
         [] OTHER -> [size |-> size, exq |-> exq,
                      candidates |-> IF F[1] = "!" /\ size <= limit /\ exq THEN {F} ELSE below]

(* The copy does not enter the scope of a quantifier.                      *)
RECURSIVE tform_copy_mod(_, _)
tform_copy_mod(F, candidates) ==
    IF F \in candidates THEN TFormulaMiniScope(F)
    ELSE IF ~IsFOFOp(F) THEN F
    ELSE Rebuilt(F, [i \in DOMAIN SubForms(F) |-> tform_copy_mod(SubForms(F)[i], candidates)])

TFormulaMiniScope3(F, limit) ==
    tform_copy_mod(F, tform_find_miniscopeable(F, limit).candidates)

----------------------------------------------------------------------------
(* Variables and Skolem terms; both functions count the names they use.    *)

RECURSIVE TFormulaVarRename(_, _, _), tformula_rek_skolemize(_, _, _, _)

Copied(F, subst) == <<F[1], Apply(subst, F[2])>>

(* The subformulas of F from left to right, each by the operator for it    *)
TFormulaVarRename(F, subst, used) ==
    IF IsLiteral(F) THEN [form |-> Copied(F, subst), used |-> used]
    ELSE IF IsQuantified(F)
    THEN LET new  == FreshVars[used + 1]
             body == TFormulaVarRename(F[3], (F[2] :> <<new>>) @@ subst, used + 1)
         IN [body EXCEPT !.form = <<F[1], new, body.form>>]
    ELSE FoldLeft(LAMBDA acc, G : LET H == TFormulaVarRename(G, subst, acc.used)
                                  IN [form |-> Append(acc.form, H.form), used |-> H.used],
                  [form |-> <<F[1]>>, used |-> used], SubForms(F))

tformula_rek_skolemize(F, subst, free_vars, used) ==
    IF IsLiteral(F) THEN [form |-> Copied(F, subst), used |-> used]
    ELSE IF F[1] = "?"
    THEN tformula_rek_skolemize(F[3], (F[2] :> TBAllocNewSkolem(used + 1, free_vars)) @@ subst,
                                free_vars, used + 1)
    ELSE IF F[1] = "!"
    THEN LET body == tformula_rek_skolemize(F[3], subst, Append(free_vars, F[2]), used)
         IN [body EXCEPT !.form = <<"!", F[2], body.form>>]
    ELSE FoldLeft(LAMBDA acc, G : LET H == tformula_rek_skolemize(G, subst, free_vars, acc.used)
                                  IN [form |-> Append(acc.form, H.form), used |-> H.used],
                  [form |-> <<F[1]>>, used |-> used], SubForms(F))

TFormulaSkolemizeOutermost(F, used) ==
    tformula_rek_skolemize(F, <<>>, SetToSeq(FreeVars(F)), used)

----------------------------------------------------------------------------
(* Clauses *)

(* All quantifiers are universal: they go to the front, where TFormulaToCNF() *)
(* skips them.                                                              *)
RECURSIVE extract_formula_core(_)
extract_formula_core(F) ==
    CASE F[1] = "!"          -> extract_formula_core(F[3])
      [] F[1] \in {"&", "|"} -> <<F[1], extract_formula_core(F[2]), extract_formula_core(F[3])>>
      [] OTHER               -> F

RECURSIVE TFormulaDistributeDisjunctions(_)
TFormulaDistributeDisjunctions(F) ==
    LET G == Rebuilt(F, [i \in DOMAIN SubForms(F) |->
                            TFormulaDistributeDisjunctions(SubForms(F)[i])])
        l == G[2]
        r == G[3]
    IN IF IsLiteral(F) THEN F
       ELSE IF G[1] = "|" /\ l[1] = "&"
       THEN TFormulaDistributeDisjunctions(<<"&", <<"|", l[2], r>>, <<"|", l[3], r>>>>)
       ELSE IF G[1] = "|" /\ r[1] = "&"
       THEN TFormulaDistributeDisjunctions(<<"&", <<"|", r[2], l>>, <<"|", r[3], l>>>>)
       ELSE G

(* Everything but disjunctions and literals is left out.                   *)
RECURSIVE TFormulaCollectClause(_), TFormulaToCNF(_)
TFormulaCollectClause(F) ==
    CASE F[1] = "|"   -> TFormulaCollectClause(F[2]) \cup TFormulaCollectClause(F[3])
      [] IsLiteral(F) -> {F}
      [] OTHER        -> {}

TFormulaToCNF(F) == IF F[1] = "&" THEN TFormulaToCNF(F[2]) \cup TFormulaToCNF(F[3])
                    ELSE {TFormulaCollectClause(F)}

(* The two halves of WFormulaCNF2(), before and after Skolem terms come in.*)
(* The result is [clauses, number of Skolem symbols used].                 *)
Renamed(F, miniscope_limit) ==
    TFormulaVarRename(TFormulaMiniScope3(TFormulaNNF(TFormulaSimplify(F, TRUE), 1),
                                         miniscope_limit), <<>>, 0).form

Distributed(skolem) ==
    [clauses |-> TFormulaToCNF(TFormulaDistributeDisjunctions(
                    TFormulaNNF(extract_formula_core(skolem.form), 1))),
     used |-> skolem.used]

WFormulaCNF2(F, miniscope_limit, used) ==
    Distributed(TFormulaSkolemizeOutermost(Renamed(F, miniscope_limit), used))

(* With a def_limit of zero no definition is made.                         *)
AddClauses(clauses, cnf) == [cnf EXCEPT !.clauses = @ \cup clauses]

ClausesOf(defined, miniscope_limit) ==
    FoldLeft(LAMBDA acc, F : AddClauses(acc.clauses, WFormulaCNF2(F, miniscope_limit, acc.used)),
             [clauses |-> {}, used |-> defined.used], defined.forms)

FormulaSetCNF2(set, miniscope_limit, def_limit) ==
    LET simple == [i \in DOMAIN set |-> TFormulaSimplify(set[i], FALSE)]
    IN ClausesOf(IF def_limit = 0 THEN [forms |-> simple, used |-> 0]
                 ELSE TFormulaSetIntroduceDefs(simple, def_limit), miniscope_limit)

----------------------------------------------------------------------------
(* Properties: formulas and clauses in interpretations, which give every   *)
(* symbol a function from tuples of elements                               *)

RECURSIVE Value(_, _, _), Holds(_, _, _), FormulaSymbols(_)

Value(t, env, I) == IF IsVar(t) THEN env[FCode(t)]
                    ELSE I[FCode(t)][[i \in DOMAIN Args(t) |-> Value(Args(t)[i], env, I)]]

AtomHolds(A, env, I) == IF FCode(A) = "=" THEN Value(A[2], env, I) = Value(A[3], env, I)
                        ELSE Value(A, env, I)

Holds(F, env, I) ==
    CASE F[1] = "+"   -> AtomHolds(F[2], env, I)
      [] F[1] = "-"   -> ~AtomHolds(F[2], env, I)
      [] F[1] = "~"   -> ~Holds(F[2], env, I)
      [] F[1] = "&"   -> Holds(F[2], env, I) /\ Holds(F[3], env, I)
      [] F[1] = "|"   -> Holds(F[2], env, I) \/ Holds(F[3], env, I)
      [] F[1] = "=>"  -> Holds(F[2], env, I) => Holds(F[3], env, I)
      [] F[1] = "<="  -> Holds(F[3], env, I) => Holds(F[2], env, I)
      [] F[1] = "<=>" -> Holds(F[2], env, I) = Holds(F[3], env, I)
      [] F[1] = "<~>" -> Holds(F[2], env, I) # Holds(F[3], env, I)
      [] F[1] = "~|"  -> ~(Holds(F[2], env, I) \/ Holds(F[3], env, I))
      [] F[1] = "~&"  -> ~(Holds(F[2], env, I) /\ Holds(F[3], env, I))
      [] F[1] = "!"   -> \A e \in Elements : Holds(F[3], (F[2] :> e) @@ env, I)
      [] F[1] = "?"   -> \E e \in Elements : Holds(F[3], (F[2] :> e) @@ env, I)

(* The symbols of a formula, with the number of arguments                  *)
FunsOf(t) == {[name |-> FCode(s), arity |-> Len(Args(s)), predicate |-> FALSE] :
                s \in {s \in Subterms(t) : ~IsVar(s)}}
AtomSymbols(A) == UNION {FunsOf(Args(A)[i]) : i \in DOMAIN Args(A)}
                  \cup {[name |-> FCode(A), arity |-> Len(Args(A)), predicate |-> TRUE]}
FormulaSymbols(F) == IF IsLiteral(F) THEN {s \in AtomSymbols(F[2]) : s.name # "="}
                ELSE UNION {FormulaSymbols(SubForms(F)[i]) : i \in DOMAIN SubForms(F)}

ValuesOf(s) == IF s.predicate THEN BOOLEAN ELSE Elements

Extensions(I, symbols) ==
    FoldSet(LAMBDA s, acc : {(s.name :> v) @@ J :
                               v \in [[1..s.arity -> Elements] -> ValuesOf(s)], J \in acc},
            {I}, symbols)

ClauseHolds(clause, I) ==
    LET vars == UNION {VarsOf(L[2]) : L \in clause}
    IN \A env \in [vars -> Elements] : \E L \in clause : Holds(L, env, I)

(* An interpretation satisfies the formulas if and only if the new symbols *)
(* can be interpreted so that it satisfies the clauses: clausification     *)
(* neither loses a proof nor makes one up, whatever is simplified, named,  *)
(* shared between formulas or moved on the way.                            *)
SayTheSame(set, clauses) ==
    LET old == UNION {FormulaSymbols(set[i]) : i \in DOMAIN set}
        new == UNION {UNION {FormulaSymbols(L) : L \in c} : c \in clauses} \ old
    IN \A I \in Extensions(<<>>, old) :
          (\A i \in DOMAIN set : Holds(set[i], <<>>, I))
          <=> (\E J \in Extensions(I, new) : \A c \in clauses : ClauseHolds(c, J))

ClausesSayTheSame(set, miniscope_limit, def_limit) ==
    SayTheSame(set, FormulaSetCNF2(set, miniscope_limit, def_limit).clauses)
=============================================================================
