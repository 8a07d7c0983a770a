----------------------------- MODULE Unification -----------------------------
(***************************************************************************)
(* First-order matching and unification, TERMS/cte_match_mgu_1-1.c.        *)
(*                                                                         *)
(* A substitution is the stack of the bound variables with their bindings: *)
(* <<<<x, t>>, ...>>.  An algorithm pushes bindings and, if it fails,      *)
(* takes its own back.  Terms have one sort here, and weights are those of *)
(* TermStandardWeight(): one for a variable, two for a symbol.             *)
(***************************************************************************)
EXTENDS Terms

RECURSIVE StandardWeight(_)
StandardWeight(t) ==
    IF IsVar(t) THEN 1 ELSE 2 + FoldSeq(LAMBDA a, w : StandardWeight(a) + w, 0, Args(t))

IsBound(x, subst) == \E i \in DOMAIN subst : subst[i][1] = x
Binding(x, subst) == LET i == CHOOSE i \in DOMAIN subst : subst[i][1] = x IN subst[i][2]

SubstAddBinding(subst, x, t) == Append(subst, <<x, t>>)

(* Mutant: only the last binding is taken back. *)
BacktrackSingle(subst, pos) == SubSeq(subst, 1, IF Len(subst) > pos THEN Len(subst) - 1 ELSE pos)

SubstBacktrackToPos(subst, pos) == SubSeq(subst, 1, pos)

(* The substitution as a function, and applied until nothing changes *)
Bindings(subst) == [x \in {subst[i][1] : i \in DOMAIN subst} |-> Binding(x, subst)]

RECURSIVE TermDerefAlways(_, _)
TermDerefAlways(t, subst) == IF IsVar(t) /\ IsBound(FCode(t), subst)
                             THEN TermDerefAlways(Binding(FCode(t), subst), subst) ELSE t

RECURSIVE ApplyAll(_, _)
ApplyAll(subst, t) ==
    LET u == TermDerefAlways(t, subst)
    IN <<FCode(u)>> \o [i \in DOMAIN Args(u) |-> ApplyAll(subst, Args(u)[i])]

Failed(subst)  == [ok |-> FALSE, subst |-> subst]
Success(subst) == [ok |-> TRUE, subst |-> subst]

(* A failure takes back all bindings after the first pos.                  *)
BacktrackIfFailed(res, pos) ==
    IF res.ok THEN res ELSE Failed(SubstBacktrackToPos(res.subst, pos))

----------------------------------------------------------------------------
(* Matching *)

RECURSIVE MatchJobs(_, _, _, _)

(* The loop over the stack of pairs still to be matched.  weight is that   *)
(* of the instance found so far, which cannot exceed limit, that of the    *)
(* whole term.                                                             *)
MatchJobs(jobs, subst, weight, limit) ==
    IF jobs = <<>> THEN Success(subst)
    ELSE LET matcher == Last(jobs)[1]
             t       == Last(jobs)[2]
             x       == FCode(matcher)
             clash   == IsBound(x, subst) /\ Binding(x, subst) # t
             more    == [i \in DOMAIN Args(matcher) |->
                            <<Reverse(Args(matcher))[i], Reverse(Args(t))[i]>>]
             heavier == weight + StandardWeight(t) - 1
         IN IF IsVar(matcher)
            THEN IF clash \/ heavier > limit THEN Failed(subst)
                 ELSE MatchJobs(Front(jobs), IF IsBound(x, subst) THEN subst
                                             ELSE SubstAddBinding(subst, x, t), heavier, limit)
            ELSE IF x # FCode(t) THEN Failed(subst)
            ELSE MatchJobs(Front(jobs) \o more, subst, weight, limit)

SubstComputeMatch(matcher, t, subst) ==
    IF StandardWeight(matcher) > StandardWeight(t) THEN Failed(subst)
    ELSE BacktrackIfFailed(MatchJobs(<<<<matcher, t>>>>, subst, StandardWeight(matcher),
                                     StandardWeight(t)),
                           Len(subst))

----------------------------------------------------------------------------
(* Unification *)

RECURSIVE OccurCheck(_, _, _)
OccurCheck(t, var, subst) ==
    LET u == TermDerefAlways(t, subst)
    IN u = var \/ \E i \in DOMAIN Args(u) : OccurCheck(Args(u)[i], var, subst)

(* The jobs after the pairs of arguments from i down are queued: pairs     *)
(* with a variable at the front, to be solved last, others at the end.     *)
RECURSIVE Queued(_, _, _, _)

(* Mutant: the loop ends before the first argument. *)
QueuedButFirst(jobs, s, t, i) ==
    IF i <= 1 THEN jobs
    ELSE LET pair == <<Args(s)[i], Args(t)[i]>>
         IN Queued(IF IsVar(pair[1]) \/ IsVar(pair[2]) THEN <<pair>> \o jobs
                                                       ELSE Append(jobs, pair), s, t, i - 1)

Queued(jobs, s, t, i) ==
    IF i = 0 THEN jobs
    ELSE LET pair == <<Args(s)[i], Args(t)[i]>>
         IN Queued(IF IsVar(pair[1]) \/ IsVar(pair[2]) THEN <<pair>> \o jobs
                                                       ELSE Append(jobs, pair), s, t, i - 1)

RECURSIVE MguJobs(_, _)

MguJobs(jobs, subst) ==
    IF jobs = <<>> THEN Success(subst)
    ELSE LET u1 == TermDerefAlways(Last(jobs)[1], subst)
             u2 == TermDerefAlways(Last(jobs)[2], subst)
             s  == IF IsVar(u2) THEN u2 ELSE u1
             t  == IF IsVar(u2) THEN u1 ELSE u2
         IN IF IsVar(s)
            THEN IF s = t THEN MguJobs(Front(jobs), subst)
                 ELSE IF OccurCheck(t, s, subst) THEN Failed(subst)
                 ELSE MguJobs(Front(jobs), SubstAddBinding(subst, FCode(s), t))
            ELSE IF FCode(s) # FCode(t) THEN Failed(subst)
            ELSE MguJobs(Queued(Front(jobs), s, t, Len(Args(s))), subst)

SubstComputeMgu(s, t, subst) == BacktrackIfFailed(MguJobs(<<<<s, t>>>>, subst), Len(subst))

----------------------------------------------------------------------------
(* Properties *)

(* Matching in a substitution finds the only way to extend it that makes   *)
(* the pattern the term, whatever the weights let it give up early, and    *)
(* leaves the substitution as it was if there is none.                     *)
MatchIsRight(pattern, t, subst) ==
    LET res == SubstComputeMatch(pattern, t, subst)
        fit == {m \in Matchers(pattern, t) :
                  \A x \in DOMAIN m : IsBound(x, subst) => Binding(x, subst) = m[x]}
    IN IF res.ok
       THEN /\ IsPrefix(subst, res.subst)
            /\ Restrict(Bindings(res.subst), VarsOf(pattern)) \in fit
            /\ \A i \in DOMAIN res.subst : i > Len(subst) => res.subst[i][1] \in VarsOf(pattern)
       ELSE fit = {} /\ res.subst = subst

(* Unification of two terms finds a unifier of which every unifier into    *)
(* the given terms is an instance, and fails, with everything taken back,  *)
(* only if none of these substitutions is a unifier.  No variable is bound *)
(* twice, so that backtracking restores what was there.                    *)
MguIsRight(s, t, terms) ==
    LET res      == SubstComputeMgu(s, t, <<>>)
        vars     == VarsOf(s) \cup VarsOf(t)
        unifiers == {u \in [vars -> terms] : Apply(u, s) = Apply(u, t)}
    IN IF res.ok
       THEN /\ ApplyAll(res.subst, s) = ApplyAll(res.subst, t)
            /\ IsInjective([i \in DOMAIN res.subst |-> res.subst[i][1]])
            /\ \A u \in unifiers, x \in vars : u[x] = Apply(u, ApplyAll(res.subst, <<x>>))
       ELSE unifiers = {} /\ res.subst = <<>>
=============================================================================
