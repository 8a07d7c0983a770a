------------------------------- MODULE Terms -------------------------------
(***************************************************************************)
(* First-order terms: <<f, t1, ..., tn>>, and <<x>> for a variable x.      *)
(***************************************************************************)
EXTENDS Integers, Sequences, FiniteSets, FiniteSetsExt, SequencesExt, Functions

CONSTANT Variables \* the names of variables; all others are function symbols

FCode(t) == t[1]
Args(t)  == Tail(t)
IsVar(t) == FCode(t) \in Variables

RECURSIVE Subterms(_)
Subterms(t) == {t} \cup UNION {Subterms(Args(t)[i]) : i \in DOMAIN Args(t)}

VarsOf(t) == {FCode(s) : s \in {s \in Subterms(t) : IsVar(s)}}

(* A substitution maps some variables to terms. *)
RECURSIVE Apply(_, _)
Apply(subst, t) ==
    IF IsVar(t) THEN IF FCode(t) \in DOMAIN subst THEN subst[FCode(t)] ELSE t
    ELSE <<FCode(t)>> \o [i \in DOMAIN Args(t) |-> Apply(subst, Args(t)[i])]

IsRenaming(subst) == /\ \A x \in DOMAIN subst : IsVar(subst[x])
                     /\ IsInjective(subst)

(* The reference for matching: at most one substitution of the variables   *)
(* of pattern makes it the term t.                                         *)
Matchers(pattern, t) ==
    {subst \in [VarsOf(pattern) -> Subterms(t)] : Apply(subst, pattern) = t}

RECURSIVE Occurrences(_, _)
Occurrences(x, t) ==
    IF FCode(t) = x THEN 1
    ELSE FoldSeq(LAMBDA a, n : Occurrences(x, a) + n, 0, Args(t))

RECURSIVE Depth(_)
Depth(t) == IF Args(t) = <<>> THEN 0
            ELSE 1 + Max({Depth(Args(t)[i]) : i \in DOMAIN Args(t)})
=============================================================================
