-------------------------- MODULE MCSaturationEqn --------------------------
(***************************************************************************)
(* Saturation over the terms f(a,b) > f(b,a) and one predicate p, with the *)
(* unorientable equation f(X,Y)=f(Y,X), its instance, which is a rule, and *)
(* a variable disequation.  The optional simplifications and the           *)
(* deletions of a prover short of memory are switched on here.             *)
(***************************************************************************)
EXTENDS MCSaturation

(* c: f(X,Y)=f(Y,X)   e: f(a,b)=f(b,a)   p: p(f(a,b))   q: p(f(b,a)) *)
Pos   == {"c", "e", "p", "q"}
MCLit == Pos \cup {"-e", "-p", "-q", "X!=Y", "true"}
NegOf == [l \in {"e", "p", "q"} |-> CASE l = "e" -> "-e" [] l = "p" -> "-p"
                                      [] l = "q" -> "-q"]

MCVal == {v \in SUBSET Pos : /\ "c" \in v => "e" \in v
                             /\ "e" \in v => ("p" \in v <=> "q" \in v)}
MCSat == [l \in MCLit |->
            {v \in MCVal : \/ l = "true"
                           \/ l \in v
                           \/ \E m \in DOMAIN NegOf \ v : NegOf[m] = l}]

Opposites == {<<m, NegOf[m]>> : m \in DOMAIN NegOf}
MCCovers  == {<<l, l>> : l \in MCLit} \cup {<<"c", "e">>}
MCCuts    == Opposites \cup {<<o[2], o[1]>> : o \in Opposites} \cup {<<"c", "-e">>}

Rank == [l \in {"-p", "p", "-q", "q", "-e", "e"} |->
           CASE l = "-p" -> 6 [] l = "p" -> 5 [] l = "-q" -> 4
             [] l = "q" -> 3  [] l = "-e" -> 2 [] l = "e" -> 1]
MCBigger == {d \in (DOMAIN Rank) \X (DOMAIN Rank) : Rank[d[1]] > Rank[d[2]]}

(* SelectLargestNegLit *)
SelectNegative ==
    [c \in SUBSET MCLit |->
       {l \in c \cap {"-e", "-p", "-q"} :
          \A k \in c \cap {"-e", "-p", "-q"} : Rank[l] >= Rank[k]}]

MCRewrites ==
    {RW(m, m, {"true"}, "max", TRUE) : m \in DOMAIN NegOf} \cup
    {RW(m, NegOf[m], {}, "max", TRUE) : m \in DOMAIN NegOf} \cup
    {RW("c", "e", {"true"}, "max", FALSE), RW("c", "-e", {}, "max", FALSE)} \cup
    UNION {{RW(u, "p", {"q"}, "max", FALSE), RW(u, "-p", {"-q"}, "max", FALSE)} : u \in {"c", "e"}}

MCParamods ==
    {PM(o[1], o[2], {}) : o \in Opposites \cup {<<"c", "-e">>}} \cup
    UNION {{PM(u, "p", {"q"}), PM(u, "-p", {"-q"})} : u \in {"c", "e"}}

MCFactors == {[lit |-> "c", other |-> "e", to |-> {}]}

MCProblems == {
    {{"c", "p"}, {"-e", "q"}, {"-p", "-q"}},
    {{"p", "q"}, {"-p", "q"}, {"c"}, {"-q", "X!=Y"}},
    {{"p"}, {"c", "-p"}, {"q", "-e"}},
    {{"e"}, {"c", "-q"}, {"-q", "X!=Y"}, {"p"}}}

MCParms == {
    [DefaultParms EXCEPT !.forward_context_sr = TRUE, !.backward_context_sr = TRUE,
                         !.condensing = TRUE, !.condensing_aggressive = TRUE, !.er_varlit_destructive = TRUE,
                         !.er_aggressive = TRUE],
    [DefaultParms EXCEPT !.forward_demod = 0, !.contract_unprocessed = TRUE,
                         !.sat_check = TRUE, !.limits = TRUE],
    [DefaultParms EXCEPT !.delete_bad = TRUE, !.er_varlit_destructive = TRUE],
    [DefaultParms EXCEPT !.enable_neg_unit_paramod = FALSE,
                         !.presat_interreduction = TRUE]}
=============================================================================
