------------------------- MODULE MCSaturationGround -------------------------
(***************************************************************************)
(* Saturation over the ground equations between three constants a > b > c. *)
(* Every atom, every overlap and every rewrite step of that signature is   *)
(* listed, so that the calculus of the instance is complete and a verdict  *)
(* can be compared with the truth.                                         *)
(***************************************************************************)
EXTENDS MCSaturation

(* "X!=Y" is a disequation of two variables: equality resolution cuts it. *)
Pos   == {"a=b", "a=c", "b=c"}
MCLit == Pos \cup {"a!=b", "a!=c", "b!=c", "X!=Y", "true"}

(* An interpretation is the set of equations it makes true. *)
MCVal == {{}, {"a=b"}, {"a=c"}, {"b=c"}, Pos}
NegOf == [l \in Pos |-> CASE l = "a=b" -> "a!=b"
                          [] l = "a=c" -> "a!=c"
                          [] l = "b=c" -> "b!=c"]
Holding(l) == {v \in MCVal : \/ l \in v
                             \/ \E p \in Pos \ v : NegOf[p] = l}
MCSat == [l \in MCLit |-> CASE l = "true" -> MCVal
                            [] l = "X!=Y" -> {}
                            [] OTHER      -> Holding(l)]

MCCovers == {<<l, l>> : l \in MCLit}
MCCuts   == {<<p, NegOf[p]>> : p \in Pos} \cup {<<NegOf[p], p>> : p \in Pos}

(* The multiset extension of a > b > c, from the greatest literal down. *)
Rank == [l \in MCLit |-> CASE l = "a!=b" -> 7 [] l = "a!=c" -> 6 [] l = "a=b" -> 5
                           [] l = "a=c" -> 4 [] l = "b!=c" -> 3 [] l = "b=c" -> 2
                           [] OTHER -> 1]
MCBigger == {p \in (MCLit \ {"X!=Y"}) \X (MCLit \ {"X!=Y"}) : Rank[p[1]] > Rank[p[2]]}

SelectNothing == [c \in SUBSET MCLit |-> {}]
(* SelectLargestNegLit *)
SelectNegative ==
    [c \in SUBSET MCLit |->
       {l \in c \ (Pos \cup {"true"}) :
          \A k \in c \ (Pos \cup {"true"}) : Rank[l] >= Rank[k]}]

MCRewrites ==
    {RW(p, p, {"true"}, "max", TRUE) : p \in Pos} \cup
    {RW(p, NegOf[p], {}, "max", TRUE) : p \in Pos} \cup
    {RW("a=b", "a=c", {"b=c"}, "max", TRUE), RW("a=b", "a!=c", {"b!=c"}, "max", TRUE),
     RW("a=c", "a=b", {"b=c"}, "max", TRUE), RW("a=c", "a!=b", {"b!=c"}, "max", TRUE),
     RW("b=c", "a=b", {"a=c"}, "min", TRUE), RW("b=c", "a!=b", {"a!=c"}, "min", TRUE)}

MCParamods ==
    {PM(p, NegOf[p], {}) : p \in Pos} \cup
    {PM("a=b", "a=c", {"b=c"}), PM("a=c", "a=b", {"b=c"}),
     PM("a=b", "a!=c", {"b!=c"}), PM("a=c", "a!=b", {"b!=c"})}

MCFactors == {[lit |-> "a=b", other |-> "a=c", to |-> {"b!=c"}]}

(* Sets that are unsatisfiable, sets that are not, units that interreduce, *)
(* clauses that subsume or cut each other, and variable disequations.      *)
MCProblems == {
    {{"a=b", "a=c"}, {"a!=b", "b=c"}, {"a!=c"}},
    {{"a=b", "b=c"}, {"a=b", "b!=c"}, {"a!=b", "a=c"}, {"a!=c", "b!=c"}},
    {{"a=b"}, {"a=c"}, {"b!=c", "X!=Y"}},
    {{"b=c"}, {"a=b", "b!=c"}, {"a=c", "X!=Y"}},
    {{"a=b", "a=c", "b=c"}, {"a!=b", "a!=c"}, {"b!=c"}},
    {{"a=c", "b=c"}, {"a!=c", "b=c"}, {"a!=b", "b!=c"}}}

MCParms == {
    DefaultParms,
    [DefaultParms EXCEPT !.forward_demod = 1, !.presat_interreduction = TRUE,
                         !.forward_subsumption_aggressive = TRUE]}
=============================================================================
