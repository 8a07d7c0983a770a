------------------------------- MODULE PDTrees -------------------------------
(***************************************************************************)
(* Perfect discrimination trees, CLAUSES/ccl_pdtrees.c: the index of the   *)
(* left sides of rewrite rules and of the sides of units.                  *)
(*                                                                         *)
(* A term is flattened into the sequence of its symbols and variables; a   *)
(* node of the tree is the prefix that leads to it.  Every node caches the *)
(* least weight and the latest date below it, to cut a search short; -1    *)
(* marks a value that has to be computed again.  A search is one walk with *)
(* a single substitution, weight and stack of terms that are all taken     *)
(* back on the way up.                                                     *)
(***************************************************************************)
EXTENDS Unification, TLC

CONSTANTS PDTEntries, \* <<term, clause>>: what is put into the tree; the
                      \* number of a clause is its date, too
          PDTQueries, \* terms it is searched for
          MaxWeight   \* LONG_MAX: above the weight of every term

ASSUME PDTAssumption ==
    \A e \in PDTEntries : e[2] \in Nat \ {0} /\ StandardWeight(e[1]) < MaxWeight

VARIABLES pdt,   \* its nodes
          answer \* the last search: [term, date, found, subst], or {}

pdtVars == <<pdt, answer>>

RECURSIVE Flat(_)
Flat(t) == FoldLeft(LAMBDA codes, a : codes \o Flat(a), <<FCode(t)>>, Args(t))

Path(t) == {SubSeq(Flat(t), 1, n) : n \in 0..Len(Flat(t))}

Children(tree, node)  == {n \in DOMAIN tree : n # <<>> /\ Front(n) = node}
IsVarNode(node)       == node # <<>> /\ Last(node) \in Variables
v_alternatives(tree, node) == {Last(n) : n \in {n \in Children(tree, node) : IsVarNode(n)}}

PDTNodeAlloc == [size_constr |-> MaxWeight, age_constr |-> 0, ref_count |-> 0,
                 entries |-> {}, leaf |-> TRUE]

Latest(dates)    == Max(dates \cup {0})
Lightest(sizes)  == Min(sizes \cup {MaxWeight})
Dates(entries)   == {e[2] : e \in entries}
Weights(entries) == {StandardWeight(e[1]) : e \in entries}

----------------------------------------------------------------------------
(* Changes *)

(* Mutant: an invalid date is not left alone. *)
OnTheWayDated(node, t, clause) ==
    [node EXCEPT !.size_constr = Min({@, StandardWeight(t)}),
                 !.age_constr = Max({@, clause}),
                 !.ref_count = @ + 1]

(* A node on the path of a new entry; -1 is the least of all weights *)
OnTheWay(node, t, clause) ==
    [node EXCEPT !.size_constr = Min({@, StandardWeight(t)}),
                 !.age_constr = IF @ = -1 THEN @ ELSE Max({@, clause}),
                 !.ref_count = @ + 1]

(* The count of the root only grows, and nothing reads it: it stays 0.     *)
PDTreeInsertTerm(tree, t, clause) ==
    LET nodes == DOMAIN tree \cup Path(t)
        old(n)    == IF n \in DOMAIN tree THEN tree[n] ELSE PDTNodeAlloc
        parent(n) == \E m \in Path(t) \ DOMAIN tree : Front(m) = n
    IN [n \in nodes |->
          IF n \notin Path(t) THEN tree[n]
          ELSE [OnTheWay(old(n), t, clause) EXCEPT
                  !.leaf = @ /\ ~parent(n),
                  !.ref_count = IF n = <<>> THEN 0 ELSE @,
                  !.entries = IF n = Flat(t) THEN @ \cup {<<t, clause>>} ELSE @]]

(* Values that may be those of the entry that goes are no longer trusted.  *)
Distrusted(node, t, clause) ==
    [node EXCEPT !.size_constr = IF @ = StandardWeight(t) THEN -1 ELSE @,
                 !.age_constr = IF @ = clause THEN -1 ELSE @]

PDTreeDelete(tree, t, clause) ==
    IF Flat(t) \notin DOMAIN tree THEN tree
    ELSE LET gone == {e \in tree[Flat(t)].entries : e[2] = clause}
             Less(n) == LET entries == tree[n].entries \ gone
                            refs    == tree[n].ref_count - Cardinality(gone)
                        IN [Distrusted(tree[n], t, clause) EXCEPT
                              !.entries = entries,
                              !.ref_count = IF n = <<>> THEN @ ELSE refs,
                              !.leaf = @ \/ (n # <<>> /\ refs = Cardinality(entries))]
             changed == [n \in DOMAIN tree |-> IF n \in Path(t) THEN Less(n) ELSE tree[n]]
         IN Restrict(changed, {n \in DOMAIN tree : n = <<>> \/ changed[n].ref_count > 0})

----------------------------------------------------------------------------
(* The cached values; asking for one that is invalid computes it and all   *)
(* that are needed for it.                                                 *)

RECURSIVE PDTNodeGetSizeConstraint(_, _), PDTNodeGetAgeConstraint(_, _)

PDTNodeGetSizeConstraint(tree, node) ==
    IF tree[node].size_constr # -1 THEN tree
    ELSE LET done == FoldSet(LAMBDA child, acc : PDTNodeGetSizeConstraint(acc, child),
                             tree, Children(tree, node))
         IN [done EXCEPT ![node].size_constr =
                Lightest(Weights(tree[node].entries)
                         \cup {done[c].size_constr : c \in Children(tree, node)})]

PDTNodeGetAgeConstraint(tree, node) ==
    IF tree[node].age_constr # -1 THEN tree
    ELSE LET done == FoldSet(LAMBDA child, acc : PDTNodeGetAgeConstraint(acc, child),
                             tree, Children(tree, node))
         IN [done EXCEPT ![node].age_constr =
                Latest(Dates(tree[node].entries)
                       \cup {done[c].age_constr : c \in Children(tree, node)})]

----------------------------------------------------------------------------
(* A search: [tree, pos, term_stack, term_proc, term_weight, term_date,    *)
(* subst, order, found] and, for every node entered, trav_state, the       *)
(* variables still to be tried, and the size of the substitution before.   *)
(* pos is "done" in the end.                                               *)

(* The nodes as the walk enters them *)
Enter(s, node, stack, weight, subst) ==
    [s EXCEPT !.pos = node, !.term_stack = stack, !.term_weight = weight, !.subst = subst,
              !.trav_state = (node :> 0) @@ @,
              !.vars = (node :> IF s.order[1] = "variables" THEN v_alternatives(s.tree, node)
                                                            ELSE {}) @@ @,
              !.prev_subst = (node :> Len(s.subst)) @@ @]

PDTreeSearchInit(tree, t, date, prefer_general) ==
    Enter([tree |-> tree, pos |-> <<>>, term_stack |-> <<t>>, term_proc |-> <<>>,
           term_weight |-> StandardWeight(t), term_date |-> date, subst |-> <<>>, found |-> {},
           order |-> IF prefer_general THEN <<"symbols", "variables", "done">>
                                       ELSE <<"variables", "symbols", "done">>,
           trav_state |-> <<>>, vars |-> <<>>, prev_subst |-> <<>>],
          <<>>, <<t>>, StandardWeight(t), <<>>)

TermLRTraverseNext(stack)    == Front(stack) \o Reverse(Args(Last(stack)))
TermLRTraversePrev(stack, t) == Append(SubSeq(stack, 1, Len(stack) - Len(Args(t))), t)

(* Date zero stands for a term that is not known to be in normal form.     *)
pdtree_verify_node_constr(s) ==
    /\ s.tree[s.pos].size_constr <= s.term_weight
    /\ s.term_date # 0 => s.term_date < s.tree[s.pos].age_constr

Constrained(s) ==
    LET sized == PDTNodeGetSizeConstraint(s.tree, s.pos)
        light == sized[s.pos].size_constr <= s.term_weight
    IN [s EXCEPT !.tree = IF light /\ s.term_date # 0 THEN PDTNodeGetAgeConstraint(sized, s.pos)
                                                      ELSE sized]

(* Mutant: the weight of the term is not taken back. *)
BacktrackLight(s) ==
    LET t == Last(s.term_proc)
        up == [s EXCEPT !.pos = IF s.pos = <<>> THEN "done" ELSE Front(s.pos)]
    IN IF s.pos = <<>> THEN up
       ELSE IF IsVarNode(s.pos)
       THEN [up EXCEPT !.term_stack = Append(@, t), !.term_proc = Front(@),
                       !.subst = SubstBacktrackToPos(@, s.prev_subst[s.pos])]
       ELSE [up EXCEPT !.term_stack = TermLRTraversePrev(@, t), !.term_proc = Front(@)]

pdtree_backtrack(s) ==
    LET t == Last(s.term_proc)
        up == [s EXCEPT !.pos = IF s.pos = <<>> THEN "done" ELSE Front(s.pos)]
    IN IF s.pos = <<>> THEN up
       ELSE IF IsVarNode(s.pos)
       THEN [up EXCEPT !.term_stack = Append(@, t), !.term_proc = Front(@),
                       !.term_weight = @ + StandardWeight(t) - 1,
                       !.subst = SubstBacktrackToPos(@, s.prev_subst[s.pos])]
       ELSE [up EXCEPT !.term_stack = TermLRTraversePrev(@, t), !.term_proc = Front(@)]

(* One turn of the loop in pdtree_forward(): the next variable or the      *)
(* symbol, or on to the next kind of alternative.                          *)
pdtree_forward(s) ==
    LET t     == Last(s.term_stack)
        kind  == s.order[s.trav_state[s.pos] + 1]
        x     == CHOOSE x \in s.vars[s.pos] : TRUE
        match == SubstComputeMatch(<<x>>, t, s.subst)
        next  == [s EXCEPT !.trav_state[s.pos] = @ + 1,
                           !.vars[s.pos] =
                               IF s.order[s.trav_state[s.pos] + 2] = "variables"
                               THEN v_alternatives(s.tree, s.pos) ELSE @]
        Down(from, child, stack, weight, subst) ==
            Enter([from EXCEPT !.term_proc = Append(@, t)], child, stack, weight, subst)
    IN IF s.term_stack = <<>> THEN [s EXCEPT !.trav_state[s.pos] = 2]
       ELSE IF kind = "symbols"
       THEN IF ~IsVar(t) /\ Append(s.pos, FCode(t)) \in DOMAIN s.tree
            THEN Down(next, Append(s.pos, FCode(t)), TermLRTraverseNext(s.term_stack),
                      s.term_weight, s.subst)
            ELSE next
       ELSE IF s.vars[s.pos] = {} THEN next
       ELSE LET rest == [s EXCEPT !.vars[s.pos] = @ \ {x}]
            IN IF match.ok
               THEN Down(rest, Append(s.pos, x), Front(s.term_stack),
                         s.term_weight - (StandardWeight(t) - 1), match.subst)
               ELSE rest

(* PDTreeFindNextIndexedLeaf() until there is none, with the entries of    *)
(* the leaves.  The code also stops at a leaf it has just entered, before  *)
(* it compares its bounds: it may find older entries than are looked for.  *)
RECURSIVE PDTreeFindNextIndexedLeaf(_)
PDTreeFindNextIndexedLeaf(s) ==
    IF s.pos = "done" THEN s
    ELSE LET c == Constrained(s)
         IN PDTreeFindNextIndexedLeaf(
              IF ~pdtree_verify_node_constr(c) \/ c.trav_state[c.pos] = 2 THEN pdtree_backtrack(c)
              ELSE IF c.tree[c.pos].leaf /\ c.term_stack = <<>>
              THEN [c EXCEPT !.trav_state[c.pos] = 2, !.found = @ \cup c.tree[c.pos].entries]
              ELSE pdtree_forward(c))

----------------------------------------------------------------------------
(* The tree over its life *)

PDTInit == pdt = (<<>> :> PDTNodeAlloc) /\ answer = {}

Indexed == UNION {pdt[n].entries : n \in DOMAIN pdt}

Insert(e) == /\ e \notin Indexed
             /\ pdt' = PDTreeInsertTerm(pdt, e[1], e[2])
             /\ answer' = {}

Delete(e) == /\ e \in Indexed
             /\ pdt' = PDTreeDelete(pdt, e[1], e[2])
             /\ answer' = {}

Search(t, date, prefer_general) ==
    \E s \in {PDTreeFindNextIndexedLeaf(PDTreeSearchInit(pdt, t, date, prefer_general))} :
       /\ pdt' = s.tree
       /\ answer' = {[term |-> t, date |-> date, found |-> s.found, subst |-> s.subst]}

PDTNext == \/ \E e \in PDTEntries : Insert(e) \/ Delete(e)
           \/ \E t \in PDTQueries, date \in 0..Latest(Dates(PDTEntries)), general \in BOOLEAN :
                 Search(t, date, general)

----------------------------------------------------------------------------
(* Properties *)

(* A search finds every entry that matches and is later than the date the  *)
(* term is known to be irreducible from, finds nothing that does not       *)
(* match, and leaves no variable bound, in whatever order entries came and *)
(* went and the cached values were computed.                               *)
PDTFindsAll ==
    \A a \in answer :
        LET matching == {e \in Indexed : SubstComputeMatch(e[1], a.term, <<>>).ok}
        IN /\ {e \in matching : a.date = 0 \/ e[2] > a.date} \subseteq a.found
           /\ a.found \subseteq matching
           /\ a.subst = <<>>

(* What the functions pdt_verify_size_constraint() and                     *)
(* pdt_verify_age_constraint() check: a value that is not marked invalid   *)
(* is the least weight, or the latest date, of the entries below.  And     *)
(* every node leads to an entry.                                           *)
PDTConstraintsAreExact ==
    \A n \in DOMAIN pdt :
        LET below == {e \in Indexed : IsPrefix(n, Flat(e[1]))}
        IN /\ pdt[n].size_constr \in {-1, Lightest(Weights(below))}
           /\ pdt[n].age_constr \in {-1, Latest(Dates(below))}
           /\ n # <<>> => below # {} /\ pdt[n].ref_count = Cardinality(below)
=============================================================================
