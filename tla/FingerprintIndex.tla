-------------------------- MODULE FingerprintIndex --------------------------
(***************************************************************************)
(* Fingerprint indexing, TERMS/cte_idx_fp.c and cte_fp_index.c, as the     *)
(* index of subterms uses it (CLAUSES/ccl_subterm_index.c).                *)
(*                                                                         *)
(* The key of a term is what is found in it at some positions; the index   *)
(* is a trie of keys.  A node of the trie is the prefix that leads to it;  *)
(* the leaves hold the occurrences <<term, clause>> of the terms with      *)
(* their key.                                                              *)
(***************************************************************************)
EXTENDS Unification

CONSTANTS FPTerms,   \* terms that are put into the index
          FPQueries, \* terms it is asked about
          FPFuns,    \* the indexing functions, by their names
          FPClauses  \* the clauses in which terms occur

VARIABLE fpindex \* [fp_fun, count, payload]: count is the number of children
                 \* of every node, payload the occurrences in every leaf

----------------------------------------------------------------------------
(* Keys; positions count arguments from zero. *)

Positions(fp_fun) ==
    CASE fp_fun = "FP1"  -> <<<<>>>>
      [] fp_fun = "FP2"  -> <<<<>>, <<0>>>>
      [] fp_fun = "FP3D" -> <<<<>>, <<0>>, <<0, 0>>>>
      [] fp_fun = "FP3W" -> <<<<>>, <<0>>, <<1>>>>
      [] fp_fun = "FP4M" -> <<<<>>, <<0>>, <<1>>, <<0, 0>>>>
      [] fp_fun = "FP6M" -> <<<<>>, <<0>>, <<1>>, <<2>>, <<0, 0>>, <<0, 1>>>>
      [] fp_fun = "FP7"  -> <<<<>>, <<0>>, <<1>>, <<0, 0>>, <<0, 1>>, <<1, 0>>, <<1, 1>>>>

RECURSIVE TermFPSampleFO(_, _)
TermFPSampleFO(t, pos) ==
    IF pos = <<>> THEN IF IsVar(t) THEN "any_var" ELSE FCode(t)
    ELSE IF IsVar(t) THEN "below_var"
    ELSE IF pos[1] >= Len(Args(t)) THEN "not_in_term"
    ELSE TermFPSampleFO(Args(t)[pos[1] + 1], Tail(pos))

(* The key of a discrimination tree: all symbols from left to right *)
RECURSIVE push_fcodes(_)
push_fcodes(t) == IF IsVar(t) THEN <<"any_var">>
                  ELSE FoldLeft(LAMBDA codes, a : codes \o push_fcodes(a), <<FCode(t)>>, Args(t))

Key(fp_fun, t) == IF fp_fun = "NPDT" THEN push_fcodes(t)
                  ELSE [i \in DOMAIN Positions(fp_fun) |-> TermFPSampleFO(t, Positions(fp_fun)[i])]

----------------------------------------------------------------------------
(* The trie *)

Nodes(index) == DOMAIN index.count
Alternatives(index, node) == {n \in Nodes(index) : n # <<>> /\ Front(n) = node}

FPTreeInsert(index, key) ==
    LET path  == {SubSeq(key, 1, n) : n \in 0..Len(key)}
        nodes == Nodes(index) \cup path
        new   == {n \in path \ Nodes(index) : TRUE}
    IN [index EXCEPT
          !.count = [n \in nodes |-> (IF n \in Nodes(index) THEN @[n] ELSE 0)
                                     + Cardinality({m \in new : m # <<>> /\ Front(m) = n})],
          !.payload = [n \in nodes |-> IF n \in Nodes(index) THEN @[n] ELSE {}]]

(* Is the node to be deleted when its branch is?  A leaf if it holds       *)
(* nothing, another node if it has no children left.                       *)
Deletable(index, node, key) == IF node = key THEN index.payload[node] = {} ELSE index.count[node] = 0

(* Mutant: the parent still counts the node. *)
ExtractUncounted(index, node) ==
    LET rest == Nodes(index) \ {node}
    IN [index EXCEPT !.count = Restrict(@, rest), !.payload = Restrict(@, rest)]

(* The index after the node has been taken out *)
fpindex_extract_alt(index, node) ==
    LET rest == Nodes(index) \ {node}
    IN [index EXCEPT !.count = [n \in rest |-> IF n = Front(node) THEN @[n] - 1 ELSE @[n]],
                     !.payload = Restrict(@, rest)]

fpindex_rek_delete(index, key) ==
    LET After(i, n) == LET node == SubSeq(key, 1, n)
                       IN IF Deletable(i, node, key) THEN fpindex_extract_alt(i, node) ELSE i
        depths == [d \in 1..Len(key) |-> Len(key) + 1 - d]
    IN FoldLeft(After, index, depths)

----------------------------------------------------------------------------
(* What a value in a key of the index is compatible with: the values in    *)
(* the index that a query's value has to be compared with.                 *)

(* Mutant: a position below a variable is not expected to be missing.      *)
UnifiableIfThere(value, values) ==
    CASE value = "not_in_term" -> {"not_in_term"}
      [] value = "below_var"   -> values
      [] value = "any_var"     -> values \ {"not_in_term"}
      [] OTHER                 -> {value, "any_var", "below_var"}

UnifiableWith(value, values) ==
    CASE value = "not_in_term" -> {"not_in_term", "below_var"}
      [] value = "below_var"   -> values
      [] value = "any_var"     -> values \ {"not_in_term"}
      [] OTHER                 -> {value, "any_var", "below_var"}

MatchableWith(value, values) ==
    CASE value = "below_var" -> values
      [] value = "any_var"   -> values \ {"not_in_term", "below_var"}
      [] OTHER               -> {value}

(* All leaves whose keys are compatible with the query *)
RECURSIVE fp_index_rek_find(_, _, _, _)
fp_index_rek_find(index, node, key, unify) ==
    IF Len(node) = Len(key) THEN index.payload[node]
    ELSE LET values == {Last(n) : n \in Alternatives(index, node)}
             value  == key[Len(node) + 1]
         IN UNION {fp_index_rek_find(index, Append(node, v), key, unify) :
                     v \in values \cap (IF unify THEN UnifiableWith(value, values)
                                                 ELSE MatchableWith(value, values))}

(* In a discrimination tree a variable on one side skips a whole term on   *)
(* the other: skip_term terms in the tree, skip_key in the query.          *)
Arity(f) == LET t == CHOOSE t \in UNION {Subterms(u) : u \in FPTerms \cup FPQueries} : FCode(t) = f
            IN Len(Args(t))
SymbolArity(f) == IF f = "any_var" THEN 0 ELSE Arity(f)

RECURSIVE dt_index_rek_find_unifiable(_, _, _, _, _, _)
dt_index_rek_find_unifiable(index, node, key, current, skip_term, skip_key) ==
    LET values == {Last(n) : n \in Alternatives(index, node)}
        Below(v, next, terms, keys) ==
            IF v \in values
            THEN dt_index_rek_find_unifiable(index, Append(node, v), key, next, terms, keys) ELSE {}
    IN IF skip_term > 0
       THEN UNION {Below(v, current, skip_term - 1 + SymbolArity(v), 0) : v \in values}
       ELSE IF skip_key > 0
       THEN dt_index_rek_find_unifiable(index, node, key, current + 1, 0,
                                        skip_key - 1 + SymbolArity(key[current]))
       ELSE IF current > Len(key) THEN index.payload[node]
       ELSE IF key[current] = "any_var"
       THEN UNION {Below(v, current + 1, SymbolArity(v), 0) : v \in values}
       ELSE Below(key[current], current + 1, 0, 0)
            \cup Below("any_var", current + 1, 0, SymbolArity(key[current]))

RECURSIVE dt_index_rek_find_matchable(_, _, _, _, _)
dt_index_rek_find_matchable(index, node, key, current, skip_term) ==
    LET values == {Last(n) : n \in Alternatives(index, node)}
        Below(v, next, terms) ==
            IF v \in values
            THEN dt_index_rek_find_matchable(index, Append(node, v), key, next, terms) ELSE {}
    IN IF skip_term > 0 THEN UNION {Below(v, current, skip_term - 1 + SymbolArity(v)) : v \in values}
       ELSE IF current > Len(key) THEN index.payload[node]
       ELSE IF key[current] = "any_var" THEN UNION {Below(v, current + 1, SymbolArity(v)) : v \in values}
       ELSE Below(key[current], current + 1, 0)

FPIndexFindUnifiable(index, t) ==
    LET key == Key(index.fp_fun, t)
    IN IF index.fp_fun = "NPDT" THEN dt_index_rek_find_unifiable(index, <<>>, key, 1, 0, 0)
                                ELSE fp_index_rek_find(index, <<>>, key, TRUE)

FPIndexFindMatchable(index, t) ==
    LET key == Key(index.fp_fun, t)
    IN IF index.fp_fun = "NPDT" THEN dt_index_rek_find_matchable(index, <<>>, key, 1, 0)
                                ELSE fp_index_rek_find(index, <<>>, key, FALSE)

----------------------------------------------------------------------------
(* The index of subterms over its life *)

FPInit == fpindex \in {[fp_fun |-> fp_fun, count |-> [n \in {<<>>} |-> 0],
                        payload |-> [n \in {<<>>} |-> {}]] : fp_fun \in FPFuns}

SubtermIndexInsertOcc(clause, t) ==
    LET key      == Key(fpindex.fp_fun, t)
        inserted == FPTreeInsert(fpindex, key)
    IN fpindex' = [inserted EXCEPT !.payload[key] = @ \cup {<<t, clause>>}]

(* A leaf that holds nothing any more is deleted. *)
SubtermIndexDeleteOcc(clause, t) ==
    LET key     == Key(fpindex.fp_fun, t)
        removed == [fpindex EXCEPT !.payload[key] = @ \ {<<t, clause>>}]
    IN /\ key \in Nodes(fpindex)
       /\ fpindex' = IF removed.payload[key] = {} THEN fpindex_rek_delete(removed, key) ELSE removed

FPNext == \E clause \in FPClauses, t \in FPTerms :
              SubtermIndexInsertOcc(clause, t) \/ SubtermIndexDeleteOcc(clause, t)

----------------------------------------------------------------------------
(* Properties *)

Stored == UNION Range(fpindex.payload)

(* Whatever came and went, no indexed term that unifies with a query, or   *)
(* is an instance of it, is missed: an inference or a rewriting step that  *)
(* is missed is never made up for.                                         *)
FPMissesNothing ==
    \A q \in FPQueries :
        /\ \A o \in Stored : SubstComputeMgu(q, o[1], <<>>).ok
                                => o \in FPIndexFindUnifiable(fpindex, q)
        /\ \A o \in Stored : SubstComputeMatch(q, o[1], <<>>).ok
                                => o \in FPIndexFindMatchable(fpindex, q)

(* The trie has the nodes of the keys of what it holds and no others, so   *)
(* branches that are empty are gone and none is freed with entries in it.  *)
FPHasNoDeadBranches ==
    Nodes(fpindex) = {<<>>} \cup UNION {{SubSeq(Key(fpindex.fp_fun, o[1]), 1, n) :
                                           n \in 0..Len(Key(fpindex.fp_fun, o[1]))} : o \in Stored}
=============================================================================
