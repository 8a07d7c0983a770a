----------------------------- MODULE FVIndexing -----------------------------
(***************************************************************************)
(* Feature vector indexing: CLAUSES/ccl_freqvectors.c computes a vector of *)
(* symbol counts and depths that grows from a clause to all it subsumes;   *)
(* CLAUSES/ccl_fcvindexing.c keeps a set of clauses in a trie over these   *)
(* vectors; CLAUSES/ccl_subsumption.c searches only the parts of it whose  *)
(* keys are small or large enough.                                         *)
(***************************************************************************)
EXTENDS Subsumption

CONSTANTS FVClauses,       \* the clauses that come and go, sorted
          FVQueries,       \* the clauses that are looked for
          FVFeatures,      \* the feature types (--fvindex-featuretypes)
          FVMaxSymbols,    \* the values of --fvindex-maxfeatures
          FVAxioms,        \* the sets of clauses the vectors are tuned for
          OriginalSymbols, \* the highest code when the index is initialised
          Internal,        \* the codes up to this one are internal symbols
          Predicates       \* the symbols that are predicates

VARIABLE fvi

----------------------------------------------------------------------------
(* Features *)

(* The symbols of t, each with its code and depth *)
RECURSIVE SymbolsOf(_, _)
SymbolsOf(t, depth) ==
    IF IsVar(t) THEN <<>>
    ELSE <<<<Codes[FCode(t)], depth>>>>
         \o FlattenSeq([i \in DOMAIN Args(t) |-> SymbolsOf(Args(t)[i], depth + 1)])

LitSymbols(lits) ==
    FlattenSeq([i \in DOMAIN lits |-> SymbolsOf(lits[i].l, 0) \o SymbolsOf(lits[i].r, 0)])

Count(symbols, S)    == Len(SelectSeq(symbols, LAMBDA s : s[1] \in S))
MaxDepth(symbols, S) == Max({0} \cup {s[2] : s \in {s \in ToSet(symbols) : s[1] \in S}})

(* Four features of every symbol f, at 4 * f to 4 * f + 3 *)
TermAddSymbolFeatures(clause, findex) ==
    LET f == {findex \div 4}
    IN CASE findex % 4 = 0 -> Count(LitSymbols(PosLits(clause)), f)
         [] findex % 4 = 1 -> MaxDepth(LitSymbols(PosLits(clause)), f)
         [] findex % 4 = 2 -> Count(LitSymbols(NegLits(clause)), f)
         [] findex % 4 = 3 -> MaxDepth(LitSymbols(NegLits(clause)), f)

(* The place of a feature in the vector, or -1.  What has no place of its  *)
(* own is folded into a range of them: <<base, offset, mod>>.              *)
Place(cspec, findex) ==
    LET rest == cspec.rest[(findex % 4) + 1]
    IN IF findex \in DOMAIN cspec.assembly THEN cspec.assembly[findex]
       ELSE IF rest[3] = 0 THEN -1
       ELSE rest[1] + ((rest[2] + findex \div 4) % rest[3])

FVCollectFreqVectorCompute(clause, cspec) ==
    LET codes       == {s[1] : s \in ToSet(LitSymbols(clause))}
        gathered(i) == {n \in {4 * f + k : f \in codes, k \in 0..3} : Place(cspec, n) = i}
        literals    == <<Len(PosLits(clause)), Len(NegLits(clause))>>
    IN [i \in 1..cspec.len |->
          (IF i <= 2 THEN literals[i] ELSE 0)
          + MapThenSumSet(LAMBDA n : TermAddSymbolFeatures(clause, n), gathered(i - 1))]

(* The other way to count: each symbol below the limit has its place, all  *)
(* others share place 0.                                                   *)
Sharing(i, limit) == IF i = 0 THEN {f \in Range(Codes) : f = 0 \/ f >= limit}
                               ELSE {i} \ {limit}

VarFreqVectorAddVals(clause, features, limit) ==
    LET pos == LitSymbols(PosLits(clause))
        neg == LitSymbols(NegLits(clause))
        freq(symbols)  == [i \in 1..(limit + 1) |-> Count(symbols, Sharing(i - 1, limit))]
        depth(symbols) == [i \in 1..(limit + 1) |-> MaxDepth(symbols, Sharing(i - 1, limit))]
        literals == <<Len(PosLits(clause)), Len(NegLits(clause))>>
    IN CASE features = "AC"  -> literals \o freq(neg) \o freq(pos)
         [] features = "SS"  -> depth(neg) \o depth(pos)
         [] features = "All" -> literals \o freq(neg) \o freq(pos) \o depth(pos) \o depth(neg)

VarFreqVectorCompute(clause, cspec) ==
    IF cspec.features = "Collect" THEN FVCollectFreqVectorCompute(clause, cspec)
                                  ELSE VarFreqVectorAddVals(clause, cspec.features, cspec.symbols)

----------------------------------------------------------------------------
(* Which features, and in which order *)

UserCodes(predicates) ==
    LET codes == {Codes[s] : s \in {s \in DOMAIN Codes : (s \in Predicates) = predicates}}
    IN SelectSeq([f \in 1..OriginalSymbols |-> f], LAMBDA f : f > Internal /\ f \in codes)

(* How many predicates and functions get places of their own, if there are *)
(* len places and other are taken                                          *)
RECURSIVE Fitting(_, _, _, _)
Fitting(p_no, f_no, other, len) ==
    IF other + 2 * p_no + 4 * f_no <= len THEN <<p_no, f_no>>
    ELSE IF p_no > f_no THEN Fitting(p_no - 1, f_no, other, len)
                        ELSE Fitting(p_no, f_no - 1, other, len)

Assembly(len, other) ==
    LET fit == Fitting(Len(UserCodes(TRUE)), Len(UserCodes(FALSE)), other, len)
        p   == SubSeq(UserCodes(TRUE), 1, fit[1])
        f   == SubSeq(UserCodes(FALSE), 1, fit[2])
    IN [n \in 0..(4 * OriginalSymbols + 5) |->
          LET code == n \div 4
          IN CASE Contains(p, code) /\ n % 4 < 2 -> 2 * SelectInSeq(p, LAMBDA c : c = code) + (n % 4)
               [] Contains(f, code) -> 2 * Len(p) + 4 * SelectInSeq(f, LAMBDA c : c = code) - 2 + (n % 4)
               [] OTHER -> -1]

Collect(symbols, len, assembly, rest) ==
    [features |-> "Collect", symbols |-> symbols, len |-> len, assembly |-> assembly, rest |-> rest]

NoRest == <<0, 0, 0>>

(* fvi_param_init *)
CollectSpec(features, max_symbols) ==
    LET symbols == Min({OriginalSymbols, max_symbols})
        len     == 2 * symbols + 2
    IN CASE features = "Bill" ->
              Collect(symbols, len, Assembly(len, 2), [k \in 1..4 |-> NoRest])
         [] features = "BillPlus" ->
              Collect(symbols, len + 2, Assembly(len + 2, 6),
                      <<<<len - 2, 0, 1>>, <<len, 0, 1>>, <<len - 1, 0, 1>>, <<len + 1, 0, 1>>>>)
         [] features = "ACFold" ->
              Collect(symbols, len, <<>>, <<<<2, 0, symbols>>, NoRest, <<symbols + 2, 0, symbols>>, NoRest>>)
         [] features = "ACStagger" ->
              Collect(symbols, len, <<>>,
                      <<<<2, 0, 2 * symbols>>, NoRest, <<2, 2 + symbols, 2 * symbols>>, NoRest>>)
         [] OTHER -> [features |-> features, symbols |-> symbols]

(* The max_len most informative places of the vectors (pairs of a clause   *)
(* and its vector), the best last; a place is informative if its values    *)
(* differ, and then if they are large.                                     *)
MostInformative(vectors, max_len, eliminate_uninformative) ==
    LET values(i) == {v[2][i] : v \in vectors}
        diff(i)   == Max(values(i)) - Min(values(i))
        sum(i)    == MapThenSumSet(LAMBDA v : v[2][i], vectors)
        size      == Len((CHOOSE v \in vectors : TRUE)[2])
        less(i, j) == \/ diff(i) < diff(j)
                      \/ diff(i) = diff(j) /\ sum(i) < sum(j)
                      \/ diff(i) = diff(j) /\ sum(i) = sum(j) /\ i > j
        start1    == IF eliminate_uninformative THEN Cardinality({i \in 1..size : diff(i) = 0}) ELSE 0
        start     == Max({size - max_len, 0, start1})
    IN SubSeq(SortSeq([i \in 1..size |-> i], less), Min({start + 1, size}), size)

PermVectorCompute(axioms, cspec, eliminate_uninformative) ==
    MostInformative({<<c, VarFreqVectorCompute(c, cspec)>> : c \in axioms}, cspec.symbols,
                    eliminate_uninformative)

Permuted(vec, perm) == [i \in DOMAIN perm |-> vec[perm[i]]]

OptimizedVarFreqVectorCompute(clause, perm, cspec) ==
    Permuted(VarFreqVectorCompute(clause, cspec), perm)

----------------------------------------------------------------------------
(* The trie: a node is the sequence of keys that leads to it *)

Vector(clause) == OptimizedVarFreqVectorCompute(clause, fvi.perm, fvi.cspec)
Way(vec)       == {SubSeq(vec, 1, n) : n \in 0..Len(vec)}
Kept           == UNION {fvi.clauses[leaf] : leaf \in DOMAIN fvi.clauses}

EmptyIndex(cspec, perm) ==
    [cspec |-> cspec, perm |-> perm, clause_count |-> (<<>> :> 0), clauses |-> <<>>]

(* Mutant: a node that exists already is not counted up. *)
InsertUncounted(clause) ==
    \E vec \in {Vector(clause)} :
       fvi' = [fvi EXCEPT !.clause_count = @ @@ [n \in Way(vec) |-> 1],
                          !.clauses = (vec :> {clause} \cup IF vec \in DOMAIN @ THEN @[vec] ELSE {}) @@ @]

FVIndexInsert(clause) ==
    \E vec \in {Vector(clause)} :
       fvi' = [fvi EXCEPT
                 !.clause_count = [n \in DOMAIN @ \cup Way(vec) |->
                     (IF n \in DOMAIN @ THEN @[n] ELSE 0) + Number(n \in Way(vec))],
                 !.clauses = (vec :> {clause} \cup IF vec \in DOMAIN @ THEN @[vec] ELSE {}) @@ @]

(* Nodes stay when their last clause goes. *)
FVIndexDelete(clause) ==
    \E vec \in {Vector(clause)} :
       fvi' = [fvi EXCEPT !.clause_count = [n \in DOMAIN @ |-> @[n] - Number(n \in Way(vec))],
                          !.clauses[vec] = @ \ {clause}]

Successors(node) == {n \in DOMAIN fvi.clause_count : Len(n) = Len(node) + 1 /\ Front(n) = node}

(* Forward subsumption wants small keys, backward subsumption large ones,  *)
(* the search for a variant the same ones.                                 *)
KeyFits(key, value, search) == CASE search = "subsuming" -> key <= value
                                 [] search = "subsumed"  -> key >= value
                                 [] search = "variant"   -> key = value

RECURSIVE ClausesReached(_, _, _)
ClausesReached(node, vec, search) ==
    IF Len(node) = Len(vec) THEN IF node \in DOMAIN fvi.clauses THEN fvi.clauses[node] ELSE {}
    ELSE UNION {ClausesReached(n, vec, search) :
                  n \in {n \in Successors(node) : /\ KeyFits(Last(n), vec[Len(n)], search)
                                                  /\ fvi.clause_count[n] # 0}}

clause_set_subsumes_clause_indexed(clause) ==
    {c \in ClausesReached(<<>>, Vector(clause), "subsuming") : clause_subsumes_clause(c, clause)}

clauseset_find_subsumed_clauses_indexed(subsumer) ==
    {c \in ClausesReached(<<>>, Vector(subsumer), "subsumed") : clause_subsumes_clause(subsumer, c)}

clauseset_find_variant_clause_indexed(clause) ==
    {c \in ClausesReached(<<>>, Vector(clause), "variant") :
        clause_subsumes_clause(c, clause) /\ clause_subsumes_clause(clause, c)}

FVInit ==
    \E features \in FVFeatures, max_symbols \in FVMaxSymbols, axioms \in FVAxioms, eliminate \in BOOLEAN :
       \E cspec \in {CollectSpec(features, max_symbols)} :
          fvi = EmptyIndex(cspec, PermVectorCompute(axioms, cspec, eliminate))

FVNext == \/ \E c \in FVClauses \ Kept : FVIndexInsert(c)
          \/ \E c \in Kept : FVIndexDelete(c)

(* The index only saves work: whatever features it is built on and however *)
(* many symbols were introduced after that, a search finds the clauses     *)
(* that a scan of the set would find, after any clauses came and went.     *)
FVMissesNothing ==
    \A query \in FVQueries :
       LET subsuming == {c \in Kept : clause_subsumes_clause(c, query)}
           subsumed  == {c \in Kept : clause_subsumes_clause(query, c)}
       IN /\ clause_set_subsumes_clause_indexed(query) = subsuming
          /\ clauseset_find_subsumed_clauses_indexed(query) = subsumed
          /\ clauseset_find_variant_clause_indexed(query) = subsuming \cap subsumed
=============================================================================
