---------------------------- MODULE SharedTerms ----------------------------
(***************************************************************************)
(* The term bank (TERMS/cte_termbanks.c) and what rewriting caches in its  *)
(* cells (CLAUSES/ccl_rewrite.c): rewrite links, normal form dates and the *)
(* flags of backward rewriting, for unit clauses.                          *)
(*                                                                         *)
(* Every term of every clause is shared: there is one cell for a term, and *)
(* all clauses believe what is cached in it.  A cell is made when a term   *)
(* is inserted, and freed when a garbage collection does not reach it.     *)
(*                                                                         *)
(* The recursions of the code are stacks of frames here.  What terms are,  *)
(* how they match and which is bigger is given by constants.               *)
(***************************************************************************)
EXTENDS Integers, Sequences

CONSTANTS
    Term, NoTerm,
    IsFreeVar(_), ArgsOf(_), SubtermsOf(_), VariablesOf(_),
    Rebuilt(_, _),  \* the term with other arguments
    MatchersOf(_, _), \* the substitutions, one at most, that make a pattern the term
    Applied(_, _), Renames(_),
    Greater(_, _),  \* the term ordering
    Problems, \* records: axioms, later (clauses that inferences bring), indexed
              \*   (rw_bw_index_type), forward_demod (0: none, 1: rules, 2: equations, too)
    MaxGC,      \* bound: garbage collections
    MaxDiscards \* bound: clauses that go unprocessed

Positions(t) == DOMAIN ArgsOf(t)

(* Arguments that some arguments of t may be rewritten to. *)
RewrittenArgs(t, args) ==
    /\ args \in [Positions(t) -> Term]
    /\ \A i \in Positions(t) : args[i] = ArgsOf(t)[i] \/ Greater(ArgsOf(t)[i], args[i])

(* Terms are built from their arguments: SubtermsOf(t) is the smallest set *)
(* with t and the arguments of its members.                                *)
ASSUME TermAssumption ==
    /\ NoTerm \notin Term
    /\ \A t \in Term :
          /\ IsFreeVar(t) \in BOOLEAN /\ ArgsOf(t) \in Seq(Term)
          /\ IsFreeVar(t) => ArgsOf(t) = <<>>
          /\ SubtermsOf(t) = {t} \cup UNION {SubtermsOf(ArgsOf(t)[i]) : i \in Positions(t)}
          /\ \A S \in SUBSET SubtermsOf(t) :
                t \in S /\ (\A s \in S : \A i \in Positions(s) : ArgsOf(s)[i] \in S)
                    => S = SubtermsOf(t)
          /\ Rebuilt(t, ArgsOf(t)) = t

(* A simplification ordering.  Term has what is smaller than its terms. *)
ASSUME OrderingAssumption ==
    /\ \A s, t \in Term : Greater(s, t) \in BOOLEAN
    /\ \A s \in Term : ~Greater(s, s)
    /\ \A s, t, u \in Term : Greater(s, t) /\ Greater(t, u) => Greater(s, u)
    /\ \A s, t \in Term : IsFreeVar(s) => ~Greater(s, t)
    /\ \A t \in Term : \A i \in Positions(t) : Greater(t, ArgsOf(t)[i])
    /\ \A t \in Term :
       \A args \in [Positions(t) -> UNION {{a} \cup {b \in Term : Greater(a, b)} :
                                             a \in {ArgsOf(t)[i] : i \in Positions(t)}}] :
          RewrittenArgs(t, args) /\ args # ArgsOf(t) =>
              /\ Rebuilt(t, args) \in Term /\ ArgsOf(Rebuilt(t, args)) = args
              /\ ~IsFreeVar(Rebuilt(t, args)) /\ Greater(t, Rebuilt(t, args))

(* Matching, and the ordering of what is instantiated *)
ASSUME MatchAssumption ==
    \A l, t \in Term : \A subst \in MatchersOf(l, t) :
        /\ Renames(subst) \in BOOLEAN /\ Applied(subst, l) = t
        /\ l = t => Renames(subst)
        /\ \A r \in Term : /\ Greater(l, r) => Greater(t, Applied(subst, r))
                           /\ Greater(t, Applied(subst, r)) => Applied(subst, r) \in Term
                           /\ ~Greater(r, Applied(subst, r))

ASSUME ProblemAssumption ==
    /\ MaxGC \in Nat /\ MaxDiscards \in Nat
    /\ \A p \in Problems :
          /\ p.axioms \subseteq Term \X Term \X BOOLEAN /\ p.later \subseteq Term \X Term \X BOOLEAN
          /\ p.forward_demod \in 0..2 /\ p.indexed \in BOOLEAN

VARIABLES
    problem,
    bank,        \* the cells by their terms
    garbage_state,
    set_date,    \* of processed_pos_rules and processed_pos_eqns
    unprocessed, processed, archive, tmp_store,
    later,       \* clauses not yet generated
    gcs, discards, \* garbage collections and discarded clauses so far
    pc,          \* "loop", "normalize", "search", "mark": what goes on
    cur,         \* the clause in work
    stack,       \* frames of term_li_normalform or term_is_rewritable, the last on top
    searched,    \* the clause whose sides are searched
    todo,        \* clauses still to be searched, or cells still to be marked
    found        \* clauses found to be rewritable

store  == <<problem, garbage_state, later, gcs>>
sets   == <<set_date, unprocessed, processed, archive, tmp_store, discards>>
search == <<searched, todo, found>>
vars == <<store, bank, sets, pc, cur, stack, search>>

NoRewrite   == 0
RuleRewrite == 1
FullRewrite == 2
Nothing == [side |-> "none"]

----------------------------------------------------------------------------
(* Unit clauses: l = r if positive, l # r if not *)

(* ClauseOrientLiterals: a bigger side goes first. *)
Oriented(c) == Greater(c.l, c.r)
Orient(c)   == IF Greater(c.r, c.l) THEN [c EXCEPT !.l = c.r, !.r = c.l] ELSE c

IsDemodulator(c) == c.positive
IsTrivial(c)     == c.positive /\ c.l = c.r
IsEmpty(c)       == ~c.positive /\ c.l = c.r

(* Rules are searched before equations. *)
SetOf(c) == IF Oriented(c) THEN RuleRewrite ELSE FullRewrite
DemodsIn(clauses, i) == {c \in clauses : IsDemodulator(c) /\ SetOf(c) = i}

(* The maximal side of a positive, oriented literal may be rewritten with  *)
(* proper instances only, if its clause is marked so.                      *)
RestrictedSide(c) == c.positive /\ Oriented(c)

(* instance_is_rule                                                        *)
InstanceIsRule(from, to, subst) ==
    /\ VariablesOf(to) \subseteq DOMAIN subst /\ ~Renames(subst)
    /\ Greater(Applied(subst, from), Applied(subst, to))

Directions(c) == IF Oriented(c) THEN {<<c.l, c.r>>} ELSE {<<c.l, c.r>>, <<c.r, c.l>>}

(* The results of rewriting t at its top with the demodulator d.           *)
TopRewrites(t, d) ==
    UNION {{[to |-> Applied(subst, dir[2]), proper |-> ~Renames(subst)] :
             subst \in {subst \in MatchersOf(dir[1], t) :
                          Oriented(d) \/ InstanceIsRule(dir[1], dir[2], subst)}} :
           dir \in Directions(d)}

----------------------------------------------------------------------------
(* Cells.  A cell that is not rewritten knows up to which date it is in    *)
(* normal form, for the rules and for all demodulators; one that is has a  *)
(* link to what it was rewritten to, at its top or below (demod = NULL).   *)
(* TPIsRRewritten (always): with a proper instance, or below the top.      *)

NewCell(state) == [flag |-> state, nf_date |-> <<0, 0>>, replace |-> NoTerm, top |-> FALSE,
                   always |-> FALSE, rewritable |-> {}]

Cells(t) == {s \in SubtermsOf(t) : ~IsFreeVar(s)}

(* TBInsertInstantiatedFO, tb_termtop_insert, for some terms               *)
InsertAll(b, state, terms) ==
    [s \in DOMAIN b \cup UNION {Cells(t) : t \in terms} |->
        IF s \in DOMAIN b THEN b[s] ELSE NewCell(state)]
TBInsert(b, state, t) == InsertAll(b, state, {t})

IsRewritten(b, t)    == ~IsFreeVar(t) /\ b[t].replace # NoTerm
IsTopRewritten(b, t) == IsRewritten(b, t) /\ b[t].top

(* Mutant: the mark TPIsRRewritten is never set. *)
AddLinkOnly(b, t, to, top, always) == [b EXCEPT ![t].replace = to, ![t].top = top]

(* TermAddRWLink                                                           *)
AddRWLink(b, t, to, top, always) ==
    [b EXCEPT ![t].replace = to, ![t].top = top, ![t].always = @ \/ always]

NFDate(b, t, level) == IF IsRewritten(b, t) THEN 0 ELSE b[t].nf_date[level]

(* rw_desc_cell_alloc: a normal form is as young as the youngest set.      *)
DemodDate(level) ==
    IF level = FullRewrite /\ set_date[FullRewrite] > set_date[RuleRewrite]
    THEN set_date[FullRewrite] ELSE set_date[RuleRewrite]

----------------------------------------------------------------------------
(* The stack: a frame is called, is changed, or returns to its caller.     *)

Top       == stack[Len(stack)]
Caller    == stack[Len(stack) - 1]
Call(f)   == stack' = Append(stack, f)
Become(f) == stack' = [stack EXCEPT ![Len(stack)] = f]
ReturnTo(f) ==
    stack' = [k \in 1..(Len(stack) - 1) |-> IF k = Len(stack) - 1 THEN f ELSE stack[k]]

----------------------------------------------------------------------------
(* Normal forms of terms: term_li_normalform, leftmost innermost           *)

(* from: the argument of the call, term: what it has become, args: of the  *)
(* term, normal forms before pos; sub, modified: an argument, or the term, *)
(* has changed in this round of the loop.                                  *)
NormalFrame(t, restricted) ==
    [from |-> t, term |-> t, at |-> "enter", args |-> ArgsOf(t), pos |-> 1,
     restricted |-> restricted, sub |-> FALSE, modified |-> FALSE]

RoundOf(f) == [f EXCEPT !.at = "args", !.args = ArgsOf(f.term), !.pos = 1,
                        !.sub = FALSE, !.modified = FALSE]

Limit(f) == f.restricted /\ ~f.sub

(* ClauseComputeLINormalform at a level, from the left side on. *)
StartPass(c, level, job) ==
    /\ pc' = "normalize"
    /\ cur' = [clause |-> c, old |-> c, level |-> level, side |-> "left", job |-> job]
    /\ stack' = <<NormalFrame(c.l, c.limited /\ RestrictedSide(c))>>

(* eqn_li_normalform: the left side, then the right side. *)
SideDone(t) ==
    IF cur.side = "left"
    THEN /\ cur' = [cur EXCEPT !.clause.l = t, !.side = "right"]
         /\ stack' = <<NormalFrame(cur.clause.r, FALSE)>>
    ELSE /\ cur' = [cur EXCEPT !.clause.r = t, !.side = "done"]
         /\ stack' = <<>>

ReturnNormal(t) ==
    IF Len(stack) = 1 THEN SideDone(t)
    ELSE /\ ReturnTo([Caller EXCEPT !.args[Caller.pos] = t, !.pos = @ + 1])
         /\ UNCHANGED cur

Normalizing(at) == pc = "normalize" /\ stack # <<>> /\ Top.at \in at

(* term_follow_top_RW_chain, a link                                        *)
CanFollow(f) == /\ cur.level # NoRewrite /\ IsTopRewritten(bank, f.term)
                /\ Limit(f) => bank[f.term].always

FollowLink ==
    /\ Normalizing({"enter", "chain"}) /\ CanFollow(Top)
    /\ Become([Top EXCEPT !.term = bank[Top.term].replace, !.modified = TRUE])
    /\ UNCHANGED <<store, bank, sets, pc, cur, search>>

(* The normal form is as young as the demodulators. *)
IsKnownNormal(t) ==
    cur.level # NoRewrite /\ ~IsFreeVar(t) =>
        ~IsRewritten(bank, t) /\ bank[t].nf_date[cur.level] >= DemodDate(cur.level)

ReturnAtOnce ==
    /\ Normalizing({"enter"}) /\ ~CanFollow(Top) /\ IsKnownNormal(Top.term)
    /\ ReturnNormal(Top.term)
    /\ UNCHANGED <<store, bank, sets, pc, search>>

StartRound ==
    /\ Normalizing({"enter"}) /\ ~CanFollow(Top) /\ ~IsKnownNormal(Top.term)
    /\ Become(RoundOf(Top))
    /\ UNCHANGED <<store, bank, sets, pc, cur, search>>

(* term_subterm_rewrite                                                    *)
NormalizeArgument ==
    /\ Normalizing({"args"}) /\ Top.pos \in Positions(Top.term)
    /\ Call(NormalFrame(Top.args[Top.pos], FALSE))
    /\ UNCHANGED <<store, bank, sets, pc, cur, search>>

SubtermsDone ==
    /\ Normalizing({"args"}) /\ Top.pos \notin Positions(Top.term)
    /\ LET sub == Top.args # ArgsOf(Top.term)
           new == Rebuilt(Top.term, Top.args)
       IN /\ bank' = IF sub THEN AddRWLink(TBInsert(bank, garbage_state, new), Top.term, new,
                                           FALSE, TRUE)
                     ELSE bank
          /\ Become([Top EXCEPT !.term = new, !.at = "top", !.sub = sub, !.modified = sub])
    /\ UNCHANGED <<store, sets, pc, cur, search>>

(* indexed_find_demodulator: demodulators that the normal form of t is not *)
(* younger than, with an instance that is allowed.                         *)
Demodulators(t, i, limit) ==
    {d \in DemodsIn(processed, i) :
        /\ NFDate(bank, t, i) < d.date
        /\ \E rw \in TopRewrites(t, d) : limit => rw.proper}

(* rewrite_with_clause_set_list: of the sets that are younger than the     *)
(* normal form the first one that has a demodulator.                       *)
HasDemodulator(t, i, limit) == /\ NFDate(bank, t, cur.level) < set_date[i]
                               /\ Demodulators(t, i, limit) # {}

DemodulatorsFor(t, limit) ==
    IF IsFreeVar(t) \/ IsTopRewritten(bank, t) THEN {}
    ELSE IF HasDemodulator(t, RuleRewrite, limit) THEN Demodulators(t, RuleRewrite, limit)
    ELSE IF cur.level = FullRewrite /\ HasDemodulator(t, FullRewrite, limit)
         THEN Demodulators(t, FullRewrite, limit) ELSE {}

(* rewrite_with_clause_set: the index finds one or another of them first.  *)
RewriteWith(d, t, limit) ==
    \E rw \in TopRewrites(t, d) :
       /\ limit => rw.proper
       /\ bank' = AddRWLink(TBInsert(bank, garbage_state, rw.to), t, rw.to, TRUE, limit)

RewriteTop ==
    /\ Normalizing({"top"})
    /\ LET demods == DemodulatorsFor(Top.term, Limit(Top))
       IN \/ demods = {} /\ bank' = bank
          \/ \E d \in demods : RewriteWith(d, Top.term, Limit(Top))
    /\ Become([Top EXCEPT !.at = "chain"])
    /\ UNCHANGED <<store, sets, pc, cur, search>>

(* What has changed is done again. *)
NextRound ==
    /\ Normalizing({"chain"}) /\ ~CanFollow(Top) /\ Top.modified
    /\ Become(RoundOf(Top))
    /\ UNCHANGED <<store, bank, sets, pc, cur, search>>

(* Mutant: a normal form is dated although rewriting was restricted. *)
DateAll(b, t, level, restricted) ==
    IF IsFreeVar(t) \/ IsRewritten(b, t) THEN b
    ELSE [b EXCEPT ![t].nf_date = IF level = FullRewrite THEN <<DemodDate(level), DemodDate(level)>>
                                  ELSE [@ EXCEPT ![RuleRewrite] = DemodDate(level)]]

DateNormalForm(b, t, level, restricted) ==
    IF IsFreeVar(t) \/ IsRewritten(b, t) \/ restricted THEN b
    ELSE [b EXCEPT ![t].nf_date = IF level = FullRewrite THEN <<DemodDate(level), DemodDate(level)>>
                                  ELSE [@ EXCEPT ![RuleRewrite] = DemodDate(level)]]

ReturnNormalForm ==
    /\ Normalizing({"chain"}) /\ ~CanFollow(Top) /\ ~Top.modified
    /\ bank' = DateNormalForm(bank, Top.term, cur.level, Top.restricted)
    /\ ReturnNormal(Top.term)
    /\ UNCHANGED <<store, sets, pc, search>>

----------------------------------------------------------------------------
(* Normal forms of clauses: ClauseComputeLINormalform.  Once the maximal   *)
(* side of a marked clause has been rewritten the mark is gone, and        *)
(* everything is tried again.                                              *)

SidesDone == pc = "normalize" /\ cur.side = "done"

MaxSideChanged == \/ cur.clause.l # cur.old.l
                  \/ cur.clause.r # cur.old.r /\ ~Oriented(cur.old)

TryAgain == MaxSideChanged /\ cur.old.limited /\ cur.old.positive

NormalizeAgain ==
    /\ SidesDone /\ TryAgain
    /\ StartPass([cur.clause EXCEPT !.limited = FALSE], cur.level, cur.job)
    /\ UNCHANGED <<store, bank, sets, search>>

Contracted(job) == SidesDone /\ ~TryAgain /\ cur.job = job
Result == Orient(cur.clause)
EndJob == pc' = "loop" /\ cur' = Nothing /\ stack' = <<>> /\ searched' = Nothing
          /\ todo' = {} /\ found' = {}

----------------------------------------------------------------------------
(* Backward rewriting *)

Flag(b, t, flags) == [b EXCEPT ![t].rewritable = @ \cup flags]
Always  == {"TPIsRewritable", "TPIsRRewritable"}
Limited == {"TPIsRewritable"}

(* Mutant: the link goes the wrong way. *)
LinkedBack(b, t, rw) ==
    AddRWLink(TBInsert(b, garbage_state, rw.to), rw.to, t, TRUE, rw.proper)

(* term_is_top_rewritable, term_find_rw_clauses: the term is flagged, and  *)
(* linked to the result unless a limited step has nothing to add.          *)
FlagAndLink(b, t, rw) ==
    LET flagged == Flag(b, t, IF rw.proper THEN Always ELSE Limited)
    IN IF IsRewritten(b, t) /\ ~rw.proper THEN flagged
       ELSE AddRWLink(TBInsert(flagged, garbage_state, rw.to), t, rw.to, TRUE, rw.proper)

(* The date of a demodulator, counted up before the search with it. *)
NextDate == DemodDate(FullRewrite) + 1

(* Mutant: the date is not counted up before the search. *)
OldDate == DemodDate(FullRewrite)

(* The search knows its own dates by it. *)
SearchDate == NextDate

(* ProcessClause: after backward rewriting the given clause enters a set.  *)
(* The dates of the sets, and the date of a clause that is not a           *)
(* demodulator, are not told apart otherwise.                              *)
FlagRule(b, given) ==
    IF IsDemodulator(given) /\ Oriented(given) THEN Flag(b, given.l, Limited) ELSE b

TermsOf(clauses) == UNION {{c.l, c.r} : c \in clauses}

Activate(given, b, victims) ==
    LET date == IF IsDemodulator(given) THEN NextDate ELSE DemodDate(FullRewrite)
    IN /\ bank' = FlagRule(b, given)
       /\ set_date' = IF IsDemodulator(given)
                      THEN [set_date EXCEPT ![SetOf(given)] = date] ELSE set_date
       /\ archive' = archive \cup TermsOf(victims)
       /\ tmp_store' = victims
       /\ processed' = (processed \ victims) \cup {[given EXCEPT !.date = date, !.limited = TRUE]}
       /\ EndJob
       /\ UNCHANGED <<store, unprocessed, discards>>

IsProcessable == ~IsTrivial(Result) /\ ~IsEmpty(Result)

ProcessNegative ==
    /\ Contracted("given") /\ IsProcessable /\ ~IsDemodulator(Result)
    /\ Activate(Result, bank, {})

(* Backward rewriting with bw_rw_index.  The index has the non-variable    *)
(* terms at the top of a side (rw_rest for a restricted side) and one      *)
(* level below: the recursion of term_collect_idx_subterms ends there.     *)
ArgSet(t) == {ArgsOf(t)[i] : i \in Positions(t)}
IndexedFull(c) == {s \in {c.r} \cup ArgSet(c.r) \cup ArgSet(c.l)
                          \cup (IF RestrictedSide(c) THEN {} ELSE {c.l}) : ~IsFreeVar(s)}
IndexedRest(c) == IF RestrictedSide(c) THEN {c.l} ELSE {}

IndexedTerms(new) == {t \in UNION {IndexedFull(c) \cup IndexedRest(c) : c \in processed} :
                        TopRewrites(t, new) # {}}

(* All these terms are flagged and linked, each to a result rw[t].         *)
FlagAndLinkAll(terms, rw) ==
    LET all == InsertAll(bank, garbage_state, {rw[t].to : t \in terms})
    IN [t \in DOMAIN all |-> IF t \in terms THEN FlagAndLink(all, t, rw[t])[t] ELSE all[t]]

FoundByIndex(new) ==
    {c \in processed :
        \/ \E t \in IndexedFull(c) : TopRewrites(t, new) # {}
        \/ \E t \in IndexedRest(c) : \E rw \in TopRewrites(t, new) : rw.proper}

ProcessWithIndex ==
    /\ Contracted("given") /\ IsProcessable /\ IsDemodulator(Result) /\ problem.indexed
    /\ LET terms == IndexedTerms(Result)
       IN \E rw \in [terms -> UNION {TopRewrites(t, Result) : t \in terms}] :
             /\ \A t \in terms : rw[t] \in TopRewrites(t, Result)
             /\ Activate(Result, FlagAndLinkAll(terms, rw), FoundByIndex(Result))

----------------------------------------------------------------------------
(* Backward rewriting without an index: find_rewritable_clauses, for the   *)
(* rules, the equations and the rest.                                      *)

StartSearch ==
    /\ Contracted("given") /\ IsProcessable /\ IsDemodulator(Result) /\ ~problem.indexed
    /\ pc' = "search" /\ todo' = processed
    /\ cur' = [cur EXCEPT !.clause = Result, !.old = Result]
    /\ UNCHANGED <<store, bank, sets, stack, searched, found>>

SearchFrame(t, restricted) == [term |-> t, pos |-> 1, restricted |-> restricted, res |-> FALSE]

RankOf(c) == IF IsDemodulator(c) THEN SetOf(c) ELSE FullRewrite + 1

(* eqn_has_rw_side: both sides are searched, the left one first. *)
SearchClause ==
    /\ pc = "search" /\ searched = Nothing
    /\ \E c \in todo :
          /\ \A d \in todo : RankOf(c) <= RankOf(d)
          /\ todo' = todo \ {c}
          /\ searched' = [clause |-> c, side |-> "left"]
          /\ stack' = <<SearchFrame(c.l, RestrictedSide(c))>>
    /\ UNCHANGED <<store, bank, sets, pc, cur, found>>

SideSearched(res) ==
    /\ found' = IF res THEN found \cup {searched.clause} ELSE found
    /\ IF searched.side = "left"
       THEN /\ searched' = [searched EXCEPT !.side = "right"]
            /\ stack' = <<SearchFrame(searched.clause.r, FALSE)>>
       ELSE searched' = Nothing /\ stack' = <<>>

ReturnSearched(res) ==
    /\ IF Len(stack) = 1 THEN SideSearched(res)
       ELSE /\ ReturnTo(IF res THEN [Caller EXCEPT !.res = TRUE] ELSE [Caller EXCEPT !.pos = @ + 1])
            /\ UNCHANGED <<searched, found>>
    /\ UNCHANGED <<store, sets, pc, cur, todo>>

(* term_is_rewritable: what is known without a search. *)
IsFlagged(f) == \/ bank[f.term].rewritable = Always
                \/ ~f.restricted /\ bank[f.term].rewritable # {}
IsDated(f)   == bank[f.term].nf_date[FullRewrite] = SearchDate
IsAnswered(f) == f.pos = 1 /\ (~IsFreeVar(f.term) => IsFlagged(f) \/ IsDated(f))

Searching == pc = "search" /\ stack # <<>> /\ ~Top.res

AnswerAtOnce ==
    /\ Searching /\ IsAnswered(Top)
    /\ bank' = bank
    /\ ReturnSearched(~IsFreeVar(Top.term) /\ IsFlagged(Top))

SearchArgument ==
    /\ Searching /\ ~IsAnswered(Top) /\ Top.pos \in Positions(Top.term)
    /\ Call(SearchFrame(ArgsOf(Top.term)[Top.pos], FALSE))
    /\ UNCHANGED <<store, bank, sets, pc, cur, search>>

ArgumentFound ==
    /\ pc = "search" /\ stack # <<>> /\ Top.res
    /\ bank' = Flag(bank, Top.term, Always)
    /\ ReturnSearched(TRUE)

DateIrreducible(b, t, restricted) ==
    IF b[t].rewritable # {} \/ IsRewritten(b, t) \/ restricted THEN b
    ELSE [b EXCEPT ![t].nf_date = <<SearchDate, SearchDate>>]

SearchTop ==
    /\ Searching /\ ~IsAnswered(Top) /\ Top.pos \notin Positions(Top.term)
    /\ \/ /\ TopRewrites(Top.term, cur.clause) = {}
          /\ bank' = DateIrreducible(bank, Top.term, Top.restricted)
          /\ ReturnSearched(FALSE)
       \/ \E rw \in TopRewrites(Top.term, cur.clause) :
             /\ bank' = FlagAndLink(bank, Top.term, rw)
             /\ ReturnSearched(Top.restricted => rw.proper)

EndSearch ==
    /\ pc = "search" /\ searched = Nothing /\ todo = {}
    /\ Activate(cur.clause, bank, found)

----------------------------------------------------------------------------
(* The main loop *)

Clause(ax) == Orient([l |-> ax[1], r |-> ax[2], positive |-> ax[3], limited |-> FALSE, date |-> 0])
NoCells == [s \in {} |-> NewCell(FALSE)]

Init ==
    /\ problem \in Problems
    /\ garbage_state = FALSE
    /\ unprocessed = {Clause(ax) : ax \in problem.axioms}
    /\ bank = InsertAll(NoCells, garbage_state, TermsOf(unprocessed))
    /\ set_date = [i \in {RuleRewrite, FullRewrite} |-> 0]
    /\ processed = {} /\ archive = {} /\ tmp_store = {}
    /\ later = problem.later /\ gcs = 0 /\ discards = 0
    /\ pc = "loop" /\ cur = Nothing /\ stack = <<>>
    /\ searched = Nothing /\ todo = {} /\ found = {}

AtLoop     == pc = "loop" /\ ~\E c \in unprocessed : IsEmpty(c)
AtLoopHead == AtLoop /\ tmp_store = {}

(* generate_new_clauses: a new clause, whose terms are inserted. *)
Generate ==
    /\ AtLoop
    /\ \E ax \in later :
          /\ later' = later \ {ax}
          /\ tmp_store' = tmp_store \cup {Clause(ax)}
          /\ bank' = InsertAll(bank, garbage_state, {ax[1], ax[2]})
    /\ UNCHANGED <<problem, garbage_state, gcs, set_date, unprocessed, processed, archive, discards,
                   pc, cur, stack, search>>

(* insert_new_clauses: a clause that was backward rewritten is normalised  *)
(* with all demodulators first, then each with those for forward rewriting.*)
InsertNewClause ==
    /\ AtLoop
    /\ \E c \in tmp_store :
          /\ tmp_store' = tmp_store \ {c}
          /\ IF c.limited THEN StartPass(c, FullRewrite, "victim")
             ELSE StartPass(c, problem.forward_demod, "new")
    /\ UNCHANGED <<store, bank, set_date, unprocessed, processed, archive, discards, search>>

NormalizeVictim ==
    /\ Contracted("victim")
    /\ StartPass(Result, problem.forward_demod, "new")
    /\ UNCHANGED <<store, bank, sets, search>>

ClauseInserted ==
    /\ Contracted("new")
    /\ unprocessed' = unprocessed \cup {c \in {Result} : ~IsTrivial(c)}
    /\ EndJob
    /\ UNCHANGED <<store, bank, set_date, processed, archive, tmp_store, discards>>

(* A clause is given, or forward contracted among the unprocessed ones.    *)
SelectClause ==
    /\ AtLoopHead
    /\ \E c \in unprocessed : /\ unprocessed' = unprocessed \ {c}
                              /\ StartPass(c, FullRewrite, "given")
    /\ UNCHANGED <<store, bank, set_date, processed, archive, tmp_store, discards, search>>

(* ForwardContractSet keeps it; an empty clause ends the search for a proof. *)
KeepContracted ==
    /\ Contracted("given")
    /\ unprocessed' = unprocessed \cup {c \in {Result} : ~IsTrivial(c)}
    /\ EndJob
    /\ UNCHANGED <<store, bank, set_date, processed, archive, tmp_store, discards>>

(* It is found to be subsumed. *)
DiscardContracted ==
    /\ Contracted("given") /\ discards < MaxDiscards
    /\ discards' = discards + 1
    /\ EndJob
    /\ UNCHANGED <<store, bank, set_date, unprocessed, processed, archive, tmp_store>>

(* A clause goes, as an orphan or for its weight. *)
Discard ==
    /\ AtLoopHead /\ discards < MaxDiscards
    /\ discards' = discards + 1
    /\ \E c \in unprocessed : unprocessed' = unprocessed \ {c}
    /\ UNCHANGED <<store, bank, set_date, processed, archive, tmp_store, pc, cur, stack, search>>

(* ProofStateResetProcessedSet, at the end of presaturation.  Bound: the   *)
(* code goes on generating clauses after it, here no later one comes.      *)
ResetProcessed ==
    /\ AtLoopHead /\ later # {} /\ unprocessed = {} /\ processed # {}
    /\ unprocessed' = processed /\ processed' = {}
    /\ archive' = archive \cup TermsOf(processed)
    /\ later' = {}
    /\ UNCHANGED <<problem, garbage_state, gcs, bank, set_date, tmp_store, discards,
                   pc, cur, stack, search>>

----------------------------------------------------------------------------
(* Garbage collection *)

Roots == TermsOf(processed \cup unprocessed \cup tmp_store) \cup archive

CollectGarbage ==
    /\ AtLoopHead /\ gcs < MaxGC
    /\ gcs' = gcs + 1
    /\ pc' = "mark" /\ todo' = Roots
    /\ UNCHANGED <<problem, garbage_state, later, bank, sets, cur, stack, searched, found>>

(* Mutant: links are not followed. *)
ArgsOnly(t) == ArgSet(t)

(* TBGCMarkTerm: from a cell its arguments and its link are reached.       *)
Reached(t) == ArgSet(t) \cup (IF IsRewritten(bank, t) THEN {bank[t].replace} ELSE {})

(* What has the state of the bank is not marked; all terms on the stack    *)
(* are taken at once.                                                      *)
Unmarked == {t \in todo : ~IsFreeVar(t) /\ bank[t].flag = garbage_state}

MarkTerms ==
    /\ pc = "mark" /\ Unmarked # {}
    /\ bank' = [t \in DOMAIN bank |-> IF t \in Unmarked THEN [bank[t] EXCEPT !.flag = ~@] ELSE bank[t]]
    /\ todo' = UNION {Reached(t) : t \in Unmarked}
    /\ UNCHANGED <<store, sets, pc, cur, stack, searched, found>>

(* TBGCSweep                                                               *)
Sweep ==
    /\ pc = "mark" /\ Unmarked = {}
    /\ bank' = [t \in {t \in DOMAIN bank : bank[t].flag # garbage_state} |-> bank[t]]
    /\ garbage_state' = ~garbage_state
    /\ pc' = "loop" /\ todo' = {}
    /\ UNCHANGED <<problem, later, gcs, sets, cur, stack, searched, found>>

----------------------------------------------------------------------------
TermStep == \/ FollowLink \/ ReturnAtOnce \/ StartRound \/ NormalizeArgument \/ SubtermsDone
            \/ RewriteTop \/ NextRound \/ ReturnNormalForm

SearchStep == \/ StartSearch \/ SearchClause \/ AnswerAtOnce \/ SearchArgument \/ ArgumentFound
              \/ SearchTop \/ EndSearch

ClauseStep == \/ SelectClause \/ NormalizeAgain \/ KeepContracted \/ DiscardContracted
              \/ ProcessNegative \/ ProcessWithIndex
              \/ Generate \/ InsertNewClause \/ NormalizeVictim \/ ClauseInserted
              \/ Discard \/ ResetProcessed

GCStep == CollectGarbage \/ MarkTerms \/ Sweep

Next == TermStep \/ SearchStep \/ ClauseStep \/ GCStep

Spec == Init /\ [][Next]_vars

----------------------------------------------------------------------------
(* A date in a cell is not in the future, and a link for a step below the  *)
(* top may always be followed (TermAddRWLink, term_subterm_rewrite).       *)
Today == IF pc = "search" THEN SearchDate ELSE DemodDate(FullRewrite)

TypeOK ==
    /\ problem \in Problems /\ garbage_state \in BOOLEAN /\ gcs \in 0..MaxGC
    /\ pc \in {"loop", "normalize", "search", "mark"}
    /\ \A t \in DOMAIN bank :
          /\ bank[t].flag \in BOOLEAN
          /\ IsRewritten(bank, t) => bank[t].top \/ bank[t].always
          /\ bank[t].rewritable \in {{}, Limited, Always}
          /\ \A i \in {RuleRewrite, FullRewrite} : bank[t].nf_date[i] <= Today

(* All terms that a clause, a call, a cell or the link of a cell leads to  *)
(* have a cell: the collection freed none of them.  (TBGCMarkTerm; a new   *)
(* cell has to be flagged with the current state of the bank.)             *)
HasCell(t) == IsFreeVar(t) \/ t \in DOMAIN bank
InWork     == IF cur = Nothing THEN {} ELSE {cur.clause}

NothingDangles ==
    /\ \A t \in Roots \cup TermsOf(InWork) : HasCell(t)
    /\ \A k \in DOMAIN stack : HasCell(stack[k].term)
    /\ \A t \in DOMAIN bank : Cells(t) \subseteq DOMAIN bank
    /\ \A t \in DOMAIN bank : IsRewritten(bank, t) => HasCell(bank[t].replace)
    /\ pc # "mark" => \A t \in DOMAIN bank : bank[t].flag = garbage_state

(* A link leads to a smaller term, so that following links ends.           *)
LinksDescend ==
    \A t \in DOMAIN bank : IsRewritten(bank, t) => Greater(t, bank[t].replace)

(* A cell that is not rewritten tells the truth about its normal form: no  *)
(* processed demodulator up to its date rewrites it, at the top or below.  *)
(* indexed_find_demodulator() does not even try these demodulators.        *)
Reducible(t, d) == \E s \in Cells(t) : TopRewrites(s, d) # {}

DatesAreTrue ==
    \A t \in DOMAIN bank : ~IsRewritten(bank, t) =>
        \A i \in {RuleRewrite, FullRewrite} : \A j \in 1..i : \A d \in DemodsIn(processed, j) :
            d.date <= bank[t].nf_date[i] => ~Reducible(t, d)

(* The processed clauses are in normal form with respect to each other     *)
(* where backward rewriting looks, except for restricted rewriting at the  *)
(* top of the bigger side, whatever links and dates made rewriting skip.   *)
OthersOf(c) == {d \in processed \ {c} : IsDemodulator(d)}

UnrestrictedCells(c) ==
    {s \in Cells(c.l) \cup Cells(c.r) : s # c.l \/ ~RestrictedSide(c)}

Interreduced ==
    \A c \in processed : \A d \in OthersOf(c) :
        \A s \in IF problem.indexed THEN IndexedFull(c) ELSE UnrestrictedCells(c) :
            TopRewrites(s, d) = {}

(* Header of RemoveRewritableClausesIndexed() (CONTROL/cco_simplification.c)*)
(* "Remove all clauses in gindices->bw_rw_index which can be rewritten     *)
(* with new_demod."                                                        *)
RewritableClausesAreRemoved ==
    \A c \in processed : \A d \in OthersOf(c) :
        c.date < d.date => \A s \in UnrestrictedCells(c) : TopRewrites(s, d) = {}

(* Comment of TPIsRRewritten (TERMS/cte_termtypes.h): set when a term has  *)
(* been rewritten "with a real instance".  So a processed rule would not   *)
(* keep a left side that is a proper instance of another one's.            *)
RulesAreProperlyReduced ==
    \A c \in processed : \A d \in OthersOf(c) : \A rw \in TopRewrites(c.l, d) : ~rw.proper
=============================================================================
