----------------------------- MODULE Saturation -----------------------------
(***************************************************************************)
(* The given-clause loop of E: Saturate() and ProcessClause() of           *)
(* CONTROL/cco_proofproc.c, with forward contraction                       *)
(* (cco_forward_contraction.c), backward simplification                    *)
(* (cco_simplification.c) and the verdict main() draws from it             *)
(* (PROVER/eprover.c).  First-order problems, no watchlist, no splitting,  *)
(* no answer literals.                                                     *)
(*                                                                         *)
(* The prover is sequential.  Its functions are cut into one action per    *)
(* loop body or call, in the order of the source; pc is the place reached. *)
(* The normalisations (ForwardModifyClause) are one action per             *)
(* simplification, taken until none applies: which redex comes first is    *)
(* left open.                                                              *)
(***************************************************************************)
EXTENDS ClauseLogic

CONSTANTS
    Problems,   \* the clause sets a search may start from
    ParmSet     \* the heuristic_parms a search may run with

ASSUME ProblemsAssumption == Problems \subseteq SUBSET Clause

VARIABLES
    store,       \* id -> processed or archived clause
    unprocessed, \* state->unprocessed
    tmp_store,   \* state->tmp_store
    eval_store,  \* state->eval_store
    pending,     \* part of unprocessed ForwardContractSet still has to visit
    cur,         \* the clause at hand: the given clause or a loop's handle
    given,       \* id of the given clause once it is processed, 0 before
    extract_roots,     \* state->extract_roots
    state_is_complete, \* state->state_is_complete
    phase,       \* "presat" interreduction or "main" search
    verdict,     \* what main() reports
    pc,
    axioms, parms      \* input, never changed

vars == <<store, unprocessed, tmp_store, eval_store, pending, cur, given,
          extract_roots, state_is_complete, phase, verdict, pc, axioms, parms>>
stores == <<unprocessed, tmp_store, eval_store, pending>>
input  == <<axioms, parms>>

----------------------------------------------------------------------------
(* Clause objects.  parents is what the first operation of the derivation  *)
(* names if it generates ({} after a DCCnfQuote); lim is CPLimitedRW,      *)
(* victim CPIsIRVictim.  A clause that can be a parent has an id.          *)

DemodSets  == {"processed_pos_rules", "processed_pos_eqns"}
ProcSets   == DemodSets \cup {"processed_neg_units", "processed_non_units"}
Processed  == {i \in DOMAIN store : store[i].set \in ProcSets}
In(S)      == {i \in DOMAIN store : store[i].set \in S}
LitsIn(S)  == {store[i].lits : i \in In(S)}
ClauseCell == [lits : Clause, parents : SUBSET (Nat \ {0}),
               lim : BOOLEAN, victim : BOOLEAN]
NoClause   == [lits |-> {}, parents |-> {0}, lim |-> FALSE, victim |-> FALSE]

NewClause(c, ps) == [lits |-> c, parents |-> ps, lim |-> FALSE, victim |-> FALSE]

(* ClauseIsOrphaned *)
Orphaned(c) == \E i \in c.parents : store[i].dead

----------------------------------------------------------------------------
(* Forward simplification of one clause *)

(* demods[0..level-1]: NoRewrite 0, RuleRewrite 1, FullRewrite 2 *)
Demods(level) == LitsIn(CASE level = 0 -> {}
                          [] level = 1 -> {"processed_pos_rules"}
                          [] OTHER     -> DemodSets)

(* restricted_rw: in a clause marked CPLimitedRW the maximal side of a     *)
(* maximal oriented literal may not be rewritten at the top by a variant.  *)
Restricted(r, c, lim) == /\ lim /\ r.side = "max" /\ r.renaming
                         /\ r.from \in Oriented /\ Maximal(r.from, c)

Rewritable(r, c, lim) == r.from \in c /\ ~Restricted(r, c, lim)

(* ClauseComputeLINormalform and ClauseRemoveSuperfluousLiterals *)
RewriteSteps(c, level) ==
    {[c EXCEPT
        !.lits = (c.lits \ {r.from}) \cup r.to,
        !.lim  = /\ c.lim
                 /\ ~(r.side = "max" /\ r.from \in Positive
                                     /\ Maximal(r.from, c.lits))
                 /\ ~(r.to \subseteq c.lits \ {r.from})] :
       r \in {s \in Rewrites : /\ {s.rule} \in Demods(level)
                               /\ Rewritable(s, c.lits, c.lim)}}

(* Condense: a literal that covers another one is superfluous.  The option *)
(* differs between given and new clauses; ForwardContractSet never does it.*)
Condensing == CASE pc = "forward"            -> parms.condensing
                [] pc \in {"victim", "modify"} -> parms.condensing_aggressive
                [] OTHER                     -> FALSE

CondenseSteps(c) ==
    {[c EXCEPT !.lits = @ \ {l}] :
       l \in {m \in c.lits : /\ Condensing
                             /\ \E k \in c.lits \ {m} : <<m, k>> \in Covers}}

Cut(c, l) == [c EXCEPT !.lits = @ \ {l}, !.lim = FALSE]

(* ClausePositiveSimplifyReflect and ClauseNegativeSimplifyReflect *)
CutSteps(c) ==
    {Cut(c, l) :
       l \in {m \in c.lits :
                \E u \in Lit :
                   /\ <<u, m>> \in Cuts
                   /\ {u} \in LitsIn(IF m \in Positive
                                     THEN {"processed_neg_units"}
                                     ELSE {"processed_pos_eqns"})}}

(* One simplification of ForwardModifyClause; none applies at its end. *)
ModifySteps(c, level) ==
    RewriteSteps(c, level) \cup CondenseSteps(c) \cup CutSteps(c)

(* Mutant: contextual simplify-reflect is left to backward simplification. *)
NoContextSteps(c) == {}

(* ClauseContextualSimplifyReflect, one literal *)
ContextSteps(c) ==
    {Cut(c, l) :
       l \in {m \in c.lits :
                /\ Cardinality(c.lits) > 1
                /\ \E d \in LitsIn({"processed_non_units"}) :
                      ContextCuts(d, c.lits, m)}}

(* ForwardSubsumption: rules are not asked, they would have rewritten. *)
ForwardSubsumed(c, non_unit_subsumption) ==
    \/ \E d \in LitsIn({"processed_pos_eqns", "processed_neg_units"}) :
          Subsumes(d, c)
    \/ /\ non_unit_subsumption /\ Cardinality(c) > 1
       /\ \E d \in LitsIn({"processed_non_units"}) : Subsumes(d, c)

----------------------------------------------------------------------------
(* Backward simplification *)

(* ClauseMoveSimplified for the clauses I: the original goes to the        *)
(* archive and is dead, a copy that quotes it goes to tmp_store.           *)
Bury(I) == [i \in DOMAIN store |->
              IF i \in I THEN [store[i] EXCEPT !.set = "archive", !.dead = TRUE]
                         ELSE store[i]]

(* Mutants: a copy that lost the mark, one that counts as generated. *)
UnmarkedCopies(I) == {NewClause(store[i].lits, {}) : i \in I}
OrphanCopies(I)   == {[lits |-> store[i].lits, parents |-> {i}, lim |-> TRUE,
                       victim |-> FALSE] : i \in I}

Copies(I) == {[lits |-> store[i].lits, parents |-> {}, lim |-> TRUE,
               victim |-> FALSE] : i \in I}

MoveSimplified(I) ==
    /\ store' = Bury(I)
    /\ tmp_store' = tmp_store \cup Copies(I)

(* Mutant: the processed non-units are forgotten. *)
BackRewritableUnits(u) ==
    IF IsDemodulator(u)
    THEN {i \in In(ProcSets \ {"processed_non_units"}) : \E r \in Rewrites :
             {r.rule} = u /\ Rewritable(r, store[i].lits, TRUE)}
    ELSE {}

(* FindRewritableClauses: every processed clause counts as CPLimitedRW *)
BackRewritable(u) ==
    IF IsDemodulator(u)
    THEN {i \in Processed : \E r \in Rewrites :
             {r.rule} = u /\ Rewritable(r, store[i].lits, TRUE)}
    ELSE {}

(* eliminate_backward_subsumed_clauses *)
BackSubsumed(c) ==
    {i \in In(IF ~IsUnit(c)         THEN {"processed_non_units"}
              ELSE IF IsRWRule(c)   THEN {"processed_non_units"}
              ELSE IF IsPositive(c) THEN DemodSets \cup {"processed_non_units"}
              ELSE {"processed_neg_units", "processed_non_units"}) :
       Subsumes(c, store[i].lits)}

(* ClauseUnitSimplifyTest, with its early return for every clause whose    *)
(* "is positive" agrees with the simplifier's.                             *)
UnitSimplifyTest(c, u) ==
    /\ IsPositive(c) # IsPositive(u)
    /\ \E l \in c, s \in u : /\ (l \in Positive) # (s \in Positive)
                             /\ <<s, l>> \in Cuts

(* eliminate_unit_simplified_clauses *)
UnitSimplified(u) ==
    IF IsRWRule(u) \/ ~IsUnit(u) THEN {}
    ELSE {i \in In({"processed_non_units"} \cup
                   IF IsPositive(u) THEN {"processed_neg_units"} ELSE DemodSets) :
            UnitSimplifyTest(store[i].lits, u)}

(* RemoveContextualSRClauses *)
ContextSimplified(c) ==
    IF parms.backward_context_sr
    THEN {i \in In({"processed_non_units"}) :
            \E l \in store[i].lits : ContextCuts(c, store[i].lits, l)}
    ELSE {}

----------------------------------------------------------------------------
(* Generating inferences between the given clause and the processed ones   *)

ParamodPartners(c) ==
    IF ~parms.enable_neg_unit_paramod /\ IsUnit(c) /\ IsNegative(c) THEN {}
    ELSE In(IF parms.enable_neg_unit_paramod /\ ~IsNegative(c)
            THEN ProcSets ELSE ProcSets \ {"processed_neg_units"})

(* Mutant: the given clause is not paramodulated into. *)
GeneratedFrom(g) ==
    LET c == store[g].lits IN
    {NewClause(d, {g}) : d \in EqResolvents(c) \cup EqFactors(c)}
    \cup UNION {{NewClause(d, {g, i}) : d \in Paramodulants(c, store[i].lits)} :
                 i \in ParamodPartners(c)}

Generated(g) ==
    LET c == store[g].lits IN
    {NewClause(d, {g}) :
       d \in EqResolvents(c) \cup
             (IF parms.enable_eq_factoring THEN EqFactors(c) ELSE {})}
    \cup UNION {{NewClause(d, {g, i}) :
                   d \in Paramodulants(c, store[i].lits) \cup
                         Paramodulants(store[i].lits, c)} :
                 i \in ParamodPartners(c)}

----------------------------------------------------------------------------
Init ==
    /\ axioms \in Problems
    /\ parms \in ParmSet
    /\ store = [i \in {} |-> {}]
    /\ unprocessed = {NewClause(c, {}) : c \in axioms}
    /\ tmp_store = {} /\ eval_store = {} /\ pending = {}
    /\ cur = NoClause /\ given = 0
    /\ extract_roots = {}
    /\ state_is_complete = TRUE
    /\ phase = IF parms.presat_interreduction THEN "presat" ELSE "main"
    /\ verdict = "none"
    /\ pc = "saturate"

Goto(l) == pc' = l

(* An empty clause ends the search: it is the root of the proof. *)
Refuted(c) == /\ extract_roots' = extract_roots \cup {c.lits}
              /\ Goto("report")

----------------------------------------------------------------------------
(* hcb_select and the start of ProcessClause.  Which clause is best is     *)
(* left to the heuristic; orphans that are better are thrown away.         *)

SelectClause ==
    /\ pc = "saturate"
    /\ \E orphans \in SUBSET {c \in unprocessed : Orphaned(c)} :
         \/ \E c \in unprocessed \ orphans :
              /\ ~Orphaned(c)
              /\ unprocessed' = (unprocessed \ orphans) \ {c}
              /\ cur' = c
              /\ Goto("forward")
         \/ /\ orphans = unprocessed /\ orphans # {}
            /\ unprocessed' = {}
            /\ UNCHANGED cur
            /\ Goto("cleanup")
    /\ UNCHANGED <<store, tmp_store, eval_store, pending, given, extract_roots,
                   state_is_complete, phase, verdict, input>>

(* The loops around ForwardModifyClause: which clause, which demodulators. *)
Level == IF pc = "modify" THEN parms.forward_demod ELSE 2

ForwardModifyClause ==
    /\ pc \in {"forward", "victim", "modify", "filter"}
    /\ cur # NoClause
    /\ ~IsTrivial(cur.lits)
    /\ cur' \in ModifySteps(cur, Level)
    /\ UNCHANGED <<store, stores, given, extract_roots, state_is_complete, phase,
                   verdict, pc, input>>

Modified == cur # NoClause /\ (IsTrivial(cur.lits) \/ ModifySteps(cur, Level) = {})

(* forward_contract_keep, after ForwardModifyClause *)
Redundant(c, non_unit_subsumption) ==
    \/ IsTrivial(c)
    \/ c # {} /\ IsTautology(c)
    \/ c # {} /\ ForwardSubsumed(c, non_unit_subsumption)

ForwardContractClause ==
    /\ pc = "forward"
    /\ Modified
    /\ IF Redundant(cur.lits, TRUE)
       THEN cur' = NoClause /\ Goto("cleanup") /\ UNCHANGED extract_roots
       ELSE IF cur.lits = {}
       THEN cur' = cur /\ Refuted(cur)
       ELSE cur' = cur /\ Goto("context") /\ UNCHANGED extract_roots
    /\ UNCHANGED <<store, stores, given, state_is_complete, phase, verdict, input>>

ForwardContextSR ==
    /\ pc = "context"
    /\ IF parms.forward_context_sr /\ ContextSteps(cur) # {}
       THEN cur' \in ContextSteps(cur) /\ UNCHANGED pc
       ELSE cur' = cur /\ Goto("replace")
    /\ UNCHANGED <<store, stores, given, extract_roots, state_is_complete, phase,
                   verdict, input>>

(* replacing_inferences: ClauseERNormalizeVar *)
Destroyed(c) == parms.er_varlit_destructive /\ c.lits \cap VarLits # {}
Resolved(c)  == [c EXCEPT !.lits = @ \ VarLits]

ReplacingInferences ==
    /\ pc = "replace"
    /\ IF Destroyed(cur)
       THEN /\ tmp_store' = tmp_store \cup {Resolved(cur)}
            /\ cur' = NoClause
            /\ Goto("insert_new")
       ELSE Goto("bwrw") /\ UNCHANGED <<tmp_store, cur>>
    /\ UNCHANGED <<store, unprocessed, eval_store, pending, given, extract_roots,
                   state_is_complete, phase, verdict, input>>

----------------------------------------------------------------------------
(* Backward simplification with the given clause, in the code's order *)

BackUnchanged == UNCHANGED <<unprocessed, eval_store, pending, cur, given,
    extract_roots, state_is_complete, phase, verdict, input>>

EliminateBackwardRewritten ==
    /\ pc = "bwrw" /\ Goto("bwsub")
    /\ MoveSimplified(BackRewritable(cur.lits))
    /\ BackUnchanged

EliminateBackwardSubsumed ==
    /\ pc = "bwsub" /\ Goto("unit_simplify")
    /\ store' = Bury(BackSubsumed(cur.lits))
    /\ UNCHANGED tmp_store
    /\ BackUnchanged

EliminateUnitSimplified ==
    /\ pc = "unit_simplify" /\ Goto("context_sr")
    /\ MoveSimplified(UnitSimplified(cur.lits))
    /\ BackUnchanged

(* RemoveContextualSRClauses and ClauseSetSetProp(tmp_store, CPIsIRVictim) *)
EliminateContextSR ==
    /\ pc = "context_sr" /\ Goto("insert_given")
    /\ store' = Bury(ContextSimplified(cur.lits))
    /\ tmp_store' = {[c EXCEPT !.victim = TRUE] :
                       c \in tmp_store \cup Copies(ContextSimplified(cur.lits))}
    /\ BackUnchanged

----------------------------------------------------------------------------
(* The given clause joins the processed ones.  Its id is one that no       *)
(* clause refers to any more: ids stand for the pointers of derivations.   *)

(* Mutant: new clauses waiting for their evaluation are not looked at. *)
ReferencedByWaiting == Processed \cup UNION {c.parents : c \in tmp_store \cup {cur}}

Referenced == Processed \cup
    UNION {c.parents : c \in unprocessed \cup tmp_store \cup eval_store \cup {cur}}
FreshId == CHOOSE i \in 1..(Cardinality(Referenced) + 1) : i \notin Referenced

ProcessedSetOf(c) == IF IsDemodulator(c)
                     THEN IF c \subseteq Oriented THEN "processed_pos_rules"
                                                 ELSE "processed_pos_eqns"
                     ELSE IF IsUnit(c) THEN "processed_neg_units"
                                       ELSE "processed_non_units"

InsertGiven ==
    /\ pc = "insert_given"
    /\ given' = FreshId
    /\ store' = [i \in (Referenced \cap DOMAIN store) \cup {given'} |->
                   IF i = given'
                   THEN [lits |-> cur.lits, set |-> ProcessedSetOf(cur.lits),
                         dead |-> FALSE]
                   ELSE store[i]]
    /\ cur' = NoClause
    /\ Goto("generate")
    /\ UNCHANGED <<stores, extract_roots, state_is_complete, phase, verdict, input>>

(* generate_new_clauses; presaturation runs with SelectNoGeneration *)
GenerateNewClauses ==
    /\ pc = "generate"
    /\ tmp_store' = tmp_store \cup
                    (IF phase = "presat" THEN {} ELSE Generated(given))
    /\ given' = 0
    /\ Goto("insert_new")
    /\ UNCHANGED <<store, unprocessed, eval_store, pending, cur, extract_roots,
                   state_is_complete, phase, verdict, input>>

----------------------------------------------------------------------------
(* insert_new_clauses *)

TakeNewClause ==
    /\ pc = "insert_new"
    /\ \E c \in tmp_store :
         /\ tmp_store' = tmp_store \ {c}
         /\ cur' = c
         /\ Goto(IF c.victim THEN "victim" ELSE "modify")
    /\ UNCHANGED <<store, unprocessed, eval_store, pending, given, extract_roots,
                   state_is_complete, phase, verdict, input>>

(* FullRewrite of a back-simplified clause is done *)
ModifiedVictim ==
    /\ pc = "victim"
    /\ Modified
    /\ cur' = [cur EXCEPT !.victim = FALSE]
    /\ Goto("modify")
    /\ UNCHANGED <<store, stores, given, extract_roots, state_is_complete, phase,
                   verdict, input>>

ModifiedNewClause ==
    LET c == cur.lits IN
    /\ pc = "modify"
    /\ Modified
    /\ cur' = NoClause
    /\ \/ /\ \/ IsTrivial(c)
             \/ /\ c # {}
                /\ parms.forward_subsumption_aggressive
                /\ ForwardSubsumed(c, TRUE)
          /\ Goto("insert_new") /\ UNCHANGED <<tmp_store, eval_store, extract_roots>>
       \/ /\ c = {}
          /\ Refuted(cur) /\ UNCHANGED <<tmp_store, eval_store>>
       \/ /\ ~IsTrivial(c) /\ c # {}
          /\ ~(parms.forward_subsumption_aggressive /\ ForwardSubsumed(c, TRUE))
          /\ IF parms.er_aggressive /\ Destroyed(cur)
             THEN tmp_store' = tmp_store \cup {Resolved(cur)} /\ UNCHANGED eval_store
             ELSE eval_store' = eval_store \cup {cur} /\ UNCHANGED tmp_store
          /\ Goto("insert_new") /\ UNCHANGED extract_roots
    /\ UNCHANGED <<store, unprocessed, pending, given, state_is_complete, phase,
                   verdict, input>>

(* eval_clause_set, then everything moves to unprocessed *)
EvaluateNewClauses ==
    /\ pc = "insert_new" /\ tmp_store = {}
    /\ unprocessed' = unprocessed \cup eval_store
    /\ eval_store' = {}
    /\ Goto("cleanup")
    /\ UNCHANGED <<store, tmp_store, pending, cur, given, extract_roots,
                   state_is_complete, phase, verdict, input>>

----------------------------------------------------------------------------
(* cleanup_unprocessed_clauses: each part has a threshold of its own, so   *)
(* that each may happen or not.                                            *)

DeleteOrphans ==
    /\ pc = "cleanup"
    /\ unprocessed' \in {unprocessed, {c \in unprocessed : ~Orphaned(c)}}
    /\ Goto("contract")
    /\ UNCHANGED <<store, tmp_store, eval_store, pending, cur, given,
                   extract_roots, state_is_complete, phase, verdict, input>>

(* ForwardContractSet(unprocessed): at the limit, or for a SAT check *)
StartContraction ==
    /\ pc = "contract"
    /\ \/ UNCHANGED <<unprocessed, pending>> /\ Goto("delete_bad")
       \/ /\ parms.contract_unprocessed
          /\ pending' = unprocessed /\ unprocessed' = {}
          /\ Goto("filter")
    /\ UNCHANGED <<store, tmp_store, eval_store, cur, given, extract_roots,
                   state_is_complete, phase, verdict, input>>

TakePending ==
    /\ pc = "filter" /\ cur = NoClause
    /\ \E c \in pending : pending' = pending \ {c} /\ cur' = c
    /\ UNCHANGED <<store, unprocessed, tmp_store, eval_store, given, extract_roots,
                   state_is_complete, phase, verdict, pc, input>>

ContractedPending ==
    /\ pc = "filter"
    /\ Modified
    /\ cur' = NoClause
    /\ \/ /\ Redundant(cur.lits, FALSE)
          /\ UNCHANGED <<unprocessed, pc, extract_roots>>
       \/ cur.lits = {} /\ Refuted(cur) /\ UNCHANGED unprocessed
       \/ /\ ~Redundant(cur.lits, FALSE) /\ cur.lits # {}
          /\ unprocessed' = unprocessed \cup {cur}
          /\ UNCHANGED <<pc, extract_roots>>
    /\ UNCHANGED <<store, tmp_store, eval_store, pending, given, state_is_complete,
                   phase, verdict, input>>

EndContraction ==
    /\ pc = "filter" /\ cur = NoClause /\ pending = {}
    /\ Goto("delete_bad")
    /\ UNCHANGED <<store, stores, cur, given, extract_roots, state_is_complete,
                   phase, verdict, input>>

(* Mutant: a deletion that goes unnoticed. *)
NeverIncomplete(rest, keep) == state_is_complete

(* Incomplete as soon as a clause that is no orphan has been deleted *)
StillComplete(rest, keep) == state_is_complete /\ keep = rest

(* Out of memory: orphans go, then HCBClauseSetDeleteBadClauses keeps the  *)
(* best half of what there was.                                            *)
DeleteBadClauses ==
    /\ pc = "delete_bad"
    /\ \/ UNCHANGED <<unprocessed, state_is_complete>>
       \/ LET rest == {c \in unprocessed : ~Orphaned(c)}
              size == Cardinality(unprocessed) \div 2
          IN /\ parms.delete_bad
             /\ unprocessed' \in {keep \in SUBSET rest :
                   \/ Cardinality(keep) = size
                   \/ keep = rest /\ Cardinality(rest) < size}
             /\ state_is_complete' = StillComplete(rest, unprocessed')
    /\ Goto("sat_check")
    /\ UNCHANGED <<store, tmp_store, eval_store, pending, cur, given,
                   extract_roots, phase, verdict, input>>

(* SATCheck: the SAT solver may refute ground instances of all clauses *)
SATCheck ==
    /\ pc = "sat_check"
    /\ \/ Goto("saturate") /\ UNCHANGED extract_roots
       \/ /\ parms.sat_check
          /\ Models(LitsIn(ProcSets) \cup {c.lits : c \in unprocessed}) = {}
          /\ Refuted(NewClause({}, {}))
    /\ UNCHANGED <<store, stores, cur, given, state_is_complete, phase, verdict,
                   input>>

----------------------------------------------------------------------------
(* Saturate() returns without a proof: nothing left, or a limit reached.   *)

SaturateReturns == pc = "saturate" /\ (unprocessed = {} \/ parms.limits)

(* ProofStateResetProcessed: originals go to the archive, copies to        *)
(* unprocessed; the originals are not dead.                                *)
EndPresaturation ==
    /\ SaturateReturns /\ phase = "presat"
    /\ store' = [i \in DOMAIN store |-> [store[i] EXCEPT !.set = "archive"]]
    /\ unprocessed' = unprocessed \cup Copies(Processed)
    /\ phase' = "main"
    /\ UNCHANGED <<tmp_store, eval_store, pending, cur, given, extract_roots,
                   state_is_complete, verdict, pc, input>>

EndSaturation ==
    /\ SaturateReturns /\ phase = "main"
    /\ Goto("report")
    /\ UNCHANGED <<store, stores, cur, given, extract_roots, state_is_complete,
                   phase, verdict, input>>

(* main() of eprover.c *)
inf_sys_complete == parms.enable_eq_factoring /\ parms.enable_neg_unit_paramod

Report ==
    /\ pc = "report"
    /\ verdict' = IF extract_roots # {}     THEN "Unsatisfiable"
                  ELSE IF unprocessed # {}  THEN "ResourceOut"
                  ELSE IF inf_sys_complete /\ state_is_complete
                       THEN "Satisfiable"   ELSE "GaveUp"
    /\ Goto("done")
    /\ UNCHANGED <<store, stores, cur, given, extract_roots, state_is_complete,
                   phase, input>>

Done == pc = "done" /\ UNCHANGED vars

----------------------------------------------------------------------------
Next ==
    \/ SelectClause \/ ForwardModifyClause \/ ForwardContractClause
    \/ ForwardContextSR \/ ReplacingInferences
    \/ EliminateBackwardRewritten \/ EliminateBackwardSubsumed
    \/ EliminateUnitSimplified \/ EliminateContextSR
    \/ InsertGiven \/ GenerateNewClauses
    \/ TakeNewClause \/ ModifiedVictim \/ ModifiedNewClause \/ EvaluateNewClauses
    \/ DeleteOrphans \/ StartContraction \/ TakePending \/ ContractedPending
    \/ EndContraction \/ DeleteBadClauses \/ SATCheck
    \/ EndPresaturation \/ EndSaturation \/ Report \/ Done

Spec     == Init /\ [][Next]_vars
FairSpec == Spec /\ WF_vars(Next)

----------------------------------------------------------------------------
(* Properties *)

(* Every variable has its type; a derivation never names a clause that is  *)
(* neither processed nor archived.                                         *)
InProcessing == {"forward", "context", "replace", "bwrw", "bwsub",
                 "unit_simplify", "context_sr", "insert_given"}

TypeOK ==
    /\ axioms \subseteq Clause
    /\ DOMAIN store \subseteq Nat \ {0}
    /\ \A i \in DOMAIN store :
         store[i] \in [lits : Clause, set : ProcSets \cup {"archive"}, dead : BOOLEAN]
    /\ \A S \in {unprocessed, tmp_store, eval_store, pending} : S \subseteq ClauseCell
    /\ cur \in ClauseCell \cup {NoClause}
    /\ \A c \in unprocessed \cup tmp_store \cup eval_store \cup pending :
         c.parents \subseteq DOMAIN store
    /\ extract_roots \subseteq {{}}
    /\ state_is_complete \in BOOLEAN
    /\ phase \in {"presat", "main"}
    /\ verdict \in {"none", "Unsatisfiable", "Satisfiable", "GaveUp", "ResourceOut"}
    /\ (cur = NoClause) => pc \notin InProcessing \cup {"victim", "modify"}
    /\ (pc = "generate") => given \in DOMAIN store

(* The clauses that some part of the state holds. *)
Waiting == unprocessed \cup tmp_store \cup eval_store \cup pending
AtHand  == IF cur = NoClause THEN {} ELSE {cur}
Held    == {store[i].lits : i \in DOMAIN store} \cup extract_roots
           \cup {c.lits : c \in Waiting \cup AtHand}

(* Soundness: whatever the prover holds, the empty clauses among it, is a  *)
(* consequence of the axioms, through every order in which simplification, *)
(* generation and deletion interleave.                                     *)
Sound == Models(axioms) \subseteq Models(Held)

(* The clauses no deletion of orphans can touch: processed ones, those     *)
(* whose derivation does not start with a generating inference, and the    *)
(* given clause from the moment processed clauses are removed for it.      *)
Committed == {"bwsub", "unit_simplify", "context_sr", "insert_given"}
Lasting   == {c \in Waiting \cup AtHand : c.parents = {}}
             \cup {c \in AtHand : pc \in Committed}
Kept      == extract_roots \cup LitsIn(ProcSets) \cup {c.lits : c \in Lasting}

(* Nothing is lost: as long as state_is_complete says so, the clauses that *)
(* survive any later deletion of orphans imply every axiom and all the     *)
(* clauses held, dead ones and orphans too.  Backward simplification       *)
(* declares its victims dead and relies on their copies not being orphans  *)
(* (ClauseIsOrphaned).                                                     *)
NothingLost == state_is_complete => Models(Kept) \subseteq Models(axioms \cup Held)

(* The verdict main() prints is true of the input.  "Satisfiable" needs    *)
(* the whole calculus: no inference of two processed clauses was missed    *)
(* because a premise left, came back or lost its children.                 *)
UnsatisfiableIsRight == verdict = "Unsatisfiable" => Models(axioms) = {}
SatisfiableIsRight   == verdict = "Satisfiable"   => Models(axioms) # {}
VerdictIsRight       == UnsatisfiableIsRight /\ SatisfiableIsRight

(* The assertions of ProcessClause and insert_new_clauses: the given       *)
(* clause is never a victim of interreduction, and every victim is still   *)
(* marked CPLimitedRW when its turn comes to be rewritten.                 *)
VictimsAreLimited ==
    /\ \A c \in unprocessed \cup eval_store : ~c.victim
    /\ pc \in InProcessing => ~cur.victim
    /\ \A c \in tmp_store : c.victim => c.lim

(* Between two given clauses the processed set is reduced: no processed    *)
(* clause can be rewritten by an equation in it (as far as CPLimitedRW     *)
(* permits), and none is subsumed by another one that is not a rule.       *)
Reduced ==
    pc = "saturate" =>
        \A i, j \in Processed : i # j =>
            /\ store[i].set \in DemodSets =>
                 ~\E r \in Rewrites : /\ {r.rule} = store[i].lits
                                      /\ Rewritable(r, store[j].lits, TRUE)
            /\ store[i].set # "processed_pos_rules" =>
                 ~Subsumes(store[i].lits, store[j].lits)

(* A comment in eliminate_backward_subsumed_clauses: "A unit rewrite rule  *)
(* that is a variant of an old rule is already subsumed by the older one." *)
NoVariantRules ==
    \A i, j \in In({"processed_pos_rules"}) :
        i # j => ~Subsumes(store[i].lits, store[j].lits)

(* The search always ends with a verdict when the signature admits only    *)
(* finitely many clauses and no limit is set.                              *)
Terminates == <>(pc = "done")
=============================================================================
