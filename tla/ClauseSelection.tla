--------------------------- MODULE ClauseSelection ---------------------------
(***************************************************************************)
(* The choice of the given clause: HEURISTICS/che_hcb.c lets several       *)
(* evaluation functions take turns in picking the best unprocessed clause, *)
(* the last of them by age (FIFOWeight with ConstPrio).                    *)
(*                                                                         *)
(* A clause is [id, evals, orphaned]: evals[i] is its rank (priority and   *)
(* weight) for function i, least is best; ids grow with time.  The order   *)
(* of the list unprocessed is also the order of the evaluation counts that *)
(* decide ties, for a clause is evaluated just before it is appended.      *)
(***************************************************************************)
EXTENDS Integers, Sequences, SequencesExt, FiniteSets, FiniteSetsExt, Functions

CONSTANTS StepLists,   \* the heuristics: how many turns each function takes
          Ranks,       \* ranks that another function may give a clause
          MaxClauses,  \* bound: clauses that arrive
          MaxReweights \* bound: how often all clauses are evaluated again

ASSUME SelectionAssumption ==
    /\ MaxClauses \in Nat
    /\ \A steps \in StepLists : steps \in Seq(Nat \ {0}) \ {<<>>}

VARIABLES hcb,         \* [select_switch, current_eval, select_count]
          unprocessed,
          evaluated,   \* the counter of FIFOEvalCompute
          arrived,     \* how many clauses have come
          reweights,   \* how often they were evaluated again
          waited       \* history: selections since the oldest clause is the oldest

selectionVars == <<hcb, unprocessed, evaluated, arrived, reweights, waited>>

wfcb_no == Len(hcb.select_switch)

(* HCBAddWFCB: a function's entry is the end of its turns in a round.      *)
HCBAddWFCB(steps) == [i \in DOMAIN steps |-> MapThenSumSet(LAMBDA k : steps[k], 1..i)]

(* HCBClauseEvaluate and FIFOEvalCompute: age is the value of a counter.   *)
HCBClauseEvaluate(clause, ranks, count) ==
    [clause EXCEPT !.evals = [i \in 1..wfcb_no |-> IF i = wfcb_no THEN count ELSE ranks[i]]]

RankLists == [1..wfcb_no -> Ranks]

(* EvalCompare, ClauseSetFindBest: the best of some places in the list     *)
FindBest(places, eval) ==
    CHOOSE k \in places : \A m \in places \ {k} :
        \/ unprocessed[k].evals[eval] < unprocessed[m].evals[eval]
        \/ unprocessed[k].evals[eval] = unprocessed[m].evals[eval] /\ k < m

(* The list without these places                                           *)
Without(places) ==
    LET kept == DOMAIN unprocessed \ places
    IN [n \in 1..Cardinality(kept) |->
          unprocessed[CHOOSE k \in kept : Cardinality((1..k) \cap kept) = n]]

Orphans == {k \in DOMAIN unprocessed : unprocessed[k].orphaned}

(* Mutant: a new round starts without resetting the count. *)
NextTurnUncounted ==
    LET count   == hcb.select_count + 1
        waiting == {i \in hcb.current_eval..wfcb_no : hcb.select_switch[i] # count}
    IN [hcb EXCEPT !.select_count = count,
                   !.current_eval = IF waiting # {} THEN Min(waiting) ELSE 1]

(* Count the selection and pass the turn on.                               *)
NextTurn ==
    LET count   == hcb.select_count + 1
        waiting == {i \in hcb.current_eval..wfcb_no : hcb.select_switch[i] # count}
    IN IF waiting # {} THEN [hcb EXCEPT !.select_count = count, !.current_eval = Min(waiting)]
       ELSE [hcb EXCEPT !.select_count = 0, !.current_eval = 1]

(* The places that are left when number clauses are marked to be kept.     *)
(* Each function has as many turns in a row as there are functions, for    *)
(* the loop compares the turn with the entry of select_switch that the     *)
(* turn itself selects.                                                    *)
HCBClauseSetDelProp(number, places) ==
    LET Eval(turn) == ((turn \div wfcb_no) % wfcb_no) + 1
        left[turn \in 0..number] ==
            IF turn = 0 THEN places
            ELSE left[turn - 1] \ (IF left[turn - 1] = {} THEN {}
                                   ELSE {FindBest(left[turn - 1], Eval(turn - 1))})
    IN left[number]

----------------------------------------------------------------------------

Oldest == Min({unprocessed[k].id : k \in DOMAIN unprocessed \ Orphans} \cup {MaxClauses + 1})

(* The history, with the number of selections that the step makes          *)
Waiting(selections) ==
    waited' = IF Oldest' = Oldest /\ Oldest <= MaxClauses THEN waited + selections ELSE 0

SelectionInit ==
    /\ \E steps \in StepLists :
          hcb = [select_switch |-> HCBAddWFCB(steps), current_eval |-> 1, select_count |-> 0]
    /\ unprocessed = <<>>
    /\ evaluated = 0 /\ arrived = 0 /\ reweights = 0 /\ waited = 0

(* A new clause *)
Arrive ==
    /\ arrived < MaxClauses
    /\ \E ranks \in RankLists :
          LET new == [id |-> arrived + 1, evals |-> <<>>, orphaned |-> FALSE]
          IN unprocessed' = Append(unprocessed, HCBClauseEvaluate(new, ranks, evaluated + 1))
    /\ arrived' = arrived + 1 /\ evaluated' = evaluated + 1
    /\ Waiting(0)
    /\ UNCHANGED <<hcb, reweights>>

(* A parent of a clause is simplified away; see ClauseIsOrphaned.          *)
BecomeOrphan ==
    /\ \E k \in DOMAIN unprocessed \ Orphans : unprocessed' = [unprocessed EXCEPT ![k].orphaned = TRUE]
    /\ Waiting(0)
    /\ UNCHANGED <<hcb, evaluated, arrived, reweights>>

(* hcb_select and the extraction of what it returns: orphans on the way to *)
(* the best clause that is none are thrown away.  One function needs no    *)
(* turns.                                                                  *)
HCBStandardClauseSelect ==
    /\ unprocessed # <<>>
    /\ LET eval   == hcb.current_eval
           found  == DOMAIN unprocessed \ Orphans
           passed == {k \in Orphans : FindBest({k} \cup found, eval) = k}
       IN unprocessed' = IF found = {} THEN <<>> ELSE Without(passed \cup {FindBest(found, eval)})
    /\ hcb' = IF wfcb_no = 1 THEN hcb ELSE NextTurn
    /\ Waiting(1)
    /\ UNCHANGED <<evaluated, arrived, reweights>>

ClauseSetDeleteOrphans ==
    /\ Orphans # {}
    /\ unprocessed' = Without(Orphans)
    /\ Waiting(0)
    /\ UNCHANGED <<hcb, evaluated, arrived, reweights>>

(* Simplify all unprocessed clauses; those that are left are evaluated     *)
(* again, in the order of the list.                                        *)
ForwardContractSetReweight ==
    /\ unprocessed # <<>> /\ reweights < MaxReweights
    /\ \E gone \in SUBSET DOMAIN unprocessed, ranks \in RankLists :
          LET left == Without(gone)
          IN /\ unprocessed' = [k \in DOMAIN left |-> HCBClauseEvaluate(left[k], ranks, evaluated + k)]
             /\ evaluated' = evaluated + Len(left)
    /\ reweights' = reweights + 1
    /\ Waiting(0)
    /\ UNCHANGED <<hcb, arrived>>

(* Memory is low: keep half of the clauses.                                *)
HCBClauseSetDeleteBadClauses ==
    /\ unprocessed # <<>>
    /\ LET found == DOMAIN unprocessed \ Orphans
           bad   == HCBClauseSetDelProp(Len(unprocessed) \div 2, found)
       IN unprocessed' = Without(Orphans \cup bad)
    /\ Waiting(0)
    /\ UNCHANGED <<hcb, evaluated, arrived, reweights>>

SelectionNext ==
    \/ Arrive
    \/ BecomeOrphan
    \/ HCBStandardClauseSelect
    \/ ClauseSetDeleteOrphans
    \/ ForwardContractSetReweight
    \/ HCBClauseSetDeleteBadClauses

SelectionSpec == SelectionInit /\ [][SelectionNext]_selectionVars

(* Fairness of the search: whatever arrives, is evaluated again or is      *)
(* dropped meanwhile, the oldest clause is never passed over more often    *)
(* than the other functions together have turns in a round.                *)
OldestComesSoon ==
    waited <= IF wfcb_no = 1 THEN 0 ELSE hcb.select_switch[wfcb_no - 1]
=============================================================================
