----------------------------- MODULE Precedence -----------------------------
(***************************************************************************)
(* The precedence of function symbols in the order control block           *)
(* (ORDERINGS/cto_ocb.c), built from the chains of the user's option and   *)
(* then from a generated order (HEURISTICS/che_to_precgen.c).  It is kept  *)
(* as a matrix that is closed under transitivity with every new entry;     *)
(* statestack remembers the entries made.                                  *)
(***************************************************************************)
EXTENDS Integers, Sequences, SequencesExt, FiniteSets, FiniteSetsExt, Functions

CONSTANTS SigSize,     \* the function codes are 1 to SigSize, 1 is $true
          Distinct,    \* the codes of distinct objects (numbers, "strings")
          Constraints, \* what the user may say: <<f1, f2, relation>>
          Orders,      \* orders of 2 to SigSize that may be generated
          MaxTuples    \* bound: the number of constraints the user gives

ASSUME PrecedenceAssumption ==
    /\ SigSize \in Nat \ {0} /\ Distinct \subseteq 2..SigSize /\ MaxTuples \in Nat
    /\ \A c \in Constraints : c[1] \in 1..SigSize /\ c[2] \in 1..SigSize
                             /\ c[3] \in {"greater", "lesser", "equal"}
    /\ \A order \in Orders : Range(order) = 2..SigSize /\ Len(order) = SigSize - 1

VARIABLES ocb,    \* [matrix, statestack]
          parsed, \* the user's constraints that were accepted
          stage   \* "parsing", "failed" or "generated"

precedenceVars == <<ocb, parsed, stage>>

Symbols    == 1..SigSize
InverseRelation(r) == CASE r = "greater" -> "lesser" [] r = "lesser" -> "greater" [] OTHER -> r

FunCompare(o, f1, f2) ==
    CASE f1 = f2 -> "equal"
      [] f1 = 1 -> "lesser"
      [] f2 = 1 -> "greater"
      [] f1 \in Distinct /\ f2 \notin Distinct -> "lesser"
      [] f2 \in Distinct /\ f1 \notin Distinct -> "greater"
      [] OTHER -> o.matrix[f1, f2]

(* The matrix with an entry and its inverse *)
SetEntry(matrix, f1, f2, relation) ==
    [matrix EXCEPT ![f1, f2] = relation, ![f2, f1] = InverseRelation(relation)]

RECURSIVE OCBPrecedenceAddTuple(_, _, _, _), TransClose(_, _, _, _)

(* The relation between f1 and f3 that follows by way of f2 *)
ocb_trans_compute(o, f1, f2, f3) ==
    LET rel12 == FunCompare(o, f1, f2)
        rel23 == FunCompare(o, f2, f3)
    IN CASE rel12 = "equal" /\ rel23 # "uncomparable" -> OCBPrecedenceAddTuple(o, f1, f3, rel23)
         [] rel12 \in {"greater", "lesser"} /\ rel23 \in {"equal", rel12}
              -> OCBPrecedenceAddTuple(o, f1, f3, rel12)
         [] OTHER -> [ok |-> TRUE, ocb |-> o]

(* Mutant: only what follows from the new entry and the entries behind it. *)
CloseForwards(o, f1, f2, i) ==
    IF i > SigSize THEN [ok |-> TRUE, ocb |-> o]
    ELSE LET behind == ocb_trans_compute(o, f1, f2, i)
         IN IF ~behind.ok THEN behind ELSE TransClose(behind.ocb, f1, f2, i + 1)

(* The loop over all symbols from i on, after the entry for f1, f2 is made *)
TransClose(o, f1, f2, i) ==
    IF i > SigSize THEN [ok |-> TRUE, ocb |-> o]
    ELSE LET behind == ocb_trans_compute(o, f1, f2, i)
             before == ocb_trans_compute(behind.ocb, i, f1, f2)
         IN IF ~behind.ok THEN behind ELSE IF ~before.ok THEN before
            ELSE TransClose(before.ocb, f1, f2, i + 1)

(* What is known already is accepted if the stack is not empty: its        *)
(* position is also the result that stands for success.  A failure takes   *)
(* back the last entry only.                                               *)
OCBPrecedenceAddTuple(o, f1, f2, relation) ==
    LET known  == FunCompare(o, f1, f2)
        pushed == [matrix |-> SetEntry(o.matrix, f1, f2, relation),
                   statestack |-> Append(o.statestack, <<f1, f2>>)]
        closed == TransClose(pushed, f1, f2, 1)
        top    == Last(closed.ocb.statestack)
    IN IF known = relation THEN [ok |-> o.statestack # <<>>, ocb |-> o]
       ELSE IF known # "uncomparable" THEN [ok |-> FALSE, ocb |-> o]
       ELSE IF closed.ok THEN closed
       ELSE [ok |-> FALSE,
             ocb |-> [matrix |-> SetEntry(closed.ocb.matrix, top[1], top[2], "uncomparable"),
                      statestack |-> Front(closed.ocb.statestack)]]

PrecedenceInit ==
    /\ ocb = [matrix |-> [p \in Symbols \X Symbols |-> "uncomparable"], statestack |-> <<>>]
    /\ parsed = {} /\ stage = "parsing"

(* A constraint of the user's option; one that is refused ends the program.*)
TOSymbolComparisonChainParse(f1, f2, relation) ==
    LET added == OCBPrecedenceAddTuple(ocb, f1, f2, relation)
    IN /\ stage = "parsing" /\ Cardinality(parsed) < MaxTuples
       /\ ocb' = added.ocb
       /\ parsed' = IF added.ok THEN parsed \cup {<<f1, f2, relation>>} ELSE parsed
       /\ stage' = IF added.ok THEN "parsing" ELSE "failed"

(* A generated order of all symbols: each one above the one before, where  *)
(* that fits with the user's constraints; the results are not looked at.   *)
compute_precedence_from_array(order) ==
    LET chain == <<1>> \o order
        Below(o, i) == OCBPrecedenceAddTuple(o, chain[i], chain[i + 1], "lesser").ocb
    IN /\ stage = "parsing"
       /\ ocb' = FoldLeft(Below, ocb, [i \in 1..(SigSize - 1) |-> i])
       /\ stage' = "generated"
       /\ UNCHANGED parsed

PrecedenceNext ==
    \/ \E c \in Constraints : TOSymbolComparisonChainParse(c[1], c[2], c[3])
    \/ \E order \in Orders : compute_precedence_from_array(order)

----------------------------------------------------------------------------
(* What the user's constraints say of two symbols, the reference *)

Follows(facts) ==
    LET known == {<<c[1], c[2]>> : c \in {c \in facts : c[3] # "greater"}}
                 \cup {<<c[2], c[1]>> : c \in {c \in facts : c[3] # "lesser"}}
                 \cup {<<f, f>> : f \in Symbols} \cup {<<1, f>> : f \in Symbols}
                 \cup (Distinct \X (Symbols \ (Distinct \cup {1})))
        By(f, le) == le \cup {p \in Symbols \X Symbols : <<p[1], f>> \in le /\ <<f, p[2]>> \in le}
        le == FoldSet(By, known, Symbols)
    IN [p \in Symbols \X Symbols |->
            CASE p \in le /\ <<p[2], p[1]>> \in le -> "equal" [] p \in le -> "lesser"
              [] <<p[2], p[1]>> \in le -> "greater" [] OTHER -> "uncomparable"]

(* Properties *)

(* While the option is read, symbols compare exactly as the constraints    *)
(* and their consequences say; the generated order adds to this and takes  *)
(* nothing back, although constraints it conflicts with are undone without *)
(* a word; and the comparison stays a quasi-order whose directions agree:  *)
(* a term ordering over anything else could orient rules in a circle.      *)
PrecedenceIsOrder ==
    /\ stage = "parsing" =>
          Follows(parsed) = [p \in Symbols \X Symbols |-> FunCompare(ocb, p[1], p[2])]
    /\ \A c \in parsed : FunCompare(ocb, c[1], c[2]) = c[3]
    /\ \A f, g, h \in Symbols :
          LET fg == FunCompare(ocb, f, g)
              gh == FunCompare(ocb, g, h)
          IN /\ FunCompare(ocb, g, f) = InverseRelation(fg)
             /\ fg = "equal" => FunCompare(ocb, f, h) = gh
             /\ (fg \in {"greater", "lesser"} /\ gh \in {"equal", fg})
                   => FunCompare(ocb, f, h) = fg
=============================================================================
