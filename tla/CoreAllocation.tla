--------------------------- MODULE CoreAllocation ---------------------------
(***************************************************************************)
(* ScheduleTimesInitMultiCore() of CONTROL/cco_scheduling.c: how many      *)
(* cores and how many seconds each strategy of a schedule gets.            *)
(*                                                                         *)
(* A schedule is a sequence of time fractions, here in percent.  They are  *)
(* floats in the code, and a share that is a whole number may come out a   *)
(* little greater and be rounded up once more: "noisy" are the strategies  *)
(* to which that happens.                                                  *)
(***************************************************************************)
EXTENDS Integers, Sequences, FiniteSets, FiniteSetsExt, SequencesExt

CeilDiv(a, b) == (a + b - 1) \div b
Least(a, b)    == IF a < b THEN a ELSE b
Greatest(a, b) == IF a > b THEN a ELSE b

Total(f) == FoldSeq(LAMBDA x, sum : x + sum, 0, f)

(* A preprocessing schedule is cut to the number of cores, and what is     *)
(* left is rescaled: its fractions then refer to their own sum.            *)
Shortened(fractions, cores) == SubSeq(fractions, 1, Least(Len(fractions), cores))
Whole(fractions, cores) == IF Len(fractions) > cores THEN Total(Shortened(fractions, cores))
                                                     ELSE 100

(* Every share is rounded up, and is one core at least. *)
RoundedShare(fraction, whole, cores, noisy) ==
    Greatest(1, CeilDiv(fraction * cores, whole)
                + IF noisy /\ (fraction * cores) % whole = 0 THEN 1 ELSE 0)

(* Mutant: the last strategies may lose all their cores. *)
TakeAll(given, error) == Least(given, error)

(* What the correction takes from a strategy; an error below zero gives.   *)
Take(given, error) == Least(given - 1, error)

(* error, after the entries from i on have been corrected *)
ErrorAfter(given, error) ==
    LET n == Len(given)
        rest[i \in 1..(n + 1)] ==
            IF i = n + 1 THEN error ELSE rest[i + 1] - Take(given[i], rest[i + 1])
    IN rest

AllocatedCores(fractions, cores, noisy) ==
    LET short == Shortened(fractions, cores)
        given == [i \in DOMAIN short |->
                    RoundedShare(short[i], Whole(fractions, cores), cores, i \in noisy)]
        rest  == ErrorAfter(given, Total(given) - cores)
    IN [i \in DOMAIN short |-> given[i] - Take(given[i], rest[i + 1])]

(* With serialize one strategy runs after the other on one core. *)
PreprocessingCores(fractions, cores, noisy, serialize) ==
    IF serialize THEN [i \in DOMAIN Shortened(fractions, cores) |-> 1]
                 ELSE AllocatedCores(fractions, cores, noisy)

(* Mutant: the last strategy is not cut to what is left. *)
UncutTime(wanted, left) == wanted

CutTime(wanted, left) == Least(wanted, left)

(* The seconds of a search schedule: a strategy gets its share, or what is *)
(* left of the limit, and is dropped when nothing is.                      *)
SearchTimes(fractions, limit) ==
    LET wanted(i) == CeilDiv(fractions[i] * limit, 100)
        spent[i \in 0..Len(fractions)] ==
            IF i = 0 THEN 0
            ELSE IF spent[i - 1] >= limit THEN spent[i - 1]
            ELSE spent[i - 1] + CutTime(wanted(i), limit - spent[i - 1])
        kept == Cardinality({i \in DOMAIN fractions : spent[i - 1] < limit})
    IN [i \in 1..kept |-> spent[i] - spent[i - 1]]

----------------------------------------------------------------------------
(* Properties *)

(* The cores of a preprocessing schedule add up to those of the machine,   *)
(* and no strategy is left without one, whatever the rounding does: a      *)
(* strategy with no core, or a sum that is too great, would never start.   *)
SharesFit(fractions, cores, noisy) ==
    LET given == AllocatedCores(fractions, cores, noisy) IN
    /\ Total(given) = cores
    /\ \A i \in DOMAIN given : given[i] >= 1

(* A search schedule never promises more time than its process has, and no *)
(* strategy in it is started for no time.                                  *)
TimesFit(fractions, limit) ==
    LET times == SearchTimes(fractions, limit) IN
    /\ Total(times) <= limit
    /\ \A i \in DOMAIN times : fractions[i] > 0 => times[i] >= 1
=============================================================================
