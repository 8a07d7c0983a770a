------------------------ MODULE MCStrategyScheduler ------------------------
(***************************************************************************)
(* Small calls of E with two cores.  Nested: one preprocessing strategy,   *)
(* whose search schedule turns to the default strategy in the end.         *)
(* Parallel: two preprocessing strategies at a time; Serialized: one after *)
(* the other.                                                              *)
(***************************************************************************)
EXTENDS StrategyScheduler

Call(cores, serialize, fractions, search, default) ==
    [num_cpus |-> cores, serialize |-> serialize, fractions |-> fractions,
     search |-> search, default |-> default]

Nested     == Call(2, FALSE, <<100>>, 2, 1)
Parallel   == Call(2, FALSE, <<60, 40>>, 1, 0)
Serialized == Call(2, TRUE, <<60, 40>>, 1, 0)
Retrying   == Call(2, FALSE, <<60, 40>>, 1, 1)

NestedCalls   == {Nested}
ParallelCalls == {Parallel, Serialized}
RetryingCalls == {Retrying}
=============================================================================
