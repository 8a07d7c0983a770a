---------------------------- MODULE MCSaturation ----------------------------
(***************************************************************************)
(* What the instances of Saturation share: E's default options, and a      *)
(* notation for the rewrite and paramodulation relations.                  *)
(***************************************************************************)
EXTENDS Saturation

DefaultParms ==
    [forward_demod |-> 2, condensing |-> FALSE, condensing_aggressive |-> FALSE,
     forward_context_sr |-> FALSE, forward_context_sr_aggressive |-> FALSE,
     backward_context_sr |-> FALSE, forward_subsumption_aggressive |-> FALSE,
     er_varlit_destructive |-> FALSE, er_aggressive |-> FALSE,
     enable_eq_factoring |-> TRUE, enable_neg_unit_paramod |-> TRUE,
     presat_interreduction |-> FALSE, contract_unprocessed |-> FALSE,
     delete_bad |-> FALSE, sat_check |-> FALSE, limits |-> FALSE]

RW(rule, from, to, side, renaming) ==
    [rule |-> rule, from |-> from, to |-> to, side |-> side, renaming |-> renaming]
PM(from, into, to) == [from |-> from, into |-> into, to |-> to]
=============================================================================
