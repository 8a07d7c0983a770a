----------------------------- MODULE Portfolio -----------------------------
(***************************************************************************)
(* What E promises when it runs a schedule of strategies: it reports an    *)
(* answer only if one of the provers announced one, and it gives up only   *)
(* when none has and none ever will.                                       *)
(***************************************************************************)
CONSTANT Provers

VARIABLES
    announced,  \* the provers that have announced an answer
    outcome     \* what the user sees

vars == <<announced, outcome>>

Init == announced = {} /\ outcome = "running"

(* Announcements may still come after an answer or an interruption, but    *)
(* not after giving up.                                                    *)
Announce(p) == /\ outcome # "gave_up"
               /\ p \notin announced
               /\ announced' = announced \cup {p}
               /\ UNCHANGED outcome

End(result) == outcome = "running" /\ outcome' = result /\ UNCHANGED announced

Answer == announced # {} /\ End("answered")
GiveUp == announced = {} /\ End("gave_up")
Stop   == End("stopped")

Next == (\E p \in Provers : Announce(p)) \/ Answer \/ GiveUp \/ Stop

Spec == Init /\ [][Next]_vars
=============================================================================
