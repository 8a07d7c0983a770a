------------------------- MODULE MCDeductionServer -------------------------
(***************************************************************************)
(* Two axiom sets, one of them in the library.  A client adds or loads one *)
(* and goes on with four commands on the two, or it runs a job, with three *)
(* runners on two cores, over a staged set, after another one has been     *)
(* unstaged and removed.                                                   *)
(***************************************************************************)
EXTENDS DeductionServer

SetCommands ==
    {<<"LIST", "">>, <<"QUIT", "">>} \cup
    ({"ADD", "LOAD", "STAGE", "UNSTAGE", "REMOVE", "DOWNLOAD"} \X Names)
JobCommands == <<<<"ADD", "a">>, <<"STAGE", "a">>, <<"LOAD", "b">>, <<"STAGE", "b">>,
                 <<"UNSTAGE", "b">>, <<"REMOVE", "b">>, <<"RUN", "job">>, <<"LIST", "">>>>

MCTexts     == {Go, Good, Bad} \cup SetCommands \cup ToSet(JobCommands)
MCSizeOf    == [m \in MCTexts |-> IF m[1] = "TEXT" THEN 3 ELSE 1]
MCWorkloads == <<[k \in 1..5 |-> IF k = 1 THEN {"ADD", "LOAD"} \X {"b"} ELSE SetCommands],
                 [k \in 1..8 |-> {JobCommands[k]}]>>
=============================================================================
