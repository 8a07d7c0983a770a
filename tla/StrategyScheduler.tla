------------------------- MODULE StrategyScheduler -------------------------
(***************************************************************************)
(* Strategy scheduling (--auto-schedule): ExecuteScheduleMultiCore() of    *)
(* CONTROL/cco_scheduling.c over the process control of                    *)
(* CONTROL/cco_gproc_ctrl.c, called by main() (PROVER/eprover.c).          *)
(*                                                                         *)
(* The processes form a tree.  The root runs the preprocessing schedule;   *)
(* a child preprocesses the problem and runs the search schedule; its      *)
(* children search for a proof.  A child writes to a pipe that its parent  *)
(* reads.  Processes are named by their path from the root, and one action *)
(* is one system call or one run of code between two of them.              *)
(***************************************************************************)
EXTENDS CoreAllocation

CONSTANTS
    Machines,     \* the calls of E: records of
                  \*   num_cpus, serialize  the options,
                  \*   fractions            of the preprocessing schedule,
                  \*   search               strategies of the search schedule,
                  \*   default              ... of GetFilteredDefaultSchedule
    PipeCapacity, \* chunks of output that fit into a pipe
    MaxTerms      \* bound: SIGTERMs that come from outside

ASSUME MachinesAssumption ==
    /\ \A m \in Machines : /\ m.num_cpus \in Nat \ {0} /\ m.serialize \in BOOLEAN
                           /\ m.fractions \in Seq(1..100) /\ Total(m.fractions) <= 100
                           /\ m.search \in Nat \ {0} /\ m.default \in Nat
    /\ PipeCapacity \in Nat \ {0} /\ MaxTerms \in Nat

(* Names for as many processes as the largest call needs. *)
PreIndices    == UNION {1..Len(m.fractions) : m \in Machines}
SearchIndices == UNION {1..(m.search + m.default) : m \in Machines}
Root          == <<>>
Schedulers    == {Root} \cup {<<i>> : i \in PreIndices}
Provers       == PreIndices \X SearchIndices
Pids          == Schedulers \cup Provers

VARIABLES
    machine,     \* the call of E, with the cores it gives to its strategies
    pc,          \* where a process is; "free" before its fork
    next,        \* i: the next strategy of a scheduler
    retried,     \* the schedulers that have turned to the default schedule
    procs,       \* EGPCtrlSet: the children under control
    todo,        \* the children select() or EGPCtrlSetFree is about to visit
    toprint,     \* what a process has still to write to its stdout
    pipe,        \* what waits in the pipe of a process; Root: the terminal
    output,      \* handle->output: what the parent has read
    handler,     \* of SIGTERM: "sched" or "default"
    caught,      \* SigTermCaught
    exit_status, \* of a process that has ended, or is about to
    terms        \* SIGTERMs sent so far

vars == <<machine, pc, next, retried, procs, todo, toprint, pipe, output, handler, caught,
          exit_status, terms>>
schedule == <<next, retried>>
streams  == <<toprint, pipe, output>>
signals  == <<handler, caught>>

----------------------------------------------------------------------------
(* The last strategy of a scheduler; the default schedule is appended to   *)
(* the search schedule once that has failed.                               *)
LastStrategy(p) == CASE p = Root      -> Len(machine.pre)
                     [] p \in retried -> machine.search + machine.default
                     [] OTHER         -> machine.search

(* The cores a process has been given are those it gives to its children.  *)
CoresOf(p) == CASE p = Root       -> machine.max_cores
                [] p \in Provers  -> 1
                [] OTHER          -> machine.pre[Last(p)]

(* Mutant: a process is not counted when it is added to the set. *)
ReservedByNone(p) == 0

Reserved(p) == MapThenSumSet(CoresOf, procs[p])

Ended(p) == pc[p] \in {"dead", "reaped"}
Alive(p) == ~Ended(p) /\ pc[p] # "free"
Goto(p, l) == pc' = [pc EXCEPT ![p] = l]

(* exit(), or the end by SIGXCPU or SIGPIPE.                               *)
Exit(p, status) == /\ Goto(p, "dead")
                   /\ exit_status' = [exit_status EXCEPT ![p] = status]

(* SIGTERM for the processes S; npc is where the sender goes.              *)
(* ESigTermSchedHandler takes note of it and resets itself.                *)
Deliver(S, npc) ==
    LET killed == {p \in S : Alive(p) /\ handler[p] = "default"}
        noted  == {p \in S : Alive(p) /\ handler[p] = "sched"}
    IN /\ pc' = [p \in Pids |-> IF p \in killed THEN "dead" ELSE npc[p]]
       /\ exit_status' = [p \in Pids |-> IF p \in killed THEN "killed"
                                                         ELSE exit_status[p]]
       /\ caught'  = [p \in Pids |-> caught[p] \/ p \in noted]
       /\ handler' = [p \in Pids |-> IF p \in noted THEN "default" ELSE handler[p]]

(* Mutant: the parent keeps the write end, too. *)
NeverEof(p) == FALSE

(* The write end of the pipe to a parent is closed when the process is     *)
(* gone, and no child of it still has it for its stdout.                   *)
Eof(p) == Ended(p) /\ ~\E c \in procs[p] : pc[c] = "forked"
Readable(p) == pipe[p] # <<>> \/ Eof(p)

(* The read end: EGPCtrlSetFree(procs, false) leaves those of its elder    *)
(* siblings open in a child.                                               *)
HasReader(p) ==
    LET sibling(n) == Append(Front(p), n)
    IN  \/ Alive(Front(p))
        \/ \E c \in Pids : /\ Alive(c)
                           /\ \E n \in (Last(p) + 1)..next[Front(p)] : IsPrefix(sibling(n), c)

----------------------------------------------------------------------------
Init ==
    /\ \E m \in Machines :
          machine = [max_cores |-> IF m.serialize THEN 1 ELSE m.num_cpus,
                     pre |-> PreprocessingCores(m.fractions, m.num_cpus, {}, m.serialize),
                     search |-> m.search, default |-> m.default]
    /\ pc      = [p \in Pids |-> IF p = Root THEN "enter" ELSE "free"]
    /\ next    = [p \in Schedulers |-> 1]
    /\ retried = {}
    /\ procs   = [p \in Pids |-> {}]
    /\ todo    = [p \in Schedulers |-> {}]
    /\ toprint = [p \in Pids |-> <<>>]
    /\ pipe    = [p \in Pids |-> <<>>]
    /\ output  = [p \in Pids |-> <<>>]
    /\ handler = [p \in Pids |-> "default"]
    /\ caught  = [p \in Pids |-> FALSE]
    /\ exit_status = [p \in Pids |-> "none"]
    /\ terms   = 0

----------------------------------------------------------------------------
(* ExecuteScheduleMultiCore *)

InstallHandler(p) ==
    /\ pc[p] = "enter" /\ Goto(p, "start")
    /\ handler' = [handler EXCEPT ![p] = "sched"]
    /\ UNCHANGED <<schedule, procs, todo, streams, caught, exit_status, terms>>

CanStart(p) == /\ next[p] <= LastStrategy(p)
               /\ CoresOf(p) - Reserved(p) >= CoresOf(Append(p, next[p]))

(* fork() copies the handler and SigTermCaught. *)
EGPCtrlCreate(p) ==
    LET c == Append(p, next[p]) IN
    /\ pc[p] = "start" /\ CanStart(p)
    /\ Goto(c, "forked")
    /\ next' = [next EXCEPT ![p] = @ + 1]
    /\ procs' = [procs EXCEPT ![p] = @ \cup {c}]
    /\ handler' = [handler EXCEPT ![c] = handler[p]]
    /\ caught'  = [caught EXCEPT ![c] = caught[p]]
    /\ UNCHANGED <<retried, todo, streams, exit_status, terms>>

(* Mutant: the child does not look whether its parent was told to stop. *)
StartWork(c) ==
    /\ pc[c] = "forked"
    /\ handler' = [handler EXCEPT ![c] = "default"]
    /\ Goto(c, IF c \in Schedulers THEN "prep" ELSE "search")
    /\ UNCHANGED <<schedule, procs, todo, streams, caught, exit_status, terms>>

(* The child resets SIGTERM and leaves if one has come before. *)
BecomeChild(c) ==
    /\ pc[c] = "forked"
    /\ handler' = [handler EXCEPT ![c] = "default"]
    /\ IF caught[c]
       THEN Exit(c, "parent_request")
       ELSE Goto(c, IF c \in Schedulers THEN "prep" ELSE "search")
            /\ UNCHANGED exit_status
    /\ UNCHANGED <<schedule, procs, todo, streams, caught, terms>>

(* Mutant: the descriptors of children that are gone are still in the set. *)
SelectAll(p) ==
    /\ pc[p] = "start" /\ ~CanStart(p)
    /\ todo' = [todo EXCEPT ![p] = {c \in Pids : c # Root /\ Front(c) = p /\ Readable(c)}]
    /\ Goto(p, "read")
    /\ UNCHANGED <<schedule, procs, streams, signals, exit_status, terms>>

(* select() returns what can be read; nothing, after its timeout or a      *)
(* signal, if nothing can be.                                              *)
Select(p) ==
    /\ pc[p] = "start" /\ ~CanStart(p)
    /\ todo' = [todo EXCEPT ![p] = {c \in procs[p] : Readable(c)}]
    /\ Goto(p, "read")
    /\ UNCHANGED <<schedule, procs, streams, signals, exit_status, terms>>

(* EGPCtrlSetGetResult with EGPCtrlGetResult: more output, or the end of   *)
(* it.  A child that announced an answer is the result, another one is     *)
(* taken off the books.                                                    *)
Announced(out) == "status" \in ToSet(out)

(* Mutant: a prover must have ended well to have an answer. *)
IsResultOfSuccess(c) == Announced(output[c]) /\ exit_status[c] = "success"

IsResult(c) == Announced(output[c])

(* Mutant: E leaves with the status of success. *)
Success(c) == "success"

ResultStatus(c) == exit_status[c]

ReadOutput(p, c) ==
    /\ pc[p] = "read" /\ c \in todo[p] /\ pipe[c] # <<>>
    /\ todo'   = [todo EXCEPT ![p] = @ \ {c}]
    /\ output' = [output EXCEPT ![c] = Append(@, Head(pipe[c]))]
    /\ pipe'   = [pipe EXCEPT ![c] = Tail(@)]
    /\ UNCHANGED <<pc, schedule, procs, toprint, signals, exit_status, terms>>

GetResult(p, c) ==
    /\ pc[p] = "read" /\ c \in todo[p] /\ pipe[c] = <<>>
    /\ IF IsResult(c)
       THEN /\ pc' = [pc EXCEPT ![c] = "reaped", ![p] = "print"]
            /\ toprint' = [toprint EXCEPT ![p] = output[c]]
            /\ exit_status' = [exit_status EXCEPT ![p] = ResultStatus(c)]
            /\ todo' = [todo EXCEPT ![p] = {}]
            /\ UNCHANGED procs
       ELSE /\ Goto(c, "reaped")
            /\ todo'  = [todo EXCEPT ![p] = @ \ {c}]
            /\ procs' = [procs EXCEPT ![p] = @ \ {c}]
            /\ UNCHANGED <<toprint, exit_status>>
    /\ UNCHANGED <<schedule, pipe, output, signals, terms>>

(* if(SigTermCaught), after select() or a loop without result *)
CheckSigTerm(p) ==
    /\ pc[p] = "read" /\ todo[p] = {}
    /\ IF caught[p]
       THEN Goto(p, "free_set")
            /\ exit_status' = [exit_status EXCEPT ![p] = "parent_request"]
       ELSE Goto(p, "test") /\ UNCHANGED exit_status
    /\ UNCHANGED <<schedule, procs, todo, streams, signals, terms>>

(* while(EGPCtrlSetCardinality(procs) || strats[i].heu_name) *)
TestLoop(p) ==
    /\ pc[p] = "test"
    /\ IF procs[p] # {} \/ next[p] <= LastStrategy(p)
       THEN Goto(p, "start") /\ UNCHANGED handler
       ELSE Goto(p, "exhausted") /\ handler' = [handler EXCEPT ![p] = "default"]
    /\ UNCHANGED <<schedule, procs, todo, streams, caught, exit_status, terms>>

(* EGPCtrlSetFree(procs, true) before an exit(): EGPCtrlCleanup for every  *)
(* child in the set, one that was waited for already is only removed.      *)
Cleanup(p, c) ==
    /\ pc[p] = "free_set" /\ c \in procs[p]
    /\ IF pc[c] = "reaped"
       THEN /\ procs' = [procs EXCEPT ![p] = @ \ {c}]
            /\ UNCHANGED <<pc, todo, signals, exit_status>>
       ELSE /\ todo' = [todo EXCEPT ![p] = {c}]
            /\ Deliver({c}, [pc EXCEPT ![p] = "waitpid"])
            /\ UNCHANGED procs
    /\ UNCHANGED <<schedule, streams, terms>>

WaitPid(p, c) ==
    /\ pc[p] = "waitpid" /\ c \in todo[p] /\ pc[c] = "dead"
    /\ pc' = [pc EXCEPT ![c] = "reaped", ![p] = "free_set"]
    /\ todo'  = [todo EXCEPT ![p] = {}]
    /\ procs' = [procs EXCEPT ![p] = @ \ {c}]
    /\ UNCHANGED <<schedule, streams, signals, exit_status, terms>>

ExitScheduler(p) ==
    /\ pc[p] = "free_set" /\ procs[p] = {}
    /\ Exit(p, exit_status[p])
    /\ UNCHANGED <<schedule, procs, todo, streams, signals, terms>>

----------------------------------------------------------------------------
(* main(): the default schedule gets a try if enough time is left. *)
ScheduleDone(p) ==
    /\ pc[p] = "exhausted"
    /\ \/ Exit(p, "resource_out") /\ UNCHANGED retried
       \/ /\ p \notin retried \cup {Root}
          /\ retried' = retried \cup {p}
          /\ Goto(p, "enter") /\ UNCHANGED exit_status
    /\ UNCHANGED <<next, procs, todo, streams, signals, terms>>

Preprocess(p) ==
    /\ pc[p] = "prep" /\ Goto(p, "enter")
    /\ UNCHANGED <<schedule, procs, todo, streams, signals, exit_status, terms>>

FindProof(p) ==
    /\ pc[p] = "search" /\ Goto(p, "print")
    /\ toprint' = [toprint EXCEPT ![p] = <<"status", "proof">>]
    /\ UNCHANGED <<schedule, procs, todo, pipe, output, signals, exit_status, terms>>

(* A proof attempt or a preprocessing that fails, for lack of CPU time,    *)
(* of memory, or of luck; a limit may strike while the proof is printed.   *)
Fail(p) ==
    /\ \/ pc[p] \in {"prep", "search"}
       \/ pc[p] = "print" /\ p \in Provers
    /\ Exit(p, "failure")
    /\ UNCHANGED <<schedule, procs, todo, streams, signals, terms>>

(* A prover prints its result, a scheduler the one it got: status first.   *)
(* Writing blocks while the pipe is full, and kills if nobody will read.   *)
WriteChunk(p) ==
    /\ pc[p] = "print" /\ toprint[p] # <<>>
    /\ IF p # Root /\ ~HasReader(p)
       THEN Exit(p, "sigpipe") /\ UNCHANGED streams
       ELSE /\ p # Root => Len(pipe[p]) < PipeCapacity
            /\ pipe'    = [pipe EXCEPT ![p] = Append(@, Head(toprint[p]))]
            /\ toprint' = [toprint EXCEPT ![p] = Tail(@)]
            /\ UNCHANGED <<pc, output, exit_status>>
    /\ UNCHANGED <<schedule, procs, todo, signals, terms>>

Written(p) ==
    /\ pc[p] = "print" /\ toprint[p] = <<>>
    /\ IF p \in Provers THEN Exit(p, "success")
                        ELSE Goto(p, "free_set") /\ UNCHANGED exit_status
    /\ UNCHANGED <<schedule, procs, todo, streams, signals, terms>>

----------------------------------------------------------------------------
(* SIGTERM from outside, for the root alone or for its process group *)
Terminate ==
    /\ terms < MaxTerms /\ Alive(Root)
    /\ terms' = terms + 1
    /\ \E S \in {{Root}, {p \in Pids : Alive(p)}} : Deliver(S, pc)
    /\ UNCHANGED <<schedule, procs, todo, streams>>

Quiet == \A p \in Pids : ~Alive(p)

Done == Quiet /\ UNCHANGED vars

Scheduler(p) ==
    \/ InstallHandler(p) \/ EGPCtrlCreate(p) \/ Select(p)
    \/ \E c \in todo[p] : ReadOutput(p, c) \/ GetResult(p, c) \/ WaitPid(p, c)
    \/ CheckSigTerm(p) \/ TestLoop(p) \/ ScheduleDone(p)
    \/ \E c \in procs[p] : Cleanup(p, c)
    \/ ExitScheduler(p)

Process(p) ==
    \/ p \in Schedulers /\ Scheduler(p)
    \/ BecomeChild(p) \/ Preprocess(p) \/ FindProof(p) \/ Fail(p)
    \/ WriteChunk(p) \/ Written(p)

Next == /\ (\E p \in Pids : Process(p)) \/ Terminate \/ Done
        /\ UNCHANGED machine

Spec     == Init /\ [][Next]_vars
FairSpec == Spec /\ \A p \in Pids : WF_vars(Process(p) /\ UNCHANGED machine)

----------------------------------------------------------------------------
(* Properties *)

(* Types, that i stays within the schedule, and that a child under control *)
(* has been forked.                                                        *)
TypeOK ==
    /\ \A p \in Schedulers : next[p] \in 1..(LastStrategy(p) + 1)
    /\ retried \subseteq Schedulers \ {Root}
    /\ \A p \in Pids : \A c \in procs[p] : Front(c) = p /\ pc[c] # "free"
    /\ \A p \in Schedulers : todo[p] \subseteq procs[p]
    /\ \A p \in Pids : /\ handler[p] \in {"sched", "default"}
                       /\ caught[p] \in BOOLEAN
                       /\ Len(pipe[p]) <= 2 /\ Len(output[p]) <= 2

(* The processes that use a core: provers and preprocessing children. *)
Busy(p) == pc[p] \in {"prep", "search"} \/ (p \in Provers /\ pc[p] = "print")

(* However the schedules are nested, retried and interrupted, the          *)
(* processes at work never need more cores than E was given.               *)
CoresRespected ==
    MapThenSumSet(LAMBDA p : IF p \in Provers THEN CoresOf(p) ELSE 1,
                  {p \in Pids : Busy(p)}) <= machine.max_cores

(* A scheduler that no signal killed leaves no process at work, and none   *)
(* of its own children as a zombie, also if a SIGTERM for the whole        *)
(* process group comes while it is forking.                                *)
NoneLeftBehind ==
    \A p \in Schedulers : Ended(p) /\ exit_status[p] \notin {"killed", "sigpipe"} =>
        /\ procs[p] = {}
        /\ \A c \in Pids : c # p /\ IsPrefix(p, c) =>
              ~Busy(c) /\ (Front(c) = p => pc[c] # "dead")

(* The exit status of E is that of the prover behind the answer: it is     *)
(* zero only if the proof has been printed to its end, and once.           *)
SuccessMeansProof ==
    Ended(Root) /\ exit_status[Root] = "success" => pipe[Root] = <<"status", "proof">>

(* The promise of Portfolio: nothing is announced that no prover found,    *)
(* and no announcement is lost in a pipe when E gives up.                  *)
Announcers == {p \in Provers : Announced(pipe[p] \o output[p])}
Outcome    == IF Announced(pipe[Root]) THEN "answered"
              ELSE IF ~Ended(Root)     THEN "running"
              ELSE IF exit_status[Root] = "resource_out" THEN "gave_up"
              ELSE "stopped"

Promise == INSTANCE Portfolio WITH announced <- Announcers, outcome <- Outcome

KeepsPromise == Promise!Spec

(* Whatever happens, all processes end. *)
EventuallyQuiet == <>[]Quiet

(* The header of EGPCtrlSetFree: "Will terminate processes".  Every child  *)
(* that the cleanup waits for ends.                                        *)
CleanupEnds ==
    \A p \in Schedulers : pc[p] = "waitpid" ~> pc[p] # "waitpid"
=============================================================================
