-------------------------- MODULE DeductionServer --------------------------
(***************************************************************************)
(* e_deduction_server: StartDeductionServer() and its commands             *)
(* (CONTROL/cco_einteractive_mode.c) over the messages of TCPMessages, and *)
(* the job that RUN forks: BatchProcessProblem()                           *)
(* (CONTROL/cco_batch_spec.c), which runs one E per axiom filter through   *)
(* popen() (CONTROL/cco_proc_ctrl.c).                                      *)
(*                                                                         *)
(* main() forks a session for every client; sessions share nothing, and    *)
(* one of them is modelled, with a client that works through one of some   *)
(* workloads and may leave at any time.                                    *)
(***************************************************************************)
EXTENDS TCPMessages, SequencesExt

CONSTANTS
    Names,       \* of axiom sets
    Library,     \* those in the directory server_lib
    NumFilters,  \* BatchFilters
    MaxCores,    \* MAX_CORES
    Workloads    \* bound: what a client may send first, second, and so on

ASSUME BoundsAssumption ==
    /\ Library \subseteq Names
    /\ {NumFilters, MaxCores} \subseteq Nat \ {0}
    /\ Workloads \in Seq(Seq(SUBSET Texts))

Go      == <<"GO", "">>
Good    == <<"TEXT", "good">>
Bad     == <<"TEXT", "bad">>    \* a syntax error

ASSUME BlocksAssumption == {Go, Good, Bad} \subseteq Texts

Runners == 1..NumFilters
JobSet  == [name |-> "job", id |-> 0]

VARIABLES
    workload, sent, gone, \* client: which workload, how many of it, whether it has left
    pc,         \* session: "recv", "block", "exec", "wait", "ended", "died"
    cmd,        \* its command
    block,      \* the texts of TCPReadTextBlock
    mem,        \* its InteractiveSpec and StructFOFSpec
    ids,        \* axiom sets allocated so far
    answers,    \* what the client has been sent since its last command
    jpc,        \* the job: where it is, "none" before the fork
    jmem,       \* its copy of the memory
    next,       \* i: the next filter
    procs,      \* the EPCtrlSet
    todo,       \* the runners select() has found readable
    answer,     \* handle: the runner with a proof, 0 for NULL
    late,       \* GetSecTime() > end
    runner,     \* a runner: "none", "boot", "search", "proving", "finished", "dead"
    pipe,       \* lines in its pipe
    stdio,      \* lines in the FILE buffer of the job
    output      \* handle->output

session == <<pc, cmd, block, mem, ids>>
client  == <<workload, sent, gone>>
job     == <<jpc, jmem, next, procs, todo, answer, late>>
runners == <<runner, pipe, stdio, output>>
vars    == <<connection, client, session, answers, job, runners>>

----------------------------------------------------------------------------
(* The axiom sets, the sets on ctrl->clause_sets (formula_sets goes along  *)
(* with it), how often f_distrib counts each, the stack pointer shared_ax_sp,*)
(* what is registered for garbage collection and what has been freed.      *)
EmptyMem == [axiom_sets |-> <<>>, clause_sets |-> <<>>, f_distrib |-> <<>>,
             shared_ax_sp |-> 0, gc_sets |-> {}, freed |-> {}]

(* SizeMalloc() may hand out a block that has been freed.  What is         *)
(* registered is an address: if that of the old set still is, it now means *)
(* the new one.                                                            *)
ClauseSetAlloc(m, i) ==
    {m} \cup {[m EXCEPT !.gc_sets = (@ \ {old}) \cup {i}, !.freed = @ \ {old}] :
                old \in m.gc_sets \cap m.freed}

AxiomSetFree(m, i) == [m EXCEPT !.freed = @ \cup {i}]

IndicesOf(n, s) == {i \in DOMAIN s : s[i].name = n}

(* f_distrib grows with the signature. *)
GenDistribSizeAdjust(f_distrib, i) ==
    [k \in DOMAIN f_distrib \cup 0..i |-> IF k \in DOMAIN f_distrib THEN f_distrib[k] ELSE 0]

StructFOFSpecAddProblem(m, s) ==
    LET adjusted == GenDistribSizeAdjust(m.f_distrib, s.id)
    IN  [m EXCEPT !.clause_sets = Append(@, s), !.gc_sets = @ \cup {s.id},
                  !.f_distrib = [adjusted EXCEPT ![s.id] = @ + 1]]

StageSet(m, i) ==
    LET s     == m.axiom_sets[i]
        added == StructFOFSpecAddProblem(m, [name |-> s.name, id |-> s.id])
    IN  [added EXCEPT !.axiom_sets[i].staged = TRUE,
                      !.shared_ax_sp = Len(added.clause_sets)]

(* Mutant: what is counted is not taken back. *)
ForgetSet(m, n) ==
    LET found == IndicesOf(n, m.clause_sets) IN
    IF found = {} THEN m
    ELSE [m EXCEPT !.clause_sets = RemoveAt(@, Max(found)), !.shared_ax_sp = @ - 1]

(* The second half of unstage_command: off the stack, from its top. *)
PopSet(m, n) ==
    LET found == IndicesOf(n, m.clause_sets) IN
    IF found = {} THEN [m EXCEPT !.shared_ax_sp = Len(m.clause_sets)]
    ELSE [m EXCEPT !.clause_sets = RemoveAt(@, Max(found)),
                   !.f_distrib[m.clause_sets[Max(found)].id] = @ - 1,
                   !.shared_ax_sp = Len(m.clause_sets) - 1]

UnstageSet(m, n) ==
    PopSet([m EXCEPT !.axiom_sets = [i \in DOMAIN @ |->
        IF @[i].name = n THEN [@[i] EXCEPT !.staged = FALSE] ELSE @[i]]], n)

StructFOFSpecBacktrackToSpec(m) ==
    LET extra == After(m.shared_ax_sp, m.clause_sets)
        gone_ids == {s.id : s \in ToSet(extra)}
    IN  [m EXCEPT !.clause_sets = Upto(m.shared_ax_sp, @),
                  !.f_distrib = [i \in DOMAIN @ |-> IF i \in gone_ids THEN @[i] - 1 ELSE @[i]],
                  !.gc_sets = @ \ gone_ids, !.freed = @ \cup gone_ids]

NoLines == [r \in Runners |-> <<>>]

----------------------------------------------------------------------------
Init ==
    /\ ConnectionInit
    /\ workload \in DOMAIN Workloads /\ sent = 0 /\ gone = FALSE
    /\ pc = "recv" /\ cmd = Go /\ block = {} /\ mem = EmptyMem /\ ids = 0
    /\ answers = <<"connected">>
    /\ jpc = "none" /\ jmem = EmptyMem /\ next = 1 /\ procs = {} /\ todo = {}
    /\ answer = 0 /\ late = FALSE
    /\ runner = [r \in Runners |-> "none"]
    /\ pipe = NoLines /\ stdio = NoLines /\ output = NoLines

(* The client: one command at a time, a block as text and GO.              *)
Progress == {"started", "solved", "gave_up", "finished"}
Answered == answers # <<>> /\ Last(answers) \notin Progress

ClientSends ==
    /\ ~gone /\ pc \notin {"ended", "died"}
    /\ Answered /\ out = <<>> /\ sent + 1 \in DOMAIN Workloads[workload]
    /\ \E m \in Workloads[workload][sent + 1] :
         out' \in (IF m[1] \in {"ADD", "RUN"}
                   THEN {<<m, text, Go>> : text \in {Good, Bad}} ELSE {<<m>>})
    /\ sent' = sent + 1 /\ answers' = <<>>
    /\ UNCHANGED <<out_count, wire, receiver, workload, gone, session, job, runners>>

ClientWrites ==
    /\ ~gone /\ TCPMsgWrite
    /\ UNCHANGED <<client, session, answers, job, runners>>

ClientCloses ==
    /\ ~gone /\ gone' = TRUE
    /\ out' = <<>> /\ out_count' = 0
    /\ UNCHANGED <<wire, receiver, workload, sent, session, answers, job, runners>>

----------------------------------------------------------------------------
(* StartDeductionServer: TCPStringRecvX and the command's name; junk after *)
(* a command may be ignored, or make it unknown, or stop the scanner.      *)
TakeText(t) ==
    \/ /\ pc = "block"
       /\ IF t = Go THEN pc' = "exec" /\ UNCHANGED block
                    ELSE block' = block \cup {t} /\ UNCHANGED pc
       /\ UNCHANGED cmd
    \/ /\ pc = "recv" /\ cmd' = t /\ block' = {}
       /\ pc' = IF t[1] \in {"ADD", "RUN"} THEN "block" ELSE "exec"
    \/ /\ pc = "recv" /\ t = Garbled
       /\ pc' = "died" /\ UNCHANGED <<cmd, block>>

Reading == pc \in {"recv", "block"}

ServerReadsHeader ==
    /\ Reading /\ ReadHeader
    /\ UNCHANGED <<client, session, answers, job, runners>>

ServerReadsRest ==
    /\ Reading
    /\ \/ \E t \in Texts \cup {Garbled} : ReadRest(t) /\ TakeText(t)
       \/ ReadRest(Incomplete) /\ UNCHANGED <<pc, cmd, block>>
    /\ UNCHANGED <<client, mem, ids, answers, job, runners>>

(* TCPStringRecvX gives up the session when the client has gone. *)
ServerLosesClient ==
    /\ Reading /\ ConnClosed(gone)
    /\ pc' = "died"
    /\ UNCHANGED <<connection, client, cmd, block, mem, ids, answers, job, runners>>

(* print_to_outstream: the first write to a closed connection still works, *)
(* the next one kills.                                                     *)
Reply(code) ==
    \/ ~gone /\ pc' = "recv" /\ answers' = Append(answers, code)
    \/ gone /\ pc' \in {"recv", "died"} /\ UNCHANGED answers

Exec(op) == pc = "exec" /\ cmd[1] = op
RestUnchanged == UNCHANGED <<connection, client, cmd, block, job, runners>>

ListedAs(n) == IndicesOf(n, mem.axiom_sets)

(* add_command, for ADD and for LOAD *)
AddSet(n, ok) ==
    /\ ids' = ids + 1
    /\ \E m \in ClauseSetAlloc(mem, ids + 1) :
         IF ListedAs(n) = {}
         THEN /\ mem' = [m EXCEPT !.axiom_sets =
                           Append(@, [name |-> n, id |-> ids + 1, staged |-> FALSE])]
              /\ Reply(ok)
         ELSE mem' = AxiomSetFree(m, ids + 1) /\ Reply("401")

AddCommand ==
    /\ Exec("ADD")
    /\ IF block \subseteq {Good}
       THEN AddSet(cmd[2], "205")
       ELSE pc' = "died" /\ UNCHANGED <<mem, ids, answers>>
    /\ RestUnchanged

LoadCommand ==
    /\ Exec("LOAD")
    /\ CASE Library = {}           -> Reply("408") /\ UNCHANGED <<mem, ids>>
         [] cmd[2] \in Library     -> AddSet(cmd[2], "206")
         [] cmd[2] \notin Library  -> Reply("404") /\ UNCHANGED <<mem, ids>>
    /\ RestUnchanged

StageCommand ==
    /\ Exec("STAGE")
    /\ IF ListedAs(cmd[2]) = {} THEN Reply("404") /\ UNCHANGED mem
       ELSE LET i == Min(ListedAs(cmd[2])) IN
            IF mem.axiom_sets[i].staged THEN Reply("405") /\ UNCHANGED mem
            ELSE mem' = StageSet(mem, i) /\ Reply("201")
    /\ UNCHANGED ids /\ RestUnchanged

UnstageCommand ==
    LET n == cmd[2] IN
    /\ Exec("UNSTAGE")
    /\ IF ListedAs(n) = {} THEN Reply("404") /\ UNCHANGED mem
       ELSE IF \E i \in ListedAs(n) : ~mem.axiom_sets[i].staged
       THEN Reply("406") /\ UNCHANGED mem
       ELSE /\ mem' = UnstageSet(mem, n)
            /\ Reply(IF IndicesOf(n, mem.clause_sets) = {} THEN "404" ELSE "202")
    /\ UNCHANGED ids /\ RestUnchanged

(* remove_command takes sets off the stack until it has found the one; if  *)
(* that is staged it returns without putting them back.                    *)
RemoveCommand ==
    /\ Exec("REMOVE")
    /\ IF ListedAs(cmd[2]) = {} THEN Reply("404") /\ UNCHANGED mem
       ELSE LET i == Max(ListedAs(cmd[2])) IN
            IF mem.axiom_sets[i].staged
            THEN Reply("403") /\ mem' = [mem EXCEPT !.axiom_sets = Upto(i - 1, @)]
            ELSE /\ Reply("203")
                 /\ mem' = AxiomSetFree([mem EXCEPT !.axiom_sets = RemoveAt(@, i)],
                                        mem.axiom_sets[i].id)
    /\ UNCHANGED ids /\ RestUnchanged

(* DOWNLOAD, LIST, and what is not a command *)
ReportCommand ==
    /\ \/ Exec("DOWNLOAD") /\ Reply(IF ListedAs(cmd[2]) = {} THEN "404" ELSE "204")
       \/ Exec("LIST") /\ Reply("200")
       \/ pc = "exec" /\ cmd \in {Garbled, Go, Good, Bad} /\ Reply("407")
    /\ UNCHANGED <<mem, ids>> /\ RestUnchanged

(* quit_command, and the end of the session: what InteractiveSpecFree and  *)
(* StructFOFSpecFree free then is not followed, nothing is collected later. *)
QuitCommand ==
    /\ Exec("QUIT") /\ pc' = "ended"
    /\ mem' = FoldRight(LAMBDA s, m : IF s.staged THEN UnstageSet(m, s.name) ELSE m,
                        mem.axiom_sets, mem)
    /\ UNCHANGED <<ids, answers>> /\ RestUnchanged

(* run_command: fork(), and wait(NULL) *)
RunCommand ==
    /\ Exec("RUN") /\ pc' = "wait"
    /\ jpc' = "started" /\ jmem' = mem
    /\ UNCHANGED <<connection, client, cmd, block, mem, ids, answers, next, procs, todo,
                   answer, late, runners>>

(* What a job that failed leaves behind is not followed any further.       *)
WaitForJob ==
    /\ pc = "wait" /\ jpc \in {"done", "error", "sigpipe"}
    /\ Reply("200")
    /\ jpc' = "none" /\ jmem' = EmptyMem /\ next' = 1 /\ procs' = {} /\ todo' = {}
    /\ answer' = 0 /\ late' = FALSE
    /\ runner' = [r \in Runners |-> "none"]
    /\ pipe' = NoLines /\ stdio' = NoLines /\ output' = NoLines
    /\ UNCHANGED <<connection, client, cmd, block, mem, ids>>

----------------------------------------------------------------------------
(* The job *)

Idle == UNCHANGED <<connection, client, session>>

JobSends(message, then) ==
    \/ ~gone /\ answers' = Append(answers, message) /\ jpc' = then
    \/ gone /\ jpc' \in {then, "sigpipe"} /\ UNCHANGED answers

JobStarts ==
    /\ jpc = "started" /\ JobSends("started", "parse")
    /\ UNCHANGED <<jmem, next, procs, todo, answer, late, runners>> /\ Idle

ParseJob ==
    /\ jpc = "parse"
    /\ IF block \subseteq {Good}
       THEN /\ jpc' = "loop"
            /\ \E m \in ClauseSetAlloc(jmem, JobSet.id) :
                 jmem' = StructFOFSpecAddProblem(m, JobSet)
       ELSE jpc' = "error" /\ UNCHANGED jmem
    /\ UNCHANGED <<next, procs, todo, answer, late, runners, answers>> /\ Idle

(* Mutant: the loop does not look at the time. *)
StartAgain ==
    /\ jpc = "loop" /\ jpc' = "start"
    /\ UNCHANGED <<jmem, next, procs, todo, answer, late, runners, answers>> /\ Idle

(* while(!res && GetSecTime()<=end) *)
TestTime ==
    /\ jpc = "loop" /\ jpc' = IF late THEN "report" ELSE "start"
    /\ UNCHANGED <<jmem, next, procs, todo, answer, late, runners, answers>> /\ Idle

(* Mutant: one more than there are cores. *)
HasRoomForOneMore == next <= NumFilters /\ Cardinality(procs) <= MaxCores /\ ~late

CanCreate == next <= NumFilters /\ Cardinality(procs) < MaxCores /\ ~late

(* batch_create_runner with ECtrlCreateGeneric: popen() ... *)
CreateRunner ==
    /\ jpc = "start" /\ CanCreate /\ jpc' = "boot"
    /\ runner' = [runner EXCEPT ![next] = "boot"]
    /\ UNCHANGED <<jmem, next, procs, todo, answer, late, pipe, stdio, output, answers>> /\ Idle

Eof(r)      == runner[r] = "dead" /\ pipe[r] = <<>>
Readable(r) == pipe[r] # <<>> \/ Eof(r)

(* fgets(): the FILE takes over all that is in the pipe, a line of it goes *)
(* to the job.                                                             *)
GetLine(r) ==
    LET lines == IF stdio[r] # <<>> THEN stdio[r] ELSE pipe[r] IN
    /\ lines # <<>>
    /\ output' = [output EXCEPT ![r] = Append(@, Head(lines))]
    /\ stdio'  = [stdio EXCEPT ![r] = Tail(lines)]
    /\ pipe'   = IF stdio[r] # <<>> THEN pipe ELSE [pipe EXCEPT ![r] = <<>>]
    /\ UNCHANGED runner

(* ... and the PID line; a runner that ends without it ends the job.       *)
ReadPid ==
    /\ jpc = "boot"
    /\ \/ GetLine(next) /\ jpc' = "start"
          /\ procs' = procs \cup {next} /\ next' = next + 1
       \/ Eof(next) /\ jpc' = "error" /\ UNCHANGED <<runners, procs, next>>
    /\ UNCHANGED <<jmem, todo, answer, late, answers>> /\ Idle

(* EPCtrlSetGetResult *)
Select ==
    /\ jpc = "start" /\ ~CanCreate
    /\ todo' = {r \in procs : Readable(r)} /\ jpc' = "read"
    /\ UNCHANGED <<jmem, next, procs, answer, late, runners, answers>> /\ Idle

ReadLine(r) ==
    /\ jpc = "read" /\ r \in todo /\ GetLine(r)
    /\ todo' = todo \ {r}
    /\ UNCHANGED <<jpc, jmem, next, procs, answer, late, answers>> /\ Idle

(* Mutant: any result will do. *)
AnyResult(r) == {"theorem", "sat"} \cap ToSet(output[r]) # {}

(* handle->result: PRTheorem or PRUnsatisfiable *)
HasProof(r) == "theorem" \in ToSet(output[r])

GetResult(r) ==
    /\ jpc = "read" /\ r \in todo /\ stdio[r] = <<>> /\ Eof(r)
    /\ todo' = todo \ {r}
    /\ IF HasProof(r) THEN answer' = r /\ UNCHANGED procs
                      ELSE procs' = procs \ {r} /\ UNCHANGED answer
    /\ UNCHANGED <<jpc, jmem, next, late, runners, answers>> /\ Idle

EndOfRound ==
    /\ jpc = "read" /\ todo = {}
    /\ jpc' = IF answer # 0 THEN "report" ELSE "loop"
    /\ UNCHANGED <<jmem, next, procs, todo, answer, late, runners, answers>> /\ Idle

(* The answer, and StructFOFSpecBacktrackToSpec *)
ReportJob ==
    /\ jpc = "report"
    /\ JobSends(IF answer # 0 THEN "solved" ELSE "gave_up", "free")
    /\ jmem' = StructFOFSpecBacktrackToSpec(jmem)
    /\ UNCHANGED <<next, procs, todo, answer, late, runners>> /\ Idle

(* EPCtrlSetFree with EPCtrlCleanup: kill(), and pclose() waits for the    *)
(* end of the runner.                                                      *)
CleanupRunner(r) ==
    /\ jpc = "free" /\ r \in procs /\ runner[r] = "dead"
    /\ procs' = procs \ {r}
    /\ UNCHANGED <<jpc, jmem, next, todo, answer, late, runners, answers>> /\ Idle

JobFinishes ==
    /\ jpc = "free" /\ procs = {} /\ JobSends("finished", "done")
    /\ UNCHANGED <<jmem, next, procs, todo, answer, late, runners>> /\ Idle

TimePasses ==
    /\ jpc \notin {"none", "started", "parse", "done", "error", "sigpipe"} /\ ~late /\ late' = TRUE
    /\ UNCHANGED <<jpc, jmem, next, procs, todo, answer, runners, answers>> /\ Idle

----------------------------------------------------------------------------
(* A runner prints its PID, and a status, with a proof after it; its CPU   *)
(* limit, or a signal, may end it anywhere.                                *)
Prints(r, from, line, to) ==
    /\ runner[r] = from
    /\ runner' = [runner EXCEPT ![r] = to]
    /\ pipe'   = [pipe EXCEPT ![r] = Append(@, line)]
    /\ UNCHANGED <<stdio, output>>

RunnerWorks(r) ==
    /\ \/ Prints(r, "boot", "pid", "search")
       \/ Prints(r, "search", "theorem", "proving")
       \/ Prints(r, "search", "sat", "finished")
       \/ Prints(r, "proving", "proof", "finished")
    /\ UNCHANGED <<job, answers>> /\ Idle

RunnerEnds(r) ==
    /\ runner[r] \notin {"none", "dead"}
    /\ runner' = [runner EXCEPT ![r] = "dead"]
    /\ UNCHANGED <<pipe, stdio, output, job, answers>> /\ Idle

----------------------------------------------------------------------------
Over == (pc \in {"ended", "died"} \/ (Reading /\ sent = Len(Workloads[workload]))) /\ UNCHANGED vars

Session ==
    \/ ServerReadsHeader \/ ServerReadsRest \/ ServerLosesClient
    \/ AddCommand \/ LoadCommand \/ StageCommand \/ UnstageCommand \/ RemoveCommand
    \/ ReportCommand \/ QuitCommand \/ RunCommand \/ WaitForJob

Job ==
    \/ JobStarts \/ ParseJob \/ TestTime \/ CreateRunner \/ ReadPid \/ Select
    \/ (\E r \in Runners : ReadLine(r) \/ GetResult(r)) \/ EndOfRound
    \/ ReportJob \/ (\E r \in Runners : CleanupRunner(r)) \/ JobFinishes

Client == ClientSends \/ ClientWrites \/ ClientCloses

Next == Client \/ Session \/ Job \/ TimePasses \/ Over
        \/ \E r \in Runners : RunnerWorks(r) \/ RunnerEnds(r)

Spec == Init /\ [][Next]_vars

(* Processes run, time passes, and a CPU limit ends every runner.          *)
FairSpec == /\ Spec /\ WF_vars(Session) /\ WF_vars(Job) /\ WF_vars(TimePasses)
            /\ \A r \in Runners : WF_vars(RunnerEnds(r))

----------------------------------------------------------------------------
(* Properties *)

(* The staged specification is consistent whatever the order of the        *)
(* commands: f_distrib counts exactly the sets on the stack, and each of   *)
(* these is registered for garbage collection and not freed, in a job, too,*)
(* whose collection therefore keeps the terms of what is staged;           *)
(* shared_ax_sp is the height of the stack; no listed set is freed, and it *)
(* is on the stack once if it is staged and not at all otherwise; a job    *)
(* that is over has taken its own part back.  That nothing else is         *)
(* registered is not said: unstage_command leaves a set registered, which  *)
(* remove_command may free.                                                *)
OnStackTimes(m, i) == Cardinality({k \in DOMAIN m.clause_sets : m.clause_sets[k].id = i})

StackIsKept(m) ==
    /\ \A s \in ToSet(m.clause_sets) :
         s.id \in DOMAIN m.f_distrib /\ s.id \in m.gc_sets /\ s.id \notin m.freed
    /\ \A i \in DOMAIN m.f_distrib : m.f_distrib[i] = OnStackTimes(m, i)

SpecIsConsistent ==
    /\ StackIsKept(mem) /\ StackIsKept(jmem)
    /\ mem.shared_ax_sp = Len(mem.clause_sets)
    /\ \A i \in DOMAIN mem.axiom_sets :
         LET s == mem.axiom_sets[i] IN
         /\ s.id \notin mem.freed
         /\ OnStackTimes(mem, s.id) = IF s.staged THEN 1 ELSE 0
    /\ jpc \in {"free", "done"} => jmem.clause_sets = mem.clause_sets

(* Never more runners than cores, all of them under control, and none is   *)
(* at work when a job has ended in order.                                  *)
RunnersAreControlled ==
    jpc \notin {"error", "sigpipe"} =>
        LET active == {r \in Runners : runner[r] \notin {"none", "dead"}} IN
        /\ Cardinality(active) <= MaxCores
        /\ active \subseteq procs \cup (IF jpc = "boot" THEN {next} ELSE {})
        /\ jpc = "done" => active = {}

(* A job tells its client of a solution only if a runner has found a proof *)
(* and all that the runner has printed has arrived; it gives up only when  *)
(* the time is over.                                                       *)
AnswersAreProofs ==
    [][ /\ answers' = Append(answers, "solved") =>
              /\ "theorem" \in ToSet(output[answer])
              /\ pipe[answer] = <<>> /\ stdio[answer] = <<>>
        /\ answers' = Append(answers, "gave_up") => late ]_vars

(* A command that is being executed comes to an end, however the job does: *)
(* a wait for a runner or for the job never lasts for ever.                *)
ServerComesBack == pc \in {"exec", "wait"} ~> pc \in {"recv", "ended", "died"}

(* README.server and the message 403 ("please unstage it first") take it   *)
(* for granted that a set which is staged is still known.                  *)
StagedSetsAreKnown ==
    {s.id : s \in ToSet(mem.clause_sets)} \subseteq {s.id : s \in ToSet(mem.axiom_sets)}
=============================================================================
