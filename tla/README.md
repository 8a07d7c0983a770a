# A verification development for E

E is a saturating theorem prover for first-order (and higher-order) logic with
equality. This directory holds TLA+ modules for the parts of E whose correctness
hangs on the *order* in which things happen: the given-clause loop with its
simplifications, the term bank and what rewriting caches in it, the indices, the
queue of clauses, the scheduling of strategies over processes, pipes and signals,
and the deduction server; and for the algorithms on terms, clauses and formulas that
the loop rests on. TLC checks the modules on small instances, TLAPS proves theorems
about the loop, the term bank, the clause selection, the scheduling and the server for
every instance.

Paths in this file are relative to `src/`.

    tlc -workers 2 -config MCSaturationGround.cfg MCSaturationGround.tla
    tlapm SaturationProofs.tla

## 1. The system

### 1.1 Components, their state, their operations

| component | state | operations | how it is driven |
|---|---|---|---|
| saturation loop, `CONTROL/cco_proofproc.c` | `ProofStateCell`: `processed_pos_rules`, `processed_pos_eqns`, `processed_neg_units`, `processed_non_units`, `unprocessed`, `tmp_store`, `eval_store`, `archive`, `extract_roots`, `state_is_complete` | `Saturate`, `ProcessClause`, `eliminate_*`, `generate_new_clauses`, `insert_new_clauses`, `cleanup_unprocessed_clauses`, `SATCheck` | called by `main()`, once for presaturation and once for the search |
| forward contraction, `CONTROL/cco_forward_contraction.c` | reads the processed sets, changes one clause | `ForwardModifyClause`, `ForwardContractClause`, `ForwardSubsumption`, `ForwardContractSet` | on the given clause, on every new clause, on all of `unprocessed` when memory is short |
| backward simplification, `CONTROL/cco_simplification.c`, `CLAUSES/ccl_context_sr.c` | moves clauses from the processed sets to `tmp_store`, originals to `archive` | `RemoveRewritableClauses`, `ClauseSetUnitSimplify`, `RemoveContextualSRClauses`, `ClauseMoveSimplified` | after a given clause passed forward contraction, before it is processed |
| derivations and orphans, `CLAUSES/ccl_clausefunc.c`, `ccl_derivation.c` | per clause: a stack of operations that name parents by pointer; `CPIsDead` | `ClauseArchive`, `ClauseArchiveCopy`, `ClauseIsOrphaned` | decides which waiting clauses are thrown away |
| rewriting, `CLAUSES/ccl_rewrite.c` | rewrite links and normal form dates in shared term cells, `CPLimitedRW` in clauses | `ClauseComputeLINormalform`, `FindRewritableClauses` | from contraction and simplification |
| clauses and inferences, `CLAUSES/ccl_*`, `CONTROL/cco_paramodulation.c`, `cco_factoring.c`, `cco_eqnresolving.c` | none | paramodulation, equality factoring and resolution, subsumption, condensation, simplify-reflect, tautology tests | from the loop |
| clause selection, `HEURISTICS/che_hcb.c` | one queue per evaluation function, `current_eval`, `select_count` | `HCBStandardClauseSelect`, `HCBClauseSetDelProp` | picks the given clause, the clauses to delete when memory is short |
| strategy scheduling, `CONTROL/cco_scheduling.c`, `cco_gproc_ctrl.c`, `INOUT/cio_signals.c` | `EGPCtrlSet`: children, their pipes, cores reserved; `SigTermCaught` | `ExecuteScheduleMultiCore`, `EGPCtrlCreate`, `EGPCtrlSetGetResult`, `EGPCtrlCleanup` | `main()` calls it twice, nested: once before preprocessing, once in each child before the search |
| server and batch processing, `PROVER/e_deduction_server.c`, `CONTROL/cco_einteractive_mode.c`, `cco_batch_spec.c`, `cco_proc_ctrl.c`, `INOUT/cio_network.c` | axiom sets, the stack of staged sets, `f_distrib`, `EPCtrlSet`, message buffers | commands over TCP, a job that runs one E per axiom filter through `popen()` | a process per client, one more per job |
| shared terms, `TERMS/cte_termbanks.c`, `cte_garbage_coll.c` | hash-consed term cells, `GCAdmin` | insert, find, mark, sweep | everything that builds terms |
| orderings, `ORDERINGS/` | weights, the precedence matrix | `TOCompare`, `OCBPrecedenceAddTuple` | from inferences and from option parsing |
| matching and unification, `TERMS/cte_match_mgu_1-1.c`, `cte_subst.c` | bindings in variable cells, a stack to undo them | `SubstComputeMatch`, `SubstComputeMgu` | from inferences |
| subsumption, `CLAUSES/ccl_subsumption.c` | a pick list | `ClauseSubsumesClause`, `UnitClauseSetSubsumesClause` | from contraction |
| indices, `TERMS/cte_fp_index.c`, `CLAUSES/ccl_pdtrees.c`, `ccl_fcvindexing.c` | tries of fingerprints, of terms, of feature vectors, with counters and cached bounds | insert, delete, search | whenever a clause enters or leaves a set |
| clausification, `CLAUSES/ccl_tcnf.c`, `ccl_formulafunc.c` | formula sets, polarity marks and definition marks in shared cells | `FormulaSetCNF2` | before the loop |
| clause preprocessing, splitting, BCE, SinE | clause sets, worklists | see the sources | before the loop |
| propositional prover, SAT interface, learning, PCL tools, HO inferences, parsing | own | own | mostly separate programs, or options that are off by default |
| base data structures, `BASICS/` | queues, stacks, heaps, splay trees, size-indexed free lists | | everywhere |

`PROJECT.json` gives for each the modules that model it, or why it is not modelled.

### 1.2 How they interact

    main ─ ExecuteScheduleMultiCore (preprocessing schedule)
            └ fork: child ─ preprocess ─ ExecuteScheduleMultiCore (search schedule)
                                         └ fork: prover ─ Saturate ─ print verdict ─> pipe

    Saturate ─ ProcessClause ─ select ─ forward contraction ─ replacing inferences
                             ─ backward simplification ─ process ─ generate ─ insert new
             ─ cleanup_unprocessed_clauses ─ SATCheck

A prover is one sequential process; its hard behaviour is not concurrency but the
long sequence of legal steps. A clause may be simplified, archived, copied,
normalised under a restriction, thrown away as an orphan and derived again, and the
five sets that hold clauses must together stay equivalent to the input. The
scheduler has the opposite shape: very little data, but a tree of processes with
pipes, signals, limits and `waitpid`.

### 1.3 What makes each component correct

* *saturation loop*: everything derived follows from the axioms; nothing that is
  needed is lost while `state_is_complete` is set; a verdict is true; the processed
  set is reduced between two given clauses; the search ends on finite problems.
* *backward simplification and orphans*: the children of a victim may be deleted,
  because the victim's copy cannot; marks (`CPIsIRVictim`, `CPLimitedRW`) travel
  together.
* *strategy scheduling*: cores are never overcommitted; an answer that was announced
  is not lost, none is invented; the exit status says what was printed; no process
  is left behind; everything ends.
* *rewriting*: a normal form found in a cache is one for the demodulators of now, and
  the caches never hide a step that interreduction needs.
* *shared terms*: the sweep frees nothing that a clause or a rewrite link still names.
* *orderings, matching, unification, subsumption, clausification*: what an optimised
  function returns is what its definition says.
* *indices*: no clause or term that a search must find is missed, whatever came and went.
* *clause selection*: every function gets its turns, the oldest clause does not wait for ever.
* *core allocation*: shares add up to the total and nobody gets zero.
* *server*: messages are framed as they were sent; staging and unstaging leave a
  consistent specification; an answer is a proof; the server comes back.

`PROJECT.json` lists under `hazards` each place in the code where one of these can go
wrong, with the property that would notice.

## 2. Modules and plan

| | modules | state |
|---|---|---|
| A | `ClauseLogic`, `Saturation`, `MCSaturation`, `MCSaturationGround`, `MCSaturationEqn`, `SaturationProofs` | modelled, checked, proved |
| B | `StrategyScheduler`, `Portfolio`, `MCStrategyScheduler`, `StrategySchedulerProofs`, `StrategySchedulerTreeProofs`, `StrategySchedulerCoreProofs` | modelled, checked, all safety properties and the refinement proved |
| C | `CoreAllocation`, `CoreAllocationProofs`: `ScheduleTimesInitMultiCore`; B takes its cores from it | modelled, checked, proved |
| D | `SharedTerms`, `MCSharedTerms`, `SharedTermsProofs`: term bank, rewrite links and dates, backward rewriting, garbage collection | modelled, checked, all five invariants proved |
| E | `ClauseSelection`, `ClauseSelectionProofs`: rotation and deletion of bad clauses | modelled, checked, proved |
| F | `TCPMessages`, `DeductionServer`, `MCDeductionServer`, `DeductionServerProofs` | modelled, checked, all safety properties proved |
| G | `Terms`, `TermOrderings`, `Precedence`, `Unification`, `Subsumption`, `FingerprintIndex`, `PDTrees`, `FVIndexing`, `Clausification`, run together by `MCAlgorithms` | modelled, checked |
| H | splitting, blocked clause elimination, SinE, proof checking | open |

`Saturation` extends `ClauseLogic`. `TermOrderings` and `Unification` extend `Terms`;
`Subsumption` and the indices extend `Unification`.
`StrategyScheduler` extends `CoreAllocation` and implements `Portfolio`;
`DeductionServer` extends `TCPMessages`. The sums of `CoreAllocationProofs` are used again
by `StrategySchedulerCoreProofs` and `ClauseSelectionProofs`. `Saturation` takes matching, rewriting
and the ordering from a signature (3.1), `SharedTerms` takes terms, matching and the ordering as
constants (6.1), and both stay free of RECURSIVE operators, which the proofs need. G checks the
code behind these relations, and `MCSharedTerms` gives `SharedTerms` the KBO of `TermOrderings`.

## 3. `ClauseLogic` and `Saturation`

### 3.1 State

| variable | code |
|---|---|
| `store` | the four processed sets and `archive`; an id is a pointer to a clause object |
| `unprocessed`, `tmp_store`, `eval_store` | the sets of the same names |
| `pending` | the part of `unprocessed` that the loop of `ForwardContractSet` has not visited |
| `cur` | the clause a loop has at hand (`clause`, `pclause`, `handle`) |
| `given` | the copy of the given clause that is in a processed set |
| `extract_roots`, `state_is_complete` | the same |
| `phase` | presaturation or search, in `main()` |
| `verdict` | the SZS status `main()` prints |
| `pc` | where the sequential code is |

A clause cell has its literals (a set), the parents that its derivation names, and the
marks `lim` (`CPLimitedRW`) and `victim` (`CPIsIRVictim`). Variables, terms and
positions are abstracted: a *signature* lists the literals, the interpretations, and the
relations that matching, unification and the ordering would compute (`Covers`, `Cuts`,
`Rewrites`, `Paramods`, `Bigger`, ...). Which inference is *possible*
is therefore a constant, but which inference the code *does*, with which restriction,
on which set and in which order, is modelled. `ClauseLogic` assumes of these relations
what soundness needs: `MatchAssumption`, `RewritesAssumption`, `InferenceAssumption`,
`LitAssumption`. `MatchAssumption` also says that `Covers` relates literals of one sign, which
every subsumption test compares first (`PropsAreEquiv`, `CLAUSES/ccl_subsumption.c:283`).
`Saturation` adds `ProblemsAssumption`.

### 3.2 Actions

The functions are cut into one action per loop body or call, in the order of the
source; each action takes `pc` to where the code goes next.

| action | code |
|---|---|
| `SelectClause` | `ProcessClause` up to the selection, `HCBStandardClauseSelect` with its deletion of orphans |
| `ForwardModifyClause`, `ForwardContractClause`, `ForwardContextSR` | forward contraction of the given clause |
| `ReplacingInferences` | destructive equality resolution |
| `EliminateBackwardRewritten`, `EliminateBackwardSubsumed`, `EliminateUnitSimplified`, `EliminateContextSR` | backward simplification, in this order |
| `InsertGiven`, `GenerateNewClauses` | the given clause is copied, archived and processed; all inferences with it |
| `TakeNewClause`, `ModifiedVictim`, `ModifiedNewClause`, `EvaluateNewClauses` | the loop of `insert_new_clauses` |
| `DeleteOrphans`, `StartContraction`, `TakePending`, `ContractedPending`, `EndContraction`, `DeleteBadClauses` | `cleanup_unprocessed_clauses` |
| `SATCheck` | the call of the SAT solver on the ground instances, an oracle |
| `EndPresaturation`, `EndSaturation`, `Report` | `main()` |

A normal form is computed one simplification per step, so that every order of redexes is
explored. The order of the clauses in a set, and every decision of a heuristic (which
clause next, which ones are bad, when a limit strikes) is left open.

### 3.3 Runs

`ground` (about 540,000 states): the six literals over a > b > c with *all* rewrite
relations, superposition inferences and equality factoring of that signature, six problems,
with and without presaturation. It checks `TypeOK`; `VerdictIsRight` (the verdict against
truth in all interpretations of the signature, which for "Satisfiable" is completeness of
the calculus as the code runs it); `VictimsAreLimited` (the assertions of
`ProcessClause` and `insert_new_clauses`); `Reduced`.

`equations` (about 77,000 states): f(X,Y)=f(Y,X) cannot be oriented, so that it rewrites
instances only and is found by another index than rules; every optional simplification and
the deletions under memory pressure are on in one of four option sets. It checks
`Sound`, `NothingLost`, `VerdictIsRight` and, under fairness, `Terminates`.

The bounds are those of the signatures: every clause over them is a possible clause, nothing
is cut off. Ground literals suffice for the interplay of sets, marks and orphans; the one
unorientable equation and the one variable disequation are there because the code treats
them apart.

*Fairness.* `WF_vars(Next)`: the process goes on running. There is no fairness between
actions, and `limits` (a run that hits its limits) is an option of a run, so that `Terminates`
does not depend on luck. `Terminates` is checked with `backward_context_sr` only together with
`forward_context_sr`: with the former alone C = p ∨ q and D = ¬p ∨ q push each other out
of the processed set for ever, because `ForwardModifyClause` does not apply the simplification
that made the other one a victim. This is a consequence of the last observation below.

### 3.4 Finding and observations

* Finding `variant_rules`: a comment in `eliminate_backward_subsumed_clauses`
  (`CONTROL/cco_proofproc.c:262`) takes for granted that no rule is a variant of an older
  one. Two copies of one rule can be processed: the second comes from a back-simplified
  rule that is under `CPLimitedRW`. It costs time, not correctness.
* `ClauseUnitSimplifyTest` (`CLAUSES/ccl_clausefunc.c:396`) misses positive literals of
  clauses that have negative ones. Simplification is skipped, which is sound.
* `--forward-context-sr-aggressive` has no effect: `ForwardModifyClause` does not look at its
  argument `context_sr` (`CONTROL/cco_forward_contraction.c:245`).

The gap in the backward rewriting index (section 6) does not show here, since no term of the
two signatures is deep enough.

## 4. What is proved about `Saturation`

For every signature, every set of problems and every combination of options, from the
assumptions named in 3.1 (which TLC evaluates on both instances):

| theorem | says |
|---|---|
| `TypeCorrect` | `Spec => []TypeOK`; with it, parents of waiting clauses are stored: the orphan test never follows a freed pointer |
| `Soundness` | `Spec => []Sound`: all clauses held follow from the axioms |
| `RefutationCorrect` | `Spec => []UnsatisfiableIsRight`: a printed "Unsatisfiable" is true |
| `NothingIsLost` | `Spec => []NothingLost` |
| `VictimsCorrect` | `Spec => []VictimsAreLimited`: the assertions hold |
| `ProcessedReduced` | `Spec => []Reduced`: interreduction between two given clauses |

*The argument.* `TypeInv` is `TypeOK` with what makes it inductive: the ids are finitely many
(so that a fresh one exists), the parents of the clause at hand are stored as well, between the loops
nothing is at hand, and `pending` is empty outside `ForwardContractSet`. `TypeStep` has a
step per action.

Soundness is shown in *one* interpretation at a time (`AllHold`, `SoundStep`): if everything
held is true in v, everything held after a step is. This follows from one lemma per inference
(the first lemmas of `SaturationProofs`: `RewriteSound`, `CondenseSound`, `CutSound`, `ContextCutSound`,
`ParamodulantSound`, ...).

`NothingLost` goes the other way (`KeptHold`, `KeptStep`): if the clauses that no orphan
deletion can remove are true in v *after* a step, those of before are true, and everything held.
The delicate states are those in the middle of backward simplification, when victims
were removed for a given clause that is not processed yet: from there on the given clause itself
counts as lasting (`Committed`). A model with orphaned copies (mutant `OrphanCopies`) breaks
the property.

`VictimInv`: `tmp_store` is empty except from backward simplification to the last new clause,
and holds only `CPLimitedRW` copies until they are marked as victims.

`Reduced` is about the moment between two given clauses; `ReducedInv` says what each part of
`ProcessClause` contributes. The processed clauses spare each other at every step (`PairsSpared`), not
only between given clauses. Forward contraction leaves a given clause that none of them rewrites or
subsumes (`GivenReduced`); it must remain so when `ReplacingInferences` shortens it, and
when backward simplification takes clauses away (`ShorterSpared`: a literal that is maximal in a clause is
maximal in a part of it). After `EliminateBackwardRewritten` the given clause rewrites no
processed clause, after `EliminateBackwardSubsumed` it subsumes none (`GivenRewritesNone`,
`GivenSubsumesNone`): so the order of these two before `InsertGiven` is what makes the property true.
Every processed clause is in the set its shape belongs to (`InPlace`), or the searches would
look in the wrong one. `Reduced` leaves out what the code does not promise: that no rule is
subsumed, which is the finding `variant_rules`, and rewriting that `CPLimitedRW` forbids.

*Only model-checked, in the whole development*:

* the "Satisfiable" half of `VerdictIsRight`: completeness of superposition is a theorem about models
  of saturated sets, of which TLC sees those of the two signatures;
* the parts of `MCAlgorithms` about terms, clauses, formulas and the closure of a precedence: each says what
  a recursive definition computes for all inputs, which takes induction over terms, and the proof system has no
  backend for a module that declares RECURSIVE operators. The two parts about numbers and lists,
  `CoreAllocation` and `ClauseSelection`, are proved (8.1);
* liveness (`Terminates`, `EventuallyQuiet`, `ServerComesBack`): fairness and ENABLED are out of the
  proof system's reach.

*Not modelled*: watchlists, splitting, answer literals, AC handling, `sat_check_normalize`,
`enable_given_forward_simpl=false`, `local_rw`, the first evaluation of the input clauses,
higher-order inferences.

## 5. `StrategyScheduler` and `Portfolio`

### 5.1 State and actions

Processes are named by their path in the tree: `<<>>` runs the preprocessing schedule,
`<<i>>` its i-th strategy and within it the search schedule, `<<i, j>>` the j-th search
strategy. `pc` is "free" before the fork, "dead" as a zombie, "reaped" after `waitpid`.

| variable | code |
|---|---|
| `next` | `i` of `ExecuteScheduleMultiCore` |
| `retried` | whether `main()` is in its second call, with `GetFilteredDefaultSchedule` |
| `procs` | the `EGPCtrlSet`; the cores reserved are computed from it |
| `todo` | the descriptors `select()` marked, or the child that `EGPCtrlCleanup` waits for |
| `pipe`, `output`, `toprint` | kernel buffer, `handle->output`, what has still to be written |
| `handler`, `caught` | the disposition of SIGTERM, `SigTermCaught` |
| `exit_status` | of a process that ended, or the status it will end with |

An answer is two chunks: the SZS status, then the proof. This is the least that lets an answer be
read in parts, a prover die between the parts, and a pipe be too small for it.
One action is one system call or the code between two: `EGPCtrlCreate` (fork), `BecomeChild`
(which resets SIGTERM and looks at `SigTermCaught`), `Select`, `ReadOutput` and `GetResult`
(`EGPCtrlGetResult`, `EGPCtrlSetGetResult`), `CheckSigTerm`, `TestLoop`, `Cleanup` and `WaitPid`
(the two halves of `EGPCtrlCleanup`, between which the parent is blocked), `ExitScheduler`,
`ScheduleDone` (`main()`), and for the children `Preprocess`, `FindProof`, `Fail`, `WriteChunk`,
`Written`. `Terminate` is a SIGTERM from outside, to the root or to the whole process group, at
any moment. `signal()` has BSD semantics here (`-std=gnu99`): an interrupted `write` or
`waitpid` is restarted, `select` is not. A child keeps the read ends of its elder siblings'
pipes open (`EGPCtrlSetFree(procs, false)` closes nothing), so SIGPIPE comes only when all of
these are gone (`HasReader`).

Who has how many cores is not a constant: `CoresOf` takes it from `CoreAllocation`, with the
fractions and the options of a machine.

### 5.2 Runs

| run | instance | checks |
|---|---|---|
| `nested_schedule` | one preprocessing strategy on two cores, two search strategies, then a default schedule of one; two SIGTERMs | `TypeOK`, `NoneLeftBehind`, `EventuallyQuiet` |
| `parallel_schedules` | two preprocessing strategies, at once or serialised by an option, with one search strategy each; two SIGTERMs; a pipe smaller than an answer | `CoresRespected`, `SuccessMeansProof`, `KeepsPromise` (refinement of `Portfolio`) |
| `full_pipe` | the same at once, with a default schedule, one SIGTERM | `CleanupEnds`, violated |

*Bounds.* `MaxTerms`: the first SIGTERM is noted, the second kills, further ones find nothing
new. `PipeCapacity` 1 or 2 chunks: smaller than an answer or not. Two siblings are enough for
a winner and a loser, and for a schedule that must wait for a core. All strategies of
`HEURISTICS/schedule.vars` ask for one core; only preprocessing strategies get more. Deadlock
checking is off in the runs with the small pipe, where E does get stuck (5.3).

*Fairness.* Weak fairness of each process: the operating system schedules every process that can
run. A prover ends because its CPU limit or its search ends, so `FindProof` or `Fail` must
happen, neither in particular.

`NoneLeftBehind` speaks of schedulers that leave through `exit()`. A scheduler that is *killed*
by a second SIGTERM, or by SIGPIPE, leaves its provers running until their
CPU limits; the code makes no attempt to prevent it.

`exit(handle->exit_status)` (`CONTROL/cco_scheduling.c:305`) reads a cell that
`EGPCtrlSetFree` has just returned to the free list of `SizeFreeReal`, which overwrites its first
word only; the model takes the value to be intact.

### 5.3 Finding

`full_pipe`: `EGPCtrlCleanup` waits for the child before it closes the pipe. A preprocessing child
whose prover found a large proof writes it to its own parent; if the parent has stopped reading (it was
told to terminate, or a sibling won) and the answer exceeds the pipe, the child notes the SIGTERM, its
`write` is restarted, and both wait for ever. CPU limits do not help, neither uses CPU time. With a
pipe that holds the answer (`nested_schedule`) everything ends.

### 5.4 What is proved

`StrategySchedulerProofs` proves `OnlyProofsSucceed` (`Spec => []SuccessMeansProof`) and
`TypesAreRight` (`Spec => []TypeOK`) for all calls of E, any number of strategies, any number of signals
and pipes of any capacity, from `MachinesAssumption`. Success of the root is the end of a chain: a
prover printed its proof whole and left with 0, its parent read all of it, took over the status,
printed the same and left, and so up to the root. `SchedulerInv` is what each link needs:

* `OutputInv`: what a parent has read, what is in the pipe and what is still to be written are,
  put together, nothing, a status line, or a whole answer (`Stream`); a status of success, printed or
  about to be used, comes with a whole answer and nothing left to write;
* `BooksInv`: the name of the next strategy has not been used, and a child the parent is about to visit
  has output in its pipe or has ended. Without it, a parent that finds the pipe empty could
  take a half-read answer of a living prover for the result;
* `TypeInv` and `MachineInv`: there is a name for every strategy.

`NoOutputMoves` and `ChunkMoves` cover the steps that leave the streams as they are and those
that move a chunk; `AnswerStarts` covers the start of an answer and `EGPCtrlCreateStep` the fork.

`StrategySchedulerTreeProofs` adds what relates three generations of processes.

* `NothingLeftBehind` (`Spec => []NoneLeftBehind`), by `TreeInv`. A scheduler cleans up only if it gets to its
  `EGPCtrlCleanup`, so the question is what becomes of the provers below a child scheduler that a signal
  ends. `ParentInv`: every process is on its parent's books until it is reaped, and nobody who has left in order has
  books. `SignalInv`: a child scheduler with children has its handler installed or has noted a signal already
  (the second one kills it, since the handler resets the disposition), and whoever has noted one leaves
  nothing at work, unless the root is killed or waits for it just then. `OverInv`: what ended has nothing at
  work below it. A child killed between `fork` and its first instruction (`Over`) is the case that
  makes the order in `BecomeChild` matter.
* `ScheduleKeepsPromise` (`Spec => KeepsPromise`): every step of the tree is a step of `Portfolio` or
  leaves its variables as they are. `AnswerInv`: what a scheduler prints has been announced by a
  prover, and a scheduler that leaves has an answer or was told to. `NotLostInv`: as long as the
  root is in its loop, whoever has announced something is on the books of its parent, and the
  parent on those of the root, or the root has been told to stop: hence the root never gives up
  with an announced answer below it.

`StrategySchedulerCoreProofs` proves `CoresAreEnough` (`Spec => []CoresRespected`). `CoresRespected`
adds up the cores of the processes at work at *both* levels, while each scheduler only
counts its own children. `CoresInv` says that what a scheduler reserves is at most what it has, and that
a reaped child has nothing at work below it; the sum over both levels is then bounded
level by level with the lemmas about sums of 8.1. That the root's children get a core each is
`CoresGiven` of `CoreAllocationProofs`.

Only model-checked: liveness.

### 5.5 Not modelled

A failing `fork` or `pipe`, a scheduler that exceeds its own CPU or memory limit (it would leave its
provers behind as above), stdio buffering, and reports of time. Negative time limits
(`PROVER/eprover.c:733`, when the first schedule overran) are converted to unsigned and are
outside what `CoreAllocation` takes.

## 6. `SharedTerms`

### 6.1 State and actions

A term has one cell in the bank, and all clauses believe what is cached there. `bank` maps
terms to cells; a cell has its garbage collection mark, two normal form dates (for rules, and for
all demodulators), a rewrite link with `demod` (at the top) or without (below), the mark
`TPIsRRewritten`, and the marks of backward rewriting. `set_date` are the dates of the two
demodulator sets; `archive`, `processed`, `unprocessed` and `tmp_store` are the clause sets, the
roots of a collection. Clauses are units.

Normalization and the search for rewritable clauses are recursive in the code. The module has
their stack: a frame is a call of `term_li_normalform` (the term it was called with, what it has
become, the arguments normalized so far, `restricted_rw`, `modified`) or of
`term_is_rewritable`, and an action is what the code does between two calls or returns. So a
cache that a call reads may have been changed by the calls since, as in the code. `cur` is the
clause that is normalized or searched with, and what it is for; `searched`, `todo` and
`found` are the loop of `find_rewritable_clauses`, and `todo` the work list of a
collection.

| action | code |
|---|---|
| `FollowLink`, `ReturnAtOnce`, `StartRound`, `NextRound`, `ReturnNormalForm` | `term_li_normalform`: the chain of links, the cached date, the loop, the date at its end |
| `NormalizeArgument`, `SubtermsDone` | `term_subterm_rewrite`: the calls for the arguments, the new cell and its link |
| `RewriteTop` | `rewrite_with_clause_set_list`, `indexed_find_demodulator` |
| `NormalizeAgain` | `ClauseComputeLINormalform`: a clause whose maximal side changed loses `CPLimitedRW` and is tried again |
| `SelectClause`, `KeepContracted`, `DiscardContracted` | `ProcessClause` and `ForwardContractSet` up to the normal form, and after it |
| `ProcessNegative`, `ProcessWithIndex`, `StartSearch` | `ProcessClause` from backward rewriting on: nothing to do, with the index, without |
| `SearchClause`, `AnswerAtOnce`, `SearchArgument`, `ArgumentFound`, `SearchTop`, `EndSearch` | `find_rewritable_clauses`, `eqn_has_rw_side`, `term_is_rewritable`, `term_is_top_rewritable` |
| `Generate`, `InsertNewClause`, `NormalizeVictim`, `ClauseInserted` | `generate_new_clauses` (what is derived is given by the problem), `insert_new_clauses` |
| `Discard`, `ResetProcessed` | deletion of unprocessed clauses, the reset after presaturation (a bound: the clauses that inferences have not brought by then no longer come, though the code goes on generating) |
| `CollectGarbage`, `MarkTerms`, `Sweep` | `TBGCCollect` from the registered sets, `TBGCMarkTerm`, `TBGCSweep` |

Which of several demodulators an index offers first, and which clause comes next, is left open.

Terms are constants with assumptions: `TermAssumption` (a term is built from its arguments; its subterms are
the least set with it and closed under arguments), `OrderingAssumption` (irreflexive, transitive, a variable is
not bigger than anything, a term is bigger than its arguments and, when arguments get smaller, than what it
becomes: a simplification ordering, which KBO and LPO are), `MatchAssumption` (a matcher makes the
pattern the term; the ordering is stable under substitutions) and `ProblemAssumption` (levels and bounds).
TLC evaluates them on the instance.

### 6.2 Runs

`shared_terms` (about 458,000 states): the 120 terms up to weight 4 over a, b, c, f, g and two
variables, under KBO, and five families of problems, with `forward_demod` 0, 1 and 2, by search and by the
index. Rules with common subterms, one of them with a variable on its right; a rule that is under
restriction while a more general one, or a variant, comes; an equation without a direction; terms
three deep. `MaxGC` and `MaxDiscards` are 1: one collection between any two given clauses, one clause
that goes unprocessed. Deadlock checking is off, since a search ends. It checks

* `TypeOK`: with it, no date is in the future, and a link has its mark;
* `NothingDangles`: what a clause, a cell, a rewrite link or a call under way leads to has a cell, and
  after a sweep all cells have the mark that the next collection expects;
* `LinksDescend`: links go down in the ordering, so following them ends;
* `DatesAreTrue`: no demodulator that is not younger than the date of a cell rewrites its term,
  although sets shrink and grow between the readings;
* `Interreduced`: no processed clause can be rewritten by another one where backward rewriting looks,
  except at the top of the bigger side of a rule.

`deep_subterms` and `real_instance` are findings:

* `term_collect_idx_subterms` (`CLAUSES/ccl_subterm_index.c:79`) descends only one level:
  the index for backward rewriting holds sides of literals and their arguments. A processed
  clause with a new rule's left side further down stays. `Interreduced` asks, with the index,
  only for what it holds.
* `TPIsRRewritten` is documented as "rewritten ... with a real instance" but set by the
  restriction in force. A restricted rule can keep a left side that a more general rule
  rewrites because another clause has rewritten the same shared term first.

Both leave the processed set less reduced than intended and no result wrong.

### 6.3 What is proved

`SharedTermsProofs` proves all five invariants for every set of terms, every simplification ordering, all
problems and both kinds of backward rewriting, from the assumptions of 6.1:

| theorem | says |
|---|---|
| `CellsAreRight` | `Spec => []IInv`, the inductive invariant |
| `TypesCorrect` | `Spec => []TypeOK` |
| `CollectionIsSafe` | `Spec => []NothingDangles` |
| `LinksAlwaysDescend` | `Spec => []LinksDescend` |
| `DatesAlwaysTrue` | `Spec => []DatesAreTrue` |
| `ProcessedInterreduced` | `Spec => []Interreduced` |

None of the five is inductive, and they need each other. A date is written at the end of a recursion, so it is
true only if every frame on the stack says what has been established so far; this again rests on dates
read on the way. The parts of `IInv`:

* `GoodBank`: a cell has cells for its subterms; its link goes down in the ordering to a
  term that has a cell. `Grown` says what normalization and search may do to a bank: no cell goes, no link is
  taken back, dates of other cells stay. So frames further down in the stack stay right
  (`FrameKept`).
* `TrueDates`, `DatesUpTo`, `DemodDatesIn`: dates are true, not in the future, and a set is as young as its
  youngest clause. The last is what lets `rewrite_with_clause_set_list` skip a whole set. A new
  demodulator gets a date that no cell has yet (`SysDateInc` before the search), so no old date can claim anything about it; the mutant
  `OldDate` breaks this.
* `TrueSearchDates`: during a search, the terms dated with *its* date are not rewritten by the new
  demodulator. At its end the clause enters a set with just this date, and these become ordinary dates.
* `NormalInv`: a frame of `term_li_normalform` holds a term that is the one it was called with or smaller,
  arguments before `pos` in normal form for the level, and, once a round has changed nothing, a term
  that no demodulator of the level rewrites at the top, unless rewriting was restricted. The first part gives that a term
  that came back equal was never rewritten, although the code compares pointers only; so the loop may stop
  on `!modified`, and `CPLimitedRW` goes exactly when the side has changed.
  The exception for the restriction is why the code does not date a term then (mutant `DateAll`).
* `SearchInv`: a frame of `term_is_rewritable` has searched the arguments before `pos`; a
  processed clause that is neither to be searched nor found has nothing that the new demodulator rewrites
  outside restricted places. `AnswerAtOnce` is the delicate case: the answer comes from flags or
  dates that another clause left on the shared term.
* `Interreduced` itself joins both: the given clause is in normal form for the processed ones
  (`JobOK`, at level `FullRewrite`), the processed clauses that stay are clean of the given one.
* `MarkInv`: while marking, what a marked cell leads to is marked or on the work list, the classical
  invariant of a collector; at its end every root and all it reaches is marked, so the sweep leaves `GoodBank`.

TLC has checked `IInv` on the instance of `shared_terms`, family by family; the mutants of section 9 break it.
The proof has one lemma per action (`NormalizeArgumentStep`, `SearchTopStep`, `SweepStep`, ...), over
lemmas about terms (`SubtermInduction`, which stands in for induction over terms), cells (`LinkFacts`,
`FlagAndLinkFacts`), frames and returns (`FrameKept`, `ReturnNormalStep`, `ReturnSearchedStep`).

## 7. `TCPMessages` and `DeductionServer`

`TCPMessages` is one direction of a connection: `TCPMsgWrite` and `TCPMsgRead` transfer any
number of bytes per call up to the buffer, through a wire of bounded capacity, and
`DeductionServer` is a session: a client works through one workload and may leave at any time,
the session reads and executes commands, `RUN` forks a job, which starts a runner per axiom
filter on `MAX_CORES` cores through `popen()`, polls them with `select`, reads lines,
kills and waits. `mem` holds the axiom sets with their staged marks, the parallel stacks
(`clause_sets` stands for both), `f_distrib`, `shared_ax_sp`, the registered sets and the freed ones
(`freed`). What is registered for garbage collection is an address, and `SizeMalloc` may hand out a freed
block again: a new set may take the place of a freed one that is still registered (`ClauseSetAlloc`).

Run `deduction_server`: two names, one of them in the library; five commands on axiom sets, the
first of which adds or loads one, or a job with three filters on two cores over a staged set, after
another set was loaded, staged, unstaged and removed. Messages have one or three units, the header
two, the buffer two, the wire three, so every message is cut in every way. Five commands suffice
to add, stage, unstage, remove and add again. It checks

* `InSync`: what is read and counted is a prefix of what was sent, at every cut;
* `SpecIsConsistent`: `f_distrib` counts exactly the sets on the stack, each of them is registered and
  not freed, in the session and in the job, so that a collection keeps the terms of what is staged; a listed
  set is not freed, and it is on the stack once if it is staged and not at all otherwise; a job that is over has taken
  its own part back. It does *not* say that nothing else is registered, which the code breaks (see the
  observations);
* `RunnersAreControlled`: no more runners than cores, each is on the control set until it is
  waited for;
* `AnswersAreProofs`: a job sends a solution only when a runner has printed a proof and nothing it
  printed is still under way, and gives up only late. It is a property of the *steps* that send: runners and
  their output belong to the job at hand, answers outlive it when commands are pipelined;
* `ServerComesBack`: a command is followed by a reply and the next command, or the end of the session.

`f_distrib` grows as `GenDistribSizeAdjust` does (`CLAUSES/ccl_f_generality.c:324`), when
a set is first staged, and so has no bound of its own.

`DeductionServerProofs` proves all four safety properties. Two of them hold for every workload, every length of messages,
buffer and wire, every cut, and any number of filters and cores (`StreamInSync`,
`RunnersControlled`), from `SizesAssumption`, `BoundsAssumption` and `BlocksAssumption`: that the commands and
replies every session has are messages like any other. `InSync` compares the two ends; the invariant has to say what lies between:
the wire holds runs of consecutive bytes of messages, one message starting where another ends
(`WireInv`), its first byte is the one the receiver counts next, its last byte the one the sender counted last
(`FirstByteInv`, `LastByteInv`), and with an empty wire both counts agree (`EmptyWireInv`).
`RunnersAreControlled` needs that runners start in the order of the filters while there is room for one more,
that one no longer in the control set is dead, and that the list of what `select` found is
empty outside the loop over it (`RunnerInv`).

`AnswersProved` (`Spec => AnswersAreProofs`) needs of a job that reports what its handle has read, and that the
runner's pipe and buffer were found empty after its end, in every interleaving with the runners that are still
printing and with the clock.

`SpecConsistent` (`Spec => []SpecIsConsistent`) is about four lists that the commands edit one after the
other. `SpecInv` has what the code relies on without saying so. `StackInv`: no set is on the stack twice, and of
two sets of one name the younger lies above. `ListInv`: what is on the stack under the name of a listed set is
that set or an older one that was removed while staged. Without it, `unstage_command`, which searches the stack by
*name* from the top, could take down another set than the one it unmarks. `Counted`: the stack and `f_distrib` say the
same of every set, including those no longer listed. `Kept`: all of the stack is registered and none of it freed.
`FreedInv`: only sets that were allocated are freed, and none that is listed: with `ListInv` and
`StagedInv` this makes `REMOVE` free only what is no longer on the stack, and lets any freed block be given to the next set
(`AllocKeepsMem`, `FreeKeepsMem`). `JobMemInv`: a job works on a copy,
puts its problem on top and takes exactly this down again, at every exit.

`ServerComesBack` stays with TLC.

*Fairness*: session, job and the clock, and each runner's end: E has its own CPU limit.
None for the client, which may stay silent.

Run `remove_staged_set` is the finding: `remove_command` (`CONTROL/cco_einteractive_mode.c:455`)
returns from within its loop when the set is staged, and the sets it has popped are lost.

*Observations.* `TCPMsgRead` terminates its buffer at the length asked for, not the length read
(`INOUT/cio_network.c:346`), so bytes never received may be appended: in the model a text that came in
pieces may be garbled, and the session answers that the command is unknown, ignores the junk, or dies.
The counts survive it, which is what `InSync` shows.
A set may be freed while it is registered for garbage collection. `StructFOFSpecAddProblem` registers what `STAGE`
puts on the stack (`CONTROL/cco_batch_spec.c:599`) and, by its comment (584-586), makes `ctrl` responsible for
freeing it, but `unstage_command` takes the set off the stack without deregistering it
(`CONTROL/cco_einteractive_mode.c:563-598`), and `remove_command` frees it (460, 903-909; `ClauseSetFree`,
`CLAUSES/ccl_clausesets.c:379-397`). After `LOAD b`, `STAGE b`, `UNSTAGE b`, `REMOVE b` and `RUN` the job's
`StructFOFSpecBacktrackToSpec` ends in `TBGCCollect` (`cco_batch_spec.c:643`), which marks the terms of
every registered set (`CLAUSES/ccl_garbage_coll.c:70-84`), the freed one among them, unless its block belongs to a set allocated
since. The model has this state: in run `deduction_server` a job reaches `jpc = "free"` with
`jmem.gc_sets \cap jmem.freed` not empty. What the collection then does is undefined and is not modelled; no
property says that registered sets exist.
`TCPChannelWrite` (`INOUT/cio_multiplexer.c`) works on the input queue; no program calls it.
A time limit below zero in `BatchProcessProblems` leaves a handle uninitialised
(`CONTROL/cco_batch_spec.c:735`). `ECtrlCreateGeneric` ends the program with `Error()` when a runner's
first line is not its pid, and leaves the other runners alone. An empty rest of a message
counts as a closed connection (`INOUT/cio_network.c:342`).

*Not modelled*: `e_ltb_runner`'s loop over files, `cco_eserver.c`, `cco_esession.c`,
`cio_multiplexer.c`.

## 8. The algorithms

`MCAlgorithms` is one run, `algorithms`, over twelve parts that do not interact. Seven are pure:
a behaviour chooses two inputs, and an invariant compares what the code computes with a
definition. Five have a state of their own and all their operations as actions.

| part | module | inputs or actions | compared with |
|---|---|---|---|
| shares of cores and time | `CoreAllocation` | up to four strategies with fractions of 5, 33 and 40 percent, up to six cores | sum and positivity |
| orderings | `TermOrderings` | all pairs of 76 terms with two variables; a unary symbol of weight 0 | textbook KBO and LPO, both implementations of each |
| precedence | `Precedence` | `OCBPrecedenceAddTuple` with user constraints in any order, then a generated precedence | transitive closure of what was accepted |
| matching | `Unification` | patterns and terms of depth two, under earlier bindings | existence of a matcher; what a failure leaves |
| unification | `Unification` | pairs with common variables | solvedness; more general than every unifier over a set of values |
| subsumption | `Subsumption` | subsumers of two literals, clauses of two and four | multiset subsumption |
| units | `Subsumption` | positive and negative units against one literal, weak and strong | what follows by one unit, or by several |
| fingerprints | `FingerprintIndex` | insertion and deletion of subterms, for several fingerprint functions and the full trie | unification and matching with every entry; keys of the entries |
| discrimination trees | `PDTrees` | insertion, deletion, search with both orders and all dates | matching with every entry; exact bounds |
| feature vectors | `FVIndexing` | insertion and deletion, for all kinds of vectors and permutations, symbols that come later | scan of the clauses |
| formulas | `Clausification` | quantified formulas with all connectives, shadowed variables, pairs of formulas that share a subformula | equisatisfiability: every interpretation of the formulas' symbols extends to one of the clauses iff the formulas hold |
| selection | `ClauseSelection` | clauses that come, become orphans, are selected, evaluated again, deleted | turns between which the oldest clause is passed over |

*Bounds.* Two variables and depth two are what it takes for a variable balance that changes sign,
an argument that decides after an equal one, an occurs check through a binding. Interpretations
of formulas have two elements. Four entries in a discrimination tree share paths and
variables. The bounds of the selection part are its constants: clauses, ranks, evaluations anew.
`ClauseSelection` assumes what E's heuristics have, a last function that evaluates by age
(`FIFOWeight` with constant priority); with other priorities nothing bounds the wait.

### 8.1 What is proved

`CoreAllocationProofs`: `SharesFitAlways` and `TimesFitAlways` for schedules of any length, any number of
cores and seconds, and every outcome of the floating point operations (`noisy`: which products are
rounded up once too often). The shares are rounded up, cut off at the number of cores, and
corrected from the last to the first so that they add up; the heart of the proof is that the
correction may take all but one core from each, that there are no more strategies than cores, and
that the rest of the error is therefore zero at the first. Sums are defined by recursive functions over subsets; the library's
induction theorems cannot be instantiated here, so the lemmas about them (`SumOf`: of a set with an
element more, of a function with one value changed, of a smaller function) argue from a least
counterexample, which well-foundedness of `<` and of strict inclusion provides.

`ClauseSelectionProofs`: `OldestIsServed` (`SelectionSpec => []OldestComesSoon`) for all heuristics with the last
function by age, any number of clauses and reweightings. `SelectionInv`: the ends of the turns increase and the
count is below the end of the current one (`TurnsInv`, which `HCBClauseSetDelProp` and the selection must both restore);
the list is in the order of ids *and* of ages, also after clauses in the middle were dropped and all
were evaluated anew (`ListInv`); and the oldest clause has not waited longer than the count says (`WaitInv`).
`OldestComesSoon` alone is not inductive: it does not say that the function whose turn comes next by age finds the oldest first.

### 8.2 Fairness and observations

*Fairness*: none; the five stateful parts are checked for safety, `OldestComesSoon` is
a bound and not a liveness property.

Observations, all harmless or outside these modules:

* `OCBPrecedenceAddTuple` (`ORDERINGS/cto_ocb.c:411`) returns a stack pointer for success, so
  what is known already is refused while the stack is empty; on a contradiction only the last entry
  is taken back, and generated precedences ignore the failure. The relation stays a quasi-ordering.
* `kbolincmp` returns "equal" for symbols of equal weight that a partial precedence does not
  compare. `OCBFindMinConst` is commented to find a minimal constant and finds a maximal one.
* `eqn_topsubsumes_termpair` (`CLAUSES/ccl_subsumption.c:169`) tries the other direction of a unit
  only if its left side does not match; `UnitSubsumptionIsRight` states this exception.
  `LiteralSubsumesClause` holds of every literal with equal sides; such literals are removed before.
* The count of a discrimination tree's root only grows; nothing reads it. `PDTreeFindNextIndexedLeaf` also stops
  at a leaf it has just entered, before it compares that node's bounds (`CLAUSES/ccl_pdtrees.c:1474`); `PDTrees`
  leaves this branch out. With it a search finds further, older entries, all of them matching, so both inclusions
  of `PDTAlwaysFinds` hold of the code as well.
* `BillPlusFeaturesCollectAlloc` uses places of the positive depth of predicates, which is
  always 0, where its comment means negative occurrences; the index is less selective. The permutation for the index of
  definitions is the one of the clause index (`CONTROL/cco_proofproc.c:1407`); its places may exceed the vector.
* `tform_find_miniscopeable` (`CLAUSES/ccl_tcnf.c:822`) returns `LONG_MAX` for formulas without
  variables and adds to it. `tformula_rename_test` compares a position with 2, so `subform_sign` is always
  false: a heuristic. `tform_copy_mod` does not enter quantified formulas.
* `HCBClauseSetDelProp` (`HEURISTICS/che_hcb.c:989`) bounds its inner loop by the entry of
  the inner index: every function gets as many turns as there are functions.

*Not modelled*: the comparison cache, `LPORecursionDepthLimit`, higher-order terms, sorts, FOOL
preprocessing, watchlists.

## 9. Mutants

Every property of a passing run has a mutant of the code in the module, written next to the
definition it replaces: for example children that keep working after their parent was told to stop
(`StartWork`), a pipe whose write end the parent keeps (`NeverEof`), deletions that forget
`state_is_complete` (`NeverIncomplete`), a garbage collection that follows arguments but no
rewrite links (`ArgsOnly`), a read that counts what was asked for (`CountRequested`), a
variable that stays in the count of missing ones (`IncPositive`), an invalid date that an
insertion makes valid (`OnTheWayDated`), definitions with the polarity of one occurrence
(`DecodeNegative`). Each makes TLC find the property violated.

## 10. What is left out, and why

`PROJECT.json` lists every component. Much of E's volume is of three kinds that a model adds nothing
to: tables (`HEURISTICS/` is about strategies and weight functions, whose results the models leave
open), text (parsers, printers, derivation output in `PCL2/`, `INOUT/`), and other programs (the
SAT solver in `CONTRIB/`, learning tools). The higher-order part
(`TERMS/cte_lambda.c`, `cte_ho_csu.c`, `CONTROL/cco_ho_inferences.c`) doubles most algorithms;
all models are first-order. Within reach and open are splitting, blocked clause elimination, SinE
and the proof checker.
