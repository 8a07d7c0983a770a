--------------------- MODULE StrategySchedulerCoreProofs ---------------------
(***************************************************************************)
(* Proof that the processes at work never need more cores than E was       *)
(* given, for all calls of E and any number of signals.                    *)
(*                                                                         *)
(* What a scheduler reserves is at most what it has, as it starts a child  *)
(* only if the rest is enough.  A process at work is on the books of its   *)
(* parent, and a prover's parent on those of the root: a child that has    *)
(* been reaped has nothing at work below it.                               *)
(***************************************************************************)
EXTENDS StrategySchedulerTreeProofs, CoreAllocationProofs

Weight == [c \in Pids |-> CoresOf(c)]

MachineHasCores ==
    /\ machine.max_cores \in Nat
    /\ \A i \in 1..Len(machine.pre) : machine.pre[i] \in Nat /\ machine.pre[i] >= 1

CoresInv ==
    /\ MachineHasCores
    /\ \A p \in Schedulers : /\ IsFiniteSet(procs[p])
                             /\ procs[p] # {} => SumOf(Weight, procs[p]) <= CoresOf(p)
    /\ \A s \in Children : pc[s] = "reaped" => BelowIsOver(s)

----------------------------------------------------------------------------
(* What is reserved is a sum. *)

LEMMA ReservedIsSum ==
    ASSUME NEW p \in Pids, procs[p] \subseteq Pids, IsFiniteSet(procs[p])
    PROVE  Reserved(p) = SumOf(Weight, procs[p])
<1> DEFINE U == procs[p]
           R(f) == f = [S \in SUBSET U |-> IF S = {} THEN 0 ELSE CoresOf(Some(S)) + f[S \ {Some(S)}]]
           g == CHOOSE f : R(f)
<1>1. Reserved(p) = g[U]
  BY Zenon DEF Reserved, MapThenSumSet, MapThenFoldSet, Some
<1>2. \A S \in SUBSET U : S # {} => Weight[Some(S)] = CoresOf(Some(S))
  BY SomeIsIn DEF Weight
<1> HIDE DEF U
<1>3. ASSUME NEW f PROVE R(f) <=> IsSum(f, Weight, U)
  <2>1. \A S \in SUBSET U : (IF S = {} THEN 0 ELSE CoresOf(Some(S)) + f[S \ {Some(S)}])
                          = (IF S = {} THEN 0 ELSE Weight[Some(S)] + f[S \ {Some(S)}])
    BY <1>2
  <2> QED
    BY <2>1 DEF IsSum
<1>4. IsSum(g, Weight, U)
  <2>1. \E f : IsSum(f, Weight, U)
    BY SumExists DEF U
  <2> HIDE DEF R
  <2> QED
    BY <1>3, <2>1
<1> HIDE DEF g
<1>5. g[U] = SumOf(Weight, U)
  <2>1. IsFiniteSet(U) /\ U \in SUBSET U
    BY DEF U
  <2> QED
    BY <1>4, <2>1, SumFromAny
<1> QED
  BY <1>1, <1>5 DEF U

(* Every process that has been forked has cores: its number is in the      *)
(* schedule of its parent.                                                 *)
LEMMA ForkedHasCores ==
    ASSUME SchedulerInv, MachineHasCores, NEW c \in Pids \ {Root}, pc[c] # "free"
    PROVE  CoresOf(c) \in Nat /\ CoresOf(c) >= 1 /\ (c \in Provers => CoresOf(c) = 1)
<1>1. CASE c \in Provers
  BY <1>1 DEF CoresOf
<1>2. CASE c \notin Provers
  <2>1. c \in Children
    BY <1>2, ParentName
  <2>2. PICK i \in PreIndices : c = <<i>>
    BY <2>1 DEF Children, Schedulers
  <2>3. i \in Nat /\ i >= 1 /\ Append(Root, i) = c
    BY <2>2, Indices DEF Root
  <2>4. next[Root] \in Nat /\ next[Root] <= Len(machine.pre) + 1 /\ Len(machine.pre) \in Nat
    BY ParentName DEF SchedulerInv, TypeInv, MachineInv, LastStrategy
  <2>5. ~(i >= next[Root])
    BY <2>3, ParentName DEF SchedulerInv, BooksInv
  <2>6. i \in 1..Len(machine.pre)
    BY <2>3, <2>4, <2>5
  <2>7. CoresOf(c) = machine.pre[i]
    <3>1. Last(c) = i
      BY <2>2 DEF Last
    <3> QED
      BY <1>2, <3>1 DEF CoresOf
  <2> QED
    BY <1>2, <2>6, <2>7 DEF MachineHasCores
<1> QED
  BY <1>1, <1>2

ForkedHaveCores ==
    \A d \in Pids \ {Root} : pc[d] # "free" => CoresOf(d) \in Nat /\ CoresOf(d) >= 1

LEMMA ForkedCores == SchedulerInv /\ MachineHasCores => ForkedHaveCores
BY ForkedHasCores DEF ForkedHaveCores

LEMMA ChildHasCores ==
    ASSUME SchedulerInv, MachineHasCores, NEW p \in Schedulers, NEW c \in procs[p]
    PROVE  /\ c \in Pids /\ Weight[c] = CoresOf(c) /\ CoresOf(c) \in Nat /\ CoresOf(c) >= 1
           /\ p = Root => c \in Children
           /\ p # Root => c \in Provers /\ CoresOf(c) = 1
<1>1. c \in Pids \ {Root} /\ Front(c) = p /\ pc[c] # "free" /\ Weight[c] = CoresOf(c)
  BY TypesOf, ParentName DEF SchedulerInv, BooksInv, Weight
<1>2. CoresOf(c) \in Nat /\ CoresOf(c) >= 1 /\ (c \in Provers => CoresOf(c) = 1)
  BY <1>1, ForkedHasCores
<1>3. c \in Provers <=> p # Root
  BY <1>1, ParentName DEF Children
<1> QED
  BY <1>1, <1>2, <1>3, ParentName

LEMMA CoresInit == Init => CoresInv
<1> SUFFICES ASSUME Init PROVE CoresInv
  OBVIOUS
<1>1. MachineHasCores
  <2>1. PICK m \in Machines :
          machine = [max_cores |-> IF m.serialize THEN 1 ELSE m.num_cpus,
                     pre |-> PreprocessingCores(m.fractions, m.num_cpus, {}, m.serialize),
                     search |-> m.search, default |-> m.default]
    BY DEF Init
  <2>2. m.fractions \in Seq(1..100) /\ m.num_cpus \in Nat \ {0} /\ m.serialize \in BOOLEAN
    BY MachinesAssumption
  <2>3. /\ machine.pre = PreprocessingCores(m.fractions, m.num_cpus, {}, m.serialize)
        /\ machine.max_cores = IF m.serialize THEN 1 ELSE m.num_cpus
    BY <2>1
  <2>4. \A i \in 1..Len(machine.pre) : machine.pre[i] \in Nat /\ machine.pre[i] >= 1
    BY <2>2, <2>3, CoresGiven
  <2> QED
    BY <2>2, <2>3, <2>4 DEF MachineHasCores
<1>2. ASSUME NEW p \in Schedulers
      PROVE  IsFiniteSet(procs[p]) /\ procs[p] = {}
  <2>1. procs[p] = {} /\ IsFiniteSet({})
    BY ParentName, FS_EmptySet DEF Init
  <2> QED
    BY <2>1
<1>3. \A s \in Children : pc[s] # "reaped"
  BY ParentName DEF Init, Children
<1> QED
  BY <1>1, <1>2, <1>3 DEF CoresInv

----------------------------------------------------------------------------
(* The steps *)

LEMMA CoresKept ==
    ASSUME CoresInv, TreeInv, UNCHANGED machine,
           \A q \in Pids : procs'[q] \subseteq procs[q],
           \A c \in Provers : Over(c) => Over(c)',
           \A s \in Children : pc'[s] = "reaped" => pc[s] = "reaped" \/ BelowIsOver(s)'
    PROVE  CoresInv'
<1>1. /\ MachineHasCores /\ MachineHasCores' /\ Weight' = Weight
      /\ \A p : CoresOf(p)' = CoresOf(p)
  BY DEF CoresInv, MachineHasCores, Weight, CoresOf
<1>2. ASSUME NEW p \in Schedulers
      PROVE  IsFiniteSet(procs'[p]) /\ (procs'[p] # {} => SumOf(Weight, procs'[p]) <= CoresOf(p))
  <2>1. /\ IsFiniteSet(procs[p]) /\ (procs[p] # {} => SumOf(Weight, procs[p]) <= CoresOf(p))
        /\ procs'[p] \subseteq procs[p]
    <3>1. p \in Pids
      BY ParentName
    <3>2. IsFiniteSet(procs[p]) /\ (procs[p] # {} => SumOf(Weight, procs[p]) <= CoresOf(p))
      BY DEF CoresInv
    <3> QED
      BY <3>1, <3>2
  <2>2. IsFiniteSet(procs'[p])
    BY <2>1, FS_Subset
  <2>3. ASSUME procs'[p] # {}
        PROVE  SumOf(Weight, procs'[p]) <= CoresOf(p)
    <3>1. procs[p] # {} /\ p \in Pids
      BY <2>1, <2>3, ParentName
    <3>2. \A c \in procs[p] : Weight[c] \in Nat
      BY <1>1, ChildHasCores DEF TreeInv
    <3>3. SumOf(Weight, procs'[p]) <= SumOf(Weight, procs[p])
      BY <2>1, <3>2, SumOfPart
    <3>4. SumOf(Weight, procs'[p]) \in Int /\ SumOf(Weight, procs[p]) \in Int
      <4>1. (\A c \in procs[p] : Weight[c] \in Int) /\ (\A c \in procs'[p] : Weight[c] \in Int)
        BY <2>1, <3>2
      <4> QED
        BY <2>1, <2>2, <4>1, SumIsInt
    <3>5. CoresOf(p) \in Int
      <4>1. CASE p = Root
        BY <1>1, <4>1 DEF CoresOf, MachineHasCores
      <4>2. CASE p # Root
        <5>1. pc[p] # "free"
          BY <3>1, TreeTypes DEF Alone
        <5> QED
          BY <1>1, <3>1, <4>2, <5>1, ForkedHasCores DEF TreeInv
      <4> QED
        BY <4>1, <4>2
    <3> QED
      BY <2>1, <3>1, <3>3, <3>4, <3>5
  <2> QED
    BY <2>2, <2>3
<1>3. ASSUME NEW s \in Children, pc'[s] = "reaped"
      PROVE  BelowIsOver(s)'
  BY <1>3 DEF CoresInv, BelowIsOver
<1> QED
  BY <1>1, <1>2, <1>3 DEF CoresInv

(* Steps in which one process goes on, and ends if it has been told to     *)
(* before its work began.                                                  *)
LEMMA CoresOfMoves ==
    ASSUME CoresInv, TreeInv, UNCHANGED machine, NEW p \in Pids,
           \/ p \in Schedulers /\ \/ InstallHandler(p) \/ TestLoop(p) \/ ScheduleDone(p)
                                  \/ CheckSigTerm(p) \/ ExitScheduler(p) \/ Select(p)
           \/ BecomeChild(p) \/ Preprocess(p) \/ FindProof(p) \/ Fail(p) \/ WriteChunk(p) \/ Written(p)
    PROVE  CoresInv'
<1> USE TreeTypes
<1>1. /\ \E l \in Places \ {"reaped"} : /\ pc' = [pc EXCEPT ![p] = l]
                                        /\ pc[p] = "forked" /\ caught[p] => l = "dead"
      /\ pc[p] \notin Gone \cup {"free"} /\ UNCHANGED <<procs, caught>>
  <2>1. CASE WriteChunk(p)
    <3>1. /\ pc[p] = "print" /\ UNCHANGED <<procs, caught>>
          /\ pc' = pc \/ pc' = [pc EXCEPT ![p] = "dead"]
      BY <2>1 DEF WriteChunk, Exit, Goto, signals
    <3>2. [pc EXCEPT ![p] = "print"] = pc
      BY <3>1
    <3>3. {"print", "dead"} \subseteq Places \ {"reaped"}
      BY DEF Places, Gone
    <3> QED
      BY <3>1, <3>2, <3>3 DEF Gone
  <2>2. CASE BecomeChild(p)
    <3>1. /\ pc[p] = "forked" /\ UNCHANGED <<procs, caught>>
          /\ \/ pc' = [pc EXCEPT ![p] = "dead"]
             \/ ~caught[p] /\ (pc' = [pc EXCEPT ![p] = "prep"] \/ pc' = [pc EXCEPT ![p] = "search"])
      BY <2>2 DEF BecomeChild, Exit, Goto
    <3>2. {"dead", "prep", "search"} \subseteq Places \ {"reaped"}
      BY DEF Places, Early, Gone
    <3> QED
      BY <3>1, <3>2 DEF Gone
  <2>3. CASE ~WriteChunk(p) /\ ~BecomeChild(p)
    <3>1. /\ pc[p] \in {"enter", "test", "exhausted", "read", "free_set", "start", "prep", "search", "print"}
          /\ UNCHANGED <<procs, caught>>
          /\ \E l \in {"start", "exhausted", "dead", "enter", "free_set", "test", "read", "print"} :
                pc' = [pc EXCEPT ![p] = l]
      BY <2>3 DEF InstallHandler, TestLoop, ScheduleDone, CheckSigTerm, ExitScheduler, Select,
                  Preprocess, FindProof, Fail, Written, Exit, Goto, signals
    <3>2. {"start", "exhausted", "dead", "enter", "free_set", "test", "read", "print"}
             \subseteq Places \ {"reaped"}
      BY DEF Places, Early, Leaving, Gone
    <3> QED
      BY <3>1, <3>2 DEF Gone
  <2> QED
    BY <2>1, <2>2, <2>3
<1>2. \A q \in Pids : procs'[q] \subseteq procs[q]
  BY <1>1
<1>3. \A c \in Provers : Over(c) => Over(c)'
  BY <1>1, ParentName DEF Over, Gone
<1>4. \A s \in Children : pc'[s] = "reaped" => pc[s] = "reaped"
  BY <1>1, ParentName
<1> QED
  BY <1>2, <1>3, <1>4, CoresKept

LEMMA CoresOfReaped ==
    ASSUME CoresInv, TreeInv, TreeInv', UNCHANGED machine, NEW p \in Schedulers, NEW c \in todo[p],
           ReadOutput(p, c) \/ GetResult(p, c) \/ WaitPid(p, c)
    PROVE  CoresInv'
<1> USE TreeTypes, ParentName
<1>0. c \in Pids \ {Root} /\ p \in Pids
  BY ParentOf DEF TreeInv
<1>1. CASE ReadOutput(p, c)
  <2>1. UNCHANGED <<pc, procs, caught>>
    BY <1>1 DEF ReadOutput, signals
  <2> QED
    BY <2>1, CoresKept DEF Over
<1>2. CASE GetResult(p, c) \/ WaitPid(p, c)
  <2>1. /\ pc[p] \in {"read", "waitpid"} /\ UNCHANGED caught
        /\ \A q \in Pids : procs'[q] \subseteq procs[q]
    BY <1>2 DEF GetResult, WaitPid, signals
  <2>2. \E l \in {"read", "print", "free_set"} :
          \A q \in Pids \ {c} : pc'[q] = IF q = p THEN l ELSE pc[q]
    <3>1. CASE GetResult(p, c) /\ IsResult(c)
      <4>1. pc' = [pc EXCEPT ![c] = "reaped", ![p] = "print"]
        BY <3>1 DEF GetResult
      <4> QED
        BY <1>0, <4>1
    <3>2. CASE GetResult(p, c) /\ ~IsResult(c)
      <4>1. pc[p] = "read" /\ pc' = [pc EXCEPT ![c] = "reaped"]
        BY <3>2 DEF GetResult, Goto
      <4> QED
        BY <1>0, <4>1
    <3>3. CASE WaitPid(p, c)
      <4>1. pc' = [pc EXCEPT ![c] = "reaped", ![p] = "free_set"]
        BY <3>3 DEF WaitPid
      <4> QED
        BY <1>0, <4>1
    <3> QED
      BY <1>2, <3>1, <3>2, <3>3
  <2>3. pc'[c] = "reaped" \/ c = p
    BY <1>0, <1>2 DEF GetResult, WaitPid, Goto
  <2>4. \A d \in Provers : Over(d) => Over(d)'
    <3> SUFFICES ASSUME NEW d \in Provers, Over(d) PROVE Over(d)'
      OBVIOUS
    <3>1. d # p
      OBVIOUS
    <3>2. CASE d = c
      BY <2>3, <3>1, <3>2 DEF Over, Gone
    <3>3. CASE d # c
      BY <2>1, <2>2, <3>1, <3>3 DEF Over, Gone
    <3> QED
      BY <3>2, <3>3
  <2>5. ASSUME NEW s \in Children, pc'[s] = "reaped", pc[s] # "reaped"
        PROVE  BelowIsOver(s)'
    <3>1. s = c
      BY <2>2, <2>5
    <3>2. p = Root
      BY <1>0, <3>1 DEF TreeInv, SchedulerInv, BooksInv
    <3>3. pc'[Root] \notin Gone
      BY <1>0, <2>2, <3>2 DEF Gone
    <3> QED
      BY <2>5, <3>3 DEF TreeInv, OverInv, Gone
  <2> QED
    BY <2>1, <2>4, <2>5, CoresKept
<1> QED
  BY <1>1, <1>2

LEMMA CoresOfCleanup ==
    ASSUME CoresInv, TreeInv, UNCHANGED machine, NEW p \in Schedulers, NEW c \in procs[p], Cleanup(p, c)
    PROVE  CoresInv'
<1>1. CASE pc[c] = "reaped"
  <2>1. procs' = [procs EXCEPT ![p] = @ \ {c}] /\ UNCHANGED <<pc, caught>>
    BY <1>1 DEF Cleanup, signals
  <2>2. \A q \in Pids : procs'[q] \subseteq procs[q]
    BY <2>1, TreeTypes
  <2> QED
    BY <2>1, <2>2, CoresKept DEF Over
<1>2. CASE pc[c] # "reaped"
  <2>1. \A q \in Pids : /\ pc'[q] = pc[q] \/ pc'[q] = "dead" \/ (q = p /\ pc'[q] = "waitpid")
                        /\ caught[q] => caught'[q]
    BY <1>2, CleanupSignals
  <2>2. procs' = procs
    BY <1>2 DEF Cleanup
  <2>3. \A d \in Provers : Over(d) => Over(d)'
    BY <2>1, ParentName DEF Over, Gone
  <2>4. \A s \in Children : pc'[s] = "reaped" => pc[s] = "reaped"
    BY <2>1, ParentName
  <2> QED
    BY <2>2, <2>3, <2>4, CoresKept
<1> QED
  BY <1>1, <1>2

LEMMA CoresOfTerminate ==
    ASSUME CoresInv, TreeInv, UNCHANGED machine, Terminate
    PROVE  CoresInv'
<1>1. PICK S : Deliver(S, pc)
  BY DEF Terminate
<1>2. \A q \in Pids : pc'[q] = pc[q] \/ pc'[q] = "dead"
  BY <1>1, SignalInPlace, TreeTypes
<1>3. \A q \in Pids : caught[q] => caught'[q]
  BY <1>1 DEF Deliver
<1>4. procs' = procs
  BY DEF Terminate
<1>5. \A d \in Provers : Over(d) => Over(d)'
  BY <1>2, <1>3, ParentName DEF Over, Gone
<1>6. \A s \in Children : pc'[s] = "reaped" => pc[s] = "reaped"
  BY <1>2, ParentName
<1> QED
  BY <1>4, <1>5, <1>6, CoresKept

(* A child is forked only if its parent has the cores left for it. *)
LEMMA CoresOfCreate ==
    ASSUME CoresInv, TreeInv, TreeInv', UNCHANGED machine, NEW p \in Schedulers, EGPCtrlCreate(p)
    PROVE  CoresInv'
<1>1. /\ MachineHasCores /\ MachineHasCores' /\ Weight' = Weight
      /\ \A q : CoresOf(q)' = CoresOf(q)
  BY DEF CoresInv, MachineHasCores, Weight, CoresOf
<1>2. SchedulerInv /\ SchedulerInv'
  BY DEF TreeInv
<1>3. PICK c \in Pids \ {Root} :
        /\ Front(c) = p /\ p # c /\ pc[p] = "start" /\ pc[c] = "free" /\ c = Append(p, next[p])
        /\ pc' = [pc EXCEPT ![c] = "forked"]
        /\ procs' = [procs EXCEPT ![p] = @ \cup {c}]
        /\ caught'  = [caught EXCEPT ![c] = caught[p]]
  BY <1>2, NewChild
<1>4. p \in Pids /\ procs'[p] = procs[p] \cup {c} /\ \A q \in Pids \ {p} : procs'[q] = procs[q]
  BY <1>3, ParentName, TreeTypes
<1>5. c \notin procs[p] /\ procs[p] \subseteq Pids
  BY <1>2, <1>3, <1>4, TreeTypes DEF SchedulerInv, BooksInv
<1>6. CoresOf(c) \in Nat /\ CoresOf(c) >= 1 /\ Weight[c] = CoresOf(c)
  <2>1. pc'[c] # "free"
    BY <1>3, TreeTypes
  <2>2. SchedulerInv' /\ MachineHasCores' => CoresOf(c)' \in Nat /\ CoresOf(c)' >= 1
    <3>1. SchedulerInv' /\ MachineHasCores' => ForkedHaveCores'
      BY ForkedCores, PTL
    <3> QED
      BY <1>3, <2>1, <3>1 DEF ForkedHaveCores
  <2> QED
    BY <1>1, <1>2, <2>2 DEF Weight
<1>7. CoresOf(p) \in Int
  <2>1. CASE p = Root
    BY <1>1, <2>1 DEF CoresOf, MachineHasCores
  <2>2. CASE p # Root
    BY <1>1, <1>2, <1>3, <1>4, <2>2, ForkedHasCores
  <2> QED
    BY <2>1, <2>2
<1>8. IsFiniteSet(procs[p]) /\ SumOf(Weight, procs[p]) \in Int
  <2>1. IsFiniteSet(procs[p])
    BY DEF CoresInv
  <2>2. \A d \in procs[p] : Weight[d] \in Int
    BY <1>1, <1>2, ChildHasCores
  <2> QED
    BY <2>1, <2>2, SumIsInt
<1>9. IsFiniteSet(procs'[p]) /\ SumOf(Weight, procs'[p]) = SumOf(Weight, procs[p]) + CoresOf(c)
  <2>1. \A d \in procs[p] \cup {c} : Weight[d] \in Int
    BY <1>1, <1>2, <1>6, ChildHasCores
  <2>2. SumOf(Weight, procs[p] \cup {c}) = SumOf(Weight, procs[p]) + Weight[c]
    BY <1>5, <1>8, <2>1, SumWith
  <2>3. IsFiniteSet(procs[p] \cup {c})
    BY <1>8, FS_AddElement
  <2> QED
    BY <1>4, <1>6, <2>2, <2>3
<1>10. SumOf(Weight, procs'[p]) <= CoresOf(p)
  <2>1. CoresOf(p) - Reserved(p) >= CoresOf(c)
    BY <1>3 DEF EGPCtrlCreate, CanStart
  <2>2. Reserved(p) = SumOf(Weight, procs[p])
    BY <1>4, <1>5, <1>8, ReservedIsSum
  <2> QED
    BY <1>6, <1>7, <1>8, <1>9, <2>1, <2>2
<1>11. ASSUME NEW q \in Schedulers
       PROVE  IsFiniteSet(procs'[q]) /\ (procs'[q] # {} => SumOf(Weight, procs'[q]) <= CoresOf(q))
  <2>1. CASE q = p
    BY <1>9, <1>10, <2>1
  <2>2. CASE q # p
    <3>1. procs'[q] = procs[q]
      BY <1>4, <2>2, ParentName
    <3> QED
      BY <3>1 DEF CoresInv
  <2> QED
    BY <2>1, <2>2
<1>12. ASSUME NEW s \in Children, pc'[s] = "reaped"
       PROVE  BelowIsOver(s)'
  <2>1. s # p /\ pc[s] = "reaped"
    BY <1>3, <1>12, TreeTypes, ParentName
  <2>2. BelowIsOver(s)
    BY <2>1 DEF CoresInv
  <2>3. \A d \in Provers : Front(d) = s => d # c /\ pc'[d] = pc[d] /\ caught'[d] = caught[d]
    BY <1>3, <2>1, TreeTypes, ParentName
  <2> QED
    BY <2>2, <2>3 DEF BelowIsOver, Over
<1> QED
  BY <1>1, <1>11, <1>12 DEF CoresInv

LEMMA CoresStep == CoresInv /\ TreeInv /\ [Next]_vars => CoresInv'
<1> SUFFICES ASSUME CoresInv, TreeInv, [Next]_vars PROVE CoresInv'
  OBVIOUS
<1>0. TreeInv' /\ UNCHANGED machine
  BY TreeStep DEF Next, vars
<1>1. CASE UNCHANGED vars
  <2>1. UNCHANGED <<pc, procs, caught>>
    BY <1>1 DEF vars
  <2> QED
    BY <1>0, <2>1, CoresKept DEF Over
<1>2. ASSUME NEW p \in Schedulers, Scheduler(p)
      PROVE  CoresInv'
  <2>0. p \in Pids
    BY ParentName
  <2>1. CASE \/ InstallHandler(p) \/ TestLoop(p) \/ ScheduleDone(p) \/ CheckSigTerm(p)
             \/ ExitScheduler(p) \/ Select(p)
    BY <1>0, <2>0, <2>1, CoresOfMoves
  <2>2. CASE EGPCtrlCreate(p)
    BY <1>0, <2>2, CoresOfCreate
  <2>3. ASSUME NEW c \in todo[p], ReadOutput(p, c) \/ GetResult(p, c) \/ WaitPid(p, c)
        PROVE  CoresInv'
    BY <1>0, <2>3, CoresOfReaped
  <2>4. ASSUME NEW c \in procs[p], Cleanup(p, c)
        PROVE  CoresInv'
    BY <1>0, <2>4, CoresOfCleanup
  <2> QED
    BY <1>2, <2>1, <2>2, <2>3, <2>4 DEF Scheduler
<1>3. ASSUME NEW p \in Pids,
             \/ BecomeChild(p) \/ Preprocess(p) \/ FindProof(p) \/ Fail(p)
             \/ WriteChunk(p) \/ Written(p)
      PROVE  CoresInv'
  BY <1>0, <1>3, CoresOfMoves
<1>4. CASE Next
  <2>1. CASE Terminate
    BY <1>0, <2>1, CoresOfTerminate
  <2>2. CASE Done
    BY <1>1, <2>2 DEF Done
  <2> QED
    BY <1>2, <1>3, <1>4, <2>1, <2>2 DEF Next, Process
<1> QED
  BY <1>1, <1>4

LEMMA CoresInvHolds == Spec => [](CoresInv /\ TreeInv)
BY CoresInit, CoresStep, TreeInit, TreeStep, PTL DEF Spec

----------------------------------------------------------------------------
(* What is at work *)

AtWork == {p \in Pids : Busy(p)}

LEMMA SumOfOnes ==
    ASSUME NEW S, IsFiniteSet(S), NEW w, \A x \in S : w[x] = 1
    PROVE  SumOf(w, S) = Cardinality(S)
<1> DEFINE Bad == {R \in SUBSET S : SumOf(w, R) # Cardinality(R)}
<1> SUFFICES ASSUME Bad # {} PROVE FALSE
  OBVIOUS
<1>1. PICK R \in Bad : \A Q \in Bad : Q \subseteq R => Q = R
  <2>1. Bad \subseteq SUBSET S /\ Bad # {}
    OBVIOUS
  <2> HIDE DEF Bad
  <2> QED
    BY <2>1, SmallestSubset
<1>2. R # {}
  BY SumOfNothing, FS_EmptySet
<1> DEFINE x == Some(R)
           Q == R \ {x}
<1>3. x \in R /\ w[x] = 1
  BY <1>2, SomeIsIn
<1>4. IsFiniteSet(R) /\ IsFiniteSet(Q)
  BY FS_Subset
<1> HIDE DEF x
<1>5. SumOf(w, R) = SumOf(w, Q) + w[x]
  <2>1. \A y \in R : w[y] \in Int
    OBVIOUS
  <2> QED
    BY <1>3, <1>4, <2>1, SumWithout
<1>6. SumOf(w, Q) = Cardinality(Q)
  BY <1>1, <1>3
<1>7. Cardinality(Q) = Cardinality(R) - 1 /\ Cardinality(R) \in Nat /\ Cardinality(Q) \in Nat
  BY <1>3, <1>4, FS_RemoveElement, FS_CardinalityType
<1>8. Cardinality(R) = SumOf(w, R)
  BY <1>3, <1>5, <1>6, <1>7
<1> QED
  BY <1>8

(* Everything that is at work needs one core. *)
LEMMA WorkIsCounted ==
    ASSUME IsFiniteSet(AtWork)
    PROVE  MapThenSumSet(LAMBDA p : IF p \in Provers THEN CoresOf(p) ELSE 1, AtWork)
           = Cardinality(AtWork)
<1> DEFINE U == AtWork
           ones == [p \in U |-> 1]
           R(f) == f = [S \in SUBSET U |-> IF S = {} THEN 0
                          ELSE (IF Some(S) \in Provers THEN CoresOf(Some(S)) ELSE 1) + f[S \ {Some(S)}]]
           g == CHOOSE f : R(f)
<1>1. MapThenSumSet(LAMBDA p : IF p \in Provers THEN CoresOf(p) ELSE 1, AtWork) = g[U]
  BY Zenon DEF MapThenSumSet, MapThenFoldSet, Some
<1>2. \A S \in SUBSET U : S # {} =>
         ones[Some(S)] = IF Some(S) \in Provers THEN CoresOf(Some(S)) ELSE 1
  BY SomeIsIn, ParentName DEF CoresOf
<1> HIDE DEF U, ones
<1>3. ASSUME NEW f PROVE R(f) <=> IsSum(f, ones, U)
  <2>1. \A S \in SUBSET U :
           (IF S = {} THEN 0
            ELSE (IF Some(S) \in Provers THEN CoresOf(Some(S)) ELSE 1) + f[S \ {Some(S)}])
         = (IF S = {} THEN 0 ELSE ones[Some(S)] + f[S \ {Some(S)}])
    BY <1>2
  <2> QED
    BY <2>1 DEF IsSum
<1>4. IsSum(g, ones, U)
  <2>1. \E f : IsSum(f, ones, U)
    BY SumExists DEF U
  <2> HIDE DEF R
  <2> QED
    BY <1>3, <2>1
<1> HIDE DEF g
<1>5. g[U] = SumOf(ones, U)
  <2>1. IsFiniteSet(U) /\ U \in SUBSET U
    BY DEF U
  <2> QED
    BY <1>4, <2>1, SumFromAny
<1>6. SumOf(ones, U) = Cardinality(U)
  <2>1. IsFiniteSet(U) /\ \A p \in U : ones[p] = 1
    BY DEF U, ones
  <2> QED
    BY <2>1, SumOfOnes
<1> QED
  BY <1>1, <1>5, <1>6 DEF U

(* Where the root sees a process at work: a prover is below one of its     *)
(* children.                                                               *)
Seen(b) == IF b \in Provers THEN Front(b) ELSE b

LEMMA WorkIsSeen ==
    ASSUME CoresInv, TreeInv, NEW b \in AtWork
    PROVE  /\ Seen(b) \in procs[Root]
           /\ b \notin Provers => pc[b] = "prep"
           /\ b \in Provers => b \in procs[Seen(b)]
<1> USE TreeTypes
<1>0. b \in Pids /\ Busy(b)
  BY DEF AtWork
<1>1. CASE b \in Provers
  <2>1. pc[b] \notin {"free", "reaped"} /\ ~Over(b) /\ b # Root
    BY <1>0, <1>1, ParentName DEF Busy, Over, Gone
  <2>2. b \in procs[Front(b)] /\ Front(b) \in Children
    BY <1>0, <1>1, <2>1, ParentName DEF TreeInv, ParentInv
  <2>3. Front(b) \in Pids \ {Root} /\ Front(Front(b)) = Root
    BY <2>2, ParentName DEF Children
  <2>4. pc[Front(b)] # "free"
    BY <2>2, <2>3 DEF Alone
  <2>5. pc[Front(b)] # "reaped"
    BY <1>1, <2>1, <2>2 DEF CoresInv, BelowIsOver
  <2>6. Front(b) \in procs[Root]
    BY <2>3, <2>4, <2>5 DEF TreeInv, ParentInv
  <2> QED
    BY <1>1, <2>2, <2>6 DEF Seen
<1>2. CASE b \notin Provers
  <2>1. b \in Schedulers /\ pc[b] = "prep"
    BY <1>0, <1>2, ParentName DEF Busy
  <2>2. b \in Children /\ b # Root /\ Front(b) = Root
    BY <2>1, ParentName DEF Children
  <2>3. b \in procs[Root]
    BY <1>0, <2>1, <2>2 DEF TreeInv, ParentInv
  <2> QED
    BY <1>2, <2>1, <2>3 DEF Seen
<1> QED
  BY <1>1, <1>2

(* At a child of the root either the child is at work or its children are. *)
LEMMA WorkFits ==
    ASSUME CoresInv, TreeInv, NEW s \in procs[Root]
    PROVE  /\ IsFiniteSet({b \in AtWork : Seen(b) = s})
           /\ Cardinality({b \in AtWork : Seen(b) = s}) <= CoresOf(s)
<1> DEFINE W == {b \in AtWork : Seen(b) = s}
<1> USE TreeTypes
<1>1. s \in Children /\ s \in Schedulers /\ s \in Pids /\ CoresOf(s) \in Nat /\ CoresOf(s) >= 1
  BY ChildHasCores, ParentName DEF CoresInv, TreeInv
<1>2. CASE pc[s] = "prep"
  <2>1. procs[s] = {}
    BY <1>1, <1>2 DEF Alone
  <2>2. W \subseteq {s}
    <3> SUFFICES ASSUME NEW b \in W PROVE b = s
      OBVIOUS
    <3>1. b \notin Provers
      BY <2>1, WorkIsSeen
    <3> QED
      BY <3>1 DEF Seen
  <2>3. IsFiniteSet({s}) /\ Cardinality({s}) = 1
    BY FS_Singleton
  <2>4. IsFiniteSet(W) /\ Cardinality(W) <= 1
    BY <2>2, <2>3, FS_Subset
  <2> QED
    BY <1>1, <2>4, FS_CardinalityType
<1>3. CASE pc[s] # "prep"
  <2>1. W \subseteq procs[s]
    <3> SUFFICES ASSUME NEW b \in W PROVE b \in procs[s]
      OBVIOUS
    <3>1. b \in Provers
      BY <1>3, WorkIsSeen DEF Seen
    <3> QED
      BY <3>1, WorkIsSeen
  <2>2. IsFiniteSet(procs[s]) /\ (procs[s] # {} => SumOf(Weight, procs[s]) <= CoresOf(s))
    BY <1>1 DEF CoresInv
  <2>3. \A c \in procs[s] : Weight[c] = 1
    BY <1>1, ChildHasCores DEF CoresInv, TreeInv, Children
  <2>4. SumOf(Weight, procs[s]) = Cardinality(procs[s])
    BY <2>2, <2>3, SumOfOnes
  <2>5. Cardinality(procs[s]) <= CoresOf(s)
    BY <1>1, <2>2, <2>4, FS_EmptySet
  <2>6. IsFiniteSet(W) /\ Cardinality(W) <= Cardinality(procs[s])
    BY <2>1, <2>2, FS_Subset
  <2> QED
    BY <1>1, <2>2, <2>5, <2>6, FS_CardinalityType
<1> QED
  BY <1>2, <1>3

LEMMA WorkIsFinite ==
    ASSUME CoresInv, TreeInv
    PROVE  IsFiniteSet(AtWork)
<1> DEFINE At(s) == {b \in AtWork : Seen(b) = s}
           All   == {At(s) : s \in procs[Root]}
<1>1. IsFiniteSet(procs[Root])
  BY ParentName DEF CoresInv
<1>2. \A W \in All : IsFiniteSet(W)
  BY WorkFits
<1> HIDE DEF At
<1>3. IsFiniteSet(All)
  <2> DEFINE f == [s \in procs[Root] |-> At(s)]
  <2>1. f \in Surjection(procs[Root], All)
    BY DEF Surjection
  <2> HIDE DEF f, All
  <2> QED
    BY <1>1, <2>1, FS_Surjection
<1>4. IsFiniteSet(UNION All)
  BY <1>2, <1>3, FS_UNION
<1>5. AtWork \subseteq UNION All
  BY WorkIsSeen DEF At
<1> QED
  BY <1>4, <1>5, FS_Subset

LEMMA WorkHasCores == CoresInv /\ TreeInv => CoresRespected
<1> SUFFICES ASSUME CoresInv, TreeInv PROVE CoresRespected
  OBVIOUS
<1> DEFINE place == [b \in AtWork |-> Seen(b)]
<1>1. IsFiniteSet(AtWork)
  BY WorkIsFinite
<1>2. IsFiniteSet(procs[Root]) /\ (procs[Root] # {} => SumOf(Weight, procs[Root]) <= CoresOf(Root))
  BY ParentName DEF CoresInv
<1>3. CoresOf(Root) = machine.max_cores /\ machine.max_cores \in Nat
  <2>1. Root \notin Provers
    BY ParentName
  <2> QED
    BY <2>1 DEF CoresOf, CoresInv, MachineHasCores
<1>4. \A b \in AtWork : place[b] \in procs[Root]
  BY WorkIsSeen
<1>5. \A s \in procs[Root] :
         Weight[s] \in Nat /\ Cardinality({b \in AtWork : place[b] = s}) <= Weight[s]
  <2> SUFFICES ASSUME NEW s \in procs[Root]
               PROVE  Weight[s] \in Nat /\ Cardinality({b \in AtWork : place[b] = s}) <= Weight[s]
    OBVIOUS
  <2>1. Weight[s] = CoresOf(s) /\ CoresOf(s) \in Nat
    BY ChildHasCores, ParentName DEF CoresInv, TreeInv
  <2>2. {b \in AtWork : place[b] = s} = {b \in AtWork : Seen(b) = s}
    OBVIOUS
  <2> QED
    BY <2>1, <2>2, WorkFits
<1> HIDE DEF place
<1>6. Cardinality(AtWork) <= SumOf(Weight, procs[Root])
  BY <1>1, <1>2, <1>4, <1>5, CountByPlaces
<1>7. Cardinality(AtWork) \in Nat /\ SumOf(Weight, procs[Root]) \in Int
  <2>1. \A s \in procs[Root] : Weight[s] \in Int
    BY ChildHasCores, ParentName DEF CoresInv, TreeInv
  <2> QED
    BY <1>1, <1>2, <2>1, SumIsInt, FS_CardinalityType
<1>8. Cardinality(AtWork) <= machine.max_cores
  <2>1. CASE procs[Root] = {}
    <3>1. AtWork = {}
      BY <1>4, <2>1
    <3> QED
      BY <1>3, <3>1, FS_EmptySet
  <2>2. CASE procs[Root] # {}
    BY <1>2, <1>3, <1>6, <1>7, <2>2
  <2> QED
    BY <2>1, <2>2
<1> QED
  BY <1>1, <1>8, WorkIsCounted DEF CoresRespected, AtWork

(* However the schedules are nested, retried and interrupted, the          *)
(* processes at work never need more cores than E was given: the cores of  *)
(* a preprocessing strategy are counted against those of the machine       *)
(* before its process is forked, and those of its provers against its own. *)
THEOREM CoresAreEnough == Spec => []CoresRespected
BY CoresInvHolds, WorkHasCores, PTL
=============================================================================
