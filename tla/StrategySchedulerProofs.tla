----------------------- MODULE StrategySchedulerProofs -----------------------
(***************************************************************************)
(* Proofs about StrategyScheduler, for all calls of E, pipes of any size   *)
(* and any number of signals: the books of a scheduler about its children  *)
(* are right, and E ends with the status of success only when it has       *)
(* printed a proof to its end.                                             *)
(***************************************************************************)
EXTENDS StrategyScheduler, SequenceTheorems, TLAPS

Chunks   == {"status", "proof"}
Full     == <<"status", "proof">>
Statuses == {"none", "success", "failure", "resource_out", "parent_request", "sigpipe", "killed"}

(* The output of a process: what its parent has read, what is in its pipe, *)
(* and what it has still to write.                                         *)
Stream(p) == output[p] \o (pipe[p] \o toprint[p])

(* Where no process has an output yet *)
Early   == {"free", "forked", "prep", "search", "enter", "start", "read", "test", "exhausted"}
Leaving == {"free_set", "waitpid"}
Gone    == {"dead", "reaped"}
Visiting == Gone \cup {"read", "waitpid"}
Places  == Early \cup Leaving \cup Gone \cup {"print"}

MachineInv ==
    /\ machine.search \in Nat /\ machine.default \in Nat
    /\ Len(machine.pre) \in Nat
    /\ 1..Len(machine.pre) \subseteq PreIndices
    /\ 1..(machine.search + machine.default) \subseteq SearchIndices

TypeInv ==
    /\ pc \in [Pids -> Places]
    /\ next \in [Schedulers -> Nat \ {0}]
    /\ \A p \in Schedulers : next[p] <= LastStrategy(p) + 1
    /\ retried \subseteq Schedulers \ {Root}
    /\ procs \in [Pids -> SUBSET Pids]
    /\ todo \in [Schedulers -> SUBSET Pids]
    /\ toprint \in [Pids -> Seq(Chunks)]
    /\ pipe \in [Pids -> Seq(Chunks)]
    /\ output \in [Pids -> Seq(Chunks)]
    /\ handler \in [Pids -> {"sched", "default"}]
    /\ caught \in [Pids -> BOOLEAN]
    /\ exit_status \in [Pids -> Statuses]

(* The children under control have been forked, by p, the others not yet; *)
(* and a child that p is about to visit has output or has ended.           *)
BooksInv ==
    /\ \A p \in Pids : \A c \in procs[p] : c # Root /\ Front(c) = p /\ pc[c] # "free"
    /\ \A p \in Schedulers : \A i \in Nat :
         i >= next[p] /\ Append(p, i) \in Pids => pc[Append(p, i)] = "free"
    /\ \A p \in Schedulers : todo[p] \subseteq procs[p]
    /\ \A p \in Schedulers : pc[p] = "read" =>
         \A c \in todo[p] : pipe[c] # <<>> \/ pc[c] \in Gone
    /\ \A p \in Schedulers : pc[p] \notin Visiting => todo[p] = {}

(* The output is a part of an answer, and all of it where a prover has     *)
(* found a proof and where a process has success for its status.           *)
OutputInv ==
    /\ output[Root] = <<>>
    /\ \A p \in Pids : Stream(p) \in {<<>>, <<"status">>, Full}
    /\ \A p \in Pids : pc[p] \in Early => Stream(p) = <<>> /\ exit_status[p] # "success"
    /\ \A p \in Provers : pc[p] = "print" => Stream(p) = Full
    /\ \A p \in Pids : exit_status[p] = "success" =>
         Stream(p) = Full /\ (pc[p] \in Gone => toprint[p] = <<>>)
    /\ \A p \in Pids : pc[p] \in Leaving => toprint[p] = <<>>

SchedulerInv == MachineInv /\ TypeInv /\ BooksInv /\ OutputInv

----------------------------------------------------------------------------
(* Output moves on and is not lost. *)

LEMMA ChunkToPipe ==
    ASSUME NEW o \in Seq(Chunks), NEW a \in Seq(Chunks), NEW t \in Seq(Chunks), t # <<>>
    PROVE  /\ Append(a, Head(t)) \in Seq(Chunks) /\ Tail(t) \in Seq(Chunks)
           /\ o \o (Append(a, Head(t)) \o Tail(t)) = o \o (a \o t)
<1>1. Head(t) \in Chunks /\ Tail(t) \in Seq(Chunks)
  BY HeadTailProperties
<1>2. Append(a, Head(t)) \in Seq(Chunks) /\ Append(a, Head(t)) = a \o <<Head(t)>>
  BY <1>1, AppendIsConcat
<1>3. <<Head(t)>> \in Seq(Chunks) /\ <<Head(t)>> \o Tail(t) = t
  BY <1>1
<1>4. (a \o <<Head(t)>>) \o Tail(t) = a \o (<<Head(t)>> \o Tail(t))
  BY <1>1, <1>3, ConcatAssociative
<1> QED
  BY <1>1, <1>2, <1>3, <1>4

LEMMA ChunkToOutput ==
    ASSUME NEW o \in Seq(Chunks), NEW a \in Seq(Chunks), NEW t \in Seq(Chunks), a # <<>>
    PROVE  /\ Append(o, Head(a)) \in Seq(Chunks) /\ Tail(a) \in Seq(Chunks)
           /\ Append(o, Head(a)) \o (Tail(a) \o t) = o \o (a \o t)
<1>1. Head(a) \in Chunks /\ Tail(a) \in Seq(Chunks)
  BY HeadTailProperties
<1>2. Append(o, Head(a)) \in Seq(Chunks) /\ Append(o, Head(a)) = o \o <<Head(a)>>
  BY <1>1, AppendIsConcat
<1>3. <<Head(a)>> \in Seq(Chunks) /\ <<Head(a)>> \o Tail(a) = a /\ Tail(a) \o t \in Seq(Chunks)
  BY <1>1, ConcatProperties
<1>4. (o \o <<Head(a)>>) \o (Tail(a) \o t) = o \o (<<Head(a)>> \o (Tail(a) \o t))
  BY <1>3, ConcatAssociative
<1>5. (<<Head(a)>> \o Tail(a)) \o t = <<Head(a)>> \o (Tail(a) \o t)
  BY <1>1, <1>3, ConcatAssociative
<1> QED
  BY <1>1, <1>2, <1>3, <1>4, <1>5

LEMMA NothingWritten ==
    ASSUME NEW o \in Seq(Chunks), NEW a \in Seq(Chunks), NEW t \in Seq(Chunks)
    PROVE  /\ o \o (a \o t) = <<>> => o = <<>> /\ a = <<>> /\ t = <<>>
           /\ o = <<>> /\ a = <<>> => o \o (a \o t) = t
           /\ a = <<>> /\ t = <<>> => o \o (a \o t) = o
           /\ o = <<>> /\ t = <<>> => o \o (a \o t) = a
           /\ Len(o) <= Len(o \o (a \o t)) /\ Len(a) <= Len(o \o (a \o t))
<1>1. /\ a \o t \in Seq(Chunks) /\ Len(a \o t) = Len(a) + Len(t)
      /\ Len(o \o (a \o t)) = Len(o) + (Len(a) + Len(t))
      /\ Len(o) \in Nat /\ Len(a) \in Nat /\ Len(t) \in Nat
  BY ConcatProperties
<1>2. o \o (a \o t) = <<>> => o = <<>> /\ a = <<>> /\ t = <<>>
  BY <1>1
<1>3. /\ o = <<>> /\ a = <<>> => o \o (a \o t) = t
      /\ a = <<>> /\ t = <<>> => o \o (a \o t) = o
      /\ o = <<>> /\ t = <<>> => o \o (a \o t) = a
  BY <1>1, ConcatEmptySeq
<1> QED
  BY <1>1, <1>2, <1>3

LEMMA UpToTwo ==
    /\ \A k, l \in Nat : k + l = 2 => k = 0 \/ k = 1 \/ k = 2
    /\ \A k : k = 0 \/ k = 1 \/ k = 2 => k <= 2
OBVIOUS

LEMMA PartOfAnswer ==
    ASSUME NEW o \in Seq(Chunks), NEW t \in Seq(Chunks), o \o t \in {<<>>, <<"status">>, Full}
    PROVE  o \in {<<>>, <<"status">>, Full}
<1> DEFINE s == o \o t
<1>1. /\ Len(o) \in Nat /\ Len(t) \in Nat /\ s \in Seq(Chunks) /\ Len(s) = Len(o) + Len(t)
      /\ \A i \in 1..Len(o) : s[i] = o[i]
  BY ConcatProperties
<1>2. s = <<>> \/ s = <<"status">> \/ s = Full
  OBVIOUS
<1> HIDE DEF s
<1>3. CASE s = <<>>
  <2>1. Len(o) = 0
    BY <1>1, <1>3
  <2> QED
    BY <2>1
<1>4. CASE s = <<"status">>
  <2>1. Len(s) = 1 /\ s[1] = "status"
    BY <1>4
  <2>2. CASE Len(o) = 0
    BY <2>2
  <2>3. CASE Len(o) = 1
    <3>1. o[1] = "status"
      BY <1>1, <2>1, <2>3
    <3> QED
      BY <2>3, <3>1
  <2> QED
    BY <1>1, <2>1, <2>2, <2>3
<1>5. CASE s = Full
  <2>1. Len(s) = 2 /\ s[1] = "status" /\ s[2] = "proof"
    BY <1>5 DEF Full
  <2>2. CASE Len(o) = 0
    BY <2>2
  <2>3. CASE Len(o) = 1
    <3>1. o[1] = "status"
      BY <1>1, <2>1, <2>3
    <3> QED
      BY <2>3, <3>1
  <2>4. CASE Len(o) = 2
    <3>1. o[1] = "status" /\ o[2] = "proof"
      BY <1>1, <2>1, <2>4
    <3>2. o = Full
      BY <2>4, <3>1 DEF Full
    <3> QED
      BY <3>2
  <2>5. Len(o) = 0 \/ Len(o) = 1 \/ Len(o) = 2
    <3>1. Len(o) \in Nat /\ Len(t) \in Nat /\ Len(o) + Len(t) = 2
      BY <1>1, <2>1
    <3> QED
      BY <3>1, UpToTwo, Zenon
  <2> QED
    BY <2>2, <2>3, <2>4, <2>5
<1> QED
  BY <1>2, <1>3, <1>4, <1>5

----------------------------------------------------------------------------
(* The names of processes *)

LEMMA Indices ==
    /\ PreIndices \subseteq Nat \ {0}
    /\ SearchIndices \subseteq Nat \ {0}
<1>1. \A m \in Machines : Len(m.fractions) \in Nat /\ m.search + m.default \in Nat
  BY MachinesAssumption
<1> QED
  BY <1>1 DEF PreIndices, SearchIndices

LEMMA SchedulerName ==
    ASSUME NEW p \in Schedulers
    PROVE  p \in Seq(Nat) /\ (p = <<>> \/ (Len(p) = 1 /\ p[1] \in PreIndices /\ p = <<p[1]>>))
<1>1. CASE p = <<>>
  BY <1>1
<1>2. CASE p # <<>>
  <2>1. PICK i \in PreIndices : p = <<i>>
    BY <1>2 DEF Schedulers, Root
  <2>2. i \in Nat
    BY <2>1, Indices
  <2> QED
    BY <2>1, <2>2
<1> QED
  BY <1>1, <1>2

LEMMA ProversAreLeaves == Schedulers \cap Provers = {}
<1> SUFFICES ASSUME NEW p \in Schedulers, p \in Provers
             PROVE  FALSE
  OBVIOUS
<1>1. Len(p) = 0 \/ Len(p) = 1
  BY SchedulerName
<1>2. PICK i \in PreIndices, j \in SearchIndices : p = <<i, j>>
  BY DEF Provers
<1> QED
  BY <1>1, <1>2

LEMMA ChildOf ==
    ASSUME NEW p \in Schedulers, NEW i \in Nat
    PROVE  Append(p, i) # Root /\ Front(Append(p, i)) = p
<1>1. p \in Seq(Nat) /\ (p = <<>> \/ Len(p) = 1)
  BY SchedulerName
<1>2. Append(p, i) = p \o <<i>> /\ Len(Append(p, i)) = Len(p) + 1 /\ Append(p, i) # Root
  BY <1>1, AppendIsConcat, AppendProperties DEF Root
<1>3. SubSeq(Append(p, i), 1, Len(p)) = p
  <2>1. CASE p = <<>>
    <3>1. SubSeq(Append(p, i), 1, 0) = <<>>
      BY SubSeqEmpty
    <3> QED
      BY <2>1, <3>1
  <2>2. CASE Len(p) = 1
    <3>1. <<i>> \in Seq(Nat) /\ 1 \in 1..Len(p) /\ Len(p) \in 1..Len(p)
      BY <2>2
    <3>2. SubSeq(p \o <<i>>, 1, Len(p)) = SubSeq(p, 1, Len(p))
      BY <1>1, <3>1, SubSeqOfConcat1
    <3>3. SubSeq(p, 1, Len(p)) = p
      BY <1>1, SubSeqFull
    <3> QED
      BY <1>2, <3>2, <3>3
  <2> QED
    BY <1>1, <2>1, <2>2
<1> QED
  BY <1>1, <1>2, <1>3 DEF Front

LEMMA SameChild ==
    ASSUME NEW p \in Schedulers, NEW i \in Nat, NEW q \in Schedulers, NEW j \in Nat,
           Append(p, i) = Append(q, j)
    PROVE  p = q /\ i = j
<1>1. p \in Seq(Nat) /\ q \in Seq(Nat)
  BY SchedulerName
<1> QED
  BY <1>1, AppendInjective

LEMMA AppendToOne ==
    ASSUME NEW a \in Nat, NEW i \in Nat
    PROVE  Append(<<a>>, i) = <<a, i>>
<1> DEFINE s == Append(<<a>>, i)
           t == <<a, i>>
<1>1. <<a>> \in Seq(Nat) /\ Len(<<a>>) = 1
  OBVIOUS
<1>2. s \in Seq(Nat) /\ Len(s) = 2 /\ s[1] = a /\ s[2] = i
  BY <1>1, AppendProperties
<1>3. t \in Seq(Nat) /\ Len(t) = 2 /\ t[1] = a /\ t[2] = i
  OBVIOUS
<1> HIDE DEF s, t
<1>4. \A k \in 1..Len(s) : s[k] = t[k]
  BY <1>2, <1>3
<1>5. s = t
  BY <1>2, <1>3, <1>4, SeqEqual
<1> QED
  BY <1>5 DEF s, t

(* There is a name for every strategy. *)
LEMMA NextChild ==
    ASSUME MachineInv, TypeInv, NEW p \in Schedulers, next[p] <= LastStrategy(p)
    PROVE  Append(p, next[p]) \in Pids
<1> DEFINE i == next[p]
<1>1. i \in Nat \ {0}
  BY DEF TypeInv
<1>2. CASE p = Root
  <2>1. i \in 1..Len(machine.pre)
    <3>1. LastStrategy(Root) = Len(machine.pre)
      BY DEF LastStrategy, TypeInv
    <3> QED
      BY <1>1, <1>2, <3>1 DEF MachineInv
  <2>2. Append(p, i) = <<i>> /\ i \in PreIndices
    BY <1>2, <2>1 DEF MachineInv, Root
  <2> QED
    BY <2>2 DEF Pids, Schedulers
<1>3. CASE p # Root
  <2>1. PICK a \in PreIndices : p = <<a>>
    BY <1>3 DEF Schedulers
  <2>2. LastStrategy(p) <= machine.search + machine.default
    BY <1>3 DEF LastStrategy, MachineInv, TypeInv
  <2>3. LastStrategy(p) \in Nat
    BY <1>3 DEF LastStrategy, MachineInv, TypeInv
  <2>4. i \in SearchIndices
    BY <1>1, <2>2, <2>3 DEF MachineInv
  <2>5. Append(p, i) = <<a, i>>
    BY <1>1, <2>1, Indices, AppendToOne
  <2> QED
    BY <2>1, <2>4, <2>5 DEF Pids, Provers
<1> QED
  BY <1>2, <1>3

LEMMA FewerStrategiesBefore ==
    ASSUME MachineInv, TypeInv, retried \subseteq retried', retried' \subseteq Schedulers \ {Root},
           UNCHANGED machine, NEW p \in Schedulers
    PROVE  /\ LastStrategy(p) \in Nat /\ LastStrategy(p)' \in Nat
           /\ LastStrategy(p) <= LastStrategy(p)'
<1>1. CASE p = Root
  <2>1. p \notin retried /\ p \notin retried'
    BY <1>1 DEF TypeInv
  <2> QED
    BY <1>1, <2>1 DEF LastStrategy, MachineInv
<1>2. CASE p # Root
  BY <1>2 DEF LastStrategy, MachineInv
<1> QED
  BY <1>1, <1>2

----------------------------------------------------------------------------
(* Steps that move no output *)

LEMMA NoOutputMoves ==
    ASSUME SchedulerInv, UNCHANGED <<machine, next, streams>>,
           retried \subseteq retried', retried' \subseteq Schedulers \ {Root},
           pc' \in [Pids -> Places], handler' \in [Pids -> {"sched", "default"}],
           caught' \in [Pids -> BOOLEAN], exit_status' \in [Pids -> Statuses],
           procs' \in [Pids -> SUBSET Pids], todo' \in [Schedulers -> SUBSET Pids],
           \A p \in Pids : procs'[p] \subseteq procs[p],
           \A p \in Schedulers : todo'[p] \subseteq procs'[p],
           \A p \in Pids : (pc'[p] = "free" <=> pc[p] = "free"),
           \A p \in Pids : pc[p] \in Gone => pc'[p] \in Gone,
           \A p \in Schedulers : pc'[p] = "read" =>
              \A c \in todo'[p] : pipe[c] # <<>> \/ pc[c] \in Gone,
           \A p \in Schedulers : pc'[p] \notin Visiting => todo'[p] = {},
           \A p \in Pids : pc'[p] \in Early => pc[p] \in Early /\ exit_status'[p] # "success",
           \A p \in Provers : pc'[p] = "print" => pc[p] = "print",
           \A p \in Pids : exit_status'[p] = "success" =>
              Stream(p) = Full /\ (pc'[p] \in Gone => toprint[p] = <<>>),
           \A p \in Pids : pc'[p] \in Leaving => toprint[p] = <<>>
    PROVE  SchedulerInv'
<1>1. /\ UNCHANGED <<toprint, pipe, output>>
      /\ \A p : Stream(p)' = Stream(p)
  BY DEF streams, Stream
<1>2. MachineInv'
  BY DEF SchedulerInv, MachineInv
<1>3. \A p \in Schedulers : next[p] <= LastStrategy(p)' + 1
  <2> SUFFICES ASSUME NEW p \in Schedulers
               PROVE  next[p] <= LastStrategy(p)' + 1
    OBVIOUS
  <2>1. /\ LastStrategy(p) \in Nat /\ LastStrategy(p)' \in Nat
        /\ LastStrategy(p) <= LastStrategy(p)'
    BY FewerStrategiesBefore DEF SchedulerInv
  <2>2. next[p] \in Nat /\ next[p] <= LastStrategy(p) + 1
    BY DEF SchedulerInv, TypeInv
  <2> QED
    BY <2>1, <2>2
<1>4. TypeInv'
  <2>1. \A p \in Schedulers : next'[p] <= LastStrategy(p)' + 1
    BY <1>3
  <2> QED
    BY <1>1, <2>1 DEF SchedulerInv, TypeInv
<1>5. BooksInv'
  <2>1. \A p \in Pids : \A c \in procs'[p] : c # Root /\ Front(c) = p /\ pc'[c] # "free"
    BY DEF SchedulerInv, BooksInv, TypeInv
  <2>2. \A p \in Schedulers : \A i \in Nat :
           i >= next'[p] /\ Append(p, i) \in Pids => pc'[Append(p, i)] = "free"
    BY DEF SchedulerInv, BooksInv
  <2>3. \A p \in Schedulers : pc'[p] = "read" =>
           \A c \in todo'[p] : pipe'[c] # <<>> \/ pc'[c] \in Gone
    BY <1>1
  <2> QED
    BY <2>1, <2>2, <2>3 DEF BooksInv
<1>6. OutputInv'
  <2>1. output'[Root] = <<>> /\ \A p \in Pids : Stream(p)' \in {<<>>, <<"status">>, Full}
    BY <1>1 DEF SchedulerInv, OutputInv
  <2>2. \A p \in Pids : pc'[p] \in Early => Stream(p)' = <<>> /\ exit_status'[p] # "success"
    BY <1>1 DEF SchedulerInv, OutputInv
  <2>3. \A p \in Provers : pc'[p] = "print" => Stream(p)' = Full
    BY <1>1 DEF SchedulerInv, OutputInv
  <2>4. \A p \in Pids : exit_status'[p] = "success" =>
           Stream(p)' = Full /\ (pc'[p] \in Gone => toprint'[p] = <<>>)
    BY <1>1
  <2>5. \A p \in Pids : pc'[p] \in Leaving => toprint'[p] = <<>>
    BY <1>1
  <2> QED
    BY <2>1, <2>2, <2>3, <2>4, <2>5 DEF OutputInv
<1> QED
  BY <1>2, <1>4, <1>5, <1>6 DEF SchedulerInv

(* One process moves, into the search for an answer only if it has none. *)
LEMMA ProcessMoves ==
    ASSUME SchedulerInv, UNCHANGED <<machine, next, streams, procs, caught, todo>>,
           retried \subseteq retried', retried' \subseteq Schedulers \ {Root},
           handler' \in [Pids -> {"sched", "default"}],
           NEW p \in Pids, pc[p] \notin Gone \cup {"free"},
           NEW l \in Places \ {"free", "read", "print"}, pc' = [pc EXCEPT ![p] = l],
           exit_status' \in [Pids -> Statuses],
           \A q \in Pids \ {p} : exit_status'[q] = exit_status[q],
           l \in Early => pc[p] \in Early /\ exit_status'[p] # "success",
           l \in Leaving => toprint[p] = <<>>, p \in Schedulers /\ l \notin Visiting => todo[p] = {},
           exit_status'[p] = "success" => Stream(p) = Full /\ (l \in Gone => toprint[p] = <<>>)
    PROVE  SchedulerInv'
<1> USE DEF Early, Gone, Leaving, Places, Visiting
<1>1. pc' \in [Pids -> Places]
  BY DEF SchedulerInv, TypeInv
<1>2. \A q \in Pids : pc'[q] = IF q = p THEN l ELSE pc[q]
  BY DEF SchedulerInv, TypeInv
<1>3. \A q \in Pids : exit_status[q] = "success" =>
         Stream(q) = Full /\ (pc[q] \in Gone => toprint[q] = <<>>)
  BY DEF SchedulerInv, OutputInv
<1>4. \A q \in Pids : /\ pc[q] \in Leaving => toprint[q] = <<>>
                      /\ pc[q] \in Early => exit_status[q] # "success"
  BY DEF SchedulerInv, OutputInv
<1>5. \A q \in Schedulers : /\ todo[q] \subseteq procs[q]
                            /\ pc[q] = "read" => \A c \in todo[q] : pipe[c] # <<>> \/ pc[c] \in Gone
                            /\ pc[q] \notin Visiting => todo[q] = {}
  BY DEF SchedulerInv, BooksInv
<1>6. \A q \in Pids : (pc'[q] = "free" <=> pc[q] = "free")
  BY <1>2
<1>7. \A q \in Pids : pc[q] \in Gone => pc'[q] \in Gone
  BY <1>2
<1>8. \A q \in Schedulers : pc'[q] = "read" =>
         \A c \in todo'[q] : pipe[c] # <<>> \/ pc[c] \in Gone
  BY <1>2, <1>5 DEF Pids
<1>9. \A q \in Pids : pc'[q] \in Early => pc[q] \in Early /\ exit_status'[q] # "success"
  BY <1>2, <1>4
<1>10. \A q \in Provers : pc'[q] = "print" => pc[q] = "print"
  BY <1>2 DEF Pids
<1>11. \A q \in Pids : exit_status'[q] = "success" =>
         Stream(q) = Full /\ (pc'[q] \in Gone => toprint[q] = <<>>)
  BY <1>2, <1>3
<1>12. \A q \in Pids : pc'[q] \in Leaving => toprint[q] = <<>>
  BY <1>2, <1>4
<1>13. /\ caught' \in [Pids -> BOOLEAN]
       /\ procs' \in [Pids -> SUBSET Pids] /\ todo' \in [Schedulers -> SUBSET Pids]
       /\ \A q \in Pids : procs'[q] \subseteq procs[q]
       /\ \A q \in Schedulers : todo'[q] \subseteq procs'[q]
  BY <1>5 DEF SchedulerInv, TypeInv
<1>14. \A q \in Schedulers : pc'[q] \notin Visiting => todo'[q] = {}
  BY <1>2, <1>5 DEF Pids
<1> QED
  BY <1>1, <1>6, <1>7, <1>8, <1>9, <1>10, <1>11, <1>12, <1>13, <1>14, NoOutputMoves, Zenon

----------------------------------------------------------------------------
(* The steps of a scheduler and of its children *)

(* What the steps below need of the invariant. *)
LEMMA TypesOf ==
    ASSUME SchedulerInv
    PROVE  /\ pc \in [Pids -> Places] /\ next \in [Schedulers -> Nat \ {0}]
           /\ retried \subseteq Schedulers \ {Root}
           /\ procs \in [Pids -> SUBSET Pids] /\ todo \in [Schedulers -> SUBSET Pids]
           /\ handler \in [Pids -> {"sched", "default"}] /\ caught \in [Pids -> BOOLEAN]
           /\ exit_status \in [Pids -> Statuses]
           /\ Schedulers \subseteq Pids /\ Provers \subseteq Pids
           /\ \A q \in Pids : /\ pc[q] \in Early => exit_status[q] # "success"
                              /\ pc[q] \in Leaving => toprint[q] = <<>>
                              /\ exit_status[q] = "success" =>
                                   Stream(q) = Full /\ (pc[q] \in Gone => toprint[q] = <<>>)
           /\ \A q \in Provers : pc[q] = "print" => Stream(q) = Full
           /\ \A q \in Schedulers : /\ todo[q] \subseteq procs[q]
                                    /\ pc[q] = "read" => \A c \in todo[q] :
                                         pipe[c] # <<>> \/ pc[c] \in Gone
                                    /\ pc[q] \notin Visiting => todo[q] = {}
BY DEF SchedulerInv, TypeInv, OutputInv, BooksInv, Pids

LEMMA ProcessLeaves ==
    ASSUME SchedulerInv, UNCHANGED <<machine, next, retried, streams, procs, caught, todo>>,
           handler' \in [Pids -> {"sched", "default"}],
           NEW p \in Pids, pc[p] \notin Gone \cup {"free"},
           NEW l \in Leaving \cup Gone, pc' = [pc EXCEPT ![p] = l],
           NEW status \in Statuses, exit_status' = [exit_status EXCEPT ![p] = status],
           l \in Leaving => toprint[p] = <<>>, p \in Schedulers /\ l \notin Visiting => todo[p] = {},
           status = "success" => Stream(p) = Full /\ (l \in Gone => toprint[p] = <<>>)
    PROVE  SchedulerInv'
<1>1. /\ exit_status' \in [Pids -> Statuses] /\ exit_status'[p] = status
      /\ \A q \in Pids \ {p} : exit_status'[q] = exit_status[q]
  BY TypesOf
<1>2. l \in Places \ {"free", "read", "print"} /\ l \notin Early
  BY DEF Places, Early, Leaving, Gone
<1>3. retried \subseteq retried' /\ retried' \subseteq Schedulers \ {Root}
  BY TypesOf
<1> QED
  BY <1>1, <1>2, <1>3, ProcessMoves

LEMMA OneProcessMoves ==
    ASSUME SchedulerInv, UNCHANGED machine, NEW p \in Pids,
           \/ p \in Schedulers /\ \/ InstallHandler(p) \/ TestLoop(p) \/ ScheduleDone(p)
                                  \/ CheckSigTerm(p) \/ ExitScheduler(p)
           \/ BecomeChild(p) \/ Preprocess(p) \/ Fail(p) \/ Written(p)
    PROVE  SchedulerInv'
<1> USE TypesOf DEF Goto, Exit, schedule, streams, signals, Early, Gone, Leaving, Visiting, Places, Statuses
<1>1. CASE InstallHandler(p)
  BY <1>1, ProcessMoves DEF InstallHandler
<1>2. CASE TestLoop(p)
  <2>1. PICK l \in {"start", "exhausted"} :
           /\ pc[p] = "test" /\ pc' = [pc EXCEPT ![p] = l]
           /\ handler' \in [Pids -> {"sched", "default"}]
           /\ UNCHANGED <<machine, next, retried, toprint, pipe, output, procs, caught, todo,
                          exit_status>>
    BY <1>2 DEF TestLoop
  <2> QED
    BY <2>1, ProcessMoves
<1>3. CASE p \in Schedulers /\ ScheduleDone(p)
  <2>1. /\ pc[p] = "exhausted"
        /\ UNCHANGED <<machine, next, toprint, pipe, output, procs, caught, todo, handler>>
    BY <1>3 DEF ScheduleDone
  <2>2. CASE pc' = [pc EXCEPT ![p] = "dead"] /\ exit_status' = [exit_status EXCEPT ![p] = "resource_out"]
             /\ UNCHANGED retried
    <3>1. handler' \in [Pids -> {"sched", "default"}] /\ pc[p] \notin Gone \cup {"free"}
      BY <2>1
    <3>2. "dead" \in Leaving \cup Gone /\ "dead" \notin Leaving /\ "resource_out" \in Statuses
          /\ "resource_out" # "success"
      OBVIOUS
    <3> QED
      BY <2>1, <2>2, <3>1, <3>2, ProcessLeaves
  <2>3. CASE pc' = [pc EXCEPT ![p] = "enter"] /\ UNCHANGED exit_status
             /\ retried' = retried \cup {p} /\ p # Root
    <3>1. retried \subseteq retried' /\ retried' \subseteq Schedulers \ {Root}
      BY <1>3, <2>3
    <3> QED
      BY <2>1, <2>3, <3>1, ProcessMoves
  <2> QED
    BY <1>3, <2>2, <2>3 DEF ScheduleDone
<1>4. CASE p \in Schedulers /\ CheckSigTerm(p)
  <2>1. CASE caught[p]
    <3>1. toprint[p] = <<>>
      BY <1>4, NothingWritten DEF CheckSigTerm, SchedulerInv, OutputInv, TypeInv, Stream
    <3> QED
      BY <1>4, <2>1, <3>1, ProcessLeaves DEF CheckSigTerm
  <2>2. CASE ~caught[p]
    <3>1. /\ pc[p] = "read" /\ pc' = [pc EXCEPT ![p] = "test"] /\ todo[p] = {}
          /\ UNCHANGED <<machine, next, retried, toprint, pipe, output, procs, caught, todo, handler,
                         exit_status>>
      BY <1>4, <2>2 DEF CheckSigTerm
    <3> QED
      BY <3>1, ProcessMoves
  <2> QED
    BY <2>1, <2>2
<1>5. CASE ExitScheduler(p)
  BY <1>5, ProcessLeaves DEF ExitScheduler
<1>6. CASE BecomeChild(p)
  <2>1. CASE caught[p]
    BY <1>6, <2>1, ProcessLeaves DEF BecomeChild
  <2>2. CASE ~caught[p]
    BY <1>6, <2>2, ProcessMoves DEF BecomeChild
  <2> QED
    BY <2>1, <2>2
<1>7. CASE Preprocess(p)
  BY <1>7, ProcessMoves DEF Preprocess
<1>8. CASE Fail(p)
  <2>1. pc[p] \in {"prep", "search", "print"}
    BY <1>8 DEF Fail
  <2> QED
    <3>1. /\ pc' = [pc EXCEPT ![p] = "dead"] /\ exit_status' = [exit_status EXCEPT ![p] = "failure"]
          /\ UNCHANGED <<machine, next, retried, toprint, pipe, output, procs, caught, todo, handler>>
      BY <1>8 DEF Fail
    <3> QED
      <4>1. handler' \in [Pids -> {"sched", "default"}] /\ pc[p] \notin Gone \cup {"free"}
        BY <2>1, <3>1
      <4>2. "dead" \in Leaving \cup Gone /\ "dead" \notin Leaving /\ "failure" \in Statuses
            /\ "failure" # "success"
        OBVIOUS
      <4> QED
        BY <3>1, <4>1, <4>2, ProcessLeaves
<1>9. CASE Written(p)
  <2>1. CASE p \in Provers
    BY <1>9, <2>1, ProcessLeaves DEF Written
  <2>2. CASE p \notin Provers
    <3>1. /\ pc[p] = "print" /\ toprint[p] = <<>> /\ pc' = [pc EXCEPT ![p] = "free_set"]
          /\ UNCHANGED <<machine, next, retried, toprint, pipe, output, procs, caught, todo, handler,
                         exit_status>>
      BY <1>9, <2>2 DEF Written
    <3>2. p \in Schedulers => todo[p] = {}
      BY <3>1
    <3> QED
      BY <3>1, <3>2, ProcessMoves
  <2> QED
    BY <2>1, <2>2
<1> QED
  BY <1>1, <1>2, <1>3, <1>4, <1>5, <1>6, <1>7, <1>8, <1>9

(* select() remembers which of the children have output or have ended. *)
LEMMA SelectStep ==
    ASSUME SchedulerInv, UNCHANGED machine, NEW p \in Schedulers, Select(p)
    PROVE  SchedulerInv'
<1> DEFINE found == {c \in procs[p] : Readable(c)}
<1>1. /\ pc[p] = "start" /\ pc' = [pc EXCEPT ![p] = "read"] /\ todo' = [todo EXCEPT ![p] = found]
      /\ UNCHANGED <<machine, next, retried, streams, procs, handler, caught, exit_status>>
  BY DEF Select, Goto, schedule, signals
<1>2. found \subseteq procs[p] /\ \A c \in found : pipe[c] # <<>> \/ pc[c] \in Gone
  BY DEF Readable, Eof, Ended, Gone
<1> HIDE DEF found
<1> USE TypesOf DEF Early, Gone, Leaving, Visiting, Places
<1>3. pc' \in [Pids -> Places] /\ \A q \in Pids : pc'[q] = IF q = p THEN "read" ELSE pc[q]
  BY <1>1
<1>4. todo' \in [Schedulers -> SUBSET Pids]
  BY <1>1, <1>2
<1>5. \A q \in Schedulers : todo'[q] \subseteq procs'[q]
  BY <1>1, <1>2
<1>6. \A q \in Schedulers : pc'[q] = "read" => \A c \in todo'[q] : pipe[c] # <<>> \/ pc[c] \in Gone
  BY <1>1, <1>2, <1>3
<1>7. \A q \in Pids : /\ pc'[q] = "free" <=> pc[q] = "free"
                      /\ pc[q] \in Gone => pc'[q] \in Gone
                      /\ pc'[q] \in Early => pc[q] \in Early /\ exit_status'[q] # "success"
                      /\ exit_status'[q] = "success" =>
                           Stream(q) = Full /\ (pc'[q] \in Gone => toprint[q] = <<>>)
                      /\ pc'[q] \in Leaving => toprint[q] = <<>>
  BY <1>1, <1>3
<1>8. \A q \in Provers : pc'[q] = "print" => pc[q] = "print"
  BY <1>3
<1>9. /\ retried \subseteq retried' /\ retried' \subseteq Schedulers \ {Root}
      /\ handler' \in [Pids -> {"sched", "default"}] /\ caught' \in [Pids -> BOOLEAN]
      /\ exit_status' \in [Pids -> Statuses] /\ procs' \in [Pids -> SUBSET Pids]
      /\ \A q \in Pids : procs'[q] \subseteq procs[q]
  BY <1>1
<1>10. \A q \in Schedulers : pc'[q] \notin Visiting => todo'[q] = {}
  BY <1>1, <1>3
<1> QED
  BY <1>1, <1>3, <1>4, <1>5, <1>6, <1>7, <1>8, <1>9, <1>10, NoOutputMoves, Zenon

(* A child is taken off the books. *)
LEMMA ChildLeavesBooks ==
    ASSUME SchedulerInv, NEW p \in Schedulers, NEW c \in Pids,
           UNCHANGED <<machine, next, retried, streams, handler, caught, exit_status>>,
           procs' = [procs EXCEPT ![p] = @ \ {c}],
           todo' \in [Schedulers -> SUBSET Pids],
           \A q \in Schedulers : todo'[q] \subseteq todo[q] /\ c \notin todo'[p],
           pc[c] \in Gone,
           \/ pc' = pc /\ pc[p] # "read"
           \/ pc' = [pc EXCEPT ![c] = "reaped"]
           \/ pc' = [pc EXCEPT ![c] = "reaped", ![p] = "free_set"] /\ pc[p] = "waitpid"
              /\ todo'[p] = {}
    PROVE  SchedulerInv'
<1>0. pc \in [Pids -> Places] /\ p \in Pids
  BY TypesOf
<1>1. /\ pc' \in [Pids -> Places]
      /\ \A q \in Pids : \/ pc'[q] = pc[q]
                         \/ pc[q] \in Gone /\ pc'[q] = "reaped"
                         \/ pc[q] = "waitpid" /\ pc'[q] = "free_set"
  BY <1>0 DEF Places, Gone, Leaving
<1> USE TypesOf DEF Early, Gone, Leaving, Visiting, Places
<1>2. \A q \in Schedulers : todo'[q] \subseteq procs'[q]
  OBVIOUS
<1>3. \A q \in Schedulers : pc'[q] = "read" => \A x \in todo'[q] : pipe[x] # <<>> \/ pc[x] \in Gone
  BY <1>1
<1>4. \A q \in Pids : /\ pc'[q] = "free" <=> pc[q] = "free"
                      /\ pc[q] \in Gone => pc'[q] \in Gone
                      /\ pc'[q] \in Early => pc[q] \in Early /\ exit_status'[q] # "success"
                      /\ exit_status'[q] = "success" =>
                           Stream(q) = Full /\ (pc'[q] \in Gone => toprint[q] = <<>>)
                      /\ pc'[q] \in Leaving => toprint[q] = <<>>
  BY <1>1
<1>5. \A q \in Provers : pc'[q] = "print" => pc[q] = "print"
  BY <1>1
<1>6. /\ retried \subseteq retried' /\ retried' \subseteq Schedulers \ {Root}
      /\ handler' \in [Pids -> {"sched", "default"}] /\ caught' \in [Pids -> BOOLEAN]
      /\ exit_status' \in [Pids -> Statuses] /\ procs' \in [Pids -> SUBSET Pids]
      /\ \A q \in Pids : procs'[q] \subseteq procs[q]
  OBVIOUS
<1>7. \A q \in Schedulers : pc'[q] \notin Visiting => todo'[q] = {}
  OBVIOUS
<1> QED
  BY <1>1, <1>2, <1>3, <1>4, <1>5, <1>6, <1>7, NoOutputMoves, Zenon

(* SIGTERM, which may come with the step of a scheduler into waitpid(). *)
LEMMA SignalDelivered ==
    ASSUME SchedulerInv, UNCHANGED <<machine, next, retried, streams, procs>>,
           NEW S, NEW npc \in [Pids -> Places], Deliver(S, npc),
           \A q \in Pids : npc[q] = pc[q] \/ (pc[q] = "free_set" /\ npc[q] = "waitpid"),
           todo' \in [Schedulers -> SUBSET Pids],
           \A q \in Schedulers : todo'[q] \subseteq procs[q],
           \A q \in Schedulers : pc[q] # "free_set" => todo'[q] = todo[q],
           \A q \in Schedulers : npc[q] = "free_set" => todo'[q] = {}
    PROVE  SchedulerInv'
<1> USE TypesOf DEF Early, Gone, Leaving, Visiting, Places, Alive, Ended
<1>1. /\ pc' \in [Pids -> Places]
      /\ \A q \in Pids : \/ pc'[q] = npc[q] /\ exit_status'[q] = exit_status[q]
                         \/ /\ pc[q] \notin Gone \cup {"free"}
                            /\ pc'[q] = "dead" /\ exit_status'[q] = "killed"
  BY DEF Deliver
<1>2. /\ handler' \in [Pids -> {"sched", "default"}] /\ caught' \in [Pids -> BOOLEAN]
      /\ exit_status' \in [Pids -> Statuses]
  <2>1. handler' \in [Pids -> {"sched", "default"}]
    BY DEF Deliver
  <2>2. caught' \in [Pids -> BOOLEAN]
    BY DEF Deliver
  <2>3. exit_status' \in [Pids -> Statuses]
    BY DEF Deliver, Statuses
  <2> QED
    BY <2>1, <2>2, <2>3
<1>3. \A q \in Schedulers : todo'[q] \subseteq procs'[q]
  OBVIOUS
<1>4. \A q \in Schedulers : pc'[q] = "read" => \A x \in todo'[q] : pipe[x] # <<>> \/ pc[x] \in Gone
  BY <1>1
<1>5. \A q \in Pids : /\ pc'[q] = "free" <=> pc[q] = "free"
                      /\ pc[q] \in Gone => pc'[q] \in Gone
                      /\ pc'[q] \in Early => pc[q] \in Early /\ exit_status'[q] # "success"
                      /\ exit_status'[q] = "success" =>
                           Stream(q) = Full /\ (pc'[q] \in Gone => toprint[q] = <<>>)
                      /\ pc'[q] \in Leaving => toprint[q] = <<>>
  BY <1>1
<1>6. \A q \in Provers : pc'[q] = "print" => pc[q] = "print"
  BY <1>1
<1>7. /\ retried \subseteq retried' /\ retried' \subseteq Schedulers \ {Root}
      /\ procs' \in [Pids -> SUBSET Pids]
      /\ \A q \in Pids : procs'[q] \subseteq procs[q]
  OBVIOUS
<1>8. \A q \in Schedulers : pc'[q] \notin Visiting => todo'[q] = {}
  BY <1>1
<1> QED
  BY <1>1, <1>2, <1>3, <1>4, <1>5, <1>6, <1>7, <1>8, NoOutputMoves, Zenon

LEMMA CleanupStep ==
    ASSUME SchedulerInv, UNCHANGED machine, NEW p \in Schedulers, NEW c \in procs[p],
           Cleanup(p, c)
    PROVE  SchedulerInv'
<1>1. pc[p] = "free_set" /\ c \in Pids /\ UNCHANGED <<machine, next, retried, streams>>
  BY TypesOf DEF Cleanup, schedule
<1>2. CASE pc[c] = "reaped"
  <2>1. /\ procs' = [procs EXCEPT ![p] = @ \ {c}]
        /\ UNCHANGED <<pc, todo, handler, caught, exit_status>>
    BY <1>2 DEF Cleanup, signals
  <2>2. todo[p] = {} /\ todo' \in [Schedulers -> SUBSET Pids]
    BY <1>1, <2>1, TypesOf DEF Visiting, Gone
  <2> QED
    BY <1>1, <1>2, <2>1, <2>2, ChildLeavesBooks DEF Gone
<1>3. CASE pc[c] # "reaped"
  <2> DEFINE npc == [pc EXCEPT ![p] = "waitpid"]
  <2>1. /\ todo' = [todo EXCEPT ![p] = {c}] /\ Deliver({c}, npc) /\ UNCHANGED procs
    BY <1>3 DEF Cleanup
  <2>2. /\ npc \in [Pids -> Places]
        /\ \A q \in Pids : npc[q] = pc[q] \/ (pc[q] = "free_set" /\ npc[q] = "waitpid")
    BY <1>1, TypesOf DEF Places, Leaving
  <2>3. todo' \in [Schedulers -> SUBSET Pids]
    BY <1>1, <2>1, TypesOf
  <2>4. \A q \in Schedulers : /\ todo'[q] \subseteq procs[q]
                              /\ pc[q] # "free_set" => todo'[q] = todo[q]
                              /\ npc[q] = "free_set" => todo'[q] = {}
    BY <1>1, <2>1, TypesOf DEF Visiting, Gone
  <2> HIDE DEF npc
  <2> QED
    BY <1>1, <2>1, <2>2, <2>3, <2>4, SignalDelivered
<1> QED
  BY <1>2, <1>3

LEMMA TerminateStep ==
    ASSUME SchedulerInv, UNCHANGED machine, Terminate
    PROVE  SchedulerInv'
<1>1. PICK S : Deliver(S, pc)
  BY DEF Terminate
<1>2. UNCHANGED <<machine, next, retried, streams, procs, todo>>
  BY DEF Terminate, schedule
<1>3. \A q \in Schedulers : pc[q] = "free_set" => todo'[q] = {}
  BY <1>2, TypesOf DEF Visiting, Gone
<1>4. /\ pc \in [Pids -> Places] /\ todo' \in [Schedulers -> SUBSET Pids]
      /\ \A q \in Schedulers : todo'[q] \subseteq procs[q] /\ todo'[q] = todo[q]
  BY <1>2, TypesOf
<1> QED
  BY <1>1, <1>2, <1>3, <1>4, SignalDelivered

LEMMA WaitPidStep ==
    ASSUME SchedulerInv, UNCHANGED machine, NEW p \in Schedulers, NEW c \in todo[p],
           WaitPid(p, c)
    PROVE  SchedulerInv'
<1>1. /\ pc[p] = "waitpid" /\ pc[c] = "dead" /\ c \in Pids
      /\ pc' = [pc EXCEPT ![c] = "reaped", ![p] = "free_set"]
      /\ todo'  = [todo EXCEPT ![p] = {}]
      /\ procs' = [procs EXCEPT ![p] = @ \ {c}]
      /\ UNCHANGED <<machine, next, retried, streams, handler, caught, exit_status>>
  BY TypesOf DEF WaitPid, schedule, signals
<1>2. todo' \in [Schedulers -> SUBSET Pids]
  BY <1>1, TypesOf
<1>3. \A q \in Schedulers : todo'[q] \subseteq todo[q] /\ c \notin todo'[p]
  BY <1>1, TypesOf
<1> QED
  BY <1>1, <1>2, <1>3, ChildLeavesBooks DEF Gone

----------------------------------------------------------------------------
(* Steps that move output *)

(* A process starts to print what it has found or been given. *)
LEMMA AnswerStarts ==
    ASSUME SchedulerInv, UNCHANGED <<machine, next, retried, procs, pipe, output, handler, caught>>,
           NEW p \in Pids, pc[p] \in Early \ {"free"},
           NEW text \in {<<>>, <<"status">>, Full}, p \in Provers => text = Full,
           toprint' = [toprint EXCEPT ![p] = text],
           pc' \in [Pids -> Places], pc'[p] = "print",
           \A q \in Pids \ {p} : pc'[q] = pc[q] \/ (pc[q] \in Gone /\ pc'[q] \in Gone),
           exit_status' \in [Pids -> Statuses],
           \A q \in Pids \ {p} : exit_status'[q] = exit_status[q],
           exit_status'[p] = "success" => text = Full,
           todo' \in [Schedulers -> SUBSET Pids],
           \A q \in Schedulers \ {p} : todo'[q] = todo[q],
           p \in Schedulers => todo'[p] = {}
    PROVE  SchedulerInv'
<1> USE TypesOf DEF Early, Gone, Leaving, Visiting, Places
<1>1. toprint \in [Pids -> Seq(Chunks)] /\ pipe \in [Pids -> Seq(Chunks)]
      /\ output \in [Pids -> Seq(Chunks)]
  BY DEF SchedulerInv, TypeInv
<1>2. Stream(p) = <<>> /\ output[p] = <<>> /\ pipe[p] = <<>>
  <2>1. Stream(p) = <<>>
    BY DEF SchedulerInv, OutputInv
  <2> QED
    BY <1>1, <2>1, NothingWritten DEF Stream
<1>3. text \in Seq(Chunks)
  <2>1. <<"status">> \in Seq(Chunks) /\ <<"status", "proof">> \in Seq(Chunks)
    BY DEF Chunks
  <2>2. <<>> \in Seq(Chunks)
    OBVIOUS
  <2> QED
    BY <2>1, <2>2 DEF Full
<1>4. Stream(p)' = text
  <2>1. toprint'[p] = text /\ output'[p] = <<>> /\ pipe'[p] = <<>>
    BY <1>1, <1>2
  <2>2. <<>> \o (<<>> \o text) = text
    BY <1>3, ConcatEmptySeq
  <2> QED
    BY <2>1, <2>2 DEF Stream
<1>5. \A q \in Pids \ {p} : toprint'[q] = toprint[q] /\ Stream(q)' = Stream(q)
  BY <1>1 DEF Stream
<1>6. MachineInv'
  BY DEF SchedulerInv, MachineInv
<1>7. TypeInv'
  <2>1. toprint' \in [Pids -> Seq(Chunks)]
    BY <1>1, <1>3
  <2>2. \A q \in Schedulers : next'[q] <= LastStrategy(q)' + 1
    BY DEF SchedulerInv, TypeInv, LastStrategy
  <2> QED
    BY <1>1, <2>1, <2>2 DEF SchedulerInv, TypeInv
<1>8. BooksInv'
  <2>1. \A q \in Pids : \A c \in procs'[q] : c # Root /\ Front(c) = q /\ pc'[c] # "free"
    BY DEF SchedulerInv, BooksInv
  <2>2. \A q \in Schedulers : \A i \in Nat :
           i >= next'[q] /\ Append(q, i) \in Pids => pc'[Append(q, i)] = "free"
    BY DEF SchedulerInv, BooksInv
  <2>3. \A q \in Schedulers : /\ todo'[q] \subseteq procs'[q]
                              /\ pc'[q] = "read" => \A c \in todo'[q] : pipe'[c] # <<>> \/ pc'[c] \in Gone
                              /\ pc'[q] \notin Visiting => todo'[q] = {}
    <3> SUFFICES ASSUME NEW q \in Schedulers
                 PROVE  /\ todo'[q] \subseteq procs'[q]
                        /\ pc'[q] = "read" => \A c \in todo'[q] : pipe'[c] # <<>> \/ pc'[c] \in Gone
                        /\ pc'[q] \notin Visiting => todo'[q] = {}
      OBVIOUS
    <3>1. CASE q = p
      BY <3>1
    <3>2. CASE q # p
      <4>1. todo'[q] = todo[q] /\ (pc'[q] = pc[q] \/ (pc[q] \in Gone /\ pc'[q] \in Gone))
        BY <3>2
      <4>2. \A c \in todo[q] : pc[c] \in Gone => pc'[c] \in Gone
        BY DEF Gone
      <4> QED
        BY <4>1, <4>2
    <3> QED
      BY <3>1, <3>2
  <2> QED
    BY <2>1, <2>2, <2>3 DEF BooksInv
<1>9. OutputInv'
  <2>1. output'[Root] = <<>>
    BY DEF SchedulerInv, OutputInv
  <2>2. ASSUME NEW q \in Pids
        PROVE  /\ Stream(q)' \in {<<>>, <<"status">>, Full}
               /\ pc'[q] \in Early => Stream(q)' = <<>> /\ exit_status'[q] # "success"
               /\ q \in Provers /\ pc'[q] = "print" => Stream(q)' = Full
               /\ exit_status'[q] = "success" =>
                    Stream(q)' = Full /\ (pc'[q] \in Gone => toprint'[q] = <<>>)
               /\ pc'[q] \in Leaving => toprint'[q] = <<>>
    <3>1. CASE q = p
      BY <1>4, <3>1
    <3>2. CASE q # p
      <4>1. /\ toprint'[q] = toprint[q] /\ Stream(q)' = Stream(q) /\ exit_status'[q] = exit_status[q]
            /\ pc'[q] = pc[q] \/ (pc[q] \in Gone /\ pc'[q] \in Gone)
        BY <1>5, <3>2
      <4>2. /\ Stream(q) \in {<<>>, <<"status">>, Full}
            /\ pc[q] \in Early => Stream(q) = <<>>
        BY DEF SchedulerInv, OutputInv
      <4> QED
        BY <4>1, <4>2
    <3> QED
      BY <3>1, <3>2
  <2> QED
    BY <2>1, <2>2 DEF OutputInv, Pids
<1> QED
  BY <1>6, <1>7, <1>8, <1>9 DEF SchedulerInv

LEMMA FindProofStep ==
    ASSUME SchedulerInv, UNCHANGED machine, NEW p \in Pids, FindProof(p)
    PROVE  SchedulerInv'
<1>1. /\ pc[p] = "search" /\ pc' = [pc EXCEPT ![p] = "print"]
      /\ toprint' = [toprint EXCEPT ![p] = Full]
      /\ UNCHANGED <<machine, next, retried, procs, pipe, output, handler, caught, todo, exit_status>>
  BY DEF FindProof, Goto, schedule, signals, Full
<1>2. pc[p] \in Early \ {"free"} /\ exit_status'[p] # "success"
  BY <1>1, TypesOf DEF Early
<1>3. pc' \in [Pids -> Places] /\ pc'[p] = "print" /\ \A q \in Pids \ {p} : pc'[q] = pc[q]
  BY <1>1, TypesOf DEF Places
<1>4. \A q \in Schedulers : q = p => todo'[q] = {}
  BY <1>1, TypesOf DEF Visiting, Gone
<1>5. exit_status' \in [Pids -> Statuses] /\ todo' \in [Schedulers -> SUBSET Pids]
  BY <1>1, TypesOf
<1> QED
  BY <1>1, <1>2, <1>3, <1>4, <1>5, AnswerStarts

(* A chunk moves within the output of one process. *)
LEMMA ChunkMoves ==
    ASSUME SchedulerInv, NEW c \in Pids,
           UNCHANGED <<machine, pc, next, retried, procs, handler, caught, exit_status>>,
           toprint' \in [Pids -> Seq(Chunks)], pipe' \in [Pids -> Seq(Chunks)],
           output' \in [Pids -> Seq(Chunks)],
           Stream(c)' = Stream(c),
           \A q \in Pids \ {c} : /\ toprint'[q] = toprint[q] /\ pipe'[q] = pipe[q]
                                 /\ output'[q] = output[q],
           toprint'[c] = toprint[c] \/ pc[c] = "print",
           c = Root => output'[c] = output[c],
           todo' \in [Schedulers -> SUBSET Pids],
           \A q \in Schedulers : todo'[q] \subseteq todo[q],
           \A q \in Schedulers : c \in todo'[q] => pipe'[c] # <<>> \/ pipe'[c] = pipe[c]
    PROVE  SchedulerInv'
<1> USE TypesOf DEF Early, Gone, Leaving, Visiting, Places
<1>1. \A q \in Pids : Stream(q)' = Stream(q)
  BY DEF Stream
<1>2. MachineInv'
  BY DEF SchedulerInv, MachineInv
<1>3. TypeInv'
  <2>1. \A q \in Schedulers : next'[q] <= LastStrategy(q)' + 1
    BY DEF SchedulerInv, TypeInv, LastStrategy
  <2> QED
    BY <2>1 DEF SchedulerInv, TypeInv
<1>4. BooksInv'
  <2>1. \A q \in Pids : \A x \in procs'[q] : x # Root /\ Front(x) = q /\ pc'[x] # "free"
    BY DEF SchedulerInv, BooksInv
  <2>2. \A q \in Schedulers : \A i \in Nat :
           i >= next'[q] /\ Append(q, i) \in Pids => pc'[Append(q, i)] = "free"
    BY DEF SchedulerInv, BooksInv
  <2>3. \A q \in Schedulers : pc[q] = "read" =>
           \A x \in todo'[q] : pipe'[x] # <<>> \/ pc[x] \in Gone
    <3> SUFFICES ASSUME NEW q \in Schedulers, pc[q] = "read", NEW x \in todo'[q]
                 PROVE  pipe'[x] # <<>> \/ pc[x] \in Gone
      OBVIOUS
    <3>1. x \in Pids /\ (pipe[x] # <<>> \/ pc[x] \in Gone)
      BY DEF Gone
    <3>2. CASE x = c
      BY <3>1, <3>2
    <3>3. CASE x # c
      BY <3>1, <3>3
    <3> QED
      BY <3>2, <3>3
  <2>4. \A q \in Schedulers : /\ todo'[q] \subseteq procs'[q]
                              /\ pc'[q] \notin Visiting => todo'[q] = {}
    OBVIOUS
  <2> QED
    BY <2>1, <2>2, <2>3, <2>4 DEF BooksInv
<1>5. OutputInv'
  <2>1. output'[Root] = <<>>
    BY DEF SchedulerInv, OutputInv, Pids, Schedulers
  <2>2. ASSUME NEW q \in Pids
        PROVE  /\ Stream(q)' \in {<<>>, <<"status">>, Full}
               /\ pc'[q] \in Early => Stream(q)' = <<>> /\ exit_status'[q] # "success"
               /\ exit_status'[q] = "success" =>
                    Stream(q)' = Full /\ (pc'[q] \in Gone => toprint'[q] = <<>>)
               /\ pc'[q] \in Leaving => toprint'[q] = <<>>
    <3>1. /\ Stream(q) \in {<<>>, <<"status">>, Full}
          /\ pc[q] \in Early => Stream(q) = <<>>
      BY DEF SchedulerInv, OutputInv
    <3>2. toprint'[q] = toprint[q] \/ pc[q] = "print"
      OBVIOUS
    <3> QED
      BY <1>1, <3>1, <3>2
  <2>3. \A q \in Provers : pc'[q] = "print" => Stream(q)' = Full
    BY <1>1
  <2> QED
    BY <2>1, <2>2, <2>3 DEF OutputInv
<1> QED
  BY <1>2, <1>3, <1>4, <1>5 DEF SchedulerInv

LEMMA StreamTypes ==
    ASSUME SchedulerInv
    PROVE  /\ toprint \in [Pids -> Seq(Chunks)] /\ pipe \in [Pids -> Seq(Chunks)]
           /\ output \in [Pids -> Seq(Chunks)]
BY DEF SchedulerInv, TypeInv

LEMMA WriteChunkStep ==
    ASSUME SchedulerInv, UNCHANGED machine, NEW p \in Pids, WriteChunk(p)
    PROVE  SchedulerInv'
<1>1. /\ pc[p] = "print" /\ toprint[p] # <<>>
      /\ UNCHANGED <<machine, next, retried, procs, todo, handler, caught>>
  BY DEF WriteChunk, schedule, signals
<1>2. CASE p # Root /\ ~HasReader(p)
  <2>1. /\ pc' = [pc EXCEPT ![p] = "dead"] /\ exit_status' = [exit_status EXCEPT ![p] = "sigpipe"]
        /\ UNCHANGED streams
    BY <1>2 DEF WriteChunk, Exit, Goto
  <2>2. handler' \in [Pids -> {"sched", "default"}] /\ pc[p] \notin Gone \cup {"free"}
    BY <1>1, TypesOf DEF Gone
  <2>3. "dead" \in Leaving \cup Gone /\ "dead" \notin Leaving /\ "dead" \in Visiting
        /\ "sigpipe" \in Statuses /\ "sigpipe" # "success"
    BY DEF Gone, Leaving, Visiting, Statuses
  <2> QED
    BY <1>1, <2>1, <2>2, <2>3, ProcessLeaves
<1>3. CASE ~(p # Root /\ ~HasReader(p))
  <2>1. /\ pipe'    = [pipe EXCEPT ![p] = Append(@, Head(toprint[p]))]
        /\ toprint' = [toprint EXCEPT ![p] = Tail(@)]
        /\ UNCHANGED <<pc, output, exit_status>>
    BY <1>3 DEF WriteChunk
  <2>2. /\ output[p] \in Seq(Chunks) /\ pipe[p] \in Seq(Chunks) /\ toprint[p] \in Seq(Chunks)
    BY StreamTypes
  <2>3. /\ Append(pipe[p], Head(toprint[p])) \in Seq(Chunks) /\ Tail(toprint[p]) \in Seq(Chunks)
        /\ output[p] \o (Append(pipe[p], Head(toprint[p])) \o Tail(toprint[p]))
             = output[p] \o (pipe[p] \o toprint[p])
    <3> DEFINE o == output[p]
               a == pipe[p]
               t == toprint[p]
    <3>1. o \in Seq(Chunks) /\ a \in Seq(Chunks) /\ t \in Seq(Chunks) /\ t # <<>>
      BY <1>1, <2>2
    <3> HIDE DEF o, a, t
    <3>2. /\ Append(a, Head(t)) \in Seq(Chunks) /\ Tail(t) \in Seq(Chunks)
          /\ o \o (Append(a, Head(t)) \o Tail(t)) = o \o (a \o t)
      BY <3>1, ChunkToPipe
    <3> QED
      BY <3>2 DEF o, a, t
  <2>4. /\ toprint' \in [Pids -> Seq(Chunks)] /\ pipe' \in [Pids -> Seq(Chunks)]
        /\ output' \in [Pids -> Seq(Chunks)]
    BY <2>1, <2>3, StreamTypes
  <2>5. Stream(p)' = Stream(p)
    BY <2>1, <2>3, StreamTypes DEF Stream
  <2>6. \A q \in Pids \ {p} : /\ toprint'[q] = toprint[q] /\ pipe'[q] = pipe[q]
                              /\ output'[q] = output[q]
    BY <2>1, StreamTypes
  <2>7. pipe'[p] # <<>>
    <3>1. Head(toprint[p]) \in Chunks
      BY <1>1, <2>2, HeadTailProperties
    <3> QED
      BY <2>1, <2>2, <3>1, StreamTypes, AppendProperties
  <2>8. todo' \in [Schedulers -> SUBSET Pids] /\ \A q \in Schedulers : todo'[q] \subseteq todo[q]
    BY <1>1, TypesOf
  <2> QED
    BY <1>1, <2>1, <2>4, <2>5, <2>6, <2>7, <2>8, ChunkMoves
<1> QED
  BY <1>2, <1>3

(* Only its parent has a child on its list. *)
LEMMA ParentOf ==
    ASSUME SchedulerInv, NEW p \in Schedulers, NEW c \in todo[p]
    PROVE  c \in Pids /\ c # Root /\ \A q \in Schedulers : c \in todo[q] => q = p
<1>1. \A q \in Schedulers : c \in todo[q] => Front(c) = q /\ c # Root
  BY DEF SchedulerInv, BooksInv, Pids
<1> QED
  BY <1>1, TypesOf

LEMMA ReadOutputStep ==
    ASSUME SchedulerInv, UNCHANGED machine, NEW p \in Schedulers, NEW c \in todo[p],
           ReadOutput(p, c)
    PROVE  SchedulerInv'
<1>1. /\ pipe[c] # <<>> /\ todo' = [todo EXCEPT ![p] = @ \ {c}]
      /\ output' = [output EXCEPT ![c] = Append(@, Head(pipe[c]))]
      /\ pipe'   = [pipe EXCEPT ![c] = Tail(@)]
      /\ UNCHANGED <<machine, pc, next, retried, procs, toprint, handler, caught, exit_status>>
  BY DEF ReadOutput, schedule, signals
<1>2. c \in Pids /\ c # Root /\ \A q \in Schedulers : c \in todo[q] => q = p
  BY ParentOf
<1>3. /\ output[c] \in Seq(Chunks) /\ pipe[c] \in Seq(Chunks) /\ toprint[c] \in Seq(Chunks)
  BY <1>2, StreamTypes
<1>4. /\ Append(output[c], Head(pipe[c])) \in Seq(Chunks) /\ Tail(pipe[c]) \in Seq(Chunks)
      /\ Append(output[c], Head(pipe[c])) \o (Tail(pipe[c]) \o toprint[c])
           = output[c] \o (pipe[c] \o toprint[c])
  <2> DEFINE o == output[c]
             a == pipe[c]
             t == toprint[c]
  <2>1. o \in Seq(Chunks) /\ a \in Seq(Chunks) /\ t \in Seq(Chunks) /\ a # <<>>
    BY <1>1, <1>3
  <2> HIDE DEF o, a, t
  <2>2. /\ Append(o, Head(a)) \in Seq(Chunks) /\ Tail(a) \in Seq(Chunks)
        /\ Append(o, Head(a)) \o (Tail(a) \o t) = o \o (a \o t)
    BY <2>1, ChunkToOutput
  <2> QED
    BY <2>2 DEF o, a, t
<1>5. /\ toprint' \in [Pids -> Seq(Chunks)] /\ pipe' \in [Pids -> Seq(Chunks)]
      /\ output' \in [Pids -> Seq(Chunks)]
  BY <1>1, <1>4, StreamTypes
<1>6. Stream(c)' = Stream(c)
  BY <1>1, <1>2, <1>4, StreamTypes DEF Stream
<1>7. \A q \in Pids \ {c} : /\ toprint'[q] = toprint[q] /\ pipe'[q] = pipe[q]
                            /\ output'[q] = output[q]
  BY <1>1, StreamTypes
<1>8. /\ todo' \in [Schedulers -> SUBSET Pids]
      /\ \A q \in Schedulers : todo'[q] \subseteq todo[q] /\ c \notin todo'[q]
  BY <1>1, <1>2, TypesOf
<1> QED
  BY <1>1, <1>2, <1>5, <1>6, <1>7, <1>8, ChunkMoves

LEMMA GetResultStep ==
    ASSUME SchedulerInv, UNCHANGED machine, NEW p \in Schedulers, NEW c \in todo[p],
           GetResult(p, c)
    PROVE  SchedulerInv'
<1>1. /\ pc[p] = "read" /\ pipe[c] = <<>>
      /\ UNCHANGED <<machine, next, retried, pipe, output, handler, caught>>
  BY DEF GetResult, schedule, signals
<1>2. c \in Pids /\ pc[c] \in Gone /\ p \in Pids
  BY <1>1, ParentOf, TypesOf
<1>3. p # c
  BY <1>1, <1>2 DEF Gone
<1>4. CASE IsResult(c)
  <2>1. /\ pc' = [pc EXCEPT ![c] = "reaped", ![p] = "print"]
        /\ toprint' = [toprint EXCEPT ![p] = output[c]]
        /\ exit_status' = [exit_status EXCEPT ![p] = exit_status[c]]
        /\ todo' = [todo EXCEPT ![p] = {}]
        /\ UNCHANGED procs
    BY <1>4 DEF GetResult, ResultStatus
  <2>2. /\ output[c] \in Seq(Chunks) /\ pipe[c] \in Seq(Chunks) /\ toprint[c] \in Seq(Chunks)
    BY <1>2, StreamTypes
  <2>3. output[c] \in {<<>>, <<"status">>, Full}
    <3>1. Stream(c) \in {<<>>, <<"status">>, Full}
      BY <1>2 DEF SchedulerInv, OutputInv
    <3>2. pipe[c] \o toprint[c] \in Seq(Chunks)
      BY <2>2, ConcatProperties
    <3> QED
      BY <2>2, <3>1, <3>2, PartOfAnswer DEF Stream
  <2>4. exit_status[c] = "success" => output[c] = Full
    <3> SUFFICES ASSUME exit_status[c] = "success"
                 PROVE  output[c] = Full
      OBVIOUS
    <3>1. Stream(c) = Full /\ toprint[c] = <<>>
      BY <1>2, TypesOf
    <3>2. Stream(c) = output[c]
      BY <1>1, <2>2, <3>1, NothingWritten DEF Stream
    <3> QED
      BY <3>1, <3>2
  <2>5. /\ pc' \in [Pids -> Places] /\ pc'[p] = "print" /\ pc[p] \in Early \ {"free"}
        /\ \A q \in Pids \ {p} : pc'[q] = pc[q] \/ (pc[q] \in Gone /\ pc'[q] \in Gone)
    BY <1>1, <1>2, <1>3, <2>1, TypesOf DEF Places, Early, Gone
  <2>6. /\ exit_status' \in [Pids -> Statuses] /\ exit_status'[p] = exit_status[c]
        /\ \A q \in Pids \ {p} : exit_status'[q] = exit_status[q]
    BY <1>2, <2>1, TypesOf
  <2>7. /\ todo' \in [Schedulers -> SUBSET Pids] /\ todo'[p] = {}
        /\ \A q \in Schedulers \ {p} : todo'[q] = todo[q]
    BY <2>1, TypesOf
  <2>8. p \notin Provers
    BY ProversAreLeaves
  <2> QED
    BY <1>1, <1>2, <2>1, <2>3, <2>4, <2>5, <2>6, <2>7, <2>8, AnswerStarts
<1>5. CASE ~IsResult(c)
  <2>1. /\ pc' = [pc EXCEPT ![c] = "reaped"]
        /\ todo'  = [todo EXCEPT ![p] = @ \ {c}]
        /\ procs' = [procs EXCEPT ![p] = @ \ {c}]
        /\ UNCHANGED <<toprint, exit_status>>
    BY <1>5 DEF GetResult, Goto
  <2>2. /\ todo' \in [Schedulers -> SUBSET Pids]
        /\ \A q \in Schedulers : todo'[q] \subseteq todo[q] /\ c \notin todo'[p]
    BY <2>1, TypesOf
  <2>3. UNCHANGED <<machine, next, retried, streams, handler, caught, exit_status>>
    BY <1>1, <2>1 DEF streams
  <2> QED
    BY <1>2, <2>1, <2>2, <2>3, ChildLeavesBooks
<1> QED
  BY <1>4, <1>5

(* A new child takes the name of the next strategy, which nobody has had. *)
LEMMA EGPCtrlCreateStep ==
    ASSUME SchedulerInv, UNCHANGED machine, NEW p \in Schedulers, EGPCtrlCreate(p)
    PROVE  SchedulerInv'
<1> DEFINE i == next[p]
           c == Append(p, i)
<1>1. /\ pc[p] = "start" /\ i <= LastStrategy(p)
      /\ pc' = [pc EXCEPT ![c] = "forked"] /\ next' = [next EXCEPT ![p] = i + 1]
      /\ procs' = [procs EXCEPT ![p] = @ \cup {c}]
      /\ handler' = [handler EXCEPT ![c] = handler[p]]
      /\ caught'  = [caught EXCEPT ![c] = caught[p]]
      /\ UNCHANGED <<machine, retried, todo, toprint, pipe, output, exit_status>>
  BY DEF EGPCtrlCreate, CanStart, Goto, streams
<1>2. i \in Nat \ {0} /\ p \in Pids
  BY TypesOf
<1>3. c \in Pids
  BY <1>1, NextChild DEF SchedulerInv
<1>4. c # Root /\ Front(c) = p
  BY <1>2, ChildOf
<1>5. pc[c] = "free"
  BY <1>2, <1>3 DEF SchedulerInv, BooksInv
<1>6. \A q \in Schedulers, j \in Nat : Append(q, j) = c => q = p /\ j = i
  BY <1>2, SameChild
<1> HIDE DEF c
<1>7. pc' \in [Pids -> Places] /\ \A q \in Pids : pc'[q] = IF q = c THEN "forked" ELSE pc[q]
  BY <1>1, <1>3, TypesOf DEF Places, Early
<1>8. \A q \in Pids : Stream(q)' = Stream(q)
  BY <1>1 DEF Stream
<1>9. MachineInv'
  BY <1>1 DEF SchedulerInv, MachineInv
<1>10. TypeInv'
  <2>1. /\ next' \in [Schedulers -> Nat \ {0}]
        /\ procs' \in [Pids -> SUBSET Pids]
        /\ handler' \in [Pids -> {"sched", "default"}] /\ caught' \in [Pids -> BOOLEAN]
    BY <1>1, <1>2, <1>3, TypesOf
  <2>2. \A q \in Schedulers : next'[q] <= LastStrategy(q)' + 1
    <3> SUFFICES ASSUME NEW q \in Schedulers
                 PROVE  next'[q] <= LastStrategy(q)' + 1
      OBVIOUS
    <3>1. LastStrategy(q)' = LastStrategy(q) /\ LastStrategy(q) \in Nat
      <4>1. retried \subseteq retried' /\ retried' \subseteq Schedulers \ {Root}
        BY <1>1, TypesOf
      <4>2. LastStrategy(q)' = LastStrategy(q)
        BY <1>1 DEF LastStrategy
      <4> QED
        BY <4>1, <4>2, FewerStrategiesBefore DEF SchedulerInv
    <3>2. next[q] <= LastStrategy(q) + 1 /\ next'[q] = IF q = p THEN i + 1 ELSE next[q]
      BY <1>1, TypesOf DEF SchedulerInv, TypeInv
    <3> QED
      BY <1>1, <1>2, <3>1, <3>2
  <2> QED
    BY <1>1, <1>7, <2>1, <2>2 DEF SchedulerInv, TypeInv
<1>11. BooksInv'
  <2>1. \A q \in Pids : \A x \in procs'[q] : x # Root /\ Front(x) = q /\ pc'[x] # "free"
    <3>1. \A q \in Pids : procs'[q] = IF q = p THEN procs[p] \cup {c} ELSE procs[q]
      BY <1>1, TypesOf
    <3>2. \A q \in Pids : \A x \in procs[q] : x # Root /\ Front(x) = q /\ pc[x] # "free"
      BY DEF SchedulerInv, BooksInv
    <3>3. \A q \in Pids : \A x \in procs[q] : x \in Pids
      BY TypesOf
    <3> QED
      BY <1>3, <1>4, <1>7, <3>1, <3>2, <3>3
  <2>2. ASSUME NEW q \in Schedulers, NEW j \in Nat, j >= next'[q], Append(q, j) \in Pids
        PROVE  pc'[Append(q, j)] = "free"
    <3>1. next'[q] = (IF q = p THEN i + 1 ELSE next[q]) /\ next[q] \in Nat
      BY <1>1, TypesOf
    <3>2. j >= next[q] /\ ~(q = p /\ j = i)
      BY <1>2, <2>2, <3>1
    <3>3. pc[Append(q, j)] = "free"
      BY <2>2, <3>2 DEF SchedulerInv, BooksInv
    <3>4. Append(q, j) # c
      BY <1>6, <3>2
    <3> QED
      BY <1>7, <2>2, <3>3, <3>4
  <2>3. ASSUME NEW q \in Schedulers
        PROVE  /\ todo'[q] \subseteq procs'[q]
               /\ pc'[q] = "read" => \A x \in todo'[q] : pipe'[x] # <<>> \/ pc'[x] \in Gone
               /\ pc'[q] \notin Visiting => todo'[q] = {}
    <3>1. /\ todo'[q] = todo[q] /\ todo[q] \subseteq procs[q] /\ todo[q] \subseteq Pids
          /\ q \in Pids
      BY <1>1, TypesOf
    <3>2. procs[q] \subseteq procs'[q]
      BY <1>1, <3>1, TypesOf
    <3>3. /\ pc[q] = "read" => \A x \in todo[q] : pipe[x] # <<>> \/ pc[x] \in Gone
          /\ pc[q] \notin Visiting => todo[q] = {}
      BY TypesOf
    <3>4. /\ pc'[q] = "read" => pc[q] = "read"
          /\ pc'[q] \notin Visiting => pc[q] \notin Visiting
          /\ \A x \in todo[q] : pc[x] \in Gone => pc'[x] \in Gone
      BY <1>5, <1>7, <3>1 DEF Visiting, Gone
    <3> QED
      BY <1>1, <3>1, <3>2, <3>3, <3>4
  <2> QED
    BY <2>1, <2>2, <2>3 DEF BooksInv
<1>12. OutputInv'
  <2>1. output'[Root] = <<>> /\ \A q \in Pids : Stream(q)' \in {<<>>, <<"status">>, Full}
    BY <1>1, <1>8 DEF SchedulerInv, OutputInv
  <2>2. \A q \in Pids : /\ pc[q] \in Early => Stream(q) = <<>> /\ exit_status[q] # "success"
                        /\ pc'[q] \in Early => pc[q] \in Early
                        /\ pc'[q] \in Gone => pc[q] \in Gone
                        /\ pc'[q] \in Leaving => pc[q] \in Leaving
                        /\ pc'[q] = "print" => pc[q] = "print"
    BY <1>5, <1>7 DEF SchedulerInv, OutputInv, Early, Gone, Leaving
  <2>3. UNCHANGED <<toprint, exit_status>>
    BY <1>1
  <2> QED
    BY <1>8, <2>1, <2>2, <2>3, TypesOf DEF OutputInv
<1> QED
  BY <1>9, <1>10, <1>11, <1>12 DEF SchedulerInv

----------------------------------------------------------------------------
(* The first state and all the steps *)

(* A preprocessing schedule is never made longer. *)
LEMMA CoresForEach ==
    ASSUME NEW fractions \in Seq(1..100), NEW cores \in Nat \ {0}, NEW serialize \in BOOLEAN
    PROVE  /\ Len(PreprocessingCores(fractions, cores, {}, serialize)) \in Nat
           /\ Len(PreprocessingCores(fractions, cores, {}, serialize)) <= Len(fractions)
<1> DEFINE n == Least(Len(fractions), cores)
           given == PreprocessingCores(fractions, cores, {}, serialize)
<1>1. n \in Nat /\ n <= Len(fractions) /\ Len(fractions) \in Nat
  BY DEF Least
<1>2. DOMAIN Shortened(fractions, cores) = 1..n
  <2> HIDE DEF n
  <2>1. ASSUME NEW i \in 1..n
        PROVE  fractions[i] \in 1..100
    <3>1. i \in 1..Len(fractions)
      BY <1>1
    <3> QED
      BY <3>1, ElementOfSeq
  <2>2. /\ Len(SubSeq(fractions, 1, n)) = IF 1 <= n THEN n - 1 + 1 ELSE 0
        /\ SubSeq(fractions, 1, n) \in Seq(1..100)
    BY <1>1, <2>1, SubSeqProperties
  <2>3. Len(SubSeq(fractions, 1, n)) = n
    BY <1>1, <2>2
  <2> QED
    BY <2>2, <2>3, LenProperties DEF Shortened, n
<1>3. DOMAIN given = 1..n
  BY <1>2 DEF PreprocessingCores, AllocatedCores
<1> HIDE DEF n, given
<1>4. Len(given) = n
  BY <1>1, <1>3
<1> QED
  BY <1>1, <1>4 DEF given

LEMMA SchedulerInit == Init => SchedulerInv
<1> SUFFICES ASSUME Init PROVE SchedulerInv
  OBVIOUS
<1>1. MachineInv
  <2>1. PICK m \in Machines :
          machine = [max_cores |-> IF m.serialize THEN 1 ELSE m.num_cpus,
                     pre |-> PreprocessingCores(m.fractions, m.num_cpus, {}, m.serialize),
                     search |-> m.search, default |-> m.default]
    BY DEF Init
  <2>2. /\ m.fractions \in Seq(1..100) /\ m.num_cpus \in Nat \ {0} /\ m.serialize \in BOOLEAN
        /\ m.search \in Nat /\ m.default \in Nat
    BY MachinesAssumption
  <2>3. /\ machine.pre = PreprocessingCores(m.fractions, m.num_cpus, {}, m.serialize)
        /\ machine.search = m.search /\ machine.default = m.default
    BY <2>1
  <2>4. Len(machine.pre) \in Nat /\ Len(machine.pre) <= Len(m.fractions)
    BY <2>2, <2>3, CoresForEach
  <2>5. Len(m.fractions) \in Nat
    BY <2>2
  <2>6. 1..Len(machine.pre) \subseteq PreIndices
    <3>1. 1..Len(machine.pre) \subseteq 1..Len(m.fractions)
      BY <2>4, <2>5
    <3> QED
      BY <3>1 DEF PreIndices
  <2>7. 1..(machine.search + machine.default) \subseteq SearchIndices
    BY <2>3 DEF SearchIndices
  <2> QED
    BY <2>2, <2>3, <2>4, <2>6, <2>7 DEF MachineInv
<1>2. /\ pc \in [Pids -> {"enter", "free"}] /\ next = [p \in Schedulers |-> 1]
      /\ retried = {} /\ procs = [p \in Pids |-> {}] /\ todo = [p \in Schedulers |-> {}]
      /\ toprint = [p \in Pids |-> <<>>] /\ pipe = [p \in Pids |-> <<>>]
      /\ output = [p \in Pids |-> <<>>] /\ handler = [p \in Pids |-> "default"]
      /\ caught = [p \in Pids |-> FALSE] /\ exit_status = [p \in Pids |-> "none"]
      /\ \A p \in Pids : p # Root => pc[p] = "free"
  BY DEF Init
<1>3. Schedulers \subseteq Pids /\ Root \in Schedulers
  BY DEF Pids, Schedulers
<1>4. \A p \in Pids : Stream(p) = <<>>
  <2>1. <<>> \o (<<>> \o <<>>) = <<>>
    BY NothingWritten
  <2> QED
    BY <1>2, <2>1 DEF Stream
<1>5. TypeInv
  <2>1. \A p \in Schedulers : LastStrategy(p) \in Nat /\ next[p] <= LastStrategy(p) + 1
    BY <1>1, <1>2 DEF LastStrategy, MachineInv
  <2>2. pc \in [Pids -> Places] /\ exit_status \in [Pids -> Statuses]
    BY <1>2 DEF Places, Early, Statuses
  <2>3. <<>> \in Seq(Chunks)
    OBVIOUS
  <2> QED
    BY <1>2, <2>1, <2>2, <2>3 DEF TypeInv
<1>6. BooksInv
  <2>1. \A p \in Schedulers : \A i \in Nat : Append(p, i) # Root
    BY ChildOf
  <2>2. \A p \in Schedulers : pc[p] # "read"
    BY <1>2, <1>3
  <2> QED
    BY <1>2, <1>3, <2>1, <2>2 DEF BooksInv
<1>7. OutputInv
  <2>1. \A p \in Pids : pc[p] # "print" /\ pc[p] \notin Leaving /\ exit_status[p] # "success"
    BY <1>2 DEF Leaving
  <2>2. Provers \subseteq Pids
    BY DEF Pids
  <2> QED
    BY <1>2, <1>3, <1>4, <2>1, <2>2 DEF OutputInv
<1> QED
  BY <1>1, <1>5, <1>6, <1>7 DEF SchedulerInv

LEMMA SchedulerStep == SchedulerInv /\ [Next]_vars => SchedulerInv'
<1> SUFFICES ASSUME SchedulerInv, [Next]_vars PROVE SchedulerInv'
  OBVIOUS
<1>1. CASE UNCHANGED vars
  <2>1. /\ UNCHANGED <<machine, pc, next, retried, procs, todo, toprint, pipe, output, handler,
                       caught, exit_status>>
    BY <1>1 DEF vars
  <2>2. /\ \A p : Stream(p)' = Stream(p)
        /\ \A p : LastStrategy(p)' = LastStrategy(p)
    BY <2>1 DEF Stream, LastStrategy
  <2>3. MachineInv' /\ TypeInv'
    BY <2>1, <2>2 DEF SchedulerInv, MachineInv, TypeInv
  <2>4. BooksInv'
    BY <2>1 DEF SchedulerInv, BooksInv
  <2>5. OutputInv'
    BY <2>1, <2>2 DEF SchedulerInv, OutputInv
  <2> QED
    BY <2>3, <2>4, <2>5 DEF SchedulerInv
<1>2. ASSUME UNCHANGED machine, NEW p \in Schedulers, Scheduler(p)
      PROVE  SchedulerInv'
  <2>1. p \in Pids
    BY DEF Pids
  <2>2. CASE \/ InstallHandler(p) \/ TestLoop(p) \/ ScheduleDone(p) \/ CheckSigTerm(p)
             \/ ExitScheduler(p)
    BY <1>2, <2>1, <2>2, OneProcessMoves
  <2>3. CASE EGPCtrlCreate(p)
    BY <1>2, <2>3, EGPCtrlCreateStep
  <2>4. CASE Select(p)
    BY <1>2, <2>4, SelectStep
  <2>5. ASSUME NEW c \in todo[p], ReadOutput(p, c) \/ GetResult(p, c) \/ WaitPid(p, c)
        PROVE  SchedulerInv'
    BY <1>2, <2>5, ReadOutputStep, GetResultStep, WaitPidStep
  <2>6. ASSUME NEW c \in procs[p], Cleanup(p, c)
        PROVE  SchedulerInv'
    BY <1>2, <2>6, CleanupStep
  <2> QED
    BY <1>2, <2>2, <2>3, <2>4, <2>5, <2>6 DEF Scheduler
<1>3. ASSUME UNCHANGED machine, NEW p \in Pids,
             \/ BecomeChild(p) \/ Preprocess(p) \/ FindProof(p) \/ Fail(p)
             \/ WriteChunk(p) \/ Written(p)
      PROVE  SchedulerInv'
  BY <1>3, OneProcessMoves, FindProofStep, WriteChunkStep
<1>4. CASE Next
  <2>1. CASE Terminate
    BY <1>4, <2>1, TerminateStep DEF Next
  <2>2. CASE Done
    BY <1>1, <2>2 DEF Done
  <2> QED
    BY <1>2, <1>3, <1>4, <2>1, <2>2 DEF Next, Process
<1> QED
  BY <1>1, <1>4

LEMMA SchedulerInvHolds == Spec => []SchedulerInv
BY SchedulerInit, SchedulerStep, PTL DEF Spec

(* Whatever signals come, however the schedules are cut, retried and       *)
(* interrupted, and however small the pipes are: E exits with the status   *)
(* of success only if the proof of a prover has reached its stdout, whole  *)
(* and once (the result of ExecuteScheduleMultiCore).                      *)
THEOREM OnlyProofsSucceed == Spec => []SuccessMeansProof
<1>1. SchedulerInv => SuccessMeansProof
  <2> SUFFICES ASSUME SchedulerInv, Ended(Root), exit_status[Root] = "success"
               PROVE  pipe[Root] = Full
    BY DEF SuccessMeansProof, Full
  <2>1. Root \in Pids /\ pc[Root] \in Gone
    BY DEF Pids, Schedulers, Ended, Gone
  <2>2. Stream(Root) = Full /\ toprint[Root] = <<>>
    BY <2>1, TypesOf
  <2>3. output[Root] = <<>> /\ pipe[Root] \in Seq(Chunks)
    BY <2>1, StreamTypes DEF SchedulerInv, OutputInv
  <2>4. <<>> \in Seq(Chunks)
    OBVIOUS
  <2>5. Stream(Root) = pipe[Root]
    BY <2>2, <2>3, <2>4, NothingWritten DEF Stream
  <2> QED
    BY <2>2, <2>5
<1> QED
  BY <1>1, SchedulerInvHolds, PTL

(* A scheduler never starts a strategy that is not in its schedule, the    *)
(* processes in its EGPCtrlSet are children it has forked, and a pipe      *)
(* never holds more than one answer.                                       *)
THEOREM TypesAreRight == Spec => []TypeOK
<1>1. SchedulerInv => TypeOK
  <2> SUFFICES ASSUME SchedulerInv
               PROVE  TypeOK
    OBVIOUS
  <2>1. \A p \in Schedulers : next[p] \in 1..(LastStrategy(p) + 1)
    <3>1. \A p \in Schedulers : LastStrategy(p) \in Nat
      BY DEF SchedulerInv, MachineInv, LastStrategy
    <3> QED
      BY <3>1 DEF SchedulerInv, TypeInv
  <2>2. \A p \in Pids : \A c \in procs[p] : Front(c) = p /\ pc[c] # "free"
    BY DEF SchedulerInv, BooksInv
  <2>3. \A p \in Pids : Len(pipe[p]) <= 2 /\ Len(output[p]) <= 2
    <3> SUFFICES ASSUME NEW p \in Pids
                 PROVE  Len(pipe[p]) <= 2 /\ Len(output[p]) <= 2
      OBVIOUS
    <3>1. Len(Stream(p)) <= 2
      <4>1. Len(<<>>) = 0 /\ Len(<<"status">>) = 1 /\ Len(Full) = 2
        BY DEF Full
      <4>2. Stream(p) = <<>> \/ Stream(p) = <<"status">> \/ Stream(p) = Full
        BY DEF SchedulerInv, OutputInv
      <4> DEFINE x == Stream(p)
      <4>3. x = <<>> \/ x = <<"status">> \/ x = Full
        BY <4>2
      <4> HIDE DEF x
      <4>4. Len(x) = 0 \/ Len(x) = 1 \/ Len(x) = 2
        BY <4>1, <4>3
      <4>5. Len(x) <= 2
        BY <4>4, UpToTwo, Zenon
      <4> QED
        BY <4>5 DEF x
    <3>2. /\ output[p] \in Seq(Chunks) /\ pipe[p] \in Seq(Chunks) /\ toprint[p] \in Seq(Chunks)
      BY StreamTypes
    <3>3. /\ Len(output[p]) <= Len(Stream(p)) /\ Len(pipe[p]) <= Len(Stream(p))
          /\ Len(output[p]) \in Nat /\ Len(pipe[p]) \in Nat /\ Len(Stream(p)) \in Nat
      <4> DEFINE o == output[p]
                 a == pipe[p]
                 t == toprint[p]
      <4>1. o \in Seq(Chunks) /\ a \in Seq(Chunks) /\ t \in Seq(Chunks)
        BY <3>2
      <4> HIDE DEF o, a, t
      <4>2. Len(o) <= Len(o \o (a \o t)) /\ Len(a) <= Len(o \o (a \o t))
        BY <4>1, NothingWritten
      <4>3. a \o t \in Seq(Chunks)
        BY <4>1, ConcatProperties
      <4>4. Len(o \o (a \o t)) \in Nat /\ Len(o) \in Nat /\ Len(a) \in Nat
        BY <4>1, <4>3, ConcatProperties
      <4> QED
        BY <4>2, <4>4 DEF Stream, o, a, t
    <3> QED
      BY <3>1, <3>3
  <2>4. \A p \in Pids : handler[p] \in {"sched", "default"} /\ caught[p] \in BOOLEAN
    BY TypesOf
  <2> QED
    BY <2>1, <2>2, <2>3, <2>4, TypesOf DEF TypeOK
<1> QED
  BY <1>1, SchedulerInvHolds, PTL
=============================================================================
