--------------------- MODULE StrategySchedulerTreeProofs ---------------------
(***************************************************************************)
(* Proofs about the tree of processes of StrategyScheduler, for all calls  *)
(* of E and any number of signals: a scheduler leaves nothing behind, and  *)
(* the tree keeps the promise of Portfolio.                                *)
(*                                                                         *)
(* A child scheduler is either told to stop by a signal that it notes, and *)
(* then cleans up, or it is at a place where it has no children.  The one  *)
(* that is killed has noted a signal before, which has reached the whole   *)
(* process group or has come from the root.                                *)
(*                                                                         *)
(* What is printed has been announced further down; and what has been      *)
(* announced is on its way to the root until the root has heard of it, or  *)
(* has been told to stop.                                                  *)
(***************************************************************************)
EXTENDS StrategySchedulerProofs

Children == Schedulers \ {Root}

(* Where a scheduler has a child for which it is responsible *)
Running == {"start", "read", "test", "print", "free_set", "waitpid"}
(* Where a process has no children *)
Alone == {"free", "forked", "prep", "enter", "exhausted"}

Cut == {"killed", "sigpipe"}

(* A prover is not at work and will not be. *)
Over(c) == pc[c] \in Gone \cup {"free"} \/ (pc[c] = "forked" /\ caught[c])
BelowIsOver(s) == \A c \in Provers : Front(c) = s => Over(c)

RootWaitsFor(s) == pc[Root] = "waitpid" /\ s \in todo[Root]

PlacesInv ==
    /\ pc[Root] \notin {"free", "forked", "prep"}
    /\ \A p \in Schedulers : pc[p] # "search"
    /\ \A c \in Provers : pc[c] \in {"free", "forked", "search", "print"} \cup Gone
    /\ \A c, d \in todo[Root] : pc[Root] = "waitpid" => c = d

(* Every process is on the books of its parent until it is reaped. *)
ParentInv ==
    /\ \A c \in Pids \ {Root} : pc[c] \notin {"free", "reaped"} => c \in procs[Front(c)]
    /\ \A p \in Pids : pc[p] \in Alone \/ p \in Provers => procs[p] = {}
    /\ \A p \in Pids : pc[p] \in Gone /\ exit_status[p] \notin Cut => procs[p] = {}

SignalInv ==
    /\ \A s \in Children : handler[s] = "default" /\ pc[s] \in Running => caught[s]
    /\ \A c \in Provers : handler[c] = "sched" => pc[c] = "forked"
    /\ \A s \in Children : caught[s] => BelowIsOver(s) \/ RootWaitsFor(s) \/ pc[Root] \in Gone

OverInv ==
    /\ \A s \in Children : pc[s] \in Gone => BelowIsOver(s) \/ pc[Root] \in Gone
    /\ pc[Root] \in Gone /\ exit_status[Root] \notin Cut =>
         \A s \in Children : pc[s] \in {"free", "reaped"} /\ BelowIsOver(s)

TreeInv == SchedulerInv /\ PlacesInv /\ ParentInv /\ SignalInv /\ OverInv

----------------------------------------------------------------------------
(* The names of parents and children *)

LEMMA ParentName ==
    /\ Root \in Schedulers /\ Children \subseteq Schedulers /\ Schedulers \subseteq Pids
    /\ Provers \subseteq Pids /\ Pids = {Root} \cup Children \cup Provers
    /\ Provers \cap Schedulers = {}
    /\ \A s \in Children : Front(s) = Root /\ Len(s) = 1
    /\ \A c \in Provers : Front(c) \in Children /\ Len(c) = 2
    /\ \A c \in Pids \ {Root} : Front(c) \in Schedulers /\ Front(c) \in Pids
<1>1. /\ Root \in Schedulers /\ Children \subseteq Schedulers /\ Schedulers \subseteq Pids
      /\ Provers \subseteq Pids /\ Pids = {Root} \cup Children \cup Provers
      /\ Provers \cap Schedulers = {}
  BY ProversAreLeaves DEF Pids, Schedulers, Children
<1>2. ASSUME NEW s \in Children PROVE Front(s) = Root /\ Len(s) = 1
  <2>1. PICK i \in PreIndices : s = <<i>>
    BY DEF Children, Schedulers
  <2>2. i \in Nat /\ Append(Root, i) = s
    BY <2>1, Indices DEF Root
  <2>3. Front(Append(Root, i)) = Root
    BY <1>1, <2>2, ChildOf
  <2> QED
    BY <2>1, <2>2, <2>3
<1>3. ASSUME NEW c \in Provers PROVE Front(c) \in Children /\ Len(c) = 2
  <2>1. PICK i \in PreIndices, j \in SearchIndices : c = <<i, j>>
    BY DEF Provers
  <2>2. i \in Nat /\ j \in Nat /\ Append(<<i>>, j) = c
    BY <2>1, Indices, AppendToOne
  <2>3. <<i>> \in Children
    BY DEF Children, Schedulers, Root
  <2>4. Front(Append(<<i>>, j)) = <<i>>
    BY <1>1, <2>2, <2>3, ChildOf
  <2> QED
    BY <2>1, <2>2, <2>3, <2>4
<1> QED
  BY <1>1, <1>2, <1>3

LEMMA Below ==
    ASSUME NEW p \in Schedulers, NEW c \in Pids, c # p, IsPrefix(p, c)
    PROVE  \/ p = Root /\ c \in Children
           \/ p = Root /\ c \in Provers
           \/ p \in Children /\ c \in Provers /\ Front(c) = p
<1>1. CASE p = Root
  BY <1>1, ParentName
<1>2. CASE p # Root
  <2>1. p \in Seq(Nat) /\ Len(p) = 1 /\ p \in Children
    BY <1>2, SchedulerName DEF Root, Children
  <2>2. 1 <= Len(c) /\ SubSeq(p, 1, 1) = SubSeq(c, 1, 1)
    BY <2>1 DEF IsPrefix
  <2>3. SubSeq(p, 1, 1) = p
    BY <2>1, SubSeqFull
  <2>4. c # Root
    BY <2>2 DEF Root
  <2>5. c \notin Children
    <3> SUFFICES ASSUME c \in Children PROVE FALSE
      OBVIOUS
    <3>1. c \in Schedulers /\ Len(c) = 1
      BY ParentName
    <3>2. c \in Seq(Nat)
      BY <3>1, SchedulerName
    <3>3. SubSeq(c, 1, 1) = c
      BY <3>1, <3>2, SubSeqFull
    <3> QED
      BY <2>2, <2>3, <3>3
  <2>6. c \in Provers /\ Len(c) = 2
    BY <2>4, <2>5, ParentName
  <2>7. Front(c) = p
    BY <2>2, <2>3, <2>6 DEF Front
  <2> QED
    BY <2>1, <2>6, <2>7
<1> QED
  BY <1>1, <1>2

(* Nothing is at work below a scheduler without children. *)
LEMMA NothingBelow ==
    ASSUME ParentInv, NEW s \in Children, procs[s] = {}
    PROVE  BelowIsOver(s)
<1> SUFFICES ASSUME NEW c \in Provers, Front(c) = s
             PROVE  pc[c] \in {"free", "reaped"}
  BY DEF BelowIsOver, Over, Gone
<1>1. c \in Pids \ {Root}
  BY ParentName
<1> QED
  BY <1>1 DEF ParentInv

----------------------------------------------------------------------------
(* Steps that start no process *)

LEMMA TreeKept ==
    ASSUME TreeInv, SchedulerInv', PlacesInv',
           \A p \in Pids : procs'[p] \subseteq procs[p],
           \A p \in Pids : \A c \in procs[p] \ procs'[p] : pc'[c] = "reaped",
           \A p \in Pids : /\ pc[p] \in {"free", "reaped"} => pc'[p] = pc[p]
                           /\ pc[p] \in Gone => pc'[p] \in Gone,
           \A p \in Pids : pc'[p] \in Alone => procs'[p] = {},
           \A p \in Pids : pc'[p] \in Gone /\ exit_status'[p] \notin Cut => procs'[p] = {},
           \A s \in Children : handler'[s] = "default" /\ pc'[s] \in Running => caught'[s],
           \A c \in Provers : handler'[c] = "sched" => pc'[c] = "forked",
           \A c \in Provers : Over(c) => Over(c)',
           \A s \in Children : caught'[s] =>
              caught[s] \/ BelowIsOver(s)' \/ RootWaitsFor(s)' \/ pc'[Root] \in Gone,
           \A s \in Children : RootWaitsFor(s) =>
              RootWaitsFor(s)' \/ pc'[Root] \in Gone \/ pc[s] \in Gone,
           \A s \in Children : pc'[s] \in Gone =>
              pc[s] \in Gone \/ BelowIsOver(s)' \/ pc'[Root] \in Gone,
           pc[Root] \in Gone => exit_status'[Root] = exit_status[Root],
           pc'[Root] \in Gone /\ pc[Root] \notin Gone /\ exit_status'[Root] \notin Cut =>
              \A s \in Children : pc'[s] = pc[s]
    PROVE  TreeInv'
<1>1. \A s \in Children : BelowIsOver(s) => BelowIsOver(s)'
  BY DEF BelowIsOver
<1>2. ParentInv'
  <2>1. \A c \in Pids \ {Root} : pc'[c] \notin {"free", "reaped"} => c \in procs'[Front(c)]
    <3> SUFFICES ASSUME NEW c \in Pids \ {Root}, pc'[c] \notin {"free", "reaped"}
                 PROVE  c \in procs'[Front(c)]
      OBVIOUS
    <3>1. c \in procs[Front(c)] /\ Front(c) \in Pids
      BY ParentName DEF TreeInv, ParentInv
    <3> QED
      BY <3>1
  <2>2. \A p \in Pids : p \in Provers => procs'[p] = {}
    BY DEF TreeInv, ParentInv
  <2> QED
    BY <2>1, <2>2 DEF ParentInv
<1>3. \A s \in Children : pc'[s] \in Gone => BelowIsOver(s)' \/ pc'[Root] \in Gone
  BY <1>1, ParentName DEF TreeInv, OverInv
<1>4. SignalInv'
  <2>1. \A s \in Children : caught'[s] => BelowIsOver(s)' \/ RootWaitsFor(s)' \/ pc'[Root] \in Gone
    <3> SUFFICES ASSUME NEW s \in Children, caught[s]
                 PROVE  BelowIsOver(s)' \/ RootWaitsFor(s)' \/ pc'[Root] \in Gone
      OBVIOUS
    <3>1. BelowIsOver(s) \/ RootWaitsFor(s) \/ pc[Root] \in Gone
      BY DEF TreeInv, SignalInv
    <3>2. Root \in Pids /\ s \in Pids
      BY ParentName
    <3>3. CASE pc[s] \in Gone
      <4>1. pc'[s] \in Gone
        BY <3>2, <3>3
      <4> QED
        BY <1>3, <4>1
    <3> QED
      BY <1>1, <3>1, <3>2, <3>3
  <2> QED
    BY <2>1 DEF SignalInv
<1>5. OverInv'
  <2>1. ASSUME pc'[Root] \in Gone, exit_status'[Root] \notin Cut, NEW s \in Children
        PROVE  pc'[s] \in {"free", "reaped"} /\ BelowIsOver(s)'
    <3>1. Root \in Pids /\ s \in Pids /\ s # Root /\ Front(s) = Root
      BY ParentName DEF Children
    <3>2. CASE pc[Root] \in Gone
      <4>1. pc[s] \in {"free", "reaped"} /\ BelowIsOver(s)
        BY <2>1, <3>2 DEF TreeInv, OverInv
      <4> QED
        BY <1>1, <3>1, <4>1
    <3>3. CASE pc[Root] \notin Gone
      <4>1. procs'[Root] = {} /\ pc'[s] = pc[s]
        BY <2>1, <3>1, <3>3
      <4>2. pc'[s] \in {"free", "reaped"}
        BY <1>2, <3>1, <4>1 DEF ParentInv
      <4>3. CASE pc[s] = "reaped"
        <5>1. BelowIsOver(s)
          BY <3>3, <4>3 DEF TreeInv, OverInv, Gone
        <5> QED
          BY <1>1, <4>2, <5>1
      <4>4. CASE pc[s] = "free"
        <5>1. procs[s] = {}
          BY <3>1, <4>4 DEF TreeInv, ParentInv, Alone
        <5>2. BelowIsOver(s)
          BY <5>1, NothingBelow DEF TreeInv
        <5> QED
          BY <1>1, <4>2, <5>2
      <4> QED
        BY <4>1, <4>2, <4>3, <4>4
    <3> QED
      BY <3>2, <3>3
  <2> QED
    BY <1>3, <2>1 DEF OverInv
<1> QED
  BY <1>2, <1>4, <1>5 DEF TreeInv

(* One process moves; the children of one that ends or that is where it    *)
(* must have none are gone.                                                *)
LEMMA OneMoves ==
    ASSUME TreeInv, SchedulerInv', UNCHANGED <<procs, caught>>,
           NEW p \in Pids, pc[p] \notin Gone \cup {"free"},
           NEW l \in Places \ {"free", "forked", "reaped", "waitpid"}, pc' = [pc EXCEPT ![p] = l],
           \A q \in Pids \ {p} : handler'[q] = handler[q] /\ exit_status'[q] = exit_status[q],
           p = Root => l # "prep" /\ pc[Root] # "waitpid",
           p # Root => todo'[Root] = todo[Root],
           p \in Schedulers => l # "search",
           p \in Provers => l \in {"search", "print", "dead"} /\ handler'[p] = "default",
           p \in Provers /\ pc[p] = "forked" /\ caught[p] => l = "dead",
           l \in Alone => procs[p] = {},
           l = "dead" => procs[p] = {} \/ (exit_status'[p] \in Cut /\ pc[Root] \in Gone),
           p \in Children /\ handler'[p] = "default" /\ l \in Running => caught[p]
    PROVE  TreeInv'
<1> USE ParentName DEF Gone, Places, Early, Leaving
<1>1. pc \in [Pids -> Places]
  BY TypesOf DEF TreeInv
<1>2. /\ \A q \in Pids : pc'[q] = IF q = p THEN l ELSE pc[q]
      /\ pc'[p] = l
      /\ \A q \in Pids : procs'[q] = procs[q] /\ caught'[q] = caught[q]
  BY <1>1
<1>3. PlacesInv'
  <2>1. pc'[Root] \notin {"free", "forked", "prep"}
    BY <1>2 DEF TreeInv, PlacesInv
  <2>2. \A q \in Schedulers : pc'[q] # "search"
    BY <1>2 DEF TreeInv, PlacesInv
  <2>3. \A c \in Provers : pc'[c] \in {"free", "forked", "search", "print"} \cup Gone
    BY <1>2 DEF TreeInv, PlacesInv
  <2>4. \A c, d \in todo'[Root] : pc'[Root] = "waitpid" => c = d
    BY <1>2 DEF TreeInv, PlacesInv
  <2> QED
    BY <2>1, <2>2, <2>3, <2>4 DEF PlacesInv
<1>4. /\ \A q \in Pids : procs'[q] \subseteq procs[q]
      /\ \A q \in Pids : \A c \in procs[q] \ procs'[q] : pc'[c] = "reaped"
  BY <1>2
<1>5. \A q \in Pids : /\ pc[q] \in {"free", "reaped"} => pc'[q] = pc[q]
                      /\ pc[q] \in Gone => pc'[q] \in Gone
  BY <1>2
<1>6. \A q \in Pids : pc'[q] \in Alone => procs'[q] = {}
  BY <1>2 DEF TreeInv, ParentInv
<1>7. \A q \in Pids : pc'[q] \in Gone /\ exit_status'[q] \notin Cut => procs'[q] = {}
  BY <1>2 DEF TreeInv, ParentInv
<1>8. \A s \in Children : handler'[s] = "default" /\ pc'[s] \in Running => caught'[s]
  <2> SUFFICES ASSUME NEW s \in Children, handler'[s] = "default", pc'[s] \in Running
               PROVE  caught[s]
    BY <1>2
  <2>1. s \in Pids
    OBVIOUS
  <2>2. CASE s = p
    BY <1>2, <2>2
  <2>3. CASE s # p
    BY <1>2, <2>1, <2>3 DEF TreeInv, SignalInv
  <2> QED
    BY <2>2, <2>3
<1>9. \A c \in Provers : handler'[c] = "sched" => pc'[c] = "forked"
  <2> SUFFICES ASSUME NEW c \in Provers, handler'[c] = "sched"
               PROVE  pc'[c] = "forked"
    OBVIOUS
  <2>1. c \in Pids /\ c # p
    OBVIOUS
  <2> QED
    BY <1>2, <2>1 DEF TreeInv, SignalInv
<1>10. \A c \in Provers : Over(c) => Over(c)'
  <2> SUFFICES ASSUME NEW c \in Provers, Over(c)
               PROVE  Over(c)'
    OBVIOUS
  <2>1. c \in Pids
    OBVIOUS
  <2> QED
    BY <1>2, <2>1 DEF Over
<1>11. /\ \A s \in Children : caught'[s] => caught[s]
       /\ \A s \in Children : RootWaitsFor(s) => RootWaitsFor(s)'
       /\ \A s \in Children : pc'[s] \in Gone =>
            pc[s] \in Gone \/ BelowIsOver(s)' \/ pc'[Root] \in Gone
  <2>1. \A s \in Children : RootWaitsFor(s) => RootWaitsFor(s)'
    BY <1>2 DEF RootWaitsFor
  <2>2. ASSUME NEW s \in Children, pc'[s] \in Gone, pc[s] \notin Gone
        PROVE  BelowIsOver(s)' \/ pc'[Root] \in Gone
    <3>1. s = p /\ l = "dead" /\ p # Root
      BY <1>2, <2>2 DEF Children
    <3>2. CASE procs[p] = {}
      <4>1. BelowIsOver(s)
        BY <3>1, <3>2, NothingBelow DEF TreeInv
      <4> QED
        BY <1>10, <4>1 DEF BelowIsOver
    <3>3. CASE pc[Root] \in Gone
      BY <1>5, <3>3
    <3> QED
      BY <3>1, <3>2, <3>3
  <2> QED
    BY <1>2, <2>1, <2>2
<1>12. pc[Root] \in Gone => exit_status'[Root] = exit_status[Root]
  OBVIOUS
<1>13. pc'[Root] \in Gone /\ pc[Root] \notin Gone /\ exit_status'[Root] \notin Cut =>
         \A s \in Children : pc'[s] = pc[s]
  <2> SUFFICES ASSUME pc'[Root] \in Gone, pc[Root] \notin Gone, NEW s \in Children
               PROVE  pc'[s] = pc[s]
    OBVIOUS
  <2>1. p = Root /\ s # Root /\ s \in Pids
    BY <1>2 DEF Children
  <2> QED
    BY <1>2, <2>1
<1> QED
  BY <1>3, <1>4, <1>5, <1>6, <1>7, <1>8, <1>9, <1>10, <1>11, <1>12, <1>13, TreeKept, Zenon

LEMMA TreeTypes ==
    ASSUME TreeInv
    PROVE  /\ pc \in [Pids -> Places] /\ procs \in [Pids -> SUBSET Pids]
           /\ todo \in [Schedulers -> SUBSET Pids]
           /\ handler \in [Pids -> {"sched", "default"}] /\ caught \in [Pids -> BOOLEAN]
           /\ exit_status \in [Pids -> Statuses]
           /\ pc[Root] \notin {"free", "forked", "prep"}
           /\ \A p \in Schedulers : pc[p] # "search"
           /\ \A c \in Provers : pc[c] \in {"free", "forked", "search", "print"} \cup Gone
           /\ \A p \in Pids : pc[p] \in Alone \/ p \in Provers => procs[p] = {}
           /\ \A s \in Children : handler[s] = "default" /\ pc[s] \in Running => caught[s]
           /\ \A c \in Provers : handler[c] = "sched" => pc[c] = "forked"
BY TypesOf DEF TreeInv, PlacesInv, ParentInv, SignalInv

(* The loop of a scheduler and its exit *)
LEMMA SchedulerMoves ==
    ASSUME TreeInv, SchedulerInv', NEW p \in Schedulers,
           \/ InstallHandler(p) \/ TestLoop(p) \/ ScheduleDone(p)
           \/ CheckSigTerm(p) \/ ExitScheduler(p) \/ Select(p)
    PROVE  TreeInv'
<1> USE TreeTypes, ParentName DEF Goto, Exit, signals, Gone, Alone, Running, Places, Early, Leaving,
        Children
<1>1. CASE InstallHandler(p)
  <2>1. /\ pc[p] = "enter" /\ pc' = [pc EXCEPT ![p] = "start"]
        /\ handler' = [handler EXCEPT ![p] = "sched"]
        /\ UNCHANGED <<procs, todo, caught, exit_status>>
    BY <1>1 DEF InstallHandler
  <2>2. handler'[p] = "sched" /\ \A q \in Pids \ {p} : handler'[q] = handler[q]
    BY <2>1
  <2> QED
    BY <2>1, <2>2, OneMoves
<1>2. CASE TestLoop(p)
  <2>1. CASE procs[p] # {} \/ next[p] <= LastStrategy(p)
    <3>1. /\ pc[p] = "test" /\ pc' = [pc EXCEPT ![p] = "start"]
          /\ UNCHANGED <<procs, todo, caught, handler, exit_status>>
      BY <1>2, <2>1 DEF TestLoop
    <3>2. p \in Children /\ handler'[p] = "default" => caught[p]
      BY <3>1
    <3> QED
      BY <3>1, <3>2, OneMoves
  <2>2. CASE ~(procs[p] # {} \/ next[p] <= LastStrategy(p))
    <3>1. /\ pc[p] = "test" /\ pc' = [pc EXCEPT ![p] = "exhausted"] /\ procs[p] = {}
          /\ handler' = [handler EXCEPT ![p] = "default"]
          /\ UNCHANGED <<procs, todo, caught, exit_status>>
      BY <1>2, <2>2 DEF TestLoop
    <3> QED
      BY <3>1, OneMoves
  <2> QED
    BY <2>1, <2>2
<1>3. CASE ScheduleDone(p)
  <2>1. PICK l \in {"dead", "enter"} :
          /\ pc[p] = "exhausted" /\ pc' = [pc EXCEPT ![p] = l]
          /\ \A q \in Pids \ {p} : exit_status'[q] = exit_status[q]
          /\ UNCHANGED <<procs, todo, handler, caught>>
    BY <1>3 DEF ScheduleDone
  <2> QED
    BY <2>1, OneMoves
<1>4. CASE CheckSigTerm(p)
  <2>1. CASE caught[p]
    <3>1. /\ pc[p] = "read" /\ pc' = [pc EXCEPT ![p] = "free_set"]
          /\ \A q \in Pids \ {p} : exit_status'[q] = exit_status[q]
          /\ UNCHANGED <<procs, todo, caught, handler>>
      BY <1>4, <2>1 DEF CheckSigTerm
    <3>2. p = Root => pc[Root] # "waitpid"
      BY <3>1
    <3>3. p \in Pids /\ p \notin Provers /\ pc[p] \notin Gone \cup {"free"} /\ "free_set" \notin Alone
      BY <3>1
    <3>4. \A q \in Pids \ {p} : handler'[q] = handler[q]
      BY <3>1
    <3> QED
      BY <2>1, <3>1, <3>2, <3>3, <3>4, OneMoves
  <2>2. CASE ~caught[p]
    <3>1. /\ pc[p] = "read" /\ pc' = [pc EXCEPT ![p] = "test"]
          /\ UNCHANGED <<procs, todo, caught, handler, exit_status>>
      BY <1>4, <2>2 DEF CheckSigTerm
    <3>2. p \in Children /\ handler'[p] = "default" => caught[p]
      BY <3>1
    <3> QED
      BY <3>1, <3>2, OneMoves
  <2> QED
    BY <2>1, <2>2
<1>5. CASE ExitScheduler(p)
  <2>1. /\ pc[p] = "free_set" /\ procs[p] = {} /\ pc' = [pc EXCEPT ![p] = "dead"]
        /\ \A q \in Pids \ {p} : exit_status'[q] = exit_status[q]
        /\ UNCHANGED <<procs, todo, caught, handler>>
    BY <1>5 DEF ExitScheduler
  <2> QED
    BY <2>1, OneMoves
<1>6. CASE Select(p)
  <2>1. /\ pc[p] = "start" /\ pc' = [pc EXCEPT ![p] = "read"]
        /\ \A q \in Schedulers \ {p} : todo'[q] = todo[q]
        /\ UNCHANGED <<procs, caught, handler, exit_status>>
    BY <1>6 DEF Select
  <2> QED
    BY <2>1, OneMoves
<1> QED
  BY <1>1, <1>2, <1>3, <1>4, <1>5, <1>6

(* A child begins its work, and a prover or a preprocessing fails. *)
LEMMA WorkerMoves ==
    ASSUME TreeInv, SchedulerInv', NEW p \in Pids,
           BecomeChild(p) \/ Preprocess(p) \/ FindProof(p) \/ Fail(p) \/ Written(p)
    PROVE  TreeInv'
<1> USE TreeTypes, ParentName DEF Goto, Exit, signals, Gone, Alone, Running, Places, Early, Leaving,
        Children
<1>1. CASE BecomeChild(p)
  <2>1. PICK l \in {"dead", "prep", "search"} :
          /\ pc[p] = "forked" /\ pc' = [pc EXCEPT ![p] = l]
          /\ l = IF caught[p] THEN "dead" ELSE IF p \in Schedulers THEN "prep" ELSE "search"
          /\ handler' = [handler EXCEPT ![p] = "default"]
          /\ \A q \in Pids \ {p} : exit_status'[q] = exit_status[q]
          /\ UNCHANGED <<procs, todo, caught>>
    BY <1>1 DEF BecomeChild
  <2> QED
    BY <2>1, OneMoves
<1>2. CASE Preprocess(p)
  <2>1. /\ pc[p] = "prep" /\ pc' = [pc EXCEPT ![p] = "enter"]
        /\ UNCHANGED <<procs, todo, caught, handler, exit_status>>
    BY <1>2 DEF Preprocess
  <2> QED
    BY <2>1, OneMoves
<1>3. CASE FindProof(p)
  <2>1. /\ pc[p] = "search" /\ pc' = [pc EXCEPT ![p] = "print"] /\ p \in Provers
        /\ UNCHANGED <<procs, todo, caught, handler, exit_status>>
    BY <1>3 DEF FindProof
  <2>2. handler'[p] = "default"
    BY <2>1
  <2> QED
    BY <2>1, <2>2, OneMoves
<1>4. CASE Fail(p)
  <2>1. /\ pc[p] = "prep" \/ p \in Provers
        /\ pc[p] \in {"prep", "search", "print"} /\ pc' = [pc EXCEPT ![p] = "dead"]
        /\ \A q \in Pids \ {p} : exit_status'[q] = exit_status[q]
        /\ UNCHANGED <<procs, todo, caught, handler>>
    BY <1>4 DEF Fail
  <2>2. p \in Provers => handler'[p] = "default"
    BY <2>1
  <2>3. procs[p] = {} /\ p # Root
    BY <2>1
  <2> QED
    BY <2>1, <2>2, <2>3, OneMoves
<1>5. CASE Written(p)
  <2>1. CASE p \in Provers
    <3>1. /\ pc[p] = "print" /\ pc' = [pc EXCEPT ![p] = "dead"]
          /\ \A q \in Pids \ {p} : exit_status'[q] = exit_status[q]
          /\ UNCHANGED <<procs, todo, caught, handler>>
      BY <1>5, <2>1 DEF Written
    <3>2. handler'[p] = "default"
      BY <2>1, <3>1
    <3> QED
      BY <2>1, <3>1, <3>2, OneMoves
  <2>2. CASE p \notin Provers
    <3>1. /\ pc[p] = "print" /\ pc' = [pc EXCEPT ![p] = "free_set"]
          /\ UNCHANGED <<procs, todo, caught, handler, exit_status>>
      BY <1>5, <2>2 DEF Written
    <3> QED
      BY <2>2, <3>1, OneMoves
  <2> QED
    BY <2>1, <2>2
<1> QED
  BY <1>1, <1>2, <1>3, <1>4, <1>5

LEMMA OutputMoves ==
    ASSUME TreeInv, SchedulerInv', UNCHANGED <<pc, procs, handler, caught, exit_status>>,
           pc[Root] = "waitpid" => todo'[Root] = todo[Root]
    PROVE  TreeInv'
<1>1. PlacesInv' /\ ParentInv'
  BY DEF TreeInv, PlacesInv, ParentInv
<1>2. \A s \in Children : /\ BelowIsOver(s)' <=> BelowIsOver(s)
                          /\ RootWaitsFor(s) => RootWaitsFor(s)'
  BY DEF BelowIsOver, Over, RootWaitsFor
<1>3. SignalInv' /\ OverInv'
  BY <1>2 DEF TreeInv, SignalInv, OverInv
<1> QED
  BY <1>1, <1>3 DEF TreeInv

(* A child that has ended is waited for; its parent goes to the place l.   *)
LEMMA ChildReaped ==
    ASSUME TreeInv, SchedulerInv', UNCHANGED <<handler, caught>>,
           NEW p \in Schedulers, NEW c \in procs[p], pc[c] \in Gone, pc[p] \notin Gone \cup {"free"},
           NEW l \in {"print", "free_set", pc[p]}, pc' = [pc EXCEPT ![c] = "reaped", ![p] = l],
           pc[p] \in Running,
           procs' = procs \/ procs' = [procs EXCEPT ![p] = @ \ {c}],
           \A q \in Pids \ {p} : exit_status'[q] = exit_status[q],
           p = Root => pc'[Root] # "waitpid" /\ (pc[Root] = "waitpid" => c \in todo[Root]),
           p # Root => todo'[Root] = todo[Root]
    PROVE  TreeInv'
<1> USE TreeTypes, ParentName DEF Gone, Alone, Running
<1>1. c \in Pids \ {Root} /\ Front(c) = p /\ p \in Pids /\ p # c
  BY DEF TreeInv, SchedulerInv, BooksInv
<1>2. \A q \in Pids : pc'[q] = IF q = p THEN l ELSE IF q = c THEN "reaped" ELSE pc[q]
  BY <1>1
<1>3. /\ \A q \in Pids : procs'[q] \subseteq procs[q]
      /\ \A q \in Pids : \A d \in procs[q] \ procs'[q] : pc'[d] = "reaped"
  BY <1>1, <1>2
<1>4. \A q \in Pids : /\ pc[q] \in {"free", "reaped"} => pc'[q] = pc[q]
                      /\ pc[q] \in Gone => pc'[q] \in Gone
                      /\ pc'[q] \in Gone => pc[q] \in Gone
                      /\ pc'[q] \in Alone => pc[q] \in Alone
                      /\ pc'[q] \in Running => pc[q] \in Running
                      /\ pc[q] = "forked" => pc'[q] = "forked"
  BY <1>1, <1>2
<1>5. PlacesInv'
  <2>1. \A q \in Schedulers : pc'[q] # "search"
    BY <1>2
  <2>2. \A d \in Provers : pc'[d] \in {"free", "forked", "search", "print"} \cup Gone
    BY <1>2
  <2>3. pc'[Root] \notin {"free", "forked", "prep"}
    BY <1>2
  <2>4. \A d, e \in todo'[Root] : pc'[Root] = "waitpid" => d = e
    BY <1>2 DEF TreeInv, PlacesInv
  <2> QED
    BY <2>1, <2>2, <2>3, <2>4 DEF PlacesInv
<1>6. /\ \A q \in Pids : pc'[q] \in Alone => procs'[q] = {}
      /\ \A q \in Pids : pc'[q] \in Gone /\ exit_status'[q] \notin Cut => procs'[q] = {}
  <2>1. \A q \in Pids : pc'[q] \in Alone => procs[q] = {}
    BY <1>4
  <2>2. \A q \in Pids : pc'[q] \in Gone => q # p
    BY <1>4
  <2>3. \A q \in Pids : pc'[q] \in Gone /\ exit_status'[q] \notin Cut => procs[q] = {}
    BY <1>4, <2>2 DEF TreeInv, ParentInv
  <2> QED
    BY <1>3, <2>1, <2>3
<1>7. /\ \A s \in Children : handler'[s] = "default" /\ pc'[s] \in Running => caught'[s]
      /\ \A d \in Provers : handler'[d] = "sched" => pc'[d] = "forked"
  BY <1>4
<1>8. \A d \in Provers : Over(d) => Over(d)'
  BY <1>4 DEF Over
<1>9. /\ \A s \in Children : caught'[s] => caught[s]
      /\ \A s \in Children : RootWaitsFor(s) =>
           RootWaitsFor(s)' \/ pc'[Root] \in Gone \/ pc[s] \in Gone
      /\ \A s \in Children : pc'[s] \in Gone => pc[s] \in Gone
  <2>1. ASSUME NEW s \in Children, RootWaitsFor(s)
        PROVE  RootWaitsFor(s)' \/ pc[s] \in Gone
    <3>1. CASE p = Root
      BY <2>1, <3>1 DEF RootWaitsFor, TreeInv, PlacesInv
    <3>2. CASE p # Root
      <4>1. Root # c /\ pc'[Root] = pc[Root]
        BY <1>1, <1>2, <3>2
      <4> QED
        BY <2>1, <3>2, <4>1 DEF RootWaitsFor
    <3> QED
      BY <3>1, <3>2
  <2> QED
    BY <1>4, <2>1
<1>10. /\ pc[Root] \in Gone => exit_status'[Root] = exit_status[Root]
       /\ pc'[Root] \in Gone => pc[Root] \in Gone
  BY <1>4
<1> QED
  BY <1>3, <1>4, <1>5, <1>6, <1>7, <1>8, <1>9, <1>10, TreeKept, Zenon

LEMMA ChildIsRead ==
    ASSUME TreeInv, SchedulerInv', NEW p \in Schedulers, NEW c \in todo[p],
           ReadOutput(p, c) \/ GetResult(p, c) \/ WaitPid(p, c)
    PROVE  TreeInv'
<1>1. /\ c \in Pids /\ p \in Pids /\ c \in procs[p]
      /\ pc[p] = "read" => pipe[c] # <<>> \/ pc[c] \in Gone
      /\ pc \in [Pids -> Places]
  BY ParentOf, TypesOf DEF TreeInv
<1>2. CASE ReadOutput(p, c)
  <2>1. /\ pc[p] = "read" /\ \A q \in Schedulers \ {p} : todo'[q] = todo[q]
        /\ UNCHANGED <<pc, procs, handler, caught, exit_status>>
    BY <1>2, TreeTypes DEF ReadOutput, signals
  <2> QED
    BY <2>1, OutputMoves, ParentName
<1>3. CASE GetResult(p, c)
  <2>1. /\ pc[p] = "read" /\ pc[c] \in Gone /\ UNCHANGED <<handler, caught>>
        /\ \A q \in Schedulers \ {p} : todo'[q] = todo[q]
        /\ \A q \in Pids \ {p} : exit_status'[q] = exit_status[q]
    BY <1>1, <1>3, TreeTypes DEF GetResult, signals
  <2>2. PICK l \in {"print", "read"} :
          /\ pc' = [pc EXCEPT ![c] = "reaped", ![p] = l]
          /\ procs' = procs \/ procs' = [procs EXCEPT ![p] = @ \ {c}]
    <3>1. CASE IsResult(c)
      BY <1>3, <3>1 DEF GetResult
    <3>2. CASE ~IsResult(c)
      <4>1. /\ pc' = [pc EXCEPT ![c] = "reaped"]
            /\ procs' = [procs EXCEPT ![p] = @ \ {c}]
        BY <1>3, <3>2 DEF GetResult, Goto
      <4>2. c # p
        BY <2>1 DEF Gone
      <4>3. pc' = [pc EXCEPT ![c] = "reaped", ![p] = "read"]
        BY <1>1, <2>1, <4>1, <4>2
      <4> QED
        BY <4>1, <4>3
    <3> QED
      BY <3>1, <3>2
  <2>3. pc[p] \notin Gone \cup {"free"} /\ pc[p] \in Running /\ c # p
    BY <2>1 DEF Gone, Running
  <2>4. p = Root => pc'[Root] # "waitpid" /\ pc[Root] # "waitpid"
    BY <1>1, <2>1, <2>2
  <2> QED
    BY <1>1, <2>1, <2>2, <2>3, <2>4, ChildReaped, ParentName
<1>4. CASE WaitPid(p, c)
  <2>1. /\ pc[p] = "waitpid" /\ pc[c] \in Gone /\ UNCHANGED <<handler, caught, exit_status>>
        /\ \A q \in Schedulers \ {p} : todo'[q] = todo[q]
        /\ pc' = [pc EXCEPT ![c] = "reaped", ![p] = "free_set"]
        /\ procs' = [procs EXCEPT ![p] = @ \ {c}]
    BY <1>1, <1>4, TreeTypes DEF WaitPid, signals, Gone
  <2>2. pc[p] \notin Gone \cup {"free"} /\ pc[p] \in Running /\ c # p
    BY <2>1 DEF Gone, Running
  <2>3. p = Root => pc'[Root] # "waitpid"
    BY <1>1, <2>1
  <2> QED
    BY <1>1, <2>1, <2>2, <2>3, ChildReaped, ParentName
<1> QED
  BY <1>2, <1>3, <1>4

LEMMA ChunkWritten ==
    ASSUME TreeInv, SchedulerInv', NEW p \in Pids, WriteChunk(p)
    PROVE  TreeInv'
<1>1. pc[p] = "print" /\ UNCHANGED <<procs, todo, handler, caught>>
  BY DEF WriteChunk, signals
<1>2. CASE p # Root /\ ~HasReader(p)
  <2>1. /\ pc' = [pc EXCEPT ![p] = "dead"] /\ exit_status' = [exit_status EXCEPT ![p] = "sigpipe"]
    BY <1>2 DEF WriteChunk, Exit, Goto
  <2>2. ~Alive(Front(p))
    BY <1>2 DEF HasReader
  <2>3. /\ exit_status'[p] = "sigpipe" /\ \A q \in Pids \ {p} : exit_status'[q] = exit_status[q]
    BY <2>1, TreeTypes
  <2>4. p \in Provers => handler'[p] = "default" /\ procs[p] = {}
    BY <1>1, TreeTypes, ParentName
  <2>5. p \in Children => pc[Root] \in Gone
    BY <2>2, TreeTypes, ParentName DEF Alive, Ended, Gone
  <2>6. "dead" \in Places /\ "dead" \notin Alone /\ "dead" \notin Running /\ pc[p] \notin Gone \cup {"free"}
    BY <1>1 DEF Places, Gone, Alone, Running
  <2>7. procs[p] = {} \/ (exit_status'[p] \in Cut /\ pc[Root] \in Gone)
    BY <1>2, <2>3, <2>4, <2>5, ParentName DEF Cut
  <2> QED
    BY <1>1, <1>2, <2>1, <2>3, <2>4, <2>6, <2>7, OneMoves
<1>3. CASE ~(p # Root /\ ~HasReader(p))
  <2>1. UNCHANGED <<pc, exit_status>>
    BY <1>3 DEF WriteChunk
  <2> QED
    BY <1>1, <2>1, OutputMoves
<1> QED
  BY <1>2, <1>3

----------------------------------------------------------------------------
(* Signals *)

LEMMA SignalSteps ==
    ASSUME TreeInv, NEW S, NEW npc \in [Pids -> Places], Deliver(S, npc),
           \A q \in Pids : npc[q] = pc[q] \/ (q \in Schedulers /\ pc[q] = "free_set" /\ npc[q] = "waitpid")
    PROVE  /\ pc' \in [Pids -> Places]
           /\ \A q \in Pids :
                \/ /\ q \in S /\ Alive(q) /\ handler[q] = "default"
                   /\ pc'[q] = "dead" /\ exit_status'[q] = "killed"
                   /\ caught'[q] = caught[q] /\ handler'[q] = "default"
                \/ /\ q \in S /\ Alive(q) /\ handler[q] = "sched" /\ caught'[q] /\ handler'[q] = "default"
                   /\ pc'[q] = npc[q] /\ exit_status'[q] = exit_status[q]
                \/ /\ ~(q \in S /\ Alive(q))
                   /\ caught'[q] = caught[q] /\ handler'[q] = handler[q]
                   /\ pc'[q] = npc[q] /\ exit_status'[q] = exit_status[q]
<1>1. pc' \in [Pids -> Places]
  BY DEF Deliver, Places, Gone
<1>2. ASSUME NEW q \in Pids, q \in S, Alive(q), handler[q] = "default"
      PROVE  /\ pc'[q] = "dead" /\ exit_status'[q] = "killed"
             /\ caught'[q] = caught[q] /\ handler'[q] = "default"
  BY <1>2, TreeTypes DEF Deliver
<1>3. ASSUME NEW q \in Pids, q \in S, Alive(q), handler[q] = "sched"
      PROVE  /\ caught'[q] /\ handler'[q] = "default"
             /\ pc'[q] = npc[q] /\ exit_status'[q] = exit_status[q]
  BY <1>3, TreeTypes DEF Deliver
<1>4. ASSUME NEW q \in Pids, ~(q \in S /\ Alive(q))
      PROVE  /\ caught'[q] = caught[q] /\ handler'[q] = handler[q]
             /\ pc'[q] = npc[q] /\ exit_status'[q] = exit_status[q]
  BY <1>4, TreeTypes DEF Deliver
<1>5. \A q \in Pids : handler[q] = "sched" \/ handler[q] = "default"
  BY TreeTypes
<1> QED
  BY <1>1, <1>2, <1>3, <1>4, <1>5

LEMMA SignalInPlace ==
    ASSUME TreeInv, NEW S, Deliver(S, pc), NEW q \in Pids
    PROVE  /\ ~(q \in S /\ Alive(q)) => pc'[q] = pc[q] /\ caught'[q] = caught[q]
           /\ q \in S /\ Alive(q) /\ handler[q] = "default" => pc'[q] = "dead"
           /\ q \in S /\ Alive(q) /\ handler[q] = "sched" => pc'[q] = pc[q] /\ caught'[q]
<1>1. ~(q \in S /\ Alive(q)) => pc'[q] = pc[q] /\ caught'[q] = caught[q]
  BY TreeTypes DEF Deliver
<1>2. q \in S /\ Alive(q) /\ handler[q] = "default" => pc'[q] = "dead"
  BY TreeTypes DEF Deliver
<1>3. q \in S /\ Alive(q) /\ handler[q] = "sched" => pc'[q] = pc[q] /\ caught'[q]
  BY TreeTypes DEF Deliver
<1> QED
  BY <1>1, <1>2, <1>3

LEMMA SignalKept ==
    ASSUME TreeInv, SchedulerInv', UNCHANGED procs,
           NEW S, NEW npc \in [Pids -> Places], Deliver(S, npc),
           \A q \in Pids : npc[q] = pc[q] \/ (q \in Schedulers /\ pc[q] = "free_set" /\ npc[q] = "waitpid"),
           \A c, d \in todo'[Root] : npc[Root] = "waitpid" => c = d,
           pc[Root] = "waitpid" => todo'[Root] = todo[Root],
           \A s \in Children : caught'[s] =>
              caught[s] \/ BelowIsOver(s)' \/ RootWaitsFor(s)' \/ pc'[Root] \in Gone,
           \A s \in Children : pc'[s] \in Gone =>
              pc[s] \in Gone \/ BelowIsOver(s) \/ BelowIsOver(s)' \/ pc'[Root] \in Gone
    PROVE  TreeInv'
<1>0. \A q \in Pids :
         \/ /\ q \in S /\ Alive(q) /\ handler[q] = "default"
            /\ pc'[q] = "dead" /\ exit_status'[q] = "killed"
            /\ caught'[q] = caught[q] /\ handler'[q] = "default"
         \/ /\ q \in S /\ Alive(q) /\ handler[q] = "sched" /\ caught'[q] /\ handler'[q] = "default"
            /\ pc'[q] = npc[q] /\ exit_status'[q] = exit_status[q]
         \/ /\ ~(q \in S /\ Alive(q))
            /\ caught'[q] = caught[q] /\ handler'[q] = handler[q]
            /\ pc'[q] = npc[q] /\ exit_status'[q] = exit_status[q]
  BY SignalSteps, Zenon
<1> USE TreeTypes, ParentName DEF Gone, Alone, Running, Alive, Ended
<1>1. \A q \in Pids :
         /\ pc[q] \in Gone \cup {"free"} => pc'[q] = pc[q] /\ exit_status'[q] = exit_status[q]
         /\ pc'[q] = pc[q] \/ pc'[q] = "dead" \/ (q \in Schedulers /\ pc[q] = "free_set" /\ pc'[q] = "waitpid")
         /\ pc'[q] = "waitpid" => npc[q] = "waitpid"
         /\ caught[q] => caught'[q]
  BY <1>0
<1>2. \A q \in Pids : /\ pc'[q] \in Gone /\ exit_status'[q] \notin Cut =>
                           pc[q] \in Gone /\ exit_status[q] \notin Cut
                      /\ handler'[q] = "sched" => handler[q] = "sched" /\ pc'[q] = npc[q]
                      /\ handler'[q] = "default" =>
                           handler[q] = "default" \/ caught'[q]
  BY <1>0 DEF Cut
<1>3. PlacesInv'
  <2>1. \A q \in Schedulers : pc'[q] # "search"
    BY <1>1
  <2>2. \A d \in Provers : pc'[d] \in {"free", "forked", "search", "print"} \cup Gone
    BY <1>1
  <2>3. pc'[Root] \notin {"free", "forked", "prep"}
    BY <1>1
  <2>4. \A d, e \in todo'[Root] : pc'[Root] = "waitpid" => d = e
    BY <1>1
  <2> QED
    BY <2>1, <2>2, <2>3, <2>4 DEF PlacesInv
<1>4. /\ \A q \in Pids : procs'[q] \subseteq procs[q]
      /\ \A q \in Pids : \A d \in procs[q] \ procs'[q] : pc'[d] = "reaped"
  OBVIOUS
<1>5. \A q \in Pids : /\ pc[q] \in {"free", "reaped"} => pc'[q] = pc[q]
                      /\ pc[q] \in Gone => pc'[q] \in Gone
  BY <1>1
<1>6. /\ \A q \in Pids : pc'[q] \in Alone => procs'[q] = {}
      /\ \A q \in Pids : pc'[q] \in Gone /\ exit_status'[q] \notin Cut => procs'[q] = {}
  <2>1. \A q \in Pids : pc'[q] \in Alone => pc[q] \in Alone
    BY <1>1
  <2> QED
    BY <1>2, <2>1 DEF TreeInv, ParentInv
<1>7. \A s \in Children : handler'[s] = "default" /\ pc'[s] \in Running => caught'[s]
  <2> SUFFICES ASSUME NEW s \in Children, handler'[s] = "default", pc'[s] \in Running, ~caught'[s]
               PROVE  FALSE
    OBVIOUS
  <2>1. s \in Pids /\ handler[s] = "default" /\ ~caught[s]
    BY <1>1, <1>2
  <2>2. pc[s] \in Running
    BY <1>1, <2>1
  <2> QED
    BY <2>1, <2>2
<1>8. \A c \in Provers : handler'[c] = "sched" => pc'[c] = "forked"
  <2> SUFFICES ASSUME NEW c \in Provers, handler'[c] = "sched"
               PROVE  pc'[c] = "forked"
    OBVIOUS
  <2>1. c \in Pids /\ pc[c] = "forked" /\ pc'[c] = npc[c]
    BY <1>2
  <2> QED
    BY <2>1
<1>9. \A c \in Provers : Over(c) => Over(c)'
  BY <1>1 DEF Over
<1>10. \A s \in Children : BelowIsOver(s) => BelowIsOver(s)'
  BY <1>9 DEF BelowIsOver
<1>11. /\ \A s \in Children : RootWaitsFor(s) => RootWaitsFor(s)' \/ pc'[Root] \in Gone
       /\ \A s \in Children : pc'[s] \in Gone =>
            pc[s] \in Gone \/ BelowIsOver(s)' \/ pc'[Root] \in Gone
  <2>1. \A s \in Children : RootWaitsFor(s) => RootWaitsFor(s)' \/ pc'[Root] \in Gone
    BY <1>1 DEF RootWaitsFor
  <2> QED
    BY <1>10, <2>1
<1>12. /\ pc[Root] \in Gone => exit_status'[Root] = exit_status[Root]
       /\ pc'[Root] \in Gone /\ exit_status'[Root] \notin Cut => pc[Root] \in Gone
  BY <1>1, <1>2
<1> QED
  BY <1>3, <1>4, <1>5, <1>6, <1>7, <1>8, <1>9, <1>11, <1>12, TreeKept, Zenon

(* A signal for the whole process group ends all work. *)
LEMMA TerminateTree ==
    ASSUME TreeInv, SchedulerInv', Terminate
    PROVE  TreeInv'
<1> USE TreeTypes, ParentName
<1>1. UNCHANGED <<procs, todo>>
  BY DEF Terminate
<1>2. pc \in [Pids -> Places] /\ \A c, d \in todo'[Root] : pc[Root] = "waitpid" => c = d
  BY <1>1 DEF TreeInv, PlacesInv
<1>3. CASE Deliver({Root}, pc)
  <2>1. \A s \in Children : pc'[s] = pc[s] /\ caught'[s] = caught[s]
    <3>1. \A q \in Pids : q # Root => pc'[q] = pc[q] /\ caught'[q] = caught[q]
      BY <1>3, SignalInPlace
    <3> QED
      BY <3>1 DEF Children
  <2> QED
    BY <1>1, <1>2, <1>3, <2>1, SignalKept
<1>4. CASE Deliver({p \in Pids : Alive(p)}, pc)
  <2>1. \A s \in Children : BelowIsOver(s)'
    <3> SUFFICES ASSUME NEW c \in Provers
                 PROVE  Over(c)'
      BY DEF BelowIsOver
    <3>1. c \in Pids
      OBVIOUS
    <3>2. CASE ~Alive(c)
      <4>1. pc'[c] = pc[c]
        BY <1>4, <3>1, <3>2, SignalInPlace
      <4> QED
        BY <3>2, <4>1 DEF Over, Alive, Ended, Gone
    <3>3. CASE Alive(c) /\ handler[c] = "default"
      <4>1. pc'[c] = "dead"
        BY <1>2, <1>4, <3>1, <3>3, SignalSteps
      <4> QED
        BY <4>1 DEF Over, Gone
    <3>4. CASE Alive(c) /\ handler[c] = "sched"
      <4>1. pc'[c] = pc[c] /\ caught'[c] /\ pc[c] = "forked"
        BY <1>4, <3>1, <3>4, SignalInPlace
      <4> QED
        BY <4>1 DEF Over
    <3> QED
      BY <3>1, <3>2, <3>3, <3>4
  <2> QED
    BY <1>1, <1>2, <1>4, <2>1, SignalKept
<1> QED
  BY <1>3, <1>4 DEF Terminate

(* The root kills a child only after a signal that ended its work, or at a *)
(* place where it has none.                                                *)
LEMMA CleanupTree ==
    ASSUME TreeInv, SchedulerInv', NEW p \in Schedulers, NEW c \in procs[p], Cleanup(p, c)
    PROVE  TreeInv'
<1>1. /\ pc[p] = "free_set" /\ c \in Pids \ {Root} /\ p \in Pids /\ Front(c) = p
      /\ pc \in [Pids -> Places]
  BY TypesOf, ParentName DEF Cleanup, TreeInv, SchedulerInv, BooksInv
<1>2. CASE pc[c] = "reaped"
  <2>1. /\ procs' = [procs EXCEPT ![p] = @ \ {c}]
        /\ UNCHANGED <<pc, todo, handler, caught, exit_status>>
    BY <1>2 DEF Cleanup, signals
  <2>2. pc' = [pc EXCEPT ![c] = "reaped", ![p] = "free_set"]
    BY <1>1, <1>2, <2>1
  <2>3. pc[c] \in Gone /\ pc[p] \notin Gone \cup {"free"} /\ pc[p] \in Running
        /\ "free_set" \in {"print", "free_set", pc[p]}
    BY <1>1, <1>2 DEF Gone, Running
  <2>4. pc[Root] # "waitpid" \/ p # Root
    BY <1>1
  <2>5. p = Root => pc'[Root] # "waitpid" /\ (pc[Root] = "waitpid" => c \in todo[Root])
    BY <1>1, <2>1
  <2>6. \A q \in Pids \ {p} : exit_status'[q] = exit_status[q]
    BY <2>1
  <2> QED
    BY <1>1, <2>1, <2>2, <2>3, <2>5, <2>6, ChildReaped
<1>3. CASE pc[c] # "reaped"
  <2> DEFINE npc == [pc EXCEPT ![p] = "waitpid"]
  <2>1. /\ todo' = [todo EXCEPT ![p] = {c}] /\ Deliver({c}, npc) /\ UNCHANGED procs
    BY <1>3 DEF Cleanup
  <2>2. /\ npc \in [Pids -> Places] /\ npc[p] = "waitpid"
        /\ \A q \in Pids : npc[q] = pc[q] \/ (q \in Schedulers /\ pc[q] = "free_set" /\ npc[q] = "waitpid")
        /\ \A q \in Pids \ {p} : npc[q] = pc[q]
    BY <1>1 DEF Places, Leaving
  <2> HIDE DEF npc
  <2>3. \A a, b \in todo'[Root] : npc[Root] = "waitpid" => a = b
    BY <1>1, <2>1, <2>2, TreeTypes, ParentName DEF TreeInv, PlacesInv
  <2>4. pc[Root] = "waitpid" => todo'[Root] = todo[Root]
    BY <1>1, <2>1, TreeTypes, ParentName
  <2>5. \A s \in Children : s # c =>
           caught'[s] = caught[s] /\ (pc'[s] \in Gone => pc[s] \in Gone)
    <3> SUFFICES ASSUME NEW s \in Children, s # c
                 PROVE  caught'[s] = caught[s] /\ (pc'[s] \in Gone => pc[s] \in Gone)
      OBVIOUS
    <3>1. s \in Pids
      BY ParentName
    <3>2. caught'[s] = caught[s] /\ pc'[s] = npc[s]
      BY <2>1, <2>2, <3>1, SignalSteps
    <3> QED
      BY <2>2, <3>1, <3>2 DEF Gone
  <2>6. c \in Children => p = Root
    BY <1>1, ParentName
  <2>7. ASSUME c \in Children, caught'[c], ~caught[c]
        PROVE  RootWaitsFor(c)'
    <3>1. p = Root /\ Root # c
      BY <1>1, <2>6, <2>7
    <3>2. pc'[Root] = "waitpid"
      BY <1>1, <2>1, <2>2, <3>1, SignalSteps
    <3>3. todo'[Root] = {c}
      BY <2>1, <3>1, TreeTypes
    <3> QED
      BY <3>2, <3>3 DEF RootWaitsFor
  <2>8. ASSUME c \in Children, pc'[c] \in Gone, pc[c] \notin Gone
        PROVE  BelowIsOver(c)
    <3>1. p = Root /\ Root # c /\ pc[Root] = "free_set"
      BY <1>1, <2>6, <2>8
    <3>2. npc[c] = pc[c]
      BY <1>1, <2>2, <3>1
    <3>3. handler[c] = "default"
      BY <1>1, <2>1, <2>2, <2>8, <3>2, SignalSteps
    <3>4. CASE caught[c]
      BY <2>8, <3>1, <3>4 DEF TreeInv, SignalInv, RootWaitsFor, Gone
    <3>5. CASE ~caught[c]
      <4>1. pc[c] \notin Running /\ pc[c] # "search"
        BY <1>1, <2>8, <3>3, <3>5, TreeTypes, ParentName
      <4>2. pc[c] \in Alone
        BY <1>1, <2>8, <4>1 DEF Alone, Running, Places, Early, Leaving
      <4> QED
        BY <1>1, <2>8, <4>2, TreeTypes, NothingBelow DEF TreeInv
    <3> QED
      BY <3>4, <3>5
  <2> QED
    BY <2>1, <2>2, <2>3, <2>4, <2>5, <2>7, <2>8, SignalKept
<1> QED
  BY <1>2, <1>3

----------------------------------------------------------------------------
(* A new process, its first state, and all the steps *)

LEMMA NewChild ==
    ASSUME SchedulerInv, NEW p \in Schedulers, EGPCtrlCreate(p)
    PROVE  \E c \in Pids \ {Root} :
              /\ Front(c) = p /\ p # c /\ pc[p] = "start" /\ pc[c] = "free" /\ c = Append(p, next[p])
              /\ pc' = [pc EXCEPT ![c] = "forked"]
              /\ procs' = [procs EXCEPT ![p] = @ \cup {c}]
              /\ handler' = [handler EXCEPT ![c] = handler[p]]
              /\ caught'  = [caught EXCEPT ![c] = caught[p]]
              /\ UNCHANGED <<retried, todo, toprint, pipe, output, exit_status>>
<1> DEFINE i == next[p]
           c == Append(p, i)
<1>1. /\ pc[p] = "start" /\ i <= LastStrategy(p)
      /\ pc' = [pc EXCEPT ![c] = "forked"]
      /\ procs' = [procs EXCEPT ![p] = @ \cup {c}]
      /\ handler' = [handler EXCEPT ![c] = handler[p]]
      /\ caught'  = [caught EXCEPT ![c] = caught[p]]
      /\ UNCHANGED <<retried, todo, toprint, pipe, output, exit_status>>
  BY DEF EGPCtrlCreate, CanStart, Goto, streams
<1>2. i \in Nat \ {0}
  BY TypesOf
<1>3. c \in Pids
  BY <1>1, NextChild DEF SchedulerInv
<1>4. c # Root /\ Front(c) = p
  BY <1>2, ChildOf
<1>5. pc[c] = "free"
  BY <1>2, <1>3 DEF SchedulerInv, BooksInv
<1> QED
  BY <1>1, <1>3, <1>4, <1>5

LEMMA EGPCtrlCreateTree ==
    ASSUME TreeInv, SchedulerInv', NEW p \in Schedulers, EGPCtrlCreate(p)
    PROVE  TreeInv'
<1>1. PICK c \in Pids \ {Root} :
        /\ Front(c) = p /\ p # c /\ pc[p] = "start" /\ pc[c] = "free"
        /\ pc' = [pc EXCEPT ![c] = "forked"]
        /\ procs' = [procs EXCEPT ![p] = @ \cup {c}]
        /\ handler' = [handler EXCEPT ![c] = handler[p]]
        /\ caught'  = [caught EXCEPT ![c] = caught[p]]
        /\ UNCHANGED <<todo, exit_status>>
  BY NewChild DEF TreeInv
<1> USE TreeTypes, ParentName
<1>2. /\ \A q \in Pids : pc'[q] = IF q = c THEN "forked" ELSE pc[q]
      /\ \A q \in Pids : procs'[q] = IF q = p THEN procs[p] \cup {c} ELSE procs[q]
      /\ \A q \in Pids : handler'[q] = IF q = c THEN handler[p] ELSE handler[q]
      /\ \A q \in Pids : caught'[q] = IF q = c THEN caught[p] ELSE caught[q]
  BY <1>1
<1>3. p \in Pids /\ p \notin Provers /\ Root # c
  BY <1>1
<1>4. PlacesInv'
  <2>1. pc'[Root] = pc[Root] /\ todo' = todo
    BY <1>1, <1>2
  <2>2. \A q \in Schedulers : pc'[q] # "search"
    BY <1>2
  <2>3. \A d \in Provers : pc'[d] \in {"free", "forked", "search", "print"} \cup Gone
    BY <1>2
  <2> QED
    BY <2>1, <2>2, <2>3 DEF TreeInv, PlacesInv
<1>5. ParentInv'
  <2>1. \A d \in Pids \ {Root} : pc'[d] \notin {"free", "reaped"} => d \in procs'[Front(d)]
    <3> SUFFICES ASSUME NEW d \in Pids \ {Root}, pc'[d] \notin {"free", "reaped"}
                 PROVE  d \in procs'[Front(d)]
      OBVIOUS
    <3>1. Front(d) \in Pids
      OBVIOUS
    <3>2. CASE d = c
      BY <1>1, <1>2, <1>3, <3>2
    <3>3. CASE d # c
      <4>1. d \in procs[Front(d)]
        BY <1>2, <3>3 DEF TreeInv, ParentInv
      <4> QED
        BY <1>2, <3>1, <4>1
    <3> QED
      BY <3>2, <3>3
  <2>2. \A q \in Pids : pc'[q] \in Alone \/ q \in Provers => procs'[q] = {}
    <3> SUFFICES ASSUME NEW q \in Pids, pc'[q] \in Alone \/ q \in Provers
                 PROVE  procs'[q] = {}
      OBVIOUS
    <3>1. q # p
      BY <1>1, <1>2, <1>3 DEF Alone
    <3>2. pc[q] \in Alone \/ q \in Provers
      BY <1>1, <1>2 DEF Alone
    <3> QED
      BY <1>2, <3>1, <3>2
  <2>3. \A q \in Pids : pc'[q] \in Gone /\ exit_status'[q] \notin Cut => procs'[q] = {}
    <3> SUFFICES ASSUME NEW q \in Pids, pc'[q] \in Gone, exit_status'[q] \notin Cut
                 PROVE  procs'[q] = {}
      OBVIOUS
    <3>1. q # p /\ pc[q] \in Gone
      BY <1>1, <1>2 DEF Gone
    <3> QED
      BY <1>1, <1>2, <3>1 DEF TreeInv, ParentInv
  <2> QED
    BY <2>1, <2>2, <2>3 DEF ParentInv
<1>6. ASSUME NEW s \in Children, BelowIsOver(s), s = p => caught[p]
      PROVE  BelowIsOver(s)'
  <2> SUFFICES ASSUME NEW d \in Provers, Front(d) = s
               PROVE  Over(d)'
    BY DEF BelowIsOver
  <2>1. Over(d) /\ d \in Pids
    BY <1>6 DEF BelowIsOver
  <2>2. CASE d = c
    BY <1>1, <1>2, <1>6, <2>1, <2>2 DEF Over
  <2>3. CASE d # c
    BY <1>2, <2>1, <2>3 DEF Over
  <2> QED
    BY <2>2, <2>3
<1>7. SignalInv'
  <2>1. \A s \in Children : handler'[s] = "default" /\ pc'[s] \in Running => caught'[s]
    <3> SUFFICES ASSUME NEW s \in Children, handler'[s] = "default", pc'[s] \in Running
                 PROVE  caught'[s]
      OBVIOUS
    <3>1. s \in Pids /\ s # c
      BY <1>2 DEF Running
    <3> QED
      BY <1>2, <3>1
  <2>2. \A d \in Provers : handler'[d] = "sched" => pc'[d] = "forked"
    <3> SUFFICES ASSUME NEW d \in Provers, handler'[d] = "sched"
                 PROVE  pc'[d] = "forked"
      OBVIOUS
    <3>1. d \in Pids
      OBVIOUS
    <3> QED
      BY <1>2, <3>1
  <2>3. ASSUME NEW s \in Children, caught'[s]
        PROVE  BelowIsOver(s)' \/ RootWaitsFor(s)' \/ pc'[Root] \in Gone
    <3>1. s \in Pids
      OBVIOUS
    <3>2. CASE s = c
      <4>1. procs[s] = {}
        BY <1>1, <3>1, <3>2 DEF Alone
      <4>2. BelowIsOver(s)
        BY <4>1, NothingBelow DEF TreeInv
      <4> QED
        BY <1>1, <1>6, <3>2, <4>2
    <3>3. CASE s # c
      <4>1. caught[s]
        BY <1>2, <2>3, <3>1, <3>3
      <4>2. BelowIsOver(s) \/ RootWaitsFor(s) \/ pc[Root] \in Gone
        BY <4>1 DEF TreeInv, SignalInv
      <4>3. RootWaitsFor(s) => RootWaitsFor(s)'
        BY <1>1, <1>2, <1>3 DEF RootWaitsFor
      <4>4. pc[Root] \in Gone => pc'[Root] \in Gone
        BY <1>2, <1>3
      <4>5. BelowIsOver(s) => BelowIsOver(s)'
        BY <1>6, <4>1
      <4> QED
        BY <4>2, <4>3, <4>4, <4>5
    <3> QED
      BY <3>2, <3>3
  <2> QED
    BY <2>1, <2>2, <2>3 DEF SignalInv
<1>8. OverInv'
  <2>1. ASSUME NEW s \in Children, pc'[s] \in Gone
        PROVE  BelowIsOver(s)' \/ pc'[Root] \in Gone
    <3>1. s \in Pids /\ s # c /\ s # p /\ pc[s] \in Gone
      BY <1>1, <1>2, <2>1 DEF Gone
    <3>2. BelowIsOver(s) \/ pc[Root] \in Gone
      BY <3>1 DEF TreeInv, OverInv
    <3> QED
      BY <1>2, <1>3, <1>6, <3>1, <3>2
  <2>2. ~(pc'[Root] \in Gone /\ exit_status'[Root] \notin Cut)
    <3> SUFFICES ASSUME pc'[Root] \in Gone, exit_status'[Root] \notin Cut
                 PROVE  FALSE
      OBVIOUS
    <3>1. pc[Root] \in Gone /\ exit_status[Root] \notin Cut
      BY <1>1, <1>2, <1>3
    <3>2. p \in Children
      BY <1>1, <3>1 DEF Gone, Children
    <3>3. pc[p] \in {"free", "reaped"}
      BY <3>1, <3>2 DEF TreeInv, OverInv
    <3> QED
      BY <1>1, <3>3
  <2> QED
    BY <2>1, <2>2 DEF OverInv
<1> QED
  BY <1>4, <1>5, <1>7, <1>8 DEF TreeInv

LEMMA TreeInit == Init => TreeInv
<1> SUFFICES ASSUME Init PROVE TreeInv
  OBVIOUS
<1> USE ParentName
<1>1. SchedulerInv
  BY SchedulerInit
<1>2. /\ pc[Root] = "enter" /\ \A p \in Pids \ {Root} : pc[p] = "free"
      /\ \A p \in Pids : procs[p] = {} /\ handler[p] = "default" /\ ~caught[p]
      /\ todo[Root] = {}
  BY DEF Init
<1>3. \A s \in Children : s \in Pids \ {Root}
  BY DEF Children
<1>4. \A c \in Provers : c \in Pids \ {Root}
  OBVIOUS
<1>5. PlacesInv
  BY <1>2, <1>4 DEF PlacesInv
<1>6. ParentInv
  BY <1>2 DEF ParentInv, Gone
<1>7. SignalInv
  BY <1>2, <1>3, <1>4 DEF SignalInv, Running
<1>8. OverInv
  BY <1>2, <1>3 DEF OverInv, Gone
<1> QED
  BY <1>1, <1>5, <1>6, <1>7, <1>8 DEF TreeInv

LEMMA TreeStep == TreeInv /\ [Next]_vars => TreeInv'
<1> SUFFICES ASSUME TreeInv, [Next]_vars PROVE TreeInv'
  OBVIOUS
<1>0. SchedulerInv'
  BY SchedulerStep DEF TreeInv
<1>1. CASE UNCHANGED vars
  BY <1>0, <1>1, OutputMoves DEF vars
<1>2. ASSUME NEW p \in Schedulers, Scheduler(p)
      PROVE  TreeInv'
  <2>1. CASE \/ InstallHandler(p) \/ TestLoop(p) \/ ScheduleDone(p) \/ CheckSigTerm(p)
             \/ ExitScheduler(p) \/ Select(p)
    BY <1>0, <2>1, SchedulerMoves
  <2>2. CASE EGPCtrlCreate(p)
    BY <1>0, <2>2, EGPCtrlCreateTree
  <2>3. ASSUME NEW c \in todo[p], ReadOutput(p, c) \/ GetResult(p, c) \/ WaitPid(p, c)
        PROVE  TreeInv'
    BY <1>0, <2>3, ChildIsRead
  <2>4. ASSUME NEW c \in procs[p], Cleanup(p, c)
        PROVE  TreeInv'
    BY <1>0, <2>4, CleanupTree
  <2> QED
    BY <1>2, <2>1, <2>2, <2>3, <2>4 DEF Scheduler
<1>3. ASSUME NEW p \in Pids,
             \/ BecomeChild(p) \/ Preprocess(p) \/ FindProof(p) \/ Fail(p)
             \/ WriteChunk(p) \/ Written(p)
      PROVE  TreeInv'
  BY <1>0, <1>3, WorkerMoves, ChunkWritten
<1>4. CASE Next
  <2>1. CASE Terminate
    BY <1>0, <2>1, TerminateTree
  <2>2. CASE Done
    BY <1>1, <2>2 DEF Done
  <2> QED
    BY <1>2, <1>3, <1>4, <2>1, <2>2 DEF Next, Process
<1> QED
  BY <1>1, <1>4

LEMMA TreeInvHolds == Spec => []TreeInv
BY TreeInit, TreeStep, PTL DEF Spec

(* However the signals, the ends of the processes and the reports of       *)
(* select() interleave: a scheduler that leaves by itself has reaped all   *)
(* its children, and nothing below it is at work (EGPCtrlSetFree before    *)
(* the exits of ExecuteScheduleMultiCore, and the loop that goes on while  *)
(* a child is in the set).                                                 *)
THEOREM NothingLeftBehind == Spec => []NoneLeftBehind
<1>1. TreeInv => NoneLeftBehind
  <2> SUFFICES ASSUME TreeInv, NEW p \in Schedulers, pc[p] \in Gone, exit_status[p] \notin Cut
               PROVE  /\ procs[p] = {}
                      /\ \A c \in Pids : c # p /\ IsPrefix(p, c) =>
                            ~Busy(c) /\ (Front(c) = p => pc[c] # "dead")
    BY DEF NoneLeftBehind, Ended, Gone, Cut
  <2>1. procs[p] = {}
    BY ParentName DEF TreeInv, ParentInv
  <2>2. ASSUME NEW c \in Pids, c # p, IsPrefix(p, c)
        PROVE  ~Busy(c) /\ (Front(c) = p => pc[c] # "dead")
    <3>1. CASE p = Root /\ c \in Children
      <4>1. pc[c] \in {"free", "reaped"}
        BY <3>1 DEF TreeInv, OverInv
      <4> QED
        BY <4>1 DEF Busy
    <3>2. CASE p = Root /\ c \in Provers
      <4>1. Over(c) /\ Front(c) # p
        BY <3>2, ParentName DEF TreeInv, OverInv, BelowIsOver, Children
      <4> QED
        BY <4>1 DEF Busy, Over, Gone
    <3>3. CASE c \in Provers /\ Front(c) = p
      <4>1. pc[c] \in {"free", "reaped"}
        BY <2>1, <2>2, <3>3, ParentName DEF TreeInv, ParentInv
      <4> QED
        BY <4>1 DEF Busy
    <3> QED
      BY <2>2, <3>1, <3>2, <3>3, Below
  <2> QED
    BY <2>1, <2>2
<1> QED
  BY <1>1, TreeInvHolds, PTL

----------------------------------------------------------------------------
(* What is announced: the first chunk of an output is the status.          *)

Heard(p) == output[p] # <<>> \/ pipe[p] # <<>>

HeardInv ==
    /\ \A p \in Pids : /\ Announced(pipe[p] \o output[p]) <=> Heard(p)
                       /\ Announced(output[p]) <=> output[p] # <<>>
                       /\ Stream(p) = <<>> <=> ~Heard(p) /\ toprint[p] = <<>>
    /\ Announced(pipe[Root]) <=> pipe[Root] # <<>>
    /\ Announcers = {c \in Provers : Heard(c)}

LEMMA StatusFirst ==
    ASSUME NEW o \in {<<>>, <<"status">>, Full}
    PROVE  Announced(o) <=> o # <<>>
<1>1. CASE o = <<>>
  BY <1>1 DEF Announced, ToSet
<1>2. CASE o = <<"status">>
  <2>1. 1 \in DOMAIN o /\ o[1] = "status"
    BY <1>2
  <2> QED
    BY <1>2, <2>1 DEF Announced, ToSet
<1>3. CASE o = Full
  <2>1. 1 \in DOMAIN o /\ o[1] = "status" /\ o # <<>>
    BY <1>3 DEF Full
  <2> QED
    BY <2>1 DEF Announced, ToSet
<1> QED
  BY <1>1, <1>2, <1>3

LEMMA AnnouncedInParts ==
    ASSUME NEW a \in Seq(Chunks), NEW o \in Seq(Chunks)
    PROVE  Announced(a \o o) <=> Announced(a) \/ Announced(o)
<1>1. Range(a \o o) = Range(a) \cup Range(o)
  BY RangeConcatenation
<1>2. \A s \in Seq(Chunks) : ToSet(s) = Range(s)
  BY DEF ToSet, Range
<1>3. a \o o \in Seq(Chunks)
  BY ConcatProperties
<1> QED
  BY <1>1, <1>2, <1>3 DEF Announced

LEMMA HeardMeans == SchedulerInv => HeardInv
<1> SUFFICES ASSUME SchedulerInv PROVE HeardInv
  OBVIOUS
<1>1. ASSUME NEW p \in Pids
      PROVE  /\ Announced(pipe[p] \o output[p]) <=> Heard(p)
             /\ Announced(output[p]) <=> output[p] # <<>>
             /\ output[p] = <<>> => (Announced(pipe[p]) <=> pipe[p] # <<>>)
             /\ Stream(p) = <<>> <=> ~Heard(p) /\ toprint[p] = <<>>
  <2> DEFINE o == output[p]
             a == pipe[p]
             t == toprint[p]
  <2>1. o \in Seq(Chunks) /\ a \in Seq(Chunks) /\ t \in Seq(Chunks)
    BY StreamTypes
  <2>2. o \o (a \o t) \in {<<>>, <<"status">>, Full}
    BY DEF SchedulerInv, OutputInv, Stream
  <2> HIDE DEF o, a, t
  <2>3. a \o t \in Seq(Chunks)
    BY <2>1, ConcatProperties
  <2>4. o \in {<<>>, <<"status">>, Full}
    BY <2>1, <2>2, <2>3, PartOfAnswer
  <2>5. Announced(o) <=> o # <<>>
    BY <2>4, StatusFirst
  <2>6. o = <<>> => (Announced(a) <=> a # <<>>)
    <3> SUFFICES ASSUME o = <<>>
                 PROVE  Announced(a) <=> a # <<>>
      OBVIOUS
    <3>1. o \o (a \o t) = a \o t
      BY <2>3, ConcatEmptySeq
    <3>2. a \in {<<>>, <<"status">>, Full}
      BY <2>1, <2>2, <3>1, PartOfAnswer
    <3> QED
      BY <3>2, StatusFirst
  <2>7. Announced(a) => a # <<>>
    BY DEF Announced, ToSet
  <2>8. Announced(a \o o) <=> o # <<>> \/ a # <<>>
    BY <2>1, <2>5, <2>6, <2>7, AnnouncedInParts
  <2>9. o \o (a \o t) = <<>> <=> o = <<>> /\ a = <<>> /\ t = <<>>
    BY <2>1, NothingWritten
  <2> QED
    BY <2>5, <2>6, <2>8, <2>9 DEF Heard, Stream, o, a, t
<1>2. Root \in Pids /\ output[Root] = <<>>
  BY ParentName DEF SchedulerInv, OutputInv
<1>3. Announcers = {c \in Provers : Heard(c)}
  BY <1>1, ParentName DEF Announcers
<1> QED
  BY <1>1, <1>2, <1>3 DEF HeardInv

----------------------------------------------------------------------------
(* No announcement is lost *)

HeardBelow(s) == \E c \in Provers : Heard(c) /\ Front(c) = s

(* An answer of a scheduler has its origin in a prover, and a scheduler    *)
(* that leaves has an answer or has been told to.                          *)
AnswerInv ==
    /\ \A p \in Schedulers : Stream(p) # <<>> => \E c \in Provers : Heard(c)
    /\ \A p \in Schedulers : pc[p] = "print" => Stream(p) # <<>>
    /\ \A p \in Schedulers : pc[p] \in Leaving =>
         Stream(p) # <<>> \/ (caught[p] /\ exit_status[p] = "parent_request")

(* What a prover has announced, its parent will read, and the root from    *)
(* the parent, unless the root has been told to stop.                      *)
NotLostInv ==
    /\ \A s \in Children : pc[s] \in Early =>
         \A c \in Provers : Heard(c) /\ Front(c) = s => c \in procs[s]
    /\ pc[Root] \in Early => \A s \in Children : HeardBelow(s) =>
         s \in procs[Root] \/ (caught[Root] /\ pc[Root] = "read")
    /\ \A s \in Children : pc[s] \in Gone /\ HeardBelow(s) /\ ~Heard(s) =>
         caught[Root] \/ pc[Root] \notin Early
    /\ \A s \in Children : caught[s] => caught[Root] \/ pc[Root] \notin Early

PromiseInv == TreeInv /\ AnswerInv /\ NotLostInv

(* Where a prover prints, its parent and the root have not let it go.      *)
LEMMA PrintingBelow ==
    ASSUME TreeInv, NEW c \in Provers, pc[c] = "print"
    PROVE  /\ c \in procs[Front(c)]
           /\ pc[Root] \notin Gone =>
                Front(c) \in procs[Root] /\ pc[Front(c)] \notin Gone
           /\ ~(pc[Root] \in Gone /\ exit_status[Root] \notin Cut)
<1> DEFINE s == Front(c)
<1>1. s \in Children /\ s \in Pids \ {Root} /\ Front(s) = Root /\ c \in Pids \ {Root}
  BY ParentName DEF Children
<1>2. c \in procs[s]
  BY <1>1 DEF TreeInv, ParentInv
<1>3. ~BelowIsOver(s)
  BY DEF BelowIsOver, Over, Gone
<1> HIDE DEF s
<1>4. ASSUME pc[Root] \notin Gone
      PROVE  s \in procs[Root] /\ pc[s] \notin Gone
  <2>1. pc[s] \notin Gone
    BY <1>1, <1>3, <1>4 DEF TreeInv, OverInv
  <2>2. pc[s] # "free"
    BY <1>1, <1>2, TreeTypes DEF Alone
  <2> QED
    BY <1>1, <2>1, <2>2 DEF TreeInv, ParentInv, Gone
<1>5. ~(pc[Root] \in Gone /\ exit_status[Root] \notin Cut)
  BY <1>1, <1>3 DEF TreeInv, OverInv
<1> QED
  BY <1>2, <1>4, <1>5 DEF s

LEMMA PromiseKept ==
    ASSUME PromiseInv, TreeInv',
           \A p \in Pids : pc'[p] \in Early => pc[p] \in Early,
           \A p \in Pids : Heard(p) => Heard(p)',
           \A c \in Provers : Heard(c)' => Heard(c) \/ pc[c] = "print",
           \A p \in Schedulers : Stream(p)' # <<>> => Stream(p) # <<>> \/ \E c \in Provers : Heard(c),
           \A p \in Schedulers : pc'[p] = "print" => Stream(p)' # <<>>,
           \A p \in Schedulers : pc'[p] \in Leaving =>
              Stream(p)' # <<>> \/ (caught'[p] /\ exit_status'[p] = "parent_request"),
           caught[Root] => caught'[Root],
           \A s \in Children : caught'[s] => caught[s] \/ caught'[Root] \/ pc'[Root] \notin Early,
           \A s \in Children : pc'[s] \in Early => \A c \in procs[s] \ procs'[s] : ~Heard(c)',
           pc'[Root] \in Early => \A s \in procs[Root] \ procs'[Root] :
              pc[s] \in Gone /\ ~Heard(s) /\ pc[Root] = "read" /\ pc'[Root] = "read",
           caught[Root] /\ pc[Root] = "read" /\ pc'[Root] \in Early => pc'[Root] = "read",
           \A s \in Children : pc'[s] \in Gone =>
              \/ pc[s] \in Gone \/ (pc[s] \in Early /\ procs[s] = {})
              \/ Heard(s) \/ caught[s] \/ caught'[Root] \/ pc'[Root] \notin Early
    PROVE  PromiseInv'
<1> USE ParentName
<1>1. AnswerInv'
  BY DEF PromiseInv, AnswerInv
<1>2. TreeInv /\ (pc[Root] \in Early => pc[Root] \notin Gone)
  BY DEF PromiseInv, Early, Gone
<1>3. ASSUME NEW s \in Children, HeardBelow(s)'
      PROVE  HeardBelow(s) \/ \E c \in Provers : pc[c] = "print" /\ Front(c) = s
  BY <1>3 DEF HeardBelow
<1>4. \A s \in Children : pc'[s] \in Early =>
        \A c \in Provers : Heard(c)' /\ Front(c) = s => c \in procs'[s]
  <2> SUFFICES ASSUME NEW s \in Children, pc'[s] \in Early, NEW c \in Provers, Heard(c)', Front(c) = s
               PROVE  c \in procs'[s]
    OBVIOUS
  <2>1. s \in Pids /\ pc[s] \in Early
    OBVIOUS
  <2>2. CASE Heard(c)
    BY <2>1, <2>2 DEF PromiseInv, NotLostInv
  <2>3. CASE pc[c] = "print"
    BY <1>2, <2>3, PrintingBelow
  <2> QED
    BY <2>2, <2>3
<1>5. pc'[Root] \in Early => \A s \in Children : HeardBelow(s)' =>
        s \in procs'[Root] \/ (caught'[Root] /\ pc'[Root] = "read")
  <2> SUFFICES ASSUME pc'[Root] \in Early, NEW s \in Children, HeardBelow(s)', s \notin procs'[Root]
               PROVE  caught'[Root] /\ pc'[Root] = "read"
    OBVIOUS
  <2>1. pc[Root] \in Early
    OBVIOUS
  <2>2. CASE HeardBelow(s)
    <3>1. s \in procs[Root] \/ (caught[Root] /\ pc[Root] = "read")
      BY <2>1, <2>2 DEF PromiseInv, NotLostInv
    <3>2. CASE s \in procs[Root]
      <4>1. pc[s] \in Gone /\ ~Heard(s) /\ pc'[Root] = "read"
        BY <3>2
      <4>2. caught[Root]
        BY <2>1, <2>2, <4>1 DEF PromiseInv, NotLostInv
      <4> QED
        BY <4>1, <4>2
    <3> QED
      BY <3>1, <3>2
  <2>3. ASSUME NEW c \in Provers, pc[c] = "print", Front(c) = s
        PROVE  FALSE
    <3>1. s \in procs[Root] /\ pc[s] \notin Gone
      BY <1>2, <2>1, <2>3, PrintingBelow
    <3> QED
      BY <3>1
  <2> QED
    BY <1>3, <2>2, <2>3
<1>6. \A s \in Children : pc'[s] \in Gone /\ HeardBelow(s)' /\ ~Heard(s)' =>
        caught'[Root] \/ pc'[Root] \notin Early
  <2> SUFFICES ASSUME NEW s \in Children, pc'[s] \in Gone, HeardBelow(s)', ~Heard(s)',
                      ~caught'[Root], pc'[Root] \in Early
               PROVE  FALSE
    OBVIOUS
  <2>1. pc[Root] \in Early /\ ~caught[Root] /\ s \in Pids /\ ~Heard(s)
    OBVIOUS
  <2>2. ~caught[s]
    BY <2>1 DEF PromiseInv, NotLostInv
  <2>3. ASSUME NEW c \in Provers, pc[c] = "print", Front(c) = s
        PROVE  FALSE
    <3>1. c \in procs[s] /\ pc[s] \notin Gone
      BY <1>2, <2>1, <2>3, PrintingBelow
    <3> QED
      BY <2>1, <2>2, <3>1
  <2>4. HeardBelow(s)
    BY <1>3, <2>3
  <2>5. pc[s] \notin Gone
    BY <2>1, <2>4 DEF PromiseInv, NotLostInv
  <2>6. ~(pc[s] \in Early /\ procs[s] = {})
    BY <2>4 DEF PromiseInv, NotLostInv, HeardBelow
  <2> QED
    BY <2>1, <2>2, <2>5, <2>6
<1>7. \A s \in Children : caught'[s] => caught'[Root] \/ pc'[Root] \notin Early
  BY DEF PromiseInv, NotLostInv
<1> QED
  BY <1>1, <1>4, <1>5, <1>6, <1>7 DEF PromiseInv, NotLostInv

LEMMA PromiseTypes ==
    ASSUME PromiseInv
    PROVE  /\ TreeInv /\ SchedulerInv /\ HeardInv
           /\ \A p \in Schedulers : pc[p] = "print" => Stream(p) # <<>>
           /\ \A p \in Schedulers : pc[p] \in Leaving =>
                Stream(p) # <<>> \/ (caught[p] /\ exit_status[p] = "parent_request")
           /\ \A p \in Pids : Stream(p) = <<>> <=> ~Heard(p) /\ toprint[p] = <<>>
BY HeardMeans DEF PromiseInv, TreeInv, AnswerInv, HeardInv

(* Steps that move no output and after which no scheduler begins to print  *)
LEMMA QuietSteps ==
    ASSUME PromiseInv, TreeInv', UNCHANGED streams,
           \A p \in Pids : pc'[p] \in Early => pc[p] \in Early,
           \A p \in Schedulers : pc'[p] = "print" => pc[p] = "print",
           \A p \in Schedulers : pc'[p] \in Leaving =>
              \/ Stream(p) # <<>> \/ (caught'[p] /\ exit_status'[p] = "parent_request"),
           caught[Root] => caught'[Root],
           \A s \in Children : caught'[s] => caught[s] \/ caught'[Root] \/ pc'[Root] \notin Early,
           \A s \in Children : pc'[s] \in Early => \A c \in procs[s] \ procs'[s] : ~Heard(c),
           pc'[Root] \in Early => \A s \in procs[Root] \ procs'[Root] :
              pc[s] \in Gone /\ ~Heard(s) /\ pc[Root] = "read" /\ pc'[Root] = "read",
           caught[Root] /\ pc[Root] = "read" /\ pc'[Root] \in Early => pc'[Root] = "read",
           \A s \in Children : pc'[s] \in Gone =>
              \/ pc[s] \in Gone \/ (pc[s] \in Early /\ procs[s] = {})
              \/ Heard(s) \/ caught[s] \/ caught'[Root] \/ pc'[Root] \notin Early
    PROVE  PromiseInv'
<1>1. \A p : (Heard(p)' <=> Heard(p)) /\ Stream(p)' = Stream(p)
  BY DEF streams, Heard, Stream
<1>2. \A p \in Schedulers : pc'[p] = "print" => Stream(p)' # <<>>
  BY <1>1, PromiseTypes
<1>3. \A p \in Schedulers : pc'[p] \in Leaving =>
        Stream(p)' # <<>> \/ (caught'[p] /\ exit_status'[p] = "parent_request")
  BY <1>1
<1>4. \A s \in Children : pc'[s] \in Early => \A c \in procs[s] \ procs'[s] : ~Heard(c)'
  BY <1>1
<1>5. /\ \A p \in Pids : Heard(p) => Heard(p)'
      /\ \A c \in Provers : Heard(c)' => Heard(c) \/ pc[c] = "print"
      /\ \A p \in Schedulers : Stream(p)' # <<>> => Stream(p) # <<>> \/ \E c \in Provers : Heard(c)
  BY <1>1
<1> QED
  BY <1>2, <1>3, <1>4, <1>5, PromiseKept, Zenon

LEMMA QuietMove ==
    ASSUME PromiseInv, TreeInv', UNCHANGED <<toprint, pipe, output, procs, caught>>,
           NEW p \in Pids, NEW l \in Places \ {"print"}, pc' = [pc EXCEPT ![p] = l],
           \A q \in Pids \ {p} : exit_status'[q] = exit_status[q],
           l \in Early => pc[p] \in Early,
           p \in Schedulers /\ l \in Leaving =>
              Stream(p) # <<>> \/ (caught[p] /\ exit_status'[p] = "parent_request"),
           p = Root /\ caught[Root] /\ pc[Root] = "read" => l \notin Early,
           p \in Children /\ l \in Gone =>
              \/ pc[p] \in Early /\ procs[p] = {}
              \/ Heard(p) \/ caught[p] \/ pc[Root] \notin Early
    PROVE  PromiseInv'
<1> USE ParentName
<1>1. \A q \in Pids : pc'[q] = IF q = p THEN l ELSE pc[q]
  BY PromiseTypes, TreeTypes
<1>2. /\ \A q \in Pids : pc'[q] \in Early => pc[q] \in Early
      /\ \A q \in Schedulers : pc'[q] = "print" => pc[q] = "print"
  BY <1>1
<1>3. \A q \in Schedulers : pc'[q] \in Leaving =>
        Stream(q) # <<>> \/ (caught'[q] /\ exit_status'[q] = "parent_request")
  BY <1>1, PromiseTypes
<1>4. caught[Root] /\ pc[Root] = "read" /\ pc'[Root] \in Early => pc'[Root] = "read"
  BY <1>1
<1>5. \A s \in Children : pc'[s] \in Gone =>
        \/ pc[s] \in Gone \/ (pc[s] \in Early /\ procs[s] = {})
        \/ Heard(s) \/ caught[s] \/ caught'[Root] \/ pc'[Root] \notin Early
  BY <1>1 DEF Children
<1>6. UNCHANGED streams
  BY DEF streams
<1>7. /\ caught[Root] => caught'[Root]
      /\ \A s \in Children : caught'[s] => caught[s] \/ caught'[Root] \/ pc'[Root] \notin Early
      /\ \A s \in Children : pc'[s] \in Early => \A c \in procs[s] \ procs'[s] : ~Heard(c)
      /\ pc'[Root] \in Early => \A s \in procs[Root] \ procs'[Root] :
              pc[s] \in Gone /\ ~Heard(s) /\ pc[Root] = "read" /\ pc'[Root] = "read"
  OBVIOUS
<1> QED
  BY <1>2, <1>3, <1>4, <1>5, <1>6, <1>7, QuietSteps, Zenon

LEMMA PromiseMoves ==
    ASSUME PromiseInv, TreeInv', NEW p \in Pids,
           \/ p \in Schedulers /\ \/ InstallHandler(p) \/ TestLoop(p) \/ ScheduleDone(p)
                                  \/ CheckSigTerm(p) \/ ExitScheduler(p) \/ Select(p)
           \/ BecomeChild(p) \/ Preprocess(p) \/ Fail(p) \/ Written(p)
    PROVE  PromiseInv'
<1> USE PromiseTypes, TreeTypes, ParentName DEF Goto, Exit, streams, signals, Early, Gone, Leaving, Places,
        Alone
<1>1. CASE InstallHandler(p) \/ Select(p)
  <2>1. PICK l \in {"start", "read"} :
          /\ pc[p] \in {"enter", "start"} /\ pc' = [pc EXCEPT ![p] = l]
          /\ UNCHANGED <<toprint, pipe, output, procs, caught, exit_status>>
    BY <1>1 DEF InstallHandler, Select
  <2> QED
    BY <2>1, QuietMove
<1>2. CASE TestLoop(p)
  <2>1. PICK l \in {"start", "exhausted"} :
          /\ pc[p] = "test" /\ pc' = [pc EXCEPT ![p] = l]
          /\ UNCHANGED <<toprint, pipe, output, procs, caught, exit_status>>
    BY <1>2 DEF TestLoop
  <2> QED
    BY <2>1, QuietMove
<1>3. CASE ScheduleDone(p)
  <2>1. PICK l \in {"dead", "enter"} :
          /\ pc[p] = "exhausted" /\ pc' = [pc EXCEPT ![p] = l]
          /\ \A q \in Pids \ {p} : exit_status'[q] = exit_status[q]
          /\ UNCHANGED <<toprint, pipe, output, procs, caught>>
    BY <1>3 DEF ScheduleDone
  <2>2. pc[p] \in Early /\ procs[p] = {}
    BY <2>1
  <2> QED
    BY <2>1, <2>2, QuietMove
<1>4. CASE CheckSigTerm(p)
  <2>1. CASE caught[p]
    <3>1. /\ pc[p] = "read" /\ pc' = [pc EXCEPT ![p] = "free_set"]
          /\ exit_status'[p] = "parent_request"
          /\ \A q \in Pids \ {p} : exit_status'[q] = exit_status[q]
          /\ UNCHANGED <<toprint, pipe, output, procs, caught>>
      BY <1>4, <2>1 DEF CheckSigTerm
    <3> QED
      BY <2>1, <3>1, QuietMove
  <2>2. CASE ~caught[p]
    <3>1. /\ pc[p] = "read" /\ pc' = [pc EXCEPT ![p] = "test"]
          /\ UNCHANGED <<toprint, pipe, output, procs, caught, exit_status>>
      BY <1>4, <2>2 DEF CheckSigTerm
    <3>2. /\ "test" \in Places \ {"print"} /\ "test" \in Early /\ pc[p] \in Early
          /\ "test" \notin Leaving /\ "test" \notin Gone
      BY <3>1
    <3>3. ~(p = Root /\ caught[Root]) /\ \A q \in Pids \ {p} : exit_status'[q] = exit_status[q]
      BY <2>2, <3>1
    <3> QED
      BY <3>1, <3>2, <3>3, QuietMove, Zenon
  <2> QED
    BY <2>1, <2>2
<1>5. CASE p \in Schedulers /\ ExitScheduler(p)
  <2>1. /\ pc[p] = "free_set" /\ pc' = [pc EXCEPT ![p] = "dead"]
        /\ \A q \in Pids \ {p} : exit_status'[q] = exit_status[q]
        /\ UNCHANGED <<toprint, pipe, output, procs, caught>>
    BY <1>5 DEF ExitScheduler
  <2>2. toprint[p] = <<>>
    BY <2>1, TypesOf
  <2>3. Heard(p) \/ caught[p]
    BY <1>5, <2>1, <2>2
  <2> QED
    BY <2>1, <2>3, QuietMove
<1>6. CASE BecomeChild(p)
  <2>1. PICK l \in {"dead", "prep", "search"} :
          /\ pc[p] = "forked" /\ pc' = [pc EXCEPT ![p] = l]
          /\ \A q \in Pids \ {p} : exit_status'[q] = exit_status[q]
          /\ UNCHANGED <<toprint, pipe, output, procs, caught>>
    BY <1>6 DEF BecomeChild
  <2>2. procs[p] = {}
    BY <2>1
  <2> QED
    BY <2>1, <2>2, QuietMove
<1>7. CASE Preprocess(p)
  <2>1. /\ pc[p] = "prep" /\ pc' = [pc EXCEPT ![p] = "enter"]
        /\ UNCHANGED <<toprint, pipe, output, procs, caught, exit_status>>
    BY <1>7 DEF Preprocess
  <2> QED
    BY <2>1, QuietMove
<1>8. CASE Fail(p)
  <2>1. /\ pc[p] \in {"prep", "search", "print"} /\ pc' = [pc EXCEPT ![p] = "dead"]
        /\ pc[p] = "print" => p \in Provers
        /\ \A q \in Pids \ {p} : exit_status'[q] = exit_status[q]
        /\ UNCHANGED <<toprint, pipe, output, procs, caught>>
    BY <1>8 DEF Fail
  <2>2. p \in Children => pc[p] \in Early /\ procs[p] = {}
    BY <2>1 DEF Children
  <2> QED
    BY <2>1, <2>2, QuietMove
<1>9. CASE Written(p)
  <2>1. PICK l \in {"dead", "free_set"} :
          /\ pc[p] = "print" /\ pc' = [pc EXCEPT ![p] = l]
          /\ l = "dead" => p \in Provers
          /\ \A q \in Pids \ {p} : exit_status'[q] = exit_status[q]
          /\ UNCHANGED <<toprint, pipe, output, procs, caught>>
    BY <1>9 DEF Written
  <2>2. p \in Schedulers => Stream(p) # <<>>
    BY <2>1
  <2>3. p \in Children => l \notin Gone
    BY <2>1 DEF Children
  <2>4. l \in Places \ {"print"} /\ l \notin Early /\ pc[p] # "read"
    BY <2>1
  <2>5. p = Root /\ caught[Root] /\ pc[Root] = "read" => l \notin Early
    BY <2>4
  <2> QED
    BY <2>1, <2>2, <2>3, <2>4, <2>5, QuietMove, Zenon
<1> QED
  BY <1>1, <1>2, <1>3, <1>4, <1>5, <1>6, <1>7, <1>8, <1>9

(* Steps in which a process moves output, or begins to print it            *)
LEMMA SpokenSteps ==
    ASSUME PromiseInv, TreeInv', UNCHANGED <<procs, caught>>,
           \A p \in Pids : pc'[p] \in Early => pc[p] \in Early,
           \A p \in Pids : Heard(p) => Heard(p)',
           \A c \in Provers : Heard(c)' => Heard(c) \/ pc[c] = "print",
           \A p \in Schedulers : Stream(p)' # <<>> => Stream(p) # <<>> \/ \E c \in Provers : Heard(c),
           \A p \in Schedulers : pc'[p] = "print" => Stream(p)' # <<>>,
           \A p \in Schedulers : pc'[p] \in Leaving =>
              pc[p] \in Leaving /\ exit_status'[p] = exit_status[p] /\ (Stream(p) # <<>> => Stream(p)' # <<>>),
           pc[Root] = "read" /\ pc'[Root] \in Early => pc'[Root] = "read",
           \A s \in Children : pc'[s] \in Gone => pc[s] \in Gone
    PROVE  PromiseInv'
<1>1. \A p \in Schedulers : pc'[p] \in Leaving =>
        Stream(p)' # <<>> \/ (caught'[p] /\ exit_status'[p] = "parent_request")
  BY PromiseTypes
<1>2. /\ caught[Root] => caught'[Root]
      /\ \A s \in Children : caught'[s] => caught[s] \/ caught'[Root] \/ pc'[Root] \notin Early
      /\ \A s \in Children : pc'[s] \in Early => \A c \in procs[s] \ procs'[s] : ~Heard(c)'
      /\ pc'[Root] \in Early => \A s \in procs[Root] \ procs'[Root] :
              pc[s] \in Gone /\ ~Heard(s) /\ pc[Root] = "read" /\ pc'[Root] = "read"
      /\ caught[Root] /\ pc[Root] = "read" /\ pc'[Root] \in Early => pc'[Root] = "read"
      /\ \A s \in Children : pc'[s] \in Gone =>
              \/ pc[s] \in Gone \/ (pc[s] \in Early /\ procs[s] = {})
              \/ Heard(s) \/ caught[s] \/ caught'[Root] \/ pc'[Root] \notin Early
  OBVIOUS
<1> QED
  BY <1>1, <1>2, PromiseKept, Zenon

LEMMA NotEmptyAfter ==
    ASSUME NEW o \in Seq(Chunks), NEW a \in Seq(Chunks), a # <<>>
    PROVE  Append(o, Head(a)) # <<>>
<1>1. Head(a) \in Chunks
  BY HeadTailProperties
<1>2. /\ Append(o, Head(a)) \in Seq(Chunks) /\ Len(o) \in Nat
      /\ Len(Append(o, Head(a))) = Len(o) + 1
  BY <1>1, AppendProperties
<1> QED
  BY <1>2

LEMMA PromiseWritten ==
    ASSUME PromiseInv, TreeInv', NEW p \in Pids, WriteChunk(p) \/ FindProof(p)
    PROVE  PromiseInv'
<1>9. \A o, a \in Seq(Chunks) : a # <<>> => Append(o, Head(a)) # <<>>
  BY NotEmptyAfter
<1> USE PromiseTypes, TreeTypes, ParentName DEF signals
<1>0. /\ \A q \in Pids : Stream(q)' = <<>> <=> ~Heard(q)' /\ toprint'[q] = <<>>
  <2>1. SchedulerInv'
    BY DEF TreeInv
  <2>2. SchedulerInv' => HeardInv'
    BY HeardMeans, PTL
  <2> QED
    BY <2>1, <2>2 DEF HeardInv
<1>1. /\ toprint \in [Pids -> Seq(Chunks)] /\ pipe \in [Pids -> Seq(Chunks)]
      /\ output \in [Pids -> Seq(Chunks)]
  BY StreamTypes
<1>2. CASE FindProof(p)
  <2>1. /\ pc[p] = "search" /\ pc' = [pc EXCEPT ![p] = "print"]
        /\ UNCHANGED <<pipe, output, procs, caught, exit_status>>
        /\ \A q \in Pids \ {p} : toprint'[q] = toprint[q]
    BY <1>1, <1>2 DEF FindProof, Goto
  <2>2. p \notin Schedulers /\ \A q \in Pids : pc'[q] = IF q = p THEN "print" ELSE pc[q]
    BY <2>1
  <2>3. \A q \in Schedulers : pc'[q] = pc[q] /\ Stream(q)' = Stream(q)
    BY <2>1, <2>2 DEF Stream
  <2>4. \A q \in Pids : Heard(q)' <=> Heard(q)
    BY <2>1 DEF Heard
  <2>5. \A q \in Pids : pc'[q] \in Early => pc[q] \in Early
    BY <2>2 DEF Early
  <2>6. \A q \in Schedulers : pc'[q] = "print" => Stream(q)' # <<>>
    BY <2>3
  <2>7. /\ UNCHANGED <<procs, caught>>
        /\ \A s \in Children : pc'[s] \in Gone => pc[s] \in Gone
        /\ pc[Root] = "read" /\ pc'[Root] \in Early => pc'[Root] = "read"
    BY <2>1, <2>3
  <2> QED
    BY <2>1, <2>3, <2>4, <2>5, <2>6, <2>7, SpokenSteps
<1>3. CASE WriteChunk(p) /\ p # Root /\ ~HasReader(p)
  <2>1. /\ pc[p] = "print" /\ pc' = [pc EXCEPT ![p] = "dead"]
        /\ \A q \in Pids \ {p} : exit_status'[q] = exit_status[q]
        /\ UNCHANGED <<toprint, pipe, output, procs, caught>>
    BY <1>3 DEF WriteChunk, Exit, Goto, streams
  <2>2. ~Alive(Front(p))
    BY <1>3 DEF HasReader
  <2>3. p \in Children => pc[Root] \notin Early
    BY <2>2 DEF Alive, Ended, Early
  <2>4. "dead" \in Places \ {"print"} /\ "dead" \notin Early /\ "dead" \notin Leaving
    BY DEF Places, Early, Leaving, Gone
  <2> QED
    BY <1>3, <2>1, <2>3, <2>4, QuietMove
<1>4. CASE WriteChunk(p) /\ ~(p # Root /\ ~HasReader(p))
  <2>1. /\ pc[p] = "print" /\ toprint[p] # <<>>
        /\ pipe' = [pipe EXCEPT ![p] = Append(@, Head(toprint[p]))]
        /\ toprint' = [toprint EXCEPT ![p] = Tail(@)]
        /\ UNCHANGED <<pc, output, exit_status, procs, caught>>
    BY <1>4 DEF WriteChunk
  <2>2. pipe'[p] # <<>>
    <3>1. pipe'[p] = Append(pipe[p], Head(toprint[p]))
      BY <1>1, <2>1
    <3>2. pipe[p] \in Seq(Chunks) /\ toprint[p] \in Seq(Chunks)
      BY <1>1
    <3> QED
      BY <1>9, <2>1, <3>1, <3>2, Zenon
  <2>3. Heard(p)' /\ \A q \in Pids \ {p} : (Heard(q)' <=> Heard(q)) /\ Stream(q)' = Stream(q)
    BY <1>1, <2>1, <2>2 DEF Heard, Stream
  <2>4. Stream(p) # <<>> /\ Stream(p)' # <<>>
    BY <1>0, <2>1, <2>3
  <2>5. /\ \A q \in Pids : pc'[q] \in Early => pc[q] \in Early
        /\ \A q \in Pids : Heard(q) => Heard(q)'
        /\ \A c \in Provers : Heard(c)' => Heard(c) \/ pc[c] = "print"
    BY <2>1, <2>3
  <2>6. /\ \A q \in Schedulers : Stream(q)' # <<>> => Stream(q) # <<>>
        /\ \A q \in Schedulers : pc'[q] = "print" => Stream(q)' # <<>>
        /\ \A q \in Schedulers : Stream(q) # <<>> => Stream(q)' # <<>>
    BY <2>1, <2>3, <2>4
  <2> QED
    BY <2>1, <2>5, <2>6, SpokenSteps
<1> QED
  BY <1>2, <1>3, <1>4

LEMMA PromiseRead ==
    ASSUME PromiseInv, TreeInv', NEW p \in Schedulers, NEW c \in todo[p],
           ReadOutput(p, c) \/ GetResult(p, c) \/ WaitPid(p, c)
    PROVE  PromiseInv'
<1>9. \A o, a \in Seq(Chunks) : a # <<>> => Append(o, Head(a)) # <<>>
  BY NotEmptyAfter
<1> USE PromiseTypes, TreeTypes, ParentName DEF signals
<1>0. /\ \A q \in Pids : Stream(q)' = <<>> <=> ~Heard(q)' /\ toprint'[q] = <<>>
  <2>1. SchedulerInv'
    BY DEF TreeInv
  <2>2. SchedulerInv' => HeardInv'
    BY HeardMeans, PTL
  <2> QED
    BY <2>1, <2>2 DEF HeardInv
<1>1. /\ toprint \in [Pids -> Seq(Chunks)] /\ pipe \in [Pids -> Seq(Chunks)]
      /\ output \in [Pids -> Seq(Chunks)]
  BY StreamTypes
<1>2. /\ c \in Pids \ {Root} /\ p \in Pids /\ c \in procs[p] /\ Front(c) = p
      /\ pc[p] = "read" => pipe[c] # <<>> \/ pc[c] \in Gone
  BY ParentOf, TypesOf DEF SchedulerInv, BooksInv
<1>3. CASE ReadOutput(p, c)
  <2>1. /\ pipe[c] # <<>>
        /\ output' = [output EXCEPT ![c] = Append(@, Head(pipe[c]))]
        /\ pipe'   = [pipe EXCEPT ![c] = Tail(@)]
        /\ UNCHANGED <<pc, procs, toprint, caught, exit_status>>
    BY <1>3 DEF ReadOutput
  <2>2. output'[c] # <<>>
    <3>1. output'[c] = Append(output[c], Head(pipe[c]))
      BY <1>1, <1>2, <2>1
    <3>2. output[c] \in Seq(Chunks) /\ pipe[c] \in Seq(Chunks)
      BY <1>1, <1>2
    <3> QED
      BY <1>9, <2>1, <3>1, <3>2, Zenon
  <2>3. /\ Heard(c) /\ Heard(c)'
        /\ \A q \in Pids \ {c} : (Heard(q)' <=> Heard(q)) /\ Stream(q)' = Stream(q)
    BY <1>1, <2>1, <2>2 DEF Heard, Stream
  <2>4. Stream(c) # <<>> /\ Stream(c)' # <<>>
    BY <1>0, <1>2, <2>3
  <2>5. /\ \A q \in Pids : Heard(q)' <=> Heard(q)
        /\ \A q \in Schedulers : Stream(q)' = <<>> <=> Stream(q) = <<>>
    BY <2>3, <2>4
  <2> QED
    BY <2>1, <2>5, SpokenSteps
<1>4. CASE GetResult(p, c) /\ IsResult(c)
  <2>1. /\ pc[p] = "read" /\ pipe[c] = <<>> /\ Announced(output[c])
        /\ pc' = [pc EXCEPT ![c] = "reaped", ![p] = "print"]
        /\ toprint' = [toprint EXCEPT ![p] = output[c]]
        /\ UNCHANGED <<procs, pipe, output, caught>>
    BY <1>4 DEF GetResult, IsResult
  <2>2. output[c] # <<>> /\ Heard(c) /\ Stream(c) # <<>> /\ pc[c] \in Gone
    BY <1>2, <2>1 DEF HeardInv, Heard
  <2>3. \E d \in Provers : Heard(d)
    <3>1. CASE c \in Provers
      BY <2>2, <3>1
    <3>2. CASE c \in Schedulers
      BY <2>2, <3>2 DEF PromiseInv, AnswerInv
    <3> QED
      BY <1>2, <3>1, <3>2
  <2>4. \A q \in Pids : Heard(q)' <=> Heard(q)
    BY <2>1 DEF Heard
  <2>5. p # c /\ \A q \in Pids : pc'[q] = IF q = p THEN "print" ELSE IF q = c THEN "reaped" ELSE pc[q]
    BY <1>2, <2>1, <2>2 DEF Gone
  <2>6. toprint'[p] = output[c] /\ \A q \in Pids \ {p} : toprint'[q] = toprint[q]
    BY <1>1, <1>2, <2>1
  <2>7. \A q \in Schedulers : pc'[q] = "print" => Stream(q)' # <<>>
    <3> SUFFICES ASSUME NEW q \in Schedulers, pc'[q] = "print"
                 PROVE  Stream(q)' # <<>>
      OBVIOUS
    <3>1. CASE q = p
      BY <1>0, <1>2, <2>2, <2>6, <3>1
    <3>2. CASE q # p
      <4>1. pc[q] = "print" /\ q \in Pids
        BY <2>5, <3>2
      <4>2. Stream(q) # <<>> /\ Stream(q)' = Stream(q)
        BY <2>1, <2>6, <3>2, <4>1 DEF Stream
      <4> QED
        BY <4>2
    <3> QED
      BY <3>1, <3>2
  <2>8. \A q \in Schedulers : pc'[q] \in Leaving =>
          /\ pc[q] \in Leaving /\ exit_status'[q] = exit_status[q]
          /\ Stream(q) # <<>> => Stream(q)' # <<>>
    <3> SUFFICES ASSUME NEW q \in Schedulers, pc'[q] \in Leaving
                 PROVE  /\ pc[q] \in Leaving /\ exit_status'[q] = exit_status[q]
                        /\ Stream(q)' = Stream(q)
      OBVIOUS
    <3>1. q # p /\ q \in Pids /\ pc[q] = pc'[q]
      BY <2>5 DEF Leaving
    <3>2. exit_status'[q] = exit_status[q]
      BY <1>4, <3>1 DEF GetResult
    <3>3. Stream(q)' = Stream(q)
      BY <2>1, <2>6, <3>1 DEF Stream
    <3> QED
      BY <3>1, <3>2, <3>3
  <2>9. /\ \A q \in Pids : pc'[q] \in Early => pc[q] \in Early
        /\ \A s \in Children : pc'[s] \in Gone => pc[s] \in Gone
        /\ pc[Root] = "read" /\ pc'[Root] \in Early => pc'[Root] = "read"
    BY <1>2, <2>2, <2>5 DEF Early, Gone
  <2> QED
    BY <2>1, <2>3, <2>4, <2>7, <2>8, <2>9, SpokenSteps
<1>5. CASE GetResult(p, c) /\ ~IsResult(c)
  <2>1. /\ pc[p] = "read" /\ pipe[c] = <<>> /\ ~Announced(output[c])
        /\ pc' = [pc EXCEPT ![c] = "reaped"]
        /\ procs' = [procs EXCEPT ![p] = @ \ {c}]
        /\ UNCHANGED <<toprint, pipe, output, caught, exit_status>>
    BY <1>5 DEF GetResult, IsResult, Goto
  <2>2. output[c] = <<>> /\ ~Heard(c) /\ pc[c] \in Gone
    BY <1>2, <2>1 DEF HeardInv, Heard
  <2>3. p # c /\ \A q \in Pids : pc'[q] = IF q = c THEN "reaped" ELSE pc[q]
    BY <1>2, <2>1, <2>2 DEF Gone
  <2>4. \A q \in Pids : procs[q] \ procs'[q] \subseteq {c} /\ (q # p => procs'[q] = procs[q])
    BY <2>1
  <2>5. /\ \A q \in Pids : pc'[q] \in Early => pc[q] \in Early
        /\ \A q \in Schedulers : pc'[q] = "print" => pc[q] = "print"
        /\ \A s \in Children : pc'[s] \in Gone => pc[s] \in Gone
        /\ pc'[Root] = pc[Root]
        /\ \A q \in Schedulers : pc'[q] \in Leaving => pc[q] \in Leaving
    BY <1>2, <2>2, <2>3 DEF Early, Gone, Leaving
  <2>6. \A s \in Children : \A d \in procs[s] \ procs'[s] : ~Heard(d)
    BY <2>2, <2>4
  <2>7. \A s \in procs[Root] \ procs'[Root] :
           pc[s] \in Gone /\ ~Heard(s) /\ pc[Root] = "read" /\ pc'[Root] = "read"
    <3> SUFFICES ASSUME NEW s \in procs[Root] \ procs'[Root]
                 PROVE  pc[s] \in Gone /\ ~Heard(s) /\ pc[Root] = "read" /\ pc'[Root] = "read"
      OBVIOUS
    <3>1. s = c /\ p = Root
      BY <2>4
    <3> QED
      BY <2>1, <2>2, <2>5, <3>1
  <2>8. \A q \in Schedulers : pc'[q] \in Leaving =>
          Stream(q) # <<>> \/ (caught'[q] /\ exit_status'[q] = "parent_request")
    BY <2>1, <2>5
  <2>9. UNCHANGED streams
    BY <2>1 DEF streams
  <2>10. /\ caught[Root] => caught'[Root]
         /\ \A s \in Children : caught'[s] => caught[s]
    BY <2>1
  <2> QED
    BY <2>5, <2>6, <2>7, <2>8, <2>9, <2>10, QuietSteps
<1>6. CASE WaitPid(p, c)
  <2>1. /\ pc[p] = "waitpid" /\ pc[c] = "dead"
        /\ pc' = [pc EXCEPT ![c] = "reaped", ![p] = "free_set"]
        /\ procs' = [procs EXCEPT ![p] = @ \ {c}]
        /\ UNCHANGED <<streams, caught, exit_status>>
    BY <1>6 DEF WaitPid
  <2>2. p # c /\ \A q \in Pids : pc'[q] = IF q = p THEN "free_set" ELSE IF q = c THEN "reaped" ELSE pc[q]
    BY <1>2, <2>1
  <2>3. /\ \A q \in Pids : pc'[q] \in Early => pc[q] \in Early
        /\ \A q \in Schedulers : pc'[q] = "print" => pc[q] = "print"
        /\ \A s \in Children : pc'[s] \in Gone => pc[s] \in Gone
        /\ \A q \in Schedulers : pc'[q] \in Leaving => pc[q] \in Leaving
        /\ pc'[p] \notin Early
        /\ pc[Root] = "read" => pc'[Root] = "read"
    BY <1>2, <2>1, <2>2 DEF Early, Gone, Leaving
  <2>4. \A q \in Pids : q # p => procs'[q] = procs[q]
    BY <2>1
  <2>5. /\ \A s \in Children : pc'[s] \in Early => procs'[s] = procs[s]
        /\ pc'[Root] \in Early => procs'[Root] = procs[Root]
    BY <2>3, <2>4
  <2>6. \A q \in Schedulers : pc'[q] \in Leaving =>
          Stream(q) # <<>> \/ (caught'[q] /\ exit_status'[q] = "parent_request")
    BY <2>1, <2>3
  <2>7. /\ caught[Root] => caught'[Root]
        /\ \A s \in Children : caught'[s] => caught[s]
    BY <2>1
  <2> QED
    BY <2>1, <2>3, <2>5, <2>6, <2>7, QuietSteps
<1> QED
  BY <1>3, <1>4, <1>5, <1>6

(* The child that is told to stop dies or takes note of it. *)
LEMMA CleanupSignals ==
    ASSUME TreeInv, NEW p \in Schedulers, NEW c \in procs[p], Cleanup(p, c), pc[c] # "reaped"
    PROVE  \A q \in Pids :
             /\ pc'[q] = pc[q] \/ pc'[q] = "dead" \/ (q = p /\ pc'[q] = "waitpid")
             /\ q # c => exit_status'[q] = exit_status[q] /\ caught'[q] = caught[q]
             /\ q # c => pc'[q] = IF q = p THEN "waitpid" ELSE pc[q]
             /\ caught[q] => caught'[q]
             /\ pc'[q] # "dead" => exit_status'[q] = exit_status[q]
<1> DEFINE npc == [pc EXCEPT ![p] = "waitpid"]
<1>1. Deliver({c}, npc) /\ pc[p] = "free_set"
  BY DEF Cleanup
<1>2. SchedulerInv /\ pc \in [Pids -> Places] /\ p \in Pids
  BY TreeTypes, ParentName DEF TreeInv
<1>3. /\ npc \in [Pids -> Places]
      /\ \A q \in Pids : npc[q] = pc[q] \/ (q \in Schedulers /\ pc[q] = "free_set" /\ npc[q] = "waitpid")
      /\ \A q \in Pids : npc[q] = IF q = p THEN "waitpid" ELSE pc[q]
  BY <1>1, <1>2 DEF Places, Leaving
<1> HIDE DEF npc
<1>4. \A q \in Pids :
          \/ /\ q \in {c} /\ Alive(q) /\ handler[q] = "default"
             /\ pc'[q] = "dead" /\ exit_status'[q] = "killed"
             /\ caught'[q] = caught[q] /\ handler'[q] = "default"
          \/ /\ q \in {c} /\ Alive(q) /\ handler[q] = "sched" /\ caught'[q] /\ handler'[q] = "default"
             /\ pc'[q] = npc[q] /\ exit_status'[q] = exit_status[q]
          \/ /\ ~(q \in {c} /\ Alive(q))
             /\ caught'[q] = caught[q] /\ handler'[q] = handler[q]
             /\ pc'[q] = npc[q] /\ exit_status'[q] = exit_status[q]
  BY <1>1, <1>2, <1>3, SignalSteps, Zenon
<1> QED
  BY <1>3, <1>4

LEMMA PromiseCleanup ==
    ASSUME PromiseInv, TreeInv', NEW p \in Schedulers, NEW c \in procs[p], Cleanup(p, c)
    PROVE  PromiseInv'
<1> USE PromiseTypes, TreeTypes, ParentName DEF signals
<1>1. /\ pc[p] = "free_set" /\ c \in Pids \ {Root} /\ p \in Pids /\ Front(c) = p
      /\ UNCHANGED streams
  BY DEF Cleanup, SchedulerInv, BooksInv
<1>2. CASE pc[c] = "reaped"
  <2>1. /\ procs' = [procs EXCEPT ![p] = @ \ {c}]
        /\ UNCHANGED <<pc, caught, exit_status>>
    BY <1>2 DEF Cleanup
  <2>2. \A q \in Pids : q # p => procs'[q] = procs[q]
    BY <2>1
  <2>3. /\ \A s \in Children : pc'[s] \in Early => procs'[s] = procs[s]
        /\ pc'[Root] \in Early => procs'[Root] = procs[Root]
    BY <1>1, <2>1, <2>2 DEF Early
  <2> QED
    BY <1>1, <2>1, <2>3, QuietSteps
<1>3. CASE pc[c] # "reaped"
  <2>1. UNCHANGED procs
    BY <1>3 DEF Cleanup
  <2>3. \A q \in Pids : /\ pc'[q] = pc[q] \/ pc'[q] = "dead" \/ (q = p /\ pc'[q] = "waitpid")
                        /\ q # c => exit_status'[q] = exit_status[q] /\ caught'[q] = caught[q]
                        /\ q # c => pc'[q] = IF q = p THEN "waitpid" ELSE pc[q]
                        /\ caught[q] => caught'[q]
                        /\ pc'[q] # "dead" => exit_status'[q] = exit_status[q]
    BY <1>3, CleanupSignals
  <2>4. /\ \A q \in Pids : pc'[q] \in Early => pc[q] \in Early
        /\ \A q \in Schedulers : pc'[q] = "print" => pc[q] = "print"
        /\ \A q \in Schedulers : pc'[q] \in Leaving => pc[q] \in Leaving
    BY <1>1, <2>3 DEF Early, Leaving
  <2>5. p # c
    BY <1>1, ParentName DEF Children
  <2>6. \A s \in Children : s # c \/ pc'[Root] \notin Early
    <3> SUFFICES ASSUME c \in Children
                 PROVE  pc'[Root] \notin Early
      OBVIOUS
    <3>1. p = Root
      BY <1>1
    <3> QED
      BY <1>1, <2>3, <2>5, <3>1 DEF Early
  <2>7. /\ \A s \in Children : caught'[s] => caught[s] \/ pc'[Root] \notin Early
        /\ \A s \in Children : pc'[s] \in Gone => pc[s] \in Gone \/ pc'[Root] \notin Early
    <3> SUFFICES ASSUME NEW s \in Children, pc'[Root] \in Early
                 PROVE  caught'[s] = caught[s] /\ (pc'[s] \in Gone => pc[s] \in Gone)
      OBVIOUS
    <3>1. s # c /\ s \in Pids
      BY <2>6
    <3> QED
      BY <2>3, <3>1 DEF Gone
  <2>8. \A q \in Schedulers : pc'[q] \in Leaving =>
          Stream(q) # <<>> \/ (caught'[q] /\ exit_status'[q] = "parent_request")
    <3> SUFFICES ASSUME NEW q \in Schedulers, pc'[q] \in Leaving
                 PROVE  Stream(q) # <<>> \/ (caught'[q] /\ exit_status'[q] = "parent_request")
      OBVIOUS
    <3>1. pc[q] \in Leaving /\ q \in Pids /\ exit_status'[q] = exit_status[q]
      BY <2>3, <2>4 DEF Leaving
    <3> QED
      BY <2>3, <3>1
  <2>9. (caught[Root] => caught'[Root]) /\ (pc[Root] = "read" /\ pc'[Root] \in Early => pc'[Root] = "read")
    BY <2>3 DEF Early
  <2> QED
    BY <1>1, <2>1, <2>4, <2>7, <2>8, <2>9, QuietSteps
<1> QED
  BY <1>2, <1>3

(* A signal for all reaches the root, too. *)
LEMMA PromiseTerminate ==
    ASSUME PromiseInv, TreeInv', Terminate
    PROVE  PromiseInv'
<1> USE PromiseTypes, TreeTypes, ParentName
<1>1. UNCHANGED <<procs, streams>> /\ Alive(Root)
  BY DEF Terminate
<1>2. PICK S : Deliver(S, pc) /\ (S = {Root} \/ S = {p \in Pids : Alive(p)})
  BY DEF Terminate
<1>3. \A q \in Pids : /\ pc'[q] = pc[q] \/ pc'[q] = "dead"
                      /\ (pc'[q] = pc[q] /\ caught'[q] = caught[q]) \/ (q \in S /\ Alive(q))
  BY <1>2, SignalInPlace
<1>4. \A q \in Pids : /\ caught[q] => caught'[q]
                      /\ pc'[q] \notin Gone => exit_status'[q] = exit_status[q]
  <2> SUFFICES ASSUME NEW q \in Pids
               PROVE  /\ caught[q] => caught'[q]
                      /\ pc'[q] \notin Gone => exit_status'[q] = exit_status[q]
    OBVIOUS
  <2>1. caught[q] => caught'[q]
    BY <1>2 DEF Deliver
  <2>2. pc'[q] \notin Gone => exit_status'[q] = exit_status[q]
    BY <1>2 DEF Deliver, Gone
  <2> QED
    BY <2>1, <2>2
<1>5. /\ \A q \in Pids : pc'[q] \in Early => pc[q] \in Early
      /\ \A q \in Schedulers : pc'[q] = "print" => pc[q] = "print"
      /\ \A q \in Schedulers : pc'[q] \in Leaving => pc[q] \in Leaving /\ pc'[q] \notin Gone
      /\ pc[Root] = "read" /\ pc'[Root] \in Early => pc'[Root] = "read"
  BY <1>3 DEF Early, Leaving, Gone
<1>6. \A q \in Schedulers : pc'[q] \in Leaving =>
        Stream(q) # <<>> \/ (caught'[q] /\ exit_status'[q] = "parent_request")
  BY <1>4, <1>5
<1>7. S # {Root} => caught'[Root] \/ pc'[Root] \notin Early
  <2> SUFFICES ASSUME Root \in S
               PROVE  caught'[Root] \/ pc'[Root] \notin Early
    BY <1>1, <1>2
  <2>1. CASE handler[Root] = "sched"
    BY <1>1, <1>2, <2>1, SignalInPlace
  <2>2. CASE handler[Root] = "default"
    <3>1. pc'[Root] = "dead"
      BY <1>1, <1>2, <2>2, SignalInPlace
    <3> QED
      BY <3>1 DEF Early
  <2> QED
    BY <2>1, <2>2
<1>8. S = {Root} => \A s \in Children : pc'[s] = pc[s] /\ caught'[s] = caught[s]
  BY <1>3 DEF Children
<1> QED
  BY <1>1, <1>4, <1>5, <1>6, <1>7, <1>8, QuietSteps

LEMMA PromiseCreate ==
    ASSUME PromiseInv, TreeInv', NEW p \in Schedulers, EGPCtrlCreate(p)
    PROVE  PromiseInv'
<1>0. SchedulerInv
  BY PromiseTypes
<1>1. PICK c \in Pids \ {Root} :
        /\ Front(c) = p /\ p # c /\ pc[p] = "start" /\ pc[c] = "free"
        /\ pc' = [pc EXCEPT ![c] = "forked"]
        /\ procs' = [procs EXCEPT ![p] = @ \cup {c}]
        /\ caught'  = [caught EXCEPT ![c] = caught[p]]
        /\ UNCHANGED <<toprint, pipe, output, exit_status>>
  BY <1>0, NewChild
<1> USE PromiseTypes, TreeTypes, ParentName
<1>2. /\ \A q \in Pids : pc'[q] = IF q = c THEN "forked" ELSE pc[q]
      /\ \A q \in Pids : procs[q] \subseteq procs'[q]
      /\ \A q \in Pids : caught'[q] = IF q = c THEN caught[p] ELSE caught[q]
      /\ Root # c
  BY <1>1
<1>3. /\ \A q \in Pids : pc'[q] \in Early => pc[q] \in Early
      /\ \A q \in Schedulers : pc'[q] = "print" => pc[q] = "print"
      /\ \A q \in Schedulers : pc'[q] \in Leaving => pc[q] \in Leaving /\ q # c
      /\ pc'[Root] = pc[Root] /\ caught'[Root] = caught[Root]
      /\ \A s \in Children : pc'[s] \in Gone => pc[s] \in Gone
  BY <1>1, <1>2 DEF Early, Leaving, Gone
<1>4. \A q \in Schedulers : pc'[q] \in Leaving =>
        Stream(q) # <<>> \/ (caught'[q] /\ exit_status'[q] = "parent_request")
  BY <1>1, <1>2, <1>3
<1>5. \A s \in Children : caught'[s] => caught[s] \/ caught'[Root]
  <2> SUFFICES ASSUME NEW s \in Children, caught'[s], ~caught[s]
               PROVE  caught[Root]
    BY <1>3
  <2>1. s = c /\ p = Root
    BY <1>1, <1>2
  <2> QED
    BY <1>2, <2>1
<1>6. UNCHANGED streams
  BY <1>1 DEF streams
<1>7. /\ \A s \in Children : procs[s] \ procs'[s] = {}
      /\ procs[Root] \ procs'[Root] = {}
  BY <1>2
<1> QED
  BY <1>3, <1>4, <1>5, <1>6, <1>7, QuietSteps

LEMMA PromiseInit == Init => PromiseInv
<1> SUFFICES ASSUME Init PROVE PromiseInv
  OBVIOUS
<1>1. TreeInv
  BY TreeInit
<1>2. /\ \A p \in Pids : output[p] = <<>> /\ pipe[p] = <<>> /\ toprint[p] = <<>>
      /\ \A p \in Pids : pc[p] \in {"enter", "free"} /\ ~caught[p]
  BY DEF Init
<1>3. \A p \in Pids : ~Heard(p)
  BY <1>2 DEF Heard
<1>4. \A p \in Pids : Stream(p) = <<>>
  BY <1>1, <1>2, <1>3, HeardMeans DEF TreeInv, HeardInv
<1>5. AnswerInv
  BY <1>2, <1>4, ParentName DEF AnswerInv, Leaving
<1>6. NotLostInv
  BY <1>2, <1>3, ParentName DEF NotLostInv, HeardBelow, Gone, Early
<1> QED
  BY <1>1, <1>5, <1>6 DEF PromiseInv

LEMMA PromiseStep == PromiseInv /\ [Next]_vars => PromiseInv'
<1> SUFFICES ASSUME PromiseInv, [Next]_vars PROVE PromiseInv'
  OBVIOUS
<1>0. TreeInv'
  BY TreeStep DEF PromiseInv
<1>1. CASE UNCHANGED vars
  <2>1. UNCHANGED <<pc, procs, toprint, pipe, output, caught, exit_status>>
    BY <1>1 DEF vars
  <2>2. UNCHANGED <<AnswerInv, NotLostInv>>
    BY <2>1 DEF AnswerInv, NotLostInv, HeardBelow, Heard, Stream
  <2> QED
    BY <1>0, <2>2 DEF PromiseInv
<1>2. ASSUME NEW p \in Schedulers, Scheduler(p)
      PROVE  PromiseInv'
  <2>0. p \in Pids
    BY ParentName
  <2>1. CASE \/ InstallHandler(p) \/ TestLoop(p) \/ ScheduleDone(p) \/ CheckSigTerm(p)
             \/ ExitScheduler(p) \/ Select(p)
    BY <1>0, <2>0, <2>1, PromiseMoves
  <2>2. CASE EGPCtrlCreate(p)
    BY <1>0, <2>2, PromiseCreate
  <2>3. ASSUME NEW c \in todo[p], ReadOutput(p, c) \/ GetResult(p, c) \/ WaitPid(p, c)
        PROVE  PromiseInv'
    BY <1>0, <2>3, PromiseRead
  <2>4. ASSUME NEW c \in procs[p], Cleanup(p, c)
        PROVE  PromiseInv'
    BY <1>0, <2>4, PromiseCleanup
  <2> QED
    BY <1>2, <2>1, <2>2, <2>3, <2>4 DEF Scheduler
<1>3. ASSUME NEW p \in Pids,
             \/ BecomeChild(p) \/ Preprocess(p) \/ FindProof(p) \/ Fail(p)
             \/ WriteChunk(p) \/ Written(p)
      PROVE  PromiseInv'
  BY <1>0, <1>3, PromiseMoves, PromiseWritten
<1>4. CASE Next
  <2>1. CASE Terminate
    BY <1>0, <2>1, PromiseTerminate
  <2>2. CASE Done
    BY <1>1, <2>2 DEF Done
  <2> QED
    BY <1>2, <1>3, <1>4, <2>1, <2>2 DEF Next, Process
<1> QED
  BY <1>1, <1>4

LEMMA PromiseInvHolds == Spec => []PromiseInv
BY PromiseInit, PromiseStep, PTL DEF Spec

----------------------------------------------------------------------------
(* The steps of the schedule are steps of the promise. *)

(* The root ends once; and with nothing printed it gives up only when no   *)
(* prover has announced an answer.                                         *)
RootStays ==
    /\ pc[Root] \in Gone => pc'[Root] \in Gone /\ exit_status'[Root] = exit_status[Root]
    /\ pc[Root] \notin Gone /\ pc'[Root] \in Gone /\ exit_status'[Root] = "resource_out" =>
         pipe[Root] # <<>> \/ \A c \in Provers : ~Heard(c)

LEMMA RootGivesUp ==
    ASSUME PromiseInv, pc[Root] = "exhausted"
    PROVE  \A c \in Provers : ~Heard(c)
<1>1. pc[Root] \in Early /\ pc[Root] \in Alone /\ pc[Root] # "read"
  BY DEF Early, Alone
<1>2. procs[Root] = {}
  BY <1>1, PromiseTypes, TreeTypes, ParentName
<1>3. \A s \in Children : ~HeardBelow(s)
  BY <1>1, <1>2 DEF PromiseInv, NotLostInv
<1> QED
  BY <1>3, ParentName DEF HeardBelow

LEMMA RootMoves ==
    ASSUME PromiseInv, NEW p \in Pids,
           \/ p \in Schedulers /\ \/ InstallHandler(p) \/ TestLoop(p) \/ ScheduleDone(p)
                                  \/ CheckSigTerm(p) \/ ExitScheduler(p) \/ Select(p)
           \/ BecomeChild(p) \/ Preprocess(p) \/ Fail(p) \/ Written(p) \/ FindProof(p)
    PROVE  RootStays
<1> USE PromiseTypes, TreeTypes, ParentName DEF Goto, Exit
<1>1. /\ pc[p] \notin Gone
      /\ \E l \in Places : pc' = [pc EXCEPT ![p] = l]
      /\ \A q \in Pids \ {p} : exit_status'[q] = exit_status[q]
  BY DEF InstallHandler, TestLoop, ScheduleDone, CheckSigTerm, ExitScheduler, Select, BecomeChild,
         Preprocess, Fail, Written, FindProof, Gone, Places, Leaving, Early
<1>2. CASE p # Root
  BY <1>1, <1>2 DEF RootStays
<1>3. CASE p = Root
  <2>1. pc[Root] \notin Gone
    BY <1>1, <1>3
  <2> SUFFICES ASSUME pc'[Root] \in Gone, exit_status'[Root] = "resource_out"
               PROVE  pipe[Root] # <<>> \/ \A c \in Provers : ~Heard(c)
    BY <2>1 DEF RootStays
  <2>2. pc[Root] = "exhausted" \/ (pc[Root] = "free_set" /\ exit_status[Root] = "resource_out")
    BY <1>3 DEF InstallHandler, TestLoop, ScheduleDone, CheckSigTerm, ExitScheduler, Select, BecomeChild,
         Preprocess, Fail, Written, FindProof, Gone
  <2>3. CASE pc[Root] = "exhausted"
    BY <2>3, RootGivesUp
  <2>4. CASE pc[Root] = "free_set" /\ exit_status[Root] = "resource_out"
    <3>1. Stream(Root) # <<>>
      BY <2>4 DEF Leaving
    <3>2. toprint[Root] = <<>> /\ output[Root] = <<>>
      BY <2>4 DEF SchedulerInv, OutputInv, Leaving
    <3>3. Heard(Root)
      BY <3>1, <3>2
    <3> QED
      BY <3>2, <3>3 DEF Heard
  <2> QED
    BY <2>2, <2>3, <2>4
<1> QED
  BY <1>2, <1>3

LEMMA RootSignalled ==
    ASSUME PromiseInv, NEW S, NEW npc \in [Pids -> Places], Deliver(S, npc),
           \A q \in Pids : npc[q] = pc[q] \/ (q \in Schedulers /\ pc[q] = "free_set" /\ npc[q] = "waitpid")
    PROVE  RootStays
<1>1. TreeInv /\ Root \in Pids
  BY ParentName DEF PromiseInv
<1>2. \/ /\ Root \in S /\ Alive(Root) /\ handler[Root] = "default"
         /\ pc'[Root] = "dead" /\ exit_status'[Root] = "killed"
         /\ caught'[Root] = caught[Root] /\ handler'[Root] = "default"
      \/ /\ Root \in S /\ Alive(Root) /\ handler[Root] = "sched" /\ caught'[Root] /\ handler'[Root] = "default"
         /\ pc'[Root] = npc[Root] /\ exit_status'[Root] = exit_status[Root]
      \/ /\ ~(Root \in S /\ Alive(Root))
         /\ caught'[Root] = caught[Root] /\ handler'[Root] = handler[Root]
         /\ pc'[Root] = npc[Root] /\ exit_status'[Root] = exit_status[Root]
  BY <1>1, SignalSteps, Zenon
<1>3. (npc[Root] \in Gone <=> pc[Root] \in Gone) /\ (Alive(Root) => pc[Root] \notin Gone)
  BY <1>1 DEF Gone, Alive, Ended
<1> QED
  BY <1>2, <1>3 DEF RootStays

LEMMA RootSchedules ==
    ASSUME PromiseInv, NEW p \in Schedulers,
           \/ EGPCtrlCreate(p)
           \/ \E c \in todo[p] : GetResult(p, c) \/ WaitPid(p, c)
           \/ \E c \in procs[p] : Cleanup(p, c)
           \/ Terminate
    PROVE  RootStays
<1>0. SchedulerInv /\ pc \in [Pids -> Places] /\ Root \in Pids /\ p \in Pids
  BY PromiseTypes, TreeTypes, ParentName
<1>1. CASE EGPCtrlCreate(p)
  <2>1. PICK c \in Pids \ {Root} :
          pc' = [pc EXCEPT ![c] = "forked"] /\ UNCHANGED <<toprint, pipe, output, exit_status>>
    BY <1>0, <1>1, NewChild
  <2>2. pc'[Root] = pc[Root] /\ exit_status'[Root] = exit_status[Root]
    BY <1>0, <2>1
  <2> QED
    BY <2>2 DEF RootStays
<1>2. ASSUME NEW c \in todo[p], GetResult(p, c) \/ WaitPid(p, c)
      PROVE  RootStays
  <2>1. c \in Pids \ {Root} /\ pc[p] \in {"read", "waitpid"}
    BY <1>0, <1>2, ParentOf DEF GetResult, WaitPid
  <2>2. PICK l \in {"read", "print", "free_set"} :
          /\ \A q \in Pids \ {c} : pc'[q] = IF q = p THEN l ELSE pc[q]
          /\ \A q \in Pids \ {p} : exit_status'[q] = exit_status[q]
    <3>1. CASE GetResult(p, c) /\ IsResult(c)
      <4>1. /\ pc' = [pc EXCEPT ![c] = "reaped", ![p] = "print"]
            /\ exit_status' = [exit_status EXCEPT ![p] = ResultStatus(c)]
        BY <3>1 DEF GetResult
      <4> QED
        BY <1>0, <2>1, <4>1, PromiseTypes, TreeTypes
    <3>2. CASE GetResult(p, c) /\ ~IsResult(c)
      <4>1. pc[p] = "read" /\ pc' = [pc EXCEPT ![c] = "reaped"] /\ UNCHANGED exit_status
        BY <3>2 DEF GetResult, Goto
      <4> QED
        BY <1>0, <2>1, <4>1
    <3>3. CASE WaitPid(p, c)
      <4>1. /\ pc' = [pc EXCEPT ![c] = "reaped", ![p] = "free_set"] /\ UNCHANGED exit_status
        BY <3>3 DEF WaitPid
      <4> QED
        BY <1>0, <2>1, <4>1
    <3> QED
      BY <1>2, <3>1, <3>2, <3>3
  <2>3. CASE p = Root
    BY <1>0, <2>1, <2>2, <2>3 DEF RootStays, Gone
  <2>4. CASE p # Root
    BY <1>0, <2>1, <2>2, <2>4 DEF RootStays
  <2> QED
    BY <2>3, <2>4
<1>3. ASSUME NEW c \in procs[p], Cleanup(p, c)
      PROVE  RootStays
  <2>1. CASE pc[c] = "reaped"
    BY <1>3, <2>1 DEF Cleanup, RootStays
  <2>2. CASE pc[c] # "reaped"
    <3> DEFINE npc == [pc EXCEPT ![p] = "waitpid"]
    <3>1. Deliver({c}, npc) /\ pc[p] = "free_set"
      BY <1>3, <2>2 DEF Cleanup
    <3>2. /\ npc \in [Pids -> Places]
          /\ \A q \in Pids : npc[q] = pc[q] \/ (q \in Schedulers /\ pc[q] = "free_set" /\ npc[q] = "waitpid")
      BY <1>0, <3>1 DEF Places, Leaving
    <3> HIDE DEF npc
    <3> QED
      BY <3>1, <3>2, RootSignalled, Zenon
  <2> QED
    BY <2>1, <2>2
<1>4. CASE Terminate
  <2>1. PICK S : Deliver(S, pc)
    BY <1>4 DEF Terminate
  <2>2. \A q \in Pids : pc[q] = pc[q] \/ (q \in Schedulers /\ pc[q] = "free_set" /\ pc[q] = "waitpid")
    OBVIOUS
  <2> QED
    BY <1>0, <2>1, <2>2, RootSignalled, Zenon
<1> QED
  BY <1>1, <1>2, <1>3, <1>4

LEMMA PromiseMeans == PromiseInv => HeardInv /\ TreeInv
BY PromiseTypes

(* A step that moves no output announces nothing; E may end in it. *)
LEMMA PromiseEnds ==
    ASSUME PromiseInv, PromiseInv', RootStays,
           \A c \in Provers : Heard(c)' <=> Heard(c), pipe'[Root] = pipe[Root]
    PROVE  [Promise!Next]_(Promise!vars)
<1>1. HeardInv /\ HeardInv'
  <2>1. PromiseInv' => HeardInv' /\ TreeInv'
    BY PromiseMeans, PTL
  <2> QED
    BY <2>1, PromiseMeans
<1>2. Announcers' = Announcers
  BY <1>1 DEF HeardInv
<1>3. Announced(pipe[Root])' <=> Announced(pipe[Root])
  BY <1>1 DEF HeardInv
<1>4. CASE Outcome' = Outcome
  BY <1>2, <1>4 DEF Promise!vars
<1>5. CASE Outcome' # Outcome
  <2>1. /\ ~Announced(pipe[Root]) /\ pc[Root] \notin Gone /\ pc'[Root] \in Gone
    BY <1>3, <1>5 DEF Outcome, Ended, Gone, RootStays
  <2>2. Outcome = "running"
    BY <2>1 DEF Outcome, Ended, Gone
  <2>3. CASE exit_status'[Root] = "resource_out"
    <3>1. pipe[Root] = <<>>
      BY <1>1, <2>1 DEF HeardInv
    <3>2. Announcers = {}
      BY <1>1, <2>1, <2>3, <3>1 DEF HeardInv, RootStays
    <3>3. Outcome' = "gave_up"
      BY <1>3, <2>1, <2>3 DEF Outcome, Ended, Gone
    <3> QED
      BY <1>2, <2>2, <3>2, <3>3 DEF Promise!Next, Promise!GiveUp, Promise!End
  <2>4. CASE exit_status'[Root] # "resource_out"
    <3>1. Outcome' = "stopped"
      BY <1>3, <2>1, <2>4 DEF Outcome, Ended, Gone
    <3> QED
      BY <1>2, <2>2, <3>1 DEF Promise!Next, Promise!Stop, Promise!End
  <2> QED
    BY <2>3, <2>4
<1> QED
  BY <1>4, <1>5

(* A chunk that is written may be an announcement, or the answer. *)
LEMMA PromiseSpeaks ==
    ASSUME PromiseInv, PromiseInv', NEW p \in Pids, WriteChunk(p)
    PROVE  [Promise!Next]_(Promise!vars)
<1>1. HeardInv /\ HeardInv' /\ TreeInv
  <2>1. PromiseInv' => HeardInv' /\ TreeInv'
    BY PromiseMeans, PTL
  <2> QED
    BY <2>1, PromiseMeans
<1>2. /\ toprint \in [Pids -> Seq(Chunks)] /\ pipe \in [Pids -> Seq(Chunks)]
      /\ output \in [Pids -> Seq(Chunks)]
  BY PromiseTypes, StreamTypes
<1>3. pc[p] = "print" /\ pc \in [Pids -> Places] /\ Root \in Pids
  BY <1>1, TreeTypes, ParentName DEF WriteChunk
<1>4. CASE p # Root /\ ~HasReader(p)
  <2>1. UNCHANGED <<pipe, output>> /\ \A q \in Pids \ {p} : pc'[q] = pc[q] /\ exit_status'[q] = exit_status[q]
    BY <1>3, <1>4, PromiseTypes, TreeTypes DEF WriteChunk, Exit, Goto, streams
  <2>2. pc'[Root] = pc[Root] /\ exit_status'[Root] = exit_status[Root]
    BY <1>3, <1>4, <2>1
  <2>3. RootStays
    BY <2>2 DEF RootStays
  <2>4. (\A c \in Provers : Heard(c)' <=> Heard(c)) /\ pipe'[Root] = pipe[Root]
    BY <2>1 DEF Heard
  <2> QED
    BY <2>3, <2>4, PromiseEnds
<1>5. CASE ~(p # Root /\ ~HasReader(p))
  <2>1. /\ toprint[p] # <<>> /\ pipe' = [pipe EXCEPT ![p] = Append(@, Head(toprint[p]))]
        /\ UNCHANGED <<pc, output, exit_status>>
    BY <1>5 DEF WriteChunk
  <2>2. pipe'[p] # <<>>
    <3>1. pipe[p] \in Seq(Chunks) /\ toprint[p] \in Seq(Chunks) /\ pipe'[p] = Append(pipe[p], Head(toprint[p]))
      BY <1>2, <2>1
    <3> QED
      BY <2>1, <3>1, NotEmptyAfter, Zenon
  <2>3. \A q \in Pids \ {p} : pipe'[q] = pipe[q] /\ (Heard(q)' <=> Heard(q))
    BY <1>2, <2>1 DEF Heard
  <2>4. Heard(p)'
    BY <2>2 DEF Heard
  <2>5. CASE p = Root
    <3>1. Announcers' = Announcers
      BY <1>1, <2>3, <2>5, ParentName DEF HeardInv, Announcers
    <3>2. Outcome' = "answered"
      BY <1>1, <2>2, <2>5 DEF HeardInv, Outcome
    <3>3. CASE Outcome = "answered"
      BY <3>1, <3>2, <3>3 DEF Promise!vars
    <3>4. CASE Outcome # "answered"
      <4>1. Outcome = "running"
        BY <1>3, <2>5, <3>4 DEF Outcome, Ended
      <4>2. Stream(Root) # <<>>
        BY <1>3, <2>1, <2>5, PromiseTypes
      <4>3. \E c \in Provers : Heard(c)
        BY <4>2, ParentName DEF PromiseInv, AnswerInv
      <4>4. Announcers # {}
        BY <1>1, <4>3 DEF HeardInv
      <4> QED
        BY <3>1, <3>2, <4>1, <4>4 DEF Promise!Next, Promise!Answer, Promise!End
    <3> QED
      BY <3>3, <3>4
  <2>6. CASE p # Root
    <3>1. Outcome' = Outcome
      BY <1>1, <1>3, <2>1, <2>3, <2>6 DEF HeardInv, Outcome, Ended
    <3>2. CASE p \notin Provers \/ Heard(p)
      <4>1. Announcers' = Announcers
        BY <1>1, <2>3, <2>4, <3>2, ParentName DEF HeardInv, Announcers
      <4> QED
        BY <3>1, <4>1 DEF Promise!vars
    <3>3. CASE p \in Provers /\ ~Heard(p)
      <4>1. p \notin Announcers /\ Announcers' = Announcers \cup {p}
        BY <1>1, <2>3, <2>4, <3>3, ParentName DEF HeardInv, Announcers
      <4>2. Outcome # "gave_up"
        <5>1. ~(pc[Root] \in Gone /\ exit_status[Root] \notin Cut)
          BY <1>1, <1>3, <3>3, PrintingBelow
        <5> QED
          BY <5>1 DEF Outcome, Ended, Gone, Cut
      <4> QED
        BY <3>1, <3>3, <4>1, <4>2 DEF Promise!Next, Promise!Announce
    <3> QED
      BY <3>2, <3>3
  <2> QED
    BY <2>5, <2>6
<1> QED
  BY <1>4, <1>5

(* A chunk that is read has been heard, and will be. *)
LEMMA PromiseListens ==
    ASSUME PromiseInv, PromiseInv', NEW p \in Schedulers, NEW c \in todo[p], ReadOutput(p, c)
    PROVE  [Promise!Next]_(Promise!vars)
<1>1. /\ toprint \in [Pids -> Seq(Chunks)] /\ pipe \in [Pids -> Seq(Chunks)]
      /\ output \in [Pids -> Seq(Chunks)]
  BY PromiseTypes, StreamTypes
<1>2. c \in Pids \ {Root} /\ Root \in Pids
  BY PromiseTypes, ParentOf, ParentName
<1>3. /\ pipe[c] # <<>> /\ output' = [output EXCEPT ![c] = Append(@, Head(pipe[c]))]
      /\ pipe' = [pipe EXCEPT ![c] = Tail(@)] /\ UNCHANGED <<pc, exit_status>>
  BY DEF ReadOutput
<1>4. output'[c] # <<>>
  <2>1. output[c] \in Seq(Chunks) /\ pipe[c] \in Seq(Chunks) /\ output'[c] = Append(output[c], Head(pipe[c]))
    BY <1>1, <1>2, <1>3
  <2> QED
    BY <1>3, <2>1, NotEmptyAfter, Zenon
<1>5. \A q \in Pids : Heard(q)' <=> Heard(q)
  BY <1>1, <1>3, <1>4 DEF Heard
<1>6. pipe'[Root] = pipe[Root] /\ RootStays
  BY <1>1, <1>2, <1>3 DEF RootStays
<1> QED
  BY <1>5, <1>6, ParentName, PromiseEnds

LEMMA PromiseMaps == PromiseInv /\ PromiseInv' /\ [Next]_vars => [Promise!Next]_(Promise!vars)
<1> SUFFICES ASSUME PromiseInv, PromiseInv', [Next]_vars
             PROVE  [Promise!Next]_(Promise!vars)
  OBVIOUS
<1>1. CASE UNCHANGED vars
  <2>1. UNCHANGED <<Announcers, Outcome>>
    BY <1>1 DEF vars, Announcers, Outcome, Ended
  <2> QED
    BY <2>1 DEF Promise!vars
<1>2. ASSUME RootStays, UNCHANGED <<pipe, output>>
      PROVE  [Promise!Next]_(Promise!vars)
  <2>1. \A c \in Provers : Heard(c)' <=> Heard(c)
    BY <1>2 DEF Heard
  <2> QED
    BY <1>2, <2>1, PromiseEnds
<1>3. ASSUME NEW p \in Schedulers, Scheduler(p)
      PROVE  [Promise!Next]_(Promise!vars)
  <2>1. CASE \E c \in todo[p] : ReadOutput(p, c)
    BY <2>1, PromiseListens
  <2>2. CASE \/ InstallHandler(p) \/ TestLoop(p) \/ ScheduleDone(p) \/ CheckSigTerm(p)
             \/ ExitScheduler(p) \/ Select(p)
    <3>1. UNCHANGED <<pipe, output>>
      BY <2>2 DEF InstallHandler, TestLoop, ScheduleDone, CheckSigTerm, ExitScheduler, Select, streams
    <3>2. RootStays
      BY <2>2, RootMoves, ParentName
    <3> QED
      BY <1>2, <3>1, <3>2
  <2>3. CASE \/ EGPCtrlCreate(p)
             \/ \E c \in todo[p] : GetResult(p, c) \/ WaitPid(p, c)
             \/ \E c \in procs[p] : Cleanup(p, c)
    <3>1. UNCHANGED <<pipe, output>>
      BY <2>3 DEF EGPCtrlCreate, GetResult, WaitPid, Cleanup, streams
    <3>2. RootStays
      BY <2>3, RootSchedules
    <3> QED
      BY <1>2, <3>1, <3>2
  <2> QED
    BY <1>3, <2>1, <2>2, <2>3 DEF Scheduler
<1>4. ASSUME NEW p \in Pids,
             \/ BecomeChild(p) \/ Preprocess(p) \/ FindProof(p) \/ Fail(p)
             \/ WriteChunk(p) \/ Written(p)
      PROVE  [Promise!Next]_(Promise!vars)
  <2>1. CASE WriteChunk(p)
    BY <2>1, PromiseSpeaks
  <2>2. CASE BecomeChild(p) \/ Preprocess(p) \/ FindProof(p) \/ Fail(p) \/ Written(p)
    <3>1. UNCHANGED <<pipe, output>>
      BY <2>2 DEF BecomeChild, Preprocess, FindProof, Fail, Written, streams
    <3>2. RootStays
      BY <2>2, RootMoves
    <3> QED
      BY <1>2, <3>1, <3>2
  <2> QED
    BY <1>4, <2>1, <2>2
<1>5. CASE Terminate
  <2>1. UNCHANGED <<pipe, output>>
    BY <1>5 DEF Terminate, streams
  <2>2. RootStays
    BY <1>5, RootSchedules, ParentName
  <2> QED
    BY <1>2, <2>1, <2>2
<1> QED
  BY <1>1, <1>3, <1>4, <1>5 DEF Next, Process, Done

(* The refinement of Portfolio, for every schedule, number of cores, size  *)
(* of the pipes and number of signals: E reports an answer only if a       *)
(* prover has announced one, and it exits with "resource out" only when    *)
(* none has and none will (what main() makes of the result of              *)
(* ExecuteScheduleMultiCore).                                              *)
THEOREM ScheduleKeepsPromise == Spec => KeepsPromise
<1>1. Init => Promise!Init
  <2> SUFFICES ASSUME Init PROVE Promise!Init
    OBVIOUS
  <2>1. HeardInv
    BY PromiseInit, PromiseMeans
  <2>2. \A p \in Pids : ~Heard(p)
    BY DEF Init, Heard
  <2>3. Announcers = {} /\ ~Announced(pipe[Root])
    BY <2>1, <2>2, ParentName DEF HeardInv, Heard
  <2>4. ~Ended(Root)
    BY ParentName DEF Init, Ended
  <2> QED
    BY <2>3, <2>4 DEF Promise!Init, Outcome
<1> QED
  BY <1>1, PromiseMaps, PromiseInvHolds, PTL DEF Spec, KeepsPromise, Promise!Spec
=============================================================================
