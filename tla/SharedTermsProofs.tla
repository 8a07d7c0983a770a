------------------------- MODULE SharedTermsProofs -------------------------
(***************************************************************************)
(* The cells never lie: what is cached in the shared terms is right in     *)
(* every state, for every problem.  The inductive invariant says, beyond   *)
(* the properties, what a call of term_li_normalform() has established in  *)
(* its frame, what find_rewritable_clauses() has searched so far, and what *)
(* a collection has marked.                                                *)
(***************************************************************************)
EXTENDS SharedTerms, SequenceTheorems, TLAPS

----------------------------------------------------------------------------
(* Types *)

ClauseType == [l : Term, r : Term, positive : BOOLEAN, limited : BOOLEAN, date : Nat]
CellType   == [flag : BOOLEAN, nf_date : [1..2 -> Nat], replace : Term \cup {NoTerm}, top : BOOLEAN,
               always : BOOLEAN, rewritable : {{}, Limited, Always}]
JobType    == [clause : ClauseType, old : ClauseType, level : 0..2, side : {"left", "right", "done"},
               job : {"given", "victim", "new"}]
NormalFrameType == [from : Term, term : Term, at : {"enter", "args", "top", "chain"}, args : Seq(Term),
                    pos : Nat, restricted : BOOLEAN, sub : BOOLEAN, modified : BOOLEAN]
SearchFrameType == [term : Term, pos : Nat, restricted : BOOLEAN, res : BOOLEAN]
Axiom == Term \X Term \X BOOLEAN

SetsType ==
    /\ problem \in Problems /\ garbage_state \in BOOLEAN /\ gcs \in 0..MaxGC
    /\ set_date \in [1..2 -> Nat]
    /\ unprocessed \subseteq ClauseType /\ processed \subseteq ClauseType
    /\ tmp_store \subseteq ClauseType /\ archive \subseteq Term /\ later \subseteq Axiom

Idle == cur = Nothing /\ stack = <<>> /\ searched = Nothing /\ found = {}

PhaseType ==
    \/ pc = "loop" /\ Idle /\ todo = {}
    \/ pc = "mark" /\ Idle /\ todo \subseteq Term
    \/ /\ pc = "normalize" /\ cur \in JobType /\ stack \in Seq(NormalFrameType)
       /\ stack = <<>> <=> cur.side = "done"
       /\ searched = Nothing /\ todo = {} /\ found = {}
    \/ /\ pc = "search" /\ ~problem.indexed
       /\ cur \in JobType /\ cur.clause.positive
       /\ stack \in Seq(SearchFrameType)
       /\ todo \subseteq processed /\ found \subseteq processed
       /\ \/ searched = Nothing /\ stack = <<>>
          \/ searched \in [clause : processed, side : {"left", "right"}] /\ stack # <<>>

----------------------------------------------------------------------------
(* Cells *)

HasCellIn(b, t) == IsFreeVar(t) \/ t \in DOMAIN b

GoodCell(b, t) ==
    /\ t \in Term /\ ~IsFreeVar(t) /\ Cells(t) \subseteq DOMAIN b /\ b[t] \in CellType
    /\ b[t].replace # NoTerm =>
          Greater(t, b[t].replace) /\ HasCellIn(b, b[t].replace) /\ (b[t].top \/ b[t].always)

GoodBank(b) == \A t \in DOMAIN b : GoodCell(b, t)

FlagsAre(b, state) == \A t \in DOMAIN b : b[t].flag = state

ClausesHaveCells == \A t \in Roots \cup TermsOf(InWork) : HasCellIn(bank, t)

(* What the bank b has become: no cell is lost, and none loses its link.   *)
Extends(b, c, state) ==
    /\ DOMAIN b \subseteq DOMAIN c
    /\ \A t \in DOMAIN b : c[t].flag = b[t].flag /\ (b[t].replace # NoTerm => c[t].replace # NoTerm)
    /\ \A t \in DOMAIN c \ DOMAIN b : c[t].flag = state

SameDates(b, c) ==
    /\ \A t \in DOMAIN b : c[t].nf_date = b[t].nf_date
    /\ \A t \in DOMAIN c \ DOMAIN b : c[t].nf_date = <<0, 0>>

Grown(b, c, state) == GoodBank(c) /\ Extends(b, c, state) /\ SameDates(b, c)

----------------------------------------------------------------------------
(* Dates *)

DemodDatesIn(clauses, dates) ==
    \A i \in 1..2 : \A d \in DemodsIn(clauses, i) : 0 < d.date /\ d.date <= dates[i]

DatesUpTo(b, today) == \A t \in DOMAIN b : \A i \in 1..2 : b[t].nf_date[i] <= today

TrueDates(b, clauses) ==
    \A t \in DOMAIN b : b[t].replace = NoTerm =>
        \A i \in 1..2 : \A j \in 1..i : \A d \in DemodsIn(clauses, j) :
            d.date <= b[t].nf_date[i] => ~Reducible(t, d)

(* What the search has dated is not rewritten by the new demodulator. *)
TrueSearchDates(b, new, date) ==
    \A t \in DOMAIN b : \A i \in 1..2 : b[t].nf_date[i] = date => ~Reducible(t, new)

----------------------------------------------------------------------------
(* Normal forms of terms, for the demodulators up to a level *)

Below(s, t) == s = t \/ Greater(s, t)
TopNormal(t, clauses, level) ==
    \A j \in 1..level : \A d \in DemodsIn(clauses, j) : TopRewrites(t, d) = {}
IsNormal(t, clauses, level) == \A s \in Cells(t) : TopNormal(s, clauses, level)
ArgsNormal(t, clauses, level) == \A i \in Positions(t) : IsNormal(ArgsOf(t)[i], clauses, level)

NormalFrameOK(f, b, clauses, level) ==
    /\ Below(f.from, f.term) /\ HasCellIn(b, f.term)
    /\ f.at # "enter" => level # NoRewrite
    /\ f.at = "args" =>
          /\ f.pos \in 1..(Len(f.args) + 1) /\ RewrittenArgs(f.term, f.args)
          /\ \A i \in Positions(f.term) :
                /\ HasCellIn(b, f.args[i])
                /\ i < f.pos => IsNormal(f.args[i], clauses, level)
                /\ i >= f.pos => f.args[i] = ArgsOf(f.term)[i]
    /\ f.at \in {"top", "chain"} /\ ~f.modified => ~f.sub /\ ArgsNormal(f.term, clauses, level)
    /\ f.at = "chain" /\ ~f.modified =>
          \/ f.restricted \/ IsFreeVar(f.term) \/ IsTopRewritten(b, f.term)
          \/ TopNormal(f.term, clauses, level)

(* A frame waits for the normal form of an argument. *)
WaitsFor(f, called) ==
    /\ f.at = "args" /\ f.pos \in Positions(f.term)
    /\ called.from = f.args[f.pos] /\ ~called.restricted

IsLeftRestricted(c) == c.limited /\ RestrictedSide(c)

LeftOK(job, clauses) ==
    /\ Below(job.old.l, job.clause.l)
    /\ IsLeftRestricted(job.old) /\ job.clause.l = job.old.l =>
          ArgsNormal(job.clause.l, clauses, job.level)
    /\ ~IsLeftRestricted(job.old) => IsNormal(job.clause.l, clauses, job.level)
RightOK(job, clauses) ==
    Below(job.old.r, job.clause.r) /\ IsNormal(job.clause.r, clauses, job.level)

JobOK(job, clauses) ==
    /\ job.clause = [job.old EXCEPT !.l = job.clause.l, !.r = job.clause.r]
    /\ job.side = "left" => job.clause = job.old
    /\ job.side = "right" => LeftOK(job, clauses) /\ job.clause.r = job.old.r
    /\ job.side = "done" => LeftOK(job, clauses) /\ RightOK(job, clauses)
    /\ job.job = "given" => job.level = FullRewrite

NormalStack(frames, job, b, clauses) ==
    /\ \A k \in 1..Len(frames) : NormalFrameOK(frames[k], b, clauses, job.level)
    /\ frames # <<>> =>
          /\ frames[1].from = IF job.side = "left" THEN job.clause.l ELSE job.clause.r
          /\ frames[1].restricted = (job.side = "left" /\ IsLeftRestricted(job.old))
    /\ \A k \in 1..(Len(frames) - 1) : WaitsFor(frames[k], frames[k + 1])

NormalInv ==
    pc = "normalize" => JobOK(cur, processed) /\ NormalStack(stack, cur, bank, processed)

----------------------------------------------------------------------------
(* The search for what a new demodulator rewrites *)

Clean(terms, d) == \A s \in terms : TopRewrites(s, d) = {}
CleanForAll(terms, clauses) == \A d \in clauses : IsDemodulator(d) => Clean(terms, d)
LeftCells(c) == {s \in Cells(c.l) : s # c.l \/ ~RestrictedSide(c)}

SideTerm(where) == IF where.side = "left" THEN where.clause.l ELSE where.clause.r

SearchFrameOK(f, side, new) ==
    /\ f.pos \in 1..(Len(ArgsOf(f.term)) + 1)
    /\ f.term \in SubtermsOf(side)
    /\ \A i \in 1..(f.pos - 1) : ~Reducible(ArgsOf(f.term)[i], new)
    /\ f.res => ~IsFreeVar(f.term)

SearchesIn(f, called) ==
    /\ ~f.res /\ f.pos \in Positions(f.term)
    /\ called.term = ArgsOf(f.term)[f.pos] /\ ~called.restricted

SearchStack(frames, where, new) ==
    /\ \A k \in 1..Len(frames) : SearchFrameOK(frames[k], SideTerm(where), new)
    /\ frames # <<>> =>
          /\ frames[1].term = SideTerm(where)
          /\ frames[1].restricted = (where.side = "left" /\ RestrictedSide(where.clause))
    /\ \A k \in 1..(Len(frames) - 1) :
          SearchesIn(frames[k], frames[k + 1]) /\ Greater(SideTerm(where), frames[k + 1].term)

IsSearched(c, where, new) ==
    \/ Clean(UnrestrictedCells(c), new)
    \/ /\ where # Nothing /\ where.clause = c
       /\ where.side = "right" => Clean(LeftCells(c), new)

SearchInv == pc = "search" =>
    /\ SearchStack(stack, searched, cur.clause)
    /\ CleanForAll(UnrestrictedCells(cur.clause), processed)
    /\ \A c \in processed \ (todo \cup found) : IsSearched(c, searched, cur.clause)

Kept(c, indexed) == IF indexed THEN IndexedFull(c) ELSE UnrestrictedCells(c)

----------------------------------------------------------------------------
(* Marking *)

IsMarked(t, b, cells, state) == IsFreeVar(t) \/ t \in cells \/ b[t].flag # state
ReachedIn(b, t) == ArgSet(t) \cup (IF b[t].replace # NoTerm THEN {b[t].replace} ELSE {})

MarkInv == pc = "mark" =>
    /\ \A t \in todo : HasCellIn(bank, t)
    /\ \A t \in Roots : IsMarked(t, bank, todo, garbage_state)
    /\ \A t \in DOMAIN bank : bank[t].flag # garbage_state =>
          \A s \in ReachedIn(bank, t) : IsMarked(s, bank, todo, garbage_state)

IInv == /\ SetsType /\ PhaseType
        /\ GoodBank(bank) /\ ClausesHaveCells /\ (pc # "mark" => FlagsAre(bank, garbage_state))
        /\ DemodDatesIn(processed, set_date) /\ DatesUpTo(bank, Today)
        /\ TrueDates(bank, processed)
        /\ (pc = "search" => TrueSearchDates(bank, cur.clause, SearchDate))
        /\ NormalInv /\ SearchInv /\ Interreduced /\ MarkInv

----------------------------------------------------------------------------
(* Terms *)

LEMMA ArgsFacts ==
    ASSUME NEW t \in Term
    PROVE  /\ ArgsOf(t) \in Seq(Term) /\ Positions(t) = 1..Len(ArgsOf(t)) /\ Len(ArgsOf(t)) \in Nat
           /\ ArgsOf(t) \in [Positions(t) -> Term]
           /\ IsFreeVar(t) \in BOOLEAN
           /\ IsFreeVar(t) => Positions(t) = {}
           /\ \A i \in Positions(t) : ArgsOf(t)[i] \in Term /\ Greater(t, ArgsOf(t)[i])
<1>1. ArgsOf(t) \in Seq(Term) /\ IsFreeVar(t) \in BOOLEAN /\ (IsFreeVar(t) => ArgsOf(t) = <<>>)
  BY TermAssumption
<1>2. /\ Len(ArgsOf(t)) \in Nat /\ ArgsOf(t) \in [1..Len(ArgsOf(t)) -> Term]
      /\ DOMAIN ArgsOf(t) = 1..Len(ArgsOf(t))
  BY <1>1, LenProperties
<1>3. \A i \in Positions(t) : ArgsOf(t)[i] \in Term /\ Greater(t, ArgsOf(t)[i])
  BY <1>2, OrderingAssumption DEF Positions
<1> QED
  BY <1>1, <1>2, <1>3 DEF Positions

(* A set of subterms of t with t and their arguments has all subterms of t.*)
LEMMA SubtermInduction ==
    ASSUME NEW t \in Term, NEW S, t \in S,
           \A s \in S \cap SubtermsOf(t) : \A i \in Positions(s) : ArgsOf(s)[i] \in S \cap SubtermsOf(t)
    PROVE  SubtermsOf(t) \subseteq S
<1> DEFINE P == S \cap SubtermsOf(t)
<1>1. P \in SUBSET SubtermsOf(t)
  OBVIOUS
<1>2. t \in P
  BY TermAssumption
<1>3. \A s \in P : \A i \in Positions(s) : ArgsOf(s)[i] \in P
  OBVIOUS
<1>4. P = SubtermsOf(t)
  <2> HIDE DEF P
  <2>1. \A Q \in SUBSET SubtermsOf(t) :
          t \in Q /\ (\A s \in Q : \A i \in Positions(s) : ArgsOf(s)[i] \in Q) => Q = SubtermsOf(t)
    BY TermAssumption
  <2> QED
    BY <1>1, <1>2, <1>3, <2>1
<1> QED
  BY <1>4

LEMMA SubtermFacts ==
    ASSUME NEW t \in Term
    PROVE  /\ t \in SubtermsOf(t) /\ SubtermsOf(t) \subseteq Term
           /\ \A s \in SubtermsOf(t) : Below(t, s) /\ SubtermsOf(s) \subseteq SubtermsOf(t)
           /\ \A s \in SubtermsOf(t) : \A i \in Positions(s) : ArgsOf(s)[i] \in SubtermsOf(t)
           /\ SubtermsOf(t) = {t} \cup UNION {SubtermsOf(ArgsOf(t)[i]) : i \in Positions(t)}
<1>1. /\ SubtermsOf(t) = {t} \cup UNION {SubtermsOf(ArgsOf(t)[i]) : i \in Positions(t)}
      /\ t \in SubtermsOf(t)
  BY TermAssumption
<1> DEFINE S == {s \in Term : Below(t, s) /\ SubtermsOf(s) \subseteq SubtermsOf(t)}
<1>2. ASSUME NEW s \in S, NEW i \in Positions(s)
      PROVE  ArgsOf(s)[i] \in S /\ ArgsOf(s)[i] \in SubtermsOf(t)
  <2>1. ArgsOf(s)[i] \in Term /\ Greater(s, ArgsOf(s)[i])
    BY ArgsFacts
  <2>2. Below(t, ArgsOf(s)[i])
    BY <2>1, OrderingAssumption DEF Below
  <2>3. SubtermsOf(ArgsOf(s)[i]) \subseteq SubtermsOf(s)
    BY TermAssumption
  <2>4. ArgsOf(s)[i] \in SubtermsOf(ArgsOf(s)[i])
    BY <2>1, TermAssumption
  <2> QED
    BY <2>1, <2>2, <2>3, <2>4
<1>3. t \in S
  BY DEF Below
<1>4. SubtermsOf(t) \subseteq S
  <2> HIDE DEF S
  <2> QED
    BY <1>2, <1>3, SubtermInduction
<1> QED
  BY <1>1, <1>2, <1>4

LEMMA CellsFacts ==
    ASSUME NEW t \in Term
    PROVE  /\ Cells(t) \subseteq {s \in Term : ~IsFreeVar(s)}
           /\ IsFreeVar(t) => Cells(t) = {}
           /\ ~IsFreeVar(t) => t \in Cells(t)
           /\ \A s \in Cells(t) : Below(t, s) /\ Cells(s) \subseteq Cells(t)
           /\ \A s \in Cells(t) : s = t \/ \E i \in Positions(t) : s \in Cells(ArgsOf(t)[i])
           /\ \A i \in Positions(t) : Cells(ArgsOf(t)[i]) \subseteq Cells(t)
<1>1. IsFreeVar(t) => SubtermsOf(t) = {t}
  BY SubtermFacts, ArgsFacts
<1> QED
  BY <1>1, SubtermFacts, ArgsFacts DEF Cells

LEMMA BelowFacts ==
    ASSUME NEW s \in Term, NEW t \in Term
    PROVE  /\ Below(s, s) /\ (Greater(s, t) => Below(s, t))
           /\ \A u \in Term : Below(s, t) /\ Below(t, u) => Below(s, u)
           /\ \A u \in Term : Below(s, t) /\ Greater(t, u) => Greater(s, u)
           /\ \A u \in Term : Greater(s, t) /\ Below(t, u) => Greater(s, u)
           /\ Greater(s, t) => s # t /\ ~IsFreeVar(s)
BY OrderingAssumption DEF Below

(* Arguments are replaced by smaller ones. *)
LEMMA RebuiltFacts ==
    ASSUME NEW t \in Term, NEW args \in Seq(Term), RewrittenArgs(t, args)
    PROVE  /\ Rebuilt(t, args) \in Term /\ ArgsOf(Rebuilt(t, args)) = args
           /\ args = ArgsOf(t) => Rebuilt(t, args) = t
           /\ args # ArgsOf(t) => Greater(t, Rebuilt(t, args)) /\ ~IsFreeVar(Rebuilt(t, args))
           /\ IsFreeVar(Rebuilt(t, args)) = IsFreeVar(t)
<1>1. CASE args = ArgsOf(t)
  BY <1>1, TermAssumption
<1>2. CASE args # ArgsOf(t)
  <2> DEFINE U == UNION {{a} \cup {b \in Term : Greater(a, b)} :
                           a \in {ArgsOf(t)[i] : i \in Positions(t)}}
  <2>1. args \in [Positions(t) -> Term]
    BY DEF RewrittenArgs
  <2>2. \A i \in Positions(t) : args[i] \in U
    BY <2>1 DEF RewrittenArgs
  <2>3. args \in [Positions(t) -> U]
    BY <2>1, <2>2
  <2>4. /\ Rebuilt(t, args) \in Term /\ ArgsOf(Rebuilt(t, args)) = args
        /\ ~IsFreeVar(Rebuilt(t, args)) /\ Greater(t, Rebuilt(t, args))
    BY <1>2, <2>3, OrderingAssumption
  <2>5. ~IsFreeVar(t)
    BY <2>4, OrderingAssumption
  <2> QED
    BY <1>2, <2>4, <2>5, TermAssumption
<1> QED
  BY <1>1, <1>2

----------------------------------------------------------------------------
(* Rewriting at the top *)

LEMMA TopRewritesFacts ==
    ASSUME NEW t \in Term, NEW d \in ClauseType, NEW rw \in TopRewrites(t, d)
    PROVE  /\ rw.to \in Term /\ Greater(t, rw.to) /\ rw.proper \in BOOLEAN
           /\ ~Oriented(d) => rw.proper
<1>a. PICK dir \in Directions(d) : \E subst \in MatchersOf(dir[1], t) :
        /\ Oriented(d) \/ InstanceIsRule(dir[1], dir[2], subst)
        /\ rw = [to |-> Applied(subst, dir[2]), proper |-> ~Renames(subst)]
  BY DEF TopRewrites
<1>1. PICK subst \in MatchersOf(dir[1], t) :
        /\ Oriented(d) \/ InstanceIsRule(dir[1], dir[2], subst)
        /\ rw = [to |-> Applied(subst, dir[2]), proper |-> ~Renames(subst)]
  BY <1>a
<1>2. /\ dir[1] \in Term /\ dir[2] \in Term
      /\ Oriented(d) => Greater(dir[1], dir[2])
  BY DEF Directions, ClauseType, Oriented
<1>3. /\ Renames(subst) \in BOOLEAN /\ Applied(subst, dir[1]) = t
      /\ Greater(dir[1], dir[2]) => Greater(t, Applied(subst, dir[2]))
      /\ Greater(t, Applied(subst, dir[2])) => Applied(subst, dir[2]) \in Term
  BY <1>2, MatchAssumption
<1>4. Greater(t, Applied(subst, dir[2]))
  BY <1>1, <1>2, <1>3 DEF InstanceIsRule
<1>5. ~Oriented(d) => ~Renames(subst)
  BY <1>1 DEF InstanceIsRule
<1> QED
  BY <1>1, <1>3, <1>4, <1>5

(* Only the sides of a demodulator matter. *)
LEMMA SameSides ==
    ASSUME NEW t, NEW c, NEW d, c.l = d.l, c.r = d.r
    PROVE  TopRewrites(t, c) = TopRewrites(t, d)
<1>1. Directions(c) = Directions(d) /\ Oriented(c) = Oriented(d)
  BY DEF Directions, Oriented
<1> QED
  BY <1>1 DEF TopRewrites

(* A clause does not rewrite itself, but at the top of its bigger side. *)
LEMMA SelfIrreducible ==
    ASSUME NEW c \in ClauseType, NEW s \in UnrestrictedCells(c), c.positive
    PROVE  TopRewrites(s, c) = {}
<1>1. c.l \in Term /\ c.r \in Term
  BY DEF ClauseType
<1>2. /\ s \in Term
      /\ s \in Cells(c.l) \/ s \in Cells(c.r)
      /\ s # c.l \/ ~Oriented(c)
  BY <1>1, CellsFacts DEF UnrestrictedCells, RestrictedSide
<1>3. Below(c.l, s) \/ Below(c.r, s)
  BY <1>1, <1>2, CellsFacts
<1> SUFFICES ASSUME NEW dir \in Directions(c), NEW subst \in MatchersOf(dir[1], s),
                    Oriented(c) \/ InstanceIsRule(dir[1], dir[2], subst)
             PROVE  FALSE
  BY DEF TopRewrites
<1>4. /\ dir[1] \in {c.l, c.r} /\ dir[2] \in {c.l, c.r}
      /\ Oriented(c) => dir[1] = c.l
      /\ ~Oriented(c) => {dir[1], dir[2]} = {c.l, c.r}
  BY DEF Directions
<1>5. /\ Renames(subst) \in BOOLEAN /\ Applied(subst, dir[1]) = s
      /\ dir[1] = s => Renames(subst)
      /\ \A r \in Term : ~Greater(r, Applied(subst, r))
  BY <1>1, <1>2, <1>4, MatchAssumption
<1>6. ~Greater(dir[1], s)
  BY <1>1, <1>4, <1>5
<1>7. CASE Oriented(c)
  <2>1. Greater(c.l, c.r)
    BY <1>7 DEF Oriented
  <2>2. Greater(c.l, s)
    BY <1>1, <1>2, <1>3, <1>7, <2>1, BelowFacts DEF Below
  <2> QED
    BY <1>4, <1>6, <1>7, <2>2
<1>8. CASE ~Oriented(c)
  <2>1. /\ Greater(s, Applied(subst, dir[2])) /\ ~Renames(subst)
    BY <1>5, <1>8 DEF InstanceIsRule
  <2>2. ~Below(dir[1], s)
    BY <1>5, <1>6, <2>1 DEF Below
  <2>3. Below(dir[2], s)
    BY <1>3, <1>4, <1>8, <2>2
  <2>4. Applied(subst, dir[2]) \in Term
    BY <1>1, <1>2, <1>4, <2>1, MatchAssumption
  <2>5. Greater(dir[2], Applied(subst, dir[2]))
    BY <1>1, <1>2, <1>4, <2>1, <2>3, <2>4, BelowFacts
  <2> QED
    BY <1>1, <1>4, <1>5, <2>5
<1> QED
  BY <1>7, <1>8

LEMMA OrientFacts ==
    ASSUME NEW c \in ClauseType
    PROVE  /\ Orient(c) \in ClauseType
           /\ Orient(c).positive = c.positive /\ Orient(c).limited = c.limited
           /\ \/ Orient(c) = c /\ ~Greater(c.r, c.l)
              \/ /\ Orient(c).l = c.r /\ Orient(c).r = c.l
                 /\ Greater(c.r, c.l) /\ Oriented(Orient(c)) /\ ~Oriented(c)
<1>1. c.l \in Term /\ c.r \in Term
  BY DEF ClauseType
<1>2. ~(Greater(c.r, c.l) /\ Greater(c.l, c.r))
  BY <1>1, OrderingAssumption
<1> QED
  BY <1>1, <1>2 DEF Orient, ClauseType, Oriented

LEMMA ReducibleFacts ==
    ASSUME NEW t \in Term, NEW d
    PROVE  /\ IsFreeVar(t) => ~Reducible(t, d)
           /\ (\A i \in Positions(t) : ~Reducible(ArgsOf(t)[i], d))
              /\ (IsFreeVar(t) \/ TopRewrites(t, d) = {})
                 => ~Reducible(t, d)
           /\ ~Reducible(t, d) => \A i \in Positions(t) : ~Reducible(ArgsOf(t)[i], d)
           /\ ~Reducible(t, d) /\ ~IsFreeVar(t) => TopRewrites(t, d) = {}
BY CellsFacts DEF Reducible

----------------------------------------------------------------------------
(* What is done to cells *)

LEMMA GrownFacts ==
    ASSUME NEW b, NEW state, GoodBank(b)
    PROVE  /\ Grown(b, b, state)
           /\ \A c, d : Grown(b, c, state) /\ Grown(c, d, state) => Grown(b, d, state)
           /\ \A c, t : Extends(b, c, state) /\ HasCellIn(b, t) => HasCellIn(c, t)
           /\ \A c : Extends(b, c, state) /\ FlagsAre(b, state) => FlagsAre(c, state)
<1>1. Grown(b, b, state)
  BY DEF Grown, Extends, SameDates
<1>2. ASSUME NEW c, NEW d, Grown(b, c, state), Grown(c, d, state)
      PROVE  Grown(b, d, state)
  <2>1. Extends(b, d, state)
    BY <1>2 DEF Grown, Extends
  <2>2. SameDates(b, d)
    BY <1>2 DEF Grown, Extends, SameDates
  <2> QED
    BY <1>2, <2>1, <2>2 DEF Grown
<1> QED
  BY <1>1, <1>2 DEF Extends, HasCellIn, FlagsAre

LEMMA NewCellFacts ==
    ASSUME NEW state \in BOOLEAN
    PROVE  /\ NewCell(state) \in CellType
           /\ NewCell(state).flag = state /\ NewCell(state).nf_date = <<0, 0>>
           /\ NewCell(state).replace = NoTerm
<1>1. <<0, 0>> \in [1..2 -> Nat]
  OBVIOUS
<1> QED
  BY <1>1 DEF NewCell, CellType

LEMMA InsertAllFacts ==
    ASSUME NEW b, GoodBank(b), NEW state \in BOOLEAN, NEW terms \in SUBSET Term
    PROVE  /\ Grown(b, InsertAll(b, state, terms), state)
           /\ \A t \in terms : HasCellIn(InsertAll(b, state, terms), t)
           /\ DOMAIN InsertAll(b, state, terms) = DOMAIN b \cup UNION {Cells(t) : t \in terms}
           /\ \A t \in DOMAIN b : InsertAll(b, state, terms)[t] = b[t]
<1> DEFINE c == InsertAll(b, state, terms)
<1>1. /\ DOMAIN c = DOMAIN b \cup UNION {Cells(t) : t \in terms}
      /\ \A t \in DOMAIN b : c[t] = b[t]
      /\ \A t \in DOMAIN c \ DOMAIN b : c[t] = NewCell(state)
  BY DEF InsertAll
<1> HIDE DEF c
<1>2. ASSUME NEW t \in DOMAIN c
      PROVE  GoodCell(c, t)
  <2>1. CASE t \in DOMAIN b
    BY <1>1, <2>1 DEF GoodBank, GoodCell, HasCellIn
  <2>2. CASE t \notin DOMAIN b
    <3>1. PICK u \in terms : t \in Cells(u)
      BY <1>1, <2>2
    <3>2. t \in Term /\ ~IsFreeVar(t) /\ Cells(t) \subseteq Cells(u)
      BY <3>1, CellsFacts
    <3>3. Cells(t) \subseteq DOMAIN c
      BY <1>1, <3>2
    <3>4. c[t] \in CellType /\ c[t].replace = NoTerm
      BY <1>1, <2>2, NewCellFacts
    <3> QED
      BY <3>2, <3>3, <3>4 DEF GoodCell
  <2> QED
    BY <2>1, <2>2
<1>3. Extends(b, c, state) /\ SameDates(b, c)
  BY <1>1, NewCellFacts DEF Extends, SameDates
<1>4. ASSUME NEW t \in terms
      PROVE  HasCellIn(c, t)
  <2>1. t \in Term
    OBVIOUS
  <2> QED
    BY <1>1, <2>1, CellsFacts DEF HasCellIn
<1> QED
  BY <1>1, <1>2, <1>3, <1>4 DEF GoodBank, Grown, c

(* One cell is changed: what the lemmas on links, flags and dates share.   *)
LEMMA ChangeFacts ==
    ASSUME NEW b, GoodBank(b), NEW state, NEW t \in DOMAIN b, NEW cell \in CellType,
           cell.flag = b[t].flag,
           b[t].replace # NoTerm => cell.replace # NoTerm,
           cell.replace # NoTerm =>
              Greater(t, cell.replace) /\ HasCellIn(b, cell.replace) /\ (cell.top \/ cell.always)
    PROVE  /\ GoodBank([b EXCEPT ![t] = cell]) /\ Extends(b, [b EXCEPT ![t] = cell], state)
           /\ cell.nf_date = b[t].nf_date => Grown(b, [b EXCEPT ![t] = cell], state)
<1> DEFINE c == [b EXCEPT ![t] = cell]
<1>1. DOMAIN c = DOMAIN b /\ c[t] = cell /\ \A s \in DOMAIN b \ {t} : c[s] = b[s]
  OBVIOUS
<1> HIDE DEF c
<1>2. GoodBank(c)
  BY <1>1 DEF GoodBank, GoodCell, HasCellIn
<1>3. Extends(b, c, state)
  BY <1>1 DEF Extends
<1>4. cell.nf_date = b[t].nf_date => SameDates(b, c)
  BY <1>1 DEF SameDates
<1> QED
  BY <1>2, <1>3, <1>4 DEF Grown, c

LEMMA LinkFacts ==
    ASSUME NEW b, GoodBank(b), NEW state, NEW t \in DOMAIN b, NEW to \in Term,
           Greater(t, to), HasCellIn(b, to),
           NEW top \in BOOLEAN, NEW always \in BOOLEAN, TRUE \in {top, always}
    PROVE  Grown(b, AddRWLink(b, t, to, top, always), state)
<1> DEFINE cell == [b[t] EXCEPT !.replace = to, !.top = top, !.always = @ \/ always]
<1>1. b[t] \in CellType
  BY DEF GoodBank, GoodCell
<1>2. /\ cell \in CellType /\ cell.flag = b[t].flag /\ cell.nf_date = b[t].nf_date
      /\ cell.replace = to /\ cell.top = top
  BY <1>1 DEF CellType
<1>3. top \/ cell.always
  BY <1>1 DEF CellType
<1>4. AddRWLink(b, t, to, top, always) = [b EXCEPT ![t] = cell]
  BY DEF AddRWLink
<1>5. to # NoTerm
  BY TermAssumption
<1> HIDE DEF cell
<1>6. Grown(b, [b EXCEPT ![t] = cell], state)
  BY <1>2, <1>3, <1>5, ChangeFacts
<1> QED
  BY <1>2, <1>4, <1>6

LEMMA FlagFacts ==
    ASSUME NEW b, GoodBank(b), NEW state, NEW t \in DOMAIN b, NEW flags \in {Limited, Always}
    PROVE  /\ Grown(b, Flag(b, t, flags), state)
           /\ DOMAIN Flag(b, t, flags) = DOMAIN b
<1> DEFINE cell == [b[t] EXCEPT !.rewritable = @ \cup flags]
<1>1. /\ b[t] \in CellType
      /\ b[t].replace # NoTerm =>
            Greater(t, b[t].replace) /\ HasCellIn(b, b[t].replace) /\ (b[t].top \/ b[t].always)
  BY DEF GoodBank, GoodCell
<1>2. b[t].rewritable \cup flags \in {{}, Limited, Always}
  BY <1>1 DEF CellType, Limited, Always
<1>3. /\ cell \in CellType /\ cell.flag = b[t].flag /\ cell.nf_date = b[t].nf_date
      /\ cell.replace = b[t].replace /\ cell.top = b[t].top /\ cell.always = b[t].always
  BY <1>1, <1>2 DEF CellType
<1>4. Flag(b, t, flags) = [b EXCEPT ![t] = cell]
  BY DEF Flag
<1> HIDE DEF cell
<1>5. Grown(b, [b EXCEPT ![t] = cell], state)
  BY <1>1, <1>3, ChangeFacts
<1> QED
  BY <1>4, <1>5

LEMMA FlagAndLinkFacts ==
    ASSUME NEW b, GoodBank(b), garbage_state \in BOOLEAN, NEW t \in DOMAIN b, NEW rw,
           rw.to \in Term, Greater(t, rw.to), rw.proper \in BOOLEAN
    PROVE  /\ Grown(b, FlagAndLink(b, t, rw), garbage_state)
           /\ HasCellIn(b, rw.to) => DOMAIN FlagAndLink(b, t, rw) = DOMAIN b
           /\ FlagAndLink(b, t, rw)[t].rewritable # {}
<1> DEFINE flags == IF rw.proper THEN Always ELSE Limited
           b1 == Flag(b, t, flags)
           b2 == TBInsert(b1, garbage_state, rw.to)
<1>1. Grown(b, b1, garbage_state) /\ DOMAIN b1 = DOMAIN b
  BY FlagFacts
<1>2. b1[t].rewritable # {}
  <2>1. b[t] \in CellType
    BY DEF GoodBank, GoodCell
  <2>2. b1[t].rewritable = b[t].rewritable \cup flags
    BY <2>1 DEF Flag, CellType
  <2> QED
    BY <2>2 DEF Always, Limited
<1>3. CASE IsRewritten(b, t) /\ ~rw.proper
  BY <1>1, <1>2, <1>3 DEF FlagAndLink
<1>4. CASE ~(IsRewritten(b, t) /\ ~rw.proper)
  <2> HIDE DEF b1
  <2>1. /\ Grown(b1, b2, garbage_state) /\ HasCellIn(b2, rw.to)
        /\ DOMAIN b2 = DOMAIN b1 \cup Cells(rw.to)
        /\ \A s \in DOMAIN b1 : b2[s] = b1[s]
    <3>1. GoodBank(b1) /\ {rw.to} \in SUBSET Term
      BY <1>1 DEF Grown
    <3>2. b2 = InsertAll(b1, garbage_state, {rw.to})
      BY DEF TBInsert
    <3>3. UNION {Cells(u) : u \in {rw.to}} = Cells(rw.to)
      OBVIOUS
    <3> DEFINE one == {rw.to}
    <3>4. one \in SUBSET Term /\ rw.to \in one
      BY <3>1
    <3> HIDE DEF one
    <3>5. /\ Grown(b1, InsertAll(b1, garbage_state, one), garbage_state)
          /\ \A u \in one : HasCellIn(InsertAll(b1, garbage_state, one), u)
          /\ DOMAIN InsertAll(b1, garbage_state, one) = DOMAIN b1 \cup UNION {Cells(u) : u \in one}
          /\ \A s \in DOMAIN b1 : InsertAll(b1, garbage_state, one)[s] = b1[s]
      BY <3>1, <3>4, InsertAllFacts
    <3>6. b2 = InsertAll(b1, garbage_state, one) /\ UNION {Cells(u) : u \in one} = Cells(rw.to)
      BY <3>2, <3>3 DEF one
    <3> HIDE DEF b2
    <3> QED
      BY <3>4, <3>5, <3>6
  <2> HIDE DEF b2
  <2> DEFINE b3 == AddRWLink(b2, t, rw.to, TRUE, rw.proper)
  <2>2. Grown(b2, b3, garbage_state) /\ DOMAIN b3 = DOMAIN b2
    <3>1. /\ GoodBank(b2) /\ t \in DOMAIN b2
          /\ HasCellIn(b2, rw.to)
      BY <1>1, <2>1 DEF Grown, Extends
    <3> DEFINE to == rw.to
               top == TRUE
               always == rw.proper
    <3>2. /\ top \in BOOLEAN /\ always \in BOOLEAN /\ TRUE \in {top, always}
          /\ to \in Term /\ Greater(t, to) /\ HasCellIn(b2, to)
      BY <3>1
    <3> HIDE DEF to, top, always
    <3>3. Grown(b2, AddRWLink(b2, t, to, top, always), garbage_state)
      BY <3>1, <3>2, LinkFacts
    <3>4. DOMAIN b3 = DOMAIN b2
      BY DEF AddRWLink
    <3> QED
      BY <3>3, <3>4 DEF to, top, always
  <2>3. b3[t].rewritable = b2[t].rewritable
    <3>1. t \in DOMAIN b2 /\ b2[t] \in CellType
      BY <1>1, <2>1 DEF Grown, Extends, GoodBank, GoodCell
    <3> QED
      BY <3>1 DEF AddRWLink, CellType
  <2>4. FlagAndLink(b, t, rw) = b3
    BY <1>4 DEF FlagAndLink, b1, b2
  <2>5. Grown(b, b3, garbage_state)
    BY <1>1, <2>1, <2>2, GrownFacts
  <2>6. HasCellIn(b, rw.to) => Cells(rw.to) \subseteq DOMAIN b
    BY CellsFacts DEF HasCellIn, GoodBank, GoodCell
  <2> QED
    BY <1>1, <1>2, <2>1, <2>2, <2>3, <2>4, <2>5, <2>6
<1> QED
  BY <1>3, <1>4

LEMMA FlagAndLinkAllFacts ==
    ASSUME GoodBank(bank), garbage_state \in BOOLEAN, NEW terms \in SUBSET DOMAIN bank, NEW rw,
           \A t \in terms : rw[t].to \in Term /\ Greater(t, rw[t].to) /\ rw[t].proper \in BOOLEAN
    PROVE  Grown(bank, FlagAndLinkAll(terms, rw), garbage_state)
<1> DEFINE all == InsertAll(bank, garbage_state, {rw[t].to : t \in terms})
           c == FlagAndLinkAll(terms, rw)
<1>1. /\ Grown(bank, all, garbage_state)
      /\ \A t \in terms : HasCellIn(all, rw[t].to)
  <2> DEFINE results == {rw[t].to : t \in terms}
  <2>1. results \in SUBSET Term /\ \A t \in terms : rw[t].to \in results
    OBVIOUS
  <2> HIDE DEF results
  <2>2. /\ Grown(bank, InsertAll(bank, garbage_state, results), garbage_state)
        /\ \A t \in results : HasCellIn(InsertAll(bank, garbage_state, results), t)
    BY <2>1, InsertAllFacts
  <2> QED
    BY <2>1, <2>2 DEF results
<1>2. /\ DOMAIN c = DOMAIN all
      /\ \A t \in DOMAIN all : c[t] = IF t \in terms THEN FlagAndLink(all, t, rw[t])[t] ELSE all[t]
  BY DEF FlagAndLinkAll
<1> HIDE DEF all, c
<1>3. terms \subseteq DOMAIN all /\ GoodBank(all)
  BY <1>1 DEF Grown, Extends
<1>4. ASSUME NEW t \in terms
      PROVE  /\ GoodCell(c, t) /\ c[t].flag = all[t].flag /\ c[t].nf_date = all[t].nf_date
             /\ all[t].replace # NoTerm => c[t].replace # NoTerm
  <2> DEFINE one == FlagAndLink(all, t, rw[t])
  <2>1. Grown(all, one, garbage_state) /\ DOMAIN one = DOMAIN all
    BY <1>1, <1>3, FlagAndLinkFacts
  <2> HIDE DEF one
  <2>2. GoodCell(one, t) /\ c[t] = one[t]
    BY <1>2, <1>3, <2>1 DEF Grown, GoodBank, one
  <2>3. GoodCell(c, t)
    BY <1>2, <2>1, <2>2 DEF GoodCell, HasCellIn
  <2> QED
    BY <1>3, <2>1, <2>2, <2>3 DEF Grown, Extends, SameDates
<1>5. ASSUME NEW t \in DOMAIN all \ terms
      PROVE  GoodCell(c, t) /\ c[t] = all[t]
  BY <1>2, <1>3 DEF GoodBank, GoodCell, HasCellIn
<1>6. GoodBank(c)
  BY <1>2, <1>4, <1>5 DEF GoodBank
<1>7. Extends(all, c, garbage_state)
  BY <1>2, <1>4, <1>5 DEF Extends
<1>8. SameDates(all, c)
  BY <1>2, <1>4, <1>5 DEF SameDates
<1> QED
  BY <1>1, <1>6, <1>7, <1>8, GrownFacts DEF Grown, c

(* A cell gets a date. *)
LEMMA DateFacts ==
    ASSUME NEW b, GoodBank(b), NEW state, NEW t \in DOMAIN b, NEW dates \in [1..2 -> Nat]
    PROVE  LET c == [b EXCEPT ![t].nf_date = dates]
           IN  /\ GoodBank(c) /\ Extends(b, c, state) /\ DOMAIN c = DOMAIN b
               /\ c[t].nf_date = dates /\ \A s \in DOMAIN b \ {t} : c[s] = b[s]
               /\ \A s \in DOMAIN b : c[s].replace = b[s].replace
<1> DEFINE cell == [b[t] EXCEPT !.nf_date = dates]
           c == [b EXCEPT ![t].nf_date = dates]
<1>1. /\ b[t] \in CellType
      /\ b[t].replace # NoTerm =>
            Greater(t, b[t].replace) /\ HasCellIn(b, b[t].replace) /\ (b[t].top \/ b[t].always)
  BY DEF GoodBank, GoodCell
<1>2. /\ cell \in CellType /\ cell.flag = b[t].flag /\ cell.nf_date = dates
      /\ cell.replace = b[t].replace /\ cell.top = b[t].top /\ cell.always = b[t].always
  BY <1>1 DEF CellType
<1>3. c = [b EXCEPT ![t] = cell]
  OBVIOUS
<1>4. /\ DOMAIN c = DOMAIN b /\ c[t] = cell
      /\ \A s \in DOMAIN b \ {t} : c[s] = b[s]
  OBVIOUS
<1> HIDE DEF cell, c
<1>5. GoodBank(c) /\ Extends(b, c, state)
  BY <1>1, <1>2, <1>3, ChangeFacts
<1> QED
  BY <1>2, <1>4, <1>5 DEF c

----------------------------------------------------------------------------
(* The stack *)

LEMMA CallFacts ==
    ASSUME NEW F, NEW s \in Seq(F), NEW f \in F
    PROVE  /\ Append(s, f) \in Seq(F) /\ Len(Append(s, f)) = Len(s) + 1 /\ Append(s, f) # <<>>
           /\ Len(s) \in Nat
           /\ Append(s, f)[Len(s) + 1] = f /\ \A k \in 1..Len(s) : Append(s, f)[k] = s[k]
BY LenProperties, AppendProperties

LEMMA BecomeFacts ==
    ASSUME NEW F, NEW s \in Seq(F), s # <<>>, NEW f \in F
    PROVE  LET r == [s EXCEPT ![Len(s)] = f]
           IN  /\ r \in Seq(F) /\ Len(r) = Len(s) /\ r # <<>> /\ Len(s) \in Nat \ {0}
               /\ r[Len(s)] = f /\ \A k \in 1..(Len(s) - 1) : r[k] = s[k]
<1>1. Len(s) \in Nat \ {0}
  BY EmptySeq, LenProperties
<1>2. Len(s) \in 1..Len(s)
  BY <1>1
<1> QED
  BY <1>1, <1>2, ExceptSeq, EmptySeq

Returned(s, f) == [k \in 1..(Len(s) - 1) |-> IF k = Len(s) - 1 THEN f ELSE s[k]]

LEMMA ReturnFacts ==
    ASSUME NEW F, NEW s \in Seq(F), s # <<>>, Len(s) # 1, NEW f \in F
    PROVE  LET r == Returned(s, f)
           IN  /\ r \in Seq(F) /\ Len(r) = Len(s) - 1 /\ r # <<>>
               /\ Len(s) \in Nat /\ Len(s) - 1 \in Nat \ {0}
               /\ r[Len(s) - 1] = f /\ \A k \in 1..(Len(s) - 2) : r[k] = s[k]
<1> DEFINE n == Len(s) - 1
           r == [k \in 1..n |-> IF k = n THEN f ELSE s[k]]
<1>1. Len(s) \in Nat /\ n \in Nat \ {0}
  BY EmptySeq, LenProperties
<1>2. \A k \in 1..n : s[k] \in F
  BY <1>1, ElementOfSeq
<1>3. r \in [1..n -> F]
  BY <1>2
<1>4. r \in Seq(F) /\ Len(r) = n
  BY <1>1, <1>3, SeqDef, LenProperties
<1>5. r # <<>>
  BY <1>1, <1>4, EmptySeq
<1>6. n \in 1..n /\ \A k \in 1..(n - 1) : k \in 1..n /\ k # n
  <2> HIDE DEF n
  <2> QED
    BY <1>1
<1>7. r[n] = f /\ \A k \in 1..(n - 1) : r[k] = s[k]
  BY <1>6
<1>8. n - 1 = Len(s) - 2
  BY <1>1
<1> HIDE DEF r
<1> QED
  BY <1>1, <1>4, <1>5, <1>7, <1>8 DEF r, Returned

LEMMA OneFrame ==
    ASSUME NEW F, NEW f \in F
    PROVE  <<f>> \in Seq(F) /\ Len(<<f>>) = 1 /\ <<f>>[1] = f /\ <<f>> # <<>>
OBVIOUS

----------------------------------------------------------------------------
(* Dates *)

LEMMA DemodDateFacts ==
    ASSUME set_date \in [1..2 -> Nat]
    PROVE  /\ \A level : DemodDate(level) \in Nat
           /\ \A level \in 1..2 : \A j \in 1..level : set_date[j] <= DemodDate(level)
           /\ \A level \in 1..2 : DemodDate(level) <= DemodDate(FullRewrite)
           /\ SearchDate \in Nat \ {0} /\ DemodDate(FullRewrite) < SearchDate
           /\ SearchDate = DemodDate(FullRewrite) + 1 /\ NextDate = SearchDate
<1>1. set_date[1] \in Nat /\ set_date[2] \in Nat
  OBVIOUS
<1> QED
  BY <1>1 DEF DemodDate, SearchDate, NextDate, FullRewrite, RuleRewrite

LEMMA DatesGrow ==
    ASSUME NEW b, NEW c, NEW state, GoodBank(b), Grown(b, c, state),
           NEW clauses \in SUBSET ClauseType, NEW dates, DemodDatesIn(clauses, dates)
    PROVE  /\ TrueDates(b, clauses) => TrueDates(c, clauses)
           /\ \A today \in Nat : DatesUpTo(b, today) => DatesUpTo(c, today)
           /\ \A new, date : date \in Nat \ {0} /\ TrueSearchDates(b, new, date) =>
                 TrueSearchDates(c, new, date)
<1>1. \A t \in DOMAIN b :
        t \in DOMAIN c /\ c[t].nf_date = b[t].nf_date /\ (c[t].replace = NoTerm => b[t].replace = NoTerm)
  BY DEF Grown, Extends, SameDates
<1>2. \A t \in DOMAIN c \ DOMAIN b : \A i \in 1..2 : c[t].nf_date[i] = 0
  BY DEF Grown, SameDates
<1>3. ASSUME TrueDates(b, clauses)
      PROVE  TrueDates(c, clauses)
  <2> SUFFICES ASSUME NEW t \in DOMAIN c, c[t].replace = NoTerm, NEW i \in 1..2, NEW j \in 1..i,
                      NEW d \in DemodsIn(clauses, j), d.date <= c[t].nf_date[i]
               PROVE  ~Reducible(t, d)
    BY DEF TrueDates
  <2>1. 0 < d.date /\ d.date \in Nat
    BY DEF DemodDatesIn, DemodsIn, ClauseType
  <2>2. t \in DOMAIN b
    BY <1>2, <2>1
  <2> QED
    BY <1>1, <1>3, <2>2 DEF TrueDates
<1>4. ASSUME NEW today \in Nat, DatesUpTo(b, today)
      PROVE  DatesUpTo(c, today)
  BY <1>1, <1>2, <1>4 DEF DatesUpTo
<1>5. ASSUME NEW new, NEW date \in Nat \ {0}, TrueSearchDates(b, new, date)
      PROVE  TrueSearchDates(c, new, date)
  BY <1>1, <1>2, <1>5 DEF TrueSearchDates
<1> QED
  BY <1>3, <1>4, <1>5

LEMMA DatesSet ==
    ASSUME NEW b, NEW clauses, GoodBank(b), NEW t \in DOMAIN b, NEW dates \in [1..2 -> Nat],
           TrueDates(b, clauses),
           b[t].replace = NoTerm => \A i \in 1..2 : \A j \in 1..i : \A d \in DemodsIn(clauses, j) :
               d.date <= dates[i] => ~Reducible(t, d),
           NEW today, DatesUpTo(b, today), \A i \in 1..2 : dates[i] <= today
    PROVE  /\ TrueDates([b EXCEPT ![t].nf_date = dates], clauses)
           /\ DatesUpTo([b EXCEPT ![t].nf_date = dates], today)
<1> DEFINE c == [b EXCEPT ![t].nf_date = dates]
<1>1. /\ DOMAIN c = DOMAIN b /\ c[t].nf_date = dates
      /\ \A s \in DOMAIN b \ {t} : c[s] = b[s]
      /\ \A s \in DOMAIN b : c[s].replace = b[s].replace
  <2>1. b[t] \in CellType
    BY DEF GoodBank, GoodCell
  <2>2. c[t].nf_date = dates /\ c[t].replace = b[t].replace
    BY <2>1 DEF CellType
  <2> QED
    BY <2>2
<1> HIDE DEF c
<1>2. TrueDates(c, clauses)
  BY <1>1 DEF TrueDates
<1>3. DatesUpTo(c, today)
  BY <1>1 DEF DatesUpTo
<1> QED
  BY <1>2, <1>3 DEF c

----------------------------------------------------------------------------
(* Normal forms *)

LEMMA NormalFacts ==
    ASSUME NEW t \in Term, NEW clauses, NEW level
    PROVE  /\ IsFreeVar(t) => IsNormal(t, clauses, level)
           /\ ArgsNormal(t, clauses, level) /\ (IsFreeVar(t) \/ TopNormal(t, clauses, level)) =>
                 IsNormal(t, clauses, level)
           /\ IsNormal(t, clauses, level) => ArgsNormal(t, clauses, level)
           /\ IsNormal(t, clauses, level) <=>
                 \A j \in 1..level : \A d \in DemodsIn(clauses, j) : ~Reducible(t, d)
<1>1. IsFreeVar(t) => IsNormal(t, clauses, level)
  BY CellsFacts DEF IsNormal
<1>2. ASSUME ArgsNormal(t, clauses, level), IsFreeVar(t) \/ TopNormal(t, clauses, level)
      PROVE  IsNormal(t, clauses, level)
  <2> SUFFICES ASSUME NEW s \in Cells(t), ~IsFreeVar(t)
               PROVE  TopNormal(s, clauses, level)
    BY <1>1 DEF IsNormal
  <2>1. s = t \/ \E i \in Positions(t) : s \in Cells(ArgsOf(t)[i])
    BY CellsFacts
  <2> QED
    BY <1>2, <2>1 DEF ArgsNormal, IsNormal
<1>3. IsNormal(t, clauses, level) => ArgsNormal(t, clauses, level)
  BY CellsFacts DEF IsNormal, ArgsNormal
<1>4. IsNormal(t, clauses, level) <=>
        \A j \in 1..level : \A d \in DemodsIn(clauses, j) : ~Reducible(t, d)
  BY DEF IsNormal, TopNormal, Reducible
<1> QED
  BY <1>1, <1>2, <1>3, <1>4

(* A date that is as young as the demodulators makes a normal form. *)
LEMMA KnownNormalFacts ==
    ASSUME NEW b, NEW clauses \in SUBSET ClauseType, NEW dates \in [1..2 -> Nat],
           DemodDatesIn(clauses, dates), TrueDates(b, clauses),
           GoodBank(b), NEW t \in DOMAIN b, b[t].replace = NoTerm,
           NEW i \in 1..2, NEW j \in 1..i, NEW d \in DemodsIn(clauses, j),
           b[t].nf_date[i] >= dates[j]
    PROVE  ~Reducible(t, d)
<1>1. d.date \in Nat /\ d.date <= dates[j] /\ dates[j] \in Nat
  BY DEF DemodDatesIn, DemodsIn, ClauseType
<1>2. b[t].nf_date[i] \in Nat
  BY DEF GoodBank, GoodCell, CellType
<1>3. d.date <= b[t].nf_date[i]
  BY <1>1, <1>2
<1> QED
  BY <1>3 DEF TrueDates

----------------------------------------------------------------------------
(* Steps of term_li_normalform() *)

LEMMA FrameKept ==
    ASSUME NEW f, NEW b, NEW c, NEW state, NEW clauses, NEW level,
           NormalFrameOK(f, b, clauses, level), f.at = "args", GoodBank(b), Extends(b, c, state)
    PROVE  NormalFrameOK(f, c, clauses, level)
<1>1. \A t : HasCellIn(b, t) => HasCellIn(c, t)
  BY GrownFacts
<1> QED
  BY <1>1 DEF NormalFrameOK

(* What all these steps have in common *)
LEMMA NormalizeStep ==
    ASSUME IInv, pc = "normalize", pc' = "normalize", UNCHANGED <<store, sets, search>>,
           GoodBank(bank'), Extends(bank, bank', garbage_state),
           DatesUpTo(bank', DemodDate(FullRewrite)), TrueDates(bank', processed),
           cur' \in JobType, stack' \in Seq(NormalFrameType),
           stack' = <<>> <=> cur'.side = "done",
           HasCellIn(bank', cur'.clause.l), HasCellIn(bank', cur'.clause.r),
           JobOK(cur', processed), NormalStack(stack', cur', bank', processed)
    PROVE  IInv'
<1> USE DEF store, sets, search
<1>1. SetsType' /\ DemodDatesIn(processed, set_date)'
  BY DEF IInv, SetsType
<1>2. PhaseType'
  BY DEF IInv, PhaseType
<1>3. ClausesHaveCells'
  <2>1. \A t \in Roots : HasCellIn(bank', t)
    BY GrownFacts DEF IInv, ClausesHaveCells
  <2>2. Roots' = Roots
    BY DEF Roots, TermsOf
  <2>3. cur' # Nothing /\ InWork' = {cur'.clause}
    BY DEF JobType, InWork, Nothing
  <2>4. \A t \in TermsOf(InWork)' : HasCellIn(bank', t)
    BY <2>3 DEF TermsOf
  <2> QED
    BY <2>1, <2>2, <2>4 DEF ClausesHaveCells
<1>4. FlagsAre(bank, garbage_state)'
  BY GrownFacts DEF IInv
<1>5. DatesUpTo(bank, Today)' /\ TrueDates(bank, processed)'
  BY DEF Today, DemodDate
<1>6. Interreduced'
  BY DEF IInv, Interreduced, OthersOf
<1>7. NormalInv' /\ SearchInv' /\ MarkInv'
  BY DEF NormalInv, SearchInv, MarkInv
<1> QED
  BY <1>1, <1>2, <1>3, <1>4, <1>5, <1>6, <1>7 DEF IInv

(* What is known in such a step *)
LEMMA InNormalize ==
    ASSUME IInv, pc = "normalize"
    PROVE  /\ cur \in JobType /\ cur.level \in 0..2
           /\ cur.clause \in ClauseType /\ cur.old \in ClauseType
           /\ stack \in Seq(NormalFrameType) /\ (stack = <<>> <=> cur.side = "done")
           /\ JobOK(cur, processed) /\ NormalStack(stack, cur, bank, processed)
           /\ HasCellIn(bank, cur.clause.l) /\ HasCellIn(bank, cur.clause.r)
           /\ garbage_state \in BOOLEAN /\ set_date \in [1..2 -> Nat]
           /\ processed \in SUBSET ClauseType /\ DemodDatesIn(processed, set_date)
           /\ GoodBank(bank) /\ TrueDates(bank, processed)
           /\ DatesUpTo(bank, DemodDate(FullRewrite))
<1>1. cur \in JobType /\ stack \in Seq(NormalFrameType) /\ (stack = <<>> <=> cur.side = "done")
  BY DEF IInv, PhaseType
<1>2. /\ cur.level \in 0..2 /\ cur.clause \in ClauseType /\ cur.old \in ClauseType
      /\ cur # Nothing
  BY <1>1 DEF JobType, Nothing
<1>3. HasCellIn(bank, cur.clause.l) /\ HasCellIn(bank, cur.clause.r)
  BY <1>2 DEF IInv, ClausesHaveCells, InWork, TermsOf
<1>4. DatesUpTo(bank, DemodDate(FullRewrite))
  BY DEF IInv, Today
<1> QED
  BY <1>1, <1>2, <1>3, <1>4 DEF IInv, SetsType, NormalInv

LEMMA TopFacts ==
    ASSUME IInv, pc = "normalize", stack # <<>>
    PROVE  /\ Len(stack) \in Nat \ {0} /\ Top \in NormalFrameType
           /\ Top.term \in Term /\ Top.from \in Term /\ Top.args \in Seq(Term) /\ Top.pos \in Nat
           /\ NormalFrameOK(Top, bank, processed, cur.level)
           /\ cur.side \in {"left", "right"}
           /\ ~IsFreeVar(Top.term) => Top.term \in DOMAIN bank
<1>1. Len(stack) \in Nat \ {0} /\ Top \in NormalFrameType
  <2>1. stack \in Seq(NormalFrameType)
    BY InNormalize
  <2>2. Len(stack) \in Nat \ {0}
    BY <2>1, EmptySeq, LenProperties
  <2> QED
    BY <2>1, <2>2, ElementOfSeq DEF Top
<1>2. NormalFrameOK(Top, bank, processed, cur.level)
  BY <1>1, InNormalize DEF NormalStack, Top
<1>3. cur.side \in {"left", "right"}
  BY InNormalize DEF JobType
<1> QED
  BY <1>1, <1>2, <1>3 DEF NormalFrameType, NormalFrameOK, HasCellIn

LEMMA BecomeStep ==
    ASSUME IInv, pc = "normalize", stack # <<>>, UNCHANGED <<store, sets, pc, cur, search>>,
           GoodBank(bank'), Extends(bank, bank', garbage_state),
           DatesUpTo(bank', DemodDate(FullRewrite)), TrueDates(bank', processed),
           NEW f \in NormalFrameType, Become(f),
           f.from = Top.from, f.restricted = Top.restricted,
           NormalFrameOK(f, bank', processed, cur.level)
    PROVE  IInv'
<1> DEFINE n == Len(stack)
<1>1. /\ stack' \in Seq(NormalFrameType) /\ Len(stack') = n /\ stack' # <<>> /\ n \in Nat \ {0}
      /\ stack'[n] = f /\ \A k \in 1..(n - 1) : stack'[k] = stack[k]
  BY BecomeFacts, InNormalize DEF Become
<1>2. NormalStack(stack, cur, bank, processed)
  BY InNormalize
<1> HIDE DEF n
<1>3. ASSUME NEW k \in 1..n
      PROVE  NormalFrameOK(stack'[k], bank', processed, cur.level)
  <2>1. CASE k = n
    BY <1>1, <2>1
  <2>2. CASE k # n
    <3>1. k \in 1..(n - 1) /\ stack'[k] = stack[k]
      BY <1>1, <2>2
    <3>2. NormalFrameOK(stack[k], bank, processed, cur.level) /\ stack[k].at = "args"
      BY <1>2, <3>1 DEF NormalStack, WaitsFor, n
    <3> QED
      BY <3>1, <3>2, InNormalize, FrameKept
  <2> QED
    BY <2>1, <2>2
<1>4. ASSUME NEW k \in 1..(n - 1)
      PROVE  WaitsFor(stack'[k], stack'[k + 1])
  <2>1. WaitsFor(stack[k], stack[k + 1])
    BY <1>2 DEF NormalStack, n
  <2>2. CASE k = n - 1
    BY <1>1, <2>1, <2>2 DEF WaitsFor, Top, n
  <2>3. CASE k # n - 1
    BY <1>1, <2>1, <2>3
  <2> QED
    BY <2>2, <2>3
<1>5. stack'[1].from = stack[1].from /\ stack'[1].restricted = stack[1].restricted
  <2>1. CASE n = 1
    BY <1>1, <2>1 DEF Top, n
  <2>2. CASE n # 1
    BY <1>1, <2>2
  <2> QED
    BY <2>1, <2>2
<1>6. NormalStack(stack', cur, bank', processed)
  BY <1>1, <1>2, <1>3, <1>4, <1>5 DEF NormalStack
<1>7. HasCellIn(bank', cur.clause.l) /\ HasCellIn(bank', cur.clause.r)
  BY InNormalize, GrownFacts
<1> QED
  BY <1>1, <1>6, <1>7, InNormalize, NormalizeStep

LEMMA OneNormalFrame ==
    ASSUME NEW f, NEW job, NEW b, NEW clauses, NormalFrameOK(f, b, clauses, job.level),
           f.from = IF job.side = "left" THEN job.clause.l ELSE job.clause.r,
           f.restricted = (job.side = "left" /\ IsLeftRestricted(job.old))
    PROVE  NormalStack(<<f>>, job, b, clauses)
<1>1. /\ Len(<<f>>) = 1 /\ <<f>>[1] = f /\ 1..Len(<<f>>) = {1} /\ 1..(Len(<<f>>) - 1) = {}
  OBVIOUS
<1> QED
  BY <1>1 DEF NormalStack

(* A frame returns its term. *)
LEMMA ReturnNormalStep ==
    ASSUME IInv, pc = "normalize", stack # <<>>, UNCHANGED <<store, sets, pc, search>>,
           GoodBank(bank'), Extends(bank, bank', garbage_state),
           DatesUpTo(bank', DemodDate(FullRewrite)), TrueDates(bank', processed),
           ReturnNormal(Top.term),
           Top.restricted => ArgsNormal(Top.term, processed, cur.level),
           ~Top.restricted => IsNormal(Top.term, processed, cur.level)
    PROVE  IInv'
<1> DEFINE n == Len(stack)
           t == Top.term
<1>1. /\ n \in Nat \ {0} /\ t \in Term /\ Top.from \in Term /\ cur.side \in {"left", "right"}
      /\ Below(Top.from, t) /\ HasCellIn(bank, t)
  BY TopFacts DEF NormalFrameOK
<1>2. NormalStack(stack, cur, bank, processed) /\ JobOK(cur, processed)
  BY InNormalize
<1>3. \A s : HasCellIn(bank, s) => HasCellIn(bank', s)
  BY InNormalize, GrownFacts
<1>4. CASE n = 1
  <2>1. /\ stack[1] = Top
        /\ Top.from = IF cur.side = "left" THEN cur.clause.l ELSE cur.clause.r
        /\ Top.restricted = (cur.side = "left" /\ IsLeftRestricted(cur.old))
    BY <1>2, <1>4 DEF NormalStack, Top
  <2>2. SideDone(t)
    BY <1>4 DEF ReturnNormal
  <2>3. CASE cur.side = "left"
    <3> DEFINE f == NormalFrame(cur.clause.r, FALSE)
    <3>1. /\ cur' = [cur EXCEPT !.clause.l = t, !.side = "right"]
          /\ stack' = <<f>>
      BY <2>2, <2>3 DEF SideDone
    <3>2. /\ cur' \in JobType /\ cur'.side = "right" /\ cur'.old = cur.old /\ cur'.level = cur.level
          /\ cur'.clause.l = t /\ cur'.clause.r = cur.clause.r /\ cur'.job = cur.job
          /\ cur.clause = cur.old
          /\ cur'.clause = [cur.old EXCEPT !.l = cur'.clause.l, !.r = cur'.clause.r]
      BY <1>1, <1>2, <2>3, <3>1, InNormalize DEF JobType, ClauseType, JobOK
    <3>3. JobOK(cur', processed)
      BY <1>1, <1>2, <2>1, <2>3, <3>2 DEF JobOK, LeftOK
    <3>4. /\ f \in NormalFrameType /\ f.from = cur'.clause.r /\ f.restricted = FALSE
          /\ f.at = "enter" /\ f.term = cur'.clause.r
      BY <3>2, ArgsFacts, InNormalize DEF NormalFrame, NormalFrameType, ClauseType
    <3> HIDE DEF f
    <3>5. NormalFrameOK(f, bank', processed, cur'.level)
      BY <1>3, <3>2, <3>4, InNormalize DEF NormalFrameOK, Below
    <3>6. /\ stack' \in Seq(NormalFrameType) /\ Len(stack') = 1 /\ stack'[1] = f /\ stack' # <<>>
      BY <3>1, <3>4, OneFrame
    <3>7. NormalStack(stack', cur', bank', processed)
      <4>1. f.restricted = (cur'.side = "left" /\ IsLeftRestricted(cur'.old))
        BY <3>2, <3>4
      <4> QED
        BY <3>1, <3>2, <3>4, <3>5, <4>1, OneNormalFrame
    <3>8. HasCellIn(bank', cur'.clause.l) /\ HasCellIn(bank', cur'.clause.r)
      BY <1>1, <1>3, <3>2, InNormalize
    <3> QED
      BY <3>2, <3>3, <3>6, <3>7, <3>8, NormalizeStep
  <2>4. CASE cur.side = "right"
    <3>1. /\ cur' = [cur EXCEPT !.clause.r = t, !.side = "done"]
          /\ stack' = <<>>
      BY <2>2, <2>4 DEF SideDone
    <3>2. /\ cur' \in JobType /\ cur'.side = "done" /\ cur'.old = cur.old /\ cur'.level = cur.level
          /\ cur'.clause.r = t /\ cur'.clause.l = cur.clause.l /\ cur'.job = cur.job
          /\ cur.clause.r = cur.old.r
          /\ cur'.clause = [cur.old EXCEPT !.l = cur'.clause.l, !.r = cur'.clause.r]
      BY <1>1, <1>2, <2>4, <3>1, InNormalize DEF JobType, ClauseType, JobOK
    <3>3. JobOK(cur', processed)
      BY <1>1, <1>2, <2>1, <2>4, <3>2 DEF JobOK, LeftOK, RightOK
    <3>4. NormalStack(stack', cur', bank', processed) /\ stack' \in Seq(NormalFrameType)
      BY <3>1 DEF NormalStack
    <3>5. HasCellIn(bank', cur'.clause.l) /\ HasCellIn(bank', cur'.clause.r)
      BY <1>1, <1>3, <3>2, InNormalize
    <3> QED
      BY <3>1, <3>2, <3>3, <3>4, <3>5, NormalizeStep
  <2> QED
    BY <1>1, <2>3, <2>4
<1>5. CASE n # 1
  <2> DEFINE m == n - 1
             f == [Caller EXCEPT !.args[Caller.pos] = t, !.pos = @ + 1]
  <2>1. /\ m \in Nat \ {0} /\ m + 1 = n /\ m \in 1..n
        /\ Caller = stack[m] /\ Top = stack[m + 1] /\ Caller \in NormalFrameType
    <3>1. m \in Nat \ {0} /\ m + 1 = n /\ m \in 1..n
      <4>1. n \in Nat \ {0}
        BY <1>1
      <4> HIDE DEF n
      <4> QED
        BY <4>1, <1>5
    <3> QED
      BY <3>1, InNormalize, ElementOfSeq DEF Caller, Top
  <2>2. NormalFrameOK(Caller, bank, processed, cur.level) /\ WaitsFor(Caller, Top)
    BY <1>2, <2>1 DEF NormalStack
  <2>3. /\ Caller.at = "args" /\ Caller.term \in Term /\ Caller.args \in Seq(Term)
        /\ Caller.pos \in Positions(Caller.term) /\ Caller.pos \in Nat
        /\ Top.from = Caller.args[Caller.pos] /\ ~Top.restricted
        /\ Caller.args \in [Positions(Caller.term) -> Term]
        /\ Positions(Caller.term) = 1..Len(ArgsOf(Caller.term)) /\ Len(ArgsOf(Caller.term)) \in Nat
    BY <2>1, <2>2, ArgsFacts DEF WaitsFor, NormalFrameType, NormalFrameOK, RewrittenArgs
  <2> DEFINE args == [Caller.args EXCEPT ![Caller.pos] = t]
  <2>4. /\ args \in Seq(Term) /\ args \in [Positions(Caller.term) -> Term]
        /\ args[Caller.pos] = t /\ \A i \in Positions(Caller.term) \ {Caller.pos} : args[i] = Caller.args[i]
        /\ Len(args) = Len(Caller.args)
    <3>1. args \in [Positions(Caller.term) -> Term]
      BY <1>1, <2>3
    <3>2. Len(Caller.args) = Len(ArgsOf(Caller.term))
      BY <2>3, LenProperties
    <3>3. args \in Seq(Term) /\ Len(args) = Len(ArgsOf(Caller.term))
      <4> HIDE DEF args
      <4> QED
        BY <2>3, <3>1, SeqDef, LenProperties
    <3> QED
      BY <1>1, <2>3, <3>1, <3>2, <3>3
  <2>5. /\ f \in NormalFrameType /\ f.args = args /\ f.pos = Caller.pos + 1
        /\ f.from = Caller.from /\ f.term = Caller.term /\ f.at = "args"
        /\ f.restricted = Caller.restricted
    <3> HIDE DEF args
    <3>1. f = [Caller EXCEPT !.args = args, !.pos = @ + 1]
      BY <2>1 DEF NormalFrameType, args
    <3> HIDE DEF f
    <3>2. Caller.pos + 1 \in Nat /\ args \in Seq(Term)
      BY <2>3, <2>4
    <3> QED
      BY <2>1, <2>3, <3>1, <3>2 DEF NormalFrameType
  <2> HIDE DEF f, args
  <2>6. NormalFrameOK(f, bank', processed, cur.level)
    <3>1. NormalFrameOK(Caller, bank', processed, cur.level)
      BY <2>2, <2>3, InNormalize, FrameKept
    <3>2. RewrittenArgs(f.term, args)
      <4>1. Caller.args[Caller.pos] = ArgsOf(Caller.term)[Caller.pos]
        BY <2>2, <2>3 DEF NormalFrameOK
      <4>2. ArgsOf(Caller.term)[Caller.pos] = t \/ Greater(ArgsOf(Caller.term)[Caller.pos], t)
        BY <1>1, <2>3, <4>1 DEF Below
      <4>3. RewrittenArgs(Caller.term, Caller.args)
        BY <2>2, <2>3 DEF NormalFrameOK
      <4> QED
        BY <2>4, <2>5, <4>2, <4>3 DEF RewrittenArgs
    <3>3. f.pos \in 1..(Len(args) + 1)
      BY <2>3, <2>4, <2>5, LenProperties
    <3>4. ASSUME NEW i \in Positions(f.term)
          PROVE  /\ HasCellIn(bank', args[i])
                 /\ i < f.pos => IsNormal(args[i], processed, cur.level)
                 /\ i >= f.pos => args[i] = ArgsOf(f.term)[i]
      <4>1. CASE i = Caller.pos
        BY <1>1, <1>3, <2>3, <2>4, <2>5, <4>1
      <4>2. CASE i # Caller.pos
        <5>1. /\ HasCellIn(bank', Caller.args[i])
              /\ i < Caller.pos => IsNormal(Caller.args[i], processed, cur.level)
              /\ i >= Caller.pos => Caller.args[i] = ArgsOf(Caller.term)[i]
          BY <2>3, <2>5, <3>1 DEF NormalFrameOK
        <5>2. args[i] = Caller.args[i] /\ i \in Nat
          BY <2>3, <2>4, <2>5, <4>2
        <5> QED
          BY <2>3, <2>5, <4>2, <5>1, <5>2
      <4> QED
        BY <4>1, <4>2
    <3>5. /\ Below(f.from, f.term) /\ HasCellIn(bank', f.term)
          /\ cur.level # NoRewrite
      BY <2>3, <2>5, <3>1 DEF NormalFrameOK
    <3> QED
      BY <2>5, <3>2, <3>3, <3>4, <3>5 DEF NormalFrameOK
  <2>7. /\ stack' \in Seq(NormalFrameType) /\ Len(stack') = m /\ stack' # <<>>
        /\ stack'[m] = f /\ \A k \in 1..(m - 1) : stack'[k] = stack[k]
        /\ cur' = cur
    <3>1. /\ stack' = [k \in 1..(Len(stack) - 1) |-> IF k = Len(stack) - 1 THEN f ELSE stack[k]]
          /\ cur' = cur
      BY <1>5 DEF ReturnNormal, ReturnTo, f
    <3> DEFINE r == Returned(stack, f)
    <3>2. /\ r \in Seq(NormalFrameType) /\ Len(r) = Len(stack) - 1 /\ r # <<>>
          /\ r[Len(stack) - 1] = f /\ \A k \in 1..(Len(stack) - 2) : r[k] = stack[k]
      BY <1>5, <2>5, InNormalize, ReturnFacts
    <3> HIDE DEF r
    <3>3. m - 1 = Len(stack) - 2
      BY <1>1
    <3> QED
      BY <3>1, <3>2, <3>3 DEF r, Returned
  <2>8. NormalStack(stack', cur, bank', processed)
    <3> HIDE DEF m, n
    <3>1. ASSUME NEW k \in 1..m
          PROVE  NormalFrameOK(stack'[k], bank', processed, cur.level)
      <4>1. CASE k = m
        BY <2>6, <2>7, <4>1
      <4>2. CASE k # m
        <5>1. k \in 1..(m - 1) /\ stack'[k] = stack[k] /\ k \in 1..n /\ k \in 1..(n - 1)
          BY <2>1, <2>7, <4>2
        <5>2. NormalFrameOK(stack[k], bank, processed, cur.level) /\ stack[k].at = "args"
          BY <1>2, <5>1 DEF NormalStack, WaitsFor, n
        <5> QED
          BY <5>1, <5>2, InNormalize, FrameKept
      <4> QED
        BY <4>1, <4>2
    <3>2. ASSUME NEW k \in 1..(m - 1)
          PROVE  WaitsFor(stack'[k], stack'[k + 1])
      <4>1. k \in 1..(n - 1) /\ k + 1 \in 1..m
        BY <2>1
      <4>2. WaitsFor(stack[k], stack[k + 1])
        BY <1>2, <4>1 DEF NormalStack, n
      <4>3. CASE k + 1 = m
        BY <2>1, <2>5, <2>7, <4>2, <4>3 DEF WaitsFor
      <4>4. CASE k + 1 # m
        BY <2>7, <4>1, <4>2, <4>4
      <4> QED
        BY <4>3, <4>4
    <3>3. stack'[1].from = stack[1].from /\ stack'[1].restricted = stack[1].restricted
      <4>1. CASE m = 1
        BY <2>1, <2>5, <2>7, <4>1
      <4>2. CASE m # 1
        BY <2>1, <2>7, <4>2
      <4> QED
        BY <4>1, <4>2
    <3> QED
      BY <1>2, <2>7, <3>1, <3>2, <3>3 DEF NormalStack
  <2>9. HasCellIn(bank', cur.clause.l) /\ HasCellIn(bank', cur.clause.r)
    BY <1>3, InNormalize
  <2> QED
    BY <2>7, <2>8, <2>9, InNormalize, NormalizeStep
<1> QED
  BY <1>4, <1>5

(* New cells and new links have no dates. *)
LEMMA NormalizeGrows ==
    ASSUME IInv, pc = "normalize", NEW b, Grown(bank, b, garbage_state)
    PROVE  /\ GoodBank(b) /\ Extends(bank, b, garbage_state)
           /\ DatesUpTo(b, DemodDate(FullRewrite)) /\ TrueDates(b, processed)
BY InNormalize, DatesGrow, DemodDateFacts DEF Grown

LEMMA FollowLinkStep == IInv /\ FollowLink => IInv'
<1> SUFFICES ASSUME IInv, FollowLink
             PROVE  IInv'
  OBVIOUS
<1> DEFINE to == bank[Top.term].replace
           f == [Top EXCEPT !.term = to, !.modified = TRUE]
<1>1. /\ pc = "normalize" /\ stack # <<>> /\ Top.at \in {"enter", "chain"}
      /\ CanFollow(Top) /\ Become(f)
      /\ UNCHANGED <<store, bank, sets, pc, cur, search>>
  BY DEF FollowLink, Normalizing
<1>2. /\ Top \in NormalFrameType /\ Top.term \in Term /\ Top.from \in Term
      /\ NormalFrameOK(Top, bank, processed, cur.level)
  BY <1>1, TopFacts
<1>3. Top.term \in DOMAIN bank /\ to # NoTerm
  BY <1>1, TopFacts DEF CanFollow, IsTopRewritten, IsRewritten
<1>4. to \in Term /\ Greater(Top.term, to) /\ HasCellIn(bank, to)
  BY <1>1, <1>3, InNormalize DEF GoodBank, GoodCell, CellType
<1>5. /\ f \in NormalFrameType /\ f.term = to /\ f.from = Top.from /\ f.at = Top.at
      /\ f.modified = TRUE /\ f.restricted = Top.restricted
  BY <1>2, <1>4 DEF NormalFrameType
<1> HIDE DEF f, to
<1>6. NormalFrameOK(f, bank, processed, cur.level)
  BY <1>1, <1>2, <1>4, <1>5, BelowFacts DEF NormalFrameOK
<1>7. Grown(bank, bank, garbage_state)
  BY <1>1, InNormalize, GrownFacts
<1> QED
  BY <1>1, <1>5, <1>6, <1>7, NormalizeGrows, BecomeStep

LEMMA ReturnAtOnceStep == IInv /\ ReturnAtOnce => IInv'
<1> SUFFICES ASSUME IInv, ReturnAtOnce
             PROVE  IInv'
  OBVIOUS
<1>1. /\ pc = "normalize" /\ stack # <<>> /\ IsKnownNormal(Top.term) /\ ReturnNormal(Top.term)
      /\ UNCHANGED <<store, bank, sets, pc, search>>
  BY DEF ReturnAtOnce, Normalizing
<1>2. Top.term \in Term /\ (~IsFreeVar(Top.term) => Top.term \in DOMAIN bank)
  BY <1>1, TopFacts
<1>3. cur.level \in 0..2
  BY <1>1, InNormalize
<1>4. IsNormal(Top.term, processed, cur.level)
  <2> SUFFICES ASSUME NEW j \in 1..cur.level, NEW d \in DemodsIn(processed, j), ~IsFreeVar(Top.term)
               PROVE  ~Reducible(Top.term, d)
    BY <1>2, NormalFacts
  <2>1. cur.level \in 1..2 /\ cur.level # NoRewrite /\ j \in 1..2
    BY <1>3 DEF NoRewrite
  <2>2. bank[Top.term].replace = NoTerm /\ bank[Top.term].nf_date[cur.level] >= DemodDate(cur.level)
    BY <1>1, <2>1 DEF IsKnownNormal, IsRewritten
  <2>3. bank[Top.term].nf_date[cur.level] \in Nat
    BY <1>1, <1>2, <2>1, InNormalize DEF GoodBank, GoodCell, CellType
  <2>4. set_date[j] <= DemodDate(cur.level) /\ set_date[j] \in Nat /\ DemodDate(cur.level) \in Nat
    BY <1>1, <2>1, InNormalize, DemodDateFacts
  <2>5. bank[Top.term].nf_date[cur.level] >= set_date[j]
    BY <2>2, <2>3, <2>4
  <2> QED
    BY <1>1, <1>2, <2>1, <2>2, <2>5, InNormalize, KnownNormalFacts
<1>5. ArgsNormal(Top.term, processed, cur.level)
  BY <1>2, <1>4, NormalFacts
<1>6. Grown(bank, bank, garbage_state)
  BY <1>1, InNormalize, GrownFacts
<1> QED
  BY <1>1, <1>4, <1>5, <1>6, NormalizeGrows, ReturnNormalStep

LEMMA RoundStep ==
    ASSUME IInv, pc = "normalize", stack # <<>>, cur.level # NoRewrite, Become(RoundOf(Top)),
           UNCHANGED <<store, bank, sets, pc, cur, search>>
    PROVE  IInv'
<1> DEFINE f == RoundOf(Top)
           t == Top.term
<1>1. /\ Top \in NormalFrameType /\ t \in Term /\ (~IsFreeVar(t) => t \in DOMAIN bank)
      /\ NormalFrameOK(Top, bank, processed, cur.level)
  BY TopFacts
<1>2. /\ ArgsOf(t) \in Seq(Term) /\ Positions(t) = 1..Len(ArgsOf(t)) /\ Len(ArgsOf(t)) \in Nat
      /\ ArgsOf(t) \in [Positions(t) -> Term]
      /\ IsFreeVar(t) => Positions(t) = {}
  BY <1>1, ArgsFacts
<1>3. /\ f \in NormalFrameType /\ f.at = "args" /\ f.args = ArgsOf(t) /\ f.pos = 1 /\ f.term = t
      /\ f.from = Top.from /\ f.restricted = Top.restricted
  BY <1>1, <1>2 DEF RoundOf, NormalFrameType
<1> HIDE DEF f
<1>4. ASSUME NEW i \in Positions(t)
      PROVE  HasCellIn(bank, ArgsOf(t)[i])
  <2>1. ArgsOf(t)[i] \in Term /\ Cells(ArgsOf(t)[i]) \subseteq Cells(t)
    BY <1>1, ArgsFacts, CellsFacts
  <2>2. Cells(t) \subseteq DOMAIN bank
    BY <1>1, <1>2, InNormalize DEF GoodBank, GoodCell
  <2> QED
    BY <2>1, <2>2, CellsFacts DEF HasCellIn
<1>5. NormalFrameOK(f, bank, processed, cur.level)
  BY <1>1, <1>2, <1>3, <1>4 DEF NormalFrameOK, RewrittenArgs
<1>6. Grown(bank, bank, garbage_state)
  BY InNormalize, GrownFacts
<1> QED
  BY <1>3, <1>5, <1>6, NormalizeGrows, BecomeStep DEF f

LEMMA StartRoundStep == IInv /\ StartRound => IInv'
BY RoundStep DEF StartRound, Normalizing, IsKnownNormal

LEMMA NextRoundStep == IInv /\ NextRound => IInv'
<1> SUFFICES ASSUME IInv, NextRound
             PROVE  IInv'
  OBVIOUS
<1>1. /\ pc = "normalize" /\ stack # <<>> /\ Top.at = "chain" /\ Become(RoundOf(Top))
      /\ UNCHANGED <<store, bank, sets, pc, cur, search>>
  BY DEF NextRound, Normalizing
<1>2. cur.level # NoRewrite
  BY <1>1, TopFacts DEF NormalFrameOK
<1> QED
  BY <1>1, <1>2, RoundStep

LEMMA NormalizeArgumentStep == IInv /\ NormalizeArgument => IInv'
<1> SUFFICES ASSUME IInv, NormalizeArgument
             PROVE  IInv'
  OBVIOUS
<1> DEFINE n == Len(stack)
           t == Top.args[Top.pos]
           f == NormalFrame(t, FALSE)
<1>1. /\ pc = "normalize" /\ stack # <<>> /\ Top.at = "args" /\ Top.pos \in Positions(Top.term)
      /\ Call(f) /\ UNCHANGED <<store, bank, sets, pc, cur, search>>
  BY DEF NormalizeArgument, Normalizing
<1>2. /\ Top \in NormalFrameType /\ NormalFrameOK(Top, bank, processed, cur.level)
      /\ n \in Nat \ {0} /\ NormalStack(stack, cur, bank, processed)
  BY <1>1, TopFacts, InNormalize
<1>3. t \in Term /\ HasCellIn(bank, t)
  BY <1>1, <1>2 DEF NormalFrameOK, RewrittenArgs
<1>4. /\ f \in NormalFrameType /\ f.at = "enter" /\ f.term = t /\ f.from = t
      /\ f.restricted = FALSE
  BY <1>3, ArgsFacts DEF NormalFrame, NormalFrameType
<1> HIDE DEF f
<1>5. NormalFrameOK(f, bank, processed, cur.level)
  BY <1>3, <1>4 DEF NormalFrameOK, Below
<1>6. /\ stack' \in Seq(NormalFrameType) /\ Len(stack') = n + 1 /\ stack' # <<>>
      /\ stack'[n + 1] = f /\ \A k \in 1..n : stack'[k] = stack[k]
  BY <1>1, <1>4, InNormalize, CallFacts DEF Call
<1>7. WaitsFor(Top, f)
  BY <1>1, <1>4 DEF WaitsFor
<1> HIDE DEF n
<1>8. ASSUME NEW k \in 1..(n + 1)
      PROVE  NormalFrameOK(stack'[k], bank, processed, cur.level)
  <2>1. CASE k = n + 1
    BY <1>5, <1>6, <2>1
  <2>2. CASE k # n + 1
    <3>1. k \in 1..n
      BY <1>2, <2>2
    <3> QED
      BY <1>2, <1>6, <3>1 DEF NormalStack, n
  <2> QED
    BY <2>1, <2>2
<1>9. ASSUME NEW k \in 1..n
      PROVE  WaitsFor(stack'[k], stack'[k + 1])
  <2>1. CASE k = n
    BY <1>2, <1>6, <1>7, <2>1 DEF Top, n
  <2>2. CASE k # n
    <3>1. k \in 1..(n - 1) /\ k + 1 \in 1..n
      BY <1>2, <2>2
    <3> QED
      BY <1>2, <1>6, <3>1 DEF NormalStack, n
  <2> QED
    BY <2>1, <2>2
<1>10. NormalStack(stack', cur, bank, processed)
  <2>1. stack'[1] = stack[1] /\ (n + 1) - 1 = n
    BY <1>2, <1>6
  <2> QED
    BY <1>1, <1>2, <1>6, <1>8, <1>9, <2>1 DEF NormalStack
<1>11. Grown(bank, bank, garbage_state)
  BY <1>1, InNormalize, GrownFacts
<1> QED
  BY <1>1, <1>6, <1>10, <1>11, InNormalize, NormalizeGrows, NormalizeStep

LEMMA TBInsertFacts ==
    ASSUME NEW b, GoodBank(b), NEW state \in BOOLEAN, NEW to \in Term
    PROVE  Grown(b, TBInsert(b, state, to), state) /\ HasCellIn(TBInsert(b, state, to), to)
<1> DEFINE one == {to}
<1>1. one \in SUBSET Term /\ to \in one
  OBVIOUS
<1> HIDE DEF one
<1>2. /\ Grown(b, InsertAll(b, state, one), state)
      /\ \A t \in one : HasCellIn(InsertAll(b, state, one), t)
  BY <1>1, InsertAllFacts
<1> QED
  BY <1>1, <1>2 DEF one, TBInsert

(* A cell is linked to a smaller term, which is inserted. *)
LEMMA InsertAndLink ==
    ASSUME NEW b, GoodBank(b), NEW state \in BOOLEAN, NEW t \in DOMAIN b, NEW to \in Term,
           Greater(t, to), NEW top \in BOOLEAN, NEW always \in BOOLEAN, TRUE \in {top, always}
    PROVE  Grown(b, AddRWLink(TBInsert(b, state, to), t, to, top, always), state)
<1> DEFINE b1 == TBInsert(b, state, to)
<1>1. Grown(b, b1, state) /\ HasCellIn(b1, to)
  BY TBInsertFacts
<1> HIDE DEF b1
<1>2. GoodBank(b1) /\ t \in DOMAIN b1
  BY <1>1 DEF Grown, Extends
<1>3. Grown(b1, AddRWLink(b1, t, to, top, always), state)
  BY <1>1, <1>2, LinkFacts
<1>4. Grown(b, AddRWLink(b1, t, to, top, always), state)
  BY <1>1, <1>3, GrownFacts
<1> QED
  BY <1>4 DEF b1

LEMMA SubtermsDoneStep == IInv /\ SubtermsDone => IInv'
<1> SUFFICES ASSUME IInv, SubtermsDone
             PROVE  IInv'
  OBVIOUS
<1> DEFINE t == Top.term
           sub == Top.args # ArgsOf(t)
           new == Rebuilt(t, Top.args)
           f == [Top EXCEPT !.term = new, !.at = "top", !.sub = sub, !.modified = sub]
<1>1. /\ pc = "normalize" /\ stack # <<>> /\ Top.at = "args" /\ Top.pos \notin Positions(t)
      /\ bank' = IF sub THEN AddRWLink(TBInsert(bank, garbage_state, new), t, new, FALSE, TRUE)
                  ELSE bank
      /\ Become(f) /\ UNCHANGED <<store, sets, pc, cur, search>>
  BY DEF SubtermsDone, Normalizing
<1>2. /\ Top \in NormalFrameType /\ t \in Term /\ Top.args \in Seq(Term) /\ Top.from \in Term
      /\ NormalFrameOK(Top, bank, processed, cur.level)
      /\ ~IsFreeVar(t) => t \in DOMAIN bank
      /\ GoodBank(bank) /\ garbage_state \in BOOLEAN
  BY <1>1, TopFacts, InNormalize
<1>3. /\ Top.pos \in 1..(Len(Top.args) + 1) /\ RewrittenArgs(t, Top.args)
      /\ \A i \in Positions(t) : i < Top.pos => IsNormal(Top.args[i], processed, cur.level)
      /\ Below(Top.from, t) /\ HasCellIn(bank, t) /\ cur.level # NoRewrite
  BY <1>1, <1>2 DEF NormalFrameOK
<1>4. \A i \in Positions(t) : i < Top.pos
  <2>1. Positions(t) = 1..Len(Top.args) /\ Len(Top.args) \in Nat
    BY <1>2, <1>3, ArgsFacts, LenProperties DEF RewrittenArgs
  <2> QED
    BY <1>1, <1>3, <2>1
<1>5. /\ new \in Term /\ ArgsOf(new) = Top.args
      /\ ~sub => new = t
      /\ sub => Greater(t, new)
  BY <1>2, <1>3, RebuiltFacts
<1>6. ArgsNormal(new, processed, cur.level)
  BY <1>3, <1>4, <1>5 DEF ArgsNormal, Positions, RewrittenArgs
<1>7. /\ f \in NormalFrameType /\ f.term = new /\ f.at = "top" /\ f.sub = sub /\ f.modified = sub
      /\ f.from = Top.from /\ f.restricted = Top.restricted
  BY <1>2, <1>5 DEF NormalFrameType
<1> HIDE DEF f, new, sub
<1>8. Grown(bank, bank', garbage_state) /\ HasCellIn(bank', new)
  <2>1. CASE sub
    <3> DEFINE top == FALSE
               always == TRUE
    <3>1. top \in BOOLEAN /\ always \in BOOLEAN /\ TRUE \in {top, always}
      OBVIOUS
    <3>2. bank' = AddRWLink(TBInsert(bank, garbage_state, new), t, new, top, always)
      BY <1>1, <2>1
    <3>3. t \in DOMAIN bank /\ Greater(t, new)
      BY <1>2, <1>5, <2>1, BelowFacts
    <3> HIDE DEF top, always, t
    <3>4. Grown(bank, AddRWLink(TBInsert(bank, garbage_state, new), t, new, top, always), garbage_state)
      BY <1>2, <1>5, <3>1, <3>3, InsertAndLink
    <3>5. HasCellIn(AddRWLink(TBInsert(bank, garbage_state, new), t, new, top, always), new)
      BY <1>2, <1>5, TBInsertFacts DEF AddRWLink, HasCellIn
    <3> QED
      BY <3>2, <3>4, <3>5
  <2>2. CASE ~sub
    BY <1>1, <1>2, <1>3, <1>5, <2>2, GrownFacts
  <2> QED
    BY <2>1, <2>2
<1>9. NormalFrameOK(f, bank', processed, cur.level)
  <2>1. Below(Top.from, new)
    BY <1>2, <1>3, <1>5, BelowFacts
  <2> QED
    BY <1>3, <1>6, <1>7, <1>8, <2>1 DEF NormalFrameOK
<1> QED
  BY <1>1, <1>7, <1>8, <1>9, NormalizeGrows, BecomeStep

(* No demodulator is found: there is none. *)
LEMMA TopIrreducible ==
    ASSUME IInv, pc = "normalize", cur.level # NoRewrite, NEW t \in DOMAIN bank,
           ~IsTopRewritten(bank, t), DemodulatorsFor(t, FALSE) = {}
    PROVE  TopNormal(t, processed, cur.level)
<1>1. /\ cur.level \in 1..2 /\ processed \in SUBSET ClauseType /\ set_date \in [1..2 -> Nat]
      /\ DemodDatesIn(processed, set_date) /\ TrueDates(bank, processed) /\ GoodBank(bank)
  BY InNormalize DEF NoRewrite
<1>2. t \in Term /\ ~IsFreeVar(t) /\ bank[t].nf_date \in [1..2 -> Nat]
  BY <1>1 DEF GoodBank, GoodCell, CellType
<1> SUFFICES ASSUME NEW j \in 1..cur.level, NEW d \in DemodsIn(processed, j),
                    TopRewrites(t, d) # {}
             PROVE  FALSE
  BY DEF TopNormal
<1>3. /\ j \in 1..2 /\ d.date \in Nat /\ 0 < d.date /\ d.date <= set_date[j] /\ set_date[j] \in Nat
  BY <1>1 DEF DemodDatesIn, DemodsIn, ClauseType
<1>4. ASSUME bank[t].replace = NoTerm, NEW i \in {j, cur.level}
      PROVE  bank[t].nf_date[i] < d.date
  <2>1. i \in 1..2 /\ j \in 1..i
    BY <1>1, <1>3
  <2>2. Reducible(t, d)
    BY <1>2, CellsFacts DEF Reducible
  <2>3. ~(d.date <= bank[t].nf_date[i])
    BY <1>1, <1>4, <2>1, <2>2 DEF TrueDates
  <2> QED
    BY <1>2, <1>3, <2>1, <2>3
<1>5. \A i \in {j, cur.level} : NFDate(bank, t, i) < d.date
  BY <1>2, <1>3, <1>4 DEF NFDate, IsRewritten
<1>6. d \in Demodulators(t, j, FALSE)
  BY <1>5 DEF Demodulators
<1>7. NFDate(bank, t, cur.level) < set_date[j]
  <2>1. NFDate(bank, t, cur.level) \in Nat
    BY <1>1, <1>2 DEF NFDate
  <2> QED
    BY <1>3, <1>5, <2>1
<1>8. HasDemodulator(t, j, FALSE)
  BY <1>6, <1>7 DEF HasDemodulator
<1>9. j = RuleRewrite \/ (j = FullRewrite /\ cur.level = FullRewrite)
  BY <1>1, <1>3 DEF RuleRewrite, FullRewrite
<1>10. DemodulatorsFor(t, FALSE) # {}
  BY <1>2, <1>6, <1>8, <1>9 DEF DemodulatorsFor, HasDemodulator
<1> QED
  BY <1>10

LEMMA RewriteTopStep == IInv /\ RewriteTop => IInv'
<1> SUFFICES ASSUME IInv, RewriteTop
             PROVE  IInv'
  OBVIOUS
<1> DEFINE t == Top.term
           limit == Limit(Top)
           f == [Top EXCEPT !.at = "chain"]
<1>1. /\ pc = "normalize" /\ stack # <<>> /\ Top.at = "top"
      /\ \/ DemodulatorsFor(t, limit) = {} /\ bank' = bank
         \/ \E d \in DemodulatorsFor(t, limit) : RewriteWith(d, t, limit)
      /\ Become(f) /\ UNCHANGED <<store, sets, pc, cur, search>>
  BY DEF RewriteTop, Normalizing
<1>2. /\ Top \in NormalFrameType /\ t \in Term /\ NormalFrameOK(Top, bank, processed, cur.level)
      /\ ~IsFreeVar(t) => t \in DOMAIN bank
      /\ GoodBank(bank) /\ garbage_state \in BOOLEAN /\ processed \in SUBSET ClauseType
  BY <1>1, TopFacts, InNormalize
<1>3. limit \in BOOLEAN /\ limit = (Top.restricted /\ ~Top.sub)
  BY <1>2 DEF Limit, NormalFrameType
<1>4. /\ f \in NormalFrameType /\ f.at = "chain" /\ f.term = t /\ f.sub = Top.sub
      /\ f.from = Top.from /\ f.restricted = Top.restricted /\ f.modified = Top.modified
  BY <1>2 DEF NormalFrameType
<1> HIDE DEF f
<1>5. /\ Below(f.from, f.term) /\ HasCellIn(bank, f.term) /\ cur.level # NoRewrite
      /\ ~f.modified => ~f.sub /\ ArgsNormal(f.term, processed, cur.level)
  BY <1>1, <1>2, <1>4 DEF NormalFrameOK
<1>6. CASE DemodulatorsFor(t, limit) = {} /\ bank' = bank
  <2>1. ~f.modified => \/ f.restricted \/ IsFreeVar(t) \/ IsTopRewritten(bank, t)
                       \/ TopNormal(t, processed, cur.level)
    <3> SUFFICES ASSUME ~f.modified, ~f.restricted, ~IsFreeVar(t), ~IsTopRewritten(bank, t)
                 PROVE  TopNormal(t, processed, cur.level)
      OBVIOUS
    <3>1. limit = FALSE /\ t \in DOMAIN bank
      BY <1>2, <1>3, <1>4
    <3> QED
      BY <1>1, <1>5, <1>6, <3>1, TopIrreducible
  <2>2. NormalFrameOK(f, bank', processed, cur.level)
    BY <1>4, <1>5, <1>6, <2>1 DEF NormalFrameOK
  <2>3. Grown(bank, bank', garbage_state)
    BY <1>2, <1>6, GrownFacts
  <2> QED
    BY <1>1, <1>4, <2>2, <2>3, NormalizeGrows, BecomeStep
<1>7. CASE \E d \in DemodulatorsFor(t, limit) : RewriteWith(d, t, limit)
  <2>1. PICK d \in DemodulatorsFor(t, limit) : RewriteWith(d, t, limit)
    BY <1>7
  <2>2. ~IsFreeVar(t) /\ d \in processed
    BY DEF DemodulatorsFor, Demodulators, DemodsIn
  <2>3. PICK rw \in TopRewrites(t, d) :
          bank' = AddRWLink(TBInsert(bank, garbage_state, rw.to), t, rw.to, TRUE, limit)
    BY <2>1 DEF RewriteWith
  <2> DEFINE to == rw.to
             top == TRUE
  <2>4. /\ to \in Term /\ Greater(t, to) /\ top \in BOOLEAN /\ TRUE \in {top, limit}
        /\ bank' = AddRWLink(TBInsert(bank, garbage_state, to), t, to, top, limit)
        /\ t \in DOMAIN bank
    BY <1>2, <2>2, <2>3, TopRewritesFacts
  <2> HIDE DEF to, limit
  <2>5. Grown(bank, bank', garbage_state)
    <3> HIDE DEF top, t
    <3>1. Grown(bank, AddRWLink(TBInsert(bank, garbage_state, to), t, to, top, limit), garbage_state)
      BY <1>2, <1>3, <2>4, InsertAndLink
    <3> QED
      BY <2>4, <3>1
  <2>6. IsTopRewritten(bank', t)
    <3> DEFINE b1 == TBInsert(bank, garbage_state, to)
    <3>1. Grown(bank, b1, garbage_state)
      BY <1>2, <2>4, TBInsertFacts
    <3>2. bank' = AddRWLink(b1, t, to, top, limit)
      BY <2>4
    <3> HIDE DEF b1
    <3>3. t \in DOMAIN b1 /\ b1[t] \in CellType
      BY <2>4, <3>1 DEF Grown, Extends, GoodBank, GoodCell
    <3>4. bank'[t].replace = to /\ bank'[t].top = TRUE
      BY <3>2, <3>3 DEF AddRWLink, CellType
    <3>5. to # NoTerm
      BY <2>4, TermAssumption
    <3> QED
      BY <2>2, <3>4, <3>5 DEF IsTopRewritten, IsRewritten
  <2>7. HasCellIn(bank', t)
    BY <2>4, <2>5 DEF Grown, Extends, HasCellIn
  <2>8. NormalFrameOK(f, bank', processed, cur.level)
    BY <1>4, <1>5, <2>6, <2>7 DEF NormalFrameOK
  <2> QED
    BY <1>1, <1>4, <2>5, <2>8, NormalizeGrows, BecomeStep
<1> QED
  BY <1>1, <1>6, <1>7

LEMMA ReturnNormalFormStep == IInv /\ ReturnNormalForm => IInv'
<1> SUFFICES ASSUME IInv, ReturnNormalForm
             PROVE  IInv'
  OBVIOUS
<1> DEFINE t == Top.term
           date == DemodDate(cur.level)
<1>1. /\ pc = "normalize" /\ stack # <<>> /\ Top.at = "chain" /\ ~CanFollow(Top) /\ ~Top.modified
      /\ bank' = DateNormalForm(bank, t, cur.level, Top.restricted)
      /\ ReturnNormal(t) /\ UNCHANGED <<store, sets, pc, search>>
  BY DEF ReturnNormalForm, Normalizing
<1>2. /\ Top \in NormalFrameType /\ t \in Term /\ NormalFrameOK(Top, bank, processed, cur.level)
      /\ ~IsFreeVar(t) => t \in DOMAIN bank
      /\ GoodBank(bank) /\ garbage_state \in BOOLEAN /\ processed \in SUBSET ClauseType
      /\ set_date \in [1..2 -> Nat] /\ TrueDates(bank, processed)
      /\ DatesUpTo(bank, DemodDate(FullRewrite)) /\ DemodDatesIn(processed, set_date)
      /\ cur.level \in 0..2
  BY <1>1, TopFacts, InNormalize
<1>3. /\ cur.level # NoRewrite /\ cur.level \in 1..2 /\ ArgsNormal(t, processed, cur.level)
      /\ Top.restricted \/ IsFreeVar(t) \/ IsTopRewritten(bank, t) \/ TopNormal(t, processed, cur.level)
  BY <1>1, <1>2 DEF NormalFrameOK, NoRewrite
<1>4. ASSUME ~Top.restricted
      PROVE  IsNormal(t, processed, cur.level)
  <2>1. ~IsTopRewritten(bank, t)
    BY <1>1, <1>3, <1>4 DEF CanFollow, Limit
  <2> QED
    BY <1>2, <1>3, <1>4, <2>1, NormalFacts
<1>5. /\ GoodBank(bank') /\ Extends(bank, bank', garbage_state)
      /\ DatesUpTo(bank', DemodDate(FullRewrite)) /\ TrueDates(bank', processed)
  <2>1. CASE IsFreeVar(t) \/ IsRewritten(bank, t) \/ Top.restricted
    <3>1. bank' = bank
      BY <1>1, <2>1 DEF DateNormalForm
    <3> QED
      BY <1>2, <3>1, GrownFacts DEF Grown
  <2>2. CASE ~(IsFreeVar(t) \/ IsRewritten(bank, t) \/ Top.restricted)
    <3> DEFINE dates == IF cur.level = FullRewrite THEN <<date, date>>
                        ELSE [bank[t].nf_date EXCEPT ![RuleRewrite] = date]
    <3>1. t \in DOMAIN bank /\ bank[t].nf_date \in [1..2 -> Nat]
      BY <1>2, <2>2 DEF GoodBank, GoodCell, CellType
    <3>2. date \in Nat /\ date <= DemodDate(FullRewrite)
      BY <1>2, <1>3, DemodDateFacts
    <3>3. bank' = [bank EXCEPT ![t].nf_date = dates]
      <4>1. bank' = [bank EXCEPT ![t].nf_date =
                       IF cur.level = FullRewrite THEN <<date, date>>
                       ELSE [@ EXCEPT ![RuleRewrite] = date]]
        BY <1>1, <2>2 DEF DateNormalForm
      <4> QED
        BY <3>1, <4>1
    <3>4. /\ dates \in [1..2 -> Nat]
          /\ \A i \in 1..2 : (dates[i] = date /\ i <= cur.level) \/ dates[i] = bank[t].nf_date[i]
      <4> HIDE DEF date
      <4>1. CASE cur.level = FullRewrite
        <5>1. dates = <<date, date>>
          BY <4>1
        <5>2. cur.level = 2
          BY <4>1 DEF FullRewrite
        <5> HIDE DEF dates
        <5> QED
          BY <3>2, <5>1, <5>2
      <4>2. CASE cur.level # FullRewrite
        <5>1. dates = [bank[t].nf_date EXCEPT ![1] = date] /\ cur.level = 1
          BY <1>3, <4>2 DEF RuleRewrite, FullRewrite
        <5> HIDE DEF dates
        <5> QED
          BY <3>1, <3>2, <5>1
      <4> QED
        BY <4>1, <4>2
    <3> HIDE DEF dates, date
    <3>5. \A i \in 1..2 : dates[i] <= DemodDate(FullRewrite)
      BY <1>2, <3>1, <3>2, <3>4 DEF DatesUpTo
    <3>6. ASSUME bank[t].replace = NoTerm, NEW i \in 1..2, NEW j \in 1..i,
                 NEW d \in DemodsIn(processed, j), d.date <= dates[i]
          PROVE  ~Reducible(t, d)
      <4>1. CASE dates[i] = date /\ i <= cur.level
        <5>1. j \in 1..cur.level
          BY <1>3, <4>1
        <5> QED
          BY <1>2, <1>4, <2>2, <5>1, NormalFacts
      <4>2. CASE dates[i] = bank[t].nf_date[i]
        BY <1>2, <3>1, <3>6, <4>2 DEF TrueDates
      <4> QED
        BY <3>4, <4>1, <4>2
    <3>7. GoodBank(bank') /\ Extends(bank, bank', garbage_state)
      BY <1>2, <3>1, <3>3, <3>4, DateFacts
    <3>8. TrueDates(bank', processed) /\ DatesUpTo(bank', DemodDate(FullRewrite))
      BY <1>2, <3>1, <3>3, <3>4, <3>5, <3>6, DatesSet
    <3> QED
      BY <3>7, <3>8
  <2> QED
    BY <2>1, <2>2
<1> QED
  BY <1>1, <1>3, <1>4, <1>5, ReturnNormalStep

LEMMA TermStepInv == IInv /\ TermStep => IInv'
BY FollowLinkStep, ReturnAtOnceStep, StartRoundStep, NormalizeArgumentStep, SubtermsDoneStep,
   RewriteTopStep, NextRoundStep, ReturnNormalFormStep DEF TermStep

----------------------------------------------------------------------------
(* Steps of the main loop *)

LEMMA NotInSearch ==
    ASSUME IInv, pc \in {"loop", "normalize"}
    PROVE  /\ GoodBank(bank) /\ TrueDates(bank, processed) /\ FlagsAre(bank, garbage_state)
           /\ DatesUpTo(bank, DemodDate(FullRewrite)) /\ SetsType
           /\ processed \in SUBSET ClauseType /\ set_date \in [1..2 -> Nat] /\ garbage_state \in BOOLEAN
           /\ DemodDatesIn(processed, set_date) /\ Interreduced
           /\ searched = Nothing /\ todo = {} /\ found = {}
           /\ \A t \in Roots : HasCellIn(bank, t)
<1>1. searched = Nothing /\ todo = {} /\ found = {}
  BY DEF IInv, PhaseType, Idle
<1>2. DatesUpTo(bank, DemodDate(FullRewrite))
  BY DEF IInv, Today
<1> QED
  BY <1>1, <1>2 DEF IInv, SetsType, ClausesHaveCells

(* Back in the loop, after a step that lets clauses come and go. *)
LEMMA LoopStep ==
    ASSUME IInv, pc \in {"loop", "normalize"}, pc' = "loop", Idle', todo' = {},
           UNCHANGED <<problem, garbage_state, gcs, set_date>>,
           Grown(bank, bank', garbage_state), processed' \subseteq processed,
           unprocessed' \subseteq ClauseType, tmp_store' \subseteq ClauseType, archive' \subseteq Term,
           later' \subseteq Axiom,
           \A t \in Roots' : HasCellIn(bank', t)
    PROVE  IInv'
<1>1. /\ GoodBank(bank') /\ TrueDates(bank', processed) /\ DatesUpTo(bank', DemodDate(FullRewrite))
      /\ FlagsAre(bank', garbage_state)
  BY NotInSearch, DatesGrow, DemodDateFacts, GrownFacts DEF Grown
<1>2. \A i : DemodsIn(processed', i) \subseteq DemodsIn(processed, i)
  BY DEF DemodsIn
<1>3. SetsType'
  BY NotInSearch DEF SetsType
<1>4. PhaseType'
  BY DEF PhaseType
<1>5. ClausesHaveCells'
  <2>1. InWork' = {}
    BY DEF InWork, Idle
  <2> QED
    BY <2>1 DEF ClausesHaveCells, TermsOf
<1>6. DemodDatesIn(processed, set_date)'
  BY <1>2, NotInSearch DEF DemodDatesIn
<1>7. DatesUpTo(bank, Today)'
  BY <1>1 DEF Today, DemodDate
<1>8. TrueDates(bank, processed)'
  BY <1>1, <1>2 DEF TrueDates
<1>9. Interreduced'
  BY NotInSearch DEF Interreduced, OthersOf
<1>10. NormalInv' /\ SearchInv' /\ MarkInv'
  BY DEF NormalInv, SearchInv, MarkInv
<1> QED
  BY <1>1, <1>3, <1>4, <1>5, <1>6, <1>7, <1>8, <1>9, <1>10 DEF IInv

(* A clause is taken, and its normal form is computed. *)
LEMMA StartPassStep ==
    ASSUME IInv, pc \in {"loop", "normalize"}, NEW c \in ClauseType, NEW level \in 0..2,
           NEW job \in {"given", "victim", "new"}, StartPass(c, level, job),
           job = "given" => level = FullRewrite,
           HasCellIn(bank, c.l), HasCellIn(bank, c.r),
           UNCHANGED <<store, bank, set_date, processed, archive, search>>,
           unprocessed' \subseteq unprocessed, tmp_store' \subseteq tmp_store
    PROVE  IInv'
<1> USE DEF store, search
<1> DEFINE f == NormalFrame(c.l, c.limited /\ RestrictedSide(c))
<1>1. /\ pc' = "normalize" /\ stack' = <<f>>
      /\ cur' = [clause |-> c, old |-> c, level |-> level, side |-> "left", job |-> job]
  BY DEF StartPass
<1>2. c.l \in Term /\ c.limited \in BOOLEAN /\ c.positive \in BOOLEAN /\ Greater(c.l, c.r) \in BOOLEAN
  BY OrderingAssumption DEF ClauseType
<1>3. /\ f \in NormalFrameType /\ f.at = "enter" /\ f.term = c.l /\ f.from = c.l
      /\ f.restricted = IsLeftRestricted(c)
  BY <1>2, ArgsFacts DEF NormalFrame, NormalFrameType, IsLeftRestricted, RestrictedSide, Oriented
<1> HIDE DEF f
<1>4. /\ cur' \in JobType /\ cur'.clause = c /\ cur'.old = c /\ cur'.level = level
      /\ cur'.side = "left" /\ cur'.job = job
  BY <1>1 DEF JobType
<1>5. stack' \in Seq(NormalFrameType) /\ stack' # <<>>
  BY <1>1, <1>3, OneFrame
<1>6. NormalFrameOK(f, bank, processed, level)
  BY <1>3 DEF NormalFrameOK, Below
<1>7. NormalStack(stack', cur', bank, processed)
  <2>1. f.restricted = (cur'.side = "left" /\ IsLeftRestricted(cur'.old))
    BY <1>2, <1>3, <1>4 DEF IsLeftRestricted, RestrictedSide, Oriented
  <2> QED
    BY <1>1, <1>3, <1>4, <1>6, <2>1, OneNormalFrame
<1>8. JobOK(cur', processed)
  BY <1>4 DEF JobOK, ClauseType
<1>9. SetsType' /\ PhaseType'
  BY <1>1, <1>4, <1>5, NotInSearch DEF SetsType, PhaseType
<1>10. ClausesHaveCells'
  <2>1. Roots' \subseteq Roots
    BY DEF Roots, TermsOf
  <2>2. InWork' = {c}
    BY <1>4 DEF InWork, JobType, Nothing
  <2> QED
    BY <2>1, <2>2, NotInSearch DEF ClausesHaveCells, TermsOf
<1>11. DatesUpTo(bank, Today)'
  BY <1>1, NotInSearch DEF Today, DemodDate
<1>12. Interreduced'
  BY NotInSearch DEF Interreduced, OthersOf
<1>13. NormalInv' /\ SearchInv' /\ MarkInv'
  BY <1>1, <1>7, <1>8 DEF NormalInv, SearchInv, MarkInv
<1> QED
  BY <1>1, <1>9, <1>10, <1>11, <1>12, <1>13, NotInSearch DEF IInv

(* What is contracted *)
LEMMA ResultFacts ==
    ASSUME IInv, SidesDone
    PROVE  /\ pc = "normalize" /\ cur.clause \in ClauseType /\ cur \in JobType
           /\ Result \in ClauseType /\ HasCellIn(bank, Result.l) /\ HasCellIn(bank, Result.r)
           /\ HasCellIn(bank, cur.clause.l) /\ HasCellIn(bank, cur.clause.r)
<1>1. pc = "normalize"
  BY DEF SidesDone
<1>2. /\ cur.clause \in ClauseType /\ cur \in JobType
      /\ HasCellIn(bank, cur.clause.l) /\ HasCellIn(bank, cur.clause.r)
  BY <1>1, InNormalize
<1> QED
  BY <1>1, <1>2, OrientFacts DEF Result

(* It is in normal form, where it is not restricted. *)
LEMMA ResultIsClean ==
    ASSUME IInv, Contracted("given")
    PROVE  CleanForAll(UnrestrictedCells(Result), processed)
<1> DEFINE c == cur.clause
           old == cur.old
<1>1. /\ c \in ClauseType /\ old \in ClauseType /\ JobOK(cur, processed)
      /\ cur.side = "done" /\ cur.job = "given" /\ ~TryAgain /\ processed \in SUBSET ClauseType
  BY InNormalize DEF Contracted, SidesDone
<1>2. /\ LeftOK(cur, processed) /\ RightOK(cur, processed) /\ cur.level = 2
      /\ c = [old EXCEPT !.l = c.l, !.r = c.r]
  BY <1>1 DEF JobOK, FullRewrite
<1>3. /\ c.l \in Term /\ c.r \in Term /\ old.l \in Term /\ old.r \in Term
      /\ c.positive = old.positive /\ c.limited = old.limited
  BY <1>1, <1>2 DEF ClauseType
<1>4. ASSUME NEW s, TopNormal(s, processed, 2), NEW d \in processed, IsDemodulator(d)
      PROVE  TopRewrites(s, d) = {}
  <2>1. SetOf(d) \in 1..2 /\ d \in DemodsIn(processed, SetOf(d))
    BY <1>4 DEF SetOf, DemodsIn, RuleRewrite, FullRewrite
  <2> QED
    BY <1>4, <2>1 DEF TopNormal
<1>5. Result \in ClauseType /\ Cells(Result.l) \cup Cells(Result.r) = Cells(c.l) \cup Cells(c.r)
  BY <1>1, OrientFacts DEF Result
<1>6. IsNormal(c.r, processed, 2)
  BY <1>2 DEF RightOK
<1>7. CASE IsLeftRestricted(old)
  <2>1. Greater(old.l, old.r) /\ c.l = old.l /\ c.positive /\ old.limited
    BY <1>1, <1>3, <1>7 DEF IsLeftRestricted, RestrictedSide, Oriented, TryAgain, MaxSideChanged
  <2>2. Greater(c.l, c.r)
    BY <1>2, <1>3, <2>1, BelowFacts DEF RightOK
  <2>3. Result = c /\ RestrictedSide(Result)
    BY <1>1, <1>3, <2>1, <2>2, OrderingAssumption DEF Result, Orient, RestrictedSide, Oriented
  <2>4. ArgsNormal(c.l, processed, 2)
    BY <1>2, <1>7, <2>1 DEF LeftOK
  <2>5. ASSUME NEW s \in UnrestrictedCells(Result)
        PROVE  TopNormal(s, processed, 2)
    <3>1. s \in Cells(c.l) \cup Cells(c.r) /\ s # c.l
      BY <2>3 DEF UnrestrictedCells
    <3>2. CASE s \in Cells(c.r)
      BY <1>6, <3>2 DEF IsNormal
    <3>3. CASE s \in Cells(c.l)
      <4>1. PICK i \in Positions(c.l) : s \in Cells(ArgsOf(c.l)[i])
        BY <1>3, <3>1, <3>3, CellsFacts
      <4> QED
        BY <2>4, <4>1 DEF ArgsNormal, IsNormal
    <3> QED
      BY <3>1, <3>2, <3>3
  <2> QED
    BY <1>4, <2>5 DEF CleanForAll, Clean
<1>8. CASE ~IsLeftRestricted(old)
  <2>1. IsNormal(c.l, processed, 2)
    BY <1>2, <1>8 DEF LeftOK
  <2>2. \A s \in UnrestrictedCells(Result) : TopNormal(s, processed, 2)
    BY <1>5, <1>6, <2>1 DEF UnrestrictedCells, IsNormal
  <2> QED
    BY <1>4, <2>2 DEF CleanForAll, Clean
<1> QED
  BY <1>7, <1>8

(* What is in the index is unrestricted: the bigger side is in no other. *)
LEMMA IndexedFacts ==
    ASSUME NEW c \in ClauseType
    PROVE  IndexedFull(c) \subseteq UnrestrictedCells(c)
<1> SUFFICES ASSUME NEW s \in IndexedFull(c)
             PROVE  s \in UnrestrictedCells(c)
  OBVIOUS
<1>1. c.l \in Term /\ c.r \in Term /\ ~IsFreeVar(s)
  BY DEF ClauseType, IndexedFull
<1>2. \/ s = c.r
      \/ \E i \in Positions(c.r) : s = ArgsOf(c.r)[i]
      \/ \E i \in Positions(c.l) : s = ArgsOf(c.l)[i]
      \/ s = c.l /\ ~RestrictedSide(c)
  BY DEF IndexedFull, ArgSet
<1>3. s \in Term /\ s \in Cells(c.l) \cup Cells(c.r)
  <2>1. CASE s = c.r \/ s = c.l
    BY <1>1, <2>1, CellsFacts
  <2>2. CASE \E i \in Positions(c.r) : s = ArgsOf(c.r)[i]
    BY <1>1, <2>2, CellsFacts, ArgsFacts
  <2>3. CASE \E i \in Positions(c.l) : s = ArgsOf(c.l)[i]
    BY <1>1, <2>3, CellsFacts, ArgsFacts
  <2> QED
    BY <1>2, <2>1, <2>2, <2>3
<1>4. RestrictedSide(c) => s # c.l
  <2> SUFFICES ASSUME RestrictedSide(c)
               PROVE  Greater(c.l, s)
    BY <1>1, OrderingAssumption
  <2>1. Greater(c.l, c.r)
    BY DEF RestrictedSide, Oriented
  <2>2. CASE \E i \in Positions(c.r) : s = ArgsOf(c.r)[i]
    <3>1. Greater(c.r, s)
      BY <1>1, <2>2, ArgsFacts
    <3> QED
      BY <1>1, <1>3, <2>1, <3>1, OrderingAssumption
  <2> QED
    BY <1>1, <1>2, <2>1, <2>2, ArgsFacts
<1> QED
  BY <1>3, <1>4 DEF UnrestrictedCells

(* The given clause enters processed, and what it rewrites leaves. *)
LEMMA ActivateStep ==
    ASSUME IInv, pc \in {"normalize", "search"}, NEW given \in ClauseType, NEW b, NEW victims,
           victims \subseteq processed, HasCellIn(bank, given.l), HasCellIn(bank, given.r),
           GoodBank(b), Extends(bank, b, garbage_state), TrueDates(b, processed),
           DatesUpTo(b, IF IsDemodulator(given) THEN SearchDate ELSE DemodDate(FullRewrite)),
           IsDemodulator(given) => TrueSearchDates(b, given, SearchDate),
           CleanForAll(Kept(given, problem.indexed), processed),
           IsDemodulator(given) =>
              \A c \in processed \ victims : Clean(Kept(c, problem.indexed), given),
           Activate(given, b, victims)
    PROVE  IInv'
<1> DEFINE date == IF IsDemodulator(given) THEN NextDate ELSE DemodDate(FullRewrite)
           new == [given EXCEPT !.date = date, !.limited = TRUE]
<1>1. /\ bank' = FlagRule(b, given)
      /\ set_date' = IF IsDemodulator(given) THEN [set_date EXCEPT ![SetOf(given)] = date] ELSE set_date
      /\ archive' = archive \cup TermsOf(victims) /\ tmp_store' = victims
      /\ processed' = (processed \ victims) \cup {new}
      /\ pc' = "loop" /\ cur' = Nothing /\ stack' = <<>> /\ searched' = Nothing
      /\ todo' = {} /\ found' = {}
      /\ UNCHANGED <<problem, garbage_state, later, gcs, unprocessed, discards>>
  BY DEF Activate, EndJob, store
<1>2. /\ SetsType /\ set_date \in [1..2 -> Nat] /\ processed \subseteq ClauseType
      /\ DemodDatesIn(processed, set_date)
      /\ garbage_state \in BOOLEAN /\ GoodBank(bank) /\ Interreduced
      /\ \A t \in Roots : HasCellIn(bank, t)
      /\ FlagsAre(bank, garbage_state)
  BY DEF IInv, SetsType, ClausesHaveCells
<1>3. /\ given.l \in Term /\ given.r \in Term
      /\ \A level : DemodDate(level) \in Nat
      /\ NextDate = DemodDate(FullRewrite) + 1 /\ SearchDate = NextDate /\ NextDate \in Nat
      /\ \A i \in 1..2 : set_date[i] \in Nat /\ set_date[i] <= DemodDate(FullRewrite)
  BY <1>2, DemodDateFacts DEF ClauseType, FullRewrite
<1>4. /\ new \in ClauseType /\ new.l = given.l /\ new.r = given.r /\ new.positive = given.positive
      /\ new.date = date
  BY <1>3 DEF ClauseType
<1>5. SetOf(new) = SetOf(given) /\ SetOf(given) \in 1..2
  BY <1>4 DEF SetOf, Oriented, RuleRewrite, FullRewrite
<1> HIDE DEF new
<1>6. Grown(b, bank', garbage_state)
  <2>1. CASE IsDemodulator(given) /\ Oriented(given)
    <3>1. given.l \in DOMAIN b
      BY <1>3, <2>1, BelowFacts DEF Oriented, HasCellIn, Extends
    <3>2. Limited \in {Limited, Always}
      OBVIOUS
    <3>3. Grown(b, Flag(b, given.l, Limited), garbage_state)
      BY <3>1, <3>2, FlagFacts
    <3> QED
      BY <1>1, <2>1, <3>3 DEF FlagRule
  <2>2. CASE ~(IsDemodulator(given) /\ Oriented(given))
    BY <1>1, <2>2, GrownFacts DEF FlagRule
  <2> QED
    BY <2>1, <2>2
<1>7. /\ GoodBank(bank') /\ TrueDates(bank', processed)
      /\ DatesUpTo(bank', date)
      /\ IsDemodulator(given) => TrueSearchDates(bank', given, NextDate)
  <2>1. date \in Nat /\ DatesUpTo(b, date)
    BY <1>3
  <2>2. NextDate \in Nat \ {0}
    BY <1>3
  <2> HIDE DEF date
  <2> QED
    BY <1>2, <1>3, <1>6, <2>1, <2>2, DatesGrow DEF Grown
<1>8. \A t : HasCellIn(bank, t) => HasCellIn(bank', t)
  BY <1>2, <1>6, GrownFacts DEF Grown
<1>9. FlagsAre(bank', garbage_state)
  BY <1>2, <1>6, GrownFacts DEF Grown
<1>10. set_date' \in [1..2 -> Nat]
  BY <1>1, <1>2, <1>3, <1>5
<1>11. SetsType'
  BY <1>1, <1>2, <1>4, <1>10 DEF SetsType, TermsOf, ClauseType
<1>12. PhaseType'
  BY <1>1 DEF PhaseType, Idle
<1>13. ClausesHaveCells'
  <2>1. InWork' = {}
    BY <1>1 DEF InWork
  <2>2. Roots' \subseteq Roots \cup {given.l, given.r}
    BY <1>1, <1>4 DEF Roots, TermsOf
  <2> QED
    BY <1>2, <1>8, <2>1, <2>2 DEF ClausesHaveCells, TermsOf
<1>14. \A i \in 1..2 : set_date[i] <= set_date'[i]
  BY <1>1, <1>2, <1>3, <1>5
<1>15. \A i, d : d \in DemodsIn(processed', i) =>
         d \in DemodsIn(processed, i) \/ (d = new /\ IsDemodulator(given) /\ i = SetOf(given))
  BY <1>1, <1>4, <1>5 DEF DemodsIn, IsDemodulator
<1>16. DemodDatesIn(processed', set_date')
  <2> SUFFICES ASSUME NEW i \in 1..2, NEW d \in DemodsIn(processed', i)
               PROVE  0 < d.date /\ d.date <= set_date'[i]
    BY DEF DemodDatesIn
  <2>1. CASE d \in DemodsIn(processed, i)
    <3>1. 0 < d.date /\ d.date <= set_date[i] /\ d.date \in Nat
      BY <1>2, <2>1 DEF DemodDatesIn, DemodsIn, ClauseType
    <3>2. set_date[i] \in Nat /\ set_date'[i] \in Nat
      BY <1>3, <1>10
    <3> QED
      BY <1>14, <3>1, <3>2
  <2>2. CASE d = new /\ IsDemodulator(given) /\ i = SetOf(given)
    <3>1. set_date'[i] = date /\ d.date = date
      BY <1>1, <1>2, <1>4, <2>2
    <3> QED
      BY <1>3, <2>2, <3>1
  <2> QED
    BY <1>15, <2>1, <2>2
<1>17. DemodDate(FullRewrite)' = date
  <2>1. CASE IsDemodulator(given)
    <3>1. /\ set_date'[SetOf(given)] = date /\ date = NextDate
          /\ \A i \in 1..2 : i # SetOf(given) => set_date'[i] = set_date[i]
      BY <1>1, <1>2, <1>5, <2>1
    <3> HIDE DEF date
    <3> QED
      BY <1>3, <1>5, <3>1 DEF DemodDate, RuleRewrite, FullRewrite
  <2>2. CASE ~IsDemodulator(given)
    BY <1>1, <2>2 DEF DemodDate
  <2> QED
    BY <2>1, <2>2
<1>18. DatesUpTo(bank, Today)'
  BY <1>1, <1>7, <1>17 DEF Today
<1>19. TrueDates(bank', processed')
  <2> SUFFICES ASSUME NEW t \in DOMAIN bank', bank'[t].replace = NoTerm, NEW i \in 1..2, NEW j \in 1..i,
                      NEW d \in DemodsIn(processed', j), d.date <= bank'[t].nf_date[i]
               PROVE  ~Reducible(t, d)
    BY DEF TrueDates
  <2>1. CASE d \in DemodsIn(processed, j)
    BY <1>7, <2>1 DEF TrueDates
  <2>2. CASE d = new /\ IsDemodulator(given)
    <3>1. bank'[t].nf_date[i] \in Nat
      BY <1>7 DEF GoodBank, GoodCell, CellType
    <3>2. bank'[t].nf_date[i] <= NextDate /\ NextDate <= bank'[t].nf_date[i]
      BY <1>4, <1>7, <2>2 DEF DatesUpTo
    <3>3. ~Reducible(t, given)
      BY <1>3, <1>7, <2>2, <3>1, <3>2 DEF TrueSearchDates
    <3> QED
      BY <1>4, <2>2, <3>3, SameSides DEF Reducible
  <2> QED
    BY <1>15, <2>1, <2>2
<1>20. Interreduced'
  <2>1. Kept(new, problem.indexed) = Kept(given, problem.indexed)
    BY <1>4 DEF Kept, IndexedFull, UnrestrictedCells, RestrictedSide, Oriented
  <2> SUFFICES ASSUME NEW c \in processed', NEW d \in processed' \ {c}, IsDemodulator(d),
                      NEW s \in Kept(c, problem.indexed)
               PROVE  TopRewrites(s, d) = {}
    BY <1>1 DEF Interreduced, OthersOf, Kept
  <2>2. CASE d # new
    <3>1. CASE c = new
      BY <1>1, <2>1, <2>2, <3>1 DEF CleanForAll, Clean
    <3>2. CASE c # new
      BY <1>1, <1>2, <2>2, <3>2 DEF Interreduced, OthersOf, Kept
    <3> QED
      BY <3>1, <3>2
  <2>3. CASE d = new
    <3>1. IsDemodulator(given) /\ c \in processed \ victims
      BY <1>1, <1>4, <2>3 DEF IsDemodulator
    <3>2. TopRewrites(s, given) = {}
      BY <3>1 DEF Clean
    <3> QED
      BY <1>4, <2>3, <3>2, SameSides
  <2> QED
    BY <2>2, <2>3
<1>21. NormalInv' /\ SearchInv' /\ MarkInv'
  BY <1>1 DEF NormalInv, SearchInv, MarkInv
<1> QED
  BY <1>1, <1>7, <1>9, <1>11, <1>12, <1>13, <1>16, <1>18, <1>19, <1>20, <1>21 DEF IInv

LEMMA ProcessNegativeStep == IInv /\ ProcessNegative => IInv'
<1> SUFFICES ASSUME IInv, ProcessNegative
             PROVE  IInv'
  OBVIOUS
<1>1. /\ Contracted("given") /\ SidesDone /\ ~IsDemodulator(Result) /\ Activate(Result, bank, {})
  BY DEF ProcessNegative, Contracted
<1>2. /\ pc = "normalize" /\ Result \in ClauseType
      /\ HasCellIn(bank, Result.l) /\ HasCellIn(bank, Result.r)
  BY <1>1, ResultFacts
<1>3. CleanForAll(Kept(Result, problem.indexed), processed)
  BY <1>1, <1>2, ResultIsClean, IndexedFacts DEF CleanForAll, Clean, Kept
<1>4. /\ Grown(bank, bank, garbage_state) /\ TrueDates(bank, processed)
      /\ DatesUpTo(bank, DemodDate(FullRewrite))
  BY <1>2, NotInSearch, GrownFacts
<1> QED
  BY <1>1, <1>2, <1>3, <1>4, ActivateStep DEF Grown

LEMMA ProcessWithIndexStep == IInv /\ ProcessWithIndex => IInv'
<1> SUFFICES ASSUME IInv, ProcessWithIndex
             PROVE  IInv'
  OBVIOUS
<1> DEFINE given == Result
           terms == IndexedTerms(given)
           victims == FoundByIndex(given)
<1>1. /\ Contracted("given") /\ SidesDone /\ IsDemodulator(given) /\ problem.indexed
  BY DEF ProcessWithIndex, Contracted
<1>2. PICK rw \in [terms -> UNION {TopRewrites(t, given) : t \in terms}] :
        /\ \A t \in terms : rw[t] \in TopRewrites(t, given)
        /\ Activate(given, FlagAndLinkAll(terms, rw), victims)
  BY DEF ProcessWithIndex
<1>3. /\ pc = "normalize" /\ given \in ClauseType
      /\ HasCellIn(bank, given.l) /\ HasCellIn(bank, given.r)
  BY <1>1, ResultFacts
<1>4. CleanForAll(Kept(given, problem.indexed), processed)
  BY <1>1, <1>3, ResultIsClean, IndexedFacts DEF CleanForAll, Clean, Kept
<1> HIDE DEF given
<1>5. /\ GoodBank(bank) /\ TrueDates(bank, processed) /\ processed \in SUBSET ClauseType
      /\ DatesUpTo(bank, DemodDate(FullRewrite)) /\ garbage_state \in BOOLEAN
      /\ set_date \in [1..2 -> Nat] /\ DemodDatesIn(processed, set_date)
      /\ \A t \in Roots : HasCellIn(bank, t)
  BY <1>3, NotInSearch
<1>6. ASSUME NEW t \in terms
      PROVE  t \in DOMAIN bank /\ t \in Term
  <2>1. PICK c \in processed : t \in IndexedFull(c) \cup IndexedRest(c)
    BY DEF IndexedTerms
  <2>2. c \in ClauseType /\ c.l \in Term /\ c.r \in Term /\ c.l \in Roots /\ c.r \in Roots
    BY <1>5 DEF ClauseType, Roots, TermsOf
  <2>3. Cells(c.l) \cup Cells(c.r) \subseteq DOMAIN bank
    <3>1. \A s \in Term : HasCellIn(bank, s) => Cells(s) \subseteq DOMAIN bank
      BY <1>5, CellsFacts DEF HasCellIn, GoodBank, GoodCell
    <3> QED
      BY <1>5, <2>2, <3>1
  <2>4. CASE t \in IndexedFull(c)
    BY <2>2, <2>3, <2>4, IndexedFacts, CellsFacts DEF UnrestrictedCells
  <2>5. CASE t \in IndexedRest(c)
    <3>1. t = c.l /\ Greater(c.l, c.r)
      BY <2>5 DEF IndexedRest, RestrictedSide, Oriented
    <3>2. t \in Cells(c.l)
      BY <2>2, <3>1, BelowFacts, CellsFacts
    <3> QED
      BY <2>2, <2>3, <3>1, <3>2
  <2> QED
    BY <2>1, <2>4, <2>5
<1> DEFINE b == FlagAndLinkAll(terms, rw)
<1>7. Grown(bank, b, garbage_state)
  <2>1. terms \in SUBSET DOMAIN bank
    BY <1>6
  <2>2. \A t \in terms : rw[t].to \in Term /\ Greater(t, rw[t].to) /\ rw[t].proper \in BOOLEAN
    BY <1>2, <1>3, <1>6, TopRewritesFacts
  <2> HIDE DEF terms
  <2> QED
    BY <1>5, <2>1, <2>2, FlagAndLinkAllFacts
<1> HIDE DEF b, terms
<1>8. GoodBank(b) /\ TrueDates(b, processed) /\ DatesUpTo(b, DemodDate(FullRewrite))
  BY <1>5, <1>7, DatesGrow, DemodDateFacts DEF Grown
<1>9. DatesUpTo(b, SearchDate) /\ TrueSearchDates(b, given, SearchDate)
  <2>1. \A t \in DOMAIN b : \A i \in 1..2 : b[t].nf_date[i] \in Nat
    BY <1>8 DEF GoodBank, GoodCell, CellType
  <2>2. \A t \in DOMAIN b : \A i \in 1..2 : b[t].nf_date[i] < SearchDate
    BY <1>5, <1>8, <2>1, DemodDateFacts DEF DatesUpTo
  <2>3. SearchDate \in Nat
    BY <1>5, DemodDateFacts
  <2> QED
    BY <2>1, <2>2, <2>3 DEF DatesUpTo, TrueSearchDates
<1>10. victims \subseteq processed
  BY DEF FoundByIndex
<1>11. \A c \in processed \ victims : Clean(Kept(c, problem.indexed), given)
  BY <1>1 DEF FoundByIndex, Clean, Kept
<1>12. Activate(given, b, victims)
  BY <1>2 DEF b
<1> HIDE DEF victims
<1> QED
  BY <1>1, <1>3, <1>4, <1>7, <1>8, <1>9, <1>10, <1>11, <1>12, ActivateStep DEF Grown

LEMMA KeepResult ==
    ASSUME IInv, SidesDone, pc' = "loop", Idle', todo' = {},
           UNCHANGED <<store, bank, set_date, processed, archive>>, tmp_store' = tmp_store,
           unprocessed' \subseteq unprocessed \cup {Result}
    PROVE  IInv'
<1>1. /\ pc = "normalize" /\ Result \in ClauseType
      /\ HasCellIn(bank, Result.l) /\ HasCellIn(bank, Result.r)
  BY ResultFacts
<1>2. Grown(bank, bank, garbage_state)
  BY <1>1, NotInSearch, GrownFacts
<1>3. \A t \in Roots' : HasCellIn(bank, t)
  <2>1. Roots' \subseteq Roots \cup {Result.l, Result.r}
    BY DEF Roots, TermsOf
  <2> QED
    BY <1>1, <2>1, NotInSearch
<1>4. /\ unprocessed' \subseteq ClauseType /\ tmp_store \subseteq ClauseType /\ archive \subseteq Term
      /\ later \subseteq Axiom
  BY <1>1, NotInSearch DEF SetsType
<1> QED
  BY <1>1, <1>2, <1>3, <1>4, LoopStep DEF store

LEMMA KeepContractedStep == IInv /\ KeepContracted => IInv'
BY KeepResult DEF KeepContracted, Contracted, EndJob, Idle, store

LEMMA DiscardContractedStep == IInv /\ DiscardContracted => IInv'
BY KeepResult DEF DiscardContracted, Contracted, EndJob, Idle, store

LEMMA ClauseInsertedStep == IInv /\ ClauseInserted => IInv'
BY KeepResult DEF ClauseInserted, Contracted, EndJob, Idle, store

LEMMA LoopIsIdle == IInv /\ pc = "loop" => Idle /\ todo = {}
BY DEF IInv, PhaseType

LEMMA ToLoop ==
    ASSUME IInv, pc = "loop", UNCHANGED <<problem, garbage_state, gcs, bank, set_date, tmp_store>>,
           UNCHANGED <<pc, cur, stack, search>>,
           later' \subseteq later, processed' \subseteq processed,
           unprocessed' \subseteq unprocessed \cup processed,
           archive' \subseteq archive \cup TermsOf(processed)
    PROVE  IInv'
<1>1. Idle' /\ todo' = {}
  BY LoopIsIdle DEF Idle, search
<1>2. Grown(bank, bank, garbage_state)
  BY NotInSearch, GrownFacts
<1>3. Roots' \subseteq Roots
  BY DEF Roots, TermsOf
<1>4. /\ unprocessed' \subseteq ClauseType /\ tmp_store \subseteq ClauseType /\ archive' \subseteq Term
      /\ later' \subseteq Axiom
  BY NotInSearch DEF SetsType, TermsOf, ClauseType
<1> QED
  BY <1>1, <1>2, <1>3, <1>4, NotInSearch, LoopStep

LEMMA DiscardStep == IInv /\ Discard => IInv'
BY ToLoop DEF Discard, AtLoopHead, AtLoop, store

LEMMA ResetProcessedStep == IInv /\ ResetProcessed => IInv'
BY ToLoop DEF ResetProcessed, AtLoopHead, AtLoop

LEMMA ClauseFacts ==
    ASSUME NEW ax \in Axiom
    PROVE  /\ Clause(ax) \in ClauseType /\ {Clause(ax).l, Clause(ax).r} = {ax[1], ax[2]}
           /\ ax[1] \in Term /\ ax[2] \in Term
<1> DEFINE c == [l |-> ax[1], r |-> ax[2], positive |-> ax[3], limited |-> FALSE, date |-> 0]
<1>1. c \in ClauseType /\ ax[1] \in Term /\ ax[2] \in Term
  BY DEF Axiom, ClauseType
<1>2. c.l = ax[1] /\ c.r = ax[2] /\ Clause(ax) = Orient(c)
  BY DEF Clause
<1> HIDE DEF c
<1> QED
  BY <1>1, <1>2, OrientFacts

LEMMA GenerateStep == IInv /\ Generate => IInv'
<1> SUFFICES ASSUME IInv, Generate
             PROVE  IInv'
  OBVIOUS
<1>1. pc = "loop" /\ Idle /\ todo = {}
  BY LoopIsIdle DEF Generate, AtLoop
<1>2. PICK ax \in later :
        /\ later' = later \ {ax}
        /\ tmp_store' = tmp_store \cup {Clause(ax)}
        /\ bank' = InsertAll(bank, garbage_state, {ax[1], ax[2]})
  BY DEF Generate
<1>3. /\ UNCHANGED <<problem, garbage_state, gcs, set_date, unprocessed, processed, archive>>
      /\ pc' = "loop" /\ Idle' /\ todo' = {}
  BY <1>1 DEF Generate, Idle, search
<1>4. ax \in Axiom /\ SetsType /\ GoodBank(bank) /\ garbage_state \in BOOLEAN
  BY <1>1, NotInSearch DEF SetsType
<1>5. /\ Clause(ax) \in ClauseType /\ {Clause(ax).l, Clause(ax).r} = {ax[1], ax[2]}
      /\ ax[1] \in Term /\ ax[2] \in Term
  BY <1>4, ClauseFacts
<1> DEFINE terms == {ax[1], ax[2]}
<1>6. terms \in SUBSET Term
  BY <1>5
<1>7. Grown(bank, bank', garbage_state) /\ \A t \in terms : HasCellIn(bank', t)
  <2>1. bank' = InsertAll(bank, garbage_state, terms)
    BY <1>2
  <2> HIDE DEF terms
  <2> QED
    BY <1>4, <1>6, <2>1, InsertAllFacts
<1>8. \A t \in Roots' : HasCellIn(bank', t)
  <2>1. Roots' \subseteq Roots \cup terms
    BY <1>2, <1>3, <1>5 DEF Roots, TermsOf
  <2> QED
    BY <1>1, <1>4, <1>7, <2>1, NotInSearch, GrownFacts DEF Grown
<1>9. /\ unprocessed' \subseteq ClauseType /\ tmp_store' \subseteq ClauseType /\ archive' \subseteq Term
      /\ later' \subseteq Axiom
  BY <1>2, <1>3, <1>4, <1>5 DEF SetsType
<1> QED
  BY <1>1, <1>3, <1>7, <1>8, <1>9, LoopStep

LEMMA RootClauses ==
    ASSUME IInv, pc \in {"loop", "normalize"}, NEW c \in unprocessed \cup tmp_store
    PROVE  /\ c \in ClauseType /\ HasCellIn(bank, c.l) /\ HasCellIn(bank, c.r)
<1>1. c.l \in Roots /\ c.r \in Roots
  BY DEF Roots, TermsOf
<1> QED
  BY <1>1, NotInSearch DEF SetsType

LEMMA SelectClauseStep == IInv /\ SelectClause => IInv'
<1> SUFFICES ASSUME IInv, SelectClause
             PROVE  IInv'
  OBVIOUS
<1>1. PICK c \in unprocessed :
        unprocessed' = unprocessed \ {c} /\ StartPass(c, FullRewrite, "given")
  BY DEF SelectClause
<1>2. pc = "loop" /\ UNCHANGED <<store, bank, set_date, processed, archive, tmp_store, search>>
  BY DEF SelectClause, AtLoopHead, AtLoop
<1>3. FullRewrite \in 0..2
  BY DEF FullRewrite
<1> QED
  BY <1>1, <1>2, <1>3, RootClauses, StartPassStep

LEMMA InsertNewClauseStep == IInv /\ InsertNewClause => IInv'
<1> SUFFICES ASSUME IInv, InsertNewClause
             PROVE  IInv'
  OBVIOUS
<1>1. PICK c \in tmp_store :
        /\ tmp_store' = tmp_store \ {c}
        /\ IF c.limited THEN StartPass(c, FullRewrite, "victim")
           ELSE StartPass(c, problem.forward_demod, "new")
  BY DEF InsertNewClause
<1>2. pc = "loop" /\ UNCHANGED <<store, bank, set_date, processed, archive, unprocessed, search>>
  BY DEF InsertNewClause, AtLoop
<1>3. FullRewrite \in 0..2 /\ problem.forward_demod \in 0..2
  BY <1>2, NotInSearch, ProblemAssumption DEF FullRewrite, SetsType
<1>4. c \in ClauseType /\ HasCellIn(bank, c.l) /\ HasCellIn(bank, c.r)
  BY <1>2, RootClauses
<1>5. CASE c.limited
  BY <1>1, <1>2, <1>3, <1>4, <1>5, StartPassStep
<1>6. CASE ~c.limited
  BY <1>1, <1>2, <1>3, <1>4, <1>6, StartPassStep
<1> QED
  BY <1>5, <1>6

LEMMA NormalizeVictimStep == IInv /\ NormalizeVictim => IInv'
<1> SUFFICES ASSUME IInv, NormalizeVictim
             PROVE  IInv'
  OBVIOUS
<1>1. /\ SidesDone /\ StartPass(Result, problem.forward_demod, "new")
      /\ UNCHANGED <<store, bank, sets, search>>
  BY DEF NormalizeVictim, Contracted
<1>2. problem.forward_demod \in 0..2
  BY ProblemAssumption DEF IInv, SetsType
<1> QED
  BY <1>1, <1>2, ResultFacts, StartPassStep DEF sets

LEMMA NormalizeAgainStep == IInv /\ NormalizeAgain => IInv'
<1> SUFFICES ASSUME IInv, NormalizeAgain
             PROVE  IInv'
  OBVIOUS
<1> DEFINE c == [cur.clause EXCEPT !.limited = FALSE]
<1>1. /\ SidesDone /\ StartPass(c, cur.level, cur.job)
      /\ UNCHANGED <<store, bank, sets, search>>
  BY DEF NormalizeAgain
<1>2. /\ pc = "normalize" /\ cur.clause \in ClauseType /\ cur \in JobType
      /\ HasCellIn(bank, cur.clause.l) /\ HasCellIn(bank, cur.clause.r)
  BY <1>1, ResultFacts
<1>3. c \in ClauseType /\ c.l = cur.clause.l /\ c.r = cur.clause.r
  BY <1>2 DEF ClauseType
<1>4. cur.level \in 0..2 /\ cur.job \in {"given", "victim", "new"}
      /\ (cur.job = "given" => cur.level = FullRewrite)
  BY <1>2, InNormalize DEF JobType, JobOK
<1> HIDE DEF c
<1> QED
  BY <1>1, <1>2, <1>3, <1>4, StartPassStep DEF sets

----------------------------------------------------------------------------
(* Steps of the search for clauses to rewrite *)

LEMMA InSearch ==
    ASSUME IInv, pc = "search"
    PROVE  /\ ~problem.indexed /\ cur \in JobType /\ cur.clause \in ClauseType /\ cur.clause.positive
           /\ stack \in Seq(SearchFrameType) /\ todo \subseteq processed /\ found \subseteq processed
           /\ \/ searched = Nothing /\ stack = <<>>
              \/ searched \in [clause : processed, side : {"left", "right"}] /\ stack # <<>>
           /\ SearchStack(stack, searched, cur.clause)
           /\ CleanForAll(UnrestrictedCells(cur.clause), processed)
           /\ \A c \in processed \ (todo \cup found) : IsSearched(c, searched, cur.clause)
           /\ HasCellIn(bank, cur.clause.l) /\ HasCellIn(bank, cur.clause.r)
           /\ garbage_state \in BOOLEAN /\ set_date \in [1..2 -> Nat]
           /\ processed \in SUBSET ClauseType /\ DemodDatesIn(processed, set_date)
           /\ GoodBank(bank) /\ TrueDates(bank, processed) /\ DatesUpTo(bank, SearchDate)
           /\ TrueSearchDates(bank, cur.clause, SearchDate)
           /\ Interreduced /\ \A t \in Roots : HasCellIn(bank, t)
<1>1. cur \in JobType /\ cur # Nothing /\ cur.clause \in ClauseType
  BY DEF IInv, PhaseType, JobType, Nothing
<1>2. HasCellIn(bank, cur.clause.l) /\ HasCellIn(bank, cur.clause.r)
  BY <1>1 DEF IInv, ClausesHaveCells, InWork, TermsOf
<1>3. DatesUpTo(bank, SearchDate)
  BY DEF IInv, Today
<1>4. /\ ~problem.indexed /\ cur.clause.positive
      /\ stack \in Seq(SearchFrameType) /\ todo \subseteq processed /\ found \subseteq processed
      /\ \/ searched = Nothing /\ stack = <<>>
         \/ searched \in [clause : processed, side : {"left", "right"}] /\ stack # <<>>
  BY DEF IInv, PhaseType
<1> QED
  BY <1>1, <1>2, <1>3, <1>4 DEF IInv, SetsType, SearchInv, ClausesHaveCells

(* What these steps have in common *)
LEMMA SearchStepCommon ==
    ASSUME IInv, pc = "search", pc' = "search", UNCHANGED <<store, sets, cur>>,
           GoodBank(bank'), Extends(bank, bank', garbage_state), DatesUpTo(bank', SearchDate),
           TrueDates(bank', processed), TrueSearchDates(bank', cur.clause, SearchDate),
           todo' \subseteq processed, found' \subseteq processed, stack' \in Seq(SearchFrameType),
           \/ searched' = Nothing /\ stack' = <<>>
           \/ searched' \in [clause : processed, side : {"left", "right"}] /\ stack' # <<>>,
           SearchStack(stack', searched', cur.clause),
           \A c \in processed \ (todo' \cup found') : IsSearched(c, searched', cur.clause)
    PROVE  IInv'
<1> USE DEF store, sets
<1>1. SetsType' /\ DemodDatesIn(processed, set_date)'
  BY DEF IInv, SetsType
<1>2. PhaseType'
  BY InSearch DEF PhaseType
<1>3. ClausesHaveCells'
  <2>1. \A t \in Roots \cup TermsOf(InWork) : HasCellIn(bank', t)
    BY InSearch, GrownFacts DEF IInv, ClausesHaveCells
  <2>2. Roots' = Roots /\ TermsOf(InWork)' = TermsOf(InWork)
    BY DEF Roots, TermsOf, InWork
  <2> QED
    BY <2>1, <2>2 DEF ClausesHaveCells
<1>4. FlagsAre(bank, garbage_state)'
  BY GrownFacts DEF IInv
<1>5. /\ DatesUpTo(bank, Today)' /\ TrueDates(bank, processed)'
      /\ TrueSearchDates(bank, cur.clause, SearchDate)'
  BY DEF Today, SearchDate, NextDate, DemodDate
<1>6. Interreduced'
  BY DEF IInv, Interreduced, OthersOf
<1>7. NormalInv' /\ SearchInv' /\ MarkInv'
  BY InSearch DEF NormalInv, SearchInv, MarkInv
<1> QED
  BY <1>1, <1>2, <1>3, <1>4, <1>5, <1>6, <1>7 DEF IInv

(* New cells, links and flags have no dates. *)
LEMMA SearchGrows ==
    ASSUME IInv, pc = "search", NEW b, Grown(bank, b, garbage_state)
    PROVE  /\ GoodBank(b) /\ Extends(bank, b, garbage_state) /\ DatesUpTo(b, SearchDate)
           /\ TrueDates(b, processed) /\ TrueSearchDates(b, cur.clause, SearchDate)
BY InSearch, DatesGrow, DemodDateFacts DEF Grown

LEMMA SearchTopFacts ==
    ASSUME IInv, pc = "search", stack # <<>>
    PROVE  /\ Len(stack) \in Nat \ {0} /\ Top \in SearchFrameType
           /\ SearchFrameOK(Top, SideTerm(searched), cur.clause)
           /\ Top.term \in Term /\ Top.pos \in Nat /\ Top.restricted \in BOOLEAN
           /\ searched \in [clause : processed, side : {"left", "right"}]
           /\ searched.clause \in processed /\ searched.clause \in ClauseType
           /\ searched.side \in {"left", "right"}
           /\ SideTerm(searched) \in Term
           /\ ~IsFreeVar(Top.term) => Top.term \in DOMAIN bank
<1>1. Len(stack) \in Nat \ {0} /\ Top \in SearchFrameType
  <2>1. stack \in Seq(SearchFrameType)
    BY InSearch
  <2>2. Len(stack) \in Nat \ {0}
    BY <2>1, EmptySeq, LenProperties
  <2> QED
    BY <2>1, <2>2, ElementOfSeq DEF Top
<1>2. SearchFrameOK(Top, SideTerm(searched), cur.clause)
  BY <1>1, InSearch DEF SearchStack, Top
<1>3. searched \in [clause : processed, side : {"left", "right"}]
  BY InSearch
<1>4. searched.clause \in processed /\ searched.clause \in ClauseType /\ searched.side \in {"left", "right"}
  BY <1>3, InSearch
<1>5. SideTerm(searched) \in Term /\ SideTerm(searched) \in Roots
  BY <1>4 DEF SideTerm, ClauseType, Roots, TermsOf
<1>6. Cells(SideTerm(searched)) \subseteq DOMAIN bank
  <2>1. HasCellIn(bank, SideTerm(searched))
    BY <1>5, InSearch
  <2> QED
    BY <1>5, <2>1, InSearch, CellsFacts DEF HasCellIn, GoodBank, GoodCell
<1>7. Top.term \in Term
  BY <1>1 DEF SearchFrameType
<1>8. ~IsFreeVar(Top.term) => Top.term \in DOMAIN bank
  BY <1>2, <1>6 DEF SearchFrameOK, Cells
<1> QED
  BY <1>1, <1>2, <1>3, <1>4, <1>5, <1>7, <1>8 DEF SearchFrameType

LEMMA SearchFrameFacts ==
    ASSUME NEW t \in Term, NEW side \in Term, t \in SubtermsOf(side), NEW restricted \in BOOLEAN, NEW new
    PROVE  /\ SearchFrame(t, restricted) \in SearchFrameType
           /\ SearchFrame(t, restricted).term = t
           /\ SearchFrame(t, restricted).restricted = restricted
           /\ SearchFrameOK(SearchFrame(t, restricted), side, new)
<1> DEFINE f == SearchFrame(t, restricted)
<1>1. f \in SearchFrameType /\ f.term = t /\ f.restricted = restricted /\ f.pos = 1 /\ f.res = FALSE
  BY DEF SearchFrame, SearchFrameType
<1>2. Len(ArgsOf(t)) \in Nat
  BY ArgsFacts
<1> HIDE DEF f
<1>3. SearchFrameOK(f, side, new)
  BY <1>1, <1>2 DEF SearchFrameOK
<1> QED
  BY <1>1, <1>3 DEF f

LEMMA OneSearchFrame ==
    ASSUME NEW f, NEW where, NEW new, SearchFrameOK(f, SideTerm(where), new),
           f.term = SideTerm(where),
           f.restricted = (where.side = "left" /\ RestrictedSide(where.clause))
    PROVE  SearchStack(<<f>>, where, new)
<1>1. /\ Len(<<f>>) = 1 /\ <<f>>[1] = f /\ 1..Len(<<f>>) = {1} /\ 1..(Len(<<f>>) - 1) = {}
  OBVIOUS
<1> QED
  BY <1>1 DEF SearchStack

(* The terms of unrestricted frames are not the bigger side of a rule. *)
LEMMA FrameCells ==
    ASSUME IInv, pc = "search", stack # <<>>, ~Top.restricted
    PROVE  Cells(Top.term) \subseteq UnrestrictedCells(searched.clause)
<1> DEFINE c == searched.clause
           t == Top.term
           side == SideTerm(searched)
<1>1. /\ c \in ClauseType /\ c.l \in Term /\ c.r \in Term /\ t \in Term /\ side \in Term
      /\ t \in SubtermsOf(side) /\ Below(side, t) /\ Len(stack) \in Nat \ {0}
      /\ searched.side \in {"left", "right"}
  BY SearchTopFacts, SubtermFacts DEF ClauseType, SearchFrameOK
<1>2. \A s \in Cells(t) : s \in Cells(side) /\ s \in Term /\ Below(t, s)
  BY <1>1, SubtermFacts, CellsFacts DEF Cells
<1>3. side \in {c.l, c.r}
  BY DEF SideTerm
<1>4. ASSUME RestrictedSide(c)
      PROVE  Greater(c.l, t)
  <2>1. Greater(c.l, c.r)
    BY <1>4 DEF RestrictedSide, Oriented
  <2>2. CASE searched.side = "right"
    BY <1>1, <2>1, <2>2, BelowFacts DEF SideTerm
  <2>3. CASE searched.side = "left"
    <3>1. Len(stack) # 1
      BY <1>4, <2>3, InSearch DEF SearchStack, Top
    <3>2. Len(stack) - 1 \in 1..(Len(stack) - 1) /\ (Len(stack) - 1) + 1 = Len(stack)
      <4> DEFINE n == Len(stack)
      <4>1. n \in Nat \ {0} /\ n # 1
        BY <1>1, <3>1
      <4> HIDE DEF n
      <4>2. n - 1 \in 1..(n - 1) /\ (n - 1) + 1 = n
        BY <4>1
      <4> QED
        BY <4>2 DEF n
    <3>3. Greater(side, stack[(Len(stack) - 1) + 1].term)
      BY <3>2, InSearch DEF SearchStack
    <3> QED
      BY <2>3, <3>2, <3>3 DEF SideTerm, Top
  <2> QED
    BY <1>1, <2>2, <2>3
<1>5. ASSUME NEW s \in Cells(t)
      PROVE  s \in UnrestrictedCells(c)
  <2>1. RestrictedSide(c) => s # c.l
    <3> SUFFICES ASSUME RestrictedSide(c)
                 PROVE  Greater(c.l, s)
      BY <1>1, OrderingAssumption
    <3> QED
      BY <1>1, <1>2, <1>4, BelowFacts
  <2> QED
    BY <1>2, <1>3, <2>1 DEF UnrestrictedCells
<1> QED
  BY <1>5

(* A frame returns its result. *)
LEMMA ReturnSearchedStep ==
    ASSUME IInv, pc = "search", stack # <<>>, NEW res \in BOOLEAN, ReturnSearched(res),
           GoodBank(bank'), Extends(bank, bank', garbage_state), DatesUpTo(bank', SearchDate),
           TrueDates(bank', processed), TrueSearchDates(bank', cur.clause, SearchDate),
           ~res => \A i \in Positions(Top.term) : ~Reducible(ArgsOf(Top.term)[i], cur.clause),
           ~res /\ ~Top.restricted => ~Reducible(Top.term, cur.clause)
    PROVE  IInv'
<1> DEFINE n == Len(stack)
           t == Top.term
           new == cur.clause
           c == searched.clause
           side == SideTerm(searched)
<1>1. /\ n \in Nat \ {0} /\ t \in Term /\ c \in processed /\ c \in ClauseType
      /\ c.l \in Term /\ c.r \in Term /\ side \in Term
      /\ searched \in [clause : processed, side : {"left", "right"}] /\ searched # Nothing
      /\ searched.side \in {"left", "right"}
  BY SearchTopFacts DEF ClauseType, Nothing
<1>2. SearchStack(stack, searched, new)
  BY InSearch
<1>3. /\ UNCHANGED <<store, sets, pc, cur, todo>>
      /\ n = 1 => SideSearched(res)
      /\ n # 1 => /\ ReturnTo(IF res THEN [Caller EXCEPT !.res = TRUE] ELSE [Caller EXCEPT !.pos = @ + 1])
                  /\ UNCHANGED <<searched, found>>
  BY DEF ReturnSearched
<1>4. todo \subseteq processed /\ found \subseteq processed
  BY InSearch
<1>5. CASE n = 1
  <2>1. /\ stack[1] = Top /\ t = side
        /\ Top.restricted = (searched.side = "left" /\ RestrictedSide(c))
    BY <1>2, <1>5 DEF SearchStack, Top
  <2>2. SideSearched(res)
    BY <1>3, <1>5
  <2>3. found' = (IF res THEN found \cup {c} ELSE found) /\ found' \subseteq processed
    BY <1>1, <1>4, <2>2 DEF SideSearched
  <2>4. ASSUME NEW d \in processed \ (todo \cup found), d # c
        PROVE  Clean(UnrestrictedCells(d), new)
    BY <2>4, InSearch DEF IsSearched
  <2>5. CASE searched.side = "left"
    <3> DEFINE f == SearchFrame(c.r, FALSE)
    <3>1. searched' = [searched EXCEPT !.side = "right"] /\ stack' = <<f>>
      BY <2>2, <2>5 DEF SideSearched
    <3>2. /\ searched' \in [clause : processed, side : {"left", "right"}] /\ searched'.side = "right"
          /\ searched'.clause = c /\ searched' # Nothing
      <4>1. searched' = [clause |-> c, side |-> "right"]
        BY <1>1, <3>1
      <4>2. searched'.side = "right" /\ searched'.clause = c
        BY <4>1
      <4>3. searched' \in [clause : processed, side : {"left", "right"}]
        BY <1>1, <4>1
      <4>4. searched' # Nothing
        BY <4>2 DEF Nothing
      <4> QED
        BY <4>2, <4>3, <4>4
    <3>3. SideTerm(searched') = c.r /\ c.r \in SubtermsOf(c.r)
      BY <1>1, <3>2, SubtermFacts DEF SideTerm
    <3>4. /\ f \in SearchFrameType /\ f.term = c.r /\ f.restricted = FALSE
          /\ SearchFrameOK(f, c.r, new)
      BY <1>1, <3>3, SearchFrameFacts
    <3> HIDE DEF f
    <3>5. SearchStack(stack', searched', new)
      <4>1. f.restricted = (searched'.side = "left" /\ RestrictedSide(searched'.clause))
        BY <3>2, <3>4
      <4> QED
        BY <3>1, <3>3, <3>4, <4>1, OneSearchFrame
    <3>6. stack' \in Seq(SearchFrameType) /\ stack' # <<>>
      BY <3>1, <3>4, OneFrame
    <3>7. ~res => Clean(LeftCells(c), new)
      <4> SUFFICES ASSUME ~res, NEW s \in LeftCells(c)
                   PROVE  TopRewrites(s, new) = {}
        BY DEF Clean
      <4>1. t = c.l
        BY <2>1, <2>5 DEF SideTerm
      <4>2. CASE ~Top.restricted
        BY <1>1, <4>1, <4>2 DEF Reducible, LeftCells
      <4>3. CASE Top.restricted
        <5>1. s \in Cells(c.l) /\ s # c.l
          BY <2>1, <4>3 DEF LeftCells
        <5>2. PICK i \in Positions(c.l) : s \in Cells(ArgsOf(c.l)[i])
          BY <1>1, <5>1, CellsFacts
        <5> QED
          BY <4>1, <5>2 DEF Reducible
      <4> QED
        BY <4>2, <4>3
    <3>8. \A d \in processed \ (todo' \cup found') : IsSearched(d, searched', new)
      BY <1>3, <2>3, <2>4, <3>2, <3>7 DEF IsSearched
    <3> QED
      BY <1>3, <1>4, <2>3, <3>2, <3>5, <3>6, <3>8, SearchStepCommon
  <2>6. CASE searched.side = "right"
    <3>1. searched' = Nothing /\ stack' = <<>>
      BY <2>2, <2>6 DEF SideSearched
    <3>2. SearchStack(stack', searched', new) /\ stack' \in Seq(SearchFrameType)
      BY <3>1 DEF SearchStack
    <3>3. ASSUME ~res, c \notin todo \cup found
          PROVE  Clean(UnrestrictedCells(c), new)
      <4>1. IsSearched(c, searched, new)
        BY <1>1, <3>3, InSearch
      <4>2. t = c.r /\ ~Top.restricted
        BY <2>1, <2>6 DEF SideTerm
      <4>3. \A s \in Cells(c.r) : TopRewrites(s, new) = {}
        BY <3>3, <4>2 DEF Reducible
      <4>4. UnrestrictedCells(c) \subseteq LeftCells(c) \cup Cells(c.r)
        BY DEF UnrestrictedCells, LeftCells
      <4> QED
        BY <2>6, <4>1, <4>3, <4>4 DEF IsSearched, Clean
    <3>4. \A d \in processed \ (todo' \cup found') : IsSearched(d, searched', new)
      BY <1>3, <2>3, <2>4, <3>3 DEF IsSearched
    <3> QED
      BY <1>3, <1>4, <2>3, <3>1, <3>2, <3>4, SearchStepCommon
  <2> QED
    BY <1>1, <2>5, <2>6
<1>6. CASE n # 1
  <2> DEFINE m == n - 1
             f == IF res THEN [Caller EXCEPT !.res = TRUE] ELSE [Caller EXCEPT !.pos = @ + 1]
  <2>1. /\ m \in Nat \ {0} /\ m + 1 = n /\ m \in 1..n
        /\ Caller = stack[m] /\ Top = stack[m + 1] /\ Caller \in SearchFrameType
    <3>1. m \in Nat \ {0} /\ m + 1 = n /\ m \in 1..n
      <4>1. n \in Nat \ {0}
        BY <1>1
      <4> HIDE DEF n
      <4> QED
        BY <4>1, <1>6
    <3> QED
      BY <3>1, InSearch, ElementOfSeq DEF Caller, Top
  <2>2. /\ SearchFrameOK(Caller, side, new) /\ SearchesIn(Caller, Top)
        /\ Caller.term \in Term /\ Caller.pos \in Nat
    BY <1>2, <2>1 DEF SearchStack, SearchFrameType
  <2>3. /\ Caller.pos \in Positions(Caller.term) /\ t = ArgsOf(Caller.term)[Caller.pos]
        /\ ~Top.restricted /\ ~IsFreeVar(Caller.term)
        /\ Positions(Caller.term) = 1..Len(ArgsOf(Caller.term)) /\ Len(ArgsOf(Caller.term)) \in Nat
    BY <2>2, ArgsFacts DEF SearchesIn
  <2>4. /\ f \in SearchFrameType /\ f.term = Caller.term /\ f.restricted = Caller.restricted
        /\ res => f.pos = Caller.pos
        /\ ~res => f.pos = Caller.pos + 1
    <3>1. CASE res
      BY <2>1, <3>1 DEF SearchFrameType
    <3>2. CASE ~res
      <4>1. Caller.pos + 1 \in Nat
        BY <2>2
      <4> QED
        BY <2>1, <3>2, <4>1 DEF SearchFrameType
    <3> QED
      BY <3>1, <3>2
  <2> HIDE DEF f
  <2>5. SearchFrameOK(f, side, new)
    <3>1. CASE res
      BY <2>2, <2>3, <2>4, <3>1 DEF SearchFrameOK
    <3>2. CASE ~res
      <4>1. ~Reducible(t, new)
        BY <2>3, <3>2
      <4>2. \A i \in 1..(f.pos - 1) : i \in 1..(Caller.pos - 1) \/ i = Caller.pos
        BY <2>2, <2>4, <3>2
      <4>3. f.pos \in 1..(Len(ArgsOf(f.term)) + 1)
        BY <2>2, <2>3, <2>4, <3>2
      <4> QED
        BY <2>2, <2>3, <2>4, <4>1, <4>2, <4>3 DEF SearchFrameOK
    <3> QED
      BY <3>1, <3>2
  <2>6. /\ stack' \in Seq(SearchFrameType) /\ Len(stack') = m /\ stack' # <<>>
        /\ stack'[m] = f /\ \A k \in 1..(m - 1) : stack'[k] = stack[k]
    <3> DEFINE r == Returned(stack, f)
    <3>1. stack' = r
      BY <1>3, <1>6 DEF ReturnTo, Returned, f
    <3>2. /\ r \in Seq(SearchFrameType) /\ Len(r) = Len(stack) - 1 /\ r # <<>>
          /\ r[Len(stack) - 1] = f /\ \A k \in 1..(Len(stack) - 2) : r[k] = stack[k]
      BY <1>6, <2>4, InSearch, ReturnFacts
    <3> HIDE DEF r
    <3>3. m - 1 = Len(stack) - 2
      BY <1>1
    <3> QED
      BY <3>1, <3>2, <3>3
  <2>7. SearchStack(stack', searched, new)
    <3> HIDE DEF m, n
    <3>1. ASSUME NEW k \in 1..m
          PROVE  SearchFrameOK(stack'[k], side, new)
      <4>1. CASE k = m
        BY <2>5, <2>6, <4>1
      <4>2. CASE k # m
        <5>1. k \in 1..(m - 1) /\ stack'[k] = stack[k] /\ k \in 1..n
          BY <2>1, <2>6, <4>2
        <5> QED
          BY <1>2, <5>1 DEF SearchStack, n
      <4> QED
        BY <4>1, <4>2
    <3>2. ASSUME NEW k \in 1..(m - 1)
          PROVE  SearchesIn(stack'[k], stack'[k + 1]) /\ Greater(side, stack'[k + 1].term)
      <4>1. k \in 1..(n - 1) /\ k + 1 \in 1..m
        BY <2>1
      <4>2. SearchesIn(stack[k], stack[k + 1]) /\ Greater(side, stack[k + 1].term)
        BY <1>2, <4>1 DEF SearchStack, n
      <4>3. CASE k + 1 = m
        BY <2>1, <2>4, <2>6, <4>2, <4>3 DEF SearchesIn
      <4>4. CASE k + 1 # m
        BY <2>6, <4>1, <4>2, <4>4
      <4> QED
        BY <4>3, <4>4
    <3>3. stack'[1].term = stack[1].term /\ stack'[1].restricted = stack[1].restricted
      <4>1. CASE m = 1
        BY <2>1, <2>4, <2>6, <4>1
      <4>2. CASE m # 1
        BY <2>1, <2>6, <4>2
      <4> QED
        BY <4>1, <4>2
    <3> QED
      BY <1>2, <2>6, <3>1, <3>2, <3>3 DEF SearchStack
  <2>8. searched' = searched /\ found' = found
    BY <1>3, <1>6
  <2>9. \A d \in processed \ (todo' \cup found') : IsSearched(d, searched', new)
    BY <1>3, <2>8, InSearch
  <2> QED
    BY <1>1, <1>3, <1>4, <2>6, <2>7, <2>8, <2>9, SearchStepCommon
<1> QED
  BY <1>5, <1>6

LEMMA StartSearchStep == IInv /\ StartSearch => IInv'
<1> SUFFICES ASSUME IInv, StartSearch
             PROVE  IInv'
  OBVIOUS
<1> DEFINE given == Result
<1>1. /\ Contracted("given") /\ SidesDone /\ IsDemodulator(given) /\ ~problem.indexed
      /\ pc' = "search" /\ todo' = processed
      /\ cur' = [cur EXCEPT !.clause = given, !.old = given]
      /\ UNCHANGED <<store, bank, sets, stack, searched, found>>
  BY DEF StartSearch, Contracted
<1>2. /\ pc = "normalize" /\ given \in ClauseType /\ cur \in JobType
      /\ HasCellIn(bank, given.l) /\ HasCellIn(bank, given.r)
  BY <1>1, ResultFacts
<1>3. CleanForAll(UnrestrictedCells(given), processed)
  BY <1>1, ResultIsClean
<1> HIDE DEF given
<1>4. cur' \in JobType /\ cur'.clause = given /\ cur' # Nothing /\ given.positive
  <2>1. cur' \in JobType /\ cur'.clause = given
    BY <1>1, <1>2 DEF JobType
  <2>2. cur' # Nothing
    BY <2>1 DEF JobType, Nothing
  <2> QED
    BY <1>1, <2>1, <2>2 DEF IsDemodulator
<1>5. /\ stack' = <<>> /\ searched' = Nothing /\ found' = {}
      /\ UNCHANGED <<problem, garbage_state, later, gcs, bank>>
      /\ UNCHANGED <<set_date, unprocessed, processed, archive, tmp_store>>
  BY <1>1, <1>2, NotInSearch, InNormalize DEF SidesDone, store, sets
<1>6. SetsType' /\ DemodDatesIn(processed, set_date)'
  BY <1>2, <1>5, NotInSearch DEF SetsType
<1>7. SearchStack(stack', searched', given) /\ stack' \in Seq(SearchFrameType)
  BY <1>5 DEF SearchStack
<1>8. PhaseType'
  BY <1>1, <1>4, <1>5, <1>7 DEF PhaseType
<1>9. ClausesHaveCells'
  <2>1. Roots' = Roots
    BY <1>5 DEF Roots, TermsOf
  <2>2. InWork' = {given}
    BY <1>4 DEF InWork
  <2> QED
    BY <1>2, <1>5, <2>1, <2>2, NotInSearch DEF ClausesHaveCells, TermsOf
<1>10. /\ GoodBank(bank) /\ DatesUpTo(bank, DemodDate(FullRewrite)) /\ set_date \in [1..2 -> Nat]
       /\ FlagsAre(bank, garbage_state) /\ TrueDates(bank, processed) /\ Interreduced
  BY <1>2, NotInSearch
<1>11. DatesUpTo(bank, SearchDate) /\ TrueSearchDates(bank, given, SearchDate)
  <2>1. \A t \in DOMAIN bank : \A i \in 1..2 : bank[t].nf_date[i] \in Nat
    BY <1>10 DEF GoodBank, GoodCell, CellType
  <2>2. \A t \in DOMAIN bank : \A i \in 1..2 : bank[t].nf_date[i] < SearchDate
    BY <1>10, <2>1, DemodDateFacts DEF DatesUpTo
  <2>3. SearchDate \in Nat
    BY <1>10, DemodDateFacts
  <2> QED
    BY <2>1, <2>2, <2>3 DEF DatesUpTo, TrueSearchDates
<1>12. DatesUpTo(bank, Today)' /\ TrueSearchDates(bank, cur.clause, SearchDate)'
  BY <1>1, <1>4, <1>5, <1>11 DEF Today, SearchDate, NextDate, DemodDate
<1>13. FlagsAre(bank, garbage_state)' /\ TrueDates(bank, processed)'
  BY <1>5, <1>10
<1>14. Interreduced'
  BY <1>5, <1>10 DEF Interreduced, OthersOf
<1>15. NormalInv' /\ SearchInv' /\ MarkInv'
  BY <1>1, <1>3, <1>4, <1>5, <1>7 DEF NormalInv, SearchInv, MarkInv
<1> QED
  BY <1>1, <1>5, <1>6, <1>8, <1>9, <1>10, <1>12, <1>13, <1>14, <1>15 DEF IInv

LEMMA SearchClauseStep == IInv /\ SearchClause => IInv'
<1> SUFFICES ASSUME IInv, SearchClause
             PROVE  IInv'
  OBVIOUS
<1>1. PICK c \in todo :
        /\ todo' = todo \ {c}
        /\ searched' = [clause |-> c, side |-> "left"]
        /\ stack' = <<SearchFrame(c.l, RestrictedSide(c))>>
  BY DEF SearchClause
<1>2. /\ pc = "search" /\ searched = Nothing /\ UNCHANGED <<store, bank, sets, pc, cur, found>>
  BY DEF SearchClause
<1>3. c \in processed /\ c \in ClauseType /\ c.l \in Term /\ c.r \in Term /\ found \subseteq processed
  BY <1>2, InSearch DEF ClauseType
<1> DEFINE f == SearchFrame(c.l, RestrictedSide(c))
           new == cur.clause
<1>4. /\ f \in SearchFrameType /\ f.term = c.l /\ f.restricted = RestrictedSide(c)
      /\ SearchFrameOK(f, c.l, new)
  <2>1. RestrictedSide(c) \in BOOLEAN
    BY DEF RestrictedSide
  <2>2. c.l \in SubtermsOf(c.l)
    BY <1>3, SubtermFacts
  <2> QED
    BY <1>3, <2>1, <2>2, SearchFrameFacts
<1> HIDE DEF f
<1>5. searched'.clause = c /\ searched'.side = "left" /\ searched' # Nothing
  <2>1. searched'.clause = c /\ searched'.side = "left"
    BY <1>1
  <2> QED
    BY <2>1 DEF Nothing
<1>6. searched' \in [clause : processed, side : {"left", "right"}]
  BY <1>1, <1>3
<1>7. SearchStack(stack', searched', new)
  <2>1. SideTerm(searched') = c.l
    BY <1>5 DEF SideTerm
  <2>2. f.restricted = (searched'.side = "left" /\ RestrictedSide(searched'.clause))
    BY <1>4, <1>5 DEF RestrictedSide
  <2> QED
    BY <1>1, <1>4, <2>1, <2>2, OneSearchFrame DEF f
<1>8. stack' \in Seq(SearchFrameType) /\ stack' # <<>>
  BY <1>1, <1>4, OneFrame DEF f
<1>9. \A d \in processed \ (todo' \cup found) : IsSearched(d, searched', new)
  <2> SUFFICES ASSUME NEW d \in processed \ (todo' \cup found)
               PROVE  IsSearched(d, searched', new)
    OBVIOUS
  <2>1. CASE d = c
    BY <1>5, <2>1 DEF IsSearched
  <2>2. CASE d # c
    <3>1. d \in processed \ (todo \cup found)
      BY <1>1, <2>2
    <3>2. IsSearched(d, searched, new)
      BY <1>2, <3>1, InSearch
    <3> QED
      BY <1>2, <3>2 DEF IsSearched
  <2> QED
    BY <2>1, <2>2
<1>10. /\ Grown(bank, bank, garbage_state) /\ todo' \subseteq processed
  BY <1>1, <1>2, InSearch, GrownFacts
<1>11. /\ GoodBank(bank') /\ Extends(bank, bank', garbage_state) /\ DatesUpTo(bank', SearchDate)
       /\ TrueDates(bank', processed) /\ TrueSearchDates(bank', new, SearchDate)
  BY <1>2, <1>10, SearchGrows
<1> QED
  BY <1>2, <1>3, <1>6, <1>7, <1>8, <1>9, <1>10, <1>11, SearchStepCommon

(* The search goes on below the top. *)
LEMMA SearchArgumentStep == IInv /\ SearchArgument => IInv'
<1> SUFFICES ASSUME IInv, SearchArgument
             PROVE  IInv'
  OBVIOUS
<1> DEFINE n == Len(stack)
           t == Top.term
           arg == ArgsOf(t)[Top.pos]
           f == SearchFrame(arg, FALSE)
           side == SideTerm(searched)
           new == cur.clause
<1>1. /\ pc = "search" /\ stack # <<>> /\ ~Top.res /\ Top.pos \in Positions(t)
      /\ stack' = Append(stack, f)
      /\ UNCHANGED <<store, bank, sets, pc, cur, search>>
  BY DEF SearchArgument, Searching, Call
<1>2. /\ n \in Nat \ {0} /\ t \in Term /\ side \in Term /\ SearchFrameOK(Top, side, new)
      /\ searched \in [clause : processed, side : {"left", "right"}]
  BY <1>1, SearchTopFacts
<1>3. arg \in Term /\ arg \in SubtermsOf(side) /\ Greater(side, arg)
  <2>1. t \in SubtermsOf(side)
    BY <1>2 DEF SearchFrameOK
  <2>2. arg \in Term /\ Greater(t, arg) /\ Below(side, t)
    BY <1>1, <1>2, <2>1, ArgsFacts, SubtermFacts
  <2> QED
    BY <1>1, <1>2, <2>1, <2>2, SubtermFacts, BelowFacts
<1>4. /\ f \in SearchFrameType /\ f.term = arg /\ f.restricted = FALSE
      /\ SearchFrameOK(f, side, new)
  BY <1>2, <1>3, SearchFrameFacts
<1>5. SearchesIn(Top, f)
  BY <1>1, <1>4 DEF SearchesIn
<1> HIDE DEF f
<1>6. /\ stack' \in Seq(SearchFrameType) /\ Len(stack') = n + 1 /\ stack' # <<>>
      /\ stack'[n + 1] = f /\ \A k \in 1..n : stack'[k] = stack[k]
  BY <1>1, <1>4, InSearch, CallFacts
<1>7. stack[n] = Top /\ SearchStack(stack, searched, new)
  BY <1>1, InSearch DEF Top
<1> HIDE DEF n, arg, side
<1>8. SearchStack(stack', searched, new)
  <2>1. ASSUME NEW k \in 1..(n + 1)
        PROVE  SearchFrameOK(stack'[k], side, new)
    <3>1. CASE k = n + 1
      BY <1>4, <1>6, <3>1
    <3>2. CASE k # n + 1
      <4>1. k \in 1..n
        BY <1>2, <3>2
      <4> QED
        BY <1>6, <1>7, <4>1 DEF SearchStack, side, n
    <3> QED
      BY <3>1, <3>2
  <2>2. ASSUME NEW k \in 1..n
        PROVE  SearchesIn(stack'[k], stack'[k + 1]) /\ Greater(side, stack'[k + 1].term)
    <3>1. CASE k = n
      BY <1>3, <1>4, <1>5, <1>6, <1>7, <3>1
    <3>2. CASE k # n
      <4>1. k \in 1..(n - 1) /\ k + 1 \in 1..n
        BY <1>2, <3>2
      <4> QED
        BY <1>6, <1>7, <4>1 DEF SearchStack, side, n
    <3> QED
      BY <3>1, <3>2
  <2>3. stack'[1] = stack[1] /\ (n + 1) - 1 = n
    BY <1>2, <1>6
  <2> QED
    BY <1>1, <1>6, <1>7, <2>1, <2>2, <2>3 DEF SearchStack, side
<1>9. /\ GoodBank(bank') /\ Extends(bank, bank', garbage_state) /\ DatesUpTo(bank', SearchDate)
      /\ TrueDates(bank', processed) /\ TrueSearchDates(bank', new, SearchDate)
  BY <1>1, InSearch, GrownFacts, SearchGrows
<1>10. /\ todo' = todo /\ found' = found /\ searched' = searched
       /\ todo \subseteq processed /\ found \subseteq processed
       /\ \A d \in processed \ (todo \cup found) : IsSearched(d, searched, new)
  BY <1>1, InSearch DEF search
<1> QED
  BY <1>1, <1>2, <1>6, <1>8, <1>9, <1>10, SearchStepCommon

LEMMA AnswerAtOnceStep == IInv /\ AnswerAtOnce => IInv'
<1> SUFFICES ASSUME IInv, AnswerAtOnce
             PROVE  IInv'
  OBVIOUS
<1> DEFINE t == Top.term
           new == cur.clause
           res == ~IsFreeVar(t) /\ IsFlagged(Top)
<1>1. /\ pc = "search" /\ stack # <<>> /\ IsAnswered(Top)
      /\ bank' = bank /\ ReturnSearched(res)
  BY DEF AnswerAtOnce, Searching
<1>2. /\ GoodBank(bank') /\ Extends(bank, bank', garbage_state) /\ DatesUpTo(bank', SearchDate)
      /\ TrueDates(bank', processed) /\ TrueSearchDates(bank', new, SearchDate)
  BY <1>1, InSearch, GrownFacts, SearchGrows
<1>3. t \in Term /\ (~IsFreeVar(t) => t \in DOMAIN bank)
  BY <1>1, SearchTopFacts
<1>4. ~res => ~Reducible(t, new)
  <2> SUFFICES ASSUME ~res
               PROVE  ~Reducible(t, new)
    OBVIOUS
  <2>1. CASE IsFreeVar(t)
    BY <1>3, <2>1, ReducibleFacts
  <2>2. CASE ~IsFreeVar(t)
    <3>1. IsDated(Top)
      BY <1>1, <2>2 DEF IsAnswered
    <3> QED
      BY <1>1, <1>3, <2>2, <3>1, InSearch DEF IsDated, TrueSearchDates, FullRewrite
  <2> QED
    BY <2>1, <2>2
<1>5. ~res => \A i \in Positions(t) : ~Reducible(ArgsOf(t)[i], new)
  BY <1>3, <1>4, ReducibleFacts
<1>6. res \in BOOLEAN
  OBVIOUS
<1> HIDE DEF res
<1> QED
  BY <1>1, <1>2, <1>4, <1>5, <1>6, ReturnSearchedStep

LEMMA ArgumentFoundStep == IInv /\ ArgumentFound => IInv'
<1> SUFFICES ASSUME IInv, ArgumentFound
             PROVE  IInv'
  OBVIOUS
<1>1. /\ pc = "search" /\ stack # <<>> /\ Top.res
      /\ bank' = Flag(bank, Top.term, Always) /\ ReturnSearched(TRUE)
  BY DEF ArgumentFound
<1>2. Top.term \in DOMAIN bank
  BY <1>1, SearchTopFacts DEF SearchFrameOK
<1>3. Always \in {Limited, Always}
  OBVIOUS
<1>4. Grown(bank, bank', garbage_state)
  BY <1>1, <1>2, <1>3, InSearch, FlagFacts
<1> DEFINE res == TRUE
<1>5. res \in BOOLEAN /\ res /\ ReturnSearched(res)
  BY <1>1
<1> HIDE DEF res
<1> QED
  BY <1>1, <1>4, <1>5, SearchGrows, ReturnSearchedStep

(* A term whose arguments are irreducible is searched at its top. *)
LEMMA AtTheTop ==
    ASSUME IInv, Searching, ~IsAnswered(Top), Top.pos \notin Positions(Top.term)
    PROVE  /\ pc = "search" /\ stack # <<>> /\ Top.term \in Term /\ Top.term \in DOMAIN bank
           /\ ~IsFreeVar(Top.term)
           /\ \A i \in Positions(Top.term) : ~Reducible(ArgsOf(Top.term)[i], cur.clause)
<1> DEFINE t == Top.term
           len == Len(ArgsOf(t))
<1>1. pc = "search" /\ stack # <<>>
  BY DEF Searching
<1>2. /\ t \in Term /\ SearchFrameOK(Top, SideTerm(searched), cur.clause)
      /\ ~IsFreeVar(t) => t \in DOMAIN bank
  BY <1>1, SearchTopFacts
<1>3. len \in Nat /\ Positions(t) = 1..len /\ (IsFreeVar(t) => Positions(t) = {})
  BY <1>2, ArgsFacts
<1>4. Top.pos \in 1..(len + 1) /\ \A i \in 1..(Top.pos - 1) : ~Reducible(ArgsOf(t)[i], cur.clause)
  BY <1>2 DEF SearchFrameOK
<1> HIDE DEF len
<1>5. Top.pos = len + 1
  BY <1>3, <1>4
<1>6. \A i \in Positions(t) : ~Reducible(ArgsOf(t)[i], cur.clause)
  BY <1>3, <1>4, <1>5
<1>7. ~IsFreeVar(t)
  <2> SUFFICES ASSUME IsFreeVar(t)
               PROVE  Top.pos = 1
    BY DEF IsAnswered
  <2>1. len = 0
    BY <1>3
  <2> QED
    BY <1>5, <2>1
<1> QED
  BY <1>1, <1>2, <1>6, <1>7

(* What is dated is not rewritten by any processed clause. *)
LEMMA DateIrreducibleFacts ==
    ASSUME IInv, pc = "search", stack # <<>>, Top.term \in DOMAIN bank,
           ~Reducible(Top.term, cur.clause)
    PROVE  LET b == DateIrreducible(bank, Top.term, Top.restricted)
           IN  /\ GoodBank(b) /\ Extends(bank, b, garbage_state) /\ DatesUpTo(b, SearchDate)
               /\ TrueDates(b, processed) /\ TrueSearchDates(b, cur.clause, SearchDate)
<1> DEFINE t == Top.term
           new == cur.clause
           c == searched.clause
           dates == <<SearchDate, SearchDate>>
           b == DateIrreducible(bank, t, Top.restricted)
<1>1. /\ GoodBank(bank) /\ TrueDates(bank, processed) /\ DatesUpTo(bank, SearchDate)
      /\ TrueSearchDates(bank, new, SearchDate) /\ processed \in SUBSET ClauseType
      /\ Interreduced /\ ~problem.indexed /\ SearchDate \in Nat
      /\ Extends(bank, bank, garbage_state)
  BY InSearch, DemodDateFacts, GrownFacts DEF Grown
<1>2. CASE b = bank
  BY <1>1, <1>2
<1>3. CASE b # bank
  <2>1. b = [bank EXCEPT ![t].nf_date = dates] /\ ~Top.restricted
    BY <1>3 DEF DateIrreducible
  <2>2. /\ dates \in [1..2 -> Nat] /\ \A i \in 1..2 : dates[i] = SearchDate
    BY <1>1
  <2>3. Cells(t) \subseteq UnrestrictedCells(c) /\ c \in processed
    BY <2>1, FrameCells, SearchTopFacts
  <2>4. ASSUME NEW d \in processed, IsDemodulator(d)
        PROVE  ~Reducible(t, d)
    <3>1. CASE d = c
      BY <1>1, <2>3, <2>4, <3>1, SelfIrreducible DEF Reducible, IsDemodulator
    <3>2. CASE d # c
      <4>1. d \in OthersOf(c)
        BY <2>3, <2>4, <3>2 DEF OthersOf
      <4> QED
        BY <1>1, <2>3, <4>1 DEF Interreduced, Reducible
    <3> QED
      BY <3>1, <3>2
  <2>5. \A i : \A d \in DemodsIn(processed, i) : ~Reducible(t, d)
    BY <2>4 DEF DemodsIn
  <2> DEFINE e == [bank EXCEPT ![t].nf_date = dates]
  <2> HIDE DEF b, dates
  <2>6. /\ GoodBank(e) /\ Extends(bank, e, garbage_state) /\ DOMAIN e = DOMAIN bank
        /\ e[t].nf_date = dates /\ \A s \in DOMAIN bank \ {t} : e[s] = bank[s]
    BY <1>1, <2>2, DateFacts
  <2>7. \A i \in 1..2 : dates[i] <= SearchDate
    BY <1>1, <2>2
  <2>8. TrueDates(e, processed) /\ DatesUpTo(e, SearchDate)
    BY <1>1, <2>2, <2>5, <2>7, DatesSet
  <2> HIDE DEF e
  <2>9. TrueSearchDates(e, new, SearchDate)
    BY <1>1, <2>6 DEF TrueSearchDates
  <2> QED
    BY <2>1, <2>6, <2>8, <2>9 DEF b, e
<1> QED
  BY <1>2, <1>3

LEMMA SearchTopStep == IInv /\ SearchTop => IInv'
<1> SUFFICES ASSUME IInv, SearchTop
             PROVE  IInv'
  OBVIOUS
<1> DEFINE t == Top.term
           new == cur.clause
<1>1. /\ pc = "search" /\ stack # <<>> /\ t \in Term /\ t \in DOMAIN bank /\ ~IsFreeVar(t)
      /\ \A i \in Positions(t) : ~Reducible(ArgsOf(t)[i], new)
  BY AtTheTop DEF SearchTop
<1>2. CASE /\ TopRewrites(t, new) = {}
           /\ bank' = DateIrreducible(bank, t, Top.restricted)
           /\ ReturnSearched(FALSE)
  <2>1. ~Reducible(t, new)
    BY <1>1, <1>2, ReducibleFacts
  <2>2. /\ GoodBank(bank') /\ Extends(bank, bank', garbage_state) /\ DatesUpTo(bank', SearchDate)
        /\ TrueDates(bank', processed) /\ TrueSearchDates(bank', new, SearchDate)
    BY <1>1, <1>2, <2>1, DateIrreducibleFacts
  <2> DEFINE res == FALSE
  <2>3. res \in BOOLEAN /\ ReturnSearched(res)
    BY <1>2
  <2> HIDE DEF res
  <2> QED
    BY <1>1, <2>1, <2>2, <2>3, ReturnSearchedStep
<1>3. CASE \E rw \in TopRewrites(t, new) :
              /\ bank' = FlagAndLink(bank, t, rw)
              /\ ReturnSearched(Top.restricted => rw.proper)
  <2>1. PICK rw \in TopRewrites(t, new) :
              /\ bank' = FlagAndLink(bank, t, rw)
              /\ ReturnSearched(Top.restricted => rw.proper)
    BY <1>3
  <2>2. rw.to \in Term /\ Greater(t, rw.to) /\ rw.proper \in BOOLEAN
    BY <1>1, InSearch, TopRewritesFacts
  <2>3. Grown(bank, bank', garbage_state)
    <3>1. Grown(bank, FlagAndLink(bank, t, rw), garbage_state)
      BY <1>1, <2>2, InSearch, FlagAndLinkFacts
    <3> QED
      BY <2>1, <3>1
  <2> DEFINE res == Top.restricted => rw.proper
  <2>4. res \in BOOLEAN /\ ReturnSearched(res) /\ (~res => Top.restricted)
    BY <2>1
  <2> HIDE DEF res
  <2>5. ~(~res /\ ~Top.restricted)
    BY <2>4
  <2> QED
    BY <1>1, <2>3, <2>4, <2>5, SearchGrows, ReturnSearchedStep
<1> QED
  BY <1>2, <1>3 DEF SearchTop

LEMMA EndSearchStep == IInv /\ EndSearch => IInv'
<1> SUFFICES ASSUME IInv, EndSearch
             PROVE  IInv'
  OBVIOUS
<1> DEFINE given == cur.clause
<1>1. pc = "search" /\ searched = Nothing /\ todo = {} /\ Activate(given, bank, found)
  BY DEF EndSearch
<1>2. IsDemodulator(given)
  BY <1>1, InSearch DEF IsDemodulator
<1>3. CleanForAll(Kept(given, problem.indexed), processed)
  BY <1>1, InSearch DEF Kept
<1>4. \A c \in processed \ found : Clean(Kept(c, problem.indexed), given)
  <2>1. ASSUME NEW c \in processed \ found
        PROVE  Clean(UnrestrictedCells(c), given)
    BY <1>1, InSearch DEF IsSearched
  <2> QED
    BY <1>1, <2>1, InSearch DEF Kept
<1>5. Extends(bank, bank, garbage_state)
  BY <1>1, InSearch, GrownFacts DEF Grown
<1> QED
  BY <1>1, <1>2, <1>3, <1>4, <1>5, InSearch, ActivateStep

LEMMA SearchStepInv == IInv /\ SearchStep => IInv'
BY StartSearchStep, SearchClauseStep, AnswerAtOnceStep, SearchArgumentStep, ArgumentFoundStep,
   SearchTopStep, EndSearchStep DEF SearchStep

LEMMA ClauseStepInv == IInv /\ ClauseStep => IInv'
BY SelectClauseStep, NormalizeAgainStep, KeepContractedStep, DiscardContractedStep,
   ProcessNegativeStep, ProcessWithIndexStep, GenerateStep, InsertNewClauseStep,
   NormalizeVictimStep, ClauseInsertedStep, DiscardStep, ResetProcessedStep DEF ClauseStep

----------------------------------------------------------------------------
(* Steps of the garbage collection *)

LEMMA CollectGarbageStep == IInv /\ CollectGarbage => IInv'
<1> SUFFICES ASSUME IInv, CollectGarbage
             PROVE  IInv'
  OBVIOUS
<1>1. /\ pc = "loop" /\ gcs < MaxGC /\ gcs' = gcs + 1 /\ pc' = "mark" /\ todo' = Roots
      /\ UNCHANGED <<problem, garbage_state, later, bank, sets, cur, stack, searched, found>>
  BY DEF CollectGarbage, AtLoopHead, AtLoop
<1> USE DEF sets
<1>2. /\ Idle /\ SetsType /\ GoodBank(bank) /\ FlagsAre(bank, garbage_state)
      /\ \A t \in Roots : HasCellIn(bank, t)
      /\ TrueDates(bank, processed) /\ DatesUpTo(bank, DemodDate(FullRewrite))
      /\ DemodDatesIn(processed, set_date) /\ Interreduced
  BY <1>1, NotInSearch, LoopIsIdle
<1>3. SetsType'
  <2>1. gcs' \in 0..MaxGC
    BY <1>1, <1>2, ProblemAssumption DEF SetsType
  <2> QED
    BY <1>1, <1>2, <2>1 DEF SetsType
<1>4. Roots' = Roots /\ Roots \subseteq Term
  BY <1>1, <1>2 DEF Roots, TermsOf, SetsType, ClauseType
<1>5. Idle' /\ PhaseType'
  BY <1>1, <1>2, <1>4 DEF PhaseType, Idle
<1>6. ClausesHaveCells'
  <2>1. InWork' = {}
    BY <1>5 DEF InWork, Idle
  <2> QED
    BY <1>1, <1>2, <1>4, <2>1 DEF ClausesHaveCells, TermsOf
<1>7. DatesUpTo(bank, Today)'
  BY <1>1, <1>2 DEF Today, DemodDate
<1>8. Interreduced'
  BY <1>1, <1>2 DEF Interreduced, OthersOf
<1>9. MarkInv'
  BY <1>1, <1>2, <1>4 DEF MarkInv, IsMarked, FlagsAre
<1>10. NormalInv' /\ SearchInv'
  BY <1>1 DEF NormalInv, SearchInv
<1>11. GoodBank(bank)' /\ DemodDatesIn(processed, set_date)' /\ TrueDates(bank, processed)'
  BY <1>1, <1>2
<1> QED
  BY <1>1, <1>3, <1>5, <1>6, <1>7, <1>8, <1>9, <1>10, <1>11 DEF IInv

LEMMA InGC ==
    ASSUME IInv, pc = "mark"
    PROVE  /\ Idle /\ todo \subseteq Term /\ SetsType /\ GoodBank(bank) /\ garbage_state \in BOOLEAN
           /\ \A t \in Roots : HasCellIn(bank, t)
           /\ TrueDates(bank, processed) /\ DatesUpTo(bank, DemodDate(FullRewrite))
           /\ DemodDatesIn(processed, set_date) /\ Interreduced
           /\ \A t \in todo : HasCellIn(bank, t)
           /\ \A t \in Roots : IsMarked(t, bank, todo, garbage_state)
           /\ \A t \in DOMAIN bank : bank[t].flag # garbage_state =>
                 \A s \in ReachedIn(bank, t) : IsMarked(s, bank, todo, garbage_state)
<1>1. Idle /\ todo \subseteq Term
  BY DEF IInv, PhaseType
<1>2. DatesUpTo(bank, DemodDate(FullRewrite))
  BY DEF IInv, Today
<1> QED
  BY <1>1, <1>2 DEF IInv, SetsType, ClausesHaveCells, MarkInv

(* What marking reaches has cells. *)
LEMMA ReachedFacts ==
    ASSUME NEW b, GoodBank(b), NEW t \in DOMAIN b, NEW s \in ReachedIn(b, t)
    PROVE  s \in Term /\ HasCellIn(b, s)
<1>1. t \in Term /\ Cells(t) \subseteq DOMAIN b /\ b[t] \in CellType
  BY DEF GoodBank, GoodCell
<1>2. CASE \E i \in Positions(t) : s = ArgsOf(t)[i]
  <2>1. PICK i \in Positions(t) : s = ArgsOf(t)[i]
    BY <1>2
  <2>2. s \in Term /\ Cells(s) \subseteq Cells(t)
    BY <1>1, <2>1, ArgsFacts, CellsFacts
  <2> QED
    BY <1>1, <2>2, CellsFacts DEF HasCellIn
<1>3. CASE b[t].replace # NoTerm /\ s = b[t].replace
  BY <1>1, <1>3 DEF GoodBank, GoodCell, CellType
<1> QED
  BY <1>2, <1>3 DEF ReachedIn, ArgSet

(* A step of the collection that keeps dates and links *)
LEMMA GCStepCommon ==
    ASSUME IInv, pc = "mark", UNCHANGED <<problem, later, gcs, sets, cur, stack, searched, found>>,
           garbage_state' \in BOOLEAN, GoodBank(bank'), DOMAIN bank' \subseteq DOMAIN bank,
           \A t \in DOMAIN bank' : /\ bank'[t].replace = bank[t].replace
                                   /\ bank'[t].nf_date = bank[t].nf_date,
           \A t \in Roots : HasCellIn(bank', t),
           \/ pc' = "mark" /\ todo' \subseteq Term
           \/ pc' = "loop" /\ todo' = {} /\ FlagsAre(bank', garbage_state'),
           MarkInv'
    PROVE  IInv'
<1> USE DEF sets
<1>1. SetsType' /\ DemodDatesIn(processed, set_date)'
  BY InGC DEF SetsType
<1>2. Idle' /\ PhaseType'
  BY InGC DEF PhaseType, Idle
<1>3. ClausesHaveCells'
  <2>1. Roots' = Roots /\ InWork' = {}
    BY <1>2 DEF Roots, TermsOf, InWork, Idle
  <2> QED
    BY <2>1 DEF ClausesHaveCells, TermsOf
<1>4. DatesUpTo(bank, Today)'
  <2>1. Today' = DemodDate(FullRewrite)
    BY DEF Today, DemodDate
  <2> QED
    BY <2>1, InGC DEF DatesUpTo
<1>5. TrueDates(bank, processed)'
  BY InGC DEF TrueDates
<1>6. Interreduced'
  BY InGC DEF Interreduced, OthersOf
<1>7. NormalInv' /\ SearchInv'
  BY DEF NormalInv, SearchInv
<1> QED
  BY <1>1, <1>2, <1>3, <1>4, <1>5, <1>6, <1>7 DEF IInv

LEMMA MarkTermsStep == IInv /\ MarkTerms => IInv'
<1> SUFFICES ASSUME IInv, MarkTerms
             PROVE  IInv'
  OBVIOUS
<1> DEFINE new == Unmarked
<1>1. /\ pc = "mark" /\ pc' = "mark"
      /\ bank' = [t \in DOMAIN bank |-> IF t \in new THEN [bank[t] EXCEPT !.flag = ~@] ELSE bank[t]]
      /\ todo' = UNION {Reached(t) : t \in new}
      /\ UNCHANGED <<store, sets, pc, cur, stack, searched, found>>
  BY DEF MarkTerms
<1>2. GoodBank(bank) /\ garbage_state \in BOOLEAN /\ todo \subseteq Term
  BY <1>1, InGC
<1>3. /\ new \subseteq DOMAIN bank /\ \A t \in new : ~IsFreeVar(t) /\ bank[t].flag = garbage_state
      /\ \A t \in todo \ new : IsFreeVar(t) \/ bank[t].flag # garbage_state
  BY <1>1, InGC DEF Unmarked, HasCellIn
<1> HIDE DEF new
<1>4. ASSUME NEW t \in DOMAIN bank
      PROVE  /\ bank'[t] \in CellType /\ bank'[t].replace = bank[t].replace
             /\ bank'[t].nf_date = bank[t].nf_date /\ bank'[t].top = bank[t].top
             /\ bank'[t].always = bank[t].always
             /\ t \in new => bank'[t].flag # garbage_state
             /\ t \notin new => bank'[t].flag = bank[t].flag
  <2>1. bank[t] \in CellType /\ bank[t].flag \in BOOLEAN
    BY <1>2 DEF GoodBank, GoodCell, CellType
  <2>2. CASE t \in new
    <3>1. bank'[t] = [bank[t] EXCEPT !.flag = ~@]
      BY <1>1, <2>2
    <3>2. bank'[t].flag = ~bank[t].flag
      BY <2>1, <3>1 DEF CellType
    <3>3. bank'[t].flag # garbage_state
      BY <1>2, <1>3, <2>1, <2>2, <3>2
    <3> QED
      BY <2>1, <2>2, <3>1, <3>3 DEF CellType
  <2>3. CASE t \notin new
    BY <1>1, <2>1, <2>3
  <2> QED
    BY <2>2, <2>3
<1>5. DOMAIN bank' = DOMAIN bank
  BY <1>1
<1>6. GoodBank(bank')
  BY <1>2, <1>4, <1>5 DEF GoodBank, GoodCell, HasCellIn
<1>7. ASSUME NEW t \in new
      PROVE  Reached(t) = ReachedIn(bank, t) /\ ReachedIn(bank', t) = ReachedIn(bank, t)
  <2>1. t \in DOMAIN bank /\ ~IsFreeVar(t)
    BY <1>3
  <2> QED
    BY <1>4, <2>1 DEF Reached, ReachedIn, IsRewritten
<1>8. todo' \subseteq Term /\ \A t \in todo' : HasCellIn(bank', t)
  <2> SUFFICES ASSUME NEW s \in todo'
               PROVE  s \in Term /\ HasCellIn(bank', s)
    OBVIOUS
  <2>1. PICK t \in new : s \in ReachedIn(bank, t)
    BY <1>1, <1>7
  <2> QED
    BY <1>2, <1>3, <1>5, <2>1, ReachedFacts DEF HasCellIn
<1>9. ASSUME NEW s, HasCellIn(bank, s), IsMarked(s, bank, todo, garbage_state)
      PROVE  IsMarked(s, bank', todo', garbage_state)
  <2> SUFFICES ASSUME ~IsFreeVar(s)
               PROVE  bank'[s].flag # garbage_state
    BY DEF IsMarked
  <2>1. s \in DOMAIN bank
    BY <1>9 DEF HasCellIn
  <2>2. s \in new \/ bank[s].flag # garbage_state
    BY <1>3, <1>9 DEF IsMarked
  <2> QED
    BY <1>4, <2>1, <2>2
<1>10. MarkInv'
  <2>1. Roots' = Roots /\ garbage_state' = garbage_state
    BY <1>1 DEF Roots, TermsOf, sets, store
  <2>2. \A t \in Roots : IsMarked(t, bank', todo', garbage_state)
    BY <1>1, <1>9, InGC
  <2>3. ASSUME NEW t \in DOMAIN bank, bank'[t].flag # garbage_state, NEW s \in ReachedIn(bank', t)
        PROVE  IsMarked(s, bank', todo', garbage_state)
    <3>1. CASE t \in new
      BY <1>1, <1>7, <2>3, <3>1 DEF IsMarked
    <3>2. CASE t \notin new
      <4>1. bank[t].flag # garbage_state /\ s \in ReachedIn(bank, t)
        BY <1>4, <2>3, <3>2 DEF ReachedIn
      <4> QED
        BY <1>1, <1>2, <1>9, <4>1, InGC, ReachedFacts
    <3> QED
      BY <3>1, <3>2
  <2> QED
    BY <1>5, <1>8, <2>1, <2>2, <2>3 DEF MarkInv
<1>11. \A t \in Roots : HasCellIn(bank', t)
  BY <1>1, <1>5, InGC DEF HasCellIn
<1> QED
  BY <1>1, <1>2, <1>4, <1>5, <1>6, <1>8, <1>10, <1>11, GCStepCommon DEF store

LEMMA SweepStep == IInv /\ Sweep => IInv'
<1> SUFFICES ASSUME IInv, Sweep
             PROVE  IInv'
  OBVIOUS
<1> DEFINE live == {t \in DOMAIN bank : bank[t].flag # garbage_state}
<1>1. /\ pc = "mark" /\ pc' = "loop" /\ Unmarked = {} /\ todo' = {}
      /\ bank' = [t \in live |-> bank[t]] /\ garbage_state' = ~garbage_state
      /\ UNCHANGED <<problem, later, gcs, sets, cur, stack, searched, found>>
  BY DEF Sweep
<1>2. /\ GoodBank(bank) /\ garbage_state \in BOOLEAN
      /\ \A t \in todo : HasCellIn(bank, t)
  BY <1>1, InGC
<1>3. /\ live \subseteq DOMAIN bank /\ \A t \in live : bank[t].flag # garbage_state
      /\ \A t \in DOMAIN bank : bank[t].flag # garbage_state => t \in live
  OBVIOUS
<1> HIDE DEF live
<1>4. ASSUME NEW s, HasCellIn(bank, s), IsMarked(s, bank, todo, garbage_state)
      PROVE  IsFreeVar(s) \/ s \in live
  <2>1. IsFreeVar(s) \/ bank[s].flag # garbage_state
    BY <1>1, <1>4 DEF IsMarked, Unmarked
  <2> QED
    BY <1>3, <1>4, <2>1 DEF HasCellIn
<1>5. ASSUME NEW t \in live, NEW s \in ReachedIn(bank, t)
      PROVE  IsFreeVar(s) \/ s \in live
  <2>1. HasCellIn(bank, s)
    BY <1>2, <1>3, ReachedFacts
  <2>2. IsMarked(s, bank, todo, garbage_state)
    BY <1>1, <1>3, InGC
  <2> QED
    BY <1>4, <2>1, <2>2
<1>6. ASSUME NEW t \in live
      PROVE  Cells(t) \subseteq live
  <2> DEFINE S == {s \in Term : IsFreeVar(s) \/ s \in live}
  <2>1. t \in Term /\ t \in S
    BY <1>2, <1>3 DEF GoodBank, GoodCell
  <2>2. ASSUME NEW s \in S \cap SubtermsOf(t), NEW i \in Positions(s)
        PROVE  ArgsOf(s)[i] \in S \cap SubtermsOf(t)
    <3>1. s \in Term /\ s \in SubtermsOf(t) /\ (IsFreeVar(s) \/ s \in live)
      OBVIOUS
    <3>2. s \in live
      BY <3>1, ArgsFacts
    <3>3. ArgsOf(s)[i] \in ReachedIn(bank, s)
      BY DEF ReachedIn, ArgSet
    <3>4. ArgsOf(s)[i] \in Term /\ ArgsOf(s)[i] \in SubtermsOf(t)
      BY <2>1, <3>1, ArgsFacts, SubtermFacts
    <3> QED
      BY <1>5, <3>2, <3>3, <3>4
  <2> HIDE DEF S
  <2>3. SubtermsOf(t) \subseteq S
    BY <2>1, <2>2, SubtermInduction
  <2> QED
    BY <2>3 DEF S, Cells
<1>7. DOMAIN bank' = live /\ \A t \in live : bank'[t] = bank[t]
  BY <1>1
<1>8. GoodBank(bank')
  <2> SUFFICES ASSUME NEW t \in live
               PROVE  GoodCell(bank', t)
    BY <1>7 DEF GoodBank
  <2>1. GoodCell(bank, t)
    BY <1>2, <1>3 DEF GoodBank
  <2>2. bank[t].replace # NoTerm => HasCellIn(bank', bank[t].replace)
    BY <1>5, <1>7 DEF ReachedIn, HasCellIn
  <2> QED
    BY <1>6, <1>7, <2>1, <2>2 DEF GoodCell
<1>9. FlagsAre(bank', garbage_state')
  <2> SUFFICES ASSUME NEW t \in live
               PROVE  bank[t].flag = ~garbage_state
    BY <1>1, <1>7 DEF FlagsAre
  <2>1. bank[t].flag \in BOOLEAN /\ bank[t].flag # garbage_state
    BY <1>2, <1>3 DEF GoodBank, GoodCell, CellType
  <2> QED
    BY <1>2, <2>1
<1>10. \A t \in Roots : HasCellIn(bank', t)
  BY <1>1, <1>4, <1>7, InGC DEF HasCellIn
<1>11. MarkInv' /\ garbage_state' \in BOOLEAN
  BY <1>1 DEF MarkInv
<1> QED
  BY <1>1, <1>3, <1>7, <1>8, <1>9, <1>10, <1>11, GCStepCommon

LEMMA GCStepInv == IInv /\ GCStep => IInv'
BY CollectGarbageStep, MarkTermsStep, SweepStep DEF GCStep

----------------------------------------------------------------------------
(* The invariant *)

LEMMA InitInv == Init => IInv
<1> SUFFICES ASSUME Init
             PROVE  IInv
  OBVIOUS
<1> DEFINE terms == TermsOf(unprocessed)
           none == NoCells
<1>1. /\ problem \in Problems /\ garbage_state = FALSE
      /\ unprocessed = {Clause(ax) : ax \in problem.axioms}
      /\ bank = InsertAll(none, garbage_state, terms)
      /\ set_date = [i \in {RuleRewrite, FullRewrite} |-> 0]
      /\ processed = {} /\ archive = {} /\ tmp_store = {}
      /\ later = problem.later /\ gcs = 0
      /\ pc = "loop" /\ cur = Nothing /\ stack = <<>>
      /\ searched = Nothing /\ todo = {} /\ found = {}
  BY DEF Init
<1>2. problem.axioms \subseteq Axiom /\ problem.later \subseteq Axiom /\ gcs \in 0..MaxGC
  BY <1>1, ProblemAssumption DEF Axiom
<1>3. unprocessed \subseteq ClauseType
  BY <1>1, <1>2, ClauseFacts
<1>4. terms \subseteq Term
  BY <1>3 DEF TermsOf, ClauseType
<1>5. set_date \in [1..2 -> Nat] /\ set_date[1] = 0 /\ set_date[2] = 0
  <2>1. {RuleRewrite, FullRewrite} = 1..2
    BY DEF RuleRewrite, FullRewrite
  <2>2. set_date = [i \in 1..2 |-> 0]
    BY <1>1, <2>1
  <2> QED
    BY <2>2
<1>6. DOMAIN none = {} /\ GoodBank(none)
  BY DEF NoCells, GoodBank
<1> HIDE DEF none, terms
<1>7. Grown(none, bank, garbage_state) /\ \A t \in terms : HasCellIn(bank, t)
  BY <1>1, <1>4, <1>6, InsertAllFacts
<1>8. GoodBank(bank) /\ FlagsAre(bank, garbage_state)
  BY <1>1, <1>6, <1>7 DEF Grown, Extends, FlagsAre
<1>9. ClausesHaveCells
  <2>1. Roots = terms /\ InWork = {}
    BY <1>1 DEF Roots, TermsOf, InWork, terms
  <2> QED
    BY <1>7, <2>1 DEF ClausesHaveCells, TermsOf
<1>10. SetsType /\ PhaseType
  BY <1>1, <1>2, <1>3, <1>5 DEF SetsType, PhaseType, Idle
<1>11. DatesUpTo(bank, Today)
  <2>1. \A t \in DOMAIN bank : \A i \in 1..2 : bank[t].nf_date[i] = 0
    BY <1>6, <1>7 DEF Grown, SameDates
  <2>2. Today \in Nat
    BY <1>1, <1>5, DemodDateFacts DEF Today
  <2> QED
    BY <2>1, <2>2 DEF DatesUpTo
<1>12. DemodDatesIn(processed, set_date) /\ TrueDates(bank, processed) /\ Interreduced
  BY <1>1 DEF DemodDatesIn, TrueDates, DemodsIn, Interreduced
<1>13. NormalInv /\ SearchInv /\ MarkInv
  BY <1>1 DEF NormalInv, SearchInv, MarkInv
<1> QED
  BY <1>1, <1>8, <1>9, <1>10, <1>11, <1>12, <1>13 DEF IInv

LEMMA StutterInv == IInv /\ UNCHANGED vars => IInv'
<1> SUFFICES ASSUME IInv, UNCHANGED vars
             PROVE  IInv'
  OBVIOUS
<1> USE DEF vars, store, sets, search
<1>1. SetsType' /\ PhaseType'
  BY DEF IInv, SetsType, PhaseType, Idle
<1>2. (GoodBank(bank) /\ (pc # "mark" => FlagsAre(bank, garbage_state)))'
  BY DEF IInv
<1>3. ClausesHaveCells'
  BY DEF IInv, ClausesHaveCells, Roots, TermsOf, InWork
<1>4. (DemodDatesIn(processed, set_date) /\ TrueDates(bank, processed))'
  BY DEF IInv
<1>5. DatesUpTo(bank, Today)' /\ (pc = "search" => TrueSearchDates(bank, cur.clause, SearchDate))'
  BY DEF IInv, Today, SearchDate, NextDate, DemodDate
<1>6. NormalInv' /\ SearchInv' /\ Interreduced' /\ MarkInv'
  BY DEF IInv, NormalInv, SearchInv, Interreduced, OthersOf, MarkInv, Roots, TermsOf
<1> QED
  BY <1>1, <1>2, <1>3, <1>4, <1>5, <1>6 DEF IInv

LEMMA NextInv == IInv /\ [Next]_vars => IInv'
BY TermStepInv, SearchStepInv, ClauseStepInv, GCStepInv, StutterInv DEF Next

(* Nothing that is cached in a term lies, in any state of any run.         *)
THEOREM CellsAreRight == Spec => []IInv
BY InitInv, NextInv, PTL DEF Spec

LEMMA InvType == IInv => TypeOK
<1> SUFFICES ASSUME IInv
             PROVE  TypeOK
  OBVIOUS
<1>1. problem \in Problems /\ garbage_state \in BOOLEAN /\ gcs \in 0..MaxGC
  BY DEF IInv, SetsType
<1>2. pc \in {"loop", "normalize", "search", "mark"}
  BY DEF IInv, PhaseType
<1>3. ASSUME NEW t \in DOMAIN bank
      PROVE  /\ bank[t].flag \in BOOLEAN
             /\ IsRewritten(bank, t) => bank[t].top \/ bank[t].always
             /\ bank[t].rewritable \in {{}, Limited, Always}
  BY DEF IInv, GoodBank, GoodCell, CellType, IsRewritten
<1>4. \A t \in DOMAIN bank : \A i \in {RuleRewrite, FullRewrite} : bank[t].nf_date[i] <= Today
  BY DEF IInv, DatesUpTo, RuleRewrite, FullRewrite
<1> QED
  BY <1>1, <1>2, <1>3, <1>4 DEF TypeOK

LEMMA StackHasCells ==
    ASSUME IInv, NEW k \in DOMAIN stack
    PROVE  HasCell(stack[k].term)
<1>1. stack # <<>> /\ pc \in {"normalize", "search"}
  BY DEF IInv, PhaseType, Idle
<1>2. CASE pc = "normalize"
  <2>1. k \in 1..Len(stack)
    BY <1>2, InNormalize, LenProperties
  <2> QED
    BY <1>2, <2>1, InNormalize DEF NormalStack, NormalFrameOK, HasCellIn, HasCell
<1>3. CASE pc = "search"
  <2> DEFINE side == SideTerm(searched)
             t == stack[k].term
  <2>1. k \in 1..Len(stack)
    BY <1>3, InSearch, LenProperties
  <2>2. t \in SubtermsOf(side)
    BY <1>3, <2>1, InSearch DEF SearchStack, SearchFrameOK
  <2>3. side \in Term /\ searched.clause \in processed
    BY <1>1, <1>3, SearchTopFacts
  <2>4. side \in Roots
    BY <2>3 DEF SideTerm, Roots, TermsOf
  <2>5. HasCellIn(bank, side)
    BY <1>3, <2>4, InSearch
  <2>6. Cells(side) \subseteq DOMAIN bank
    BY <1>3, <2>3, <2>5, InSearch, CellsFacts DEF HasCellIn, GoodBank, GoodCell
  <2> QED
    BY <2>2, <2>6 DEF Cells, HasCell
<1> QED
  BY <1>1, <1>2, <1>3

LEMMA InvNothingDangles == IInv => NothingDangles
<1> SUFFICES ASSUME IInv
             PROVE  NothingDangles
  OBVIOUS
<1>1. \A t \in Roots \cup TermsOf(InWork) : HasCell(t)
  BY DEF IInv, ClausesHaveCells, HasCellIn, HasCell
<1>2. \A t \in DOMAIN bank : Cells(t) \subseteq DOMAIN bank
  BY DEF IInv, GoodBank, GoodCell
<1>3. \A t \in DOMAIN bank : IsRewritten(bank, t) => HasCell(bank[t].replace)
  BY DEF IInv, GoodBank, GoodCell, IsRewritten, HasCellIn, HasCell
<1>4. pc # "mark" => \A t \in DOMAIN bank : bank[t].flag = garbage_state
  BY DEF IInv, FlagsAre
<1> QED
  BY <1>1, <1>2, <1>3, <1>4, StackHasCells DEF NothingDangles

(* Every variable has its type, and no date is in the future.  A link for  *)
(* a step below the top may always be followed.                            *)
THEOREM TypesCorrect == Spec => []TypeOK
BY CellsAreRight, InvType, PTL

(* The collection frees no cell that a clause, a call of rewriting, another*)
(* cell or a link still leads to, and outside of a collection all cells    *)
(* have the flag that the next one expects (TBGCMarkTerm, TBGCSweep).      *)
THEOREM CollectionIsSafe == Spec => []NothingDangles
BY CellsAreRight, InvNothingDangles, PTL

(* Rewrite links lead to smaller terms: following them ends.               *)
THEOREM LinksAlwaysDescend == Spec => []LinksDescend
<1>1. IInv => LinksDescend
  BY DEF IInv, GoodBank, GoodCell, LinksDescend, IsRewritten
<1> QED
  BY <1>1, CellsAreRight, PTL

(* A normal form date is true: the demodulators that rewriting does not    *)
(* try because of it do not rewrite the term or a term in it.              *)
THEOREM DatesAlwaysTrue == Spec => []DatesAreTrue
<1>1. IInv => DatesAreTrue
  <2> SUFFICES ASSUME IInv, NEW t \in DOMAIN bank, ~IsRewritten(bank, t),
                      NEW i \in {RuleRewrite, FullRewrite}, NEW j \in 1..i,
                      NEW d \in DemodsIn(processed, j), d.date <= bank[t].nf_date[i]
               PROVE  ~Reducible(t, d)
    BY DEF DatesAreTrue
  <2>1. bank[t].replace = NoTerm
    BY DEF IInv, GoodBank, GoodCell, IsRewritten
  <2> QED
    BY <2>1 DEF IInv, TrueDates, RuleRewrite, FullRewrite
<1> QED
  BY <1>1, CellsAreRight, PTL

(* The processed clauses are in normal form with respect to each other,    *)
(* where backward rewriting looks, whatever links, dates and flags made    *)
(* rewriting and the search skip.                                          *)
THEOREM ProcessedInterreduced == Spec => []Interreduced
<1>1. IInv => Interreduced
  BY DEF IInv
<1> QED
  BY <1>1, CellsAreRight, PTL
=============================================================================
