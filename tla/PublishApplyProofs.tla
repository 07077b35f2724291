------------------------- MODULE PublishApplyProofs -------------------------
(* Proofs about PublishApply.tla, for every number of runs, plugins, versions *)
(* and submissions, and every bound on reports, attempts and commits.         *)
EXTENDS PublishApply, TLAPS

Holding == {"apply", "commit", "push"}

\* u lists what t lists and newer versions, and records what t records.
Advances(t, u) ==
    /\ t.versions \subseteq u.versions
    /\ \A x \in u.versions \ t.versions, y \in t.versions : x.id = y.id => x.ver > y.ver
    /\ t.records \subseteq u.records

\* A file holds one record, and a run dates all of its records in one month.
OneEach(t) ==
    \A d, e \in t.records :
        /\ RecordPath(d) = RecordPath(e) => d = e
        /\ d.by = e.by => d.month = e.month

\* No record a commit would add publishes what its parent withdrew.
Allowed(t, u) ==
    \A d \in u.records \ t.records :
        d.state = "published" => d.rel \notin t.denied /\ (d.owner => d.rel \in t.approved)

\* A run's tree is its base on main m and the reports it did not refuse or drop;
\* from the answer of AskMain on, main has withdrawn none of them unless it moved.
RunHolds(m, r, w) ==
    w.phase \in Holding =>
        /\ w.at \in 1..Len(m) /\ w.next >= 1
        /\ Advances(m[w.at], w.tree) /\ OneEach(w.tree)
        /\ \A d \in w.tree.records \ m[w.at].records :
              \E i \in DOMAIN w.reports \ w.withdrawn : d = RecordOf(r, w.reports[i])
        /\ \A i, j \in DOMAIN w.reports : w.reports[i].month = w.reports[j].month
        /\ \A i \in DOMAIN w.reports : i < w.next => i \in w.refused \/ RecordOf(r, w.reports[i]) \in w.tree.records
        /\ w.phase # "apply" => w.next > Len(w.reports) /\ w.tree.index = Catalogue(w.tree)
        /\ w.phase = "push" /\ Len(m) = w.at =>
              \A i \in DOMAIN w.reports \ w.withdrawn : ~WithdrawnBy(m[w.at], w.reports[i])

\* A run that has not pushed has no record on main.
Unpushed(m, r, w) ==
    w.phase \in Holding \cup {"waiting"} => \A i \in 1..Len(m) : \A d \in m[i].records : d.by # r

\* One that has names the commit that added what it wrote.
PushHolds(m, w) ==
    w.phase = "pushed" =>
        /\ w.commit \in 1..Len(m) /\ w.commit > 1
        /\ \A d \in w.written : d \in m[w.commit].records /\ d \notin m[w.commit - 1].records

Holds(m, r, w) == RunHolds(m, r, w) /\ Unpushed(m, r, w) /\ PushHolds(m, w)

RunTypes == {Waiting} \cup Working \cup Pushed \cup Done

MainHolds ==
    /\ main # <<>>
    /\ VersionsOnlyAdvance /\ DecisionsAreFinal /\ WithdrawnNeverLands /\ IndexDescribesTree
    /\ OneEach(Tip)

IInv ==
    /\ TypeOK
    /\ MainHolds
    /\ \A r \in Runs : Holds(main, r, run[r])
    /\ ResultsAreTrue

-----------------------------------------------------------------------------
(* Types                                                                     *)

\* A run's members, by its phase.
LEMMA PhaseTypes ==
    ASSUME TypeOK, NEW r \in Runs
    PROVE  /\ run[r] \in {Waiting} \cup Working \cup Pushed \cup Done
           /\ run[r].phase \in Holding => run[r] \in Working
           /\ run[r].phase = "pushed" => run[r] \in Pushed
           /\ run[r].phase = "waiting" <=> run[r] = Waiting
<1>1. run[r] \in {Waiting} \cup Working \cup Pushed \cup Done
  BY DEF TypeOK
<1>2. CASE run[r] = Waiting
  BY <1>2 DEF Waiting, Holding, Working, Pushed, Done
<1>3. CASE run[r] \in Working
  BY <1>3 DEF Waiting, Holding, Working, Pushed, Done
<1>4. CASE run[r] \in Pushed
  BY <1>4 DEF Waiting, Holding, Working, Pushed, Done
<1>5. CASE run[r] \in Done
  BY <1>5 DEF Waiting, Holding, Working, Pushed, Done
<1> QED
  BY <1>1, <1>2, <1>3, <1>4, <1>5

LEMMA WorkingTypes ==
    ASSUME NEW w \in Working
    PROVE  /\ w.phase \in Holding /\ w.at \in Nat /\ w.reports \in Seq(Reports) /\ w.next \in Nat
           /\ w.tree \in Trees /\ w.changed \in BOOLEAN /\ w.refused \in SUBSET Nat
           /\ w.withdrawn \in SUBSET Nat /\ w.attempt \in 1..ATTEMPTS
           /\ DOMAIN w.reports = 1..Len(w.reports) /\ Len(w.reports) \in Nat
           /\ \A i \in 1..Len(w.reports) : w.reports[i] \in Reports
<1>1. /\ w.phase \in Holding /\ w.at \in Nat /\ w.reports \in Seq(Reports) /\ w.next \in Nat
      /\ w.tree \in Trees /\ w.changed \in BOOLEAN /\ w.refused \in SUBSET Nat
      /\ w.withdrawn \in SUBSET Nat /\ w.attempt \in 1..ATTEMPTS
  BY DEF Working, Holding
<1> QED
  BY <1>1

LEMMA RecordType ==
    ASSUME NEW r \in Runs, NEW q \in Reports
    PROVE  RecordOf(r, q) \in Records /\ RecordOf(r, q).by = r
           /\ RecordOf(r, q).sub = q.sub /\ RecordOf(r, q).state = q.state
           /\ RecordOf(r, q).rel = q.rel /\ RecordOf(r, q).owner = q.owner
           /\ RecordPath(RecordOf(r, q)) = RecordPath(q) /\ RecordOf(r, q).month = q.month
BY DEF RecordOf, Records, Reports, RecordPath, DecisionId

LEMMA TreeTypes ==
    ASSUME NEW t \in Trees
    PROVE  /\ t.versions \in SUBSET Releases /\ t.pages \in SUBSET Releases /\ t.records \in SUBSET Records
           /\ t.index \in [versions : SUBSET Releases, pages : SUBSET Releases]
           /\ t.denied \in SUBSET Releases /\ t.approved \in SUBSET Releases
BY DEF Trees

LEMMA MainTypes ==
    ASSUME TypeOK
    PROVE  /\ main \in Seq(Trees) /\ Len(main) \in Nat /\ DOMAIN main = 1..Len(main)
           /\ \A i \in 1..Len(main) : main[i] \in Trees
           /\ main # <<>> => Len(main) >= 1 /\ Tip \in Trees
BY DEF TypeOK, Tip

-----------------------------------------------------------------------------
(* One report                                                                *)

\* A report that is not refused adds its record and, if it publishes, a version
\* that is listed already or newer than those of its plugin.
LEMMA AppliedAdvances ==
    ASSUME NEW t \in Trees, NEW u \in Trees, NEW r \in Runs, NEW q \in Reports,
           Advances(t, u), OneEach(u), ~Refuses(u, r, q),
           \A d \in u.records : d.by = r => d.month = q.month
    PROVE  /\ Applied(u, r, q) \in Trees
           /\ Advances(t, Applied(u, r, q)) /\ OneEach(Applied(u, r, q))
           /\ Applied(u, r, q).records = u.records \cup {RecordOf(r, q)}
<1> DEFINE v == Applied(u, r, q)
<1>1. /\ RecordOf(r, q) \in Records /\ RecordPath(RecordOf(r, q)) = RecordPath(q)
      /\ RecordOf(r, q).by = r /\ RecordOf(r, q).month = q.month
  BY RecordType
<1>2. q.rel \in Releases
  BY DEF Reports
<1>3. \A d \in u.records : RecordPath(d) = RecordPath(q) => d = RecordOf(r, q)
  BY DEF Refuses, RewritesRecord
<1>4. {d \in u.records : RecordPath(d) # RecordPath(q)} \cup {RecordOf(r, q)} = u.records \cup {RecordOf(r, q)}
  BY <1>3
<1>5. /\ v \in Trees /\ v.records = u.records \cup {RecordOf(r, q)}
      /\ v.versions = IF q.state = "published" THEN u.versions \cup {q.rel} ELSE u.versions
  BY <1>1, <1>2, <1>4 DEF Applied, Trees
<1>6. OneEach(v)
  BY <1>1, <1>3, <1>5 DEF OneEach
<1>7. \A x \in v.versions \ t.versions, y \in t.versions : x.id = y.id => x.ver > y.ver
  <2> SUFFICES ASSUME NEW x \in v.versions \ t.versions, NEW y \in t.versions, x.id = y.id
               PROVE  x.ver > y.ver
    OBVIOUS
  <2>1. CASE x \in u.versions
    BY <2>1 DEF Advances
  <2>2. CASE x \notin u.versions
    <3>1. q.state = "published" /\ x = q.rel
      BY <2>2, <1>5
    <3>2. y \in u.versions /\ y \in Releases /\ x \in Releases
      BY <3>1, <1>2, TreeTypes DEF Advances
    <3>3. ~(y.ver >= x.ver)
      BY <3>1, <3>2, <2>2 DEF Refuses, Regresses
    <3> QED
      BY <3>2, <3>3 DEF Releases
  <2> QED
    BY <2>1, <2>2
<1> QED
  BY <1>5, <1>6, <1>7 DEF Advances

-----------------------------------------------------------------------------
(* One commit more on main                                                   *)

\* A commit that advances on the tip, adds nothing the tip withdrew and carries
\* its own index keeps what main promises.
LEMMA MainGrows ==
    ASSUME TypeOK, MainHolds, NEW t \in Trees, main' = Append(main, t),
           Advances(Tip, t), OneEach(t), Allowed(Tip, t), t.index = Catalogue(t)
    PROVE  MainHolds'
<1>0. /\ Len(main) \in Nat /\ Len(main) >= 1 /\ Len(main') = Len(main) + 1
      /\ DOMAIN main = 1..Len(main) /\ DOMAIN main' = 1..(Len(main) + 1)
      /\ main'[Len(main) + 1] = t
      /\ \A i \in 1..Len(main) : main'[i] = main[i]
      /\ \A i \in 1..Len(main) : main[i] \in Trees
  BY MainTypes DEF MainHolds
<1>1. Tip = main[Len(main)] /\ Tip' = t
  BY <1>0 DEF Tip
<1>2. main' # <<>>
  BY <1>0
<1>3. VersionsOnlyAdvance'
  <2> SUFFICES ASSUME NEW i \in DOMAIN main', NEW j \in DOMAIN main', i < j
               PROVE  /\ main'[i].versions \subseteq main'[j].versions
                      /\ \A x \in main'[j].versions \ main'[i].versions, y \in main'[i].versions :
                            x.id = y.id => x.ver > y.ver
    BY DEF VersionsOnlyAdvance
  <2>1. CASE j <= Len(main)
    BY <2>1, <1>0 DEF MainHolds, VersionsOnlyAdvance
  <2>2. CASE j = Len(main) + 1 /\ i = Len(main)
    BY <2>2, <1>0, <1>1 DEF Advances
  <2>3. CASE j = Len(main) + 1 /\ i < Len(main)
    <3>1. /\ main[i].versions \subseteq Tip.versions
          /\ \A x \in Tip.versions \ main[i].versions, y \in main[i].versions : x.id = y.id => x.ver > y.ver
      BY <2>3, <1>0, <1>1 DEF MainHolds, VersionsOnlyAdvance
    <3> QED
      BY <3>1, <2>3, <1>0 DEF Advances
  <2> QED
    BY <2>1, <2>2, <2>3, <1>0
<1>4. DecisionsAreFinal'
  <2>1. \A i, j \in DOMAIN main' : i < j => main'[i].records \subseteq main'[j].records
    <3> SUFFICES ASSUME NEW i \in DOMAIN main', NEW j \in DOMAIN main', i < j
                 PROVE  main'[i].records \subseteq main'[j].records
      OBVIOUS
    <3>1. CASE j <= Len(main)
      BY <3>1, <1>0 DEF MainHolds, DecisionsAreFinal
    <3>2. CASE j = Len(main) + 1
      <4>1. main[i].records \subseteq Tip.records
        BY <3>2, <1>0, <1>1 DEF MainHolds, DecisionsAreFinal
      <4> QED
        BY <4>1, <3>2, <1>0 DEF Advances
    <3> QED
      BY <3>1, <3>2, <1>0
  <2> QED
    BY <2>1, <1>1 DEF DecisionsAreFinal, OneEach, RecordPath
<1>5. WithdrawnNeverLands'
  <2> SUFFICES ASSUME NEW i \in DOMAIN main', i > 1, NEW d \in main'[i].records \ main'[i - 1].records,
                      d.state = "published"
               PROVE  d.rel \notin main'[i - 1].denied /\ (d.owner => d.rel \in main'[i - 1].approved)
    BY DEF WithdrawnNeverLands
  <2>1. CASE i <= Len(main)
    BY <2>1, <1>0 DEF MainHolds, WithdrawnNeverLands
  <2>2. CASE i = Len(main) + 1
    BY <2>2, <1>0, <1>1 DEF Allowed
  <2> QED
    BY <2>1, <2>2, <1>0
<1>6. IndexDescribesTree'
  BY <1>0 DEF MainHolds, IndexDescribesTree, Catalogue
<1> QED
  BY <1>1, <1>2, <1>3, <1>4, <1>5, <1>6 DEF MainHolds

\* What a run or a result says of main's commits stays true of a longer main.
LEMMA OthersKept ==
    ASSUME NEW m \in Seq(Trees), NEW t \in Trees, NEW r \in Runs, NEW w, Holds(m, r, w),
           w.phase \in Holding \cup {"waiting"} => \A d \in t.records : d.by # r
    PROVE  Holds(Append(m, t), r, w)
<1> DEFINE n == Append(m, t)
<1>0. /\ Len(m) \in Nat /\ Len(n) = Len(m) + 1 /\ n[Len(m) + 1] = t
      /\ \A i \in 1..Len(m) : n[i] = m[i]
  OBVIOUS
<1>1. RunHolds(n, r, w)
  BY <1>0 DEF Holds, RunHolds
<1>2. PushHolds(n, w)
  BY <1>0 DEF Holds, PushHolds
<1>3. Unpushed(n, r, w)
  BY <1>0 DEF Holds, Unpushed
<1> QED
  BY <1>1, <1>2, <1>3 DEF Holds

LEMMA ResultsKept ==
    ASSUME TypeOK, ResultsAreTrue, NEW t \in Trees, main' = Append(main, t), results' = results
    PROVE  ResultsAreTrue' /\ results' \subseteq [rec : Records, commit : DOMAIN main']
<1>0. /\ Len(main) \in Nat /\ Len(main') = Len(main) + 1
      /\ DOMAIN main = 1..Len(main) /\ DOMAIN main' = 1..(Len(main) + 1)
      /\ \A i \in 1..Len(main) : main'[i] = main[i]
  BY MainTypes
<1>1. \A x \in results : x.rec \in Records /\ x.commit \in 1..Len(main)
  BY <1>0 DEF TypeOK
<1>2. results' \subseteq [rec : Records, commit : DOMAIN main']
  BY <1>0 DEF TypeOK
<1> QED
  BY <1>0, <1>1, <1>2 DEF ResultsAreTrue

-----------------------------------------------------------------------------
(* The two kinds of step                                                     *)

\* A step of one run that leaves main alone.
LEMMA RunStep ==
    ASSUME IInv, NEW r \in Runs, NEW w \in RunTypes, Holds(main, r, w),
           run' = [run EXCEPT ![r] = w], main' = main, results' = results
    PROVE  IInv'
<1>1. run \in [Runs -> RunTypes]
  BY DEF IInv, TypeOK, RunTypes
<1>2. run' \in [Runs -> RunTypes] /\ \A q \in Runs : run'[q] = IF q = r THEN w ELSE run[q]
  BY <1>1
<1>3. TypeOK'
  BY <1>2 DEF IInv, TypeOK, RunTypes
<1>4. MainHolds'
  BY DEF IInv, MainHolds, VersionsOnlyAdvance, DecisionsAreFinal, WithdrawnNeverLands, IndexDescribesTree, Tip
<1>5. \A q \in Runs : Holds(main', q, run'[q])
  BY <1>2 DEF IInv
<1>6. ResultsAreTrue'
  BY DEF IInv, ResultsAreTrue
<1> QED
  BY <1>3, <1>4, <1>5, <1>6 DEF IInv

\* One that puts a commit on main.
LEMMA MainStep ==
    ASSUME IInv, NEW t \in Trees, main' = Append(main, t), results' = results,
           Advances(Tip, t), OneEach(t), Allowed(Tip, t), t.index = Catalogue(t),
           run' \in [Runs -> RunTypes], \A q \in Runs : Holds(main', q, run'[q])
    PROVE  IInv'
<1>1. MainHolds'
  BY MainGrows DEF IInv
<1>2. ResultsAreTrue' /\ results' \subseteq [rec : Records, commit : DOMAIN main']
  BY ResultsKept DEF IInv
<1>3. main' \in Seq(Trees)
  BY MainTypes DEF IInv
<1>4. TypeOK'
  BY <1>2, <1>3 DEF TypeOK, RunTypes
<1> QED
  BY <1>1, <1>2, <1>4 DEF IInv

\* A run that ended promises nothing more.
LEMMA DoneHolds ==
    ASSUME NEW m, NEW r \in Runs, NEW w \in Done
    PROVE  w \in RunTypes /\ Holds(m, r, w)
<1>1. w.phase = "done"
  BY DEF Done
<1> QED
  BY <1>1 DEF RunTypes, Holds, RunHolds, Unpushed, PushHolds, Holding

LEMMA EndType ==
    ASSUME TypeOK, NEW r \in Runs, run[r].phase \in Holding, NEW outcome \in Outcomes
    PROVE  End(r, outcome) \in Done
<1>1. run[r] \in Working
  BY PhaseTypes
<1>2. \A i \in DOMAIN run[r].reports : run[r].reports[i] \in Reports
  BY <1>1, WorkingTypes
<1>3. \A i \in DOMAIN run[r].reports : run[r].reports[i].rel.id \in Ids
  BY <1>2 DEF Reports, Releases
<1> QED
  BY <1>3 DEF End, Done

\* Every tree of main has one record in each file, and advances on itself.
LEMMA MainTrees ==
    ASSUME TypeOK, MainHolds, NEW i \in 1..Len(main)
    PROVE  OneEach(main[i]) /\ Advances(main[i], main[i]) /\ main[i] \in Trees
<1>1. main[i].records \subseteq Tip.records
  BY MainTypes DEF MainHolds, DecisionsAreFinal, Tip
<1> QED
  BY <1>1, MainTypes DEF MainHolds, OneEach, Advances

\* Starting again, on any commit, with more reports dropped.
LEMMA AgainHolds ==
    ASSUME IInv, NEW r \in Runs, NEW w \in Working, Holds(main, r, w), NEW at \in 1..Len(main),
           NEW attempt \in 1..ATTEMPTS, NEW withdrawn \in SUBSET Nat
    PROVE  Again(w, at, attempt, withdrawn) \in RunTypes /\ Holds(main, r, Again(w, at, attempt, withdrawn))
<1> DEFINE v == Again(w, at, attempt, withdrawn)
<1>1. OneEach(main[at]) /\ Advances(main[at], main[at]) /\ main[at] \in Trees
  BY MainTrees DEF IInv
<1>2. /\ v \in Working /\ v.phase = "apply" /\ v.at = at /\ v.next = 1 /\ v.tree = main[at]
      /\ v.reports = w.reports /\ v.refused = {} /\ v.withdrawn = withdrawn
  <2>1. at \in Nat
    BY MainTypes DEF IInv
  <2>2. /\ v.phase = "apply" /\ v.at = at /\ v.next = 1 /\ v.tree = main[at]
        /\ v.reports = w.reports /\ v.refused = {} /\ v.withdrawn = withdrawn
    BY DEF Again, Working
  <2>3. v \in Working
    BY <1>1, <2>1 DEF Again, Working
  <2> QED
    BY <2>2, <2>3
<1>3. RunHolds(main, r, v)
  <2>1. \A i \in DOMAIN v.reports : ~(i < v.next)
    BY <1>2, WorkingTypes
  <2>2. \A i, j \in DOMAIN v.reports : v.reports[i].month = v.reports[j].month
    BY <1>2, WorkingTypes DEF Holds, RunHolds
  <2> QED
    BY <1>1, <1>2, <2>1, <2>2 DEF RunHolds
<1>4. w.phase \in Holding
  BY WorkingTypes
<1>5. Unpushed(main, r, v) /\ PushHolds(main, v)
  BY <1>2, <1>4 DEF Holds, Unpushed, PushHolds, Holding
<1> QED
  BY <1>2, <1>3, <1>5 DEF RunTypes, Holds
-----------------------------------------------------------------------------
(* The steps of a run                                                        *)

LEMMA ComposeStep ==
    ASSUME IInv, NEW r \in Runs, Compose(r)
    PROVE  IInv'
<1>1. PICK at \in DOMAIN main, n \in 1..MaxReports :
        \E reports \in [1..n -> {q \in Reports : Decidable(main[at], q)}] :
           /\ \A i, j \in 1..n : reports[i].month = reports[j].month
           /\ run' = [run EXCEPT ![r] =
             [phase |-> "apply", at |-> at, reports |-> reports, next |-> 1, tree |-> main[at],
              changed |-> FALSE, refused |-> {}, withdrawn |-> {}, attempt |-> 1]]
  BY DEF Compose
<1>2. PICK reports \in [1..n -> Reports] :
        /\ \A i, j \in 1..n : reports[i].month = reports[j].month
        /\ run' = [run EXCEPT ![r] =
             [phase |-> "apply", at |-> at, reports |-> reports, next |-> 1, tree |-> main[at],
              changed |-> FALSE, refused |-> {}, withdrawn |-> {}, attempt |-> 1]]
  BY <1>1
<1> DEFINE w == [phase |-> "apply", at |-> at, reports |-> reports, next |-> 1, tree |-> main[at],
                 changed |-> FALSE, refused |-> {}, withdrawn |-> {}, attempt |-> 1]
<1>3. at \in 1..Len(main) /\ at \in Nat
  BY MainTypes DEF IInv
<1>4. OneEach(main[at]) /\ Advances(main[at], main[at]) /\ main[at] \in Trees
  BY <1>3, MainTrees DEF IInv
<1>5. reports \in Seq(Reports) /\ DOMAIN reports = 1..n /\ n \in Nat
  BY BoundsAssumption
<1>6. w \in Working
  BY <1>3, <1>4, <1>5, BoundsAssumption DEF Working
<1>7. run[r].phase = "waiting" /\ Unpushed(main, r, run[r])
  BY DEF Compose, Waiting, IInv, Holds
<1>8. RunHolds(main, r, w)
  <2>1. \A i \in DOMAIN w.reports : ~(i < w.next)
    BY <1>5
  <2> QED
    BY <1>2, <1>3, <1>4, <1>5, <2>1 DEF RunHolds
<1>9. Holds(main, r, w)
  BY <1>7, <1>8 DEF Holds, Unpushed, PushHolds
<1> QED
  BY <1>2, <1>6, <1>9, RunStep DEF Compose, RunTypes

LEMMA ApplyReportStep ==
    ASSUME IInv, NEW r \in Runs, ApplyReport(r)
    PROVE  IInv'
<1> DEFINE w == run[r]
           q == w.reports[w.next]
           skipped == [w EXCEPT !.next = @ + 1, !.refused = @ \cup {w.next}]
           copied == [w EXCEPT !.next = @ + 1, !.tree = Applied(@, r, q),
                               !.changed = @ \/ q.state = "published" \/ RecordOf(r, q) \notin w.tree.records]
<1>1. w.phase = "apply" /\ w.next <= Len(w.reports) /\ w \in Working
  BY PhaseTypes DEF ApplyReport, IInv, Holding
<1>2. /\ w.at \in Nat /\ w.next \in Nat /\ w.tree \in Trees /\ w.changed \in BOOLEAN
      /\ w.refused \in SUBSET Nat /\ w.withdrawn \in SUBSET Nat
      /\ DOMAIN w.reports = 1..Len(w.reports) /\ Len(w.reports) \in Nat
      /\ \A i \in 1..Len(w.reports) : w.reports[i] \in Reports
  BY <1>1, WorkingTypes
<1>3. RunHolds(main, r, w) /\ Unpushed(main, r, w)
  BY DEF IInv, Holds
<1>4. /\ w.at \in 1..Len(main) /\ w.next >= 1 /\ Advances(main[w.at], w.tree) /\ OneEach(w.tree) /\ main[w.at] \in Trees
      /\ \A d \in w.tree.records \ main[w.at].records :
            \E i \in DOMAIN w.reports \ w.withdrawn : d = RecordOf(r, w.reports[i])
      /\ \A i, j \in DOMAIN w.reports : w.reports[i].month = w.reports[j].month
      /\ \A i \in DOMAIN w.reports : i < w.next => i \in w.refused \/ RecordOf(r, w.reports[i]) \in w.tree.records
  BY <1>1, <1>3, MainTypes DEF RunHolds, Holding, IInv
<1>5. CASE w.next \in w.withdrawn \/ Refuses(w.tree, r, q)
  <2>1. run' = [run EXCEPT ![r] = skipped]
    BY <1>5 DEF ApplyReport
  <2>2. /\ skipped \in Working /\ skipped.phase = "apply" /\ skipped.at = w.at /\ skipped.reports = w.reports
        /\ skipped.next = w.next + 1 /\ skipped.tree = w.tree /\ skipped.withdrawn = w.withdrawn
        /\ skipped.refused = w.refused \cup {w.next}
    <3>1. /\ skipped.phase = "apply" /\ skipped.at = w.at /\ skipped.reports = w.reports
          /\ skipped.next = w.next + 1 /\ skipped.tree = w.tree /\ skipped.withdrawn = w.withdrawn
          /\ skipped.refused = w.refused \cup {w.next}
      BY <1>1 DEF Working
    <3>2. w.next + 1 \in Nat /\ w.refused \cup {w.next} \in SUBSET Nat
      BY <1>2
    <3>3. skipped \in Working
      BY <1>1, <3>2 DEF Working
    <3> QED
      BY <3>1, <3>3
  <2>3. \A i \in DOMAIN w.reports : i < w.next + 1 =>
            i \in w.refused \cup {w.next} \/ RecordOf(r, w.reports[i]) \in w.tree.records
    BY <1>2, <1>4
  <2> HIDE DEF skipped
  <2>4. RunHolds(main, r, skipped)
    <3>1. /\ skipped.at \in 1..Len(main) /\ skipped.next >= 1
          /\ Advances(main[skipped.at], skipped.tree) /\ OneEach(skipped.tree)
      BY <1>2, <1>4, <2>2
    <3>2. \A i, j \in DOMAIN skipped.reports : skipped.reports[i].month = skipped.reports[j].month
      BY <1>4, <2>2
    <3> QED
      BY <1>4, <2>2, <2>3, <3>1, <3>2 DEF RunHolds
  <2>5. Holds(main, r, skipped)
    BY <1>1, <1>3, <2>2, <2>4 DEF Holds, Unpushed, PushHolds, Holding
  <2> QED
    BY <2>1, <2>2, <2>5, RunStep DEF ApplyReport, RunTypes
<1>6. CASE w.next \notin w.withdrawn /\ ~Refuses(w.tree, r, q)
  <2>1. run' = [run EXCEPT ![r] = copied]
    BY <1>6 DEF ApplyReport
  <2>2. w.next \in DOMAIN w.reports
    BY <1>1, <1>2, <1>4
  <2>3. q \in Reports
    BY <1>1, <1>2, <2>2
  <2>0. \A d \in w.tree.records : d.by = r => d.month = q.month
    <3> SUFFICES ASSUME NEW d \in w.tree.records, d.by = r
                 PROVE  d.month = q.month
      OBVIOUS
    <3>1. d \notin main[w.at].records
      BY <1>1, <1>3, <1>4 DEF Unpushed, Holding
    <3>2. PICK i \in DOMAIN w.reports : d = RecordOf(r, w.reports[i])
      BY <1>4, <3>1
    <3> QED
      BY <1>2, <1>4, <2>2, <3>2, RecordType
  <2>4. /\ Applied(w.tree, r, q) \in Trees
        /\ Advances(main[w.at], Applied(w.tree, r, q)) /\ OneEach(Applied(w.tree, r, q))
        /\ Applied(w.tree, r, q).records = w.tree.records \cup {RecordOf(r, q)}
    BY <1>2, <1>4, <1>6, <2>3, <2>0, AppliedAdvances
  <2>5. /\ copied \in Working /\ copied.phase = "apply" /\ copied.at = w.at /\ copied.reports = w.reports
        /\ copied.next = w.next + 1 /\ copied.tree = Applied(w.tree, r, q)
        /\ copied.withdrawn = w.withdrawn /\ copied.refused = w.refused
    <3>1. /\ copied.phase = "apply" /\ copied.at = w.at /\ copied.reports = w.reports
          /\ copied.next = w.next + 1 /\ copied.tree = Applied(w.tree, r, q)
          /\ copied.withdrawn = w.withdrawn /\ copied.refused = w.refused
      BY <1>1 DEF Working
    <3>2. w.next + 1 \in Nat
      BY <1>2
    <3>3. (w.changed \/ q.state = "published" \/ RecordOf(r, q) \notin w.tree.records) \in BOOLEAN
      OBVIOUS
    <3>4. copied \in Working
      BY <1>1, <2>4, <3>2, <3>3 DEF Working
    <3> QED
      BY <3>1, <3>4
  <2>6. \A i \in DOMAIN w.reports : i < w.next + 1 =>
            i \in w.refused \/ RecordOf(r, w.reports[i]) \in Applied(w.tree, r, q).records
    BY <1>2, <1>4, <2>4
  <2>7. \A d \in Applied(w.tree, r, q).records \ main[w.at].records :
            \E i \in DOMAIN w.reports \ w.withdrawn : d = RecordOf(r, w.reports[i])
    BY <1>4, <1>6, <2>2, <2>4
  <2> HIDE DEF copied
  <2>8. RunHolds(main, r, copied)
    <3>1. /\ copied.at \in 1..Len(main) /\ copied.next >= 1
          /\ Advances(main[copied.at], copied.tree) /\ OneEach(copied.tree)
      BY <1>2, <1>4, <2>4, <2>5
    <3>2. \A d \in copied.tree.records \ main[copied.at].records :
              \E i \in DOMAIN copied.reports \ copied.withdrawn : d = RecordOf(r, copied.reports[i])
      BY <2>5, <2>7
    <3>3. \A i \in DOMAIN copied.reports : i < copied.next =>
              i \in copied.refused \/ RecordOf(r, copied.reports[i]) \in copied.tree.records
      BY <2>5, <2>6
    <3>4. \A i, j \in DOMAIN copied.reports : copied.reports[i].month = copied.reports[j].month
      BY <1>4, <2>5
    <3> QED
      BY <2>5, <3>1, <3>2, <3>3, <3>4 DEF RunHolds
  <2>9. Holds(main, r, copied)
    BY <1>1, <1>3, <2>5, <2>8 DEF Holds, Unpushed, PushHolds, Holding
  <2> QED
    BY <2>1, <2>5, <2>9, RunStep DEF ApplyReport, RunTypes
<1> QED
  BY <1>5, <1>6

\* A run that ends does so from wherever it is.
LEMMA EndStep ==
    ASSUME IInv, NEW r \in Runs, NEW outcome \in Outcomes, run[r].phase \in Holding,
           run' = [run EXCEPT ![r] = End(r, outcome)], main' = main, results' = results
    PROVE  IInv'
<1>1. End(r, outcome) \in Done
  BY EndType DEF IInv
<1>2. End(r, outcome) \in RunTypes /\ Holds(main, r, End(r, outcome))
  BY <1>1, DoneHolds
<1> QED
  BY <1>2, RunStep

LEMMA SettleStep ==
    ASSUME IInv, NEW r \in Runs, NEW passes \in BOOLEAN, Settle(r, passes)
    PROVE  IInv'
<1> DEFINE w == run[r]
           tree == [w.tree EXCEPT !.index = Catalogue(w.tree)]
           ready == [w EXCEPT !.phase = "commit", !.tree = tree]
<1>1. w.phase = "apply" /\ w.next > Len(w.reports) /\ w \in Working /\ w.phase \in Holding
  BY PhaseTypes DEF Settle, IInv, Holding
<1>2. CASE \E outcome \in Outcomes : run' = [run EXCEPT ![r] = End(r, outcome)]
  BY <1>1, <1>2, EndStep DEF Settle
<1>3. CASE run' = [run EXCEPT ![r] = ready]
  <2>1. w.tree \in Trees
    BY <1>1, WorkingTypes
  <2>2. /\ tree \in Trees /\ tree.versions = w.tree.versions /\ tree.pages = w.tree.pages
        /\ tree.records = w.tree.records /\ tree.index = Catalogue(w.tree)
    BY <2>1 DEF Trees, Catalogue
  <2>3. tree.index = Catalogue(tree)
    BY <2>2 DEF Catalogue
  <2>4. /\ ready.phase = "commit" /\ ready.at = w.at /\ ready.reports = w.reports /\ ready.next = w.next
        /\ ready.tree = tree /\ ready.withdrawn = w.withdrawn /\ ready.refused = w.refused
    BY <1>1 DEF Working
  <2>5. ready \in Working
    BY <1>1, <2>2 DEF Working
  <2>6. RunHolds(main, r, w) /\ Unpushed(main, r, w)
    BY DEF IInv, Holds
  <2> HIDE DEF ready, tree
  <2>7. RunHolds(main, r, ready)
    BY <1>1, <2>2, <2>3, <2>4, <2>6 DEF RunHolds, Advances, OneEach
  <2>8. Holds(main, r, ready)
    BY <1>1, <2>4, <2>6, <2>7 DEF Holds, Unpushed, PushHolds, Holding
  <2> QED
    BY <1>3, <2>5, <2>8, RunStep DEF Settle, RunTypes
<1> QED
  BY <1>2, <1>3 DEF Settle, Outcomes

LEMMA AskMainStep ==
    ASSUME IInv, NEW r \in Runs, NEW fetched \in BOOLEAN, AskMain(r, fetched)
    PROVE  IInv'
<1> DEFINE w == run[r]
           withdrawn == {n \in DOMAIN w.reports \ w.withdrawn : WithdrawnBy(main[Len(main)], w.reports[n])}
           asked == [w EXCEPT !.phase = "push"]
<1>1. w.phase = "commit" /\ w \in Working /\ w.phase \in Holding
  BY PhaseTypes DEF AskMain, IInv, Holding
<1>2. /\ w.at \in 1..Len(main) /\ w.attempt \in 1..ATTEMPTS /\ w.withdrawn \in SUBSET Nat
      /\ DOMAIN w.reports = 1..Len(w.reports) /\ Len(w.reports) \in Nat
  BY <1>1, WorkingTypes DEF IInv, Holds, RunHolds
<1>3. Holds(main, r, w)
  BY DEF IInv
<1>4. CASE ~fetched
  BY <1>1, <1>4, EndStep DEF AskMain, Outcomes
<1>5. CASE fetched /\ withdrawn = {}
  <2>1. run' = [run EXCEPT ![r] = asked]
    BY <1>5 DEF AskMain
  <2>2. /\ asked.phase = "push" /\ asked.at = w.at /\ asked.reports = w.reports /\ asked.next = w.next
        /\ asked.tree = w.tree /\ asked.withdrawn = w.withdrawn /\ asked.refused = w.refused
    BY <1>1 DEF Working
  <2>3. asked \in Working
    BY <1>1 DEF Working
  <2>4. \A i \in DOMAIN w.reports \ w.withdrawn : ~WithdrawnBy(main[Len(main)], w.reports[i])
    BY <1>5
  <2> HIDE DEF asked
  <2>5. RunHolds(main, r, asked)
    BY <1>1, <1>3, <2>2, <2>4 DEF Holds, RunHolds
  <2>6. Holds(main, r, asked)
    BY <1>1, <1>3, <2>2, <2>5 DEF Holds, Unpushed, PushHolds, Holding
  <2> QED
    BY <2>1, <2>3, <2>6, RunStep DEF AskMain, RunTypes
<1>6. CASE fetched /\ withdrawn # {}
  <2>1. w.withdrawn \cup withdrawn \in SUBSET Nat
    BY <1>2
  <2>2. run' = [run EXCEPT ![r] = Again(w, w.at, w.attempt, w.withdrawn \cup withdrawn)]
    BY <1>6 DEF AskMain
  <2> HIDE DEF withdrawn
  <2>3. /\ Again(w, w.at, w.attempt, w.withdrawn \cup withdrawn) \in RunTypes
        /\ Holds(main, r, Again(w, w.at, w.attempt, w.withdrawn \cup withdrawn))
    BY <1>1, <1>2, <1>3, <2>1, AgainHolds
  <2> QED
    BY <2>2, <2>3, RunStep DEF AskMain
<1> QED
  BY <1>4, <1>5, <1>6

LEMMA PushRejectedStep ==
    ASSUME IInv, NEW r \in Runs, PushRejected(r)
    PROVE  IInv'
<1> DEFINE w == run[r]
<1>1. w.phase = "push" /\ w \in Working /\ w.phase \in Holding
  BY PhaseTypes DEF PushRejected, IInv, Holding
<1>2. /\ w.attempt \in 1..ATTEMPTS /\ w.withdrawn \in SUBSET Nat /\ Holds(main, r, w)
      /\ Len(main) \in 1..Len(main)
  BY <1>1, WorkingTypes, MainTypes DEF IInv, MainHolds
<1>3. CASE w.attempt < ATTEMPTS
  <2>1. w.attempt + 1 \in 1..ATTEMPTS
    BY <1>2, <1>3, BoundsAssumption
  <2>2. /\ Again(w, Len(main), w.attempt + 1, w.withdrawn) \in RunTypes
        /\ Holds(main, r, Again(w, Len(main), w.attempt + 1, w.withdrawn))
    BY <1>1, <1>2, <2>1, AgainHolds
  <2> QED
    BY <1>3, <2>2, RunStep DEF PushRejected
<1>4. CASE ~(w.attempt < ATTEMPTS)
  BY <1>1, <1>4, EndStep DEF PushRejected, Outcomes
<1> QED
  BY <1>3, <1>4

LEMMA CrashStep ==
    ASSUME IInv, NEW r \in Runs, Crash(r)
    PROVE  IInv'
<1> DEFINE w == [phase |-> "done", outcome |-> "crashed", ids |-> {}]
<1>1. w \in Done
  BY DEF Done, Outcomes
<1>2. w \in RunTypes /\ Holds(main, r, w)
  BY <1>1, DoneHolds
<1> QED
  BY <1>2, RunStep DEF Crash

\* The commit that a push lands advances on the tip it was built on, publishes
\* nothing that tip withdrew, and adds every record the result will name.
LEMMA PushLandsStep ==
    ASSUME IInv, NEW r \in Runs, NEW acknowledged \in BOOLEAN, PushLands(r, acknowledged)
    PROVE  IInv'
<1> DEFINE w == run[r]
           n == Append(main, w.tree)
           v == IF acknowledged THEN [phase |-> "pushed", written |-> Written(r), commit |-> Len(main) + 1]
                                ELSE End(r, "broke")
<1>1. w.phase = "push" /\ w \in Working /\ w.phase \in Holding
  BY PhaseTypes DEF PushLands, IInv, Holding
<1>2. main' = n /\ results' = results /\ run' = [run EXCEPT ![r] = v] /\ Len(main) = w.at
  BY DEF PushLands, FastForward
<1>3. /\ w.tree \in Trees /\ w.next \in Nat /\ w.refused \in SUBSET Nat /\ Len(w.reports) \in Nat
      /\ DOMAIN w.reports = 1..Len(w.reports)
      /\ \A i \in DOMAIN w.reports : w.reports[i] \in Reports
  BY <1>1, WorkingTypes
<1>4. /\ main \in Seq(Trees) /\ Len(main) \in Nat /\ Len(main) >= 1 /\ Tip = main[Len(main)] /\ Tip \in Trees
      /\ Len(n) = Len(main) + 1 /\ n[Len(main) + 1] = w.tree
      /\ \A i \in 1..Len(main) : n[i] = main[i]
  BY <1>3, MainTypes DEF IInv, MainHolds, Tip
<1>5. RunHolds(main, r, w) /\ Unpushed(main, r, w)
  BY DEF IInv, Holds
<1>6. /\ Advances(Tip, w.tree) /\ OneEach(w.tree) /\ w.tree.index = Catalogue(w.tree)
      /\ \A d \in w.tree.records \ Tip.records : \E i \in DOMAIN w.reports \ w.withdrawn : d = RecordOf(r, w.reports[i])
      /\ \A i \in DOMAIN w.reports : i < w.next => i \in w.refused \/ RecordOf(r, w.reports[i]) \in w.tree.records
      /\ w.next > Len(w.reports)
      /\ \A i \in DOMAIN w.reports \ w.withdrawn : ~WithdrawnBy(Tip, w.reports[i])
  BY <1>1, <1>2, <1>4, <1>5 DEF RunHolds
<1>7. Allowed(Tip, w.tree)
  <2> SUFFICES ASSUME NEW d \in w.tree.records \ Tip.records, d.state = "published"
               PROVE  d.rel \notin Tip.denied /\ (d.owner => d.rel \in Tip.approved)
    BY DEF Allowed
  <2>1. PICK i \in DOMAIN w.reports \ w.withdrawn : d = RecordOf(r, w.reports[i])
    BY <1>6
  <2>2. /\ d.state = w.reports[i].state /\ d.rel = w.reports[i].rel /\ d.owner = w.reports[i].owner
    BY <1>3, <2>1, RecordType
  <2> QED
    BY <1>6, <2>2 DEF WithdrawnBy
<1>8. \A d \in Tip.records : d.by # r
  BY <1>1, <1>4, <1>5 DEF Unpushed
<1>9. \A d \in w.tree.records \ Tip.records : d.by = r
  BY <1>3, <1>6, RecordType
<1>10. v \in RunTypes /\ Holds(n, r, v)
  <2>1. CASE acknowledged
    <3>1. \A d \in Written(r) : d \in Records /\ d.by = r /\ d \in w.tree.records
      <4> SUFFICES ASSUME NEW i \in DOMAIN w.reports \ w.refused
                   PROVE  /\ RecordOf(r, w.reports[i]) \in Records /\ RecordOf(r, w.reports[i]).by = r
                          /\ RecordOf(r, w.reports[i]) \in w.tree.records
        BY DEF Written
      <4>1. i < w.next
        BY <1>3, <1>6
      <4> QED
        BY <1>3, <1>6, <4>1, RecordType
    <3>2. v \in Pushed /\ v.phase = "pushed" /\ v.commit = Len(main) + 1 /\ v.written = Written(r)
      BY <1>4, <2>1, <3>1 DEF Pushed
    <3>3. \A d \in Written(r) : d \in n[Len(main) + 1].records /\ d \notin n[Len(main)].records
      BY <1>4, <1>8, <3>1
    <3>4. PushHolds(n, v)
      BY <1>4, <3>2, <3>3 DEF PushHolds
    <3>5. Holds(n, r, v)
      BY <3>2, <3>4 DEF Holds, RunHolds, Unpushed, Holding
    <3> QED
      BY <3>2, <3>5 DEF RunTypes
  <2>2. CASE ~acknowledged
    <3>1. v \in Done
      BY <1>1, <2>2, EndType DEF IInv, Outcomes
    <3> QED
      BY <3>1, DoneHolds
  <2> QED
    BY <2>1, <2>2
<1> HIDE DEF v, n
<1>11. \A q \in Runs \ {r} : Holds(n, q, run[q])
  <2> SUFFICES ASSUME NEW q \in Runs \ {r}
               PROVE  Holds(n, q, run[q])
    OBVIOUS
  <2>1. Holds(main, q, run[q])
    BY DEF IInv
  <2>2. run[q].phase \in Holding \cup {"waiting"} => \A d \in w.tree.records : d.by # q
    BY <1>4, <1>9, <2>1 DEF Holds, Unpushed
  <2> QED
    BY <1>3, <1>4, <2>1, <2>2, OthersKept DEF n
<1>12. run \in [Runs -> RunTypes]
  BY DEF IInv, TypeOK, RunTypes
<1>13. run' \in [Runs -> RunTypes] /\ \A q \in Runs : Holds(main', q, run'[q])
  BY <1>2, <1>10, <1>11, <1>12
<1> QED
  BY <1>2, <1>3, <1>6, <1>7, <1>13, MainStep DEF n

LEMMA FinalizeStep ==
    ASSUME IInv, NEW r \in Runs, Finalize(r)
    PROVE  IInv'
<1> DEFINE w == [phase |-> "done", outcome |-> "committed", ids |-> {}]
           named == {[rec |-> d, commit |-> run[r].commit] : d \in run[r].written}
<1>1. run[r] \in Pushed /\ PushHolds(main, run[r]) /\ run[r].phase = "pushed"
  BY PhaseTypes DEF Finalize, IInv, Holds
<1>2. w \in Done
  BY DEF Done, Outcomes
<1>3. w \in RunTypes /\ Holds(main, r, w)
  BY <1>2, DoneHolds
<1>4. run \in [Runs -> RunTypes] /\ run' = [run EXCEPT ![r] = w] /\ main' = main /\ results' = results \cup named
  BY DEF Finalize, IInv, TypeOK, RunTypes
<1>5. run' \in [Runs -> RunTypes] /\ \A q \in Runs : Holds(main', q, run'[q])
  BY <1>3, <1>4 DEF IInv
<1>6. named \subseteq [rec : Records, commit : DOMAIN main]
  BY <1>1, MainTypes DEF IInv, PushHolds, Pushed
<1>7. \A x \in named : x.commit > 1 /\ x.rec \in main[x.commit].records \ main[x.commit - 1].records
  BY <1>1 DEF PushHolds
<1> HIDE DEF named, w
<1>8. MainHolds'
  BY <1>4 DEF IInv, MainHolds, VersionsOnlyAdvance, DecisionsAreFinal, WithdrawnNeverLands, IndexDescribesTree, Tip
<1>9. TypeOK'
  BY <1>4, <1>5, <1>6 DEF IInv, TypeOK, RunTypes
<1>10. ResultsAreTrue'
  BY <1>4, <1>7 DEF IInv, ResultsAreTrue
<1> QED
  BY <1>5, <1>8, <1>9, <1>10 DEF IInv

-----------------------------------------------------------------------------
(* Everyone else's                                                           *)

\* A deny, an approval, a revocation or another commit leaves versions, records
\* and the index as they were.
LEMMA OthersStep ==
    ASSUME IInv, Others
    PROVE  IInv'
<1>1. /\ main \in Seq(Trees) /\ Len(main) \in Nat /\ Len(main) >= 1 /\ Tip = main[Len(main)] /\ Tip \in Trees
      /\ Tip.index = Catalogue(Tip) /\ OneEach(Tip)
  BY MainTypes, MainTrees DEF IInv, MainHolds, IndexDescribesTree, Tip
<1>2. PICK t \in Trees : /\ main' = Append(main, t) /\ UNCHANGED <<run, results>>
                         /\ t.versions = Tip.versions /\ t.pages = Tip.pages
                         /\ t.records = Tip.records /\ t.index = Tip.index
  <2>1. CASE LandDeny
    <3>1. PICK x \in Releases : Lands("deny", [Tip EXCEPT !.denied = @ \cup {x}])
      BY <2>1 DEF LandDeny
    <3>2. [Tip EXCEPT !.denied = @ \cup {x}] \in Trees
      BY <1>1 DEF Trees
    <3> QED
      BY <1>1, <3>1, <3>2 DEF Lands, Trees
  <2>2. CASE LandApproval
    <3>1. PICK x \in Releases : Lands("approval", [Tip EXCEPT !.approved = @ \cup {x}])
      BY <2>2 DEF LandApproval
    <3>2. [Tip EXCEPT !.approved = @ \cup {x}] \in Trees
      BY <1>1 DEF Trees
    <3> QED
      BY <1>1, <3>1, <3>2 DEF Lands, Trees
  <2>3. CASE LandRevocation
    <3>1. [Tip EXCEPT !.approved = {}] \in Trees
      BY <1>1 DEF Trees
    <3> QED
      BY <1>1, <2>3, <3>1 DEF LandRevocation, Lands, Trees
  <2>4. CASE LandOther
    BY <1>1, <2>4 DEF LandOther, Lands
  <2> QED
    BY <2>1, <2>2, <2>3, <2>4 DEF Others
<1>3. Advances(Tip, t) /\ OneEach(t) /\ Allowed(Tip, t) /\ t.index = Catalogue(t)
  BY <1>1, <1>2 DEF Advances, OneEach, Allowed, Catalogue
<1>4. \A q \in Runs : Holds(main', q, run'[q])
  <2> SUFFICES ASSUME NEW q \in Runs
               PROVE  Holds(main', q, run'[q])
    OBVIOUS
  <2>1. Holds(main, q, run[q])
    BY DEF IInv
  <2>2. run[q].phase \in Holding \cup {"waiting"} => \A d \in t.records : d.by # q
    BY <1>1, <1>2, <2>1 DEF Holds, Unpushed
  <2>3. Holds(Append(main, t), q, run[q])
    BY <1>1, <2>1, <2>2, OthersKept
  <2> QED
    BY <1>2, <2>3
<1>5. run' \in [Runs -> RunTypes]
  BY <1>2 DEF IInv, TypeOK, RunTypes
<1> QED
  BY <1>2, <1>3, <1>4, <1>5, MainStep

-----------------------------------------------------------------------------
(* The theorems                                                              *)

LEMMA InitHolds == Init => IInv
<1> SUFFICES ASSUME Init PROVE IInv
  OBVIOUS
<1>1. EmptyTree \in Trees
  BY DEF EmptyTree, Trees
<1>2. /\ main = <<EmptyTree>> /\ Len(main) = 1 /\ DOMAIN main = 1..1 /\ main[1] = EmptyTree /\ main \in Seq(Trees)
      /\ run = [r \in Runs |-> Waiting] /\ results = {}
  BY <1>1 DEF Init
<1>3. TypeOK
  BY <1>2 DEF TypeOK
<1>4. MainHolds
  <2>1. main # <<>> /\ \A i, j \in DOMAIN main : i = 1 /\ j = 1
    BY <1>2
  <2>2. VersionsOnlyAdvance /\ WithdrawnNeverLands
    BY <2>1 DEF VersionsOnlyAdvance, WithdrawnNeverLands
  <2>3. DecisionsAreFinal
    BY <1>2, <2>1 DEF DecisionsAreFinal, Tip, EmptyTree
  <2>4. IndexDescribesTree
    BY <1>2 DEF IndexDescribesTree, Catalogue, EmptyTree
  <2>5. OneEach(Tip)
    BY <1>2 DEF OneEach, Tip, EmptyTree
  <2> QED
    BY <2>1, <2>2, <2>3, <2>4, <2>5 DEF MainHolds
<1>5. \A r \in Runs : Holds(main, r, run[r])
  BY <1>2 DEF Holds, RunHolds, Unpushed, PushHolds, Holding, Waiting, EmptyTree
<1> QED
  BY <1>2, <1>3, <1>4, <1>5 DEF IInv, ResultsAreTrue

LEMMA NextHolds == IInv /\ [Next]_vars => IInv'
<1> SUFFICES ASSUME IInv, [Next]_vars PROVE IInv'
  OBVIOUS
<1>1. CASE Others
  BY <1>1, OthersStep
<1>2. ASSUME NEW r \in Runs, Crash(r) PROVE IInv'
  BY <1>2, CrashStep
<1>3. ASSUME NEW r \in Runs, Step(r) PROVE IInv'
  <2>1. CASE Compose(r)
    BY <2>1, ComposeStep
  <2>2. CASE ApplyReport(r)
    BY <2>2, ApplyReportStep
  <2>3. CASE PushBreaks(r)
    BY <2>3, EndStep DEF PushBreaks, Outcomes, Holding
  <2>4. CASE PushRejected(r)
    BY <2>4, PushRejectedStep
  <2>5. CASE Finalize(r)
    BY <2>5, FinalizeStep
  <2>6. ASSUME NEW ok \in BOOLEAN, Settle(r, ok) PROVE IInv'
    BY <2>6, SettleStep
  <2>7. ASSUME NEW ok \in BOOLEAN, AskMain(r, ok) PROVE IInv'
    BY <2>7, AskMainStep
  <2>8. ASSUME NEW ok \in BOOLEAN, PushLands(r, ok) PROVE IInv'
    BY <2>8, PushLandsStep
  <2> QED
    BY <1>3, <2>1, <2>2, <2>3, <2>4, <2>5, <2>6, <2>7, <2>8 DEF Step
<1>4. CASE UNCHANGED vars
  <2>1. main' = main /\ run' = run /\ results' = results
    BY <1>4 DEF vars
  <2> QED
    BY <2>1 DEF IInv, TypeOK, MainHolds, VersionsOnlyAdvance, DecisionsAreFinal, WithdrawnNeverLands,
                IndexDescribesTree, ResultsAreTrue, Tip
<1> QED
  BY <1>1, <1>2, <1>3, <1>4 DEF Next

\* Main and every run keep what the invariant says of them, whatever the order
\* of composing, applying, asking, pushing and other people's commits.
THEOREM Invariance == Spec => []IInv
BY InitHolds, NextHolds, PTL DEF Spec

\* The state has the types the module declares.
THEOREM TypeCorrect == Spec => []TypeOK
BY Invariance, PTL DEF IInv

\* INV-12 between any two commits of main: no listed version is rewritten or
\* lost, and one that is listed later is newer.
THEOREM VersionsAdvance == Spec => []VersionsOnlyAdvance
BY Invariance, PTL DEF IInv, MainHolds

\* DEC-7 and BOT-36: a decision that is recorded stays as it was written, and no
\* run records one twice; two runs do so only in two months.
THEOREM DecisionsStay == Spec => []DecisionsAreFinal
BY Invariance, PTL DEF IInv, MainHolds

\* TRUST-33: no commit publishes what its parent denied, or what its parent no
\* longer has the owner's approval of.
THEOREM WithdrawnStaysOut == Spec => []WithdrawnNeverLands
BY Invariance, PTL DEF IInv, MainHolds

\* Every commit's index is generated from its own tree.
THEOREM IndexIsItsOwn == Spec => []IndexDescribesTree
BY Invariance, PTL DEF IInv, MainHolds

\* BOT-6: a posted result names the commit that added its record.
THEOREM ResultsNameTheirCommit == Spec => []ResultsAreTrue
BY Invariance, PTL DEF IInv
=============================================================================
