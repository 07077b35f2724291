------------------------- MODULE SignerPagesProofs -------------------------
(* Proofs about SignerPages.tla: what GitHub Pages serves, for every number   *)
(* of runs, every order of publish and pages jobs, and every bound.           *)
EXTENDS SignerPages, SignerProofs

-----------------------------------------------------------------------------
(* The publish job and main, seen from the pages job                         *)

\* Every step keeps the publish job's invariant; `signed` changes by a
\* publication and main by one commit.
LEMMA SharedStep ==
    ASSUME IInv, [PagesNext]_allVars
    PROVE  /\ IInv'
           /\ signed' = signed \/ Served!Publish
           /\ main' = main \/ \E t \in Tree : main' = Append(main, t)
<1> DEFINE Goal == /\ IInv'
                   /\ signed' = signed \/ Served!Publish
                   /\ main' = main \/ \E t \in Tree : main' = Append(main, t)
<1>1. ASSUME UNCHANGED vars PROVE Goal
  BY <1>1, Inductive DEF vars
<1>2. ASSUME NEW kind, NEW t \in Tree, Lands(kind, t) PROVE Goal
  BY <1>2, LandStep DEF Lands
<1>3. CASE MainJob
  <2>1. Tip \in Tree
    BY DEF IInv, TypeOK, Tip
  <2>2. CASE MainMoves
    BY <1>2, <2>2, MainLands
  <2> QED
    BY <1>2, <1>3, <2>1, <2>2 DEF MainJob, MainMovesHere, LandRebuild, LandFlag
<1>4. CASE PublishJob
  <2>1. Next
    BY <1>4 DEF PublishJob, Next
  <2>2. IInv' /\ (signed' = signed \/ Served!Publish)
    BY <2>1, Inductive, SignedStep
  <2>3. main' = main
    BY <1>4 DEF PublishJob, Run, Start, Sign, SignBlind, SignAgainst, BuildCommit, Push, PushSucceeds, PushFails,
                Crash, Tick
  <2> QED
    BY <2>2, <2>3
<1>5. CASE PagesCheckout \/ PagesAssemble \/ PagesDeploy \/ PagesFails
  BY <1>1, <1>5 DEF PagesCheckout, PagesAssemble, PagesDeploy, PagesFails, vars
<1>6. CASE UNCHANGED allVars
  BY <1>1, <1>6 DEF allVars, vars
<1> QED
  BY <1>3, <1>4, <1>5, <1>6 DEF PagesNext

\* From a commit to any later one the serial and both issue times do not fall.
LogInOrder ==
    \A i, j \in 1..Len(signed) : i <= j =>
        /\ signed[i].index.content.serial <= signed[j].index.content.serial
        /\ signed[i].index.issued <= signed[j].index.issued
        /\ signed[i].list.issued <= signed[j].list.issued

LEMMA OrderStep ==
    ASSUME IInv, IInv', LogInOrder, Served!Publish
    PROVE  LogInOrder'
<1> DEFINE n == Len(signed)
           Before(c, d) == /\ c.index.content.serial <= d.index.content.serial
                           /\ c.index.issued <= d.index.issued
                           /\ c.list.issued <= d.list.issued
<1>1. n \in Nat /\ Len(signed') = n + 1 /\ \A i \in 1..n : signed'[i] = signed[i]
  BY DEF Served!Publish, IInv, TypeOK
<1>2. \A i \in 1..(n + 1) : /\ signed'[i].index.content.serial \in Nat
                            /\ signed'[i].index.issued \in Nat /\ signed'[i].list.issued \in Nat
  <2>1. \A c \in Commit : c.index \in IndexDoc /\ c.list \in ListDoc
    BY DEF Commit
  <2>2. \A doc \in IndexDoc : doc.content.serial \in Nat /\ doc.issued \in Nat
    BY DEF IndexDoc, IndexContent
  <2>3. \A doc \in ListDoc : doc.issued \in Nat
    BY DEF ListDoc
  <2>4. \A i \in 1..(n + 1) : signed'[i] \in Commit
    BY <1>1 DEF IInv, TypeOK
  <2> QED
    BY <2>1, <2>2, <2>3, <2>4
<1>3. \A i \in 1..(n + 1) : Before(signed'[i], signed'[i])
  BY <1>2
<1>4. n > 0 => Before(signed'[n], signed'[n + 1])
  <2> SUFFICES ASSUME n > 0 PROVE Before(signed'[n], signed'[n + 1])
    OBVIOUS
  <2>1. n \in 1..(n + 1) /\ n + 1 \in 1..(n + 1) /\ signed'[n] = signed[n]
    BY <1>1
  <2>2. Served!Follows(signed'[n + 1], signed'[n])
    BY <1>1, <2>1 DEF Served!Publish
  <2>3. /\ signed'[n + 1].index.content.serial >= signed'[n].index.content.serial
        /\ signed'[n + 1].index = signed'[n].index \/ signed'[n + 1].index.issued > signed'[n].index.issued
        /\ signed'[n + 1].list = signed'[n].list \/ signed'[n + 1].list.issued > signed'[n].list.issued
    BY <2>2 DEF Served!Follows, Served!SerialsHold, Served!Replaces
  <2> QED
    BY <1>2, <2>1, <2>3
<1>5. ASSUME NEW i \in 1..n, NEW j \in 1..n, i <= j PROVE Before(signed'[i], signed'[j])
  BY <1>1, <1>5 DEF LogInOrder
<1>6. ASSUME NEW i \in 1..n PROVE Before(signed'[i], signed'[n + 1])
  <2>1. n \in 1..n /\ i <= n /\ n > 0 /\ n + 1 \in 1..(n + 1) /\ i \in 1..(n + 1) /\ n \in 1..(n + 1)
    BY <1>1
  <2>2. Before(signed'[i], signed'[n]) /\ Before(signed'[n], signed'[n + 1])
    BY <1>4, <1>5, <2>1
  <2>3. \A a, b, c \in Nat : a <= b /\ b <= c => a <= c
    OBVIOUS
  <2>4. signed'[i].index.content.serial <= signed'[n + 1].index.content.serial
    BY <1>2, <2>1, <2>2, <2>3
  <2>5. signed'[i].index.issued <= signed'[n + 1].index.issued
    BY <1>2, <2>1, <2>2, <2>3
  <2>6. signed'[i].list.issued <= signed'[n + 1].list.issued
    BY <1>2, <2>1, <2>2, <2>3
  <2> QED
    BY <2>4, <2>5, <2>6
<1> HIDE DEF Before, n
<1>7. ASSUME NEW i \in 1..(n + 1), NEW j \in 1..(n + 1), i <= j PROVE Before(signed'[i], signed'[j])
  <2>1. i = j \/ (i \in 1..n /\ j \in 1..n) \/ (i \in 1..n /\ j = n + 1)
    BY <1>1, <1>7
  <2> QED
    BY <1>3, <1>5, <1>6, <1>7, <2>1
<1> QED
  BY <1>1, <1>7 DEF LogInOrder, Before

-----------------------------------------------------------------------------
(* What Pages serves                                                         *)

\* A signed list is not a committed one.
LEMMA ListsDiffer == \A x \in ListDoc : x \notin ListContent
BY DEF ListDoc, ListContent

LEMMA FilesAreSomething ==
    ASSUME NEW f \in Files
    PROVE  f # <<>> /\ f.list \in ListDoc \cup ListContent
<1>1. "index" \in DOMAIN f /\ f.list \in ListDoc \cup ListContent
  BY DEF Files
<1>2. DOMAIN <<>> = {}
  OBVIOUS
<1> QED
  BY <1>1, <1>2

\* Three of the documents are commit i's; the list is too, or main committed it.
TakenFrom(f, sg, i) ==
    /\ f.index = sg[i].index /\ f.trust = sg[i].trust /\ f.root = sg[i].root
    /\ f.list = sg[i].list \/ f.list \in ListContent

HasSignedList(f) == f # <<>> /\ f.list \notin ListContent

\* Pages serves the documents of one commit, and what a job holds is of the
\* same commit or of a later one; once the list is signed the flag was added,
\* at or before the commit any later job checks out.
Serving ==
    /\ pages # <<>> /\ job.phase # "deploy" => \E i \in 1..Len(signed) : TakenFrom(pages, signed, i)
    /\ HasSignedList(pages) => flagged # {}
    /\ job.phase = "ready" => (HasSignedList(pages) => armed(job.src))
    /\ job.phase = "deploy" =>
         \E j \in 1..Len(signed) :
            /\ TakenFrom(job.files, signed, j)
            /\ pages # <<>> => \E i \in 1..j : TakenFrom(pages, signed, i)
            /\ HasSignedList(pages) => HasSignedList(job.files)
            /\ HasSignedList(job.files) => flagged # {}

PagesIInv == IInv /\ PagesTypeOK /\ LogInOrder /\ Serving

\* The documents a pages job assembles are of the head, as typed.
LEMMA Assembled ==
    ASSUME IInv, PagesTypeOK, signed # <<>>, NEW src \in DOMAIN main
    PROVE  /\ pagesRegistryFiles(src) \in Files
           /\ Len(signed) \in 1..Len(signed)
           /\ TakenFrom(pagesRegistryFiles(src), signed, Len(signed))
           /\ HasSignedList(pagesRegistryFiles(src)) <=> armed(src)
<1> DEFINE f == pagesRegistryFiles(src)
           n == Len(signed)
<1>1. signed \in Seq(Commit) /\ n \in 1..n /\ SignedHead = signed[n] /\ signed[n] \in Commit
  BY DEF IInv, TypeOK, SignedHead
<1>2. /\ signed[n].index \in IndexDoc /\ signed[n].list \in ListDoc
      /\ signed[n].trust \in Trust /\ signed[n].root \in Nat
  BY <1>1 DEF Commit
<1>3. unsigned[src] \in ListContent
  BY DEF PagesTypeOK, IInv, TypeOK
<1>4. /\ f.index = signed[n].index /\ f.trust = signed[n].trust /\ f.root = signed[n].root
      /\ f.list = IF armed(src) THEN signed[n].list ELSE unsigned[src]
      /\ f \in Files
  BY <1>1, <1>2, <1>3 DEF pagesRegistryFiles, Files
<1> HIDE DEF f
<1>5. f # <<>>
  BY <1>4, FilesAreSomething
<1> QED
  BY <1>1, <1>2, <1>3, <1>4, <1>5, ListsDiffer DEF TakenFrom, HasSignedList, f

LEMMA PagesTypeStep ==
    ASSUME IInv, IInv', PagesTypeOK, Serving, [PagesNext]_allVars
    PROVE  PagesTypeOK'
<1> USE DEF PagesTypeOK
<1>1. /\ main \in Seq(Tree) /\ main' \in Seq(Tree) /\ Len(main) \in Nat /\ Len(main) > 0
      /\ DOMAIN main = 1..Len(main) /\ DOMAIN main' = 1..Len(main')
  BY DEF IInv, TypeOK
<1>2. ASSUME main' = main, flagged' = flagged, present' = present, unsigned' = unsigned
      PROVE  /\ flagged' \subseteq DOMAIN main' /\ present' \in BOOLEAN
             /\ unsigned' \in Seq(ListContent) /\ Len(unsigned') = Len(main')
  BY <1>2
<1>3. CASE MainJob
  <2>1. Len(main') = Len(main) + 1
    <3>1. CASE MainMoves
      <4>1. PICK t \in Tree : \E kind : Lands(kind, t)
        BY <3>1, MainLands
      <4> QED
        BY <1>1, <4>1 DEF Lands
    <3>2. CASE LandRebuild \/ LandFlag
      <4>1. Tip \in Tree
        BY <1>1 DEF Tip
      <4>2. main' = Append(main, Tip)
        BY <3>2 DEF LandRebuild, LandFlag, Lands
      <4> QED
        BY <1>1, <4>1, <4>2
    <3> QED
      BY <1>3, <3>1, <3>2 DEF MainJob, MainMovesHere
  <2>2. DOMAIN main \subseteq DOMAIN main' /\ Len(main) + 1 \in DOMAIN main'
    BY <1>1, <2>1
  <2>3. Len(unsigned) > 0 /\ unsigned[Len(unsigned)] \in ListContent
    BY <1>1
  <2>4. listContent(Tip) \in ListContent
    <3>1. Tip \in Tree
      BY <1>1 DEF Tip
    <3> QED
      BY <3>1 DEF listContent, ListContent, Tree
  <2>5. \E u \in ListContent : unsigned' = Append(unsigned, u)
    BY <1>3, <2>3, <2>4 DEF MainJob, MainMovesHere, LandRebuild, LandFlag, KeepCommittedList
  <2>6. unsigned' \in Seq(ListContent) /\ Len(unsigned') = Len(main')
    BY <2>1, <2>5
  <2>7. flagged' \subseteq DOMAIN main' /\ present' \in BOOLEAN
    BY <1>3, <2>2 DEF MainJob, MainMovesHere, LandRebuild, LandFlag
  <2>8. job' = job /\ pages' = pages
    BY <1>3 DEF MainJob, pagesVars
  <2>9. \/ job' = NoJob
        \/ job' \in [phase : {"ready"}, src : DOMAIN main']
        \/ job' \in [phase : {"deploy"}, files : Files]
    BY <2>2, <2>8
  <2> QED
    BY <2>6, <2>7, <2>8, <2>9
<1>4. CASE PublishJob
  <2>1. main' = main
    BY <1>4 DEF PublishJob, Run, Start, Sign, SignBlind, SignAgainst, BuildCommit, Push, PushSucceeds, PushFails,
                Crash, Tick
  <2> QED
    BY <1>2, <1>4, <2>1 DEF PublishJob, flagVars, pagesVars
<1>5. CASE PagesCheckout
  <2>1. job' \in [phase : {"ready"}, src : DOMAIN main]
    BY <1>1, <1>5 DEF PagesCheckout
  <2> QED
    BY <1>2, <1>5, <2>1 DEF PagesCheckout, flagVars
<1>6. CASE PagesAssemble
  <2>1. job \in [phase : {"ready"}, src : DOMAIN main]
    BY <1>6 DEF PagesAssemble, NoJob
  <2>2. job.src \in DOMAIN main
    BY <2>1
  <2>3. job' = NoJob \/ (signed # <<>> /\ job' = [phase |-> "deploy", files |-> pagesRegistryFiles(job.src)])
    BY <1>6 DEF PagesAssemble
  <2>4. job' = NoJob \/ job' \in [phase : {"deploy"}, files : Files]
    BY <2>2, <2>3, Assembled
  <2> QED
    BY <1>2, <1>6, <2>4 DEF PagesAssemble, flagVars
<1>7. CASE PagesDeploy
  <2>1. job \in [phase : {"deploy"}, files : Files]
    BY <1>7 DEF PagesDeploy, NoJob
  <2>2. pages' \in Files /\ job' = NoJob
    BY <1>7, <2>1 DEF PagesDeploy
  <2> QED
    BY <1>2, <1>7, <2>2 DEF PagesDeploy, flagVars
<1>8. CASE PagesFails
  BY <1>2, <1>8 DEF PagesFails, flagVars
<1>9. CASE UNCHANGED allVars
  BY <1>2, <1>9 DEF allVars
<1> QED
  BY <1>3, <1>4, <1>5, <1>6, <1>7, <1>8, <1>9 DEF PagesNext

\* A flag on main arms every checkout of main's head, and stays.
LEMMA FlagsStay ==
    ASSUME IInv, PagesTypeOK, [PagesNext]_allVars
    PROVE  flagged \subseteq flagged'
BY DEF PagesNext, MainJob, MainMovesHere, LandRebuild, LandFlag, PublishJob, flagVars, pagesVars, PagesCheckout,
       PagesAssemble, PagesDeploy, PagesFails, allVars

\* Steps of others leave what Pages serves on the branch it was taken from.
LEMMA OthersStep ==
    ASSUME IInv, IInv', PagesTypeOK, Serving, [PagesNext]_allVars, job' = job, pages' = pages
    PROVE  Serving'
<1>1. Len(signed) \in Nat /\ Len(signed') \in Nat
  BY DEF IInv, TypeOK
<1>2. Len(signed) <= Len(signed') /\ \A i \in 1..Len(signed) : signed'[i] = signed[i]
  BY <1>1, SharedStep DEF Served!Publish
<1>3. flagged \subseteq flagged'
  BY FlagsStay
<1>4. \A i \in 1..Len(signed) : i \in 1..Len(signed') /\ \A f : TakenFrom(f, signed, i) => TakenFrom(f, signed', i)
  BY <1>1, <1>2 DEF TakenFrom
<1>5. \A j \in 1..Len(signed) : \A i \in 1..j : i \in 1..Len(signed)
  BY <1>1
<1>6. job.phase = "ready" => (armed(job.src) => armed(job.src)')
  BY <1>3 DEF armed
<1>7. pages # <<>> /\ job.phase # "deploy" => \E i \in 1..Len(signed') : TakenFrom(pages, signed', i)
  BY <1>4 DEF Serving
<1>8. job.phase = "deploy" =>
        \E j \in 1..Len(signed') :
            /\ TakenFrom(job.files, signed', j)
            /\ pages # <<>> => \E i \in 1..j : TakenFrom(pages, signed', i)
            /\ HasSignedList(pages) => HasSignedList(job.files)
            /\ HasSignedList(job.files) => flagged # {}
  BY <1>4, <1>5 DEF Serving
<1> QED
  BY <1>3, <1>6, <1>7, <1>8 DEF Serving, armed

-----------------------------------------------------------------------------
(* The invariant                                                             *)

LEMMA ServingStep ==
    ASSUME PagesIInv, IInv', [PagesNext]_allVars
    PROVE  Serving'
<1> USE DEF PagesIInv
<1>1. Len(signed) \in Nat /\ Len(main) \in Nat /\ DOMAIN main = 1..Len(main)
  BY DEF IInv, TypeOK
<1>2. CASE MainJob \/ PublishJob \/ UNCHANGED allVars
  BY <1>2, OthersStep DEF MainJob, PublishJob, pagesVars, allVars
<1>3. CASE PagesCheckout
  <2>1. job'.phase = "ready" /\ job'.src = Len(main) /\ job.phase = "none"
    BY <1>3 DEF PagesCheckout, NoJob
  <2>2. pages' = pages /\ signed' = signed /\ flagged' = flagged
    BY <1>3 DEF PagesCheckout, flagVars
  <2>3. flagged # {} => armed(Len(main))
    BY <1>1 DEF PagesTypeOK, armed
  <2> QED
    BY <2>1, <2>2, <2>3 DEF Serving, armed
<1>4. CASE PagesAssemble
  <2>1. job.src \in DOMAIN main /\ job.phase = "ready"
    BY <1>4 DEF PagesAssemble, PagesTypeOK, NoJob
  <2>2. pages' = pages /\ signed' = signed /\ flagged' = flagged
    BY <1>4 DEF PagesAssemble, flagVars
  <2>3. CASE job' = NoJob
    BY <2>1, <2>2, <2>3 DEF Serving, NoJob
  <2>4. CASE signed # <<>> /\ job' = [phase |-> "deploy", files |-> pagesRegistryFiles(job.src)]
    <3> DEFINE f == pagesRegistryFiles(job.src)
               n == Len(signed)
    <3>1. n \in 1..n /\ TakenFrom(f, signed, n) /\ (HasSignedList(f) <=> armed(job.src))
      BY <2>1, <2>4, Assembled
    <3>2. job'.phase = "deploy" /\ job'.files = f
      BY <2>4
    <3>3. pages # <<>> => \E i \in 1..n : TakenFrom(pages, signed, i)
      BY <2>1 DEF Serving
    <3>4. HasSignedList(pages) => HasSignedList(f)
      BY <2>1, <3>1 DEF Serving
    <3>5. HasSignedList(f) => flagged # {}
      BY <3>1 DEF armed
    <3> HIDE DEF f
    <3>6. HasSignedList(pages) => flagged # {}
      BY DEF Serving
    <3> QED
      BY <2>2, <3>1, <3>2, <3>3, <3>4, <3>5, <3>6 DEF Serving
  <2> QED
    BY <1>4, <2>3, <2>4 DEF PagesAssemble
<1>5. CASE PagesDeploy
  <2>1. job.phase = "deploy" /\ job' = NoJob /\ job'.phase = "none" /\ pages' = job.files
    BY <1>5 DEF PagesDeploy, NoJob
  <2>2. signed' = signed /\ flagged' = flagged
    BY <1>5 DEF PagesDeploy, flagVars
  <2> QED
    BY <2>1, <2>2 DEF Serving
<1>6. CASE PagesFails
  <2>1. job'.phase = "none"
    BY <1>6 DEF PagesFails, NoJob
  <2>2. pages' = pages /\ signed' = signed /\ flagged' = flagged
    BY <1>6 DEF PagesFails, flagVars
  <2>3. pages # <<>> => \E i \in 1..Len(signed) : TakenFrom(pages, signed, i)
    <3>1. ASSUME NEW j \in 1..Len(signed), NEW i \in 1..j PROVE i \in 1..Len(signed)
      BY <1>1
    <3> QED
      BY <3>1 DEF Serving
  <2> QED
    BY <2>1, <2>2, <2>3 DEF Serving
<1> QED
  BY <1>2, <1>3, <1>4, <1>5, <1>6 DEF PagesNext

\* The pages job's invariant holds of every behaviour.
THEOREM PagesInvariance == PagesSpec => []PagesIInv
<1>1. PagesInit => PagesIInv
  <2> SUFFICES ASSUME PagesInit PROVE PagesIInv
    OBVIOUS
  <2>1. IInv /\ Tip \in Tree
    BY Initially DEF PagesInit, IInv, TypeOK, Tip
  <2>2. listContent(Tip) \in ListContent
    BY <2>1 DEF listContent, ListContent, Tree
  <2>3. Len(main) = 1 /\ signed = <<>>
    BY DEF PagesInit, Init
  <2>4. PagesTypeOK
    <3>1. unsigned \in Seq(ListContent) /\ Len(unsigned) = 1
      BY <2>2 DEF PagesInit
    <3> QED
      BY <2>3, <3>1 DEF PagesInit, PagesTypeOK
  <2>5. LogInOrder
    BY <2>3 DEF LogInOrder
  <2>6. job.phase = "none"
    BY DEF PagesInit, NoJob
  <2>7. Serving
    BY <2>6 DEF Serving, PagesInit, HasSignedList
  <2> QED
    BY <2>1, <2>4, <2>5, <2>7 DEF PagesIInv
<1>2. PagesIInv /\ [PagesNext]_allVars => PagesIInv'
  <2> SUFFICES ASSUME PagesIInv, [PagesNext]_allVars PROVE PagesIInv'
    OBVIOUS
  <2>1. IInv' /\ (signed' = signed \/ Served!Publish)
    BY SharedStep DEF PagesIInv
  <2>2. LogInOrder'
    BY <2>1, OrderStep DEF PagesIInv, LogInOrder
  <2> QED
    BY <2>1, <2>2, PagesTypeStep, ServingStep DEF PagesIInv
<1> QED
  BY <1>1, <1>2, PTL DEF PagesSpec

\* The types of the pages job and of what Pages serves.
THEOREM PagesTypes == PagesSpec => []PagesTypeOK
<1>1. PagesIInv => PagesTypeOK
  BY DEF PagesIInv
<1> QED
  BY <1>1, PagesInvariance, PTL

-----------------------------------------------------------------------------
(* What a client sees                                                        *)

\* The commit Pages was taken from, whatever job is at work.
LEMMA PagesCommit ==
    ASSUME PagesIInv, pages # <<>>
    PROVE  \E i \in 1..Len(signed) : TakenFrom(pages, signed, i)
<1>1. Len(signed) \in Nat
  BY DEF PagesIInv, IInv, TypeOK
<1>2. ASSUME NEW j \in 1..Len(signed), NEW i \in 1..j PROVE i \in 1..Len(signed)
  BY <1>1
<1> QED
  BY <1>2 DEF PagesIInv, Serving

\* Whether the served list is a signed one is told by the list alone.
LEMMA SignedListServed ==
    ASSUME PagesIInv
    PROVE  ServesSigned <=> HasSignedList(pages)
<1>1. signed \in Seq(Commit) /\ Commits = 1..Len(signed)
  BY DEF PagesIInv, IInv, TypeOK, Commits
<1>2. \A i \in Commits : signed[i].list \in ListDoc
  <2>1. \A i \in Commits : signed[i] \in Commit
    BY <1>1
  <2>2. \A c \in Commit : c.list \in ListDoc
    BY DEF Commit
  <2> QED
    BY <2>1, <2>2
<1>3. CASE pages # <<>>
  <2>1. PICK i \in Commits : TakenFrom(pages, signed, i)
    BY <1>1, <1>3, PagesCommit
  <2> QED
    BY <1>2, <1>3, <2>1, ListsDiffer DEF ServesSigned, HasSignedList, TakenFrom
<1> QED
  BY <1>3 DEF ServesSigned, HasSignedList

\* Pages never serves a mix of two commits of `signed`: the pages job takes the
\* documents of one head (pagesRegistryFiles of run.mjs), for every interleaving
\* of publish jobs, shells and pages jobs.
THEOREM OneCommitServed == PagesSpec => []PagesServesOneCommit
<1>1. PagesIInv => PagesServesOneCommit
  <2> SUFFICES ASSUME PagesIInv, pages # <<>>
               PROVE  \E i \in Commits : /\ pages.index = signed[i].index /\ pages.trust = signed[i].trust
                                         /\ pages.root = signed[i].root
                                         /\ ServesSigned => pages.list = signed[i].list
    BY DEF PagesServesOneCommit
  <2>1. PICK i \in 1..Len(signed) : TakenFrom(pages, signed, i)
    BY PagesCommit
  <2>2. i \in Commits
    BY DEF PagesIInv, IInv, TypeOK, Commits
  <2>3. ServesSigned => pages.list \notin ListContent
    BY SignedListServed DEF HasSignedList
  <2> QED
    BY <2>1, <2>2, <2>3 DEF TakenFrom
<1> QED
  BY <1>1, PagesInvariance, PTL

\* Only a deploy changes what Pages serves.
LEMMA OnlyDeploys ==
    ASSUME [PagesNext]_allVars
    PROVE  pages' = pages \/ (PagesDeploy /\ signed' = signed)
BY DEF PagesNext, MainJob, PublishJob, PagesCheckout, PagesAssemble, PagesDeploy, PagesFails, allVars, pagesVars

\* D5's latch: once Pages serves the signed list no step takes it back to an
\* unsigned one, whatever a commit on main does to the flag.
THEOREM LatchHolds == PagesSpec => LatchNeverOpens
<1> DEFINE ToldByList == ServesSigned <=> HasSignedList(pages)
<1>1. PagesIInv => ToldByList
  BY SignedListServed
<1>2. PagesIInv /\ ToldByList /\ ToldByList' /\ [PagesNext]_allVars => [ServesSigned => ServesSigned']_allVars
  <2> SUFFICES ASSUME PagesIInv, [PagesNext]_allVars, HasSignedList(pages)
               PROVE  HasSignedList(pages)'
    OBVIOUS
  <2>1. CASE pages' = pages
    BY <2>1 DEF HasSignedList
  <2>2. CASE PagesDeploy
    BY <2>2 DEF PagesDeploy, PagesIInv, Serving, HasSignedList
  <2> QED
    BY <2>1, <2>2, OnlyDeploys
<1> QED
  BY <1>1, <1>2, PagesInvariance, PTL DEF PagesSpec, LatchNeverOpens

\* Pages never goes back to an older catalogue or an older list: a job's files
\* come from no earlier commit than what it overwrites, and along `signed` the
\* serial and the issue times do not fall.
THEOREM PagesAdvances == PagesSpec => PagesNeverRollsBack
<1> DEFINE Advance == pages # <<>> =>
                        /\ pages'.index.content.serial >= pages.index.content.serial
                        /\ pages'.index.issued >= pages.index.issued
                        /\ ServesSigned => pages'.list.issued >= pages.list.issued
<1>1. ASSUME PagesIInv, PagesIInv', [PagesNext]_allVars PROVE Advance
  <2> SUFFICES ASSUME pages # <<>> PROVE Advance
    OBVIOUS
  <2>1. \A p \in 1..Len(signed) : /\ signed[p].index.content.serial \in Nat /\ signed[p].index.issued \in Nat
                                  /\ signed[p].list.issued \in Nat
    BY <1>1, SignedTypes DEF PagesIInv, IInv
  <2>2. ServesSigned <=> HasSignedList(pages)
    BY <1>1, SignedListServed
  <2>3. CASE pages' = pages
    <3>1. PICK i \in 1..Len(signed) : TakenFrom(pages, signed, i)
      BY <1>1, PagesCommit
    <3> QED
      BY <2>1, <2>2, <2>3, <3>1 DEF TakenFrom, HasSignedList
  <2>4. CASE PagesDeploy
    <3>1. pages' = job.files /\ job.phase = "deploy"
      BY <2>4 DEF PagesDeploy
    <3>2. PICK j \in 1..Len(signed) :
            /\ TakenFrom(job.files, signed, j)
            /\ \E i \in 1..j : TakenFrom(pages, signed, i)
            /\ HasSignedList(pages) => HasSignedList(job.files)
      BY <1>1, <3>1 DEF PagesIInv, Serving
    <3>3. PICK i \in 1..j : TakenFrom(pages, signed, i)
      BY <3>2
    <3>4. i \in 1..Len(signed) /\ i <= j
      BY <3>2 DEF PagesIInv, IInv, TypeOK
    <3>5. /\ signed[i].index.content.serial <= signed[j].index.content.serial
          /\ signed[i].index.issued <= signed[j].index.issued
          /\ signed[i].list.issued <= signed[j].list.issued
      BY <1>1, <3>4 DEF PagesIInv, LogInOrder
    <3>6. /\ pages'.index = signed[j].index /\ pages.index = signed[i].index
          /\ HasSignedList(pages) => pages'.list = signed[j].list /\ pages.list = signed[i].list
      BY <3>1, <3>2, <3>3 DEF TakenFrom, HasSignedList
    <3> QED
      BY <2>1, <2>2, <3>4, <3>5, <3>6
  <2> QED
    BY <1>1, <2>3, <2>4, OnlyDeploys
<1>2. PagesIInv /\ PagesIInv' /\ [PagesNext]_allVars => [Advance]_allVars
  BY <1>1
<1> QED
  BY <1>2, PagesInvariance, PTL DEF PagesSpec, PagesNeverRollsBack

\* With a pages job at work and the flag on main, `signed` is still the abstract
\* log: the pages job only reads the branch.
THEOREM LogUnderPages == PagesSpec => ImplementsServedLog
<1>1. PagesInit => Served!Init
  BY DEF PagesInit, Init, Served!Init
<1>2. PagesIInv /\ [PagesNext]_allVars => [Served!Publish]_signed
  <2> SUFFICES ASSUME PagesIInv, [PagesNext]_allVars PROVE [Served!Publish]_signed
    OBVIOUS
  <2>1. signed' = signed \/ Served!Publish
    BY SharedStep DEF PagesIInv
  <2> QED
    BY <2>1
<1> QED
  BY <1>1, <1>2, PagesInvariance, PTL DEF PagesSpec, ImplementsServedLog, Served!Spec
=============================================================================
