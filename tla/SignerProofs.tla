---------------------------- MODULE SignerProofs ----------------------------
(* Proofs about Signer.tla, for every number of runs in flight, every set of  *)
(* keys and every bound.                                                      *)
EXTENDS Signer, TLAPS

\* A run's plan in hand was compared with a commit still on `signed`, and
\* holds documents that verify and are not older than that commit's.
PlanHolds(r) ==
    runs[r].phase \in {"signed", "push"} =>
        /\ runs[r].parent <= Len(signed)
        /\ Served!Sound(runs[r].new)
        /\ runs[r].parent > 0 => Served!Follows(runs[r].new, signed[runs[r].parent])

SourcesExist == \A r \in Runners : runs[r].phase = "ready" => runs[r].src \in 1..Len(main)

IInv ==
    /\ TypeOK
    /\ main # <<>>
    /\ SourcesExist
    /\ \A r \in Runners : PlanHolds(r)
    /\ \A i \in 1..Len(signed) : Served!Sound(signed[i])

-----------------------------------------------------------------------------
(* What a run decides                                                        *)

\* The types of what a published commit holds.
LEMMA SignedTypes ==
    ASSUME TypeOK, NEW p \in 1..Len(signed)
    PROVE  /\ signed[p] \in Commit
           /\ signed[p].index \in IndexDoc /\ signed[p].list \in ListDoc
           /\ signed[p].isrc \in Nat
           /\ signed[p].index.issued \in Nat /\ signed[p].index.content.serial \in Nat
           /\ signed[p].list.issued \in Nat /\ signed[p].list.content.serial \in Nat
<1>1. signed[p] \in Commit
  BY DEF TypeOK
<1>2. signed[p].index \in IndexDoc /\ signed[p].list \in ListDoc /\ signed[p].isrc \in Nat
  BY <1>1 DEF Commit
<1>3. signed[p].index.issued \in Nat /\ signed[p].index.content \in IndexContent
  BY <1>2 DEF IndexDoc
<1>4. signed[p].list.issued \in Nat /\ signed[p].list.content \in ListContent
  BY <1>2 DEF ListDoc
<1> QED
  BY <1>1, <1>2, <1>3, <1>4 DEF IndexContent, ListContent

\* A catalogue signed now passed its gate, by a key that may sign it, and is
\* later than the one it replaces.
LEMMA IndexSignedNow ==
    ASSUME TypeOK, NEW p \in 0..Len(signed), NEW t \in Tree, NEW event \in Events,
           NEW now \in Nat, NEW held \in SUBSET Keys,
           Signs(indexDecision(p, t, event, now, held))
    PROVE  /\ catalogueGate(p, t)
           /\ p > 0 => now > signed[p].index.issued
<1> p > 0 => signed[p].index.issued \in Nat
  BY SignedTypes
<1> resignAfterHoursFor(event) \in Nat \ {0}
  BY TimeAssumption DEF resignAfterHoursFor
<1> QED
  BY DEF indexDecision, carryOrBlock, decideDocument, Signs, CarryOr

\* One that is not is the head's, and there is a head.
LEMMA IndexKept ==
    ASSUME NEW p \in Nat, NEW t, NEW event, NEW now, NEW held,
           indexDecision(p, t, event, now, held) # "blocked",
           ~Signs(indexDecision(p, t, event, now, held))
    PROVE  p > 0
BY DEF indexDecision, carryOrBlock, decideDocument, Signs, CarryOr

\* A list signed now, likewise.
LEMMA ListSignedNow ==
    ASSUME TypeOK, NEW p \in 0..Len(signed), NEW t \in Tree, NEW event \in Events,
           NEW now \in Nat, NEW held \in SUBSET Keys,
           Signs(listDecision(p, t, event, now, held))
    PROVE  /\ listGate(p, t)
           /\ p > 0 => now > signed[p].list.issued
<1> p > 0 => signed[p].list.issued \in Nat
  BY SignedTypes
<1> resignAfterHoursFor(event) \in Nat \ {0}
  BY TimeAssumption DEF resignAfterHoursFor
<1> QED
  BY DEF listDecision, carryOrBlock, decideDocument, Signs, CarryOr

\* A list that is not signed now is the head's.
LEMMA ListKept ==
    ASSUME NEW p \in Nat, NEW t, NEW event, NEW now, NEW held,
           listDecision(p, t, event, now, held) # "blocked",
           ~Signs(listDecision(p, t, event, now, held))
    PROVE  p > 0
BY DEF listDecision, carryOrBlock, decideDocument, Signs, CarryOr

\* What signRun commits is a commit, sound, and follows the head it planned
\* against.
LEMMA CommitFollows ==
    ASSUME TypeOK, NEW p \in 0..Len(signed), NEW s \in 1..Len(main), NEW event \in Events,
           NEW now \in Nat, NEW held \in SUBSET Keys,
           commits(p, s, event, now, held)
    PROVE  /\ newCommit(p, s, event, now, held) \in Commit
           /\ Served!Sound(newCommit(p, s, event, now, held))
           /\ p > 0 => Served!Follows(newCommit(p, s, event, now, held), signed[p])
<1> DEFINE t == main[s]
           index == indexDocument(p, t, event, now, held)
           list == listDocument(p, t, event, now, held)
           isrc == indexSourceCommit(p, s, event, now, held)
<1>1. t \in Tree
  BY DEF TypeOK
<1>2. p > 0 => /\ signed[p] \in Commit
               /\ signed[p].index \in IndexDoc /\ signed[p].list \in ListDoc
               /\ signed[p].isrc \in Nat
               /\ signed[p].index.content.serial \in Nat /\ signed[p].list.content.serial \in Nat
  BY SignedTypes
<1>3. /\ index \in IndexDoc
      /\ p > 0 => /\ index = signed[p].index \/ index.issued > signed[p].index.issued
                  /\ index.content.serial >= signed[p].index.content.serial
                  /\ index.content.serial = signed[p].index.content.serial
                       => index.content.listings = signed[p].index.content.listings
                  /\ isrc >= signed[p].isrc
      /\ isrc \in Nat
  <2>1. CASE Signs(indexDecision(p, t, event, now, held))
    <3>1. index = [content |-> catalogueContent(t), issued |-> now, sigs |-> catalogueSigners(p, t, now, held)]
      BY <2>1 DEF indexDocument
    <3>2. catalogueContent(t) \in IndexContent /\ catalogueSigners(p, t, now, held) \in SUBSET Keys
      BY <1>1 DEF catalogueContent, IndexContent, Tree, catalogueSigners, usable
    <3>3. catalogueGate(p, t) /\ (p > 0 => now > signed[p].index.issued)
      BY <1>1, <2>1, IndexSignedNow
    <3>4. isrc = s
      BY <2>1 DEF indexSourceCommit
    <3>5. p > 0 => signed[p].isrc <= s
      BY DEF commits
    <3>6. index \in IndexDoc
      BY <3>1, <3>2 DEF IndexDoc
    <3>7. p > 0 => signed[p].isrc \in Nat
      BY <1>2
    <3>8. index.content.serial = t.serial /\ index.content.listings = t.listings /\ index.issued = now
      BY <3>1 DEF catalogueContent
    <3>9. p > 0 => /\ t.serial >= signed[p].index.content.serial
                   /\ t.serial = signed[p].index.content.serial => t.listings = signed[p].index.content.listings
      BY <3>3 DEF catalogueGate
    <3> QED
      BY <3>3, <3>4, <3>5, <3>6, <3>7, <3>8, <3>9
  <2>2. CASE ~Signs(indexDecision(p, t, event, now, held))
    <3>1. p > 0
      BY <2>2, IndexKept DEF commits
    <3>2. index = signed[p].index /\ isrc = signed[p].isrc
      BY <2>2, <3>1 DEF indexDocument, indexSourceCommit
    <3>3. signed[p].index \in IndexDoc /\ signed[p].isrc \in Nat /\ signed[p].index.content.serial \in Nat
      BY <1>2, <3>1
    <3> QED
      BY <3>2, <3>3
  <2> QED
    BY <2>1, <2>2
<1>4. /\ list \in ListDoc
      /\ p > 0 => /\ list = signed[p].list \/ list.issued > signed[p].list.issued
                  /\ list.content.serial >= signed[p].list.content.serial
  <2>1. CASE Signs(listDecision(p, t, event, now, held))
    <3>1. list = [content |-> listContent(t), issued |-> now, sigs |-> usable(t, held)]
      BY <2>1 DEF listDocument
    <3>2. listContent(t) \in ListContent /\ usable(t, held) \in SUBSET Keys
      BY <1>1 DEF listContent, ListContent, Tree, usable
    <3>3. listGate(p, t) /\ (p > 0 => now > signed[p].list.issued)
      BY <1>1, <2>1, ListSignedNow
    <3>4. list \in ListDoc
      BY <3>1, <3>2 DEF ListDoc
    <3>5. list.content.serial = t.listSerial /\ list.issued = now
      BY <3>1 DEF listContent
    <3>6. p > 0 => t.listSerial >= signed[p].list.content.serial
      BY <3>3 DEF listGate
    <3> QED
      BY <3>3, <3>4, <3>5, <3>6
  <2>2. CASE ~Signs(listDecision(p, t, event, now, held))
    <3>1. p > 0
      BY <2>2, ListKept DEF commits
    <3>2. list = signed[p].list
      BY <2>2 DEF listDocument
    <3>3. signed[p].list \in ListDoc /\ signed[p].list.content.serial \in Nat
      BY <1>2, <3>1
    <3> QED
      BY <3>2, <3>3
  <2> QED
    BY <2>1, <2>2
<1>5. Verifies(index, t.trust) /\ Verifies(list, t.trust)
  BY DEF commits
<1>6. t.trust \in Trust /\ t.root \in Nat
  BY <1>1 DEF Tree
<1> DEFINE c == newCommit(p, s, event, now, held)
<1>7. /\ c = [index |-> index, list |-> list, trust |-> t.trust, root |-> t.root,
              src |-> s, isrc |-> isrc, at |-> now]
  BY DEF newCommit
<1> HIDE DEF t, index, list, isrc, c
<1>8. c \in Commit
  BY <1>3, <1>4, <1>6, <1>7 DEF Commit
<1>9. Served!Sound(c)
  BY <1>5, <1>7 DEF Served!Sound, Served!Verifies, Verifies
<1>10. p > 0 => Served!Follows(c, signed[p])
  BY <1>3, <1>4, <1>7 DEF Served!Follows, Served!SerialsHold, Served!Replaces
<1> QED
  BY <1>8, <1>9, <1>10 DEF c

-----------------------------------------------------------------------------
(* The inductive invariant                                                   *)

\* A run's record, by its phase.
LEMMA RunTypes ==
    ASSUME TypeOK, NEW r \in Runners
    PROVE  /\ runs[r] \in RunStates
           /\ runs[r].phase = "ready" => runs[r] \in ReadyRun
           /\ runs[r].phase = "signed" => runs[r] \in SignedRun
           /\ runs[r].phase = "push" => runs[r] \in PushRun
<1>1. runs[r] \in RunStates
  BY DEF TypeOK
<1>2. /\ \A run \in IdleRun : run.phase = "idle"
      /\ \A run \in ReadyRun : run.phase = "ready"
      /\ \A run \in SignedRun : run.phase = "signed"
      /\ \A run \in PushRun : run.phase = "push"
      /\ \A run \in RacedRun : run.phase = "raced"
  BY DEF IdleRun, Idle, ReadyRun, SignedRun, PushRun, RacedRun
<1> QED
  BY <1>1, <1>2 DEF RunStates

\* A step that changes one run, and at most appends to `signed`.
LEMMA RunStep ==
    ASSUME IInv, NEW r \in Runners, NEW run \in RunStates,
           runs' = [runs EXCEPT ![r] = run], main' = main, clock' = clock,
           signed' \in Seq(Commit), Len(signed) <= Len(signed'),
           \A i \in 1..Len(signed) : signed'[i] = signed[i],
           \A i \in 1..Len(signed') : Served!Sound(signed'[i]),
           run.phase = "ready" => run.src \in 1..Len(main),
           run.phase \in {"signed", "push"} =>
               /\ run.parent \in 0..Len(signed)
               /\ Served!Sound(run.new)
               /\ run.parent > 0 => Served!Follows(run.new, signed[run.parent])
    PROVE  IInv'
<1>1. TypeOK'
  BY DEF IInv, TypeOK
<1>2. SourcesExist'
  BY DEF IInv, SourcesExist, TypeOK
<1>3. ASSUME NEW q \in Runners, (runs[q].phase \in {"signed", "push"})'
      PROVE  /\ (runs[q].parent)' \in 0..Len(signed)
             /\ Served!Sound((runs[q].new)')
             /\ (runs[q].parent)' > 0 => Served!Follows((runs[q].new)', signed[(runs[q].parent)'])
  <2>1. CASE q = r
    BY <1>3, <2>1 DEF IInv, TypeOK
  <2>2. CASE q # r
    <3>1. runs'[q] = runs[q]
      BY <2>2 DEF IInv, TypeOK
    <3>2. runs[q] \in SignedRun \cup PushRun
      BY <1>3, <3>1, RunTypes DEF IInv
    <3>3. runs[q].parent \in Nat
      BY <3>2 DEF SignedRun, PushRun
    <3>4. PlanHolds(q)
      BY DEF IInv
    <3> QED
      BY <1>3, <3>1, <3>3, <3>4 DEF PlanHolds
  <2> QED
    BY <2>1, <2>2
<1>4. \A q \in Runners : PlanHolds(q)'
  BY <1>3 DEF PlanHolds
<1> QED
  BY <1>1, <1>2, <1>4 DEF IInv

\* stepSign leaves a plan in hand that holds.
LEMMA SignStep ==
    ASSUME IInv, NEW r \in Runners, NEW p \in 0..Len(signed), SignAgainst(r, p)
    PROVE  IInv'
<1> DEFINE s == runs[r].src
           event == runs[r].event
           Plan(now, held) == [phase |-> "signed", started |-> runs[r].started, parent |-> p,
                               new |-> newCommit(p, s, event, now, held)]
<1>1. PICK now \in Nows, held \in HeldSets :
         runs' = [runs EXCEPT ![r] =
             IF held # {} /\ commits(p, s, event, now, held) THEN Plan(now, held) ELSE Idle]
  BY DEF SignAgainst
<1>2. runs[r] \in ReadyRun /\ s \in 1..Len(main)
  BY RunTypes DEF SignAgainst, IInv, SourcesExist
<1>3. now \in Nat /\ held \in SUBSET Keys /\ event \in Events /\ runs[r].started \in Nat
  BY <1>2, KeysAssumption DEF Nows, ReadyRun, IInv, TypeOK
<1>4. main' = main /\ signed' = signed /\ clock' = clock
  BY DEF SignAgainst
<1>5. /\ signed' \in Seq(Commit) /\ Len(signed) <= Len(signed')
      /\ \A i \in 1..Len(signed) : signed'[i] = signed[i]
      /\ \A i \in 1..Len(signed') : Served!Sound(signed'[i])
  BY <1>4 DEF IInv, TypeOK
<1>6. CASE held # {} /\ commits(p, s, event, now, held)
  <2> DEFINE new == newCommit(p, s, event, now, held)
  <2>1. /\ new \in Commit
        /\ Served!Sound(new)
        /\ p > 0 => Served!Follows(new, signed[p])
    BY <1>2, <1>3, <1>6, CommitFollows DEF IInv
  <2>2. runs' = [runs EXCEPT ![r] = Plan(now, held)]
    BY <1>1, <1>6
  <2> HIDE DEF new
  <2>3. Plan(now, held) = [phase |-> "signed", started |-> runs[r].started, parent |-> p, new |-> new]
    BY DEF new
  <2>4. Plan(now, held) \in SignedRun
    BY <1>3, <2>1, <2>3 DEF SignedRun
  <2>5. Plan(now, held) \in RunStates
    BY <2>4 DEF RunStates
  <2>6. Plan(now, held).phase = "signed" /\ Plan(now, held).parent = p /\ Plan(now, held).new = new
    BY <2>3
  <2> HIDE DEF Plan
  <2> QED
    BY <1>4, <1>5, <2>1, <2>2, <2>5, <2>6, RunStep
<1>7. CASE ~(held # {} /\ commits(p, s, event, now, held))
  <2>1. runs' = [runs EXCEPT ![r] = Idle]
    BY <1>1, <1>7
  <2>2. Idle \in RunStates /\ Idle.phase # "ready" /\ Idle.phase \notin {"signed", "push"}
    BY DEF RunStates, IdleRun, Idle
  <2> QED
    BY <1>4, <1>5, <2>1, <2>2, RunStep
<1> QED
  BY <1>6, <1>7

\* A trigger starts a run at a commit of main.
LEMMA StartStep ==
    ASSUME IInv, NEW r \in Runners, NEW event \in Events, Start(r, event)
    PROVE  IInv'
<1>1. PICK s \in 1..Len(main) :
         runs' = [runs EXCEPT ![r] = [phase |-> "ready", started |-> clock, src |-> s, event |-> event]]
  <2>1. Len(main) \in 1..Len(main)
    BY DEF IInv, TypeOK
  <2> QED
    BY <2>1 DEF Start
<1> DEFINE run == [phase |-> "ready", started |-> clock, src |-> s, event |-> event]
<1>2. run \in RunStates /\ run.phase = "ready" /\ run.src = s
  BY DEF RunStates, ReadyRun, IInv, TypeOK
<1>3. main' = main /\ signed' = signed /\ clock' = clock
  BY DEF Start
<1>4. /\ signed' \in Seq(Commit) /\ Len(signed) <= Len(signed')
      /\ \A i \in 1..Len(signed) : signed'[i] = signed[i]
      /\ \A i \in 1..Len(signed') : Served!Sound(signed'[i])
  BY <1>3 DEF IInv, TypeOK
<1> HIDE DEF run
<1> QED
  BY <1>1, <1>2, <1>3, <1>4, RunStep DEF run

\* Appending a sound commit rewrites nothing.
LEMMA Appended ==
    ASSUME IInv,
           \/ signed' = signed
           \/ \E c \in Commit : Served!Sound(c) /\ signed' = Append(signed, c)
    PROVE  /\ signed' \in Seq(Commit) /\ Len(signed) <= Len(signed')
           /\ \A i \in 1..Len(signed) : signed'[i] = signed[i]
           /\ \A i \in 1..Len(signed') : Served!Sound(signed'[i])
<1>1. signed \in Seq(Commit) /\ Len(signed) \in Nat /\ \A i \in 1..Len(signed) : Served!Sound(signed[i])
  BY DEF IInv, TypeOK
<1>2. CASE signed' = signed
  BY <1>1, <1>2
<1>3. ASSUME NEW c \in Commit, Served!Sound(c), signed' = Append(signed, c)
      PROVE  /\ signed' \in Seq(Commit) /\ Len(signed) <= Len(signed')
             /\ \A i \in 1..Len(signed) : signed'[i] = signed[i]
             /\ \A i \in 1..Len(signed') : Served!Sound(signed'[i])
  <2>1. signed' \in Seq(Commit) /\ Len(signed') = Len(signed) + 1
    BY <1>1, <1>3
  <2>2. \A i \in 1..Len(signed) : signed'[i] = signed[i]
    BY <1>1, <1>3
  <2>3. signed'[Len(signed) + 1] = c
    BY <1>1, <1>3
  <2>4. \A i \in 1..Len(signed') : i \in 1..Len(signed) \/ i = Len(signed) + 1
    BY <1>1, <2>1
  <2> QED
    BY <1>1, <1>3, <2>1, <2>2, <2>3, <2>4
<1> QED
  BY <1>2, <1>3

\* A run that ends, in a step that leaves `signed` alone or appends a sound commit.
LEMMA EndStep ==
    ASSUME IInv, NEW r \in Runners, NEW run \in IdleRun \cup RacedRun,
           runs' = [runs EXCEPT ![r] = run], main' = main, clock' = clock,
           \/ signed' = signed
           \/ \E c \in Commit : Served!Sound(c) /\ signed' = Append(signed, c)
    PROVE  IInv'
<1>1. run \in RunStates /\ run.phase # "ready" /\ run.phase \notin {"signed", "push"}
  BY DEF RunStates, IdleRun, Idle, RacedRun
<1>2. /\ signed' \in Seq(Commit) /\ Len(signed) <= Len(signed')
      /\ \A i \in 1..Len(signed) : signed'[i] = signed[i]
      /\ \A i \in 1..Len(signed') : Served!Sound(signed'[i])
  BY Appended
<1> QED
  BY <1>1, <1>2, RunStep

\* BuildCommit keeps the plan it turns into a push.
LEMMA BuildStep ==
    ASSUME IInv, NEW r \in Runners, BuildCommit(r)
    PROVE  IInv'
<1>1. runs[r] \in SignedRun
  BY RunTypes DEF BuildCommit, IInv
<1>2. PICK at \in Nows :
         runs' = [runs EXCEPT ![r] =
           [phase |-> "push", started |-> runs[r].started, parent |-> runs[r].parent,
            new |-> [runs[r].new EXCEPT !.at = at], attempt |-> 1, landed |-> FALSE]]
  BY DEF BuildCommit
<1> DEFINE new == [runs[r].new EXCEPT !.at = at]
           run == [phase |-> "push", started |-> runs[r].started, parent |-> runs[r].parent,
                   new |-> new, attempt |-> 1, landed |-> FALSE]
<1>3. /\ PlanHolds(r) /\ runs[r].phase = "signed" /\ runs[r].new \in Commit
      /\ runs[r].parent \in Nat /\ runs[r].started \in Nat /\ at \in Nat
  BY <1>1 DEF IInv, BuildCommit, SignedRun, Nows, TypeOK
<1>4. new \in Commit
  BY <1>3 DEF Commit
<1>5. /\ new.index = runs[r].new.index /\ new.list = runs[r].new.list
      /\ new.trust = runs[r].new.trust /\ new.isrc = runs[r].new.isrc
  BY <1>3 DEF Commit
<1>6. /\ Served!Sound(new)
      /\ runs[r].parent > 0 => Served!Follows(new, signed[runs[r].parent])
  BY <1>3, <1>5 DEF PlanHolds, Served!Sound, Served!Follows, Served!SerialsHold
<1> HIDE DEF new
<1>7. run \in RunStates
  BY <1>3, <1>4, TimeAssumption DEF RunStates, PushRun
<1>8. run.phase = "push" /\ run.parent = runs[r].parent /\ run.new = new
  OBVIOUS
<1>9. runs' = [runs EXCEPT ![r] = run]
  BY <1>2 DEF new
<1>10. main' = main /\ signed' = signed /\ clock' = clock
  BY DEF BuildCommit
<1>11. /\ signed' \in Seq(Commit) /\ Len(signed) <= Len(signed')
       /\ \A i \in 1..Len(signed) : signed'[i] = signed[i]
       /\ \A i \in 1..Len(signed') : Served!Sound(signed'[i])
  BY <1>10 DEF IInv, TypeOK
<1>12. runs[r].parent \in 0..Len(signed)
  BY <1>3 DEF PlanHolds, IInv, TypeOK
<1> HIDE DEF run
<1> QED
  BY <1>6, <1>7, <1>8, <1>9, <1>10, <1>11, <1>12, RunStep

\* What a push may append.
LEMMA PushPlan ==
    ASSUME IInv, NEW r \in Runners, runs[r].phase = "push"
    PROVE  /\ runs[r] \in PushRun
           /\ runs[r].new \in Commit /\ Served!Sound(runs[r].new)
           /\ FastForward(r) /\ Len(signed) > 0 => Served!Follows(runs[r].new, signed[Len(signed)])
<1>1. runs[r] \in PushRun
  BY RunTypes DEF IInv
<1> QED
  BY <1>1 DEF PushRun, IInv, PlanHolds, FastForward

\* A push that lands ends its run and publishes its plan.
LEMMA PushSucceedsStep ==
    ASSUME IInv, NEW r \in Runners, PushSucceeds(r)
    PROVE  IInv'
<1>1. runs[r].new \in Commit /\ Served!Sound(runs[r].new)
  BY PushPlan DEF PushSucceeds
<1>2. Idle \in IdleRun \cup RacedRun
  BY DEF IdleRun
<1> QED
  BY <1>1, <1>2, EndStep DEF PushSucceeds

\* A push that fails leaves `signed` alone, or appends what it lost sight of.
LEMMA PushFailsStep ==
    ASSUME IInv, NEW r \in Runners, NEW lands \in BOOLEAN, NEW fetched \in BOOLEAN, PushFails(r, lands, fetched)
    PROVE  IInv'
<1> DEFINE run == runs[r]
           again == [run EXCEPT !.attempt = @ + 1, !.landed = @ \/ lands]
           raced == [phase |-> "raced", landed |-> run.landed \/ lands]
<1>1. run \in PushRun /\ run.new \in Commit /\ Served!Sound(run.new) /\ PlanHolds(r) /\ run.phase = "push"
  BY PushPlan DEF PushFails, IInv
<1>2. main' = main /\ clock' = clock /\ (signed' = signed \/ signed' = Append(signed, run.new))
  BY DEF PushFails
<1>3. \/ runs' = [runs EXCEPT ![r] = again] /\ run.attempt < ATTEMPTS
      \/ runs' = [runs EXCEPT ![r] = Idle]
      \/ runs' = [runs EXCEPT ![r] = raced]
  BY DEF PushFails
<1>4. CASE runs' = [runs EXCEPT ![r] = again] /\ run.attempt < ATTEMPTS
  <2>1. run.attempt + 1 \in 1..ATTEMPTS /\ (run.landed \/ lands) \in BOOLEAN
    BY <1>1, <1>4, TimeAssumption DEF PushRun
  <2>2. again \in PushRun
    BY <1>1, <2>1 DEF PushRun
  <2>3. again \in RunStates /\ again.phase = "push" /\ again.parent = run.parent /\ again.new = run.new
    BY <1>1, <2>2 DEF RunStates, PushRun
  <2>4. run.parent \in 0..Len(signed)
    BY <1>1 DEF PlanHolds, PushRun, IInv, TypeOK
  <2>5. /\ signed' \in Seq(Commit) /\ Len(signed) <= Len(signed')
        /\ \A i \in 1..Len(signed) : signed'[i] = signed[i]
        /\ \A i \in 1..Len(signed') : Served!Sound(signed'[i])
    BY <1>1, <1>2, Appended
  <2> HIDE DEF again
  <2> QED
    BY <1>1, <1>2, <1>4, <2>3, <2>4, <2>5, RunStep DEF PlanHolds
<1>5. CASE runs' = [runs EXCEPT ![r] = Idle]
  BY <1>1, <1>2, <1>5, EndStep DEF IdleRun
<1>6. CASE runs' = [runs EXCEPT ![r] = raced]
  <2>1. raced \in RacedRun
    BY <1>1 DEF RacedRun, PushRun
  <2> HIDE DEF raced
  <2> QED
    BY <1>1, <1>2, <1>6, <2>1, EndStep
<1> QED
  BY <1>3, <1>4, <1>5, <1>6

\* A run that dies publishes nothing.
LEMMA CrashStep ==
    ASSUME IInv, NEW r \in Runners, Crash(r)
    PROVE  IInv'
BY EndStep DEF Crash, IdleRun

\* A tree with one field replaced is a tree.
LEMMA TreeFields ==
    ASSUME NEW u \in Tree
    PROVE  /\ \A n \in Nat : /\ [u EXCEPT !.serial = n] \in Tree
                             /\ [u EXCEPT !.listSerial = n] \in Tree
                             /\ [u EXCEPT !.root = n] \in Tree
           /\ \A l \in Listings : [u EXCEPT !.listings = l] \in Tree
           /\ \A q \in {"ok", "tight", "bad"} : [u EXCEPT !.catalogue = q] \in Tree
           /\ \A q \in {"ok", "bad"} : [u EXCEPT !.list = q] \in Tree /\ [u EXCEPT !.copies = q] \in Tree
           /\ \A x \in Entries : [u EXCEPT !.entries = x] \in Tree
           /\ \A x \in Publishers : [u EXCEPT !.publisher = x] \in Tree
           /\ \A x \in Trust : [u EXCEPT !.trust = x] \in Tree
           /\ \A x \in [Keys -> Nat] : [u EXCEPT !.retired = x] \in Tree
BY DEF Tree

\* A commit landing on main.
LEMMA LandStep ==
    ASSUME IInv, NEW kind, NEW t \in Tree, Lands(kind, t)
    PROVE  IInv'
<1>1. main \in Seq(Tree)
  BY DEF IInv, TypeOK
<1>2. main' = Append(main, t) /\ signed' = signed /\ runs' = runs /\ clock' = clock
  BY DEF Lands
<1>3. main' \in Seq(Tree) /\ main' # <<>> /\ Len(main) <= Len(main')
  BY <1>1, <1>2
<1>4. TypeOK'
  BY <1>2, <1>3 DEF IInv, TypeOK
<1>5. SourcesExist'
  BY <1>1, <1>2, <1>3 DEF IInv, SourcesExist
<1>6. \A q \in Runners : PlanHolds(q)'
  BY <1>2 DEF IInv, PlanHolds
<1> QED
  BY <1>2, <1>3, <1>4, <1>5, <1>6 DEF IInv

\* A commit on main that leaves trust.json and root.json alone or replaces them by later ones.
CopiesKept(t) == Tip.trust.ver <= t.trust.ver /\ Tip.root <= t.root

\* A tree with a field the copies do not depend on replaced keeps its copies.
LEMMA CopiesFields ==
    ASSUME NEW u \in Tree, u.trust = Tip.trust, u.root = Tip.root
    PROVE  /\ \A n : [u EXCEPT !.serial = n].trust = Tip.trust /\ [u EXCEPT !.serial = n].root = Tip.root
           /\ \A n : [u EXCEPT !.listSerial = n].trust = Tip.trust /\ [u EXCEPT !.listSerial = n].root = Tip.root
           /\ \A l : [u EXCEPT !.listings = l].trust = Tip.trust /\ [u EXCEPT !.listings = l].root = Tip.root
           /\ \A q : [u EXCEPT !.catalogue = q].trust = Tip.trust /\ [u EXCEPT !.catalogue = q].root = Tip.root
           /\ \A q : [u EXCEPT !.list = q].trust = Tip.trust /\ [u EXCEPT !.list = q].root = Tip.root
           /\ \A q : [u EXCEPT !.copies = q].trust = Tip.trust /\ [u EXCEPT !.copies = q].root = Tip.root
           /\ \A e : [u EXCEPT !.entries = e].trust = Tip.trust /\ [u EXCEPT !.entries = e].root = Tip.root
           /\ \A x : [u EXCEPT !.publisher = x].trust = Tip.trust /\ [u EXCEPT !.publisher = x].root = Tip.root
BY DEF Tree

\* A ceremony's trust.json is one version later, and root.json stays.
LEMMA NewTrust ==
    ASSUME IInv, NEW keys \in SUBSET Keys
    PROVE  /\ [Tip EXCEPT !.trust = NextTrust(keys)] \in Tree
           /\ [Tip EXCEPT !.trust = NextTrust(keys)].retired = Tip.retired
           /\ [Tip EXCEPT !.trust = NextTrust(keys)].trust = NextTrust(keys)
           /\ [Tip EXCEPT !.trust = NextTrust(keys)].root = Tip.root
           /\ Tip.trust.ver <= NextTrust(keys).ver
<1>1. Tip \in Tree
  BY DEF IInv, TypeOK, Tip
<1>2. Tip.trust.ver \in Nat
  BY <1>1 DEF Tree, Trust
<1>3. NextTrust(keys) \in Trust /\ NextTrust(keys).ver = Tip.trust.ver + 1
  BY <1>2 DEF NextTrust, Trust
<1>4. [Tip EXCEPT !.trust = NextTrust(keys)] \in Tree
  BY <1>1, <1>3, TreeFields
<1> QED
  BY <1>1, <1>2, <1>3, <1>4 DEF Tree

\* Every kind of commit main takes is a tree, and takes neither copy back.
LEMMA MainLands ==
    ASSUME IInv, MainMoves
    PROVE  \E kind \in Edits, t \in Tree : Lands(kind, t) /\ CopiesKept(t)
<1>1. Tip \in Tree /\ clock \in Nat
  BY DEF IInv, TypeOK, Tip
<1>2. /\ Tip.serial + 1 \in Nat /\ Tip.listSerial + 1 \in Nat /\ Tip.root + 1 \in Nat /\ Tip.root \in Nat
      /\ Tip.serial > 0 => Tip.serial - 1 \in Nat
      /\ Tip.trust.ver \in Nat /\ Tip.trust.keys \subseteq Keys
      /\ Tip.retired \in [Keys -> Nat]
  BY <1>1 DEF Tree, Trust
<1>3. ASSUME NEW kind, NEW t \in Tree, Lands(kind, t),
             Tip.trust.ver <= t.trust.ver, Tip.root <= t.root
      PROVE  \E k \in Edits, u \in Tree : Lands(k, u) /\ CopiesKept(u)
  BY <1>3 DEF Lands, CopiesKept
<1>4. CASE LandPlugins
  <2>1. PICK l \in Listings, q \in {"ok", "tight", "bad"} :
          Lands("plugins", [Tip EXCEPT !.serial = @ + 1, !.listings = l, !.catalogue = q])
    BY <1>4 DEF LandPlugins
  <2> DEFINE a == [Tip EXCEPT !.serial = @ + 1]
             b == [a EXCEPT !.listings = l]
             c == [b EXCEPT !.catalogue = q]
  <2>2. a \in Tree /\ a.trust = Tip.trust /\ a.root = Tip.root
    BY <1>1, <1>2, TreeFields, CopiesFields
  <2>3. b \in Tree /\ b.trust = Tip.trust /\ b.root = Tip.root
    BY <2>2, TreeFields, CopiesFields
  <2>4. c \in Tree /\ c.trust = Tip.trust /\ c.root = Tip.root
    BY <2>3, TreeFields, CopiesFields
  <2>5. Lands("plugins", c)
    BY <2>1
  <2> HIDE DEF c
  <2> QED
    BY <1>2, <1>3, <2>4, <2>5
<1>5. CASE LandMerge
  <2>1. PICK l \in Listings : Tip.serial > 0 /\ Lands("merge", [Tip EXCEPT !.serial = @ - 1, !.listings = l])
    BY <1>5 DEF LandMerge
  <2> DEFINE a == [Tip EXCEPT !.serial = @ - 1]
             b == [a EXCEPT !.listings = l]
  <2>2. a \in Tree /\ a.trust = Tip.trust /\ a.root = Tip.root
    BY <1>1, <1>2, <2>1, TreeFields, CopiesFields
  <2>3. b \in Tree /\ b.trust = Tip.trust /\ b.root = Tip.root
    BY <2>2, TreeFields, CopiesFields
  <2>4. Lands("merge", b)
    BY <2>1
  <2> HIDE DEF b
  <2> QED
    BY <1>2, <1>3, <2>3, <2>4
<1>6. CASE LandPublisher
  <2>1. PICK x \in Publishers : Lands("publisher", [Tip EXCEPT !.publisher = x])
    BY <1>6 DEF LandPublisher
  <2> DEFINE a == [Tip EXCEPT !.publisher = x]
  <2>2. a \in Tree /\ a.trust = Tip.trust /\ a.root = Tip.root
    BY <1>1, TreeFields, CopiesFields
  <2>3. Lands("publisher", a)
    BY <2>1
  <2> HIDE DEF a
  <2> QED
    BY <1>2, <1>3, <2>2, <2>3
<1>7. CASE LandGenerator
  <2>1. PICK l \in Listings, q \in {"ok", "bad"} : Lands("generator", [Tip EXCEPT !.listings = l, !.catalogue = q])
    BY <1>7 DEF LandGenerator
  <2> DEFINE a == [Tip EXCEPT !.listings = l]
             b == [a EXCEPT !.catalogue = q]
  <2>2. a \in Tree /\ a.trust = Tip.trust /\ a.root = Tip.root
    BY <1>1, TreeFields, CopiesFields
  <2>3. b \in Tree /\ b.trust = Tip.trust /\ b.root = Tip.root
    BY <2>2, TreeFields, CopiesFields
  <2>4. Lands("generator", b)
    BY <2>1
  <2> HIDE DEF b
  <2> QED
    BY <1>2, <1>3, <2>3, <2>4
<1>8. CASE LandAdvisory
  <2>1. PICK e \in Entries, q \in {"ok", "bad"} :
          Lands("advisory", [Tip EXCEPT !.listSerial = @ + 1, !.entries = e, !.list = q])
    BY <1>8 DEF LandAdvisory
  <2> DEFINE a == [Tip EXCEPT !.listSerial = @ + 1]
             b == [a EXCEPT !.entries = e]
             c == [b EXCEPT !.list = q]
  <2>2. a \in Tree /\ a.trust = Tip.trust /\ a.root = Tip.root
    BY <1>1, <1>2, TreeFields, CopiesFields
  <2>3. b \in Tree /\ b.trust = Tip.trust /\ b.root = Tip.root
    BY <2>2, TreeFields, CopiesFields
  <2>4. c \in Tree /\ c.trust = Tip.trust /\ c.root = Tip.root
    BY <2>3, TreeFields, CopiesFields
  <2>5. Lands("advisory", c)
    BY <2>1
  <2> HIDE DEF c
  <2> QED
    BY <1>2, <1>3, <2>4, <2>5
<1>9. CASE LandRotation
  <2>1. PICK k \in Keys : Lands("rotation", [Tip EXCEPT !.trust = NextTrust(Tip.trust.keys \cup {k})])
    BY <1>9 DEF LandRotation
  <2> DEFINE u == [Tip EXCEPT !.trust = NextTrust(Tip.trust.keys \cup {k})]
  <2>2. Tip.trust.keys \cup {k} \in SUBSET Keys
    BY <1>2
  <2>3. u \in Tree /\ Tip.trust.ver <= u.trust.ver /\ u.root = Tip.root
    BY <2>2, NewTrust
  <2>4. Lands("rotation", u)
    BY <2>1
  <2> HIDE DEF u
  <2> QED
    BY <1>2, <1>3, <2>3, <2>4
<1>10. CASE LandDrop
  <2>1. PICK k \in Droppable : Lands("drop", [Tip EXCEPT !.trust = NextTrust(Tip.trust.keys \ {k})])
    BY <1>10 DEF LandDrop
  <2> DEFINE u == [Tip EXCEPT !.trust = NextTrust(Tip.trust.keys \ {k})]
  <2>2. Tip.trust.keys \ {k} \in SUBSET Keys
    BY <1>2
  <2>3. u \in Tree /\ Tip.trust.ver <= u.trust.ver /\ u.root = Tip.root
    BY <2>2, NewTrust
  <2>4. Lands("drop", u)
    BY <2>1
  <2> HIDE DEF u
  <2> QED
    BY <1>2, <1>3, <2>3, <2>4
<1>11. CASE LandRetirement
  <2>1. PICK k \in Droppable, from \in {clock, clock + 1} :
          Lands("retire", [Tip EXCEPT !.trust = NextTrust(Tip.trust.keys \ {k}), !.retired = [@ EXCEPT ![k] = from]])
    BY <1>11 DEF LandRetirement
  <2> DEFINE u == [Tip EXCEPT !.trust = NextTrust(Tip.trust.keys \ {k})]
             v == [u EXCEPT !.retired = [@ EXCEPT ![k] = from]]
  <2>2. Tip.trust.keys \ {k} \in SUBSET Keys
    BY <1>2
  <2>3. u \in Tree /\ u.retired = Tip.retired /\ Tip.trust.ver <= u.trust.ver /\ u.root = Tip.root
    BY <2>2, NewTrust
  <2>4. from \in Nat
    BY <1>1
  <2>5. [Tip.retired EXCEPT ![k] = from] \in [Keys -> Nat]
    BY <1>2, <2>4
  <2>6. v = [Tip EXCEPT !.trust = NextTrust(Tip.trust.keys \ {k}), !.retired = [@ EXCEPT ![k] = from]]
    OBVIOUS
  <2>7. v \in Tree
    BY <2>3, <2>5, TreeFields
  <2>8. v.trust = u.trust /\ v.root = u.root
    <3> HIDE DEF u
    <3> QED
      BY <2>3 DEF Tree
  <2>9. Lands("retire", v)
    BY <2>1, <2>6
  <2> HIDE DEF v
  <2> QED
    BY <1>2, <1>3, <2>3, <2>7, <2>8, <2>9
<1>12. CASE LandRoot
  <2> DEFINE a == [Tip EXCEPT !.root = @ + 1]
  <2>1. a \in Tree
    BY <1>1, <1>2, TreeFields
  <2>2. a.trust = Tip.trust /\ a.root = Tip.root + 1
    BY <1>1 DEF Tree
  <2>3. Lands("root", a)
    BY <1>12 DEF LandRoot
  <2> HIDE DEF a
  <2> QED
    BY <1>2, <1>3, <2>1, <2>2, <2>3
<1>13. CASE LandCopies
  <2>1. PICK q \in {"ok", "bad"} : Lands("copies", [Tip EXCEPT !.copies = q])
    BY <1>13 DEF LandCopies
  <2> DEFINE a == [Tip EXCEPT !.copies = q]
  <2>2. a \in Tree /\ a.trust = Tip.trust /\ a.root = Tip.root
    BY <1>1, TreeFields, CopiesFields
  <2>3. Lands("copies", a)
    BY <2>1
  <2> HIDE DEF a
  <2> QED
    BY <1>2, <1>3, <2>2, <2>3
<1> QED
  BY <1>4, <1>5, <1>6, <1>7, <1>8, <1>9, <1>10, <1>11, <1>12, <1>13 DEF MainMoves

\* main moving keeps the invariant.
LEMMA MainStep ==
    ASSUME IInv, MainMoves
    PROVE  IInv'
BY MainLands, LandStep

\* Time passing.
LEMMA TickStep ==
    ASSUME IInv, Tick
    PROVE  IInv'
<1>1. main' = main /\ signed' = signed /\ runs' = runs /\ clock' = clock + 1
  BY DEF Tick
<1>2. TypeOK'
  BY <1>1 DEF IInv, TypeOK
<1> QED
  BY <1>1, <1>2 DEF IInv, SourcesExist, PlanHolds

-----------------------------------------------------------------------------
(* Theorems                                                                  *)

\* The invariant is kept by every step.
LEMMA Inductive ==
    ASSUME IInv, [Next]_vars
    PROVE  IInv'
<1>1. CASE UNCHANGED vars
  BY <1>1 DEF vars, IInv, TypeOK, SourcesExist, PlanHolds
<1>2. CASE Tick
  BY <1>2, TickStep
<1>3. CASE MainMoves
  BY <1>3, MainStep
<1>4. ASSUME NEW r \in Runners, Run(r) PROVE IInv'
  <2>1. Len(signed) \in 0..Len(signed) /\ 0 \in 0..Len(signed)
    BY DEF IInv, TypeOK
  <2>2. ASSUME NEW event \in Events, Start(r, event) PROVE IInv'
    BY <2>2, StartStep
  <2>3. CASE Sign(r)
    BY <2>1, <2>3, SignStep DEF Sign
  <2>4. CASE SignBlind(r)
    BY <2>1, <2>4, SignStep DEF SignBlind
  <2>5. CASE BuildCommit(r)
    BY <2>5, BuildStep
  <2>6. CASE PushSucceeds(r)
    BY <2>6, PushSucceedsStep
  <2>7. ASSUME NEW lands \in BOOLEAN, NEW fetched \in BOOLEAN, PushFails(r, lands, fetched) PROVE IInv'
    BY <2>7, PushFailsStep
  <2>8. CASE Crash(r)
    BY <2>8, CrashStep
  <2> QED
    BY <1>4, <2>2, <2>3, <2>4, <2>5, <2>6, <2>7, <2>8 DEF Run, Push
<1> QED
  BY <1>1, <1>2, <1>3, <1>4 DEF Next

\* The invariant holds in the initial state.
LEMMA Initially ==
    ASSUME Init
    PROVE  IInv
<1>1. PICK l \in Listings, x \in Publishers, e \in Entries : main = <<Genesis(l, x, e)>>
  BY DEF Init
<1>2. Never \in Nat /\ GenesisKeys \subseteq Keys
  BY TimeAssumption, KeysAssumption DEF Never
<1>3. Genesis(l, x, e) \in Tree
  BY <1>2 DEF Genesis, Tree, Trust
<1>4. main \in Seq(Tree) /\ main # <<>>
  BY <1>1, <1>3
<1>5. signed = <<>> /\ clock = 0 /\ runs = [r \in Runners |-> Idle]
  BY DEF Init
<1>6. Idle \in RunStates /\ Idle.phase = "idle"
  BY DEF RunStates, IdleRun, Idle
<1>7. TypeOK
  BY <1>4, <1>5, <1>6 DEF TypeOK
<1> QED
  BY <1>4, <1>5, <1>6, <1>7 DEF IInv, SourcesExist, PlanHolds

\* What the theorems below rest on: IInv holds in every reachable state.
THEOREM Invariance == Spec => []IInv
<1>1. Init => IInv
  BY Initially
<1>2. IInv /\ [Next]_vars => IInv'
  BY Inductive
<1> QED
  BY <1>1, <1>2, PTL DEF Spec

\* Every variable keeps its type, whatever the runs do and however many there are.
THEOREM TypeCorrect == Spec => []TypeOK
<1>1. IInv => TypeOK
  BY DEF IInv
<1> QED
  BY <1>1, Invariance, PTL

\* SERVE-95 on the branch: refusesDroppedKey, asked of every plan, keeps every
\* commit verifiable under its own trust.json, through any race or crash.
THEOREM EveryCommitVerifies == Spec => []CommitsVerify
<1>1. IInv => CommitsVerify
  BY DEF IInv, TypeOK, CommitsVerify, Commits, Served!Sound, Served!Verifies, Verifies
<1> QED
  BY <1>1, Invariance, PTL

\* A step that changes `signed` appends one commit, sound and not older.
LEMMA PublishStep ==
    ASSUME IInv, NEW r \in Runners, runs[r].phase = "push", FastForward(r),
           signed' = Append(signed, runs[r].new)
    PROVE  Served!Publish
<1>1. /\ runs[r].new \in Commit /\ Served!Sound(runs[r].new)
      /\ Len(signed) > 0 => Served!Follows(runs[r].new, signed[Len(signed)])
  BY PushPlan
<1>2. signed \in Seq(Commit) /\ Len(signed) \in Nat
  BY DEF IInv, TypeOK
<1>3. Len(signed') = Len(signed) + 1 /\ signed'[Len(signed')] = runs[r].new
  BY <1>1, <1>2
<1>4. \A i \in 1..Len(signed) : signed'[i] = signed[i]
  BY <1>1, <1>2
<1> QED
  BY <1>1, <1>3, <1>4 DEF Served!Publish

\* Any step, seen from the branch: a publication or a stutter.
LEMMA SignedStep ==
    ASSUME IInv, [Next]_vars, signed' # signed
    PROVE  Served!Publish
<1>1. PICK r \in Runners : runs[r].phase = "push" /\ FastForward(r) /\ signed' = Append(signed, runs[r].new)
  BY DEF Next, vars, Tick, MainMoves, LandPlugins, LandMerge, LandPublisher, LandGenerator, LandAdvisory,
         LandRotation, LandDrop, LandRetirement, LandRoot, LandCopies, Lands, Run, Start, Sign, SignBlind,
         SignAgainst, BuildCommit, Push, PushSucceeds, PushFails, Crash
<1> QED
  BY <1>1, PublishStep

\* The branch implements ServedLog: serials never fall (SERVE-36), an equal
\* catalogue serial means equal listings (TRUST-28), a replaced document is
\* issued later (SERVE-89), Index-Source-Commits descend (TRUST-43a) and
\* nothing published is rewritten.
THEOREM Refinement == Spec => ImplementsServedLog
<1>1. Init => Served!Init
  BY DEF Init, Served!Init
<1>2. IInv /\ [Next]_vars => [Served!Publish]_signed
  BY SignedStep
<1> QED
  BY <1>1, <1>2, Invariance, PTL DEF Spec, ImplementsServedLog, Served!Spec

\* Adjacent commits carry the property to any two: the serials never fall and
\* an equal one passes the same listings on from commit to commit.
LEMMA SerialsStep ==
    ASSUME IInv, SerialsIdentifyListings, [Next]_vars, IInv'
    PROVE  SerialsIdentifyListings'
<1>1. CASE signed' = signed
  BY <1>1 DEF SerialsIdentifyListings, Commits
<1>2. CASE signed' # signed
  <2> DEFINE n == Len(signed)
             Serial(c) == c.index.content.serial
             ListSerial(c) == c.list.content.serial
             Listed(c) == c.index.content.listings
  <2>1. n \in Nat /\ signed' \in Seq(Commit) /\ signed \in Seq(Commit)
    BY DEF IInv, TypeOK
  <2>2. /\ Len(signed') = n + 1
        /\ \A i \in 1..n : signed'[i] = signed[i]
        /\ n > 0 => Served!SerialsHold(signed'[n + 1], signed[n])
    BY <1>2, <2>1, SignedStep DEF Served!Publish, Served!Follows
  <2>3. \A i \in 1..(n + 1) : Serial(signed'[i]) \in Nat /\ ListSerial(signed'[i]) \in Nat
    <3>1. \A c \in Commit : c.index \in IndexDoc /\ c.list \in ListDoc
      BY DEF Commit
    <3>2. \A doc \in IndexDoc : doc.content.serial \in Nat
      BY DEF IndexDoc, IndexContent
    <3>3. \A doc \in ListDoc : doc.content.serial \in Nat
      BY DEF ListDoc, ListContent
    <3>4. \A i \in 1..(n + 1) : signed'[i] \in Commit
      BY <2>1, <2>2
    <3> QED
      BY <3>1, <3>2, <3>3, <3>4
  <2>4. ASSUME NEW i \in 1..n, NEW j \in 1..n, i < j
        PROVE  /\ ListSerial(signed[i]) <= ListSerial(signed[j])
               /\ Serial(signed[i]) <= Serial(signed[j])
               /\ Serial(signed[i]) = Serial(signed[j]) => Listed(signed[i]) = Listed(signed[j])
    BY <2>1, <2>4 DEF SerialsIdentifyListings, Commits
  <2>5. n > 0 => /\ ListSerial(signed[n]) <= ListSerial(signed'[n + 1])
                 /\ Serial(signed[n]) <= Serial(signed'[n + 1])
                 /\ Serial(signed[n]) = Serial(signed'[n + 1]) => Listed(signed[n]) = Listed(signed'[n + 1])
    <3> SUFFICES ASSUME n > 0
                 PROVE  /\ ListSerial(signed[n]) <= ListSerial(signed'[n + 1])
                        /\ Serial(signed[n]) <= Serial(signed'[n + 1])
                        /\ Serial(signed[n]) = Serial(signed'[n + 1])
                             => Listed(signed[n]) = Listed(signed'[n + 1])
      OBVIOUS
    <3>1. /\ Serial(signed'[n + 1]) >= Serial(signed[n])
          /\ ListSerial(signed'[n + 1]) >= ListSerial(signed[n])
          /\ Serial(signed'[n + 1]) = Serial(signed[n]) => Listed(signed'[n + 1]) = Listed(signed[n])
      BY <2>2 DEF Served!SerialsHold
    <3> QED
      BY <2>1, <2>2, <2>3, <3>1
  <2> HIDE DEF Serial, ListSerial, Listed
  <2>6. ASSUME NEW i \in 1..(n + 1), NEW j \in 1..(n + 1), i < j
        PROVE  /\ ListSerial(signed'[i]) <= ListSerial(signed'[j])
               /\ Serial(signed'[i]) <= Serial(signed'[j])
               /\ Serial(signed'[i]) = Serial(signed'[j]) => Listed(signed'[i]) = Listed(signed'[j])
    <3>1. CASE j \in 1..n
      <4>1. i \in 1..n
        BY <2>1, <2>6, <3>1
      <4> QED
        BY <2>2, <2>4, <2>6, <3>1, <4>1
    <3>2. CASE j = n + 1 /\ i = n
      BY <2>1, <2>2, <2>5, <2>6, <3>2
    <3>3. CASE j = n + 1 /\ i < n
      <4>1. i \in 1..n /\ n \in 1..n /\ n > 0
        BY <2>1, <2>6, <3>3
      <4>2. /\ ListSerial(signed[i]) <= ListSerial(signed[n])
            /\ Serial(signed[i]) <= Serial(signed[n])
            /\ Serial(signed[i]) = Serial(signed[n]) => Listed(signed[i]) = Listed(signed[n])
        BY <2>4, <3>3, <4>1
      <4>3. /\ signed'[i] = signed[i] /\ signed'[n] = signed[n]
            /\ Serial(signed'[i]) \in Nat /\ Serial(signed'[n]) \in Nat /\ Serial(signed'[n + 1]) \in Nat
            /\ ListSerial(signed'[i]) \in Nat /\ ListSerial(signed'[n]) \in Nat /\ ListSerial(signed'[n + 1]) \in Nat
        BY <2>1, <2>2, <2>3, <4>1
      <4> QED
        BY <2>5, <3>3, <4>1, <4>2, <4>3
    <3> QED
      BY <2>1, <2>6, <3>1, <3>2, <3>3
  <2>7. DOMAIN signed' = 1..(n + 1)
    BY <2>1, <2>2
  <2> QED
    BY <2>6, <2>7 DEF SerialsIdentifyListings, Commits, Serial, ListSerial, Listed
<1> QED
  BY <1>1, <1>2

\* SERVE-36 and TRUST-28 between any two commits of the branch.
THEOREM SerialsAreHonest == Spec => []SerialsIdentifyListings
<1>1. Init => SerialsIdentifyListings
  BY DEF Init, SerialsIdentifyListings, Commits
<1>2. IInv /\ IInv' /\ SerialsIdentifyListings /\ [Next]_vars => SerialsIdentifyListings'
  BY SerialsStep
<1> QED
  BY <1>1, <1>2, Invariance, PTL DEF Spec
=============================================================================
