------------------------ MODULE SignerHistoryProofs ------------------------
(* What the branch `signed` says of main and of its own past: proofs of the   *)
(* remaining invariants of Signer.tla, for every set of keys and every bound. *)
(* Some speak of the workflow alone, whose concurrency group lets one run at  *)
(* a time be under way; those theorems say so in their hypotheses.            *)
EXTENDS SignerProofs

Extends(a, b) == Len(a) <= Len(b) /\ \A i \in 1..Len(a) : b[i] = a[i]

-----------------------------------------------------------------------------
(* What a step does to the branches and to one run                           *)

Pushed(r) == runs[r].phase = "push" /\ FastForward(r) /\ signed' = Append(signed, runs[r].new)

SharedStays == UNCHANGED <<main, signed, clock>>

Begun(q) ==
    /\ runs'[q].phase = "ready" /\ runs'[q].src \in 1..Len(main)
    /\ q \notin Shell => runs'[q].src = Len(main)
    /\ SharedStays

Planned(q) ==
    /\ runs[q].phase = "ready" /\ runs'[q].phase = "signed"
    /\ \E p \in {0, Len(signed)}, now \in Nows, held \in HeldSets :
         /\ held # {} /\ commits(p, runs[q].src, runs[q].event, now, held)
         /\ runs'[q].parent = p
         /\ runs'[q].new = newCommit(p, runs[q].src, runs[q].event, now, held)
    /\ SharedStays

Dated(q) ==
    /\ runs[q].phase = "signed" /\ runs'[q].phase = "push"
    /\ runs'[q].parent = runs[q].parent
    /\ \E at \in Nows : at >= runs[q].new.at /\ runs'[q].new = [runs[q].new EXCEPT !.at = at]
    /\ SharedStays

Retried(q) ==
    /\ runs[q].phase = "push" /\ runs'[q].phase = "push"
    /\ runs'[q].parent = runs[q].parent /\ runs'[q].new = runs[q].new

Ended(q) == runs'[q].phase \notin {"ready", "signed", "push"}

RunMoves(q) == runs'[q] = runs[q] \/ Begun(q) \/ Planned(q) \/ Dated(q) \/ Retried(q) \/ Ended(q)

MainGrows == main' = main \/ \E t \in Tree : main' = Append(main, t) /\ CopiesKept(t)
ClockRuns == clock' = clock \/ clock' = clock + 1
SignedGrows == signed' = signed \/ \E r \in Runners : Pushed(r)

\* `--step sign`, as Planned or Ended.
LEMMA SignShape ==
    ASSUME IInv, NEW r \in Runners, NEW p \in {0, Len(signed)}, SignAgainst(r, p)
    PROVE  SharedStays /\ \A q \in Runners : RunMoves(q)
<1> DEFINE s == runs[r].src
           event == runs[r].event
<1>1. PICK now \in Nows, held \in HeldSets :
         runs' = [runs EXCEPT ![r] =
             IF held # {} /\ commits(p, s, event, now, held)
             THEN [phase |-> "signed", started |-> runs[r].started, parent |-> p,
                   new |-> newCommit(p, s, event, now, held)]
             ELSE Idle]
  BY DEF SignAgainst
<1>2. SharedStays /\ runs[r].phase = "ready"
  BY DEF SignAgainst, SharedStays
<1>3. CASE held # {} /\ commits(p, s, event, now, held)
  <2> DEFINE w == [phase |-> "signed", started |-> runs[r].started, parent |-> p,
                   new |-> newCommit(p, s, event, now, held)]
  <2>1. runs' = [runs EXCEPT ![r] = w]
    BY <1>1, <1>3
  <2>2. w.phase = "signed" /\ w.parent = p /\ w.new = newCommit(p, s, event, now, held)
    OBVIOUS
  <2> HIDE DEF w
  <2>3. runs'[r] = w /\ \A q \in Runners : q # r => runs'[q] = runs[q]
    BY <2>1 DEF IInv, TypeOK
  <2>4. Planned(r)
    BY <1>2, <1>3, <2>2, <2>3 DEF Planned
  <2> QED
    BY <1>2, <2>3, <2>4 DEF RunMoves
<1>4. CASE ~(held # {} /\ commits(p, s, event, now, held))
  <2>1. runs' = [runs EXCEPT ![r] = Idle]
    BY <1>1, <1>4
  <2>2. runs'[r] = Idle /\ \A q \in Runners : q # r => runs'[q] = runs[q]
    BY <2>1 DEF IInv, TypeOK
  <2> QED
    BY <1>2, <2>2 DEF RunMoves, Ended, Idle
<1> QED
  BY <1>3, <1>4

\* A push, however it is answered.
LEMMA PushShape ==
    ASSUME IInv, NEW r \in Runners, Push(r)
    PROVE  /\ main' = main /\ clock' = clock
           /\ signed' = signed \/ Pushed(r)
           /\ \A q \in Runners : RunMoves(q)
<1>1. CASE PushSucceeds(r)
  <2>1. runs' = [runs EXCEPT ![r] = Idle]
    BY <1>1 DEF PushSucceeds
  <2>2. runs'[r] = Idle /\ \A q \in Runners : q # r => runs'[q] = runs[q]
    BY <2>1 DEF IInv, TypeOK
  <2> QED
    BY <1>1, <2>2 DEF PushSucceeds, Pushed, RunMoves, Ended, Idle
<1>2. ASSUME NEW lands \in BOOLEAN, NEW fetched \in BOOLEAN, PushFails(r, lands, fetched)
      PROVE  /\ main' = main /\ clock' = clock
             /\ signed' = signed \/ Pushed(r)
             /\ \A q \in Runners : RunMoves(q)
  <2> DEFINE run == runs[r]
             again == [run EXCEPT !.attempt = @ + 1, !.landed = @ \/ lands]
             raced == [phase |-> "raced", landed |-> run.landed \/ lands]
  <2>1. run \in PushRun /\ run.phase = "push"
    BY <1>2, PushPlan DEF PushFails
  <2>2. main' = main /\ clock' = clock /\ (signed' = signed \/ Pushed(r))
    BY <1>2 DEF PushFails, Pushed
  <2>3. \E w \in {again, Idle, raced} : runs' = [runs EXCEPT ![r] = w]
    BY <1>2 DEF PushFails
  <2>4. again.phase = "push" /\ again.parent = run.parent /\ again.new = run.new
    BY <2>1 DEF PushRun
  <2>5. Idle.phase = "idle" /\ raced.phase = "raced"
    BY DEF Idle
  <2> HIDE DEF again, raced
  <2>6. PICK w \in {again, Idle, raced} : runs' = [runs EXCEPT ![r] = w]
    BY <2>3
  <2>7. runs'[r] = w /\ \A q \in Runners : q # r => runs'[q] = runs[q]
    BY <2>6 DEF IInv, TypeOK
  <2>8. Retried(r) \/ Ended(r)
    BY <2>1, <2>4, <2>5, <2>7 DEF Retried, Ended
  <2> QED
    BY <2>2, <2>7, <2>8 DEF RunMoves
<1> QED
  BY <1>1, <1>2 DEF Push

\* Any step: main and the clock only go forward, `signed` only by a push that
\* is a fast-forward, and each run by a step of its own.
LEMMA StepShape ==
    ASSUME IInv, [Next]_vars
    PROVE  MainGrows /\ ClockRuns /\ SignedGrows /\ \A q \in Runners : RunMoves(q)
<1> USE DEF MainGrows, ClockRuns, SignedGrows
<1>1. CASE UNCHANGED vars
  BY <1>1 DEF vars, RunMoves
<1>2. CASE Tick
  BY <1>2 DEF Tick, RunMoves
<1>3. CASE MainMoves
  <2>1. PICK kind \in Edits, t \in Tree : Lands(kind, t) /\ CopiesKept(t)
    BY <1>3, MainLands
  <2> QED
    BY <2>1 DEF Lands, RunMoves
<1>4. ASSUME NEW r \in Runners, Run(r)
      PROVE  MainGrows /\ ClockRuns /\ SignedGrows /\ \A q \in Runners : RunMoves(q)
  <2>1. ASSUME NEW event \in Events, Start(r, event) PROVE SharedStays /\ \A q \in Runners : RunMoves(q)
    <3>1. PICK s \in IF r \in Shell THEN 1..Len(main) ELSE {Len(main)} :
            runs' = [runs EXCEPT ![r] = [phase |-> "ready", started |-> clock, src |-> s, event |-> event]]
      BY <2>1 DEF Start
    <3> DEFINE w == [phase |-> "ready", started |-> clock, src |-> s, event |-> event]
    <3>2. w.phase = "ready" /\ w.src = s
      OBVIOUS
    <3> HIDE DEF w
    <3>3. runs'[r] = w /\ \A q \in Runners : q # r => runs'[q] = runs[q]
      BY <3>1 DEF IInv, TypeOK, w
    <3>4. s \in 1..Len(main) /\ (r \notin Shell => s = Len(main))
      BY DEF IInv, TypeOK
    <3>5. SharedStays
      BY <2>1 DEF Start, SharedStays
    <3>6. Begun(r)
      BY <3>2, <3>3, <3>4, <3>5 DEF Begun
    <3> QED
      BY <3>3, <3>5, <3>6 DEF RunMoves
  <2>2. CASE Sign(r) \/ SignBlind(r)
    BY <2>2, SignShape DEF Sign, SignBlind, SharedStays
  <2>3. ASSUME BuildCommit(r) PROVE SharedStays /\ \A q \in Runners : RunMoves(q)
    <3>1. PICK at \in Nows :
            /\ at >= runs[r].new.at
            /\ runs' = [runs EXCEPT ![r] =
                 [phase |-> "push", started |-> runs[r].started, parent |-> runs[r].parent,
                  new |-> [runs[r].new EXCEPT !.at = at], attempt |-> 1, landed |-> FALSE]]
      BY <2>3 DEF BuildCommit
    <3> DEFINE w == [phase |-> "push", started |-> runs[r].started, parent |-> runs[r].parent,
                     new |-> [runs[r].new EXCEPT !.at = at], attempt |-> 1, landed |-> FALSE]
    <3>2. w.phase = "push" /\ w.parent = runs[r].parent /\ w.new = [runs[r].new EXCEPT !.at = at]
      OBVIOUS
    <3>3. runs' = [runs EXCEPT ![r] = w]
      BY <3>1
    <3> HIDE DEF w
    <3>4. runs'[r] = w /\ \A q \in Runners : q # r => runs'[q] = runs[q]
      BY <3>3 DEF IInv, TypeOK
    <3>5. SharedStays /\ runs[r].phase = "signed"
      BY <2>3 DEF BuildCommit, SharedStays
    <3>6. Dated(r)
      BY <3>1, <3>2, <3>4, <3>5 DEF Dated
    <3> QED
      BY <3>4, <3>5, <3>6 DEF RunMoves
  <2>4. CASE Push(r)
    BY <2>4, PushShape
  <2>5. CASE Crash(r)
    <3>1. runs' = [runs EXCEPT ![r] = Idle]
      BY <2>5 DEF Crash
    <3>2. runs'[r] = Idle /\ \A q \in Runners : q # r => runs'[q] = runs[q]
      BY <3>1 DEF IInv, TypeOK
    <3> QED
      BY <2>5, <3>2 DEF Crash, RunMoves, Ended, Idle
  <2> QED
    BY <1>4, <2>1, <2>2, <2>3, <2>4, <2>5 DEF Run, SharedStays
<1> QED
  BY <1>1, <1>2, <1>3, <1>4 DEF Next

-----------------------------------------------------------------------------
(* What a commit on the branch, or in a run's hands, says                     *)

\* The key rules, over a branch sg.
CompromiseOn(sg, p, t, now) ==
    ~((IF p = 0 THEN {} ELSE sg[p].trust.keys) \ t.trust.keys \subseteq {k \in Keys : t.retired[k] <= now})
PassedOn(sg, p, k, now) ==
    \E i \in 1..p : /\ k \in sg[i].trust.keys
                    /\ \A j \in 1..p : k \in sg[j].trust.keys => i <= j
                    /\ now - sg[i].at >= WINDOW

\* The trailers and the copies of c are those of main's trees.
Traced(m, c) ==
    /\ c.src \in 1..Len(m) /\ c.isrc \in 1..c.src
    /\ c.trust = m[c.src].trust /\ c.root = m[c.src].root
    /\ c.index.content = catalogueContent(m[c.isrc]) /\ m[c.isrc].catalogue = "ok"
    /\ \E s \in 1..Len(m) : m[s].list = "ok" /\ c.list.content = listContent(m[s])

\* A list signed with c: by every key held that trust.json delegates.
ListMade(c) == \E held \in HeldSets : held # {} /\ c.list.sigs = held \cap c.trust.keys

\* A catalogue signed with c, made on top of the first p commits of sg: later
\* than the one it replaces, by keys that may sign it.
IndexMade(m, sg, c, p) ==
    /\ c.index.issued <= c.at
    /\ p > 0 => c.index.issued > sg[p].index.issued
    /\ \A k \in c.index.sigs :
         /\ k \in c.trust.keys
         /\ CompromiseOn(sg, p, m[c.src], c.index.issued) \/ k \in Exempt \/ PassedOn(sg, p, k, c.index.issued)

Decided(m, sg, c, p) ==
    /\ Traced(m, c)
    /\ ListMade(c) \/ (p > 0 /\ c.list = sg[p].list)
    /\ IndexMade(m, sg, c, p) \/ (p > 0 /\ c.index = sg[p].index)

\* The catalogue of commit d was signed with commit k and carried since.
MadeAt(m, sg, k, d) == IndexMade(m, sg, sg[k], k - 1) /\ \A i \in k..d : sg[i].index = sg[d].index

LogHolds(m, sg, now) ==
    /\ \A i \in 1..Len(sg) : Decided(m, sg, sg[i], i - 1) /\ sg[i].at <= now
    /\ \A d \in 1..Len(sg) : \E k \in 1..d : MadeAt(m, sg, k, d)
    /\ \A i, j \in 1..Len(sg) : i < j => sg[i].at <= sg[j].at + Skew

\* A commit c in hand, to be pushed on top of the first p of sg.
InHand(m, sg, now, c, p) ==
    /\ p \in 0..Len(sg)
    /\ Decided(m, sg, c, p)
    /\ c.at <= now
    /\ Len(sg) = p => \A i \in 1..Len(sg) : sg[i].at <= c.at + Skew

HInv ==
    /\ LogHolds(main, signed, clock)
    /\ \A r \in Runners : runs[r].phase \in {"signed", "push"} => InHand(main, signed, clock, runs[r].new, runs[r].parent)

\* A catalogue signed now fits, beside what IndexSignedNow says of it.
LEMMA IndexFits ==
    ASSUME NEW p \in Nat, NEW t \in Tree, NEW event, NEW now, NEW held,
           Signs(indexDecision(p, t, event, now, held)), catalogueGate(p, t)
    PROVE  t.catalogue = "ok"
<1>1. t.catalogue # "tight"
  BY DEF indexDecision, carryOrBlock, Signs, CarryOr
<1>2. t.catalogue # "bad" /\ t.catalogue \in {"ok", "tight", "bad"}
  BY DEF catalogueGate, Tree
<1> QED
  BY <1>1, <1>2

\* signRun commits what it decided, and says truly where it comes from.
LEMMA CommitDecided ==
    ASSUME TypeOK, LogHolds(main, signed, clock),
           NEW p \in 0..Len(signed), NEW s \in 1..Len(main), NEW event \in Events,
           NEW now \in Nat, NEW held \in HeldSets, held # {},
           commits(p, s, event, now, held)
    PROVE  Decided(main, signed, newCommit(p, s, event, now, held), p)
<1> DEFINE t == main[s]
           index == indexDocument(p, t, event, now, held)
           list == listDocument(p, t, event, now, held)
           isrc == indexSourceCommit(p, s, event, now, held)
           c == newCommit(p, s, event, now, held)
<1>1. t \in Tree /\ held \in SUBSET Keys /\ p \in Nat
  BY KeysAssumption DEF TypeOK
<1>2. /\ c.index = index /\ c.list = list /\ c.trust = t.trust /\ c.root = t.root
      /\ c.src = s /\ c.isrc = isrc /\ c.at = now
  BY DEF newCommit
<1>3. p > 0 => Decided(main, signed, signed[p], p - 1)
  BY DEF LogHolds
<1>4. /\ isrc \in 1..s
      /\ index.content = catalogueContent(main[isrc]) /\ main[isrc].catalogue = "ok"
      /\ \/ p > 0 /\ index = signed[p].index
         \/ /\ index.issued = now
            /\ p > 0 => index.issued > signed[p].index.issued
            /\ index.sigs = catalogueSigners(p, t, now, held)
  <2>1. CASE Signs(indexDecision(p, t, event, now, held))
    <3>1. index = [content |-> catalogueContent(t), issued |-> now, sigs |-> catalogueSigners(p, t, now, held)]
      BY <2>1 DEF indexDocument
    <3>2. isrc = s
      BY <2>1 DEF indexSourceCommit
    <3>3. catalogueGate(p, t) /\ (p > 0 => now > signed[p].index.issued)
      BY <1>1, <2>1, IndexSignedNow
    <3>4. t.catalogue = "ok"
      BY <1>1, <2>1, <3>3, IndexFits
    <3>5. index.issued = now /\ index.content = catalogueContent(t) /\ index.sigs = catalogueSigners(p, t, now, held)
      BY <3>1
    <3> HIDE DEF index, isrc
    <3> QED
      BY <3>2, <3>3, <3>4, <3>5
  <2>2. CASE ~Signs(indexDecision(p, t, event, now, held))
    <3>1. p > 0
      BY <1>1, <2>2, IndexKept DEF commits
    <3>2. index = signed[p].index /\ isrc = signed[p].isrc
      BY <2>2, <3>1 DEF indexDocument, indexSourceCommit
    <3>3. signed[p].isrc <= s
      BY <3>1 DEF commits
    <3>4. /\ signed[p].isrc \in 1..signed[p].src /\ signed[p].src \in 1..Len(main)
          /\ signed[p].index.content = catalogueContent(main[signed[p].isrc])
          /\ main[signed[p].isrc].catalogue = "ok"
      BY <1>3, <3>1 DEF Decided, Traced
    <3> HIDE DEF index, isrc
    <3> QED
      BY <3>1, <3>2, <3>3, <3>4
  <2> QED
    BY <2>1, <2>2
<1>5. /\ \E u \in 1..Len(main) : main[u].list = "ok" /\ list.content = listContent(main[u])
      /\ (p > 0 /\ list = signed[p].list) \/ list.sigs = held \cap t.trust.keys
  <2>1. CASE Signs(listDecision(p, t, event, now, held))
    <3>1. list = [content |-> listContent(t), issued |-> now, sigs |-> usable(t, held)]
      BY <2>1 DEF listDocument
    <3>2. t.list = "ok"
      BY <1>1, <2>1, ListSignedNow DEF listGate
    <3> QED
      BY <3>1, <3>2 DEF usable, delegatedKeyIds
  <2>2. CASE ~Signs(listDecision(p, t, event, now, held))
    <3>1. p > 0
      BY <1>1, <2>2, ListKept DEF commits
    <3>2. list = signed[p].list
      BY <2>2 DEF listDocument
    <3>3. \E u \in 1..Len(main) : main[u].list = "ok" /\ signed[p].list.content = listContent(main[u])
      BY <1>3, <3>1 DEF Decided, Traced
    <3> QED
      BY <3>1, <3>2, <3>3
  <2> QED
    BY <2>1, <2>2
<1>6. \A k \in catalogueSigners(p, t, now, held) :
        /\ k \in t.trust.keys
        /\ CompromiseOn(signed, p, t, now) \/ k \in Exempt \/ PassedOn(signed, p, k, now)
  <2> SUFFICES ASSUME NEW k \in catalogueSigners(p, t, now, held)
               PROVE  /\ k \in t.trust.keys
                      /\ CompromiseOn(signed, p, t, now) \/ k \in Exempt \/ PassedOn(signed, p, k, now)
    OBVIOUS
  <2>1. k \in t.trust.keys /\ (Compromise(p, t, now) \/ k \in Exempt \/ WindowPassed(p, k, now))
    BY DEF catalogueSigners, usable, delegatedKeyIds
  <2>2. Compromise(p, t, now) => CompromiseOn(signed, p, t, now)
    BY DEF Compromise, CompromiseOn, Dropped, HeadKeys, delegatedKeyIds, plannedRetirements
  <2>3. WindowPassed(p, k, now) => PassedOn(signed, p, k, now)
    BY DEF WindowPassed, PassedOn, Delegations
  <2> QED
    BY <2>1, <2>2, <2>3
<1> HIDE DEF c, index, list, isrc, t
<1>7. Traced(main, c)
  BY <1>2, <1>4, <1>5 DEF Traced, t
<1>8. ListMade(c) \/ (p > 0 /\ c.list = signed[p].list)
  BY <1>2, <1>5 DEF ListMade
<1>9. IndexMade(main, signed, c, p) \/ (p > 0 /\ c.index = signed[p].index)
  BY <1>2, <1>4, <1>6 DEF IndexMade, t
<1> QED
  BY <1>7, <1>8, <1>9 DEF Decided, c

-----------------------------------------------------------------------------
(* What was decided stays true as both branches grow                         *)

\* The key rules read the first p commits only.
LEMMA RulesStable ==
    ASSUME NEW sg, NEW sg2, Len(sg) \in Nat, Extends(sg, sg2), NEW p \in 0..Len(sg), NEW t, NEW k, NEW now
    PROVE  /\ CompromiseOn(sg2, p, t, now) = CompromiseOn(sg, p, t, now)
           /\ PassedOn(sg2, p, k, now) = PassedOn(sg, p, k, now)
<1>1. \A i \in 1..p : sg2[i] = sg[i]
  BY DEF Extends
<1>2. CompromiseOn(sg2, p, t, now) = CompromiseOn(sg, p, t, now)
  BY <1>1 DEF CompromiseOn
<1>3. PassedOn(sg2, p, k, now) = PassedOn(sg, p, k, now)
  BY <1>1 DEF PassedOn
<1> QED
  BY <1>2, <1>3

LEMMA IndexStable ==
    ASSUME NEW m, NEW m2, NEW sg, NEW sg2, Len(m) \in Nat, Len(m2) \in Nat, Len(sg) \in Nat,
           Extends(m, m2), Extends(sg, sg2),
           NEW c, NEW p \in 0..Len(sg), c.src \in 1..Len(m), IndexMade(m, sg, c, p)
    PROVE  IndexMade(m2, sg2, c, p)
<1>1. m2[c.src] = m[c.src] /\ (p > 0 => sg2[p] = sg[p])
  BY DEF Extends
<1> QED
  BY <1>1, RulesStable DEF IndexMade

LEMMA DecidedStable ==
    ASSUME NEW m, NEW m2, NEW sg, NEW sg2, Len(m) \in Nat, Len(m2) \in Nat, Len(sg) \in Nat,
           Extends(m, m2), Extends(sg, sg2), NEW c, NEW p \in 0..Len(sg), Decided(m, sg, c, p)
    PROVE  Decided(m2, sg2, c, p)
<1>1. Traced(m, c) /\ c.src \in 1..Len(m)
  BY DEF Decided, Traced
<1>2. Traced(m2, c)
  <2>1. c.isrc \in 1..Len(m)
    BY <1>1 DEF Traced
  <2>2. 1..Len(m) \subseteq 1..Len(m2) /\ \A i \in 1..Len(m) : m2[i] = m[i]
    BY DEF Extends
  <2>3. PICK s \in 1..Len(m) : m[s].list = "ok" /\ c.list.content = listContent(m[s])
    BY <1>1 DEF Traced
  <2>4. m2[s].list = "ok" /\ c.list.content = listContent(m2[s]) /\ s \in 1..Len(m2)
    BY <2>2, <2>3
  <2> QED
    BY <1>1, <2>1, <2>2, <2>4 DEF Traced
<1>3. p > 0 => sg2[p] = sg[p]
  BY DEF Extends
<1>4. IndexMade(m, sg, c, p) => IndexMade(m2, sg2, c, p)
  BY <1>1, IndexStable
<1> QED
  BY <1>2, <1>3, <1>4 DEF Decided

\* The branch's part of the invariant, as main grows and time passes.
LEMMA LogStable ==
    ASSUME NEW m, NEW m2, NEW sg \in Seq(Commit), Len(m) \in Nat, Len(m2) \in Nat, Extends(m, m2),
           NEW now \in Nat, NEW now2 \in Nat, now <= now2, LogHolds(m, sg, now)
    PROVE  LogHolds(m2, sg, now2)
<1>1. Extends(sg, sg) /\ Len(sg) \in Nat
  BY DEF Extends
<1>2. ASSUME NEW i \in 1..Len(sg) PROVE Decided(m2, sg, sg[i], i - 1) /\ sg[i].at <= now2
  <2>1. Decided(m, sg, sg[i], i - 1) /\ sg[i].at <= now /\ i - 1 \in 0..Len(sg)
    BY <1>1 DEF LogHolds
  <2>2. sg[i] \in Commit
    OBVIOUS
  <2>3. sg[i].at \in Nat
    BY <2>2 DEF Commit
  <2> QED
    BY <1>1, <2>1, <2>3, DecidedStable
<1>3. ASSUME NEW d \in 1..Len(sg) PROVE \E k \in 1..d : MadeAt(m2, sg, k, d)
  <2>1. PICK k \in 1..d : MadeAt(m, sg, k, d)
    BY DEF LogHolds
  <2>2. Decided(m, sg, sg[k], k - 1) /\ k - 1 \in 0..Len(sg)
    BY <1>1 DEF LogHolds
  <2>3. sg[k].src \in 1..Len(m)
    BY <2>2 DEF Decided, Traced
  <2>4. IndexMade(m2, sg, sg[k], k - 1)
    BY <1>1, <2>1, <2>2, <2>3, IndexStable DEF MadeAt
  <2> QED
    BY <2>1, <2>4 DEF MadeAt
<1> QED
  BY <1>2, <1>3 DEF LogHolds

\* A commit in hand, as anything but its own push happens.
LEMMA InHandStable ==
    ASSUME NEW m, NEW m2, NEW sg \in Seq(Commit), NEW sg2 \in Seq(Commit), Len(m) \in Nat, Len(m2) \in Nat,
           Extends(m, m2), Extends(sg, sg2), NEW now \in Nat, NEW now2 \in Nat, now <= now2,
           NEW c \in Commit, NEW p, InHand(m, sg, now, c, p)
    PROVE  InHand(m2, sg2, now2, c, p)
<1>1. Len(sg) \in Nat /\ Len(sg2) \in Nat /\ Len(sg) <= Len(sg2) /\ p \in 0..Len(sg)
  BY DEF Extends, InHand
<1>2. Decided(m2, sg2, c, p)
  BY <1>1, DecidedStable DEF InHand
<1>3. c.at <= now2
  BY DEF InHand, Commit
<1>4. ASSUME Len(sg2) = p, NEW i \in 1..Len(sg2) PROVE sg2[i].at <= c.at + Skew
  <2>1. Len(sg) = p /\ i \in 1..Len(sg) /\ sg2[i] = sg[i]
    BY <1>1, <1>4 DEF Extends
  <2> QED
    BY <2>1 DEF InHand
<1> QED
  BY <1>1, <1>2, <1>3, <1>4 DEF InHand

\* Its own push, which is a fast-forward.
LEMMA LogAppend ==
    ASSUME NEW m, NEW sg \in Seq(Commit), Len(m) \in Nat, NEW now \in Nat, LogHolds(m, sg, now),
           NEW c \in Commit, InHand(m, sg, now, c, Len(sg))
    PROVE  LogHolds(m, Append(sg, c), now)
<1> DEFINE sg2 == Append(sg, c)
           n == Len(sg)
<1>1. /\ n \in Nat /\ sg2 \in Seq(Commit) /\ Len(sg2) = n + 1 /\ sg2[n + 1] = c
      /\ \A i \in 1..n : sg2[i] = sg[i]
  OBVIOUS
<1>2. Extends(sg, sg2) /\ Extends(m, m)
  BY <1>1 DEF Extends
<1>3. Decided(m, sg, c, n) /\ c.at <= now /\ \A i \in 1..n : sg[i].at <= c.at + Skew
  BY DEF InHand
<1> HIDE DEF sg2, n
<1>4. ASSUME NEW i \in 1..(n + 1) PROVE Decided(m, sg2, sg2[i], i - 1) /\ sg2[i].at <= now
  <2>1. CASE i \in 1..n
    <3>1. Decided(m, sg, sg[i], i - 1) /\ sg[i].at <= now /\ i - 1 \in 0..n
      BY <1>1, <2>1 DEF LogHolds, n
    <3>2. Decided(m, sg2, sg[i], i - 1)
      BY <1>1, <1>2, <3>1, DecidedStable DEF n
    <3> QED
      BY <1>1, <2>1, <3>1, <3>2
  <2>2. CASE i = n + 1
    <3>1. n \in 0..n /\ i - 1 = n
      BY <1>1, <2>2
    <3>2. Decided(m, sg2, c, n)
      BY <1>1, <1>2, <1>3, <3>1, DecidedStable DEF n
    <3> QED
      BY <1>1, <1>3, <2>2, <3>1, <3>2
  <2> QED
    BY <1>1, <2>1, <2>2
<1>5. ASSUME NEW d \in 1..n PROVE \E k \in 1..d : MadeAt(m, sg2, k, d)
  <2>1. PICK k \in 1..d : MadeAt(m, sg, k, d)
    BY DEF LogHolds, n
  <2>2. Decided(m, sg, sg[k], k - 1) /\ k - 1 \in 0..n /\ k \in 1..n
    BY <1>1 DEF LogHolds, n
  <2>3. sg[k].src \in 1..Len(m)
    BY <2>2 DEF Decided, Traced
  <2>4. IndexMade(m, sg2, sg[k], k - 1)
    BY <1>1, <1>2, <2>1, <2>2, <2>3, IndexStable DEF MadeAt, n
  <2>5. \A i \in k..d : sg2[i] = sg[i]
    BY <1>1, <2>2
  <2> QED
    BY <1>1, <2>1, <2>2, <2>4, <2>5 DEF MadeAt
<1>6. \E k \in 1..(n + 1) : MadeAt(m, sg2, k, n + 1)
  <2>1. CASE IndexMade(m, sg, c, n)
    <3>1. c.src \in 1..Len(m) /\ n \in 0..n
      BY <1>1, <1>3 DEF Decided, Traced
    <3>2. IndexMade(m, sg2, c, n)
      BY <1>1, <1>2, <2>1, <3>1, IndexStable DEF n
    <3>3. \A i \in (n + 1)..(n + 1) : i = n + 1
      BY <1>1
    <3>4. (n + 1) - 1 = n /\ n + 1 \in 1..(n + 1)
      BY <1>1
    <3>5. MadeAt(m, sg2, n + 1, n + 1)
      BY <1>1, <3>2, <3>3, <3>4 DEF MadeAt
    <3> QED
      BY <3>4, <3>5
  <2>2. CASE n > 0 /\ c.index = sg[n].index
    <3>1. n \in 1..n
      BY <1>1, <2>2
    <3>2. PICK k \in 1..n : MadeAt(m, sg2, k, n)
      BY <1>5, <3>1
    <3>3. sg2[n + 1].index = sg2[n].index
      BY <1>1, <2>2, <3>1
    <3>4. \A i \in k..(n + 1) : sg2[i].index = sg2[n + 1].index
      BY <1>1, <3>2, <3>3 DEF MadeAt
    <3>5. MadeAt(m, sg2, k, n + 1) /\ k \in 1..(n + 1)
      BY <1>1, <3>2, <3>4 DEF MadeAt
    <3> QED
      BY <3>5
  <2> QED
    BY <1>3, <2>1, <2>2 DEF Decided
<1>7. ASSUME NEW i \in 1..(n + 1), NEW j \in 1..(n + 1), i < j PROVE sg2[i].at <= sg2[j].at + Skew
  <2>1. i \in 1..n /\ sg2[i] = sg[i]
    BY <1>1, <1>7
  <2>2. CASE j = n + 1
    BY <1>1, <1>3, <2>1, <2>2
  <2>3. CASE j \in 1..n
    BY <1>1, <1>7, <2>1, <2>3 DEF LogHolds, n
  <2> QED
    BY <1>1, <2>2, <2>3
<1>8. \A d \in 1..(n + 1) : \E k \in 1..d : MadeAt(m, sg2, k, d)
  <2> SUFFICES ASSUME NEW d \in 1..(n + 1) PROVE \E k \in 1..d : MadeAt(m, sg2, k, d)
    OBVIOUS
  <2>1. d \in 1..n \/ d = n + 1
    BY <1>1
  <2> QED
    BY <1>5, <1>6, <2>1
<1>9. LogHolds(m, sg2, now)
  BY <1>1, <1>4, <1>7, <1>8 DEF LogHolds
<1> QED
  BY <1>9 DEF sg2

-----------------------------------------------------------------------------
(* The invariant of the branch and of the plans                              *)

\* A step extends both branches, and time does not go back.
LEMMA StepExtends ==
    ASSUME IInv, IInv', [Next]_vars
    PROVE  /\ Len(main) \in Nat /\ Len(main') \in Nat /\ Extends(main, main')
           /\ signed \in Seq(Commit) /\ signed' \in Seq(Commit) /\ Extends(signed, signed')
           /\ clock \in Nat /\ clock' \in Nat /\ clock <= clock'
<1>1. MainGrows /\ ClockRuns /\ SignedGrows
  BY StepShape
<1>2. /\ main \in Seq(Tree) /\ main' \in Seq(Tree) /\ signed \in Seq(Commit) /\ signed' \in Seq(Commit)
      /\ clock \in Nat /\ clock' \in Nat
  BY DEF IInv, TypeOK
<1>3. Extends(main, main')
  BY <1>1, <1>2 DEF MainGrows, Extends
<1>4. Extends(signed, signed')
  <2>1. CASE signed' = signed
    BY <1>2, <2>1 DEF Extends
  <2>2. ASSUME NEW r \in Runners, Pushed(r) PROVE Extends(signed, signed')
    <3>1. runs[r].new \in Commit
      BY <2>2, PushPlan DEF Pushed
    <3> QED
      BY <1>2, <2>2, <3>1 DEF Pushed, Extends
  <2> QED
    BY <1>1, <2>1, <2>2 DEF SignedGrows
<1> QED
  BY <1>1, <1>2, <1>3, <1>4 DEF ClockRuns

\* A plan in hand is a commit.
LEMMA PlanTypes ==
    ASSUME TypeOK, NEW q \in Runners, runs[q].phase \in {"signed", "push"}
    PROVE  runs[q].new \in Commit /\ runs[q].parent \in Nat
BY RunTypes DEF SignedRun, PushRun

\* Dating a commit changes nothing else of it.
LEMMA DatedDecided ==
    ASSUME NEW m, NEW sg, NEW c \in Commit, NEW p, Decided(m, sg, c, p), NEW at \in Nat, c.at <= at
    PROVE  Decided(m, sg, [c EXCEPT !.at = at], p)
<1> DEFINE d == [c EXCEPT !.at = at]
<1>1. /\ d.index = c.index /\ d.list = c.list /\ d.trust = c.trust /\ d.root = c.root
      /\ d.src = c.src /\ d.isrc = c.isrc /\ d.at = at
  BY DEF Commit
<1>2. c.index \in IndexDoc /\ c.at \in Nat
  BY DEF Commit
<1>3. c.index.issued \in Nat
  BY <1>2 DEF IndexDoc
<1> HIDE DEF d
<1>4. Traced(m, d)
  BY <1>1 DEF Decided, Traced
<1>5. IndexMade(m, sg, c, p) => IndexMade(m, sg, d, p)
  <2>1. c.index.issued <= c.at => d.index.issued <= d.at
    BY <1>1, <1>2, <1>3
  <2> QED
    BY <1>1, <2>1 DEF IndexMade
<1>6. ListMade(c) => ListMade(d)
  BY <1>1 DEF ListMade
<1> QED
  BY <1>1, <1>4, <1>5, <1>6 DEF Decided, d

\* A run's own steps keep what it has in hand true.
LEMMA InHandStep ==
    ASSUME IInv, IInv', HInv, [Next]_vars, NEW q \in Runners, runs'[q].phase \in {"signed", "push"}
    PROVE  InHand(main', signed', clock', runs'[q].new, runs'[q].parent)
<1>1. RunMoves(q)
  BY StepShape
<1>2. /\ Len(main) \in Nat /\ Len(main') \in Nat /\ Extends(main, main')
      /\ signed \in Seq(Commit) /\ signed' \in Seq(Commit) /\ Extends(signed, signed')
      /\ clock \in Nat /\ clock' \in Nat /\ clock <= clock'
  BY StepExtends
<1>3. LogHolds(main, signed, clock) /\ Len(signed) \in Nat /\ \A i \in 1..Len(signed) : signed[i].at \in Nat
  <2>1. \A c \in Commit : c.at \in Nat
    BY DEF Commit
  <2> QED
    BY <1>2, <2>1 DEF HInv
<1>4. \A i \in 1..Len(signed) : \A at \in Nows : at \in Nat /\ at <= clock /\ signed[i].at <= at + Skew
  BY <1>2, <1>3, TimeAssumption DEF LogHolds, Nows
<1>5. CASE runs'[q] = runs[q] \/ Retried(q)
  <2>1. /\ runs[q].phase \in {"signed", "push"}
        /\ runs'[q].new = runs[q].new /\ runs'[q].parent = runs[q].parent
    BY <1>5 DEF Retried
  <2>2. runs[q].new \in Commit /\ InHand(main, signed, clock, runs[q].new, runs[q].parent)
    BY <2>1, PlanTypes DEF HInv, IInv
  <2>3. InHand(main', signed', clock', runs[q].new, runs[q].parent)
    BY <1>2, <2>2, InHandStable
  <2> QED
    BY <2>1, <2>3
<1>6. CASE Planned(q)
  <2>1. PICK p \in {0, Len(signed)}, now \in Nows, held \in HeldSets :
          /\ held # {} /\ commits(p, runs[q].src, runs[q].event, now, held)
          /\ runs'[q].parent = p
          /\ runs'[q].new = newCommit(p, runs[q].src, runs[q].event, now, held)
    BY <1>6 DEF Planned
  <2>2. runs[q] \in ReadyRun /\ runs[q].src \in 1..Len(main)
    BY <1>6, RunTypes DEF Planned, IInv, SourcesExist
  <2>3. runs[q].event \in Events /\ now \in Nat /\ now <= clock /\ p \in 0..Len(signed)
    BY <1>2, <1>3, <2>2 DEF ReadyRun, Nows
  <2>4. Decided(main, signed, newCommit(p, runs[q].src, runs[q].event, now, held), p)
    BY <1>3, <2>1, <2>2, <2>3, CommitDecided DEF IInv
  <2>5. newCommit(p, runs[q].src, runs[q].event, now, held).at = now
    BY DEF newCommit
  <2>6. main' = main /\ signed' = signed /\ clock' = clock
    BY <1>6 DEF Planned, SharedStays
  <2> QED
    BY <1>4, <2>1, <2>3, <2>4, <2>5, <2>6 DEF InHand
<1>7. CASE Dated(q)
  <2>1. PICK at \in Nows : at >= runs[q].new.at /\ runs'[q].new = [runs[q].new EXCEPT !.at = at]
    BY <1>7 DEF Dated
  <2>2. runs[q].phase = "signed" /\ runs'[q].parent = runs[q].parent
    BY <1>7 DEF Dated
  <2>3. runs[q].new \in Commit /\ InHand(main, signed, clock, runs[q].new, runs[q].parent)
    BY <2>2, PlanTypes DEF HInv, IInv
  <2>4. runs[q].new.at \in Nat /\ at \in Nat /\ at <= clock /\ runs'[q].new.at = at /\ runs[q].new.at <= at
    BY <1>2, <2>1, <2>3 DEF Commit, Nows
  <2>5. Decided(main, signed, runs'[q].new, runs[q].parent)
    <3>1. Decided(main, signed, runs[q].new, runs[q].parent)
      BY <2>3 DEF InHand
    <3>2. Decided(main, signed, [runs[q].new EXCEPT !.at = at], runs[q].parent)
      BY <2>3, <2>4, <3>1, DatedDecided
    <3> QED
      BY <2>1, <3>2
  <2>6. main' = main /\ signed' = signed /\ clock' = clock
    BY <1>7 DEF Dated, SharedStays
  <2>7. runs[q].parent \in 0..Len(signed)
    BY <2>3 DEF InHand
  <2> QED
    BY <1>4, <2>1, <2>2, <2>4, <2>5, <2>6, <2>7 DEF InHand
<1> QED
  BY <1>1, <1>5, <1>6, <1>7 DEF RunMoves, Begun, Ended

\* The invariant is kept by every step.
LEMMA HistoryStep ==
    ASSUME IInv, IInv', HInv, [Next]_vars
    PROVE  HInv'
<1>1. /\ Len(main) \in Nat /\ Len(main') \in Nat /\ Extends(main, main')
      /\ signed \in Seq(Commit) /\ signed' \in Seq(Commit)
      /\ clock \in Nat /\ clock' \in Nat /\ clock <= clock'
  BY StepExtends
<1>2. LogHolds(main', signed, clock')
  BY <1>1, LogStable DEF HInv
<1>3. LogHolds(main', signed', clock')
  <2>1. CASE signed' = signed
    BY <1>2, <2>1
  <2>2. ASSUME NEW r \in Runners, Pushed(r) PROVE LogHolds(main', signed', clock')
    <3> DEFINE c == runs[r].new
    <3>1. c \in Commit /\ runs[r].phase = "push" /\ runs[r].parent = Len(signed) /\ signed' = Append(signed, c)
      BY <2>2, PlanTypes DEF Pushed, FastForward, IInv
    <3>2. InHand(main, signed, clock, c, Len(signed))
      BY <3>1 DEF HInv
    <3>3. Extends(signed, signed)
      BY <1>1 DEF Extends
    <3> HIDE DEF c
    <3>4. InHand(main', signed, clock', c, Len(signed))
      BY <1>1, <3>1, <3>2, <3>3, InHandStable
    <3> QED
      BY <1>1, <1>2, <3>1, <3>4, LogAppend
  <2> QED
    BY <2>1, <2>2, StepShape DEF SignedGrows
<1>4. \A q \in Runners : runs'[q].phase \in {"signed", "push"} =>
          InHand(main', signed', clock', runs'[q].new, runs'[q].parent)
  BY InHandStep
<1> QED
  BY <1>3, <1>4 DEF HInv

\* Every commit of `signed`, and every plan in a run's hands, is what main and
\* the commits before it make of it.
THEOREM History == Spec => []HInv
<1>1. Init => HInv
  BY DEF Init, HInv, LogHolds, Idle
<1>2. IInv /\ IInv' /\ HInv /\ [Next]_vars => HInv'
  BY HistoryStep
<1> QED
  BY <1>1, <1>2, Invariance, PTL DEF Spec

\* D4's trailers are true of every commit, whatever it carries and from
\* however far back, and whichever run made it.
THEOREM TrailersTrue == Spec => []TrailersAreTrue
<1>1. IInv /\ HInv => TrailersAreTrue
  <2> SUFFICES ASSUME IInv, HInv, NEW i \in 1..Len(signed)
               PROVE  /\ signed[i].isrc <= signed[i].src /\ signed[i].src <= Len(main)
                      /\ signed[i].index.content = catalogueContent(main[signed[i].isrc])
                      /\ main[signed[i].isrc].catalogue = "ok"
                      /\ \E s \in DOMAIN main : main[s].list = "ok" /\ signed[i].list.content = listContent(main[s])
    BY DEF IInv, TypeOK, TrailersAreTrue, Commits
  <2>1. Traced(main, signed[i])
    BY DEF HInv, LogHolds, Decided
  <2>2. DOMAIN main = 1..Len(main) /\ Len(main) \in Nat
    BY DEF IInv, TypeOK
  <2> QED
    BY <2>1, <2>2 DEF Traced
<1> QED
  BY <1>1, Invariance, History, PTL

-----------------------------------------------------------------------------
(* The list through a rotation                                               *)

\* A step adds at most one commit, made of what was in a run's hands.
LEMMA SignedAppends ==
    ASSUME IInv, IInv', [Next]_vars, signed' # signed
    PROVE  /\ Len(signed) \in Nat /\ Len(signed') = Len(signed) + 1
           /\ \A i \in 1..Len(signed) : signed'[i] = signed[i]
<1>1. PICK r \in Runners : Pushed(r)
  BY StepShape DEF SignedGrows
<1>2. runs[r].new \in Commit /\ signed \in Seq(Commit)
  BY <1>1, PushPlan DEF Pushed, IInv, TypeOK
<1> QED
  BY <1>1, <1>2 DEF Pushed

\* The environment holds every index key, or the job ends before it signs.
AllKeysHeld == \A held \in HeldSets : held = {} \/ held = Keys

LEMMA RotationStep ==
    ASSUME AllKeysHeld, IInv, IInv', HInv', RotationKeepsList, [Next]_vars
    PROVE  RotationKeepsList'
<1> DEFINE n == Len(signed)
           Overlap(c, d) == \A i \in c..d : signed'[c].trust.keys \subseteq signed'[i].trust.keys
<1>1. CASE signed' = signed
  BY <1>1 DEF RotationKeepsList, Commits
<1>2. CASE signed' # signed
  <2>1. n \in Nat /\ Len(signed') = n + 1 /\ \A i \in 1..n : signed'[i] = signed[i]
    BY <1>2, SignedAppends
  <2>2. DOMAIN signed = 1..n /\ DOMAIN signed' = 1..(n + 1)
    BY <2>1 DEF IInv, TypeOK
  <2>3. ASSUME NEW c \in 1..(n + 1)
        PROVE  /\ Verifies(signed'[c].index, signed'[c].trust) /\ Verifies(signed'[c].list, signed'[c].trust)
               /\ signed'[c].trust.keys \subseteq Keys
    <3>1. Served!Sound(signed'[c]) /\ signed'[c] \in Commit
      BY <2>1 DEF IInv, TypeOK
    <3>2. signed'[c].trust \in Trust
      BY <3>1 DEF Commit
    <3> QED
      BY <3>1, <3>2 DEF Served!Sound, Served!Verifies, Verifies, Trust
  <2>4. ASSUME NEW c \in 1..n, NEW d \in 1..n, c < d, Overlap(c, d)
        PROVE  Verifies(signed'[d].list, signed'[c].trust)
    <3>1. \A i \in c..d : i \in 1..n
      BY <2>1
    <3>2. \A i \in c..d : signed[c].trust.keys \subseteq signed[i].trust.keys
      BY <2>1, <2>4, <3>1
    <3>3. Verifies(signed[d].list, signed[c].trust)
      BY <2>2, <2>4, <3>2 DEF RotationKeepsList, Commits
    <3> QED
      BY <2>1, <3>3
  <2>5. ASSUME NEW c \in 1..n, Overlap(c, n + 1)
        PROVE  Verifies(signed'[n + 1].list, signed'[c].trust)
    <3>1. Decided(main', signed', signed'[n + 1], (n + 1) - 1)
      BY <2>1 DEF HInv, LogHolds
    <3>2. CASE ListMade(signed'[n + 1])
      <4>1. signed'[n + 1].list.sigs = Keys \cap signed'[n + 1].trust.keys
        BY <3>2 DEF ListMade, AllKeysHeld
      <4>2. signed'[c].trust.keys \subseteq signed'[n + 1].trust.keys
        BY <2>1, <2>5
      <4>3. signed'[c].trust.keys # {} /\ signed'[c].trust.keys \subseteq Keys
        BY <2>1, <2>3 DEF Verifies
      <4> QED
        BY <4>1, <4>2, <4>3 DEF Verifies
    <3>3. CASE signed'[n + 1].list = signed'[n].list
      <4>1. CASE c = n
        BY <2>1, <2>3, <3>3, <4>1
      <4>2. CASE c < n
        <5>1. \A i \in c..n : i \in c..(n + 1)
          BY <2>1
        <5>2. Overlap(c, n)
          BY <2>5, <5>1
        <5>3. n \in 1..n
          BY <2>1
        <5> QED
          BY <2>4, <3>3, <4>2, <5>2, <5>3
      <4> QED
        BY <2>1, <4>1, <4>2
    <3>4. (n + 1) - 1 = n
      BY <2>1
    <3> QED
      BY <3>1, <3>2, <3>3, <3>4 DEF Decided
  <2> HIDE DEF n
  <2>6. ASSUME NEW c \in 1..(n + 1), NEW d \in 1..(n + 1), c < d, Overlap(c, d)
        PROVE  Verifies(signed'[d].list, signed'[c].trust)
    <3>1. c \in 1..n /\ (d \in 1..n \/ d = n + 1)
      BY <2>1, <2>6
    <3> QED
      BY <2>4, <2>5, <2>6, <3>1
  <2> QED
    BY <2>2, <2>6 DEF RotationKeepsList, Commits
<1> QED
  BY <1>1, <1>2

\* SERVE-30's overlap: in an environment that holds every key, a client with an
\* earlier trust.json verifies every later list while no key of its is dropped.
THEOREM ListSurvivesRotation ==
    ASSUME AllKeysHeld
    PROVE  Spec => []RotationKeepsList
<1>1. Init => RotationKeepsList
  BY DEF Init, RotationKeepsList, Commits
<1>2. IInv /\ IInv' /\ HInv' /\ RotationKeepsList /\ [Next]_vars => RotationKeepsList'
  BY RotationStep
<1> QED
  BY <1>1, <1>2, Invariance, History, PTL DEF Spec

-----------------------------------------------------------------------------
(* The workflow alone: one run at a time                                     *)

\* sign.yml's concurrency group, and nobody signing from a shell.
OneAtATime == Shell = {} /\ \A q, r \in Runners : q = r

CopiesInOrder(m) ==
    \A i, j \in 1..Len(m) : i < j => m[i].trust.ver <= m[j].trust.ver /\ m[i].root <= m[j].root

SourcesInOrder(sg) == \A i, j \in 1..Len(sg) : i < j => sg[i].src <= sg[j].src

\* Nothing on the branch is from a commit after s.
NothingAfter(sg, s) == \A i \in 1..Len(sg) : sg[i].src <= s

WInv ==
    /\ main[1].trust.keys = GenesisKeys
    /\ CopiesInOrder(main)
    /\ SourcesInOrder(signed)
    /\ \A r \in Runners : /\ runs[r].phase = "ready" => NothingAfter(signed, runs[r].src)
                          /\ runs[r].phase \in {"signed", "push"} => NothingAfter(signed, runs[r].new.src)

\* main's copies only go forward.
LEMMA CopiesStep ==
    ASSUME IInv, WInv, MainGrows
    PROVE  CopiesInOrder(main') /\ main'[1].trust.keys = GenesisKeys
<1>1. CASE main' = main
  BY <1>1 DEF WInv
<1>2. ASSUME NEW t \in Tree, main' = Append(main, t), CopiesKept(t)
      PROVE  CopiesInOrder(main') /\ main'[1].trust.keys = GenesisKeys
  <2> DEFINE n == Len(main)
  <2>1. main \in Seq(Tree) /\ n \in Nat /\ n > 0 /\ Tip = main[n]
    BY DEF IInv, TypeOK, Tip
  <2>2. /\ Len(main') = n + 1 /\ main'[n + 1] = t
        /\ \A i \in 1..n : main'[i] = main[i]
    BY <1>2, <2>1
  <2>3. \A u \in Tree : u.trust.ver \in Nat /\ u.root \in Nat
    BY DEF Tree, Trust
  <2>4. \A i \in 1..n : main[i].trust.ver \in Nat /\ main[i].root \in Nat
    BY <2>1, <2>3
  <2>5. main[n].trust.ver <= t.trust.ver /\ main[n].root <= t.root /\ t.trust.ver \in Nat /\ t.root \in Nat
    BY <1>2, <2>1, <2>3 DEF CopiesKept
  <2> HIDE DEF n
  <2>6. ASSUME NEW i \in 1..(n + 1), NEW j \in 1..(n + 1), i < j
        PROVE  main'[i].trust.ver <= main'[j].trust.ver /\ main'[i].root <= main'[j].root
    <3>1. i \in 1..n /\ n \in 1..n /\ main'[i] = main[i] /\ (j \in 1..n \/ j = n + 1)
      BY <2>1, <2>2, <2>6
    <3>2. main[i].trust.ver <= main[n].trust.ver /\ main[i].root <= main[n].root
      <4>1. CASE i = n
        BY <2>4, <3>1, <4>1
      <4>2. CASE i < n
        BY <3>1, <4>2 DEF WInv, CopiesInOrder, n
      <4> QED
        BY <2>1, <3>1, <4>1, <4>2
    <3>3. CASE j \in 1..n
      BY <2>2, <2>6, <3>1, <3>3 DEF WInv, CopiesInOrder, n
    <3>4. CASE j = n + 1
      BY <2>2, <2>4, <2>5, <3>1, <3>2, <3>4
    <3> QED
      BY <3>1, <3>3, <3>4
  <2>7. main'[1].trust.keys = GenesisKeys
    <3>1. 1 \in 1..n
      BY <2>1
    <3> QED
      BY <2>2, <3>1 DEF WInv
  <2> QED
    BY <2>2, <2>6, <2>7 DEF CopiesInOrder
<1> QED
  BY <1>1, <1>2 DEF MainGrows

\* No other run publishes while one is under way, and a run starts at main's head.
LEMMA WorkflowStep ==
    ASSUME OneAtATime, IInv, IInv', HInv, WInv, [Next]_vars
    PROVE  WInv'
<1>1. MainGrows /\ SignedGrows /\ \A q \in Runners : RunMoves(q)
  BY StepShape
<1>2. CopiesInOrder(main') /\ main'[1].trust.keys = GenesisKeys
  BY <1>1, CopiesStep
<1>3. /\ signed \in Seq(Commit) /\ Len(signed) \in Nat
      /\ \A i \in 1..Len(signed) : signed[i].src \in 1..Len(main) /\ signed[i].src \in Nat
  BY DEF IInv, TypeOK, HInv, LogHolds, Decided, Traced
<1>4. ASSUME NEW r \in Runners, Pushed(r)
      PROVE  /\ runs[r].phase = "push" /\ runs[r].new.src \in Nat
             /\ Len(signed') = Len(signed) + 1 /\ signed'[Len(signed) + 1] = runs[r].new
             /\ \A i \in 1..Len(signed) : signed'[i] = signed[i]
             /\ NothingAfter(signed, runs[r].new.src)
             /\ NothingAfter(signed', runs[r].new.src)
  <2>1. runs[r].phase = "push" /\ signed' = Append(signed, runs[r].new) /\ runs[r].new \in Commit
    BY <1>4, PlanTypes DEF Pushed, IInv
  <2>2. runs[r].new.src \in Nat
    BY <2>1 DEF Commit
  <2>3. NothingAfter(signed, runs[r].new.src)
    BY <2>1 DEF WInv
  <2>4. /\ Len(signed') = Len(signed) + 1 /\ signed'[Len(signed) + 1] = runs[r].new
        /\ \A i \in 1..Len(signed) : signed'[i] = signed[i]
    BY <1>3, <2>1
  <2>5. \A i \in 1..(Len(signed) + 1) : i \in 1..Len(signed) \/ i = Len(signed) + 1
    BY <1>3
  <2> QED
    BY <2>1, <2>2, <2>3, <2>4, <2>5 DEF NothingAfter
<1>5. SourcesInOrder(signed')
  <2>1. CASE signed' = signed
    BY <2>1 DEF WInv
  <2>2. ASSUME NEW r \in Runners, Pushed(r) PROVE SourcesInOrder(signed')
    <3> SUFFICES ASSUME NEW i \in 1..Len(signed'), NEW j \in 1..Len(signed'), i < j
                 PROVE  signed'[i].src <= signed'[j].src
      BY DEF SourcesInOrder
    <3>1. i \in 1..Len(signed) /\ (j \in 1..Len(signed) \/ j = Len(signed) + 1)
      BY <1>3, <1>4, <2>2
    <3> QED
      BY <1>4, <2>2, <3>1 DEF WInv, SourcesInOrder, NothingAfter
  <2> QED
    BY <1>1, <2>1, <2>2 DEF SignedGrows
<1>6. ASSUME NEW q \in Runners
      PROVE  /\ runs'[q].phase = "ready" => NothingAfter(signed', runs'[q].src)
             /\ runs'[q].phase \in {"signed", "push"} => NothingAfter(signed', runs'[q].new.src)
  <2>1. CASE runs'[q] = runs[q] \/ Retried(q)
    <3>1. /\ runs'[q].phase = runs[q].phase
          /\ runs[q].phase = "ready" => runs'[q].src = runs[q].src
          /\ runs[q].phase \in {"signed", "push"} => runs'[q].new = runs[q].new
      BY <2>1 DEF Retried
    <3>2. CASE signed' = signed
      BY <3>1, <3>2 DEF WInv
    <3>3. ASSUME NEW r \in Runners, Pushed(r)
          PROVE  runs[q].phase = "push" /\ NothingAfter(signed', runs[q].new.src)
      <4>1. r = q
        BY DEF OneAtATime
      <4> QED
        BY <1>4, <3>3, <4>1
    <3> QED
      BY <1>1, <3>1, <3>2, <3>3 DEF SignedGrows
  <2>2. CASE Begun(q)
    <3>1. runs'[q].phase = "ready" /\ runs'[q].src = Len(main) /\ signed' = signed
      BY <2>2 DEF Begun, SharedStays, OneAtATime
    <3> QED
      BY <1>3, <3>1 DEF NothingAfter
  <2>3. CASE Planned(q)
    <3>1. runs[q].phase = "ready" /\ runs'[q].phase = "signed" /\ signed' = signed
      BY <2>3 DEF Planned, SharedStays
    <3>2. runs'[q].new.src = runs[q].src
      BY <2>3 DEF Planned, newCommit
    <3> QED
      BY <3>1, <3>2 DEF WInv
  <2>4. CASE Dated(q)
    <3>1. runs[q].phase = "signed" /\ runs'[q].phase = "push" /\ signed' = signed
      BY <2>4 DEF Dated, SharedStays
    <3>2. runs[q].new \in Commit
      BY <3>1, PlanTypes DEF IInv
    <3>3. runs'[q].new.src = runs[q].new.src
      BY <2>4, <3>2 DEF Dated, Commit
    <3> QED
      BY <3>1, <3>3 DEF WInv
  <2>5. CASE Ended(q)
    BY <2>5 DEF Ended
  <2> QED
    BY <1>1, <2>1, <2>2, <2>3, <2>4, <2>5 DEF RunMoves
<1> QED
  BY <1>2, <1>5, <1>6 DEF WInv

\* In the workflow, sources on the branch and copies on main are in order.
THEOREM InOrder ==
    ASSUME OneAtATime
    PROVE  Spec => []WInv
<1>1. Init => WInv
  BY DEF Init, WInv, CopiesInOrder, SourcesInOrder, NothingAfter, Genesis, Idle
<1>2. IInv /\ IInv' /\ HInv /\ WInv /\ [Next]_vars => WInv'
  BY WorkflowStep
<1> QED
  BY <1>1, <1>2, Invariance, History, PTL DEF Spec

\* The copies of trust.json and root.json that the workflow publishes never go
\* back, through lost acknowledgements, blind fetches and carried catalogues.
THEOREM TrustOnlyAdvances ==
    ASSUME OneAtATime
    PROVE  Spec => []TrustNeverRollsBack
<1>1. IInv /\ HInv /\ WInv => TrustNeverRollsBack
  <2> SUFFICES ASSUME IInv, HInv, WInv, NEW i \in 1..Len(signed), NEW j \in 1..Len(signed), i < j
               PROVE  signed[i].trust.ver <= signed[j].trust.ver /\ signed[i].root <= signed[j].root
    BY DEF IInv, TypeOK, TrustNeverRollsBack, Commits
  <2>1. /\ signed[i].src \in 1..Len(main) /\ signed[j].src \in 1..Len(main)
        /\ signed[i].trust = main[signed[i].src].trust /\ signed[i].root = main[signed[i].src].root
        /\ signed[j].trust = main[signed[j].src].trust /\ signed[j].root = main[signed[j].src].root
    BY DEF HInv, LogHolds, Decided, Traced
  <2>2. signed[i].src <= signed[j].src
    BY DEF WInv, SourcesInOrder
  <2>3. CASE signed[i].src = signed[j].src
    <3>1. signed[i] \in Commit
      BY DEF IInv, TypeOK
    <3>2. signed[i].trust \in Trust /\ signed[i].root \in Nat
      BY <3>1 DEF Commit
    <3>3. signed[i].trust.ver \in Nat
      BY <3>2 DEF Trust
    <3> QED
      BY <2>1, <2>3, <3>2, <3>3
  <2>4. CASE signed[i].src < signed[j].src
    BY <2>1, <2>4 DEF WInv, CopiesInOrder
  <2> QED
    BY <2>1, <2>2, <2>3, <2>4
<1> QED
  BY <1>1, Invariance, History, InOrder, PTL

\* What the window promises when clocks may lag by Skew: the same, for a client
\* that refreshes within the window less twice that.
CachedTrustUpToSkew ==
    NoneDelegatedAgain =>
        \A c, d \in Commits :
            ( /\ c < d
              /\ signed[d].at - signed[c + 1].at + 2 * Skew < WINDOW
              /\ \A i \in (c + 1)..d : ~WaivedAt(i) )
            => Verifies(signed[d].index, signed[c].trust)

\* A key that some earlier tree and a later one delegate, the tree between them does.
LEMMA StillDelegated ==
    ASSUME NoneDelegatedAgain, DOMAIN main = 1..Len(main), Len(main) \in Nat,
           NEW i \in 1..Len(main), NEW j \in 1..Len(main), NEW m \in 1..Len(main), i <= j, j <= m,
           NEW k, k \in main[i].trust.keys, k \in main[m].trust.keys
    PROVE  k \in main[j].trust.keys
<1>1. CASE i < j /\ j < m
  BY <1>1 DEF NoneDelegatedAgain
<1> QED
  BY <1>1

LEMMA CachedTrust ==
    ASSUME IInv, HInv, WInv, Exempt \subseteq GenesisKeys
    PROVE  CachedTrustUpToSkew
<1>0. DOMAIN signed = 1..Len(signed) /\ DOMAIN main = 1..Len(main) /\ Len(signed) \in Nat /\ Len(main) \in Nat
  BY DEF IInv, TypeOK
<1> SUFFICES ASSUME NoneDelegatedAgain, NEW c \in 1..Len(signed), NEW d \in 1..Len(signed), c < d,
                    signed[d].at - signed[c + 1].at + 2 * Skew < WINDOW,
                    \A i \in (c + 1)..d : ~WaivedAt(i)
             PROVE  Verifies(signed[d].index, signed[c].trust)
  BY <1>0 DEF CachedTrustUpToSkew, Commits
<1>1. PICK k \in 1..d : MadeAt(main, signed, k, d)
  BY DEF HInv, LogHolds
<1>2. signed[k].index = signed[d].index /\ IndexMade(main, signed, signed[k], k - 1) /\ k \in 1..Len(signed)
  BY <1>0, <1>1 DEF MadeAt
<1>3. ASSUME NEW i \in 1..Len(signed)
      PROVE  /\ signed[i].src \in 1..Len(main) /\ signed[i].trust = main[signed[i].src].trust
             /\ signed[i].at \in Nat /\ signed[i].index.issued \in Nat
             /\ Verifies(signed[i].index, signed[i].trust)
  <2>1. Served!Sound(signed[i])
    BY DEF IInv
  <2>2. signed[i] \in Commit
    BY DEF IInv, TypeOK
  <2>3. signed[i].at \in Nat
    BY <2>2 DEF Commit
  <2>4. Traced(main, signed[i])
    BY DEF HInv, LogHolds, Decided
  <2> QED
    BY <2>1, <2>3, <2>4, SignedTypes DEF Traced, Served!Sound, Served!Verifies, Verifies, IInv
<1>4. CASE k <= c
  <2>1. signed[c].index = signed[d].index
    BY <1>0, <1>1, <1>4 DEF MadeAt
  <2> QED
    BY <1>3, <2>1
<1>5. CASE c < k
  <2>1. k > 1 /\ k - 1 \in 1..Len(signed) /\ k \in (c + 1)..d
    BY <1>0, <1>2, <1>5
  <2>2. signed[k].index # signed[k - 1].index
    BY <1>2, <1>3, <2>1 DEF IndexMade
  <2>3. ~CompromiseOn(signed, k - 1, main[signed[k].src], signed[k].index.issued)
    <3>1. ~WaivedAt(k)
      BY <2>1
    <3>2. ~Compromise(k - 1, main[signed[k].src], signed[k].index.issued)
      BY <2>2, <3>1 DEF WaivedAt
    <3> QED
      BY <3>2 DEF Compromise, CompromiseOn, Dropped, HeadKeys, delegatedKeyIds, plannedRetirements
  <2>4. PICK key \in signed[k].index.sigs : key \in signed[k].trust.keys
    BY <1>2, <1>3 DEF Verifies
  <2>5. key \in Exempt \/ PassedOn(signed, k - 1, key, signed[k].index.issued)
    BY <1>2, <2>3, <2>4 DEF IndexMade
  <2>6. signed[c].src <= signed[k].src
    BY <1>2, <1>5 DEF WInv, SourcesInOrder
  <2>7. key \in signed[c].trust.keys
    <3>1. CASE key \in Exempt
      <4>1. key \in main[1].trust.keys /\ 1 \in 1..Len(main) /\ 1 <= signed[c].src
        BY <1>0, <1>3, <3>1 DEF WInv
      <4> QED
        BY <1>0, <1>2, <1>3, <2>4, <2>6, <4>1, StillDelegated
    <3>2. CASE PassedOn(signed, k - 1, key, signed[k].index.issued)
      <4>1. PICK i \in 1..(k - 1) : key \in signed[i].trust.keys /\ signed[k].index.issued - signed[i].at >= WINDOW
        BY <3>2 DEF PassedOn
      <4>2. i \in 1..Len(signed) /\ i < k
        BY <1>0, <1>2, <4>1
      <4>3. CASE i <= c
        <5>1. signed[i].src <= signed[c].src
          <6>1. CASE i = c
            BY <1>3, <4>2, <6>1
          <6>2. CASE i < c
            BY <4>2, <6>2 DEF WInv, SourcesInOrder
          <6> QED
            BY <4>2, <4>3, <6>1, <6>2
        <5>2. /\ signed[i].src \in 1..Len(main) /\ signed[c].src \in 1..Len(main) /\ signed[k].src \in 1..Len(main)
              /\ key \in main[signed[i].src].trust.keys /\ key \in main[signed[k].src].trust.keys
              /\ signed[c].trust = main[signed[c].src].trust
          BY <1>2, <1>3, <2>4, <4>1, <4>2
        <5>3. key \in main[signed[c].src].trust.keys
          BY <1>0, <2>6, <5>1, <5>2, StillDelegated
        <5> QED
          BY <5>2, <5>3
      <4>4. CASE c < i
        <5>1. c + 1 \in 1..Len(signed) /\ c + 1 <= i
          BY <1>0, <4>2, <4>4
        <5>2. /\ signed[c + 1].at \in Nat /\ signed[i].at \in Nat /\ signed[k].at \in Nat /\ signed[d].at \in Nat
              /\ signed[k].index.issued \in Nat /\ Skew \in Nat /\ WINDOW \in Nat
          BY <1>2, <1>3, <4>2, <5>1, TimeAssumption
        <5>3. signed[c + 1].at <= signed[i].at + Skew
          <6>1. CASE c + 1 = i
            BY <5>2, <6>1
          <6>2. CASE c + 1 < i
            BY <4>2, <5>1, <6>2 DEF HInv, LogHolds
          <6> QED
            BY <4>2, <5>1, <6>1, <6>2
        <5>4. signed[k].at <= signed[d].at + Skew
          <6>1. CASE k = d
            BY <5>2, <6>1
          <6>2. CASE k < d
            BY <1>2, <6>2 DEF HInv, LogHolds
          <6> QED
            BY <1>1, <6>1, <6>2
        <5>5. signed[k].index.issued <= signed[k].at
          BY <1>2 DEF IndexMade
        <5>6. signed[k].index.issued - signed[i].at >= WINDOW
          BY <4>1
        <5>7. signed[d].at - signed[c + 1].at + 2 * Skew < WINDOW
          OBVIOUS
        <5>8. \A first, at, issued, made, last, skew, window \in Nat :
                first <= at + skew /\ issued <= made /\ made <= last + skew /\ issued - at >= window
                  => ~(last - first + 2 * skew < window)
          OBVIOUS
        <5>9. ~(signed[d].at - signed[c + 1].at + 2 * Skew < WINDOW)
          BY <5>2, <5>3, <5>4, <5>5, <5>6, <5>8
        <5> QED
          BY <5>7, <5>9
      <4> QED
        BY <4>2, <4>3, <4>4
    <3> QED
      BY <2>5, <3>1, <3>2
  <2> QED
    BY <1>2, <2>4, <2>7 DEF Verifies
<1> QED
  BY <1>1, <1>4, <1>5

\* SERVE-30's window, for runners whose clocks lag.
THEOREM WindowHolds ==
    ASSUME OneAtATime, Exempt \subseteq GenesisKeys
    PROVE  Spec => []CachedTrustUpToSkew
<1>1. IInv /\ HInv /\ WInv => CachedTrustUpToSkew
  BY CachedTrust
<1> QED
  BY <1>1, Invariance, History, InOrder, PTL

\* And as it is checked, for runners whose clocks agree: a client with a cached
\* trust.json verifies every catalogue published within the window.
THEOREM CachedTrustSuffices ==
    ASSUME OneAtATime, Exempt \subseteq GenesisKeys, Skew = 0
    PROVE  Spec => []CachedTrustVerifiesCatalogue
<1>1. IInv /\ CachedTrustUpToSkew => CachedTrustVerifiesCatalogue
  <2> SUFFICES ASSUME IInv, CachedTrustUpToSkew, NoneDelegatedAgain, NEW c \in Commits, NEW d \in Commits,
                      c < d, signed[d].at - signed[c + 1].at < WINDOW, \A i \in (c + 1)..d : ~WaivedAt(i)
               PROVE  Verifies(signed[d].index, signed[c].trust)
    BY DEF CachedTrustVerifiesCatalogue
  <2>1. signed[d] \in Commit /\ signed[c + 1] \in Commit
    BY DEF IInv, TypeOK, Commits
  <2>2. signed[d].at \in Nat /\ signed[c + 1].at \in Nat /\ WINDOW \in Nat
    BY <2>1, TimeAssumption DEF Commit
  <2>3. signed[d].at - signed[c + 1].at + 2 * Skew < WINDOW
    BY <2>2
  <2> QED
    BY <2>3 DEF CachedTrustUpToSkew
<1> QED
  BY <1>1, Invariance, WindowHolds, PTL
=============================================================================
