-------------------------- MODULE ModerationProofs --------------------------
(* Proofs about Moderation, for every set of decisions and listings, every    *)
(* bound and window, any number of tries, faults and commits of people.       *)
(*                                                                            *)
(* The argument follows a decision through history.  A run compiles against a *)
(* tree that main was, and its commit lands only where that tree is main's    *)
(* still; so what the tree's log shows, main's log shows, and a decision is   *)
(* logged once.  A hold the service heard of is listed no more, hence nothing *)
(* begins it again: once it has ended, every later tree shows the one answer. *)
(* What the service was told of a decision nothing held is what the run that  *)
(* took it up found, and that run was the last to have it.                    *)
(*                                                                            *)
(* The bound and the order of the holds are facts about one compile, proved   *)
(* position by position along the holds and along the list answer.            *)
EXTENDS Moderation, RecursionLemmas

-----------------------------------------------------------------------------
(* The inductive invariant                                                    *)

\* A tree as runs and people leave it: a decision is logged by one commit at
\* most, and a hold is of a takedown that no commit has applied.
GoodTree(t) ==
    /\ t \in Trees /\ t.confirm \cup t.cancel \subseteq OnTree(t) /\ t.confirm \cap t.cancel = {}
    /\ \A d \in Decisions : t.logs[d] = <<>> \/ \E c \in Nat : t.logs[d] = <<c>>
    /\ \A d \in OnTree(t) : t.logs[d] = <<>> /\ isTakedown(d)

\* History only grows from t to u: a log entry stays, and a hold that was there
\* is there or has ended.
Later(t, u) ==
    \A d \in Decisions : /\ t.logs[d] # <<>> => u.logs[d] = t.logs[d]
                         /\ t.ended[d] # 0 => u.ended[d] # 0
                         /\ t.holds[d] # 0 => u.holds[d] # 0 \/ u.ended[d] # 0

\* A tree that was main's.
Behind(t, m) == t.n <= m.n /\ (t.n = m.n => t = m) /\ Later(t, m)

Same(t, u, d) == u.holds[d] = t.holds[d] /\ u.ended[d] = t.ended[d] /\ u.logs[d] = t.logs[d]

\* The commit u on t: of a decision that the list answer does not name, nothing
\* begins, and a hold waits on or ends.
Grown(t, u, named) ==
    /\ GoodTree(u) /\ Later(t, u)
    /\ \A d \in Decisions \ named :
          /\ t.holds[d] = 0 => Same(t, u, d)
          /\ t.holds[d] # 0 /\ t.ended[d] = 0 => (u.holds[d] = 0 <=> u.ended[d] # 0)

\* What a tree's history answers of a decision whose hold has ended.
Answer(t, d) == IF t.logs[d] = <<>> THEN Result(d, "cancelled", t.ended[d]) ELSE Result(d, "applied", Head(t.logs[d]))
Closed(t, d) == t.holds[d] = 0 /\ t.ended[d] # 0
NoHold(t, d) == t.holds[d] = 0 /\ t.ended[d] = 0

\* What a tree bears out of a result, whoever the result is of.
BorneOut(x, u) ==
    /\ x.outcome = "applied" => u.logs[x.d] = <<x.commit>>
    /\ x.outcome \in {"cancelled", "held"} => ~NoHold(u, x.d)

\* The results of a commit, in the tree it leaves.
ResultsTrue(results, u, named) ==
    \A x \in results : /\ BorneOut(x, u)
                       /\ x.d \notin named => x.outcome # "held" /\ Closed(u, x.d) /\ x = Answer(u, x.d)

\* What a set of decisions takes off the catalogue of t; and its room in the
\* window, beside what is spent already: each lot of them has one that found the
\* window under the bound, whatever that one withdraws itself.
Takes(t, ds) == UNION {withdrawnBy(t, d) : d \in ds}
Roomy(t, spent, ds) ==
    \A lot \in SUBSET ds : lot # {} =>
        \E d \in lot : Cardinality((spent \cup Takes(t, lot)) \ Matches[d]) < BOUND

\* TRUST-26 of a commit u on t.
ByWindow(t, u) == {d \in Decisions : u.logs[d] # t.logs[d] /\ isTakedown(d) /\ d \notin t.confirm}
Windowed(t, u) ==
    ByWindow(t, u) # {} =>
        \E d \in ByWindow(t, u) : Cardinality(Recent(u) \ (Matches[d] \cup (t.unlisted \ u.unlisted))) < BOUND

\* MOD-9 of a commit u on t.
InTurn(t, u) ==
    \A d \in Decisions : u.logs[d] # t.logs[d] /\ isTakedown(d) /\ d \notin t.confirm =>
        \A e \in OnTree(t) \cap OnTree(u) : (d \notin OnTree(t) \/ Before(t, e, d)) => Refused(u, NoBatch, e)

\* What the service believes of a decision, in a main.
ViewTrue(v, m, d) ==
    /\ v.state # "final" => v.told = {}
    /\ v.state \in {"absent", "listed"} => ~v.heard
    /\ v.heard => \/ m.holds[d] # 0 /\ m.ended[d] = 0 /\ v.told = {}
                  \/ Closed(m, d) /\ v.told \subseteq {Answer(m, d)}
    /\ NoHold(m, d) => v.told = {} \/ \E x \in Results : x.d = d /\ v.told = {x} /\ BorneOut(x, m)

\* A tree that main was, and that shows what became of a hold the service heard
\* of, if the hold had ended by then.
Known(t, m, sv) ==
    /\ GoodTree(t) /\ Behind(t, m)
    /\ \A d \in Decisions : sv[d].heard /\ t.ended[d] # 0 => Same(t, m, d)

Named(w) == Range(w.entries)

Waits(d, m, sv) == ~sv[d].heard /\ (NoHold(m, d) => sv[d].told = {})
Handed(w, m, sv) ==
    /\ Known(w.base, m, sv)
    /\ \A i, j \in DOMAIN w.entries : i # j => w.entries[i] # w.entries[j]
    /\ \A d \in Named(w) : Waits(d, m, sv)

CommitTrue(w) ==
    /\ w.tree.n = w.base.n + 1 /\ Grown(w.base, w.tree, Named(w)) /\ ResultsTrue(w.results, w.tree, Named(w))
    /\ Windowed(w.base, w.tree) /\ InTurn(w.base, w.tree)

ReportTrue(x, m, sv) ==
    /\ BorneOut(x, m)
    /\ sv[x.d].heard /\ x.outcome # "held" => Closed(m, x.d) /\ x = Answer(m, x.d)
    /\ NoHold(m, x.d) => sv[x.d].told = {}

RunTrue(w, m, sv) ==
    /\ w.phase \in {"commit", "push"} => Handed(w, m, sv)
    /\ w.phase = "push" => CommitTrue(w)
    /\ w.phase = "report" => \A x \in w.results : ReportTrue(x, m, sv)
    /\ w.phase \in {"push", "report"} => IsFiniteSet(w.results)

RunOK(w) == w = Idle \/ w \in Commits \/ w \in Pushes \/ w \in Reports

Sound(m, waiting, w, sv) ==
    /\ GoodTree(m)
    /\ waiting = {} \/ (\E t \in Trees : waiting = {t} /\ Known(t, m, sv))
    /\ RunOK(w) /\ RunTrue(w, m, sv)
    /\ sv \in [Decisions -> Views] /\ \A d \in Decisions : ViewTrue(sv[d], m, d)

IInv == TypeOK /\ Sound(main, pending, run, svc)

-----------------------------------------------------------------------------
(* One decision against a tree                                                *)

Batches == [unlisted : SUBSET Plugins, relisted : SUBSET Plugins]

LEMMA Constants ==
    /\ Decisions \subseteq Nat /\ IsFiniteSet(Decisions) /\ IsFiniteSet(Plugins)
    /\ \A d \in Decisions : Kind[d] \in {"delist", "revoke", "relist"} /\ Plugin[d] \in Plugins
    /\ BOUND \in Nat /\ WINDOW \in Nat \ {0} /\ ATTEMPTS \in Nat /\ MaxFaults \in Nat /\ MaxEdits \in Nat
BY ModerationAssumption

LEMMA Siblings ==
    \A d \in Decisions : /\ Matches[d] \subseteq Plugins /\ Plugin[d] \in Matches[d]
                         /\ Kind[d] # "revoke" => Matches[d] = {Plugin[d]}
BY ModerationAssumption

\* What applying a decision changes.
EffectIs(t, d, n, u) ==
    /\ u \in Trees /\ u.n = t.n /\ u.holds = t.holds /\ u.confirm = t.confirm /\ u.cancel = t.cancel
    /\ u.ended = t.ended /\ u.left = t.left /\ u.settled = t.settled
    /\ u.logs = [t.logs EXCEPT ![d] = Append(t.logs[d], n)]
    /\ u.unlisted = IF Kind[d] = "delist" THEN t.unlisted \cup {Plugin[d]}
                    ELSE IF Kind[d] = "relist" THEN t.unlisted \ {Plugin[d]} ELSE t.unlisted
    /\ u.advisories = IF Kind[d] = "revoke" THEN t.advisories \cup {d} ELSE t.advisories

LEMMA EffectTree ==
    ASSUME NEW t \in Trees, NEW d \in Decisions, NEW n \in Nat
    PROVE  EffectIs(t, d, n, Effect(t, d, n))
<1> DEFINE v == [t EXCEPT !.logs[d] = Append(@, n)]
<1>1. Append(t.logs[d], n) \in Seq(Nat)
  BY DEF Trees
<1>2. /\ v \in Trees /\ v.n = t.n /\ v.holds = t.holds /\ v.confirm = t.confirm /\ v.cancel = t.cancel
      /\ v.ended = t.ended /\ v.left = t.left /\ v.settled = t.settled /\ v.unlisted = t.unlisted
      /\ v.advisories = t.advisories /\ v.logs = [t.logs EXCEPT ![d] = Append(t.logs[d], n)]
  <2>1. [t.logs EXCEPT ![d] = Append(t.logs[d], n)] \in [Decisions -> Seq(Nat)]
    BY <1>1 DEF Trees
  <2> QED
    BY <2>1 DEF Trees
<1> HIDE DEF v
<1>3. Effect(t, d, n) = CASE Kind[d] = "delist" -> [v EXCEPT !.unlisted = @ \cup {Plugin[d]}]
                          [] Kind[d] = "relist" -> [v EXCEPT !.unlisted = @ \ {Plugin[d]}]
                          [] Kind[d] = "revoke" -> [v EXCEPT !.advisories = @ \cup {d}]
  BY DEF Effect, v
<1>4. CASE Kind[d] = "delist"
  <2>1. Effect(t, d, n) = [v EXCEPT !.unlisted = t.unlisted \cup {Plugin[d]}]
    BY <1>2, <1>3, <1>4
  <2>2. t.unlisted \cup {Plugin[d]} \in SUBSET Plugins
    BY Constants DEF Trees
  <2> QED
    BY <1>2, <1>4, <2>1, <2>2 DEF Trees, EffectIs
<1>5. CASE Kind[d] = "relist"
  <2>1. Effect(t, d, n) = [v EXCEPT !.unlisted = @ \ {Plugin[d]}]
    BY <1>3, <1>5
  <2> QED
    BY <1>2, <1>5, <2>1, Constants DEF Trees, EffectIs
<1>6. CASE Kind[d] = "revoke"
  <2>1. Effect(t, d, n) = [v EXCEPT !.advisories = t.advisories \cup {d}]
    BY <1>2, <1>3, <1>6
  <2>2. t.advisories \cup {d} \in SUBSET Decisions
    BY DEF Trees
  <2> QED
    BY <1>2, <1>6, <2>1, <2>2 DEF Trees, EffectIs
<1> QED
  BY <1>4, <1>5, <1>6, Constants

\* What the deletion of hold entries changes.
DeletedIs(t, ds, n, u) ==
    /\ u \in Trees /\ u.n = t.n /\ u.left = t.left /\ u.settled = t.settled
    /\ u.logs = t.logs /\ u.unlisted = t.unlisted /\ u.advisories = t.advisories
    /\ u.confirm = t.confirm \ ds /\ u.cancel = t.cancel \ ds
    /\ \A d \in Decisions : /\ u.holds[d] = IF d \in ds THEN 0 ELSE t.holds[d]
                            /\ u.ended[d] = IF d \in ds THEN n ELSE t.ended[d]

LEMMA DeletedTree ==
    ASSUME NEW t \in Trees, NEW ds, NEW n \in Nat
    PROVE  DeletedIs(t, ds, n, Deleted(t, ds, n))
<1> DEFINE hs == [d \in Decisions |-> IF d \in ds THEN 0 ELSE t.holds[d]]
           es == [d \in Decisions |-> IF d \in ds THEN n ELSE t.ended[d]]
<1>1. hs \in [Decisions -> Nat] /\ es \in [Decisions -> Nat]
  BY DEF Trees
<1>2. \A d \in Decisions : /\ hs[d] = IF d \in ds THEN 0 ELSE t.holds[d]
                           /\ es[d] = IF d \in ds THEN n ELSE t.ended[d]
  OBVIOUS
<1>3. Deleted(t, ds, n) = [t EXCEPT !.holds = hs, !.ended = es, !.confirm = @ \ ds, !.cancel = @ \ ds]
  BY DEF Deleted
<1> HIDE DEF hs, es
<1> QED
  BY <1>1, <1>2, <1>3 DEF Trees, DeletedIs

\* What a release changes.
ReleaseIs(t, d, n, u) ==
    /\ u \in Trees /\ u.n = t.n /\ u.left = t.left /\ u.settled = t.settled
    /\ u.logs = [t.logs EXCEPT ![d] = Append(t.logs[d], n)]
    /\ u.unlisted = IF Kind[d] = "delist" THEN t.unlisted \cup {Plugin[d]} ELSE t.unlisted
    /\ u.confirm = t.confirm \ {d} /\ u.cancel = t.cancel \ {d}
    /\ \A e \in Decisions : /\ u.holds[e] = IF e = d THEN 0 ELSE t.holds[e]
                            /\ u.ended[e] = IF e = d THEN n ELSE t.ended[e]

LEMMA ReleaseTree ==
    ASSUME NEW t \in Trees, NEW d \in Decisions, NEW n \in Nat, isTakedown(d)
    PROVE  ReleaseIs(t, d, n, Release(t, d, n))
<1> DEFINE v == Effect(t, d, n)
<1>0. EffectIs(t, d, n, v)
  BY EffectTree
<1> HIDE DEF v
<1>1. v.unlisted = IF Kind[d] = "delist" THEN t.unlisted \cup {Plugin[d]} ELSE t.unlisted
  BY <1>0 DEF isTakedown, EffectIs
<1>2. Release(t, d, n) = Deleted(v, {d}, n)
  BY DEF Release, v
<1>3. DeletedIs(v, {d}, n, Release(t, d, n))
  <2>1. v \in Trees
    BY <1>0 DEF EffectIs
  <2> QED
    BY <1>2, <2>1, DeletedTree
<1> QED
  BY <1>0, <1>1, <1>3 DEF EffectIs, DeletedIs, ReleaseIs

LEMMA BatchStep ==
    ASSUME NEW batch \in Batches, NEW d \in Decisions
    PROVE  /\ InBatch(batch, d) \in Batches
           /\ InBatch(batch, d).unlisted = IF Kind[d] = "delist" THEN batch.unlisted \cup {Plugin[d]} ELSE batch.unlisted
<1>1. CASE Kind[d] = "delist"
  BY <1>1, Constants DEF InBatch, Batches
<1>2. CASE Kind[d] = "relist"
  BY <1>2, Constants DEF InBatch, Batches
<1>3. CASE Kind[d] = "revoke"
  BY <1>3, Constants DEF InBatch, Batches
<1> QED
  BY <1>1, <1>2, <1>3, Constants

LEMMA Withdrawals ==
    ASSUME NEW t, NEW d \in Decisions
    PROVE  /\ withdrawnBy(t, d) \subseteq Matches[d] /\ withdrawnBy(t, d) \subseteq Plugins
           /\ Spent(t, d) = withdrawnBy(t, d)
           /\ ~isTakedown(d) => withdrawnBy(t, d) = {}
<1>1. withdrawnBy(t, d) \subseteq Matches[d] /\ Matches[d] \subseteq Plugins /\ (~isTakedown(d) => withdrawnBy(t, d) = {})
  BY Siblings DEF withdrawnBy
<1>2. ASSUME Refused(t, NoBatch, d) PROVE withdrawnBy(t, d) = {}
  <2>1. CASE Kind[d] = "delist"
    <3>1. Matches[d] = {Plugin[d]} /\ Plugin[d] \in t.unlisted
      BY <1>2, <2>1, Siblings DEF Refused, NoBatch
    <3> QED
      BY <3>1 DEF withdrawnBy
  <2>2. CASE Kind[d] # "delist"
    BY <1>1, <1>2, <2>2 DEF Refused, isTakedown
  <2> QED
    BY <2>1, <2>2
<1> QED
  BY <1>1, <1>2 DEF Spent

LEMMA TakesPlugins ==
    ASSUME NEW t, NEW ds \in SUBSET Decisions
    PROVE  /\ Takes(t, ds) \subseteq Plugins
           /\ \A d \in Decisions : Takes(t, ds \cup {d}) = Takes(t, ds) \cup withdrawnBy(t, d)
           /\ \A es \in SUBSET ds : Takes(t, es) \subseteq Takes(t, ds)
BY Withdrawals DEF Takes

LEMMA Fewer ==
    ASSUME NEW S \in SUBSET Plugins, NEW T, T \subseteq S
    PROVE  Cardinality(S) < BOUND => Cardinality(T) < BOUND
<1>1. IsFiniteSet(S)
  BY FS_Subset, Constants
<1>2. Cardinality(T) \in Nat /\ Cardinality(S) \in Nat /\ Cardinality(T) <= Cardinality(S)
  BY <1>1, FS_Subset, FS_CardinalityType
<1> QED
  BY <1>2, Constants

\* A decision that finds the ledger under the bound leaves every lot with one
\* that did: itself, if it is of the lot.
LEMMA OneMore ==
    ASSUME NEW t, NEW spent \in SUBSET Plugins, NEW ds \in SUBSET Decisions, Roomy(t, spent, ds),
           NEW d \in Decisions, ~Over(spent \cup Takes(t, ds))
    PROVE  Roomy(t, spent, ds \cup {d})
<1> SUFFICES ASSUME NEW lot \in SUBSET (ds \cup {d}), lot # {}
             PROVE  \E e \in lot : Cardinality((spent \cup Takes(t, lot)) \ Matches[e]) < BOUND
  BY DEF Roomy
<1>1. CASE d \in lot
  <2> DEFINE S == spent \cup Takes(t, ds)
             T == (spent \cup Takes(t, lot)) \ Matches[d]
  <2>1. S \in SUBSET Plugins
    BY TakesPlugins
  <2>2. T \subseteq S
    <3>1. Takes(t, lot) \subseteq Takes(t, ds) \cup withdrawnBy(t, d)
      BY DEF Takes
    <3>2. withdrawnBy(t, d) \subseteq Matches[d]
      BY Withdrawals
    <3> QED
      BY <3>1, <3>2
  <2>3. Cardinality(S) < BOUND
    <3>1. IsFiniteSet(S)
      BY <2>1, FS_Subset, Constants
    <3>2. Cardinality(S) \in Nat
      BY <3>1, FS_CardinalityType
    <3> QED
      BY <3>2, Constants DEF Over
  <2> HIDE DEF S, T
  <2>4. Cardinality(T) < BOUND
    BY <2>1, <2>2, <2>3, Fewer
  <2> QED
    BY <1>1, <2>4 DEF T
<1>2. CASE d \notin lot
  <2>1. lot \in SUBSET ds
    BY <1>2
  <2> QED
    BY <2>1 DEF Roomy
<1> QED
  BY <1>1, <1>2

-----------------------------------------------------------------------------
(* The holds, oldest first                                                    *)

Sorted(t, order) ==
    /\ Len(order) \in Nat /\ order \in [1..Len(order) -> OnTree(t)]
    /\ \A d \in OnTree(t) : \E i \in 1..Len(order) : order[i] = d
    /\ \A i, j \in 1..Len(order) : i < j => Before(t, order[i], order[j])

LEMMA HoldsInOrder ==
    ASSUME NEW t \in Trees, NEW order \in readHolds(t)
    PROVE  Sorted(t, order)
<1>1. order \in SetToSeqs(OnTree(t)) /\ \A i, j \in DOMAIN order : i < j => Before(t, order[i], order[j])
  BY DEF readHolds
<1>2. IsFiniteSet(OnTree(t))
  BY FS_Subset, Constants DEF OnTree
<1>3. /\ Cardinality(OnTree(t)) \in Nat /\ order \in [1..Cardinality(OnTree(t)) -> OnTree(t)]
      /\ Len(order) = Cardinality(OnTree(t))
      /\ \A d \in OnTree(t) : \E i \in 1..Len(order) : order[i] = d
  BY <1>1, <1>2, EveryOrder
<1>4. DOMAIN order = 1..Len(order)
  BY <1>3
<1> QED
  BY <1>1, <1>3, <1>4 DEF Sorted

Ledgers == [spent : SUBSET Plugins, admitted : SUBSET Decisions]

\* What a run's ledger begins with.
Already(t) == Recent(t) \cup Takes(t, Confirmed(t))

\* What the first i holds were admitted with: the ledger has what they take
\* beside what it began with, each found room, and one that found none leaves none
\* to those behind it.
AdmittedBy(t, order, acc, i) ==
    /\ acc \in Ledgers /\ acc.spent = Already(t) \cup Takes(t, acc.admitted)
    /\ \A d \in acc.admitted : d \in Waiting(t) \ Confirmed(t) /\ \E j \in 1..i : order[j] = d
    /\ Roomy(t, Already(t), acc.admitted)
    /\ \A j \in 1..i : order[j] \in (Waiting(t) \ Confirmed(t)) \ acc.admitted =>
          Over(acc.spent) /\ \A d \in acc.admitted : Before(t, d, order[j])

LEMMA AdmitStep ==
    ASSUME NEW t \in Trees, NEW order, Sorted(t, order), NEW i \in 1..Len(order), NEW acc,
           AdmittedBy(t, order, acc, i - 1)
    PROVE  AdmittedBy(t, order, Admit(t, acc, order[i]), i)
<1> DEFINE d == order[i]
           next == Admit(t, acc, d)
<1>1. d \in Decisions /\ d \in OnTree(t) /\ Len(order) \in Nat
  BY DEF Sorted, OnTree
<1>2. \A j \in 1..i : j \in 1..(i - 1) \/ j = i
  BY <1>1
<1>3. \A j \in 1..(i - 1) : j \in 1..i /\ j \in 1..Len(order) /\ j < i
  BY <1>1
<1>4. acc \in Ledgers
  BY DEF AdmittedBy
<1>5. CASE d \notin Waiting(t) \ Confirmed(t)
  <2>1. next = acc
    BY <1>5 DEF Admit
  <2> QED
    BY <1>2, <1>3, <1>5, <2>1 DEF AdmittedBy
<1>6. CASE d \in Waiting(t) \ Confirmed(t) /\ Over(acc.spent)
  <2>1. next = acc
    BY <1>6 DEF Admit
  <2>2. \A e \in acc.admitted : Before(t, e, d)
    BY <1>3 DEF AdmittedBy, Sorted
  <2> QED
    BY <1>2, <1>3, <1>6, <2>1, <2>2 DEF AdmittedBy
<1>7. CASE d \in Waiting(t) \ Confirmed(t) /\ ~Over(acc.spent)
  <2> DEFINE more == withdrawnBy(t, d)
  <2>1. next = [spent |-> acc.spent \cup more, admitted |-> acc.admitted \cup {d}]
    BY <1>1, <1>7, Withdrawals DEF Admit
  <2>2. more \subseteq Plugins
    BY <1>1, Withdrawals
  <2>3. acc.spent \cup more \in SUBSET Plugins /\ acc.admitted \in SUBSET Decisions
    BY <1>4, <2>2 DEF Ledgers
  <2>4. next.spent = acc.spent \cup more /\ next.admitted = acc.admitted \cup {d} /\ next \in Ledgers
    BY <1>1, <1>4, <2>1, <2>3 DEF Ledgers
  <2> HIDE DEF next, more
  <2>5. \A j \in 1..(i - 1) : order[j] \notin (Waiting(t) \ Confirmed(t)) \ acc.admitted
    BY <1>7 DEF AdmittedBy
  <2>6. \A e \in next.admitted : e \in Waiting(t) \ Confirmed(t) /\ \E j \in 1..i : order[j] = e
    <3>1. i \in 1..i
      BY <1>1
    <3> QED
      BY <1>3, <1>7, <2>4, <3>1 DEF AdmittedBy
  <2>7. next.spent = Already(t) \cup Takes(t, next.admitted) /\ Roomy(t, Already(t), next.admitted)
    <3>1. acc.spent = Already(t) \cup Takes(t, acc.admitted) /\ Roomy(t, Already(t), acc.admitted)
      BY DEF AdmittedBy
    <3>2. Takes(t, next.admitted) = Takes(t, acc.admitted) \cup more
      BY <1>1, <2>3, <2>4, TakesPlugins DEF more
    <3>3. Already(t) \in SUBSET Plugins
      BY <1>4, <3>1 DEF Ledgers
    <3>4. ~Over(Already(t) \cup Takes(t, acc.admitted))
      BY <1>7, <3>1
    <3>5. Roomy(t, Already(t), acc.admitted \cup {d})
      BY <1>1, <2>3, <3>1, <3>3, <3>4, OneMore
    <3> QED
      BY <2>4, <3>1, <3>2, <3>5
  <2>8. \A j \in 1..i : order[j] \notin (Waiting(t) \ Confirmed(t)) \ next.admitted
    BY <1>2, <2>4, <2>5
  <2> QED
    BY <2>3, <2>4, <2>6, <2>7, <2>8 DEF AdmittedBy, next
<1> QED
  BY <1>5, <1>6, <1>7

LEMMA WindowAdmits ==
    ASSUME NEW t \in Trees, NEW order, Sorted(t, order)
    PROVE  AdmittedBy(t, order, admitHeldTakedowns(t, order), Len(order))
<1> DEFINE N == Len(order)
           base == [spent |-> Recent(t) \cup UNION {Spent(t, d) : d \in Confirmed(t)}, admitted |-> {}]
           Fold(f) == f = [i \in 0..N |-> IF i = 0 THEN base ELSE Admit(t, f[i - 1], order[i])]
           after == CHOOSE f : Fold(f)
           step == [i \in 1..N |-> [acc \in Ledgers |-> Admit(t, acc, order[i])]]
<1>1. N \in Nat /\ \A i \in 1..N : order[i] \in Decisions
  BY DEF Sorted, OnTree
<1>2. base \in Ledgers /\ AdmittedBy(t, order, base, 0)
  <2>1. Confirmed(t) \subseteq Decisions
    BY DEF Confirmed, Waiting, OnTree
  <2>2. Recent(t) \subseteq Plugins
    BY DEF Recent
  <2>3. \A d \in Confirmed(t) : Spent(t, d) = withdrawnBy(t, d)
    BY <2>1, Withdrawals
  <2>4. {Spent(t, d) : d \in Confirmed(t)} = {withdrawnBy(t, d) : d \in Confirmed(t)}
    BY <2>3
  <2>5. base.spent = Already(t) /\ base.admitted = {}
    BY <2>4 DEF Already, Takes
  <2>6. Already(t) \in SUBSET Plugins
    BY <2>1, <2>2, TakesPlugins DEF Already
  <2>7. base \in Ledgers
    BY <2>5, <2>6 DEF Ledgers
  <2>8. Takes(t, {}) = {} /\ Roomy(t, Already(t), {})
    BY DEF Takes, Roomy
  <2> HIDE DEF base
  <2> QED
    BY <2>5, <2>7, <2>8 DEF AdmittedBy
<1>3. step \in Steps(N, Ledgers)
  <2> USE DEF Steps
  <2> SUFFICES ASSUME NEW acc \in Ledgers, NEW d \in Decisions PROVE Admit(t, acc, d) \in Ledgers
    BY <1>1
  <2>1. Spent(t, d) \subseteq Plugins
    BY Withdrawals
  <2> QED
    BY <2>1 DEF Admit, Ledgers
<1> HIDE DEF base
<1>4. \E f : IsFold(f, N, Ledgers, base, step)
  <2>1. N \in Nat /\ base \in Ledgers
    BY <1>1, <1>2
  <2> HIDE DEF step, N
  <2> QED
    BY <1>3, <2>1, FoldExists
<1>5. \E f : Fold(f)
  <2>1. PICK f : f \in [0..N -> Ledgers] /\ f[0] = base /\ \A i \in 1..N : f[i] = step[i][f[i - 1]]
    BY <1>4 DEF IsFold
  <2>2. ASSUME NEW i \in 1..N
        PROVE  i \in 0..N /\ i - 1 \in 0..N /\ f[i] = Admit(t, f[i - 1], order[i])
    <3>1. i \in 0..N /\ i - 1 \in 0..N
      BY <1>1
    <3>2. f[i - 1] \in Ledgers
      BY <2>1, <3>1
    <3>3. step[i][f[i - 1]] = Admit(t, f[i - 1], order[i])
      BY <3>2
    <3> QED
      BY <2>1, <3>1, <3>3
  <2>3. \A i \in 0..N : i = 0 \/ i \in 1..N
    BY <1>1
  <2>4. Fold(f)
    BY <2>1, <2>2, <2>3
  <2> QED
    BY <2>4
<1>6. Fold(after)
  <2> HIDE DEF Fold
  <2> QED
    BY <1>5
<1>7. admitHeldTakedowns(t, order) = after[N]
  BY DEF admitHeldTakedowns, base
<1> HIDE DEF after
<1> DEFINE P == {i \in 0..N : AdmittedBy(t, order, after[i], i)}
<1>8. 0 \in P
  BY <1>1, <1>2, <1>6
<1>9. ASSUME NEW i \in 1..N, i - 1 \in P PROVE i \in P
  <2>1. i \in 0..N /\ AdmittedBy(t, order, after[i - 1], i - 1)
    BY <1>1, <1>9
  <2>2. after[i] = Admit(t, after[i - 1], order[i])
    BY <1>6, <2>1
  <2>3. AdmittedBy(t, order, Admit(t, after[i - 1], order[i]), i)
    BY <2>1, AdmitStep
  <2> QED
    BY <2>1, <2>2, <2>3
<1>10. N \in P
  <2>1. N \in Nat /\ N \in 0..N
    BY <1>1
  <2> HIDE DEF P, N
  <2>2. \A i \in 0..N : i \in P
    BY <1>8, <1>9, <2>1, UpTo
  <2> QED
    BY <2>1, <2>2
<1> QED
  BY <1>7, <1>10 DEF P

-----------------------------------------------------------------------------
(* The list answer, in the service's order                                    *)

Accs == [tree : Trees, batch : Batches, spent : SUBSET Plugins, compiled : SUBSET Decisions,
         held : SUBSET Decisions, refused : SUBSET Decisions]

Distinct(entries) ==
    /\ Len(entries) \in Nat /\ entries \in [1..Len(entries) -> Decisions]
    /\ \A i, j \in 1..Len(entries) : i # j => entries[i] # entries[j]

\* What a compile leaves of the tree's holds, of its window and of its record.
Unmoved(t, u) ==
    /\ u.n = t.n /\ u.holds = t.holds /\ u.confirm = t.confirm /\ u.cancel = t.cancel
    /\ u.ended = t.ended /\ u.left = t.left /\ u.settled = t.settled

Down(ds) == {d \in ds : isTakedown(d)}

\* What the first i decisions came to: each fresh one compiled, held or refused;
\* the ledger has the listings they withdrew, and each takedown found room in it.
CompiledBy(t, fresh, entries, spent, acc, i) ==
    /\ acc \in Accs /\ Unmoved(t, acc.tree)
    /\ \A d \in Decisions : acc.tree.logs[d] = IF d \in acc.compiled THEN Append(t.logs[d], t.n + 1) ELSE t.logs[d]
    /\ \A d \in acc.compiled \cup acc.held \cup acc.refused : d \in fresh /\ \E j \in 1..i : entries[j] = d
    /\ acc.compiled \cap acc.held = {} /\ \A d \in acc.held : isTakedown(d)
    /\ acc.spent = spent \cup Takes(t, Down(acc.compiled))
    /\ Over(spent) => Down(acc.compiled) = {}
    /\ Roomy(t, spent, Down(acc.compiled))
    /\ acc.tree.unlisted \subseteq t.unlisted \cup Takes(t, Down(acc.compiled))
    /\ acc.batch.unlisted \subseteq acc.tree.unlisted

LEMMA CompileTyped ==
    ASSUME NEW t \in Trees, NEW fresh, NEW acc \in Accs, NEW d \in Decisions
    PROVE  CompileOne(t, fresh, acc, d) \in Accs
<1>1. t.n + 1 \in Nat
  BY DEF Trees
<1>2. Effect(acc.tree, d, t.n + 1) \in Trees
  BY <1>1, EffectTree DEF Accs, EffectIs
<1>3. InBatch(acc.batch, d) \in Batches /\ withdrawnBy(t, d) \subseteq Plugins
  BY BatchStep, Withdrawals DEF Accs
<1> QED
  BY <1>2, <1>3 DEF CompileOne, Accs

LEMMA CompileStep ==
    ASSUME NEW t \in Trees, NEW fresh, NEW entries, Distinct(entries), NEW spent \in SUBSET Plugins,
           NEW i \in 1..Len(entries), NEW acc, CompiledBy(t, fresh, entries, spent, acc, i - 1)
    PROVE  CompiledBy(t, fresh, entries, spent, CompileOne(t, fresh, acc, entries[i]), i)
<1> DEFINE d == entries[i]
           next == CompileOne(t, fresh, acc, d)
<1> SUFFICES CompiledBy(t, fresh, entries, spent, next, i)
  OBVIOUS
<1>1. d \in Decisions /\ Len(entries) \in Nat /\ acc \in Accs /\ i \in 1..i
  BY DEF Distinct, CompiledBy
<1>2. \A j \in 1..(i - 1) : j \in 1..i /\ j \in 1..Len(entries) /\ j # i
  BY <1>1
<1>3. \A e \in acc.compiled \cup acc.held \cup acc.refused : e \in fresh /\ e # d /\ \E j \in 1..i : entries[j] = e
  BY <1>2 DEF CompiledBy, Distinct
<1>4. next \in Accs
  BY <1>1, CompileTyped
<1>5. CASE d \notin fresh
  <2>1. next = acc
    BY <1>5 DEF CompileOne
  <2> HIDE DEF next
  <2> QED
    BY <1>3, <2>1 DEF CompiledBy
<1>6. CASE d \in fresh /\ isTakedown(d) /\ Over(acc.spent)
  <2>1. next = [acc EXCEPT !.held = acc.held \cup {d}]
    BY <1>6 DEF CompileOne
  <2>2. /\ next.tree = acc.tree /\ next.batch = acc.batch /\ next.spent = acc.spent /\ next.compiled = acc.compiled
        /\ next.held = acc.held \cup {d} /\ next.refused = acc.refused
    BY <1>1, <2>1 DEF Accs
  <2> HIDE DEF next
  <2> QED
    BY <1>1, <1>3, <1>4, <1>6, <2>2 DEF CompiledBy
<1>7. CASE d \in fresh /\ ~(isTakedown(d) /\ Over(acc.spent)) /\ Refused(t, acc.batch, d)
  <2>1. next = [acc EXCEPT !.refused = acc.refused \cup {d}]
    BY <1>7 DEF CompileOne
  <2>2. /\ next.tree = acc.tree /\ next.batch = acc.batch /\ next.spent = acc.spent /\ next.compiled = acc.compiled
        /\ next.held = acc.held /\ next.refused = acc.refused \cup {d}
    BY <1>1, <2>1 DEF Accs
  <2> HIDE DEF next
  <2> QED
    BY <1>1, <1>3, <1>4, <1>7, <2>2 DEF CompiledBy
<1>8. CASE d \in fresh /\ ~(isTakedown(d) /\ Over(acc.spent)) /\ ~Refused(t, acc.batch, d)
  <2> DEFINE u == Effect(acc.tree, d, t.n + 1)
             more == withdrawnBy(t, d)
             batch == InBatch(acc.batch, d)
  <2>1. next = [acc EXCEPT !.compiled = acc.compiled \cup {d}, !.batch = batch, !.spent = acc.spent \cup more, !.tree = u]
    BY <1>8 DEF CompileOne
  <2>2. /\ next.tree = u /\ next.batch = batch /\ next.spent = acc.spent \cup more
        /\ next.compiled = acc.compiled \cup {d} /\ next.held = acc.held /\ next.refused = acc.refused
    BY <1>1, <2>1 DEF Accs
  <2>3. EffectIs(acc.tree, d, t.n + 1, u) /\ acc.tree \in Trees
    <3>1. t.n + 1 \in Nat /\ acc.tree \in Trees
      BY <1>1 DEF Trees, Accs
    <3> QED
      BY <1>1, <3>1, EffectTree
  <2>4. batch.unlisted = IF Kind[d] = "delist" THEN acc.batch.unlisted \cup {Plugin[d]} ELSE acc.batch.unlisted
    BY <1>1, BatchStep DEF Accs
  <2>5. /\ more \subseteq Plugins /\ (~isTakedown(d) => more = {})
        /\ acc.spent \in SUBSET Plugins /\ acc.compiled \in SUBSET Decisions
    BY <1>1, Withdrawals DEF Accs
  <2>6. more = IF isTakedown(d) THEN Matches[d] \ t.unlisted ELSE {}
    BY DEF withdrawnBy
  <2> HIDE DEF next, u, batch, more
  <2>7. Unmoved(t, next.tree)
    BY <2>2, <2>3 DEF Unmoved, EffectIs, CompiledBy
  <2>8. \A e \in Decisions : next.tree.logs[e] = IF e \in next.compiled THEN Append(t.logs[e], t.n + 1) ELSE t.logs[e]
    <3>1. acc.tree.logs[d] = t.logs[d] /\ d \notin acc.compiled
      BY <1>1, <1>3 DEF CompiledBy
    <3>2. u.logs = [acc.tree.logs EXCEPT ![d] = Append(t.logs[d], t.n + 1)] /\ acc.tree.logs \in [Decisions -> Seq(Nat)]
      BY <2>3, <3>1 DEF EffectIs, Trees
    <3> QED
      BY <1>1, <2>2, <3>1, <3>2 DEF CompiledBy
  <2>9. \A e \in next.compiled \cup next.held \cup next.refused : e \in fresh /\ \E j \in 1..i : entries[j] = e
    BY <1>1, <1>3, <1>8, <2>2
  <2>10. next.compiled \cap next.held = {} /\ \A e \in next.held : isTakedown(e)
    BY <1>3, <2>2 DEF CompiledBy
  <2> DEFINE was == Down(acc.compiled)
             now == Down(next.compiled)
  <2>11. /\ was \in SUBSET Decisions /\ now = IF isTakedown(d) THEN was \cup {d} ELSE was
         /\ acc.spent = spent \cup Takes(t, was) /\ (Over(spent) => was = {}) /\ Roomy(t, spent, was)
         /\ acc.tree.unlisted \subseteq t.unlisted \cup Takes(t, was) /\ acc.batch.unlisted \subseteq acc.tree.unlisted
    BY <2>2, <2>5 DEF CompiledBy, Down
  <2> HIDE DEF was, now
  <2>12. Takes(t, now) = Takes(t, was) \cup more
    BY <1>1, <2>5, <2>11, TakesPlugins DEF more
  <2>13. next.spent = spent \cup Takes(t, now)
    BY <2>2, <2>11, <2>12
  <2>14. (Over(spent) => now = {}) /\ Roomy(t, spent, now)
    <3>1. CASE isTakedown(d)
      <4>1. ~Over(spent \cup Takes(t, was))
        BY <1>8, <2>11, <3>1
      <4>2. ~Over(spent)
        <5>1. was = {} => spent \cup Takes(t, was) = spent
          BY DEF Takes
        <5> QED
          BY <2>11, <4>1, <5>1
      <4>3. Roomy(t, spent, was \cup {d})
        BY <1>1, <2>11, <4>1, OneMore
      <4> QED
        BY <2>11, <3>1, <4>2, <4>3
    <3>2. CASE ~isTakedown(d)
      BY <2>11, <3>2
    <3> QED
      BY <3>1, <3>2
  <2>15. u.unlisted \subseteq t.unlisted \cup Takes(t, now) /\ batch.unlisted \subseteq u.unlisted
    <3>1. CASE Kind[d] = "delist"
      <4>1. u.unlisted = acc.tree.unlisted \cup {Plugin[d]}
        BY <2>3, <3>1 DEF EffectIs
      <4>2. {Plugin[d]} \subseteq t.unlisted \cup more
        BY <1>1, <2>6, <3>1, Siblings DEF isTakedown
      <4> QED
        BY <2>4, <2>11, <2>12, <3>1, <4>1, <4>2
    <3>2. CASE Kind[d] = "relist"
      <4>1. u.unlisted = acc.tree.unlisted \ {Plugin[d]}
        BY <2>3, <3>2 DEF EffectIs
      <4>2. Plugin[d] \notin acc.batch.unlisted
        BY <1>8, <3>2 DEF Refused
      <4> QED
        BY <2>4, <2>11, <2>12, <3>2, <4>1, <4>2
    <3>3. CASE Kind[d] = "revoke"
      <4>1. u.unlisted = acc.tree.unlisted
        BY <2>3, <3>3 DEF EffectIs
      <4> QED
        BY <2>4, <2>11, <2>12, <3>3, <4>1
    <3> QED
      BY <1>1, <3>1, <3>2, <3>3, Constants
  <2> QED
    BY <1>4, <2>2, <2>7, <2>8, <2>9, <2>10, <2>13, <2>14, <2>15 DEF CompiledBy, now
<1> HIDE DEF next
<1> QED
  BY <1>5, <1>6, <1>7, <1>8

LEMMA ListCompiles ==
    ASSUME NEW t \in Trees, NEW fresh, NEW entries, Distinct(entries), NEW spent \in SUBSET Plugins
    PROVE  CompiledBy(t, fresh, entries, spent, compileAll(t, fresh, entries, spent), Len(entries))
<1> DEFINE N == Len(entries)
           base == [tree |-> t, batch |-> NoBatch, spent |-> spent, compiled |-> {}, held |-> {}, refused |-> {}]
           Fold(f) == f = [i \in 0..N |-> IF i = 0 THEN base ELSE CompileOne(t, fresh, f[i - 1], entries[i])]
           after == CHOOSE f : Fold(f)
           step == [i \in 1..N |-> [acc \in Accs |-> CompileOne(t, fresh, acc, entries[i])]]
<1>1. N \in Nat /\ \A i \in 1..N : entries[i] \in Decisions
  BY DEF Distinct
<1>2. base \in Accs /\ CompiledBy(t, fresh, entries, spent, base, 0)
  <2>1. NoBatch \in Batches /\ NoBatch.unlisted = {}
    BY DEF NoBatch, Batches
  <2>2. /\ base \in Accs /\ base.tree = t /\ base.batch = NoBatch /\ base.spent = spent /\ base.compiled = {}
        /\ base.held = {} /\ base.refused = {}
    BY <2>1 DEF Accs
  <2>3. Down({}) = {} /\ Takes(t, {}) = {} /\ Roomy(t, spent, {})
    BY DEF Down, Takes, Roomy
  <2> HIDE DEF base
  <2> QED
    BY <2>1, <2>2, <2>3 DEF CompiledBy, Unmoved
<1>3. step \in Steps(N, Accs)
  <2>1. \A i \in 1..N : \A acc \in Accs : CompileOne(t, fresh, acc, entries[i]) \in Accs
    BY <1>1, CompileTyped
  <2> QED
    BY <2>1 DEF Steps
<1> HIDE DEF base
<1>4. \E f : IsFold(f, N, Accs, base, step)
  <2>1. N \in Nat /\ base \in Accs
    BY <1>1, <1>2
  <2> HIDE DEF step, N
  <2> QED
    BY <1>3, <2>1, FoldExists
<1>5. \E f : Fold(f)
  <2>1. PICK f : f \in [0..N -> Accs] /\ f[0] = base /\ \A i \in 1..N : f[i] = step[i][f[i - 1]]
    BY <1>4 DEF IsFold
  <2>2. ASSUME NEW i \in 1..N
        PROVE  i \in 0..N /\ i - 1 \in 0..N /\ f[i] = CompileOne(t, fresh, f[i - 1], entries[i])
    <3>1. i \in 0..N /\ i - 1 \in 0..N
      BY <1>1
    <3>2. f[i - 1] \in Accs
      BY <2>1, <3>1
    <3>3. step[i][f[i - 1]] = CompileOne(t, fresh, f[i - 1], entries[i])
      BY <3>2
    <3> QED
      BY <2>1, <3>1, <3>3
  <2>3. \A i \in 0..N : i = 0 \/ i \in 1..N
    BY <1>1
  <2>4. Fold(f)
    BY <2>1, <2>2, <2>3
  <2> QED
    BY <2>4
<1>6. Fold(after)
  <2> HIDE DEF Fold
  <2> QED
    BY <1>5
<1>7. compileAll(t, fresh, entries, spent) = after[N]
  BY DEF compileAll, base
<1> HIDE DEF after
<1> DEFINE P == {i \in 0..N : CompiledBy(t, fresh, entries, spent, after[i], i)}
<1>8. 0 \in P
  BY <1>1, <1>2, <1>6
<1>9. ASSUME NEW i \in 1..N, i - 1 \in P PROVE i \in P
  <2>1. i \in 0..N /\ CompiledBy(t, fresh, entries, spent, after[i - 1], i - 1)
    BY <1>1, <1>9
  <2>2. after[i] = CompileOne(t, fresh, after[i - 1], entries[i])
    BY <1>6, <2>1
  <2>3. CompiledBy(t, fresh, entries, spent, CompileOne(t, fresh, after[i - 1], entries[i]), i)
    BY <2>1, CompileStep
  <2> QED
    BY <2>1, <2>2, <2>3
<1>10. N \in P
  <2>1. N \in Nat /\ N \in 0..N
    BY <1>1
  <2> HIDE DEF P, N
  <2>2. \A i \in 0..N : i \in P
    BY <1>8, <1>9, <2>1, UpTo
  <2> QED
    BY <2>1, <2>2
<1> QED
  BY <1>7, <1>10 DEF P

-----------------------------------------------------------------------------
(* The holds that are due                                                     *)

\* What a release makes of a decision, in the commit n.
Released(t, u, d, n) == u.holds[d] = 0 /\ u.ended[d] = n /\ u.logs[d] = Append(t.logs[d], n)

\* What the first i holds came to: one that is due is released, or is of a
\* listing that is off by now.
ReleasedBy(all, due, order, n, acc, i) ==
    /\ acc \in Accs /\ acc.tree.n = all.tree.n /\ acc.tree.left = all.tree.left /\ acc.tree.settled = all.tree.settled
    /\ \A d \in Decisions : \/ Same(all.tree, acc.tree, d)
                            \/ Released(all.tree, acc.tree, d, n) /\ d \in due /\ \E j \in 1..i : order[j] = d
    /\ acc.tree.confirm \cup acc.tree.cancel \subseteq OnTree(acc.tree) /\ acc.tree.confirm \cap acc.tree.cancel = {}
    /\ all.tree.unlisted \subseteq acc.tree.unlisted
    /\ \A p \in acc.tree.unlisted \ all.tree.unlisted :
          \E j \in 1..i : /\ order[j] \in due /\ Kind[order[j]] = "delist" /\ Plugin[order[j]] = p
                         /\ Released(all.tree, acc.tree, order[j], n)
    /\ acc.batch.unlisted \subseteq acc.tree.unlisted
    /\ \A j \in 1..i : order[j] \in due /\ acc.tree.holds[order[j]] # 0 =>
          Kind[order[j]] = "delist" /\ Plugin[order[j]] \in acc.tree.unlisted

LEMMA ReleaseTyped ==
    ASSUME NEW acc \in Accs, NEW due, \A d \in due : isTakedown(d), NEW d \in Decisions, NEW n \in Nat
    PROVE  ReleaseOne(acc, due, d, n) \in Accs
<1>1. CASE d \notin due \/ Refused(acc.tree, acc.batch, d)
  BY <1>1 DEF ReleaseOne
<1>2. CASE ~(d \notin due \/ Refused(acc.tree, acc.batch, d))
  <2>1. Release(acc.tree, d, n) \in Trees
    BY <1>2, ReleaseTree DEF Accs, ReleaseIs
  <2>2. InBatch(acc.batch, d) \in Batches
    BY BatchStep DEF Accs
  <2> QED
    BY <1>2, <2>1, <2>2 DEF ReleaseOne, Accs
<1> QED
  BY <1>1, <1>2

LEMMA ReleaseStep ==
    ASSUME NEW t \in Trees, NEW all \in Accs, NEW due \in SUBSET Decisions, \A d \in due : isTakedown(d),
           NEW order, Sorted(t, order), NEW n \in Nat,
           NEW i \in 1..Len(order), NEW acc, ReleasedBy(all, due, order, n, acc, i - 1)
    PROVE  ReleasedBy(all, due, order, n, ReleaseOne(acc, due, order[i], n), i)
<1> DEFINE d == order[i]
           next == ReleaseOne(acc, due, d, n)
<1> SUFFICES ReleasedBy(all, due, order, n, next, i)
  OBVIOUS
<1>1. d \in Decisions /\ Len(order) \in Nat /\ acc \in Accs /\ i \in 1..i /\ \A j \in 1..Len(order) : order[j] \in Decisions
  BY DEF Sorted, ReleasedBy, OnTree
<1>2. \A j \in 1..(i - 1) : j \in 1..i /\ j \in 1..Len(order) /\ j < i
  BY <1>1
<1>3. \A j \in 1..i : j \in 1..(i - 1) \/ j = i
  BY <1>1
<1>4. \A j \in 1..(i - 1) : order[j] # d
  <2> SUFFICES ASSUME NEW j \in 1..(i - 1), order[j] = d PROVE FALSE
    OBVIOUS
  <2>1. Before(t, d, d) /\ d \in Nat /\ t.holds[d] \in Nat
    BY <1>1, <1>2, Constants DEF Sorted, Trees
  <2> QED
    BY <2>1 DEF Before
<1>5. next \in Accs
  BY <1>1, ReleaseTyped
<1>6. CASE d \notin due
  <2>1. next = acc
    BY <1>6 DEF ReleaseOne
  <2> HIDE DEF next
  <2> QED
    BY <1>2, <1>3, <1>6, <2>1 DEF ReleasedBy
<1>7. CASE d \in due /\ Refused(acc.tree, acc.batch, d)
  <2>1. next = acc
    BY <1>7 DEF ReleaseOne
  <2>2. Kind[d] = "delist" /\ Plugin[d] \in acc.tree.unlisted
    BY <1>7 DEF Refused, isTakedown, ReleasedBy
  <2> HIDE DEF next, d
  <2>3. \A j \in 1..i : order[j] \in due /\ acc.tree.holds[order[j]] # 0 =>
           Kind[order[j]] = "delist" /\ Plugin[order[j]] \in acc.tree.unlisted
    BY <1>3, <2>2 DEF ReleasedBy, d
  <2> QED
    BY <1>2, <2>1, <2>3 DEF ReleasedBy
<1>8. CASE d \in due /\ ~Refused(acc.tree, acc.batch, d)
  <2> DEFINE u == Release(acc.tree, d, n)
             batch == InBatch(acc.batch, d)
  <2>1. next = [acc EXCEPT !.tree = u, !.batch = batch]
    BY <1>8 DEF ReleaseOne
  <2>2. next.tree = u /\ next.batch = batch
    BY <1>1, <2>1 DEF Accs
  <2>3. ReleaseIs(acc.tree, d, n, u) /\ acc.tree \in Trees
    BY <1>1, <1>8, ReleaseTree DEF Accs
  <2>4. batch.unlisted = IF Kind[d] = "delist" THEN acc.batch.unlisted \cup {Plugin[d]} ELSE acc.batch.unlisted
    BY <1>1, BatchStep DEF Accs
  <2> HIDE DEF next, u, batch
  <2>5. next.tree.n = all.tree.n /\ next.tree.left = all.tree.left /\ next.tree.settled = all.tree.settled
    BY <2>2, <2>3 DEF ReleasedBy, ReleaseIs
  <2>6. \A e \in Decisions : \/ Same(all.tree, next.tree, e)
                             \/ Released(all.tree, next.tree, e, n) /\ e \in due /\ \E j \in 1..i : order[j] = e
    <3> TAKE e \in Decisions
    <3>1. CASE e = d
      <4>1. acc.tree.logs[d] = all.tree.logs[d]
        BY <1>1, <1>4 DEF ReleasedBy, Same
      <4>2. u.logs[d] = Append(acc.tree.logs[d], n) /\ u.holds[d] = 0 /\ u.ended[d] = n
        BY <1>1, <2>3 DEF ReleaseIs, Trees
      <4> QED
        BY <1>1, <1>8, <2>2, <3>1, <4>1, <4>2 DEF Released
    <3>2. CASE e # d
      <4>1. u.logs[e] = acc.tree.logs[e] /\ u.holds[e] = acc.tree.holds[e] /\ u.ended[e] = acc.tree.ended[e]
        BY <2>3, <3>2 DEF ReleaseIs, Trees
      <4> QED
        BY <1>2, <2>2, <4>1 DEF ReleasedBy, Same, Released
    <3> QED
      BY <3>1, <3>2
  <2>7. /\ next.tree.confirm \cup next.tree.cancel \subseteq OnTree(next.tree)
        /\ next.tree.confirm \cap next.tree.cancel = {}
    <3>1. acc.tree.confirm \cup acc.tree.cancel \subseteq OnTree(acc.tree) /\ acc.tree.confirm \cap acc.tree.cancel = {}
      BY DEF ReleasedBy
    <3> QED
      BY <2>2, <2>3, <3>1 DEF OnTree, ReleaseIs
  <2>8. all.tree.unlisted \subseteq acc.tree.unlisted /\ acc.batch.unlisted \subseteq acc.tree.unlisted
    BY DEF ReleasedBy
  <2>9. u.unlisted = IF Kind[d] = "delist" THEN acc.tree.unlisted \cup {Plugin[d]} ELSE acc.tree.unlisted
    BY <2>3 DEF ReleaseIs
  <2>10. /\ all.tree.unlisted \subseteq next.tree.unlisted /\ next.batch.unlisted \subseteq next.tree.unlisted
         /\ \A p \in next.tree.unlisted \ all.tree.unlisted :
               \E j \in 1..i : /\ order[j] \in due /\ Kind[order[j]] = "delist" /\ Plugin[order[j]] = p
                              /\ Released(all.tree, next.tree, order[j], n)
    <3>1. all.tree.unlisted \subseteq next.tree.unlisted /\ next.batch.unlisted \subseteq next.tree.unlisted
      BY <2>2, <2>4, <2>8, <2>9
    <3> SUFFICES ASSUME NEW p \in next.tree.unlisted, p \notin all.tree.unlisted
                 PROVE  \E j \in 1..i : /\ order[j] \in due /\ Kind[order[j]] = "delist" /\ Plugin[order[j]] = p
                                        /\ Released(all.tree, next.tree, order[j], n)
      BY <3>1
    <3>2. CASE p \in acc.tree.unlisted
      <4>1. PICK j \in 1..(i - 1) : /\ order[j] \in due /\ Kind[order[j]] = "delist" /\ Plugin[order[j]] = p
                                    /\ Released(all.tree, acc.tree, order[j], n)
        BY <3>2 DEF ReleasedBy
      <4>2. order[j] # d /\ order[j] \in Decisions /\ j \in 1..i
        BY <1>1, <1>2, <1>4
      <4>3. u.logs[order[j]] = acc.tree.logs[order[j]] /\ u.holds[order[j]] = acc.tree.holds[order[j]]
            /\ u.ended[order[j]] = acc.tree.ended[order[j]]
        BY <2>3, <4>2 DEF ReleaseIs, Trees
      <4>4. Released(all.tree, next.tree, order[j], n)
        BY <2>2, <4>1, <4>3 DEF Released
      <4> QED
        BY <4>1, <4>2, <4>4
    <3>3. CASE p \notin acc.tree.unlisted
      <4>1. Kind[d] = "delist" /\ Plugin[d] = p
        BY <2>2, <2>9, <3>3
      <4>2. acc.tree.logs[d] = all.tree.logs[d]
        BY <1>1, <1>4 DEF ReleasedBy, Same
      <4>3. u.logs[d] = Append(acc.tree.logs[d], n) /\ u.holds[d] = 0 /\ u.ended[d] = n
        BY <1>1, <2>3 DEF ReleaseIs, Trees
      <4> QED
        BY <1>1, <1>8, <2>2, <4>1, <4>2, <4>3 DEF Released
    <3> QED
      BY <3>2, <3>3
  <2>11. \A j \in 1..i : order[j] \in due /\ next.tree.holds[order[j]] # 0 =>
            Kind[order[j]] = "delist" /\ Plugin[order[j]] \in next.tree.unlisted
    <3> SUFFICES ASSUME NEW j \in 1..i, order[j] \in due, next.tree.holds[order[j]] # 0
                 PROVE  Kind[order[j]] = "delist" /\ Plugin[order[j]] \in next.tree.unlisted
      OBVIOUS
    <3>1. order[j] # d
      BY <1>1, <2>2, <2>3 DEF ReleaseIs
    <3>2. j \in 1..(i - 1) /\ order[j] \in Decisions
      BY <1>1, <1>2, <1>3, <3>1
    <3>3. acc.tree.holds[order[j]] # 0
      BY <2>2, <2>3, <3>1, <3>2 DEF ReleaseIs
    <3>4. Kind[order[j]] = "delist" /\ Plugin[order[j]] \in acc.tree.unlisted
      BY <3>2, <3>3 DEF ReleasedBy
    <3>5. acc.tree.unlisted \subseteq next.tree.unlisted
      BY <2>2, <2>9
    <3> QED
      BY <3>4, <3>5
  <2> QED
    BY <1>5, <2>5, <2>6, <2>7, <2>10, <2>11 DEF ReleasedBy
<1> HIDE DEF next
<1> QED
  BY <1>6, <1>7, <1>8

LEMMA HoldsReleased ==
    ASSUME NEW t \in Trees, NEW all \in Accs, NEW due \in SUBSET Decisions, \A d \in due : isTakedown(d),
           NEW order, Sorted(t, order), NEW n \in Nat,
           all.tree.confirm \cup all.tree.cancel \subseteq OnTree(all.tree), all.tree.confirm \cap all.tree.cancel = {},
           all.batch.unlisted \subseteq all.tree.unlisted
    PROVE  ReleasedBy(all, due, order, n, releaseHolds(all, due, order, n), Len(order))
<1> DEFINE N == Len(order)
           Fold(f) == f = [i \in 0..N |-> IF i = 0 THEN all ELSE ReleaseOne(f[i - 1], due, order[i], n)]
           after == CHOOSE f : Fold(f)
           step == [i \in 1..N |-> [acc \in Accs |-> ReleaseOne(acc, due, order[i], n)]]
<1>1. N \in Nat /\ \A i \in 1..N : order[i] \in Decisions
  BY DEF Sorted, OnTree
<1>2. ReleasedBy(all, due, order, n, all, 0)
  BY DEF ReleasedBy, Same
<1>3. step \in Steps(N, Accs)
  <2>1. \A i \in 1..N : \A acc \in Accs : ReleaseOne(acc, due, order[i], n) \in Accs
    BY <1>1, ReleaseTyped
  <2> QED
    BY <2>1 DEF Steps
<1>4. \E f : IsFold(f, N, Accs, all, step)
  <2>1. N \in Nat
    BY <1>1
  <2> HIDE DEF step, N
  <2> QED
    BY <1>3, <2>1, FoldExists
<1>5. \E f : Fold(f)
  <2>1. PICK f : f \in [0..N -> Accs] /\ f[0] = all /\ \A i \in 1..N : f[i] = step[i][f[i - 1]]
    BY <1>4 DEF IsFold
  <2>2. ASSUME NEW i \in 1..N
        PROVE  i \in 0..N /\ i - 1 \in 0..N /\ f[i] = ReleaseOne(f[i - 1], due, order[i], n)
    <3>1. i \in 0..N /\ i - 1 \in 0..N
      BY <1>1
    <3>2. f[i - 1] \in Accs
      BY <2>1, <3>1
    <3>3. step[i][f[i - 1]] = ReleaseOne(f[i - 1], due, order[i], n)
      BY <3>2
    <3> QED
      BY <2>1, <3>1, <3>3
  <2>3. \A i \in 0..N : i = 0 \/ i \in 1..N
    BY <1>1
  <2>4. Fold(f)
    BY <2>1, <2>2, <2>3
  <2> QED
    BY <2>4
<1>6. Fold(after)
  <2> HIDE DEF Fold
  <2> QED
    BY <1>5
<1>7. releaseHolds(all, due, order, n) = after[N]
  BY DEF releaseHolds
<1> HIDE DEF after
<1> DEFINE P == {i \in 0..N : ReleasedBy(all, due, order, n, after[i], i)}
<1>8. 0 \in P
  BY <1>1, <1>2, <1>6
<1>9. ASSUME NEW i \in 1..N, i - 1 \in P PROVE i \in P
  <2>1. i \in 0..N /\ ReleasedBy(all, due, order, n, after[i - 1], i - 1)
    BY <1>1, <1>9
  <2>2. after[i] = ReleaseOne(after[i - 1], due, order[i], n)
    BY <1>6, <2>1
  <2>3. ReleasedBy(all, due, order, n, ReleaseOne(after[i - 1], due, order[i], n), i)
    BY <2>1, ReleaseStep
  <2> QED
    BY <2>1, <2>2, <2>3
<1>10. N \in P
  <2>1. N \in Nat /\ N \in 0..N
    BY <1>1
  <2> HIDE DEF P, N
  <2>2. \A i \in 0..N : i \in P
    BY <1>8, <1>9, <2>1, UpTo
  <2> QED
    BY <2>1, <2>2
<1> QED
  BY <1>7, <1>10 DEF P

-----------------------------------------------------------------------------
(* The commit                                                                 *)

\* What the list answer came to, written to the tree.
AllTrue(t, named, spent, all) ==
    /\ all \in Accs /\ all.tree.n = t.n /\ all.tree.confirm = t.confirm /\ all.tree.cancel = t.cancel
    /\ all.tree.ended = t.ended /\ all.tree.left = t.left /\ all.tree.settled = t.settled
    /\ \A d \in Decisions :
          /\ all.tree.holds[d] = IF d \in all.held /\ t.holds[d] = 0 THEN t.n + 1 ELSE t.holds[d]
          /\ all.tree.logs[d] = IF d \in all.compiled THEN <<t.n + 1>> ELSE t.logs[d]
    /\ \A d \in all.compiled \cup all.held \cup all.refused : d \in named /\ t.logs[d] = <<>>
    /\ all.compiled \cap all.held = {} /\ \A d \in all.held : isTakedown(d)
    /\ Over(spent) => Down(all.compiled) = {}
    /\ Roomy(t, spent, Down(all.compiled))
    /\ all.tree.unlisted \subseteq t.unlisted \cup Takes(t, Down(all.compiled))
    /\ all.batch.unlisted \subseteq all.tree.unlisted

LEMMA AnswerCompiled ==
    ASSUME NEW w \in Commits, Distinct(w.entries), NEW spent \in SUBSET Plugins
    PROVE  AllTrue(w.base, Named(w), spent, Compiled(w, spent))
<1> DEFINE t == w.base
           entries == IF w.live THEN w.entries ELSE <<>>
           fresh == Fresh(t, entries)
           c == compileAll(t, fresh, entries, spent)
           hs == [d \in Decisions |-> IF d \in c.held /\ c.tree.holds[d] = 0 THEN t.n + 1 ELSE c.tree.holds[d]]
           all == Compiled(w, spent)
<1>1. t \in Trees
  BY DEF Commits
<1>2. Distinct(entries)
  BY DEF Distinct
<1>3. fresh \subseteq Named(w) \ Logged(t)
  BY DEF Fresh, Named, Range
<1>4. CompiledBy(t, fresh, entries, spent, c, Len(entries))
  <2> HIDE DEF t, entries, fresh
  <2> QED
    BY <1>1, <1>2, ListCompiles
<1>5. all = [c EXCEPT !.tree.holds = hs]
  BY DEF Compiled
<1> HIDE DEF t, entries, fresh, c, all
<1>6. c \in Accs /\ c.tree \in Trees /\ Unmoved(t, c.tree)
  BY <1>4 DEF CompiledBy, Accs
<1>7. hs \in [Decisions -> Nat] /\ \A d \in Decisions : hs[d] = IF d \in c.held /\ t.holds[d] = 0 THEN t.n + 1 ELSE t.holds[d]
  BY <1>1, <1>6 DEF Unmoved, Trees
<1> HIDE DEF hs
<1> DEFINE u == [c.tree EXCEPT !.holds = hs]
<1>8. /\ u \in Trees /\ u.n = c.tree.n /\ u.holds = hs /\ u.confirm = c.tree.confirm /\ u.cancel = c.tree.cancel
      /\ u.logs = c.tree.logs /\ u.ended = c.tree.ended /\ u.unlisted = c.tree.unlisted
      /\ u.left = c.tree.left /\ u.settled = c.tree.settled
  BY <1>6, <1>7 DEF Trees
<1>9. all = [c EXCEPT !.tree = u]
  BY <1>5, <1>6 DEF Accs
<1> HIDE DEF u
<1>10. /\ all \in Accs /\ all.tree = u /\ all.batch = c.batch /\ all.spent = c.spent /\ all.compiled = c.compiled
       /\ all.held = c.held /\ all.refused = c.refused
  BY <1>6, <1>8, <1>9 DEF Accs
<1>11. \A d \in all.compiled \cup all.held \cup all.refused : d \in Decisions /\ d \in Named(w) /\ t.logs[d] = <<>>
  <2>1. \A d \in all.compiled \cup all.held \cup all.refused : d \in Decisions /\ d \in fresh
    BY <1>4, <1>10 DEF CompiledBy, Accs
  <2> QED
    BY <1>3, <2>1 DEF Logged
<1>12. \A d \in Decisions : u.logs[d] = IF d \in all.compiled THEN <<t.n + 1>> ELSE t.logs[d]
  <2>1. t.n + 1 \in Nat /\ Append(<<>>, t.n + 1) = <<t.n + 1>>
    BY <1>1 DEF Trees
  <2> TAKE d \in Decisions
  <2>2. u.logs[d] = IF d \in all.compiled THEN Append(t.logs[d], t.n + 1) ELSE t.logs[d]
    BY <1>4, <1>8, <1>10 DEF CompiledBy
  <2>3. CASE d \in all.compiled
    <3>1. t.logs[d] = <<>>
      BY <1>11, <2>3
    <3> QED
      BY <2>1, <2>2, <2>3, <3>1
  <2>4. CASE d \notin all.compiled
    BY <2>2, <2>4
  <2> QED
    BY <2>3, <2>4
<1>13. \A d \in Decisions : u.holds[d] = IF d \in all.held /\ t.holds[d] = 0 THEN t.n + 1 ELSE t.holds[d]
  BY <1>7, <1>8, <1>10
<1>14. /\ u.n = t.n /\ u.confirm = t.confirm /\ u.cancel = t.cancel /\ u.ended = t.ended
       /\ u.left = t.left /\ u.settled = t.settled
  BY <1>6, <1>8 DEF Unmoved
<1>15. AllTrue(t, Named(w), spent, all)
  BY <1>4, <1>8, <1>10, <1>11, <1>12, <1>13, <1>14 DEF AllTrue, CompiledBy
<1> QED
  BY <1>15 DEF all, t

\* The holds a run releases, if they can be.
DueOf(t, admitted, all) == ((t.confirm \cup admitted) \cap OnTree(t)) \ (all.compiled \cup t.cancel)

\* What a commit makes of a decision: its hold is ended, unapplied or applied,
\* or things are as the compile left them.
Fate(t, admitted, all, f, d) ==
    \/ d \in OnTree(t) \ all.compiled /\ f.holds[d] = 0 /\ f.ended[d] = t.n + 1 /\ f.logs[d] = <<>>
    \/ d \in OnTree(t) /\ d \in all.compiled \cup DueOf(t, admitted, all)
       /\ f.holds[d] = 0 /\ f.ended[d] = t.n + 1 /\ f.logs[d] = <<t.n + 1>>
    \/ d \notin OnTree(t) \cap (all.compiled \cup t.cancel) /\ Same(all.tree, f, d)

CommitIs(t, admitted, all, f) ==
    /\ f \in Trees /\ f.n = t.n /\ f.left = t.left
    /\ f.confirm \cup f.cancel \subseteq OnTree(f) /\ f.confirm \cap f.cancel = {}
    /\ \A d \in Decisions : Fate(t, admitted, all, f, d)
    /\ all.tree.unlisted \subseteq f.unlisted
    /\ \A p \in f.unlisted \ all.tree.unlisted :
          \E e \in DueOf(t, admitted, all) : Kind[e] = "delist" /\ Plugin[e] = p /\ f.logs[e] # t.logs[e]
    /\ \A e \in DueOf(t, admitted, all) : f.holds[e] # 0 => Kind[e] = "delist" /\ Plugin[e] \in f.unlisted

LEMMA CommitEnds ==
    ASSUME NEW w \in Commits, GoodTree(w.base), NEW order, Sorted(w.base, order), NEW spent, NEW all,
           AllTrue(w.base, Named(w), spent, all), NEW admitted \in SUBSET Decisions
    PROVE  CommitIs(w.base, admitted, all, Ended(w, all, admitted, order))
<1> DEFINE t == w.base
           n == t.n + 1
           due == (Due(t, admitted) \cap OnTree(t)) \ (Stray(all.tree) \cup t.cancel)
           out == releaseHolds(all, due, order, n)
           ds == Stray(all.tree) \cup (t.cancel \cap OnTree(t))
           v == Deleted(out.tree, ds, n)
           f == Ended(w, all, admitted, order)
<1> SUFFICES CommitIs(t, admitted, all, f)
  OBVIOUS
<1>1. t \in Trees /\ n \in Nat /\ n # 0
  BY DEF Commits, Trees
<1>2. \A d \in OnTree(t) : d \in Decisions /\ t.logs[d] = <<>> /\ isTakedown(d) /\ t.holds[d] # 0
  BY DEF GoodTree, OnTree
<1>3. Stray(all.tree) = OnTree(t) \cap all.compiled
  <2>1. <<n>> # <<>>
    OBVIOUS
  <2>2. \A d \in Decisions : all.tree.holds[d] # 0 /\ all.tree.logs[d] # <<>> <=> d \in OnTree(t) /\ d \in all.compiled
    BY <1>1, <1>2, <2>1 DEF AllTrue, OnTree
  <2> QED
    BY <2>2 DEF Stray, OnTree, Logged
<1>4. due = DueOf(t, admitted, all) /\ due \in SUBSET Decisions /\ \A d \in due : isTakedown(d)
  BY <1>2, <1>3 DEF Due, DueOf
<1>5. all \in Accs /\ all.tree \in Trees
  BY DEF AllTrue, Accs
<1>6. all.tree.confirm \cup all.tree.cancel \subseteq OnTree(all.tree) /\ all.tree.confirm \cap all.tree.cancel = {}
  <2>1. t.confirm \cup t.cancel \subseteq OnTree(t) /\ t.confirm \cap t.cancel = {}
    BY DEF GoodTree
  <2>2. OnTree(t) \subseteq OnTree(all.tree)
    BY <1>1 DEF OnTree, AllTrue
  <2> QED
    BY <2>1, <2>2 DEF AllTrue
<1>7. ReleasedBy(all, due, order, n, out, Len(order))
  <2>1. all.batch.unlisted \subseteq all.tree.unlisted
    BY DEF AllTrue
  <2> HIDE DEF t, n, due
  <2>2. Sorted(t, order)
    BY DEF t
  <2> QED
    BY <1>1, <1>4, <1>5, <1>6, <2>1, <2>2, HoldsReleased
<1>8. f = [v EXCEPT !.settled = v.settled \cup Recorded(w, all)]
  BY DEF Ended
<1> HIDE DEF due, out, f
<1>9. DeletedIs(out.tree, ds, n, v) /\ out.tree \in Trees
  <2>1. out.tree \in Trees
    BY <1>7 DEF ReleasedBy, Accs
  <2> HIDE DEF ds, n
  <2> QED
    BY <1>1, <2>1, DeletedTree
<1> HIDE DEF v
<1>10. /\ f \in Trees /\ f.n = v.n /\ f.left = v.left /\ f.holds = v.holds /\ f.ended = v.ended /\ f.logs = v.logs
       /\ f.confirm = v.confirm /\ f.cancel = v.cancel /\ f.unlisted = v.unlisted
  <2>1. Recorded(w, all) \subseteq Results
    BY DEF Recorded, Commits
  <2>2. v \in Trees
    BY <1>9 DEF DeletedIs
  <2>3. v.settled \cup Recorded(w, all) \in SUBSET Results
    BY <2>1, <2>2 DEF Trees
  <2> QED
    BY <1>8, <2>2, <2>3 DEF Trees
<1>11. f.n = t.n /\ f.left = t.left /\ f.unlisted = out.tree.unlisted
  BY <1>7, <1>9, <1>10 DEF ReleasedBy, DeletedIs, AllTrue
<1>12. f.confirm \cup f.cancel \subseteq OnTree(f) /\ f.confirm \cap f.cancel = {}
  <2>1. out.tree.confirm \cup out.tree.cancel \subseteq OnTree(out.tree) /\ out.tree.confirm \cap out.tree.cancel = {}
    BY <1>7 DEF ReleasedBy
  <2>2. OnTree(out.tree) \ ds \subseteq OnTree(f)
    BY <1>9, <1>10 DEF OnTree, DeletedIs
  <2>3. f.confirm = out.tree.confirm \ ds /\ f.cancel = out.tree.cancel \ ds
    BY <1>9, <1>10 DEF DeletedIs
  <2> QED
    BY <2>1, <2>2, <2>3
<1>13. ASSUME NEW d \in Decisions PROVE Fate(t, admitted, all, f, d)
  <2>1. /\ f.holds[d] = IF d \in ds THEN 0 ELSE out.tree.holds[d]
        /\ f.ended[d] = IF d \in ds THEN n ELSE out.tree.ended[d]
        /\ f.logs[d] = out.tree.logs[d]
    BY <1>9, <1>10 DEF DeletedIs
  <2>2. Same(all.tree, out.tree, d) \/ (Released(all.tree, out.tree, d, n) /\ d \in due)
    BY <1>7 DEF ReleasedBy
  <2>3. all.tree.logs[d] = IF d \in all.compiled THEN <<n>> ELSE t.logs[d]
    BY DEF AllTrue
  <2>4. d \in ds <=> d \in OnTree(t) /\ d \in all.compiled \cup t.cancel
    BY <1>3
  <2>5. CASE d \in ds
    <3>1. d \notin due
      BY <1>4, <2>4, <2>5 DEF DueOf
    <3>2. Same(all.tree, out.tree, d) /\ t.logs[d] = <<>>
      BY <1>2, <2>2, <2>4, <2>5, <3>1
    <3>3. f.holds[d] = 0 /\ f.ended[d] = n /\ f.logs[d] = IF d \in all.compiled THEN <<n>> ELSE <<>>
      BY <2>1, <2>3, <2>5, <3>2 DEF Same
    <3> QED
      BY <2>4, <2>5, <3>3 DEF Fate
  <2>6. CASE d \notin ds /\ Same(all.tree, out.tree, d)
    BY <2>1, <2>4, <2>6 DEF Fate, Same
  <2>7. CASE d \notin ds /\ Released(all.tree, out.tree, d, n) /\ d \in due
    <3>1. d \in OnTree(t) /\ d \notin all.compiled /\ d \in DueOf(t, admitted, all)
      BY <1>4, <2>7 DEF DueOf
    <3>2. all.tree.logs[d] = <<>>
      BY <1>2, <2>3, <3>1
    <3>3. Append(<<>>, n) = <<n>>
      BY <1>1
    <3>4. f.holds[d] = 0 /\ f.ended[d] = n /\ f.logs[d] = <<n>>
      BY <2>1, <2>7, <3>2, <3>3 DEF Released
    <3> QED
      BY <3>1, <3>4 DEF Fate
  <2> QED
    BY <2>2, <2>5, <2>6, <2>7
<1>14. all.tree.unlisted \subseteq f.unlisted
  BY <1>7, <1>11 DEF ReleasedBy
<1>16. ASSUME NEW p \in f.unlisted, p \notin all.tree.unlisted
       PROVE  \E e \in DueOf(t, admitted, all) : Kind[e] = "delist" /\ Plugin[e] = p /\ f.logs[e] # t.logs[e]
  <2>1. PICK j \in 1..Len(order) : /\ order[j] \in due /\ Kind[order[j]] = "delist" /\ Plugin[order[j]] = p
                                    /\ Released(all.tree, out.tree, order[j], n)
    BY <1>7, <1>11, <1>16 DEF ReleasedBy
  <2> DEFINE e == order[j]
  <2>2. e \in DueOf(t, admitted, all) /\ e \in OnTree(t) /\ e \notin all.compiled
    BY <1>4, <2>1 DEF DueOf
  <2>3. all.tree.logs[e] = <<>> /\ t.logs[e] = <<>>
    BY <1>2, <2>2 DEF AllTrue
  <2>4. f.logs[e] = Append(<<>>, n) /\ Append(<<>>, n) # <<>>
    BY <1>1, <1>9, <1>10, <2>1, <2>3 DEF Released, DeletedIs
  <2> QED
    BY <2>1, <2>2, <2>3, <2>4
<1>15. ASSUME NEW e \in DueOf(t, admitted, all), f.holds[e] # 0
       PROVE  Kind[e] = "delist" /\ Plugin[e] \in f.unlisted
  <2>1. e \in Decisions /\ e \in OnTree(t) /\ e \in due
    BY <1>2, <1>4 DEF DueOf
  <2>2. PICK j \in 1..Len(order) : order[j] = e
    BY <2>1 DEF Sorted
  <2>3. out.tree.holds[e] # 0
    BY <1>9, <1>10, <1>15, <2>1 DEF DeletedIs
  <2> QED
    BY <1>7, <1>11, <2>1, <2>2, <2>3 DEF ReleasedBy
<1> QED
  BY <1>10, <1>11, <1>12, <1>13, <1>14, <1>15, <1>16 DEF CommitIs

\* The same but for its number and its window.
Copy(f, u) ==
    /\ u \in Trees /\ u.holds = f.holds /\ u.ended = f.ended /\ u.logs = f.logs
    /\ u.confirm = f.confirm /\ u.cancel = f.cancel /\ u.unlisted = f.unlisted /\ u.advisories = f.advisories

\* What the window of u has that the one of t had not, if f is what u was dated by.
DatedBy(t, f, u) ==
    \A p \in Recent(u) : \/ p \in Recent(t) \/ p \in f.unlisted \ t.unlisted
                         \/ p \notin f.unlisted
                            /\ \E d \in Decisions : Kind[d] = "revoke" /\ f.logs[d] # t.logs[d] /\ p \in Matches[d]

\* The window a commit is counted into.
LEMMA DatedTree ==
    ASSUME NEW t \in Trees, NEW v \in Trees
    PROVE  /\ Copy(v, Dated(t, v)) /\ Dated(t, v).n = v.n
           /\ \A p \in Recent(Dated(t, v)) :
                 \/ p \in Recent(v) \/ p \in v.unlisted \ t.unlisted
                 \/ p \notin v.unlisted
                    /\ \E d \in Decisions : Kind[d] = "revoke" /\ v.logs[d] # t.logs[d] /\ p \in Matches[d]
<1> DEFINE revoked == UNION {Matches[d] : d \in {d \in Decisions : Kind[d] = "revoke" /\ v.logs[d] # t.logs[d]}}
           taken == (v.unlisted \ t.unlisted) \cup (revoked \ v.unlisted)
           left == [p \in Plugins |-> IF p \in taken THEN WINDOW ELSE v.left[p]]
           u == Dated(t, v)
<1>1. u = [v EXCEPT !.left = left]
  BY DEF Dated
<1>2. \A p \in revoked : \E d \in Decisions : Kind[d] = "revoke" /\ v.logs[d] # t.logs[d] /\ p \in Matches[d]
  OBVIOUS
<1> HIDE DEF revoked
<1>3. left \in [Plugins -> 0..WINDOW] /\ \A p \in Plugins : left[p] = IF p \in taken THEN WINDOW ELSE v.left[p]
  BY Constants DEF Trees
<1> HIDE DEF left, u
<1>4. Copy(v, u) /\ u.n = v.n /\ u.left = left
  BY <1>1, <1>3 DEF Copy, Trees
<1>5. \A p \in Recent(u) : p \in Recent(v) \/ p \in taken
  BY <1>3, <1>4 DEF Recent
<1> QED
  BY <1>2, <1>4, <1>5 DEF u

LEMMA CommitGrows ==
    ASSUME NEW t, GoodTree(t), NEW named, NEW spent, NEW all, AllTrue(t, named, spent, all),
           NEW admitted, NEW f, CommitIs(t, admitted, all, f), NEW u, Copy(f, u)
    PROVE  Grown(t, u, named)
<1>1. t \in Trees /\ t.n + 1 \in Nat /\ t.n + 1 # 0 /\ <<t.n + 1>> # <<>>
  BY DEF GoodTree, Trees
<1>2. \A d \in Decisions : /\ Fate(t, admitted, all, f, d) /\ (d \in OnTree(t) <=> t.holds[d] # 0)
                           /\ u.holds[d] = f.holds[d] /\ u.ended[d] = f.ended[d] /\ u.logs[d] = f.logs[d]
  BY DEF CommitIs, Copy, OnTree
<1>3. \A d \in Decisions : /\ all.tree.holds[d] = IF d \in all.held /\ t.holds[d] = 0 THEN t.n + 1 ELSE t.holds[d]
                           /\ all.tree.logs[d] = IF d \in all.compiled THEN <<t.n + 1>> ELSE t.logs[d]
                           /\ all.tree.ended[d] = t.ended[d]
  BY DEF AllTrue
<1>4. /\ \A d \in all.compiled \cup all.held : d \in named /\ t.logs[d] = <<>>
      /\ all.compiled \cap all.held = {} /\ \A d \in all.held : isTakedown(d)
  BY DEF AllTrue
<1>5. /\ \A d \in OnTree(t) : t.logs[d] = <<>> /\ isTakedown(d)
      /\ \A d \in Decisions : t.logs[d] = <<>> \/ \E c \in Nat : t.logs[d] = <<c>>
  BY DEF GoodTree
<1>6. Later(t, u)
  <2> SUFFICES ASSUME NEW d \in Decisions
               PROVE  /\ t.logs[d] # <<>> => u.logs[d] = t.logs[d]
                      /\ t.ended[d] # 0 => u.ended[d] # 0
                      /\ t.holds[d] # 0 => u.holds[d] # 0 \/ u.ended[d] # 0
    BY DEF Later
  <2>1. CASE d \in OnTree(t) /\ u.holds[d] = 0 /\ u.ended[d] = t.n + 1
    BY <1>1, <1>5, <2>1
  <2>2. CASE Same(all.tree, f, d)
    BY <1>1, <1>2, <1>3, <1>4, <2>2 DEF Same
  <2> QED
    BY <1>2, <2>1, <2>2 DEF Fate
<1>7. \A d \in Decisions : u.logs[d] = <<>> \/ \E c \in Nat : u.logs[d] = <<c>>
  BY <1>1, <1>2, <1>3, <1>5 DEF Fate, Same
<1>8. \A d \in OnTree(u) : u.logs[d] = <<>> /\ isTakedown(d)
  <2> SUFFICES ASSUME NEW d \in Decisions, u.holds[d] # 0 PROVE u.logs[d] = <<>> /\ isTakedown(d)
    BY DEF OnTree
  <2>1. d \notin OnTree(t) \cap (all.compiled \cup t.cancel) /\ Same(all.tree, f, d)
    BY <1>2 DEF Fate
  <2>2. u.holds[d] = all.tree.holds[d] /\ u.logs[d] = all.tree.logs[d]
    BY <1>2, <2>1 DEF Same
  <2>3. CASE t.holds[d] = 0
    BY <1>3, <1>4, <2>2, <2>3
  <2>4. CASE t.holds[d] # 0
    BY <1>2, <1>3, <1>5, <2>1, <2>2, <2>4
  <2> QED
    BY <2>3, <2>4
<1>9. u \in Trees /\ u.confirm \cup u.cancel \subseteq OnTree(u) /\ u.confirm \cap u.cancel = {}
  BY DEF CommitIs, Copy, OnTree
<1>10. ASSUME NEW d \in Decisions \ named
       PROVE  /\ t.holds[d] = 0 => Same(t, u, d)
              /\ t.holds[d] # 0 /\ t.ended[d] = 0 => (u.holds[d] = 0 <=> u.ended[d] # 0)
  <2>1. d \notin all.compiled /\ d \notin all.held
    BY <1>4
  <2>2. CASE t.holds[d] = 0
    BY <1>2, <1>3, <2>1, <2>2 DEF Fate, Same
  <2>3. CASE t.holds[d] # 0
    BY <1>1, <1>2, <1>3, <2>1, <2>3 DEF Fate, Same
  <2> QED
    BY <2>2, <2>3
<1> QED
  BY <1>6, <1>7, <1>8, <1>9, <1>10 DEF Grown, GoodTree

LEMMA CommitResults ==
    ASSUME NEW w \in Commits, GoodTree(w.base), NEW spent, NEW all, AllTrue(w.base, Named(w), spent, all),
           NEW admitted, NEW f, CommitIs(w.base, admitted, all, f), NEW u, Copy(f, u)
    PROVE  ResultsFor(w, all) \subseteq Results /\ ResultsTrue(ResultsFor(w, all), u, Named(w))
<1> DEFINE t == w.base
           n == t.n + 1
<1>1. t \in Trees /\ n \in Nat /\ n # 0 /\ <<n>> # <<>> /\ Named(w) \subseteq Decisions
  BY DEF Commits, Trees, Named, Range
<1>2. \A d \in Decisions : /\ Fate(t, admitted, all, f, d) /\ (d \in OnTree(t) <=> t.holds[d] # 0)
                           /\ u.holds[d] = f.holds[d] /\ u.ended[d] = f.ended[d] /\ u.logs[d] = f.logs[d]
  BY DEF CommitIs, Copy, OnTree
<1>3. \A d \in Decisions : /\ all.tree.holds[d] = IF d \in all.held /\ t.holds[d] = 0 THEN n ELSE t.holds[d]
                           /\ all.tree.logs[d] = IF d \in all.compiled THEN <<n>> ELSE t.logs[d]
                           /\ all.tree.ended[d] = t.ended[d]
  BY DEF AllTrue
<1>4. /\ \A d \in all.compiled \cup all.held \cup all.refused : d \in Decisions /\ d \in Named(w) /\ t.logs[d] = <<>>
      /\ all.compiled \cap all.held = {}
  BY <1>1 DEF AllTrue
<1>5. /\ \A d \in OnTree(t) : t.logs[d] = <<>>
      /\ \A d \in Decisions : t.logs[d] = <<>> \/ (\E c \in Nat : t.logs[d] = <<c>>)
      /\ \A d \in Decisions : t.holds[d] \in Nat /\ t.ended[d] \in Nat
  BY <1>1 DEF GoodTree, Trees
<1> DEFINE Fits(x) == /\ x \in Results /\ BorneOut(x, u)
                      /\ x.d \notin Named(w) => x.outcome # "held" /\ Closed(u, x.d) /\ x = Answer(u, x.d)
<1> HIDE DEF t, n
<1>6. \A c \in Nat : <<c>> # <<>> /\ Head(<<c>>) = c
  OBVIOUS
<1>7. \A d \in Decisions : t.logs[d] # <<>> => u.logs[d] = t.logs[d] /\ Head(t.logs[d]) \in Nat /\ t.logs[d] = <<Head(t.logs[d])>>
  <2> SUFFICES ASSUME NEW d \in Decisions, t.logs[d] # <<>>
               PROVE  u.logs[d] = t.logs[d] /\ Head(t.logs[d]) \in Nat /\ t.logs[d] = <<Head(t.logs[d])>>
    OBVIOUS
  <2>1. u.logs[d] = t.logs[d]
    BY <1>2, <1>3, <1>4, <1>5 DEF Fate, Same
  <2>2. PICK c \in Nat : t.logs[d] = <<c>>
    BY <1>5
  <2> QED
    BY <1>6, <2>1, <2>2
<1>8. \A d \in Decisions, o \in Outcomes, c \in Nat :
         /\ Result(d, o, c) \in Results /\ Result(d, o, c).d = d
         /\ Result(d, o, c).outcome = o /\ Result(d, o, c).commit = c
  BY DEF Result, Results
<1>9. Outcomes = {"applied", "refused", "cancelled", "held"}
  BY DEF Outcomes
<1>10. ASSUME NEW d \in Named(w) \cap Logged(t) PROVE Fits(Result(d, "applied", Head(t.logs[d])))
  BY <1>1, <1>7, <1>8, <1>9 DEF BorneOut, Logged
<1>11. ASSUME NEW d \in all.compiled PROVE Fits(Result(d, "applied", n))
  <2>1. u.logs[d] = <<n>>
    BY <1>2, <1>3, <1>4 DEF Fate, Same, n
  <2> QED
    BY <1>1, <1>4, <1>8, <1>9, <2>1 DEF BorneOut
<1>12. ASSUME NEW d \in all.refused PROVE Fits(Result(d, "refused", 0))
  BY <1>4, <1>8, <1>9 DEF BorneOut
<1>13. ASSUME NEW d \in all.held PROVE Fits(Result(d, "held", IF t.holds[d] # 0 THEN t.holds[d] ELSE n))
  <2>1. ~NoHold(u, d)
    BY <1>1, <1>2, <1>3, <1>4 DEF Fate, Same, NoHold, n
  <2>2. (IF t.holds[d] # 0 THEN t.holds[d] ELSE n) \in Nat
    BY <1>1, <1>4, <1>5
  <2> QED
    BY <1>4, <1>8, <1>9, <2>1, <2>2 DEF BorneOut
<1>14. ASSUME NEW d \in Logged(t), all.tree.holds[d] # 0 \/ t.ended[d] # 0
       PROVE  Fits(Result(d, "applied", Head(t.logs[d])))
  <2>1. d \in Decisions /\ t.logs[d] # <<>>
    BY DEF Logged
  <2>2. t.holds[d] = 0 /\ d \notin all.compiled /\ d \notin all.held
    BY <1>2, <1>4, <1>5, <2>1
  <2>3. t.ended[d] # 0 /\ Same(all.tree, f, d)
    BY <1>2, <1>3, <1>14, <2>1, <2>2 DEF Fate
  <2>4. u.holds[d] = 0 /\ u.ended[d] = t.ended[d]
    BY <1>2, <1>3, <2>1, <2>2, <2>3 DEF Same
  <2> DEFINE x == Result(d, "applied", Head(t.logs[d]))
  <2>5. x \in Results /\ x.d = d /\ x.outcome = "applied" /\ x.commit = Head(t.logs[d])
    BY <1>7, <1>8, <1>9, <2>1
  <2>6. x = Answer(u, d)
    BY <1>7, <2>1 DEF Answer
  <2> HIDE DEF x
  <2> QED
    BY <1>7, <2>1, <2>3, <2>4, <2>5, <2>6 DEF BorneOut, Closed, x
<1>15. ASSUME NEW d \in Decisions \ Logged(t), all.tree.holds[d] = 0, t.ended[d] # 0
       PROVE  Fits(Result(d, "cancelled", t.ended[d]))
  <2>1. t.logs[d] = <<>> /\ t.holds[d] = 0
    BY <1>1, <1>3, <1>15 DEF Logged
  <2>2. Same(all.tree, f, d)
    BY <1>2, <2>1 DEF Fate
  <2>3. u.holds[d] = 0 /\ u.ended[d] = t.ended[d] /\ u.logs[d] = IF d \in all.compiled THEN <<n>> ELSE <<>>
    BY <1>2, <1>3, <1>15, <2>1, <2>2 DEF Same
  <2> DEFINE x == Result(d, "cancelled", t.ended[d])
  <2>4. x \in Results /\ x.d = d /\ x.outcome = "cancelled"
    BY <1>5, <1>8, <1>9
  <2>5. d \notin Named(w) => x = Answer(u, d)
    BY <1>4, <2>3 DEF Answer
  <2> HIDE DEF x
  <2> QED
    BY <1>15, <2>3, <2>4, <2>5 DEF BorneOut, Closed, NoHold, x
<1>16. \A x \in Left(w, all) : Fits(x)
  <2>1. Left(w, all) \subseteq History(t, all.tree)
    BY DEF Left, Unsettled, t
  <2>2. \A x \in History(t, all.tree) :
           \/ \E d \in Logged(t) : (all.tree.holds[d] # 0 \/ t.ended[d] # 0) /\ x = Result(d, "applied", Head(t.logs[d]))
           \/ \E d \in Decisions \ Logged(t) : all.tree.holds[d] = 0 /\ t.ended[d] # 0 /\ x = Result(d, "cancelled", t.ended[d])
    BY DEF History
  <2> HIDE DEF Fits
  <2> QED
    BY <1>14, <1>15, <2>1, <2>2
<1>17. \A x \in ResultsFor(w, all) : Fits(x)
  <2>1. \A x \in ResultsFor(w, all) :
           \/ \E d \in Named(w) \cap Logged(t) : x = Result(d, "applied", Head(t.logs[d]))
           \/ \E d \in all.compiled : x = Result(d, "applied", n)
           \/ \E d \in all.refused : x = Result(d, "refused", 0)
           \/ \E d \in all.held : x = Result(d, "held", IF t.holds[d] # 0 THEN t.holds[d] ELSE n)
           \/ x \in Left(w, all)
    BY DEF ResultsFor, Named, t, n
  <2> HIDE DEF Fits
  <2> QED
    BY <1>10, <1>11, <1>12, <1>13, <1>16, <2>1
<1> QED
  BY <1>17 DEF ResultsTrue

\* A decision a commit applies was compiled, or was a hold that was due.
LEMMA AppliedBy ==
    ASSUME NEW t, GoodTree(t), NEW named, NEW spent, NEW all, AllTrue(t, named, spent, all),
           NEW admitted, NEW f, CommitIs(t, admitted, all, f), NEW u, Copy(f, u),
           NEW d \in Decisions, u.logs[d] # t.logs[d]
    PROVE  d \in all.compiled \/ d \in DueOf(t, admitted, all)
<1>1. Fate(t, admitted, all, f, d) /\ u.logs[d] = f.logs[d]
  BY DEF CommitIs, Copy
<1>2. d \in OnTree(t) => t.logs[d] = <<>>
  BY DEF GoodTree
<1>3. d \notin all.compiled => all.tree.logs[d] = t.logs[d]
  BY DEF AllTrue
<1> QED
  BY <1>1, <1>2, <1>3 DEF Fate, Same

\* A due hold waits, or is one an operator confirmed.
LEMMA DueHold ==
    ASSUME NEW t, GoodTree(t), NEW admitted, NEW all, NEW d \in DueOf(t, admitted, all)
    PROVE  /\ d \in Decisions /\ d \in Waiting(t) /\ isTakedown(d)
           /\ d \in Confirmed(t) \/ d \in admitted
<1>1. d \in OnTree(t) /\ d \notin t.cancel /\ (d \in t.confirm \/ d \in admitted)
  BY DEF DueOf
<1>2. d \in Decisions /\ t.logs[d] = <<>> /\ isTakedown(d)
  BY <1>1 DEF GoodTree, OnTree
<1> QED
  BY <1>1, <1>2 DEF Waiting, Confirmed, Logged

LEMMA CommitInTurn ==
    ASSUME NEW t, GoodTree(t), NEW order, Sorted(t, order), NEW win, AdmittedBy(t, order, win, Len(order)),
           NEW named, NEW all, AllTrue(t, named, win.spent, all),
           NEW f, CommitIs(t, win.admitted, all, f), NEW u, Copy(f, u)
    PROVE  InTurn(t, u)
<1> SUFFICES ASSUME NEW d \in Decisions, u.logs[d] # t.logs[d], isTakedown(d), d \notin t.confirm,
                    NEW e \in OnTree(t) \cap OnTree(u), d \notin OnTree(t) \/ Before(t, e, d)
             PROVE  Refused(u, NoBatch, e)
  BY DEF InTurn
<1>1. d \in all.compiled \/ d \in DueOf(t, win.admitted, all)
  BY AppliedBy
<1>2. e \in Decisions /\ t.holds[e] # 0 /\ u.holds[e] # 0 /\ f.holds[e] # 0 /\ t.logs[e] = <<>>
  BY DEF OnTree, Copy, GoodTree
<1>3. e \notin all.compiled \cup t.cancel
  BY <1>2 DEF CommitIs, Fate
<1>4. CASE e \in DueOf(t, win.admitted, all)
  <2>1. Kind[e] = "delist" /\ Plugin[e] \in u.unlisted
    BY <1>2, <1>4 DEF CommitIs, Copy
  <2> QED
    BY <2>1 DEF Refused
<1>5. CASE e \notin DueOf(t, win.admitted, all)
  <2>1. e \in (Waiting(t) \ Confirmed(t)) \ win.admitted
    BY <1>2, <1>3, <1>5 DEF DueOf, Waiting, Confirmed, Logged
  <2>2. PICK j \in 1..Len(order) : order[j] = e
    BY DEF Sorted
  <2>3. Over(win.spent) /\ \A g \in win.admitted : Before(t, g, e)
    BY <2>1, <2>2 DEF AdmittedBy
  <2>4. d \notin all.compiled
    BY <2>3 DEF AllTrue, Down
  <2>5. d \in win.admitted /\ d \in OnTree(t)
    BY <1>1, <2>4, DueHold DEF Confirmed, Waiting
  <2>6. Before(t, d, e) /\ Before(t, e, d)
    BY <2>3, <2>5
  <2>7. t.holds[d] \in Nat /\ t.holds[e] \in Nat /\ d \in Nat /\ e \in Nat
    BY <1>2, Constants DEF GoodTree, Trees
  <2> QED
    BY <2>6, <2>7 DEF Before
<1> QED
  BY <1>4, <1>5

\* What is in the window after a commit was there before it, or was taken by a
\* confirmed hold or by a decision that found room; or the commit gave it back.
LEMMA CommitTakes ==
    ASSUME NEW t, GoodTree(t), NEW order, Sorted(t, order), NEW win, AdmittedBy(t, order, win, Len(order)),
           NEW named, NEW all, AllTrue(t, named, win.spent, all),
           NEW f, CommitIs(t, win.admitted, all, f), NEW u, Copy(f, u),
           DatedBy(t, f, u)
    PROVE  Recent(u) \subseteq Already(t) \cup Takes(t, ByWindow(t, u)) \cup (t.unlisted \ u.unlisted)
<1> DEFINE spent == Already(t) \cup Takes(t, ByWindow(t, u))
<1>1. ASSUME NEW e \in Decisions, u.logs[e] # t.logs[e], isTakedown(e)
      PROVE  withdrawnBy(t, e) \subseteq spent
  <2>1. CASE e \notin t.confirm
    BY <1>1, <2>1 DEF ByWindow, Takes
  <2>2. CASE e \in t.confirm
    <3>1. e \in OnTree(t) /\ e \notin t.cancel /\ t.logs[e] = <<>>
      BY <2>2 DEF GoodTree
    <3>2. e \in Confirmed(t)
      BY <2>2, <3>1 DEF Confirmed, Waiting, Logged
    <3> QED
      BY <3>2 DEF Already, Takes
  <2> QED
    BY <2>1, <2>2
<1>2. \A e \in Decisions : u.logs[e] = f.logs[e] /\ (u.logs[e] # t.logs[e] <=> f.logs[e] # t.logs[e])
  BY DEF Copy
<1>3. ASSUME NEW p \in f.unlisted, p \notin t.unlisted PROVE p \in spent
  <2>1. CASE p \in all.tree.unlisted
    <3>1. PICK e \in all.compiled : isTakedown(e) /\ p \in withdrawnBy(t, e)
      BY <1>3, <2>1 DEF AllTrue, Takes, Down
    <3>2. e \in Decisions /\ all.tree.logs[e] # t.logs[e] /\ t.logs[e] = <<>>
      <4>1. e \in Decisions /\ all.tree.logs[e] = <<t.n + 1>> /\ t.logs[e] = <<>> /\ <<t.n + 1>> # <<>>
        BY DEF AllTrue, Accs
      <4> QED
        BY <4>1
    <3>3. f.logs[e] # t.logs[e]
      <4>1. Fate(t, win.admitted, all, f, e) /\ <<t.n + 1>> # <<>>
        BY <3>2 DEF CommitIs
      <4> QED
        BY <3>2, <4>1 DEF Fate, Same
    <3> QED
      BY <1>1, <1>2, <3>1, <3>2, <3>3
  <2>2. CASE p \notin all.tree.unlisted
    <3>1. PICK e \in DueOf(t, win.admitted, all) : Kind[e] = "delist" /\ Plugin[e] = p /\ f.logs[e] # t.logs[e]
      BY <2>2 DEF CommitIs
    <3>2. e \in Decisions /\ isTakedown(e)
      BY DueHold
    <3>3. p \in withdrawnBy(t, e)
      BY <1>3, <3>1, <3>2, Siblings DEF withdrawnBy
    <3> QED
      BY <1>1, <1>2, <3>1, <3>2, <3>3
  <2> QED
    BY <2>1, <2>2
<1>4. ASSUME NEW p, p \notin f.unlisted, NEW e \in Decisions, Kind[e] = "revoke", f.logs[e] # t.logs[e], p \in Matches[e]
      PROVE  p \in spent \cup (t.unlisted \ u.unlisted)
  <2>1. p \notin u.unlisted
    BY <1>4 DEF Copy
  <2>2. isTakedown(e) /\ (p \notin t.unlisted => p \in withdrawnBy(t, e))
    BY <1>4 DEF withdrawnBy, isTakedown
  <2> QED
    BY <1>1, <1>2, <1>4, <2>1, <2>2
<1>5. Recent(t) \subseteq spent
  BY DEF Already
<1> HIDE DEF spent
<1>6. Recent(u) \subseteq spent \cup (t.unlisted \ u.unlisted)
  BY <1>3, <1>4, <1>5 DEF DatedBy
<1> QED
  BY <1>6 DEF spent

LEMMA CommitWindowed ==
    ASSUME NEW t, GoodTree(t), NEW order, Sorted(t, order), NEW win, AdmittedBy(t, order, win, Len(order)),
           NEW named, NEW all, AllTrue(t, named, win.spent, all),
           NEW f, CommitIs(t, win.admitted, all, f), NEW u, Copy(f, u),
           DatedBy(t, f, u)
    PROVE  Windowed(t, u)
<1> DEFINE lot == ByWindow(t, u)
           late == lot \cap Down(all.compiled)
           gone == t.unlisted \ u.unlisted
<1> SUFFICES ASSUME lot # {}
             PROVE  \E d \in lot : Cardinality(Recent(u) \ (Matches[d] \cup gone)) < BOUND
  BY DEF Windowed
<1>1. Recent(u) \subseteq Already(t) \cup Takes(t, lot) \cup gone
  BY CommitTakes
<1>2. \A d \in lot : d \in late \/ d \in win.admitted
  <2> SUFFICES ASSUME NEW d \in lot PROVE d \in late \/ d \in win.admitted
    OBVIOUS
  <2>1. d \in Decisions /\ u.logs[d] # t.logs[d] /\ isTakedown(d) /\ d \notin t.confirm
    BY DEF ByWindow
  <2>2. d \in all.compiled \/ d \in DueOf(t, win.admitted, all)
    BY <2>1, AppliedBy
  <2> QED
    BY <2>1, <2>2, DueHold DEF Confirmed, Down
<1>3. /\ win.spent = Already(t) \cup Takes(t, win.admitted) /\ win.spent \in SUBSET Plugins
      /\ Roomy(t, Already(t), win.admitted) /\ Roomy(t, win.spent, Down(all.compiled))
  BY DEF AdmittedBy, AllTrue, Ledgers
<1>4. lot \in SUBSET Decisions
  BY DEF ByWindow
<1> HIDE DEF lot, late, gone
<1>5. CASE late # {}
  <2>1. late \in SUBSET Down(all.compiled) /\ late \subseteq lot /\ late \in SUBSET Decisions
    BY <1>4 DEF late
  <2>2. PICK d \in late : Cardinality((win.spent \cup Takes(t, late)) \ Matches[d]) < BOUND
    BY <1>3, <1>5, <2>1 DEF Roomy
  <2> DEFINE S == (win.spent \cup Takes(t, late)) \ Matches[d]
             T == Recent(u) \ (Matches[d] \cup gone)
  <2>3. S \in SUBSET Plugins
    BY <1>3, <2>1, TakesPlugins
  <2>4. Takes(t, lot) \subseteq Takes(t, win.admitted) \cup Takes(t, late)
    BY <1>2 DEF Takes
  <2>5. T \subseteq S
    BY <1>1, <1>3, <2>4
  <2>6. Cardinality(S) < BOUND
    BY <2>2
  <2> HIDE DEF S, T
  <2>7. Cardinality(T) < BOUND
    BY <2>3, <2>5, <2>6, Fewer
  <2> QED
    BY <2>1, <2>7 DEF T
<1>6. CASE late = {}
  <2>1. lot \in SUBSET win.admitted
    BY <1>2, <1>6
  <2>2. PICK d \in lot : Cardinality((Already(t) \cup Takes(t, lot)) \ Matches[d]) < BOUND
    BY <1>3, <2>1 DEF Roomy
  <2> DEFINE S == (Already(t) \cup Takes(t, lot)) \ Matches[d]
             T == Recent(u) \ (Matches[d] \cup gone)
  <2>3. S \in SUBSET Plugins
    BY <1>3, <1>4, TakesPlugins
  <2>4. T \subseteq S
    BY <1>1
  <2>5. Cardinality(S) < BOUND
    BY <2>2
  <2> HIDE DEF S, T
  <2>6. Cardinality(T) < BOUND
    BY <2>3, <2>4, <2>5, Fewer
  <2> QED
    BY <2>6 DEF T
<1> QED
  BY <1>5, <1>6

\* A commit names finitely many results.
LEMMA ResultsFinite ==
    ASSUME NEW w \in Commits, GoodTree(w.base), NEW spent, NEW all, AllTrue(w.base, Named(w), spent, all)
    PROVE  IsFiniteSet(ResultsFor(w, all))
<1> DEFINE t == w.base
           n == t.n + 1
           f1 == [d \in Decisions |-> Result(d, "applied", Head(t.logs[d]))]
           f2 == [d \in Decisions |-> Result(d, "applied", n)]
           f3 == [d \in Decisions |-> Result(d, "refused", 0)]
           f4 == [d \in Decisions |-> Result(d, "held", IF t.holds[d] # 0 THEN t.holds[d] ELSE n)]
           f5 == [d \in Decisions |-> Result(d, "cancelled", t.ended[d])]
           T1 == {f1[d] : d \in Decisions}
           T2 == {f2[d] : d \in Decisions}
           T3 == {f3[d] : d \in Decisions}
           T4 == {f4[d] : d \in Decisions}
           T5 == {f5[d] : d \in Decisions}
           U == T1 \cup (T2 \cup (T3 \cup (T4 \cup T5)))
<1>1. Named(w) \subseteq Decisions /\ all.compiled \subseteq Decisions /\ all.refused \subseteq Decisions /\ all.held \subseteq Decisions
  BY DEF Named, Range, Commits, AllTrue, Accs
<1>2. \A d \in Decisions : /\ Result(d, "applied", Head(t.logs[d])) \in T1 /\ Result(d, "applied", n) \in T2
                           /\ Result(d, "refused", 0) \in T3
                           /\ Result(d, "held", IF t.holds[d] # 0 THEN t.holds[d] ELSE n) \in T4
                           /\ Result(d, "cancelled", t.ended[d]) \in T5
  OBVIOUS
<1>3. IsFiniteSet(T1)
  <2>1. DOMAIN f1 = Decisions
    OBVIOUS
  <2> HIDE DEF f1
  <2> QED
    BY <2>1, FiniteImage, Constants
<1>4. IsFiniteSet(T2)
  <2>1. DOMAIN f2 = Decisions
    OBVIOUS
  <2> HIDE DEF f2
  <2> QED
    BY <2>1, FiniteImage, Constants
<1>5. IsFiniteSet(T3)
  <2>1. DOMAIN f3 = Decisions
    OBVIOUS
  <2> HIDE DEF f3
  <2> QED
    BY <2>1, FiniteImage, Constants
<1>6. IsFiniteSet(T4)
  <2>1. DOMAIN f4 = Decisions
    OBVIOUS
  <2> HIDE DEF f4
  <2> QED
    BY <2>1, FiniteImage, Constants
<1>7. IsFiniteSet(T5)
  <2>1. DOMAIN f5 = Decisions
    OBVIOUS
  <2> HIDE DEF f5
  <2> QED
    BY <2>1, FiniteImage, Constants
<1>8. \A x \in History(t, all.tree) : x \in T1 \/ x \in T5
  <2>1. \A x \in History(t, all.tree) : \E d \in Decisions : x \in {Result(d, "applied", Head(t.logs[d])), Result(d, "cancelled", t.ended[d])}
    BY DEF History, Logged
  <2> HIDE DEF T1, T5
  <2> QED
    BY <1>2, <2>1
<1>9. Left(w, all) \subseteq History(t, all.tree)
  BY DEF Left, Unsettled
<1>10. \A x \in ResultsFor(w, all) :
           \/ \E d \in Named(w) : x = Result(d, "applied", Head(t.logs[d]))
           \/ \E d \in all.compiled : x = Result(d, "applied", n)
           \/ \E d \in all.refused : x = Result(d, "refused", 0)
           \/ \E d \in all.held : x = Result(d, "held", IF t.holds[d] # 0 THEN t.holds[d] ELSE n)
           \/ x \in Left(w, all)
  BY DEF ResultsFor, Named
<1> HIDE DEF T1, T2, T3, T4, T5, t, n
<1>11. ResultsFor(w, all) \subseteq U
  BY <1>1, <1>2, <1>8, <1>9, <1>10
<1>12. IsFiniteSet(T4 \cup T5)
  BY <1>6, <1>7, FS_Union
<1>13. IsFiniteSet(T3 \cup (T4 \cup T5))
  BY <1>5, <1>12, FS_Union
<1>14. IsFiniteSet(T2 \cup (T3 \cup (T4 \cup T5)))
  BY <1>4, <1>13, FS_Union
<1>15. IsFiniteSet(U)
  BY <1>3, <1>14, FS_Union
<1> HIDE DEF U
<1> QED
  BY <1>11, <1>15, FS_Subset

\* What history decided of the decisions is finite.
LEMMA HistoryFinite ==
    ASSUME NEW t
    PROVE  IsFiniteSet(Unsettled(t, t))
<1> DEFINE f1 == [d \in Decisions |-> Result(d, "applied", Head(t.logs[d]))]
           f5 == [d \in Decisions |-> Result(d, "cancelled", t.ended[d])]
           T1 == {f1[d] : d \in Decisions}
           T5 == {f5[d] : d \in Decisions}
<1>1. \A d \in Decisions : Result(d, "applied", Head(t.logs[d])) \in T1 /\ Result(d, "cancelled", t.ended[d]) \in T5
  OBVIOUS
<1>2. IsFiniteSet(T1)
  <2>1. DOMAIN f1 = Decisions
    OBVIOUS
  <2> HIDE DEF f1
  <2> QED
    BY <2>1, FiniteImage, Constants
<1>3. IsFiniteSet(T5)
  <2>1. DOMAIN f5 = Decisions
    OBVIOUS
  <2> HIDE DEF f5
  <2> QED
    BY <2>1, FiniteImage, Constants
<1> HIDE DEF T1, T5
<1>4. \A x \in History(t, t) : \E d \in Decisions : x \in {Result(d, "applied", Head(t.logs[d])), Result(d, "cancelled", t.ended[d])}
  BY DEF History, Logged
<1>5. Unsettled(t, t) \subseteq T1 \cup T5
  BY <1>1, <1>4 DEF Unsettled
<1>6. IsFiniteSet(T1 \cup T5)
  BY <1>2, <1>3, FS_Union
<1> QED
  BY <1>5, <1>6, FS_Subset


-----------------------------------------------------------------------------
(* What stays true as main grows, time passes and the service is told         *)

LEMMA LaterTree ==
    ASSUME NEW t, NEW m, Later(t, m), NEW d \in Decisions
    PROVE  /\ t.logs[d] # <<>> => m.logs[d] = t.logs[d]
           /\ t.ended[d] # 0 => m.ended[d] # 0
           /\ NoHold(m, d) => NoHold(t, d)
BY DEF Later, NoHold

LEMMA BorneOn ==
    ASSUME NEW t, NEW m, Later(t, m), NEW x, x.d \in Decisions, BorneOut(x, t)
    PROVE  BorneOut(x, m)
<1>0. <<x.commit>> # <<>>
  OBVIOUS
<1>1. x.outcome = "applied" => t.logs[x.d] # <<>>
  BY <1>0 DEF BorneOut
<1> QED
  BY <1>1, LaterTree DEF BorneOut

LEMMA ViewStays ==
    ASSUME NEW m, NEW u, NEW named, Grown(m, u, named), NEW d \in Decisions, NEW v, ViewTrue(v, m, d),
           v.heard => d \notin named
    PROVE  ViewTrue(v, u, d)
<1>1. Later(m, u)
  BY DEF Grown
<1>2. ASSUME v.heard
      PROVE  \/ u.holds[d] # 0 /\ u.ended[d] = 0 /\ v.told = {}
             \/ Closed(u, d) /\ v.told \subseteq {Answer(u, d)}
  <2>1. CASE m.holds[d] # 0 /\ m.ended[d] = 0 /\ v.told = {}
    BY <1>2, <2>1 DEF Grown, Closed
  <2>2. CASE Closed(m, d) /\ v.told \subseteq {Answer(m, d)}
    <3>1. Same(m, u, d)
      BY <1>2, <2>2 DEF Grown, Closed
    <3> QED
      BY <2>2, <3>1 DEF Same, Closed, Answer
  <2> QED
    BY <1>2, <2>1, <2>2 DEF ViewTrue
<1>3. ASSUME NoHold(u, d) PROVE v.told = {} \/ \E x \in Results : x.d = d /\ v.told = {x} /\ BorneOut(x, u)
  <2>1. v.told = {} \/ \E x \in Results : x.d = d /\ v.told = {x} /\ BorneOut(x, m)
    BY <1>1, <1>3, LaterTree DEF ViewTrue
  <2>2. ASSUME NEW x \in Results, v.told = {x}, BorneOut(x, m) PROVE BorneOut(x, u)
    BY <1>1, <2>2, BorneOn DEF Results
  <2> QED
    BY <2>1, <2>2
<1> QED
  BY <1>2, <1>3 DEF ViewTrue

LEMMA KnownStays ==
    ASSUME NEW t, NEW m, NEW sv, Known(t, m, sv), GoodTree(m), NEW u, NEW named, Grown(m, u, named), u.n = m.n + 1,
           \A d \in Decisions : ViewTrue(sv[d], m, d), \A d \in Decisions : sv[d].heard => d \notin named
    PROVE  Known(t, u, sv)
<1>1. t.n \in Nat /\ m.n \in Nat /\ t.n <= m.n
  BY DEF Known, GoodTree, Trees, Behind
<1>2. Later(t, m) /\ Later(m, u)
  BY DEF Known, Behind, Grown
<1>3. Later(t, u)
  <2> SUFFICES ASSUME NEW d \in Decisions
               PROVE  /\ t.logs[d] # <<>> => u.logs[d] = t.logs[d]
                      /\ t.ended[d] # 0 => u.ended[d] # 0
                      /\ t.holds[d] # 0 => u.holds[d] # 0 \/ u.ended[d] # 0
    BY DEF Later
  <2> QED
    BY <1>2 DEF Later
<1>4. Behind(t, u)
  BY <1>1, <1>3 DEF Behind
<1>5. ASSUME NEW d \in Decisions, sv[d].heard, t.ended[d] # 0 PROVE Same(t, u, d)
  <2>1. Same(t, m, d)
    BY <1>5 DEF Known
  <2>2. m.holds[d] = 0
    BY <1>5, <2>1 DEF ViewTrue, Same, Closed
  <2>3. Same(m, u, d)
    BY <1>5, <2>2 DEF Grown
  <2> QED
    BY <2>1, <2>3 DEF Same
<1> QED
  BY <1>4, <1>5 DEF Known

LEMMA KnownSelf ==
    ASSUME NEW m, GoodTree(m), NEW sv
    PROVE  Known(m, m, sv)
<1>1. m.n \in Nat
  BY DEF GoodTree, Trees
<1> QED
  BY <1>1 DEF Known, Behind, Later, Same

LEMMA KnownHeard ==
    ASSUME NEW t, NEW m, NEW sv, Known(t, m, sv), NEW sv2,
           \A d \in Decisions : sv2[d].heard => sv[d].heard \/ m.ended[d] = 0
    PROVE  Known(t, m, sv2)
BY DEF Known, Behind, Later

LEMMA WaitsStays ==
    ASSUME NEW m, NEW u, Later(m, u), NEW d \in Decisions, NEW sv, Waits(d, m, sv)
    PROVE  Waits(d, u, sv)
BY LaterTree DEF Waits

LEMMA ReportStays ==
    ASSUME NEW m, NEW u, Grown(m, u, {}), NEW sv, NEW x, x.d \in Decisions, ReportTrue(x, m, sv)
    PROVE  ReportTrue(x, u, sv)
<1>1. Later(m, u)
  BY DEF Grown
<1>2. BorneOut(x, u)
  BY <1>1, BorneOn DEF ReportTrue
<1>3. ASSUME sv[x.d].heard, x.outcome # "held" PROVE Closed(u, x.d) /\ x = Answer(u, x.d)
  <2>1. Closed(m, x.d) /\ x = Answer(m, x.d)
    BY <1>3 DEF ReportTrue
  <2>2. Same(m, u, x.d)
    BY <2>1 DEF Grown, Closed
  <2> QED
    BY <2>1, <2>2 DEF Same, Closed, Answer
<1>4. NoHold(u, x.d) => sv[x.d].told = {}
  BY <1>1, LaterTree DEF ReportTrue
<1> QED
  BY <1>2, <1>3, <1>4 DEF ReportTrue

\* A tree an hour later is the same tree but for its window.
LEMMA OlderTree ==
    ASSUME NEW t \in Trees
    PROVE  Copy(t, Older(t)) /\ Older(t).n = t.n /\ Recent(Older(t)) \subseteq Recent(t)
<1> DEFINE left == [p \in Plugins |-> IF t.left[p] > 0 THEN t.left[p] - 1 ELSE 0]
           u == Older(t)
<1>1. u = [t EXCEPT !.left = left]
  BY DEF Older
<1>2. left \in [Plugins -> 0..WINDOW] /\ \A p \in Plugins : left[p] > 0 => t.left[p] > 0
  BY Constants DEF Trees
<1> HIDE DEF left, u
<1>3. Copy(t, u) /\ u.n = t.n /\ u.left = left
  BY <1>1, <1>2 DEF Copy, Trees
<1> QED
  BY <1>2, <1>3 DEF Recent, u

LEMMA GoodCopy ==
    ASSUME NEW t, GoodTree(t), NEW u, Copy(t, u)
    PROVE  GoodTree(u)
BY DEF GoodTree, Copy, OnTree

LEMMA KnownOlder ==
    ASSUME NEW t, NEW m, GoodTree(m), NEW sv, Known(t, m, sv)
    PROVE  Known(Older(t), Older(m), sv)
<1>1. t \in Trees /\ m \in Trees
  BY DEF Known, GoodTree
<1>2. Copy(t, Older(t)) /\ Older(t).n = t.n
  BY <1>1, OlderTree
<1>3. Copy(m, Older(m)) /\ Older(m).n = m.n
  BY <1>1, OlderTree
<1>4. GoodTree(Older(t))
  BY <1>2, GoodCopy DEF Known
<1>5. Behind(Older(t), Older(m))
  BY <1>2, <1>3 DEF Known, Behind, Later, Copy
<1>6. \A d \in Decisions : sv[d].heard /\ Older(t).ended[d] # 0 => Same(Older(t), Older(m), d)
  BY <1>2, <1>3 DEF Known, Same, Copy
<1> QED
  BY <1>4, <1>5, <1>6 DEF Known

LEMMA ViewOlder ==
    ASSUME NEW m \in Trees, NEW v, NEW d \in Decisions, ViewTrue(v, m, d)
    PROVE  ViewTrue(v, Older(m), d)
<1>1. Copy(m, Older(m))
  BY OlderTree
<1> QED
  BY <1>1 DEF ViewTrue, Copy, NoHold, Closed, Answer, BorneOut

LEMMA ReportOlder ==
    ASSUME NEW m \in Trees, NEW sv, NEW x, ReportTrue(x, m, sv)
    PROVE  ReportTrue(x, Older(m), sv)
<1>1. Copy(m, Older(m))
  BY OlderTree
<1> QED
  BY <1>1 DEF ReportTrue, Copy, NoHold, Closed, Answer, BorneOut

-----------------------------------------------------------------------------
(* The steps of a run                                                         *)

LEMMA RunPhases ==
    ASSUME NEW w, RunOK(w)
    PROVE  /\ w = Idle => w.phase = "idle"
           /\ w # Idle => w.phase \in {"commit", "push", "report"}
           /\ w.phase = "commit" => w \in Commits
           /\ w.phase = "push" => w \in Pushes
           /\ w.phase = "report" => w \in Reports
BY DEF RunOK, Idle, Commits, Pushes, Reports

LEMMA CompileFound ==
    ASSUME NEW w \in Commits, GoodTree(w.base), \A i, j \in DOMAIN w.entries : i # j => w.entries[i] # w.entries[j],
           NEW order \in readHolds(w.base), NEW win, win = admitHeldTakedowns(w.base, order),
           NEW all, all = Compiled(w, win.spent), NEW f, f = Ended(w, all, win.admitted, order)
    PROVE  /\ Sorted(w.base, order) /\ AdmittedBy(w.base, order, win, Len(order))
           /\ AllTrue(w.base, Named(w), win.spent, all) /\ CommitIs(w.base, win.admitted, all, f)
<1>1. w.base \in Trees /\ w.entries \in Seq(Decisions)
  BY DEF Commits
<1>2. Distinct(w.entries)
  <2>1. Len(w.entries) \in Nat /\ DOMAIN w.entries = 1..Len(w.entries) /\ w.entries \in [1..Len(w.entries) -> Decisions]
    BY <1>1
  <2> QED
    BY <2>1 DEF Distinct
<1>3. Sorted(w.base, order)
  BY <1>1, HoldsInOrder
<1>4. AdmittedBy(w.base, order, win, Len(order))
  BY <1>1, <1>3, WindowAdmits
<1>5. win.spent \in SUBSET Plugins /\ win.admitted \in SUBSET Decisions
  BY <1>4 DEF AdmittedBy, Ledgers
<1>6. AllTrue(w.base, Named(w), win.spent, all)
  BY <1>2, <1>5, AnswerCompiled
<1>7. CommitIs(w.base, win.admitted, all, f)
  BY <1>3, <1>5, <1>6, CommitEnds
<1> QED
  BY <1>3, <1>4, <1>6, <1>7

\* The commit a run pushes.
LEMMA CommitMade ==
    ASSUME NEW w \in Commits, GoodTree(w.base), NEW order, Sorted(w.base, order),
           NEW win, AdmittedBy(w.base, order, win, Len(order)),
           NEW all, AllTrue(w.base, Named(w), win.spent, all), NEW f, CommitIs(w.base, win.admitted, all, f),
           NEW u, u = Dated(w.base, [f EXCEPT !.n = @ + 1])
    PROVE  /\ u \in Trees /\ u.n = w.base.n + 1 /\ Grown(w.base, u, Named(w))
           /\ ResultsTrue(ResultsFor(w, all), u, Named(w))
           /\ Windowed(w.base, u) /\ InTurn(w.base, u)
<1> DEFINE t == w.base
           v == [f EXCEPT !.n = f.n + 1]
<1>1. t \in Trees /\ f \in Trees /\ f.n = t.n /\ f.left = t.left
  BY DEF Commits, CommitIs
<1>2. /\ v \in Trees /\ v.n = t.n + 1 /\ v.holds = f.holds /\ v.ended = f.ended /\ v.logs = f.logs /\ v.left = t.left
      /\ v.confirm = f.confirm /\ v.cancel = f.cancel /\ v.unlisted = f.unlisted /\ v.advisories = f.advisories
  <2>1. f.n + 1 \in Nat /\ f.n + 1 = t.n + 1
    BY <1>1 DEF Trees
  <2> HIDE DEF t
  <2> QED
    BY <1>1, <2>1 DEF Trees
<1>3. u = Dated(t, v)
  BY <1>1
<1> HIDE DEF v
<1>4. /\ Copy(v, u) /\ u.n = v.n
      /\ \A p \in Recent(u) :
            \/ p \in Recent(v) \/ p \in v.unlisted \ t.unlisted
            \/ p \notin v.unlisted
               /\ \E d \in Decisions : Kind[d] = "revoke" /\ v.logs[d] # t.logs[d] /\ p \in Matches[d]
  BY <1>1, <1>2, <1>3, DatedTree
<1>5. Copy(f, u)
  BY <1>2, <1>4 DEF Copy
<1>6. DatedBy(t, f, u)
  <2>1. Recent(v) = Recent(t)
    BY <1>2 DEF Recent
  <2> QED
    BY <1>2, <1>4, <2>1 DEF DatedBy
<1>7. Grown(t, u, Named(w))
  BY <1>5, CommitGrows
<1>8. ResultsTrue(ResultsFor(w, all), u, Named(w))
  BY <1>5, CommitResults
<1>9. InTurn(t, u)
  BY <1>5, CommitInTurn
<1>10. Windowed(t, u)
  BY <1>5, <1>6, CommitWindowed
<1> QED
  BY <1>2, <1>4, <1>5, <1>7, <1>8, <1>9, <1>10 DEF Copy

\* A run with nothing to commit reports from the tree it was handed, which main
\* may have left behind: what that tree answers, main answers.
LEMMA NothingMade ==
    ASSUME NEW m, NEW sv, NEW w \in Commits, Handed(w, m, sv), NEW results, results \subseteq Results,
           ResultsTrue(results, w.base, Named(w)), NEW x \in results
    PROVE  ReportTrue(x, m, sv)
<1> DEFINE d == x.d
           t == w.base
<1>1. x \in Results /\ d \in Decisions /\ BorneOut(x, t) /\ Known(t, m, sv) /\ Later(t, m)
  BY DEF Results, ResultsTrue, Handed, Known, Behind
<1>2. BorneOut(x, m)
  BY <1>1, BorneOn
<1>3. CASE d \in Named(w)
  BY <1>2, <1>3 DEF Handed, Waits, ReportTrue
<1>4. CASE d \notin Named(w)
  <2>1. Closed(t, d) /\ x = Answer(t, d) /\ t.ended[d] # 0
    BY <1>4 DEF ResultsTrue, Closed
  <2>2. ~NoHold(m, d)
    BY <1>1, <2>1, LaterTree DEF NoHold
  <2>3. sv[d].heard => Closed(m, d) /\ x = Answer(m, d)
    BY <1>1, <2>1 DEF Known, Same, Closed, Answer
  <2> QED
    BY <1>2, <2>2, <2>3 DEF ReportTrue
<1> QED
  BY <1>3, <1>4

LEMMA CompileStepSound ==
    ASSUME IInv, Compile
    PROVE  Sound(main', pending', run', svc')
<1>1. /\ run.phase = "commit" /\ main' = main /\ pending' = pending /\ svc' = svc
      /\ Sound(main, pending, run, svc)
  BY DEF Compile, IInv
<1>2. run \in Commits /\ Handed(run, main, svc)
  BY <1>1, RunPhases DEF Sound, RunTrue
<1>3. GoodTree(run.base) /\ \A i, j \in DOMAIN run.entries : i # j => run.entries[i] # run.entries[j]
  BY <1>2 DEF Handed, Known
<1>4. PICK order \in readHolds(run.base) :
         \E win \in {admitHeldTakedowns(run.base, order)} :
         \E all \in {Compiled(run, win.spent)} : \E f \in {Ended(run, all, win.admitted, order)} :
            LET results == IF run.live THEN ResultsFor(run, all) ELSE {} IN
            run' = IF f = run.base THEN [phase |-> "report", results |-> results]
                   ELSE [phase |-> "push", base |-> run.base, entries |-> run.entries, live |-> run.live,
                         tries |-> run.tries, handed |-> run.handed, results |-> results,
                         tree |-> Dated(run.base, [f EXCEPT !.n = @ + 1])]
  BY DEF Compile
<1> DEFINE win == admitHeldTakedowns(run.base, order)
           all == Compiled(run, win.spent)
           f == Ended(run, all, win.admitted, order)
           results == IF run.live THEN ResultsFor(run, all) ELSE {}
           u == Dated(run.base, [f EXCEPT !.n = @ + 1])
<1>5. run' = IF f = run.base THEN [phase |-> "report", results |-> results]
             ELSE [phase |-> "push", base |-> run.base, entries |-> run.entries, live |-> run.live,
                   tries |-> run.tries, handed |-> run.handed, results |-> results, tree |-> u]
  BY <1>4
<1>6. /\ Sorted(run.base, order) /\ AdmittedBy(run.base, order, win, Len(order))
      /\ AllTrue(run.base, Named(run), win.spent, all) /\ CommitIs(run.base, win.admitted, all, f)
  <2>1. win = admitHeldTakedowns(run.base, order) /\ all = Compiled(run, win.spent) /\ f = Ended(run, all, win.admitted, order)
    OBVIOUS
  <2> HIDE DEF win, all, f
  <2> QED
    BY <1>2, <1>3, <2>1, CompileFound
<1>7. results = ResultsFor(run, all) \/ results = {}
  OBVIOUS
<1>8. u = Dated(run.base, [f EXCEPT !.n = @ + 1])
  OBVIOUS
<1> HIDE DEF win, all, f, results, u
<1>9. results \subseteq Results /\ IsFiniteSet(results)
  <2>1. run.base \in Trees
    BY <1>3 DEF GoodTree
  <2>2. Copy(f, f)
    BY <1>6 DEF CommitIs, Copy
  <2>3. ResultsFor(run, all) \subseteq Results
    BY <1>2, <1>3, <1>6, <2>2, CommitResults
  <2>4. IsFiniteSet(ResultsFor(run, all))
    BY <1>2, <1>3, <1>6, ResultsFinite
  <2>5. IsFiniteSet({})
    BY FS_EmptySet
  <2> QED
    BY <1>7, <2>3, <2>4, <2>5
<1>10. CASE f = run.base
  <2>1. run' = [phase |-> "report", results |-> results]
    BY <1>5, <1>10
  <2>2. run'.phase = "report" /\ run'.results = results /\ run' \in Reports
    BY <1>9, <2>1 DEF Reports
  <2>3. ResultsTrue(results, run.base, Named(run))
    <3>1. Copy(f, run.base)
      BY <1>3, <1>10 DEF Copy, GoodTree
    <3>2. ResultsTrue(ResultsFor(run, all), run.base, Named(run))
      BY <1>2, <1>3, <1>6, <3>1, CommitResults
    <3> QED
      BY <1>7, <3>2 DEF ResultsTrue
  <2>4. \A x \in results : ReportTrue(x, main, svc)
    BY <1>2, <1>9, <2>3, NothingMade
  <2>5. RunTrue(run', main, svc) /\ RunOK(run')
    BY <1>9, <2>2, <2>4 DEF RunTrue, RunOK
  <2> QED
    BY <1>1, <2>5 DEF Sound
<1>11. CASE f # run.base
  <2>1. run' = [phase |-> "push", base |-> run.base, entries |-> run.entries, live |-> run.live,
                tries |-> run.tries, handed |-> run.handed, results |-> results, tree |-> u]
    BY <1>5, <1>11
  <2>2. /\ u \in Trees /\ u.n = run.base.n + 1 /\ Grown(run.base, u, Named(run))
        /\ ResultsTrue(ResultsFor(run, all), u, Named(run))
        /\ Windowed(run.base, u) /\ InTurn(run.base, u)
    BY <1>2, <1>3, <1>6, <1>8, CommitMade
  <2>3. ResultsTrue(results, u, Named(run))
    BY <1>7, <2>2 DEF ResultsTrue
  <2>4. /\ run' \in Pushes /\ run'.phase = "push" /\ run'.base = run.base /\ run'.entries = run.entries
        /\ run'.results = results /\ run'.tree = u /\ Named(run') = Named(run)
    BY <1>2, <1>9, <2>1, <2>2 DEF Commits, Pushes, Named
  <2>5. CommitTrue(run')
    BY <2>2, <2>3, <2>4 DEF CommitTrue
  <2>6. Handed(run', main, svc)
    BY <1>2, <2>4 DEF Handed
  <2>7. RunTrue(run', main, svc) /\ RunOK(run')
    BY <1>9, <2>4, <2>5, <2>6 DEF RunTrue, RunOK
  <2> QED
    BY <1>1, <2>7 DEF Sound
<1> QED
  BY <1>10, <1>11

LEMMA FaultsTyped ==
    ASSUME TypeOK, NEW n \in Nat, Faults(n)
    PROVE  faults' \in 0..MaxFaults /\ edits' \in 0..MaxEdits
BY Constants DEF TypeOK, Faults

\* What the service makes of the results of one decision.
LEMMA TakenTrue ==
    ASSUME NEW d \in Decisions, svc[d] \in Views, ViewTrue(svc[d], main, d), NEW mine \in SUBSET Results,
           \A x \in mine : x.d = d /\ ReportTrue(x, main, svc),
           \A x, y \in mine : x # y => "held" \in {x.outcome, y.outcome}
    PROVE  /\ Taken(d, mine) \in Views /\ ViewTrue(Taken(d, mine), main, d)
           /\ Taken(d, mine).heard => svc[d].heard \/ main.ended[d] = 0
<1> DEFINE v == svc[d]
           finals == {x \in mine : x.outcome # "held"}
           u == Taken(d, mine)
<1>1. /\ v.state \in {"absent", "listed", "held", "final"} /\ v.heard \in BOOLEAN /\ v.told \in SUBSET Results
      /\ v \in [state : {"absent", "listed", "held", "final"}, heard : BOOLEAN, told : SUBSET Results]
  BY DEF Views
<1>2. CASE finals # {}
  <2>1. PICK x \in mine : x.outcome # "held"
    BY <1>2
  <2>2. finals = {x}
    BY <2>1
  <2>3. u = [v EXCEPT !.told = v.told \cup {x}, !.state = "final"]
    BY <1>2, <2>2 DEF Taken
  <2>4. u.state = "final" /\ u.heard = v.heard /\ u.told = v.told \cup {x} /\ u \in Views
    <3>1. v.told \cup {x} \in SUBSET Results
      BY <1>1
    <3> HIDE DEF v, u
    <3> QED
      BY <1>1, <2>3, <3>1 DEF Views
  <2>5. x.d = d /\ x \in Results /\ ReportTrue(x, main, svc)
    OBVIOUS
  <2>6. v.heard => Closed(main, d) /\ u.told \subseteq {Answer(main, d)}
    <3> SUFFICES ASSUME v.heard PROVE Closed(main, d) /\ u.told \subseteq {Answer(main, d)}
      OBVIOUS
    <3>1. Closed(main, d) /\ x = Answer(main, d)
      BY <2>1, <2>5 DEF ReportTrue
    <3>2. v.told \subseteq {Answer(main, d)}
      BY <3>1 DEF ViewTrue, Closed
    <3> QED
      BY <2>4, <3>1, <3>2
  <2>7. NoHold(main, d) => u.told = {x} /\ BorneOut(x, main)
    BY <2>4, <2>5 DEF ReportTrue
  <2> HIDE DEF u, v
  <2>8. ViewTrue(u, main, d)
    BY <2>4, <2>5, <2>6, <2>7 DEF ViewTrue
  <2> QED
    BY <2>4, <2>8 DEF u, v
<1>3. CASE finals = {} /\ mine # {} /\ v.state = "listed"
  <2>1. u = [v EXCEPT !.heard = (main.ended[d] = 0), !.state = "held"]
    BY <1>3 DEF Taken
  <2>2. u.state = "held" /\ u.heard = (main.ended[d] = 0) /\ u.told = v.told /\ u \in Views
    <3> HIDE DEF v, u
    <3>1. (main.ended[d] = 0) \in BOOLEAN
      OBVIOUS
    <3> QED
      BY <1>1, <2>1, <3>1 DEF Views
  <2>3. v.told = {}
    BY <1>3 DEF ViewTrue
  <2>4. PICK x \in mine : TRUE
    BY <1>3
  <2>5. x.d = d /\ x.outcome = "held" /\ BorneOut(x, main)
    BY <1>3 DEF ReportTrue
  <2>6. ~NoHold(main, d)
    BY <2>5 DEF BorneOut
  <2> HIDE DEF u, v
  <2>7. ViewTrue(u, main, d)
    BY <2>2, <2>3, <2>6 DEF ViewTrue, NoHold
  <2> QED
    BY <2>2, <2>7 DEF u
<1>4. CASE finals = {} /\ ~(mine # {} /\ v.state = "listed")
  <2>1. u = v
    BY <1>4 DEF Taken
  <2> QED
    BY <2>1
<1> QED
  BY <1>2, <1>3, <1>4

LEMMA PostTrue ==
    ASSUME svc \in [Decisions -> Views], \A d \in Decisions : ViewTrue(svc[d], main, d),
           NEW posted \in SUBSET Results, \A x \in posted : ReportTrue(x, main, svc),
           \A x, y \in posted : x # y /\ x.d = y.d => "held" \in {x.outcome, y.outcome}, Post(posted)
    PROVE  /\ svc' \in [Decisions -> Views]
           /\ \A d \in Decisions : /\ ViewTrue(svc'[d], main, d)
                                   /\ svc'[d].heard => svc[d].heard \/ main.ended[d] = 0
                                   /\ svc'[d] = Taken(d, {x \in posted : x.d = d})
<1>1. svc' = [d \in Decisions |-> Taken(d, {x \in posted : x.d = d})]
  BY DEF Post
<1>2. ASSUME NEW d \in Decisions
      PROVE  /\ Taken(d, {x \in posted : x.d = d}) \in Views
             /\ ViewTrue(Taken(d, {x \in posted : x.d = d}), main, d)
             /\ Taken(d, {x \in posted : x.d = d}).heard => svc[d].heard \/ main.ended[d] = 0
  <2> DEFINE mine == {x \in posted : x.d = d}
  <2>1. /\ mine \in SUBSET Results /\ \A x \in mine : x.d = d /\ ReportTrue(x, main, svc)
        /\ \A x, y \in mine : x # y => "held" \in {x.outcome, y.outcome}
    OBVIOUS
  <2>2. svc[d] \in Views /\ ViewTrue(svc[d], main, d)
    OBVIOUS
  <2> HIDE DEF mine
  <2>3. /\ Taken(d, mine) \in Views /\ ViewTrue(Taken(d, mine), main, d)
        /\ Taken(d, mine).heard => svc[d].heard \/ main.ended[d] = 0
    BY <2>1, <2>2, TakenTrue
  <2> QED
    BY <2>3 DEF mine
<1>3. svc' \in [Decisions -> Views]
  BY <1>1, <1>2
<1>4. \A d \in Decisions : svc'[d] = Taken(d, {x \in posted : x.d = d})
  BY <1>1
<1> QED
  BY <1>2, <1>3, <1>4

LEMMA WaitingHeard ==
    ASSUME NEW m, NEW waiting, NEW sv, NEW sv2,
           waiting = {} \/ (\E t \in Trees : waiting = {t} /\ Known(t, m, sv)),
           \A d \in Decisions : sv2[d].heard => sv[d].heard \/ m.ended[d] = 0
    PROVE  waiting = {} \/ (\E t \in Trees : waiting = {t} /\ Known(t, m, sv2))
BY KnownHeard

LEMMA IdleSound ==
    ASSUME NEW m, NEW waiting, NEW w, NEW sv, Sound(m, waiting, w, sv)
    PROVE  Sound(m, waiting, Idle, sv)
<1>1. Idle.phase = "idle"
  BY DEF Idle
<1> QED
  BY <1>1 DEF Sound, RunOK, RunTrue

LEMMA ReportSound ==
    ASSUME IInv, run.phase = "report", NEW lost \in SUBSET run.results, Report(lost)
    PROVE  Sound(main', pending', run', svc') /\ faults' \in 0..MaxFaults /\ edits' \in 0..MaxEdits
<1>1. /\ Sound(main, pending, run, svc) /\ TypeOK
      /\ run' = Idle /\ main' = main /\ pending' = pending /\ Faults(Cardinality(lost))
      /\ IF TwoFinals(run.results) THEN svc' = svc ELSE Post(run.results \ lost)
  BY DEF IInv, Report
<1>2. run \in Reports /\ run.results \subseteq Results /\ IsFiniteSet(run.results)
      /\ \A x \in run.results : ReportTrue(x, main, svc)
  BY <1>1, RunPhases DEF Sound, RunTrue, Reports
<1>3. IsFiniteSet(lost)
  BY <1>2, FS_Subset
<1>4. Cardinality(lost) \in Nat
  BY <1>3, FS_CardinalityType
<1>5. faults' \in 0..MaxFaults /\ edits' \in 0..MaxEdits
  BY <1>1, <1>4, FaultsTyped
<1>6. CASE TwoFinals(run.results)
  BY <1>1, <1>5, <1>6, IdleSound
<1>7. CASE ~TwoFinals(run.results)
  <2> DEFINE posted == run.results \ lost
  <2>1. \A x, y \in posted : x # y /\ x.d = y.d => "held" \in {x.outcome, y.outcome}
    BY <1>7 DEF TwoFinals
  <2>2. posted \in SUBSET Results /\ (\A x \in posted : ReportTrue(x, main, svc)) /\ Post(posted)
    BY <1>1, <1>2, <1>7
  <2> HIDE DEF posted
  <2>3. svc \in [Decisions -> Views] /\ \A d \in Decisions : ViewTrue(svc[d], main, d)
    BY <1>1 DEF Sound
  <2>4. /\ svc' \in [Decisions -> Views]
        /\ \A d \in Decisions : ViewTrue(svc'[d], main, d) /\ (svc'[d].heard => svc[d].heard \/ main.ended[d] = 0)
    BY <2>1, <2>2, <2>3, PostTrue
  <2>5. pending = {} \/ (\E t \in Trees : pending = {t} /\ Known(t, main, svc'))
    BY <1>1, <2>4, WaitingHeard DEF Sound
  <2>6. Idle.phase = "idle"
    BY DEF Idle
  <2> QED
    BY <1>1, <1>5, <2>4, <2>5, <2>6 DEF Sound, RunOK, RunTrue
<1> QED
  BY <1>6, <1>7

\* What a tree's history answers, main bears out.
LEMMA HistoryTrue ==
    ASSUME NEW t, NEW m, NEW sv, Known(t, m, sv), NEW x \in Unsettled(t, t)
    PROVE  /\ x \in Results /\ x.outcome # "held" /\ m.ended[x.d] # 0 /\ x = Answer(t, x.d) /\ ReportTrue(x, m, sv)
<1>1. /\ GoodTree(t) /\ Later(t, m) /\ t \in Trees
      /\ \A d \in Decisions : sv[d].heard /\ t.ended[d] # 0 => Same(t, m, d)
  BY DEF Known, Behind, GoodTree
<1>2. /\ \A d \in Decisions : t.holds[d] # 0 => t.logs[d] = <<>>
      /\ \A d \in Decisions : t.logs[d] = <<>> \/ (\E c \in Nat : t.logs[d] = <<c>>)
      /\ \A d \in Decisions : t.ended[d] \in Nat
  BY <1>1 DEF GoodTree, OnTree, Trees
<1>3. \E d \in Decisions : x = Answer(t, d) /\ t.holds[d] = 0 /\ t.ended[d] # 0
  <2>1. x \in History(t, t)
    BY DEF Unsettled
  <2>2. CASE \E d \in Logged(t) : (t.holds[d] # 0 \/ t.ended[d] # 0) /\ x = Result(d, "applied", Head(t.logs[d]))
    BY <1>2, <2>2 DEF Answer, Logged
  <2>3. CASE \E d \in Decisions \ Logged(t) : t.holds[d] = 0 /\ t.ended[d] # 0 /\ x = Result(d, "cancelled", t.ended[d])
    BY <2>3 DEF Answer, Logged
  <2> QED
    BY <2>1, <2>2, <2>3 DEF History
<1>4. PICK d \in Decisions : x = Answer(t, d) /\ t.holds[d] = 0 /\ t.ended[d] # 0
  BY <1>3
<1>5. \A c \in Nat : <<c>> # <<>> /\ Head(<<c>>) = c
  OBVIOUS
<1>6. x.d = d /\ x \in Results /\ x.outcome # "held" /\ BorneOut(x, t)
  <2>1. CASE t.logs[d] = <<>>
    <3>1. x = [d |-> d, outcome |-> "cancelled", commit |-> t.ended[d]]
      BY <1>4, <2>1 DEF Answer, Result
    <3>2. "cancelled" \in Outcomes /\ t.ended[d] \in Nat
      BY <1>2 DEF Outcomes
    <3> QED
      BY <1>4, <3>1, <3>2 DEF Results, BorneOut, NoHold
  <2>2. CASE t.logs[d] # <<>>
    <3>1. PICK c \in Nat : t.logs[d] = <<c>>
      BY <1>2, <2>2
    <3>2. x = [d |-> d, outcome |-> "applied", commit |-> c]
      BY <1>4, <1>5, <2>2, <3>1 DEF Answer, Result
    <3>3. "applied" \in Outcomes
      BY DEF Outcomes
    <3> QED
      BY <3>1, <3>2, <3>3 DEF Results, BorneOut
  <2> QED
    BY <2>1, <2>2
<1>7. m.ended[d] # 0 /\ ~NoHold(m, d)
  BY <1>1, <1>4, LaterTree DEF NoHold
<1>8. BorneOut(x, m)
  BY <1>1, <1>6, BorneOn
<1>9. sv[d].heard => Closed(m, d) /\ x = Answer(m, d)
  BY <1>1, <1>4 DEF Same, Closed, Answer
<1> QED
  BY <1>4, <1>6, <1>7, <1>8, <1>9 DEF ReportTrue

LEMMA ListSound ==
    ASSUME IInv, NEW base \in pending, NEW order \in SetToSeqs(Listed), NEW posted, posted = Unsettled(base, base),
           NEW lost \in SUBSET posted, NEW unheard \in SUBSET (posted \ lost), List(base, order, posted, lost, unheard)
    PROVE  Sound(main', pending', run', svc') /\ faults' \in 0..MaxFaults /\ edits' \in 0..MaxEdits
<1>1. /\ Sound(main, pending, run, svc) /\ TypeOK /\ Faults(Cardinality(lost \cup unheard))
      /\ run' = [phase |-> "commit", base |-> base, entries |-> order, live |-> TRUE, tries |-> 0,
                 handed |-> Settled(posted, lost, unheard)]
      /\ Post(posted \ lost) /\ pending' = {} /\ main' = main
  BY DEF IInv, List
<1>2. Known(base, main, svc)
  BY <1>1 DEF Sound
<1>3. /\ posted \subseteq Results
      /\ \A x \in posted : /\ x.outcome # "held" /\ main.ended[x.d] # 0 /\ ReportTrue(x, main, svc)
                           /\ x = Answer(base, x.d)
  BY <1>2, HistoryTrue
<1>4. faults' \in 0..MaxFaults /\ edits' \in 0..MaxEdits
  <2>1. IsFiniteSet(posted)
    BY HistoryFinite
  <2>2. lost \cup unheard \subseteq posted
    OBVIOUS
  <2>3. IsFiniteSet(lost \cup unheard)
    BY <2>1, <2>2, FS_Subset
  <2>4. Cardinality(lost \cup unheard) \in Nat
    BY <2>3, FS_CardinalityType
  <2> QED
    BY <1>1, <2>4, FaultsTyped
<1> DEFINE sent == posted \ lost
<1>5. /\ svc \in [Decisions -> Views] /\ \A d \in Decisions : ViewTrue(svc[d], main, d)
  BY <1>1 DEF Sound
<1>6. /\ sent \in SUBSET Results /\ (\A x \in sent : ReportTrue(x, main, svc)) /\ Post(sent)
      /\ \A x, y \in sent : x # y /\ x.d = y.d => "held" \in {x.outcome, y.outcome}
  BY <1>1, <1>3
<1> HIDE DEF sent
<1>7. /\ svc' \in [Decisions -> Views]
      /\ \A d \in Decisions : /\ ViewTrue(svc'[d], main, d) /\ (svc'[d].heard => svc[d].heard \/ main.ended[d] = 0)
                              /\ svc'[d] = Taken(d, {x \in sent : x.d = d})
  BY <1>5, <1>6, PostTrue
<1>8. Known(base, main, svc')
  BY <1>2, <1>7, KnownHeard
<1>9. /\ Len(order) \in Nat /\ order \in [1..Len(order) -> Listed] /\ order \in Seq(Decisions)
      /\ \A i, j \in 1..Len(order) : i # j => order[i] # order[j]
  <2>1. Listed \subseteq Decisions
    BY DEF Listed
  <2>2. IsFiniteSet(Listed)
    BY <2>1, FS_Subset, Constants
  <2>3. /\ Cardinality(Listed) \in Nat /\ order \in [1..Cardinality(Listed) -> Listed] /\ Len(order) = Cardinality(Listed)
        /\ \A i, j \in 1..Len(order) : i # j => order[i] # order[j]
    BY <2>2, EveryOrder
  <2>4. order \in Seq(Decisions)
    BY <2>1, <2>3
  <2> QED
    BY <2>3, <2>4
<1>10. /\ run' \in Commits /\ run'.phase = "commit" /\ run'.base = base /\ run'.entries = order
  <2>1. base \in Trees /\ ATTEMPTS \in Nat
    BY <1>2, Constants DEF Known, GoodTree
  <2>2. Settled(posted, lost, unheard) \in SUBSET Results
    BY <1>3 DEF Settled
  <2> QED
    BY <1>1, <1>9, <2>1, <2>2 DEF Commits
<1>11. ASSUME NEW d \in Listed PROVE Waits(d, main, svc')
  <2>1. d \in Decisions /\ svc[d].state = "listed" /\ ~svc[d].heard /\ svc[d].told = {} /\ svc[d] \in Views
    BY <1>5 DEF Listed, ViewTrue
  <2> DEFINE mine == {x \in sent : x.d = d}
             finals == {x \in mine : x.outcome # "held"}
  <2>2. svc'[d] = Taken(d, mine) /\ finals = mine
    BY <1>3, <1>7, <2>1 DEF sent
  <2>3. CASE mine = {}
    <3>1. svc'[d] = svc[d]
      BY <2>2, <2>3 DEF Taken
    <3> QED
      BY <2>1, <3>1 DEF Waits
  <2>4. CASE mine # {}
    <3>1. main.ended[d] # 0
      BY <1>3, <2>4 DEF sent
    <3>2. ~svc'[d].heard
      BY <1>7, <2>1, <3>1
    <3> QED
      BY <3>1, <3>2 DEF Waits, NoHold
  <2> QED
    BY <2>3, <2>4
<1>12. Handed(run', main, svc')
  <2>1. DOMAIN order = 1..Len(order) /\ Named(run') \subseteq Listed
    BY <1>9, <1>10 DEF Named, Range
  <2> QED
    BY <1>8, <1>9, <1>10, <1>11, <2>1 DEF Handed
<1>13. RunTrue(run', main, svc') /\ RunOK(run')
  BY <1>10, <1>12 DEF RunTrue, RunOK
<1> QED
  BY <1>1, <1>4, <1>7, <1>13 DEF Sound

LEMMA ListFailsSound ==
    ASSUME IInv, ListFails
    PROVE  Sound(main', pending', run', svc') /\ faults' \in 0..MaxFaults /\ edits' \in 0..MaxEdits
<1>1. /\ Sound(main, pending, run, svc) /\ TypeOK /\ Faults(1) /\ pending' = {} /\ main' = main /\ svc' = svc
  BY DEF IInv, ListFails
<1>2. PICK base \in pending :
         run' = [phase |-> "commit", base |-> base, entries |-> <<>>, live |-> FALSE, tries |-> 0, handed |-> {}]
  BY DEF ListFails
<1>3. Known(base, main, svc)
  BY <1>1 DEF Sound
<1>4. /\ run' \in Commits /\ run'.phase = "commit" /\ run'.base = base /\ run'.entries = <<>>
  <2>1. base \in Trees /\ ATTEMPTS \in Nat /\ <<>> \in Seq(Decisions)
    BY <1>3, Constants DEF Known, GoodTree
  <2> QED
    BY <1>2, <2>1 DEF Commits
<1>5. DOMAIN <<>> = {} /\ Named(run') = {}
  BY <1>4 DEF Named, Range
<1>6. Handed(run', main, svc)
  BY <1>3, <1>4, <1>5 DEF Handed
<1>7. RunTrue(run', main, svc) /\ RunOK(run')
  BY <1>4, <1>6 DEF RunTrue, RunOK
<1>8. faults' \in 0..MaxFaults /\ edits' \in 0..MaxEdits
  BY <1>1, FaultsTyped
<1> QED
  BY <1>1, <1>7, <1>8 DEF Sound

LEMMA TriggerSound ==
    ASSUME IInv, Trigger
    PROVE  Sound(main', pending', run', svc')
<1>1. /\ Sound(main, pending, run, svc) /\ pending' = {main} /\ main' = main /\ run' = run /\ svc' = svc
  BY DEF IInv, Trigger
<1>2. GoodTree(main) /\ main \in Trees
  BY <1>1 DEF Sound, GoodTree
<1>3. Known(main, main, svc)
  BY <1>2, KnownSelf
<1>4. \E t \in Trees : pending' = {t} /\ Known(t, main, svc)
  BY <1>1, <1>2, <1>3
<1> QED
  BY <1>1, <1>4 DEF Sound

\* The decisions a run was handed are those the service has not heard the hold of.
LEMMA HandedUnheard ==
    ASSUME NEW w, NEW m, NEW sv, Handed(w, m, sv), NEW d, sv[d].heard
    PROVE  d \notin Named(w)
BY DEF Handed, Waits

\* A run tries again over the main it finds.
LEMMA RedoSound ==
    ASSUME NEW w \in Pushes, w.tries < ATTEMPTS, NEW m, GoodTree(m), NEW sv, Handed(w, m, sv)
    PROVE  RunOK(Redo(w, m)) /\ RunTrue(Redo(w, m), m, sv)
<1> DEFINE r == Redo(w, m)
<1>1. /\ r = [phase |-> "commit", base |-> m, entries |-> w.entries, live |-> w.live, tries |-> w.tries + 1,
              handed |-> w.handed]
  BY DEF Redo
<1>2. w.tries + 1 \in 0..ATTEMPTS /\ m \in Trees
  BY Constants DEF Pushes, GoodTree
<1> HIDE DEF r
<1>3. r \in Commits /\ r.phase = "commit" /\ r.base = m /\ r.entries = w.entries
  BY <1>1, <1>2 DEF Pushes, Commits
<1>4. Known(m, m, sv)
  BY KnownSelf
<1>5. Handed(r, m, sv)
  BY <1>3, <1>4 DEF Handed, Named
<1>6. RunOK(r) /\ RunTrue(r, m, sv)
  BY <1>3, <1>5 DEF RunOK, RunTrue
<1> QED
  BY <1>6 DEF r

\* The commit lands: it was compiled from main as it is.
LEMMA Landed ==
    ASSUME Sound(main, pending, run, svc), run.phase = "push", main.n = run.base.n
    PROVE  /\ run \in Pushes /\ run.base = main /\ CommitTrue(run) /\ Handed(run, main, svc) /\ IsFiniteSet(run.results)
           /\ GoodTree(run.tree)
           /\ pending = {} \/ (\E t \in Trees : pending = {t} /\ Known(t, run.tree, svc))
           /\ \A d \in Decisions : ViewTrue(svc[d], run.tree, d)
           /\ Handed(run, run.tree, svc)
<1>1. /\ run \in Pushes /\ CommitTrue(run) /\ Handed(run, main, svc) /\ IsFiniteSet(run.results)
      /\ GoodTree(main) /\ \A d \in Decisions : ViewTrue(svc[d], main, d)
  BY RunPhases DEF Sound, RunTrue
<1>2. run.base = main
  BY <1>1 DEF Handed, Known, Behind
<1>3. Grown(main, run.tree, Named(run)) /\ run.tree.n = main.n + 1
  BY <1>1, <1>2 DEF CommitTrue
<1>4. \A d \in Decisions : svc[d].heard => d \notin Named(run)
  BY <1>1, HandedUnheard
<1>5. \A t : Known(t, main, svc) => Known(t, run.tree, svc)
  BY <1>1, <1>3, <1>4, KnownStays
<1>6. \A d \in Decisions : ViewTrue(svc[d], run.tree, d)
  BY <1>1, <1>3, <1>4, ViewStays
<1>7. pending = {} \/ (\E t \in Trees : pending = {t} /\ Known(t, run.tree, svc))
  BY <1>5 DEF Sound
<1>8. Named(run) \subseteq Decisions
  BY <1>1 DEF Pushes, Named, Range
<1>9. \A d \in Named(run) : Waits(d, run.tree, svc)
  <2>1. Later(main, run.tree)
    BY <1>3 DEF Grown
  <2> QED
    BY <1>1, <1>8, <2>1, WaitsStays DEF Handed
<1>10. Handed(run, run.tree, svc)
  BY <1>1, <1>5, <1>9 DEF Handed
<1> QED
  BY <1>1, <1>2, <1>3, <1>6, <1>7, <1>10 DEF Grown

LEMMA PushLandsSound ==
    ASSUME IInv, PushLands
    PROVE  Sound(main', pending', run', svc')
<1>1. /\ Sound(main, pending, run, svc) /\ run.phase = "push" /\ main.n = run.base.n /\ main' = run.tree
      /\ run' = [phase |-> "report", results |-> run.results] /\ pending' = pending /\ svc' = svc
  BY DEF IInv, PushLands
<1>2. /\ run \in Pushes /\ run.base = main /\ CommitTrue(run) /\ IsFiniteSet(run.results) /\ GoodTree(run.tree)
      /\ pending = {} \/ (\E t \in Trees : pending = {t} /\ Known(t, run.tree, svc))
      /\ \A d \in Decisions : ViewTrue(svc[d], run.tree, d)
      /\ Handed(run, run.tree, svc)
  BY <1>1, Landed
<1>3. run' \in Reports /\ run'.phase = "report" /\ run'.results = run.results
  BY <1>1, <1>2 DEF Pushes, Reports
<1>4. ASSUME NEW x \in run.results PROVE ReportTrue(x, run.tree, svc)
  <2>1. BorneOut(x, run.tree) /\ (x.d \notin Named(run) => Closed(run.tree, x.d) /\ x = Answer(run.tree, x.d))
    BY <1>2 DEF CommitTrue, ResultsTrue
  <2>2. CASE x.d \in Named(run)
    BY <1>2, <2>1, <2>2 DEF Handed, Waits, ReportTrue
  <2>3. CASE x.d \notin Named(run)
    BY <2>1, <2>3 DEF ReportTrue, Closed, NoHold
  <2> QED
    BY <2>2, <2>3
<1>5. RunTrue(run', run.tree, svc) /\ RunOK(run')
  BY <1>2, <1>3, <1>4 DEF RunTrue, RunOK
<1> QED
  BY <1>1, <1>2, <1>5 DEF Sound

LEMMA IdleTrue ==
    ASSUME NEW m, NEW sv
    PROVE  RunOK(Idle) /\ RunTrue(Idle, m, sv)
BY DEF Idle, RunOK, RunTrue

LEMMA PushUnheardSound ==
    ASSUME IInv, PushUnheard
    PROVE  Sound(main', pending', run', svc') /\ faults' \in 0..MaxFaults /\ edits' \in 0..MaxEdits
<1>1. /\ Sound(main, pending, run, svc) /\ TypeOK /\ run.phase = "push" /\ main.n = run.base.n /\ main' = run.tree
      /\ Faults(1) /\ pending' = pending /\ svc' = svc
      /\ run' = IF run.tries < ATTEMPTS THEN Redo(run, run.tree) ELSE Idle
  BY DEF IInv, PushUnheard, Retry
<1>2. /\ run \in Pushes /\ GoodTree(run.tree)
      /\ pending = {} \/ (\E t \in Trees : pending = {t} /\ Known(t, run.tree, svc))
      /\ \A d \in Decisions : ViewTrue(svc[d], run.tree, d)
      /\ Handed(run, run.tree, svc)
  BY <1>1, Landed
<1>3. RunOK(run') /\ RunTrue(run', run.tree, svc)
  BY <1>1, <1>2, RedoSound, IdleTrue
<1>4. faults' \in 0..MaxFaults /\ edits' \in 0..MaxEdits
  BY <1>1, FaultsTyped
<1> QED
  BY <1>1, <1>2, <1>3, <1>4 DEF Sound

LEMMA PushRejectedSound ==
    ASSUME IInv, PushRejected
    PROVE  Sound(main', pending', run', svc')
<1>1. /\ Sound(main, pending, run, svc) /\ run.phase = "push" /\ main' = main /\ pending' = pending /\ svc' = svc
      /\ run' = IF run.tries < ATTEMPTS THEN Redo(run, main) ELSE Idle
  BY DEF IInv, PushRejected, Retry
<1>2. run \in Pushes /\ Handed(run, main, svc) /\ GoodTree(main)
  BY <1>1, RunPhases DEF Sound, RunTrue
<1>3. RunOK(run') /\ RunTrue(run', main, svc)
  BY <1>1, <1>2, RedoSound, IdleTrue
<1> QED
  BY <1>1, <1>3 DEF Sound

LEMMA CrashSound ==
    ASSUME IInv, Crash
    PROVE  Sound(main', pending', run', svc') /\ faults' \in 0..MaxFaults /\ edits' \in 0..MaxEdits
<1>1. /\ Sound(main, pending, run, svc) /\ TypeOK /\ run' = Idle /\ Faults(1)
      /\ main' = main /\ pending' = pending /\ svc' = svc
  BY DEF IInv, Crash
<1> QED
  BY <1>1, IdleSound, FaultsTyped

-----------------------------------------------------------------------------
(* Moderators, people and time                                                *)

LEMMA DecideSound ==
    ASSUME IInv, NEW d \in Decisions, Decide(d)
    PROVE  Sound(main', pending', run', svc')
<1>1. /\ Sound(main, pending, run, svc) /\ svc[d].state = "absent" /\ svc' = [svc EXCEPT ![d].state = "listed"]
      /\ main' = main /\ pending' = pending /\ run' = run
  BY DEF IInv, Decide
<1>2. svc \in [Decisions -> Views] /\ \A e \in Decisions : ViewTrue(svc[e], main, e)
  BY <1>1 DEF Sound
<1> DEFINE v == [svc[d] EXCEPT !.state = "listed"]
<1>3. v \in Views /\ v.state = "listed" /\ v.heard = svc[d].heard /\ v.told = svc[d].told
  BY <1>2 DEF Views
<1>4. svc' = [svc EXCEPT ![d] = v]
  BY <1>1
<1>5. svc[d].told = {} /\ ~svc[d].heard
  BY <1>1, <1>2 DEF ViewTrue
<1> HIDE DEF v
<1>6. svc' \in [Decisions -> Views] /\ \A e \in Decisions : svc'[e].heard = svc[e].heard /\ svc'[e].told = svc[e].told
  BY <1>2, <1>3, <1>4
<1>7. \A e \in Decisions : ViewTrue(svc'[e], main, e)
  <2>1. ViewTrue(svc'[d], main, d)
    BY <1>2, <1>3, <1>4, <1>5 DEF ViewTrue
  <2>2. \A e \in Decisions \ {d} : svc'[e] = svc[e]
    BY <1>2, <1>4
  <2> QED
    BY <1>2, <2>1, <2>2
<1>8. pending = {} \/ (\E t \in Trees : pending = {t} /\ Known(t, main, svc'))
  BY <1>1, <1>6, WaitingHeard DEF Sound
<1>9. RunTrue(run, main, svc')
  <2>1. RunOK(run) /\ RunTrue(run, main, svc)
    BY <1>1 DEF Sound
  <2>2. ASSUME run.phase \in {"commit", "push"} PROVE Handed(run, main, svc')
    <3>1. Handed(run, main, svc) /\ Named(run) \subseteq Decisions
      BY <2>1, <2>2, RunPhases DEF RunTrue, Named, Range, Commits, Pushes
    <3>2. Known(run.base, main, svc')
      BY <1>6, <3>1, KnownHeard DEF Handed
    <3>3. \A e \in Named(run) : Waits(e, main, svc')
      BY <1>6, <3>1 DEF Handed, Waits
    <3> QED
      BY <3>1, <3>2, <3>3 DEF Handed
  <2>3. ASSUME run.phase = "report", NEW x \in run.results PROVE ReportTrue(x, main, svc')
    <3>1. ReportTrue(x, main, svc) /\ x.d \in Decisions
      BY <2>1, <2>3, RunPhases DEF RunTrue, Reports, Results
    <3> QED
      BY <1>6, <3>1 DEF ReportTrue
  <2> QED
    BY <2>1, <2>2, <2>3 DEF RunTrue
<1> QED
  BY <1>1, <1>6, <1>7, <1>8, <1>9 DEF Sound

LEMMA LandsSound ==
    ASSUME IInv, NEW kind, NEW tree, Grown(main, tree, {}), Lands(kind, tree)
    PROVE  Sound(main', pending', run', svc') /\ faults' \in 0..MaxFaults /\ edits' \in 0..MaxEdits
<1> DEFINE v == [tree EXCEPT !.n = main.n + 1]
           u == Dated(main, v)
<1>1. /\ Sound(main, pending, run, svc) /\ TypeOK /\ edits < MaxEdits /\ edits' = edits + 1 /\ faults' = faults
      /\ main' = u /\ pending' = pending /\ run' = run /\ svc' = svc
  BY DEF IInv, Lands
<1>2. /\ GoodTree(main) /\ main \in Trees /\ tree \in Trees /\ main.n + 1 \in Nat
      /\ \A d \in Decisions : ViewTrue(svc[d], main, d)
  BY <1>1 DEF Sound, Grown, GoodTree, Trees
<1>3. v \in Trees /\ Copy(tree, v) /\ v.n = main.n + 1
  BY <1>2 DEF Trees, Copy
<1> HIDE DEF v
<1>4. Copy(v, u) /\ u.n = v.n
  BY <1>2, <1>3, DatedTree
<1> HIDE DEF u
<1>5. Copy(tree, u) /\ u.n = main.n + 1
  BY <1>3, <1>4 DEF Copy
<1>6. GoodTree(u)
  BY <1>5, GoodCopy DEF Grown
<1>7. Grown(main, u, {})
  BY <1>5, <1>6 DEF Grown, Later, Same, Copy
<1>8. \A d \in Decisions : ViewTrue(svc[d], u, d)
  BY <1>2, <1>7, ViewStays
<1>9. \A t : Known(t, main, svc) => Known(t, u, svc)
  BY <1>2, <1>5, <1>7, KnownStays
<1>10. pending = {} \/ (\E t \in Trees : pending = {t} /\ Known(t, u, svc))
  BY <1>1, <1>9 DEF Sound
<1>11. RunOK(run) /\ RunTrue(run, main, svc)
  BY <1>1 DEF Sound
<1>12. ASSUME run.phase \in {"commit", "push"} PROVE Handed(run, u, svc)
  <2>1. Handed(run, main, svc) /\ Named(run) \subseteq Decisions
    BY <1>11, <1>12, RunPhases DEF RunTrue, Named, Range, Commits, Pushes
  <2>2. Later(main, u)
    BY <1>7 DEF Grown
  <2>3. \A d \in Named(run) : Waits(d, u, svc)
    BY <2>1, <2>2, WaitsStays DEF Handed
  <2> QED
    BY <1>9, <2>1, <2>3 DEF Handed
<1>13. ASSUME run.phase = "report", NEW x \in run.results PROVE ReportTrue(x, u, svc)
  <2>1. ReportTrue(x, main, svc) /\ x.d \in Decisions
    BY <1>11, <1>13, RunPhases DEF RunTrue, Reports, Results
  <2> QED
    BY <1>7, <2>1, ReportStays
<1>14. RunTrue(run, u, svc)
  BY <1>11, <1>12, <1>13 DEF RunTrue
<1>15. faults' \in 0..MaxFaults /\ edits' \in 0..MaxEdits
  BY <1>1, Constants DEF TypeOK
<1> QED
  BY <1>1, <1>6, <1>8, <1>10, <1>11, <1>14, <1>15 DEF Sound

LEMMA HoldsKept ==
    ASSUME NEW t, GoodTree(t), NEW u \in Trees, u.holds = t.holds, u.ended = t.ended, u.logs = t.logs,
           u.confirm \cup u.cancel \subseteq OnTree(t), u.confirm \cap u.cancel = {}
    PROVE  Grown(t, u, {})
BY DEF Grown, GoodTree, Later, Same, OnTree

LEMMA PeopleSound ==
    ASSUME IInv,
           \/ LandOther \/ (\E d \in Decisions : LandConfirm(d) \/ LandCancel(d) \/ LandDeletion(d) \/ LandRevert(d))
           \/ (\E p \in Plugins : LandWithdrawal(p))
    PROVE  Sound(main', pending', run', svc') /\ faults' \in 0..MaxFaults /\ edits' \in 0..MaxEdits
<1>1. /\ GoodTree(main) /\ main \in Trees
      /\ main.confirm \cup main.cancel \subseteq OnTree(main) /\ main.confirm \cap main.cancel = {}
  BY DEF IInv, Sound, GoodTree
<1>2. CASE LandOther
  <2>1. Grown(main, main, {})
    BY <1>1, HoldsKept
  <2> QED
    BY <1>2, <2>1, LandsSound DEF LandOther
<1>3. ASSUME NEW d \in Decisions, LandConfirm(d)
      PROVE  Sound(main', pending', run', svc') /\ faults' \in 0..MaxFaults /\ edits' \in 0..MaxEdits
  <2> DEFINE u == [main EXCEPT !.confirm = main.confirm \cup {d}]
  <2>1. Lands("confirm", u) /\ d \in OnTree(main) /\ d \notin main.cancel
    BY <1>3 DEF LandConfirm, Unanswered
  <2>2. /\ u \in Trees /\ u.holds = main.holds /\ u.ended = main.ended /\ u.logs = main.logs
        /\ u.confirm = main.confirm \cup {d} /\ u.cancel = main.cancel
    <3>1. main.confirm \cup {d} \in SUBSET Decisions
      BY <1>1 DEF Trees
    <3> QED
      BY <1>1, <3>1 DEF Trees
  <2> HIDE DEF u
  <2>3. Grown(main, u, {})
    BY <1>1, <2>1, <2>2, HoldsKept
  <2> QED
    BY <2>1, <2>3, LandsSound
<1>4. ASSUME NEW d \in Decisions, LandCancel(d)
      PROVE  Sound(main', pending', run', svc') /\ faults' \in 0..MaxFaults /\ edits' \in 0..MaxEdits
  <2> DEFINE u == [main EXCEPT !.cancel = main.cancel \cup {d}]
  <2>1. Lands("cancel", u) /\ d \in OnTree(main) /\ d \notin main.confirm
    BY <1>4 DEF LandCancel, Unanswered
  <2>2. /\ u \in Trees /\ u.holds = main.holds /\ u.ended = main.ended /\ u.logs = main.logs
        /\ u.cancel = main.cancel \cup {d} /\ u.confirm = main.confirm
    <3>1. main.cancel \cup {d} \in SUBSET Decisions
      BY <1>1 DEF Trees
    <3> QED
      BY <1>1, <3>1 DEF Trees
  <2> HIDE DEF u
  <2>3. Grown(main, u, {})
    BY <1>1, <2>1, <2>2, HoldsKept
  <2> QED
    BY <2>1, <2>3, LandsSound
<1>5. ASSUME NEW d \in Decisions, LandDeletion(d)
      PROVE  Sound(main', pending', run', svc') /\ faults' \in 0..MaxFaults /\ edits' \in 0..MaxEdits
  <2> DEFINE n == main.n + 1
             u == Deleted(main, {d}, n)
  <2>1. Lands("delete", u) /\ d \in OnTree(main)
    BY <1>5 DEF LandDeletion
  <2>2. n \in Nat /\ n # 0
    BY <1>1 DEF Trees
  <2>3. DeletedIs(main, {d}, n, u)
    <3> HIDE DEF n
    <3> QED
      BY <1>1, <2>2, DeletedTree
  <2> HIDE DEF u, n
  <2>4. GoodTree(u)
    BY <1>1, <2>3 DEF GoodTree, DeletedIs, OnTree
  <2>5. Later(main, u)
    BY <2>2, <2>3 DEF Later, DeletedIs
  <2>6. \A e \in Decisions : /\ main.holds[e] = 0 => Same(main, u, e)
                             /\ main.holds[e] # 0 /\ main.ended[e] = 0 => (u.holds[e] = 0 <=> u.ended[e] # 0)
    BY <2>1, <2>2, <2>3 DEF Same, DeletedIs, OnTree
  <2>7. Grown(main, u, {})
    BY <2>4, <2>5, <2>6 DEF Grown
  <2> QED
    BY <2>1, <2>7, LandsSound
<1>6. ASSUME NEW d \in Decisions, LandRevert(d)
      PROVE  Sound(main', pending', run', svc') /\ faults' \in 0..MaxFaults /\ edits' \in 0..MaxEdits
  <2>1. CASE Lands("revert", [main EXCEPT !.unlisted = @ \ {Plugin[d]}])
    <3> DEFINE u == [main EXCEPT !.unlisted = main.unlisted \ {Plugin[d]}]
    <3>1. /\ u \in Trees /\ u.holds = main.holds /\ u.ended = main.ended /\ u.logs = main.logs
          /\ u.confirm = main.confirm /\ u.cancel = main.cancel
      BY <1>1 DEF Trees
    <3>2. Lands("revert", u)
      BY <2>1
    <3> HIDE DEF u
    <3>3. Grown(main, u, {})
      BY <1>1, <3>1, HoldsKept
    <3> QED
      BY <3>2, <3>3, LandsSound
  <2>2. CASE Lands("revert", [main EXCEPT !.advisories = @ \ {d}])
    <3> DEFINE u == [main EXCEPT !.advisories = main.advisories \ {d}]
    <3>1. /\ u \in Trees /\ u.holds = main.holds /\ u.ended = main.ended /\ u.logs = main.logs
          /\ u.confirm = main.confirm /\ u.cancel = main.cancel
      BY <1>1 DEF Trees
    <3>2. Lands("revert", u)
      BY <2>2
    <3> HIDE DEF u
    <3>3. Grown(main, u, {})
      BY <1>1, <3>1, HoldsKept
    <3> QED
      BY <3>2, <3>3, LandsSound
  <2> QED
    BY <1>6, <2>1, <2>2 DEF LandRevert
<1>7. ASSUME NEW p \in Plugins, LandWithdrawal(p)
      PROVE  Sound(main', pending', run', svc') /\ faults' \in 0..MaxFaults /\ edits' \in 0..MaxEdits
  <2> DEFINE u == [main EXCEPT !.unlisted = main.unlisted \cup {p}]
  <2>1. Lands("withdrawal", u)
    BY <1>7 DEF LandWithdrawal
  <2>2. /\ u \in Trees /\ u.holds = main.holds /\ u.ended = main.ended /\ u.logs = main.logs
        /\ u.confirm = main.confirm /\ u.cancel = main.cancel
    <3>1. main.unlisted \cup {p} \in SUBSET Plugins
      BY <1>1 DEF Trees
    <3> QED
      BY <1>1, <3>1 DEF Trees
  <2> HIDE DEF u
  <2>3. Grown(main, u, {})
    BY <1>1, <2>2, HoldsKept
  <2> QED
    BY <2>1, <2>3, LandsSound
<1> QED
  BY <1>2, <1>3, <1>4, <1>5, <1>6, <1>7

LEMMA HandedOlder ==
    ASSUME NEW w, NEW m, GoodTree(m), NEW sv, Handed(w, m, sv), NEW r, r.base = Older(w.base), r.entries = w.entries
    PROVE  Handed(r, Older(m), sv)
<1>1. Known(Older(w.base), Older(m), sv)
  BY KnownOlder DEF Handed
<1>2. Copy(m, Older(m))
  BY OlderTree DEF GoodTree
<1>3. \A d \in Named(w) : Waits(d, Older(m), sv)
  BY <1>2 DEF Handed, Waits, Copy, NoHold
<1> QED
  BY <1>1, <1>3 DEF Handed, Named

LEMMA CommitOlder ==
    ASSUME NEW w \in Pushes, CommitTrue(w), NEW r, r.base = Older(w.base), r.tree = Older(w.tree),
           r.entries = w.entries, r.results = w.results
    PROVE  CommitTrue(r)
<1> DEFINE t == w.base
           u == w.tree
           t1 == Older(t)
           u1 == Older(u)
<1>1. t \in Trees /\ u \in Trees /\ Named(r) = Named(w)
  BY DEF Pushes, Named
<1>2. Copy(t, t1) /\ t1.n = t.n
  BY <1>1, OlderTree
<1>3. Copy(u, u1) /\ u1.n = u.n /\ Recent(u1) \subseteq Recent(u)
  BY <1>1, OlderTree
<1>4. /\ u.n = t.n + 1 /\ Grown(t, u, Named(w)) /\ ResultsTrue(w.results, u, Named(w))
      /\ Windowed(t, u) /\ InTurn(t, u)
  BY DEF CommitTrue
<1> HIDE DEF t, u, t1, u1
<1>5. GoodTree(u1)
  BY <1>3, <1>4, GoodCopy DEF Grown
<1>6. Later(t1, u1)
  BY <1>2, <1>3, <1>4 DEF Grown, Later, Copy
<1>7. Grown(t1, u1, Named(w))
  <2>1. \A d \in Decisions : Same(t, u, d) => Same(t1, u1, d)
    BY <1>2, <1>3 DEF Same, Copy
  <2>2. \A d \in Decisions : /\ t1.holds[d] = t.holds[d] /\ t1.ended[d] = t.ended[d]
                             /\ u1.holds[d] = u.holds[d] /\ u1.ended[d] = u.ended[d]
    BY <1>2, <1>3 DEF Copy
  <2> QED
    BY <1>4, <1>5, <1>6, <2>1, <2>2 DEF Grown
<1>8. ResultsTrue(w.results, u1, Named(w))
  BY <1>3, <1>4 DEF ResultsTrue, BorneOut, NoHold, Closed, Answer, Copy
<1>9. Windowed(t1, u1)
  <2>1. ByWindow(t1, u1) = ByWindow(t, u) /\ t1.unlisted = t.unlisted /\ u1.unlisted = u.unlisted
    BY <1>2, <1>3 DEF ByWindow, Copy
  <2> SUFFICES ASSUME ByWindow(t, u) # {}
               PROVE  \E d \in ByWindow(t, u) : Cardinality(Recent(u1) \ (Matches[d] \cup (t.unlisted \ u.unlisted))) < BOUND
    BY <2>1 DEF Windowed
  <2>2. PICK d \in ByWindow(t, u) : Cardinality(Recent(u) \ (Matches[d] \cup (t.unlisted \ u.unlisted))) < BOUND
    BY <1>4 DEF Windowed
  <2> DEFINE S == Recent(u) \ (Matches[d] \cup (t.unlisted \ u.unlisted))
             T == Recent(u1) \ (Matches[d] \cup (t.unlisted \ u.unlisted))
  <2>3. S \in SUBSET Plugins /\ T \subseteq S /\ Cardinality(S) < BOUND
    BY <1>3, <2>2 DEF Recent
  <2> HIDE DEF S, T
  <2>4. Cardinality(T) < BOUND
    BY <2>3, Fewer
  <2> QED
    BY <2>4 DEF T
<1>10. InTurn(t1, u1)
  <2>1. OnTree(t1) = OnTree(t) /\ OnTree(u1) = OnTree(u)
    BY <1>2, <1>3 DEF OnTree, Copy
  <2>2. \A d, e : Before(t1, d, e) = Before(t, d, e)
    BY <1>2 DEF Before, Copy
  <2>3. \A d : Refused(u1, NoBatch, d) = Refused(u, NoBatch, d)
    BY <1>3 DEF Refused, Covered, Copy
  <2>4. \A d : (u1.logs[d] # t1.logs[d]) = (u.logs[d] # t.logs[d]) /\ t1.confirm = t.confirm
    BY <1>2, <1>3 DEF Copy
  <2> QED
    BY <1>4, <2>1, <2>2, <2>3, <2>4 DEF InTurn
<1>11. u1.n = t1.n + 1
  BY <1>2, <1>3, <1>4
<1> QED
  BY <1>1, <1>7, <1>8, <1>9, <1>10, <1>11 DEF CommitTrue, t, u, t1, u1

LEMMA TickSound ==
    ASSUME IInv, Tick
    PROVE  Sound(main', pending', run', svc')
<1> DEFINE m == Older(main)
<1>1. /\ Sound(main, pending, run, svc) /\ main' = m /\ pending' = {Older(t) : t \in pending} /\ svc' = svc
      /\ run' = CASE run.phase = "commit" -> [run EXCEPT !.base = Older(@)]
                  [] run.phase = "push" -> [run EXCEPT !.base = Older(@), !.tree = Older(@)]
                  [] OTHER -> run
  BY DEF IInv, Tick
<1>2. /\ GoodTree(main) /\ main \in Trees /\ RunOK(run) /\ RunTrue(run, main, svc)
      /\ svc \in [Decisions -> Views] /\ \A d \in Decisions : ViewTrue(svc[d], main, d)
  BY <1>1 DEF Sound, GoodTree
<1>3. Copy(main, m)
  BY <1>2, OlderTree
<1>4. GoodTree(m)
  BY <1>2, <1>3, GoodCopy
<1>5. \A d \in Decisions : ViewTrue(svc[d], m, d)
  BY <1>2, ViewOlder
<1>6. pending' = {} \/ (\E t \in Trees : pending' = {t} /\ Known(t, m, svc))
  <2>1. CASE pending = {}
    BY <1>1, <2>1
  <2>2. CASE \E t \in Trees : pending = {t} /\ Known(t, main, svc)
    <3>1. PICK t \in Trees : pending = {t} /\ Known(t, main, svc)
      BY <2>2
    <3>2. Known(Older(t), m, svc)
      BY <1>2, <3>1, KnownOlder
    <3>3. pending' = {Older(t)} /\ Older(t) \in Trees
      BY <1>1, <3>1, <3>2 DEF Known, GoodTree
    <3> QED
      BY <3>2, <3>3
  <2> QED
    BY <1>1, <2>1, <2>2 DEF Sound
<1>7. RunOK(run') /\ RunTrue(run', m, svc)
  <2>1. CASE run.phase = "commit"
    <3>1. run \in Commits /\ Handed(run, main, svc)
      BY <1>2, <2>1, RunPhases DEF RunTrue
    <3>2. run' = [run EXCEPT !.base = Older(run.base)]
      BY <1>1, <2>1
    <3>3. Older(run.base) \in Trees
      BY <3>1, OlderTree DEF Commits, Copy
    <3>4. run' \in Commits /\ run'.phase = "commit" /\ run'.base = Older(run.base) /\ run'.entries = run.entries
      BY <3>1, <3>2, <3>3 DEF Commits
    <3>5. Handed(run', m, svc)
      BY <1>2, <3>1, <3>4, HandedOlder
    <3> QED
      BY <3>4, <3>5 DEF RunOK, RunTrue
  <2>2. CASE run.phase = "push"
    <3>1. run \in Pushes /\ Handed(run, main, svc) /\ CommitTrue(run) /\ IsFiniteSet(run.results)
      BY <1>2, <2>2, RunPhases DEF RunTrue
    <3>2. run' = [run EXCEPT !.base = Older(run.base), !.tree = Older(run.tree)]
      BY <1>1, <2>2
    <3>3. Older(run.base) \in Trees /\ Older(run.tree) \in Trees
      BY <3>1, OlderTree DEF Pushes, Copy
    <3>4. /\ run' \in Pushes /\ run'.phase = "push" /\ run'.base = Older(run.base) /\ run'.tree = Older(run.tree)
          /\ run'.entries = run.entries /\ run'.results = run.results
      BY <3>1, <3>2, <3>3 DEF Pushes
    <3>5. Handed(run', m, svc)
      BY <1>2, <3>1, <3>4, HandedOlder
    <3>6. CommitTrue(run')
      BY <3>1, <3>4, CommitOlder
    <3> QED
      BY <3>1, <3>4, <3>5, <3>6 DEF RunOK, RunTrue
  <2>3. CASE run.phase \notin {"commit", "push"}
    <3>1. run' = run
      BY <1>1, <2>3
    <3>2. run.phase = "report" => \A x \in run.results : ReportTrue(x, m, svc)
      BY <1>2, ReportOlder DEF RunTrue
    <3> QED
      BY <1>2, <2>3, <3>1, <3>2 DEF RunTrue
  <2> QED
    BY <2>1, <2>2, <2>3
<1> QED
  BY <1>1, <1>2, <1>4, <1>5, <1>6, <1>7 DEF Sound

-----------------------------------------------------------------------------
(* The invariant                                                              *)

LEMMA SoundTyped ==
    ASSUME NEW m, NEW waiting, NEW w, NEW sv, Sound(m, waiting, w, sv)
    PROVE  /\ m \in Trees /\ m.confirm \cup m.cancel \subseteq OnTree(m)
           /\ waiting \subseteq Trees /\ Cardinality(waiting) <= 1
           /\ w = Idle \/ w \in Commits \/ w \in Pushes \/ w \in Reports
           /\ sv \in [Decisions -> Views]
<1>1. m \in Trees /\ m.confirm \cup m.cancel \subseteq OnTree(m)
  BY DEF Sound, GoodTree
<1>2. waiting \subseteq Trees /\ Cardinality(waiting) <= 1
  <2>1. CASE waiting = {}
    <3>1. Cardinality({}) = 0
      BY FS_EmptySet
    <3> QED
      BY <2>1, <3>1
  <2>2. CASE \E t \in Trees : waiting = {t}
    <3>1. PICK t \in Trees : waiting = {t}
      BY <2>2
    <3>2. Cardinality({t}) = 1
      BY FS_Singleton
    <3> QED
      BY <3>1, <3>2
  <2> QED
    BY <2>1, <2>2 DEF Sound
<1> QED
  BY <1>1, <1>2 DEF Sound, RunOK

LEMMA Starts ==
    ASSUME Init
    PROVE  IInv
<1>1. /\ main = EmptyTree /\ pending = {} /\ run = Idle /\ faults = 0 /\ edits = 0
      /\ svc = [d \in Decisions |-> [state |-> "absent", heard |-> FALSE, told |-> {}]]
  BY DEF Init
<1>2. 0 \in 0..WINDOW /\ 0 \in 0..MaxFaults /\ 0 \in 0..MaxEdits
  BY Constants
<1>3. main \in Trees /\ \A d \in Decisions : main.holds[d] = 0 /\ main.ended[d] = 0 /\ main.logs[d] = <<>>
  <2>1. <<>> \in Seq(Nat)
    OBVIOUS
  <2> QED
    BY <1>1, <1>2, <2>1 DEF EmptyTree, Trees
<1>4. main.confirm = {} /\ main.cancel = {}
  BY <1>1 DEF EmptyTree
<1>5. GoodTree(main)
  BY <1>3, <1>4 DEF GoodTree, OnTree
<1>6. svc \in [Decisions -> Views] /\ \A d \in Decisions : ViewTrue(svc[d], main, d)
  <2> DEFINE v == [state |-> "absent", heard |-> FALSE, told |-> {}]
  <2>1. v \in Views /\ v.state = "absent" /\ v.heard = FALSE /\ v.told = {}
    BY DEF Views
  <2>2. svc = [d \in Decisions |-> v]
    BY <1>1
  <2> HIDE DEF v
  <2> QED
    BY <2>1, <2>2 DEF ViewTrue
<1>7. Sound(main, pending, run, svc)
  BY <1>1, <1>5, <1>6, IdleTrue DEF Sound
<1> QED
  BY <1>1, <1>2, <1>7, SoundTyped DEF IInv, TypeOK

LEMMA KeepsCounts ==
    ASSUME TypeOK, UNCHANGED <<faults, edits>>
    PROVE  faults' \in 0..MaxFaults /\ edits' \in 0..MaxEdits
BY DEF TypeOK

LEMMA Continues ==
    ASSUME IInv, [Next]_vars
    PROVE  IInv'
<1> DEFINE Goal == Sound(main', pending', run', svc') /\ faults' \in 0..MaxFaults /\ edits' \in 0..MaxEdits
<1>1. ASSUME Goal PROVE IInv'
  <2>1. /\ main' \in Trees /\ main'.confirm \cup main'.cancel \subseteq OnTree(main')
        /\ pending' \subseteq Trees /\ Cardinality(pending') <= 1
        /\ run' = Idle \/ run' \in Commits \/ run' \in Pushes \/ run' \in Reports
        /\ svc' \in [Decisions -> Views]
    BY <1>1, SoundTyped
  <2> QED
    BY <1>1, <2>1 DEF IInv, TypeOK
<1> SUFFICES Goal
  BY <1>1
<1>2. UNCHANGED <<faults, edits>> => faults' \in 0..MaxFaults /\ edits' \in 0..MaxEdits
  BY KeepsCounts DEF IInv
<1>3. CASE Trigger
  BY <1>2, <1>3, TriggerSound DEF Trigger
<1>4. CASE Step
  <2>1. CASE \E base \in pending, order \in SetToSeqs(Listed) : \E posted \in {Unsettled(base, base)} :
                \E lost \in SUBSET posted : \E unheard \in SUBSET (posted \ lost) : List(base, order, posted, lost, unheard)
    <3>1. PICK base \in pending, order \in SetToSeqs(Listed) : \E posted \in {Unsettled(base, base)} :
             \E lost \in SUBSET posted : \E unheard \in SUBSET (posted \ lost) : List(base, order, posted, lost, unheard)
      BY <2>1
    <3>2. PICK posted \in {Unsettled(base, base)} :
             \E lost \in SUBSET posted : \E unheard \in SUBSET (posted \ lost) : List(base, order, posted, lost, unheard)
      BY <3>1
    <3>3. PICK lost \in SUBSET posted : \E unheard \in SUBSET (posted \ lost) : List(base, order, posted, lost, unheard)
      BY <3>2
    <3>4. PICK unheard \in SUBSET (posted \ lost) : List(base, order, posted, lost, unheard)
      BY <3>3
    <3>5. posted = Unsettled(base, base)
      BY <3>2
    <3> QED
      BY <3>4, <3>5, ListSound
  <2>2. CASE ListFails
    BY <2>2, ListFailsSound
  <2>3. CASE Compile
    BY <1>2, <2>3, CompileStepSound DEF Compile
  <2>4. CASE PushLands
    BY <1>2, <2>4, PushLandsSound DEF PushLands
  <2>5. CASE PushUnheard
    BY <2>5, PushUnheardSound
  <2>6. CASE PushRejected
    BY <1>2, <2>6, PushRejectedSound DEF PushRejected
  <2>7. CASE run.phase = "report" /\ \E lost \in SUBSET run.results : Report(lost)
    BY <2>7, ReportSound
  <2> QED
    BY <1>4, <2>1, <2>2, <2>3, <2>4, <2>5, <2>6, <2>7 DEF Step
<1>5. CASE Crash
  BY <1>5, CrashSound
<1>6. CASE Tick
  BY <1>2, <1>6, TickSound DEF Tick
<1>7. CASE LandOther \/ (\E d \in Decisions : LandConfirm(d) \/ LandCancel(d) \/ LandDeletion(d) \/ LandRevert(d))
           \/ (\E p \in Plugins : LandWithdrawal(p))
  BY <1>7, PeopleSound
<1>8. CASE \E d \in Decisions : Decide(d)
  BY <1>2, <1>8, DecideSound DEF Decide
<1>9. CASE UNCHANGED vars
  <2>1. main' = main /\ pending' = pending /\ run' = run /\ svc' = svc /\ UNCHANGED <<faults, edits>>
    BY <1>9 DEF vars
  <2> QED
    BY <1>2, <2>1 DEF IInv
<1> HIDE DEF Goal
<1> QED
  BY <1>3, <1>4, <1>5, <1>6, <1>7, <1>8, <1>9 DEF Next

\* Only a run's push applies a decision, and its commit is on main as it is.
LEMMA CommitLands ==
    ASSUME IInv, [Next]_vars, NEW d \in Decisions, main'.logs[d] # main.logs[d]
    PROVE  InTurn(main, main') /\ Windowed(main, main')
<1>1. Sound(main, pending, run, svc) /\ GoodTree(main) /\ main \in Trees
  BY DEF IInv, Sound, GoodTree
<1>2. CASE run.phase = "push" /\ main.n = run.base.n /\ main' = run.tree
  <2>1. run.base = main /\ CommitTrue(run)
    BY <1>1, <1>2, Landed
  <2> QED
    BY <1>2, <2>1 DEF CommitTrue
<1>3. ASSUME NEW kind, NEW tree \in Trees, tree.logs = main.logs, Lands(kind, tree) PROVE FALSE
  <2> DEFINE v == [tree EXCEPT !.n = main.n + 1]
  <2>1. main.n + 1 \in Nat
    BY <1>1 DEF Trees
  <2>2. v \in Trees /\ v.logs = main.logs
    BY <1>3, <2>1 DEF Trees
  <2>3. main' = Dated(main, v)
    BY <1>3 DEF Lands
  <2> HIDE DEF v
  <2>4. main'.logs = main.logs
    BY <1>1, <2>2, <2>3, DatedTree DEF Copy
  <2> QED
    BY <2>4
<1>4. CASE LandOther
  BY <1>1, <1>3, <1>4 DEF LandOther
<1>5. ~(\E e \in Decisions : LandConfirm(e))
  <2> SUFFICES ASSUME NEW e \in Decisions, LandConfirm(e) PROVE FALSE
    OBVIOUS
  <2> DEFINE u == [main EXCEPT !.confirm = main.confirm \cup {e}]
  <2>1. main.confirm \cup {e} \in SUBSET Decisions
    BY <1>1 DEF Trees
  <2>2. u \in Trees /\ u.logs = main.logs
    BY <1>1, <2>1 DEF Trees
  <2>3. Lands("confirm", u)
    BY DEF LandConfirm
  <2> HIDE DEF u
  <2> QED
    BY <1>3, <2>2, <2>3
<1>6. ~(\E e \in Decisions : LandCancel(e))
  <2> SUFFICES ASSUME NEW e \in Decisions, LandCancel(e) PROVE FALSE
    OBVIOUS
  <2> DEFINE u == [main EXCEPT !.cancel = main.cancel \cup {e}]
  <2>1. main.cancel \cup {e} \in SUBSET Decisions
    BY <1>1 DEF Trees
  <2>2. u \in Trees /\ u.logs = main.logs
    BY <1>1, <2>1 DEF Trees
  <2>3. Lands("cancel", u)
    BY DEF LandCancel
  <2> HIDE DEF u
  <2> QED
    BY <1>3, <2>2, <2>3
<1>7. ~(\E e \in Decisions : LandDeletion(e))
  <2> SUFFICES ASSUME NEW e \in Decisions, LandDeletion(e) PROVE FALSE
    OBVIOUS
  <2> DEFINE n == main.n + 1
             u == Deleted(main, {e}, n)
  <2>1. n \in Nat
    BY <1>1 DEF Trees
  <2>2. Lands("delete", u)
    BY DEF LandDeletion
  <2> HIDE DEF n
  <2>3. DeletedIs(main, {e}, n, u)
    BY <1>1, <2>1, DeletedTree
  <2> HIDE DEF u
  <2> QED
    BY <1>3, <2>2, <2>3 DEF DeletedIs
<1>8. ~(\E e \in Decisions : LandRevert(e))
  <2> SUFFICES ASSUME NEW e \in Decisions, LandRevert(e) PROVE FALSE
    OBVIOUS
  <2> DEFINE u == [main EXCEPT !.unlisted = main.unlisted \ {Plugin[e]}]
             v == [main EXCEPT !.advisories = main.advisories \ {e}]
  <2>1. u \in Trees /\ u.logs = main.logs /\ v \in Trees /\ v.logs = main.logs
    BY <1>1 DEF Trees
  <2>2. Lands("revert", u) \/ Lands("revert", v)
    BY DEF LandRevert
  <2> HIDE DEF u, v
  <2> QED
    BY <1>3, <2>1, <2>2
<1>9. ~(\E p \in Plugins : LandWithdrawal(p))
  <2> SUFFICES ASSUME NEW p \in Plugins, LandWithdrawal(p) PROVE FALSE
    OBVIOUS
  <2> DEFINE u == [main EXCEPT !.unlisted = main.unlisted \cup {p}]
  <2>1. main.unlisted \cup {p} \in SUBSET Plugins
    BY <1>1 DEF Trees
  <2>2. u \in Trees /\ u.logs = main.logs
    BY <1>1, <2>1 DEF Trees
  <2>3. Lands("withdrawal", u)
    BY DEF LandWithdrawal
  <2> HIDE DEF u
  <2> QED
    BY <1>3, <2>2, <2>3
<1>10. ~Tick
  <2>1. Copy(main, Older(main))
    BY <1>1, OlderTree
  <2> QED
    BY <2>1 DEF Tick, Copy
<1>11. CASE Step
  <2>1. main' # main
    OBVIOUS
  <2> QED
    BY <1>2, <1>11, <2>1 DEF Step, List, ListFails, Compile, PushLands, PushUnheard, PushRejected, Report
<1>12. CASE Trigger \/ Crash \/ (\E e \in Decisions : Decide(e)) \/ UNCHANGED vars
  BY <1>12 DEF Trigger, Crash, Decide, vars
<1> QED
  BY <1>4, <1>5, <1>6, <1>7, <1>8, <1>9, <1>10, <1>11, <1>12 DEF Next

\* Whatever a run pushes is compiled from main as it is when the commit lands.
THEOREM ModerationInvariance == Spec => []IInv
<1>1. Init => IInv
  BY Starts
<1>2. IInv /\ [Next]_vars => IInv'
  BY Continues
<1> QED
  BY <1>1, <1>2, PTL DEF Spec

\* Every state is a state of the declared type.
THEOREM ModerationTypeOK == Spec => []TypeOK
<1>1. IInv => TypeOK
  BY DEF IInv
<1> QED
  BY <1>1, ModerationInvariance, PTL

\* R1: however often a decision is listed, pushed unheard or reported again,
\* one commit at most applies it.
THEOREM OneApplication == Spec => []AppliedOnce
<1>1. IInv => AppliedOnce
  <2> SUFFICES ASSUME IInv, NEW d \in Decisions PROVE Len(main.logs[d]) <= 1
    BY DEF AppliedOnce
  <2>1. main.logs[d] = <<>> \/ \E c \in Nat : main.logs[d] = <<c>>
    BY DEF IInv, Sound, GoodTree
  <2>2. CASE main.logs[d] = <<>>
    BY <2>2
  <2>3. CASE \E c \in Nat : main.logs[d] = <<c>>
    BY <2>3
  <2> QED
    BY <2>1, <2>2, <2>3
<1> QED
  BY <1>1, ModerationInvariance, PTL

\* BOT-81: the service, once it has heard of a hold, is given one final result,
\* and it is what main's history shows.
THEOREM FinalResults == Spec => []FinalIsTrue
<1>1. IInv => FinalIsTrue
  <2> SUFFICES ASSUME IInv, NEW d \in Decisions, Heard(d)
               PROVE  /\ Cardinality(svc[d].told) <= 1
                      /\ \A x \in svc[d].told : CASE x.outcome = "applied" -> main.logs[d] = <<x.commit>>
                                                  [] x.outcome = "cancelled" -> main.logs[d] = <<>>
                                                  [] OTHER -> TRUE
    BY DEF FinalIsTrue
  <2>1. GoodTree(main) /\ ViewTrue(svc[d], main, d) /\ svc[d] \in Views
    BY DEF IInv, Sound
  <2>2. svc[d].told = {} \/ \E x \in Results : svc[d].told = {x}
    <3>1. CASE NoHold(main, d)
      BY <2>1, <3>1 DEF ViewTrue
    <3>2. CASE ~NoHold(main, d)
      <4>1. svc[d].told \subseteq {Answer(main, d)} /\ svc[d].told \subseteq Results
        BY <2>1, <3>2 DEF Heard, NoHold, ViewTrue, Views
      <4> QED
        BY <4>1
    <3> QED
      BY <3>1, <3>2
  <2>3. ASSUME NEW x \in svc[d].told
        PROVE  CASE x.outcome = "applied" -> main.logs[d] = <<x.commit>>
                 [] x.outcome = "cancelled" -> main.logs[d] = <<>>
                 [] OTHER -> TRUE
    <3>1. CASE NoHold(main, d)
      <4>1. x.d = d /\ BorneOut(x, main)
        BY <2>1, <3>1 DEF ViewTrue
      <4> QED
        BY <3>1, <4>1 DEF BorneOut
    <3>2. CASE ~NoHold(main, d)
      <4>1. x = Answer(main, d)
        BY <2>1, <3>2 DEF Heard, NoHold, ViewTrue
      <4>2. CASE main.logs[d] = <<>>
        BY <4>1, <4>2 DEF Answer, Result
      <4>3. CASE main.logs[d] # <<>>
        <5>1. PICK c \in Nat : main.logs[d] = <<c>>
          BY <2>1, <4>3 DEF GoodTree
        <5>2. x = Result(d, "applied", c)
          BY <4>1, <4>3, <5>1 DEF Answer
        <5> QED
          BY <5>1, <5>2 DEF Result
      <4> QED
        BY <4>2, <4>3
    <3> QED
      BY <3>1, <3>2
  <2>4. Cardinality(svc[d].told) <= 1
    <3>1. Cardinality({}) = 0
      BY FS_EmptySet
    <3>2. ASSUME NEW x \in Results, svc[d].told = {x} PROVE Cardinality(svc[d].told) = 1
      BY <3>2, FS_Singleton
    <3>3. CASE svc[d].told = {}
      BY <3>1, <3>3
    <3> QED
      BY <2>2, <3>2, <3>3
  <2> QED
    BY <2>3, <2>4
<1> QED
  BY <1>1, ModerationInvariance, PTL

\* MOD-9: a run's commit is compiled from the main it lands on, and there no
\* takedown the window applied went before an older hold that could be released.
THEOREM HoldsKeepTheirTurn == Spec => NoOvertaking
<1>1. IInv /\ [Next]_vars => [\A d \in Decisions : ByTheWindow(d) =>
                               \A e \in OnTree(main) \cap OnTree(main') :
                                  (d \notin OnTree(main) \/ Before(main, e, d)) => Refused(main', NoBatch, e)]_vars
  <2> SUFFICES ASSUME IInv, [Next]_vars, NEW d \in Decisions, ByTheWindow(d),
                      NEW e \in OnTree(main) \cap OnTree(main'), d \notin OnTree(main) \/ Before(main, e, d)
               PROVE  Refused(main', NoBatch, e)
    OBVIOUS
  <2>1. InTurn(main, main')
    BY CommitLands DEF ByTheWindow, Applies
  <2> QED
    BY <2>1 DEF InTurn, ByTheWindow, Applies
<1> QED
  BY <1>1, ModerationInvariance, PTL DEF Spec, NoOvertaking

\* TRUST-26: the takedowns a commit applies that no operator confirmed can be put
\* in an order in which each found the window under the bound, whatever it matches
\* itself and whoever withdraws beside the run: what passes the bound is what the
\* last of them matches, or what the same commit gave back.
THEOREM BoundKept == Spec => LastHadRoom
<1>1. IInv /\ [Next]_vars =>
        [(\E d \in Decisions : ByTheWindow(d)) =>
            \E d \in Decisions : ByTheWindow(d) /\ Cardinality(Recent(main') \ (Matches[d] \cup GivenBack)) < BOUND]_vars
  <2> SUFFICES ASSUME IInv, [Next]_vars, NEW e \in Decisions, ByTheWindow(e)
               PROVE  \E d \in Decisions : ByTheWindow(d) /\ Cardinality(Recent(main') \ (Matches[d] \cup GivenBack)) < BOUND
    OBVIOUS
  <2>1. Windowed(main, main')
    BY CommitLands DEF ByTheWindow, Applies
  <2>2. ByWindow(main, main') = {d \in Decisions : ByTheWindow(d)}
    BY DEF ByWindow, ByTheWindow, Applies
  <2>3. PICK d \in ByWindow(main, main') :
           Cardinality(Recent(main') \ (Matches[d] \cup (main.unlisted \ main'.unlisted))) < BOUND
    BY <2>1, <2>2 DEF Windowed
  <2> QED
    BY <2>2, <2>3 DEF GivenBack
<1> QED
  BY <1>1, ModerationInvariance, PTL DEF Spec, LastHadRoom
=============================================================================
