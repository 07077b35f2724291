------------------------------ MODULE Moderation ------------------------------
(* Moderation runs: plugins-moderation.yml asks the plugins service for the   *)
(* decisions moderators took, compiles them into one commit against the tree, *)
(* holds the takedowns that TRUST-26's bound has no room for, releases older  *)
(* holds as the window makes room, and tells the service what became of each. *)
(*                                                                            *)
(* One run is under way at a time and one waits, at the commit it was         *)
(* triggered at.  A result reaches the service from the run that pushed, or   *)
(* from any later one that reads the commit in history.                       *)
(*                                                                            *)
(* main is its tip and what git's history says of each decision: the commits  *)
(* that logged it, the one that entered its hold and the last that deleted it.*)
(* Left out: yanks, appeals, reviews, corrections and identity resets; the    *)
(* holds of unbound listings; submissions' stops and passkey acts; a person's *)
(* log entry in the commit that deletes a hold.                               *)
EXTENDS Integers, Sequences, FiniteSets, SequencesExt

CONSTANTS
    Decisions,  \* what moderators decide, numbered by service_decision_id
    Plugins,    \* listings
    Kind,       \* of each decision: "delist", "revoke" or "relist"
    Plugin,     \* the listing each is about
    Matches,    \* the listings each acts on: an account's revoke, its siblings too
    Edits,      \* the kinds of commit people land on main
    BOUND,      \* TAKEDOWN_BOUND
    WINDOW,     \* WINDOW_HOURS
    ATTEMPTS,   \* tries against a main that moved
    MaxFaults,  \* bound: lost calls, dead jobs and shadow answers
    MaxEdits    \* bound: people's commits

ASSUME ModerationAssumption ==
    /\ Decisions \subseteq Nat /\ IsFiniteSet(Decisions) /\ IsFiniteSet(Plugins)
    /\ Kind \in [Decisions -> {"delist", "revoke", "relist"}] /\ Plugin \in [Decisions -> Plugins]
    /\ Matches \in [Decisions -> SUBSET Plugins]
    /\ \A d \in Decisions : Plugin[d] \in Matches[d] /\ (Kind[d] # "revoke" => Matches[d] = {Plugin[d]})
    /\ BOUND \in Nat /\ WINDOW \in Nat \ {0} /\ ATTEMPTS \in Nat
    /\ MaxFaults \in Nat /\ MaxEdits \in Nat

VARIABLES
    main,     \* the tip of main
    pending,  \* the run that waits: the tips it may start at, none or one
    run,      \* the run under way
    svc,      \* the service: what it believes of each decision
    faults,   \* the faults so far
    edits     \* the commits people have landed

vars == <<main, pending, run, svc, faults, edits>>

-----------------------------------------------------------------------------
Outcomes == {"applied", "refused", "cancelled", "held"}

\* A result; `commit` is 0 where it names none (BOT-82's key is all three).
Results == [d : Decisions, outcome : Outcomes, commit : Nat]
Result(d, outcome, commit) == [d |-> d, outcome |-> outcome, commit |-> commit]

\* The tree at commit n: the holds, by the commit that entered each, with the
\* records that answer them; the commits that logged each decision and the last
\* that deleted its hold; the listings off the catalogue and the revokes whose
\* advisory stands; the ticks each withdrawal has left in the window; the settled
\* record.
Trees == [n : Nat, holds : [Decisions -> Nat], confirm : SUBSET Decisions, cancel : SUBSET Decisions,
          logs : [Decisions -> Seq(Nat)], ended : [Decisions -> Nat], unlisted : SUBSET Plugins,
          advisories : SUBSET Decisions, left : [Plugins -> 0..WINDOW], settled : SUBSET Results]

OnTree(t) == {d \in Decisions : t.holds[d] # 0}
Logged(t) == {d \in Decisions : t.logs[d] # <<>>}
Recent(t) == {p \in Plugins : t.left[p] > 0}
Covered(t) == UNION {Matches[d] : d \in t.advisories}

Views == [state : {"absent", "listed", "held", "final"}, heard : BOOLEAN, told : SUBSET Results]

\* A run compiles the decisions it was handed against a base, pushes the commit
\* it made, and reports.
Idle == [phase |-> "idle"]
Commits == [phase : {"commit"}, base : Trees, entries : Seq(Decisions), live : BOOLEAN, tries : 0..ATTEMPTS,
            handed : SUBSET Results]
Pushes == [phase : {"push"}, base : Trees, entries : Seq(Decisions), live : BOOLEAN, tries : 0..ATTEMPTS,
           handed : SUBSET Results, results : SUBSET Results, tree : Trees]
Reports == [phase : {"report"}, results : SUBSET Results]

TypeOK ==
    /\ main \in Trees /\ main.confirm \cup main.cancel \subseteq OnTree(main)
    /\ pending \subseteq Trees /\ Cardinality(pending) <= 1
    /\ run = Idle \/ run \in Commits \/ run \in Pushes \/ run \in Reports
    /\ svc \in [Decisions -> Views]
    /\ faults \in 0..MaxFaults /\ edits \in 0..MaxEdits

-----------------------------------------------------------------------------
(* One decision against a tree                                                *)

isTakedown(d) == Kind[d] \in {"delist", "revoke"}
NoBatch == [unlisted |-> {}, relisted |-> {}]

\* What the compile refuses: a delist of what is off already, here or in the
\* batch; a relist of what is listed, moved in the batch, or under an advisory.
Refused(t, batch, d) ==
    LET p == Plugin[d] IN
    \/ Kind[d] = "delist" /\ p \in t.unlisted \cup batch.unlisted
    \/ Kind[d] = "relist" /\ (p \notin t.unlisted \/ p \in batch.unlisted \cup batch.relisted \cup Covered(t))

InBatch(batch, d) ==
    CASE Kind[d] = "delist" -> [batch EXCEPT !.unlisted = @ \cup {Plugin[d]}]
      [] Kind[d] = "relist" -> [batch EXCEPT !.relisted = @ \cup {Plugin[d]}]
      [] OTHER -> batch

\* Its edit or advisory, and its log entry.
Effect(t, d, n) ==
    LET u == [t EXCEPT !.logs[d] = Append(@, n)] IN
    CASE Kind[d] = "delist" -> [u EXCEPT !.unlisted = @ \cup {Plugin[d]}]
      [] Kind[d] = "relist" -> [u EXCEPT !.unlisted = @ \ {Plugin[d]}]
      [] Kind[d] = "revoke" -> [u EXCEPT !.advisories = @ \cup {d}]

\* Mutant: the confirm record is left behind.
DeletedEntryOnly(t, ds, n) ==
    [t EXCEPT !.holds = [d \in Decisions |-> IF d \in ds THEN 0 ELSE @[d]],
              !.ended = [d \in Decisions |-> IF d \in ds THEN n ELSE @[d]]]

\* Hold entries leave the tree, with the records that answer them.
Deleted(t, ds, n) ==
    [t EXCEPT !.holds = [d \in Decisions |-> IF d \in ds THEN 0 ELSE @[d]],
              !.ended = [d \in Decisions |-> IF d \in ds THEN n ELSE @[d]],
              !.confirm = @ \ ds, !.cancel = @ \ ds]

Release(t, d, n) == Deleted(Effect(t, d, n), {d}, n)

-----------------------------------------------------------------------------
(* The bound as a run spends it                                               *)

\* overBound, withdrawnBy: at the bound the next takedown is held, and one below
\* it goes however many listings it withdraws: each listed one it matches.
Over(spent) == Cardinality(spent) >= BOUND
withdrawnBy(t, d) == IF isTakedown(d) THEN Matches[d] \ t.unlisted ELSE {}
Spent(t, d) == IF Refused(t, NoBatch, d) THEN {} ELSE withdrawnBy(t, d)

\* The holds by age, those of one commit by id: the one such order, as a set;
\* Mutant: newest first.
Before(t, d, e) == t.holds[d] < t.holds[e] \/ (t.holds[d] = t.holds[e] /\ d < e)
NewestFirst(t) == {order \in SetToSeqs(OnTree(t)) : \A i, j \in DOMAIN order : i < j => Before(t, order[j], order[i])}
readHolds(t) == {order \in SetToSeqs(OnTree(t)) : \A i, j \in DOMAIN order : i < j => Before(t, order[i], order[j])}

\* The holds that still wait: not cancelled, and not of a decision the log has.
Waiting(t) == OnTree(t) \ (t.cancel \cup Logged(t))

Confirmed(t) == Waiting(t) \cap t.confirm

\* One hold's turn: admitted and spent while there is room.
Admit(t, acc, d) ==
    IF d \notin Waiting(t) \ Confirmed(t) \/ Over(acc.spent) THEN acc
    ELSE [spent |-> acc.spent \cup Spent(t, d), admitted |-> acc.admitted \cup {d}]

\* The confirmed holds are spent first, whatever the bound says; then the others.
admitHeldTakedowns(t, order) ==
    LET after[i \in 0..Len(order)] ==
            IF i = 0 THEN [spent |-> Recent(t) \cup UNION {Spent(t, d) : d \in Confirmed(t)}, admitted |-> {}]
            ELSE Admit(t, after[i - 1], order[i])
    IN  after[Len(order)]

\* One decision's turn, with what the batch and the ledger make of those before
\* it; `tree` is what it is written to.
CompileOne(t, fresh, acc, d) ==
    IF d \notin fresh THEN acc
    ELSE IF isTakedown(d) /\ Over(acc.spent) THEN [acc EXCEPT !.held = @ \cup {d}]
    ELSE IF Refused(t, acc.batch, d) THEN [acc EXCEPT !.refused = @ \cup {d}]
    ELSE [acc EXCEPT !.compiled = @ \cup {d}, !.batch = InBatch(@, d),
                     !.spent = @ \cup withdrawnBy(t, d), !.tree = Effect(@, d, t.n + 1)]

\* compileAll: the listed decisions, in the service's order, against one tree.
compileAll(t, fresh, entries, spent) ==
    LET after[i \in 0..Len(entries)] ==
            IF i = 0 THEN [tree |-> t, batch |-> NoBatch, spent |-> spent, compiled |-> {}, held |-> {}, refused |-> {}]
            ELSE CompileOne(t, fresh, after[i - 1], entries[i])
    IN  after[Len(entries)]

\* releaseHolds: a release that would now be refused writes nothing.
ReleaseOne(acc, due, d, n) ==
    IF d \notin due \/ Refused(acc.tree, acc.batch, d) THEN acc
    ELSE [acc EXCEPT !.tree = Release(@, d, n), !.batch = InBatch(@, d)]
releaseHolds(all, due, order, n) ==
    LET after[i \in 0..Len(order)] == IF i = 0 THEN all ELSE ReleaseOne(after[i - 1], due, order[i], n)
    IN  after[Len(order)]

-----------------------------------------------------------------------------
(* What history decided                                                       *)

\* walkHolds: a stray's decision, and one whose entry is gone from the tree, is
\* `applied` in the commit that logged it; without a log entry, `cancelled` in
\* the commit that deleted the entry.  `head` is main's history, `work` the tree.
History(head, work) ==
    {Result(d, "applied", Head(head.logs[d])) : d \in {d \in Logged(head) : work.holds[d] # 0 \/ head.ended[d] # 0}}
    \cup {Result(d, "cancelled", head.ended[d]) :
            d \in {d \in Decisions \ Logged(head) : work.holds[d] = 0 /\ head.ended[d] # 0}}

Unsettled(head, work) == History(head, work) \ head.settled

-----------------------------------------------------------------------------
(* The commit job                                                             *)

\* Mutant: whatever the log says, a listed decision is compiled.
FreshAgain(t, entries) == Range(entries)

\* A decision is applied once: one that the log has is answered, not compiled.
Fresh(t, entries) == Range(entries) \ Logged(t)

\* Mutant: no run is handed what the window admitted.
DueConfirmed(t, admitted) == t.confirm

\* resolveHold: a confirm record, or room in the window.
Due(t, admitted) == t.confirm \cup admitted

\* What history decided that this run was not told is settled.
Recorded(w, all) == w.handed \cap Unsettled(w.base, all.tree)
Left(w, all) == Unsettled(w.base, all.tree) \ Recorded(w, all)

\* Mutant: a decision that an earlier run applied is named by this run's commit.
ResultsOfPush(w, all) ==
    {Result(d, "applied", w.base.n + 1) : d \in all.compiled \cup (Range(w.entries) \cap Logged(w.base))}
    \cup {Result(d, "refused", 0) : d \in all.refused}
    \cup {Result(d, "held", IF w.base.holds[d] # 0 THEN w.base.holds[d] ELSE w.base.n + 1) : d \in all.held}
    \cup Left(w, all)

\* resultsFor: the listed decisions' results, and those from history.
ResultsFor(w, all) ==
    {Result(d, "applied", Head(w.base.logs[d])) : d \in Range(w.entries) \cap Logged(w.base)}
    \cup {Result(d, "applied", w.base.n + 1) : d \in all.compiled}
    \cup {Result(d, "refused", 0) : d \in all.refused}
    \cup {Result(d, "held", IF w.base.holds[d] # 0 THEN w.base.holds[d] ELSE w.base.n + 1) : d \in all.held}
    \cup Left(w, all)

\* A withdrawal enters the window when its commit takes a listing away from its
\* parent's catalogue, or writes an advisory that matches a listed one.
Dated(t, u) ==
    LET revoked == UNION {Matches[d] : d \in {d \in Decisions : Kind[d] = "revoke" /\ u.logs[d] # t.logs[d]}}
        taken == (u.unlisted \ t.unlisted) \cup (revoked \ u.unlisted)
    IN  [u EXCEPT !.left = [p \in Plugins |-> IF p \in taken THEN WINDOW ELSE @[p]]]

\* What the list answer names, compiled and written; nothing of it is under a
\* shadow answer.
Compiled(w, spent) ==
    LET t == w.base
        entries == IF w.live THEN w.entries ELSE <<>>
        all == compileAll(t, Fresh(t, entries), entries, spent)
    IN  [all EXCEPT !.tree.holds = [d \in Decisions |-> IF d \in all.held /\ @[d] = 0 THEN t.n + 1 ELSE @[d]]]

\* The holds that are due, cancelled or stray -- under any answer -- and the
\* results the service has settled.
Stray(u) == OnTree(u) \cap Logged(u)
Ended(w, all, admitted, order) ==
    LET t == w.base
        due == (Due(t, admitted) \cap OnTree(t)) \ (Stray(all.tree) \cup t.cancel)
        released == releaseHolds(all, due, order, t.n + 1).tree
    IN  [Deleted(released, Stray(all.tree) \cup (t.cancel \cap OnTree(t)), t.n + 1)
            EXCEPT !.settled = @ \cup Recorded(w, all)]

-----------------------------------------------------------------------------
(* A run                                                                      *)

Faults(n) == faults + n <= MaxFaults /\ faults' = faults + n /\ UNCHANGED edits

\* The service takes the results posted for a decision: a final one ends it, and
\* `held` takes it off the list.
Taken(d, mine) ==
    LET finals == {x \in mine : x.outcome # "held"} IN
    IF finals # {} THEN [svc[d] EXCEPT !.told = @ \cup finals, !.state = "final"]
    ELSE IF mine # {} /\ svc[d].state = "listed" THEN [svc[d] EXCEPT !.heard = main.ended[d] = 0, !.state = "held"]
    ELSE svc[d]
Post(posted) == svc' = [d \in Decisions |-> Taken(d, {x \in posted : x.d = d})]

\* The schedule, or a dispatch, starts a run at the tip; the newest replaces the
\* one that waits.
Trigger ==
    /\ main \notin pending
    /\ pending' = {main}
    /\ UNCHANGED <<main, run, svc, faults, edits>>

\* Mutant: a result is recorded as settled once it is posted.
SettledWhenPosted(posted, lost, unheard) == posted

\* settledRow: only an answer that says `accepted` or `duplicate` settles.
Settled(posted, lost, unheard) ==
    {x \in posted \ (lost \cup unheard) : svc[x.d].state # "final" \/ x \in svc[x.d].told}

\* The list job: the decisions the service lists, in its order, and the results
\* history decided, posted.  Of those some do not arrive and others are taken
\* without the answer being heard.  No list, or a shadow one: nothing is either.
List(base, order, posted, lost, unheard) ==
    /\ run = Idle
    /\ Faults(Cardinality(lost \cup unheard))
    /\ run' = [phase |-> "commit", base |-> base, entries |-> order, live |-> TRUE, tries |-> 0,
               handed |-> Settled(posted, lost, unheard)]
    /\ Post(posted \ lost)
    /\ pending' = {}
    /\ UNCHANGED main

ListFails ==
    /\ run = Idle /\ Faults(1)
    /\ \E base \in pending :
        run' = [phase |-> "commit", base |-> base, entries |-> <<>>, live |-> FALSE, tries |-> 0, handed |-> {}]
    /\ pending' = {}
    /\ UNCHANGED <<main, svc>>

\* One commit, or nothing to commit; the results wait for the push, and a shadow
\* answer has none.
Compile ==
    /\ run.phase = "commit"
    /\ \E order \in readHolds(run.base) : \E window \in {admitHeldTakedowns(run.base, order)} :
       \E all \in {Compiled(run, window.spent)} : \E tree \in {Ended(run, all, window.admitted, order)} :
          LET results == IF run.live THEN ResultsFor(run, all) ELSE {} IN
          run' = IF tree = run.base THEN [phase |-> "report", results |-> results]
                 ELSE [phase |-> "push", base |-> run.base, entries |-> run.entries, live |-> run.live,
                       tries |-> run.tries, handed |-> run.handed, results |-> results,
                       tree |-> Dated(run.base, [tree EXCEPT !.n = @ + 1])]
    /\ UNCHANGED <<main, pending, svc, faults, edits>>

\* Mutant: the rebase that was replaced -- the commit as compiled, on top of
\* what landed, its window never counted again.
Rebase(w, tip) ==
    [w EXCEPT !.base = tip, !.tries = @ + 1,
              !.tree = [@ EXCEPT !.n = tip.n + 1, !.unlisted = @ \cup tip.unlisted,
                                 !.left = [p \in Plugins |-> IF @[p] < tip.left[p] THEN tip.left[p] ELSE @[p]]]]

\* redo: the same inputs, compiled over the main that moved.
Redo(w, tip) ==
    [phase |-> "commit", base |-> tip, entries |-> w.entries, live |-> w.live, tries |-> w.tries + 1, handed |-> w.handed]

Retry(tip) == run' = IF run.tries < ATTEMPTS THEN Redo(run, tip) ELSE Idle

PushLands ==
    /\ run.phase = "push" /\ main.n = run.base.n
    /\ main' = run.tree
    /\ run' = [phase |-> "report", results |-> run.results]
    /\ UNCHANGED <<pending, svc, faults, edits>>

\* It landed, and the run does not hear so: to it, main moved.
PushUnheard ==
    /\ run.phase = "push" /\ main.n = run.base.n /\ Faults(1)
    /\ main' = run.tree
    /\ Retry(run.tree)
    /\ UNCHANGED <<pending, svc>>

PushRejected ==
    /\ run.phase = "push" /\ main.n # run.base.n
    /\ Retry(main)
    /\ UNCHANGED <<main, pending, svc, faults, edits>>

\* The report job posts the results, unless it has two final ones for a
\* decision; some may not arrive.
TwoFinals(results) ==
    \E x, y \in results : x # y /\ x.d = y.d /\ "held" \notin {x.outcome, y.outcome}
Report(lost) ==
    /\ run.phase = "report" /\ lost \subseteq run.results
    /\ Faults(Cardinality(lost))
    /\ IF TwoFinals(run.results) THEN UNCHANGED svc ELSE Post(run.results \ lost)
    /\ run' = Idle
    /\ UNCHANGED <<main, pending>>

\* A job of the run dies: before the push, or after it and before the report.
Crash ==
    /\ run # Idle /\ Faults(1)
    /\ run' = Idle
    /\ UNCHANGED <<main, pending, svc>>

Listed == {d \in Decisions : svc[d].state = "listed"}
Step ==
    \/ \E base \in pending, order \in SetToSeqs(Listed) : \E posted \in {Unsettled(base, base)} :
          \E lost \in SUBSET posted : \E unheard \in SUBSET (posted \ lost) : List(base, order, posted, lost, unheard)
    \/ ListFails \/ Compile \/ PushLands \/ PushUnheard \/ PushRejected
    \/ run.phase = "report" /\ \E lost \in SUBSET run.results : Report(lost)

-----------------------------------------------------------------------------
(* Moderators, operators and time                                             *)

\* A moderator decides about the catalogue as it is: takes down what is listed,
\* gives back what is not.
Decide(d) ==
    /\ svc[d].state = "absent"
    /\ (Kind[d] = "relist") <=> Plugin[d] \in main.unlisted
    /\ svc' = [svc EXCEPT ![d].state = "listed"]
    /\ UNCHANGED <<main, pending, run, faults, edits>>

Lands(kind, tree) ==
    /\ kind \in Edits /\ edits < MaxEdits /\ edits' = edits + 1
    /\ main' = Dated(main, [tree EXCEPT !.n = main.n + 1])
    /\ UNCHANGED <<pending, run, svc, faults>>

\* operator.yml answers a hold that has no answer, or reverts an applied
\* takedown; a person deletes a hold entry, takes a listing down, or lands
\* something else.
Unanswered(d) == d \in OnTree(main) \ (main.confirm \cup main.cancel)
LandConfirm(d) == Unanswered(d) /\ Lands("confirm", [main EXCEPT !.confirm = @ \cup {d}])
LandCancel(d) == Unanswered(d) /\ Lands("cancel", [main EXCEPT !.cancel = @ \cup {d}])
LandDeletion(d) == d \in OnTree(main) /\ Lands("delete", Deleted(main, {d}, main.n + 1))
LandRevert(d) ==
    /\ d \in Logged(main)
    /\ \/ Kind[d] = "delist" /\ Plugin[d] \in main.unlisted
          /\ Lands("revert", [main EXCEPT !.unlisted = @ \ {Plugin[d]}])
       \/ d \in main.advisories /\ Lands("revert", [main EXCEPT !.advisories = @ \ {d}])
LandWithdrawal(p) == p \notin main.unlisted /\ Lands("withdrawal", [main EXCEPT !.unlisted = @ \cup {p}])
LandOther == Lands("other", main)

\* Time passes for every commit's withdrawals, in whichever tree they are.
Older(t) == [t EXCEPT !.left = [p \in Plugins |-> IF @[p] > 0 THEN @[p] - 1 ELSE 0]]
Tick ==
    /\ Recent(main) # {}
    /\ main' = Older(main)
    /\ pending' = {Older(t) : t \in pending}
    /\ run' = CASE run.phase = "commit" -> [run EXCEPT !.base = Older(@)]
                [] run.phase = "push" -> [run EXCEPT !.base = Older(@), !.tree = Older(@)]
                [] OTHER -> run
    /\ UNCHANGED <<svc, faults, edits>>

EmptyTree == [n |-> 1, holds |-> [d \in Decisions |-> 0], confirm |-> {}, cancel |-> {},
              logs |-> [d \in Decisions |-> <<>>], ended |-> [d \in Decisions |-> 0], unlisted |-> {},
              advisories |-> {}, left |-> [p \in Plugins |-> 0], settled |-> {}]

Init ==
    /\ main = EmptyTree
    /\ pending = {}
    /\ run = Idle
    /\ svc = [d \in Decisions |-> [state |-> "absent", heard |-> FALSE, told |-> {}]]
    /\ faults = 0 /\ edits = 0

Next ==
    \/ Trigger \/ Step \/ Crash \/ Tick \/ LandOther
    \/ \E d \in Decisions : Decide(d) \/ LandConfirm(d) \/ LandCancel(d) \/ LandDeletion(d) \/ LandRevert(d)
    \/ \E p \in Plugins : LandWithdrawal(p)

Spec == Init /\ [][Next]_vars

-----------------------------------------------------------------------------
(* Safety                                                                     *)

Applies(d) == main'.logs[d] # main.logs[d]
ByTheWindow(d) == Applies(d) /\ isTakedown(d) /\ d \notin main.confirm

\* What the commit of this step put back on the catalogue.
GivenBack == main.unlisted \ main'.unlisted

\* TRUST-26: the takedowns a commit applies that no operator confirmed can be put
\* in an order in which each found room: without what the last of them matches
\* (the earlier found less), and what the commit itself gives back, the window is
\* under the bound -- though people and confirmed holds withdraw beside the run,
\* and main moves while it compiles.
LastHadRoom ==
    [][(\E d \in Decisions : ByTheWindow(d)) =>
         \E d \in Decisions : ByTheWindow(d) /\ Cardinality(Recent(main') \ (Matches[d] \cup GivenBack)) < BOUND]_vars

\* R1: a decision is applied once, whatever was pushed unheard, died before its
\* report, or was listed again.
AppliedOnce == \A d \in Decisions : Len(main.logs[d]) <= 1

\* MOD-9: a hold is never overtaken.  While an older hold could be released, no
\* takedown that came after it is applied by the window and leaves it waiting.
NoOvertaking ==
    [][\A d \in Decisions : ByTheWindow(d) =>
        \A e \in OnTree(main) \cap OnTree(main') :
            (d \notin OnTree(main) \/ Before(main, e, d)) => Refused(main', NoBatch, e)]_vars

\* The service has heard of the hold, if there is or was one.
Heard(d) == (main.holds[d] = 0 /\ main.ended[d] = 0) \/ svc[d].heard

\* BOT-81: a decision whose hold the service heard of gets one final result;
\* `applied` names the commit that applied it, and of what is `cancelled` nothing
\* was or is applied.  (`refused` says what a run found on its own base.)
FinalIsTrue ==
    \A d \in Decisions : Heard(d) =>
        /\ Cardinality(svc[d].told) <= 1
        /\ \A x \in svc[d].told : CASE x.outcome = "applied" -> main.logs[d] = <<x.commit>>
                                    [] x.outcome = "cancelled" -> main.logs[d] = <<>>
                                    [] OTHER -> TRUE

-----------------------------------------------------------------------------
(* What the documentation says and the code does not                          *)

\* RUNBOOK.md:781-782: "one run never takes away more than the bound allows".  No
\* commit applies a takedown that no operator confirmed and leaves more listings
\* withdrawn in the window than the bound.
WithinBound == [][(\E d \in Decisions : ByTheWindow(d)) => Cardinality(Recent(main')) <= BOUND]_vars

\* RUNBOOK.md:726: a cancel "ends the hold without applying the decision".  What
\* a cancel record, or the deletion of its hold entry, has ended is not applied
\* by a later commit.
CancelledStaysOff ==
    [][\A d \in Decisions \ Logged(main) : d \in main.cancel \/ (main.holds[d] = 0 /\ main.ended[d] # 0) => ~Applies(d)]_vars

-----------------------------------------------------------------------------
(* Liveness                                                                   *)

\* The schedule starts runs, their jobs go on, and the window moves.  The second
\* is WF_vars(Step), with what enables Step written out.
Ready == run # Idle \/ pending # {}
Fairness == WF_vars(Trigger) /\ WF_vars(Tick) /\ ([]<>~Ready \/ []<><<Step>>_vars)
LiveSpec == Spec /\ Fairness

\* A release that the tree as it stands would refuse waits for a person.
Stuck(d) == d \in OnTree(main) /\ Refused(main, NoBatch, d)

\* A hold ends by itself: the window makes room, and a run finds it.
HoldsEnd == \A d \in Decisions : d \in OnTree(main) ~> d \notin OnTree(main) \/ Stuck(d)

\* BOT-81: every decision the service listed gets its final result, from the run
\* that pushed or from history -- whichever results were lost on the way.
DecisionsAreAnswered == \A d \in Decisions : svc[d].state = "listed" ~> svc[d].state = "final" \/ Stuck(d)
=============================================================================
