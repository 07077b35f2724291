------------------------------- MODULE Ingest -------------------------------
(* The service path of an ingest: plugins-ingest.yml leases submissions from  *)
(* the plugins service, verifies their releases, asks the service about them, *)
(* decides, alerts the operator, publishes to main and reports.               *)
(*                                                                            *)
(* One listing, of one repository, with as many submissions as it has tags.   *)
(* A run decides against the commit it was TRIGGERED at, which is older than  *)
(* main: a run waits in the workflow's concurrency group while the one ahead  *)
(* of it pushes.  A lease may end, and be given to the next run, while the    *)
(* run that holds it is still deciding.                                       *)
(*                                                                            *)
(* Publishing is one step here; PublishApply takes it apart.  What the checks *)
(* find in an archive is left out: on this path a finding refuses, or holds   *)
(* nothing (DEC-19).  So are the legacy queue and a repository that changes   *)
(* its name or its owner.                                                     *)
EXTENDS Integers, Sequences, FiniteSets, SequencesExt

CONSTANTS
    Subs,       \* submissions, each a tag of the listing's repository
    Runs,       \* runs of the workflow, as slots that are used again
    Tokens,     \* binding tokens
    Version,    \* the version each submission's tag releases
    Cases,      \* what the tags' binding lines and the listing may be at first
    Changes,    \* the kinds of change others make
    LEASE,      \* how long a lease lasts
    WINDOW,     \* OPERATOR_WINDOW_HOURS
    NOTICE,     \* UPDATE_WINDOW_HOURS
    MaxBytes,   \* bound: times a release's assets are uploaded
    MaxApprovals, \* bound: approvals of one release
    MaxSent,    \* bound: alerts delivered
    MaxTrouble  \* bound: lost calls, dead jobs, short leases and others' changes

NoToken == "none"
NoRun == "none"

ASSUME IngestAssumption ==
    /\ IsFiniteSet(Subs) /\ Version \in [Subs -> Nat] /\ NoToken \notin Tokens /\ NoRun \notin Runs
    /\ {LEASE, WINDOW, NOTICE, MaxBytes, MaxApprovals} \subseteq Nat \ {0}
    /\ MaxSent \in Nat /\ MaxTrouble \in Nat
    /\ Cases \subseteq [line : [Subs -> Tokens \cup {NoToken}], self : SUBSET Subs, identity : Tokens \cup {NoToken}]

VARIABLES
    main,      \* the tree at the tip of main
    run,       \* the runs
    svc,       \* the plugins service: its view of each submission
    approvals, \* how often a moderator approved each release; the last is the newest
    notice,    \* per release: 0, or 1 and the ticks since the previous account was told
    sent,      \* the alerts the channel delivered, in order, and the ticks since
    release,   \* what each tag's release is by now
    owner,     \* the tags' binding lines and who built them
    trouble    \* the bounded: faults, and changes others make

vars == <<main, run, svc, approvals, notice, sent, release, owner, trouble>>

-----------------------------------------------------------------------------
\* The bytes of a tag's release, numbered by upload: what a fingerprint names.
\* 0 is no bytes, for a submission answered before it had a fingerprint.
Releases == [sub : Subs, bytes : 1..MaxBytes]
NoBytes(s) == [sub |-> s, bytes |-> 0]

\* A decision record.  Its id, and so its path, is derived from the release and
\* the state alone.
States == {"held", "published", "refused", "stopped"}
Codes == {"R_FIRST_BINDING", "R_BINDING_CHANGED", "P_OPERATOR_DENIED", "E_CHECKS", "E_UNVERIFIED"}
Records == [rel : Releases \cup {NoBytes(s) : s \in Subs}, state : States, codes : SUBSET Codes,
            approval : 0..MaxApprovals, by : {"bot", "author", "moderator", "owner"}]

\* A tree of main: the records; the version files; the identity record's token;
\* per release, the alert record (by the delivery it tells of); the operator's
\* denies, OKs (of a release and an approval) and own approvals.
Trees == [records : SUBSET Records, listed : SUBSET Releases, identity : Tokens \cup {NoToken},
          alerts : [Releases -> 0..MaxSent], denied : SUBSET Releases,
          oks : SUBSET (Releases \X (1..MaxApprovals)), owned : SUBSET Releases]

Plans == [kind : {"none", "wait"}] \cup [kind : {"alert"}, rel : Releases, approval : 1..MaxApprovals]
         \cup [kind : {"state", "reported"}, rec : Records]

Results == [kind : {"wait"}] \cup [kind : {"named"}, rec : Records]

\* A run, from its trigger on: the leases it claimed, its plans with the delivery
\* of each alert, and its results.
RunOK(w) ==
    \/ w \in [phase : {"idle"}] \cup [phase : {"pending"}, base : Trees]
             \cup [phase : {"claimed"}, base : Trees, leases : SUBSET Subs]
    \/ \E subs \in SUBSET Subs :
         w \in [phase : {"alert", "publish"}, base : Trees, plans : [subs -> Plans], delivered : [subs -> 0..MaxSent]]
               \cup [phase : {"report"}, results : [subs -> Results]]

TypeOK ==
    /\ main \in Trees
    /\ DOMAIN run = Runs /\ \A r \in Runs : RunOK(run[r])
    /\ svc \in [Subs -> [state : States \cup {"absent", "received", "approved"}, lease : Runs \cup {NoRun},
                         left : 0..LEASE, stop : BOOLEAN, named : SUBSET Records]]
    /\ approvals \in [Releases -> 0..MaxApprovals]
    /\ notice \in [Releases -> 0..NOTICE + 1]
    /\ sent \in Seq([rel : Releases, approval : 1..MaxApprovals, age : 0..WINDOW]) /\ Len(sent) <= MaxSent
    /\ release \in [Subs -> [bytes : 1..MaxBytes, fate : {"ok", "gone", "unusable"}]]
    /\ trouble \in 0..MaxTrouble

-----------------------------------------------------------------------------
(* Deciding one submission against a tree                                     *)

Current(s) == [sub |-> s, bytes |-> release[s].bytes]
Line(x) == owner.line[x.sub]

Path(d) == <<d.rel, d.state>>
At(t, x, state) == {d \in t.records : d.rel = x /\ d.state = state}

Plan(kind) == [kind |-> kind]
Answer(x, state, codes) == [rel |-> x, state |-> state, codes |-> codes, approval |-> 0, by |-> "bot"]
Decision(d) == [kind |-> "state", rec |-> d]
Reported(d) == [kind |-> "reported", rec |-> d]

\* A release that does not verify is refused before it has a fingerprint, once:
\* a second refusal is the first one's record.
Unverified(t, s) ==
    LET onMain == At(t, NoBytes(s), "refused") IN
    IF onMain # {} THEN Reported(CHOOSE d \in onMain : TRUE)
    ELSE Decision(Answer(NoBytes(s), "refused", {"E_UNVERIFIED"}))

\* BOT-19: what main answers already -- a stop of the submission, or the
\* publication of these bytes.
Answers(t, x) ==
    LET stops == {d \in t.records : d.rel.sub = x.sub /\ d.state = "stopped"} IN
    IF stops # {} THEN stops ELSE At(t, x, "published")

\* What refuses: a binding line the service cannot use, a bound listing's
\* release without a line (ID-25), a version that is not new.
Errors(t, x) ==
    \/ release[x.sub].fate = "unusable" /\ Line(x) # NoToken
    \/ t.identity # NoToken /\ Line(x) = NoToken
    \/ \E y \in t.listed : Version[y.sub] >= Version[x.sub]

Okayed(t, n) == <<sent[n].rel, sent[n].approval>> \in t.oks

\* TRUST-32: the window counts from the reported delivery; an OK given for the
\* same approval ends it.
WindowOver(t, n) == sent[n].age >= WINDOW \/ Okayed(t, n)

\* An approval of a first binding covers the listing's other tags under the
\* same token, unless its release was since denied, stopped or refused.
Ended(t, y) == \E d \in t.records : \/ d.rel = y /\ d.state \in {"stopped", "refused"}
                                    \/ d.rel.sub = y.sub /\ d.state = "stopped"
Bound(t, y) == \E d \in At(t, y, "held") : "R_FIRST_BINDING" \in d.codes
Covering(t, x) ==
    {y \in Releases \ {x} : t.alerts[y] > 0 /\ Line(y) = Line(x) /\ y \notin t.denied /\ ~Ended(t, y) /\ Bound(t, y)}
OwnerCovering(t, x) ==
    {y \in t.owned \ {x} : y \notin t.denied /\ ~Ended(t, y) /\ Bound(t, y)}

\* firstBindingCleared: by the owner's own build, or by an approval's cover.
SelfCleared(x) == x.sub \in owner.self
Cleared(t, x) == SelfCleared(x) \/ Covering(t, x) # {} \/ OwnerCovering(t, x) # {}

\* The changes of hands, the only findings that hold on this path.
Holds(t, x) ==
    {c \in {"R_FIRST_BINDING", "R_BINDING_CHANGED"} :
        /\ Line(x) # NoToken
        /\ IF c = "R_BINDING_CHANGED" THEN t.identity \notin {NoToken, Line(x)}
                                      ELSE t.identity = NoToken /\ ~Cleared(t, x)}

\* Mutant: an approval of any of the submission's releases.
AnyApproval(x) == CHOOSE n \in {approvals[y] : y \in {y \in Releases : y.sub = x.sub}} :
                      \A y \in Releases : y.sub = x.sub => approvals[y] <= n

\* The decisions the service reports for exactly this submission and fingerprint.
Approvals(x) == approvals[x]

\* The newest approval, honoured for a hold of these bytes that main shows; the
\* owner's own is honoured before it.
ByOwner(t, x) == x \in t.owned /\ At(t, x, "held") # {}
Honoured(t, x) == IF At(t, x, "held") # {} THEN Approvals(x) ELSE 0

\* Mutant: an alert for the release is taken for an alert for its approval.
AnyAlert(t, x, n) == t.alerts[x] > 0

\* The alert record tells of this release's approval, and not of an earlier one.
Alerted(t, x, n) == t.alerts[x] > 0 /\ sent[t.alerts[x]].approval = n

\* Mutant: whatever the hold said, one account needs no notice.
OneAccountAlways(t, x) == TRUE

\* Mutant: every approved hold waits for a notice, as before contract 5.8.0.
NoticeForAll(t, x) == FALSE

\* noticeExempt: no hold of these bytes, then or now, names a changed binding.
OneAccount(t, x) ==
    /\ "R_BINDING_CHANGED" \notin Holds(t, x)
    /\ \A d \in At(t, x, "held") : "R_BINDING_CHANGED" \notin d.codes

\* noticeElapsed: ID-60, the previous account was told and had its window.
Told(x) == notice[x] > NOTICE

Publication(x, n, by) ==
    Decision([rel |-> x, state |-> "published", codes |-> {}, approval |-> n, by |-> by])

\* Mutant: the owner's own approval is sent to the operator like a moderator's.
ApprovedPlanAlertsOwner(t, x) ==
    IF ~OneAccount(t, x) /\ ~Told(x) THEN Plan("wait")
    ELSE IF ~Alerted(t, x, Honoured(t, x)) THEN [kind |-> "alert", rel |-> x, approval |-> Honoured(t, x)]
    ELSE Publication(x, Honoured(t, x), "moderator")

\* An approved change of hands: the notice, then the alert and its window.
ApprovedPlan(t, x) ==
    LET n == Honoured(t, x) IN
    IF ~OneAccount(t, x) /\ ~Told(x) THEN Plan("wait")
    ELSE IF ByOwner(t, x) THEN Publication(x, 0, "owner")
    ELSE IF ~Alerted(t, x, n) THEN [kind |-> "alert", rel |-> x, approval |-> n]
    ELSE IF ~WindowOver(t, t.alerts[x]) THEN Plan("wait")
    ELSE Publication(x, n, "moderator")

\* Mutant: a covered release does not wait for the window of what covers it.
CoveredAtOnce(t, x) == Publication(x, 0, "bot")

\* A first binding under an approval's cover waits out that approval's window;
\* under the owner's, for the release he approved.  CHOOSE: the first alert file.
CoveredPlan(t, x) ==
    LET y == CHOOSE y \in Covering(t, x) : TRUE IN
    IF Covering(t, x) # {} /\ (WindowOver(t, t.alerts[y]) \/ y \in t.owned)
    THEN Publication(x, 0, "bot")
    ELSE Plan("wait")

\* decideSubmission, by first match.
decideSubmission(t, s) ==
    LET x == Current(s) IN
    IF release[s].fate = "gone" THEN Unverified(t, s)
    ELSE IF Answers(t, x) # {} THEN Reported(CHOOSE d \in Answers(t, x) : TRUE)
    ELSE IF svc[s].stop THEN Plan("none")
    ELSE IF Errors(t, x) THEN Decision(Answer(x, "refused", {"E_CHECKS"}))
    ELSE IF Holds(t, x) # {} /\ Honoured(t, x) = 0 /\ ~ByOwner(t, x)
         THEN Decision(Answer(x, "held", Holds(t, x)))
    ELSE IF x \in t.denied THEN Decision(Answer(x, "refused", {"P_OPERATOR_DENIED"}))
    ELSE IF Holds(t, x) # {} THEN ApprovedPlan(t, x)
    ELSE IF t.identity = NoToken /\ Line(x) # NoToken /\ ~SelfCleared(x) THEN CoveredPlan(t, x)
    ELSE Publication(x, 0, "bot")

-----------------------------------------------------------------------------
(* The jobs of a run                                                          *)

\* The bound on faults and on what others change.
Trouble(n) == trouble + n <= MaxTrouble /\ trouble' = trouble + n

Idle == [phase |-> "idle"]
Active(r) == r \in Runs /\ run[r].phase \notin {"idle", "pending"}
Leased(s, r) == svc[s].lease = r

\* The workflow starts at the tip of main; a newer pending run replaces the one
\* that was waiting.
Trigger(r) ==
    /\ run[r].phase \in {"idle", "pending"}
    /\ \A q \in Runs \ {r} : run[q].phase # "pending"
    /\ run' = [run EXCEPT ![r] = [phase |-> "pending", base |-> main]]
    /\ run' # run
    /\ UNCHANGED <<main, svc, approvals, notice, sent, release, owner, trouble>>

\* The concurrency group lets one run be under way; its claim job leases what
\* the service has to give.
Claimable == {s \in Subs : svc[s].state \in {"received", "approved"} /\ svc[s].lease = NoRun}
Claim(r) ==
    /\ run[r].phase = "pending" /\ \A q \in Runs : ~Active(q)
    /\ Claimable # {}
    /\ run' = [run EXCEPT ![r] = [phase |-> "claimed", base |-> run[r].base, leases |-> Claimable]]
    /\ svc' = [s \in Subs |-> IF s \in Claimable THEN [svc[s] EXCEPT !.lease = r, !.left = LEASE] ELSE svc[s]]
    /\ UNCHANGED <<main, approvals, notice, sent, release, owner, trouble>>

\* verify, check, ask and decide.  A call that fails is a wait for its
\* submission; a disagreement, or an answer in shadow, leaves it without a plan.
Decide(r, failed, kind) ==
    /\ run[r].phase = "claimed" /\ failed \subseteq run[r].leases
    /\ Trouble(Cardinality(failed))
    /\ LET plans == [s \in run[r].leases |-> IF s \in failed THEN Plan(kind) ELSE decideSubmission(run[r].base, s)]
           kept == {s \in run[r].leases : plans[s].kind # "none"}
       IN  run' = [run EXCEPT ![r] = IF kept = {} THEN Idle ELSE
             [phase |-> IF \E s \in kept : plans[s].kind = "alert" THEN "alert" ELSE "publish",
              base |-> run[r].base, plans |-> [s \in kept |-> plans[s]], delivered |-> [s \in kept |-> 0]]]
    /\ UNCHANGED <<main, svc, approvals, notice, sent, release, owner>>

\* The alert job sends every alert that decide named, and says whether the
\* channel delivered them.
Alert(r, ok) ==
    LET w == run[r]
        named == {s \in DOMAIN w.plans : w.plans[s].kind = "alert"}
        order == SetToSeq(named)
        index == [s \in DOMAIN w.plans |-> IF s \in named THEN Len(sent) + (CHOOSE i \in DOMAIN order : order[i] = s) ELSE 0]
    IN  /\ w.phase = "alert"
        /\ IF ok
           THEN /\ Len(sent) + Cardinality(named) <= MaxSent
                /\ sent' = sent \o [i \in DOMAIN order |-> [rel |-> w.plans[order[i]].rel,
                                                            approval |-> w.plans[order[i]].approval, age |-> 0]]
                /\ run' = [run EXCEPT ![r].phase = "publish", ![r].delivered = index]
                /\ Trouble(0)
           ELSE /\ Trouble(1)
                /\ run' = [run EXCEPT ![r].phase = "publish"]
                /\ UNCHANGED sent
        /\ UNCHANGED <<main, svc, approvals, notice, release, owner>>

\* composePublication: a record that the run's own tree holds is not written
\* again (BOT-36), and an alert record only if the channel delivered.
New(w, s) == w.plans[s].kind = "state" /\ \A d \in w.base.records : Path(d) # Path(w.plans[s].rec)

Composed(w, s) == w.plans[s].kind = "alert" /\ w.delivered[s] > 0

\* publish-apply, one report: refused if its record is there, if it rewrites or
\* is older than a listed version, or if main denies it by now.
RefusedBy(t, d) ==
    \/ \E e \in t.records : Path(e) = Path(d)
    \/ d.state = "published" /\ (d.rel \in main.denied \/ \E y \in t.listed : Version[y.sub] >= Version[d.rel.sub])

Written(t, d) ==
    LET u == [t EXCEPT !.records = @ \cup {d}] IN
    IF d.state # "published" THEN u
    ELSE [u EXCEPT !.listed = @ \cup {d.rel}, !.identity = IF Line(d.rel) # NoToken THEN Line(d.rel) ELSE @]

Apply(w, acc, s) ==
    IF Composed(w, s) THEN [acc EXCEPT !.tree.alerts[w.plans[s].rel] = w.delivered[s]]
    ELSE IF ~New(w, s) THEN acc
    ELSE IF RefusedBy(acc.tree, w.plans[s].rec) THEN [acc EXCEPT !.refused = @ \cup {s}]
    ELSE [acc EXCEPT !.tree = Written(@, w.plans[s].rec)]

\* applyAll: the reports in their order, each on the tree the one before left.
Applied(w, order) ==
    LET after[n \in 0..Len(order)] ==
            IF n = 0 THEN [tree |-> main, refused |-> {}] ELSE Apply(w, after[n - 1], order[n])
    IN  after[Len(order)]

\* The record a result names: the one the run wrote, or the one its tree had.
Named(w, s) ==
    LET d == w.plans[s].rec IN
    IF w.plans[s].kind = "state" /\ ~New(w, s) THEN CHOOSE e \in w.base.records : Path(e) = Path(d) ELSE d
resultBody(w, s) ==
    IF w.plans[s].kind \in {"wait", "alert"} THEN [kind |-> "wait"] ELSE [kind |-> "named", rec |-> Named(w, s)]

\* Mutant: the results are reported whatever became of their reports.
ReportedAnyway(w, applied) == TRUE

\* A refused report fails the publish job, and with it every result of the run.
Succeeds(w, applied) == applied.refused = {}

Publish(r, order, dies) ==
    LET w == run[r]
        applied == Applied(w, order)
    IN  /\ w.phase = "publish" /\ order \in SetToSeqs(DOMAIN w.plans)
        /\ Trouble(IF dies THEN 1 ELSE 0)
        /\ main' = applied.tree
        /\ run' = [run EXCEPT ![r] = IF dies \/ ~Succeeds(w, applied) THEN Idle ELSE
             [phase |-> "report", results |-> [s \in DOMAIN w.plans |-> resultBody(w, s)]]]
        /\ UNCHANGED <<svc, approvals, notice, sent, release, owner>>

\* A run dies before it pushed.
Crash(r) ==
    /\ run[r].phase \in {"claimed", "alert", "publish"} /\ Trouble(1)
    /\ run' = [run EXCEPT ![r] = Idle]
    /\ UNCHANGED <<main, svc, approvals, notice, sent, release, owner>>

\* The service takes a result of the lease's own attempt: a wait gives the lease
\* back, a named record settles the submission.
Taken(v, result) ==
    IF result.kind = "wait" THEN [v EXCEPT !.lease = NoRun, !.left = 0]
    ELSE [v EXCEPT !.lease = NoRun, !.left = 0, !.state = result.rec.state, !.named = {result.rec}]

\* The report job posts the results; some may not arrive.
Report(r, lost) ==
    LET results == run[r].results IN
    /\ run[r].phase = "report" /\ lost \subseteq DOMAIN results
    /\ Trouble(Cardinality(lost))
    /\ svc' = [s \in Subs |-> IF s \in DOMAIN results \ lost /\ Leased(s, r) THEN Taken(svc[s], results[s]) ELSE svc[s]]
    /\ run' = [run EXCEPT ![r] = Idle]
    /\ UNCHANGED <<main, approvals, notice, sent, release, owner>>

Step(r) ==
    \/ Claim(r)
    \/ \E failed \in SUBSET Subs, kind \in {"none", "wait"} : Decide(r, failed, kind)
    \/ \E ok \in BOOLEAN : Alert(r, ok)
    \/ run[r].phase = "publish" /\ \E order \in SetToSeqs(DOMAIN run[r].plans), dies \in BOOLEAN : Publish(r, order, dies)
    \/ \E lost \in SUBSET Subs : Report(r, lost)

-----------------------------------------------------------------------------
(* Everyone else                                                              *)

\* What others change, of the kinds considered.
Counted(kind) == kind \in Changes /\ Trouble(1)

\* A submission reaches the service.
Arrive(s) ==
    /\ svc[s].state = "absent"
    /\ svc' = [svc EXCEPT ![s].state = "received"]
    /\ UNCHANGED <<main, run, approvals, notice, sent, release, owner, trouble>>

\* A moderator approves the bytes a hold names, once or again.
Approve(s) ==
    /\ svc[s].state \in {"held", "approved"}
    /\ \E d \in svc[s].named :
          /\ approvals[d.rel] < MaxApprovals
          /\ approvals' = [approvals EXCEPT ![d.rel] = @ + 1]
          /\ IF approvals[d.rel] = 0 THEN Trouble(0) ELSE Counted("again")
    /\ svc' = [svc EXCEPT ![s].state = "approved"]
    /\ UNCHANGED <<main, run, notice, sent, release, owner>>

\* The service tells the account a changed binding is taken from.
Tell(s) ==
    /\ \E d \in svc[s].named :
          "R_BINDING_CHANGED" \in d.codes /\ notice[d.rel] = 0 /\ notice' = [notice EXCEPT ![d.rel] = 1]
    /\ UNCHANGED <<main, run, svc, approvals, sent, release, owner, trouble>>

\* The author stops his submission; a moderation run records the stop.
Open(s) == svc[s].state \in {"received", "approved", "held"}
Stop(s) ==
    /\ Open(s) /\ ~svc[s].stop /\ Counted("stop")
    /\ svc' = [svc EXCEPT ![s].stop = TRUE]
    /\ UNCHANGED <<main, run, approvals, notice, sent, release, owner>>
RecordStop(s) ==
    /\ svc[s].stop /\ Open(s)
    /\ LET d == [Answer(NoBytes(s), "stopped", {}) EXCEPT !.by = "author"] IN
       /\ main' = [main EXCEPT !.records = @ \cup {d}]
       /\ svc' = [svc EXCEPT ![s].state = "stopped", ![s].named = {d}, ![s].lease = NoRun, ![s].left = 0]
    /\ UNCHANGED <<run, approvals, notice, sent, release, owner, trouble>>

\* The author replaces the assets, or deletes the release; the token of its
\* binding line is revoked.
Change(s, kind, to) ==
    /\ release[s].fate = "ok" /\ Counted(kind)
    /\ release' = [release EXCEPT ![s] = to]
    /\ UNCHANGED <<main, run, svc, approvals, notice, sent, owner>>
Upload(s) == release[s].bytes < MaxBytes /\ Change(s, "upload", [release[s] EXCEPT !.bytes = @ + 1])
Delete(s) == Change(s, "delete", [release[s] EXCEPT !.fate = "gone"])
Revoke(s) == Line(Current(s)) # NoToken /\ Change(s, "revoke", [release[s] EXCEPT !.fate = "unusable"])

\* The operator answers an alert with a deny or an OK; the owner approves a held
\* release himself.
Lands(kind, tree) ==
    /\ tree # main /\ Counted(kind)
    /\ main' = tree
    /\ UNCHANGED <<run, svc, approvals, notice, sent, release, owner>>
LandDeny == \E i \in DOMAIN sent : Lands("deny", [main EXCEPT !.denied = @ \cup {sent[i].rel}])
LandOk == \E x \in Releases \ main.denied : main.alerts[x] > 0 /\
              Lands("ok", [main EXCEPT !.oks = @ \cup {<<x, sent[main.alerts[x]].approval>>}])
LandOwner == \E d \in main.records : d.state = "held" /\ Lands("own", [main EXCEPT !.owned = @ \cup {d.rel}])

\* Time passes: since each delivery and notice, and on each lease.  A lease that
\* ends under a run at work is a fault.
Tick ==
    LET short == {s \in Subs : svc[s].left = 1 /\ Active(svc[s].lease)}
        older(age, bound) == IF age < bound THEN age + 1 ELSE age
    IN  /\ Trouble(Cardinality(short))
        /\ sent' = [i \in DOMAIN sent |-> [sent[i] EXCEPT !.age = older(@, WINDOW)]]
        /\ notice' = [x \in Releases |-> IF notice[x] = 0 THEN 0 ELSE older(notice[x], NOTICE + 1)]
        /\ svc' = [s \in Subs |-> IF svc[s].left = 1 THEN [svc[s] EXCEPT !.lease = NoRun, !.left = 0]
                                  ELSE IF svc[s].left > 1 THEN [svc[s] EXCEPT !.left = @ - 1] ELSE svc[s]]
        /\ <<sent', notice', svc'>> # <<sent, notice, svc>>
        /\ UNCHANGED <<main, run, approvals, release, owner>>

EmptyTree == [records |-> {}, listed |-> {}, identity |-> NoToken, alerts |-> [x \in Releases |-> 0],
              denied |-> {}, oks |-> {}, owned |-> {}]

Init ==
    /\ owner \in Cases
    /\ main = [EmptyTree EXCEPT !.identity = owner.identity]
    /\ run = [r \in Runs |-> Idle]
    /\ svc = [s \in Subs |-> [state |-> "absent", lease |-> NoRun, left |-> 0, stop |-> FALSE, named |-> {}]]
    /\ approvals = [x \in Releases |-> 0]
    /\ notice = [x \in Releases |-> 0]
    /\ sent = <<>>
    /\ release = [s \in Subs |-> [bytes |-> 1, fate |-> "ok"]]
    /\ trouble = 0

Next ==
    \/ \E r \in Runs : Trigger(r) \/ Step(r) \/ Crash(r)
    \/ \E s \in Subs : Arrive(s) \/ Approve(s) \/ Tell(s) \/ Stop(s) \/ RecordStop(s)
                        \/ Upload(s) \/ Delete(s) \/ Revoke(s)
    \/ LandDeny \/ LandOk \/ LandOwner \/ Tick

Spec == Init /\ [][Next]_vars

-----------------------------------------------------------------------------
(* Safety                                                                     *)

\* Publications that reach main in a step.
Published(d) == d.state = "published" /\ d \notin main.records

\* BOT-26: a publication that clears a hold is of the very bytes that main shows
\* held and that a moderator, or the owner, approved -- however often the author
\* replaced the assets in between.
ApprovedBytesOnly ==
    \A d \in main.records : d.state = "published" /\ d.by # "bot" =>
        /\ At(main, d.rel, "held") # {}
        /\ d.by = "moderator" => d.approval \in 1..approvals[d.rel]
        /\ d.by = "owner" => d.rel \in main.owned

\* TRUST-14, TRUST-32: nothing a moderator's approval cleared reaches main before
\* the operator was told of that approval of those bytes and had his window, or
\* said OK -- whichever alerts were lost, delivered twice or written over.
HadHisWindow(x, n) ==
    \E i \in DOMAIN sent :
        sent[i].rel = x /\ sent[i].approval = n /\ (sent[i].age >= WINDOW \/ <<x, n>> \in main.oks)
OperatorHadHisWindow ==
    [][\A d \in main'.records : Published(d) /\ d.by = "moderator" => HadHisWindow(d.rel, d.approval)]_vars

\* MIG-10: a first binding nobody approved for this very release is the owner's
\* own build, or follows another approved under the same token whose operator
\* window is over.
FirstBindingIsAnswered ==
    [][\A d \in main'.records :
        Published(d) /\ d.by = "bot" /\ main.identity = NoToken /\ Line(d.rel) # NoToken /\ ~SelfCleared(d.rel)
        => \E y \in Releases \ {d.rel} : /\ Line(y) = Line(d.rel) /\ At(main, y, "held") # {}
                                         /\ y \in main.owned \/ \E n \in 1..approvals[y] : HadHisWindow(y, n)]_vars

\* ID-60: no approval, a moderator's or the owner's, clears a hold that named a
\* changed binding before the account it is taken from was told and had its own
\* window -- also when what the run itself reads names no change any more.  (A
\* release nothing holds by then clears no hold, and publishes like any other.)
PreviousAccountTold ==
    [][\A d \in main'.records : Published(d) /\ d.by # "bot" =>
        \A e \in At(main, d.rel, "held") : "R_BINDING_CHANGED" \in e.codes => Told(d.rel)]_vars

\* BOT-6, BOT-24: what the service believes of a submission, main says in the
\* record its result named, however leases, runs and results crossed.
SettledIsRecorded == \A s \in Subs : svc[s].named \subseteq main.records /\ \A d \in svc[s].named : d.rel.sub = s

-----------------------------------------------------------------------------
(* Liveness                                                                   *)

\* The schedule starts runs, jobs go on, the service sends its notices, the
\* moderation run records stops, and time passes.  The second conjunct is weak
\* fairness of the runs' steps, with what enables them written out.
Ready == \E r \in Runs :
    \/ run[r].phase = "pending" /\ Claimable # {} /\ \A q \in Runs : ~Active(q)
    \/ Active(r)
Fairness ==
    /\ WF_vars(\E r \in Runs : Trigger(r)) /\ ([]<>~Ready \/ []<><<\E r \in Runs : Step(r)>>_vars)
    /\ WF_vars(\E s \in Subs : Tell(s)) /\ WF_vars(\E s \in Subs : RecordStop(s))
    /\ SF_vars(Tick)
LiveSpec == Spec /\ Fairness

\* A submission that was approved is answered, although each of the windows it
\* waits for is read by a run of its own, from a tree that is behind -- unless it
\* waits for a release the owner approved himself and nobody sends again.
ApprovedIsAnswered ==
    \A s \in Subs : svc[s].state = "approved" ~> svc[s].state \in States \/ OwnerCovering(main, Current(s)) # {}
=============================================================================
