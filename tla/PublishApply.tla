---------------------------- MODULE PublishApply ----------------------------
(* How a publication reaches main: the publish job of plugins-ingest.yml,     *)
(* which composes its decisions into reports (bot/lib/service-publish.mjs),   *)
(* applies, checks, commits and pushes them (bot/publish-apply.mjs), and      *)
(* names the commit in each result.  Runs race each other and everyone else   *)
(* who pushes to main: the publish job has no concurrency group of its own.   *)
(* The workflow's group keeps its runs apart, but not their bases: a run      *)
(* checks out the commit it was triggered at, before the run ahead of it      *)
(* pushed.                                                                    *)
(*                                                                            *)
(* `main` is a sequence of trees.  The legacy path's queue entries and etag   *)
(* memory and the service path's identity and alert records are left out:     *)
(* none of them is read by the rules below.  Runs do not come back: a later   *)
(* run of the workflow is another member of Runs.                             *)
EXTENDS Integers, Sequences, FiniteSets

CONSTANTS
    Runs,      \* runs of the publish job
    Ids,       \* plugins
    Bytes,     \* what a released version may contain
    Subs,      \* submissions
    Months,    \* the months a run can date its decisions in
    Edits,     \* the kinds of commit others land on main
    ATTEMPTS,  \* pushes a run is given; 5 in run()
    MaxVer,    \* bound: versions of a plugin
    MaxReports,\* bound: reports of a run
    MaxMain    \* bound: commits on main

ASSUME BoundsAssumption == /\ ATTEMPTS \in Nat \ {0} /\ MaxVer \in Nat \ {0}
                           /\ MaxReports \in Nat \ {0} /\ MaxMain \in Nat \ {0}

VARIABLES main, run, results

vars == <<main, run, results>>

-----------------------------------------------------------------------------
\* A release; it stands for its fingerprint too, which is over these three.
Releases == [id : Ids, ver : 1..MaxVer, bytes : Bytes]

\* A decision record: a run's decision of a submission at a release, dated at
\* the run's start.
States == {"published", "held"}
Records == [sub : Subs, state : States, rel : Releases, owner : BOOLEAN, month : Months, by : Runs]

\* Its id is a hash of the submission, the fingerprint and the state, and its
\* file is log/decisions/<year and month>/<id>.json.
DecisionId(d) == <<d.sub, d.rel, d.state>>
RecordPath(d) == <<d.month, DecisionId(d)>>

\* What main holds: the version files, the plugin.json, README and icon of each
\* listing (by the release they were derived from), the decision records, the
\* generated index, the operator's deny records, and the releases with an
\* approval by a key that is still the owner's.
Trees == [versions : SUBSET Releases, pages : SUBSET Releases, records : SUBSET Records,
          index : [versions : SUBSET Releases, pages : SUBSET Releases],
          denied : SUBSET Releases, approved : SUBSET Releases]

Reports == [sub : Subs, state : States, rel : Releases, owner : BOOLEAN, month : Months]

Outcomes == {"committed", "nothing", "refused", "checks-failed", "exhausted", "broke", "crashed"}
Working == [phase : {"apply", "commit", "push"}, at : Nat, reports : Seq(Reports), next : Nat, tree : Trees,
            changed : BOOLEAN, refused : SUBSET Nat, withdrawn : SUBSET Nat, attempt : 1..ATTEMPTS]
Pushed == [phase : {"pushed"}, written : SUBSET Records, commit : Nat]
Done == [phase : {"done"}, outcome : Outcomes, ids : SUBSET Ids]
Waiting == [phase |-> "waiting"]

TypeOK ==
    /\ main \in Seq(Trees)
    /\ run \in [Runs -> {Waiting} \cup Working \cup Pushed \cup Done]
    /\ results \subseteq [rec : Records, commit : DOMAIN main]

-----------------------------------------------------------------------------
(* One report against a tree                                                 *)

RecordOf(r, q) ==
    [sub |-> q.sub, state |-> q.state, rel |-> q.rel, owner |-> q.owner, month |-> q.month, by |-> r]

SameVersion(x, y) == x.id = y.id /\ x.ver = y.ver

\* Mutant: only the bytes are compared.
Rewrites(t, x) == \E y \in t.versions : SameVersion(x, y) /\ x # y

\* refuseVersionRegressions: a listed version is never rewritten, and a new one
\* is newer than every listed one (INV-12).  The same bytes again pass.
Regresses(t, x) ==
    \/ \E y \in t.versions : SameVersion(x, y) /\ x # y
    \/ x \notin t.versions /\ \E y \in t.versions : y.id = x.id /\ y.ver >= x.ver

\* Mutant: the record's own path is taken as proof that it is the same record.
NoRewritesRecord(t, r, q) == FALSE

\* A decision record is never rewritten either.  Only the report's own path is
\* looked at: a record of the same decision in another month is not seen.
RewritesRecord(t, r, q) ==
    \E d \in t.records : RecordPath(d) = RecordPath(q) /\ d # RecordOf(r, q)

\* applyReport raises every refusal before it copies a byte.
Refuses(t, r, q) ==
    RewritesRecord(t, r, q) \/ (q.state = "published" /\ Regresses(t, q.rel))

\* Its copy loop: a publication's version file, and beside it plugin.json, the
\* README and the icon whatever stands there; and the record.
Applied(t, r, q) ==
    LET u == [t EXCEPT !.records = {d \in @ : RecordPath(d) # RecordPath(q)} \cup {RecordOf(r, q)}] IN
    IF q.state = "published"
    THEN [u EXCEPT !.versions = @ \cup {q.rel}, !.pages = {y \in @ : y.id # q.rel.id} \cup {q.rel}]
    ELSE u

Catalogue(t) == [versions |-> t.versions, pages |-> t.pages]

\* Mutant: denies only.
DeniedBy(t, q) == q.state = "published" /\ q.rel \in t.denied

\* withdrawnAt: what main, as it stands, no longer lets a run publish.
WithdrawnBy(t, q) ==
    q.state = "published" /\ (q.rel \in t.denied \/ (q.owner /\ q.rel \notin t.approved))

-----------------------------------------------------------------------------
(* A run                                                                     *)

\* What the decide job can have decided at a tree: no record of the decision is
\* there, in any month (BOT-36), nor one that publishes the release (BOT-19); and
\* a publication is newer than what is listed (E_VERSION_NOT_NEW), not denied, and
\* approved if it is the owner's.
Decidable(t, q) ==
    /\ \A d \in t.records : DecisionId(d) # DecisionId(q) /\ (d.state = "published" => d.rel # q.rel)
    /\ q.owner => q.state = "published"
    /\ q.state = "published" => /\ \A y \in t.versions : y.id = q.rel.id => y.ver < q.rel.ver
                                /\ ~WithdrawnBy(t, q)

\* composePublication: one report per plan, at the commit the run checked out,
\* all dated when the run began.
Compose(r) ==
    /\ run[r] = Waiting
    /\ \E at \in DOMAIN main, n \in 1..MaxReports :
         \E reports \in [1..n -> {q \in Reports : Decidable(main[at], q)}] :
           /\ \A i, j \in 1..n : reports[i].month = reports[j].month
           /\ \A i, j \in 1..n : i # j => reports[i].sub # reports[j].sub
           /\ run' = [run EXCEPT ![r] =
                [phase |-> "apply", at |-> at, reports |-> reports, next |-> 1, tree |-> main[at],
                 changed |-> FALSE, refused |-> {}, withdrawn |-> {}, attempt |-> 1]]
    /\ UNCHANGED <<main, results>>

End(r, outcome) ==
    LET w == run[r] IN
    [phase |-> "done", outcome |-> outcome, ids |-> {w.reports[i].rel.id : i \in DOMAIN w.reports}]

\* applyAll, one report: skipped if main withdrew it, refused, or copied.
ApplyReport(r) ==
    LET w == run[r]
        q == w.reports[w.next]
    IN  /\ w.phase = "apply" /\ w.next <= Len(w.reports)
        /\ run' = [run EXCEPT ![r] =
             IF w.next \in w.withdrawn \/ Refuses(w.tree, r, q)
             THEN [w EXCEPT !.next = @ + 1, !.refused = @ \cup {w.next}]
             ELSE [w EXCEPT !.next = @ + 1, !.tree = Applied(@, r, q),
                            !.changed = @ \/ q.state = "published" \/ RecordOf(r, q) \notin w.tree.records]]
        /\ UNCHANGED <<main, results>>

\* Every report is applied: the checks regenerate the index and may fail, and
\* what is left is committed on the runner.
Settle(r, passes) ==
    LET w == run[r]
        tree == [w.tree EXCEPT !.index = Catalogue(w.tree)]
    IN  /\ w.phase = "apply" /\ w.next > Len(w.reports)
        /\ run' = [run EXCEPT ![r] =
             IF ~w.changed THEN End(r, IF w.refused # {} THEN "refused" ELSE "nothing")
             ELSE IF ~passes THEN End(r, "checks-failed")
             ELSE IF tree = main[w.at] THEN End(r, "nothing")
             ELSE [w EXCEPT !.phase = "commit", !.tree = tree]]
        /\ UNCHANGED <<main, results>>

\* Mutant: the rebase the shell fallback did -- the commit, index and all, put
\* on top of what landed.
Rebase(w, at, attempt, withdrawn) ==
    [w EXCEPT !.phase = "commit", !.at = at, !.attempt = attempt, !.withdrawn = withdrawn,
              !.tree = [main[at] EXCEPT !.versions = @ \cup w.tree.versions, !.records = @ \cup w.tree.records,
                                        !.index = w.tree.index]]

\* Mutant: what main withdrew is forgotten at the next attempt.
Forgetting(w, at, attempt, withdrawn) ==
    [w EXCEPT !.phase = "apply", !.at = at, !.next = 1, !.tree = main[at], !.changed = FALSE,
              !.refused = {}, !.withdrawn = {}, !.attempt = attempt]

Again(w, at, attempt, withdrawn) ==
    [w EXCEPT !.phase = "apply", !.at = at, !.next = 1, !.tree = main[at], !.changed = FALSE,
              !.refused = {}, !.withdrawn = withdrawn, !.attempt = attempt]

\* Main is fetched before every push.  Reports it withdrew meanwhile are
\* dropped and the attempt is rebuilt without them, at no cost in attempts.
AskMain(r, fetched) ==
    LET w == run[r]
        withdrawn == {n \in DOMAIN w.reports \ w.withdrawn : WithdrawnBy(main[Len(main)], w.reports[n])}
    IN  /\ w.phase = "commit"
        /\ run' = [run EXCEPT ![r] =
             IF ~fetched THEN End(r, "broke")
             ELSE IF withdrawn = {} THEN [w EXCEPT !.phase = "push"]
             ELSE Again(w, w.at, w.attempt, w.withdrawn \cup withdrawn)]
        /\ UNCHANGED <<main, results>>

\* Mutant: the results of refused reports are posted as well.
WrittenOrRefused(r) == LET w == run[r] IN {RecordOf(r, w.reports[i]) : i \in DOMAIN w.reports}

\* The records the run's commit adds: those of the reports it did not refuse.
Written(r) ==
    LET w == run[r] IN {RecordOf(r, w.reports[i]) : i \in DOMAIN w.reports \ w.refused}

\* A push is a fast-forward or it is rejected.
FastForward(r) == Len(main) = run[r].at

PushLands(r, acknowledged) ==
    /\ run[r].phase = "push" /\ FastForward(r)
    /\ Len(main) < MaxMain
    /\ main' = Append(main, run[r].tree)
    /\ run' = [run EXCEPT ![r] = IF acknowledged
                 THEN [phase |-> "pushed", written |-> Written(r), commit |-> Len(main) + 1]
                 ELSE End(r, "broke")]
    /\ UNCHANGED results

\* An error that is not a race ends the run where it is.
PushBreaks(r) ==
    /\ run[r].phase = "push"
    /\ run' = [run EXCEPT ![r] = End(r, "broke")]
    /\ UNCHANGED <<main, results>>

\* Mutant: one attempt too many.
PushRejectedOnceMore(r) ==
    LET w == run[r] IN
    /\ w.phase = "push" /\ ~FastForward(r)
    /\ run' = [run EXCEPT ![r] = IF w.attempt <= ATTEMPTS
                 THEN Again(w, Len(main), w.attempt + 1, w.withdrawn)
                 ELSE End(r, "exhausted")]
    /\ UNCHANGED <<main, results>>

\* Rejected: main is fetched again and everything is re-applied to it, until
\* the attempts run out.
PushRejected(r) ==
    LET w == run[r] IN
    /\ w.phase = "push" /\ ~FastForward(r)
    /\ run' = [run EXCEPT ![r] = IF w.attempt < ATTEMPTS
                 THEN Again(w, Len(main), w.attempt + 1, w.withdrawn)
                 ELSE End(r, "exhausted")]
    /\ UNCHANGED <<main, results>>

\* The commit is named in the result of every report it holds.
Finalize(r) ==
    /\ run[r].phase = "pushed"
    /\ results' = results \cup {[rec |-> d, commit |-> run[r].commit] : d \in run[r].written}
    /\ run' = [run EXCEPT ![r] = [phase |-> "done", outcome |-> "committed", ids |-> {}]]
    /\ UNCHANGED main

Crash(r) ==
    /\ run[r].phase \in {"apply", "commit", "push", "pushed"}
    /\ run' = [run EXCEPT ![r] = [phase |-> "done", outcome |-> "crashed", ids |-> {}]]
    /\ UNCHANGED <<main, results>>

Step(r) ==
    \/ Compose(r) \/ ApplyReport(r) \/ PushBreaks(r) \/ PushRejected(r) \/ Finalize(r)
    \/ \E ok \in BOOLEAN : Settle(r, ok) \/ AskMain(r, ok) \/ PushLands(r, ok)

-----------------------------------------------------------------------------
(* Everyone else who pushes to main                                          *)

Tip == main[Len(main)]

Lands(kind, tree) ==
    /\ kind \in Edits
    /\ Len(main) < MaxMain
    /\ main' = Append(main, tree)
    /\ UNCHANGED <<run, results>>

\* An operator denies a fingerprint, which is never un-pressed; the owner
\* approves one; his passkey is revoked; and commits about something else.
LandDeny == \E x \in Releases \ Tip.denied : Lands("deny", [Tip EXCEPT !.denied = @ \cup {x}])
LandApproval == \E x \in Releases \ Tip.approved : Lands("approval", [Tip EXCEPT !.approved = @ \cup {x}])
LandRevocation == Tip.approved # {} /\ Lands("revocation", [Tip EXCEPT !.approved = {}])
LandOther == Lands("other", Tip)

Others == LandDeny \/ LandApproval \/ LandRevocation \/ LandOther

EmptyTree == [versions |-> {}, pages |-> {}, records |-> {}, index |-> [versions |-> {}, pages |-> {}],
              denied |-> {}, approved |-> {}]

Init ==
    /\ main = <<EmptyTree>>
    /\ run = [r \in Runs |-> Waiting]
    /\ results = {}

Next == Others \/ \E r \in Runs : Step(r) \/ Crash(r)

Spec == Init /\ [][Next]_vars

-----------------------------------------------------------------------------
(* Safety                                                                    *)

\* INV-12 at publish time, over any two commits and not only neighbours: a
\* listed version is never rewritten or lost, and one listed later is newer.
VersionsOnlyAdvance ==
    \A i, j \in DOMAIN main : i < j =>
        /\ main[i].versions \subseteq main[j].versions
        /\ \A x \in main[j].versions \ main[i].versions, y \in main[i].versions : x.id = y.id => x.ver > y.ver

\* DEC-7 and BOT-36: what a commit recorded stays in every later one as it was
\* written, and a decision that is on main twice all the same was made by two
\* runs that dated it in two months -- never by one run's retries.
DecisionsAreFinal ==
    /\ \A i, j \in DOMAIN main : i < j => main[i].records \subseteq main[j].records
    /\ \A d, e \in Tip.records : d # e /\ DecisionId(d) = DecisionId(e) => d.by # e.by /\ d.month # e.month

\* TRUST-33 and operator acts 4.7: nothing is published over a deny that main
\* holds by then, or on an approval main has since revoked -- whenever the deny
\* or the revocation landed while the run held the report.
WithdrawnNeverLands ==
    \A i \in DOMAIN main : i > 1 =>
        \A d \in main[i].records \ main[i - 1].records :
            d.state = "published" => d.rel \notin main[i - 1].denied /\ (d.owner => d.rel \in main[i - 1].approved)

\* The index a commit carries was generated from that commit's own tree, and
\* not from the tree the run built on.
IndexDescribesTree == \A i \in DOMAIN main : main[i].index = Catalogue(main[i])

\* BOT-6: a result that is posted names the commit that added its record.
ResultsAreTrue ==
    \A x \in results : x.commit > 1 /\ x.rec \in main[x.commit].records \ main[x.commit - 1].records

-----------------------------------------------------------------------------
(* What a comment says and the code does not                                 *)

\* publish-apply.mjs:41-43: "two runs racing to push now end in a refusal rather
\* than in a lost commit or a silent overwrite" -- no commit puts a listing's
\* page back to an older release.
NoSilentOverwrite ==
    \A i, j \in DOMAIN main : i < j =>
        \A x \in main[i].pages, y \in main[j].pages : x.id = y.id => x.ver <= y.ver

-----------------------------------------------------------------------------
(* Liveness                                                                  *)

Fairness == \A r \in Runs : WF_vars(Step(r))
LiveSpec == Spec /\ Fairness

\* A run that composed ends: rebuilding without what main withdrew costs no
\* attempt, and still cannot go on for ever.
RunsEnd == \A r \in Runs : run[r] # Waiting ~> run[r].phase = "done"
=============================================================================
