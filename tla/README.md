# Astra plugin registry: TLA+ models, checks and proofs

The repository is a registry of plugins. Its content is a git branch, `main`;
what clients read is another, `signed`, and a copy of it on GitHub Pages. Almost
all of its logic runs in GitHub workflows that race each other, crash, lose
answers and start from commits that are no longer the newest. These models are
about that: which commits reach the two branches, and what clients are served.

## The system

| Component | Source | State | Operations |
|---|---|---|---|
| Signer, publish job | `tools/signer/{run,plan,key-window,git}.mjs`, `sign.yml` | the branch `signed`: catalogue, withdrawal list, `trust.json`, `root.json`, trailers | read the head, decide each document (changed, re-sign, unchanged, carry, blocked), sign, check the commit, push fast-forward, retry |
| Signer, pages job | `tools/signer/pages.mjs`, `run.mjs`, `sign.yml` | what Pages serves | latch, assemble the four documents, compare, deploy |
| publish-apply | `bot/publish-apply.mjs`, `bot/lib/service-publish.mjs` | listings, decision records, the generated index on `main` | apply reports, check, commit, ask main, push, redo, name the commit in results |
| Ingest decisions | `bot/lib/service-decide.mjs`, `bot/ingest.mjs`, `bot/lib/decisions.mjs` | none (a plan per lease) | verify, bind, hold, publish, refuse |
| Ingest jobs | `bot/lib/service*.mjs`, `plugins-ingest.yml` | leases at the external service | claim, ask, report, retry |
| Polling | `bot/lib/poll*.mjs` | releases seen, etags | schedule, poll, back off |
| Moderation | `bot/moderation-run.mjs`, `bot/lib/{compile-decision,takedown-bound,holds,settled}.mjs` | records on `main` | list, compile, commit, redo |
| Operator acts | `bot/lib/operator-act*.mjs`, `operator.yml` | deny, alert and OK records | deny, OK |
| Alerts, heartbeat | `bot/alert.mjs`, `bot/heartbeat.mjs` | alarms already sent | send once per state |
| Baseline, detectors, re-check | `bot/{baseline,detectors,recheck-publishers}.mjs` | records on `main` | batch jobs |
| Validation, generators | `tools/{validate,build-index,build-revocations}.mjs` | none | pure functions of a checkout |
| Policy, bundle inspection | `bot/lib/policy/`, `bot/lib/{bundle,rpcscan,attestation,...}.mjs` | none | pure functions of one submission |
| Served-set watches, coverage, canary, site | `tools/served-set/`, `tools/coverage/`, `site/` | none | read and report |

They meet at the branches. Ingest, moderation, operators and maintenance jobs
push to `main`; each push triggers the signer, which also runs hourly and can be
run by hand. The signer reads `main` at one commit and `signed` at another, and
pushes to `signed`. The pages job reads both and deploys. Nothing holds a lock
across two of these: a git push is the one atomic step, and everybody redoes
their work, or gives up, when it is rejected.

What is hard in it, and listed line by line as hazards in `PROJECT.json`:

- two runs plan against one head; a push lands and its answer is lost; a fetch
  fails; a run dies between push and report;
- a run's inputs are older than the branch it pushes to (a stale clone, a stale
  base, a stale decision);
- key rotation: clients cache `trust.json`, the environment may hold the old
  key, the new one or both, and a dropped key may be a compromise or a plan;
- partial failure: the catalogue is broken and the withdrawal list has to go
  out; one report of a batch is refused and the others land;
- facts of history as against facts of a file: the Pages latch, the first
  delegation of a key, serials that count commits;
- something withdrawn while a run holds it.

## Modules

| Module | What it is |
|---|---|
| `ServedLog` | The abstract specification of `signed`: an append-only log; each commit is *sound* (its documents verify under its own `trust.json`) and *follows* the one before it |
| `Signer` | The publish job, `main` as its input, racing runs, clock |
| `SignerProofs` | Theorems about `Signer`: what one commit and the one before it promise |
| `SignerHistoryProofs` | Theorems about `Signer`: what a commit says of `main` and of the branch's past |
| `SignerPages` | `Signer` and the pages job |
| `SignerPagesProofs` | Theorems about `SignerPages` |
| `PublishApply` | The publish job of `plugins-ingest.yml` and everybody else who pushes to `main` |
| `PublishApplyProofs` | Theorems about `PublishApply` |
| `Ingest` | A submission from claim to report: leases, decisions against a stale tree, alerts, windows, publication, results |
| `IngestProofs` | Theorems about `Ingest` |
| `Moderation` | Moderation runs, the takedown bound, holds, and what the service is told |
| `ModerationProofs` | Theorems about `Moderation` |
| `RecursionLemmas` | Induction over the positions of a sequence, and the orders in which a finite set is gone through: what the proofs about `Ingest` and `Moderation` need |
| `MC*` | Model values and symmetry for TLC |

Operators under a comment that starts "Mutant" are deliberately wrong versions
of a definition that follows them. They are used by no specification. `PROJECT.json` names the property that must fail when
one takes its original's place.

### Signer

`main` is a sequence of *trees*. A tree keeps what the signer reads of a commit:
the catalogue's content (serial, plugins, publishers, whether the gates pass),
the list's content, which keys `trust.json` delegates, the retirement record,
the version of `trust.json` and `root.json`, and when it was committed. Content
is a member of a small set; only equality, serials and times matter to the code.
`signed` is a sequence of commits: the two signed documents (content, signers,
`issued_at`), the two copies and the two trailers. `runs` holds what each run
knows; `clock` is an hour counter and a runner's clock may be `Skew` hours off.

| Action | Code |
|---|---|
| `LandPlugins`, `LandMerge`, `LandPublisher`, `LandGenerator`, `LandAdvisory`, `LandCopies`, `LandRoot` | commits on main that change what the signer reads. A merge lowers no content and may lower the count of commits, hence the serial (`revCount`) |
| `LandRotation`, `LandDrop`, `LandRetirement` | a new `trust.json`: a key added, a key dropped, the record of a planned retirement |
| `Start` | a trigger of `sign.yml`. A workflow run reads main's head and starts only when no other does (its concurrency group); a run in `Shell` reads any commit of main |
| `Sign`, `SignBlind` | `stepSign`: `fetchSignedHead` (blind: the fetch failed and is read as "no branch yet"), `planRun`, `keyPlan`, `signRun` with its four checks over the whole commit |
| `BuildCommit` | `buildSignedCommit` |
| `PushSucceeds`, `PushFails` | `pushSigned`; a failure is a rejection, or a transport error before or after the push landed; then the fetch that decides on a retry |
| `Crash` | the job is lost |

`decideDocument`, `catalogueGate`, `listGate`, `catalogueSigners`,
`carryOrBlock` and the rest keep the names and the order of the code. `sign.yml`
is one action sequence because nothing else in it changes either branch.

### SignerPages

Adds `flag` commits on main and Pages. The arming state is read from main's
*history* at the commit the job checked out; `pagesRegistryFiles` takes three
documents from one commit of `signed`, and the list from there only once Pages
is armed. `PagesCheckout`, `PagesAssemble` and `PagesDeploy` are separate steps,
since another run's publish job may push between them; `PagesFails` loses the
job at any of them. A deployment is skipped only when Pages answers with exactly
the bytes assembled.

### PublishApply

`main` is a sequence of trees: version files, listing pages (`plugin.json`,
README and icon, by the release they come from), decision records, the index,
denies and approvals. A run composes reports from decisions made at *its* base,
which may be any earlier commit, since the checkout is at `github.sha`, the
commit of the trigger. It applies them one by one (`ApplyReport`; every refusal
is raised before a byte is copied), regenerates and checks (`Settle`), fetches
main and drops what it withdrew (`AskMain`), and pushes (`PushLands`,
`PushBreaks`, `PushRejected`). `Finalize` names the commit in the results.
A record is kept by its path (`RecordPath`): the month it is dated in and the
`DecisionId`, which is over the submission, the release and the state. A run
dates all its records when it begins, and looks for an earlier one of the same
id in every month, but at its base; when it applies a report it looks only at
that path, as `applyReport` does. Two held records of one submission at two
releases are two decisions.
`LandDeny`, `LandApproval`, `LandRevocation`, `LandOther` are everyone else.

The workflow has one concurrency group, so two of its runs do not overlap today.
The job has none and its header says that the file, and no group, is what keeps
racing runs apart, so the model lets them overlap. Every interleaving of stale
bases without overlap is included.

### Ingest

One listing of one repository, with a submission per tag. `main` is one tree:
decision records (their path is the release and the state), listed versions, the
identity record's token, the alert record of each release, denies, OKs and the
owner's approvals. `svc` is the service's view of each submission, with its
lease; `approvals` counts a moderator's approvals of each release, `sent` is
what the alert channel delivered and how long ago, `notice` is ID-60's notice to
the account a binding is taken from. A release is a tag and the number of its
upload, which is what a fingerprint tells apart.

| Action | Code |
|---|---|
| `Trigger`, `Claim` | `plugins-ingest.yml`: one run under way, one pending, each at the commit that triggered it; `claimJob` |
| `Decide` | `askJob`, `decideJob`, and `decideSubmission` with its gates in the order of the code: early refusal, answers on main, stop, errors, holds, deny, approvals, covered first bindings |
| `Alert` | the alert job, and whether the channel delivered |
| `Publish` | `composePublication`, `applyAll`, the push and `finalizeResults`, in one step; or the job dies after the push |
| `Report` | `reportJob`, some of whose results are lost |
| `Crash` | the run dies before it pushed |
| `Arrive`, `Approve`, `Tell`, `Stop`, `RecordStop` | the service, a moderator, and the moderation run that records an author's stop |
| `Upload`, `Delete`, `Revoke` | the author changes the release, or its binding token is revoked |
| `LandDeny`, `LandOk`, `LandOwner` | operator acts |
| `Tick` | time: the ages of alerts and notices, and the leases |

Publishing is one step because `PublishApply` takes it apart, and what it shows
is what this step assumes: a report lands whole or is refused, and a deny that
is on main at the push is honoured.

### Moderation

`main` is the tip and what the code reads of its history for each decision: the
commits that logged it, the commit that entered its hold, the last that deleted
it. That is all `walkHolds`, `appliedOnMain` and `resultsFromState` ask of git.
A tree also has the confirm and cancel records, the listings off the catalogue,
the revokes whose advisory stands, the time each withdrawal has left in
TRUST-26's window, and the settled record. `Matches` is what each decision acts
on: a delist or a relist its own listing, a revoke for an account's conduct also
the listings beside it, which its `identity` entries match
(`compile-decision.mjs:1538-1540`). `withdrawnBy` spends those that are listed,
`Dated` gives each a date in the window, and a relist of any of them is refused
while the advisory stands (`advisoryCovering`).

| Action | Code |
|---|---|
| `Trigger` | `plugins-moderation.yml`: one run under way, one pending |
| `List`, `ListFails` | the list and history jobs: the decisions the service lists, the results history decided, and which of those it said it took |
| `Compile` | the commit job: `compileAll` under the ledger of `admitHeldTakedowns`, `writeHoldEntries`, `releaseHolds`, `cancelHolds`, the strays, the settled record, `resultsFor` |
| `PushLands`, `PushUnheard`, `PushRejected` | the apply job's push; after a rejection `redo` compiles the same inputs over the new main, `ATTEMPTS` times |
| `Report` | `--job report`, which posts nothing when a decision has two final results |
| `Crash` | a job dies, before the push or after it |
| `Decide` | a moderator |
| `LandConfirm`, `LandCancel`, `LandRevert` | `operator.yml` |
| `LandDeletion`, `LandWithdrawal`, `LandOther` | a person's commits |
| `Tick` | the window moves |

`LandDeletion` takes the records that answer the hold away with its entry. A
person may leave them; `readHolds` pairs records with entries, so one without an
entry answers nothing, unless the same decision is held once more. That case is
left out.

Time is kept as what is left of the window and runs in every tree a run holds,
so that a commit's date is its push's. The order in which the service lists its
decisions is any.

The three loops of the commit job are functions of a position: `Admit` is one
hold's turn in `admitHeldTakedowns`, `CompileOne` one decision's in
`compileAll`, `ReleaseOne` one release's in `releaseHolds`, and each function
has what the loop has made so far. `readHolds` is the set of the orders that the
code's sort may return. That is one order, and written as a set it has no choice
in it that a proof would have to undo.

## What is checked

The passing runs take between a few seconds and about two and a half minutes
with two workers.

| Run | Question | Result |
|---|---|---|
| `signer_races` | the workflow's run against one from a shell on a stale clone, blind fetches, lost answers and crashes, while plugins and merges change the catalogue and its serial | `SerialsIdentifyListings`, `TrailersAreTrue`, `ImplementsServedLog` hold |
| `signer_keys` | keys added, dropped, retired, with and without a change to the catalogue; environments holding no key, the new one or both | `CommitsVerify`, `CachedTrustVerifiesCatalogue` hold |
| `signer_list` | a rotation, new roots, unreadable copies, a broken catalogue; any finite number of faults | `RotationKeepsList`, `TrustNeverRollsBack`, `WithdrawalIsServed` hold |
| `pages` | publish and pages jobs with lagging clocks, arming and reverting the flag, lost jobs, failed deploys | `PagesServesOneCommit`, `LatchNeverOpens`, `PagesNeverRollsBack`, `PagesCatchesUp`, `ArmingTakesEffect` hold |
| `publish_race` | two runs, two versions with two possible contents each, stale bases, dated in one month or in two | `VersionsOnlyAdvance`, `DecisionsAreFinal`, `IndexDescribesTree`, `ResultsAreTrue` hold |
| `publish_withdrawn` | denies, approvals, revocations and unrelated commits while a run holds reports | `WithdrawnNeverLands`, `RunsEnd` hold |
| `ingest` | two tags of a listing that is being bound for the first time, built by its owner, or changing hands, with stale trees, expiring leases, lost calls and results, undelivered alerts, replaced and deleted releases, stops, denies, OKs and second approvals | `ApprovedBytesOnly`, `SettledIsRecorded`, `OperatorHadHisWindow`, `FirstBindingIsAnswered`, `PreviousAccountTold`, `ApprovedIsAnswered` hold |
| `moderation` | a delist, a revoke that matches a second listing, and a relist beside lost pushes and results, dead jobs, operators and other people's commits | `AppliedOnce`, `FinalIsTrue`, `LastHadRoom`, `NoOvertaking`, `HoldsEnd`, `DecisionsAreAnswered` hold |
| `signer_push_race` | is a push reported as a race really overtaken? | violated: see below |
| `publish_overwrite` | does a listing's page never go back to an older release? | violated |
| `moderation_cancelled` | does a cancelled hold end its decision? | violated |
| `moderation_give_back` | does the bound hold when a listing is revoked and given back in one run? | violated |

### The four disagreements

1. **A lost acknowledgement is reported as a race.** The push landed; the retry
   fetches and finds a head that is not the parent: its own commit.
   `pushSigned` takes it for another publisher's, and the commit gets no receipt.
2. **The same release again rewrites the page.** `refuseVersionRegressions`
   lets equal bytes through as a no-op. The copy loop then copies `plugin.json`,
   the README and the icon as well. If the run's base is older than the
   listing's newest release these are an older release's. Two submissions of the
   same release, in two runs of which the second was triggered before the first
   pushed, are enough. The version files and the index's version list stay
   right.
3. **A cancelled takedown can still be applied.** A run's push of a hold was not
   heard, or its `held` result was lost, so the service goes on listing the
   decision. An operator cancels the hold. The next compile leaves out only what
   the moderation log has (`moderation-run.mjs:2612`), and a cancelled decision
   is not in it: the takedown is compiled as new. `RUNBOOK.md:726` and
   `moderation-run.mjs:1937-1938` say that a cancel applies nothing.
4. **A run that gives a listing back and revokes it passes the bound.** What a
   takedown withdraws is asked of the listing at the run's base
   (`takedown-bound.mjs:667`, `headListing`). A listing that is off is not in it,
   so a revoke costs nothing. But the same run relists it (the advisory that
   would refuse the relist is not on the tree yet), and its own commit then has
   the listing listed and under an advisory. The next count reads that commit's
   listing and has it. In the trace a person has withdrawn the first plugin; one
   run compiles its revoke, its relist and the delist of the second, and leaves
   two withdrawals under a bound of one. `withdrawnBy` (`644-648`) says that it
   reads "the three triggers `countWindow` reads out of a commit, read here out
   of the commit about to be made". `RUNBOOK.md:781-782` says "one run never takes
   away more than the bound allows".

Met on the way, without a run of their own:

- The bound is passed without any relist too. `over()` is asked before a takedown
  compiles (`moderation-run.mjs:799-809`) and, for a hold, before it is admitted
  (`1659-1671`); a revoke of an account then withdraws its siblings as well, all
  at once. With room for one it withdraws two. That is what `RUNBOOK.md:780-782`
  and `moderation-run.mjs:1628-1631` ("one run never releases more than the bound
  admits") say cannot be. Add `WithinBound` to `Moderation.cfg` and TLC shows it
  in six steps, without a fault or a person's commit. What the code does keep is `LastHadRoom`: each
  takedown it applied had found room, so that only the last one passes the bound.
- One decision can be recorded twice. `recordsOnMain` looks in every month
  because "a dedupe that only looked where it was about to write would find
  nothing" (`decisions.mjs:1103-1111`), but it looks at the base. When main moves,
  the apply job looks only where it is about to write
  (`publish-apply.mjs:492-495`). Two runs that hold one submission under an
  expired lease, one dated before a month's end and one after it, both record it.
  `DecisionsAreFinal` says that this is all: both records stay, and no run's
  retries make a second one.
- `publish-apply.mjs:13` calls exit code 3 a commit to the same listing. It
  means that five pushes were overtaken, by anything (`PushRejected`); a commit
  to the same listing leads to a refusal or to a redo.
- A compromise alone re-signs nothing. `key-window.mjs:44` says the catalogue is
  re-signed in the same run; with unchanged content the plan keeps it and SERVE-95
  then blocks the commit. `plan.mjs:70-77` says so itself, and nothing wrong is
  served: `CommitsVerify` and its proof establish that.
- Two tags of one listing, built by two owners of its repository under two
  tokens, are decided by two runs of which the second was triggered before the
  first pushed. The second run's tree has no identity record, so it sees no
  change of hands, and the record it copies (`publish-apply.mjs:578`) replaces
  the first's; nobody is told. `Ingest` reaches that in a trace of eleven states.
  `docs/POLICY.md:257` (the previously bound account is told first) does not say
  what it means between two bindings of which neither was the listing's when its
  tag was decided, and `PreviousAccountTold` speaks of the records that name the
  change.
- A run that has nothing to commit never pushes, so nothing shows it the main it
  is behind. On an old base a takedown that an unheard run has applied meanwhile
  may look impossible there, and the run posts `refused` for it, which is final
  (`compile-decision.mjs:1424`). It takes two faults and two people's commits.
  `FinalIsTrue` therefore says nothing of `refused`.
- The path before the fingerprint (`service-decide.mjs:1090-1142`) looks for an
  earlier refusal and not for the publication main may have. A release that was
  published and then deleted, before its result arrived, ends as `refused` at
  the service while main lists it.
- `resultsFor` refuses to post when one run has two final results for a decision
  (`moderation-run.mjs:2045`), and then posts none of that run's. History posts
  them later, so `DecisionsAreAnswered` holds all the same.

### Bounds

Unbounded quantities have named bounds, and each appears as a guard of an
environment action or of a fault only, never of a step of a healthy run. (Two
exceptions: a run's push is bounded by `MaxMain` in `PublishApply`, where a fuller
main is a run that is never scheduled again, as after a crash; and a delivery by
`MaxSent` in `Ingest`, which stops none.)

- `MaxMain` (commits on main) 2 to 4: enough for a base, a change, a change of
  the change, and one more while a run is under way. `LandUntil` ends main's
  commits so that later hours are the signer's alone.
- `MaxClock` (1 to 4) with `WINDOW` 2, `RESIGN` 2 and `BACKSTOP` 3: the
  clock passes each of them and comes back to each decision after it. The code's
  constants (7, 3, 34) matter by their order, which the scaling keeps.
- `Ingest`: two submissions and two runs: one under way and one that waits, with
  a tree from before. `LEASE`, `WINDOW` and `NOTICE` 1: each ends by one `Tick`,
  and what tells them apart is which ended, not how long they were. `MaxBytes`
  and `MaxApprovals` 2: bytes replaced after an approval, an approval given again
  after an alert. `MaxSent` 6 is as many alerts as the other bounds let be sent
  (with 8 the state space is the same). `MaxTrouble` 1: any one fault or change of
  mind at any step. Safety was also run by hand with two (3.1 million states,
  `MaxSent` 3), without an error.
- `Moderation`: `BOUND` 1 is full after one takedown and `WINDOW` 1 empties it in
  one tick; with `ATTEMPTS` 1 a run's second rejected push ends it, which one
  fault and one edit are enough for. Three decisions about two listings: one to
  fill the bound, one to be held, one to undo. `MaxFaults` 1 and `MaxEdits` 1: any
  fault and any commit of a person at any step; safety was also run by hand with two of each (12 million
  states), without an error. `moderation_give_back` needs no fault, no second
  attempt and one withdrawal by a person.
- Two keys: an overlap needs two, and a third adds only another rotation. Two
  listings' worth of content: equality is all the code asks.
- Runs: one workflow run and one from a shell, since the concurrency group
  leaves at most one workflow run; two runs of publish-apply.
- `ATTEMPTS` 2, 1 where pushes are not the question (3 and 5 in the code): a
  first attempt and a retry are the two cases; the last attempt behaves the same at any number.
- `MaxReports` 2, `MaxVer` 2 (three leases per claim in the code): a report
  that is refused beside one that is not, and a newer version beside an older. Two
  months where two runs race and one where they do not: only whether two dates fall
  in one month matters.

Symmetry is used in runs with safety properties only, over sets no definition
distinguishes. `CHECK_DEADLOCK FALSE` is set for `PublishApply`, where a run
happens once, so the model really stops when all have ended, and for `Ingest`,
where a run with nothing to claim changes nothing: with every submission settled
and the bounds used up, nothing is left to happen. In `Signer` and `Moderation`
the trigger never ends, and deadlock is checked.

### Fairness

`Signer`: weak fairness of the clock, of the hourly trigger and of each run's
own steps: `sign.yml` has a schedule, and a started job goes on. Faults (a lost
job, a failed fetch, a push failed that could land) come in any number and any
order and at some point stop; with faults for ever nothing could be promised. A
step a healthy run could have taken as well is not counted as a fault: without
that clause a run that finds nothing to publish would be a crash, faults would
never stop, and every liveness property would hold of no behaviour at all. No
fairness is assumed for commits on main. `SignerPages`: the same, with the pages
job's steps and its faults, and strong fairness of its start: every run of the
workflow has a pages job, and the next run's publish job disables it. `PublishApply`: weak fairness of each
run's steps; a failing step also counts as one.

`Ingest` and `Moderation`: weak fairness of the trigger (both workflows have a
schedule) and of the steps of the run under way, a failing step counting as one
while the bound on faults lasts. Of the others only what a service or a schedule
does by itself is fair: the service's notice, the moderation run that records a
stop, and time; in `Ingest` time is strongly fair, since a lease that would end
under a run at work uses up the bound and disables the tick. Nobody has to
approve, confirm, cancel or land anything. Weak fairness of the runs' steps is
written with their enabling condition (`Ready`) spelled out, because `Step`
quantifies over all orders and subsets; that `Ready` equals `ENABLED` of the
step was checked with TLC as an invariant of each instance.

## What is proved

`SignerProofs` proves, for every set of keys, runs and listings and every value
of the bounds, with only the assumptions stated in `Signer` (`KeysAssumption`,
`ShellAssumption`, `TimeAssumption`):

- `TypeCorrect`: `Spec => []TypeOK`;
- `EveryCommitVerifies`: `Spec => []CommitsVerify`. No commit on `signed` has a
  document that does not verify beside its own `trust.json` (SERVE-95);
- `Refinement`: `Spec => ImplementsServedLog`. The signer implements
  `ServedLog`: every step appends one sound commit that follows the last, or
  changes nothing;
- `SerialsAreHonest`: `Spec => []SerialsIdentifyListings`, between any two
  commits.

The argument is one inductive invariant, `IInv` (`Invariance`). `CommitsVerify`
and the step condition of `ServedLog` are not inductive: what a push appends was
decided several steps before, against a head read then. `IInv` adds

- `PlanHolds`: from signing to push, a run's parent is a commit that is still on
  `signed`, the commit in hand is sound, and it follows that parent;
- `SourcesExist`: a run's Source-Commit is on main;
- soundness of every commit on `signed`, carried documents being the reason.

A push is a fast-forward: when it lands, the parent *is* the head, and so
`PlanHolds` is the step condition. That is also why a blind fetch is harmless: a
plan against an empty branch can only be pushed to one. `CommitFollows` is the
lemma with the content of `signRun` in it: case by case, a document that is
signed now is later than the head's and passed its gate, and one that is carried
is the head's. `SerialsAreHonest` then goes from neighbours to any two commits:
serials do not fall, so equal serials at both ends are equal in between.

`PublishApplyProofs` proves every safety property the two runs of `PublishApply`
check, for every number of runs, plugins, versions, submissions and reports and
every bound, with the assumption `BoundsAssumption` alone: `TypeCorrect`,
`VersionsAdvance`, `DecisionsStay`, `WithdrawnStaysOut`, `IndexIsItsOwn` and
`ResultsNameTheirCommit`. Runs may overlap and start from any earlier commit.

What a push appends was composed at one commit, dropped from at another and
built on a third, so the six are not inductive by themselves. `IInv` adds, for
each run:

- `RunHolds`: its tree `Advances` on a commit of main, and every record it adds
  is one of its reports that was not dropped; after `AskMain`, if main still has
  the length of the run's base, the base has withdrawn none of them. Main only
  grows, so a push that is a fast-forward was asked about the very tree it
  lands on. If main had moved the push is rejected, and nothing is claimed;
- `Unpushed`: a run that has not pushed has no record on main, so that a result
  names the commit that added its record and not one that had it before;
- `PushHolds`: what a run that has pushed will name.

`AppliedAdvances` is the lemma about one report (`refuseVersionRegressions` and
the copy loop), `MainGrows` the one about a commit: a property of neighbours
becomes one of any two commits there.

`SignerHistoryProofs` proves the invariants that are about the past. `HInv`
(`History`) says of every commit, and of what a run has in hand, that its
documents were made from commits of `main` no later than its Source-Commit and
that the trailers name them. A carried document has its trailer from the head it
was carried from, so the claim passes from commit to commit however long it is
carried.

- `TrailersTrue`: `Spec => []TrailersAreTrue`, no hypothesis: any shell, any race.
- `ListSurvivesRotation`: `RotationKeepsList`, where every environment holds all
  signing keys or none (`AllKeysHeld`). A job with the incoming key alone cannot
  sign the list for a client that knows the outgoing one only.
- `TrustOnlyAdvances`: `TrustNeverRollsBack`, with one run at a time
  (`OneAtATime`: the concurrency group of `sign.yml`, and nobody signs from a
  shell). The strengthening is that Source-Commits never go back along the branch.
- `CachedTrustSuffices`: `CachedTrustVerifiesCatalogue`, with `OneAtATime`, with
  `Exempt` within the genesis keys (`key-window.mjs:92-96` exempts those and no
  other), and with clocks that are right (`Skew = 0`). `WindowHolds` says the same
  for any `Skew`, with the window shortened by it: the code measures seven hours
  between one runner's clock and another's.

Each hypothesis is one about constants and is true in the instance of the run that
checks the property.

`SignerPagesProofs` proves every safety property of the `pages` run
(`PagesTypes`, `OneCommitServed`, `LatchHolds`, `PagesAdvances`) and that `Signer`
beside the pages job still implements `ServedLog` (`LogUnderPages`). The pages
job's steps leave the publish job alone, so `IInv` of `SignerProofs` is reused
(`SharedStep`). What it adds is that what a job read, and what Pages serves, are
documents of one commit of `signed`, that a job under way is the only one, and
that its commit is no earlier than the one Pages serves. The latch is closed by
a commit in the history of the job's checkout, and a history keeps its commits.

`IngestProofs` proves `TypeOK`, `ApprovedBytesOnly`, `SettledIsRecorded`,
`OperatorHadHisWindow`, `FirstBindingIsAnswered` and `PreviousAccountTold`, for
any number of submissions and runs and any bound. The idea of its invariant
(`IngestInvariance`) is that what a run knows is old and still true:

- `Behind`: the tree a run decided on was `main`'s once; records, OKs, owner's
  approvals and the fact of a binding never leave it;
- what a run knows of the alert channel and of the notice is a prefix or a lower
  age of what they are now;
- `Justified`: a plan that publishes carries its reason, stated of a tree main
  held once; by `Behind` the reason holds on the tree it lands on.

`applyAll` publishes plans in any order, and each may refuse the next; that every
prefix keeps the invariant is proved position by position.

`PreviousAccountTold` speaks of a release that an approval publishes
(`d.by # "bot"`). In an earlier form it spoke of every publication, and its proof
did not go through because that is false: where two tags carry the new token, the
first to be published binds the listing to it, the second then changes no hands,
nothing holds it any more and the bot publishes it like any other release. TLC
has the trace once both tags are given that token.

`ModerationProofs` proves `TypeOK`, `AppliedOnce`, `FinalIsTrue`, `NoOvertaking`
and `LastHadRoom`, with the assumption `ModerationAssumption` alone. Its invariant (`ModerationInvariance`)
follows one decision through history:

- `Behind`: every tree a run or the queue holds was `main`'s; where it has
  main's length it *is* main, which is when a push lands. So a commit that is
  right for its base (`CommitTrue`) is right for main;
- `GoodTree`, `Later` and `Grown`: a decision is logged by one commit, log
  entries and ended holds stay, and a commit begins nothing for a decision its
  list answer did not name. The service does not list a decision whose hold it
  has heard of, so nothing begins it again;
- `Known` and `ViewTrue`: once such a hold has ended, every tree from then on has
  one `Answer` for it, and that is what every result from history says. For a
  decision nothing ever held, what the service was told is what the last run to
  have it found.

`NoOvertaking` and `LastHadRoom` are facts about one compile. Along the holds,
`AdmittedBy` says at each position that what was spent is what the admitted holds
withdraw and that a hold left waiting had found the bound full; along the list
answer, `AllTrue` says the same of the takedowns that came after. Both say also
that the takedowns taken so far are `Roomy`: there is one of them without whose
matches the window is under the bound. Taking one more keeps that, since it was
`Over` that let it in, and so does having taken fewer (a release may be refused
later), since the others' withdrawals are then not there. `CommitIs` adds the
releases, `CommitTakes` that what the commit's own count finds new is what its
decisions match, and `CommitWindowed` that nothing else enters the window.

`LastHadRoom` sets aside what the last takedown matches and what the same commit
gave back. Without the first it is false because a takedown is asked once for
all it withdraws; without the second it is the run `moderation_give_back`.

The strengthened invariants were checked with TLC on small instances before they
were proved (that of `Moderation` over 299,754 states).

Induction. tlapm cannot instantiate the library's induction theorems, whose
parameter is an operator. The proofs about loops go round that: each loop is a
recursive *function* of a position, and a claim about every position is that a set
of numbers, `{n \in Nat : claim at n}`, is all of `Nat` (`NatSet`, from
`WFMin`, the one fact on well-founded relations that takes sets only).
`FoldExists` gives the recursive function its equations, and `EveryOrder` says
that a sequence of `SetToSeqs` goes through its set once.

Model-checked only: liveness (`WithdrawalIsServed`, `PagesCatchesUp`,
`ArmingTakesEffect`, `RunsEnd`, `ApprovedIsAnswered`, `HoldsEnd`,
`DecisionsAreAnswered`), which needs `ENABLED` and fairness; and the violations.

## What is not modelled

- Of the modelled components: receipts, the wake-up hint and the site in
  `sign.yml`; `flagPermanenceProblems`; the legacy queue, the etag memory,
  identity and alert records and the dry run in publish-apply; and the review
  mark, the one member of a version file that moderation may change later.
- Cryptography: a signature is the key that made it. Generators and validation:
  their verdicts are inputs.
- `Ingest`: what the checks find in an archive (on this path a finding refuses or
  holds nothing), a repository that is recycled or changes its owner, frozen and
  grandfathered listings, shadow answers, the legacy queue and the polling part
  of the claim. A decision that a first binding waits for under the owner's cover
  (`service-decide.mjs:1610-1618`) may wait until the owner's own release is sent
  again, and `ApprovedIsAnswered` leaves that case out by name.
- `Moderation`: yanks, appeals, reviews, corrections, deprecations and identity
  resets (each compiles to an edit and a log entry, as a delist does); holds of
  unbound listings, and with them the hold that is created and ended in one
  commit (`moderation-run.mjs:1760`, `1852`); passkey acts with their signature
  and announcement; a person's log entry; the documents' serials.
- In `Ingest`, the month in a record's path, since its runs' trees and its main
  meet in one month; `PublishApply` has it.
- Components with no module yet are listed with the reason in `PROJECT.json`:
  state to be modelled later (polling, alerts), pure functions without state (policy, bundle inspection, libraries), tools that
  only report (coverage, served-set, canary), and the static site.

`TrustNeverRollsBack` is checked for the workflow's runs alone: a shell on a
stale clone can take `trust.json` back when the catalogue is carried, since
TRUST-43a compares Index-Source-Commit, and the code leaves "sign it at main's
head" to the caller.

## Plan

In this order; the first five are done.

1. `ServedLog`, `Signer` and its proofs: what clients rely on.
2. `SignerPages`: composed with `Signer`.
3. `PublishApply`: how publications reach main.
4. `Ingest`: a lease from claim to report, with expiring leases, lost results and
   work that is leased again.
5. `Moderation`: runs that compile again after a rejected push, the takedown
   bound over a sliding window, holds and settled results.
6. Passkey acts in moderation runs (the announcement before an act and its
   dismissal), `Alerts` and `Poll`, and pure algorithms against reference
   definitions (`listing-state`, version order).
7. Proofs: every invariant and every action property that a passing run checks
   (done). Next: a specification of the moderation log that `Moderation`
   implements.
