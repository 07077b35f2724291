---------------------------- MODULE SignerPages ----------------------------
(* The pages job of the signer, after every publish job: what GitHub Pages    *)
(* serves under registry/v1 (tools/signer/pages.mjs, `--step pages` of        *)
(* run.mjs), composed with the publish job of Signer.tla and the moves of     *)
(* main.  Both jobs belong to one workflow run, so with the concurrency       *)
(* group a publish job never overlaps a pages job; a run from a shell may.    *)
(*                                                                            *)
(* The rendered site the documents are laid over is not modelled: its build   *)
(* is non-fatal and the documents always win (pagesTree).                     *)
EXTENDS Signer

VARIABLES
    flagged,   \* positions on main whose commit added policy/pages-withdrawal-list.json
    present,   \* is the file in main's tree now?
    unsigned,  \* registry/v1/revocations.json as committed at each position of main
    job,       \* the pages job
    pages      \* the four documents Pages serves, <<>> before the first deploy

pagesVars == <<job, pages>>
flagVars == <<flagged, present, unsigned>>
allVars == <<main, signed, runs, clock, flagged, present, unsigned, job, pages>>

NoJob == [phase |-> "none"]

\* Pages' list is a signed document or main's committed content.
Files == [index : IndexDoc, trust : Trust, root : Nat, list : ListDoc \cup ListContent]

PagesTypeOK ==
    /\ flagged \subseteq DOMAIN main /\ present \in BOOLEAN
    /\ unsigned \in Seq(ListContent) /\ Len(unsigned) = Len(main)
    /\ \/ job = NoJob
       \/ job \in [phase : {"ready"}, src : DOMAIN main]
       \/ job \in [phase : {"deploy"}, files : Files]
    /\ pages = <<>> \/ pages \in Files

-----------------------------------------------------------------------------
\* D5's latch: some commit reachable from the Source-Commit ADDED the flag.
\* Removing the file, or breaking it, disarms nothing.
armedWhilePresent(src) == present    \* mutant: reads the tree, not the history
armed(src) == \E i \in flagged : i <= src

\* Mutants: no list before the latch; root.json from main beside the others.
pagesWithoutList(src) ==
    [index |-> SignedHead.index, trust |-> SignedHead.trust, root |-> SignedHead.root,
     list |-> IF armed(src) THEN SignedHead.list ELSE <<>>]
pagesRootOfMain(src) ==
    [index |-> SignedHead.index, trust |-> SignedHead.trust, root |-> main[src].root,
     list |-> IF armed(src) THEN SignedHead.list ELSE unsigned[src]]

\* Three documents are `signed`'s head; the list is too once armed, and main's
\* committed one until then.
pagesRegistryFiles(src) ==
    [index |-> SignedHead.index, trust |-> SignedHead.trust, root |-> SignedHead.root,
     list |-> IF armed(src) THEN SignedHead.list ELSE unsigned[src]]

\* main moves and the committed list stays as it is, until somebody rebuilds it.
KeepCommittedList == unsigned' = Append(unsigned, unsigned[Len(unsigned)])

MainMovesHere == MainMoves /\ KeepCommittedList /\ UNCHANGED <<flagged, present>>

LandRebuild ==
    /\ Tip.list = "ok" /\ Lands("rebuild", Tip)
    /\ unsigned' = Append(unsigned, listContent(Tip))
    /\ UNCHANGED <<flagged, present>>

\* The flag file is added, or a commit reverts it.
LandFlag ==
    /\ Lands("flag", Tip) /\ KeepCommittedList
    /\ present' = ~present
    /\ flagged' = IF present THEN flagged ELSE flagged \cup {Len(main) + 1}

-----------------------------------------------------------------------------
WorkflowIdle == \A r \in Runners \ Shell : ~InFlight(r)

PagesCheckout ==
    /\ job = NoJob /\ WorkflowIdle
    /\ job' = [phase |-> "ready", src |-> Len(main)]
    /\ UNCHANGED <<main, signed, runs, clock, flagVars, pages>>

\* Mutant: a deploy only when Pages does not answer.
PagesAssembleIfSilent ==
    /\ job.phase = "ready"
    /\ \E answers \in BOOLEAN :
         job' = IF signed # <<>> /\ ~answers
                THEN [phase |-> "deploy", files |-> pagesRegistryFiles(job.src)]
                ELSE NoJob
    /\ UNCHANGED <<main, signed, runs, clock, flagVars, pages>>

\* stepPages: with no `signed` there is nothing to serve; a deploy only when
\* Pages answers with other bytes, or does not answer.
PagesAssemble ==
    /\ job.phase = "ready"
    /\ \E answers \in BOOLEAN :
         job' = IF signed # <<>> /\ (~answers \/ pages # pagesRegistryFiles(job.src))
                THEN [phase |-> "deploy", files |-> pagesRegistryFiles(job.src)]
                ELSE NoJob
    /\ UNCHANGED <<main, signed, runs, clock, flagVars, pages>>

PagesDeploy ==
    /\ job.phase = "deploy"
    /\ pages' = job.files
    /\ job' = NoJob
    /\ UNCHANGED <<main, signed, runs, clock, flagVars>>

\* The job is lost, the fetch of `signed` or the deploy fails.
PagesFails ==
    /\ job # NoJob
    /\ job' = NoJob
    /\ UNCHANGED <<main, signed, runs, clock, flagVars, pages>>

\* A workflow run's publish job starts only when the last run's pages job ended.
PublishJob ==
    /\ (\E r \in Runners : Run(r)) \/ Tick
    /\ job # NoJob => \A r \in Runners \ Shell : ~InFlight(r)'
    /\ UNCHANGED <<flagVars, pagesVars>>

MainJob == (MainMovesHere \/ LandRebuild \/ LandFlag) /\ UNCHANGED pagesVars

PagesInit ==
    /\ Init
    /\ flagged = {} /\ present = FALSE
    /\ unsigned = <<listContent(Tip)>>
    /\ job = NoJob /\ pages = <<>>

PagesNext ==
    \/ MainJob \/ PublishJob
    \/ PagesCheckout \/ PagesAssemble \/ PagesDeploy \/ PagesFails

PagesSpec == PagesInit /\ [][PagesNext]_allVars

-----------------------------------------------------------------------------
\* A client that saw a signed list armed and does not disarm: once Pages has
\* served the signed list it serves a signed list for good, whatever main does
\* to the flag and whichever job deploys last.
ServesSigned == pages # <<>> /\ pages.list \in {signed[i].list : i \in Commits}
LatchNeverOpens == [][ServesSigned => ServesSigned']_allVars

\* Pages never serves a mix: the documents from `signed` are one commit's, so
\* SERVE-95 holds of what a client fetches, not only of the branch.
PagesServesOneCommit ==
    pages # <<>> =>
        \E i \in Commits : /\ pages.index = signed[i].index /\ pages.trust = signed[i].trust
                           /\ pages.root = signed[i].root
                           /\ ServesSigned => pages.list = signed[i].list

\* Pages never goes back to an older catalogue or an older list.
PagesNeverRollsBack ==
    [][pages # <<>> =>
         /\ pages'.index.content.serial >= pages.index.content.serial
         /\ pages'.index.issued >= pages.index.issued
         /\ ServesSigned => pages'.list.issued >= pages.list.issued]_allVars

\* Every run of the workflow has a pages job after its publish job: strong
\* fairness, since the next run's publish job disables it.  A job that ends with
\* nothing to deploy is not one that was lost.
PagesFairness ==
    /\ Fairness
    /\ SF_allVars(PagesCheckout) /\ WF_allVars(PagesAssemble) /\ WF_allVars(PagesDeploy)
    /\ <>[][PagesFails => PagesAssemble]_allVars

PagesLiveSpec == PagesSpec /\ PagesFairness

PagesServesHead == signed # <<>> /\ pages # <<>> /\ pages = pagesRegistryFiles(Len(main))

\* D5: one failed deploy cannot age what is served -- every later run compares
\* the bytes and deploys again, so Pages keeps returning to `signed`'s head.
PagesCatchesUp == []<>(signed = <<>> \/ PagesServesHead)

\* Arming takes effect, and for good.
ArmingTakesEffect == (flagged # {} /\ signed # <<>>) ~> [](ServesSigned)
=============================================================================
