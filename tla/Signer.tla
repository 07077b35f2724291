------------------------------- MODULE Signer -------------------------------
(* The publish job of the signer: tools/signer/run.mjs (`--step sign`,        *)
(* `--step commit`), the plan it signs to (tools/signer/plan.mjs) and the     *)
(* key rules (tools/signer/key-window.mjs), as .github/workflows/sign.yml     *)
(* runs them.                                                                 *)
(*                                                                            *)
(* `main` and `signed` are the two branches, as sequences of commits: a       *)
(* position in a sequence stands for a commit and its history, so "descends   *)
(* from" is <=.  Time is counted in ticks; a key is its key_id; a signature   *)
(* is the name of the key that made it.  The order of the signatures in a     *)
(* document (SERVE-30: outgoing key first) is not modelled: a verifier tries  *)
(* every key against every signature.                                         *)
EXTENDS Integers, Sequences, FiniteSets

CONSTANTS
    Runners,     \* runs that may be in flight at once; one, in the workflow
    Shell,       \* those of them started from a shell, outside the concurrency group
    Keys,        \* index keys
    Exempt,      \* WINDOW_EXEMPT_KEY_IDS
    GenesisKeys, \* the keys the first trust.json delegates
    HeldSets,    \* the sets of keys a job's environment may hold
    Listings,    \* what the catalogue says of the plugins, publisher blocks apart
    Publishers,  \* the publisher blocks
    Entries,     \* what the withdrawal list says
    Edits,       \* the kinds of commit that land on main
    WINDOW,      \* INDEX_KEY_WINDOW_HOURS
    RESIGN,      \* RESIGN_AFTER_HOURS
    BACKSTOP,    \* BACKSTOP_RESIGN_AFTER_HOURS
    ATTEMPTS,    \* pushes one commit is given; 3 in pushSigned
    Skew,        \* how far a runner's clock may lag behind the reference clock
    MaxClock,    \* bound: the last tick
    LandUntil,   \* bound: the last tick at which main moves
    MaxMain      \* bound: commits on main

ASSUME KeysAssumption == Exempt \subseteq Keys /\ GenesisKeys \subseteq Keys /\ HeldSets \subseteq SUBSET Keys
ASSUME ShellAssumption == Shell \subseteq Runners
ASSUME TimeAssumption == /\ WINDOW \in Nat /\ RESIGN \in Nat \ {0} /\ BACKSTOP \in Nat \ {0}
                         /\ ATTEMPTS \in Nat \ {0} /\ Skew \in Nat /\ MaxClock \in Nat /\ LandUntil \in Nat /\ MaxMain \in Nat
VARIABLES
    main,    \* the branch people and bots push to, append-only (ROLL-5)
    signed,  \* the branch the signer publishes
    runs,    \* what each runner is doing
    clock

vars == <<main, signed, runs, clock>>

-----------------------------------------------------------------------------
(* Documents, commits and runs                                               *)

Trust == [ver : Nat, keys : SUBSET Keys]

\* A tree of main, as far as the signer reads it.  `serial` and `listSerial`
\* are D3's two counts at the commit; `catalogue`, `list` and `copies` say
\* whether each document passes its own gate ("tight": the generated catalogue
\* fits under the cap and the signed one does not; copies "bad": trust.json or
\* root.json is absent or is not I-JSON); `retired` is the retirement record,
\* the tick from which each key is retired.
Never == MaxClock + 1
Tree == [listings : Listings, publisher : Publishers, serial : Nat, catalogue : {"ok", "tight", "bad"},
         entries : Entries, listSerial : Nat, list : {"ok", "bad"},
         trust : Trust, root : Nat, copies : {"ok", "bad"}, retired : [Keys -> Nat]]

IndexContent == [serial : Nat, listings : Listings, publisher : Publishers]
ListContent == [serial : Nat, entries : Entries]
IndexDoc == [content : IndexContent, issued : Nat, sigs : SUBSET Keys]
ListDoc == [content : ListContent, issued : Nat, sigs : SUBSET Keys]
Commit == [index : IndexDoc, list : ListDoc, trust : Trust, root : Nat, src : Nat, isrc : Nat, at : Nat]

Events == {"schedule", "push"}
Idle == [phase |-> "idle"]
IdleRun == {Idle}
ReadyRun == [phase : {"ready"}, started : Nat, src : Nat, event : Events]
SignedRun == [phase : {"signed"}, started : Nat, parent : Nat, new : Commit]
PushRun == [phase : {"push"}, started : Nat, parent : Nat, new : Commit, attempt : 1..ATTEMPTS, landed : BOOLEAN]
RacedRun == [phase : {"raced"}, landed : BOOLEAN]
RunStates == IdleRun \cup ReadyRun \cup SignedRun \cup PushRun \cup RacedRun

\* The type of every variable.
TypeOK ==
    /\ main \in Seq(Tree)
    /\ signed \in Seq(Commit)
    /\ runs \in [Runners -> RunStates]
    /\ clock \in Nat

InFlight(r) == runs[r].phase \in {"ready", "signed", "push"}

-----------------------------------------------------------------------------
(* Which key signs what: key-window.mjs                                      *)

delegatedKeyIds(trust) == trust.keys

\* The commits of the first p on `signed` whose trust.json delegates k.
Delegations(p, k) == {i \in 1..p : k \in signed[i].trust.keys}

\* Mutant: an hour short of the window.
WindowNearlyPassed(p, k, now) ==
    \E i \in Delegations(p, k) :
        /\ \A j \in Delegations(p, k) : i <= j
        /\ now - signed[i].at >= WINDOW - 1

\* The seven hours since the FIRST of them (delegationTimes), at `now`.
WindowPassed(p, k, now) ==
    \E i \in Delegations(p, k) :
        /\ \A j \in Delegations(p, k) : i <= j
        /\ now - signed[i].at >= WINDOW

HeadKeys(p) == IF p = 0 THEN {} ELSE signed[p].trust.keys
Dropped(p, t) == HeadKeys(p) \ delegatedKeyIds(t.trust)
plannedRetirements(t, now) == {k \in Keys : t.retired[k] <= now}

\* D10: one dropped key that the record does not name makes it a compromise.
Compromise(p, t, now) == ~(Dropped(p, t) \subseteq plannedRetirements(t, now))

usable(t, held) == held \cap delegatedKeyIds(t.trust)

catalogueSigners(p, t, now, held) ==
    {k \in usable(t, held) : Compromise(p, t, now) \/ k \in Exempt \/ WindowPassed(p, k, now)}

Verifies(doc, trust) == doc.sigs \cap trust.keys # {}

-----------------------------------------------------------------------------
(* What a run decides: plan.mjs and signRun                                  *)

catalogueContent(t) == [serial |-> t.serial, listings |-> t.listings, publisher |-> t.publisher]
listContent(t) == [serial |-> t.listSerial, entries |-> t.entries]

\* Mutants of the gate: no TRUST-28, no SERVE-36.
catalogueGateNoListings(p, t) ==
    t.catalogue # "bad" /\ (p > 0 => t.serial >= signed[p].index.content.serial)
catalogueGateNoSerial(p, t) ==
    /\ t.catalogue # "bad"
    /\ p > 0 /\ t.serial = signed[p].index.content.serial => t.listings = signed[p].index.content.listings

\* The catalogue's gates: it validates, generates and fits, and against the
\* head its serial has not fallen (SERVE-36) and an equal serial means equal
\* listings (TRUST-28).
catalogueGate(p, t) ==
    /\ t.catalogue # "bad"
    /\ p > 0 => LET h == signed[p].index.content IN
                  /\ t.serial >= h.serial
                  /\ t.serial = h.serial => t.listings = h.listings

listGate(p, t) ==
    /\ t.list = "ok"
    /\ p > 0 => t.listSerial >= signed[p].list.content.serial

\* No flag at all (a shell) reads as the schedule's age.
resignAfterHoursFor(event) == IF event = "push" THEN BACKSTOP ELSE RESIGN

\* Mutant: a broken document always blocks the run, and the other one with it.
NeverCarry(canCarry) == "blocked"

CarryOr(canCarry) == IF canCarry THEN "carry" ELSE "blocked"

\* One document, its gate's verdict and its content, against the head's copy.
\* A changed one must be issued later than what it replaces (SERVE-89).
decideDocument(p, name, ok, content, now, resignAfter, carryAllowed) ==
    LET same == p > 0 /\ signed[p][name].content = content
        late == p > 0 => now > signed[p][name].issued
    IN  IF ~ok \/ (~same /\ ~late) THEN CarryOr(carryAllowed /\ p > 0)
        ELSE IF ~same THEN "changed"
        ELSE IF now - signed[p][name].issued >= resignAfter THEN "resign" ELSE "unchanged"

Signs(decision) == decision \in {"changed", "resign"}

\* A document to sign with no key to sign it, or past the cap once signed, is
\* carried or blocks the run.
carryOrBlock(decision, signers, fits, canCarry) ==
    IF Signs(decision) /\ (signers = {} \/ ~fits) THEN CarryOr(canCarry) ELSE decision

indexDecision(p, t, event, now, held) ==
    LET mayCarry == ~Compromise(p, t, now)
        planned == decideDocument(p, "index", catalogueGate(p, t), catalogueContent(t), now,
                                  resignAfterHoursFor(event), mayCarry)
    IN  carryOrBlock(planned, catalogueSigners(p, t, now, held), t.catalogue # "tight", mayCarry /\ p > 0)

listDecision(p, t, event, now, held) ==
    LET planned == decideDocument(p, "list", listGate(p, t), listContent(t), now,
                                  resignAfterHoursFor(event), TRUE)
    IN  carryOrBlock(planned, usable(t, held), TRUE, p > 0)

\* What the run would commit: a signed document at `now`, or the head's bytes.
indexDocument(p, t, event, now, held) ==
    IF Signs(indexDecision(p, t, event, now, held))
    THEN [content |-> catalogueContent(t), issued |-> now, sigs |-> catalogueSigners(p, t, now, held)]
    ELSE signed[p].index
\* Mutant: during a rotation the list is signed by the incoming key only.
listDocumentIncomingOnly(p, t, event, now, held) ==
    LET incoming == usable(t, held) \ HeadKeys(p) IN
    IF Signs(listDecision(p, t, event, now, held))
    THEN [content |-> listContent(t), issued |-> now,
          sigs |-> IF incoming = {} THEN usable(t, held) ELSE incoming]
    ELSE signed[p].list
listDocument(p, t, event, now, held) ==
    IF Signs(listDecision(p, t, event, now, held))
    THEN [content |-> listContent(t), issued |-> now, sigs |-> usable(t, held)]
    ELSE signed[p].list

\* D4: a catalogue that is not signed now keeps the Index-Source-Commit it has.
indexSourceCommit(p, s, event, now, held) ==
    IF Signs(indexDecision(p, main[s], event, now, held)) \/ p = 0 THEN s ELSE signed[p].isrc

CopiesChanged(p, t) == p = 0 \/ t.trust # signed[p].trust \/ t.root # signed[p].root

\* The four documents as they would be committed.
newCommit(p, s, event, now, held) ==
    LET t == main[s] IN
    [index |-> indexDocument(p, t, event, now, held), list |-> listDocument(p, t, event, now, held),
     trust |-> t.trust, root |-> t.root, src |-> s,
     isrc |-> indexSourceCommit(p, s, event, now, held), at |-> now]

\* Mutants: no SERVE-95; no TRUST-43a.
commitsUnverified(p, s, event, now, held) ==
    LET t == main[s]
        index == indexDecision(p, t, event, now, held)
        list == listDecision(p, t, event, now, held)
    IN  /\ "blocked" \notin {index, list}
        /\ t.copies = "ok"
        /\ p > 0 => signed[p].isrc <= s
        /\ Signs(index) \/ Signs(list) \/ CopiesChanged(p, t)
commitsAnyLineage(p, s, event, now, held) ==
    LET t == main[s]
        index == indexDecision(p, t, event, now, held)
        list == listDecision(p, t, event, now, held)
    IN  /\ "blocked" \notin {index, list}
        /\ t.copies = "ok"
        /\ Verifies(indexDocument(p, t, event, now, held), t.trust)
        /\ Verifies(listDocument(p, t, event, now, held), t.trust)
        /\ Signs(index) \/ Signs(list) \/ CopiesChanged(p, t)

\* signRun's answer: nothing is refused and there is something to publish.
\* The refusals: a blocked document, unreadable copies (D2, section 0.7), a
\* document that does not verify beside the trust.json (SERVE-95), a
\* Source-Commit older than the head's Index-Source-Commit (TRUST-43a).
commits(p, s, event, now, held) ==
    LET t == main[s]
        index == indexDecision(p, t, event, now, held)
        list == listDecision(p, t, event, now, held)
    IN  /\ "blocked" \notin {index, list}
        /\ t.copies = "ok"
        /\ Verifies(indexDocument(p, t, event, now, held), t.trust)
        /\ Verifies(listDocument(p, t, event, now, held), t.trust)
        /\ p > 0 => signed[p].isrc <= s
        /\ Signs(index) \/ Signs(list) \/ CopiesChanged(p, t)

-----------------------------------------------------------------------------
(* main moves: one commit, of a kind in Edits                                *)

Tip == main[Len(main)]

Lands(kind, tree) ==
    /\ kind \in Edits
    /\ Len(main) < MaxMain
    /\ clock <= LandUntil
    /\ main' = Append(main, tree)
    /\ UNCHANGED <<signed, runs, clock>>

\* plugins/** moves: the catalogue's serial rises, and it may fail its gates.
LandPlugins ==
    \E l \in Listings, q \in {"ok", "tight", "bad"} :
        Lands("plugins", [Tip EXCEPT !.serial = @ + 1, !.listings = l, !.catalogue = q])

\* git counts the catalogue's serial by its default simplification, so a merge
\* may lower it.
LandMerge ==
    \E l \in Listings : Tip.serial > 0 /\ Lands("merge", [Tip EXCEPT !.serial = @ - 1, !.listings = l])

\* The catalogue changes and its serial does not: publishers/**, or the generator.
LandPublisher == \E x \in Publishers : Lands("publisher", [Tip EXCEPT !.publisher = x])
LandGenerator ==
    \E l \in Listings, q \in {"ok", "bad"} : Lands("generator", [Tip EXCEPT !.listings = l, !.catalogue = q])

\* tools/revocations/** moves.  Its serial is counted with --full-history and
\* only rises; a README there raises it and leaves the entries alone.
LandAdvisory ==
    \E e \in Entries, q \in {"ok", "bad"} :
        Lands("advisory", [Tip EXCEPT !.listSerial = @ + 1, !.entries = e, !.list = q])

\* A root ceremony's trust.json: a key delegated, a key dropped, a key dropped
\* with its planned retirement recorded beside it (SERVE-30).
NextTrust(keys) == [ver |-> Tip.trust.ver + 1, keys |-> keys]
Droppable == {k \in Tip.trust.keys : Tip.trust.keys # {k}}
LandRotation ==
    \E k \in Keys \ Tip.trust.keys : Lands("rotation", [Tip EXCEPT !.trust = NextTrust(Tip.trust.keys \cup {k})])
LandDrop == \E k \in Droppable : Lands("drop", [Tip EXCEPT !.trust = NextTrust(Tip.trust.keys \ {k})])
LandRetirement ==
    \E k \in Droppable, from \in {clock, clock + 1} :
        Lands("retire", [Tip EXCEPT !.trust = NextTrust(Tip.trust.keys \ {k}), !.retired = [@ EXCEPT ![k] = from]])

\* root.json is replaced; a copy goes missing or unreadable, or is repaired.
LandRoot == Lands("root", [Tip EXCEPT !.root = @ + 1])
LandCopies == \E q \in {"ok", "bad"} : Lands("copies", [Tip EXCEPT !.copies = q])

MainMoves ==
    \/ LandPlugins \/ LandMerge \/ LandPublisher \/ LandGenerator \/ LandAdvisory
    \/ LandRotation \/ LandDrop \/ LandRetirement \/ LandRoot \/ LandCopies

-----------------------------------------------------------------------------
(* A run                                                                     *)

\* Time passes.  `timeout-minutes: 20` ends a workflow run within a tick.
Tick ==
    /\ clock < MaxClock
    /\ \A r \in Runners \ Shell : InFlight(r) => runs[r].started = clock
    /\ clock' = clock + 1
    /\ UNCHANGED <<main, signed, runs>>

\* Mutant: the workflow checks out the commit that triggered it, not main's head.
StartAtTrigger(r, event) ==
    /\ ~InFlight(r)
    /\ event = "push" => r \notin Shell
    /\ \E s \in 1..Len(main) :
         runs' = [runs EXCEPT ![r] = [phase |-> "ready", started |-> clock, src |-> s, event |-> event]]
    /\ UNCHANGED <<main, signed, clock>>

\* A checkout: main's head in the workflow, any clone's HEAD in a shell.
Start(r, event) ==
    /\ ~InFlight(r)
    /\ event = "push" => r \notin Shell
    /\ \E s \in IF r \in Shell THEN 1..Len(main) ELSE {Len(main)} :
         runs' = [runs EXCEPT ![r] = [phase |-> "ready", started |-> clock, src |-> s, event |-> event]]
    /\ UNCHANGED <<main, signed, clock>>

\* The run's own clock.
Nows == {n \in 0..clock : n + Skew >= clock}

\* `--step sign` planned against the first p commits of `signed`.  With no key
\* in the environment it ends there; a refusal ends it too.
SignAgainst(r, p) ==
    /\ runs[r].phase = "ready"
    /\ \E now \in Nows, held \in HeldSets :
         runs' = [runs EXCEPT ![r] =
             IF held # {} /\ commits(p, @.src, @.event, now, held)
             THEN [phase |-> "signed", started |-> @.started, parent |-> p,
                   new |-> newCommit(p, @.src, @.event, now, held)]
             ELSE Idle]
    /\ UNCHANGED <<main, signed, clock>>

Sign(r) == SignAgainst(r, Len(signed))

\* The fetch of `signed` failed, which fetchSignedHead reads as "no branch yet".
SignBlind(r) == Len(signed) > 0 /\ SignAgainst(r, 0)

\* buildSignedCommit: the commit is dated when it is made, by the same clock.
BuildCommit(r) ==
    /\ runs[r].phase = "signed"
    /\ \E at \in Nows :
         /\ at >= runs[r].new.at
         /\ runs' = [runs EXCEPT ![r] =
              [phase |-> "push", started |-> @.started, parent |-> @.parent,
               new |-> [@.new EXCEPT !.at = at], attempt |-> 1, landed |-> FALSE]]
    /\ UNCHANGED <<main, signed, clock>>

\* Mutant: a forced push.
Forced(r) == Len(signed) >= runs[r].parent
FastForward(r) == Len(signed) = runs[r].parent
StillMine(r) == runs[r].landed /\ Len(signed) = runs[r].parent + 1

\* A push that lands and is acknowledged; one that landed before, and is still
\* the head, is acknowledged as up to date.
PushSucceeds(r) ==
    /\ runs[r].phase = "push"
    /\ FastForward(r) \/ StillMine(r)
    /\ signed' = IF FastForward(r) THEN Append(signed, runs[r].new) ELSE signed
    /\ runs' = [runs EXCEPT ![r] = Idle]
    /\ UNCHANGED <<main, clock>>

\* Mutant: pushed again for as long as the head is the parent.
PushFailsForever(r, lands, fetched) ==
    /\ runs[r].phase = "push"
    /\ lands => FastForward(r)
    /\ signed' = IF lands THEN Append(signed, runs[r].new) ELSE signed
    /\ fetched => Len(signed') > 0
    /\ LET run == runs[r]
           stillHolds == IF fetched THEN run.parent > 0 /\ Len(signed') = run.parent ELSE run.parent = 0
       IN  runs' = [runs EXCEPT ![r] =
             IF stillHolds THEN [run EXCEPT !.attempt = @ + 1, !.landed = @ \/ lands]
             ELSE [phase |-> "raced", landed |-> run.landed \/ lands]]
    /\ UNCHANGED <<main, clock>>

\* A push reported as failed: rejected, never arrived, or (lands) made, with
\* its answer lost.  The run pushes again only while the head it fetches is
\* the one it planned against, or there was none and the fetch fails too;
\* otherwise it reports SIGNER_PUSH_RACE ("raced"), or has no attempt left.
PushFails(r, lands, fetched) ==
    /\ runs[r].phase = "push"
    /\ lands => FastForward(r)
    /\ signed' = IF lands THEN Append(signed, runs[r].new) ELSE signed
    /\ fetched => Len(signed') > 0
    /\ LET run == runs[r]
           stillHolds == IF fetched THEN run.parent > 0 /\ Len(signed') = run.parent ELSE run.parent = 0
       IN  runs' = [runs EXCEPT ![r] =
             IF run.attempt < ATTEMPTS /\ stillHolds
             THEN [run EXCEPT !.attempt = @ + 1, !.landed = @ \/ lands]
             ELSE IF run.attempt = ATTEMPTS THEN Idle
             ELSE [phase |-> "raced", landed |-> run.landed \/ lands]]
    /\ UNCHANGED <<main, clock>>

\* A job cancelled, timed out or lost between two of its steps.
Crash(r) ==
    /\ InFlight(r)
    /\ runs' = [runs EXCEPT ![r] = Idle]
    /\ UNCHANGED <<main, signed, clock>>

Push(r) == PushSucceeds(r) \/ \E lands, fetched \in BOOLEAN : PushFails(r, lands, fetched)

Run(r) ==
    \/ \E event \in Events : Start(r, event)
    \/ Sign(r) \/ SignBlind(r) \/ BuildCommit(r) \/ Push(r) \/ Crash(r)

-----------------------------------------------------------------------------
\* The registry's first tree, before `signed` exists.
Genesis(l, x, e) ==
    [listings |-> l, publisher |-> x, serial |-> 1, catalogue |-> "ok",
     entries |-> e, listSerial |-> 1, list |-> "ok",
     trust |-> [ver |-> 1, keys |-> GenesisKeys], root |-> 1, copies |-> "ok", retired |-> [k \in Keys |-> Never]]

Init ==
    /\ \E l \in Listings, x \in Publishers, e \in Entries : main = <<Genesis(l, x, e)>>
    /\ signed = <<>>
    /\ runs = [r \in Runners |-> Idle]
    /\ clock = 0

Next == Tick \/ MainMoves \/ (\E r \in Runners : Run(r))

Spec == Init /\ [][Next]_vars

-----------------------------------------------------------------------------
(* Safety                                                                    *)

SignedHead == signed[Len(signed)]
Commits == DOMAIN signed

\* SERVE-95 over the whole branch: whatever interleaving of runs, rotations and
\* drops produced it, no commit holds a catalogue or a list its own trust.json
\* cannot verify -- a carried one included.
CommitsVerify ==
    \A i \in Commits : Verifies(signed[i].index, signed[i].trust) /\ Verifies(signed[i].list, signed[i].trust)

\* SERVE-36 and TRUST-28 between any two commits, not only neighbours: neither
\* serial ever falls, and one catalogue serial never names two listings.
SerialsIdentifyListings ==
    \A i, j \in Commits : i < j =>
        /\ signed[i].list.content.serial <= signed[j].list.content.serial
        /\ signed[i].index.content.serial <= signed[j].index.content.serial
        /\ signed[i].index.content.serial = signed[j].index.content.serial
             => signed[i].index.content.listings = signed[j].index.content.listings

\* D4: the Index-Source-Commit trailer is true.  The served catalogue is what
\* the tree it names generates, a tree whose gates passed, however many carries
\* and unchanged re-commits it has been through; and the served list is one some
\* tree of main generates.
TrailersAreTrue ==
    \A i \in Commits : LET c == signed[i] IN
        /\ c.isrc <= c.src /\ c.src <= Len(main)
        /\ c.index.content = catalogueContent(main[c.isrc])
        /\ main[c.isrc].catalogue = "ok"
        /\ \E s \in DOMAIN main : main[s].list = "ok" /\ c.list.content = listContent(main[s])

\* With the concurrency group's one run at a time, the byte copies never go
\* back: a trust.json once published is followed only by itself or a later one.
TrustNeverRollsBack ==
    \A i, j \in Commits : i < j => signed[i].trust.ver <= signed[j].trust.ver /\ signed[i].root <= signed[j].root

\* A commit whose catalogue was signed with the window waived (D10).
WaivedAt(i) ==
    /\ i > 1 => signed[i].index # signed[i - 1].index
    /\ Compromise(i - 1, main[signed[i].src], signed[i].index.issued)

\* No ceremony delegates again a key an earlier trust.json dropped.
NoneDelegatedAgain ==
    \A i, j, m \in DOMAIN main : i < j /\ j < m =>
        main[i].trust.keys \cap main[m].trust.keys \subseteq main[j].trust.keys

\* What the seven hours are for (SERVE-30): a client that took trust.json while
\* commit c was the head verifies every catalogue published less than the
\* window after that, through rotations and planned retirements, unless the
\* window was waived for a compromise in between.
CachedTrustVerifiesCatalogue ==
    NoneDelegatedAgain =>
        \A c, d \in Commits :
            ( /\ c < d
              /\ signed[d].at - signed[c + 1].at < WINDOW
              /\ \A i \in (c + 1)..d : ~WaivedAt(i) )
            => Verifies(signed[d].index, signed[c].trust)

\* SERVE-30's overlap: while no key is dropped, every list is signed by a key
\* each earlier trust.json delegates, so any client can take the next one --
\* in an environment that always holds every key.
RotationKeepsList ==
    \A c, d \in Commits :
        (c < d /\ \A i \in c..d : signed[c].trust.keys \subseteq signed[i].trust.keys)
        => Verifies(signed[d].list, signed[c].trust)

Served == INSTANCE ServedLog WITH log <- signed

\* The branch is ServedLog's: append-only, each commit sound and never older
\* than the one before it, with runs racing, pushing blind and crashing.
ImplementsServedLog == Served!Spec

-----------------------------------------------------------------------------
(* What the comments say and the code does not                               *)

\* run.mjs:525-526 of a push that is not retried: "another publisher exists or a
\* run overtook this one".
OvertakenByAnother == \A r \in Runners : runs[r].phase = "raced" => ~runs[r].landed

-----------------------------------------------------------------------------
(* Liveness                                                                  *)

\* What GitHub may do to a run: lose it, fail its fetch, fail a push that could
\* land.  A step a healthy run could have taken too is no fault: one that finds
\* nothing to publish ends as a lost one does.
Fault(r) ==
    /\ \/ Crash(r) \/ SignBlind(r)
       \/ runs[r].phase = "push" /\ (FastForward(r) \/ StillMine(r)) /\ \E lands, fetched \in BOOLEAN : PushFails(r, lands, fetched)
    /\ ~(Sign(r) \/ PushSucceeds(r))

\* The schedule keeps starting runs and a started run goes on; faults come in
\* any number and any order, and at some point stop.
Fairness ==
    /\ WF_vars(Tick)
    /\ \A r \in Runners : /\ WF_vars(Start(r, "schedule"))
                          /\ WF_vars(Sign(r)) /\ WF_vars(BuildCommit(r)) /\ WF_vars(Push(r))
    /\ <>[][\A r \in Runners : ~Fault(r)]_vars

LiveSpec == Spec /\ Fairness

ListServed == signed # <<>> /\ SignedHead.list.content = listContent(Tip)

\* D4's point: a withdrawal on main reaches `signed` although the catalogue
\* stays broken, runs crash and pushes fail -- for as long as the list itself
\* generates and no copy is unreadable, which blocks the whole commit (D2).
ListPublishable == Tip.list = "ok" /\ Tip.copies = "ok"
WithdrawalIsServed == (ListPublishable /\ signed # <<>>) ~> (ListServed \/ ~ListPublishable)
=============================================================================
