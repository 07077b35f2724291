---------------------------- MODULE IngestProofs ----------------------------
(* Proofs about Ingest.tla, for every number of submissions and runs, every   *)
(* binding the tags carry, and every bound on faults.                         *)
EXTENDS Ingest, RecursionLemmas

-----------------------------------------------------------------------------
(* What a run knows of main, of the channel and of the service is old, and    *)
(* still true.                                                                *)

\* A tree main held once: what it records of decisions, OKs and owner's
\* approvals is still there, and a bound listing stays bound.
Behind(t, m) ==
    /\ t.records \subseteq m.records /\ t.oks \subseteq m.oks /\ t.owned \subseteq m.owned
    /\ t.identity # NoToken => m.identity # NoToken

\* A decision's path says which it is.
PathsDiffer(t) == \A d, e \in t.records : Path(d) = Path(e) => d = e

\* A stop is recorded in one way, and a hold is of bytes that were verified.
StopRecord(s) == [Answer(NoBytes(s), "stopped", {}) EXCEPT !.by = "author"]
RecordTrue(d) ==
    /\ d.state = "stopped" => d = StopRecord(d.rel.sub)
    /\ d.state = "held" => d.rel \in Releases
RecordsTrue(t) == \A d \in t.records : RecordTrue(d)

\* An alert record names a delivery about its own release.
AlertsTrue(t, st) == \A x \in Releases : t.alerts[x] > 0 => t.alerts[x] \in DOMAIN st /\ st[t.alerts[x]].rel = x

\* Every alert that was delivered told of an approval that was given.
SentTrue(st, ap) == \A i \in DOMAIN st : st[i].approval <= ap[st[i].rel]

\* HadHisWindow, of a channel and a set of OKs.
WindowHad(x, n, st, oks) ==
    \E i \in DOMAIN st : st[i].rel = x /\ st[i].approval = n /\ (st[i].age >= WINDOW \/ <<x, n>> \in oks)

\* Some hold of these bytes names a changed binding.
Changed(t, x) == \E e \in At(t, x, "held") : "R_BINDING_CHANGED" \in e.codes

\* Why a publication decided on tree t may go out.
Justified(d, t, st, ap, nt, ow) ==
    /\ d.rel \in Releases /\ d.by \in {"bot", "moderator", "owner"}
    /\ d.by # "bot" => At(t, d.rel, "held") # {} /\ (Changed(t, d.rel) => nt[d.rel] > NOTICE)
    /\ d.by = "moderator" => d.approval \in 1..ap[d.rel] /\ WindowHad(d.rel, d.approval, st, t.oks)
    /\ d.by = "owner" => d.rel \in t.owned
    /\ d.by = "bot" /\ t.identity = NoToken /\ ow.line[d.rel.sub] # NoToken /\ d.rel.sub \notin ow.self
         => \E y \in Releases \ {d.rel} :
               /\ ow.line[y.sub] = ow.line[d.rel.sub] /\ At(t, y, "held") # {}
               /\ y \in t.owned \/ \E n \in 1..ap[y] : WindowHad(y, n, st, t.oks)

\* A plan for submission s, decided on tree t.
PlanTrue(s, p, t, st, ap, nt, ow) ==
    /\ p.kind = "alert" => p.approval <= ap[p.rel]
    /\ p.kind \in {"state", "reported"} => p.rec.rel.sub = s
    /\ p.kind = "reported" => p.rec \in t.records
    /\ p.kind = "state" => p.rec.state # "stopped" /\ RecordTrue(p.rec)
    /\ p.kind = "state" /\ p.rec.state = "published" => Justified(p.rec, t, st, ap, nt, ow)

\* A delivery told of what the plan named.
DeliveryTrue(p, i, st) == i > 0 => p.kind = "alert" /\ i \in DOMAIN st /\ st[i].rel = p.rel

RunTrue(w, m, st, ap, nt, ow) ==
    /\ w.phase \in {"pending", "claimed", "alert", "publish"} => Behind(w.base, m) /\ AlertsTrue(w.base, st)
    /\ w.phase \in {"alert", "publish"} =>
         \A s \in DOMAIN w.plans : /\ w.plans[s].kind # "none"
                                   /\ PlanTrue(s, w.plans[s], w.base, st, ap, nt, ow)
                                   /\ DeliveryTrue(w.plans[s], w.delivered[s], st)
    /\ w.phase = "report" =>
         \A s \in DOMAIN w.results :
            w.results[s].kind = "named" => w.results[s].rec \in m.records /\ w.results[s].rec.rel.sub = s

IInv ==
    /\ TypeOK /\ owner \in Cases
    /\ PathsDiffer(main) /\ RecordsTrue(main) /\ AlertsTrue(main, sent) /\ SentTrue(sent, approvals)
    /\ \A r \in Runs : RunTrue(run[r], main, sent, approvals, notice, owner)
    /\ ApprovedBytesOnly /\ SettledIsRecorded

\* What a step may do to main, the channel, the approvals and the notices.
Later(m, m2, st, st2, ap, ap2, nt, nt2) ==
    /\ Behind(m, m2)
    /\ \A i \in DOMAIN st : /\ i \in DOMAIN st2 /\ st2[i].rel = st[i].rel /\ st2[i].approval = st[i].approval
                            /\ st[i].age >= WINDOW => st2[i].age >= WINDOW
    /\ \A x \in Releases : ap[x] \in Nat /\ ap2[x] \in Nat /\ ap[x] <= ap2[x]
    /\ \A x \in Releases : nt[x] > NOTICE => nt2[x] > NOTICE

-----------------------------------------------------------------------------
(* Time only adds                                                            *)

LEMMA WindowStays ==
    ASSUME NEW x, NEW n, NEW st, NEW st2, NEW oks, NEW oks2, oks \subseteq oks2, WindowHad(x, n, st, oks),
           \A i \in DOMAIN st : /\ i \in DOMAIN st2 /\ st2[i].rel = st[i].rel /\ st2[i].approval = st[i].approval
                                /\ st[i].age >= WINDOW => st2[i].age >= WINDOW
    PROVE  WindowHad(x, n, st2, oks2)
BY DEF WindowHad

LEMMA AlertsStay ==
    ASSUME NEW t, NEW st, NEW st2, AlertsTrue(t, st),
           \A i \in DOMAIN st : i \in DOMAIN st2 /\ st2[i].rel = st[i].rel
    PROVE  AlertsTrue(t, st2)
BY DEF AlertsTrue

LEMMA JustifiedStays ==
    ASSUME NEW d, NEW t, NEW m, NEW m2, NEW st, NEW st2, NEW ap, NEW ap2, NEW nt, NEW nt2, NEW ow,
           Later(m, m2, st, st2, ap, ap2, nt, nt2), Justified(d, t, st, ap, nt, ow)
    PROVE  Justified(d, t, st2, ap2, nt2, ow)
<1>1. \A x, n : WindowHad(x, n, st, t.oks) => WindowHad(x, n, st2, t.oks)
  BY WindowStays DEF Later
<1>2. \A x \in Releases : 1..ap[x] \subseteq 1..ap2[x]
  BY DEF Later
<1>3. d.by = "bot" /\ t.identity = NoToken /\ ow.line[d.rel.sub] # NoToken /\ d.rel.sub \notin ow.self
         => \E y \in Releases \ {d.rel} :
               /\ ow.line[y.sub] = ow.line[d.rel.sub] /\ At(t, y, "held") # {}
               /\ y \in t.owned \/ \E n \in 1..ap2[y] : WindowHad(y, n, st2, t.oks)
  BY <1>1, <1>2 DEF Justified
<1> QED
  BY <1>1, <1>2, <1>3 DEF Justified, Later

LEMMA RunStays ==
    ASSUME NEW w, NEW m, NEW m2, NEW st, NEW st2, NEW ap, NEW ap2, NEW nt, NEW nt2, NEW ow, RunOK(w),
           Later(m, m2, st, st2, ap, ap2, nt, nt2), RunTrue(w, m, st, ap, nt, ow)
    PROVE  RunTrue(w, m2, st2, ap2, nt2, ow)
<1>1. ASSUME w.phase \in {"pending", "claimed", "alert", "publish"}
      PROVE  Behind(w.base, m2) /\ AlertsTrue(w.base, st2)
  <2>1. Behind(w.base, m) /\ AlertsTrue(w.base, st)
    BY <1>1 DEF RunTrue
  <2>2. AlertsTrue(w.base, st2)
    BY <2>1, AlertsStay DEF Later
  <2> QED
    BY <2>1, <2>2 DEF Behind, Later
<1>2. ASSUME w.phase \in {"alert", "publish"}, NEW s \in DOMAIN w.plans
      PROVE  PlanTrue(s, w.plans[s], w.base, st2, ap2, nt2, ow) /\ DeliveryTrue(w.plans[s], w.delivered[s], st2)
  <2> DEFINE p == w.plans[s]
  <2>1. PlanTrue(s, p, w.base, st, ap, nt, ow) /\ DeliveryTrue(p, w.delivered[s], st)
    BY <1>2 DEF RunTrue
  <2>2. p \in Plans
    BY <1>2 DEF RunOK
  <2>3. p.kind = "alert" => p.rel \in Releases /\ p.approval \in Nat
    BY <2>2 DEF Plans
  <2>4. p.kind = "alert" => p.approval <= ap2[p.rel]
    BY <2>1, <2>3 DEF PlanTrue, Later
  <2>5. p.kind = "state" /\ p.rec.state = "published" => Justified(p.rec, w.base, st2, ap2, nt2, ow)
    BY <2>1, JustifiedStays DEF PlanTrue
  <2>6. DeliveryTrue(p, w.delivered[s], st2)
    BY <2>1 DEF DeliveryTrue, Later
  <2> QED
    BY <2>1, <2>4, <2>5, <2>6 DEF PlanTrue
<1>3. m.records \subseteq m2.records
  BY DEF Later, Behind
<1> QED
  BY <1>1, <1>2, <1>3 DEF RunTrue

-----------------------------------------------------------------------------
(* What a run decides                                                        *)

LEMMA TreeFields ==
    ASSUME NEW t \in Trees
    PROVE  /\ t.records \in SUBSET Records /\ t.listed \in SUBSET Releases /\ t.identity \in Tokens \cup {NoToken}
           /\ t.alerts \in [Releases -> 0..MaxSent] /\ t.denied \in SUBSET Releases
           /\ t.oks \in SUBSET (Releases \X (1..MaxApprovals)) /\ t.owned \in SUBSET Releases
BY DEF Trees

LEMMA SentFields ==
    ASSUME TypeOK, NEW i \in DOMAIN sent
    PROVE  sent[i].rel \in Releases /\ sent[i].approval \in 1..MaxApprovals /\ sent[i].age \in 0..WINDOW
<1> DEFINE Sent == [rel : Releases, approval : 1..MaxApprovals, age : 0..WINDOW]
<1>1. sent \in Seq(Sent)
  BY DEF TypeOK
<1> HIDE DEF Sent
<1>2. sent[i] \in Sent
  BY <1>1
<1> QED
  BY <1>2 DEF Sent

LEMMA RecordFields ==
    ASSUME NEW d \in Records
    PROVE  /\ d.rel \in Releases \cup {NoBytes(s) : s \in Subs} /\ d.state \in States
           /\ d.codes \in SUBSET Codes /\ d.approval \in 0..MaxApprovals
BY DEF Records

LEMMA CurrentType ==
    ASSUME TypeOK, NEW s \in Subs
    PROVE  Current(s) \in Releases /\ Current(s).sub = s
<1>1. release[s].bytes \in 1..MaxBytes
  BY DEF TypeOK
<1> QED
  BY <1>1 DEF Current, Releases

LEMMA AnswerType ==
    ASSUME NEW x \in Releases \cup {NoBytes(s) : s \in Subs}, NEW state \in States, NEW codes \in SUBSET Codes
    PROVE  Answer(x, state, codes) \in Records
BY IngestAssumption DEF Answer, Records

\* The plans decideSubmission makes, with what led to each.
LEMMA PlanCases ==
    ASSUME NEW t, NEW s
    PROVE  LET x == Current(s)
               p == decideSubmission(t, s)
           IN  \/ p = Unverified(t, s)
               \/ Answers(t, x) # {} /\ p = Reported(CHOOSE d \in Answers(t, x) : TRUE)
               \/ p = Plan("none")
               \/ p = Decision(Answer(x, "refused", {"E_CHECKS"}))
               \/ p = Decision(Answer(x, "held", Holds(t, x)))
               \/ p = Decision(Answer(x, "refused", {"P_OPERATOR_DENIED"}))
               \/ (Honoured(t, x) # 0 \/ ByOwner(t, x)) /\ p = ApprovedPlan(t, x)
               \/ p = CoveredPlan(t, x)
               \/ ~(t.identity = NoToken /\ Line(x) # NoToken /\ ~SelfCleared(x)) /\ p = Publication(x, 0, "bot")
BY DEF decideSubmission

\* An answer main has already: a record of the submission.
LEMMA AnswersMain ==
    ASSUME NEW t, NEW x, NEW d \in Answers(t, x)
    PROVE  d \in t.records /\ d.rel.sub = x.sub
BY DEF Answers, At

\* An approved change of hands.
LEMMA ApprovedPlanTrue ==
    ASSUME IInv, NEW t \in Trees, AlertsTrue(t, sent), NEW s \in Subs,
           Honoured(t, Current(s)) # 0 \/ ByOwner(t, Current(s))
    PROVE  /\ ApprovedPlan(t, Current(s)) \in Plans
           /\ PlanTrue(s, ApprovedPlan(t, Current(s)), t, sent, approvals, notice, owner)
<1> DEFINE x == Current(s)
           n == Honoured(t, x)
<1>1. x \in Releases /\ x.sub = s
  BY CurrentType DEF IInv
<1>2. approvals[x] \in 0..MaxApprovals /\ MaxApprovals \in Nat
  BY <1>1, IngestAssumption DEF IInv, TypeOK
<1>3. n \in {0, approvals[x]} /\ (n # 0 => At(t, x, "held") # {})
  BY DEF Honoured, Approvals
<1>4. ByOwner(t, x) => x \in t.owned /\ At(t, x, "held") # {}
  BY DEF ByOwner
<1>5. ~(~OneAccount(t, x) /\ ~Told(x)) => (Changed(t, x) => notice[x] > NOTICE)
  BY DEF OneAccount, Told, Changed
<1>6. ASSUME ~ByOwner(t, x), Alerted(t, x, n), WindowOver(t, t.alerts[x])
      PROVE  WindowHad(x, n, sent, t.oks)
  <2>1. t.alerts[x] > 0 /\ sent[t.alerts[x]].approval = n
    BY <1>6 DEF Alerted
  <2>2. t.alerts[x] \in DOMAIN sent /\ sent[t.alerts[x]].rel = x
    BY <1>1, <2>1 DEF AlertsTrue
  <2> QED
    BY <1>6, <2>1, <2>2 DEF WindowOver, Okayed, WindowHad
<1> HIDE DEF x, n
<1>7. CASE ApprovedPlan(t, x) = Plan("wait")
  BY <1>7 DEF Plan, Plans, PlanTrue, x
<1>8. CASE /\ ByOwner(t, x) /\ ~(~OneAccount(t, x) /\ ~Told(x))
           /\ ApprovedPlan(t, x) = Publication(x, 0, "owner")
  <2> DEFINE d == [rel |-> x, state |-> "published", codes |-> {}, approval |-> 0, by |-> "owner"]
  <2>1. d \in Records
    BY <1>1, <1>2 DEF Records, States
  <2>2. ApprovedPlan(t, x) = [kind |-> "state", rec |-> d]
    BY <1>8 DEF Publication, Decision
  <2>3. Justified(d, t, sent, approvals, notice, owner)
    BY <1>1, <1>4, <1>5, <1>8 DEF Justified
  <2> HIDE DEF d
  <2>4. d.rel.sub = s /\ d.state = "published"
    BY <1>1 DEF d
  <2> QED
    BY <2>1, <2>2, <2>3, <2>4 DEF Plans, PlanTrue, RecordTrue, x
<1>9. CASE ~ByOwner(t, x) /\ ApprovedPlan(t, x) = [kind |-> "alert", rel |-> x, approval |-> n]
  <2>1. n \in 1..MaxApprovals /\ n <= approvals[x]
    BY <1>2, <1>3, <1>9 DEF x, n
  <2> QED
    BY <1>1, <1>9, <2>1 DEF Plans, PlanTrue, RecordTrue, x
<1>10. CASE /\ ~ByOwner(t, x) /\ ~(~OneAccount(t, x) /\ ~Told(x))
            /\ Alerted(t, x, n) /\ WindowOver(t, t.alerts[x])
            /\ ApprovedPlan(t, x) = Publication(x, n, "moderator")
  <2> DEFINE d == [rel |-> x, state |-> "published", codes |-> {}, approval |-> n, by |-> "moderator"]
  <2>1. n \in 1..MaxApprovals /\ n = approvals[x]
    BY <1>2, <1>3, <1>10 DEF x, n
  <2>2. d \in Records
    BY <1>1, <2>1 DEF Records, States
  <2>3. ApprovedPlan(t, x) = [kind |-> "state", rec |-> d]
    BY <1>10 DEF Publication, Decision
  <2>4. n \in 1..approvals[x]
    BY <2>1
  <2>5. Justified(d, t, sent, approvals, notice, owner)
    BY <1>1, <1>3, <1>5, <1>6, <1>10, <2>1, <2>4 DEF Justified
  <2> HIDE DEF d
  <2>6. d.rel.sub = s /\ d.state = "published"
    BY <1>1 DEF d
  <2> QED
    BY <2>2, <2>3, <2>5, <2>6 DEF Plans, PlanTrue, RecordTrue, x
<1> QED
  BY <1>7, <1>8, <1>9, <1>10 DEF ApprovedPlan, n, x

\* A first binding under the cover of another release's approval.
LEMMA CoveredPlanTrue ==
    ASSUME IInv, NEW t \in Trees, AlertsTrue(t, sent), NEW s \in Subs
    PROVE  /\ CoveredPlan(t, Current(s)) \in Plans
           /\ PlanTrue(s, CoveredPlan(t, Current(s)), t, sent, approvals, notice, owner)
<1> DEFINE x == Current(s)
           y == CHOOSE y \in Covering(t, x) : TRUE
           d == [rel |-> x, state |-> "published", codes |-> {}, approval |-> 0, by |-> "bot"]
<1>1. x \in Releases /\ x.sub = s
  BY CurrentType DEF IInv
<1>2. d \in Records
  BY <1>1, IngestAssumption DEF Records, States
<1>3. CASE CoveredPlan(t, x) = Plan("wait")
  BY <1>3 DEF Plan, Plans, PlanTrue
<1>4. CASE /\ Covering(t, x) # {} /\ (WindowOver(t, t.alerts[y]) \/ y \in t.owned)
           /\ CoveredPlan(t, x) = Publication(x, 0, "bot")
  <2>1. y \in Covering(t, x)
    BY <1>4
  <2> HIDE DEF y
  <2>2. y \in Releases \ {x} /\ t.alerts[y] > 0 /\ Line(y) = Line(x) /\ At(t, y, "held") # {}
    BY <2>1 DEF Covering, Bound
  <2>3. t.alerts[y] \in DOMAIN sent /\ sent[t.alerts[y]].rel = y
    BY <2>2 DEF AlertsTrue
  <2>4. sent[t.alerts[y]].approval \in 1..approvals[y]
    <3>1. sent[t.alerts[y]].approval \in 1..MaxApprovals
      BY <2>3, SentFields DEF IInv
    <3>2. sent[t.alerts[y]].approval <= approvals[y]
      BY <2>3 DEF IInv, SentTrue
    <3>3. approvals[y] \in Nat
      BY <2>2, IngestAssumption DEF IInv, TypeOK
    <3> QED
      BY <3>1, <3>2, <3>3
  <2>5. y \in t.owned \/ \E n \in 1..approvals[y] : WindowHad(y, n, sent, t.oks)
    BY <1>4, <2>3, <2>4 DEF WindowOver, Okayed, WindowHad
  <2>6. owner.line[y.sub] = owner.line[x.sub]
    BY <2>2 DEF Line
  <2>7. Justified(d, t, sent, approvals, notice, owner)
    BY <1>1, <2>2, <2>5, <2>6 DEF Justified
  <2>8. CoveredPlan(t, x) = [kind |-> "state", rec |-> d] /\ d.rel.sub = s /\ d.state = "published"
    BY <1>1, <1>4 DEF Publication, Decision
  <2> HIDE DEF d
  <2> QED
    BY <1>2, <2>7, <2>8 DEF Plans, PlanTrue, RecordTrue
<1> QED
  BY <1>3, <1>4 DEF CoveredPlan

\* Whatever is decided about a submission on a tree is of its kind, and true.
LEMMA Decided ==
    ASSUME IInv, NEW t \in Trees, AlertsTrue(t, sent), NEW s \in Subs
    PROVE  /\ decideSubmission(t, s) \in Plans
           /\ PlanTrue(s, decideSubmission(t, s), t, sent, approvals, notice, owner)
<1> DEFINE x == Current(s)
           p == decideSubmission(t, s)
           Right(q) == q \in Plans /\ PlanTrue(s, q, t, sent, approvals, notice, owner)
<1>1. x \in Releases /\ x.sub = s /\ NoBytes(s).sub = s
  BY CurrentType DEF IInv, NoBytes
<1>2. t.records \subseteq Records
  BY TreeFields
<1>3. ASSUME NEW d \in t.records, d.rel.sub = s PROVE Right(Reported(d))
  BY <1>2, <1>3 DEF Reported, Plans, PlanTrue
<1>4. ASSUME NEW y \in {x, NoBytes(s)}, NEW state \in {"held", "refused"}, NEW codes \in SUBSET Codes,
             state = "held" => y = x
      PROVE  Right(Decision(Answer(y, state, codes)))
  <2>1. Answer(y, state, codes) \in Records
    BY <1>1, AnswerType DEF States
  <2>2. Answer(y, state, codes).rel = y /\ Answer(y, state, codes).state = state
    BY DEF Answer
  <2> QED
    BY <1>1, <1>4, <2>1, <2>2 DEF Decision, Plans, PlanTrue, RecordTrue
<1>5. CASE p = Unverified(t, s)
  <2>1. CASE At(t, NoBytes(s), "refused") # {} /\ p = Reported(CHOOSE d \in At(t, NoBytes(s), "refused") : TRUE)
    BY <1>1, <1>3, <2>1 DEF At
  <2>2. CASE p = Decision(Answer(NoBytes(s), "refused", {"E_UNVERIFIED"}))
    BY <1>4, <2>2 DEF States, Codes
  <2> QED
    BY <1>5, <2>1, <2>2 DEF Unverified
<1>6. CASE Answers(t, x) # {} /\ p = Reported(CHOOSE d \in Answers(t, x) : TRUE)
  BY <1>1, <1>3, <1>6, AnswersMain
<1>7. CASE p = Plan("none")
  BY <1>7 DEF Plan, Plans, PlanTrue
<1>8. Holds(t, x) \subseteq Codes
  BY DEF Holds, Codes
<1>9. CASE \/ p = Decision(Answer(x, "refused", {"E_CHECKS"}))
           \/ p = Decision(Answer(x, "held", Holds(t, x)))
           \/ p = Decision(Answer(x, "refused", {"P_OPERATOR_DENIED"}))
  BY <1>4, <1>8, <1>9 DEF States, Codes
<1>10. CASE (Honoured(t, x) # 0 \/ ByOwner(t, x)) /\ p = ApprovedPlan(t, x)
  BY <1>10, ApprovedPlanTrue
<1>11. CASE p = CoveredPlan(t, x)
  BY <1>11, CoveredPlanTrue
<1>12. CASE ~(t.identity = NoToken /\ Line(x) # NoToken /\ ~SelfCleared(x)) /\ p = Publication(x, 0, "bot")
  <2> DEFINE d == [rel |-> x, state |-> "published", codes |-> {}, approval |-> 0, by |-> "bot"]
  <2>1. d \in Records
    BY <1>1, IngestAssumption DEF Records, States
  <2>2. p = [kind |-> "state", rec |-> d] /\ d.rel.sub = s /\ d.state = "published"
    BY <1>1, <1>12 DEF Publication, Decision
  <2>3. Justified(d, t, sent, approvals, notice, owner)
    BY <1>1, <1>12 DEF Justified, Line, SelfCleared
  <2> HIDE DEF d
  <2> QED
    BY <2>1, <2>2, <2>3 DEF Plans, PlanTrue, RecordTrue
<1> QED
  BY <1>5, <1>6, <1>7, <1>9, <1>10, <1>11, <1>12, PlanCases

-----------------------------------------------------------------------------
(* What a publish job does to main                                           *)

LEMMA LinesKnown ==
    ASSUME owner \in Cases, NEW d \in Records
    PROVE  d.rel.sub \in Subs /\ Line(d.rel) \in Tokens \cup {NoToken}
<1>1. d.rel.sub \in Subs
  BY RecordFields DEF Releases, NoBytes
<1>2. owner.line \in [Subs -> Tokens \cup {NoToken}]
  BY IngestAssumption
<1> QED
  BY <1>1, <1>2 DEF Line

\* The tree and the refusals after the first k reports of run w.
AccTrue(w, acc, m, st, k, order) ==
    /\ acc \in [tree : Trees, refused : SUBSET Subs]
    /\ m.records \subseteq acc.tree.records
    /\ acc.tree.oks = m.oks /\ acc.tree.owned = m.owned
    /\ m.identity # NoToken => acc.tree.identity # NoToken
    /\ PathsDiffer(acc.tree) /\ AlertsTrue(acc.tree, st)
    /\ \A d \in acc.tree.records \ m.records : \E s \in DOMAIN w.plans : w.plans[s].kind = "state" /\ d = w.plans[s].rec
    /\ acc.refused = {} => \A i \in 1..k : New(w, order[i]) => w.plans[order[i]].rec \in acc.tree.records

\* A record that is written: on a path of its own.
LEMMA WrittenTree ==
    ASSUME owner \in Cases, NEW t \in Trees, NEW d \in Records, d.state = "published" => d.rel \in Releases,
           PathsDiffer(t), \A e \in t.records : Path(e) # Path(d)
    PROVE  /\ Written(t, d) \in Trees
           /\ Written(t, d).records = t.records \cup {d}
           /\ Written(t, d).oks = t.oks /\ Written(t, d).owned = t.owned /\ Written(t, d).alerts = t.alerts
           /\ t.identity # NoToken => Written(t, d).identity # NoToken
           /\ PathsDiffer(Written(t, d))
<1> DEFINE u == [t EXCEPT !.records = @ \cup {d}]
           v == [u EXCEPT !.listed = @ \cup {d.rel}, !.identity = IF Line(d.rel) # NoToken THEN Line(d.rel) ELSE @]
<1>1. /\ u \in Trees /\ u.records = t.records \cup {d} /\ u.oks = t.oks /\ u.owned = t.owned /\ u.alerts = t.alerts
      /\ u.identity = t.identity /\ u.listed = t.listed
  BY TreeFields DEF Trees
<1>2. Line(d.rel) \in Tokens \cup {NoToken}
  BY LinesKnown
<1>3. u.listed \subseteq Releases /\ u.identity \in Tokens \cup {NoToken}
  BY <1>1, TreeFields
<1> HIDE DEF u
<1>4. d.state = "published" =>
        /\ v \in Trees /\ v.records = u.records /\ v.oks = u.oks /\ v.owned = u.owned /\ v.alerts = u.alerts
        /\ u.identity # NoToken => v.identity # NoToken
  BY <1>1, <1>2, <1>3 DEF Trees
<1> HIDE DEF v
<1>5. Written(t, d) = IF d.state # "published" THEN u ELSE v
  BY DEF Written, u, v
<1>6. Written(t, d).records = t.records \cup {d}
  BY <1>1, <1>4, <1>5
<1> HIDE DEF Path
<1>7. PathsDiffer(Written(t, d))
  BY <1>6 DEF PathsDiffer
<1> QED
  BY <1>1, <1>4, <1>5, <1>6, <1>7

\* One more report.
LEMMA ApplyStep ==
    ASSUME IInv, NEW r \in Runs, run[r].phase = "publish", NEW order, NEW k \in Nat,
           order[k + 1] \in DOMAIN run[r].plans, NEW acc, AccTrue(run[r], acc, main, sent, k, order)
    PROVE  AccTrue(run[r], Apply(run[r], acc, order[k + 1]), main, sent, k + 1, order)
<1> DEFINE w == run[r]
           s == order[k + 1]
           p == w.plans[s]
           next == Apply(w, acc, s)
           t == acc.tree
<1>1. s \in Subs /\ p \in Plans /\ w.delivered[s] \in 0..MaxSent
  BY DEF IInv, TypeOK, RunOK
<1>2. PlanTrue(s, p, w.base, sent, approvals, notice, owner) /\ DeliveryTrue(p, w.delivered[s], sent)
  BY DEF IInv, RunTrue
<1>3. t \in Trees /\ acc.refused \subseteq Subs /\ acc \in [tree : Trees, refused : SUBSET Subs]
  BY DEF AccTrue
<1>4. \A i \in 1..(k + 1) : i \in 1..k \/ i = k + 1
  OBVIOUS
<1> HIDE DEF p, s, w
<1>5. CASE Composed(w, s)
  <2>1. p.kind = "alert" /\ w.delivered[s] > 0
    BY <1>5 DEF Composed, p
  <2>2. p.rel \in Releases
    BY <1>1, <2>1 DEF Plans
  <2> DEFINE a == [t.alerts EXCEPT ![p.rel] = w.delivered[s]]
             u == [t EXCEPT !.alerts = a]
  <2>3. a \in [Releases -> 0..MaxSent] /\ t.alerts \in [Releases -> 0..MaxSent]
    BY <1>1, <1>3, <2>2, TreeFields
  <2>4. \A x \in Releases : a[x] = IF x = p.rel THEN w.delivered[s] ELSE t.alerts[x]
    BY <2>3
  <2> HIDE DEF a
  <2>5. /\ u \in Trees /\ u.alerts = a /\ u.records = t.records /\ u.oks = t.oks /\ u.owned = t.owned
        /\ u.identity = t.identity
    BY <1>3, <2>3 DEF Trees
  <2>6. AlertsTrue(u, sent)
    BY <1>2, <2>1, <2>2, <2>4, <2>5 DEF AlertsTrue, DeliveryTrue, AccTrue
  <2>7. next = [acc EXCEPT !.tree = u]
    BY <1>3, <1>5 DEF Apply, p, a, Trees
  <2> HIDE DEF u
  <2>8. next.tree = u /\ next.refused = acc.refused /\ next \in [tree : Trees, refused : SUBSET Subs]
    BY <1>3, <2>5, <2>7
  <2> HIDE DEF next
  <2>9. ~New(w, s)
    BY <2>1 DEF New, p
  <2> QED
    BY <1>4, <2>5, <2>6, <2>8, <2>9 DEF AccTrue, PathsDiffer, s, w, next
<1>6. CASE ~Composed(w, s) /\ ~New(w, s)
  <2>1. next = acc
    BY <1>6 DEF Apply
  <2> HIDE DEF next
  <2> QED
    BY <1>4, <1>6, <2>1 DEF AccTrue, s, w, next
<1>7. CASE ~Composed(w, s) /\ New(w, s) /\ RefusedBy(t, p.rec)
  <2>1. next = [acc EXCEPT !.refused = @ \cup {s}]
    BY <1>7 DEF Apply, p
  <2>2. next.tree = t /\ next.refused # {} /\ next \in [tree : Trees, refused : SUBSET Subs]
    BY <1>1, <1>3, <2>1
  <2> HIDE DEF next
  <2> QED
    BY <2>2 DEF AccTrue, s, w, next
<1>8. CASE ~Composed(w, s) /\ New(w, s) /\ ~RefusedBy(t, p.rec)
  <2>1. next = [acc EXCEPT !.tree = Written(t, p.rec)]
    BY <1>3, <1>8 DEF Apply, p
  <2>2. p.kind = "state" /\ p.rec \in Records
    <3>1. p.kind = "state"
      BY <1>8 DEF New, p
    <3> QED
      BY <1>1, <3>1 DEF Plans
  <2>3. p.rec.state = "published" => p.rec.rel \in Releases
    BY <1>2, <2>2 DEF PlanTrue, Justified
  <2>4. \A e \in t.records : Path(e) # Path(p.rec)
    BY <1>8 DEF RefusedBy
  <2>5. PathsDiffer(t) /\ owner \in Cases
    BY DEF AccTrue, IInv
  <2> DEFINE u == Written(t, p.rec)
  <2>6. /\ u \in Trees /\ u.records = t.records \cup {p.rec} /\ u.oks = t.oks /\ u.owned = t.owned
        /\ u.alerts = t.alerts /\ (t.identity # NoToken => u.identity # NoToken) /\ PathsDiffer(u)
    BY <1>3, <2>2, <2>3, <2>4, <2>5, WrittenTree
  <2> HIDE DEF u
  <2>7. next.tree = u /\ next.refused = acc.refused /\ next \in [tree : Trees, refused : SUBSET Subs]
    BY <1>3, <2>1, <2>6 DEF u
  <2>8. AlertsTrue(u, sent)
    BY <2>6 DEF AlertsTrue, AccTrue
  <2>9. \A d \in u.records \ main.records : \E q \in DOMAIN w.plans : w.plans[q].kind = "state" /\ d = w.plans[q].rec
    BY <2>2, <2>6 DEF AccTrue, p, s, w
  <2>10. acc.refused = {} => \A i \in 1..(k + 1) : New(w, order[i]) => w.plans[order[i]].rec \in u.records
    BY <1>4, <2>6 DEF AccTrue, p, s, w
  <2> HIDE DEF next
  <2> QED
    BY <2>6, <2>7, <2>8, <2>9, <2>10 DEF AccTrue, s, w, next
<1> QED
  BY <1>5, <1>6, <1>7, <1>8 DEF w, s

\* All of them, in any order.
LEMMA AllApplied ==
    ASSUME IInv, NEW r \in Runs, run[r].phase = "publish", NEW order \in SetToSeqs(DOMAIN run[r].plans)
    PROVE  AccTrue(run[r], Applied(run[r], order), main, sent, Len(order), order)
<1> DEFINE w == run[r]
           N == Len(order)
           base == [tree |-> main, refused |-> {}]
           Fold(f, n) == f = [i \in 0..n |-> IF i = 0 THEN base ELSE Apply(w, f[i - 1], order[i])]
           after == CHOOSE f : Fold(f, N)
<1>1. N \in Nat /\ \A i \in 1..N : order[i] \in DOMAIN w.plans
  <2>1. DOMAIN w.plans \subseteq Subs
    BY DEF IInv, TypeOK, RunOK
  <2>2. IsFiniteSet(DOMAIN w.plans)
    BY <2>1, FS_Subset, IngestAssumption
  <2> QED
    BY <2>2, EveryOrder
<1>2. Fold(after, N)
  <2> DEFINE T == {n \in Nat : \E f : Fold(f, n)}
  <2>1. 0 \in T
    <3>1. Fold([i \in 0..0 |-> base], 0)
      OBVIOUS
    <3> QED
      BY <3>1
  <2>2. ASSUME NEW n \in Nat, n \in T PROVE n + 1 \in T
    <3>1. PICK f : Fold(f, n)
      BY <2>2
    <3> DEFINE g == [i \in 0..(n + 1) |-> IF i = n + 1 THEN Apply(w, f[n], order[n + 1]) ELSE f[i]]
    <3>2. \A i \in 0..n : f[i] = IF i = 0 THEN base ELSE Apply(w, f[i - 1], order[i])
      BY <3>1
    <3>3. /\ \A i \in 0..n : i \in 0..(n + 1) /\ i # n + 1
          /\ \A i \in 1..(n + 1) : i \in 0..(n + 1) /\ i - 1 \in 0..n
          /\ 0 \in 0..n /\ n + 1 \in 0..(n + 1) /\ n + 1 # 0 /\ (n + 1) - 1 = n
          /\ \A i \in 0..(n + 1) : i = 0 \/ i = n + 1 \/ (i \in 1..n /\ i \in 0..n /\ i # 0)
      OBVIOUS
    <3>4. (\A i \in 0..n : g[i] = f[i]) /\ g[n + 1] = Apply(w, f[n], order[n + 1])
      BY <3>3
    <3>5. g = [i \in 0..(n + 1) |-> g[i]]
      OBVIOUS
    <3> HIDE DEF g, base, w
    <3>6. \A i \in 0..(n + 1) : g[i] = IF i = 0 THEN base ELSE Apply(w, g[i - 1], order[i])
      <4> TAKE i \in 0..(n + 1)
      <4>1. CASE i = 0
        BY <3>2, <3>3, <3>4, <4>1
      <4>2. CASE i \in 1..n
        <5>1. i - 1 \in 0..n /\ i \in 0..n /\ i # 0
          BY <3>3, <4>2
        <5>2. g[i] = f[i] /\ g[i - 1] = f[i - 1]
          BY <3>4, <5>1
        <5> QED
          BY <3>2, <5>1, <5>2
      <4>3. CASE i = n + 1
        <5>1. g[i] = Apply(w, f[n], order[n + 1]) /\ g[n] = f[n] /\ i - 1 = n /\ i # 0
          BY <3>3, <3>4, <4>3
        <5> QED
          BY <4>3, <5>1
      <4> QED
        BY <3>3, <4>1, <4>2, <4>3
    <3>7. Fold(g, n + 1)
      BY <3>5, <3>6
    <3> QED
      BY <3>7
  <2> HIDE DEF T
  <2>3. Nat \subseteq T
    BY <2>1, <2>2, NatSet
  <2>4. \E f : Fold(f, N)
    BY <1>1, <2>3 DEF T
  <2> HIDE DEF Fold
  <2> QED
    BY <2>4
<1>3. Applied(w, order) = after[N]
  BY DEF Applied
<1> HIDE DEF after
<1>4. \A n \in 0..N : after[n] = IF n = 0 THEN base ELSE Apply(w, after[n - 1], order[n])
  BY <1>2
<1> DEFINE U == {n \in Nat : n <= N => AccTrue(w, after[n], main, sent, n, order)}
<1>5. 0 \in U
  <2>1. after[0] = base
    <3>1. 0 \in 0..N
      BY <1>1
    <3> HIDE DEF base, N, w
    <3> QED
      BY <1>4, <3>1
  <2>2. base.tree = main /\ base.refused = {} /\ base \in [tree : Trees, refused : SUBSET Subs]
    BY DEF IInv, TypeOK
  <2> HIDE DEF base
  <2> QED
    BY <2>1, <2>2 DEF AccTrue, IInv
<1>6. ASSUME NEW n \in Nat, n \in U PROVE n + 1 \in U
  <2> SUFFICES ASSUME n + 1 <= N PROVE AccTrue(w, after[n + 1], main, sent, n + 1, order)
    OBVIOUS
  <2>1. AccTrue(w, after[n], main, sent, n, order)
    BY <1>1, <1>6
  <2>2. n + 1 \in 1..N /\ n + 1 \in 0..N /\ n + 1 # 0 /\ (n + 1) - 1 = n
    BY <1>1
  <2>3. after[n + 1] = Apply(w, after[n], order[n + 1])
    BY <1>4, <2>2
  <2> QED
    BY <1>1, <2>1, <2>2, <2>3, ApplyStep
<1> HIDE DEF U
<1>7. Nat \subseteq U
  BY <1>5, <1>6, NatSet
<1> QED
  BY <1>1, <1>3, <1>7 DEF U

-----------------------------------------------------------------------------
(* The steps, one variable at a time                                         *)

\* A publication that reaches main was justified on a tree main held once.
NewPublications ==
    \A d \in main'.records \ main.records :
        d.state = "published" => \E t \in Trees : Behind(t, main) /\ Justified(d, t, sent, approvals, notice, owner)

\* A publish job.
LEMMA PublishMain ==
    ASSUME IInv, NEW r \in Runs, NEW order, NEW dies, Publish(r, order, dies)
    PROVE  /\ main' \in Trees /\ Behind(main, main')
           /\ PathsDiffer(main') /\ RecordsTrue(main') /\ AlertsTrue(main', sent)
           /\ NewPublications
<1> DEFINE w == run[r]
           acc == Applied(w, order)
<1>1. w.phase = "publish" /\ order \in SetToSeqs(DOMAIN w.plans) /\ main' = acc.tree
  BY DEF Publish
<1>2. AccTrue(w, acc, main, sent, Len(order), order)
  BY <1>1, AllApplied
<1>3. w.base \in Trees /\ Behind(w.base, main)
  BY <1>1 DEF IInv, TypeOK, RunOK, RunTrue
<1>4. ASSUME NEW s \in DOMAIN w.plans PROVE PlanTrue(s, w.plans[s], w.base, sent, approvals, notice, owner)
  BY <1>1 DEF IInv, RunTrue
<1> HIDE DEF acc, w
<1>5. \A d \in main'.records \ main.records :
        RecordTrue(d) /\ (d.state = "published" => Justified(d, w.base, sent, approvals, notice, owner))
  BY <1>1, <1>2, <1>4 DEF AccTrue, PlanTrue
<1>6. NewPublications
  BY <1>3, <1>5 DEF NewPublications
<1>7. RecordsTrue(main')
  BY <1>5 DEF RecordsTrue, IInv
<1> QED
  BY <1>1, <1>2, <1>6, <1>7 DEF AccTrue, Behind

\* A moderation run that records a stop.
LEMMA StopMain ==
    ASSUME IInv, NEW s \in Subs, RecordStop(s)
    PROVE  /\ main' \in Trees /\ Behind(main, main')
           /\ PathsDiffer(main') /\ RecordsTrue(main') /\ AlertsTrue(main', sent)
           /\ NewPublications
           /\ main'.records = main.records \cup {StopRecord(s)} /\ StopRecord(s) \in Records
<1> DEFINE d == StopRecord(s)
<1>1. d.state = "stopped" /\ d.rel = NoBytes(s) /\ d.rel.sub = s
  BY DEF StopRecord, Answer, NoBytes
<1>2. d \in Records
  BY IngestAssumption DEF StopRecord, Answer, Records, States
<1>3. main \in Trees /\ main' = [main EXCEPT !.records = @ \cup {d}]
  BY DEF RecordStop, StopRecord, IInv, TypeOK
<1> HIDE DEF d
<1>4. main' \in Trees /\ main'.records = main.records \cup {d}
      /\ main'.oks = main.oks /\ main'.owned = main.owned /\ main'.identity = main.identity
      /\ main'.alerts = main.alerts
  BY <1>2, <1>3 DEF Trees
<1>5. \A e \in main.records : Path(e) = Path(d) => e = d
  <2> SUFFICES ASSUME NEW e \in main.records, Path(e) = Path(d) PROVE e = d
    OBVIOUS
  <2>1. e.rel = d.rel /\ e.state = d.state
    BY DEF Path
  <2> QED
    BY <1>1, <2>1 DEF IInv, RecordsTrue, RecordTrue, d
<1>6. PathsDiffer(main')
  BY <1>4, <1>5 DEF PathsDiffer, IInv
<1>7. RecordsTrue(main')
  BY <1>1, <1>4 DEF RecordsTrue, RecordTrue, IInv, d
<1>8. Behind(main, main') /\ AlertsTrue(main', sent)
  BY <1>4 DEF Behind, AlertsTrue, IInv
<1>9. NewPublications
  BY <1>1, <1>4 DEF NewPublications
<1> QED
  BY <1>2, <1>4, <1>6, <1>7, <1>8, <1>9 DEF d

\* An operator's or the owner's commit.
LEMMA OperatorMain ==
    ASSUME IInv, LandDeny \/ LandOk \/ LandOwner
    PROVE  /\ main' \in Trees /\ Behind(main, main')
           /\ PathsDiffer(main') /\ RecordsTrue(main') /\ AlertsTrue(main', sent)
           /\ NewPublications
<1>1. main \in Trees
  BY DEF IInv, TypeOK
<1>2. CASE LandDeny
  <2>1. PICK i \in DOMAIN sent : main' = [main EXCEPT !.denied = @ \cup {sent[i].rel}]
    BY <1>2 DEF LandDeny, Lands
  <2>2. sent[i].rel \in Releases
    BY SentFields DEF IInv
  <2>3. main' \in Trees /\ main'.records = main.records /\ main'.oks = main.oks /\ main'.owned = main.owned
        /\ main'.identity = main.identity /\ main'.alerts = main.alerts
    BY <1>1, <2>1, <2>2 DEF Trees
  <2> QED
    BY <2>3 DEF Behind, PathsDiffer, RecordsTrue, AlertsTrue, NewPublications, IInv
<1>3. CASE LandOk
  <2>1. PICK x \in Releases : /\ main.alerts[x] > 0
                              /\ main' = [main EXCEPT !.oks = @ \cup {<<x, sent[main.alerts[x]].approval>>}]
    BY <1>3 DEF LandOk, Lands
  <2>2. main.alerts[x] \in DOMAIN sent
    BY <2>1 DEF IInv, AlertsTrue
  <2>3. sent[main.alerts[x]].approval \in 1..MaxApprovals
    BY <2>2, SentFields DEF IInv
  <2>4. main' \in Trees /\ main'.records = main.records /\ main.oks \subseteq main'.oks /\ main'.owned = main.owned
        /\ main'.identity = main.identity /\ main'.alerts = main.alerts
    BY <1>1, <2>1, <2>3 DEF Trees
  <2> QED
    BY <2>4 DEF Behind, PathsDiffer, RecordsTrue, AlertsTrue, NewPublications, IInv
<1>4. CASE LandOwner
  <2>1. PICK d \in main.records : d.state = "held" /\ main' = [main EXCEPT !.owned = @ \cup {d.rel}]
    BY <1>4 DEF LandOwner, Lands
  <2>2. d.rel \in Releases
    BY <2>1 DEF IInv, RecordsTrue, RecordTrue
  <2>3. main' \in Trees /\ main'.records = main.records /\ main'.oks = main.oks /\ main.owned \subseteq main'.owned
        /\ main'.identity = main.identity /\ main'.alerts = main.alerts
    BY <1>1, <2>1, <2>2 DEF Trees
  <2> QED
    BY <2>3 DEF Behind, PathsDiffer, RecordsTrue, AlertsTrue, NewPublications, IInv
<1> QED
  BY <1>2, <1>3, <1>4

-----------------------------------------------------------------------------
(* The channel, the approvals and the notices                                *)

Sent == [rel : Releases, approval : 1..MaxApprovals, age : 0..WINDOW]

\* What an alert job delivers is appended, one alert for each plan that names
\* one, and the plans learn the number of theirs.
LEMMA AlertSends ==
    ASSUME IInv, NEW r \in Runs, NEW ok, Alert(r, ok), ok
    PROVE  LET w == run[r]
               named == {s \in DOMAIN w.plans : w.plans[s].kind = "alert"}
               order == SetToSeq(named)
           IN  /\ w.phase = "alert" /\ named \subseteq Subs /\ Cardinality(named) \in Nat
               /\ Len(sent) \in Nat /\ Len(sent) + Cardinality(named) <= MaxSent
               /\ order \in [1..Cardinality(named) -> named]
               /\ \A s \in named : \E i \in 1..Cardinality(named) : order[i] = s
               /\ sent' \in Seq(Sent) /\ Len(sent') = Len(sent) + Cardinality(named)
               /\ \A i \in 1..Len(sent) : sent'[i] = sent[i]
               /\ \A i \in 1..Cardinality(named) :
                     sent'[Len(sent) + i] = [rel |-> w.plans[order[i]].rel,
                                             approval |-> w.plans[order[i]].approval, age |-> 0]
<1> DEFINE w == run[r]
           named == {s \in DOMAIN w.plans : w.plans[s].kind = "alert"}
           order == SetToSeq(named)
           n == Cardinality(named)
           batch == [i \in DOMAIN order |-> [rel |-> w.plans[order[i]].rel,
                                             approval |-> w.plans[order[i]].approval, age |-> 0]]
<1>1. w.phase = "alert" /\ Len(sent) + n <= MaxSent /\ sent' = sent \o batch
  BY DEF Alert
<1>2. named \subseteq Subs /\ \A s \in named : w.plans[s] \in Plans
  BY <1>1 DEF IInv, TypeOK, RunOK
<1>3. IsFiniteSet(named)
  BY <1>2, FS_Subset, IngestAssumption
<1>4. n \in Nat /\ order \in [1..n -> named] /\ \A s \in named : \E i \in 1..n : order[i] = s
  BY <1>3, InOrder
<1>5. \A s \in named : w.plans[s].rel \in Releases /\ w.plans[s].approval \in 1..MaxApprovals
  BY <1>2 DEF Plans
<1>6. sent \in Seq(Sent) /\ Len(sent) \in Nat
  BY DEF IInv, TypeOK, Sent
<1>7. 0 \in 0..WINDOW
  BY IngestAssumption
<1> HIDE DEF order, n, named, w
<1>8. \A i \in 1..n : order[i] \in named
  BY <1>4
<1>9. DOMAIN batch = 1..n /\ \A i \in 1..n : batch[i] \in Sent
  BY <1>4, <1>5, <1>7, <1>8 DEF Sent
<1>10. \A i \in 1..n : batch[i] = [rel |-> w.plans[order[i]].rel, approval |-> w.plans[order[i]].approval, age |-> 0]
  BY <1>9
<1>11. batch = [i \in 1..n |-> batch[i]]
  BY <1>9
<1> HIDE DEF batch
<1>12. batch \in [1..n -> Sent]
  BY <1>9, <1>11
<1>13. batch \in Seq(Sent) /\ Len(batch) = n
  BY <1>4, <1>12
<1> HIDE DEF Sent
<1>14. sent' \in Seq(Sent) /\ Len(sent') = Len(sent) + n
  <2>1. sent \o batch \in Seq(Sent)
    BY <1>6, <1>13
  <2>2. Len(sent \o batch) = Len(sent) + n
    BY <1>6, <1>13
  <2> QED
    BY <1>1, <2>1, <2>2
<1>15. \A i \in 1..Len(sent) : sent'[i] = sent[i]
  BY <1>1, <1>6, <1>13
<1>16. \A i \in 1..n : sent'[Len(sent) + i] = batch[i]
  BY <1>1, <1>4, <1>6, <1>13
<1> QED
  BY <1>1, <1>2, <1>4, <1>6, <1>10, <1>14, <1>15, <1>16 DEF order, n, named, w

\* Time passes since each delivery and each notice.
LEMMA TickAges ==
    ASSUME IInv, Tick
    PROVE  /\ sent' \in Seq(Sent) /\ Len(sent') = Len(sent)
           /\ \A i \in 1..Len(sent) :
                 /\ sent'[i].rel = sent[i].rel /\ sent'[i].approval = sent[i].approval
                 /\ sent[i].age >= WINDOW => sent'[i].age >= WINDOW
           /\ notice' \in [Releases -> 0..NOTICE + 1]
           /\ \A x \in Releases : notice[x] > NOTICE => notice'[x] > NOTICE
<1> DEFINE older(age, bound) == IF age < bound THEN age + 1 ELSE age
           aged(e) == [e EXCEPT !.age = older(@, WINDOW)]
<1>1. /\ sent' = [i \in DOMAIN sent |-> aged(sent[i])]
      /\ notice' = [x \in Releases |-> IF notice[x] = 0 THEN 0 ELSE older(notice[x], NOTICE + 1)]
  BY DEF Tick
<1>2. sent \in Seq(Sent) /\ DOMAIN sent = 1..Len(sent) /\ Len(sent) \in Nat
  BY DEF IInv, TypeOK, Sent
<1>3. WINDOW \in Nat /\ NOTICE \in Nat
  BY IngestAssumption
<1>4. ASSUME NEW e \in Sent
      PROVE  /\ aged(e) \in Sent /\ aged(e).rel = e.rel /\ aged(e).approval = e.approval
             /\ e.age >= WINDOW => aged(e).age >= WINDOW
  <2>1. e.age \in 0..WINDOW
    BY DEF Sent
  <2>2. older(e.age, WINDOW) \in 0..WINDOW /\ (e.age >= WINDOW => older(e.age, WINDOW) >= WINDOW)
    BY <1>3, <2>1
  <2> HIDE DEF older
  <2> QED
    BY <2>2 DEF Sent
<1> HIDE DEF aged, Sent
<1>5. \A i \in 1..Len(sent) : sent[i] \in Sent
  BY <1>2
<1>6. \A i \in 1..Len(sent) : sent'[i] = aged(sent[i])
  BY <1>1, <1>2
<1>7. sent' \in [1..Len(sent) -> Sent]
  BY <1>1, <1>2, <1>4, <1>5
<1>8. sent' \in Seq(Sent) /\ Len(sent') = Len(sent)
  BY <1>2, <1>7
<1>9. \A x \in Releases : notice[x] \in 0..NOTICE + 1
  BY DEF IInv, TypeOK
<1>10. \A x \in Releases : (IF notice[x] = 0 THEN 0 ELSE older(notice[x], NOTICE + 1)) \in 0..NOTICE + 1
  BY <1>3, <1>9
<1>11. \A x \in Releases : notice[x] > NOTICE => (IF notice[x] = 0 THEN 0 ELSE older(notice[x], NOTICE + 1)) > NOTICE
  BY <1>3, <1>9
<1> HIDE DEF older
<1> QED
  BY <1>1, <1>4, <1>5, <1>6, <1>8, <1>10, <1>11

\* Everything but an alert job that delivers, an approval, a notice and time
\* leaves the three alone.
LEMMA ChannelMoves ==
    ASSUME [Next]_vars
    PROVE  /\ owner' = owner
           /\ \/ UNCHANGED <<sent, approvals, notice>>
              \/ Tick
              \/ \E r \in Runs, ok \in BOOLEAN : ok /\ Alert(r, ok)
              \/ \E s \in Subs : Approve(s) \/ Tell(s)
BY DEF Next, Step, Trigger, Claim, Decide, Alert, Publish, Report, Crash, Arrive, Approve, Tell, Stop, RecordStop,
       Upload, Delete, Revoke, Change, LandDeny, LandOk, LandOwner, Lands, Tick, vars

\* One approval more, of bytes a hold names.
LEMMA ApproveCounts ==
    ASSUME IInv, NEW s \in Subs, Approve(s)
    PROVE  /\ UNCHANGED <<sent, notice>>
           /\ approvals' \in [Releases -> 0..MaxApprovals]
           /\ \A x \in Releases : approvals[x] <= approvals'[x]
<1>1. approvals \in [Releases -> 0..MaxApprovals] /\ MaxApprovals \in Nat
  BY IngestAssumption DEF IInv, TypeOK
<1>2. PICK d \in svc[s].named : approvals[d.rel] < MaxApprovals /\ approvals' = [approvals EXCEPT ![d.rel] = @ + 1]
  BY DEF Approve
<1>3. CASE d.rel \in Releases
  <2>1. approvals[d.rel] \in 0..MaxApprovals
    BY <1>1, <1>3
  <2>2. approvals[d.rel] + 1 \in 0..MaxApprovals /\ approvals[d.rel] <= approvals[d.rel] + 1
    BY <1>1, <1>2, <2>1
  <2>3. \A x \in Releases : approvals'[x] = IF x = d.rel THEN approvals[d.rel] + 1 ELSE approvals[x]
    BY <1>1, <1>2
  <2>4. \A x \in Releases : approvals[x] \in 0..MaxApprovals /\ approvals[x] <= approvals[x]
    BY <1>1
  <2> QED
    BY <1>1, <1>2, <2>2, <2>3, <2>4 DEF Approve
<1>4. CASE d.rel \notin Releases
  <2>1. approvals' = approvals
    BY <1>1, <1>2, <1>4
  <2>2. \A x \in Releases : approvals[x] <= approvals[x]
    BY <1>1
  <2> QED
    BY <1>1, <2>1, <2>2 DEF Approve
<1> QED
  BY <1>3, <1>4

\* A notice is sent once.
LEMMA TellCounts ==
    ASSUME IInv, NEW s \in Subs, Tell(s)
    PROVE  /\ UNCHANGED <<sent, approvals>>
           /\ notice' \in [Releases -> 0..NOTICE + 1]
           /\ \A x \in Releases : notice[x] > NOTICE => notice'[x] > NOTICE
<1>1. notice \in [Releases -> 0..NOTICE + 1] /\ NOTICE \in Nat
  BY IngestAssumption DEF IInv, TypeOK
<1>2. PICK d \in svc[s].named : notice[d.rel] = 0 /\ notice' = [notice EXCEPT ![d.rel] = 1]
  BY DEF Tell
<1>3. 1 \in 0..NOTICE + 1 /\ ~(0 > NOTICE)
  BY <1>1
<1>4. \A x \in Releases : notice'[x] = IF x = d.rel THEN 1 ELSE notice[x]
  BY <1>1, <1>2
<1> QED
  BY <1>1, <1>2, <1>3, <1>4 DEF Tell

\* What was delivered, approved and told stays so, and a window that is over
\* stays over.
LEMMA ChannelStep ==
    ASSUME IInv, [Next]_vars
    PROVE  /\ owner' = owner
           /\ sent' \in Seq(Sent) /\ Len(sent') <= MaxSent
           /\ approvals' \in [Releases -> 0..MaxApprovals]
           /\ notice' \in [Releases -> 0..NOTICE + 1]
           /\ \A i \in DOMAIN sent : /\ i \in DOMAIN sent' /\ sent'[i].rel = sent[i].rel
                                     /\ sent'[i].approval = sent[i].approval
                                     /\ sent[i].age >= WINDOW => sent'[i].age >= WINDOW
           /\ \A x \in Releases : approvals[x] \in Nat /\ approvals'[x] \in Nat /\ approvals[x] <= approvals'[x]
           /\ \A x \in Releases : notice[x] > NOTICE => notice'[x] > NOTICE
           /\ SentTrue(sent', approvals')
<1>1. /\ sent \in Seq(Sent) /\ DOMAIN sent = 1..Len(sent) /\ Len(sent) \in Nat /\ Len(sent) <= MaxSent /\ MaxSent \in Nat
      /\ approvals \in [Releases -> 0..MaxApprovals] /\ notice \in [Releases -> 0..NOTICE + 1]
      /\ MaxApprovals \in Nat
  BY IngestAssumption DEF IInv, TypeOK, Sent
<1>2. \A x \in Releases : approvals[x] \in Nat
  BY <1>1
<1>3. \A i \in DOMAIN sent : /\ sent[i].rel \in Releases /\ sent[i].approval \in Nat
                             /\ sent[i].approval <= approvals[sent[i].rel]
  BY SentFields DEF IInv, SentTrue
<1> HIDE DEF Sent
<1>4. CASE UNCHANGED <<sent, approvals, notice>>
  BY <1>1, <1>2, <1>3, <1>4, ChannelMoves DEF SentTrue
<1>5. CASE Tick
  <2>1. approvals' = approvals
    BY <1>5 DEF Tick
  <2>2. DOMAIN sent' = 1..Len(sent)
    BY <1>1, <1>5, TickAges
  <2>3. SentTrue(sent', approvals')
    BY <1>1, <1>3, <1>5, <2>1, <2>2, TickAges DEF SentTrue
  <2> QED
    BY <1>1, <1>2, <1>5, <2>1, <2>2, <2>3, TickAges, ChannelMoves
<1>6. ASSUME NEW r \in Runs, NEW ok \in BOOLEAN, ok, Alert(r, ok)
      PROVE  /\ sent' \in Seq(Sent) /\ Len(sent') <= MaxSent /\ UNCHANGED <<approvals, notice>>
             /\ \A i \in 1..Len(sent) : i \in DOMAIN sent' /\ sent'[i] = sent[i]
             /\ SentTrue(sent', approvals')
  <2> DEFINE w == run[r]
             named == {s \in DOMAIN w.plans : w.plans[s].kind = "alert"}
             order == SetToSeq(named)
             n == Cardinality(named)
  <2>1. /\ w.phase = "alert" /\ n \in Nat /\ Len(sent) + n <= MaxSent /\ order \in [1..n -> named]
        /\ sent' \in Seq(Sent) /\ Len(sent') = Len(sent) + n
        /\ \A i \in 1..Len(sent) : sent'[i] = sent[i]
        /\ \A i \in 1..n : sent'[Len(sent) + i] = [rel |-> w.plans[order[i]].rel,
                                                   approval |-> w.plans[order[i]].approval, age |-> 0]
    BY <1>6, AlertSends
  <2>2. UNCHANGED <<approvals, notice>>
    BY <1>6 DEF Alert
  <2>3. \A s \in named : w.plans[s].approval <= approvals[w.plans[s].rel]
    BY <2>1 DEF IInv, RunTrue, PlanTrue
  <2> HIDE DEF n, order, named, w
  <2>4. DOMAIN sent' = 1..(Len(sent) + n)
    BY <2>1
  <2>5. \A i \in 1..(Len(sent) + n) : i \in 1..Len(sent) \/ \E j \in 1..n : i = Len(sent) + j
    <3> SUFFICES ASSUME NEW i \in 1..(Len(sent) + n), i \notin 1..Len(sent) PROVE \E j \in 1..n : i = Len(sent) + j
      OBVIOUS
    <3>1. i - Len(sent) \in 1..n /\ i = Len(sent) + (i - Len(sent))
      BY <1>1, <2>1
    <3> QED
      BY <3>1
  <2>6. \A j \in 1..n : sent'[Len(sent) + j].approval <= approvals[sent'[Len(sent) + j].rel]
    <3> TAKE j \in 1..n
    <3>1. order[j] \in named
      BY <2>1
    <3>2. sent'[Len(sent) + j] = [rel |-> w.plans[order[j]].rel, approval |-> w.plans[order[j]].approval, age |-> 0]
      BY <2>1
    <3>3. sent'[Len(sent) + j].rel = w.plans[order[j]].rel /\ sent'[Len(sent) + j].approval = w.plans[order[j]].approval
      BY <3>2
    <3> QED
      BY <2>3, <3>1, <3>3
  <2>7. SentTrue(sent', approvals')
    BY <1>1, <1>3, <2>1, <2>2, <2>4, <2>5, <2>6 DEF SentTrue
  <2> QED
    BY <1>1, <2>1, <2>2, <2>4, <2>7
<1>7. ASSUME NEW s \in Subs, Approve(s) PROVE SentTrue(sent', approvals') /\ \A x \in Releases : approvals'[x] \in Nat
  <2>1. \A x \in Releases : approvals'[x] \in Nat
    BY <1>1, <1>7, ApproveCounts
  <2>2. sent' = sent /\ \A x \in Releases : approvals[x] <= approvals'[x]
    BY <1>7, ApproveCounts
  <2> QED
    BY <1>2, <1>3, <2>1, <2>2 DEF SentTrue
<1>8. CASE \E s \in Subs : Approve(s)
  <2>1. PICK s \in Subs : Approve(s)
    BY <1>8
  <2>2. UNCHANGED <<sent, notice>>
    BY <2>1, ApproveCounts
  <2>3. /\ approvals' \in [Releases -> 0..MaxApprovals]
        /\ \A x \in Releases : approvals[x] <= approvals'[x]
    BY <2>1, ApproveCounts
  <2> QED
    BY <1>1, <1>2, <1>7, <2>1, <2>2, <2>3, ChannelMoves
<1>9. CASE \E s \in Subs : Tell(s)
  <2>1. PICK s \in Subs : Tell(s)
    BY <1>9
  <2>2. UNCHANGED <<sent, approvals>>
    BY <2>1, TellCounts
  <2>3. /\ notice' \in [Releases -> 0..NOTICE + 1]
        /\ \A x \in Releases : notice[x] > NOTICE => notice'[x] > NOTICE
    BY <2>1, TellCounts
  <2>4. \A x \in Releases : approvals[x] <= approvals[x]
    BY <1>2
  <2>5. SentTrue(sent', approvals')
    BY <1>3, <2>2 DEF SentTrue
  <2> QED
    BY <1>1, <1>2, <2>2, <2>3, <2>4, <2>5, ChannelMoves
<1>10. CASE \E r \in Runs, ok \in BOOLEAN : ok /\ Alert(r, ok)
  <2>1. UNCHANGED <<approvals, notice>> /\ owner' = owner
    BY <1>6, <1>10, ChannelMoves
  <2>2. /\ sent' \in Seq(Sent) /\ Len(sent') <= MaxSent /\ SentTrue(sent', approvals')
        /\ \A i \in 1..Len(sent) : i \in DOMAIN sent' /\ sent'[i] = sent[i]
    BY <1>6, <1>10
  <2>3. \A i \in DOMAIN sent : /\ i \in DOMAIN sent' /\ sent'[i].rel = sent[i].rel
                                /\ sent'[i].approval = sent[i].approval
                                /\ sent[i].age >= WINDOW => sent'[i].age >= WINDOW
    BY <1>1, <2>2
  <2>4. \A x \in Releases : approvals[x] <= approvals[x]
    BY <1>2
  <2> QED
    BY <1>1, <1>2, <2>1, <2>2, <2>3, <2>4
<1> QED
  BY <1>4, <1>5, <1>8, <1>9, <1>10, ChannelMoves

-----------------------------------------------------------------------------
(* Main, the tags' releases and the count of faults                          *)

LEMMA MainMoves ==
    ASSUME [Next]_vars
    PROVE  \/ main' = main
           \/ \E r \in Runs : \E order, dies : Publish(r, order, dies)
           \/ \E s \in Subs : RecordStop(s)
           \/ LandDeny \/ LandOk \/ LandOwner
BY DEF Next, Step, Trigger, Claim, Decide, Alert, Report, Crash, Arrive, Approve, Tell, Stop,
       Upload, Delete, Revoke, Change, Tick, vars

\* Main only gains records, OKs and owner's approvals, and every publication it
\* gains was justified on a tree it had before.
LEMMA MainStep ==
    ASSUME IInv, [Next]_vars
    PROVE  /\ main' \in Trees /\ Behind(main, main')
           /\ PathsDiffer(main') /\ RecordsTrue(main') /\ AlertsTrue(main', sent')
           /\ NewPublications
<1> DEFINE Right == /\ main' \in Trees /\ Behind(main, main')
                    /\ PathsDiffer(main') /\ RecordsTrue(main') /\ AlertsTrue(main', sent)
                    /\ NewPublications
<1>1. Right
  <2>1. CASE main' = main
    BY <2>1 DEF IInv, TypeOK, Behind, NewPublications, PathsDiffer, RecordsTrue, AlertsTrue
  <2>2. CASE \E r \in Runs : \E order, dies : Publish(r, order, dies)
    BY <2>2, PublishMain
  <2>3. CASE \E s \in Subs : RecordStop(s)
    BY <2>3, StopMain
  <2>4. CASE LandDeny \/ LandOk \/ LandOwner
    BY <2>4, OperatorMain
  <2> QED
    BY <2>1, <2>2, <2>3, <2>4, MainMoves
<1>2. \A i \in DOMAIN sent : i \in DOMAIN sent' /\ sent'[i].rel = sent[i].rel
  BY ChannelStep
<1>3. AlertsTrue(main', sent')
  BY <1>1, <1>2, AlertsStay
<1> QED
  BY <1>1, <1>3

\* The bounded stays within its bound.
LEMMA TroubleStep ==
    ASSUME IInv, [Next]_vars
    PROVE  trouble' \in 0..MaxTrouble
<1>1. trouble \in 0..MaxTrouble /\ MaxTrouble \in Nat
  BY IngestAssumption DEF IInv, TypeOK
<1>2. \A n \in Nat : Trouble(n) => trouble' \in 0..MaxTrouble
  BY <1>1 DEF Trouble
<1>3. \A S \in SUBSET Subs : Cardinality(S) \in Nat
  <2> TAKE S \in SUBSET Subs
  <2>1. IsFiniteSet(S)
    BY FS_Subset, IngestAssumption
  <2> QED
    BY <2>1, FS_CardinalityType
<1>4. CASE UNCHANGED trouble
  BY <1>1, <1>4
<1>5. CASE Trouble(0) \/ Trouble(1)
  BY <1>2, <1>5
<1>6. CASE \E S \in SUBSET Subs : Trouble(Cardinality(S))
  BY <1>2, <1>3, <1>6
<1>7. Tick => \E S \in SUBSET Subs : Trouble(Cardinality(S))
  BY DEF Tick
<1>8. UNCHANGED trouble \/ Trouble(0) \/ Trouble(1) \/ \E S \in SUBSET Subs : Trouble(Cardinality(S))
  <2> HIDE DEF Trouble
  <2> QED
    BY <1>7 DEF Next, Step, Trigger, Claim, Decide, Alert, Publish, Report, Crash, Arrive, Approve, Tell, Stop, RecordStop,
       Upload, Delete, Revoke, Change, LandDeny, LandOk, LandOwner, Lands, Counted, vars
<1> QED
  BY <1>4, <1>5, <1>6, <1>8

\* A release is replaced, deleted or revoked, within its bound.
LEMMA ReleaseStep ==
    ASSUME IInv, [Next]_vars
    PROVE  release' \in [Subs -> [bytes : 1..MaxBytes, fate : {"ok", "gone", "unusable"}]]
<1> DEFINE Release == [bytes : 1..MaxBytes, fate : {"ok", "gone", "unusable"}]
<1>1. release \in [Subs -> Release]
  BY DEF IInv, TypeOK
<1>2. ASSUME NEW s \in Subs, Upload(s) PROVE \E e \in Release : release' = [release EXCEPT ![s] = e]
  <2>1. release[s] \in Release
    BY <1>1
  <2>2. release[s].bytes + 1 \in 1..MaxBytes
    BY <1>2, <2>1, IngestAssumption DEF Upload
  <2>3. [release[s] EXCEPT !.bytes = @ + 1] \in Release
    BY <2>1, <2>2
  <2> QED
    BY <1>2, <2>3 DEF Upload, Change
<1>3. ASSUME NEW s \in Subs, Delete(s) \/ Revoke(s) PROVE \E e \in Release : release' = [release EXCEPT ![s] = e]
  <2>1. release[s] \in Release
    BY <1>1
  <2>2. [release[s] EXCEPT !.fate = "gone"] \in Release /\ [release[s] EXCEPT !.fate = "unusable"] \in Release
    BY <2>1
  <2> QED
    BY <1>3, <2>2 DEF Delete, Revoke, Change
<1> HIDE DEF Release
<1>4. release' = release \/ \E s \in Subs : Upload(s) \/ Delete(s) \/ Revoke(s)
  BY DEF Next, Step, Trigger, Claim, Decide, Alert, Publish, Report, Crash, Arrive, Approve, Tell, Stop, RecordStop,
         LandDeny, LandOk, LandOwner, Lands, Tick, vars
<1>5. release' \in [Subs -> Release]
  BY <1>1, <1>2, <1>3, <1>4
<1> QED
  BY <1>5 DEF Release

-----------------------------------------------------------------------------
(* The runs                                                                  *)

\* A step only adds to what was true before it.
LEMMA LaterStep ==
    ASSUME IInv, [Next]_vars
    PROVE  /\ Later(main, main', sent, sent', approvals, approvals', notice, notice')
           /\ owner' = owner
BY ChannelStep, MainStep DEF Later

\* What a run that moves becomes.
Becomes(r, w) ==
    /\ run' = [run EXCEPT ![r] = w] /\ RunOK(w)
    /\ RunTrue(w, main', sent', approvals', notice', owner')

LEMMA IdleRun ==
    ASSUME NEW m, NEW st, NEW ap, NEW nt, NEW ow
    PROVE  RunOK(Idle) /\ RunTrue(Idle, m, st, ap, nt, ow)
BY DEF Idle, RunOK, RunTrue

LEMMA TriggerRun ==
    ASSUME IInv, NEW r \in Runs, Trigger(r) \/ Claim(r)
    PROVE  \E w : Becomes(r, w)
<1>1. UNCHANGED <<main, sent, approvals, notice, owner>>
  BY DEF Trigger, Claim
<1>2. main \in Trees /\ AlertsTrue(main, sent) /\ Behind(main, main)
  BY DEF IInv, TypeOK, Behind
<1>3. CASE Trigger(r)
  <2> DEFINE w == [phase |-> "pending", base |-> main]
  <2>1. RunOK(w) /\ RunTrue(w, main, sent, approvals, notice, owner)
    BY <1>2 DEF RunOK, RunTrue
  <2>2. run' = [run EXCEPT ![r] = w]
    BY <1>3 DEF Trigger
  <2> HIDE DEF w
  <2> QED
    BY <1>1, <2>1, <2>2 DEF Becomes
<1>4. CASE Claim(r)
  <2> DEFINE w == [phase |-> "claimed", base |-> run[r].base, leases |-> Claimable]
  <2>1. run[r].phase = "pending" /\ run' = [run EXCEPT ![r] = w]
    BY <1>4 DEF Claim
  <2>2. run[r].base \in Trees
    BY <2>1 DEF IInv, TypeOK, RunOK
  <2>3. Behind(run[r].base, main) /\ AlertsTrue(run[r].base, sent)
    BY <2>1 DEF IInv, RunTrue
  <2>4. RunOK(w)
    BY <2>2 DEF RunOK, Claimable
  <2>5. RunTrue(w, main, sent, approvals, notice, owner)
    BY <2>3 DEF RunTrue
  <2> HIDE DEF w
  <2> QED
    BY <1>1, <2>1, <2>4, <2>5 DEF Becomes
<1> QED
  BY <1>3, <1>4

LEMMA DecideRun ==
    ASSUME IInv, NEW r \in Runs, NEW failed, NEW kind \in {"none", "wait"}, Decide(r, failed, kind)
    PROVE  \E w : Becomes(r, w)
<1> DEFINE base == run[r].base
           plans == [s \in run[r].leases |-> IF s \in failed THEN Plan(kind) ELSE decideSubmission(base, s)]
           kept == {s \in run[r].leases : plans[s].kind # "none"}
           phase == IF \E s \in kept : plans[s].kind = "alert" THEN "alert" ELSE "publish"
           w == [phase |-> phase, base |-> base, plans |-> [s \in kept |-> plans[s]], delivered |-> [s \in kept |-> 0]]
<1>1. /\ run[r].phase = "claimed" /\ UNCHANGED <<main, sent, approvals, notice, owner>>
      /\ run' = [run EXCEPT ![r] = IF kept = {} THEN Idle ELSE w]
  BY DEF Decide
<1>2. base \in Trees /\ run[r].leases \subseteq Subs
  BY <1>1 DEF IInv, TypeOK, RunOK
<1>3. Behind(base, main) /\ AlertsTrue(base, sent)
  BY <1>1 DEF IInv, RunTrue
<1> HIDE DEF base
<1>4. ASSUME NEW s \in kept
      PROVE  plans[s] \in Plans /\ plans[s].kind # "none" /\ PlanTrue(s, plans[s], base, sent, approvals, notice, owner)
  <2>1. s \in Subs /\ plans[s] = IF s \in failed THEN Plan(kind) ELSE decideSubmission(base, s)
    BY <1>2
  <2>2. Plan(kind) \in Plans /\ PlanTrue(s, Plan(kind), base, sent, approvals, notice, owner)
    BY DEF Plan, Plans, PlanTrue
  <2> HIDE DEF plans
  <2> QED
    BY <1>2, <1>3, <2>1, <2>2, Decided
<1>5. kept \subseteq Subs /\ phase \in {"alert", "publish"} /\ 0 \in 0..MaxSent
  BY <1>2, IngestAssumption
<1> HIDE DEF plans, kept, phase
<1>6. RunOK(w)
  BY <1>2, <1>4, <1>5 DEF RunOK
<1>7. RunTrue(w, main, sent, approvals, notice, owner)
  BY <1>3, <1>4, <1>5 DEF RunTrue, DeliveryTrue
<1> HIDE DEF w
<1> QED
  BY <1>1, <1>6, <1>7, IdleRun DEF Becomes

\* The plans that named an alert learn the number of its delivery.
LEMMA AlertRun ==
    ASSUME IInv, [Next]_vars, NEW r \in Runs, NEW ok \in BOOLEAN, Alert(r, ok)
    PROVE  \E w : Becomes(r, w)
<1> DEFINE v == run[r]
<1>1. v.phase = "alert" /\ UNCHANGED <<main, approvals, notice, owner>>
  BY DEF Alert
<1>2. PICK subs \in SUBSET Subs :
        v \in [phase : {"alert", "publish"}, base : Trees, plans : [subs -> Plans], delivered : [subs -> 0..MaxSent]]
  BY <1>1 DEF IInv, TypeOK, RunOK
<1>3. RunTrue(v, main', sent', approvals', notice', owner')
  <2>1. RunTrue(v, main, sent, approvals, notice, owner) /\ RunOK(v)
    BY DEF IInv, TypeOK
  <2> QED
    BY <2>1, LaterStep, RunStays
<1>4. CASE ~ok
  <2> DEFINE w == [v EXCEPT !.phase = "publish"]
  <2>1. run' = [run EXCEPT ![r] = w]
    BY <1>4 DEF Alert
  <2>2. /\ w \in [phase : {"alert", "publish"}, base : Trees, plans : [subs -> Plans], delivered : [subs -> 0..MaxSent]]
        /\ w.phase = "publish" /\ w.base = v.base /\ w.plans = v.plans /\ w.delivered = v.delivered
    BY <1>2
  <2> HIDE DEF w
  <2>3. RunOK(w)
    BY <2>2 DEF RunOK
  <2>4. RunTrue(w, main', sent', approvals', notice', owner')
    BY <1>1, <1>3, <2>2 DEF RunTrue
  <2> QED
    BY <2>1, <2>3, <2>4 DEF Becomes
<1>5. CASE ok
  <2> DEFINE named == {s \in DOMAIN v.plans : v.plans[s].kind = "alert"}
             order == SetToSeq(named)
             n == Cardinality(named)
             place(s) == CHOOSE i \in DOMAIN order : order[i] = s
             index == [s \in DOMAIN v.plans |-> IF s \in named THEN Len(sent) + place(s) ELSE 0]
             w == [[v EXCEPT !.phase = "publish"] EXCEPT !.delivered = index]
  <2>1. run' = [run EXCEPT ![r] = w]
    BY <1>5 DEF Alert
  <2>2. /\ n \in Nat /\ Len(sent) \in Nat /\ Len(sent) + n <= MaxSent
        /\ order \in [1..n -> named]
        /\ \A s \in named : \E i \in 1..n : order[i] = s
        /\ Len(sent') = Len(sent) + n /\ sent' \in Seq(Sent)
        /\ \A i \in 1..n : sent'[Len(sent) + i] = [rel |-> v.plans[order[i]].rel,
                                                   approval |-> v.plans[order[i]].approval, age |-> 0]
    BY <1>5, AlertSends
  <2>3. DOMAIN v.plans = subs
    BY <1>2
  <2>4. \A s \in named : place(s) \in 1..n /\ order[place(s)] = s
    <3> HIDE DEF order, n, named
    <3>1. DOMAIN order = 1..n
      BY <2>2
    <3> QED
      BY <2>2, <3>1
  <2>5. MaxSent \in Nat /\ 0 \in 0..MaxSent
    BY IngestAssumption
  <2>6. DOMAIN sent' = 1..(Len(sent) + n)
    BY <2>2
  <2> HIDE DEF n, order, place, named
  <2>7. \A s \in named : Len(sent) + place(s) \in 1..(Len(sent) + n) /\ Len(sent) + place(s) \in 0..MaxSent
    BY <2>2, <2>4, <2>5
  <2>8. \A s \in named : sent'[Len(sent) + place(s)].rel = v.plans[s].rel
    <3> TAKE s \in named
    <3>1. sent'[Len(sent) + place(s)] = [rel |-> v.plans[s].rel, approval |-> v.plans[s].approval, age |-> 0]
      BY <2>2, <2>4
    <3> QED
      BY <3>1
  <2>9. index \in [subs -> 0..MaxSent] /\ \A s \in subs : index[s] = IF s \in named THEN Len(sent) + place(s) ELSE 0
    BY <2>3, <2>5, <2>7
  <2>10. \A s \in subs : DeliveryTrue(v.plans[s], index[s], sent')
    <3> SUFFICES ASSUME NEW s \in subs, index[s] > 0
                 PROVE  v.plans[s].kind = "alert" /\ index[s] \in DOMAIN sent' /\ sent'[index[s]].rel = v.plans[s].rel
      BY DEF DeliveryTrue
    <3>1. s \in named
      BY <2>9
    <3>2. index[s] = Len(sent) + place(s)
      BY <2>9, <3>1
    <3> HIDE DEF index
    <3> QED
      BY <2>6, <2>7, <2>8, <3>1, <3>2 DEF named
  <2> HIDE DEF index
  <2>11. /\ w \in [phase : {"alert", "publish"}, base : Trees, plans : [subs -> Plans], delivered : [subs -> 0..MaxSent]]
         /\ w.phase = "publish" /\ w.base = v.base /\ w.plans = v.plans /\ w.delivered = index
    BY <1>2, <2>9
  <2> HIDE DEF w
  <2>12. RunOK(w)
    BY <2>11 DEF RunOK
  <2>13. RunTrue(w, main', sent', approvals', notice', owner')
    BY <1>1, <1>3, <2>3, <2>10, <2>11 DEF RunTrue
  <2> QED
    BY <2>1, <2>12, <2>13 DEF Becomes
<1> QED
  BY <1>4, <1>5

\* What a publish job names is on main when it is done.
LEMMA PublishRun ==
    ASSUME IInv, NEW r \in Runs, NEW order, NEW dies, Publish(r, order, dies)
    PROVE  \E w : Becomes(r, w)
<1> DEFINE v == run[r]
           acc == Applied(v, order)
           results == [s \in DOMAIN v.plans |-> resultBody(v, s)]
           w == [phase |-> "report", results |-> results]
<1>1. /\ v.phase = "publish" /\ order \in SetToSeqs(DOMAIN v.plans) /\ main' = acc.tree
      /\ UNCHANGED <<approvals, notice, sent, owner>>
      /\ run' = [run EXCEPT ![r] = IF dies \/ ~Succeeds(v, acc) THEN Idle ELSE w]
  BY DEF Publish
<1>2. AccTrue(v, acc, main, sent, Len(order), order)
  BY <1>1, AllApplied
<1>3. DOMAIN v.plans \subseteq Subs /\ v.base \in Trees /\ v.base.records \subseteq main.records
      /\ \A s \in DOMAIN v.plans : v.plans[s] \in Plans
  BY <1>1 DEF IInv, TypeOK, RunOK, RunTrue, Behind
<1>4. IsFiniteSet(DOMAIN v.plans)
  BY <1>3, FS_Subset, IngestAssumption
<1>5. \A s \in DOMAIN v.plans : \E i \in 1..Len(order) : order[i] = s
  BY <1>1, <1>4, EveryOrder
<1>6. \A s \in DOMAIN v.plans :
        v.plans[s].kind # "none" /\ PlanTrue(s, v.plans[s], v.base, sent, approvals, notice, owner)
  BY <1>1 DEF IInv, RunTrue
<1>7. v.base.records \subseteq Records /\ v.base.records \subseteq main'.records
  BY <1>1, <1>2, <1>3, TreeFields DEF AccTrue
<1> HIDE DEF acc
<1>8. ASSUME acc.refused = {}, NEW s \in DOMAIN v.plans, v.plans[s].kind \notin {"wait", "alert"}
      PROVE  Named(v, s) \in Records /\ Named(v, s) \in main'.records /\ Named(v, s).rel.sub = s
  <2> DEFINE p == v.plans[s]
  <2>1. p.kind \in {"state", "reported"} /\ p.rec \in Records /\ p.rec.rel.sub = s
        /\ (p.kind = "reported" => p.rec \in v.base.records)
    BY <1>3, <1>6, <1>8 DEF Plans, PlanTrue
  <2>2. CASE p.kind = "reported"
    BY <1>7, <2>1, <2>2 DEF Named
  <2>3. CASE p.kind = "state" /\ New(v, s)
    <3>1. p.rec \in main'.records
      BY <1>1, <1>2, <1>5, <1>8, <2>3 DEF AccTrue
    <3> QED
      BY <2>1, <2>3, <3>1 DEF Named
  <2>4. CASE p.kind = "state" /\ ~New(v, s)
    <3> DEFINE e == CHOOSE e \in v.base.records : Path(e) = Path(p.rec)
    <3>1. \E f \in v.base.records : Path(f) = Path(p.rec)
      BY <2>4 DEF New
    <3>2. e \in v.base.records /\ Path(e) = Path(p.rec)
      BY <3>1
    <3>3. Named(v, s) = e
      BY <2>4 DEF Named
    <3> HIDE DEF e
    <3>4. e.rel = p.rec.rel
      BY <3>2 DEF Path
    <3> QED
      BY <1>7, <2>1, <3>2, <3>3, <3>4
  <2> QED
    BY <2>1, <2>2, <2>3, <2>4
<1>9. CASE dies \/ ~Succeeds(v, acc)
  BY <1>1, <1>9, IdleRun DEF Becomes
<1>10. CASE ~(dies \/ ~Succeeds(v, acc))
  <2>1. acc.refused = {} /\ run' = [run EXCEPT ![r] = w]
    BY <1>1, <1>10 DEF Succeeds
  <2> HIDE DEF v
  <2>2. ASSUME NEW s \in DOMAIN v.plans
        PROVE  /\ results[s] \in Results
               /\ results[s].kind = "named" => results[s].rec \in main'.records /\ results[s].rec.rel.sub = s
    BY <1>8, <2>1, <2>2 DEF resultBody, Results
  <2>3. DOMAIN results = DOMAIN v.plans /\ results \in [DOMAIN v.plans -> Results]
    BY <2>2
  <2> HIDE DEF results
  <2>4. w.phase = "report" /\ w.results = results
    OBVIOUS
  <2>5. RunOK(w)
    BY <1>3, <2>2, <2>3 DEF RunOK
  <2>6. RunTrue(w, main', sent', approvals', notice', owner')
    BY <2>2, <2>3, <2>4 DEF RunTrue
  <2> HIDE DEF w
  <2> QED
    BY <2>1, <2>5, <2>6 DEF Becomes
<1> QED
  BY <1>9, <1>10

\* A run that moves knows nothing that is not true, and the others' knowledge
\* stays true.
LEMMA RunStep ==
    ASSUME IInv, [Next]_vars
    PROVE  /\ DOMAIN run' = Runs
           /\ \A q \in Runs : RunOK(run'[q]) /\ RunTrue(run'[q], main', sent', approvals', notice', owner')
<1>1. DOMAIN run = Runs /\ \A q \in Runs : RunOK(run[q])
  BY DEF IInv, TypeOK
<1>2. \A q \in Runs : RunTrue(run[q], main', sent', approvals', notice', owner')
  <2> TAKE q \in Runs
  <2>1. RunTrue(run[q], main, sent, approvals, notice, owner)
    BY DEF IInv
  <2> QED
    BY <1>1, <2>1, LaterStep, RunStays
<1>3. run' = run \/ \E r \in Runs : \E w : Becomes(r, w)
  <2>1. \/ run' = run
        \/ \E r \in Runs : \/ Trigger(r) \/ Claim(r)
                           \/ \E failed \in SUBSET Subs, kind \in {"none", "wait"} : Decide(r, failed, kind)
                           \/ \E ok \in BOOLEAN : Alert(r, ok)
                           \/ \E order, dies : Publish(r, order, dies)
                           \/ Crash(r)
                           \/ \E lost : Report(r, lost)
    BY DEF Next, Step, Arrive, Approve, Tell, Stop, RecordStop,
           Upload, Delete, Revoke, Change, LandDeny, LandOk, LandOwner, Lands, Tick, vars
  <2>2. ASSUME NEW r \in Runs, NEW lost, Crash(r) \/ Report(r, lost) PROVE Becomes(r, Idle)
    <3>1. run' = [run EXCEPT ![r] = Idle]
      BY <2>2 DEF Crash, Report
    <3> QED
      BY <3>1, IdleRun DEF Becomes
  <2> QED
    BY <2>1, <2>2, TriggerRun, DecideRun, AlertRun, PublishRun
<1>4. ASSUME NEW r \in Runs, NEW w, Becomes(r, w)
      PROVE  /\ DOMAIN run' = Runs
             /\ \A q \in Runs : run'[q] = IF q = r THEN w ELSE run[q]
  BY <1>1, <1>4 DEF Becomes
<1>5. CASE run' = run
  BY <1>1, <1>2, <1>5
<1>6. CASE \E r \in Runs : \E w : Becomes(r, w)
  <2>0. PICK r \in Runs : \E w : Becomes(r, w)
    BY <1>6
  <2>1. PICK w : Becomes(r, w)
    BY <2>0
  <2>2. RunOK(w) /\ RunTrue(w, main', sent', approvals', notice', owner')
    BY <2>1 DEF Becomes
  <2> QED
    BY <1>1, <1>2, <1>4, <2>1, <2>2
<1> QED
  BY <1>3, <1>5, <1>6

-----------------------------------------------------------------------------
(* The service                                                               *)

Views == [state : States \cup {"absent", "received", "approved"}, lease : Runs \cup {NoRun},
          left : 0..LEASE, stop : BOOLEAN, named : SUBSET Records]

\* What the service believes of a submission, main has recorded.
Settled(v, m, s) == v.named \subseteq m.records /\ \A d \in v.named : d.rel.sub = s

LEMMA ViewEdits ==
    ASSUME NEW v \in Views, NEW r \in Runs \cup {NoRun}
    PROVE  /\ [v EXCEPT !.lease = r, !.left = LEASE] \in Views
           /\ [v EXCEPT !.lease = NoRun, !.left = 0] \in Views
           /\ v.left > 1 => [v EXCEPT !.left = @ - 1] \in Views
           /\ \A x \in States \cup {"absent", "received", "approved"} : [v EXCEPT !.state = x] \in Views
           /\ [v EXCEPT !.stop = TRUE] \in Views
           /\ \A d \in Records : [v EXCEPT !.lease = NoRun, !.left = 0, !.state = d.state, !.named = {d}] \in Views
           /\ \A d \in Records : [v EXCEPT !.state = "stopped", !.named = {d}, !.lease = NoRun, !.left = 0] \in Views
<1>1. LEASE \in Nat /\ 0 \in 0..LEASE /\ LEASE \in 0..LEASE /\ NoRun \in Runs \cup {NoRun}
  BY IngestAssumption
<1>2. v.left > 1 => v.left - 1 \in 0..LEASE
  BY <1>1 DEF Views
<1>3. \A d \in Records : d.state \in States /\ {d} \in SUBSET Records
  BY RecordFields
<1>4. "stopped" \in States
  BY DEF States
<1>5. /\ [v EXCEPT !.lease = r, !.left = LEASE] \in Views
      /\ [v EXCEPT !.lease = NoRun, !.left = 0] \in Views
  BY <1>1 DEF Views
<1>6. /\ v.left > 1 => [v EXCEPT !.left = @ - 1] \in Views
      /\ \A x \in States \cup {"absent", "received", "approved"} : [v EXCEPT !.state = x] \in Views
      /\ [v EXCEPT !.stop = TRUE] \in Views
  BY <1>2 DEF Views
<1>7. \A d \in Records : [v EXCEPT !.lease = NoRun, !.left = 0, !.state = d.state, !.named = {d}] \in Views
  BY <1>1, <1>3 DEF Views
<1>8. \A d \in Records : [v EXCEPT !.state = "stopped", !.named = {d}, !.lease = NoRun, !.left = 0] \in Views
  BY <1>1, <1>3, <1>4 DEF Views
<1> QED
  BY <1>5, <1>6, <1>7, <1>8

\* A submission whose view changes is told of nothing but what main has.
Kept(s) == svc'[s] \in Views /\ svc'[s].named = svc[s].named
Answered(s) == svc'[s] \in Views /\ svc'[s].named \subseteq main'.records /\ \A d \in svc'[s].named : d.rel.sub = s

LEMMA ReportViews ==
    ASSUME IInv, NEW r \in Runs, NEW lost, Report(r, lost)
    PROVE  svc' = [s \in Subs |-> svc'[s]] /\ \A s \in Subs : Kept(s) \/ Answered(s)
<1> DEFINE results == run[r].results
<1>1. /\ run[r].phase = "report" /\ main' = main
      /\ svc' = [s \in Subs |-> IF s \in DOMAIN results \ lost /\ Leased(s, r) THEN Taken(svc[s], results[s]) ELSE svc[s]]
  BY DEF Report
<1>2. \A s \in DOMAIN results : results[s] \in Results
  BY <1>1 DEF IInv, TypeOK, RunOK
<1>3. \A s \in DOMAIN results : results[s].kind = "named" => results[s].rec \in main.records /\ results[s].rec.rel.sub = s
  BY <1>1 DEF IInv, RunTrue
<1>4. \A s \in Subs : svc[s] \in Views
  BY DEF IInv, TypeOK, Views
<1> HIDE DEF results
<1>5. ASSUME NEW s \in Subs, s \in DOMAIN results PROVE LET v == Taken(svc[s], results[s]) IN
        /\ v \in Views
        /\ \/ v.named = svc[s].named
           \/ v.named \subseteq main.records /\ \A d \in v.named : d.rel.sub = s
  <2> DEFINE u == svc[s]
  <2>1. CASE results[s].kind = "wait"
    <3>1. Taken(u, results[s]) = [u EXCEPT !.lease = NoRun, !.left = 0]
      BY <2>1 DEF Taken
    <3>2. [u EXCEPT !.lease = NoRun, !.left = 0].named = u.named
      BY <1>4 DEF Views
    <3> QED
      BY <1>4, <3>1, <3>2, ViewEdits
  <2>2. CASE results[s].kind # "wait"
    <3> DEFINE d == results[s].rec
               v == [u EXCEPT !.lease = NoRun, !.left = 0, !.state = d.state, !.named = {d}]
    <3>1. results[s].kind = "named" /\ d \in Records
      BY <1>2, <1>5, <2>2 DEF Results
    <3>2. Taken(u, results[s]) = v
      BY <2>2 DEF Taken
    <3>3. v.named = {d}
      BY <1>4 DEF Views
    <3>4. v \in Views
      BY <1>4, <3>1, ViewEdits
    <3> HIDE DEF v
    <3> QED
      BY <1>3, <1>5, <3>1, <3>2, <3>3, <3>4
  <2> QED
    BY <2>1, <2>2
<1>6. ASSUME NEW s \in Subs PROVE Kept(s) \/ Answered(s)
  <2>1. CASE s \in DOMAIN results \ lost /\ Leased(s, r)
    <3>1. svc'[s] = Taken(svc[s], results[s])
      BY <1>1, <2>1
    <3> QED
      BY <1>1, <1>5, <2>1, <3>1 DEF Kept, Answered
  <2>2. CASE ~(s \in DOMAIN results \ lost /\ Leased(s, r))
    BY <1>1, <1>4, <2>2 DEF Kept
  <2> QED
    BY <2>1, <2>2
<1> QED
  BY <1>1, <1>6

LEMMA TickViews ==
    ASSUME IInv, Tick
    PROVE  svc' = [s \in Subs |-> svc'[s]] /\ \A s \in Subs : Kept(s)
<1>1. svc' = [s \in Subs |-> IF svc[s].left = 1 THEN [svc[s] EXCEPT !.lease = NoRun, !.left = 0]
                             ELSE IF svc[s].left > 1 THEN [svc[s] EXCEPT !.left = @ - 1] ELSE svc[s]]
  BY DEF Tick
<1>2. ASSUME NEW s \in Subs PROVE Kept(s)
  <2> DEFINE v == svc[s]
  <2>1. v \in Views
    BY DEF IInv, TypeOK, Views
  <2>2. /\ [v EXCEPT !.lease = NoRun, !.left = 0] \in Views
        /\ v.left > 1 => [v EXCEPT !.left = @ - 1] \in Views
    BY <2>1, ViewEdits
  <2>3. /\ [v EXCEPT !.lease = NoRun, !.left = 0].named = v.named
        /\ [v EXCEPT !.left = @ - 1].named = v.named
    BY <2>1 DEF Views
  <2> QED
    BY <1>1, <2>1, <2>2, <2>3 DEF Kept
<1> QED
  BY <1>1, <1>2

\* Leases, arrivals, approvals and stops leave what a view names.
LEMMA OtherViews ==
    ASSUME IInv,
           \/ \E r \in Runs : Claim(r)
           \/ \E s \in Subs : Arrive(s) \/ Approve(s) \/ Stop(s)
    PROVE  svc' = [s \in Subs |-> svc'[s]] /\ \A s \in Subs : Kept(s)
<1>1. svc = [s \in Subs |-> svc[s]] /\ \A s \in Subs : svc[s] \in Views
  BY DEF IInv, TypeOK, Views
<1>2. ASSUME NEW s \in Subs, NEW x PROVE [svc[s] EXCEPT !.state = x].named = svc[s].named
  BY <1>1 DEF Views
<1>3. CASE \E r \in Runs : Claim(r)
  <2>1. PICK r \in Runs :
          svc' = [s \in Subs |-> IF s \in Claimable THEN [svc[s] EXCEPT !.lease = r, !.left = LEASE] ELSE svc[s]]
    BY <1>3 DEF Claim
  <2>2. ASSUME NEW s \in Subs
        PROVE  /\ [svc[s] EXCEPT !.lease = r, !.left = LEASE] \in Views
               /\ [svc[s] EXCEPT !.lease = r, !.left = LEASE].named = svc[s].named
    <3>1. [svc[s] EXCEPT !.lease = r, !.left = LEASE] \in Views
      BY <1>1, ViewEdits
    <3>2. [svc[s] EXCEPT !.lease = r, !.left = LEASE].named = svc[s].named
      BY <1>1 DEF Views
    <3> QED
      BY <3>1, <3>2
  <2> QED
    BY <1>1, <2>1, <2>2 DEF Kept
<1>4. ASSUME NEW s \in Subs, NEW v \in Views, v.named = svc[s].named, svc' = [svc EXCEPT ![s] = v]
      PROVE  svc' = [q \in Subs |-> svc'[q]] /\ \A q \in Subs : Kept(q)
  BY <1>1, <1>4 DEF Kept
<1>5. ASSUME NEW s \in Subs, Arrive(s) \/ Approve(s) \/ Stop(s)
      PROVE  \E v \in Views : v.named = svc[s].named /\ svc' = [svc EXCEPT ![s] = v]
  <2>1. /\ [svc[s] EXCEPT !.state = "received"] \in Views /\ [svc[s] EXCEPT !.state = "approved"] \in Views
        /\ [svc[s] EXCEPT !.stop = TRUE] \in Views
    BY <1>1, ViewEdits
  <2>2. [svc[s] EXCEPT !.stop = TRUE].named = svc[s].named
    BY <1>1 DEF Views
  <2> QED
    BY <1>2, <1>5, <2>1, <2>2 DEF Arrive, Approve, Stop
<1> QED
  BY <1>3, <1>4, <1>5

LEMMA StopView ==
    ASSUME IInv, NEW s \in Subs, RecordStop(s)
    PROVE  svc' = [q \in Subs |-> svc'[q]] /\ \A q \in Subs : Kept(q) \/ Answered(q)
<1> DEFINE d == StopRecord(s)
           v == [svc[s] EXCEPT !.state = "stopped", !.named = {d}, !.lease = NoRun, !.left = 0]
<1>1. svc = [q \in Subs |-> svc[q]] /\ \A q \in Subs : svc[q] \in Views
  BY DEF IInv, TypeOK, Views
<1>2. svc' = [svc EXCEPT ![s] = v]
  BY DEF RecordStop, StopRecord
<1>3. d \in Records /\ main'.records = main.records \cup {d}
  BY StopMain
<1>4. d.rel.sub = s
  BY DEF StopRecord, Answer, NoBytes
<1> HIDE DEF d
<1>5. v \in Views
  BY <1>1, <1>3, ViewEdits
<1>6. v.named = {d}
  BY <1>1 DEF Views
<1> HIDE DEF v
<1> QED
  BY <1>1, <1>2, <1>3, <1>4, <1>5, <1>6 DEF Kept, Answered

\* What the service believes, main has recorded, whatever arrives late.
LEMMA ServiceStep ==
    ASSUME IInv, [Next]_vars
    PROVE  /\ svc' \in [Subs -> Views]
           /\ \A s \in Subs : svc'[s].named \subseteq main'.records /\ \A d \in svc'[s].named : d.rel.sub = s
<1>1. svc \in [Subs -> Views]
  BY DEF IInv, TypeOK, Views
<1>2. \/ svc' = svc
      \/ \E r \in Runs : \E lost : Report(r, lost)
      \/ Tick
      \/ (\E r \in Runs : Claim(r)) \/ (\E s \in Subs : Arrive(s) \/ Approve(s) \/ Stop(s))
      \/ \E s \in Subs : RecordStop(s)
  BY DEF Next, Step, Trigger, Decide, Alert, Publish, Crash, Tell,
         Upload, Delete, Revoke, Change, LandDeny, LandOk, LandOwner, Lands, vars
<1>3. svc' = [s \in Subs |-> svc'[s]] /\ \A s \in Subs : Kept(s) \/ Answered(s)
  <2>1. CASE svc' = svc
    BY <1>1, <2>1 DEF Kept
  <2> QED
    BY <1>2, <2>1, ReportViews, TickViews, OtherViews, StopView
<1>4. \A s \in Subs : svc[s].named \subseteq main.records /\ \A d \in svc[s].named : d.rel.sub = s
  BY DEF IInv, SettledIsRecorded
<1>5. main.records \subseteq main'.records
  BY MainStep DEF Behind
<1> QED
  BY <1>3, <1>4, <1>5 DEF Kept, Answered

-----------------------------------------------------------------------------
(* Initially, and from then on                                               *)

LEMMA Begins == Init => IInv
<1> SUFFICES ASSUME Init PROVE IInv
  OBVIOUS
<1>1. owner.identity \in Tokens \cup {NoToken}
  BY IngestAssumption DEF Init
<1>2. /\ main \in Trees /\ main.records = {} /\ main.alerts = [x \in Releases |-> 0]
  <2>1. 0 \in 0..MaxSent
    BY IngestAssumption
  <2>2. EmptyTree \in Trees /\ EmptyTree.records = {} /\ EmptyTree.alerts = [x \in Releases |-> 0]
    BY <2>1 DEF EmptyTree, Trees
  <2>3. main = [EmptyTree EXCEPT !.identity = owner.identity]
    BY DEF Init
  <2> QED
    BY <1>1, <2>2, <2>3 DEF Trees
<1>3. DOMAIN run = Runs /\ \A r \in Runs : run[r] = Idle
  BY DEF Init
<1>4. \A r \in Runs : RunOK(run[r]) /\ RunTrue(run[r], main, sent, approvals, notice, owner)
  BY <1>3, IdleRun
<1>5. /\ svc \in [Subs -> [state : States \cup {"absent", "received", "approved"}, lease : Runs \cup {NoRun},
                           left : 0..LEASE, stop : BOOLEAN, named : SUBSET Records]]
      /\ \A s \in Subs : svc[s].named = {}
  BY IngestAssumption DEF Init
<1>6. approvals \in [Releases -> 0..MaxApprovals] /\ notice \in [Releases -> 0..NOTICE + 1]
  BY IngestAssumption DEF Init
<1>7. sent \in Seq([rel : Releases, approval : 1..MaxApprovals, age : 0..WINDOW]) /\ Len(sent) <= MaxSent /\ DOMAIN sent = {}
  BY IngestAssumption DEF Init
<1>8. release \in [Subs -> [bytes : 1..MaxBytes, fate : {"ok", "gone", "unusable"}]]
  BY IngestAssumption DEF Init
<1>9. trouble \in 0..MaxTrouble /\ owner \in Cases
  BY IngestAssumption DEF Init
<1>10. TypeOK
  BY <1>2, <1>3, <1>4, <1>5, <1>6, <1>7, <1>8, <1>9 DEF TypeOK
<1>11. PathsDiffer(main) /\ RecordsTrue(main) /\ AlertsTrue(main, sent) /\ SentTrue(sent, approvals)
  BY <1>2, <1>7 DEF PathsDiffer, RecordsTrue, AlertsTrue, SentTrue
<1>12. ApprovedBytesOnly /\ SettledIsRecorded
  BY <1>2, <1>5 DEF ApprovedBytesOnly, SettledIsRecorded
<1> QED
  BY <1>4, <1>9, <1>10, <1>11, <1>12 DEF IInv

\* A publication on main was approved, or no hold asked for it.
LEMMA ApprovedStep ==
    ASSUME IInv, [Next]_vars
    PROVE  ApprovedBytesOnly'
<1> SUFFICES ASSUME NEW d \in main'.records, d.state = "published", d.by # "bot"
             PROVE  /\ At(main', d.rel, "held") # {}
                    /\ d.by = "moderator" => d.approval \in 1..approvals'[d.rel]
                    /\ d.by = "owner" => d.rel \in main'.owned
  BY DEF ApprovedBytesOnly, At
<1>1. Behind(main, main') /\ NewPublications
  BY MainStep
<1>2. \A x \in Releases : 1..approvals[x] \subseteq 1..approvals'[x]
  BY ChannelStep
<1>3. \A t : Behind(t, main') => At(t, d.rel, "held") \subseteq At(main', d.rel, "held") /\ t.owned \subseteq main'.owned
  BY DEF Behind, At
<1>4. CASE d \in main.records
  <2>1. /\ At(main, d.rel, "held") # {}
        /\ d.by = "moderator" => d.approval \in 1..approvals[d.rel]
        /\ d.by = "owner" => d.rel \in main.owned
    BY <1>4 DEF IInv, ApprovedBytesOnly
  <2>2. d.rel \in Releases
    BY <2>1 DEF IInv, RecordsTrue, RecordTrue, At
  <2> QED
    BY <1>1, <1>2, <1>3, <2>1, <2>2
<1>5. CASE d \notin main.records
  <2>1. PICK t \in Trees : Behind(t, main) /\ Justified(d, t, sent, approvals, notice, owner)
    BY <1>1, <1>5 DEF NewPublications
  <2>2. Behind(t, main')
    BY <1>1, <2>1 DEF Behind
  <2> QED
    BY <1>2, <1>3, <2>1, <2>2 DEF Justified
<1> QED
  BY <1>4, <1>5

\* The invariant, for all the constants the assumption allows.
THEOREM IngestInvariance == Spec => []IInv
<1>1. ASSUME IInv, [Next]_vars PROVE IInv'
  <2>1. owner' = owner /\ owner' \in Cases
    BY ChannelStep, <1>1 DEF IInv
  <2>2. sent' \in Seq([rel : Releases, approval : 1..MaxApprovals, age : 0..WINDOW]) /\ Len(sent') <= MaxSent
        /\ approvals' \in [Releases -> 0..MaxApprovals] /\ notice' \in [Releases -> 0..NOTICE + 1]
        /\ SentTrue(sent', approvals')
    BY <1>1, ChannelStep DEF Sent
  <2>3. main' \in Trees /\ PathsDiffer(main') /\ RecordsTrue(main') /\ AlertsTrue(main', sent')
    BY <1>1, MainStep
  <2>4. /\ DOMAIN run' = Runs
        /\ \A q \in Runs : RunOK(run'[q]) /\ RunTrue(run'[q], main', sent', approvals', notice', owner')
    BY <1>1, RunStep
  <2>5. /\ svc' \in [Subs -> [state : States \cup {"absent", "received", "approved"}, lease : Runs \cup {NoRun},
                              left : 0..LEASE, stop : BOOLEAN, named : SUBSET Records]]
        /\ \A s \in Subs : svc'[s].named \subseteq main'.records /\ \A d \in svc'[s].named : d.rel.sub = s
    BY <1>1, ServiceStep DEF Views
  <2>6. /\ release' \in [Subs -> [bytes : 1..MaxBytes, fate : {"ok", "gone", "unusable"}]]
        /\ trouble' \in 0..MaxTrouble
    BY <1>1, ReleaseStep, TroubleStep
  <2>7. TypeOK'
    BY <2>2, <2>3, <2>4, <2>5, <2>6 DEF TypeOK
  <2>8. ApprovedBytesOnly' /\ SettledIsRecorded'
    BY <1>1, <2>5, ApprovedStep DEF SettledIsRecorded
  <2> QED
    BY <2>1, <2>2, <2>3, <2>4, <2>7, <2>8 DEF IInv
<1> QED
  BY <1>1, Begins, PTL DEF Spec

\* The variables keep to their types, whatever crosses.
THEOREM IngestTypes == Spec => []TypeOK
<1>1. IInv => TypeOK
  BY DEF IInv
<1> QED
  BY <1>1, IngestInvariance, PTL

\* BOT-26: a publication that clears a hold is of the very bytes main shows held
\* and that were approved.
THEOREM BytesWereApproved == Spec => []ApprovedBytesOnly
<1>1. IInv => ApprovedBytesOnly
  BY DEF IInv
<1> QED
  BY <1>1, IngestInvariance, PTL

\* BOT-6, BOT-24: what the service believes of a submission, main records.
THEOREM SettledOnMain == Spec => []SettledIsRecorded
<1>1. IInv => SettledIsRecorded
  BY DEF IInv
<1> QED
  BY <1>1, IngestInvariance, PTL

\* TRUST-14, TRUST-32: no moderator's approval publishes before the operator was
\* told of it and had his window, or said OK.
THEOREM OperatorIsAsked == Spec => OperatorHadHisWindow
<1> DEFINE A == \A d \in main'.records : Published(d) /\ d.by = "moderator" => HadHisWindow(d.rel, d.approval)
<1>1. ASSUME IInv, [Next]_vars PROVE A
  <2> SUFFICES ASSUME NEW d \in main'.records, Published(d), d.by = "moderator"
               PROVE  HadHisWindow(d.rel, d.approval)
    OBVIOUS
  <2>1. d \in main'.records \ main.records /\ d.state = "published"
    BY DEF Published
  <2>2. PICK t \in Trees : Behind(t, main) /\ Justified(d, t, sent, approvals, notice, owner)
    BY <1>1, <2>1, MainStep DEF NewPublications
  <2> QED
    BY <2>2 DEF Justified, Behind, WindowHad, HadHisWindow
<1>2. IInv /\ [Next]_vars => [A]_vars
  BY <1>1
<1> QED
  BY <1>2, IngestInvariance, PTL DEF Spec, OperatorHadHisWindow

\* MIG-10: a first binding nobody approved for this very release is the owner's
\* own build, or follows one that was answered.
THEOREM FirstBindingAnswered == Spec => FirstBindingIsAnswered
<1> DEFINE A ==
      \A d \in main'.records :
        Published(d) /\ d.by = "bot" /\ main.identity = NoToken /\ Line(d.rel) # NoToken /\ ~SelfCleared(d.rel)
        => \E y \in Releases \ {d.rel} : /\ Line(y) = Line(d.rel) /\ At(main, y, "held") # {}
                                         /\ y \in main.owned \/ \E n \in 1..approvals[y] : HadHisWindow(y, n)
<1>1. ASSUME IInv, [Next]_vars PROVE A
  <2> SUFFICES ASSUME NEW d \in main'.records, Published(d), d.by = "bot", main.identity = NoToken,
                      Line(d.rel) # NoToken, ~SelfCleared(d.rel)
               PROVE  \E y \in Releases \ {d.rel} :
                         /\ Line(y) = Line(d.rel) /\ At(main, y, "held") # {}
                         /\ y \in main.owned \/ \E n \in 1..approvals[y] : HadHisWindow(y, n)
    OBVIOUS
  <2>1. d \in main'.records \ main.records /\ d.state = "published"
    BY DEF Published
  <2>2. PICK t \in Trees : Behind(t, main) /\ Justified(d, t, sent, approvals, notice, owner)
    BY <1>1, <2>1, MainStep DEF NewPublications
  <2>3. t.identity = NoToken
    BY <2>2 DEF Behind
  <2>4. PICK y \in Releases \ {d.rel} :
          /\ owner.line[y.sub] = owner.line[d.rel.sub] /\ At(t, y, "held") # {}
          /\ y \in t.owned \/ \E n \in 1..approvals[y] : WindowHad(y, n, sent, t.oks)
    BY <2>2, <2>3 DEF Justified, Line, SelfCleared
  <2>5. At(main, y, "held") # {} /\ t.owned \subseteq main.owned
    BY <2>2, <2>4 DEF Behind, At
  <2>6. \A n : WindowHad(y, n, sent, t.oks) => HadHisWindow(y, n)
    BY <2>2 DEF WindowHad, HadHisWindow, Behind
  <2> QED
    BY <2>4, <2>5, <2>6 DEF Line
<1>2. IInv /\ [Next]_vars => [A]_vars
  BY <1>1
<1> QED
  BY <1>2, IngestInvariance, PTL DEF Spec, FirstBindingIsAnswered

\* ID-60: no approval clears a hold that named a changed binding before the
\* account it is taken from was told and had its window.
THEOREM AccountIsTold == Spec => PreviousAccountTold
<1> DEFINE A ==
      \A d \in main'.records : Published(d) /\ d.by # "bot" =>
        \A e \in At(main, d.rel, "held") : "R_BINDING_CHANGED" \in e.codes => Told(d.rel)
<1>1. ASSUME IInv, [Next]_vars PROVE A
  <2> SUFFICES ASSUME NEW d \in main'.records, Published(d), d.by # "bot",
                      NEW e \in At(main, d.rel, "held"), "R_BINDING_CHANGED" \in e.codes
               PROVE  Told(d.rel)
    OBVIOUS
  <2>1. d \in main'.records \ main.records /\ d.state = "published"
    BY DEF Published
  <2>2. PICK t \in Trees : Behind(t, main) /\ Justified(d, t, sent, approvals, notice, owner)
    BY <1>1, <2>1, MainStep DEF NewPublications
  <2>3. PICK f : f \in At(t, d.rel, "held")
    BY <2>2 DEF Justified
  <2>4. f \in main.records /\ e \in main.records /\ Path(f) = Path(e)
    BY <2>2, <2>3 DEF Behind, At, Path
  <2>5. f = e
    BY <1>1, <2>4 DEF IInv, PathsDiffer
  <2> QED
    BY <2>2, <2>3, <2>5 DEF Justified, Changed, Told
<1>2. IInv /\ [Next]_vars => [A]_vars
  BY <1>1
<1> QED
  BY <1>2, IngestInvariance, PTL DEF Spec, PreviousAccountTold
=============================================================================
