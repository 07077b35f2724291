------------------------------ MODULE MCIngest ------------------------------
(* Ingest for TLC.                                                           *)
EXTENDS Ingest, TLC
CONSTANTS r1, r2, s1, s2, t1, t2

VersionOf == [s \in Subs |-> IF s = s1 THEN 1 ELSE 2]
LineOf(a, b) == [s \in Subs |-> IF s = s1 THEN a ELSE b]
Case(a, b, self, identity) == [line |-> LineOf(a, b), self |-> self, identity |-> identity]

\* Two tags under one token, bound for the first time; one of them built by the
\* owner; a listing that is bound, and a tag that changes its token.
FirstBinding == Case(t1, t1, {}, NoToken)
OwnBuild == Case(t1, t1, {s2}, NoToken)
Rebinding == Case(t2, t1, {}, t1)
AllCases == {FirstBinding, OwnBuild, Rebinding}
=============================================================================
