----------------------------- MODULE ServedLog -----------------------------
(* What the `signed` branch promises every reader of it -- the plugins        *)
(* service, the Pages deploy and the clients behind them: an append-only log  *)
(* of commits in which each commit verifies on its own and is never older     *)
(* than the one it follows.  Signer.tla is shown to implement it.             *)
(*                                                                            *)
(* A commit holds four documents.  `index` and `list` are signed documents    *)
(* [content, issued, sigs]; `trust` names the keys the other two must verify  *)
(* under; `isrc` is the position on main the catalogue was generated from     *)
(* (the Index-Source-Commit trailer).                                         *)
EXTENDS Integers, Sequences

VARIABLE log

\* SERVE-95: some signature on the document is by a key the trust.json
\* committed beside it delegates.
Verifies(doc, trust) == doc.sigs \cap trust.keys # {}

\* SERVE-89: a document that replaces another was issued strictly later.
Replaces(doc, old) == doc = old \/ doc.issued > old.issued

\* SERVE-36 for both documents, TRUST-28 for the catalogue.
SerialsHold(c, old) ==
    /\ c.index.content.serial >= old.index.content.serial
    /\ c.list.content.serial >= old.list.content.serial
    /\ c.index.content.serial = old.index.content.serial
          => c.index.content.listings = old.index.content.listings

\* What a reader may rely on when commit c follows commit old.
Follows(c, old) ==
    /\ SerialsHold(c, old)
    /\ Replaces(c.index, old.index)
    /\ Replaces(c.list, old.list)
    /\ c.isrc >= old.isrc                             \* TRUST-43a

\* A commit is sound by itself: both documents verify under its trust.json.
Sound(c) == Verifies(c.index, c.trust) /\ Verifies(c.list, c.trust)

Init == log = <<>>

\* One commit is appended, and nothing already served is rewritten.
Publish ==
    /\ Len(log') = Len(log) + 1
    /\ \A i \in 1..Len(log) : log'[i] = log[i]
    /\ Sound(log'[Len(log')])
    /\ Len(log) > 0 => Follows(log'[Len(log')], log[Len(log)])

Spec == Init /\ [][Publish]_log
=============================================================================
