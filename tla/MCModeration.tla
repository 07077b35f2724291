---------------------------- MODULE MCModeration ----------------------------
(* Moderation for TLC: a listing is delisted and may be given back, another  *)
(* is revoked, with the first as its sibling.  Or: one is revoked by itself  *)
(* and given back, another delisted.                                         *)
EXTENDS Moderation
CONSTANTS p1, p2

KindOf == [d \in Decisions |-> CASE d = 1 -> "delist" [] d = 2 -> "revoke" [] d = 3 -> "relist"]
PluginOf == [d \in Decisions |-> IF d = 2 THEN p2 ELSE p1]
MatchesOf == [d \in Decisions |-> IF d = 2 THEN {p1, p2} ELSE {p1}]

BackKindOf == [d \in Decisions |-> CASE d = 1 -> "revoke" [] d = 2 -> "relist" [] d = 3 -> "delist"]
BackPluginOf == [d \in Decisions |-> IF d = 3 THEN p2 ELSE p1]
BackMatchesOf == [d \in Decisions |-> {BackPluginOf[d]}]
=============================================================================
