------------------------------ MODULE MCPubSub ------------------------------
(* Small instances of PubSub for TLC. *)
EXTENDS PubSub, TLC

CONSTANTS s1, s2, p1, p2, fA, tA, tB

MCSubsOne == {s1}
MCSubsTwo == {s1, s2}
MCPubsOne == {p1}
MCPubsTwo == {p1, p2}
MCFilters == {All, fA}
MCTopics == {tA, tB}
MCCovers == [f \in MCFilters |-> IF f = All THEN MCTopics ELSE {tA}]

(* For runs with safety properties only. *)
MCSymmetry == Permutations(Subs)
=============================================================================
