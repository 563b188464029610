----------------------------- MODULE MCReceiver -----------------------------
(* Small instances of Receiver for TLC. *)
EXTENDS Receiver, TLC

CONSTANTS p1, p2, p3, tA, tB

MCPubsTwo == {p1, p2}
MCPubsThree == {p1, p2, p3}
MCTopicsOne == {tA}
MCTopicsTwo == {tA, tB}
MCSymmetry == Permutations(Pubs) \cup Permutations(Topics)
=============================================================================
