---------------------------- MODULE MCRound2Start ----------------------------
(* Round2Start for a party with two peers (a session of n = 3).            *)
EXTENDS Round2Start

CONSTANTS p1, p2

MCPeers == {p1, p2}
=============================================================================
