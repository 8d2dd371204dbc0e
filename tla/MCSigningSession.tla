--------------------------- MODULE MCSigningSession ---------------------------
(* SigningSession with three parties (threshold 2, as in src/ecdsa tests). *)
EXTENDS SigningSession

MCN == 3
\* Two parties, for unordered delivery.
MCN2 == 2
\* round1, round2, round3 and the finalization.
MCFinalRound == 4
\* round1 .. round5 and the finalization, as in the code.
MCFinalRound6 == 6
NoneTampered == {}
OneTampered == {2}
=============================================================================
