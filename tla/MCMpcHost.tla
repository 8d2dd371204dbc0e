----------------------------- MODULE MCMpcHost -----------------------------
(* parties.sign of TestTSS: three parties pA, pB, pC (indices 0 .. 2).     *)
EXTENDS MpcHost

MCN == 3
\* round1, round2, round3 and the finalization.
MCFinalRound == 4
NoneTampered == {}
=============================================================================
