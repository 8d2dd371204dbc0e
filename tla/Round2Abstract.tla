--------------------------- MODULE Round2Abstract ---------------------------
(***************************************************************************)
(* What round2.Start of the CGG+ signing protocol promises to the party    *)
(* that calls it (src/README.md, cggplus round_2): one call, which either  *)
(* returns an error and sends nothing, or sends a SignRound2Message1 to    *)
(* every peer and one SignRound2Message2, each built from values this     *)
(* call computed.  It fails exactly when some peer's round-1 message       *)
(* (its Enc proof psi for this party) is rejected by BobRespondsG.         *)
(***************************************************************************)


CONSTANTS Peers,    \* the other parties of the signing session
          All       \* the "to" of a broadcast message (a model value)

VARIABLES tampered, \* peers whose round-1 Enc proof for us is invalid
          status,   \* "idle" before the call, then "ok" or "err"
          out       \* messages the call has put on round.out

vars == <<tampered, status, out>>

\* The messages of a successful call: one Message1 per peer, one Message2.
\* complete = every field the message carries was computed by this call.
Round2Messages ==
  {[kind |-> "R2M1", to |-> j, complete |-> TRUE] : j \in Peers}
    \cup {[kind |-> "R2M2", to |-> All, complete |-> TRUE]}

Init ==
  /\ tampered \in SUBSET Peers
  /\ status = "idle"
  /\ out = {}

Start ==
  /\ status = "idle"
  /\ \/ /\ tampered = {}
        /\ status' = "ok"
        /\ out' = Round2Messages
     \/ /\ tampered # {}
        /\ status' = "err"
        /\ UNCHANGED out
  /\ UNCHANGED tampered

Spec == Init /\ [][Start]_vars
=============================================================================
