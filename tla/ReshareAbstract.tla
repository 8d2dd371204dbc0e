--------------------------- MODULE ReshareAbstract ---------------------------
(***************************************************************************)
(* What TestE2EConcurrent (src/ecdsa/resharing/local_party_test.go)       *)
(* promises, seen from outside the goroutines: one resharing step after    *)
(* which every new-committee party holds its new key share and every      *)
(* old-committee party's share is zeroed, then one signing step by the    *)
(* new committee with those shares, after which the test returns.         *)
(***************************************************************************)

CONSTANTS OldParties, NewParties

VARIABLES phase,   \* "resharing", "signing", then "done"
          keys,    \* new-committee parties holding a new share
          zeroed   \* old-committee parties whose share is zeroed

vars == <<phase, keys, zeroed>>

Init ==
  /\ phase = "resharing"
  /\ keys = {}
  /\ zeroed = {}

\* Lines 96-168: both committees reshare at once.
Reshare ==
  /\ phase = "resharing"
  /\ phase' = "signing"
  /\ keys' = NewParties
  /\ zeroed' = OldParties

\* Lines 170-253: the new committee signs and the test returns.
Sign ==
  /\ phase = "signing"
  /\ phase' = "done"
  /\ UNCHANGED <<keys, zeroed>>

Next == Reshare \/ Sign

Spec == Init /\ [][Next]_vars /\ WF_vars(Next)
=============================================================================
