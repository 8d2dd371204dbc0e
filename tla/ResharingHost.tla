---------------------------- MODULE ResharingHost ----------------------------
(***************************************************************************)
(* The reshare-then-sign host of src/ecdsa/resharing/local_party_test.go, *)
(* TestE2EConcurrent (lines 96-220), with round 5 of the resharing        *)
(* protocol (src/eddsa/resharing/round_5_new_step_3.go): the old and the  *)
(* new committee are started by goroutines; every party ends with round   *)
(* 5, which stores the new share (new committee) or zeroes the old one    *)
(* (old committee) and sends its save data on the unbuffered endCh; the   *)
(* router loop counts the ended parties, asserts that exactly the old     *)
(* committee ended without a share, and moves to the signing phase, where *)
(* the new committee signs with the new keys and the router counts the    *)
(* signEndCh messages.                                                    *)
(*                                                                         *)
(* Rounds 1-4 of the resharing and the signing protocol are not in src/:  *)
(* a party's protocol steps are one step, enabled once every party of the *)
(* phase has started (each needs messages of the others).  The message    *)
(* routing of the phase is SigningSession's.                              *)
(***************************************************************************)
EXTENDS Naturals, FiniteSets

CONSTANTS OldParties,  \* oldPIDs: the keygen fixtures' party IDs
          NewParties   \* newPIDs: GenerateTestPartyIDs(testParticipants)

\* The two ID lists come from different sources (lines 52 and 62).
ASSUME OldParties \cap NewParties = {}

Parties == OldParties \cup NewParties
Total == Cardinality(OldParties) + Cardinality(NewParties)

VARIABLES pc,            \* per resharing party: its goroutine and round
          saveXi,        \* per party: round.save.Xi is set (non-nil)
          inputXiZeroed, \* per old party: round.input.Xi.SetInt64(0) done
          newKeys,       \* per new party: newKeys[index] was stored
          endedOld,      \* endedOldCommittee
          reshEnded,     \* reSharingEnded
          router,        \* the loop of the test goroutine
          signPc,        \* per new party: its signing party's state
          signEndCh,     \* number of SignatureData buffered in signEndCh
          signEnded      \* signEnded

vars == <<pc, saveXi, inputXiZeroed, newKeys, endedOld, reshEnded, router,
          signPc, signEndCh, signEnded>>

\* Lines 66-116: every LocalParty is created with its save data (an old
\* party's save data is a fresh one, Xi nil; a new party's holds only
\* pre-parameters), and the router starts with no key stored and both
\* counters at zero.
Init ==
  /\ pc = [p \in Parties |-> "created"]
  /\ saveXi = [p \in Parties |-> FALSE]
  /\ inputXiZeroed = [p \in OldParties |-> FALSE]
  /\ newKeys = [p \in NewParties |-> FALSE]
  /\ endedOld = 0
  /\ reshEnded = 0
  /\ router = "resharing"
  /\ signPc = [p \in NewParties |-> "none"]
  /\ signEndCh = 0
  /\ signEnded = 0

\* Lines 97-112: the goroutine of P runs P.Start() (new parties first in
\* program order, but the goroutines run in any order).
StartParty(p) ==
  /\ pc[p] = "created"
  /\ pc' = [pc EXCEPT ![p] = "running"]
  /\ UNCHANGED <<saveXi, inputXiZeroed, newKeys, endedOld, reshEnded,
                 router, signPc, signEndCh, signEnded>>

\* Rounds 1-4 of party p (not in src/): they need the messages of both
\* committees, so every party has started; the step ends in round 5.
ReachRound5(p) ==
  /\ pc[p] = "running"
  /\ \A q \in Parties : pc[q] # "created"
  /\ pc' = [pc EXCEPT ![p] = "round5"]
  /\ UNCHANGED <<saveXi, inputXiZeroed, newKeys, endedOld, reshEnded,
                 router, signPc, signEndCh, signEnded>>

\* Mutant of Round5Start: the old-committee branch also saves a share.
Round5StartSavesForOld(p) ==
  /\ pc[p] = "round5"
  /\ saveXi' = [saveXi EXCEPT ![p] = TRUE]
  /\ inputXiZeroed' = IF p \in OldParties
                      THEN [inputXiZeroed EXCEPT ![p] = TRUE]
                      ELSE inputXiZeroed
  /\ pc' = [pc EXCEPT ![p] = "sendingEnd"]
  /\ UNCHANGED <<newKeys, endedOld, reshEnded, router, signPc, signEndCh,
                 signEnded>>

\* round_5_new_step_3.go lines 14-49, round5.Start: a new-committee party
\* saves its new Xi (with BigXj, ShareID, Ks), an old-committee party
\* zeroes its input Xi; then round.end <- round.save, which blocks on the
\* unbuffered endCh (bothCommitteesPax is 0 at line 68) until the router
\* receives.  Round 5 accepts no message and has no next round (lines
\* 39-49), so the party takes no step after that.
Round5Start(p) ==
  /\ pc[p] = "round5"
  /\ saveXi' = IF p \in NewParties THEN [saveXi EXCEPT ![p] = TRUE]
               ELSE saveXi
  /\ inputXiZeroed' = IF p \notin NewParties /\ p \in OldParties
                      THEN [inputXiZeroed EXCEPT ![p] = TRUE]
                      ELSE inputXiZeroed
  /\ pc' = [pc EXCEPT ![p] = "sendingEnd"]
  /\ UNCHANGED <<newKeys, endedOld, reshEnded, router, signPc, signEndCh,
                 signEnded>>

\* Mutant of ResharingDone: one party short.
ResharingDoneEarly(count) == count = Total - 1

\* Line 152: every party of both committees has ended.
ResharingDone(count) == count = Total

\* Lines 141-167: the router receives p's save data; with Xi set it is a
\* new key stored at the party's original index, otherwise an old party
\* ended; when every party has ended, goto signing (the assertion of line
\* 153 is ResharingAccounting below).
RecvEnd(p) ==
  /\ router = "resharing"
  /\ pc[p] = "sendingEnd"
  /\ pc' = [pc EXCEPT ![p] = "ended"]
  /\ IF saveXi[p]
     THEN /\ newKeys' = [newKeys EXCEPT ![p] = TRUE]
          /\ UNCHANGED endedOld
     ELSE /\ endedOld' = endedOld + 1
          /\ UNCHANGED newKeys
  /\ reshEnded' = reshEnded + 1
  /\ router' = IF ResharingDone(reshEnded + 1) THEN "signing" ELSE router
  /\ UNCHANGED <<saveXi, inputXiZeroed, signPc, signEndCh, signEnded>>

\* Lines 171-199: signing.NewLocalParty with signKeys[j] = newKeys[j] and
\* a goroutine running P.Start(); a party without its key fails and the
\* router's FailNow (lines 196-199) ends the test.
StartSigner(j) ==
  /\ router = "signing"
  /\ signPc[j] = "none"
  /\ IF newKeys[j]
     THEN /\ signPc' = [signPc EXCEPT ![j] = "running"]
          /\ UNCHANGED router
     ELSE /\ signPc' = [signPc EXCEPT ![j] = "failed"]
          /\ router' = "failed"
  /\ UNCHANGED <<pc, saveXi, inputXiZeroed, newKeys, endedOld, reshEnded,
                 signEndCh, signEnded>>

\* The signing protocol of party j (SigningSession), which needs every
\* signer started, ends with SignatureData on the buffered signEndCh
\* (capacity len(signPIDs), so the send never blocks).
FinishSigning(j) ==
  /\ signPc[j] = "running"
  /\ \A k \in NewParties : signPc[k] # "none"
  /\ signPc' = [signPc EXCEPT ![j] = "ended"]
  /\ signEndCh' = signEndCh + 1
  /\ UNCHANGED <<pc, saveXi, inputXiZeroed, newKeys, endedOld, reshEnded,
                 router, signEnded>>

\* Lines 217-221 and 252: the router counts signEndCh messages and, at
\* len(signPIDs), verifies the signature and returns.
RecvSignEnd ==
  /\ router = "signing"
  /\ signEndCh > 0
  /\ signEndCh' = signEndCh - 1
  /\ signEnded' = signEnded + 1
  /\ router' = IF signEnded + 1 = Cardinality(NewParties) THEN "done"
               ELSE router
  /\ UNCHANGED <<pc, saveXi, inputXiZeroed, newKeys, endedOld, reshEnded,
                 signPc>>

Next ==
  \/ \E p \in Parties : StartParty(p) \/ ReachRound5(p) \/ Round5Start(p)
                        \/ RecvEnd(p)
  \/ \E j \in NewParties : StartSigner(j) \/ FinishSigning(j)
  \/ RecvSignEnd

\* Goroutines are run by the Go scheduler, and the router's select takes
\* any ready channel.
Fairness == WF_vars(Next)

Spec == Init /\ [][Next]_vars /\ Fairness

-----------------------------------------------------------------------------
\* The assertion of line 153: once the router has counted every party's
\* save data, exactly the old committee (whose round 5 zeroed the old
\* share) has ended without a new Xi.
ResharingAccounting ==
  router # "resharing" => endedOld = Cardinality(OldParties)

\* The goroutines of both committees and the router's loop implement one
\* atomic resharing step: the abstract step happens when the router leaves
\* the resharing loop (the last RecvEnd), and until then the keys stored
\* and shares zeroed so far are not visible.  A router that leaves the
\* loop before every new key is stored and every old share zeroed (which
\* the xj loop of lines 157-163 and signKeys[j] rely on), or a signing
\* phase that fails or never returns, violates it.
Abstract == INSTANCE ReshareAbstract
              WITH phase <- router,
                   keys <- IF router = "resharing" THEN {}
                           ELSE {j \in NewParties : newKeys[j]},
                   zeroed <- IF router = "resharing" THEN {}
                             ELSE {o \in OldParties : inputXiZeroed[o]}
ReshareRefinement == Abstract!Spec

\* endCh is unbuffered (bothCommitteesPax is computed at line 68, before
\* the committees are appended, so it is 0): round.end <- round.save in
\* round5.Start blocks until the router receives.  Every party that sends
\* its save data is received, in every order of the parties' sends, so no
\* party goroutine is left blocked on endCh when the router leaves the
\* resharing loop (goto signing, line 166).
EndSendsReceived ==
  \A p \in Parties : pc[p] = "sendingEnd" ~> pc[p] = "ended"

=============================================================================
