---------------------------- MODULE SigningSession ----------------------------
(***************************************************************************)
(* A CGG+ threshold-ECDSA signing session of N parties: each party runs    *)
(* the round chain round1 -> ... -> round5 -> finalization.  A round's     *)
(* Start sends its messages; every received message is stored and the      *)
(* current round's Update marks the senders whose messages are all there   *)
(* (round.ok); when the round can proceed the party calls NextRound and    *)
(* Starts the successor, then re-runs the update (tss BaseUpdate).         *)
(*                                                                         *)
(* Round 2 (src/README.md) is modelled from the code: its Update waits for *)
(* the SignRound2Message1 of every sender to every other party and for its *)
(* SignRound2Message2, and CanAccept takes only broadcast messages.  Its   *)
(* Start is taken atomically as Round2Abstract promises (Round2Start shows *)
(* the goroutine fan-out implements that).  Rounds 1, 3, 4, 5, the        *)
(* finalization and BaseUpdate are modelled from spec.md sections 4.6, 4.7 *)
(* and 5.                                                                  *)
(*                                                                         *)
(* Cryptographic data is abstracted away: a message is its round, kind,    *)
(* sender, addressee and broadcast flag.  A tampered party sends round-1   *)
(* Enc proofs that every other party's BobRespondsG rejects (spec 8.7).    *)
(***************************************************************************)
EXTENDS Integers, SequencesExt

CONSTANTS N,           \* number of parties
          Tampered,    \* parties whose round-1 Enc proofs are invalid
          FinalRound,  \* the finalization round: 6 in the code, after
                       \*   round1 .. round5
          Msg1Routing, \* "broadcast": SignRound2Message1 is a broadcast
                       \*   message delivered to every other party;
                       \* "p2p": it is a unicast to its addressee (spec 6)
          Delivery,    \* "fifo": a sender's stream is not reordered
                       \*   (spec 5); "any": one goroutine per message
          All          \* the addressee of a broadcast message

Parties == 0 .. N - 1          \* PartyID.Index

ASSUME /\ N \in Nat \ {0, 1}
       /\ FinalRound \in 4 .. 6
       /\ Tampered \subseteq Parties
       /\ Msg1Routing \in {"broadcast", "p2p"}
       /\ Delivery \in {"fifo", "any"}

\* The broadcast rounds: round1 and round3 .. round5.
BcastRounds == {1} \cup 3 .. FinalRound - 1

Msgs == [rnd : 1 .. FinalRound - 1,
         kind : {"R1", "R2M1", "R2M2", "R3", "R4", "R5"},
         from : Parties, to : Parties \cup {All}, bc : BOOLEAN]

VARIABLES rnd,     \* current round of each party, 0 before LocalParty.Start
          started, \* round.started (shared along the round chain)
          ok,      \* round.ok: senders whose messages of this round are in
          status,  \* "running", "aborted" (an error was returned) or
                   \* "finished" (the signature was sent on end)
          recv,    \* messages stored by each party (StoreMessage)
          sent,    \* messages put on round.out by any party
          chan,    \* messages in transit from one party to another, in
                   \*   the order they were sent (spec 5: a sender's
                   \*   stream is not reordered)
          rerun    \* a BaseUpdate call of the party will re-run the update

vars == <<rnd, started, ok, status, recv, sent, chan, rerun>>

-----------------------------------------------------------------------------
(* Messages and their routing.                                             *)

\* The single broadcast message of rounds 1, 3, 4 and 5.
BcastKind == <<"R1", "R2", "R3", "R4", "R5">>
Bcast(p, r) == [rnd |-> r, kind |-> BcastKind[r], from |-> p, to |-> All,
                bc |-> TRUE]

\* Mutant of Round2Msgs: the loop does not skip j == i.
Round2MsgsNoSkip(p) ==
  LET peers == SetToSortSeq(Parties, <)
  IN [k \in 1 .. Len(peers) |->
        [rnd |-> 2, kind |-> "R2M1", from |-> p, to |-> peers[k],
         bc |-> Msg1Routing = "broadcast"]]
     \o <<[rnd |-> 2, kind |-> "R2M2", from |-> p, to |-> All, bc |-> TRUE]>>

\* Lines 85-111: NewSignRound2Message1(Pj, i, ...) for every peer and one
\* NewSignRound2Message2(i, ...).
Round2Msgs(p) ==
  LET peers == SetToSortSeq(Parties \ {p}, <)
  IN [k \in 1 .. Len(peers) |->
        [rnd |-> 2, kind |-> "R2M1", from |-> p, to |-> peers[k],
         bc |-> Msg1Routing = "broadcast"]]
     \o <<[rnd |-> 2, kind |-> "R2M2", from |-> p, to |-> All, bc |-> TRUE]>>

\* The senders of mpc_test.go (lines 174-199) and the routers of the
\* tests: a broadcast goes to every party but its sender, a P2P message
\* only to its addressee.
Dests(m) ==
  IF m.to = All \/ Msg1Routing = "broadcast"
  THEN Parties \ {m.from}
  ELSE {m.to}

\* round.out <- msg for each message of the sequence out, in order, onto
\* the channels ch.
Send(p, out, ch) ==
  /\ sent' = sent \cup ToSet(out)
  /\ chan' = [c \in Parties \X Parties |->
               IF c[1] = p
               THEN ch[c] \o SelectSeq(out, LAMBDA m : c[2] \in Dests(m))
               ELSE ch[c]]

\* Lines 247-255: round2.CanAccept takes both round-2 messages only when
\* they are broadcast; the other rounds' messages are broadcasts (spec 6).
CanAccept(m) == m.bc

\* The (kind, addressee) slots round r's Update needs filled by sender i.
\* Lines 229-239 for round 2: a Message1 from i to every j # i (including
\* those addressed to other parties) and i's Message2.
Expected(i, r) ==
  IF r = 2
  THEN {<<"R2M1", j>> : j \in Parties \ {i}} \cup {<<"R2M2", All>>}
  ELSE {<<BcastKind[r], All>>}

\* Sender i's round-r messages are all stored in R and acceptable.
Complete(R, i, r) ==
  \A s \in Expected(i, r) :
    \E m \in R : /\ m.rnd = r /\ m.from = i
                 /\ m.kind = s[1] /\ m.to = s[2]
                 /\ CanAccept(m)

-----------------------------------------------------------------------------
(* The round object.                                                       *)

\* Lines 225-245, round.Update: senders in index order; stop at the first
\* one (not self, not ok yet) whose messages are not all in, marking ok
\* every sender before it.
Update(p, R) ==
  LET pending == {i \in Parties : i # p /\ ~ok[p][i]}
      missing == {i \in pending : ~Complete(R, i, rnd[p])}
      stop == IF missing = {} THEN N ELSE Min(missing)
  IN [i \in Parties |-> ok[p][i] \/ (i \in pending /\ i < stop)]

\* tss base.CanProceed: the round has started and every sender is ok.
CanProceed(p, okNow) == started[p] /\ \A i \in Parties : okNow[i]

\* Mutant of NextRound: round.started is not reset.
NextRoundKeepsStarted(p) == started[p]

\* Lines 257-260, NextRound: round.started = false, then the successor.
NextRound(p) == FALSE

\* Mutant of ResetOK: the ok flags of the previous round are kept.
ResetOKKeep(p, okNow) == [i \in Parties |-> okNow[i] \/ i = p]

\* Line 54, round.resetOK(): no sender is ok yet, except the party itself
\* (spec 4.7: ok[i] is set for self).
ResetOK(p, okNow) == [i \in Parties |-> i = p]

\* Mutant of Round2Fails: the party checks its own Enc proof, not its
\* peers' (index i instead of j).
Round2FailsOwnProof(p) == p \in Tampered

\* Lines 66-83 and 165-198: round2.Start returns an error when BobRespondsG
\* rejects the round-1 Enc proof of some peer.
Round2Fails(p) == Tampered \ {p} # {}

\* Mutant of IsFinalization: the finalization is reached one round late.
IsFinalizationLate(r) == r = FinalRound + 1

\* round5.NextRound returns the finalization round (spec 4.6).
IsFinalization(r) == r = FinalRound

\* round.Start of round r at party p, where wasStarted is round.started
\* and okNow the round.ok flags it inherits.
\* Round 1 broadcasts BigK, BigG and the Enc proofs; round 2 (lines 48-112,
\* as Round2Abstract) fails when a peer's Enc proof is rejected and
\* otherwise sends its messages; rounds 3-5 verify and broadcast; the
\* finalization sends the signature on the end channel.
StartRound(p, r, wasStarted, okNow, ch) ==
  IF wasStarted
  THEN \* "round already started"
       /\ status' = [status EXCEPT ![p] = "aborted"]
       /\ chan' = ch
       /\ UNCHANGED <<started, ok, sent>>
  ELSE
  /\ started' = [started EXCEPT ![p] = TRUE]
  /\ ok' = [ok EXCEPT ![p] = ResetOK(p, okNow)]
  /\ CASE r = 2 /\ Round2Fails(p) ->
            /\ status' = [status EXCEPT ![p] = "aborted"]
            /\ chan' = ch
            /\ UNCHANGED sent
       [] r = 2 ->
            /\ Send(p, Round2Msgs(p), ch)
            /\ UNCHANGED status
       [] IsFinalization(r) ->
            /\ status' = [status EXCEPT ![p] = "finished"]
            /\ chan' = ch
            /\ UNCHANGED sent
       [] OTHER ->
            /\ Send(p, <<Bcast(p, r)>>, ch)
            /\ UNCHANGED status

\* tss BaseUpdate after StoreMessage: Update; if the round can proceed,
\* NextRound and Start the successor, then unlock and re-run (so rerun is
\* set); otherwise the call returns and rerun becomes rerunAfter.
Handle(p, R, rerunAfter, ch) ==
  LET okNow == Update(p, R)
  IN IF CanProceed(p, okNow)
     THEN /\ rnd' = [rnd EXCEPT ![p] = @ + 1]
          /\ StartRound(p, rnd[p] + 1, NextRound(p), okNow, ch)
          /\ rerun' = [rerun EXCEPT ![p] = status'[p] = "running"]
     ELSE /\ ok' = [ok EXCEPT ![p] = okNow]
          /\ rerun' = [rerun EXCEPT ![p] = rerunAfter]
          /\ chan' = ch
          /\ UNCHANGED <<rnd, started, status, sent>>

-----------------------------------------------------------------------------
Init ==
  /\ rnd = [p \in Parties |-> 0]
  /\ started = [p \in Parties |-> FALSE]
  /\ ok = [p \in Parties |-> [i \in Parties |-> FALSE]]
  /\ status = [p \in Parties |-> "running"]
  /\ recv = [p \in Parties |-> {}]
  /\ sent = {}
  /\ chan = [c \in Parties \X Parties |-> <<>>]
  /\ rerun = [p \in Parties |-> FALSE]

\* LocalParty.Start (tss BaseStart): create round1 and Start it.
StartParty(p) ==
  /\ rnd[p] = 0
  /\ rnd' = [rnd EXCEPT ![p] = 1]
  /\ StartRound(p, 1, started[p], ok[p], chan)
  /\ UNCHANGED <<recv, rerun>>

\* Positions of the channel from i to p whose message may be delivered
\* next: the head, or any message when every message has its own updater
\* goroutine (local_party_test.go line 207, go updater(...)).
Deliverable(i, p) ==
  IF Delivery = "fifo" THEN {1} \cap DOMAIN chan[i, p] ELSE DOMAIN chan[i, p]

\* An updater delivers a message from i to p: BaseUpdate stores it and,
\* once the party has a round, runs the update.  A party that returned
\* an error is abandoned by its host.
Receive(p, i) ==
  /\ status[p] = "running"
  /\ \E k \in Deliverable(i, p) :
       LET rest == [chan EXCEPT ![i, p] = RemoveAt(@, k)]
       IN /\ recv' = [recv EXCEPT ![p] = @ \cup {chan[i, p][k]}]
          /\ IF rnd[p] = 0
             THEN /\ chan' = rest
                  /\ UNCHANGED <<rnd, started, ok, status, sent, rerun>>
             ELSE Handle(p, recv'[p], rerun[p], rest)

\* The recursive BaseUpdate call after an advance.
Rerun(p) ==
  /\ status[p] = "running"
  /\ rerun[p]
  /\ Handle(p, recv[p], FALSE, chan)
  /\ UNCHANGED recv

Next ==
  \/ \E p \in Parties : StartParty(p)
  \/ \E p, i \in Parties : Receive(p, i)
  \/ \E p \in Parties : Rerun(p)

\* The host starts every party, the updater goroutine of every message runs
\* (test.SharedPartyUpdater in src/ecdsa/resharing/local_party_test.go,
\* lines 201-215), and a re-run of BaseUpdate is a plain recursive call.
Fairness ==
  \A p \in Parties : /\ WF_vars(StartParty(p))
                    /\ WF_vars(Rerun(p))
                    /\ \A i \in Parties : WF_vars(Receive(p, i))

Spec == Init /\ [][Next]_vars /\ Fairness

-----------------------------------------------------------------------------
TypeOK ==
  /\ rnd \in [Parties -> 0 .. FinalRound]
  /\ started \in [Parties -> BOOLEAN]
  /\ ok \in [Parties -> [Parties -> BOOLEAN]]
  /\ status \in [Parties -> {"running", "aborted", "finished"}]
  /\ recv \in [Parties -> SUBSET Msgs]
  /\ sent \subseteq Msgs
  /\ chan \in [Parties \X Parties -> Seq(Msgs)]
  /\ rerun \in [Parties -> BOOLEAN]

\* A party only ever leaves a round (Update/CanProceed/NextRound) holding
\* every message of that round from every other party: for round 2 every
\* Message1 a sender sent to anybody, and its Message2.
LockStep ==
  \A p \in Parties : \A r \in 1 .. FinalRound - 1 :
    r < rnd[p] => \A i \in Parties \ {p} : Complete(recv[p], i, r)

\* part_000 lines 145-162, TestRoundFinalization: RunRound collects
\* len(parties)^2 messages of round 2 and len(parties) of every other
\* round from the shared outCh before it runs the next round.
RunRoundTotal(r) == IF r = 2 THEN N * N ELSE N

\* The counts TestRoundFinalization waits for are exactly what the rounds
\* emit: once every party has left round r, the parties together have
\* put RunRoundTotal(r) messages of round r on their out channels (fewer
\* would hang RunRound, more would leave round-r messages to be read as
\* the next round's).
RoundMessagesCounted ==
  \A r \in 1 .. FinalRound - 1 :
    (\A p \in Parties : rnd[p] > r) =>
      Cardinality({m \in sent : m.rnd = r}) = RunRoundTotal(r)

\* How each party's session ends: every party signs when no proof was
\* tampered with; otherwise a party that received a tampered proof aborts
\* in round 2, and a tampered party whose peers all aborted waits forever.
Outcome(p) ==
  IF Tampered = {} THEN "finished"
  ELSE IF Tampered \ {p} # {} THEN "aborted"
  ELSE "running"

SessionEnds == <>[](\A p \in Parties : status[p] = Outcome(p))
=============================================================================
