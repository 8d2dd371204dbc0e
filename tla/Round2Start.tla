----------------------------- MODULE Round2Start -----------------------------
(***************************************************************************)
(* round2.Start of the CGG+ signing protocol for one party i              *)
(* (src/README.md lines 48-223): after the synchronous unmarshalling of    *)
(* the round-1 messages it fans out three goroutines per peer j            *)
(* (BobRespondsGamma, BobRespondsW, ComputeProofPsiPrime), each doing      *)
(* wg.Done on return and sending at most one error on the buffered channel *)
(* errChs; it joins on wg.Wait, closes errChs, returns the first error if  *)
(* there is one, and otherwise sends the round-2 messages, which read the  *)
(* temp fields and proof slots the goroutines wrote.                       *)
(*                                                                         *)
(* Data is abstracted to whether a field has been written: the big         *)
(* integers of D, F, D-hat, F-hat, beta and the proofs are not modelled.   *)
(***************************************************************************)
EXTENDS Integers, Sequences, FiniteSets

CONSTANTS Peers, All

VARIABLES tampered, \* peers whose Enc proof psiAlice[i] BobRespondsG rejects
          pc,       \* where Start is: "idle","spawn","emit","returned"
          toSpawn,  \* peers the spawning loop has not reached yet
          wg,       \* the sync.WaitGroup counter
          worker,   \* state of the goroutine for (peer, job)
          errChs,   \* contents of the buffered error channel
          result,   \* "none", then "ok" or "err" when Start returns
          out       \* messages put on round.out

vars == <<tampered, pc, toSpawn, wg, worker, errChs, result, out>>

\* The three goroutines started per peer.
Jobs == {"gamma", "w", "psiPrime"}

\* Mutant of ErrChsCap: the buffer sized one slot per peer, not three.
ErrChsCapPerPeer == Cardinality(Peers)

\* make(chan *tss.Error, (len(round.Parties().IDs())-1)*3)
ErrChsCap == Cardinality(Peers) * 3

\* BobRespondsGamma and BobRespondsW call accmta.BobRespondsG with
\* psiAlice[i]; it fails when that proof does not verify (or UnmarshalPsi
\* fails).  ComputeProofPsiPrime decrypts our own BigG, which cannot fail.
Fails(j, k) == k \in {"gamma", "w"} /\ j \in tampered

\* A goroutine that returned without error wrote its temp fields
\* (beta/bigD/bigF, betaHat/bigDHat/bigFHat) and its proof slot.
Written(j, k) == worker[j, k] = "done" /\ ~Fails(j, k)

Init ==
  /\ tampered \in SUBSET Peers
  /\ pc = "idle"
  /\ toSpawn = {}
  /\ wg = 0
  /\ worker = [x \in Peers \X Jobs |-> "idle"]
  /\ errChs = <<>>
  /\ result = "none"
  /\ out = {}

\* Lines 48-64: started flag, resetOK, pointGamma, make(errChs) and the
\* synchronous VerifyRound1Messages (unmarshal BigG, BigK of every peer).
Start ==
  /\ pc = "idle"
  /\ pc' = "spawn"
  /\ toSpawn' = Peers
  /\ UNCHANGED <<tampered, wg, worker, errChs, result, out>>

\* Mutant of Spawn: wg.Add(2) for three goroutines.
SpawnAddTwo(j) ==
  /\ pc = "spawn"
  /\ j \in toSpawn
  /\ toSpawn' = toSpawn \ {j}
  /\ wg' = wg + 2
  /\ worker' = [x \in Peers \X Jobs |->
                  IF x[1] = j THEN "running" ELSE worker[x]]
  /\ UNCHANGED <<tampered, pc, errChs, result, out>>

\* Lines 66-76: one iteration of the loop over peers: wg.Add(3), go x3.
Spawn(j) ==
  /\ pc = "spawn"
  /\ j \in toSpawn
  /\ toSpawn' = toSpawn \ {j}
  /\ wg' = wg + 3
  /\ worker' = [x \in Peers \X Jobs |->
                  IF x[1] = j THEN "running" ELSE worker[x]]
  /\ UNCHANGED <<tampered, pc, errChs, result, out>>

\* A goroutine returns: an error is sent on errChs (blocking while the
\* buffer is full) before the deferred wg.Done.
Finish(j, k) ==
  /\ worker[j, k] = "running"
  /\ \/ /\ Fails(j, k)
        /\ Len(errChs) < ErrChsCap
        /\ errChs' = Append(errChs, <<j, k>>)
     \/ /\ ~Fails(j, k)
        /\ UNCHANGED errChs
  /\ worker' = [worker EXCEPT ![j, k] = "done"]
  /\ wg' = wg - 1
  /\ UNCHANGED <<tampered, pc, toSpawn, result, out>>

BobRespondsGamma(j) == Finish(j, "gamma")
BobRespondsW(j) == Finish(j, "w")
ComputeProofPsiPrime(j) == Finish(j, "psiPrime")

\* Mutant of Join: the error collected on errChs is not returned.
JoinIgnoreErr ==
  /\ pc = "spawn"
  /\ toSpawn = {}
  /\ wg = 0
  /\ pc' = "emit"
  /\ UNCHANGED <<tampered, toSpawn, wg, worker, errChs, result, out>>

\* Lines 77-83: wg.Wait(); close(errChs); WrapErrorChs returns the error.
Join ==
  /\ pc = "spawn"
  /\ toSpawn = {}
  /\ wg = 0
  /\ \/ /\ errChs # <<>>
        /\ pc' = "returned"
        /\ result' = "err"
     \/ /\ errChs = <<>>
        /\ pc' = "emit"
        /\ UNCHANGED result
  /\ UNCHANGED <<tampered, toSpawn, wg, worker, errChs, out>>

\* Lines 85-111: a Message1 to each peer from bigD[i][j], bigDHat[i][j],
\* bigF[i][j], bigFHat[i][j], psi[j], psiHat[j]; one Message2 carrying
\* pointGamma and the whole psiPrime array.
Emit ==
  /\ pc = "emit"
  /\ out' = {[kind |-> "R2M1", to |-> j,
              complete |-> Written(j, "gamma") /\ Written(j, "w")]
               : j \in Peers}
            \cup {[kind |-> "R2M2", to |-> All,
                   complete |-> \A j \in Peers : Written(j, "psiPrime")]}
  /\ pc' = "returned"
  /\ result' = "ok"
  /\ UNCHANGED <<tampered, toSpawn, wg, worker, errChs>>

Next ==
  \/ Start
  \/ \E j \in Peers : Spawn(j)
  \/ \E j \in Peers : BobRespondsGamma(j) \/ BobRespondsW(j)
                        \/ ComputeProofPsiPrime(j)
  \/ Join
  \/ Emit

\* The Go scheduler runs every runnable goroutine eventually.
Fairness ==
  /\ WF_vars(Start) /\ WF_vars(Join) /\ WF_vars(Emit)
  /\ \A j \in Peers : /\ WF_vars(Spawn(j))
                      /\ \A k \in Jobs : WF_vars(Finish(j, k))

Spec == Init /\ [][Next]_vars /\ Fairness

-----------------------------------------------------------------------------
TypeOK ==
  /\ tampered \subseteq Peers
  /\ pc \in {"idle", "spawn", "emit", "returned"}
  /\ toSpawn \subseteq Peers
  /\ wg \in 0 .. 3 * Cardinality(Peers)   \* sync: negative WaitGroup counter panics
  /\ worker \in [Peers \X Jobs -> {"idle", "running", "done"}]
  /\ errChs \in Seq(Peers \X Jobs)
  /\ result \in {"none", "ok", "err"}
  /\ out \subseteq [kind : {"R2M1", "R2M2"}, to : Peers \cup {All},
                    complete : BOOLEAN]

\* Start implements the abstract round-2 step: it returns an error exactly
\* when some peer's Enc proof is rejected, sends nothing then, and on
\* success sends every round-2 message with all of its fields computed
\* (the wg.Add(3)/wg.Wait join and the errChs check are what make this so).
Abstract == INSTANCE Round2Abstract
              WITH status <- IF result = "none" THEN "idle" ELSE result
Refinement == Abstract!Spec

\* Start always returns: no goroutine blocks forever on a full errChs, and
\* wg.Wait is eventually released.
StartReturns == <>(result # "none")
=============================================================================
