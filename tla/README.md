# TLA+ models of kisdex/mpc-lib

This directory holds TLA+ models of the threshold-signing code in `src/`,
together with the TLC configurations that check them. Every module is
translated from the Go source. Where the source is not in `src/` (the
tss-lib `BaseStart`/`BaseUpdate` driver, rounds 1 and 3-5 of the CGG+
signing protocol, `common.NonEmptyMultiBytes`), the module follows
`spec.md`, and PROJECT.json marks those definitions `spec_modelled`.
`PROJECT.json` maps every definition to the lines it models and lists
the runs, mutants, findings and hazards.

## 1. The system

The sources in `src/` are a subset of the library. The parts and their
interactions are:

| Part | Source | What it does |
|---|---|---|
| CGG+ signing round 2 | `src/README.md` l. 21-260 (cggplus `round_2.go`) | `Start` verifies the round-1 messages. It then fans out three goroutines per peer (`BobRespondsGamma`, `BobRespondsW`, `ComputeProofPsiPrime`) and joins them with a `sync.WaitGroup`. Errors go through a buffered channel `errChs`. If there is none, it sends one `SignRound2Message1` per peer and one `SignRound2Message2`. `Update` marks a sender ok once all its round-2 messages are stored. `CanAccept` takes only broadcast messages. `NextRound` clears `started`. |
| Round driver (tss-lib, not in `src/`) | spec 4.6, 4.7, 5 | `BaseStart` creates round 1 and starts it. For every received message, `BaseUpdate` locks the party, stores the message and runs `Update`. When every sender is ok it calls `NextRound` and `Start` on the next round, then re-runs the update. |
| Rounds 1, 3, 4, 5, finalization (not in `src/`) | spec 4.6 | Broadcast rounds. The finalization sends the signature on `end`. |
| ZK proof helpers | `src/crypto/zkproofs/mulstar_proof_test.go` l. 107-310 (`proof.go`) | `ProofArrayToBytes`/`ProofArrayFromBytes`, `Ell`/`NewEll`/`InRange`/`InRangeEll`, arithmetic helpers. |
| Dec proof | `src/crypto/zkproofs/dec_proof.go` | `NewDecProof`, `Verify`, `Bytes`, `ProofFromBytes`. |
| EdDSA resharing round 5 | `src/eddsa/resharing/round_5_new_step_3.go` | Saves the new share (new committee) or zeroes `Xi` (old committee), then sends on `end`. |
| Test harnesses | `src/ecdsa/mpc_test.go`, `src/ecdsa/resharing/local_party_test.go`, `src/unnamed/part_000` | Goroutine per party. Message routers: broadcast goes to all others, P2P goes to `to`, with one `go updater` per message. The harnesses count the `end` messages. |
| Tests of Paillier, MtA, LogStar, MulStar, AffG | remaining files | Unit tests of the cryptographic primitives. |

The parts interact like this. Each party is a state machine driven by the
host's message router. The router delivers round-`r` messages, and the
party's `Update` decides when the round is complete. A round's `Start`
produces the next round's messages. Proofs travel as byte arrays through
`ProofArrayToBytes`.

**Hard behaviours, by part:**
- **Round-2 `Start`:** the goroutines race for a bounded error channel.
  The join and emission read fields those goroutines wrote.
- **Signing session:** messages of several senders and rounds interleave.
  A message can arrive before the receiver has reached its round or before
  it has started. The `started`/`ok` flags are shared along the round
  chain. `BaseUpdate` re-runs the update after an advance. An aborted peer
  leaves the others waiting.
- **Proof serialization:** zero-valued components, nil entries, and the
  length arithmetic.
- **Range checks:** boundaries.

## 2. Modules

| Module | Models | State | Actions |
|---|---|---|---|
| `Round2Abstract` | What `round2.Start` promises | `tampered`, `status`, `out` | `Start`: either returns an error and sends nothing, or sends every round-2 message with all its fields computed |
| `Round2Start` | `round2.Start`, l. 48-223 | `pc`, `toSpawn`, `wg` (WaitGroup counter), `worker[j,k]` (one goroutine per peer and job), `errChs` (buffer contents), `result`, `out` | `Start` (l. 48-67), `Spawn(j)` (one loop iteration, l. 70-78), `BobRespondsGamma`/`BobRespondsW`/`ComputeProofPsiPrime` (l. 130-223; each is a worker returning with or without an error), `Join` (l. 80-85), `Emit` (l. 87-111) |
| `SigningSession` | N parties running the round chain, plus the router and `BaseUpdate` | `rnd`, `started`, `ok` (`round.ok`), `status`, `recv` (stored messages), `sent`, `chan` (per sender/receiver), `rerun` | `StartParty` (`BaseStart`), `Receive(p,i)` (store, update, advance and `Start` of the successor), `Rerun(p)` (the recursive `BaseUpdate`) |
| `MpcHost` | `parties.sign` of `mpc_test.go` (l. 39-70), composed with `SigningSession` | session state plus `returned`, `sigs`, `threadSafeError`, `hostResult` | `SessionStep`, `SignReturns(p)` (a goroutine's `Sign` returns, l. 48-59), `WaitReturns` (`wg.Wait` and the result, l. 62-69) |
| `ProofEncoding` | `ProofArrayToBytes`/`ProofArrayFromBytes`, `DecProof.Bytes`/`ProofFromBytes`, `DecProof.IsNil` (pointer only), `big.Int.Bytes`/`SetBytes` | `proofs`, `wire`, `decoded` | `Encode`, `Decode` |
| `DecProof` | `NewDecProof`, `Verify`, `GetChallenge` of `dec_proof.go`; `Commit`, `APlusBC`, `ATimesBToTheCModN`, `IsZero` | `stmt`, `proof`, `origin`, `verdict` | `Prove` (over every `DecWitness`, with `DecStatement` built from it; the test at `share_protocol_test.go` l. 151-164), `Perturb` (spec 8.2), `Check` (`Verify`); `Forge` for the range question |
| `DecProofTransfer` | A `DecProof` sent in a peer-indexed proof array: `DecProof.Parts`/`Bytes`/`ProofFromBytes` (the 7 parts, l. 34-48, 179-208), `ProofArrayToBytes`/`ProofArrayFromBytes` (through `ProofEncoding`), `Verify` of the received entry | `DecProof`'s state plus `self`, `wire`, `rcvd` | `TProve`, `TPerturb`, `Send` (`ProofArrayToBytes`), `Deliver` (`ProofArrayFromBytes`), `CheckEntry(v)` |
| `ReshareAbstract` | What `TestE2EConcurrent` promises, seen from outside the goroutines | `phase`, `keys` (new parties holding a share), `zeroed` (old parties whose share is zeroed) | `Reshare` (one atomic step: every new key stored, every old share zeroed), `Sign` |
| `ResharingHost` | `TestE2EConcurrent` of `ecdsa/resharing/local_party_test.go` (l. 66-253) with `round5.Start` of `eddsa/resharing/round_5_new_step_3.go` | `pc` per party, `saveXi`, `inputXiZeroed`, `newKeys`, `endedOld`, `reshEnded`, `router`, `signPc`, `signEndCh`, `signEnded` | `StartParty`, `ReachRound5` (rounds 1-4, not in `src/`), `Round5Start`, `RecvEnd` (the `endCh` case), `StartSigner`, `FinishSigning`, `RecvSignEnd` |

**How the modules fit together:**
- `Round2Start` implements `Round2Abstract` through the refinement mapping
  `status <- IF result = "none" THEN "idle" ELSE result`. This is why
  `SigningSession` can take round 2's `Start` as one atomic step (its
  `StartRound`, case `r = 2`).
- The Update/CanAccept logic of round 2 is translated from the code
  (`Update`, `Expected`, `Complete`, `CanAccept`).
- `MpcHost` EXTENDS `SigningSession` and adds the host goroutines around
  it.
- `DecProofTransfer` EXTENDS `DecProof` and instantiates `ProofEncoding`
  with 7 parts and every natural as a value, so the encoding is applied
  to the proofs `NewDecProof` really makes.
- `ResharingHost` abstracts the protocol rounds that are not in `src/` to
  one step per party. That step is enabled once every party of the phase
  has started.
- `ResharingHost` implements `ReshareAbstract` through a mapping that hides
  partial progress: `keys` and `zeroed` are empty while `router =
  "resharing"` and show the stored keys and zeroed shares once the router
  leaves the loop. The last `RecvEnd` is the commit point, where the
  abstract `Reshare` step happens; the last `RecvSignEnd` is `Sign`.

**What `DecProof` computes exactly and what it replaces:**
- Exact: the modular arithmetic, over toy moduli (q = 3, ℓ = 2, N0 = 15,
  Ñ = 35, s = 9, t = 4).
- SHA512_256 becomes a deterministic fold of the same ordered list into
  {0..3} = [0, 2^ℓ). This matches the code, where e has as many bits as
  q.
- Paillier encryption is `(1+N0)^m · r^N0 mod N0²` (spec 4.2).

**How data is abstracted:**
- A message is (round, kind, sender, addressee, broadcast flag).
- A worker's result is whether its fields were written.
- A proof component is a natural number, and byte strings are real
  big-endian sequences.
- A tampered party stands for a round-1 Enc proof that `BobRespondsG`
  rejects.
- A signature is the party that produced it.

## 3. Runs

| Run | Module / cfg | Result | Shows |
|---|---|---|---|
| `round2_start` | `MCRound2Start` | pass, 594 states | The fan-out refines `Round2Abstract` for every set of rejected peers. The WaitGroup never goes negative. `Start` always returns, because `errChs` has room for every error (`(n-1)*3`). |
| `session_honest` | `MCSigningSession` | pass, 43,983 states | 3 honest parties, with Message1 routed as a broadcast. No party leaves a round without every message of it (`LockStep`). Each round emits exactly the number of messages `TestRoundFinalization` waits for: n² in round 2, n in the others (`RoundMessagesCounted`). Every party signs (`SessionEnds`). |
| `session_tampered` | `MCSigningSessionTampered` | pass, 513 states | Party 2's Enc proofs are bad. In every interleaving the honest parties get through round 1 and abort in round 2, and the tampered party is left waiting (`SessionEnds`). |
| `session_unordered` | `MCSigningSessionUnordered` | pass, 199 states | 2 parties, rounds 1-5 and finalization, with any message of the channel deliverable, as the `go updater` routers allow. Lock-step and termination still hold, because `Update` stores early messages and is re-run after an advance. |
| `session_p2p` | `MCSigningSessionP2P` | violation | With `SignRound2Message1` routed point to point (spec 6; the `GetTo` router of `local_party_test.go`), round 2's `Update` never completes, so no party signs. |
| `host_honest` | `MCMpcHost` | pass, 44,234 states | `sign` returns, and it returns every party's signature. |
| `proof_array` | `MCProofEncoding` | pass, 333 states | Arrays of up to two 2-part proofs round-trip exactly. The arrays include nil entries and 1- and 2-byte components. |
| `decproof_wire` | `MCDecProofTransfer` | pass, 579,450 states | A Dec proof sent in a two-entry proof array decodes to an array with an entry at every party index, and the proof arrives either unaltered or as nil, never altered (`DecodedEntryIsSent`). The index condition is what `psiAlice[i]` (`src/README.md` l. 148) needs from an honest sender. An honest proof that arrives as a proof verifies. A proof with z1, z2 or w decreased by one is rejected. |
| `decproof_wire_zero` | `MCDecProofTransferZero` | violation | r is sampled from [0, N0) (l. 76), against the comment that puts it in Z*_N0 (l. 73-75). With r = 0, an honest proof whose Gamma, z1 and z2 are non-zero has A = W = 0: it is decoded as nil and rejected (`HonestUnitRandomnessVerifies`). |
| `decproof_forged` | `MCDecProofForged` | violation | The honest samples keep every honest proof within spec 4.4's ranges, yet `Verify` accepts a forged proof whose z1 = 90 lies outside [-64, 64]. The equations fix z1 only modulo N0, q and the order of s, and no range is checked. |
| `resharing_host` | `MCResharingHost` | pass, 4,185 states | Three old and three new parties, in any interleaving with the router. The `endedOldCommittee == len(oldCommittee)` assertion holds. The host implements `ReshareAbstract` (`ReshareRefinement`): signing starts only after every new key is stored and every old share zeroed, and the test returns. Every round-5 send on the unbuffered `endCh` is received (`EndSendsReceived`). |

**Bounds, and why they are enough:**
- **`Round2Start`** uses two peers, i.e. a session of three. Two peers are
  enough for the `errChs` capacity to matter: with one slot per peer, two
  failing peers give four errors for two slots. `Init` chooses every
  subset of failing peers.
- **`SigningSession`** uses N = 3 and `FinalRound` = 4 (rounds 1-3, then
  the finalization).
  - Round 2, the only point-to-point round, is always included. Rounds 3,
    4 and 5 of the code have the same shape, so one broadcast round after
    round 2 already exercises the advance from a round-2 object into a
    broadcast round.
  - With N = 3 every party has two peers. A sender therefore has a
    Message1 to the *other* peer, which is what separates broadcast from
    P2P routing.
  - The unordered run uses N = 2 with every round, so that its state space
    stays small.
- **`ProofEncoding`** uses `Parts` = 2 and arrays of length up to 2.
  - The values 1, 255 and 256 give 1- and 2-byte magnitudes.
  - Nil entries can be first, last or alone.
- **`DecProof`** enumerates:
  - witnesses y ∈ {1, 3, 5}: below q, equal to q (spec 8.4 and the test
    at `share_protocol_test.go` l. 151-163, where x = 0) and above q;
  - every alpha in [0, 2^{ell+eps}) = [0, 64), so gamma takes every
    residue mod q;
  - the extreme and middle values of the other sample ranges;
  - every perturbed component;
  - r ∈ {0, 4, 13} in the transfer runs, since `GetRandomPositiveInt(N0)`
    samples [0, N0) and 0 is possible.
  - in the range run (`decproof_forged`), alpha ∈ [0, 48] and
    nu ∈ {1, 1000, 1823}. These are the low parts of the code's ranges.
    At q = 3, e·y and e·mu are not negligible against the range, as they
    are at real sizes. With these samples every honest proof stays within
    spec 4.4's ranges (z1 ≤ 63, z2 ≤ 2240), so the violation comes only
    from the forged z1. Without `Forge`, the property holds.
- **`ResharingHost`** uses the committee sizes of spec 8.6.

**Fairness:**
- **`Round2Start` and `MpcHost`:** weak fairness of every goroutine step
  stands for the Go scheduler running every runnable goroutine.
- **`SigningSession`:**
  - Weak fairness of `StartParty` holds because the host starts every
    party.
  - Weak fairness of `Receive(p, i)` holds because the router runs one
    updater goroutine per message.
  - Weak fairness of `Rerun` holds because the re-run is a plain
    recursive call.
- **`ResharingHost`:** weak fairness of the whole next-state relation
  suffices. Every step makes progress and the state space is finite and
  acyclic.

**Delivery order.** Channels are FIFO per (sender, receiver) in the
default runs, as spec 5 requires. `session_unordered` drops that
guarantee, as the test routers' `go updater` does.

**Mutants.** Each property of a passing run is broken by a plausible bug
in a mapped definition (listed in PROJECT.json):
- an `errChs` buffer of one slot per peer;
- `wg.Add(2)`;
- an ignored join error;
- `resetOK` that keeps the previous round's flags;
- `NextRound` without `started = false`;
- round 2 checking the party's own Enc proof instead of its peers';
- the round-2 loop without `if j == i { continue }`;
- finalization one round late;
- one empty slice for a nil proof;
- `wg.Add(len-1)`;
- z1 answered with x instead of y;
- `Verify` without the Ring-Pedersen check;
- z1 and z2 swapped in `DecProof.Bytes`;
- round 5 saving a share for an old party;
- the resharing count one party short.

## 4. Findings

1. **Round 2 and P2P routing.** `round2.CanAccept` (l. 247-255) requires
   `IsBroadcast` for Message1. `round2.Update` (l. 229-239) waits for the
   Message1 of every sender to *every* party. Spec 6 declares Message1
   P2P, and a router that delivers unicast messages only to their
   addressee never completes round 2 (`session_p2p`).
2. **r is not drawn from Z*_N0.** The comment of `NewDecProof`
   (`dec_proof.go` l. 73-75) says r comes from Z*_N0. Line 76 calls
   `GetRandomPositiveInt(N0)`, which samples [0, N0). With r = 0, A and w
   are 0. `big.Int.Bytes` writes them as empty slices, and
   `ProofArrayFromBytes` (l. 181) decodes the proof as nil. `Verify`'s
   zero check (l. 128) would reject it anyway. So an honest proof whose
   Gamma, z1 and z2 are non-zero is rejected (`decproof_wire_zero`). The
   chance is about 1/N0, negligible at real sizes. A zero Gamma, z1 or z2
   is not a finding: spec 4.4 rejects every zero component.
3. **`DecProof.Verify` checks no range.** Spec 4.4 says verification
   rejects components outside their claimed ranges, and the `DecProof`
   field comments state the ranges. `Verify` (l. 116-157) checks only
   `W, A ≠ 0` and the three equations (`decproof_forged`).

## 5. Not modelled, and the plan

**Not modelled, and why:**
- The arithmetic of Paillier, Ring-Pedersen and the ZK proofs other than
  Dec. This is big-integer cryptography, whose soundness is out of a
  model checker's reach at meaningful sizes.
- Keygen, the Lindell-17 and EdDSA signing, and Bip32: their code is not
  in `src/`.
- `parties.keygen` of `mpc_test.go`: it has the shape of `sign`, but the
  protocol it drives is not in `src/`.
- The routing of resharing messages (`local_party_test.go` l. 125-139).
  The messages come from resharing rounds 1-4, which are not in `src/`.
- `InRange`/`InRangeEll` (`mulstar_proof_test.go` l. 243-260). They
  use the open interval, against their comments and spec 4.4. In `src/`
  only the formatting helper `Ell.String` calls them, so no modelled
  behaviour reaches them.
- The path where every session aborts and `sign` returns the stored
  error. `TestTSS` injects no tampering, and how `Sign` returns on an
  abort is not in `src/`. So the error half of `SignResultComplete` is
  stated but not reached.
- `KeyShare.GetAllRingPedersen` is not in `src/`, so whether
  `rpVs[i] = nil` (l. 143, 178) writes a shared slice cannot be read from
  the code. The Ring-Pedersen reads are not modelled.
- The `DecryptFull` error of `ComputeProofPsiPrime` (l. 204-208). It
  decrypts the party's own `bigG[i]`, a ciphertext the party made, so it
  does not fail. At most 2(n-1) errors then reach `errChs`, and
  `StartReturns` cannot tell its capacity 3(n-1) from 2(n-1).
- A short psi array from a malicious peer at `psiAlice[i]`
  (`src/README.md` l. 148). `UnmarshalPsi` and the round-1 message are
  not in `src/`, so whether their length is checked first cannot be read
  from the code. The honest side is checked: an encoded array keeps an
  entry at every index (`RoundTrip`, `DecodedEntryIsSent`).
- `DecProof.Nil` (`dec_proof.go` l. 164-173): nothing in `src/` calls it.
  The proof-array code uses `IsNil`, which is modelled.
- Logging and the CLI.

**Further work:**
1. **`MpcHost` with cancellation.** A variant in which the host cancels
   the remaining `Sign` calls once one returns an error. It would check
   what spec 5 requires of the host.
2. **Round-2 `Update` refinement.** An abstract "round complete" spec
   that the `Update`/`Expected`/`Complete` scan refines.
3. **`ResharingHost` errors.** The unbuffered `endCh` is covered by
   `EndSendsReceived`. The unbuffered `errCh` (capacity 0 from line 68)
   and updater errors raised after the router has moved on remain. They
   need the resharing rounds 1-4, which are not in `src/`.
