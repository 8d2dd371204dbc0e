------------------------------- MODULE MpcHost -------------------------------
(***************************************************************************)
(* The test host of src/ecdsa/mpc_test.go, parties.sign (lines 39-70),    *)
(* composed with the signing session: one goroutine per party calls      *)
(* p.Sign(context.Background(), msg), which returns the signature when    *)
(* the party's session finishes and an error when it aborts; an error is  *)
(* stored in the atomic threadSafeError, a signature appended to sigs     *)
(* under the mutex; wg.Wait joins the goroutines and sign returns the     *)
(* stored error, if any, and otherwise sigs.  The session's signature     *)
(* value is abstracted to the party that produced it.                     *)
(***************************************************************************)
EXTENDS SigningSession

CONSTANT NoError    \* threadSafeError.Load() of a Value never stored

VARIABLES returned,        \* parties whose goroutine has done wg.Done
          sigs,            \* the slice sigs, in append order
          threadSafeError, \* the party whose error was stored last
          hostResult       \* "waiting" in wg.Wait, then "sigs" or "error"

hostVars == <<returned, sigs, threadSafeError, hostResult>>
allVars == <<vars, hostVars>>

HostInit ==
  /\ Init
  /\ returned = {}
  /\ sigs = <<>>
  /\ threadSafeError = NoError
  /\ hostResult = "waiting"

\* Lines 48-59: p.Sign returns once the session of p has ended; an error
\* is stored (replacing an earlier one), a signature is appended.
SignReturns(p) ==
  /\ p \notin returned
  /\ status[p] # "running"
  /\ returned' = returned \cup {p}
  /\ IF status[p] = "finished"
     THEN /\ sigs' = Append(sigs, p)
          /\ UNCHANGED threadSafeError
     ELSE /\ threadSafeError' = p
          /\ UNCHANGED sigs
  /\ UNCHANGED <<hostResult, vars>>

\* Mutant of WgAdd: one goroutine fewer than is started.
WgAddOneLess == N - 1

\* Line 44, wg.Add(len(parties)).
WgAdd == N

\* Lines 62-69: wg.Wait returns when the counter is back to zero; the
\* stored error, if any, is returned instead of the signatures.
WaitReturns ==
  /\ hostResult = "waiting"
  /\ WgAdd - Cardinality(returned) = 0
  /\ hostResult' = IF threadSafeError = NoError THEN "sigs" ELSE "error"
  /\ UNCHANGED <<returned, sigs, threadSafeError, vars>>

\* A step of the parties' sessions, which the host does not observe.
SessionStep ==
  /\ Next
  /\ UNCHANGED hostVars

HostNext ==
  \/ SessionStep
  \/ \E p \in Parties : SignReturns(p)
  \/ WaitReturns

\* The sessions' fairness, and the Go scheduler running every runnable
\* goroutine of the host.
HostFairness ==
  /\ \A p \in Parties : /\ WF_allVars(StartParty(p) /\ UNCHANGED hostVars)
                        /\ WF_allVars(Rerun(p) /\ UNCHANGED hostVars)
                        /\ \A i \in Parties :
                             WF_allVars(Receive(p, i) /\ UNCHANGED hostVars)
                        /\ WF_allVars(SignReturns(p))
  /\ WF_allVars(WaitReturns)

HostSpec == HostInit /\ [][HostNext]_allVars /\ HostFairness

-----------------------------------------------------------------------------
\* TestTSS (lines 133-145) takes a nil error from sign as "every party
\* signed": when sign returns without an error it returns one signature
\* of every party, and when a party's session aborted it returns an error.
SignResultComplete ==
  /\ hostResult = "sigs" =>
       /\ Len(sigs) = N
       /\ ToSet(sigs) = Parties
  /\ (hostResult # "waiting" /\ \E p \in Parties : status[p] = "aborted")
       => hostResult = "error"

\* parties.sign returns: every party's Sign ends, so wg.Wait is released
\* (context.Background() gives the Sign calls no deadline).
SignTerminates == <>(hostResult # "waiting")
=============================================================================
