----------------------------- MODULE RemoteCall -----------------------------
(* A guest that calls a remote driver: each call is answered by the driver *)
(* before the guest goes on, with that answer and with no other.           *)
EXTENDS Naturals, Sequences

CONSTANTS Value        \* what a driver may answer

VARIABLES
  calls,     \* number of calls the guest made
  answers,   \* what the driver answered, in order
  results    \* what the guest was given, in order

callVars == <<calls, answers, results>>

CallInit == calls = 0 /\ answers = <<>> /\ results = <<>>

\* The guest runs: all its calls have returned.
Call ==
  /\ calls = Len(results)
  /\ calls' = calls + 1
  /\ UNCHANGED <<answers, results>>

Answer ==
  /\ Len(answers) < calls
  /\ \E v \in Value : answers' = Append(answers, v)
  /\ UNCHANGED <<calls, results>>

Return ==
  /\ Len(results) < Len(answers)
  /\ results' = Append(results, answers[Len(results) + 1])
  /\ UNCHANGED <<calls, answers>>

CallSpec == CallInit /\ [][Call \/ Answer \/ Return]_callVars
=============================================================================
