-------------------------- MODULE MCPaymentLedger --------------------------
(* PaymentLedger on small instances: symmetry of the interchangeable ids.   *)
EXTENDS PaymentLedger

Symmetry == Permutations(Payments) \cup Permutations(Events) \cup Permutations(Keys)

---------------------------------------------------------------------------
(* Statements of the documents and the tests that the code does not meet.  *)

\* "matching observation resolves payment as `paid`" while it is pending
\* (docs/v4/03_PAYMENT_LIFECYCLE_AND_MATCHING.md:139-142): evidence in the window
\* of a pending payment, newer than its last change, is not unmatched; the
\* changes have distinct timestamps, so the order they are read in is theirs.
PendingTakesEvidence ==
  [][\A e \in Events :
       evStatus[e] = "received" /\ result'[e] = "unmatched" =>
         LET p == evidence[e].intended
         IN ~ /\ status[p] = "pending"
              /\ PaidInWindow(e)
              /\ \A i \in 1..Len(history[p]) :
                   /\ history[p][i].at < evidence[e].occurred
                   /\ \A j \in 1..(i - 1) : history[p][j].at < history[p][i].at]_vars

\* A cancelled payment rejects money dated after its cancellation
\* (matching_test.go, TestCancelledPaymentRejectsMoneyAfterCancellation).
CancelledRejectsLateMoney ==
  [][\A e \in Events, p \in Payments :
       status[p] = "cancelled" /\ matched[e] = Null /\ matched'[e] = p =>
         \E i \in 1..Len(history[p]) :
           /\ history[p][i].to = "cancelled"
           /\ evidence[e].occurred <= history[p][i].at]_vars
=============================================================================
