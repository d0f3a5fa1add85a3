-------------------------- MODULE MCWebhookDelivery --------------------------
(***************************************************************************)
(* WebhookDelivery for TLC.  `focus', chosen initially, says what moves    *)
(* besides the worker:                                                     *)
(*   worker    two events and the operator's retry of a delivery; one      *)
(*             crash or one answer that cannot be recorded                 *)
(*   settings  two operators' settings requests around one event; a crash  *)
(*   rotation  one operator's settings requests around two events          *)
(***************************************************************************)
EXTENDS WebhookDelivery

CONSTANTS OneDelivery, OneCaller

VARIABLE focus
mcVars == <<vars, focus>>

MCInit == Init /\ focus \in {"worker", "settings", "rotation"}

MCNext ==
  /\ UNCHANGED focus
  /\ \/ Work
     \/ \E d \in Deliveries : Elapse(d)
     \/ \E d \in Deliveries : (focus = "settings" => d = OneDelivery) /\ Enqueue(d)
     \/ focus = "worker" /\ \E d \in Deliveries : RetryOne(d)
     \/ focus = "worker" /\ crashes = 0 /\ FinishLost
     \/ focus # "rotation" /\ lostWrites = 0 /\ Restart
     \/ focus = "settings" /\ \E c \in Callers : SettingsStep(c)
     \/ focus = "rotation" /\ SettingsStep(OneCaller)

\* The fairness of FairSpec.
MCSpec ==
  /\ MCInit /\ [][MCNext]_mcVars
  /\ WF_mcVars(Work /\ UNCHANGED focus)
  /\ \A d \in Deliveries : WF_mcVars(Elapse(d) /\ UNCHANGED focus)
=============================================================================
