--------------------------- MODULE EventRegister ---------------------------
(***************************************************************************)
(* What becomes of a relayed notification, as the phone, the relay and the *)
(* ledger rely on it: an event is received once and settled once, for good *)
(* and with at most one match result; it is matched only while its phone   *)
(* is entitled to report it; and what a phone is told is the outcome, or   *)
(* that its report was ignored.  Requests, retries, failures, pairings and *)
(* the windows of payments are the business of those who implement it.     *)
(***************************************************************************)
CONSTANTS Events, MatchResults, Null

VARIABLES
  standing,  \* where each event stands, "none" before it is received
  verdict,   \* its match result, or Null
  entitled,  \* events whose phone may report them now
  told       \* what a phone has been told of each event

Settled(e) == standing[e] \notin {"none", "received"}

\* The more telling of the two, once there is a match result.
Outcome(e) == IF verdict[e] # Null THEN verdict[e] ELSE standing[e]

Init ==
  /\ standing = [e \in Events |-> "none"]
  /\ verdict = [e \in Events |-> Null]
  /\ entitled = {}
  /\ told = [e \in Events |-> {}]

\* Phones are enrolled and revoked, and collect notifications.
Entitle ==
  /\ entitled' \subseteq Events
  /\ UNCHANGED <<standing, verdict, told>>

Receive(e) ==
  /\ standing[e] = "none"
  /\ standing' = [standing EXCEPT ![e] = "received"]
  /\ entitled' \subseteq entitled \cup {e}
  /\ UNCHANGED <<verdict, told>>

\* Without a look at the payments: nothing in it, too unclear, too old.
Dismiss(e, as) ==
  /\ ~Settled(e)
  /\ standing' = [standing EXCEPT ![e] = as]
  /\ UNCHANGED <<verdict, entitled, told>>

\* A payment that was already confirmed corroborates, which counts as matched.
Judge(e, m) ==
  /\ standing[e] = "received" /\ e \in entitled
  /\ standing' = [standing EXCEPT ![e] = IF m = "corroborated" THEN "matched" ELSE m]
  /\ verdict' = [verdict EXCEPT ![e] = m]
  /\ UNCHANGED <<entitled, told>>

\* One answer may speak of several events.
Tell ==
  /\ told' \in [Events -> SUBSET (MatchResults \cup {"ignored"})]
  /\ \A e \in Events :
       /\ told[e] \subseteq told'[e]
       /\ told'[e] \ told[e] \subseteq {"ignored", Outcome(e)}
       /\ told'[e] # told[e] => Settled(e)
  /\ UNCHANGED <<standing, verdict, entitled>>

Next ==
  \/ Entitle \/ Tell
  \/ \E e \in Events :
       \/ Receive(e)
       \/ \E as \in {"ignored", "ambiguous"} : Dismiss(e, as)
       \/ \E m \in MatchResults : Judge(e, m)

Spec == Init /\ [][Next]_<<standing, verdict, entitled, told>>
=============================================================================
