---------------------------- MODULE RelayIngest ----------------------------
(***************************************************************************)
(* The signed relay of PayGate v4 (internal/v4/relay): phones pair, post   *)
(* the notifications they collect until a 2xx answer, and the server       *)
(* decides each of them once.                                              *)
(*                                                                         *)
(* A request is verified, then every event of it is accepted in one        *)
(* transaction and decided in another; several requests, pairings,         *)
(* revocations, the retention worker and a crash interleave between them.  *)
(* What the ledger makes of an observation is PaymentLedger's subject and  *)
(* is any match result here.                                               *)
(***************************************************************************)
EXTENDS Integers, FiniteSets, SequencesExt

CONSTANTS
  Devices, Events,  \* public keys; (device, source_event_id) pairs
  Requests,         \* requests in progress at a time
  Tokens,           \* pairing sessions
  Null, Idle,
  PostTolerance, OccurTolerance,  \* 5 and 2 minutes: a phone's clock may be ahead
  PairingTTL, Retention,
  BatchLimit,       \* events in one request
  Kinds,            \* what the notifications say
  MaxSkew,          \* how far a phone's clock is ahead
  MaxLag,           \* bound on the age of a pairing's `now' when it commits
  MaxClock,         \* bound on the clock
  MaxFaults         \* bound on failed requests, lost answers and crashes

ASSUME RelayAssumption ==
  /\ {PostTolerance, OccurTolerance} \subseteq Nat
  /\ {PairingTTL, Retention, BatchLimit} \subseteq Nat \ {0}
  /\ {MaxSkew, MaxLag, MaxClock, MaxFaults} \subseteq Nat
  /\ Kinds \subseteq {"credit", "unclear", "noise"}

VARIABLES
  clock,
  enabled, epoch,        \* relay_devices; epoch is enrolled_at
  known,                 \* the epoch each phone signs with
  token, expires,        \* pairing_sessions: state and expires_at
  notification,          \* what a phone holds: device, kind, posted, occurred
  row, receivedAt,       \* relay_events.status ("none" before), received_at
  verdict,               \* payment_observations.match_result, or Null
  observations,          \* observations committed for an event
  req,                   \* the handlers: Idle, or where a request is
  answers,               \* the answers a phone has received for an event
  faults

device == <<enabled, epoch>>
pairing == <<known, token, expires>>
event == <<row, receivedAt, verdict, observations>>
phone == <<notification, answers>>
vars == <<clock, device, pairing, event, phone, req, faults>>

MatchResults == {"matched", "corroborated", "unmatched", "ambiguous"}
RowStatuses == {"none", "received", "matched", "unmatched", "ambiguous", "ignored"}
AnswerSet == MatchResults \cup {"ignored"}

Notification == [device : Devices, kind : {"credit", "unclear", "noise"},
                 posted : Nat, occurred : Nat]

\* left are the events not yet answered, got the answers to the others.
Request == [device : Devices, epoch : Nat, now : Nat, items : Seq(Events),
            left : Seq(Events), got : Seq(AnswerSet),
            step : {"accept", "decide", "refused"}]

ASSUME SentinelAssumption ==
  Null \notin Notification \cup MatchResults /\ Idle \notin Request

Decided(e) == row[e] \notin {"none", "received"}

\* The stored outcome: COALESCE(observation.match_result, event.status)
Outcome(e) == IF verdict[e] # Null THEN verdict[e] ELSE row[e]

Init ==
  /\ clock = 1
  /\ enabled = [d \in Devices |-> TRUE]  \* every phone has just been paired
  /\ epoch = [d \in Devices |-> 1]
  /\ known = [d \in Devices |-> 1]
  /\ token = [t \in Tokens |-> "none"]
  /\ expires = [t \in Tokens |-> 0]
  /\ notification = [e \in Events |-> Null]
  /\ row = [e \in Events |-> "none"]
  /\ receivedAt = [e \in Events |-> 0]
  /\ verdict = [e \in Events |-> Null]
  /\ observations = [e \in Events |-> 0]
  /\ req = [r \in Requests |-> Idle]
  /\ answers = [e \in Events |-> {}]
  /\ faults = 0

Tick ==
  /\ clock < MaxClock
  /\ clock' = clock + 1
  /\ UNCHANGED <<device, pairing, event, phone, req, faults>>

---------------------------------------------------------------------------
(* Pairing and revocation, one transaction each.                           *)

CreatePairing(t) ==
  /\ token[t] = "none"
  /\ token' = [token EXCEPT ![t] = "open"]
  /\ expires' = [expires EXCEPT ![t] = clock + PairingTTL]
  /\ UNCHANGED <<clock, device, known, event, phone, req, faults>>

\* Mutant: the epoch is the handler's clock.
EpochFromClock(d, now) == now

NextEpoch(d, now) == IF epoch[d] >= now THEN epoch[d] + 1 ELSE now

\* PairDevice; the phone may miss the answer and keep the epoch it knows.
Pair(t, d, now) ==
  /\ token[t] = "open"
  /\ now < expires[t]
  /\ token' = [token EXCEPT ![t] = "used"]
  /\ enabled' = [enabled EXCEPT ![d] = TRUE]
  /\ epoch' = [epoch EXCEPT ![d] = NextEpoch(d, now)]
  /\ \E k \in {NextEpoch(d, now), known[d]} : known' = [known EXCEPT ![d] = k]
  /\ UNCHANGED <<clock, expires, event, phone, req, faults>>

RevokeDevice(d) ==
  /\ enabled[d]
  /\ enabled' = [enabled EXCEPT ![d] = FALSE]
  /\ UNCHANGED <<clock, epoch, pairing, event, phone, req, faults>>

---------------------------------------------------------------------------
(* The phone, and verifyRequest.                                           *)

\* A phone collects a notification; its clock may be wrong, the notification
\* may carry no time (posted = 0), and its text may name an earlier minute.
Notify(e, d, kind, posted, late) ==
  /\ notification[e] = Null
  /\ late <= posted
  /\ late # 0 => kind = "credit"
  /\ notification' = [notification EXCEPT ![e] =
       [device |-> d, kind |-> kind, posted |-> posted, occurred |-> posted - late]]
  /\ UNCHANGED <<clock, device, pairing, event, answers, req, faults>>

Verified(d) == enabled[d] /\ known[d] = epoch[d]

\* What a phone still has to send.
Unanswered(d) ==
  {e \in Events : notification[e] # Null /\ notification[e].device = d /\ answers[e] = {}}

\* A single event or a batch arrives and is verified outside any transaction.
\* The phone repeats what it got no answer for, even while it is in progress.
Verify(r, d, items) ==
  /\ req[r] = Idle
  /\ Verified(d)
  /\ items # <<>> /\ IsInjective(items) /\ ToSet(items) \subseteq Unanswered(d)
  /\ req' = [req EXCEPT ![r] =
       [device |-> d, epoch |-> epoch[d], now |-> clock, items |-> items,
        left |-> items, got |-> <<>>, step |-> "accept"]]
  /\ UNCHANGED <<clock, device, pairing, event, phone, faults>>

---------------------------------------------------------------------------
(* The handlers.                                                           *)

At(r, step) == req[r] # Idle /\ req[r].step = step

\* Mutant: a device that is enabled is authorised, whatever its enrolment.
AuthorisedIfEnabled(r) == enabled[req[r].device]

\* enabled=1 AND enrolled_at=?, read again inside the transactions
Authorised(r) == enabled[req[r].device] /\ epoch[req[r].device] = req[r].epoch

Reliable(n, now) == n.posted # 0 /\ n.posted <= now + PostTolerance

Credit(n, now, since) ==
  /\ Reliable(n, now)
  /\ n.kind = "credit"
  /\ since <= n.occurred /\ n.occurred <= now + OccurTolerance

GoTo(r, step) == req' = [req EXCEPT ![r].step = step]

Answer(r, a) ==
  LET q == req[r]
  IN req' = [req EXCEPT ![r] = [q EXCEPT !.left = Tail(q.left), !.got = Append(q.got, a),
                                         !.step = "accept"]]

\* Mutant: a known event is never processed again.
ResumesNothing(e) == FALSE

\* acceptEvent's needsProcessing for a known event
Resumes(e) == row[e] = "received"

\* acceptEvent on a new event.
AcceptNew(r) ==
  /\ At(r, "accept") /\ req[r].left # <<>>
  /\ Authorised(r)
  /\ LET e == Head(req[r].left)
         n == notification[e]
         tooOld == Reliable(n, req[r].now) /\ n.posted < req[r].epoch
     IN /\ row[e] = "none"
        /\ row' = [row EXCEPT ![e] = IF tooOld THEN "ignored" ELSE "received"]
        /\ receivedAt' = [receivedAt EXCEPT ![e] = req[r].now]
        /\ IF tooOld THEN Answer(r, "ignored") ELSE GoTo(r, "decide")
  /\ UNCHANGED <<clock, device, pairing, verdict, observations, phone, faults>>

\* Mutant: an event whose processing was interrupted is a conflict.
AcceptKnownOrConflict(r) ==
  /\ At(r, "accept") /\ req[r].left # <<>>
  /\ Authorised(r)
  /\ LET e == Head(req[r].left) IN
       /\ row[e] # "none"
       /\ IF Resumes(e) THEN req' = [req EXCEPT ![r] = Idle] ELSE Answer(r, Outcome(e))
  /\ UNCHANGED <<clock, device, pairing, event, phone, faults>>

\* acceptEvent on an event it has stored before.
AcceptKnown(r) ==
  /\ At(r, "accept") /\ req[r].left # <<>>
  /\ Authorised(r)
  /\ LET e == Head(req[r].left) IN
       /\ row[e] # "none"
       /\ IF Resumes(e) THEN GoTo(r, "decide") ELSE Answer(r, Outcome(e))
  /\ UNCHANGED <<clock, device, pairing, event, phone, faults>>

\* 401: the device was revoked or paired again since the request was verified.
Reject(r) ==
  /\ At(r, "accept") /\ req[r].left # <<>>
  /\ ~Authorised(r)
  /\ req' = [req EXCEPT ![r] = Idle]
  /\ UNCHANGED <<clock, device, pairing, event, phone, faults>>

\* Mutant: the status is not looked at.
StatusOverwritten(e, status) == status

\* UPDATE relay_events SET status=? WHERE id=? AND status='received'
Finished(e, status) == IF row[e] = "received" THEN status ELSE row[e]

\* finishIgnored
IgnoreEvent(r) ==
  /\ \/ At(r, "refused")
     \/ /\ At(r, "decide")
        /\ LET n == notification[Head(req[r].left)]
           IN /\ ~Credit(n, req[r].now, req[r].epoch)
              /\ ~(Reliable(n, req[r].now) /\ n.kind = "unclear")
  /\ LET e == Head(req[r].left) IN row' = [row EXCEPT ![e] = Finished(e, "ignored")]
  /\ Answer(r, "ignored")
  /\ UNCHANGED <<clock, device, pairing, receivedAt, verdict, observations, phone, faults>>

\* Mutant: the status it meant to write.
StatusMeant(e, status) == status

\* The status read back after the update.
StatusReadBack(e, status) == Finished(e, status)

\* finishAmbiguous
MarkAmbiguous(r) ==
  /\ At(r, "decide")
  /\ LET e == Head(req[r].left)
         n == notification[e]
     IN /\ Reliable(n, req[r].now) /\ n.kind = "unclear"
        /\ row' = [row EXCEPT ![e] = Finished(e, "ambiguous")]
        /\ Answer(r, StatusReadBack(e, "ambiguous"))
  /\ UNCHANGED <<clock, device, pairing, receivedAt, verdict, observations, phone, faults>>

\* Mutant: the match result as it is.
StoredVerbatim(m) == m

\* relay_events.status of a match result
Stored(m) == IF m = "corroborated" THEN "matched" ELSE m

\* ApplyObservationForRelay (PaymentLedger!ApplyObservation) commits.
Observe(r) ==
  /\ At(r, "decide")
  /\ Authorised(r)
  /\ LET e == Head(req[r].left) IN
       /\ Credit(notification[e], req[r].now, req[r].epoch)
       /\ row[e] = "received"
       /\ \E m \in MatchResults :
            /\ row' = [row EXCEPT ![e] = Stored(m)]
            /\ verdict' = [verdict EXCEPT ![e] = m]
            /\ Answer(r, m)
       /\ observations' = [observations EXCEPT ![e] = @ + 1]
  /\ UNCHANGED <<clock, device, pairing, receivedAt, phone, faults>>

\* It finds the event decided or the device gone: ErrRelayEventNotFound.
Refuse(r) ==
  /\ At(r, "decide")
  /\ LET e == Head(req[r].left) IN
       /\ Credit(notification[e], req[r].now, req[r].epoch)
       /\ row[e] # "received" \/ ~Authorised(r)
  /\ GoTo(r, "refused")
  /\ UNCHANGED <<clock, device, pairing, event, phone, faults>>

\* 200: one answer for each event of the request.
Respond(r) ==
  /\ At(r, "accept") /\ req[r].left = <<>>
  /\ answers' = [e \in Events |-> answers[e] \cup
       {req[r].got[i] : i \in {j \in 1..Len(req[r].items) : req[r].items[j] = e}}]
  /\ req' = [req EXCEPT ![r] = Idle]
  /\ UNCHANGED <<clock, device, pairing, event, notification, faults>>

\* A transaction fails (and with it the rest of a batch), or the answer is lost.
Fail(r) ==
  /\ req[r] # Idle
  /\ faults < MaxFaults
  /\ faults' = faults + 1
  /\ req' = [req EXCEPT ![r] = Idle]
  /\ UNCHANGED <<clock, device, pairing, event, phone>>

Crash ==
  /\ \E r \in Requests : req[r] # Idle
  /\ faults < MaxFaults
  /\ faults' = faults + 1
  /\ req' = [r \in Requests |-> Idle]
  /\ UNCHANGED <<clock, device, pairing, event, phone>>

\* RedactRawEvents; what it does to the stored texts is not modelled.
Redact(e) ==
  /\ row[e] = "received"
  /\ receivedAt[e] < clock - Retention
  /\ row' = [row EXCEPT ![e] = "ignored"]
  /\ UNCHANGED <<clock, device, pairing, receivedAt, verdict, observations, phone,
                 req, faults>>

---------------------------------------------------------------------------
Handle(r) ==
  \/ AcceptNew(r) \/ AcceptKnown(r) \/ Reject(r) \/ IgnoreEvent(r)
  \/ MarkAmbiguous(r) \/ Observe(r) \/ Refuse(r) \/ Respond(r)

Deliver == \E r \in Requests, d \in Devices, n \in 1..BatchLimit :
             \E items \in [1..n -> Events] : Verify(r, d, items)

Next ==
  \/ Tick
  \/ \E t \in Tokens : CreatePairing(t)
  \/ \E t \in Tokens, d \in Devices, now \in (clock - MaxLag)..clock : Pair(t, d, now)
  \/ \E d \in Devices : RevokeDevice(d)
  \/ \E e \in Events, d \in Devices, k \in Kinds,
        posted \in {0} \cup clock..(clock + MaxSkew), late \in 0..1 : Notify(e, d, k, posted, late)
  \/ Deliver
  \/ \E r \in Requests : Handle(r) \/ Fail(r)
  \/ Crash
  \/ \E e \in Events : Redact(e)

Spec == Init /\ [][Next]_vars

\* A handler that has started runs on.  The phone sends what has no answer for as
\* long as it has something to send; how many requests fit at a time is the
\* model's bound, so a free one is not kept from it for ever.
FairSpec ==
  /\ Spec
  /\ \A r \in Requests : WF_vars(Handle(r))
  /\ SF_vars(Deliver)

---------------------------------------------------------------------------
(* Properties.                                                             *)

\* Every variable has its type.
TypeOK ==
  /\ clock \in Nat
  /\ enabled \in [Devices -> BOOLEAN]
  /\ epoch \in [Devices -> Nat]
  /\ known \in [Devices -> Nat]
  /\ token \in [Tokens -> {"none", "open", "used"}]
  /\ expires \in [Tokens -> Nat]
  /\ notification \in [Events -> Notification \cup {Null}]
  /\ row \in [Events -> RowStatuses]
  /\ receivedAt \in [Events -> Nat]
  /\ verdict \in [Events -> MatchResults \cup {Null}]
  /\ observations \in [Events -> Nat]
  /\ req \in [Requests -> Request \cup {Idle}]
  /\ answers \in [Events -> SUBSET AnswerSet]
  /\ faults \in Nat

\* A decided event is never decided again, by a repeated request, the retention
\* worker or a handler that was overtaken: at most one observation, one verdict.
VerdictsFinal ==
  [][\A e \in Events : Decided(e) =>
       UNCHANGED <<row[e], verdict[e], observations[e]>>]_vars

\* A phone forgets an event on a 2xx answer, so an answered event is decided:
\* none is left "received" by a crash or an error that the phone will not repeat.
AnsweredIsDecided == \A e \in Events : answers[e] # {} => Decided(e)

\* An answer other than "ignored" is the outcome the server has stored.
AnswersAreOutcomes ==
  \A e \in Events : answers[e] \subseteq {"ignored", Outcome(e)}

\* "Revocation or re-pairing wins before an in-flight phone write can commit":
\* a credit is observed only while its device is enrolled, and only if it is not
\* older than that enrolment, however the enrolment changed since the request came.
EnrolmentWins ==
  [][\A e \in Events : observations'[e] # observations[e] =>
       LET n == notification[e]
       IN enabled[n.device] /\ epoch[n.device] <= n.occurred]_vars

\* Every pairing begins an epoch the device never had before, even if the
\* clock of the pairing that commits later is the earlier one.
EpochsGrow ==
  [][\A t \in Tokens : token[t] = "open" /\ token'[t] = "used" =>
       \E d \in Devices : epoch'[d] > epoch[d]]_vars

\* The relay implements the register of events: however requests repeat and
\* overlap, fail half-way or outlive their enrolment, an event is settled once,
\* credits are matched only for a phone enrolled since before they occurred, and
\* an answer is, at the moment it is given, the settled outcome or "ignored".
Entitled == {e \in Events : LET n == notification[e]
                            IN n # Null /\ enabled[n.device] /\ epoch[n.device] <= n.occurred}
Register == INSTANCE EventRegister
  WITH standing <- row, entitled <- Entitled, told <- answers
ImplementsEvents == Register!Spec

\* A notification whose phone is enrolled for good is answered at last,
\* whatever fails or crashes in between.
EventsAnswered ==
  \A d \in Devices : <>[]Verified(d) =>
    \A e \in Events :
      notification[e] # Null /\ notification[e].device = d ~> answers[e] # {}

\* "same event ID retry returns prior result": all answers to an event agree.
AnswersAgree == \A e \in Events : Cardinality(answers[e]) <= 1
=============================================================================
