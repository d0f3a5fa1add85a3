-------------------------- MODULE RelayIngestProofs --------------------------
(***************************************************************************)
(* What holds of the relay for every number of phones, events, concurrent  *)
(* requests and pairings, every batch size, window and clock error.        *)
(***************************************************************************)
EXTENDS RelayIngest, SequenceTheorems, TLAPS

---------------------------------------------------------------------------
(* What a request knows: the answers it has collected belong to its first  *)
(* items and are decided, the rest is left, and an event it is deciding    *)
(* has its row.                                                            *)

Follows(q) ==
  /\ Len(q.items) = Len(q.got) + Len(q.left)
  /\ \A i \in 1..Len(q.left) : q.left[i] = q.items[Len(q.got) + i]
  /\ \A i \in 1..Len(q.items) :
       /\ notification[q.items[i]] # Null
       /\ notification[q.items[i]].device = q.device
  /\ q.step # "accept" => q.left # <<>> /\ row[Head(q.left)] # "none"
  /\ \A i \in 1..Len(q.got) :
       Decided(q.items[i]) /\ q.got[i] \in {"ignored", Outcome(q.items[i])}

Handled == \A r \in Requests : req[r] # Idle => Follows(req[r])

\* Only a credit has a match result, and only once it is decided.
Observed ==
  \A e \in Events : verdict[e] # Null =>
    Decided(e) /\ notification[e] # Null /\ notification[e].kind = "credit"

Inv == TypeOK /\ Handled /\ Observed /\ AnsweredIsDecided /\ AnswersAreOutcomes

\* What no step takes back: a row, an outcome, a notification.
Monotone ==
  \A e \in Events :
    /\ row[e] # "none" => row'[e] # "none"
    /\ Decided(e) => /\ row'[e] = row[e] /\ verdict'[e] = verdict[e]
                     /\ observations'[e] = observations[e]
    /\ notification[e] # Null => notification'[e] = notification[e]

---------------------------------------------------------------------------
(* Lemmas about a request's steps.                                         *)

\* The parts of a request.
LEMMA RequestParts ==
  ASSUME NEW q \in Request
  PROVE  /\ q.items \in Seq(Events) /\ q.left \in Seq(Events) /\ q.got \in Seq(AnswerSet)
         /\ Len(q.items) \in Nat /\ Len(q.left) \in Nat /\ Len(q.got) \in Nat
         /\ q.device \in Devices /\ q.epoch \in Nat /\ q.now \in Nat
         /\ \A i \in 1..Len(q.items) : q.items[i] \in Events
BY DEF Request

\* Every answer has its item, and while something is left an item has none yet.
LEMMA AnswersHaveItems ==
  ASSUME NEW q \in Request, Follows(q)
  PROVE  /\ \A i \in 1..Len(q.got) : i \in 1..Len(q.items)
         /\ Len(q.left) >= 1 => Len(q.got) + 1 \in 1..Len(q.items)
<1>1. PICK n \in Nat, g \in Nat, l \in Nat :
        n = Len(q.items) /\ g = Len(q.got) /\ l = Len(q.left)
  BY RequestParts
<1>2. n = g + l
  BY <1>1 DEF Follows
<1>3. (\A i \in 1..g : i \in 1..n) /\ (l >= 1 => g + 1 \in 1..n)
  BY <1>2
<1>4. QED
  BY <1>1, <1>3

\* The event a request is at is the item after the answered ones.
LEMMA CurrentItem ==
  ASSUME NEW q \in Request, Follows(q), q.left # <<>>
  PROVE  /\ Head(q.left) \in Events
         /\ Len(q.got) + 1 \in 1..Len(q.items)
         /\ Head(q.left) = q.items[Len(q.got) + 1]
<1>0. Len(q.items) \in Nat /\ Len(q.left) \in Nat /\ Len(q.got) \in Nat
  BY RequestParts
<1>1. Len(q.left) >= 1 /\ Head(q.left) = q.left[1] /\ Head(q.left) \in Events
  BY RequestParts
<1>3. q.left[1] = q.items[Len(q.got) + 1]
  BY <1>0, <1>1 DEF Follows
<1>4. Len(q.got) + 1 \in 1..Len(q.items)
  BY <1>1, AnswersHaveItems
<1>5. QED
  BY <1>1, <1>3, <1>4

\* It has been notified, by the request's phone.
LEMMA CurrentEvent ==
  ASSUME Inv, NEW q \in Request, Follows(q), q.left # <<>>
  PROVE  /\ notification[Head(q.left)] \in Notification
         /\ notification[Head(q.left)].device = q.device
<1>1. /\ notification[q.items[Len(q.got) + 1]] # Null
      /\ notification[q.items[Len(q.got) + 1]].device = q.device
  BY CurrentItem DEF Follows
<1>2. QED
  BY <1>1, CurrentItem DEF Inv, TypeOK

\* A request that does not move goes on knowing what it knew.
LEMMA StillFollows ==
  ASSUME Monotone, NEW q \in Request, Follows(q)
  PROVE  Follows(q)'
<1>1. \A i \in 1..Len(q.items) : q.items[i] \in Events
  BY RequestParts
<1>2. \A i \in 1..Len(q.got) : i \in 1..Len(q.items)
  BY AnswersHaveItems
<1>3. \A i \in 1..Len(q.items) :
        /\ notification'[q.items[i]] # Null
        /\ notification'[q.items[i]].device = q.device
  BY <1>1 DEF Follows, Monotone
<1>4. \A i \in 1..Len(q.got) :
        row'[q.items[i]] = row[q.items[i]] /\ verdict'[q.items[i]] = verdict[q.items[i]]
  BY <1>1, <1>2 DEF Follows, Monotone
<1>5. \A i \in 1..Len(q.got) :
        Decided(q.items[i])' /\ q.got[i] \in {"ignored", Outcome(q.items[i])'}
  BY <1>4 DEF Follows, Decided, Outcome
<1>6. q.step # "accept" => q.left # <<>> /\ row'[Head(q.left)] # "none"
  BY CurrentItem DEF Follows, Monotone
<1>7. QED
  BY <1>3, <1>5, <1>6 DEF Follows

\* Going on to a step of the same event keeps what the request knows.
LEMMA GoToFollows ==
  ASSUME Monotone, NEW q \in Request, Follows(q), NEW step \in {"decide", "refused"},
         q.left # <<>>, row'[Head(q.left)] # "none"
  PROVE  [q EXCEPT !.step = step] \in Request /\ Follows([q EXCEPT !.step = step])'
<1>1. PICK p \in Request : p = [q EXCEPT !.step = step]
  BY DEF Request
<1>2. /\ p.items = q.items /\ p.left = q.left /\ p.got = q.got /\ p.device = q.device
  BY <1>1 DEF Request
<1>3. Follows(p)'
  BY <1>2, StillFollows DEF Follows
<1>4. QED
  BY <1>1, <1>3

\* Moving the current event to the answered ones keeps items aligned.
LEMMA AnswerAligned ==
  ASSUME NEW q \in Request, Follows(q), q.left # <<>>, NEW a \in AnswerSet
  PROVE  /\ Tail(q.left) \in Seq(Events) /\ Append(q.got, a) \in Seq(AnswerSet)
         /\ Len(Append(q.got, a)) = Len(q.got) + 1
         /\ Len(q.items) = Len(Append(q.got, a)) + Len(Tail(q.left))
         /\ \A i \in 1..Len(Tail(q.left)) :
              Tail(q.left)[i] = q.items[Len(Append(q.got, a)) + i]
<1>1. PICK left \in Seq(Events), got \in Seq(AnswerSet), n \in Nat :
        left = q.left /\ got = q.got /\ n = Len(q.items)
  BY RequestParts
<1>2. /\ left # <<>> /\ n = Len(got) + Len(left)
      /\ \A i \in 1..Len(left) : left[i] = q.items[Len(got) + i]
  BY <1>1 DEF Follows
<1>3. /\ Tail(left) \in Seq(Events) /\ Append(got, a) \in Seq(AnswerSet)
      /\ Len(Append(got, a)) = Len(got) + 1 /\ Len(Tail(left)) = Len(left) - 1
      /\ \A i \in 1..Len(Tail(left)) : Tail(left)[i] = left[i + 1]
  BY <1>2
<1>4. n = Len(Append(got, a)) + Len(Tail(left))
  BY <1>2, <1>3
<1>5. ASSUME NEW i \in 1..Len(Tail(left))
      PROVE  Tail(left)[i] = q.items[Len(Append(got, a)) + i]
  <2>1. i + 1 \in 1..Len(left) /\ Len(got) + (i + 1) = Len(Append(got, a)) + i
    BY <1>3
  <2>2. left[i + 1] = q.items[Len(got) + (i + 1)]
    BY <1>2, <2>1
  <2>3. QED
    BY <1>3, <2>1, <2>2
<1>6. QED
  BY <1>1, <1>3, <1>4, <1>5

\* An answer to a decided event that is "ignored" or its outcome joins the others.
LEMMA AnswerFollows ==
  ASSUME Monotone, NEW q \in Request, Follows(q), q.left # <<>>,
         NEW e \in Events, e = Head(q.left), Decided(e)',
         NEW a \in AnswerSet, a \in {"ignored", Outcome(e)'},
         NEW p, p = [q EXCEPT !.left = Tail(q.left), !.got = Append(q.got, a), !.step = "accept"]
  PROVE  p \in Request /\ Follows(p)'
<1>1. /\ Tail(q.left) \in Seq(Events) /\ Append(q.got, a) \in Seq(AnswerSet)
  BY AnswerAligned
<1>2. /\ p.items = q.items /\ p.left = Tail(q.left) /\ p.got = Append(q.got, a)
      /\ p.device = q.device /\ p.step = "accept"
  BY DEF Request
<1>3. p \in Request
  BY <1>1 DEF Request
<1>5. Len(q.items) = Len(Append(q.got, a)) + Len(Tail(q.left))
  BY AnswerAligned
<1>6. \A i \in 1..Len(Tail(q.left)) : Tail(q.left)[i] = q.items[Len(Append(q.got, a)) + i]
  BY AnswerAligned
<1>7. Follows(q)'
  BY StillFollows
<1>8. \A i \in 1..Len(Append(q.got, a)) :
        Decided(q.items[i])' /\ Append(q.got, a)[i] \in {"ignored", Outcome(q.items[i])'}
  <2> SUFFICES ASSUME NEW i \in 1..Len(Append(q.got, a))
               PROVE  Decided(q.items[i])'
                      /\ Append(q.got, a)[i] \in {"ignored", Outcome(q.items[i])'}
    OBVIOUS
  <2>1. CASE i \in 1..Len(q.got)
    <3>1. Append(q.got, a)[i] = q.got[i]
      BY <2>1, RequestParts
    <3>2. QED
      BY <1>7, <2>1, <3>1 DEF Follows
  <2>2. CASE i = Len(q.got) + 1
    <3>1. Append(q.got, a)[i] = a
      BY <2>2, RequestParts
    <3>2. q.items[i] = e
      BY <2>2, CurrentItem
    <3>3. QED
      BY <3>1, <3>2
  <2>3. QED
    <3>1. Len(Append(q.got, a)) = Len(q.got) + 1 /\ Len(q.got) \in Nat
      BY AnswerAligned, RequestParts
    <3>2. i \in 1..Len(q.got) \/ i = Len(q.got) + 1
      BY <3>1
    <3>3. QED
      BY <2>1, <2>2, <3>2
<1>9. QED
  BY <1>2, <1>3, <1>5, <1>6, <1>7, <1>8 DEF Follows

\* When one request moves and still follows, or only ends, all requests follow.
LEMMA OthersFollow ==
  ASSUME Inv, Monotone, NEW r \in Requests, NEW p \in Request,
         req' = [req EXCEPT ![r] = p], Follows(p)'
  PROVE  req' \in [Requests -> Request \cup {Idle}] /\ Handled'
<1>1. req \in [Requests -> Request \cup {Idle}]
  BY DEF Inv, TypeOK
<1>2. ASSUME NEW s \in Requests, req'[s] # Idle
      PROVE  \E q \in Request : req'[s] = q /\ Follows(q)'
  <2>1. CASE s = r
    BY <1>1, <2>1
  <2>2. CASE s # r
    <3>1. req'[s] = req[s] /\ req[s] \in Request
      BY <1>1, <1>2, <2>2
    <3>2. PICK q \in Request : q = req[s] /\ Follows(q)
      BY <1>2, <3>1 DEF Inv, Handled
    <3>3. QED
      BY <3>1, <3>2, StillFollows
  <2>3. QED
    BY <2>1, <2>2
<1>3. Handled'
  <2> SUFFICES ASSUME NEW s \in Requests, req'[s] # Idle
               PROVE  Follows(req[s])'
    BY DEF Handled
  <2>1. PICK q \in Request : req'[s] = q /\ Follows(q)'
    BY <1>2
  <2>2. QED
    BY <2>1 DEF Follows
<1>4. QED
  BY <1>1, <1>3

\* Requests that end, or stand still, leave the others knowing what they knew.
LEMMA RestFollow ==
  ASSUME Inv, Monotone, \A s \in Requests : req'[s] \in {req[s], Idle}
  PROVE  Handled'
<1>1. ASSUME NEW s \in Requests, req'[s] # Idle
      PROVE  \E q \in Request : req'[s] = q /\ Follows(q)'
  <2>1. req'[s] = req[s] /\ req[s] \in Request
    BY <1>1 DEF Inv, TypeOK
  <2>2. PICK q \in Request : q = req[s] /\ Follows(q)
    BY <1>1, <2>1 DEF Inv, Handled
  <2>3. QED
    BY <2>1, <2>2, StillFollows
<1>2. SUFFICES ASSUME NEW s \in Requests, req'[s] # Idle
               PROVE  Follows(req[s])'
  BY DEF Handled
<1>3. PICK q \in Request : req'[s] = q /\ Follows(q)'
  BY <1>1, <1>2
<1>4. QED
  BY <1>3 DEF Follows

---------------------------------------------------------------------------
(* No step takes anything back.                                            *)

\* A decided event keeps its row, its outcome and its observations, a row does
\* not disappear, and a notification does not change.
LEMMA StepMonotone ==
  ASSUME Inv, [Next]_vars
  PROVE  Monotone
<1>0. /\ row \in [Events -> RowStatuses] /\ observations \in [Events -> Nat]
      /\ verdict \in [Events -> MatchResults \cup {Null}]
      /\ notification \in [Events -> Notification \cup {Null}]
  BY DEF Inv, TypeOK
<1>1. CASE UNCHANGED <<event, notification>>
  BY <1>1 DEF event, Monotone
<1>2. ASSUME NEW e \in Events, NEW d \in Devices, NEW k \in Kinds, NEW posted,
             NEW late, Notify(e, d, k, posted, late)
      PROVE  Monotone
  BY <1>0, <1>2 DEF Notify, event, Monotone
<1>3. ASSUME NEW e, NEW v, row' = [row EXCEPT ![e] = v], ~Decided(e), v # "none",
             \A f \in Events \ {e} : verdict'[f] = verdict[f] /\ observations'[f] = observations[f],
             UNCHANGED notification
      PROVE  Monotone
  <2>1. \A f \in Events \ {e} : row'[f] = row[f]
    BY <1>0, <1>3
  <2>2. e \in Events => row'[e] # "none"
    BY <1>0, <1>3
  <2>3. QED
    BY <1>3, <2>1, <2>2 DEF Monotone
<1>4. ASSUME NEW r \in Requests, AcceptNew(r)
      PROVE  Monotone
  <2>1. PICK e : e = Head(req[r].left)
    OBVIOUS
  <2>2. \E v \in {"ignored", "received"} : row' = [row EXCEPT ![e] = v]
    BY <1>4, <2>1 DEF AcceptNew
  <2>3. ~Decided(e) /\ UNCHANGED <<verdict, observations, notification>>
    BY <1>4, <2>1 DEF AcceptNew, Decided, phone
  <2>4. QED
    BY <1>3, <2>2, <2>3
<1>5. ASSUME NEW e, NEW v \in {"ignored", "ambiguous"}, row' = [row EXCEPT ![e] = Finished(e, v)],
             UNCHANGED <<verdict, observations, notification>>
      PROVE  Monotone
  <2>1. \A f \in Events : row'[f] = row[f] \/ (f = e /\ row[f] = "received" /\ row'[f] = v)
    BY <1>0, <1>5 DEF Finished
  <2>2. QED
    BY <1>5, <2>1 DEF Monotone, Decided
<1>6. ASSUME NEW r \in Requests, IgnoreEvent(r) \/ MarkAmbiguous(r)
      PROVE  Monotone
  BY <1>5, <1>6 DEF IgnoreEvent, MarkAmbiguous, phone
<1>7. ASSUME NEW r \in Requests, Observe(r)
      PROVE  Monotone
  <2>1. PICK e : e = Head(req[r].left)
    OBVIOUS
  <2>2. PICK m \in MatchResults : /\ row' = [row EXCEPT ![e] = Stored(m)]
                                  /\ verdict' = [verdict EXCEPT ![e] = m]
    BY <1>7, <2>1 DEF Observe
  <2>3. /\ ~Decided(e) /\ UNCHANGED notification
        /\ observations' = [observations EXCEPT ![e] = observations[e] + 1]
    BY <1>7, <2>1 DEF Observe, Decided, phone
  <2>4. Stored(m) # "none"
    BY DEF Stored, MatchResults
  <2>5. \A f \in Events \ {e} : verdict'[f] = verdict[f] /\ observations'[f] = observations[f]
    BY <1>0, <2>2, <2>3
  <2>6. QED
    BY <1>3, <2>2, <2>3, <2>4, <2>5
<1>8. ASSUME NEW e \in Events, Redact(e)
      PROVE  Monotone
  <2>1. /\ row' = [row EXCEPT ![e] = "ignored"] /\ ~Decided(e)
        /\ UNCHANGED <<verdict, observations, notification>>
    BY <1>8 DEF Redact, Decided, phone
  <2>2. QED
    BY <1>3, <2>1
<1>9. ASSUME NEW r \in Requests, Handle(r) \/ Fail(r)
      PROVE  Monotone
  BY <1>1, <1>4, <1>6, <1>7, <1>9
  DEF Handle, AcceptKnown, Reject, Refuse, Respond, Fail, phone
<1>10. CASE Deliver \/ Crash \/ Tick
  BY <1>1, <1>10 DEF Deliver, Verify, Crash, Tick, phone
<1>11. ASSUME NEW t \in Tokens, CreatePairing(t) \/ (\E d \in Devices,
                now \in (clock - MaxLag)..clock : Pair(t, d, now))
       PROVE  Monotone
  BY <1>1, <1>11 DEF CreatePairing, Pair, phone
<1>12. ASSUME NEW d \in Devices, RevokeDevice(d)
       PROVE  Monotone
  BY <1>1, <1>12 DEF RevokeDevice, phone
<1>13. CASE UNCHANGED vars
  BY <1>1, <1>13 DEF vars, phone
<1>14. QED
  BY <1>2, <1>8, <1>9, <1>10, <1>11, <1>12, <1>13 DEF Next

\* While no answer arrives, answered events stay decided as answered.
LEMMA AnswersKept ==
  ASSUME Inv, Monotone, UNCHANGED answers
  PROVE  AnsweredIsDecided' /\ AnswersAreOutcomes'
<1>1. \A e \in Events : answers[e] # {} => Decided(e) /\ Decided(e)' /\ Outcome(e)' = Outcome(e)
  BY DEF Inv, AnsweredIsDecided, Monotone, Decided, Outcome
<1>2. \A e \in Events : answers[e] \subseteq {"ignored", Outcome(e)}
  BY DEF Inv, AnswersAreOutcomes
<1>3. QED
  BY <1>1, <1>2 DEF AnsweredIsDecided, AnswersAreOutcomes

\* While no match result is stored, those there are stay explained.
LEMMA ObservedKept ==
  ASSUME Inv, Monotone, UNCHANGED verdict
  PROVE  Observed'
BY DEF Inv, Observed, Monotone, Decided

\* A request under way is a request and knows what it should.
LEMMA UnderWay ==
  ASSUME Inv, NEW r \in Requests, req[r] # Idle
  PROVE  req[r] \in Request /\ Follows(req[r])
BY DEF Inv, TypeOK, Handled

---------------------------------------------------------------------------
(* The steps of a request preserve the invariant.                          *)

\* A verified request has answered nothing and knows whose events it carries.
LEMMA VerifyKeeps ==
  ASSUME Inv, NEW r \in Requests, NEW d \in Devices, NEW items \in Seq(Events),
         Verify(r, d, items)
  PROVE  Inv'
<1> DEFINE new == [device |-> d, epoch |-> epoch[d], now |-> clock, items |-> items,
                   left |-> items, got |-> <<>>, step |-> "accept"]
<1>1. PICK p \in Request : p = new
  <2>1. epoch[d] \in Nat /\ clock \in Nat /\ <<>> \in Seq(AnswerSet)
    BY DEF Inv, TypeOK
  <2>2. QED
    BY <2>1 DEF Request
<1>2. /\ req' = [req EXCEPT ![r] = p]
      /\ UNCHANGED <<clock, device, pairing, event, phone, faults>>
      /\ ToSet(items) \subseteq Unanswered(d)
  BY <1>1 DEF Verify
<1>3. Monotone
  BY <1>2 DEF Monotone, event, phone
<1>4. /\ p.items = items /\ p.left = items /\ p.got = <<>> /\ p.device = d
      /\ p.step = "accept" /\ Len(<<>>) = 0 /\ Len(items) \in Nat
  BY <1>1
<1>5. \A i \in 1..Len(items) : notification[items[i]] # Null /\ notification[items[i]].device = d
  BY <1>2 DEF ToSet, Unanswered
<1>6. Follows(p)'
  BY <1>2, <1>4, <1>5 DEF Follows, phone
<1>7. req' \in [Requests -> Request \cup {Idle}] /\ Handled'
  BY <1>2, <1>3, <1>6, OthersFollow
<1>8. TypeOK'
  BY <1>2, <1>7 DEF Inv, TypeOK, device, pairing, event, phone
<1>9. QED
  BY <1>2, <1>3, <1>7, <1>8, AnswersKept, ObservedKept DEF Inv, event, phone

\* A step that answers the current event preserves the invariant if the answer
\* is "ignored" or the outcome of an event that is decided by then.
LEMMA AnswerKeeps ==
  ASSUME Inv, Monotone, NEW r \in Requests, req[r] # Idle, req[r].left # <<>>,
         NEW e \in Events, e = Head(req[r].left), Decided(e)',
         NEW a \in AnswerSet, a \in {"ignored", Outcome(e)'}, Answer(r, a)
  PROVE  req' \in [Requests -> Request \cup {Idle}] /\ Handled'
<1>1. PICK q \in Request : q = req[r] /\ Follows(q)
  BY UnderWay
<1>2. PICK p : p = [q EXCEPT !.left = Tail(q.left), !.got = Append(q.got, a), !.step = "accept"]
  OBVIOUS
<1>3. req' = [req EXCEPT ![r] = p]
  BY <1>1, <1>2 DEF Answer
<1>4. p \in Request /\ Follows(p)'
  BY <1>1, <1>2, AnswerFollows
<1>5. QED
  BY <1>3, <1>4, OthersFollow

\* A step that goes on with the current event preserves the invariant once the
\* event has a row.
LEMMA GoToKeeps ==
  ASSUME Inv, Monotone, NEW r \in Requests, req[r] # Idle, req[r].left # <<>>,
         NEW e \in Events, e = Head(req[r].left), row'[e] # "none",
         NEW step \in {"decide", "refused"}, GoTo(r, step)
  PROVE  req' \in [Requests -> Request \cup {Idle}] /\ Handled'
<1>1. PICK q \in Request : q = req[r] /\ Follows(q)
  BY UnderWay
<1>2. PICK p : p = [q EXCEPT !.step = step]
  OBVIOUS
<1>3. req' = [req EXCEPT ![r] = p]
  BY <1>1, <1>2 DEF GoTo
<1>4. p \in Request /\ Follows(p)'
  BY <1>1, <1>2, GoToFollows
<1>5. QED
  BY <1>3, <1>4, OthersFollow

\* An event that is being decided is one of the request's, and has its row.
LEMMA Deciding ==
  ASSUME Inv, NEW r \in Requests, At(r, "decide") \/ At(r, "refused")
  PROVE  /\ req[r] # Idle /\ req[r].left # <<>>
         /\ Head(req[r].left) \in Events /\ row[Head(req[r].left)] # "none"
<1>1. PICK q \in Request : q = req[r] /\ Follows(q)
  BY UnderWay DEF At
<1>2. q.left # <<>> /\ row[Head(q.left)] # "none"
  BY <1>1 DEF At, Follows
<1>3. QED
  BY <1>1, <1>2, CurrentItem DEF At

\* acceptEvent stores a new event.
LEMMA AcceptNewKeeps ==
  ASSUME Inv, Monotone, NEW r \in Requests, AcceptNew(r)
  PROVE  Inv'
<1>0. /\ row \in [Events -> RowStatuses] /\ receivedAt \in [Events -> Nat]
  BY DEF Inv, TypeOK
<1>1. req[r] # Idle /\ req[r].left # <<>> /\ req[r] \in Request /\ Follows(req[r])
  BY UnderWay DEF AcceptNew, At
<1>2. PICK e \in Events : e = Head(req[r].left)
  BY <1>1, CurrentItem
<1>3. UNCHANGED <<clock, device, pairing, verdict, observations, phone, faults>>
  BY DEF AcceptNew
<1>4. receivedAt' \in [Events -> Nat]
  BY <1>0, <1>1, <1>2, RequestParts DEF AcceptNew
<1>5. row' \in [Events -> RowStatuses] /\ req' \in [Requests -> Request \cup {Idle}] /\ Handled'
  <2>1. CASE row' = [row EXCEPT ![e] = "ignored"] /\ Answer(r, "ignored")
    <3>1. row' \in [Events -> RowStatuses] /\ Decided(e)'
      BY <1>0, <2>1 DEF RowStatuses, Decided
    <3>2. QED
      BY <1>1, <1>2, <2>1, <3>1, AnswerKeeps DEF AnswerSet
  <2>2. CASE row' = [row EXCEPT ![e] = "received"] /\ GoTo(r, "decide")
    <3>1. row' \in [Events -> RowStatuses] /\ row'[e] # "none"
      BY <1>0, <2>2 DEF RowStatuses
    <3>2. QED
      BY <1>1, <1>2, <2>2, <3>1, GoToKeeps
  <2>3. QED
    BY <1>2, <2>1, <2>2 DEF AcceptNew
<1>6. TypeOK'
  BY <1>3, <1>4, <1>5 DEF Inv, TypeOK, device, pairing, phone
<1>7. QED
  BY <1>3, <1>5, <1>6, AnswersKept, ObservedKept DEF Inv, phone

\* acceptEvent finds an event it has stored.
LEMMA AcceptKnownKeeps ==
  ASSUME Inv, Monotone, NEW r \in Requests, AcceptKnown(r)
  PROVE  Inv'
<1>1. req[r] # Idle /\ req[r].left # <<>> /\ req[r] \in Request /\ Follows(req[r])
  BY UnderWay DEF AcceptKnown, At
<1>2. PICK e \in Events : e = Head(req[r].left)
  BY <1>1, CurrentItem
<1>3. /\ UNCHANGED <<clock, device, pairing, event, phone, faults>> /\ row[e] # "none"
      /\ IF Resumes(e) THEN GoTo(r, "decide") ELSE Answer(r, Outcome(e))
  BY <1>2 DEF AcceptKnown
<1>4. req' \in [Requests -> Request \cup {Idle}] /\ Handled'
  <2>1. CASE Resumes(e)
    BY <1>1, <1>2, <1>3, <2>1, GoToKeeps DEF event
  <2>2. CASE ~Resumes(e)
    <3>1. Decided(e) /\ row[e] \in RowStatuses /\ verdict[e] \in MatchResults \cup {Null}
      BY <1>3, <2>2 DEF Resumes, Decided, Inv, TypeOK
    <3>2. Outcome(e) \in AnswerSet
      BY <3>1 DEF Outcome, Decided, AnswerSet, RowStatuses, MatchResults
    <3>3. Decided(e)' /\ Outcome(e)' = Outcome(e)
      BY <1>3, <3>1 DEF Decided, Outcome, event
    <3>4. PICK a \in AnswerSet : a = Outcome(e)
      BY <3>2
    <3>5. QED
      BY <1>1, <1>2, <1>3, <2>2, <3>3, <3>4, AnswerKeeps
  <2>3. QED
    BY <2>1, <2>2
<1>5. TypeOK'
  BY <1>3, <1>4 DEF Inv, TypeOK, device, pairing, event, phone
<1>6. QED
  BY <1>3, <1>4, <1>5, AnswersKept, ObservedKept DEF Inv, event, phone

\* finishIgnored and finishAmbiguous decide an event that is not decided yet.
LEMMA FinishKeeps ==
  ASSUME Inv, Monotone, NEW r \in Requests, IgnoreEvent(r) \/ MarkAmbiguous(r)
  PROVE  Inv'
<1>0. /\ row \in [Events -> RowStatuses]
      /\ verdict \in [Events -> MatchResults \cup {Null}]
  BY DEF Inv, TypeOK
<1>1. /\ req[r] # Idle /\ req[r].left # <<>>
      /\ Head(req[r].left) \in Events /\ row[Head(req[r].left)] # "none"
  BY Deciding DEF IgnoreEvent, MarkAmbiguous
<1>2. PICK e \in Events : e = Head(req[r].left) /\ row[e] # "none"
  BY <1>1
<1>3. UNCHANGED <<clock, device, pairing, receivedAt, verdict, observations, phone, faults>>
  BY DEF IgnoreEvent, MarkAmbiguous
<1>4. row' \in [Events -> RowStatuses] /\ req' \in [Requests -> Request \cup {Idle}] /\ Handled'
  <2>1. CASE IgnoreEvent(r)
    <3>1. row' = [row EXCEPT ![e] = Finished(e, "ignored")] /\ Answer(r, "ignored")
      BY <1>2, <2>1 DEF IgnoreEvent
    <3>2. Finished(e, "ignored") \in RowStatuses \ {"none", "received"}
      BY <1>0, <1>2 DEF Finished, RowStatuses
    <3>3. row' \in [Events -> RowStatuses] /\ Decided(e)'
      BY <1>0, <3>1, <3>2 DEF Decided
    <3>4. QED
      BY <1>1, <1>2, <3>1, <3>3, AnswerKeeps DEF AnswerSet
  <2>2. CASE MarkAmbiguous(r)
    <3>1. /\ row' = [row EXCEPT ![e] = Finished(e, "ambiguous")]
          /\ Answer(r, Finished(e, "ambiguous"))
          /\ notification[e].kind = "unclear"
      BY <1>2, <2>2 DEF MarkAmbiguous, StatusReadBack
    <3>2. verdict[e] = Null
      BY <3>1 DEF Inv, Observed
    <3>3. Finished(e, "ambiguous") \in RowStatuses \ {"none", "received"}
      BY <1>0, <1>2 DEF Finished, RowStatuses
    <3>4. PICK a \in AnswerSet : a = Finished(e, "ambiguous")
      BY <3>3 DEF RowStatuses, AnswerSet, MatchResults
    <3>5. row' \in [Events -> RowStatuses] /\ row'[e] = a /\ Decided(e)'
      BY <1>0, <3>1, <3>3, <3>4 DEF Decided
    <3>6. Outcome(e)' = a
      BY <1>3, <3>2, <3>5 DEF Outcome
    <3>7. QED
      BY <1>1, <1>2, <3>1, <3>4, <3>5, <3>6, AnswerKeeps
  <2>3. QED
    BY <2>1, <2>2
<1>5. TypeOK'
  BY <1>3, <1>4 DEF Inv, TypeOK, device, pairing, phone
<1>6. QED
  BY <1>3, <1>4, <1>5, AnswersKept, ObservedKept DEF Inv, phone

\* An observation is committed, and its match result is the answer.
LEMMA ObserveKeeps ==
  ASSUME Inv, Monotone, NEW r \in Requests, Observe(r)
  PROVE  Inv'
<1>0. /\ row \in [Events -> RowStatuses] /\ observations \in [Events -> Nat]
      /\ verdict \in [Events -> MatchResults \cup {Null}]
  BY DEF Inv, TypeOK
<1>1. /\ req[r] # Idle /\ req[r].left # <<>> /\ Head(req[r].left) \in Events
      /\ req[r] \in Request /\ Follows(req[r])
  BY Deciding, UnderWay DEF Observe
<1>2. PICK e \in Events : e = Head(req[r].left)
  BY <1>1
<1>3. PICK m \in MatchResults : /\ row' = [row EXCEPT ![e] = Stored(m)]
                                /\ verdict' = [verdict EXCEPT ![e] = m]
                                /\ Answer(r, m)
  BY <1>2 DEF Observe
<1>4. /\ UNCHANGED <<clock, device, pairing, receivedAt, phone, faults>>
      /\ observations' = [observations EXCEPT ![e] = observations[e] + 1]
      /\ notification[e].kind = "credit"
  BY <1>2 DEF Observe, Credit
<1>5. /\ row' \in [Events -> RowStatuses] /\ observations' \in [Events -> Nat]
      /\ verdict' \in [Events -> MatchResults \cup {Null}]
  BY <1>0, <1>3, <1>4 DEF Stored, RowStatuses, MatchResults
<1>6. Decided(e)' /\ Outcome(e)' = m
  BY <1>0, <1>3, SentinelAssumption
  DEF Decided, Outcome, Stored, MatchResults, SentinelAssumption
<1>7. req' \in [Requests -> Request \cup {Idle}] /\ Handled'
  BY <1>1, <1>2, <1>3, <1>6, AnswerKeeps DEF AnswerSet
<1>8. TypeOK'
  BY <1>4, <1>5, <1>7 DEF Inv, TypeOK, device, pairing, phone
<1>9. Observed'
  <2>1. notification[e] # Null
    BY <1>1, <1>2, CurrentEvent, SentinelAssumption DEF SentinelAssumption
  <2>2. \A f \in Events \ {e} : verdict'[f] = verdict[f] /\ row'[f] = row[f]
    BY <1>0, <1>3
  <2>3. UNCHANGED notification
    BY <1>4 DEF phone
  <2>4. QED
    BY <1>4, <1>6, <2>1, <2>2, <2>3 DEF Inv, Observed, Decided
<1>10. QED
  BY <1>4, <1>7, <1>8, <1>9, AnswersKept DEF Inv, phone

\* The observation is refused; the request goes on to ignore the event.
LEMMA RefuseKeeps ==
  ASSUME Inv, Monotone, NEW r \in Requests, Refuse(r)
  PROVE  Inv'
<1>1. /\ req[r] # Idle /\ req[r].left # <<>>
      /\ Head(req[r].left) \in Events /\ row[Head(req[r].left)] # "none"
  BY Deciding DEF Refuse
<1>2. PICK e \in Events : e = Head(req[r].left) /\ row[e] # "none"
  BY <1>1
<1>3. GoTo(r, "refused") /\ UNCHANGED <<clock, device, pairing, event, phone, faults>>
  BY DEF Refuse
<1>4. req' \in [Requests -> Request \cup {Idle}] /\ Handled'
  BY <1>1, <1>2, <1>3, GoToKeeps DEF event
<1>5. TypeOK'
  BY <1>3, <1>4 DEF Inv, TypeOK, device, pairing, event, phone
<1>6. QED
  BY <1>3, <1>4, <1>5, AnswersKept, ObservedKept DEF Inv, event, phone

\* The answers a request has collected reach its phone.
LEMMA RespondKeeps ==
  ASSUME Inv, Monotone, NEW r \in Requests, Respond(r)
  PROVE  Inv'
<1>1. PICK q \in Request : q = req[r] /\ Follows(q) /\ q.left = <<>>
  BY UnderWay DEF Respond, At
<1>2. UNCHANGED <<clock, device, pairing, event, notification, faults>>
  BY DEF Respond
<1>3. Len(q.items) = Len(q.got)
  <2>1. PICK n \in Nat, g \in Nat : n = Len(q.items) /\ g = Len(q.got)
    BY RequestParts
  <2>2. n = g + 0
    BY <1>1, <2>1 DEF Follows
  <2>3. QED
    BY <2>1, <2>2
<1>4. \A i \in 1..Len(q.items) :
        /\ q.got[i] \in AnswerSet /\ Decided(q.items[i])
        /\ q.got[i] \in {"ignored", Outcome(q.items[i])}
  <2>1. \A i \in 1..Len(q.got) : q.got[i] \in AnswerSet
    BY RequestParts
  <2>2. QED
    BY <1>1, <1>3, <2>1 DEF Follows
<1>5. answers' = [e \in Events |-> answers[e] \cup
        {q.got[i] : i \in {j \in 1..Len(q.items) : q.items[j] = e}}]
  BY <1>1 DEF Respond
<1>6. ASSUME NEW e \in Events, NEW a \in answers'[e]
      PROVE  /\ a \in AnswerSet /\ Decided(e) /\ a \in {"ignored", Outcome(e)}
  <2>1. CASE a \in answers[e]
    BY <2>1 DEF Inv, TypeOK, AnsweredIsDecided, AnswersAreOutcomes
  <2>2. CASE a \notin answers[e]
    <3>1. PICK i \in 1..Len(q.items) : q.items[i] = e /\ a = q.got[i]
      BY <1>5, <1>6, <2>2
    <3>2. QED
      BY <1>4, <3>1
  <2>3. QED
    BY <2>1, <2>2
<1>7. answers' \in [Events -> SUBSET AnswerSet]
  BY <1>5, <1>6
<1>8. AnsweredIsDecided' /\ AnswersAreOutcomes'
  BY <1>2, <1>6 DEF AnsweredIsDecided, AnswersAreOutcomes, Decided, Outcome, event
<1>9. /\ req' \in [Requests -> Request \cup {Idle}]
      /\ \A s \in Requests : req'[s] \in {req[s], Idle}
  BY DEF Respond, Inv, TypeOK
<1>10. Handled'
  BY <1>9, RestFollow
<1>11. TypeOK'
  BY <1>2, <1>7, <1>9 DEF Inv, TypeOK, device, pairing, event
<1>12. QED
  BY <1>2, <1>8, <1>10, <1>11, ObservedKept DEF Inv, event

---------------------------------------------------------------------------
(* The invariant, and what it implies.                                     *)

\* Nothing has been notified, received or asked yet.
LEMMA InitInv == Init => Inv
<1> SUFFICES ASSUME Init PROVE Inv
  OBVIOUS
<1>1. /\ \A r \in Requests : req[r] = Idle
      /\ \A e \in Events : answers[e] = {} /\ verdict[e] = Null
  BY DEF Init
<1>2. /\ enabled \in [Devices -> BOOLEAN] /\ epoch \in [Devices -> Nat]
      /\ known \in [Devices -> Nat] /\ expires \in [Tokens -> Nat]
      /\ token \in [Tokens -> {"none", "open", "used"}]
  BY DEF Init
<1>3. /\ notification \in [Events -> Notification \cup {Null}]
      /\ row \in [Events -> RowStatuses] /\ receivedAt \in [Events -> Nat]
      /\ verdict \in [Events -> MatchResults \cup {Null}]
      /\ observations \in [Events -> Nat] /\ answers \in [Events -> SUBSET AnswerSet]
  BY DEF Init, RowStatuses
<1>4. req \in [Requests -> Request \cup {Idle}] /\ clock \in Nat /\ faults \in Nat
  BY DEF Init
<1>5. TypeOK
  BY <1>2, <1>3, <1>4 DEF TypeOK
<1>6. QED
  BY <1>1, <1>5 DEF Inv, Handled, Observed, AnsweredIsDecided, AnswersAreOutcomes

\* Steps outside the handlers keep requests and answers as they are.
LEMMA QuietKeeps ==
  ASSUME Inv, Monotone, UNCHANGED <<verdict, answers, observations, receivedAt>>,
         \A r \in Requests : req'[r] \in {req[r], Idle},
         req' \in [Requests -> Request \cup {Idle}],
         row' \in [Events -> RowStatuses], clock' \in Nat, faults' \in Nat,
         enabled' \in [Devices -> BOOLEAN], epoch' \in [Devices -> Nat],
         known' \in [Devices -> Nat], token' \in [Tokens -> {"none", "open", "used"}],
         expires' \in [Tokens -> Nat],
         notification' \in [Events -> Notification \cup {Null}]
  PROVE  Inv'
<1>1. TypeOK'
  BY DEF Inv, TypeOK
<1>2. QED
  BY <1>1, RestFollow, AnswersKept, ObservedKept DEF Inv

\* Pairing and revocation keep the registry well typed.
LEMMA PairingKeeps ==
  ASSUME Inv, Monotone,
         \/ \E t \in Tokens : CreatePairing(t)
         \/ \E t \in Tokens, d \in Devices, now \in (clock - MaxLag)..clock : Pair(t, d, now)
         \/ \E d \in Devices : RevokeDevice(d)
  PROVE  Inv'
<1>0. /\ clock \in Nat /\ MaxLag \in Nat /\ PairingTTL \in Nat
  BY RelayAssumption DEF Inv, TypeOK, RelayAssumption
<1>1. ASSUME NEW t \in Tokens, CreatePairing(t)
      PROVE  Inv'
  <2>1. /\ token' \in [Tokens -> {"none", "open", "used"}] /\ expires' \in [Tokens -> Nat]
    BY <1>0, <1>1 DEF CreatePairing, Inv, TypeOK
  <2>2. UNCHANGED <<clock, device, known, event, phone, req, faults>>
    BY <1>1 DEF CreatePairing
  <2>3. QED
    BY <2>1, <2>2, QuietKeeps DEF Inv, TypeOK, device, event, phone
<1>2. ASSUME NEW t \in Tokens, NEW d \in Devices, NEW now \in (clock - MaxLag)..clock,
             Pair(t, d, now)
      PROVE  Inv'
  <2>1. epoch[d] \in Nat /\ known[d] \in Nat /\ now \in Int
    BY <1>0 DEF Inv, TypeOK
  <2>2. NextEpoch(d, now) \in Nat
    BY <2>1 DEF NextEpoch
  <2>3. /\ token' \in [Tokens -> {"none", "open", "used"}]
        /\ enabled' \in [Devices -> BOOLEAN] /\ epoch' \in [Devices -> Nat]
    BY <1>2, <2>2 DEF Pair, Inv, TypeOK
  <2>4. PICK k \in {NextEpoch(d, now), known[d]} : known' = [known EXCEPT ![d] = k]
    BY <1>2 DEF Pair
  <2>5. known' \in [Devices -> Nat]
    BY <2>1, <2>2, <2>4 DEF Inv, TypeOK
  <2>6. UNCHANGED <<clock, expires, event, phone, req, faults>>
    BY <1>2 DEF Pair
  <2>7. QED
    BY <2>3, <2>5, <2>6, QuietKeeps DEF Inv, TypeOK, event, phone
<1>3. ASSUME NEW d \in Devices, RevokeDevice(d)
      PROVE  Inv'
  <2>1. enabled' \in [Devices -> BOOLEAN]
    BY <1>3 DEF RevokeDevice, Inv, TypeOK
  <2>2. UNCHANGED <<clock, epoch, pairing, event, phone, req, faults>>
    BY <1>3 DEF RevokeDevice
  <2>3. QED
    BY <2>1, <2>2, QuietKeeps DEF Inv, TypeOK, pairing, event, phone
<1>4. QED
  BY <1>1, <1>2, <1>3

\* Every step preserves the invariant.
LEMMA StepInv == Inv /\ [Next]_vars => Inv'
<1> SUFFICES ASSUME Inv, [Next]_vars PROVE Inv'
  OBVIOUS
<1>0. Monotone
  BY StepMonotone
<1>1. CASE Tick
  BY <1>0, <1>1, QuietKeeps DEF Tick, Inv, TypeOK, device, pairing, event, phone
<1>2. ASSUME NEW e \in Events, NEW d \in Devices, NEW k \in Kinds,
             NEW posted \in {0} \cup clock..(clock + MaxSkew), NEW late \in 0..1,
             Notify(e, d, k, posted, late)
      PROVE  Inv'
  <2>1. clock \in Nat /\ MaxSkew \in Nat
    BY RelayAssumption DEF Inv, TypeOK, RelayAssumption
  <2>2. posted \in Nat /\ posted - late \in Nat
    BY <1>2, <2>1 DEF Notify
  <2>3. k \in {"credit", "unclear", "noise"}
    BY RelayAssumption DEF RelayAssumption
  <2>4. [device |-> d, kind |-> k, posted |-> posted, occurred |-> posted - late]
          \in Notification
    BY <2>2, <2>3 DEF Notification
  <2>5. notification' \in [Events -> Notification \cup {Null}]
    BY <1>2, <2>4 DEF Notify, Inv, TypeOK
  <2>6. UNCHANGED <<clock, device, pairing, event, answers, req, faults>>
    BY <1>2 DEF Notify
  <2>7. QED
    BY <1>0, <2>5, <2>6, QuietKeeps DEF Inv, TypeOK, device, pairing, event
<1>3. CASE Deliver
  BY <1>3, VerifyKeeps DEF Deliver
<1>4. ASSUME NEW r \in Requests, Reject(r)
      PROVE  Inv'
  BY <1>0, <1>4, QuietKeeps DEF Reject, Inv, TypeOK, device, pairing, event, phone
<1>5. ASSUME NEW r \in Requests, Fail(r)
      PROVE  Inv'
  BY <1>0, <1>5, QuietKeeps DEF Fail, Inv, TypeOK, device, pairing, event, phone
<1>6. CASE Crash
  BY <1>0, <1>6, QuietKeeps DEF Crash, Inv, TypeOK, device, pairing, event, phone
<1>7. ASSUME NEW e \in Events, Redact(e)
      PROVE  Inv'
  <2>1. row' \in [Events -> RowStatuses]
    BY <1>7 DEF Redact, Inv, TypeOK, RowStatuses
  <2>2. UNCHANGED <<clock, device, pairing, receivedAt, verdict, observations, phone,
                    req, faults>>
    BY <1>7 DEF Redact
  <2>3. QED
    BY <1>0, <2>1, <2>2, QuietKeeps DEF Inv, TypeOK, device, pairing, phone
<1>8. ASSUME NEW r \in Requests, Handle(r)
      PROVE  Inv'
  BY <1>0, <1>4, <1>8, AcceptNewKeeps, AcceptKnownKeeps, FinishKeeps, ObserveKeeps,
     RefuseKeeps, RespondKeeps DEF Handle
<1>9. CASE UNCHANGED vars
  BY <1>0, <1>9, QuietKeeps DEF vars, Inv, TypeOK, device, pairing, event, phone
<1>10. QED
  BY <1>0, <1>1, <1>2, <1>3, <1>5, <1>6, <1>7, <1>8, <1>9, PairingKeeps DEF Next

\* The invariant holds in every reachable state.
LEMMA AlwaysInv == Spec => []Inv
BY InitInv, StepInv, PTL DEF Spec

\* Every variable of the relay has its type.
THEOREM RelayTypeCorrect == Spec => []TypeOK
<1>1. Inv => TypeOK
  BY DEF Inv
<1>2. QED
  BY <1>1, AlwaysInv, PTL

\* A phone forgets an event on a 2xx answer, and an answered event is decided,
\* whatever handlers, crashes, pairings and the retention worker interleave.
THEOREM NothingForgottenUndecided == Spec => []AnsweredIsDecided
<1>1. Inv => AnsweredIsDecided
  BY DEF Inv
<1>2. QED
  BY <1>1, AlwaysInv, PTL

\* An answer other than "ignored" is the outcome the server has stored.
THEOREM AnswersAreStored == Spec => []AnswersAreOutcomes
<1>1. Inv => AnswersAreOutcomes
  BY DEF Inv
<1>2. QED
  BY <1>1, AlwaysInv, PTL

\* A decided event is never decided again: by no repeated request, retention
\* worker or overtaken handler.
THEOREM DecisionsAreFinal == Spec => VerdictsFinal
<1>1. Monotone => \A e \in Events : Decided(e) =>
                    UNCHANGED <<row[e], verdict[e], observations[e]>>
  BY DEF Monotone
<1>2. QED
  BY <1>1, AlwaysInv, StepMonotone, PTL DEF Spec, VerdictsFinal

\* "Revocation or re-pairing wins before an in-flight phone write can commit":
\* an observation is committed only while the device that notified the event is
\* enrolled, under an enrolment that is not younger than the credit.
THEOREM EnrolmentDecides == Spec => EnrolmentWins
<1> DEFINE Wins == \A e \in Events : observations'[e] # observations[e] =>
                     LET n == notification[e]
                     IN enabled[n.device] /\ epoch[n.device] <= n.occurred
<1>1. ASSUME Inv, [Next]_vars
      PROVE  [Wins]_vars
  <2>1. ASSUME NEW r \in Requests, Observe(r)
        PROVE  Wins
    <3>1. PICK q \in Request : q = req[r] /\ Follows(q) /\ q.left # <<>>
      BY <1>1, <2>1, Deciding, UnderWay DEF Observe
    <3>2. /\ notification[Head(q.left)].device = q.device
          /\ Head(q.left) \in Events
      BY <1>1, <3>1, CurrentEvent, CurrentItem
    <3>3. /\ enabled[q.device] /\ epoch[q.device] = q.epoch
          /\ q.epoch <= notification[Head(q.left)].occurred
      BY <2>1, <3>1 DEF Observe, Authorised, Credit
    <3>4. observations' = [observations EXCEPT ![Head(q.left)] = observations[Head(q.left)] + 1]
      BY <2>1, <3>1 DEF Observe
    <3>5. \A e \in Events : observations'[e] # observations[e] => e = Head(q.left)
      BY <1>1, <3>4 DEF Inv, TypeOK
    <3>6. QED
      BY <3>2, <3>3, <3>5
  <2>2. ASSUME NEW r \in Requests, Handle(r) \/ Fail(r)
        PROVE  Observe(r) \/ UNCHANGED observations
    BY <2>2 DEF Handle, AcceptNew, AcceptKnown, Reject, IgnoreEvent, MarkAmbiguous,
                Refuse, Respond, Fail, event
  <2>3. CASE UNCHANGED observations
    BY <2>3
  <2>4. Next => UNCHANGED observations \/ \E r \in Requests : Observe(r)
    BY <2>2 DEF Next, Tick, CreatePairing, Pair, RevokeDevice, Notify, Deliver, Verify,
                Crash, Redact, event
  <2>5. QED
    BY <1>1, <2>1, <2>3, <2>4
<1>2. Spec => [][Wins]_vars
  BY <1>1, AlwaysInv, PTL DEF Spec
<1>3. QED
  BY <1>2 DEF EnrolmentWins

\* Every pairing begins an epoch the device never had before, whatever the
\* clocks of the pairings that commit.
THEOREM EpochsAlwaysGrow == Spec => EpochsGrow
<1> DEFINE Grow == \A t \in Tokens : token[t] = "open" /\ token'[t] = "used" =>
                     \E d \in Devices : epoch'[d] > epoch[d]
<1>1. ASSUME Inv, [Next]_vars
      PROVE  [Grow]_vars
  <2>1. ASSUME NEW t \in Tokens, NEW d \in Devices, NEW now \in (clock - MaxLag)..clock,
               Pair(t, d, now)
        PROVE  Grow
    <3>1. epoch[d] \in Nat /\ now \in Int
      BY <1>1, RelayAssumption DEF Inv, TypeOK, RelayAssumption
    <3>2. epoch'[d] = NextEpoch(d, now)
      BY <1>1, <2>1 DEF Pair, Inv, TypeOK
    <3>3. epoch'[d] > epoch[d]
      BY <3>1, <3>2 DEF NextEpoch
    <3>4. QED
      BY <3>3
  <2>2. ASSUME NEW t \in Tokens, CreatePairing(t)
        PROVE  Grow
    BY <1>1, <2>2 DEF CreatePairing, Inv, TypeOK
  <2>3. ASSUME NEW r \in Requests, Handle(r) \/ Fail(r)
        PROVE  UNCHANGED token
    BY <2>3 DEF Handle, AcceptNew, AcceptKnown, Reject, IgnoreEvent, MarkAmbiguous,
                Observe, Refuse, Respond, Fail, pairing
  <2>4. CASE UNCHANGED token
    BY <2>4
  <2>5. Next => \/ UNCHANGED token
                \/ \E t \in Tokens : CreatePairing(t)
                \/ \E t \in Tokens, d \in Devices, now \in (clock - MaxLag)..clock :
                     Pair(t, d, now)
    BY <2>3 DEF Next, Tick, RevokeDevice, Notify, Deliver, Verify, Crash, Redact, pairing
  <2>6. QED
    BY <1>1, <2>1, <2>2, <2>4, <2>5
<1>2. Spec => [][Grow]_vars
  BY <1>1, AlwaysInv, PTL DEF Spec
<1>3. QED
  BY <1>2 DEF EpochsGrow

---------------------------------------------------------------------------
(* The relay implements the register of events.                            *)

\* A step that writes neither rows nor answers is one of phones only.
LEMMA PhonesEntitle ==
  ASSUME UNCHANGED <<row, verdict, answers>>
  PROVE  [Register!Next]_<<row, verdict, Entitled, answers>>
<1>1. Entitled' \subseteq Events
  BY DEF Entitled
<1>2. Register!Entitle
  BY <1>1 DEF Register!Entitle
<1>3. QED
  BY <1>2 DEF Register!Next

\* A handler or the retention worker that writes a status nobody judged
\* dismisses the event, or leaves it alone if it was overtaken.
LEMMA WritesDismiss ==
  ASSUME Inv, NEW e \in Events, NEW st \in {"ignored", "ambiguous"},
         \/ ~Decided(e) /\ row' = [row EXCEPT ![e] = st]
         \/ row[e] # "none" /\ row' = [row EXCEPT ![e] = Finished(e, st)],
         UNCHANGED <<verdict, answers, device, notification>>
  PROVE  [Register!Next]_<<row, verdict, Entitled, answers>>
<1>1. Entitled' = Entitled
  BY DEF Entitled, device
<1>2. row \in [Events -> RowStatuses]
  BY DEF Inv, TypeOK
<1>3. \/ ~Decided(e) /\ row' = [row EXCEPT ![e] = st]
      \/ row' = row
  BY <1>2 DEF Decided, Finished
<1>4. ASSUME ~Decided(e), row' = [row EXCEPT ![e] = st]
      PROVE  Register!Dismiss(e, st)
  BY <1>1, <1>4 DEF Register!Dismiss, Register!Settled, Decided
<1>5. QED
  BY <1>1, <1>3, <1>4 DEF Register!Next

\* acceptEvent receives a new event, or dismisses it as older than the enrolment.
LEMMA AcceptReceives ==
  ASSUME Inv, NEW r \in Requests, AcceptNew(r)
  PROVE  [Register!Next]_<<row, verdict, Entitled, answers>>
<1>1. PICK q \in Request : q = req[r] /\ Follows(q) /\ q.left # <<>>
  BY UnderWay DEF AcceptNew, At
<1>2. PICK e \in Events : e = Head(q.left)
  BY <1>1, CurrentItem
<1>3. /\ row[e] = "none" /\ UNCHANGED <<verdict, answers, device, notification>>
      /\ \/ row' = [row EXCEPT ![e] = "ignored"]
         \/ row' = [row EXCEPT ![e] = "received"]
  BY <1>1, <1>2 DEF AcceptNew, device, phone
<1>4. CASE row' = [row EXCEPT ![e] = "ignored"]
  BY <1>3, <1>4, WritesDismiss DEF Decided
<1>5. CASE row' = [row EXCEPT ![e] = "received"]
  <2>1. Entitled' = Entitled
    BY <1>3 DEF Entitled, device
  <2>2. Register!Receive(e)
    BY <1>3, <1>5, <2>1 DEF Register!Receive
  <2>3. QED
    BY <2>2 DEF Register!Next
<1>6. QED
  BY <1>3, <1>4, <1>5

\* A credit is judged under the enrolment its request was verified with, which
\* is the phone's own and began before the credit occurred.
LEMMA ObserveJudges ==
  ASSUME Inv, NEW r \in Requests, Observe(r)
  PROVE  Register!Next
<1>1. PICK q \in Request : q = req[r] /\ Follows(q) /\ q.left # <<>>
  BY Deciding, UnderWay DEF Observe
<1>2. PICK e \in Events : e = Head(q.left)
  BY <1>1, CurrentItem
<1>3. notification[e] \in Notification /\ notification[e].device = q.device
  BY <1>1, <1>2, CurrentEvent
<1>4. /\ enabled[q.device] /\ epoch[q.device] = q.epoch
      /\ q.epoch <= notification[e].occurred
  BY <1>1, <1>2 DEF Observe, Authorised, Credit
<1>5. notification[e] # Null
  BY <1>3, SentinelAssumption DEF SentinelAssumption
<1>6. e \in Entitled /\ Entitled' = Entitled
  BY <1>3, <1>4, <1>5 DEF Entitled, Observe, device, phone
<1>7. PICK m \in MatchResults : /\ row' = [row EXCEPT ![e] = Stored(m)]
                                /\ verdict' = [verdict EXCEPT ![e] = m]
  BY <1>1, <1>2 DEF Observe
<1>8. row[e] = "received" /\ UNCHANGED answers
  BY <1>1, <1>2 DEF Observe, phone
<1>9. Register!Judge(e, m)
  BY <1>6, <1>7, <1>8 DEF Register!Judge, Stored
<1>10. QED
  BY <1>9 DEF Register!Next

\* The answers a 200 carries are outcomes of decided events, or "ignored".
LEMMA RespondTells ==
  ASSUME Inv, Inv', NEW r \in Requests, Respond(r)
  PROVE  Register!Next
<1>1. UNCHANGED <<row, verdict, device, notification>>
  BY DEF Respond, event
<1>2. Entitled' = Entitled
  BY <1>1 DEF Entitled, device
<1>3. answers' \in [Events -> SUBSET (MatchResults \cup {"ignored"})]
  BY DEF Inv, TypeOK, AnswerSet
<1>4. ASSUME NEW e \in Events
      PROVE  /\ answers[e] \subseteq answers'[e]
             /\ answers'[e] \subseteq {"ignored", Register!Outcome(e)}
             /\ answers'[e] # answers[e] => Register!Settled(e)
  <2>1. answers[e] \subseteq answers'[e]
    BY DEF Respond
  <2>2. answers'[e] \subseteq {"ignored", Outcome(e)}
    BY <1>1 DEF Inv, AnswersAreOutcomes, Outcome
  <2>3. answers'[e] # {} => Decided(e)
    BY <1>1 DEF Inv, AnsweredIsDecided, Decided
  <2>4. QED
    BY <2>1, <2>2, <2>3 DEF Register!Outcome, Register!Settled, Outcome, Decided
<1>5. Register!Tell
  BY <1>1, <1>2, <1>3, <1>4 DEF Register!Tell
<1>6. QED
  BY <1>5 DEF Register!Next

\* Every step of phones, handlers, the retention worker and the operator is a
\* step of the register of events, or leaves it alone.
THEOREM RelayImplementsEvents == Spec => ImplementsEvents
<1>1. Init => Register!Init
  BY SentinelAssumption DEF Init, Register!Init, Entitled
<1>2. Inv /\ Inv' /\ [Next]_vars => [Register!Next]_<<row, verdict, Entitled, answers>>
  <2> SUFFICES ASSUME Inv, Inv', [Next]_vars
               PROVE  [Register!Next]_<<row, verdict, Entitled, answers>>
    OBVIOUS
  <2>1. CASE UNCHANGED <<row, verdict, answers>>
    BY <2>1, PhonesEntitle
  <2>2. ASSUME NEW r \in Requests, IgnoreEvent(r) \/ MarkAmbiguous(r)
        PROVE  [Register!Next]_<<row, verdict, Entitled, answers>>
    <3>1. PICK e \in Events : e = Head(req[r].left) /\ row[e] # "none"
      BY <2>2, Deciding DEF IgnoreEvent, MarkAmbiguous
    <3>2. /\ \E st \in {"ignored", "ambiguous"} : row' = [row EXCEPT ![e] = Finished(e, st)]
          /\ UNCHANGED <<verdict, answers, device, notification>>
      BY <2>2, <3>1 DEF IgnoreEvent, MarkAmbiguous, device, phone
    <3>3. QED
      BY <3>1, <3>2, WritesDismiss
  <2>3. ASSUME NEW e \in Events, Redact(e)
        PROVE  [Register!Next]_<<row, verdict, Entitled, answers>>
    BY <2>3, WritesDismiss DEF Redact, Decided, device, phone
  <2>4. ASSUME NEW r \in Requests, Handle(r)
        PROVE  [Register!Next]_<<row, verdict, Entitled, answers>>
    <3>1. CASE AcceptKnown(r) \/ Reject(r) \/ Refuse(r)
      BY <2>1, <3>1 DEF AcceptKnown, Reject, Refuse, event, phone
    <3>2. QED
      BY <2>2, <2>4, <3>1, AcceptReceives, ObserveJudges, RespondTells DEF Handle
  <2>5. QED
    BY <2>1, <2>3, <2>4
    DEF Next, vars, Tick, CreatePairing, Pair, RevokeDevice, Notify, Deliver, Verify,
        Fail, Crash, event, phone
<1>3. QED
  BY <1>1, <1>2, AlwaysInv, PTL DEF Spec, ImplementsEvents, Register!Spec
=============================================================================
