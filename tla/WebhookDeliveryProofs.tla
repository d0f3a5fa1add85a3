------------------------ MODULE WebhookDeliveryProofs ------------------------
(***************************************************************************)
(* What holds of the webhook worker and its settings for every number of   *)
(* deliveries and operators, every batch size and attempt limit, and any   *)
(* number of crashes, lost writes and retries.                             *)
(***************************************************************************)
EXTENDS WebhookDelivery, FiniteSetTheorems, SequenceTheorems, TLAPS

---------------------------------------------------------------------------
(* Type correctness.  A delivery that is posted or answered heads the      *)
(* batch, and only finitely many rows have been queued.                    *)

InFlight == worker \in {"posting", "answered"}

Typed == /\ TypeOK
         /\ InFlight => todo # <<>>
         /\ IsFiniteSet(queued)

\* The head of a batch is a delivery and its tail is a batch.
LEMMA BatchType ==
  ASSUME Typed, todo # <<>>
  PROVE  Head(todo) \in Deliveries /\ Tail(todo) \in Seq(Deliveries)
BY DEF Typed, TypeOK

\* A delivery's counter counts one more or stays.
LEMMA CountType ==
  ASSUME NEW f \in [Deliveries -> Nat], NEW d \in Deliveries, NEW n,
         n = f[d] + 1 \/ n = f[d]
  PROVE  [f EXCEPT ![d] = n] \in [Deliveries -> Nat]
OBVIOUS

\* A listed batch is a sequence of deliveries no longer than BatchSize.
LEMMA ListedType ==
  ASSUME Typed, NEW n \in 1..Cardinality(Due), NEW s \in [1..n -> Due], Listed(s)
  PROVE  s \in Seq(Deliveries) /\ Len(s) <= BatchSize
<1>1. Due \subseteq Deliveries /\ IsFiniteSet(Due)
  BY FS_Subset DEF Due, Typed, TypeOK
<1>2. Cardinality(Due) \in Nat
  BY <1>1, FS_CardinalityType
<1>3. n \in Nat /\ BatchSize \in Nat
  BY <1>2, DeliveryAssumption DEF DeliveryAssumption
<1>4. s \in Seq(Deliveries) /\ Len(s) = n
  BY <1>1, <1>3
<1>5. Len(s) = IF Cardinality(Due) < BatchSize THEN Cardinality(Due) ELSE BatchSize
  BY DEF Listed
<1>6. QED
  BY <1>2, <1>3, <1>4, <1>5

\* A fresh database and the environment's configuration are well typed.
LEMMA InitTyped == Init => Typed
<1> SUFFICES ASSUME Init PROVE Typed
  OBVIOUS
<1>1. Env \in Configs \cup {Off}
  BY DeliveryAssumption DEF Env, Configs, DeliveryAssumption
<1>2. todo \in Seq(Deliveries)
  BY DEF Init
<1>3. MaxSecrets \in Nat
  BY DeliveryAssumption DEF DeliveryAssumption
<1>4. IsFiniteSet(queued)
  BY FS_EmptySet DEF Init
<1>5. /\ status \in [Deliveries -> Waiting \cup {"delivered", "exhausted"}]
      /\ next \in [Deliveries -> {"null", "past", "since", "future"}]
      /\ attempts \in [Deliveries -> Nat] /\ claims \in [Deliveries -> Nat]
      /\ accepted \in [Deliveries -> Nat] /\ unlearned \in [Deliveries -> Nat]
  BY DEF Init, Waiting
<1>6. caller \in [Callers -> [step : {"store", "apply"}, cfg : Configs \cup {Off}]
                               \cup {Idle}]
  BY DEF Init
<1>7. ~InFlight /\ worker \in {"idle", "batch", "posting", "answered"}
  BY DEF Init, InFlight
<1>8. /\ using \in Configs \cup {Off} /\ saved \in Configs \cup {Off}
      /\ live \in Configs \cup {Off}
  BY <1>1 DEF Init
<1>9. /\ minted \in 0..MaxSecrets /\ flight \in Nat /\ stale \in Nat
      /\ crashes \in Nat /\ retries \in Nat /\ lostWrites \in Nat
  BY <1>3 DEF Init
<1>10. /\ overlapped \in BOOLEAN /\ answer \in Answers
       /\ queued \subseteq Deliveries /\ refused \subseteq Deliveries
  BY DEF Init, Answers
<1>11. QED
  BY <1>2, <1>4, <1>5, <1>6, <1>7, <1>8, <1>9, <1>10 DEF Typed, TypeOK

\* The steps of SendPending write well-typed rows and memory.
LEMMA WorkTyped == ASSUME Typed, Work \/ FinishLost PROVE Typed'
<1>1. CASE Start
  <2>1. todo' \in Seq(Deliveries)
    BY <1>1, ListedType DEF Start
  <2>2. next' \in [Deliveries -> {"null", "past", "since", "future"}]
    BY <1>1 DEF Start, Typed, TypeOK
  <2>3. QED
    BY <1>1, <2>1, <2>2 DEF Start, Typed, TypeOK, InFlight, settings, bounds, ghosts
<1>2. CASE Claim
  <2>1. Head(todo) \in Deliveries
    BY <1>2, BatchType DEF Claim
  <2>2. next' \in [Deliveries -> {"null", "past", "since", "future"}]
    BY <1>2, <2>1 DEF Claim, Typed, TypeOK
  <2>3. /\ attempts' \in [Deliveries -> Nat] /\ claims' \in [Deliveries -> Nat]
        /\ flight' \in Nat
    <3>1. /\ attempts' = [attempts EXCEPT ![Head(todo)] = attempts[Head(todo)] + 1]
          /\ claims' = [claims EXCEPT ![Head(todo)] = claims[Head(todo)] + 1]
          /\ flight' = attempts[Head(todo)] + 1
      BY <1>2 DEF Claim
    <3>2. attempts \in [Deliveries -> Nat] /\ claims \in [Deliveries -> Nat]
      BY DEF Typed, TypeOK
    <3>3. attempts[Head(todo)] \in Nat
      BY <2>1, <3>2
    <3>4. QED
      BY <2>1, <3>1, <3>2, <3>3, CountType
  <2>4. QED
    BY <1>2, <2>1, <2>2, <2>3 DEF Claim, Typed, TypeOK, InFlight, settings, bounds
<1>3. CASE Skip
  <2>1. Tail(todo) \in Seq(Deliveries)
    BY <1>3, BatchType DEF Skip
  <2>2. QED
    BY <1>3, <2>1 DEF Skip, Typed, TypeOK, InFlight, row, settings, bounds, ghosts
<1>4. CASE EndBatch
  BY <1>4 DEF EndBatch, Typed, TypeOK, InFlight, row, settings, bounds, ghosts
<1>5. ASSUME NEW a \in Answers \ {"none"}, Post(a)
      PROVE  Typed'
  <2>1. Head(todo) \in Deliveries
    BY <1>5, BatchType DEF Post, Typed, InFlight
  <2>2. stale' \in Nat
    BY <1>5 DEF Post, Typed, TypeOK
  <2>3. refused' \subseteq Deliveries
    BY <1>5, <2>1 DEF Post, Typed, TypeOK
  <2>4. accepted' \in [Deliveries -> Nat] /\ unlearned' \in [Deliveries -> Nat]
    BY <1>5, <2>1, CountType DEF Post, Typed, TypeOK
  <2>5. QED
    BY <1>5, <2>2, <2>3, <2>4
    DEF Post, Typed, TypeOK, InFlight, row, settings, bounds
<1>6. CASE Finish
  <2>1. Head(todo) \in Deliveries /\ Tail(todo) \in Seq(Deliveries)
    BY <1>6, BatchType DEF Finish, Typed, InFlight
  <2>2. Finished \in Waiting \cup {"delivered", "exhausted"}
    BY DEF Finished, Waiting
  <2>3. QED
    BY <1>6, <2>1, <2>2
    DEF Finish, Typed, TypeOK, InFlight, Answers, settings, bounds, ghosts
<1>7. CASE FinishLost
  <2>1. Head(todo) \in Deliveries /\ Tail(todo) \in Seq(Deliveries)
    BY <1>7, BatchType DEF FinishLost, Typed, InFlight
  <2>2. unlearned' \in [Deliveries -> Nat]
    BY <1>7, <2>1, CountType DEF FinishLost, Typed, TypeOK
  <2>3. ~InFlight' /\ answer' \in Answers /\ lostWrites' \in Nat /\ flight' \in Nat
    BY <1>7 DEF FinishLost, Typed, TypeOK, InFlight, Answers
  <2>4. QED
    BY <1>7, <2>1, <2>2, <2>3 DEF FinishLost, Typed, TypeOK, row, settings
<1>8. QED
  BY <1>1, <1>2, <1>3, <1>4, <1>5, <1>6, <1>7 DEF Work

\* A settings request reads and writes well-typed configurations.
LEMMA SettingsTyped == ASSUME Typed, NEW c \in Callers, SettingsStep(c) PROVE Typed'
<1>0. MaxSecrets \in Nat
  BY DeliveryAssumption DEF DeliveryAssumption
<1> DEFINE Calling == [step : {"store", "apply"}, cfg : Configs \cup {Off}]
<1>1. Active(c) => caller[c] \in Calling
  BY DEF Active, Typed, TypeOK
<1>2. ASSUME NEW e \in Endpoints, NEW r \in BOOLEAN, Load(c, e, r)
      PROVE  Typed'
  <2> DEFINE fresh == saved = Off \/ r
  <2> DEFINE cfg == [endpoint |-> e, secret |-> IF fresh THEN minted + 1 ELSE saved.secret]
  <2>1. minted' \in 0..MaxSecrets
    BY <1>0, <1>2 DEF Load, Typed, TypeOK
  <2>2. (IF fresh THEN minted + 1 ELSE saved.secret) \in 0..MaxSecrets
    BY <1>0, <1>2 DEF Load, Typed, TypeOK, Configs
  <2>3. cfg \in Configs
    BY <2>2 DEF Configs
  <2>4. caller' = [caller EXCEPT ![c] = [step |-> "store", cfg |-> cfg]]
    BY <1>2 DEF Load
  <2> HIDE DEF cfg
  <2>5. caller' \in [Callers -> Calling \cup {Idle}]
    BY <2>3, <2>4 DEF Typed, TypeOK
  <2>6. overlapped' \in BOOLEAN
    BY <1>2 DEF Load, Typed, TypeOK
  <2>7. QED
    BY <1>2, <2>1, <2>5, <2>6
    DEF Load, Typed, TypeOK, InFlight, row, batch, bounds, ghosts
<1>3. CASE Disable(c)
  <2>1. overlapped' \in BOOLEAN
    BY <1>3 DEF Disable, Typed, TypeOK
  <2>2. caller' \in [Callers -> Calling \cup {Idle}]
    BY <1>3 DEF Disable, Typed, TypeOK
  <2>3. QED
    BY <1>3, <2>1, <2>2 DEF Disable, Typed, TypeOK, InFlight, row, batch, bounds, ghosts
<1>4. CASE Store(c)
  <2>1. [caller[c] EXCEPT !.step = "apply"] \in Calling /\ caller[c].cfg \in Configs \cup {Off}
    BY <1>1, <1>4 DEF Store
  <2>2. caller' \in [Callers -> Calling \cup {Idle}]
    BY <1>4, <2>1 DEF Store, Typed, TypeOK
  <2>3. QED
    BY <1>4, <2>1, <2>2 DEF Store, Typed, TypeOK, InFlight, row, batch, bounds, ghosts
<1>5. CASE Apply(c)
  <2>1. caller[c].cfg \in Configs \cup {Off}
    BY <1>1, <1>5 DEF Apply
  <2>2. stale' \in Nat
    BY <1>5 DEF Apply, Typed, TypeOK
  <2>3. QED
    BY <1>5, <2>1, <2>2 DEF Apply, Typed, TypeOK, InFlight, row, batch, bounds
<1>6. QED
  BY <1>2, <1>3, <1>4, <1>5 DEF SettingsStep

\* A restart loads a well-typed configuration.
LEMMA RestartTyped == ASSUME Typed, Restart PROVE Typed'
<1>1. Booted \in Configs \cup {Off}
  BY DeliveryAssumption DEF Booted, Env, Configs, DeliveryAssumption, Typed, TypeOK
<1>2. unlearned' \in [Deliveries -> Nat]
  <2>1. CASE worker = "answered" /\ answer = "ok"
    <3>1. Head(todo) \in Deliveries
      BY <2>1, BatchType DEF Typed, InFlight
    <3>2. QED
      BY <2>1, <3>1 DEF Restart, Typed, TypeOK
  <2>2. CASE ~(worker = "answered" /\ answer = "ok")
    BY <2>2 DEF Restart, Typed, TypeOK
  <2>3. QED
    BY <2>1, <2>2
<1>3. todo' \in Seq(Deliveries)
  BY DEF Restart
<1>4. /\ ~InFlight' /\ worker' \in {"idle", "batch", "posting", "answered"}
      /\ answer' \in Answers /\ flight' \in Nat /\ stale' \in Nat /\ crashes' \in Nat
  BY DEF Restart, Typed, TypeOK, InFlight, Answers
<1>5. caller' \in [Callers -> [step : {"store", "apply"}, cfg : Configs \cup {Off}]
                                \cup {Idle}]
  BY DEF Restart
<1>6. using' \in Configs \cup {Off} /\ saved' = Booted /\ live' = Booted
  BY DEF Restart, Applied
<1>7. UNCHANGED <<row, minted, overlapped, retries, lostWrites, claims, accepted, refused>>
  BY DEF Restart
<1>8. QED
  BY <1>1, <1>2, <1>3, <1>4, <1>5, <1>6, <1>7 DEF Typed, TypeOK, row

\* Every step writes well-typed values.
LEMMA StepTyped == Typed /\ [Next]_vars => Typed'
<1> SUFFICES ASSUME Typed, [Next]_vars PROVE Typed'
  OBVIOUS
<1>1. ASSUME NEW d \in Deliveries, Enqueue(d)
      PROVE  Typed'
  <2>1. IsFiniteSet(queued')
    BY <1>1, FS_AddElement DEF Enqueue, Typed
  <2>2. QED
    BY <1>1, <2>1
    DEF Enqueue, Typed, TypeOK, InFlight, batch, settings, bounds, ghosts
<1>2. ASSUME NEW d \in Deliveries, Elapse(d)
      PROVE  Typed'
  BY <1>2 DEF Elapse, Typed, TypeOK, InFlight, batch, settings, bounds, ghosts
<1>3. ASSUME NEW d \in Deliveries, RetryOne(d)
      PROVE  Typed'
  BY <1>3 DEF RetryOne, Typed, TypeOK, InFlight, Waiting, batch, settings, ghosts
<1>4. CASE UNCHANGED vars
  BY <1>4 DEF vars, Typed, TypeOK, InFlight, row, batch, settings, bounds, ghosts
<1>5. QED
  BY <1>1, <1>2, <1>3, <1>4, WorkTyped, SettingsTyped, RestartTyped DEF Next

\* Every variable of the worker and its settings has its type.
THEOREM DeliveryTypeCorrect == Spec => []TypeOK
<1>1. Typed => TypeOK
  BY DEF Typed
<1>2. QED
  BY <1>1, InitTyped, StepTyped, PTL DEF Spec

---------------------------------------------------------------------------
(* What is recorded about a delivery, and the steps that record it.        *)

outcome == <<status, attempts, worker, todo, flight, answer, bounds,
             claims, accepted, unlearned, refused>>

\* New rows, passing time and settings requests leave every outcome alone.
LEMMA OutcomeWriters ==
  ASSUME [Next]_vars
  PROVE  \/ UNCHANGED outcome
         \/ Start \/ Claim \/ Skip \/ EndBatch \/ Finish \/ FinishLost \/ Restart
         \/ \E a \in Answers \ {"none"} : Post(a)
         \/ \E d \in Deliveries : RetryOne(d)
<1>1. CASE UNCHANGED vars
  BY <1>1 DEF vars, row, batch, ghosts, outcome
<1>2. ASSUME NEW d \in Deliveries, Enqueue(d) \/ Elapse(d)
      PROVE  UNCHANGED outcome
  BY <1>2 DEF Enqueue, Elapse, batch, ghosts, outcome
<1>3. ASSUME NEW c \in Callers, SettingsStep(c)
      PROVE  UNCHANGED outcome
  BY <1>3 DEF SettingsStep, Load, Disable, Store, Apply, row, batch, ghosts, outcome
<1>4. QED
  BY <1>1, <1>2, <1>3 DEF Next, Work

---------------------------------------------------------------------------
(* Honest outcomes.  Attempts are claims since the last retry, and an      *)
(* answer not yet recorded is already known to the endpoint.               *)

Settled ==
  /\ SettledHonestly
  /\ \A d \in Deliveries : attempts[d] <= claims[d]
  /\ InFlight => flight <= claims[Head(todo)]
  /\ worker = "answered" /\ answer = "ok" => accepted[Head(todo)] > 0
  /\ worker = "answered" /\ answer = "permanent" => Head(todo) \in refused

\* No step reports what did not happen.
LEMMA StepSettled == Typed /\ Settled /\ [Next]_vars => Settled'
<1> SUFFICES ASSUME Typed, Settled, [Next]_vars PROVE Settled'
  OBVIOUS
<1>0. /\ status \in [Deliveries -> Waiting \cup {"delivered", "exhausted"}]
      /\ attempts \in [Deliveries -> Nat] /\ claims \in [Deliveries -> Nat]
      /\ accepted \in [Deliveries -> Nat] /\ unlearned \in [Deliveries -> Nat]
      /\ refused \subseteq Deliveries /\ flight \in Nat /\ MaxAttempts \in Nat
  BY DeliveryAssumption DEF Typed, TypeOK, DeliveryAssumption
<1>1. CASE UNCHANGED outcome
  BY <1>1 DEF outcome, Settled, SettledHonestly, InFlight
<1>2. CASE Start \/ Skip \/ EndBatch
  <2>1. ~InFlight'
    BY <1>2 DEF Start, Skip, EndBatch, InFlight
  <2>2. UNCHANGED <<status, attempts, claims, accepted, refused>>
    BY <1>2 DEF Start, Skip, EndBatch, row, ghosts
  <2>3. QED
    BY <2>1, <2>2 DEF Settled, SettledHonestly, InFlight
<1>3. CASE Claim
  <2> DEFINE h == Head(todo)
  <2>1. h \in Deliveries
    BY <1>3, BatchType DEF Claim
  <2>2. /\ attempts' = [attempts EXCEPT ![h] = attempts[h] + 1]
        /\ claims' = [claims EXCEPT ![h] = claims[h] + 1]
        /\ flight' = attempts[h] + 1 /\ worker' = "posting"
        /\ UNCHANGED <<status, todo, accepted, refused>>
    BY <1>3 DEF Claim
  <2> HIDE DEF h
  <2>3. /\ \A d \in Deliveries : attempts[d] \in Nat /\ claims[d] \in Nat /\ claims'[d] \in Nat
        /\ \A d \in Deliveries : attempts[d] <= claims[d]
    BY <1>0, <2>1, <2>2 DEF Settled
  <2>4. \A d \in Deliveries : claims'[d] >= claims[d] /\ attempts'[d] <= claims'[d]
    BY <1>0, <2>1, <2>2, <2>3
  <2>5. SettledHonestly'
    BY <1>0, <2>2, <2>3, <2>4 DEF Settled, SettledHonestly
  <2>6. flight' <= claims'[h]
    BY <1>0, <2>1, <2>2, <2>3
  <2>7. QED
    BY <2>2, <2>4, <2>5, <2>6 DEF Settled, InFlight, h
<1>4. ASSUME NEW a \in Answers \ {"none"}, Post(a)
      PROVE  Settled'
  <2> DEFINE h == Head(todo)
  <2>1. h \in Deliveries
    BY <1>4, BatchType DEF Post, InFlight, Typed
  <2>2. /\ worker = "posting" /\ answer' = a
        /\ UNCHANGED <<status, attempts, claims, flight, todo>>
    BY <1>4 DEF Post, row
  <2>3. accepted' = [accepted EXCEPT ![h] = IF a \in {"ok", "lost"} THEN accepted[h] + 1
                                            ELSE accepted[h]]
    BY <1>4 DEF Post
  <2>4. a = "ok" => accepted'[h] > 0
    BY <1>0, <2>1, <2>3
  <2>5. refused \subseteq refused' /\ (a = "permanent" => h \in refused')
    BY <1>4 DEF Post
  <2> HIDE DEF h
  <2>6. SettledHonestly'
    <3>1. \A d \in Deliveries : accepted[d] > 0 => accepted'[d] > 0
      BY <1>0, <2>1, <2>3
    <3>2. QED
      BY <2>2, <3>1, <2>5 DEF Settled, SettledHonestly
  <2>7. InFlight
    BY <2>2 DEF InFlight
  <2>8. QED
    BY <2>2, <2>4, <2>5, <2>6, <2>7 DEF Settled, InFlight, h
<1>5. CASE Finish
  <2> DEFINE h == Head(todo)
  <2>1. h \in Deliveries
    BY <1>5, BatchType DEF Finish, InFlight, Typed
  <2>2. /\ status' = [status EXCEPT ![h] = Finished]
        /\ ~InFlight' /\ worker' = "batch" /\ worker = "answered"
        /\ UNCHANGED <<attempts, claims, accepted, refused>>
    BY <1>5 DEF Finish, InFlight, ghosts
  <2>3. Finished = "delivered" => accepted[h] > 0
    BY <2>2 DEF Finished, Settled
  <2>4. Finished = "exhausted" => h \in refused \/ claims[h] >= MaxAttempts
    <3>1. flight <= claims[h] /\ claims[h] \in Nat
      BY <1>0, <2>1, <2>2 DEF Settled, InFlight
    <3>2. flight >= MaxAttempts => claims[h] >= MaxAttempts
      BY <1>0, <3>1
    <3>3. answer = "permanent" => h \in refused
      BY <2>2 DEF Settled
    <3>4. QED
      BY <3>2, <3>3 DEF Finished, GivesUp
  <2> HIDE DEF h
  <2>5. SettledHonestly'
    BY <1>0, <2>1, <2>2, <2>3, <2>4 DEF Settled, SettledHonestly
  <2>6. QED
    BY <2>2, <2>5 DEF Settled
<1>6. CASE FinishLost \/ Restart
  BY <1>6 DEF FinishLost, Restart, row, Settled, SettledHonestly, InFlight
<1>7. ASSUME NEW d \in Deliveries, RetryOne(d)
      PROVE  Settled'
  <2>1. /\ UNCHANGED <<worker, todo, flight, answer, claims, accepted, refused>>
        /\ status' = [status EXCEPT ![d] = "pending"]
        /\ attempts' = [attempts EXCEPT ![d] = 0]
    BY <1>7 DEF RetryOne, batch, ghosts
  <2>2. \A e \in Deliveries : attempts'[e] <= claims'[e]
    BY <1>0, <2>1 DEF Settled
  <2>3. SettledHonestly'
    BY <1>0, <2>1 DEF Settled, SettledHonestly
  <2>4. QED
    BY <2>1, <2>2, <2>3 DEF Settled, InFlight
<1>8. QED
  BY <1>1, <1>2, <1>3, <1>4, <1>5, <1>6, <1>7, OutcomeWriters

\* A delivery is reported delivered only if the endpoint took it, and given up
\* only after a permanent refusal or MaxAttempts claims.
THEOREM OutcomesHonest == Spec => []SettledHonestly
<1>1. Init => Settled
  <2> SUFFICES ASSUME Init PROVE Settled
    OBVIOUS
  <2>1. ~InFlight /\ worker # "answered" /\ \A d \in Deliveries :
          status[d] = "pending" /\ attempts[d] = 0 /\ claims[d] = 0
    BY DEF Init, InFlight
  <2>2. QED
    BY <2>1 DEF Settled, SettledHonestly
<1>2. Settled => SettledHonestly
  BY DEF Settled
<1>3. QED
  BY <1>1, <1>2, InitTyped, StepTyped, StepSettled, PTL DEF Spec

---------------------------------------------------------------------------
(* Duplicates.  While a row is still waiting, every acceptance of it but   *)
(* the one just answered is one the worker never learned of.               *)

Explained ==
  /\ InFlight => status[Head(todo)] \in Waiting
  /\ \A d \in Deliveries :
       /\ accepted[d] <= 1 + unlearned[d]
       /\ status[d] = "delivered" \/ Taken(d) \/ accepted[d] <= unlearned[d]

\* Only an acceptance that is then recorded is not counted as unlearned.
LEMMA StepExplained == Typed /\ Explained /\ [Next]_vars => Explained'
<1> SUFFICES ASSUME Typed, Explained, [Next]_vars PROVE Explained'
  OBVIOUS
<1>0. /\ status \in [Deliveries -> Waiting \cup {"delivered", "exhausted"}]
      /\ attempts \in [Deliveries -> Nat] /\ claims \in [Deliveries -> Nat]
      /\ accepted \in [Deliveries -> Nat] /\ unlearned \in [Deliveries -> Nat]
      /\ refused \subseteq Deliveries /\ flight \in Nat /\ MaxAttempts \in Nat
  BY DeliveryAssumption DEF Typed, TypeOK, DeliveryAssumption
<1>1. CASE UNCHANGED outcome
  BY <1>1 DEF outcome, Explained, Taken, InFlight
<1>2. CASE Start \/ Skip \/ EndBatch
  <2>1. ~InFlight' /\ worker' # "answered" /\ worker # "answered"
    BY <1>2 DEF Start, Skip, EndBatch, InFlight
  <2>2. UNCHANGED <<status, accepted, unlearned>>
    BY <1>2 DEF Start, Skip, EndBatch, row, ghosts
  <2>3. QED
    BY <2>1, <2>2 DEF Explained, Taken
<1>3. CASE Claim
  <2>1. /\ worker' # "answered" /\ worker # "answered"
        /\ status[Head(todo)] \in Waiting
        /\ UNCHANGED <<status, todo, accepted, unlearned>>
    BY <1>3 DEF Claim, Claimable
  <2>2. QED
    BY <2>1 DEF Explained, Taken
<1>4. ASSUME NEW a \in Answers \ {"none"}, Post(a)
      PROVE  Explained'
  <2>0. Head(todo) \in Deliveries /\ status[Head(todo)] \in Waiting
    BY <1>4, BatchType DEF Post, InFlight, Explained, Typed
  <2>1. PICK h \in Deliveries : h = Head(todo) /\ status[h] \in Waiting
    BY <2>0
  <2>2. /\ worker = "posting" /\ worker' = "answered" /\ answer' = a
        /\ UNCHANGED <<status, todo>>
    BY <1>4 DEF Post, row
  <2>3. /\ accepted' = [accepted EXCEPT ![h] = IF a \in {"ok", "lost"} THEN accepted[h] + 1
                                               ELSE accepted[h]]
        /\ unlearned' = [unlearned EXCEPT ![h] = IF a = "lost" THEN unlearned[h] + 1
                                                 ELSE unlearned[h]]
    BY <1>4, <2>1 DEF Post
  <2>4. ~Taken(h) /\ status[h] # "delivered"
    BY <2>1, <2>2 DEF Taken, Waiting
  <2>5. accepted[h] <= unlearned[h] /\ accepted[h] \in Nat /\ unlearned[h] \in Nat
    BY <1>0, <2>1, <2>4 DEF Explained
  <2>6. a = "ok" => Taken(h)'
    BY <2>1, <2>2 DEF Taken
  <2>7. \A d \in Deliveries \ {h} :
          accepted'[d] = accepted[d] /\ unlearned'[d] = unlearned[d] /\ ~Taken(d)
    BY <1>0, <2>1, <2>2, <2>3 DEF Taken
  <2>8. /\ accepted'[h] <= 1 + unlearned'[h]
        /\ a = "ok" \/ accepted'[h] <= unlearned'[h]
    BY <1>0, <2>1, <2>3, <2>5
  <2>9. \A d \in Deliveries \ {h} :
          /\ accepted'[d] <= 1 + unlearned'[d]
          /\ status'[d] = "delivered" \/ accepted'[d] <= unlearned'[d]
    BY <2>2, <2>7 DEF Explained
  <2>10. InFlight' => status'[Head(todo')] \in Waiting
    BY <2>1, <2>2
  <2>11. QED
    BY <2>6, <2>8, <2>9, <2>10 DEF Explained
<1>5. CASE Finish
  <2> DEFINE h == Head(todo)
  <2>1. h \in Deliveries /\ worker = "answered"
    BY <1>5, BatchType DEF Finish, InFlight, Typed
  <2>2. /\ status' = [status EXCEPT ![h] = Finished]
        /\ ~InFlight' /\ worker' # "answered"
        /\ UNCHANGED <<accepted, unlearned>>
    BY <1>5 DEF Finish, InFlight, ghosts
  <2>3. Taken(h) <=> answer = "ok"
    BY <2>1 DEF Taken
  <2>4. answer = "ok" => Finished = "delivered"
    BY DEF Finished
  <2>5. status[h] # "delivered"
    BY <2>1 DEF Explained, InFlight, Waiting
  <2>6. \A d \in Deliveries \ {h} : ~Taken(d)
    BY DEF Taken
  <2> HIDE DEF h
  <2>7. \A d \in Deliveries :
          /\ accepted'[d] <= 1 + unlearned'[d]
          /\ status'[d] = "delivered" \/ accepted'[d] <= unlearned'[d]
    BY <1>0, <2>1, <2>2, <2>3, <2>4, <2>5, <2>6 DEF Explained
  <2>8. QED
    BY <2>2, <2>7 DEF Explained
<1>6. CASE FinishLost \/ Restart
  <2>1. ~InFlight' /\ UNCHANGED <<status, accepted>>
    BY <1>6 DEF FinishLost, Restart, InFlight, row
  <2>2. \A d \in Deliveries :
          unlearned'[d] = IF Taken(d) THEN unlearned[d] + 1 ELSE unlearned[d]
    BY <1>0, <1>6 DEF FinishLost, Restart, Taken
  <2>3. \A d \in Deliveries : accepted[d] \in Nat /\ unlearned[d] \in Nat
    BY <1>0
  <2>4. \A d \in Deliveries :
          /\ accepted'[d] <= 1 + unlearned'[d]
          /\ status'[d] = "delivered" \/ accepted'[d] <= unlearned'[d]
    BY <2>1, <2>2, <2>3 DEF Explained
  <2>5. QED
    BY <2>1, <2>4 DEF Explained
<1>7. ASSUME NEW d \in Deliveries, RetryOne(d)
      PROVE  Explained'
  <2>1. /\ UNCHANGED <<worker, todo, answer, accepted, unlearned>>
        /\ status' = [status EXCEPT ![d] = "pending"] /\ status[d] # "delivered"
    BY <1>7 DEF RetryOne, Retryable, batch, ghosts
  <2>2. QED
    BY <1>0, <2>1 DEF Explained, Taken, InFlight, Waiting
<1>8. QED
  BY <1>1, <1>2, <1>3, <1>4, <1>5, <1>6, <1>7, OutcomeWriters

\* The endpoint takes an event a second time only if the worker never recorded
\* an earlier acceptance: a lost response, a crash or a failed write.
THEOREM DuplicatesHaveACause == Spec => []DuplicatesExplained
<1>1. Init => Explained
  BY DEF Init, Explained, Taken, InFlight
<1>2. Typed /\ Explained => DuplicatesExplained
  BY DEF Typed, TypeOK, Explained, DuplicatesExplained
<1>3. QED
  BY <1>1, <1>2, InitTyped, StepTyped, StepExplained, PTL DEF Spec

---------------------------------------------------------------------------
(* The queue a merchant relies on.  A batch is of rows that exist, and one *)
(* that does not exist has no outcome yet.                                 *)

Lined ==
  /\ todo \in Seq(queued)
  /\ \A d \in Deliveries : ~Queued(d) => status[d] = "pending"

\* A delivery in flight has its row, which waits.
LEMMA InFlightWaits ==
  ASSUME Typed, Explained, Lined, InFlight
  PROVE  Head(todo) \in Deliveries /\ Queued(Head(todo)) /\ status[Head(todo)] \in Waiting
<1>1. todo # <<>> /\ todo \in Seq(queued)
  BY DEF Typed, Lined
<1>2. Head(todo) \in queued
  BY <1>1
<1>3. QED
  BY <1>1, <1>2, BatchType DEF Explained, Queued

\* Batches are listed from the rows, and only rows that exist change.
LEMMA StepLined == Typed /\ Explained /\ Lined /\ [Next]_vars => Lined'
<1> SUFFICES ASSUME Typed, Explained, Lined, [Next]_vars
             PROVE  Lined'
  OBVIOUS
<1>0. status \in [Deliveries -> Waiting \cup {"delivered", "exhausted"}]
  BY DEF Typed, TypeOK
<1>1. CASE UNCHANGED <<todo, status>> /\ queued \subseteq queued'
  <2>1. todo' \in Seq(queued')
    BY <1>1 DEF Lined
  <2>2. QED
    BY <1>1, <2>1 DEF Lined, Queued
<1>2. CASE Start
  <2>1. PICK n \in 1..Cardinality(Due) : \E s \in [1..n -> Due] : Listed(s) /\ todo' = s
    BY <1>2 DEF Start
  <2>2. PICK s \in [1..n -> Due] : todo' = s
    BY <2>1
  <2>3. Due \subseteq queued /\ Due \subseteq Deliveries /\ IsFiniteSet(Due)
    BY FS_Subset DEF Due, Typed, TypeOK
  <2>4. n \in Nat
    BY <2>1, <2>3, FS_CardinalityType
  <2>5. todo' \in Seq(queued)
    BY <2>2, <2>3, <2>4
  <2>6. QED
    BY <1>2, <2>5 DEF Start, Lined, Queued
<1>3. ASSUME todo # <<>>, todo' = Tail(todo), queued' = queued,
             \A d \in Deliveries : ~Queued(d) => status'[d] = status[d]
      PROVE  Lined'
  BY <1>3 DEF Lined, Queued
<1>4. CASE Finish
  <2>1. /\ todo # <<>> /\ todo' = Tail(todo) /\ queued' = queued
        /\ status' = [status EXCEPT ![Head(todo)] = Finished]
        /\ Queued(Head(todo))
    BY <1>4, InFlightWaits DEF Finish, InFlight, Typed
  <2>2. QED
    BY <1>0, <1>3, <2>1
<1>5. CASE Skip \/ FinishLost
  BY <1>3, <1>5 DEF Skip, FinishLost, row, Typed, InFlight
<1>6. CASE Restart
  BY <1>6 DEF Restart, row, Lined, Queued
<1>7. ASSUME NEW d \in Deliveries, RetryOne(d)
      PROVE  Lined'
  BY <1>0, <1>7 DEF RetryOne, batch, Lined, Queued
<1>8. ASSUME NEW c \in Callers, SettingsStep(c)
      PROVE  UNCHANGED <<todo, status, queued>>
  BY <1>8 DEF SettingsStep, Load, Disable, Store, Apply, row, batch
<1>9. ASSUME NEW d \in Deliveries, Enqueue(d) \/ Elapse(d)
      PROVE  UNCHANGED <<todo, status>> /\ queued \subseteq queued'
  BY <1>9 DEF Enqueue, Elapse, batch
<1>10. ASSUME Claim \/ EndBatch \/ (\E a \in Answers \ {"none"} : Post(a)) \/ UNCHANGED vars
       PROVE  UNCHANGED <<todo, status, queued>>
  BY <1>10 DEF Claim, EndBatch, Post, vars, row, batch
<1>11. QED
  BY <1>1, <1>2, <1>4, <1>5, <1>6, <1>7, <1>8, <1>9, <1>10 DEF Next, Work

\* One delivery's phase changes, at most.
LEMMA PhaseBecomes ==
  ASSUME NEW d \in Deliveries, NEW from, NEW to,
         Phase[d] = from, Phase'[d] = to,
         \A e \in Deliveries \ {d} : Phase'[e] = Phase[e]
  PROVE  Queue!Becomes(d, from, to)
<1>1. Phase' = [Phase EXCEPT ![d] = to]
  BY DEF Phase
<1>2. QED
  BY <1>1 DEF Queue!Becomes

\* Rows stay as they are and no acceptance is heard or recorded: no phase changes.
LEMMA PhaseStays ==
  ASSUME UNCHANGED <<queued, status>>, \A d \in Deliveries : Taken(d)' = Taken(d)
  PROVE  Phase' = Phase
BY DEF Phase, Queued

\* An answer is a taking, if the endpoint took the event.
LEMMA PostTakes ==
  ASSUME Typed, Explained, Lined, NEW a \in Answers \ {"none"}, Post(a)
  PROVE  [Queue!Next]_<<Phase, accepted, unlearned>>
<1> DEFINE h == Head(todo)
<1>1. h \in Deliveries /\ Queued(h) /\ status[h] \in Waiting
  BY InFlightWaits DEF Post, InFlight
<1>2. /\ UNCHANGED <<queued, status, todo>>
      /\ \A d \in Deliveries : ~Taken(d) /\ (Taken(d)' <=> a = "ok" /\ d = h)
  BY DEF Post, row, Taken
<1>3. accepted \in [Deliveries -> Nat] /\ unlearned \in [Deliveries -> Nat]
  BY DEF Typed, TypeOK
<1>4. Phase[h] = "waiting"
  BY <1>1, <1>2 DEF Phase
<1>5. CASE a = "ok"
  <2>1. Phase'[h] = "taken" /\ \A e \in Deliveries \ {h} : Phase'[e] = Phase[e]
    BY <1>1, <1>2, <1>5 DEF Phase, Queued
  <2>2. Queue!Becomes(h, "waiting", "taken")
    BY <1>1, <1>4, <2>1, PhaseBecomes
  <2>3. accepted' = [accepted EXCEPT ![h] = accepted[h] + 1] /\ unlearned' = unlearned
    BY <1>3, <1>5 DEF Post
  <2>4. Queue!Take(h)
    BY <2>2, <2>3 DEF Queue!Take
  <2>5. QED
    BY <1>1, <2>4 DEF Queue!Next
<1>6. CASE a # "ok"
  <2>0. \A d \in Deliveries : Taken(d)' = Taken(d)
    <3>1. TAKE d \in Deliveries
    <3>2. Taken(d) = FALSE
      BY <1>2 DEF Taken
    <3>3. Taken(d)' = FALSE
      BY <1>6 DEF Post, Taken
    <3>4. QED
      BY <3>2, <3>3
  <2>1. Phase' = Phase
    BY <1>2, <2>0, PhaseStays
  <2>2. CASE a = "lost"
    <3>1. Queue!TakeUnheard(h)
      BY <1>4, <2>1, <2>2 DEF Post, Queue!TakeUnheard
    <3>2. QED
      BY <1>1, <3>1 DEF Queue!Next
  <2>3. CASE a # "lost"
    BY <1>3, <1>6, <2>1, <2>3 DEF Post
  <2>4. QED
    BY <2>2, <2>3
<1>7. QED
  BY <1>5, <1>6

\* finish delivers what was taken, and gives up or keeps what was not.
LEMMA FinishSettles ==
  ASSUME Typed, Explained, Lined, Finish
  PROVE  [Queue!Next]_<<Phase, accepted, unlearned>>
<1> DEFINE h == Head(todo)
<1>1. h \in Deliveries /\ Queued(h) /\ status[h] \in Waiting
  BY InFlightWaits DEF Finish, InFlight
<1>2. /\ UNCHANGED <<queued, accepted, unlearned>> /\ worker = "answered"
      /\ status' = [status EXCEPT ![h] = Finished]
      /\ \A d \in Deliveries : ~Taken(d)' /\ (Taken(d) <=> answer = "ok" /\ d = h)
  BY DEF Finish, ghosts, Taken
<1>3. status \in [Deliveries -> Waiting \cup {"delivered", "exhausted"}]
  BY DEF Typed, TypeOK
<1>4. /\ status'[h] = Finished
      /\ \A e \in Deliveries \ {h} : status'[e] = status[e]
  BY <1>1, <1>2, <1>3
<1>5. \A e \in Deliveries \ {h} : Phase'[e] = Phase[e]
  BY <1>2, <1>4 DEF Phase, Queued
<1>6. CASE answer = "ok"
  <2>1. Phase[h] = "taken" /\ Phase'[h] = "delivered"
    BY <1>1, <1>2, <1>4, <1>6 DEF Phase, Queued, Finished, Waiting
  <2>2. Queue!Deliver(h)
    BY <1>1, <1>2, <1>5, <2>1, PhaseBecomes DEF Queue!Deliver
  <2>3. QED
    BY <1>1, <2>2 DEF Queue!Next
<1>7. CASE answer # "ok"
  <2>1. Phase[h] = "waiting" /\ Phase'[h] \in {"waiting", "exhausted"}
    BY <1>1, <1>2, <1>4, <1>7 DEF Phase, Queued, Finished, Waiting
  <2>2. CASE Phase'[h] = "waiting"
    <3>1. Phase' = Phase
      BY <1>5, <2>1, <2>2 DEF Phase
    <3>2. QED
      BY <1>2, <3>1
  <2>3. CASE Phase'[h] = "exhausted"
    <3>1. Queue!GiveUp(h)
      BY <1>1, <1>2, <1>5, <2>1, <2>3, PhaseBecomes DEF Queue!GiveUp
    <3>2. QED
      BY <1>1, <3>1 DEF Queue!Next
  <2>4. QED
    BY <2>1, <2>2, <2>3
<1>8. QED
  BY <1>6, <1>7

\* A crash or a failed write forgets what was just heard.
LEMMA LossForgets ==
  ASSUME Typed, Explained, Lined, FinishLost \/ Restart
  PROVE  [Queue!Next]_<<Phase, accepted, unlearned>>
<1> DEFINE h == Head(todo)
<1>1. /\ UNCHANGED <<queued, status, accepted>>
      /\ \A d \in Deliveries : ~Taken(d)'
  BY DEF FinishLost, Restart, row, Taken
<1>2. unlearned \in [Deliveries -> Nat]
  BY DEF Typed, TypeOK
<1>3. CASE worker = "answered" /\ answer = "ok"
  <2>1. h \in Deliveries /\ Queued(h) /\ status[h] \in Waiting
    BY <1>3, InFlightWaits DEF InFlight
  <2>2. /\ Phase[h] = "taken" /\ Phase'[h] = "waiting"
        /\ \A e \in Deliveries \ {h} : Phase'[e] = Phase[e]
    BY <1>1, <1>3, <2>1 DEF Phase, Queued, Taken
  <2>3. Queue!Becomes(h, "taken", "waiting")
    BY <2>1, <2>2, PhaseBecomes
  <2>4. unlearned' = [unlearned EXCEPT ![h] = unlearned[h] + 1]
    BY <1>3 DEF FinishLost, Restart
  <2>5. Queue!Forget(h)
    BY <1>1, <2>3, <2>4 DEF Queue!Forget
  <2>6. QED
    BY <2>1, <2>5 DEF Queue!Next
<1>4. CASE ~(worker = "answered" /\ answer = "ok")
  <2>1. unlearned' = unlearned
    BY <1>2, <1>4 DEF FinishLost, Restart
  <2>2. Phase' = Phase
    BY <1>1, <1>4, PhaseStays DEF Taken
  <2>3. QED
    BY <1>1, <2>1, <2>2
<1>5. QED
  BY <1>3, <1>4

\* An operator's retry offers again what was given up, and is nothing new for what
\* waits or is in flight.
LEMMA RetryOffers ==
  ASSUME Typed, Explained, Lined, NEW d \in Deliveries, RetryOne(d)
  PROVE  [Queue!Next]_<<Phase, accepted, unlearned>>
<1>1. /\ UNCHANGED <<queued, accepted, unlearned, worker, todo, answer>>
      /\ status' = [status EXCEPT ![d] = "pending"]
      /\ Queued(d) /\ status[d] \in {"retry", "exhausted"}
  BY DEF RetryOne, Retryable, batch, ghosts
<1>2. status \in [Deliveries -> Waiting \cup {"delivered", "exhausted"}]
  BY DEF Typed, TypeOK
<1>3. \A e \in Deliveries : Taken(e)' = Taken(e)
  BY <1>1 DEF Taken
<1>4. /\ status'[d] = "pending"
      /\ \A e \in Deliveries \ {d} : status'[e] = status[e]
  BY <1>1, <1>2
<1>5. \A e \in Deliveries \ {d} : Phase'[e] = Phase[e]
  BY <1>1, <1>3, <1>4 DEF Phase, Queued
<1>6. CASE status[d] = "retry"
  <2>1. Phase'[d] = Phase[d]
    BY <1>1, <1>3, <1>4, <1>6 DEF Phase, Queued, Waiting
  <2>2. Phase' = Phase
    BY <1>5, <2>1 DEF Phase
  <2>3. QED
    BY <1>1, <2>2
<1>7. CASE status[d] = "exhausted"
  <2>1. ~Taken(d)
    BY <1>7, InFlightWaits DEF Taken, InFlight, Waiting
  <2>2. Phase[d] = "exhausted" /\ Phase'[d] = "waiting"
    BY <1>1, <1>3, <1>4, <1>7, <2>1 DEF Phase, Queued, Waiting
  <2>3. Queue!Retry(d)
    BY <1>1, <1>5, <2>2, PhaseBecomes DEF Queue!Retry
  <2>4. QED
    BY <2>3 DEF Queue!Next
<1>8. QED
  BY <1>1, <1>6, <1>7

\* A row the ledger commits is offered from then on.
LEMMA EnqueueOffers ==
  ASSUME Typed, Explained, Lined, NEW d \in Deliveries, Enqueue(d)
  PROVE  Queue!Next
<1>1. /\ UNCHANGED <<status, accepted, unlearned, worker, todo, answer>>
      /\ queued' = queued \cup {d} /\ ~Queued(d)
  BY DEF Enqueue, batch, ghosts
<1>2. status[d] = "pending" /\ ~Taken(d)
  BY <1>1, InFlightWaits DEF Lined, Taken, InFlight
<1>3. \A e \in Deliveries : Taken(e)' = Taken(e)
  BY <1>1 DEF Taken
<1>4. /\ Phase[d] = "none" /\ Phase'[d] = "waiting"
      /\ \A e \in Deliveries \ {d} : Phase'[e] = Phase[e]
  BY <1>1, <1>2, <1>3 DEF Phase, Queued, Waiting
<1>5. Queue!Enqueue(d)
  BY <1>1, <1>4, PhaseBecomes DEF Queue!Enqueue
<1>6. QED
  BY <1>5 DEF Queue!Next

\* Every step of the worker, of operators and of a crash is a step of the queue a
\* merchant relies on, or leaves it alone.
THEOREM WorkerImplementsQueue == Spec => ImplementsQueue
<1>1. Init => Queue!Init
  BY DEF Init, Queue!Init, Phase, Queued
<1>2. Init => Explained /\ Lined
  BY DEF Init, Explained, Lined, Taken, InFlight
<1>3. Typed /\ Explained /\ Lined /\ [Next]_vars
        => [Queue!Next]_<<Phase, accepted, unlearned>>
  <2> SUFFICES ASSUME Typed, Explained, Lined, [Next]_vars
               PROVE  [Queue!Next]_<<Phase, accepted, unlearned>>
    OBVIOUS
  <2>1. ASSUME UNCHANGED <<queued, status, accepted, unlearned>>,
               \A d \in Deliveries : Taken(d)' = Taken(d)
        PROVE  [Queue!Next]_<<Phase, accepted, unlearned>>
    BY <2>1, PhaseStays
  <2>2. ASSUME Start \/ Claim \/ Skip \/ EndBatch
        PROVE  [Queue!Next]_<<Phase, accepted, unlearned>>
    <3>1. UNCHANGED <<queued, status, accepted, unlearned>>
      BY <2>2 DEF Start, Claim, Skip, EndBatch, row, ghosts
    <3>2. worker # "answered" /\ worker' # "answered"
      BY <2>2 DEF Start, Claim, Skip, EndBatch
    <3>3. QED
      BY <2>1, <3>1, <3>2 DEF Taken
  <2>3. ASSUME NEW c \in Callers, SettingsStep(c)
        PROVE  UNCHANGED <<row, batch, accepted, unlearned>>
    BY <2>3 DEF SettingsStep, Load, Disable, Store, Apply, ghosts
  <2>4. ASSUME NEW d \in Deliveries, Elapse(d)
        PROVE  UNCHANGED <<queued, status, batch, accepted, unlearned>>
    BY <2>4 DEF Elapse, ghosts
  <2>5. CASE UNCHANGED <<queued, status, batch, accepted, unlearned>>
    BY <2>1, <2>5 DEF batch, Taken
  <2>6. QED
    BY <2>2, <2>3, <2>4, <2>5, PostTakes, FinishSettles, LossForgets, RetryOffers,
       EnqueueOffers
    DEF Next, Work, vars, row, ghosts
<1>4. QED
  BY <1>1, <1>2, <1>3, InitTyped, StepTyped, StepExplained, StepLined, PTL
  DEF Spec, ImplementsQueue, Queue!Spec

---------------------------------------------------------------------------
(* Bounded attempts.  A retry, a crash and a lost write each pay for the   *)
(* claims they make possible; a row whose attempts are used up is claimed  *)
(* again only if one of its outcomes was swallowed, which was paid for.    *)

Budget == MaxAttempts * retries + crashes + lostWrites

Underway(d) == InFlight /\ Head(todo) = d

Rounds ==
  /\ InFlight => attempts[Head(todo)] <= flight
  /\ \A d \in Deliveries :
       /\ claims[d] <= Budget + attempts[d]
       /\ claims[d] <= Budget + MaxAttempts
       /\ (status[d] \in Waiting /\ attempts[d] >= MaxAttempts /\ ~Underway(d))
            => claims[d] < Budget + MaxAttempts

\* The budget is a number that grows by what is spent.
LEMMA BudgetGrows ==
  ASSUME Typed
  PROVE  /\ Budget \in Nat
         /\ UNCHANGED bounds => Budget' = Budget
         /\ (UNCHANGED retries /\ (\/ crashes' = crashes + 1 /\ UNCHANGED lostWrites
                                   \/ lostWrites' = lostWrites + 1 /\ UNCHANGED crashes))
              => Budget' = Budget + 1
         /\ (retries' = retries + 1 /\ UNCHANGED <<crashes, lostWrites>>)
              => Budget' = Budget + MaxAttempts
<1>1. /\ MaxAttempts \in Nat /\ retries \in Nat
      /\ crashes \in Nat /\ lostWrites \in Nat
  BY DeliveryAssumption DEF Typed, TypeOK, DeliveryAssumption
<1>2. MaxAttempts * retries \in Nat
  BY <1>1
<1>3. MaxAttempts * (retries + 1) = MaxAttempts * retries + MaxAttempts
  BY <1>1
<1>4. QED
  BY <1>1, <1>2, <1>3 DEF Budget, bounds

\* Every claim is within the budget.
LEMMA StepRounds == Typed /\ Rounds /\ [Next]_vars => Rounds'
<1> SUFFICES ASSUME Typed, Rounds, [Next]_vars PROVE Rounds'
  OBVIOUS
<1>0. /\ status \in [Deliveries -> Waiting \cup {"delivered", "exhausted"}]
      /\ attempts \in [Deliveries -> Nat] /\ claims \in [Deliveries -> Nat]
      /\ flight \in Nat /\ MaxAttempts \in Nat \ {0} /\ Budget \in Nat
  BY DeliveryAssumption, BudgetGrows DEF Typed, TypeOK, DeliveryAssumption
<1>1. CASE UNCHANGED outcome
  BY <1>1 DEF outcome, Rounds, Underway, InFlight, Budget, bounds
<1>2. CASE Start \/ Skip \/ EndBatch
  <2>1. ~InFlight' /\ ~InFlight
    BY <1>2 DEF Start, Skip, EndBatch, InFlight
  <2>2. UNCHANGED <<status, attempts, claims, bounds>>
    BY <1>2 DEF Start, Skip, EndBatch, row, ghosts
  <2>3. QED
    BY <2>1, <2>2, BudgetGrows DEF Rounds, Underway
<1>3. CASE Claim
  <2>0. Head(todo) \in Deliveries /\ todo # <<>>
    BY <1>3, BatchType DEF Claim
  <2>1. PICK h \in Deliveries : h = Head(todo)
    BY <2>0
  <2>2. /\ attempts' = [attempts EXCEPT ![h] = attempts[h] + 1]
        /\ claims' = [claims EXCEPT ![h] = claims[h] + 1]
        /\ flight' = attempts[h] + 1 /\ status[h] \in Waiting
        /\ UNCHANGED <<status, todo, bounds>>
    BY <1>3, <2>1 DEF Claim, Claimable
  <2>3. ~InFlight /\ InFlight'
    BY <1>3 DEF Claim, InFlight
  <2>4. Budget' = Budget
    BY <2>2, BudgetGrows
  <2>5. /\ claims[h] <= Budget + attempts[h]
        /\ claims[h] < Budget + MaxAttempts
        /\ claims[h] \in Nat /\ attempts[h] \in Nat
    BY <1>0, <2>1, <2>2, <2>3 DEF Rounds, Underway
  <2>6. /\ attempts'[h] = flight'
        /\ claims'[h] <= Budget' + attempts'[h]
        /\ claims'[h] <= Budget' + MaxAttempts
        /\ Underway(h)'
    BY <1>0, <2>1, <2>2, <2>3, <2>4, <2>5 DEF Underway
  <2>7. \A d \in Deliveries \ {h} : claims'[d] = claims[d] /\ attempts'[d] = attempts[d]
    BY <1>0, <2>2
  <2>8. flight' \in Nat
    BY <2>2, <2>5
  <2>9. QED
    BY <2>1, <2>2, <2>3, <2>4, <2>6, <2>7, <2>8 DEF Rounds, Underway
<1>4. ASSUME NEW a \in Answers \ {"none"}, Post(a)
      PROVE  Rounds'
  <2>1. InFlight /\ InFlight' /\ UNCHANGED <<status, attempts, claims, bounds, flight, todo>>
    BY <1>4 DEF Post, row, InFlight
  <2>2. QED
    BY <2>1, BudgetGrows DEF Rounds, Underway
<1>5. CASE Finish
  <2>0. Head(todo) \in Deliveries /\ InFlight
    BY <1>5, BatchType DEF Finish, InFlight, Typed
  <2>1. PICK h \in Deliveries : h = Head(todo)
    BY <2>0
  <2>2. /\ status' = [status EXCEPT ![h] = Finished] /\ ~InFlight'
        /\ UNCHANGED <<attempts, claims, bounds>>
    BY <1>5, <2>1 DEF Finish, InFlight, ghosts
  <2>3. Budget' = Budget
    BY <2>2, BudgetGrows
  <2>4. Finished \in Waiting => flight < MaxAttempts
    BY <1>0 DEF Finished, GivesUp, Waiting
  <2>5. attempts[h] <= flight /\ attempts[h] \in Nat
    BY <1>0, <2>0, <2>1 DEF Rounds
  <2>6. status'[h] \in Waiting => ~(attempts'[h] >= MaxAttempts)
    BY <1>0, <2>2, <2>4, <2>5
  <2>7. \A d \in Deliveries \ {h} : ~Underway(d) /\ status'[d] = status[d]
    BY <1>0, <2>1, <2>2 DEF Underway
  <2>8. QED
    BY <2>2, <2>3, <2>6, <2>7 DEF Rounds
<1>6. CASE FinishLost \/ Restart
  <2>1. ~InFlight' /\ UNCHANGED <<status, attempts, claims>>
    BY <1>6 DEF FinishLost, Restart, InFlight, row
  <2>2. Budget' = Budget + 1
    BY <1>6, BudgetGrows DEF FinishLost, Restart
  <2>3. \A d \in Deliveries : claims[d] \in Nat /\ attempts[d] \in Nat
    BY <1>0
  <2>4. QED
    BY <1>0, <2>1, <2>2, <2>3 DEF Rounds
<1>7. ASSUME NEW d \in Deliveries, RetryOne(d)
      PROVE  Rounds'
  <2>1. /\ UNCHANGED <<worker, todo, flight, claims>>
        /\ status' = [status EXCEPT ![d] = "pending"]
        /\ attempts' = [attempts EXCEPT ![d] = 0]
    BY <1>7 DEF RetryOne, batch, ghosts
  <2>2. Budget' = Budget + MaxAttempts
    BY <1>7, BudgetGrows DEF RetryOne
  <2>3. attempts'[d] = 0
    BY <1>0, <2>1
  <2>4. \A e \in Deliveries \ {d} : attempts'[e] = attempts[e] /\ status'[e] = status[e]
    BY <1>0, <2>1
  <2>5. \A e \in Deliveries : claims[e] \in Nat /\ attempts[e] \in Nat
    BY <1>0
  <2>6. \A e \in Deliveries :
          /\ claims'[e] <= Budget' + attempts'[e]
          /\ claims'[e] <= Budget' + MaxAttempts
          /\ (status'[e] \in Waiting /\ attempts'[e] >= MaxAttempts /\ ~Underway(e)')
               => claims'[e] < Budget' + MaxAttempts
    BY <1>0, <2>1, <2>2, <2>3, <2>4, <2>5 DEF Rounds, Underway, InFlight
  <2>7. InFlight' => attempts'[Head(todo')] <= flight'
    <3>1. InFlight => Head(todo) \in Deliveries
      BY BatchType DEF Typed
    <3>2. QED
      BY <1>0, <2>1, <2>3, <2>4, <3>1 DEF Rounds, InFlight
  <2>8. QED
    BY <2>6, <2>7 DEF Rounds
<1>8. QED
  BY <1>1, <1>2, <1>3, <1>4, <1>5, <1>6, <1>7, OutcomeWriters

\* "bounded exponential backoff" (docs): every round of automatic attempts is
\* bounded, but for the attempts whose outcome a crash or a failed write swallowed.
THEOREM RoundsAreBounded == Spec => []AttemptsBounded
<1>1. Init => Rounds
  <2> SUFFICES ASSUME Init PROVE Rounds
    OBVIOUS
  <2>1. /\ ~InFlight /\ Budget \in Nat /\ MaxAttempts \in Nat \ {0}
        /\ \A d \in Deliveries : attempts[d] = 0 /\ claims[d] = 0
    BY InitTyped, BudgetGrows, DeliveryAssumption DEF Init, InFlight, DeliveryAssumption
  <2>2. QED
    BY <2>1 DEF Rounds
<1>2. Typed /\ Rounds => AttemptsBounded
  <2> SUFFICES ASSUME Typed, Rounds PROVE AttemptsBounded
    OBVIOUS
  <2>1. MaxAttempts \in Nat /\ retries \in Nat /\ crashes \in Nat /\ lostWrites \in Nat
    BY DeliveryAssumption DEF Typed, TypeOK, DeliveryAssumption
  <2>2. /\ MaxAttempts * retries \in Nat
        /\ MaxAttempts * (1 + retries) = MaxAttempts * retries + MaxAttempts
    BY <2>1
  <2>3. MaxAttempts * (1 + retries) + crashes + lostWrites = Budget + MaxAttempts
    BY <2>1, <2>2 DEF Budget
  <2>4. QED
    BY <2>3 DEF Rounds, AttemptsBounded
<1>3. QED
  BY <1>1, <1>2, InitTyped, StepTyped, StepRounds, PTL DEF Spec

---------------------------------------------------------------------------
(* Stale posts.  What may still be posted with an outdated configuration   *)
(* is the rest of the batch under way.                                     *)

Rest == IF worker = "answered" THEN Len(todo) - 1 ELSE Len(todo)

Draining ==
  /\ StalePostsBounded
  /\ worker # "idle" => Len(todo) <= BatchSize
  /\ worker # "idle" /\ using # live => stale + Rest <= BatchSize

\* The rest of a batch only shrinks, and a new one copies what is live.
LEMMA StepDraining == Typed /\ Draining /\ [Next]_vars => Draining'
<1> SUFFICES ASSUME Typed, Draining, [Next]_vars PROVE Draining'
  OBVIOUS
<1>0. /\ todo \in Seq(Deliveries) /\ Len(todo) \in Nat /\ stale \in Nat
      /\ BatchSize \in Nat \ {0}
      /\ todo # <<>> => Len(todo) > 0 /\ Len(Tail(todo)) = Len(todo) - 1
  BY DeliveryAssumption DEF Typed, TypeOK, DeliveryAssumption
<1>1. CASE UNCHANGED <<worker, todo, using, live, stale>>
  BY <1>1 DEF Draining, StalePostsBounded, Rest
<1>2. CASE Start
  <2>1. Len(todo') <= BatchSize
    BY <1>2, ListedType DEF Start
  <2>2. /\ using' = live' /\ stale' = stale
    BY <1>2 DEF Start, settings, ghosts
  <2>3. QED
    BY <2>1, <2>2 DEF Draining, StalePostsBounded
<1>3. CASE Claim
  BY <1>3 DEF Claim, Draining, StalePostsBounded, Rest, settings
<1>4. CASE Skip
  BY <1>0, <1>4 DEF Skip, Draining, StalePostsBounded, Rest, settings, ghosts
<1>5. CASE EndBatch
  BY <1>5 DEF EndBatch, Draining, StalePostsBounded, ghosts
<1>6. ASSUME NEW a \in Answers \ {"none"}, Post(a)
      PROVE  Draining'
  <2>1. /\ worker = "posting" /\ worker' = "answered" /\ todo # <<>>
        /\ UNCHANGED <<todo, using, live>>
        /\ stale' = IF using # live THEN stale + 1 ELSE stale
    BY <1>6 DEF Post, Typed, InFlight, settings
  <2>2. QED
    BY <1>0, <2>1 DEF Draining, StalePostsBounded, Rest
<1>7. CASE Finish \/ FinishLost
  <2>1. /\ worker = "answered" /\ worker' = "batch" /\ todo # <<>> /\ todo' = Tail(todo)
        /\ UNCHANGED <<using, live, stale>>
    BY <1>7 DEF Finish, FinishLost, Typed, InFlight, settings, ghosts
  <2>2. QED
    BY <1>0, <2>1 DEF Draining, StalePostsBounded, Rest
<1>8. CASE Restart
  BY <1>0, <1>8 DEF Restart, Draining, StalePostsBounded
<1>9. ASSUME NEW c \in Callers, Apply(c)
      PROVE  Draining'
  <2>1. UNCHANGED <<worker, todo, using>> /\ stale' = IF live' # live THEN 0 ELSE stale
    BY <1>9 DEF Apply, batch
  <2>2. CASE live' = live
    BY <2>1, <2>2 DEF Draining, StalePostsBounded, Rest
  <2>3. CASE live' # live
    BY <1>0, <2>1, <2>3 DEF Draining, StalePostsBounded, Rest
  <2>4. QED
    BY <2>2, <2>3
<1>10. ASSUME NEW c \in Callers, SettingsStep(c)
       PROVE  Apply(c) \/ UNCHANGED <<worker, todo, using, live, stale>>
  BY <1>10 DEF SettingsStep, Load, Disable, Store, batch, ghosts
<1>11. ASSUME NEW d \in Deliveries, Enqueue(d) \/ Elapse(d) \/ RetryOne(d)
       PROVE  UNCHANGED <<worker, todo, using, live, stale>>
  BY <1>11 DEF Enqueue, Elapse, RetryOne, batch, settings, ghosts
<1>12. CASE UNCHANGED vars
  BY <1>1, <1>12 DEF vars, batch, settings, ghosts
<1>13. QED
  BY <1>1, <1>2, <1>3, <1>4, <1>5, <1>6, <1>7, <1>8, <1>9, <1>10, <1>11, <1>12
  DEF Next, Work

\* Once a new endpoint, a rotation or a disable has been applied, no more than
\* the rest of the batch under way is posted with what it replaced.
THEOREM StalePostsEnd == Spec => []StalePostsBounded
<1>1. Init => Draining
  BY DeliveryAssumption DEF Init, Draining, StalePostsBounded, DeliveryAssumption
<1>2. Draining => StalePostsBounded
  BY DEF Draining
<1>3. QED
  BY <1>1, <1>2, InitTyped, StepTyped, StepDraining, PTL DEF Spec

---------------------------------------------------------------------------
(* Settings.  As long as requests do not overlap, the one in progress      *)
(* explains every difference between what is stored and what is live.      *)

Storing(c) == Active(c) /\ caller[c].step = "store"
Applying(c) == Active(c) /\ caller[c].step = "apply"

Sequential ==
  /\ \A a, b \in Callers : Active(a) /\ Active(b) => a = b
  /\ \A a \in Callers : Applying(a) => saved = caller[a].cfg
  /\ (\A a \in Callers : ~Applying(a)) => live = saved

\* A request that starts alone and ends leaves the stored settings live.
LEMMA StepSequential ==
  Typed /\ (~overlapped => Sequential) /\ [Next]_vars => (~overlapped' => Sequential')
<1> SUFFICES ASSUME Typed, ~overlapped => Sequential, [Next]_vars, ~overlapped'
             PROVE  Sequential'
  OBVIOUS
<1> DEFINE Calling == [step : {"store", "apply"}, cfg : Configs \cup {Off}]
<1>0. caller \in [Callers -> Calling \cup {Idle}]
  BY DEF Typed, TypeOK
<1>1. CASE UNCHANGED <<saved, live, caller, overlapped>>
  BY <1>1 DEF Sequential, Active, Applying
<1>2. ASSUME NEW c \in Callers, NEW new,
             caller' = [caller EXCEPT ![c] = new], new.step = "store",
             ~Active(c), overlapped' = (overlapped \/ \E o \in Callers : Active(o)),
             UNCHANGED <<saved, live>>
      PROVE  Sequential'
  <2>1. Sequential /\ \A o \in Callers : ~Active(o)
    BY <1>2
  <2>2. \A a \in Callers \ {c} : caller'[a] = Idle
    BY <1>0, <1>2, <2>1 DEF Active
  <2>3. \A a \in Callers : ~Applying(a)'
    BY <1>0, <1>2, <2>2 DEF Active, Applying
  <2>4. QED
    BY <1>2, <2>1, <2>2, <2>3 DEF Sequential, Active, Applying
<1>3. ASSUME NEW c \in Callers, NEW e \in Endpoints, NEW r \in BOOLEAN, Load(c, e, r)
      PROVE  Sequential'
  <2>1. PICK cfg : caller' = [caller EXCEPT ![c] = [step |-> "store", cfg |-> cfg]]
    BY <1>3 DEF Load
  <2>2. QED
    BY <1>2, <1>3, <2>1 DEF Load
<1>4. ASSUME NEW c \in Callers, Disable(c)
      PROVE  Sequential'
  BY <1>2, <1>4 DEF Disable
<1>5. ASSUME NEW c \in Callers, Store(c)
      PROVE  Sequential'
  <2>1. Sequential /\ Storing(c)
    BY <1>5 DEF Store, Storing
  <2>2. \A a \in Callers \ {c} : ~Active(a) /\ caller'[a] = caller[a]
    BY <1>0, <1>5, <2>1 DEF Store, Sequential, Storing
  <2>3. /\ caller'[c].step = "apply" /\ caller'[c].cfg = caller[c].cfg
        /\ saved' = caller[c].cfg
    BY <1>0, <1>5, <2>1 DEF Store, Active
  <2>4. caller'[c] # Idle
    <3>1. caller[c] \in Calling
      BY <1>0, <2>1 DEF Storing, Active
    <3>2. caller'[c] \in Calling
      BY <1>0, <1>5, <3>1 DEF Store
    <3>3. QED
      BY <3>2, DeliveryAssumption DEF DeliveryAssumption
  <2>5. QED
    BY <2>2, <2>3, <2>4 DEF Sequential, Active, Applying
<1>6. ASSUME NEW c \in Callers, Apply(c)
      PROVE  Sequential'
  <2>1. Sequential /\ Applying(c) /\ live' = saved /\ saved' = saved
    BY <1>6 DEF Apply, Applying, Sequential
  <2>2. \A a \in Callers : ~Active(a)'
    BY <1>0, <1>6, <2>1 DEF Apply, Sequential, Active, Applying
  <2>3. QED
    BY <2>1, <2>2 DEF Sequential, Applying
<1>7. CASE Restart
  <2>1. live' = saved' /\ \A a \in Callers : ~Active(a)'
    BY <1>7 DEF Restart, Applied, Active
  <2>2. QED
    BY <2>1 DEF Sequential, Applying
<1>8. ASSUME NEW d \in Deliveries, Enqueue(d) \/ Elapse(d) \/ RetryOne(d)
      PROVE  UNCHANGED <<saved, live, caller, overlapped>>
  BY <1>8 DEF Enqueue, Elapse, RetryOne, settings
<1>9. CASE Work \/ FinishLost
  BY <1>1, <1>9
  DEF Work, Start, Claim, Skip, EndBatch, Post, Finish, FinishLost, settings
<1>10. CASE UNCHANGED vars
  BY <1>1, <1>10 DEF vars, settings
<1>11. QED
  BY <1>1, <1>3, <1>4, <1>5, <1>6, <1>7, <1>8, <1>9, <1>10 DEF Next, SettingsStep

\* While no settings requests have overlapped, the worker runs on the stored
\* configuration whenever none is in progress, after any restart too.
THEOREM SettingsGoLive == Spec => []SequentialSettingsLive
<1>1. Init => Sequential
  BY DEF Init, Sequential, Active, Applying
<1>2. (~overlapped => Sequential) => SequentialSettingsLive
  BY DEF Sequential, Applying, SequentialSettingsLive
<1>3. QED
  BY <1>1, <1>2, InitTyped, StepTyped, StepSequential, PTL DEF Spec
=============================================================================
