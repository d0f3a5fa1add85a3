----------------------- MODULE DataDirectoryProofs -----------------------
(***************************************************************************)
(* What holds of the data directory for every number of processes, profiles*)
(* and reservations, every retention, and any number of crashes.  The file *)
(* is never read without its version: the invariant says which objects a   *)
(* version vouches for, how far the owner's upgrade has come, and that it  *)
(* takes nothing from a process before it that still has transactions out. *)
(***************************************************************************)
EXTENDS DataDirectory, FiniteSetTheorems, WellFoundedInduction, TLAPS

---------------------------------------------------------------------------
(* The file.                                                               *)

RowSets == UNION {[R -> Rows] : R \in SUBSET Reservations}

\* What the version of a file says of its objects; and no profile holds the
\* amount twice.
Vouched(d) ==
  /\ d.version >= 2 => HealthColumns \in d.has
  /\ d.version >= 3 => LegacyParser \in d.has
  /\ d.version >= 4 => Corroboration \in d.has

Sane(d) == d \in Databases /\ Vouched(d) /\ ~ SameProfile(d.rows)

\* A file is its version, its objects and its reservations.
LEMMA DatabaseShape ==
  ASSUME NEW d \in Databases
  PROVE  /\ d = [version |-> d.version, has |-> d.has, rows |-> d.rows]
         /\ d.version \in 0..8 /\ d.has \subseteq Features /\ d.rows \in RowSets
BY DEF Databases, RowSets

\* A file of these fields is a file.
LEMMA DatabaseOf ==
  ASSUME NEW v \in 0..8, NEW h \in SUBSET Features, NEW rows \in RowSets
  PROVE  [version |-> v, has |-> h, rows |-> rows] \in Databases
BY DEF Databases, RowSets

\* The objects of this build, and those it removes, are all there are.
LEMMA FeaturesOfThisBuild ==
  /\ Features = Current \cup {PlainIndex, HistoricalTriggers, Singleton}
  /\ Current \cap {PlainIndex, HistoricalTriggers, Singleton} = {}
  /\ Current = {Marker, Epoch, ProfileIndex, MarkedIndex, StrictTriggers}
                 \cup {HealthColumns, LegacyParser, Corroboration}
                 \cup {WideAdjustment, PayloadHash, ConsistencyTriggers}
BY DEF Features, Current, Marker, Epoch, ProfileIndex, PlainIndex, MarkedIndex,
       StrictTriggers, HistoricalTriggers, Singleton, WideAdjustment,
       HealthColumns, LegacyParser, Corroboration, PayloadHash, ConsistencyTriggers

\* Every build there has been left files whose version vouches for their
\* objects, and whose indexes kept the profiles of an amount apart.
LEMMA EarlierBuilds ==
  ASSUME NEW s \in EarlierSchemas
  PROVE  /\ s.version \in 0..8 /\ s.has \subseteq Features
         /\ Vouched(s)
         /\ s.version = 0 \/ ProfileIndex \in s.has \/ Marker \in s.has
<1>0. ProfileIndex \notin {HealthColumns, LegacyParser, Corroboration}
  BY DEF ProfileIndex, HealthColumns, LegacyParser, Corroboration
<1>1. CASE s = [version |-> 0, has |-> {}]
  BY <1>1 DEF Vouched
<1>2. ASSUME NEW v \in 1..4, NEW w \in {{}, {WideAdjustment}},
             s = [version |-> v, has |-> UpTo(v) \cup {Singleton} \cup w]
      PROVE  /\ s.version \in 0..8 /\ s.has \subseteq Features
             /\ Vouched(s) /\ ProfileIndex \in s.has
  BY <1>2 DEF Vouched, UpTo, Features
<1>3. ASSUME NEW w \in {{}, {WideAdjustment}}, NEW p \in Relational,
             s = [version |-> 4, has |-> UpTo(4) \cup w \cup p]
      PROVE  /\ s.version \in 0..8 /\ s.has \subseteq Features
             /\ Vouched(s) /\ ProfileIndex \in s.has
  BY <1>3 DEF Vouched, UpTo, Features, Relational
<1>4. ASSUME NEW p \in Relational,
             s = [version |-> 5, has |-> UpTo(4) \cup {PlainIndex, WideAdjustment} \cup p]
      PROVE  /\ s.version \in 0..8 /\ s.has \subseteq Features
             /\ Vouched(s) /\ ProfileIndex \in s.has
  BY <1>4 DEF Vouched, UpTo, Features, Relational
<1>5. ASSUME NEW v \in 5..7,
             s = [version |-> v,
                  has |-> UpTo(4) \cup {Marker, MarkedIndex, StrictTriggers, WideAdjustment}
                            \cup (IF v >= 6 THEN {Epoch} ELSE {})]
      PROVE  /\ s.version \in 0..8 /\ s.has \subseteq Features
             /\ Vouched(s) /\ Marker \in s.has
  BY <1>5 DEF Vouched, UpTo, Features
<1>6. ASSUME NEW v \in {5, 7},
             s = [version |-> v,
                  has |-> (UpTo(4) \ {ProfileIndex})
                            \cup {Marker, MarkedIndex, HistoricalTriggers, WideAdjustment}
                            \cup (IF v >= 6 THEN {Epoch} ELSE {})]
      PROVE  /\ s.version \in 0..8 /\ s.has \subseteq Features
             /\ Vouched(s) /\ Marker \in s.has
  <2>1. CASE v = 5
    BY <1>0, <1>6, <2>1 DEF Vouched, UpTo, Features
  <2>2. CASE v = 7
    BY <1>0, <1>6, <2>2 DEF Vouched, UpTo, Features
  <2>3. QED
    BY <2>1, <2>2
<1>7. CASE s \in {[version |-> 8, has |-> Current], [version |-> 4, has |-> Current]}
  <2>1. s.version \in {4, 8} /\ s.has = Current
    BY <1>7
  <2>2. QED
    BY <2>1 DEF Vouched, Current, Features
<1>8. \/ s = [version |-> 0, has |-> {}]
      \/ \E v \in 1..4, w \in {{}, {WideAdjustment}} :
           s = [version |-> v, has |-> UpTo(v) \cup {Singleton} \cup w]
      \/ \E w \in {{}, {WideAdjustment}}, p \in Relational :
           s = [version |-> 4, has |-> UpTo(4) \cup w \cup p]
      \/ \E p \in Relational :
           s = [version |-> 5, has |-> UpTo(4) \cup {PlainIndex, WideAdjustment} \cup p]
      \/ \E v \in 5..7 :
           s = [version |-> v,
                has |-> UpTo(4) \cup {Marker, MarkedIndex, StrictTriggers, WideAdjustment}
                          \cup (IF v >= 6 THEN {Epoch} ELSE {})]
      \/ \E v \in {5, 7} :
           s = [version |-> v,
                has |-> (UpTo(4) \ {ProfileIndex})
                          \cup {Marker, MarkedIndex, HistoricalTriggers, WideAdjustment}
                          \cup (IF v >= 6 THEN {Epoch} ELSE {})]
      \/ s \in {[version |-> 8, has |-> Current], [version |-> 4, has |-> Current]}
  BY DEF EarlierSchemas
<1>9. QED
  BY <1>1, <1>2, <1>3, <1>4, <1>5, <1>6, <1>7, <1>8

\* Whatever build left the file, it is sane.
LEMMA EarlierSane == ASSUME NEW d \in EarlierDatabases PROVE Sane(d)
<1>1. PICK s \in EarlierSchemas :
        d \in [version : {s.version}, has : {s.has}, rows : RowSets]
  BY DEF EarlierDatabases, RowSets
<1>2. Possible(d, d.rows)
  BY DEF EarlierDatabases
<1>3. d.version = s.version /\ d.has = s.has /\ d.rows \in RowSets
  BY <1>1
<1>4. d \in Databases
  BY <1>1, <1>3, EarlierBuilds DEF Databases, RowSets
<1>5. Vouched(d)
  BY <1>3, EarlierBuilds DEF Vouched
<1>6. ~ SameProfile(d.rows)
  <2>1. CASE d.version = 0
    BY <1>2, <2>1 DEF Possible, SameProfile, LiveRows
  <2>2. CASE ProfileIndex \in d.has \/ Marker \in d.has
    BY <1>2, <2>2 DEF Possible
  <2>3. QED
    BY <1>3, <2>1, <2>2, EarlierBuilds
<1>7. QED
  BY <1>4, <1>5, <1>6 DEF Sane

---------------------------------------------------------------------------
(* Open.                                                                   *)

Enforcement == {Marker, Epoch, ProfileIndex, MarkedIndex, StrictTriggers}

\* Where a process is from when it serves until it ends.
Serving == {"serving", "closed", "released"}

\* How far a file has come when the next transaction of Open is `step', after
\* the version `found' was read.
Ready(step, found, d) ==
  /\ step \in {"v1", "v2", "v3", "v4"} => found \in 0..7
  /\ step = "v1" => d.version = found
  /\ step = "v2" => d.version = IF found < 1 THEN 1 ELSE found
  /\ step = "v3" => d.version = IF found < 2 THEN 2 ELSE found
  /\ step = "v4" => d.version = IF found < 3 THEN 3 ELSE found
  /\ step = "compatibility" => d.version \in 4..7
  /\ step \in {"capacity", "multi-relay", "payload"} =>
       /\ d.version = 4 /\ Enforcement \subseteq d.has
       /\ PlainIndex \notin d.has /\ HistoricalTriggers \notin d.has
  /\ step \in {"multi-relay", "payload"} => WideAdjustment \in d.has
  /\ step = "payload" => Singleton \notin d.has
  /\ step \in Serving => IsCurrent(d)

\* The next step keeps the version read only while it is still needed.
Kept(step, found) == IF After(step) \in {"v2", "v3", "v4"} THEN found ELSE 0

\* Marking reservations as grandfathered changes neither who holds the amount
\* nor for which profile.
LEMMA MarkingKeepsHolders ==
  ASSUME NEW rows \in RowSets
  PROVE  /\ Grandfathered(rows) \in RowSets
         /\ LiveRows(Grandfathered(rows)) = LiveRows(rows)
         /\ SameProfile(Grandfathered(rows)) <=> SameProfile(rows)
<1>1. PICK R \in SUBSET Reservations : rows \in [R -> Rows]
  BY DEF RowSets
<1>2. \A r \in R : /\ rows[r] = [profile |-> rows[r].profile, live |-> rows[r].live,
                                enforced |-> rows[r].enforced]
                  /\ rows[r].profile \in Profiles /\ rows[r].live \in BOOLEAN
  BY <1>1 DEF Rows
<1>3. DOMAIN Grandfathered(rows) = R /\ DOMAIN rows = R
  BY <1>1 DEF Grandfathered
<1>4. \A r \in R : /\ Grandfathered(rows)[r].profile = rows[r].profile
                  /\ Grandfathered(rows)[r].live = rows[r].live
                  /\ Grandfathered(rows)[r] \in Rows
  <2>1. TAKE r \in R
  <2>2. PICK b \in BOOLEAN :
          b = ~ (rows[r].live /\ Cardinality(LiveRows(rows)) > 1)
    OBVIOUS
  <2>3. Grandfathered(rows)[r] = [rows[r] EXCEPT !.enforced = b]
    BY <1>3, <2>2 DEF Grandfathered
  <2>4. PICK p \in Profiles, l \in BOOLEAN :
          /\ p = rows[r].profile /\ l = rows[r].live
          /\ rows[r] = [profile |-> p, live |-> l, enforced |-> rows[r].enforced]
    BY <1>2
  <2>5. Grandfathered(rows)[r] = [profile |-> p, live |-> l, enforced |-> b]
    BY <2>3, <2>4
  <2>6. [profile |-> p, live |-> l, enforced |-> b] \in Rows
    BY DEF Rows
  <2>7. QED
    BY <2>4, <2>5, <2>6
<1>5. Grandfathered(rows) \in [R -> Rows]
  BY <1>3, <1>4 DEF Grandfathered
<1>6. LiveRows(Grandfathered(rows)) = LiveRows(rows)
  BY <1>3, <1>4 DEF LiveRows
<1>7. QED
  BY <1>3, <1>4, <1>5, <1>6 DEF RowSets, SameProfile, LiveRows

\* Each transaction of Open succeeds, keeps the file sane and who holds the
\* amount, and leaves it as the next one expects it.
LEMMA UpgradeStep ==
  ASSUME NEW d, NEW step \in Steps, NEW found, Sane(d), Ready(step, found, d),
         NEW n, n = Applied(step, found, d)
  PROVE  /\ Passes(step, d) /\ Sane(n)
         /\ Ready(After(step), Kept(step, found), n)
         /\ LiveRows(n.rows) = LiveRows(d.rows)
<1>1. /\ d = [version |-> d.version, has |-> d.has, rows |-> d.rows]
      /\ d.version \in 0..8 /\ d.has \subseteq Features /\ d.rows \in RowSets
  BY DatabaseShape DEF Sane
<1>2. ASSUME NEW v \in 1..4, NEW new \in SUBSET Features, n = Recorded(d, v, new)
      PROVE  /\ n \in Databases /\ n.version = v /\ n.has = d.has \cup new
             /\ n.rows = d.rows
  <2>1. n = [version |-> v, has |-> d.has \cup new, rows |-> d.rows]
    BY <1>1, <1>2 DEF Recorded
  <2>2. QED
    BY <1>1, <2>1, DatabaseOf
<1>3. CASE step = "v1"
  <2>1. CASE found < 1
    <3>1. n = Recorded(d, 1, {ProfileIndex, Singleton, WideAdjustment})
      BY <1>3, <2>1 DEF Applied, ApplyV1
    <3>2. {ProfileIndex, Singleton, WideAdjustment} \in SUBSET Features
      BY DEF Features
    <3>3. n \in Databases /\ n.version = 1 /\ n.rows = d.rows
      BY <1>2, <3>1, <3>2
    <3>4. QED
      BY <1>3, <2>1, <3>3 DEF After, Kept, Ready, Serving, Passes, Sane, Vouched
  <2>2. CASE ~ (found < 1)
    BY <1>3, <2>2 DEF Applied, After, Kept, Ready, Serving, Passes, Sane
  <2>3. QED
    BY <2>1, <2>2
<1>4. CASE step = "v2"
  <2>1. CASE found < 2
    <3>1. n = Recorded(d, 2, {HealthColumns})
      BY <1>4, <2>1 DEF Applied, ApplyV2
    <3>2. {HealthColumns} \in SUBSET Features
      BY DEF Features
    <3>3. n \in Databases /\ n.version = 2 /\ n.rows = d.rows
          /\ n.has = d.has \cup {HealthColumns}
      BY <1>2, <3>1, <3>2
    <3>4. QED
      BY <1>4, <2>1, <3>3 DEF After, Kept, Ready, Serving, Passes, Sane, Vouched
  <2>2. CASE ~ (found < 2)
    BY <1>4, <2>2 DEF Applied, After, Kept, Ready, Serving, Passes, Sane
  <2>3. QED
    BY <2>1, <2>2
<1>5. CASE step = "v3"
  <2>1. CASE found < 3
    <3>1. n = Recorded(d, 3, {LegacyParser})
      BY <1>5, <2>1 DEF Applied, ApplyV3
    <3>2. {LegacyParser} \in SUBSET Features
      BY DEF Features
    <3>3. n \in Databases /\ n.version = 3 /\ n.rows = d.rows
          /\ n.has = d.has \cup {LegacyParser}
      BY <1>2, <3>1, <3>2
    <3>4. HealthColumns \in d.has
      BY <1>5, <2>1 DEF Ready, Sane, Vouched
    <3>5. QED
      BY <1>5, <2>1, <3>3, <3>4 DEF After, Kept, Ready, Serving, Passes, Sane, Vouched
  <2>2. CASE ~ (found < 3)
    BY <1>5, <2>2 DEF Applied, After, Kept, Ready, Serving, Passes, Sane
  <2>3. QED
    BY <2>1, <2>2
<1>6. CASE step = "v4"
  <2>1. CASE found < 4
    <3>1. n = Recorded(d, 4, {Corroboration})
      BY <1>6, <2>1 DEF Applied, ApplyV4
    <3>2. {Corroboration} \in SUBSET Features
      BY DEF Features
    <3>3. n \in Databases /\ n.version = 4 /\ n.rows = d.rows
          /\ n.has = d.has \cup {Corroboration}
      BY <1>2, <3>1, <3>2
    <3>4. HealthColumns \in d.has /\ LegacyParser \in d.has
      BY <1>6, <2>1 DEF Ready, Sane, Vouched
    <3>5. QED
      BY <1>6, <2>1, <3>3, <3>4 DEF After, Kept, Ready, Serving, Passes, Sane, Vouched
  <2>2. CASE ~ (found < 4)
    BY <1>6, <2>2 DEF Applied, After, Kept, Ready, Serving, Passes, Sane
  <2>3. QED
    BY <2>1, <2>2
<1>7. CASE step = "compatibility"
  <2>1. d.version \in 4..7 /\ {HealthColumns, LegacyParser, Corroboration} \subseteq d.has
    BY <1>7 DEF Ready, Sane, Vouched
  <2>2. PICK h \in SUBSET Features :
          h = (d.has \ {PlainIndex, HistoricalTriggers}) \cup Enforcement
    BY <1>1 DEF Enforcement, Features
  <2>3. n = [version |-> 4, has |-> h, rows |-> Grandfathered(d.rows)]
    BY <1>7, <2>1, <2>2 DEF Applied, Reconciled, Enforcement
  <2>4. Grandfathered(d.rows) \in RowSets
    BY <1>1, MarkingKeepsHolders
  <2>5. n \in Databases /\ n.version = 4 /\ n.has = h /\ n.rows = Grandfathered(d.rows)
    BY <2>3, <2>4, DatabaseOf
  <2>6. /\ {HealthColumns, LegacyParser, Corroboration} \subseteq h
        /\ Enforcement \subseteq h
        /\ PlainIndex \notin h /\ HistoricalTriggers \notin h
    <3>1. {PlainIndex, HistoricalTriggers}
             \cap (Enforcement \cup {HealthColumns, LegacyParser, Corroboration}) = {}
      BY FeaturesOfThisBuild DEF Enforcement
    <3>2. QED
      BY <2>1, <2>2, <3>1
  <2>7. Passes(step, d)
    BY <1>7, <2>1 DEF Passes, Reconcilable, Supported, Sane
  <2>8. QED
    BY <1>1, <1>7, <2>5, <2>6, <2>7, MarkingKeepsHolders
    DEF After, Kept, Ready, Serving, Sane, Vouched
<1>8. ASSUME NEW h \in SUBSET Features, n = [d EXCEPT !.has = h],
             {HealthColumns, LegacyParser, Corroboration} \subseteq h
      PROVE  /\ Sane(n) /\ n.version = d.version /\ n.has = h /\ n.rows = d.rows
  <2>1. n = [version |-> d.version, has |-> h, rows |-> d.rows]
    BY <1>1, <1>8
  <2>2. QED
    BY <1>1, <1>8, <2>1, DatabaseOf DEF Sane, Vouched
<1>9. ASSUME step \in {"capacity", "multi-relay", "payload"}
      PROVE  /\ d.version = 4 /\ Enforcement \subseteq d.has
             /\ {HealthColumns, LegacyParser, Corroboration} \subseteq d.has
             /\ PlainIndex \notin d.has /\ HistoricalTriggers \notin d.has
             /\ Passes(step, d)
  BY <1>9 DEF Ready, Sane, Vouched, Passes
<1>10. CASE step = "capacity"
  <2>1. CASE WideAdjustment \in d.has
    BY <1>9, <1>10, <2>1
    DEF Applied, WithAdjustmentCapacity, After, Kept, Ready, Serving
  <2>2. CASE WideAdjustment \notin d.has
    <3>1. PICK h \in SUBSET Features : h = d.has \cup {WideAdjustment, ConsistencyTriggers}
      BY <1>1 DEF Features
    <3>2. n = [d EXCEPT !.has = h]
      BY <1>1, <1>10, <2>2, <3>1 DEF Applied, WithAdjustmentCapacity
    <3>3. /\ Sane(n) /\ n.version = d.version /\ n.has = h /\ n.rows = d.rows
      BY <1>8, <1>9, <1>10, <3>1, <3>2
    <3>4. PlainIndex \notin h /\ HistoricalTriggers \notin h
      BY <1>9, <1>10, <3>1, FeaturesOfThisBuild
    <3>5. QED
      BY <1>9, <1>10, <3>1, <3>3, <3>4 DEF After, Kept, Ready, Serving
  <2>3. QED
    BY <2>1, <2>2
<1>11. CASE step = "multi-relay"
  <2>1. PICK h \in SUBSET Features : h = d.has \ {Singleton}
    BY <1>1
  <2>2. n = [d EXCEPT !.has = h]
    BY <1>1, <1>11, <2>1 DEF Applied, WithMultiRelay
  <2>3. /\ {HealthColumns, LegacyParser, Corroboration} \subseteq h
        /\ Enforcement \subseteq h /\ WideAdjustment \in h
    <3>1. Singleton \notin Enforcement \cup {HealthColumns, LegacyParser, Corroboration,
                                            WideAdjustment}
      BY FeaturesOfThisBuild DEF Enforcement
    <3>2. WideAdjustment \in d.has
      BY <1>11 DEF Ready
    <3>3. QED
      BY <1>9, <1>11, <2>1, <3>1, <3>2
  <2>4. /\ Sane(n) /\ n.version = d.version /\ n.has = h /\ n.rows = d.rows
    BY <1>8, <2>2, <2>3
  <2>5. QED
    BY <1>9, <1>11, <2>1, <2>3, <2>4 DEF After, Kept, Ready, Serving
<1>12. CASE step = "payload"
  <2>1. PICK h \in SUBSET Features : h = d.has \cup {PayloadHash, ConsistencyTriggers}
    BY <1>1 DEF Features
  <2>2. n = [d EXCEPT !.has = h]
    BY <1>1, <1>12, <2>1 DEF Applied, WithPayloadIntegrity
  <2>3. WideAdjustment \in d.has /\ Singleton \notin d.has
    BY <1>12 DEF Ready
  <2>4. h = Current
    <3>1. Current \subseteq h
      BY <1>9, <1>12, <2>1, <2>3, FeaturesOfThisBuild DEF Enforcement
    <3>2. {PlainIndex, HistoricalTriggers, Singleton} \cap h = {}
      BY <1>9, <1>12, <2>1, <2>3, FeaturesOfThisBuild
    <3>3. QED
      BY <3>1, <3>2, FeaturesOfThisBuild
  <2>5. /\ Sane(n) /\ n.version = d.version /\ n.has = h /\ n.rows = d.rows
    BY <1>8, <1>9, <1>12, <2>1, <2>2
  <2>6. IsCurrent(n)
    BY <1>9, <1>12, <2>4, <2>5 DEF IsCurrent, schemaVersion
  <2>7. QED
    BY <1>9, <1>12, <2>5, <2>6 DEF After, Kept, Ready, Serving
<1>13. QED
  BY <1>3, <1>4, <1>5, <1>6, <1>7, <1>10, <1>11, <1>12 DEF Steps

\* On a file of this build's schema every transaction of Open only marks
\* reservations: a process that opens it takes nothing from one before it.
LEMMA CurrentStays ==
  ASSUME NEW d, NEW step \in Steps, NEW found, Sane(d), Ready(step, found, d),
         IsCurrent(d), NEW n, n = Applied(step, found, d)
  PROVE  IsCurrent(n)
<1>1. /\ d = [version |-> d.version, has |-> d.has, rows |-> d.rows]
      /\ d.version = 4 /\ d.has = Current
  BY DatabaseShape DEF Sane, IsCurrent, schemaVersion
<1>2. CASE step \in {"v1", "v2", "v3", "v4"}
  <2>1. found \in 0..7 /\ found = 4
    BY <1>1, <1>2 DEF Ready
  <2>2. n = d
    BY <1>2, <2>1 DEF Applied
  <2>3. QED
    BY <2>2
<1>3. CASE step = "compatibility"
  <2>1. (d.has \ {PlainIndex, HistoricalTriggers})
          \cup {Marker, Epoch, ProfileIndex, MarkedIndex, StrictTriggers} = Current
    BY <1>1, FeaturesOfThisBuild
  <2>2. n = [version |-> 4, has |-> Current, rows |-> Grandfathered(d.rows)]
    BY <1>1, <1>3, <2>1 DEF Applied, Reconciled
  <2>3. QED
    BY <2>2 DEF IsCurrent, schemaVersion
<1>4. CASE step = "capacity"
  <2>1. WideAdjustment \in d.has
    BY <1>1 DEF Current
  <2>2. n = d
    BY <1>4, <2>1 DEF Applied, WithAdjustmentCapacity
  <2>3. QED
    BY <2>2
<1>5. ASSUME n = [d EXCEPT !.has = Current]
      PROVE  IsCurrent(n)
  <2>1. n = [version |-> 4, has |-> Current, rows |-> d.rows]
    BY <1>1, <1>5
  <2>2. QED
    BY <2>1 DEF IsCurrent, schemaVersion
<1>6. CASE step = "multi-relay"
  <2>1. d.has \ {Singleton} = Current
    BY <1>1, FeaturesOfThisBuild
  <2>2. n = [d EXCEPT !.has = Current]
    BY <1>1, <1>6, <2>1 DEF Applied, WithMultiRelay
  <2>3. QED
    BY <1>5, <2>2
<1>7. CASE step = "payload"
  <2>1. d.has \cup {PayloadHash, ConsistencyTriggers} = Current
    BY <1>1 DEF Current
  <2>2. n = [d EXCEPT !.has = Current]
    BY <1>1, <1>7, <2>1 DEF Applied, WithPayloadIntegrity
  <2>3. QED
    BY <1>5, <2>2
<1>8. QED
  BY <1>2, <1>3, <1>4, <1>6, <1>7 DEF Steps

---------------------------------------------------------------------------
(* Reservations.                                                           *)

\* A file with this build's triggers takes a reservation of the amount only when
\* nobody holds it.
LEMMA ReserveOnCurrent ==
  ASSUME NEW d, Sane(d), IsCurrent(d), NEW r \in Reservations \ DOMAIN d.rows,
         NEW p \in Profiles, InsertAllowed(d, p), NEW n, n = Inserted(d, r, p)
  PROVE  Sane(n) /\ IsCurrent(n) /\ LiveRows(n.rows) = {r}
<1>1. /\ d = [version |-> d.version, has |-> d.has, rows |-> d.rows]
      /\ d.version \in 0..8 /\ d.has \subseteq Features /\ d.rows \in RowSets
  BY DatabaseShape DEF Sane
<1>2. LiveRows(d.rows) = {}
  <2>1. StrictTriggers \in d.has
    BY DEF IsCurrent, Current
  <2>2. QED
    BY <2>1 DEF InsertAllowed, Triggers
<1>3. PICK R \in SUBSET Reservations : d.rows \in [R -> Rows]
  BY <1>1 DEF RowSets
<1>4. PICK row \in Rows : row = [profile |-> p, live |-> TRUE, enforced |-> TRUE]
  BY DEF Rows
<1>5. PICK new \in [R \cup {r} -> Rows] :
        new = [x \in R \cup {r} |-> IF x = r THEN row ELSE d.rows[x]]
  <2>1. \A x \in R : d.rows[x] \in Rows
    BY <1>3
  <2>2. QED
    BY <1>4, <2>1
<1>6. n = [version |-> d.version, has |-> d.has, rows |-> new]
  BY <1>1, <1>3, <1>4, <1>5 DEF Inserted
<1>7. new \in RowSets
  BY <1>3, <1>5 DEF RowSets
<1>8. n \in Databases /\ n.version = d.version /\ n.has = d.has /\ n.rows = new
  BY <1>1, <1>6, <1>7, DatabaseOf
<1>9. LiveRows(new) = {r}
  <2>1. DOMAIN new = R \cup {r} /\ new[r].live /\ r \notin R
    BY <1>3, <1>4, <1>5
  <2>2. \A x \in R : new[x] = d.rows[x] /\ ~ d.rows[x].live
    BY <1>2, <1>3, <1>5, <2>1 DEF LiveRows
  <2>3. QED
    BY <2>1, <2>2 DEF LiveRows
<1>10. QED
  BY <1>8, <1>9 DEF Sane, Vouched, IsCurrent, SameProfile

\* A release changes who holds the amount and nothing else.
LEMMA ReleaseOnCurrent ==
  ASSUME NEW d, Sane(d), IsCurrent(d), NEW r \in LiveRows(d.rows),
         NEW n, n = Released(d, r)
  PROVE  Sane(n) /\ IsCurrent(n) /\ LiveRows(n.rows) \subseteq LiveRows(d.rows)
<1>0. PICK ended \in BOOLEAN : ended = FALSE
  OBVIOUS
<1>1. /\ d = [version |-> d.version, has |-> d.has, rows |-> d.rows]
      /\ d.version \in 0..8 /\ d.has \subseteq Features /\ d.rows \in RowSets
  BY DatabaseShape DEF Sane
<1>2. PICK R \in SUBSET Reservations : d.rows \in [R -> Rows]
  BY <1>1 DEF RowSets
<1>3. r \in R
  BY <1>2 DEF LiveRows
<1>4. PICK p \in Profiles, held \in BOOLEAN, e \in BOOLEAN :
        d.rows[r] = [profile |-> p, live |-> held, enforced |-> e]
  BY <1>2, <1>3 DEF Rows
<1>5. PICK row \in Rows : row = [profile |-> p, live |-> ended, enforced |-> e]
  BY DEF Rows
<1>6. PICK new \in [R -> Rows] : new = [d.rows EXCEPT ![r] = row]
  BY <1>2, <1>3
<1>7. n = [version |-> d.version, has |-> d.has, rows |-> new]
  <2>1. n = [d EXCEPT !.rows = [d.rows EXCEPT ![r] = [d.rows[r] EXCEPT !.live = FALSE]]]
    BY DEF Released
  <2>2. PICK old : old = d.rows[r] /\ old = [profile |-> p, live |-> held, enforced |-> e]
    BY <1>4
  <2>3. [old EXCEPT !.live = ended] = row
    BY <1>5, <2>2
  <2>4. QED
    BY <1>0, <1>1, <1>6, <2>1, <2>2, <2>3
<1>8. new \in RowSets
  BY <1>2, <1>6 DEF RowSets
<1>9. n \in Databases /\ n.version = d.version /\ n.has = d.has /\ n.rows = new
  BY <1>1, <1>7, <1>8, DatabaseOf
<1>10. /\ DOMAIN new = R /\ DOMAIN d.rows = R /\ ~ new[r].live
       /\ \A x \in R : new[x].profile = d.rows[x].profile
       /\ \A x \in R : new[x].live => d.rows[x].live
  BY <1>0, <1>2, <1>3, <1>4, <1>5, <1>6
<1>11. LiveRows(new) \subseteq LiveRows(d.rows)
  BY <1>10 DEF LiveRows
<1>12. ~ SameProfile(new)
  BY <1>10, <1>11 DEF Sane, SameProfile, LiveRows
<1>13. QED
  BY <1>9, <1>11, <1>12 DEF Sane, Vouched, IsCurrent

---------------------------------------------------------------------------
(* The processes.                                                          *)

Stops == {"down", "versions", "serving", "closed", "released"}
\* Where a process has the lock.
Holding == Steps \cup {"versions", "serving", "closed"}
Places == [at : Steps \cup Stops, found : 0..8]

\* Only the owner of the lock opens, serves or closes the file; the file is as
\* far as each process says, which for one that has served is this build's
\* schema; and only a process that has served has anything under way.
DirectoryInv ==
  /\ proc \in [Processes -> Places]
  /\ \A p \in Processes : proc[p].at \in Holding => owner = p
  /\ Sane(db)
  /\ \A p \in Processes : Ready(proc[p].at, proc[p].found, db)
  /\ inFlight \in [Processes -> Nat]
  /\ \A p \in Processes : inFlight[p] > 0 => proc[p].at \in Serving
  /\ backup = [at |-> backup.at, by |-> backup.by, stamp |-> backup.stamp,
               listed |-> backup.listed]
  /\ backup.at # "idle" => backup.by \in Processes /\ proc[backup.by].at \in Serving

\* A process that is down has nothing to say of the file, one that has released
\* the lock says that it is of this build, and none of the two holds the lock.
LEMMA PlacesApart ==
  /\ Down \in Places /\ Down.at = "down"
  /\ {"down", "released"} \cap Holding = {} /\ "down" \notin Serving
  /\ Steps \cup Stops = Holding \cup {"down", "released"}
  /\ \A f, d : Ready("down", f, d) /\ (Ready("released", f, d) <=> IsCurrent(d))
BY DEF Down, Places, Stops, Holding, Serving, Steps, Ready

\* The lock file is free and every file is as its build left it.
LEMMA InitDirectory == DirectoryInit => DirectoryInv
<1> SUFFICES ASSUME DirectoryInit
             PROVE  DirectoryInv
  OBVIOUS
<1>1. /\ proc = [p \in Processes |-> Down] /\ Sane(db)
      /\ inFlight = [p \in Processes |-> 0] /\ backup = NoBackup
  BY EarlierSane DEF DirectoryInit
<1>2. QED
  BY <1>1, PlacesApart DEF DirectoryInv, NoBackup

\* A step of the owner p, or of one that becomes it, to a place the file is
\* ready for.
LEMMA OwnerMoves ==
  ASSUME DirectoryInv, NEW p \in Processes, owner \in {p, Nobody},
         NEW at \in Steps \cup Stops, NEW found \in 0..8,
         proc' = [proc EXCEPT ![p] = [at |-> at, found |-> found]],
         owner' = p \/ at \notin Holding, proc[p].at \in Serving => at \in Serving,
         UNCHANGED <<inFlight, backup>>, Sane(db'), Ready(at, found, db'),
         IsCurrent(db) => IsCurrent(db')
  PROVE  DirectoryInv'
<1>1. [at |-> at, found |-> found] \in Places
  BY DEF Places
<1>2. /\ proc'[p].at = at /\ proc'[p].found = found
      /\ \A q \in Processes \ {p} : proc'[q] = proc[q]
      /\ proc' \in [Processes -> Places]
  BY <1>1 DEF DirectoryInv
<1>3. \A q \in Processes \ {p} : proc[q].at \in {"down", "released"}
  <2>1. TAKE q \in Processes \ {p}
  <2>2. owner # q
    BY DirectoryAssumption DEF DirectoryAssumption
  <2>3. proc[q].at \in Steps \cup Stops
    BY DEF DirectoryInv, Places
  <2>4. QED
    BY <2>2, <2>3, PlacesApart DEF DirectoryInv
<1>4. \A q \in Processes \ {p} : Ready(proc'[q].at, proc'[q].found, db')
  <2>1. TAKE q \in Processes \ {p}
  <2>2. Ready(proc[q].at, proc[q].found, db) /\ proc[q].at \in {"down", "released"}
    BY <1>3 DEF DirectoryInv
  <2>3. QED
    BY <1>2, <2>2, PlacesApart
<1>5. \A q \in Processes : proc'[q].at \in Holding => owner' = q
  BY <1>2, <1>3, PlacesApart
<1>6. \A q \in Processes : proc[q].at \in Serving => proc'[q].at \in Serving
  BY <1>2
<1>7. QED
  BY <1>2, <1>4, <1>5, <1>6 DEF DirectoryInv

\* A process ends, and with it what it has under way.
LEMMA ProcessEnds ==
  ASSUME DirectoryInv, NEW p \in Processes, Ended(p), db' = db,
         \A q \in Processes \ {p} : owner = q => owner' = q
  PROVE  DirectoryInv'
<1>1. /\ proc'[p] = Down /\ inFlight'[p] = 0
      /\ \A q \in Processes \ {p} : proc'[q] = proc[q] /\ inFlight'[q] = inFlight[q]
      /\ proc' \in [Processes -> Places] /\ inFlight' \in [Processes -> Nat]
  BY PlacesApart DEF Ended, DirectoryInv
<1>2. \A q \in Processes : proc'[q].at \in Holding => owner' = q
  BY <1>1, PlacesApart DEF DirectoryInv
<1>3. \A q \in Processes : Ready(proc'[q].at, proc'[q].found, db')
  BY <1>1, PlacesApart DEF DirectoryInv
<1>4. \A q \in Processes : inFlight'[q] > 0 => proc'[q].at \in Serving
  BY <1>1 DEF DirectoryInv
<1>5. /\ backup' = [at |-> backup'.at, by |-> backup'.by, stamp |-> backup'.stamp,
                    listed |-> backup'.listed]
      /\ backup'.at # "idle" => backup'.by \in Processes /\ proc'[backup'.by].at \in Serving
  <2>1. CASE backup.by = p
    BY <2>1 DEF Ended, NoBackup
  <2>2. CASE backup.by # p
    <3>1. backup' = backup
      BY <2>2 DEF Ended
    <3>2. QED
      BY <1>1, <2>2, <3>1 DEF DirectoryInv
  <2>3. QED
    BY <2>1, <2>2
<1>6. Sane(db')
  BY DEF DirectoryInv
<1>7. QED
  BY <1>1, <1>2, <1>3, <1>4, <1>5, <1>6 DEF DirectoryInv

\* A transaction on a file of this build: every process finds the file as it
\* expects it, the one that opens it among them.
LEMMA TransactionKeepsReady ==
  ASSUME DirectoryInv, NEW n, IsCurrent(db), IsCurrent(n)
  PROVE  \A p \in Processes : Ready(proc[p].at, proc[p].found, n)
<1>1. TAKE p \in Processes
<1>2. Ready(proc[p].at, proc[p].found, db)
  BY DEF DirectoryInv
<1>3. n.version = db.version /\ n.has = db.has
  BY DEF IsCurrent
<1>4. QED
  BY <1>2, <1>3 DEF Ready

\* A connection is handed out, or comes back with a reservation written or not.
LEMMA TransactionsKeep ==
  ASSUME DirectoryInv, NEW p \in Processes, Transaction(p)
  PROVE  DirectoryInv' /\ (db' # db => Sane(db) /\ IsCurrent(db))
<1>1. UNCHANGED <<process, backup>>
  BY DEF Transaction, Connect, Reserve, ReleaseDue, Rollback, backups
<1>2. proc[p].at \in Serving
  BY DEF Transaction, Connect, Reserve, ReleaseDue, Rollback, Returned, DirectoryInv, Serving
<1>3. Sane(db) /\ IsCurrent(db)
  BY <1>2 DEF DirectoryInv, Ready
<1>4. Sane(db') /\ IsCurrent(db')
  BY <1>3, ReserveOnCurrent, ReleaseOnCurrent
  DEF Transaction, Connect, Reserve, ReleaseDue, Rollback
<1>5. \A q \in Processes : Ready(proc[q].at, proc[q].found, db')
  BY <1>3, <1>4, TransactionKeepsReady
<1>6. /\ inFlight' \in [Processes -> Nat]
      /\ \A q \in Processes \ {p} : inFlight'[q] = inFlight[q]
  <2>1. inFlight[p] \in Nat
    BY DEF DirectoryInv
  <2>2. \/ inFlight' = [inFlight EXCEPT ![p] = inFlight[p] + 1]
        \/ inFlight[p] > 0 /\ inFlight' = [inFlight EXCEPT ![p] = inFlight[p] - 1]
    BY DEF Transaction, Connect, Reserve, ReleaseDue, Rollback, Returned
  <2>3. inFlight \in [Processes -> Nat]
    BY DEF DirectoryInv
  <2>4. QED
    BY <2>1, <2>2, <2>3
<1>7. QED
  BY <1>1, <1>2, <1>3, <1>4, <1>5, <1>6 DEF DirectoryInv, process

\* The backup worker writes neither the file nor the lock, and its attempt stays
\* with the process that began it.
LEMMA BackupsAreAside ==
  ASSUME DirectoryInv, BackupStep
  PROVE  /\ UNCHANGED <<db, process, inFlight>> /\ backup.at # "idle"
         /\ backup' = [at |-> backup'.at, by |-> backup'.by, stamp |-> backup'.stamp,
                       listed |-> backup'.listed]
         /\ backup'.at # "idle" => backup'.by = backup.by
<1>1. UNCHANGED <<db, process, inFlight>> /\ backup.at # "idle"
  BY DEF BackupStep, CopyBackup, SyncBackup, ChmodBackup, LinkBackup, RemoveTemp,
         SyncDirectory, PruneOldest, FailBackup
<1>2. \/ backup' = NoBackup
      \/ \E at, stamp, listed :
           backup' = [backup EXCEPT !.at = at, !.stamp = stamp, !.listed = listed]
  <2>1. backup = [at |-> backup.at, by |-> backup.by, stamp |-> backup.stamp,
                  listed |-> backup.listed]
    BY DEF DirectoryInv
  <2>2. CASE CopyBackup
    <3>1. PICK n : backup' = [backup EXCEPT !.at = "copied", !.stamp = n]
      BY <2>2 DEF CopyBackup
    <3>2. [backup EXCEPT !.at = "copied", !.stamp = n]
            = [backup EXCEPT !.at = "copied", !.stamp = n, !.listed = backup.listed]
      BY <2>1
    <3>3. QED
      BY <3>1, <3>2
  <2>3. CASE SyncBackup \/ ChmodBackup \/ LinkBackup \/ RemoveTemp
    <3>1. PICK at : backup' = [backup EXCEPT !.at = at]
      BY <2>3 DEF SyncBackup, ChmodBackup, LinkBackup, RemoveTemp
    <3>2. [backup EXCEPT !.at = at]
            = [backup EXCEPT !.at = at, !.stamp = backup.stamp, !.listed = backup.listed]
      BY <2>1
    <3>3. QED
      BY <3>1, <3>2
  <2>4. CASE SyncDirectory
    <3>1. backup' = [backup EXCEPT !.at = "pruning", !.listed = dir]
      BY <2>4 DEF SyncDirectory
    <3>2. [backup EXCEPT !.at = "pruning", !.listed = dir]
            = [backup EXCEPT !.at = "pruning", !.stamp = backup.stamp, !.listed = dir]
      BY <2>1
    <3>3. QED
      BY <3>1, <3>2
  <2>5. CASE PruneOldest
    <3>1. CASE backup' = NoBackup
      BY <3>1
    <3>2. CASE backup' # NoBackup
      <4>1. PICK rest : backup' = [backup EXCEPT !.listed = rest]
        BY <2>5, <3>2 DEF PruneOldest
      <4>2. [backup EXCEPT !.listed = rest]
              = [backup EXCEPT !.at = backup.at, !.stamp = backup.stamp, !.listed = rest]
        BY <2>1
      <4>3. QED
        BY <4>1, <4>2
    <3>3. QED
      BY <3>1, <3>2
  <2>6. CASE FailBackup
    BY <2>6 DEF FailBackup
  <2>7. QED
    BY <2>2, <2>3, <2>4, <2>5, <2>6 DEF BackupStep
<1>3. CASE backup' = NoBackup
  BY <1>1, <1>3 DEF NoBackup
<1>4. ASSUME NEW at, NEW stamp, NEW listed,
             backup' = [backup EXCEPT !.at = at, !.stamp = stamp, !.listed = listed]
      PROVE  backup' = [at |-> at, by |-> backup.by, stamp |-> stamp, listed |-> listed]
  BY <1>4 DEF DirectoryInv
<1>5. CASE backup' # NoBackup
  <2>1. PICK at, stamp, listed :
          backup' = [at |-> at, by |-> backup.by, stamp |-> stamp, listed |-> listed]
    BY <1>2, <1>4, <1>5
  <2>2. QED
    BY <1>1, <2>1
<1>6. QED
  BY <1>3, <1>5

\* Every step keeps the invariant.
LEMMA StepDirectory == DirectoryInv /\ [DirectoryNext]_directoryVars => DirectoryInv'
<1> SUFFICES ASSUME DirectoryInv, [DirectoryNext]_directoryVars
             PROVE  DirectoryInv'
  OBVIOUS
<1>0. \A p \in Processes :
        /\ proc[p] = [at |-> proc[p].at, found |-> proc[p].found]
        /\ proc[p].at \in Steps \cup Stops /\ proc[p].found \in 0..8
        /\ Ready(proc[p].at, proc[p].found, db)
        /\ proc[p].at \in Holding => owner = p
  BY DEF DirectoryInv, Places
<1>1. Down = [at |-> "down", found |-> 0] /\ 0 \in 0..8 /\ Sane(db)
  BY DEF Down, DirectoryInv
<1>2. ASSUME NEW p \in Processes, Acquire(p)
      PROVE  DirectoryInv'
  <2>1. /\ owner = Nobody /\ owner' = p /\ UNCHANGED <<db, inFlight, backup>>
        /\ proc' = [proc EXCEPT ![p] = [at |-> "versions", found |-> 0]]
        /\ proc[p].at \notin Serving
    <3>1. [Down EXCEPT !.at = "versions"] = [at |-> "versions", found |-> 0]
      BY DEF Down
    <3>2. QED
      BY <1>2, <3>1, PlacesApart DEF Acquire, backups
  <2>2. Ready("versions", 0, db')
    BY DEF Ready, Serving
  <2>3. "versions" \in Steps \cup Stops /\ Sane(db')
    BY <1>1, <2>1 DEF Stops
  <2>4. QED
    BY <1>1, <2>1, <2>2, <2>3, OwnerMoves
<1>3. ASSUME NEW p \in Processes, ReadVersions(p)
      PROVE  DirectoryInv'
  <2>1. /\ proc[p].at = "versions" /\ owner = p /\ UNCHANGED <<db, inFlight, backup>>
        /\ proc[p].at \notin Serving
    BY <1>0, <1>3 DEF ReadVersions, Holding, Serving, backups
  <2>2. CASE Supported(db)
    <3>1. proc' = [proc EXCEPT ![p] = [at |-> "v1", found |-> db.version]] /\ owner' = p
      BY <1>3, <2>1, <2>2 DEF ReadVersions
    <3>2. db.version \in 0..7
      BY <2>2, DatabaseShape DEF Supported, DirectoryInv, Sane
    <3>3. Ready("v1", db.version, db')
      BY <2>1, <3>2 DEF Ready, Serving
    <3>4. "v1" \in Steps /\ db.version \in 0..8 /\ Sane(db')
      BY <1>1, <2>1, <3>2 DEF Steps
    <3>5. QED
      BY <2>1, <3>1, <3>3, <3>4, OwnerMoves
  <2>3. CASE ~ Supported(db)
    <3>1. proc' = [proc EXCEPT ![p] = [at |-> "down", found |-> 0]] /\ owner' = Nobody
      BY <1>1, <1>3, <2>1, <2>3 DEF ReadVersions
    <3>2. Ready("down", 0, db') /\ Sane(db') /\ "down" \in Steps \cup Stops
      BY <1>1, <2>1, PlacesApart DEF Stops
    <3>3. QED
      BY <1>1, <2>1, <3>1, <3>2, PlacesApart, OwnerMoves
  <2>4. QED
    BY <2>2, <2>3
<1>4. ASSUME NEW p \in Processes, Upgrade(p)
      PROVE  DirectoryInv'
  <2>1. PICK step \in Steps, found \in 0..8 :
          step = proc[p].at /\ found = proc[p].found
    BY <1>0, <1>4 DEF Upgrade
  <2>2. Sane(db) /\ Ready(step, found, db)
    BY <1>0, <1>1, <2>1
  <2>3. PICK n : n = Applied(step, found, db)
    OBVIOUS
  <2>4. Passes(step, db) /\ Sane(n) /\ Ready(After(step), Kept(step, found), n)
    BY <2>2, <2>3, UpgradeStep
  <2>5. /\ db' = n /\ owner' = owner /\ UNCHANGED <<inFlight, backup>>
        /\ proc' = [proc EXCEPT ![p] = [at |-> After(step), found |-> Kept(step, found)]]
    BY <1>4, <2>1, <2>3, <2>4 DEF Upgrade, Kept, backups
  <2>6. After(step) \in Steps \cup Stops
    BY DEF After, Steps, Stops
  <2>7. Kept(step, found) \in 0..8
    BY DEF Kept
  <2>8. owner = p /\ proc[p].at \notin Serving
    BY <1>0, <2>1 DEF Steps, Holding, Serving
  <2>9. IsCurrent(db) => IsCurrent(db')
    BY <2>2, <2>3, <2>5, CurrentStays
  <2>10. QED
    BY <2>4, <2>5, <2>6, <2>7, <2>8, <2>9, OwnerMoves
<1>5. ASSUME NEW p \in Processes, FailUpgrade(p)
      PROVE  DirectoryInv'
  <2>1. /\ owner = p /\ proc[p].at \notin Serving /\ UNCHANGED <<db, inFlight, backup>>
        /\ proc' = [proc EXCEPT ![p] = [at |-> "down", found |-> 0]]
    BY <1>0, <1>1, <1>5 DEF FailUpgrade, Steps, Holding, Serving, backups
  <2>2. Ready("down", 0, db') /\ Sane(db') /\ "down" \in Steps \cup Stops
    BY <1>1, <2>1, PlacesApart DEF Stops
  <2>3. QED
    BY <1>1, <2>1, <2>2, PlacesApart, OwnerMoves
<1>6. ASSUME NEW p \in Processes, CloseDatabase(p) \/ ReleaseLock(p)
      PROVE  DirectoryInv'
  <2>1. PICK at \in {"closed", "released"} :
          /\ proc' = [proc EXCEPT ![p].at = at]
          /\ at = "closed" => owner' = owner
    BY <1>6 DEF CloseDatabase, ReleaseLock
  <2>2. proc[p].at \in Serving \cap Holding /\ UNCHANGED <<db, inFlight, backup>>
    BY <1>6 DEF CloseDatabase, ReleaseLock, Serving, Holding, backups
  <2>3. owner = p /\ IsCurrent(db)
    BY <1>0, <2>2 DEF Ready
  <2>4. PICK found \in 0..8 : found = proc[p].found
    BY <1>0
  <2>5. proc' = [proc EXCEPT ![p] = [at |-> at, found |-> found]]
    <3>1. PICK old : old = proc[p]
      OBVIOUS
    <3>2. old = [at |-> old.at, found |-> found]
      BY <1>0, <2>4, <3>1
    <3>3. [old EXCEPT !.at = at] = [at |-> at, found |-> found]
      BY <3>2
    <3>4. QED
      BY <2>1, <3>1, <3>3
  <2>6. Ready(at, found, db') /\ Sane(db') /\ at \in Serving /\ at \in Steps \cup Stops
    BY <1>1, <2>2, <2>3 DEF Ready, Serving, Stops
  <2>7. owner' = p \/ at \notin Holding
    BY <2>1, <2>3, PlacesApart
  <2>8. QED
    BY <2>2, <2>3, <2>5, <2>6, <2>7, OwnerMoves
<1>7. ASSUME NEW p \in Processes, Exit(p) \/ Crash(p)
      PROVE  DirectoryInv'
  <2>1. Ended(p) /\ db' = db /\ \A q \in Processes \ {p} : owner = q => owner' = q
    BY <1>7 DEF Exit, Crash
  <2>2. QED
    BY <2>1, ProcessEnds
<1>8. CASE PowerLoss
  <2>1. /\ proc' = [p \in Processes |-> Down] /\ db' = db
        /\ inFlight' = [p \in Processes |-> 0] /\ backup' = NoBackup
    BY <1>8 DEF PowerLoss
  <2>2. QED
    BY <1>1, <2>1, PlacesApart DEF DirectoryInv, NoBackup
<1>9. ASSUME NEW p \in Processes, Transaction(p)
      PROVE  DirectoryInv'
  BY <1>9, TransactionsKeep
<1>10. ASSUME NEW p \in Processes, OpenSource(p)
       PROVE  DirectoryInv'
  <2>1. /\ UNCHANGED <<db, process, inFlight>> /\ proc[p].at \in Serving
        /\ backup' = [NoBackup EXCEPT !.at = "connected", !.by = p]
    BY <1>10 DEF OpenSource, Serving
  <2>2. backup' = [at |-> "connected", by |-> p, stamp |-> 0, listed |-> {}]
    BY <2>1 DEF NoBackup
  <2>3. QED
    BY <2>1, <2>2 DEF DirectoryInv, process
<1>11. CASE BackupStep
  <2>1. /\ UNCHANGED <<db, process, inFlight>> /\ backup.at # "idle"
        /\ backup' = [at |-> backup'.at, by |-> backup'.by, stamp |-> backup'.stamp,
                      listed |-> backup'.listed]
        /\ backup'.at # "idle" => backup'.by = backup.by
    BY <1>11, BackupsAreAside
  <2>2. QED
    BY <2>1 DEF DirectoryInv, process
<1>12. CASE UNCHANGED directoryVars
  BY <1>12 DEF directoryVars, process, backups, DirectoryInv
<1>13. QED
  BY <1>2, <1>3, <1>4, <1>5, <1>6, <1>7, <1>8, <1>9, <1>10, <1>11, <1>12
  DEF DirectoryNext, Opening

\* The invariant holds of every reachable directory.
LEMMA DirectoryHolds == DirectorySpec => []DirectoryInv
BY InitDirectory, StepDirectory, PTL DEF DirectorySpec

\* While a process opens or serves the file, every other with a connection to it
\* has released the lock: the lock is held from before the file is opened until
\* the pool hands out no more connections, on every path.
THEOREM OneProcessOperates == DirectorySpec => []OneOperates
<1>1. DirectoryInv => OneOperates
  <2>1. SUFFICES ASSUME DirectoryInv, NEW p \in Processes, NEW q \in Processes,
                        p # q, Operates(p), HasOpen(q)
                 PROVE  proc[q].at = "released"
    BY DEF OneOperates
  <2>2. owner = p
    BY <2>1 DEF Operates, DirectoryInv, Holding
  <2>3. proc[q].at \notin Holding
    BY <2>1, <2>2 DEF DirectoryInv
  <2>4. inFlight[q] > 0 \/ (backup.by = q /\ backup.at \in Copying)
    <3>1. ~ Operates(q)
      BY <2>3 DEF Operates, Holding
    <3>2. inFlight[q] \in Nat
      BY <2>1 DEF DirectoryInv
    <3>3. QED
      BY <2>1, <3>1, <3>2 DEF HasOpen, InUse
  <2>5. proc[q].at \in Serving
    BY <2>1, <2>4 DEF DirectoryInv, Copying
  <2>6. QED
    BY <2>3, <2>5 DEF Serving, Holding
<1>2. QED
  BY <1>1, DirectoryHolds, PTL

\* A process that serves, or has a transaction out, meets exactly the objects of
\* this build, whichever build left the file, wherever earlier starts were
\* interrupted, and while the next process opens it.
THEOREM ServesUpToDate == DirectorySpec => []ServesCurrentSchema
<1>1. DirectoryInv => ServesCurrentSchema
  BY DEF DirectoryInv, ServesCurrentSchema, Ready, Serving
<1>2. QED
  BY <1>1, DirectoryHolds, PTL

\* No handler, upgrade or restart makes two reservations share the amount that
\* did not share it before.
THEOREM OverlapsOnlyEnd == DirectorySpec => NoNewOverlap
<1> DEFINE Shrinks == Overlaps(db)' \subseteq Overlaps(db)
<1>1. ASSUME DirectoryInv, LiveRows(db'.rows) \subseteq LiveRows(db.rows)
      PROVE  Shrinks
  BY <1>1 DEF Overlaps
<1>2. ASSUME DirectoryInv, [DirectoryNext]_directoryVars
      PROVE  Shrinks
  <2>1. CASE db' = db
    BY <2>1 DEF Overlaps
  <2>2. ASSUME NEW p \in Processes, Upgrade(p)
        PROVE  Shrinks
    <3>1. PICK step, found :
            step \in Steps /\ step = proc[p].at /\ found = proc[p].found
      BY <2>2 DEF Upgrade
    <3>2. Sane(db) /\ Ready(step, found, db)
      BY <1>2, <3>1 DEF DirectoryInv
    <3>3. PICK n : n = Applied(step, found, db)
      OBVIOUS
    <3>4. Passes(step, db) /\ LiveRows(n.rows) = LiveRows(db.rows)
      BY <3>1, <3>2, <3>3, UpgradeStep
    <3>5. db' = n
      BY <2>2, <3>1, <3>3, <3>4 DEF Upgrade
    <3>6. QED
      BY <1>1, <1>2, <3>4, <3>5
  <2>3. ASSUME NEW p \in Processes, Reserve(p)
        PROVE  Shrinks
    <3>0. proc[p].at \in Serving
      BY <1>2, <2>3 DEF Reserve, Returned, DirectoryInv
    <3>1. Sane(db) /\ IsCurrent(db)
      BY <1>2, <3>0 DEF DirectoryInv, Ready
    <3>2. PICK r \in Reservations \ DOMAIN db.rows : LiveRows(db'.rows) = {r}
      BY <2>3, <3>1, ReserveOnCurrent DEF Reserve
    <3>3. \A S \in SUBSET {r} : Cardinality(S) # 2
      <4>1. IsFiniteSet({r}) /\ Cardinality({r}) = 1
        BY FS_Singleton
      <4>2. ASSUME NEW S \in SUBSET {r}
            PROVE  Cardinality(S) # 2
        BY <4>1, FS_Subset, FS_CardinalityType
      <4>3. QED
        BY <4>2
    <3>4. QED
      BY <3>2, <3>3 DEF Overlaps
  <2>4. ASSUME NEW p \in Processes, ReleaseDue(p)
        PROVE  Shrinks
    <3>0. proc[p].at \in Serving
      BY <1>2, <2>4 DEF ReleaseDue, Returned, DirectoryInv
    <3>1. Sane(db) /\ IsCurrent(db)
      BY <1>2, <3>0 DEF DirectoryInv, Ready
    <3>2. LiveRows(db'.rows) \subseteq LiveRows(db.rows)
      BY <2>4, <3>1, ReleaseOnCurrent DEF ReleaseDue
    <3>3. QED
      BY <1>1, <1>2, <3>2
  <2>5. CASE BackupStep
    BY <1>2, <2>1, <2>5, BackupsAreAside
  <2>6. QED
    BY <1>2, <2>1, <2>2, <2>3, <2>4, <2>5
    DEF DirectoryNext, Opening, Acquire, ReadVersions, FailUpgrade, CloseDatabase,
        ReleaseLock, Exit, Crash, Transaction, Connect, Rollback, OpenSource, PowerLoss,
        directoryVars
<1>3. DirectorySpec => [][Shrinks]_directoryVars
  BY <1>2, DirectoryHolds, PTL DEF DirectorySpec
<1>4. QED
  BY <1>3 DEF NoNewOverlap

---------------------------------------------------------------------------
(* The restore drill.                                                      *)

\* Open succeeds on every sane file of a known version and brings it to this
\* build's schema.
LEMMA SaneFilesOpen ==
  ASSUME NEW d, Sane(d), d.version <= 7
  PROVE  Opens(d) /\ IsCurrent(Opened(d))
<1>1. PICK f \in 0..7 : f = d.version
  BY DatabaseShape DEF Sane
<1>2. Ready("v1", f, d)
  BY <1>1 DEF Ready, Serving
<1>3. PICK d1 : d1 = Applied("v1", f, d)
  OBVIOUS
<1>4. Sane(d1) /\ Ready("v2", f, d1)
  BY <1>2, <1>3, UpgradeStep DEF Steps, After, Kept
<1>5. PICK d2 : d2 = Applied("v2", f, d1)
  OBVIOUS
<1>6. Sane(d2) /\ Ready("v3", f, d2)
  BY <1>4, <1>5, UpgradeStep DEF Steps, After, Kept
<1>7. PICK d3 : d3 = Applied("v3", f, d2)
  OBVIOUS
<1>8. Sane(d3) /\ Ready("v4", f, d3)
  BY <1>6, <1>7, UpgradeStep DEF Steps, After, Kept
<1>9. PICK d4 : d4 = Applied("v4", f, d3)
  OBVIOUS
<1>10. Sane(d4) /\ Ready("compatibility", 0, d4) /\ d4 = Migrated(d)
  <2>1. Sane(d4) /\ Ready("compatibility", 0, d4)
    BY <1>8, <1>9, UpgradeStep DEF Steps, After, Kept
  <2>2. QED
    BY <1>1, <1>3, <1>5, <1>7, <1>9, <2>1 DEF Migrated
<1>11. PICK d5 : d5 = Reconciled(d4)
  OBVIOUS
<1>12. Sane(d5) /\ Ready("capacity", 0, d5) /\ Reconcilable(d4)
  <2>1. "compatibility" \in Steps /\ d5 = Applied("compatibility", 0, d4)
    BY <1>11 DEF Steps, Applied
  <2>2. After("compatibility") = "capacity" /\ Kept("compatibility", 0) = 0
    BY DEF After, Kept
  <2>3. Passes("compatibility", d4) /\ Sane(d5) /\ Ready("capacity", 0, d5)
    BY <1>10, <2>1, <2>2, UpgradeStep
  <2>4. QED
    BY <2>3 DEF Passes
<1>13. PICK d6 : d6 = WithAdjustmentCapacity(d5)
  OBVIOUS
<1>14. Sane(d6) /\ Ready("multi-relay", 0, d6)
  <2>1. "capacity" \in Steps /\ d6 = Applied("capacity", 0, d5)
    BY <1>13 DEF Steps, Applied
  <2>2. After("capacity") = "multi-relay" /\ Kept("capacity", 0) = 0
    BY DEF After, Kept
  <2>3. QED
    BY <1>12, <2>1, <2>2, UpgradeStep
<1>15. PICK d7 : d7 = WithMultiRelay(d6)
  OBVIOUS
<1>16. Sane(d7) /\ Ready("payload", 0, d7)
  <2>1. "multi-relay" \in Steps /\ d7 = Applied("multi-relay", 0, d6)
    BY <1>15 DEF Steps, Applied
  <2>2. After("multi-relay") = "payload" /\ Kept("multi-relay", 0) = 0
    BY DEF After, Kept
  <2>3. QED
    BY <1>14, <2>1, <2>2, UpgradeStep
<1>17. PICK d8 : d8 = WithPayloadIntegrity(d7)
  OBVIOUS
<1>18. IsCurrent(d8)
  <2>1. "payload" \in Steps /\ d8 = Applied("payload", 0, d7)
    BY <1>17 DEF Steps, Applied
  <2>2. After("payload") = "serving"
    BY DEF After
  <2>3. Ready("serving", Kept("payload", 0), d8)
    BY <1>16, <2>1, <2>2, UpgradeStep
  <2>4. QED
    BY <2>3 DEF Ready, Serving
<1>19. Opened(d) = d8
  BY <1>10, <1>11, <1>13, <1>15, <1>17 DEF Opened
<1>20. Supported(d)
  BY DEF Supported
<1>21. QED
  BY <1>10, <1>12, <1>18, <1>19, <1>20 DEF Opens

\* What the drill accepts, this build opens and serves from.
THEOREM AcceptedFilesOpen == DirectorySpec => []AcceptedMeansRestorable
<1>1. DirectoryInv => AcceptedMeansRestorable
  <2>1. SUFFICES ASSUME DirectoryInv, RestoreAccepts(db)
                 PROVE  Opens(db) /\ IsCurrent(Opened(db))
    BY DEF AcceptedMeansRestorable
  <2>2. Sane(db) /\ db.version <= 7
    BY <2>1 DEF DirectoryInv, RestoreAccepts, VersionsAccepted
  <2>3. QED
    BY <2>2, SaneFilesOpen
<1>2. QED
  BY <1>1, DirectoryHolds, PTL

---------------------------------------------------------------------------
(* The backups.                                                            *)

Whole(d) == Sane(d) /\ IsCurrent(d)
Settled(n) == n \in DOMAIN files /\ files[n].synced

\* A file is whole once it is synced, and only synced files have had a name.
BackupInv ==
  /\ \E k \in Nat : DOMAIN files = 1..k
  /\ files = [n \in DOMAIN files |-> files[n]]
  /\ \A n \in DOMAIN files :
       /\ files[n] = [data |-> files[n].data, synced |-> files[n].synced,
                      mode |-> files[n].mode]
       /\ files[n].synced \in BOOLEAN
       /\ files[n].synced => Whole(files[n].data)
  /\ \A n \in dir \cup unsynced \cup backup.listed : Settled(n)
  /\ \A n \in succeeded : n \in DOMAIN files /\ files[n].mode = "durable"
  /\ backup.at \notin {"idle", "connected"} => backup.stamp \in DOMAIN files
  /\ backup.at = "copied" => Whole(files[backup.stamp].data)
  /\ backup.at \in {"copied", "synced"} => files[backup.stamp].mode = "default"
  /\ backup.at \in {"synced", "private", "linked", "cleaned"} => Settled(backup.stamp)
  /\ backup.at \in {"private", "linked", "cleaned"} =>
       files[backup.stamp].mode \in {"private", "durable"}

\* This build's files pass the drill's inspection of objects and open.
LEMMA WholeFilesPass ==
  ASSUME NEW d, Whole(d)
  PROVE  RestoreAccepts(d) /\ Opens(d)
<1>1. d.version = 4 /\ d.has = Current
  BY DEF Whole, IsCurrent, schemaVersion
<1>2. Opens(d)
  BY <1>1, SaneFilesOpen DEF Whole
<1>3. VersionsAccepted(d) /\ TransitionAccepted(d)
  BY <1>1 DEF VersionsAccepted, TransitionAccepted
<1>4. ColumnsAccepted(d) /\ ChecksAccepted(d)
  BY <1>1 DEF ColumnsAccepted, ColumnsRequired, ChecksAccepted, ChecksRequired, Current
<1>5. RelaysAccepted(d)
  BY <1>1, FeaturesOfThisBuild DEF RelaysAccepted
<1>6. IndexesAccepted(d) /\ TriggersAccepted(d)
  BY <1>1
  DEF IndexesAccepted, IndexesRequired, TriggersAccepted, TriggersKnown, Current
<1>7. QED
  BY <1>2, <1>3, <1>4, <1>5, <1>6 DEF RestoreAccepts

\* What retention removes is one of the names it listed.
LEMMA MinOfNaturals ==
  ASSUME NEW S \in SUBSET Nat, S # {}
  PROVE  Min(S) \in S
<1>1. PICK x \in S : \A y \in S : ~ (<<y, x>> \in OpToRel(<, Nat))
  BY NatLessThanWellFounded, WFMin, Zenon
<1>2. OpToRel(<, Nat) = {ss \in Nat \X Nat : ss[1] < ss[2]}
  BY Zenon DEF OpToRel
<1>3. ASSUME NEW y \in S
      PROVE  x <= y
  <2>1. ~ (<<y, x>> \in {ss \in Nat \X Nat : ss[1] < ss[2]})
    BY <1>1, <1>2
  <2>2. QED
    BY <2>1
<1>4. QED
  BY <1>3 DEF Min

\* A file is its data, whether it is synced, and its mode.
LEMMA FileFields ==
  ASSUME BackupInv, NEW n \in DOMAIN files
  PROVE  \E synced \in BOOLEAN : \E data, mode :
           files[n] = [data |-> data, synced |-> synced, mode |-> mode]
BY DEF BackupInv

\* An empty backup directory.
LEMMA InitBackups == DirectoryInit => BackupInv
<1> SUFFICES ASSUME DirectoryInit
             PROVE  BackupInv
  OBVIOUS
<1>1. files = << >> /\ dir = {} /\ unsynced = {} /\ succeeded = {} /\ backup = NoBackup
  BY DEF DirectoryInit
<1>2. DOMAIN << >> = 1..0 /\ << >> = [n \in 1..0 |-> << >>[n]]
  OBVIOUS
<1>3. QED
  BY <1>1, <1>2 DEF BackupInv, NoBackup

\* The end of an attempt, in any way that leaves only settled files behind.
LEMMA AttemptEnds ==
  ASSUME BackupInv, backup' = NoBackup, UNCHANGED <<files, succeeded>>,
         \A n \in dir' \cup unsynced' : Settled(n)
  PROVE  BackupInv'
BY DEF BackupInv, NoBackup, Settled

\* The worker goes on to the next stage with the files as they are.
LEMMA AttemptGoesOn ==
  ASSUME BackupInv, NEW at, NEW listed, files' = files, succeeded' = succeeded,
         backup' = [at |-> at, by |-> backup.by, stamp |-> backup.stamp, listed |-> listed],
         backup.at \notin {"idle", "connected"}, at \notin {"copied", "synced"},
         \A n \in dir' \cup unsynced' \cup listed : Settled(n),
         at \in {"private", "linked", "cleaned"} => Settled(backup.stamp),
         at \in {"private", "linked", "cleaned"} =>
           files[backup.stamp].mode \in {"private", "durable"}
  PROVE  BackupInv'
<1>1. /\ backup'.at = at /\ backup'.stamp = backup.stamp /\ backup'.listed = listed
  OBVIOUS
<1>2. \A n : Settled(n)' <=> Settled(n)
  BY DEF Settled
<1>3. QED
  BY <1>1, <1>2 DEF BackupInv

\* The worker changes its own file and goes on.
LEMMA FileChanges ==
  ASSUME BackupInv, NEW at, NEW n, n = backup.stamp, backup.at \notin {"idle", "connected"},
         NEW synced \in BOOLEAN, NEW mode,
         files' = [files EXCEPT ![n] = [data |-> files[n].data, synced |-> synced,
                                        mode |-> mode]],
         synced => Whole(files[n].data), files[n].synced => synced,
         files[n].mode = "durable" => mode = "durable",
         UNCHANGED <<dir, unsynced, succeeded>>,
         backup' = [at |-> at, by |-> backup.by, stamp |-> n, listed |-> backup.listed],
         at # "copied", at = "synced" => mode = "default",
         at \in {"synced", "private", "linked", "cleaned"} => synced,
         at \in {"private", "linked", "cleaned"} => mode \in {"private", "durable"}
  PROVE  BackupInv'
<1>1. n \in DOMAIN files /\ DOMAIN files' = DOMAIN files
  BY DEF BackupInv
<1>2. /\ files'[n] = [data |-> files[n].data, synced |-> synced, mode |-> mode]
      /\ \A m \in DOMAIN files \ {n} : files'[m] = files[m]
      /\ files' = [m \in DOMAIN files' |-> files'[m]]
  BY <1>1
<1>3. /\ files'[n].data = files[n].data /\ files'[n].synced = synced
      /\ files'[n].mode = mode
  BY <1>2
<1>4. \A m : Settled(m) => Settled(m)'
  BY <1>1, <1>2, <1>3 DEF Settled
<1>5. /\ backup'.at = at /\ backup'.stamp = n /\ backup'.listed = backup.listed
  OBVIOUS
<1>6. \A m \in DOMAIN files' :
        /\ files'[m] = [data |-> files'[m].data, synced |-> files'[m].synced,
                        mode |-> files'[m].mode]
        /\ files'[m].synced \in BOOLEAN
        /\ files'[m].synced => Whole(files'[m].data)
  <2>1. TAKE m \in DOMAIN files'
  <2>2. CASE m = n
    BY <1>2, <1>3, <2>2
  <2>3. CASE m # n
    BY <1>1, <1>2, <2>3 DEF BackupInv
  <2>4. QED
    BY <2>2, <2>3
<1>7. \A m \in succeeded' : m \in DOMAIN files' /\ files'[m].mode = "durable"
  BY <1>1, <1>2, <1>3 DEF BackupInv
<1>8. \A m \in dir' \cup unsynced' \cup backup'.listed : Settled(m)'
  BY <1>4, <1>5 DEF BackupInv
<1>9. Settled(n)' <=> synced
  BY <1>1, <1>3 DEF Settled
<1>10. QED
  BY <1>1, <1>2, <1>3, <1>5, <1>6, <1>7, <1>8, <1>9 DEF BackupInv, Settled

\* A copy of the file being served is the only way a file comes to be.
LEMMA CopyKeeps ==
  ASSUME DirectoryInv, BackupInv, CopyBackup
  PROVE  BackupInv'
<1>1. PICK k \in Nat : DOMAIN files = 1..k
  BY DEF BackupInv
<1>2. PICK n \in Nat : n = k + 1
  BY <1>1
<1>3. Cardinality(DOMAIN files) = k
  BY <1>1, FS_Interval
<1>4. /\ files' = [m \in DOMAIN files \cup {n} |->
                    IF m = n THEN [data |-> db, synced |-> FALSE, mode |-> "default"]
                    ELSE files[m]]
      /\ backup' = [at |-> "copied", by |-> backup.by, stamp |-> n, listed |-> backup.listed]
      /\ UNCHANGED <<dir, unsynced, succeeded>>
      /\ backup.at = "connected"
  <2>1. backup' = [backup EXCEPT !.at = "copied", !.stamp = n]
    BY <1>2, <1>3 DEF CopyBackup
  <2>2. backup' = [at |-> "copied", by |-> backup.by, stamp |-> n, listed |-> backup.listed]
    BY <2>1 DEF DirectoryInv
  <2>3. QED
    BY <1>2, <1>3, <2>2 DEF CopyBackup
<1>5. Whole(db)
  <2>1. backup.by \in Processes /\ proc[backup.by].at \in Serving
    BY <1>4 DEF DirectoryInv
  <2>2. QED
    BY <2>1 DEF DirectoryInv, Ready, Whole
<1>6. DOMAIN files' = 1..n /\ n \notin DOMAIN files /\ n \in DOMAIN files'
  BY <1>1, <1>2, <1>4
<1>7. PICK no \in BOOLEAN : no = FALSE
  OBVIOUS
<1>8. /\ files'[n] = [data |-> db, synced |-> no, mode |-> "default"]
      /\ \A m \in DOMAIN files : m # n /\ m \in DOMAIN files' /\ files'[m] = files[m]
      /\ files' = [m \in DOMAIN files' |-> files'[m]]
  BY <1>4, <1>6, <1>7
<1>9. files'[n].data = db /\ files'[n].synced = no /\ files'[n].mode = "default"
  BY <1>8
<1>10. \A m : Settled(m) => Settled(m)'
  BY <1>8 DEF Settled
<1>11. /\ backup'.at = "copied" /\ backup'.stamp = n /\ backup'.listed = backup.listed
  BY <1>4
<1>12. \A m \in DOMAIN files' :
         /\ files'[m] = [data |-> files'[m].data, synced |-> files'[m].synced,
                         mode |-> files'[m].mode]
         /\ files'[m].synced \in BOOLEAN
         /\ files'[m].synced => Whole(files'[m].data)
  <2>1. TAKE m \in DOMAIN files'
  <2>2. CASE m = n
    BY <1>7, <1>8, <1>9, <2>2
  <2>3. CASE m # n
    <3>1. m \in DOMAIN files /\ files'[m] = files[m]
      BY <1>1, <1>2, <1>6, <1>8, <2>3
    <3>2. QED
      BY <3>1 DEF BackupInv
  <2>4. QED
    BY <2>2, <2>3
<1>13. \A m \in succeeded' : m \in DOMAIN files' /\ files'[m].mode = "durable"
  BY <1>4, <1>8 DEF BackupInv
<1>14. \A m \in dir' \cup unsynced' \cup backup'.listed : Settled(m)'
  BY <1>4, <1>10, <1>11 DEF BackupInv
<1>15. Whole(files'[n].data)
  BY <1>5, <1>9
<1>16. QED
  BY <1>2, <1>6, <1>8, <1>11, <1>12, <1>13, <1>14, <1>15 DEF BackupInv

\* The modes become durable and nothing else of the files changes.
LEMMA SyncDirectoryKeeps ==
  ASSUME DirectoryInv, BackupInv, SyncDirectory
  PROVE  BackupInv'
<1>1. /\ backup.at = "cleaned" /\ unsynced' = {} /\ dir' = dir
      /\ succeeded' = succeeded \cup {backup.stamp}
      /\ files' = [n \in DOMAIN files |->
           [files[n] EXCEPT !.mode = IF @ = "private" THEN "durable" ELSE @]]
      /\ backup' = [backup EXCEPT !.at = "pruning", !.listed = dir]
  BY DEF SyncDirectory
<1>2. /\ DOMAIN files' = DOMAIN files
      /\ files' = [n \in DOMAIN files' |-> files'[n]]
  BY <1>1
<1>3. ASSUME NEW n \in DOMAIN files
      PROVE  /\ files'[n] = [data |-> files'[n].data, synced |-> files'[n].synced,
                             mode |-> files'[n].mode]
             /\ files'[n].data = files[n].data /\ files'[n].synced = files[n].synced
             /\ files[n].mode \in {"private", "durable"} => files'[n].mode = "durable"
  <2>1. PICK old, data, synced, mode :
          /\ old = files[n] /\ old = [data |-> data, synced |-> synced, mode |-> mode]
    BY DEF BackupInv
  <2>2. PICK new : new = IF mode = "private" THEN "durable" ELSE mode
    OBVIOUS
  <2>3. files'[n] = [old EXCEPT !.mode = IF old.mode = "private" THEN "durable" ELSE old.mode]
    BY <1>1, <2>1
  <2>4. files'[n] = [data |-> data, synced |-> synced, mode |-> new]
    BY <2>1, <2>2, <2>3
  <2>5. QED
    BY <2>1, <2>2, <2>4
<1>4. /\ backup' = [at |-> "pruning", by |-> backup.by, stamp |-> backup.stamp, listed |-> dir]
      /\ backup.stamp \in DOMAIN files
      /\ files[backup.stamp].mode \in {"private", "durable"}
  BY <1>1 DEF DirectoryInv, BackupInv
<1>5. /\ backup'.at = "pruning" /\ backup'.stamp = backup.stamp /\ backup'.listed = dir
  BY <1>4
<1>6. \A n : Settled(n) => Settled(n)'
  BY <1>2, <1>3 DEF Settled
<1>7. \A n \in dir' \cup unsynced' \cup backup'.listed : Settled(n)'
  BY <1>1, <1>5, <1>6 DEF BackupInv
<1>8. \A n \in DOMAIN files' :
        /\ files'[n] = [data |-> files'[n].data, synced |-> files'[n].synced,
                        mode |-> files'[n].mode]
        /\ files'[n].synced \in BOOLEAN
        /\ files'[n].synced => Whole(files'[n].data)
  BY <1>2, <1>3 DEF BackupInv
<1>9. \A n \in succeeded' : n \in DOMAIN files' /\ files'[n].mode = "durable"
  <2>1. \A n \in succeeded : n \in DOMAIN files /\ files[n].mode = "durable"
    BY DEF BackupInv
  <2>2. QED
    BY <1>1, <1>2, <1>3, <1>4, <2>1
<1>10. QED
  BY <1>2, <1>4, <1>5, <1>7, <1>8, <1>9 DEF BackupInv

\* A power loss takes the data of files that were not synced, and modes and
\* names that were not: never those of a file that has had a name.
LEMMA PowerLossKeeps ==
  ASSUME BackupInv, PowerLoss
  PROVE  BackupInv'
<1>1. PICK lost \in SUBSET unsynced,
           reset \in SUBSET {n \in DOMAIN files : files[n].mode = "private"} :
        /\ dir' = (dir \ unsynced) \cup lost
        /\ files' = [n \in DOMAIN files |->
             [data |-> IF files[n].synced THEN files[n].data ELSE Garbage,
              synced |-> files[n].synced,
              mode |-> IF n \in reset THEN "default" ELSE files[n].mode]]
        /\ unsynced' = {} /\ backup' = NoBackup /\ succeeded' = succeeded
  BY DEF PowerLoss
<1>2. /\ DOMAIN files' = DOMAIN files
      /\ files' = [n \in DOMAIN files' |-> files'[n]]
  BY <1>1
<1>3. ASSUME NEW n \in DOMAIN files
      PROVE  /\ files'[n] = [data |-> files'[n].data, synced |-> files'[n].synced,
                             mode |-> files'[n].mode]
             /\ files'[n].synced = files[n].synced
             /\ files[n].synced => files'[n].data = files[n].data
             /\ files[n].mode = "durable" => files'[n].mode = "durable"
  <2>1. PICK synced \in BOOLEAN : \E data, mode :
          files[n] = [data |-> data, synced |-> synced, mode |-> mode]
    BY FileFields
  <2>2. PICK data, mode, old :
          old = files[n] /\ old = [data |-> data, synced |-> synced, mode |-> mode]
    BY <2>1
  <2>3. PICK now, after : /\ now = IF synced THEN data ELSE Garbage
                          /\ after = IF n \in reset THEN "default" ELSE mode
    OBVIOUS
  <2>4. files'[n] = [data |-> now, synced |-> synced, mode |-> after]
    <3>1. files'[n] = [data |-> IF old.synced THEN old.data ELSE Garbage,
                       synced |-> old.synced,
                       mode |-> IF n \in reset THEN "default" ELSE old.mode]
      BY <1>1, <2>2, Zenon
    <3>2. old.data = data /\ old.synced = synced /\ old.mode = mode
      BY <2>2
    <3>3. QED
      BY <2>3, <3>1, <3>2, Zenon
  <2>5. files[n].mode = "durable" => n \notin reset
    BY <1>1
  <2>6. QED
    BY <2>2, <2>3, <2>4, <2>5
<1>4. \A n : Settled(n) => Settled(n)'
  BY <1>2, <1>3 DEF Settled
<1>5. \A n \in dir' \cup unsynced' : Settled(n)'
  BY <1>1, <1>4 DEF BackupInv
<1>6. \A n \in DOMAIN files' :
        /\ files'[n] = [data |-> files'[n].data, synced |-> files'[n].synced,
                        mode |-> files'[n].mode]
        /\ files'[n].synced \in BOOLEAN
        /\ files'[n].synced => Whole(files'[n].data)
  BY <1>2, <1>3 DEF BackupInv
<1>7. \A n \in succeeded' : n \in DOMAIN files' /\ files'[n].mode = "durable"
  BY <1>1, <1>2, <1>3 DEF BackupInv
<1>8. /\ backup'.at = "idle" /\ backup'.listed = {}
  BY <1>1 DEF NoBackup
<1>9. QED
  BY <1>2, <1>5, <1>6, <1>7, <1>8 DEF BackupInv

\* Every stage of an attempt keeps the invariant.
LEMMA AttemptKeeps ==
  ASSUME DirectoryInv, BackupInv, BackupStep
  PROVE  BackupInv'
<1>0. /\ backup = [at |-> backup.at, by |-> backup.by, stamp |-> backup.stamp,
                   listed |-> backup.listed]
      /\ \A n \in dir \cup unsynced \cup backup.listed : Settled(n)
  BY DEF DirectoryInv, BackupInv
<1>1. CASE CopyBackup
  BY <1>1, CopyKeeps
<1>2. CASE SyncBackup
  <2>1. /\ backup.at = "copied" /\ backup' = [backup EXCEPT !.at = "synced"]
        /\ files' = [files EXCEPT ![backup.stamp].synced = TRUE]
        /\ UNCHANGED <<dir, unsynced, succeeded>>
    BY <1>2 DEF SyncBackup
  <2>2. PICK n \in DOMAIN files : n = backup.stamp
    BY <2>1 DEF BackupInv
  <2>3. PICK synced \in BOOLEAN : \E data, mode :
          files[n] = [data |-> data, synced |-> synced, mode |-> mode]
    BY FileFields
  <2>4. PICK data, mode, old :
          old = files[n] /\ old = [data |-> data, synced |-> synced, mode |-> mode]
    BY <2>3
  <2>5. PICK yes \in BOOLEAN : yes = TRUE
    OBVIOUS
  <2>6. [old EXCEPT !.synced = yes] = [data |-> data, synced |-> yes, mode |-> mode]
    BY <2>4
  <2>7. /\ files' = [files EXCEPT ![n] = [data |-> files[n].data, synced |-> yes,
                                          mode |-> mode]]
        /\ files[n].mode = mode
    BY <2>1, <2>2, <2>4, <2>5, <2>6
  <2>8. backup' = [at |-> "synced", by |-> backup.by, stamp |-> n, listed |-> backup.listed]
    BY <1>0, <2>1, <2>2
  <2>9. Whole(files[n].data) /\ mode = "default"
    BY <2>1, <2>2, <2>7 DEF BackupInv
  <2>10. /\ backup.at \notin {"idle", "connected"}
         /\ yes => Whole(files[n].data)
         /\ files[n].synced => yes
         /\ files[n].mode = "durable" => mode = "durable"
    BY <2>1, <2>5, <2>7, <2>9
  <2>11. ASSUME NEW at, at = "synced"
         PROVE  /\ at # "copied"
                /\ at = "synced" => mode = "default"
                /\ at \in {"synced", "private", "linked", "cleaned"} => yes
                /\ at \in {"private", "linked", "cleaned"} => mode \in {"private", "durable"}
    BY <2>5, <2>9, <2>11
  <2>12. PICK at : at = "synced"
    OBVIOUS
  <2>13. backup' = [at |-> at, by |-> backup.by, stamp |-> n, listed |-> backup.listed]
    BY <2>8, <2>12
  <2>14. QED
    BY <2>1, <2>2, <2>7, <2>10, <2>11, <2>12, <2>13, FileChanges
<1>3. CASE ChmodBackup
  <2>1. /\ backup.at = "synced" /\ backup' = [backup EXCEPT !.at = "private"]
        /\ files' = [files EXCEPT ![backup.stamp].mode = "private"]
        /\ UNCHANGED <<dir, unsynced, succeeded>>
    BY <1>3 DEF ChmodBackup
  <2>2. PICK n \in DOMAIN files : n = backup.stamp
    BY <2>1 DEF BackupInv
  <2>3. PICK synced \in BOOLEAN : \E data, mode :
          files[n] = [data |-> data, synced |-> synced, mode |-> mode]
    BY FileFields
  <2>4. PICK data, mode, old :
          old = files[n] /\ old = [data |-> data, synced |-> synced, mode |-> mode]
    BY <2>3
  <2>5. [old EXCEPT !.mode = "private"] = [data |-> data, synced |-> synced, mode |-> "private"]
    BY <2>4
  <2>6. /\ files' = [files EXCEPT ![n] =
                       [data |-> files[n].data, synced |-> synced, mode |-> "private"]]
        /\ files[n].synced = synced
    BY <2>1, <2>2, <2>4, <2>5
  <2>7. backup' = [at |-> "private", by |-> backup.by, stamp |-> n, listed |-> backup.listed]
    BY <1>0, <2>1, <2>2
  <2>8. files[n].synced /\ Whole(files[n].data) /\ files[n].mode # "durable"
    BY <2>1, <2>2 DEF BackupInv, Settled
  <2>9. QED
    BY <2>1, <2>2, <2>6, <2>7, <2>8, FileChanges
<1>4. CASE LinkBackup
  <2>1. /\ backup.at = "private" /\ files' = files /\ succeeded' = succeeded
        /\ dir' = dir \cup {backup.stamp} /\ unsynced' = unsynced \cup {backup.stamp}
        /\ backup' = [backup EXCEPT !.at = "linked"]
    BY <1>4 DEF LinkBackup, Linked
  <2>2. Settled(backup.stamp) /\ files[backup.stamp].mode \in {"private", "durable"}
    BY <2>1 DEF BackupInv
  <2>3. backup' = [at |-> "linked", by |-> backup.by, stamp |-> backup.stamp,
                   listed |-> backup.listed]
    BY <1>0, <2>1
  <2>4. QED
    BY <1>0, <2>1, <2>2, <2>3, AttemptGoesOn
<1>5. CASE RemoveTemp
  <2>1. /\ backup.at = "linked" /\ UNCHANGED <<files, succeeded, dir, unsynced>>
        /\ backup' = [backup EXCEPT !.at = "cleaned"]
    BY <1>5 DEF RemoveTemp
  <2>2. Settled(backup.stamp) /\ files[backup.stamp].mode \in {"private", "durable"}
    BY <2>1 DEF BackupInv
  <2>3. backup' = [at |-> "cleaned", by |-> backup.by, stamp |-> backup.stamp,
                   listed |-> backup.listed]
    BY <1>0, <2>1
  <2>4. QED
    BY <1>0, <2>1, <2>2, <2>3, AttemptGoesOn
<1>6. CASE SyncDirectory
  BY <1>6, SyncDirectoryKeeps
<1>7. CASE PruneOldest
  <2>1. backup.at = "pruning" /\ UNCHANGED <<files, succeeded>>
    BY <1>7 DEF PruneOldest
  <2>2. CASE Cardinality(backup.listed) > Keep
    <3>1. PICK oldest : oldest = Min(backup.listed)
      OBVIOUS
    <3>2. oldest \in backup.listed
      <4>1. backup.listed \subseteq Nat
        BY <1>0 DEF BackupInv, Settled
      <4>2. backup.listed # {}
        BY <2>2, FS_EmptySet, DirectoryAssumption DEF DirectoryAssumption
      <4>3. QED
        BY <3>1, <4>1, <4>2, MinOfNaturals
    <3>3. /\ dir' = dir \ {oldest} /\ unsynced' = unsynced \cup {oldest}
          /\ backup' = [backup EXCEPT !.listed = backup.listed \ {oldest}]
      BY <1>7, <2>2, <3>1 DEF PruneOldest, Unlinked
    <3>4. backup' = [at |-> "pruning", by |-> backup.by, stamp |-> backup.stamp,
                     listed |-> backup.listed \ {oldest}]
      BY <1>0, <2>1, <3>3
    <3>5. \A n \in dir' \cup unsynced' \cup (backup.listed \ {oldest}) : Settled(n)
      BY <1>0, <3>2, <3>3
    <3>6. QED
      BY <2>1, <3>4, <3>5, AttemptGoesOn
  <2>3. CASE ~ (Cardinality(backup.listed) > Keep)
    BY <1>0, <1>7, <2>1, <2>3, AttemptEnds DEF PruneOldest
  <2>4. QED
    BY <2>2, <2>3
<1>8. CASE FailBackup
  <2>1. /\ backup' = NoBackup /\ UNCHANGED <<files, succeeded>>
        /\ \/ /\ backup.at = "linked" /\ dir' = dir \ {backup.stamp}
              /\ unsynced' = unsynced \cup {backup.stamp}
           \/ UNCHANGED <<dir, unsynced>>
    BY <1>8 DEF FailBackup, Unlinked
  <2>2. backup.at = "linked" => Settled(backup.stamp)
    BY DEF BackupInv
  <2>3. QED
    BY <1>0, <2>1, <2>2, AttemptEnds
<1>9. QED
  BY <1>1, <1>2, <1>3, <1>4, <1>5, <1>6, <1>7, <1>8 DEF BackupStep

\* Every step of the directory keeps the invariant of the backups.
LEMMA StepBackups ==
  DirectoryInv /\ BackupInv /\ [DirectoryNext]_directoryVars => BackupInv'
<1> SUFFICES ASSUME DirectoryInv, BackupInv, [DirectoryNext]_directoryVars
             PROVE  BackupInv'
  OBVIOUS
<1>1. CASE UNCHANGED backups
  BY <1>1 DEF backups, BackupInv, Settled
<1>2. ASSUME backup' = NoBackup, UNCHANGED <<files, dir, unsynced, succeeded>>
      PROVE  BackupInv'
  BY <1>2, AttemptEnds DEF BackupInv
<1>3. CASE PowerLoss
  BY <1>3, PowerLossKeeps
<1>4. CASE BackupStep
  BY <1>4, AttemptKeeps
<1>5. ASSUME NEW p \in Processes, OpenSource(p)
      PROVE  BackupInv'
  <2>1. /\ UNCHANGED <<files, dir, unsynced, succeeded>>
        /\ backup' = [NoBackup EXCEPT !.at = "connected", !.by = p]
    BY <1>5 DEF OpenSource
  <2>2. backup'.at = "connected" /\ backup'.listed = {}
    BY <2>1 DEF NoBackup
  <2>3. QED
    BY <2>1, <2>2 DEF BackupInv, Settled
<1>6. ASSUME NEW p \in Processes, Exit(p) \/ Crash(p)
      PROVE  BackupInv'
  <2>1. UNCHANGED <<files, dir, unsynced, succeeded>> /\ backup' \in {backup, NoBackup}
    BY <1>6 DEF Exit, Crash, Ended
  <2>2. QED
    BY <1>1, <1>2, <2>1 DEF backups
<1>7. QED
  BY <1>1, <1>3, <1>4, <1>5, <1>6
  DEF DirectoryNext, Opening, Acquire, ReadVersions, Upgrade, FailUpgrade, CloseDatabase,
      ReleaseLock, Transaction, Connect, Reserve, ReleaseDue, Rollback, directoryVars

\* A file with the name of a backup is one the drill accepts, and once BackupTo
\* has returned it passes the drill: whatever is lost, and wherever it stopped.
THEOREM PublishedBackupsAreWhole == DirectorySpec => []PublishedPassDrill
<1>1. BackupInv => PublishedPassDrill
  <2>1. SUFFICES ASSUME BackupInv, NEW n \in dir
                 PROVE  /\ RestoreAccepts(files[n].data)
                        /\ n \in succeeded => DrillPasses(files[n])
    BY DEF PublishedPassDrill
  <2>2. Whole(files[n].data)
    BY <2>1 DEF BackupInv, Settled
  <2>3. RestoreAccepts(files[n].data) /\ Opens(files[n].data)
    BY <2>2, WholeFilesPass
  <2>4. n \in succeeded => files[n].mode = "durable"
    BY <2>1 DEF BackupInv
  <2>5. QED
    BY <2>3, <2>4 DEF DrillPasses, SourceAccepted
<1>2. QED
  BY <1>1, InitBackups, StepBackups, DirectoryHolds, PTL DEF DirectorySpec

---------------------------------------------------------------------------
(* The types.                                                              *)

\* What the invariants above do not say of the types: files are whole or
\* garbage, and the pool's limit bounds the connections that are out.
DirectoryTypeInv ==
  /\ owner \in Processes \cup {Nobody}
  /\ DOMAIN files \subseteq Stamps
  /\ \A n \in DOMAIN files : files[n] \in File
  /\ backup.at \in Stages
  /\ \A p \in Processes : InUse(p) <= Connections

\* What a power loss leaves of data that was not synced is still a file.
LEMMA GarbageIsAFile == Garbage \in Databases
<1>1. << >> \in [{} -> Rows]
  OBVIOUS
<1>2. << >> \in RowSets
  BY <1>1 DEF RowSets
<1>3. QED
  BY <1>2, DatabaseOf DEF Garbage

\* The parts of a file have their types, and a file of such parts is one.
LEMMA FileParts ==
  /\ \A f \in File :
       /\ f = [data |-> f.data, synced |-> f.synced, mode |-> f.mode]
       /\ f.data \in Databases /\ f.synced \in BOOLEAN
       /\ f.mode \in {"default", "private", "durable"}
  /\ \A data \in Databases, synced \in BOOLEAN, mode \in {"default", "private", "durable"} :
       [data |-> data, synced |-> synced, mode |-> mode] \in File
BY DEF File

\* A file that differs in its data and its mode.
LEMMA FileWith ==
  ASSUME NEW f \in File, NEW data \in Databases,
         NEW mode \in {"default", "private", "durable"}
  PROVE  [data |-> data, synced |-> f.synced, mode |-> mode] \in File
BY DEF File

\* Nothing is in the backup directory and nobody has the lock.
LEMMA InitTypes == DirectoryInit => DirectoryTypeInv
<1> SUFFICES ASSUME DirectoryInit
             PROVE  DirectoryTypeInv
  OBVIOUS
<1>1. /\ owner = Nobody /\ files = << >> /\ backup = NoBackup
      /\ inFlight = [p \in Processes |-> 0]
  BY DEF DirectoryInit
<1>2. DOMAIN << >> = {}
  OBVIOUS
<1>3. backup.at = "idle" /\ "idle" \notin Copying
  BY <1>1 DEF NoBackup, Copying
<1>4. Connections \in Nat
  BY DirectoryAssumption DEF DirectoryAssumption
<1>5. QED
  BY <1>1, <1>2, <1>3, <1>4 DEF DirectoryTypeInv, Stages, InUse

\* Who has no more connections out than before is within the limit.
LEMMA UseShrinks ==
  ASSUME DirectoryInv, DirectoryTypeInv, inFlight' \in [Processes -> Nat],
         NEW q \in Processes, inFlight'[q] <= inFlight[q],
         backup'.by = q /\ backup'.at \in Copying => backup.by = q /\ backup.at \in Copying
  PROVE  InUse(q)' <= Connections
<1>1. /\ inFlight[q] \in Nat /\ inFlight'[q] \in Nat /\ Connections \in Nat
      /\ InUse(q) <= Connections
  BY DirectoryAssumption DEF DirectoryInv, DirectoryTypeInv, DirectoryAssumption
<1>2. CASE backup'.by = q /\ backup'.at \in Copying
  BY <1>1, <1>2 DEF InUse
<1>3. CASE ~ (backup'.by = q /\ backup'.at \in Copying)
  BY <1>1, <1>3 DEF InUse
<1>4. QED
  BY <1>2, <1>3

\* A step of the attempt that leaves the lock, the connections, the names of the
\* files and their types.
LEMMA AttemptTypes ==
  ASSUME DirectoryInv, DirectoryTypeInv, BackupStep,
         DOMAIN files' \subseteq Stamps, \A n \in DOMAIN files' : files'[n] \in File,
         backup'.at \in Stages, backup'.at \in Copying => backup.at \in Copying
  PROVE  DirectoryTypeInv'
<1>1. /\ UNCHANGED <<process, inFlight>> /\ inFlight \in [Processes -> Nat]
      /\ backup'.at # "idle" => backup'.by = backup.by
  BY BackupsAreAside DEF DirectoryInv
<1>2. \A q \in Processes : InUse(q)' <= Connections
  <2>1. TAKE q \in Processes
  <2>2. backup'.by = q /\ backup'.at \in Copying => backup.by = q /\ backup.at \in Copying
    BY <1>1 DEF Copying
  <2>3. inFlight'[q] <= inFlight[q]
    BY <1>1
  <2>4. QED
    BY <1>1, <2>2, <2>3, UseShrinks
<1>3. QED
  BY <1>1, <1>2 DEF DirectoryTypeInv, process

\* The stages of an attempt keep the types.
LEMMA BackupTypes ==
  ASSUME DirectoryInv, BackupInv, DirectoryTypeInv, BackupStep
  PROVE  DirectoryTypeInv'
<1>1. /\ DOMAIN files \subseteq Stamps
      /\ \A n \in DOMAIN files : files[n] \in File
      /\ backup = [at |-> backup.at, by |-> backup.by, stamp |-> backup.stamp,
                   listed |-> backup.listed]
  BY DEF DirectoryTypeInv, DirectoryInv
<1>2. CASE CopyBackup
  <2>1. PICK k \in Nat : DOMAIN files = 1..k
    BY DEF BackupInv
  <2>2. Cardinality(DOMAIN files) = k
    BY <2>1, FS_Interval
  <2>3. /\ k < MaxBackups
        /\ files' = [m \in DOMAIN files \cup {k + 1} |->
             IF m = k + 1 THEN [data |-> db, synced |-> FALSE, mode |-> "default"]
             ELSE files[m]]
        /\ backup' = [backup EXCEPT !.at = "copied", !.stamp = k + 1]
        /\ backup.at = "connected"
    BY <1>2, <2>2 DEF CopyBackup
  <2>4. DOMAIN files' \subseteq Stamps
    BY <1>1, <2>1, <2>3, DirectoryAssumption DEF Stamps, DirectoryAssumption
  <2>5. [data |-> db, synced |-> FALSE, mode |-> "default"] \in File
    <3>1. db \in Databases
      BY DEF DirectoryInv, Sane
    <3>2. QED
      BY <3>1, FileParts
  <2>6. \A n \in DOMAIN files' : files'[n] \in File
    BY <1>1, <2>3, <2>5
  <2>7. backup'.at = "copied"
    BY <1>1, <2>3
  <2>8. QED
    BY <2>3, <2>4, <2>6, <2>7, AttemptTypes DEF Stages, Copying
<1>3. CASE SyncBackup
  <2>1. PICK n \in DOMAIN files : n = backup.stamp
    BY <1>3 DEF SyncBackup, BackupInv
  <2>2. PICK old \in File : old = files[n]
    BY <1>1
  <2>3. PICK new \in File : new = [old EXCEPT !.synced = TRUE]
    <3>1. [old EXCEPT !.synced = TRUE] = [data |-> old.data, synced |-> TRUE, mode |-> old.mode]
      BY FileParts
    <3>2. QED
      BY <3>1, FileParts
  <2>4. files' = [files EXCEPT ![n] = new]
    BY <1>3, <2>1, <2>2, <2>3 DEF SyncBackup
  <2>5. DOMAIN files' \subseteq Stamps /\ \A m \in DOMAIN files' : files'[m] \in File
    BY <1>1, <2>1, <2>3, <2>4
  <2>6. backup'.at = "synced" /\ backup.at = "copied"
    BY <1>1, <1>3 DEF SyncBackup
  <2>7. QED
    BY <2>5, <2>6, AttemptTypes DEF Stages, Copying
<1>4. CASE ChmodBackup
  <2>1. PICK n \in DOMAIN files : n = backup.stamp
    BY <1>4 DEF ChmodBackup, BackupInv
  <2>2. PICK old \in File : old = files[n]
    BY <1>1
  <2>3. PICK new \in File : new = [old EXCEPT !.mode = "private"]
    <3>1. [old EXCEPT !.mode = "private"] = [data |-> old.data, synced |-> old.synced, mode |-> "private"]
      BY FileParts
    <3>2. QED
      BY <3>1, FileParts
  <2>4. files' = [files EXCEPT ![n] = new]
    BY <1>4, <2>1, <2>2, <2>3 DEF ChmodBackup
  <2>5. DOMAIN files' \subseteq Stamps /\ \A m \in DOMAIN files' : files'[m] \in File
    BY <1>1, <2>1, <2>3, <2>4
  <2>6. backup'.at = "private" /\ backup.at = "synced"
    BY <1>1, <1>4 DEF ChmodBackup
  <2>7. QED
    BY <2>5, <2>6, AttemptTypes DEF Stages, Copying
<1>5. CASE SyncDirectory
  <2>1. files' = [n \in DOMAIN files |->
          [files[n] EXCEPT !.mode = IF @ = "private" THEN "durable" ELSE @]]
    BY <1>5 DEF SyncDirectory
  <2>2. ASSUME NEW n \in DOMAIN files
        PROVE  files'[n] \in File
    <3>1. PICK old \in File : old = files[n]
      BY <1>1
    <3>2. PICK mode \in {"default", "private", "durable"} :
            mode = IF old.mode = "private" THEN "durable" ELSE old.mode
      BY FileParts
    <3>3. files'[n] = [old EXCEPT !.mode = mode]
      BY <2>1, <3>1, <3>2
    <3>4. [old EXCEPT !.mode = mode] = [data |-> old.data, synced |-> old.synced, mode |-> mode]
      BY FileParts
    <3>5. files'[n] = [data |-> old.data, synced |-> old.synced, mode |-> mode]
      BY <3>3, <3>4
    <3>6. old.data \in Databases
      BY FileParts
    <3>7. QED
      BY <3>5, <3>6, FileWith
  <2>3. DOMAIN files' = DOMAIN files
    BY <2>1
  <2>4. backup'.at = "pruning"
    <3>1. backup' = [backup EXCEPT !.at = "pruning", !.listed = dir]
      BY <1>5 DEF SyncDirectory
    <3>2. backup' = [at |-> "pruning", by |-> backup.by, stamp |-> backup.stamp,
                      listed |-> dir]
      BY <1>1, <3>1
    <3>3. QED
      BY <3>2
  <2>5. QED
    BY <1>1, <2>2, <2>3, <2>4, AttemptTypes DEF Stages, Copying
<1>6. CASE LinkBackup \/ RemoveTemp \/ PruneOldest \/ FailBackup
  <2>1. files' = files
    BY <1>6 DEF LinkBackup, RemoveTemp, PruneOldest, FailBackup
  <2>2. \/ backup'.at \in {"linked", "cleaned"} /\ backup.at \in {"private", "linked"}
        \/ backup'.at \in {"pruning", "idle"}
    <3>1. CASE LinkBackup
      BY <1>1, <3>1 DEF LinkBackup
    <3>2. CASE RemoveTemp
      BY <1>1, <3>2 DEF RemoveTemp
    <3>3. CASE PruneOldest
      <4>1. \/ backup' = NoBackup
            \/ backup' = [backup EXCEPT !.listed = backup.listed \ {Min(backup.listed)}]
        BY <3>3 DEF PruneOldest
      <4>0. backup.at = "pruning"
        BY <3>3 DEF PruneOldest
      <4>2. CASE backup' = NoBackup
        BY <4>2 DEF NoBackup
      <4>3. CASE backup' = [backup EXCEPT !.listed = backup.listed \ {Min(backup.listed)}]
        <5>1. PICK rest : rest = backup.listed \ {Min(backup.listed)}
          OBVIOUS
        <5>2. backup' = [at |-> backup.at, by |-> backup.by, stamp |-> backup.stamp,
                        listed |-> rest]
          BY <1>1, <4>3, <5>1
        <5>3. QED
          BY <4>0, <5>2
      <4>4. QED
        BY <4>1, <4>2, <4>3
    <3>4. CASE FailBackup
      BY <3>4 DEF FailBackup, NoBackup
    <3>5. QED
      BY <1>6, <3>1, <3>2, <3>3, <3>4
  <2>3. QED
    BY <1>1, <2>1, <2>2, AttemptTypes DEF Stages, Copying
<1>7. QED
  BY <1>2, <1>3, <1>4, <1>5, <1>6 DEF BackupStep

\* Every step of the directory keeps the types.
LEMMA StepTypes ==
  DirectoryInv /\ BackupInv /\ DirectoryTypeInv /\ [DirectoryNext]_directoryVars
    => DirectoryTypeInv'
<1> SUFFICES ASSUME DirectoryInv, BackupInv, DirectoryTypeInv, [DirectoryNext]_directoryVars
             PROVE  DirectoryTypeInv'
  OBVIOUS
<1>1. CASE UNCHANGED <<inFlight, backups>> /\ owner' \in Processes \cup {Nobody}
  BY <1>1 DEF backups, DirectoryTypeInv, InUse
<1>2. inFlight \in [Processes -> Nat] /\ Connections \in Nat
  BY DirectoryAssumption DEF DirectoryInv, DirectoryAssumption
<1>3. ASSUME NEW p \in Processes,
             Opening(p) \/ FailUpgrade(p) \/ CloseDatabase(p) \/ ReleaseLock(p)
      PROVE  DirectoryTypeInv'
  <2>1. UNCHANGED <<inFlight, backups>> /\ owner' \in {owner, p, Nobody}
    BY <1>3
    DEF Opening, Acquire, ReadVersions, Upgrade, FailUpgrade, CloseDatabase, ReleaseLock
  <2>2. owner' \in Processes \cup {Nobody}
    BY <2>1 DEF DirectoryTypeInv
  <2>3. QED
    BY <1>1, <2>1, <2>2
<1>4. ASSUME NEW p \in Processes, Exit(p) \/ Crash(p)
      PROVE  DirectoryTypeInv'
  <2>1. /\ UNCHANGED files /\ owner' \in {owner, Nobody}
        /\ inFlight' = [inFlight EXCEPT ![p] = 0] /\ backup' \in {backup, NoBackup}
    BY <1>4 DEF Exit, Crash, Ended
  <2>2. NoBackup.at = "idle" /\ "idle" \in Stages /\ "idle" \notin Copying
    BY DEF NoBackup, Stages, Copying
  <2>3. inFlight' \in [Processes -> Nat] /\ \A q \in Processes : inFlight'[q] <= inFlight[q]
    BY <1>2, <2>1
  <2>4. \A q \in Processes : InUse(q)' <= Connections
    BY <2>1, <2>2, <2>3, UseShrinks
  <2>5. QED
    BY <2>1, <2>2, <2>4 DEF DirectoryTypeInv
<1>5. ASSUME NEW p \in Processes, Transaction(p)
      PROVE  DirectoryTypeInv'
  <2>1. UNCHANGED <<process, backups>>
    BY <1>5 DEF Transaction, Connect, Reserve, ReleaseDue, Rollback
  <2>2. \A q \in Processes : InUse(q)' <= Connections
    <3>1. CASE Connect(p)
      <4>1. InUse(p) < Connections /\ inFlight' = [inFlight EXCEPT ![p] = inFlight[p] + 1]
        BY <3>1 DEF Connect
      <4>2. TAKE q \in Processes
      <4>3. CASE q = p
        <5>1. inFlight'[p] = inFlight[p] + 1
          BY <1>2, <4>1
        <5>2. CASE backup.by = p /\ backup.at \in Copying
          BY <1>2, <2>1, <4>1, <4>3, <5>1, <5>2 DEF InUse, backups
        <5>3. CASE ~ (backup.by = p /\ backup.at \in Copying)
          BY <1>2, <2>1, <4>1, <4>3, <5>1, <5>3 DEF InUse, backups
        <5>4. QED
          BY <5>2, <5>3
      <4>4. CASE q # p
        BY <1>2, <2>1, <4>1, <4>4 DEF InUse, backups, DirectoryTypeInv
      <4>5. QED
        BY <4>3, <4>4
    <3>2. CASE Returned(p)
      <4>1. /\ inFlight' \in [Processes -> Nat]
            /\ \A q \in Processes : inFlight'[q] <= inFlight[q]
        BY <1>2, <3>2 DEF Returned
      <4>2. QED
        BY <2>1, <4>1, UseShrinks DEF backups
    <3>3. QED
      BY <1>5, <3>1, <3>2 DEF Transaction, Reserve, ReleaseDue, Rollback
  <2>3. QED
    BY <2>1, <2>2 DEF DirectoryTypeInv, process, backups
<1>6. ASSUME NEW p \in Processes, OpenSource(p)
      PROVE  DirectoryTypeInv'
  <2>1. /\ UNCHANGED <<process, inFlight, files>> /\ InUse(p) < Connections
        /\ backup.at = "idle" /\ backup' = [NoBackup EXCEPT !.at = "connected", !.by = p]
    BY <1>6 DEF OpenSource
  <2>2. backup'.at = "connected" /\ backup'.by = p
    BY <2>1 DEF NoBackup
  <2>3. \A q \in Processes : InUse(q)' <= Connections
    <3>1. TAKE q \in Processes
    <3>2. inFlight[q] = InUse(q) /\ InUse(q) <= Connections
      BY <1>2, <2>1 DEF InUse, Copying, DirectoryTypeInv
    <3>3. CASE q = p
      BY <1>2, <2>1, <2>2, <3>2, <3>3 DEF InUse, Copying
    <3>4. CASE q # p
      BY <1>2, <2>1, <2>2, <3>2, <3>4 DEF InUse
    <3>5. QED
      BY <3>3, <3>4
  <2>4. QED
    BY <2>1, <2>2, <2>3 DEF DirectoryTypeInv, process, Stages, Copying
<1>7. CASE PowerLoss
  <2>1. PICK reset \in SUBSET {n \in DOMAIN files : files[n].mode = "private"} :
          files' = [n \in DOMAIN files |->
             [data |-> IF files[n].synced THEN files[n].data ELSE Garbage,
              synced |-> files[n].synced,
              mode |-> IF n \in reset THEN "default" ELSE files[n].mode]]
    BY <1>7 DEF PowerLoss
  <2>2. /\ owner' = Nobody /\ backup'.at = "idle" /\ "idle" \notin Copying
        /\ inFlight' = [p \in Processes |-> 0]
    BY <1>7 DEF PowerLoss, NoBackup, Copying
  <2>3. ASSUME NEW n \in DOMAIN files
        PROVE  files'[n] \in File
    <3>1. PICK old \in File : old = files[n]
      BY DEF DirectoryTypeInv
    <3>2. PICK data \in Databases : data = IF old.synced THEN old.data ELSE Garbage
      BY FileParts, GarbageIsAFile
    <3>3. PICK mode \in {"default", "private", "durable"} :
            mode = IF n \in reset THEN "default" ELSE old.mode
      BY FileParts
    <3>4. files'[n] = [data |-> data, synced |-> old.synced, mode |-> mode]
      BY <2>1, <3>1, <3>2, <3>3, Zenon
    <3>5. QED
      BY <3>4, FileWith
  <2>4. DOMAIN files' = DOMAIN files
    BY <2>1
  <2>5. \A q \in Processes : InUse(q)' <= Connections
    BY <1>2, <2>2 DEF InUse
  <2>6. QED
    BY <2>2, <2>3, <2>4, <2>5 DEF DirectoryTypeInv, Stages
<1>8. CASE BackupStep
  BY <1>8, BackupTypes
<1>9. CASE UNCHANGED directoryVars
  BY <1>1, <1>9 DEF directoryVars, process, DirectoryTypeInv
<1>10. QED
  BY <1>3, <1>4, <1>5, <1>6, <1>7, <1>8, <1>9 DEF DirectoryNext

\* Every variable has its type; the handlers, the workers and the backup of a
\* process never have more connections out than the pool hands out, and only
\* while the process is up; and no attempt works on a file that is not there.
THEOREM DirectoryTypes == DirectorySpec => []DirectoryTypeOK
<1>1. DirectoryInv /\ BackupInv /\ DirectoryTypeInv => DirectoryTypeOK
  <2>1. SUFFICES ASSUME DirectoryInv, BackupInv, DirectoryTypeInv
                 PROVE  DirectoryTypeOK
    OBVIOUS
  <2>2. db \in Databases
    BY <2>1 DEF DirectoryInv, Sane
  <2>3. /\ proc \in [Processes ->
              [at : Steps \cup {"down", "versions", "serving", "closed", "released"},
               found : 0 .. 8]]
        /\ inFlight \in [Processes -> Nat]
    BY <2>1 DEF DirectoryInv, Places, Stops
  <2>4. /\ dir \cup unsynced \subseteq DOMAIN files
        /\ backup.listed \subseteq DOMAIN files /\ succeeded \subseteq DOMAIN files
        /\ backup.at \notin {"idle", "connected"} => backup.stamp \in DOMAIN files
    BY <2>1 DEF BackupInv, Settled
  <2>5. backup.at # "idle" => backup.by \in Processes /\ Up(backup.by)
    BY <2>1 DEF DirectoryInv, Serving, Up
  <2>6. \A p \in Processes : InUse(p) <= Connections /\ (InUse(p) > 0 => Up(p))
    <3>1. TAKE p \in Processes
    <3>2. inFlight[p] \in Nat /\ (inFlight[p] > 0 => Up(p))
      BY <2>1 DEF DirectoryInv, Serving, Up
    <3>3. backup.by = p /\ backup.at \in Copying => Up(p)
      BY <2>5 DEF Copying
    <3>4. QED
      BY <2>1, <3>2, <3>3 DEF InUse, DirectoryTypeInv
  <2>7. QED
    BY <2>1, <2>2, <2>3, <2>4, <2>5, <2>6 DEF DirectoryTypeInv, DirectoryTypeOK
<1>2. QED
  BY <1>1, InitBackups, StepBackups, InitTypes, StepTypes, DirectoryHolds, PTL
  DEF DirectorySpec

---------------------------------------------------------------------------
(* Retention.                                                              *)

\* The attempt's name is the newest there is: it is in the directory from its
\* link on, and safe from its sync on, when the pruning starts.
SurviveInv ==
  /\ RetainedSurvive
  /\ backup.at \notin {"idle", "connected"} => DOMAIN files = 1..backup.stamp
  /\ backup.at \in {"copied", "synced", "private"} => backup.stamp \notin dir
  /\ backup.at \in {"linked", "cleaned"} => backup.stamp \in dir \cap unsynced
  /\ backup.at = "pruning" =>
       backup.listed = dir /\ dir \cap unsynced = {} /\ backup.stamp \in succeeded

\* The largest of a set of numbers is the member that bounds it.
LEMMA MaxIsTheBound ==
  ASSUME NEW S \in SUBSET Nat, NEW x \in S, \A y \in S : y <= x
  PROVE  Max(S) = x
<1>1. \A y \in S : x >= y
  OBVIOUS
<1>2. \A z \in S : (\A y \in S : z >= y) => z = x
  <2>1. SUFFICES ASSUME NEW z \in S, \A y \in S : z >= y
                 PROVE  z = x
    OBVIOUS
  <2>2. z >= x /\ x >= z
    BY <1>1, <2>1
  <2>3. QED
    BY <2>2
<1>3. QED
  BY <1>1, <1>2 DEF Max

\* The smallest member is not the largest while there are two.
LEMMA MinIsNotTheBound ==
  ASSUME NEW S \in SUBSET Nat, IsFiniteSet(S), NEW x \in S, \A y \in S : y <= x,
         Cardinality(S) > 1
  PROVE  Min(S) # x
<1>1. S # {x}
  BY FS_Singleton
<1>2. PICK y \in S : y # x
  BY <1>1
<1>3. y < x
  BY <1>2
<1>4. PICK z \in S : \A w \in S : z <= w
  <2>1. PICK z \in S : \A w \in S : ~ (<<w, z>> \in OpToRel(<, Nat))
    BY NatLessThanWellFounded, WFMin, Zenon
  <2>2. OpToRel(<, Nat) = {ss \in Nat \X Nat : ss[1] < ss[2]}
    BY Zenon DEF OpToRel
  <2>3. ASSUME NEW w \in S
        PROVE  z <= w
    <3>1. ~ (<<w, z>> \in {ss \in Nat \X Nat : ss[1] < ss[2]})
      BY <2>1, <2>2
    <3>2. QED
      BY <3>1
  <2>4. QED
    BY <2>3
<1>5. \A w \in S : Min(S) <= w
  BY <1>4 DEF Min
<1>6. QED
  BY <1>3, <1>5

\* The names are finitely many, and so are those a power loss would leave.
LEMMA NamesAreFinite ==
  BackupInv =>
    /\ DOMAIN files \subseteq Nat
    /\ dir \subseteq DOMAIN files /\ succeeded \subseteq DOMAIN files
    /\ IsFiniteSet(dir) /\ IsFiniteSet(succeeded) /\ IsFiniteSet(Survivors)
    /\ Cardinality(dir) \in Nat /\ Cardinality(succeeded) \in Nat
    /\ Cardinality(Survivors) \in Nat
<1> SUFFICES ASSUME BackupInv
             PROVE  /\ DOMAIN files \subseteq Nat
                    /\ dir \subseteq DOMAIN files /\ succeeded \subseteq DOMAIN files
                    /\ IsFiniteSet(dir) /\ IsFiniteSet(succeeded) /\ IsFiniteSet(Survivors)
                    /\ Cardinality(dir) \in Nat /\ Cardinality(succeeded) \in Nat
                    /\ Cardinality(Survivors) \in Nat
  OBVIOUS
<1>1. PICK k \in Nat : DOMAIN files = 1..k
  BY DEF BackupInv
<1>2. IsFiniteSet(DOMAIN files)
  BY <1>1, FS_Interval
<1>3. /\ dir \subseteq DOMAIN files /\ succeeded \subseteq DOMAIN files
      /\ Survivors \subseteq DOMAIN files
  BY DEF BackupInv, Settled, Survivors
<1>4. QED
  BY <1>1, <1>2, <1>3, FS_Subset, FS_CardinalityType

\* What survives of the backups made may only grow.
LEMMA SurvivorsGrow ==
  ASSUME BackupInv, BackupInv', RetainedSurvive, succeeded' = succeeded,
         Survivors \subseteq Survivors'
  PROVE  RetainedSurvive'
<1>1. IsFiniteSet(Survivors)'
  BY NamesAreFinite, PTL
<1>2. Cardinality(Survivors) <= Cardinality(Survivors')
  BY <1>1, FS_Subset
<1>3. /\ Cardinality(Survivors) \in Nat /\ Cardinality(succeeded) \in Nat
      /\ Cardinality(Survivors') \in Nat
  BY <1>1, NamesAreFinite, FS_CardinalityType
<1>4. QED
  BY <1>2, <1>3, DirectoryAssumption DEF RetainedSurvive, DirectoryAssumption

\* The attempt ends, in any way that leaves the survivors.
LEMMA RetentionEnds ==
  ASSUME BackupInv, BackupInv', SurviveInv, succeeded' = succeeded,
         Survivors \subseteq Survivors', backup' = NoBackup
  PROVE  SurviveInv'
<1>1. RetainedSurvive'
  BY SurvivorsGrow DEF SurviveInv
<1>2. backup'.at = "idle"
  BY DEF NoBackup
<1>3. QED
  BY <1>1, <1>2 DEF SurviveInv

\* The attempt goes on with the names that survive as they are.
LEMMA RetentionGoesOn ==
  ASSUME BackupInv, BackupInv', SurviveInv, succeeded' = succeeded,
         Survivors \subseteq Survivors', NEW at, NEW n, NEW listed,
         NEW by, backup' = [at |-> at, by |-> by, stamp |-> n, listed |-> listed],
         DOMAIN files' = 1..n, at # "pruning",
         at \in {"copied", "synced", "private"} => n \notin dir',
         at \in {"linked", "cleaned"} => n \in dir' \cap unsynced'
  PROVE  SurviveInv'
<1>1. RetainedSurvive'
  BY SurvivorsGrow DEF SurviveInv
<1>2. backup'.at = at /\ backup'.stamp = n
  OBVIOUS
<1>3. QED
  BY <1>1, <1>2 DEF SurviveInv

\* Once the directory is synced every name in it survives, the newest among
\* them, and there is one more than before.
LEMMA SyncedSurvive ==
  ASSUME DirectoryInv, BackupInv, BackupInv', SurviveInv, SyncDirectory
  PROVE  SurviveInv'
<1>1. /\ backup.at = "cleaned" /\ unsynced' = {} /\ dir' = dir
      /\ succeeded' = succeeded \cup {backup.stamp}
      /\ backup' = [backup EXCEPT !.at = "pruning", !.listed = dir]
      /\ DOMAIN files' = DOMAIN files
  BY DEF SyncDirectory
<1>2. PICK n : n = backup.stamp
  OBVIOUS
<1>3. backup' = [at |-> "pruning", by |-> backup.by, stamp |-> n, listed |-> dir]
  BY <1>1, <1>2 DEF DirectoryInv
<1>4. backup'.at = "pruning" /\ backup'.stamp = n /\ backup'.listed = dir
  BY <1>3
<1>5. DOMAIN files = 1..n /\ n \in dir /\ n \in unsynced
  BY <1>1, <1>2 DEF SurviveInv
<1>6. Survivors' = dir /\ Survivors \subseteq dir \ {n}
  BY <1>1, <1>5 DEF Survivors
<1>7. Max(succeeded') = n
  <2>1. succeeded' \subseteq 1..n /\ n \in succeeded' /\ 1..n \subseteq Nat
    BY <1>1, <1>2, <1>5, NamesAreFinite
  <2>2. \A m \in succeeded' : m <= n
    BY <1>5, <2>1
  <2>3. QED
    BY <2>1, <2>2, MaxIsTheBound
<1>8. /\ Cardinality(Survivors) + 1 <= Cardinality(dir)
      /\ Cardinality(succeeded') <= Cardinality(succeeded) + 1
      /\ Cardinality(succeeded') \in Nat
      /\ succeeded = {} => Cardinality(succeeded') = 1
  <2>1. Cardinality(dir \ {n}) = Cardinality(dir) - 1 /\ IsFiniteSet(dir \ {n})
    BY <1>5, NamesAreFinite, FS_RemoveElement
  <2>2. Cardinality(Survivors) <= Cardinality(dir \ {n})
    BY <1>6, <2>1, FS_Subset
  <2>3. /\ IsFiniteSet(succeeded')
        /\ Cardinality(succeeded') =
             IF n \in succeeded THEN Cardinality(succeeded) ELSE Cardinality(succeeded) + 1
    BY <1>1, <1>2, NamesAreFinite, FS_AddElement
  <2>4. Cardinality(succeeded') \in Nat
    BY <2>3, FS_CardinalityType
  <2>5. succeeded = {} => Cardinality(succeeded) = 0
    BY FS_EmptySet
  <2>6. QED
    BY <2>1, <2>2, <2>3, <2>4, <2>5, NamesAreFinite
<1>9. RetainedSurvive'
  <2>1. Max(succeeded)' \in Survivors'
    BY <1>5, <1>6, <1>7
  <2>2. /\ Cardinality(Survivors) \in Nat /\ Cardinality(succeeded) \in Nat
        /\ Cardinality(dir) \in Nat /\ Keep \in Nat
        /\ Cardinality(Survivors') = Cardinality(dir)
    BY <1>6, NamesAreFinite, DirectoryAssumption DEF DirectoryAssumption
  <2>3. \/ Cardinality(Survivors') >= Keep
        \/ Cardinality(Survivors') >= Cardinality(succeeded')
    <3>1. CASE succeeded = {}
      BY <1>8, <2>2, <3>1
    <3>2. CASE succeeded # {}
      <4>1. \/ Cardinality(Survivors) >= Keep
            \/ Cardinality(Survivors) >= Cardinality(succeeded)
        BY <3>2 DEF SurviveInv, RetainedSurvive
      <4>2. QED
        BY <1>8, <2>2, <4>1
    <3>3. QED
      BY <3>1, <3>2
  <2>4. QED
    BY <2>1, <2>3 DEF RetainedSurvive
<1>10. QED
  BY <1>1, <1>2, <1>4, <1>5, <1>9 DEF SurviveInv

\* A name is removed while more than Keep names are left, all of them synced,
\* and it is not the newest of them.
LEMMA PruningSurvives ==
  ASSUME DirectoryInv, BackupInv, BackupInv', SurviveInv, PruneOldest,
         Cardinality(backup.listed) > Keep
  PROVE  SurviveInv'
<1>1. PICK n, oldest : n = backup.stamp /\ oldest = Min(dir)
  OBVIOUS
<1>2. /\ backup.at = "pruning" /\ backup.listed = dir /\ dir \cap unsynced = {}
      /\ n \in succeeded /\ DOMAIN files = 1..n
  BY <1>1 DEF PruneOldest, SurviveInv
<1>3. /\ dir' = dir \ {oldest} /\ unsynced' = unsynced \cup {oldest}
      /\ backup' = [backup EXCEPT !.listed = dir \ {oldest}]
      /\ files' = files /\ succeeded' = succeeded
  BY <1>1, <1>2 DEF PruneOldest, Unlinked
<1>4. backup' = [at |-> "pruning", by |-> backup.by, stamp |-> n, listed |-> dir \ {oldest}]
  BY <1>1, <1>2, <1>3 DEF DirectoryInv
<1>5. backup'.at = "pruning" /\ backup'.stamp = n /\ backup'.listed = dir \ {oldest}
  BY <1>4
<1>6. /\ n \in Nat /\ dir \subseteq 1..n /\ succeeded \subseteq 1..n
      /\ dir \in SUBSET Nat /\ IsFiniteSet(dir) /\ Cardinality(dir) \in Nat
      /\ Keep \in Nat /\ Keep >= 1 /\ Cardinality(dir) > Keep
  BY <1>2, NamesAreFinite, DirectoryAssumption DEF DirectoryAssumption
<1>7. Max(succeeded) = n
  <2>1. succeeded \in SUBSET Nat /\ \A m \in succeeded : m <= n
    BY <1>6
  <2>2. QED
    BY <1>2, <2>1, MaxIsTheBound
<1>8. n \in dir
  BY <1>2, <1>7 DEF SurviveInv, RetainedSurvive, Survivors
<1>9. oldest # n
  <2>1. n \in Nat /\ dir \subseteq 1..n /\ \A m \in 1..n : m <= n
    BY <1>6
  <2>2. \A m \in dir : m <= n
    BY <2>1
  <2>3. Cardinality(dir) > 1
    BY <1>6
  <2>4. QED
    BY <1>1, <1>6, <1>8, <2>2, <2>3, MinIsNotTheBound
<1>10. oldest \in dir
  BY <1>1, <1>6, <1>8, MinOfNaturals
<1>11. Survivors' = dir \ {oldest}
  BY <1>2, <1>3 DEF Survivors
<1>12. Cardinality(dir \ {oldest}) = Cardinality(dir) - 1
  BY <1>6, <1>10, FS_RemoveElement
<1>13. RetainedSurvive'
  <2>1. Max(succeeded)' \in Survivors'
    BY <1>3, <1>7, <1>8, <1>9, <1>11
  <2>2. Cardinality(Survivors') >= Keep
    BY <1>6, <1>11, <1>12
  <2>3. QED
    BY <2>1, <2>2 DEF RetainedSurvive
<1>14. QED
  BY <1>2, <1>3, <1>5, <1>13 DEF SurviveInv

\* Every stage of an attempt keeps the survivors.
LEMMA AttemptSurvives ==
  ASSUME DirectoryInv, BackupInv, BackupInv', SurviveInv, BackupStep
  PROVE  SurviveInv'
<1>0. /\ backup = [at |-> backup.at, by |-> backup.by, stamp |-> backup.stamp,
                   listed |-> backup.listed]
      /\ dir \subseteq DOMAIN files
  BY NamesAreFinite DEF DirectoryInv
<1>1. PICK n : n = backup.stamp
  OBVIOUS
<1>2. CASE CopyBackup
  <2>1. PICK k \in Nat : DOMAIN files = 1..k
    BY DEF BackupInv
  <2>2. Cardinality(DOMAIN files) = k
    BY <2>1, FS_Interval
  <2>3. /\ DOMAIN files' = DOMAIN files \cup {k + 1}
        /\ backup' = [backup EXCEPT !.at = "copied", !.stamp = k + 1]
        /\ UNCHANGED <<dir, unsynced, succeeded>>
    BY <1>2, <2>2 DEF CopyBackup
  <2>4. backup' = [at |-> "copied", by |-> backup.by, stamp |-> k + 1,
                   listed |-> backup.listed]
    BY <1>0, <2>3
  <2>5. DOMAIN files' = 1..(k + 1) /\ k + 1 \notin dir'
    BY <1>0, <2>1, <2>3
  <2>6. Survivors \subseteq Survivors'
    BY <2>3 DEF Survivors
  <2>7. QED
    BY <2>3, <2>4, <2>5, <2>6, RetentionGoesOn
<1>3. CASE SyncBackup \/ ChmodBackup
  <2>1. /\ backup.at \in {"copied", "synced"}
        /\ UNCHANGED <<dir, unsynced, succeeded>> /\ DOMAIN files' = DOMAIN files
        /\ \E at \in {"synced", "private"} : backup' = [backup EXCEPT !.at = at]
    BY <1>3 DEF SyncBackup, ChmodBackup
  <2>2. PICK at \in {"synced", "private"} : backup' = [backup EXCEPT !.at = at]
    BY <2>1
  <2>3. backup' = [at |-> at, by |-> backup.by, stamp |-> n, listed |-> backup.listed]
    BY <1>0, <1>1, <2>2
  <2>4. DOMAIN files' = 1..n /\ n \notin dir'
    BY <1>1, <2>1 DEF SurviveInv
  <2>5. Survivors \subseteq Survivors'
    BY <2>1 DEF Survivors
  <2>6. at # "pruning" /\ at \notin {"linked", "cleaned"}
    BY <2>2
  <2>7. QED
    BY <2>1, <2>3, <2>4, <2>5, <2>6, RetentionGoesOn
<1>4. CASE LinkBackup
  <2>1. /\ backup.at = "private" /\ n \notin dir
        /\ dir' = dir \cup {n} /\ unsynced' = unsynced \cup {n}
        /\ files' = files /\ succeeded' = succeeded
        /\ backup' = [backup EXCEPT !.at = "linked"]
    BY <1>1, <1>4 DEF LinkBackup, Linked
  <2>2. backup' = [at |-> "linked", by |-> backup.by, stamp |-> n, listed |-> backup.listed]
    BY <1>0, <1>1, <2>1
  <2>3. DOMAIN files' = 1..n
    BY <1>1, <2>1 DEF SurviveInv
  <2>4. Survivors \subseteq Survivors'
    BY <2>1 DEF Survivors
  <2>5. QED
    BY <2>1, <2>2, <2>3, <2>4, RetentionGoesOn
<1>5. CASE RemoveTemp
  <2>1. /\ backup.at = "linked" /\ UNCHANGED <<files, dir, unsynced, succeeded>>
        /\ backup' = [backup EXCEPT !.at = "cleaned"]
    BY <1>5 DEF RemoveTemp
  <2>2. backup' = [at |-> "cleaned", by |-> backup.by, stamp |-> n, listed |-> backup.listed]
    BY <1>0, <1>1, <2>1
  <2>3. DOMAIN files' = 1..n /\ n \in dir' \cap unsynced'
    BY <1>1, <2>1 DEF SurviveInv
  <2>4. Survivors \subseteq Survivors'
    BY <2>1 DEF Survivors
  <2>5. QED
    BY <2>1, <2>2, <2>3, <2>4, RetentionGoesOn
<1>6. CASE SyncDirectory
  BY <1>6, SyncedSurvive
<1>7. CASE PruneOldest
  <2>1. CASE Cardinality(backup.listed) > Keep
    BY <1>7, <2>1, PruningSurvives
  <2>2. CASE ~ (Cardinality(backup.listed) > Keep)
    <3>1. backup' = NoBackup /\ UNCHANGED <<dir, unsynced, succeeded>>
      BY <1>7, <2>2 DEF PruneOldest
    <3>2. Survivors \subseteq Survivors'
      BY <3>1 DEF Survivors
    <3>3. QED
      BY <3>1, <3>2, RetentionEnds
  <2>3. QED
    BY <2>1, <2>2
<1>8. CASE FailBackup
  <2>1. /\ backup' = NoBackup /\ succeeded' = succeeded
        /\ \/ /\ backup.at = "linked" /\ dir' = dir \ {n}
              /\ unsynced' = unsynced \cup {n}
           \/ UNCHANGED <<dir, unsynced>>
    BY <1>1, <1>8 DEF FailBackup, Unlinked
  <2>2. backup.at = "linked" => n \in unsynced
    BY <1>1 DEF SurviveInv
  <2>3. Survivors \subseteq Survivors'
    BY <2>1, <2>2 DEF Survivors
  <2>4. QED
    BY <2>1, <2>3, RetentionEnds
<1>9. QED
  BY <1>2, <1>3, <1>4, <1>5, <1>6, <1>7, <1>8 DEF BackupStep

\* Every step of the directory keeps the survivors.
LEMMA StepSurvive ==
  DirectoryInv /\ BackupInv /\ SurviveInv /\ [DirectoryNext]_directoryVars => SurviveInv'
<1> SUFFICES ASSUME DirectoryInv, BackupInv, SurviveInv, [DirectoryNext]_directoryVars
             PROVE  SurviveInv'
  OBVIOUS
<1>0. BackupInv'
  BY StepBackups
<1>1. CASE UNCHANGED backups
  BY <1>1 DEF backups, SurviveInv, RetainedSurvive, Survivors
<1>2. CASE backup' = NoBackup /\ UNCHANGED <<dir, unsynced, succeeded>>
  <2>1. Survivors \subseteq Survivors'
    BY <1>2 DEF Survivors
  <2>2. QED
    BY <1>0, <1>2, <2>1, RetentionEnds
<1>3. CASE PowerLoss
  <2>1. PICK lost \in SUBSET unsynced : dir' = (dir \ unsynced) \cup lost
    BY <1>3 DEF PowerLoss
  <2>2. unsynced' = {} /\ backup' = NoBackup /\ succeeded' = succeeded
    BY <1>3 DEF PowerLoss
  <2>3. Survivors \subseteq Survivors'
    BY <2>1, <2>2 DEF Survivors
  <2>4. QED
    BY <1>0, <2>2, <2>3, RetentionEnds
<1>4. CASE BackupStep
  BY <1>0, <1>4, AttemptSurvives
<1>5. ASSUME NEW p \in Processes, OpenSource(p)
      PROVE  SurviveInv'
  <2>1. /\ UNCHANGED <<files, dir, unsynced, succeeded>>
        /\ backup' = [NoBackup EXCEPT !.at = "connected", !.by = p]
    BY <1>5 DEF OpenSource
  <2>2. backup'.at = "connected"
    BY <2>1 DEF NoBackup
  <2>3. QED
    BY <2>1, <2>2 DEF SurviveInv, RetainedSurvive, Survivors
<1>6. ASSUME NEW p \in Processes, Exit(p) \/ Crash(p)
      PROVE  SurviveInv'
  <2>1. UNCHANGED <<files, dir, unsynced, succeeded>> /\ backup' \in {backup, NoBackup}
    BY <1>6 DEF Exit, Crash, Ended
  <2>2. QED
    BY <1>1, <1>2, <2>1 DEF backups
<1>7. QED
  BY <1>1, <1>3, <1>4, <1>5, <1>6
  DEF DirectoryNext, Opening, Acquire, ReadVersions, Upgrade, FailUpgrade, CloseDatabase,
      ReleaseLock, Transaction, Connect, Reserve, ReleaseDue, Rollback, directoryVars

\* Of the backups reported as made the newest, and as many names as retention
\* keeps, outlive a power loss at any moment: the pruning removes synced names
\* only down to Keep, and the newest name is none of those it removes.
THEOREM BackupsAreRetained == DirectorySpec => []RetainedSurvive
<1>1. DirectoryInit => SurviveInv
  <2>1. DirectoryInit => succeeded = {} /\ backup.at = "idle"
    BY DEF DirectoryInit, NoBackup
  <2>2. QED
    BY <2>1 DEF SurviveInv, RetainedSurvive
<1>2. SurviveInv => RetainedSurvive
  BY DEF SurviveInv
<1>3. QED
  BY <1>1, <1>2, StepSurvive, InitBackups, StepBackups, DirectoryHolds, PTL
  DEF DirectorySpec
=============================================================================
