---------------------------- MODULE SchemaUpgrade ----------------------------
(***************************************************************************)
(* The SQLite file: which constraint objects and columns it has, how Open  *)
(* brings an earlier one up to date (internal/v4/storage/schema.go), and   *)
(* what the restore drill demands of one (restore.go).  Every definition   *)
(* is a function of the file; DataDirectory says when they are applied.    *)
(*                                                                         *)
(* The constraint objects compare only reservations of equal amount, so a  *)
(* file is followed for one payable amount:                                *)
(*   version  the last row of schema_migrations (0: none)                  *)
(*   has      the objects, columns and checks that differ between builds   *)
(*   rows     the reservations of the amount: their profile, whether they  *)
(*            are live (released_at IS NULL) and global_unique_enforced    *)
(*            (1, the default of the column, while there is no column)     *)
(***************************************************************************)
EXTENDS Integers, FiniteSets

CONSTANTS
  Profiles,
  Reservations   \* reservations of the one amount

ASSUME ProfilesFinite == IsFiniteSet(Profiles) /\ IsFiniteSet(Reservations)

Marker == "global_unique_enforced"
Epoch == "epoch_required"
ProfileIndex == "uq_active_profile_payable"
PlainIndex == "uq_active_payable on every live row"
MarkedIndex == "uq_active_payable on live enforced rows"
StrictTriggers == "global uniqueness triggers"
HistoricalTriggers == "global uniqueness triggers of versions 5 and 7"
Singleton == "uq_relay_devices_one_enabled"
WideAdjustment == "adjustment_paise up to 599"
HealthColumns == "relay health columns"
LegacyParser == "legacy parser"
Corroboration == "corroborated observations"
PayloadHash == "payload_hash"
ConsistencyTriggers == "payment reservation consistency triggers"

Features ==
  {Marker, Epoch, ProfileIndex, PlainIndex, MarkedIndex, StrictTriggers,
   HistoricalTriggers, Singleton, WideAdjustment, HealthColumns, LegacyParser,
   Corroboration, PayloadHash, ConsistencyTriggers}

\* What this build's Open leaves a file with, and the version it leaves.
schemaVersion == 4
Current ==
  {Marker, Epoch, ProfileIndex, MarkedIndex, StrictTriggers, WideAdjustment,
   HealthColumns, LegacyParser, Corroboration, PayloadHash, ConsistencyTriggers}
IsCurrent(d) == d.version = schemaVersion /\ d.has = Current

Rows == [profile : Profiles, live : BOOLEAN, enforced : BOOLEAN]
Databases ==
  [version : 0 .. 8, has : SUBSET Features,
   rows : UNION {[R -> Rows] : R \in SUBSET Reservations}]

LiveRows(rows) == {r \in DOMAIN rows : rows[r].live}
\* Pairs of reservations that hold the amount at the same time.
Overlaps(d) == {S \in SUBSET LiveRows(d.rows) : Cardinality(S) = 2}
SameProfile(rows) ==
  \E r, s \in LiveRows(rows) : r # s /\ rows[r].profile = rows[s].profile

----------------------------------------------------------------------------
(* The reservation writes a file's constraint objects let through.         *)

Triggers == {StrictTriggers, HistoricalTriggers}
\* Mutant: the insert trigger, too, looks at enforced rows only.
InsertAllowedMarked(d, p) ==
  \A r \in LiveRows(d.rows) :
    /\ ProfileIndex \in d.has => d.rows[r].profile # p
    /\ d.has \cap (Triggers \cup {PlainIndex}) # {} => ~ d.rows[r].enforced
InsertAllowed(d, p) ==
  \A r \in LiveRows(d.rows) :
    /\ ProfileIndex \in d.has => d.rows[r].profile # p
    /\ d.has \cap (Triggers \cup {PlainIndex}) = {}
Inserted(d, r, p) ==
  [d EXCEPT !.rows = [x \in DOMAIN @ \cup {r} |->
     IF x = r THEN [profile |-> p, live |-> TRUE, enforced |-> TRUE] ELSE @[x]]]
Released(d, r) == [d EXCEPT !.rows[r].live = FALSE]

----------------------------------------------------------------------------
(* Open, one operator per transaction.  `found' is the version read when   *)
(* Open started.                                                           *)

Recorded(d, v, new) == [d EXCEPT !.version = v, !.has = @ \cup new]
ApplyV1(d) == Recorded(d, 1, {ProfileIndex, Singleton, WideAdjustment})
ApplyV2(d) == Recorded(d, 2, {HealthColumns})
ApplyV3(d) == Recorded(d, 3, {LegacyParser})
ApplyV4(d) == Recorded(d, 4, {Corroboration})

\* Mutant: the newest version is taken for the newest one Open reads.
SupportedNone(d) == d.version <= schemaVersion
Supported(d) == d.version <= 7

\* Reservations that already share the amount are marked 0 and kept.
Grandfathered(rows) ==
  [r \in DOMAIN rows |-> [rows[r] EXCEPT !.enforced =
     ~ (rows[r].live /\ Cardinality(LiveRows(rows)) > 1)]]
\* The unique profile index cannot be created over a violation of it.
Reconcilable(d) == Supported(d) /\ ~ SameProfile(d.rows)
\* Mutant: global triggers that exist are kept.
ReconciledKeepingTriggers(d) ==
  [version |-> IF d.version > 4 THEN 4 ELSE d.version,
   has |-> (d.has \ {PlainIndex})
             \cup {Marker, Epoch, ProfileIndex, MarkedIndex}
             \cup IF d.has \cap Triggers = {} THEN {StrictTriggers} ELSE {},
   rows |-> Grandfathered(d.rows)]
Reconciled(d) ==
  [version |-> IF d.version > 4 THEN 4 ELSE d.version,
   has |-> (d.has \ {PlainIndex, HistoricalTriggers})
             \cup {Marker, Epoch, ProfileIndex, MarkedIndex, StrictTriggers},
   rows |-> Grandfathered(d.rows)]

WithAdjustmentCapacity(d) ==
  IF WideAdjustment \in d.has THEN d
  ELSE [d EXCEPT !.has = @ \cup {WideAdjustment, ConsistencyTriggers}]
WithMultiRelay(d) == [d EXCEPT !.has = @ \ {Singleton}]
WithPayloadIntegrity(d) ==
  [d EXCEPT !.has = @ \cup {PayloadHash, ConsistencyTriggers}]

\* migrate, ensureMultiRelayCompatibility, ensureRelayPayloadIntegrity.
Steps == {"v1", "v2", "v3", "v4", "compatibility", "capacity", "multi-relay", "payload"}
After(step) ==
  CASE step = "v1" -> "v2" [] step = "v2" -> "v3" [] step = "v3" -> "v4"
    [] step = "v4" -> "compatibility" [] step = "compatibility" -> "capacity"
    [] step = "capacity" -> "multi-relay" [] step = "multi-relay" -> "payload"
    [] step = "payload" -> "serving"
Passes(step, d) == step = "compatibility" => Reconcilable(d)
Applied(step, found, d) ==
  CASE step = "v1" -> IF found < 1 THEN ApplyV1(d) ELSE d
    [] step = "v2" -> IF found < 2 THEN ApplyV2(d) ELSE d
    [] step = "v3" -> IF found < 3 THEN ApplyV3(d) ELSE d
    [] step = "v4" -> IF found < 4 THEN ApplyV4(d) ELSE d
    [] step = "compatibility" -> Reconciled(d)
    [] step = "capacity" -> WithAdjustmentCapacity(d)
    [] step = "multi-relay" -> WithMultiRelay(d)
    [] step = "payload" -> WithPayloadIntegrity(d)

\* All of Open in one go; Opens says it reports no error.
Migrated(d) ==
  LET f == d.version
  IN  Applied("v4", f, Applied("v3", f, Applied("v2", f, Applied("v1", f, d))))
Opens(d) == Supported(d) /\ Reconcilable(Migrated(d))
Opened(d) ==
  WithPayloadIntegrity(WithMultiRelay(WithAdjustmentCapacity(Reconciled(Migrated(d)))))

----------------------------------------------------------------------------
(* validateRestoreDatabase, one operator per kind of object it inspects.   *)

\* Mutant: the newest supported version is not checked.
VersionsAcceptedAny(d) == d.version >= 1
VersionsAccepted(d) == d.version \in 1 .. 7
TransitionAccepted(d) ==
  /\ d.version >= 6 => Epoch \in d.has
  /\ d.version >= 7 => Marker \in d.has
\* What the version says must be there and otherwise must not; the marker, the
\* epoch and the payload hash may be there or not.
ColumnsRequired(d) == IF d.version >= 2 THEN {HealthColumns} ELSE {}
ColumnsAccepted(d) == d.has \cap {HealthColumns} = ColumnsRequired(d)
ChecksRequired(d) ==
  (IF d.version >= 3 THEN {LegacyParser} ELSE {})
    \cup (IF d.version >= 4 THEN {Corroboration} ELSE {})
ChecksAccepted(d) == d.has \cap {LegacyParser, Corroboration} = ChecksRequired(d)
RelaysAccepted(d) == Singleton \notin d.has
IndexesRequired(d) ==
  (IF d.version <= 4 THEN {ProfileIndex} ELSE {})
    \cup (IF Marker \in d.has THEN {MarkedIndex}
          ELSE IF d.version >= 5 THEN {PlainIndex} ELSE {})
IndexesAccepted(d) == IndexesRequired(d) \subseteq d.has
\* The builds whose triggers contain every fragment looked for.
TriggersKnown(d) == IF d.version <= 4 THEN {StrictTriggers} ELSE Triggers
TriggersAccepted(d) == Marker \in d.has => d.has \cap TriggersKnown(d) # {}
RestoreAccepts(d) ==
  /\ VersionsAccepted(d) /\ TransitionAccepted(d) /\ ColumnsAccepted(d)
  /\ ChecksAccepted(d) /\ RelaysAccepted(d) /\ IndexesAccepted(d) /\ TriggersAccepted(d)

----------------------------------------------------------------------------
(* The files this build may find: its own, interrupted at any transaction, *)
(* and those of the builds its tests and SQL know (db_test.go,             *)
(* restore_test.go): 199 as the adjustment's limit, the version 4 of one   *)
(* relay, the versions 5 to 7 of the first global uniqueness.              *)

UpTo(v) ==
  {ProfileIndex} \cup (IF v >= 2 THEN {HealthColumns} ELSE {})
    \cup (IF v >= 3 THEN {LegacyParser} ELSE {})
    \cup (IF v >= 4 THEN {Corroboration} ELSE {})
Relational == {{}, {PayloadHash, ConsistencyTriggers}}

EarlierSchemas ==
  {[version |-> 0, has |-> {}]}
  \cup {[version |-> v, has |-> UpTo(v) \cup {Singleton} \cup w] :
          v \in 1 .. 4, w \in {{}, {WideAdjustment}}}
  \cup {[version |-> 4, has |-> UpTo(4) \cup w \cup p] :
          w \in {{}, {WideAdjustment}}, p \in Relational}
  \cup {[version |-> 5, has |-> UpTo(4) \cup {PlainIndex, WideAdjustment} \cup p] :
          p \in Relational}
  \cup {[version |-> v,
         has |-> UpTo(4) \cup {Marker, MarkedIndex, StrictTriggers, WideAdjustment}
                   \cup (IF v >= 6 THEN {Epoch} ELSE {})] : v \in 5 .. 7}
  \cup {[version |-> v,
         has |-> (UpTo(4) \ {ProfileIndex})
                   \cup {Marker, MarkedIndex, HistoricalTriggers, WideAdjustment}
                   \cup (IF v >= 6 THEN {Epoch} ELSE {})] : v \in {5, 7}}
  \cup {[version |-> 8, has |-> Current], [version |-> 4, has |-> Current]}

\* What a build's constraint objects and its marking leave of the amount.
Possible(s, rows) ==
  /\ s.version = 0 => rows = << >>
  /\ ProfileIndex \in s.has => ~ SameProfile(rows)
  /\ PlainIndex \in s.has => Cardinality(LiveRows(rows)) <= 1
  /\ Marker \notin s.has => \A r \in DOMAIN rows : rows[r].enforced
  /\ Marker \in s.has =>
       LET live == LiveRows(rows)
       IN  /\ ~ SameProfile(rows)
           /\ Cardinality(live) > 1 => \A r \in live : ~ rows[r].enforced

EarlierDatabases ==
  {d \in UNION {[version : {s.version}, has : {s.has},
                 rows : UNION {[R -> Rows] : R \in SUBSET Reservations}] :
                   s \in EarlierSchemas} :
     Possible(d, d.rows)}
=============================================================================
