--------------------------- MODULE MCDataDirectory ---------------------------
(***************************************************************************)
(* DataDirectory for TLC.  The upgrade and the backups share only the file *)
(* a backup copies and the life of the processes, so `focus', chosen       *)
(* initially, says what moves:                                             *)
(*   upgrade  any earlier file, opened, served and written by either       *)
(*            process, with late transactions of the one before            *)
(*   backups  a current file, backed up and pruned by either process, with *)
(*            a late backup of the one before                              *)
(***************************************************************************)
EXTENDS DataDirectory, TLC

VARIABLE focus
vars == <<directoryVars, focus>>

Init ==
  /\ DirectoryInit
  /\ focus \in {"upgrade", "backups"}
  /\ focus = "backups" => db.rows = << >> /\ IsCurrent(db)

Next ==
  /\ UNCHANGED focus
  /\ \/ PowerLoss
     \/ \E p \in Processes :
          \/ Opening(p) \/ FailUpgrade(p)
          \/ CloseDatabase(p) \/ ReleaseLock(p) \/ Exit(p) \/ Crash(p)
          \/ focus = "upgrade" /\ Transaction(p)
          \/ focus = "backups" /\ OpenSource(p)
     \/ focus = "backups" /\ BackupStep

Spec == Init /\ [][Next]_vars /\ DirectoryFairness
=============================================================================
