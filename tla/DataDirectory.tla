---------------------------- MODULE DataDirectory ----------------------------
(***************************************************************************)
(* One data directory and the processes that want it: the process lock     *)
(* (internal/processlock), the life of a process around it (New and Close  *)
(* in runtime/app.go), the upgrade Open runs before serving, the           *)
(* reservations written while serving, and the daily backup with its       *)
(* pruning (storage/backup.go, runtime/workers.go).                        *)
(*                                                                         *)
(* A transaction is one action and is durable when it ends (WAL,           *)
(* synchronous FULL, BEGIN IMMEDIATE); the connection it runs on is taken  *)
(* from the pool before and may be out when the process closes the pool    *)
(* and releases the lock.  A process may stop between any two actions; the *)
(* machine may lose power, which keeps of the backup directory:            *)
(*   - the data of a file iff it was synced;                               *)
(*   - of the modes and names changed since the last sync of the           *)
(*     directory, any part; before it, all (a journaling file system).     *)
(* Backups have names that grow with the clock, which does not step back.  *)
(* They are a day apart, across restarts as well (nextDailyBackup), and a  *)
(* process that has released the lock has only to return from main: it is  *)
(* taken to be gone by the next day, so there is one attempt at a time.    *)
(* A temporary name is random, and nothing reads it later: what a crash    *)
(* leaves of it in the directory is not followed.                          *)
(***************************************************************************)
EXTENDS SchemaUpgrade, FiniteSetsExt

CONSTANTS
  Processes,
  Nobody,
  Connections,                         \* the pool's limit, 8 in the code
  Keep,                                \* BackupRetention
  MaxBackups, MaxCrashes, MaxFailures  \* bounds

ASSUME DirectoryAssumption ==
  /\ Nobody \notin Processes
  /\ {Connections, Keep} \subseteq Nat \ {0}
  /\ {MaxBackups, MaxCrashes, MaxFailures} \subseteq Nat

VARIABLES
  db,        \* paygate.db
  owner,     \* who holds .paygate-process.lock
  proc,      \* process -> [at, found]: where it is, the version it found
  inFlight,  \* process -> connections its handlers and workers have out
  files,     \* inode -> its content; one per backup attempt
  dir,       \* stamps of the names paygate-*.db in the backup directory
  unsynced,  \* names created or removed since the directory was synced
  backup,    \* the attempt under way: [at, by, stamp, listed]
  succeeded, \* stamps whose BackupTo returned without an error
  crashes, failures

process == <<owner, proc>>
backups == <<files, dir, unsynced, backup, succeeded>>
directoryVars == <<db, process, inFlight, backups, crashes, failures>>

Stamps == 1 .. MaxBackups
Garbage == [version |-> 8, has |-> {}, rows |-> << >>]
File == [data : Databases, synced : BOOLEAN, mode : {"default", "private", "durable"}]
Down == [at |-> "down", found |-> 0]
NoBackup == [at |-> "idle", by |-> Nobody, stamp |-> 0, listed |-> {}]
\* BackupTo keeps its source connection until it returns.
Copying == {"connected", "copied", "synced", "private", "linked", "cleaned"}
Stages == {"idle", "pruning"} \cup Copying

\* A process that opens or serves the file; and one with a connection to it,
\* which may have closed the pool and released the lock meanwhile.
Operates(p) == proc[p].at \in Steps \cup {"versions", "serving"}
InUse(p) == inFlight[p] + (IF backup.by = p /\ backup.at \in Copying THEN 1 ELSE 0)
HasOpen(p) == Operates(p) \/ InUse(p) > 0
\* The processes whose handlers and workers may still run.
Up(p) == proc[p].at \in {"serving", "closed", "released"}

DirectoryInit ==
  /\ db \in EarlierDatabases
  /\ owner = Nobody
  /\ proc = [p \in Processes |-> Down]
  /\ inFlight = [p \in Processes |-> 0]
  /\ files = << >> /\ dir = {} /\ unsynced = {}
  /\ backup = NoBackup /\ succeeded = {}
  /\ crashes = 0 /\ failures = 0

----------------------------------------------------------------------------
(* A process: New, Open, Close.                                            *)

\* New takes the lock or gives up at once.
Acquire(p) ==
  /\ proc[p] = Down /\ owner = Nobody
  /\ owner' = p
  /\ proc' = [proc EXCEPT ![p].at = "versions"]
  /\ UNCHANGED <<db, inFlight, backups, crashes, failures>>

\* migrate reads the versions and refuses what it does not know; the
\* deferred calls of New close the file and release the lock.
ReadVersions(p) ==
  /\ proc[p].at = "versions"
  /\ IF Supported(db)
     THEN proc' = [proc EXCEPT ![p] = [at |-> "v1", found |-> db.version]] /\ UNCHANGED owner
     ELSE proc' = [proc EXCEPT ![p] = Down] /\ owner' = Nobody
  /\ UNCHANGED <<db, inFlight, backups, crashes, failures>>

\* The next transaction of Open; an error ends the process.
Upgrade(p) ==
  LET step == proc[p].at
  IN  /\ step \in Steps
      /\ IF Passes(step, db)
         THEN /\ db' = Applied(step, proc[p].found, db)
              /\ proc' = [proc EXCEPT ![p] =
                   [at |-> After(step),
                    found |-> IF After(step) \in {"v2", "v3", "v4"} THEN @.found ELSE 0]]
              /\ UNCHANGED owner
         ELSE /\ proc' = [proc EXCEPT ![p] = Down]
              /\ owner' = Nobody
              /\ UNCHANGED db
      /\ UNCHANGED <<inFlight, backups, crashes, failures>>

\* A transaction that meets a full disk or a busy file is rolled back.
FailUpgrade(p) ==
  /\ proc[p].at \in Steps
  /\ failures < MaxFailures
  /\ proc' = [proc EXCEPT ![p] = Down]
  /\ owner' = Nobody
  /\ failures' = failures + 1
  /\ UNCHANGED <<db, inFlight, backups, crashes>>

\* Close closes the pool: its idle connections end and no more are handed
\* out, while those that are out go on, since no worker is waited for, nor a
\* handler past the timeout of Shutdown ...
CloseDatabase(p) ==
  /\ proc[p].at = "serving"
  /\ proc' = [proc EXCEPT ![p].at = "closed"]
  /\ UNCHANGED <<owner, db, inFlight, backups, crashes, failures>>

\* Mutant: the lock is released before the pool is closed.
ReleaseLockFirst(p) ==
  /\ proc[p].at \in {"serving", "closed"}
  /\ owner' = IF owner = p THEN Nobody ELSE owner
  /\ proc' = IF proc[p].at = "closed" THEN [proc EXCEPT ![p].at = "released"] ELSE proc
  /\ UNCHANGED <<db, inFlight, backups, crashes, failures>>
\* ... and then releases the lock.
ReleaseLock(p) ==
  /\ proc[p].at = "closed"
  /\ owner' = Nobody
  /\ proc' = [proc EXCEPT ![p].at = "released"]
  /\ UNCHANGED <<db, inFlight, backups, crashes, failures>>

\* With the process end its transactions, rolled back, and its backup.
Ended(p) ==
  /\ proc' = [proc EXCEPT ![p] = Down]
  /\ inFlight' = [inFlight EXCEPT ![p] = 0]
  /\ backup' = IF backup.by = p THEN NoBackup ELSE backup

\* main returns after the deferred Close.
Exit(p) ==
  /\ proc[p].at = "released"
  /\ Ended(p)
  /\ UNCHANGED <<owner, db, files, dir, unsynced, succeeded, crashes, failures>>

\* The process is killed: the system drops its lock.
Crash(p) ==
  /\ proc[p] # Down
  /\ crashes < MaxCrashes
  /\ crashes' = crashes + 1
  /\ Ended(p)
  /\ owner' = IF owner = p THEN Nobody ELSE owner
  /\ UNCHANGED <<db, files, dir, unsynced, succeeded, failures>>

\* The machine loses power.
PowerLoss ==
  /\ crashes < MaxCrashes
  /\ crashes' = crashes + 1
  /\ owner' = Nobody
  /\ proc' = [p \in Processes |-> Down]
  /\ inFlight' = [p \in Processes |-> 0]
  /\ \E lost \in SUBSET unsynced :
       /\ dir' = (dir \ unsynced) \cup lost
       /\ \E reset \in SUBSET {n \in DOMAIN files : files[n].mode = "private"} :
            files' = [n \in DOMAIN files |->
              [data |-> IF files[n].synced THEN files[n].data ELSE Garbage,
               synced |-> files[n].synced,
               mode |-> IF n \in reset THEN "default" ELSE files[n].mode]]
  /\ unsynced' = {}
  /\ backup' = NoBackup
  /\ UNCHANGED <<db, succeeded, failures>>

----------------------------------------------------------------------------
(* The connections of handlers and workers, and the reservations that the  *)
(* ledger's transactions on them write.                                    *)

\* Mutant: the pool hands out connections without a limit.
ConnectUnlimited(p) ==
  /\ proc[p].at = "serving"
  /\ inFlight' = [inFlight EXCEPT ![p] = @ + 1]
  /\ UNCHANGED <<db, process, backups, crashes, failures>>
\* WithImmediateTx takes a connection of the pool, while it is open.
Connect(p) ==
  /\ proc[p].at = "serving" /\ InUse(p) < Connections
  /\ inFlight' = [inFlight EXCEPT ![p] = @ + 1]
  /\ UNCHANGED <<db, process, backups, crashes, failures>>

\* Its transaction commits or is rolled back, and returns the connection.
Returned(p) == inFlight[p] > 0 /\ inFlight' = [inFlight EXCEPT ![p] = @ - 1]

Reserve(p) ==
  /\ Returned(p)
  /\ \E r \in Reservations \ DOMAIN db.rows, profile \in Profiles :
       /\ InsertAllowed(db, profile)
       /\ db' = Inserted(db, r, profile)
  /\ UNCHANGED <<process, backups, crashes, failures>>

ReleaseDue(p) ==
  /\ Returned(p)
  /\ \E r \in LiveRows(db.rows) : db' = Released(db, r)
  /\ UNCHANGED <<process, backups, crashes, failures>>

Rollback(p) == Returned(p) /\ UNCHANGED <<db, process, backups, crashes, failures>>

----------------------------------------------------------------------------
(* BackupNow of the backup worker: BackupTo step by step, then the pruning.*)
(* Once it has its connection it goes on in whatever state its process is. *)

Linked(n) == dir' = dir \cup {n} /\ unsynced' = unsynced \cup {n}
Unlinked(n) == dir' = dir \ {n} /\ unsynced' = unsynced \cup {n}

\* The name must be free, and the pool open, for the source connection.
OpenSource(p) ==
  /\ proc[p].at = "serving" /\ InUse(p) < Connections
  /\ backup.at = "idle"
  /\ backup' = [NoBackup EXCEPT !.at = "connected", !.by = p]
  /\ UNCHANGED <<db, process, inFlight, files, dir, unsynced, succeeded, crashes, failures>>

\* The online backup copies one snapshot into a temporary file, which is then
\* verified.
CopyBackup ==
  /\ backup.at = "connected"
  /\ Cardinality(DOMAIN files) < MaxBackups
  /\ LET n == Cardinality(DOMAIN files) + 1
     IN  /\ files' = [m \in DOMAIN files \cup {n} |->
                IF m = n THEN [data |-> db, synced |-> FALSE, mode |-> "default"]
                ELSE files[m]]
         /\ backup' = [backup EXCEPT !.at = "copied", !.stamp = n]
  /\ UNCHANGED <<db, process, inFlight, dir, unsynced, succeeded, crashes, failures>>

SyncBackup ==
  /\ backup.at = "copied"
  /\ files' = [files EXCEPT ![backup.stamp].synced = TRUE]
  /\ backup' = [backup EXCEPT !.at = "synced"]
  /\ UNCHANGED <<db, process, inFlight, dir, unsynced, succeeded, crashes, failures>>

ChmodBackup ==
  /\ backup.at = "synced"
  /\ files' = [files EXCEPT ![backup.stamp].mode = "private"]
  /\ backup' = [backup EXCEPT !.at = "private"]
  /\ UNCHANGED <<db, process, inFlight, dir, unsynced, succeeded, crashes, failures>>

\* Mutant: the backup is published as soon as it is verified.
LinkBackupEarly ==
  /\ backup.at \in {"copied", "private"}
  /\ Linked(backup.stamp)
  /\ backup' = [backup EXCEPT !.at = "linked"]
  /\ UNCHANGED <<db, process, inFlight, files, succeeded, crashes, failures>>
\* A hard link publishes it under its name and replaces nothing.
LinkBackup ==
  /\ backup.at = "private"
  /\ backup.stamp \notin dir
  /\ Linked(backup.stamp)
  /\ backup' = [backup EXCEPT !.at = "linked"]
  /\ UNCHANGED <<db, process, inFlight, files, succeeded, crashes, failures>>

\* removeBackupTempArtifacts.
RemoveTemp ==
  /\ backup.at = "linked"
  /\ backup' = [backup EXCEPT !.at = "cleaned"]
  /\ UNCHANGED <<db, process, inFlight, files, dir, unsynced, succeeded, crashes, failures>>

\* Mutant: BackupTo does not sync the directory.
SyncDirectorySkipped ==
  /\ backup.at = "cleaned"
  /\ succeeded' = succeeded \cup {backup.stamp}
  /\ backup' = [backup EXCEPT !.at = "pruning", !.listed = dir]
  /\ UNCHANGED <<db, process, inFlight, files, dir, unsynced, crashes, failures>>
\* The directory is synced, BackupTo returns, which gives the connection back,
\* and pruneBackups lists the directory.
SyncDirectory ==
  /\ backup.at = "cleaned"
  /\ unsynced' = {}
  /\ files' = [n \in DOMAIN files |->
       [files[n] EXCEPT !.mode = IF @ = "private" THEN "durable" ELSE @]]
  /\ succeeded' = succeeded \cup {backup.stamp}
  /\ backup' = [backup EXCEPT !.at = "pruning", !.listed = dir]
  /\ UNCHANGED <<db, process, inFlight, dir, crashes, failures>>

\* pruneBackups removes the oldest name listed while more than Keep are left.
PruneOldest ==
  /\ backup.at = "pruning"
  /\ IF Cardinality(backup.listed) > Keep
     THEN LET oldest == Min(backup.listed)
          IN  /\ Unlinked(oldest)
              /\ backup' = [backup EXCEPT !.listed = @ \ {oldest}]
     ELSE backup' = NoBackup /\ UNCHANGED <<dir, unsynced>>
  /\ UNCHANGED <<db, process, inFlight, files, succeeded, crashes, failures>>

\* What an error leaves: until the link, nothing; if the temporary file
\* cannot be removed, the new name is removed, which may fail, too; a failed
\* sync of the directory or removal of an old name leaves every name.
FailBackup ==
  /\ backup.at # "idle"
  /\ failures < MaxFailures
  /\ \/ backup.at = "linked" /\ Unlinked(backup.stamp)
     \/ UNCHANGED <<dir, unsynced>>
  /\ backup' = NoBackup
  /\ failures' = failures + 1
  /\ UNCHANGED <<db, process, inFlight, files, succeeded, crashes>>

\* validateRestoreSource: of the file's metadata only the mode can differ.
SourceAccepted(f) == f.mode # "default"
\* RestoreDrill, on a copy in a directory of its own.
DrillPasses(f) == SourceAccepted(f) /\ RestoreAccepts(f.data) /\ Opens(f.data)

BackupStep ==
  \/ CopyBackup \/ SyncBackup \/ ChmodBackup \/ LinkBackup
  \/ RemoveTemp \/ SyncDirectory \/ PruneOldest \/ FailBackup

Opening(p) == Acquire(p) \/ ReadVersions(p) \/ Upgrade(p)
Transaction(p) == Connect(p) \/ Reserve(p) \/ ReleaseDue(p) \/ Rollback(p)

DirectoryNext ==
  \/ \E p \in Processes :
       \/ Opening(p) \/ FailUpgrade(p)
       \/ CloseDatabase(p) \/ ReleaseLock(p) \/ Exit(p) \/ Crash(p)
       \/ Transaction(p) \/ OpenSource(p)
  \/ BackupStep
  \/ PowerLoss

\* A supervisor starts the server, a start goes on until it ends, and so
\* does a shutdown.
DirectoryFairness ==
  \A p \in Processes :
    /\ WF_directoryVars(Opening(p))
    /\ WF_directoryVars(ReleaseLock(p)) /\ WF_directoryVars(Exit(p))

DirectorySpec == DirectoryInit /\ [][DirectoryNext]_directoryVars /\ DirectoryFairness

----------------------------------------------------------------------------

\* Every variable has its type; no process has more connections out than the
\* pool's limit, and what is under way belongs to a process that is up.
DirectoryTypeOK ==
  /\ db \in Databases
  /\ owner \in Processes \cup {Nobody}
  /\ proc \in [Processes ->
       [at : Steps \cup {"down", "versions", "serving", "closed", "released"}, found : 0 .. 8]]
  /\ inFlight \in [Processes -> Nat]
  /\ \A p \in Processes : InUse(p) <= Connections /\ (InUse(p) > 0 => Up(p))
  /\ DOMAIN files \subseteq Stamps
  /\ \A n \in DOMAIN files : files[n] \in File
  /\ dir \cup unsynced \subseteq DOMAIN files
  /\ backup.at \in Stages
  /\ backup.at # "idle" => backup.by \in Processes /\ Up(backup.by)
  /\ backup.at \notin {"idle", "connected"} => backup.stamp \in DOMAIN files
  /\ backup.listed \subseteq DOMAIN files
  /\ succeeded \subseteq DOMAIN files

\* While a process opens or serves the file, every other that still has a
\* connection to it has closed its pool and released the lock: it finishes
\* what it had under way and takes nothing new, in whatever order processes
\* start, fail, stop and are killed.  That is what New, Close and the flock
\* are for, since nothing else keeps one from migrating what another serves.
OneOperates ==
  \A p, q \in Processes :
    p # q /\ Operates(p) /\ HasOpen(q) => proc[q].at = "released"

\* Who serves, or has a transaction of serving under way, meets every
\* constraint object of this build and no older one: whichever build left the
\* file, wherever earlier starts were interrupted, and however far a next
\* process is with its own upgrade when a late transaction commits.
ServesCurrentSchema ==
  \A p \in Processes : proc[p].at = "serving" \/ inFlight[p] > 0 => IsCurrent(db)

\* Reservations that share the amount are those an earlier build left: no
\* step, upgrade, restart or release in between makes a new pair.
NoNewOverlap == [][Overlaps(db)' \subseteq Overlaps(db)]_directoryVars

\* What the restore drill accepts this build can open and serve from; so it
\* is never passed by a file a restore would then fail on.
AcceptedMeansRestorable ==
  RestoreAccepts(db) => Opens(db) /\ IsCurrent(Opened(db))

\* A file with the name of a backup is a whole one the drill accepts, whatever
\* failed or was lost, and once BackupTo has returned it passes the drill.
PublishedPassDrill ==
  \A n \in dir :
    /\ RestoreAccepts(files[n].data)
    /\ n \in succeeded => DrillPasses(files[n])

\* Pruning counts on backups that cannot be lost any more: of the backups
\* reported as made, the newest, and as many names as retention keeps,
\* outlive a power loss at any moment.
Survivors == dir \ unsynced
RetainedSurvive ==
  succeeded # {} =>
    /\ Max(succeeded) \in Survivors
    /\ Cardinality(Survivors) >= Keep \/ Cardinality(Survivors) >= Cardinality(succeeded)

\* A file of a known version is served again after any failure, crash or
\* shutdown: no state they leave stops every later start.
StartsUp == db.version <= 7 ~> \E p \in Processes : proc[p].at = "serving"
=============================================================================
