------------------------------ MODULE DatabaseOpen ------------------------------
(***************************************************************************)
(* DatabaseManager::open: several processes may open one database file at  *)
(* once, find it absent, old, current, newer or damaged, back it up, and   *)
(* migrate it in one transaction; each may die between any two steps.      *)
(***************************************************************************)
EXTENDS Naturals

CONSTANTS
    Openers,       \* processes that open the database
    NoOpener,
    Originals      \* what the file may be before any of them

SchemaVersion == 9

(* The two columns that a migration adds with ALTER TABLE, which fails when *)
(* they exist: those of import_previews (v4) and events.case_id (v6).       *)
Files == [exists : BOOLEAN, sound : BOOLEAN, version : Nat,
          manifest : BOOLEAN, caseId : BOOLEAN, marked : BOOLEAN]
Absent == [exists |-> FALSE, sound |-> TRUE, version |-> 0,
           manifest |-> FALSE, caseId |-> FALSE, marked |-> FALSE]
Existing(version) ==
    [exists |-> TRUE, sound |-> TRUE, version |-> version,
     manifest |-> version >= 4, caseId |-> version >= 6, marked |-> TRUE]
Damaged(version) == [Existing(version) EXCEPT !.sound = FALSE]

ASSUME OpenersAssumption ==
    /\ NoOpener \notin Openers
    /\ \A f \in Originals :
          \/ f = Absent
          \/ f.version \in Nat /\ f \in {Existing(f.version), Damaged(f.version)}

VARIABLES
    file,        \* the database file
    original,    \* what it was at first
    backups,     \* the copies made of it
    writer,      \* the process whose migration transaction has the write lock
    opener       \* how far each process is: [at, existed, current]

databaseVars == <<file, original, backups, writer, opener>>

Phases == {"closed", "inspect", "version", "backup", "connect", "migrate", "commit", "mark",
           "open", "failed"}
Opener(at, existed, current) == [at |-> at, existed |-> existed, current |-> current]
At(o, phase) == opener[o].at = phase
To(o, phase) == opener' = [opener EXCEPT ![o].at = phase]

DatabaseInit ==
    /\ original \in Originals
    /\ file = original
    /\ backups = {}
    /\ writer = NoOpener
    /\ opener = [o \in Openers |-> Opener("closed", FALSE, 0)]

Open(o) ==
    /\ At(o, "closed")
    /\ opener' = [opener EXCEPT ![o] = IF file.exists THEN Opener("inspect", TRUE, 0)
                                                     ELSE Opener("connect", FALSE, 0)]
    /\ UNCHANGED <<file, original, backups, writer>>

(* inspect_existing: a damaged database and one of a newer version are     *)
(* refused; the version is read again, over a connection of its own.       *)
UsableWhateverVersion(f) == f.sound
Usable(f) == f.sound /\ f.version <= SchemaVersion

InspectExisting(o) ==
    /\ At(o, "inspect")
    /\ To(o, IF Usable(file) THEN "version" ELSE "failed")
    /\ UNCHANGED <<file, original, backups, writer>>

ReadVersion(o) ==
    /\ At(o, "version")
    /\ opener' = [opener EXCEPT ![o].current = file.version,
                                ![o].at = IF file.version < SchemaVersion THEN "backup" ELSE "connect"]
    /\ UNCHANGED <<file, original, backups, writer>>

BackupDatabaseSkipped(o) ==
    /\ At(o, "backup")
    /\ To(o, "connect")
    /\ UNCHANGED <<file, original, backups, writer>>
BackupDatabase(o) ==
    /\ At(o, "backup")
    /\ backups' = backups \cup {file}
    /\ To(o, "connect")
    /\ UNCHANGED <<file, original, writer>>

(* Opening a connection creates an absent file.                            *)
Connect(o) ==
    /\ At(o, "connect")
    /\ file' = [file EXCEPT !.exists = TRUE]
    /\ To(o, IF opener[o].current = SchemaVersion THEN "mark" ELSE "migrate")
    /\ UNCHANGED <<original, backups, writer>>

(* The migration holds the write lock from its first statement to its end. *)
BeginMigration(o) ==
    /\ At(o, "migrate") /\ writer = NoOpener
    /\ writer' = o
    /\ To(o, "commit")
    /\ UNCHANGED <<file, original, backups>>

(* It was chosen by the version read before the lock: a column that another *)
(* migration has added since makes ALTER TABLE fail.                        *)
AddsColumns(o) ==
    \/ opener[o].current \in 2..3 /\ file.manifest
    \/ opener[o].current \in 1..5 /\ file.caseId
MigratedFromFour(f, current) ==
    [f EXCEPT !.version = SchemaVersion, !.manifest = TRUE,
              !.caseId = f.caseId \/ current \in 4..5 \/ current = 0]
Migrated(f, current) ==
    [f EXCEPT !.version = SchemaVersion, !.manifest = TRUE, !.caseId = TRUE]

CommitMigration(o) ==
    /\ At(o, "commit") /\ ~AddsColumns(o)
    /\ file' = Migrated(file, opener[o].current)
    /\ writer' = NoOpener
    /\ To(o, "mark")
    /\ UNCHANGED <<original, backups>>

(* A busy lock, a duplicate column, a full disk: the transaction is undone. *)
MigrationFails(o) ==
    /\ At(o, "migrate") \/ At(o, "commit")
    /\ writer' = IF writer = o THEN NoOpener ELSE writer
    /\ To(o, "failed")
    /\ UNCHANGED <<file, original, backups>>

(* The application id is written after the migration, by the process that  *)
(* found no file.                                                          *)
Mark(o) ==
    /\ At(o, "mark") /\ writer = NoOpener
    /\ file' = [file EXCEPT !.marked = @ \/ ~opener[o].existed]
    /\ opener' = [opener EXCEPT ![o] = Opener("open", FALSE, 0)]
    /\ UNCHANGED <<original, backups, writer>>

(* The process ends, wherever it was; SQLite undoes its open transaction.  *)
Abandon(o) ==
    /\ writer' = IF writer = o THEN NoOpener ELSE writer
    /\ opener' = [opener EXCEPT ![o] = Opener("failed", FALSE, 0)]
    /\ UNCHANGED <<file, original, backups>>

OpenStep(o) ==
    \/ InspectExisting(o) \/ ReadVersion(o) \/ BackupDatabase(o) \/ Connect(o)
    \/ BeginMigration(o) \/ CommitMigration(o) \/ MigrationFails(o) \/ Mark(o)

--------------------------------------------------------------------------------
(* Properties *)

DatabaseTypeOK ==
    /\ file \in Files /\ original \in Originals
    /\ backups \subseteq Files
    /\ writer \in Openers \cup {NoOpener}
    /\ opener \in [Openers -> [at : Phases, existed : BOOLEAN, current : 0..SchemaVersion]]

(* However openers and crashes interleave, the version a database states is *)
(* the schema it has, and whoever has it open found the current one.        *)
SchemaMatchesVersion ==
    /\ file.manifest <=> file.version >= 4
    /\ file.caseId <=> file.version >= 6
    /\ \A o \in Openers : At(o, "open") => file.version = SchemaVersion

(* An existing database that has been migrated was first copied as it was,  *)
(* though every opener decides by itself when to copy and when to migrate.  *)
BackupBeforeMigration ==
    file # original /\ original.exists => original \in backups

(* A damaged or newer database is never changed, copied or served.          *)
UnusableUntouched ==
    ~original.sound \/ original.version > SchemaVersion =>
        /\ file = original /\ backups = {}
        /\ \A o \in Openers : ~At(o, "open")

================================================================================
