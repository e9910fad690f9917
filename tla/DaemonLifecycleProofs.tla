------------------------ MODULE DaemonLifecycleProofs ------------------------
(***************************************************************************)
(* DaemonLifecycle for any number of processes, clients and any first      *)
(* database: what a migration may do to it, what the files may say, and    *)
(* which token may be served.                                              *)
(*                                                                         *)
(* The database part is inductive by itself: every step of a process leaves*)
(* its variables alone or is one of DatabaseOpen's.                        *)
(***************************************************************************)
EXTENDS DaemonLifecycle, TLAPS

(* Past the inspection, a process knows that it can use the file; a process *)
(* that is to migrate it has a copy of the original behind it.              *)
Inspected(o) == opener[o].at \notin {"closed", "inspect", "failed"}
Migrating(o) == opener[o].at \in {"migrate", "commit"}
ToMigrate(o) == \/ Migrating(o)
                \/ At(o, "connect") /\ opener[o].current # SchemaVersion
Current(o) == \/ opener[o].at \in {"mark", "open"}
              \/ At(o, "connect") /\ opener[o].current = SchemaVersion

FileInv ==
    /\ ~file.exists => file = Absent
    /\ original.exists => file.exists /\ file.marked
    /\ ~Usable(original) => file = original /\ backups = {}

OpenerInv ==
    \A o \in Openers :
        /\ Inspected(o) => Usable(file)
        /\ ToMigrate(o) /\ original.exists => original \in backups
        /\ Migrating(o) => file.exists
        /\ Current(o) => file.version = SchemaVersion
        /\ At(o, "backup") => opener[o].current # SchemaVersion

DatabaseInv ==
    /\ DatabaseTypeOK
    /\ SchemaMatchesVersion
    /\ BackupBeforeMigration
    /\ FileInv
    /\ OpenerInv

(* The processes by how far they are: which has a token, and which the port.*)
WithToken(d) == daemon[d] \notin {"unborn", "token", "gone"}
OnPort(d) == daemon[d] \in {"bound", "described", "serving"}
Written(t) == t \notin {NoToken, EmptyToken}

TokenInv ==
    /\ \A c \in Clients : client[c] = "write" => tokenFile = EmptyToken
    /\ \A c, e \in Clients : client[c] = "write" /\ client[e] = "write" => c = e
    /\ \A d \in Daemons : WithToken(d) => token[d] = tokenFile /\ Written(tokenFile)
    /\ \A c \in Clients : client[c] = "connected" => token[c] = tokenFile /\ Written(tokenFile)

PortInv ==
    /\ \A d \in Daemons : OnPort(d) <=> listener = d
    /\ \A d \in Daemons : daemon[d] \in {"described", "serving"} => descriptor \in {d, NoDaemon}
    /\ \A d \in Daemons : daemon[d] = "serving" => pidFile \in {d, NoDaemon}

StopperInv == stopper.at # "idle" => stopper.pid \in Daemons

LifecycleInv ==
    /\ TypeOK
    /\ TokenInv
    /\ PortInv
    /\ StopperInv

DatabaseStep(o) == Open(o) \/ OpenStep(o) \/ Abandon(o)

--------------------------------------------------------------------------------
(* Every possible first database is as its version says, and one that       *)
(* exists has the application id.                                           *)
LEMMA OriginalFacts ==
    ASSUME NEW f \in Originals
    PROVE /\ f \in Files
          /\ f.manifest <=> f.version >= 4
          /\ f.caseId <=> f.version >= 6
          /\ ~f.exists => f = Absent
          /\ f.exists => f.marked
<1>1. CASE f = Absent
  BY <1>1 DEF Absent, Files
<1>2. CASE f.version \in Nat /\ f = Existing(f.version)
  <2> DEFINE v == f.version
  <2>1. v \in Nat
    BY <1>2
  <2>2. f = Existing(v)
    BY <1>2
  <2> HIDE DEF v
  <2>3. f = [exists |-> TRUE, sound |-> TRUE, version |-> v, manifest |-> v >= 4,
             caseId |-> v >= 6, marked |-> TRUE]
    BY <2>2 DEF Existing
  <2>4. (v >= 4) \in BOOLEAN /\ (v >= 6) \in BOOLEAN
    BY <2>1
  <2>5. f \in Files
    BY <2>1, <2>3, <2>4 DEF Files
  <2>6. f.version = v /\ f.manifest = (v >= 4) /\ f.caseId = (v >= 6) /\ f.exists /\ f.marked
    BY <2>3
  <2> QED
    BY <2>5, <2>6
<1>3. CASE f.version \in Nat /\ f = Damaged(f.version)
  <2> DEFINE v == f.version
  <2>1. v \in Nat
    BY <1>3
  <2>2. f = Damaged(v)
    BY <1>3
  <2> HIDE DEF v
  <2>3. f = [exists |-> TRUE, sound |-> FALSE, version |-> v, manifest |-> v >= 4,
             caseId |-> v >= 6, marked |-> TRUE]
    BY <2>2 DEF Damaged, Existing
  <2>4. (v >= 4) \in BOOLEAN /\ (v >= 6) \in BOOLEAN
    BY <2>1
  <2>5. f \in Files
    BY <2>1, <2>3, <2>4 DEF Files
  <2>6. f.version = v /\ f.manifest = (v >= 4) /\ f.caseId = (v >= 6) /\ f.exists /\ f.marked
    BY <2>3
  <2> QED
    BY <2>5, <2>6
<1> QED
  BY <1>1, <1>2, <1>3, OpenersAssumption

LEMMA DatabaseStart == DatabaseInit => DatabaseInv
<1> SUFFICES ASSUME DatabaseInit PROVE DatabaseInv
  OBVIOUS
<1>1. /\ original \in Originals /\ file = original /\ backups = {} /\ writer = NoOpener
  BY DEF DatabaseInit, Opener
<1>8. \A o \in Openers : opener[o].at = "closed"
  <2>1. opener = [o \in Openers |-> [at |-> "closed", existed |-> FALSE, current |-> 0]]
    BY DEF DatabaseInit, Opener
  <2> QED
    BY <2>1
<1>2. file \in Files /\ (file.manifest <=> file.version >= 4) /\ (file.caseId <=> file.version >= 6)
  BY <1>1, OriginalFacts
<1>3. DatabaseTypeOK
  BY <1>1, <1>2 DEF DatabaseTypeOK, DatabaseInit, Opener, Phases, SchemaVersion
<1>4. SchemaMatchesVersion
  BY <1>8, <1>2 DEF SchemaMatchesVersion, At
<1>5. BackupBeforeMigration
  BY <1>1 DEF BackupBeforeMigration
<1>6. FileInv
  <2>1. ~original.exists => original = Absent
    BY <1>1, OriginalFacts
  <2>2. original.exists => original.marked
    BY <1>1, OriginalFacts
  <2> QED
    BY <1>1, <2>1, <2>2 DEF FileInv
<1>7. OpenerInv
  BY <1>8 DEF OpenerInv, Inspected, ToMigrate, Migrating, Current, At
<1> QED
  BY <1>3, <1>4, <1>5, <1>6, <1>7 DEF DatabaseInv

LEMMA OpenKeeps ==
    ASSUME DatabaseInv, NEW o \in Openers, Open(o)
    PROVE  DatabaseInv'
<1> USE DEF DatabaseInv, DatabaseTypeOK, SchemaVersion
<1>1. /\ UNCHANGED <<file, original, backups, writer>>
      /\ opener' = [opener EXCEPT ![o] = IF file.exists
                        THEN [at |-> "inspect", existed |-> TRUE, current |-> 0]
                        ELSE [at |-> "connect", existed |-> FALSE, current |-> 0]]
  BY DEF Open, Opener
<1>2. DatabaseTypeOK'
  BY <1>1 DEF Phases
<1>3. SchemaMatchesVersion'
  BY <1>1 DEF SchemaMatchesVersion, At
<1>4. BackupBeforeMigration' /\ FileInv'
  BY <1>1 DEF BackupBeforeMigration, FileInv, Usable
<1>5. ~file.exists => Usable(file) /\ ~original.exists
  BY DEF FileInv, Usable, Absent
<1>6. OpenerInv'
  BY <1>1, <1>5 DEF OpenerInv, Inspected, ToMigrate, Migrating, Current, At, Usable
<1> QED
  BY <1>2, <1>3, <1>4, <1>6

(* Steps that only move the opener: inspection, reading the version, the    *)
(* start of a migration, its failure, and the end of a process.             *)
LEMMA MovesKeep ==
    ASSUME DatabaseInv, NEW o \in Openers,
           \/ InspectExisting(o) \/ ReadVersion(o) \/ BeginMigration(o) \/ MigrationFails(o) \/ Abandon(o)
    PROVE  DatabaseInv'
<1> USE DEF DatabaseInv, DatabaseTypeOK, SchemaVersion
<1>0. UNCHANGED <<file, original, backups>>
  BY DEF InspectExisting, ReadVersion, BeginMigration, MigrationFails, Abandon
<1>1. BackupBeforeMigration' /\ FileInv'
  BY <1>0 DEF BackupBeforeMigration, FileInv, Usable
<1> SUFFICES DatabaseTypeOK' /\ SchemaMatchesVersion' /\ OpenerInv'
  BY <1>1
<1>2. CASE InspectExisting(o)
  BY <1>0, <1>2 DEF InspectExisting, To, At, Phases, SchemaMatchesVersion, OpenerInv, Inspected,
                    ToMigrate, Migrating, Current, Usable
<1>3. CASE ReadVersion(o)
  <2>1. file.version \in 0..9
    BY <1>3 DEF ReadVersion, At, OpenerInv, Inspected, Usable, Files
  <2> QED
    BY <1>0, <1>3, <2>1 DEF ReadVersion, At, Phases, SchemaMatchesVersion, OpenerInv, Inspected,
                            ToMigrate, Migrating, Current, Usable
<1>4. CASE BeginMigration(o)
  BY <1>0, <1>4 DEF BeginMigration, To, At, Phases, SchemaMatchesVersion, OpenerInv, Inspected,
                    ToMigrate, Migrating, Current, Usable
<1>5. CASE MigrationFails(o)
  BY <1>0, <1>5 DEF MigrationFails, To, At, Phases, SchemaMatchesVersion, OpenerInv, Inspected,
                    ToMigrate, Migrating, Current, Usable
<1>6. CASE Abandon(o)
  BY <1>0, <1>6 DEF Abandon, Opener, At, Phases, SchemaMatchesVersion, OpenerInv, Inspected,
                    ToMigrate, Migrating, Current, Usable
<1> QED
  BY <1>2, <1>3, <1>4, <1>5, <1>6

(* The copy is of the original, or the original has been copied before.     *)
LEMMA BackupKeeps ==
    ASSUME DatabaseInv, NEW o \in Openers, BackupDatabase(o)
    PROVE  DatabaseInv'
<1> USE DEF DatabaseInv, DatabaseTypeOK, SchemaVersion
<1>1. /\ backups' = backups \cup {file}
      /\ opener' = [opener EXCEPT ![o].at = "connect"]
      /\ UNCHANGED <<file, original, writer>>
      /\ opener[o].at = "backup"
  BY DEF BackupDatabase, To, At
<1>2. Usable(file)
  BY <1>1 DEF OpenerInv, Inspected
<1>3. Usable(original)
  BY <1>2 DEF FileInv
<1>4. original.exists => original \in backups'
  BY <1>1 DEF BackupBeforeMigration
<1>5. DatabaseTypeOK' /\ SchemaMatchesVersion' /\ BackupBeforeMigration' /\ FileInv'
  BY <1>1, <1>3, <1>4 DEF Phases, SchemaMatchesVersion, BackupBeforeMigration, FileInv, Usable, At
<1>6. OpenerInv'
  BY <1>1, <1>4 DEF OpenerInv, Inspected, ToMigrate, Migrating, Current, At, Usable
<1> QED
  BY <1>5, <1>6

LEMMA ConnectKeeps ==
    ASSUME DatabaseInv, NEW o \in Openers, Connect(o)
    PROVE  DatabaseInv'
<1> USE DEF DatabaseInv, DatabaseTypeOK, SchemaVersion
<1>1. /\ file' = [file EXCEPT !.exists = TRUE]
      /\ opener' = [opener EXCEPT ![o].at = IF opener[o].current = SchemaVersion
                                            THEN "mark" ELSE "migrate"]
      /\ UNCHANGED <<original, backups, writer>>
      /\ opener[o].at = "connect"
  BY DEF Connect, To, At
<1>2. Usable(file) /\ Usable(original)
  BY <1>1 DEF OpenerInv, Inspected, FileInv
<1>3. original.exists => file' = file
  BY <1>1 DEF FileInv, Files
<1>4. /\ file' \in Files /\ file'.exists
      /\ file'.version = file.version /\ file'.sound = file.sound
      /\ file'.manifest = file.manifest /\ file'.caseId = file.caseId
  BY <1>1 DEF Files
<1>5. DatabaseTypeOK'
  BY <1>1, <1>4 DEF Phases
<1>6. BackupBeforeMigration' /\ FileInv'
  BY <1>1, <1>2, <1>3, <1>4 DEF BackupBeforeMigration, FileInv, Usable
<1>7. OpenerInv'
  BY <1>1, <1>2, <1>4 DEF OpenerInv, Inspected, ToMigrate, Migrating, Current, At, Usable
<1>8. SchemaMatchesVersion'
  BY <1>1, <1>4 DEF SchemaMatchesVersion, At
<1> QED
  BY <1>5, <1>6, <1>7, <1>8

LEMMA CommitKeeps ==
    ASSUME DatabaseInv, NEW o \in Openers, CommitMigration(o)
    PROVE  DatabaseInv'
<1> USE DEF DatabaseInv, DatabaseTypeOK, SchemaVersion
<1>1. /\ file' = [file EXCEPT !.version = 9, !.manifest = TRUE, !.caseId = TRUE]
      /\ opener' = [opener EXCEPT ![o].at = "mark"]
      /\ writer' = NoOpener
      /\ UNCHANGED <<original, backups>>
      /\ opener[o].at = "commit"
  BY DEF CommitMigration, Migrated, To, At
<1>2. Usable(file) /\ Usable(original)
  BY <1>1 DEF OpenerInv, Inspected, FileInv
<1>3. /\ file' \in Files /\ file'.version = 9 /\ file'.manifest /\ file'.caseId
      /\ file'.exists = file.exists /\ file'.sound = file.sound /\ file'.marked = file.marked
  BY <1>1 DEF Files
<1>4. Usable(file')
  BY <1>2, <1>3 DEF Usable
<1>5. original.exists => original \in backups
  BY <1>1 DEF OpenerInv, ToMigrate, Migrating
<1>6. DatabaseTypeOK'
  BY <1>1, <1>3 DEF Phases
<1>7. SchemaMatchesVersion'
  BY <1>1, <1>3 DEF SchemaMatchesVersion, At
<1>8. BackupBeforeMigration' /\ FileInv'
  <2>1. file.exists /\ (original.exists => file.marked)
    BY <1>1 DEF OpenerInv, Migrating, FileInv
  <2> QED
    BY <1>1, <1>2, <1>3, <1>5, <2>1 DEF BackupBeforeMigration, FileInv, Usable
<1>9. OpenerInv'
  BY <1>1, <1>3, <1>4 DEF OpenerInv, Inspected, ToMigrate, Migrating, Current, At
<1> QED
  BY <1>6, <1>7, <1>8, <1>9

LEMMA MarkKeeps ==
    ASSUME DatabaseInv, NEW o \in Openers, Mark(o)
    PROVE  DatabaseInv'
<1> USE DEF DatabaseInv, DatabaseTypeOK, SchemaVersion
<1>1. /\ file' = [file EXCEPT !.marked = file.marked \/ ~opener[o].existed]
      /\ opener' = [opener EXCEPT ![o] = [at |-> "open", existed |-> FALSE, current |-> 0]]
      /\ UNCHANGED <<original, backups, writer>>
      /\ opener[o].at = "mark"
  BY DEF Mark, At, Opener
<1>2. Usable(file) /\ Usable(original) /\ file.version = SchemaVersion
  BY <1>1 DEF OpenerInv, Inspected, Current, FileInv
<1>3. /\ file' \in Files
      /\ file'.version = file.version /\ file'.sound = file.sound /\ file'.exists = file.exists
      /\ file'.manifest = file.manifest /\ file'.caseId = file.caseId
      /\ file.marked => file' = file
  BY <1>1 DEF Files
<1>4. DatabaseTypeOK'
  BY <1>1, <1>3 DEF Phases
<1>5. SchemaMatchesVersion'
  BY <1>1, <1>2, <1>3 DEF SchemaMatchesVersion, At
<1>6. BackupBeforeMigration' /\ FileInv'
  <2>1. original.exists => file' = file
    BY <1>3 DEF FileInv
  <2>2. file'.exists
    BY <1>2, <1>3 DEF FileInv, Absent
  <2> QED
    BY <1>1, <1>2, <2>1, <2>2 DEF BackupBeforeMigration, FileInv, Usable
<1>7. OpenerInv'
  BY <1>1, <1>2, <1>3 DEF OpenerInv, Inspected, ToMigrate, Migrating, Current, At, Usable
<1> QED
  BY <1>4, <1>5, <1>6, <1>7

LEMMA DatabaseStutter ==
    ASSUME DatabaseInv, UNCHANGED databaseVars
    PROVE  DatabaseInv'
BY DEF databaseVars, DatabaseInv, DatabaseTypeOK, SchemaMatchesVersion, BackupBeforeMigration, FileInv,
       OpenerInv, Inspected, ToMigrate, Migrating, Current, At, Usable

LEMMA DatabaseKeeps ==
    ASSUME DatabaseInv, NEW o \in Openers, DatabaseStep(o)
    PROVE  DatabaseInv'
BY OpenKeeps, MovesKeep, BackupKeeps, ConnectKeeps, CommitKeeps, MarkKeeps DEF DatabaseStep, OpenStep

--------------------------------------------------------------------------------
(* Every step of the whole is one step of one opener, or none.              *)
LEMMA StepsOfTheDatabase ==
    ASSUME TypeOK, StopperInv, [Next]_vars
    PROVE  UNCHANGED databaseVars \/ \E o \in Openers : DatabaseStep(o)
<1>1. CASE UNCHANGED vars
  BY <1>1 DEF vars
<1>2. ASSUME NEW d \in Daemons,
             \/ DaemonStep(d) \/ RemoveDescriptor(d) \/ RemovePidFile(d) \/ Crash(d) \/ KeepAlive(d)
      PROVE  UNCHANGED databaseVars \/ \E o \in Openers : DatabaseStep(o)
  <2>1. CASE DaemonStep(d)
    BY <2>1 DEF DaemonStep, ReadToken, OpenDatabase, Bind, WriteDescriptor, WritePidFile, DatabaseStep, Daemons
  <2>2. CASE RemoveDescriptor(d) \/ RemovePidFile(d) \/ Crash(d) \/ KeepAlive(d)
    BY <2>2 DEF RemoveDescriptor, RemovePidFile, Crash, Die, KeepAlive, DatabaseStep, Daemons
  <2> QED
    BY <1>2, <2>1, <2>2
<1>3. ASSUME NEW c \in Clients,
             \/ FindToken(c) \/ CreateToken(c) \/ WriteToken(c) \/ KeepToken(c) \/ Reach(c) \/ GiveUp(c)
             \/ \E d \in Daemons : Spawn(c, d)
      PROVE  UNCHANGED databaseVars
  BY <1>3 DEF FindToken, CreateToken, WriteToken, KeepToken, Reach, GiveUp, Spawn
<1>4. CASE ReadPid \/ Authenticate \/ StopWaiting
  BY <1>4 DEF ReadPid, Authenticate, StopWaiting, OnlyStopper
<1>5. CASE Signal
  <2>1. stopper.pid \in Daemons
    BY <1>5 DEF Signal, StopperInv
  <2>2. UNCHANGED databaseVars \/ Abandon(stopper.pid)
    BY <1>5 DEF Signal, Terminated, Die
  <2> QED
    BY <2>1, <2>2 DEF DatabaseStep, Daemons
<1> QED
  BY <1>1, <1>2, <1>3, <1>4, <1>5 DEF Next

--------------------------------------------------------------------------------
(* The rest: one lemma for each group of steps, given that the database's   *)
(* variables keep their type.                                               *)
LEMMA LifecycleStart == Init => LifecycleInv
<1> SUFFICES ASSUME Init PROVE LifecycleInv
  OBVIOUS
<1>1. DatabaseTypeOK
  BY DatabaseStart DEF Init, DatabaseInv
<1>2. TypeOK
  BY <1>1 DEF Init, TypeOK, DaemonStates, ClientStates, Tokens, Resting, Stopper, Daemons, NoDaemon
<1>3. TokenInv /\ PortInv /\ StopperInv
  BY OpenersAssumption DEF Init, TokenInv, WithToken, PortInv, OnPort, StopperInv, Resting, Stopper, Daemons, NoDaemon
<1> QED
  BY <1>2, <1>3 DEF LifecycleInv

LEMMA LifecycleStutter ==
    ASSUME LifecycleInv, UNCHANGED vars
    PROVE  LifecycleInv'
BY DEF LifecycleInv, vars, databaseVars, daemonVars, clientVars, TypeOK, DatabaseTypeOK, TokenInv,
       WithToken, PortInv, OnPort, StopperInv

LEMMA ProcessStepsKeep ==
    ASSUME LifecycleInv, DatabaseTypeOK', NEW d \in Daemons,
           DaemonStep(d) \/ RemoveDescriptor(d) \/ RemovePidFile(d) \/ Crash(d) \/ KeepAlive(d)
    PROVE  LifecycleInv'
<1> USE OpenersAssumption, LifecycleAssumption
    DEF LifecycleInv, TypeOK, DaemonStates, ClientStates, Tokens, TokenInv, WithToken, Written, PortInv,
        OnPort, StopperInv, ToState, Daemons, NoDaemon, clientVars
<1>1. CASE ReadToken(d)
  BY <1>1 DEF ReadToken
<1>2. CASE OpenDatabase(d)
  BY <1>2 DEF OpenDatabase
<1>3. CASE Bind(d)
  BY <1>3 DEF Bind
<1>4. CASE WriteDescriptor(d)
  BY <1>4 DEF WriteDescriptor
<1>5. CASE WritePidFile(d)
  BY <1>5 DEF WritePidFile
<1>6. CASE RemoveDescriptor(d)
  BY <1>6 DEF RemoveDescriptor
<1>7. CASE RemovePidFile(d)
  BY <1>7 DEF RemovePidFile
<1>8. CASE Crash(d)
  BY <1>8 DEF Crash, Die, Alive, ReleasePort
<1>9. CASE KeepAlive(d)
  BY <1>9 DEF KeepAlive
<1> QED
  BY <1>1, <1>2, <1>3, <1>4, <1>5, <1>6, <1>7, <1>8, <1>9 DEF DaemonStep

LEMMA ClientStepsKeep ==
    ASSUME LifecycleInv, DatabaseTypeOK', NEW c \in Clients,
           \/ FindToken(c) \/ CreateToken(c) \/ WriteToken(c) \/ KeepToken(c) \/ Reach(c) \/ GiveUp(c)
           \/ \E d \in Daemons : Spawn(c, d)
    PROVE  LifecycleInv'
<1> USE OpenersAssumption, LifecycleAssumption
    DEF LifecycleInv, TypeOK, DaemonStates, ClientStates, Tokens, TokenInv, WithToken, Written, PortInv,
        OnPort, StopperInv, ToState, ToClient, Daemons, NoDaemon, daemonVars
<1>1. CASE FindToken(c)
  BY <1>1 DEF FindToken
<1>2. CASE CreateToken(c)
  BY <1>2 DEF CreateToken
<1>3. CASE WriteToken(c)
  BY <1>3 DEF WriteToken
<1>4. CASE KeepToken(c)
  BY <1>4 DEF KeepToken
<1>5. CASE Reach(c)
  BY <1>5 DEF Reach, Answers
<1>6. CASE GiveUp(c)
  BY <1>6 DEF GiveUp
<1>7. CASE \E d \in Daemons : Spawn(c, d)
  BY <1>7 DEF Spawn
<1> QED
  BY <1>1, <1>2, <1>3, <1>4, <1>5, <1>6, <1>7

LEMMA StopperStepsKeep ==
    ASSUME LifecycleInv, DatabaseTypeOK', ReadPid \/ Authenticate \/ Signal \/ StopWaiting
    PROVE  LifecycleInv'
<1> USE OpenersAssumption, LifecycleAssumption
    DEF LifecycleInv, TypeOK, DaemonStates, TokenInv, WithToken, PortInv, OnPort, StopperInv, Stopper,
        Resting, ToState, Daemons, NoDaemon, daemonVars, clientVars
<1>1. CASE ReadPid
  BY <1>1 DEF ReadPid, OnlyStopper
<1>2. CASE Authenticate
  BY <1>2 DEF Authenticate, OnlyStopper, Alive
<1>3. CASE Signal
  <2> DEFINE d == stopper.pid
  <2>1. d \in Daemons /\ stopper' = [at |-> "wait", pid |-> d]
    BY <1>3 DEF Signal
  <2>2. CASE Terminated(d)
    BY <1>3, <2>1, <2>2 DEF Signal, Terminated, ReleasePort
  <2>3. CASE daemon[d] \in {"bound", "described"} /\ Die(d)
    BY <1>3, <2>1, <2>3 DEF Signal, Die, ReleasePort
  <2>4. CASE UNCHANGED daemonVars
    BY <1>3, <2>1, <2>4 DEF Signal
  <2> QED
    BY <1>3, <2>2, <2>3, <2>4 DEF Signal
<1>4. CASE StopWaiting
  BY <1>4 DEF StopWaiting, OnlyStopper
<1> QED
  BY <1>1, <1>2, <1>3, <1>4

LEMMA LifecycleKeeps ==
    ASSUME LifecycleInv, DatabaseTypeOK', [Next]_vars
    PROVE  LifecycleInv'
BY LifecycleStutter, ProcessStepsKeep, ClientStepsKeep, StopperStepsKeep DEF Next

--------------------------------------------------------------------------------
LEMMA Invariance == Spec => [](DatabaseInv /\ LifecycleInv)
<1>1. Init => DatabaseInv /\ LifecycleInv
  BY DatabaseStart, LifecycleStart DEF Init
<1>2. DatabaseInv /\ LifecycleInv /\ [Next]_vars => (DatabaseInv /\ LifecycleInv)'
  <2> SUFFICES ASSUME DatabaseInv, LifecycleInv, [Next]_vars
               PROVE  DatabaseInv' /\ LifecycleInv'
    OBVIOUS
  <2>1. DatabaseInv'
    BY StepsOfTheDatabase, DatabaseKeeps, DatabaseStutter DEF LifecycleInv
  <2>2. DatabaseTypeOK'
    BY <2>1 DEF DatabaseInv
  <2> QED
    BY <2>1, <2>2, LifecycleKeeps
<1> QED
  BY <1>1, <1>2, PTL DEF Spec

(* Every variable of the processes, clients, files and database keeps its   *)
(* type, for any number of each.                                            *)
THEOREM TypeCorrect == Spec => []TypeOK
<1>1. LifecycleInv => TypeOK
  BY DEF LifecycleInv
<1> QED
  BY <1>1, Invariance, PTL

(* A version that the database states is the schema it has, whichever        *)
(* process migrated it and wherever others were (database.rs, migrate).      *)
THEOREM VersionIsSchema == Spec => []SchemaMatchesVersion
<1>1. DatabaseInv => SchemaMatchesVersion
  BY DEF DatabaseInv
<1> QED
  BY <1>1, Invariance, PTL

(* An existing database is copied as it was before anything changes it.      *)
THEOREM CopiedBeforeChange == Spec => []BackupBeforeMigration
<1>1. DatabaseInv => BackupBeforeMigration
  BY DEF DatabaseInv
<1> QED
  BY <1>1, Invariance, PTL

(* A damaged or newer database is left as it is and never opened.            *)
THEOREM UnusableStays == Spec => []UnusableUntouched
<1>1. DatabaseInv => UnusableUntouched
  <2> SUFFICES ASSUME DatabaseInv, ~original.sound \/ original.version > SchemaVersion
               PROVE  file = original /\ backups = {} /\ \A o \in Openers : ~At(o, "open")
    BY DEF UnusableUntouched
  <2>1. ~Usable(original)
    <3>1. original.version \in Nat
      BY OriginalFacts DEF DatabaseInv, DatabaseTypeOK, Files
    <3> QED
      BY <3>1 DEF Usable, SchemaVersion
  <2>2. file = original /\ backups = {}
    BY <2>1 DEF DatabaseInv, FileInv
  <2>3. \A o \in Openers : ~Inspected(o)
    BY <2>1, <2>2 DEF DatabaseInv, OpenerInv
  <2> QED
    BY <2>2, <2>3 DEF Inspected, At
<1> QED
  BY <1>1, Invariance, PTL

(* The process that serves is the one on the port, and the files name it or  *)
(* nothing, however processes overlap and die (main.rs, run_daemon).         *)
THEOREM FilesNameTheServer == Spec => []FilesNeverMislead
<1>1. LifecycleInv => FilesNeverMislead
  BY DEF LifecycleInv, PortInv, OnPort, FilesNeverMislead, Published
<1> QED
  BY <1>1, Invariance, PTL

(* No process serves, and no client is connected, with another token than    *)
(* the file's, however many clients create it together.                      *)
THEOREM SameToken == Spec => []OneToken
<1>1. LifecycleInv => OneToken
  BY DEF LifecycleInv, TokenInv, WithToken, OneToken, DaemonStates
<1> QED
  BY <1>1, Invariance, PTL

================================================================================
