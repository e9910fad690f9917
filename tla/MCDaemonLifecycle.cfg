SPECIFICATION FairSpec
CONSTANTS
    Openers = {d1, d2}
    NoOpener = NoDaemon
    Originals <- MCOriginals
    Versions = {3, 10}
    Clients = {a, b}
    NoToken = NoToken
    EmptyToken = EmptyToken
INVARIANTS
    TypeOK
    SchemaMatchesVersion
    BackupBeforeMigration
    UnusableUntouched
    FilesNeverMislead
    OneToken
PROPERTIES
    StartupSettles
CHECK_DEADLOCK FALSE
