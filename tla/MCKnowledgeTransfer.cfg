SPECIFICATION Spec
CONSTANTS
    here = here
    there = there
    plain = plain
    spaced = spaced
    blank = blank
    o1 = o1
    o2 = o2
    k1 = k1
    Projects <- MCProjects
    Operations <- MCOperations
    NoOperation = NoOperation
    Sources <- MCSources
    NoSource = NoSource
    Fingerprints <- MCFingerprints
    Spellings <- MCSpellings
    Stored <- MCStored
    NoFingerprint = NoFingerprint
    Empty <- blank
    Reports <- MCReports
    MaxRows <- MCMaxRows
    Seeded <- MCSeeded
    MaxArchives = 2
    MaxHops = 3
    Contents <- MCContents
    Importing <- MCImporting
    MaxCalls = 6
    MaxPreviews = 1
    MaxProposals = 4
INVARIANTS
    TypeOK
    ImportedTrust
    KnownProblemAnswered
PROPERTIES
    ImportKeepsLocal
    SelectionIsFinal
    TransferPublished
CHECK_DEADLOCK FALSE
SYMMETRY Symmetric
