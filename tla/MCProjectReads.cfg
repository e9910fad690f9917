SPECIFICATION FairSpec
CONSTANTS
    Cases <- MCCases
    Records <- MCRecords
    MaxCasesPerKey = 3
    MaxUpserts = 1
    Nodes <- MCNodes
    Budgets <- MCBudgets
    MaxCommits = 3
    MaxQuiet = 1
    MaxStreams = 1
    MaxPage = 2
    MaxPreflights = 1
    MaxDrops = 1
    NoLabel = NoLabel
INVARIANTS
    TypeOK
    StreamsContinue
    CachedIsCurrent
    HierarchyIsCurrent
    ExpansionExplained
PROPERTIES
    CatchesUp
CHECK_DEADLOCK FALSE
