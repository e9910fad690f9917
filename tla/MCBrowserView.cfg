SPECIFICATION Spec
CONSTANTS
    Cases <- MCCases
    Records <- MCRecords
    MaxCasesPerKey = 3
    MaxUpserts = 1
    Nodes <- MCNodes
    Budgets <- MCBudgets
    MaxCommits = 3
    MaxQuiet = 1
    MaxStreams = 2
    MaxPage = 2
    MaxPreflights = 1
    MaxDrops = 1
    NoLabel = NoLabel
INVARIANTS
    AtRestCurrent
CHECK_DEADLOCK FALSE
