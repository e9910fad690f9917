SPECIFICATION FairSpec
CONSTANTS
    a1 = a1
    a2 = a2
    a3 = a3
    k1 = k1
    NoKey = NoKey
    NoKind = NoKind
    Agents = {a1, a2}
    Processes = {p1, p2}
    Keys = {k1}
    KeyOf <- MCKeyOf
    KindOf <- MCKindOf
    RequestIdOf <- MCRequestIdOf
    Capacity = 1
    MaxRounds = 1
INVARIANTS
    AnswersAreEffects
PROPERTIES
    CallsReturn
    RequestsDrain
CHECK_DEADLOCK FALSE
