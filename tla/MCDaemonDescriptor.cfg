SPECIFICATION Spec
CONSTANTS
    Openers = {d1, d2}
    NoOpener = NoDaemon
    Originals <- MCOriginals
    Versions = {3, 10}
    Clients = {a, b}
    NoToken = NoToken
    EmptyToken = EmptyToken
INVARIANTS
    ServingIsPublished
CHECK_DEADLOCK FALSE
