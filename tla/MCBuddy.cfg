CONSTANTS
    MAP_SIZE = 3
    NbPages = {1, 2, 3}
SPECIFICATION Spec
INVARIANTS PagesShared Coalesced
PROPERTIES ImplementsFrames
