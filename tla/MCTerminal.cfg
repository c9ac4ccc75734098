\* A keyboard of 16 keys, a ring of 3 characters, a screen of 2 rows of 8, two readers,
\* of which "q" may be starved by more urgent processes.
\* The keyboard falls silent when a session is over.
SPECIFICATION FairSpec
CONSTANTS
    NUMBER_LINE = 2
    NUMBER_COLUMN = 8
    BUFFER_SIZE = 3
    Reader = {"p", "q"}
    Urgent = {"p"}
    Length = {1, 4}
    MaxPad = 16
    key_maps <- KeyMaps
    func_table <- FuncTable
    e0_keys <- E0Keys
    high_keys <- HighKeys
    Output <- Outputs
    Key <- Keys
    makes <- Makes
    breaks <- Breaks
    keycodes <- Keycode
    Session <- Sessions
INVARIANTS
    ModifiersMatchKeys
    NoCharacterLost
    ReadReturnsLine
    EchoShowsLine
PROPERTIES
    LineIsRead
CHECK_DEADLOCK FALSE
