\* Idle and two processes that start, share three keys on two pages, and die, in
\* every order; pages of 16 bytes, tables of 8 entries.
SPECIFICATION Spec
CONSTANTS
    Proc = {0, 1, 2}
    Idle = 0
    Key = {k1, k2, k3}
    None = none
    PAGE_SIZE = 16
    PT_ENTRIES = 8
    PD_ENTRIES = 7
    KERNEL_ENTRIES = 5
    Text = {6}
    KernelFrames = 7
    Frames = 39
    USER_START = 40
    USER_STACK_END = 53
    MaxLeak = 1
    MaxRef = 3
    PAGE_MAX = 2
    CodeSize = {20}
    StackSize = {3}
INVARIANTS
    FramesConsistent
    AddressSpaces
    TlbCoherent
PROPERTIES
    LeakOnlyWhenFull
SYMMETRY Symmetry
