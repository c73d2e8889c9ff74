CONSTANTS
    Commands = {a1, a2}
    Ticks = {k1}
    Entries <- MCEntries
    MaxUses = 5
SPECIFICATION FairSpec
INVARIANTS
    OneBlock
PROPERTIES
    EntriesKept
    LeftoverRemoved
