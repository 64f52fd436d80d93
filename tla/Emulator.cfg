\* Recursion with frames and exceptions, loops of every kind, and a selective
\* receive of two out of four messages, each cut into slices.
CONSTANTS
    Program = {"frames", "loops", "receive"}
    Load <- MCLoad
    HeapLimit = 20
    MaxCatchDepth = 3
SPECIFICATION FairSpec
INVARIANTS TypeOK ReturnsToCaller BalancedAtHalt ReceiveTakesOnlyWanted MessagesKept
PROPERTY SliceEnds
