\* A receive that finds nothing, and one message that comes later.
CONSTANTS
    Program = {"wait"}
    Load <- MCLoad
    HeapLimit = 1
    MaxCatchDepth = 1
SPECIFICATION FairSpec
PROPERTY WaitingIsWoken
