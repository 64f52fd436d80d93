\* A frame of two words in an array of four, and a closure of three.
CONSTANTS
    Program = {"closure"}
    Load <- MCLoad
    HeapLimit = 12
    MaxCatchDepth = 1
SPECIFICATION Spec
INVARIANT StackHeapDisjoint
