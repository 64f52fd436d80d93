\* Straight-line code and a budget of two instructions: where does the next
\* slice begin?
CONSTANTS
    Program = {"moves"}
    Load <- MCLoad
    HeapLimit = 1
    MaxCatchDepth = 1
SPECIFICATION Spec
PROPERTY ResumesWhereStopped
