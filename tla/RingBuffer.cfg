\* Sizes 1, 2 and 4 and calls of up to 3 bytes: short calls wrap, long ones are cut
\* short, and a call can fill or drain every size exactly.
CONSTANTS
    Byte = {a, b}
    Junk = junk
    Sizes = {1, 2, 4}
    MaxCall = 3
SPECIFICATION Spec
INVARIANTS
    TypeOK
    NoJunkReadable
    GetLenExact
    NeedleOffsetExact
PROPERTIES
    RefinesFifo
