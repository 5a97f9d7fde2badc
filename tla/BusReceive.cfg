\* Frames of 2 and 3 bytes through a ring of 6: the ring wraps, frames are
\* split and coalesced.  As in the code, a chunk may be as long as the ring.
CONSTANTS
    Junk = junk
    Sides = {"bus", "busd"}
    RingSize = 6
    ChunkMax = 6
    TableLens = {1, 2}
    Results = {TRUE, FALSE}
    MaxFrames = 3
SPECIFICATION FairSpec
INVARIANTS
    StreamInStep
PROPERTIES
    EveryFrameHandled
