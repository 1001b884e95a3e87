\* four slots, one mbuf more than slots, one slot at a time whose buffer failed
CONSTANTS
    NUM_RING_FRAME = 4
    Buffers = {b1, b2, b3, b4, b5}
    NoBuffer = NoBuffer
    Frames = {f1, f2}
    Damaged = Damaged
    Blank = Blank
    Garbage = {b1}
    MaxUnmapped = 1
SPECIFICATION FairSpec
INVARIANTS  IInv
PROPERTIES ImplementsQueue EveryFrameTaken NotStarved
CHECK_DEADLOCK FALSE
