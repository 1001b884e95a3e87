\* four slots, packets of one or two segments
CONSTANTS
    NUM_RING_FRAME = 4
    TBDS_PER_TCB = 2
    Packets = {p1, p2, p3}
    NoPacket = NoPacket
SPECIFICATION FairSpec
INVARIANTS HwReadsHeld NothingLost IInv
PROPERTIES ImplementsQueue EverySentReclaimed
