\* the ring has no check for space
CONSTANTS
    NUM_RING_FRAME = 4
    TBDS_PER_TCB = 2
    Packets = {p1, p2, p3}
    NoPacket = NoPacket
SPECIFICATION Spec
INVARIANT SpaceForSend
