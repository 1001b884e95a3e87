\* a PHY whose registers may fail to be read; the end of a kernel panic is a deadlock of the model
CONSTANT PhyReadMayFail = TRUE
SPECIFICATION FairSpec
INVARIANTS LinkChangeNotLost IInv
PROPERTIES LineServed LinkDownNoticed LinkUpNoticed
CHECK_DEADLOCK FALSE
