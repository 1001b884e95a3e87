\* a watchdog that remembers the link of before disable
CONSTANT PhyReadMayFail = FALSE
SPECIFICATION FairSpec
PROPERTY LinkUpTransmits
CHECK_DEADLOCK FALSE
