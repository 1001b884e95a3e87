\* both ports and the firmware
CONSTANTS
    Ports = {0, 1}
    Resources = {"EEP", "PHY0", "PHY1", "CSR"}
    Masks <- MCMasks
    FwMasks = {{"EEP"}, {"PHY0", "CSR"}, {"PHY1", "CSR"}, {"CSR"}}
    Firmware = fw
SPECIFICATION FairSpec
INVARIANTS Exclusive IInv
PROPERTIES ImplementsLocks ReleaseEnds
