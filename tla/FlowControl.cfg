\* every partner and duplex, failing accesses, lost Kumeran locks, blocked resets
CONSTANTS
    PhyMayFail = TRUE
    LockLoss = TRUE
SPECIFICATION FairSpec
INVARIANTS EndsAgree DesiredOnReplug IInv
PROPERTIES PartnerServed
