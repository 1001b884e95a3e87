\* both kinds of adapters; every flash cycle may fail
CONSTANTS
    SectorWords = 3
    Sectors = 1
    SigWord = 0
    SumWord = 1
    EraseRetries = 2
    Parts = {"e1000_ich8lan", "e1000_ich10lan"}
    Faults = {"read", "erase", "program", "late"}
SPECIFICATION Spec
INVARIANTS IInv SomeBankValid ValidBankIsWhole ReadsWritten
PROPERTIES CommitIsDurable
