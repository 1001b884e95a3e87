\* several sectors per bank, as with hardware sectors of 256 bytes; no cycle fails
CONSTANTS
    SectorWords = 2
    Sectors = 3
    SigWord = 0
    SumWord = 1
    EraseRetries = 2
    Parts = {"e1000_ich8lan"}
    Faults = {}
SPECIFICATION Spec
PROPERTY EraseStaysInBank
