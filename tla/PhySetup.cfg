SPECIFICATION Spec
CONSTANTS
    Adapters <- MCAdapters
    Configs <- MCConfigs
    NvmConfig <- MCNvmConfig
    LockTries = 2
INVARIANTS TypeOK CrossoverAsAsked BothEndsAgree LpluAsAsked LoopbackUndone KumeranAgrees
