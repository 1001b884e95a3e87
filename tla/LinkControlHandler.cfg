\* a handler that disable leaves signalled
CONSTANT PhyReadMayFail = FALSE
SPECIFICATION Spec
INVARIANT HandlerFindsRings
CHECK_DEADLOCK FALSE
