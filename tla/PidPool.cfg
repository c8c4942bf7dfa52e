SPECIFICATION Spec
CONSTANT MaxPid = 5
INVARIANTS TypeOK PidsAreExclusive AtMostOnePidLost ExhaustedOnlyWhenFull
PROPERTY ImplementsAllocator
