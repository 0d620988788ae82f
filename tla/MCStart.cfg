\* Every command line and every failure, one process after the other.
SPECIFICATION Spec
INVARIANT ServesOnlyWhenReady
INVARIANT SuccessMeansServed
