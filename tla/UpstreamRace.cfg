SPECIFICATION Spec
INVARIANT ShutdownSignals
