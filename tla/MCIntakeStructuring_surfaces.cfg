SPECIFICATION Spec
CONSTANTS Config <- MCLocalPlatform
CHECK_DEADLOCK FALSE
INVARIANTS EvidenceFailureSurfaces
