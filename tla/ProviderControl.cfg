CONSTANTS
    None = None
    Specs <- ThreeSpecs
    Faults = {"list", "child", "status"}
    MaxEnv = 2
SPECIFICATION FairSpec
CHECK_DEADLOCK FALSE
INVARIANT NoPlaintextTransport
PROPERTY NoStatusWhenClaimed
PROPERTY OnlyOwnLabelDeleted
PROPERTY IstioConverges
