SPECIFICATION Spec
CONSTANTS
    Radix = 256
    AddressBytes = 2
    HalfBytes = 1
    AddressSpace = 65536
    Half = 256
    ByteSpace = 4
    NonceKeySpace = 4
    SequenceSpace = 4
    Order = 509
    Error = Error
    None = None
    Flows = {f1, f2}
    Wants <- MCWants
    Scalars <- MCScalars
    FirstSequence = 2
    PollInterval = 2
    WaitBudget = 3
    MaxDelay = 1
    MaxTime = 5
SYMMETRY MCSymmetry
CHECK_DEADLOCK FALSE
INVARIANTS
    RoutedAsMeant
    WireIsWhatWasSigned
    PasskeyVerifies
    WaitKeepsItsBudget
    RecoveryRestoresAccess
