SPECIFICATION PipelineSpec
CONSTANTS
    Base = 6
    LenBytes = 2
    WordBytes = 2
    Marker <- MarkerKRN
    Version = 2
    s1 = s1
    s2 = s2
    Services = {s1, s2}
    Requests <- FewRequests
    TlsOutput <- SomeOutput
    KRN_VKEY = KRN_VKEY
    OTHER_VKEY = OTHER_VKEY
    ROOT = ROOT
    OLD_ROOT = OLD_ROOT
    PREFIX = PREFIX
    OTHER_PREFIX = OTHER_PREFIX
    KrnVkey = KRN_VKEY
    Sp1Root = ROOT
    VkPrefix = PREFIX
    OtherProofs <- ForeignProofs
    MaxHosts = 2
    Nothing = Nothing
INVARIANTS
    AcceptedAsRead
    CleanRunAccepted
CHECK_DEADLOCK FALSE
