CONSTANTS
    None = None
    Configs <- MCConfigs
SPECIFICATION Spec
INVARIANTS
    TypeOK
    PrepareAcceptsExactlyValid
    LookupFindsOwnCredential
    PrepareIdempotent
