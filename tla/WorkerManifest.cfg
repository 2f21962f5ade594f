SPECIFICATION Spec
CONSTANTS
    a = a
    b = b
    s = s
    f = f
    Call = {1, 2}
    Id = {a, b, s}
    KeyOf <- MCKeyOf
    NoKey = NoKey
    Files = {a, b}
    Operations <- MCOperations
    Manifests <- MCManifests
    Nobody = Nobody
    MaxSettlements = 2
CHECK_DEADLOCK FALSE
INVARIANT ManifestAgrees
