SPECIFICATION Spec
CONSTANTS
    ImageIDs = {i1, i2, i3}
    Uploaders = {u1, u2}
    Deleters = {d1, d2}
    Readers = {r1}
    JobIDs = {j1}
    Configs <- AllConfigs
    MaxFaults = 2
INVARIANTS
    FailedForLoss
    MetadataHasBlob
    PromisedReadable
    StraysExplained
    FoundIsServed
    NotFoundIsGone
SYMMETRY Alike
