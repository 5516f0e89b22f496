SPECIFICATION Spec
CONSTANTS
    b1 = b1
    b2 = b2
    c1 = c1
    c2 = c2
    None = None
    Bindings = {b1, b2}
    Clusters = {c1, c2}
    Objects <- MCObjects
    WlsSecrets <- MCWlsSecrets
    Specs <- MCSpecs
    Originals <- NoOriginals
    Lacking <- AnyInterface
    MaxChanges = 1
    MaxMishaps = 1
INVARIANTS TypeOK OthersKept ConnectionsHeld OwnUnlessRestarted RestIsDeployed
PROPERTIES SyncConverges TeardownCollects CreatesSurvive
CHECK_DEADLOCK FALSE
