SPECIFICATION Spec
CONSTANTS
    Models = {m1}
    Bindings = {b1, b2}
    Clusters = {c1}
    MaxChanges = 3
    MaxFaults = 1
    MaxRestarts = 1
INVARIANTS TypeOK MapsAgree
PROPERTIES SyncRecurs PairsFollowModels DeletedVmiCollected
CHECK_DEADLOCK FALSE
