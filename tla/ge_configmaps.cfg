SPECIFICATION Spec
CONSTANTS
    Specs <- MCSpecs
    Pvcs = {}
    Passwords = {w1}
    OtherSecrets = {}
    OtherConfigMaps = {c1, c2}
    Configs <- MCConfigs
    EnvBudget <- ConfigMapBudget
    MaxLag = 2
INVARIANTS TypeOK QuietIsSettled
PROPERTIES DashboardsConverge StraysCollected
