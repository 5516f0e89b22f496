SPECIFICATION Spec
CONSTANTS
    Specs <- MCSpecs
    Pvcs = {}
    Passwords = {w1}
    OtherSecrets = {}
    OtherConfigMaps = {}
    Configs <- MCConfigs
    EnvBudget <- ConfigMapBudget
    MaxLag = 2
PROPERTIES OwnerKept
