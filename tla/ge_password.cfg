SPECIFICATION Spec
CONSTANTS
    Specs <- MCSpecs
    Pvcs = {}
    Passwords = {w1, w2}
    OtherSecrets = {}
    OtherConfigMaps = {}
    Configs <- MCConfigs
    EnvBudget <- BrokenSecretBudget
    MaxLag = 3
PROPERTIES PasswordKept
