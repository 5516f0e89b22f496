SPECIFICATION Spec
CONSTANTS
    Specs <- MCSpecs
    Pvcs = {}
    Passwords = {w1, w2}
    OtherSecrets <- MCOtherSecrets
    OtherConfigMaps = {}
    Configs <- MCConfigs
    EnvBudget <- SecretBudget
    MaxLag = 2
PROPERTIES PasswordKept StraysCollected SettledKept OwnObjectsKept
