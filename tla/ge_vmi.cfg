SPECIFICATION Spec
CONSTANTS
    Specs <- MCSpecs
    Pvcs = {p1, p2}
    Passwords = {w1}
    OtherSecrets = {}
    OtherConfigMaps = {}
    Configs <- MCConfigs
    EnvBudget <- VmiBudget
    MaxLag = 3
PROPERTIES PvcNamesKept VmiConverges SecretConverges VmiRefines
