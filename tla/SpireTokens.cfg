SPECIFICATION Spec
CONSTANTS
    Key = {1, 2, 3, 4, 5}
    Token = {2, 5}
    Dns = {0, 1}
    Configs <- SomeConfigs
    Similar <- Reordered
    MaxDeploys = 2
    MaxFaults = 2
PROPERTY TokensKept
CHECK_DEADLOCK FALSE
