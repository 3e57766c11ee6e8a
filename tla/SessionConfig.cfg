SPECIFICATION Spec
CONSTANTS
    a = a
    b = b
    none = none
    NoHost = none
    Hosts <- MCHosts
    Configs <- MCConfigs
    MaxReloads = 1
INVARIANTS
    ConnectedAsConfigured
CHECK_DEADLOCK FALSE
