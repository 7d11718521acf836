\* Two containers and one restart: a container added before the restart
\* and one added after it.
CONSTANTS
    c1 = c1
    c2 = c2
    Ctrs <- MCCtrs
    MaxTries = 2
    MaxRestarts = 1
    MaxWasmContainers = 500
    WasmnetNamespaces = 500

SPECIFICATION Spec

INVARIANT AddressesUnique
