\* Two containers, two ADD attempts each, one restart; the wasm pool at the
\* default cfg.MaxWasmContainers (500) against wasmnet's 500 namespaces.
CONSTANTS
    c1 = c1
    c2 = c2
    Ctrs <- MCCtrs
    MaxTries = 2
    MaxRestarts = 1
    MaxWasmContainers = 500
    WasmnetNamespaces = 500

SPECIFICATION Spec
SYMMETRY Symmetry
INVARIANT TypeOK
INVARIANT AddressesDistinctInLifetime
INVARIANT WasmPoolMatchesNamespaces
