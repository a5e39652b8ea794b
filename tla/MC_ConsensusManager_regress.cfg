CONSTANTS
    c1 = c1
    c2 = c2
    Callers <- MCCallers
    NumDirs = 3
    FreshFor = 1
    ValidFor = 2
    MaxTime = 2
    MaxVersion = 2
    Wasm = FALSE
    None = None
SPECIFICATION Spec
PROPERTY
    CacheNeverRegresses
