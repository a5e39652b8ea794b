CONSTANTS
    c1 = c1
    c2 = c2
    Callers <- MCCaller
    NumDirs = 3
    FreshFor = 1
    ValidFor = 2
    MaxTime = 2
    MaxVersion = 2
    Wasm = TRUE
    None = None
SPECIFICATION Spec
PROPERTIES
    CallsReturn
CHECK_DEADLOCK FALSE
