CONSTANTS
    v1 = v1
    v2 = v2
    v3 = v3
    NoValue = NoValue
    Value = {v1, v2, v3}
    MaxGeneration = 6
SPECIFICATION Spec
INVARIANTS
    StoreInv
    SaveContract
PROPERTIES
    ImplementsRegister
