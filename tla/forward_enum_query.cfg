SPECIFICATION Spec
CONSTANTS
    Callers <- EnumCallers
    Codes <- SomeCodes
    MaxNumber = 1
    MaxKeys = 2
INVARIANT FieldsArrive
