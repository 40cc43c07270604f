SPECIFICATION Spec
CONSTANTS
    Callers <- AllCallers
    Codes <- SomeCodes
    MaxNumber = 1
    MaxKeys = 2
INVARIANTS
    TypeOK
    FieldsArrive
    PathVarsWin
    OrderDoesNotMatter
    AnswersAreHonest
