SPECIFICATION Spec
CONSTANTS
    Methods <- MCMethods
    MaxMethods = 3
    Sources <- MCSources
    CurrentFile <- Current
    WellKnown <- MCWellKnown
    Base <- MCBase
    Dir <- MCDir
    Rank <- MCRank
    GoPackage <- MCGoPackage
    Letters <- MCLetters
INVARIANTS TypeOK CacheIsCurrent NamesDistinct BodiesUseImports
           GoImportsUsed GoFunctionsResolve PyFunctionsResolve
PROPERTY ResolverSpec
CHECK_DEADLOCK FALSE
