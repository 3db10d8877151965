SPECIFICATION IdsSpec
CONSTANTS
    Letters    <- MCLetters
    Files      <- MCFiles
    Characters <- MCCharacters
    MaxLoads   = 3
INVARIANTS
    IdsTypeOK
    IdsDiffer
    IdsFit
    FewNamesLoad
