SPECIFICATION Spec
CONSTANTS
    Keys <- MCKeys
    Methods <- MCMethods
    Paths <- MCPaths
    Words <- MCWords
    Components <- MCComponents
    Hosts <- MCHosts
    Forms <- MCForms
    Files <- MCFiles
INVARIANTS
    TypeOK
    NoRequestForgotten
    ShutdownAnswered
    ErrorsAreErrors
    HeadWithoutContent
    ReservedPaths
    ReferencesResolved
    ParamsByKey
CHECK_DEADLOCK FALSE
