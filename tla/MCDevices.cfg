CONSTANTS
    workers_capacity = 2
    MaxSeqnum = 4
    MaxEvent = 4
    MaxChange = 1
    MaxFilter = 3
    Panics = {2}
    Glob <- MCGlob
    Formatted <- MCFormatted
    WellFormatted <- MCWellFormatted
    Numeric <- MCNumeric
    Builtin <- MCBuiltin
    KnownName <- MCKnownName
    ResolveTime = "Late"
    Path <- MCPath
    Fixed <- MCFixed
    ParentOf <- MCParentOf
    Area <- MCArea
    SysName <- MCSysName
    BusOf <- MCBusOf
    ClassOnly <- MCClassOnly
    Number <- MCNumber
    BeforeEq <- MCBeforeEq
    Key <- MCKey
    KeyOrder <- MCKeyOrder
    MatchesOf <- MCMatchesOf
    StartsWith <- MCStartsWith
    Before <- MCBefore
    LateBlock = {}
    Control = {}
    BusDir <- MCBusDir
    ClassDir <- MCClassDir
    ModuleDir <- MCModuleDir
SPECIFICATION MCSpec
INVARIANTS
    NoUnwrapFails
    TokenOK
    DeviceSound
    EnumerationSound
PROPERTIES
    ImplementsQueue
    EventsAreProcessed
CHECK_DEADLOCK FALSE
