CONSTANTS
    MeshX = 2
    MeshY = 2
    HomeSockets <- HomeSocketsDef
    MemSockets <- MemSocketsDef
    CacheSockets <- CacheSocketsDef
    Configurations <- ConfigurationsDef
    FlitSize = 4
    MWordLengthInByte = 8
    RouterLatency = 200
    LinkLatency = 100
    ContentionInterval = 840
    VirtualChannels = 1
    NocLatency = 30
    Stamps = {0, 1000}
    AccessTime = 50
    MaxSent = 5
    MaxCalls = 5
    MaxStatsReads = 1
    BusInitiators = {i1}
    Memories <- MemoriesDef
    mDefaultRoute = 0
    BusAccesses <- BusAccessesDef
    BusValues = {0, 1}
    BlockingRanges <- BlockingRangesDef
    AccessLatency = 1
    WordLatency = 1
    MaxAccesses = 3
    c0 = c0
    c1 = c1
    Cpus = {c0, c1}
    NoCpu = NoCpu
    Quantum = 3
    InstrCounts = {0, 1, 2}
    Timers = {0}
    Deadlines = {2, 6}
    WaitsForInterrupt = {c1}
    BootDelay <- BootDelays
    IssHorizon = 7
    MaxAhead = 4
    MaxTime = 2
    Loggers = {l1, l2}
    LoggerNames = {a, b}
    NoLogger = none
    DebugLvls = {0, 1}
    MaxAppointments = 2
    MaxLoggerCalls = 4
SPECIFICATION Spec
INVARIANTS MeshAccounted SentWhereCharged BusSeesOneMemory TimeKept AppointmentsKept
PROPERTY ClockNotBack
CHECK_DEADLOCK FALSE
