CONSTANTS
    Descriptions <- PlatformDescriptions
    SystemCCosim0 = 50
    MaxDeclared = 2
    Ips = {cpu, cache, uart, other}
    OtherDomain = {other}
    Delayed = {cache}
    Silent = {uart, other}
    Direct = {cache}
    Processors = {cpu}
    Apps = {app1, app2}
    Ranges <- OneRange
    MaxCount = 2
    MaxCommands = 4
SPECIFICATION Spec
INVARIANTS PlatformWired ToldOnce ReportsOfBenchmark
PROPERTY NextBenchmarkAccepted
CHECK_DEADLOCK FALSE
