SPECIFICATION Spec
CONSTANTS
    MaxAddr = 2
    Values = {0, 1}
    Rates = {2}
    MaxSets = 3
    MaxCombines = 1
    Modules = {"cpu", "bus", "peer", "mem1", "mem2"}
    NoModule = "none"
    Ports = {0, 1}
    Links <- LinksDef
    OwnSpace <- OwnSpaceDef
    Settings <- SettingsDef
    Cpu = "cpu"
    Regions <- RegionsDef
    MaxSettings = 2
    MaxTime = 2
    ParamModules = {x, y}
    MaxParamAppointments = 3
    MaxRegistrations = 3
INVARIANTS ContainerExact GraphSettled ParamsOnDate
PROPERTIES RefreshEnds AppliedInTheEnd
CHECK_DEADLOCK FALSE
