SPECIFICATION Spec
CONSTANTS
    za = za
    zb = zb
    api1 = api1
    api2 = api2
    upd1 = upd1
    upd2 = upd2
    xfr1 = xfr1
    timer1 = timer1
    hup1 = hup1
    NoTask = NoTask
    NoZone = NoZone
    Zones <- ZoneA
    Listed <- None
    Filed <- ZoneA
    Signed <- ZoneA
    ApiTasks <- OneApi
    UpdateTasks <- OneUpdate
    Transfers <- None
    Timers <- None
    Reloaders <- None
    ApiOps <- PatchOnly
    ClientSerials <- Serials
    DiskMayFail = FALSE
    JournalDepth = 2
    MaxEdits = 2
    MaxCrashes = 0
INVARIANT AckedEditsLive
CHECK_DEADLOCK FALSE
