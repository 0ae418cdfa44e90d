SPECIFICATION Spec
CONSTANTS
    za = za
    zb = zb
    api1 = api1
    api2 = api2
    upd1 = upd1
    upd2 = upd2
    xfr1 = xfr1
    timer1 = timer1
    hup1 = hup1
    NoTask = NoTask
    NoZone = NoZone
    Zones <- ZoneA
    Listed <- None
    Filed <- ZoneA
    Signed <- ZoneA
    ApiTasks <- TwoApis
    UpdateTasks <- None
    Transfers <- None
    Timers <- OneTimer
    Reloaders <- None
    ApiOps <- PatchCreateDelete
    ClientSerials <- Serials
    DiskMayFail = TRUE
    JournalDepth = 2
    MaxEdits = 3
    MaxCrashes = 1
INVARIANTS AckedEditsLive AckedEditsOnDisk DiskMatchesLive SignaturesMatchLive JournalSound
SYMMETRY ApiSymmetry
CHECK_DEADLOCK FALSE
