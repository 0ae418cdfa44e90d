SPECIFICATION FairSpec
CONSTANTS
    za = za
    zb = zb
    api1 = api1
    api2 = api2
    upd1 = upd1
    upd2 = upd2
    xfr1 = xfr1
    timer1 = timer1
    hup1 = hup1
    NoTask = NoTask
    NoZone = NoZone
    Zones <- ZoneA
    Listed <- None
    Filed <- ZoneA
    Signed <- ZoneA
    ApiTasks <- OneApi
    UpdateTasks <- OneUpdate
    Transfers <- OneTransfer
    Timers <- OneTimer
    Reloaders <- OneReloader
    ApiOps <- PatchCreateDelete
    ClientSerials <- FirstSerial
    DiskMayFail = FALSE
    JournalDepth = 2
    MaxEdits = 1
    MaxCrashes = 1
INVARIANT AckedEditsWereServed
PROPERTY SignaturesCatchUp
CHECK_DEADLOCK FALSE
