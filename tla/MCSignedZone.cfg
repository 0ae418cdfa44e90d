SPECIFICATION Spec
CONSTANTS
    Origin <- MCOrigin
    Patches <- MCPatches
    Updates <- MCUpdates
    QNames <- MCQNames
    QTypes <- MCQTypes
    SerialSpace = 2
    MaxChase = 8
    MaxRecords = 4
    LabelRank <- MCLabelRank
    Configs <- MCConfigs
    MaxIterations = 1
INVARIANTS RoundTrips  NeverBogus NsecSound
