SPECIFICATION Spec
CONSTANTS
    NumSources = 2
    plain = plain
    more = more
    broken = broken
    tweak = tweak
    tornTweak = tornTweak
    boot = boot
    net = net
    ConfTexts = {plain, more, broken}
    OverrideTexts = {tweak}
    BadTexts = {broken}
    StartOn <- MCStartOn
    EventNames = {boot, net}
    InstanceNames = {i1, i2}
    ClassIds = {1, 2, 3, 4}
    MaxEdits = 3
    NoFile = NoFile
    NoJob = NoJob
    None = None
    NoStanza = NoStanza
INVARIANTS
    ClassesAccounted
    InstancesReachable
    BestUnlessRunning
    SettledMatchesDisk
PROPERTIES
    ReloadKeepsMatches
