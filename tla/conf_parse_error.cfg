SPECIFICATION Spec
CONSTANTS
    NumSources = 2
    plain = plain
    more = more
    broken = broken
    tweak = tweak
    tornTweak = tornTweak
    boot = boot
    net = net
    ConfTexts = {plain, more, broken}
    OverrideTexts = {tweak, tornTweak}
    BadTexts = {broken, tornTweak}
    StartOn <- MCStartOn
    EventNames = {boot, net}
    InstanceNames = {i1}
    ClassIds = {1, 2, 3, 4, 5, 6}
    MaxEdits = 3
    NoFile = NoFile
    NoJob = NoJob
    None = None
    NoStanza = NoStanza
INVARIANTS
    ParseErrorStopsJob
