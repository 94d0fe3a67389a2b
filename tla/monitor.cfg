SPECIFICATION MonitorSpec
CONSTANTS
    p1 = p1  c1 = c1
    Platforms <- OnePlatform
    Clients <- OneClient
    Threshold = 2
    MaxStarts = 3
INVARIANTS MonitorTypeOK AlertsMatchStatus MonitoredByOne
PROPERTIES AlertsCatchUp
