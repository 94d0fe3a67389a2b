SPECIFICATION FairSpec
CONSTANTS
    p1 = p1  p2 = p2  a = a  b = b  c = c  k1 = k1  k2 = k2
    x = x  date = date  text = text
    Procs <- TwoProcs
    Tasks <- TwoTasks
    Keys <- TwoKeys
    Values <- AllValues
    Asked <- BInBoth
    Warms <- OnlyA
    Managed <- OnlyP1
    Given <- Written
    Json <- AsText
    None = None
    MaxSize = 1
    Policy <- Policies
    MaxUses = 1
INVARIANTS TypeOK SettledSticks
PROPERTIES ImplementsVolatileCache Converges
