SPECIFICATION FairSpec
CONSTANTS
    a = a  b = b  u = u  NoSkill = NoSkill
    Conns <- TwoConns
    Users = {u}
    UserOf <- SameUser
    Types = {"execution"}
    Skills = {"s1"}
    Broadcasts = {"b1"}
    Timeout = 0
    Faults <- OneTroubled
INVARIANTS TypeOK IndexesAgree
PROPERTIES BroadcastReaches FailedIsForgotten
