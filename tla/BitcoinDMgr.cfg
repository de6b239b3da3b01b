SPECIFICATION FairSpec
CONSTANTS
    Clients = {c1, c2}
    Requests = {r1}
    MaxConnects = 2
INVARIANTS
    AnsweredOnce
    NoEntryLeftBehind
    GoodConnectionsKnown
PROPERTIES
    EventuallyAnswered
    LearnsOfConnection
    LearnsOfLoss
CHECK_DEADLOCK FALSE
