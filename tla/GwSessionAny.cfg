SPECIFICATION FairSpec
CONSTANTS
    ClientId = {"c1", "c2"}
    WillTopic = {"t"}
    WillMsg = {"x"}
    KeepAlive = {1}
    DefaultClientId = "c1"
    PubOnlyKeepAlive = 1
    RetryCount = 1
    ClientKind = "any"
    Menus = {{"CONNECT", "SLEEP", "PINGREQ", "REGISTER", "OTHER"}}
INVARIANTS ClientWatched TypeOK
PROPERTY SilentClientEnds
CHECK_DEADLOCK FALSE
