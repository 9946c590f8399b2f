SPECIFICATION Spec
CONSTANTS
    ClientId = {"c1"}
    WillTopic = {"t"}
    WillMsg = {"x"}
    KeepAlive = {1}
    DefaultClientId = "c1"
    PubOnlyKeepAlive = 1
    RetryCount = 2
    ClientKind = "patient"
    Menus = {{"CONNECT", "WILLTOPIC", "WILLMSG", "SLEEP", "PINGREQ", "OTHER"},
             {"CONNECT", "WILLTOPIC", "WILLMSG", "WILLTOPICUPD", "WILLMSGUPD", "NOGWPUBLISH", "DISCONNECT"}}
INVARIANTS WillKept WillAgrees ConnectedToBroker ReconnectTimed
CHECK_DEADLOCK FALSE
