\* One connection at a time, up to two pieces each way, every end of either side.
SPECIFICATION ForwardFairSpec
CONSTANTS
    Conns = {c1}
    MaxPort = 65535
    Ports <- MCPorts
    Lists <- MCLists
    MaxSent = 2
INVARIANTS OnlySelectedPorts EndAfterData
PROPERTIES BridgeGoesOn
CHECK_DEADLOCK FALSE
