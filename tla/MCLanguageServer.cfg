SPECIFICATION Spec
CONSTANTS
    Paths <- MCPaths
    Disks <- MCDisks
    Methods <- MCMethods
    LSP_MAX_BUFFER_SIZE = 2
    LSP_MAX_CLIENTS = 2
    MaxConnections = 2
    MaxMessages = 2
    MaxEvents = 4
    Room = 2
INVARIANTS TypeOK ParsersAlive LastGoodScript StartedIsPolled QuietWhenStopped
PROPERTIES ChannelSpec EveryRequestAnswered
