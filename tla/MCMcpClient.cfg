SPECIFICATION McpSpec
CONSTANTS
    Server <- Servers
    Name <- ToolNames
    Native <- NativeTools
    Uri <- Resources
    Replaced <- ReplacedStates
    Capacity = 1
    MaxOperations = 4
INVARIANT McpTypeOK
PROPERTIES RemovalTakesItsOwn SourcesAreSeparate
CHECK_DEADLOCK FALSE
