SPECIFICATION BusSpec
CONSTANTS
    Message <- MCMessage
    Journaled <- MCJournaled
    Consumer <- MCConsumer
    Failing <- MCFailing
    Client <- MCClient
    MaxRetries = 2
    MaxHistory = 1
    MaxPublishes = 3
    MaxConnections = 2
INVARIANTS RetriesAreBounded
PROPERTIES NothingSilentlyLost
CHECK_DEADLOCK FALSE
