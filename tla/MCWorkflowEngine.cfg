SPECIFICATION WorkflowSpec
CONSTANTS
    Node <- Nodes
    Definition <- Definitions
    MaxFailures = 4
INVARIANTS JoinWaits
PROPERTIES ResumeRepeatsNothing SiblingsStop
CHECK_DEADLOCK FALSE
