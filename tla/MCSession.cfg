SPECIFICATION SSpec
CONSTANTS
    Clusters = {c1, c2}
    MaxKeys = 1
    NoCluster = NoCluster
    NoCommand = NoCommand
\* The program ends, or crashes.
CHECK_DEADLOCK FALSE
INVARIANTS
    STypeOK
    NoStrayWorkers
    HandlersHaveTheirArguments
    SleepersStayAway
PROPERTIES
    CommandsReturn
    ServiceKeepsPassing
