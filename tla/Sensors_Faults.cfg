\* Two sensors that come and go, time-outs cut to what tells them apart.
SPECIFICATION FairSpec
CONSTANTS
    Channel = {0, 1}
    StartTimeOut = 1
    RoundTime = 5
    ConversionTime = 2
    MaxFaults = 4
INVARIANTS SampleWhole InStep
PROPERTIES LowerTasksRun Recovers
CHECK_DEADLOCK FALSE
