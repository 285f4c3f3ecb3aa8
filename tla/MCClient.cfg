SPECIFICATION Spec
CONSTANTS
    Ops = {"CheckGate", "GetConfig", "GetExperiment", "GetLayer", "ManuallyLogGateExposure", "ManuallyLogConfigExposure", "ManuallyLogLayerParameterExposure", "LogEvent", "LogImmediate"}
    Exceptions = {"depth", "nil map"}
    Keys = {"k"}
    Types = {"string", "float64"}
    None = None
    Outcomes <- MCOutcomes
    ServerValue <- MCServerValue
    MaxCalls = 2
    MaxReads = 2
    MaxSyncs = 1
INVARIANT ReportedOnce
INVARIANT MarkersPaired
INVARIANT ExposurePerCheck
INVARIANT ExposureIsWhatWasReturned
CHECK_DEADLOCK FALSE
