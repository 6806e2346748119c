CONSTANTS
    CommandLines <- SmallLines
    MathCpus = 2
    MaxDevices = 2
    Builtins <- SmallBuiltins
    MaxThreads = 2
    Models <- SmallModels
    DefaultCtx = 8
    ClipCtx = 12
    CtxPad = 4
    Requests = 2
    Signals = 2
SPECIFICATION FairSpec
INVARIANTS
    CustomTemplateNeedsJinja
    SettingsSound
    ThreadsNumbered
PROPERTIES
    SignalEnds
CHECK_DEADLOCK FALSE
