\* The panel takes two samples; the Uno Q hears of two.
SPECIFICATION Spec
CONSTANTS
    MaxSamples = 2
    EmptyPollBudget = 1
    FrameBudget = 2
    RxDepth = 2
    Sources = {"scripted", "server", "external", "missing"}
    ModelLines <- MCModelLines
    LightRaw <- MCLightRaw
    WeakRaw = 1
    StrongRaw = 2
    StaleAfter = 1
    OrdinalModulus = 2
INVARIANTS
    SensorInv
    AckedIsHeld
    PanelInStep
    FaceMatchesTurn
CHECK_DEADLOCK FALSE
PROPERTIES
    PanelProgress
    StaleWhenSilent
    ShellLives
