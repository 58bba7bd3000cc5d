\* One conversation and two kinds of turn, while another goroutine looks it up.
CONSTANTS
    Conversations = {"conv"}
    Names <- MCNames
    PinModels <- MCPinModels
    Aliases <- MCAliases
    Configs <- MCConfigs
    Loaded <- MCLoaded
    FamilyMarks <- MCFamilyMarks
    Vision = {"big", "other", "gpt-4o", "gpt-4o-mini"}
    Asks <- MCTwoAsks
    SimpleAt = 35
    ComplexAt = 65
    CascadeAt = 40
    TTL = 1
    MaxTime = 2
    Callers = {"c"}
SPECIFICATION Spec
PROPERTY PinsStick
