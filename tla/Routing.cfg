\* All turns of one conversation, over five configurations.
CONSTANTS
    Conversations = {"conv"}
    Names <- MCNames
    PinModels <- MCPinModels
    Aliases <- MCAliases
    Configs <- MCConfigs
    Loaded <- MCLoaded
    FamilyMarks <- MCFamilyMarks
    Vision = {"big", "other", "gpt-4o", "gpt-4o-mini"}
    Asks <- MCAsks
    SimpleAt = 35
    ComplexAt = 65
    CascadeAt = 40
    TTL = 1
    MaxTime = 2
    Callers = {"c"}
SPECIFICATION Spec
INVARIANTS
    ChainSound
    ModifiersHold
    Dispatchable
PROPERTY
    NeverBounces
