SPECIFICATION Spec
CONSTANTS
    s1 = s1
    s2 = s2
    c1 = c1
    c2 = c2
    c3 = c3
    NoScene = NoScene
    NoComponent = NoComponent
    Scenes <- OneScene
    Components <- ThreeComponents
    Priorities <- MCPriorities
    CapabilityChoices <- UpdateOnly
    RevisionModulus = 3
    MaxFixedSteps = 0
    MaxEdits = 4
    AllocMayFail = FALSE
PROPERTIES
    StartedIsWrittenToTheLiving
