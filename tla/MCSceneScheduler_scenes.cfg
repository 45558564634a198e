\* Two scenes, two components that take part in no stage or in two.
SPECIFICATION FairSpec
CONSTANTS
    s1 = s1
    s2 = s2
    c1 = c1
    c2 = c2
    c3 = c3
    NoScene = NoScene
    NoComponent = NoComponent
    Scenes <- TwoScenes
    Components <- TwoComponents
    Priorities <- MCPriorities
    CapabilityChoices <- EndStages
    RevisionModulus = 3
    MaxFixedSteps = 1
    MaxEdits = 3
    AllocMayFail = TRUE
INVARIANTS
    SchedulesExact
    PendingExact
    NoForgottenStart
PROPERTIES
    EventuallyStarted
