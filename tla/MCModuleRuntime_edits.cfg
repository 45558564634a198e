\* Two modules whose descriptors are edited at any moment; operations end.
SPECIFICATION FairSpec
CONSTANTS
    core = core
    plugin = plugin
    script = script
    Modules = {core, script}
    Native = {core}
    Buildable = {core}
    NoModule = NoModule
    Descriptors <- EditedDescriptors
INVARIANTS
    DependenciesLive
    HeldGraphAcyclic
PROPERTIES
    ImplementsModuleLinks
    OperationsEnd
