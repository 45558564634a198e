\* Three modules in a chain, the middle one ignored now and then.
SPECIFICATION Spec
CONSTANTS
    core = core
    plugin = plugin
    script = script
    Modules = {core, plugin, script}
    Native = {core, plugin}
    Buildable = {plugin}
    NoModule = NoModule
    Descriptors <- ChainDescriptors
INVARIANTS
    TypeOK
    CleanupConsistent
    NoDanglingContribution
    ReplacementAfterUnload
    EnvironmentOutlivesModules
