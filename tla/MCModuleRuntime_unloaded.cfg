\* A build turns a failed record that holds a handle into an unloaded one.
SPECIFICATION Spec
CONSTANTS
    core = core
    plugin = plugin
    script = script
    Modules = {core, script}
    Native = {core}
    Buildable = {core}
    NoModule = NoModule
    Descriptors <- FixedDescriptors
INVARIANTS
    UnloadedHoldsNothing
