\* A callback moves the entity that is being freed.
SPECIFICATION Spec
CONSTANTS
    p1 = p1
    p2 = p2
    c1 = c1
    c2 = c2
    u1 = u1
    u2 = u2
    u3 = u3
    NoId = NoId
    NoComponent = NoComponent
    NoOwner = NoOwner
    NoPool = NoPool
    NoUuid = NoUuid
    Pools = {p1, p2}
    Uuids = {u1, u2, u3}
    Components = {c1, c2}
    Types = {"main", "needed"}
    TypeOf <- MCTypeOf
    Needs <- MCNeeds
    RowTypes = {"a", "b"}
    InitTypes = {"a", "b"}
    RowValues = {0, 1}
    InitialSlots = 2
    MaxSlots = 4
    MaxGeneration = 1
    MaxDepth = 2
    MigratesRows = FALSE
SYMMETRY UuidSymmetry
CONSTRAINT OneConcern
PROPERTIES
    FreeLeavesTree
