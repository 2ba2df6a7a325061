CONSTANTS
    Memory <- SomeMemory
    BlockSize = 6
    Kinds <- SomeKinds
    MaxObjects = 5
SPECIFICATION Spec
INVARIANTS TypeOK ObjectsInBlocks SpaceIsFree
PROPERTIES ImplementsAllocator
CHECK_DEADLOCK FALSE
