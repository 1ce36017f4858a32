CONSTANTS
    Threads = {w1, w2, w3}
    Meshes <- MCMeshes
    Pairs <- MCPairs
    Bytes <- MCBytes
    Prepares <- MCPrepares
    Budget = 2
    small = small
    medium = medium
    large = large
    broken = broken
SPECIFICATION Spec
INVARIANTS CacheIsAccounted CacheIsTransparent
CHECK_DEADLOCK FALSE
