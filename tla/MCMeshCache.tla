---------------------------- MODULE MCMeshCache -----------------------------
EXTENDS MeshCache, TLC

CONSTANTS small, medium, large, broken
MCBytes == (small :> 1) @@ (medium :> 2) @@ (large :> 4) @@ (broken :> 1)
MCMeshes == {small, medium, large, broken}
MCPrepares == {small, medium, large}
MCPairs == { <<small, medium>>, <<small, large>>, <<medium, large>>, <<small, broken>> }
=============================================================================
