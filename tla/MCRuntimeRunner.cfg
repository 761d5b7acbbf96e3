CONSTANTS
    Holes <- MCHoles
    MaxLanes = 1
    MaxComponents = 5
    MaxEdges = 5
    MaxLoops = 1
    MaxIdentifier = 3
    Registry <- MCRegistry
    Documents <- MCDocuments
    Options <- MCOptions
    MayThrow = {"create", "restore", "reset", "run", "snapshot", "deactivate", "observer"}
SPECIFICATION Spec
INVARIANTS
    StoppedInReverse
    OkMeansClean
    AcceptedIsRunnable
