CONSTANTS
    imm = imm
    asy = asy
    dly = dly
    prv = prv
    loop = loop
    task = task
    Channels = {imm, asy, dly, prv}
    Sources = {loop, task}
    SourceEdges <- MCSourceEdges
    EdgeKind <- MCEdgeKind
    LoopExternal = {imm, asy}
    MaxInflight <- MCMaxInflight
    EdgeConfigs <- MCEdgeConfigs
    MaxPublishes = 3
    MaxEpochs = 3
    MaxRegions = 1
SPECIFICATION Spec
CHECK_DEADLOCK FALSE
INVARIANTS
    DeferredAtNextBoundary
    ChannelFifo
    StagedAccounted
    RegionOutputsTogether
    BatchAllOrNothing
PROPERTY FeedbackIsDelayed
