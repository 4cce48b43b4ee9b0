SPECIFICATION JobSpec
CONSTANTS
    a = a
    b = b
    c = c
    k = k
    pin = pin
    free = free
    NoGroup = NoGroup
    NoNode = NoNode
    Nodes <- ModelNodes
    Deps <- ModelDeps
    OutputNode <- ModelOutputNode
    Keys = {k}
    Key <- ModelKey
    Workers = 2
    Groups = {pin, free}
    GroupOrder <- ModelGroupOrder
    OutputGroup <- ModelOutputGroup
INVARIANTS
    JobTypeOK
    AnnouncedIsStored
    FinalStatusIsWhole
    PinnedOutputsInOrder
    NothingHeldNeedlessly
PROPERTIES
    FollowsProtocol
    RunsExecutor
