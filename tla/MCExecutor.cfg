SPECIFICATION ExecSpec
CONSTANTS
    a = a
    b = b
    c = c
    d = d
    k1 = k1
    k2 = k2
    k3 = k3
    Nodes <- ModelNodes
    Deps <- ModelDeps
    OutputNode <- ModelOutputs
    Keys = {k1, k2, k3}
    Key <- ModelKey
    Workers = 2
INVARIANTS
    TypeOK
    DependenciesFirst
    OutcomeHonest
PROPERTIES
    NodeRunsOnce
    QuietAfterReturn
    CancelStopsDispatch
    Terminates
