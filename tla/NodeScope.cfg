CONSTANTS
    local = local
    bare = bare
    agent = agent
    w1 = w1
    w2 = w2
    metrics = metrics
    none = none
    Nodes <- MCNodes
    Local = local
    Agents <- MCAgents
    Workers <- MCWorkers
    Loops <- MCLoops
    None = none
SPECIFICATION Spec
INVARIANTS
    TypeOK
    NoCrosstalk
PROPERTIES
    EveryoneEnters
    NodeIsOwn
