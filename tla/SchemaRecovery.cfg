CONSTANTS
    labels = labels
    name = name
    node = node
    nodes = nodes
    pods = pods
    Types = {pods, nodes}
    Paths = {name, node, labels}
    EndWildcards = {labels}
    MidWildcards = {node}
    MaxIndexes = 1
    MaxLog = 4
    MaxCrashes = 1
    Faults = {"append", "sync"}
SPECIFICATION Spec
INVARIANTS RecoveryExact IndexesDistinct
PROPERTIES TypesPermanent
SYMMETRY Symmetry
