SPECIFICATION Spec
CONSTANTS
    Producers = {p1, p2}
    Consumers = {c1, c2}
    Nodes = {n1, n2, n3}
    Null = Null
    MaxMessages = 1
SYMMETRY Symmetry
CHECK_DEADLOCK FALSE
PROPERTY ImplementsFifo
