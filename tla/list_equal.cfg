SPECIFICATION Spec
CONSTANTS
    List = {l1, l2}
    Iter = {it}
    Node = {n1, n2, n3}
    Item = {a, b}
    Null = Null
INVARIANTS
    EqualSameSize
