SPECIFICATION Spec
CONSTANTS
    g1 = g1
    g2 = g2
    c1 = c1
    l1 = l1
    Threads = {t1}
    Gates = {g1, g2}
    Configs = {c1}
    Layers = {l1}
    None = None
    Worlds <- MCWorlds
    MaxDepth = 10
    MaxChanges <- MCMaxChanges
INVARIANT TypeOK
INVARIANT NestingBounded
INVARIANT QuietEvaluationIsReference
