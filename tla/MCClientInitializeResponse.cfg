SPECIFICATION RespFairSpec
CONSTANTS
    g1 = g1
    g2 = g2
    c1 = c1
    l1 = l1
    Responder = r1
    Threads = {r1}
    Gates = {g1, g2}
    Configs = {c1}
    Layers = {l1}
    None = None
    Worlds <- MCWorlds
    MaxDepth = 9
    MaxChanges <- MCMaxChanges
INVARIANT SectionsFromOneSync
INVARIANT QuietResponseAgrees
PROPERTY ResponseEnds
