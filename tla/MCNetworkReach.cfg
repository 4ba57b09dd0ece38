CONSTANTS
 a = a
 b = b
 c = c
 l1 = l1
 l2 = l2
 Node = {a, b, c}
 Link = {l1, l2}
 Block = {b1, b2}
 Tx = {t1}
 Fanout = 2
 MaxInventory = 1
 Client = a
 BatchSize = 2
 MaxRetries = 2
 MaxHeight = 3
SPECIFICATION ReachSpec
PROPERTIES EveryNodeReceives
CHECK_DEADLOCK FALSE
