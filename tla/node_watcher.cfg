\* One node, in units of 100 ms: heartbeats every 2.7 to 3.3 s, excluded after
\* 10 s.  Two heartbeats in a row may be lost.  When the nodes are dead and
\* forgotten only time passes.
CONSTANTS
  Nodes = {n1}
  HeartbeatMin = 27
  HeartbeatMax = 33
  ExcludeTime = 100
  MaxLost = 2
SPECIFICATION FairSpec
INVARIANTS
  TypeOK
  LiveNodeListed
PROPERTIES
  DeadNodeForgotten
