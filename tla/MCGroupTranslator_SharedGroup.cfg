SPECIFICATION Spec
CONSTANTS
  Fabric = {f1}
  Group = {g1, g2}
  Endpoint = {e1}
  MaxUnifyGroup = 5
  PutOutcomes = {TRUE}
  StackOutcomes = {TRUE}
  MaxQueue = 2
INVARIANT DistinctUnifyGroups
