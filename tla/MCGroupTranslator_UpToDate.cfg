SPECIFICATION SpecUpToDate
CONSTANTS
  Fabric = {f1}
  Group = {g1, g2}
  Endpoint = {e1, e2}
  MaxUnifyGroup = 2
  PutOutcomes = {TRUE, FALSE}
  StackOutcomes = {TRUE}
  MaxQueue = 3
INVARIANT CommandReachesMembers
INVARIANT DistinctUnifyGroups
SYMMETRY Symmetry
