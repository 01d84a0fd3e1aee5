SPECIFICATION Spec
CONSTANTS
  Fabric = {f1}
  Group = {g1, g2}
  Endpoint = {e1, e2}
  MaxUnifyGroup = 2
  PutOutcomes = {TRUE, FALSE}
  StackOutcomes = {TRUE, FALSE}
  MaxQueue = 1
PROPERTY FreshUnifyGroup
INVARIANT TypeOK
SYMMETRY Symmetry
