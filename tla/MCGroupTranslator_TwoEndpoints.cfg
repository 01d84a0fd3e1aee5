SPECIFICATION SpecUpToDate
CONSTANTS
  Fabric = {f1}
  Group = {g1}
  Endpoint = {e1, e2}
  MaxUnifyGroup = 5
  PutOutcomes = {TRUE}
  StackOutcomes = {TRUE}
  MaxQueue = 2
INVARIANT MembersAreMapped
