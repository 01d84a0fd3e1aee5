SPECIFICATION Spec
CONSTANTS
  Unid <- MCUnid
  UnifyEp <- MCUnifyEp
  FixedEndpointCount = 2
  MaxEndpointCount = 4
  PutOutcomes = {TRUE}
  NodeStates = {TRUE}
INVARIANT ContextOutlivesSlot
