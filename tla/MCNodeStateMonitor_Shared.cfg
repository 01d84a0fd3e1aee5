SPECIFICATION Spec
CONSTANTS
  Unid <- MCUnid
  UnifyEp <- MCUnifyEp
  FixedEndpointCount = 2
  MaxEndpointCount = 5
  PutOutcomes = {TRUE}
  NodeStates = {TRUE, FALSE}
INVARIANT UniqueMatterEndpoint
