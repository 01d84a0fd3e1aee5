SPECIFICATION SpecOneRun
CONSTANTS
  Unid <- MCUnid
  UnifyEp <- MCUnifyEp
  FixedEndpointCount = 2
  MaxEndpointCount = 5
  PutOutcomes = {TRUE}
  NodeStates = {TRUE, FALSE}
INVARIANT TypeOK
INVARIANT UniqueMatterEndpoint
INVARIANT BridgedIsRegistered
INVARIANT ReachableServed
INVARIANT NothingLeftBehind
PROPERTY ImplementsDirectory
