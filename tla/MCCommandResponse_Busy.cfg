SPECIFICATION SpecTimely
CONSTANTS
  Endpoint = {e1}
  Cmd = {lock}
  Request = {r1, r2}
  HandlerTimeout = 2
PROPERTY BusyMeansProcessing
