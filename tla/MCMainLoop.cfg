SPECIFICATION Spec
CONSTANT MaxQueue = 3
INVARIANT ClearedMeansStopping
PROPERTY EventsHandled
PROPERTY ExitCompletes
