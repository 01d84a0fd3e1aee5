SPECIFICATION Spec
CONSTANT MaxQueue = 3
INVARIANT ScheduleWorkAlone
