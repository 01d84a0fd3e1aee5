----------------------------- MODULE CommandTables -----------------------------
(***************************************************************************)
(* The generated tables of commands.                                       *)
(*                                                                         *)
(* <Cluster>Invoked: the Matter commands the cluster's InvokeCommand has a *)
(* case for, which publishes the Unify command UnifyCommand names; every   *)
(* other command of the cluster is answered UnsupportedCommand.            *)
(* CommandNames: the Unify commands that are mapped to Matter ones when an *)
(* endpoint is built, MatterCommand the Matter command they are mapped to. *)
(***************************************************************************)

IdentifyInvoked == {"Identify", "TriggerEffect"}
GroupsInvoked == {"AddGroup", "ViewGroup", "GetGroupMembership", "RemoveGroup",
                  "RemoveAllGroups", "AddGroupIfIdentifying"}
OnOffInvoked == {"Off", "On", "Toggle", "OffWithEffect", "OnWithRecallGlobalScene",
                 "OnWithTimedOff"}
LevelControlInvoked1 == {"MoveToLevel", "Move", "Step", "Stop"}
LevelControlInvoked2 == {"MoveToLevelWithOnOff", "MoveWithOnOff", "StepWithOnOff",
                         "StopWithOnOff", "MoveToClosestFrequency"}
DoorLockInvoked1 == {"LockDoor", "UnlockDoor", "UnlockWithTimeout", "SetWeekDaySchedule",
                     "GetWeekDaySchedule"}
DoorLockInvoked2 == {"ClearWeekDaySchedule", "SetYearDaySchedule", "GetYearDaySchedule",
                     "ClearYearDaySchedule", "SetHolidaySchedule", "GetHolidaySchedule",
                     "ClearHolidaySchedule"}
DoorLockInvoked3 == {"SetUser", "GetUser", "ClearUser", "SetCredential", "GetCredentialStatus",
                     "ClearCredential"}
DoorLockInvoked4 == {"UnboltDoor"}
WindowCoveringInvoked == {"UpOrOpen", "DownOrClose", "StopMotion", "GoToLiftValue",
                          "GoToLiftPercentage", "GoToTiltValue", "GoToTiltPercentage"}
ThermostatInvoked == {"SetpointRaiseLower", "SetWeeklySchedule", "GetWeeklySchedule",
                      "ClearWeeklySchedule"}
ColorControlInvoked1 == {"MoveToHue", "MoveHue", "StepHue", "MoveToSaturation"}
ColorControlInvoked2 == {"MoveSaturation", "StepSaturation", "MoveToHueAndSaturation",
                         "MoveToColor", "MoveColor"}
ColorControlInvoked3 == {"StepColor", "MoveToColorTemperature", "EnhancedMoveToHue",
                         "EnhancedMoveHue", "EnhancedStepHue"}
ColorControlInvoked4 == {"EnhancedMoveToHueAndSaturation", "ColorLoopSet", "StopMoveStep",
                         "MoveColorTemperature"}
ColorControlInvoked5 == {"StepColorTemperature"}
IlluminanceMeasurementInvoked == {}
TemperatureMeasurementInvoked == {}
PressureMeasurementInvoked == {}
FlowMeasurementInvoked == {}
RelativeHumidityMeasurementInvoked == {}
OccupancySensingInvoked == {}

Invoked ==
  [ Identify |-> IdentifyInvoked,
    Groups |-> GroupsInvoked,
    OnOff |-> OnOffInvoked,
    LevelControl |-> LevelControlInvoked1 \cup LevelControlInvoked2,
    DoorLock |->
      DoorLockInvoked1 \cup
      DoorLockInvoked2 \cup
      DoorLockInvoked3 \cup
      DoorLockInvoked4,
    WindowCovering |-> WindowCoveringInvoked,
    Thermostat |-> ThermostatInvoked,
    ColorControl |->
      ColorControlInvoked1 \cup
      ColorControlInvoked2 \cup
      ColorControlInvoked3 \cup
      ColorControlInvoked4 \cup
      ColorControlInvoked5,
    IlluminanceMeasurement |-> IlluminanceMeasurementInvoked,
    TemperatureMeasurement |-> TemperatureMeasurementInvoked,
    PressureMeasurement |-> PressureMeasurementInvoked,
    FlowMeasurement |-> FlowMeasurementInvoked,
    RelativeHumidityMeasurement |-> RelativeHumidityMeasurementInvoked,
    OccupancySensing |-> OccupancySensingInvoked ]

(* The name under which InvokeCommand publishes a command.                     *)
UnifyCommand(c, m) ==
  CASE m = "SetWeekDaySchedule" -> "SetWeekdaySchedule"
    [] m = "GetWeekDaySchedule" -> "GetWeekdaySchedule"
    [] m = "ClearWeekDaySchedule" -> "ClearWeekdaySchedule"
    [] m = "StopMotion" -> "Stop"
    [] m = "SetpointRaiseLower" -> "SetpointRaiseOrLower"
    [] OTHER -> m

-----------------------------------------------------------------------------

CommandNames ==
  [ Identify |-> {"Identify", "IdentifyQueryResponse", "TriggerEffect"},
    Groups |-> {"AddGroup", "AddGroupResponse", "ViewGroup", "ViewGroupResponse",
                "GetGroupMembership", "GetGroupMembershipResponse", "RemoveGroup",
                "RemoveGroupResponse", "RemoveAllGroups", "AddGroupIfIdentifying"},
    OnOff |-> {"Off", "On", "Toggle", "OffWithEffect", "OnWithRecallGlobalScene",
               "OnWithTimedOff"},
    LevelControl |-> {"MoveToLevel", "Move", "Step", "Stop", "MoveToLevelWithOnOff",
                      "MoveWithOnOff", "StepWithOnOff", "StopWithOnOff",
                      "MoveToClosestFrequency"},
    DoorLock |-> {"LockDoor", "LockDoorResponse", "UnlockDoor", "UnlockDoorResponse"},
    WindowCovering |-> {"UpOrOpen", "DownOrClose", "Stop"},
    Thermostat |-> {"SetpointRaiseOrLower", "GetWeeklyScheduleResponse"},
    ColorControl |-> {"MoveToHue", "MoveHue", "StepHue", "MoveToSaturation", "MoveSaturation",
                      "StepSaturation", "MoveToHueAndSaturation", "MoveToColor", "MoveColor",
                      "StepColor", "MoveToColorTemperature", "EnhancedMoveToHue",
                      "EnhancedMoveHue", "EnhancedStepHue", "EnhancedMoveToHueAndSaturation",
                      "ColorLoopSet", "StopMoveStep", "MoveColorTemperature",
                      "StepColorTemperature"},
    IlluminanceMeasurement |-> {},
    TemperatureMeasurement |-> {},
    PressureMeasurement |-> {},
    FlowMeasurement |-> {},
    RelativeHumidityMeasurement |-> {},
    OccupancySensing |-> {} ]

MatterCommand(c, u) ==
  CASE <<c, u>> = <<"Identify", "IdentifyQueryResponse">> -> "Identify"
    [] <<c, u>> = <<"Groups", "AddGroup">> -> "AddGroupResponse"
    [] <<c, u>> = <<"Groups", "ViewGroup">> -> "ViewGroupResponse"
    [] <<c, u>> = <<"Groups", "GetGroupMembership">> -> "GetGroupMembershipResponse"
    [] <<c, u>> = <<"Groups", "RemoveGroup">> -> "RemoveGroupResponse"
    [] <<c, u>> = <<"DoorLock", "LockDoorResponse">> -> "LockDoor"
    [] <<c, u>> = <<"DoorLock", "UnlockDoorResponse">> -> "UnlockDoor"
    [] <<c, u>> = <<"WindowCovering", "Stop">> -> "StopMotion"
    [] <<c, u>> = <<"Thermostat", "SetpointRaiseOrLower">> -> "SetpointRaiseLower"
    [] <<c, u>> = <<"Thermostat", "GetWeeklyScheduleResponse">> -> "SetpointRaiseLower"
    [] OTHER -> u
=============================================================================
