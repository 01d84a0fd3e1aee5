------------------------------ MODULE DeviceTypes ------------------------------
(***************************************************************************)
(* The device types a bridged endpoint may be given: the clusters of each, *)
(* and what a mandatory cluster must have for the type to be conformed to  *)
(* in strict mode.                                                         *)
(***************************************************************************)
EXTENDS Naturals

Needs(commands, attributes) == [commands |-> commands, attributes |-> attributes]
Nothing == Needs({}, {})

(* mandatory: what each mandatory cluster needs; optional: the other clusters. *)
Type(mandatory, optional) == [mandatory |-> mandatory, optional |-> optional]

RequiredIdentifyCommands ==
  {"Identify"}
RequiredIdentifyAttributes ==
  {"IdentifyTime", "IdentifyType"}
RequiredGroupsCommands ==
  {"AddGroup", "ViewGroup", "GetGroupMembership", "RemoveGroup", "RemoveAllGroups",
   "AddGroupIfIdentifying"}
RequiredGroupsAttributes ==
  {"NameSupport"}
RequiredOnOffCommands ==
  {"Off", "On", "Toggle", "OffWithEffect", "OnWithRecallGlobalScene", "OnWithTimedOff"}
RequiredOnOffAttributes ==
  {"OnOff", "GlobalSceneControl", "OnTime", "OffWaitTime", "StartUpOnOff"}
RequiredLevelCommands ==
  {"MoveToLevel", "Move", "Step", "Stop", "MoveToLevelWithOnOff", "MoveWithOnOff", "StepWithOnOff",
   "StopWithOnOff"}
RequiredLevelAttributes ==
  {"CurrentLevel", "Options", "RemainingTime", "MinLevel", "OnLevel", "StartUpCurrentLevel"}
RequiredIlluminanceMeasurementAttributes ==
  {"MeasuredValue", "MinMeasuredValue", "MaxMeasuredValue"}
RequiredOccupancySensingAttributes ==
  {"Occupancy", "OccupancySensorType"}
RequiredColorCommands ==
  {"MoveToColor", "MoveColor", "StepColor", "MoveToColorTemperature", "StopMoveStep",
   "MoveColorTemperature", "StepColorTemperature"}
RequiredColorAttributes ==
  {"RemainingTime", "CurrentX", "CurrentY", "ColorTemperatureMireds", "ColorMode", "Options",
   "NumberOfPrimaries", "EnhancedColorMode", "ColorCapabilities", "ColorTempPhysicalMinMireds",
   "ColorTempPhysicalMaxMireds", "CoupleColorTempToLevelMinMireds",
   "StartUpColorTemperatureMireds"}

doorlock ==
  Type([DoorLock |-> Nothing,
        Identify |-> Needs(RequiredIdentifyCommands, RequiredIdentifyAttributes)],
       {"TimeSynchronization"})

onofflight ==
  Type([Groups |-> Needs(RequiredGroupsCommands, RequiredGroupsAttributes),
        Identify |-> Needs(RequiredIdentifyCommands, RequiredIdentifyAttributes),
        OnOff |-> Needs(RequiredOnOffCommands, RequiredOnOffAttributes)],
       {"LevelControl", "OccupancySensing"})

dimmablelight ==
  Type([Groups |-> Needs(RequiredGroupsCommands, RequiredGroupsAttributes),
        Identify |-> Needs(RequiredIdentifyCommands, RequiredIdentifyAttributes),
        LevelControl |-> Needs(RequiredLevelCommands, RequiredLevelAttributes),
        OnOff |-> Needs(RequiredOnOffCommands, RequiredOnOffAttributes)],
       {"Binding", "OccupancySensing"})

onofflightswitch ==
  Type([Binding |-> Nothing,
        Identify |-> Needs(RequiredIdentifyCommands, RequiredIdentifyAttributes),
        OnOff |-> Nothing],
       {"Groups"})

lightsensor ==
  Type([Identify |-> Needs(RequiredIdentifyCommands, RequiredIdentifyAttributes),
        IlluminanceMeasurement |-> Needs({}, RequiredIlluminanceMeasurementAttributes)],
       {"Binding", "Groups"})

occupancysensor ==
  Type([Identify |-> Needs(RequiredIdentifyCommands, RequiredIdentifyAttributes),
        OccupancySensing |-> Needs({}, RequiredOccupancySensingAttributes)],
       {"Binding", "Groups"})

onoffpluginunit ==
  Type([Groups |-> Needs(RequiredGroupsCommands, RequiredGroupsAttributes),
        Identify |-> Needs(RequiredIdentifyCommands, RequiredIdentifyAttributes),
        OnOff |-> Needs(RequiredOnOffCommands, RequiredOnOffAttributes)],
       {"LevelControl"})

dimmablepluginunit ==
  Type([Groups |-> Needs(RequiredGroupsCommands, RequiredGroupsAttributes),
        Identify |-> Needs(RequiredIdentifyCommands, RequiredIdentifyAttributes),
        LevelControl |-> Needs(RequiredLevelCommands, RequiredLevelAttributes),
        OnOff |-> Needs(RequiredOnOffCommands, RequiredOnOffAttributes)],
       {})

extendedcolorlight ==
  Type([ColorControl |-> Needs(RequiredColorCommands, RequiredColorAttributes),
        Groups |-> Needs(RequiredGroupsCommands, RequiredGroupsAttributes),
        Identify |-> Needs(RequiredIdentifyCommands, RequiredIdentifyAttributes),
        LevelControl |-> Needs(RequiredLevelCommands, RequiredLevelAttributes),
        OnOff |-> Needs(RequiredOnOffCommands, RequiredOnOffAttributes)],
       {})

windowcovering ==
  Type([Identify |-> Needs(RequiredIdentifyCommands, RequiredIdentifyAttributes),
        WindowCovering |-> Nothing],
       {"Groups"})

thermostat ==
  Type([Identify |-> Needs(RequiredIdentifyCommands, RequiredIdentifyAttributes),
        Thermostat |-> Nothing],
       {"Binding", "FanControl", "Groups", "OccupancySensing", "RelativeHumidityMeasurement",
        "TemperatureMeasurement", "ThermostatUserInterfaceConfiguration", "TimeSynchronization"})

pressuresensor ==
  Type([Identify |-> Needs(RequiredIdentifyCommands, RequiredIdentifyAttributes),
        PressureMeasurement |-> Nothing],
       {})

flowsensor ==
  Type([FlowMeasurement |-> Nothing,
        Identify |-> Needs(RequiredIdentifyCommands, RequiredIdentifyAttributes)],
       {})

(* The types by their Matter id.                                               *)
DeviceTypes ==
  [t \in {10, 256, 257, 259, 262, 263, 266, 267, 269, 514, 769, 773, 774} |->
     CASE t = 10 -> doorlock
       [] t = 256 -> onofflight
       [] t = 257 -> dimmablelight
       [] t = 259 -> onofflightswitch
       [] t = 262 -> lightsensor
       [] t = 263 -> occupancysensor
       [] t = 266 -> onoffpluginunit
       [] t = 267 -> dimmablepluginunit
       [] t = 269 -> extendedcolorlight
       [] t = 514 -> windowcovering
       [] t = 769 -> thermostat
       [] t = 773 -> pressuresensor
       [] t = 774 -> flowsensor]
================================================================================
