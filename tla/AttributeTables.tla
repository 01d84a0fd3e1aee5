---------------------------- MODULE AttributeTables ----------------------------
(***************************************************************************)
(* The tables of the generated attribute translators: which attributes of  *)
(* a cluster a controller can read, with the type the cached value is      *)
(* taken as; which it can write; and which reports from Unify reach the    *)
(* cache.  One definition stands for one handler of a cluster's            *)
(* AttributeAccess class, or for a run of the cases of a long one.         *)
(*                                                                         *)
(* A read table maps a type to the attributes read with it.  Every other   *)
(* attribute of a cluster has no case: a read gives no value, a write is   *)
(* answered NO_MESSAGE_HANDLER, a report is dropped.                       *)
(***************************************************************************)
EXTENDS Naturals, Sequences


(* Identify *)

IdentifyRead ==
  [ int16u |-> {"IdentifyTime", "ClusterRevision"},
    IdentifyTypeEnum |-> {"IdentifyType"},
    bitmap32 |-> {"FeatureMap"} ]

IdentifyWrite == {"IdentifyTime"}

IdentifyReported == {"IdentifyTime"}


(* Groups *)

GroupsRead ==
  [ NameSupportBitmap |-> {"NameSupport"},
    bitmap32 |-> {"FeatureMap"},
    int16u |-> {"ClusterRevision"} ]

GroupsReported == {"NameSupport"}


(* OnOff *)

OnOffRead ==
  [ boolean |-> {"OnOff", "GlobalSceneControl"},
    int16u |-> {"OnTime", "OffWaitTime", "ClusterRevision"},
    StartUpOnOffEnum |-> {"StartUpOnOff"},
    bitmap32 |-> {"FeatureMap"} ]

OnOffWrite == {"OnTime", "OffWaitTime", "StartUpOnOff"}

OnOffReported == {"OnOff", "GlobalSceneControl", "OnTime", "OffWaitTime",
                  "StartUpOnOff"}


(* LevelControl *)

LevelControlRead ==
  [ int8u |-> {"CurrentLevel", "MinLevel", "MaxLevel", "OnLevel",
               "DefaultMoveRate", "StartUpCurrentLevel"},
    int16u |-> {"RemainingTime", "CurrentFrequency", "MinFrequency",
                "MaxFrequency", "OnOffTransitionTime", "OnTransitionTime",
                "OffTransitionTime", "ClusterRevision"},
    OptionsBitmap |-> {"Options"},
    bitmap32 |-> {"FeatureMap"} ]

LevelControlWrite == {"Options", "OnOffTransitionTime", "OnLevel",
                      "OnTransitionTime", "OffTransitionTime",
                      "DefaultMoveRate", "StartUpCurrentLevel"}

LevelRangeReported == {"CurrentLevel", "RemainingTime", "MinLevel", "MaxLevel",
                       "CurrentFrequency", "MinFrequency", "MaxFrequency",
                       "Options", "OnOffTransitionTime"}

LevelOptionsReported == {"OnLevel", "OnTransitionTime", "OffTransitionTime",
                         "DefaultMoveRate", "StartUpCurrentLevel"}


(* DoorLock *)

LockCapacityRead ==
  [ DlLockState |-> {"LockState"},
    DlLockType |-> {"LockType"},
    boolean |-> {"ActuatorEnabled"},
    DoorStateEnum |-> {"DoorState"},
    int32u |-> {"DoorOpenEvents", "DoorClosedEvents"},
    int16u |-> {"OpenPeriod", "NumberOfTotalUsersSupported",
                "NumberOfPINUsersSupported", "NumberOfRFIDUsersSupported"},
    int8u |-> {"NumberOfWeekDaySchedulesSupportedPerUser",
               "NumberOfYearDaySchedulesSupportedPerUser",
               "NumberOfHolidaySchedulesSupported", "MaxPINCodeLength",
               "MinPINCodeLength", "MaxRFIDCodeLength", "MinRFIDCodeLength"},
    DlCredentialRuleMask |-> {"CredentialRulesSupport"} ]

LockSettingsRead ==
  [ int8u |-> {"NumberOfCredentialsSupportedPerUser", "LEDSettings",
               "SoundVolume", "WrongCodeEntryLimit",
               "UserCodeTemporaryDisableTime"},
    char_string |-> {"Language"},
    int32u |-> {"AutoRelockTime"},
    OperatingModeEnum |-> {"OperatingMode"},
    DlSupportedOperatingModes |-> {"SupportedOperatingModes"},
    DlDefaultConfigurationRegister |-> {"DefaultConfigurationRegister"},
    boolean |-> {"EnableLocalProgramming", "EnableOneTouchLocking",
                 "EnableInsideStatusLED", "EnablePrivacyModeButton",
                 "SendPINOverTheAir", "RequirePINforRemoteOperation"},
    DlLocalProgrammingFeatures |-> {"LocalProgrammingFeatures"},
    int16u |-> {"ExpiringUserTimeout"},
    octet_string |-> {"AliroReaderVerificationKey",
                      "AliroReaderGroupIdentifier",
                      "AliroReaderGroupSubIdentifier"} ]

LockAliroRead ==
  [ octet_string |-> {"AliroGroupResolvingKey"},
    int8u |-> {"AliroBLEAdvertisingVersion"},
    int16u |-> {"NumberOfAliroCredentialIssuerKeysSupported",
                "NumberOfAliroEndpointKeysSupported", "ClusterRevision"},
    bitmap32 |-> {"FeatureMap"} ]

LockSettingsWrite == {"DoorOpenEvents", "DoorClosedEvents", "OpenPeriod",
                      "Language", "LEDSettings", "AutoRelockTime",
                      "SoundVolume", "OperatingMode", "EnableLocalProgramming",
                      "EnableOneTouchLocking", "EnableInsideStatusLED",
                      "EnablePrivacyModeButton", "LocalProgrammingFeatures",
                      "WrongCodeEntryLimit", "UserCodeTemporaryDisableTime"}

LockProgrammingWrite == {"SendPINOverTheAir", "RequirePINforRemoteOperation",
                         "ExpiringUserTimeout"}

LockStateReported == {"LockState", "LockType", "ActuatorEnabled", "DoorState",
                      "DoorOpenEvents", "DoorClosedEvents", "OpenPeriod",
                      "NumberOfTotalUsersSupported",
                      "NumberOfPINUsersSupported", "NumberOfRFIDUsersSupported"}

LockCapacityReported == {"NumberOfWeekDaySchedulesSupportedPerUser",
                         "NumberOfYearDaySchedulesSupportedPerUser",
                         "NumberOfHolidaySchedulesSupported",
                         "MaxPINCodeLength", "MinPINCodeLength",
                         "MaxRFIDCodeLength", "MinRFIDCodeLength",
                         "CredentialRulesSupport",
                         "NumberOfCredentialsSupportedPerUser", "Language",
                         "LEDSettings", "AutoRelockTime"}

LockSettingsReported == {"SoundVolume", "OperatingMode",
                         "SupportedOperatingModes",
                         "DefaultConfigurationRegister",
                         "EnableLocalProgramming", "EnableOneTouchLocking",
                         "EnableInsideStatusLED", "EnablePrivacyModeButton",
                         "LocalProgrammingFeatures", "WrongCodeEntryLimit",
                         "UserCodeTemporaryDisableTime", "SendPINOverTheAir"}

LockAccessReported == {"RequirePINforRemoteOperation", "ExpiringUserTimeout",
                       "FeatureMap"}


(* WindowCovering *)

CoverPositionRead ==
  [ Type |-> {"Type"},
    int16u |-> {"PhysicalClosedLimitLift", "PhysicalClosedLimitTilt",
                "CurrentPositionLift", "CurrentPositionTilt",
                "NumberOfActuationsLift", "NumberOfActuationsTilt",
                "InstalledOpenLimitLift", "InstalledClosedLimitLift"},
    ConfigStatus |-> {"ConfigStatus"},
    percent |-> {"CurrentPositionLiftPercentage",
                 "CurrentPositionTiltPercentage"},
    OperationalStatus |-> {"OperationalStatus"},
    percent100ths |-> {"TargetPositionLiftPercent100ths",
                       "TargetPositionTiltPercent100ths",
                       "CurrentPositionLiftPercent100ths",
                       "CurrentPositionTiltPercent100ths"},
    EndProductType |-> {"EndProductType"} ]

CoverLimitsRead ==
  [ int16u |-> {"InstalledOpenLimitTilt", "InstalledClosedLimitTilt",
                "ClusterRevision"},
    Mode |-> {"Mode"},
    SafetyStatus |-> {"SafetyStatus"},
    bitmap32 |-> {"FeatureMap"} ]

WindowCoveringWrite == {"Mode"}

CoverPositionReported == {"Type", "PhysicalClosedLimitLift",
                          "PhysicalClosedLimitTilt", "CurrentPositionLift",
                          "CurrentPositionTilt", "NumberOfActuationsLift",
                          "NumberOfActuationsTilt", "ConfigStatus",
                          "CurrentPositionLiftPercentage"}

CoverLimitsReported == {"CurrentPositionTiltPercentage",
                        "InstalledOpenLimitLift", "InstalledClosedLimitLift",
                        "Mode"}


(* Thermostat *)

SetpointRead ==
  [ temperature |-> {"LocalTemperature", "OutdoorTemperature",
                     "AbsMinHeatSetpointLimit", "AbsMaxHeatSetpointLimit",
                     "AbsMinCoolSetpointLimit", "AbsMaxCoolSetpointLimit",
                     "OccupiedCoolingSetpoint", "OccupiedHeatingSetpoint",
                     "UnoccupiedCoolingSetpoint", "UnoccupiedHeatingSetpoint",
                     "MinHeatSetpointLimit", "MaxHeatSetpointLimit",
                     "MinCoolSetpointLimit"},
    OccupancyBitmap |-> {"Occupancy"},
    int8u |-> {"PICoolingDemand", "PIHeatingDemand"},
    HVACSystemTypeBitmap |-> {"HVACSystemTypeConfiguration"},
    int8s |-> {"LocalTemperatureCalibration"} ]

ScheduleRead ==
  [ temperature |-> {"MaxCoolSetpointLimit"},
    int8s |-> {"MinSetpointDeadBand"},
    RemoteSensingBitmap |-> {"RemoteSensing"},
    ControlSequenceOfOperationEnum |-> {"ControlSequenceOfOperation"},
    SystemModeEnum |-> {"SystemMode"},
    ThermostatRunningModeEnum |-> {"ThermostatRunningMode"},
    StartOfWeekEnum |-> {"StartOfWeek"},
    int8u |-> {"NumberOfWeeklyTransitions", "NumberOfDailyTransitions",
               "OccupiedSetback", "OccupiedSetbackMin", "OccupiedSetbackMax",
               "UnoccupiedSetback", "UnoccupiedSetbackMin"},
    TemperatureSetpointHoldEnum |-> {"TemperatureSetpointHold"},
    int16u |-> {"TemperatureSetpointHoldDuration"},
    ProgrammingOperationModeBitmap |-> {"ThermostatProgrammingOperationMode"},
    RelayStateBitmap |-> {"ThermostatRunningState"},
    SetpointChangeSourceEnum |-> {"SetpointChangeSource"},
    int16s |-> {"SetpointChangeAmount"},
    epoch_s |-> {"SetpointChangeSourceTimestamp"} ]

AirConditioningRead ==
  [ int8u |-> {"UnoccupiedSetbackMax", "EmergencyHeatDelta", "NumberOfPresets",
               "NumberOfSchedules", "NumberOfScheduleTransitions",
               "NumberOfScheduleTransitionPerDay"},
    ACTypeEnum |-> {"ACType"},
    int16u |-> {"ACCapacity", "ClusterRevision"},
    ACRefrigerantTypeEnum |-> {"ACRefrigerantType"},
    ACCompressorTypeEnum |-> {"ACCompressorType"},
    ACErrorCodeBitmap |-> {"ACErrorCode"},
    ACLouverPositionEnum |-> {"ACLouverPosition"},
    temperature |-> {"ACCoilTemperature"},
    ACCapacityFormatEnum |-> {"ACCapacityformat"},
    octet_string |-> {"ActivePresetHandle", "ActiveScheduleHandle"},
    epoch_s |-> {"SetpointHoldExpiryTimestamp"},
    bitmap32 |-> {"FeatureMap"} ]

SetpointWrite == {"HVACSystemTypeConfiguration", "LocalTemperatureCalibration",
                  "OccupiedCoolingSetpoint", "OccupiedHeatingSetpoint",
                  "UnoccupiedCoolingSetpoint", "UnoccupiedHeatingSetpoint",
                  "MinHeatSetpointLimit", "MaxHeatSetpointLimit",
                  "MinCoolSetpointLimit", "MaxCoolSetpointLimit",
                  "MinSetpointDeadBand", "RemoteSensing",
                  "ControlSequenceOfOperation", "SystemMode",
                  "TemperatureSetpointHold", "TemperatureSetpointHoldDuration"}

AirConditioningWrite == {"ThermostatProgrammingOperationMode",
                         "OccupiedSetback", "UnoccupiedSetback",
                         "EmergencyHeatDelta", "ACType", "ACCapacity",
                         "ACRefrigerantType", "ACCompressorType",
                         "ACErrorCode", "ACLouverPosition", "ACCapacityformat"}

TemperatureReported == {"LocalTemperature", "OutdoorTemperature", "Occupancy",
                        "AbsMinHeatSetpointLimit", "AbsMaxHeatSetpointLimit",
                        "AbsMinCoolSetpointLimit", "AbsMaxCoolSetpointLimit",
                        "PICoolingDemand", "PIHeatingDemand",
                        "HVACSystemTypeConfiguration"}

SetpointReported == {"LocalTemperatureCalibration", "OccupiedCoolingSetpoint",
                     "OccupiedHeatingSetpoint", "UnoccupiedCoolingSetpoint",
                     "UnoccupiedHeatingSetpoint", "MinHeatSetpointLimit",
                     "MaxHeatSetpointLimit", "MinCoolSetpointLimit",
                     "MaxCoolSetpointLimit", "MinSetpointDeadBand",
                     "RemoteSensing", "ControlSequenceOfOperation"}

ScheduleReported == {"SystemMode", "ThermostatRunningMode", "StartOfWeek",
                     "NumberOfWeeklyTransitions", "NumberOfDailyTransitions",
                     "TemperatureSetpointHold",
                     "TemperatureSetpointHoldDuration",
                     "ThermostatProgrammingOperationMode",
                     "ThermostatRunningState", "SetpointChangeSource",
                     "SetpointChangeAmount", "SetpointChangeSourceTimestamp"}

SetbackReported == {"OccupiedSetback", "OccupiedSetbackMin",
                    "OccupiedSetbackMax", "UnoccupiedSetback",
                    "UnoccupiedSetbackMin", "UnoccupiedSetbackMax",
                    "EmergencyHeatDelta", "ACType", "ACCapacity",
                    "ACRefrigerantType", "ACCompressorType", "ACErrorCode"}

AirConditioningReported == {"ACLouverPosition", "ACCoilTemperature",
                            "ACCapacityformat"}


(* ColorControl *)

PrimaryColorRead ==
  [ int8u |-> {"CurrentHue", "CurrentSaturation", "NumberOfPrimaries",
               "Primary1Intensity", "Primary2Intensity"},
    int16u |-> {"RemainingTime", "CurrentX", "CurrentY",
                "ColorTemperatureMireds", "Primary1X", "Primary1Y",
                "Primary2X", "Primary2Y", "Primary3X"},
    DriftCompensationEnum |-> {"DriftCompensation"},
    char_string |-> {"CompensationText"},
    ColorModeEnum |-> {"ColorMode"},
    OptionsBitmap |-> {"Options"} ]

ColorPointRead ==
  [ int16u |-> {"Primary3Y", "Primary4X", "Primary4Y", "Primary5X",
                "Primary5Y", "Primary6X", "Primary6Y", "WhitePointX",
                "WhitePointY", "ColorPointRX", "ColorPointRY", "ColorPointGX",
                "ColorPointGY", "ColorPointBX", "ColorPointBY"},
    int8u |-> {"Primary3Intensity", "Primary4Intensity", "Primary5Intensity",
               "Primary6Intensity", "ColorPointRIntensity",
               "ColorPointGIntensity"} ]

ColorLoopRead ==
  [ int8u |-> {"ColorPointBIntensity", "ColorLoopActive", "ColorLoopDirection"},
    int16u |-> {"EnhancedCurrentHue", "ColorLoopTime",
                "ColorLoopStartEnhancedHue", "ColorLoopStoredEnhancedHue",
                "ColorTempPhysicalMinMireds", "ColorTempPhysicalMaxMireds",
                "CoupleColorTempToLevelMinMireds",
                "StartUpColorTemperatureMireds", "ClusterRevision"},
    EnhancedColorModeEnum |-> {"EnhancedColorMode"},
    ColorCapabilitiesBitmap |-> {"ColorCapabilities"},
    bitmap32 |-> {"FeatureMap"} ]

ColorPointWrite == {"Options", "WhitePointX", "WhitePointY", "ColorPointRX",
                    "ColorPointRY", "ColorPointRIntensity", "ColorPointGX",
                    "ColorPointGY", "ColorPointGIntensity", "ColorPointBX",
                    "ColorPointBY", "ColorPointBIntensity"}

ColorStartUpWrite == {"StartUpColorTemperatureMireds"}

CurrentColorReported == {"CurrentHue", "CurrentSaturation", "RemainingTime",
                         "CurrentX", "CurrentY", "DriftCompensation",
                         "CompensationText", "ColorTemperatureMireds",
                         "ColorMode", "Options"}

PrimaryColorReported == {"NumberOfPrimaries", "Primary1X", "Primary1Y",
                         "Primary1Intensity", "Primary2X", "Primary2Y",
                         "Primary2Intensity", "Primary3X", "Primary3Y",
                         "Primary3Intensity", "Primary4X", "Primary4Y"}

ColorPointReported == {"Primary4Intensity", "Primary5X", "Primary5Y",
                       "Primary5Intensity", "Primary6X", "Primary6Y",
                       "Primary6Intensity", "WhitePointX", "WhitePointY",
                       "ColorPointRX", "ColorPointRY", "ColorPointRIntensity"}

ColorLoopReported == {"ColorPointGX", "ColorPointGY", "ColorPointGIntensity",
                      "ColorPointBX", "ColorPointBY", "ColorPointBIntensity",
                      "EnhancedCurrentHue", "EnhancedColorMode",
                      "ColorLoopActive", "ColorLoopDirection", "ColorLoopTime",
                      "ColorLoopStartEnhancedHue"}

ColorStartUpReported == {"ColorLoopStoredEnhancedHue", "ColorCapabilities",
                         "ColorTempPhysicalMinMireds",
                         "ColorTempPhysicalMaxMireds",
                         "CoupleColorTempToLevelMinMireds",
                         "StartUpColorTemperatureMireds"}


(* IlluminanceMeasurement *)

IlluminanceMeasurementRead ==
  [ int16u |-> {"MeasuredValue", "MinMeasuredValue", "MaxMeasuredValue",
                "Tolerance", "ClusterRevision"},
    LightSensorTypeEnum |-> {"LightSensorType"},
    bitmap32 |-> {"FeatureMap"} ]

IlluminanceMeasurementReported ==
  {"MeasuredValue", "MinMeasuredValue", "MaxMeasuredValue", "Tolerance",
   "LightSensorType"}


(* TemperatureMeasurement *)

TemperatureMeasurementRead ==
  [ temperature |-> {"MeasuredValue", "MinMeasuredValue", "MaxMeasuredValue"},
    int16u |-> {"Tolerance", "ClusterRevision"},
    bitmap32 |-> {"FeatureMap"} ]

TemperatureMeasurementReported ==
  {"MeasuredValue", "MinMeasuredValue", "MaxMeasuredValue", "Tolerance"}


(* PressureMeasurement *)

PressureMeasurementRead ==
  [ int16s |-> {"MeasuredValue", "MinMeasuredValue", "MaxMeasuredValue",
                "ScaledValue", "MinScaledValue", "MaxScaledValue"},
    int16u |-> {"Tolerance", "ScaledTolerance", "ClusterRevision"},
    int8s |-> {"Scale"},
    bitmap32 |-> {"FeatureMap"} ]

PressureMeasurementReported ==
  {"MeasuredValue", "MinMeasuredValue", "MaxMeasuredValue", "Tolerance",
   "ScaledValue", "MinScaledValue", "MaxScaledValue", "ScaledTolerance",
   "Scale"}


(* FlowMeasurement *)

(* Fault: no case for one of the attributes.                                  *)
FlowMeasurementReadShort ==
  [ int16u |-> {"MeasuredValue", "MinMeasuredValue", "MaxMeasuredValue", "ClusterRevision"},
    bitmap32 |-> {"FeatureMap"} ]

FlowMeasurementRead ==
  [ int16u |-> {"MeasuredValue", "MinMeasuredValue", "MaxMeasuredValue",
                "Tolerance", "ClusterRevision"},
    bitmap32 |-> {"FeatureMap"} ]

(* Fault: no case for one of the attributes.                                  *)
FlowMeasurementReportedShort == {"MeasuredValue", "MinMeasuredValue", "MaxMeasuredValue"}

FlowMeasurementReported ==
  {"MeasuredValue", "MinMeasuredValue", "MaxMeasuredValue", "Tolerance"}


(* RelativeHumidityMeasurement *)

RelativeHumidityMeasurementRead ==
  [ int16u |-> {"MeasuredValue", "MinMeasuredValue", "MaxMeasuredValue",
                "Tolerance", "ClusterRevision"},
    bitmap32 |-> {"FeatureMap"} ]

RelativeHumidityMeasurementReported ==
  {"MeasuredValue", "MinMeasuredValue", "MaxMeasuredValue", "Tolerance"}


(* OccupancySensing *)

OccupancySensingRead ==
  [ OccupancyBitmap |-> {"Occupancy"},
    OccupancySensorTypeEnum |-> {"OccupancySensorType"},
    OccupancySensorTypeBitmap |-> {"OccupancySensorTypeBitmap"},
    int16u |-> {"HoldTime", "PIROccupiedToUnoccupiedDelay",
                "PIRUnoccupiedToOccupiedDelay",
                "UltrasonicOccupiedToUnoccupiedDelay",
                "UltrasonicUnoccupiedToOccupiedDelay",
                "PhysicalContactOccupiedToUnoccupiedDelay",
                "PhysicalContactUnoccupiedToOccupiedDelay", "ClusterRevision"},
    int8u |-> {"PIRUnoccupiedToOccupiedThreshold",
               "UltrasonicUnoccupiedToOccupiedThreshold",
               "PhysicalContactUnoccupiedToOccupiedThreshold"},
    bitmap32 |-> {"FeatureMap"} ]

OccupancySensingWrite == {"PIROccupiedToUnoccupiedDelay",
                          "PIRUnoccupiedToOccupiedDelay",
                          "PIRUnoccupiedToOccupiedThreshold",
                          "UltrasonicOccupiedToUnoccupiedDelay",
                          "UltrasonicUnoccupiedToOccupiedDelay",
                          "UltrasonicUnoccupiedToOccupiedThreshold",
                          "PhysicalContactOccupiedToUnoccupiedDelay",
                          "PhysicalContactUnoccupiedToOccupiedDelay",
                          "PhysicalContactUnoccupiedToOccupiedThreshold"}

OccupancyReported == {"Occupancy", "OccupancySensorType",
                      "OccupancySensorTypeBitmap",
                      "PIROccupiedToUnoccupiedDelay",
                      "PIRUnoccupiedToOccupiedDelay",
                      "PIRUnoccupiedToOccupiedThreshold",
                      "UltrasonicOccupiedToUnoccupiedDelay",
                      "UltrasonicUnoccupiedToOccupiedDelay",
                      "UltrasonicUnoccupiedToOccupiedThreshold"}

PhysicalContactReported == {"PhysicalContactOccupiedToUnoccupiedDelay",
                            "PhysicalContactUnoccupiedToOccupiedDelay",
                            "PhysicalContactUnoccupiedToOccupiedThreshold"}

ReadCases ==
  [ Identify |-> <<IdentifyRead>>,
    Groups |-> <<GroupsRead>>,
    OnOff |-> <<OnOffRead>>,
    LevelControl |-> <<LevelControlRead>>,
    DoorLock |-> <<LockCapacityRead, LockSettingsRead, LockAliroRead>>,
    WindowCovering |-> <<CoverPositionRead, CoverLimitsRead>>,
    Thermostat |-> <<SetpointRead, ScheduleRead, AirConditioningRead>>,
    ColorControl |-> <<PrimaryColorRead, ColorPointRead, ColorLoopRead>>,
    IlluminanceMeasurement |-> <<IlluminanceMeasurementRead>>,
    TemperatureMeasurement |-> <<TemperatureMeasurementRead>>,
    PressureMeasurement |-> <<PressureMeasurementRead>>,
    FlowMeasurement |-> <<FlowMeasurementRead>>,
    RelativeHumidityMeasurement |-> <<RelativeHumidityMeasurementRead>>,
    OccupancySensing |-> <<OccupancySensingRead>> ]

Writable ==
  [ Identify |-> IdentifyWrite,
    Groups |-> {},
    OnOff |-> OnOffWrite,
    LevelControl |-> LevelControlWrite,
    DoorLock |-> LockSettingsWrite \cup LockProgrammingWrite,
    WindowCovering |-> WindowCoveringWrite,
    Thermostat |-> SetpointWrite \cup AirConditioningWrite,
    ColorControl |-> ColorPointWrite \cup ColorStartUpWrite,
    IlluminanceMeasurement |-> {},
    TemperatureMeasurement |-> {},
    PressureMeasurement |-> {},
    FlowMeasurement |-> {},
    RelativeHumidityMeasurement |-> {},
    OccupancySensing |-> OccupancySensingWrite ]

Reported ==
  [ Identify |-> IdentifyReported,
    Groups |-> GroupsReported,
    OnOff |-> OnOffReported,
    LevelControl |-> LevelRangeReported \cup LevelOptionsReported,
    DoorLock |->
      LockStateReported \cup LockCapacityReported \cup
      LockSettingsReported \cup LockAccessReported,
    WindowCovering |-> CoverPositionReported \cup CoverLimitsReported,
    Thermostat |->
      TemperatureReported \cup SetpointReported \cup ScheduleReported \cup
      SetbackReported \cup AirConditioningReported,
    ColorControl |->
      CurrentColorReported \cup PrimaryColorReported \cup
      ColorPointReported \cup ColorLoopReported \cup ColorStartUpReported,
    IlluminanceMeasurement |-> IlluminanceMeasurementReported,
    TemperatureMeasurement |-> TemperatureMeasurementReported,
    PressureMeasurement |-> PressureMeasurementReported,
    FlowMeasurement |-> FlowMeasurementReported,
    RelativeHumidityMeasurement |-> RelativeHumidityMeasurementReported,
    OccupancySensing |-> OccupancyReported \cup PhysicalContactReported ]

(* Unify's attributes that have a Matter attribute, by Matter's names, which  *)
(* are Unify's but for WindowCoveringType (Type) and ConfigOrStatus            *)
(* (ConfigStatus).                                                             *)
Mapped ==
  [ Identify |-> {"IdentifyTime"},
    Groups |-> {"NameSupport"},
    OnOff |-> {"OnOff", "GlobalSceneControl", "OnTime", "OffWaitTime",
               "StartUpOnOff"},
    LevelControl |-> {"CurrentLevel", "RemainingTime", "MinLevel", "MaxLevel",
                      "CurrentFrequency", "MinFrequency", "MaxFrequency",
                      "Options", "OnOffTransitionTime", "OnLevel",
                      "OnTransitionTime", "OffTransitionTime",
                      "DefaultMoveRate", "StartUpCurrentLevel"},
    DoorLock |-> {"LockState", "LockType", "ActuatorEnabled", "DoorState",
                  "OperatingMode", "SupportedOperatingModes", "FeatureMap"},
    WindowCovering |-> {"Type", "CurrentPositionLift", "ConfigStatus",
                        "CurrentPositionLiftPercentage",
                        "InstalledOpenLimitLift", "InstalledClosedLimitLift",
                        "Mode"},
    Thermostat |-> {"LocalTemperature", "OccupiedCoolingSetpoint",
                    "OccupiedHeatingSetpoint", "MinHeatSetpointLimit",
                    "MaxHeatSetpointLimit", "MinCoolSetpointLimit",
                    "MaxCoolSetpointLimit", "ControlSequenceOfOperation",
                    "SystemMode"},
    ColorControl |-> {"CurrentHue", "CurrentSaturation", "RemainingTime",
                      "CurrentX", "CurrentY", "DriftCompensation",
                      "ColorTemperatureMireds", "ColorMode", "Options",
                      "NumberOfPrimaries", "Primary1X", "Primary1Y",
                      "Primary1Intensity", "Primary2X", "Primary2Y",
                      "Primary2Intensity", "Primary3X", "Primary3Y",
                      "Primary3Intensity", "Primary4X", "Primary4Y",
                      "Primary4Intensity", "Primary5X", "Primary5Y",
                      "Primary5Intensity", "Primary6X", "Primary6Y",
                      "Primary6Intensity", "WhitePointX", "WhitePointY",
                      "ColorPointRX", "ColorPointRY", "ColorPointRIntensity",
                      "ColorPointGX", "ColorPointGY", "ColorPointGIntensity",
                      "ColorPointBX", "ColorPointBY", "ColorPointBIntensity",
                      "EnhancedCurrentHue", "EnhancedColorMode",
                      "ColorLoopActive", "ColorLoopDirection", "ColorLoopTime",
                      "ColorLoopStartEnhancedHue",
                      "ColorLoopStoredEnhancedHue", "ColorCapabilities",
                      "ColorTempPhysicalMinMireds",
                      "ColorTempPhysicalMaxMireds",
                      "CoupleColorTempToLevelMinMireds",
                      "StartUpColorTemperatureMireds"},
    IlluminanceMeasurement |-> {"MeasuredValue", "MinMeasuredValue",
                                "MaxMeasuredValue", "Tolerance",
                                "LightSensorType"},
    TemperatureMeasurement |-> {"MeasuredValue", "MinMeasuredValue",
                                "MaxMeasuredValue", "Tolerance"},
    PressureMeasurement |-> {"MeasuredValue", "MinMeasuredValue",
                             "MaxMeasuredValue", "Tolerance", "ScaledValue",
                             "MinScaledValue", "MaxScaledValue",
                             "ScaledTolerance", "Scale"},
    FlowMeasurement |-> {"MeasuredValue", "MinMeasuredValue",
                         "MaxMeasuredValue", "Tolerance"},
    RelativeHumidityMeasurement |-> {"MeasuredValue", "MinMeasuredValue",
                                     "MaxMeasuredValue", "Tolerance"},
    OccupancySensing |-> {"Occupancy", "OccupancySensorType",
                          "OccupancySensorTypeBitmap"} ]

(* Unify's name of a cluster, where it is not Matter's: in the topics the      *)
(* translator of the cluster subscribes to, and in the map the reports are     *)
(* looked up in.                                                               *)
TopicName(c) ==
  CASE c = "LevelControl" -> "Level"
    [] c = "RelativeHumidityMeasurement" -> "RelativityHumidity"
    [] OTHER -> c

UnifyCluster(c) ==
  CASE c = "LevelControl" -> "Level"
    [] c = "RelativeHumidityMeasurement" -> "RelativityHumidity"
    [] OTHER -> c

(* Fault: a key spelt unlike the attribute.                                   *)
WriteKeyMisspelt(a) ==
  CASE a = "RequirePINforRemoteOperation" -> "RequirePINforRFOperation"
    [] a = "StartUpOnOff" -> "StartupOnOff"
    [] OTHER -> a

(* The key of a written attribute in the WriteAttributes command.              *)
WriteKey(a) ==
  CASE a = "RequirePINforRemoteOperation" -> "RequirePINforRFOperation"
    [] a = "ACCapacityformat" -> "ACCapacityFormat"
    [] OTHER -> a

(* Unify's name of a Matter attribute, as in its reports.                      *)
UnifyAttribute(a) ==
  CASE a = "Type" -> "WindowCoveringType"
    [] a = "ConfigStatus" -> "ConfigOrStatus"
    [] OTHER -> a

-----------------------------------------------------------------------------

Clusters == DOMAIN ReadCases

(* The types a cluster's Read handler takes an attribute as.                   *)
TypesRead(c, a) ==
  UNION { {t \in DOMAIN ReadCases[c][i] : a \in ReadCases[c][i][t]} : i \in DOMAIN ReadCases[c] }

Readable(c) ==
  UNION { UNION {ReadCases[c][i][t] : t \in DOMAIN ReadCases[c][i]} : i \in DOMAIN ReadCases[c] }

TypeOf(c, a) == CHOOSE t \in TypesRead(c, a) : TRUE

(* The attributes whose type is Nullable in the Matter data model.             *)
Nullable ==
  [ LevelControl |-> {"CurrentLevel", "OnLevel", "OnTransitionTime", "OffTransitionTime",
                      "DefaultMoveRate", "StartUpCurrentLevel"},
    OnOff |-> {"StartUpOnOff"},
    DoorLock |-> {"LockState", "DoorState"},
    WindowCovering |-> {"CurrentPositionLift", "CurrentPositionTilt",
                        "CurrentPositionLiftPercentage", "CurrentPositionTiltPercentage"},
    Thermostat |-> {"LocalTemperature", "OutdoorTemperature", "TemperatureSetpointHoldDuration",
                    "SetpointChangeAmount", "OccupiedSetback", "OccupiedSetbackMin",
                    "OccupiedSetbackMax", "UnoccupiedSetback", "UnoccupiedSetbackMin",
                    "UnoccupiedSetbackMax", "ACCoilTemperature"},
    ColorControl |-> {"NumberOfPrimaries", "Primary1Intensity", "Primary2Intensity",
                      "Primary3Intensity", "Primary4Intensity", "Primary5Intensity",
                      "Primary6Intensity", "ColorPointRIntensity", "ColorPointGIntensity",
                      "ColorPointBIntensity", "StartUpColorTemperatureMireds"},
    IlluminanceMeasurement |-> {"MeasuredValue", "MinMeasuredValue", "MaxMeasuredValue",
                                "LightSensorType"},
    TemperatureMeasurement |-> {"MeasuredValue", "MinMeasuredValue", "MaxMeasuredValue"},
    PressureMeasurement |-> {"MeasuredValue", "MinMeasuredValue", "MaxMeasuredValue",
                             "ScaledValue", "MinScaledValue", "MaxScaledValue"},
    FlowMeasurement |-> {"MeasuredValue", "MinMeasuredValue", "MaxMeasuredValue"},
    RelativeHumidityMeasurement |-> {"MeasuredValue", "MinMeasuredValue", "MaxMeasuredValue"} ]

IsNullable(c, a) == c \in DOMAIN Nullable /\ a \in Nullable[c]

NumberTypes ==
  {"int8u", "int16u", "int32u", "int8s", "int16s", "temperature", "percent",
   "percent100ths", "epoch_s", "bitmap32"}

BitmapTypes ==
  {"ACErrorCodeBitmap", "ColorCapabilitiesBitmap", "ConfigStatus", "DlCredentialRuleMask",
   "DlDefaultConfigurationRegister", "DlLocalProgrammingFeatures", "DlSupportedOperatingModes",
   "HVACSystemTypeBitmap", "Mode", "NameSupportBitmap", "OccupancyBitmap",
   "OccupancySensorTypeBitmap", "OperationalStatus", "OptionsBitmap",
   "ProgrammingOperationModeBitmap", "RelayStateBitmap", "RemoteSensingBitmap", "SafetyStatus"}

(* How from_json and to_json treat a type.                                     *)
KindOf(t) ==
  CASE t = "boolean" -> "boolean"
    [] t \in NumberTypes -> "number"
    [] t \in {"char_string", "octet_string"} -> "string"
    [] t \in BitmapTypes -> "bitmap"
    [] OTHER -> "enum"

(* The level and lift reports that are moved off the value Matter reserves for *)
(* null, and the texts that some reports use for a number.                     *)
MovedOffNull(c, a) ==
  <<c, a>> \in {<<"LevelControl", "CurrentLevel">>, <<"WindowCovering", "CurrentPositionLift">>,
                <<"WindowCovering", "InstalledOpenLimitLift">>,
                <<"WindowCovering", "InstalledClosedLimitLift">>}

Words(c, a, reserved) ==
  CASE <<c, a>> = <<"ColorControl", "ColorTemperatureMireds">> -> [t \in {0} |-> 0]
    [] <<c, a>> = <<"LevelControl", "StartUpCurrentLevel">> ->
         [t \in {0, 1} |-> IF t = 0 THEN 0 ELSE reserved]
    [] OTHER -> [t \in {} |-> 0]

(* The attributes that are read and written through the emulator of their     *)
(* cluster, and what the level emulator does to the levels it reads.           *)
LevelEmulated == {"MinLevel", "CurrentLevel", "MaxLevel"}
DoorLockEmulated == {"OperatingMode", "SupportedOperatingModes"}
IdentifyEmulated == {"IdentifyType"}
ThermostatEmulated == {"OccupiedCoolingSetpoint", "OccupiedHeatingSetpoint"}
WindowCoveringEmulated == {"OperationalStatus", "EndProductType"}

Emulated(c) ==
  CASE c = "LevelControl" -> LevelEmulated
    [] c = "DoorLock" -> DoorLockEmulated
    [] c = "Identify" -> IdentifyEmulated
    [] c = "Thermostat" -> ThermostatEmulated
    [] c = "WindowCovering" -> WindowCoveringEmulated
    [] OTHER -> {}

HasFloor(c, a) == c = "LevelControl" /\ a \in {"MinLevel", "CurrentLevel"}
HasCeiling(c, a) == c = "LevelControl" /\ a = "MaxLevel"
=============================================================================
