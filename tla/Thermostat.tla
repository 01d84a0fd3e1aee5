----------------------------- MODULE Thermostat -----------------------------
(***************************************************************************)
(* The occupied set points of a bridged thermostat.  The bridge refuses a  *)
(* write beyond the limits of a set point and cuts a SetpointRaiseLower to *)
(* them (emulate_thermostat.hpp), by what its cache holds: the limits the  *)
(* thermostat reported, or defaults, and the set point it last heard of.   *)
(*                                                                         *)
(* The thermostat, its reports and the commands on their way to it run at  *)
(* their own pace.  It is taken to obey, within limits or not.  The broker *)
(* retains the last write and the last SetpointRaiseLower, and sends them  *)
(* again when Unify connects anew.                                         *)
(***************************************************************************)
EXTENDS Integers, Sequences

CONSTANTS
  Situations,     \* what may be set at the thermostat: <<mode, set point, least, largest>>
  Amounts,        \* of the SetpointRaiseLower commands, in tenths of a degree
  Written,        \* the set points controllers write, in hundredths
  MaxEvents       \* bound on local changes, commands, writes and restarts

Modes == {"heat", "cool"}
Attributes == {"setpoint", "min", "max"}
Kinds == {"raise", "write"}
Orders == {<<"setpoint", "min", "max">>, <<"min", "max", "setpoint">>}

Int8Range == -128 .. 127
Int16Range == -32768 .. 32767

(* Limits whose distance to the ends of 16 bits is more than any command asks *)
(* for; beyond, the sum of set point and amount overflows.                    *)
LimitRange == -31488 .. 31497

(* Conversion to the widths of the C++ types.                                *)
Int8(n) == ((n + 128) % 256) - 128
Int16(n) == ((n + 32768) % 65536) - 32768

(* The defaults of emulate_thermostat.hpp, kept by a thermostat that does not *)
(* report limits.                                                             *)
Default ==
  [m \in Modes |-> [a \in {"min", "max"} |->
     IF m = "heat" THEN (IF a = "min" THEN 700 ELSE 3000)
                   ELSE (IF a = "min" THEN 1600 ELSE 3200)]]

ASSUME SituationsAssumption ==
  /\ Situations \subseteq Modes \X Int16Range \X LimitRange \X LimitRange
  /\ \A s \in Situations : s[3] <= s[2] /\ s[2] <= s[4]
ASSUME InputsAssumption ==
  Amounts \subseteq Int8Range /\ Written \subseteq Int16Range /\ MaxEvents \in Nat

Missing == 32768
CachedRange == -32768 .. Missing

VARIABLES
  limited,        \* whether the thermostat reports its limits
  device,         \* mode -> attribute -> its value at the thermostat
  reports,        \* the reports on their way to the bridge: <<mode, attribute, value>>
  commands,       \* the commands on their way to the thermostat
  cache,          \* mode -> attribute -> the bridge's cached value, or Missing
  retained,       \* the last write and the last raise, kept by the broker
  stale,          \* (history) the limits the retained write was tested by are not, or are no
                  \* longer, the thermostat's
  unguarded,      \* (history) modes whose set point a command was not cut for, was cut for by
                  \* values that were out of date, or was tested for by limits that were
  events          \* events of the environment so far

vars == <<limited, device, reports, commands, cache, retained, stale, unguarded, events>>

(* A raise has the modes it is for, the amount forwarded and, for the         *)
(* properties, the amount asked for and whether the cached set point was      *)
(* within the limits; a write has its set point.                              *)
Raise(ms, amount, asked, inside) ==
  [kind |-> "raise", modes |-> ms, value |-> amount, asked |-> asked, inside |-> inside]
Put(m, v) == [kind |-> "write", modes |-> {m}, value |-> v, asked |-> v, inside |-> TRUE]

RaiseCommands == [kind : {"raise"}, modes : SUBSET Modes, value : Int8Range,
                  asked : Int8Range, inside : BOOLEAN]
WriteCommands == [kind : {"write"}, modes : SUBSET Modes, value : Int16Range,
                  asked : Int16Range, inside : BOOLEAN]

(* What is retained before the first command.                                 *)
Nothing == Raise({}, 0, 0, FALSE)

ReportUnderWay(m) == \E i \in 1 .. Len(reports) : reports[i][1] = m
LimitsUnderWay(m) ==
  \E i \in 1 .. Len(reports) : reports[i][1] = m /\ reports[i][2] # "setpoint"
CommandUnderWay(m) == \E i \in 1 .. Len(commands) : m \in commands[i].modes
Unsettled == {m \in Modes : ReportUnderWay(m) \/ CommandUnderWay(m)}

EnvironmentEvent == events < MaxEvents /\ events' = events + 1

-----------------------------------------------------------------------------
(* What the bridge computes.                                                  *)

\* cache.get, or the default when it fails.
Limit(m, a) == IF cache[m][a] # Missing THEN cache[m][a] ELSE Default[m][a]

\* C++ division, which cuts towards zero.
Tenth(n) == IF n >= 0 THEN n \div 10 ELSE -((-n) \div 10)

(* Faults: the limit below is passed by rounding down; differences are taken  *)
(* the wrong way round; the amount keeps more bits than it has.               *)
CutDown(setpoint, amount, min, max) ==
  IF Int16(setpoint + amount * 10) > max THEN Int8((max - setpoint) \div 10)
  ELSE IF Int16(setpoint + amount * 10) < min THEN Int8((min - setpoint) \div 10)
  ELSE amount
CutBackwards(setpoint, amount, min, max) ==
  IF Int16(setpoint + amount * 10) > max THEN Int8(Tenth(setpoint - max))
  ELSE IF Int16(setpoint + amount * 10) < min THEN Int8(Tenth(setpoint - min))
  ELSE amount
CutWide(setpoint, amount, min, max) ==
  IF Int16(setpoint + amount * 10) > max THEN Tenth(max - setpoint)
  ELSE IF Int16(setpoint + amount * 10) < min THEN Tenth(min - setpoint)
  ELSE amount

(* UpdateHeatingSetpoint, UpdateCoolingSetpoint: the amount of a request that *)
(* would pass a limit becomes what leads to the limit.  The test of the upper *)
(* limit comes second and wins.                                               *)
Cut(setpoint, amount, min, max) ==
  IF Int16(setpoint + amount * 10) > max THEN Int8(Tenth(max - setpoint))
  ELSE IF Int16(setpoint + amount * 10) < min THEN Int8(Tenth(min - setpoint))
  ELSE amount

Known(m) == cache[m]["setpoint"] # Missing
Inside(m) == /\ Known(m)
             /\ Limit(m, "min") <= cache[m]["setpoint"]
             /\ cache[m]["setpoint"] <= Limit(m, "max")

Forwarded(m, amount) == Cut(cache[m]["setpoint"], amount, Limit(m, "min"), Limit(m, "max"))

-----------------------------------------------------------------------------
(* Publishing a command, retained.                                            *)
Send(c) ==
  /\ commands' = Append(commands, c)
  /\ retained' = [retained EXCEPT ![c.kind] = c]

(* SetpointRaiseLower.                                                        *)

(* For one set point: without a cached one the emulator fails, and the        *)
(* command is published all the same, without its arguments.                  *)
RaiseOne(m, amount) ==
  /\ EnvironmentEvent
  /\ Send(IF Known(m) THEN Raise({m}, Forwarded(m, amount), amount, Inside(m))
                      ELSE Raise({}, 0, amount, FALSE))
  /\ unguarded' = unguarded \cup ({m} \cap Unsettled)
  /\ UNCHANGED <<limited, device, reports, cache, stale>>

(* For both, the heating set point alone decides, or neither when it is       *)
(* unknown: the amount is the same for the cooling set point.                 *)
RaiseBoth(amount) ==
  /\ EnvironmentEvent
  /\ Send(Raise(Modes, IF Known("heat") THEN Forwarded("heat", amount) ELSE amount,
                amount, Inside("heat")))
  /\ unguarded' = unguarded \cup {"cool"} \cup ({"heat"} \cap Unsettled)
  /\ UNCHANGED <<limited, device, reports, cache, stale>>

(* write_attribute and Write: beyond the limits it is a constraint error.     *)
WriteSetpoint(m, v) ==
  /\ EnvironmentEvent
  /\ Limit(m, "min") <= v /\ v <= Limit(m, "max")
  /\ Send(Put(m, v))
  /\ stale' = LimitsUnderWay(m)
  /\ unguarded' = IF LimitsUnderWay(m) THEN unguarded \cup {m} ELSE unguarded
  /\ UNCHANGED <<limited, device, reports, cache>>

(* reported_updated                                                           *)
Deliver ==
  /\ Len(reports) > 0
  /\ LET r == Head(reports)
     IN cache' = [cache EXCEPT ![r[1]][r[2]] = r[3]]
  /\ reports' = Tail(reports)
  /\ UNCHANGED <<limited, device, commands, retained, stale, unguarded, events>>

-----------------------------------------------------------------------------
(* The thermostat and Unify.                                                  *)

\* The queue q when mode m of thermostat d is published, in order o.
Published(q, d, m, o) ==
  IF limited
    THEN Append(Append(Append(q, <<m, o[1], d[m][o[1]]>>), <<m, o[2], d[m][o[2]]>>),
                <<m, o[3], d[m][o[3]]>>)
    ELSE Append(q, <<m, "setpoint", d[m]["setpoint"]>>)

(* Someone turns the knob or sets new limits.                                 *)
LocalChange(s, o) ==
  /\ EnvironmentEvent
  /\ \/ limited
     \/ s[3] = Default[s[1]]["min"] /\ s[4] = Default[s[1]]["max"]
  /\ LET m == s[1]
         now == [a \in Attributes |-> IF a = "setpoint" THEN s[2]
                                   ELSE IF a = "min" THEN s[3] ELSE s[4]]
     IN /\ device' = [device EXCEPT ![m] = now]
        /\ reports' = Published(reports, device', m, o)
        /\ unguarded' = IF CommandUnderWay(m) THEN unguarded \cup {m} ELSE unguarded \ {m}
        /\ stale' = (\/ stale
                     \/ /\ m \in retained["write"].modes
                        /\ s[3] # device[m]["min"] \/ s[4] # device[m]["max"])
  /\ UNCHANGED <<limited, commands, cache, retained>>

\* The set points after command c; a command without arguments does nothing.
Obeyed(m, c) ==
  IF m \notin c.modes THEN device[m]["setpoint"]
  ELSE IF c.kind = "write" THEN c.value
  ELSE Int16(device[m]["setpoint"] + c.value * 10)

Answered(q, m, c) == IF m \in c.modes THEN Append(q, <<m, "setpoint", Obeyed(m, c)>>) ELSE q

(* The thermostat obeys the next command, Unify reports what it changed.      *)
Obey ==
  /\ Len(commands) > 0
  /\ LET c == Head(commands)
     IN /\ device' = [m \in Modes |-> [device[m] EXCEPT !["setpoint"] = Obeyed(m, c)]]
        /\ reports' = Answered(Answered(reports, "heat", c), "cool", c)
  /\ commands' = Tail(commands)
  /\ UNCHANGED <<limited, cache, retained, stale, unguarded, events>>

(* Unify connects to the broker anew, and is sent a retained command again.   *)
Reconnect(kind) ==
  /\ EnvironmentEvent
  /\ LET c == retained[kind]
     IN /\ c # Nothing
        /\ commands' = Append(commands, c)
        /\ unguarded' = IF kind = "raise" \/ stale THEN unguarded \cup c.modes ELSE unguarded
  /\ UNCHANGED <<limited, device, reports, cache, retained, stale>>

(* The bridge starts anew: the cache is empty, the broker sends what it       *)
(* retains.                                                                   *)
Restart(o) ==
  /\ EnvironmentEvent
  /\ cache' = [m \in Modes |-> [a \in Attributes |-> Missing]]
  /\ reports' = Published(Published(<<>>, device, "heat", o), device, "cool", o)
  /\ UNCHANGED <<limited, device, commands, retained, stale, unguarded>>

-----------------------------------------------------------------------------
Init ==
  /\ limited \in BOOLEAN
  /\ device = [m \in Modes |-> [a \in Attributes |->
                 IF a = "setpoint" THEN (IF m = "heat" THEN 2000 ELSE 2600) ELSE Default[m][a]]]
  /\ \E o \in Orders : reports = Published(Published(<<>>, device, "heat", o), device, "cool", o)
  /\ commands = <<>>
  /\ cache = [m \in Modes |-> [a \in Attributes |-> Missing]]
  /\ retained = [kind \in Kinds |-> Nothing]
  /\ stale = FALSE
  /\ unguarded = {}
  /\ events = 0

Next ==
  \/ Deliver \/ Obey
  \/ \E m \in Modes, amount \in Amounts : RaiseOne(m, amount)
  \/ \E amount \in Amounts : RaiseBoth(amount)
  \/ \E m \in Modes, v \in Written : WriteSetpoint(m, v)
  \/ \E s \in Situations, o \in Orders : LocalChange(s, o)
  \/ \E kind \in Kinds : Reconnect(kind)
  \/ \E o \in Orders : Restart(o)

Spec == Init /\ [][Next]_vars

-----------------------------------------------------------------------------
(***************************************************************************)
(* Values keep the widths of the code's types (int8_t amount, int16_t set  *)
(* points), the ones that were converted included.                         *)
(***************************************************************************)
TypeOK ==
  /\ limited \in BOOLEAN
  /\ device \in [Modes -> [Attributes -> Int16Range]]
  /\ reports \in Seq(Modes \X Attributes \X Int16Range)
  /\ commands \in Seq(RaiseCommands \cup WriteCommands)
  /\ cache \in [Modes -> [Attributes -> CachedRange]]
  /\ retained \in [Kinds -> RaiseCommands \cup WriteCommands]
  /\ stale \in BOOLEAN
  /\ unguarded \in SUBSET Modes
  /\ events \in 0 .. MaxEvents

(***************************************************************************)
(* A set point leaves its limits only by a raise the bridge had to cut by  *)
(* values that were out of date or did not cut (the cooling set point of a *)
(* command for both), a raise that Unify was sent again, or a write the    *)
(* bridge had to test by limits that were out of date when it tested them  *)
(* or are when Unify is sent it again.  Otherwise the arithmetic of        *)
(* UpdateHeatingSetpoint and UpdateCoolingSetpoint, the defaults for       *)
(* limits that were not reported and the test of write_attribute keep it   *)
(* inside, whatever is under way.                                          *)
(***************************************************************************)
StaysInLimits ==
  \A m \in Modes \ unguarded :
    device[m]["min"] <= device[m]["setpoint"] /\ device[m]["setpoint"] <= device[m]["max"]

(***************************************************************************)
(* What StaysInLimits does not claim: that a set point is within its       *)
(* limits at any time (emulate_thermostat.hpp and the retained commands).  *)
(***************************************************************************)
AlwaysInLimits ==
  \A m \in Modes :
    device[m]["min"] <= device[m]["setpoint"] /\ device[m]["setpoint"] <= device[m]["max"]

(***************************************************************************)
(* As long as the cached set point is within the cached limits, what       *)
(* UpdateHeatingSetpoint and UpdateCoolingSetpoint forward is no more than *)
(* was asked for and never the other way, through the divisions and the    *)
(* casts to 8 bits.                                                        *)
(***************************************************************************)
NoMoreThanAsked ==
  \A i \in 1 .. Len(commands) :
    LET c == commands[i]
    IN c.kind = "raise" /\ c.inside =>
         IF c.asked >= 0 THEN 0 <= c.value /\ c.value <= c.asked
                         ELSE c.asked <= c.value /\ c.value <= 0

=============================================================================
