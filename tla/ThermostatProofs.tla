-------------------------- MODULE ThermostatProofs --------------------------
(***************************************************************************)
(* What the bridge's limiting of the set points guarantees for all set     *)
(* points, limits and amounts, and any order of reports and commands.      *)
(***************************************************************************)
EXTENDS Thermostat, TLAPS

-----------------------------------------------------------------------------
(* The arithmetic.                                                            *)

(***************************************************************************)
(* The ranges of the values, as inequalities.                              *)
(***************************************************************************)
LEMMA Int16RangeIs == \A n : n \in Int16Range <=> n \in Int /\ -32768 <= n /\ n <= 32767
<1> TAKE n
<1> DEFINE lo == -32768  hi == 32767
<1>1. lo \in Int /\ hi \in Int
  OBVIOUS
<1>2. Int16Range = lo .. hi
  BY DEF Int16Range, lo, hi
<1> HIDE DEF lo, hi
<1>3. n \in Int16Range <=> n \in Int /\ lo <= n /\ n <= hi
  BY <1>1, <1>2
<1> QED BY <1>3 DEF lo, hi

LEMMA LimitRangeIs == \A n : n \in LimitRange <=> n \in Int /\ -31488 <= n /\ n <= 31497
<1> TAKE n
<1> DEFINE lo == -31488  hi == 31497
<1>1. lo \in Int /\ hi \in Int
  OBVIOUS
<1>2. LimitRange = lo .. hi
  BY DEF LimitRange, lo, hi
<1> HIDE DEF lo, hi
<1>3. n \in LimitRange <=> n \in Int /\ lo <= n /\ n <= hi
  BY <1>1, <1>2
<1> QED BY <1>3 DEF lo, hi

(***************************************************************************)
(* A conversion gives a value of its width, and keeps one that fits.       *)
(***************************************************************************)
LEMMA Widths ==
  ASSUME NEW n \in Int
  PROVE  /\ Int8(n) \in Int8Range
         /\ Int16(n) \in Int16Range
         /\ n \in Int8Range => Int8(n) = n
         /\ n \in Int16Range => Int16(n) = n
<1>1. Int8(n) \in Int8Range
  BY DEF Int8, Int8Range
<1>2. Int16(n) \in Int16Range
  BY Int16RangeIs DEF Int16
<1>3. n \in Int8Range => Int8(n) = n
  BY DEF Int8, Int8Range
<1>4. n \in Int16Range => Int16(n) = n
  BY Int16RangeIs DEF Int16
<1> QED BY <1>1, <1>2, <1>3, <1>4

(***************************************************************************)
(* The division by ten keeps the sign and leaves less than ten.            *)
(***************************************************************************)
LEMMA Tenths ==
  ASSUME NEW n \in Int
  PROVE  /\ Tenth(n) \in Int
         /\ n >= 0 => 0 <= Tenth(n) /\ Tenth(n) * 10 <= n /\ n < Tenth(n) * 10 + 10
         /\ n <= 0 => Tenth(n) <= 0 /\ n <= Tenth(n) * 10 /\ Tenth(n) * 10 - 10 < n
<1>1. CASE n >= 0
  BY <1>1 DEF Tenth
<1>2. CASE n < 0
  BY <1>2 DEF Tenth
<1> QED BY <1>1, <1>2

(***************************************************************************)
(* What is cut fits in the amount's width, whatever it was cut by.         *)
(***************************************************************************)
LEMMA CutFits ==
  ASSUME NEW setpoint \in Int, NEW amount \in Int8Range, NEW min \in Int, NEW max \in Int
  PROVE  Cut(setpoint, amount, min, max) \in Int8Range
<1>1. max - setpoint \in Int /\ min - setpoint \in Int
  OBVIOUS
<1>2. Tenth(max - setpoint) \in Int /\ Tenth(min - setpoint) \in Int
  BY <1>1, Tenths
<1>3. Int8(Tenth(max - setpoint)) \in Int8Range /\ Int8(Tenth(min - setpoint)) \in Int8Range
  BY <1>2, Widths
<1> QED BY <1>3 DEF Cut

(***************************************************************************)
(* A set point within its limits stays there by what the request is cut    *)
(* to, which is no more than was asked for and not the other way.          *)
(***************************************************************************)
LEMMA CutKeepsLimits ==
  ASSUME NEW setpoint \in Int16Range, NEW amount \in Int8Range,
         NEW min \in LimitRange, NEW max \in LimitRange, min <= setpoint, setpoint <= max,
         NEW cut, cut = Cut(setpoint, amount, min, max)
  PROVE  /\ cut \in Int8Range
         /\ Int16(setpoint + cut * 10) = setpoint + cut * 10
         /\ min <= setpoint + cut * 10 /\ setpoint + cut * 10 <= max
         /\ IF amount >= 0 THEN 0 <= cut /\ cut <= amount ELSE amount <= cut /\ cut <= 0
<1> DEFINE sum == setpoint + amount * 10
<1>1. sum \in Int16Range /\ amount \in Int
  BY Int16RangeIs, LimitRangeIs DEF Int8Range
<1>2. Int16(sum) = sum
  BY <1>1, Widths, Int16RangeIs
<1>3. /\ cut \in Int8Range
      /\ min <= setpoint + cut * 10 /\ setpoint + cut * 10 <= max
      /\ IF amount >= 0 THEN 0 <= cut /\ cut <= amount ELSE amount <= cut /\ cut <= 0
  <2>1. CASE sum > max
    <3>1. max - setpoint \in Int /\ max - setpoint >= 0 /\ max - setpoint < amount * 10
      BY <2>1, <1>1, Int16RangeIs, LimitRangeIs
    <3> DEFINE t == Tenth(max - setpoint)
    <3>2. t \in Int /\ 0 <= t /\ t * 10 <= max - setpoint
      BY <3>1, Tenths
    <3> HIDE DEF t
    <3>3. t <= amount /\ t \in Int8Range /\ amount >= 0
      BY <3>1, <3>2, <1>1 DEF Int8Range
    <3>4. cut = t
      BY <2>1, <1>2, <3>2, <3>3, Widths DEF Cut, t
    <3>5. min <= setpoint + t * 10 /\ setpoint + t * 10 <= max
      BY <3>2, Int16RangeIs, LimitRangeIs
    <3> QED BY <3>2, <3>3, <3>4, <3>5
  <2>2. CASE ~(sum > max) /\ sum < min
    <3>1. min - setpoint \in Int /\ min - setpoint <= 0 /\ amount * 10 < min - setpoint
      BY <2>2, <1>1, Int16RangeIs, LimitRangeIs
    <3> DEFINE t == Tenth(min - setpoint)
    <3>2. t \in Int /\ t <= 0 /\ min - setpoint <= t * 10
      BY <3>1, Tenths
    <3> HIDE DEF t
    <3>3. amount <= t /\ t \in Int8Range /\ amount < 0
      BY <3>1, <3>2, <1>1 DEF Int8Range
    <3>4. cut = t
      BY <2>2, <1>2, <3>2, <3>3, Widths DEF Cut, t
    <3>5. min <= setpoint + t * 10 /\ setpoint + t * 10 <= max
      BY <3>2, Int16RangeIs, LimitRangeIs
    <3> QED BY <3>2, <3>3, <3>4, <3>5
  <2>3. CASE ~(sum > max) /\ ~(sum < min)
    <3>1. cut = amount
      BY <2>3, <1>2 DEF Cut
    <3> QED BY <2>3, <3>1, <1>1, Int16RangeIs, LimitRangeIs
  <2> QED BY <2>1, <2>2, <2>3
<1>4. setpoint + cut * 10 \in Int16Range
  BY <1>3, Int16RangeIs, LimitRangeIs DEF Int8Range
<1>5. Int16(setpoint + cut * 10) = setpoint + cut * 10
  BY <1>4, Widths, Int16RangeIs
<1> QED BY <1>3, <1>5

-----------------------------------------------------------------------------
(* The shape of the state.                                                    *)

Limits == {"min", "max"}

(* A limit that is reported is in its range, and is only reported by a        *)
(* thermostat that has limits of its own.                                     *)
Report(l) ==
  {r \in Modes \X Attributes \X Int16Range : r[2] # "setpoint" => l /\ r[3] \in LimitRange}

(* A command as NoMoreThanAsked wants it.                                      *)
Moderate(c) ==
  c.kind = "raise" /\ c.inside =>
    IF c.asked >= 0 THEN 0 <= c.value /\ c.value <= c.asked
                    ELSE c.asked <= c.value /\ c.value <= 0

Command == {c \in RaiseCommands \cup WriteCommands : Moderate(c)}

Shape ==
  /\ limited \in BOOLEAN
  /\ device \in [Modes -> [Attributes -> Int16Range]]
  /\ reports \in Seq(Report(limited))
  /\ commands \in Seq(Command)
  /\ cache \in [Modes -> [Attributes -> Int16Range \cup {Missing}]]
  /\ retained \in [Kinds -> Command]
  /\ stale \in BOOLEAN
  /\ unguarded \in SUBSET Modes
  /\ events \in 0 .. MaxEvents
  /\ \A m \in Modes, a \in Limits :
       /\ device[m][a] \in LimitRange
       /\ cache[m][a] \in LimitRange \cup {Missing}
       /\ ~limited => device[m][a] = Default[m][a] /\ cache[m][a] = Missing

(***************************************************************************)
(* A sequence over a set is one over a larger set.                         *)
(***************************************************************************)
LEMMA SeqMonotonic ==
  ASSUME NEW S, NEW T, S \subseteq T, NEW q \in Seq(S)
  PROVE  q \in Seq(T)
OBVIOUS

(***************************************************************************)
(* A default is a limit.                                                   *)
(***************************************************************************)
LEMMA Defaults ==
  /\ Default \in [Modes -> [Limits -> LimitRange]]
  /\ LimitRange \subseteq Int16Range
  /\ Missing \notin Int16Range
<1>1. 700 \in LimitRange /\ 3000 \in LimitRange /\ 1600 \in LimitRange /\ 3200 \in LimitRange
  BY LimitRangeIs
<1>2. Default \in [Modes -> [Limits -> LimitRange]]
  BY <1>1 DEF Default, Limits
<1>3. LimitRange \subseteq Int16Range /\ Missing \notin Int16Range
  BY LimitRangeIs, Int16RangeIs DEF Missing
<1> QED BY <1>2, <1>3

(***************************************************************************)
(* What the cache may hold, as the module writes it.                       *)
(***************************************************************************)
LEMMA Cachable == CachedRange = Int16Range \cup {Missing}
<1> DEFINE lo == -32768  hi == 32768
<1>1. lo \in Int /\ hi \in Int
  OBVIOUS
<1>2. CachedRange = lo .. hi /\ Missing = hi
  BY DEF CachedRange, Missing, lo, hi
<1> HIDE DEF lo, hi
<1>3. \A n : n \in CachedRange <=> n \in Int /\ lo <= n /\ n <= hi
  BY <1>1, <1>2
<1>4. \A n : n \in CachedRange <=> n \in Int16Range \/ n = hi
  BY <1>3, Int16RangeIs DEF lo, hi
<1> QED BY <1>2, <1>4

LEMMA ShapeIsTyped ==
  ASSUME Shape
  PROVE  TypeOK /\ NoMoreThanAsked
<1>1. Report(limited) \subseteq Modes \X Attributes \X Int16Range
  BY DEF Report
<1>2. Command \subseteq RaiseCommands \cup WriteCommands
  BY DEF Command
<1>3. reports \in Seq(Modes \X Attributes \X Int16Range)
  BY <1>1, SeqMonotonic DEF Shape
<1>4. commands \in Seq(RaiseCommands \cup WriteCommands)
  BY <1>2, SeqMonotonic DEF Shape
<1>5. TypeOK
  BY <1>2, <1>3, <1>4, Cachable DEF Shape, TypeOK
<1>6. \A i \in 1 .. Len(commands) : Moderate(commands[i])
  BY DEF Shape, Command
<1> QED BY <1>5, <1>6 DEF NoMoreThanAsked, Moderate

(***************************************************************************)
(* Publishing a thermostat that has the right shape.                       *)
(***************************************************************************)
LEMMA PublishedShape ==
  ASSUME limited \in BOOLEAN, NEW q \in Seq(Report(limited)), NEW m \in Modes, NEW o \in Orders,
         NEW d \in [Modes -> [Attributes -> Int16Range]], \A a \in Limits : d[m][a] \in LimitRange
  PROVE  Published(q, d, m, o) \in Seq(Report(limited))
<1>1. \A a \in Attributes : a = "setpoint" \/ limited => <<m, a, d[m][a]>> \in Report(limited)
  BY DEF Report, Attributes, Limits
<1>2. o[1] \in Attributes /\ o[2] \in Attributes /\ o[3] \in Attributes
  BY DEF Orders, Attributes
<1>3. CASE limited
  <2>1. /\ <<m, o[1], d[m][o[1]]>> \in Report(limited)
        /\ <<m, o[2], d[m][o[2]]>> \in Report(limited)
        /\ <<m, o[3], d[m][o[3]]>> \in Report(limited)
    BY <1>1, <1>2, <1>3
  <2>2. Append(q, <<m, o[1], d[m][o[1]]>>) \in Seq(Report(limited))
    BY <2>1
  <2>3. Append(Append(q, <<m, o[1], d[m][o[1]]>>), <<m, o[2], d[m][o[2]]>>) \in Seq(Report(limited))
    BY <2>1, <2>2
  <2>4. Append(Append(Append(q, <<m, o[1], d[m][o[1]]>>), <<m, o[2], d[m][o[2]]>>),
               <<m, o[3], d[m][o[3]]>>) \in Seq(Report(limited))
    BY <2>1, <2>3
  <2> QED BY <1>3, <2>4 DEF Published
<1>4. CASE ~limited
  BY <1>1, <1>4 DEF Published, Attributes
<1> QED BY <1>3, <1>4

LEMMA RaiseShape ==
  ASSUME NEW ms \in SUBSET Modes, NEW value \in Int8Range, NEW asked \in Int8Range,
         NEW inside \in BOOLEAN,
         inside => IF asked >= 0 THEN 0 <= value /\ value <= asked
                                 ELSE asked <= value /\ value <= 0
  PROVE  Raise(ms, value, asked, inside) \in Command
BY DEF Raise, Command, RaiseCommands, Moderate

LEMMA PutShape ==
  ASSUME NEW m \in Modes, NEW v \in Int16Range
  PROVE  Put(m, v) \in Command
BY DEF Put, Command, WriteCommands, Moderate

LEMMA IdleShape == \A amount \in Int8Range : Raise({}, 0, amount, FALSE) \in Command
<1> TAKE amount \in Int8Range
<1>1. {} \in SUBSET Modes /\ 0 \in Int8Range
  BY DEF Int8Range
<1> QED BY <1>1, RaiseShape

LEMMA NothingShape == Nothing \in Command /\ Nothing.modes = {}
<1>1. 0 \in Int8Range
  BY DEF Int8Range
<1>2. Nothing \in Command
  BY <1>1, IdleShape DEF Nothing
<1> QED BY <1>2 DEF Nothing, Raise

(***************************************************************************)
(* A command that is sent is under way and retained.                       *)
(***************************************************************************)
LEMMA SendShape ==
  ASSUME Shape, NEW c \in Command, Send(c)
  PROVE  /\ commands' \in Seq(Command) /\ retained' \in [Kinds -> Command]
         /\ retained'[c.kind] = c
         /\ \A kind \in Kinds \ {c.kind} : retained'[kind] = retained[kind]
<1>1. c.kind \in Kinds
  BY DEF Command, RaiseCommands, WriteCommands, Kinds
<1> QED BY <1>1 DEF Send, Shape

LEMMA ShapeAtStart == Init => Shape
<1> SUFFICES ASSUME Init PROVE Shape
  OBVIOUS
<1>1. /\ 2000 \in Int16Range /\ 2600 \in Int16Range
      /\ \A m \in Modes, a \in Limits : Default[m][a] \in LimitRange /\ Default[m][a] \in Int16Range
  BY Defaults, Int16RangeIs
<1>2. \A m \in Modes, a \in Limits : device[m][a] = Default[m][a]
  BY DEF Init, Limits, Attributes
<1>3. device \in [Modes -> [Attributes -> Int16Range]]
  BY <1>1 DEF Init, Attributes, Limits
<1>4. <<>> \in Seq(Report(limited)) /\ <<>> \in Seq(Command)
  OBVIOUS
<1>5. limited \in BOOLEAN /\ "heat" \in Modes /\ "cool" \in Modes
  BY DEF Init, Modes
<1>6. PICK o \in Orders : reports = Published(Published(<<>>, device, "heat", o), device, "cool", o)
  BY DEF Init
<1>7. \A m \in Modes, a \in Limits : device[m][a] \in LimitRange
  BY <1>1, <1>2
<1>8. reports \in Seq(Report(limited))
  <2>1. Published(<<>>, device, "heat", o) \in Seq(Report(limited))
    BY <1>3, <1>4, <1>5, <1>7, PublishedShape
  <2> QED BY <2>1, <1>3, <1>5, <1>6, <1>7, PublishedShape
<1>9. \A m \in Modes, a \in Attributes : cache[m][a] = Missing
  BY DEF Init
<1>10. cache \in [Modes -> [Attributes -> Int16Range \cup {Missing}]]
  BY DEF Init
<1>11. retained \in [Kinds -> Command] /\ stale \in BOOLEAN
  BY NothingShape DEF Init
<1> QED
  BY <1>1, <1>2, <1>3, <1>4, <1>5, <1>8, <1>9, <1>10, <1>11, InputsAssumption
  DEF Init, Shape, Limits, Attributes

(***************************************************************************)
(* The limit the bridge goes by is a limit; it is the thermostat's own     *)
(* when no report of it is under way.                                      *)
(***************************************************************************)
LEMMA LimitInRange ==
  ASSUME Shape, NEW m \in Modes, NEW a \in Limits
  PROVE  Limit(m, a) \in LimitRange
BY Defaults DEF Shape, Limit

LEMMA ForwardedShape ==
  ASSUME Shape, NEW m \in Modes, NEW amount \in Int8Range, Known(m)
  PROVE  /\ Forwarded(m, amount) \in Int8Range
         /\ Inside(m) =>
              IF amount >= 0 THEN 0 <= Forwarded(m, amount) /\ Forwarded(m, amount) <= amount
                             ELSE amount <= Forwarded(m, amount) /\ Forwarded(m, amount) <= 0
<1>1. cache[m]["setpoint"] \in Int16Range
  BY DEF Shape, Known, Attributes
<1>2. Limit(m, "min") \in LimitRange /\ Limit(m, "max") \in LimitRange
  BY LimitInRange DEF Limits
<1>3. Limit(m, "min") \in Int /\ Limit(m, "max") \in Int /\ cache[m]["setpoint"] \in Int
  BY <1>1, <1>2, LimitRangeIs, Int16RangeIs
<1>4. Forwarded(m, amount) \in Int8Range
  BY <1>3, CutFits DEF Forwarded
<1>5. ASSUME Inside(m)
      PROVE  IF amount >= 0 THEN 0 <= Forwarded(m, amount) /\ Forwarded(m, amount) <= amount
                            ELSE amount <= Forwarded(m, amount) /\ Forwarded(m, amount) <= 0
  BY <1>1, <1>2, <1>5, CutKeepsLimits DEF Forwarded, Inside
<1> QED BY <1>4, <1>5

LEMMA RaiseOneShape ==
  ASSUME Shape, NEW m \in Modes, NEW amount \in Amounts, RaiseOne(m, amount)
  PROVE  Shape'
<1> DEFINE c == IF Known(m) THEN Raise({m}, Forwarded(m, amount), amount, Inside(m))
                            ELSE Raise({}, 0, amount, FALSE)
<1>1. amount \in Int8Range /\ Inside(m) \in BOOLEAN
  BY InputsAssumption DEF Inside
<1>2. c \in Command
  <2>1. Known(m) => Raise({m}, Forwarded(m, amount), amount, Inside(m)) \in Command
    BY <1>1, ForwardedShape, RaiseShape
  <2> QED BY <1>1, <2>1, IdleShape
<1>3. Send(c)
  BY DEF RaiseOne
<1> HIDE DEF c
<1>4. events' \in 0 .. MaxEvents
  BY InputsAssumption DEF RaiseOne, EnvironmentEvent, Shape
<1>5. unguarded' \in SUBSET Modes
  BY DEF RaiseOne, Shape
<1> QED BY <1>2, <1>3, <1>4, <1>5, SendShape DEF RaiseOne, Shape

LEMMA RaiseBothShape ==
  ASSUME Shape, NEW amount \in Amounts, RaiseBoth(amount)
  PROVE  Shape'
<1> DEFINE c == Raise(Modes, IF Known("heat") THEN Forwarded("heat", amount) ELSE amount,
                      amount, Inside("heat"))
<1>1. amount \in Int8Range /\ "heat" \in Modes /\ "cool" \in Modes /\ Modes \in SUBSET Modes
  BY InputsAssumption DEF Modes
<1>2. Inside("heat") \in BOOLEAN /\ (~Known("heat") => ~Inside("heat"))
  BY DEF Inside
<1>3. c \in Command
  <2>1. CASE Known("heat")
    BY <2>1, <1>1, <1>2, ForwardedShape, RaiseShape
  <2>2. CASE ~Known("heat")
    BY <2>2, <1>1, <1>2, RaiseShape
  <2> QED BY <2>1, <2>2
<1>4. Send(c)
  BY DEF RaiseBoth
<1> HIDE DEF c
<1>5. events' \in 0 .. MaxEvents
  BY InputsAssumption DEF RaiseBoth, EnvironmentEvent, Shape
<1>6. unguarded' \in SUBSET Modes
  BY <1>1 DEF RaiseBoth, Shape
<1> QED BY <1>3, <1>4, <1>5, <1>6, SendShape DEF RaiseBoth, Shape

LEMMA WriteShape ==
  ASSUME Shape, NEW m \in Modes, NEW v \in Written, WriteSetpoint(m, v)
  PROVE  Shape'
<1>1. Put(m, v) \in Command /\ Send(Put(m, v))
  BY InputsAssumption, PutShape DEF WriteSetpoint
<1>2. events' \in 0 .. MaxEvents
  BY InputsAssumption DEF WriteSetpoint, EnvironmentEvent, Shape
<1>3. unguarded' \in SUBSET Modes /\ stale' \in BOOLEAN
  BY DEF WriteSetpoint, Shape, LimitsUnderWay
<1> QED BY <1>1, <1>2, <1>3, SendShape DEF WriteSetpoint, Shape

(***************************************************************************)
(* What Unify is sent again.                                               *)
(***************************************************************************)
LEMMA Resent ==
  ASSUME Shape, NEW kind \in Kinds, Reconnect(kind), NEW c, c = retained[kind]
  PROVE  /\ c \in Command /\ commands' = Append(commands, c)
         /\ unguarded' = IF kind = "raise" \/ stale THEN unguarded \cup c.modes ELSE unguarded
BY DEF Reconnect, Shape

LEMMA ReconnectShape ==
  ASSUME Shape, NEW kind \in Kinds, Reconnect(kind)
  PROVE  Shape'
<1>1. PICK c : c = retained[kind]
  OBVIOUS
<1>2. c.modes \subseteq Modes
  BY <1>1, Resent DEF Command, RaiseCommands, WriteCommands
<1>3. commands' \in Seq(Command)
  <2>1. commands \in Seq(Command) /\ c \in Command /\ commands' = Append(commands, c)
    BY <1>1, Resent DEF Shape
  <2> QED BY <2>1
<1>4. unguarded' \in SUBSET Modes
  BY <1>1, <1>2, Resent DEF Shape
<1>5. events' \in 0 .. MaxEvents
  BY InputsAssumption DEF Reconnect, EnvironmentEvent, Shape
<1> QED BY <1>3, <1>4, <1>5 DEF Reconnect, Shape

LEMMA DeliverShape ==
  ASSUME Shape, Deliver
  PROVE  Shape'
<1> DEFINE r == Head(reports)
<1>1. r \in Report(limited) /\ Tail(reports) \in Seq(Report(limited))
  BY DEF Deliver, Shape
<1>2. /\ r[1] \in Modes /\ r[2] \in Attributes /\ r[3] \in Int16Range
      /\ r[2] \in Limits => limited /\ r[3] \in LimitRange
  BY <1>1 DEF Report, Limits, Attributes
<1>3. cache' = [cache EXCEPT ![r[1]][r[2]] = r[3]]
  BY DEF Deliver
<1> HIDE DEF r
<1>4. cache' \in [Modes -> [Attributes -> Int16Range \cup {Missing}]]
  BY <1>2, <1>3 DEF Shape
<1>5. \A m \in Modes, a \in Limits :
        /\ cache'[m][a] \in LimitRange \cup {Missing}
        /\ ~limited => cache'[m][a] = Missing
  BY <1>2, <1>3 DEF Shape, Limits, Attributes
<1> QED BY <1>1, <1>4, <1>5 DEF Deliver, Shape

(***************************************************************************)
(* What a local change makes of the thermostat.                            *)
(***************************************************************************)
LEMMA Changed ==
  ASSUME Shape, NEW s \in Situations, NEW o \in Orders, LocalChange(s, o)
  PROVE  /\ s[1] \in Modes
         /\ device' \in [Modes -> [Attributes -> Int16Range]]
         /\ device'[s[1]]["setpoint"] = s[2]
         /\ device'[s[1]]["min"] = s[3] /\ device'[s[1]]["max"] = s[4]
         /\ \A m \in Modes \ {s[1]} : device'[m] = device[m]
         /\ s[3] \in LimitRange /\ s[4] \in LimitRange /\ s[3] <= s[2] /\ s[2] <= s[4]
         /\ ~limited => s[3] = Default[s[1]]["min"] /\ s[4] = Default[s[1]]["max"]
         /\ reports' = Published(reports, device', s[1], o)
         /\ unguarded' = IF CommandUnderWay(s[1]) THEN unguarded \cup {s[1]}
                                                  ELSE unguarded \ {s[1]}
         /\ stale' = (\/ stale
                      \/ /\ s[1] \in retained["write"].modes
                         /\ s[3] # device[s[1]]["min"] \/ s[4] # device[s[1]]["max"])
<1> DEFINE now == [a \in Attributes |-> IF a = "setpoint" THEN s[2]
                                      ELSE IF a = "min" THEN s[3] ELSE s[4]]
<1>1. /\ s[1] \in Modes /\ s[2] \in Int16Range /\ s[3] \in LimitRange /\ s[4] \in LimitRange
      /\ s[3] <= s[2] /\ s[2] <= s[4]
  BY SituationsAssumption
<1>2. now \in [Attributes -> Int16Range]
  BY <1>1, Defaults
<1>3. now["setpoint"] = s[2] /\ now["min"] = s[3] /\ now["max"] = s[4]
  BY DEF Attributes
<1>4. /\ device' = [device EXCEPT ![s[1]] = now]
      /\ reports' = Published(reports, device', s[1], o)
      /\ unguarded' = IF CommandUnderWay(s[1]) THEN unguarded \cup {s[1]} ELSE unguarded \ {s[1]}
      /\ ~limited => s[3] = Default[s[1]]["min"] /\ s[4] = Default[s[1]]["max"]
      /\ stale' = (\/ stale
                   \/ /\ s[1] \in retained["write"].modes
                      /\ s[3] # device[s[1]]["min"] \/ s[4] # device[s[1]]["max"])
  BY DEF LocalChange
<1> HIDE DEF now
<1>5. device \in [Modes -> [Attributes -> Int16Range]]
  BY DEF Shape
<1>6. /\ device' \in [Modes -> [Attributes -> Int16Range]]
      /\ device'[s[1]] = now
      /\ \A m \in Modes \ {s[1]} : device'[m] = device[m]
  BY <1>1, <1>2, <1>4, <1>5
<1> QED BY <1>1, <1>3, <1>4, <1>6

LEMMA LocalChangeShape ==
  ASSUME Shape, NEW s \in Situations, NEW o \in Orders, LocalChange(s, o)
  PROVE  Shape'
<1>1. ASSUME NEW m \in Modes, NEW a \in Limits
      PROVE  /\ device'[m][a] \in LimitRange
             /\ ~limited => device'[m][a] = Default[m][a]
  <2>1. CASE m = s[1]
    <3>1. /\ device'[m]["min"] \in LimitRange /\ device'[m]["max"] \in LimitRange
          /\ ~limited => /\ device'[m]["min"] = Default[m]["min"]
                         /\ device'[m]["max"] = Default[m]["max"]
      BY <2>1, Changed
    <3> QED BY <3>1 DEF Limits
  <2>2. CASE m # s[1]
    <3>1. device'[m] = device[m]
      BY <2>2, Changed
    <3> QED BY <3>1 DEF Shape
  <2> QED BY <2>1, <2>2
<1>2. reports' \in Seq(Report(limited))
  <2>1. reports \in Seq(Report(limited)) /\ limited \in BOOLEAN
    BY DEF Shape
  <2>2. /\ s[1] \in Modes /\ device' \in [Modes -> [Attributes -> Int16Range]]
        /\ reports' = Published(reports, device', s[1], o)
    BY Changed
  <2> QED BY <1>1, <2>1, <2>2, PublishedShape
<1>3. events' \in 0 .. MaxEvents
  BY InputsAssumption DEF LocalChange, EnvironmentEvent, Shape
<1>4. unguarded' \in SUBSET Modes /\ stale' \in BOOLEAN
  BY Changed DEF Shape
<1>5. device' \in [Modes -> [Attributes -> Int16Range]]
  BY Changed
<1>6. UNCHANGED <<limited, commands, cache, retained>>
  BY DEF LocalChange
<1> QED BY <1>1, <1>2, <1>3, <1>4, <1>5, <1>6 DEF Shape

(***************************************************************************)
(* The next command and what the thermostat makes of it.                   *)
(***************************************************************************)
LEMMA Obeying ==
  ASSUME Shape, Obey, NEW c, c = Head(commands)
  PROVE  /\ c \in Command /\ Tail(commands) \in Seq(Command)
         /\ \A m \in Modes : Obeyed(m, c) \in Int16Range
         /\ device' \in [Modes -> [Attributes -> Int16Range]]
         /\ \A m \in Modes : /\ device'[m]["setpoint"] = Obeyed(m, c)
                             /\ \A a \in Limits : device'[m][a] = device[m][a]
         /\ reports' = Answered(Answered(reports, "heat", c), "cool", c)
<1>1. c \in Command /\ Tail(commands) \in Seq(Command)
  BY DEF Obey, Shape
<1>2. ASSUME NEW m \in Modes PROVE Obeyed(m, c) \in Int16Range
  <2>1. device[m]["setpoint"] \in Int16Range
    BY DEF Shape, Attributes
  <2>2. CASE c \in WriteCommands
    <3>1. c.value \in Int16Range /\ c.kind = "write"
      BY <2>2 DEF WriteCommands
    <3> QED BY <2>1, <3>1 DEF Obeyed
  <2>3. CASE c \in RaiseCommands
    <3>1. c.value \in Int8Range /\ c.kind = "raise"
      BY <2>3 DEF RaiseCommands
    <3>2. device[m]["setpoint"] + c.value * 10 \in Int
      BY <2>1, <3>1, Int16RangeIs DEF Int8Range
    <3> QED BY <2>1, <3>1, <3>2, Widths DEF Obeyed
  <2> QED BY <1>1, <2>2, <2>3 DEF Command
<1>3. /\ device' = [m \in Modes |-> [device[m] EXCEPT !["setpoint"] = Obeyed(m, c)]]
      /\ reports' = Answered(Answered(reports, "heat", c), "cool", c)
  BY DEF Obey
<1>4. device' \in [Modes -> [Attributes -> Int16Range]]
  BY <1>2, <1>3 DEF Shape
<1>5. ASSUME NEW m \in Modes
      PROVE  /\ device'[m]["setpoint"] = Obeyed(m, c)
             /\ \A a \in Limits : device'[m][a] = device[m][a]
  <2>1. device'[m] = [device[m] EXCEPT !["setpoint"] = Obeyed(m, c)]
    BY <1>3
  <2>2. device[m] \in [Attributes -> Int16Range]
    BY DEF Shape
  <2> QED BY <2>1, <2>2 DEF Attributes, Limits
<1> QED BY <1>1, <1>2, <1>3, <1>4, <1>5

LEMMA AnsweredShape ==
  ASSUME Shape, NEW q \in Seq(Report(limited)), NEW m \in Modes, NEW c, Obeyed(m, c) \in Int16Range
  PROVE  Answered(q, m, c) \in Seq(Report(limited))
<1>1. <<m, "setpoint", Obeyed(m, c)>> \in Report(limited)
  BY DEF Report, Attributes
<1> QED BY <1>1 DEF Answered

LEMMA ObeyShape ==
  ASSUME Shape, Obey
  PROVE  Shape'
<1> DEFINE c == Head(commands)
<1>1. /\ Tail(commands) \in Seq(Command)
      /\ \A m \in Modes : Obeyed(m, c) \in Int16Range
      /\ device' \in [Modes -> [Attributes -> Int16Range]]
      /\ \A m \in Modes, a \in Limits : device'[m][a] = device[m][a]
      /\ reports' = Answered(Answered(reports, "heat", c), "cool", c)
  BY Obeying
<1> HIDE DEF c
<1>2. "heat" \in Modes /\ "cool" \in Modes /\ reports \in Seq(Report(limited))
  BY DEF Modes, Shape
<1>3. Answered(reports, "heat", c) \in Seq(Report(limited))
  BY <1>1, <1>2, AnsweredShape
<1>4. reports' \in Seq(Report(limited))
  BY <1>1, <1>2, <1>3, AnsweredShape
<1>5. commands' = Tail(commands) /\ UNCHANGED <<limited, cache, retained, stale, unguarded, events>>
  BY DEF Obey
<1> QED BY <1>1, <1>4, <1>5 DEF Shape

LEMMA RestartShape ==
  ASSUME Shape, NEW o \in Orders, Restart(o)
  PROVE  Shape'
<1>1. "heat" \in Modes /\ "cool" \in Modes /\ limited \in BOOLEAN
  BY DEF Modes, Shape
<1>2. /\ device \in [Modes -> [Attributes -> Int16Range]]
      /\ \A m \in Modes, a \in Limits : device[m][a] \in LimitRange
  BY DEF Shape
<1>3. <<>> \in Seq(Report(limited))
  OBVIOUS
<1>4. Published(<<>>, device, "heat", o) \in Seq(Report(limited))
  BY <1>1, <1>2, <1>3, PublishedShape
<1>5. Published(Published(<<>>, device, "heat", o), device, "cool", o) \in Seq(Report(limited))
  BY <1>1, <1>2, <1>4, PublishedShape
<1>6. cache' = [m \in Modes |-> [a \in Attributes |-> Missing]]
  BY DEF Restart
<1>7. /\ cache' \in [Modes -> [Attributes -> Int16Range \cup {Missing}]]
      /\ \A m \in Modes, a \in Limits : cache'[m][a] = Missing
  BY <1>6 DEF Limits, Attributes
<1>8. events' \in 0 .. MaxEvents
  BY InputsAssumption DEF Restart, EnvironmentEvent, Shape
<1> QED BY <1>5, <1>7, <1>8 DEF Restart, Shape

LEMMA ShapeKept == Shape /\ [Next]_vars => Shape'
<1> SUFFICES ASSUME Shape, [Next]_vars PROVE Shape'
  OBVIOUS
<1>1. CASE Deliver
  BY <1>1, DeliverShape
<1>2. CASE Obey
  BY <1>2, ObeyShape
<1>3. CASE \E m \in Modes, amount \in Amounts : RaiseOne(m, amount)
  BY <1>3, RaiseOneShape
<1>4. CASE \E amount \in Amounts : RaiseBoth(amount)
  BY <1>4, RaiseBothShape
<1>5. CASE \E m \in Modes, v \in Written : WriteSetpoint(m, v)
  BY <1>5, WriteShape
<1>6. CASE \E s \in Situations, o \in Orders : LocalChange(s, o)
  BY <1>6, LocalChangeShape
<1>7. CASE \E o \in Orders : Restart(o)
  BY <1>7, RestartShape
<1>8. CASE \E kind \in Kinds : Reconnect(kind)
  BY <1>8, ReconnectShape
<1>9. CASE UNCHANGED vars
  BY <1>9 DEF vars, Shape
<1> QED BY <1>1, <1>2, <1>3, <1>4, <1>5, <1>6, <1>7, <1>8, <1>9 DEF Next

LEMMA AlwaysShape == Spec => []Shape
BY ShapeAtStart, ShapeKept, PTL DEF Spec

(***************************************************************************)
(* The values keep the widths of the code's types.                         *)
(***************************************************************************)
THEOREM TypeCorrect == Spec => []TypeOK
<1>1. Shape => TypeOK
  BY ShapeIsTyped
<1> QED BY <1>1, AlwaysShape, PTL

(***************************************************************************)
(* As long as the cached set point is within the cached limits, the bridge *)
(* forwards no more than was asked for and never the other way.            *)
(***************************************************************************)
THEOREM AlwaysNoMoreThanAsked == Spec => []NoMoreThanAsked
<1>1. Shape => NoMoreThanAsked
  BY ShapeIsTyped
<1> QED BY <1>1, AlwaysShape, PTL

-----------------------------------------------------------------------------
(* Reports keep the cache in step.                                            *)

About(q, i, m, a) == q[i][1] = m /\ q[i][2] = a

(***************************************************************************)
(* A cached value w, with the reports of queue q on their way, becomes v:  *)
(* the last report of the attribute says so, or there is none and w is v.  *)
(***************************************************************************)
Tells(q, m, a, w, v) ==
  /\ \A i \in 1 .. Len(q) :
       About(q, i, m, a) /\ (\A j \in (i + 1) .. Len(q) : ~About(q, j, m, a)) => q[i][3] = v
  /\ (\A i \in 1 .. Len(q) : ~About(q, i, m, a)) => w = v

Synced ==
  \A m \in Modes, a \in Attributes :
    a = "setpoint" \/ limited => Tells(reports, m, a, cache[m][a], device[m][a])

LEMMA TellsAppend ==
  ASSUME NEW S, NEW q \in Seq(S), NEW e \in S, NEW m, NEW a, NEW w, NEW v,
         \/ e[1] = m /\ e[2] = a /\ e[3] = v
         \/ ~(e[1] = m /\ e[2] = a) /\ Tells(q, m, a, w, v)
  PROVE  Tells(Append(q, e), m, a, w, v)
<1> DEFINE r == Append(q, e)
<1>1. /\ Len(q) \in Nat /\ Len(r) = Len(q) + 1 /\ r[Len(q) + 1] = e
      /\ \A i \in 1 .. Len(q) : r[i] = q[i]
  OBVIOUS
<1> HIDE DEF r
<1>2. CASE e[1] = m /\ e[2] = a /\ e[3] = v
  <2>1. About(r, Len(r), m, a) /\ Len(r) \in 1 .. Len(r)
    BY <1>1, <1>2 DEF About
  <2>2. ASSUME NEW i \in 1 .. Len(r), \A j \in (i + 1) .. Len(r) : ~About(r, j, m, a)
        PROVE  r[i][3] = v
    <3>1. ~(Len(r) \in (i + 1) .. Len(r))
      BY <2>1, <2>2
    <3>2. i = Len(q) + 1
      BY <1>1, <3>1
    <3> QED BY <1>1, <1>2, <3>2
  <2> QED BY <2>1, <2>2 DEF Tells, r
<1>3. CASE ~(e[1] = m /\ e[2] = a) /\ Tells(q, m, a, w, v)
  <2>1. ~About(r, Len(q) + 1, m, a)
    BY <1>1, <1>3 DEF About
  <2>2. \A i \in 1 .. Len(q) : About(r, i, m, a) <=> About(q, i, m, a)
    BY <1>1 DEF About
  <2>3. ASSUME NEW i \in 1 .. Len(r), About(r, i, m, a),
               \A j \in (i + 1) .. Len(r) : ~About(r, j, m, a)
        PROVE  r[i][3] = v
    <3>1. i \in 1 .. Len(q)
      BY <1>1, <2>1, <2>3
    <3>2. About(q, i, m, a) /\ \A j \in (i + 1) .. Len(q) : ~About(q, j, m, a)
      BY <1>1, <2>2, <2>3, <3>1
    <3>3. q[i][3] = v
      BY <1>3, <3>1, <3>2 DEF Tells
    <3> QED BY <1>1, <3>1, <3>3
  <2>4. ASSUME \A i \in 1 .. Len(r) : ~About(r, i, m, a)
        PROVE  w = v
    <3>1. \A i \in 1 .. Len(q) : ~About(q, i, m, a)
      BY <1>1, <2>2, <2>4
    <3> QED BY <1>3, <3>1 DEF Tells
  <2> QED BY <2>3, <2>4 DEF Tells, r
<1> QED BY <1>2, <1>3

LEMMA TellsTail ==
  ASSUME NEW S, NEW q \in Seq(S), Len(q) > 0, NEW m, NEW a, NEW w, NEW v, Tells(q, m, a, w, v)
  PROVE  Tells(Tail(q), m, a, IF q[1][1] = m /\ q[1][2] = a THEN q[1][3] ELSE w, v)
<1> DEFINE r == Tail(q)
<1>1. /\ Len(q) \in Nat /\ Len(r) = Len(q) - 1 /\ Len(r) \in Nat
      /\ \A i \in 1 .. Len(r) : r[i] = q[i + 1]
  OBVIOUS
<1> HIDE DEF r
<1>2. \A i \in 1 .. Len(r) : (About(r, i, m, a) <=> About(q, i + 1, m, a)) /\ i + 1 \in 1 .. Len(q)
  BY <1>1 DEF About
<1>3. \A j \in 2 .. Len(q) : j - 1 \in 1 .. Len(r) /\ (About(q, j, m, a) <=> About(r, j - 1, m, a))
  BY <1>1, <1>2
<1>4. ASSUME NEW i \in 1 .. Len(r), About(r, i, m, a),
             \A j \in (i + 1) .. Len(r) : ~About(r, j, m, a)
      PROVE  r[i][3] = v
  <2>1. About(q, i + 1, m, a) /\ i + 1 \in 1 .. Len(q)
    BY <1>2, <1>4
  <2>2. ASSUME NEW j \in ((i + 1) + 1) .. Len(q) PROVE ~About(q, j, m, a)
    <3>1. j \in 2 .. Len(q) /\ j - 1 \in (i + 1) .. Len(r)
      BY <1>1
    <3> QED BY <1>3, <1>4, <3>1
  <2>3. q[i + 1][3] = v
    BY <2>1, <2>2 DEF Tells
  <2> QED BY <1>1, <2>3
<1>5. ASSUME \A i \in 1 .. Len(r) : ~About(r, i, m, a)
      PROVE  (IF q[1][1] = m /\ q[1][2] = a THEN q[1][3] ELSE w) = v
  <2>1. \A j \in 2 .. Len(q) : ~About(q, j, m, a)
    BY <1>3, <1>5
  <2>2. CASE About(q, 1, m, a)
    <3>1. 1 \in 1 .. Len(q) /\ \A j \in (1 + 1) .. Len(q) : ~About(q, j, m, a)
      BY <1>1, <2>1
    <3>2. q[1][3] = v
      BY <2>2, <3>1 DEF Tells
    <3> QED BY <2>2, <3>2 DEF About
  <2>3. CASE ~About(q, 1, m, a)
    <3>1. \A j \in 1 .. Len(q) : ~About(q, j, m, a)
      BY <1>1, <2>1, <2>3
    <3> QED BY <2>3, <3>1 DEF Tells, About
  <2> QED BY <2>2, <2>3
<1> QED BY <1>4, <1>5 DEF Tells, r

LEMMA TellsPublished ==
  ASSUME limited \in BOOLEAN, NEW q \in Seq(Report(limited)), NEW mm \in Modes, NEW o \in Orders,
         NEW d \in [Modes -> [Attributes -> Int16Range]],
         \A a \in Limits : d[mm][a] \in LimitRange,
         NEW m \in Modes, NEW a \in Attributes, a = "setpoint" \/ limited, NEW w,
         m = mm \/ Tells(q, m, a, w, d[m][a])
  PROVE  Tells(Published(q, d, mm, o), m, a, w, d[m][a])
<1> DEFINE e(b) == <<mm, b, d[mm][b]>>
<1>1. \A b \in Attributes : b = "setpoint" \/ limited => e(b) \in Report(limited)
  BY DEF Report, Attributes, Limits
<1>2. \A b : e(b)[1] = mm /\ e(b)[2] = b /\ e(b)[3] = d[mm][b]
  OBVIOUS
<1>3. CASE limited
  <2> DEFINE q1 == Append(q, e(o[1]))
             q2 == Append(q1, e(o[2]))
             q3 == Append(q2, e(o[3]))
  <2>1. o[1] \in Attributes /\ o[2] \in Attributes /\ o[3] \in Attributes
    BY DEF Orders, Attributes
  <2>2. e(o[1]) \in Report(limited) /\ e(o[2]) \in Report(limited) /\ e(o[3]) \in Report(limited)
    BY <1>1, <1>3, <2>1
  <2> HIDE DEF e
  <2>3. q1 \in Seq(Report(limited))
    BY <2>2
  <2>4. q2 \in Seq(Report(limited))
    BY <2>2, <2>3
  <2>5. Published(q, d, mm, o) = q3
    BY <1>3 DEF Published, e
  <2> HIDE DEF q1, q2, q3
  <2>6. CASE m # mm
    <3>1. Tells(q1, m, a, w, d[m][a])
      BY <1>2, <2>2, <2>6, TellsAppend DEF q1
    <3>2. Tells(q2, m, a, w, d[m][a])
      BY <1>2, <2>2, <2>3, <2>6, <3>1, TellsAppend DEF q2
    <3>3. Tells(q3, m, a, w, d[m][a])
      BY <1>2, <2>2, <2>4, <2>6, <3>2, TellsAppend DEF q3
    <3> QED BY <2>5, <3>3
  <2>7. CASE m = mm
    <3>1. a = o[1] => Tells(q1, m, a, w, d[m][a])
      BY <1>2, <2>2, <2>7, TellsAppend DEF q1
    <3>2. a = o[1] \/ a = o[2] => Tells(q2, m, a, w, d[m][a])
      BY <1>2, <2>2, <2>3, <2>7, <3>1, TellsAppend DEF q2
    <3>3. a = o[1] \/ a = o[2] \/ a = o[3] => Tells(q3, m, a, w, d[m][a])
      BY <1>2, <2>2, <2>4, <2>7, <3>2, TellsAppend DEF q3
    <3>4. a = o[1] \/ a = o[2] \/ a = o[3]
      BY DEF Orders, Attributes
    <3> QED BY <2>5, <3>3, <3>4
  <2> QED BY <2>6, <2>7
<1>4. CASE ~limited
  <2>1. e("setpoint") \in Report(limited)
    BY <1>1 DEF Attributes
  <2>2. Published(q, d, mm, o) = Append(q, e("setpoint"))
    BY <1>4 DEF Published
  <2>3. a = "setpoint"
    BY <1>4
  <2> HIDE DEF e
  <2>4. Tells(Append(q, e("setpoint")), m, a, w, d[m][a])
    BY <1>2, <2>1, <2>3, TellsAppend
  <2> QED BY <2>2, <2>4
<1> QED BY <1>3, <1>4

(***************************************************************************)
(* A queue with the reports of the whole thermostat tells of all of it.    *)
(***************************************************************************)
LEMMA TellsAll ==
  ASSUME Shape, NEW o \in Orders, NEW m \in Modes, NEW a \in Attributes,
         a = "setpoint" \/ limited, NEW w
  PROVE  Tells(Published(Published(<<>>, device, "heat", o), device, "cool", o),
               m, a, w, device[m][a])
<1> DEFINE q1 == Published(<<>>, device, "heat", o)
<1>1. /\ limited \in BOOLEAN /\ "heat" \in Modes /\ "cool" \in Modes
      /\ device \in [Modes -> [Attributes -> Int16Range]]
      /\ \A mm \in Modes, b \in Limits : device[mm][b] \in LimitRange
      /\ m = "heat" \/ m = "cool"
  BY DEF Shape, Modes
<1>2. <<>> \in Seq(Report(limited))
  OBVIOUS
<1>3. q1 \in Seq(Report(limited))
  BY <1>1, <1>2, PublishedShape
<1>4. m = "heat" => Tells(q1, m, a, w, device[m][a])
  BY <1>1, <1>2, TellsPublished
<1> HIDE DEF q1
<1>5. Tells(Published(q1, device, "cool", o), m, a, w, device[m][a])
  BY <1>1, <1>3, <1>4, TellsPublished
<1> QED BY <1>5 DEF q1

LEMMA TellsAnswered ==
  ASSUME NEW q \in Seq(Report(limited)), NEW mm \in Modes, NEW c, Obeyed(mm, c) \in Int16Range,
         NEW m \in Modes, NEW a \in Attributes, NEW w, NEW v,
         IF m = mm /\ a = "setpoint" /\ mm \in c.modes THEN v = Obeyed(mm, c)
                                                     ELSE Tells(q, m, a, w, v)
  PROVE  Tells(Answered(q, mm, c), m, a, w, v)
<1> DEFINE e == <<mm, "setpoint", Obeyed(mm, c)>>
<1>1. e \in Report(limited)
  BY DEF Report, Attributes
<1>2. e[1] = mm /\ e[2] = "setpoint" /\ e[3] = Obeyed(mm, c)
  OBVIOUS
<1>3. CASE mm \in c.modes
  <2>1. Answered(q, mm, c) = Append(q, e)
    BY <1>3 DEF Answered
  <2> HIDE DEF e
  <2>2. \/ e[1] = m /\ e[2] = a /\ e[3] = v
        \/ ~(e[1] = m /\ e[2] = a) /\ Tells(q, m, a, w, v)
    BY <1>2, <1>3
  <2> QED BY <1>1, <2>1, <2>2, TellsAppend
<1>4. CASE mm \notin c.modes
  BY <1>4 DEF Answered
<1> QED BY <1>3, <1>4

-----------------------------------------------------------------------------
(* The reports under way tell the bridge of the thermostat as it is: an       *)
(* invariant of every step.                                                   *)

LEMMA SyncedAtStart == Init => Synced
<1> SUFFICES ASSUME Init, NEW m \in Modes, NEW a \in Attributes, a = "setpoint" \/ limited
             PROVE  Tells(reports, m, a, cache[m][a], device[m][a])
  BY DEF Synced
<1>1. PICK o \in Orders : reports = Published(Published(<<>>, device, "heat", o), device, "cool", o)
  BY DEF Init
<1> QED BY <1>1, ShapeAtStart, TellsAll

LEMMA DeliverSynced ==
  ASSUME Shape, Synced, Deliver
  PROVE  Synced'
<1> SUFFICES ASSUME NEW m \in Modes, NEW a \in Attributes, a = "setpoint" \/ limited
             PROVE  Tells(reports', m, a, cache'[m][a], device[m][a])
  BY DEF Synced, Deliver
<1> DEFINE r == Head(reports)
<1>1. /\ r \in Report(limited) /\ r = reports[1]
      /\ reports \in Seq(Report(limited)) /\ Len(reports) > 0 /\ reports' = Tail(reports)
      /\ cache' = [cache EXCEPT ![r[1]][r[2]] = r[3]]
  BY DEF Deliver, Shape
<1>2. r[1] \in Modes /\ r[2] \in Attributes
  BY <1>1 DEF Report
<1> HIDE DEF r
<1>3. cache'[m][a] = IF r[1] = m /\ r[2] = a THEN r[3] ELSE cache[m][a]
  BY <1>1, <1>2 DEF Shape
<1>4. Tells(reports, m, a, cache[m][a], device[m][a])
  BY DEF Synced
<1> QED BY <1>1, <1>3, <1>4, TellsTail

LEMMA ObeySynced ==
  ASSUME Shape, Synced, Obey
  PROVE  Synced'
<1> SUFFICES ASSUME NEW m \in Modes, NEW a \in Attributes, a = "setpoint" \/ limited
             PROVE  Tells(reports', m, a, cache[m][a], device'[m][a])
  BY DEF Synced, Obey
<1> DEFINE c == Head(commands)
<1>1. /\ \A mm \in Modes : Obeyed(mm, c) \in Int16Range
      /\ \A mm \in Modes : /\ device'[mm]["setpoint"] = Obeyed(mm, c)
                           /\ \A b \in Limits : device'[mm][b] = device[mm][b]
      /\ reports' = Answered(Answered(reports, "heat", c), "cool", c)
  BY Obeying
<1> HIDE DEF c
<1>2. /\ "heat" \in Modes /\ "cool" \in Modes /\ reports \in Seq(Report(limited))
      /\ m = "heat" \/ m = "cool"
      /\ a = "setpoint" \/ a \in Limits
  BY DEF Modes, Shape, Attributes, Limits
<1>3. Answered(reports, "heat", c) \in Seq(Report(limited))
  BY <1>1, <1>2, AnsweredShape
<1>4. Tells(reports, m, a, cache[m][a], device[m][a])
  BY DEF Synced
<1>5. ~(a = "setpoint" /\ m \in c.modes) => device'[m][a] = device[m][a]
  BY <1>1, <1>2 DEF Obeyed
<1>6. ~(m = "cool" /\ a = "setpoint" /\ m \in c.modes)
        => Tells(Answered(reports, "heat", c), m, a, cache[m][a], device'[m][a])
  BY <1>1, <1>2, <1>4, <1>5, TellsAnswered
<1> QED BY <1>1, <1>2, <1>3, <1>6, TellsAnswered

LEMMA LocalChangeSynced ==
  ASSUME Shape, Synced, NEW s \in Situations, NEW o \in Orders, LocalChange(s, o)
  PROVE  Synced'
<1> SUFFICES ASSUME NEW m \in Modes, NEW a \in Attributes, a = "setpoint" \/ limited
             PROVE  Tells(reports', m, a, cache[m][a], device'[m][a])
  BY DEF Synced, LocalChange
<1>1. /\ s[1] \in Modes
      /\ device' \in [Modes -> [Attributes -> Int16Range]]
      /\ m # s[1] => device'[m] = device[m]
      /\ reports' = Published(reports, device', s[1], o)
      /\ \A b \in Limits : device'[s[1]][b] \in LimitRange
  BY Changed DEF Limits
<1>2. limited \in BOOLEAN /\ reports \in Seq(Report(limited))
  BY DEF Shape
<1>3. Tells(reports, m, a, cache[m][a], device[m][a])
  BY DEF Synced
<1>4. m = s[1] \/ Tells(reports, m, a, cache[m][a], device'[m][a])
  BY <1>1, <1>3
<1> QED BY <1>1, <1>2, <1>4, TellsPublished

LEMMA RestartSynced ==
  ASSUME Shape, NEW o \in Orders, Restart(o)
  PROVE  Synced'
<1> SUFFICES ASSUME NEW m \in Modes, NEW a \in Attributes, a = "setpoint" \/ limited
             PROVE  Tells(reports', m, a, cache'[m][a], device[m][a])
  BY DEF Synced, Restart
<1>1. reports' = Published(Published(<<>>, device, "heat", o), device, "cool", o)
  BY DEF Restart
<1> QED BY <1>1, TellsAll

(***************************************************************************)
(* The cache has an attribute of which no report is under way.             *)
(***************************************************************************)
LEMMA CachedWhenQuiet ==
  ASSUME Shape, Synced, NEW m \in Modes, NEW a \in Attributes, a = "setpoint" \/ limited,
         \A i \in 1 .. Len(reports) : ~About(reports, i, m, a)
  PROVE  cache[m][a] = device[m][a] /\ cache[m][a] # Missing
<1>1. Tells(reports, m, a, cache[m][a], device[m][a])
  BY DEF Synced
<1>2. cache[m][a] = device[m][a]
  BY <1>1 DEF Tells
<1>3. device[m][a] \in Int16Range
  BY DEF Shape
<1> QED BY <1>2, <1>3, Defaults

(***************************************************************************)
(* When no report of the limits of a mode is under way, the bridge goes by *)
(* them; when no report of the mode is, it knows the set point as well.    *)
(***************************************************************************)
LEMMA LimitsWhenQuiet ==
  ASSUME Shape, Synced, NEW m \in Modes, ~LimitsUnderWay(m)
  PROVE  \A a \in Limits : Limit(m, a) = device[m][a]
<1> SUFFICES ASSUME NEW a \in Limits PROVE Limit(m, a) = device[m][a]
  OBVIOUS
<1>1. a \in Attributes /\ a # "setpoint"
  BY DEF Limits, Attributes
<1>2. CASE limited
  <2>1. \A i \in 1 .. Len(reports) : ~About(reports, i, m, a)
    BY <1>1 DEF LimitsUnderWay, About
  <2> QED BY <1>1, <1>2, <2>1, CachedWhenQuiet DEF Limit
<1>3. CASE ~limited
  BY <1>3 DEF Limit, Shape
<1> QED BY <1>2, <1>3

LEMMA KnownWhenQuiet ==
  ASSUME Shape, Synced, NEW m \in Modes, ~ReportUnderWay(m)
  PROVE  /\ Known(m) /\ cache[m]["setpoint"] = device[m]["setpoint"]
         /\ \A a \in Limits : Limit(m, a) = device[m][a]
<1>1. \A i \in 1 .. Len(reports) : ~About(reports, i, m, "setpoint")
  BY DEF ReportUnderWay, About
<1>2. ~LimitsUnderWay(m)
  BY DEF ReportUnderWay, LimitsUnderWay
<1> QED BY <1>1, <1>2, CachedWhenQuiet, LimitsWhenQuiet DEF Known, Attributes

-----------------------------------------------------------------------------
(* The limits hold: the invariant behind StaysInLimits.                       *)

Within(d, m, v) == d[m]["min"] <= v /\ v <= d[m]["max"]

\* The set point of mode m of thermostat d after command c, which is about it.
Effect(d, m, c) ==
  IF c.kind = "write" THEN c.value ELSE Int16(d[m]["setpoint"] + c.value * 10)

(* The set point is within its limits, and so it will be after each command   *)
(* under way: a raise is the first of those about the mode.                   *)
Safe(q, d, m) ==
  /\ Within(d, m, d[m]["setpoint"])
  /\ \A i \in 1 .. Len(q) :
       m \in q[i].modes =>
         /\ Within(d, m, Effect(d, m, q[i]))
         /\ \A j \in 1 .. Len(q) : m \in q[j].modes /\ j < i => q[i].kind = "write"

Guarded == \A m \in Modes \ unguarded : Safe(commands, device, m)

(* So it will be after the retained write, unless that is out of date.        *)
Lasting ==
  ~stale => \A m \in retained["write"].modes :
              /\ retained["write"].kind = "write"
              /\ Within(device, m, retained["write"].value)

LEMMA SafeAppend ==
  ASSUME NEW S, NEW q \in Seq(S), NEW c \in S, NEW d, NEW m, Safe(q, d, m),
         m \in c.modes => /\ Within(d, m, Effect(d, m, c))
                          /\ \/ c.kind = "write"
                             \/ \A i \in 1 .. Len(q) : m \notin q[i].modes
  PROVE  Safe(Append(q, c), d, m)
<1> DEFINE r == Append(q, c)
<1>1. /\ Len(q) \in Nat /\ Len(r) = Len(q) + 1 /\ r[Len(q) + 1] = c
      /\ \A i \in 1 .. Len(q) : r[i] = q[i]
  OBVIOUS
<1> HIDE DEF r
<1>2. ASSUME NEW i \in 1 .. Len(r), m \in r[i].modes
      PROVE  /\ Within(d, m, Effect(d, m, r[i]))
             /\ \A j \in 1 .. Len(r) : m \in r[j].modes /\ j < i => r[i].kind = "write"
  <2>1. CASE i = Len(q) + 1
    <3>1. \A j \in 1 .. Len(r) : j < i => j \in 1 .. Len(q) /\ r[j] = q[j]
      BY <1>1, <2>1
    <3> QED BY <1>1, <1>2, <2>1, <3>1
  <2>2. CASE i # Len(q) + 1
    <3>1. i \in 1 .. Len(q) /\ r[i] = q[i]
      BY <1>1, <2>2
    <3>2. \A j \in 1 .. Len(r) : j < i => j \in 1 .. Len(q) /\ r[j] = q[j]
      BY <1>1, <3>1
    <3>3. /\ Within(d, m, Effect(d, m, q[i]))
          /\ \A j \in 1 .. Len(q) : m \in q[j].modes /\ j < i => q[i].kind = "write"
      BY <1>2, <3>1 DEF Safe
    <3> QED BY <3>1, <3>2, <3>3
  <2> QED BY <2>1, <2>2
<1> QED BY <1>2 DEF Safe, r

LEMMA SafeTail ==
  ASSUME NEW S, NEW q \in Seq(S), Len(q) > 0, NEW d, NEW e, NEW m, Safe(q, d, m),
         e[m]["min"] = d[m]["min"], e[m]["max"] = d[m]["max"],
         e[m]["setpoint"] = IF m \in q[1].modes THEN Effect(d, m, q[1]) ELSE d[m]["setpoint"]
  PROVE  Safe(Tail(q), e, m)
<1> DEFINE r == Tail(q)
<1>1. /\ Len(q) \in Nat /\ Len(r) = Len(q) - 1 /\ 1 \in 1 .. Len(q)
      /\ \A i \in 1 .. Len(r) : r[i] = q[i + 1] /\ i + 1 \in 1 .. Len(q) /\ 1 < i + 1
  OBVIOUS
<1> HIDE DEF r
<1>2. Within(e, m, e[m]["setpoint"])
  BY <1>1 DEF Safe, Within
<1>3. ASSUME NEW i \in 1 .. Len(r), m \in r[i].modes
      PROVE  /\ Within(e, m, Effect(e, m, r[i]))
             /\ \A j \in 1 .. Len(r) : m \in r[j].modes /\ j < i => r[i].kind = "write"
  <2>1. /\ i + 1 \in 1 .. Len(q) /\ r[i] = q[i + 1]
        /\ Within(d, m, Effect(d, m, q[i + 1]))
        /\ \A j \in 1 .. Len(q) : m \in q[j].modes /\ j < i + 1 => q[i + 1].kind = "write"
    BY <1>1, <1>3 DEF Safe
  <2>2. Effect(e, m, r[i]) = Effect(d, m, q[i + 1])
    <3>1. CASE m \in q[1].modes
      <4>1. q[i + 1].kind = "write"
        BY <1>1, <2>1, <3>1
      <4> QED BY <2>1, <4>1 DEF Effect
    <3>2. CASE m \notin q[1].modes
      BY <2>1, <3>2 DEF Effect
    <3> QED BY <3>1, <3>2
  <2>3. Within(e, m, Effect(e, m, r[i]))
    BY <2>1, <2>2 DEF Within
  <2>4. ASSUME NEW j \in 1 .. Len(r), m \in r[j].modes, j < i PROVE r[i].kind = "write"
    <3>1. j + 1 \in 1 .. Len(q) /\ r[j] = q[j + 1] /\ j + 1 < i + 1
      BY <1>1, <2>4
    <3> QED BY <2>1, <2>4, <3>1
  <2> QED BY <2>3, <2>4
<1> QED BY <1>2, <1>3 DEF Safe, r

(***************************************************************************)
(* A raise of a settled mode leads to a set point within its limits.       *)
(***************************************************************************)
LEMMA RaisedWithin ==
  ASSUME Shape, Synced, NEW m \in Modes, m \notin Unsettled, NEW amount \in Int8Range,
         Within(device, m, device[m]["setpoint"]), NEW c,
         c.kind = "raise", c.value = Forwarded(m, amount)
  PROVE  Known(m) /\ Within(device, m, Effect(device, m, c))
<1>1. /\ Known(m) /\ cache[m]["setpoint"] = device[m]["setpoint"]
      /\ Limit(m, "min") = device[m]["min"] /\ Limit(m, "max") = device[m]["max"]
  BY KnownWhenQuiet DEF Unsettled, Limits
<1>2. /\ device[m]["setpoint"] \in Int16Range
      /\ device[m]["min"] \in LimitRange /\ device[m]["max"] \in LimitRange
  BY DEF Shape, Attributes, Limits
<1>3. c.value = Cut(device[m]["setpoint"], amount, device[m]["min"], device[m]["max"])
  BY <1>1 DEF Forwarded
<1>4. /\ Int16(device[m]["setpoint"] + c.value * 10) = device[m]["setpoint"] + c.value * 10
      /\ device[m]["min"] <= device[m]["setpoint"] + c.value * 10
      /\ device[m]["setpoint"] + c.value * 10 <= device[m]["max"]
  BY <1>2, <1>3, CutKeepsLimits DEF Within
<1>5. Effect(device, m, c) = device[m]["setpoint"] + c.value * 10
  BY <1>4 DEF Effect
<1> QED BY <1>1, <1>4, <1>5 DEF Within

(***************************************************************************)
(* A further command keeps every mode safe that it is not about, and those *)
(* it leaves within their limits, if it is a write or they were settled.   *)
(***************************************************************************)
LEMMA SafeCommand ==
  ASSUME Shape, Guarded, NEW c \in Command, commands' = Append(commands, c), device' = device,
         unguarded \subseteq unguarded',
         \A m \in Modes \ unguarded' :
           m \in c.modes => /\ Within(device, m, Effect(device, m, c))
                            /\ c.kind = "write" \/ m \notin Unsettled
  PROVE  Guarded'
<1> SUFFICES ASSUME NEW m \in Modes \ unguarded'
             PROVE  Safe(commands', device', m)
  BY DEF Guarded
<1>1. Safe(commands, device, m) /\ commands \in Seq(Command)
  BY DEF Guarded, Shape
<1>2. m \in c.modes => \/ c.kind = "write"
                       \/ \A i \in 1 .. Len(commands) : m \notin commands[i].modes
  BY DEF Unsettled, CommandUnderWay
<1>3. Safe(Append(commands, c), device, m)
  BY <1>1, <1>2, SafeAppend
<1> QED BY <1>3

LEMMA NoMoreUnguarded ==
  ASSUME Shape, Guarded, NEW m \in Modes \ unguarded
  PROVE  Within(device, m, device[m]["setpoint"])
BY DEF Guarded, Safe

(***************************************************************************)
(* Raises leave the retained write alone.                                  *)
(***************************************************************************)
LEMMA RaiseLasting ==
  ASSUME Shape, Lasting, NEW c \in Command, c.kind = "raise", Send(c),
         UNCHANGED <<device, stale>>
  PROVE  Lasting'
<1>1. retained'["write"] = retained["write"]
  BY SendShape DEF Kinds
<1> QED BY <1>1 DEF Lasting

LEMMA RaiseOneGuarded ==
  ASSUME Shape, Synced, Guarded, Lasting,
         NEW m \in Modes, NEW amount \in Amounts, RaiseOne(m, amount)
  PROVE  Guarded' /\ Lasting'
<1> DEFINE c == IF Known(m) THEN Raise({m}, Forwarded(m, amount), amount, Inside(m))
                            ELSE Raise({}, 0, amount, FALSE)
<1>1. amount \in Int8Range /\ 0 \in Int8Range
  BY InputsAssumption DEF Int8Range
<1>2. /\ commands' = Append(commands, c) /\ device' = device /\ Send(c) /\ stale' = stale
      /\ unguarded' = unguarded \cup ({m} \cap Unsettled)
  BY DEF RaiseOne, Send
<1>3. c \in Command
  <2>1. CASE Known(m)
    BY <2>1, <1>1, ForwardedShape, RaiseShape DEF Inside
  <2>2. CASE ~Known(m)
    <3>1. {} \in SUBSET Modes
      OBVIOUS
    <3>2. Raise({}, 0, amount, FALSE) \in Command
      BY <1>1, <3>1, RaiseShape
    <3> QED BY <2>2, <3>2
  <2> QED BY <2>1, <2>2
<1>4. /\ c.kind = "raise" /\ c.modes \subseteq {m}
      /\ m \in c.modes => c.value = Forwarded(m, amount)
  BY DEF Raise
<1> HIDE DEF c
<1>5. ASSUME NEW n \in Modes \ unguarded', n \in c.modes
      PROVE  n \notin Unsettled /\ Within(device, n, Effect(device, n, c))
  <2>1. n = m /\ n \in Modes \ unguarded /\ n \notin Unsettled
    BY <1>2, <1>4, <1>5
  <2> QED BY <1>1, <1>4, <1>5, <2>1, NoMoreUnguarded, RaisedWithin
<1>6. Guarded'
  BY <1>2, <1>3, <1>5, SafeCommand
<1> QED BY <1>2, <1>3, <1>4, <1>6, RaiseLasting

LEMMA RaiseBothGuarded ==
  ASSUME Shape, Synced, Guarded, Lasting, NEW amount \in Amounts, RaiseBoth(amount)
  PROVE  Guarded' /\ Lasting'
<1> DEFINE c == Raise(Modes, IF Known("heat") THEN Forwarded("heat", amount) ELSE amount,
                      amount, Inside("heat"))
<1>1. amount \in Int8Range /\ "heat" \in Modes /\ Modes \in SUBSET Modes
  BY InputsAssumption DEF Modes
<1>2. /\ commands' = Append(commands, c) /\ device' = device /\ Send(c) /\ stale' = stale
      /\ unguarded' = unguarded \cup {"cool"} \cup ({"heat"} \cap Unsettled)
  BY DEF RaiseBoth, Send
<1>3. c \in Command
  <2>1. CASE Known("heat")
    BY <2>1, <1>1, ForwardedShape, RaiseShape DEF Inside
  <2>2. CASE ~Known("heat")
    BY <2>2, <1>1, RaiseShape DEF Inside
  <2> QED BY <2>1, <2>2
<1>4. c.kind = "raise" /\ (Known("heat") => c.value = Forwarded("heat", amount))
  BY DEF Raise
<1> HIDE DEF c
<1>5. ASSUME NEW n \in Modes \ unguarded', n \in c.modes
      PROVE  n \notin Unsettled /\ Within(device, n, Effect(device, n, c))
  <2>1. n = "heat" /\ n \in Modes \ unguarded /\ n \notin Unsettled
    BY <1>2, <1>5 DEF Modes
  <2>2. Known(n)
    BY <2>1, KnownWhenQuiet DEF Unsettled
  <2> QED BY <1>1, <1>4, <2>1, <2>2, NoMoreUnguarded, RaisedWithin
<1>6. Guarded'
  BY <1>2, <1>3, <1>5, SafeCommand
<1> QED BY <1>2, <1>3, <1>4, <1>6, RaiseLasting

LEMMA WriteGuarded ==
  ASSUME Shape, Synced, Guarded, NEW m \in Modes, NEW v \in Written, WriteSetpoint(m, v)
  PROVE  Guarded' /\ Lasting'
<1> DEFINE c == Put(m, v)
<1>1. /\ commands' = Append(commands, c) /\ device' = device /\ Send(c)
      /\ unguarded' = IF LimitsUnderWay(m) THEN unguarded \cup {m} ELSE unguarded
      /\ stale' = LimitsUnderWay(m)
      /\ Limit(m, "min") <= v /\ v <= Limit(m, "max")
  BY DEF WriteSetpoint, Send
<1>2. c \in Command
  BY InputsAssumption, PutShape
<1>3. c.kind = "write" /\ c.modes = {m} /\ c.value = v
  BY DEF Put
<1> HIDE DEF c
<1>4. ~LimitsUnderWay(m) => Within(device, m, v)
  BY <1>1, LimitsWhenQuiet DEF Within, Limits
<1>5. \A n \in Modes \ unguarded' :
        n \in c.modes => Within(device, n, Effect(device, n, c)) /\ c.kind = "write"
  BY <1>1, <1>3, <1>4 DEF Effect
<1>6. Guarded'
  BY <1>1, <1>2, <1>5, SafeCommand
<1>7. retained'["write"] = c
  BY <1>1, <1>2, <1>3, SendShape
<1>8. Lasting'
  BY <1>1, <1>3, <1>4, <1>7 DEF Lasting
<1> QED BY <1>6, <1>8

LEMMA ReconnectGuarded ==
  ASSUME Shape, Guarded, Lasting, NEW kind \in Kinds, Reconnect(kind)
  PROVE  Guarded' /\ Lasting'
<1>1. PICK c : c = retained[kind]
  OBVIOUS
<1>2. /\ c \in Command /\ commands' = Append(commands, c)
      /\ unguarded' = IF kind = "raise" \/ stale THEN unguarded \cup c.modes ELSE unguarded
      /\ UNCHANGED <<device, retained, stale>>
  BY <1>1, Resent DEF Reconnect
<1>3. ASSUME NEW n \in Modes \ unguarded', n \in c.modes
      PROVE  Within(device, n, Effect(device, n, c)) /\ c.kind = "write"
  <2>1. kind = "write" /\ ~stale
    BY <1>2, <1>3 DEF Kinds
  <2> QED BY <1>1, <1>3, <2>1 DEF Lasting, Effect
<1>4. Guarded'
  BY <1>2, <1>3, SafeCommand
<1>5. Lasting'
  BY <1>2 DEF Lasting
<1> QED BY <1>4, <1>5

LEMMA LocalChangeLasting ==
  ASSUME Shape, Lasting, NEW s \in Situations, NEW o \in Orders, LocalChange(s, o)
  PROVE  Lasting'
<1> SUFFICES ASSUME ~stale', NEW m \in retained["write"].modes
             PROVE  /\ retained["write"].kind = "write"
                    /\ Within(device', m, retained["write"].value)
  BY DEF Lasting, LocalChange
<1>1. retained["write"].kind = "write" /\ Within(device, m, retained["write"].value)
  BY Changed DEF Lasting
<1>2. m \in Modes
  BY DEF Shape, Kinds, Command, RaiseCommands, WriteCommands
<1>3. device'[m]["min"] = device[m]["min"] /\ device'[m]["max"] = device[m]["max"]
  BY <1>2, Changed
<1> QED BY <1>1, <1>3 DEF Within

LEMMA ObeyLasting ==
  ASSUME Shape, Lasting, Obey
  PROVE  Lasting'
<1> SUFFICES ASSUME ~stale, NEW m \in retained["write"].modes
             PROVE  /\ retained["write"].kind = "write"
                    /\ Within(device', m, retained["write"].value)
  BY DEF Lasting, Obey
<1>1. retained["write"].kind = "write" /\ Within(device, m, retained["write"].value)
  BY DEF Lasting
<1>2. m \in Modes
  BY DEF Shape, Kinds, Command, RaiseCommands, WriteCommands
<1>3. \A a \in Limits : device'[m][a] = device[m][a]
  BY <1>2, Obeying
<1> QED BY <1>1, <1>3 DEF Within, Limits

LEMMA LocalChangeGuarded ==
  ASSUME Shape, Guarded, NEW s \in Situations, NEW o \in Orders, LocalChange(s, o)
  PROVE  Guarded'
<1> SUFFICES ASSUME NEW m \in Modes \ unguarded'
             PROVE  Safe(commands, device', m)
  BY DEF Guarded, LocalChange
<1>1. CASE m = s[1]
  <2>1. /\ device'[m]["setpoint"] = s[2] /\ device'[m]["min"] = s[3] /\ device'[m]["max"] = s[4]
        /\ s[3] <= s[2] /\ s[2] <= s[4]
        /\ ~CommandUnderWay(m)
    BY <1>1, Changed
  <2>2. \A i \in 1 .. Len(commands) : m \notin commands[i].modes
    BY <2>1 DEF CommandUnderWay
  <2> QED BY <2>1, <2>2 DEF Safe, Within
<1>2. CASE m # s[1]
  <2>1. device'[m] = device[m] /\ m \in Modes \ unguarded
    BY <1>2, Changed
  <2>2. Safe(commands, device, m)
    BY <2>1 DEF Guarded
  <2>3. \A v : Within(device', m, v) <=> Within(device, m, v)
    BY <2>1 DEF Within
  <2>4. \A c : Effect(device', m, c) = Effect(device, m, c)
    BY <2>1 DEF Effect
  <2> QED BY <2>1, <2>2, <2>3, <2>4 DEF Safe
<1> QED BY <1>1, <1>2

LEMMA ObeyGuarded ==
  ASSUME Shape, Guarded, Obey
  PROVE  Guarded'
<1> SUFFICES ASSUME NEW m \in Modes \ unguarded
             PROVE  Safe(Tail(commands), device', m)
  BY DEF Guarded, Obey
<1> DEFINE c == Head(commands)
<1>1. /\ device'[m]["setpoint"] = Obeyed(m, c)
      /\ device'[m]["min"] = device[m]["min"] /\ device'[m]["max"] = device[m]["max"]
  BY Obeying DEF Limits
<1>2. commands \in Seq(Command) /\ Len(commands) > 0 /\ c = commands[1]
  BY DEF Shape, Obey
<1> HIDE DEF c
<1>3. Obeyed(m, c) = IF m \in c.modes THEN Effect(device, m, c) ELSE device[m]["setpoint"]
  BY DEF Obeyed, Effect
<1>4. Safe(commands, device, m)
  BY DEF Guarded
<1> QED BY <1>1, <1>2, <1>3, <1>4, SafeTail

LEMMA GuardedAtStart == Init => Guarded
<1> SUFFICES ASSUME Init, NEW m \in Modes PROVE Safe(commands, device, m)
  BY DEF Guarded
<1>1. /\ device[m]["setpoint"] = IF m = "heat" THEN 2000 ELSE 2600
      /\ device[m]["min"] = IF m = "heat" THEN 700 ELSE 1600
      /\ device[m]["max"] = IF m = "heat" THEN 3000 ELSE 3200
  BY DEF Init, Attributes, Default
<1>2. Within(device, m, device[m]["setpoint"])
  BY <1>1 DEF Within
<1> QED BY <1>2 DEF Init, Safe

LEMMA LastingAtStart == Init => Lasting
BY NothingShape DEF Init, Lasting, Kinds

LEMMA GuardedKept ==
  Shape /\ Synced /\ Guarded /\ Lasting /\ [Next]_vars => Synced' /\ Guarded' /\ Lasting'
<1> SUFFICES ASSUME Shape, Synced, Guarded, Lasting, [Next]_vars
             PROVE  Synced' /\ Guarded' /\ Lasting'
  OBVIOUS
<1>1. CASE Deliver
  <2>1. Guarded' /\ Lasting'
    BY <1>1 DEF Deliver, Guarded, Lasting
  <2> QED BY <1>1, <2>1, DeliverSynced
<1>2. CASE Obey
  BY <1>2, ObeySynced, ObeyGuarded, ObeyLasting
<1>3. ASSUME NEW m \in Modes, NEW amount \in Amounts, RaiseOne(m, amount)
      PROVE  Synced' /\ Guarded' /\ Lasting'
  <2>1. Synced'
    BY <1>3 DEF RaiseOne, Synced
  <2> QED BY <1>3, <2>1, RaiseOneGuarded
<1>4. ASSUME NEW amount \in Amounts, RaiseBoth(amount)
      PROVE  Synced' /\ Guarded' /\ Lasting'
  <2>1. Synced'
    BY <1>4 DEF RaiseBoth, Synced
  <2> QED BY <1>4, <2>1, RaiseBothGuarded
<1>5. ASSUME NEW m \in Modes, NEW v \in Written, WriteSetpoint(m, v)
      PROVE  Synced' /\ Guarded' /\ Lasting'
  <2>1. Synced'
    BY <1>5 DEF WriteSetpoint, Synced
  <2> QED BY <1>5, <2>1, WriteGuarded
<1>6. CASE \E s \in Situations, o \in Orders : LocalChange(s, o)
  BY <1>6, LocalChangeSynced, LocalChangeGuarded, LocalChangeLasting
<1>7. CASE \E o \in Orders : Restart(o)
  <2>1. Guarded' /\ Lasting'
    BY <1>7 DEF Restart, Guarded, Lasting
  <2> QED BY <1>7, <2>1, RestartSynced
<1>8. ASSUME NEW kind \in Kinds, Reconnect(kind)
      PROVE  Synced' /\ Guarded' /\ Lasting'
  <2>1. Synced'
    BY <1>8 DEF Reconnect, Synced
  <2> QED BY <1>8, <2>1, ReconnectGuarded
<1>9. CASE UNCHANGED vars
  BY <1>9 DEF vars, Synced, Guarded, Lasting
<1> QED BY <1>1, <1>2, <1>3, <1>4, <1>5, <1>6, <1>7, <1>8, <1>9 DEF Next

(***************************************************************************)
(* A set point leaves its limits only by a raise the bridge had to cut by  *)
(* values that were out of date or did not cut, a raise Unify was sent     *)
(* again, or a write tested by limits that were out of date when it was    *)
(* tested or are when it is sent again.                                    *)
(***************************************************************************)
THEOREM AlwaysStaysInLimits == Spec => []StaysInLimits
<1>1. Shape /\ Synced /\ Guarded => StaysInLimits
  BY DEF Guarded, Safe, Within, StaysInLimits
<1>2. Init => Synced /\ Guarded /\ Lasting
  BY SyncedAtStart, GuardedAtStart, LastingAtStart
<1>3. Shape /\ (Synced /\ Guarded /\ Lasting) /\ [Next]_vars => (Synced /\ Guarded /\ Lasting)'
  BY GuardedKept
<1> QED BY <1>1, <1>2, <1>3, AlwaysShape, PTL DEF Spec

=============================================================================
