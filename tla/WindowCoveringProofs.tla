-------------------------- MODULE WindowCoveringProofs --------------------------
(***************************************************************************)
(* The invariants of WindowCovering, for every length of travel, rounding  *)
(* of the percentage and bound.                                            *)
(***************************************************************************)
EXTENDS WindowCovering, TLAPS

(* Attributes of the covering and those the bridge keeps are of their types.  *)
LEMMA AttributesReported ==
  /\ "percentage" \in Reports /\ "mode" \in Reports
  /\ HasLift => "lift" \in Reports /\ "open" \in Reports /\ "closed" \in Reports
  /\ \A a \in Reports : a \in {"percentage", "mode", "lift", "open", "closed"}
BY DEF Reports

LEMMA NowIsInt ==
  ASSUME NEW a \in Reports, position \in Positions, mode \in Modes
  PROVE  Now(a) \in Int
<1>1. Percentage[position] \in Int
  <2>1. Percentage[position] \in 0 .. 100
    BY PositionsAssumption
  <2>2. QED
    BY <2>1
<1>2. position \in Int /\ Last \in Int
  BY PositionsAssumption DEF Positions
<1>3. mode \in Int
  BY DEF Modes, Normal, Calibration, Maintenance
<1>4. QED
  BY <1>1, <1>2, <1>3 DEF Now

LEMMA CommandSpent ==
  ASSUME left \in [commands : Nat, local : Nat], left.commands > 0
  PROVE  [left EXCEPT !.commands = @ - 1] \in [commands : Nat, local : Nat]
<1>1. left.commands - 1 \in Nat
  OBVIOUS
<1>2. QED
  BY <1>1

LEMMA LocalSpent ==
  ASSUME left \in [commands : Nat, local : Nat], left.local > 0
  PROVE  [left EXCEPT !.local = @ - 1] \in [commands : Nat, local : Nat]
<1>1. left.local - 1 \in Nat
  OBVIOUS
<1>2. QED
  BY <1>1

LEMMA StatusAfterType ==
  ASSUME NEW c \in Simple
  PROVE  StatusAfter(c) \in Ways \cup {"stopped"}
BY DEF StatusAfter, Ways

-----------------------------------------------------------------------------

LEMMA InitTyped ==
  ASSUME Init
  PROVE  TypeOK
<1>1. mode \in Modes /\ position \in Positions
  BY DEF Init, Modes, Normal
<1>2. reported \in [Reports -> Int]
  <2>1. \A a \in Reports : Now(a) \in Int
    BY <1>1, NowIsInt
  <2>2. QED
    BY <2>1 DEF Init
<1>3. reports \in [Reports -> Seq(Int)] /\ commands \in Seq(Commands)
  BY DEF Init
<1>4. left \in [commands : Nat, local : Nat]
  BY BoundsAssumption DEF Init
<1>5. QED
  BY <1>1, <1>2, <1>3, <1>4 DEF Init, TypeOK

LEMMA NextTyped ==
  ASSUME TypeOK, [Next]_vars
  PROVE  TypeOK'
<1> USE DEF TypeOK
<1>1. CASE \E c \in Simple : Invoke(c)
  <2>1. PICK c \in Simple : Invoke(c)
    BY <1>1
  <2>2. <<c>> \in Commands
    BY DEF Commands
  <2>3. commands' \in Seq(Commands) /\ status' \in Ways \cup {"stopped"} /\ blind' \in BOOLEAN
    <3>1. CASE IsAllowed
      <4>1. commands' = Append(commands, <<c>>) /\ status' = StatusAfter(c)
        BY <2>1, <3>1 DEF Invoke
      <4>2. blind' \in BOOLEAN
        BY <2>1, <3>1 DEF Invoke
      <4>3. QED
        BY <4>1, <4>2, <2>2, StatusAfterType
    <3>2. CASE ~IsAllowed
      BY <2>1, <3>2 DEF Invoke
    <3>3. QED
      BY <3>1, <3>2
  <2>4. left' \in [commands : Nat, local : Nat]
    BY <2>1, CommandSpent DEF Invoke
  <2>5. QED
    BY <2>1, <2>3, <2>4 DEF Invoke, covering
<1>2. CASE \E p \in Positions : InvokeGoTo(p)
  <2>1. PICK p \in Positions : InvokeGoTo(p)
    BY <1>2
  <2>2. <<"GoTo", p>> \in Commands
    BY DEF Commands
  <2>3. left' \in [commands : Nat, local : Nat]
    BY <2>1, CommandSpent DEF InvokeGoTo
  <2>4. QED
    BY <2>1, <2>2, <2>3 DEF InvokeGoTo, covering
<1>3. CASE \E a \in Reports : Deliver(a)
  <2>1. PICK a \in Reports : Deliver(a)
    BY <1>3
  <2>2. Head(reports[a]) \in Int /\ Tail(reports[a]) \in Seq(Int)
    BY <2>1 DEF Deliver
  <2>3. cache' \in [Reports -> Int] /\ reports' \in [Reports -> Seq(Int)]
    BY <2>1, <2>2 DEF Deliver
  <2>4. status' \in Ways \cup {"stopped"}
    BY <2>1 DEF Deliver
  <2>5. QED
    BY <2>1, <2>3, <2>4 DEF Deliver, covering
<1>4. CASE \E a \in Reports : Report(a)
  <2>1. PICK a \in Reports : Report(a)
    BY <1>4
  <2>2. Now(a) \in Int
    BY NowIsInt
  <2>3. reported' \in [Reports -> Int] /\ reports' \in [Reports -> Seq(Int)]
    BY <2>1, <2>2 DEF Report
  <2>4. QED
    BY <2>1, <2>3 DEF Report, covering
<1>5. CASE Restart
  <2>1. reports' \in [Reports -> Seq(Int)] /\ cache' \in [Reports -> Int]
    BY <1>5 DEF Restart, Missing
  <2>2. left' \in [commands : Nat, local : Nat]
    BY <1>5, LocalSpent DEF Restart
  <2>3. QED
    BY <1>5, <2>1, <2>2 DEF Restart, covering
<1>6. CASE Obey
  <2>1. Head(commands) \in Commands /\ Tail(commands) \in Seq(Commands)
    BY <1>6 DEF Obey
  <2>2. position' \in Positions /\ motion' \in Ways \cup {"stopped"}
    BY <1>6, <2>1 DEF Obey, Commands, Simple, Ways
  <2>3. QED
    BY <1>6, <2>1, <2>2 DEF Obey
<1>7. CASE Move
  BY <1>7, PositionsAssumption DEF Move, Positions, Ways
<1>8. CASE Local
  <2>1. left' \in [commands : Nat, local : Nat]
    BY <1>8, LocalSpent DEF Local
  <2>2. QED
    BY <1>8, <2>1 DEF Local
<1>9. CASE UNCHANGED vars
  BY <1>9 DEF vars, covering
<1>10. QED
  BY <1>1, <1>2, <1>3, <1>4, <1>5, <1>6, <1>7, <1>8, <1>9 DEF Next

(* The variables keep their types: a covering never leaves its travel, and the *)
(* bridge never makes up a status Matter does not know.                        *)
THEOREM TypeCorrect == Spec => []TypeOK
<1>1. Init => TypeOK
  BY InitTyped
<1>2. TypeOK /\ [Next]_vars => TypeOK'
  BY NextTyped
<1>3. QED
  BY <1>1, <1>2, PTL DEF Spec

-----------------------------------------------------------------------------
(* The limits never change: what is reported of them, and cached, is either    *)
(* nothing or the truth.                                                       *)
LimitsInv ==
  HasLift =>
    /\ reported.open = 0 /\ reported.closed = Last
    /\ cache.open \in {Missing, 0} /\ cache.closed \in {Missing, Last}
    /\ \A i \in 1 .. Len(reports.open) : reports.open[i] = 0
    /\ \A i \in 1 .. Len(reports.closed) : reports.closed[i] = Last

(* The last report on its way, or the cached one if there is none, is what the *)
(* covering last reported.                                                     *)
Latest(cached, onTheWay) ==
  IF Len(onTheWay) = 0 THEN cached ELSE onTheWay[Len(onTheWay)]

LatestInv == \A a \in Reports : Latest(cache[a], reports[a]) = reported[a]

(* A moving status is backed by a cached position away from its end: by the    *)
(* percentage, or with both limits known by the raw position.                  *)
Backed(end, limit) ==
  \/ cache.percentage # end
  \/ /\ HasLift
     /\ cache.open # Missing /\ cache.closed # Missing
     /\ cache.lift # cache[limit]

Opening == status = "opening" /\ ~blind => Backed(0, "open")
Closing == status = "closing" /\ ~blind => Backed(100, "closed")

IInv == TypeOK /\ LimitsInv /\ LatestInv /\ Opening /\ Closing

LEMMA LatestOfTail ==
  ASSUME NEW c \in Int, NEW q \in Seq(Int), q # <<>>
  PROVE  Latest(Head(q), Tail(q)) = Latest(c, q)
<1>1. Len(q) \in Nat \ {0}
  OBVIOUS
<1>2. Len(Tail(q)) = Len(q) - 1 /\ Head(q) = q[1]
  BY <1>1
<1>3. Len(q) > 1 => Tail(q)[Len(Tail(q))] = q[Len(q)]
  BY <1>1, <1>2
<1>4. QED
  BY <1>1, <1>2, <1>3 DEF Latest

LEMMA LatestOfAppend ==
  ASSUME NEW c \in Int, NEW q \in Seq(Int), NEW v \in Int
  PROVE  Latest(c, Append(q, v)) = v
<1>1. Len(Append(q, v)) = Len(q) + 1 /\ Len(q) \in Nat
  OBVIOUS
<1>2. Append(q, v)[Len(q) + 1] = v
  OBVIOUS
<1>3. Len(<<>>) = 0
  OBVIOUS
<1>4. Append(q, v) # <<>>
  BY <1>1, <1>3
<1>5. QED
  BY <1>1, <1>2, <1>4 DEF Latest

(* The elements of a report queue stay what they were.                        *)
LEMMA TailKeepsAll ==
  ASSUME NEW w \in Int, NEW q \in Seq(Int), q # <<>>, \A i \in 1 .. Len(q) : q[i] = w
  PROVE  Head(q) = w /\ \A i \in 1 .. Len(Tail(q)) : Tail(q)[i] = w
<1>1. Len(q) \in Nat \ {0} /\ Len(Tail(q)) = Len(q) - 1
  OBVIOUS
<1>2. Head(q) = w
  BY <1>1
<1>3. ASSUME NEW i \in 1 .. Len(Tail(q)) PROVE Tail(q)[i] = w
  <2>1. i + 1 \in 1 .. Len(q) /\ Tail(q)[i] = q[i + 1]
    BY <1>1
  <2>2. QED
    BY <2>1
<1>4. QED
  BY <1>2, <1>3

-----------------------------------------------------------------------------

LEMMA InitInv ==
  ASSUME Init
  PROVE  IInv
<1>1. TypeOK
  BY InitTyped
<1>2. LimitsInv
  <2>1. SUFFICES ASSUME HasLift PROVE LimitsInv
    BY DEF LimitsInv
  <2>2. reported.open = 0 /\ reported.closed = Last
    BY <2>1, AttributesReported DEF Init, Now
  <2>3. reports.open = <<>> /\ reports.closed = <<>>
    BY <2>1, AttributesReported DEF Init
  <2>4. QED
    BY <2>2, <2>3 DEF Init, LimitsInv
<1>3. LatestInv
  BY DEF Init, LatestInv, Latest
<1>4. Opening /\ Closing
  BY DEF Init, Opening, Closing
<1>5. QED
  BY <1>1, <1>2, <1>3, <1>4 DEF IInv

(* A step that leaves the reports and the cache alone.                         *)
LEMMA NothingReported ==
  ASSUME IInv, UNCHANGED <<reported, reports, cache>>
  PROVE  LimitsInv' /\ LatestInv'
BY DEF IInv, LimitsInv, LatestInv

LEMMA StatusKept ==
  ASSUME IInv, UNCHANGED <<cache, status, blind>>
  PROVE  Opening' /\ Closing'
BY DEF IInv, Opening, Closing, Backed

LEMMA InvokeBacked ==
  ASSUME IInv, NEW c \in Simple, Invoke(c)
  PROVE  Opening' /\ Closing'
<1>1. CASE ~IsAllowed
  <2>1. UNCHANGED <<cache, status, blind>>
    BY <1>1 DEF Invoke
  <2>2. QED
    BY <2>1, StatusKept
<1>2. CASE IsAllowed
  <2>1. /\ cache' = cache
        /\ status' = StatusAfter(c)
        /\ blind' = (HasLift /\ (cache.open = Missing) # (cache.closed = Missing))
    BY <1>2 DEF Invoke
  <2>2. ASSUME status' = "opening", ~blind' PROVE Backed(0, "open")'
    <3>1. Away(0, "open")
      BY <2>1, <2>2 DEF StatusAfter
    <3>2. QED
      BY <2>1, <2>2, <3>1 DEF Away, Backed
  <2>3. ASSUME status' = "closing", ~blind' PROVE Backed(100, "closed")'
    <3>1. Away(100, "closed")
      BY <2>1, <2>3 DEF StatusAfter
    <3>2. QED
      BY <2>1, <2>3, <3>1 DEF Away, Backed
  <2>4. QED
    BY <2>2, <2>3 DEF Opening, Closing
<1>3. QED
  BY <1>1, <1>2

LEMMA DeliverInv ==
  ASSUME IInv, NEW a \in Reports, Deliver(a)
  PROVE  LimitsInv' /\ LatestInv' /\ Opening' /\ Closing'
<1> DEFINE v == Head(reports[a])
<1>0. TypeOK
  BY DEF IInv
<1>1. /\ reports[a] # <<>> /\ reports[a] \in Seq(Int) /\ v \in Int
      /\ cache' = [cache EXCEPT ![a] = v]
      /\ reports' = [reports EXCEPT ![a] = Tail(reports[a])]
      /\ status' = IF AtEnd(a, v) THEN "stopped" ELSE status
      /\ UNCHANGED <<reported, blind>>
  BY <1>0 DEF Deliver, TypeOK
<1>2. LatestInv'
  <2>1. ASSUME NEW b \in Reports PROVE Latest(cache'[b], reports'[b]) = reported'[b]
    <3>1. CASE b = a
      <4>1. cache'[a] = v /\ reports'[a] = Tail(reports[a])
        BY <1>0, <1>1 DEF TypeOK
      <4>2. Latest(v, Tail(reports[a])) = Latest(cache[a], reports[a])
        BY <1>0, <1>1, LatestOfTail DEF TypeOK
      <4>3. QED
        BY <1>1, <3>1, <4>1, <4>2 DEF IInv, LatestInv
    <3>2. CASE b # a
      <4>1. cache'[b] = cache[b] /\ reports'[b] = reports[b]
        BY <1>0, <1>1, <3>2 DEF TypeOK
      <4>2. QED
        BY <1>1, <4>1 DEF IInv, LatestInv
    <3>3. QED
      BY <3>1, <3>2
  <2>2. QED
    BY <2>1 DEF LatestInv
<1>3. LimitsInv'
  <2>1. SUFFICES ASSUME HasLift PROVE LimitsInv'
    BY DEF LimitsInv
  <2>2. /\ reported'.open = 0 /\ reported'.closed = Last
        /\ Last \in Int
    BY <1>1, <2>1, PositionsAssumption DEF IInv, LimitsInv
  <2>3. cache'.open \in {Missing, 0} /\ \A i \in 1 .. Len(reports'.open) : reports'.open[i] = 0
    <3>1. CASE a = "open"
      <4>1. cache'.open = v /\ reports'.open = Tail(reports.open)
        BY <1>0, <1>1, <3>1 DEF TypeOK
      <4>2. \A i \in 1 .. Len(reports.open) : reports.open[i] = 0
        BY <2>1 DEF IInv, LimitsInv
      <4>3. v = 0 /\ \A i \in 1 .. Len(Tail(reports.open)) : Tail(reports.open)[i] = 0
        BY <1>1, <3>1, <4>2, TailKeepsAll
      <4>4. QED
        BY <4>1, <4>3
    <3>2. CASE a # "open"
      <4>1. cache'.open = cache.open /\ reports'.open = reports.open
        BY <1>0, <1>1, <2>1, <3>2, AttributesReported DEF TypeOK
      <4>2. QED
        BY <2>1, <4>1 DEF IInv, LimitsInv
    <3>3. QED
      BY <3>1, <3>2
  <2>4. cache'.closed \in {Missing, Last}
        /\ \A i \in 1 .. Len(reports'.closed) : reports'.closed[i] = Last
    <3>1. CASE a = "closed"
      <4>1. cache'.closed = v /\ reports'.closed = Tail(reports.closed)
        BY <1>0, <1>1, <3>1 DEF TypeOK
      <4>2. \A i \in 1 .. Len(reports.closed) : reports.closed[i] = Last
        BY <2>1 DEF IInv, LimitsInv
      <4>3. v = Last /\ \A i \in 1 .. Len(Tail(reports.closed)) : Tail(reports.closed)[i] = Last
        BY <1>1, <2>2, <3>1, <4>2, TailKeepsAll
      <4>4. QED
        BY <4>1, <4>3
    <3>2. CASE a # "closed"
      <4>1. cache'.closed = cache.closed /\ reports'.closed = reports.closed
        BY <1>0, <1>1, <2>1, <3>2, AttributesReported DEF TypeOK
      <4>2. QED
        BY <2>1, <4>1 DEF IInv, LimitsInv
    <3>3. QED
      BY <3>1, <3>2
  <2>5. QED
    BY <2>2, <2>3, <2>4 DEF LimitsInv
<1>4. ASSUME HasLift, cache.open # Missing, cache.closed # Missing
      PROVE  cache'.open = cache.open /\ cache'.closed = cache.closed
  <2>1. cache.open = 0 /\ cache.closed = Last
    BY <1>4 DEF IInv, LimitsInv
  <2>2. CASE a = "open"
    <3>1. reports.open[1] = 0
      BY <1>1, <1>4, <2>2 DEF IInv, LimitsInv
    <3>2. QED
      BY <1>0, <1>1, <1>4, <2>1, <2>2, <3>1, AttributesReported DEF TypeOK
  <2>3. CASE a = "closed"
    <3>1. reports.closed[1] = Last
      BY <1>1, <1>4, <2>3 DEF IInv, LimitsInv
    <3>2. QED
      BY <1>0, <1>1, <1>4, <2>1, <2>3, <3>1, AttributesReported DEF TypeOK
  <2>4. CASE a \notin {"open", "closed"}
    BY <1>0, <1>1, <1>4, <2>4, AttributesReported DEF TypeOK
  <2>5. QED
    BY <2>2, <2>3, <2>4
<1>5. Opening'
  <2>1. SUFFICES ASSUME status' = "opening", ~blind' PROVE Backed(0, "open")'
    BY DEF Opening
  <2>2. ~AtEnd(a, v) /\ status = "opening" /\ ~blind
    BY <1>1, <2>1
  <2>3. Backed(0, "open")
    BY <2>2 DEF IInv, Opening
  <2>4. CASE cache.percentage # 0
    <3>1. cache'.percentage # 0
      <4>1. CASE a = "percentage"
        <5>1. v # 0 /\ cache'.percentage = v
          BY <1>0, <1>1, <2>2, <4>1, AttributesReported DEF AtEnd, TypeOK
        <5>2. QED
          BY <5>1
      <4>2. CASE a # "percentage"
        BY <1>0, <1>1, <2>4, <4>2, AttributesReported DEF TypeOK
      <4>3. QED
        BY <4>1, <4>2
    <3>2. QED
      BY <3>1 DEF Backed
  <2>5. CASE /\ HasLift
             /\ cache.open # Missing /\ cache.closed # Missing
             /\ cache.lift # cache.open
    <3>1. cache'.open = cache.open /\ cache'.closed = cache.closed
      BY <1>4, <2>5
    <3>2. cache'.lift # cache'.open
      <4>1. CASE a = "lift"
        <5>1. v \notin {cache.open, cache.closed} /\ cache'.lift = v
          BY <1>0, <1>1, <2>2, <2>5, <4>1, AttributesReported DEF AtEnd, TypeOK
        <5>2. QED
          BY <3>1, <5>1
      <4>2. CASE a # "lift"
        BY <1>0, <1>1, <2>5, <3>1, <4>2, AttributesReported DEF TypeOK
      <4>3. QED
        BY <4>1, <4>2
    <3>3. QED
      BY <2>5, <3>1, <3>2 DEF Backed
  <2>6. QED
    BY <2>3, <2>4, <2>5 DEF Backed
<1>6. Closing'
  <2>1. SUFFICES ASSUME status' = "closing", ~blind' PROVE Backed(100, "closed")'
    BY DEF Closing
  <2>2. ~AtEnd(a, v) /\ status = "closing" /\ ~blind
    BY <1>1, <2>1
  <2>3. Backed(100, "closed")
    BY <2>2 DEF IInv, Closing
  <2>4. CASE cache.percentage # 100
    <3>1. cache'.percentage # 100
      <4>1. CASE a = "percentage"
        <5>1. v # 100 /\ cache'.percentage = v
          BY <1>0, <1>1, <2>2, <4>1, AttributesReported DEF AtEnd, TypeOK
        <5>2. QED
          BY <5>1
      <4>2. CASE a # "percentage"
        BY <1>0, <1>1, <2>4, <4>2, AttributesReported DEF TypeOK
      <4>3. QED
        BY <4>1, <4>2
    <3>2. QED
      BY <3>1 DEF Backed
  <2>5. CASE /\ HasLift
             /\ cache.open # Missing /\ cache.closed # Missing
             /\ cache.lift # cache.closed
    <3>1. cache'.open = cache.open /\ cache'.closed = cache.closed
      BY <1>4, <2>5
    <3>2. cache'.lift # cache'.closed
      <4>1. CASE a = "lift"
        <5>1. v \notin {cache.open, cache.closed} /\ cache'.lift = v
          BY <1>0, <1>1, <2>2, <2>5, <4>1, AttributesReported DEF AtEnd, TypeOK
        <5>2. QED
          BY <3>1, <5>1
      <4>2. CASE a # "lift"
        BY <1>0, <1>1, <2>5, <3>1, <4>2, AttributesReported DEF TypeOK
      <4>3. QED
        BY <4>1, <4>2
    <3>3. QED
      BY <2>5, <3>1, <3>2 DEF Backed
  <2>6. QED
    BY <2>3, <2>4, <2>5 DEF Backed
<1>7. QED
  BY <1>2, <1>3, <1>5, <1>6

LEMMA ReportInv ==
  ASSUME IInv, NEW a \in Reports, Report(a)
  PROVE  LimitsInv' /\ LatestInv' /\ Opening' /\ Closing'
<1>0. TypeOK
  BY DEF IInv
<1>1. /\ Now(a) \in Int /\ Now(a) # reported[a]
      /\ reported' = [reported EXCEPT ![a] = Now(a)]
      /\ reports' = [reports EXCEPT ![a] = Append(reports[a], Now(a))]
      /\ UNCHANGED <<cache, status, blind>>
  BY <1>0, NowIsInt DEF Report, TypeOK
<1>2. LatestInv'
  <2>1. ASSUME NEW b \in Reports PROVE Latest(cache'[b], reports'[b]) = reported'[b]
    <3>1. CASE b = a
      <4>1. reported'[a] = Now(a) /\ reports'[a] = Append(reports[a], Now(a))
        BY <1>0, <1>1 DEF TypeOK
      <4>2. Latest(cache[a], Append(reports[a], Now(a))) = Now(a)
        BY <1>0, <1>1, LatestOfAppend DEF TypeOK
      <4>3. QED
        BY <1>1, <3>1, <4>1, <4>2
    <3>2. CASE b # a
      <4>1. reported'[b] = reported[b] /\ reports'[b] = reports[b]
        BY <1>0, <1>1, <3>2 DEF TypeOK
      <4>2. QED
        BY <1>1, <4>1 DEF IInv, LatestInv
    <3>3. QED
      BY <3>1, <3>2
  <2>2. QED
    BY <2>1 DEF LatestInv
<1>3. LimitsInv'
  <2>1. SUFFICES ASSUME HasLift PROVE LimitsInv'
    BY DEF LimitsInv
  <2>2. a \notin {"open", "closed"}
    BY <1>1, <2>1 DEF IInv, LimitsInv, Now
  <2>3. /\ reported'.open = reported.open /\ reported'.closed = reported.closed
        /\ reports'.open = reports.open /\ reports'.closed = reports.closed
    BY <1>0, <1>1, <2>1, <2>2, AttributesReported DEF TypeOK
  <2>4. QED
    BY <1>1, <2>1, <2>3 DEF IInv, LimitsInv
<1>4. QED
  BY <1>1, <1>2, <1>3, StatusKept

LEMMA RestartInv ==
  ASSUME IInv, Restart
  PROVE  LimitsInv' /\ LatestInv' /\ Opening' /\ Closing'
<1>0. /\ cache' = [a \in Reports |-> Missing]
      /\ reports' = [a \in Reports |-> <<reported[a]>>]
      /\ status' = "stopped" /\ reported' = reported
  BY DEF Restart
<1>1. LatestInv'
  <2>1. ASSUME NEW a \in Reports PROVE Latest(cache'[a], reports'[a]) = reported'[a]
    <3>1. reports'[a] = <<reported[a]>>
      BY <1>0
    <3>2. QED
      BY <1>0, <3>1 DEF Latest
  <2>2. QED
    BY <2>1 DEF LatestInv
<1>2. LimitsInv'
  <2>1. SUFFICES ASSUME HasLift PROVE LimitsInv'
    BY DEF LimitsInv
  <2>2. /\ cache'.open = Missing /\ cache'.closed = Missing
        /\ reports'.open = <<0>> /\ reports'.closed = <<Last>>
    BY <1>0, <2>1, AttributesReported DEF IInv, LimitsInv
  <2>3. /\ \A i \in 1 .. Len(reports'.open) : reports'.open[i] = 0
        /\ \A i \in 1 .. Len(reports'.closed) : reports'.closed[i] = Last
    BY <2>2
  <2>4. reported'.open = 0 /\ reported'.closed = Last
    BY <1>0, <2>1 DEF IInv, LimitsInv
  <2>5. QED
    BY <2>2, <2>3, <2>4 DEF LimitsInv
<1>3. QED
  BY <1>0, <1>1, <1>2 DEF Opening, Closing

LEMMA NextInv ==
  ASSUME IInv, [Next]_vars
  PROVE  IInv'
<1>1. TypeOK'
  BY NextTyped DEF IInv
<1>2. LimitsInv' /\ LatestInv' /\ Opening' /\ Closing'
  <2>1. ASSUME NEW c \in Simple, Invoke(c) PROVE LimitsInv' /\ LatestInv' /\ Opening' /\ Closing'
    <3>1. UNCHANGED <<reported, reports, cache>>
      BY <2>1 DEF Invoke
    <3>2. QED
      BY <2>1, <3>1, InvokeBacked, NothingReported
  <2>2. ASSUME NEW p \in Positions, InvokeGoTo(p)
        PROVE  LimitsInv' /\ LatestInv' /\ Opening' /\ Closing'
    <3>1. UNCHANGED <<reported, reports, cache, status, blind>>
      BY <2>2 DEF InvokeGoTo
    <3>2. QED
      BY <3>1, NothingReported, StatusKept
  <2>3. CASE Obey \/ Move \/ Local \/ UNCHANGED vars
    <3>1. UNCHANGED <<reported, reports, cache, status, blind>>
      BY <2>3 DEF Obey, Move, Local, vars
    <3>2. QED
      BY <3>1, NothingReported, StatusKept
  <2>4. QED
    BY <2>1, <2>2, <2>3, DeliverInv, ReportInv, RestartInv DEF Next
<1>3. QED
  BY <1>1, <1>2 DEF IInv

LEMMA QuietIsTrue ==
  ASSUME IInv, Quiet, ~blind
  PROVE  ~MovingBeyond
<1>1. ASSUME NEW a \in Reports PROVE cache[a] = Now(a)
  BY DEF Quiet, IInv, LatestInv, Latest
<1>2. cache.percentage = Percentage[position]
  BY <1>1, AttributesReported DEF Now
<1>3. HasLift => cache.lift = position /\ cache.open = 0 /\ cache.closed = Last
  BY <1>1, AttributesReported DEF Now
<1>4. ~(position = 0 /\ status = "opening")
  BY <1>2, <1>3, PositionsAssumption DEF IInv, Opening, Backed
<1>5. ~(position = Last /\ status = "closing")
  BY <1>2, <1>3, PositionsAssumption DEF IInv, Closing, Backed
<1>6. QED
  BY <1>4, <1>5 DEF MovingBeyond

LEMMA BackedIsNotBeyond ==
  ASSUME IInv
  PROVE  NotBeyondKnownEnd
BY DEF IInv, Opening, Closing, Backed, NotBeyondKnownEnd

(* However commands, reports, restarts and what happens at the covering        *)
(* interleave, a quiet covering at one of its ends is not shown moving there.  *)
THEOREM AlwaysStoppedAtEnd == Spec => []QuietAtEndIsStopped
<1>1. Init => IInv
  BY InitInv
<1>2. IInv /\ [Next]_vars => IInv'
  BY NextInv
<1>3. IInv => QuietAtEndIsStopped
  BY QuietIsTrue DEF QuietAtEndIsStopped
<1>4. QED
  BY <1>1, <1>2, <1>3, PTL DEF Spec

(* The bridge never shows a motion towards an end it knows to be reached.      *)
THEOREM NeverBeyondKnownEnd == Spec => []NotBeyondKnownEnd
<1>1. Init => IInv
  BY InitInv
<1>2. IInv /\ [Next]_vars => IInv'
  BY NextInv
<1>3. IInv => NotBeyondKnownEnd
  BY BackedIsNotBeyond
<1>4. QED
  BY <1>1, <1>2, <1>3, PTL DEF Spec
=============================================================================
