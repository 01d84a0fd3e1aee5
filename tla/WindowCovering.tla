----------------------------- MODULE WindowCovering -----------------------------
(***************************************************************************)
(* The operational status of a bridged window covering.  Unify has no such *)
(* attribute, so the bridge makes one up (emulate_windowcovering.hpp): an   *)
(* UpOrOpen or DownOrClose from Matter sets it to moving when the cached    *)
(* position is not the end the command moves to, and StopMotion or the     *)
(* report of an end position sets it back.                                 *)
(*                                                                         *)
(* The covering, its reports and the commands on their way to it run at    *)
(* their own pace: the bridge decides on positions that may be out of date. *)
(***************************************************************************)
EXTENDS Integers, Sequences

CONSTANTS
  Last,           \* the raw position of the closed covering; the open one is at 0
  Percentage,     \* raw position -> the lift percentage the covering reports for it
  HasLift,        \* whether it reports its raw position and limits too
  MaxCommands,    \* bound: commands from Matter
  MaxLocal,       \* bound: changes at the covering that the bridge did not command
  MaxOnTheWay     \* bound: undelivered reports of one attribute

Positions == 0 .. Last

ASSUME PositionsAssumption ==
  /\ Last \in Nat \ {0}
  /\ Percentage \in [Positions -> 0 .. 100]
  /\ Percentage[0] = 0 /\ Percentage[Last] = 100
  /\ HasLift \in BOOLEAN

ASSUME BoundsAssumption ==
  MaxCommands \in Nat /\ MaxLocal \in Nat /\ MaxOnTheWay \in Nat \ {0}

(* What of the Mode attribute counts: the calibration and the maintenance bit. *)
Normal == 0
Calibration == 1
Maintenance == 2
Modes == {Normal, Calibration, Maintenance}
Ways == {"opening", "closing"}
Missing == -1

(* What the covering is told.                                                 *)
Simple == {"UpOrOpen", "DownOrClose", "StopMotion"}
Commands == {<<c>> : c \in Simple} \cup {<<"GoTo", p>> : p \in Positions}

(* Unify's attributes of the covering.                                        *)
Reports == {"percentage", "mode"} \cup (IF HasLift THEN {"lift", "open", "closed"} ELSE {})

VARIABLES
  position,       \* of the covering, raw
  motion,         \* of the covering: "stopped" or one of Ways
  mode,           \* of the covering
  reported,       \* what it last reported of each attribute, retained by the broker
  reports,        \* attribute -> the reports on their way to the bridge
  commands,       \* the commands on their way to the covering
  cache,          \* attribute -> the bridge's cached value, or Missing
  status,         \* OperationalStatus in the bridge's cache
  blind,          \* the last command came between the reports of the two limits: kept for
                  \* the properties, the bridge has no such variable
  left            \* the commands and local changes the bounds still allow

covering == <<position, motion, mode>>
vars == <<covering, reported, reports, commands, cache, status, blind, left>>

Now(a) ==
  IF a = "percentage" THEN Percentage[position]
  ELSE IF a = "lift" THEN position
  ELSE IF a = "open" THEN 0
  ELSE IF a = "closed" THEN Last
  ELSE mode

-----------------------------------------------------------------------------
(* Matter's commands.                                                         *)

(* Fault: the other end is taken for the command's.                            *)
AwayFromOther(end, limit) == cache.percentage \notin {Missing, 100 - end}

(* The end of travel is at 0 and at 100 percent, and at the installed limits.  *)
Away(end, limit) ==
  \/ cache.percentage \notin {Missing, end}
  \/ /\ HasLift
     /\ cache[limit] # Missing
     /\ cache.lift \notin {Missing, cache[limit]}

StatusAfter(command) ==
  IF command = "UpOrOpen" /\ Away(0, "open") THEN "opening"
  ELSE IF command = "DownOrClose" /\ Away(100, "closed") THEN "closing"
  ELSE "stopped"

IsAllowed == cache.mode = Normal

(* A command that is not allowed is answered, or left unanswered when the mode *)
(* is not known, without a change of state.                                   *)
Invoke(command) ==
  /\ left.commands > 0
  /\ left' = [left EXCEPT !.commands = @ - 1]
  /\ IF IsAllowed
     THEN /\ status' = StatusAfter(command)
          /\ commands' = Append(commands, <<command>>)
          /\ blind' = (HasLift /\ (cache.open = Missing) # (cache.closed = Missing))
     ELSE UNCHANGED <<status, commands, blind>>
  /\ UNCHANGED <<covering, reported, reports, cache>>

(* GoToLiftPercentage and GoToLiftValue are not emulated: they are published   *)
(* whatever the mode, and leave the status alone.                             *)
InvokeGoTo(p) ==
  /\ left.commands > 0
  /\ left' = [left EXCEPT !.commands = @ - 1]
  /\ commands' = Append(commands, <<"GoTo", p>>)
  /\ UNCHANGED <<covering, reported, reports, cache, status, blind>>

-----------------------------------------------------------------------------
(* The covering's reports at the bridge: the callback of the attribute first,  *)
(* then the cache.                                                            *)

(* Fault: the closed end is not looked at.                                    *)
AtOpenEnd(a, v) ==
  \/ a = "percentage" /\ v = 0
  \/ a = "lift" /\ v = cache.open

AtEnd(a, v) ==
  \/ a = "percentage" /\ v \in {0, 100}
  \/ /\ a = "lift"
     /\ cache.open # Missing /\ cache.closed # Missing
     /\ v \in {cache.open, cache.closed}

Deliver(a) ==
  /\ reports[a] # <<>>
  /\ LET v == Head(reports[a])
     IN /\ status' = IF AtEnd(a, v) THEN "stopped" ELSE status
        /\ cache' = [cache EXCEPT ![a] = v]
  /\ reports' = [reports EXCEPT ![a] = Tail(@)]
  /\ UNCHANGED <<covering, reported, commands, blind, left>>

(* The bridge starts anew: its caches are empty, and the broker sends what it  *)
(* retains once the bridge has subscribed.                                    *)
Restart ==
  /\ left.local > 0
  /\ left' = [left EXCEPT !.local = @ - 1]
  /\ cache' = [a \in Reports |-> Missing]
  /\ status' = "stopped"
  /\ reports' = [a \in Reports |-> <<reported[a]>>]
  /\ UNCHANGED <<covering, reported, commands, blind>>

-----------------------------------------------------------------------------
(* The covering.                                                              *)

(* A position to go to is reached in one step: what matters is where it stops. *)
Obey ==
  /\ commands # <<>>
  /\ commands' = Tail(commands)
  /\ LET c == Head(commands)
     IN \/ c[1] = "GoTo" /\ position' = c[2] /\ motion' = "stopped"
        \/ c[1] = "UpOrOpen" /\ motion' = "opening" /\ UNCHANGED position
        \/ c[1] = "DownOrClose" /\ motion' = "closing" /\ UNCHANGED position
        \/ c[1] = "StopMotion" /\ motion' = "stopped" /\ UNCHANGED position
  /\ UNCHANGED <<mode, reported, reports, cache, status, blind, left>>

Move ==
  \/ /\ motion = "opening"
     /\ IF position = 0
        THEN motion' = "stopped" /\ UNCHANGED position
        ELSE position' = position - 1 /\ UNCHANGED motion
     /\ UNCHANGED <<mode, reported, reports, commands, cache, status, blind, left>>
  \/ /\ motion = "closing"
     /\ IF position = Last
        THEN motion' = "stopped" /\ UNCHANGED position
        ELSE position' = position + 1 /\ UNCHANGED motion
     /\ UNCHANGED <<mode, reported, reports, commands, cache, status, blind, left>>

(* It is driven or halted by hand, or its mode is changed.                    *)
Local ==
  /\ left.local > 0
  /\ left' = [left EXCEPT !.local = @ - 1]
  /\ \/ motion' \in Ways \cup {"stopped"} /\ UNCHANGED mode
     \/ mode' \in Modes /\ UNCHANGED motion
  /\ UNCHANGED <<position, reported, reports, commands, cache, status, blind>>

(* It reports what has changed since its last report.                         *)
Report(a) ==
  /\ Now(a) # reported[a]
  /\ Len(reports[a]) < MaxOnTheWay
  /\ reported' = [reported EXCEPT ![a] = Now(a)]
  /\ reports' = [reports EXCEPT ![a] = Append(@, Now(a))]
  /\ UNCHANGED <<covering, commands, cache, status, blind, left>>

-----------------------------------------------------------------------------

(* A covering at rest that has reported, and a bridge that has heard of it.    *)
Init ==
  /\ position \in Positions
  /\ motion = "stopped"
  /\ mode = Normal
  /\ reported = [a \in Reports |-> Now(a)]
  /\ reports = [a \in Reports |-> <<>>]
  /\ commands = <<>>
  /\ cache = reported
  /\ status = "stopped"
  /\ blind = FALSE
  /\ left = [commands |-> MaxCommands, local |-> MaxLocal]

Next ==
  \/ \E c \in Simple : Invoke(c)
  \/ \E p \in Positions : InvokeGoTo(p)
  \/ \E a \in Reports : Deliver(a) \/ Report(a)
  \/ Restart
  \/ Obey \/ Move \/ Local

(* The broker delivers what was published, the covering moves and reports.    *)
Fairness ==
  /\ WF_vars(Obey)
  /\ WF_vars(Move)
  /\ \A a \in Reports : WF_vars(Deliver(a)) /\ WF_vars(Report(a))

Spec == Init /\ [][Next]_vars /\ Fairness

-----------------------------------------------------------------------------
(* Properties.                                                                *)

(* The cached operational status is one of the codes of a window covering,     *)
(* whatever was commanded and reported.                                        *)
TypeOK ==
  /\ position \in Positions
  /\ motion \in Ways \cup {"stopped"}
  /\ mode \in Modes
  /\ reported \in [Reports -> Int]
  /\ reports \in [Reports -> Seq(Int)]
  /\ commands \in Seq(Commands)
  /\ cache \in [Reports -> Int]
  /\ status \in Ways \cup {"stopped"}
  /\ blind \in BOOLEAN
  /\ left \in [commands : Nat, local : Nat]

AtRest == motion = "stopped" /\ commands = <<>>

(* Nothing is on its way and the covering has no more to report.              *)
Quiet == AtRest /\ \A a \in Reports : reports[a] = <<>> /\ Now(a) = reported[a]

MovingBeyond ==
  \/ position = 0 /\ status = "opening"
  \/ position = Last /\ status = "closing"

(* When all is quiet, a covering at one of its ends is not shown moving        *)
(* towards that end: whatever was out of date when a command came is put right *)
(* by the reports that come after it.                                         *)
QuietAtEndIsStopped == Quiet /\ ~blind => ~MovingBeyond

(* The status does not claim a motion towards an end the bridge itself knows   *)
(* the covering to be at, by percentage and by limit.                         *)
NotBeyondKnownEnd ==
  /\ status = "opening" /\ ~blind =>
       ~ (cache.percentage = 0 /\ (HasLift => cache.lift = cache.open))
  /\ status = "closing" /\ ~blind =>
       ~ (cache.percentage = 100 /\ (HasLift => cache.lift = cache.closed))

(* A covering that comes to rest at an end is not for ever shown moving there. *)
SettlesAtEnd ==
  /\ <>[](AtRest /\ position = 0) => <>[](status = "opening" => blind)
  /\ <>[](AtRest /\ position = Last) => <>[](status = "closing" => blind)
=============================================================================
