--------------------------- MODULE MainLoopProofs ---------------------------
(***************************************************************************)
(* What the mutex and the flag of the two threads guarantee, whatever the  *)
(* length of the work queue.                                               *)
(***************************************************************************)
EXTENDS MainLoop, TLAPS

Jobs == {"unify", "stop"}

StopQueued(w) == \E i \in 1..Len(w) : w[i] = "stop"

(***************************************************************************)
(* A thread that is between its lock and its unlock holds the mutex.       *)
(***************************************************************************)
HoldsMutex ==
  /\ matter \in {"run", "unlock"} => mutex = "matter"
  /\ unify \in {"schedule", "unlock"} => mutex = "unify"

(***************************************************************************)
(* A queue with a stop in it still has one when another job is appended or *)
(* when a job of the Unify thread is taken from its head.                  *)
(***************************************************************************)
LEMMA StopStaysBehind ==
  ASSUME NEW w \in Seq(Jobs), NEW j \in Jobs
  PROVE  /\ Append(w, j) \in Seq(Jobs)
         /\ j = "stop" \/ StopQueued(w) => StopQueued(Append(w, j))
         /\ Len(w) > 0 => /\ Tail(w) \in Seq(Jobs)
                          /\ Head(w) \in Jobs
                          /\ Head(w) = "unify" /\ StopQueued(w) => StopQueued(Tail(w))
<1>1. Append(w, j) \in Seq(Jobs)
  OBVIOUS
<1>2. Len(Append(w, j)) = Len(w) + 1 /\ Append(w, j)[Len(w) + 1] = j
  OBVIOUS
<1>3. \A i \in 1..Len(w) : Append(w, j)[i] = w[i]
  OBVIOUS
<1>4. Len(w) \in Nat
  OBVIOUS
<1>5. j = "stop" \/ StopQueued(w) => StopQueued(Append(w, j))
  <2>1. CASE j = "stop"
    BY <2>1, <1>2, <1>4 DEF StopQueued
  <2>2. CASE StopQueued(w)
    <3>1. PICK i \in 1..Len(w) : w[i] = "stop"
      BY <2>2 DEF StopQueued
    <3>2. i \in 1..Len(Append(w, j)) /\ Append(w, j)[i] = "stop"
      BY <3>1, <1>2, <1>3, <1>4
    <3> QED BY <3>2 DEF StopQueued
  <2> QED BY <2>1, <2>2
<1>6. ASSUME Len(w) > 0
      PROVE  /\ Tail(w) \in Seq(Jobs)
             /\ Head(w) \in Jobs
             /\ Head(w) = "unify" /\ StopQueued(w) => StopQueued(Tail(w))
  <2>1. Head(w) = w[1] /\ w[1] \in Jobs
    BY <1>6
  <2>2. Tail(w) \in Seq(Jobs) /\ Len(Tail(w)) = Len(w) - 1
    BY <1>6
  <2>3. \A i \in 1..(Len(w) - 1) : Tail(w)[i] = w[i + 1]
    BY <1>6
  <2>4. ASSUME Head(w) = "unify", StopQueued(w)  PROVE StopQueued(Tail(w))
    <3>1. PICK i \in 1..Len(w) : w[i] = "stop"
      BY <2>4 DEF StopQueued
    <3>2. i # 1
      BY <3>1, <2>1, <2>4
    <3>3. i - 1 \in 1..(Len(w) - 1) /\ (i - 1) + 1 = i
      BY <3>1, <3>2, <1>4
    <3>4. Tail(w)[i - 1] = "stop"
      BY <3>1, <3>3, <2>3
    <3> QED BY <3>3, <3>4, <2>2 DEF StopQueued
  <2> QED BY <2>1, <2>2, <2>4
<1> QED BY <1>1, <1>5, <1>6

(***************************************************************************)
(* The variables keep their types: main and run_unify.                     *)
(***************************************************************************)
THEOREM TypeCorrect == Spec => []TypeOK
<1>1. Init => TypeOK
  <2>1. <<>> \in Seq({"unify", "stop"})
    OBVIOUS
  <2> QED BY <2>1 DEF Init, TypeOK, MatterPlaces, UnifyPlaces
<1>2. TypeOK /\ [Next]_vars => TypeOK'
  <2> SUFFICES ASSUME TypeOK, [Next]_vars PROVE TypeOK'
    OBVIOUS
  <2> USE DEF MatterPlaces, UnifyPlaces
  <2>1. CASE TakeJob
    <3>1. work' \in Seq(Jobs)
      BY <2>1, StopStaysBehind DEF TakeJob, TypeOK, Jobs
    <3> QED BY <2>1, <3>1 DEF TakeJob, TypeOK, Jobs, platform
  <2>2. CASE MatterLocks \/ RunUnify \/ MatterUnlocks \/ ClearOnExit \/ ClearInMain \/ Join
    BY <2>2 DEF MatterLocks, RunUnify, MatterUnlocks, ClearOnExit, ClearInMain, Join,
                TypeOK, platform
  <2>3. CASE ScheduleStop \/ PlatformStops
    <3>1. work' \in Seq(Jobs)
      BY <2>3, StopStaysBehind DEF ScheduleStop, PlatformStops, TypeOK, Jobs
    <3> QED BY <2>3, <3>1 DEF ScheduleStop, PlatformStops, TypeOK, Jobs, platform
  <2>4. CASE ScheduleUnify
    <3>1. work' \in Seq(Jobs)
      BY <2>4, StopStaysBehind DEF ScheduleUnify, TypeOK, Jobs
    <3> QED BY <2>4, <3>1 DEF ScheduleUnify, TypeOK, Jobs, platform
  <2>5. CASE TestRunning \/ WaitReturns \/ TimerFires \/ UnifyLocks \/ UnifyUnlocks
    BY <2>5 DEF TestRunning, WaitReturns, TimerFires, UnifyLocks, UnifyUnlocks, TypeOK, platform
  <2>6. CASE Arrive \/ AskToExit
    BY <2>6 DEF Arrive, AskToExit, TypeOK
  <2>7. CASE Finished \/ UNCHANGED vars
    BY <2>7 DEF Finished, TypeOK, vars
  <2> QED BY <2>1, <2>2, <2>3, <2>4, <2>5, <2>6, <2>7 DEF Next, MatterNext, UnifyNext
<1> QED BY <1>1, <1>2, PTL DEF Spec

(***************************************************************************)
(* Unify's main loop never runs while the Unify thread is inside           *)
(* ScheduleWork, for a thread that is past its lock holds the mutex.       *)
(***************************************************************************)
THEOREM AlwaysRunsAlone == Spec => []RunsAlone
<1>1. Init => HoldsMutex
  BY DEF Init, HoldsMutex
<1>2. HoldsMutex /\ [Next]_vars => HoldsMutex'
  <2> SUFFICES ASSUME HoldsMutex, [Next]_vars PROVE HoldsMutex'
    OBVIOUS
  <2>1. CASE MatterNext
    BY <2>1 DEF MatterNext, TakeJob, MatterLocks, RunUnify, MatterUnlocks, ClearOnExit,
                ScheduleStop, ClearInMain, Join, HoldsMutex
  <2>2. CASE UnifyNext
    BY <2>2 DEF UnifyNext, TestRunning, WaitReturns, TimerFires, UnifyLocks, ScheduleUnify,
                UnifyUnlocks, HoldsMutex
  <2>3. CASE Arrive \/ AskToExit \/ PlatformStops
    BY <2>3 DEF Arrive, AskToExit, PlatformStops, HoldsMutex
  <2>4. CASE Finished \/ UNCHANGED vars
    BY <2>4 DEF Finished, HoldsMutex, vars
  <2> QED BY <2>1, <2>2, <2>3, <2>4 DEF Next
<1>3. HoldsMutex => RunsAlone
  BY DEF HoldsMutex, RunsAlone
<1> QED BY <1>1, <1>2, <1>3, PTL DEF Spec

(***************************************************************************)
(* A cleared flag always has the end of the platform with it or behind it: *)
(* no order of the two threads' steps clears it and loses the stop.        *)
(***************************************************************************)
THEOREM AlwaysClearedMeansStopping == Spec => []ClearedMeansStopping
<1>1. Init => ClearedMeansStopping
  BY DEF Init, ClearedMeansStopping
<1>2. TypeOK /\ ClearedMeansStopping /\ [Next]_vars => ClearedMeansStopping'
  <2> SUFFICES ASSUME TypeOK, ClearedMeansStopping, [Next]_vars
               PROVE  matterRunning' \/ Left' \/ matter' = "schedule" \/ StopQueued(work')
    BY DEF ClearedMeansStopping, StopQueued
  <2>0. matterRunning \/ Left \/ matter = "schedule" \/ StopQueued(work)
    BY DEF ClearedMeansStopping, StopQueued
  <2>1. work \in Seq(Jobs)
    BY DEF TypeOK, Jobs
  <2>2. CASE TakeJob
    <3>1. /\ Head(work) \in Jobs
          /\ (Head(work) = "unify" /\ StopQueued(work) => StopQueued(Tail(work)))
      BY <2>1, <2>2, StopStaysBehind DEF TakeJob, Jobs
    <3> QED BY <2>0, <2>2, <3>1 DEF TakeJob, Jobs, Left
  <2>3. CASE MatterLocks \/ RunUnify \/ MatterUnlocks \/ ClearOnExit \/ ClearInMain \/ Join
    BY <2>0, <2>3 DEF MatterLocks, RunUnify, MatterUnlocks, ClearOnExit, ClearInMain, Join, Left
  <2>4. CASE ScheduleStop \/ PlatformStops
    <3>1. StopQueued(work')
      BY <2>1, <2>4, StopStaysBehind DEF ScheduleStop, PlatformStops, Jobs
    <3> QED BY <3>1
  <2>5. CASE ScheduleUnify
    <3>1. StopQueued(work) => StopQueued(work')
      BY <2>1, <2>5, StopStaysBehind DEF ScheduleUnify, Jobs
    <3> QED BY <2>0, <2>5, <3>1 DEF ScheduleUnify, Left
  <2>6. CASE TestRunning \/ WaitReturns \/ TimerFires \/ UnifyLocks \/ UnifyUnlocks
    BY <2>0, <2>6 DEF TestRunning, WaitReturns, TimerFires, UnifyLocks, UnifyUnlocks, Left
  <2>7. CASE Arrive \/ AskToExit
    BY <2>0, <2>7 DEF Arrive, AskToExit, Left
  <2>8. CASE Finished \/ UNCHANGED vars
    BY <2>0, <2>8 DEF Finished, vars, Left
  <2> QED BY <2>2, <2>3, <2>4, <2>5, <2>6, <2>7, <2>8 DEF Next, MatterNext, UnifyNext
<1> QED BY <1>1, <1>2, TypeCorrect, PTL DEF Spec

=============================================================================
