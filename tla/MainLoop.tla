------------------------------ MODULE MainLoop ------------------------------
(***************************************************************************)
(* The two threads of the bridge (linux/src/matter_bridge_main.cpp).  The  *)
(* Unify thread waits for file descriptors and hands the work over to the  *)
(* Matter thread, whose event loop is the only place that calls Unify's    *)
(* main loop.  The flag matter_running, a mutex and the Matter platform's  *)
(* work queue are all that the threads share; the end of either side must  *)
(* end the other.                                                          *)
(*                                                                         *)
(* matter_running is a plain bool that both threads use: each read takes   *)
(* the value before or after a concurrent write, which is the interleaving *)
(* of the two steps, since the calls around it make the compiler reload it.*)
(***************************************************************************)
EXTENDS Naturals, Sequences

CONSTANT MaxQueue       \* jobs of the Unify thread that are told apart in the queue

ASSUME MaxQueueAssumption == MaxQueue \in Nat \ {0}

VARIABLES
  matter,               \* where the Matter thread is
  unify,                \* where the Unify thread is
  mutex,                \* the holder of unify_mutex
  matterRunning,        \* the flag matter_running
  work,                 \* the jobs ScheduleWork queued: "unify" or "stop"
  shutdown,             \* the local of call_unify_event_queue
  readable,             \* a descriptor Unify listens to has something to read
  exiting               \* Unify was asked to exit

vars == <<matter, unify, mutex, matterRunning, work, shutdown, readable, exiting>>

platform == <<readable, exiting>>

MatterPlaces == {"loop", "lock", "run", "unlock", "clear", "schedule", "left", "join", "returned"}
UnifyPlaces == {"test", "wait", "lock", "schedule", "unlock", "ended"}

(***************************************************************************)
(* ChipLinuxAppMainLoop has returned: the platform runs no more jobs.      *)
(***************************************************************************)
Left == matter \in {"left", "join", "returned"}

Init ==
  /\ matter = "loop"
  /\ unify = "test"
  /\ mutex = "none"
  /\ matterRunning = TRUE
  /\ work = <<>>
  /\ shutdown = FALSE
  /\ readable = FALSE
  /\ exiting = FALSE

-----------------------------------------------------------------------------
(* The Matter thread. *)

\* The event loop takes the next job of its queue.
TakeJob ==
  /\ matter = "loop"
  /\ Len(work) > 0
  /\ matter' = IF Head(work) = "unify" THEN "lock" ELSE "left"
  /\ work' = Tail(work)
  /\ UNCHANGED <<unify, mutex, matterRunning, shutdown, platform>>

\* A fault: the job is given up when the mutex is taken.
MatterTriesLock ==
  /\ matter = "lock"
  /\ IF mutex = "none" THEN mutex' = "matter" /\ matter' = "run"
                       ELSE mutex' = mutex /\ matter' = "loop"
  /\ UNCHANGED <<unify, matterRunning, work, shutdown, platform>>

MatterLocks ==
  /\ matter = "lock"
  /\ mutex = "none"
  /\ mutex' = "matter"
  /\ matter' = "run"
  /\ UNCHANGED <<unify, matterRunning, work, shutdown, platform>>

\* uic_main_loop_run handles all that is readable; FALSE says that Unify exits.
RunUnify ==
  /\ matter = "run"
  /\ readable' = FALSE
  /\ shutdown' = exiting
  /\ matter' = "unlock"
  /\ UNCHANGED <<unify, mutex, matterRunning, work, exiting>>

MatterUnlocks ==
  /\ matter = "unlock"
  /\ mutex' = "none"
  /\ matter' = IF shutdown THEN "clear" ELSE "loop"
  /\ UNCHANGED <<unify, matterRunning, work, shutdown, platform>>

\* A fault: the flag is cleared and the stop forgotten.
ClearOnExitOnly ==
  /\ matter = "clear"
  /\ matterRunning' = FALSE
  /\ matter' = "loop"
  /\ UNCHANGED <<unify, mutex, work, shutdown, platform>>

\* Unify exits: the flag is cleared and the stop of the event loop is scheduled.
ClearOnExit ==
  /\ matter = "clear"
  /\ matterRunning' = FALSE
  /\ matter' = "schedule"
  /\ UNCHANGED <<unify, mutex, work, shutdown, platform>>

ScheduleStop ==
  /\ matter = "schedule"
  /\ work' = Append(work, "stop")
  /\ matter' = "loop"
  /\ UNCHANGED <<unify, mutex, matterRunning, shutdown, platform>>

\* A fault: main joins without telling the Unify thread.
ClearForgotten ==
  /\ matter = "left"
  /\ matter' = "join"
  /\ UNCHANGED <<unify, mutex, matterRunning, work, shutdown, platform>>

\* main goes on behind ChipLinuxAppMainLoop.
ClearInMain ==
  /\ matter = "left"
  /\ matterRunning' = FALSE
  /\ matter' = "join"
  /\ UNCHANGED <<unify, mutex, work, shutdown, platform>>

Join ==
  /\ matter = "join"
  /\ unify = "ended"
  /\ matter' = "returned"
  /\ UNCHANGED <<unify, mutex, matterRunning, work, shutdown, platform>>

-----------------------------------------------------------------------------
(* The Unify thread. *)

TestRunning ==
  /\ unify = "test"
  /\ unify' = IF matterRunning THEN "wait" ELSE "ended"
  /\ UNCHANGED <<matter, mutex, matterRunning, work, shutdown, platform>>

\* uic_main_wait_for_file_descriptors returns for a descriptor ...
WaitReturns ==
  /\ unify = "wait"
  /\ readable
  /\ unify' = "lock"
  /\ UNCHANGED <<matter, mutex, matterRunning, work, shutdown, platform>>

\* ... or for a timer of Unify, which need not be set.
TimerFires ==
  /\ unify = "wait"
  /\ ~readable
  /\ unify' = "lock"
  /\ UNCHANGED <<matter, mutex, matterRunning, work, shutdown, platform>>

UnifyLocks ==
  /\ unify = "lock"
  /\ mutex = "none"
  /\ mutex' = "unify"
  /\ unify' = "schedule"
  /\ UNCHANGED <<matter, matterRunning, work, shutdown, platform>>

(***************************************************************************)
(* The platform's queue has no limit and the descriptors stay readable     *)
(* until the Matter thread reads them, so this thread queues the same job  *)
(* over and over.  Behind MaxQueue jobs one more makes no difference and   *)
(* is not recorded; the thread goes on all the same.                       *)
(***************************************************************************)
ScheduleUnify ==
  /\ unify = "schedule"
  /\ work' = IF Left \/ Len(work) >= MaxQueue THEN work ELSE Append(work, "unify")
  /\ unify' = "unlock"
  /\ UNCHANGED <<matter, mutex, matterRunning, shutdown, platform>>

UnifyUnlocks ==
  /\ unify = "unlock"
  /\ mutex' = "none"
  /\ unify' = "test"
  /\ UNCHANGED <<matter, matterRunning, work, shutdown, platform>>

-----------------------------------------------------------------------------
(* The world outside. *)

\* A message, a key or a timer for Unify.
Arrive ==
  /\ ~readable
  /\ ~Left
  /\ readable' = TRUE
  /\ UNCHANGED <<matter, unify, mutex, matterRunning, work, shutdown, exiting>>

\* The user or a signal asks Unify to exit, which its main loop has to handle.
AskToExit ==
  /\ ~exiting
  /\ exiting' = TRUE
  /\ readable' = TRUE
  /\ UNCHANGED <<matter, unify, mutex, matterRunning, work, shutdown>>

\* The Matter platform stops by itself, on a signal it handles.
PlatformStops ==
  /\ ~Left
  /\ \A i \in 1..Len(work) : work[i] # "stop"
  /\ work' = Append(work, "stop")
  /\ UNCHANGED <<matter, unify, mutex, matterRunning, shutdown, platform>>

\* main has returned.
Finished ==
  /\ matter = "returned"
  /\ UNCHANGED vars

-----------------------------------------------------------------------------
MatterNext ==
  \/ TakeJob \/ MatterLocks \/ RunUnify \/ MatterUnlocks
  \/ ClearOnExit \/ ScheduleStop \/ ClearInMain \/ Join

UnifyNext ==
  \/ TestRunning \/ WaitReturns \/ TimerFires
  \/ UnifyLocks \/ ScheduleUnify \/ UnifyUnlocks

Next == MatterNext \/ UnifyNext \/ Arrive \/ AskToExit \/ PlatformStops \/ Finished

(***************************************************************************)
(* Each thread goes on when it can, a readable descriptor ends the wait,   *)
(* and a thread that waits for a mutex that is free again and again gets   *)
(* it.  Nothing outside has to happen: no message, no timer, no request.   *)
(***************************************************************************)
Fairness ==
  /\ WF_vars(TakeJob)
  /\ SF_vars(MatterLocks)
  /\ WF_vars(RunUnify \/ MatterUnlocks \/ ClearOnExit \/ ScheduleStop \/ ClearInMain \/ Join)
  /\ WF_vars(TestRunning \/ WaitReturns \/ ScheduleUnify \/ UnifyUnlocks)
  /\ SF_vars(UnifyLocks)

Spec == Init /\ [][Next]_vars /\ Fairness

-----------------------------------------------------------------------------
(***************************************************************************)
(* The places, the holder, the flags and the jobs are what they should be. *)
(***************************************************************************)
TypeOK ==
  /\ matter \in MatterPlaces
  /\ unify \in UnifyPlaces
  /\ mutex \in {"none", "matter", "unify"}
  /\ matterRunning \in BOOLEAN
  /\ work \in Seq({"unify", "stop"})
  /\ shutdown \in BOOLEAN
  /\ readable \in BOOLEAN
  /\ exiting \in BOOLEAN

(***************************************************************************)
(* The mutex does what it is there for on the way of every message: the    *)
(* Unify thread is never inside ScheduleWork while the Matter thread is    *)
(* inside uic_main_loop_run (run_unify, call_unify_event_queue).           *)
(***************************************************************************)
RunsAlone == ~(matter = "run" /\ unify = "schedule")

(***************************************************************************)
(* The comment of run_unify: ScheduleWork is not thread safe and a mutex   *)
(* protects it, so two threads are never inside it at once.  The stop that *)
(* call_unify_event_queue schedules is outside the mutex.                  *)
(***************************************************************************)
ScheduleWorkAlone == ~(matter = "schedule" /\ unify = "schedule")

(***************************************************************************)
(* As long as the Unify thread is in its loop with the flag cleared, the   *)
(* platform is on its way out: a stop is queued or about to be, or the     *)
(* event loop has ended.  A flag that is cleared with no stop behind it    *)
(* would leave the Matter side running and nobody feeding it messages.     *)
(***************************************************************************)
ClearedMeansStopping ==
  matterRunning \/ Left \/ matter = "schedule" \/ \E i \in 1..Len(work) : work[i] = "stop"

(***************************************************************************)
(* A descriptor that becomes readable is read by Unify's main loop, unless *)
(* the bridge stops: the job queued for it is not lost, whatever the two   *)
(* threads do about the mutex (call_unify_event_queue).                    *)
(***************************************************************************)
EventsHandled == readable ~> (~readable \/ Left)

(***************************************************************************)
(* Once Unify is asked to exit, main returns, unless the Unify thread sits *)
(* in a wait that nothing ends: join waits for it (main), and clearing     *)
(* matter_running does not wake it.                                        *)
(***************************************************************************)
ExitCompletes == exiting ~> (matter = "returned" \/ (unify = "wait" /\ ~readable))

=============================================================================
