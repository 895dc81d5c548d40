---------------------------- MODULE SchedulerCalls ----------------------------
(***************************************************************************)
(* The SafetyScheduler under any sequence of calls of its public methods,  *)
(* one call per step and time in between, and the promise its users rely   *)
(* on (PacedCommands).  A call is a step because no method awaits, except  *)
(* async_execute(), which awaits the command and so is two: CommandStarts  *)
(* and what becomes of the command.  Left out is async_execute() with a    *)
(* mode other than PRODUCTION, which the controller never passes.          *)
(***************************************************************************)
EXTENDS SafetyScheduler

VARIABLE scheduler

CallsInit == \E d \in StabilizationDelays : scheduler = NewScheduler(d)

Configure ==
  \E d \in StabilizationDelays : scheduler' = AfterConfigure(scheduler, d)

Pause == scheduler' = AfterPause(scheduler)

Reset == scheduler' = AfterReset(scheduler)

(* command_block_reason() finds a reason; also async_execute() when it     *)
(* refuses.                                                                *)
Refuse ==
  /\ CommandBlocked(scheduler)
  /\ scheduler' = AfterBlock(scheduler)

CommandStarts ==
  /\ ~CommandBlocked(scheduler)
  /\ scheduler' = AfterStart(scheduler)

CommandConfirmed ==
  /\ scheduler.locked
  /\ scheduler' = AfterConfirmation(scheduler)

CommandRaises ==
  /\ scheduler.locked
  /\ scheduler' = AfterFailure(scheduler)

(* Mutant of Elapse: remaining_seconds() without its max(0, ...).          *)
ElapseOn == scheduler' = AfterElapse(scheduler)

Elapse ==
  /\ Stabilizing(scheduler)
  /\ scheduler' = AfterElapse(scheduler)

CallsNext ==
  \/ Configure
  \/ Pause
  \/ Reset
  \/ Refuse
  \/ CommandStarts
  \/ CommandConfirmed
  \/ CommandRaises
  \/ Elapse

CallsSpec == CallsInit /\ [][CallsNext]_scheduler

-----------------------------------------------------------------------------
(* The record is a scheduler: in particular remaining_seconds() never      *)
(* drops below zero.                                                       *)
SchedulerTypeOK == scheduler \in Scheduler

(* While a command runs the scheduler is neither suspended nor in its      *)
(* delay: pause() and reset() leave a running command alone.               *)
RunningIsUndisturbed ==
  scheduler.locked => ~Suspended(scheduler) /\ ~Stabilizing(scheduler)

(* The abstract view: what runs, whether a command may be started, and how *)
(* long the scheduler still holds commands back.                           *)
Paced == INSTANCE PacedCommands
           WITH running <- scheduler.locked,
                armed <- ~Suspended(scheduler),
                quiet <- scheduler.remaining,
                delay <- scheduler.delay,
                Delays <- StabilizationDelays

(* The scheduler keeps the promise of PacedCommands, whatever its owner    *)
(* calls and in whatever order.                                            *)
CommandsArePaced == Paced!PacedSpec

=============================================================================
