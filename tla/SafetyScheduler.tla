--------------------------- MODULE SafetyScheduler ---------------------------
(***************************************************************************)
(* The command scheduler of scheduler.py: it lets at most one DTU command  *)
(* run, and none during the stabilization delay that follows a confirmed   *)
(* one.                                                                    *)
(*                                                                         *)
(* A scheduler is a record.  `remaining' is remaining_seconds() in time    *)
(* units: 0 stands for "no _next_allowed_at" as for one that has passed.   *)
(* SchedulerState.VERIFYING is left out: no await separates it from        *)
(* WAITING, so nobody sees it.  Each method is an operator from the record *)
(* before the call to the record after it, so that a caller that calls     *)
(* several of them without awaiting (ZeroInjectionController) composes     *)
(* them.                                                                   *)
(***************************************************************************)
EXTENDS Integers

CONSTANT StabilizationDelays  (* delays that can be configured, in time units *)

ASSUME StabilizationAssumption == StabilizationDelays \subseteq Nat

SchedulerState == {"Idle", "Waiting", "Writing", "Error", "Paused"}

Scheduler ==
  [state     : SchedulerState,          (* _state                            *)
   locked    : BOOLEAN,                  (* _lock held by a running command   *)
   remaining : Nat,                      (* time left before _next_allowed_at *)
   delay     : StabilizationDelays]      (* _delay_seconds                    *)

NewScheduler(delay) ==
  [state |-> "Idle", locked |-> FALSE, remaining |-> 0, delay |-> delay]

(* Mutant of AfterConfigure: a delay that is running is set anew.          *)
AfterConfigureNow(s, delay) ==
  [s EXCEPT !.delay = delay, !.remaining = IF @ > 0 THEN delay ELSE 0]

(* configure(): a delay that is running keeps its length.                  *)
AfterConfigure(s, delay) == [s EXCEPT !.delay = delay]

Suspended(s) == s.state \in {"Paused", "Error"}

StillStabilizing(s) == s.remaining >= 0  (* mutant of Stabilizing *)

Stabilizing(s) == s.remaining > 0

(* Mutant of AfterPause: the lock is not asked.                            *)
AfterPauseAnyway(s) == [s EXCEPT !.state = "Paused"]

(* pause(): ignored while a command runs; overwrites every other state and *)
(* leaves the delay running.                                               *)
AfterPause(s) == IF s.locked THEN s ELSE [s EXCEPT !.state = "Paused"]

(* reset(): ignored while a command runs; otherwise forgets the state and  *)
(* the delay.                                                              *)
AfterReset(s) == IF s.locked THEN s ELSE [s EXCEPT !.state = "Idle", !.remaining = 0]

(* command_block_reason() is not None.                                     *)
CommandBlocked(s) == Suspended(s) \/ s.locked \/ Stabilizing(s)

(* The side effect of command_block_reason() when it returns a reason: the *)
(* first reason it tests, a suspended scheduler, leaves the state alone.   *)
AfterBlock(s) == IF Suspended(s) THEN s ELSE [s EXCEPT !.state = "Waiting"]

(* async_execute() in Production, when nothing blocks the command: taking  *)
(* the free lock does not yield, so the command starts in the same step.   *)
AfterStart(s) == [s EXCEPT !.state = "Writing", !.locked = TRUE]

(* async_execute() when the awaited command returns, and when it raises.   *)
AfterConfirmation(s) ==
  [s EXCEPT !.state = "Waiting", !.locked = FALSE, !.remaining = s.delay]
AfterFailure(s) == [s EXCEPT !.state = "Error", !.locked = FALSE]

(* One time unit of the delay passes.                                      *)
AfterElapse(s) == [s EXCEPT !.remaining = @ - 1]

=============================================================================
