------------------------- MODULE SchedulerCalls_proofs -------------------------
(* The scheduler keeps its promise for every set of delays and every       *)
(* sequence of calls.                                                      *)
EXTENDS SchedulerCalls, TLAPS

(* The inductive invariant.  That a running command finds the scheduler    *)
(* neither suspended nor in its delay is what makes every outcome of a     *)
(* command an outcome the abstract specification allows.                   *)
SchedulerInv == SchedulerTypeOK /\ RunningIsUndisturbed

USE StabilizationAssumption

LEMMA InitEstablishes == CallsInit => SchedulerInv
  BY DEF CallsInit, NewScheduler, SchedulerInv, SchedulerTypeOK, RunningIsUndisturbed,
         Scheduler, SchedulerState, Suspended, Stabilizing

LEMMA StepPreserves == SchedulerInv /\ [CallsNext]_scheduler => SchedulerInv'
<1> SUFFICES ASSUME SchedulerInv, [CallsNext]_scheduler
             PROVE  SchedulerInv'
  OBVIOUS
<1> USE DEF SchedulerInv, SchedulerTypeOK, RunningIsUndisturbed, Scheduler,
            SchedulerState, Suspended, Stabilizing
<1>1. CASE Configure
  BY <1>1 DEF Configure, AfterConfigure
<1>2. CASE Pause
  BY <1>2 DEF Pause, AfterPause
<1>3. CASE Reset
  BY <1>3 DEF Reset, AfterReset
<1>4. CASE Refuse
  BY <1>4 DEF Refuse, AfterBlock, CommandBlocked
<1>5. CASE CommandStarts
  BY <1>5 DEF CommandStarts, AfterStart, CommandBlocked
<1>6. CASE CommandConfirmed
  BY <1>6 DEF CommandConfirmed, AfterConfirmation
<1>7. CASE CommandRaises
  BY <1>7 DEF CommandRaises, AfterFailure
<1>8. CASE Elapse
  BY <1>8 DEF Elapse, AfterElapse
<1>9. CASE UNCHANGED scheduler
  BY <1>9
<1> QED
  BY <1>1, <1>2, <1>3, <1>4, <1>5, <1>6, <1>7, <1>8, <1>9 DEF CallsNext

(* remaining_seconds() is never negative and never longer than the longest *)
(* delay that was configured, whatever is called.                          *)
THEOREM SchedulerTypes == CallsSpec => []SchedulerTypeOK
<1>1. SchedulerInv => SchedulerTypeOK
  BY DEF SchedulerInv
<1> QED
  BY <1>1, InitEstablishes, StepPreserves, PTL DEF CallsSpec

(* Whatever is called, the record stays a scheduler and a running command  *)
(* finds it neither suspended nor in its delay.                            *)
THEOREM RunningUndisturbed == CallsSpec => [](SchedulerTypeOK /\ RunningIsUndisturbed)
<1>1. SchedulerInv => SchedulerTypeOK /\ RunningIsUndisturbed
  BY DEF SchedulerInv
<1> QED
  BY <1>1, InitEstablishes, StepPreserves, PTL DEF CallsSpec

-----------------------------------------------------------------------------

LEMMA InitRefines == CallsInit => Paced!PacedInit
  BY DEF CallsInit, NewScheduler, Paced!PacedInit, Suspended

(* Every call is a step of PacedCommands, or changes nothing it shows.     *)
LEMMA StepRefines ==
  SchedulerInv /\ [CallsNext]_scheduler => [Paced!PacedNext]_(Paced!pacedVars)
<1> SUFFICES ASSUME SchedulerInv, [CallsNext]_scheduler
             PROVE  [Paced!PacedNext]_(Paced!pacedVars)
  OBVIOUS
<1> USE DEF SchedulerInv, SchedulerTypeOK, RunningIsUndisturbed, Scheduler,
            SchedulerState, Suspended, Stabilizing
<1>1. CASE Configure
  <2>1. Paced!Configure
    BY <1>1 DEF Configure, AfterConfigure, Paced!Configure
  <2> QED BY <2>1 DEF Paced!PacedNext
<1>2. CASE Pause
  <2>1. CASE scheduler.locked
    BY <1>2, <2>1 DEF Pause, AfterPause, Paced!pacedVars
  <2>2. CASE ~scheduler.locked
    <3>1. Paced!Adjust
      BY <1>2, <2>2 DEF Pause, AfterPause, Paced!Adjust
    <3> QED BY <3>1 DEF Paced!PacedNext
  <2> QED BY <2>1, <2>2
<1>3. CASE Reset
  <2>1. CASE scheduler.locked
    BY <1>3, <2>1 DEF Reset, AfterReset, Paced!pacedVars
  <2>2. CASE ~scheduler.locked
    <3>1. Paced!Adjust
      BY <1>3, <2>2 DEF Reset, AfterReset, Paced!Adjust
    <3> QED BY <3>1 DEF Paced!PacedNext
  <2> QED BY <2>1, <2>2
<1>4. CASE Refuse
  BY <1>4 DEF Refuse, AfterBlock, CommandBlocked, Paced!pacedVars
<1>5. CASE CommandStarts
  <2>1. Paced!Begin
    BY <1>5 DEF CommandStarts, AfterStart, CommandBlocked, Paced!Begin
  <2> QED BY <2>1 DEF Paced!PacedNext
<1>6. CASE CommandConfirmed
  <2>1. Paced!Succeed
    BY <1>6 DEF CommandConfirmed, AfterConfirmation, Paced!Succeed
  <2> QED BY <2>1 DEF Paced!PacedNext
<1>7. CASE CommandRaises
  <2>1. Paced!Fail
    BY <1>7 DEF CommandRaises, AfterFailure, Paced!Fail
  <2> QED BY <2>1 DEF Paced!PacedNext
<1>8. CASE Elapse
  <2>1. Paced!Wait
    BY <1>8 DEF Elapse, AfterElapse, Paced!Wait
  <2> QED BY <2>1 DEF Paced!PacedNext
<1>9. CASE UNCHANGED scheduler
  BY <1>9 DEF Paced!pacedVars
<1> QED
  BY <1>1, <1>2, <1>3, <1>4, <1>5, <1>6, <1>7, <1>8, <1>9 DEF CallsNext

(* The scheduler implements PacedCommands.                                 *)
THEOREM SchedulerImplementsPacedCommands == CallsSpec => CommandsArePaced
<1>1. SchedulerInv => SchedulerTypeOK /\ RunningIsUndisturbed
  BY DEF SchedulerInv
<1>2. CallsSpec => []SchedulerInv
  BY InitEstablishes, StepPreserves, PTL DEF CallsSpec
<1> QED
  BY <1>2, InitRefines, StepRefines, PTL DEF CallsSpec, CommandsArePaced, Paced!PacedSpec

=============================================================================
