---------------------------- MODULE PacedCommands ----------------------------
(***************************************************************************)
(* What the rest of the integration relies on the scheduler for, whatever  *)
(* its internal states: commands run one at a time, one starts only when   *)
(* the scheduler is armed and no delay is running, and a confirmed command *)
(* starts the full delay.  While no command runs the owner may suspend or  *)
(* re-arm the scheduler, and with it may forget the delay, but may neither *)
(* shorten nor lengthen one that stays; a newly configured delay is the    *)
(* next command's.                                                         *)
(***************************************************************************)
EXTENDS Integers

CONSTANT Delays  (* the delays that can be configured, in time units *)

VARIABLES
  running,  (* a command is being executed *)
  armed,    (* a command may be started    *)
  quiet,    (* time left in the delay      *)
  delay     (* the delay a confirmed command starts *)

pacedVars == <<running, armed, quiet, delay>>

PacedInit == running = FALSE /\ armed = TRUE /\ quiet = 0 /\ delay \in Delays

Begin ==
  /\ ~running /\ armed /\ quiet = 0
  /\ running'
  /\ UNCHANGED <<armed, quiet, delay>>

Succeed ==
  /\ running
  /\ ~running'
  /\ quiet' = delay
  /\ UNCHANGED <<armed, delay>>

Fail ==
  /\ running
  /\ ~running' /\ ~armed'
  /\ UNCHANGED <<quiet, delay>>

Adjust ==
  /\ ~running /\ ~running'
  /\ armed' \in BOOLEAN
  /\ quiet' \in {0, quiet}
  /\ UNCHANGED delay

Configure ==
  /\ delay' \in Delays
  /\ UNCHANGED <<running, armed, quiet>>

Wait ==
  /\ quiet > 0
  /\ quiet' = quiet - 1
  /\ UNCHANGED <<running, armed, delay>>

PacedNext == Begin \/ Succeed \/ Fail \/ Adjust \/ Configure \/ Wait

PacedSpec == PacedInit /\ [][PacedNext]_pacedVars

=============================================================================
