----------------------- MODULE ZeroInjectionController -----------------------
(***************************************************************************)
(* The regulation loop of controller.py: a tick every three seconds reads  *)
(* the grid sensor, may decide a new common limit and, through the         *)
(* scheduler, has the coordinator write it to the DTU.  The tick awaits    *)
(* the write, so the user, the sensors and the coordinator's other callers *)
(* interleave with a command in flight; everything else a tick does is one *)
(* step.  What the coordinator and the DTU do during the write is          *)
(* TemporaryLimits' subject; here a write is confirmed or fails.           *)
(*                                                                         *)
(* The Simulation mode is not modelled: async_set_controller_mode maps it  *)
(* to Disabled, and a restored one is migrated to Disabled, so the         *)
(* controller never runs it.  The battery strategies are off, their        *)
(* default: the policy passes the configured target through.               *)
(***************************************************************************)
EXTENDS SafetyScheduler, Decision

CONSTANTS
  ValidRequired,    (* VALID_GRID_MEASUREMENTS_REQUIRED                       *)
  Significant,      (* SIGNIFICANT_POWER_CHANGE_W                             *)
  TakeoverStrategy, (* the Production startup strategy is TAKEOVER            *)
  AutoResume,       (* the option to take over again after a restart          *)
  TakeoverLimit,    (* takeover_limit_percent                                 *)
  Loads,            (* house loads the environment switches between, in watts *)
  ManualLimits,     (* limits the user sets with the slider                   *)
  InitialLimits,    (* limits the DTU may hold when the integration starts    *)
  PromptRefresh,    (* pv is refreshed between the inverters' response to a   *)
                    (* command and the end of the stabilization delay         *)
  Disturbances,     (* kinds of disturbance of this instance                  *)
  MaxDisturbances   (* bound: how many disturbances a behaviour contains      *)

Kinds == {"load", "grid", "reference", "telemetry", "failure", "mode", "manual", "config"}

ASSUME ControllerAssumption ==
  /\ ValidRequired \in Nat \ {0} /\ Significant \in Nat
  /\ TakeoverStrategy \in BOOLEAN /\ AutoResume \in BOOLEAN /\ PromptRefresh \in BOOLEAN
  /\ TakeoverLimit \in Limits /\ ManualLimits \subseteq Limits
  /\ InitialLimits \subseteq Limits /\ Loads \subseteq Int
  /\ Disturbances \subseteq Kinds /\ MaxDisturbances \in Nat

VARIABLES
  mode,             (* ControllerMode                                         *)
  takeoverPending,  (* _takeover_pending                                      *)
  scheduler,        (* the SafetyScheduler the controller owns                *)
  validGrid,        (* _valid_grid_measurements, capped past ValidRequired    *)
  evaluated,        (* _last_evaluated_snapshot                               *)
  configChanged,    (* the last evaluated generation is not the current one   *)
  tick,             (* the timer: idle or due, or the write the tick awaits   *)
  commanded,        (* the limit the last command asked for                   *)
  (* The coordinator, as the controller sees it.                              *)
  limit,            (* the effective temporary limit                          *)
  reference,        (* may `limit' be used: for writes, decisions, not at all *)
  synchronized,     (* temporary_limits_synchronized                          *)
  manualWrite,      (* a manual command is in flight                          *)
  pv,               (* active_power_w of the last refresh                     *)
  telemetryFresh,   (* grid and PV samples are recent and close enough        *)
  (* The house.                                                               *)
  gridSensor,       (* the grid sensor has a usable value                     *)
  load, output,     (* power drawn by the house, produced through the DTU     *)
  disturbed,        (* disturbances so far                                    *)
  (* History, for the properties only.                                        *)
  settling,         (* time left since the last confirmation, never forgotten *)
  validInARow       (* usable readings since a tick last found none           *)

coordinatorVars == <<limit, reference, synchronized, manualWrite, pv, telemetryFresh>>
houseVars == <<gridSensor, load, output, disturbed>>
historyVars == <<settling, validInARow>>
decisionVars == <<evaluated, configChanged>>
vars == <<mode, takeoverPending, scheduler, validGrid, decisionVars, tick, commanded,
          coordinatorVars, houseVars, historyVars>>

NoSnapshot == [grid |-> 0, pv |-> 0, limit |-> 0]  (* no limit is 0 *)

WattsPerPercent == NominalPower \div 100
Grid == load - output
Snapshot == [grid |-> Grid, pv |-> pv, limit |-> limit]

TypeOK ==
  /\ mode \in {"Disabled", "Production"}
  /\ scheduler \in Scheduler
  /\ validGrid \in 0..(ValidRequired + 1)
  /\ evaluated \in [grid : Int, pv : Int, limit : Limits \cup {0}]
  /\ tick \in {"idle", "due", "command", "takeover"}
  /\ commanded \in Limits /\ limit \in Limits
  /\ reference \in {"writable", "cached", "none"}
  /\ takeoverPending \in BOOLEAN /\ configChanged \in BOOLEAN
  /\ synchronized \in BOOLEAN /\ manualWrite \in BOOLEAN /\ telemetryFresh \in BOOLEAN
  /\ gridSensor \in BOOLEAN /\ load \in Loads
  /\ output \in Int /\ pv \in Int
  /\ disturbed \in 0..MaxDisturbances
  /\ settling \in Nat /\ validInARow \in 0..ValidRequired

(* The integration starts in the stored mode.  A takeover is pending only  *)
(* if the user opted in; the port uncertainty of an earlier run is not     *)
(* stored.                                                                 *)
Init ==
  /\ mode \in {"Disabled", "Production"}
  /\ takeoverPending = (mode = "Production" /\ TakeoverStrategy /\ AutoResume)
  /\ \E delay \in StabilizationDelays : scheduler = NewScheduler(delay)
  /\ validGrid = 0 /\ validInARow = 0
  /\ evaluated = NoSnapshot /\ configChanged = TRUE
  /\ tick = "idle"
  /\ limit \in InitialLimits /\ commanded = limit
  /\ reference \in {"writable", "none"}
  /\ synchronized = TRUE /\ manualWrite = FALSE
  /\ gridSensor \in BOOLEAN /\ load \in Loads
  /\ output = limit * WattsPerPercent /\ pv = output /\ telemetryFresh = TRUE
  /\ disturbed = 0 /\ settling = 0

-----------------------------------------------------------------------------
(* The tick.                                                               *)

(* _requires_new_decision: nothing evaluated yet, another configuration,   *)
(* another limit, or a power that moved significantly since the snapshot   *)
(* evaluated last - whether or not that evaluation led to a command.       *)
RequiresNewDecision ==
  \/ evaluated = NoSnapshot
  \/ configChanged
  \/ limit # evaluated.limit
  \/ Magnitude(Grid - evaluated.grid) > Significant
  \/ Magnitude(pv - evaluated.pv) > Significant

(* automatic_write_allowed of the coordinator, in Production.              *)
AutomaticWriteAllowed == synchronized /\ reference = "writable"

(* The scheduler when the tick reaches the limit reference: the reading    *)
(* that completes the required series resets it.                           *)
AfterGrid == IF validGrid + 1 = ValidRequired THEN AfterReset(scheduler) ELSE scheduler

(* Mutant of Recovered: a pause is not lifted.                             *)
NeverRecovered == AfterGrid

(* The scheduler once the reference is known: a pause is lifted.           *)
Recovered == IF AfterGrid.state = "Paused" THEN AfterReset(AfterGrid) ELSE AfterGrid

(* Mutant of TickBegins: Disabled does not return early.                   *)
TickBeginsInAnyMode ==
  /\ tick = "due" /\ ~takeoverPending
  /\ UNCHANGED <<mode, takeoverPending, coordinatorVars, houseVars>>

(* A tick without a takeover in Production.                                *)
TickBegins ==
  /\ tick = "due" /\ mode = "Production" /\ ~takeoverPending
  /\ UNCHANGED <<mode, takeoverPending, coordinatorVars, houseVars>>

(* ... that read the grid.                                                 *)
GridRead ==
  /\ TickBegins
  /\ gridSensor
  /\ validGrid' = IF validGrid > ValidRequired THEN validGrid ELSE validGrid + 1
  /\ validInARow' = IF validInARow = ValidRequired THEN validInARow ELSE validInARow + 1
  /\ UNCHANGED settling

(* Mutant of GridTrusted: one reading too few.                             *)
GridTrustedEarly == GridRead /\ validGrid + 1 >= ValidRequired - 1

(* ... that has counted enough readings.                                   *)
GridTrusted == GridRead /\ validGrid + 1 >= ValidRequired

(* ... that has a limit reference and a synchronized snapshot, and has     *)
(* decided on it.                                                          *)
Decided ==
  /\ GridTrusted
  /\ reference # "none" /\ telemetryFresh
  /\ RequiresNewDecision
  /\ evaluated' = Snapshot
  /\ configChanged' = FALSE

(* Disabled: the reading is displayed, nothing else.                       *)
TickDisabled ==
  /\ tick = "due" /\ mode = "Disabled"
  /\ validInARow' = IF gridSensor THEN validInARow ELSE 0
  /\ tick' = "idle"
  /\ UNCHANGED <<mode, takeoverPending, scheduler, validGrid, decisionVars, commanded,
                 coordinatorVars, houseVars, settling>>

TickNoGrid ==
  /\ TickBegins
  /\ ~gridSensor
  /\ validGrid' = 0 /\ validInARow' = 0
  /\ scheduler' = AfterPause(scheduler)
  /\ tick' = "idle"
  /\ UNCHANGED <<decisionVars, commanded, settling>>

TickCountingGrid ==
  /\ GridRead
  /\ validGrid + 1 < ValidRequired
  /\ scheduler' = IF Stabilizing(scheduler) THEN scheduler ELSE AfterPause(scheduler)
  /\ tick' = "idle"
  /\ UNCHANGED <<decisionVars, commanded>>

TickNoReference ==
  /\ GridTrusted
  /\ reference = "none"
  /\ scheduler' = AfterPause(AfterGrid)
  /\ tick' = "idle"
  /\ UNCHANGED <<decisionVars, commanded>>

TickUnsynchronized ==
  /\ GridTrusted
  /\ reference # "none" /\ ~telemetryFresh
  /\ scheduler' = Recovered
  /\ tick' = "idle"
  /\ UNCHANGED <<decisionVars, commanded>>

TickUnchanged ==
  /\ GridTrusted
  /\ reference # "none" /\ telemetryFresh
  /\ ~RequiresNewDecision
  /\ scheduler' = Recovered
  /\ tick' = "idle"
  /\ UNCHANGED <<decisionVars, commanded>>

TickNoCommand ==
  /\ Decided
  /\ ~CommandNeeded(Grid, pv, limit)
  /\ scheduler' = Recovered
  /\ tick' = "idle"
  /\ UNCHANGED commanded

(* The snapshot counts as evaluated although its command is not sent.      *)
TickBlocked ==
  /\ Decided
  /\ CommandNeeded(Grid, pv, limit) /\ AutomaticWriteAllowed
  /\ CommandBlocked(Recovered)
  /\ scheduler' = AfterBlock(Recovered)
  /\ tick' = "idle"
  /\ UNCHANGED commanded

TickWritesUnavailable ==
  /\ Decided
  /\ CommandNeeded(Grid, pv, limit) /\ ~AutomaticWriteAllowed
  /\ scheduler' = AfterPause(Recovered)
  /\ tick' = "idle"
  /\ UNCHANGED commanded

TickCommand ==
  /\ Decided
  /\ CommandNeeded(Grid, pv, limit) /\ AutomaticWriteAllowed
  /\ ~CommandBlocked(Recovered)
  /\ scheduler' = AfterStart(Recovered)
  /\ tick' = "command"
  /\ commanded' = AppliedLimit(Grid, pv, limit)

(* _async_run_takeover: whatever blocks the scheduler makes the takeover   *)
(* fail, and a failed takeover is not pending any more.  (Its test for a   *)
(* connected DTU always passes: published data say connected=True.)        *)
TickTakeoverBlocked ==
  /\ tick = "due" /\ mode = "Production" /\ takeoverPending
  /\ CommandBlocked(scheduler)
  /\ scheduler' = AfterBlock(scheduler)
  /\ takeoverPending' = FALSE
  /\ tick' = "idle"
  /\ UNCHANGED <<mode, validGrid, decisionVars, commanded,
                 coordinatorVars, houseVars, historyVars>>

TickTakeover ==
  /\ tick = "due" /\ mode = "Production" /\ takeoverPending
  /\ ~CommandBlocked(scheduler)
  /\ scheduler' = AfterStart(scheduler)
  /\ tick' = "takeover"
  /\ commanded' = TakeoverLimit
  /\ UNCHANGED <<mode, takeoverPending, validGrid, decisionVars,
                 coordinatorVars, houseVars, settling, validInARow>>

-----------------------------------------------------------------------------
(* The awaited command returns: the end of async_tick or of                *)
(* _async_run_takeover.  The mode may have changed meanwhile.              *)

Awaiting == tick \in {"command", "takeover"}

AfterTakeover == IF tick = "takeover" THEN FALSE ELSE takeoverPending

CommandSucceeds ==
  /\ Awaiting
  /\ tick' = "idle"
  /\ scheduler' = AfterConfirmation(scheduler)
  /\ takeoverPending' = AfterTakeover
  /\ limit' = commanded /\ reference' = "writable" /\ synchronized' = TRUE
  /\ settling' = scheduler.delay
  /\ UNCHANGED <<mode, validGrid, decisionVars, commanded, manualWrite, pv, telemetryFresh,
                 houseVars, validInARow>>

(* Disturbances are of the kinds of this instance, and finitely many.      *)
Disturb(kind) ==
  /\ kind \in Disturbances /\ disturbed < MaxDisturbances
  /\ disturbed' = disturbed + 1

(* A failed write leaves the ports uncertain, except a takeover that       *)
(* Strict validation refuses before its first frame.                       *)
CommandFails ==
  /\ Awaiting
  /\ tick' = "idle"
  /\ Disturb("failure")
  /\ scheduler' = AfterFailure(scheduler)
  /\ takeoverPending' = AfterTakeover
  /\ synchronized' \in IF tick = "takeover" THEN {FALSE, synchronized} ELSE {FALSE}
  /\ UNCHANGED <<mode, validGrid, decisionVars, commanded, limit, reference, manualWrite, pv,
                 telemetryFresh, gridSensor, load, output, historyVars>>

-----------------------------------------------------------------------------
(* The user.                                                               *)

(* async_set_mode(DISABLED): resets the scheduler, unless a command holds  *)
(* it, and forgets the last evaluation and the takeover.                   *)
SelectManual ==
  /\ Disturb("mode")
  /\ mode' = "Disabled"
  /\ configChanged' = TRUE
  /\ scheduler' = AfterReset(scheduler)
  /\ evaluated' = NoSnapshot
  /\ takeoverPending' = FALSE
  /\ UNCHANGED <<validGrid, tick, commanded, coordinatorVars, gridSensor, load, output,
                 settling, validInARow>>

(* async_set_mode(PRODUCTION): only a pause is reset; entering Production  *)
(* from Disabled asks for the takeover the strategy wants.                 *)
SelectAutomatic ==
  /\ Disturb("mode")
  /\ mode' = "Production"
  /\ configChanged' = TRUE
  /\ scheduler' = IF scheduler.state = "Paused" THEN AfterReset(scheduler) ELSE scheduler
  /\ takeoverPending' = IF mode = "Disabled" THEN TakeoverStrategy ELSE takeoverPending
  /\ UNCHANGED <<validGrid, evaluated, tick, commanded, coordinatorVars, gridSensor, load,
                 output, settling, validInARow>>

(* set_target_grid_power, set_deadband, set_maximum_step and the like: the *)
(* values are this instance's constants, the new generation counts.  And   *)
(* set_stabilization_delay.                                                *)
ChangeConfiguration ==
  /\ Disturb("config")
  /\ configChanged' = TRUE
  /\ \E delay \in StabilizationDelays : scheduler' = AfterConfigure(scheduler, delay)
  /\ UNCHANGED <<mode, takeoverPending, validGrid, evaluated, tick, commanded,
                 coordinatorVars, gridSensor, load, output, historyVars>>

(* The slider, refused outside Disabled; it may end in any mode.           *)
ManualWriteStarts ==
  /\ mode = "Disabled" /\ ~manualWrite
  /\ Disturb("manual")
  /\ manualWrite' = TRUE
  /\ UNCHANGED <<mode, takeoverPending, scheduler, validGrid, decisionVars, tick, commanded,
                 limit, reference, synchronized, pv, telemetryFresh, gridSensor, load, output,
                 historyVars>>

(* Without a readback the limit is a reference for writes in Compatibility *)
(* only.                                                                   *)
ManualWriteSucceeds ==
  /\ manualWrite
  /\ manualWrite' = FALSE
  /\ limit' \in ManualLimits
  /\ reference' \in {"writable", "cached"}
  /\ synchronized' = TRUE
  /\ UNCHANGED <<mode, takeoverPending, scheduler, validGrid, decisionVars, tick, commanded,
                 pv, telemetryFresh, houseVars, historyVars>>

(* The coordinator pauses the scheduler, whatever the mode is by then.     *)
ManualWriteFails ==
  /\ manualWrite
  /\ Disturb("failure")
  /\ manualWrite' = FALSE
  /\ synchronized' = FALSE
  /\ scheduler' = AfterPause(scheduler)
  /\ UNCHANGED <<mode, takeoverPending, validGrid, decisionVars, tick, commanded, limit,
                 reference, pv, telemetryFresh, gridSensor, load, output, historyVars>>

-----------------------------------------------------------------------------
(* The coordinator's refresh, the house and time.                          *)

controllerVars == <<mode, takeoverPending, scheduler, validGrid, decisionVars, tick, commanded>>

RefreshTelemetry ==
  /\ pv' = output /\ telemetryFresh' = TRUE
  /\ UNCHANGED <<controllerVars, limit, reference, synchronized, manualWrite, houseVars,
                 historyVars>>

TelemetryAges ==
  /\ telemetryFresh
  /\ Disturb("telemetry")
  /\ telemetryFresh' = FALSE
  /\ UNCHANGED <<controllerVars, limit, reference, synchronized, manualWrite, pv, gridSensor,
                 load, output, historyVars>>

(* Strict validation: a failed read ends the writes, an aged one ends the  *)
(* decisions too.                                                          *)
ReferenceFades ==
  /\ reference # "none"
  /\ Disturb("reference")
  /\ reference' = IF reference = "writable" THEN "cached" ELSE "none"
  /\ UNCHANGED <<controllerVars, limit, synchronized, manualWrite, pv, telemetryFresh,
                 gridSensor, load, output, historyVars>>

ReferenceRead ==
  /\ reference # "writable"
  /\ reference' = "writable"
  /\ UNCHANGED <<controllerVars, limit, synchronized, manualWrite, pv, telemetryFresh,
                 houseVars, historyVars>>

GridSensorFails ==
  /\ gridSensor
  /\ Disturb("grid")
  /\ gridSensor' = FALSE
  /\ UNCHANGED <<controllerVars, coordinatorVars, load, output, historyVars>>

GridSensorRecovers ==
  /\ ~gridSensor
  /\ gridSensor' = TRUE
  /\ UNCHANGED <<controllerVars, coordinatorVars, load, output, disturbed, historyVars>>

LoadChanges ==
  /\ Disturb("load")
  /\ load' \in Loads \ {load}
  /\ UNCHANGED <<controllerVars, coordinatorVars, gridSensor, output, historyVars>>

(* The inverters reach the limit some time after it was written.           *)
OutputFollows ==
  /\ output # limit * WattsPerPercent
  /\ output' = limit * WattsPerPercent
  /\ UNCHANGED <<controllerVars, coordinatorVars, gridSensor, load, disturbed, historyVars>>

(* Three seconds pass and the timer fires; a tick that finds _tick_lock    *)
(* taken is skipped.  The inverters need no longer than the stabilization  *)
(* delay, which was chosen for that.  Nothing in the code ties the refresh *)
(* to the delay: it runs every 10 s, and a pv up to 25 s older than the    *)
(* grid reading is accepted.                                               *)
TimePasses ==
  /\ tick # "due"
  /\ settling = 1 => /\ output = limit * WattsPerPercent
                     /\ PromptRefresh => pv = output
  /\ tick' = IF tick = "idle" THEN "due" ELSE tick
  /\ settling' = IF settling > 0 THEN settling - 1 ELSE 0
  /\ scheduler' = IF Stabilizing(scheduler) THEN AfterElapse(scheduler) ELSE scheduler
  /\ UNCHANGED <<mode, takeoverPending, validGrid, decisionVars, commanded,
                 coordinatorVars, houseVars, validInARow>>

-----------------------------------------------------------------------------
Tick ==
  \/ TickDisabled
  \/ TickNoGrid
  \/ TickCountingGrid
  \/ TickNoReference
  \/ TickUnsynchronized
  \/ TickUnchanged
  \/ TickNoCommand
  \/ TickBlocked
  \/ TickWritesUnavailable
  \/ TickCommand
  \/ TickTakeoverBlocked
  \/ TickTakeover

CommandReturns == CommandSucceeds \/ CommandFails

User ==
  \/ SelectManual
  \/ SelectAutomatic
  \/ ChangeConfiguration
  \/ ManualWriteStarts

ManualWriteReturns == ManualWriteSucceeds \/ ManualWriteFails

Environment ==
  \/ RefreshTelemetry
  \/ TelemetryAges
  \/ ReferenceFades
  \/ ReferenceRead
  \/ GridSensorFails
  \/ GridSensorRecovers
  \/ LoadChanges
  \/ OutputFollows
  \/ TimePasses

Next == Tick \/ CommandReturns \/ User \/ ManualWriteReturns \/ Environment

Spec == Init /\ [][Next]_vars

(* The three-second timer, the return of an awaited write (its requests    *)
(* time out), the ten-second refresh, the inverters' response and time.    *)
Fairness ==
  /\ WF_vars(Tick)
  /\ WF_vars(CommandReturns)
  /\ WF_vars(RefreshTelemetry)
  /\ WF_vars(OutputFollows)
  /\ WF_vars(TimePasses)

FairSpec == Spec /\ Fairness

-----------------------------------------------------------------------------
(* Safety.                                                                 *)

(* The tick that awaits a write is the one that holds the scheduler, and   *)
(* as long as it does nobody suspends or re-arms the scheduler under it: a *)
(* mode change, a failed manual command and their pause() and reset() are  *)
(* without effect, so the result of the command is the next thing the      *)
(* scheduler learns.                                                       *)
CommandOwnsScheduler ==
  /\ Awaiting <=> scheduler.locked
  /\ scheduler.locked => scheduler.state = "Writing"

(* Whatever is selected while a takeover or a command is in flight, Manual *)
(* mode keeps neither a pending takeover nor an evaluated snapshot: the    *)
(* next Production session never inherits a decision taken before it.      *)
ManualForgets == mode = "Disabled" => ~takeoverPending /\ evaluated = NoSnapshot

CorrectionStarts == tick = "due" /\ tick' = "command"

(* A correction starts only after ValidRequired usable readings in a row,  *)
(* counted from the last tick that found the sensor unusable.              *)
InterruptionRequiresNewSeries ==
  [][CorrectionStarts => validInARow' = ValidRequired]_vars

-----------------------------------------------------------------------------
(* Liveness; disturbances are finite, so each behaviour ends undisturbed.  *)

(* The decision law does not hunt: once the house is left alone no more    *)
(* corrections are sent.  (With PromptRefresh.)                            *)
Settles == <>[](tick # "command")

(* A pause is transient: with Production selected for good, the sensor and *)
(* the reference back for good, the scheduler does not stay paused.        *)
PauseIsTransient ==
  <>[](mode = "Production" /\ gridSensor /\ reference # "none")
    => <>[](scheduler.state # "Paused")

(* As long as nothing stops the regulation, an error the decision law      *)
(* would correct does not last.                                            *)
Regulating ==
  /\ mode = "Production" /\ gridSensor /\ reference = "writable"
  /\ synchronized /\ telemetryFresh /\ scheduler.state # "Error"
ErrorIsCorrected == <>[]Regulating => []<>(~CommandNeeded(Grid, pv, limit))

=============================================================================
