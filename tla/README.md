# Verification of OpenEMS Zero Injection

TLA+ modules, TLC model checks and TLAPS proofs for the Home Assistant
integration in `src/custom_components/openems_zero_injection`. The integration
reads a grid meter and keeps the exchange with the grid near a target by writing
one common power limit, in percent, to the three temporary-limit registers of a
Hoymiles DTU over Modbus TCP. File names below are relative to that directory;
the lines each definition models are in `PROJECT.json` under `map`.

Everything runs in one asyncio event loop: there is no preemption, and two
activities interleave exactly where one of them awaits. The awaits that matter
are the Modbus client's lock and answers (`modbus.py`), the scheduler's awaited
command (`scheduler.py`), the options updates of Home Assistant, and the history
worker with its executor thread. A step of the models is what happens between
two awaits.

## 1. Inventory

| Component | State it keeps | Operations | What makes it correct |
|---|---|---|---|
| **Safety scheduler** `scheduler.py` | state, lock, `_next_allowed_at`, delay | `configure`, `pause`, `reset`, `command_block_reason`, `async_execute` | one command at a time; none while suspended or during the delay; nobody disturbs a running one |
| **Decision law** `decision.py` | none | two pure functions | a legal limit, a small fine step, in the right direction, no hunting |
| **Controller** `controller.py` | mode, pending takeover, count of valid grid readings, last evaluated snapshot, configuration generation | a tick every 3 s, takeover, mode selection, setters | corrections only when the data, the mode and the scheduler allow them; errors are corrected in the end; Manual forgets the automatic session |
| **Coordinator: limits** `coordinator.py` | cached port limits and their health, `_temporary_limits_synchronized`, last confirmed limit (persisted) | manual, automatic and takeover commands, mode selection, readback | the ports agree, or it is known that they may not; the limit the controller starts from is the true one |
| **Coordinator: refresh** `coordinator.py` | health of every register, due times, suppression, failure counts, published data | `_async_update_data` every 10 s | stale values are known to be stale, and not for ever; entities become unavailable when and only when they should |
| **Modbus client** `modbus.py` | stream, lock, transaction id, failure count and time | connect, read, write, disconnect | an answer belongs to its request; reconnection is spaced, and happens |
| **Energy strategy** `energy_strategy.py` | confirmation counters, release state, signatures | `decide`, `battery_priority_input_changed` | activation after distinct consecutive samples; nobody needs to help an unfit battery to be given up |
| **Battery adapter** `battery_adapters/zendure_solarflow.py`, `energy_manager.py` | remembered charge limit, last resource | `read_resource` | a value from before the start is not taken for one of now |
| **Trace recorder** `trace.py` | sessions, traces, metrics | session and command hooks, `observe_measurement` | every result is attributed to its command and counted once |
| **Adaptive model** `adaptive_limit.py` | pending observation, baselines, profiles | `register_confirmed_command`, `observe` | nothing is learnt from before a change of the nominal power; a gain is the effect of the command it is booked to (it need not be, see 5) |
| **Persistent history** `persistent_history.py` | bounded queue, worker, thread, counters | `record`, worker, `async_stop` | an accepted event is stored once and in order, or lost in a known way; the shutdown ends |
| **Setup and reload** `__init__.py`, `config_flow.py` | options, `_skip_next_options_reload` | setup, unload, update listener, options form | an option edit takes effect; one life ticks at a time |
| Acquisition `acquisition.py` | none | `read_grid_power` | refuses unusable values |
| History ring, learning, calibration, context | buffers | records only | nothing depends on them |
| Sensors, diagnostics, numbers, select, translations | none of their own | presentation, entry points | - |

**How they interact.** The timer calls the controller's tick; the tick reads
the meter and the coordinator's cached data, asks the energy strategy for a
target or a directive, and hands a command to its scheduler, which awaits a
coordinator method, which awaits the client three or six times; the trace
recorder, the adaptive model and the history are told of every step. The select
entity calls the coordinator, which calls `async_set_mode` and stores the mode in
the options. The number entity (the slider) calls the coordinator's manual
command directly, past the scheduler; when it fails the coordinator pauses the
controller's scheduler. The coordinator's refresh uses the same client, and
commands and refresh share the cached limits. The options are written by the
form, by entities and by confirmed commands; the update listener reloads the
entry unless the coordinator has asked it to let one update pass.

**What is hard.** Commands, refresh and user calls interleave frame by frame;
the mode may change while a command is in flight; frames are rejected or lost
with or without effect; Home Assistant restarts between two frames and only
some of the state is persisted; the scheduler is paused and reset by three
parties; measurements of different ages are combined; counters of consecutive
samples are reset by different conditions; the backoff, the polls and the
commands share one failure count; what is left of a life that was shut down goes
on beside the next one. `PROJECT.json` lists each hazard at the line where it
bites, with the properties that cover it or the reason why none does.

## 2. Modules

| Module | Models | Builds on |
|---|---|---|
| `PacedCommands` | abstract: what users of the scheduler rely on | |
| `SafetyScheduler` | the scheduler's methods as operators on a record | |
| `SchedulerCalls` | the scheduler under every sequence of calls | `SafetyScheduler`, refines `PacedCommands` |
| `Decision` | the decision law, exact integer arithmetic | |
| `ZeroInjectionController` | tick, takeover, user, house | `SafetyScheduler`, `Decision` |
| `TemporaryLimits` | the common limit and the ports, frame by frame | |
| `CoordinatorRefresh` | the refresh cycle, register by register | |
| `ModbusClient` | stream, transaction ids, backoff, polls | |
| `BatteryAdapter` | the battery's three sources and the resource built from them | |
| `EnergyStrategy` | both battery strategies under refreshes and ticks | `BatteryAdapter` |
| `TraceRecorder` | the trace recorder as operators on a record | |
| `AdaptiveLimitModel` | the pending observation as operators on a record | |
| `CommandObservers` | both as the controller and the coordinator call them | `TraceRecorder`, `AdaptiveLimitModel` |
| `PersistentHistory` | the history of one life as operators on a record | |
| `Lifetimes` | setup, reload, shutdown, options, commands and histories of several lives | `PersistentHistory` |
| `MC...` | values for TLC | |
| `..._proofs` | theorems and proofs | |

**SafetyScheduler.** A scheduler is a record `[state, locked, remaining, delay]`;
`remaining` is `remaining_seconds()`. Each method is a function from record to
record (`AfterPause`, `AfterReset`, `AfterBlock`, ...), because the controller
calls several of them without awaiting in between. `VERIFYING` is left out: no
await separates it from `WAITING`.

**ZeroInjectionController.** One action per path through `async_tick`
(`TickNoGrid` ... `TickCommand`) and `_async_run_takeover`; `tick` is `"command"`
or `"takeover"` while the tick awaits the coordinator, and `CommandSucceeds` /
`CommandFails` are the rest of the tick. `reference` is the coordinator's limit
reference: `"writable"` for automatic writes, `"cached"` for decisions only
(Strict validation within the 65 s grace period), or `"none"`. `configChanged`
stands for the comparison of configuration generations. The house is load and
output; the meter shows their difference; the output follows the limit later,
`pv` follows the output at a refresh. A time unit is one tick of 3 s.

**TemporaryLimits.** `bus` is the queue of `asyncio.Lock`, which is first in,
first out, so a caller that queues again for its next frame goes behind the
others. `call` holds each coroutine's progress. An answered frame and the
queueing of the next one is one step because nothing is awaited in between.
`latest`, `fate` and `tainted` are history variables.

**CoordinatorRefresh.** A cycle comes to the five register groups in turn, reads
the registers of those that are due one after the other, and publishes.
`health`, `since`, `suppressed`, `failures`, `data` and `published` stand for the
health objects, the five `_last_..._read` times, the suppression times, the
transport failure count, the cached measurements and `last_update_success`.
`StartCycle` and `EndCycle` are the beginning and the end of
`_async_update_data`; a read ends in one of five ways (`ReadSucceeds`,
`ReadRefused`, `ReadLosesTransport`, `ReadSkipped` after a lost transport,
`ReadSuppressed`). Between two reads another refresh may find the lock taken and
publish the old data (`Overlap`), and a command may be confirmed, with a
readback (Strict) or without (`CommandConfirmed`).

**ModbusClient.** A time unit is 5 s, the request timeout and first delay. `owed`
are the transaction ids the DTU has yet to answer on the open stream.

**BatteryAdapter, EnergyStrategy.** A reading is a status and a value; the status
abstracts the timestamps to what the code tells apart (restored, live, old,
missing, bad). `Refresh` reads one source that has published, grown old or been
lost; `Evaluate` is `decide` from a tick, on a snapshot that may have been
evaluated before or may have replaced one that never was. The signatures the
engine compares are `evaluated`, `powerIsNew` and `gridIsNew`. One battery,
because the setup builds one adapter at most (`coordinator.py:529`).

**TraceRecorder, AdaptiveLimitModel, CommandObservers.** The recorder is a bounded
sequence of traces and the metrics of the session; of traces of closed sessions
only the place they take in the buffer is kept. Measurements are reduced to the
questions they answer (within the deadband? good enough evidence? an accepted
response?). `CommandObservers` calls both in the order in which the tick, the
coordinator and the setters do, with slider writes that report to the same
recorder. `TickTakesOver` is a takeover that reaches its first frame,
`TickTakeoverRefused` one that does not: the scheduler is stabilizing, or the
coordinator refuses it in Strict mode, and the tick finishes the trace as failed
without a write of its own. The scheduler's delay is not modelled here, commands
come at any tick: a pause and the reset that lifts it may forget the delay
(`controller.py:643`). `outdated` and `misread` are history variables. Time is
counted in controller intervals.

**PersistentHistory, Lifetimes.** A life is a coordinator with its controller,
client and history. `lock` is Home Assistant's setup lock of the entry, `reloads`
the reload calls that wait for it. `Update` is `async_update_entry` with the
listener: it calls no listener when nothing changes, and otherwise lets the
update pass if the registered coordinator's flag is up, or asks for a reload.
`ReloadBegins`, `Construct`, `FirstRefreshed`, `FirstRefreshFails`,
`ControllerStarts` and `PreparationEnds` are the stretches of the setup between
awaits: an enabled history makes the setup wait (`"preparing"`) until an executor
thread has prepared the directory or an `OSError` says that it could not, and the
timer is set only then (`Run`). `PlatformsUnloaded`, `HistoryStops` or
`HistoryTimesOut`, and `ClientCloses` are those of the unload: the wait for the
worker is bounded by two seconds, the wait for the update lock ends with the
refresh that has it (`refresh`). Platforms that cannot be unloaded leave the
coordinator registered and ticking (`PlatformsStay`, phase `"stuck"`), and Home
Assistant refuses to reload it (`ReloadRefused`). The history is an event queue, a worker and a thread
no cancellation reaches; events are numbered as they are accepted. How the
listener and the lock behave is Home Assistant's code, modelled from the way
`__init__.py` uses it (listeners start at once, reloads of one entry are
serialised, a failed setup is tried again).

## 3. What the runs check

| Run | Question and result |
|---|---|
| `scheduler_calls` | Does any sequence of calls keep the promise of `PacedCommands`? Yes (also proved). |
| `controller_user` | With mode switches, manual writes, failures and takeovers in every order: does the command in flight keep the scheduler, does Manual forget the session? Yes (also proved). |
| `controller_fair` | In a Production session with fair scheduling: does a correction need a new series of readings after an interruption (also proved), does the loop stop correcting when the house is quiet, is every pause lifted? Yes. |
| `temporary_limits` | With overlapping commands, refresh, lost frames and restarts: once the latest command is confirmed and nothing writes, do the ports hold its limit? Is the effective limit true, does an automatic command start from ports that agree, does a partial failure stay known (outside overlaps and restarts)? Yes (also proved). |
| `coordinator_refresh` | With refused reads, lost transports, overlapping refreshes and commands confirmed in their middle: is a limit that is called available recent, does it come back, do entities become unavailable exactly when they should (also proved), is a suppressed register tried again? Yes. |
| `modbus_client` | Is an accepted answer the request's own although requests are cancelled and ids wrap? Are connections spaced by the delays after losses? Yes (also proved). |
| `energy_strategy` | With sources that publish, fall silent, are lost and restored, snapshots evaluated twice or never, and restarts: does saturation end a release, is the capacity one of this life, is the priority confirmed by consecutive samples, does a second look change nothing (also proved)? Is an unfit battery given up? Yes. |
| `command_observers` | Do the books of every session balance, whatever is evicted, rotated, in the air or written by the slider? Is what is pending the command in flight, has a trace the times of its own write, is a command that was under way when the nominal power changed kept from the adaptive model? Yes (also proved). |
| `lifetimes` | With edits, entity writes and late commands in any order, failing setups, platforms that stay, and a disk that answers a write late, with an error or never: does one life tick, does the coordinator follow the options, are events stored in order and never lost silently (also proved)? Does every edit take effect, if the disk answers the preparation of its directory? Yes. |

Three runs show where the program does something other than a document of it
says; each has an entry under `findings`:

| Run | Divergence |
|---|---|
| `lost_correction` | a decision blocked by the delay is never taken again while the measurements stay (`controller.py:741`, README.md:57) |
| `reconnection` | refused reconnections renew the backoff; polls every 10 s never connect again (`modbus.py:215`, docs/Modbus.md:41) |
| `options_form` | the options form replaces all options: the reload it causes forgets the mode (`config_flow.py:140`, README.md:65) |

**Bounds.** The controller's runs use a 1000 W plant (1 % is 10 W) with the
default target, deadband, predictive threshold and fine step, and loads chosen
so that a change needs a fine correction (300 to 360 W) or a predictive one
(to 700 W). `MaxDisturbances` bounds load changes, failures, mode switches and
so on per behaviour: two or three are enough for every pair of causes to
overlap. Delays of 2 and 4 ticks are shorter and longer than the three-reading
series, which is what decides whether a series ends within a delay.
`temporary_limits` uses two ports so that two sliders, controller, refresh and
restarts fit in one run; a frame that is neither first nor last needs three, and
the proofs hold for any number. Two limits suffice to tell a port that was
written from one that was not; slider calls and limits are symmetric there.
`coordinator_refresh` has two temporary registers (one can fail alone), one
permanent one and one that stands for those only published; periods of 1, 2 and
3 cycles and a suppression of 4 keep the order of the real 10, 30 and 300 s and
30 min. Three failures are the code's own bound. `modbus_client` counts failures
up to 4, where the delay is the maximum, wraps ids at 4 and lets 3 answers be
owed; the guard on `owed` is that bound. `energy_strategy` has one battery of
400 W whose power is discharge, idle, charge with room, in the hysteresis band or
saturated, and a charge that is half or full; three samples are the code's own
number, so nothing but the values is bounded. `command_observers` keeps two
traces of at most three commands in a session: a trace is evicted while pending,
confirmed or judged. `lifetimes` has three lives (`MaxChanges` is 2 changes of the
options), of which the first may still have a command or a thread while the third
sets up, and queues, batches and events of two. A refresh matters there only if
the shutdown finds it under way, so it begins while the platforms are unloaded.

The longest run is `lifetimes`: 1.7 million distinct states and, with its liveness
property, about two minutes on two workers.

**Fairness.** `FairSpec` of the controller assumes that the 3 s timer goes on,
that an awaited command returns (each request has a timeout), that the 10 s
refresh goes on, that the inverters follow a limit and that time passes.
Nothing is assumed of the user, the sensor or failures; disturbances are finite
by their bound, so a behaviour ends undisturbed. `FairSpec` of the client
assumes that the coordinator polls, that a request ends and time passes; not
that the DTU is reachable, which `Reconnects` has as its premise. `Spec` of
`CoordinatorRefresh` assumes that an awaited read ends, in any way, and that Home
Assistant starts the next cycle; that of `EnergyStrategy` that ticks evaluate what
`battery_priority_input_changed` says has changed. `FairSpec` of `Lifetimes`
assumes that Home Assistant goes on with the setup or unload it has begun and
repeats a failed setup, that two seconds pass, that a refresh ends (each of its
requests has a timeout) and, strongly, that not every first refresh fails. Of the
disk it assumes one thing, `WF_vars(PreparationEnds)`: that it answers the
preparation of the history's directory, if only with an error. The code does not
guarantee it (`persistent_history.py:107` has no timeout), and without it
`EditTakesEffect` does not hold: the setup never ends. The disk need not answer a
write, and nothing is assumed of commands or of the user.

`TimePasses` of the controller contains the assumption that the stabilization
delay was chosen for: the inverters have followed the limit when it ends.
`Settles` also needs `PromptRefresh`: the PV sample is renewed within the delay.
The code does not guarantee it (a sample up to 25 s old is accepted, the delay is
12 s), and with `PromptRefresh = FALSE` TLC finds behaviours in which the same
error is corrected again until the sample is renewed.

## 4. What is proved

Each theorem is of the form `Spec => []P` or `Spec => P`, for every value of the
constants that the named assumptions of the modules admit: any plant, target,
thresholds and delays; any number of ports, sliders and limits; any groups of
registers and intervals; any number of identifiers; any queue, batch and number
of reloads.

| Module | Theorems |
|---|---|
| `SchedulerCalls_proofs` | `SchedulerTypes`, `RunningUndisturbed`, `SchedulerImplementsPacedCommands` (refinement) |
| `ZeroInjectionController_proofs` | of the decision law, `AppliedLimitIsLegal`: in 2..100; `FineCorrectionIsCautious`: at most one fine step, in the direction of the error; `OneCorrectionIsEnough` and `EveryFineCorrectionHelps`: it does not hunt; of the controller, `ControllerTypes`, `CommandKeepsScheduler`, `ManualForgetsTheSession`, `InterruptionsRequireANewSeries` |
| `TemporaryLimits_proofs` | `LimitsTypes`, `LatestCommandWins`, `EffectiveLimitHolds`, `AutomaticFindsAgreement`, `UncertaintyNeedsACommand` |
| `ModbusClient_proofs` | `ClientTypes`, `AnswersMatchRequests`, `LossesDelayConnections` |
| `CoordinatorRefresh_proofs` | `RefreshTypes`, `FreshLimits`, `LimitsRecover`, `AvailabilityIsDebounced` |
| `EnergyStrategy_proofs` | `StrategyTypes`, `SaturationEnds`, `CapacityIsConfirmed`, `PriorityNeedsConfirmation`, `EvaluationIsIdempotent` |
| `CommandObservers_proofs` | `ObserversTypes`, `SessionBooksBalance`, `ReportsAreClosed`, `PendingIsTheFlight`, `ObservationsAreComparable` |
| `Lifetimes_proofs` | `LifetimesTypes`, `OneLifeAtATime`, `OptionsAreFollowed`, `StoredInOrder`, `NothingIsLostSilently` |

*Scheduler.* The inductive invariant adds to the types that a locked scheduler
is neither suspended nor in its delay; it is needed because `Begin` and
`Succeed` of the abstract specification say what is armed and quiet at those
moments. Each call then maps to one abstract action or to a stutter.

*Controller.* The three invariants are proved together: `CommandOwnsScheduler`
makes the mode changes' `AfterReset` a stutter on the scheduler while a command
is in flight, and `ManualForgets` needs the types. `SchedulerMethods` states
once that every method maps schedulers to schedulers and what it does to the
lock; the proof of the step has one lemma per group of actions. That `limit`
stays legal rests on `AppliedLimitIsLegal`, whose proof needs that rounding
yields an integer.

`InterruptionsRequireANewSeries` needs that, in a session, the code's counter and
the number of usable readings in a row agree (`SeriesIsCounted`). Its hypothesis
is that the mode is not selected, as in the run: the counter survives a stay in
Manual, whose ticks do not look at it, so a sensor that failed there leaves it
(see 5).

*Decision law.* The two theorems on hunting are the arithmetic behind `Settles`,
which itself is liveness and stays with TLC. They consider a house that is quiet,
measurements that are true and inverters that follow. A rounded quotient is within
half of the exact one (`RoundedIsClose`, `RoundIsClose`), so after a predictive
correction the error is at most half a percent of the plant or the limit is at its
bound. Both assume that the deadband is no smaller than that,
`200 * Deadband >= NominalPower`; the defaults (30 W of 3000 W) satisfy it. The
code does not enforce it, and the theorems are false without it: with a plant of
1000 W and a deadband of 4 W an error of 5 W is corrected to one of -5 W, and back.

*Temporary limits.* `LimitsInv` rests on the order of the lock's queue:
`QueueIsExact` (who waits is queued once), `LatestIsLast` (since the queue is
first in, first out, the command that started last never gets ahead of an
earlier one, so when it has written a port no earlier command has that port
still to write after it) and `LatestHolds` (the ports it has written hold its
limit until then). `ConfirmedHolds` and `Settled` carry this over to the cached
limits, outside the exceptions that `tainted` remembers.

*Client.* `OwedInOrder`: the answers owed are those to the last requests, in their
order, so that an identifier repeats only after all of them;
`LossesAreFailures`: the failure count is at least the number of losses in a row,
so no refusal shortens the delay. That the delays grow is the assumption
`DelaysGrow`, which TLC evaluates for the code's `5 * 2^n`: the provers know no
powers.

*Refresh.* `AgeFollowsGroup` and `ReadInTime` relate the age of a limit to the
time since its group was read, `MissingHasAReason` says why a limit that is not
available is not (its group is due again, or the cycle has a failure), and
`LossIsRemembered` and `FailuresAreCounted` relate the code's failure count to
the cycles that read nothing.

*Energy strategy.* The invariant relates the counters to the runs of distinct
samples they are to count: a saturation counter is never less than the run, a
confirmation counter never more. `EvaluationIsIdempotent` adds `DecisionStands`: the
counters of a state stop short of what would leave it, and state and policy are
what the evaluated resource asks for. That a second evaluation then repeats the
first is `HysteresisStands` for the release and the last part of `PriorityDecides`
for the priority.

*Observers.* `ObserverInv` says that only the newest trace may be pending, and only
while the command under way is of the session, and that the books balance at every
step: started is confirmed, failed and pending, and confirmed is judged and waiting.
The verdicts of several traces are counted at once when a session closes or a
measurement arrives; the lemmas on `WithOutcomes` count a set of traces by outcome
and show that what leaves the waiting ones enters the judged ones. What a slider
write adds to the pending trace changes none of it. `HasBegun` says that the
pending trace has begun its own write, which no slider write replaces;
`RefusedKeeps` that a refused takeover adds one failed trace that never did.
`ComparableInv` is the argument for the adaptive model: a reset while a command is
under way leaves it without evidence, and no tick collects any before the command
ends, so the registration that follows is rejected.

*Lifetimes.* `HistoryInv` is about one history: the numbers stored, with the
thread and in the queue are increasing and in this order, and they add up to what
was accepted; every operation of the history preserves it by a lemma of its own.
`LifeInv` says what each phase implies (a history that has not been started is
new, a life that is gone has no ticks and no worker). `LivesAreAskedFor` bounds
the lives by the changes of the options, `LockMatchesPhase` ties the lock to the
phase, and `FollowsOptions` holds between reloads; `UpdateKeeps` shows once for
all four writers that an update keeps them.

**Only model-checked.** Liveness, which the prover does not treat: `Settles`,
`PauseIsTransient`, `SuppressionEnds`, `UnfitBatteryGivesUp`, `EditTakesEffect`
and the violated ones. Every other property of a passing run is a
theorem.

## 5. Behaviours met on the way

What the code does, found while modelling, that no run is about.

*Against a document or comment:*
- the tick that completes a series of valid readings resets the scheduler and so
  forgets the stabilization delay of a takeover or a command (`controller.py:643`,
  README.md:41 and 59);
- an Error state is cleared by a sensor interruption, without the user re-arming
  (`controller.py:644`, docs/Architecture-Specification.md:380);
- a confirmed command clears the uncertainty an overlapping one's failure left
  (`coordinator.py:1178`, README.md:69); a restart forgets it
  (`coordinator.py:160`);
- a trace without telemetry between two evaluations may be judged ineffective
  (`trace.py:920`, README.md: "Une absence de mesures ou une télémétrie trop
  espacée ne peut jamais conclure à une commande inefficace");
- `temporary_limits_fresh` says "in this cycle" (`coordinator.py:809`); a limit
  stays fresh for an interval of its group;
- the observed-conservative confirmation counts a new state of charge or charge
  limit as a sample (`energy_strategy.py:1003`, `1085`; docs/specs/Build007.md:7,
  docs/Architecture-Specification.md:264 speak of fresh power samples);
- a disk that does not answer can block the regulation: the setup awaits the
  preparation of the history's directory without a timeout before it sets the
  timer, under Home Assistant's lock of the entry (`persistent_history.py:107`,
  `controller.py:443`, `__init__.py:56`; README.md:113: "un disque indisponible ou
  saturé ne peut jamais bloquer la régulation"). A disk that answers with an error
  does not, nor does one that hangs later;
- a learnt gain may be the effect of more than the command it is booked to: a
  command that cannot be observed itself (a change under 2 %, too little or unstable
  evidence, a release, a takeover, the slider) leaves an older observation pending
  (`adaptive_limit.py:219`), which is resolved by the power after both
  (docs/Modele-adaptatif-limite-DTU.md:11: "l'effet local d'une commande
  confirmée"). The delay of 12 s does not exclude it: an observation lives for 90 s
  and needs two samples, and the tick that takes the first may start the second
  command.

*Worth knowing:*
- an update of the options during the first refresh is heard by nobody
  (`__init__.py:45`); an unchanged mode or limit leaves the skip flag up, which
  swallows the next edit (`coordinator.py:991`, `1006`): both are `missed` in
  `Lifetimes`;
- a command of a life that was shut down raises its own, unregistered flag: its
  confirmation reloads the new life, and it may connect the old client again,
  which nobody closes;
- a stay in Manual keeps the count of valid readings (`controller.py:625`): if the
  sensor fails there and comes back, the first reading of the next session may
  already be corrected;
- ticks go on while the history is being stopped (`controller.py:456`);
- an exception other than `OSError` ends the history worker for the rest of the
  life, and its queue fills;
- a slider write that began in Manual reports its port results to the trace
  pending in Production; the times of the trace are its own all the same
  (`PendingIsInFlight`);
- a takeover that is refused before its first frame is a failed command of the
  session, with a trace that has no times.

## 6. Not modelled, and why

- *Simulation mode*: the coordinator maps it to Disabled at run time and the
  setup migrates a stored one (`Construct`).
- *The part of a tick that follows a strategy's directive* (release and probe
  commands): `EnergyStrategy` ends with the target and the policy it hands over,
  the controller's model runs the default mode.
- *Missing PV telemetry*: the controller falls back to the fine law; `Decision`
  has it, the controller's `pv` is always a number.
- *A command cancelled between frames*: nothing in the integration cancels one;
  the end of Home Assistant does, and the process ends with it. Register changes
  by someone else than the integration.
- *Ageing of the cached limits* is `ReferenceFades` in the controller and
  `CoordinatorRefresh`; in `TemporaryLimits` it could only forbid what is allowed.
- *The client's lock at the shutdown*: it is passed on in order of arrival and kept
  for one request, which has a timeout; a command of the life that is shut down
  loses it between two frames. How long the stream takes to close is left out.
- *Two lives writing one file*: the threads of both may append to the same day's
  file; the order of their lines is up to the file system. `stored` is per life.
- *Arithmetic of gains, profiles and confidence, statistics of a session*: passive
  records; nothing reads them back into a command.
- *Aggregates of the energy manager*: with one battery an aggregate is whole or
  empty, and the engine reads the resource itself.
- History ring, learning, calibration, context: records and constants that no
  decision reads. Presentation, diagnostics, the first configuration form,
  register decoding: no state, or none that flows back.

## 7. Plan

The modules of the plan are done: scheduler, decision, controller, temporary
limits, client, refresh, strategy with adapter, observers, lives with history.
Every safety property and every action property of the runs is proved. What remains
worth doing: prove the orders behind the liveness properties (an order that
decreases with every correction, for `Settles`), state an abstract history and show
that `PersistentHistory` implements it, and let the controller's tick follow the
strategy's directives.
