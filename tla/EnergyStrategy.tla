--------------------------- MODULE EnergyStrategy ---------------------------
(***************************************************************************)
(* energy_strategy.py: the engine that turns battery snapshots into the    *)
(* target or the directive the Production controller follows, in its two   *)
(* optional modes.  capacity_release frees the DTU while the battery has   *)
(* room, probes at an export of 100 W when it stays idle, and returns to   *)
(* zero injection when it is full or saturated; observed_conservative      *)
(* asks for more export while the battery is seen charging.                *)
(*                                                                         *)
(* The refresh cycle reads the battery (Refresh), ticks evaluate the       *)
(* snapshot it left (Evaluate), some snapshots several times and some      *)
(* never.  A signature is the snapshot it was taken from: `evaluated' is   *)
(* the resource and powerIsNew, gridIsNew say whether the timestamps of    *)
(* its power and of the grid reading differ from the evaluated ones.       *)
(***************************************************************************)
EXTENDS BatteryAdapter

CONSTANTS
    Modes,                \* the battery priority modes a user may configure
    Target,               \* the configured grid target, in W
    Margin,               \* the configured priority margin, in W
    ChargeThreshold,      \* _battery_priority_charge_threshold_w
    ConfirmationSamples,  \* _battery_priority_confirmation_samples
    Grids                 \* the values of the grid power, in W

ASSUME StrategyAssumption ==
    /\ Modes \subseteq {"observed_conservative", "capacity_release"}
    /\ Target \in Int
    /\ Margin \in Nat
    /\ ChargeThreshold \in Nat
    /\ ConfirmationSamples \in Nat \ {0}
    /\ Grids \subseteq Int

VARIABLES
    mode,         \* _battery_priority_mode
    capacity,     \* _capacity_release_state and its three sample counters
    priority,     \* _battery_priority_active and its two sample counters
    evaluated,    \* the resource of the last signatures
    powerIsNew,   \* resource holds a power publication no evaluation has seen
    grid,         \* the grid power a tick would use
    gridIsNew,    \* grid is a publication no evaluation has seen
    policy,       \* what the last decision asks of the controller
    confirmed,    \* history: a charge limit was published in this lifetime
    saturatedRun, \* history: distinct saturated publications evaluated in a row
    chargeRun     \* history: distinct charging snapshots evaluated in a row

engineVars == <<mode, capacity, priority, evaluated, policy, saturatedRun, chargeRun>>
strategyVars == <<adapterVars, engineVars, powerIsNew, grid, gridIsNew, confirmed>>

CapacitySamples == 3             \* the confirmation samples of capacity release
SaturationTolerance == 50
ProbeChargeThreshold == 50
ProbeInjectionThreshold == -100
ProbeTarget == -100
DischargeThreshold == 5
MaintainChargeThreshold == 5

(***************************************************************************)
(* What a snapshot is good for.                                            *)
(***************************************************************************)
\* _observed_data_reason returns None.
Observed(r, target) ==
    /\ target <= 0
    /\ r.health = "healthy"
    /\ r.charge # NoValue
    /\ r.discharge # NoValue

\* _capacity_release_reason returns None.
Usable(r, target) ==
    /\ Observed(r, target)
    /\ r.socFreshness = "fresh"
    /\ r.maxFreshness \in {"fresh", "cached"}
    /\ r.max > 0

Full(r) == r.soc >= 100
Saturated(r) == r.charge >= r.max - SaturationTolerance
InBand(r) == r.charge >= r.max - 2 * SaturationTolerance
Fit(r) == Usable(r, -1) /\ ~Full(r)

\* Mutant of Counts: every evaluation counts.
CountsEveryTime(new) == 1

\* The power of a healthy resource is fresh, so a new publication counts.
Counts(new) == IF new THEN 1 ELSE 0

(***************************************************************************)
(* capacity_release.                                                       *)
(***************************************************************************)
NoCapacity == [state |-> "zero_injection", saturation |-> 0, probe |-> 0, charging |-> 0]

\* Mutant of AfterSaturated: one sample more than confirmed.
AfterMoreSaturated(c, newPower) ==
    LET n == c.saturation + Counts(newPower)
    IN IF n > CapacitySamples THEN [NoCapacity EXCEPT !.saturation = n]
       ELSE [c EXCEPT !.saturation = n]

AfterSaturated(c, newPower) ==
    LET n == c.saturation + Counts(newPower)
    IN IF n >= CapacitySamples THEN [NoCapacity EXCEPT !.saturation = n]
       ELSE [c EXCEPT !.saturation = n]

AfterProbing(c, r, newPower) ==
    LET n == c.charging + Counts(newPower)
    IN CASE r.charge <= ProbeChargeThreshold -> [c EXCEPT !.charging = 0]
         [] n >= CapacitySamples -> [NoCapacity EXCEPT !.state = "release"]
         [] OTHER -> [c EXCEPT !.charging = n]

AfterReleasing(c, r, newGrid, g) ==
    LET n == c.probe + Counts(newGrid)
    IN CASE ~(r.charge <= ProbeChargeThreshold /\ g < ProbeInjectionThreshold) ->
                [NoCapacity EXCEPT !.state = "release"]
         [] n >= CapacitySamples -> [NoCapacity EXCEPT !.state = "probe", !.probe = n]
         [] OTHER -> [NoCapacity EXCEPT !.state = "release", !.probe = n]

\* _update_capacity_release_hysteresis
AfterHysteresis(c, r, newPower, newGrid, g) ==
    LET unsaturated == [c EXCEPT !.saturation = 0]
    IN CASE ~Fit(r) -> NoCapacity
         [] Fit(r) /\ Saturated(r) -> AfterSaturated(c, newPower)
         [] Fit(r) /\ ~Saturated(r) /\ c.state = "zero_injection" /\ InBand(r) -> unsaturated
         [] Fit(r) /\ ~Saturated(r) /\ c.state = "probe" -> AfterProbing(unsaturated, r, newPower)
         [] OTHER -> AfterReleasing(unsaturated, r, newGrid, g)

\* The comparison and the decision made from it.
CapacityPolicy(c, r) ==
    CASE ~Usable(r, Target) \/ Full(r) -> "zero_injection"
      [] OTHER -> c.state

\* A full or saturated answer also clears the counters.
AfterAnswer(c, r) ==
    IF Usable(r, Target) /\ (Full(r) \/ (c.state = "zero_injection" /\ c.saturation >= CapacitySamples))
    THEN [NoCapacity EXCEPT !.state = c.state] ELSE c

(***************************************************************************)
(* observed_conservative.                                                  *)
(***************************************************************************)
NoPriority == [active |-> FALSE, charging |-> 0, low |-> 0]

\* Mutant of AfterConfirmation: an idle battery keeps what it has confirmed.
AfterSparseConfirmation(p, r, new) ==
    CASE ~Observed(r, -1) \/ r.discharge > ChargeThreshold ->
             [p EXCEPT !.charging = 0, !.low = 0]
      [] Observed(r, -1) /\ r.discharge <= ChargeThreshold /\ p.active ->
             [p EXCEPT !.low = IF r.charge < MaintainChargeThreshold
                               THEN p.low + Counts(new) ELSE 0]
      [] OTHER -> IF r.charge > ChargeThreshold
                  THEN [p EXCEPT !.charging = p.charging + Counts(new)] ELSE p

\* _update_charge_confirmation
AfterConfirmation(p, r, new) ==
    CASE ~Observed(r, -1) \/ r.discharge > ChargeThreshold ->
             [p EXCEPT !.charging = 0, !.low = 0]
      [] Observed(r, -1) /\ r.discharge <= ChargeThreshold /\ p.active ->
             [p EXCEPT !.low = IF r.charge < MaintainChargeThreshold
                               THEN p.low + Counts(new) ELSE 0]
      [] OTHER -> IF r.charge > ChargeThreshold
                  THEN [p EXCEPT !.charging = p.charging + Counts(new)]
                  ELSE [p EXCEPT !.charging = 0, !.low = 0]

\* BatteryPriorityStrategy.observed_conservative does not fall back.
Prioritised(p, r) ==
    /\ Observed(r, Target)
    /\ r.discharge <= ChargeThreshold
    /\ IF p.active THEN p.low < ConfirmationSamples
       ELSE r.charge > ChargeThreshold /\ p.charging >= ConfirmationSamples

\* A fallback ends an active priority and its counts, and keeps a pending one.
AfterComparison(p, r) ==
    CASE Prioritised(p, r) -> [p EXCEPT !.active = TRUE]
      [] p.active /\ ~Prioritised(p, r) -> NoPriority
      [] OTHER -> p

(***************************************************************************)
(* The grid target the controller is given.                                *)
(***************************************************************************)
GridTarget ==
    CASE policy = "probe" -> ProbeTarget
      [] policy = "priority" -> Target - Margin
      [] OTHER -> Target

(***************************************************************************)
(* Initial state and actions.                                              *)
(***************************************************************************)
Unevaluated == [NoResource EXCEPT !.maxFreshness = "cached"]   \* no signature is this

NewEngine ==
    /\ mode' \in Modes
    /\ capacity' = NoCapacity
    /\ priority' = NoPriority
    /\ evaluated' = Unevaluated
    /\ policy' = "zero_injection"
    /\ saturatedRun' = 0
    /\ chargeRun' = 0

Init ==
    /\ AdapterInit
    /\ mode \in Modes
    /\ capacity = NoCapacity
    /\ priority = NoPriority
    /\ evaluated = Unevaluated
    /\ powerIsNew = TRUE
    /\ grid \in Grids
    /\ gridIsNew = TRUE
    /\ policy = "zero_injection"
    /\ confirmed = FALSE
    /\ saturatedRun = 0
    /\ chargeRun = 0

\* A refresh cycle reads the sources, one of which has published a value, grown
\* old or been lost since the last one.  Several that changed at once are as many
\* refreshes with no tick between them.
Refresh ==
    /\ \E s \in Sources, isNew \in BOOLEAN :
       \E reading \in IF isNew THEN Published(s) ELSE Silent(s) \cup Lost :
            /\ ReadResource([readings EXCEPT ![s] = reading])
            /\ powerIsNew' = (powerIsNew \/ (isNew /\ s = "power"))
            /\ confirmed' = (confirmed \/ (isNew /\ s = "limit"))
    /\ UNCHANGED <<engineVars, grid, gridIsNew>>

PublishGrid ==
    /\ grid' \in Grids
    /\ gridIsNew' = TRUE
    /\ UNCHANGED <<adapterVars, engineVars, powerIsNew, confirmed>>

\* Mutant of InputChanged: only the power asks for an evaluation.
PowerChanged == powerIsNew

\* battery_priority_input_changed: the tick must evaluate.
InputChanged ==
    \/ resource # evaluated
    \/ powerIsNew
    \/ /\ mode = "capacity_release" /\ capacity.state = "release"
       /\ grid < ProbeInjectionThreshold
       /\ gridIsNew

\* decide(activate_battery_priority=True), by a tick in Production that has a
\* valid grid reading.  Other inputs than the battery's (grid, limits, settings)
\* may ask for it, so it may evaluate what it has already evaluated.
NewPower == powerIsNew \/ resource.charge # evaluated.charge
                       \/ resource.discharge # evaluated.discharge
NewSample == powerIsNew \/ resource # evaluated

EvaluateCapacity ==
    LET c == AfterHysteresis(capacity, resource, NewPower, gridIsNew, grid)
    IN /\ mode = "capacity_release"
       /\ capacity' = AfterAnswer(c, resource)
       /\ policy' = CapacityPolicy(c, resource)
       /\ gridIsNew' = FALSE
       /\ saturatedRun' = IF ~(Fit(resource) /\ Saturated(resource)) THEN 0
                          ELSE IF powerIsNew /\ saturatedRun < CapacitySamples
                               THEN saturatedRun + 1 ELSE saturatedRun
       /\ UNCHANGED <<priority, chargeRun>>

EvaluatePriority ==
    LET p == AfterConfirmation(priority, resource, NewSample)
    IN /\ mode = "observed_conservative"
       /\ priority' = AfterComparison(p, resource)
       /\ policy' = IF Prioritised(p, resource) THEN "priority" ELSE "zero_injection"
       /\ chargeRun' = IF ~(Observed(resource, -1) /\ resource.charge > ChargeThreshold) THEN 0
                       ELSE IF NewSample /\ chargeRun < ConfirmationSamples
                            THEN chargeRun + 1 ELSE chargeRun
       /\ UNCHANGED <<capacity, gridIsNew, saturatedRun>>

Evaluate ==
    /\ EvaluateCapacity \/ EvaluatePriority
    /\ evaluated' = resource
    /\ powerIsNew' = FALSE
    /\ UNCHANGED <<adapterVars, mode, grid, confirmed>>

\* A restart of Home Assistant or a reload of the entry.
Restart ==
    /\ NewAdapter
    /\ NewEngine
    /\ powerIsNew' = TRUE
    /\ gridIsNew' = TRUE
    /\ confirmed' = FALSE
    /\ UNCHANGED grid

Next == Refresh \/ PublishGrid \/ Evaluate \/ Restart

\* Ticks come every 3 s and evaluate what has changed; nothing else is promised.
Spec == Init /\ [][Next]_strategyVars /\ WF_strategyVars(InputChanged /\ Evaluate)
-----------------------------------------------------------------------------
(***************************************************************************)
(* Properties.                                                             *)
(***************************************************************************)
CapacityStates == [state : {"zero_injection", "probe", "release"}, saturation : Nat,
                   probe : Nat, charging : Nat]
PriorityStates == [active : BOOLEAN, charging : Nat, low : Nat]

\* The types of the state.
StrategyTypeOK ==
    /\ AdapterTypeOK
    /\ mode \in Modes
    /\ capacity \in CapacityStates
    /\ priority \in PriorityStates
    /\ evaluated \in Resources
    /\ powerIsNew \in BOOLEAN /\ gridIsNew \in BOOLEAN /\ confirmed \in BOOLEAN
    /\ grid \in Grids
    /\ policy \in {"zero_injection", "probe", "release", "priority"}
    /\ saturatedRun \in 0..CapacitySamples
    /\ chargeRun \in 0..ConfirmationSamples

\* Three distinct publications in a row that show the battery saturated end the
\* release and the probe, however many evaluations came between them, and the
\* counters they reset do not let it start again before the battery has room.
SaturationEndsRelease ==
    saturatedRun = CapacitySamples => policy \notin {"release", "probe"}

\* What the battery can take is never known from a value restored at the start:
\* the DTU is not released before the limit has been published in this lifetime.
CapacityIsConfirmedSinceStart == policy \in {"release", "probe"} => confirmed

\* Evaluating again what was evaluated changes no decision: confirmation counts
\* publications, and no counter lets a second look at the same data act.  Only the
\* capacity release looks at the grid, so the priority stands whatever it does.
RepeatedEvaluationChangesNothing ==
    [][/\ evaluated = resource /\ evaluated' = evaluated /\ resource' = resource
       /\ ~powerIsNew
       /\ (mode = "capacity_release" => ~gridIsNew)
       => UNCHANGED <<policy, capacity.state, priority.active>>]_strategyVars

\* A battery that is full, or whose data went bad, brings the target back by the
\* ticks' own doing: no other input has to change for the decision to be redone.
Unfit == IF mode = "capacity_release" THEN ~Fit(resource)
         ELSE ~Observed(resource, -1) \/ resource.discharge > ChargeThreshold
UnfitBatteryGivesUp == Unfit ~> (policy = "zero_injection" \/ ~Unfit)

\* The priority starts only after the configured number of distinct snapshots in
\* a row that all show the battery charging: an idle, a discharging or an
\* unusable one in between starts over.
PriorityIsConfirmed ==
    [][~priority.active /\ priority'.active => chargeRun' >= ConfirmationSamples]_strategyVars
=============================================================================
