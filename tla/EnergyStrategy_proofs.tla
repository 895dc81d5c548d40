------------------------ MODULE EnergyStrategy_proofs ------------------------
(***************************************************************************)
(* What the energy strategy promises holds for every battery, sensor,      *)
(* threshold, margin and number of samples.                                *)
(***************************************************************************)
EXTENDS EnergyStrategy, TLAPS

(***************************************************************************)
(* Types.                                                                  *)
(***************************************************************************)
\* The power in a direction is never negative.
LEMMA DirectedType ==
  ASSUME NEW power \in Readings("power"), NEW sign
  PROVE  Directed(power, sign) \in Nat \cup {NoValue}
<1>1. power.status \in {"missing", "bad"} \/ power.value \in Int
  BY AdapterAssumption DEF Readings, Values
<1>2. \A w \in Int : Positive(w) \in Nat /\ -w \in Int
  BY DEF Positive
<1>3. CASE power.status \in {"missing", "bad"} \/ PowerSign = "unknown"
  BY <1>3 DEF Directed
<1>4. CASE ~(power.status \in {"missing", "bad"} \/ PowerSign = "unknown")
  <2>1. (IF PowerSign = sign THEN power.value ELSE -power.value) \in Int
    BY <1>1, <1>2, <1>4
  <2> QED
    BY <1>2, <1>4, <2>1 DEF Directed
<1> QED
  BY <1>3, <1>4

\* What the adapter makes of legal readings is a legal resource.
LEMMA ResourceType ==
  ASSUME NEW found \in [Sources -> UNION {Readings(s) : s \in Sources}],
         \A s \in Sources : found[s] \in Readings(s),
         verified \in Capacities \cup {NoValue}
  PROVE  /\ BatteryResource(found) \in Resources
         /\ Remembered(found["limit"]) \in Capacities \cup {NoValue}
<1> DEFINE power == found["power"]
           soc == found["soc"]
           limit == found["limit"]
<1>1. /\ power \in Readings("power") /\ soc \in Readings("soc") /\ limit \in Readings("limit")
      /\ Values("power") = Watts /\ Values("soc") = Charges /\ Values("limit") = Capacities
  BY DEF Sources, Values
<1>2. /\ Remembered(limit) \in Capacities \cup {NoValue}
      /\ Reported(limit) \in Capacities \cup {NoValue}
  BY <1>1 DEF Readings, Remembered, Reported
<1>3. soc.value \in Charges \cup {NoValue}
  BY <1>1 DEF Readings
<1>4. /\ Directed(power, "positive_charging") \in Nat \cup {NoValue}
      /\ Directed(power, "positive_discharging") \in Nat \cup {NoValue}
  BY <1>1, DirectedType
<1>5. Health(power) \in {"none", "unavailable", "stale", "inconsistent", "healthy"}
  BY DEF Health
<1>6. /\ Freshness(soc) \in FreshnessValues
      /\ (IF Reported(limit) # NoValue /\ limit.status # "live"
          THEN "cached" ELSE Freshness(limit)) \in FreshnessValues
  BY DEF Freshness, FreshnessValues
<1>7. BatteryResource(found) \in Resources
  BY <1>2, <1>3, <1>4, <1>5, <1>6 DEF BatteryResource, Resources
<1> QED
  BY <1>2, <1>7

\* One refresh with legal readings keeps the adapter's types.
LEMMA ReadResourceTypes ==
  ASSUME AdapterTypeOK, NEW s \in Sources, NEW reading \in Readings(s),
         ReadResource([readings EXCEPT ![s] = reading])
  PROVE  AdapterTypeOK'
<1> DEFINE found == [readings EXCEPT ![s] = reading]
<1>1. found \in [Sources -> UNION {Readings(t) : t \in Sources}]
  BY DEF AdapterTypeOK
<1>2. \A t \in Sources : found[t] \in Readings(t)
  BY DEF AdapterTypeOK
<1>3. /\ BatteryResource(found) \in Resources
      /\ Remembered(found["limit"]) \in Capacities \cup {NoValue}
  BY <1>1, <1>2, ResourceType DEF AdapterTypeOK
<1> HIDE DEF found
<1>4. readings' = found /\ verified' = Remembered(found["limit"])
      /\ resource' = BatteryResource(found)
  BY DEF ReadResource, found
<1> QED
  BY <1>1, <1>2, <1>3, <1>4 DEF AdapterTypeOK

\* A source's next reading is a reading of that source.
LEMMA ReadingTypes ==
  ASSUME AdapterTypeOK, NEW s \in Sources, NEW isNew \in BOOLEAN,
         NEW reading \in IF isNew THEN Published(s) ELSE Silent(s) \cup Lost
  PROVE  /\ reading \in Readings(s)
         /\ reading.status \in {"live", "old"} => isNew \/ readings[s].status \in {"live", "old"}
<1>1. readings[s] \in Readings(s)
  BY DEF AdapterTypeOK
<1>2. CASE reading \in Published(s)
  <2>1. isNew \/ reading \in Silent(s) \cup Lost
    OBVIOUS
  <2> QED
    BY <1>1, <1>2, <2>1, AdapterAssumption DEF Published, Silent, Lost, Readings
<1>3. CASE reading \in Silent(s)
  BY <1>1, <1>3 DEF Silent, Readings
<1>4. CASE reading \in Lost
  <2>1. PICK st \in {"missing", "bad"} : reading = [status |-> st, value |-> NoValue]
    BY <1>4, AdapterAssumption DEF Lost
  <2> QED
    BY <2>1 DEF Readings
<1> QED
  BY <1>2, <1>3, <1>4

(***************************************************************************)
(* The inductive invariant.                                                *)
(***************************************************************************)
\* Whatever holds a capacity has had it from a publication of this lifetime.
CapacityHasASource ==
  /\ readings["limit"].status \in {"live", "old"} => confirmed
  /\ verified # NoValue => confirmed
  /\ resource.max # NoValue => confirmed

\* The policy follows the state; a state other than zero injection rests on a
\* capacity and on fewer saturated publications than end it.
StateIsEarned ==
  /\ policy \in {"release", "probe"} => policy = capacity.state
  /\ capacity.state # "zero_injection" => /\ confirmed
                                          /\ capacity.saturation < CapacitySamples
                                          /\ saturatedRun <= capacity.saturation

\* A pending priority counts no more than was seen in a row.
CountIsSeen ==
  ~priority.active => priority.charging <= chargeRun \/ chargeRun = ConfirmationSamples

StrategyInv == StrategyTypeOK /\ CapacityHasASource /\ StateIsEarned /\ CountIsSeen

\* The counters of an undecided state have not reached what would decide it.
CountsArePending ==
  /\ resource # Unevaluated
  /\ capacity.charging < CapacitySamples
  /\ capacity.state = "release" => capacity.probe < CapacitySamples
  /\ ~priority.active => priority.low = 0

\* The capacity state and its policy are what the evaluated resource asks for.
ReleaseStands ==
  /\ policy = CapacityPolicy(capacity, evaluated)
  /\ ~Fit(evaluated) => capacity.state = "zero_injection"
  /\ Fit(evaluated) /\ ~Saturated(evaluated) /\ ~InBand(evaluated)
       => capacity.state # "zero_injection"

\* The priority and its policy are what the evaluated resource asks for.
PriorityStands ==
  /\ priority.active => Prioritised(priority, evaluated)
  /\ ~priority.active => ~Prioritised(priority, evaluated)
  /\ policy = IF priority.active THEN "priority" ELSE "zero_injection"

DecisionStands ==
  /\ CountsArePending
  /\ evaluated # Unevaluated /\ mode = "capacity_release" => ReleaseStands
  /\ evaluated # Unevaluated /\ mode = "observed_conservative" => PriorityStands

LEMMA InitEstablishes == Init => StrategyInv
<1> SUFFICES ASSUME Init PROVE StrategyInv
  OBVIOUS
<1> USE DEF Init, AdapterInit
<1>1. NoResource \in Resources /\ Unevaluated \in Resources
  BY DEF NoResource, Resources, FreshnessValues, Unevaluated
<1>2. AdapterTypeOK
  <2>1. \A s \in Sources : [status |-> "missing", value |-> NoValue] \in Readings(s)
    BY DEF Readings
  <2>2. \A s \in Sources : readings[s] = [status |-> "missing", value |-> NoValue]
    OBVIOUS
  <2>3. readings \in [Sources -> UNION {Readings(s) : s \in Sources}]
    BY <2>1, <2>2
  <2> QED
    BY <1>1, <2>1, <2>2, <2>3 DEF AdapterTypeOK
<1>3. StrategyTypeOK
  <2>1. NoCapacity \in CapacityStates /\ NoPriority \in PriorityStates
    BY DEF CapacityStates, PriorityStates, NoCapacity, NoPriority
  <2>2. 0 \in 0..CapacitySamples /\ 0 \in 0..ConfirmationSamples
    BY StrategyAssumption DEF CapacitySamples
  <2> QED
    BY <1>1, <1>2, <2>1, <2>2 DEF StrategyTypeOK
<1>4. CapacityHasASource
  BY DEF CapacityHasASource, NoResource, Sources
<1>5. StateIsEarned /\ CountIsSeen
  BY DEF StateIsEarned, CountIsSeen, NoCapacity, NoPriority, CapacitySamples
<1> QED
  BY <1>3, <1>4, <1>5 DEF StrategyInv

\* One evaluation of the hysteresis: it keeps its types; a state other than zero
\* injection needs room and a capacity, and saturation ends it with the third sample.
LEMMA HysteresisStep ==
  ASSUME NEW c \in CapacityStates, NEW r \in Resources,
         NEW newPower \in BOOLEAN, NEW newGrid \in BOOLEAN, NEW g \in Int
  PROVE  LET d == AfterHysteresis(c, r, newPower, newGrid, g)
         IN /\ d \in CapacityStates
            /\ d.state # "zero_injection" =>
                 /\ Fit(r)
                 /\ d.saturation < CapacitySamples \/ d.saturation = c.saturation
                 /\ Saturated(r) =>
                      /\ d.state = c.state
                      /\ d.saturation = c.saturation + Counts(newPower)
                      /\ d.saturation < CapacitySamples
                 /\ ~Saturated(r) => d.saturation = 0
<1> DEFINE d == AfterHysteresis(c, r, newPower, newGrid, g)
           u == [c EXCEPT !.saturation = 0]
<1>1. Counts(newPower) \in {0, 1} /\ Counts(newGrid) \in {0, 1}
  BY DEF Counts
<1>2. NoCapacity \in CapacityStates /\ NoCapacity.state = "zero_injection"
      /\ NoCapacity.saturation = 0
  BY DEF NoCapacity, CapacityStates
<1>3. u \in CapacityStates /\ u.saturation = 0 /\ u.state = c.state
  BY DEF CapacityStates
<1>4. CASE ~Fit(r)
  BY <1>2, <1>4 DEF AfterHysteresis
<1>5. CASE Fit(r) /\ Saturated(r)
  <2>1. d = AfterSaturated(c, newPower)
    BY <1>5 DEF AfterHysteresis
  <2>2. /\ AfterSaturated(c, newPower) \in CapacityStates
        /\ AfterSaturated(c, newPower).state # "zero_injection" =>
             /\ AfterSaturated(c, newPower).state = c.state
             /\ AfterSaturated(c, newPower).saturation = c.saturation + Counts(newPower)
             /\ c.saturation + Counts(newPower) < CapacitySamples
    BY <1>1 DEF AfterSaturated, CapacityStates, NoCapacity, CapacitySamples
  <2> QED
    BY <1>5, <2>1, <2>2
<1>6. CASE Fit(r) /\ ~Saturated(r)
  <2>1. \/ d = u
        \/ d = AfterProbing(u, r, newPower)
        \/ d = AfterReleasing(u, r, newGrid, g)
    BY <1>6 DEF AfterHysteresis
  <2>2. /\ AfterProbing(u, r, newPower) \in CapacityStates
        /\ AfterProbing(u, r, newPower).saturation = 0
    <3> DEFINE n == u.charging + Counts(newPower)
    <3>1. n \in Nat
      BY <1>1, <1>3 DEF CapacityStates
    <3>2. \/ AfterProbing(u, r, newPower) = [u EXCEPT !.charging = 0]
          \/ AfterProbing(u, r, newPower) = [NoCapacity EXCEPT !.state = "release"]
          \/ AfterProbing(u, r, newPower) = [u EXCEPT !.charging = n]
      BY DEF AfterProbing
    <3> HIDE DEF u, n
    <3> QED
      BY <1>2, <1>3, <3>1, <3>2 DEF CapacityStates
  <2>3. /\ AfterReleasing(u, r, newGrid, g) \in CapacityStates
        /\ AfterReleasing(u, r, newGrid, g).saturation = 0
    <3> DEFINE n == u.probe + Counts(newGrid)
    <3>1. n \in Nat
      BY <1>1, <1>3 DEF CapacityStates
    <3>2. \/ AfterReleasing(u, r, newGrid, g) = [NoCapacity EXCEPT !.state = "release"]
          \/ AfterReleasing(u, r, newGrid, g)
               = [NoCapacity EXCEPT !.state = "probe", !.probe = n]
          \/ AfterReleasing(u, r, newGrid, g)
               = [NoCapacity EXCEPT !.state = "release", !.probe = n]
      BY DEF AfterReleasing
    <3> HIDE DEF u, n
    <3> QED
      BY <1>2, <1>3, <3>1, <3>2 DEF CapacityStates
  <2>4. d \in CapacityStates /\ d.saturation = 0
    BY <1>3, <2>1, <2>2, <2>3
  <2> HIDE DEF d
  <2>5. d.saturation < CapacitySamples
    BY <2>4 DEF CapacitySamples
  <2> QED
    BY <1>6, <2>4, <2>5 DEF d
<1> QED
  BY <1>4, <1>5, <1>6

\* The types and the confirmed state of the capacity after an evaluation.
LEMMA EvaluateCapacityPreserves ==
  ASSUME StrategyInv, Evaluate, EvaluateCapacity PROVE StrategyInv'
<1> DEFINE c == AfterHysteresis(capacity, resource, NewPower, gridIsNew, grid)
<1>1. /\ capacity \in CapacityStates /\ resource \in Resources
      /\ NewPower \in BOOLEAN /\ gridIsNew \in BOOLEAN /\ grid \in Int
      /\ powerIsNew => NewPower
  BY StrategyAssumption DEF StrategyInv, StrategyTypeOK, AdapterTypeOK, NewPower
<1>2. /\ c \in CapacityStates
      /\ c.state # "zero_injection" =>
           /\ Fit(resource)
           /\ c.saturation < CapacitySamples \/ c.saturation = capacity.saturation
           /\ Saturated(resource) =>
                /\ c.state = capacity.state
                /\ c.saturation = capacity.saturation + Counts(NewPower)
                /\ c.saturation < CapacitySamples
           /\ ~Saturated(resource) => c.saturation = 0
  BY <1>1, HysteresisStep
<1> HIDE DEF c
<1>3. /\ capacity' = AfterAnswer(c, resource) /\ policy' = CapacityPolicy(c, resource)
      /\ UNCHANGED <<priority, chargeRun, adapterVars, mode, grid, confirmed>>
      /\ evaluated' = resource /\ powerIsNew' = FALSE /\ gridIsNew' = FALSE
      /\ saturatedRun' = IF ~(Fit(resource) /\ Saturated(resource)) THEN 0
                         ELSE IF powerIsNew /\ saturatedRun < CapacitySamples
                              THEN saturatedRun + 1 ELSE saturatedRun
  BY DEF Evaluate, EvaluateCapacity, EvaluatePriority, c
<1>4. /\ capacity' \in CapacityStates /\ capacity'.state = c.state
      /\ c.state # "zero_injection" => capacity' = c
  <2>1. CASE capacity' = c
    BY <1>2, <2>1
  <2>2. CASE capacity' # c
    <3>1. /\ capacity' = [NoCapacity EXCEPT !.state = c.state]
          /\ Full(resource) \/ c.state = "zero_injection"
      BY <1>3, <2>2 DEF AfterAnswer
    <3>2. c.state = "zero_injection"
      BY <1>2, <3>1 DEF Fit
    <3> QED
      BY <1>2, <3>1, <3>2 DEF NoCapacity, CapacityStates
  <2> QED
    BY <2>1, <2>2
<1>5. /\ policy' \in {"zero_injection", c.state}
      /\ c.state \in {"zero_injection", "probe", "release"}
  BY <1>2, <1>3 DEF CapacityPolicy, CapacityStates
<1>6. saturatedRun' \in 0..CapacitySamples
  BY <1>3 DEF StrategyInv, StrategyTypeOK, CapacitySamples
<1>7. AdapterTypeOK'
  BY <1>3 DEF StrategyInv, StrategyTypeOK, AdapterTypeOK, adapterVars
<1>8. StrategyTypeOK'
  BY <1>1, <1>3, <1>4, <1>5, <1>6, <1>7 DEF StrategyInv, StrategyTypeOK
<1>9. CapacityHasASource'
  BY <1>3 DEF StrategyInv, CapacityHasASource, adapterVars
<1>10. StateIsEarned'
  <2>1. ASSUME c.state # "zero_injection"
        PROVE  confirmed'
    <3>1. resource.max # NoValue
      BY <1>2, <2>1 DEF Fit, Usable, NoValue
    <3> QED
      BY <1>3, <3>1 DEF StrategyInv, CapacityHasASource
  <2>2. ASSUME c.state # "zero_injection"
        PROVE  c.saturation < CapacitySamples /\ saturatedRun' <= c.saturation
    <3>1. CASE Saturated(resource)
      <4>1. /\ saturatedRun <= capacity.saturation
            /\ saturatedRun \in Nat /\ capacity.saturation \in Nat
        BY <1>1, <1>2, <2>2, <3>1
           DEF StrategyInv, StateIsEarned, StrategyTypeOK, CapacityStates, CapacitySamples
      <4>2. /\ saturatedRun' \in {saturatedRun, saturatedRun + 1}
            /\ saturatedRun' = saturatedRun + 1 => Counts(NewPower) = 1
            /\ Counts(NewPower) \in {0, 1}
        BY <1>1, <1>2, <1>3, <2>2, <3>1, <4>1 DEF Counts
      <4> QED
        BY <1>2, <2>2, <3>1, <4>1, <4>2
    <3>2. CASE ~Saturated(resource)
      BY <1>2, <1>3, <2>2, <3>2 DEF CapacitySamples
    <3> QED
      BY <3>1, <3>2
  <2> QED
    BY <1>4, <1>5, <2>1, <2>2 DEF StateIsEarned
<1>11. CountIsSeen'
  BY <1>3 DEF StrategyInv, CountIsSeen
<1> QED
  BY <1>8, <1>9, <1>10, <1>11 DEF StrategyInv

\* An evaluation of the priority keeps the invariant, and activates with enough
\* samples only.
LEMMA EvaluatePriorityPreserves ==
  ASSUME StrategyInv, Evaluate, EvaluatePriority
  PROVE  /\ StrategyInv'
         /\ ~priority.active /\ priority'.active => chargeRun' >= ConfirmationSamples
<1> DEFINE p == AfterConfirmation(priority, resource, NewSample)
           q == AfterComparison(p, resource)
           charging == Observed(resource, -1) /\ resource.charge > ChargeThreshold
<1>1. /\ priority \in PriorityStates /\ chargeRun \in 0..ConfirmationSamples
      /\ Counts(NewSample) \in {0, 1} /\ (Counts(NewSample) = 1 <=> NewSample)
      /\ ConfirmationSamples \in Nat \ {0}
  BY StrategyAssumption DEF StrategyInv, StrategyTypeOK, Counts
<1>2. /\ priority' = q
      /\ policy' = IF Prioritised(p, resource) THEN "priority" ELSE "zero_injection"
      /\ chargeRun' = IF ~charging THEN 0
                      ELSE IF NewSample /\ chargeRun < ConfirmationSamples
                           THEN chargeRun + 1 ELSE chargeRun
      /\ UNCHANGED <<capacity, gridIsNew, saturatedRun, adapterVars, mode, grid, confirmed>>
      /\ evaluated' = resource /\ powerIsNew' = FALSE
  BY DEF Evaluate, EvaluateCapacity, EvaluatePriority
<1>3. chargeRun' \in 0..ConfirmationSamples
  BY <1>1, <1>2
<1>4. /\ p \in PriorityStates /\ p.active = priority.active
      /\ ~p.active => \/ p.charging = 0
                      \/ charging /\ p.charging = priority.charging + Counts(NewSample)
  <2>1. \/ p = [priority EXCEPT !.charging = 0, !.low = 0]
        \/ p = [priority EXCEPT !.low = priority.low + Counts(NewSample)] /\ priority.active
        \/ p = [priority EXCEPT !.low = 0] /\ priority.active
        \/ p = [priority EXCEPT !.charging = priority.charging + Counts(NewSample)] /\ charging
    BY DEF AfterConfirmation
  <2>2. /\ priority.low + Counts(NewSample) \in Nat
        /\ priority.charging + Counts(NewSample) \in Nat
    BY <1>1 DEF PriorityStates
  <2> HIDE DEF p, charging
  <2>3. CASE p = [priority EXCEPT !.charging = 0, !.low = 0]
    BY <1>1, <2>3 DEF PriorityStates
  <2>4. CASE p = [priority EXCEPT !.low = priority.low + Counts(NewSample)] /\ priority.active
    BY <1>1, <2>2, <2>4 DEF PriorityStates
  <2>5. CASE p = [priority EXCEPT !.low = 0] /\ priority.active
    BY <1>1, <2>5 DEF PriorityStates
  <2>6. CASE p = [priority EXCEPT !.charging = priority.charging + Counts(NewSample)]
             /\ charging
    BY <1>1, <2>2, <2>6 DEF PriorityStates
  <2> QED
    BY <2>1, <2>3, <2>4, <2>5, <2>6
<1> HIDE DEF p
<1>5. \/ q = [p EXCEPT !.active = TRUE] /\ Prioritised(p, resource)
      \/ q = NoPriority
      \/ q = p /\ ~p.active
  BY DEF AfterComparison
<1> HIDE DEF q, charging
<1>6. q \in PriorityStates
  <2>1. NoPriority \in PriorityStates
    BY DEF NoPriority, PriorityStates
  <2>2. [p EXCEPT !.active = TRUE] \in PriorityStates
    BY <1>4 DEF PriorityStates
  <2> QED
    BY <1>4, <1>5, <2>1, <2>2
<1>7. ~p.active => p.charging <= chargeRun' \/ chargeRun' = ConfirmationSamples
  <2>1. ASSUME ~p.active, p.charging # 0
        PROVE  /\ charging /\ p.charging = priority.charging + Counts(NewSample)
               /\ priority.charging <= chargeRun \/ chargeRun = ConfirmationSamples
    BY <1>4, <2>1 DEF StrategyInv, CountIsSeen
  <2>2. p.charging \in Nat /\ priority.charging \in Nat
    BY <1>1, <1>4 DEF PriorityStates
  <2> QED
    BY <1>1, <1>2, <1>3, <2>1, <2>2
<1>8. ~priority.active /\ q.active => chargeRun' >= ConfirmationSamples
  <2>1. ASSUME ~priority.active, q.active
        PROVE  p.charging >= ConfirmationSamples
    BY <1>4, <1>5, <2>1 DEF Prioritised, NoPriority
  <2>2. p.charging \in Nat
    BY <1>4 DEF PriorityStates
  <2> QED
    BY <1>1, <1>3, <1>4, <1>7, <2>1, <2>2
<1>9. CountIsSeen'
  <2>1. ~q.active => q.charging <= chargeRun' \/ chargeRun' = ConfirmationSamples
    <3>1. CASE q = p
      BY <1>7, <3>1
    <3>2. CASE q = NoPriority
      BY <1>3, <3>2 DEF NoPriority
    <3>3. CASE q = [p EXCEPT !.active = TRUE]
      BY <1>4, <3>3 DEF PriorityStates
    <3> QED
      BY <1>5, <3>1, <3>2, <3>3
  <2> QED
    BY <1>2, <2>1 DEF CountIsSeen
<1>10. AdapterTypeOK'
  BY <1>2 DEF StrategyInv, StrategyTypeOK, AdapterTypeOK, adapterVars
<1>11. StrategyTypeOK'
  BY <1>2, <1>3, <1>6, <1>10 DEF StrategyInv, StrategyTypeOK, AdapterTypeOK
<1>12. CapacityHasASource' /\ StateIsEarned'
  BY <1>2 DEF StrategyInv, CapacityHasASource, StateIsEarned, adapterVars
<1> QED
  BY <1>2, <1>8, <1>9, <1>11, <1>12 DEF StrategyInv

LEMMA RefreshPreserves == ASSUME StrategyInv, Refresh PROVE StrategyInv'
<1>0. PICK s \in Sources, isNew \in BOOLEAN :
        \E reading \in IF isNew THEN Published(s) ELSE Silent(s) \cup Lost :
           /\ ReadResource([readings EXCEPT ![s] = reading])
           /\ powerIsNew' = (powerIsNew \/ (isNew /\ s = "power"))
           /\ confirmed' = (confirmed \/ (isNew /\ s = "limit"))
  BY DEF Refresh
<1>1. PICK reading \in IF isNew THEN Published(s) ELSE Silent(s) \cup Lost :
        /\ ReadResource([readings EXCEPT ![s] = reading])
        /\ powerIsNew' = (powerIsNew \/ (isNew /\ s = "power"))
        /\ confirmed' = (confirmed \/ (isNew /\ s = "limit"))
  BY <1>0
<1>2. UNCHANGED <<engineVars, grid, gridIsNew>>
  BY DEF Refresh
<1>3. AdapterTypeOK
  BY DEF StrategyInv, StrategyTypeOK
<1>4. /\ reading \in Readings(s)
      /\ reading.status \in {"live", "old"} => isNew \/ readings[s].status \in {"live", "old"}
  BY <1>3, ReadingTypes
<1>5. AdapterTypeOK'
  BY <1>1, <1>3, <1>4, ReadResourceTypes
<1>6. powerIsNew' \in BOOLEAN /\ confirmed' \in BOOLEAN
  BY <1>1
<1>7. StrategyTypeOK'
  BY <1>2, <1>5, <1>6 DEF StrategyInv, StrategyTypeOK, engineVars
<1>8. CapacityHasASource'
  <2> DEFINE found == [readings EXCEPT ![s] = reading]
  <2>1. readings' = found /\ verified' = Remembered(found["limit"])
        /\ resource' = BatteryResource(found)
    BY <1>1 DEF ReadResource
  <2>2. found["limit"].status \in {"live", "old"} => confirmed'
    <3>1. CASE s = "limit"
      <4>1. found["limit"] = reading
        BY <1>3, <3>1 DEF AdapterTypeOK
      <4> QED
        BY <1>1, <1>4, <3>1, <4>1 DEF StrategyInv, CapacityHasASource
    <3>2. CASE s # "limit"
      <4>1. found["limit"] = readings["limit"]
        BY <1>3, <3>2 DEF AdapterTypeOK, Sources
      <4> QED
        BY <1>1, <4>1 DEF StrategyInv, CapacityHasASource
    <3> QED
      BY <3>1, <3>2
  <2>3. found["limit"].status \in {"live", "old", "restored", "missing", "bad"}
    BY <1>5, <2>1 DEF AdapterTypeOK, Readings, Sources
  <2> HIDE DEF found
  <2>4. Remembered(found["limit"]) # NoValue => confirmed'
    BY <1>1, <2>2, <2>3 DEF Remembered, StrategyInv, CapacityHasASource
  <2>5. BatteryResource(found).max # NoValue => confirmed'
    BY <2>4 DEF BatteryResource, Reported
  <2> QED
    BY <2>1, <2>2, <2>4, <2>5 DEF CapacityHasASource
<1>9. StateIsEarned' /\ CountIsSeen'
  BY <1>1, <1>2 DEF StrategyInv, StateIsEarned, CountIsSeen, engineVars
<1> QED
  BY <1>7, <1>8, <1>9 DEF StrategyInv

LEMMA RestartPreserves == ASSUME StrategyInv, Restart PROVE StrategyInv'
<1>1. NoResource \in Resources /\ Unevaluated \in Resources
  BY DEF NoResource, Resources, FreshnessValues, Unevaluated
<1>2. readings' = [s \in Sources |->
                     IF readings[s].status \in {"live", "old"}
                     THEN [readings[s] EXCEPT !.status = "restored"] ELSE readings[s]]
  BY DEF Restart, NewAdapter
<1>3. /\ mode' \in Modes /\ capacity' = NoCapacity /\ priority' = NoPriority
      /\ evaluated' = Unevaluated /\ policy' = "zero_injection"
      /\ saturatedRun' = 0 /\ chargeRun' = 0
      /\ verified' = NoValue /\ resource' = NoResource
      /\ powerIsNew' = TRUE /\ gridIsNew' = TRUE /\ confirmed' = FALSE /\ grid' = grid
  BY DEF Restart, NewAdapter, NewEngine
<1>4. \A s \in Sources : (readings')[s] \in Readings(s)
                          /\ (readings')[s].status \notin {"live", "old"}
  <2> SUFFICES ASSUME NEW s \in Sources
               PROVE  (readings')[s] \in Readings(s) /\ (readings')[s].status \notin {"live", "old"}
    OBVIOUS
  <2>1. readings[s] \in Readings(s)
    BY DEF StrategyInv, StrategyTypeOK, AdapterTypeOK
  <2>2. CASE readings[s].status \in {"live", "old"}
    BY <1>2, <2>1, <2>2 DEF Readings
  <2>3. CASE readings[s].status \notin {"live", "old"}
    BY <1>2, <2>1, <2>3
  <2> QED
    BY <2>2, <2>3
<1>5. readings' \in [Sources -> UNION {Readings(s) : s \in Sources}]
  BY <1>2, <1>4
<1>6. AdapterTypeOK'
  BY <1>1, <1>3, <1>4, <1>5 DEF AdapterTypeOK
<1>7. NoCapacity \in CapacityStates /\ NoPriority \in PriorityStates
  BY DEF CapacityStates, PriorityStates, NoCapacity, NoPriority
<1>8. 0 \in 0..CapacitySamples /\ 0 \in 0..ConfirmationSamples
  BY StrategyAssumption DEF CapacitySamples
<1>9. StrategyTypeOK'
  BY <1>1, <1>3, <1>6, <1>7, <1>8 DEF StrategyInv, StrategyTypeOK
<1>10. CapacityHasASource'
  BY <1>3, <1>4 DEF CapacityHasASource, NoResource, Sources
<1>11. StateIsEarned' /\ CountIsSeen'
  BY <1>3 DEF StateIsEarned, CountIsSeen, NoCapacity, NoPriority, CapacitySamples
<1> QED
  BY <1>9, <1>10, <1>11 DEF StrategyInv

LEMMA StepPreserves ==
  StrategyInv /\ [Next]_strategyVars
    => /\ StrategyInv'
       /\ ~priority.active /\ priority'.active => chargeRun' >= ConfirmationSamples
<1> SUFFICES ASSUME StrategyInv, [Next]_strategyVars
             PROVE  /\ StrategyInv'
                    /\ ~priority.active /\ priority'.active => chargeRun' >= ConfirmationSamples
  OBVIOUS
<1>1. CASE Refresh
  <2>1. priority' = priority
    BY <1>1 DEF Refresh, engineVars
  <2> QED
    BY <1>1, <2>1, RefreshPreserves
<1>2. CASE PublishGrid
  <2>1. /\ UNCHANGED <<adapterVars, engineVars, powerIsNew, confirmed>>
        /\ grid' \in Grids /\ gridIsNew' = TRUE
    BY <1>2 DEF PublishGrid
  <2>2. AdapterTypeOK'
    BY <2>1 DEF StrategyInv, StrategyTypeOK, AdapterTypeOK, adapterVars
  <2> QED
    BY <2>1, <2>2 DEF StrategyInv, StrategyTypeOK, CapacityHasASource, StateIsEarned,
                      CountIsSeen, adapterVars, engineVars
<1>3. CASE Evaluate
  <2>1. CASE EvaluateCapacity
    <3>1. priority' = priority
      BY <2>1 DEF EvaluateCapacity
    <3> QED
      BY <1>3, <2>1, <3>1, EvaluateCapacityPreserves
  <2>2. CASE EvaluatePriority
    BY <1>3, <2>2, EvaluatePriorityPreserves
  <2> QED
    BY <1>3, <2>1, <2>2 DEF Evaluate
<1>4. CASE Restart
  <2>1. priority' = NoPriority
    BY <1>4 DEF Restart, NewEngine
  <2> QED
    BY <1>4, <2>1, RestartPreserves DEF NoPriority
<1>5. CASE UNCHANGED strategyVars
  <2>1. AdapterTypeOK'
    BY <1>5 DEF StrategyInv, StrategyTypeOK, AdapterTypeOK, strategyVars, adapterVars
  <2> QED
    BY <1>5, <2>1 DEF StrategyInv, StrategyTypeOK, CapacityHasASource, StateIsEarned,
                      CountIsSeen, strategyVars, adapterVars, engineVars
<1> QED
  BY <1>1, <1>2, <1>3, <1>4, <1>5 DEF Next

LEMMA StrategyInvariant == Spec => []StrategyInv
<1>1. StrategyInv /\ [Next]_strategyVars => StrategyInv'
  BY StepPreserves
<1> QED
  BY <1>1, InitEstablishes, PTL DEF Spec

-----------------------------------------------------------------------------
\* Every counter, reading and resource keeps its type; in particular a power in one
\* direction is never negative (zendure_solarflow.py, read_resource).
THEOREM StrategyTypes == Spec => []StrategyTypeOK
<1>1. StrategyInv => StrategyTypeOK
  BY DEF StrategyInv
<1> QED
  BY <1>1, StrategyInvariant, PTL

\* Three saturated publications in a row end the release, whatever evaluations,
\* grid readings and lost sources come between them.
THEOREM SaturationEnds == Spec => []SaturationEndsRelease
<1>1. StrategyInv => SaturationEndsRelease
  <2> SUFFICES ASSUME StrategyInv, saturatedRun = CapacitySamples, policy \in {"release", "probe"}
               PROVE  FALSE
    BY DEF SaturationEndsRelease
  <2>1. capacity.state # "zero_injection"
    BY DEF StrategyInv, StateIsEarned
  <2>2. capacity.saturation < CapacitySamples /\ CapacitySamples <= capacity.saturation
    BY <2>1 DEF StrategyInv, StateIsEarned
  <2>3. capacity.saturation \in Nat
    BY DEF StrategyInv, StrategyTypeOK, CapacityStates
  <2> QED
    BY <2>2, <2>3 DEF CapacitySamples
<1> QED
  BY <1>1, StrategyInvariant, PTL

\* The DTU is released or probed only for a capacity published in this lifetime.
THEOREM CapacityIsConfirmed == Spec => []CapacityIsConfirmedSinceStart
<1>1. StrategyInv => CapacityIsConfirmedSinceStart
  BY DEF StrategyInv, StateIsEarned, CapacityIsConfirmedSinceStart
<1> QED
  BY <1>1, StrategyInvariant, PTL

\* The battery priority starts only after the configured number of distinct charging
\* snapshots in a row, for any threshold and any number.
THEOREM PriorityNeedsConfirmation == Spec => PriorityIsConfirmed
<1>1. StrategyInv /\ [Next]_strategyVars
        => [~priority.active /\ priority'.active => chargeRun' >= ConfirmationSamples]_strategyVars
  BY StepPreserves
<1> QED
  BY <1>1, StrategyInvariant, PTL DEF Spec, PriorityIsConfirmed

-----------------------------------------------------------------------------
(***************************************************************************)
(* A decision stands until something new is seen.                          *)
(***************************************************************************)
\* What an evaluation of the hysteresis leaves: counters short of what decides, no
\* release of a battery that is not fit, and a release of one with room.
LEMMA HysteresisDecides ==
  ASSUME NEW c \in CapacityStates, NEW r \in Resources,
         NEW newPower \in BOOLEAN, NEW newGrid \in BOOLEAN, NEW g \in Int,
         c.charging < CapacitySamples,
         c.state = "release" => c.probe < CapacitySamples,
         NEW d, d = AfterHysteresis(c, r, newPower, newGrid, g)
  PROVE  /\ d.charging < CapacitySamples
         /\ d.state = "release" => d.probe < CapacitySamples
         /\ ~Fit(r) => d.state = "zero_injection"
         /\ Fit(r) /\ ~Saturated(r) /\ ~InBand(r) => d.state # "zero_injection"
<1> DEFINE u == [c EXCEPT !.saturation = 0]
<1> USE DEF NoCapacity, CapacitySamples, CapacityStates
<1>1. Counts(newPower) \in {0, 1} /\ Counts(newGrid) \in {0, 1}
  BY DEF Counts
<1>2. u \in CapacityStates /\ u.state = c.state /\ u.charging = c.charging /\ u.probe = c.probe
  OBVIOUS
<1>3. CASE ~Fit(r)
  BY <1>3 DEF AfterHysteresis
<1>4. CASE Fit(r) /\ Saturated(r)
  <2>1. d = AfterSaturated(c, newPower)
    BY <1>4 DEF AfterHysteresis
  <2>2. InBand(r)
    <3>0. r.charge \in Nat \cup {NoValue} /\ r.max \in Capacities \cup {NoValue}
      BY DEF Resources
    <3>1. NoValue \in Int /\ Capacities \subseteq Int
      BY AdapterAssumption DEF NoValue
    <3>2. r.charge \in Int
      BY <3>0, <3>1
    <3>3. r.max \in Int
      BY <3>0, <3>1
    <3> QED
      BY <1>4, <3>2, <3>3 DEF Saturated, InBand, SaturationTolerance
  <2>3. /\ d.charging < CapacitySamples
        /\ d.state = "release" => d.probe < CapacitySamples
    BY <1>1, <2>1 DEF AfterSaturated
  <2> QED
    BY <1>4, <2>2, <2>3
<1>5. CASE Fit(r) /\ ~Saturated(r) /\ c.state = "zero_injection" /\ InBand(r)
  <2>1. d = u
    BY <1>5 DEF AfterHysteresis
  <2> QED
    BY <1>2, <1>5, <2>1
<1>6. CASE Fit(r) /\ ~Saturated(r) /\ c.state = "probe"
  <2>1. d = AfterProbing(u, r, newPower)
    BY <1>6 DEF AfterHysteresis
  <2>2. \/ d = [u EXCEPT !.charging = 0]
        \/ d = [NoCapacity EXCEPT !.state = "release"]
        \/ /\ d = [u EXCEPT !.charging = u.charging + Counts(newPower)]
           /\ ~(u.charging + Counts(newPower) >= CapacitySamples)
    BY <2>1 DEF AfterProbing
  <2> HIDE DEF u
  <2> QED
    BY <1>1, <1>2, <1>6, <2>2
<1>7. CASE /\ Fit(r) /\ ~Saturated(r) /\ c.state # "probe"
           /\ ~(c.state = "zero_injection" /\ InBand(r))
  <2>1. d = AfterReleasing(u, r, newGrid, g)
    BY <1>7 DEF AfterHysteresis
  <2>2. \/ d = [NoCapacity EXCEPT !.state = "release"]
        \/ d = [NoCapacity EXCEPT !.state = "probe", !.probe = u.probe + Counts(newGrid)]
        \/ /\ d = [NoCapacity EXCEPT !.state = "release", !.probe = u.probe + Counts(newGrid)]
           /\ ~(u.probe + Counts(newGrid) >= CapacitySamples)
    BY <2>1 DEF AfterReleasing
  <2> HIDE DEF u
  <2>3. u.probe + Counts(newGrid) \in Nat
    BY <1>1, <1>2
  <2>4. CASE d = [NoCapacity EXCEPT !.state = "release"]
    BY <1>7, <2>4
  <2>5. CASE d = [NoCapacity EXCEPT !.state = "probe", !.probe = u.probe + Counts(newGrid)]
    <3>1. d.state = "probe" /\ d.charging = 0
      BY <2>5
    <3> QED
      BY <1>7, <3>1
  <2>6. CASE /\ d = [NoCapacity EXCEPT !.state = "release", !.probe = u.probe + Counts(newGrid)]
             /\ ~(u.probe + Counts(newGrid) >= CapacitySamples)
    <3>1. d.state = "release" /\ d.charging = 0 /\ d.probe = u.probe + Counts(newGrid)
      BY <2>6
    <3> QED
      BY <1>7, <2>3, <2>6, <3>1
  <2> QED
    BY <2>2, <2>4, <2>5, <2>6
<1> QED
  BY <1>3, <1>4, <1>5, <1>6, <1>7

\* A second evaluation of what decided, with nothing new, leaves the state.
LEMMA HysteresisStands ==
  ASSUME NEW c \in CapacityStates, NEW r \in Resources, NEW g \in Int,
         c.charging < CapacitySamples,
         c.state = "release" => c.probe < CapacitySamples,
         c.state # "zero_injection" => c.saturation < CapacitySamples,
         ~Fit(r) => c.state = "zero_injection",
         Fit(r) /\ ~Saturated(r) /\ ~InBand(r) => c.state # "zero_injection"
  PROVE  AfterHysteresis(c, r, FALSE, FALSE, g).state = c.state
<1> DEFINE u == [c EXCEPT !.saturation = 0]
<1> USE DEF NoCapacity, CapacitySamples, CapacityStates
<1>1. Counts(FALSE) = 0
  BY DEF Counts
<1>2. u \in CapacityStates /\ u.state = c.state /\ u.charging = c.charging /\ u.probe = c.probe
  OBVIOUS
<1>3. CASE ~Fit(r)
  BY <1>3 DEF AfterHysteresis
<1>4. CASE Fit(r) /\ Saturated(r)
  <2>1. AfterHysteresis(c, r, FALSE, FALSE, g) = AfterSaturated(c, FALSE)
    BY <1>4 DEF AfterHysteresis
  <2>2. AfterSaturated(c, FALSE).state = c.state
    <3>0. c.saturation \in Nat
      OBVIOUS
    <3>1. c.saturation + Counts(FALSE) = c.saturation
      BY <3>0 DEF Counts
    <3>2. CASE c.state = "zero_injection"
      BY <3>2 DEF AfterSaturated
    <3>3. CASE c.state # "zero_injection"
      <4>0. ~(c.saturation + Counts(FALSE) >= CapacitySamples)
        BY <3>0, <3>3 DEF Counts
      <4>1. AfterSaturated(c, FALSE) = [c EXCEPT !.saturation = c.saturation + Counts(FALSE)]
        BY <4>0 DEF AfterSaturated
      <4> QED
        BY <4>1
    <3> QED
      BY <3>2, <3>3
  <2> QED
    BY <2>1, <2>2
<1>5. CASE Fit(r) /\ ~Saturated(r) /\ c.state = "zero_injection"
  <2>1. AfterHysteresis(c, r, FALSE, FALSE, g) = u
    BY <1>5 DEF AfterHysteresis
  <2> QED
    BY <1>2, <2>1
<1>6. CASE Fit(r) /\ ~Saturated(r) /\ c.state = "probe"
  <2>1. AfterHysteresis(c, r, FALSE, FALSE, g) = AfterProbing(u, r, FALSE)
    BY <1>6 DEF AfterHysteresis
  <2>2. \/ AfterProbing(u, r, FALSE) = [u EXCEPT !.charging = 0]
        \/ AfterProbing(u, r, FALSE) = [u EXCEPT !.charging = u.charging + 0]
    <3>1. ~(u.charging + 0 >= CapacitySamples)
      BY <1>2
    <3> HIDE DEF u
    <3> QED
      BY <1>1, <3>1 DEF AfterProbing
  <2> HIDE DEF u
  <2> QED
    BY <1>2, <2>1, <2>2
<1>7. CASE Fit(r) /\ ~Saturated(r) /\ c.state = "release"
  <2>1. AfterHysteresis(c, r, FALSE, FALSE, g) = AfterReleasing(u, r, FALSE, g)
    BY <1>7 DEF AfterHysteresis
  <2>2. \/ AfterReleasing(u, r, FALSE, g) = [NoCapacity EXCEPT !.state = "release"]
        \/ AfterReleasing(u, r, FALSE, g)
             = [NoCapacity EXCEPT !.state = "release", !.probe = u.probe + 0]
    <3>1. ~(u.probe + 0 >= CapacitySamples)
      BY <1>2, <1>7
    <3> HIDE DEF u
    <3> QED
      BY <1>1, <3>1 DEF AfterReleasing
  <2> HIDE DEF u
  <2> QED
    BY <1>7, <2>1, <2>2
<1> QED
  BY <1>3, <1>4, <1>5, <1>6, <1>7

\* A priority that starts counting again is a priority.
LEMMA ResetType ==
  ASSUME NEW p \in PriorityStates
  PROVE  [p EXCEPT !.charging = 0, !.low = 0] \in PriorityStates
BY DEF PriorityStates

\* What an evaluation of the priority leaves, and that a second one with nothing new
\* leaves it.
LEMMA PriorityDecides ==
  ASSUME NEW p \in PriorityStates, NEW r \in Resources, NEW new \in BOOLEAN,
         ~p.active => p.low = 0,
         NEW q, q = AfterConfirmation(p, r, new),
         NEW n, n = AfterComparison(q, r)
  PROVE  /\ ~n.active => n.low = 0
         /\ n.active <=> Prioritised(q, r)
         /\ n.active => Prioritised(n, r)
         /\ ~n.active => ~Prioritised(n, r)
         /\ /\ ~new
            /\ p.active => Prioritised(p, r)
            /\ ~p.active => ~Prioritised(p, r)
            => n.active = p.active
<1>1. /\ Counts(new) \in {0, 1} /\ (~new => Counts(new) = 0)
      /\ ConfirmationSamples \in Nat \ {0} /\ ChargeThreshold \in Nat
  BY StrategyAssumption DEF Counts
<1>2. Observed(r, Target) => Observed(r, -1)
  BY DEF Observed
<1>3. \/ /\ ~Observed(r, -1) \/ r.discharge > ChargeThreshold
         /\ q = [p EXCEPT !.charging = 0, !.low = 0]
      \/ /\ Observed(r, -1) /\ r.discharge <= ChargeThreshold /\ p.active
         /\ q = [p EXCEPT !.low = IF r.charge < MaintainChargeThreshold
                                  THEN p.low + Counts(new) ELSE 0]
      \/ /\ ~p.active /\ r.charge > ChargeThreshold
         /\ q = [p EXCEPT !.charging = p.charging + Counts(new)]
      \/ /\ ~p.active /\ ~(r.charge > ChargeThreshold)
         /\ q = [p EXCEPT !.charging = 0, !.low = 0]
  <2>1. CASE ~Observed(r, -1) \/ r.discharge > ChargeThreshold
    BY <2>1 DEF AfterConfirmation
  <2>2. CASE Observed(r, -1) /\ ~(r.discharge > ChargeThreshold)
    <3>1. r.discharge <= ChargeThreshold
      BY <1>1, <2>2 DEF Resources, NoValue
    <3>2. CASE p.active
      BY <2>2, <3>1, <3>2 DEF AfterConfirmation
    <3>3. CASE ~p.active
      BY <2>2, <3>1, <3>3 DEF AfterConfirmation
    <3> QED
      BY <3>2, <3>3
  <2> QED
    BY <2>1, <2>2
<1>4. /\ q \in PriorityStates /\ q.active = p.active
      /\ ~q.active => q.low = 0
      /\ ~new /\ r.charge > ChargeThreshold /\ ~p.active => q.charging <= p.charging
      /\ ~new /\ Observed(r, -1) /\ r.discharge <= ChargeThreshold => q.low <= p.low
  <2>1. p.low + Counts(new) \in Nat /\ p.charging + Counts(new) \in Nat
    BY <1>1 DEF PriorityStates
  <2>2. CASE q = [p EXCEPT !.charging = 0, !.low = 0]
    <3>1. p.charging \in Nat /\ p.low \in Nat
      BY DEF PriorityStates
    <3>2. q \in PriorityStates
      BY <2>2, ResetType
    <3>3. q.active = p.active /\ q.charging = 0 /\ q.low = 0
      BY <2>2 DEF PriorityStates
    <3> QED
      BY <3>1, <3>2, <3>3
  <2>3. CASE p.active /\ q = [p EXCEPT !.low = IF r.charge < MaintainChargeThreshold
                                               THEN p.low + Counts(new) ELSE 0]
    <3> DEFINE low == IF r.charge < MaintainChargeThreshold THEN p.low + Counts(new) ELSE 0
    <3>1. low \in Nat /\ p.low \in Nat /\ (~new => low <= p.low)
      BY <1>1, <2>1 DEF PriorityStates
    <3>2. q = [p EXCEPT !.low = low]
      BY <2>3
    <3> HIDE DEF low
    <3>3. q \in PriorityStates /\ q.active = p.active /\ q.low = low
      BY <3>1, <3>2 DEF PriorityStates
    <3> QED
      BY <2>3, <3>1, <3>3
  <2>4. CASE ~p.active /\ q = [p EXCEPT !.charging = p.charging + Counts(new)]
    BY <1>1, <2>1, <2>4 DEF PriorityStates
  <2> QED
    BY <1>3, <2>2, <2>3, <2>4
<1>5. /\ Prioritised(q, r) => n = [q EXCEPT !.active = TRUE]
      /\ ~Prioritised(q, r) /\ q.active => n = NoPriority
      /\ ~Prioritised(q, r) /\ ~q.active => n = q
  BY DEF AfterComparison
<1>6. n.active <=> Prioritised(q, r)
  BY <1>4, <1>5 DEF NoPriority, PriorityStates
<1>7. ~n.active => n.low = 0 /\ ~Prioritised(n, r)
  <2> SUFFICES ASSUME ~n.active PROVE n.low = 0 /\ ~Prioritised(n, r)
    OBVIOUS
  <2>1. CASE n = q
    BY <1>4, <1>6, <2>1
  <2>2. CASE n = NoPriority
    BY <1>1, <2>2 DEF NoPriority, Prioritised
  <2> QED
    BY <1>5, <1>6, <2>1, <2>2
<1>8. n.active => Prioritised(n, r)
  <2> SUFFICES ASSUME n.active PROVE Prioritised(n, r)
    OBVIOUS
  <2>1. Prioritised(q, r) /\ n.low = q.low /\ n.active = TRUE
    BY <1>4, <1>5, <1>6 DEF PriorityStates
  <2>2. q.low < ConfirmationSamples
    BY <1>1, <1>4, <2>1 DEF Prioritised
  <2> QED
    BY <2>1, <2>2 DEF Prioritised
<1>9. ASSUME ~new, p.active => Prioritised(p, r), ~p.active => ~Prioritised(p, r)
      PROVE  n.active = p.active
  <2>1. ASSUME p.active PROVE Prioritised(q, r)
    <3>1. Observed(r, Target) /\ r.discharge <= ChargeThreshold /\ p.low < ConfirmationSamples
      BY <1>9, <2>1 DEF Prioritised
    <3>2. q.low <= p.low /\ q.active
      BY <1>2, <1>4, <1>9, <2>1, <3>1
    <3>3. q.low \in Nat /\ p.low \in Nat
      BY <1>4 DEF PriorityStates
    <3>4. q.low < ConfirmationSamples
      BY <1>1, <3>1, <3>2, <3>3
    <3> QED
      BY <3>1, <3>2, <3>4 DEF Prioritised
  <2>2. ASSUME ~p.active, Prioritised(q, r) PROVE FALSE
    <3>1. /\ Observed(r, Target) /\ r.discharge <= ChargeThreshold
          /\ r.charge > ChargeThreshold /\ q.charging >= ConfirmationSamples
      BY <1>4, <2>2 DEF Prioritised
    <3>2. q.charging <= p.charging
      BY <1>4, <1>9, <2>2, <3>1
    <3>3. q.charging \in Nat /\ p.charging \in Nat
      BY <1>4 DEF PriorityStates
    <3>4. p.charging >= ConfirmationSamples
      BY <1>1, <3>1, <3>2, <3>3
    <3>5. Prioritised(p, r)
      BY <2>2, <3>1, <3>4 DEF Prioritised
    <3> QED
      BY <1>9, <2>2, <3>5
  <2>3. n.active \in BOOLEAN /\ p.active \in BOOLEAN
    <3>1. [q EXCEPT !.active = TRUE] \in PriorityStates /\ NoPriority \in PriorityStates
      BY <1>4 DEF PriorityStates, NoPriority
    <3>2. n \in PriorityStates
      BY <1>4, <1>5, <3>1
    <3> QED
      BY <3>2 DEF PriorityStates
  <2> QED
    BY <1>6, <2>1, <2>2, <2>3
<1> QED
  BY <1>6, <1>7, <1>8, <1>9

\* One evaluation leaves a decision that stands, and repeats one that stood if it
\* sees nothing new.
LEMMA EvaluateDecides ==
  ASSUME StrategyInv, DecisionStands, Evaluate
  PROVE  /\ DecisionStands'
         /\ /\ evaluated = resource /\ ~powerIsNew
            /\ (mode = "capacity_release" => ~gridIsNew)
            => UNCHANGED <<policy, capacity.state, priority.active>>
<1>1. /\ evaluated' = resource /\ resource' = resource /\ mode' = mode
      /\ resource # Unevaluated /\ resource \in Resources
      /\ capacity \in CapacityStates /\ priority \in PriorityStates
      /\ powerIsNew \in BOOLEAN /\ gridIsNew \in BOOLEAN /\ grid \in Int
  BY StrategyAssumption DEF StrategyInv, StrategyTypeOK, AdapterTypeOK, DecisionStands,
                            CountsArePending, Evaluate, adapterVars
<1>2. /\ capacity.charging < CapacitySamples
      /\ capacity.state = "release" => capacity.probe < CapacitySamples
      /\ capacity.state # "zero_injection" => capacity.saturation < CapacitySamples
      /\ ~priority.active => priority.low = 0
  BY DEF StrategyInv, StateIsEarned, DecisionStands, CountsArePending
<1>3. CASE EvaluateCapacity
  <2> DEFINE c == AfterHysteresis(capacity, resource, NewPower, gridIsNew, grid)
  <2>1. NewPower \in BOOLEAN
    BY <1>1 DEF NewPower
  <2>2. /\ mode = "capacity_release" /\ mode # "observed_conservative"
        /\ capacity' = AfterAnswer(c, resource) /\ policy' = CapacityPolicy(c, resource)
        /\ priority' = priority
    BY <1>3 DEF EvaluateCapacity
  <2>3. /\ c \in CapacityStates
        /\ c.charging < CapacitySamples
        /\ c.state = "release" => c.probe < CapacitySamples
        /\ ~Fit(resource) => c.state = "zero_injection"
        /\ Fit(resource) /\ ~Saturated(resource) /\ ~InBand(resource)
             => c.state # "zero_injection"
    BY <1>1, <1>2, <2>1, HysteresisDecides, HysteresisStep
  <2>4. ASSUME evaluated = resource, ~powerIsNew, ~gridIsNew
        PROVE  c.state = capacity.state /\ policy = CapacityPolicy(capacity, resource)
    <3>1. NewPower = FALSE /\ gridIsNew = FALSE
      BY <1>1, <2>4 DEF NewPower
    <3>2. ReleaseStands
      BY <1>1, <2>2, <2>4 DEF DecisionStands
    <3>3. AfterHysteresis(capacity, resource, FALSE, FALSE, grid).state = capacity.state
      BY <1>1, <1>2, <2>4, <3>2, HysteresisStands DEF ReleaseStands
    <3> QED
      BY <2>4, <3>1, <3>2, <3>3 DEF ReleaseStands
  <2> HIDE DEF c
  <2>5. capacity' = c \/ capacity' = [NoCapacity EXCEPT !.state = c.state]
    BY <2>2 DEF AfterAnswer
  <2>6. /\ capacity'.state = c.state /\ capacity'.charging < CapacitySamples
        /\ capacity'.state = "release" => capacity'.probe < CapacitySamples
    BY <2>3, <2>5 DEF NoCapacity, CapacitySamples
  <2>8. CapacityPolicy(c, resource) = CapacityPolicy(capacity', resource)
    BY <2>6 DEF CapacityPolicy
  <2>9. CountsArePending'
    BY <1>1, <1>2, <2>2, <2>6 DEF CountsArePending
  <2>10. ReleaseStands'
    BY <1>1, <2>2, <2>3, <2>6, <2>8 DEF ReleaseStands
  <2>11. DecisionStands'
    BY <1>1, <2>2, <2>9, <2>10 DEF DecisionStands
  <2>12. ASSUME evaluated = resource, ~powerIsNew, ~gridIsNew
         PROVE  UNCHANGED <<policy, capacity.state, priority.active>>
    <3>1. CapacityPolicy(c, resource) = CapacityPolicy(capacity, resource)
      BY <2>4, <2>12 DEF CapacityPolicy
    <3> QED
      BY <2>2, <2>4, <2>6, <2>12, <3>1
  <2> QED
    BY <2>2, <2>11, <2>12
<1>4. CASE EvaluatePriority
  <2> DEFINE q == AfterConfirmation(priority, resource, NewSample)
             n == AfterComparison(q, resource)
  <2>1. NewSample \in BOOLEAN
    BY <1>1 DEF NewSample
  <2>2. /\ mode = "observed_conservative" /\ mode # "capacity_release"
        /\ priority' = n /\ capacity' = capacity
        /\ policy' = IF Prioritised(q, resource) THEN "priority" ELSE "zero_injection"
    BY <1>4 DEF EvaluatePriority
  <2>3. /\ ~n.active => n.low = 0
        /\ n.active <=> Prioritised(q, resource)
        /\ n.active => Prioritised(n, resource)
        /\ ~n.active => ~Prioritised(n, resource)
        /\ /\ ~NewSample
           /\ priority.active => Prioritised(priority, resource)
           /\ ~priority.active => ~Prioritised(priority, resource)
           => n.active = priority.active
    BY <1>1, <1>2, <2>1, PriorityDecides
  <2> HIDE DEF q, n
  <2>4. CountsArePending'
    BY <1>1, <1>2, <2>2, <2>3 DEF CountsArePending
  <2>5. PriorityStands'
    BY <1>1, <2>2, <2>3 DEF PriorityStands
  <2>6. DecisionStands'
    BY <1>1, <2>2, <2>4, <2>5 DEF DecisionStands
  <2>7. ASSUME evaluated = resource, ~powerIsNew
        PROVE  UNCHANGED <<policy, capacity.state, priority.active>>
    <3>1. ~NewSample
      BY <2>7 DEF NewSample
    <3>2. PriorityStands
      BY <1>1, <2>2, <2>7 DEF DecisionStands
    <3>3. n.active = priority.active
      BY <2>3, <2>7, <3>1, <3>2 DEF PriorityStands
    <3>4. policy' = IF n.active THEN "priority" ELSE "zero_injection"
      BY <2>2, <2>3
    <3> QED
      BY <2>2, <3>2, <3>3, <3>4 DEF PriorityStands
  <2> QED
    BY <2>2, <2>6, <2>7
<1> QED
  BY <1>3, <1>4 DEF Evaluate

\* A step that leaves the engine leaves what it decided.
LEMMA OtherStepsDecide ==
  ASSUME DecisionStands, UNCHANGED engineVars, resource' # Unevaluated
  PROVE  DecisionStands' /\ UNCHANGED <<policy, capacity.state, priority.active>>
<1>1. /\ mode' = mode /\ capacity' = capacity /\ priority' = priority
      /\ evaluated' = evaluated /\ policy' = policy
  BY DEF engineVars
<1> QED
  BY <1>1 DEF DecisionStands, CountsArePending, ReleaseStands, PriorityStands

\* Every step leaves a decision that stands, and a repeated evaluation repeats it.
LEMMA StepDecides ==
  StrategyInv /\ DecisionStands /\ [Next]_strategyVars
    => /\ DecisionStands'
       /\ /\ evaluated = resource /\ evaluated' = evaluated /\ resource' = resource
          /\ ~powerIsNew
          /\ (mode = "capacity_release" => ~gridIsNew)
          => UNCHANGED <<policy, capacity.state, priority.active>>
<1> SUFFICES ASSUME StrategyInv, DecisionStands, [Next]_strategyVars
             PROVE  /\ DecisionStands'
                    /\ /\ evaluated = resource /\ evaluated' = evaluated
                       /\ resource' = resource /\ ~powerIsNew
                       /\ (mode = "capacity_release" => ~gridIsNew)
                       => UNCHANGED <<policy, capacity.state, priority.active>>
  OBVIOUS
<1>1. CASE Refresh
  <2>1. PICK found : resource' = BatteryResource(found)
    BY <1>1 DEF Refresh, ReadResource
  <2>2. BatteryResource(found).health # "none"
    BY DEF BatteryResource, Health
  <2>3. resource' # Unevaluated
    BY <2>1, <2>2 DEF Unevaluated, NoResource
  <2>4. UNCHANGED engineVars
    BY <1>1 DEF Refresh
  <2> QED
    BY <2>3, <2>4, OtherStepsDecide
<1>2. CASE PublishGrid
  <2>1. UNCHANGED engineVars /\ resource' # Unevaluated
    BY <1>2 DEF PublishGrid, DecisionStands, CountsArePending, adapterVars
  <2> QED
    BY <2>1, OtherStepsDecide
<1>3. CASE Evaluate
  BY <1>3, EvaluateDecides
<1>4. CASE Restart
  <2>1. /\ capacity' = NoCapacity /\ priority' = NoPriority /\ evaluated' = Unevaluated
        /\ resource' = NoResource
    BY <1>4 DEF Restart, NewEngine, NewAdapter
  <2>2. NoResource # Unevaluated
    BY DEF NoResource, Unevaluated
  <2>3. DecisionStands'
    BY <2>1, <2>2 DEF DecisionStands, CountsArePending, NoCapacity, NoPriority, CapacitySamples
  <2>4. ~(evaluated = resource /\ evaluated' = evaluated)
    BY <2>1 DEF DecisionStands, CountsArePending
  <2> QED
    BY <2>3, <2>4
<1>5. CASE UNCHANGED strategyVars
  <2>1. UNCHANGED engineVars /\ resource' # Unevaluated
    BY <1>5 DEF strategyVars, DecisionStands, CountsArePending, adapterVars
  <2> QED
    BY <2>1, OtherStepsDecide
<1> QED
  BY <1>1, <1>2, <1>3, <1>4, <1>5 DEF Next

\* Evaluating again what was evaluated changes no decision, for any thresholds, any
\* number of samples and any battery (energy_strategy.py, the sample signatures).
THEOREM EvaluationIsIdempotent == Spec => RepeatedEvaluationChangesNothing
<1>1. Init => DecisionStands
  <2>1. NoResource # Unevaluated
    BY DEF NoResource, Unevaluated
  <2> QED
    BY <2>1 DEF Init, AdapterInit, DecisionStands, CountsArePending, NoCapacity, NoPriority,
                CapacitySamples
<1>2. StrategyInv /\ DecisionStands /\ [Next]_strategyVars => DecisionStands'
  BY StepDecides
<1>3. StrategyInv /\ DecisionStands /\ [Next]_strategyVars
        => [/\ evaluated = resource /\ evaluated' = evaluated /\ resource' = resource
            /\ ~powerIsNew
            /\ (mode = "capacity_release" => ~gridIsNew)
            => UNCHANGED <<policy, capacity.state, priority.active>>]_strategyVars
  BY StepDecides
<1> QED
  BY <1>1, <1>2, <1>3, StrategyInvariant, PTL DEF Spec, RepeatedEvaluationChangesNothing
=============================================================================
