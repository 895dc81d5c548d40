--------------------------- MODULE BatteryAdapter ---------------------------
(***************************************************************************)
(* battery_adapters/zendure_solarflow.py: one battery resource built from  *)
(* three Home Assistant entities (directional power, state of charge,      *)
(* charge limit).  A reading abstracts the timestamps to what the code     *)
(* tells apart:                                                            *)
(*   restored  last updated before this adapter was created                *)
(*   live      published since, and within the maximum age of the source   *)
(*   old       published since, and older than that                        *)
(*   missing   no entity, unknown, unavailable or not a number             *)
(*   bad       not finite, in another unit, or out of range                *)
(* A battery publishes when it likes and falls silent when it likes.       *)
(***************************************************************************)
EXTENDS Integers

CONSTANTS
    Watts,         \* the signed values the directional power may take
    Capacities,    \* the positive values of the charge limit, in W
    Charges,       \* the values of the state of charge, in percent
    PowerSign,     \* the configured convention: which sign means charging
    LimitVerified, \* the user has confirmed what the charge limit means
    Failures       \* the ways a source may be lost: "missing", "bad"

ASSUME AdapterAssumption ==
    /\ Watts \subseteq Int
    /\ Capacities \subseteq Nat \ {0}
    /\ Charges \subseteq 0..100
    /\ PowerSign \in {"unknown", "positive_charging", "positive_discharging"}
    /\ LimitVerified \in BOOLEAN
    /\ Failures \subseteq {"missing", "bad"}

VARIABLES
    readings,      \* what the last read found of each source
    verified,      \* _verified_charge_limit_w, NoValue when it is None
    resource       \* the BatteryResource in the energy manager, or NoResource

adapterVars == <<readings, verified, resource>>

NoValue == -1
Sources == {"power", "soc", "limit"}
Values(s) == CASE s = "power" -> Watts [] s = "soc" -> Charges [] OTHER -> Capacities

\* A source that cannot be read has no value.
Readings(s) == [status : {"restored", "live", "old"}, value : Values(s)]
               \cup [status : {"missing", "bad"}, value : {NoValue}]

Freshness(reading) ==
    CASE reading.status = "missing"  -> "unavailable"
      [] reading.status = "bad"      -> "invalid"
      [] reading.status = "restored" -> "not_refreshed"
      [] reading.status = "old"      -> "stale"
      [] OTHER                       -> "fresh"

FreshnessValues == {"unavailable", "invalid", "not_refreshed", "stale", "fresh", "cached"}

\* The capacity the adapter remembers after reading the limit: an unverified or
\* unreadable limit revokes it, silence does not, a value from before the start is not
\* remembered.
Remembered(limit) ==
    CASE ~LimitVerified \/ limit.status \in {"missing", "bad"} -> NoValue
      [] LimitVerified /\ limit.status = "restored"           -> verified
      [] OTHER                                                -> limit.value

\* Mutant of Reported: a restored value counts.
RestoredReported(limit) == IF limit.status \in {"missing", "bad"} THEN NoValue ELSE limit.value

\* The capacity the adapter reports: never one that is only restored.
Reported(limit) == IF limit.status = "restored" THEN NoValue ELSE Remembered(limit)

Health(power) ==
    CASE power.status = "missing"            -> "unavailable"
      [] power.status \in {"restored", "old"} -> "stale"
      [] power.status = "bad"                -> "inconsistent"
      [] OTHER                               -> "healthy"

Positive(w) == IF w > 0 THEN w ELSE 0

\* Mutant of Directed: the other direction is a negative power.
UnclampedDirected(power, sign) ==
    IF power.status \in {"missing", "bad"} \/ PowerSign = "unknown" THEN NoValue
    ELSE IF PowerSign = sign THEN power.value ELSE -power.value

\* The power in one of the two directions.
Directed(power, sign) ==
    IF power.status \in {"missing", "bad"} \/ PowerSign = "unknown" THEN NoValue
    ELSE Positive(IF PowerSign = sign THEN power.value ELSE -power.value)

BatteryResource(r) ==
    [health    |-> Health(r["power"]),
     soc       |-> r["soc"].value,
     charge    |-> Directed(r["power"], "positive_charging"),
     discharge |-> Directed(r["power"], "positive_discharging"),
     max       |-> Reported(r["limit"]),
     socFreshness |-> Freshness(r["soc"]),
     maxFreshness |-> IF Reported(r["limit"]) # NoValue /\ r["limit"].status # "live"
                      THEN "cached" ELSE Freshness(r["limit"])]

NoResource == [health |-> "none", soc |-> NoValue, charge |-> NoValue, discharge |-> NoValue,
               max |-> NoValue, socFreshness |-> "unavailable", maxFreshness |-> "unavailable"]

Resources == [health : {"none", "unavailable", "stale", "inconsistent", "healthy"},
              soc : Charges \cup {NoValue}, charge : Nat \cup {NoValue},
              discharge : Nat \cup {NoValue}, max : Capacities \cup {NoValue},
              socFreshness : FreshnessValues, maxFreshness : FreshnessValues]

AdapterTypeOK ==
    /\ readings \in [Sources -> UNION {Readings(s) : s \in Sources}]
    /\ \A s \in Sources : readings[s] \in Readings(s)
    /\ verified \in Capacities \cup {NoValue}
    /\ resource \in Resources

AdapterInit ==
    /\ readings \in [Sources -> {[status |-> "missing", value |-> NoValue]}]
    /\ verified = NoValue
    /\ resource = NoResource

\* What may have become of a source since it was last read.
Published(s) == {[status |-> "live", value |-> v] : v \in Values(s)}
Silent(s) ==
    {readings[s]} \cup (IF readings[s].status = "live"
                        THEN {[readings[s] EXCEPT !.status = "old"]} ELSE {})
Lost == {[status |-> st, value |-> NoValue] : st \in Failures}

\* read_resource, called by the refresh cycle, which hands the result to the
\* energy manager.
ReadResource(found) ==
    /\ readings' = found
    /\ verified' = Remembered(found["limit"])
    /\ resource' = BatteryResource(found)

\* A restart or a reload creates a new adapter: whatever the entities hold is
\* from before its start.
NewAdapter ==
    /\ readings' = [s \in Sources |->
                       IF readings[s].status \in {"live", "old"}
                       THEN [readings[s] EXCEPT !.status = "restored"] ELSE readings[s]]
    /\ verified' = NoValue
    /\ resource' = NoResource
=============================================================================
