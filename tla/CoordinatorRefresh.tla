------------------------- MODULE CoordinatorRefresh -------------------------
(***************************************************************************)
(* The periodic refresh of the coordinator (coordinator.py): register      *)
(* groups read one after the other at their own intervals, the health of   *)
(* every register, the cycle that gives up after a transport failure, and  *)
(* what is published to Home Assistant.  Reads succeed, are refused by the *)
(* DTU or lose the transport as they like; a confirmed command and another *)
(* request for a refresh may come between any two reads.                   *)
(*                                                                         *)
(* Time is counted in cycle starts (SCAN_INTERVAL); a command falls        *)
(* between two of them.  Register values do not matter here, only whether  *)
(* there is one.                                                           *)
(***************************************************************************)
EXTENDS Integers, Sequences

CONSTANTS
    Members,          \* the registers of each group, in the order they are read
    Period,           \* cycle starts between two reads of each group
    Suppression,      \* cycle starts a failing permanent register is left alone
    FailuresAllowed   \* GLOBAL_TRANSPORT_FAILURES_UNAVAILABLE

Groups == <<"general", "power", "energy", "temporary", "permanent">>
GroupNames == {Groups[i] : i \in DOMAIN Groups}
RegistersOf(g) == {Members[g][i] : i \in DOMAIN Members[g]}
Registers == UNION {RegistersOf(g) : g \in GroupNames}
Temporary == RegistersOf("temporary")
Permanent == RegistersOf("permanent")

ASSUME RefreshAssumption ==
    /\ Period \in [GroupNames -> Nat \ {0}]
    /\ \A g \in GroupNames : Members[g] \in Seq(RegistersOf(g))
    /\ Suppression \in Nat \ {0}
    /\ FailuresAllowed \in Nat \ {0}
    /\ \A g, h \in GroupNames : g # h => RegistersOf(g) \cap RegistersOf(h) = {}

VARIABLES
    health,           \* per register: is there a value, is it current, failures in a row
    since,            \* per group: cycle starts since its last read
    suppressed,       \* per permanent register: cycle starts it is still left alone
    group,            \* the group the cycle is at, 0 outside a cycle
    due,              \* that group was due when the cycle came to it
    todo,             \* the registers of that group still to be read
    transportFailed,  \* _transport_failed_this_cycle
    succeeded,        \* _cycle_successes > 0
    failures,         \* _consecutive_transport_failures
    data,             \* there are DtuMeasurements
    published,        \* last_update_success of the Home Assistant coordinator
    \* History, for the properties only.
    age,              \* per temporary register: cycle starts since its last good read
    clean,            \* whole cycles since a read failed or a command was confirmed
    fruitless,        \* complete cycles in a row without a good read
    cut,              \* as fruitless, of those that lost the transport
    reused            \* the last publication was old data or a command's

historyVars == <<age, clean, fruitless, cut, reused>>
vars == <<health, since, suppressed, group, due, todo, transportFailed, succeeded, failures, data,
          published, historyVars>>

Unread == [known |-> FALSE, available |-> FALSE, failures |-> 0]
Health == [known : BOOLEAN, available : BOOLEAN, failures : 0..2]
UpTo(bound, n) == IF n > bound THEN bound ELSE n
Horizon == Period["temporary"] + 2          \* the history counts no further

Init ==
    /\ health = [r \in Registers |-> Unread]
    /\ since = Period
    /\ suppressed = [r \in Permanent |-> 0]
    /\ group = 0 /\ due = FALSE /\ todo = <<>>
    /\ transportFailed = FALSE /\ succeeded = FALSE /\ failures = 0
    /\ data = FALSE /\ published = "none"
    /\ age = [r \in Temporary |-> Horizon]
    /\ clean = 0 /\ fruitless = 0 /\ cut = 0 /\ reused = FALSE

\* Mutant of Success: a register that was called stale stays so.
StaleSuccess(h) == [h EXCEPT !.known = TRUE, !.failures = 0]

\* The failures in a row only matter up to two, when a register is suppressed.
Success(h) == [known |-> TRUE, available |-> TRUE, failures |-> 0]
Failure(h) == [h EXCEPT !.available = FALSE, !.failures = UpTo(2, h.failures + 1)]

\* Mutant of Skipped: a register that was not read keeps its health.
Untouched(h) == h

\* _mark_stale_after_global_failure
Skipped(h) == Failure(h)

\* A permanent limit the DTU does not know has no value.
Unsupported(h) == [Failure(h) EXCEPT !.known = FALSE]

(***************************************************************************)
(* One cycle.                                                              *)
(***************************************************************************)
\* Mutant of Admitted: two failures in a row are for good.
AdmittedOnce(r) == r \in Permanent => suppressed[r] = 0 /\ health[r].failures < 2

\* No permanent register that is suppressed is read.
Admitted(r) == r \in Permanent => suppressed[r] = 0

\* Mutant of ComeTo: the temporary registers stand in for the permanent ones.
ComeToTemporary(n, elapsed) ==
    /\ group' = n
    /\ due' = (elapsed[Groups[n]] >= Period[Groups[n]])
    /\ todo' = IF due' THEN Members[Groups[IF n = 5 THEN 4 ELSE n]] ELSE <<>>

\* The cycle comes to a group, and reads it if it is due.
ComeTo(n, elapsed) ==
    /\ group' = n
    /\ due' = (elapsed[Groups[n]] >= Period[Groups[n]])
    /\ todo' = IF due' THEN Members[Groups[n]] ELSE <<>>

\* _async_update_data takes the lock, a SCAN_INTERVAL after the last start.
StartCycle ==
    /\ group = 0
    /\ published = "failed" => data
    /\ since' = [g \in GroupNames |-> UpTo(Period[g], since[g] + 1)]
    /\ ComeTo(1, since')
    /\ suppressed' = [r \in Permanent |-> IF suppressed[r] > 0 THEN suppressed[r] - 1 ELSE 0]
    /\ transportFailed' = FALSE /\ succeeded' = FALSE
    /\ age' = [r \in Temporary |-> UpTo(Horizon, age[r] + 1)]
    /\ UNCHANGED <<health, failures, data, published, clean, fruitless, cut, reused>>

Reading == group > 0 /\ todo # <<>>
Register == Head(todo)

Attempted(h) ==
    /\ Admitted(Register)
    /\ health' = [health EXCEPT ![Register] = h]
    /\ todo' = Tail(todo)
    /\ suppressed' = IF Register \in Permanent /\ h.failures = 2
                     THEN [suppressed EXCEPT ![Register] = Suppression] ELSE suppressed
    /\ UNCHANGED <<since, group, due, failures, data, published, fruitless, cut, reused>>

ReadSucceeds ==
    /\ Reading /\ ~transportFailed
    /\ Attempted(Success(health[Register]))
    /\ succeeded' = TRUE
    /\ age' = IF Register \in Temporary THEN [age EXCEPT ![Register] = 0] ELSE age
    /\ UNCHANGED <<transportFailed, clean>>

\* The DTU answers with an exception, or with a value that does not decode.
ReadRefused ==
    /\ Reading /\ ~transportFailed
    /\ Attempted(IF Register \in Permanent THEN Unsupported(health[Register])
                 ELSE Failure(health[Register]))
    /\ clean' = -1
    /\ UNCHANGED <<transportFailed, succeeded, age>>

\* The client is disconnected when the failure is handled.
ReadLosesTransport ==
    /\ Reading /\ ~transportFailed
    /\ Attempted(Failure(health[Register]))
    /\ transportFailed' = TRUE
    /\ clean' = -1
    /\ UNCHANGED <<succeeded, age>>

\* After a transport failure nothing more is read in the cycle.
ReadSkipped ==
    /\ Reading /\ transportFailed
    /\ Attempted(Skipped(health[Register]))
    /\ UNCHANGED <<transportFailed, succeeded, clean, age>>

ReadSuppressed ==
    /\ Reading /\ ~Admitted(Register)
    /\ todo' = Tail(todo)
    /\ UNCHANGED <<health, since, suppressed, group, due, transportFailed, succeeded, failures,
                   data, published, historyVars>>

\* A group that was due counts as read from the start of the cycle, whether its
\* reads succeeded or were skipped.
Finished(g) == IF due THEN [since EXCEPT ![g] = 0] ELSE since

NextGroup ==
    /\ group \in 1..Len(Groups) - 1 /\ todo = <<>>
    /\ since' = Finished(Groups[group])
    /\ ComeTo(group + 1, since)
    /\ UNCHANGED <<health, suppressed, transportFailed, succeeded, failures, data, published,
                   historyVars>>

\* Mutant of Outcome: unavailable one failure early.
EarlyOutcome(n) ==
    IF ~succeeded /\ (~data \/ (transportFailed /\ n + 1 >= FailuresAllowed)) THEN "failed" ELSE "ok"

\* The cycle publishes what it read, keeps the data of before, or fails.
Outcome(n) ==
    CASE succeeded -> "ok"
      [] ~succeeded /\ (~data \/ (transportFailed /\ n >= FailuresAllowed)) -> "failed"
      [] OTHER -> "ok"

EndCycle ==
    /\ group = Len(Groups) /\ todo = <<>>
    /\ group' = 0
    /\ since' = Finished(Groups[group])
    /\ LET n == IF succeeded THEN 0
                ELSE IF transportFailed THEN UpTo(FailuresAllowed, failures + 1) ELSE failures
       IN failures' = n /\ published' = Outcome(n)
    /\ data' = (data \/ succeeded)
    /\ clean' = UpTo(Horizon, clean + 1)
    /\ fruitless' = IF succeeded THEN 0 ELSE UpTo(FailuresAllowed, fruitless + 1)
    /\ cut' = IF succeeded \/ ~transportFailed THEN 0 ELSE UpTo(FailuresAllowed, cut + 1)
    /\ reused' = FALSE
    /\ UNCHANGED <<health, suppressed, due, todo, transportFailed, succeeded, age>>

\* The first refresh of the entry failed: Home Assistant sets it up again later,
\* with a new coordinator.
SetupRetried ==
    /\ published = "failed" /\ ~data
    /\ health' = [r \in Registers |-> Unread]
    /\ since' = Period
    /\ suppressed' = [r \in Permanent |-> 0]
    /\ group' = 0 /\ due' = FALSE /\ todo' = <<>>
    /\ transportFailed' = FALSE /\ succeeded' = FALSE /\ failures' = 0
    /\ data' = FALSE /\ published' = "none"
    /\ age' = [r \in Temporary |-> Horizon]
    /\ clean' = 0 /\ fruitless' = 0 /\ cut' = 0 /\ reused' = FALSE

(***************************************************************************)
(* What comes between the reads.                                           *)
(***************************************************************************)
\* Another refresh finds the lock taken and publishes the data of before.
Overlap ==
    /\ group > 0 /\ data
    /\ published' = "ok"
    /\ reused' = TRUE
    /\ UNCHANGED <<health, since, suppressed, group, due, todo, transportFailed, succeeded,
                   failures, data, age, clean, fruitless, cut>>

\* A command is confirmed, with a readback of the ports or without.
CommandConfirmed ==
    /\ data
    /\ since' = [since EXCEPT !["temporary"] = -1]
    /\ \E readback \in BOOLEAN :
        /\ health' = [r \in Registers |->
                        IF r \in Temporary
                        THEN [known |-> TRUE, available |-> readback, failures |-> 0]
                        ELSE health[r]]
        /\ age' = IF readback THEN [r \in Temporary |-> 0] ELSE age
    /\ clean' = IF group > 0 THEN -1 ELSE 0
    /\ published' = "ok" /\ reused' = TRUE
    /\ UNCHANGED <<suppressed, group, due, todo, transportFailed, succeeded, failures, data,
                   fruitless, cut>>

Cycle == StartCycle \/ ReadSucceeds \/ NextGroup \/ EndCycle
Trouble == ReadRefused \/ ReadLosesTransport \/ ReadSkipped \/ ReadSuppressed \/ SetupRetried
Next == Cycle \/ Trouble \/ Overlap \/ CommandConfirmed

\* Every awaited read ends, and Home Assistant starts the next cycle.
ReadEnds ==
    ReadSucceeds \/ ReadRefused \/ ReadLosesTransport \/ ReadSkipped \/ ReadSuppressed
Spec == Init /\ [][Next]_vars
        /\ WF_vars(StartCycle \/ ReadEnds \/ NextGroup \/ EndCycle \/ SetupRetried)
-----------------------------------------------------------------------------
\* The types of the state.
TypeOK ==
    /\ health \in [Registers -> Health]
    /\ \A g \in GroupNames : since[g] \in -1..Period[g]
    /\ suppressed \in [Permanent -> 0..Suppression]
    /\ group \in 0..Len(Groups) /\ due \in BOOLEAN
    /\ todo = <<>> \/ (group > 0 /\ todo \in Seq(RegistersOf(Groups[group])))
    /\ transportFailed \in BOOLEAN /\ succeeded \in BOOLEAN /\ data \in BOOLEAN
    /\ failures \in 0..FailuresAllowed
    /\ published \in {"none", "ok", "failed"}
    /\ age \in [Temporary -> 0..Horizon] /\ clean \in -1..Horizon
    /\ fruitless \in 0..FailuresAllowed /\ cut \in 0..FailuresAllowed /\ reused \in BOOLEAN

\* A limit that is called available was read, or read back, within one interval
\* of its group and the cycle under way, whatever failed, was skipped or was
\* confirmed in between: temporary_limits_fresh, which Strict validation trusts,
\* has no older memory.
FreshLimitsAreRecent ==
    \A r \in Temporary : health[r].available => age[r] <= Period["temporary"] + 1

\* One interval and a cycle after the last failure, with no command since, the
\* limits are all available again: no skipped group waits longer.
LimitsComeBack ==
    clean > Period["temporary"] => \A r \in Temporary : health[r].available

\* The entities become unavailable only after three cycles that read nothing at
\* all, and do so after three in a row that lost the transport - unless a
\* command or an overlapping refresh has published the old data since.
UnavailabilityIsDebounced ==
    data => /\ published = "failed" => fruitless >= FailuresAllowed
            /\ cut >= FailuresAllowed /\ ~reused => published = "failed"

\* A permanent register is left alone for a while, never for good: it is tried
\* again again and again, whatever the number of failures.
SuppressionEnds ==
    \A r \in Permanent : []<>(data => (todo # <<>> /\ Register = r /\ Admitted(r)))
=============================================================================
