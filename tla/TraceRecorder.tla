--------------------------- MODULE TraceRecorder ---------------------------
(***************************************************************************)
(* trace.py: the black box of the automatic commands, as operators on its  *)
(* state: a bounded sequence of traces and the metrics of the session      *)
(* under way.  Time is counted in controller intervals.  Of the traces of  *)
(* closed sessions only the place they take in the buffer matters.         *)
(***************************************************************************)
EXTENDS Naturals, Sequences, FiniteSets

CONSTANTS
    MaxTraces,   \* TRACE_BUFFER_SIZE
    Window,      \* TRACE_OBSERVATION_WINDOW_SECONDS, in intervals
    MaxGap       \* TRACE_MAX_SAMPLE_GAP_SECONDS, in intervals

ASSUME TraceAssumption ==
    /\ MaxTraces \in Nat \ {0}
    /\ Window \in Nat \ {0}
    /\ MaxGap \in Nat \ {0}

Verdicts == {"effective", "ineffective", "indeterminate"}
Writers == {"none", "own", "other"}      \* whose call an event was

Traces == [current  : BOOLEAN,           \* of the active session
           outcome  : {"pending", "confirmed", "failed"} \cup Verdicts,
           age      : 0..Window,         \* since the command was started
           began    : Writers,           \* write_started_monotonic_ms
           ended    : Writers,           \* write_finished_monotonic_ms
           observed : 0..2,              \* observations since the write ended, two is many
           silence  : 0..MaxGap + 1,     \* since the last of these, or the write
           gapped   : BOOLEAN,
           returned : BOOLEAN,           \* one of them was within the deadband
           finished : BOOLEAN,           \* _finished_accounted
           counted  : BOOLEAN]           \* _evaluation_accounted

Started == [current |-> TRUE, outcome |-> "pending", age |-> 0, began |-> "none",
            ended |-> "none", observed |-> 0, silence |-> 0, gapped |-> FALSE,
            returned |-> FALSE, finished |-> FALSE, counted |-> FALSE]
Past == [Started EXCEPT !.current = FALSE, !.outcome = "failed"]

Metrics == [started : Nat, confirmed : Nat, failed : Nat,
            effective : Nat, ineffective : Nat, indeterminate : Nat]
NoMetrics == [started |-> 0, confirmed |-> 0, failed |-> 0,
              effective |-> 0, ineffective |-> 0, indeterminate |-> 0]

NewRecorder == [active |-> FALSE, traces |-> <<>>, metrics |-> NoMetrics]

(***************************************************************************)
(* One trace.                                                              *)
(***************************************************************************)
Complete(t) == t.observed = 2 /\ ~t.gapped

\* _evaluate
Evaluated(t) ==
    CASE t.outcome = "confirmed" /\ Complete(t) /\ t.returned ->
             [t EXCEPT !.outcome = "effective"]
      [] t.outcome = "confirmed" /\ ~(Complete(t) /\ t.returned) /\ t.age >= Window ->
             [t EXCEPT !.outcome = IF Complete(t) THEN "ineffective" ELSE "indeterminate"]
      [] OTHER -> t

\* The outcome _finalize_trace leaves.
Finalized(t) ==
    CASE t.outcome = "confirmed" -> [t EXCEPT !.outcome = "indeterminate"]
      [] t.outcome = "pending"   -> [t EXCEPT !.outcome = "failed"]
      [] OTHER -> t

\* record_finished and record_evaluation account a trace once.  The traces `ts' are
\* those that are looked at, by their place in the buffer.
Unaccounted(t) == {o \in {"confirmed", "failed"} : t.outcome = o /\ ~t.finished}
                  \cup {o \in Verdicts : t.outcome = o /\ ~t.counted}
Accounted(t) == [t EXCEPT !.finished = @ \/ t.outcome # "pending",
                          !.counted = @ \/ t.outcome \in Verdicts]
WithOutcomes(metrics, ts) ==
    [m \in DOMAIN metrics |->
        metrics[m] + Cardinality({i \in DOMAIN ts : m \in Unaccounted(ts[i])})]

(***************************************************************************)
(* Sessions.                                                               *)
(***************************************************************************)
CurrentTraces(r) == {i \in DOMAIN r.traces : r.traces[i].current}

\* Mutant of FinalTraces: what has no verdict yet keeps none.
UndecidedTraces(r) == [i \in CurrentTraces(r) |-> Evaluated(r.traces[i])]

\* _finalize_pending decides everything that is unresolved.
FinalTraces(r) == [i \in CurrentTraces(r) |-> Finalized(Evaluated(r.traces[i]))]

\* What stop_session reports.
Report(r) == WithOutcomes(r.metrics, FinalTraces(r))

StopSession(r) ==
    IF ~r.active THEN r
    ELSE [active |-> FALSE, traces |-> [i \in DOMAIN r.traces |-> Past], metrics |-> NoMetrics]

StartSession(r) == [StopSession(r) EXCEPT !.active = TRUE]
RotateSession(r) == IF r.active THEN StartSession(r) ELSE r

(***************************************************************************)
(* Commands.                                                               *)
(***************************************************************************)
\* Mutant of Evicted: the trace that makes room is forgotten.
EvictedUnseen(r) == <<>>

\* _append_trace decides a trace of the session before it is pushed out.
Evicted(r) == IF Len(r.traces) = MaxTraces /\ r.traces[1].current
              THEN <<Finalized(r.traces[1])>> ELSE <<>>

\* Mutant of Kept: nothing makes room.
KeptAll(r) == r.traces

Kept(r) == IF Len(r.traces) = MaxTraces THEN Tail(r.traces) ELSE r.traces

\* start_command
StartCommand(r) ==
    LET metrics == WithOutcomes(r.metrics, Evicted(r))
    IN IF ~r.active THEN r
       ELSE [r EXCEPT !.traces = Append(Kept(r), Started),
                      !.metrics = [metrics EXCEPT !.started = @ + 1]]

\* _pending_trace: the newest one of the active session.
PendingTraces(r) ==
    {i \in DOMAIN r.traces : r.active /\ r.traces[i].current /\ r.traces[i].outcome = "pending"}
Newest(S) == CHOOSE i \in S : \A j \in S : j <= i
WithPending(r, t) ==
    IF PendingTraces(r) = {} THEN r ELSE [r EXCEPT !.traces[Newest(PendingTraces(r))] = t]
PendingTrace(r) == r.traces[Newest(PendingTraces(r))]

\* record_modbus_started and finish_modbus
RecordModbusStarted(r, writer) == WithPending(r, [PendingTrace(r) EXCEPT !.began = writer])
FinishModbus(r, writer) ==
    WithPending(r, [PendingTrace(r) EXCEPT !.ended = writer, !.silence = 0])

\* finish_command
FinishCommand(r, confirmed) ==
    LET t == [PendingTrace(r) EXCEPT !.outcome = IF confirmed THEN "confirmed" ELSE "failed"]
    IN IF PendingTraces(r) = {} THEN r
       ELSE [WithPending(r, Accounted(t)) EXCEPT !.metrics = WithOutcomes(r.metrics, <<t>>)]

(***************************************************************************)
(* Measurements and time.                                                  *)
(***************************************************************************)
Seen(t, inDeadband) ==
    IF t.outcome # "confirmed" THEN t
    ELSE [t EXCEPT !.gapped = @ \/ t.silence > MaxGap, !.silence = 0,
                   !.observed = IF @ < 2 THEN @ + 1 ELSE 2, !.returned = @ \/ inDeadband]

\* observe_measurement: every trace of the session that has no verdict gets one
\* more measurement and is evaluated.
ObserveMeasurement(r, inDeadband) ==
    LET seen == [i \in DOMAIN r.traces |->
                    IF r.traces[i].current THEN Evaluated(Seen(r.traces[i], inDeadband))
                    ELSE r.traces[i]]
        decided == [i \in {j \in CurrentTraces(r) : seen[j].outcome \in Verdicts} |-> seen[i]]
    IN IF ~r.active THEN r
       ELSE [r EXCEPT !.traces = [i \in DOMAIN seen |-> Accounted(seen[i])],
                      !.metrics = WithOutcomes(r.metrics, decided)]

\* An interval has passed; a trace with its verdict no longer looks at the time.
Elapsed(t) ==
    IF t.outcome \notin {"pending", "confirmed"} THEN t
    ELSE [t EXCEPT !.age = IF @ < Window THEN @ + 1 ELSE @,
                   !.silence = IF @ <= MaxGap THEN @ + 1 ELSE @]
WithElapsed(r) == [r EXCEPT !.traces = [i \in DOMAIN r.traces |-> Elapsed(r.traces[i])]]
=============================================================================
