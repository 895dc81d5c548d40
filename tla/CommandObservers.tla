-------------------------- MODULE CommandObservers --------------------------
(***************************************************************************)
(* The trace recorder and the adaptive limit model as the controller calls *)
(* them: measurements and commands from its ticks, the start and the end   *)
(* of a session from mode changes and setters, the events of every write   *)
(* from the coordinator, a user's slider write included.  A command awaits *)
(* its frames while all the others go on; ticks do not, their lock is      *)
(* taken.                                                                  *)
(***************************************************************************)
EXTENDS TraceRecorder, AdaptiveLimitModel

CONSTANT MaxCommands    \* bounds the commands of one session

VARIABLES
    mode,        \* the controller's mode
    flight,      \* the automatic command under way, "none" without one
    ticked,      \* the controller's tick of this interval has come
    slider,      \* a slider write awaits its frames
    recorder,    \* the TraceRecorder
    model,       \* the AdaptiveLimitModel
    \* History, for the properties only.
    truth,       \* what this session's commands came to, and whether flight is one of them
    outdated,    \* the model was reset since the command under way began
    misread      \* such a command is the one observed last

historyVars == <<truth, outdated, misread>>
vars == <<mode, flight, ticked, slider, recorder, model, historyVars>>

Kinds == {"correction", "release", "takeover"}
NoTruth == [confirmed |-> 0, failed |-> 0, mine |-> FALSE]

Init ==
    /\ mode \in {"Manual", "Production"}
    /\ flight = "none" /\ ticked = FALSE /\ slider = FALSE
    /\ recorder = IF mode = "Production" THEN StartSession(NewRecorder) ELSE NewRecorder
    /\ model = NewModel
    /\ truth = NoTruth /\ outdated = FALSE /\ misread = FALSE

(***************************************************************************)
(* Ticks.                                                                  *)
(***************************************************************************)
\* A tick that finds no snapshot, or another tick awaiting, does nothing here.
Ticking == mode = "Production" /\ flight = "none" /\ ~ticked /\ ticked' = TRUE

\* The part of a tick that has a synchronized snapshot.
Observed(r, m) ==
    \E inDeadband, powerKnown \in BOOLEAN, measured \in Measurements :
        LET based == AfterBaseline(model, powerKnown)
            fate == Observation(based, measured)
        IN /\ powerKnown \/ measured = "none"
           /\ r = ObserveMeasurement(recorder, inDeadband)
           /\ m = AfterObservation(based, fate)

TickObserves ==
    /\ Ticking
    /\ Observed(recorder', model')
    /\ UNCHANGED <<mode, flight, slider, historyVars>>

\* A command starts after the observation; a takeover's tick has none.
Starting(r) == RecordModbusStarted(StartCommand(r), "own")

TickCommands ==
    /\ Ticking /\ recorder.metrics.started < MaxCommands
    /\ flight' \in {"correction", "release"}
    /\ \E r \in {ObserveMeasurement(recorder, inDeadband) : inDeadband \in BOOLEAN} :
        /\ Observed(r, model')
        /\ recorder' = Starting(r)
    /\ truth' = [truth EXCEPT !.mine = TRUE]
    /\ UNCHANGED <<mode, slider, outdated, misread>>

TickTakesOver ==
    /\ Ticking /\ recorder.metrics.started < MaxCommands
    /\ flight' = "takeover"
    /\ recorder' = Starting(recorder)
    /\ truth' = [truth EXCEPT !.mine = TRUE]
    /\ UNCHANGED <<mode, slider, model, outdated, misread>>

\* The scheduler is stabilizing or the validation is Strict: the takeover fails
\* before its first frame, without a word to the recorder in between.
TickTakeoverRefused ==
    /\ Ticking /\ recorder.metrics.started < MaxCommands
    /\ recorder' = FinishCommand(StartCommand(recorder), FALSE)
    /\ truth' = [truth EXCEPT !.failed = @ + 1]
    /\ UNCHANGED <<mode, flight, slider, model, outdated, misread>>

\* The frames are answered, or one of them fails: finish_modbus, registration of
\* a confirmed correction whose power before is known, finish_command.
Ended(confirmed) == FinishCommand(FinishModbus(recorder, "own"), confirmed)
Tallied(confirmed) ==
    IF ~truth.mine THEN truth
    ELSE IF confirmed THEN [truth EXCEPT !.mine = FALSE, !.confirmed = @ + 1]
    ELSE [truth EXCEPT !.mine = FALSE, !.failed = @ + 1]

CommandConfirmed ==
    /\ flight # "none" /\ flight' = "none"
    /\ recorder' = Ended(TRUE)
    /\ \E powerKnown, enough \in BOOLEAN :
        LET registers == flight = "correction" /\ powerKnown
        IN /\ model' = IF registers THEN AfterRegistration(model, enough) ELSE model
           /\ misread' = IF registers /\ IsObservable(model, enough) THEN outdated ELSE misread
    /\ outdated' = FALSE
    /\ truth' = Tallied(TRUE)
    /\ UNCHANGED <<mode, ticked, slider>>

CommandFails ==
    /\ flight # "none" /\ flight' = "none"
    /\ recorder' = Ended(FALSE)
    /\ truth' = Tallied(FALSE)
    /\ outdated' = FALSE
    /\ UNCHANGED <<mode, ticked, slider, model, misread>>

TimePasses ==
    /\ recorder' = WithElapsed(recorder)
    /\ model' = AfterInterval(model)
    /\ ticked' = FALSE
    /\ UNCHANGED <<mode, flight, slider, historyVars>>

(***************************************************************************)
(* The user.                                                               *)
(***************************************************************************)
SessionEnds(next) == recorder' = next /\ truth' = NoTruth

\* Mutant of SelectManual: the session goes on in Manual.
SelectManualOnly ==
    /\ mode = "Production" /\ mode' = "Manual"
    /\ UNCHANGED <<flight, ticked, slider, recorder, model, historyVars>>

SelectManual ==
    /\ mode = "Production" /\ mode' = "Manual"
    /\ SessionEnds(StopSession(recorder))
    /\ UNCHANGED <<flight, ticked, slider, model, outdated, misread>>

SelectProduction ==
    /\ mode = "Manual" /\ mode' = "Production"
    /\ SessionEnds(StartSession(recorder))
    /\ UNCHANGED <<flight, ticked, slider, model, outdated, misread>>

\* set_target_grid_power and its like segment the session; the nominal power also
\* makes what the model has learnt incomparable.
ChangeSetting ==
    /\ SessionEnds(IF mode = "Production" THEN RotateSession(recorder) ELSE recorder)
    /\ \/ UNCHANGED <<model, outdated>>
       \/ model' = AfterReset(model) /\ outdated' = (flight # "none")
    /\ UNCHANGED <<mode, flight, ticked, slider, misread>>

\* async_set_manual_temporary_power_limit: its events go to whatever is pending.
SliderStarts ==
    /\ mode = "Manual" /\ ~slider /\ slider' = TRUE
    /\ recorder' = RecordModbusStarted(recorder, "other")
    /\ UNCHANGED <<mode, flight, ticked, model, historyVars>>

SliderEnds ==
    /\ slider /\ slider' = FALSE
    /\ recorder' = FinishModbus(recorder, "other")
    /\ UNCHANGED <<mode, flight, ticked, model, historyVars>>

Tick == TickObserves \/ TickCommands \/ TickTakesOver \/ TickTakeoverRefused
CommandEnds == CommandConfirmed \/ CommandFails
User == SelectManual \/ SelectProduction \/ ChangeSetting \/ SliderStarts \/ SliderEnds
Next == Tick \/ CommandEnds \/ TimePasses \/ User

Spec == Init /\ [][Next]_vars
-----------------------------------------------------------------------------
\* The types of the state.
TypeOK ==
    /\ mode \in {"Manual", "Production"}
    /\ flight \in Kinds \cup {"none"} /\ ticked \in BOOLEAN /\ slider \in BOOLEAN
    /\ recorder.active \in BOOLEAN
    /\ recorder.traces \in Seq(Traces) /\ Len(recorder.traces) <= MaxTraces
    /\ recorder.metrics \in Metrics
    /\ model \in Models
    /\ truth \in [confirmed : Nat, failed : Nat, mine : BOOLEAN]
    /\ outdated \in BOOLEAN /\ misread \in BOOLEAN

Judged(m) == m.effective + m.ineffective + m.indeterminate

\* The books of a session balance whatever was evicted, rotated or still in the
\* air: its counts are what its commands came to, those refused before their first
\* frame among the failed ones, and every confirmed command has had one verdict or
\* still waits for it in the buffer.
SessionLedger ==
    recorder.active =>
        LET m == recorder.metrics
            waiting == {i \in DOMAIN recorder.traces : recorder.traces[i].current
                                                    /\ recorder.traces[i].outcome = "confirmed"}
        IN /\ m.confirmed = truth.confirmed /\ m.failed = truth.failed
           /\ m.started = m.confirmed + m.failed + Cardinality(PendingTraces(recorder))
           /\ m.confirmed = Judged(m) + Cardinality(waiting)

\* Whenever the session is closed its report leaves nothing open and counts
\* nothing twice.
ReportIsClosed ==
    LET m == Report(recorder)
    IN m.started = m.confirmed + m.failed /\ m.confirmed = Judged(m)

\* What the recorder calls pending is the command under way, and a trace has the
\* times of its own write and of no other, although a slider write that began in
\* Manual reports its events to the same recorder.  A trace that failed has both
\* times, or neither if its command was refused before the first frame.
PendingIsInFlight ==
    /\ Cardinality(PendingTraces(recorder)) = (IF flight # "none" /\ truth.mine THEN 1 ELSE 0)
    /\ \A i \in DOMAIN recorder.traces :
        LET t == recorder.traces[i]
        IN t.current =>
               /\ t.outcome = "pending" => t.began = "own"
               /\ t.outcome \notin {"pending", "failed"} => t.began = "own" /\ t.ended = "own"
               /\ t.outcome = "failed" => t.began = t.ended /\ t.began \in {"own", "none"}

\* What is observed, and with it every gain that is learnt, is of a command that
\* began after the last change of the nominal power, which makes earlier evidence
\* incomparable, although the power may be changed while a command awaits its frames
\* and the command is registered, once confirmed, with a model that was reset.
ObservedIsComparable == model.pending.active => ~misread
=============================================================================
