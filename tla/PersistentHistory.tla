------------------------- MODULE PersistentHistory --------------------------
(***************************************************************************)
(* persistent_history.py: the optional recorder of one coordinator, as     *)
(* operators on its state.  record() puts an event in a bounded queue; a   *)
(* worker takes batches from it and has each written by an executor        *)
(* thread, which no cancellation reaches.  An event is known by its place  *)
(* among those accepted.                                                   *)
(***************************************************************************)
EXTENDS Naturals, Sequences

CONSTANTS
    QueueSize,   \* HISTORY_QUEUE_MAXSIZE
    BatchSize    \* HISTORY_BATCH_SIZE

ASSUME HistoryAssumption == QueueSize \in Nat \ {0} /\ BatchSize \in Nat \ {0}

Histories == [enabled  : BOOLEAN,
              worker   : {"none", "waiting", "writing", "ended", "broken"},
              stopping : BOOLEAN,
              queue    : Seq(Nat),
              batch    : Seq(Nat),    \* with the thread, or its result not yet taken
              thread   : {"idle", "writing", "ok", "oserror", "error"},
              stored   : Seq(Nat),    \* of these events, what the files hold
              queued   : Nat,         \* _events_queued
              written  : Nat,         \* _events_written
              dropped  : BOOLEAN,     \* _events_dropped is not zero
              errors   : Nat]         \* _write_errors

NewHistory(enabled) ==
    [enabled |-> enabled, worker |-> "none", stopping |-> FALSE, queue |-> <<>>,
     batch |-> <<>>, thread |-> "idle", stored |-> <<>>, queued |-> 0, written |-> 0, dropped |-> FALSE, errors |-> 0]

IsRunning(h) == h.worker \in {"waiting", "writing"}

\* async_start: without the directory (an OSError) there is no worker, and the
\* queue fills for nobody.
Started(h, prepared) ==
    IF ~h.enabled \/ h.worker # "none" THEN h
    ELSE IF prepared
         THEN [h EXCEPT !.worker = "waiting", !.stopping = FALSE]
         ELSE [h EXCEPT !.errors = @ + 1]

\* record
Recorded(h) ==
    IF ~h.enabled \/ h.stopping THEN h
    ELSE IF Len(h.queue) < QueueSize
         THEN [h EXCEPT !.queue = Append(@, h.queued + 1), !.queued = @ + 1]
         ELSE [h EXCEPT !.dropped = TRUE]

(***************************************************************************)
(* The worker and its thread.                                              *)
(***************************************************************************)
CanTake(h) == h.worker = "waiting" /\ h.queue # <<>>

\* get, then get_nowait until the queue is empty or the batch is full.
Taken(h) ==
    LET n == IF Len(h.queue) < BatchSize THEN Len(h.queue) ELSE BatchSize
    IN [h EXCEPT !.queue = SubSeq(@, n + 1, Len(@)),
                 !.batch = SubSeq(h.queue, 1, n),
                 !.worker = "writing", !.thread = "writing"]

\* _write_batch_sync appends the events one after the other and then purges: an
\* exception leaves the n before it, an OSError of the purge all of them.
CanAnswer(h, outcome, n) ==
    /\ h.thread = "writing"
    /\ outcome = "ok" => n = Len(h.batch)
    /\ outcome = "error" => n < Len(h.batch)

\* A worker that was cancelled takes no result.
Answered(h, outcome, n) ==
    LET appended == [h EXCEPT !.stored = @ \o SubSeq(h.batch, 1, n)]
    IN IF h.worker = "writing" THEN [appended EXCEPT !.thread = outcome]
       ELSE [appended EXCEPT !.thread = "idle", !.batch = <<>>]

CanResume(h) == h.worker = "writing" /\ h.thread \in {"ok", "oserror", "error"}

\* Mutant: a batch that failed is put back.
ResumedAgain(h) ==
    [h EXCEPT !.written = IF h.thread = "ok" THEN @ + Len(h.batch) ELSE @,
              !.queue = IF h.thread = "oserror" THEN h.batch \o @ ELSE @,
              !.worker = IF h.thread = "error" THEN "broken" ELSE "waiting",
              !.thread = "idle", !.batch = <<>>]

\* Mutant: a batch that failed counts as written.
ResumedCounting(h) ==
    [h EXCEPT !.written = @ + Len(h.batch),
              !.errors = IF h.thread = "oserror" THEN @ + 1 ELSE @,
              !.worker = IF h.thread = "error" THEN "broken" ELSE "waiting",
              !.thread = "idle", !.batch = <<>>]

\* The result of the batch reaches the worker: an OSError costs the batch, any
\* other exception ends the worker for the life of the recorder.
Resumed(h) ==
    [h EXCEPT !.written = IF h.thread = "ok" THEN @ + Len(h.batch) ELSE @,
              !.errors = IF h.thread = "oserror" THEN @ + 1 ELSE @,
              !.worker = IF h.thread = "error" THEN "broken" ELSE "waiting",
              !.thread = "idle", !.batch = <<>>]

\* The get times out, and the loop finds that it is to stop.
CanEnd(h) == h.worker = "waiting" /\ h.stopping /\ h.queue = <<>>
Ended(h) == [h EXCEPT !.worker = "ended"]

(***************************************************************************)
(* async_stop: wait two seconds for the worker, then cancel it.            *)
(***************************************************************************)
StopBegun(h) == IF h.worker = "none" THEN h ELSE [h EXCEPT !.stopping = TRUE]

WorkerIsDone(h) == h.worker \in {"none", "ended", "broken"}

\* Mutant of CanGiveUp: the wait goes on while a thread writes.
CanGiveUpIdle(h) == h.stopping /\ h.worker = "waiting"

\* The two seconds have passed before the worker's end.
CanGiveUp(h) == h.stopping /\ IsRunning(h)

\* A thread still writing goes on with the batch; a result that waits is lost.
Stopped(h) ==
    [h EXCEPT !.worker = "none",
              !.thread = IF @ = "writing" THEN @ ELSE "idle",
              !.batch = IF h.thread = "writing" THEN @ ELSE <<>>]
=============================================================================
