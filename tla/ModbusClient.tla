----------------------------- MODULE ModbusClient -----------------------------
(***************************************************************************)
(* The Modbus TCP client of modbus.py: one persistent stream, one request  *)
(* at a time under the lock, and a backoff that refuses to reconnect too   *)
(* early instead of sleeping.  Requests come from the coordinator's poll,  *)
(* one per cycle while they fail, and from commands at any time.           *)
(*                                                                         *)
(* A time unit is five seconds, the request timeout and the first delay;   *)
(* what a request takes is within a unit.                                  *)
(***************************************************************************)
EXTENDS Integers, Sequences

CONSTANTS
  PollInterval,  (* SCAN_INTERVAL, from the end of a poll to the next one     *)
  MaxDelay,      (* MODBUS_RECONNECT_BACKOFF_MAX_SECONDS                      *)
  MaxFailures,   (* failures counted: from this number on the delay is MaxDelay *)
  TidModulus,    (* transaction identifiers are counted modulo this           *)
  Commands,      (* whether commands add requests to the polls'               *)
  MaxTroubles,   (* bound: outages and glitches of a behaviour                *)
  MaxOwed        (* bound: answers owed on one stream at once                 *)

ASSUME ModbusAssumption ==
  /\ PollInterval \in Nat \ {0} /\ MaxDelay \in Nat \ {0}
  /\ MaxFailures \in Nat \ {0} /\ 2^(MaxFailures - 1) >= MaxDelay
  /\ TidModulus \in Nat \ {0} /\ MaxOwed \in 1..TidModulus
  /\ Commands \in BOOLEAN /\ MaxTroubles \in Nat

VARIABLES
  stream,        (* connected, or not                                         *)
  owed,          (* transaction ids the DTU has yet to answer on the stream   *)
  tid,           (* _transaction_id                                           *)
  waiting,       (* a request holds the lock and waits for its answer         *)
  failures,      (* _consecutive_failures                                     *)
  sinceFailure,  (* time since _last_failure_time                             *)
  pollIn,        (* time until the coordinator polls                          *)
  reachable,     (* the DTU answers                                           *)
  troubles,      (* outages and glitches so far                               *)
  (* History, for the properties only.                                        *)
  lost,          (* streams lost and connections failed since an answer       *)
  sinceLost      (* time since the last of them                               *)

historyVars == <<lost, sinceLost>>
vars == <<stream, owed, tid, waiting, failures, sinceFailure, pollIn, reachable, troubles,
          historyVars>>

Tids == 0..(TidModulus - 1)

TypeOK ==
  /\ stream \in {"open", "closed"} /\ owed \in Seq(Tids) /\ Len(owed) <= MaxOwed
  /\ tid \in Tids /\ waiting \in BOOLEAN
  /\ failures \in 0..MaxFailures /\ sinceFailure \in 0..MaxDelay
  /\ pollIn \in 0..PollInterval /\ reachable \in BOOLEAN /\ troubles \in 0..MaxTroubles
  /\ lost \in 0..MaxFailures /\ sinceLost \in 0..MaxDelay

Init ==
  /\ stream = "closed" /\ owed = <<>> /\ tid = 0 /\ waiting = FALSE
  /\ failures = 0 /\ sinceFailure = MaxDelay
  /\ pollIn = 0 /\ reachable = TRUE /\ troubles = 0
  /\ lost = 0 /\ sinceLost = MaxDelay

AtMost(n, bound) == IF n < bound THEN n ELSE bound

-----------------------------------------------------------------------------
(* The client.                                                             *)

(* The delay after n failures in a row: 5, 10, 20, then 30 seconds.        *)
Delay(n) == AtMost(2^(n - 1), MaxDelay)

(* A fact of arithmetic, named for the proofs: the provers know nothing of *)
(* powers.                                                                 *)
ASSUME DelaysGrow ==
  \A m, n \in 1..MaxFailures : m <= n => Delay(m) \in Nat /\ Delay(m) <= Delay(n)

(* Mutant of BackoffActive: the delays start at zero.                      *)
EarlyBackoff == failures > 1 /\ sinceFailure < Delay(failures - 1)

(* _async_backoff_before_connect                                           *)
BackoffActive == failures > 0 /\ sinceFailure < Delay(failures)

(* _record_failure and _async_disconnect_locked, which end every request   *)
(* that raises.                                                            *)
RecordFailure ==
  /\ failures' = AtMost(failures + 1, MaxFailures) /\ sinceFailure' = 0
  /\ stream' = "closed" /\ owed' = <<>>
  /\ waiting' = FALSE

RecordLoss == lost' = AtMost(lost + 1, MaxFailures) /\ sinceLost' = 0

UnboundedTid == tid + 1  (* mutant of NextTid: no & 0xFFFF *)

NextTid == (tid + 1) % TidModulus

(* The lock is free and the request at hand finds the stream open, or may  *)
(* open it and succeeds.                                                   *)
RequestSent ==
  /\ ~waiting
  /\ stream = "open" \/ (~BackoffActive /\ reachable)
  /\ stream' = "open"
  /\ tid' = NextTid
  /\ owed' = Append(owed, tid')
  /\ waiting' = TRUE
  /\ UNCHANGED <<failures, sinceFailure, historyVars>>

RequestCannotConnect ==
  /\ ~waiting
  /\ stream = "closed" /\ ~BackoffActive /\ ~reachable
  /\ RecordFailure
  /\ RecordLoss
  /\ UNCHANGED tid

(* The refusal is raised where a failed connection is, and counted as one. *)
RequestRefused ==
  /\ ~waiting
  /\ stream = "closed" /\ BackoffActive
  /\ RecordFailure
  /\ UNCHANGED <<tid, historyVars>>

Request == RequestSent \/ RequestCannotConnect \/ RequestRefused

(* The refresh cycle of the coordinator.                                   *)
Poll ==
  /\ pollIn = 0
  /\ Request
  /\ pollIn' = PollInterval
  /\ UNCHANGED <<reachable, troubles>>

(* A frame of a command.                                                   *)
CommandFrame ==
  /\ Commands
  /\ Request
  /\ UNCHANGED <<pollIn, reachable, troubles>>

-----------------------------------------------------------------------------
(* The request that waits ends.                                            *)

(* Mutant of AnswerAccepted: the transaction id is not compared.           *)
AnyAnswerAccepted ==
  /\ waiting /\ reachable
  /\ owed' = Tail(owed)
  /\ waiting' = FALSE
  /\ failures' = 0 /\ lost' = 0
  /\ UNCHANGED <<stream, tid, sinceFailure, pollIn, reachable, troubles, sinceLost>>

AnswerAccepted ==
  /\ waiting /\ reachable
  /\ Head(owed) = tid
  /\ owed' = Tail(owed)
  /\ waiting' = FALSE
  /\ failures' = 0 /\ lost' = 0
  /\ UNCHANGED <<stream, tid, sinceFailure, pollIn, reachable, troubles, sinceLost>>

(* "Unexpected Modbus transaction ID"                                      *)
AnswerMismatched ==
  /\ waiting /\ reachable
  /\ Head(owed) # tid
  /\ RecordFailure
  /\ RecordLoss
  /\ UNCHANGED <<tid, pollIn, reachable, troubles>>

Trouble ==
  /\ troubles < MaxTroubles
  /\ troubles' = troubles + 1

(* A timeout, a socket error or a truncated answer.                        *)
AnswerMissing ==
  /\ waiting
  /\ RecordFailure
  /\ RecordLoss
  /\ IF reachable THEN Trouble ELSE UNCHANGED troubles
  /\ UNCHANGED <<tid, pollIn, reachable>>

(* The waiting task is cancelled: no handler runs, the stream stays open   *)
(* and the answer is still to come.                                        *)
RequestCancelled ==
  /\ waiting
  /\ Len(owed) < MaxOwed
  /\ Trouble
  /\ waiting' = FALSE
  /\ UNCHANGED <<stream, owed, tid, failures, sinceFailure, pollIn, reachable, historyVars>>

-----------------------------------------------------------------------------
(* The DTU and time.                                                       *)

OutageBegins ==
  /\ reachable /\ reachable' = FALSE
  /\ Trouble
  /\ UNCHANGED <<stream, owed, tid, waiting, failures, sinceFailure, pollIn, historyVars>>

OutageEnds ==
  /\ ~reachable /\ reachable' = TRUE
  /\ UNCHANGED <<stream, owed, tid, waiting, failures, sinceFailure, pollIn, troubles,
                 historyVars>>

TimePasses ==
  /\ ~waiting /\ pollIn > 0
  /\ pollIn' = pollIn - 1
  /\ sinceFailure' = AtMost(sinceFailure + 1, MaxDelay)
  /\ sinceLost' = AtMost(sinceLost + 1, MaxDelay)
  /\ UNCHANGED <<stream, owed, tid, waiting, failures, reachable, troubles, lost>>

RequestEnds ==
  \/ AnswerAccepted
  \/ AnswerMismatched
  \/ AnswerMissing
  \/ RequestCancelled

Next ==
  \/ Poll
  \/ CommandFrame
  \/ RequestEnds
  \/ OutageBegins
  \/ OutageEnds
  \/ TimePasses

Spec == Init /\ [][Next]_vars

(* The coordinator polls on schedule and every request ends.               *)
FairSpec == Spec /\ WF_vars(Poll) /\ WF_vars(RequestEnds) /\ WF_vars(TimePasses)

-----------------------------------------------------------------------------
(* No answer is taken for another request's, although an abandoned request *)
(* leaves its answer on the stream the next one uses.                      *)
AcceptedAnswerIsOwn == [][AnswerAccepted => Len(owed) = 1]_vars

(* A DTU that does not answer is not hammered: after n losses in a row the *)
(* next stream is opened no earlier than the n-th delay after the last of  *)
(* them, whatever polls and commands ask for.                              *)
LossesSpaceConnections ==
  [][stream = "closed" /\ RequestSent /\ lost > 0 => sinceLost >= Delay(lost)]_vars

(* A DTU that is back for good is connected again.                         *)
Reconnects == <>[]reachable => []<>(stream = "open")

=============================================================================
