-------------------------- MODULE ModbusClient_proofs --------------------------
(* The client matches answers and spaces its reconnections for every       *)
(* interval, number of outages and modulus of the transaction identifiers. *)
EXTENDS ModbusClient, TLAPS

(***************************************************************************)
(* The inductive invariant.                                                *)
(***************************************************************************)
(* The identifier n requests before the present one.                       *)
TidBefore(n) == IF n <= tid THEN tid - n ELSE tid - n + TidModulus

(* The answers owed are those of the last requests, in their order, and    *)
(* there is room for one more when the lock is free.                       *)
OwedInOrder ==
  /\ \A i \in 1..Len(owed) : owed[i] = TidBefore(Len(owed) - i)
  /\ waiting => Len(owed) > 0
  /\ ~waiting => Len(owed) < MaxOwed
  /\ stream = "closed" => owed = <<>>

(* Every loss is a failure, so the backoff is at least the one of the      *)
(* losses and is measured from no earlier time.                            *)
LossesAreFailures == lost <= failures /\ sinceFailure <= sinceLost

ClientInv == TypeOK /\ OwedInOrder /\ LossesAreFailures

(* The assumption without its power, of which the provers know nothing.    *)
LEMMA Bounds ==
  /\ PollInterval \in Nat \ {0} /\ MaxDelay \in Nat \ {0} /\ MaxFailures \in Nat \ {0}
  /\ TidModulus \in Nat \ {0} /\ MaxOwed \in 1..TidModulus
  /\ Commands \in BOOLEAN /\ MaxTroubles \in Nat
  BY ModbusAssumption

USE Bounds

LEMMA AtMostBounds ==
  ASSUME NEW n \in Nat, NEW bound \in Nat
  PROVE  AtMost(n, bound) \in 0..bound /\ AtMost(n, bound) <= n
  BY DEF AtMost

LEMMA AtMostGrows ==
  ASSUME NEW m \in Nat, NEW n \in Nat, NEW bound \in Nat, m <= n
  PROVE  AtMost(m, bound) <= AtMost(n, bound)
  BY DEF AtMost

LEMMA NextTidWraps ==
  ASSUME tid \in Tids
  PROVE  NextTid = (IF tid + 1 = TidModulus THEN 0 ELSE tid + 1) /\ NextTid \in Tids
<1>1. CASE tid + 1 = TidModulus
  BY <1>1 DEF NextTid, Tids
<1>2. CASE tid + 1 # TidModulus
  <2>1. tid + 1 \in 0..(TidModulus - 1)
    BY <1>2 DEF Tids
  <2> QED
    BY <1>2, <2>1 DEF NextTid, Tids
<1> QED
  BY <1>1, <1>2

LEMMA InitEstablishes == Init => ClientInv
<1> SUFFICES ASSUME Init
             PROVE  ClientInv
  OBVIOUS
<1>1. owed \in Seq(Tids) /\ Len(owed) = 0
  BY DEF Init
<1>2. TypeOK
  <2>1. owed \in Seq(Tids) /\ Len(owed) <= MaxOwed
    BY <1>1
  <2>2. tid \in Tids
    BY DEF Init, Tids
  <2>3. failures \in 0..MaxFailures /\ lost \in 0..MaxFailures
    BY DEF Init
  <2>4. sinceFailure \in 0..MaxDelay /\ sinceLost \in 0..MaxDelay
    BY DEF Init
  <2>5. pollIn \in 0..PollInterval /\ troubles \in 0..MaxTroubles
    BY DEF Init
  <2>6. stream \in {"open", "closed"} /\ waiting \in BOOLEAN /\ reachable \in BOOLEAN
    BY DEF Init
  <2> QED
    BY <2>1, <2>2, <2>3, <2>4, <2>5, <2>6 DEF TypeOK
<1> QED
  BY <1>1, <1>2 DEF Init, ClientInv, OwedInOrder, LossesAreFailures

-----------------------------------------------------------------------------
(* Every step preserves the invariant.                                     *)

(* A failure empties the stream and counts at least as many failures as    *)
(* losses, whether it is a loss itself or not.                             *)
LEMMA FailurePreserves ==
  ASSUME ClientInv, RecordFailure, UNCHANGED tid,
         RecordLoss \/ UNCHANGED historyVars,
         pollIn' \in 0..PollInterval, reachable' \in BOOLEAN, troubles' \in 0..MaxTroubles
  PROVE  ClientInv'
<1> USE DEF ClientInv, TypeOK, LossesAreFailures, RecordFailure
<1>1. owed' \in Seq(Tids) /\ Len(owed') = 0
  OBVIOUS
<1>2. failures' \in 0..MaxFailures /\ failures <= failures'
  BY DEF AtMost
<1>3. lost' \in 0..MaxFailures /\ lost' <= failures' /\ sinceLost' \in 0..MaxDelay
  BY <1>2 DEF RecordLoss, AtMost, historyVars
<1>4. TypeOK'
  <2>1. stream' \in {"open", "closed"} /\ waiting' \in BOOLEAN
    OBVIOUS
  <2>2. tid' \in Tids /\ sinceFailure' \in 0..MaxDelay /\ Len(owed') <= MaxOwed
    BY <1>1
  <2> QED
    BY <1>1, <1>2, <1>3, <2>1, <2>2
<1>5. OwedInOrder'
  BY <1>1 DEF OwedInOrder
<1> QED
  BY <1>3, <1>4, <1>5

LEMMA SentPreserves ==
  ASSUME ClientInv, RequestSent,
         pollIn' \in 0..PollInterval, UNCHANGED <<reachable, troubles>>
  PROVE  ClientInv'
<1> USE DEF ClientInv, TypeOK
<1>1. tid' = (IF tid + 1 = TidModulus THEN 0 ELSE tid + 1) /\ tid' \in Tids
  BY NextTidWraps DEF RequestSent
<1>2. Len(owed) < MaxOwed
  BY DEF RequestSent, OwedInOrder
<1>3. /\ owed' \in Seq(Tids) /\ Len(owed') = Len(owed) + 1
      /\ owed'[Len(owed) + 1] = tid'
      /\ \A i \in 1..Len(owed) : owed'[i] = owed[i]
  BY <1>1 DEF RequestSent
<1>4. ASSUME NEW i \in 1..Len(owed)
      PROVE  owed'[i] = (TidBefore(Len(owed) - i))'
  <2>1. owed[i] = TidBefore(Len(owed) - i)
    BY DEF OwedInOrder
  <2>2. Len(owed) - i \in 0..(TidModulus - 1)
    BY <1>2
  <2>3. CASE tid + 1 = TidModulus
    BY <1>1, <1>3, <2>1, <2>2, <2>3 DEF TidBefore, Tids
  <2>4. CASE tid + 1 # TidModulus
    BY <1>1, <1>3, <2>1, <2>2, <2>4 DEF TidBefore, Tids
  <2> QED
    BY <2>3, <2>4
<1>5. owed'[Len(owed) + 1] = (TidBefore(0))'
  BY <1>1, <1>3 DEF TidBefore, Tids
<1>6. \A i \in 1..Len(owed') : owed'[i] = (TidBefore(Len(owed) - i))'
  BY <1>3, <1>4, <1>5
<1>7. OwedInOrder'
  BY <1>3, <1>6 DEF OwedInOrder, RequestSent
<1>8. TypeOK'
  BY <1>1, <1>2, <1>3 DEF RequestSent, historyVars
<1> QED
  BY <1>7, <1>8 DEF RequestSent, LossesAreFailures, historyVars

LEMMA RequestPreserves ==
  ASSUME ClientInv, Request, pollIn' \in 0..PollInterval, UNCHANGED <<reachable, troubles>>
  PROVE  ClientInv'
<1>1. CASE RequestSent
  BY <1>1, SentPreserves
<1>2. CASE RequestCannotConnect \/ RequestRefused
  <2>1. reachable' \in BOOLEAN /\ troubles' \in 0..MaxTroubles
    BY DEF ClientInv, TypeOK
  <2> QED
    BY <1>2, <2>1, FailurePreserves DEF RequestCannotConnect, RequestRefused, historyVars
<1> QED
  BY <1>1, <1>2 DEF Request

LEMMA StepPreserves == ClientInv /\ [Next]_vars => ClientInv'
<1> SUFFICES ASSUME ClientInv, [Next]_vars
             PROVE  ClientInv'
  OBVIOUS
<1> USE DEF ClientInv, TypeOK
<1>1. CASE Poll
  BY <1>1, RequestPreserves DEF Poll
<1>2. CASE CommandFrame
  BY <1>2, RequestPreserves DEF CommandFrame
<1>3. CASE AnswerAccepted
  <2>1. Len(owed) > 0
    BY <1>3 DEF AnswerAccepted, OwedInOrder
  <2>2. /\ owed' \in Seq(Tids) /\ Len(owed') = Len(owed) - 1
        /\ \A i \in 1..Len(owed') : owed'[i] = owed[i + 1]
    BY <1>3, <2>1 DEF AnswerAccepted
  <2>3. \A i \in 1..Len(owed') : owed'[i] = (TidBefore(Len(owed) - i))'
    BY <1>3, <2>2 DEF AnswerAccepted, OwedInOrder, TidBefore
  <2>4. OwedInOrder'
    <3>1. stream' = "open"
      BY <1>3, <2>1 DEF AnswerAccepted, OwedInOrder
    <3> QED
      BY <1>3, <2>2, <2>3, <3>1 DEF AnswerAccepted, OwedInOrder
  <2>5. LossesAreFailures' /\ failures' \in 0..MaxFailures /\ lost' \in 0..MaxFailures
    BY <1>3 DEF AnswerAccepted, LossesAreFailures
  <2>6. Len(owed') <= MaxOwed
    BY <1>3, <2>2 DEF AnswerAccepted
  <2>7. TypeOK'
    BY <1>3, <2>2, <2>5, <2>6 DEF AnswerAccepted
  <2> QED
    BY <2>4, <2>5, <2>7
<1>4. CASE AnswerMismatched
  BY <1>4, FailurePreserves DEF AnswerMismatched
<1>5. CASE AnswerMissing
  BY <1>5, FailurePreserves DEF AnswerMissing, Trouble
<1>6. CASE RequestCancelled
  <2>1. troubles' \in 0..MaxTroubles
    BY <1>6 DEF RequestCancelled, Trouble
  <2>2. TypeOK'
    BY <1>6, <2>1 DEF RequestCancelled, historyVars
  <2> QED
    BY <1>6, <2>2 DEF RequestCancelled, OwedInOrder, TidBefore, LossesAreFailures, historyVars
<1>7. CASE OutageBegins
  <2>1. troubles' \in 0..MaxTroubles
    BY <1>7 DEF OutageBegins, Trouble
  <2>2. TypeOK'
    BY <1>7, <2>1 DEF OutageBegins, historyVars
  <2> QED
    BY <1>7, <2>2 DEF OutageBegins, OwedInOrder, TidBefore, LossesAreFailures, historyVars
<1>8. CASE OutageEnds
  BY <1>8 DEF OutageEnds, OwedInOrder, TidBefore, LossesAreFailures, historyVars
<1>9. CASE TimePasses
  BY <1>9 DEF TimePasses, OwedInOrder, TidBefore, LossesAreFailures, AtMost
<1>10. CASE UNCHANGED vars
  BY <1>10 DEF vars, OwedInOrder, TidBefore, LossesAreFailures, historyVars
<1> QED
  BY <1>1, <1>2, <1>3, <1>4, <1>5, <1>6, <1>7, <1>8, <1>9, <1>10 DEF Next, RequestEnds

LEMMA Invariance == Spec => []ClientInv
  BY InitEstablishes, StepPreserves, PTL DEF Spec

-----------------------------------------------------------------------------
(* The client's variables keep their types: identifiers stay below the     *)
(* modulus and a stream never owes more answers than requests were left    *)
(* alone on it.                                                            *)
THEOREM ClientTypes == Spec => []TypeOK
<1>1. ClientInv => TypeOK
  BY DEF ClientInv
<1> QED
  BY <1>1, Invariance, PTL

(* The identifier of a request tells its answer from the answers of the    *)
(* requests abandoned before it, as long as fewer of them are owed on one  *)
(* stream than there are identifiers.                                      *)
THEOREM AnswersMatchRequests == Spec => AcceptedAnswerIsOwn
<1>1. ASSUME ClientInv, AnswerAccepted
      PROVE  Len(owed) = 1
  <2>1. Len(owed) \in 1..TidModulus /\ owed[1] = TidBefore(Len(owed) - 1) /\ tid \in Tids
    BY <1>1 DEF ClientInv, TypeOK, OwedInOrder, AnswerAccepted
  <2>2. owed[1] = tid
    BY <1>1, <2>1 DEF AnswerAccepted, ClientInv, TypeOK
  <2>3. CASE Len(owed) - 1 <= tid
    <3>1. tid = tid - (Len(owed) - 1)
      BY <2>1, <2>2, <2>3 DEF TidBefore
    <3>2. tid \in Int /\ Len(owed) \in Int
      BY <2>1 DEF Tids
    <3> HIDE Bounds
    <3> QED
      BY <3>1, <3>2
  <2>4. CASE ~(Len(owed) - 1 <= tid)
    BY <2>1, <2>2, <2>4 DEF TidBefore, Tids
  <2> QED
    BY <2>3, <2>4
<1>2. ClientInv /\ [Next]_vars => [AnswerAccepted => Len(owed) = 1]_vars
  BY <1>1
<1> QED
  BY <1>2, Invariance, PTL DEF Spec, AcceptedAnswerIsOwn

(* A DTU that does not answer is given the delay of as many failures as it *)
(* lost streams: refusals lengthen the backoff, nothing shortens it.       *)
THEOREM LossesDelayConnections == Spec => LossesSpaceConnections
<1>1. ASSUME ClientInv, stream = "closed", RequestSent, lost > 0
      PROVE  sinceLost >= Delay(lost)
  <2>1. lost \in 1..MaxFailures /\ failures \in 1..MaxFailures /\ lost <= failures
    BY <1>1 DEF ClientInv, TypeOK, LossesAreFailures
  <2>2. Delay(lost) \in Nat /\ Delay(failures) \in Nat /\ Delay(lost) <= Delay(failures)
    BY <2>1, DelaysGrow
  <2>3. ~(sinceFailure < Delay(failures))
    BY <1>1, <2>1 DEF RequestSent, BackoffActive
  <2>4. sinceFailure \in Nat /\ sinceLost \in Nat /\ sinceFailure <= sinceLost
    BY <1>1 DEF ClientInv, TypeOK, LossesAreFailures
  <2> QED
    BY <2>2, <2>3, <2>4
<1>2. ClientInv /\ [Next]_vars
        => [stream = "closed" /\ RequestSent /\ lost > 0 => sinceLost >= Delay(lost)]_vars
  BY <1>1
<1> QED
  BY <1>2, Invariance, PTL DEF Spec, LossesSpaceConnections

=============================================================================
