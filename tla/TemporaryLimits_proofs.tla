------------------------ MODULE TemporaryLimits_proofs ------------------------
(* The common limit is what the coordinator believes it is, for every      *)
(* number of ports, set of limits and number of concurrent slider calls.   *)
EXTENDS TemporaryLimits, TLAPS

(***************************************************************************)
(* The inductive invariant.                                                *)
(***************************************************************************)
(* The callers queued for the lock are those with a call, each once.       *)
QueueIsExact ==
  /\ \A i, j \in 1..Len(bus) : bus[i] = bus[j] => i = j
  /\ \A c \in Callers : Writing(c) <=> \E i \in 1..Len(bus) : bus[i] = c

WritersAreTyped ==
  /\ call[Refresh].phase # "write"
  /\ \A w \in Writers : Writing(w) => call[w].value \in Values

LatestLives ==
  IF fate = "running" THEN latest # None /\ Writing(latest)
                      ELSE latest # None => ~Writing(latest)

(* The number of a frame among the frames of its command.                  *)
Number(frame) == IF frame.phase = "write" THEN frame.port ELSE NumPorts + frame.port

Progress(w) == Number(call[w])

(* The lock serves its waiters in turn, so the command that started last   *)
(* never overtakes another one: no port it has written is written again by *)
(* an older command.                                                       *)
LatestIsLast ==
  fate = "running" =>
    \A i, j \in 1..Len(bus) :
      bus[j] = latest /\ bus[i] \in Writers \ {latest}
        => /\ i < j => Progress(bus[i]) >= Progress(latest)
           /\ j < i => Progress(bus[i]) > Progress(latest)

LatestHolds ==
  fate = "running" =>
    \A p \in Ports : p < Progress(latest) => register[p] = call[latest].value

(* Older commands may still verify, none writes.                           *)
ConfirmedHolds ==
  fate = "confirmed" =>
    /\ \A w \in Writers : call[w].phase # "write"
    /\ \A p \in Ports : register[p] = lastConfirmed

KnownIsTrue ==
  /\ \A p \in Ports : health[p].available => health[p].value = register[p]
  /\ lastConfirmed # None => \A p \in Ports : register[p] = lastConfirmed

(* Without an overlap or a restart that took its toll, what is known at    *)
(* rest is true unless the ports are marked uncertain.                     *)
Settled ==
  ~tainted =>
    /\ \A w \in Writers : Writing(w) => w = latest \/ fate = "confirmed"
    /\ fate = "failed" => ~synchronized
    /\ fate # "running" /\ synchronized => KnownIsTrue

LimitsInv ==
  /\ TypeOK /\ QueueIsExact /\ WritersAreTyped
  /\ LatestLives /\ LatestIsLast /\ LatestHolds /\ ConfirmedHolds /\ Settled

USE PortsAssumption, CallersAssumption

-----------------------------------------------------------------------------
(* The queue.                                                              *)

LEMMA HolderIsQueued ==
  ASSUME LimitsInv, bus # <<>>
  PROVE  /\ Len(bus) \in Nat \ {0} /\ Holder = bus[1] /\ Holder \in Callers
         /\ Writing(Holder) /\ Frame \in Call
<1>1. bus \in Seq(Callers) /\ call \in [Callers -> Call]
  BY DEF LimitsInv, TypeOK
<1>2. Len(bus) \in Nat \ {0} /\ Holder = bus[1] /\ Holder \in Callers
  BY <1>1 DEF Holder
<1>3. Writing(Holder)
  BY <1>2 DEF LimitsInv, QueueIsExact
<1> QED
  BY <1>1, <1>2, <1>3 DEF Frame

LEMMA QueueGrows ==
  ASSUME LimitsInv, NEW c \in Callers, ~Writing(c),
         NEW frame \in Call, frame.phase # "idle", Queue(c, frame)
  PROVE  /\ bus' \in Seq(Callers) /\ call' \in [Callers -> Call]
         /\ Len(bus') = Len(bus) + 1 /\ bus'[Len(bus) + 1] = c
         /\ \A i \in 1..Len(bus) : bus'[i] = bus[i] /\ bus[i] # c
         /\ (call')[c] = frame
         /\ \A d \in Callers \ {c} : (call')[d] = call[d]
         /\ QueueIsExact'
<1>1. /\ bus \in Seq(Callers) /\ Len(bus) \in Nat
      /\ call \in [Callers -> Call]
  BY DEF LimitsInv, TypeOK
<1>2. /\ call' \in [Callers -> Call] /\ (call')[c] = frame
      /\ \A d \in Callers \ {c} : (call')[d] = call[d]
  BY <1>1 DEF Queue
<1>3. /\ bus' \in Seq(Callers) /\ Len(bus') = Len(bus) + 1 /\ bus'[Len(bus) + 1] = c
      /\ \A i \in 1..Len(bus) : bus'[i] = bus[i]
  BY <1>1 DEF Queue
<1>4. \A i \in 1..Len(bus) : bus[i] # c
  BY DEF LimitsInv, QueueIsExact
<1>5. \A i, j \in 1..Len(bus') : bus'[i] = bus'[j] => i = j
  <2> SUFFICES ASSUME NEW i \in 1..(Len(bus) + 1), NEW j \in 1..(Len(bus) + 1),
                      bus'[i] = bus'[j]
               PROVE  i = j
    BY <1>3
  <2>1. CASE i = Len(bus) + 1 \/ j = Len(bus) + 1
    BY <1>1, <1>3, <1>4, <2>1
  <2>2. CASE i # Len(bus) + 1 /\ j # Len(bus) + 1
    <3>1. i \in 1..Len(bus) /\ j \in 1..Len(bus)
      BY <1>1, <2>2
    <3> QED
      BY <1>3, <3>1 DEF LimitsInv, QueueIsExact
  <2> QED
    BY <2>1, <2>2
<1>6. ASSUME NEW d \in Callers
      PROVE  Writing(d)' <=> \E i \in 1..Len(bus') : bus'[i] = d
  <2>1. CASE d = c
    <3>1. Writing(d)'
      BY <1>2, <2>1 DEF Writing
    <3>2. Len(bus) + 1 \in 1..Len(bus') /\ bus'[Len(bus) + 1] = d
      BY <1>1, <1>3, <2>1
    <3> QED
      BY <3>1, <3>2
  <2>2. CASE d # c
    <3>1. Writing(d)' <=> Writing(d)
      BY <1>2, <2>2 DEF Writing
    <3>2. Writing(d) <=> \E i \in 1..Len(bus) : bus[i] = d
      BY DEF LimitsInv, QueueIsExact
    <3>3. \A i \in 1..Len(bus') : bus'[i] = d => i \in 1..Len(bus)
      BY <1>1, <1>3, <2>2
    <3>4. \A i \in 1..Len(bus) : i \in 1..Len(bus')
      BY <1>1, <1>3
    <3> QED
      BY <1>3, <3>1, <3>2, <3>3, <3>4
  <2> QED
    BY <2>1, <2>2
<1> QED
  BY <1>2, <1>3, <1>4, <1>5, <1>6 DEF QueueIsExact

LEMMA QueueRotates ==
  ASSUME LimitsInv, bus # <<>>, NEW frame \in Call, frame.phase # "idle", NextFrame(frame)
  PROVE  /\ bus' \in Seq(Callers) /\ call' \in [Callers -> Call]
         /\ Len(bus') = Len(bus) /\ bus'[Len(bus)] = Holder
         /\ \A i \in 1..(Len(bus) - 1) : bus'[i] = bus[i + 1] /\ bus[i + 1] # Holder
         /\ (call')[Holder] = frame
         /\ \A d \in Callers \ {Holder} : (call')[d] = call[d]
         /\ QueueIsExact'
<1>1. /\ bus \in Seq(Callers) /\ Len(bus) \in Nat \ {0} /\ Holder = bus[1]
      /\ Holder \in Callers /\ call \in [Callers -> Call] /\ Writing(Holder)
  BY HolderIsQueued DEF LimitsInv, TypeOK
<1>2. /\ call' \in [Callers -> Call] /\ (call')[Holder] = frame
      /\ \A d \in Callers \ {Holder} : (call')[d] = call[d]
  BY <1>1 DEF NextFrame
<1>3. /\ bus' \in Seq(Callers) /\ Len(bus') = Len(bus) /\ bus'[Len(bus)] = Holder
      /\ \A i \in 1..(Len(bus) - 1) : bus'[i] = bus[i + 1]
  <2>1. /\ Tail(bus) \in Seq(Callers) /\ Len(Tail(bus)) = Len(bus) - 1
        /\ \A i \in 1..(Len(bus) - 1) : Tail(bus)[i] = bus[i + 1]
    BY <1>1
  <2> QED
    BY <1>1, <2>1 DEF NextFrame
<1>4. \A i \in 1..(Len(bus) - 1) : bus[i + 1] # Holder
  BY <1>1 DEF LimitsInv, QueueIsExact
<1>5. \A i, j \in 1..Len(bus') : bus'[i] = bus'[j] => i = j
  <2> SUFFICES ASSUME NEW i \in 1..Len(bus), NEW j \in 1..Len(bus), bus'[i] = bus'[j]
               PROVE  i = j
    BY <1>3
  <2>1. CASE i = Len(bus) \/ j = Len(bus)
    BY <1>1, <1>3, <1>4, <2>1
  <2>2. CASE i # Len(bus) /\ j # Len(bus)
    <3>1. /\ i \in 1..(Len(bus) - 1) /\ j \in 1..(Len(bus) - 1)
          /\ i + 1 \in 1..Len(bus) /\ j + 1 \in 1..Len(bus)
      BY <1>1, <2>2
    <3>2. bus[i + 1] = bus[j + 1]
      BY <1>3, <3>1
    <3>3. i + 1 = j + 1
      BY <3>1, <3>2 DEF LimitsInv, QueueIsExact
    <3> QED
      BY <3>1, <3>3
  <2> QED
    BY <2>1, <2>2
<1>6. ASSUME NEW d \in Callers
      PROVE  Writing(d)' <=> \E i \in 1..Len(bus') : bus'[i] = d
  <2>1. CASE d = Holder
    <3>1. Writing(d)'
      BY <1>2, <2>1 DEF Writing
    <3>2. Len(bus) \in 1..Len(bus') /\ bus'[Len(bus)] = d
      BY <1>1, <1>3, <2>1
    <3> QED
      BY <3>1, <3>2
  <2>2. CASE d # Holder
    <3>1. Writing(d)' <=> Writing(d)
      BY <1>2, <2>2 DEF Writing
    <3>2. Writing(d) <=> \E i \in 1..Len(bus) : bus[i] = d
      BY DEF LimitsInv, QueueIsExact
    <3>3. ASSUME NEW i \in 1..Len(bus), bus[i] = d
          PROVE  \E k \in 1..Len(bus') : bus'[k] = d
      <4>1. i - 1 \in 1..(Len(bus) - 1) /\ i - 1 \in 1..Len(bus') /\ (i - 1) + 1 = i
        BY <1>1, <1>3, <2>2, <3>3
      <4>2. bus'[i - 1] = d
        BY <1>3, <3>3, <4>1
      <4> QED
        BY <4>1, <4>2
    <3>4. ASSUME NEW i \in 1..Len(bus'), bus'[i] = d
          PROVE  \E k \in 1..Len(bus) : bus[k] = d
      <4>1. i \in 1..(Len(bus) - 1) /\ i + 1 \in 1..Len(bus)
        BY <1>1, <1>3, <2>2, <3>4
      <4> QED
        BY <1>3, <3>4, <4>1
    <3> QED
      BY <3>1, <3>2, <3>3, <3>4
  <2> QED
    BY <2>1, <2>2
<1> QED
  BY <1>2, <1>3, <1>4, <1>5, <1>6 DEF QueueIsExact

LEMMA QueueShrinks ==
  ASSUME LimitsInv, bus # <<>>, Finish
  PROVE  /\ bus' \in Seq(Callers) /\ call' \in [Callers -> Call]
         /\ Len(bus') = Len(bus) - 1
         /\ \A i \in 1..(Len(bus) - 1) : bus'[i] = bus[i + 1] /\ bus[i + 1] # Holder
         /\ (call')[Holder] = Idle
         /\ \A d \in Callers \ {Holder} : (call')[d] = call[d]
         /\ QueueIsExact'
<1>1. /\ bus \in Seq(Callers) /\ Len(bus) \in Nat \ {0} /\ Holder = bus[1]
      /\ Holder \in Callers /\ call \in [Callers -> Call] /\ Writing(Holder)
  BY HolderIsQueued DEF LimitsInv, TypeOK
<1>2. /\ call' \in [Callers -> Call] /\ (call')[Holder] = Idle
      /\ \A d \in Callers \ {Holder} : (call')[d] = call[d]
  <2>1. Idle \in Call
    BY DEF Idle, Call, Ports
  <2> QED
    BY <1>1, <2>1 DEF Finish
<1>3. /\ bus' \in Seq(Callers) /\ Len(bus') = Len(bus) - 1
      /\ \A i \in 1..(Len(bus) - 1) : bus'[i] = bus[i + 1]
  BY <1>1 DEF Finish
<1>4. \A i \in 1..(Len(bus) - 1) : bus[i + 1] # Holder
  BY <1>1 DEF LimitsInv, QueueIsExact
<1>5. \A i, j \in 1..Len(bus') : bus'[i] = bus'[j] => i = j
  <2> SUFFICES ASSUME NEW i \in 1..(Len(bus) - 1), NEW j \in 1..(Len(bus) - 1),
                      bus'[i] = bus'[j]
               PROVE  i = j
    BY <1>3
  <2>1. i + 1 \in 1..Len(bus) /\ j + 1 \in 1..Len(bus)
    BY <1>1
  <2>2. i + 1 = j + 1
    BY <1>3, <2>1 DEF LimitsInv, QueueIsExact
  <2> QED
    BY <2>1, <2>2
<1>6. ASSUME NEW d \in Callers
      PROVE  Writing(d)' <=> \E i \in 1..Len(bus') : bus'[i] = d
  <2>1. CASE d = Holder
    <3>1. ~Writing(d)'
      BY <1>2, <2>1 DEF Writing, Idle
    <3> QED
      BY <1>3, <1>4, <2>1, <3>1
  <2>2. CASE d # Holder
    <3>1. Writing(d)' <=> Writing(d)
      BY <1>2, <2>2 DEF Writing
    <3>2. Writing(d) <=> \E i \in 1..Len(bus) : bus[i] = d
      BY DEF LimitsInv, QueueIsExact
    <3>3. ASSUME NEW i \in 1..Len(bus), bus[i] = d
          PROVE  \E k \in 1..Len(bus') : bus'[k] = d
      <4>1. i - 1 \in 1..(Len(bus) - 1) /\ i - 1 \in 1..Len(bus') /\ (i - 1) + 1 = i
        BY <1>1, <1>3, <2>2, <3>3
      <4>2. bus'[i - 1] = d
        BY <1>3, <3>3, <4>1
      <4> QED
        BY <4>1, <4>2
    <3>4. ASSUME NEW i \in 1..Len(bus'), bus'[i] = d
          PROVE  \E k \in 1..Len(bus) : bus[k] = d
      <4>1. i \in 1..(Len(bus) - 1) /\ i + 1 \in 1..Len(bus)
        BY <1>1, <1>3
      <4> QED
        BY <1>3, <3>4, <4>1
    <3> QED
      BY <3>1, <3>2, <3>3, <3>4
  <2> QED
    BY <2>1, <2>2
<1> QED
  BY <1>2, <1>3, <1>4, <1>5, <1>6 DEF QueueIsExact

-----------------------------------------------------------------------------
(* The order of the commands.                                              *)

LEMMA ProgressIsNumber ==
  ASSUME TypeOK, NEW w \in Callers
  PROVE  Progress(w) \in Nat
  BY DEF TypeOK, Progress, Number, Call, Ports

(* A writer or the reader goes on with its next frame.                     *)
LEMMA RotationKeepsOrder ==
  ASSUME LimitsInv, bus # <<>>, NEW frame \in Call, frame.phase # "idle", NextFrame(frame),
         Holder \in Writers => Number(frame) = Progress(Holder) + 1,
         UNCHANGED <<latest, fate>>
  PROVE  LatestIsLast'
<1> SUFFICES ASSUME fate = "running",
                    NEW i \in 1..Len(bus'), NEW j \in 1..Len(bus'),
                    bus'[j] = latest, bus'[i] \in Writers \ {latest}
             PROVE  /\ i < j => (Progress(bus[i]))' >= (Progress(latest))'
                    /\ j < i => (Progress(bus[i]))' > (Progress(latest))'
  BY DEF LatestIsLast
<1> DEFINE n == Len(bus)
<1>1. /\ bus \in Seq(Callers) /\ n \in Nat \ {0} /\ Holder = bus[1] /\ Holder \in Callers
  BY HolderIsQueued DEF LimitsInv, TypeOK
<1>2. /\ bus' \in Seq(Callers) /\ Len(bus') = n /\ bus'[n] = Holder
      /\ \A k \in 1..(n - 1) : bus'[k] = bus[k + 1] /\ bus[k + 1] # Holder
      /\ \A d \in Callers \ {Holder} : (call')[d] = call[d]
      /\ (call')[Holder] = frame /\ QueueIsExact'
  BY QueueRotates
<1>3. /\ \A d \in Callers \ {Holder} : (Progress(d))' = Progress(d)
      /\ \A d \in Writers : d = Holder => (Progress(d))' = Progress(d) + 1
  BY <1>2 DEF Progress
<1>4. /\ latest \in Callers /\ bus'[i] \in Callers
      /\ Progress(latest) \in Nat /\ Progress(bus'[i]) \in Nat
  BY <1>2, ProgressIsNumber DEF LimitsInv
<1>5. \A k, m \in 1..n :
        bus[m] = latest /\ bus[k] \in Writers \ {latest}
          => /\ k < m => Progress(bus[k]) >= Progress(latest)
             /\ m < k => Progress(bus[k]) > Progress(latest)
  BY DEF LimitsInv, LatestIsLast
<1> HIDE DEF n
<1>6. CASE i = n
  <2>1. /\ bus'[i] = Holder /\ Holder \in Writers /\ Holder # latest
    BY <1>2, <1>6
  <2>2. j \in 1..(n - 1) /\ j + 1 \in 1..n /\ 1 \in 1..n /\ 1 < j + 1 /\ j < i
    BY <1>1, <1>2, <1>6, <2>1
  <2>3. bus[j + 1] = latest
    BY <1>2, <2>2
  <2>4. Progress(Holder) >= Progress(latest)
    BY <1>1, <1>5, <2>1, <2>2, <2>3
  <2>5. /\ (Progress(bus[i]))' = Progress(bus'[i]) + 1
        /\ (Progress(latest))' = Progress(latest) /\ Progress(bus'[i]) = Progress(Holder)
    BY <1>3, <1>4, <2>1
  <2> QED
    BY <1>4, <2>2, <2>4, <2>5
<1>7. CASE j = n
  <2>1. latest = Holder /\ Holder \in Writers
    BY <1>2, <1>4, <1>7 DEF LimitsInv, LatestLives, TypeOK
  <2>2. i \in 1..(n - 1) /\ i + 1 \in 1..n /\ 1 \in 1..n /\ 1 < i + 1 /\ i < j
    BY <1>1, <1>2, <1>7, <2>1
  <2>3. bus[i + 1] = bus'[i] /\ bus'[i] # Holder
    BY <1>2, <2>2
  <2>4. Progress(bus'[i]) > Progress(latest)
    BY <1>1, <1>5, <2>1, <2>2, <2>3
  <2>5. (Progress(bus[i]))' = Progress(bus'[i]) /\ (Progress(latest))' = Progress(latest) + 1
    BY <1>3, <1>4, <2>1, <2>3
  <2> QED
    BY <1>4, <2>2, <2>4, <2>5
<1>8. CASE i # n /\ j # n
  <2>1. /\ i \in 1..(n - 1) /\ j \in 1..(n - 1) /\ i + 1 \in 1..n /\ j + 1 \in 1..n
        /\ (i < j => i + 1 < j + 1) /\ (j < i => j + 1 < i + 1)
    BY <1>1, <1>2, <1>8
  <2>2. bus[i + 1] = bus'[i] /\ bus'[i] # Holder /\ bus[j + 1] = latest /\ latest # Holder
    BY <1>2, <2>1
  <2>3. (Progress(bus[i]))' = Progress(bus'[i]) /\ (Progress(latest))' = Progress(latest)
    BY <1>3, <1>4, <2>2
  <2> QED
    BY <1>5, <2>1, <2>2, <2>3
<1> QED
  BY <1>6, <1>7, <1>8

(* A caller leaves the queue.                                              *)
LEMMA LeavingKeepsOrder ==
  ASSUME LimitsInv, bus # <<>>, Finish, UNCHANGED latest,
         fate' = "running" => fate = "running" /\ Holder # latest
  PROVE  LatestIsLast'
<1> SUFFICES ASSUME fate = "running", Holder # latest,
                    NEW i \in 1..Len(bus'), NEW j \in 1..Len(bus'),
                    bus'[j] = latest, bus'[i] \in Writers \ {latest}
             PROVE  /\ i < j => (Progress(bus[i]))' >= (Progress(latest))'
                    /\ j < i => (Progress(bus[i]))' > (Progress(latest))'
  BY DEF LatestIsLast
<1> DEFINE n == Len(bus)
<1>1. n \in Nat \ {0}
  BY HolderIsQueued
<1>2. /\ bus' \in Seq(Callers) /\ Len(bus') = n - 1
      /\ \A k \in 1..(n - 1) : bus'[k] = bus[k + 1] /\ bus[k + 1] # Holder
      /\ \A d \in Callers \ {Holder} : (call')[d] = call[d]
  BY QueueShrinks
<1>3. \A d \in Callers \ {Holder} : (Progress(d))' = Progress(d)
  BY <1>2 DEF Progress
<1>4. latest \in Callers /\ bus'[i] \in Callers
  BY <1>2
<1>5. \A k, m \in 1..n :
        bus[m] = latest /\ bus[k] \in Writers \ {latest}
          => /\ k < m => Progress(bus[k]) >= Progress(latest)
             /\ m < k => Progress(bus[k]) > Progress(latest)
  BY DEF LimitsInv, LatestIsLast
<1> HIDE DEF n
<1>6. /\ i \in 1..(n - 1) /\ j \in 1..(n - 1) /\ i + 1 \in 1..n /\ j + 1 \in 1..n
      /\ (i < j => i + 1 < j + 1) /\ (j < i => j + 1 < i + 1)
  BY <1>1, <1>2
<1>7. bus[i + 1] = bus'[i] /\ bus'[i] # Holder /\ bus[j + 1] = latest
  BY <1>2, <1>6
<1>8. (Progress(bus[i]))' = Progress(bus'[i]) /\ (Progress(latest))' = Progress(latest)
  BY <1>3, <1>4, <1>7
<1> QED
  BY <1>5, <1>6, <1>7, <1>8

(* The holder is the first in the queue: it is no further behind than the  *)
(* command that started last, and everyone else is ahead of that command   *)
(* once it is its turn.                                                    *)
LEMMA HolderIsAhead ==
  ASSUME LimitsInv, bus # <<>>, fate = "running"
  PROVE  /\ Holder \in Writers => Progress(Holder) >= Progress(latest)
         /\ Holder = latest
              => \A w \in Writers \ {Holder} : Writing(w) => Progress(w) > Progress(latest)
<1>1. /\ Len(bus) \in Nat \ {0} /\ Holder = bus[1] /\ Holder \in Callers
      /\ latest \in Writers /\ Writing(latest)
  BY HolderIsQueued DEF LimitsInv, LatestLives, TypeOK
<1>2. /\ Progress(latest) \in Nat
      /\ \A w \in Writers : Writing(w) => \E k \in 1..Len(bus) : bus[k] = w
  BY <1>1, ProgressIsNumber DEF LimitsInv, QueueIsExact, Callers
<1>3. ASSUME Holder \in Writers, Holder # latest
      PROVE  Progress(Holder) >= Progress(latest)
  <2>1. PICK j \in 1..Len(bus) : bus[j] = latest
    BY <1>1, <1>2
  <2>2. 1 \in 1..Len(bus) /\ 1 < j
    BY <1>1, <1>3, <2>1
  <2> QED
    BY <1>1, <1>3, <2>1, <2>2 DEF LimitsInv, LatestIsLast
<1>4. ASSUME Holder = latest, NEW w \in Writers \ {Holder}, Writing(w)
      PROVE  Progress(w) > Progress(latest)
  <2>1. PICK k \in 1..Len(bus) : bus[k] = w
    BY <1>2, <1>4
  <2>2. 1 \in 1..Len(bus) /\ 1 < k
    <3>1. k # 1
      BY <1>1, <1>4, <2>1
    <3> QED
      BY <1>1, <3>1
  <2> QED
    BY <1>1, <1>4, <2>1, <2>2 DEF LimitsInv, LatestIsLast
<1>5. Holder = latest => Progress(Holder) >= Progress(latest)
  BY <1>2
<1> QED
  BY <1>3, <1>4, <1>5

-----------------------------------------------------------------------------
(* A command ends, goes on or starts.                                      *)

(* A write reaches only ports the latest command has yet to write, and     *)
(* none once that command is confirmed.                                    *)
LEMMA WriteSpares ==
  ASSUME LimitsInv, bus # <<>>, Holder \in Writers,
         register' \in {register} \cup (IF Frame.phase = "write" THEN {Applied} ELSE {})
  PROVE  /\ register' \in [Ports -> Values]
         /\ fate = "running"
              => \A p \in Ports : p < Progress(latest) => register'[p] = call[latest].value
         /\ fate = "confirmed" => UNCHANGED register
<1>1. /\ Frame \in Call /\ Frame = call[Holder] /\ Writing(Holder)
      /\ register \in [Ports -> Values]
  BY HolderIsQueued DEF Frame, LimitsInv, TypeOK
<1>2. CASE UNCHANGED register
  BY <1>1, <1>2 DEF LimitsInv, LatestHolds
<1>3. CASE Frame.phase = "write" /\ register' = Applied
  <2>1. /\ Frame.port \in Ports /\ Frame.value \in Values
        /\ Progress(Holder) = Frame.port
    BY <1>1, <1>3 DEF Call, LimitsInv, WritersAreTyped, Progress, Number
  <2>2. /\ register' \in [Ports -> Values]
        /\ \A p \in Ports : p # Frame.port => register'[p] = register[p]
    BY <1>1, <1>3, <2>1 DEF Applied
  <2>3. fate # "confirmed"
    BY <1>1, <1>3 DEF LimitsInv, ConfirmedHolds
  <2>4. ASSUME fate = "running", NEW p \in Ports, p < Progress(latest)
        PROVE  register'[p] = call[latest].value
    <3>1. Progress(Holder) >= Progress(latest)
      BY <2>4, HolderIsAhead
    <3>2. Progress(latest) \in Nat
      BY <2>4, ProgressIsNumber DEF LimitsInv, LatestLives, TypeOK, Callers
    <3>3. p # Frame.port
      BY <2>1, <2>4, <3>1, <3>2 DEF Ports
    <3> QED
      BY <2>2, <2>4, <3>3 DEF LimitsInv, LatestHolds
  <2> QED
    BY <2>2, <2>3, <2>4
<1> QED
  BY <1>2, <1>3

LEMMA ConfirmPreserves ==
  ASSUME LimitsInv, bus # <<>>, Holder \in Writers, Confirm, register' \in [Ports -> Values],
         fate = "running"
           => \A p \in Ports : p < Progress(latest) => register'[p] = call[latest].value,
         Holder = latest => /\ \A p \in Ports : register'[p] = Frame.value
                            /\ \A w \in Writers \ {Holder} : call[w].phase # "write",
         fate = "confirmed" => \A p \in Ports : register'[p] = Frame.value
  PROVE  LimitsInv'
<1>1. /\ Frame \in Call /\ Writing(Holder) /\ Frame.value \in Values /\ Finish
      /\ Holder \in Callers
  BY HolderIsQueued DEF LimitsInv, WritersAreTyped, Frame, Confirm
<1>2. Holder = latest => fate = "running"
  BY <1>1 DEF LimitsInv, LatestLives, Writers
<1>3. /\ fate' = (IF Holder = latest THEN "confirmed" ELSE fate)
      /\ tainted' = (tainted /\ Holder # latest)
      /\ synchronized' = TRUE /\ lastConfirmed' = Frame.value
      /\ health' = [p \in Ports |-> [value |-> Frame.value, available |-> Frame.readback]]
      /\ UNCHANGED <<mode, validation, latest, link>>
  BY DEF Confirm
<1>4. /\ bus' \in Seq(Callers) /\ call' \in [Callers -> Call] /\ QueueIsExact'
      /\ (call')[Holder] = Idle /\ \A d \in Callers \ {Holder} : (call')[d] = call[d]
  BY <1>1, QueueShrinks
<1>5. TypeOK'
  <2>1. health' \in [Ports -> Health]
    BY <1>1, <1>3 DEF Health, Call
  <2>2. /\ lastConfirmed' \in Values \cup {None}
        /\ fate' \in {"none", "running", "confirmed", "failed"}
    BY <1>1, <1>3 DEF LimitsInv, TypeOK
  <2>3. tainted' \in BOOLEAN /\ synchronized' \in BOOLEAN
    BY <1>3
  <2> QED
    BY <1>3, <1>4, <2>1, <2>2, <2>3 DEF LimitsInv, TypeOK
<1>6. WritersAreTyped'
  BY <1>4 DEF LimitsInv, WritersAreTyped, Writing, Idle, Callers
<1>7. LatestLives'
  BY <1>3, <1>4 DEF LimitsInv, LatestLives, Writing, Idle, TypeOK, Callers
<1>8. LatestIsLast'
  BY <1>1, <1>3, LeavingKeepsOrder
<1>9. LatestHolds'
  BY <1>3, <1>4 DEF LimitsInv, LatestHolds, LatestLives, TypeOK, Callers, Progress
<1>10. ConfirmedHolds'
  <2>1. ASSUME fate' = "confirmed"
        PROVE  \A p \in Ports : register'[p] = Frame.value
    BY <1>3, <2>1
  <2>2. ASSUME fate' = "confirmed", NEW w \in Writers
        PROVE  (call')[w].phase # "write"
    BY <1>3, <1>4, <2>2 DEF LimitsInv, ConfirmedHolds, Idle, Callers
  <2> QED
    BY <1>3, <2>1, <2>2 DEF ConfirmedHolds
<1>11. Settled'
  <2>1. ASSUME ~tainted'
        PROVE  fate' = "confirmed"
    BY <1>1, <1>3, <2>1 DEF LimitsInv, Settled
  <2>2. ASSUME fate' = "confirmed"
        PROVE  KnownIsTrue'
    BY <1>3, <2>2 DEF KnownIsTrue
  <2> QED
    BY <2>1, <2>2 DEF Settled
<1> QED
  BY <1>4, <1>5, <1>6, <1>7, <1>8, <1>9, <1>10, <1>11 DEF LimitsInv

LEMMA FailPreserves ==
  ASSUME LimitsInv, bus # <<>>, Holder \in Writers, Fail, link' \in {"up", "down"},
         register' \in [Ports -> Values],
         fate = "running"
           => \A p \in Ports : p < Progress(latest) => register'[p] = call[latest].value,
         fate = "confirmed" => UNCHANGED register
  PROVE  LimitsInv'
<1>1. Writing(Holder) /\ Finish /\ Holder \in Callers
  BY HolderIsQueued DEF Fail
<1>2. Holder = latest => fate = "running"
  BY <1>1 DEF LimitsInv, LatestLives, Writers
<1>3. /\ fate' = (IF Holder = latest THEN "failed" ELSE fate)
      /\ synchronized' = FALSE
      /\ UNCHANGED <<mode, validation, lastConfirmed, health, latest, tainted>>
  BY DEF Fail, coordinatorVars
<1>4. /\ bus' \in Seq(Callers) /\ call' \in [Callers -> Call] /\ QueueIsExact'
      /\ (call')[Holder] = Idle /\ \A d \in Callers \ {Holder} : (call')[d] = call[d]
  BY <1>1, QueueShrinks
<1>5. TypeOK'
  <2>1. fate' \in {"none", "running", "confirmed", "failed"} /\ synchronized' \in BOOLEAN
    BY <1>3 DEF LimitsInv, TypeOK
  <2> QED
    BY <1>3, <1>4, <2>1 DEF LimitsInv, TypeOK
<1>6. WritersAreTyped'
  BY <1>4 DEF LimitsInv, WritersAreTyped, Writing, Idle, Callers
<1>7. LatestLives'
  BY <1>3, <1>4 DEF LimitsInv, LatestLives, Writing, Idle, TypeOK, Callers
<1>8. LatestIsLast'
  BY <1>1, <1>3, LeavingKeepsOrder
<1>9. LatestHolds'
  BY <1>3, <1>4 DEF LimitsInv, LatestHolds, LatestLives, TypeOK, Callers, Progress
<1>10. ConfirmedHolds'
  BY <1>3, <1>4 DEF LimitsInv, ConfirmedHolds, Idle, Callers
<1>11. Settled'
  <2>1. ASSUME ~tainted', NEW w \in Writers, Writing(w)'
        PROVE  w = latest' \/ fate' = "confirmed"
    <3>1. w # Holder
      BY <1>4, <2>1 DEF Writing, Idle
    <3>2. Writing(w)
      BY <1>4, <2>1, <3>1 DEF Writing, Callers
    <3> QED
      BY <1>1, <1>2, <1>3, <2>1, <3>1, <3>2 DEF LimitsInv, Settled
  <2> QED
    BY <1>3, <2>1 DEF Settled
<1> QED
  BY <1>4, <1>5, <1>6, <1>7, <1>8, <1>9, <1>10, <1>11 DEF LimitsInv

LEMMA ContinuingPreserves ==
  ASSUME LimitsInv, bus # <<>>, Holder \in Writers, register' \in [Ports -> Values],
         NEW frame \in Call, frame.phase # "idle", frame.value = Frame.value,
         Number(frame) = Progress(Holder) + 1, NextFrame(frame),
         fate = "running"
           => \A p \in Ports : p < Progress(latest) => register'[p] = call[latest].value,
         Holder = latest
           => \A p \in Ports : p = Progress(Holder) => register'[p] = Frame.value,
         fate = "confirmed" => UNCHANGED register /\ frame.phase # "write",
         UNCHANGED <<coordinatorVars, health, synchronized, link, historyVars>>
  PROVE  LimitsInv'
<1>1. Writing(Holder) /\ Holder \in Callers /\ Frame = call[Holder] /\ Frame \in Call
  BY HolderIsQueued DEF Frame
<1>2. Holder = latest => fate = "running"
  BY <1>1 DEF LimitsInv, LatestLives, Writers
<1>3. UNCHANGED <<mode, validation, lastConfirmed, health, synchronized, link, latest, fate,
                  tainted>>
  BY DEF coordinatorVars, historyVars
<1>4. /\ bus' \in Seq(Callers) /\ call' \in [Callers -> Call] /\ QueueIsExact'
      /\ (call')[Holder] = frame /\ \A d \in Callers \ {Holder} : (call')[d] = call[d]
  BY QueueRotates
<1>5. TypeOK'
  BY <1>3, <1>4 DEF LimitsInv, TypeOK
<1>6. \A d \in Callers : Writing(d)' <=> Writing(d)
  BY <1>1, <1>4 DEF Writing
<1>7. WritersAreTyped'
  <2>1. (call')[Refresh] = call[Refresh]
    BY <1>4 DEF Callers, Writers
  <2>2. ASSUME NEW w \in Writers, Writing(w)'
        PROVE  (call')[w].value \in Values
    <3>1. Writing(w) /\ (call')[w].value = call[w].value
      BY <1>1, <1>4, <1>6, <2>2 DEF Callers
    <3> QED
      BY <3>1 DEF LimitsInv, WritersAreTyped
  <2> QED
    BY <2>1, <2>2 DEF LimitsInv, WritersAreTyped
<1>8. LatestLives'
  BY <1>3, <1>6 DEF LimitsInv, LatestLives, TypeOK, Callers
<1>9. LatestIsLast'
  BY <1>3, RotationKeepsOrder
<1>10. LatestHolds'
  <2> SUFFICES ASSUME fate = "running", NEW p \in Ports, p < (Progress(latest))'
               PROVE  register'[p] = (call')[latest].value
    BY <1>3 DEF LatestHolds
  <2>1. latest \in Writers /\ Progress(latest) \in Nat
    BY ProgressIsNumber DEF LimitsInv, LatestLives, TypeOK, Callers
  <2>2. CASE Holder = latest
    <3>1. (Progress(latest))' = Progress(latest) + 1 /\ (call')[latest].value = Frame.value
      BY <1>3, <1>4, <2>2 DEF Progress
    <3> QED
      BY <1>1, <2>1, <2>2, <3>1 DEF Ports
  <2>3. CASE Holder # latest
    <3>1. (Progress(latest))' = Progress(latest) /\ (call')[latest] = call[latest]
      BY <1>3, <1>4, <2>1, <2>3 DEF Progress, Callers
    <3> QED
      BY <3>1
  <2> QED
    BY <2>2, <2>3
<1>11. ConfirmedHolds'
  BY <1>3, <1>4 DEF LimitsInv, ConfirmedHolds, Callers
<1>12. Settled'
  <2>1. ~tainted /\ fate # "running" => UNCHANGED register
    BY <1>1, <1>2 DEF LimitsInv, Settled
  <2> QED
    BY <1>3, <1>6, <2>1 DEF LimitsInv, Settled, KnownIsTrue, Callers
<1> QED
  BY <1>4, <1>5, <1>7, <1>8, <1>9, <1>10, <1>11, <1>12 DEF LimitsInv

LEMMA StartingPreserves ==
  ASSUME LimitsInv, NEW c \in Writers, NEW v \in Values, NEW readback \in BOOLEAN,
         StartWriting(c, v, readback)
  PROVE  LimitsInv'
<1> DEFINE frame == [phase |-> "write", port |-> 1, value |-> v, readback |-> readback,
                     agrees |-> TRUE]
<1>1. frame \in Call /\ Number(frame) = 1
  BY DEF Call, Ports, Number
<1>2. frame.phase = "write" /\ frame.value = v
  OBVIOUS
<1>3. /\ ~Writing(c) /\ Queue(c, frame) /\ latest' = c /\ fate' = "running"
      /\ tainted' = (tainted \/ \E w \in Writers : Writing(w))
      /\ UNCHANGED <<register, mode, validation, lastConfirmed, health, synchronized, link>>
  BY DEF StartWriting, coordinatorVars
<1> HIDE DEF frame
<1>4. /\ bus' \in Seq(Callers) /\ call' \in [Callers -> Call] /\ QueueIsExact'
      /\ Len(bus') = Len(bus) + 1 /\ bus'[Len(bus) + 1] = c
      /\ \A i \in 1..Len(bus) : bus'[i] = bus[i] /\ bus[i] # c
      /\ (call')[c] = frame /\ \A d \in Callers \ {c} : (call')[d] = call[d]
  BY <1>1, <1>2, <1>3, QueueGrows DEF Callers
<1>5. TypeOK'
  <2>1. tainted' \in BOOLEAN
    BY <1>3
  <2> QED
    BY <1>3, <1>4, <2>1 DEF LimitsInv, TypeOK
<1>6. WritersAreTyped'
  BY <1>2, <1>4 DEF LimitsInv, WritersAreTyped, Writing, Callers, Writers
<1>7. LatestLives'
  BY <1>2, <1>3, <1>4 DEF LatestLives, Writing, Writers
<1>8. \A d \in Callers : (Progress(d))' \in Nat /\ (Progress(d))' >= 1
  BY <1>4 DEF Progress, Number, Call, Ports
<1>9. \A d \in Writers : d = c => (Progress(d))' = 1
  BY <1>1, <1>4 DEF Progress
<1>10. LatestIsLast'
  <2> SUFFICES ASSUME NEW i \in 1..Len(bus'), NEW j \in 1..Len(bus'),
                      bus'[j] = c, bus'[i] \in Writers \ {c}
               PROVE  i < j /\ (Progress(bus[i]))' >= (Progress(latest))'
    BY <1>3 DEF LatestIsLast
  <2>1. Len(bus) \in Nat
    BY DEF LimitsInv, TypeOK
  <2>2. j = Len(bus) + 1 /\ i # Len(bus) + 1
    BY <1>4, <2>1
  <2>3. (Progress(bus[i]))' >= 1 /\ (Progress(latest))' = 1
    BY <1>3, <1>4, <1>8, <1>9
  <2> QED
    BY <1>4, <2>1, <2>2, <2>3
<1>11. LatestHolds'
  BY <1>3, <1>9 DEF LatestHolds, Ports
<1>12. ConfirmedHolds'
  BY <1>3 DEF ConfirmedHolds
<1>13. Settled'
  BY <1>3, <1>4 DEF Settled, Writing, Callers
<1> QED
  BY <1>4, <1>5, <1>6, <1>7, <1>10, <1>11, <1>12, <1>13 DEF LimitsInv

-----------------------------------------------------------------------------
(* The reader comes, goes on or leaves.                                    *)

LEMMA ReadingPreserves ==
  ASSUME LimitsInv, bus' \in Seq(Callers), call' \in [Callers -> Call], QueueIsExact',
         LatestIsLast', (call')[Refresh].phase # "write",
         \A w \in Writers : (call')[w] = call[w],
         link' \in {"up", "down"}, health' \in [Ports -> Health],
         \A p \in Ports : health'[p].available
           => \/ health'[p].value = register[p]
              \/ health'[p] = health[p],
         UNCHANGED <<register, coordinatorVars, synchronized, historyVars>>
  PROVE  LimitsInv'
<1>1. UNCHANGED <<register, mode, validation, lastConfirmed, synchronized, latest, fate,
                  tainted>>
  BY DEF coordinatorVars, historyVars
<1>2. TypeOK'
  BY <1>1 DEF LimitsInv, TypeOK
<1>3. \A w \in Writers : /\ Writing(w)' <=> Writing(w)
                         /\ (Progress(w))' = Progress(w)
  BY DEF Writing, Progress
<1>4. WritersAreTyped'
  BY <1>3 DEF LimitsInv, WritersAreTyped
<1>5. LatestLives'
  BY <1>1, <1>3 DEF LimitsInv, LatestLives, TypeOK
<1>6. LatestHolds'
  BY <1>1, <1>3 DEF LimitsInv, LatestHolds, LatestLives, TypeOK
<1>7. ConfirmedHolds'
  BY <1>1 DEF LimitsInv, ConfirmedHolds
<1>8. KnownIsTrue => KnownIsTrue'
  BY <1>1 DEF KnownIsTrue
<1>9. Settled'
  BY <1>1, <1>3, <1>8 DEF LimitsInv, Settled
<1> QED
  BY <1>2, <1>4, <1>5, <1>6, <1>7, <1>9 DEF LimitsInv

LEMMA ReaderIsTyped ==
  ASSUME LimitsInv, HolderRefreshes
  PROVE  /\ bus # <<>> /\ Holder = Refresh /\ Holder \notin Writers /\ Frame \in Call
         /\ Frame.phase = "read" /\ Frame.port \in Ports
<1>1. bus # <<>> /\ Holder = Refresh
  BY DEF HolderRefreshes
<1>2. Frame \in Call /\ Frame = call[Refresh] /\ Writing(Refresh)
  BY <1>1, HolderIsQueued DEF Frame
<1> QED
  BY <1>1, <1>2 DEF LimitsInv, WritersAreTyped, Writing, Call, Writers

LEMMA RefreshStartsPreserves ==
  ASSUME LimitsInv, RefreshStarts
  PROVE  LimitsInv'
<1> DEFINE frame == [Idle EXCEPT !.phase = "read"]
<1>1. frame \in Call /\ frame.phase = "read"
  <2>1. Idle \in Call
    BY DEF Idle, Call, Ports
  <2> QED
    BY <2>1 DEF Call
<1>2. ~Writing(Refresh) /\ Queue(Refresh, frame) /\ UNCHANGED <<latest, fate>>
  BY DEF RefreshStarts, historyVars
<1> HIDE DEF frame
<1>3. Refresh \in Callers /\ Refresh \notin Writers
  BY DEF Callers, Writers
<1>4. /\ bus' \in Seq(Callers) /\ call' \in [Callers -> Call] /\ QueueIsExact'
      /\ Len(bus') = Len(bus) + 1 /\ bus'[Len(bus) + 1] = Refresh
      /\ \A i \in 1..Len(bus) : bus'[i] = bus[i]
      /\ (call')[Refresh] = frame
      /\ \A w \in Writers : (call')[w] = call[w]
  BY <1>1, <1>2, <1>3, QueueGrows DEF Callers
<1>5. LatestIsLast'
  <2> SUFFICES ASSUME fate = "running",
                      NEW i \in 1..Len(bus'), NEW j \in 1..Len(bus'),
                      bus'[j] = latest, bus'[i] \in Writers \ {latest}
               PROVE  /\ i < j => (Progress(bus[i]))' >= (Progress(latest))'
                      /\ j < i => (Progress(bus[i]))' > (Progress(latest))'
    BY <1>2 DEF LatestIsLast
  <2>1. Len(bus) \in Nat /\ latest \in Writers
    BY DEF LimitsInv, TypeOK, LatestLives
  <2>2. i \in 1..Len(bus) /\ j \in 1..Len(bus)
    BY <1>3, <1>4, <2>1
  <2>3. bus'[i] = bus[i] /\ bus[j] = latest
    BY <1>4, <2>2
  <2>4. /\ (Progress(bus[i]))' = Progress(bus[i])
        /\ (Progress(latest))' = Progress(latest)
    BY <1>2, <1>4, <2>1, <2>3 DEF Progress
  <2> QED
    BY <2>2, <2>3, <2>4 DEF LimitsInv, LatestIsLast
<1> QED
  BY <1>1, <1>4, <1>5, ReadingPreserves DEF RefreshStarts, LimitsInv, TypeOK

LEMMA RefreshNextPreserves ==
  ASSUME LimitsInv, HolderRefreshes, RefreshNext \/ Finish,
         link' \in {"up", "down"}, health' \in [Ports -> Health],
         \A p \in Ports : health'[p].available
           => \/ health'[p].value = register[p]
              \/ health'[p] = health[p],
         UNCHANGED <<register, coordinatorVars, synchronized, historyVars>>
  PROVE  LimitsInv'
<1>1. /\ bus # <<>> /\ Holder = Refresh /\ Holder \notin Writers /\ Frame \in Call
      /\ Frame.phase = "read" /\ Frame.port \in Ports
  BY ReaderIsTyped
<1>2. UNCHANGED <<latest, fate>>
  BY DEF historyVars
<1>3. CASE Frame.port < NumPorts /\ NextFrame([Frame EXCEPT !.port = @ + 1])
  <2> DEFINE frame == [Frame EXCEPT !.port = @ + 1]
  <2>1. frame \in Call /\ frame.phase = "read" /\ NextFrame(frame)
    BY <1>1, <1>3 DEF Call, Ports
  <2> HIDE DEF frame
  <2>2. /\ bus' \in Seq(Callers) /\ call' \in [Callers -> Call] /\ QueueIsExact'
        /\ (call')[Refresh] = frame
        /\ \A w \in Writers : (call')[w] = call[w]
    BY <1>1, <2>1, QueueRotates DEF Callers
  <2>3. LatestIsLast'
    BY <1>1, <1>2, <2>1, RotationKeepsOrder
  <2> QED
    BY <2>1, <2>2, <2>3, ReadingPreserves
<1>4. CASE Finish
  <2>1. /\ bus' \in Seq(Callers) /\ call' \in [Callers -> Call] /\ QueueIsExact'
        /\ (call')[Refresh] = Idle
        /\ \A w \in Writers : (call')[w] = call[w]
    BY <1>1, <1>4, QueueShrinks DEF Callers
  <2>2. fate = "running" => Holder # latest
    BY <1>1 DEF LimitsInv, LatestLives, TypeOK
  <2>3. LatestIsLast'
    BY <1>1, <1>2, <1>4, <2>2, LeavingKeepsOrder
  <2> QED
    BY <2>1, <2>3, ReadingPreserves DEF Idle
<1> QED
  BY <1>3, <1>4 DEF RefreshNext

-----------------------------------------------------------------------------
(* Every step preserves the invariant.                                     *)

LEMMA InitEstablishes == Init => LimitsInv
<1> SUFFICES ASSUME Init
             PROVE  LimitsInv
  OBVIOUS
<1>1. Idle \in Call /\ Idle.phase = "idle"
  BY DEF Idle, Call, Ports
<1>2. bus \in Seq(Callers) /\ Len(bus) = 0
  BY DEF Init
<1>3. \A c \in Callers : call[c] = Idle
  BY DEF Init
<1>4. health \in [Ports -> Health] /\ \A p \in Ports : health[p].available = FALSE
  BY DEF Init, Unknown, Health
<1>5. TypeOK
  <2>1. call \in [Callers -> Call]
    BY <1>1 DEF Init
  <2> QED
    BY <1>2, <1>4, <2>1 DEF Init, TypeOK
<1>6. QueueIsExact
  BY <1>1, <1>2, <1>3 DEF QueueIsExact, Writing
<1>7. WritersAreTyped
  BY <1>1, <1>3 DEF WritersAreTyped, Writing, Callers
<1>8. LatestLives /\ LatestIsLast /\ LatestHolds /\ ConfirmedHolds
  BY DEF Init, LatestLives, LatestIsLast, LatestHolds, ConfirmedHolds
<1>9. Settled
  BY <1>1, <1>3, <1>4 DEF Init, Settled, KnownIsTrue, Writing, Callers
<1> QED
  BY <1>5, <1>6, <1>7, <1>8, <1>9 DEF LimitsInv

LEMMA StartsPreserve ==
  ASSUME LimitsInv, Starts
  PROVE  LimitsInv'
<1>1. ASSUME NEW c \in Sliders, ManualCommand(c)
      PROVE  LimitsInv'
  BY <1>1, StartingPreserves DEF ManualCommand, Writers
<1>2. CASE AutomaticCommand
  BY <1>2, StartingPreserves DEF AutomaticCommand, Writers
<1>3. CASE Takeover
  BY <1>3, StartingPreserves DEF Takeover, Writers
<1>4. CASE RefreshStarts
  BY <1>4, RefreshStartsPreserves
<1> QED
  BY <1>1, <1>2, <1>3, <1>4 DEF Starts

LEMMA FrameIsTyped ==
  ASSUME NEW frame \in Call, NEW port \in Ports
  PROVE  /\ [frame EXCEPT !.port = port] \in Call
         /\ [frame EXCEPT !.phase = "read", !.port = port] \in Call
         /\ \A agrees \in BOOLEAN : [frame EXCEPT !.port = port, !.agrees = agrees] \in Call
  BY DEF Call

LEMMA WriterIsTyped ==
  ASSUME LimitsInv, HolderWrites \/ HolderVerifies
  PROVE  /\ bus # <<>> /\ Holder \in Writers /\ Holder \in Callers /\ Writing(Holder)
         /\ Frame = call[Holder] /\ Frame \in Call
         /\ Frame.port \in Ports /\ Frame.value \in Values
<1>1. /\ bus # <<>> /\ Holder \in Callers /\ Holder # Refresh /\ Writing(Holder)
      /\ Frame = call[Holder] /\ Frame \in Call
  BY HolderIsQueued DEF HolderWrites, HolderVerifies, Frame
<1> QED
  BY <1>1 DEF LimitsInv, WritersAreTyped, Call, Callers

(* Once the latest command has but its last frame to go, the others only   *)
(* verify.                                                                 *)
LEMMA OthersVerify ==
  ASSUME LimitsInv, bus # <<>>, Holder \in Writers, Holder = latest,
         Progress(Holder) >= NumPorts, NEW w \in Writers \ {Holder}
  PROVE  call[w].phase # "write"
<1>1. fate = "running"
  BY HolderIsQueued DEF LimitsInv, LatestLives, Writers
<1>2. ASSUME call[w].phase = "write"
      PROVE  FALSE
  <2>1. Writing(w) /\ Progress(w) \in 1..NumPorts
    BY <1>2 DEF Writing, Progress, Number, LimitsInv, TypeOK, Call, Ports, Callers
  <2>2. Progress(w) > Progress(latest) /\ Progress(latest) \in Nat
    BY <1>1, <2>1, HolderIsAhead, ProgressIsNumber DEF LimitsInv, TypeOK, Callers
  <2> QED
    BY <2>1, <2>2
<1> QED
  BY <1>2

LEMMA AnswersPreserve ==
  ASSUME LimitsInv, Answered
  PROVE  LimitsInv'
<1>1. CASE WriteAcknowledged
  <2> DEFINE frame == IF Frame.port < NumPorts
                        THEN [Frame EXCEPT !.port = @ + 1]
                        ELSE [Frame EXCEPT !.phase = "read", !.port = 1]
  <2>1. /\ bus # <<>> /\ Holder \in Writers /\ Frame = call[Holder] /\ Frame \in Call
        /\ Frame.port \in Ports /\ Frame.value \in Values /\ Frame.phase = "write"
    BY <1>1, WriterIsTyped DEF WriteAcknowledged, HolderWrites
  <2>2. /\ frame \in Call /\ frame.phase # "idle" /\ frame.value = Frame.value
        /\ Number(frame) = Frame.port + 1
    <3>1. CASE Frame.port < NumPorts
      <4>1. frame = [Frame EXCEPT !.port = Frame.port + 1] /\ Frame.port + 1 \in Ports
        BY <2>1, <3>1 DEF Ports
      <4> HIDE DEF frame
      <4>2. /\ frame \in Call /\ frame.phase = "write" /\ frame.value = Frame.value
            /\ frame.port = Frame.port + 1
        BY <2>1, <4>1, FrameIsTyped DEF Call
      <4> QED
        BY <4>2 DEF Number
    <3>2. CASE ~(Frame.port < NumPorts)
      <4>1. /\ frame = [Frame EXCEPT !.phase = "read", !.port = 1] /\ 1 \in Ports
            /\ Frame.port = NumPorts
        BY <2>1, <3>2 DEF Ports
      <4> HIDE DEF frame
      <4>2. /\ frame \in Call /\ frame.phase = "read" /\ frame.value = Frame.value
            /\ frame.port = 1
        BY <2>1, <4>1, FrameIsTyped DEF Call
      <4> QED
        BY <4>1, <4>2 DEF Number
    <3> QED
      BY <3>1, <3>2
  <2>3. Progress(Holder) = Frame.port
    BY <2>1 DEF Progress, Number
  <2>4. register' = Applied /\ NextFrame(frame)
    BY <1>1 DEF WriteAcknowledged
  <2> HIDE DEF frame
  <2>5. \A p \in Ports : p = Progress(Holder) => register'[p] = Frame.value
    BY <2>1, <2>3, <2>4 DEF Applied, LimitsInv, TypeOK
  <2>6. fate # "confirmed"
    BY <2>1 DEF LimitsInv, ConfirmedHolds
  <2> QED
    BY <1>1, <2>1, <2>2, <2>3, <2>4, <2>5, <2>6, WriteSpares, ContinuingPreserves
       DEF WriteAcknowledged
<1>2. CASE LastWriteAcknowledged
  <2>1. /\ bus # <<>> /\ Holder \in Writers /\ Frame = call[Holder] /\ Frame \in Call
        /\ Frame.port = NumPorts /\ Frame.value \in Values /\ Frame.phase = "write"
    BY <1>2, WriterIsTyped DEF LastWriteAcknowledged, HolderWrites
  <2>2. Progress(Holder) = NumPorts
    BY <2>1 DEF Progress, Number
  <2>3. register' = Applied /\ Confirm
    BY <1>2 DEF LastWriteAcknowledged
  <2>4. fate # "confirmed"
    BY <2>1 DEF LimitsInv, ConfirmedHolds
  <2>5. ASSUME Holder = latest, NEW p \in Ports
        PROVE  register'[p] = Frame.value
    <3>1. fate = "running"
      BY <2>1, <2>5, HolderIsQueued DEF LimitsInv, LatestLives, Writers
    <3>2. CASE p = NumPorts
      BY <2>1, <2>3, <3>2 DEF Applied, LimitsInv, TypeOK
    <3>3. CASE p # NumPorts
      <4>1. p < Progress(latest)
        BY <2>2, <2>5, <3>3 DEF Ports
      <4> QED
        BY <2>1, <2>3, <2>5, <3>1, <4>1, WriteSpares
    <3> QED
      BY <3>2, <3>3
  <2>6. Holder = latest => \A w \in Writers \ {Holder} : call[w].phase # "write"
    BY <2>1, <2>2, OthersVerify
  <2> QED
    BY <2>1, <2>3, <2>4, <2>5, <2>6, WriteSpares, ConfirmPreserves
<1>3. CASE ReadbackAnswered
  <2> DEFINE frame == [Frame EXCEPT !.port = @ + 1, !.agrees = Agrees]
  <2>1. /\ bus # <<>> /\ Holder \in Writers /\ Frame = call[Holder] /\ Frame \in Call
        /\ Frame.port \in Ports /\ Frame.value \in Values /\ Frame.phase = "read"
        /\ Frame.port < NumPorts
    BY <1>3, WriterIsTyped DEF ReadbackAnswered, HolderVerifies
  <2>2. Agrees \in BOOLEAN
    BY DEF Agrees
  <2>3. /\ frame \in Call /\ frame.phase = "read" /\ frame.value = Frame.value
        /\ Number(frame) = NumPorts + Frame.port + 1
    <3>1. Frame.port + 1 \in Ports
      BY <2>1 DEF Ports
    <3>2. /\ frame \in Call /\ frame.phase = "read" /\ frame.value = Frame.value
          /\ frame.port = Frame.port + 1
      BY <2>1, <2>2, <3>1, FrameIsTyped DEF Call
    <3> QED
      BY <2>1, <3>2 DEF Number, Ports
  <2>4. Progress(Holder) = NumPorts + Frame.port
    BY <2>1 DEF Progress, Number
  <2>5. UNCHANGED register /\ NextFrame(frame)
    BY <1>3 DEF ReadbackAnswered
  <2> HIDE DEF frame
  <2>6. \A p \in Ports : p # Progress(Holder)
    BY <2>1, <2>4 DEF Ports
  <2>7. NumPorts + Frame.port + 1 = Progress(Holder) + 1
    BY <2>4
  <2> QED
    BY <1>3, <2>1, <2>3, <2>5, <2>6, <2>7, WriteSpares, ContinuingPreserves
       DEF ReadbackAnswered
<1>4. CASE LastReadbackAnswered
  <2>1. /\ bus # <<>> /\ Holder \in Writers /\ Frame = call[Holder] /\ Frame \in Call
        /\ Frame.port = NumPorts /\ Frame.value \in Values /\ Frame.phase = "read"
    BY <1>4, WriterIsTyped DEF LastReadbackAnswered, HolderVerifies
  <2>2. Progress(Holder) = NumPorts + NumPorts
    BY <2>1 DEF Progress, Number
  <2>3. UNCHANGED register
    BY <1>4 DEF LastReadbackAnswered
  <2>4. CASE Agrees
    <3>1. Confirm
      BY <1>4, <2>4 DEF LastReadbackAnswered
    <3>2. register[NumPorts] = Frame.value
      BY <2>1, <2>4 DEF Agrees
    <3>3. fate = "confirmed" => \A p \in Ports : register[p] = Frame.value
      BY <3>2 DEF LimitsInv, ConfirmedHolds, Ports
    <3>4. ASSUME Holder = latest, NEW p \in Ports
          PROVE  register[p] = Frame.value
      <4>1. fate = "running"
        BY <2>1, <3>4, HolderIsQueued DEF LimitsInv, LatestLives, Writers
      <4>2. p < Progress(latest)
        BY <2>2, <3>4 DEF Ports
      <4> QED
        BY <2>1, <3>4, <4>1, <4>2 DEF LimitsInv, LatestHolds
    <3>5. Holder = latest => \A w \in Writers \ {Holder} : call[w].phase # "write"
      BY <2>1, <2>2, OthersVerify
    <3> QED
      BY <2>1, <2>3, <3>1, <3>3, <3>4, <3>5, WriteSpares, ConfirmPreserves
  <2>5. CASE ~Agrees
    <3>1. Fail /\ UNCHANGED link
      BY <1>4, <2>5 DEF LastReadbackAnswered
    <3> QED
      BY <2>1, <2>3, <3>1, WriteSpares, FailPreserves DEF LimitsInv, TypeOK
  <2> QED
    BY <2>4, <2>5
<1>5. CASE RefreshAnswered
  <2>1. Frame.port \in Ports /\ HolderRefreshes
    BY <1>5, ReaderIsTyped DEF RefreshAnswered
  <2>2. /\ health' \in [Ports -> Health]
        /\ \A p \in Ports : health'[p].available
             => health'[p].value = register[p] \/ health'[p] = health[p]
    BY <1>5, <2>1 DEF RefreshAnswered, LimitsInv, TypeOK, Health
  <2> QED
    BY <1>5, <2>1, <2>2, RefreshNextPreserves DEF RefreshAnswered
<1> QED
  BY <1>1, <1>2, <1>3, <1>4, <1>5 DEF Answered

LEMMA FailuresPreserve ==
  ASSUME LimitsInv, Failed
  PROVE  LimitsInv'
<1>1. CASE CommandFrameFails
  <2>1. bus # <<>> /\ Holder \in Writers /\ Fail
    BY <1>1, WriterIsTyped DEF CommandFrameFails
  <2>2. /\ link' \in {"up", "down"}
        /\ register' \in {register} \cup (IF Frame.phase = "write" THEN {Applied} ELSE {})
    BY <1>1 DEF CommandFrameFails, Rejected, Lost, Refused, PerhapsApplied, LimitsInv, TypeOK
  <2> QED
    BY <2>1, <2>2, WriteSpares, FailPreserves
<1>2. CASE RefreshFrameRejected
  <2>1. /\ Frame.port \in Ports /\ Frame.phase = "read" /\ HolderRefreshes /\ RefreshNext
        /\ UNCHANGED <<coordinatorVars, synchronized, historyVars>>
    BY <1>2, ReaderIsTyped DEF RefreshFrameRejected
  <2>2. link' \in {"up", "down"} /\ UNCHANGED register
    BY <1>2, <2>1 DEF RefreshFrameRejected, Rejected, PerhapsApplied, LimitsInv, TypeOK
  <2>3. health' = [health EXCEPT ![Frame.port].available = FALSE]
    BY <1>2 DEF RefreshFrameRejected
  <2>4. \A p \in Ports : health[p] \in Health
    BY DEF LimitsInv, TypeOK
  <2>5. [health[Frame.port] EXCEPT !.available = FALSE] \in Health
    BY <2>1, <2>4 DEF Health
  <2>6. health' \in [Ports -> Health]
    BY <2>3, <2>5 DEF LimitsInv, TypeOK
  <2>7. \A p \in Ports : health'[p].available
          => health'[p].value = register[p] \/ health'[p] = health[p]
    <3> SUFFICES ASSUME NEW p \in Ports, health'[p] # health[p]
                 PROVE  health'[p].available = FALSE
      OBVIOUS
    <3>1. p = Frame.port
      BY <2>3 DEF LimitsInv, TypeOK
    <3> QED
      BY <2>1, <2>3, <2>4, <3>1 DEF LimitsInv, TypeOK, Health
  <2> QED
    BY <2>1, <2>2, <2>6, <2>7, RefreshNextPreserves
<1>3. CASE RefreshFrameFails
  <2>1. /\ Frame.port \in Ports /\ Frame.phase = "read" /\ HolderRefreshes /\ Finish
        /\ UNCHANGED <<coordinatorVars, synchronized, historyVars>>
    BY <1>3, ReaderIsTyped DEF RefreshFrameFails
  <2>2. link' \in {"up", "down"} /\ UNCHANGED register
    BY <1>3, <2>1 DEF RefreshFrameFails, Lost, Refused, PerhapsApplied, LimitsInv, TypeOK
  <2>3. health' = [p \in Ports |-> IF p >= Frame.port
                                     THEN [health[p] EXCEPT !.available = FALSE]
                                     ELSE health[p]]
    BY <1>3 DEF RefreshFrameFails
  <2>4. \A p \in Ports : health[p] \in Health
    BY DEF LimitsInv, TypeOK
  <2>5. \A p \in Ports : /\ [health[p] EXCEPT !.available = FALSE] \in Health
                         /\ [health[p] EXCEPT !.available = FALSE].available = FALSE
    BY <2>4 DEF Health
  <2>6. \A p \in Ports : \/ health'[p] = health[p]
                         \/ health'[p] \in Health /\ health'[p].available = FALSE
    BY <2>3, <2>5
  <2>7. health' \in [Ports -> Health]
    BY <2>3, <2>4, <2>5
  <2> QED
    BY <2>1, <2>2, <2>6, <2>7, RefreshNextPreserves
<1> QED
  BY <1>1, <1>2, <1>3 DEF Failed

(* Nothing moves in the queue.                                             *)
LEMMA IdlePreserves ==
  ASSUME LimitsInv, link' \in {"up", "down"}, mode' \in {"Disabled", "Production"},
         UNCHANGED <<register, validation, lastConfirmed, health, synchronized, bus, call,
                     historyVars>>
  PROVE  LimitsInv'
<1>1. UNCHANGED <<register, validation, lastConfirmed, health, synchronized, bus, call, latest,
                  fate, tainted>>
  BY DEF historyVars
<1>2. TypeOK'
  BY <1>1 DEF LimitsInv, TypeOK
<1>3. QueueIsExact' /\ WritersAreTyped' /\ LatestLives'
  BY <1>1 DEF LimitsInv, QueueIsExact, WritersAreTyped, LatestLives, Writing
<1>4. LatestIsLast' /\ LatestHolds'
  BY <1>1 DEF LimitsInv, LatestIsLast, LatestHolds, Progress, Number
<1>5. ConfirmedHolds' /\ Settled'
  BY <1>1 DEF LimitsInv, ConfirmedHolds, Settled, KnownIsTrue, Writing
<1> QED
  BY <1>2, <1>3, <1>4, <1>5 DEF LimitsInv

LEMMA RestartPreserves ==
  ASSUME LimitsInv, Restart
  PROVE  LimitsInv'
<1>1. /\ register' \in {register} \cup (IF HolderWrites THEN {Applied} ELSE {})
      /\ validation' \in {"Strict", "Compatibility"}
      /\ health' = [p \in Ports |-> Unknown]
      /\ synchronized' = TRUE /\ link' = "up" /\ bus' = <<>>
      /\ call' = [c \in Callers |-> Idle]
      /\ latest' = None /\ fate' = "none"
      /\ tainted' = (tainted \/ ~synchronized \/ \E w \in Writers : Writing(w))
      /\ UNCHANGED <<mode, lastConfirmed>>
  BY DEF Restart
<1>2. Idle \in Call /\ Idle.phase = "idle"
  BY DEF Idle, Call, Ports
<1>3. bus' \in Seq(Callers) /\ Len(bus') = 0
  BY <1>1
<1>4. \A c \in Callers : (call')[c] = Idle
  BY <1>1
<1>5. /\ health' \in [Ports -> Health]
      /\ \A p \in Ports : health'[p].available = FALSE
  BY <1>1 DEF Unknown, Health
<1>6. register' \in [Ports -> Values] /\ (~HolderWrites => register' = register)
  <2>1. CASE HolderWrites
    <3>1. bus # <<>> /\ Holder \in Writers /\ Frame.phase = "write"
      BY <2>1, WriterIsTyped DEF HolderWrites
    <3> QED
      BY <1>1, <2>1, <3>1, WriteSpares
  <2>2. CASE ~HolderWrites
    BY <1>1, <2>2 DEF LimitsInv, TypeOK
  <2> QED
    BY <2>1, <2>2
<1>7. TypeOK'
  <2>1. call' \in [Callers -> Call]
    BY <1>1, <1>2
  <2>2. tainted' \in BOOLEAN
    BY <1>1
  <2> QED
    BY <1>1, <1>3, <1>5, <1>6, <2>1, <2>2 DEF LimitsInv, TypeOK
<1>8. QueueIsExact' /\ WritersAreTyped'
  BY <1>2, <1>3, <1>4 DEF QueueIsExact, WritersAreTyped, Writing, Callers
<1>9. LatestLives' /\ LatestIsLast' /\ LatestHolds' /\ ConfirmedHolds'
  BY <1>1 DEF LatestLives, LatestIsLast, LatestHolds, ConfirmedHolds
<1>10. Settled'
  <2> SUFFICES ASSUME ~tainted'
               PROVE  /\ \A w \in Writers : ~Writing(w)'
                      /\ KnownIsTrue'
    BY <1>1 DEF Settled
  <2>1. ~tainted /\ synchronized /\ \A w \in Writers : ~Writing(w)
    BY <1>1
  <2>2. ~HolderWrites /\ fate # "running"
    BY <2>1, WriterIsTyped DEF LimitsInv, LatestLives, TypeOK
  <2>3. KnownIsTrue'
    BY <1>1, <1>5, <1>6, <2>1, <2>2 DEF LimitsInv, Settled, KnownIsTrue
  <2>4. \A w \in Writers : ~Writing(w)'
    BY <1>2, <1>4 DEF Writing, Callers
  <2> QED
    BY <2>3, <2>4
<1> QED
  BY <1>7, <1>8, <1>9, <1>10 DEF LimitsInv

LEMMA StepPreserves == LimitsInv /\ [Next]_vars => LimitsInv'
<1> SUFFICES ASSUME LimitsInv, [Next]_vars
             PROVE  LimitsInv'
  OBVIOUS
<1>1. CASE Starts
  BY <1>1, StartsPreserve
<1>2. CASE Answered
  BY <1>2, AnswersPreserve
<1>3. CASE Failed
  BY <1>3, FailuresPreserve
<1>4. CASE BackoffElapses
  BY <1>4, IdlePreserves DEF BackoffElapses, coordinatorVars, LimitsInv, TypeOK
<1>5. CASE SelectMode
  BY <1>5, IdlePreserves DEF SelectMode, LimitsInv, TypeOK
<1>6. CASE Restart
  BY <1>6, RestartPreserves
<1>7. CASE UNCHANGED vars
  BY <1>7, IdlePreserves DEF vars, coordinatorVars, LimitsInv, TypeOK
<1> QED
  BY <1>1, <1>2, <1>3, <1>4, <1>5, <1>6, <1>7 DEF Next

LEMMA Invariance == Spec => []LimitsInv
  BY InitEstablishes, StepPreserves, PTL DEF Spec

-----------------------------------------------------------------------------
(* Registers, health, queue and calls keep their types; a frame addresses  *)
(* a port of the DTU and carries a limit.                                  *)
THEOREM LimitsTypes == Spec => []TypeOK
<1>1. LimitsInv => TypeOK
  BY DEF LimitsInv
<1> QED
  BY <1>1, Invariance, PTL

(* However many commands overlap, fail and interleave frame by frame: when *)
(* the one that started last was confirmed and nothing writes any more,    *)
(* all ports hold its limit, which is the one remembered.                  *)
THEOREM LatestCommandWins == Spec => []LatestWriterWins
<1>1. LimitsInv => LatestWriterWins
  BY DEF LimitsInv, ConfirmedHolds, LatestWriterWins
<1> QED
  BY <1>1, Invariance, PTL

(* The limit corrections start from is the limit every port applies, in    *)
(* both validation modes, unless the ports are uncertain, commands         *)
(* overlapped or a restart forgot the uncertainty.                         *)
THEOREM EffectiveLimitHolds == Spec => []EffectiveLimitIsTrue
<1>1. ASSUME LimitsInv, NoWriter, synchronized, ~tainted, EffectiveLimit # None,
             NEW p \in Ports
      PROVE  register[p] = EffectiveLimit
  <2>1. fate # "running" /\ KnownIsTrue
    BY <1>1 DEF LimitsInv, LatestLives, Settled, NoWriter, TypeOK
  <2>2. 1 \in Ports
    BY DEF Ports
  <2> QED
    BY <1>1, <2>1, <2>2 DEF KnownIsTrue, EffectiveLimit, Fresh
<1>2. LimitsInv => EffectiveLimitIsTrue
  BY <1>1 DEF EffectiveLimitIsTrue
<1> QED
  BY <1>2, Invariance, PTL

(* No automatic correction builds on ports a failed command left different,*)
(* under the same exceptions.                                              *)
THEOREM AutomaticFindsAgreement == Spec => AutomaticStartsFromAgreement
<1>1. ASSUME LimitsInv, AutomaticCommand, ~tainted'
      PROVE  PortsAgree
  <2>1. ~tainted /\ \A w \in Writers : ~Writing(w)
    BY <1>1 DEF AutomaticCommand, StartWriting
  <2>2. fate # "running" /\ synchronized
    BY <1>1, <2>1 DEF LimitsInv, LatestLives, TypeOK, AutomaticCommand, AutomaticWriteAllowed
  <2>3. KnownIsTrue /\ (Fresh \/ lastConfirmed # None) /\ 1 \in Ports
    BY <1>1, <2>1, <2>2
       DEF LimitsInv, Settled, AutomaticCommand, AutomaticWriteAllowed, Ports
  <2> QED
    BY <2>3 DEF KnownIsTrue, Fresh, PortsAgree
<1>2. LimitsInv /\ [Next]_vars => [AutomaticCommand /\ ~tainted' => PortsAgree]_vars
  BY <1>1
<1> QED
  BY <1>2, Invariance, PTL DEF Spec, AutomaticStartsFromAgreement

(* Only a command that made the ports agree ends their uncertainty, under  *)
(* the same exceptions.                                                    *)
THEOREM UncertaintyNeedsACommand == Spec => PartialFailureStaysUncertain
<1>1. ASSUME LimitsInv, LimitsInv', [Next]_vars, ~synchronized, synchronized', ~tainted'
      PROVE  PortsAgree'
  <2>1. (HolderWrites \/ HolderVerifies) /\ Confirm
    <3>1. CASE Starts
      BY <1>1, <3>1 DEF Starts, ManualCommand, AutomaticCommand, Takeover, RefreshStarts,
                        StartWriting
    <3>2. CASE Answered
      BY <1>1, <3>2 DEF Answered, WriteAcknowledged, LastWriteAcknowledged, ReadbackAnswered,
                        LastReadbackAnswered, RefreshAnswered, Fail
    <3>3. CASE Failed
      BY <1>1, <3>3 DEF Failed, CommandFrameFails, RefreshFrameRejected, RefreshFrameFails,
                        Fail
    <3>4. CASE BackoffElapses \/ SelectMode \/ UNCHANGED vars
      BY <1>1, <3>4 DEF BackoffElapses, SelectMode, vars
    <3>5. CASE Restart
      BY <1>1, <3>5 DEF Restart
    <3> QED
      BY <1>1, <3>1, <3>2, <3>3, <3>4, <3>5 DEF Next
  <2>2. Holder \in Writers /\ Writing(Holder) /\ Frame.value \in Values
    BY <1>1, <2>1, WriterIsTyped
  <2>3. fate' = "confirmed"
    BY <1>1, <2>1, <2>2 DEF Confirm, LimitsInv, Settled
  <2>4. (\A p \in Ports : register[p] = lastConfirmed)'
    BY <1>1, <2>3 DEF LimitsInv, ConfirmedHolds
  <2>5. 1 \in Ports
    BY DEF Ports
  <2> QED
    BY <2>4, <2>5 DEF PortsAgree
<1>2. LimitsInv /\ LimitsInv' /\ [Next]_vars
        => [~synchronized /\ synchronized' /\ ~tainted' => PortsAgree']_vars
  BY <1>1
<1> QED
  BY <1>2, Invariance, StepPreserves, PTL DEF Spec, PartialFailureStaysUncertain

=============================================================================
