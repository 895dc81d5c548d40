---------------------------- MODULE Lifetimes_proofs ----------------------------
(***************************************************************************)
(* One life at a time, the stored configuration and the stored events, for *)
(* any limits, sizes of the history and numbers of changes.                *)
(***************************************************************************)
EXTENDS Lifetimes, TLAPS

(***************************************************************************)
(* The invariant of one history.                                           *)
(***************************************************************************)
Increasing(s) == \A i, j \in 1..Len(s) : i < j => s[i] < s[j]
Below(s, t) == \A i \in 1..Len(s), j \in 1..Len(t) : s[i] < t[j]
UpToNow(s, h) == \A i \in 1..Len(s) : s[i] <= h.queued

\* Stored, with the thread and queued, the events are in the order of their numbers.
InOrder(h) ==
    /\ Increasing(h.stored) /\ Increasing(h.queue) /\ Increasing(h.batch)
    /\ UpToNow(h.stored, h) /\ UpToNow(h.queue, h) /\ UpToNow(h.batch, h)
    /\ Below(h.stored, h.queue) /\ Below(h.batch, h.queue)
    /\ h.thread = "writing" => Below(h.stored, h.batch)

\* What is written and what is queued add up.
AddsUp(h) ==
    /\ h.written <= Len(h.stored)
    /\ h.thread = "ok" => h.written + Len(h.batch) <= Len(h.stored)
    /\ IsRunning(h) /\ h.errors = 0 =>
           /\ h.thread \in {"idle", "writing"} =>
                  h.queued = Len(h.stored) + Len(h.batch) + Len(h.queue)
           /\ h.thread = "ok" => h.queued = Len(h.stored) + Len(h.queue)

HistoryInv(h) ==
    /\ h \in Histories
    /\ Len(h.queue) <= QueueSize /\ Len(h.batch) <= BatchSize
    /\ h.worker = "writing" <=> (IsRunning(h) /\ h.thread # "idle")
    /\ h.thread = "idle" => h.batch = <<>>
    /\ InOrder(h) /\ AddsUp(h)

(***************************************************************************)
(* Each operation of the history keeps it.                                 *)
(***************************************************************************)
LEMMA Parts ==
    ASSUME NEW s \in Seq(Nat), NEW m \in 1..(Len(s) + 1), NEW n \in 0..Len(s)
    PROVE  /\ SubSeq(s, m, n) \in Seq(Nat)
           /\ Len(SubSeq(s, m, n)) = IF m <= n THEN n - m + 1 ELSE 0
           /\ \A i \in 1..Len(SubSeq(s, m, n)) : SubSeq(s, m, n)[i] = s[m + i - 1]
OBVIOUS

LEMMA Joined ==
    ASSUME NEW s \in Seq(Nat), NEW t \in Seq(Nat)
    PROVE  /\ s \o t \in Seq(Nat) /\ Len(s \o t) = Len(s) + Len(t)
           /\ \A i \in 1..Len(s) : (s \o t)[i] = s[i]
           /\ \A i \in 1..Len(s \o t) : i > Len(s) => (s \o t)[i] = t[i - Len(s)]
OBVIOUS

LEMMA OneMore ==
    \A a, b, c, d \in Nat : a = b + c + d => a + 1 = b + c + (d + 1)
OBVIOUS

LEMMA OneMoreOfTwo ==
    \A a, b, d \in Nat : a = b + d => a + 1 = b + (d + 1)
OBVIOUS

LEMMA Moved ==
    \A a, b, d \in Nat : a = b + 0 + d => \A c \in Nat : c <= d => a = b + c + (d - c)
OBVIOUS

LEMMA FieldTypes ==
    ASSUME NEW h \in Histories
    PROVE  /\ h.queue \in Seq(Nat) /\ h.batch \in Seq(Nat) /\ h.stored \in Seq(Nat)
           /\ h.queued \in Nat /\ h.written \in Nat /\ h.errors \in Nat
           /\ Len(h.queue) \in Nat /\ Len(h.batch) \in Nat /\ Len(h.stored) \in Nat
           /\ \A n \in 1..Len(h.queue) : h.queue[n] \in Nat
           /\ \A n \in 1..Len(h.batch) : h.batch[n] \in Nat
           /\ \A n \in 1..Len(h.stored) : h.stored[n] \in Nat
<1>1. h.queue \in Seq(Nat) /\ h.batch \in Seq(Nat) /\ h.stored \in Seq(Nat)
      /\ h.queued \in Nat /\ h.written \in Nat /\ h.errors \in Nat
  BY DEF Histories
<1> QED
  BY <1>1

LEMMA NewKept ==
    ASSUME NEW enabled \in BOOLEAN
    PROVE  HistoryInv(NewHistory(enabled)) /\ NewHistory(enabled).enabled = enabled
<1> DEFINE h == NewHistory(enabled)
<1>1. h \in Histories
  BY DEF NewHistory, Histories
<1>2. h.queue = <<>> /\ h.batch = <<>> /\ h.stored = <<>> /\ h.worker = "none"
      /\ h.thread = "idle" /\ h.written = 0 /\ h.queued = 0 /\ h.enabled = enabled
  BY DEF NewHistory
<1> HIDE DEF h
<1>3. InOrder(h) /\ AddsUp(h)
  BY <1>1, <1>2 DEF InOrder, AddsUp, Increasing, Below, UpToNow, IsRunning
<1>4. Len(h.queue) <= QueueSize /\ Len(h.batch) <= BatchSize
  BY <1>2, HistoryAssumption
<1> QED
  BY <1>1, <1>2, <1>3, <1>4 DEF HistoryInv, h, IsRunning

LEMMA StartedKept ==
    ASSUME NEW h, HistoryInv(h), h = NewHistory(h.enabled), NEW prepared \in BOOLEAN
    PROVE  HistoryInv(Started(h, prepared)) /\ Started(h, prepared).enabled = h.enabled
<1> DEFINE k == Started(h, prepared)
<1>1. h \in Histories /\ h.queue = <<>> /\ h.batch = <<>> /\ h.stored = <<>>
      /\ h.worker = "none" /\ h.thread = "idle" /\ h.written = 0 /\ h.queued = 0
  BY DEF HistoryInv, NewHistory
<1>2. /\ k \in Histories /\ k.enabled = h.enabled
      /\ k.queue = <<>> /\ k.batch = <<>> /\ k.stored = <<>>
      /\ k.worker \in {"none", "waiting"} /\ k.thread = "idle"
      /\ k.written = 0 /\ k.queued = 0
  <2>0. h.errors + 1 \in Nat
    BY <1>1, FieldTypes
  <2>1. CASE k = h
    BY <1>1, <2>1
  <2>2. CASE k = [h EXCEPT !.worker = "waiting", !.stopping = FALSE]
    <3>1. k \in Histories
      BY <1>1, <2>2 DEF Histories
    <3> QED
      BY <1>1, <2>2, <3>1 DEF Histories
  <2>3. CASE k = [h EXCEPT !.errors = @ + 1]
    <3>1. k \in Histories
      BY <1>1, <2>0, <2>3 DEF Histories
    <3> QED
      BY <1>1, <2>3, <3>1 DEF Histories
  <2> QED
    BY <2>1, <2>2, <2>3 DEF Started
<1> HIDE DEF k
<1>3. InOrder(k) /\ AddsUp(k)
  BY <1>2 DEF InOrder, AddsUp, Increasing, Below, UpToNow, IsRunning
<1>4. Len(k.queue) <= QueueSize /\ Len(k.batch) <= BatchSize
  BY <1>2, HistoryAssumption
<1> QED
  BY <1>2, <1>3, <1>4 DEF HistoryInv, k, IsRunning

LEMMA RecordedKept ==
    ASSUME NEW h, HistoryInv(h)
    PROVE  /\ HistoryInv(Recorded(h)) /\ Recorded(h).enabled = h.enabled
           /\ Recorded(h).queued \in {h.queued, h.queued + 1}
<1>1. CASE ~h.enabled \/ h.stopping
  BY <1>1 DEF Recorded, HistoryInv, Histories
<1>2. CASE ~(~h.enabled \/ h.stopping) /\ ~(Len(h.queue) < QueueSize)
  <2> DEFINE k == [h EXCEPT !.dropped = TRUE]
  <2>1. k = Recorded(h)
    BY <1>2 DEF Recorded
  <2>2. k \in Histories /\ h \in Histories
    BY DEF HistoryInv, Histories
  <2>3. k.queue = h.queue /\ k.batch = h.batch /\ k.stored = h.stored /\ k.worker = h.worker
        /\ k.thread = h.thread /\ k.written = h.written /\ k.queued = h.queued
        /\ k.enabled = h.enabled /\ k.errors = h.errors
    BY <2>2 DEF Histories
  <2> HIDE DEF k
  <2>4. InOrder(k) /\ AddsUp(k)
    BY <2>3 DEF HistoryInv, InOrder, AddsUp, Increasing, Below, UpToNow, IsRunning
  <2> QED
    BY <2>1, <2>2, <2>3, <2>4 DEF HistoryInv, IsRunning
<1>3. CASE ~(~h.enabled \/ h.stopping) /\ Len(h.queue) < QueueSize
  <2> DEFINE k == [h EXCEPT !.queue = Append(@, h.queued + 1), !.queued = @ + 1]
  <2>1. k = Recorded(h)
    BY <1>3 DEF Recorded
  <2>0. h \in Histories
    BY DEF HistoryInv
  <2>a. h.queue \in Seq(Nat) /\ h.batch \in Seq(Nat) /\ h.stored \in Seq(Nat)
        /\ h.queued \in Nat /\ h.errors \in Nat /\ h.written \in Nat
        /\ Len(h.queue) \in Nat /\ Len(h.batch) \in Nat /\ Len(h.stored) \in Nat
    BY <2>0, FieldTypes
  <2>c. Len(h.queue) \in Nat /\ Len(h.batch) \in Nat /\ Len(h.stored) \in Nat
        /\ h.queued \in Nat
    BY <2>a
  <2>b. Append(h.queue, h.queued + 1) \in Seq(Nat) /\ h.queued + 1 \in Nat
    BY <2>a
  <2>2. k \in Histories
    BY <2>0, <2>b DEF Histories
  <2>3. k.queue = Append(h.queue, h.queued + 1) /\ k.batch = h.batch /\ k.stored = h.stored
        /\ k.worker = h.worker /\ k.thread = h.thread /\ k.written = h.written
        /\ k.queued = h.queued + 1 /\ k.enabled = h.enabled /\ k.errors = h.errors
    BY <2>0 DEF Histories
  <2> HIDE DEF k
  <2>4. /\ Len(k.queue) = Len(h.queue) + 1
        /\ \A i \in 1..Len(h.queue) : k.queue[i] = h.queue[i]
        /\ k.queue[Len(h.queue) + 1] = h.queued + 1
    BY <2>3, <2>a
  <2>d. Len(k.queue) = Len(h.queue) + 1 /\ Len(h.queue) \in Nat
    BY <2>4, <2>c
  <2>e. \A i \in 1..Len(k.queue) : i = Len(h.queue) + 1 \/ i \in 1..Len(h.queue)
    BY <2>d
  <2>f. \A i \in 1..Len(h.queue) : k.queue[i] = h.queue[i]
    BY <2>4
  <2>g. k.queue[Len(h.queue) + 1] = h.queued + 1 /\ h.queued \in Nat
    BY <2>4, <2>c
  <2>5. InOrder(k)
    <3>0. InOrder(h)
      BY DEF HistoryInv
    <3>1. Increasing(k.stored) /\ Increasing(k.batch)
      BY <2>3, <3>0 DEF InOrder
    <3>2. Increasing(k.queue)
      <4> SUFFICES ASSUME NEW i \in 1..Len(k.queue), NEW j \in 1..Len(k.queue), i < j
                   PROVE  k.queue[i] < k.queue[j]
        BY DEF Increasing
      <4>1. i \in 1..Len(h.queue) /\ h.queue[i] \in Nat /\ h.queue[i] <= h.queued
        <5>2. i \in 1..Len(h.queue)
          BY <2>d
        <5>3. UpToNow(h.queue, h)
          BY <3>0 DEF InOrder
        <5>4. h.queue[i] <= h.queued
          BY <5>2, <5>3 DEF UpToNow
        <5>5. \A n \in 1..Len(h.queue) : h.queue[n] \in Nat
          BY <2>0, FieldTypes
        <5> QED
          BY <5>2, <5>4, <5>5
      <4>2. CASE j = Len(h.queue) + 1
        <5>1. k.queue[i] = h.queue[i] /\ k.queue[j] = h.queued + 1
          BY <2>f, <2>g, <4>1, <4>2
        <5> QED
          BY <2>g, <4>1, <5>1
      <4>3. CASE j \in 1..Len(h.queue)
        <5>1. k.queue[i] = h.queue[i] /\ k.queue[j] = h.queue[j]
          BY <2>f, <4>1, <4>3
        <5>2. Increasing(h.queue)
          BY <3>0 DEF InOrder
        <5>3. h.queue[i] < h.queue[j]
          BY <4>1, <4>3, <5>2 DEF Increasing
        <5> QED
          BY <5>1, <5>3
      <4> QED
        BY <2>e, <4>2, <4>3
    <3>3. UpToNow(k.queue, k)
      <4> SUFFICES ASSUME NEW i \in 1..Len(k.queue)
                   PROVE  k.queue[i] <= k.queued
        BY DEF UpToNow
      <4>1. CASE i = Len(h.queue) + 1
        BY <2>3, <2>g, <4>1
      <4>2. CASE i \in 1..Len(h.queue)
        <5>0. UpToNow(h.queue, h) /\ \A n \in 1..Len(h.queue) : h.queue[n] \in Nat
          BY <2>0, <3>0, FieldTypes DEF InOrder
        <5>1. h.queue[i] \in Nat /\ h.queue[i] <= h.queued
          BY <4>2, <5>0 DEF UpToNow
        <5> QED
          BY <2>3, <2>f, <2>g, <4>2, <5>1
      <4> QED
        BY <2>e, <4>1, <4>2
    <3>4. UpToNow(k.stored, k) /\ UpToNow(k.batch, k)
      <4>1. ASSUME NEW i \in 1..Len(h.stored) PROVE h.stored[i] <= h.queued + 1
        <5>1. h.stored[i] \in Nat /\ h.stored[i] <= h.queued
          BY <2>0, <3>0, FieldTypes DEF InOrder, UpToNow
        <5> QED
          BY <2>a, <5>1
      <4>2. ASSUME NEW i \in 1..Len(h.batch) PROVE h.batch[i] <= h.queued + 1
        <5>1. h.batch[i] \in Nat /\ h.batch[i] <= h.queued
          BY <2>0, <3>0, FieldTypes DEF InOrder, UpToNow
        <5> QED
          BY <2>a, <5>1
      <4> QED
        BY <2>3, <4>1, <4>2 DEF UpToNow
    <3>5. ASSUME NEW t, t \in {h.stored, h.batch}, NEW i \in 1..Len(t), NEW j \in 1..Len(k.queue)
          PROVE  t[i] < k.queue[j]
      <4>1. t[i] \in Nat /\ t[i] <= h.queued
        BY <2>0, <3>0, <3>5, FieldTypes DEF InOrder, UpToNow
      <4>2. CASE j = Len(h.queue) + 1
        <5>1. k.queue[j] = h.queued + 1
          BY <2>g, <4>2
        <5> QED
          BY <2>g, <4>1, <5>1
      <4>3. CASE j \in 1..Len(h.queue)
        BY <2>f, <3>0, <3>5, <4>3 DEF InOrder, Below
      <4> QED
        BY <2>e, <4>2, <4>3
    <3>6. Below(k.stored, k.queue) /\ Below(k.batch, k.queue)
      BY <2>3, <3>5 DEF Below
    <3>7. k.thread = "writing" => Below(k.stored, k.batch)
      BY <2>3, <3>0 DEF InOrder
    <3> QED
      BY <3>1, <3>2, <3>3, <3>4, <3>6, <3>7 DEF InOrder
  <2>6. AddsUp(k)
    <3>1. AddsUp(h)
      BY DEF HistoryInv
    <3>2. IsRunning(k) <=> IsRunning(h)
      BY <2>3 DEF IsRunning
    <3>3. k.written <= Len(k.stored)
          /\ (k.thread = "ok" => k.written + Len(k.batch) <= Len(k.stored))
      BY <2>3, <3>1 DEF AddsUp
    <3>4. ASSUME IsRunning(k), k.errors = 0, k.thread \in {"idle", "writing"}
          PROVE  k.queued = Len(k.stored) + Len(k.batch) + Len(k.queue)
      <4>1. h.queued = Len(h.stored) + Len(h.batch) + Len(h.queue)
        BY <2>3, <3>1, <3>2, <3>4 DEF AddsUp
      <4>2. k.queued = h.queued + 1 /\ Len(k.stored) = Len(h.stored)
            /\ Len(k.batch) = Len(h.batch) /\ Len(k.queue) = Len(h.queue) + 1
        BY <2>3, <2>4
      <4>3. h.queued + 1 = Len(h.stored) + Len(h.batch) + (Len(h.queue) + 1)
        BY <2>c, <4>1, OneMore, Zenon
      <4> QED
        BY <4>2, <4>3, Zenon
    <3>5. ASSUME IsRunning(k), k.errors = 0, k.thread = "ok"
          PROVE  k.queued = Len(k.stored) + Len(k.queue)
      <4>1. h.queued = Len(h.stored) + Len(h.queue)
        BY <2>3, <3>1, <3>2, <3>5 DEF AddsUp
      <4>2. k.queued = h.queued + 1 /\ Len(k.stored) = Len(h.stored)
            /\ Len(k.batch) = Len(h.batch) /\ Len(k.queue) = Len(h.queue) + 1
        BY <2>3, <2>4
      <4>3. h.queued + 1 = Len(h.stored) + (Len(h.queue) + 1)
        BY <2>c, <4>1, OneMoreOfTwo, Zenon
      <4> QED
        BY <4>2, <4>3, Zenon
    <3> QED
      BY <3>3, <3>4, <3>5 DEF AddsUp
  <2>7. Len(k.queue) <= QueueSize
    BY <1>3, <2>4, <2>a, HistoryAssumption
  <2>8. k.worker = "writing" <=> (IsRunning(k) /\ k.thread # "idle")
    BY <2>3 DEF HistoryInv, IsRunning
  <2>9. Len(k.batch) <= BatchSize /\ (k.thread = "idle" => k.batch = <<>>)
    BY <2>3 DEF HistoryInv
  <2>10. HistoryInv(k)
    BY <2>2, <2>5, <2>6, <2>7, <2>8, <2>9 DEF HistoryInv
  <2> QED
    BY <2>1, <2>3, <2>10
<1> QED
  BY <1>1, <1>2, <1>3

LEMMA TakenKept ==
    ASSUME NEW h, HistoryInv(h), CanTake(h)
    PROVE  HistoryInv(Taken(h)) /\ Taken(h).enabled = h.enabled
<1> DEFINE n == IF Len(h.queue) < BatchSize THEN Len(h.queue) ELSE BatchSize
           k == Taken(h)
<1>1. h \in Histories /\ h.worker = "waiting" /\ h.queue # <<>>
      /\ h.thread = "idle" /\ h.batch = <<>>
  BY DEF HistoryInv, CanTake, IsRunning
<1>2. h.queue \in Seq(Nat) /\ h.batch \in Seq(Nat) /\ h.stored \in Seq(Nat)
      /\ h.queued \in Nat /\ h.errors \in Nat /\ h.written \in Nat
      /\ Len(h.queue) \in Nat /\ Len(h.stored) \in Nat
  BY <1>1, FieldTypes
<1>3. n \in 1..Len(h.queue) /\ n <= BatchSize
  BY <1>1, <1>2, HistoryAssumption
<1> DEFINE first == SubSeq(h.queue, 1, n)
           rest == SubSeq(h.queue, n + 1, Len(h.queue))
<1> HIDE DEF n
<1>4. /\ first \in Seq(Nat) /\ Len(first) = n
      /\ \A i \in 1..n : first[i] = h.queue[i]
  BY <1>2, <1>3, Parts
<1>5. /\ rest \in Seq(Nat) /\ Len(rest) = Len(h.queue) - n
      /\ \A i \in 1..Len(rest) : rest[i] = h.queue[n + i]
  <2>1. n + 1 \in 1..(Len(h.queue) + 1) /\ Len(h.queue) \in 0..Len(h.queue)
    BY <1>2, <1>3
  <2>2. /\ rest \in Seq(Nat)
        /\ Len(rest) = IF n + 1 <= Len(h.queue) THEN Len(h.queue) - (n + 1) + 1 ELSE 0
        /\ \A i \in 1..Len(rest) : rest[i] = h.queue[n + 1 + i - 1]
    BY <1>2, <2>1, Parts
  <2>3. Len(rest) = Len(h.queue) - n
    BY <1>2, <1>3, <2>2
  <2>4. ASSUME NEW i \in 1..Len(rest) PROVE rest[i] = h.queue[n + i]
    <3>1. n + 1 + i - 1 = n + i
      BY <1>3, <2>2
    <3> QED
      BY <2>2, <3>1
  <2> QED
    BY <2>2, <2>3, <2>4
<1>6. k = [h EXCEPT !.queue = rest, !.batch = first, !.worker = "writing",
                    !.thread = "writing"]
  BY DEF Taken, n
<1> HIDE DEF k, first, rest
<1>7. k \in Histories
  BY <1>1, <1>4, <1>5, <1>6 DEF Histories
<1>8. k.queue = rest /\ k.batch = first /\ k.worker = "writing" /\ k.thread = "writing"
      /\ k.stored = h.stored /\ k.queued = h.queued /\ k.written = h.written
      /\ k.errors = h.errors /\ k.enabled = h.enabled
  BY <1>1, <1>6 DEF Histories
<1>9. InOrder(k)
  <2>0. InOrder(h)
    BY DEF HistoryInv
  <2>1. \A i \in 1..Len(rest) : n + i \in 1..Len(h.queue)
    BY <1>2, <1>3, <1>5
  <2>2. \A i \in 1..n : i \in 1..Len(h.queue)
    BY <1>2, <1>3
  <2>3. Increasing(first) /\ UpToNow(first, k)
    BY <1>4, <1>8, <2>0, <2>2 DEF InOrder, Increasing, UpToNow
  <2>4. Increasing(rest)
    <3> SUFFICES ASSUME NEW i \in 1..Len(rest), NEW j \in 1..Len(rest), i < j
                 PROVE  rest[i] < rest[j]
      BY DEF Increasing
    <3>1. n + i < n + j
      BY <1>3
    <3> QED
      BY <1>5, <2>0, <2>1, <3>1 DEF InOrder, Increasing
  <2>5. UpToNow(rest, k)
    BY <1>5, <1>8, <2>0, <2>1 DEF InOrder, UpToNow
  <2>6. Below(first, rest)
    <3> SUFFICES ASSUME NEW i \in 1..Len(first), NEW j \in 1..Len(rest)
                 PROVE  first[i] < rest[j]
      BY DEF Below
    <3>1. i < n + j /\ i \in 1..n
      BY <1>3, <1>4
    <3> QED
      BY <1>4, <1>5, <2>0, <2>1, <2>2, <3>1 DEF InOrder, Increasing
  <2>7. Below(h.stored, rest) /\ Below(h.stored, first)
    BY <1>4, <1>5, <2>0, <2>1, <2>2 DEF InOrder, Below
  <2>8. Increasing(h.stored) /\ UpToNow(h.stored, k)
    BY <1>8, <2>0 DEF InOrder, UpToNow
  <2> QED
    BY <1>8, <2>3, <2>4, <2>5, <2>6, <2>7, <2>8 DEF InOrder
<1>10. AddsUp(k)
  <2>1. AddsUp(h) /\ IsRunning(h)
    BY <1>1 DEF HistoryInv, IsRunning
  <2>2. k.written <= Len(k.stored)
    BY <1>8, <2>1 DEF AddsUp
  <2>3. ASSUME k.errors = 0
        PROVE  k.queued = Len(k.stored) + Len(k.batch) + Len(k.queue)
    <3>1. h.queued = Len(h.stored) + Len(h.batch) + Len(h.queue) /\ Len(h.batch) = 0
      BY <1>1, <1>8, <2>1, <2>3 DEF AddsUp
    <3>2. Len(k.batch) = n /\ Len(k.queue) = Len(h.queue) - n
          /\ k.queued = h.queued /\ Len(k.stored) = Len(h.stored)
      BY <1>4, <1>5, <1>8
    <3>3. n \in Nat /\ n <= Len(h.queue)
      BY <1>2, <1>3
    <3>4. h.queued \in Nat /\ Len(h.stored) \in Nat /\ Len(h.queue) \in Nat
      BY <1>2
    <3>5. h.queued = Len(h.stored) + 0 + Len(h.queue)
      BY <3>1, Zenon
    <3>6. h.queued = Len(h.stored) + n + (Len(h.queue) - n)
      <4>1. \A c \in Nat : c <= Len(h.queue) =>
                 h.queued = Len(h.stored) + c + (Len(h.queue) - c)
        BY <3>4, <3>5, Moved, Zenon
      <4> QED
        BY <3>3, <4>1, Zenon
    <3> QED
      BY <3>2, <3>6, Zenon
  <2> QED
    BY <1>8, <2>2, <2>3 DEF AddsUp
<1>11. Len(k.queue) <= QueueSize /\ Len(k.batch) <= BatchSize
  <2>1. Len(h.queue) <= QueueSize
    BY DEF HistoryInv
  <2> QED
    BY <1>2, <1>3, <1>4, <1>5, <1>8, <2>1, HistoryAssumption
<1>12. HistoryInv(k)
  BY <1>7, <1>8, <1>9, <1>10, <1>11 DEF HistoryInv, IsRunning
<1> QED
  BY <1>8, <1>12 DEF k

LEMMA AnsweredKept ==
    ASSUME NEW h, HistoryInv(h), NEW n \in 0..Len(h.batch),
           NEW outcome \in {"ok", "oserror", "error"}, CanAnswer(h, outcome, n)
    PROVE  /\ HistoryInv(Answered(h, outcome, n)) /\ Answered(h, outcome, n).enabled = h.enabled
           /\ Answered(h, outcome, n).worker = h.worker
<1> DEFINE k == Answered(h, outcome, n)
           part == SubSeq(h.batch, 1, n)
           all == h.stored \o part
<1>1. h \in Histories /\ h.thread = "writing" /\ (outcome = "ok" => n = Len(h.batch))
  BY DEF HistoryInv, CanAnswer
<1>2. h.queue \in Seq(Nat) /\ h.batch \in Seq(Nat) /\ h.stored \in Seq(Nat)
      /\ h.queued \in Nat /\ h.errors \in Nat /\ h.written \in Nat
      /\ Len(h.queue) \in Nat /\ Len(h.stored) \in Nat /\ Len(h.batch) \in Nat
  BY <1>1, FieldTypes
<1>3. part \in Seq(Nat) /\ Len(part) = n /\ \A i \in 1..n : part[i] = h.batch[i]
  <2>1. 1 \in 1..(Len(h.batch) + 1)
    BY <1>2
  <2>2. /\ part \in Seq(Nat) /\ Len(part) = IF 1 <= n THEN n - 1 + 1 ELSE 0
        /\ \A i \in 1..Len(part) : part[i] = h.batch[1 + i - 1]
    BY <1>2, <2>1, Parts
  <2>3. Len(part) = n
    BY <1>2, <2>2
  <2> QED
    BY <2>2, <2>3
<1>4. /\ all \in Seq(Nat) /\ Len(all) = Len(h.stored) + n
      /\ \A i \in 1..Len(h.stored) : all[i] = h.stored[i]
      /\ \A i \in 1..Len(all) : i > Len(h.stored) => all[i] = h.batch[i - Len(h.stored)]
  <2> HIDE DEF part
  <2>1. all \in Seq(Nat) /\ Len(all) = Len(h.stored) + n
        /\ (\A i \in 1..Len(h.stored) : all[i] = h.stored[i])
        /\ \A i \in 1..Len(all) : i > Len(h.stored) => all[i] = part[i - Len(h.stored)]
    BY <1>2, <1>3, Joined
  <2>2. \A i \in 1..Len(all) : i > Len(h.stored) => i - Len(h.stored) \in 1..n
    BY <1>2, <2>1
  <2> QED
    BY <1>3, <2>1, <2>2
<1>5. \/ h.worker = "writing" /\ k = [h EXCEPT !.stored = all, !.thread = outcome]
      \/ /\ h.worker # "writing"
         /\ k = [h EXCEPT !.stored = all, !.thread = "idle", !.batch = <<>>]
  BY <1>1 DEF Answered, Histories
<1> HIDE DEF k, all, part
<1>6. k \in Histories
  <2>1. CASE k = [h EXCEPT !.stored = all, !.thread = outcome]
    <3>1. all \in Seq(Nat)
      BY <1>4
    <3>2. outcome \in {"idle", "writing", "ok", "oserror", "error"}
      OBVIOUS
    <3> QED
      BY <1>1, <2>1, <3>1, <3>2 DEF Histories
  <2>2. CASE k = [h EXCEPT !.stored = all, !.thread = "idle", !.batch = <<>>]
    <3>1. all \in Seq(Nat) /\ <<>> \in Seq(Nat)
      BY <1>4
    <3> QED
      BY <1>1, <2>2, <3>1 DEF Histories
  <2> QED
    BY <1>5, <2>1, <2>2
<1>7. k.queue = h.queue /\ k.stored = all /\ k.queued = h.queued /\ k.written = h.written
      /\ k.errors = h.errors /\ k.enabled = h.enabled /\ k.worker = h.worker
  BY <1>1, <1>5 DEF Histories
<1>8. \/ h.worker = "writing" /\ k.thread = outcome /\ k.batch = h.batch
      \/ h.worker # "writing" /\ k.thread = "idle" /\ k.batch = <<>>
  BY <1>1, <1>5 DEF Histories
<1> DEFINE S == Len(h.stored)
<1>9. \A i \in 1..Len(all) : \/ i \in 1..S /\ all[i] = h.stored[i]
                             \/ i - S \in 1..Len(h.batch) /\ i > S /\ all[i] = h.batch[i - S]
  <2> SUFFICES ASSUME NEW i \in 1..Len(all)
               PROVE  \/ i \in 1..S /\ all[i] = h.stored[i]
                      \/ i - S \in 1..Len(h.batch) /\ i > S /\ all[i] = h.batch[i - S]
    OBVIOUS
  <2>1. CASE i \in 1..S
    BY <1>4, <2>1
  <2>2. CASE ~(i \in 1..S)
    <3>1. i > S /\ i - S \in 1..Len(h.batch)
      BY <1>2, <1>4, <2>2
    <3> QED
      BY <1>4, <3>1
  <2> QED
    BY <2>1, <2>2
<1>10. InOrder(k)
  <2>0. InOrder(h) /\ Below(h.stored, h.batch)
    BY <1>1 DEF HistoryInv, InOrder
  <2>1. Increasing(all)
    <3> SUFFICES ASSUME NEW i \in 1..Len(all), NEW j \in 1..Len(all), i < j
                 PROVE  all[i] < all[j]
      BY DEF Increasing
    <3>1. CASE i \in 1..S /\ j \in 1..S
      BY <1>4, <2>0, <3>1 DEF InOrder, Increasing
    <3>2. CASE i \in 1..S /\ ~(j \in 1..S)
      BY <1>9, <2>0, <3>2 DEF Below
    <3>3. CASE ~(i \in 1..S) /\ j \in 1..S
      BY <1>2, <3>3
    <3>4. CASE ~(i \in 1..S) /\ ~(j \in 1..S)
      <4>1. i - S \in 1..Len(h.batch) /\ all[i] = h.batch[i - S]
            /\ j - S \in 1..Len(h.batch) /\ all[j] = h.batch[j - S]
        BY <1>9, <3>4
      <4>2. i - S < j - S
        BY <1>2
      <4> QED
        BY <2>0, <4>1, <4>2 DEF InOrder, Increasing
    <3> QED
      BY <3>1, <3>2, <3>3, <3>4
  <2>2. UpToNow(all, k)
    BY <1>7, <1>9, <2>0 DEF InOrder, UpToNow
  <2>3. Below(all, h.queue)
    BY <1>9, <2>0 DEF InOrder, Below
  <2>4. Increasing(k.batch) /\ UpToNow(k.batch, k) /\ Below(k.batch, k.queue)
    BY <1>7, <1>8, <2>0 DEF InOrder, Increasing, Below, UpToNow
  <2>5. Increasing(k.queue) /\ UpToNow(k.queue, k)
    BY <1>7, <2>0 DEF InOrder, UpToNow
  <2>6. k.thread # "writing"
    BY <1>8
  <2> QED
    BY <1>7, <2>1, <2>2, <2>3, <2>4, <2>5, <2>6 DEF InOrder
<1>11. AddsUp(k)
  <2>0. AddsUp(h)
    BY DEF HistoryInv
  <2>1. Len(k.stored) = S + n
    BY <1>4, <1>7
  <2>2. k.written <= Len(k.stored)
    <3>1. h.written <= S
      BY <2>0 DEF AddsUp
    <3> QED
      BY <1>2, <1>7, <2>1, <3>1
  <2>3. ASSUME k.thread = "ok"
        PROVE  n = Len(h.batch) /\ k.batch = h.batch /\ h.worker = "writing"
    BY <1>1, <1>8, <2>3
  <2>4. k.thread = "ok" => k.written + Len(k.batch) <= Len(k.stored)
    <3>1. h.written <= S
      BY <2>0 DEF AddsUp
    <3> QED
      BY <1>2, <1>7, <2>1, <2>3, <3>1
  <2>5. ASSUME IsRunning(k), k.errors = 0, k.thread = "ok"
        PROVE  k.queued = Len(k.stored) + Len(k.queue)
    <3>1. h.queued = S + Len(h.batch) + Len(h.queue)
      BY <1>1, <1>7, <2>0, <2>5 DEF AddsUp, IsRunning
    <3>2. Len(k.stored) = S + Len(h.batch)
      BY <2>1, <2>3, <2>5
    <3> QED
      BY <1>2, <1>7, <3>1, <3>2
  <2>6. ~(IsRunning(k) /\ k.thread \in {"idle", "writing"})
    <3>1. h.worker # "waiting"
      BY <1>1 DEF HistoryInv, IsRunning
    <3> QED
      BY <1>7, <1>8, <3>1 DEF IsRunning
  <2> QED
    BY <2>2, <2>4, <2>5, <2>6 DEF AddsUp
<1>12. Len(k.queue) <= QueueSize /\ Len(k.batch) <= BatchSize
  BY <1>7, <1>8, HistoryAssumption DEF HistoryInv
<1>13. (k.worker = "writing" <=> (IsRunning(k) /\ k.thread # "idle"))
       /\ (k.thread = "idle" => k.batch = <<>>)
  <2>1. h.worker # "waiting"
    BY <1>1 DEF HistoryInv, IsRunning
  <2> QED
    BY <1>7, <1>8, <2>1 DEF IsRunning
<1>14. HistoryInv(k)
  BY <1>6, <1>10, <1>11, <1>12, <1>13 DEF HistoryInv
<1> QED
  BY <1>7, <1>14 DEF k

LEMMA ResumedKept ==
    ASSUME NEW h, HistoryInv(h), CanResume(h)
    PROVE  HistoryInv(Resumed(h)) /\ Resumed(h).enabled = h.enabled
<1> DEFINE written == IF h.thread = "ok" THEN h.written + Len(h.batch) ELSE h.written
           errors == IF h.thread = "oserror" THEN h.errors + 1 ELSE h.errors
           worker == IF h.thread = "error" THEN "broken" ELSE "waiting"
           k == Resumed(h)
<1>1. h \in Histories /\ h.worker = "writing" /\ h.thread \in {"ok", "oserror", "error"}
      /\ InOrder(h) /\ AddsUp(h)
  BY DEF HistoryInv, CanResume
<1>2. h.queue \in Seq(Nat) /\ h.batch \in Seq(Nat) /\ h.stored \in Seq(Nat)
      /\ h.queued \in Nat /\ h.errors \in Nat /\ h.written \in Nat
      /\ Len(h.queue) \in Nat /\ Len(h.stored) \in Nat /\ Len(h.batch) \in Nat
  BY <1>1, FieldTypes
<1>3. written \in Nat /\ errors \in Nat /\ worker \in {"broken", "waiting"}
  BY <1>2
<1>4. written <= Len(h.stored)
  BY <1>1 DEF AddsUp
<1>5. errors = 0 => h.errors = 0 /\ h.thread # "oserror"
  BY <1>2
<1>6. worker = "waiting" => h.thread # "error"
  OBVIOUS
<1>7. k = [h EXCEPT !.written = written, !.errors = errors, !.worker = worker,
                    !.thread = "idle", !.batch = <<>>]
  BY <1>1 DEF Resumed, Histories
<1> HIDE DEF written, errors, worker, k
<1>8. k \in Histories
  <2>1. <<>> \in Seq(Nat)
    OBVIOUS
  <2> QED
    BY <1>1, <1>3, <1>7, <2>1 DEF Histories
<1>9. k.queue = h.queue /\ k.stored = h.stored /\ k.queued = h.queued
      /\ k.written = written /\ k.errors = errors /\ k.enabled = h.enabled
      /\ k.worker = worker /\ k.thread = "idle" /\ k.batch = <<>>
  BY <1>1, <1>7 DEF Histories
<1>10. InOrder(k)
  BY <1>1, <1>9 DEF InOrder, Increasing, Below, UpToNow
<1>11. AddsUp(k)
  <2>1. ASSUME IsRunning(k), k.errors = 0
        PROVE  k.queued = Len(k.stored) + Len(k.batch) + Len(k.queue)
    <3>1. h.thread = "ok" /\ h.errors = 0 /\ IsRunning(h)
      BY <1>1, <1>3, <1>5, <1>6, <1>9, <2>1 DEF IsRunning
    <3>2. h.queued = Len(h.stored) + Len(h.queue)
      BY <1>1, <3>1 DEF AddsUp
    <3>3. Len(k.batch) = 0 /\ Len(k.stored) = Len(h.stored) /\ Len(k.queue) = Len(h.queue)
          /\ k.queued = h.queued
      BY <1>9
    <3> QED
      BY <1>2, <3>2, <3>3
  <2> QED
    BY <1>4, <1>9, <2>1 DEF AddsUp
<1>12. Len(k.queue) <= QueueSize /\ Len(k.batch) <= BatchSize
  BY <1>9, HistoryAssumption DEF HistoryInv
<1>13. HistoryInv(k)
  BY <1>3, <1>8, <1>9, <1>10, <1>11, <1>12 DEF HistoryInv, IsRunning
<1> QED
  BY <1>9, <1>13 DEF k

\* An operation that touches neither the events nor their counters.
LEMMA QuietStep ==
    ASSUME NEW h, HistoryInv(h), NEW k \in Histories,
           k.queue = h.queue, k.stored = h.stored, k.batch = h.batch,
           k.queued = h.queued, k.written = h.written, k.errors = h.errors,
           k.thread = h.thread, IsRunning(k) => IsRunning(h),
           k.worker = "writing" <=> (IsRunning(k) /\ k.thread # "idle")
    PROVE  HistoryInv(k)
<1>1. InOrder(k)
  BY DEF HistoryInv, InOrder, UpToNow
<1>2. AddsUp(k)
  BY DEF HistoryInv, AddsUp
<1> QED
  BY <1>1, <1>2 DEF HistoryInv

LEMMA EndedKept ==
    ASSUME NEW h, HistoryInv(h), CanEnd(h)
    PROVE  HistoryInv(Ended(h)) /\ Ended(h).enabled = h.enabled
<1> DEFINE k == Ended(h)
<1>1. h \in Histories /\ h.worker = "waiting"
  BY DEF HistoryInv, CanEnd
<1>2. k \in Histories
  BY <1>1 DEF Ended, Histories
<1>3. k.queue = h.queue /\ k.stored = h.stored /\ k.batch = h.batch
      /\ k.queued = h.queued /\ k.written = h.written /\ k.errors = h.errors
      /\ k.thread = h.thread /\ k.enabled = h.enabled /\ k.worker = "ended"
  BY <1>1 DEF Ended, Histories
<1> HIDE DEF k
<1>4. HistoryInv(k)
  BY <1>2, <1>3, QuietStep DEF IsRunning
<1> QED
  BY <1>3, <1>4 DEF k

LEMMA StopBegunKept ==
    ASSUME NEW h, HistoryInv(h)
    PROVE  /\ HistoryInv(StopBegun(h)) /\ StopBegun(h).enabled = h.enabled
           /\ StopBegun(h).worker = h.worker
<1>1. CASE h.worker = "none"
  BY <1>1 DEF StopBegun
<1>2. CASE h.worker # "none"
  <2> DEFINE k == [h EXCEPT !.stopping = TRUE]
  <2>1. h \in Histories
    BY DEF HistoryInv
  <2>2. k \in Histories
    BY <2>1 DEF Histories
  <2>3. k.queue = h.queue /\ k.stored = h.stored /\ k.batch = h.batch
        /\ k.queued = h.queued /\ k.written = h.written /\ k.errors = h.errors
        /\ k.thread = h.thread /\ k.enabled = h.enabled /\ k.worker = h.worker
    BY <2>1 DEF Histories
  <2>4. k = StopBegun(h)
    BY <1>2 DEF StopBegun
  <2> HIDE DEF k
  <2>5. HistoryInv(k)
    <3>1. h.worker = "writing" <=> (IsRunning(h) /\ h.thread # "idle")
      BY DEF HistoryInv
    <3> QED
      BY <2>2, <2>3, <3>1, QuietStep DEF IsRunning
  <2> QED
    BY <2>3, <2>4, <2>5
<1> QED
  BY <1>1, <1>2

LEMMA StoppedKept ==
    ASSUME NEW h, HistoryInv(h)
    PROVE  /\ HistoryInv(Stopped(h)) /\ Stopped(h).enabled = h.enabled
           /\ Stopped(h).worker = "none"
<1> DEFINE thread == IF h.thread = "writing" THEN h.thread ELSE "idle"
           batch == IF h.thread = "writing" THEN h.batch ELSE <<>>
           k == Stopped(h)
<1>1. h \in Histories /\ InOrder(h) /\ AddsUp(h)
  BY DEF HistoryInv
<1>2. k = [h EXCEPT !.worker = "none", !.thread = thread, !.batch = batch]
  BY <1>1 DEF Stopped, Histories
<1>3. thread \in {"idle", "writing"} /\ batch \in Seq(Nat)
      /\ (thread = "writing" => h.thread = "writing")
      /\ (thread = "idle" => batch = <<>>)
      /\ batch \in {h.batch, <<>>}
  BY <1>1, FieldTypes
<1> HIDE DEF thread, batch, k
<1>4. k \in Histories
  BY <1>1, <1>2, <1>3 DEF Histories
<1>5. k.queue = h.queue /\ k.stored = h.stored /\ k.queued = h.queued
      /\ k.written = h.written /\ k.errors = h.errors /\ k.enabled = h.enabled
      /\ k.worker = "none" /\ k.thread = thread /\ k.batch = batch
  BY <1>1, <1>2 DEF Histories
<1>6. InOrder(k)
  <2>1. CASE batch = <<>>
    BY <1>1, <1>3, <1>5, <2>1 DEF InOrder, Increasing, Below, UpToNow
  <2>2. CASE batch = h.batch
    BY <1>1, <1>3, <1>5, <2>2 DEF InOrder, UpToNow
  <2> QED
    BY <1>3, <2>1, <2>2
<1>7. AddsUp(k)
  BY <1>1, <1>3, <1>5 DEF AddsUp, IsRunning
<1>8. Len(k.queue) <= QueueSize /\ Len(k.batch) <= BatchSize
  BY <1>3, <1>5, HistoryAssumption DEF HistoryInv
<1>9. HistoryInv(k)
  BY <1>3, <1>4, <1>5, <1>6, <1>7, <1>8 DEF HistoryInv, IsRunning
<1> QED
  BY <1>5, <1>9 DEF k

(***************************************************************************)
(* The invariant of one life.                                              *)
(***************************************************************************)
Before == {"unborn", "refreshing", "starting", "preparing", "failed"}
Over == {"closing", "gone"}

LifeInv(c) ==
    /\ c \in Coordinators /\ HistoryInv(c.history)
    /\ c.phase \in Before \cup Over => ~c.ticking /\ c.history.worker = "none"
    /\ c.phase \in Before => c.history = NewHistory(c.history.enabled)
    /\ c.phase \in Before \ {"starting", "preparing"} => c.command = NoLimit

(***************************************************************************)
(* The inductive invariant.                                                *)
(***************************************************************************)
Scalars ==
    /\ options \in Options
    /\ lock \in {"free", "unload", "setup"}
    /\ reloads \in Nat /\ life \in Nat
    /\ changes \in 0..MaxChanges /\ facts \in 0..MaxFacts
    /\ leftover \in BOOLEAN /\ missed \in BOOLEAN

AreSound(ls, n) ==
    /\ ls \in [1..MaxLives -> Coordinators]
    /\ \A l \in 1..MaxLives :
           /\ LifeInv(ls[l])
           /\ l > n <=> ls[l].phase = "unborn"
           /\ l < n => ls[l].phase = "gone"

LivesAreSound == AreSound(lives, life)

\* The phase of the current life is one the holder of the lock leaves it in.
LockMatchesPhase ==
    /\ lock = "free" => Phase \in {"running", "failed", "stuck"}
    /\ lock = "unload" => Phase \in {"unloading", "stopping", "closing"}
    /\ lock = "setup" => Phase \in Before \cup {"gone"}

\* The lock is held for a life that is not there yet.
Between == {"unborn", "unloading", "stopping"} \cup Over

\* Every life but the first was asked for by a change of the options.
LivesAreAskedFor ==
    life + reloads + (IF lock # "free" /\ Phase \in Between THEN 1 ELSE 0) <= 1 + changes

\* Until a reload the life follows the options, and a flag that is up was left up.
Follows(c, opts) ==
    /\ c.mode = Restored(opts.mode) /\ c.confirmed = opts.confirmed
    /\ c.history.enabled = opts.history /\ c.nominal = opts.nominal

FollowsOptions ==
    /\ Phase \in {"refreshing", "starting", "preparing", "running"} /\ reloads = 0 /\ ~missed =>
           Follows(lives[life], options)
    /\ Registered /\ lives[life].skip => leftover
    /\ Phase = "refreshing" => ~lives[life].skip

LifetimesInv ==
    Scalars /\ LivesAreSound /\ LockMatchesPhase /\ LivesAreAskedFor /\ FollowsOptions

(***************************************************************************)
(* One life.                                                               *)
(***************************************************************************)
LEMMA Numbers ==
    /\ MaxLives \in Nat /\ MaxChanges \in Nat /\ MaxFacts \in Nat
    /\ MaxLives = 1 + MaxChanges
BY LifetimesAssumption DEF MaxLives

LEMMA LifeFields ==
    ASSUME NEW c, LifeInv(c)
    PROVE  /\ c.phase \in Phases /\ c.mode \in Modes
           /\ c.confirmed \in Limits \cup {NoLimit} /\ c.command \in Limits \cup {NoLimit}
           /\ c.nominal \in 1..2 /\ c.skip \in BOOLEAN /\ c.ticking \in BOOLEAN
           /\ c.refresh \in BOOLEAN
           /\ c.history \in Histories /\ HistoryInv(c.history)
BY DEF LifeInv, Coordinators

LEMMA NewLife ==
    ASSUME NEW phase \in Before \cup {"gone"}, NEW opts \in Options
    PROVE  /\ LifeInv(New(phase, opts)) /\ New(phase, opts).phase = phase
           /\ Follows(New(phase, opts), opts) /\ New(phase, opts).skip = FALSE
<1> DEFINE c == New(phase, opts)
<1>1. opts.history \in BOOLEAN /\ opts.nominal \in 1..2
      /\ opts.confirmed \in Limits \cup {NoLimit}
  BY DEF Options
<1>2. HistoryInv(NewHistory(opts.history)) /\ NewHistory(opts.history).enabled = opts.history
  BY <1>1, NewKept
<1>3. NewHistory(opts.history) \in Histories /\ Restored(opts.mode) \in Modes
      /\ phase \in Phases
  BY <1>2 DEF HistoryInv, Restored, Modes, Phases, Before
<1>4. c.history = NewHistory(opts.history) /\ c.ticking = FALSE /\ c.command = NoLimit
      /\ c.phase = phase /\ c.mode = Restored(opts.mode) /\ c.confirmed = opts.confirmed
      /\ c.nominal = opts.nominal /\ c.skip = FALSE
  BY DEF New
<1>5. c \in Coordinators
  BY <1>1, <1>3 DEF New, Coordinators
<1>6. NewHistory(opts.history).worker = "none"
  BY DEF NewHistory
<1> HIDE DEF c
<1>7. LifeInv(c)
  BY <1>2, <1>4, <1>5, <1>6 DEF LifeInv
<1> QED
  BY <1>2, <1>4, <1>7 DEF c, Follows

LEMMA BlankIsAnOption == Blank \in Options
BY DEF Blank, Options, Modes

LEMMA KeptLife ==
    ASSUME NEW c, LifeInv(c)
    PROVE  /\ LifeInv(Kept(c)) /\ Kept(c).phase = c.phase
           /\ c.phase # "gone" => Kept(c) = c
<1>1. CASE c.phase = "gone" /\ c.command = NoLimit /\ c.history.thread = "idle"
  BY <1>1, NewLife, BlankIsAnOption DEF Kept
<1>2. CASE ~(c.phase = "gone" /\ c.command = NoLimit /\ c.history.thread = "idle")
  BY <1>2 DEF Kept
<1> QED
  BY <1>1, <1>2

\* The same phase, ticks and history.
LEMMA QuietLife ==
    ASSUME NEW c, LifeInv(c), NEW d \in Coordinators,
           d.phase = c.phase, d.ticking = c.ticking, d.history = c.history,
           c.phase \in Before \ {"starting", "preparing"} => d.command = NoLimit
    PROVE  LifeInv(d)
BY DEF LifeInv

\* In a phase that follows the setup.
LEMMA LateLife ==
    ASSUME NEW d \in Coordinators, HistoryInv(d.history),
           d.phase \notin Before \cup Over
    PROVE  LifeInv(d)
BY DEF LifeInv

\* A changed life among the others.
LEMMA OneChanges ==
    ASSUME NEW ls, NEW n \in Nat, AreSound(ls, n), NEW l \in 1..MaxLives, NEW c, LifeInv(c),
           c.phase = ls[l].phase \/ (l = n /\ c.phase # "unborn")
    PROVE  AreSound([ls EXCEPT ![l] = c], n)
<1> DEFINE ks == [ls EXCEPT ![l] = c]
<1>1. c \in Coordinators
  BY DEF LifeInv
<1>2. ks \in [1..MaxLives -> Coordinators]
  BY <1>1 DEF AreSound
<1>3. ks[l] = c /\ \A k \in 1..MaxLives : k # l => ks[k] = ls[k]
  BY DEF AreSound
<1> HIDE DEF ks
<1>4. ASSUME NEW k \in 1..MaxLives
      PROVE  /\ LifeInv(ks[k])
             /\ k > n <=> ks[k].phase = "unborn"
             /\ k < n => ks[k].phase = "gone"
  <2>1. CASE k # l
    BY <1>3, <2>1 DEF AreSound
  <2>2. CASE k = l /\ c.phase = ls[l].phase
    BY <1>3, <2>2 DEF AreSound
  <2>3. CASE k = l /\ l = n /\ c.phase # "unborn"
    <3>1. ~(k > n) /\ ~(k < n)
      BY <2>3
    <3> QED
      BY <1>3, <2>3, <3>1
  <2> QED
    BY <2>1, <2>2, <2>3
<1> QED
  BY <1>2, <1>4 DEF AreSound, ks

(***************************************************************************)
(* What the invariant says of the current life.                            *)
(***************************************************************************)
LEMMA Bounds ==
    ASSUME LifetimesInv
    PROVE  /\ life \in 0..MaxLives /\ reloads \in 0..MaxChanges
           /\ life \in Nat /\ reloads \in Nat /\ changes \in Nat /\ changes <= MaxChanges
<1>1. life \in Nat /\ reloads \in Nat /\ changes \in 0..MaxChanges
  BY DEF LifetimesInv, Scalars
<1> DEFINE turn == IF lock # "free" /\ Phase \in Between THEN 1 ELSE 0
<1>2. life + reloads + turn <= 1 + changes
  BY DEF LifetimesInv, LivesAreAskedFor
<1>3. turn \in {0, 1} /\ (life = 0 => turn = 1)
  BY <1>1 DEF Phase, LifetimesInv, LockMatchesPhase, Before, Between, Over
<1> HIDE DEF turn
<1>4. life <= MaxLives
  BY <1>1, <1>2, <1>3, Numbers
<1>5. reloads <= MaxChanges
  BY <1>1, <1>2, <1>3, Numbers
<1> QED
  BY <1>1, <1>4, <1>5, Numbers

LEMMA Current ==
    ASSUME LifetimesInv
    PROVE  /\ life = 0 => Phase = "unborn"
           /\ life # 0 => /\ life \in 1..MaxLives /\ LifeInv(lives[life])
                          /\ Phase = lives[life].phase /\ Phase # "unborn"
           /\ Phase \in Phases
<1>1. life \in 0..MaxLives
  BY Bounds
<1>2. CASE life = 0
  BY <1>2 DEF Phase, Phases
<1>3. CASE life # 0
  <2>1. life \in 1..MaxLives /\ ~(life > life)
    BY <1>1, <1>3, Numbers
  <2>2. LifeInv(lives[life]) /\ lives[life].phase # "unborn"
    BY <2>1 DEF LifetimesInv, LivesAreSound, AreSound
  <2> QED
    BY <1>3, <2>1, <2>2, LifeFields DEF Phase
<1> QED
  BY <1>2, <1>3

LEMMA Living ==
    ASSUME LifetimesInv, NEW l \in 1..life
    PROVE  l \in 1..MaxLives /\ LifeInv(lives[l]) /\ life # 0
<1>1. l \in 1..MaxLives /\ life # 0
  BY Bounds, Numbers
<1> QED
  BY <1>1 DEF LifetimesInv, LivesAreSound, AreSound

(***************************************************************************)
(* An update of the options keeps the invariant.                           *)
(***************************************************************************)
LEMMA UpdateKeeps ==
    ASSUME LifetimesInv, NEW new \in Options, NEW ls, AreSound(ls, life), NEW own \in BOOLEAN,
           Update(new, ls, own), UNCHANGED <<lock, life, facts>>,
           life # 0 => ls[life].phase = lives[life].phase,
           life # 0 /\ own /\ Phase # "gone" /\ Follows(lives[life], options)
               => Follows(ls[life], new),
           life # 0 /\ (~own \/ Phase = "refreshing") => ls[life] = lives[life]
    PROVE  LifetimesInv'
<1>0. Scalars /\ LivesAreSound /\ LockMatchesPhase /\ LivesAreAskedFor /\ FollowsOptions
  BY DEF LifetimesInv
<1>1. Skipped(ls) => life # 0 /\ Registered
  BY DEF Skipped, Registered, Phase
<1>2. /\ lives' = ls \/ (lives' = [ls EXCEPT ![life].skip = FALSE] /\ Skipped(ls))
      /\ options' = new
      /\ reloads' \in {reloads, reloads + 1} /\ changes' \in {changes, changes + 1}
      /\ reloads' = reloads + 1 => changes' = changes + 1
      /\ changes' # changes => changes < MaxChanges
      /\ missed => missed'
  <2>0. reloads \in Nat /\ changes \in Nat /\ missed \in BOOLEAN
    BY <1>0, Bounds DEF Scalars
  <2>1. CASE new = options
    BY <2>0, <2>1 DEF Update
  <2>2. CASE new # options
    <3>1. /\ changes < MaxChanges /\ changes' = changes + 1 /\ options' = new
          /\ reloads' \in {reloads, reloads + 1}
          /\ lives' = ls \/ (lives' = [ls EXCEPT ![life].skip = FALSE] /\ Skipped(ls))
      BY <2>2 DEF Update
    <3>2. missed => missed'
      BY <2>0, <2>2 DEF Update
    <3> QED
      BY <3>1, <3>2
  <2> QED
    BY <2>1, <2>2
<1>3. leftover' \in BOOLEAN /\ missed' \in BOOLEAN
  <2>1. leftover \in BOOLEAN /\ missed \in BOOLEAN
    BY <1>0 DEF Scalars
  <2> QED
    BY <2>1 DEF Update
<1>4. Scalars'
  <2>1. reloads' \in Nat /\ life' \in Nat
    BY <1>2, Bounds
  <2>2. changes' \in 0..MaxChanges
    BY <1>2, Bounds, Numbers
  <2>3. facts' \in 0..MaxFacts /\ lock' \in {"free", "unload", "setup"}
    BY <1>0 DEF Scalars
  <2> QED
    BY <1>2, <1>3, <2>1, <2>2, <2>3 DEF Scalars
<1>5. AreSound(lives', life)
      /\ (life # 0 => lives'[life].phase = lives[life].phase)
      /\ (lives' # ls => lives'[life] = [ls[life] EXCEPT !.skip = FALSE])
  <2>1. CASE lives' = ls
    BY <2>1
  <2>2. CASE lives' = [ls EXCEPT ![life].skip = FALSE] /\ life # 0
    <3> DEFINE c == [ls[life] EXCEPT !.skip = FALSE]
    <3>1. life \in 1..MaxLives /\ life \in Nat
      BY <2>2, Bounds, Current
    <3>2. LifeInv(ls[life]) /\ ls[life] \in Coordinators /\ ls \in [1..MaxLives -> Coordinators]
      BY <3>1 DEF AreSound, LifeInv
    <3>3. c \in Coordinators /\ c.phase = ls[life].phase /\ c.ticking = ls[life].ticking
          /\ c.history = ls[life].history /\ c.command = ls[life].command
      BY <3>2 DEF Coordinators
    <3> HIDE DEF c
    <3>4. ls[life].phase \in Before \ {"starting", "preparing"} => c.command = NoLimit
      BY <3>2, <3>3 DEF LifeInv
    <3>5. LifeInv(c)
      BY <3>2, <3>3, <3>4, QuietLife
    <3>6. lives' = [ls EXCEPT ![life] = c]
      BY <2>2 DEF c
    <3>7. AreSound([ls EXCEPT ![life] = c], life)
      BY <3>1, <3>3, <3>5, OneChanges
    <3>8. lives'[life] = c
      BY <3>1, <3>2, <3>6
    <3> QED
      BY <2>2, <3>3, <3>6, <3>7, <3>8 DEF c
  <2> QED
    BY <1>1, <1>2, <2>1, <2>2
<1>6. LivesAreSound'
  BY <1>5 DEF LivesAreSound
<1>7. Phase' = Phase
  BY <1>5 DEF Phase
<1>8. LockMatchesPhase'
  BY <1>0, <1>7 DEF LockMatchesPhase, Before
<1>9. LivesAreAskedFor'
  <2> DEFINE turn == IF lock # "free" /\ Phase \in Between THEN 1 ELSE 0
  <2>1. life + reloads + turn <= 1 + changes
    BY <1>0 DEF LivesAreAskedFor, Between, Over
  <2>2. turn \in Nat
    OBVIOUS
  <2> HIDE DEF turn
  <2>3. life + reloads' + turn <= 1 + changes'
    BY <1>2, <2>1, <2>2, Bounds
  <2> QED
    BY <1>7, <2>3 DEF LivesAreAskedFor, Between, Over, turn
<1>10. FollowsOptions'
  <2>0. Registered' <=> Registered
    BY <1>7 DEF Registered
  <2>1. Registered' /\ lives'[life].skip => leftover'
    <3> SUFFICES ASSUME Registered, lives'[life].skip
                 PROVE  leftover'
      BY <2>0
    <3>0. life # 0
      BY DEF Registered, Phase
    <3>1. lives' = ls
      <4>1. LifeInv(ls[life])
        BY <3>0, Current DEF AreSound
      <4>2. ls[life] \in Coordinators
        BY <4>1 DEF LifeInv
      <4> QED
        BY <1>5, <4>2 DEF Coordinators
    <3>2. ls[life].skip /\ Skipped(ls)
      BY <3>1 DEF Skipped
    <3>3. new = options
      <4>1. CASE new # options
        <5>1. lives' = [ls EXCEPT ![life].skip = FALSE]
          BY <3>2, <4>1 DEF Update
        <5>2. life \in 1..MaxLives /\ ls \in [1..MaxLives -> Coordinators]
          BY <3>0, Current DEF AreSound
        <5>3. lives'[life].skip = FALSE
          BY <5>1, <5>2 DEF Coordinators
        <5> QED
          BY <5>3
      <4> QED
        BY <4>1
    <3>4. own \/ leftover
      <4>1. CASE ~own
        <5>1. lives[life].skip
          BY <3>0, <3>2, <4>1
        <5> QED
          BY <1>0, <5>1 DEF FollowsOptions
      <4> QED
        BY <4>1
    <3> QED
      BY <3>2, <3>3, <3>4 DEF Update
  <2>2. Phase' = "refreshing" => ~lives'[life].skip
    <3> SUFFICES ASSUME Phase = "refreshing"
                 PROVE  ~lives'[life].skip
      BY <1>7
    <3>1. life # 0 /\ ~Registered
      BY DEF Phase, Registered
    <3>2. lives' = ls /\ ls[life] = lives[life]
      BY <1>1, <1>2, <3>1
    <3> QED
      BY <1>0, <3>2 DEF FollowsOptions
  <2>3. ASSUME Phase \in {"refreshing", "starting", "preparing", "running"}, reloads' = 0, ~missed'
        PROVE  Follows(lives'[life], new)
    <3>0. life # 0
      BY <2>3 DEF Phase
    <3>1. life \in 1..MaxLives /\ reloads \in Nat
      BY <3>0, Current, Bounds
    <3>2. reloads = 0 /\ ~missed
      <4>1. reloads' = reloads \/ reloads' = reloads + 1
        BY <1>2
      <4>2. reloads = 0
        BY <2>3, <3>1, <4>1
      <4> QED
        BY <1>2, <2>3, <4>2
    <3>3. Follows(lives[life], options)
      BY <1>0, <2>3, <3>2 DEF FollowsOptions
    <3>4. Follows(ls[life], new)
      <4>1. CASE own
        BY <2>3, <3>0, <3>3, <4>1
      <4>2. CASE ~own /\ new = options
        BY <3>0, <3>3, <4>2
      <4>3. CASE ~own /\ new # options
        <5>1. Phase # "refreshing" /\ ~(Skipped(ls) /\ leftover)
          BY <2>3, <4>3 DEF Update
        <5>2. Registered /\ Listening
          BY <2>3, <5>1 DEF Registered, Listening
        <5>3. Skipped(ls)
          BY <2>3, <3>1, <4>3, <5>2 DEF Update
        <5>4. lives[life].skip
          BY <3>0, <4>3, <5>3 DEF Skipped
        <5> QED
          BY <1>0, <5>1, <5>2, <5>3, <5>4 DEF FollowsOptions
      <4> QED
        BY <4>1, <4>2, <4>3
    <3>5. CASE lives' = ls
      BY <3>4, <3>5
    <3>6. CASE lives' # ls
      <4>1. lives'[life] = [ls[life] EXCEPT !.skip = FALSE]
        BY <1>5, <3>6
      <4>2. LifeInv(ls[life])
        BY <3>1 DEF AreSound
      <4>3. ls[life] \in Coordinators
        BY <4>2 DEF LifeInv
      <4>4. lives'[life].mode = ls[life].mode /\ lives'[life].confirmed = ls[life].confirmed
            /\ lives'[life].history = ls[life].history /\ lives'[life].nominal = ls[life].nominal
        BY <4>1, <4>3 DEF Coordinators
      <4> QED
        BY <3>4, <4>4 DEF Follows
    <3> QED
      BY <3>5, <3>6
  <2> QED
    BY <1>2, <1>7, <2>1, <2>2, <2>3 DEF FollowsOptions
<1> QED
  BY <1>4, <1>6, <1>8, <1>9, <1>10 DEF LifetimesInv

(***************************************************************************)
(* Steps beside the setup: a life changes in what the options do not say.  *)
(***************************************************************************)
LEMMA BesideKeeps ==
    ASSUME LifetimesInv, NEW l \in 1..life, NEW c, LifeInv(c),
           lives' = [lives EXCEPT ![l] = c], c.phase = lives[l].phase,
           UNCHANGED <<entryVars, lock, life>>, facts' \in 0..MaxFacts,
           c.phase # "gone" => /\ c.mode = lives[l].mode /\ c.confirmed = lives[l].confirmed
                               /\ c.nominal = lives[l].nominal /\ c.skip = lives[l].skip
                               /\ c.history.enabled = lives[l].history.enabled
    PROVE  LifetimesInv'
<1>0. Scalars /\ LivesAreSound /\ LockMatchesPhase /\ LivesAreAskedFor /\ FollowsOptions
  BY DEF LifetimesInv
<1>1. l \in 1..MaxLives /\ life \in 1..MaxLives /\ life \in Nat /\ life # 0
  BY Living, Current, Bounds
<1>2. Scalars'
  BY <1>0 DEF Scalars, entryVars
<1>3. LivesAreSound'
  <2>1. AreSound([lives EXCEPT ![l] = c], life)
    BY <1>0, <1>1, OneChanges DEF LivesAreSound
  <2> QED
    BY <2>1 DEF LivesAreSound
<1>4. lives'[l] = c /\ \A k \in 1..MaxLives : k # l => lives'[k] = lives[k]
  BY <1>0, <1>1 DEF LivesAreSound, AreSound
<1>5. Phase' = Phase /\ Phase = lives[life].phase
  BY <1>1, <1>4 DEF Phase
<1>6. LockMatchesPhase' /\ LivesAreAskedFor'
  BY <1>0, <1>5 DEF LockMatchesPhase, Before, LivesAreAskedFor, entryVars
<1>7. FollowsOptions'
  <2>1. Phase # "gone" => /\ lives'[life].mode = lives[life].mode
                          /\ lives'[life].confirmed = lives[life].confirmed
                          /\ lives'[life].nominal = lives[life].nominal
                          /\ lives'[life].skip = lives[life].skip
                          /\ lives'[life].history.enabled = lives[life].history.enabled
    BY <1>1, <1>4, <1>5
  <2>2. Registered' <=> Registered
    BY <1>5 DEF Registered
  <2>3. Registered => Phase # "gone"
    BY DEF Registered
  <2> QED
    BY <1>0, <1>5, <2>1, <2>2, <2>3 DEF FollowsOptions, Follows, entryVars
<1> QED
  BY <1>2, <1>3, <1>6, <1>7 DEF LifetimesInv

LEMMA BeginCommandKeeps == LifetimesInv /\ BeginCommand => LifetimesInv'
<1> SUFFICES ASSUME LifetimesInv, NEW l \in 1..life, NEW value \in Limits,
                    \/ lives[l].ticking /\ lives[l].mode = "Production"
                    \/ l = life /\ Registered /\ lives[l].mode = "Manual",
                    lives' = [lives EXCEPT ![l].command = value],
                    UNCHANGED <<entryVars, lock, life, facts>>
             PROVE  LifetimesInv'
  BY DEF BeginCommand
<1> DEFINE c == [lives[l] EXCEPT !.command = value]
<1>1. LifeInv(lives[l]) /\ lives[l] \in Coordinators
  BY Living DEF LifeInv
<1>2. lives[l].phase \notin Before \ {"starting", "preparing"}
  <2>1. CASE lives[l].ticking
    BY <1>1, <2>1 DEF LifeInv
  <2>2. CASE l = life /\ Registered
    BY <2>2, Living, Current DEF Registered, Before
  <2> QED
    BY <2>1, <2>2
<1>3. c \in Coordinators
  BY <1>1 DEF Coordinators
<1>4. c.phase = lives[l].phase /\ c.ticking = lives[l].ticking
      /\ c.history = lives[l].history /\ c.mode = lives[l].mode
      /\ c.confirmed = lives[l].confirmed /\ c.nominal = lives[l].nominal
      /\ c.skip = lives[l].skip
  BY <1>1 DEF Coordinators
<1>5. lives' = [lives EXCEPT ![l] = c]
  OBVIOUS
<1>6. facts' \in 0..MaxFacts
  BY DEF LifetimesInv, Scalars
<1> HIDE DEF c
<1>7. LifeInv(c)
  BY <1>1, <1>2, <1>3, <1>4, QuietLife
<1> QED
  BY <1>4, <1>5, <1>6, <1>7, BesideKeeps

LEMMA CommandFailsKeeps == LifetimesInv /\ CommandFails => LifetimesInv'
<1> SUFFICES ASSUME LifetimesInv, NEW l \in 1..life,
                    lives' = [lives EXCEPT ![l] = Kept([@ EXCEPT !.command = NoLimit])],
                    UNCHANGED <<entryVars, lock, life, facts>>
             PROVE  LifetimesInv'
  BY DEF CommandFails
<1> DEFINE d == [lives[l] EXCEPT !.command = NoLimit]
           c == Kept(d)
<1>1. LifeInv(lives[l]) /\ lives[l] \in Coordinators
  BY Living DEF LifeInv
<1>2. d \in Coordinators
  BY <1>1 DEF Coordinators
<1>3. d.phase = lives[l].phase /\ d.ticking = lives[l].ticking
      /\ d.history = lives[l].history /\ d.mode = lives[l].mode
      /\ d.confirmed = lives[l].confirmed /\ d.nominal = lives[l].nominal
      /\ d.skip = lives[l].skip /\ d.command = NoLimit
  BY <1>1 DEF Coordinators
<1>4. lives' = [lives EXCEPT ![l] = c]
  BY <1>1, Living DEF LifetimesInv, LivesAreSound, AreSound
<1>5. facts' \in 0..MaxFacts
  BY DEF LifetimesInv, Scalars
<1> HIDE DEF d
<1>6. LifeInv(d)
  BY <1>1, <1>2, <1>3, QuietLife
<1>7. LifeInv(c) /\ c.phase = d.phase /\ (d.phase # "gone" => c = d)
  BY <1>6, KeptLife
<1> HIDE DEF c
<1>8. c.phase = lives[l].phase
      /\ (c.phase # "gone" => /\ c.mode = lives[l].mode /\ c.confirmed = lives[l].confirmed
                              /\ c.nominal = lives[l].nominal /\ c.skip = lives[l].skip
                              /\ c.history.enabled = lives[l].history.enabled)
  BY <1>3, <1>7
<1> QED
  BY <1>4, <1>5, <1>7, <1>8, BesideKeeps

LEMMA RefreshKeeps == LifetimesInv /\ (RefreshBegins \/ RefreshEnds) => LifetimesInv'
<1> SUFFICES ASSUME LifetimesInv, NEW refresh \in BOOLEAN, Listening,
                    lives' = [lives EXCEPT ![life].refresh = refresh],
                    UNCHANGED <<entryVars, lock, life, facts>>
             PROVE  LifetimesInv'
  BY DEF RefreshBegins, RefreshEnds, Listening, Registered
<1> DEFINE c == [lives[life] EXCEPT !.refresh = refresh]
<1>1. life # 0
  BY DEF Listening, Registered, Phase
<1>2. life \in 1..life /\ LifeInv(lives[life]) /\ lives[life] \in Coordinators
  BY <1>1, Current DEF LifeInv
<1>3. c \in Coordinators
  BY <1>2 DEF Coordinators
<1>4. c.phase = lives[life].phase /\ c.ticking = lives[life].ticking
      /\ c.history = lives[life].history /\ c.mode = lives[life].mode
      /\ c.confirmed = lives[life].confirmed /\ c.nominal = lives[life].nominal
      /\ c.skip = lives[life].skip /\ c.command = lives[life].command
  BY <1>2 DEF Coordinators
<1>5. lives' = [lives EXCEPT ![life] = c]
  OBVIOUS
<1>6. facts' \in 0..MaxFacts
  BY DEF LifetimesInv, Scalars
<1> HIDE DEF c
<1>7. LifeInv(c)
  BY <1>2, <1>3, <1>4, QuietLife DEF LifeInv
<1> QED
  BY <1>2, <1>4, <1>5, <1>6, <1>7, BesideKeeps

\* A life whose history has changed.
LEMMA HistoryChanges ==
    ASSUME NEW c, LifeInv(c), NEW h, HistoryInv(h), h.enabled = c.history.enabled,
           c.phase \notin Before, c.phase \in Over => h.worker = "none",
           NEW d, d = [c EXCEPT !.history = h]
    PROVE  /\ LifeInv(d) /\ d.phase = c.phase /\ d.mode = c.mode
           /\ d.confirmed = c.confirmed /\ d.nominal = c.nominal /\ d.skip = c.skip
           /\ d.history.enabled = c.history.enabled
<1>1. c \in Coordinators /\ h \in Histories
  BY DEF LifeInv, HistoryInv
<1>2. d \in Coordinators
  BY <1>1 DEF Coordinators
<1>3. d.history = h /\ d.phase = c.phase /\ d.mode = c.mode /\ d.confirmed = c.confirmed
      /\ d.nominal = c.nominal /\ d.skip = c.skip /\ d.ticking = c.ticking
      /\ d.command = c.command
  BY <1>1 DEF Coordinators
<1> QED
  BY <1>2, <1>3 DEF LifeInv

LEMMA RecordKeeps == LifetimesInv /\ Record => LifetimesInv'
<1> SUFFICES ASSUME LifetimesInv, NEW l \in 1..life, lives[l].ticking,
                    lives' = [lives EXCEPT ![l].history = Recorded(@)],
                    facts' = facts + lives'[l].history.queued - lives[l].history.queued,
                    facts' <= MaxFacts, UNCHANGED <<entryVars, lock, life>>
             PROVE  LifetimesInv'
  BY DEF Record
<1> DEFINE h == Recorded(lives[l].history)
           c == [lives[l] EXCEPT !.history = h]
<1>1. LifeInv(lives[l]) /\ l \in 1..MaxLives
      /\ lives \in [1..MaxLives -> Coordinators]
  BY Living DEF LifetimesInv, LivesAreSound, AreSound
<1>2. lives[l].phase \notin Before \cup Over
  BY <1>1 DEF LifeInv
<1>3. HistoryInv(lives[l].history)
  BY <1>1 DEF LifeInv
<1>4. HistoryInv(h) /\ h.enabled = lives[l].history.enabled
      /\ h.queued \in {lives[l].history.queued, lives[l].history.queued + 1}
  BY <1>3, RecordedKept
<1>5. lives' = [lives EXCEPT ![l] = c] /\ lives'[l].history = h
  BY <1>1 DEF Coordinators
<1> HIDE DEF h
<1>6. LifeInv(c) /\ c.phase = lives[l].phase /\ c.mode = lives[l].mode
      /\ c.confirmed = lives[l].confirmed /\ c.nominal = lives[l].nominal
      /\ c.skip = lives[l].skip /\ c.history.enabled = lives[l].history.enabled
  BY <1>1, <1>2, <1>4, HistoryChanges
<1>7. facts' \in 0..MaxFacts
  <2>1. facts \in Nat /\ MaxFacts \in Nat
    BY Numbers DEF LifetimesInv, Scalars
  <2>2. lives[l].history.queued \in Nat
    BY <1>3, FieldTypes DEF HistoryInv
  <2>3. CASE h.queued = lives[l].history.queued
    <3>1. facts' = facts
      BY <1>5, <2>1, <2>2, <2>3
    <3> QED
      BY <2>1, <3>1
  <2>4. CASE h.queued = lives[l].history.queued + 1
    <3>1. facts' = facts + 1
      BY <1>5, <2>1, <2>2, <2>4
    <3> QED
      BY <2>1, <3>1
  <2> QED
    BY <1>4, <2>3, <2>4
<1> HIDE DEF c
<1> QED
  BY <1>5, <1>6, <1>7, BesideKeeps

LEMMA WorkerStepsKeeps == LifetimesInv /\ WorkerSteps => LifetimesInv'
<1> SUFFICES ASSUME LifetimesInv, NEW l \in 1..life, NEW h,
                    \/ CanTake(lives[l].history) /\ h = Taken(lives[l].history)
                    \/ CanResume(lives[l].history) /\ h = Resumed(lives[l].history)
                    \/ CanEnd(lives[l].history) /\ h = Ended(lives[l].history),
                    lives' = [lives EXCEPT ![l].history = h],
                    UNCHANGED <<entryVars, lock, life, facts>>
             PROVE  LifetimesInv'
  BY DEF WorkerSteps
<1> DEFINE c == [lives[l] EXCEPT !.history = h]
<1>1. LifeInv(lives[l]) /\ l \in 1..MaxLives
      /\ lives \in [1..MaxLives -> Coordinators]
  BY Living DEF LifetimesInv, LivesAreSound, AreSound
<1>2. lives[l].phase \notin Before \cup Over
  <2>1. lives[l].history.worker # "none"
    BY DEF CanTake, CanResume, CanEnd
  <2> QED
    BY <1>1, <2>1 DEF LifeInv
<1>3. HistoryInv(lives[l].history)
  BY <1>1 DEF LifeInv
<1>4. HistoryInv(h) /\ h.enabled = lives[l].history.enabled
  BY <1>3, TakenKept, ResumedKept, EndedKept
<1>5. lives' = [lives EXCEPT ![l] = c]
  OBVIOUS
<1>6. LifeInv(c) /\ c.phase = lives[l].phase /\ c.mode = lives[l].mode
      /\ c.confirmed = lives[l].confirmed /\ c.nominal = lives[l].nominal
      /\ c.skip = lives[l].skip /\ c.history.enabled = lives[l].history.enabled
  BY <1>1, <1>2, <1>4, HistoryChanges
<1>7. facts' \in 0..MaxFacts
  BY DEF LifetimesInv, Scalars
<1> HIDE DEF c
<1> QED
  BY <1>5, <1>6, <1>7, BesideKeeps

LEMMA ThreadAnswersKeeps == LifetimesInv /\ ThreadAnswers => LifetimesInv'
<1> SUFFICES ASSUME LifetimesInv, NEW l \in 1..life,
                    NEW outcome \in {"ok", "oserror", "error"}, NEW n \in 0..BatchSize,
                    n <= Len(lives[l].history.batch),
                    CanAnswer(lives[l].history, outcome, n),
                    NEW h, h = Answered(lives[l].history, outcome, n),
                    lives' = [lives EXCEPT ![l] = Kept([@ EXCEPT !.history = h])],
                    UNCHANGED <<entryVars, lock, life, facts>>
             PROVE  LifetimesInv'
  BY DEF ThreadAnswers
<1> DEFINE d == [lives[l] EXCEPT !.history = h]
           c == Kept(d)
<1>1. LifeInv(lives[l]) /\ l \in 1..MaxLives
      /\ lives \in [1..MaxLives -> Coordinators]
  BY Living DEF LifetimesInv, LivesAreSound, AreSound
<1>2. lives[l].phase \notin Before
  <2>1. lives[l].history.thread # "idle"
    BY DEF CanAnswer
  <2> QED
    BY <1>1, <2>1 DEF LifeInv, NewHistory
<1>3. HistoryInv(lives[l].history)
      /\ (lives[l].phase \in Over => lives[l].history.worker = "none")
  BY <1>1 DEF LifeInv
<1>4. n \in 0..Len(lives[l].history.batch)
  <2>1. Len(lives[l].history.batch) \in Nat
    BY <1>3, FieldTypes DEF HistoryInv
  <2> QED
    BY <2>1, HistoryAssumption
<1>5. HistoryInv(h) /\ h.enabled = lives[l].history.enabled
      /\ h.worker = lives[l].history.worker
  BY <1>3, <1>4, AnsweredKept
<1>6. lives' = [lives EXCEPT ![l] = c]
  BY <1>1
<1>7. LifeInv(d) /\ d.phase = lives[l].phase /\ d.mode = lives[l].mode
      /\ d.confirmed = lives[l].confirmed /\ d.nominal = lives[l].nominal
      /\ d.skip = lives[l].skip /\ d.history.enabled = lives[l].history.enabled
  BY <1>1, <1>2, <1>3, <1>5, HistoryChanges
<1> HIDE DEF d
<1>8. LifeInv(c) /\ c.phase = d.phase /\ (d.phase # "gone" => c = d)
  BY <1>7, KeptLife
<1>9. facts' \in 0..MaxFacts
  BY DEF LifetimesInv, Scalars
<1> HIDE DEF c
<1>10. c.phase = lives[l].phase
       /\ (c.phase # "gone" => /\ c.mode = lives[l].mode /\ c.confirmed = lives[l].confirmed
                               /\ c.nominal = lives[l].nominal /\ c.skip = lives[l].skip
                               /\ c.history.enabled = lives[l].history.enabled)
  BY <1>7, <1>8
<1> QED
  BY <1>6, <1>8, <1>9, <1>10, BesideKeeps

(***************************************************************************)
(* Updates.                                                                *)
(***************************************************************************)
LEMMA OptionFields ==
    ASSUME LifetimesInv
    PROVE  /\ options \in Options /\ options.history \in BOOLEAN /\ options.nominal \in 1..2
           /\ options.confirmed \in Limits \cup {NoLimit}
           /\ options.mode \in Modes \cup {"absent", "Simulation"}
BY DEF LifetimesInv, Scalars, Options

LEMMA SubmitFormKeeps == LifetimesInv /\ SubmitForm => LifetimesInv'
<1> SUFFICES ASSUME LifetimesInv, NEW history \in BOOLEAN, NEW nominal \in 1..2, NEW new,
                    new = [mode |-> "absent", confirmed |-> NoLimit,
                           history |-> history, nominal |-> nominal],
                    Update(new, lives, FALSE), UNCHANGED <<lock, life, facts>>
             PROVE  LifetimesInv'
  BY DEF SubmitForm
<1>1. new \in Options
  BY DEF Options
<1>2. AreSound(lives, life)
  BY DEF LifetimesInv, LivesAreSound
<1> QED
  BY <1>1, <1>2, UpdateKeeps

LEMMA SelectModeKeeps == LifetimesInv /\ SelectMode => LifetimesInv'
<1> SUFFICES ASSUME LifetimesInv, Registered, NEW mode \in Modes, NEW new, NEW ls,
                    new = [options EXCEPT !.mode = mode],
                    ls = [lives EXCEPT ![life].mode = mode, ![life].skip = TRUE],
                    Update(new, ls, TRUE), UNCHANGED <<lock, life, facts>>
             PROVE  LifetimesInv'
  BY DEF SelectMode
<1> DEFINE c == [lives[life] EXCEPT !.mode = mode, !.skip = TRUE]
<1>0. life # 0 /\ Phase # "refreshing"
  BY DEF Registered, Phase
<1>1. life \in 1..MaxLives /\ life \in Nat /\ LifeInv(lives[life])
      /\ lives \in [1..MaxLives -> Coordinators] /\ AreSound(lives, life)
  BY <1>0, Current, Bounds DEF LifetimesInv, LivesAreSound, AreSound
<1>2. lives[life] \in Coordinators
  BY <1>1 DEF LifeInv
<1>3. c \in Coordinators
  BY <1>2 DEF Coordinators
<1>4. c.phase = lives[life].phase /\ c.ticking = lives[life].ticking
      /\ c.history = lives[life].history /\ c.mode = mode
      /\ c.confirmed = lives[life].confirmed /\ c.nominal = lives[life].nominal
      /\ c.command = lives[life].command
  BY <1>2 DEF Coordinators
<1>5. ls = [lives EXCEPT ![life] = c]
  BY <1>1
<1> HIDE DEF c
<1>6. LifeInv(c)
  BY <1>1, <1>3, <1>4, QuietLife DEF LifeInv
<1>7. AreSound(ls, life) /\ ls[life] = c
  <2>1. AreSound([lives EXCEPT ![life] = c], life)
    BY <1>1, <1>4, <1>6, OneChanges
  <2> QED
    BY <1>1, <1>5, <2>1
<1>8. new \in Options /\ new.mode = mode /\ new.confirmed = options.confirmed
      /\ new.history = options.history /\ new.nominal = options.nominal
  BY OptionFields DEF Options
<1>9. Follows(lives[life], options) => Follows(ls[life], new)
  BY <1>4, <1>7, <1>8 DEF Follows, Restored
<1> QED
  BY <1>0, <1>4, <1>7, <1>8, <1>9, UpdateKeeps

LEMMA SetNominalPowerKeeps == LifetimesInv /\ SetNominalPower => LifetimesInv'
<1> SUFFICES ASSUME LifetimesInv, Registered, NEW nominal \in 1..2, NEW new, NEW ls,
                    new = [options EXCEPT !.nominal = nominal],
                    ls = [lives EXCEPT ![life].nominal = nominal],
                    Update(new, ls, TRUE), UNCHANGED <<lock, life, facts>>
             PROVE  LifetimesInv'
  BY DEF SetNominalPower
<1> DEFINE c == [lives[life] EXCEPT !.nominal = nominal]
<1>0. life # 0 /\ Phase # "refreshing"
  BY DEF Registered, Phase
<1>1. life \in 1..MaxLives /\ life \in Nat /\ LifeInv(lives[life])
      /\ lives \in [1..MaxLives -> Coordinators] /\ AreSound(lives, life)
  BY <1>0, Current, Bounds DEF LifetimesInv, LivesAreSound, AreSound
<1>2. lives[life] \in Coordinators
  BY <1>1 DEF LifeInv
<1>3. c \in Coordinators
  BY <1>2 DEF Coordinators
<1>4. c.phase = lives[life].phase /\ c.ticking = lives[life].ticking
      /\ c.history = lives[life].history /\ c.mode = lives[life].mode
      /\ c.confirmed = lives[life].confirmed /\ c.nominal = nominal
      /\ c.command = lives[life].command
  BY <1>2 DEF Coordinators
<1>5. ls = [lives EXCEPT ![life] = c]
  BY <1>1
<1> HIDE DEF c
<1>6. LifeInv(c)
  BY <1>1, <1>3, <1>4, QuietLife DEF LifeInv
<1>7. AreSound(ls, life) /\ ls[life] = c
  <2>1. AreSound([lives EXCEPT ![life] = c], life)
    BY <1>1, <1>4, <1>6, OneChanges
  <2> QED
    BY <1>1, <1>5, <2>1
<1>8. new \in Options /\ new.mode = options.mode /\ new.confirmed = options.confirmed
      /\ new.history = options.history /\ new.nominal = nominal
  BY OptionFields DEF Options
<1>9. Follows(lives[life], options) => Follows(ls[life], new)
  BY <1>4, <1>7, <1>8 DEF Follows
<1> QED
  BY <1>0, <1>4, <1>7, <1>8, <1>9, UpdateKeeps

LEMMA CommandConfirmedKeeps == LifetimesInv /\ CommandConfirmed => LifetimesInv'
<1> SUFFICES ASSUME LifetimesInv, NEW l \in 1..life, NEW value, value = lives[l].command,
                    value # NoLimit, NEW new, NEW ls,
                    new = [options EXCEPT !.confirmed = value],
                    ls = [lives EXCEPT ![l] = Kept([@ EXCEPT !.confirmed = value,
                                                             !.skip = TRUE,
                                                             !.command = NoLimit])],
                    Update(new, ls, l = life), UNCHANGED <<lock, life, facts>>
             PROVE  LifetimesInv'
  BY DEF CommandConfirmed
<1> DEFINE d == [lives[l] EXCEPT !.confirmed = value, !.skip = TRUE, !.command = NoLimit]
           c == Kept(d)
<1>1. l \in 1..MaxLives /\ life \in 1..MaxLives /\ life \in Nat /\ life # 0
      /\ LifeInv(lives[l]) /\ lives \in [1..MaxLives -> Coordinators]
      /\ AreSound(lives, life)
  BY Living, Current, Bounds DEF LifetimesInv, LivesAreSound, AreSound
<1>2. lives[l] \in Coordinators /\ value \in Limits \cup {NoLimit}
  BY <1>1, LifeFields DEF LifeInv
<1>3. d \in Coordinators
  BY <1>2 DEF Coordinators
<1>4. d.phase = lives[l].phase /\ d.ticking = lives[l].ticking
      /\ d.history = lives[l].history /\ d.mode = lives[l].mode
      /\ d.confirmed = value /\ d.nominal = lives[l].nominal /\ d.command = NoLimit
  BY <1>2 DEF Coordinators
<1>5. ls = [lives EXCEPT ![l] = c]
  BY <1>1
<1> HIDE DEF d
<1>6. LifeInv(d)
  BY <1>1, <1>3, <1>4, QuietLife
<1>7. LifeInv(c) /\ c.phase = d.phase /\ (d.phase # "gone" => c = d)
  BY <1>6, KeptLife
<1> HIDE DEF c
<1>8. AreSound(ls, life)
  <2>1. c.phase = lives[l].phase
    BY <1>4, <1>7
  <2>2. AreSound([lives EXCEPT ![l] = c], life)
    BY <1>1, <1>7, <2>1, OneChanges
  <2> QED
    BY <1>5, <2>2
<1>9. /\ ls[l] = c
      /\ l # life => ls[life] = lives[life]
  BY <1>1, <1>5
<1>10. ls[life].phase = lives[life].phase
  BY <1>4, <1>7, <1>9
<1>11. new \in Options /\ new.mode = options.mode /\ new.confirmed = value
       /\ new.history = options.history /\ new.nominal = options.nominal
  BY <1>2, OptionFields DEF Options
<1>12. lives[l].phase \notin Before \ {"starting", "preparing"}
  BY <1>1 DEF LifeInv
<1>13. CASE l # life
  <2>1. Update(new, ls, FALSE)
    BY <1>13
  <2> QED
    BY <1>8, <1>9, <1>10, <1>11, <1>13, <2>1, UpdateKeeps
<1>14. CASE l = life /\ Phase # "gone"
  <2>1. Update(new, ls, TRUE)
    BY <1>14
  <2>2. ls[life] = d /\ Phase # "refreshing"
    BY <1>1, <1>4, <1>7, <1>9, <1>12, <1>14, Current DEF Before, Over
  <2>3. Follows(lives[life], options) => Follows(ls[life], new)
    BY <1>4, <1>11, <1>14, <2>2 DEF Follows
  <2> QED
    BY <1>8, <1>10, <1>11, <2>1, <2>2, <2>3, UpdateKeeps
<1>15. CASE l = life /\ Phase = "gone"
  <2>1. Update(new, ls, TRUE)
    BY <1>15
  <2> QED
    BY <1>8, <1>10, <1>11, <1>15, <2>1, UpdateKeeps
<1> QED
  BY <1>13, <1>14, <1>15

(***************************************************************************)
(* The setup and the unload.                                               *)
(***************************************************************************)
LEMMA PhaseSteps ==
    ASSUME LifetimesInv, life # 0, NEW c, LifeInv(c), c.phase # "unborn",
           lives' = [lives EXCEPT ![life] = c], UNCHANGED life
    PROVE  LivesAreSound' /\ Phase' = c.phase /\ lives'[life] = c
<1>1. life \in 1..MaxLives /\ life \in Nat /\ AreSound(lives, life)
      /\ lives \in [1..MaxLives -> Coordinators]
  BY Current, Bounds DEF LifetimesInv, LivesAreSound, AreSound
<1>2. AreSound([lives EXCEPT ![life] = c], life)
  BY <1>1, OneChanges
<1>3. lives'[life] = c
  BY <1>1
<1> QED
  BY <1>2, <1>3 DEF LivesAreSound, Phase

LEMMA ReloadBeginsKeeps == LifetimesInv /\ ReloadBegins => LifetimesInv'
<1> SUFFICES ASSUME LifetimesInv, ReloadBegins
             PROVE  LifetimesInv'
  OBVIOUS
<1>0. Scalars /\ LivesAreSound /\ LockMatchesPhase /\ LivesAreAskedFor /\ FollowsOptions
  BY DEF LifetimesInv
<1>1. lock = "free" /\ reloads > 0 /\ reloads' = reloads - 1 /\ life' = life
      /\ options' = options /\ changes' = changes /\ leftover' = leftover
      /\ missed' = missed /\ facts' = facts
  BY DEF ReloadBegins
<1>2. Phase \in {"running", "failed"} /\ life # 0
  BY <1>0, <1>1 DEF ReloadBegins, LockMatchesPhase, Before, Phase
<1>3. reloads' \in Nat /\ life \in Nat /\ reloads \in Nat /\ changes \in Nat
  BY <1>1, Bounds
<1>4. life + reloads <= 1 + changes
  BY <1>0, <1>1, <1>3 DEF LivesAreAskedFor, Between, Over
<1>5. CASE Phase = "running"
  <2> DEFINE c == [lives[life] EXCEPT !.phase = "unloading"]
  <2>1. lives' = [lives EXCEPT ![life] = c] /\ lock' = "unload"
    BY <1>5 DEF ReloadBegins
  <2>2. LifeInv(lives[life]) /\ lives[life] \in Coordinators
    BY <1>2, Current DEF LifeInv
  <2>3. c \in Coordinators
    BY <2>2 DEF Coordinators, Phases
  <2>4. c.phase = "unloading" /\ c.history = lives[life].history /\ c.skip = lives[life].skip
    BY <2>2 DEF Coordinators
  <2> HIDE DEF c
  <2>5. LifeInv(c)
    BY <2>2, <2>3, <2>4, LateLife, LifeFields DEF Before, Over
  <2>6. LivesAreSound' /\ Phase' = "unloading" /\ lives'[life] = c
    BY <1>1, <1>2, <2>1, <2>4, <2>5, PhaseSteps
  <2>7. Scalars'
    BY <1>0, <1>1, <1>3, <2>1 DEF Scalars
  <2>8. LockMatchesPhase'
    BY <2>1, <2>6 DEF LockMatchesPhase, Before
  <2>9. LivesAreAskedFor'
    <3>1. life + (reloads - 1) + 1 <= 1 + changes
      BY <1>3, <1>4
    <3> QED
      BY <1>1, <2>1, <2>6, <3>1 DEF LivesAreAskedFor, Between, Over
  <2>10. FollowsOptions'
    <3>1. Registered
      BY <1>5 DEF Registered
    <3> QED
      BY <1>0, <1>1, <2>4, <2>6, <3>1 DEF FollowsOptions
  <2> QED
    BY <2>6, <2>7, <2>8, <2>9, <2>10 DEF LifetimesInv
<1>6. CASE Phase = "failed"
  <2>1. lives' = lives /\ lock' = "setup" /\ Phase' = Phase
    BY <1>1, <1>6 DEF ReloadBegins, Phase
  <2>2. Scalars' /\ LivesAreSound' /\ LockMatchesPhase'
    BY <1>0, <1>1, <1>3, <1>6, <2>1 DEF Scalars, LivesAreSound, LockMatchesPhase, Before
  <2>3. LivesAreAskedFor'
    <3>1. life + (reloads - 1) + 0 <= 1 + changes
      BY <1>3, <1>4
    <3> QED
      BY <1>1, <1>6, <2>1, <3>1 DEF LivesAreAskedFor, Between, Over
  <2>4. FollowsOptions'
    BY <1>6, <2>1 DEF FollowsOptions, Registered
  <2> QED
    BY <2>2, <2>3, <2>4 DEF LifetimesInv
<1> QED
  BY <1>2, <1>5, <1>6

LEMMA ReloadRefusedKeeps == LifetimesInv /\ ReloadRefused => LifetimesInv'
<1> SUFFICES ASSUME LifetimesInv, ReloadRefused
             PROVE  LifetimesInv'
  OBVIOUS
<1>0. Scalars /\ LivesAreSound /\ LockMatchesPhase /\ LivesAreAskedFor /\ FollowsOptions
  BY DEF LifetimesInv
<1>1. lock = "free" /\ reloads > 0 /\ reloads' = reloads - 1 /\ Phase = "stuck"
      /\ life' = life /\ lives' = lives /\ lock' = lock /\ options' = options
      /\ changes' = changes /\ leftover' = leftover /\ missed' = missed /\ facts' = facts
  BY DEF ReloadRefused
<1>2. Phase' = "stuck"
  BY <1>1 DEF Phase
<1>3. reloads' \in Nat /\ life \in Nat /\ reloads \in Nat /\ changes \in Nat
  BY <1>1, Bounds
<1>4. Scalars' /\ LivesAreSound' /\ LockMatchesPhase'
  BY <1>0, <1>1, <1>2, <1>3 DEF Scalars, LivesAreSound, LockMatchesPhase
<1>5. LivesAreAskedFor'
  <2>1. life + reloads + 0 <= 1 + changes
    BY <1>0, <1>1 DEF LivesAreAskedFor
  <2>2. life + (reloads - 1) + 0 <= 1 + changes
    BY <1>3, <2>1
  <2> QED
    BY <1>1, <2>2 DEF LivesAreAskedFor
<1>6. FollowsOptions'
  BY <1>0, <1>1, <1>2 DEF FollowsOptions, Registered
<1> QED
  BY <1>4, <1>5, <1>6 DEF LifetimesInv

LEMMA RetryBeginsKeeps == LifetimesInv /\ RetryBegins => LifetimesInv'
<1> SUFFICES ASSUME LifetimesInv, RetryBegins
             PROVE  LifetimesInv'
  OBVIOUS
<1>0. Scalars /\ LivesAreSound /\ LockMatchesPhase /\ LivesAreAskedFor /\ FollowsOptions
  BY DEF LifetimesInv
<1>1. lock = "free" /\ Phase = "failed" /\ lock' = "setup" /\ life' = life /\ lives' = lives
      /\ options' = options /\ changes' = changes /\ leftover' = leftover
      /\ missed' = missed /\ facts' = facts /\ reloads' = reloads
  BY DEF RetryBegins, entryVars
<1>2. Phase' = "failed"
  BY <1>1 DEF Phase
<1>3. Scalars' /\ LivesAreSound' /\ LockMatchesPhase'
  BY <1>0, <1>1, <1>2 DEF Scalars, LivesAreSound, LockMatchesPhase, Before
<1>4. LivesAreAskedFor'
  BY <1>0, <1>1, <1>2 DEF LivesAreAskedFor, Between, Over
<1>5. FollowsOptions'
  BY <1>2 DEF FollowsOptions, Registered
<1> QED
  BY <1>3, <1>4, <1>5 DEF LifetimesInv

LEMMA ConstructKeeps == LifetimesInv /\ Construct => LifetimesInv'
<1> SUFFICES ASSUME LifetimesInv, Construct
             PROVE  LifetimesInv'
  OBVIOUS
<1> DEFINE migrated == IF options.mode = "Simulation"
                       THEN [options EXCEPT !.mode = "Manual"] ELSE options
           c == New("refreshing", migrated)
<1>0. Scalars /\ LivesAreSound /\ LockMatchesPhase /\ LivesAreAskedFor /\ FollowsOptions
  BY DEF LifetimesInv
<1>1. lock = "setup" /\ options' = migrated /\ lock' = lock /\ reloads' = reloads
      /\ changes' = changes /\ facts' = facts /\ leftover' = FALSE /\ missed' = FALSE
      /\ lives' = [lives EXCEPT ![life'] = c]
      /\ life' = (IF Phase = "failed" THEN life ELSE life + 1)
  BY DEF Construct
<1>2. Phase \in {"unborn", "failed", "gone"}
  BY <1>0 DEF Construct, LockMatchesPhase, Before
<1>3. migrated \in Options
  BY OptionFields DEF Options, Modes
<1> HIDE DEF migrated
<1>4. LifeInv(c) /\ c.phase = "refreshing" /\ Follows(c, migrated) /\ c.skip = FALSE
  BY <1>3, NewLife DEF Before, Over
<1>5. c \in Coordinators
  BY <1>4 DEF LifeInv
<1> HIDE DEF c
<1>6. life \in Nat /\ reloads \in Nat /\ changes \in Nat /\ changes <= MaxChanges
  BY Bounds
<1>7. life' \in 1..MaxLives /\ life' \in Nat /\ life' + reloads + 0 <= 1 + changes
  <2>1. CASE Phase = "failed"
    <3>1. life \in 1..MaxLives
      BY <2>1, Current
    <3>2. life + reloads + 0 <= 1 + changes
      BY <1>0, <2>1 DEF LivesAreAskedFor, Between, Over
    <3> QED
      BY <1>1, <1>6, <2>1, <3>1, <3>2
  <2>2. CASE Phase # "failed"
    <3>1. life + reloads + 1 <= 1 + changes
      BY <1>0, <1>1, <1>2, <2>2 DEF LivesAreAskedFor, Between, Over
    <3> QED
      BY <1>1, <1>6, <2>2, <3>1, Numbers
  <2> QED
    BY <2>1, <2>2
<1>8. lives \in [1..MaxLives -> Coordinators]
  BY <1>0 DEF LivesAreSound, AreSound
<1>9. lives'[life'] = c /\ \A k \in 1..MaxLives : k # life' => lives'[k] = lives[k]
  BY <1>1, <1>7, <1>8
<1>10. Phase' = "refreshing"
  BY <1>4, <1>7, <1>9 DEF Phase
<1>11. LivesAreSound'
  <2>1. lives' \in [1..MaxLives -> Coordinators]
    BY <1>1, <1>5, <1>8
  <2>2. ASSUME NEW k \in 1..MaxLives
        PROVE  /\ LifeInv(lives'[k])
               /\ k > life' <=> lives'[k].phase = "unborn"
               /\ k < life' => lives'[k].phase = "gone"
    <3>1. CASE k = life'
      <4>1. ~(k > life') /\ ~(k < life')
        BY <1>7, <3>1
      <4> QED
        BY <1>4, <1>9, <3>1, <4>1
    <3>2. CASE k # life'
      <4>0. /\ lives'[k] = lives[k] /\ LifeInv(lives[k])
            /\ k > life <=> lives[k].phase = "unborn"
            /\ k < life => lives[k].phase = "gone"
        BY <1>0, <1>9, <3>2 DEF LivesAreSound, AreSound
      <4>1. k > life' <=> k > life
        BY <1>1, <1>6, <3>2
      <4>2. k < life' => lives[k].phase = "gone"
        <5> SUFFICES ASSUME k < life'
                     PROVE  lives[k].phase = "gone"
          OBVIOUS
        <5>1. CASE k < life
          BY <4>0, <5>1
        <5>2. CASE ~(k < life)
          <6>1. k = life /\ Phase # "failed"
            BY <1>1, <1>6, <5>2
          <6>2. Phase = lives[life].phase /\ Phase # "unborn"
            BY <6>1, Current
          <6> QED
            BY <1>2, <6>1, <6>2
        <5> QED
          BY <5>1, <5>2
      <4> QED
        BY <4>0, <4>1, <4>2
    <3> QED
      BY <3>1, <3>2
  <2> QED
    BY <2>1, <2>2 DEF LivesAreSound, AreSound
<1>12. Scalars'
  BY <1>0, <1>1, <1>3, <1>7 DEF Scalars
<1>13. LockMatchesPhase'
  BY <1>1, <1>10 DEF LockMatchesPhase, Before
<1>14. LivesAreAskedFor'
  BY <1>1, <1>7, <1>10 DEF LivesAreAskedFor, Between, Over
<1>15. FollowsOptions'
  BY <1>1, <1>4, <1>9, <1>10 DEF FollowsOptions, Registered
<1> QED
  BY <1>11, <1>12, <1>13, <1>14, <1>15 DEF LifetimesInv

LEMMA FirstRefreshKeeps == LifetimesInv /\ (FirstRefreshed \/ FirstRefreshFails) => LifetimesInv'
<1> SUFFICES ASSUME LifetimesInv, NEW phase \in {"starting", "failed"}, Phase = "refreshing",
                    lives' = [lives EXCEPT ![life].phase = phase],
                    lock' = IF phase = "failed" THEN "free" ELSE lock,
                    UNCHANGED <<entryVars, life, facts>>
             PROVE  LifetimesInv'
  BY DEF FirstRefreshed, FirstRefreshFails
<1> DEFINE c == [lives[life] EXCEPT !.phase = phase]
<1>0. Scalars /\ LivesAreSound /\ LockMatchesPhase /\ LivesAreAskedFor /\ FollowsOptions
  BY DEF LifetimesInv
<1>1. life # 0 /\ LifeInv(lives[life]) /\ lives[life] \in Coordinators
      /\ lives[life].phase = "refreshing"
  BY Current DEF Phase, LifeInv
<1>2. lock = "setup"
  BY <1>0 DEF LockMatchesPhase, Before, Scalars
<1>3. c \in Coordinators
  BY <1>1 DEF Coordinators, Phases
<1>4. c.phase = phase /\ c.ticking = lives[life].ticking /\ c.history = lives[life].history
      /\ c.command = lives[life].command /\ c.mode = lives[life].mode
      /\ c.confirmed = lives[life].confirmed /\ c.nominal = lives[life].nominal
      /\ c.skip = lives[life].skip
  BY <1>1 DEF Coordinators
<1>5. lives' = [lives EXCEPT ![life] = c]
  OBVIOUS
<1> HIDE DEF c
<1>6. LifeInv(c)
  BY <1>1, <1>3, <1>4 DEF LifeInv, Before, Over
<1>7. LivesAreSound' /\ Phase' = phase /\ lives'[life] = c
  BY <1>1, <1>4, <1>5, <1>6, PhaseSteps
<1>8. Scalars' /\ LockMatchesPhase'
  BY <1>0, <1>2, <1>7 DEF Scalars, LockMatchesPhase, Before, entryVars
<1>9. LivesAreAskedFor'
  BY <1>0, <1>7 DEF LivesAreAskedFor, Between, Over, entryVars
<1>10. FollowsOptions'
  <2>1. ~c.skip
    BY <1>0, <1>4 DEF FollowsOptions
  <2>2. reloads = 0 /\ ~missed => Follows(c, options)
    BY <1>0, <1>4 DEF FollowsOptions, Follows
  <2> QED
    BY <1>7, <2>1, <2>2 DEF FollowsOptions, entryVars
<1> QED
  BY <1>7, <1>8, <1>9, <1>10 DEF LifetimesInv

\* The ticks of a life begin, with the history as it was or just started.
LEMMA RunKeeps ==
    ASSUME LifetimesInv, Phase \in {"starting", "preparing"},
           NEW h, HistoryInv(h), h.enabled = lives[life].history.enabled,
           lives' = [lives EXCEPT ![life] = Run([@ EXCEPT !.history = h])],
           lock' = "free", UNCHANGED <<entryVars, life, facts>>
    PROVE  LifetimesInv'
<1> DEFINE c == [lives[life] EXCEPT !.history = h, !.ticking = TRUE, !.phase = "running"]
<1>0. Scalars /\ LivesAreSound /\ LockMatchesPhase /\ LivesAreAskedFor /\ FollowsOptions
  BY DEF LifetimesInv
<1>1. life # 0 /\ LifeInv(lives[life]) /\ lives[life] \in Coordinators
      /\ lives[life].phase \in {"starting", "preparing"} /\ life \in 1..MaxLives
  BY Current DEF Phase, LifeInv
<1>4. h \in Histories
  BY DEF HistoryInv
<1>5. c \in Coordinators
  BY <1>1, <1>4 DEF Coordinators, Phases
<1>6. c.phase = "running" /\ c.history = h /\ c.mode = lives[life].mode
      /\ c.confirmed = lives[life].confirmed /\ c.nominal = lives[life].nominal
      /\ c.skip = lives[life].skip
  BY <1>1 DEF Coordinators
<1>7. lives' = [lives EXCEPT ![life] = c]
  <2>1. Run([lives[life] EXCEPT !.history = h]) = c
    BY <1>1 DEF Run, Coordinators
  <2> QED
    BY <2>1
<1> HIDE DEF c
<1>8. LifeInv(c)
  BY <1>5, <1>6, LateLife DEF Before, Over
<1>9. LivesAreSound' /\ Phase' = "running" /\ lives'[life] = c
  BY <1>1, <1>6, <1>7, <1>8, PhaseSteps
<1>10. Scalars' /\ LockMatchesPhase'
  BY <1>0, <1>9 DEF Scalars, LockMatchesPhase, Before, entryVars
<1>11. LivesAreAskedFor'
  <2>1. Phase \notin Between
    BY DEF Between, Over
  <2> QED
    BY <1>0, <1>9, <2>1 DEF LivesAreAskedFor, Between, Over, entryVars
<1>12. FollowsOptions'
  <2>1. c.skip => leftover
    BY <1>0, <1>6 DEF FollowsOptions, Registered
  <2>2. reloads = 0 /\ ~missed => Follows(c, options)
    BY <1>0, <1>6 DEF FollowsOptions, Follows
  <2> QED
    BY <1>9, <2>1, <2>2 DEF FollowsOptions, entryVars
<1> QED
  BY <1>9, <1>10, <1>11, <1>12 DEF LifetimesInv

LEMMA ControllerStartsKeeps == LifetimesInv /\ ControllerStarts => LifetimesInv'
<1> SUFFICES ASSUME LifetimesInv, ControllerStarts
             PROVE  LifetimesInv'
  OBVIOUS
<1>0. Scalars /\ LivesAreSound /\ LockMatchesPhase /\ LivesAreAskedFor /\ FollowsOptions
  BY DEF LifetimesInv
<1>1. life # 0 /\ LifeInv(lives[life]) /\ lives[life] \in Coordinators
      /\ Phase = "starting" /\ lives[life].phase = "starting" /\ life \in 1..MaxLives
      /\ UNCHANGED <<entryVars, life, facts>>
  BY Current DEF ControllerStarts, Phase, LifeInv
<1>2. CASE ~lives[life].history.enabled
  <2> DEFINE h == lives[life].history
  <2>1. HistoryInv(h)
    BY <1>1 DEF LifeInv
  <2>2. lives[life] = [lives[life] EXCEPT !.history = h]
    BY <1>1 DEF Coordinators
  <2>3. lives' = [lives EXCEPT ![life] = Run(lives[life])] /\ lock' = "free"
    BY <1>2 DEF ControllerStarts
  <2>4. lives' = [lives EXCEPT ![life] = Run([lives[life] EXCEPT !.history = h])]
    BY <2>2, <2>3
  <2> QED
    BY <1>1, <2>1, <2>3, <2>4, RunKeeps
<1>3. CASE lives[life].history.enabled
  <2> DEFINE c == [lives[life] EXCEPT !.phase = "preparing"]
  <2>1. lives' = [lives EXCEPT ![life] = c] /\ lock' = lock
    BY <1>3 DEF ControllerStarts
  <2>2. c \in Coordinators
    BY <1>1 DEF Coordinators, Phases
  <2>3. c.phase = "preparing" /\ c.ticking = lives[life].ticking
        /\ c.history = lives[life].history /\ c.command = lives[life].command
        /\ c.mode = lives[life].mode /\ c.confirmed = lives[life].confirmed
        /\ c.nominal = lives[life].nominal /\ c.skip = lives[life].skip
    BY <1>1 DEF Coordinators
  <2> HIDE DEF c
  <2>4. LifeInv(c)
    BY <1>1, <2>2, <2>3 DEF LifeInv, Before, Over
  <2>5. LivesAreSound' /\ Phase' = "preparing" /\ lives'[life] = c
    BY <1>1, <2>1, <2>3, <2>4, PhaseSteps
  <2>6. lock = "setup"
    BY <1>0, <1>1 DEF LockMatchesPhase, Scalars
  <2>7. Scalars' /\ LockMatchesPhase'
    BY <1>0, <1>1, <2>1, <2>5, <2>6 DEF Scalars, LockMatchesPhase, Before, entryVars
  <2>8. LivesAreAskedFor'
    BY <1>0, <1>1, <2>1, <2>5 DEF LivesAreAskedFor, Between, Over, entryVars
  <2>9. FollowsOptions'
    <3>1. c.skip => leftover
      BY <1>0, <1>1, <2>3 DEF FollowsOptions, Registered
    <3>2. reloads = 0 /\ ~missed => Follows(c, options)
      BY <1>0, <1>1, <2>3 DEF FollowsOptions, Follows
    <3> QED
      BY <1>1, <2>5, <3>1, <3>2 DEF FollowsOptions, entryVars
  <2> QED
    BY <2>5, <2>7, <2>8, <2>9 DEF LifetimesInv
<1> QED
  BY <1>2, <1>3

LEMMA PreparationEndsKeeps == LifetimesInv /\ PreparationEnds => LifetimesInv'
<1> SUFFICES ASSUME LifetimesInv, PreparationEnds
             PROVE  LifetimesInv'
  OBVIOUS
<1> PICK prepared \in BOOLEAN :
        LET started == Started(lives[life].history, prepared)
        IN lives' = [lives EXCEPT ![life] = Run([@ EXCEPT !.history = started])]
  BY DEF PreparationEnds
<1> DEFINE h == Started(lives[life].history, prepared)
<1>4. lives' = [lives EXCEPT ![life] = Run([@ EXCEPT !.history = h])]
  OBVIOUS
<1>5. Phase = "preparing" /\ lock' = "free" /\ UNCHANGED <<entryVars, life, facts>>
  BY DEF PreparationEnds
<1>1. LifeInv(lives[life]) /\ lives[life].phase = "preparing"
  BY <1>5, Current DEF Phase
<1>2. HistoryInv(lives[life].history)
      /\ lives[life].history = NewHistory(lives[life].history.enabled)
  BY <1>1 DEF LifeInv, Before
<1>3. HistoryInv(h) /\ h.enabled = lives[life].history.enabled
  BY <1>2, StartedKept
<1> HIDE DEF h
<1> QED
  BY <1>3, <1>4, <1>5, RunKeeps

LEMMA PlatformsUnloadedKeeps == LifetimesInv /\ PlatformsUnloaded => LifetimesInv'
<1> SUFFICES ASSUME LifetimesInv, Phase = "unloading",
                    NEW h, h = StopBegun(lives[life].history),
                    lives' = [lives EXCEPT ![life].history = h, ![life].phase = "stopping"],
                    UNCHANGED <<entryVars, lock, life, facts>>
             PROVE  LifetimesInv'
  BY DEF PlatformsUnloaded
<1> DEFINE c == [lives[life] EXCEPT !.history = h, !.phase = "stopping"]
<1>0. Scalars /\ LivesAreSound /\ LockMatchesPhase /\ LivesAreAskedFor /\ FollowsOptions
  BY DEF LifetimesInv
<1>1. life # 0 /\ LifeInv(lives[life]) /\ lives[life] \in Coordinators
      /\ life \in 1..MaxLives
  BY Current DEF Phase, LifeInv
<1>2. HistoryInv(h) /\ h \in Histories
  BY <1>1, StopBegunKept DEF LifeInv, HistoryInv
<1>3. c \in Coordinators
  BY <1>1, <1>2 DEF Coordinators, Phases
<1>4. c.phase = "stopping" /\ c.history = h
  BY <1>1 DEF Coordinators
<1>5. lives' = [lives EXCEPT ![life] = c]
  BY <1>0, <1>1 DEF LivesAreSound, AreSound
<1> HIDE DEF c
<1>6. LifeInv(c)
  BY <1>2, <1>3, <1>4, LateLife DEF Before, Over
<1>7. LivesAreSound' /\ Phase' = "stopping"
  BY <1>1, <1>4, <1>5, <1>6, PhaseSteps
<1>8. lock = "unload"
  BY <1>0 DEF LockMatchesPhase, Before, Scalars
<1>9. Scalars' /\ LockMatchesPhase'
  BY <1>0, <1>7, <1>8 DEF Scalars, LockMatchesPhase, Before, entryVars
<1>10. LivesAreAskedFor'
  BY <1>0, <1>7, <1>8 DEF LivesAreAskedFor, Between, Over, entryVars
<1>11. FollowsOptions'
  BY <1>7 DEF FollowsOptions, Registered
<1> QED
  BY <1>7, <1>9, <1>10, <1>11 DEF LifetimesInv

LEMMA PlatformsStayKeeps == LifetimesInv /\ PlatformsStay => LifetimesInv'
<1> SUFFICES ASSUME LifetimesInv, Phase = "unloading",
                    lives' = [lives EXCEPT ![life].phase = "stuck"],
                    lock' = "free", UNCHANGED <<entryVars, life, facts>>
             PROVE  LifetimesInv'
  BY DEF PlatformsStay
<1> DEFINE c == [lives[life] EXCEPT !.phase = "stuck"]
<1>0. Scalars /\ LivesAreSound /\ LockMatchesPhase /\ LivesAreAskedFor /\ FollowsOptions
  BY DEF LifetimesInv
<1>1. life # 0 /\ LifeInv(lives[life]) /\ lives[life] \in Coordinators
  BY Current DEF Phase, LifeInv
<1>2. c \in Coordinators
  BY <1>1 DEF Coordinators, Phases
<1>3. c.phase = "stuck" /\ c.history = lives[life].history /\ c.skip = lives[life].skip
  BY <1>1 DEF Coordinators
<1>4. lives' = [lives EXCEPT ![life] = c]
  OBVIOUS
<1> HIDE DEF c
<1>5. LifeInv(c)
  BY <1>1, <1>2, <1>3, LateLife, LifeFields DEF Before, Over
<1>6. LivesAreSound' /\ Phase' = "stuck" /\ lives'[life] = c
  BY <1>1, <1>3, <1>4, <1>5, PhaseSteps
<1>7. Scalars' /\ LockMatchesPhase'
  BY <1>0, <1>6 DEF Scalars, LockMatchesPhase, Before, entryVars
<1>8. LivesAreAskedFor'
  <2> DEFINE turn == IF lock # "free" /\ Phase \in Between THEN 1 ELSE 0
  <2>1. life + reloads + turn <= 1 + changes
    BY <1>0 DEF LivesAreAskedFor
  <2>2. turn \in Nat
    OBVIOUS
  <2> HIDE DEF turn
  <2>3. life + reloads + 0 <= 1 + changes
    BY <2>1, <2>2, Bounds
  <2> QED
    BY <1>6, <2>3 DEF LivesAreAskedFor, entryVars
<1>9. FollowsOptions'
  BY <1>0, <1>3, <1>6 DEF FollowsOptions, Registered, entryVars
<1> QED
  BY <1>6, <1>7, <1>8, <1>9 DEF LifetimesInv

\* The end of the history and of the ticks, however the wait for the worker ended.
LEMMA ShutDownKeeps == LifetimesInv /\ (HistoryStops \/ HistoryTimesOut) => LifetimesInv'
<1> SUFFICES ASSUME LifetimesInv, Phase = "stopping",
                    lives' = [lives EXCEPT ![life] = ShutDown(lives[life])],
                    UNCHANGED <<entryVars, lock, life, facts>>
             PROVE  LifetimesInv'
  BY DEF HistoryStops, HistoryTimesOut
<1> DEFINE h == Stopped(lives[life].history)
           c == [lives[life] EXCEPT !.history = h, !.ticking = FALSE, !.phase = "closing"]
<1>0. Scalars /\ LivesAreSound /\ LockMatchesPhase /\ LivesAreAskedFor /\ FollowsOptions
  BY DEF LifetimesInv
<1>1. life # 0 /\ LifeInv(lives[life]) /\ lives[life] \in Coordinators
      /\ life \in 1..MaxLives
  BY Current DEF Phase, LifeInv
<1>2. ShutDown(lives[life]) = c
  BY <1>1 DEF ShutDown, Coordinators
<1>3. HistoryInv(h) /\ h \in Histories /\ h.worker = "none"
  BY <1>1, StoppedKept DEF LifeInv, HistoryInv
<1> HIDE DEF h
<1>4. c \in Coordinators
  BY <1>1, <1>3 DEF Coordinators, Phases
<1>5. c.phase = "closing" /\ c.history = h /\ c.ticking = FALSE
  BY <1>1 DEF Coordinators
<1> HIDE DEF c
<1>6. LifeInv(c)
  BY <1>3, <1>4, <1>5 DEF LifeInv, Before
<1>8. LivesAreSound' /\ Phase' = "closing"
  BY <1>1, <1>2, <1>5, <1>6, PhaseSteps
<1>9. lock = "unload"
  BY <1>0 DEF LockMatchesPhase, Before, Scalars
<1>10. Scalars' /\ LockMatchesPhase'
  BY <1>0, <1>8, <1>9 DEF Scalars, LockMatchesPhase, entryVars
<1>11. LivesAreAskedFor'
  BY <1>0, <1>8, <1>9 DEF LivesAreAskedFor, Between, Over, entryVars
<1>12. FollowsOptions'
  BY <1>8 DEF FollowsOptions, Registered
<1> QED
  BY <1>8, <1>10, <1>11, <1>12 DEF LifetimesInv

LEMMA ClientClosesKeeps == LifetimesInv /\ ClientCloses => LifetimesInv'
<1> SUFFICES ASSUME LifetimesInv, Phase = "closing",
                    lives' = [lives EXCEPT ![life] = Kept([@ EXCEPT !.phase = "gone"])],
                    lock' = "setup", UNCHANGED <<entryVars, life, facts>>
             PROVE  LifetimesInv'
  BY DEF ClientCloses
<1> DEFINE d == [lives[life] EXCEPT !.phase = "gone"]
           c == Kept(d)
<1>0. Scalars /\ LivesAreSound /\ LockMatchesPhase /\ LivesAreAskedFor /\ FollowsOptions
  BY DEF LifetimesInv
<1>1. life # 0 /\ LifeInv(lives[life]) /\ lives[life] \in Coordinators
      /\ lives[life].phase = "closing" /\ life \in 1..MaxLives
  BY Current DEF Phase, LifeInv
<1>2. d \in Coordinators
  BY <1>1 DEF Coordinators, Phases
<1>3. d.phase = "gone" /\ d.history = lives[life].history /\ d.ticking = lives[life].ticking
  BY <1>1 DEF Coordinators
<1>4. lives' = [lives EXCEPT ![life] = c]
  BY <1>0, <1>1 DEF LivesAreSound, AreSound
<1> HIDE DEF d
<1>5. LifeInv(d)
  BY <1>1, <1>2, <1>3 DEF LifeInv, Before, Over
<1>6. LifeInv(c) /\ c.phase = "gone"
  BY <1>3, <1>5, KeptLife
<1> HIDE DEF c
<1>7. LivesAreSound' /\ Phase' = "gone"
  BY <1>1, <1>4, <1>6, PhaseSteps
<1>8. Scalars' /\ LockMatchesPhase'
  BY <1>0, <1>7 DEF Scalars, LockMatchesPhase, entryVars
<1>9. LivesAreAskedFor'
  <2>1. lock = "unload"
    BY <1>0 DEF LockMatchesPhase, Before, Scalars
  <2> QED
    BY <1>0, <1>7, <2>1 DEF LivesAreAskedFor, Between, Over, entryVars
<1>10. FollowsOptions'
  BY <1>7 DEF FollowsOptions, Registered
<1> QED
  BY <1>7, <1>8, <1>9, <1>10 DEF LifetimesInv

(***************************************************************************)
(* The invariant holds.                                                    *)
(***************************************************************************)
LEMMA InitHolds == Init => LifetimesInv
<1> SUFFICES ASSUME Init
             PROVE  LifetimesInv
  OBVIOUS
<1> DEFINE c == New("unborn", Blank)
<1>1. LifeInv(c) /\ c.phase = "unborn"
  BY NewLife, BlankIsAnOption DEF Before, Over
<1>2. c \in Coordinators
  BY <1>1 DEF LifeInv
<1> HIDE DEF c
<1>3. life = 0 /\ reloads = 0 /\ changes = 0 /\ facts = 0 /\ lock = "setup"
      /\ leftover = FALSE /\ missed = FALSE /\ Phase = "unborn"
      /\ lives = [l \in 1..MaxLives |-> c]
  BY DEF Init, Phase, c
<1>4. options \in Options
  BY DEF Init, Options
<1>5. Scalars
  <2>1. changes \in 0..MaxChanges /\ facts \in 0..MaxFacts
    BY <1>3, Numbers
  <2>2. reloads \in Nat /\ life \in Nat
    BY <1>3
  <2>3. leftover \in BOOLEAN /\ missed \in BOOLEAN
    BY <1>3
  <2> QED
    BY <1>3, <1>4, <2>1, <2>2, <2>3 DEF Scalars
<1>6. LivesAreSound
  <2>1. \A l \in 1..MaxLives : l > 0 /\ ~(l < 0)
    OBVIOUS
  <2> QED
    BY <1>1, <1>2, <1>3, <2>1 DEF LivesAreSound, AreSound
<1>7. LockMatchesPhase /\ LivesAreAskedFor
  BY <1>3 DEF LockMatchesPhase, Before, LivesAreAskedFor
<1>8. FollowsOptions
  BY <1>3 DEF FollowsOptions, Registered
<1> QED
  BY <1>5, <1>6, <1>7, <1>8 DEF LifetimesInv

LEMMA StepKeeps == LifetimesInv /\ [Next]_vars => LifetimesInv'
<1> SUFFICES ASSUME LifetimesInv, [Next]_vars
             PROVE  LifetimesInv'
  OBVIOUS
<1>1. CASE SubmitForm \/ SelectMode \/ SetNominalPower \/ CommandConfirmed
  BY <1>1, SubmitFormKeeps, SelectModeKeeps, SetNominalPowerKeeps, CommandConfirmedKeeps
<1>2. CASE BeginCommand \/ CommandFails
  BY <1>2, BeginCommandKeeps, CommandFailsKeeps
<1>3. CASE ReloadBegins \/ ReloadRefused \/ RetryBegins \/ Construct
  BY <1>3, ReloadBeginsKeeps, ReloadRefusedKeeps, RetryBeginsKeeps, ConstructKeeps
<1>4. CASE FirstRefreshed \/ FirstRefreshFails \/ ControllerStarts \/ PreparationEnds
  BY <1>4, FirstRefreshKeeps, ControllerStartsKeeps, PreparationEndsKeeps
<1>5. CASE PlatformsUnloaded \/ PlatformsStay \/ HistoryStops \/ HistoryTimesOut \/ ClientCloses
  BY <1>5, PlatformsUnloadedKeeps, PlatformsStayKeeps, ShutDownKeeps, ClientClosesKeeps
<1>8. CASE RefreshBegins \/ RefreshEnds
  BY <1>8, RefreshKeeps
<1>6. CASE Record \/ WorkerSteps \/ ThreadAnswers
  BY <1>6, RecordKeeps, WorkerStepsKeeps, ThreadAnswersKeeps
<1>7. CASE UNCHANGED vars
  <2>1. UNCHANGED <<options, lock, reloads, life, lives, changes, facts, leftover, missed>>
    BY <1>7 DEF vars
  <2>2. Phase' = Phase
    BY <2>1 DEF Phase
  <2>3. Scalars' /\ LivesAreSound' /\ LockMatchesPhase' /\ LivesAreAskedFor'
    BY <2>1, <2>2 DEF LifetimesInv, Scalars, LivesAreSound, LockMatchesPhase,
                      LivesAreAskedFor
  <2>4. FollowsOptions'
    BY <2>1, <2>2 DEF LifetimesInv, FollowsOptions, Registered
  <2> QED
    BY <2>3, <2>4 DEF LifetimesInv
<1> QED
  BY <1>1, <1>2, <1>3, <1>4, <1>5, <1>6, <1>7, <1>8 DEF Next

LEMMA InvariantHolds == Spec => []LifetimesInv
<1>1. Init => LifetimesInv
  BY InitHolds
<1>2. LifetimesInv /\ [Next]_vars => LifetimesInv'
  BY StepKeeps
<1> QED
  BY <1>1, <1>2, PTL DEF Spec

(***************************************************************************)
(* The theorems.                                                           *)
(***************************************************************************)
\* Every variable keeps its type: neither the queue nor a batch of any life
\* outgrows its bound, and no more lives are begun than updates have asked for.
THEOREM LifetimesTypes == Spec => []TypeOK
<1>1. LifetimesInv => TypeOK
  <2> SUFFICES ASSUME LifetimesInv
               PROVE  TypeOK
    OBVIOUS
  <2>1. Scalars /\ life \in 0..MaxLives /\ reloads \in 0..MaxChanges
    BY Bounds DEF LifetimesInv
  <2>2. DOMAIN lives = 1..MaxLives
    BY DEF LifetimesInv, LivesAreSound, AreSound
  <2>3. ASSUME NEW l \in 1..MaxLives
        PROVE  /\ lives[l].phase \in Phases /\ lives[l].mode \in Modes
               /\ {lives[l].confirmed, lives[l].command} \subseteq Limits \cup {NoLimit}
               /\ lives[l].nominal \in 1..2
               /\ {lives[l].skip, lives[l].ticking, lives[l].refresh} \subseteq BOOLEAN
               /\ Len(lives[l].history.queue) <= QueueSize
               /\ Len(lives[l].history.batch) <= BatchSize
    <3>1. LifeInv(lives[l])
      BY DEF LifetimesInv, LivesAreSound, AreSound
    <3>2. HistoryInv(lives[l].history)
      BY <3>1 DEF LifeInv
    <3>3. Len(lives[l].history.queue) <= QueueSize
          /\ Len(lives[l].history.batch) <= BatchSize
      BY <3>2 DEF HistoryInv
    <3> QED
      BY <3>1, <3>3, LifeFields
  <2> QED
    BY <2>1, <2>2, <2>3 DEF TypeOK, Scalars
<1> QED
  BY <1>1, InvariantHolds, PTL

\* However the options are changed, setups fail and are repeated: a coordinator
\* that is not the current one neither ticks nor has a worker.
THEOREM OneLifeAtATime == Spec => []OneLifeTicks
<1>1. LifetimesInv => OneLifeTicks
  <2> SUFFICES ASSUME LifetimesInv, NEW l \in 1..life
               PROVE  /\ l # life => lives[l].phase \in {"gone", "failed"}
                      /\ lives[l].phase \in {"gone", "failed"} =>
                             ~lives[l].ticking /\ lives[l].history.worker = "none"
    BY DEF OneLifeTicks
  <2>1. l \in 1..MaxLives /\ LifeInv(lives[l]) /\ life \in Nat
    BY Living, Bounds
  <2>2. l # life => lives[l].phase = "gone"
    <3>1. l # life => l < life
      BY <2>1
    <3> QED
      BY <2>1, <3>1 DEF LifetimesInv, LivesAreSound, AreSound
  <2>3. lives[l].phase \in {"gone", "failed"} =>
            ~lives[l].ticking /\ lives[l].history.worker = "none"
    BY <2>1 DEF LifeInv, Before, Over
  <2> QED
    BY <2>2, <2>3
<1> QED
  BY <1>1, InvariantHolds, PTL

\* When nothing waits for a reload the coordinator works with the stored options,
\* whatever stored them, save the updates it is known not to see.
THEOREM OptionsAreFollowed == Spec => []ConfigurationIsLive
<1>1. LifetimesInv => ConfigurationIsLive
  BY DEF LifetimesInv, FollowsOptions, Follows, ConfigurationIsLive, Agrees
<1> QED
  BY <1>1, InvariantHolds, PTL

\* The events of a life are stored at most once and in the order of their recording,
\* for a queue and batches of any size and whatever the disk and the shutdown do.
THEOREM StoredInOrder == Spec => []EventsAreStoredInOrder
<1>1. LifetimesInv => EventsAreStoredInOrder
  <2> SUFFICES ASSUME LifetimesInv, NEW l \in 1..life
               PROVE  Increasing(lives[l].history.stored)
    BY DEF EventsAreStoredInOrder, Increasing
  <2> QED
    BY Living DEF LifeInv, HistoryInv, InOrder
<1> QED
  BY <1>1, InvariantHolds, PTL

\* What counts as written is stored, and while the worker works and no batch has
\* failed every accepted event is stored, with the thread or in the queue.
THEOREM NothingIsLostSilently == Spec => []WrittenIsStored
<1>1. LifetimesInv => WrittenIsStored
  <2> SUFFICES ASSUME LifetimesInv, NEW l \in 1..life
               PROVE  LET h == lives[l].history
                      IN /\ h.written <= Len(h.stored)
                         /\ (IsRunning(h) /\ h.errors = 0
                             /\ h.thread \in {"idle", "writing"}) =>
                                h.queued = Len(h.stored) + Len(h.batch) + Len(h.queue)
    BY DEF WrittenIsStored
  <2>1. AddsUp(lives[l].history)
    BY Living DEF LifeInv, HistoryInv
  <2> QED
    BY <2>1 DEF AddsUp
<1> QED
  BY <1>1, InvariantHolds, PTL
=============================================================================
