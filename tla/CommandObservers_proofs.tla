------------------------ MODULE CommandObservers_proofs ------------------------
(***************************************************************************)
(* The books of the recorder balance and every trace has the times of its  *)
(* own write, for every size of the trace buffer, every observation window *)
(* and gap, and every number of commands; and the adaptive model observes  *)
(* no command from before it was reset.                                    *)
(***************************************************************************)
EXTENDS CommandObservers, FiniteSetTheorems, SequenceTheorems, TLAPS

(***************************************************************************)
(* Counting.                                                               *)
(***************************************************************************)
\* A part of a finite set and the rest of it.
LEMMA PartCount ==
  ASSUME NEW S, IsFiniteSet(S), NEW T \in SUBSET S
  PROVE  /\ IsFiniteSet(T) /\ IsFiniteSet(S \ T)
         /\ Cardinality(T) \in Nat /\ Cardinality(S \ T) \in Nat
         /\ Cardinality(S) = Cardinality(T) + Cardinality(S \ T)
<1>1. IsFiniteSet(T) /\ IsFiniteSet(S \ T)
  BY FS_Subset
<1>2. Cardinality(T) \in Nat /\ Cardinality(S \ T) \in Nat
  BY <1>1, FS_CardinalityType
<1>3. T \cup (S \ T) = S /\ T \cap (S \ T) = {}
  OBVIOUS
<1>4. Cardinality(S) = Cardinality(T) + Cardinality(S \ T) - Cardinality({})
  BY <1>1, <1>3, FS_Union
<1> QED
  BY <1>1, <1>2, <1>4, FS_EmptySet

\* A finite set is as large as its parts together, one for each of the outcomes a
\* trace that waits for a verdict may get.
LEMMA OutcomeCount ==
  ASSUME NEW S, IsFiniteSet(S), NEW g,
         \A i \in S : g[i] \in Verdicts \cup {"confirmed"}
  PROVE  /\ \A o \in Verdicts \cup {"confirmed"} : Cardinality({i \in S : g[i] = o}) \in Nat
         /\ Cardinality(S) = Cardinality({i \in S : g[i] = "effective"})
                             + Cardinality({i \in S : g[i] = "ineffective"})
                             + Cardinality({i \in S : g[i] = "indeterminate"})
                             + Cardinality({i \in S : g[i] = "confirmed"})
<1> DEFINE P(o) == {i \in S : g[i] = o}
           S1 == S \ P("effective")
           S2 == S1 \ P("ineffective")
           S3 == S2 \ P("indeterminate")
<1>1. \A o \in Verdicts \cup {"confirmed"} : Cardinality(P(o)) \in Nat
  BY PartCount
<1>2. IsFiniteSet(S1) /\ Cardinality(S1) \in Nat
      /\ Cardinality(S) = Cardinality(P("effective")) + Cardinality(S1)
  <2>1. P("effective") \in SUBSET S
    OBVIOUS
  <2> QED
    BY <2>1, PartCount
<1>3. IsFiniteSet(S2) /\ Cardinality(S2) \in Nat
      /\ Cardinality(S1) = Cardinality(P("ineffective")) + Cardinality(S2)
  <2>1. P("ineffective") \in SUBSET S1
    OBVIOUS
  <2> QED
    BY <1>2, <2>1, PartCount
<1>4. Cardinality(S3) \in Nat
      /\ Cardinality(S2) = Cardinality(P("indeterminate")) + Cardinality(S3)
  <2>1. P("indeterminate") \in SUBSET S2
    OBVIOUS
  <2> QED
    BY <1>3, <2>1, PartCount
<1>5. S3 = P("confirmed")
  BY DEF Verdicts
<1>6. /\ Cardinality(P("effective")) \in Nat /\ Cardinality(P("ineffective")) \in Nat
      /\ Cardinality(P("indeterminate")) \in Nat /\ Cardinality(P("confirmed")) \in Nat
  BY <1>1 DEF Verdicts
<1>7. Cardinality(S) = Cardinality(P("effective")) + Cardinality(P("ineffective"))
                       + Cardinality(P("indeterminate")) + Cardinality(P("confirmed"))
  <2> HIDE DEF P, S1, S2, S3
  <2> QED
    BY <1>2, <1>3, <1>4, <1>5, <1>6
<1> QED
  BY <1>1, <1>7

\* When every place moves down by one, a set of places keeps its size.
LEMMA ShiftCount ==
  ASSUME NEW S \in SUBSET (Nat \ {0, 1}), IsFiniteSet(S),
         NEW T, T = {n \in Nat : n + 1 \in S}
  PROVE  IsFiniteSet(T) /\ Cardinality(T) = Cardinality(S)
<1> DEFINE f == [i \in S |-> i - 1]
<1>1. f \in [S -> T]
  OBVIOUS
<1>2. \A a, b \in S : f[a] = f[b] => a = b
  OBVIOUS
<1>3. \A t \in T : t + 1 \in S /\ f[t + 1] = t
  OBVIOUS
<1>4. f \in Bijection(S, T)
  <2>1. f \in Injection(S, T)
    BY <1>1, <1>2 DEF Injection, IsInjective
  <2>2. f \in Surjection(S, T)
    BY <1>1, <1>3 DEF Surjection
  <2> QED
    BY <2>1, <2>2 DEF Bijection
<1>5. ExistsBijection(S, T)
  BY <1>4 DEF ExistsBijection
<1> QED
  BY <1>5, FS_Bijection

(***************************************************************************)
(* The metrics.                                                            *)
(***************************************************************************)
\* The traces among ts that are accounted for under o.
Accounts(ts, o) == {i \in DOMAIN ts : o \in Unaccounted(ts[i])}

LEMMA OutcomesAreAdded ==
  ASSUME NEW metrics \in Metrics, NEW ts, IsFiniteSet(DOMAIN ts)
  PROVE  LET m == WithOutcomes(metrics, ts)
         IN /\ m \in Metrics
            /\ m.started = metrics.started + Cardinality(Accounts(ts, "started"))
            /\ m.confirmed = metrics.confirmed + Cardinality(Accounts(ts, "confirmed"))
            /\ m.failed = metrics.failed + Cardinality(Accounts(ts, "failed"))
            /\ m.effective = metrics.effective + Cardinality(Accounts(ts, "effective"))
            /\ m.ineffective = metrics.ineffective + Cardinality(Accounts(ts, "ineffective"))
            /\ m.indeterminate = metrics.indeterminate + Cardinality(Accounts(ts, "indeterminate"))
<1> DEFINE fields == {"started", "confirmed", "failed", "effective", "ineffective", "indeterminate"}
           m == [o \in fields |-> metrics[o] + Cardinality(Accounts(ts, o))]
<1>1. DOMAIN metrics = fields /\ \A o \in fields : metrics[o] \in Nat
  BY DEF Metrics
<1>2. WithOutcomes(metrics, ts) = m
  BY <1>1 DEF WithOutcomes, Accounts
<1>3. \A o \in fields : Cardinality(Accounts(ts, o)) \in Nat
  BY PartCount DEF Accounts
<1>4. \A o \in fields : m[o] \in Nat
  BY <1>1, <1>3
<1>5. m \in Metrics
  <2> DEFINE added(o) == metrics[o] + Cardinality(Accounts(ts, o))
  <2>1. \A o \in fields : added(o) \in Nat
    BY <1>1, <1>3
  <2>2. m = [started |-> added("started"), confirmed |-> added("confirmed"),
             failed |-> added("failed"), effective |-> added("effective"),
             ineffective |-> added("ineffective"), indeterminate |-> added("indeterminate")]
    OBVIOUS
  <2> HIDE DEF m, added
  <2> QED
    BY <2>1, <2>2 DEF Metrics
<1> QED
  BY <1>2, <1>5

(***************************************************************************)
(* One trace.                                                              *)
(***************************************************************************)
\* What a trace of the session shows of its accounting and, once it is decided, of
\* its own write; a refused command has none.
Consistent(t) ==
  t.current => /\ t.finished <=> t.outcome # "pending"
               /\ t.counted <=> t.outcome \in Verdicts
               /\ t.outcome \notin {"pending", "failed"} => t.began = "own" /\ t.ended = "own"
               /\ t.outcome = "failed" => t.began = t.ended /\ t.began \in {"own", "none"}

IsPending(t) == t.current /\ t.outcome = "pending"
IsWaiting(t) == t.current /\ t.outcome = "confirmed"

\* All of a trace but its outcome and its observations.
SameWrite(t, u) ==
  /\ u.current = t.current /\ u.began = t.began /\ u.ended = t.ended
  /\ u.finished = t.finished /\ u.counted = t.counted

LEMMA EvaluatedTrace ==
  ASSUME NEW t \in Traces
  PROVE  /\ Evaluated(t) \in Traces /\ SameWrite(t, Evaluated(t))
         /\ t.outcome # "confirmed" => Evaluated(t) = t
         /\ t.outcome = "confirmed" => Evaluated(t).outcome \in Verdicts \cup {"confirmed"}
<1>1. CASE t.outcome # "confirmed"
  BY <1>1 DEF Evaluated, SameWrite
<1>2. CASE t.outcome = "confirmed"
  <2>1. \E o \in Verdicts \cup {"confirmed"} : Evaluated(t) = [t EXCEPT !.outcome = o]
    BY <1>2 DEF Evaluated, Verdicts, Traces
  <2> QED
    BY <1>2, <2>1 DEF Traces, SameWrite
<1> QED
  BY <1>1, <1>2

LEMMA SeenTrace ==
  ASSUME NEW t \in Traces, NEW inDeadband \in BOOLEAN
  PROVE  /\ Seen(t, inDeadband) \in Traces /\ SameWrite(t, Seen(t, inDeadband))
         /\ Seen(t, inDeadband).outcome = t.outcome
         /\ t.outcome # "confirmed" => Seen(t, inDeadband) = t
<1> USE TraceAssumption
<1>1. CASE t.outcome # "confirmed"
  BY <1>1 DEF Seen, SameWrite
<1>2. CASE t.outcome = "confirmed"
  <2> DEFINE gapped == t.gapped \/ t.silence > MaxGap
             returned == t.returned \/ inDeadband
             observed == IF t.observed < 2 THEN t.observed + 1 ELSE 2
  <2>1. Seen(t, inDeadband) = [t EXCEPT !.gapped = gapped, !.silence = 0,
                                        !.observed = observed, !.returned = returned]
    BY <1>2 DEF Seen
  <2>2. gapped \in BOOLEAN /\ returned \in BOOLEAN
    BY Zenon DEF Traces
  <2>3. observed \in 0..2 /\ 0 \in 0..MaxGap + 1
    BY DEF Traces
  <2> HIDE DEF gapped, returned, observed
  <2> QED
    BY <1>2, <2>1, <2>2, <2>3 DEF Traces, SameWrite
<1> QED
  BY <1>1, <1>2

LEMMA AccountedTrace ==
  ASSUME NEW u \in Traces
  PROVE  /\ Accounted(u) \in Traces
         /\ Accounted(u).current = u.current /\ Accounted(u).outcome = u.outcome
         /\ Accounted(u).began = u.began /\ Accounted(u).ended = u.ended
         /\ Accounted(u).finished = (u.finished \/ u.outcome # "pending")
         /\ Accounted(u).counted = (u.counted \/ u.outcome \in Verdicts)
<1> DEFINE finished == u.finished \/ u.outcome # "pending"
           counted == u.counted \/ u.outcome \in Verdicts
<1>1. finished \in BOOLEAN /\ counted \in BOOLEAN
  BY Zenon DEF Traces
<1>2. Accounted(u) = [u EXCEPT !.finished = finished, !.counted = counted]
  BY DEF Accounted
<1> HIDE DEF finished, counted
<1>3. /\ Accounted(u) \in Traces
      /\ Accounted(u).current = u.current /\ Accounted(u).outcome = u.outcome
      /\ Accounted(u).began = u.began /\ Accounted(u).ended = u.ended
      /\ Accounted(u).finished = finished /\ Accounted(u).counted = counted
  BY <1>1, <1>2 DEF Traces
<1> QED
  BY <1>3 DEF finished, counted

\* A measurement decides nothing but a trace that waits, and leaves the rest alone.
LEMMA ObservedTrace ==
  ASSUME NEW t \in Traces, Consistent(t), NEW inDeadband \in BOOLEAN,
         NEW u, u = Evaluated(Seen(t, inDeadband))
  PROVE  /\ u \in Traces /\ u.current = t.current
         /\ t.current => Consistent(Accounted(u))
         /\ t.outcome # "confirmed" => u = t
         /\ t.outcome = "confirmed" => u.outcome \in Verdicts \cup {"confirmed"}
         /\ t.current => Unaccounted(u)
                           = IF t.outcome = "confirmed" /\ u.outcome \in Verdicts
                             THEN {u.outcome} ELSE {}
         /\ Accounted(u) \in Traces /\ Accounted(u).current = t.current
         /\ Accounted(u).outcome = u.outcome /\ Accounted(u).began = t.began
<1> DEFINE s == Seen(t, inDeadband)
<1>0. u = Evaluated(s)
  OBVIOUS
<1>1. /\ s \in Traces /\ SameWrite(t, s) /\ s.outcome = t.outcome
      /\ t.outcome # "confirmed" => s = t
  BY SeenTrace
<1> HIDE DEF s
<1>2. /\ u \in Traces /\ SameWrite(s, u)
      /\ s.outcome # "confirmed" => u = s
      /\ s.outcome = "confirmed" => u.outcome \in Verdicts \cup {"confirmed"}
  BY <1>0, <1>1, EvaluatedTrace
<1>3. /\ SameWrite(t, u)
      /\ t.outcome # "confirmed" => u = t
      /\ t.outcome = "confirmed" => u.outcome \in Verdicts \cup {"confirmed"}
  BY <1>1, <1>2 DEF SameWrite
<1>4. t.current => Unaccounted(u) = IF t.outcome = "confirmed" /\ u.outcome \in Verdicts
                                    THEN {u.outcome} ELSE {}
  BY <1>3 DEF Consistent, SameWrite, Unaccounted, Verdicts
<1>5. /\ Accounted(u) \in Traces
      /\ Accounted(u).current = u.current /\ Accounted(u).outcome = u.outcome
      /\ Accounted(u).began = u.began /\ Accounted(u).ended = u.ended
      /\ Accounted(u).finished = (u.finished \/ u.outcome # "pending")
      /\ Accounted(u).counted = (u.counted \/ u.outcome \in Verdicts)
  BY <1>2, AccountedTrace
<1>6. t.current => Consistent(Accounted(u))
  <2> SUFFICES ASSUME t.current PROVE Consistent(Accounted(u))
    OBVIOUS
  <2>1. CASE t.outcome # "confirmed"
    BY <1>3, <1>5, <2>1, Zenon DEF Consistent
  <2>2. CASE t.outcome = "confirmed"
    <3>1. u.finished /\ u.began = "own" /\ u.ended = "own" /\ ~u.counted /\ u.current
      BY <1>3, <2>2 DEF Consistent, SameWrite, Verdicts
    <3>2. u.outcome # "pending" /\ u.outcome # "failed"
      BY <1>3, <2>2 DEF Verdicts
    <3> QED
      BY <1>5, <3>1, <3>2, Zenon DEF Consistent
  <2> QED
    BY <2>1, <2>2
<1> QED
  BY <1>2, <1>3, <1>4, <1>5, <1>6 DEF SameWrite

\* The end of the session decides what is open: a pending command failed, one that
\* waits gets a verdict, and nothing is accounted twice.
LEMMA FinalTrace ==
  ASSUME NEW t \in Traces, Consistent(t), t.current
  PROVE  LET u == Finalized(Evaluated(t))
         IN /\ t.outcome = "pending" => Unaccounted(u) = {"failed"}
            /\ t.outcome = "confirmed" => u.outcome \in Verdicts /\ Unaccounted(u) = {u.outcome}
            /\ t.outcome \notin {"pending", "confirmed"} => Unaccounted(u) = {}
<1> DEFINE e == Evaluated(t)
           u == Finalized(e)
<1>1. /\ e \in Traces /\ SameWrite(t, e)
      /\ t.outcome # "confirmed" => e = t
      /\ t.outcome = "confirmed" => e.outcome \in Verdicts \cup {"confirmed"}
  BY EvaluatedTrace
<1> HIDE DEF e
<1>2. CASE t.outcome = "pending"
  <2>1. u = [t EXCEPT !.outcome = "failed"]
    BY <1>1, <1>2 DEF Finalized
  <2>2. u.outcome = "failed" /\ ~u.finished
    BY <1>2, <2>1 DEF Traces, Consistent
  <2> HIDE DEF u
  <2> QED
    BY <1>2, <2>2 DEF Unaccounted, Verdicts, u, e
<1>3. CASE t.outcome = "confirmed"
  <2>1. /\ u.outcome \in Verdicts /\ u.counted = e.counted /\ u.finished = e.finished
    BY <1>1, <1>3 DEF Finalized, Traces, Verdicts
  <2>2. ~e.counted /\ e.finished
    BY <1>1, <1>3 DEF SameWrite, Consistent, Verdicts
  <2> HIDE DEF u
  <2> QED
    BY <1>3, <2>1, <2>2 DEF Unaccounted, Verdicts, u, e
<1>4. CASE t.outcome \notin {"pending", "confirmed"}
  <2>1. u = t
    BY <1>1, <1>4 DEF Finalized
  <2> HIDE DEF u
  <2> QED
    BY <1>4, <2>1 DEF Unaccounted, Consistent, Verdicts, u, e
<1> QED
  BY <1>2, <1>3, <1>4

(***************************************************************************)
(* The recorder.                                                           *)
(***************************************************************************)
Recorders == [active : BOOLEAN, traces : Seq(Traces), metrics : Metrics]

WaitingTraces(r) == {i \in DOMAIN r.traces : IsWaiting(r.traces[i])}

\* The counts of a session: what the DTU answered, what is under way, and a verdict
\* for every confirmed command that does not wait for one.
Balanced(m, open, waiting, confirmed, failed) ==
  /\ m.confirmed = confirmed /\ m.failed = failed
  /\ m.started = confirmed + failed + open
  /\ confirmed = Judged(m) + waiting

\* Only the newest trace is pending, and only while a command of the session is
\* under way (mine); a recorder without a session holds nothing of one.
TracesInv(r, mine) ==
  /\ r \in Recorders /\ Len(r.traces) <= MaxTraces
  /\ \A i \in DOMAIN r.traces : Consistent(r.traces[i])
  /\ \A i \in DOMAIN r.traces : IsPending(r.traces[i]) <=> mine /\ i = Len(r.traces)
  /\ mine => r.active /\ r.traces # <<>>
  /\ ~r.active => r.metrics = NoMetrics /\ \A i \in DOMAIN r.traces : ~r.traces[i].current

Open(mine) == IF mine THEN 1 ELSE 0

RecorderInv(r, t) ==
  /\ TracesInv(r, t.mine)
  /\ t \in [confirmed : Nat, failed : Nat, mine : BOOLEAN]
  /\ r.active => Balanced(r.metrics, Open(t.mine), Cardinality(WaitingTraces(r)),
                          t.confirmed, t.failed)

LEMMA RecorderFacts ==
  ASSUME NEW r, NEW mine \in BOOLEAN, TracesInv(r, mine)
  PROVE  /\ r.active \in BOOLEAN /\ r.traces \in Seq(Traces) /\ r.metrics \in Metrics
         /\ Len(r.traces) \in Nat /\ DOMAIN r.traces = 1..Len(r.traces)
         /\ \A i \in 1..Len(r.traces) : r.traces[i] \in Traces
         /\ IsFiniteSet(DOMAIN r.traces)
         /\ IsFiniteSet(WaitingTraces(r)) /\ Cardinality(WaitingTraces(r)) \in Nat
         /\ mine => Len(r.traces) \in 1..Len(r.traces)
<1>1. r.active \in BOOLEAN /\ r.traces \in Seq(Traces) /\ r.metrics \in Metrics
  BY DEF TracesInv, Recorders
<1>2. /\ Len(r.traces) \in Nat /\ DOMAIN r.traces = 1..Len(r.traces)
      /\ \A i \in 1..Len(r.traces) : r.traces[i] \in Traces
  BY <1>1, LenProperties, ElementOfSeq
<1>3. IsFiniteSet(DOMAIN r.traces)
  BY <1>2, FS_Interval
<1>4. WaitingTraces(r) \in SUBSET DOMAIN r.traces
  BY DEF WaitingTraces
<1>5. IsFiniteSet(WaitingTraces(r)) /\ Cardinality(WaitingTraces(r)) \in Nat
  BY <1>3, <1>4, PartCount
<1>6. mine => Len(r.traces) # 0
  BY <1>1, EmptySeq DEF TracesInv
<1> QED
  BY <1>1, <1>2, <1>3, <1>5, <1>6

\* What the recorder takes for pending.
LEMMA PendingIsLast ==
  ASSUME NEW r, NEW mine \in BOOLEAN, TracesInv(r, mine)
  PROVE  /\ PendingTraces(r) = IF mine THEN {Len(r.traces)} ELSE {}
         /\ Cardinality(PendingTraces(r)) = Open(mine)
         /\ mine => Newest(PendingTraces(r)) = Len(r.traces)
<1>1. /\ DOMAIN r.traces = 1..Len(r.traces) /\ Len(r.traces) \in Nat
      /\ mine => Len(r.traces) \in 1..Len(r.traces)
  BY RecorderFacts
<1>2. PendingTraces(r) = IF mine THEN {Len(r.traces)} ELSE {}
  BY <1>1 DEF TracesInv, PendingTraces, IsPending
<1>3. Cardinality(PendingTraces(r)) = Open(mine)
  BY <1>2, FS_EmptySet, FS_Singleton DEF Open
<1>4. mine => Newest(PendingTraces(r)) = Len(r.traces)
  BY <1>1, <1>2 DEF Newest
<1> QED
  BY <1>2, <1>3, <1>4

\* The pending trace replaced by t.
LEMMA LastReplaced ==
  ASSUME NEW r, TracesInv(r, TRUE), NEW t \in Traces
  PROVE  LET k == WithPending(r, t)
         IN /\ k \in Recorders /\ k.active = r.active /\ k.metrics = r.metrics
            /\ Len(k.traces) = Len(r.traces) /\ DOMAIN k.traces = DOMAIN r.traces
            /\ \A i \in DOMAIN r.traces :
                 k.traces[i] = IF i = Len(r.traces) THEN t ELSE r.traces[i]
<1> DEFINE k == WithPending(r, t)
           n == Len(r.traces)
           ts == [r.traces EXCEPT ![n] = t]
<1>1. /\ r \in Recorders /\ r.traces \in Seq(Traces) /\ n \in 1..n
      /\ DOMAIN r.traces = 1..n
  BY RecorderFacts DEF TracesInv
<1>2. PendingTraces(r) = {n} /\ Newest(PendingTraces(r)) = n
  BY PendingIsLast
<1>3. k = [r EXCEPT !.traces = ts]
  BY <1>1, <1>2 DEF WithPending, Recorders
<1>4. ts \in Seq(Traces) /\ Len(ts) = n
      /\ \A i \in 1..n : ts[i] = IF i = n THEN t ELSE r.traces[i]
  BY <1>1, ExceptSeq
<1>5. DOMAIN ts = 1..n
  BY <1>4, LenProperties
<1> HIDE DEF ts, k
<1>6. /\ k \in Recorders /\ k.active = r.active /\ k.metrics = r.metrics /\ k.traces = ts
  BY <1>1, <1>3, <1>4 DEF Recorders
<1> QED
  BY <1>1, <1>4, <1>5, <1>6 DEF k

\* The accounts of one trace, and of none.
LEMMA SingleAccount ==
  ASSUME NEW u, NEW o
  PROVE  /\ IsFiniteSet(DOMAIN <<u>>) /\ IsFiniteSet(DOMAIN <<>>)
         /\ Cardinality(Accounts(<<u>>, o)) = IF o \in Unaccounted(u) THEN 1 ELSE 0
         /\ Cardinality(Accounts(<<>>, o)) = 0
<1>1. Accounts(<<u>>, o) = IF o \in Unaccounted(u) THEN {1} ELSE {}
  BY DEF Accounts
<1>2. Accounts(<<>>, o) = {}
  BY DEF Accounts
<1>3. DOMAIN <<u>> = {1} /\ DOMAIN <<>> = {}
  OBVIOUS
<1>4. IsFiniteSet({1}) /\ IsFiniteSet({})
  BY FS_EmptySet, FS_Singleton
<1>5. IsFiniteSet(DOMAIN <<u>>) /\ IsFiniteSet(DOMAIN <<>>)
  BY <1>3, <1>4
<1> QED
  BY <1>1, <1>2, <1>5, FS_EmptySet, FS_Singleton

\* A change of the pending trace that leaves its outcome and its accounting alone.
LEMMA PendingEdited ==
  ASSUME NEW r, NEW t, RecorderInv(r, t), t.mine,
         NEW p, p = r.traces[Len(r.traces)], NEW q \in Traces,
         q.current = p.current, q.outcome = p.outcome,
         q.finished = p.finished, q.counted = p.counted
  PROVE  LET k == WithPending(r, q)
         IN RecorderInv(k, t) /\ k.active = r.active /\ k.traces[Len(k.traces)] = q
<1> DEFINE k == WithPending(r, q)
           n == Len(r.traces)
<1>0. TracesInv(r, TRUE) /\ t.mine = TRUE
  BY DEF RecorderInv
<1>1. /\ n \in DOMAIN r.traces /\ p \in Traces /\ IsPending(p) /\ Consistent(p)
      /\ DOMAIN r.traces = 1..n
  BY <1>0, RecorderFacts DEF TracesInv
<1>2. IsPending(q) /\ Consistent(q)
  BY <1>1 DEF IsPending, Consistent, Verdicts
<1> HIDE DEF k
<1>3. /\ k \in Recorders /\ k.active = r.active /\ k.metrics = r.metrics
      /\ Len(k.traces) = n /\ DOMAIN k.traces = DOMAIN r.traces
      /\ \A i \in DOMAIN r.traces : k.traces[i] = IF i = n THEN q ELSE r.traces[i]
  BY <1>0, LastReplaced DEF k
<1>4. \A i \in DOMAIN r.traces : /\ IsPending(k.traces[i]) <=> IsPending(r.traces[i])
                                 /\ IsWaiting(k.traces[i]) <=> IsWaiting(r.traces[i])
                                 /\ Consistent(k.traces[i])
  BY <1>0, <1>1, <1>2, <1>3 DEF TracesInv, IsPending, IsWaiting
<1>5. WaitingTraces(k) = WaitingTraces(r)
  BY <1>3, <1>4 DEF WaitingTraces
<1>6. k.traces # <<>>
  BY <1>1, <1>3
<1>7. TracesInv(k, TRUE)
  BY <1>0, <1>3, <1>4, <1>6 DEF TracesInv
<1>8. RecorderInv(k, t)
  BY <1>0, <1>3, <1>5, <1>7 DEF RecorderInv
<1> QED
  BY <1>1, <1>3, <1>8 DEF k

\* The pending trace has the beginning of its own write.
HasBegun(r, mine) == mine => r.traces[Len(r.traces)].began = "own"

\* record_modbus_started, by the command itself.
LEMMA ModbusStartedKeeps ==
  ASSUME NEW r, NEW t, RecorderInv(r, t), t.mine
  PROVE  LET k == RecordModbusStarted(r, "own")
         IN RecorderInv(k, t) /\ k.active = r.active /\ HasBegun(k, TRUE)
<1> DEFINE p == r.traces[Len(r.traces)]
           q == [p EXCEPT !.began = "own"]
<1>0. TracesInv(r, TRUE)
  BY DEF RecorderInv
<1>1. p \in Traces
  BY <1>0, RecorderFacts
<1>2. /\ q \in Traces /\ q.current = p.current /\ q.outcome = p.outcome
      /\ q.finished = p.finished /\ q.counted = p.counted /\ q.began = "own"
  BY <1>1 DEF Traces, Writers
<1>3. RecordModbusStarted(r, "own") = WithPending(r, q)
  BY <1>0, PendingIsLast DEF RecordModbusStarted, PendingTrace
<1> HIDE DEF q
<1> QED
  BY <1>2, <1>3, PendingEdited DEF HasBegun

\* finish_modbus, by the command itself or by a slider write.
LEMMA FinishModbusKeeps ==
  ASSUME NEW r, NEW t, RecorderInv(r, t), HasBegun(r, t.mine), NEW writer \in {"own", "other"}
  PROVE  LET k == FinishModbus(r, writer)
         IN /\ RecorderInv(k, t) /\ k.active = r.active /\ HasBegun(k, t.mine)
            /\ t.mine => k.traces[Len(k.traces)].ended = writer
<1>0. TracesInv(r, t.mine) /\ t.mine \in BOOLEAN
  BY DEF RecorderInv
<1>1. CASE ~t.mine
  <2>1. PendingTraces(r) = {}
    BY <1>0, <1>1, PendingIsLast
  <2> QED
    BY <1>1, <2>1 DEF FinishModbus, WithPending, HasBegun
<1>2. CASE t.mine
  <2> DEFINE p == r.traces[Len(r.traces)]
             q == [p EXCEPT !.ended = writer, !.silence = 0]
  <2>0. TracesInv(r, TRUE)
    BY <1>0, <1>2
  <2>1. p \in Traces
    BY <2>0, RecorderFacts
  <2>2. 0 \in 0..MaxGap + 1 /\ writer \in Writers
    BY TraceAssumption DEF Writers
  <2>3. /\ q \in Traces /\ q.current = p.current /\ q.outcome = p.outcome
        /\ q.finished = p.finished /\ q.counted = p.counted /\ q.began = p.began
        /\ q.ended = writer
    BY <2>1, <2>2 DEF Traces
  <2>4. FinishModbus(r, writer) = WithPending(r, q)
    BY <2>0, PendingIsLast DEF FinishModbus, PendingTrace
  <2> HIDE DEF q
  <2> QED
    BY <1>2, <2>3, <2>4, PendingEdited DEF HasBegun
<1> QED
  BY <1>0, <1>1, <1>2

\* What a command has come to, when it is one of the session's.
EndedTruth(t, confirmed) ==
  IF ~t.mine THEN t
  ELSE IF confirmed THEN [t EXCEPT !.mine = FALSE, !.confirmed = @ + 1]
  ELSE [t EXCEPT !.mine = FALSE, !.failed = @ + 1]

\* finish_command, after the command's own finish_modbus or without a write at all.
LEMMA FinishCommandKeeps ==
  ASSUME NEW r, NEW t, RecorderInv(r, t), NEW confirmed \in BOOLEAN,
         NEW writer \in {"own", "none"}, confirmed => writer = "own",
         t.mine => /\ r.traces[Len(r.traces)].began = writer
                   /\ r.traces[Len(r.traces)].ended = writer
  PROVE  LET k == FinishCommand(r, confirmed)
         IN RecorderInv(k, EndedTruth(t, confirmed)) /\ k.active = r.active
<1> DEFINE k == FinishCommand(r, confirmed)
           n == Len(r.traces)
<1>0. TracesInv(r, t.mine) /\ t.mine \in BOOLEAN
  BY DEF RecorderInv
<1>1. CASE ~t.mine
  <2>1. PendingTraces(r) = {}
    BY <1>0, <1>1, PendingIsLast
  <2> QED
    BY <1>1, <2>1 DEF FinishCommand, EndedTruth
<1>2. CASE t.mine
  <2> DEFINE p == r.traces[n]
             outcome == IF confirmed THEN "confirmed" ELSE "failed"
             u == [p EXCEPT !.outcome = outcome]
             v == Accounted(u)
             m == WithOutcomes(r.metrics, <<u>>)
  <2>0. TracesInv(r, TRUE)
    BY <1>0, <1>2
  <2>1. /\ n \in DOMAIN r.traces /\ p \in Traces /\ IsPending(p) /\ Consistent(p)
        /\ DOMAIN r.traces = 1..n /\ r.metrics \in Metrics /\ r.active
        /\ p.began = writer /\ p.ended = writer /\ IsFiniteSet(WaitingTraces(r))
        /\ Cardinality(WaitingTraces(r)) \in Nat
    BY <1>2, <2>0, RecorderFacts DEF TracesInv
  <2>2. /\ u \in Traces /\ u.current /\ u.outcome = outcome
        /\ u.began = writer /\ u.ended = writer /\ ~u.finished /\ ~u.counted
    <3>1. /\ u \in Traces /\ u.current = p.current /\ u.outcome = outcome
          /\ u.began = p.began /\ u.ended = p.ended
          /\ u.finished = p.finished /\ u.counted = p.counted
      BY <2>1 DEF Traces
    <3> QED
      BY <2>1, <3>1 DEF IsPending, Consistent, Verdicts
  <2>3. PendingTraces(r) # {} /\ PendingTrace(r) = p
    BY <2>0, PendingIsLast DEF PendingTrace
  <2>4. k = [WithPending(r, v) EXCEPT !.metrics = m]
    BY <2>3 DEF FinishCommand
  <2>5. v = [u EXCEPT !.finished = TRUE, !.counted = FALSE]
    <3>1. (u.finished \/ u.outcome # "pending") = TRUE
      BY <2>2
    <3>2. (u.counted \/ u.outcome \in Verdicts) = FALSE
      BY <2>2 DEF Verdicts
    <3> HIDE DEF u
    <3> QED
      BY <3>1, <3>2 DEF Accounted
  <2>6. Unaccounted(u) = {outcome}
    BY <2>2 DEF Unaccounted, Verdicts
  <2> HIDE DEF u, v, m, k
  <2>7. v \in Traces /\ v.current /\ v.outcome = outcome /\ Consistent(v)
    BY <2>2, <2>5 DEF Traces, Consistent, Verdicts
  <2>8. /\ m \in Metrics /\ m.started = r.metrics.started
        /\ m.confirmed = r.metrics.confirmed + (IF confirmed THEN 1 ELSE 0)
        /\ m.failed = r.metrics.failed + (IF confirmed THEN 0 ELSE 1)
        /\ Judged(m) = Judged(r.metrics)
    <3> DEFINE ts == <<u>>
    <3>1. IsFiniteSet(DOMAIN ts)
          /\ \A o : Cardinality(Accounts(ts, o)) = IF o = outcome THEN 1 ELSE 0
      BY <2>6, SingleAccount
    <3>2. m = WithOutcomes(r.metrics, ts)
      BY DEF m
    <3> HIDE DEF ts
    <3>3. /\ m \in Metrics
          /\ m.started = r.metrics.started + 0
          /\ m.confirmed = r.metrics.confirmed + (IF confirmed THEN 1 ELSE 0)
          /\ m.failed = r.metrics.failed + (IF confirmed THEN 0 ELSE 1)
          /\ m.effective = r.metrics.effective + 0
          /\ m.ineffective = r.metrics.ineffective + 0
          /\ m.indeterminate = r.metrics.indeterminate + 0
      BY <2>1, <3>1, <3>2, OutcomesAreAdded
    <3> QED
      BY <2>1, <3>3 DEF Metrics, Judged
  <2>9. /\ k \in Recorders /\ k.active = r.active /\ k.metrics = m
        /\ Len(k.traces) = n /\ DOMAIN k.traces = DOMAIN r.traces
        /\ \A i \in DOMAIN r.traces : k.traces[i] = IF i = n THEN v ELSE r.traces[i]
    <3> DEFINE w == WithPending(r, v)
    <3>1. /\ w \in Recorders /\ w.active = r.active
          /\ Len(w.traces) = n /\ DOMAIN w.traces = DOMAIN r.traces
          /\ \A i \in DOMAIN r.traces : w.traces[i] = IF i = n THEN v ELSE r.traces[i]
      BY <2>0, <2>7, LastReplaced
    <3> HIDE DEF w
    <3>2. k = [w EXCEPT !.metrics = m]
      BY <2>4 DEF w
    <3>3. k \in Recorders /\ k.active = w.active /\ k.metrics = m /\ k.traces = w.traces
      BY <2>8, <3>1, <3>2 DEF Recorders
    <3> QED
      BY <3>1, <3>3
  <2>10. \A i \in DOMAIN r.traces : ~IsPending(k.traces[i]) /\ Consistent(k.traces[i])
    BY <2>0, <2>7, <2>9 DEF TracesInv, IsPending
  <2>11. k.traces # <<>>
    BY <2>1, <2>9
  <2>12. TracesInv(k, FALSE)
    BY <2>0, <2>1, <2>9, <2>10, <2>11 DEF TracesInv
  <2>13. Cardinality(WaitingTraces(k))
           = Cardinality(WaitingTraces(r)) + (IF confirmed THEN 1 ELSE 0)
    <3>1. n \notin WaitingTraces(r)
      BY <2>1 DEF WaitingTraces, IsWaiting, IsPending
    <3>2. CASE confirmed
      <4>1. WaitingTraces(k) = WaitingTraces(r) \cup {n}
        BY <2>1, <2>7, <2>9, <3>2 DEF WaitingTraces, IsWaiting
      <4> QED
        BY <2>1, <3>1, <3>2, <4>1, FS_AddElement
    <3>3. CASE ~confirmed
      <4>1. WaitingTraces(k) = WaitingTraces(r)
        BY <2>1, <2>7, <2>9, <3>1, <3>3 DEF WaitingTraces, IsWaiting
      <4> QED
        BY <2>1, <3>3, <4>1
    <3> QED
      BY <3>2, <3>3
  <2>14. RecorderInv(k, EndedTruth(t, confirmed))
    <3> DEFINE e == EndedTruth(t, confirmed)
    <3>1. /\ e \in [confirmed : Nat, failed : Nat, mine : BOOLEAN] /\ ~e.mine
          /\ e.confirmed = t.confirmed + (IF confirmed THEN 1 ELSE 0)
          /\ e.failed = t.failed + (IF confirmed THEN 0 ELSE 1)
          /\ t.confirmed \in Nat /\ t.failed \in Nat
      <4>1. t \in [confirmed : Nat, failed : Nat, mine : BOOLEAN]
        BY DEF RecorderInv
      <4>2. CASE confirmed
        <5>1. e = [t EXCEPT !.mine = FALSE, !.confirmed = t.confirmed + 1]
          BY <1>2, <4>2 DEF EndedTruth
        <5>2. t.confirmed \in Nat /\ t.failed \in Nat /\ t.mine \in BOOLEAN
          BY <4>1
        <5>3. e.mine = FALSE /\ e.confirmed = t.confirmed + 1 /\ e.failed = t.failed
          BY <4>1, <5>1
        <5>4. e = [confirmed |-> t.confirmed + 1, failed |-> t.failed, mine |-> FALSE]
          BY <4>1, <5>1
        <5> HIDE DEF e
        <5>5. e \in [confirmed : Nat, failed : Nat, mine : BOOLEAN]
          BY <5>2, <5>4
        <5> QED
          BY <4>2, <5>2, <5>3, <5>5
      <4>3. CASE ~confirmed
        <5>1. e = [t EXCEPT !.mine = FALSE, !.failed = t.failed + 1]
          BY <1>2, <4>3 DEF EndedTruth
        <5>2. t.confirmed \in Nat /\ t.failed \in Nat /\ t.mine \in BOOLEAN
          BY <4>1
        <5>3. e.mine = FALSE /\ e.confirmed = t.confirmed /\ e.failed = t.failed + 1
          BY <4>1, <5>1
        <5>4. e = [confirmed |-> t.confirmed, failed |-> t.failed + 1, mine |-> FALSE]
          BY <4>1, <5>1
        <5> HIDE DEF e
        <5>5. e \in [confirmed : Nat, failed : Nat, mine : BOOLEAN]
          BY <5>2, <5>4
        <5> QED
          BY <4>3, <5>2, <5>3, <5>5
      <4> QED
        BY <4>2, <4>3
    <3> HIDE DEF e
    <3>2. Balanced(r.metrics, 1, Cardinality(WaitingTraces(r)), t.confirmed, t.failed)
      BY <1>2, <2>1 DEF RecorderInv, Open
    <3>3. Judged(r.metrics) \in Nat /\ Cardinality(WaitingTraces(r)) \in Nat
      BY <2>1 DEF Judged, Metrics
    <3>4. Balanced(m, 0, Cardinality(WaitingTraces(k)), e.confirmed, e.failed)
      BY <2>8, <2>13, <3>1, <3>2, <3>3 DEF Balanced
    <3> QED
      BY <2>9, <2>12, <3>1, <3>4 DEF RecorderInv, Open, e
  <2> QED
    BY <2>9, <2>14 DEF k
<1> QED
  BY <1>0, <1>1, <1>2

\* observe_measurement: what waits may get its verdict, and is counted when it does.
LEMMA MeasurementKeeps ==
  ASSUME NEW r, NEW t, RecorderInv(r, t), NEW inDeadband \in BOOLEAN
  PROVE  LET k == ObserveMeasurement(r, inDeadband)
         IN /\ RecorderInv(k, t) /\ k.active = r.active
            /\ HasBegun(r, t.mine) => HasBegun(k, t.mine)
<1>0. TracesInv(r, t.mine) /\ t.mine \in BOOLEAN
      /\ t \in [confirmed : Nat, failed : Nat, mine : BOOLEAN]
  BY DEF RecorderInv
<1>1. CASE ~r.active
  BY <1>1 DEF ObserveMeasurement, HasBegun
<1>2. CASE r.active
  <2> DEFINE D == DOMAIN r.traces
             n == Len(r.traces)
             k == ObserveMeasurement(r, inDeadband)
             seen == [i \in D |-> IF r.traces[i].current
                                  THEN Evaluated(Seen(r.traces[i], inDeadband))
                                  ELSE r.traces[i]]
             decided == [i \in {j \in CurrentTraces(r) : seen[j].outcome \in Verdicts} |-> seen[i]]
             m == WithOutcomes(r.metrics, decided)
             ts == [i \in D |-> Accounted(seen[i])]
             W == WaitingTraces(r)
             with(o) == {i \in W : seen[i].outcome = o}
  <2>1. /\ r \in Recorders /\ n \in Nat /\ D = 1..n /\ \A i \in D : r.traces[i] \in Traces
        /\ r.metrics \in Metrics /\ IsFiniteSet(D) /\ IsFiniteSet(W) /\ Cardinality(W) \in Nat
        /\ \A i \in D : Consistent(r.traces[i])
    BY <1>0, RecorderFacts DEF TracesInv
  <2>2. k = [r EXCEPT !.traces = ts, !.metrics = m]
    BY <1>2, Zenon DEF ObserveMeasurement
  <2>3. ASSUME NEW i \in D
        PROVE  /\ ts[i] \in Traces /\ Consistent(ts[i])
               /\ ts[i].current = r.traces[i].current /\ ts[i].outcome = seen[i].outcome
               /\ ts[i].began = r.traces[i].began
               /\ r.traces[i].outcome # "confirmed" => seen[i] = r.traces[i]
               /\ r.traces[i].current /\ r.traces[i].outcome = "confirmed"
                    => seen[i].outcome \in Verdicts \cup {"confirmed"}
               /\ r.traces[i].current
                    => Unaccounted(seen[i])
                         = IF r.traces[i].outcome = "confirmed" /\ seen[i].outcome \in Verdicts
                           THEN {seen[i].outcome} ELSE {}
    <3>1. ts[i] = Accounted(seen[i])
      OBVIOUS
    <3>2. r.traces[i] \in Traces /\ Consistent(r.traces[i])
      BY <2>1
    <3>3. CASE r.traces[i].current
      <4> DEFINE x == r.traces[i]
                 u == seen[i]
      <4>1. u = Evaluated(Seen(x, inDeadband))
        BY <3>3
      <4> HIDE DEF seen, ts, x, u
      <4>2. x \in Traces /\ Consistent(x) /\ x.current
        BY <3>2, <3>3 DEF x
      <4>3. /\ u.current = x.current /\ Consistent(Accounted(u))
            /\ x.outcome # "confirmed" => u = x
            /\ x.outcome = "confirmed" => u.outcome \in Verdicts \cup {"confirmed"}
            /\ Unaccounted(u) = IF x.outcome = "confirmed" /\ u.outcome \in Verdicts
                                THEN {u.outcome} ELSE {}
            /\ Accounted(u) \in Traces /\ Accounted(u).current = x.current
            /\ Accounted(u).outcome = u.outcome /\ Accounted(u).began = x.began
        BY <4>1, <4>2, ObservedTrace
      <4> QED
        BY <3>1, <4>2, <4>3 DEF x, u
    <3>4. CASE ~r.traces[i].current
      <4>1. seen[i] = r.traces[i]
        BY <3>4
      <4> HIDE DEF seen, ts
      <4> QED
        BY <3>1, <3>2, <3>4, <4>1, AccountedTrace DEF Consistent
    <3> QED
      BY <3>3, <3>4
  <2>4. /\ ts \in Seq(Traces) /\ Len(ts) = n /\ DOMAIN ts = D
    <3> HIDE DEF seen
    <3>1. ts \in [1..n -> Traces] /\ DOMAIN ts = D
      <4>1. ts = [i \in 1..n |-> Accounted(seen[i])]
        BY <2>1
      <4>2. \A i \in 1..n : Accounted(seen[i]) \in Traces
        BY <2>1, <2>3
      <4> QED
        BY <2>1, <4>1, <4>2
    <3> HIDE DEF ts
    <3> QED
      BY <2>1, <3>1, SeqDef
  <2>5. /\ Accounts(decided, "started") = {} /\ Accounts(decided, "confirmed") = {}
        /\ Accounts(decided, "failed") = {}
        /\ Accounts(decided, "effective") = with("effective")
        /\ Accounts(decided, "ineffective") = with("ineffective")
        /\ Accounts(decided, "indeterminate") = with("indeterminate")
        /\ IsFiniteSet(DOMAIN decided)
    <3>1. DOMAIN decided = {j \in D : r.traces[j].current /\ seen[j].outcome \in Verdicts}
      BY DEF CurrentTraces
    <3>2. \A i \in DOMAIN decided : decided[i] = seen[i]
      OBVIOUS
    <3>3. \A i \in D : i \in W <=> r.traces[i].current /\ r.traces[i].outcome = "confirmed"
      BY DEF WaitingTraces, IsWaiting
    <3>4. W \subseteq D
      BY DEF WaitingTraces
    <3> HIDE DEF decided, seen, ts, W
    <3>5. \A o : Accounts(decided, o) = {i \in DOMAIN decided : o \in Unaccounted(seen[i])}
      BY <3>2 DEF Accounts
    <3>6. \A i \in D : r.traces[i].current
            => Unaccounted(seen[i])
                 = IF r.traces[i].outcome = "confirmed" /\ seen[i].outcome \in Verdicts
                   THEN {seen[i].outcome} ELSE {}
      BY <2>3
    <3>7. \A o : Accounts(decided, o) = {i \in W : seen[i].outcome \in Verdicts /\ seen[i].outcome = o}
      <4> SUFFICES ASSUME NEW o, NEW i
                   PROVE  (i \in DOMAIN decided /\ o \in Unaccounted(seen[i]))
                            <=> (i \in W /\ seen[i].outcome \in Verdicts /\ seen[i].outcome = o)
        BY <3>5
      <4>1. CASE i \in D
        BY <3>1, <3>3, <3>6, <4>1
      <4>2. CASE i \notin D
        BY <3>1, <3>4, <4>2
      <4> QED
        BY <4>1, <4>2
    <3>8. IsFiniteSet(DOMAIN decided)
      BY <2>1, <3>1, PartCount
    <3> QED
      BY <3>7, <3>8 DEF Verdicts
  <2>6. WaitingTraces(k) = with("confirmed")
    <3>1. k.traces = ts
      BY <2>1, <2>2 DEF Recorders
    <3>2. DOMAIN ts = D
      OBVIOUS
    <3> HIDE DEF ts, seen, k
    <3> QED
      BY <2>3, <3>1, <3>2 DEF WaitingTraces, IsWaiting
  <2>7. /\ \A o \in Verdicts \cup {"confirmed"} : Cardinality(with(o)) \in Nat
        /\ Cardinality(W) = Cardinality(with("effective")) + Cardinality(with("ineffective"))
                            + Cardinality(with("indeterminate")) + Cardinality(with("confirmed"))
    <3> DEFINE g == [i \in W |-> seen[i].outcome]
    <3>1. \A i \in W : g[i] \in Verdicts \cup {"confirmed"}
      <4>1. \A i \in W : i \in D /\ r.traces[i].current /\ r.traces[i].outcome = "confirmed"
        BY DEF WaitingTraces, IsWaiting
      <4> HIDE DEF seen, ts
      <4> QED
        BY <2>3, <4>1
    <3>2. \A o : {i \in W : g[i] = o} = with(o)
      OBVIOUS
    <3> HIDE DEF g, W, seen
    <3>3. /\ \A o \in Verdicts \cup {"confirmed"} : Cardinality({i \in W : g[i] = o}) \in Nat
          /\ Cardinality(W) = Cardinality({i \in W : g[i] = "effective"})
                              + Cardinality({i \in W : g[i] = "ineffective"})
                              + Cardinality({i \in W : g[i] = "indeterminate"})
                              + Cardinality({i \in W : g[i] = "confirmed"})
      BY <2>1, <3>1, OutcomeCount
    <3> QED
      BY <3>2, <3>3
  <2> HIDE DEF with, W, seen, decided
  <2>8. /\ m \in Metrics /\ m.started = r.metrics.started
        /\ m.confirmed = r.metrics.confirmed /\ m.failed = r.metrics.failed
        /\ m.effective = r.metrics.effective + Cardinality(with("effective"))
        /\ m.ineffective = r.metrics.ineffective + Cardinality(with("ineffective"))
        /\ m.indeterminate = r.metrics.indeterminate + Cardinality(with("indeterminate"))
    <3>1. /\ m \in Metrics /\ m.started = r.metrics.started + 0
          /\ m.confirmed = r.metrics.confirmed + 0 /\ m.failed = r.metrics.failed + 0
          /\ m.effective = r.metrics.effective + Cardinality(with("effective"))
          /\ m.ineffective = r.metrics.ineffective + Cardinality(with("ineffective"))
          /\ m.indeterminate = r.metrics.indeterminate + Cardinality(with("indeterminate"))
      <4>1. m = WithOutcomes(r.metrics, decided)
        OBVIOUS
      <4>2. Cardinality({}) = 0
        BY FS_EmptySet
      <4> HIDE DEF m
      <4> QED
        BY <2>1, <2>5, <4>1, <4>2, OutcomesAreAdded
    <3> HIDE DEF m
    <3> QED
      BY <2>1, <3>1 DEF Metrics
  <2> HIDE DEF m, ts, k
  <2>9. /\ k \in Recorders /\ k.active = r.active /\ k.traces = ts /\ k.metrics = m
    BY <2>1, <2>2, <2>4, <2>8 DEF Recorders
  <2>10. TracesInv(k, t.mine)
    <3>1. \A i \in D : IsPending(ts[i]) <=> IsPending(r.traces[i])
      BY <2>3 DEF IsPending, Verdicts
    <3>2. t.mine => ts # <<>>
      <4>1. t.mine => n \in 1..n
        BY <1>0, RecorderFacts
      <4>2. Len(<<>>) = 0
        BY EmptySeq
      <4> QED
        BY <2>1, <2>4, <4>1, <4>2
    <3> QED
      BY <1>0, <1>2, <2>3, <2>4, <2>9, <3>1, <3>2 DEF TracesInv
  <2>11. Balanced(m, Open(t.mine), Cardinality(with("confirmed")), t.confirmed, t.failed)
    <3>1. Balanced(r.metrics, Open(t.mine), Cardinality(W), t.confirmed, t.failed)
      BY <1>2 DEF RecorderInv, W
    <3>2. /\ Cardinality(with("effective")) \in Nat /\ Cardinality(with("ineffective")) \in Nat
          /\ Cardinality(with("indeterminate")) \in Nat /\ Cardinality(with("confirmed")) \in Nat
      BY <2>7 DEF Verdicts
    <3>3. /\ r.metrics.effective \in Nat /\ r.metrics.ineffective \in Nat
          /\ r.metrics.indeterminate \in Nat
      BY <2>1 DEF Metrics
    <3> QED
      BY <2>7, <2>8, <3>1, <3>2, <3>3 DEF Balanced, Judged
  <2>12. HasBegun(r, t.mine) => HasBegun(k, t.mine)
    <3>1. t.mine => n \in D
      BY <1>0, <2>1, RecorderFacts
    <3> QED
      BY <2>3, <2>4, <2>9, <3>1 DEF HasBegun
  <2> QED
    BY <1>0, <2>6, <2>8, <2>9, <2>10, <2>11, <2>12 DEF RecorderInv, k
<1> QED
  BY <1>1, <1>2

\* The place a full buffer makes: the trace that leaves it is counted as indeterminate
\* when it still waits for its verdict, and the others keep theirs.
LEMMA EvictedTrace ==
  ASSUME NEW t \in Traces, Consistent(t), t.current, t.outcome # "pending"
  PROVE  Unaccounted(Finalized(t)) = IF t.outcome = "confirmed" THEN {"indeterminate"} ELSE {}
<1> DEFINE u == Finalized(t)
<1>1. CASE t.outcome = "confirmed"
  <2>1. u = [t EXCEPT !.outcome = "indeterminate"]
    BY <1>1 DEF Finalized
  <2>2. u.outcome = "indeterminate" /\ u.counted = t.counted /\ u.finished = t.finished
    BY <2>1 DEF Traces
  <2>3. t.finished /\ ~t.counted
    BY <1>1 DEF Consistent, Verdicts
  <2> HIDE DEF u
  <2>4. Unaccounted(u) = {"indeterminate"}
    BY <2>2, <2>3 DEF Unaccounted, Verdicts
  <2> QED
    BY <1>1, <2>4 DEF u
<1>2. CASE t.outcome # "confirmed"
  <2>1. u = t
    BY <1>2 DEF Finalized
  <2> HIDE DEF u
  <2>2. Unaccounted(u) = {}
    BY <1>2, <2>1 DEF Unaccounted, Consistent, Verdicts
  <2> QED
    BY <1>2, <2>2 DEF u
<1> QED
  BY <1>1, <1>2

Full(r) == Len(r.traces) = MaxTraces

LEMMA EvictedAccounts ==
  ASSUME NEW r, TracesInv(r, FALSE), NEW o
  PROVE  /\ IsFiniteSet(DOMAIN Evicted(r))
         /\ Cardinality(Accounts(Evicted(r), o))
              = IF o = "indeterminate" /\ Full(r) /\ 1 \in WaitingTraces(r) THEN 1 ELSE 0
<1> DEFINE t == r.traces[1]
<1>1. CASE Full(r) /\ t.current
  <2>1. Evicted(r) = <<Finalized(t)>>
    BY <1>1 DEF Evicted, Full
  <2>2. 1 \in DOMAIN r.traces
    BY <1>1, RecorderFacts, TraceAssumption DEF Full
  <2>3. t \in Traces /\ Consistent(t) /\ t.outcome # "pending"
    BY <1>1, <2>2, RecorderFacts DEF TracesInv, IsPending
  <2>4. 1 \in WaitingTraces(r) <=> t.outcome = "confirmed"
    BY <1>1, <2>2 DEF WaitingTraces, IsWaiting
  <2>5. Unaccounted(Finalized(t)) = IF t.outcome = "confirmed" THEN {"indeterminate"} ELSE {}
    BY <1>1, <2>3, EvictedTrace
  <2> DEFINE u == Finalized(t)
  <2> HIDE DEF u, t
  <2>6. /\ IsFiniteSet(DOMAIN <<u>>)
        /\ Cardinality(Accounts(<<u>>, o)) = IF o \in Unaccounted(u) THEN 1 ELSE 0
    BY SingleAccount
  <2>7. o \in Unaccounted(u) <=> o = "indeterminate" /\ 1 \in WaitingTraces(r)
    BY <2>4, <2>5 DEF u
  <2> QED
    BY <1>1, <2>1, <2>6, <2>7 DEF u
<1>2. CASE ~(Full(r) /\ t.current)
  <2>1. Evicted(r) = <<>>
    BY <1>2 DEF Evicted, Full
  <2>2. ~(Full(r) /\ 1 \in WaitingTraces(r))
    BY <1>2 DEF WaitingTraces, IsWaiting
  <2> QED
    BY <2>1, <2>2, SingleAccount
<1> QED
  BY <1>1, <1>2

LEMMA KeptTraces ==
  ASSUME NEW r, NEW mine \in BOOLEAN, TracesInv(r, mine)
  PROVE  LET kept == Kept(r)
             out == IF Full(r) THEN 1 ELSE 0
         IN /\ kept \in Seq(Traces) /\ Len(kept) = Len(r.traces) - out
            /\ Len(kept) \in Nat /\ Len(kept) < MaxTraces
            /\ \A i \in 1..Len(kept) : kept[i] = r.traces[i + out]
<1>1. /\ r.traces \in Seq(Traces) /\ Len(r.traces) \in Nat /\ Len(r.traces) <= MaxTraces
      /\ MaxTraces \in Nat \ {0}
  BY RecorderFacts, TraceAssumption DEF TracesInv
<1>2. CASE Full(r)
  <2>1. r.traces # <<>>
    BY <1>1, <1>2, EmptySeq DEF Full
  <2>2. Kept(r) = Tail(r.traces)
    BY <1>2 DEF Kept, Full
  <2>3. /\ Tail(r.traces) \in Seq(Traces) /\ Len(Tail(r.traces)) = Len(r.traces) - 1
        /\ \A i \in 1..Len(Tail(r.traces)) : Tail(r.traces)[i] = r.traces[i + 1]
    BY <1>1, <2>1, HeadTailProperties
  <2> QED
    BY <1>1, <1>2, <2>2, <2>3 DEF Full
<1>3. CASE ~Full(r)
  <2>1. Kept(r) = r.traces
    BY <1>3 DEF Kept, Full
  <2> QED
    BY <1>1, <1>3, <2>1 DEF Full
<1> QED
  BY <1>2, <1>3

\* The waiting traces of a buffer whose places moved down by one when it was full.
LEMMA KeptCount ==
  ASSUME NEW r, NEW mine \in BOOLEAN, TracesInv(r, mine), NEW T,
         T = {i \in Nat : i + (IF Full(r) THEN 1 ELSE 0) \in WaitingTraces(r) /\ i # 0}
  PROVE  /\ Cardinality(T) \in Nat
         /\ Cardinality(WaitingTraces(r))
              = Cardinality(T) + (IF Full(r) /\ 1 \in WaitingTraces(r) THEN 1 ELSE 0)
<1> DEFINE W == WaitingTraces(r)
<1>1. IsFiniteSet(W) /\ Cardinality(W) \in Nat
  BY RecorderFacts
<1>2. W \in SUBSET (Nat \ {0})
  <2>1. W \subseteq 1..Len(r.traces) /\ Len(r.traces) \in Nat
    BY RecorderFacts DEF WaitingTraces
  <2> HIDE DEF W
  <2> QED
    BY <2>1
<1> HIDE DEF W
<1>3. CASE Full(r)
  <2> DEFINE S == W \ {1}
  <2>1. S \in SUBSET (Nat \ {0, 1}) /\ T = {i \in Nat : i + 1 \in S}
    BY <1>2, <1>3 DEF W
  <2>2. IsFiniteSet(S) /\ Cardinality(S) = IF 1 \in W THEN Cardinality(W) - 1 ELSE Cardinality(W)
    BY <1>1, FS_RemoveElement
  <2> HIDE DEF S
  <2>3. Cardinality(T) = Cardinality(S)
    BY <2>1, <2>2, ShiftCount
  <2>4. Cardinality(S) \in Nat
    BY <2>2, FS_CardinalityType
  <2> QED
    BY <1>1, <1>3, <2>2, <2>3, <2>4 DEF W
<1>4. CASE ~Full(r)
  <2>1. T = W
    BY <1>2, <1>4 DEF W
  <2> QED
    BY <1>1, <1>4, <2>1 DEF W
<1> QED
  BY <1>3, <1>4

\* start_command: the new trace is the pending one, and the one that left the buffer
\* has its verdict.
LEMMA StartCommandKeeps ==
  ASSUME NEW r, NEW t, RecorderInv(r, t), ~t.mine, r.active
  PROVE  LET k == StartCommand(r)
         IN /\ RecorderInv(k, [t EXCEPT !.mine = TRUE]) /\ k.active
            /\ k.traces[Len(k.traces)] = Started
<1> DEFINE kept == Kept(r)
           out == IF Full(r) THEN 1 ELSE 0
           n == Len(kept) + 1
           ended == WithOutcomes(r.metrics, Evicted(r))
           m == [ended EXCEPT !.started = ended.started + 1]
           ts == Append(kept, Started)
           k == StartCommand(r)
           W == WaitingTraces(r)
           T == {i \in Nat : i + out \in W /\ i # 0}
<1>0. /\ TracesInv(r, FALSE) /\ t \in [confirmed : Nat, failed : Nat, mine : BOOLEAN]
      /\ Balanced(r.metrics, 0, Cardinality(W), t.confirmed, t.failed)
  <2>1. t.mine = FALSE
    BY DEF RecorderInv
  <2> QED
    BY <2>1 DEF RecorderInv, Open
<1>1. /\ r \in Recorders /\ r.metrics \in Metrics
      /\ DOMAIN r.traces = 1..Len(r.traces) /\ Len(r.traces) \in Nat
      /\ Cardinality(W) \in Nat
  BY <1>0, RecorderFacts DEF TracesInv
<1>2. /\ kept \in Seq(Traces) /\ Len(kept) = Len(r.traces) - out
      /\ n \in 1..n /\ n - 1 \in Nat /\ n <= MaxTraces
      /\ \A i \in 1..n - 1 : kept[i] = r.traces[i + out]
  <2>1. /\ kept \in Seq(Traces) /\ Len(kept) = Len(r.traces) - out
        /\ Len(kept) \in Nat /\ Len(kept) < MaxTraces
        /\ \A i \in 1..Len(kept) : kept[i] = r.traces[i + out]
    BY <1>0, KeptTraces
  <2> HIDE DEF kept, out
  <2>2. n \in 1..n /\ n - 1 \in Nat /\ n <= MaxTraces /\ n - 1 = Len(kept)
    BY <2>1, TraceAssumption
  <2> QED
    BY <2>1, <2>2
<1>3. Started \in Traces
  <2>1. 0 \in 0..Window /\ 0 \in 0..2 /\ 0 \in 0..MaxGap + 1
    BY TraceAssumption
  <2> QED
    BY <2>1 DEF Started, Traces, Writers
<1>4. /\ m \in Metrics /\ m.started = r.metrics.started + 1
      /\ m.confirmed = r.metrics.confirmed /\ m.failed = r.metrics.failed
      /\ m.effective = r.metrics.effective /\ m.ineffective = r.metrics.ineffective
      /\ m.indeterminate = r.metrics.indeterminate + (IF Full(r) /\ 1 \in W THEN 1 ELSE 0)
  <2> DEFINE evicted == Evicted(r)
  <2>1. /\ IsFiniteSet(DOMAIN evicted)
        /\ \A o : Cardinality(Accounts(evicted, o))
                    = IF o = "indeterminate" /\ Full(r) /\ 1 \in W THEN 1 ELSE 0
    BY <1>0, EvictedAccounts
  <2>2. ended = WithOutcomes(r.metrics, evicted)
    OBVIOUS
  <2> HIDE DEF ended, evicted, W
  <2>3. /\ ended \in Metrics /\ ended.started = r.metrics.started + 0
        /\ ended.confirmed = r.metrics.confirmed + 0 /\ ended.failed = r.metrics.failed + 0
        /\ ended.effective = r.metrics.effective + 0
        /\ ended.ineffective = r.metrics.ineffective + 0
        /\ ended.indeterminate = r.metrics.indeterminate + (IF Full(r) /\ 1 \in W THEN 1 ELSE 0)
    BY <1>1, <2>1, <2>2, OutcomesAreAdded
  <2>4. ended.started + 1 \in Nat
    BY <2>3 DEF Metrics
  <2>5. /\ m \in Metrics /\ m.started = ended.started + 1
        /\ m.confirmed = ended.confirmed /\ m.failed = ended.failed
        /\ m.effective = ended.effective /\ m.ineffective = ended.ineffective
        /\ m.indeterminate = ended.indeterminate
    BY <2>3, <2>4 DEF Metrics
  <2> HIDE DEF m
  <2> QED
    BY <1>1, <2>3, <2>5 DEF Metrics
<1>5. /\ ts \in Seq(Traces) /\ Len(ts) = n /\ ts[n] = Started
      /\ \A i \in 1..n - 1 : ts[i] = kept[i]
  <2> HIDE DEF kept
  <2>1. kept \in Seq(Traces) /\ Started \in Traces
    BY <1>2, <1>3
  <2>2. /\ ts \in Seq(Traces) /\ Len(ts) = Len(kept) + 1 /\ ts[Len(kept) + 1] = Started
        /\ \A i \in 1..Len(kept) : ts[i] = kept[i]
    BY <2>1, AppendProperties
  <2>3. n - 1 = Len(kept)
    BY <1>2, LenProperties
  <2> QED
    BY <2>2, <2>3
<1>6. DOMAIN ts = 1..n /\ \A i \in 1..n - 1 : ts[i] = r.traces[i + out]
  <2> HIDE DEF ts, n, kept, out
  <2> QED
    BY <1>2, <1>5, LenProperties
<1>7. \A i \in 1..n - 1 : i + out \in 1..Len(r.traces)
  BY <1>1, <1>2
<1>10. k \in Recorders /\ k.active = TRUE /\ k.traces = ts /\ k.metrics = m
  <2>1. k = [r EXCEPT !.traces = ts, !.metrics = m]
    BY DEF StartCommand
  <2> HIDE DEF k, ts, m
  <2> QED
    BY <1>1, <1>4, <1>5, <2>1 DEF Recorders
<1> HIDE DEF m, ended, k, ts, n, kept
<1>11. IsPending(Started) /\ ~IsWaiting(Started) /\ Consistent(Started)
  BY DEF Started, IsPending, IsWaiting, Consistent, Verdicts
<1>12. TracesInv(k, TRUE)
  <2>1. \A i \in 1..n - 1 : Consistent(ts[i]) /\ ~IsPending(ts[i])
    <3> HIDE DEF out
    <3> QED
      BY <1>0, <1>1, <1>6, <1>7 DEF TracesInv
  <2>2. ts # <<>>
    BY <1>2, <1>6
  <2>3. \A i \in 1..n : Consistent(ts[i]) /\ (IsPending(ts[i]) <=> i = n)
    BY <1>2, <1>5, <1>6, <1>11, <2>1
  <2> QED
    BY <1>2, <1>5, <1>6, <1>10, <2>2, <2>3 DEF TracesInv
<1>13. WaitingTraces(k) = T
  <2>1. \A i \in 1..n - 1 : IsWaiting(ts[i]) <=> i + out \in W
    <3>1. \A j \in 1..Len(r.traces) : j \in W <=> IsWaiting(r.traces[j])
      BY <1>1 DEF WaitingTraces
    <3> HIDE DEF out, W
    <3> QED
      BY <1>6, <1>7, <3>1
  <2>2. \A i \in Nat : i + out \in W /\ i # 0 => i \in 1..n - 1
    <3>1. W \subseteq 1..Len(r.traces)
      BY <1>1 DEF WaitingTraces
    <3>2. Len(r.traces) - out = n - 1 /\ out \in Nat
      BY <1>1, <1>2 DEF n
    <3> HIDE DEF out, W
    <3> QED
      BY <1>1, <1>2, <3>1, <3>2
  <2>3. \A i : i \in WaitingTraces(k) <=> i \in 1..n /\ IsWaiting(ts[i])
    BY <1>6, <1>10 DEF WaitingTraces
  <2> HIDE DEF out, W
  <2>4. \A i \in 1..n - 1 : i \in Nat /\ i # 0 /\ i \in 1..n
    BY <1>2
  <2>5. \A i \in 1..n : i = n \/ i \in 1..n - 1
    BY <1>2
  <2> QED
    BY <1>5, <1>6, <1>11, <2>1, <2>2, <2>3, <2>4, <2>5
<1>14. /\ Cardinality(T) \in Nat
       /\ Cardinality(W) = Cardinality(T) + (IF Full(r) /\ 1 \in W THEN 1 ELSE 0)
  BY <1>0, KeptCount
<1>15. Balanced(m, 1, Cardinality(T), t.confirmed, t.failed)
  <2> HIDE DEF T, W, out
  <2>1. /\ t.confirmed \in Nat /\ t.failed \in Nat
        /\ r.metrics.effective \in Nat /\ r.metrics.ineffective \in Nat
        /\ r.metrics.indeterminate \in Nat
    BY <1>0, <1>1 DEF Metrics
  <2> DEFINE gone == IF Full(r) /\ 1 \in W THEN 1 ELSE 0
  <2>2. /\ gone \in Nat /\ Cardinality(W) = Cardinality(T) + gone
        /\ m.indeterminate = r.metrics.indeterminate + gone
    BY <1>4, <1>14
  <2> HIDE DEF gone
  <2>3. Judged(m) = Judged(r.metrics) + gone
    BY <1>4, <2>1, <2>2 DEF Judged
  <2>4. Judged(r.metrics) \in Nat
    BY <2>1 DEF Judged
  <2> QED
    BY <1>0, <1>4, <1>14, <2>1, <2>2, <2>3, <2>4 DEF Balanced
<1>16. LET u == [t EXCEPT !.mine = TRUE]
       IN /\ u \in [confirmed : Nat, failed : Nat, mine : BOOLEAN] /\ u.mine = TRUE
          /\ u.confirmed = t.confirmed /\ u.failed = t.failed
  BY <1>0
<1> QED
  BY <1>5, <1>10, <1>12, <1>13, <1>15, <1>16 DEF RecorderInv, Open, k

\* A command that is sent: its trace has the beginning of its frames.
LEMMA StartingKeeps ==
  ASSUME NEW r, NEW t, RecorderInv(r, t), ~t.mine, r.active
  PROVE  /\ RecorderInv(Starting(r), [t EXCEPT !.mine = TRUE])
         /\ Starting(r).active /\ HasBegun(Starting(r), TRUE)
<1> DEFINE k == StartCommand(r)
           u == [t EXCEPT !.mine = TRUE]
<1>1. RecorderInv(k, u) /\ k.active
  BY StartCommandKeeps
<1>2. u.mine
  BY DEF RecorderInv
<1> HIDE DEF k, u
<1>3. LET s == RecordModbusStarted(k, "own")
      IN RecorderInv(s, u) /\ s.active = k.active /\ HasBegun(s, TRUE)
  BY <1>1, <1>2, ModbusStartedKeeps
<1> QED
  BY <1>1, <1>3 DEF Starting, k, u

\* One that is refused: its trace has failed, and has no write.
LEMMA RefusedKeeps ==
  ASSUME NEW r, NEW t, RecorderInv(r, t), ~t.mine, r.active
  PROVE  LET k == FinishCommand(StartCommand(r), FALSE)
         IN RecorderInv(k, [t EXCEPT !.failed = @ + 1]) /\ k.active
<1> DEFINE k == StartCommand(r)
           u == [t EXCEPT !.mine = TRUE]
           v == [t EXCEPT !.failed = t.failed + 1]
<1>0. t \in [confirmed : Nat, failed : Nat, mine : BOOLEAN]
  BY DEF RecorderInv
<1>1. RecorderInv(k, u) /\ k.active /\ k.traces[Len(k.traces)] = Started
  BY StartCommandKeeps
<1>2. u.mine /\ EndedTruth(u, FALSE) = v
  BY <1>0 DEF EndedTruth
<1>3. Started.began = "none" /\ Started.ended = "none"
  BY DEF Started
<1> HIDE DEF k, u
<1>4. LET f == FinishCommand(k, FALSE)
      IN RecorderInv(f, EndedTruth(u, FALSE)) /\ f.active = k.active
  BY <1>1, <1>3, FinishCommandKeeps
<1> QED
  BY <1>1, <1>2, <1>4 DEF k

\* Time changes no verdict and no account.
LEMMA ElapsedTrace ==
  ASSUME NEW t \in Traces
  PROVE  Elapsed(t) \in Traces /\ SameWrite(t, Elapsed(t)) /\ Elapsed(t).outcome = t.outcome
<1>1. CASE t.outcome \notin {"pending", "confirmed"}
  BY <1>1 DEF Elapsed, SameWrite
<1>2. CASE t.outcome \in {"pending", "confirmed"}
  <2> DEFINE age == IF t.age < Window THEN t.age + 1 ELSE t.age
             silence == IF t.silence <= MaxGap THEN t.silence + 1 ELSE t.silence
  <2>1. Elapsed(t) = [t EXCEPT !.age = age, !.silence = silence]
    BY <1>2 DEF Elapsed
  <2>2. age \in 0..Window /\ silence \in 0..MaxGap + 1
    BY TraceAssumption DEF Traces
  <2> HIDE DEF age, silence
  <2> QED
    BY <2>1, <2>2 DEF Traces, SameWrite
<1> QED
  BY <1>1, <1>2

LEMMA ElapsedKeeps ==
  ASSUME NEW r, NEW t, RecorderInv(r, t)
  PROVE  /\ RecorderInv(WithElapsed(r), t) /\ WithElapsed(r).active = r.active
         /\ HasBegun(r, t.mine) => HasBegun(WithElapsed(r), t.mine)
<1> DEFINE n == Len(r.traces)
           ts == [i \in DOMAIN r.traces |-> Elapsed(r.traces[i])]
           k == WithElapsed(r)
<1>1. /\ TracesInv(r, t.mine) /\ t.mine \in BOOLEAN
  BY DEF RecorderInv
<1>2. /\ r \in Recorders /\ n \in Nat /\ DOMAIN r.traces = 1..n
      /\ \A i \in 1..n : r.traces[i] \in Traces
      /\ t.mine => n \in 1..n
  BY <1>1, RecorderFacts DEF TracesInv
<1>3. ts \in [1..n -> Traces] /\ \A i \in 1..n : ts[i] = Elapsed(r.traces[i])
  <2>1. \A i \in 1..n : Elapsed(r.traces[i]) \in Traces
    BY <1>2, ElapsedTrace
  <2>2. ts = [i \in 1..n |-> Elapsed(r.traces[i])]
    BY <1>2
  <2> HIDE DEF ts
  <2> QED
    BY <2>1, <2>2
<1>4. k = [r EXCEPT !.traces = ts]
  BY DEF WithElapsed
<1> HIDE DEF ts, k
<1>5. ts \in Seq(Traces) /\ Len(ts) = n /\ DOMAIN ts = 1..n
  BY <1>2, <1>3, SeqDef
<1>6. k \in Recorders /\ k.active = r.active /\ k.traces = ts /\ k.metrics = r.metrics
  BY <1>2, <1>4, <1>5 DEF Recorders
<1>7. \A i \in 1..n : /\ SameWrite(r.traces[i], ts[i]) /\ ts[i].outcome = r.traces[i].outcome
  BY <1>2, <1>3, ElapsedTrace
<1>8. \A i \in 1..n : /\ IsPending(ts[i]) <=> IsPending(r.traces[i])
                      /\ IsWaiting(ts[i]) <=> IsWaiting(r.traces[i])
  BY <1>7 DEF SameWrite, IsPending, IsWaiting
<1>9. \A i \in 1..n : Consistent(ts[i])
  <2> SUFFICES ASSUME NEW i \in 1..n PROVE Consistent(ts[i])
    OBVIOUS
  <2>1. Consistent(r.traces[i])
    BY <1>1, <1>2 DEF TracesInv
  <2>2. SameWrite(r.traces[i], ts[i]) /\ ts[i].outcome = r.traces[i].outcome
    BY <1>7
  <2> QED
    BY <2>1, <2>2, Zenon DEF SameWrite, Consistent
<1>10. WaitingTraces(k) = WaitingTraces(r)
  BY <1>2, <1>5, <1>6, <1>8 DEF WaitingTraces
<1>11. t.mine => ts # <<>>
  <2>1. Len(<<>>) = 0
    BY EmptySeq
  <2> QED
    BY <1>2, <1>5, <2>1
<1>12. \A i \in 1..n : ts[i].current = r.traces[i].current
  BY <1>7 DEF SameWrite
<1>13. TracesInv(k, t.mine)
  BY <1>1, <1>2, <1>5, <1>6, <1>8, <1>9, <1>11, <1>12 DEF TracesInv
<1>14. HasBegun(r, t.mine) => HasBegun(k, t.mine)
  BY <1>2, <1>5, <1>6, <1>7 DEF HasBegun, SameWrite
<1> QED
  BY <1>6, <1>10, <1>13, <1>14 DEF RecorderInv, k

(***************************************************************************)
(* Sessions.                                                               *)
(***************************************************************************)
\* A recorder none of whose traces is of a session, and which has counted nothing.
Fresh(r) ==
  /\ r \in Recorders /\ Len(r.traces) <= MaxTraces
  /\ r.metrics = NoMetrics /\ \A i \in DOMAIN r.traces : ~r.traces[i].current

LEMMA FreshInv ==
  ASSUME NEW r, Fresh(r)
  PROVE  RecorderInv(r, NoTruth)
<1>1. /\ NoTruth \in [confirmed : Nat, failed : Nat, mine : BOOLEAN] /\ NoTruth.mine = FALSE
      /\ NoTruth.confirmed = 0 /\ NoTruth.failed = 0
  BY DEF NoTruth
<1>2. TracesInv(r, FALSE)
  BY DEF Fresh, TracesInv, Consistent, IsPending
<1>3. WaitingTraces(r) = {}
  BY DEF Fresh, WaitingTraces, IsWaiting
<1>4. Balanced(r.metrics, 0, 0, 0, 0)
  BY DEF Fresh, NoMetrics, Balanced, Judged
<1> QED
  BY <1>1, <1>2, <1>3, <1>4, FS_EmptySet DEF RecorderInv, Open

LEMMA NewIsFresh == Fresh(NewRecorder) /\ ~NewRecorder.active
<1>1. NoMetrics \in Metrics
  BY DEF NoMetrics, Metrics
<1>2. <<>> \in Seq(Traces) /\ Len(<<>>) = 0
  BY EmptySeq
<1>3. DOMAIN <<>> = {}
  OBVIOUS
<1>4. NewRecorder \in Recorders
  BY <1>1, <1>2 DEF NewRecorder, Recorders
<1> QED
  BY <1>2, <1>3, <1>4, TraceAssumption DEF NewRecorder, Fresh

\* stop_session and start_session leave nothing of the session before.
LEMMA StopKeeps ==
  ASSUME NEW r, NEW t, RecorderInv(r, t)
  PROVE  /\ Fresh(StopSession(r)) /\ StopSession(r).active = FALSE
         /\ Fresh(StartSession(r)) /\ StartSession(r).active = TRUE
<1> DEFINE n == Len(r.traces)
           k == StopSession(r)
<1>1. TracesInv(r, t.mine) /\ t.mine \in BOOLEAN
  BY DEF RecorderInv
<1>2. /\ r \in Recorders /\ r.active \in BOOLEAN /\ n \in Nat /\ n <= MaxTraces
      /\ DOMAIN r.traces = 1..n
  BY <1>1, RecorderFacts DEF TracesInv
<1>3. Fresh(k) /\ k.active = FALSE
  <2>1. CASE ~r.active
    BY <1>1, <1>2, <2>1 DEF StopSession, Fresh, TracesInv
  <2>2. CASE r.active
    <3> DEFINE ts == [i \in 1..n |-> Past]
    <3>1. Past \in Traces /\ Past.current = FALSE
      <4>1. 0 \in 0..Window /\ 0 \in 0..2 /\ 0 \in 0..MaxGap + 1
        BY TraceAssumption
      <4> QED
        BY <4>1 DEF Past, Started, Traces, Writers
    <3>2. ts \in Seq(Traces) /\ Len(ts) = n /\ DOMAIN ts = 1..n
      <4>1. ts \in [1..n -> Traces]
        BY <3>1
      <4> HIDE DEF ts
      <4> QED
        BY <1>2, <4>1, SeqDef
    <3>3. k = [active |-> FALSE, traces |-> ts, metrics |-> NoMetrics]
      BY <1>2, <2>2 DEF StopSession
    <3>4. \A i \in 1..n : ts[i].current = FALSE
      BY <3>1
    <3>5. NoMetrics \in Metrics
      BY DEF NoMetrics, Metrics
    <3> HIDE DEF ts, k
    <3> QED
      BY <1>2, <3>2, <3>3, <3>4, <3>5 DEF Fresh, Recorders
  <2> QED
    BY <1>2, <2>1, <2>2
<1>4. StartSession(r) = [k EXCEPT !.active = TRUE]
  BY DEF StartSession
<1> HIDE DEF k
<1>5. Fresh(StartSession(r)) /\ StartSession(r).active = TRUE
  BY <1>3, <1>4 DEF Fresh, Recorders
<1> QED
  BY <1>3, <1>5 DEF k

\* The report of a session that ends here closes its books.
LEMMA ReportCloses ==
  ASSUME NEW r, NEW t, RecorderInv(r, t)
  PROVE  LET m == Report(r)
         IN m.started = m.confirmed + m.failed /\ m.confirmed = Judged(m)
<1> DEFINE D == DOMAIN r.traces
           n == Len(r.traces)
           ts == FinalTraces(r)
           m == WithOutcomes(r.metrics, ts)
           W == WaitingTraces(r)
           P == PendingTraces(r)
           verdict == [i \in W |-> ts[i].outcome]
           with(o) == {i \in W : verdict[i] = o}
<1>1. /\ TracesInv(r, t.mine) /\ t.mine \in BOOLEAN
      /\ t \in [confirmed : Nat, failed : Nat, mine : BOOLEAN]
  BY DEF RecorderInv
<1>2. /\ r \in Recorders /\ n \in Nat /\ D = 1..n /\ \A i \in D : r.traces[i] \in Traces
      /\ r.metrics \in Metrics /\ IsFiniteSet(D) /\ IsFiniteSet(W) /\ Cardinality(W) \in Nat
      /\ \A i \in D : Consistent(r.traces[i]) /\ r.active \in BOOLEAN
  BY <1>1, RecorderFacts DEF TracesInv
<1>3. /\ DOMAIN ts = {i \in D : r.traces[i].current}
      /\ \A i \in DOMAIN ts : ts[i] = Finalized(Evaluated(r.traces[i]))
  BY DEF FinalTraces, CurrentTraces
<1> HIDE DEF ts
<1>4. \A i \in DOMAIN ts :
        /\ r.traces[i].outcome = "pending" => Unaccounted(ts[i]) = {"failed"}
        /\ r.traces[i].outcome = "confirmed"
             => ts[i].outcome \in Verdicts /\ Unaccounted(ts[i]) = {ts[i].outcome}
        /\ r.traces[i].outcome \notin {"pending", "confirmed"} => Unaccounted(ts[i]) = {}
  BY <1>2, <1>3, FinalTrace
<1>5. W = {i \in DOMAIN ts : r.traces[i].outcome = "confirmed"}
  BY <1>3 DEF WaitingTraces, IsWaiting
<1>6. P = {i \in DOMAIN ts : r.traces[i].outcome = "pending"}
  <2>1. r.active = FALSE => DOMAIN ts = {}
    BY <1>1, <1>3 DEF TracesInv
  <2> QED
    BY <1>2, <1>3, <2>1 DEF PendingTraces
<1>7. Cardinality(P) = Open(t.mine)
  BY <1>1, PendingIsLast
<1> HIDE DEF W, P
<1>8. /\ Accounts(ts, "started") = {} /\ Accounts(ts, "confirmed") = {}
      /\ Accounts(ts, "failed") = P
      /\ \A o \in Verdicts : Accounts(ts, o) = with(o)
  <2>1. \A o : \A i \in DOMAIN ts : o \in Unaccounted(ts[i])
                 <=> \/ i \in P /\ o = "failed"
                     \/ i \in W /\ o = ts[i].outcome /\ o \in Verdicts
    BY <1>4, <1>5, <1>6
  <2>2. P \subseteq DOMAIN ts /\ W \subseteq DOMAIN ts
    BY <1>5, <1>6
  <2>3. \A o : Accounts(ts, o) = {i \in DOMAIN ts : \/ i \in P /\ o = "failed"
                                                    \/ i \in W /\ o = ts[i].outcome /\ o \in Verdicts}
    BY <2>1 DEF Accounts
  <2>4. \A i \in W : verdict[i] = ts[i].outcome
    OBVIOUS
  <2> HIDE DEF verdict
  <2>5. Accounts(ts, "failed") = P
    BY <2>2, <2>3 DEF Verdicts
  <2>6. Accounts(ts, "started") = {} /\ Accounts(ts, "confirmed") = {}
    BY <2>3 DEF Verdicts
  <2>7. \A o \in Verdicts : Accounts(ts, o) = with(o)
    BY <2>2, <2>3, <2>4 DEF Verdicts
  <2> QED
    BY <2>5, <2>6, <2>7
<1>9. /\ \A o \in Verdicts : Cardinality(with(o)) \in Nat
      /\ Cardinality(W) = Cardinality(with("effective")) + Cardinality(with("ineffective"))
                          + Cardinality(with("indeterminate"))
  <2>1. \A i \in W : verdict[i] \in Verdicts
    BY <1>4, <1>5
  <2> HIDE DEF verdict
  <2>2. with("confirmed") = {}
    BY <2>1 DEF Verdicts
  <2>3. /\ \A o \in Verdicts \cup {"confirmed"} : Cardinality(with(o)) \in Nat
        /\ Cardinality(W) = Cardinality(with("effective")) + Cardinality(with("ineffective"))
                            + Cardinality(with("indeterminate")) + Cardinality(with("confirmed"))
    BY <1>2, <2>1, OutcomeCount
  <2> HIDE DEF with
  <2>4. /\ Cardinality(with("effective")) \in Nat /\ Cardinality(with("ineffective")) \in Nat
        /\ Cardinality(with("indeterminate")) \in Nat
    BY <2>3 DEF Verdicts
  <2> QED
    BY <2>2, <2>3, <2>4, FS_EmptySet
<1> HIDE DEF with
<1>10. IsFiniteSet(DOMAIN ts)
  BY <1>2, <1>3, PartCount
<1>11. /\ m.started = r.metrics.started + 0 /\ m.confirmed = r.metrics.confirmed + 0
       /\ m.failed = r.metrics.failed + Open(t.mine)
       /\ m.effective = r.metrics.effective + Cardinality(with("effective"))
       /\ m.ineffective = r.metrics.ineffective + Cardinality(with("ineffective"))
       /\ m.indeterminate = r.metrics.indeterminate + Cardinality(with("indeterminate"))
  <2>1. Cardinality({}) = 0
    BY FS_EmptySet
  <2>2. /\ Accounts(ts, "effective") = with("effective")
        /\ Accounts(ts, "ineffective") = with("ineffective")
        /\ Accounts(ts, "indeterminate") = with("indeterminate")
    BY <1>8 DEF Verdicts
  <2> QED
    BY <1>2, <1>7, <1>8, <1>10, <2>1, <2>2, OutcomesAreAdded
<1> HIDE DEF m
<1>12. /\ r.metrics.started \in Nat /\ r.metrics.confirmed \in Nat /\ r.metrics.failed \in Nat
       /\ r.metrics.effective \in Nat /\ r.metrics.ineffective \in Nat
       /\ r.metrics.indeterminate \in Nat
  BY <1>2 DEF Metrics
<1>13. /\ r.metrics.started = r.metrics.confirmed + r.metrics.failed + Open(t.mine)
       /\ r.metrics.confirmed = Judged(r.metrics) + Cardinality(W)
  <2>1. CASE r.active
    BY <2>1 DEF RecorderInv, Balanced, W
  <2>2. CASE ~r.active
    <3>1. r.metrics = NoMetrics /\ ~t.mine /\ DOMAIN ts = {}
      BY <1>1, <1>3, <2>2 DEF TracesInv
    <3>2. W = {}
      BY <1>5, <3>1
    <3> QED
      BY <3>1, <3>2, FS_EmptySet DEF NoMetrics, Judged, Open
  <2> QED
    BY <2>1, <2>2
<1>14. Open(t.mine) \in Nat
  BY DEF Open
<1>15. /\ Cardinality(with("effective")) \in Nat /\ Cardinality(with("ineffective")) \in Nat
       /\ Cardinality(with("indeterminate")) \in Nat
  BY <1>9 DEF Verdicts
<1>16. m.started = m.confirmed + m.failed /\ m.confirmed = Judged(m)
  BY <1>9, <1>11, <1>12, <1>13, <1>14, <1>15 DEF Judged
<1> QED
  BY <1>16 DEF Report, m, ts

(***************************************************************************)
(* The model.                                                              *)
(***************************************************************************)
LEMMA ModelTypes ==
  ASSUME NEW m \in Models
  PROVE  /\ AfterInterval(m) \in Models
         /\ \A powerKnown \in BOOLEAN : AfterBaseline(m, powerKnown) \in Models
         /\ \A enough \in BOOLEAN : AfterRegistration(m, enough) \in Models
         /\ \A based \in Models : \A measured :
              AfterObservation(based, Observation(based, measured)) \in Models
<1>1. /\ Timeout \in Nat /\ SampleInterval \in Nat /\ Timeout + 1 \in Nat
      /\ 0 \in 0..Timeout + 1 /\ 0 \in 0..SampleInterval
  BY AdaptiveAssumption
<1>2. Pending \in Observations /\ NewModel \in Models
  BY <1>1 DEF Pending, NoObservation, Observations, NewModel, Models
<1>3. AfterInterval(m) \in Models
  <2> DEFINE p == m.pending
             age == AtMost(Timeout + 1, p.age + 1)
             wait == IF p.samples = 0 THEN 0 ELSE AtMost(SampleInterval, p.wait + 1)
  <2>1. p \in Observations /\ age \in 0..Timeout + 1 /\ wait \in 0..SampleInterval
    <3>1. p \in Observations
      BY DEF Models
    <3> HIDE DEF p
    <3> QED
      BY <1>1, <3>1 DEF Observations, AtMost
  <2>2. AfterInterval(m) = IF p.active THEN [m EXCEPT !.pending = [p EXCEPT !.age = age, !.wait = wait]]
                           ELSE m
    BY DEF AfterInterval, Models
  <2> HIDE DEF age, wait, p
  <2>3. [p EXCEPT !.age = age, !.wait = wait] \in Observations
    BY <2>1 DEF Observations
  <2> QED
    BY <2>2, <2>3 DEF Models
<1>4. \A powerKnown \in BOOLEAN : AfterBaseline(m, powerKnown) \in Models
  <2>1. AtMost(2, m.baselines + 1) \in 0..2
    BY DEF Models, AtMost
  <2>2. [m EXCEPT !.baselines = AtMost(2, m.baselines + 1)] \in Models
    BY <2>1 DEF Models
  <2> QED
    BY <2>2 DEF AfterBaseline
<1>5. \A enough \in BOOLEAN : AfterRegistration(m, enough) \in Models
  BY <1>2 DEF AfterRegistration, Models
<1>6. ASSUME NEW based \in Models, NEW measured
      PROVE  AfterObservation(based, Observation(based, measured)) \in Models
  <2> DEFINE fate == Observation(based, measured)
  <2>1. [based EXCEPT !.pending.samples = 1, !.pending.wait = 0] \in Models
    <3>1. [based EXCEPT !.pending.samples = 1, !.pending.wait = 0]
            = [based EXCEPT !.pending = [based.pending EXCEPT !.samples = 1, !.wait = 0]]
      BY DEF Models, Observations
    <3>2. [based.pending EXCEPT !.samples = 1, !.wait = 0] \in Observations
      <4> DEFINE p == based.pending
      <4>1. p \in Observations /\ 1 \in 0..1
        BY DEF Models
      <4> HIDE DEF p
      <4>2. [p EXCEPT !.samples = 1, !.wait = 0] \in Observations
        BY <1>1, <4>1 DEF Observations
      <4> QED
        BY <4>2 DEF p
    <3> QED
      BY <3>1, <3>2 DEF Models
  <2> HIDE DEF fate
  <2> QED
    BY <1>2, <2>1 DEF AfterObservation, Resolved, fate
<1> QED
  BY <1>3, <1>4, <1>5, <1>6

(***************************************************************************)
(* The inductive invariant.  A session is open exactly in Production, and  *)
(* the pending command of the session is the one under way, whose frames   *)
(* have begun.                                                             *)
(***************************************************************************)
ObserverInv ==
  /\ mode \in {"Manual", "Production"}
  /\ flight \in Kinds \cup {"none"} /\ ticked \in BOOLEAN /\ slider \in BOOLEAN
  /\ RecorderInv(recorder, truth) /\ HasBegun(recorder, truth.mine)
  /\ recorder.active = (mode = "Production")
  /\ truth.mine => flight # "none"
  /\ model \in Models
  /\ outdated \in BOOLEAN /\ misread \in BOOLEAN

LEMMA ObserverInit == Init => ObserverInv
<1> SUFFICES ASSUME Init PROVE ObserverInv
  OBVIOUS
<1>1. /\ mode \in {"Manual", "Production"} /\ flight = "none" /\ ticked = FALSE /\ slider = FALSE
      /\ model = NewModel /\ truth = NoTruth /\ outdated = FALSE /\ misread = FALSE
  BY DEF Init
<1>2. NewModel \in Models
  BY AdaptiveAssumption DEF NewModel, Models, NoObservation, Observations
<1>3. RecorderInv(NewRecorder, NoTruth) /\ NewRecorder.active = FALSE
  BY NewIsFresh, FreshInv DEF NewRecorder
<1>4. Fresh(StartSession(NewRecorder)) /\ StartSession(NewRecorder).active = TRUE
  BY <1>3, StopKeeps
<1>5. RecorderInv(recorder, NoTruth) /\ recorder.active = (mode = "Production")
  <2>1. CASE mode = "Production"
    BY <1>4, <2>1, FreshInv DEF Init
  <2>2. CASE mode # "Production"
    BY <1>3, <2>2 DEF Init
  <2> QED
    BY <2>1, <2>2
<1>6. NoTruth.mine = FALSE
  BY DEF NoTruth
<1> QED
  BY <1>1, <1>2, <1>5, <1>6 DEF ObserverInv, HasBegun

\* A tick's measurement disturbs no book.
LEMMA ObservedStep ==
  ASSUME ObserverInv, NEW r, NEW m, Observed(r, m)
  PROVE  /\ RecorderInv(r, truth) /\ r.active = recorder.active
         /\ HasBegun(r, truth.mine) /\ m \in Models
<1>1. PICK inDeadband \in BOOLEAN, powerKnown \in BOOLEAN, measured \in Measurements :
        LET based == AfterBaseline(model, powerKnown)
            fate == Observation(based, measured)
        IN /\ r = ObserveMeasurement(recorder, inDeadband)
           /\ m = AfterObservation(based, fate)
  BY DEF Observed
<1>2. RecorderInv(r, truth) /\ r.active = recorder.active /\ HasBegun(r, truth.mine)
  BY <1>1, MeasurementKeeps DEF ObserverInv
<1>3. AfterBaseline(model, powerKnown) \in Models
  BY ModelTypes DEF ObserverInv
<1>4. m \in Models
  BY <1>1, <1>3, ModelTypes
<1> QED
  BY <1>2, <1>4

\* The end of a command, one of the session's or one of a session that is over.
LEMMA EndedStep ==
  ASSUME ObserverInv, NEW confirmed \in BOOLEAN
  PROVE  /\ RecorderInv(Ended(confirmed), Tallied(confirmed))
         /\ Ended(confirmed).active = recorder.active
         /\ ~Tallied(confirmed).mine /\ HasBegun(Ended(confirmed), Tallied(confirmed).mine)
<1> DEFINE k == FinishModbus(recorder, "own")
<1>1. /\ RecorderInv(k, truth) /\ k.active = recorder.active /\ HasBegun(k, truth.mine)
      /\ truth.mine => k.traces[Len(k.traces)].ended = "own"
  BY FinishModbusKeeps DEF ObserverInv
<1> HIDE DEF k
<1>2. /\ RecorderInv(FinishCommand(k, confirmed), EndedTruth(truth, confirmed))
      /\ FinishCommand(k, confirmed).active = k.active
  BY <1>1, FinishCommandKeeps DEF HasBegun
<1>3. Tallied(confirmed) = EndedTruth(truth, confirmed)
  BY DEF Tallied, EndedTruth
<1>4. ~Tallied(confirmed).mine
  <2>1. truth \in [confirmed : Nat, failed : Nat, mine : BOOLEAN]
    BY DEF ObserverInv, RecorderInv
  <2>2. CASE ~truth.mine
    BY <2>2 DEF Tallied
  <2>3. CASE truth.mine /\ confirmed
    BY <2>1, <2>3 DEF Tallied
  <2>4. CASE truth.mine /\ ~confirmed
    BY <2>1, <2>4 DEF Tallied
  <2> QED
    BY <2>2, <2>3, <2>4
<1> QED
  BY <1>1, <1>2, <1>3, <1>4 DEF Ended, HasBegun, k

LEMMA ObserverStep == ObserverInv /\ [Next]_vars => ObserverInv'
<1> SUFFICES ASSUME ObserverInv, [Next]_vars PROVE ObserverInv'
  OBVIOUS
<1>0. /\ mode \in {"Manual", "Production"} /\ flight \in Kinds \cup {"none"}
      /\ ticked \in BOOLEAN /\ slider \in BOOLEAN /\ RecorderInv(recorder, truth)
      /\ recorder.active = (mode = "Production") /\ (truth.mine => flight # "none")
      /\ HasBegun(recorder, truth.mine) /\ model \in Models
      /\ outdated \in BOOLEAN /\ misread \in BOOLEAN
  BY DEF ObserverInv
<1>1. CASE TickObserves
  <2>1. /\ RecorderInv(recorder', truth) /\ recorder'.active = recorder.active
        /\ HasBegun(recorder', truth.mine) /\ model' \in Models
    BY <1>1, ObservedStep DEF TickObserves
  <2> QED
    BY <1>0, <1>1, <2>1 DEF TickObserves, Ticking, historyVars, ObserverInv
<1>2. CASE TickCommands
  <2>1. PICK r : Observed(r, model') /\ recorder' = Starting(r)
    BY <1>2 DEF TickCommands
  <2>2. /\ RecorderInv(r, truth) /\ r.active = recorder.active
        /\ model' \in Models
    BY <2>1, ObservedStep
  <2>3. mode = "Production" /\ flight = "none" /\ ~truth.mine
    BY <1>0, <1>2 DEF TickCommands, Ticking
  <2>4. /\ RecorderInv(recorder', truth') /\ recorder'.active
        /\ HasBegun(recorder', truth'.mine)
    BY <1>0, <1>2, <2>1, <2>2, <2>3, StartingKeeps DEF TickCommands, HasBegun
  <2>5. recorder'.active = TRUE
    BY <2>4 DEF RecorderInv, TracesInv, Recorders
  <2>6. /\ flight' \in {"correction", "release"} /\ mode' = mode /\ slider' = slider
        /\ outdated' = outdated /\ misread' = misread /\ ticked' = TRUE
    BY <1>2 DEF TickCommands, Ticking
  <2> QED
    BY <1>0, <2>2, <2>3, <2>4, <2>5, <2>6 DEF ObserverInv, Kinds
<1>3. CASE TickTakesOver
  <2>1. mode = "Production" /\ flight = "none" /\ ~truth.mine
    BY <1>0, <1>3 DEF TickTakesOver, Ticking
  <2>2. /\ RecorderInv(recorder', truth') /\ recorder'.active
        /\ HasBegun(recorder', truth'.mine)
    BY <1>0, <1>3, <2>1, StartingKeeps DEF TickTakesOver, HasBegun
  <2>3. recorder'.active = TRUE
    BY <2>2 DEF RecorderInv, TracesInv, Recorders
  <2>4. /\ flight' = "takeover" /\ mode' = mode /\ slider' = slider /\ model' = model
        /\ outdated' = outdated /\ misread' = misread /\ ticked' = TRUE
    BY <1>3 DEF TickTakesOver, Ticking
  <2> QED
    BY <1>0, <2>1, <2>2, <2>3, <2>4 DEF ObserverInv, Kinds
<1>4. CASE CommandConfirmed
  <2>1. /\ RecorderInv(recorder', truth') /\ recorder'.active = recorder.active /\ ~truth'.mine
        /\ HasBegun(recorder', truth'.mine)
    BY <1>4, EndedStep DEF CommandConfirmed
  <2>2. PICK powerKnown \in BOOLEAN, enough \in BOOLEAN :
          LET registers == flight = "correction" /\ powerKnown
          IN /\ model' = IF registers THEN AfterRegistration(model, enough) ELSE model
             /\ misread' = IF registers /\ IsObservable(model, enough) THEN outdated ELSE misread
    BY <1>4 DEF CommandConfirmed
  <2>3. model' \in Models
    BY <1>0, <2>2, ModelTypes
  <2>4. misread' \in BOOLEAN
    BY <1>0, <2>2, Zenon
  <2>5. /\ flight' = "none" /\ mode' = mode /\ slider' = slider /\ ticked' = ticked
        /\ outdated' = FALSE
    BY <1>4 DEF CommandConfirmed
  <2> QED
    BY <1>0, <2>1, <2>3, <2>4, <2>5 DEF ObserverInv
<1>5. CASE CommandFails
  <2>1. /\ RecorderInv(recorder', truth') /\ recorder'.active = recorder.active /\ ~truth'.mine
        /\ HasBegun(recorder', truth'.mine)
    BY <1>5, EndedStep DEF CommandFails
  <2>2. /\ flight' = "none" /\ mode' = mode /\ slider' = slider /\ ticked' = ticked
        /\ model' = model /\ outdated' = FALSE /\ misread' = misread
    BY <1>5 DEF CommandFails
  <2> QED
    BY <1>0, <2>1, <2>2 DEF ObserverInv
<1>6. CASE TimePasses
  <2>1. RecorderInv(recorder', truth) /\ recorder'.active = recorder.active
        /\ HasBegun(recorder', truth.mine)
    BY <1>0, <1>6, ElapsedKeeps DEF TimePasses
  <2>2. model' \in Models
    BY <1>0, <1>6, ModelTypes DEF TimePasses
  <2> QED
    BY <1>0, <1>6, <2>1, <2>2 DEF TimePasses, historyVars, ObserverInv
<1>7. CASE SelectManual
  <2>1. RecorderInv(recorder', truth') /\ recorder'.active = FALSE /\ truth' = NoTruth
    BY <1>0, <1>7, StopKeeps, FreshInv DEF SelectManual, SessionEnds
  <2> QED
    BY <1>0, <1>7, <2>1 DEF SelectManual, ObserverInv, NoTruth, HasBegun
<1>8. CASE SelectProduction
  <2>1. RecorderInv(recorder', truth') /\ recorder'.active = TRUE /\ truth' = NoTruth
    BY <1>0, <1>8, StopKeeps, FreshInv DEF SelectProduction, SessionEnds
  <2> QED
    BY <1>0, <1>8, <2>1 DEF SelectProduction, ObserverInv, NoTruth, HasBegun
<1>9. CASE ChangeSetting
  <2>1. RecorderInv(recorder', truth') /\ recorder'.active = recorder.active /\ truth' = NoTruth
    <3>1. CASE mode = "Production"
      <4>1. recorder' = StartSession(recorder) /\ truth' = NoTruth
        BY <1>0, <1>9, <3>1 DEF ChangeSetting, SessionEnds, RotateSession
      <4> QED
        BY <1>0, <3>1, <4>1, StopKeeps, FreshInv
    <3>2. CASE mode # "Production"
      <4>1. recorder' = recorder /\ truth' = NoTruth
        BY <1>9, <3>2 DEF ChangeSetting, SessionEnds
      <4>2. Fresh(recorder)
        BY <1>0, <3>2 DEF RecorderInv, TracesInv, Fresh
      <4> QED
        BY <4>1, <4>2, FreshInv
    <3> QED
      BY <3>1, <3>2
  <2>2. model' \in Models
    <3>1. NewModel \in Models
      BY AdaptiveAssumption DEF NewModel, Models, NoObservation, Observations
    <3> QED
      BY <1>0, <1>9, <3>1 DEF ChangeSetting, AfterReset
  <2>3. outdated' \in BOOLEAN
    BY <1>0, <1>9 DEF ChangeSetting
  <2> QED
    BY <1>0, <1>9, <2>1, <2>2, <2>3 DEF ChangeSetting, ObserverInv, NoTruth, HasBegun
<1>10. CASE SliderStarts
  <2>1. ~truth.mine
    BY <1>0, <1>10 DEF SliderStarts, RecorderInv, TracesInv
  <2>2. PendingTraces(recorder) = {}
    BY <1>0, <2>1, PendingIsLast DEF RecorderInv
  <2>3. recorder' = recorder
    BY <1>10, <2>2 DEF SliderStarts, RecordModbusStarted, WithPending
  <2> QED
    BY <1>0, <1>10, <2>3 DEF SliderStarts, historyVars, ObserverInv
<1>11. CASE SliderEnds
  <2>1. RecorderInv(recorder', truth) /\ recorder'.active = recorder.active
        /\ HasBegun(recorder', truth.mine)
    BY <1>0, <1>11, FinishModbusKeeps DEF SliderEnds
  <2> QED
    BY <1>0, <1>11, <2>1 DEF SliderEnds, historyVars, ObserverInv
<1>12. CASE UNCHANGED vars
  BY <1>0, <1>12 DEF vars, historyVars, ObserverInv
<1>13. CASE TickTakeoverRefused
  <2>1. mode = "Production" /\ flight = "none" /\ ~truth.mine
    BY <1>0, <1>13 DEF TickTakeoverRefused, Ticking
  <2>2. RecorderInv(recorder', truth') /\ recorder'.active
    BY <1>0, <1>13, <2>1, RefusedKeeps DEF TickTakeoverRefused
  <2>3. recorder'.active = TRUE
    BY <2>2 DEF RecorderInv, TracesInv, Recorders
  <2>4. truth'.mine = truth.mine
    <3>1. truth \in [confirmed : Nat, failed : Nat, mine : BOOLEAN]
      BY <1>0 DEF RecorderInv
    <3> QED
      BY <1>13, <3>1 DEF TickTakeoverRefused
  <2>5. /\ flight' = flight /\ mode' = mode /\ slider' = slider /\ model' = model
        /\ outdated' = outdated /\ misread' = misread /\ ticked' = TRUE
    BY <1>13 DEF TickTakeoverRefused, Ticking
  <2> QED
    BY <1>0, <2>1, <2>2, <2>3, <2>4, <2>5 DEF ObserverInv, HasBegun
<1> QED
  BY <1>1, <1>2, <1>3, <1>4, <1>5, <1>6, <1>7, <1>8, <1>9, <1>10, <1>11, <1>12, <1>13
  DEF Next, Tick, CommandEnds, User

LEMMA ObserverInvariant == Spec => []ObserverInv
  BY ObserverInit, ObserverStep, PTL DEF Spec

(***************************************************************************)
(* A reset in the middle of a command leaves the model without evidence,   *)
(* and none comes before the command ends: the ticks wait for it.          *)
(***************************************************************************)
ComparableInv ==
  /\ outdated => flight # "none" /\ model.baselines = 0
  /\ misread = FALSE

LEMMA ComparableInit == Init => ComparableInv
  BY DEF Init, ComparableInv

LEMMA ComparableStep == ObserverInv /\ ComparableInv /\ [Next]_vars => ComparableInv'
<1> SUFFICES ASSUME ObserverInv, ComparableInv, [Next]_vars PROVE ComparableInv'
  OBVIOUS
<1>0. model \in Models /\ outdated \in BOOLEAN
  BY DEF ObserverInv
<1>1. CASE TickObserves
  BY <1>1 DEF TickObserves, Ticking, historyVars, ComparableInv
<1>2. CASE TickCommands \/ TickTakesOver \/ TickTakeoverRefused
  <2>1. flight = "none" /\ outdated' = outdated /\ misread' = misread
    BY <1>2 DEF TickCommands, TickTakesOver, TickTakeoverRefused, Ticking
  <2> QED
    BY <2>1 DEF ComparableInv
<1>3. CASE CommandConfirmed
  <2>1. PICK powerKnown \in BOOLEAN, enough \in BOOLEAN :
          LET registers == flight = "correction" /\ powerKnown
          IN misread' = IF registers /\ IsObservable(model, enough) THEN outdated ELSE misread
    BY <1>3 DEF CommandConfirmed
  <2>2. IsObservable(model, enough) => ~outdated
    BY DEF ComparableInv, IsObservable
  <2>3. misread' = FALSE
    BY <1>0, <2>1, <2>2 DEF ComparableInv
  <2> QED
    BY <1>3, <2>3 DEF CommandConfirmed, ComparableInv
<1>4. CASE CommandFails
  BY <1>4 DEF CommandFails, ComparableInv
<1>5. CASE TimePasses
  <2>1. AfterInterval(model).baselines = model.baselines
    BY <1>0 DEF AfterInterval, Models
  <2> QED
    BY <1>5, <2>1 DEF TimePasses, historyVars, ComparableInv
<1>6. CASE SelectManual \/ SelectProduction
  BY <1>6 DEF SelectManual, SelectProduction, ComparableInv
<1>7. CASE ChangeSetting
  <2>1. flight' = flight /\ misread' = misread
    BY <1>7 DEF ChangeSetting
  <2>2. CASE model' = model /\ outdated' = outdated
    BY <2>1, <2>2 DEF ComparableInv
  <2>3. CASE model' = NewModel /\ outdated' = (flight # "none")
    <3>1. NewModel.baselines = 0
      BY DEF NewModel
    <3> QED
      BY <2>1, <2>3, <3>1 DEF ComparableInv
  <2> QED
    BY <1>7, <2>2, <2>3 DEF ChangeSetting, AfterReset
<1>8. CASE SliderStarts \/ SliderEnds \/ UNCHANGED vars
  BY <1>8 DEF SliderStarts, SliderEnds, vars, historyVars, ComparableInv
<1> QED
  BY <1>1, <1>2, <1>3, <1>4, <1>5, <1>6, <1>7, <1>8 DEF Next, Tick, CommandEnds, User

(***************************************************************************)
(* The properties.                                                         *)
(***************************************************************************)
\* The state keeps its types, the buffer its bound.
THEOREM ObserversTypes == Spec => []TypeOK
<1>1. ObserverInv => TypeOK
  BY DEF ObserverInv, RecorderInv, TracesInv, Recorders, TypeOK
<1> QED
  BY <1>1, ObserverInvariant, PTL

\* The counts of the session are what its commands came to, and every confirmed
\* command has one verdict or waits for it.
THEOREM SessionBooksBalance == Spec => []SessionLedger
<1>1. ObserverInv => SessionLedger
  <2> SUFFICES ASSUME ObserverInv PROVE SessionLedger
    OBVIOUS
  <2>1. /\ Cardinality(PendingTraces(recorder)) = Open(truth.mine)
    BY PendingIsLast DEF ObserverInv, RecorderInv
  <2>2. WaitingTraces(recorder)
          = {i \in DOMAIN recorder.traces : recorder.traces[i].current
                                         /\ recorder.traces[i].outcome = "confirmed"}
    BY DEF WaitingTraces, IsWaiting
  <2>3. recorder.active => Balanced(recorder.metrics, Open(truth.mine),
                                    Cardinality(WaitingTraces(recorder)),
                                    truth.confirmed, truth.failed)
    BY DEF ObserverInv, RecorderInv
  <2> QED
    BY <2>1, <2>2, <2>3 DEF SessionLedger, Balanced
<1> QED
  BY <1>1, ObserverInvariant, PTL

\* Whenever the session is closed, its report leaves nothing open.
THEOREM ReportsAreClosed == Spec => []ReportIsClosed
<1>1. ObserverInv => ReportIsClosed
  BY ReportCloses DEF ObserverInv, ReportIsClosed
<1> QED
  BY <1>1, ObserverInvariant, PTL

\* What the recorder takes for pending is the command under way, and every trace
\* has the times of its own write, one that was refused none.
THEOREM PendingIsTheFlight == Spec => []PendingIsInFlight
<1>1. ObserverInv => PendingIsInFlight
  <2> SUFFICES ASSUME ObserverInv PROVE PendingIsInFlight
    OBVIOUS
  <2>1. Cardinality(PendingTraces(recorder)) = Open(truth.mine)
    BY PendingIsLast DEF ObserverInv, RecorderInv
  <2>2. \A i \in DOMAIN recorder.traces : Consistent(recorder.traces[i])
    BY DEF ObserverInv, RecorderInv, TracesInv
  <2>3. \A i \in DOMAIN recorder.traces :
          IsPending(recorder.traces[i]) => recorder.traces[i].began = "own"
    BY DEF ObserverInv, RecorderInv, TracesInv, HasBegun
  <2> QED
    BY <2>1, <2>2, <2>3 DEF PendingIsInFlight, Consistent, IsPending, ObserverInv, Open
<1> QED
  BY <1>1, ObserverInvariant, PTL

\* What the model observes is of a command that began since the last change of the
\* nominal power, whatever is changed while the command awaits its frames.
THEOREM ObservationsAreComparable == Spec => []ObservedIsComparable
<1>1. ComparableInv => ObservedIsComparable
  BY DEF ComparableInv, ObservedIsComparable
<1> QED
  BY <1>1, ComparableInit, ComparableStep, ObserverInvariant, PTL DEF Spec
=============================================================================
