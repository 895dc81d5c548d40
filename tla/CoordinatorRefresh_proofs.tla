----------------------- MODULE CoordinatorRefresh_proofs -----------------------
(***************************************************************************)
(* What the refresh cycle promises of the limits and of availability, for  *)
(* any registers, intervals and numbers of failures.                       *)
(***************************************************************************)
EXTENDS CoordinatorRefresh, TLAPS

(***************************************************************************)
(* The inductive invariant.                                                *)
(***************************************************************************)
Interval == Period["temporary"]
Elapsed == since["temporary"]

SinceIsTyped == since \in [GroupNames -> Int]

ToRead(r) == \E i \in 1..Len(todo) : todo[i] = r

\* A cycle never ends, and the temporary group is never passed, with that group
\* overdue: it has been read, unless nothing has been read at all.
ReadInTime ==
    /\ group = 0 => \/ Elapsed < Interval
                    \/ clean <= 0 /\ \A r \in Temporary : ~health[r].available
    /\ group = 5 \/ (group = 4 /\ ~due) => Elapsed < Interval

\* The age of an available limit is bounded by the time since its group was read,
\* and is none for what the pass under way has behind it.
AgeFollowsGroup ==
    \A r \in Temporary :
        health[r].available =>
            /\ age[r] <= Elapsed + 1
            /\ group = 4 /\ due => ToRead(r) \/ age[r] = 0

\* A limit that is not available has failed, or was written without a readback,
\* since its group was read.
MissingHasAReason ==
    \A r \in Temporary :
        ~health[r].available =>
            /\ clean <= (IF group = 0 THEN Elapsed + 1 ELSE Elapsed)
            /\ group = 4 /\ due => ToRead(r) \/ clean = -1

LossIsRemembered == transportFailed /\ group > 0 => clean = -1

FailuresAreCounted ==
    /\ cut <= failures /\ failures <= fruitless
    /\ published = "failed" => (IF data THEN fruitless >= FailuresAllowed ELSE group = 0)
    /\ data /\ cut >= FailuresAllowed /\ ~reused => published = "failed"

RefreshInv ==
    /\ TypeOK /\ SinceIsTyped
    /\ ReadInTime /\ AgeFollowsGroup /\ MissingHasAReason
    /\ LossIsRemembered /\ FailuresAreCounted

USE RefreshAssumption

-----------------------------------------------------------------------------
(* The data.                                                               *)

LEMMA GroupFacts ==
    /\ Len(Groups) = 5 /\ \A n \in 1..5 : Groups[n] \in GroupNames
    /\ Groups[4] = "temporary" /\ "temporary" \in GroupNames
    /\ \A n \in 1..5 : Groups[n] = "temporary" => n = 4
    /\ \A g \in GroupNames : Period[g] \in Nat \ {0}
    /\ Horizon = Interval + 2 /\ Interval \in Nat \ {0}
<1>1. Len(Groups) = 5 /\ Groups[4] = "temporary"
    BY DEF Groups
<1>2. \A n \in 1..5 : n = 1 \/ n = 2 \/ n = 3 \/ n = 4 \/ n = 5
    OBVIOUS
<1>3. \A n \in 1..5 : n \in DOMAIN Groups
    BY <1>2 DEF Groups
<1>4. \A n \in 1..5 : Groups[n] \in GroupNames
    BY <1>3 DEF GroupNames
<1>5. "temporary" \in GroupNames
    BY <1>1, <1>4
<1>6. \A n \in 1..5 : Groups[n] = "temporary" => n = 4
    BY <1>2 DEF Groups
<1> QED
    BY <1>1, <1>4, <1>5, <1>6 DEF Horizon, Interval

LEMMA RegisterFacts ==
    /\ Temporary \subseteq Registers /\ Permanent \subseteq Registers
    /\ \A r \in Temporary : r \notin Permanent
    /\ \A g \in GroupNames : RegistersOf(g) \subseteq Registers
<1>1. "temporary" \in GroupNames /\ "permanent" \in GroupNames /\ "temporary" # "permanent"
    <2>1. 5 \in DOMAIN Groups /\ Groups[5] = "permanent"
        BY DEF Groups
    <2> QED
        BY <2>1, GroupFacts DEF GroupNames
<1>2. \A g \in GroupNames : RegistersOf(g) \subseteq Registers
    BY DEF Registers
<1>3. RegistersOf("temporary") \cap RegistersOf("permanent") = {}
    BY <1>1
<1> QED
    BY <1>1, <1>2, <1>3 DEF Temporary, Permanent

LEMMA UpToBounds ==
    ASSUME NEW bound \in Int, NEW n \in Int
    PROVE  /\ UpTo(bound, n) \in Int /\ UpTo(bound, n) <= bound /\ UpTo(bound, n) <= n
           /\ n >= bound => UpTo(bound, n) = bound
           /\ n <= bound => UpTo(bound, n) = n
    BY DEF UpTo

\* Every outcome of a read is a health, and tells whether the value is current.
LEMMA HealthFacts ==
    ASSUME NEW h \in Health
    PROVE  /\ Success(h) \in Health /\ Success(h).available
           /\ Failure(h) \in Health /\ ~Failure(h).available
           /\ Unsupported(h) \in Health /\ ~Unsupported(h).available
<1>1. UpTo(2, h.failures + 1) \in 0..2
    BY DEF Health, UpTo
<1>2. Success(h) \in Health /\ Success(h).available
    BY DEF Success, Health
<1> DEFINE n == UpTo(2, h.failures + 1)
<1> HIDE DEF n
<1>3. Failure(h) = [h EXCEPT !.available = FALSE, !.failures = n] /\ n \in 0..2
    BY <1>1 DEF n, Failure
<1>4. Failure(h) \in Health /\ Failure(h).available = FALSE
    BY <1>3 DEF Health
<1>5. Unsupported(h) \in Health /\ Unsupported(h).available = FALSE
    BY <1>4 DEF Health, Unsupported
<1> QED
    BY <1>2, <1>4, <1>5
-----------------------------------------------------------------------------
(* One read.                                                               *)

LEMMA ReadingFacts ==
    ASSUME RefreshInv, Reading
    PROVE  /\ group \in 1..5 /\ Register \in Registers /\ health[Register] \in Health
           /\ Tail(todo) \in Seq(RegistersOf(Groups[group]))
           /\ \A r : ToRead(r) => \/ r = Register
                                  \/ \E i \in 1..Len(Tail(todo)) : Tail(todo)[i] = r
<1>1. group \in 1..5 /\ todo \in Seq(RegistersOf(Groups[group])) /\ todo # <<>>
    BY GroupFacts DEF RefreshInv, TypeOK, Reading
<1>2. Register \in RegistersOf(Groups[group]) /\ Register = todo[1]
    BY <1>1 DEF Register
<1>3. Register \in Registers
    BY <1>1, <1>2, GroupFacts, RegisterFacts
<1>4. /\ Tail(todo) \in Seq(RegistersOf(Groups[group]))
      /\ Len(todo) \in Nat /\ Len(Tail(todo)) = Len(todo) - 1
      /\ \A i \in 1..(Len(todo) - 1) : Tail(todo)[i] = todo[i + 1]
    BY <1>1
<1>5. ASSUME NEW r, NEW i \in 1..Len(todo), todo[i] = r, r # Register
      PROVE  \E k \in 1..Len(Tail(todo)) : Tail(todo)[k] = r
    <2>1. i - 1 \in 1..Len(Tail(todo)) /\ (i - 1) + 1 = i
        BY <1>2, <1>4, <1>5
    <2>2. Tail(todo)[i - 1] = r
        BY <1>4, <1>5, <2>1
    <2> QED
        BY <2>1, <2>2
<1> QED
    BY <1>1, <1>3, <1>4, <1>5 DEF ToRead, RefreshInv, TypeOK

\* A read leaves a current value of age zero, or a trace in clean.
LEMMA AttemptPreserves ==
    ASSUME RefreshInv, Reading, NEW h \in Health, Attempted(h),
           transportFailed' \in BOOLEAN, succeeded' \in BOOLEAN,
           clean' = clean \/ clean' = -1, transportFailed' => clean' = -1,
           \/ UNCHANGED age /\ (h.available = FALSE) /\ clean' = -1
           \/ h.available = TRUE
                /\ age' = (IF Register \in Temporary THEN [age EXCEPT ![Register] = 0] ELSE age)
    PROVE  RefreshInv'
<1>1. /\ group \in 1..5 /\ Register \in Registers /\ health[Register] \in Health
      /\ Tail(todo) \in Seq(RegistersOf(Groups[group]))
      /\ \A r : ToRead(r) => \/ r = Register
                             \/ \E i \in 1..Len(Tail(todo)) : Tail(todo)[i] = r
    BY ReadingFacts
<1>2. /\ health' = [health EXCEPT ![Register] = h] /\ todo' = Tail(todo)
      /\ UNCHANGED <<since, group, due, failures, data, published, fruitless, cut, reused>>
    BY DEF Attempted
<1>3. /\ health' \in [Registers -> Health] /\ health'[Register] = h
      /\ \A r \in Registers \ {Register} : health'[r] = health[r]
    BY <1>1, <1>2 DEF RefreshInv, TypeOK
<1>4. clean' \in -1..Horizon /\ clean' <= clean /\ clean \in Int /\ Elapsed \in Int /\ -1 <= Elapsed
    BY GroupFacts DEF RefreshInv, TypeOK, Elapsed
<1>5. /\ age' \in [Temporary -> 0..Horizon]
      /\ \A r \in Temporary : age'[r] = age[r] \/ (r = Register /\ age'[r] = 0)
      /\ h.available = TRUE /\ Register \in Temporary => age'[Register] = 0
    <2>1. 0 \in 0..Horizon
        BY GroupFacts
    <2> QED
        BY <2>1 DEF RefreshInv, TypeOK
<1>6. TypeOK'
    <2>1. suppressed' \in [Permanent -> 0..Suppression]
        BY DEF Attempted, RefreshInv, TypeOK
    <2>2. todo' \in Seq(RegistersOf(Groups[group']))
        BY <1>1, <1>2
    <2>3. group' > 0
        BY <1>1, <1>2
    <2> QED
        BY <1>2, <1>3, <1>4, <1>5, <2>1, <2>2, <2>3 DEF RefreshInv, TypeOK
<1>7. \A r : ToRead(r) => r = Register \/ ToRead(r)'
    BY <1>1, <1>2 DEF ToRead
<1>8. Elapsed' = Elapsed
    BY <1>2 DEF Elapsed
<1>9. ReadInTime'
    BY <1>1, <1>2, <1>8 DEF RefreshInv, ReadInTime
<1>10. AgeFollowsGroup'
    <2> SUFFICES ASSUME NEW r \in Temporary, health'[r].available
                 PROVE  /\ age'[r] <= Elapsed' + 1
                        /\ group' = 4 /\ due' => ToRead(r)' \/ age'[r] = 0
        BY DEF AgeFollowsGroup
    <2>1. CASE r = Register
        BY <1>3, <1>4, <1>5, <1>8, <2>1
    <2>2. CASE r # Register
        BY <1>2, <1>3, <1>5, <1>7, <1>8, <2>2, RegisterFacts DEF RefreshInv, AgeFollowsGroup
    <2> QED
        BY <2>1, <2>2
<1>11. MissingHasAReason'
    <2> SUFFICES ASSUME NEW r \in Temporary, ~health'[r].available
                 PROVE  /\ clean' <= Elapsed'
                        /\ group' = 4 /\ due' => ToRead(r)' \/ clean' = -1
        BY <1>1, <1>2 DEF MissingHasAReason
    <2>1. CASE r = Register
        BY <1>3, <1>4, <1>8, <2>1
    <2>2. CASE r # Register
        <3>1. ~health[r].available
            BY <1>3, <2>2, RegisterFacts
        <3>2. clean <= Elapsed /\ (group = 4 /\ due => ToRead(r) \/ clean = -1)
            BY <1>1, <3>1 DEF RefreshInv, MissingHasAReason
        <3> QED
            BY <1>2, <1>4, <1>7, <1>8, <2>2, <3>2
    <2> QED
        BY <2>1, <2>2
<1>12. SinceIsTyped' /\ LossIsRemembered' /\ FailuresAreCounted'
    BY <1>2 DEF RefreshInv, SinceIsTyped, LossIsRemembered, FailuresAreCounted
<1> QED
    BY <1>6, <1>9, <1>10, <1>11, <1>12 DEF RefreshInv

-----------------------------------------------------------------------------
(* From group to group and from cycle to cycle.                            *)

LEMMA StateFacts ==
    ASSUME RefreshInv
    PROVE  /\ Elapsed \in -1..Interval /\ clean \in -1..(Interval + 2)
           /\ \A r \in Temporary : /\ health[r].available \in BOOLEAN
                                   /\ age[r] \in 0..(Interval + 2)
           /\ since \in [GroupNames -> Int]
<1>1. Elapsed \in -1..Interval
    BY GroupFacts DEF RefreshInv, TypeOK, Elapsed, Interval
<1>2. clean \in -1..(Interval + 2) /\ \A r \in Temporary : age[r] \in 0..(Interval + 2)
    BY GroupFacts DEF RefreshInv, TypeOK
<1>3. \A r \in Temporary : health[r].available \in BOOLEAN
    BY RegisterFacts DEF RefreshInv, TypeOK, Health
<1> QED
    BY <1>1, <1>2, <1>3 DEF RefreshInv, SinceIsTyped

LEMMA ComeToFacts ==
    ASSUME NEW n \in 1..5, NEW elapsed \in [GroupNames -> Int], ComeTo(n, elapsed)
    PROVE  /\ group' = n /\ due' \in BOOLEAN
           /\ todo' \in Seq(RegistersOf(Groups[group']))
           /\ n = 4 => due' = (elapsed["temporary"] >= Interval)
           /\ n = 4 /\ due' => \A r \in Temporary : ToRead(r)'
<1>1. group' = n /\ due' = (elapsed[Groups[n]] >= Period[Groups[n]])
    BY DEF ComeTo
<1>2. Groups[n] \in GroupNames /\ Members[Groups[n]] \in Seq(RegistersOf(Groups[n]))
    BY GroupFacts
<1>3. todo' \in Seq(RegistersOf(Groups[group']))
    <2>1. <<>> \in Seq(RegistersOf(Groups[n]))
        OBVIOUS
    <2> QED
        BY <1>1, <1>2, <2>1 DEF ComeTo
<1>4. n = 4 => due' = (elapsed["temporary"] >= Interval)
    BY <1>1, GroupFacts DEF Interval
<1>5. ASSUME n = 4, due', NEW r \in Temporary
      PROVE  ToRead(r)'
    <2>1. todo' = Members["temporary"]
        BY <1>5, GroupFacts DEF ComeTo
    <2>2. \E i \in DOMAIN Members["temporary"] : Members["temporary"][i] = r
        BY DEF Temporary, RegistersOf
    <2>3. DOMAIN Members["temporary"] = 1..Len(Members["temporary"])
        BY <1>2, <1>5, GroupFacts
    <2> QED
        BY <2>1, <2>2, <2>3 DEF ToRead
<1> QED
    BY <1>1, <1>3, <1>4, <1>5

LEMMA StartCyclePreserves ==
    ASSUME RefreshInv, StartCycle
    PROVE  RefreshInv'
<1>1. /\ group = 0 /\ (published = "failed" => data)
      /\ since' = [g \in GroupNames |-> UpTo(Period[g], since[g] + 1)]
      /\ ComeTo(1, since')
      /\ suppressed' = [r \in Permanent |-> IF suppressed[r] > 0 THEN suppressed[r] - 1 ELSE 0]
      /\ transportFailed' = FALSE /\ succeeded' = FALSE
      /\ age' = [r \in Temporary |-> UpTo(Horizon, age[r] + 1)]
      /\ UNCHANGED <<health, failures, data, published, clean, fruitless, cut, reused>>
    BY DEF StartCycle
<1>2. /\ since' \in [GroupNames -> Int]
      /\ \A g \in GroupNames : since'[g] \in -1..Period[g]
    <2>1. \A g \in GroupNames : since[g] \in -1..Period[g] /\ Period[g] \in Nat \ {0}
        BY GroupFacts DEF RefreshInv, TypeOK
    <2>2. \A g \in GroupNames : UpTo(Period[g], since[g] + 1) \in -1..Period[g]
        BY <2>1 DEF UpTo
    <2> QED
        BY <1>1, <2>2
<1>3. group' = 1 /\ due' \in BOOLEAN /\ todo' \in Seq(RegistersOf(Groups[group']))
    BY <1>1, <1>2, ComeToFacts
<1>4. Elapsed' = UpTo(Interval, Elapsed + 1)
    BY <1>1, GroupFacts DEF Elapsed, Interval
<1>5. \A r \in Temporary : age'[r] \in 0..Horizon /\ age'[r] <= age[r] + 1
    <2> SUFFICES ASSUME NEW r \in Temporary
                 PROVE  age'[r] \in 0..Horizon /\ age'[r] <= age[r] + 1
        OBVIOUS
    <2>1. age[r] + 1 \in Nat /\ Horizon \in Nat
        BY StateFacts, GroupFacts
    <2>2. age'[r] = UpTo(Horizon, age[r] + 1)
        BY <1>1
    <2> QED
        BY <2>1, <2>2 DEF UpTo
<1>6. TypeOK'
    <2>1. suppressed' \in [Permanent -> 0..Suppression]
        BY <1>1 DEF RefreshInv, TypeOK
    <2>2. age' \in [Temporary -> 0..Horizon]
        BY <1>1, <1>5
    <2>3. group' \in 0..Len(Groups) /\ group' > 0
        BY <1>3, GroupFacts
    <2> QED
        BY <1>1, <1>2, <1>3, <2>1, <2>2, <2>3 DEF RefreshInv, TypeOK
<1>7. ReadInTime'
    BY <1>3 DEF ReadInTime
<1>8. AgeFollowsGroup' /\ MissingHasAReason'
    <2>1. CASE Elapsed < Interval
        <3>1. Elapsed' = Elapsed + 1
            BY <1>4, <2>1, StateFacts, GroupFacts DEF UpTo
        <3>2. AgeFollowsGroup'
            BY <1>1, <1>3, <1>5, <3>1, StateFacts DEF RefreshInv, AgeFollowsGroup
        <3>3. MissingHasAReason'
            BY <1>1, <1>3, <3>1 DEF RefreshInv, MissingHasAReason
        <3> QED
            BY <3>2, <3>3
    <2>2. CASE ~(Elapsed < Interval)
        <3>1. clean <= 0 /\ \A r \in Temporary : ~health[r].available
            BY <1>1, <2>2 DEF RefreshInv, ReadInTime
        <3>2. Elapsed' = Interval
            BY <1>4, <2>2, StateFacts, GroupFacts DEF UpTo
        <3>3. clean <= Elapsed'
            BY <3>1, <3>2, StateFacts, GroupFacts
        <3> QED
            BY <1>1, <1>3, <3>1, <3>3 DEF AgeFollowsGroup, MissingHasAReason
    <2> QED
        BY <2>1, <2>2
<1>9. LossIsRemembered' /\ FailuresAreCounted' /\ SinceIsTyped'
    BY <1>1, <1>2 DEF RefreshInv, LossIsRemembered, FailuresAreCounted, SinceIsTyped
<1> QED
    BY <1>6, <1>7, <1>8, <1>9 DEF RefreshInv

\* The end of a group, of the temporary one in particular.
LEMMA FinishedFacts ==
    ASSUME RefreshInv, group \in 1..5, todo = <<>>, since' = Finished(Groups[group])
    PROVE  /\ since' \in [GroupNames -> Int]
           /\ \A g \in GroupNames : since'[g] \in -1..Period[g]
           /\ Elapsed' = (IF group = 4 /\ due THEN 0 ELSE Elapsed)
           /\ group \in {4, 5} => Elapsed' < Interval
           /\ \A r \in Temporary : health[r].available => age[r] <= Elapsed' + 1
           /\ \A r \in Temporary : ~health[r].available => clean <= Elapsed'
<1>1. Groups[group] \in GroupNames /\ (Groups[group] = "temporary" <=> group = 4)
    BY GroupFacts
<1>2. since \in [GroupNames -> Int] /\ \A g \in GroupNames : since[g] \in -1..Period[g]
    BY DEF RefreshInv, SinceIsTyped, TypeOK
<1>3. since' = IF due THEN [since EXCEPT ![Groups[group]] = 0] ELSE since
    BY DEF Finished
<1>4. /\ since' \in [GroupNames -> Int]
      /\ \A g \in GroupNames : since'[g] = since[g] \/ since'[g] = 0
    BY <1>1, <1>2, <1>3
<1>5. \A g \in GroupNames : since'[g] \in -1..Period[g]
    <2> SUFFICES ASSUME NEW g \in GroupNames
                 PROVE  since'[g] \in -1..Period[g]
        OBVIOUS
    <2>1. Period[g] \in Nat /\ since[g] \in -1..Period[g] /\ 0 \in -1..Period[g]
        BY <1>2, GroupFacts
    <2> QED
        BY <1>4, <2>1
<1>6. Elapsed' = (IF group = 4 /\ due THEN 0 ELSE Elapsed)
    BY <1>1, <1>2, <1>3, GroupFacts DEF Elapsed
<1>7. \A r : ~ToRead(r)
    BY DEF ToRead
<1>8. group \in {4, 5} => Elapsed' < Interval
    BY <1>6, GroupFacts DEF RefreshInv, ReadInTime
<1>9. \A r \in Temporary : health[r].available => age[r] <= Elapsed' + 1
    BY <1>6, <1>7, StateFacts DEF RefreshInv, AgeFollowsGroup
<1>10. \A r \in Temporary : ~health[r].available => clean <= Elapsed'
    BY <1>6, <1>7, StateFacts DEF RefreshInv, MissingHasAReason
<1> QED
    BY <1>4, <1>5, <1>6, <1>8, <1>9, <1>10

LEMMA NextGroupPreserves ==
    ASSUME RefreshInv, NextGroup
    PROVE  RefreshInv'
<1>1. /\ group \in 1..4 /\ todo = <<>> /\ since' = Finished(Groups[group])
      /\ ComeTo(group + 1, since)
      /\ UNCHANGED <<health, suppressed, transportFailed, succeeded, failures, data, published,
                     age, clean, fruitless, cut, reused>>
    BY GroupFacts DEF NextGroup, historyVars
<1>2. /\ since' \in [GroupNames -> Int]
      /\ \A g \in GroupNames : since'[g] \in -1..Period[g]
      /\ Elapsed' = (IF group = 4 /\ due THEN 0 ELSE Elapsed)
      /\ group = 4 => Elapsed' < Interval
      /\ \A r \in Temporary : health[r].available => age[r] <= Elapsed' + 1
      /\ \A r \in Temporary : ~health[r].available => clean <= Elapsed'
    <2>1. group \in 1..5
        BY <1>1
    <2> QED
        BY <1>1, <2>1, FinishedFacts
<1>3. /\ group' = group + 1 /\ due' \in BOOLEAN
      /\ todo' \in Seq(RegistersOf(Groups[group']))
      /\ group' = 4 => due' = (Elapsed >= Interval)
      /\ group' = 4 /\ due' => \A r \in Temporary : ToRead(r)'
    <2>1. group + 1 \in 1..5 /\ since \in [GroupNames -> Int]
        BY <1>1 DEF RefreshInv, SinceIsTyped
    <2> QED
        BY <1>1, <2>1, ComeToFacts DEF Elapsed
<1>4. TypeOK'
    <2>1. group' \in 0..Len(Groups) /\ group' > 0
        BY <1>1, <1>3, GroupFacts
    <2> QED
        BY <1>1, <1>2, <1>3, <2>1 DEF RefreshInv, TypeOK
<1>5. ReadInTime'
    <2>1. group' = 5 => group = 4
        BY <1>1, <1>3
    <2>2. group' = 4 => Elapsed' = Elapsed
        BY <1>1, <1>2, <1>3
    <2>3. group' = 4 /\ ~due' => Elapsed' < Interval
        BY <1>3, <2>2, StateFacts, GroupFacts
    <2>4. group' \in {0, 5} => group = 4
        BY <1>1, <1>3, <2>1
    <2> QED
        BY <1>1, <1>2, <2>3, <2>4 DEF ReadInTime
<1>6. AgeFollowsGroup'
    BY <1>1, <1>2, <1>3 DEF AgeFollowsGroup
<1>7. MissingHasAReason'
    <2>1. group' # 0
        BY <1>1, <1>3
    <2> QED
        BY <1>1, <1>2, <1>3, <2>1 DEF MissingHasAReason
<1>8. LossIsRemembered' /\ FailuresAreCounted' /\ SinceIsTyped'
    BY <1>1, <1>2, <1>3 DEF RefreshInv, LossIsRemembered, FailuresAreCounted, SinceIsTyped
<1> QED
    BY <1>4, <1>5, <1>6, <1>7, <1>8 DEF RefreshInv

\* What the end of a cycle counts and publishes.
LEMMA CountingFacts ==
    ASSUME RefreshInv, EndCycle
    PROVE  /\ failures' \in 0..FailuresAllowed /\ fruitless' \in 0..FailuresAllowed
           /\ cut' \in 0..FailuresAllowed /\ published' \in {"ok", "failed"}
           /\ FailuresAreCounted'
<1> DEFINE n == IF succeeded THEN 0
                ELSE IF transportFailed THEN UpTo(FailuresAllowed, failures + 1) ELSE failures
<1>1. /\ failures' = n /\ published' = Outcome(n) /\ data' = (data \/ succeeded)
      /\ fruitless' = (IF succeeded THEN 0 ELSE UpTo(FailuresAllowed, fruitless + 1))
      /\ cut' = (IF succeeded \/ ~transportFailed THEN 0 ELSE UpTo(FailuresAllowed, cut + 1))
      /\ reused' = FALSE /\ group' = 0
    BY DEF EndCycle
<1>2. /\ FailuresAllowed \in Nat \ {0} /\ failures \in 0..FailuresAllowed
      /\ fruitless \in 0..FailuresAllowed /\ cut \in 0..FailuresAllowed
      /\ cut <= failures /\ failures <= fruitless
    BY DEF RefreshInv, TypeOK, FailuresAreCounted
<1>3. n \in 0..FailuresAllowed /\ cut' \in 0..n /\ fruitless' \in n..FailuresAllowed
    <2>1. CASE succeeded
        BY <1>1, <1>2, <2>1
    <2>2. CASE ~succeeded /\ transportFailed
        BY <1>1, <1>2, <2>2 DEF UpTo
    <2>3. CASE ~succeeded /\ ~transportFailed
        BY <1>1, <1>2, <2>3 DEF UpTo
    <2> QED
        BY <2>1, <2>2, <2>3
<1> HIDE DEF n
<1>4. published' = (IF ~succeeded /\ (~data \/ (transportFailed /\ n >= FailuresAllowed))
                      THEN "failed" ELSE "ok")
    BY <1>1 DEF Outcome
<1>5. published' = "failed" => (IF data' THEN fruitless' >= FailuresAllowed ELSE group' = 0)
    <2>1. CASE data /\ ~succeeded
        BY <1>1, <1>2, <1>3, <1>4, <2>1
    <2>2. CASE ~data /\ ~succeeded
        BY <1>1, <2>2
    <2>3. CASE succeeded
        BY <1>4, <2>3
    <2> QED
        BY <2>1, <2>2, <2>3
<1>6. data' /\ cut' >= FailuresAllowed /\ ~reused' => published' = "failed"
    <2>1. CASE succeeded \/ ~transportFailed
        BY <1>1, <1>2, <2>1
    <2>2. CASE ~succeeded /\ transportFailed
        BY <1>2, <1>3, <1>4, <2>2
    <2> QED
        BY <2>1, <2>2
<1>7. /\ failures' \in 0..FailuresAllowed /\ fruitless' \in 0..FailuresAllowed
      /\ cut' \in 0..FailuresAllowed /\ cut' <= failures' /\ failures' <= fruitless'
    BY <1>1, <1>2, <1>3
<1>8. published' \in {"ok", "failed"}
    BY <1>4
<1> QED
    BY <1>5, <1>6, <1>7, <1>8 DEF FailuresAreCounted

LEMMA EndCyclePreserves ==
    ASSUME RefreshInv, EndCycle
    PROVE  RefreshInv'
<1>1. /\ group = 5 /\ todo = <<>> /\ group' = 0 /\ since' = Finished(Groups[group])
      /\ data' = (data \/ succeeded)
      /\ clean' = UpTo(Horizon, clean + 1) /\ reused' = FALSE
      /\ UNCHANGED <<health, suppressed, due, todo, transportFailed, succeeded, age>>
    BY GroupFacts DEF EndCycle
<1>2. /\ since' \in [GroupNames -> Int]
      /\ \A g \in GroupNames : since'[g] \in -1..Period[g]
      /\ Elapsed' = Elapsed
      /\ Elapsed' < Interval
      /\ \A r \in Temporary : health[r].available => age[r] <= Elapsed' + 1
      /\ \A r \in Temporary : ~health[r].available => clean <= Elapsed'
    <2>1. group \in 1..5 /\ group # 4 /\ group \in {4, 5}
        BY <1>1
    <2> QED
        BY <1>1, <2>1, FinishedFacts
<1>3. clean' \in -1..Horizon /\ clean' <= clean + 1
    <2>1. clean + 1 \in Int /\ 0 <= clean + 1 /\ Horizon \in Nat
        BY StateFacts, GroupFacts
    <2> QED
        BY <1>1, <2>1, UpToBounds DEF UpTo
<1>4. TypeOK'
    <2>1. data' \in BOOLEAN /\ reused' \in BOOLEAN
        BY <1>1
    <2>2. group' \in 0..Len(Groups)
        BY <1>1, GroupFacts
    <2> QED
        BY <1>1, <1>2, <1>3, <2>1, <2>2, CountingFacts DEF RefreshInv, TypeOK
<1>5. ReadInTime'
    BY <1>1, <1>2 DEF ReadInTime
<1>6. AgeFollowsGroup'
    BY <1>1, <1>2 DEF AgeFollowsGroup
<1>7. MissingHasAReason'
    BY <1>1, <1>2, <1>3, StateFacts DEF MissingHasAReason
<1>8. LossIsRemembered' /\ SinceIsTyped'
    BY <1>1, <1>2 DEF LossIsRemembered, SinceIsTyped
<1> QED
    BY <1>4, <1>5, <1>6, <1>7, <1>8, CountingFacts DEF RefreshInv

LEMMA SuppressedPreserves ==
    ASSUME RefreshInv, ReadSuppressed
    PROVE  RefreshInv'
<1>1. /\ Reading /\ ~Admitted(Register) /\ todo' = Tail(todo)
      /\ UNCHANGED <<health, since, suppressed, group, due, transportFailed, succeeded, failures,
                     data, published, age, clean, fruitless, cut, reused>>
    BY DEF ReadSuppressed, historyVars
<1>2. /\ group \in 1..5 /\ Tail(todo) \in Seq(RegistersOf(Groups[group]))
      /\ \A r : ToRead(r) => \/ r = Register
                             \/ \E i \in 1..Len(Tail(todo)) : Tail(todo)[i] = r
    BY <1>1, ReadingFacts
<1>3. \A r \in Temporary : ToRead(r) => ToRead(r)'
    <2>1. Register \notin Temporary
        BY <1>1, RegisterFacts DEF Admitted
    <2> QED
        BY <1>1, <1>2, <2>1 DEF ToRead
<1>4. TypeOK'
    <2>1. todo' \in Seq(RegistersOf(Groups[group'])) /\ group' > 0
        BY <1>1, <1>2
    <2> QED
        BY <1>1, <2>1 DEF RefreshInv, TypeOK
<1>5. ReadInTime' /\ Elapsed' = Elapsed
    BY <1>1 DEF RefreshInv, ReadInTime, Elapsed
<1>6. AgeFollowsGroup'
    BY <1>1, <1>3, <1>5 DEF RefreshInv, AgeFollowsGroup
<1>7. MissingHasAReason'
    BY <1>1, <1>3, <1>5 DEF RefreshInv, MissingHasAReason
<1>8. LossIsRemembered' /\ FailuresAreCounted' /\ SinceIsTyped'
    BY <1>1 DEF RefreshInv, LossIsRemembered, FailuresAreCounted, SinceIsTyped
<1> QED
    BY <1>4, <1>5, <1>6, <1>7, <1>8 DEF RefreshInv

\* A readback makes every limit current; without one none is, and clean says so.
LEMMA CommandPreserves ==
    ASSUME RefreshInv, CommandConfirmed
    PROVE  RefreshInv'
<1>1. /\ data /\ since' = [since EXCEPT !["temporary"] = -1]
      /\ clean' = (IF group > 0 THEN -1 ELSE 0)
      /\ published' = "ok" /\ reused' = TRUE
      /\ UNCHANGED <<suppressed, group, due, todo, transportFailed, succeeded, failures, data,
                     fruitless, cut>>
    BY DEF CommandConfirmed
<1>2. PICK readback \in BOOLEAN :
        /\ health' = [r \in Registers |->
                        IF r \in Temporary
                        THEN [known |-> TRUE, available |-> readback, failures |-> 0]
                        ELSE health[r]]
        /\ age' = IF readback THEN [r \in Temporary |-> 0] ELSE age
    BY DEF CommandConfirmed
<1>3. /\ since' \in [GroupNames -> Int] /\ Elapsed' = -1
      /\ \A g \in GroupNames : since'[g] \in -1..Period[g]
    <2>1. since \in [GroupNames -> Int]
        BY StateFacts
    <2>2. /\ since' \in [GroupNames -> Int] /\ Elapsed' = -1
          /\ \A g \in GroupNames : since'[g] = since[g] \/ since'[g] = -1
        BY <1>1, <2>1, GroupFacts DEF Elapsed
    <2>3. ASSUME NEW g \in GroupNames
          PROVE  since'[g] \in -1..Period[g]
        <3>1. since[g] \in -1..Period[g] /\ -1 \in -1..Period[g]
            BY GroupFacts DEF RefreshInv, TypeOK
        <3> QED
            BY <2>2, <3>1
    <2> QED
        BY <2>2, <2>3
<1>4. /\ health' \in [Registers -> Health]
      /\ \A r \in Temporary : health'[r].available = readback
    <2>1. [known |-> TRUE, available |-> readback, failures |-> 0] \in Health
        BY DEF Health
    <2> QED
        BY <1>2, <2>1, RegisterFacts DEF RefreshInv, TypeOK
<1>5. /\ age' \in [Temporary -> 0..Horizon]
      /\ readback => \A r \in Temporary : age'[r] = 0
    <2>1. 0 \in 0..Horizon
        BY GroupFacts
    <2> QED
        BY <1>2, <2>1 DEF RefreshInv, TypeOK
<1>6. clean' \in -1..Horizon /\ group \in 0..5
    BY <1>1, GroupFacts DEF RefreshInv, TypeOK
<1>7. TypeOK'
    <2>1. reused' \in BOOLEAN /\ published' \in {"none", "ok", "failed"}
        BY <1>1
    <2> QED
        BY <1>1, <1>3, <1>4, <1>5, <1>6, <2>1 DEF RefreshInv, TypeOK
<1>8. ReadInTime'
    BY <1>3, GroupFacts DEF ReadInTime
<1>9. AgeFollowsGroup'
    BY <1>3, <1>4, <1>5 DEF AgeFollowsGroup
<1>10. MissingHasAReason'
    BY <1>1, <1>3, <1>6 DEF MissingHasAReason
<1>11. LossIsRemembered'
    BY <1>1 DEF LossIsRemembered
<1>12. FailuresAreCounted' /\ SinceIsTyped'
    BY <1>1, <1>3 DEF RefreshInv, FailuresAreCounted, SinceIsTyped
<1> QED
    BY <1>7, <1>8, <1>9, <1>10, <1>11, <1>12 DEF RefreshInv

LEMMA OverlapPreserves ==
    ASSUME RefreshInv, Overlap
    PROVE  RefreshInv'
<1>1. /\ data /\ published' = "ok" /\ reused' = TRUE
      /\ UNCHANGED <<health, since, suppressed, group, due, todo, transportFailed, succeeded,
                     failures, data, age, clean, fruitless, cut>>
    BY DEF Overlap
<1>2. TypeOK' /\ SinceIsTyped'
    BY <1>1 DEF RefreshInv, TypeOK, SinceIsTyped
<1>3. ReadInTime' /\ AgeFollowsGroup' /\ MissingHasAReason' /\ LossIsRemembered'
    BY <1>1 DEF RefreshInv, ReadInTime, AgeFollowsGroup, MissingHasAReason, LossIsRemembered,
                Elapsed, ToRead
<1>4. FailuresAreCounted'
    BY <1>1 DEF RefreshInv, FailuresAreCounted
<1> QED
    BY <1>2, <1>3, <1>4 DEF RefreshInv

LEMMA InitEstablishes == Init => RefreshInv
<1> SUFFICES ASSUME Init
             PROVE  RefreshInv
    OBVIOUS
<1> USE DEF Init
<1>1. health \in [Registers -> Health] /\ \A r \in Temporary : ~health[r].available
    BY RegisterFacts DEF Unread, Health
<1>2. since \in [GroupNames -> Int] /\ \A g \in GroupNames : since[g] \in -1..Period[g]
    <2>1. ASSUME NEW g \in GroupNames
          PROVE  since[g] \in Int /\ since[g] \in -1..Period[g]
        BY GroupFacts
    <2> QED
        BY <2>1
<1>3. age \in [Temporary -> 0..Horizon] /\ clean \in -1..Horizon
    BY GroupFacts
<1>4. group \in 0..Len(Groups)
    BY GroupFacts
<1>5. /\ suppressed \in [Permanent -> 0..Suppression] /\ failures \in 0..FailuresAllowed
      /\ fruitless \in 0..FailuresAllowed /\ cut \in 0..FailuresAllowed
    OBVIOUS
<1>6. TypeOK /\ SinceIsTyped
    BY <1>1, <1>2, <1>3, <1>4, <1>5 DEF TypeOK, SinceIsTyped
<1>7. ReadInTime /\ AgeFollowsGroup /\ LossIsRemembered
    BY <1>1 DEF ReadInTime, AgeFollowsGroup, LossIsRemembered
<1>8. MissingHasAReason
    BY GroupFacts DEF MissingHasAReason, Elapsed
<1>9. FailuresAreCounted
    BY DEF FailuresAreCounted
<1> QED
    BY <1>6, <1>7, <1>8, <1>9 DEF RefreshInv

\* Another setup starts from the initial state.
LEMMA RetryPreserves == SetupRetried => RefreshInv'
<1>1. SetupRetried => Init'
    BY DEF SetupRetried, Init
<1>2. (Init => RefreshInv)'
    BY InitEstablishes, PTL
<1> QED
    BY <1>1, <1>2

LEMMA ReadsPreserve ==
    ASSUME RefreshInv, ReadSucceeds \/ ReadRefused \/ ReadLosesTransport \/ ReadSkipped
    PROVE  RefreshInv'
<1>1. Reading /\ health[Register] \in Health /\ group > 0
    BY ReadingFacts DEF ReadSucceeds, ReadRefused, ReadLosesTransport, ReadSkipped
<1>2. transportFailed \in BOOLEAN /\ succeeded \in BOOLEAN
    BY DEF RefreshInv, TypeOK
<1> DEFINE good == Success(health[Register])
           bad == Failure(health[Register])
           unsupported == Unsupported(health[Register])
<1>3. /\ good \in Health /\ good.available = TRUE
      /\ bad \in Health /\ bad.available = FALSE
      /\ unsupported \in Health /\ unsupported.available = FALSE
    <2>1. /\ good \in Health /\ good.available /\ bad \in Health /\ ~bad.available
          /\ unsupported \in Health /\ ~unsupported.available
        BY <1>1, HealthFacts
    <2> HIDE DEF good, bad, unsupported
    <2> QED
        BY <2>1 DEF Health
<1> HIDE DEF good, bad, unsupported
<1>4. CASE ReadSucceeds
    <2>1. Attempted(good)
        BY <1>4 DEF ReadSucceeds, good
    <2>2. /\ ~transportFailed' /\ transportFailed' \in BOOLEAN /\ succeeded' \in BOOLEAN
          /\ clean' = clean
          /\ age' = (IF Register \in Temporary THEN [age EXCEPT ![Register] = 0] ELSE age)
        BY <1>2, <1>4 DEF ReadSucceeds
    <2> QED
        BY <1>1, <1>3, <2>1, <2>2, AttemptPreserves
<1>5. CASE ReadRefused
    <2>1. Attempted(bad) \/ Attempted(unsupported)
        BY <1>5 DEF ReadRefused, bad, unsupported
    <2>2. /\ transportFailed' \in BOOLEAN /\ succeeded' \in BOOLEAN
          /\ clean' = -1 /\ UNCHANGED age
        BY <1>2, <1>5 DEF ReadRefused
    <2> QED
        BY <1>1, <1>3, <2>1, <2>2, AttemptPreserves
<1>6. CASE ReadLosesTransport
    <2>1. Attempted(bad)
        BY <1>6 DEF ReadLosesTransport, bad
    <2>2. /\ transportFailed' \in BOOLEAN /\ succeeded' \in BOOLEAN
          /\ clean' = -1 /\ UNCHANGED age
        BY <1>2, <1>6 DEF ReadLosesTransport
    <2> QED
        BY <1>1, <1>3, <2>1, <2>2, AttemptPreserves
<1>7. CASE ReadSkipped
    <2>1. Attempted(bad)
        BY <1>7 DEF ReadSkipped, Skipped, bad
    <2>2. clean = -1
        BY <1>1, <1>7 DEF ReadSkipped, RefreshInv, LossIsRemembered
    <2>3. /\ transportFailed' \in BOOLEAN /\ succeeded' \in BOOLEAN
          /\ clean' = -1 /\ UNCHANGED age
        BY <1>2, <1>7, <2>2 DEF ReadSkipped
    <2> QED
        BY <1>1, <1>3, <2>1, <2>3, AttemptPreserves
<1> QED
    BY <1>4, <1>5, <1>6, <1>7

LEMMA StepPreserves == RefreshInv /\ [Next]_vars => RefreshInv'
<1> SUFFICES ASSUME RefreshInv, [Next]_vars
             PROVE  RefreshInv'
    OBVIOUS
<1>1. CASE StartCycle
    BY <1>1, StartCyclePreserves
<1>2. CASE ReadSucceeds \/ ReadRefused \/ ReadLosesTransport \/ ReadSkipped
    BY <1>2, ReadsPreserve
<1>3. CASE NextGroup
    BY <1>3, NextGroupPreserves
<1>4. CASE EndCycle
    BY <1>4, EndCyclePreserves
<1>5. CASE ReadSuppressed
    BY <1>5, SuppressedPreserves
<1>6. CASE SetupRetried
    BY <1>6, RetryPreserves
<1>7. CASE Overlap
    BY <1>7, OverlapPreserves
<1>8. CASE CommandConfirmed
    BY <1>8, CommandPreserves
<1>9. CASE UNCHANGED vars
    BY <1>9 DEF vars, historyVars, RefreshInv, TypeOK, SinceIsTyped, ReadInTime, AgeFollowsGroup,
                MissingHasAReason, LossIsRemembered, FailuresAreCounted, Elapsed, ToRead
<1> QED
    BY <1>1, <1>2, <1>3, <1>4, <1>5, <1>6, <1>7, <1>8, <1>9 DEF Next, Cycle, Trouble

LEMMA Invariance == Spec => []RefreshInv
    BY InitEstablishes, StepPreserves, PTL DEF Spec

-----------------------------------------------------------------------------
\* Health, intervals and counters keep their types, and what is left to read belongs
\* to the group the cycle is at.
THEOREM RefreshTypes == Spec => []TypeOK
<1>1. RefreshInv => TypeOK
    BY DEF RefreshInv
<1> QED
    BY <1>1, Invariance, PTL

\* A limit that is called available was read, or read back, within one interval of
\* its group and the cycle under way, for every interval and whatever fails, is
\* skipped or is confirmed in between.
THEOREM FreshLimits == Spec => []FreshLimitsAreRecent
<1>1. ASSUME RefreshInv, NEW r \in Temporary, health[r].available
      PROVE  age[r] <= Period["temporary"] + 1
    <2>1. age[r] <= Elapsed + 1
        BY <1>1 DEF RefreshInv, AgeFollowsGroup
    <2>2. age[r] \in Int /\ Elapsed \in Int /\ Interval \in Int /\ Elapsed <= Interval
        BY <1>1, StateFacts, GroupFacts
    <2> QED
        BY <2>1, <2>2 DEF Interval
<1>2. RefreshInv => FreshLimitsAreRecent
    BY <1>1 DEF FreshLimitsAreRecent
<1> QED
    BY <1>2, Invariance, PTL

\* An interval and a cycle without a failure or a command make all temporary limits
\* available again, whatever was skipped before.
THEOREM LimitsRecover == Spec => []LimitsComeBack
<1>1. ASSUME RefreshInv, clean > Period["temporary"], NEW r \in Temporary
      PROVE  health[r].available
    <2>1. SUFFICES ASSUME ~health[r].available
                   PROVE  FALSE
        OBVIOUS
    <2>2. clean <= (IF group = 0 THEN Elapsed + 1 ELSE Elapsed)
        BY <1>1, <2>1 DEF RefreshInv, MissingHasAReason
    <2>3. group = 0 => Elapsed < Interval
        BY <1>1, StateFacts, GroupFacts DEF RefreshInv, ReadInTime, Interval
    <2> QED
        BY <1>1, <2>2, <2>3, StateFacts, GroupFacts DEF Interval
<1>2. RefreshInv => LimitsComeBack
    BY <1>1 DEF LimitsComeBack
<1> QED
    BY <1>2, Invariance, PTL

\* The entities become unavailable after as many fruitless cycles as are allowed,
\* never earlier, and no later after as many lost transports but by a publication
\* in between: for every number of failures allowed.
THEOREM AvailabilityIsDebounced == Spec => []UnavailabilityIsDebounced
<1>1. RefreshInv => UnavailabilityIsDebounced
    BY DEF RefreshInv, FailuresAreCounted, UnavailabilityIsDebounced
<1> QED
    BY <1>1, Invariance, PTL
=============================================================================
