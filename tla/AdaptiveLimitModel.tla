------------------------- MODULE AdaptiveLimitModel -------------------------
(***************************************************************************)
(* adaptive_limit.py: the observation of one confirmed command, as         *)
(* operators on its state.  Powers, limits and gains are abstracted to the *)
(* question they answer: is the evidence before the command good enough,   *)
(* and is the response accepted.  Time is counted in controller intervals. *)
(***************************************************************************)
EXTENDS Naturals

CONSTANTS
    Timeout,          \* _OBSERVATION_TIMEOUT_SECONDS, in intervals
    SampleInterval    \* _POST_SAMPLE_MIN_INTERVAL_SECONDS, in intervals

ASSUME AdaptiveAssumption == Timeout \in Nat /\ SampleInterval \in Nat

AtMost(bound, n) == IF n > bound THEN bound ELSE n

NoObservation == [active |-> FALSE, age |-> 0, samples |-> 0, wait |-> 0]
Pending == [active |-> TRUE, age |-> 0, samples |-> 0, wait |-> 0]
Observations == [active : BOOLEAN, age : 0..Timeout + 1, samples : 0..1, wait : 0..SampleInterval]

NewModel == [pending |-> NoObservation, baselines |-> 0]
Models == [pending : Observations, baselines : 0..2]     \* of the three, two are enough

\* Mutant: a reset forgets what is observed and keeps the evidence.
AfterResetKeeping(m) == [m EXCEPT !.pending = NoObservation]

\* reset, after a change of the nominal power.
AfterReset(m) == NewModel

\* Both ways an observation ends forget it and the evidence before it.
Resolved == NewModel

\* register_confirmed_command, with a power before the command.  `enough': the
\* limit changed enough, and the evidence is recent and stable.  A command that
\* is rejected leaves an older observation pending.
IsObservable(m, enough) == enough /\ m.baselines = 2
AfterRegistration(m, enough) ==
    IF IsObservable(m, enough) THEN [m EXCEPT !.pending = Pending] ELSE m

\* record_baseline
AfterBaseline(m, powerKnown) ==
    IF m.pending.active \/ ~powerKnown THEN m
    ELSE [m EXCEPT !.baselines = AtMost(2, @ + 1)]

\* What a measurement may be to a pending observation: none at all (no power, or
\* the scheduler is stabilizing), one with the battery in another state than
\* before the command, or one that makes a response to learn from or not.
Measurements == {"none", "other battery", "good", "bad"}

\* observe: what becomes of the pending observation.
Observation(m, measured) ==
    LET p == m.pending
    IN CASE ~p.active -> "none"
         [] p.active /\ p.age > Timeout -> "rejected"
         [] p.active /\ p.age <= Timeout /\ measured \in {"none", "other battery"} ->
                IF measured = "none" THEN "none" ELSE "rejected"
         [] OTHER -> IF p.samples = 1 /\ p.wait < SampleInterval THEN "none"
                     ELSE IF p.samples = 0 THEN "waiting"
                     ELSE IF measured = "good" THEN "accepted" ELSE "rejected"

\* Every way an observation ends forgets it.
AfterObservation(m, fate) ==
    CASE fate \in {"accepted", "rejected"} -> Resolved
      [] fate = "waiting" -> [m EXCEPT !.pending.samples = 1, !.pending.wait = 0]
      [] OTHER -> m

AfterInterval(m) ==
    IF ~m.pending.active THEN m
    ELSE [m EXCEPT !.pending.age = AtMost(Timeout + 1, @ + 1),
                   !.pending.wait = IF m.pending.samples = 0 THEN 0
                                    ELSE AtMost(SampleInterval, @ + 1)]
=============================================================================
