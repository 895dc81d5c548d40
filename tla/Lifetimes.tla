----------------------------- MODULE Lifetimes ------------------------------
(***************************************************************************)
(* The lives of a coordinator: set up from the options of its config       *)
(* entry, reloaded when the options change, shut down.  The options form,  *)
(* the select and number entities and confirmed commands all write the     *)
(* same options, through one update listener and one flag that tells it    *)
(* to let the next update pass.  What is left of an old life, a command    *)
(* still awaiting its frames or a batch still being written, goes on       *)
(* beside the new one.                                                     *)
(***************************************************************************)
EXTENDS PersistentHistory

CONSTANTS
    Limits,        \* the limits a command may confirm
    NoLimit,       \* no last confirmed limit, or no command
    MaxChanges,    \* bounds the updates that change the options
    MaxFacts       \* bounds the events recorded

ASSUME LifetimesAssumption ==
    /\ NoLimit \notin Limits
    /\ {MaxChanges, MaxFacts} \subseteq Nat

VARIABLES
    options,    \* the config entry's options
    lock,       \* what holds Home Assistant's setup lock of the entry
    reloads,    \* calls of async_reload that wait for it
    life,       \* the number of coordinators constructed
    lives,      \* the coordinators
    changes, facts,   \* what is bounded
    \* History, for the properties only.
    leftover,   \* the flag was left up by a write of the life that changed nothing
    missed      \* an update the life has not seen, by one of the known ways

entryVars == <<options, reloads, changes, leftover, missed>>
vars == <<options, lock, reloads, life, lives, changes, facts,
          leftover, missed>>

MaxLives == 1 + MaxChanges
Modes == {"Manual", "Production"}
Options == [mode : Modes \cup {"absent", "Simulation"}, confirmed : Limits \cup {NoLimit},
            history : BOOLEAN, nominal : 1..2]

\* "stuck" is a coordinator whose platforms Home Assistant could not unload.
Phases == {"unborn", "refreshing", "failed", "starting", "preparing", "running",
           "unloading", "stuck", "stopping", "closing", "gone"}
Coordinators == [phase     : Phases,
                 mode      : Modes,
                 confirmed : Limits \cup {NoLimit},   \* _last_confirmed_temporary_limit
                 nominal   : 1..2,
                 skip      : BOOLEAN,                 \* _skip_next_options_reload
                 ticking   : BOOLEAN,                 \* _cancel_tick is set
                 command   : Limits \cup {NoLimit},   \* awaits its frames
                 refresh   : BOOLEAN,                 \* one under way has _update_lock
                 history   : Histories]

\* Mutant: the stored mode is taken as it is.
RestoredRaw(mode) == mode

\* _restore_controller_mode
Restored(mode) == IF mode \in Modes THEN mode ELSE "Manual"

New(phase, opts) ==
    [phase |-> phase, mode |-> Restored(opts.mode), confirmed |-> opts.confirmed,
     nominal |-> opts.nominal, skip |-> FALSE, ticking |-> FALSE, command |-> NoLimit,
     refresh |-> FALSE, history |-> NewHistory(opts.history)]

Blank == [mode |-> "Manual", confirmed |-> NoLimit, history |-> FALSE, nominal |-> 1]

\* Of a life of which nothing is left nothing is kept.
Kept(c) ==
    IF c.phase = "gone" /\ ~c.ticking /\ c.command = NoLimit /\ c.history.thread = "idle"
    THEN New("gone", Blank) ELSE c

Init ==
    /\ options \in [mode : Modes \cup {"absent", "Simulation"}, confirmed : {NoLimit},
                    history : BOOLEAN, nominal : {1}]
    /\ lock = "setup" /\ reloads = 0 /\ life = 0
    /\ lives = [l \in 1..MaxLives |-> New("unborn", Blank)]
    /\ changes = 0 /\ facts = 0
    /\ leftover = FALSE /\ missed = FALSE

Phase == IF life = 0 THEN "unborn" ELSE lives[life].phase

(***************************************************************************)
(* Updates of the options.                                                 *)
(***************************************************************************)
\* hass.data holds the coordinator.
Registered == Phase \in {"starting", "preparing", "running", "unloading", "stuck"}

\* The listener is there until the unload ends.
Listening == Registered \/ Phase \in {"stopping", "closing"}

\* _async_update_options: the flag of the coordinator in hass.data lets one update pass.
Skipped(ls) == Registered /\ ls[life].skip

\* Mutant: the flag is not lowered.
UpdateFlagged(new, ls, own) ==
    IF new = options
    THEN /\ lives' = ls
         /\ leftover' = (Registered /\ ls[life].skip /\ (own \/ leftover))
         /\ UNCHANGED <<options, reloads, changes, missed>>
    ELSE /\ changes < MaxChanges /\ changes' = changes + 1
         /\ options' = new
         /\ lives' = ls
         /\ reloads' = IF Listening /\ ~Skipped(ls) THEN reloads + 1 ELSE reloads
         /\ missed' = (missed \/ Phase = "refreshing"
                              \/ (Skipped(ls) /\ leftover /\ ~own))
         /\ leftover' = FALSE

\* async_update_entry, which calls no listener when nothing changes; ls are the
\* coordinators as its caller left them, own that the caller is the current one.
Update(new, ls, own) ==
    IF new = options
    THEN /\ lives' = ls
         /\ leftover' = (Registered /\ ls[life].skip /\ (own \/ leftover))
         /\ UNCHANGED <<options, reloads, changes, missed>>
    ELSE /\ changes < MaxChanges /\ changes' = changes + 1
         /\ options' = new
         /\ lives' = IF Skipped(ls) THEN [ls EXCEPT ![life].skip = FALSE] ELSE ls
         /\ reloads' = IF Listening /\ ~Skipped(ls) THEN reloads + 1 ELSE reloads
         /\ missed' = (missed \/ Phase = "refreshing"
                              \/ (Skipped(ls) /\ leftover /\ ~own))
         /\ leftover' = FALSE

\* The options form stores what it shows, and nothing else.
SubmitForm ==
    /\ \E history \in BOOLEAN, nominal \in 1..2 :
           Update([mode |-> "absent", confirmed |-> NoLimit,
                   history |-> history, nominal |-> nominal], lives, FALSE)
    /\ UNCHANGED <<lock, life, facts>>

\* async_set_controller_mode, of the select entity.
SelectMode ==
    /\ Registered
    /\ \E mode \in Modes :
           Update([options EXCEPT !.mode = mode],
                  [lives EXCEPT ![life].mode = mode, ![life].skip = TRUE], TRUE)
    /\ UNCHANGED <<lock, life, facts>>

\* async_set_installed_nominal_power, of the number entity, does not raise the flag.
SetNominalPower ==
    /\ Registered
    /\ \E nominal \in 1..2 :
           Update([options EXCEPT !.nominal = nominal],
                  [lives EXCEPT ![life].nominal = nominal], TRUE)
    /\ UNCHANGED <<lock, life, facts>>

(***************************************************************************)
(* Commands: automatic while the controller ticks, the slider's while its  *)
(* entity is there.  Nothing that ends a life ends its command.            *)
(***************************************************************************)
BeginCommand ==
    \E l \in 1..life, value \in Limits :
        /\ lives[l].command = NoLimit
        /\ \/ lives[l].ticking /\ lives[l].mode = "Production"
           \/ l = life /\ Registered /\ lives[l].mode = "Manual"
        /\ lives' = [lives EXCEPT ![l].command = value]
        /\ UNCHANGED <<entryVars, lock, life, facts>>

\* _async_store_confirmed_temporary_limit
CommandConfirmed ==
    \E l \in 1..life :
        LET value == lives[l].command
        IN /\ value # NoLimit
           /\ Update([options EXCEPT !.confirmed = value],
                     [lives EXCEPT ![l] = Kept([@ EXCEPT !.confirmed = value, !.skip = TRUE,
                                                         !.command = NoLimit])],
                     l = life)
           /\ UNCHANGED <<lock, life, facts>>

CommandFails ==
    \E l \in 1..life :
        /\ lives[l].command # NoLimit
        /\ lives' = [lives EXCEPT ![l] = Kept([@ EXCEPT !.command = NoLimit])]
        /\ UNCHANGED <<entryVars, lock, life, facts>>

\* _async_update_data has the update lock.  Only the one that the shutdown finds under
\* way matters, so it begins during the unload; none begins after the shutdown has.
RefreshBegins ==
    /\ Phase = "unloading" /\ ~lives[life].refresh
    /\ lives' = [lives EXCEPT ![life].refresh = TRUE]
    /\ UNCHANGED <<entryVars, lock, life, facts>>

RefreshEnds ==
    /\ Listening /\ lives[life].refresh
    /\ lives' = [lives EXCEPT ![life].refresh = FALSE]
    /\ UNCHANGED <<entryVars, lock, life, facts>>

(***************************************************************************)
(* Setup: async_setup_entry, under the lock.                               *)
(***************************************************************************)
\* A reload has its turn: what runs is unloaded first.
ReloadBegins ==
    /\ lock = "free" /\ reloads > 0 /\ Phase # "stuck"
    /\ reloads' = reloads - 1
    /\ IF Phase = "running"
       THEN /\ lock' = "unload"
            /\ lives' = [lives EXCEPT ![life].phase = "unloading"]
       ELSE lock' = "setup" /\ UNCHANGED lives
    /\ UNCHANGED <<options, changes, leftover, missed, life, facts>>

\* Home Assistant refuses to reload what it could not unload.
ReloadRefused ==
    /\ lock = "free" /\ reloads > 0 /\ Phase = "stuck"
    /\ reloads' = reloads - 1
    /\ UNCHANGED <<options, changes, leftover, missed, lock, life, lives, facts>>

\* Home Assistant tries a setup that failed again.
RetryBegins ==
    /\ lock = "free" /\ Phase = "failed"
    /\ lock' = "setup"
    /\ UNCHANGED <<entryVars, life, lives, facts>>

\* The removed Simulation mode is migrated, then the coordinator reads the options.
\* One whose first refresh failed has left nothing: the next one takes its number.
Construct ==
    LET migrated == IF options.mode = "Simulation"
                    THEN [options EXCEPT !.mode = "Manual"] ELSE options
    IN /\ lock = "setup" /\ Phase \notin {"refreshing", "starting", "preparing"}
       /\ options' = migrated
       /\ life' = IF Phase = "failed" THEN life ELSE life + 1
       /\ lives' = [lives EXCEPT ![life'] = New("refreshing", migrated)]
       /\ leftover' = FALSE /\ missed' = FALSE
       /\ UNCHANGED <<lock, reloads, changes, facts>>

\* hass.data, the listener and the platforms.
FirstRefreshed ==
    /\ Phase = "refreshing"
    /\ lives' = [lives EXCEPT ![life].phase = "starting"]
    /\ UNCHANGED <<entryVars, lock, life, facts>>

FirstRefreshFails ==
    /\ Phase = "refreshing"
    /\ lives' = [lives EXCEPT ![life].phase = "failed"]
    /\ lock' = "free"
    /\ UNCHANGED <<entryVars, life, facts>>

\* The timer of the ticks is set last, and the setup is over.
Run(c) == [c EXCEPT !.ticking = TRUE, !.phase = "running"]

\* controller.async_start: an enabled history is started first, and waits for an
\* executor thread to prepare its directory.
ControllerStarts ==
    /\ Phase = "starting"
    /\ IF lives[life].history.enabled
       THEN lives' = [lives EXCEPT ![life].phase = "preparing"] /\ UNCHANGED lock
       ELSE lives' = [lives EXCEPT ![life] = Run(@)] /\ lock' = "free"
    /\ UNCHANGED <<entryVars, life, facts>>

\* The thread has prepared the directory, or an OSError says that it could not.
PreparationEnds ==
    /\ Phase = "preparing"
    /\ \E prepared \in BOOLEAN :
           LET started == Started(lives[life].history, prepared)
           IN lives' = [lives EXCEPT ![life] = Run([@ EXCEPT !.history = started])]
    /\ lock' = "free"
    /\ UNCHANGED <<entryVars, life, facts>>

(***************************************************************************)
(* Unload: async_unload_entry, async_shutdown and controller.async_stop.   *)
(***************************************************************************)
PlatformsUnloaded ==
    /\ Phase = "unloading"
    /\ lives' = [lives EXCEPT ![life].history = StopBegun(@), ![life].phase = "stopping"]
    /\ UNCHANGED <<entryVars, lock, life, facts>>

\* unload_ok is False: the coordinator goes on, and the reload does not follow.
PlatformsStay ==
    /\ Phase = "unloading"
    /\ lives' = [lives EXCEPT ![life].phase = "stuck"]
    /\ lock' = "free"
    /\ UNCHANGED <<entryVars, life, facts>>

\* Mutant: the ticks are not cancelled.
ShutDownTicking(c) == [c EXCEPT !.history = Stopped(@), !.phase = "closing"]

\* Only after the history do the ticks end.
ShutDown(c) == [c EXCEPT !.history = Stopped(@), !.ticking = FALSE, !.phase = "closing"]

\* The worker was not there, or it has ended.
HistoryStops ==
    /\ Phase = "stopping" /\ WorkerIsDone(lives[life].history)
    /\ lives' = [lives EXCEPT ![life] = ShutDown(@)]
    /\ UNCHANGED <<entryVars, lock, life, facts>>

\* Two seconds have passed: the worker is cancelled.
HistoryTimesOut ==
    /\ Phase = "stopping" /\ CanGiveUp(lives[life].history)
    /\ lives' = [lives EXCEPT ![life] = ShutDown(@)]
    /\ UNCHANGED <<entryVars, lock, life, facts>>

\* _update_lock and then the client's lock, which is passed on in order of arrival
\* and kept for one request: a command of the life loses it between its frames.
ClientCloses ==
    /\ Phase = "closing" /\ ~lives[life].refresh
    /\ lives' = [lives EXCEPT ![life] = Kept([@ EXCEPT !.phase = "gone"])]
    /\ lock' = "setup"
    /\ UNCHANGED <<entryVars, life, facts>>

(***************************************************************************)
(* The history beside them.                                                *)
(***************************************************************************)
Record ==
    \E l \in 1..life :
        /\ lives[l].ticking
        /\ lives' = [lives EXCEPT ![l].history = Recorded(@)]
        /\ facts' = facts + lives'[l].history.queued - lives[l].history.queued
        /\ facts' <= MaxFacts
        /\ UNCHANGED <<entryVars, lock, life>>

WorkerSteps ==
    \E l \in 1..life :
        /\ \/ CanTake(lives[l].history)
              /\ lives' = [lives EXCEPT ![l].history = Taken(@)]
           \/ CanResume(lives[l].history)
              /\ lives' = [lives EXCEPT ![l].history = Resumed(@)]
           \/ CanEnd(lives[l].history)
              /\ lives' = [lives EXCEPT ![l].history = Ended(@)]
        /\ UNCHANGED <<entryVars, lock, life, facts>>

ThreadAnswers ==
    \E l \in 1..life, outcome \in {"ok", "oserror", "error"}, n \in 0..BatchSize :
        /\ n <= Len(lives[l].history.batch) /\ CanAnswer(lives[l].history, outcome, n)
        /\ LET answered == Answered(lives[l].history, outcome, n)
           IN lives' = [lives EXCEPT ![l] = Kept([@ EXCEPT !.history = answered])]
        /\ UNCHANGED <<entryVars, lock, life, facts>>

Next == \/ SubmitForm \/ SelectMode \/ SetNominalPower
        \/ BeginCommand \/ CommandConfirmed \/ CommandFails
        \/ RefreshBegins \/ RefreshEnds
        \/ ReloadBegins \/ ReloadRefused \/ RetryBegins \/ Construct
        \/ FirstRefreshed \/ FirstRefreshFails \/ ControllerStarts \/ PreparationEnds
        \/ PlatformsUnloaded \/ PlatformsStay
        \/ HistoryStops \/ HistoryTimesOut \/ ClientCloses
        \/ Record \/ WorkerSteps \/ ThreadAnswers

Spec == Init /\ [][Next]_vars

\* What Home Assistant goes on to by itself, and the shutdown with it.
GoesOn ==
    \/ ReloadBegins \/ RetryBegins \/ Construct \/ ControllerStarts
    \/ PlatformsUnloaded \/ HistoryStops \/ HistoryTimesOut \/ ClientCloses

\* Home Assistant goes on with a setup or an unload it has begun and repeats one
\* that failed, two seconds pass, a refresh ends with the timeouts of its requests,
\* and not every first refresh fails.  The disk answers the preparation of a
\* directory, if only with an error: the setup waits for it without a timeout.
\* Nothing else is assumed of the disk, and nothing of the user or of the commands.
FairSpec ==
    /\ Spec
    /\ WF_vars(GoesOn) /\ WF_vars(RefreshEnds)
    /\ SF_vars(FirstRefreshed)
    /\ WF_vars(PreparationEnds)

(***************************************************************************)
(* Properties.                                                             *)
(***************************************************************************)
TypeOK ==
    /\ options \in Options
    /\ lock \in {"free", "unload", "setup"}
    /\ reloads \in 0..MaxChanges
    /\ life \in 0..MaxLives
    /\ DOMAIN lives = 1..MaxLives
    /\ \A l \in 1..MaxLives :
           /\ lives[l].phase \in Phases /\ lives[l].mode \in Modes
           /\ {lives[l].confirmed, lives[l].command} \subseteq Limits \cup {NoLimit}
           /\ lives[l].nominal \in 1..2
           /\ {lives[l].skip, lives[l].ticking, lives[l].refresh} \subseteq BOOLEAN
           /\ Len(lives[l].history.queue) <= QueueSize
           /\ Len(lives[l].history.batch) <= BatchSize
    /\ changes \in 0..MaxChanges /\ facts \in 0..MaxFacts
    /\ leftover \in BOOLEAN /\ missed \in BOOLEAN

\* What the current coordinator works with is what the options say.
Agrees ==
    /\ Phase = "running"
    /\ lives[life].mode = Restored(options.mode)
    /\ lives[life].confirmed = options.confirmed
    /\ lives[life].history.enabled = options.history
    /\ lives[life].nominal = options.nominal

\* Once no reload is under way or waiting, the coordinator works with the stored
\* options, whatever the form, the entities and commands of this or an earlier
\* life stored, and in which order: except after an update that came during the
\* first refresh, before the listener (__init__.py:45), or one that was let pass
\* by a flag an unchanged mode or limit had left up (coordinator.py:991, 1006).
ConfigurationIsLive ==
    (lock = "free" /\ reloads = 0 /\ Phase = "running" /\ ~missed) => Agrees

\* Every update the coordinator does not follow at once is followed in the end, by
\* a reload: neither the shutdown with its waits, for a worker whose disk may never
\* answer a write and for a refresh under way, nor commands that never end keep it
\* from coming, unless Home Assistant could not unload the platforms (__init__.py:94).
\* It rests on a disk that answers the preparation, as FairSpec says: on one that
\* hangs there the setup never ends (persistent_history.py:107).
EditTakesEffect == []<>(Agrees \/ missed \/ Phase = "stuck")

\* No reload leaves two controllers ticking, a coordinator that is gone neither
\* ticks nor goes on taking events, and a worker belongs to the current life.
OneLifeTicks ==
    \A l \in 1..life :
        /\ l # life => lives[l].phase \in {"gone", "failed"}
        /\ lives[l].phase \in {"gone", "failed"} =>
               ~lives[l].ticking /\ lives[l].history.worker = "none"

\* The events of a life are stored at most once and in the order in which they were
\* recorded, with failed batches, cancelled workers and threads that end after the
\* next life has begun to write.
EventsAreStoredInOrder ==
    \A l \in 1..life : LET stored == lives[l].history.stored
                      IN \A i, j \in 1..Len(stored) : i < j => stored[i] < stored[j]

\* No event counts as written that is not stored, and none that was accepted is lost
\* but with a batch whose writing failed: while the worker works and no batch has
\* failed yet every event is stored, with the thread or in the queue.
WrittenIsStored ==
    \A l \in 1..life :
        LET h == lives[l].history
        IN /\ h.written <= Len(h.stored)
           /\ (IsRunning(h) /\ h.errors = 0 /\ h.thread \in {"idle", "writing"}) =>
                  h.queued = Len(h.stored) + Len(h.batch) + Len(h.queue)

\* A life ends with its mode in the options, from which the next one restores it.
ModeSurvivesReload ==
    [][(Phase = "closing" /\ Phase' = "gone")
           => Restored(options.mode) = lives[life].mode]_vars
=============================================================================
