--------------------------- MODULE TemporaryLimits ---------------------------
(***************************************************************************)
(* The one common temporary limit of the coordinator (coordinator.py) and  *)
(* the three DTU ports that hold it.  A command writes port after port,    *)
(* and every frame awaits the Modbus client's lock, so the slider, the     *)
(* controller and the periodic refresh interleave frame by frame; a frame  *)
(* may be answered, rejected or lost, and a lost write may or may not have *)
(* reached its port.                                                       *)
(*                                                                         *)
(* Handling an answer and queueing for the lock again is one step: nothing *)
(* is awaited in between, and asyncio.Lock serves its waiters in order.    *)
(* When the link is down is ModbusClient's subject, when the controller    *)
(* sends commands is ZeroInjectionController's: here it sends one whenever *)
(* the coordinator allows it.                                              *)
(***************************************************************************)
EXTENDS Integers, Sequences, FiniteSets

CONSTANTS
  NumPorts,         (* ports of the DTU                                       *)
  Values,           (* limits in use                                          *)
  Sliders,          (* concurrent calls of the manual command                 *)
  RestartsAllowed,  (* whether Home Assistant may restart in this instance    *)
  Controller,       (* the automatic caller                                   *)
  Refresh,          (* the periodic reader                                    *)
  None              (* no limit known, no caller                              *)

ASSUME PortsAssumption == NumPorts \in Nat \ {0}

ASSUME CallersAssumption ==
  /\ Controller \notin Sliders /\ Refresh \notin Sliders \cup {Controller}
  /\ None \notin Sliders \cup {Controller, Refresh} \cup Values
  /\ RestartsAllowed \in BOOLEAN

Ports == 1..NumPorts
Writers == Sliders \cup {Controller}
Callers == Writers \cup {Refresh}

VARIABLES
  (* The DTU.                                                                 *)
  register,       (* the limit each port applies                              *)
  (* The coordinator.                                                         *)
  mode,           (* the controller's mode                                    *)
  validation,     (* temporary_limit_validation_mode                          *)
  health,         (* _limit_health of the temporary registers                 *)
  synchronized,   (* _temporary_limits_synchronized                           *)
  lastConfirmed,  (* _last_confirmed_temporary_limit, persisted               *)
  (* The Modbus client and the coroutines that use it.                        *)
  link,           (* "down" while a reconnection is refused                   *)
  bus,            (* callers queueing for the client's lock, its holder first *)
  call,           (* how far each caller has come                             *)
  (* History, for the properties only.                                        *)
  latest,         (* the writer whose command started last, and its fate      *)
  fate,
  tainted         (* a command overlapped another one, or a restart lost the  *)
                  (* uncertainty, and no later command settled the limit      *)

coordinatorVars == <<mode, validation, lastConfirmed>>
historyVars == <<latest, fate, tainted>>
vars == <<register, coordinatorVars, health, synchronized, link, bus, call, historyVars>>

(* A command in progress: the frame it sends next, or waits to be answered.*)
Call == [phase : {"idle", "write", "read"}, port : Ports, value : Values \cup {None},
         readback : BOOLEAN, agrees : BOOLEAN]

Idle == [phase |-> "idle", port |-> 1, value |-> None, readback |-> FALSE, agrees |-> TRUE]

Health == [value : Values \cup {None}, available : BOOLEAN]
Unknown == [value |-> None, available |-> FALSE]

TypeOK ==
  /\ register \in [Ports -> Values]
  /\ mode \in {"Disabled", "Production"} /\ validation \in {"Strict", "Compatibility"}
  /\ health \in [Ports -> Health]
  /\ synchronized \in BOOLEAN /\ lastConfirmed \in Values \cup {None}
  /\ link \in {"up", "down"}
  /\ bus \in Seq(Callers) /\ call \in [Callers -> Call]
  /\ latest \in Writers \cup {None} /\ tainted \in BOOLEAN
  /\ fate \in {"none", "running", "confirmed", "failed"}

Init ==
  /\ register \in [Ports -> Values]
  /\ mode = "Disabled" /\ validation \in {"Strict", "Compatibility"}
  /\ health = [p \in Ports |-> Unknown]
  /\ synchronized = TRUE /\ lastConfirmed = None
  /\ link = "up" /\ bus = <<>> /\ call = [c \in Callers |-> Idle]
  /\ latest = None /\ fate = "none" /\ tainted = FALSE

-----------------------------------------------------------------------------
(* What the coordinator tells the controller.                              *)

(* temporary_limits_fresh: every port was read, and they agree.            *)
Fresh ==
  \A p \in Ports : /\ health[p].available
                   /\ health[p].value # None
                   /\ health[p].value = health[1].value

(* effective_temporary_limit                                               *)
EffectiveLimit ==
  IF Fresh
    THEN health[1].value
    ELSE IF validation = "Compatibility" THEN lastConfirmed ELSE None

AutomaticWriteAllowed ==
  /\ mode = "Production" /\ synchronized
  /\ Fresh \/ (validation = "Compatibility" /\ lastConfirmed # None)

-----------------------------------------------------------------------------
(* A caller starts: it queues for the lock with its first frame.           *)

(* Mutant of Queue: a newcomer goes first.                                 *)
QueueFirst(c, frame) ==
  /\ call' = [call EXCEPT ![c] = frame]
  /\ bus' = <<c>> \o bus

Queue(c, frame) ==
  /\ call' = [call EXCEPT ![c] = frame]
  /\ bus' = Append(bus, c)

Writing(c) == call[c].phase # "idle"

StartWriting(c, value, readback) ==
  /\ ~Writing(c)
  /\ Queue(c, [phase |-> "write", port |-> 1, value |-> value, readback |-> readback,
               agrees |-> TRUE])
  /\ latest' = c /\ fate' = "running"
  /\ tainted' = (tainted \/ \E w \in Writers : Writing(w))
  /\ UNCHANGED <<register, coordinatorVars, health, synchronized, link>>

(* async_set_manual_temporary_power_limit                                  *)
ManualCommand(c) ==
  /\ mode = "Disabled"
  /\ \E v \in Values : StartWriting(c, v, FALSE)

(* async_set_all_temporary_power_limits                                    *)
AutomaticCommand ==
  /\ AutomaticWriteAllowed
  /\ \E v \in Values : StartWriting(Controller, v, validation = "Strict")

(* async_takeover_temporary_power_limits                                   *)
Takeover ==
  /\ mode = "Production" /\ validation = "Compatibility"
  /\ \E v \in Values : StartWriting(Controller, v, FALSE)

(* The temporary limits are due in _async_refresh_power_limits.            *)
RefreshStarts ==
  /\ ~Writing(Refresh)
  /\ Queue(Refresh, [Idle EXCEPT !.phase = "read"])
  /\ UNCHANGED <<register, coordinatorVars, health, synchronized, link, historyVars>>

-----------------------------------------------------------------------------
(* The frame of the caller that holds the lock is answered.                *)

Holder == Head(bus)
Frame == call[Holder]

HolderWrites == bus # <<>> /\ Holder # Refresh /\ Frame.phase = "write"
HolderVerifies == bus # <<>> /\ Holder # Refresh /\ Frame.phase = "read"
HolderRefreshes == bus # <<>> /\ Holder = Refresh

(* The holder goes to the end of the queue with its next frame.            *)
NextFrame(frame) ==
  /\ call' = [call EXCEPT ![Holder] = frame]
  /\ bus' = Append(Tail(bus), Holder)

Finish ==
  /\ call' = [call EXCEPT ![Holder] = Idle]
  /\ bus' = Tail(bus)

(* Mutant of Confirm: the limits read before are kept.                     *)
ConfirmWithoutHealth ==
  /\ Finish
  /\ synchronized' = TRUE /\ lastConfirmed' = Frame.value
  /\ fate' = IF Holder = latest THEN "confirmed" ELSE fate
  /\ tainted' = (tainted /\ Holder # latest)
  /\ UNCHANGED <<mode, validation, health, latest, link>>

(* Every requested frame was answered as wanted.                           *)
Confirm ==
  /\ Finish
  /\ health' = [p \in Ports |-> [value |-> Frame.value, available |-> Frame.readback]]
  /\ synchronized' = TRUE /\ lastConfirmed' = Frame.value
  /\ fate' = IF Holder = latest THEN "confirmed" ELSE fate
  /\ tainted' = (tainted /\ Holder # latest)
  /\ UNCHANGED <<mode, validation, latest, link>>

(* Mutant of Fail: the ports are not marked uncertain.                     *)
FailQuietly ==
  /\ Finish
  /\ fate' = IF Holder = latest THEN "failed" ELSE fate
  /\ UNCHANGED <<coordinatorVars, health, synchronized, latest, tainted>>

(* The command raises.  A manual one pauses the scheduler as well.         *)
Fail ==
  /\ Finish
  /\ synchronized' = FALSE
  /\ fate' = IF Holder = latest THEN "failed" ELSE fate
  /\ UNCHANGED <<coordinatorVars, health, latest, tainted>>

Applied == [register EXCEPT ![Frame.port] = Frame.value]

WriteAcknowledged ==
  /\ HolderWrites /\ link = "up"
  /\ Frame.port < NumPorts \/ Frame.readback
  /\ register' = Applied
  /\ NextFrame(IF Frame.port < NumPorts
                 THEN [Frame EXCEPT !.port = @ + 1]
                 ELSE [Frame EXCEPT !.phase = "read", !.port = 1])
  /\ UNCHANGED <<coordinatorVars, health, synchronized, link, historyVars>>

LastWriteAcknowledged ==
  /\ HolderWrites /\ link = "up"
  /\ Frame.port = NumPorts /\ ~Frame.readback
  /\ register' = Applied
  /\ Confirm

(* The readback of Strict validation compares after the last port.         *)
Agrees == Frame.agrees /\ register[Frame.port] = Frame.value

ReadbackAnswered ==
  /\ HolderVerifies /\ link = "up"
  /\ Frame.port < NumPorts
  /\ NextFrame([Frame EXCEPT !.port = @ + 1, !.agrees = Agrees])
  /\ UNCHANGED <<register, coordinatorVars, health, synchronized, link, historyVars>>

LastReadbackAnswered ==
  /\ HolderVerifies /\ link = "up"
  /\ Frame.port = NumPorts
  /\ IF Agrees THEN Confirm ELSE Fail /\ UNCHANGED link
  /\ UNCHANGED register

(* Mutant of RefreshNext: one port too many.                               *)
RefreshNextPort ==
  IF Frame.port <= NumPorts THEN NextFrame([Frame EXCEPT !.port = @ + 1]) ELSE Finish

(* The refresh goes on with the next port, whether it read this one or not.*)
RefreshNext ==
  IF Frame.port < NumPorts THEN NextFrame([Frame EXCEPT !.port = @ + 1]) ELSE Finish

(* Mutant of RefreshAnswered: a complete reading ends the uncertainty.      *)
RefreshAnsweredHealing ==
  /\ HolderRefreshes /\ link = "up"
  /\ health' = [health EXCEPT ![Frame.port] =
                  [value |-> register[Frame.port], available |-> TRUE]]
  /\ RefreshNext
  /\ synchronized' = (synchronized \/ Frame.port = NumPorts)
  /\ UNCHANGED <<register, coordinatorVars, link, historyVars>>

RefreshAnswered ==
  /\ HolderRefreshes /\ link = "up"
  /\ health' = [health EXCEPT ![Frame.port] =
                  [value |-> register[Frame.port], available |-> TRUE]]
  /\ RefreshNext
  /\ UNCHANGED <<register, coordinatorVars, synchronized, link, historyVars>>

-----------------------------------------------------------------------------
(* Or it is not.                                                           *)

(* Whether a write without a matching answer was applied is not known.     *)
PerhapsApplied ==
  register' \in {register} \cup (IF Frame.phase = "write" THEN {Applied} ELSE {})

(* A Modbus exception, or an answer that does not match the request.       *)
Rejected == link = "up" /\ UNCHANGED link /\ PerhapsApplied

(* The transport fails.                                                    *)
Lost == link = "up" /\ link' = "down" /\ PerhapsApplied

(* The client refuses to reconnect yet.                                    *)
Refused == link = "down" /\ UNCHANGED <<link, register>>

CommandFrameFails ==
  /\ HolderWrites \/ HolderVerifies
  /\ Rejected \/ Lost \/ Refused
  /\ Fail

(* A rejected read leaves this port's value stale; with the transport gone *)
(* the rest of the cycle is skipped, and its values are stale too.         *)
RefreshFrameRejected ==
  /\ HolderRefreshes
  /\ Rejected
  /\ health' = [health EXCEPT ![Frame.port].available = FALSE]
  /\ RefreshNext
  /\ UNCHANGED <<coordinatorVars, synchronized, historyVars>>

RefreshFrameFails ==
  /\ HolderRefreshes
  /\ Lost \/ Refused
  /\ health' = [p \in Ports |-> IF p >= Frame.port
                                  THEN [health[p] EXCEPT !.available = FALSE]
                                  ELSE health[p]]
  /\ Finish
  /\ UNCHANGED <<coordinatorVars, synchronized, historyVars>>

BackoffElapses ==
  /\ link = "down" /\ link' = "up"
  /\ UNCHANGED <<register, coordinatorVars, health, synchronized, bus, call, historyVars>>

-----------------------------------------------------------------------------
(* async_set_controller_mode: a command in progress goes on.               *)
SelectMode ==
  /\ mode' \in {"Disabled", "Production"} \ {mode}
  /\ UNCHANGED <<register, validation, lastConfirmed, health, synchronized, link, bus, call,
                 historyVars>>

(* Home Assistant stops at any await and starts again; the user may have   *)
(* edited the options.  Mode and confirmed limit are restored, the         *)
(* uncertainty of the ports is not.                                        *)
Restart ==
  /\ RestartsAllowed
  /\ register' \in {register} \cup (IF HolderWrites THEN {Applied} ELSE {})
  /\ validation' \in {"Strict", "Compatibility"}
  /\ health' = [p \in Ports |-> Unknown]
  /\ synchronized' = TRUE
  /\ link' = "up" /\ bus' = <<>> /\ call' = [c \in Callers |-> Idle]
  /\ latest' = None /\ fate' = "none"
  /\ tainted' = (tainted \/ ~synchronized \/ \E w \in Writers : Writing(w))
  /\ UNCHANGED <<mode, lastConfirmed>>

Answered ==
  \/ WriteAcknowledged
  \/ LastWriteAcknowledged
  \/ ReadbackAnswered
  \/ LastReadbackAnswered
  \/ RefreshAnswered

Failed ==
  \/ CommandFrameFails
  \/ RefreshFrameRejected
  \/ RefreshFrameFails

Starts ==
  \/ \E c \in Sliders : ManualCommand(c)
  \/ AutomaticCommand
  \/ Takeover
  \/ RefreshStarts

Next == Starts \/ Answered \/ Failed \/ BackoffElapses \/ SelectMode \/ Restart

Spec == Init /\ [][Next]_vars

-----------------------------------------------------------------------------
PortsAgree == \A p \in Ports : register[p] = register[1]

NoWriter == \A w \in Writers : ~Writing(w)

(* Commands overlap, fail and interleave frame by frame: once the command  *)
(* that started last was confirmed and nothing writes any more, every port *)
(* holds its limit and that limit is the one remembered and persisted.     *)
LatestWriterWins ==
  NoWriter /\ fate = "confirmed" => \A p \in Ports : register[p] = lastConfirmed

(* An automatic correction never builds on ports that a failed command     *)
(* left different, however it failed and whatever was refreshed since -    *)
(* except after overlapping commands or a restart.                         *)
AutomaticStartsFromAgreement ==
  [][AutomaticCommand /\ ~tainted' => PortsAgree]_vars

(* effective_temporary_limit, which automatic corrections start from, is   *)
(* the limit every port applies, in both validation modes, though the      *)
(* refresh reads the ports between the frames of a command: under the same *)
(* exceptions.                                                             *)
EffectiveLimitIsTrue ==
  NoWriter /\ synchronized /\ ~tainted /\ EffectiveLimit # None
    => \A p \in Ports : register[p] = EffectiveLimit

(* Ports that a failed command left different stay uncertain until a       *)
(* command has made them agree, whatever the refresh reads or rejects in   *)
(* between: under the same exceptions.                                     *)
PartialFailureStaysUncertain ==
  [][~synchronized /\ synchronized' /\ ~tainted' => PortsAgree']_vars

=============================================================================
