------------------------------ MODULE DevMgmt ------------------------------
(***************************************************************************)
(* The facade iLabs_nrf52_devmgmt.cpp: the session channel its calls share *)
(* (the onSessionBegin and onSessionEnd hooks), and the heartbeat's        *)
(* schedule on a millis() clock that wraps.  A sketch makes one call at a  *)
(* time; time passes between the calls and inside them.  The transports    *)
(* are registered.                                                         *)
(***************************************************************************)
EXTENDS Integers

CONSTANTS
  Wrap,            \* 2^32: the values of millis()
  MsPerHour,       \* 3600 * 1000
  CapHours,        \* 744: the longest interval
  MaxHours         \* bound: the longest interval asked for

ASSUME DevMgmtAssumption ==
  /\ Wrap \in Nat /\ MsPerHour \in Nat \ {0} /\ CapHours \in Nat
  /\ CapHours * MsPerHour < Wrap
  /\ MaxHours \in Nat

VARIABLES
  open,            \* s_session_open
  links,           \* begin hooks fired less end hooks fired
  pc,              \* "idle", or the call under way: "ride" for update() and
                   \* transportSelfTest(), "bare" for one without a session,
                   \* "post" for postDiagBody(), "checkin"
  owned,           \* owned, of "ride"
  mode,            \* mode, of "post"
  beat,            \* the "post" is sendHeartbeat()'s
  attempt,         \* attempt, of "post"
  clock,           \* millis()
  last,            \* s_hb_last_ms
  interval,        \* s_hb_interval_ms
  configured,      \* s_hb_provider and s_hb_url are set
  enabled,         \* s_hb_enabled
  kept,            \* history: a KEEP_OPEN diagnostic left the channel open
                   \* and none has closed it since
  hours,           \* history: the interval asked for
  since            \* history: ms since the last base, up to 2 * Wrap

channel == <<open, links>>
call == <<pc, owned, mode, beat, attempt>>
schedule == <<last, interval, configured, enabled, hours, since>>
vars == <<channel, call, clock, schedule, kept>>

Modes == {"direct", "keep_open", "close"}

Init ==
  /\ open = FALSE /\ links = 0
  /\ pc = "idle" /\ owned = FALSE /\ mode = "direct" /\ beat = FALSE /\ attempt = 0
  /\ clock = 0 /\ last = 0 /\ interval = 0
  /\ configured = FALSE /\ enabled = FALSE
  /\ kept = FALSE /\ hours = 0 /\ since = 0

-----------------------------------------------------------------------------
(* The channel. *)

SessionOpen == open' = TRUE /\ links' = IF open THEN links ELSE links + 1

SessionClose == open' = FALSE /\ links' = IF open THEN links - 1 ELSE links

Idle == pc' = "idle" /\ owned' = FALSE /\ mode' = "direct" /\ beat' = FALSE /\ attempt' = 0

(* update(), transportSelfTest(): up to the transfer. *)
Ride ==
  /\ pc = "idle"
  /\ owned' = ~open
  /\ SessionOpen
  /\ pc' = "ride"
  /\ UNCHANGED <<mode, beat, attempt, clock, schedule, kept>>

(* A mutant of RideEnds: it closes a channel it only rode. *)
RideEndsClosing ==
  /\ pc = "ride"
  /\ SessionClose
  /\ Idle
  /\ UNCHANGED <<clock, schedule, kept>>

RideEnds ==
  /\ pc = "ride"
  /\ IF owned THEN SessionClose ELSE UNCHANGED channel
  /\ Idle
  /\ UNCHANGED <<clock, schedule, kept>>

(* uploadLog(), checkForUpdate(): no hooks. *)
Bare ==
  /\ \/ pc = "idle" /\ pc' = "bare"
     \/ pc = "bare" /\ pc' = "idle"
  /\ UNCHANGED <<channel, owned, mode, beat, attempt, clock, schedule, kept>>

(* postDiagnostic() or postDiagnosticJson(); or sendHeartbeat(). *)
Post ==
  /\ pc = "idle"
  /\ \/ mode' \in Modes /\ beat' = FALSE
     \/ enabled /\ mode' = "direct" /\ beat' = TRUE
  /\ SessionOpen
  /\ pc' = "post" /\ attempt' = 0
  /\ UNCHANGED <<owned, clock, schedule, kept>>

(* A mutant of ClosesAfter: CLOSE is not told from KEEP_OPEN. *)
ClosesAfterDirect == mode = "direct"

ClosesAfter == mode # "keep_open"

(* postDiagBody(): the loop ends, by delivery or by a second failure. *)
PostEnds ==
  /\ IF ClosesAfter THEN SessionClose ELSE UNCHANGED channel
  /\ kept' = (mode = "keep_open")
  /\ Idle

PostFails ==
  /\ pc = "post"
  /\ IF attempt = 0
       THEN attempt' = 1 /\ UNCHANGED <<channel, pc, owned, mode, beat, kept>>
       ELSE PostEnds
  /\ UNCHANGED <<clock, schedule>>

(* Delivered: the schedule is counted from now. *)
Rebase == last' = clock /\ since' = 0

Delivered ==
  /\ pc = "post"
  /\ IF beat THEN Rebase ELSE UNCHANGED <<last, since>>
  /\ PostEnds
  /\ UNCHANGED <<clock, interval, configured, enabled, hours>>

CloseDiagChannel ==
  /\ pc = "idle"
  /\ SessionClose
  /\ kept' = FALSE
  /\ UNCHANGED <<call, clock, schedule>>

(* checkIn(): one POST, no hooks, whether the heartbeat is enabled or not. *)
CheckIn ==
  /\ pc = "idle" /\ configured
  /\ pc' = "checkin"
  /\ UNCHANGED <<channel, owned, mode, beat, attempt, clock, schedule, kept>>

CheckInEnds ==
  /\ pc = "checkin"
  /\ pc' = "idle"
  /\ Rebase \/ UNCHANGED <<last, since>>
  /\ UNCHANGED <<channel, owned, mode, beat, attempt, clock, interval,
                 configured, enabled, hours, kept>>

-----------------------------------------------------------------------------
(* The schedule. *)

(* hbHoursToMs() *)
HoursToMs(h) == ((IF h > CapHours THEN CapHours ELSE h) * MsPerHour) % Wrap

(* What startHeartbeat() and setHeartbeatInterval() share. *)
SetInterval(h) ==
  /\ hours' = h
  /\ interval' = HoursToMs(h)
  /\ Rebase
  /\ enabled' = (interval' # 0 /\ configured')

StartHeartbeat ==
  /\ pc = "idle"
  /\ configured' \in BOOLEAN
  /\ \E h \in 0..MaxHours : SetInterval(h)
  /\ UNCHANGED <<channel, call, clock, kept>>

SetHeartbeatInterval ==
  /\ pc = "idle"
  /\ UNCHANGED configured
  /\ \E h \in 0..MaxHours : SetInterval(h)
  /\ UNCHANGED <<channel, call, clock, kept>>

StopHeartbeat ==
  /\ pc = "idle"
  /\ enabled' = FALSE /\ interval' = 0 /\ hours' = 0
  /\ UNCHANGED <<channel, call, clock, last, configured, since, kept>>

(* A mutant of HeartbeatDue: the clock is compared with a deadline. *)
HeartbeatDueDeadline == enabled /\ clock >= (last + interval) % Wrap

(* heartbeatDue() *)
HeartbeatDue == enabled /\ interval # 0 /\ (clock - last) % Wrap >= interval

Tick ==
  /\ clock' = (clock + 1) % Wrap
  /\ since' = IF since = 2 * Wrap THEN since ELSE since + 1
  /\ UNCHANGED <<channel, call, last, interval, configured, enabled, hours, kept>>

Next ==
  \/ Ride \/ RideEnds \/ Bare
  \/ Post \/ PostFails \/ Delivered \/ CloseDiagChannel
  \/ CheckIn \/ CheckInEnds
  \/ StartHeartbeat \/ SetHeartbeatInterval \/ StopHeartbeat
  \/ Tick

Spec == Init /\ [][Next]_vars

-----------------------------------------------------------------------------
(* Properties. *)

(* Every variable keeps its type. *)
TypeOK ==
  /\ open \in BOOLEAN /\ links \in Nat /\ kept \in BOOLEAN
  /\ pc \in {"idle", "ride", "bare", "post", "checkin"}
  /\ owned \in BOOLEAN /\ mode \in Modes /\ beat \in BOOLEAN /\ attempt \in 0..1
  /\ clock \in 0..(Wrap - 1) /\ last \in 0..(Wrap - 1)
  /\ interval \in 0..(Wrap - 1)
  /\ configured \in BOOLEAN /\ enabled \in BOOLEAN
  /\ hours \in 0..MaxHours /\ since \in 0..(2 * Wrap)

(* The hooks bring up one link at a time and take it down once, whichever  *)
(* calls nest around a batch.                                              *)
HooksAlternate == links = IF open THEN 1 ELSE 0

(* A channel that KEEP_OPEN left open stays open over uploads, self-tests  *)
(* and updates, until a diagnostic that closes it, a heartbeat, or         *)
(* closeDiagChannel().                                                     *)
KeptStaysOpen == kept => open

(* Between calls the link is up only for a batch: the radio is not left    *)
(* powered by a call that failed.                                          *)
NotLeftOpen == pc = "idle" /\ ~kept => ~open

(* A heartbeat is never due before the hours asked for, or the cap, have   *)
(* passed since the schedule's base, over a wrap of millis() too.          *)
NeverEarly ==
  HeartbeatDue => \/ since >= hours * MsPerHour
                  \/ hours > CapHours /\ since >= CapHours * MsPerHour

(* And it is due from then on, for as long as less than one wrap passed.   *)
DueUntilWrap == enabled /\ since \in interval..(Wrap - 1) => HeartbeatDue

(* heartbeatDue() on a clock that wraps: neither early nor, within a wrap  *)
(* of the last delivery, forgotten.                                        *)
OnTime == NeverEarly /\ DueUntilWrap
=============================================================================
