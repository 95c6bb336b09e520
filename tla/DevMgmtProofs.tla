---------------------------- MODULE DevMgmtProofs ----------------------------
(***************************************************************************)
(* The facade for any width of the clock, any length of the hour, any cap  *)
(* that fits the clock and any interval asked for.                         *)
(***************************************************************************)
EXTENDS DevMgmt, TLAPS

(* Between calls the channel is open exactly for a batch; a call that      *)
(* rides it knows whether it must close it, a POST has it open.            *)
Session ==
  /\ HooksAlternate
  /\ pc \in {"idle", "bare", "checkin"} => (open <=> kept)
  /\ pc = "ride" => open /\ (owned <=> ~kept)
  /\ pc = "post" => open

(* The time since the base is what the two clock values differ by, give or *)
(* take the wraps the subtraction cannot see.                              *)
Elapsed ==
  \/ since = 2 * Wrap
  \/ clock - last \in {since, since - Wrap, since - 2 * Wrap}

Scheduled == interval = HoursToMs(hours) /\ (enabled => interval # 0)

IInv == TypeOK /\ Session /\ Elapsed /\ Scheduled

-----------------------------------------------------------------------------
(* Arithmetic of the clock. *)

LEMMA ModBelow ==
  ASSUME NEW x \in Nat, NEW n \in Nat, x < n
  PROVE  x % n = x
BY SMT

LEMMA ModOnce ==
  ASSUME NEW x \in Int, NEW n \in Nat, x < 0, 0 <= x + n
  PROVE  x % n = x + n
BY SMT

LEMMA ModRange ==
  ASSUME NEW x \in Int, NEW n \in Nat \ {0}
  PROVE  x % n \in 0..(n - 1)
BY SMT

LEMMA WrapPositive == Wrap \in Nat \ {0}
<1>1. CapHours * MsPerHour \in Nat
  BY DevMgmtAssumption
<1> QED BY <1>1, DevMgmtAssumption

(* The cap fits the clock: an interval is what its hours say. *)
LEMMA HoursAreMs ==
  ASSUME NEW h \in Nat
  PROVE  /\ HoursToMs(h) = (IF h > CapHours THEN CapHours ELSE h) * MsPerHour
         /\ HoursToMs(h) \in 0..(Wrap - 1)
<1> DEFINE c == IF h > CapHours THEN CapHours ELSE h
<1>1. c \in Nat /\ c <= CapHours
  BY DevMgmtAssumption
<1>2. c * MsPerHour \in Nat /\ c * MsPerHour <= CapHours * MsPerHour
  <2> HIDE DEF c
  <2>1. \A x, y, z \in Nat : x <= y => x * z <= y * z /\ x * z \in Nat
    BY SMT
  <2> QED BY <1>1, <2>1, DevMgmtAssumption
<1>3. c * MsPerHour < Wrap
  <2> HIDE DEF c
  <2>1. CapHours * MsPerHour \in Nat
    BY DevMgmtAssumption
  <2> QED BY <1>2, <2>1, DevMgmtAssumption
<1>4. (c * MsPerHour) % Wrap = c * MsPerHour
  BY <1>2, <1>3, ModBelow, WrapPositive
<1> QED BY <1>2, <1>3, <1>4, WrapPositive DEF HoursToMs

-----------------------------------------------------------------------------
(* Typing. *)

LEMMA TypeInit == Init => TypeOK
<1>1. 0 \in 0..(Wrap - 1) /\ 0 \in 0..(2 * Wrap) /\ 0 \in 0..MaxHours /\ 0 \in Nat
  BY WrapPositive, DevMgmtAssumption
<1>2. 0 \in 0..1 /\ "direct" \in Modes /\ "idle" \in {"idle", "ride", "bare", "post", "checkin"}
  BY DEF Modes
<1> QED BY <1>1, <1>2 DEF Init, TypeOK

(* A call that opens has one link afterwards, one that closes has none.    *)
LEMMA OpenLinks == HooksAlternate /\ SessionOpen => open' = TRUE /\ links' = 1
BY DEF HooksAlternate, SessionOpen

LEMMA CloseLinks == HooksAlternate /\ SessionClose => open' = FALSE /\ links' = 0
BY DEF HooksAlternate, SessionClose

LEMMA SessionInit == Init => Session
BY DEF Init, Session, HooksAlternate

LEMMA SessionStep == TypeOK /\ Session /\ [Next]_vars => Session'
<1> SUFFICES ASSUME TypeOK, Session, [Next]_vars PROVE Session'
  OBVIOUS
<1> USE DEF Session
<1>1. CASE Ride
  BY <1>1, OpenLinks DEF Ride, HooksAlternate
<1>2. CASE RideEnds
  <2>1. CASE owned
    BY <1>2, <2>1, CloseLinks DEF RideEnds, Idle, HooksAlternate
  <2>2. CASE ~owned
    BY <1>2, <2>2 DEF RideEnds, Idle, HooksAlternate, channel
  <2> QED BY <2>1, <2>2
<1>3. CASE Bare
  BY <1>3 DEF Bare, HooksAlternate, channel
<1>4. CASE Post
  BY <1>4, OpenLinks DEF Post, HooksAlternate
<1>5. ASSUME pc = "post", PostEnds PROVE Session'
  <2>1. CASE ClosesAfter
    <3>1. open' = FALSE /\ links' = 0 /\ kept' = FALSE /\ pc' = "idle"
      BY <1>5, <2>1, CloseLinks DEF PostEnds, ClosesAfter, Idle
    <3> QED BY <3>1 DEF HooksAlternate
  <2>2. CASE ~ClosesAfter
    <3>1. open' = open /\ links' = links /\ kept' = TRUE /\ pc' = "idle"
      BY <1>5, <2>2 DEF PostEnds, ClosesAfter, Idle, channel
    <3> QED BY <1>5, <3>1 DEF HooksAlternate
  <2> QED BY <2>1, <2>2
<1>6. CASE PostFails
  BY <1>5, <1>6 DEF PostFails, HooksAlternate, channel
<1>7. CASE Delivered
  BY <1>5, <1>7 DEF Delivered
<1>8. CASE CloseDiagChannel
  BY <1>8, CloseLinks DEF CloseDiagChannel, call, HooksAlternate
<1>9. CASE CheckIn
  BY <1>9 DEF CheckIn, HooksAlternate, channel
<1>10. CASE CheckInEnds
  BY <1>10 DEF CheckInEnds, HooksAlternate, channel
<1>11. CASE StartHeartbeat \/ SetHeartbeatInterval \/ StopHeartbeat \/ Tick
  <2>1. UNCHANGED <<channel, call, kept>>
    BY <1>11 DEF StartHeartbeat, SetHeartbeatInterval, StopHeartbeat, Tick
  <2> QED BY <2>1 DEF HooksAlternate, channel, call
<1>12. CASE UNCHANGED vars
  BY <1>12 DEF vars, HooksAlternate, channel, call
<1> QED BY <1>1, <1>2, <1>3, <1>4, <1>6, <1>7, <1>8, <1>9, <1>10, <1>11, <1>12 DEF Next

LEMMA TypeStep == TypeOK /\ Session /\ [Next]_vars => TypeOK'
<1> SUFFICES ASSUME TypeOK, Session, [Next]_vars PROVE TypeOK'
  OBVIOUS
<1>1. links' \in Nat
  BY SessionStep DEF Session, HooksAlternate
<1> DEFINE CallTyped == /\ open \in BOOLEAN /\ kept \in BOOLEAN
                        /\ pc \in {"idle", "ride", "bare", "post", "checkin"}
                        /\ owned \in BOOLEAN /\ mode \in Modes /\ beat \in BOOLEAN
                        /\ attempt \in 0..1
           ScheduleTyped == /\ clock \in 0..(Wrap - 1) /\ last \in 0..(Wrap - 1)
                            /\ interval \in 0..(Wrap - 1)
                            /\ configured \in BOOLEAN /\ enabled \in BOOLEAN
                            /\ hours \in 0..MaxHours /\ since \in 0..(2 * Wrap)
<1>2. CallTyped /\ ScheduleTyped
  BY DEF TypeOK
<1>3. CallTyped'
  <2> USE DEF channel, call, Modes
  <2>0. 0 \in 0..1 /\ 1 \in 0..1
    OBVIOUS
  <2>1. CASE Ride
    BY <1>2, <2>1 DEF Ride, SessionOpen
  <2>2. CASE RideEnds
    BY <1>2, <2>0, <2>2, Zenon DEF RideEnds, SessionClose, Idle
  <2>3. CASE Bare \/ CheckIn \/ CheckInEnds
    BY <1>2, <2>3 DEF Bare, CheckIn, CheckInEnds
  <2>4. CASE Post
    BY <1>2, <2>0, <2>4, Zenon DEF Post, SessionOpen
  <2>5. CASE PostFails \/ Delivered
    <3>1. CASE PostEnds
      BY <1>2, <2>0, <3>1, <2>5, Zenon
         DEF PostFails, Delivered, PostEnds, SessionClose, Idle
    <3>2. CASE ~PostEnds
      BY <1>2, <2>0, <3>2, <2>5, Zenon DEF PostFails, Delivered
    <3> QED BY <3>1, <3>2
  <2>6. CASE CloseDiagChannel
    BY <1>2, <2>6 DEF CloseDiagChannel, SessionClose
  <2>7. CASE StartHeartbeat \/ SetHeartbeatInterval \/ StopHeartbeat \/ Tick
    BY <1>2, <2>7 DEF StartHeartbeat, SetHeartbeatInterval, StopHeartbeat, Tick
  <2>8. CASE UNCHANGED vars
    BY <1>2, <2>8 DEF vars
  <2> QED BY <2>1, <2>2, <2>3, <2>4, <2>5, <2>6, <2>7, <2>8 DEF Next
<1>4. ScheduleTyped'
  <2> USE DEF schedule
  <2>1. ASSUME clock' = clock, Rebase, UNCHANGED <<interval, configured, enabled, hours>>
        PROVE  ScheduleTyped'
    BY <1>2, <2>1, WrapPositive DEF Rebase
  <2>2. ASSUME NEW h \in 0..MaxHours, SetInterval(h), configured' \in BOOLEAN, clock' = clock
        PROVE  ScheduleTyped'
    <3>1. HoursToMs(h) \in 0..(Wrap - 1)
      BY HoursAreMs, DevMgmtAssumption
    <3> QED BY <1>2, <2>2, <3>1, WrapPositive DEF SetInterval, Rebase
  <2>3. CASE UNCHANGED <<clock, schedule>>
    BY <1>2, <2>3
  <2>4. CASE Delivered
    BY <1>2, <2>1, <2>3, <2>4 DEF Delivered
  <2>5. CASE CheckInEnds
    BY <1>2, <2>1, <2>3, <2>5 DEF CheckInEnds
  <2>6. CASE StartHeartbeat
    BY <2>2, <2>6 DEF StartHeartbeat
  <2>7. CASE SetHeartbeatInterval
    BY <1>2, <2>2, <2>7 DEF SetHeartbeatInterval
  <2>8. CASE StopHeartbeat
    <3>1. 0 \in 0..(Wrap - 1) /\ 0 \in 0..MaxHours
      BY WrapPositive, DevMgmtAssumption
    <3> QED BY <1>2, <2>8, <3>1, Zenon DEF StopHeartbeat
  <2>9. CASE Tick
    <3>1. clock' \in 0..(Wrap - 1)
      BY <1>2, <2>9, ModRange, WrapPositive DEF Tick
    <3>2. since' \in 0..(2 * Wrap)
      BY <1>2, <2>9, WrapPositive DEF Tick
    <3> QED BY <1>2, <2>9, <3>1, <3>2 DEF Tick
  <2>10. CASE Ride \/ RideEnds \/ Bare \/ Post \/ PostFails \/ CloseDiagChannel \/ CheckIn
    BY <2>3, <2>10
       DEF Ride, RideEnds, Bare, Post, PostFails, CloseDiagChannel, CheckIn
  <2>11. CASE UNCHANGED vars
    BY <2>3, <2>11 DEF vars
  <2> QED BY <2>4, <2>5, <2>6, <2>7, <2>8, <2>9, <2>10, <2>11 DEF Next
<1> QED BY <1>1, <1>3, <1>4 DEF TypeOK

-----------------------------------------------------------------------------
(* The schedule. *)

LEMMA ScheduleInit == Init => Elapsed /\ Scheduled
<1> SUFFICES ASSUME Init PROVE Elapsed /\ Scheduled
  OBVIOUS
<1>1. HoursToMs(0) = 0
  <2>1. (IF 0 > CapHours THEN CapHours ELSE 0) = 0
    BY DevMgmtAssumption
  <2> QED BY <2>1, HoursAreMs, DevMgmtAssumption
<1> QED BY <1>1 DEF Init, Elapsed, Scheduled

LEMMA ScheduleStep == IInv /\ [Next]_vars => Elapsed' /\ Scheduled'
<1> SUFFICES ASSUME IInv, [Next]_vars PROVE Elapsed' /\ Scheduled'
  OBVIOUS
<1> USE DEF schedule
<1>1. /\ clock \in 0..(Wrap - 1) /\ last \in 0..(Wrap - 1) /\ since \in 0..(2 * Wrap)
      /\ Elapsed /\ Scheduled /\ Wrap \in Nat \ {0}
  BY WrapPositive DEF IInv, TypeOK
<1>2. ASSUME clock' = clock, Rebase PROVE Elapsed'
  BY <1>1, <1>2 DEF Rebase, Elapsed
<1>3. CASE UNCHANGED <<clock, last, since, interval, enabled, hours>>
  BY <1>1, <1>3 DEF Elapsed, Scheduled, HoursToMs
<1>4. CASE Delivered
  BY <1>1, <1>2, <1>3, <1>4 DEF Delivered, Scheduled, HoursToMs
<1>5. CASE CheckInEnds
  BY <1>1, <1>2, <1>3, <1>5 DEF CheckInEnds, Scheduled, HoursToMs
<1>6. CASE StartHeartbeat
  BY <1>2, <1>6 DEF StartHeartbeat, SetInterval, Scheduled, HoursToMs
<1>7. CASE SetHeartbeatInterval
  BY <1>2, <1>7 DEF SetHeartbeatInterval, SetInterval, Scheduled, HoursToMs
<1>8. CASE StopHeartbeat
  <2>1. HoursToMs(0) = 0
    <3>1. (IF 0 > CapHours THEN CapHours ELSE 0) = 0
      BY DevMgmtAssumption
    <3> QED BY <3>1, HoursAreMs, DevMgmtAssumption
  <2>2. Elapsed'
    BY <1>1, <1>8 DEF StopHeartbeat, Elapsed
  <2>3. Scheduled'
    BY <1>8, <2>1 DEF StopHeartbeat, Scheduled, HoursToMs
  <2> QED BY <2>2, <2>3
<1>9. CASE Tick
  <2>1. clock' = IF clock = Wrap - 1 THEN 0 ELSE clock + 1
    <3>1. CASE clock = Wrap - 1
      <4>1. Wrap % Wrap = 0
        BY <1>1, SMT
      <4>2. clock + 1 = Wrap
        BY <1>1, <3>1
      <4> QED BY <1>9, <3>1, <4>1, <4>2 DEF Tick
    <3>2. CASE clock # Wrap - 1
      <4>1. clock + 1 \in Nat /\ clock + 1 < Wrap
        BY <1>1, <3>2
      <4> QED BY <1>1, <1>9, <3>2, <4>1, ModBelow DEF Tick
    <3> QED BY <3>1, <3>2
  <2>2. last' = last /\ since' = IF since = 2 * Wrap THEN since ELSE since + 1
    BY <1>9 DEF Tick
  <2>3. Elapsed'
    BY <1>1, <2>1, <2>2 DEF Elapsed
  <2> QED BY <1>1, <1>9, <2>3 DEF Tick, Scheduled, HoursToMs
<1>10. CASE Ride \/ RideEnds \/ Bare \/ Post \/ PostFails \/ CloseDiagChannel \/ CheckIn
  BY <1>3, <1>10
     DEF Ride, RideEnds, Bare, Post, PostFails, CloseDiagChannel, CheckIn
<1>11. CASE UNCHANGED vars
  BY <1>3, <1>11 DEF vars
<1> QED BY <1>4, <1>5, <1>6, <1>7, <1>8, <1>9, <1>10, <1>11 DEF Next

(* What heartbeatDue() computes: the time since the base, less whole wraps. *)
LEMMA DueIs ==
  ASSUME IInv
  PROVE  since < 2 * Wrap =>
           (clock - last) % Wrap = IF since < Wrap THEN since ELSE since - Wrap
<1> SUFFICES ASSUME since < 2 * Wrap
             PROVE  (clock - last) % Wrap = IF since < Wrap THEN since ELSE since - Wrap
  OBVIOUS
<1>1. /\ clock \in 0..(Wrap - 1) /\ last \in 0..(Wrap - 1) /\ since \in 0..(2 * Wrap)
      /\ Wrap \in Nat \ {0}
  BY WrapPositive DEF IInv, TypeOK
<1>2. clock - last \in {since, since - Wrap, since - 2 * Wrap}
  BY <1>1 DEF IInv, Elapsed
<1>3. CASE clock - last >= 0
  BY <1>1, <1>2, <1>3, ModBelow
<1>4. CASE clock - last < 0
  BY <1>1, <1>2, <1>4, ModOnce
<1> QED BY <1>1, <1>3, <1>4

-----------------------------------------------------------------------------
LEMMA SafeStep == IInv /\ [Next]_vars => IInv'
BY SessionStep, TypeStep, ScheduleStep DEF IInv

LEMMA SafeInit == Init => IInv
BY TypeInit, SessionInit, ScheduleInit DEF IInv

(* Whatever calls follow each other, and fail: hooks pair up, a batch      *)
(* keeps its channel, and nothing else leaves the radio powered.           *)
THEOREM SessionSafety ==
  Spec => [](TypeOK /\ HooksAlternate /\ KeptStaysOpen /\ NotLeftOpen)
<1>1. IInv => TypeOK /\ HooksAlternate /\ KeptStaysOpen /\ NotLeftOpen
  BY DEF IInv, TypeOK, Session, KeptStaysOpen, NotLeftOpen
<1> QED BY SafeInit, SafeStep, <1>1, PTL DEF Spec

(* A channel that KEEP_OPEN left open is open until something closes it.   *)
THEOREM KeptOpen == Spec => []KeptStaysOpen
BY SessionSafety, PTL

(* Over any wrap of the clock, a heartbeat is due from the hours asked     *)
(* for, or the cap, until a whole wrap has passed, and never earlier.      *)
THEOREM HeartbeatOnTime == Spec => []OnTime
<1>1. IInv => NeverEarly
  <2> SUFFICES ASSUME IInv, HeartbeatDue
               PROVE  \/ since >= hours * MsPerHour
                      \/ hours > CapHours /\ since >= CapHours * MsPerHour
    BY DEF NeverEarly
  <2>1. /\ since \in 0..(2 * Wrap) /\ hours \in Nat /\ Wrap \in Nat \ {0}
        /\ interval = (IF hours > CapHours THEN CapHours ELSE hours) * MsPerHour
        /\ interval \in 0..(Wrap - 1)
    BY WrapPositive, HoursAreMs, DevMgmtAssumption DEF IInv, TypeOK, Scheduled
  <2>2. since >= interval
    BY <2>1, DueIs DEF HeartbeatDue
  <2> QED BY <2>1, <2>2
<1>2. IInv => DueUntilWrap
  <2> SUFFICES ASSUME IInv, enabled, since \in interval..(Wrap - 1) PROVE HeartbeatDue
    BY DEF DueUntilWrap
  <2>1. since \in 0..(2 * Wrap) /\ interval \in 0..(Wrap - 1) /\ Wrap \in Nat \ {0}
    BY WrapPositive DEF IInv, TypeOK
  <2>2. (clock - last) % Wrap >= interval
    BY <2>1, DueIs
  <2>3. interval # 0
    BY DEF IInv, Scheduled
  <2> QED BY <2>2, <2>3 DEF HeartbeatDue
<1>3. IInv => OnTime
  BY <1>1, <1>2 DEF OnTime
<1> QED BY SafeInit, SafeStep, <1>3, PTL DEF Spec
=============================================================================
