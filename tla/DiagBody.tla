------------------------------- MODULE DiagBody -------------------------------
(***************************************************************************)
(* The bodies that iLabs_nrf52_devmgmt.cpp posts: a diagnostic, whose      *)
(* message is escaped and cut to fit, a caller's own JSON, a heartbeat and *)
(* a check-in, which fit or are not sent.  A body must be JSON and fit     *)
(* what the transport can send in one request: "a diag body can't be       *)
(* shrink-retried like a log chunk".                                       *)
(*                                                                         *)
(* A diagnostic is built byte by byte; what matters of a byte of the       *)
(* message is whether JSON has to escape it.                               *)
(***************************************************************************)
EXTENDS Integers, Sequences, FiniteSets

CONSTANTS
  LeadIn,          \* 16: {"lvl":N,"msg":"
  CapDefault,      \* 512
  CapBuffer,       \* 760: of the local buffers
  CapMin,          \* 20
  PostMaxes,       \* max_body_bytes of setUploadTransport(): 0 is undeclared
  Lens             \* lengths of the other bodies

ASSUME DiagAssumption ==
  /\ LeadIn \in Nat /\ CapMin \in Nat /\ LeadIn + 4 <= CapMin
  /\ CapDefault \in Nat /\ CapBuffer \in Nat /\ CapDefault <= CapBuffer
  /\ PostMaxes \subseteq Nat /\ Lens \subseteq Nat \ {0, 1}

VARIABLES
  postMax,         \* s_post_max
  message,         \* history: the bytes of msg looked at so far
  text,            \* body[LeadIn .. o)
  posted           \* what the call came to: "building", "posted" or "refused"
                   \* and for "posted" how many bytes, and of which kind

diagVars == <<postMax, message, text, posted>>

Chars == {"plain", "quote", "backslash", "control"}

Building == [ result |-> "building", kind |-> "diagnostic", len |-> 0 ]
Refuse(kind) == posted' = [ result |-> "refused", kind |-> kind, len |-> 0 ]
PostBody(kind, n) == posted' = [ result |-> "posted", kind |-> kind, len |-> n ]

DiagInit ==
  /\ postMax \in PostMaxes
  /\ message = <<>> /\ text = <<>>
  /\ posted = Building

(* diagBodyCap() *)
DiagBodyCap ==
  LET declared == IF postMax = 0 THEN CapDefault ELSE postMax
  IN  IF declared > CapBuffer THEN CapBuffer ELSE declared

-----------------------------------------------------------------------------
Escaped(c) == c \in {"quote", "backslash"}

(* What the byte becomes; control characters become blanks. *)
BytesOf(c) ==
  (IF Escaped(c) THEN <<"backslash">> ELSE <<>>) \o <<IF c = "control" THEN "blank" ELSE c>>

(* A mutant of Room: the byte's escape is not counted. *)
RoomForOne(c) == LeadIn + Len(text) + 1 + 2 < DiagBodyCap

(* The byte fits, and the end of the object behind it. *)
Room(c) == LeadIn + Len(text) + Len(BytesOf(c)) + 2 < DiagBodyCap

(* The message has ended or been cut: the object is closed. *)
Close ==
  /\ text' = text \o <<"quote", "brace">>
  /\ PostBody("diagnostic", LeadIn + Len(text'))

(* buildDiagJson(): there is no room for any message. *)
TooSmall ==
  /\ posted = Building /\ message = <<>>
  /\ DiagBodyCap < CapMin
  /\ Refuse("diagnostic")
  /\ UNCHANGED <<postMax, message, text>>

(* A round of its loop. *)
PutChar(c) ==
  /\ posted = Building /\ DiagBodyCap >= CapMin
  /\ message' = Append(message, c)
  /\ IF Room(c) THEN text' = text \o BytesOf(c) /\ UNCHANGED posted ELSE Close
  /\ UNCHANGED postMax

(* The message ends. *)
MessageEnds ==
  /\ posted = Building /\ DiagBodyCap >= CapMin
  /\ Close
  /\ UNCHANGED <<postMax, message>>

(* postDiagnosticJson(): n bytes. *)
PostDiagnosticJson(n) ==
  /\ posted = Building /\ message = <<>>
  /\ IF n > DiagBodyCap THEN Refuse("json") ELSE PostBody("json", n)
  /\ UNCHANGED <<postMax, message, text>>

(* sendHeartbeat(): the object has n bytes; snprintf() needs one more. *)
SendHeartbeat(n) ==
  /\ posted = Building /\ message = <<>>
  /\ IF n >= DiagBodyCap THEN Refuse("heartbeat") ELSE PostBody("heartbeat", n)
  /\ UNCHANGED <<postMax, message, text>>

(* checkIn(): the heartbeat's closing brace gives way to m bytes of        *)
(* acknowledgement.                                                        *)
CheckInBody(n, m) ==
  /\ posted = Building /\ message = <<>>
  /\ IF n >= DiagBodyCap \/ m >= DiagBodyCap - (n - 1) THEN Refuse("checkin")
     ELSE PostBody("checkin", n - 1 + m)
  /\ UNCHANGED <<postMax, message, text>>

(* The next call; the transport may have been registered anew. *)
AnotherBody ==
  /\ posted # Building
  /\ postMax' \in PostMaxes
  /\ message' = <<>> /\ text' = <<>>
  /\ posted' = Building

DiagNext ==
  \/ AnotherBody
  \/ TooSmall \/ MessageEnds
  \/ \E c \in Chars : PutChar(c)
  \/ \E n \in Lens : \/ PostDiagnosticJson(n) \/ SendHeartbeat(n)
                     \/ \E m \in Lens : CheckInBody(n, m)

DiagSpec == DiagInit /\ [][DiagNext]_diagVars

-----------------------------------------------------------------------------
(* Properties. *)

(* What a JSON reader makes of the string from byte i on: its characters,  *)
(* or nothing if it does not end where the object does.                    *)
Read ==
  LET from[i \in 1..(Len(text) + 1)] ==
        IF i > Len(text) THEN <<"unterminated">>
        ELSE CASE text[i] = "backslash" ->
                    IF i < Len(text) /\ text[i + 1] \in {"quote", "backslash"}
                      THEN <<text[i + 1]>> \o from[i + 2] ELSE <<"bad escape">>
               [] text[i] = "quote" ->
                    IF i + 1 = Len(text) /\ text[i + 1] = "brace" THEN <<>>
                    ELSE <<"ends early">>
               [] text[i] = "control" -> <<"not escaped">>
               [] OTHER -> <<text[i]>> \o from[i + 1]
  IN  from[1]

Meant == [ i \in DOMAIN message |-> IF message[i] = "control" THEN "blank" ELSE message[i] ]

(* A body that is posted fits one request of the transport, and a          *)
(* diagnostic's is an object whose string is what was to be said, or as    *)
(* much of its beginning as fits: never cut inside an escape, never with   *)
(* a quote of the message for its end.                                     *)
BodyIsJson ==
  posted.result = "posted" =>
    /\ postMax # 0 => posted.len <= postMax
    /\ posted.len <= CapBuffer
    /\ posted.kind = "diagnostic" =>
         /\ posted.len < DiagBodyCap
         /\ Read = Meant \/ /\ Read = SubSeq(Meant, 1, Len(Meant) - 1)
                            /\ posted.len >= DiagBodyCap - 2
=============================================================================
