------------------------------ MODULE Responses ------------------------------
(***************************************************************************)
(* Two calls whose result is made by a chunk callback: the transport       *)
(* self-test (ilabs_fota_test.cpp), which compares a body with the pattern *)
(* byte[N] = N & 0xFF, and checkIn() (iLabs_nrf52_devmgmt.cpp), which      *)
(* keeps the reply of a POST in the caller's buffer.  The transport may    *)
(* lose or repeat bytes, corrupt them, and stop anywhere.                  *)
(***************************************************************************)
EXTENDS Integers, Sequences, FiniteSets, FiniteSetsExt

CONSTANTS
  Period,          \* 256: the pattern repeats
  LogBudget,       \* 16: mismatches looked at before the download is aborted
  CmdCap,          \* cmd_cap
  BodyMax,         \* bound: bytes handed over in one response
  PieceMax         \* bound: bytes of one chunk

ASSUME ResponsesAssumption ==
  Period \in Nat \ {0, 1} /\ LogBudget \in Nat \ {0, 1} /\ CmdCap \in Nat
  /\ PieceMax \in Nat

VARIABLES
  request,         \* "none", or the call under way: "test" or "checkin"
  at,              \* offset in the server's file of the next byte
  taken,           \* history: the bytes handed over, as [from, bad]
  cumulative,      \* cumulative_bytes
  mismatches,      \* mismatch_count
  firstOff,        \* first_mismatch_off
  aborted,         \* test_chunk_cb() returned false
  cmd,             \* cmd_buf[0 .. ctx.len)
  answer           \* what the last call returned

tally == <<cumulative, mismatches, firstOff, aborted>>
responseVars == <<request, at, taken, tally, cmd, answer>>

NoAnswer == [ call |-> "none", pass |-> FALSE, count |-> 0, first |-> 0, ret |-> 0 ]

ResponsesInit ==
  /\ request = "none" /\ at = 0 /\ taken = <<>>
  /\ cumulative = 0 /\ mismatches = 0 /\ firstOff = 0 /\ aborted = FALSE
  /\ cmd = <<>> /\ answer = NoAnswer

(* ilabs_fota_test_run() or checkIn(), up to the transport. *)
Ask(call) ==
  /\ request = "none"
  /\ request' = call
  /\ at' = 0 /\ taken' = <<>>
  /\ cumulative' = 0 /\ mismatches' = 0 /\ firstOff' = 0 /\ aborted' = FALSE
  /\ cmd' = <<>> /\ answer' = NoAnswer

(* A byte of the file, as it arrives. *)
Value(byte) == (byte.from + (IF byte.bad THEN 1 ELSE 0)) % Period

(* A mutant of Expected: the pattern restarts with every chunk.             *)
ExpectedInChunk(i) == (i - 1) % Period

(* (uint8_t)(off & 0xFF), for the i-th byte of a chunk. *)
Expected(i) == (cumulative + i - 1) % Period

(* test_chunk_cb(): it gives up at the mismatch that exhausts the budget,  *)
(* and does not count the bytes of that chunk.                             *)
TestChunk(chunk) ==
  LET wrong == { i \in DOMAIN chunk : Value(chunk[i]) # Expected(i) }
      seen == mismatches + Cardinality(wrong)
  IN  /\ firstOff' = IF mismatches = 0 /\ wrong # {} THEN cumulative + Min(wrong) - 1
                     ELSE firstOff
      /\ IF seen >= LogBudget
           THEN mismatches' = LogBudget /\ aborted' = TRUE /\ UNCHANGED cumulative
           ELSE /\ mismatches' = seen /\ cumulative' = cumulative + Len(chunk)
                /\ UNCHANGED aborted

(* A mutant of Captured: the last byte of the buffer is kept free, as the  *)
(* callback that reads text does.                                          *)
CapturedText(chunk) ==
  cmd \o SubSeq(chunk, 1, IF Len(chunk) < CmdCap - 1 - Len(cmd) THEN Len(chunk)
                          ELSE CmdCap - 1 - Len(cmd))

(* checkinRespCb(): bytes past the capacity are dropped. *)
Captured(chunk) ==
  cmd \o SubSeq(chunk, 1, IF Len(chunk) < CmdCap - Len(cmd) THEN Len(chunk)
                          ELSE CmdCap - Len(cmd))

(* A chunk of n bytes: those at `at`, or, where some were lost or repeated *)
(* in between, those at another offset; one of them may be corrupt.        *)
Arrives(n) ==
  /\ request # "none" /\ ~aborted
  /\ Len(taken) + n <= BodyMax
  /\ \E from \in { o \in {at - 1, at, at + 1, at + Period} : o >= 0 }, bad \in 0..n :
       LET chunk == [ i \in 1..n |-> [ from |-> from + i - 1, bad |-> i = bad ] ]
       IN  /\ at' = from + n
           /\ taken' = taken \o chunk
           /\ IF request = "test" THEN TestChunk(chunk) /\ UNCHANGED cmd
              ELSE cmd' = Captured(chunk) /\ UNCHANGED tally
  /\ UNCHANGED <<request, answer>>

Returns(result) ==
  /\ request' = "none"
  /\ answer' = result
  /\ UNCHANGED <<at, taken, tally, cmd>>

(* The transport returns, whatever the status. *)
TestEnds ==
  /\ request = "test"
  /\ Returns([ call |-> "test", pass |-> cumulative > 0 /\ mismatches = 0,
               count |-> mismatches, first |-> firstOff, ret |-> 0 ])

(* Any status of the server's, or a transport error. *)
CheckInReturns ==
  /\ request = "checkin"
  /\ \E ret \in {Len(cmd), -1} :
       Returns([ call |-> "checkin", pass |-> FALSE, count |-> 0, first |-> 0,
                 ret |-> ret ])

ResponsesNext ==
  \/ \E call \in {"test", "checkin"} : Ask(call)
  \/ \E n \in 1..PieceMax : Arrives(n)
  \/ TestEnds \/ CheckInReturns

ResponsesSpec == ResponsesInit /\ [][ResponsesNext]_responseVars

-----------------------------------------------------------------------------
(* Properties. *)

Smallest(a, b) == IF a < b THEN a ELSE b

(* The bytes that are not where the file has them: a corrupt one, and all  *)
(* that follow a loss or a repetition that is not a multiple of Period.    *)
Misplaced ==
  { i \in DOMAIN taken :
      LET off == taken[i].from + (IF taken[i].bad THEN 1 ELSE 0)
      IN  off % Period # (i - 1) % Period }

(* The self-test's verdict, for every way to cut the body into chunks: it  *)
(* passes exactly the non-empty bodies with every byte in its place modulo *)
(* the pattern's period, it names the first byte that is not, and counts   *)
(* them up to its budget.                                                  *)
VerdictIsRight ==
  answer.call = "test" =>
    /\ answer.pass <=> taken # <<>> /\ Misplaced = {}
    /\ answer.count = Smallest(LogBudget, Cardinality(Misplaced))
    /\ Misplaced # {} => answer.first = Min(Misplaced) - 1

(* "Returns the number of command bytes captured": that many first bytes   *)
(* of the reply are in the caller's buffer, all of them if they fit it.    *)
CommandIsReply ==
  answer.call = "checkin" /\ answer.ret >= 0 =>
    /\ answer.ret = Smallest(CmdCap, Len(taken))
    /\ cmd = SubSeq(taken, 1, answer.ret)
=============================================================================
