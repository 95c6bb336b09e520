----------------------------- MODULE LogUpload -----------------------------
(***************************************************************************)
(* ilabs_log_upload_run() of ilabs_log_upload.cpp, between a log store the *)
(* sketch owns and a server that appends every member it is sent.  A run   *)
(* freezes the store, then repeats: read a chunk, compress it, shrink it   *)
(* until it fits one request, POST it, and move the high-water once the    *)
(* server confirms the byte count.                                         *)
(*                                                                         *)
(* A log byte is its position since the first boot.  The store's offsets   *)
(* count from its oldest surviving byte (`first`), so they slide down when *)
(* it prunes.  Compression is the size it comes to.                        *)
(***************************************************************************)
EXTENDS Integers

CONSTANTS
  ChunkRawMax,     \* CHUNK_RAW_MAX
  MinRaw,          \* MIN_RAW
  Frame,           \* gzip framing and the bits around a deflate block
  MaxBody,         \* the body cap the transport declared
  CapFloor,        \* MEMBER_CAP_FLOOR
  MaxChunks,       \* MAX_CHUNKS_PER_CALL
  MaxAttempts,     \* POST_MAX_ATTEMPTS
  ReplyLen,        \* length of the server's reply
  KeyEnd,          \* where the number of its "received" key ends
  ReplyBuf,        \* sizeof(ResponseCtx::buf)
  MaxLog,          \* bound: bytes ever logged
  Faults           \* which of "read", "memory", "lost", "ghost", "refused",
                   \* "cut", "reply", "power"

VARIABLES
  written,         \* store: bytes ever logged
  first,           \* store: bytes pruned
  mark,            \* store: the persisted high-water
  frozen,          \* store: between begin() and end()
  archived,        \* server: bytes its archive holds
  repeated,        \* server: bytes it holds more than once
  pc,              \* where the run is
  start,           \* cur_start / start_offset
  end,             \* end_snapshot
  chunks,          \* chunk_i
  take,            \* raw_len
  try,             \* try_len
  size,            \* out_len
  attempt,         \* POSTs of this member
  seen, kept,      \* reply bytes received, and kept in ctx.buf
  intact,          \* nothing of the reply has been dropped so far
  result,          \* result->status
  doubted          \* history: delivered bytes whose confirmation was lost

store  == <<written, first, mark, frozen>>
server == <<archived, repeated>>
chunk  == <<start, take, try, size, attempt>>
reply  == <<seen, kept, intact>>
vars == <<store, server, pc, end, chunks, chunk, reply, result, doubted>>

(* Static Huffman codes take at most nine bits a byte. *)
MaxOut(n) == Frame + n + (n + 7) \div 8

(* A mutant of MemberCap: the transport's cap is taken as it is. *)
MemberCapUnclamped == MaxBody

MemberCap == IF MaxBody < CapFloor THEN CapFloor ELSE MaxBody

ASSUME UploadAssumption ==
  /\ ChunkRawMax \in Nat \ {0} /\ MinRaw \in Nat \ {0}
  /\ Frame \in Nat /\ MaxBody \in Nat /\ CapFloor \in Nat
  /\ MaxOut(MinRaw) <= CapFloor
  /\ MaxChunks \in Nat /\ MaxAttempts \in Nat \ {0}
  /\ ReplyLen \in Nat \ {0} /\ KeyEnd \in 1..ReplyLen /\ ReplyBuf \in Nat
  /\ MaxLog \in Nat
  /\ Faults \subseteq {"read", "memory", "lost", "ghost", "refused", "cut",
                       "reply", "power"}

Smaller(a, b) == IF a < b THEN a ELSE b
Larger(a, b) == IF a < b THEN b ELSE a

Init ==
  /\ written = 0 /\ first = 0 /\ mark = 0 /\ frozen = FALSE
  /\ archived = {} /\ repeated = {}
  /\ pc = "idle"
  /\ start = 0 /\ end = 0 /\ chunks = 0
  /\ take = 0 /\ try = 0 /\ size = 0 /\ attempt = 0
  /\ seen = 0 /\ kept = 0 /\ intact = TRUE
  /\ result = "none"
  /\ doubted = {}

-----------------------------------------------------------------------------
(* The store, as the header asks of it: logging goes on during a run, and  *)
(* nothing is pruned between begin() and end().                            *)

Log ==
  /\ written < MaxLog
  /\ written' = written + 1
  /\ UNCHANGED <<first, mark, frozen, server, pc, end, chunks, chunk, reply,
                 result, doubted>>

Prune ==
  /\ ~frozen
  /\ first' \in (first + 1)..written
  /\ mark' = Larger(mark, first')
  /\ UNCHANGED <<written, frozen, server, pc, end, chunks, chunk, reply,
                 result, doubted>>

Total == written - first
Uploaded == mark - first

-----------------------------------------------------------------------------
(* ilabs_log_upload_run() *)

(* The locals of a run go with it. *)
LocalsGone ==
  /\ end' = 0 /\ chunks' = 0
  /\ start' = 0 /\ take' = 0 /\ try' = 0 /\ size' = 0 /\ attempt' = 0
  /\ seen' = 0 /\ kept' = 0 /\ intact' = TRUE

(* A mutant of Return: only a run that succeeds releases the store. *)
ReturnKeepsFrozen(status) ==
  /\ pc' = "idle"
  /\ frozen' = (frozen /\ status # "ok")
  /\ result' = status
  /\ LocalsGone
  /\ UNCHANGED <<written, first>>

(* Every exit after begin() calls end(). *)
Return(status) ==
  /\ pc' = "idle"
  /\ frozen' = FALSE
  /\ result' = status
  /\ LocalsGone
  /\ UNCHANGED <<written, first>>

(* A mutant of NothingNew: a single byte is not worth a run. *)
NothingNewButOne == Total <= Uploaded + 1

NothingNew == Total <= Uploaded

(* The check before begin(). *)
Run ==
  /\ pc = "idle"
  /\ IF NothingNew THEN pc' = "idle" /\ result' = "no_new_data"
                   ELSE pc' = "begin" /\ result' = "none"
  /\ UNCHANGED <<store, server, end, chunks, chunk, reply, doubted>>

(* A mutant of Freeze: begin() is not called. *)
FreezeNothing ==
  /\ pc = "begin"
  /\ IF NothingNew
       THEN Return("no_new_data")
       ELSE /\ pc' = "next"
            /\ end' = Total
            /\ chunks' = 0
            /\ UNCHANGED <<written, first, frozen, chunk, reply, result>>
  /\ UNCHANGED <<mark, server, doubted>>

(* begin(), and the snapshot of the end. *)
Freeze ==
  /\ pc = "begin"
  /\ IF NothingNew
       THEN Return("no_new_data")
       ELSE /\ frozen' = TRUE
            /\ pc' = "next"
            /\ end' = Total
            /\ chunks' = 0
            /\ UNCHANGED <<written, first, chunk, reply, result>>
  /\ UNCHANGED <<mark, server, doubted>>

More == Uploaded < end /\ chunks < MaxChunks

NextChunk ==
  /\ pc = "next" /\ More
  /\ start' = Uploaded
  /\ take' = Smaller(end - Uploaded, ChunkRawMax)
  /\ try' = take'
  /\ attempt' = 0
  /\ chunks' = chunks + 1
  /\ pc' = "read"
  /\ UNCHANGED <<store, server, end, size, reply, result, doubted>>

Finish ==
  /\ pc = "next" /\ ~More
  /\ Return("ok")
  /\ UNCHANGED <<mark, server, doubted>>

-----------------------------------------------------------------------------
(* uploadOneChunk() *)

(* malloc() fails, or nothing can be read. *)
NoMember ==
  /\ pc = "read"
  /\ \/ "memory" \in Faults /\ try = take
     \/ "read" \in Faults
  /\ Return("compress_fail")
  /\ UNCHANGED <<mark, server, doubted>>

(* A read error part of the way makes a shorter chunk. *)
Read ==
  /\ pc = "read"
  /\ try' \in IF "read" \in Faults THEN 1..try ELSE {try}
  /\ pc' = "compress"
  /\ UNCHANGED <<store, server, end, chunks, start, take, size, attempt, reply,
                 result, doubted>>

(* Toward 97% of the cap, shorter at least by one, and never below MIN_RAW. *)
Proportional(n, s) == (n * MemberCap * 97) \div (s * 100)

(* A mutant of Shrunk: a member that does not fit is tried again as it is. *)
ShrunkNot(n, s) == n

Shrunk(n, s) == Larger(MinRaw, Smaller(n - 1, Proportional(n, s)))

Compress ==
  /\ pc = "compress"
  /\ size' \in (Frame + 1)..MaxOut(try)
  /\ IF size' <= MemberCap \/ try <= MinRaw
       THEN pc' = "post" /\ UNCHANGED try
       ELSE pc' = "read" /\ try' = Shrunk(try, size')
  /\ UNCHANGED <<store, server, end, chunks, start, take, attempt, reply,
                 result, doubted>>

(* The log bytes of the member being sent, as the store counted them when  *)
(* it was read.                                                            *)
InFlight == (first + start + 1)..(first + start + try)

Append ==
  /\ archived' = archived \cup InFlight
  /\ repeated' = repeated \cup (archived \cap InFlight)

TryAgain ==
  IF attempt + 1 < MaxAttempts
    THEN /\ attempt' = attempt + 1
         /\ UNCHANGED <<frozen, pc, result, written, first, end, chunks,
                        start, take, try, size, reply>>
    ELSE Return("http_fail")

(* The transport reports a failure (<= 0).  By its contract nothing was    *)
(* delivered; a "ghost" is a request that was.                             *)
PostFails ==
  /\ pc = "post"
  /\ \/ "lost" \in Faults /\ UNCHANGED <<server, doubted>>
     \/ "ghost" \in Faults /\ Append /\ doubted' = doubted \cup InFlight
  /\ TryAgain
  /\ UNCHANGED mark

(* The server answers, but not 2xx; or it answers 2xx for a body that was  *)
(* cut on the way, and reports that it received less.  It appends what it  *)
(* got of a cut one, which is no member: none of its bytes count as        *)
(* archived.                                                               *)
PostRefused ==
  /\ pc = "post"
  /\ \/ "refused" \in Faults /\ Return("server_reject")
     \/ "cut" \in Faults /\ Return("mismatch")
  /\ UNCHANGED <<mark, server, doubted>>

(* The server appends the member and starts to answer. *)
PostStored ==
  /\ pc = "post"
  /\ Append
  /\ pc' = "reply"
  /\ UNCHANGED <<store, end, chunks, chunk, reply, result, doubted>>

(* responseCb(): a piece that does not fit in what is left of the buffer   *)
(* is dropped.                                                             *)
ReplyChunk ==
  /\ pc = "reply"
  /\ \E n \in 1..(ReplyLen - seen) :
       /\ seen' = seen + n
       /\ IF kept + n < ReplyBuf
            THEN kept' = kept + n /\ UNCHANGED intact
            ELSE intact' = (intact /\ seen >= KeyEnd) /\ UNCHANGED kept
  /\ UNCHANGED <<store, server, pc, end, chunks, chunk, result, doubted>>

(* parseReceivedField() finds the whole number. *)
Confirmed == intact /\ seen >= KeyEnd

(* Mutants of Consumed: what was asked for, not what was sent; one byte    *)
(* too few.                                                                *)
ConsumedTake == start + take
ConsumedLess == start + try - 1

Consumed == start + try

ReplyEnds ==
  /\ pc = "reply"
  /\ seen = ReplyLen \/ "reply" \in Faults
  /\ IF Confirmed
       THEN /\ mark' = first + Consumed
            /\ pc' = "next"
            /\ seen' = 0 /\ kept' = 0 /\ intact' = TRUE
            /\ UNCHANGED <<frozen, result, written, first, end, chunks, chunk, doubted>>
       ELSE /\ Return("mismatch")
            /\ doubted' = doubted \cup InFlight
            /\ UNCHANGED mark
  /\ UNCHANGED server

(* Power fails; the store and its high-water survive, the freeze does not. *)
PowerLoss ==
  /\ "power" \in Faults
  /\ pc # "idle"
  /\ doubted' = IF pc = "reply" THEN doubted \cup InFlight ELSE doubted
  /\ Return("none")
  /\ UNCHANGED <<mark, server>>

Step ==
  \/ Freeze \/ NextChunk \/ Finish
  \/ NoMember \/ Read \/ Compress
  \/ PostFails \/ PostRefused \/ PostStored
  \/ ReplyChunk \/ ReplyEnds

Next == Log \/ Prune \/ Run \/ Step \/ PowerLoss

Spec == Init /\ [][Next]_vars

(* A run is synchronous code over a transport that returns.  The sketch    *)
(* triggers a run again and again ("THE APPLICATION owns session-level     *)
(* retry").                                                                *)
FairSpec == Spec /\ WF_vars(Step) /\ WF_vars(Run)

-----------------------------------------------------------------------------
(* Properties. *)

(* Every variable keeps its type and the store's counters their order. *)
TypeOK ==
  /\ written \in 0..MaxLog /\ mark \in 0..written /\ first \in 0..mark
  /\ frozen \in BOOLEAN
  /\ archived \subseteq 1..written /\ repeated \subseteq archived
  /\ doubted \subseteq archived
  /\ pc \in {"idle", "begin", "next", "read", "compress", "post", "reply"}
  /\ start \in Nat /\ end \in Nat /\ chunks \in Nat
  /\ take \in Nat /\ try \in Nat /\ size \in Nat /\ attempt \in 0..MaxAttempts
  /\ seen \in 0..ReplyLen /\ kept \in Nat /\ intact \in BOOLEAN
  /\ result \in {"none", "no_new_data", "ok", "compress_fail", "http_fail",
                 "server_reject", "mismatch"}

(* Every byte below the high-water that the store has not pruned is in the *)
(* server's archive: no shrink, short read, retry, prune or power loss     *)
(* moves src->mark() over a byte that was not delivered.                   *)
MarkedIsArchived == (first + 1)..mark \subseteq archived

(* A byte is archived twice only if a delivered member's confirmation was  *)
(* lost: a retry or a later run never repeats what was confirmed ("each    *)
(* advancing src->mark() so a power cut mid-run doesn't re-send confirmed  *)
(* bytes", ilabs_log_upload.h).                                            *)
OnlyDoubtedRepeat == repeated \subseteq doubted

(* Whatever the data compresses to, a member that is sent fits one request *)
(* ("the loop always terminates with member <= cap").                      *)
MemberFits == pc \in {"post", "reply"} => size <= MemberCap

(* The store is frozen while a run reads it and at no other time ("end()   *)
(* releases it on every exit path").                                       *)
FrozenWhileReading == frozen <=> pc \notin {"idle", "begin"}

(* A run returns, whatever fails. *)
Returns == (pc # "idle") ~> (pc = "idle")

(* As long as runs keep ending well, whatever else fails between them, no  *)
(* byte is left behind: "ok" and "no new data" are never said over a byte  *)
(* that stays in the store.                                                *)
EndsWell == result \in {"ok", "no_new_data"}

EverythingArrives ==
  []<>EndsWell =>
    \A b \in 1..MaxLog : (b <= written) ~> (b \in archived \/ b <= first)

Delivery == INSTANCE LogDelivery

(* The upload implements at-least-once delivery behind the high-water. *)
IsLogDelivery == Delivery!Spec
=============================================================================
