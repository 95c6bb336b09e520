---------------------------- MODULE FotaDownload ----------------------------
(***************************************************************************)
(* ilabs_fota_download() of ilabs_fota_lte.cpp: ranged GETs deliver a      *)
(* gzip stream in pieces, ota_chunk_cb() inflates it page by page, and     *)
(* drain_output() stages it in the download slot, erasing sectors just in  *)
(* time; the slot header is programmed last, which commits the image.      *)
(*                                                                         *)
(* Bytes are abstract.  A byte of the image being downloaded is its        *)
(* position in the uncompressed stream, so a slot holds the image exactly  *)
(* when every offset holds its own number.  The compressed stream has one  *)
(* byte per byte of the image between a gzip header and a footer: where    *)
(* pieces end relative to pages, which is what starvation and rollback     *)
(* depend on, takes every alignment.  How the inflater decodes, and the    *)
(* SHA-256, are the image's attributes.                                    *)
(***************************************************************************)
EXTENDS Integers

CONSTANTS
  HeaderSize,      \* ILABS_SLOT_HEADER_SIZE
  SectorSize,      \* kSectorSize
  SlotSectors,     \* kDownloadSlotSize / kSectorSize
  OutBuf,          \* sizeof(out_buf), the page the inflater fills
  AccSize,         \* OTA_COMP_ACC_SIZE
  GzHeader, Footer,\* gzip framing around the deflate data
  Megachunk,       \* bytes asked for by one ranged GET
  MaxStalls,       \* MAX_RESUME_STALLS
  MaxPiece,        \* bound: the largest piece a transport hands over
  Images,          \* what the server may hold at the URL
  OldLens,         \* lengths of an image an earlier update left in the slot
  Faults           \* which of "flash", "power", "stall", "status", "length"

VARIABLES
  slot,            \* the download slot, cell by cell
  oldLen,          \* length of the image the slot held before this attempt
  img,             \* the image at the URL
  pc,              \* where the download is
  got,             \* result->compressed_bytes
  base,            \* compressed_bytes when the current range was requested
  promised,        \* session_content_length
  acc,             \* unconsumed bytes in comp_acc
  gz,              \* header_parsed_gz
  out,             \* uncompressed bytes taken from the inflater
  left,            \* payload bytes of the current page still to stage
  last,            \* the current page came with TINF_DONE
  qoff,            \* qspi_offset
  unerased,        \* next_unerased
  done,            \* stream_done
  perr,            \* pipeline_error
  stalls,          \* resume_stalls
  status,          \* http_status, by class
  outcome          \* what the call returned; "ok" sets slot_committed

net      == <<got, base, promised>>
inflater == <<acc, gz, out, left, last>>
staging  == <<qoff, unerased>>
ends     == <<done, perr, stalls, status>>
vars == <<slot, oldLen, img, pc, net, inflater, staging, ends, outcome>>

SlotSize == SlotSectors * SectorSize
Offsets == 0..(SlotSize - 1)

Erased == -1      \* 0xFF
Old    == -2      \* a byte of the image an earlier update left
Junk   == -3      \* anything else
Cells  == Offsets \cup {Erased, Old, Junk}

(* len: uncompressed length; header: every field check of                  *)
(* validate_slot_header() but the size; claim: payload_size; sha: the      *)
(* payload hashes to payload_sha256; damaged: the stream does not inflate. *)
ImageType == [ len : Nat, header : BOOLEAN, claim : Nat,
               sha : BOOLEAN, damaged : BOOLEAN ]

ASSUME DownloadAssumption ==
  /\ HeaderSize \in Nat \ {0} /\ SectorSize \in Nat /\ SlotSectors \in Nat \ {0}
  /\ OutBuf \in Nat \ {0} /\ AccSize \in Nat /\ GzHeader \in Nat
  /\ Footer \in Nat \ {0} /\ Megachunk \in Nat \ {0} /\ MaxPiece \in Nat
  /\ MaxStalls \in Nat
  /\ HeaderSize < SectorSize
  /\ Images \subseteq ImageType
  /\ OldLens \subseteq HeaderSize..SlotSize
  /\ Faults \subseteq {"flash", "power", "stall", "status", "length"}

Smaller(a, b) == IF a < b THEN a ELSE b

-----------------------------------------------------------------------------
(* The flash. *)

(* Programming clears bits: only an erased cell takes the new byte. *)
Programmed(from, n, first) ==
  [ o \in Offsets |->
      IF o \notin from..(from + n - 1) THEN slot[o]
      ELSE IF slot[o] = Erased THEN first + (o - from) ELSE Junk ]

Sector(from) == from..(from + SectorSize - 1)

SectorSetTo(from, cell) ==
  [ o \in Offsets |-> IF o \in Sector(from) THEN cell ELSE slot[o] ]

(* An erase that fails or is cut short leaves the sector as it was or      *)
(* unreadable: a half-erased header does not pass its CRC-16.              *)
HalfErased(from) == {slot, SectorSetTo(from, Junk)}

(* A program that fails or is cut short has written some of the bytes. *)
HalfProgrammed(from, n, first) == { Programmed(from, k, first) : k \in 0..n }

(* The bootloader looks at the header first, then at the payload. *)
OldHeader == \A o \in 0..(HeaderSize - 1) : slot[o] = Old
OldImage  == oldLen > 0 /\ \A o \in 0..(oldLen - 1) : slot[o] = Old
NewHeader == \A o \in 0..(HeaderSize - 1) : slot[o] = o
NewImage  == /\ HeaderSize + img.claim <= SlotSize
             /\ \A o \in 0..(HeaderSize + img.claim - 1) : slot[o] = o

-----------------------------------------------------------------------------
(* Derived values of ota_state_t. *)

Delivered == got - base

(* What the server has to say for the range that starts at `base`. *)
WireLen == GzHeader + img.len + Footer
InRange == Smaller(Megachunk, WireLen - base)

Remaining == img.len - out
PayloadWritten == qoff - HeaderSize
HeaderValidated == out >= HeaderSize

(* validate_slot_header() *)
HeaderAccepted == img.header /\ img.claim <= SlotSize - HeaderSize

Init ==
  /\ oldLen \in OldLens \cup {0}
  /\ slot = [ o \in Offsets |-> IF o < oldLen THEN Old ELSE Erased ]
  /\ img \in Images
  /\ pc = "idle"
  /\ got = 0 /\ base = 0 /\ promised = 0
  /\ acc = 0 /\ gz = FALSE /\ out = 0 /\ left = 0 /\ last = FALSE
  /\ qoff = HeaderSize /\ unerased = 0
  /\ done = FALSE /\ perr = FALSE /\ stalls = 0 /\ status = "none"
  /\ outcome = "none"

(* A mutant of ResetState: the sector of the slot header is taken for       *)
(* erased already.                                                         *)
ResetStatePastHeader ==
  /\ got' = 0 /\ base' = 0 /\ promised' = 0
  /\ acc' = 0 /\ gz' = FALSE /\ out' = 0 /\ left' = 0 /\ last' = FALSE
  /\ qoff' = HeaderSize /\ unerased' = SectorSize
  /\ done' = FALSE /\ perr' = FALSE /\ stalls' = 0 /\ status' = "none"
  /\ outcome' = "none"

ResetState ==
  /\ got' = 0 /\ base' = 0 /\ promised' = 0
  /\ acc' = 0 /\ gz' = FALSE /\ out' = 0 /\ left' = 0 /\ last' = FALSE
  /\ qoff' = HeaderSize /\ unerased' = 0
  /\ done' = FALSE /\ perr' = FALSE /\ stalls' = 0 /\ status' = "none"
  /\ outcome' = "none"

(* ilabs_fota_download() is called; what the slot holds becomes "old". *)
Download ==
  /\ pc = "idle"
  /\ pc' = "loop"
  /\ img' \in Images
  /\ oldLen' = IF OldImage THEN oldLen
               ELSE IF NewImage THEN HeaderSize + img.claim ELSE 0
  /\ slot' = [ o \in Offsets |->
                 IF slot[o] = Erased THEN Erased
                 ELSE IF OldImage \/ NewImage THEN Old ELSE Junk ]
  /\ ResetState

-----------------------------------------------------------------------------
(* The megachunk loop. *)

(* `done` and `perr` leave the loop before it comes round. *)
RequestRange ==
  /\ pc = "loop"
  /\ base' = got
  /\ promised' = 0
  /\ pc' = "range"
  /\ UNCHANGED <<slot, oldLen, img, got, inflater, staging, ends, outcome>>

(* A mutant of Fits: bytes still waiting in comp_acc are not counted. *)
FitsEmpty(n) == n <= AccSize

(* comp_acc has room for a piece behind the bytes not inflated yet. *)
Fits(n) == n <= AccSize - acc

(* ota_chunk_cb() on entry: record the Content-Length with the first piece *)
(* of a range, count the bytes and append them to comp_acc, if they fit.   *)
Piece ==
  /\ pc = "range" /\ ~done /\ ~perr
  /\ \E n \in 1..Smaller(MaxPiece, InRange - Delivered) :
       /\ got' = got + n
       /\ IF Fits(n)
            THEN acc' = acc + n /\ pc' = "inflate" /\ UNCHANGED perr
            ELSE perr' = TRUE /\ UNCHANGED <<acc, pc>>
  /\ IF Delivered = 0
       THEN promised' \in {InRange} \cup (IF "length" \in Faults THEN {0} ELSE {})
       ELSE UNCHANGED promised
  /\ UNCHANGED <<slot, oldLen, img, base, gz, out, left, last, staging,
                 done, stalls, status, outcome>>

(* What the range GET may return, whatever came before it.  The body of a  *)
(* refusal reaches the callback too; the attempt fails in any case, so its *)
(* bytes need not differ from the image's.                                 *)
Answer ==
  {"ok"} \cup (IF "status" \in Faults THEN {"error", "refused"} ELSE {})

(* A mutant of TransportDropped: any bytes at all pass for all of them. *)
TransportDroppedEmpty == Delivered = 0

TransportDropped == (promised > 0 /\ Delivered < promised) \/ Delivered = 0

(* The range GET returns with all of the range, some of it, or none. *)
RangeReturns ==
  /\ pc = "range"
  /\ status' \in Answer
  /\ Delivered > 0 \/ status' = "refused" \/ "stall" \in Faults
  /\ UNCHANGED <<slot, oldLen, img, net, inflater, staging, done, perr, outcome>>

Stop == perr \/ done \/ status' = "refused"
Short == Delivered < Megachunk

(* The stream is over, broken or refused; or the server's last, short      *)
(* slice ended before the stream did.                                      *)
LeaveLoop ==
  /\ RangeReturns
  /\ Stop \/ (Short /\ ~TransportDropped)
  /\ pc' = "finish"
  /\ UNCHANGED stalls

NextMegachunk ==
  /\ RangeReturns
  /\ ~Stop /\ ~Short
  /\ pc' = "loop"
  /\ UNCHANGED stalls

(* The transport dropped part of the range: go on from where it stopped. *)
Resume ==
  /\ RangeReturns
  /\ ~Stop /\ Short /\ TransportDropped /\ Delivered > 0
  /\ pc' = "loop"
  /\ stalls' = 0

(* A mutant of Stall: an empty range counts as progress. *)
StallUncounted ==
  /\ RangeReturns
  /\ ~Stop /\ Delivered = 0
  /\ stalls' = 0
  /\ pc' = "loop"

Stall ==
  /\ RangeReturns
  /\ ~Stop /\ Delivered = 0
  /\ stalls' = stalls + 1
  /\ pc' = IF stalls' > MaxStalls THEN "finish" ELSE "loop"

-----------------------------------------------------------------------------
(* ota_chunk_cb(): inflate until the source starves. *)

ParseGzipHeader ==
  /\ pc = "inflate" /\ ~gz
  /\ IF acc < GzHeader
       THEN pc' = "range" /\ UNCHANGED <<acc, gz>>
       ELSE acc' = acc - GzHeader /\ gz' = TRUE /\ UNCHANGED pc
  /\ UNCHANGED <<slot, oldLen, img, net, out, left, last, staging, ends, outcome>>

PageReady == Remaining >= OutBuf /\ acc >= OutBuf
TailReady == Remaining < OutBuf /\ acc >= Remaining + Footer

(* The call that starves is rolled back: nothing was consumed. *)
Starve ==
  /\ pc = "inflate" /\ gz
  /\ ~PageReady /\ ~TailReady
  /\ pc' = "range"
  /\ UNCHANGED <<slot, oldLen, img, net, inflater, staging, ends, outcome>>

(* A gzip header that does not parse ends the same way, one step earlier.  *)
InflateError ==
  /\ pc = "inflate" /\ gz /\ img.damaged
  /\ perr' = TRUE
  /\ pc' = "range"
  /\ UNCHANGED <<slot, oldLen, img, net, inflater, staging,
                 done, stalls, status, outcome>>

(* What drain_output() would stage of a page of n bytes: the part beyond   *)
(* the slot header.                                                        *)
PayloadPart(n) == IF out >= HeaderSize THEN n
                  ELSE IF out + n > HeaderSize THEN out + n - HeaderSize ELSE 0

(* The checks of drain_output() before it touches the flash. *)
MayStage(n) ==
  /\ out < HeaderSize /\ out + n >= HeaderSize => HeaderAccepted
  /\ PayloadPart(n) > 0 =>
       /\ qoff + PayloadPart(n) <= SlotSize
       /\ PayloadWritten + PayloadPart(n) <= img.claim

(* A page (TINF_OK, dest full) or the tail (TINF_DONE) comes out; the      *)
(* footer's CRC has been checked by then, so a damaged stream has no tail. *)
Inflate(n, footer) ==
  /\ acc' = acc - n - footer
  /\ last' = (footer > 0)
  /\ out' = out + n
  /\ IF ~MayStage(n)
       THEN pc' = "range" /\ perr' = TRUE /\ UNCHANGED <<left, done>>
     ELSE IF PayloadPart(n) > 0
       THEN pc' = "stage" /\ left' = PayloadPart(n) /\ UNCHANGED <<perr, done>>
     ELSE IF footer > 0
       THEN pc' = "range" /\ done' = TRUE /\ UNCHANGED <<left, perr>>
     ELSE UNCHANGED <<pc, left, perr, done>>
  /\ UNCHANGED <<slot, oldLen, img, net, gz, staging, stalls, status, outcome>>

InflatePage ==
  /\ pc = "inflate" /\ gz /\ PageReady
  /\ Inflate(OutBuf, 0)

InflateTail ==
  /\ pc = "inflate" /\ gz /\ TailReady /\ ~img.damaged
  /\ Inflate(Remaining, Footer)

-----------------------------------------------------------------------------
(* drain_output(): ensure_erased(), then writeDownload(). *)

Erasing == pc = "stage" /\ unerased < qoff + left
Programming == pc = "stage" /\ unerased >= qoff + left

StageFails ==
  /\ perr' = TRUE
  /\ pc' = "range"
  /\ UNCHANGED <<oldLen, img, net, inflater, staging,
                 done, stalls, status, outcome>>

EraseSector ==
  /\ Erasing /\ unerased < SlotSize
  /\ slot' = SectorSetTo(unerased, Erased)
  /\ unerased' = unerased + SectorSize
  /\ UNCHANGED <<oldLen, img, pc, net, inflater, qoff, ends, outcome>>

EraseFails ==
  /\ Erasing
  /\ \/ unerased >= SlotSize /\ UNCHANGED slot
     \/ unerased < SlotSize /\ "flash" \in Faults /\ slot' \in HalfErased(unerased)
  /\ StageFails

ProgramPage ==
  /\ Programming
  /\ slot' = Programmed(qoff, left, out - left)
  /\ qoff' = qoff + left
  /\ left' = 0
  /\ IF last THEN done' = TRUE /\ pc' = "range"
             ELSE pc' = "inflate" /\ UNCHANGED done
  /\ UNCHANGED <<oldLen, img, net, acc, gz, out, last, unerased,
                 perr, stalls, status, outcome>>

ProgramFails ==
  /\ Programming /\ "flash" \in Faults
  /\ slot' \in HalfProgrammed(qoff, left, out - left)
  /\ StageFails

-----------------------------------------------------------------------------
(* After the loop. *)

(* A mutant of Accepted: the payload may be shorter than its header says. *)
AcceptedShort ==
  ~perr /\ status = "ok" /\ done /\ HeaderValidated /\ img.sha

(* Every condition for the commit, in one place. *)
Accepted ==
  /\ ~perr
  /\ status = "ok"
  /\ done
  /\ HeaderValidated
  /\ PayloadWritten = img.claim
  /\ img.sha

Fail ==
  /\ outcome' = "failed"
  /\ pc' = "idle"
  /\ UNCHANGED <<oldLen, img, net, inflater, staging, ends>>

Reject ==
  /\ pc = "finish" /\ ~Accepted
  /\ Fail
  /\ UNCHANGED slot

(* The buffered header goes to offset 0: the commit. *)
Commit ==
  /\ pc = "finish" /\ Accepted
  /\ slot' = Programmed(0, HeaderSize, 0)
  /\ outcome' = "ok"
  /\ pc' = "idle"
  /\ UNCHANGED <<oldLen, img, net, inflater, staging, ends>>

CommitFails ==
  /\ pc = "finish" /\ Accepted /\ "flash" \in Faults
  /\ slot' \in HalfProgrammed(0, HeaderSize, 0)
  /\ Fail

(* Power fails at any point; the device boots with the slot as it is. *)
PowerLoss ==
  /\ "power" \in Faults
  /\ pc # "idle"
  /\ slot' \in IF Erasing /\ unerased < SlotSize
                 THEN HalfErased(unerased) \cup {SectorSetTo(unerased, Erased)}
               ELSE IF Programming THEN HalfProgrammed(qoff, left, out - left)
               ELSE IF pc = "finish" /\ Accepted
                 THEN HalfProgrammed(0, HeaderSize, 0)
               ELSE {slot}
  /\ pc' = "idle"
  /\ UNCHANGED <<oldLen, img>>
  /\ ResetState

(* One step of the call, once it has been made. *)
Step ==
  \/ RequestRange \/ Piece
  \/ LeaveLoop \/ NextMegachunk \/ Resume \/ Stall
  \/ ParseGzipHeader \/ Starve \/ InflateError \/ InflatePage \/ InflateTail
  \/ EraseSector \/ EraseFails \/ ProgramPage \/ ProgramFails
  \/ Reject \/ Commit \/ CommitFails

Next == Download \/ Step \/ PowerLoss

Spec == Init /\ [][Next]_vars

(* The call is synchronous and every transport and flash call it makes     *)
(* returns, so a call that is made keeps taking steps.                     *)
FairSpec == Spec /\ WF_vars(Step)

-----------------------------------------------------------------------------
(* Properties. *)

(* Every variable keeps its type and every offset stays in the slot. *)
TypeOK ==
  /\ slot \in [Offsets -> Cells]
  /\ oldLen \in 0..SlotSize
  /\ img \in Images
  /\ pc \in {"idle", "loop", "range", "inflate", "stage", "finish"}
  /\ got \in Nat /\ base \in Nat /\ promised \in Nat
  /\ acc \in 0..AccSize /\ out \in Nat /\ left \in Nat
  /\ gz \in BOOLEAN /\ last \in BOOLEAN /\ done \in BOOLEAN /\ perr \in BOOLEAN
  /\ qoff \in HeaderSize..SlotSize
  /\ unerased \in 0..SlotSize
  /\ stalls \in 0..(MaxStalls + 1)
  /\ status \in {"none", "ok", "error", "refused"}
  /\ outcome \in {"none", "ok", "failed"}

(* A download that reports slot_committed has left exactly the header and  *)
(* the payload of the image in the slot, at their offsets.                 *)
CommitMeansImage == outcome = "ok" => NewImage

(* At every moment, power loss included, a header the bootloader would     *)
(* accept stands in front of the whole payload it was written for: a new   *)
(* header only over a complete payload, an old one only while nothing of   *)
(* its image has been overwritten.                                         *)
HeaderMeansImage == (OldHeader => OldImage) /\ (NewHeader => NewImage)

(* The call returns, however the transport drops, stalls and resumes. *)
Returns == (pc # "idle") ~> (pc = "idle")

(* An image the device should accept. *)
Genuine == img.header /\ img.sha /\ ~img.damaged
           /\ img.len = HeaderSize + img.claim /\ img.len <= SlotSize

(* What the world does to a download: a range that brings nothing or fails *)
(* as a whole, a response without a length, a piece larger than the buffer *)
(* is good for, a flash error, a loss of power.                            *)
FaultStep ==
  \/ RangeReturns /\ (Delivered = 0 \/ status' # "ok")
  \/ Piece /\ (promised' = 0 \/ perr')
  \/ EraseFails \/ ProgramFails \/ CommitFails \/ PowerLoss

(* Drops in the middle of a body never cost the update: from when on the   *)
(* transport always delivers something, genuine images are committed,      *)
(* however their ranges are cut.                                           *)
GenuineImageCommits ==
  ~[]<><<FaultStep>>_vars /\ []<>(pc = "loop" /\ Genuine) => []<>(outcome = "ok")

(* All of that is one promise: whoever looks at the slot between two steps *)
(* sees the image it held, nothing, or the whole new one, and the new one  *)
(* appears in the step that lets the call succeed.                         *)
Slot == INSTANCE DownloadSlot WITH
  holds <- IF OldImage THEN "old" ELSE IF NewImage THEN "new" ELSE "none",
  call <- IF pc # "idle" THEN "running"
          ELSE IF outcome = "ok" THEN "done" ELSE "idle"

IsDownloadSlot == Slot!Spec
=============================================================================
