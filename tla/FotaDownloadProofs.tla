------------------------- MODULE FotaDownloadProofs -------------------------
(***************************************************************************)
(* What the download leaves in the slot, for every size of header, sector, *)
(* slot, page, accumulator and megachunk, every image the server may hold, *)
(* every fault and every power loss.                                       *)
(***************************************************************************)
EXTENDS FotaDownload, TLAPS

(* validate_slot_header() lets an empty payload pass; the run              *)
(* fota_empty_payload shows why the theorems about what the slot holds     *)
(* need this.  Type correctness does not.                                  *)
NoEmptyPayload == \A i \in Images : i.claim > 0

-----------------------------------------------------------------------------
(* The inductive invariant. *)

(* Sectors are erased in order, whole. *)
WholeSectors == \E n \in 0..SlotSectors : unerased = n * SectorSize

(* What has been taken from the inflater is in the slot, in the page being *)
(* staged, or in the header buffer.                                        *)
InStep ==
  IF pc = "stage"
  THEN left > 0 /\ out = qoff + left /\ qoff + left <= SlotSize
  ELSE out = qoff \/ (out < HeaderSize /\ qoff = HeaderSize)

(* Every staged byte is at its offset, in sectors erased before it; every  *)
(* other byte of an erased sector, the header gap first, is still erased.  *)
Staged == \A o \in HeaderSize..(qoff - 1) : slot[o] = o
Covered == qoff = HeaderSize \/ qoff <= unerased
Ahead ==
  \A o \in 0..(unerased - 1) : o < HeaderSize \/ o >= qoff => slot[o] = Erased

Clean == InStep /\ Staged /\ Covered /\ Ahead

Running ==
  /\ outcome = "none"
  /\ OldHeader => OldImage
  /\ slot[0] # 0
  /\ ~perr => Clean

Bounds ==
  /\ WholeSectors
  /\ out <= img.len
  /\ pc \notin {"finish", "idle"} => stalls <= MaxStalls
  /\ base <= got
  /\ perr => pc \in {"range", "finish", "idle"}

IInv ==
  /\ TypeOK
  /\ Bounds
  /\ pc # "idle" => Running
  /\ pc = "idle" /\ NoEmptyPayload => HeaderMeansImage /\ CommitMeansImage

-----------------------------------------------------------------------------
(* Arithmetic of sectors. *)

LEMMA NextSector ==
  ASSUME NEW s \in Nat, NEW n \in Nat, NEW m \in Nat, n * s < m * s
  PROVE  (n + 1) * s <= m * s /\ n + 1 <= m
<1>1. n < m
  <2> SUFFICES ASSUME m <= n PROVE FALSE
    OBVIOUS
  <2>1. PICK d \in Nat : n = m + d
    BY SMT
  <2>2. n * s = m * s + d * s /\ d * s >= 0
    BY <2>1, SMT
  <2> QED BY <2>2, SMT
<1>2. PICK d \in Nat : m = n + 1 + d
  BY <1>1, SMT
<1>3. m * s = (n + 1) * s + d * s /\ d * s >= 0
  BY <1>2, SMT
<1> QED BY <1>1, <1>3, SMT

LEMMA SlotFacts ==
  /\ SlotSize \in Nat /\ HeaderSize \in Nat /\ SectorSize \in Nat
  /\ 0 < HeaderSize /\ HeaderSize < SectorSize /\ SectorSize <= SlotSize
<1>1. SlotSize \in Nat
  BY DownloadAssumption, SMT DEF SlotSize
<1>2. PICK d \in Nat : SlotSectors = d + 1
  BY DownloadAssumption, SMT
<1>3. SlotSize = d * SectorSize + SectorSize /\ d * SectorSize >= 0
  BY <1>2, DownloadAssumption, SMT DEF SlotSize
<1> QED BY <1>1, <1>3, DownloadAssumption, SMT

(* Erasing one more sector stays in the slot and keeps to whole sectors. *)
LEMMA SectorFits ==
  ASSUME WholeSectors, unerased < SlotSize
  PROVE  /\ unerased + SectorSize <= SlotSize
         /\ \E n \in 0..SlotSectors : unerased + SectorSize = n * SectorSize
<1>1. PICK n \in 0..SlotSectors : unerased = n * SectorSize
  BY DEF WholeSectors
<1>2. (n + 1) * SectorSize <= SlotSectors * SectorSize /\ n + 1 <= SlotSectors
  BY <1>1, NextSector, DownloadAssumption, SMT DEF SlotSize
<1>3. (n + 1) * SectorSize = unerased + SectorSize
  BY <1>1, DownloadAssumption, SMT
<1>4. n + 1 \in 0..SlotSectors
  BY <1>2, DownloadAssumption
<1>5. unerased + SectorSize <= SlotSize
  BY <1>2, <1>3 DEF SlotSize
<1> QED BY <1>3, <1>4, <1>5

LEMMA CellTypes ==
  /\ Erased \in Cells /\ Old \in Cells /\ Junk \in Cells
  /\ Offsets \subseteq Cells
  /\ \A c \in {Erased, Old, Junk} : c \notin Nat
BY SMT DEF Cells, Erased, Old, Junk

(* What the flash operations leave behind, cell by cell. *)
LEMMA ProgrammedCells ==
  ASSUME slot \in [Offsets -> Cells], NEW from \in Nat, NEW n \in Nat,
         NEW first \in Nat, first + n <= SlotSize
  PROVE  /\ Programmed(from, n, first) \in [Offsets -> Cells]
         /\ \A o \in Offsets :
              /\ o \notin from..(from + n - 1) => Programmed(from, n, first)[o] = slot[o]
              /\ o \in from..(from + n - 1) =>
                   Programmed(from, n, first)[o] =
                     IF slot[o] = Erased THEN first + (o - from) ELSE Junk
<1>1. \A o \in Offsets : o \in from..(from + n - 1) => first + (o - from) \in Offsets
  BY SlotFacts, SMT DEF Offsets
<1> QED BY <1>1, CellTypes, SMT DEF Programmed

LEMMA SectorCells ==
  ASSUME slot \in [Offsets -> Cells], NEW from \in Nat, NEW c \in Cells
  PROVE  /\ SectorSetTo(from, c) \in [Offsets -> Cells]
         /\ \A o \in Offsets :
              SectorSetTo(from, c)[o] = IF o \in Sector(from) THEN c ELSE slot[o]
BY DEF SectorSetTo

-----------------------------------------------------------------------------
(* The initial state. *)

LEMMA InitInv == Init => IInv
<1> SUFFICES ASSUME Init PROVE IInv
  OBVIOUS
<1>1. oldLen \in 0..SlotSize
  BY SlotFacts, DownloadAssumption, SMT DEF Init
<1>2. slot \in [Offsets -> Cells]
  BY CellTypes DEF Init
<1>3. img \in Images /\ img.len \in Nat /\ img.claim \in Nat
  BY DownloadAssumption DEF Init, ImageType
<1>4. TypeOK
  <2>1. /\ acc \in 0..AccSize /\ qoff \in HeaderSize..SlotSize
        /\ unerased \in 0..SlotSize /\ stalls \in 0..(MaxStalls + 1)
    BY SlotFacts, DownloadAssumption DEF Init
  <2> QED BY <1>1, <1>2, <1>3, <2>1 DEF Init, TypeOK
<1>5. Bounds
  <2>1. unerased = 0 * SectorSize /\ 0 \in 0..SlotSectors
    BY DownloadAssumption, SMT DEF Init
  <2> QED BY <1>3, <2>1, DownloadAssumption, SMT DEF Init, Bounds, WholeSectors
<1>6. 0 \in Offsets /\ 0 \in 0..(HeaderSize - 1)
  BY SlotFacts, SMT DEF Offsets
<1>7. OldHeader => OldImage
  <2> SUFFICES ASSUME OldHeader PROVE OldImage
    OBVIOUS
  <2>1. slot[0] = Old
    BY <1>6 DEF OldHeader
  <2>2. 0 < oldLen
    BY <1>6, <2>1, CellTypes, SMT DEF Init, Erased, Old
  <2>3. \A o \in 0..(oldLen - 1) : o \in Offsets /\ o < oldLen
    BY <1>1, SlotFacts, SMT DEF Offsets
  <2> QED BY <2>2, <2>3 DEF Init, OldImage
<1>8. ~ NewHeader
  BY <1>6, CellTypes, SMT DEF Init, NewHeader, Erased, Old
<1> QED BY <1>4, <1>5, <1>7, <1>8
        DEF Init, IInv, HeaderMeansImage, CommitMeansImage

-----------------------------------------------------------------------------
(* Steps that leave the flash and its bookkeeping alone. *)

(* A step outside a flash operation that consumes nothing keeps Running,   *)
(* and any step may give up.                                               *)
LEMMA QuietStep ==
  ASSUME IInv, pc # "idle", pc' # "idle",
         UNCHANGED <<slot, oldLen, qoff, unerased, outcome>>,
         ~perr' => ~perr /\ InStep'
  PROVE  Running'
<1>1. (OldHeader => OldImage)' /\ slot'[0] # 0
  BY DEF IInv, Running, OldHeader, OldImage
<1>2. ASSUME ~perr' PROVE (Staged /\ Covered /\ Ahead)'
  BY <1>2 DEF IInv, Running, Clean, Staged, Covered, Ahead
<1> QED BY <1>1, <1>2 DEF IInv, Running, Clean

LEMMA RequestRangeInv ==
  ASSUME IInv, RequestRange PROVE IInv'
<1>1. TypeOK' /\ Bounds'
  BY DEF IInv, RequestRange, TypeOK, Bounds, WholeSectors, inflater, staging, ends
<1>2. ~perr => InStep'
  BY DEF IInv, RequestRange, Running, Clean, InStep, inflater, staging
<1>3. Running'
  BY <1>2, QuietStep DEF RequestRange, staging, ends
<1> QED BY <1>1, <1>3 DEF IInv, RequestRange

LEMMA PieceInv ==
  ASSUME IInv, Piece PROVE IInv'
<1>0. /\ got \in Nat /\ base \in Nat /\ acc \in Nat /\ base <= got
      /\ GzHeader \in Nat /\ Footer \in Nat /\ Megachunk \in Nat /\ MaxPiece \in Nat
      /\ AccSize \in Nat /\ img.len \in Nat
  BY DownloadAssumption, SMT DEF IInv, TypeOK, Bounds, ImageType
<1>1. PICK n \in 1..Smaller(MaxPiece, InRange - Delivered) :
        /\ got' = got + n
        /\ \/ perr' = TRUE /\ UNCHANGED <<acc, pc>>
           \/ n <= AccSize - acc /\ acc' = acc + n /\ pc' = "inflate" /\ UNCHANGED perr
  BY <1>0, SMT DEF Piece, Fits, Smaller, InRange, Delivered, WireLen
<1>2. n \in Nat
  BY <1>0, <1>1, SMT DEF Smaller, InRange, Delivered, WireLen
<1>3. promised' \in Nat
  <2>1. InRange \in Nat
    BY <1>0, <1>1, SMT DEF Smaller, InRange, Delivered, WireLen
  <2> QED BY <2>1 DEF Piece, Fits, IInv, TypeOK
<1>4. TypeOK'
  <2>1. got' \in Nat
    BY <1>0, <1>1, <1>2
  <2>2. acc' \in 0..AccSize /\ perr' \in BOOLEAN /\ pc' \in {"range", "inflate"}
    <3>1. CASE perr' = TRUE /\ UNCHANGED <<acc, pc>>
      BY <3>1 DEF IInv, TypeOK, Piece
    <3>2. CASE n <= AccSize - acc /\ acc' = acc + n /\ pc' = "inflate" /\ UNCHANGED perr
      <4>1. acc' \in 0..AccSize
        BY <1>0, <1>2, <3>2
      <4> QED BY <3>2, <4>1 DEF IInv, TypeOK
    <3> QED BY <1>1, <3>1, <3>2
  <2> QED BY <1>3, <2>1, <2>2 DEF IInv, Piece, TypeOK, staging
<1>5. Bounds'
  BY <1>0, <1>1, <1>2, SMT DEF IInv, Piece, Bounds, WholeSectors, staging
<1>6. ~perr' => ~perr /\ InStep'
  BY <1>1 DEF IInv, Piece, Running, Clean, InStep, staging
<1>7. pc # "idle" /\ pc' # "idle"
  BY <1>1 DEF Piece, Fits
<1>8. Running'
  BY <1>6, <1>7, QuietStep DEF Piece, Fits, staging
<1> QED BY <1>4, <1>5, <1>7, <1>8 DEF IInv

(* The four ways a range GET returns to the loop. *)
LEMMA RangeInv ==
  ASSUME IInv, LeaveLoop \/ NextMegachunk \/ Resume \/ Stall
  PROVE  IInv'
<1>0. MaxStalls \in Nat /\ stalls \in Nat
  BY DownloadAssumption DEF IInv, TypeOK
<1>1. /\ RangeReturns
      /\ pc' \in {"loop", "finish"}
      /\ \/ UNCHANGED stalls
         \/ stalls' = 0
         \/ stalls' = stalls + 1 /\ (stalls' > MaxStalls => pc' = "finish")
      /\ perr => pc' = "finish"
  BY DEF LeaveLoop, NextMegachunk, Resume, Stall, Stop
<1>2. pc = "range" /\ stalls <= MaxStalls
  BY <1>1 DEF IInv, Bounds, RangeReturns
<1>3. stalls' \in 0..(MaxStalls + 1) /\ (pc' # "finish" => stalls' <= MaxStalls)
  BY <1>0, <1>1, <1>2
<1>4. status' \in {"none", "ok", "error", "refused"}
  BY <1>1, DownloadAssumption DEF RangeReturns, Answer, IInv, TypeOK, Smaller
<1>5. TypeOK'
  BY <1>1, <1>3, <1>4 DEF IInv, TypeOK, RangeReturns, net, inflater, staging
<1>6. Bounds'
  BY <1>1, <1>3 DEF IInv, Bounds, WholeSectors, RangeReturns, net, inflater, staging
<1>7. ~perr' => ~perr /\ InStep'
  BY <1>1, <1>2 DEF IInv, Running, Clean, InStep, RangeReturns, inflater, staging
<1>8. Running'
  BY <1>1, <1>2, <1>7, QuietStep DEF RangeReturns, staging
<1> QED BY <1>1, <1>5, <1>6, <1>8 DEF IInv

LEMMA ParseGzipHeaderInv ==
  ASSUME IInv, ParseGzipHeader PROVE IInv'
<1>0. acc \in Nat /\ GzHeader \in Nat /\ AccSize \in Nat
  BY DownloadAssumption DEF IInv, TypeOK
<1>1. /\ pc = "inflate" /\ pc' \in {"range", "inflate"}
      /\ acc' \in 0..AccSize /\ gz' \in BOOLEAN
  <2>1. CASE acc < GzHeader
    BY <2>1 DEF ParseGzipHeader, IInv, TypeOK
  <2>2. CASE ~ (acc < GzHeader)
    <3>1. acc' \in 0..AccSize
      BY <1>0, <2>2 DEF ParseGzipHeader, IInv, TypeOK
    <3> QED BY <2>2, <3>1 DEF ParseGzipHeader
  <2> QED BY <2>1, <2>2
<1>2. TypeOK'
  BY <1>1 DEF IInv, TypeOK, ParseGzipHeader, net, staging, ends
<1>3. Bounds'
  BY <1>1 DEF IInv, Bounds, WholeSectors, ParseGzipHeader, net, staging, ends
<1>4. ~perr' => ~perr /\ InStep'
  BY <1>1 DEF IInv, Running, Clean, InStep, ParseGzipHeader, staging, ends
<1>5. Running'
  BY <1>1, <1>4, QuietStep DEF ParseGzipHeader, staging
<1> QED BY <1>1, <1>2, <1>3, <1>5 DEF IInv

LEMMA StarveInv ==
  ASSUME IInv, Starve \/ InflateError PROVE IInv'
<1>1. /\ pc = "inflate" /\ pc' = "range" /\ (perr' = perr \/ perr' = TRUE)
      /\ UNCHANGED <<slot, oldLen, img, net, inflater, staging,
                     done, stalls, status, outcome>>
  BY DEF Starve, InflateError, ends
<1>2. TypeOK' /\ Bounds'
  BY <1>1 DEF IInv, TypeOK, Bounds, WholeSectors, net, inflater, staging
<1>3. ~perr' => ~perr /\ InStep'
  BY <1>1 DEF IInv, Running, Clean, InStep, inflater, staging
<1>4. Running'
  BY <1>1, <1>3, QuietStep DEF staging
<1> QED BY <1>1, <1>2, <1>4 DEF IInv

(* A page or the tail comes out of the inflater. *)
LEMMA InflateInv ==
  ASSUME IInv, InflatePage \/ InflateTail PROVE IInv'
<1>0. /\ acc \in Nat /\ acc <= AccSize /\ AccSize \in Nat /\ OutBuf \in Nat \ {0}
      /\ Footer \in Nat \ {0} /\ out \in Nat /\ img.len \in Nat /\ out <= img.len
      /\ qoff \in Nat /\ HeaderSize \in Nat /\ SlotSize \in Nat /\ HeaderSize <= qoff
  BY DownloadAssumption, SlotFacts DEF IInv, TypeOK, Bounds, ImageType
<1>1. PICK n \in Nat, f \in Nat :
        /\ Inflate(n, f) /\ pc = "inflate"
        /\ n + f <= acc /\ n <= Remaining
  <2>1. CASE InflatePage
    BY <1>0, <2>1 DEF InflatePage, PageReady
  <2>2. CASE InflateTail
    <3>1. Remaining \in Nat /\ Remaining + Footer <= acc
      BY <1>0, <2>2 DEF InflateTail, TailReady, Remaining
    <3> QED BY <1>0, <2>2, <3>1 DEF InflateTail
  <2> QED BY <2>1, <2>2
<1>2. out' = out + n /\ out' \in Nat /\ out' <= img.len /\ acc' \in 0..AccSize
  BY <1>0, <1>1 DEF Inflate, Remaining
<1>3. PayloadPart(n) \in Nat
  BY <1>0, <1>1 DEF PayloadPart
<1>4. /\ pc' \in {"range", "stage", "inflate"}
      /\ left' \in Nat /\ last' \in BOOLEAN /\ done' \in BOOLEAN /\ perr' \in BOOLEAN
  <2>1. left \in Nat /\ done \in BOOLEAN /\ perr \in BOOLEAN
    BY DEF IInv, TypeOK
  <2>2. last' \in BOOLEAN
    BY <1>1 DEF Inflate
  <2>3. CASE ~MayStage(n)
    BY <1>1, <2>1, <2>2, <2>3 DEF Inflate
  <2>4. CASE MayStage(n) /\ PayloadPart(n) > 0
    BY <1>1, <1>3, <2>1, <2>2, <2>4 DEF Inflate
  <2>5. CASE MayStage(n) /\ ~ (PayloadPart(n) > 0) /\ f > 0
    BY <1>1, <2>1, <2>2, <2>5 DEF Inflate
  <2>6. CASE MayStage(n) /\ ~ (PayloadPart(n) > 0) /\ ~ (f > 0)
    BY <1>1, <2>1, <2>2, <2>6 DEF Inflate
  <2> QED BY <2>3, <2>4, <2>5, <2>6
<1>5. TypeOK'
  BY <1>1, <1>2, <1>4 DEF Inflate, IInv, TypeOK, net, staging
<1>6. Bounds'
  BY <1>1, <1>2, <1>4 DEF Inflate, IInv, Bounds, WholeSectors, net, staging
<1>7. ASSUME ~perr' PROVE ~perr /\ InStep'
  <2>1. MayStage(n) /\ ~perr /\ qoff' = qoff
    BY <1>1, <1>7 DEF Inflate, staging
  <2>2. out = qoff \/ (out < HeaderSize /\ qoff = HeaderSize)
    BY <1>1, <2>1 DEF IInv, Running, Clean, InStep
  <2>3. CASE PayloadPart(n) > 0
    <3>1. pc' = "stage" /\ left' = PayloadPart(n)
      BY <1>1, <2>1, <2>3 DEF Inflate
    <3>2. qoff + PayloadPart(n) <= SlotSize
      BY <2>1, <2>3 DEF MayStage
    <3>3. out + n = qoff + PayloadPart(n)
      BY <1>0, <2>2, <2>3, <1>1 DEF PayloadPart
    <3> QED BY <1>2, <2>1, <2>3, <3>1, <3>2, <3>3 DEF InStep
  <2>4. CASE ~ (PayloadPart(n) > 0)
    <3>1. pc' \in {"range", "inflate"}
      BY <1>1, <2>1, <2>4 DEF Inflate
    <3>2. out + n = qoff \/ (out + n < HeaderSize /\ qoff = HeaderSize)
      BY <1>0, <1>1, <2>2, <2>4 DEF PayloadPart
    <3> QED BY <1>2, <2>1, <3>1, <3>2 DEF InStep
  <2> QED BY <2>3, <2>4
<1>8. Running'
  BY <1>1, <1>4, <1>7, QuietStep DEF Inflate, staging
<1> QED BY <1>4, <1>5, <1>6, <1>8 DEF IInv

-----------------------------------------------------------------------------
(* Steps that touch the flash. *)

(* The states in which a page is being staged. *)
LEMMA StageFacts ==
  ASSUME IInv, pc = "stage"
  PROVE  /\ slot \in [Offsets -> Cells]
         /\ HeaderSize \in Nat /\ SlotSize \in Nat /\ SectorSize \in Nat
         /\ 0 < HeaderSize /\ HeaderSize < SectorSize /\ SectorSize <= SlotSize
         /\ qoff \in Nat /\ HeaderSize <= qoff
         /\ left \in Nat /\ 0 < left /\ out = qoff + left /\ qoff + left <= SlotSize
         /\ unerased \in Nat /\ unerased <= SlotSize
         /\ out - left = qoff
         /\ 0 \in Offsets /\ 0 \in 0..(HeaderSize - 1)
         /\ Clean /\ ~perr /\ outcome = "none" /\ slot[0] # 0
         /\ unerased > 0 => slot[0] = Erased
         /\ OldHeader => OldImage
<1>1. Clean /\ ~perr /\ outcome = "none" /\ slot[0] # 0 /\ (OldHeader => OldImage)
  BY DEF IInv, Bounds, Running
<1>2. /\ slot \in [Offsets -> Cells]
      /\ HeaderSize \in Nat /\ SlotSize \in Nat /\ SectorSize \in Nat
      /\ 0 < HeaderSize /\ HeaderSize < SectorSize /\ SectorSize <= SlotSize
      /\ qoff \in Nat /\ HeaderSize <= qoff
      /\ left \in Nat /\ unerased \in Nat /\ unerased <= SlotSize
  BY SlotFacts DEF IInv, TypeOK
<1>3. 0 < left /\ out = qoff + left /\ qoff + left <= SlotSize
  BY <1>1 DEF Clean, InStep
<1>4. 0 \in Offsets /\ 0 \in 0..(HeaderSize - 1)
  BY <1>2 DEF Offsets
<1>5. unerased > 0 => slot[0] = Erased
  BY <1>1, <1>2 DEF Clean, Ahead
<1>6. out - left = qoff
  BY <1>2, <1>3
<1> QED BY <1>1, <1>2, <1>3, <1>4, <1>5, <1>6

(* A header whose first byte is not an old one is not the old header. *)
LEMMA NoOldHeader ==
  ASSUME slot'[0] # Old PROVE (OldHeader => OldImage)'
<1>1. 0 \in 0..(HeaderSize - 1)
  BY SlotFacts
<1> QED BY <1>1 DEF OldHeader

LEMMA EraseSectorInv ==
  ASSUME IInv, EraseSector PROVE IInv'
<1>0. pc = "stage" /\ pc' = "stage" /\ unerased < SlotSize
  BY DEF EraseSector, Erasing
<1>1. /\ unerased + SectorSize <= SlotSize
      /\ \E n \in 0..SlotSectors : unerased + SectorSize = n * SectorSize
  BY <1>0, SectorFits DEF IInv, Bounds
<1>2. /\ slot' \in [Offsets -> Cells]
      /\ \A o \in Offsets : slot'[o] = IF o \in Sector(unerased) THEN Erased ELSE slot[o]
  <2>1. slot \in [Offsets -> Cells] /\ unerased \in Nat
    BY <1>0, StageFacts
  <2> QED BY <2>1, SectorCells, CellTypes DEF EraseSector
<1>3. unerased' = unerased + SectorSize /\ unerased' \in 0..SlotSize
  BY <1>0, <1>1, StageFacts DEF EraseSector
<1>4. TypeOK'
  BY <1>0, <1>2, <1>3 DEF EraseSector, IInv, TypeOK, net, inflater, ends
<1>5. Bounds'
  BY <1>0, <1>1, <1>3 DEF EraseSector, IInv, Bounds, WholeSectors, net, inflater, ends
<1>6. slot'[0] = Erased
  BY <1>0, <1>2, StageFacts DEF Sector
<1>7. InStep'
  BY <1>0, StageFacts DEF EraseSector, Clean, InStep, inflater
<1>8. Staged'
  <2> SUFFICES ASSUME NEW o \in HeaderSize..(qoff - 1) PROVE slot'[o] = o
    BY DEF EraseSector, Staged
  <2>1. o \in Offsets /\ o \notin Sector(unerased)
    BY <1>0, StageFacts DEF Clean, Covered, Offsets, Sector
  <2> QED BY <1>0, <1>2, <2>1, StageFacts DEF Clean, Staged
<1>9. Covered'
  BY <1>0, <1>3, StageFacts DEF EraseSector, Clean, Covered
<1>10. Ahead'
  <2>0. /\ unerased \in Nat /\ SectorSize \in Nat /\ SlotSize \in Nat
        /\ qoff' = qoff /\ unerased' = unerased + SectorSize
    BY <1>0, <1>3, StageFacts DEF EraseSector
  <2> SUFFICES ASSUME NEW o \in 0..(unerased + SectorSize - 1), o < HeaderSize \/ o >= qoff
               PROVE  slot'[o] = Erased
    BY <2>0 DEF Ahead
  <2>1. o \in Offsets /\ (o \in Sector(unerased) \/ o \in 0..(unerased - 1))
    BY <2>0, <1>1 DEF Offsets, Sector
  <2> QED BY <1>0, <1>2, <2>1, StageFacts DEF Clean, Ahead
<1>11. Running'
  BY <1>0, <1>6, <1>7, <1>8, <1>9, <1>10, StageFacts, NoOldHeader, CellTypes
     DEF Running, Clean, EraseSector, Erased, Old
<1> QED BY <1>0, <1>4, <1>5, <1>11 DEF IInv

(* A step that gives up while staging: nothing but the slot's first byte   *)
(* matters.                                                                *)
LEMMA StageFailsInv ==
  ASSUME IInv, pc = "stage", StageFails, slot' \in [Offsets -> Cells],
         \/ slot' = slot
         \/ slot'[0] \in {Erased, Junk}
  PROVE  IInv'
<1>1. TypeOK' /\ Bounds'
  BY DEF StageFails, IInv, TypeOK, Bounds, WholeSectors, net, inflater, staging
<1>2. slot'[0] # 0 /\ (OldHeader => OldImage)'
  <2>1. CASE slot' = slot
    BY <2>1, StageFacts DEF StageFails, OldHeader, OldImage
  <2>2. CASE slot'[0] \in {Erased, Junk}
    BY <2>2, NoOldHeader DEF Erased, Junk, Old
  <2> QED BY <2>1, <2>2
<1>3. Running'
  BY <1>2, StageFacts DEF Running, StageFails
<1> QED BY <1>1, <1>3 DEF IInv, StageFails

(* What an erase that is cut short can leave. *)
LEMMA HalfErasedFacts ==
  ASSUME IInv, pc = "stage", NEW s \in HalfErased(unerased)
  PROVE  /\ s \in [Offsets -> Cells]
         /\ s = slot \/ s[0] \in {Erased, Junk}
<1>1. CASE s = slot
  BY <1>1, StageFacts
<1>2. CASE s = SectorSetTo(unerased, Junk)
  <2>1. /\ s \in [Offsets -> Cells]
        /\ s[0] = IF 0 \in Sector(unerased) THEN Junk ELSE slot[0]
    <3>1. slot \in [Offsets -> Cells] /\ unerased \in Nat /\ 0 \in Offsets
      BY StageFacts
    <3> QED BY <1>2, <3>1, SectorCells, CellTypes
  <2>2. unerased = 0 => 0 \in Sector(unerased)
    BY StageFacts DEF Sector
  <2> QED BY <2>1, <2>2, StageFacts
<1> QED BY <1>1, <1>2 DEF HalfErased

LEMMA EraseFailsInv ==
  ASSUME IInv, EraseFails PROVE IInv'
<1>1. pc = "stage" /\ StageFails
  BY DEF EraseFails, Erasing
<1>2. slot' = slot \/ slot' \in HalfErased(unerased)
  BY DEF EraseFails
<1> QED BY <1>1, <1>2, StageFacts, HalfErasedFacts, StageFailsInv

(* A page programmed in full or in part: inside the slot, behind the       *)
(* header gap, over erased cells.                                          *)
LEMMA PageFacts ==
  ASSUME IInv, Programming, NEW k \in 0..left
  PROVE  LET s == Programmed(qoff, k, out - left) IN
         /\ s \in [Offsets -> Cells]
         /\ s[0] = Erased
         /\ \A o \in Offsets :
              s[o] = IF o \in qoff..(qoff + k - 1) THEN o ELSE slot[o]
<1>0. pc = "stage" /\ unerased >= qoff + left
  BY DEF Programming
<1>1. k \in Nat /\ k <= left /\ qoff + k <= SlotSize
  BY <1>0, StageFacts
<1>2. /\ Programmed(qoff, k, qoff) \in [Offsets -> Cells]
      /\ \A o \in Offsets :
           /\ o \notin qoff..(qoff + k - 1) => Programmed(qoff, k, qoff)[o] = slot[o]
           /\ o \in qoff..(qoff + k - 1) =>
                Programmed(qoff, k, qoff)[o] =
                  IF slot[o] = Erased THEN qoff + (o - qoff) ELSE Junk
  BY <1>0, <1>1, StageFacts, ProgrammedCells
<1>3. \A o \in qoff..(qoff + k - 1) : slot[o] = Erased /\ qoff + (o - qoff) = o
  BY <1>0, <1>1, StageFacts DEF Clean, Ahead
<1>4. 0 \notin qoff..(qoff + k - 1) /\ slot[0] = Erased
  BY <1>0, <1>1, StageFacts
<1> QED BY <1>0, <1>2, <1>3, <1>4, StageFacts

LEMMA ProgramFailsInv ==
  ASSUME IInv, ProgramFails PROVE IInv'
<1>1. pc = "stage" /\ StageFails /\ Programming
  BY DEF ProgramFails, Programming
<1>2. PICK k \in 0..left : slot' = Programmed(qoff, k, out - left)
  BY DEF ProgramFails, HalfProgrammed
<1> QED BY <1>1, <1>2, PageFacts, StageFailsInv

LEMMA ProgramPageInv ==
  ASSUME IInv, ProgramPage PROVE IInv'
<1>0. pc = "stage" /\ Programming /\ pc' \in {"range", "inflate"}
  BY DEF ProgramPage, Programming
<1>1. /\ slot' \in [Offsets -> Cells]
      /\ slot'[0] = Erased
      /\ \A o \in Offsets :
           slot'[o] = IF o \in qoff..(qoff + left - 1) THEN o ELSE slot[o]
  <2>1. left \in 0..left
    BY <1>0, StageFacts
  <2> QED BY <1>0, <2>1, PageFacts DEF ProgramPage
<1>2. qoff' = qoff + left /\ qoff' \in HeaderSize..SlotSize
  BY <1>0, StageFacts DEF ProgramPage
<1>3. left' \in Nat /\ done' \in BOOLEAN
  BY DEF ProgramPage, IInv, TypeOK
<1>4. TypeOK'
  BY <1>0, <1>1, <1>2, <1>3 DEF ProgramPage, IInv, TypeOK, net
<1>5. Bounds'
  BY <1>0 DEF ProgramPage, IInv, Bounds, WholeSectors, net
<1>6. InStep'
  BY <1>0, <1>2, StageFacts DEF ProgramPage, InStep
<1>7. Staged'
  <2>0. HeaderSize \in Nat /\ qoff \in Nat /\ left \in Nat
    BY <1>0, StageFacts
  <2> SUFFICES ASSUME NEW o \in HeaderSize..(qoff + left - 1) PROVE slot'[o] = o
    BY <1>2, <2>0 DEF Staged
  <2>1. o \in Offsets /\ (o \in qoff..(qoff + left - 1) \/ o \in HeaderSize..(qoff - 1))
    BY <1>0, StageFacts DEF Offsets
  <2> QED BY <1>0, <1>1, <2>1, StageFacts DEF Clean, Staged
<1>8. Covered'
  BY <1>0, <1>2 DEF ProgramPage, Covered, Programming
<1>9. Ahead'
  <2> SUFFICES ASSUME NEW o \in 0..(unerased - 1), o < HeaderSize \/ o >= qoff + left
               PROVE  slot'[o] = Erased
    BY <1>2 DEF ProgramPage, Ahead
  <2>1. o \in Offsets /\ o \notin qoff..(qoff + left - 1) /\ (o < HeaderSize \/ o >= qoff)
    BY <1>0, StageFacts DEF Offsets
  <2> QED BY <1>0, <1>1, <2>1, StageFacts DEF Clean, Ahead
<1>10. Running'
  BY <1>0, <1>1, <1>6, <1>7, <1>8, <1>9, StageFacts, NoOldHeader
     DEF Running, Clean, ProgramPage, Erased, Old
<1> QED BY <1>0, <1>4, <1>5, <1>10 DEF IInv

-----------------------------------------------------------------------------
(* The end of the call, a power loss, and the next call. *)

(* A slot whose first byte is not that of the new header keeps what        *)
(* HeaderMeansImage says of the old one.                                   *)
LEMMA NoNewHeader ==
  ASSUME slot'[0] # 0 PROVE ~ NewHeader'
<1>1. 0 \in 0..(HeaderSize - 1)
  BY SlotFacts
<1> QED BY <1>1 DEF NewHeader

LEMMA RejectInv ==
  ASSUME IInv, Reject PROVE IInv'
<1>0. pc = "finish" /\ pc' = "idle" /\ outcome' = "failed" /\ UNCHANGED <<slot, oldLen>>
  BY DEF Reject, Fail
<1>1. TypeOK' /\ Bounds'
  BY DEF Reject, Fail, IInv, TypeOK, Bounds, WholeSectors, net, inflater, staging, ends
<1>2. slot'[0] # 0 /\ (OldHeader => OldImage)'
  BY <1>0 DEF IInv, Running, OldHeader, OldImage
<1> QED BY <1>0, <1>1, <1>2, NoNewHeader
        DEF IInv, HeaderMeansImage, CommitMeansImage

(* However much of the header has been programmed, the slot holds cells.  *)
LEMMA HeaderCells ==
  ASSUME IInv, NEW k \in 0..HeaderSize
  PROVE  Programmed(0, k, 0) \in [Offsets -> Cells]
<1>1. k \in Nat /\ 0 + k <= SlotSize /\ slot \in [Offsets -> Cells]
  BY SlotFacts DEF IInv, TypeOK
<1> QED BY <1>1, ProgrammedCells

(* The header programmed in full or in part over its erased gap, in front  *)
(* of the complete payload.                                                *)
LEMMA CommitFacts ==
  ASSUME NoEmptyPayload, IInv, pc = "finish", Accepted, NEW k \in 0..HeaderSize,
         slot' = Programmed(0, k, 0), UNCHANGED <<oldLen, img>>
  PROVE  /\ HeaderMeansImage'
         /\ k = HeaderSize => NewImage'
<1>1. /\ slot \in [Offsets -> Cells]
      /\ HeaderSize \in Nat /\ SlotSize \in Nat /\ 0 < HeaderSize
      /\ qoff \in Nat /\ qoff <= SlotSize /\ unerased \in Nat /\ unerased <= SlotSize
      /\ HeaderSize < SlotSize
  BY SlotFacts DEF IInv, TypeOK
<1>2. img.claim \in Nat /\ img.claim > 0
  BY DownloadAssumption DEF NoEmptyPayload, IInv, TypeOK, ImageType
<1>3. qoff = HeaderSize + img.claim
  BY <1>1, <1>2 DEF Accepted, PayloadWritten
<1>4. Staged /\ Ahead /\ qoff <= unerased
  BY <1>1, <1>2, <1>3 DEF IInv, Running, Clean, Covered, Accepted
<1>5. k \in Nat /\ k <= HeaderSize /\ 0 + k <= SlotSize
  BY <1>1
<1>6. /\ slot' \in [Offsets -> Cells]
      /\ \A o \in Offsets :
           /\ o \notin 0..(0 + k - 1) => slot'[o] = slot[o]
           /\ o \in 0..(0 + k - 1) =>
                slot'[o] = IF slot[o] = Erased THEN 0 + (o - 0) ELSE Junk
  BY <1>1, <1>5, ProgrammedCells
<1>7. \A o \in 0..(HeaderSize - 1) :
        o \in Offsets /\ slot[o] = Erased /\ slot'[o] = IF o < k THEN o ELSE Erased
  <2> SUFFICES ASSUME NEW o \in 0..(HeaderSize - 1)
               PROVE  o \in Offsets /\ slot[o] = Erased
                      /\ slot'[o] = IF o < k THEN o ELSE Erased
    OBVIOUS
  <2>1. o \in Nat /\ o \in Offsets /\ o \in 0..(unerased - 1) /\ o < HeaderSize
    BY <1>1, <1>3, <1>2, <1>4 DEF Offsets
  <2>2. slot[o] = Erased
    BY <1>4, <2>1 DEF Ahead
  <2>3. o < k <=> o \in 0..(0 + k - 1)
    BY <1>5, <2>1
  <2>4. 0 + (o - 0) = o
    BY <2>1
  <2> QED BY <1>6, <2>1, <2>2, <2>3, <2>4
<1>8. \A o \in HeaderSize..(qoff - 1) : slot'[o] = o
  <2> SUFFICES ASSUME NEW o \in HeaderSize..(qoff - 1) PROVE slot'[o] = o
    OBVIOUS
  <2>1. o \in Offsets /\ o \notin 0..(0 + k - 1)
    BY <1>1, <1>5 DEF Offsets
  <2> QED BY <1>4, <1>6, <2>1 DEF Staged
<1>9. slot'[0] \in {0, Erased}
  BY <1>1, <1>7
<1>10. (OldHeader => OldImage)'
  BY <1>9, NoOldHeader DEF Erased, Old
<1>11. NewHeader' => NewImage'
  <2> SUFFICES ASSUME NewHeader' PROVE NewImage'
    OBVIOUS
  <2>1. \A o \in 0..(HeaderSize - 1) : slot'[o] = o
    BY DEF NewHeader
  <2>2. \A o \in 0..(HeaderSize + img.claim - 1) : slot'[o] = o
    BY <1>1, <1>2, <1>3, <1>8, <2>1
  <2> QED BY <1>1, <1>3, <2>2 DEF NewImage
<1>12. k = HeaderSize => NewHeader'
  BY <1>1, <1>7 DEF NewHeader
<1> QED BY <1>6, <1>10, <1>11, <1>12 DEF HeaderMeansImage

LEMMA CommitInv ==
  ASSUME IInv, Commit \/ CommitFails PROVE IInv'
<1>0. /\ pc = "finish" /\ Accepted /\ pc' = "idle" /\ outcome' \in {"ok", "failed"}
      /\ UNCHANGED <<oldLen, img, net, inflater, staging, ends>>
  BY DEF Commit, CommitFails, Fail
<1>1. PICK k \in 0..HeaderSize :
        slot' = Programmed(0, k, 0) /\ (outcome' = "ok" => k = HeaderSize)
  <2>1. HeaderSize \in 0..HeaderSize
    BY SlotFacts
  <2>2. CASE Commit
    BY <2>1, <2>2 DEF Commit
  <2>3. CASE CommitFails
    BY <2>3 DEF CommitFails, Fail, HalfProgrammed
  <2> QED BY <2>2, <2>3
<1>2. /\ slot' \in [Offsets -> Cells]
      /\ NoEmptyPayload => HeaderMeansImage' /\ (k = HeaderSize => NewImage')
  BY <1>0, <1>1, HeaderCells, CommitFacts
<1>3. TypeOK' /\ Bounds'
  BY <1>0, <1>2 DEF IInv, TypeOK, Bounds, WholeSectors, net, inflater, staging, ends
<1> QED BY <1>0, <1>1, <1>2, <1>3 DEF IInv, CommitMeansImage

(* RAM after a reset. *)
LEMMA ResetTyped ==
  ASSUME IInv, ResetState, pc' \in {"idle", "loop"}, img' \in Images,
         slot' \in [Offsets -> Cells], oldLen' \in 0..SlotSize
  PROVE  TypeOK' /\ Bounds'
<1>1. /\ acc' \in 0..AccSize /\ qoff' \in HeaderSize..SlotSize
      /\ unerased' \in 0..SlotSize /\ stalls' \in 0..(MaxStalls + 1)
  BY SlotFacts, DownloadAssumption DEF ResetState
<1>2. TypeOK'
  BY <1>1 DEF ResetState, TypeOK
<1>3. unerased' = 0 * SectorSize /\ 0 \in 0..SlotSectors
  BY DownloadAssumption DEF ResetState
<1>4. img'.len \in Nat
  BY DownloadAssumption DEF ImageType
<1>5. WholeSectors'
  BY <1>3 DEF WholeSectors
<1>6. Bounds'
  BY <1>4, <1>5, DownloadAssumption DEF ResetState, Bounds
<1> QED BY <1>2, <1>6

LEMMA PowerLossInv ==
  ASSUME IInv, PowerLoss PROVE IInv'
<1>0. pc # "idle" /\ pc' = "idle" /\ outcome' = "none" /\ UNCHANGED <<oldLen, img>> /\ ResetState
  BY DEF PowerLoss, ResetState
<1>1. slot' \in [Offsets -> Cells] /\ (NoEmptyPayload => HeaderMeansImage')
  <2>1. CASE slot' = slot
    <3>1. slot'[0] # 0 /\ (OldHeader => OldImage)'
      BY <1>0, <2>1 DEF IInv, Running, OldHeader, OldImage
    <3> QED BY <2>1, <3>1, NoNewHeader DEF IInv, TypeOK, HeaderMeansImage
  <2>2. CASE slot' \in [Offsets -> Cells] /\ slot'[0] \in {Erased, Junk}
    BY <2>2, NoOldHeader, NoNewHeader DEF HeaderMeansImage, Erased, Junk, Old
  <2>3. CASE Erasing /\ unerased < SlotSize /\ slot' \in HalfErased(unerased)
    BY <2>1, <2>2, <2>3, HalfErasedFacts DEF Erasing
  <2>4. CASE Erasing /\ unerased < SlotSize /\ slot' = SectorSetTo(unerased, Erased)
    <3>1. /\ slot \in [Offsets -> Cells] /\ unerased \in Nat /\ 0 \in Offsets
          /\ SectorSize \in Nat /\ 0 < SectorSize /\ (unerased > 0 => slot[0] = Erased)
      BY <2>4, StageFacts DEF Erasing
    <3>2. /\ slot' \in [Offsets -> Cells]
          /\ slot'[0] = IF 0 \in Sector(unerased) THEN Erased ELSE slot[0]
      BY <2>4, <3>1, SectorCells, CellTypes
    <3>3. unerased = 0 => 0 \in Sector(unerased)
      BY <3>1 DEF Sector
    <3> QED BY <2>2, <3>1, <3>2, <3>3
  <2>5. CASE Programming /\ slot' \in HalfProgrammed(qoff, left, out - left)
    <3>1. PICK k \in 0..left : slot' = Programmed(qoff, k, out - left)
      BY <2>5 DEF HalfProgrammed
    <3> QED BY <2>2, <2>5, <3>1, PageFacts
  <2>6. CASE pc = "finish" /\ Accepted /\ slot' \in HalfProgrammed(0, HeaderSize, 0)
    <3>1. PICK k \in 0..HeaderSize : slot' = Programmed(0, k, 0)
      BY <2>6 DEF HalfProgrammed
    <3> QED BY <1>0, <2>6, <3>1, HeaderCells, CommitFacts
  <2> QED BY <2>1, <2>3, <2>4, <2>5, <2>6 DEF PowerLoss
<1>2. TypeOK' /\ Bounds'
  BY <1>0, <1>1, ResetTyped DEF IInv, TypeOK
<1> QED BY <1>0, <1>1, <1>2 DEF IInv, CommitMeansImage

LEMMA DownloadInv ==
  ASSUME IInv, Download PROVE IInv'
<1>0. /\ pc = "idle" /\ pc' = "loop" /\ img' \in Images /\ ResetState
      /\ oldLen' = IF OldImage THEN oldLen
                   ELSE IF NewImage THEN HeaderSize + img.claim ELSE 0
      /\ slot' = [ o \in Offsets |->
                     IF slot[o] = Erased THEN Erased
                     ELSE IF OldImage \/ NewImage THEN Old ELSE Junk ]
  BY DEF Download
<1>1. /\ HeaderSize \in Nat /\ 0 < HeaderSize /\ HeaderSize < SlotSize /\ SlotSize \in Nat
      /\ oldLen \in 0..SlotSize /\ img.claim \in Nat
  BY SlotFacts, DownloadAssumption DEF IInv, TypeOK, ImageType
<1>2. oldLen' \in 0..SlotSize
  BY <1>0, <1>1 DEF NewImage
<1>3. slot' \in [Offsets -> Cells]
  BY <1>0, CellTypes
<1>4. TypeOK' /\ Bounds'
  BY <1>0, <1>2, <1>3, ResetTyped
<1>5. 0 \in Offsets /\ slot'[0] \in {Erased, Old, Junk}
  BY <1>0, <1>1 DEF Offsets
<1>6. slot'[0] # 0
  BY <1>5 DEF Erased, Old, Junk
<1>7. (OldHeader => OldImage)'
  <2>1. CASE OldImage
    <3>1. 0 < oldLen /\ oldLen' = oldLen
      BY <1>0, <2>1 DEF OldImage
    <3>2. \A o \in 0..(oldLen - 1) : o \in Offsets /\ slot[o] = Old
      BY <1>1, <2>1 DEF OldImage, Offsets
    <3>3. \A o \in 0..(oldLen - 1) : slot'[o] = Old
      BY <1>0, <2>1, <3>2 DEF Erased, Old
    <3> QED BY <3>1, <3>3 DEF OldImage
  <2>2. CASE ~ OldImage /\ NewImage
    <3>1. oldLen' = HeaderSize + img.claim /\ 0 < oldLen'
      BY <1>0, <1>1, <2>2
    <3>2. \A o \in 0..(HeaderSize + img.claim - 1) : o \in Offsets /\ slot[o] = o
      BY <1>1, <2>2 DEF NewImage, Offsets
    <3>3. ASSUME NEW o \in 0..(oldLen' - 1) PROVE slot'[o] = Old
      <4>1. o \in 0..(HeaderSize + img.claim - 1)
        BY <1>1, <3>1
      <4>2. o \in Offsets /\ slot[o] = o
        BY <3>2, <4>1
      <4>3. slot[o] # Erased
        BY <1>1, <4>1, <4>2 DEF Erased
      <4> QED BY <1>0, <2>2, <4>2, <4>3
    <3> QED BY <3>1, <3>3 DEF OldImage
  <2>3. CASE ~ OldImage /\ ~ NewImage
    <3>1. slot'[0] # Old
      BY <1>0, <1>5, <2>3 DEF Erased, Old, Junk
    <3> QED BY <3>1, NoOldHeader
  <2> QED BY <2>1, <2>2, <2>3
<1>8. Clean'
  BY <1>0, <1>1 DEF ResetState, Clean, InStep, Staged, Covered, Ahead
<1> QED BY <1>0, <1>4, <1>6, <1>7, <1>8 DEF IInv, Running, ResetState

LEMMA StutterInv ==
  ASSUME IInv, UNCHANGED vars PROVE IInv'
<1>1. TypeOK' /\ Bounds'
  BY DEF vars, net, inflater, staging, ends, IInv, TypeOK, Bounds, WholeSectors
<1>2. pc' = "idle" /\ NoEmptyPayload => HeaderMeansImage' /\ CommitMeansImage'
  BY DEF vars, net, inflater, staging, ends, IInv, HeaderMeansImage, CommitMeansImage,
         OldHeader, OldImage, NewHeader, NewImage
<1>3. pc' # "idle" => Running'
  <2>1. pc # "idle" /\ ~perr => InStep'
    BY DEF vars, inflater, staging, IInv, Running, Clean, InStep
  <2> QED BY <2>1, QuietStep DEF vars, staging, ends
<1> QED BY <1>1, <1>2, <1>3 DEF IInv

-----------------------------------------------------------------------------
(* One step per action. *)
LEMMA StepInv == IInv /\ [Next]_vars => IInv'
<1> SUFFICES ASSUME IInv, [Next]_vars PROVE IInv'
  OBVIOUS
<1>1. CASE Download
  BY <1>1, DownloadInv
<1>2. CASE RequestRange
  BY <1>2, RequestRangeInv
<1>3. CASE Piece
  BY <1>3, PieceInv
<1>4. CASE LeaveLoop \/ NextMegachunk \/ Resume \/ Stall
  BY <1>4, RangeInv
<1>5. CASE ParseGzipHeader
  BY <1>5, ParseGzipHeaderInv
<1>6. CASE Starve \/ InflateError
  BY <1>6, StarveInv
<1>7. CASE InflatePage \/ InflateTail
  BY <1>7, InflateInv
<1>8. CASE EraseSector
  BY <1>8, EraseSectorInv
<1>9. CASE EraseFails
  BY <1>9, EraseFailsInv
<1>10. CASE ProgramPage
  BY <1>10, ProgramPageInv
<1>11. CASE ProgramFails
  BY <1>11, ProgramFailsInv
<1>12. CASE Reject
  BY <1>12, RejectInv
<1>13. CASE Commit \/ CommitFails
  BY <1>13, CommitInv
<1>14. CASE PowerLoss
  BY <1>14, PowerLossInv
<1>15. CASE UNCHANGED vars
  BY <1>15, StutterInv
<1> QED BY <1>1, <1>2, <1>3, <1>4, <1>5, <1>6, <1>7, <1>8, <1>9, <1>10, <1>11,
           <1>12, <1>13, <1>14, <1>15 DEF Next, Step

LEMMA Invariant == Spec => []IInv
BY InitInv, StepInv, PTL DEF Spec

LEMMA InvImplies == NoEmptyPayload /\ IInv => CommitMeansImage /\ HeaderMeansImage
<1> SUFFICES ASSUME NoEmptyPayload, IInv PROVE CommitMeansImage /\ HeaderMeansImage
  OBVIOUS
<1>1. CASE pc = "idle"
  BY <1>1 DEF IInv
<1>2. CASE pc # "idle"
  <2>1. 0 \in 0..(HeaderSize - 1)
    BY SlotFacts
  <2> QED BY <1>2, <2>1
          DEF IInv, Running, CommitMeansImage, HeaderMeansImage, NewHeader
<1> QED BY <1>1, <1>2

(* Type correctness, and every slot offset the download uses is in the     *)
(* download slot: no arithmetic on sectors reaches the settings sectors.   *)
THEOREM TypeCorrect == Spec => []TypeOK
<1>1. IInv => TypeOK
  BY DEF IInv
<1> QED BY <1>1, Invariant, PTL

(* slot_committed means that the slot holds the image, byte for byte.      *)
THEOREM CommitIsSound == NoEmptyPayload => (Spec => []CommitMeansImage)
<1> SUFFICES ASSUME NoEmptyPayload PROVE Spec => []CommitMeansImage
  OBVIOUS
<1>1. IInv => CommitMeansImage
  BY InvImplies
<1> QED BY <1>1, Invariant, PTL

(* Whenever power is lost, a header in the slot stands in front of the     *)
(* whole image it belongs to.                                              *)
THEOREM SlotIsNeverTorn == NoEmptyPayload => (Spec => []HeaderMeansImage)
<1> SUFFICES ASSUME NoEmptyPayload PROVE Spec => []HeaderMeansImage
  OBVIOUS
<1>1. IInv => HeaderMeansImage
  BY InvImplies
<1> QED BY <1>1, Invariant, PTL

-----------------------------------------------------------------------------
(* The download implements DownloadSlot. *)

(* What an onlooker finds in the slot. *)
Holds == IF OldImage THEN "old" ELSE IF NewImage THEN "new" ELSE "none"

(* A first byte that is neither an old nor the new one leaves no image. *)
LEMMA NoFirstByte ==
  ASSUME oldLen \in Nat, img.claim \in Nat
  PROVE  /\ slot[0] # Old => ~OldImage
         /\ slot[0] # 0 => ~NewImage
<1>1. slot[0] # Old => ~OldImage
  <2> SUFFICES ASSUME OldImage PROVE slot[0] = Old
    OBVIOUS
  <2>1. 0 \in 0..(oldLen - 1)
    BY DEF OldImage
  <2> QED BY <2>1 DEF OldImage
<1>2. slot[0] # 0 => ~NewImage
  <2>1. 0 \in 0..(HeaderSize + img.claim - 1)
    BY SlotFacts
  <2> QED BY <2>1 DEF NewImage
<1> QED BY <1>1, <1>2

LEMMA LengthTypes == IInv => oldLen \in Nat /\ img.claim \in Nat /\ img.len \in Nat
BY SlotFacts, DownloadAssumption DEF IInv, TypeOK, ImageType

(* The same after a step. *)
LEMMA NoFirstByteThen ==
  ASSUME IInv'
  PROVE  /\ slot'[0] # Old => ~OldImage'
         /\ slot'[0] # 0 => ~NewImage'
<1>0. oldLen' \in Nat /\ img'.claim \in Nat
  BY SlotFacts, DownloadAssumption DEF IInv, TypeOK, ImageType
<1>1. slot'[0] # Old => ~OldImage'
  <2> SUFFICES ASSUME OldImage' PROVE slot'[0] = Old
    OBVIOUS
  <2>1. oldLen' \in Nat /\ oldLen' > 0
    BY <1>0 DEF OldImage
  <2>2. \A n \in Nat : n > 0 => 0 \in 0..(n - 1)
    OBVIOUS
  <2>3. 0 \in 0..(oldLen' - 1)
    BY <2>1, <2>2
  <2> QED BY <2>3 DEF OldImage
<1>2. slot'[0] # 0 => ~NewImage'
  <2>1. 0 \in 0..(HeaderSize + img'.claim - 1)
    BY <1>0, SlotFacts
  <2> QED BY <2>1 DEF NewImage
<1> QED BY <1>1, <1>2

LEMMA SameHolds ==
  ASSUME UNCHANGED <<slot, oldLen, img>> PROVE Holds' = Holds
BY DEF Holds, OldImage, NewImage

LEMMA SpoiltHolds ==
  ASSUME IInv', slot'[0] \in {Erased, Junk} PROVE Holds' = "none"
<1>1. slot'[0] # Old /\ slot'[0] # 0
  BY DEF Erased, Junk, Old
<1>2. ~OldImage' /\ ~NewImage'
  BY <1>1, NoFirstByteThen
<1> QED BY <1>2 DEF Holds

(* During a call the slot holds no new image. *)
LEMMA RunningHolds == IInv /\ pc # "idle" => Holds \in {"old", "none"}
BY LengthTypes, NoFirstByte DEF IInv, Running, Holds

(* A step inside a call leaves the slot alone, or spoils it. *)
LEMMA StepInside ==
  ASSUME IInv, IInv', Step, pc' # "idle"
  PROVE  pc # "idle" /\ (Holds' = Holds \/ Holds' = "none")
<1>1. CASE RequestRange \/ Piece \/ RangeReturns \/ ParseGzipHeader \/ Starve
           \/ InflateError
  <2>1. pc # "idle" /\ UNCHANGED <<slot, oldLen, img>>
    BY <1>1 DEF RequestRange, Piece, RangeReturns, ParseGzipHeader, Starve, InflateError
  <2> QED BY <2>1, SameHolds
<1>2. CASE InflatePage \/ InflateTail
  <2>1. pc # "idle" /\ UNCHANGED <<slot, oldLen, img>>
    BY <1>2 DEF InflatePage, InflateTail, Inflate
  <2> QED BY <2>1, SameHolds
<1>3. CASE EraseSector
  <2>1. pc = "stage" /\ unerased' = unerased + SectorSize /\ UNCHANGED <<perr, pc>>
    BY <1>3 DEF EraseSector, Erasing, ends
  <2>2. unerased' > 0 /\ unerased' \in Nat
    BY <2>1, StageFacts
  <2>3. slot'[0] = Erased
    BY <2>1, <2>2, StageFacts DEF IInv, Running, Clean, Ahead
  <2> QED BY <2>1, <2>3, SpoiltHolds
<1>4. CASE EraseFails
  <2>1. pc = "stage" /\ UNCHANGED <<oldLen, img>>
    BY <1>4 DEF EraseFails, Erasing, StageFails
  <2>2. slot' = slot \/ slot'[0] \in {Erased, Junk}
    BY <1>4, <2>1, HalfErasedFacts DEF EraseFails
  <2> QED BY <2>1, <2>2, SameHolds, SpoiltHolds
<1>5. CASE ProgramPage \/ ProgramFails
  <2>1. Programming /\ pc = "stage"
    BY <1>5 DEF ProgramPage, ProgramFails, Programming
  <2>2. PICK k \in 0..left : slot' = Programmed(qoff, k, out - left)
    <3>1. left \in 0..left
      BY <2>1, StageFacts
    <3> QED BY <1>5, <3>1 DEF ProgramPage, ProgramFails, HalfProgrammed
  <2>3. slot'[0] = Erased
    BY <2>1, <2>2, PageFacts
  <2> QED BY <2>1, <2>3, SpoiltHolds
<1>6. ~(Reject \/ Commit \/ CommitFails)
  BY DEF Reject, Commit, CommitFails, Fail
<1> QED BY <1>1, <1>2, <1>3, <1>4, <1>5, <1>6
        DEF Step, LeaveLoop, NextMegachunk, Resume, Stall

(* At the commit the old image is gone: its first sector was erased before *)
(* the payload was written.                                                *)
LEMMA CommitHolds ==
  ASSUME NoEmptyPayload, IInv, IInv', pc = "finish", Accepted, NEW k \in 0..HeaderSize,
         slot' = Programmed(0, k, 0), UNCHANGED <<oldLen, img>>
  PROVE  /\ Holds = "none"
         /\ Holds' \in {"none", "new"}
         /\ k = HeaderSize => Holds' = "new"
<1>1. /\ slot \in [Offsets -> Cells] /\ HeaderSize \in Nat /\ SlotSize \in Nat
      /\ 0 < HeaderSize /\ HeaderSize < SlotSize
      /\ qoff \in Nat /\ unerased \in Nat /\ k \in Nat /\ k <= HeaderSize
  BY SlotFacts DEF IInv, TypeOK
<1>2. img.claim \in Nat /\ img.claim > 0
  BY DownloadAssumption DEF NoEmptyPayload, IInv, TypeOK, ImageType
<1>3. qoff = HeaderSize + img.claim
  BY <1>1, <1>2 DEF Accepted, PayloadWritten
<1>4. Ahead /\ qoff <= unerased
  BY <1>1, <1>2, <1>3 DEF IInv, Running, Clean, Covered, Accepted
<1>5. 0 \in Offsets /\ slot[0] = Erased
  BY <1>1, <1>2, <1>3, <1>4 DEF Ahead, Offsets
<1>6. slot'[0] \in {0, Erased}
  <2>1. /\ 0 \notin 0..(0 + k - 1) => slot'[0] = slot[0]
        /\ 0 \in 0..(0 + k - 1) =>
             slot'[0] = IF slot[0] = Erased THEN 0 + (0 - 0) ELSE Junk
    BY <1>1, <1>5, ProgrammedCells
  <2> QED BY <1>5, <2>1
<1>7. ~OldImage /\ ~NewImage
  BY <1>5, LengthTypes, NoFirstByte DEF Erased, Old
<1>8. ~OldImage'
  <2>1. slot'[0] # Old
    BY <1>6 DEF Erased, Old
  <2> QED BY <2>1, NoFirstByteThen
<1>9. k = HeaderSize => NewImage'
  BY CommitFacts
<1> QED BY <1>7, <1>8, <1>9 DEF Holds

(* The end of a call, by whatever step: the image it may have found is     *)
(* there or gone, and a new one is only in a slot that held none.          *)
LEMMA EndOfCall ==
  ASSUME NoEmptyPayload, IInv, IInv', Step \/ PowerLoss, pc' = "idle"
  PROVE  /\ pc # "idle"
         /\ \/ outcome' # "ok" /\ Holds' \in {Holds, "none"}
            \/ outcome' # "ok" /\ Holds = "none" /\ Holds' = "new"
            \/ outcome' = "ok" /\ Holds = "none" /\ Holds' = "new"
<1>1. CASE Reject
  <2>1. pc # "idle" /\ outcome' = "failed" /\ UNCHANGED <<slot, oldLen, img>>
    BY <1>1 DEF Reject, Fail
  <2> QED BY <2>1, SameHolds
<1>2. CASE Commit
  <2>1. /\ pc = "finish" /\ Accepted /\ outcome' = "ok" /\ UNCHANGED <<oldLen, img>>
        /\ slot' = Programmed(0, HeaderSize, 0) /\ HeaderSize \in 0..HeaderSize
    BY <1>2, SlotFacts DEF Commit
  <2> QED BY <2>1, CommitHolds
<1>3. CASE CommitFails
  <2>1. /\ pc = "finish" /\ Accepted /\ outcome' = "failed" /\ UNCHANGED <<oldLen, img>>
        /\ slot' \in HalfProgrammed(0, HeaderSize, 0)
    BY <1>3 DEF CommitFails, Fail
  <2>2. PICK k \in 0..HeaderSize : slot' = Programmed(0, k, 0)
    BY <2>1 DEF HalfProgrammed
  <2> QED BY <2>1, <2>2, CommitHolds
<1>4. CASE PowerLoss
  <2>0. pc # "idle" /\ outcome' # "ok" /\ UNCHANGED <<oldLen, img>>
    BY <1>4 DEF PowerLoss, ResetState
  <2>1. CASE slot' = slot
    BY <2>0, <2>1, SameHolds
  <2>2. CASE slot'[0] \in {Erased, Junk}
    BY <2>0, <2>2, SpoiltHolds
  <2>3. CASE Erasing /\ unerased < SlotSize /\ slot' \in HalfErased(unerased)
    BY <2>1, <2>2, <2>3, HalfErasedFacts DEF Erasing
  <2>4. CASE Erasing /\ unerased < SlotSize /\ slot' = SectorSetTo(unerased, Erased)
    <3>1. /\ slot \in [Offsets -> Cells] /\ unerased \in Nat /\ 0 \in Offsets
          /\ SectorSize \in Nat /\ 0 < SectorSize /\ (unerased > 0 => slot[0] = Erased)
      BY <2>4, StageFacts DEF Erasing
    <3>2. slot'[0] = IF 0 \in Sector(unerased) THEN Erased ELSE slot[0]
      BY <2>4, <3>1, SectorCells, CellTypes
    <3>3. unerased = 0 => 0 \in Sector(unerased)
      BY <3>1 DEF Sector
    <3> QED BY <2>2, <3>1, <3>2, <3>3
  <2>5. CASE Programming /\ slot' \in HalfProgrammed(qoff, left, out - left)
    <3>1. PICK k \in 0..left : slot' = Programmed(qoff, k, out - left)
      BY <2>5 DEF HalfProgrammed
    <3> QED BY <2>2, <2>5, <3>1, PageFacts
  <2>6. CASE pc = "finish" /\ Accepted /\ slot' \in HalfProgrammed(0, HeaderSize, 0)
    <3>1. PICK k \in 0..HeaderSize : slot' = Programmed(0, k, 0)
      BY <2>6 DEF HalfProgrammed
    <3>2. Holds = "none" /\ Holds' \in {"none", "new"}
      BY <2>0, <2>6, <3>1, CommitHolds
    <3> QED BY <2>0, <3>2
  <2> QED BY <1>4, <2>1, <2>3, <2>4, <2>5, <2>6 DEF PowerLoss
<1>5. Step => Reject \/ Commit \/ CommitFails
  <2>1. /\ ~(RequestRange \/ Piece \/ LeaveLoop \/ NextMegachunk \/ Resume \/ Stall)
        /\ ~(ParseGzipHeader \/ Starve \/ InflateError)
    BY DEF RequestRange, Piece, LeaveLoop, NextMegachunk, Resume, Stall,
           ParseGzipHeader, Starve, InflateError
  <2>2. ~(InflatePage \/ InflateTail)
    BY DEF InflatePage, InflateTail, Inflate
  <2>3. ~(EraseSector \/ EraseFails \/ ProgramPage \/ ProgramFails)
    BY DEF EraseSector, EraseFails, ProgramPage, ProgramFails, StageFails, Erasing
  <2> QED BY <2>1, <2>2, <2>3 DEF Step
<1> QED BY <1>1, <1>2, <1>3, <1>4, <1>5

(* A call begins: an image that is there becomes an old one, nothing else  *)
(* becomes an image.                                                       *)
LEMMA DownloadHolds ==
  ASSUME IInv, IInv', Download
  PROVE  /\ pc = "idle" /\ pc' # "idle"
         /\ Holds' = IF Holds = "none" THEN "none" ELSE "old"
<1>0. pc = "idle" /\ pc' # "idle"
  BY DEF Download
<1>1. /\ HeaderSize \in Nat /\ 0 < HeaderSize /\ HeaderSize < SlotSize /\ SlotSize \in Nat
      /\ oldLen \in 0..SlotSize /\ img.claim \in Nat
  BY SlotFacts, DownloadAssumption DEF IInv, TypeOK, ImageType
<1>2. ~NewImage'
  <2>1. slot'[0] # 0
    BY <1>0 DEF IInv, Running
  <2> QED BY <2>1, NoFirstByteThen
<1>3. OldImage => OldImage'
  <2> SUFFICES ASSUME OldImage PROVE OldImage'
    OBVIOUS
  <2>1. oldLen' = oldLen
    BY DEF Download
  <2>2. \A o \in 0..(oldLen - 1) : o \in Offsets /\ slot[o] = Old
    BY <1>1 DEF OldImage, Offsets
  <2>3. \A o \in 0..(oldLen - 1) : slot'[o] = Old
    BY <2>2 DEF Download, Erased, Old
  <2> QED BY <2>1, <2>3 DEF OldImage
<1>4. ~OldImage /\ NewImage => OldImage'
  <2> SUFFICES ASSUME ~OldImage, NewImage PROVE OldImage'
    OBVIOUS
  <2>1. oldLen' = HeaderSize + img.claim /\ oldLen' > 0
    BY <1>1 DEF Download
  <2>2. \A o \in 0..(HeaderSize + img.claim - 1) :
          o \in Offsets /\ slot[o] = o /\ slot[o] # Erased
    BY <1>1 DEF NewImage, Offsets, Erased
  <2>3. slot' = [ o \in Offsets |-> IF slot[o] = Erased THEN Erased ELSE Old ]
    BY DEF Download
  <2>4. ASSUME NEW o \in 0..(oldLen' - 1) PROVE slot'[o] = Old
    <3>1. o \in 0..(HeaderSize + img.claim - 1)
      BY <1>1, <2>1
    <3>2. o \in Offsets /\ slot[o] # Erased
      BY <2>2, <3>1
    <3> QED BY <2>3, <3>2
  <2> QED BY <2>1, <2>4 DEF OldImage
<1>5. ~OldImage /\ ~NewImage => ~OldImage'
  BY <1>1 DEF Download, OldImage
<1> QED BY <1>0, <1>2, <1>3, <1>4, <1>5 DEF Holds

LEMMA InitHolds == Init => Holds \in {"old", "none"}
<1> SUFFICES ASSUME Init PROVE ~OldImage => ~NewImage
  BY DEF Holds
<1>1. /\ HeaderSize \in Nat /\ 0 < HeaderSize /\ HeaderSize < SlotSize /\ SlotSize \in Nat
      /\ oldLen \in Nat /\ oldLen <= SlotSize /\ img.claim \in Nat
  BY SlotFacts, DownloadAssumption DEF Init, ImageType
<1>2. 0 \in Offsets /\ slot[0] # 0
  BY <1>1 DEF Init, Offsets, Old, Erased
<1> QED BY <1>1, <1>2, NoFirstByte

(* Every step of the download is a step of DownloadSlot, or changes        *)
(* nothing an onlooker sees.                                               *)
LEMMA StepIsSlotStep ==
  ASSUME NoEmptyPayload, IInv, IInv', [Next]_vars PROVE [Slot!Next]_(Slot!vars)
<1> DEFINE Call == IF pc # "idle" THEN "running"
                   ELSE IF outcome = "ok" THEN "done" ELSE "idle"
<1> USE DEF Holds
<1>1. CASE Download
  <2>1. Slot!Start
    BY <1>1, DownloadHolds DEF Slot!Start
  <2> QED BY <2>1 DEF Slot!Next
<1>2. CASE (Step \/ PowerLoss) /\ pc' # "idle"
  <2>1. Step
    BY <1>2 DEF PowerLoss
  <2>2. pc # "idle" /\ (Holds' = Holds \/ Holds' = "none")
    BY <1>2, <2>1, StepInside
  <2>3. Slot!Spoil \/ UNCHANGED Slot!vars
    BY <1>2, <2>2 DEF Slot!Spoil, Slot!vars
  <2> QED BY <2>3 DEF Slot!Next
<1>3. CASE (Step \/ PowerLoss) /\ pc' = "idle"
  <2>1. Slot!Stop \/ Slot!Commit
    BY <1>3, EndOfCall DEF Slot!Stop, Slot!Commit
  <2> QED BY <2>1 DEF Slot!Next
<1>4. CASE UNCHANGED vars
  <2>1. UNCHANGED <<slot, oldLen, img, pc, outcome>>
    BY <1>4 DEF vars
  <2>2. UNCHANGED Slot!vars
    BY <2>1, SameHolds DEF Slot!vars
  <2> QED BY <2>2
<1> QED BY <1>1, <1>2, <1>3, <1>4 DEF Next

(* Whatever cuts a call short, it implements DownloadSlot: whoever looks   *)
(* at the slot between two steps finds the image it held, nothing, or the  *)
(* whole new image, which appears in the one step that lets the call       *)
(* succeed.                                                                *)
THEOREM ImplementsDownloadSlot == NoEmptyPayload => (Spec => IsDownloadSlot)
<1> SUFFICES ASSUME NoEmptyPayload PROVE Spec => IsDownloadSlot
  OBVIOUS
<1>1. Init => Slot!Init
  BY InitHolds DEF Init, Holds, Slot!Init
<1>2. IInv /\ IInv' /\ [Next]_vars => [Slot!Next]_(Slot!vars)
  BY StepIsSlotStep
<1> QED BY <1>1, <1>2, Invariant, PTL DEF Spec, IsDownloadSlot, Slot!Spec
=============================================================================
