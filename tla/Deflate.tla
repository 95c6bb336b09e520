------------------------------- MODULE Deflate -------------------------------
(***************************************************************************)
(* The compressor of a log upload, bit by bit: uzlib_compress() (genlz77.c)*)
(* turns data into literals and matches, defl_static.c writes them with    *)
(* the fixed Huffman code, and ilabs_log_upload.cpp frames the result as a *)
(* gzip member.  A token is [dist, len]: a match, or, with dist 0, the     *)
(* literal byte `len`.  Inflate reads the member back.                     *)
(***************************************************************************)
EXTENDS Integers, Sequences, SequencesExt, FiniteSetsExt

CONSTANTS
  Inputs,          \* data to compress
  Plans,           \* sequences of tokens to write as they are
  HashBits,        \* HASH_BITS
  DictSize         \* MAX_OFFSET

MinMatch == 3
MaxMatch == 258
MaxDistance == 32768

(* The tokens that there are codes for. *)
Coded == [ dist : {0}, len : 0..255 ] \cup [ dist : 1..MaxDistance, len : MinMatch..MaxMatch ]

ASSUME DeflateAssumption ==
  /\ HashBits \in 1..24 /\ DictSize \in 1..32768
  /\ \A t \in Inputs : t \in Seq(0..255)

ASSUME PlansAssumption == \A t \in Plans : t \in Seq(Coded)

VARIABLES
  stage,           \* "compress" or "plan", then "file"
  src,             \* the input of uzlib_compress(), or a plan
  at,              \* src - its start
  bucket,          \* hash_table
  sent,            \* tokens written
  bits             \* what outbits() was given; then the file

deflateVars == <<stage, src, at, bucket, sent, bits>>

-----------------------------------------------------------------------------
(* Writing: defl_static.c. *)

(* outbits(v, n): the low n bits, the lowest first. *)
OutBits(v, n) == [ i \in 1..n |-> (v \div 2^(i - 1)) % 2 ]

(* outbits(mirrorbytes[v] ..): the n high bits of a byte, the highest first. *)
Mirrored(v, n) == [ i \in 1..n |-> (v \div 2^(8 - i)) % 2 ]

(* lencodes and distcodes: extra bits, smallest and largest value. *)
LenCodes == <<
  <<0, 3, 3>>, <<0, 4, 4>>, <<0, 5, 5>>, <<0, 6, 6>>, <<0, 7, 7>>, <<0, 8, 8>>,
  <<0, 9, 9>>, <<0, 10, 10>>, <<1, 11, 12>>, <<1, 13, 14>>, <<1, 15, 16>>,
  <<1, 17, 18>>, <<2, 19, 22>>, <<2, 23, 26>>, <<2, 27, 30>>, <<2, 31, 34>>,
  <<3, 35, 42>>, <<3, 43, 50>>, <<3, 51, 58>>, <<3, 59, 66>>, <<4, 67, 82>>,
  <<4, 83, 98>>, <<4, 99, 114>>, <<4, 115, 130>>, <<5, 131, 162>>,
  <<5, 163, 194>>, <<5, 195, 226>>, <<5, 227, 257>>, <<0, 258, 258>> >>

DistCodes == <<
  <<0, 1, 1>>, <<0, 2, 2>>, <<0, 3, 3>>, <<0, 4, 4>>, <<1, 5, 6>>, <<1, 7, 8>>,
  <<2, 9, 12>>, <<2, 13, 16>>, <<3, 17, 24>>, <<3, 25, 32>>, <<4, 33, 48>>,
  <<4, 49, 64>>, <<5, 65, 96>>, <<5, 97, 128>>, <<6, 129, 192>>, <<6, 193, 256>>,
  <<7, 257, 384>>, <<7, 385, 512>>, <<8, 513, 768>>, <<8, 769, 1024>>,
  <<9, 1025, 1536>>, <<9, 1537, 2048>>, <<10, 2049, 3072>>, <<10, 3073, 4096>>,
  <<11, 4097, 6144>>, <<11, 6145, 8192>>, <<12, 8193, 12288>>,
  <<12, 12289, 16384>>, <<13, 16385, 24576>>, <<13, 24577, 32768>> >>

(* The binary search for the record a value is in. *)
CodeOf(codes, v) == CHOOSE k \in DOMAIN codes : codes[k][2] <= v /\ v <= codes[k][3]

Extra(record, v) == OutBits(v - record[2], record[1])

(* zlib_literal() *)
Literal(c) == IF c <= 143 THEN Mirrored(48 + c, 8) ELSE <<1>> \o Mirrored(c, 8)

LengthCode(code) ==
  IF code <= 279 THEN Mirrored((code - 256) * 2, 7) ELSE Mirrored(192 - 280 + code, 8)

(* zlib_match(), of a length within MAX_MATCH. *)
Match(d, n) ==
  LET l == CodeOf(LenCodes, n)
      k == CodeOf(DistCodes, d)
  IN  LengthCode(l + 256) \o Extra(LenCodes[l], n)
        \o Mirrored((k - 1) * 8, 5) \o Extra(DistCodes[k], d)

Encoded(token) == IF token.dist = 0 THEN Literal(token.len) ELSE Match(token.dist, token.len)

(* A mutant of BlockStart: the zlib header that is commented out in it. *)
BlockStartZlib == OutBits(40056, 16) \o OutBits(1, 1) \o OutBits(1, 2)

(* zlib_start_block() *)
BlockStart == OutBits(1, 1) \o OutBits(1, 2)

(* zlib_finish_block() *)
BlockEnd == OutBits(0, 7) \o OutBits(0, 7)

(* Bits that do not fill a byte stay in the accumulator. *)
WholeBytes(stream) == SubSeq(stream, 1, (Len(stream) \div 8) * 8)

ByteBits(bytes) == FlattenSeq([ i \in DOMAIN bytes |-> OutBits(bytes[i], 8) ])

(* writeGzipHeader() *)
MemberHeader == <<31, 139, 8, 0, 0, 0, 0, 0, 0, 255>>

(* A gzip file: header, deflate data, and a trailer of checksum and length *)
(* whose values are left open.                                             *)
GzipFile(header, stream) ==
  ByteBits(header) \o WholeBytes(stream) \o [ i \in 1..64 |-> 1 ]

-----------------------------------------------------------------------------
NoBucket == [ h \in {} |-> 0 ]

DeflateInit ==
  /\ \/ /\ stage = "compress" /\ src \in Inputs
        /\ sent = <<>> /\ bits = BlockStart
     \/ /\ stage = "plan" /\ src \in Plans
        /\ sent = <<>> /\ bits = BlockStart
  /\ at = 0 /\ bucket = NoBucket

(* HASH() of the three bytes from i on. *)
Hash(i) ==
  LET v == src[i + 1] * 65536 + src[i + 2] * 256 + src[i + 3]
  IN  (v \div 2^(24 - HashBits) - v) % 2^HashBits

Top == Len(src) - MinMatch

Send(token) ==
  /\ sent' = Append(sent, token)
  /\ bits' = bits \o Encoded(token)

(* A mutant of Matches: the distance is not compared. *)
MatchesAnyDistance(subs) == \A i \in 1..MinMatch : src[at + i] = src[subs + i]

(* What the bucket holds is a match. *)
Matches(subs) ==
  at - subs <= DictSize /\ \A i \in 1..MinMatch : src[at + i] = src[subs + i]

(* The match is n bytes long: the loop stops at a difference, at the tail  *)
(* or at MAX_MATCH.                                                        *)
Reaches(subs, n) ==
  /\ n = MinMatch \/ at + n <= Top
  /\ \A i \in (MinMatch + 1)..n : src[at + i] = src[subs + i]
  /\ n = MaxMatch \/ at + n >= Top \/ src[at + n + 1] # src[subs + n + 1]

(* One round of uzlib_compress(). *)
Compress ==
  /\ stage = "compress" /\ at < Top
  /\ \E h \in {Hash(at)} :
       /\ bucket' = [ k \in DOMAIN bucket \cup {h} |-> IF k = h THEN at ELSE bucket[k] ]
       /\ IF h \in DOMAIN bucket /\ Matches(bucket[h])
            THEN \E n \in MinMatch..MaxMatch :
                   /\ Reaches(bucket[h], n)
                   /\ Send([ dist |-> at - bucket[h], len |-> n ])
                   /\ at' = at + n
            ELSE /\ Send([ dist |-> 0, len |-> src[at + 1] ])
                 /\ at' = at + 1
  /\ UNCHANGED <<stage, src>>

(* The tail that is too short for a match. *)
CompressTail ==
  /\ stage = "compress" /\ at >= Top /\ at < Len(src)
  /\ Send([ dist |-> 0, len |-> src[at + 1] ])
  /\ at' = at + 1
  /\ UNCHANGED <<stage, src, bucket>>

(* A token of a plan. *)
WriteToken ==
  /\ stage = "plan" /\ at < Len(src)
  /\ Send(src[at + 1])
  /\ at' = at + 1
  /\ UNCHANGED <<stage, src, bucket>>

(* The block ends, between the gzip header and trailer of the member.      *)
FinishBlock ==
  /\ stage \in {"compress", "plan"} /\ at = Len(src)
  /\ bits' = GzipFile(MemberHeader, bits \o BlockEnd)
  /\ stage' = "file"
  /\ UNCHANGED <<src, at, bucket, sent>>

DeflateNext == Compress \/ CompressTail \/ WriteToken \/ FinishBlock

DeflateSpec == DeflateInit /\ [][DeflateNext]_deflateVars

-----------------------------------------------------------------------------
(* Properties. *)

(* Where in the data a token begins. *)
Start ==
  LET start[k \in DOMAIN sent] ==
        IF k = 1 THEN 0
        ELSE start[k - 1] + (IF sent[k - 1].dist = 0 THEN 1 ELSE sent[k - 1].len)
  IN  start

(* What uzlib_compress() has written stands for the data it has consumed,  *)
(* whatever the hash takes for a match, to the last byte of the tail: each *)
(* literal is the byte in its place, each match a copy of earlier data,    *)
(* within the distances and lengths that the format has.                   *)
TokensMeanData ==
  stage = "compress" =>
    \A k \in DOMAIN sent :
      LET t == sent[k]
          end == IF k = Len(sent) THEN at ELSE Start[k + 1]
      IN  IF t.dist = 0
            THEN end = Start[k] + 1 /\ src[end] = t.len
            ELSE /\ t.dist <= DictSize /\ t.dist <= Start[k]
                 /\ t.len \in MinMatch..MaxMatch /\ end = Start[k] + t.len
                 /\ \A i \in (Start[k] + 1)..end : src[i] = src[i - t.dist]

(* Compression never costs more than nine bits a byte and the block's own  *)
(* 17: what log_upload.cpp sizes its buffers and its smallest cap by.      *)
NineBitsAByte ==
  stage = "compress" => Len(bits) + Len(BlockEnd) <= 9 * at + 17
=============================================================================
