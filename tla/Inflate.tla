------------------------------- MODULE Inflate -------------------------------
(***************************************************************************)
(* The decoder of tinflate.c and tinfgzip.c, bit by bit: the gzip header,  *)
(* stored, fixed and dynamic blocks, the trailer.  It reads what the       *)
(* device's own compressor wrote (Deflate), and the files of an encoder    *)
(* that is not in the repository: any fields in the header, any sequence   *)
(* of blocks, codes and run lengths as the stream describes them.          *)
(*                                                                         *)
(* A file may be cut after any byte: uzlib_get_byte() then calls           *)
(* src_starved_cb(), sets `eof` and goes on with zeros.  The call that saw *)
(* that is undone by ota_chunk_cb(), see InflateReplay, which also models  *)
(* what is done with the tokens.                                           *)
(***************************************************************************)
EXTENDS Deflate

CONSTANTS
  Files,           \* files of the encoder, see Blocks
  Window           \* dict_size

ASSUME DecoderAssumption == Window \in 1..32768

VARIABLES
  reading,         \* "no", "header", "block", "length", "stored", "lengths",
                   \* "data", "trailer", "end"
  limit,           \* bytes of the file that have arrived
  rd,              \* bits read
  eof,             \* eof
  final, btype,    \* bfinal, btype
  code,            \* hlit, hdist and the tree of the code lengths
  lengths,         \* lengths, as far as they have been decoded
  trees,           \* what ltree and dtree were built from
  left,            \* curlen of a stored block
  got,             \* tokens read
  result           \* "more", "done", "starved" or "error"

block == <<final, btype, code, lengths, trees, left>>
inflateVars == <<reading, limit, rd, eof, block, got, result>>

-----------------------------------------------------------------------------
(* The encoder (RFC 1951, RFC 1952).  A block is its type, its tokens, and *)
(* for type 2 the code lengths of literals and distances by symbol, the    *)
(* lengths that describe these, and how it uses runs: up to `longest`, and *)
(* copying a length rather than repeating zero if `copies`.                *)

(* The canonical code of a symbol: the codes before it, as fractions of    *)
(* the code space.                                                         *)
Canonical(lens, s) ==
  LET n == lens[s]
      before == { t \in DOMAIN lens : lens[t] < n \/ (lens[t] = n /\ t < s) }
      value == FoldSet(LAMBDA t, sum : sum + 2^(n - lens[t] + 15), 0, before) \div 2^15
  IN  [ i \in 1..n |-> (value \div 2^(n - i)) % 2 ]

Dense(lens, n) == [ i \in 1..n |-> IF i - 1 \in DOMAIN lens THEN lens[i - 1] ELSE 0 ]

(* The run an encoder writes at position n: symbol and length. *)
Run(lens, n, b) ==
  LET same == Min({ j \in (n + 1)..(Len(lens) + 1) : j > Len(lens) \/ lens[j] # lens[n] }) - n
      run == Min({same, b.longest})
  IN  CASE b.copies /\ n > 1 /\ lens[n - 1] = lens[n] /\ run >= 3 -> <<16, Min({run, 6})>>
        [] lens[n] = 0 /\ run >= 11 -> <<18, Min({run, 138})>>
        [] lens[n] = 0 /\ run \in 3..10 -> <<17, run>>
        [] OTHER -> <<lens[n], 1>>

Runs(lens, b) ==
  LET from[n \in 1..(Len(lens) + 1)] ==
        IF n > Len(lens) THEN <<>>
        ELSE LET r == Run(lens, n, b) IN <<r>> \o from[n + r[2]]
  IN  from[1]

ClcIdx == <<16, 17, 18, 0, 8, 7, 9, 6, 10, 5, 11, 4, 12, 3, 13, 2, 14, 1, 15>>

TreesOf(b) ==
  LET nlit == Max(DOMAIN b.lit) + 1
      ndist == Max(DOMAIN b.dist) + 1
      clens == [ i \in 1..19 |-> IF ClcIdx[i] \in DOMAIN b.code THEN b.code[ClcIdx[i]] ELSE 0 ]
      nclen == Max({4} \cup { i \in 1..19 : clens[i] # 0 })
      runs == Runs(Dense(b.lit, nlit) \o Dense(b.dist, ndist), b)
      bitsOf(r) == Canonical(b.code, r[1]) \o
        CASE r[1] = 16 -> OutBits(r[2] - 3, 2) [] r[1] = 17 -> OutBits(r[2] - 3, 3)
          [] r[1] = 18 -> OutBits(r[2] - 11, 7) [] OTHER -> <<>>
  IN  OutBits(nlit - 257, 5) \o OutBits(ndist - 1, 5) \o OutBits(nclen - 4, 4)
        \o FlattenSeq([ i \in 1..nclen |-> OutBits(clens[i], 3) ])
        \o FlattenSeq([ i \in DOMAIN runs |-> bitsOf(runs[i]) ])

EncodedWith(b, token) ==
  IF token.dist = 0 THEN Canonical(b.lit, token.len)
  ELSE LET l == CodeOf(LenCodes, token.len)
           k == CodeOf(DistCodes, token.dist)
       IN  Canonical(b.lit, l + 256) \o Extra(LenCodes[l], token.len)
             \o Canonical(b.dist, k - 1) \o Extra(DistCodes[k], token.dist)

Padding(n) == [ i \in 1..((8 - (n % 8)) % 8) |-> 0 ]

(* A block behind n bits. *)
Block(b, last, n) ==
  OutBits(IF last THEN 1 ELSE 0, 1) \o OutBits(b.type, 2) \o
  CASE b.type = 0 ->
         Padding(n + 3) \o OutBits(Len(b.tokens), 16) \o OutBits(65535 - Len(b.tokens), 16)
           \o ByteBits([ i \in DOMAIN b.tokens |-> b.tokens[i].len ])
    [] b.type = 1 -> FlattenSeq([ i \in DOMAIN b.tokens |-> Encoded(b.tokens[i]) ])
                       \o OutBits(0, 7)
    [] b.type = 2 -> TreesOf(b) \o FlattenSeq([ i \in DOMAIN b.tokens |-> EncodedWith(b, b.tokens[i]) ])
                       \o Canonical(b.lit, 256)

(* A header with extra data, name, comment and checksum, as they are       *)
(* there.                                                                  *)
Header(h) ==
  <<31, 139, 8, 4 * Len(h.extra) + 8 * Len(h.name) + 16 * Len(h.comment) + 2 * Len(h.hcrc),
    1, 2, 3, 4, 2, 3>>
    \o FlattenSeq([ i \in DOMAIN h.extra |->
                      <<Len(h.extra[i]) % 256, Len(h.extra[i]) \div 256>> \o h.extra[i] ])
    \o FlattenSeq([ i \in DOMAIN h.name |-> Append(h.name[i], 0) ])
    \o FlattenSeq([ i \in DOMAIN h.comment |-> Append(h.comment[i], 0) ])
    \o FlattenSeq(h.hcrc)

WriteFile ==
  /\ stage = "encode"
  /\ LET b == src.blocks
         body[k \in 0..Len(b)] ==
           IF k = 0 THEN <<>>
           ELSE body[k - 1] \o Block(b[k], k = Len(b), Len(body[k - 1]))
     IN  /\ bits' = GzipFile(Header(src.header), body[Len(b)] \o Padding(Len(body[Len(b)])))
         /\ sent' = FlattenSeq([ k \in DOMAIN b |-> b[k].tokens ])
  /\ stage' = "file"
  /\ UNCHANGED <<src, at, bucket>>

-----------------------------------------------------------------------------
(* The decoder. *)

LengthBits == << 0, 0, 0, 0, 0, 0, 0, 0, 1, 1, 1, 1, 2, 2, 2, 2, 3, 3, 3, 3,
                 4, 4, 4, 4, 5, 5, 5, 5, 0 >>
LengthBase == << 3, 4, 5, 6, 7, 8, 9, 10, 11, 13, 15, 17, 19, 23, 27, 31, 35, 43,
                 51, 59, 67, 83, 99, 115, 131, 163, 195, 227, 258 >>
DistBits == << 0, 0, 0, 0, 1, 1, 2, 2, 3, 3, 4, 4, 5, 5, 6, 6, 7, 7, 8, 8,
               9, 9, 10, 10, 11, 11, 12, 12, 13, 13 >>
DistBase == << 1, 2, 3, 4, 5, 7, 9, 13, 17, 25, 33, 49, 65, 97, 129, 193, 257, 385,
               513, 769, 1025, 1537, 2049, 3073, 4097, 6145, 8193, 12289, 16385,
               24577 >>

(* tinf_build_fixed_trees() *)
FixedTree ==
  [ table |-> [ n \in 0..15 |-> CASE n = 7 -> 24 [] n = 8 -> 152 [] n = 9 -> 112
                                  [] OTHER -> 0 ],
    trans |-> [ i \in 0..287 |-> IF i < 24 THEN 256 + i
                                 ELSE IF i < 24 + 144 THEN i - 24
                                 ELSE IF i < 24 + 144 + 8 THEN 280 + i - 168
                                 ELSE 144 + i - 176 ] ]

FixedDistTree ==
  [ table |-> [ n \in 0..15 |-> IF n = 5 THEN 32 ELSE 0 ],
    trans |-> [ i \in 0..31 |-> i ] ]

(* tinf_build_tree(): how many codes of each length, and the symbols in    *)
(* the order of their codes.  Symbol s is lens[s + 1].                     *)
BuildTree(lens) ==
  LET used == { s \in DOMAIN lens : lens[s] # 0 }
      offs(s) == Cardinality({ t \in used :
                   lens[t] < lens[s] \/ (lens[t] = lens[s] /\ t < s) })
  IN  [ table |-> [ n \in 0..15 |-> Cardinality({ s \in used : lens[s] = n }) ],
        trans |-> [ i \in 0..(Cardinality(used) - 1) |->
                      (CHOOSE s \in used : offs(s) = i) - 1 ] ]

(* tinf_getbit(), p bits into the file: zeros once it is exhausted. *)
BitAt(p) == IF p < 8 * limit THEN bits[p + 1] ELSE 0

(* tinf_read_bits(num, base) *)
ReadBits(p, num, from) ==
  LET val[n \in 0..num] ==
        IF n = 0 THEN from ELSE val[n - 1] + 2^(n - 1) * BitAt(p + n - 1)
  IN  val[num]

(* uzlib_get_byte() drops what is left of the byte that bits are taken of. *)
Aligned(p) == (p + 7) \div 8
ByteAt(k) == ReadBits(8 * k, 8, 0)
Uint16At(k) == ByteAt(k) + 256 * ByteAt(k + 1)

(* tinf_decode_symbol(): bits are taken until the code is below the codes  *)
(* of its length, or the lengths are at their end.                         *)
TINF_DATA_ERROR == -3

DecodeSymbol(p, tree) ==
  LET sum[n \in 0..15] == IF n = 0 THEN 0 ELSE sum[n - 1] + tree.table[n]
      cur[n \in 0..15] ==
        IF n = 0 THEN 0 ELSE 2 * cur[n - 1] + BitAt(p + n - 1) - tree.table[n]
      fits == { n \in 1..15 : cur[n] < 0 }
  IN  IF fits = {} THEN [ sym |-> TINF_DATA_ERROR, next |-> p + 16 ]
      ELSE [ sym |-> tree.trans[sum[Min(fits)] + cur[Min(fits)]], next |-> p + Min(fits) ]

Exhausted(p) == p > 8 * limit

(* Everything up to bit p has been read. *)
Read(p) == rd' = p /\ eof' = (eof \/ Exhausted(p))

(* The call returns; its caller looks at `eof` first. *)
End(r) ==
  /\ reading' = "end"
  /\ result' = IF eof' THEN "starved" ELSE r

-----------------------------------------------------------------------------
Fixed == [ fixed |-> TRUE, lit |-> <<>>, dist |-> <<>> ]

NoCode == [ hlit |-> 0, hdist |-> 0, lens |-> <<>> ]

(* uzlib_uncompress_init() *)
InflateInit ==
  /\ \/ DeflateInit
     \/ /\ stage = "encode" /\ src \in Files
        /\ sent = <<>> /\ bits = <<>> /\ at = 0 /\ bucket = NoBucket
  /\ reading = "no" /\ limit = 0 /\ rd = 0 /\ eof = FALSE
  /\ final = 0 /\ btype = -1 /\ code = NoCode /\ lengths = <<>> /\ trees = Fixed /\ left = 0
  /\ got = <<>> /\ result = "more"

Open ==
  /\ stage = "file" /\ reading = "no"
  /\ reading' = "header" /\ limit' = Len(bits) \div 8
  /\ UNCHANGED <<rd, eof, block, got, result>>

(* Bytes past the one at rd that the next step can get to. *)
Reach ==
  CASE reading = "header" -> limit
    [] reading \in {"block", "length", "trailer"} -> 9
    [] reading = "data" -> 7
    [] reading \in {"lengths", "stored"} -> 2

(* The file turns out to end before or within what the next step reads. *)
Cut ==
  /\ reading \notin {"no", "end"} /\ limit = Len(bits) \div 8
  /\ limit' \in { k \in Aligned(rd)..(limit - 1) : k <= Aligned(rd) + Reach }
  /\ UNCHANGED <<reading, rd, eof, block, got, result>>

(* uzlib_gzip_parse_header() *)
ParseHeader ==
  /\ reading = "header"
  /\ LET wrong == { k \in 0..2 : ByteAt(k) # MemberHeader[k + 1] }
         flg == ByteAt(3)
         has(flag) == (flg \div flag) % 2 = 1
         past0(k) == Min({ j \in k..(k + limit) : ByteAt(j) = 0 }) + 1
         extra == IF has(4) THEN 12 + Uint16At(10) ELSE 10
         name == IF has(8) THEN past0(extra) ELSE extra
         comment == IF has(16) THEN past0(name) ELSE name
     IN  IF wrong # {} \/ flg >= 32
           THEN Read(8 * (1 + Min(wrong \cup {3}))) /\ End("error")
           ELSE /\ Read(8 * (comment + IF has(2) THEN 2 ELSE 0))
                /\ IF eof' THEN End("starved") ELSE reading' = "block" /\ UNCHANGED result
  /\ UNCHANGED <<limit, block, got>>

(* A mutant of BuildsFixed: the trees of the first block are taken to stay.*)
BuildsFixedFirst(type) == type = 1 /\ btype = -1

(* The fixed trees are built, unless the block before had them. *)
BuildsFixed(type) == type = 1 /\ btype # 1

(* The head of tinf_decode_trees() at bit p: how many lengths there are,   *)
(* the lengths of the codes that they come in, and where these end.        *)
HeadOfTrees(p) ==
  LET nclen == ReadBits(p + 10, 4, 4)
      clen(i) == IF i <= nclen THEN ReadBits(p + 14 + 3 * (i - 1), 3, 0) ELSE 0
  IN  [ code |-> [ hlit |-> ReadBits(p, 5, 257), hdist |-> ReadBits(p + 5, 5, 1),
                   lens |-> [ s \in 1..19 |-> clen(CHOOSE i \in 1..19 : ClcIdx[i] = s - 1) ] ],
        next |-> p + 14 + 3 * nclen ]

(* uzlib_uncompress(): a new block. *)
StartBlock ==
  /\ reading = "block"
  /\ final' = BitAt(rd)
  /\ LET type == ReadBits(rd + 1, 2, 0)
         head == HeadOfTrees(rd + 3)
     IN  /\ btype' = type
         /\ trees' = IF BuildsFixed(type) THEN Fixed ELSE trees
         /\ IF type = 2 THEN code' = head.code /\ Read(head.next)
                        ELSE code' = NoCode /\ Read(rd + 3)
         /\ \/ type = 0 /\ reading' = "length" /\ UNCHANGED result
            \/ type = 1 /\ reading' = "data" /\ UNCHANGED result
            \/ type = 2 /\ reading' = "lengths" /\ UNCHANGED result
            \/ type = 3 /\ End("error")
  /\ lengths' = <<>>
  /\ UNCHANGED <<limit, left, got>>

(* tinf_inflate_uncompressed_block(): the length and its complement. *)
StoredLength ==
  /\ reading = "length"
  /\ LET k == Aligned(rd)
     IN  /\ Read(8 * (k + 4))
         /\ IF Uint16At(k) + Uint16At(k + 2) # 65535 THEN End("error") /\ UNCHANGED left
            ELSE /\ left' = Uint16At(k)
                 /\ reading' = "stored" /\ UNCHANGED result
  /\ UNCHANGED <<limit, final, btype, code, lengths, trees, got>>

(* A block has ended: another one starts, or the trailer. *)
BlockEnds == reading' = IF final = 0 THEN "block" ELSE "trailer"

StoredByte ==
  /\ reading = "stored"
  /\ IF left = 0 THEN BlockEnds /\ UNCHANGED <<rd, eof, left, got>>
     ELSE /\ got' = Append(got, [ dist |-> 0, len |-> ByteAt(rd \div 8) ])
          /\ Read(rd + 8) /\ left' = left - 1
          /\ UNCHANGED reading
  /\ UNCHANGED <<limit, final, btype, code, lengths, trees, result>>

(* tinf_decode_trees(): a round of its loop.  A copy or a run of zeros may *)
(* go on from the literals to the distances.                               *)
ReadLength ==
  /\ reading = "lengths" /\ Len(lengths) < code.hlit + code.hdist
  /\ \E s \in {DecodeSymbol(rd, BuildTree(code.lens))} :
       LET repeat(v, num, from) ==
             LET n == ReadBits(s.next, num, from)
             IN  /\ Read(s.next + num)
                 /\ IF Len(lengths) + n > code.hlit + code.hdist
                      THEN End("error") /\ UNCHANGED lengths
                      ELSE /\ lengths' = lengths \o [ i \in 1..n |-> v ]
                           /\ UNCHANGED <<reading, result>>
       IN  CASE s.sym < 0 \/ (s.sym = 16 /\ lengths = <<>>) ->
                  Read(s.next) /\ End("error") /\ UNCHANGED lengths
             [] s.sym \in 0..15 ->
                  /\ Read(s.next) /\ lengths' = Append(lengths, s.sym)
                  /\ UNCHANGED <<reading, result>>
             [] s.sym = 16 /\ lengths # <<>> -> repeat(Last(lengths), 2, 3)
             [] s.sym = 17 -> repeat(0, 3, 3)
             [] s.sym = 18 -> repeat(0, 7, 11)
  /\ UNCHANGED <<limit, final, btype, code, trees, left, got>>

(* The trees of the block are built. *)
BuildTrees ==
  /\ reading = "lengths" /\ Len(lengths) = code.hlit + code.hdist
  /\ trees' = [ fixed |-> FALSE, lit |-> SubSeq(lengths, 1, code.hlit),
                dist |-> SubSeq(lengths, code.hlit + 1, Len(lengths)) ]
  /\ lengths' = <<>>
  /\ reading' = "data"
  /\ UNCHANGED <<limit, rd, eof, final, btype, code, left, got, result>>

LitTree == IF trees.fixed THEN FixedTree ELSE BuildTree(trees.lit)
DistTree == IF trees.fixed THEN FixedDistTree ELSE BuildTree(trees.dist)

Token(d, n) ==
  /\ got' = Append(got, [ dist |-> d, len |-> n ])
  /\ UNCHANGED <<reading, result>>

(* The second half of a match: the extra bits of its length, and its       *)
(* distance.  Bits that are missing set `eof`, which the next call sees.   *)
ReadMatch(l) ==
  LET k == l.sym - 256
  IN  IF k > 29 THEN Read(l.next) /\ End("error") /\ UNCHANGED got
      ELSE \E d \in {DecodeSymbol(l.next + LengthBits[k], DistTree)} :
             IF d.sym \notin 0..29 THEN Read(d.next) /\ End("error") /\ UNCHANGED got
             ELSE /\ Read(d.next + DistBits[d.sym + 1])
                  /\ LET n == ReadBits(l.next, LengthBits[k], LengthBase[k])
                         m == ReadBits(d.next, DistBits[d.sym + 1], DistBase[d.sym + 1])
                     IN  IF m > Window THEN End("error") /\ UNCHANGED got
                         ELSE Token(m, n)

(* tinf_inflate_block_data(), up to the copying: the next token. *)
ReadToken ==
  /\ reading = "data"
  /\ \E l \in {DecodeSymbol(rd, LitTree)} :
       \/ /\ Exhausted(l.next) \/ eof
          /\ Read(l.next) /\ End("error") /\ UNCHANGED got
       \/ /\ ~(Exhausted(l.next) \/ eof)
          /\ \/ l.sym < 256 /\ Read(l.next) /\ Token(0, l.sym)
             \/ l.sym = 256 /\ Read(l.next) /\ BlockEnds /\ UNCHANGED <<got, result>>
             \/ l.sym > 256 /\ ReadMatch(l)
  /\ UNCHANGED <<limit, block>>

(* uzlib_uncompress_chksum(): the trailer. *)
ReadTrailer ==
  /\ reading = "trailer"
  /\ Read(8 * (Aligned(rd) + 8))
  /\ End("done")
  /\ UNCHANGED <<limit, block, got>>

Reads ==
  \/ Open \/ Cut \/ ParseHeader \/ StartBlock \/ StoredLength \/ StoredByte
  \/ ReadLength \/ BuildTrees \/ ReadToken \/ ReadTrailer

InflateNext ==
  \/ (DeflateNext \/ WriteFile) /\ UNCHANGED inflateVars
  \/ Reads /\ UNCHANGED deflateVars

InflateSpec == InflateInit /\ [][InflateNext]_<<deflateVars, inflateVars>>

-----------------------------------------------------------------------------
(* Properties. *)

(* The decoder reads what was written, token for token through every block *)
(* and tree, and ends where the file ends; wherever the file is cut, it    *)
(* does not take the zeros it is given in place of input for data, for an  *)
(* end or for an error of the file, as long as its caller looks whether it *)
(* starved.                                                                *)
ReadsWhatWasWritten ==
  /\ ~eof => IsPrefix(got, sent)
  /\ result = "done" => got = sent
  /\ result # "error"
  /\ result = "starved" => limit < Len(bits) \div 8
=============================================================================
