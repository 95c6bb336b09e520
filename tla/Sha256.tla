------------------------------- MODULE Sha256 -------------------------------
(***************************************************************************)
(* The streaming hash of ilabs_fota_sha256.cpp.  A download feeds two      *)
(* contexts from chunks of any size and reads the digests at the end; the  *)
(* contexts are static and used again.  Bytes are their position in the    *)
(* message.  The digest is a function of the blocks it was computed from,  *)
(* so the state of a context is the sequence of them.                      *)
(***************************************************************************)
EXTENDS Integers, Sequences, SequencesExt

CONSTANTS
  BlockSize,       \* ILABS_SHA256_BLOCK_SIZE
  LengthSize,      \* 8: the bytes of the length at the end of the padding
  Radix,           \* 256: the values of a byte of it
  MaxMessage,      \* bound: length of a message
  MaxHashes        \* bound: messages hashed with one context

ASSUME Sha256Assumption ==
  /\ LengthSize \in Nat \ {0} /\ BlockSize \in Nat /\ LengthSize < BlockSize
  /\ Radix \in Nat \ {0, 1} /\ MaxMessage \in Nat

VARIABLES
  hashes,          \* history: messages begun
  fed,             \* history: length of the message so far
  total,           \* total_len
  buffer,          \* buffer
  held,            \* buffer_len
  blocks,          \* state: the blocks it was computed from
  finished         \* finish() was called

shaVars == <<hashes, fed, total, buffer, held, blocks, finished>>

Eighty == -1       \* the byte 0x80 of the padding

ShaInit ==
  /\ hashes = 0 /\ fed = 0
  /\ total = 0 /\ buffer = [ i \in 1..BlockSize |-> 0 ] /\ held = 0
  /\ blocks = <<>> /\ finished = TRUE

(* The i-th byte of the current message: no two messages share bytes. *)
ByteOf(i) == hashes * (MaxMessage + 1) + i

(* ilabs_sha256_starts(): after a finished hash, or an abandoned one. *)
Starts ==
  /\ hashes < MaxHashes
  /\ hashes' = hashes + 1 /\ fed' = 0 /\ finished' = FALSE
  /\ total' = 0 /\ held' = 0 /\ blocks' = <<>>
  /\ UNCHANGED buffer

(* The buffer with some bytes copied in after the first n. *)
Filled(n, data) ==
  [ i \in 1..BlockSize |-> IF i \in (n + 1)..(n + Len(data)) THEN data[i - n] ELSE buffer[i] ]

(* ilabs_sha256_update() *)
Update(n) ==
  /\ ~finished /\ hashes > 0
  /\ fed + n <= MaxMessage
  /\ LET data == [ i \in 1..n |-> ByteOf(fed + i) ]
         fill == IF held = 0 THEN 0
                 ELSE IF BlockSize - held < n THEN BlockSize - held ELSE n
         topped == Filled(held, SubSeq(data, 1, fill))
         full == held + fill = BlockSize
         rest == SubSeq(data, fill + 1, n)
         whole == Len(rest) \div BlockSize
         tail == SubSeq(rest, whole * BlockSize + 1, Len(rest))
     IN  /\ total' = total + n
         /\ blocks' = blocks \o (IF full THEN <<topped>> ELSE <<>>)
                        \o [ k \in 1..whole |-> SubSeq(rest, (k - 1) * BlockSize + 1, k * BlockSize) ]
         /\ buffer' = [ i \in 1..BlockSize |-> IF i <= Len(tail) THEN tail[i] ELSE topped[i] ]
         /\ held' = IF tail # <<>> THEN Len(tail) ELSE IF full THEN 0 ELSE held + fill
  /\ fed' = fed + n
  /\ UNCHANGED <<hashes, finished>>

(* The bit length, big-endian. *)
LengthField ==
  [ i \in 1..LengthSize |-> ((8 * total) \div Radix^(LengthSize - i)) % Radix ]

(* A mutant of Spills: a block with no room for the length is not spilled  *)
(* if the 0x80 just fits.                                                  *)
SpillsLate(n) == n > BlockSize - LengthSize + 1

Spills(n) == n > BlockSize - LengthSize

(* ilabs_sha256_finish(): 0x80, zeros, and the length at the end of a      *)
(* block, which may have to be one more.                                   *)
Finish ==
  /\ ~finished /\ hashes > 0
  /\ LET marked == Filled(held, <<Eighty>>)
         zeroed(b, n, last) == [ i \in 1..BlockSize |-> IF i \in (n + 1)..last THEN 0 ELSE b[i] ]
         spilled == Spills(held + 1)
         begin == IF spilled THEN 0 ELSE held + 1
         body == IF spilled THEN zeroed(marked, held + 1, BlockSize) ELSE marked
         padded == zeroed(body, begin, BlockSize - LengthSize)
         final == [ i \in 1..BlockSize |->
                      IF i > BlockSize - LengthSize
                        THEN LengthField[i - (BlockSize - LengthSize)] ELSE padded[i] ]
     IN  /\ blocks' = blocks \o (IF spilled THEN <<body>> ELSE <<>>) \o <<final>>
         /\ buffer' = final
         /\ held' = begin
  /\ finished' = TRUE
  /\ UNCHANGED <<hashes, fed, total>>

ShaNext == Starts \/ (\E n \in 1..MaxMessage : Update(n)) \/ Finish

ShaSpec == ShaInit /\ [][ShaNext]_shaVars

-----------------------------------------------------------------------------
(* Properties. *)

Message == [ i \in 1..fed |-> ByteOf(i) ]

(* The padded message of FIPS 180-4, 5.1.1, in blocks. *)
Padded ==
  LET zeros == CHOOSE z \in 0..(BlockSize - 1) : (fed + 1 + z + LengthSize) % BlockSize = 0
  IN  Message \o <<Eighty>> \o [ i \in 1..zeros |-> 0 ] \o
        [ i \in 1..LengthSize |-> ((8 * fed) \div Radix^(LengthSize - i)) % Radix ]

(* However a message is cut into updates, and whatever the context hashed  *)
(* before, finished or abandoned, the digest is computed from the padded   *)
(* message and nothing else.                                               *)
HashesTheMessage ==
  hashes > 0 => FlattenSeq(blocks) =
                  IF finished THEN Padded
                  ELSE SubSeq(Message, 1, fed - held)
=============================================================================
