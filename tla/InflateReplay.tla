--------------------------- MODULE InflateReplay ---------------------------
(***************************************************************************)
(* How a download inflates a stream that arrives in pieces.  ota_chunk_cb()*)
(* of ilabs_fota_lte.cpp snapshots uzlib's state, lets uzlib fill a page,  *)
(* and rolls back when uzlib ran out of input and went on with phantom     *)
(* zeros; the page is inflated again when more input has come.  The        *)
(* snapshot does not hold the ring of earlier output that matches copy     *)
(* from, so a replay reads a ring the first attempt has written to.        *)
(*                                                                         *)
(* A stream is a distance for each output byte: 0 for a literal, d for a   *)
(* byte copied from d bytes back.  The value of a byte is the position of  *)
(* the literal it comes from.  The decoder may ask for input before each   *)
(* byte; `avail` bytes can be decoded from the input that has arrived, and *)
(* the end of the stream is found when Len(stream) + 1 "bytes" have.       *)
(***************************************************************************)
EXTENDS Integers, Sequences

CONSTANTS
  Ring,            \* sizeof(ota_state_t::dict)
  Page,            \* sizeof(ota_state_t::out_buf)
  MaxDist,         \* the longest distance of the compressor
  MaxLen,          \* bound: length of a stream
  Garbage          \* what a phantom zero decodes to

ASSUME InflateAssumption ==
  /\ Ring \in Nat \ {0} /\ Page \in Nat \ {0}
  /\ MaxDist \in 0..Ring /\ MaxLen \in Nat
  /\ Garbage \notin Nat

VARIABLES
  dist,            \* the stream, as far as it has been decoded
  ended,           \* the stream ends here
  avail,           \* see above
  base,            \* uz_backup: bytes decoded before this page
  pos,             \* uz: bytes decoded
  ring,            \* dict; dict_idx is pos % Ring
  page,            \* out_buf up to uz.dest
  pc,              \* "wait" for input, "inflate", "phantom", "done"
  drained          \* the output: everything drain_output() was given

stream == <<dist, ended, avail>>
uz == <<pos, ring, page>>
vars == <<stream, base, uz, pc, drained>>

Byte == Nat \cup {Garbage}

Init ==
  /\ dist = <<>> /\ ended = FALSE /\ avail = 0
  /\ base = 0 /\ pos = 0
  /\ ring = [i \in 0..(Ring - 1) |-> Garbage]
  /\ page = <<>>
  /\ pc = "wait"
  /\ drained = <<>>

(* uz.dest < uz.dest_limit *)
Room == Len(page) < Page

(* TINF_PUT() *)
Put(c) ==
  /\ page' = Append(page, c)
  /\ ring' = [ring EXCEPT ![(base + Len(page)) % Ring] = c]

(* What the decoder puts for the byte at `pos`: a literal, or the ring at  *)
(* lzOff.                                                                  *)
Decoded(d) == IF d = 0 THEN pos ELSE ring[(pos - d) % Ring]

(* A chunk of the body arrives. *)
Arrive ==
  /\ pc = "wait"
  /\ avail' \in (avail + 1)..(MaxLen + 1)
  /\ pc' = "inflate"
  /\ UNCHANGED <<dist, ended, base, uz, drained>>

(* uzlib_uncompress_chksum(): the next byte, of a stream that is only      *)
(* decided on when it is first decoded.                                    *)
Decode ==
  /\ pc = "inflate"
  /\ pos < avail /\ Room
  /\ IF pos < Len(dist)
       THEN UNCHANGED <<dist, ended>>
       ELSE /\ ~ended /\ pos < MaxLen
            /\ \E d \in 0..(IF pos < MaxDist THEN pos ELSE MaxDist) :
                 dist' = Append(dist, d)
            /\ UNCHANGED ended
  /\ Put(Decoded(dist'[pos + 1]))
  /\ pos' = pos + 1
  /\ UNCHANGED <<avail, base, pc, drained>>

(* The page is full: drain_output(), and the next snapshot. *)
Drain ==
  /\ pc = "inflate" /\ ~Room
  /\ drained' = drained \o page
  /\ page' = <<>>
  /\ base' = pos
  /\ UNCHANGED <<stream, pos, ring, pc>>

(* TINF_DONE: the stream ends, its footer with it. *)
Done ==
  /\ pc = "inflate" /\ Room
  /\ pos = Len(dist) /\ pos < avail
  /\ ended' = TRUE
  /\ drained' = drained \o page
  /\ page' = <<>>
  /\ pc' = "done"
  /\ UNCHANGED <<dist, avail, base, pos, ring>>

(* The decoder asks for input that has not come: src_starved_cb(). *)
Starve ==
  /\ pc = "inflate"
  /\ pos = avail /\ Room
  /\ pc' = "phantom"
  /\ UNCHANGED <<stream, base, uz, drained>>

(* Phantom zeros go on to fill the page, as literals or as a match. *)
Phantom ==
  /\ pc = "phantom" /\ Room
  /\ Put(Garbage)
  /\ UNCHANGED <<stream, base, pos, pc, drained>>

(* A mutant of RolledBack: what was decoded is kept. *)
RolledBackNothing == UNCHANGED <<pos, page>>

RolledBack == pos' = base /\ page' = <<>>

(* A mutant of RollBack: the loop goes on instead of waiting for input. *)
RollBackSpins ==
  /\ pc = "phantom"
  /\ RolledBack
  /\ pc' = "inflate"
  /\ UNCHANGED <<stream, base, ring, drained>>

(* The call returns, and the snapshot is restored.  The ring is not part   *)
(* of it.                                                                  *)
RollBack ==
  /\ pc = "phantom"
  /\ RolledBack
  /\ pc' = "wait"
  /\ UNCHANGED <<stream, base, ring, drained>>

Next ==
  \/ Arrive \/ Decode \/ Drain \/ Done
  \/ Starve \/ Phantom \/ RollBack

Stopped == pc = "done" /\ UNCHANGED vars

(* The callback is synchronous, and the rest of the body comes. *)
Spec == Init /\ [][Next \/ Stopped]_vars /\ WF_vars(Next)

-----------------------------------------------------------------------------
(* Properties. *)

(* The stream's meaning: where the literal behind each byte is. *)
Origin ==
  LET origin[p \in DOMAIN dist] ==
        IF dist[p] = 0 THEN p - 1 ELSE origin[p - dist[p]]
  IN  origin

(* Every variable keeps its type; the decoder is never past its input.     *)
TypeOK ==
  /\ dist \in Seq(0..MaxDist) /\ ended \in BOOLEAN
  /\ avail \in 0..(MaxLen + 1)
  /\ base \in 0..pos /\ pos \in 0..Len(dist) /\ pos <= avail
  /\ ring \in [0..(Ring - 1) -> Byte]
  /\ page \in Seq(Byte) /\ Len(page) <= Page
  /\ pc \in {"wait", "inflate", "phantom", "done"}
  /\ drained \in Seq(Byte)

(* Wherever the pieces of the body end, each byte that is drained into the *)
(* slot is the byte the stream stands for: neither a phantom nor a copy    *)
(* from a place of the ring that a rolled-back attempt had overwritten.    *)
(* And nothing is left out or drained twice.                               *)
DrainedRight ==
  /\ \A i \in DOMAIN drained : i \in DOMAIN dist /\ drained[i] = Origin[i]
  /\ pc = "done" => Len(drained) = Len(dist)

(* The stream is inflated to its end, however small the pieces. *)
Finishes == <>(pc = "done")
=============================================================================
