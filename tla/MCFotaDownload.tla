--------------------------- MODULE MCFotaDownload ---------------------------
(* The download on a slot of two sectors.  A page (3) straddles the end of *)
(* the slot header (2) and of a sector (4), and ranges, pieces and pages   *)
(* never line up for long.                                                 *)
EXTENDS FotaDownload

Good(claim) == [ len |-> HeaderSize + claim, header |-> TRUE, claim |-> claim,
                 sha |-> TRUE, damaged |-> FALSE ]

(* Images that fill the slot or end inside it. *)
GenuineImages == {Good(5), Good(6)}

(* Each way for an image to be wrong: too large for the slot, longer and   *)
(* shorter than its header claims, a bad header, a bad hash, a stream that *)
(* does not inflate, a stream that ends inside the slot header.            *)
MCImages ==
  GenuineImages \cup
  { Good(7),
    [Good(5) EXCEPT !.claim = 3],
    [Good(5) EXCEPT !.claim = 6],
    [Good(5) EXCEPT !.header = FALSE],
    [Good(5) EXCEPT !.sha = FALSE],
    [Good(5) EXCEPT !.damaged = TRUE],
    [Good(5) EXCEPT !.len = 1] }

(* A header in front of nothing. *)
EmptyImages == {Good(0)}

MCOldLens == {5, 8}
AllFaults == {"flash", "power", "stall", "status", "length"}
NoFaults == {}
=============================================================================
