------------------------------- MODULE MCCodec -------------------------------
(* The three codecs, each from its own initial states: `subject` names the *)
(* one that runs, and the variables of the others keep one value.          *)
(* Inflate: members of every text over a short and a long literal up to    *)
(* MaxText bytes, of ten that repeat from farther back than MAX_OFFSET, of *)
(* runs about MAX_MATCH, of every literal and both ends of every length    *)
(* and distance code; files with each header field, with every pair of     *)
(* small blocks, and with trees described in several ways.                 *)
EXTENDS InflateReplay, Inflate, Sha256

CONSTANT MaxText

VARIABLE subject

allVars == <<subject, vars, deflateVars, inflateVars, shaVars>>

Texts ==
  UNION { [1..n -> {97, 200}] : n \in 0..MaxText }
    \cup { t \in [1..10 -> {97, 200}] : SubSeq(t, 1, 4) = SubSeq(t, 6, 9) }
    \cup { [ i \in 1..n |-> 97 ] : n \in {258, 259, 260, 261, 262, 520} }

Lit(c) == [ dist |-> 0, len |-> c ]

Tokens ==
  { [ dist |-> d, len |-> n ] :
      d \in {1, 2, 32768}, n \in { LenCodes[k][j] : k \in DOMAIN LenCodes, j \in {2, 3} } }
  \cup
  { [ dist |-> d, len |-> n ] :
      d \in { DistCodes[k][j] : k \in DOMAIN DistCodes, j \in {2, 3} }, n \in {3, 130} }

TokenPlans ==
  { <<Lit(c)>> : c \in 0..255 }
    \cup { <<t, Lit(0)>> : t \in Tokens }
    \cup { <<Lit(200), t>> : t \in Tokens }

(* Trees that describe a file's own codes: with one literal; with matches; *)
(* with a copy of a length across the border to the distances; and with    *)
(* the longest codes.                                                      *)
Code == [ s \in 0..18 |-> IF s = 18 THEN 1 ELSE IF s < 14 THEN 5 ELSE 6 ]
FewCodes == 0 :> 3 @@ 1 :> 3 @@ 2 :> 3 @@ 16 :> 4 @@ 17 :> 4 @@ 18 :> 1

Dynamic(lits, dists, tokens, c, longest, copies) ==
  [ type |-> 2, tokens |-> tokens, lit |-> lits, dist |-> dists, code |-> c,
    longest |-> longest, copies |-> copies ]

OneLiteral == 97 :> 1 @@ 256 :> 1
WithMatches == 0 :> 2 @@ 97 :> 2 @@ 256 :> 2 @@ 257 :> 2
Chain == [ s \in 0..13 |-> s + 1 ] @@ 256 :> 15 @@ 285 :> 15

Copy(d, n) == [ dist |-> d, len |-> n ]

TreeBlocks ==
  { Dynamic(OneLiteral, 0 :> 1, <<Lit(97), Lit(97)>>, c, n, copies) :
      c \in {Code, FewCodes}, n \in {10, 12}, copies \in BOOLEAN }
  \cup
  { Dynamic(WithMatches, [ d \in 0..3 |-> 2 ], <<Lit(97), Copy(1, 3), Lit(0), Copy(4, 3)>>,
            FewCodes, n, copies) : n \in {3, 138}, copies \in BOOLEAN }
  \cup
  { Dynamic(Chain, 1 :> 1 @@ 29 :> 1, <<Lit(13), Lit(0), Copy(2, 258), Copy(24580, 258)>>,
            Code, 138, copies) : copies \in BOOLEAN }

Blocks ==
  { [ type |-> 0, tokens |-> t ] : t \in {<<>>, <<Lit(0), Lit(255)>>} }
    \cup { [ type |-> 1, tokens |-> t ] : t \in {<<>>, <<Lit(200), Copy(1, 4)>>} }
    \cup { Dynamic(OneLiteral, 0 :> 1, <<Lit(97)>>, FewCodes, 138, FALSE) }

NoFields == [ extra |-> <<>>, name |-> <<>>, comment |-> <<>>, hcrc |-> <<>> ]

Headers ==
  [ extra : {<<>>, <<<<0, 7>>>>}, name : {<<>>, <<<<102>>>>}, comment : {<<>>, <<<<>>>>},
    hcrc : {<<>>, <<<<0, 1>>>>} ]

EncodedFiles ==
  { [ header |-> NoFields, blocks |-> <<b>> ] : b \in TreeBlocks }
    \cup { [ header |-> NoFields, blocks |-> <<b, c>> ] : b, c \in Blocks }
    \cup { [ header |-> NoFields, blocks |-> <<b, c, d>> ] :
              b, c, d \in { x \in Blocks : x.tokens # <<>> } }
    \cup { [ header |-> h, blocks |-> <<[ type |-> 1, tokens |-> <<Lit(97)>> ]>> ] : h \in Headers }

Idle ==
  /\ stage = "file" /\ src = <<>> /\ at = 0 /\ bucket = NoBucket
  /\ sent = <<>> /\ bits = <<>> /\ reading = "end" /\ limit = 0 /\ rd = 0 /\ eof = FALSE
  /\ final = 0 /\ btype = -1 /\ code = NoCode /\ lengths = <<>> /\ trees = Fixed /\ left = 0
  /\ got = <<>> /\ result = "more"

CodecInit ==
  /\ subject \in {"replay", "inflate", "sha"}
  /\ Init /\ ShaInit
  /\ IF subject = "inflate" THEN InflateInit ELSE Idle

Replay == subject = "replay" /\ Next /\ UNCHANGED <<subject, deflateVars, inflateVars, shaVars>>

CodecNext ==
  \/ Replay
  \/ subject = "inflate" /\ InflateNext /\ UNCHANGED <<subject, vars, shaVars>>
  \/ subject = "sha" /\ ShaNext /\ UNCHANGED <<subject, vars, deflateVars, inflateVars>>

(* What is at its end stays there. *)
Rest ==
  /\ \/ subject = "replay" /\ pc = "done"
     \/ subject = "inflate" /\ reading = "end"
     \/ subject = "sha" /\ finished /\ hashes = MaxHashes
  /\ UNCHANGED allVars

CodecSpec == CodecInit /\ [][CodecNext \/ Rest]_allVars /\ WF_allVars(Replay)

(* The replay reaches its end (Finishes of InflateReplay). *)
ReplayFinishes == subject = "replay" => Finishes
=============================================================================
