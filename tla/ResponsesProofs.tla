--------------------------- MODULE ResponsesProofs ---------------------------
(***************************************************************************)
(* What the library makes of a response, for every way to cut it into      *)
(* chunks, every capacity and every length, and what it posts: proofs      *)
(* about the self-test and the mailbox (Responses), the update check       *)
(* (UpdateCheck) and the JSON bodies (DiagBody).                           *)
(***************************************************************************)
EXTENDS UpdateCheck, Responses, DiagBody, FiniteSetTheorems, SequenceTheorems, TLAPS

(***************************************************************************)
(* Sequences and sets.                                                     *)
(***************************************************************************)

(* A non-empty set of naturals has a least element.                        *)
LEMMA NatMin ==
  ASSUME NEW T \in SUBSET Nat, T # {}
  PROVE  \E x \in T : \A y \in T : x <= y
<1> DEFINE U == { 1..n : n \in T }
           R == StrictSubsetOrdering(Nat)
<1>1. U \subseteq FiniteSubsetsOf(Nat)
  <2> SUFFICES ASSUME NEW n \in T PROVE 1..n \in FiniteSubsetsOf(Nat)
    OBVIOUS
  <2>1. IsFiniteSet(1..n)
    BY FS_Interval
  <2> QED BY <2>1 DEF FiniteSubsetsOf
<1>2. IsWellFoundedOn(R, FiniteSubsetsOf(Nat))
  BY FS_StrictSubsetOrderingWellFounded
<1>3. U # {}
  OBVIOUS
<1>4. PICK a \in U : \A b \in U : <<b, a>> \notin R
  <2> HIDE DEF R, U
  <2> QED BY <1>1, <1>2, <1>3, WFMin
<1>5. PICK x \in T : a = 1..x
  OBVIOUS
<1>6. ASSUME NEW y \in T PROVE x <= y
  <2> SUFFICES ASSUME y < x PROVE FALSE
    OBVIOUS
  <2>1. /\ 1..y \in SUBSET Nat /\ 1..x \in SUBSET Nat
        /\ 1..y \subseteq 1..x /\ x \in 1..x /\ x \notin 1..y
    OBVIOUS
  <2>2. 1..y # 1..x
    BY <2>1
  <2>3. <<1..y, 1..x>> \in R
    BY <2>1, <2>2 DEF StrictSubsetOrdering
  <2> QED BY <1>4, <1>5, <2>3
<1> QED BY <1>6

(* Induction: a set of naturals that holds 0, and with every number the     *)
(* next one.                                                               *)
LEMMA NatInduct ==
  ASSUME NEW T \in SUBSET Nat, 0 \in T, \A n \in T : n + 1 \in T
  PROVE  T = Nat
<1> SUFFICES ASSUME Nat \ T # {} PROVE FALSE
  OBVIOUS
<1>1. PICK x \in Nat \ T : \A y \in Nat \ T : x <= y
  BY NatMin
<1>2. x - 1 \in Nat /\ x = (x - 1) + 1
  OBVIOUS
<1>3. x - 1 \in T
  BY <1>1, <1>2
<1> QED BY <1>1, <1>2, <1>3

(* Min(S) is that element.                                                 *)
LEMMA MinIsLeast ==
  ASSUME NEW S \in SUBSET Nat, S # {}
  PROVE  Min(S) \in S /\ \A y \in S : Min(S) <= y
BY NatMin DEF Min

(* ... and the only one.                                                   *)
LEMMA MinIs ==
  ASSUME NEW S \in SUBSET Nat, NEW x \in S, \A y \in S : x <= y
  PROVE  Min(S) = x
<1>1. Min(S) \in S /\ Min(S) <= x /\ x <= Min(S)
  BY MinIsLeast
<1>2. Min(S) \in Nat /\ x \in Nat
  BY <1>1
<1> QED BY <1>1, <1>2

(* What is left of a capacity k after a bytes came, when c more come.      *)
LEMMA RoomLeft ==
  ASSUME NEW k \in Nat, NEW a \in Nat, NEW c \in Nat,
         NEW p, p = Smallest(k, a),
         NEW m, m = IF c < k - p THEN c ELSE k - p
  PROVE  /\ p \in 0..a /\ p <= k /\ m \in 0..c
         /\ m > 0 => p = a
         /\ Smallest(k, a + c) = p + m
BY DEF Smallest

(* The first n elements.                                                   *)
LEMMA Prefix ==
  ASSUME NEW X, NEW s \in Seq(X), NEW n \in 0..Len(s)
  PROVE  /\ SubSeq(s, 1, n) \in Seq(X)
         /\ Len(SubSeq(s, 1, n)) = n
         /\ \A i \in 1..n : SubSeq(s, 1, n)[i] = s[i]
<1>1. Len(s) \in Nat
  BY LenProperties
<1>2. n \in Nat
  BY <1>1
<1>3. \A i \in 1..n : s[i] \in X
  BY <1>1, ElementOfSeq
<1>4. /\ SubSeq(s, 1, n) \in Seq(X)
      /\ Len(SubSeq(s, 1, n)) = IF 1 <= n THEN n - 1 + 1 ELSE 0
      /\ \A i \in 1..(n - 1 + 1) : SubSeq(s, 1, n)[i] = s[1 + i - 1]
  BY <1>2, <1>3, SubSeqProperties
<1> QED BY <1>2, <1>4

(* b, and as much of c as still fits a capacity k.                         *)
Topped(b, c, k) ==
  b \o SubSeq(c, 1, IF Len(c) < k - Len(b) THEN Len(c) ELSE k - Len(b))

(* A prefix of s, up to k, and what still fits of the next piece: a prefix *)
(* of both together.                                                       *)
LEMMA PrefixGrows ==
  ASSUME NEW X, NEW s \in Seq(X), NEW c \in Seq(X), NEW k \in Nat, NEW b,
         b = SubSeq(s, 1, Smallest(k, Len(s)))
  PROVE  Topped(b, c, k) = SubSeq(s \o c, 1, Smallest(k, Len(s \o c)))
<1> DEFINE m == IF Len(c) < k - Len(b) THEN Len(c) ELSE k - Len(b)
           p == Smallest(k, Len(s))
           q == Smallest(k, Len(s \o c))
           t == SubSeq(c, 1, m)
           w == SubSeq(s \o c, 1, q)
<1>1. Len(s) \in Nat /\ Len(c) \in Nat
  BY LenProperties
<1>2. p \in 0..Len(s)
  BY <1>1, RoomLeft
<1>3. b \in Seq(X) /\ Len(b) = p /\ \A i \in 1..p : b[i] = s[i]
  <2> HIDE DEF p
  <2> QED BY <1>2, Prefix DEF p
<1>4. /\ s \o c \in Seq(X) /\ Len(s \o c) = Len(s) + Len(c)
      /\ \A i \in 1..(Len(s) + Len(c)) :
           (s \o c)[i] = IF i <= Len(s) THEN s[i] ELSE c[i - Len(s)]
  BY ConcatProperties
<1>5. m = IF Len(c) < k - p THEN Len(c) ELSE k - p
  BY <1>3
<1>6. /\ m \in 0..Len(c) /\ (m > 0 => p = Len(s))
      /\ Smallest(k, Len(s) + Len(c)) = p + m
  <2> HIDE DEF m
  <2> QED BY <1>1, <1>5, RoomLeft
<1>7. q = p + m
  BY <1>4, <1>6
<1> HIDE DEF m, p, q, t, w
<1>8. q \in 0..Len(s \o c)
  BY <1>1, <1>2, <1>4, <1>6, <1>7
<1>9. t \in Seq(X) /\ Len(t) = m /\ \A i \in 1..m : t[i] = c[i]
  BY <1>6, Prefix DEF t
<1>10. /\ b \o t \in Seq(X) /\ Len(b \o t) = q
       /\ \A i \in 1..q : (b \o t)[i] = IF i <= p THEN b[i] ELSE t[i - p]
  BY <1>3, <1>7, <1>9, ConcatProperties
<1>11. w \in Seq(X) /\ Len(w) = q /\ \A i \in 1..q : w[i] = (s \o c)[i]
  BY <1>4, <1>8, Prefix DEF w
<1>12. ASSUME NEW i \in 1..q PROVE (b \o t)[i] = w[i]
  <2>1. CASE i <= p
    BY <2>1, <1>1, <1>2, <1>3, <1>4, <1>8, <1>10, <1>11
  <2>2. CASE i > p
    <3>1. m > 0 /\ p = Len(s) /\ i - p \in 1..m
      BY <2>2, <1>1, <1>2, <1>6, <1>7
    <3>2. (b \o t)[i] = c[i - p]
      BY <2>2, <3>1, <1>1, <1>2, <1>9, <1>10
    <3>3. w[i] = c[i - Len(s)]
      <4>1. i \in 1..(Len(s) + Len(c)) /\ ~(i <= Len(s))
        BY <2>2, <3>1, <1>1, <1>4, <1>8
      <4>2. w[i] = (s \o c)[i]
        BY <1>11
      <4> QED BY <4>1, <4>2, <1>4
    <3> QED BY <3>1, <3>2, <3>3
  <2>3. i <= p \/ i > p
    BY <1>1, <1>2, <1>4, <1>8
  <2> QED BY <2>1, <2>2, <2>3
<1>13. b \o t = w
  BY <1>10, <1>11, <1>12, SeqEqual
<1> QED BY <1>3, <1>13 DEF m, p, q, t, w, Topped

(***************************************************************************)
(* The mailbox.                                                            *)
(***************************************************************************)

Bytes == [ from : Nat, bad : BOOLEAN ]

(* What the variables hold.                                                *)
Shape ==
  /\ request \in {"none", "test", "checkin"}
  /\ at \in Nat
  /\ taken \in Seq(Bytes)
  /\ cumulative \in Nat /\ mismatches \in 0..LogBudget
  /\ firstOff \in Int /\ aborted \in BOOLEAN
  /\ answer \in [ call : {"none", "test", "checkin"}, pass : BOOLEAN, count : Nat,
                  first : Int, ret : Int ]

(* An answer is that of the last call, and no call is under way.           *)
NothingAnswered == request # "none" => answer.call = "none"

(* The buffer holds the reply's first bytes, and a status is given back    *)
(* only together with them.                                                *)
Mailbox ==
  request = "checkin" \/ answer.call = "checkin" =>
    /\ cmd = SubSeq(taken, 1, Smallest(CmdCap, Len(taken)))
    /\ answer.call = "checkin" => answer.ret \in {Len(cmd), -1}

LEMMA TupleIsSeq ==
  ASSUME NEW X, NEW n \in Nat, NEW f \in [1..n -> X]
  PROVE  f \in Seq(X) /\ Len(f) = n
OBVIOUS

(* A chunk is made of bytes.                                               *)
LEMMA ChunkIsBytes ==
  ASSUME NEW n \in 1..PieceMax, NEW from \in Nat, NEW bad \in 0..n, NEW chunk,
         chunk = [ i \in 1..n |-> [ from |-> from + i - 1, bad |-> i = bad ] ]
  PROVE  chunk \in Seq(Bytes)
<1>1. n \in Nat
  BY ResponsesAssumption
<1>2. \A i \in 1..n : [ from |-> from + i - 1, bad |-> i = bad ] \in Bytes
  BY <1>1 DEF Bytes
<1>3. chunk \in [1..n -> Bytes]
  BY <1>2
<1> QED BY <1>1, <1>3, TupleIsSeq

(* A step of Arrives, with the chunk named.                                *)
LEMMA ArrivesBrings ==
  ASSUME Shape, NEW n \in 1..PieceMax, Arrives(n)
  PROVE  /\ request # "none" /\ ~aborted
         /\ at' \in Nat /\ request' = request /\ answer' = answer
         /\ \E chunk \in Seq(Bytes) :
              /\ taken' = taken \o chunk
              /\ IF request = "test" THEN TestChunk(chunk) /\ UNCHANGED cmd
                 ELSE cmd' = Captured(chunk) /\ UNCHANGED tally
<1>1. PICK from \in { o \in {at - 1, at, at + 1, at + Period} : o >= 0 }, bad \in 0..n :
        LET chunk == [ i \in 1..n |-> [ from |-> from + i - 1, bad |-> i = bad ] ]
        IN  /\ at' = from + n
            /\ taken' = taken \o chunk
            /\ IF request = "test" THEN TestChunk(chunk) /\ UNCHANGED cmd
               ELSE cmd' = Captured(chunk) /\ UNCHANGED tally
  BY DEF Arrives
<1> DEFINE chunk == [ i \in 1..n |-> [ from |-> from + i - 1, bad |-> i = bad ] ]
<1>2. from \in Nat /\ n \in Nat
  BY ResponsesAssumption DEF Shape
<1>3. chunk \in Seq(Bytes)
  <2>1. chunk = [ i \in 1..n |-> [ from |-> from + i - 1, bad |-> i = bad ] ]
    OBVIOUS
  <2> HIDE DEF chunk
  <2> QED BY <1>2, <2>1, ChunkIsBytes
<1>4. at' \in Nat
  BY <1>1, <1>2
<1>5. request # "none" /\ ~aborted /\ request' = request /\ answer' = answer
  BY DEF Arrives
<1>6. /\ taken' = taken \o chunk
      /\ IF request = "test" THEN TestChunk(chunk) /\ UNCHANGED cmd
         ELSE cmd' = Captured(chunk) /\ UNCHANGED tally
  BY <1>1
<1> HIDE DEF chunk
<1> QED BY <1>3, <1>4, <1>5, <1>6

(* What a chunk changes of the self-test's variables stays of their kind.  *)
LEMMA TestChunkShape ==
  ASSUME Shape, NEW chunk \in Seq(Bytes), TestChunk(chunk)
  PROVE  /\ cumulative' \in Nat /\ mismatches' \in 0..LogBudget
         /\ firstOff' \in Int /\ aborted' \in BOOLEAN
<1> DEFINE wrong == { i \in DOMAIN chunk : Value(chunk[i]) # Expected(i) }
           seen == mismatches + Cardinality(wrong)
<1>1. Len(chunk) \in Nat /\ DOMAIN chunk = 1..Len(chunk)
  BY LenProperties
<1>2. wrong \subseteq 1..Len(chunk) /\ wrong \in SUBSET Nat
  BY <1>1
<1>3. Cardinality(wrong) \in Nat
  <2> HIDE DEF wrong
  <2>1. IsFiniteSet(1..Len(chunk))
    BY <1>1, FS_Interval
  <2>2. IsFiniteSet(wrong)
    BY <1>2, <2>1, FS_Subset
  <2> QED BY <2>2, FS_CardinalityType
<1>4. wrong # {} => Min(wrong) \in Nat
  BY <1>2, MinIsLeast
<1>5. /\ firstOff' = IF mismatches = 0 /\ wrong # {} THEN cumulative + Min(wrong) - 1
                     ELSE firstOff
      /\ IF seen >= LogBudget
           THEN mismatches' = LogBudget /\ aborted' = TRUE /\ UNCHANGED cumulative
           ELSE /\ mismatches' = seen /\ cumulative' = cumulative + Len(chunk)
                /\ UNCHANGED aborted
  BY DEF TestChunk
<1> HIDE DEF wrong
<1>6. firstOff' \in Int
  BY <1>4, <1>5 DEF Shape
<1>7. /\ cumulative' \in Nat /\ mismatches' \in 0..LogBudget /\ aborted' \in BOOLEAN
  <2>1. seen \in Nat /\ cumulative + Len(chunk) \in Nat /\ LogBudget \in Nat
    BY <1>1, <1>3, ResponsesAssumption DEF Shape
  <2> HIDE DEF seen
  <2>2. CASE seen >= LogBudget
    BY <2>1, <2>2, <1>5 DEF Shape
  <2>3. CASE ~(seen >= LogBudget)
    BY <2>1, <2>3, <1>5 DEF Shape
  <2> QED BY <2>2, <2>3
<1> QED BY <1>6, <1>7

LEMMA ShapeStep ==
  ASSUME Shape, NothingAnswered, [ResponsesNext]_responseVars
  PROVE  Shape' /\ NothingAnswered'
<1>1. CASE UNCHANGED responseVars
  BY <1>1 DEF Shape, NothingAnswered, responseVars, tally
<1>2. ASSUME NEW call \in {"test", "checkin"}, Ask(call)
      PROVE  Shape' /\ NothingAnswered'
  <2>1. taken' \in Seq(Bytes)
    BY <1>2, EmptySeq DEF Ask
  <2>2. /\ request' = call /\ at' = 0 /\ cumulative' = 0 /\ mismatches' = 0
        /\ firstOff' = 0 /\ aborted' = FALSE /\ answer' = NoAnswer
    BY <1>2 DEF Ask
  <2>3. mismatches' \in 0..LogBudget
    BY <2>2, ResponsesAssumption
  <2>4. answer'.call = "none"
    BY <2>2 DEF NoAnswer
  <2>5. answer' \in [ call : {"none", "test", "checkin"}, pass : BOOLEAN, count : Nat,
                      first : Int, ret : Int ]
    BY <2>2 DEF NoAnswer
  <2>6. /\ request' \in {"none", "test", "checkin"}
        /\ at' \in Nat /\ cumulative' \in Nat /\ firstOff' \in Int
        /\ aborted' \in BOOLEAN
    <3>1. request' \in {"none", "test", "checkin"} /\ aborted' \in BOOLEAN
      BY <2>2, Zenon
    <3>2. at' \in Nat /\ cumulative' \in Nat /\ firstOff' \in Int
      BY <2>2
    <3> QED BY <3>1, <3>2
  <2>7. Shape'
    BY <2>1, <2>3, <2>5, <2>6 DEF Shape
  <2> QED BY <2>4, <2>7 DEF NothingAnswered
<1>3. ASSUME NEW n \in 1..PieceMax, Arrives(n)
      PROVE  Shape' /\ NothingAnswered'
  <2>1. /\ at' \in Nat /\ request' = request /\ answer' = answer
    BY <1>3, ArrivesBrings
  <2>2. PICK chunk \in Seq(Bytes) :
          /\ taken' = taken \o chunk
          /\ IF request = "test" THEN TestChunk(chunk) /\ UNCHANGED cmd
             ELSE cmd' = Captured(chunk) /\ UNCHANGED tally
    BY <1>3, ArrivesBrings
  <2>3. taken' \in Seq(Bytes)
    BY <2>2, ConcatProperties DEF Shape
  <2>4. /\ cumulative' \in Nat /\ mismatches' \in 0..LogBudget
        /\ firstOff' \in Int /\ aborted' \in BOOLEAN
    <3>1. CASE request = "test"
      BY <3>1, <2>2, TestChunkShape
    <3>2. CASE request # "test"
      BY <3>2, <2>2 DEF Shape, tally
    <3> QED BY <3>1, <3>2
  <2> QED BY <2>1, <2>3, <2>4 DEF Shape, NothingAnswered
<1>4. CASE TestEnds
  BY <1>4 DEF TestEnds, Returns, Shape, NothingAnswered, tally
<1>5. CASE CheckInReturns
  BY <1>5, LenProperties DEF CheckInReturns, Returns, Shape, NothingAnswered, tally
<1> QED BY <1>1, <1>2, <1>3, <1>4, <1>5 DEF ResponsesNext

(* The buffer's first bytes are the reply's: a chunk is appended as far as *)
(* it fits, and a finished call leaves the buffer alone.                   *)
LEMMA MailboxStep ==
  ASSUME Shape, NothingAnswered, Mailbox, [ResponsesNext]_responseVars
  PROVE  Mailbox'
<1>1. CASE UNCHANGED responseVars
  BY <1>1 DEF Mailbox, responseVars
<1>2. ASSUME NEW call \in {"test", "checkin"}, Ask(call)
      PROVE  Mailbox'
  <2>1. cmd' = <<>> /\ taken' = <<>> /\ answer' = NoAnswer
    BY <1>2 DEF Ask
  <2>2. Smallest(CmdCap, 0) = 0
    BY ResponsesAssumption DEF Smallest
  <2>3. cmd' = SubSeq(taken', 1, Smallest(CmdCap, Len(taken')))
    <3>1. Len(taken') = 0
      BY <2>1
    <3>2. SubSeq(taken', 1, 0) = <<>>
      BY SubSeqEmpty
    <3> QED BY <2>1, <2>2, <3>1, <3>2
  <2>4. answer'.call # "checkin"
    BY <2>1 DEF NoAnswer
  <2> QED BY <2>3, <2>4 DEF Mailbox
<1>3. ASSUME NEW n \in 1..PieceMax, Arrives(n)
      PROVE  Mailbox'
  <2>1. request # "none" /\ request' = request /\ answer' = answer
    BY <1>3, ArrivesBrings
  <2>2. PICK chunk \in Seq(Bytes) :
          /\ taken' = taken \o chunk
          /\ IF request = "test" THEN TestChunk(chunk) /\ UNCHANGED cmd
             ELSE cmd' = Captured(chunk) /\ UNCHANGED tally
    BY <1>3, ArrivesBrings
  <2>3. answer.call = "none"
    BY <2>1 DEF NothingAnswered
  <2>4. SUFFICES ASSUME request = "checkin"
                 PROVE  cmd' = SubSeq(taken', 1, Smallest(CmdCap, Len(taken')))
    BY <2>1, <2>3 DEF Mailbox
  <2>5. cmd = SubSeq(taken, 1, Smallest(CmdCap, Len(taken)))
    BY <2>4 DEF Mailbox
  <2>6. Captured(chunk) = SubSeq(taken \o chunk, 1, Smallest(CmdCap, Len(taken \o chunk)))
    <3>1. taken \in Seq(Bytes) /\ CmdCap \in Nat
      BY ResponsesAssumption DEF Shape
    <3>2. Topped(cmd, chunk, CmdCap)
            = SubSeq(taken \o chunk, 1, Smallest(CmdCap, Len(taken \o chunk)))
      BY <2>5, <3>1, PrefixGrows
    <3>3. Captured(chunk) = Topped(cmd, chunk, CmdCap)
      BY DEF Captured, Topped
    <3> QED BY <3>2, <3>3
  <2>7. cmd' = Captured(chunk) /\ taken' = taken \o chunk
    <3>1. request # "test"
      BY <2>4
    <3> QED BY <2>2, <3>1, Zenon
  <2> QED BY <2>6, <2>7, Zenon
<1>4. CASE TestEnds
  <2>1. request' = "none" /\ answer'.call = "test"
    BY <1>4 DEF TestEnds, Returns
  <2> QED BY <2>1 DEF Mailbox
<1>5. CASE CheckInReturns
  <2>1. PICK ret \in {Len(cmd), -1} :
          Returns([ call |-> "checkin", pass |-> FALSE, count |-> 0, first |-> 0,
                    ret |-> ret ])
    BY <1>5 DEF CheckInReturns
  <2>2. request = "checkin" /\ cmd' = cmd /\ taken' = taken /\ answer'.ret = ret
    BY <1>5, <2>1 DEF CheckInReturns, Returns
  <2> QED BY <2>2 DEF Mailbox
<1> QED BY <1>1, <1>2, <1>3, <1>4, <1>5 DEF ResponsesNext

(***************************************************************************)
(* The self-test.                                                          *)
(***************************************************************************)

(* The places of s, counted from 1, whose byte is not the pattern's.       *)
Deviations(s) == { i \in DOMAIN s : Value(s[i]) # (i - 1) % Period }

(* The running tally is what a look at the whole body would find; after an *)
(* abort it is only known to have used up its budget.                      *)
Tally ==
  request = "test" \/ answer.call = "test" =>
    /\ Deviations(taken) # {} => firstOff = Min(Deviations(taken)) - 1
    /\ aborted => /\ mismatches = LogBudget
                  /\ LogBudget <= Cardinality(Deviations(taken))
    /\ ~aborted => /\ cumulative = Len(taken)
                   /\ mismatches = Cardinality(Deviations(taken))
                   /\ mismatches < LogBudget

(* The verdict is read off the tally.                                      *)
Verdict ==
  answer.call = "test" =>
    /\ answer.pass = (cumulative > 0 /\ mismatches = 0)
    /\ answer.count = mismatches /\ answer.first = firstOff

LEMMA MisplacedIsDeviations == Misplaced = Deviations(taken)
BY DEF Misplaced, Deviations, Value

LEMMA DeviationsFinite ==
  ASSUME NEW s \in Seq(Bytes)
  PROVE  /\ Deviations(s) \subseteq 1..Len(s) /\ Deviations(s) \in SUBSET Nat
         /\ IsFiniteSet(Deviations(s)) /\ Cardinality(Deviations(s)) \in Nat
         /\ Cardinality(Deviations(s)) = 0 <=> Deviations(s) = {}
<1>1. Len(s) \in Nat /\ DOMAIN s = 1..Len(s)
  BY LenProperties
<1>2. Deviations(s) \subseteq 1..Len(s)
  BY <1>1 DEF Deviations
<1>3. IsFiniteSet(1..Len(s))
  BY <1>1, FS_Interval
<1>4. IsFiniteSet(Deviations(s))
  BY <1>2, <1>3, FS_Subset
<1> QED BY <1>1, <1>2, <1>4, FS_CardinalityType, FS_EmptySet

(* Those of a chunk c that comes behind k bytes, counted from its start.   *)
DeviationsBehind(k, c) == { i \in DOMAIN c : Value(c[i]) # (k + i - 1) % Period }

(* The places a chunk adds.                                                *)
LEMMA DeviationsGrow ==
  ASSUME NEW s \in Seq(Bytes), NEW c \in Seq(Bytes)
  PROVE  LET wrong == DeviationsBehind(Len(s), c)
         IN  /\ Deviations(s \o c) = Deviations(s) \cup { Len(s) + i : i \in wrong }
             /\ Cardinality(Deviations(s \o c)) = Cardinality(Deviations(s)) + Cardinality(wrong)
             /\ wrong \subseteq 1..Len(c) /\ wrong \in SUBSET Nat /\ Cardinality(wrong) \in Nat
             /\ Cardinality(wrong) = 0 <=> wrong = {}
<1> DEFINE wrong == DeviationsBehind(Len(s), c)
           k == Len(s)
           shifted == { k + i : i \in wrong }
           f == [ i \in wrong |-> k + i ]
<1>1. /\ Len(s) \in Nat /\ DOMAIN s = 1..Len(s)
      /\ Len(c) \in Nat /\ DOMAIN c = 1..Len(c)
  BY LenProperties
<1>2. /\ s \o c \in Seq(Bytes) /\ Len(s \o c) = Len(s) + Len(c)
      /\ \A i \in 1..(Len(s) + Len(c)) :
           (s \o c)[i] = IF i <= Len(s) THEN s[i] ELSE c[i - Len(s)]
  BY ConcatProperties
<1>3. DOMAIN (s \o c) = 1..(Len(s) + Len(c))
  BY <1>2, LenProperties
<1>4. wrong \subseteq 1..Len(c) /\ wrong \in SUBSET Nat
  BY <1>1 DEF DeviationsBehind
<1>5. IsFiniteSet(wrong) /\ Cardinality(wrong) \in Nat /\ (Cardinality(wrong) = 0 <=> wrong = {})
  <2>1. IsFiniteSet(1..Len(c))
    BY <1>1, FS_Interval
  <2>2. IsFiniteSet(wrong)
    BY <1>4, <2>1, FS_Subset
  <2> QED BY <2>2, FS_CardinalityType, FS_EmptySet
<1>6. IsFiniteSet(shifted) /\ Cardinality(shifted) = Cardinality(wrong)
  <2>1. f \in Bijection(wrong, shifted)
    BY <1>1, <1>4 DEF Bijection, Injection, Surjection, IsInjective
  <2>2. ExistsBijection(wrong, shifted)
    BY <2>1 DEF ExistsBijection
  <2> QED BY <1>5, <2>2, FS_Bijection
<1>7. Deviations(s \o c) = Deviations(s) \cup shifted
  <2>1. ASSUME NEW i \in 1..Len(s)
        PROVE  i \in Deviations(s \o c) <=> i \in Deviations(s)
    <3>1. (s \o c)[i] = s[i] /\ i \in DOMAIN s /\ i \in DOMAIN (s \o c)
      BY <1>1, <1>2, <1>3
    <3> QED BY <3>1 DEF Deviations
  <2>2. ASSUME NEW i \in 1..Len(c)
        PROVE  Len(s) + i \in Deviations(s \o c) <=> i \in wrong
    <3>1. (s \o c)[Len(s) + i] = c[i] /\ i \in DOMAIN c /\ Len(s) + i \in DOMAIN (s \o c)
      BY <1>1, <1>2, <1>3
    <3> QED BY <3>1 DEF Deviations, DeviationsBehind
  <2>3. \A j \in 1..(Len(s) + Len(c)) : j \in 1..Len(s) \/ \E i \in 1..Len(c) : j = Len(s) + i
    <3> SUFFICES ASSUME NEW j \in 1..(Len(s) + Len(c)), j \notin 1..Len(s)
                 PROVE  \E i \in 1..Len(c) : j = Len(s) + i
      OBVIOUS
    <3>1. j - Len(s) \in 1..Len(c) /\ j = Len(s) + (j - Len(s))
      BY <1>1
    <3> QED BY <3>1
  <2>4. Deviations(s \o c) \subseteq 1..(Len(s) + Len(c)) /\ Deviations(s) \subseteq 1..Len(s)
    BY <1>1, <1>3 DEF Deviations
  <2>5. \A i \in 1..Len(c) : Len(s) + i \notin 1..Len(s)
    BY <1>1
  <2> QED BY <1>4, <2>1, <2>2, <2>3, <2>4, <2>5
<1>8. Deviations(s) \cap shifted = {}
  <2>1. Deviations(s) \subseteq 1..Len(s)
    BY <1>1 DEF Deviations
  <2>2. \A i \in wrong : k + i \notin 1..Len(s)
    BY <1>1, <1>4
  <2> QED BY <2>1, <2>2
<1>9. Cardinality(Deviations(s) \cup shifted) = Cardinality(Deviations(s)) + Cardinality(wrong)
  <2>1. IsFiniteSet(Deviations(s)) /\ Cardinality(Deviations(s)) \in Nat
    BY DeviationsFinite
  <2>2. /\ Cardinality(Deviations(s) \cup shifted)
             = Cardinality(Deviations(s)) + Cardinality(shifted)
                 - Cardinality(Deviations(s) \cap shifted)
    <3> HIDE DEF shifted
    <3> QED BY <1>6, <2>1, FS_Union
  <2>3. Cardinality(Deviations(s) \cap shifted) = 0
    BY <1>8, FS_EmptySet
  <2> QED BY <1>5, <1>6, <2>1, <2>2, <2>3
<1> QED BY <1>4, <1>5, <1>7, <1>9

(* The first of two groups of places is the first of both, if the second   *)
(* lies behind it.                                                         *)
LEMMA FirstStays ==
  ASSUME NEW A \in SUBSET Nat, NEW B \in SUBSET Nat, A # {},
         \A a \in A, b \in B : a < b
  PROVE  Min(A \cup B) = Min(A)
<1>1. Min(A) \in A /\ \A y \in A : Min(A) <= y
  BY MinIsLeast
<1>2. \A y \in A \cup B : Min(A) <= y
  <2> SUFFICES ASSUME NEW y \in B PROVE Min(A) <= y
    BY <1>1
  <2>1. Min(A) < y /\ Min(A) \in Nat /\ y \in Nat
    BY <1>1
  <2> QED BY <2>1
<1>3. Min(A) \in A \cup B /\ A \cup B \in SUBSET Nat
  BY <1>1
<1> QED BY <1>2, <1>3, MinIs

(* The first place of a chunk, counted from the start of the body.         *)
LEMMA FirstShifted ==
  ASSUME NEW B \in SUBSET Nat, B # {}, NEW k \in Nat
  PROVE  Min({ k + i : i \in B }) = k + Min(B)
<1>1. Min(B) \in B /\ \A y \in B : Min(B) <= y
  BY MinIsLeast
<1>2. /\ { k + i : i \in B } \in SUBSET Nat
      /\ Min(B) \in Nat
  <2>1. \A i \in B : k + i \in Nat
    OBVIOUS
  <2> QED BY <1>1, <2>1
<1>3. \A y \in { k + i : i \in B } : k + Min(B) <= y
  <2> SUFFICES ASSUME NEW i \in B PROVE k + Min(B) <= k + i
    OBVIOUS
  <2>1. i \in Nat /\ Min(B) <= i
    BY <1>1
  <2> QED BY <2>1, <1>2
<1>4. k + Min(B) \in { k + i : i \in B }
  BY <1>1
<1> DEFINE S == { k + i : i \in B }
           m == k + Min(B)
<1>5. S \in SUBSET Nat /\ m \in S /\ \A y \in S : m <= y
  BY <1>2, <1>3, <1>4
<1> HIDE DEF S, m
<1>6. Min(S) = m
  BY <1>5, MinIs
<1> QED BY <1>6 DEF S, m

(* One chunk, looked at from where the tally stood.                        *)
LEMMA TestChunkTallies ==
  ASSUME Shape, Tally, request = "test", ~aborted,
         NEW chunk \in Seq(Bytes), taken' = taken \o chunk, TestChunk(chunk)
  PROVE  /\ Deviations(taken') # {} => firstOff' = Min(Deviations(taken')) - 1
         /\ aborted' => /\ mismatches' = LogBudget
                        /\ LogBudget <= Cardinality(Deviations(taken'))
         /\ ~aborted' => /\ cumulative' = Len(taken')
                         /\ mismatches' = Cardinality(Deviations(taken'))
                         /\ mismatches' < LogBudget
<1> DEFINE wrong == { i \in DOMAIN chunk : Value(chunk[i]) # Expected(i) }
           shifted == { Len(taken) + i : i \in wrong }
           seen == mismatches + Cardinality(wrong)
           D == Deviations(taken)
           E == Deviations(taken \o chunk)
<1>1. taken \in Seq(Bytes) /\ LogBudget \in Nat
  BY ResponsesAssumption DEF Shape
<1>2. /\ Deviations(taken) # {} => firstOff = Min(Deviations(taken)) - 1
      /\ cumulative = Len(taken)
      /\ mismatches = Cardinality(Deviations(taken))
      /\ mismatches < LogBudget
  BY DEF Tally
<1>3. /\ D \subseteq 1..Len(taken) /\ D \in SUBSET Nat
      /\ Cardinality(D) \in Nat /\ (Cardinality(D) = 0 <=> D = {})
  BY <1>1, DeviationsFinite
<1>4. wrong = DeviationsBehind(Len(taken), chunk)
  BY <1>2 DEF Expected, DeviationsBehind
<1>5. /\ firstOff' = IF mismatches = 0 /\ wrong # {} THEN cumulative + Min(wrong) - 1
                     ELSE firstOff
      /\ IF seen >= LogBudget
           THEN mismatches' = LogBudget /\ aborted' = TRUE /\ UNCHANGED cumulative
           ELSE /\ mismatches' = seen /\ cumulative' = cumulative + Len(chunk)
                /\ UNCHANGED aborted
  BY DEF TestChunk
<1> HIDE DEF wrong
<1>6. /\ E = D \cup shifted
      /\ Cardinality(E) = Cardinality(D) + Cardinality(wrong)
      /\ wrong \subseteq 1..Len(chunk) /\ wrong \in SUBSET Nat
      /\ Cardinality(wrong) \in Nat /\ (Cardinality(wrong) = 0 <=> wrong = {})
  BY <1>1, <1>4, DeviationsGrow
<1>7. Len(taken) \in Nat /\ Len(chunk) \in Nat /\ Len(taken \o chunk) = Len(taken) + Len(chunk)
  BY <1>1, LenProperties, ConcatProperties
<1>8. Deviations(taken') = E /\ Len(taken') = Len(taken) + Len(chunk)
  BY <1>7
<1> HIDE DEF D, E, shifted, seen
<1>9. E # {} => firstOff' = Min(E) - 1
  <2> SUFFICES ASSUME E # {} PROVE firstOff' = Min(E) - 1
    OBVIOUS
  <2>1. CASE D # {}
    <3>1. mismatches # 0 /\ firstOff = Min(D) - 1
      BY <2>1, <1>2, <1>3 DEF D
    <3>2. shifted \in SUBSET Nat /\ \A a \in D, b \in shifted : a < b
      BY <1>3, <1>6, <1>7 DEF shifted
    <3>3. Min(E) = Min(D)
      BY <2>1, <3>2, <1>3, <1>6, FirstStays
    <3> QED BY <3>1, <3>3, <1>5
  <2>2. CASE D = {}
    <3>1. mismatches = 0 /\ E = shifted
      BY <2>2, <1>2, <1>3, <1>6 DEF D
    <3>2. wrong # {}
      BY <3>1 DEF shifted
    <3>3. Min(E) = Len(taken) + Min(wrong) /\ Min(wrong) \in Nat
      BY <3>1, <3>2, <1>6, <1>7, FirstShifted, MinIsLeast DEF shifted
    <3> QED BY <3>1, <3>2, <3>3, <1>2, <1>5, <1>7
  <2> QED BY <2>1, <2>2
<1>10. seen = Cardinality(E) /\ seen \in Nat
  BY <1>2, <1>3, <1>6 DEF seen, D
<1>11. CASE seen >= LogBudget
  BY <1>11, <1>1, <1>5, <1>8, <1>9, <1>10
<1>12. CASE ~(seen >= LogBudget)
  BY <1>12, <1>1, <1>2, <1>5, <1>8, <1>9, <1>10
<1> QED BY <1>11, <1>12

LEMMA TallyStep ==
  ASSUME Shape, NothingAnswered, Tally, [ResponsesNext]_responseVars
  PROVE  Tally'
<1>1. CASE UNCHANGED responseVars
  BY <1>1 DEF Tally, responseVars, tally
<1>2. ASSUME NEW call \in {"test", "checkin"}, Ask(call)
      PROVE  Tally'
  <2>1. taken' = <<>> /\ cumulative' = 0 /\ mismatches' = 0 /\ aborted' = FALSE
    BY <1>2 DEF Ask
  <2>2. Deviations(<<>>) = {} /\ Cardinality({}) = 0
    BY FS_EmptySet DEF Deviations
  <2>3. Len(taken') = 0 /\ 0 < LogBudget
    BY <2>1, ResponsesAssumption
  <2> QED BY <2>1, <2>2, <2>3 DEF Tally
<1>3. ASSUME NEW n \in 1..PieceMax, Arrives(n)
      PROVE  Tally'
  <2>1. request # "none" /\ ~aborted /\ request' = request /\ answer' = answer
    BY <1>3, ArrivesBrings
  <2>2. PICK chunk \in Seq(Bytes) :
          /\ taken' = taken \o chunk
          /\ IF request = "test" THEN TestChunk(chunk) /\ UNCHANGED cmd
             ELSE cmd' = Captured(chunk) /\ UNCHANGED tally
    BY <1>3, ArrivesBrings
  <2>3. answer.call = "none"
    BY <2>1 DEF NothingAnswered
  <2>4. CASE request = "test"
    <3>1. TestChunk(chunk) /\ taken' = taken \o chunk
      BY <2>2, <2>4, Zenon
    <3> QED BY <2>1, <2>4, <3>1, TestChunkTallies DEF Tally
  <2>5. CASE request # "test"
    BY <2>1, <2>3, <2>5 DEF Tally
  <2> QED BY <2>4, <2>5
<1>4. CASE TestEnds
  BY <1>4 DEF TestEnds, Returns, Tally, tally
<1>5. CASE CheckInReturns
  BY <1>5 DEF CheckInReturns, Returns, Tally, tally
<1> QED BY <1>1, <1>2, <1>3, <1>4, <1>5 DEF ResponsesNext

LEMMA VerdictStep ==
  ASSUME Shape, NothingAnswered, Verdict, [ResponsesNext]_responseVars
  PROVE  Verdict'
<1>1. CASE UNCHANGED responseVars
  BY <1>1 DEF Verdict, responseVars, tally
<1>2. ASSUME NEW call \in {"test", "checkin"}, Ask(call)
      PROVE  Verdict'
  <2>1. answer'.call = "none"
    BY <1>2 DEF Ask, NoAnswer
  <2> QED BY <2>1 DEF Verdict
<1>3. ASSUME NEW n \in 1..PieceMax, Arrives(n)
      PROVE  Verdict'
  <2>1. answer'.call = "none"
    BY <1>3, ArrivesBrings DEF NothingAnswered
  <2> QED BY <2>1 DEF Verdict
<1>4. CASE TestEnds
  <2>1. /\ answer' = [ call |-> "test", pass |-> cumulative > 0 /\ mismatches = 0,
                       count |-> mismatches, first |-> firstOff, ret |-> 0 ]
        /\ cumulative' = cumulative /\ mismatches' = mismatches /\ firstOff' = firstOff
    BY <1>4 DEF TestEnds, Returns, tally
  <2> QED BY <2>1 DEF Verdict
<1>5. CASE CheckInReturns
  <2>1. answer'.call = "checkin"
    BY <1>5 DEF CheckInReturns, Returns
  <2> QED BY <2>1 DEF Verdict
<1> QED BY <1>1, <1>2, <1>3, <1>4, <1>5 DEF ResponsesNext

(***************************************************************************)
(* The theorems.                                                           *)
(***************************************************************************)

ResponsesInv == Shape /\ NothingAnswered /\ Mailbox /\ Tally /\ Verdict

LEMMA ResponsesInitHolds ==
  ASSUME ResponsesInit
  PROVE  ResponsesInv
<1>1. /\ request = "none" /\ at = 0 /\ taken = <<>>
      /\ cumulative = 0 /\ mismatches = 0 /\ firstOff = 0 /\ aborted = FALSE
      /\ answer = NoAnswer
  BY DEF ResponsesInit
<1>2. answer.call = "none"
  BY <1>1 DEF NoAnswer
<1>3. answer \in [ call : {"none", "test", "checkin"}, pass : BOOLEAN, count : Nat,
                   first : Int, ret : Int ]
  BY <1>1 DEF NoAnswer
<1>4. taken \in Seq(Bytes) /\ mismatches \in 0..LogBudget
  BY <1>1, EmptySeq, ResponsesAssumption
<1>5. Shape
  <2>1. request \in {"none", "test", "checkin"} /\ aborted \in BOOLEAN
    BY <1>1, Zenon
  <2>2. at \in Nat /\ cumulative \in Nat /\ firstOff \in Int
    BY <1>1
  <2> QED BY <1>3, <1>4, <2>1, <2>2 DEF Shape
<1>6. NothingAnswered /\ Mailbox /\ Tally /\ Verdict
  <2>1. request # "test" /\ request # "checkin"
    BY <1>1
  <2> QED BY <1>2, <2>1 DEF NothingAnswered, Mailbox, Tally, Verdict
<1> QED BY <1>5, <1>6 DEF ResponsesInv

LEMMA ResponsesInvariant == ResponsesSpec => []ResponsesInv
<1>1. ResponsesInit => ResponsesInv
  BY ResponsesInitHolds
<1>2. ResponsesInv /\ [ResponsesNext]_responseVars => ResponsesInv'
  BY ShapeStep, MailboxStep, TallyStep, VerdictStep DEF ResponsesInv
<1> QED BY <1>1, <1>2, PTL DEF ResponsesSpec

(* checkIn() returns the number of command bytes it captured, and that     *)
(* many first bytes of the reply are in the caller's buffer: for every     *)
(* capacity, every reply, and every way the transport cuts it into chunks. *)
THEOREM CommandCorrect == ResponsesSpec => []CommandIsReply
<1>1. ResponsesInv => CommandIsReply
  <2> SUFFICES ASSUME ResponsesInv, answer.call = "checkin", answer.ret >= 0
               PROVE  /\ answer.ret = Smallest(CmdCap, Len(taken))
                      /\ cmd = SubSeq(taken, 1, answer.ret)
    BY DEF CommandIsReply
  <2>1. /\ cmd = SubSeq(taken, 1, Smallest(CmdCap, Len(taken)))
        /\ answer.ret \in {Len(cmd), -1}
    BY DEF ResponsesInv, Mailbox
  <2>2. taken \in Seq(Bytes) /\ Len(taken) \in Nat
    BY LenProperties DEF ResponsesInv, Shape
  <2>3. Smallest(CmdCap, Len(taken)) \in 0..Len(taken)
    BY <2>2, ResponsesAssumption DEF Smallest
  <2>4. Len(cmd) = Smallest(CmdCap, Len(taken))
    BY <2>1, <2>2, <2>3, Prefix
  <2>5. answer.ret = Len(cmd)
    <3>1. answer.ret = Len(cmd) \/ answer.ret = -1
      BY <2>1
    <3> QED BY <3>1
  <2> QED BY <2>1, <2>4, <2>5
<1> QED BY <1>1, ResponsesInvariant, PTL

(* The self-test passes exactly the non-empty bodies that carry the        *)
(* pattern in every byte, names the first byte that does not and counts    *)
(* them up to its budget: for every pattern, every budget of two or more,  *)
(* and wherever chunks end and bytes are lost, repeated or corrupted.      *)
THEOREM VerdictCorrect == ResponsesSpec => []VerdictIsRight
<1>1. ResponsesInv => VerdictIsRight
  <2> SUFFICES ASSUME ResponsesInv, answer.call = "test"
               PROVE  /\ answer.pass <=> taken # <<>> /\ Deviations(taken) = {}
                      /\ answer.count = Smallest(LogBudget, Cardinality(Deviations(taken)))
                      /\ Deviations(taken) # {} =>
                           answer.first = Min(Deviations(taken)) - 1
    BY MisplacedIsDeviations DEF VerdictIsRight
  <2>1. /\ answer.pass = (cumulative > 0 /\ mismatches = 0)
        /\ answer.count = mismatches /\ answer.first = firstOff
    BY DEF ResponsesInv, Verdict
  <2>2. /\ Deviations(taken) # {} => firstOff = Min(Deviations(taken)) - 1
        /\ aborted => /\ mismatches = LogBudget
                      /\ LogBudget <= Cardinality(Deviations(taken))
        /\ ~aborted => /\ cumulative = Len(taken)
                       /\ mismatches = Cardinality(Deviations(taken))
                       /\ mismatches < LogBudget
    BY DEF ResponsesInv, Tally
  <2>3. taken \in Seq(Bytes) /\ cumulative \in Nat /\ LogBudget \in Nat \ {0, 1}
    BY ResponsesAssumption DEF ResponsesInv, Shape
  <2>4. /\ Cardinality(Deviations(taken)) \in Nat
        /\ Cardinality(Deviations(taken)) = 0 <=> Deviations(taken) = {}
    BY <2>3, DeviationsFinite
  <2>5. Len(taken) \in Nat /\ (Len(taken) > 0 <=> taken # <<>>)
    BY <2>3, EmptySeq
  <2>6. CASE aborted
    <3>1. mismatches = LogBudget /\ LogBudget <= Cardinality(Deviations(taken))
      BY <2>2, <2>6
    <3>2. answer.count = Smallest(LogBudget, Cardinality(Deviations(taken)))
      BY <2>1, <2>3, <2>4, <3>1 DEF Smallest
    <3>3. answer.pass <=> taken # <<>> /\ Deviations(taken) = {}
      <4>1. mismatches # 0 /\ Deviations(taken) # {}
        BY <2>3, <2>4, <3>1
      <4> QED BY <2>1, <4>1, Zenon
    <3> QED BY <2>1, <2>2, <3>2, <3>3
  <2>7. CASE ~aborted
    <3>1. /\ cumulative = Len(taken)
          /\ mismatches = Cardinality(Deviations(taken))
          /\ mismatches < LogBudget
      BY <2>2, <2>7
    <3>2. answer.count = Smallest(LogBudget, Cardinality(Deviations(taken)))
      BY <2>1, <2>3, <2>4, <3>1 DEF Smallest
    <3>3. answer.pass <=> taken # <<>> /\ Deviations(taken) = {}
      BY <2>1, <2>3, <2>4, <2>5, <3>1
    <3> QED BY <2>1, <2>2, <3>2, <3>3
  <2> QED BY <2>6, <2>7
<1> QED BY <1>1, ResponsesInvariant, PTL

-----------------------------------------------------------------------------
(***************************************************************************)
(* The bodies.  A reader of JSON is the recursive function of Read; it is  *)
(* first shown to exist for every text, and then followed through a text   *)
(* made of a message.                                                      *)
(***************************************************************************)

(* What the reader makes of t from byte i on, given what g makes of it     *)
(* behind i.                                                               *)
ReadStep(t, g, i) ==
  IF i > Len(t) THEN <<"unterminated">>
  ELSE CASE t[i] = "backslash" ->
              IF i < Len(t) /\ t[i + 1] \in {"quote", "backslash"}
                THEN <<t[i + 1]>> \o g[i + 2] ELSE <<"bad escape">>
         [] t[i] = "quote" ->
              IF i + 1 = Len(t) /\ t[i + 1] = "brace" THEN <<>>
              ELSE <<"ends early">>
         [] t[i] = "control" -> <<"not escaped">>
         [] OTHER -> <<t[i]>> \o g[i + 1]

Reader(t) == CHOOSE g : g = [ i \in 1..(Len(t) + 1) |-> ReadStep(t, g, i) ]

LEMMA ReadIsReader == Read = Reader(text)[1] /\ Read' = Reader(text')[1]
BY DEF Read, Reader, ReadStep

(* It looks only ahead. *)
LEMMA ReadsAhead ==
  ASSUME NEW t, Len(t) \in Nat, NEW g, NEW h, NEW i \in 1..(Len(t) + 1),
         \A j \in (i + 1)..(Len(t) + 1) : g[j] = h[j]
  PROVE  ReadStep(t, g, i) = ReadStep(t, h, i)
<1>1. CASE i > Len(t)
  BY <1>1 DEF ReadStep
<1>2. CASE i <= Len(t)
  <2>1. g[i + 1] = h[i + 1]
    BY <1>2
  <2>2. i < Len(t) => g[i + 2] = h[i + 2]
    BY <1>2
  <2> QED BY <2>1, <2>2 DEF ReadStep
<1> QED BY <1>1, <1>2

(* It exists: it is built from the end of the text backwards.              *)
LEMMA ReaderExists ==
  ASSUME NEW t, Len(t) \in Nat
  PROVE  \E g : g = [ i \in 1..(Len(t) + 1) |-> ReadStep(t, g, i) ]
<1> DEFINE L == Len(t) + 1
           Built(n) == \E g : g = [ i \in 1..L |-> IF i < L - n THEN <<>> ELSE ReadStep(t, g, i) ]
           T == { n \in Nat : n < L => Built(n) }
<1>1. 0 \in T
  <2> DEFINE g == [ i \in 1..L |-> IF i < L THEN <<>> ELSE <<"unterminated">> ]
  <2>1. \A i \in 1..L : ~(i < L) => ReadStep(t, g, i) = <<"unterminated">>
    <3> HIDE DEF g
    <3>1. \A i \in 1..L : ~(i < L) => i > Len(t)
      OBVIOUS
    <3> QED BY <3>1 DEF ReadStep
  <2>2. g = [ i \in 1..L |-> IF i < L - 0 THEN <<>> ELSE ReadStep(t, g, i) ]
    BY <2>1
  <2> QED BY <2>2
<1>2. ASSUME NEW n \in T PROVE n + 1 \in T
  <2> SUFFICES ASSUME n + 1 < L PROVE Built(n + 1)
    OBVIOUS
  <2>1. PICK g : g = [ i \in 1..L |-> IF i < L - n THEN <<>> ELSE ReadStep(t, g, i) ]
    OBVIOUS
  <2> DEFINE k == L - n - 1
             h == [ i \in 1..L |-> IF i = k THEN ReadStep(t, g, i) ELSE g[i] ]
  <2>2. k \in 1..L /\ L \in Nat /\ n \in Nat
    OBVIOUS
  <2>3. \A i \in 1..L : i >= k => ReadStep(t, h, i) = ReadStep(t, g, i)
    <3> SUFFICES ASSUME NEW i \in 1..L, i >= k PROVE ReadStep(t, h, i) = ReadStep(t, g, i)
      OBVIOUS
    <3>1. \A j \in (i + 1)..L : h[j] = g[j]
      BY <2>2
    <3> HIDE DEF h, k
    <3> QED BY <3>1, <2>2, ReadsAhead
  <2>4. \A i \in 1..L : h[i] = IF i < L - (n + 1) THEN <<>> ELSE ReadStep(t, h, i)
    <3> SUFFICES ASSUME NEW i \in 1..L
                 PROVE  h[i] = IF i < L - (n + 1) THEN <<>> ELSE ReadStep(t, h, i)
      OBVIOUS
    <3>1. CASE i = k
      BY <3>1, <2>2, <2>3
    <3>2. CASE i < k
      BY <3>2, <2>1, <2>2
    <3>3. CASE i > k
      <4>1. i # k /\ ~(i < L - n) /\ ~(i < L - (n + 1)) /\ i >= k
        BY <3>3, <2>2
      <4>2. h[i] = g[i]
        BY <4>1
      <4>3. g[i] = ReadStep(t, g, i)
        <5> HIDE DEF h, k
        <5> QED BY <4>1, <2>1
      <4>4. ReadStep(t, h, i) = ReadStep(t, g, i)
        <5> HIDE DEF h, k
        <5> QED BY <4>1, <2>3
      <4> HIDE DEF h, k
      <4> QED BY <4>1, <4>2, <4>3, <4>4
    <3>4. i = k \/ i < k \/ i > k
      BY <2>2
    <3> HIDE DEF h, k
    <3> QED BY <3>1, <3>2, <3>3, <3>4
  <2>5. h = [ i \in 1..L |-> IF i < L - (n + 1) THEN <<>> ELSE ReadStep(t, h, i) ]
    BY <2>4
  <2> QED BY <2>5
<1>3. T = Nat
  <2> HIDE DEF T
  <2>1. T \in SUBSET Nat
    BY DEF T
  <2> QED BY <1>1, <1>2, <2>1, NatInduct
<1>4. Built(Len(t))
  BY <1>3
<1>5. PICK g : g = [ i \in 1..L |-> IF i < L - Len(t) THEN <<>> ELSE ReadStep(t, g, i) ]
  BY <1>4
<1>6. \A i \in 1..L : ~(i < L - Len(t))
  OBVIOUS
<1>7. g = [ i \in 1..L |-> ReadStep(t, g, i) ]
  BY <1>5, <1>6
<1> QED BY <1>7

LEMMA ReaderReads ==
  ASSUME NEW t, Len(t) \in Nat, NEW i \in 1..(Len(t) + 1)
  PROVE  Reader(t)[i] = ReadStep(t, Reader(t), i)
<1>1. Reader(t) = [ j \in 1..(Len(t) + 1) |-> ReadStep(t, Reader(t), j) ]
  BY ReaderExists DEF Reader
<1> QED BY <1>1

TextBytes == {"plain", "quote", "backslash", "blank", "brace"}

MeansOf(c) == IF c = "control" THEN "blank" ELSE c

(* Meant, of any message. *)
MeantBy(m) == [ i \in DOMAIN m |-> MeansOf(m[i]) ]

(* t is m, escaped: the j-th byte of m is written place[j] bytes into t.   *)
CodedAt(m, t, place) ==
  /\ place \in [1..(Len(m) + 1) -> Nat \ {0}]
  /\ place[1] = 1 /\ place[Len(m) + 1] = Len(t) + 1
  /\ \A j \in 1..Len(m) :
       /\ place[j] <= Len(t)
       /\ Escaped(m[j]) => /\ place[j + 1] = place[j] + 2 /\ place[j] + 1 <= Len(t)
                           /\ t[place[j]] = "backslash" /\ t[place[j] + 1] = m[j]
       /\ ~Escaped(m[j]) => /\ place[j + 1] = place[j] + 1
                            /\ t[place[j]] = MeansOf(m[j])

Coded(m, t) == \E place : CodedAt(m, t, place)

LEMMA NothingCoded == Coded(<<>>, <<>>)
<1> DEFINE f == [ j \in 1..1 |-> 1 ]
<1>1. CodedAt(<<>>, <<>>, f)
  BY DEF CodedAt
<1> QED BY <1>1 DEF Coded

(* What a byte of the message is written as. *)
LEMMA BytesWritten ==
  ASSUME NEW c \in Chars
  PROVE  /\ BytesOf(c) \in Seq(TextBytes)
         /\ Escaped(c) => /\ Len(BytesOf(c)) = 2
                          /\ BytesOf(c)[1] = "backslash" /\ BytesOf(c)[2] = c
         /\ ~Escaped(c) => Len(BytesOf(c)) = 1 /\ BytesOf(c)[1] = MeansOf(c)
<1>1. CASE Escaped(c)
  <2>1. c \in {"quote", "backslash"}
    BY <1>1 DEF Escaped
  <2>2. BytesOf(c) = <<"backslash">> \o <<c>>
    BY <1>1, <2>1 DEF BytesOf
  <2> DEFINE u == <<"backslash">>
             v == <<c>>
  <2>3. /\ u \in Seq(TextBytes) /\ Len(u) = 1 /\ u[1] = "backslash"
        /\ v \in Seq(TextBytes) /\ Len(v) = 1 /\ v[1] = c
    BY <2>1 DEF TextBytes
  <2> HIDE DEF u, v
  <2>4. /\ u \o v \in Seq(TextBytes) /\ Len(u \o v) = 1 + 1
        /\ \A i \in 1..(1 + 1) : (u \o v)[i] = IF i <= 1 THEN u[i] ELSE v[i - 1]
    BY <2>3, ConcatProperties
  <2>5. (u \o v)[1] = u[1] /\ (u \o v)[2] = v[1]
    BY <2>4
  <2>6. BytesOf(c) = u \o v
    BY <2>2 DEF u, v
  <2> QED BY <1>1, <2>3, <2>4, <2>5, <2>6
<1>2. CASE ~Escaped(c)
  <2>1. BytesOf(c) = <<>> \o <<MeansOf(c)>>
    BY <1>2 DEF BytesOf, MeansOf
  <2>2. <<>> \o <<MeansOf(c)>> = <<MeansOf(c)>>
    OBVIOUS
  <2>3. MeansOf(c) \in TextBytes
    BY <1>2 DEF Escaped, MeansOf, Chars, TextBytes
  <2>4. <<MeansOf(c)>> \in Seq(TextBytes)
    BY <2>3
  <2> QED BY <1>2, <2>1, <2>2, <2>4
<1> QED BY <1>1, <1>2

(* The loop writes one more byte. *)
LEMMA CodedGrows ==
  ASSUME NEW m \in Seq(Chars), NEW t \in Seq(TextBytes), NEW c \in Chars, Coded(m, t)
  PROVE  Coded(Append(m, c), t \o BytesOf(c))
<1>1. PICK f : CodedAt(m, t, f)
  BY DEF Coded
<1> DEFINE k == Len(m)
           b == BytesOf(c)
           M == Append(m, c)
           U == t \o b
           g == [ j \in 1..(k + 2) |-> IF j = k + 2 THEN Len(U) + 1 ELSE f[j] ]
<1>2. k \in Nat /\ Len(t) \in Nat
  BY LenProperties
<1>3. /\ b \in Seq(TextBytes) /\ (Len(b) = 1 \/ Len(b) = 2)
      /\ Escaped(c) => Len(b) = 2 /\ b[1] = "backslash" /\ b[2] = c
      /\ ~Escaped(c) => Len(b) = 1 /\ b[1] = MeansOf(c)
  BY BytesWritten
<1>4. /\ Len(M) = k + 1 /\ (\A i \in 1..k : M[i] = m[i]) /\ M[k + 1] = c
  BY AppendProperties
<1> HIDE DEF b
<1>5. /\ U \in Seq(TextBytes) /\ Len(U) = Len(t) + Len(b)
      /\ \A i \in 1..(Len(t) + Len(b)) : U[i] = IF i <= Len(t) THEN t[i] ELSE b[i - Len(t)]
  BY <1>3, ConcatProperties
<1>6. /\ \A i \in 1..Len(t) : U[i] = t[i]
      /\ \A i \in 1..Len(b) : U[Len(t) + i] = b[i]
  <2>1. \A i \in 1..Len(t) : U[i] = t[i]
    BY <1>2, <1>3, <1>5
  <2>2. ASSUME NEW i \in 1..Len(b) PROVE U[Len(t) + i] = b[i]
    <3>1. Len(t) + i \in 1..(Len(t) + Len(b)) /\ ~(Len(t) + i <= Len(t)) /\ (Len(t) + i) - Len(t) = i
      BY <1>2, <1>3
    <3> QED BY <1>5, <3>1
  <2> QED BY <2>1, <2>2
<1> HIDE DEF k, M, U
<1>7. /\ f \in [1..(k + 1) -> Nat \ {0}]
      /\ f[1] = 1 /\ f[k + 1] = Len(t) + 1
      /\ \A j \in 1..k :
           /\ f[j] <= Len(t)
           /\ Escaped(m[j]) => /\ f[j + 1] = f[j] + 2 /\ f[j] + 1 <= Len(t)
                               /\ t[f[j]] = "backslash" /\ t[f[j] + 1] = m[j]
           /\ ~Escaped(m[j]) => /\ f[j + 1] = f[j] + 1
                                /\ t[f[j]] = MeansOf(m[j])
  BY <1>1 DEF CodedAt, k
<1>8. /\ g \in [1..(Len(M) + 1) -> Nat \ {0}]
      /\ g[1] = 1 /\ g[Len(M) + 1] = Len(U) + 1
  BY <1>2, <1>3, <1>4, <1>5, <1>7
<1>9. ASSUME NEW j \in 1..Len(M)
      PROVE  /\ g[j] <= Len(U)
             /\ Escaped(M[j]) => /\ g[j + 1] = g[j] + 2 /\ g[j] + 1 <= Len(U)
                                 /\ U[g[j]] = "backslash" /\ U[g[j] + 1] = M[j]
             /\ ~Escaped(M[j]) => /\ g[j + 1] = g[j] + 1
                                  /\ U[g[j]] = MeansOf(M[j])
  <2>1. CASE j \in 1..k
    <3>1. g[j] = f[j] /\ g[j + 1] = f[j + 1] /\ M[j] = m[j]
      BY <2>1, <1>2, <1>4
    <3>2. f[j] \in 1..Len(t) /\ (Escaped(m[j]) => f[j] + 1 \in 1..Len(t))
      BY <2>1, <1>2, <1>7
    <3> HIDE DEF g
    <3>3. g[j] <= Len(U)
      BY <3>1, <3>2, <1>2, <1>3, <1>5
    <3>4. U[f[j]] = t[f[j]] /\ (Escaped(m[j]) => U[f[j] + 1] = t[f[j] + 1])
      BY <3>2, <1>6
    <3>5. Escaped(m[j]) => f[j] + 1 <= Len(U)
      BY <3>2, <1>2, <1>3, <1>5
    <3>6. /\ Escaped(m[j]) => /\ f[j + 1] = f[j] + 2
                              /\ t[f[j]] = "backslash" /\ t[f[j] + 1] = m[j]
          /\ ~Escaped(m[j]) => f[j + 1] = f[j] + 1 /\ t[f[j]] = MeansOf(m[j])
      BY <2>1, <1>7
    <3> QED BY <3>1, <3>3, <3>4, <3>5, <3>6
  <2>2. CASE j = k + 1
    <3>1. g[j] = Len(t) + 1 /\ g[j + 1] = Len(t) + Len(b) + 1 /\ M[j] = c
      BY <2>2, <1>2, <1>4, <1>5, <1>7
    <3>2. U[Len(t) + 1] = b[1] /\ (Len(b) = 2 => U[Len(t) + 2] = b[2])
      BY <1>3, <1>6
    <3>3. g[j] + 1 = Len(t) + 2
      BY <3>1, <1>2
    <3> HIDE DEF g
    <3>4. g[j] <= Len(U) /\ (Len(b) = 2 => g[j] + 1 <= Len(U))
      BY <3>1, <3>3, <1>2, <1>3, <1>5
    <3>5. /\ Len(b) = 2 => g[j + 1] = g[j] + 2
          /\ Len(b) = 1 => g[j + 1] = g[j] + 1
      <4>1. g[j] = Len(t) + 1 /\ g[j + 1] = Len(t) + Len(b) + 1
        BY <3>1
      <4>2. CASE Len(b) = 2
        BY <4>1, <4>2, <1>2
      <4>3. CASE Len(b) = 1
        BY <4>1, <4>3, <1>2
      <4> QED BY <4>2, <4>3, <1>3
    <3>6. CASE Escaped(c)
      <4>1. Len(b) = 2 /\ b[1] = "backslash" /\ b[2] = c
        BY <3>6, <1>3
      <4>2. U[g[j]] = "backslash" /\ U[g[j] + 1] = M[j]
        BY <4>1, <3>1, <3>2, <3>3
      <4> QED BY <3>1, <3>4, <3>5, <3>6, <4>1, <4>2
    <3>7. CASE ~Escaped(c)
      <4>1. Len(b) = 1 /\ b[1] = MeansOf(c)
        BY <3>7, <1>3
      <4>2. U[g[j]] = MeansOf(M[j])
        BY <4>1, <3>1, <3>2
      <4> QED BY <3>1, <3>4, <3>5, <3>7, <4>1, <4>2
    <3> QED BY <3>6, <3>7
  <2>3. j \in 1..k \/ j = k + 1
    BY <1>2, <1>4
  <2> QED BY <2>1, <2>2, <2>3
<1>10. CodedAt(M, U, g)
  <2> HIDE DEF g
  <2> QED BY <1>8, <1>9 DEF CodedAt
<1> QED BY <1>10 DEF Coded, M, U, b

(* The object's end. *)
Ending == <<"quote", "brace">>

(* A reader of the closed text reads the message.                          *)
LEMMA CodedReads ==
  ASSUME NEW m \in Seq(Chars), NEW t \in Seq(TextBytes), Coded(m, t)
  PROVE  Reader(t \o Ending)[1] = MeantBy(m)
<1>1. PICK f : CodedAt(m, t, f)
  BY DEF Coded
<1> DEFINE k == Len(m)
           l == Len(t)
           U == t \o Ending
           M == MeantBy(m)
           T == { n \in Nat : n <= k => Reader(U)[f[k + 1 - n]] = SubSeq(M, k + 1 - n, k) }
<1>2. k \in Nat /\ l \in Nat /\ DOMAIN m = 1..k
  BY LenProperties
<1>3. /\ Len(U) = l + 2 /\ (\A i \in 1..l : U[i] = t[i])
      /\ U[l + 1] = "quote" /\ U[l + 2] = "brace"
  <2> DEFINE E == Ending
  <2>1. E \in Seq(TextBytes) /\ Len(E) = 2 /\ E[1] = "quote" /\ E[2] = "brace"
    BY DEF Ending, TextBytes
  <2> HIDE DEF E
  <2>2. /\ Len(t \o E) = Len(t) + Len(E)
        /\ \A i \in 1..(Len(t) + Len(E)) : (t \o E)[i] = IF i <= Len(t) THEN t[i] ELSE E[i - Len(t)]
    BY <2>1, ConcatProperties
  <2>3. \A i \in 1..l : (t \o E)[i] = t[i]
    BY <2>1, <2>2, <1>2
  <2>4. (t \o E)[l + 1] = E[1] /\ (t \o E)[l + 2] = E[2]
    <3>1. /\ l + 1 \in 1..(Len(t) + Len(E)) /\ ~(l + 1 <= Len(t)) /\ (l + 1) - Len(t) = 1
          /\ l + 2 \in 1..(Len(t) + Len(E)) /\ ~(l + 2 <= Len(t)) /\ (l + 2) - Len(t) = 2
      BY <2>1, <1>2
    <3> QED BY <3>1, <2>2
  <2> QED BY <2>1, <2>2, <2>3, <2>4 DEF E
<1>4. /\ M \in Seq(TextBytes) /\ Len(M) = k /\ \A i \in 1..k : M[i] = MeansOf(m[i])
  <2>1. \A i \in 1..k : MeansOf(m[i]) \in TextBytes
    <3> SUFFICES ASSUME NEW i \in 1..k PROVE MeansOf(m[i]) \in TextBytes
      OBVIOUS
    <3>1. m[i] \in Chars
      BY ElementOfSeq
    <3> QED BY <3>1 DEF Chars, MeansOf, TextBytes
  <2>2. M \in [1..k -> TextBytes] /\ \A i \in 1..k : M[i] = MeansOf(m[i])
    BY <1>2, <2>1 DEF MeantBy
  <2> HIDE DEF M
  <2> QED BY <1>2, <2>2, TupleIsSeq
<1> HIDE DEF k, l, U, M
<1>5. /\ f \in [1..(k + 1) -> Nat \ {0}]
      /\ f[1] = 1 /\ f[k + 1] = l + 1
      /\ \A j \in 1..k :
           /\ f[j] <= l
           /\ Escaped(m[j]) => /\ f[j + 1] = f[j] + 2 /\ f[j] + 1 <= l
                               /\ t[f[j]] = "backslash" /\ t[f[j] + 1] = m[j]
           /\ ~Escaped(m[j]) => /\ f[j + 1] = f[j] + 1
                                /\ t[f[j]] = MeansOf(m[j])
  BY <1>1 DEF CodedAt, k, l
<1>6. \A i \in 1..(l + 3) : Reader(U)[i] = ReadStep(U, Reader(U), i)
  BY <1>2, <1>3, ReaderReads
<1>7. 0 \in T
  <2>1. Reader(U)[l + 1] = ReadStep(U, Reader(U), l + 1)
    BY <1>2, <1>6
  <2>2. ReadStep(U, Reader(U), l + 1) = <<>>
    <3>1. ~(l + 1 > Len(U)) /\ U[l + 1] = "quote" /\ l + 1 + 1 = Len(U) /\ U[l + 1 + 1] = "brace"
      BY <1>2, <1>3
    <3> QED BY <3>1 DEF ReadStep
  <2>3. SubSeq(M, k + 1, k) = <<>>
    BY <1>2, SubSeqEmpty
  <2>4. k + 1 - 0 = k + 1
    BY <1>2
  <2> QED BY <2>1, <2>2, <2>3, <2>4, <1>5
<1>8. ASSUME NEW n \in T PROVE n + 1 \in T
  <2> SUFFICES ASSUME n + 1 <= k
               PROVE  Reader(U)[f[k + 1 - (n + 1)]] = SubSeq(M, k + 1 - (n + 1), k)
    OBVIOUS
  <2>1. n \in Nat /\ n <= k /\ Reader(U)[f[k + 1 - n]] = SubSeq(M, k + 1 - n, k)
    BY <1>2
  <2> DEFINE j == k - n
  <2>2. j \in 1..k /\ k + 1 - (n + 1) = j /\ k + 1 - n = j + 1
    BY <1>2, <2>1
  <2> HIDE DEF j
  <2>3. Reader(U)[f[j]] = <<M[j]>> \o Reader(U)[f[j + 1]]
    <3>1. f[j] \in 1..l /\ f[j] \in 1..(l + 3) /\ ~(f[j] > Len(U)) /\ f[j] < Len(U)
      BY <1>2, <1>3, <1>5, <2>2
    <3>2. Reader(U)[f[j]] = ReadStep(U, Reader(U), f[j])
      BY <1>6, <3>1
    <3>3. CASE Escaped(m[j])
      <4>1. /\ U[f[j]] = "backslash" /\ U[f[j] + 1] = m[j] /\ f[j + 1] = f[j] + 2
        <5>1. /\ f[j + 1] = f[j] + 2 /\ f[j] + 1 <= l
              /\ t[f[j]] = "backslash" /\ t[f[j] + 1] = m[j]
          BY <1>5, <2>2, <3>3
        <5>2. f[j] + 1 \in 1..l
          BY <1>2, <3>1, <5>1
        <5> QED BY <1>3, <3>1, <5>1, <5>2
      <4>2. m[j] \in {"quote", "backslash"} /\ M[j] = m[j]
        BY <3>3, <1>4, <2>2 DEF Escaped, MeansOf
      <4> QED BY <3>1, <3>2, <4>1, <4>2 DEF ReadStep
    <3>4. CASE ~Escaped(m[j])
      <4>1. U[f[j]] = M[j] /\ f[j + 1] = f[j] + 1
        BY <1>2, <1>3, <1>4, <1>5, <2>2, <3>1, <3>4
      <4>2. m[j] \in Chars
        BY <2>2, ElementOfSeq DEF k
      <4>3. M[j] # "backslash" /\ M[j] # "quote" /\ M[j] # "control"
        BY <3>4, <4>2, <1>4, <2>2 DEF Escaped, MeansOf, Chars
      <4> QED BY <3>1, <3>2, <4>1, <4>3 DEF ReadStep
    <3> QED BY <3>3, <3>4
  <2>4. SubSeq(M, j, k) = <<M[j]>> \o SubSeq(M, j + 1, k)
    <3>1. k \in j..Len(M) /\ j \in 1..Len(M)
      BY <1>2, <1>4, <2>2
    <3> QED BY <1>4, <3>1, SubSeqRecursiveFirst
  <2> QED BY <2>1, <2>2, <2>3, <2>4
<1>9. T = Nat
  <2> HIDE DEF T
  <2>1. T \in SUBSET Nat
    BY DEF T
  <2> QED BY <1>7, <1>8, <2>1, NatInduct
<1>10. Reader(U)[f[1]] = SubSeq(M, 1, k)
  <2>1. k \in T
    BY <1>2, <1>9
  <2>2. k + 1 - k = 1
    BY <1>2
  <2> QED BY <1>2, <2>1, <2>2
<1>11. SubSeq(M, 1, k) = M
  BY <1>4, SubSeqFull
<1> QED BY <1>5, <1>10, <1>11 DEF U, M

DiagShape == postMax \in PostMaxes /\ message \in Seq(Chars) /\ text \in Seq(TextBytes)

(* While the body is built, what stands in it is the message so far, and   *)
(* there is room to close the object.                                      *)
Growing ==
  posted = Building =>
    /\ Coded(message, text)
    /\ DiagBodyCap >= CapMin => LeadIn + Len(text) + 2 < DiagBodyCap

DiagInv == DiagShape /\ Growing /\ BodyIsJson

LEMMA CapOfBody ==
  ASSUME postMax \in PostMaxes
  PROVE  /\ DiagBodyCap \in Nat /\ DiagBodyCap <= CapBuffer
         /\ postMax # 0 => DiagBodyCap <= postMax
BY DiagAssumption DEF DiagBodyCap

LEMMA MeantIsMeantBy == Meant = MeantBy(message) /\ Meant' = MeantBy(message')
BY DEF Meant, MeantBy, MeansOf

(* The byte that had no room is the last one of what was meant.            *)
LEMMA MeantButLast ==
  ASSUME NEW m \in Seq(Chars), NEW c \in Chars
  PROVE  MeantBy(m) = SubSeq(MeantBy(Append(m, c)), 1, Len(MeantBy(Append(m, c))) - 1)
<1> DEFINE k == Len(m)
           M == Append(m, c)
           N == MeantBy(M)
<1>1. k \in Nat /\ DOMAIN m = 1..k
  BY LenProperties
<1>2. M \in Seq(Chars) /\ Len(M) = k + 1 /\ \A i \in 1..k : M[i] = m[i]
  BY AppendProperties
<1>3. DOMAIN M = 1..(k + 1)
  BY <1>2, LenProperties
<1>4. \A d \in Chars : MeansOf(d) \in TextBytes
  BY DEF Chars, MeansOf, TextBytes
<1>5. MeantBy(m) \in [1..k -> TextBytes] /\ \A i \in 1..k : MeantBy(m)[i] = MeansOf(m[i])
  BY <1>1, <1>4, ElementOfSeq DEF MeantBy
<1> HIDE DEF k, M
<1>6. N \in [1..(k + 1) -> TextBytes] /\ \A i \in 1..(k + 1) : N[i] = MeansOf(M[i])
  BY <1>1, <1>2, <1>3, <1>4, ElementOfSeq DEF MeantBy
<1> HIDE DEF N
<1>7. N \in Seq(TextBytes) /\ Len(N) = k + 1 /\ MeantBy(m) \in Seq(TextBytes) /\ Len(MeantBy(m)) = k
  BY <1>1, <1>5, <1>6, TupleIsSeq
<1>8. k \in 0..Len(N) /\ Len(N) - 1 = k
  BY <1>1, <1>7
<1>9. /\ SubSeq(N, 1, k) \in Seq(TextBytes) /\ Len(SubSeq(N, 1, k)) = k
      /\ \A i \in 1..k : SubSeq(N, 1, k)[i] = N[i]
  BY <1>7, <1>8, Prefix
<1>10. \A i \in 1..k : SubSeq(N, 1, k)[i] = MeantBy(m)[i]
  BY <1>1, <1>2, <1>5, <1>6, <1>9
<1>11. SubSeq(N, 1, k) = MeantBy(m)
  BY <1>7, <1>9, <1>10, SeqEqual
<1> QED BY <1>8, <1>11 DEF N, M

(* A diagnostic that is closed here is JSON.                               *)
LEMMA Closed ==
  ASSUME DiagShape, Growing, posted = Building, DiagBodyCap >= CapMin,
         text' = text \o Ending, PostBody("diagnostic", LeadIn + Len(text')),
         postMax' = postMax
  PROVE  /\ text' \in Seq(TextBytes)
         /\ posted' # Building
         /\ posted'.result = "posted" /\ posted'.kind = "diagnostic"
         /\ posted'.len = LeadIn + Len(text) + 2
         /\ posted'.len < DiagBodyCap' /\ DiagBodyCap' = DiagBodyCap
         /\ posted'.len <= CapBuffer /\ (postMax' # 0 => posted'.len <= postMax')
         /\ Read' = MeantBy(message)
<1> DEFINE E == Ending
<1>1. E \in Seq(TextBytes) /\ Len(E) = 2
  BY DEF Ending, TextBytes
<1>2. text \in Seq(TextBytes) /\ message \in Seq(Chars) /\ Len(text) \in Nat
  BY LenProperties DEF DiagShape
<1> HIDE DEF E
<1>3. text \o E \in Seq(TextBytes) /\ Len(text \o E) = Len(text) + 2
  <2>1. text \o E \in Seq(TextBytes) /\ Len(text \o E) = Len(text) + Len(E)
    BY <1>1, <1>2, ConcatProperties
  <2> QED BY <1>1, <2>1
<1>4. text' = text \o E
  BY DEF E
<1>5. posted' = [ result |-> "posted", kind |-> "diagnostic", len |-> LeadIn + (Len(text) + 2) ]
  BY <1>3, <1>4 DEF PostBody
<1>6. LeadIn + (Len(text) + 2) = LeadIn + Len(text) + 2 /\ LeadIn + Len(text) + 2 < DiagBodyCap
  BY <1>2, DiagAssumption DEF Growing
<1>7. DiagBodyCap' = DiagBodyCap
  BY DEF DiagBodyCap
<1>8. /\ DiagBodyCap \in Nat /\ DiagBodyCap <= CapBuffer
      /\ postMax # 0 => DiagBodyCap <= postMax
  BY CapOfBody DEF DiagShape
<1>9. Read' = MeantBy(message)
  <2>1. Coded(message, text)
    BY DEF Growing
  <2> QED BY <1>2, <2>1, CodedReads, ReadIsReader
<1>10. LeadIn \in Nat /\ CapBuffer \in Nat /\ postMax \in Nat
  BY DiagAssumption DEF DiagShape
<1>11. /\ posted'.len = LeadIn + Len(text) + 2 /\ posted'.result = "posted"
       /\ posted'.kind = "diagnostic" /\ posted' # Building
  BY <1>5, <1>6 DEF Building
<1>12. LeadIn + Len(text) + 2 <= CapBuffer /\ (postMax # 0 => LeadIn + Len(text) + 2 <= postMax)
  BY <1>2, <1>6, <1>8, <1>10
<1> QED BY <1>3, <1>4, <1>6, <1>7, <1>9, <1>11, <1>12

(* A body of the other kinds.                                              *)
LEMMA OtherBodyFits ==
  ASSUME DiagShape, NEW n \in Nat, n <= DiagBodyCap, NEW kind, kind # "diagnostic",
         PostBody(kind, n), postMax' = postMax
  PROVE  BodyIsJson' /\ posted' # Building
<1>1. posted' = [ result |-> "posted", kind |-> kind, len |-> n ]
  BY DEF PostBody
<1>2. /\ DiagBodyCap \in Nat /\ DiagBodyCap <= CapBuffer
      /\ postMax # 0 => DiagBodyCap <= postMax
  BY CapOfBody DEF DiagShape
<1>3. CapBuffer \in Nat /\ postMax \in Nat
  BY DiagAssumption DEF DiagShape
<1>4. n <= CapBuffer /\ (postMax # 0 => n <= postMax)
  BY <1>2, <1>3
<1>5. posted'.len = n /\ posted'.kind # "diagnostic" /\ posted' # Building
  BY <1>1 DEF Building
<1> QED BY <1>4, <1>5 DEF BodyIsJson

LEMMA NotSent ==
  ASSUME NEW kind, Refuse(kind)
  PROVE  BodyIsJson' /\ posted' # Building
<1>1. posted'.result = "refused"
  BY DEF Refuse
<1> QED BY <1>1 DEF BodyIsJson, Building

LEMMA PutCharStep ==
  ASSUME DiagInv, NEW c \in Chars, PutChar(c)
  PROVE  DiagInv'
<1>1. DiagShape /\ Growing /\ posted = Building /\ DiagBodyCap >= CapMin
  BY DEF DiagInv, PutChar
<1>2. message' = Append(message, c) /\ postMax' = postMax
  BY DEF PutChar
<1>3. /\ message \in Seq(Chars) /\ text \in Seq(TextBytes) /\ postMax \in PostMaxes
      /\ Len(text) \in Nat /\ Coded(message, text)
  BY <1>1, LenProperties DEF DiagShape, Growing
<1>4. message' \in Seq(Chars)
  BY <1>2, <1>3, AppendProperties
<1>5. BytesOf(c) \in Seq(TextBytes) /\ Len(BytesOf(c)) \in 1..2
  BY BytesWritten
<1>6. DiagBodyCap' = DiagBodyCap
  BY <1>2 DEF DiagBodyCap
<1>7. LeadIn \in Nat /\ DiagBodyCap \in Nat
  BY <1>3, CapOfBody, DiagAssumption
<1>8. CASE Room(c)
  <2>1. text' = text \o BytesOf(c) /\ posted' = posted
    BY <1>8 DEF PutChar
  <2>2. text' \in Seq(TextBytes) /\ Len(text') = Len(text) + Len(BytesOf(c))
    BY <2>1, <1>3, <1>5, ConcatProperties
  <2>3. Coded(message', text')
    BY <2>1, <1>2, <1>3, CodedGrows
  <2>4. LeadIn + Len(text') + 2 < DiagBodyCap'
    <3>1. LeadIn + Len(text) + Len(BytesOf(c)) + 2 < DiagBodyCap
      BY <1>8 DEF Room
    <3>2. LeadIn + Len(text') + 2 = LeadIn + Len(text) + Len(BytesOf(c)) + 2
      BY <2>2, <1>3, <1>5, <1>7
    <3> QED BY <3>1, <3>2, <1>6
  <2>5. BodyIsJson'
    <3>1. posted'.result # "posted"
      BY <2>1, <1>1 DEF Building
    <3> QED BY <3>1 DEF BodyIsJson
  <2> QED BY <2>2, <2>3, <2>4, <2>5, <1>2, <1>3, <1>4 DEF DiagInv, DiagShape, Growing
<1>9. CASE ~Room(c)
  <2>1. text' = text \o Ending /\ PostBody("diagnostic", LeadIn + Len(text'))
    BY <1>9 DEF PutChar, Close, Ending
  <2>2. /\ text' \in Seq(TextBytes) /\ posted' # Building
        /\ posted'.result = "posted" /\ posted'.kind = "diagnostic"
        /\ posted'.len = LeadIn + Len(text) + 2
        /\ posted'.len < DiagBodyCap'
        /\ posted'.len <= CapBuffer /\ (postMax' # 0 => posted'.len <= postMax')
        /\ Read' = MeantBy(message)
    BY <2>1, <1>1, <1>2, Closed
  <2>3. posted'.len >= DiagBodyCap' - 2
    <3>1. ~(LeadIn + Len(text) + Len(BytesOf(c)) + 2 < DiagBodyCap)
      BY <1>9 DEF Room
    <3>2. LeadIn + Len(text) + 2 >= DiagBodyCap - 2
      <4>1. Len(BytesOf(c)) \in Nat /\ Len(BytesOf(c)) <= 2
        <5> DEFINE b == Len(BytesOf(c))
        <5> HIDE DEF b
        <5>1. b \in 1..2
          BY <1>5 DEF b
        <5>2. b \in Nat /\ b <= 2
          BY <5>1
        <5> QED BY <5>2 DEF b
      <4>2. \A l, x, b, d \in Nat : ~(l + x + b + 2 < d) /\ b <= 2 => l + x + 2 >= d - 2
        OBVIOUS
      <4>3. Len(text) \in Nat
        BY <1>3
      <4> QED BY <3>1, <4>1, <4>2, <4>3, <1>7
    <3> QED BY <2>2, <3>2, <1>6
  <2>4. MeantBy(message) = SubSeq(Meant', 1, Len(Meant') - 1)
    BY <1>2, <1>3, MeantIsMeantBy, MeantButLast
  <2>5. BodyIsJson'
    BY <2>2, <2>3, <2>4 DEF BodyIsJson
  <2> QED BY <2>2, <2>5, <1>2, <1>3, <1>4 DEF DiagInv, DiagShape, Growing
<1> QED BY <1>8, <1>9

(* A new body has room for its end. *)
LEMMA FirstBody ==
  ASSUME postMax \in PostMaxes, message = <<>>, text = <<>>, posted = Building
  PROVE  DiagInv
<1>1. Len(text) = 0 /\ message \in Seq(Chars) /\ text \in Seq(TextBytes)
  BY EmptySeq
<1>2. DiagBodyCap >= CapMin => LeadIn + Len(text) + 2 < DiagBodyCap
  BY <1>1, CapOfBody, DiagAssumption
<1>3. posted.result # "posted"
  BY DEF Building
<1> QED BY <1>1, <1>2, <1>3, NothingCoded DEF DiagInv, DiagShape, Growing, BodyIsJson

LEMMA EmptyBody ==
  ASSUME postMax' \in PostMaxes, message' = <<>>, text' = <<>>, posted' = Building
  PROVE  DiagInv'
<1>1. Len(text') = 0 /\ message' \in Seq(Chars) /\ text' \in Seq(TextBytes)
  BY EmptySeq
<1>2. DiagBodyCap' \in Nat
  BY DiagAssumption DEF DiagBodyCap
<1>3. DiagBodyCap' >= CapMin => LeadIn + Len(text') + 2 < DiagBodyCap'
  BY <1>1, <1>2, DiagAssumption
<1>4. posted'.result # "posted"
  BY DEF Building
<1> QED BY <1>1, <1>3, <1>4, NothingCoded DEF DiagInv, DiagShape, Growing, BodyIsJson

LEMMA DiagStep ==
  ASSUME DiagInv, [DiagNext]_diagVars
  PROVE  DiagInv'
<1>1. DiagShape /\ Growing /\ BodyIsJson
  BY DEF DiagInv
<1>2. CASE UNCHANGED diagVars
  <2>1. postMax' = postMax /\ message' = message /\ text' = text /\ posted' = posted
    BY <1>2 DEF diagVars
  <2>2. DiagBodyCap' = DiagBodyCap /\ Read' = Read /\ Meant' = Meant
    BY <2>1, ReadIsReader, MeantIsMeantBy DEF DiagBodyCap
  <2> QED BY <1>1, <2>1, <2>2 DEF DiagInv, DiagShape, Growing, BodyIsJson
<1>3. CASE AnotherBody
  <2>1. postMax' \in PostMaxes /\ message' = <<>> /\ text' = <<>> /\ posted' = Building
    BY <1>3 DEF AnotherBody
  <2> QED BY <2>1, EmptyBody
<1>4. CASE TooSmall
  <2>1. /\ postMax' = postMax /\ message' = message /\ text' = text
        /\ BodyIsJson' /\ posted' # Building
    BY <1>4, NotSent DEF TooSmall
  <2> QED BY <1>1, <2>1 DEF DiagInv, DiagShape, Growing
<1>5. CASE MessageEnds
  <2>1. /\ posted = Building /\ DiagBodyCap >= CapMin
        /\ postMax' = postMax /\ message' = message
        /\ text' = text \o Ending /\ PostBody("diagnostic", LeadIn + Len(text'))
    BY <1>5 DEF MessageEnds, Close, Ending
  <2>2. /\ text' \in Seq(TextBytes) /\ posted' # Building
        /\ posted'.result = "posted" /\ posted'.kind = "diagnostic"
        /\ posted'.len < DiagBodyCap'
        /\ posted'.len <= CapBuffer /\ (postMax' # 0 => posted'.len <= postMax')
        /\ Read' = MeantBy(message)
    BY <2>1, <1>1, Closed
  <2>3. BodyIsJson'
    BY <2>1, <2>2, MeantIsMeantBy DEF BodyIsJson
  <2> QED BY <2>1, <2>2, <2>3, <1>1 DEF DiagInv, DiagShape, Growing
<1>6. ASSUME NEW c \in Chars, PutChar(c)
      PROVE  DiagInv'
  BY <1>6, PutCharStep
<1>7. ASSUME NEW n \in Lens, PostDiagnosticJson(n)
      PROVE  DiagInv'
  <2>1. /\ postMax' = postMax /\ message' = message /\ text' = text
        /\ IF n > DiagBodyCap THEN Refuse("json") ELSE PostBody("json", n)
    BY <1>7 DEF PostDiagnosticJson
  <2>2. BodyIsJson' /\ posted' # Building
    <3>1. CASE n > DiagBodyCap
      BY <2>1, <3>1, NotSent
    <3>2. CASE ~(n > DiagBodyCap)
      <4>1. n \in Nat /\ n <= DiagBodyCap
        BY <3>2, <1>1, CapOfBody, DiagAssumption DEF DiagShape
      <4> QED BY <2>1, <3>2, <4>1, <1>1, OtherBodyFits
    <3> QED BY <3>1, <3>2
  <2> QED BY <1>1, <2>1, <2>2 DEF DiagInv, DiagShape, Growing
<1>8. ASSUME NEW n \in Lens, SendHeartbeat(n)
      PROVE  DiagInv'
  <2>1. /\ postMax' = postMax /\ message' = message /\ text' = text
        /\ IF n >= DiagBodyCap THEN Refuse("heartbeat") ELSE PostBody("heartbeat", n)
    BY <1>8 DEF SendHeartbeat
  <2>2. BodyIsJson' /\ posted' # Building
    <3>1. CASE n >= DiagBodyCap
      BY <2>1, <3>1, NotSent
    <3>2. CASE ~(n >= DiagBodyCap)
      <4>1. n \in Nat /\ n <= DiagBodyCap
        BY <3>2, <1>1, CapOfBody, DiagAssumption DEF DiagShape
      <4> QED BY <2>1, <3>2, <4>1, <1>1, OtherBodyFits
    <3> QED BY <3>1, <3>2
  <2> QED BY <1>1, <2>1, <2>2 DEF DiagInv, DiagShape, Growing
<1>9. ASSUME NEW n \in Lens, NEW m \in Lens, CheckInBody(n, m)
      PROVE  DiagInv'
  <2>1. /\ postMax' = postMax /\ message' = message /\ text' = text
        /\ IF n >= DiagBodyCap \/ m >= DiagBodyCap - (n - 1) THEN Refuse("checkin")
           ELSE PostBody("checkin", n - 1 + m)
    BY <1>9 DEF CheckInBody
  <2>2. BodyIsJson' /\ posted' # Building
    <3>1. CASE n >= DiagBodyCap \/ m >= DiagBodyCap - (n - 1)
      BY <2>1, <3>1, NotSent
    <3>2. CASE ~(n >= DiagBodyCap \/ m >= DiagBodyCap - (n - 1))
      <4> DEFINE k == n - 1 + m
      <4>1. k \in Nat /\ k <= DiagBodyCap
        <5>1. n \in Nat \ {0, 1} /\ m \in Nat /\ DiagBodyCap \in Nat
          BY <1>1, CapOfBody, DiagAssumption DEF DiagShape
        <5> QED BY <3>2, <5>1
      <4>2. PostBody("checkin", k)
        BY <2>1, <3>2
      <4> HIDE DEF k
      <4> QED BY <2>1, <4>1, <4>2, <1>1, OtherBodyFits
    <3> QED BY <3>1, <3>2
  <2> QED BY <1>1, <2>1, <2>2 DEF DiagInv, DiagShape, Growing
<1> QED BY <1>2, <1>3, <1>4, <1>5, <1>6, <1>7, <1>8, <1>9 DEF DiagNext

(* A body that is posted fits one request of the transport, and a          *)
(* diagnostic's is a JSON object whose string a reader takes for what was  *)
(* to be said, or for its beginning: for every message, whatever has to be *)
(* escaped in it and wherever it is cut, and every limit of a transport.   *)
THEOREM BodiesCorrect == DiagSpec => []BodyIsJson
<1>1. DiagInit => DiagInv
  BY NothingCoded, FirstBody DEF DiagInit
<1>2. DiagInv /\ [DiagNext]_diagVars => DiagInv'
  BY DiagStep
<1>3. DiagInv => BodyIsJson
  BY DEF DiagInv
<1> QED BY <1>1, <1>2, <1>3, PTL DEF DiagSpec

-----------------------------------------------------------------------------
(***************************************************************************)
(* The update check.  The document on the wire is laid out field after     *)
(* field; a key is found where its field begins, or where a value spells   *)
(* it, and a value is read as far as the transfer went.                    *)
(***************************************************************************)

(* s holds the elements of e from position o + 1 on. *)
Holds(s, o, e) ==
  /\ o \in Nat /\ o + Len(e) <= Len(s)
  /\ \A x \in 1..Len(e) : s[o + x] = e[x]

(* The first n pieces are all in s, before place q.                        *)
AllBefore(s, pieces, n, q) ==
  \A j \in 1..n : \E o \in Nat : Holds(s, o, pieces[j]) /\ o + Len(pieces[j]) <= q

(* Each of the first n pieces is in s, and every element of s lies in one, *)
(* behind those that go before it.                                         *)
LaidOut(s, pieces, n) ==
  /\ AllBefore(s, pieces, n, Len(s))
  /\ \A p \in 1..Len(s) : \E j \in 1..n : \E x \in 1..Len(pieces[j]) :
       /\ p - x \in Nat /\ Holds(s, p - x, pieces[j])
       /\ AllBefore(s, pieces, j - 1, p - x)

(* What stands in s stays where it is when more comes behind it.           *)
LEMMA HoldsBefore ==
  ASSUME NEW X, NEW s \in Seq(X), NEW c \in Seq(X), NEW e, Len(e) \in Nat, NEW o, Holds(s, o, e)
  PROVE  Holds(s \o c, o, e)
<1>1. Len(s) \in Nat /\ Len(c) \in Nat
  BY LenProperties
<1>2. /\ Len(s \o c) = Len(s) + Len(c)
      /\ \A i \in 1..(Len(s) + Len(c)) : (s \o c)[i] = IF i <= Len(s) THEN s[i] ELSE c[i - Len(s)]
  BY ConcatProperties
<1>3. o \in Nat /\ o + Len(e) <= Len(s) /\ \A x \in 1..Len(e) : s[o + x] = e[x]
  BY DEF Holds
<1>4. ASSUME NEW x \in 1..Len(e) PROVE (s \o c)[o + x] = e[x]
  <2>1. o + x \in 1..(Len(s) + Len(c)) /\ o + x <= Len(s)
    BY <1>1, <1>3
  <2> QED BY <2>1, <1>2, <1>3
<1>5. o + Len(e) <= Len(s \o c)
  BY <1>1, <1>2, <1>3
<1> QED BY <1>3, <1>4, <1>5 DEF Holds

LEMMA HoldsBehind ==
  ASSUME NEW X, NEW s \in Seq(X), NEW c \in Seq(X)
  PROVE  Holds(s \o c, Len(s), c)
<1>1. Len(s) \in Nat /\ Len(c) \in Nat
  BY LenProperties
<1>2. /\ Len(s \o c) = Len(s) + Len(c)
      /\ \A i \in 1..(Len(s) + Len(c)) : (s \o c)[i] = IF i <= Len(s) THEN s[i] ELSE c[i - Len(s)]
  BY ConcatProperties
<1>3. ASSUME NEW x \in 1..Len(c) PROVE (s \o c)[Len(s) + x] = c[x]
  <2>1. /\ Len(s) + x \in 1..(Len(s) + Len(c)) /\ ~(Len(s) + x <= Len(s))
        /\ (Len(s) + x) - Len(s) = x
    BY <1>1
  <2> QED BY <2>1, <1>2
<1> QED BY <1>1, <1>2, <1>3 DEF Holds

(* One more piece. *)
LEMMA LayOut ==
  ASSUME NEW X, NEW s \in Seq(X), NEW n \in Nat, NEW pieces,
         \A j \in 1..(n + 1) : pieces[j] \in Seq(X), LaidOut(s, pieces, n)
  PROVE  LaidOut(s \o pieces[n + 1], pieces, n + 1)
<1> DEFINE c == pieces[n + 1]
<1>1. c \in Seq(X) /\ Len(s) \in Nat /\ Len(c) \in Nat /\ Len(s \o c) = Len(s) + Len(c)
  BY LenProperties, ConcatProperties
<1>2. \A j \in 1..(n + 1) : Len(pieces[j]) \in Nat
  BY LenProperties
<1>3. ASSUME NEW m \in 0..n, NEW q, AllBefore(s, pieces, m, q)
      PROVE  AllBefore(s \o c, pieces, m, q)
  <2> SUFFICES ASSUME NEW j \in 1..m
               PROVE  \E o \in Nat : Holds(s \o c, o, pieces[j]) /\ o + Len(pieces[j]) <= q
    BY DEF AllBefore
  <2>1. PICK o \in Nat : Holds(s, o, pieces[j]) /\ o + Len(pieces[j]) <= q
    BY <1>3 DEF AllBefore
  <2>2. j \in 1..(n + 1)
    OBVIOUS
  <2> QED BY <2>1, <2>2, <1>1, <1>2, HoldsBefore
<1>4. ASSUME NEW p \in 1..Len(s \o c)
      PROVE  \E j \in 1..(n + 1) : \E x \in 1..Len(pieces[j]) :
               /\ p - x \in Nat /\ Holds(s \o c, p - x, pieces[j])
               /\ AllBefore(s \o c, pieces, j - 1, p - x)
  <2>1. CASE p \in 1..Len(s)
    <3>0. PICK j \in 1..n : \E x \in 1..Len(pieces[j]) :
            /\ p - x \in Nat /\ Holds(s, p - x, pieces[j])
            /\ AllBefore(s, pieces, j - 1, p - x)
      BY <2>1 DEF LaidOut
    <3>1. PICK x \in 1..Len(pieces[j]) :
            /\ p - x \in Nat /\ Holds(s, p - x, pieces[j])
            /\ AllBefore(s, pieces, j - 1, p - x)
      BY <3>0
    <3>2. j \in 1..(n + 1) /\ j - 1 \in 0..n
      OBVIOUS
    <3>3. Holds(s \o c, p - x, pieces[j])
      BY <3>1, <3>2, <1>1, <1>2, HoldsBefore
    <3>4. AllBefore(s \o c, pieces, j - 1, p - x)
      <4> HIDE DEF c
      <4> QED BY <3>1, <3>2, <1>3
    <3> QED BY <3>1, <3>2, <3>3, <3>4
  <2>2. CASE p \notin 1..Len(s)
    <3> DEFINE x == p - Len(s)
    <3>1. x \in 1..Len(c) /\ p - x = Len(s) /\ p - x \in Nat
      BY <2>2, <1>1
    <3>2. Holds(s \o c, Len(s), c)
      BY <1>1, HoldsBehind
    <3>3. n + 1 \in 1..(n + 1) /\ (n + 1) - 1 = n /\ n \in 0..n
      OBVIOUS
    <3>4. AllBefore(s \o c, pieces, n, Len(s))
      <4>1. AllBefore(s, pieces, n, Len(s))
        BY DEF LaidOut
      <4> HIDE DEF c
      <4> QED BY <4>1, <3>3, <1>3
    <3> HIDE DEF x
    <3> QED BY <3>1, <3>2, <3>3, <3>4 DEF c
  <2> QED BY <2>1, <2>2
<1>5. ASSUME NEW j \in 1..(n + 1)
      PROVE  \E o \in Nat : Holds(s \o c, o, pieces[j]) /\ o + Len(pieces[j]) <= Len(s \o c)
  <2>1. \E o \in Nat : Holds(s \o c, o, pieces[j])
    <3>1. CASE j \in 1..n
      <4>1. PICK o \in Nat : Holds(s, o, pieces[j])
        BY <3>1 DEF LaidOut, AllBefore
      <4> QED BY <4>1, <1>1, <1>2, HoldsBefore
    <3>2. CASE j = n + 1
      BY <3>2, <1>1, HoldsBehind
    <3> QED BY <3>1, <3>2
  <2> HIDE DEF c
  <2> QED BY <2>1 DEF Holds
<1> HIDE DEF c
<1>6. LaidOut(s \o c, pieces, n + 1)
  BY <1>4, <1>5 DEF LaidOut, AllBefore
<1> QED BY <1>6 DEF c

(* FlattenSeq: its recursive function exists, and lays the pieces out.     *)
LEMMA FlattenLaysOut ==
  ASSUME NEW X, NEW k \in Nat, NEW pieces \in [1..k -> Seq(X)]
  PROVE  FlattenSeq(pieces) \in Seq(X) /\ LaidOut(FlattenSeq(pieces), pieces, k)
<1> DEFINE Flat(f, i) == IF i = 1 THEN pieces[i] ELSE f[i - 1] \o pieces[i]
           Built(n) == \E f : f = [ i \in 1..n |-> Flat(f, i) ]
           T == { n \in Nat : Built(n) }
<1>1. Len(pieces) = k
  OBVIOUS
<1>2. CASE k = 0
  <2>1. pieces = <<>>
    BY <1>2
  <2>2. FlattenSeq(pieces) = <<>> /\ Len(<<>>) = 0
    BY <1>1, <1>2, <2>1 DEF FlattenSeq
  <2> QED BY <1>2, <2>2, EmptySeq DEF LaidOut, AllBefore
<1>3. CASE k # 0
  <2>1. 0 \in T
    <3>1. \E f : f = [ i \in 1..0 |-> Flat(f, i) ]
      <4> DEFINE f == [ i \in 1..0 |-> 0 ]
      <4>1. f = [ i \in 1..0 |-> Flat(f, i) ]
        OBVIOUS
      <4> QED BY <4>1
    <3> QED BY <3>1
  <2>2. ASSUME NEW n \in T PROVE n + 1 \in T
    <3>1. PICK f : f = [ i \in 1..n |-> Flat(f, i) ]
      OBVIOUS
    <3> DEFINE g == [ i \in 1..(n + 1) |-> IF i = n + 1 THEN Flat(f, i) ELSE f[i] ]
    <3>2. \A i \in 1..(n + 1) : g[i] = Flat(g, i)
      <4> SUFFICES ASSUME NEW i \in 1..(n + 1) PROVE g[i] = Flat(g, i)
        OBVIOUS
      <4>1. i # 1 => g[i - 1] = f[i - 1]
        OBVIOUS
      <4>2. g[i] = Flat(f, i)
        <5>1. CASE i = n + 1
          BY <5>1
        <5>2. CASE i # n + 1
          <6>1. i \in 1..n /\ g[i] = f[i]
            BY <5>2
          <6> HIDE DEF g
          <6> QED BY <6>1, <3>1
        <5> QED BY <5>1, <5>2
      <4> HIDE DEF g
      <4> QED BY <4>1, <4>2
    <3>3. g = [ i \in 1..(n + 1) |-> Flat(g, i) ]
      BY <3>2
    <3>4. Built(n + 1)
      <4> HIDE DEF g
      <4> QED BY <3>3
    <3> HIDE DEF Built
    <3> QED BY <3>4
  <2>3. T = Nat
    <3> HIDE DEF T
    <3>1. T \in SUBSET Nat
      BY DEF T
    <3> QED BY <2>1, <2>2, <3>1, NatInduct
  <2> DEFINE F == CHOOSE f : f = [ i \in 1..k |-> Flat(f, i) ]
  <2>4. F = [ i \in 1..k |-> Flat(F, i) ]
    <3>1. \E f : f = [ i \in 1..k |-> Flat(f, i) ]
      BY <2>3
    <3> QED BY <3>1
  <2>5. FlattenSeq(pieces) = F[k]
    BY <1>1, <1>3 DEF FlattenSeq
  <2> HIDE DEF F
  <2>6. F[1] = pieces[1] /\ \A i \in 2..k : F[i] = F[i - 1] \o pieces[i]
    <3>1. 1 \in 1..k /\ \A i \in 2..k : i \in 1..k /\ i # 1
      BY <1>3
    <3> QED BY <3>1, <2>4
  <2> DEFINE R == { n \in Nat : n + 1 <= k => /\ F[n + 1] \in Seq(X)
                                             /\ LaidOut(F[n + 1], pieces, n + 1) }
  <2>7. 0 \in R
    <3>1. pieces[1] \in Seq(X)
      BY <1>3
    <3>2. LaidOut(<<>>, pieces, 0) /\ <<>> \in Seq(X) /\ <<>> \o pieces[1] = pieces[1]
      BY <3>1, EmptySeq, ConcatEmptySeq DEF LaidOut, AllBefore
    <3>3. \A j \in 1..(0 + 1) : pieces[j] \in Seq(X)
      BY <3>1
    <3>4. LaidOut(<<>> \o pieces[0 + 1], pieces, 0 + 1)
      BY <3>2, <3>3, LayOut
    <3> QED BY <3>1, <3>2, <3>4, <2>6
  <2>8. ASSUME NEW n \in R PROVE n + 1 \in R
    <3> SUFFICES ASSUME (n + 1) + 1 <= k
                 PROVE  /\ F[(n + 1) + 1] \in Seq(X)
                        /\ LaidOut(F[(n + 1) + 1], pieces, (n + 1) + 1)
      OBVIOUS
    <3> DEFINE m == n + 1
    <3>1. m \in Nat /\ m + 1 \in 2..k /\ (m + 1) - 1 = m
      OBVIOUS
    <3>2. F[m] \in Seq(X) /\ LaidOut(F[m], pieces, m)
      OBVIOUS
    <3> HIDE DEF m, R
    <3>3. \A j \in 1..(m + 1) : pieces[j] \in Seq(X)
      BY <3>1
    <3>4. LaidOut(F[m] \o pieces[m + 1], pieces, m + 1)
      BY <3>1, <3>2, <3>3, LayOut
    <3>5. F[m + 1] = F[m] \o pieces[m + 1]
      BY <3>1, <2>6
    <3>6. F[m + 1] \in Seq(X)
      BY <3>1, <3>2, <3>3, <3>5, ConcatProperties
    <3> QED BY <3>4, <3>5, <3>6 DEF m
  <2>9. R = Nat
    <3> HIDE DEF R
    <3>1. R \in SUBSET Nat
      BY DEF R
    <3> QED BY <2>7, <2>8, <3>1, NatInduct
  <2>10. F[k] \in Seq(X) /\ LaidOut(F[k], pieces, k)
    <3> DEFINE m == k - 1
    <3>1. m \in Nat /\ m + 1 = k
      BY <1>3
    <3> HIDE DEF m
    <3>2. F[m + 1] \in Seq(X) /\ LaidOut(F[m + 1], pieces, m + 1)
      <4>1. m \in R
        <5> HIDE DEF R
        <5> QED BY <2>9, <3>1
      <4>2. m + 1 <= k
        BY <3>1
      <4> QED BY <4>1, <4>2
    <3> QED BY <3>1, <3>2
  <2> QED BY <2>5, <2>10
<1> QED BY <1>2, <1>3

Tokens == [ kind : {"key", "quote", "comma", "digit", "char"}, name : Fields \cup {""}, n : Nat ]

(* The tokens of one value: its digits or characters.                      *)
CharsOf(doc, f) ==
  [ i \in DOMAIN doc[f] |-> Token(IF f \in Numbers THEN "digit" ELSE "char", "", doc[f][i]) ]

LEMMA TokenHas ==
  \A k, w, m : Token(k, w, m).kind = k /\ Token(k, w, m).name = w /\ Token(k, w, m).n = m
BY DEF Token

(* A field on the wire: its key, the value behind it, and its end.         *)
LEMMA FieldLaidOut ==
  ASSUME NEW doc \in Documents, NEW f \in Keys
  PROVE  LET F == FieldTokens(doc, f)
             n == Len(doc[f])
             k == IF f \in Numbers THEN 1 ELSE 2
         IN  /\ F \in Seq(Tokens) /\ n \in Nat
             /\ Len(F) = IF f \in Numbers THEN n + 2 ELSE n + 4
             /\ F[1] = Key(f)
             /\ f \notin Numbers => F[2] = Quote /\ F[n + 3] = Quote
             /\ \A i \in 1..n : /\ F[k + i].kind = IF f \in Numbers THEN "digit" ELSE "char"
                                /\ F[k + i].n = doc[f][i]
             /\ f \in Numbers => F[n + 2] = Comma
             /\ \A x \in 2..Len(F) : F[x].kind # "key"
<1> DEFINE F == FieldTokens(doc, f)
           C == CharsOf(doc, f)
           n == Len(doc[f])
           sort == IF f \in Numbers THEN "digit" ELSE "char"
           k == IF f \in Numbers THEN 1 ELSE 2
           H == IF f \in Numbers THEN <<Key(f)>> ELSE <<Key(f), Quote>>
           E == IF f \in Numbers THEN <<Comma>> ELSE <<Quote, Comma>>
<1>1. doc[f] \in Seq(Nat) /\ n \in Nat /\ DOMAIN doc[f] = 1..n
  BY DocumentsAssumption, LenProperties
<1>2. \A i \in 1..n : /\ C[i].kind = sort /\ C[i].n = doc[f][i] /\ C[i] \in Tokens
  <2> SUFFICES ASSUME NEW i \in 1..n
               PROVE  C[i].kind = sort /\ C[i].n = doc[f][i] /\ C[i] \in Tokens
    OBVIOUS
  <2>1. C[i] = Token(sort, "", doc[f][i])
    BY <1>1 DEF CharsOf
  <2>2. doc[f][i] \in Nat
    BY <1>1, ElementOfSeq
  <2>3. sort \in {"digit", "char"}
    OBVIOUS
  <2> HIDE DEF C, sort
  <2>4. Token(sort, "", doc[f][i]) \in Tokens
    BY <2>2, <2>3 DEF Tokens, Token
  <2> DEFINE v == doc[f][i]
             none == ""
  <2> HIDE DEF v, none
  <2>5. Token(sort, none, v).kind = sort /\ Token(sort, none, v).n = v
    BY TokenHas
  <2>6. C[i] = Token(sort, none, v) /\ Token(sort, none, v) \in Tokens
    BY <2>1, <2>4 DEF none, v
  <2>7. C[i].kind = sort /\ C[i].n = v /\ C[i] \in Tokens
    BY <2>5, <2>6
  <2> QED BY <2>7 DEF v
<1>3. C \in Seq(Tokens) /\ Len(C) = n
  <2>1. C \in [1..n -> Tokens]
    <3>1. DOMAIN C = 1..n /\ C = [ i \in 1..n |-> C[i] ]
      BY <1>1 DEF CharsOf
    <3> HIDE DEF C
    <3> QED BY <1>2, <3>1
  <2> HIDE DEF C, n
  <2> QED BY <1>1, <2>1, TupleIsSeq
<1>4. Key(f) \in Tokens /\ Quote \in Tokens /\ Comma \in Tokens
  BY DEF Key, Quote, Comma, Token, Tokens, Fields, Keys
<1>5. /\ H \in Seq(Tokens) /\ Len(H) = k /\ H[1] = Key(f)
      /\ f \notin Numbers => H[2] = Quote
  BY <1>4
<1>6. /\ E \in Seq(Tokens) /\ Len(E) = k
      /\ f \in Numbers => E[1] = Comma
      /\ f \notin Numbers => E[1] = Quote /\ E[2] = Comma
  BY <1>4
<1>7. F = (H \o C) \o E
  <2>1. f # "extra"
    BY DEF Keys
  <2> QED BY <2>1 DEF FieldTokens, KeyTokens, CharsOf
<1>8. k \in Nat /\ (f \in Numbers => k = 1) /\ (f \notin Numbers => k = 2)
  OBVIOUS
<1> HIDE DEF F, C, n, sort, k, H, E
<1>9. /\ H \o C \in Seq(Tokens) /\ Len(H \o C) = k + n
      /\ \A i \in 1..(k + n) : (H \o C)[i] = IF i <= k THEN H[i] ELSE C[i - k]
  BY <1>3, <1>5, ConcatProperties
<1>10. /\ F \in Seq(Tokens) /\ Len(F) = k + n + k
       /\ \A i \in 1..(k + n + k) :
            F[i] = IF i <= k + n THEN (H \o C)[i] ELSE E[i - (k + n)]
  <2> DEFINE A == H \o C
  <2> HIDE DEF A
  <2>1. A \in Seq(Tokens) /\ Len(A) = k + n /\ F = A \o E
    BY <1>7, <1>9 DEF A
  <2>2. /\ A \o E \in Seq(Tokens) /\ Len(A \o E) = Len(A) + Len(E)
        /\ \A i \in 1..(Len(A) + Len(E)) :
             (A \o E)[i] = IF i <= Len(A) THEN A[i] ELSE E[i - Len(A)]
    BY <1>6, <2>1, ConcatProperties
  <2> QED BY <1>6, <2>1, <2>2 DEF A
<1>11. \A i \in 1..k : F[i] = H[i] /\ F[(k + n) + i] = E[i]
  <2> SUFFICES ASSUME NEW i \in 1..k PROVE F[i] = H[i] /\ F[(k + n) + i] = E[i]
    OBVIOUS
  <2>1. /\ i \in 1..(k + n + k) /\ i <= k + n /\ i \in 1..(k + n) /\ i <= k
        /\ (k + n) + i \in 1..(k + n + k) /\ ~((k + n) + i <= k + n)
        /\ ((k + n) + i) - (k + n) = i
    BY <1>1, <1>8
  <2> QED BY <2>1, <1>9, <1>10
<1>12. \A i \in 1..n : F[k + i] = C[i]
  <2> SUFFICES ASSUME NEW i \in 1..n PROVE F[k + i] = C[i]
    OBVIOUS
  <2>1. /\ k + i \in 1..(k + n + k) /\ k + i <= k + n /\ k + i \in 1..(k + n)
        /\ ~(k + i <= k) /\ (k + i) - k = i
    BY <1>1, <1>8
  <2> QED BY <2>1, <1>9, <1>10
<1>13. \A x \in 2..(k + n + k) : F[x].kind # "key"
  <2> SUFFICES ASSUME NEW x \in 2..(k + n + k) PROVE F[x].kind # "key"
    OBVIOUS
  <2>1. sort # "key" /\ Quote.kind # "key" /\ Comma.kind # "key"
    BY DEF sort, Quote, Comma, Token
  <2>2. CASE x <= k
    <3>1. x = 2 /\ k = 2 /\ f \notin Numbers
      BY <2>2, <1>1, <1>8
    <3> QED BY <3>1, <2>1, <1>5, <1>11
  <2>3. CASE x > k /\ x <= k + n
    <3>1. x - k \in 1..n /\ k + (x - k) = x
      BY <2>3, <1>1, <1>8
    <3>2. F[x] = C[x - k]
      BY <3>1, <1>12
    <3> QED BY <3>1, <3>2, <2>1, <1>2
  <2>4. CASE x > k + n
    <3>1. x - (k + n) \in 1..k /\ (k + n) + (x - (k + n)) = x
      BY <2>4, <1>1, <1>8
    <3>2. F[x] = E[x - (k + n)]
      BY <3>1, <1>11
    <3>3. E[x - (k + n)] = Quote \/ E[x - (k + n)] = Comma
      BY <3>1, <1>6, <1>8
    <3> QED BY <3>2, <3>3, <2>1
  <2>5. x <= k \/ (x > k /\ x <= k + n) \/ x > k + n
    BY <1>1, <1>8
  <2> QED BY <2>2, <2>3, <2>4, <2>5
<1>14. CASE f \in Numbers
  <2>1. k = 1 /\ 1 \in 1..k /\ (k + n) + 1 = n + 2 /\ k + n + k = n + 2
    BY <1>14, <1>1, <1>8
  <2>2. F[1] = Key(f) /\ F[n + 2] = Comma
    BY <2>1, <1>14, <1>5, <1>6, <1>11
  <2>3. \A i \in 1..n : F[k + i].kind = "digit" /\ F[k + i].n = doc[f][i]
    BY <1>14, <1>2, <1>12 DEF sort
  <2> QED BY <1>1, <1>10, <1>13, <1>14, <2>1, <2>2, <2>3 DEF F, n
<1>15. CASE f \notin Numbers
  <2>1. /\ k = 2 /\ 1 \in 1..k /\ 2 \in 1..k
        /\ (k + n) + 1 = n + 3 /\ k + n + k = n + 4
    BY <1>15, <1>1, <1>8
  <2>2. F[1] = Key(f) /\ F[2] = Quote /\ F[n + 3] = Quote
    BY <2>1, <1>15, <1>5, <1>6, <1>11
  <2>3. \A i \in 1..n : F[k + i].kind = "char" /\ F[k + i].n = doc[f][i]
    BY <1>15, <1>2, <1>12 DEF sort
  <2> QED BY <1>1, <1>10, <1>13, <1>15, <2>1, <2>2, <2>3 DEF F, n
<1> QED BY <1>14, <1>15

(* The field the parser does not know: a word, and another one behind it.  *)
LEMMA ExtraLaidOut ==
  ASSUME NEW doc \in Documents
  PROVE  LET F == FieldTokens(doc, "extra")
         IN  /\ F \in Seq(Tokens) /\ Len(F) = 3
             /\ F[1] = Key("extra") /\ F[2] = Key(doc.extra) /\ F[3] = Comma
<1>1. doc.extra \in Required \cup {""}
  BY DocumentsAssumption
<1>2. FieldTokens(doc, "extra") = <<Key("extra"), Key(doc.extra), Comma>>
  BY DEF FieldTokens
<1>3. Key("extra") \in Tokens /\ Key(doc.extra) \in Tokens /\ Comma \in Tokens
  BY <1>1 DEF Key, Comma, Token, Tokens, Fields, Keys, Required
<1> DEFINE x == Key("extra")
           y == Key(doc.extra)
<1>4. FieldTokens(doc, "extra") = <<x, y, Comma>> /\ x \in Tokens /\ y \in Tokens
  BY <1>2, <1>3
<1> HIDE DEF x, y
<1>5. /\ <<x, y, Comma>> \in Seq(Tokens) /\ Len(<<x, y, Comma>>) = 3
      /\ <<x, y, Comma>>[1] = x /\ <<x, y, Comma>>[2] = y /\ <<x, y, Comma>>[3] = Comma
  BY <1>3, <1>4
<1>6. LET F == FieldTokens(doc, "extra")
      IN  F \in Seq(Tokens) /\ Len(F) = 3 /\ F[1] = x /\ F[2] = y /\ F[3] = Comma
  BY <1>4, <1>5
<1> QED BY <1>6 DEF x, y

\* Where the key of f stands in s, its field stands, or a value spells it.
KeyStands(doc, s, f, p) ==
  \/ Holds(s, p - 1, FieldTokens(doc, f))
  \/ /\ p + 1 <= Len(s) /\ s[p + 1] = Comma
     /\ Misleads(doc) \/ \E y \in 1..(p - 1) : s[y] = Key(f)

(* The body of a document: wherever the key of a field stands, the whole   *)
(* field stands there, or a value spells it; every field of the document   *)
(* stands somewhere.                                                       *)
LEMMA BodyLaidOut ==
  ASSUME NEW doc \in Documents
  PROVE  /\ Body(doc) \in Seq(Tokens)
         /\ \A f \in Keys : \A p \in 1..Len(Body(doc)) :
              Body(doc)[p] = Key(f) => KeyStands(doc, Body(doc), f, p)
         /\ \A i \in DOMAIN doc.order :
              \E o \in Nat : Holds(Body(doc), o, FieldTokens(doc, doc.order[i]))
<1> DEFINE k == Len(doc.order)
           P == [ i \in DOMAIN doc.order |-> FieldTokens(doc, doc.order[i]) ]
           B == Body(doc)
<1>1. k \in Nat /\ DOMAIN doc.order = 1..k /\ \A i \in 1..k : doc.order[i] \in Fields
  BY DocumentsAssumption, LenProperties, ElementOfSeq
<1>2. \A f \in Keys : /\ FieldTokens(doc, f) \in Seq(Tokens)
                      /\ FieldTokens(doc, f)[1] = Key(f) /\ Len(FieldTokens(doc, f)) >= 1
                      /\ \A x \in 2..Len(FieldTokens(doc, f)) :
                           FieldTokens(doc, f)[x].kind # "key"
  <2> SUFFICES ASSUME NEW f \in Keys
               PROVE  /\ FieldTokens(doc, f) \in Seq(Tokens)
                      /\ FieldTokens(doc, f)[1] = Key(f) /\ Len(FieldTokens(doc, f)) >= 1
                      /\ \A x \in 2..Len(FieldTokens(doc, f)) :
                           FieldTokens(doc, f)[x].kind # "key"
    OBVIOUS
  <2>1. Len(doc[f]) \in Nat /\ Len(FieldTokens(doc, f)) = IF f \in Numbers THEN Len(doc[f]) + 2
                                                                     ELSE Len(doc[f]) + 4
    BY FieldLaidOut
  <2> QED BY <2>1, FieldLaidOut
<1>3. /\ P \in [1..k -> Seq(Tokens)]
      /\ \A i \in 1..k : P[i] = FieldTokens(doc, doc.order[i])
  BY <1>1, <1>2, ExtraLaidOut DEF Fields
<1>4. B = FlattenSeq(P)
  BY DEF Body
<1> HIDE DEF P, B, k
<1>5. B \in Seq(Tokens) /\ LaidOut(B, P, k)
  BY <1>1, <1>3, <1>4, FlattenLaysOut
<1>6. ASSUME NEW f \in Keys, NEW p \in 1..Len(B), B[p] = Key(f)
      PROVE  KeyStands(doc, B, f, p)
  <2>1. PICK j \in 1..k : \E x \in 1..Len(P[j]) :
          p - x \in Nat /\ Holds(B, p - x, P[j]) /\ AllBefore(B, P, j - 1, p - x)
    BY <1>5 DEF LaidOut
  <2>2. PICK x \in 1..Len(P[j]) :
          p - x \in Nat /\ Holds(B, p - x, P[j]) /\ AllBefore(B, P, j - 1, p - x)
    BY <2>1
  <2>3. Len(B) \in Nat /\ Len(P[j]) \in Nat
    BY <1>3, <1>5, LenProperties
  <2>4. (p - x) + x = p
    BY <2>2, <2>3
  <2>5. P[j][x] = Key(f)
    BY <2>2, <2>4, <1>6 DEF Holds
  <2>6. /\ Key(f).kind = "key" /\ Key(f).name = f
        /\ \A g : Key(g).name = g
    BY DEF Key, Token
  <2>7. CASE doc.order[j] \in Keys
    <3>1. x = 1
      <4> SUFFICES ASSUME x # 1 PROVE FALSE
        OBVIOUS
      <4>1. x \in 2..Len(P[j])
        BY <2>3
      <4>2. P[j][x].kind # "key"
        BY <4>1, <2>7, <1>2, <1>3
      <4> QED BY <2>5, <2>6, <4>2
    <3>2. doc.order[j] = f
      <4>1. Key(doc.order[j]) = Key(f)
        BY <2>5, <2>7, <3>1, <1>2, <1>3
      <4> QED BY <4>1, <2>6
    <3> QED BY <2>2, <3>1, <3>2, <1>3 DEF KeyStands
  <2>8. CASE doc.order[j] = "extra"
    <3>1. /\ P[j] = FieldTokens(doc, "extra") /\ Len(P[j]) = 3
          /\ P[j][1] = Key("extra") /\ P[j][2] = Key(doc.extra) /\ P[j][3] = Comma
      BY <2>8, <1>3, ExtraLaidOut
    <3>2. x = 2 /\ doc.extra = f
      <4>1. x \in {1, 2, 3}
        <5>1. x \in 1..3
          BY <3>1
        <5> QED BY <5>1
      <4>2. Comma.kind # "key" /\ f # "extra"
        BY DEF Comma, Token, Keys
      <4>3. x # 1 /\ x # 3
        BY <2>5, <2>6, <3>1, <4>2
      <4>4. x = 2
        BY <4>1, <4>3
      <4> QED BY <4>4, <2>5, <2>6, <3>1
    <3>3. p + 1 <= Len(B) /\ B[p + 1] = Comma
      <4>1. (p - x) + 3 <= Len(B) /\ B[(p - x) + 3] = P[j][3]
        <5>1. Holds(B, p - x, P[j]) /\ Len(P[j]) = 3 /\ 3 \in 1..3
          BY <2>2, <3>1
        <5>2. (p - x) + 3 <= Len(B)
          BY <5>1 DEF Holds
        <5>3. \A z \in 1..Len(P[j]) : B[(p - x) + z] = P[j][z]
          BY <5>1 DEF Holds
        <5> QED BY <5>1, <5>2, <5>3
      <4>2. (p - x) + 3 = p + 1
        BY <3>2
      <4> QED BY <4>1, <4>2, <3>1
    <3>4. ASSUME ~Misleads(doc) PROVE \E y \in 1..(p - 1) : B[y] = Key(f)
      <4>1. PICK i \in 1..(j - 1) : doc.order[i] = f
        <5>1. j \in DOMAIN doc.order /\ doc.extra \in Required
          BY <1>1, <3>2, DocumentsAssumption DEF Keys
        <5> QED BY <3>4, <2>8, <3>2, <5>1 DEF Misleads
      <4>2. PICK o \in Nat : Holds(B, o, P[i]) /\ o + Len(P[i]) <= p - x
        BY <2>2 DEF AllBefore
      <4>3. P[i] = FieldTokens(doc, f)
        <5>1. i \in 1..k
          BY <4>1, <1>1
        <5> QED BY <4>1, <1>3, <5>1
      <4>4. P[i][1] = Key(f) /\ Len(P[i]) >= 1 /\ Len(P[i]) \in Nat
        BY <4>3, <1>2, LenProperties
      <4>5. B[o + 1] = Key(f)
        BY <4>2, <4>4 DEF Holds
      <4>6. o + 1 \in 1..(p - 1)
        BY <4>2, <4>4, <3>2
      <4> QED BY <4>5, <4>6
    <3> QED BY <3>3, <3>4 DEF KeyStands
  <2> QED BY <2>7, <2>8, <1>1 DEF Fields
<1>7. ASSUME NEW i \in DOMAIN doc.order
      PROVE  \E o \in Nat : Holds(B, o, FieldTokens(doc, doc.order[i]))
  BY <1>1, <1>3, <1>5 DEF LaidOut, AllBefore
<1>8. /\ B \in Seq(Tokens)
      /\ \A f \in Keys : \A p \in 1..Len(B) : B[p] = Key(f) => KeyStands(doc, B, f, p)
      /\ \A i \in DOMAIN doc.order : \E o \in Nat : Holds(B, o, FieldTokens(doc, doc.order[i]))
  BY <1>5, <1>6, <1>7
<1> QED BY <1>8 DEF B

\* From p on, b has the value d and then another kind of token, as far as its
\* r last tokens go.
CameAs(b, p, kind, d, r) ==
  /\ \A i \in 1..Smallest(r, Len(d)) : b[p + i - 1].kind = kind /\ b[p + i - 1].n = d[i]
  /\ r > Len(d) => b[p + Len(d)].kind # kind

(* A run of tokens of one kind, where the transfer broke off at or within  *)
(* it: as much of the value as came.                                       *)
LEMMA RunReads ==
  ASSUME NEW b \in Seq(Tokens), NEW p \in 1..(Len(b) + 1), NEW kind, NEW X, NEW d \in Seq(X),
         NEW r, r = Len(b) - p + 1, CameAs(b, p, kind, d, r)
  PROVE  NumbersOf(RunOf(b, p, kind)) = SubSeq(d, 1, Smallest(r, Len(d)))
<1> DEFINE n == Len(d)
           m == Smallest(r, n)
           t == SubSeq(b, p, Len(b))
           I == { i \in 1..Len(t) : t[i].kind # kind }
           stop == SelectInSeq(t, LAMBDA x : x.kind # kind)
           run == RunOf(b, p, kind)
<1>1. Len(b) \in Nat /\ n \in Nat
  BY LenProperties
<1>2. r \in Nat /\ m \in 0..n /\ m <= r /\ (m = r \/ (m = n /\ r > n))
  <2>1. r \in Nat
    BY <1>1
  <2> HIDE DEF n
  <2>2. m = IF r < n THEN r ELSE n
    BY DEF Smallest
  <2> HIDE DEF m
  <2> QED BY <1>1, <2>1, <2>2
<1>3. t \in Seq(Tokens) /\ Len(t) = r /\ \A i \in 1..r : t[i] = b[p + i - 1]
  <2>1. \A i \in p..Len(b) : b[i] \in Tokens
    BY <1>1, ElementOfSeq
  <2>2. p \in Int /\ Len(b) \in Int
    BY <1>1
  <2>3. /\ t \in Seq(Tokens)
        /\ Len(t) = IF p <= Len(b) THEN Len(b) - p + 1 ELSE 0
        /\ \A i \in 1..(Len(b) - p + 1) : t[i] = b[p + i - 1]
    BY <2>1, <2>2, SubSeqProperties
  <2>4. (IF p <= Len(b) THEN Len(b) - p + 1 ELSE 0) = r
    BY <1>1
  <2> HIDE DEF t
  <2> QED BY <2>3, <2>4
<1>4. stop = IF I # {} THEN Min(I) ELSE 0
  BY DEF SelectInSeq
<1>5. run = IF stop = 0 THEN t ELSE SubSeq(t, 1, stop - 1)
  BY DEF RunOf
<1> HIDE DEF t, stop, run, m, n
<1>6. /\ \A i \in 1..m : t[i].kind = kind /\ t[i].n = d[i]
      /\ r > n => t[n + 1].kind # kind
  <2>1. \A i \in 1..m : i \in 1..r
    BY <1>2, <1>1
  <2>2. \A i \in 1..m : b[p + i - 1].kind = kind /\ b[p + i - 1].n = d[i]
    BY DEF CameAs, m, n
  <2>3. r > n => n + 1 \in 1..r /\ p + (n + 1) - 1 = p + n
    BY <1>1, <1>2
  <2>4. r > n => b[p + n].kind # kind
    BY DEF CameAs, n
  <2> QED BY <1>3, <2>1, <2>2, <2>3, <2>4
<1>7. run = SubSeq(t, 1, m)
  <2>1. CASE m = r
    <3>1. I = {}
      BY <2>1, <1>3, <1>6
    <3>2. run = t
      BY <3>1, <1>4, <1>5
    <3> QED BY <2>1, <3>2, <1>3, SubSeqFull
  <2>2. CASE m = n /\ r > n
    <3>1. n + 1 \in I
      BY <2>2, <1>1, <1>2, <1>3, <1>6
    <3>2. \A i \in I : n + 1 <= i
      <4> SUFFICES ASSUME NEW i \in I, i < n + 1 PROVE FALSE
        BY <1>1, <1>2, <1>3
      <4>1. i \in 1..m
        BY <2>2, <1>1, <1>2, <1>3
      <4> QED BY <4>1, <1>6
    <3>3. I \in SUBSET Nat
      BY <1>2, <1>3
    <3> HIDE DEF I
    <3>4. Min(I) = n + 1
      BY <3>1, <3>2, <3>3, MinIs
    <3>5. stop = n + 1 /\ stop # 0 /\ stop - 1 = n
      BY <3>1, <3>4, <1>1, <1>4
    <3> QED BY <3>5, <2>2, <1>5
  <2> QED BY <2>1, <2>2, <1>2
<1>8. m \in 0..Len(t)
  BY <1>1, <1>2, <1>3
<1>9. run \in Seq(Tokens) /\ Len(run) = m /\ \A i \in 1..m : run[i] = t[i]
  BY <1>3, <1>7, <1>8, Prefix
<1>10. /\ SubSeq(d, 1, m) \in Seq(X) /\ Len(SubSeq(d, 1, m)) = m
       /\ \A i \in 1..m : SubSeq(d, 1, m)[i] = d[i]
  BY <1>2, Prefix DEF n
<1>11. /\ NumbersOf(run) \in Seq(X) /\ Len(NumbersOf(run)) = m
       /\ \A i \in 1..m : NumbersOf(run)[i] = d[i]
  <2> DEFINE w == NumbersOf(run)
  <2>1. DOMAIN run = 1..m /\ m \in Nat
    BY <1>1, <1>2, <1>9, LenProperties
  <2>2. ASSUME NEW i \in 1..m PROVE run[i].n = d[i] /\ d[i] \in X
    <3>1. i \in 1..n
      BY <1>1, <1>2
    <3>2. d[i] \in X
      BY <3>1, ElementOfSeq DEF n
    <3>3. run[i].n = d[i]
      BY <1>6, <1>9
    <3> QED BY <3>2, <3>3
  <2>3. w = [ i \in 1..m |-> run[i].n ]
    BY <2>1 DEF NumbersOf
  <2> HIDE DEF w
  <2>4. w \in [1..m -> X] /\ \A i \in 1..m : w[i] = d[i]
    BY <2>2, <2>3
  <2>5. w \in Seq(X) /\ Len(w) = m
    BY <2>1, <2>4, TupleIsSeq
  <2> QED BY <2>4, <2>5 DEF w
<1>12. NumbersOf(run) = SubSeq(d, 1, m)
  <2> DEFINE u == SubSeq(d, 1, m)
             w == NumbersOf(run)
  <2>1. /\ u \in Seq(X) /\ Len(u) = m /\ \A i \in 1..m : u[i] = d[i]
        /\ w \in Seq(X) /\ Len(w) = m /\ \A i \in 1..m : w[i] = d[i]
    BY <1>10, <1>11
  <2> HIDE DEF u, w
  <2>2. \A i \in 1..Len(w) : w[i] = u[i]
    BY <2>1
  <2>3. w = u
    BY <2>1, <2>2, SeqEqual
  <2> QED BY <2>3 DEF u, w
<1> QED BY <1>12 DEF run, m, n

(***************************************************************************)
(* The value of a number, digit by digit.                                  *)
(***************************************************************************)

LEMMA MaxIs ==
  ASSUME NEW S \in SUBSET Nat, NEW x \in S, \A y \in S : y <= x
  PROVE  Max(S) = x
<1>1. \E z \in S : \A y \in S : z >= y
  OBVIOUS
<1>2. Max(S) \in S /\ \A y \in S : Max(S) >= y
  BY <1>1 DEF Max
<1>3. Max(S) \in Nat /\ x \in Nat /\ Max(S) >= x /\ Max(S) <= x
  BY <1>2
<1> QED BY <1>3

(* A digit behind the value v. *)
Digit(v, d) == (v * Base + d) % WordSize

LEMMA DigitType ==
  ASSUME NEW v \in Nat, NEW d \in Nat
  PROVE  /\ Digit(v, d) \in 0..(WordSize - 1) /\ Digit(v, d) \in Nat
         /\ v * Base + d < WordSize => Digit(v, d) >= v
<1>1. Base \in Nat /\ Base >= 1 /\ WordSize \in Nat /\ WordSize > 0
  BY SizesAssumption
<1>2. v * Base \in Nat /\ v * Base >= v
  BY <1>1
<1> DEFINE x == v * Base + d
<1>3. x \in Nat /\ x >= v
  BY <1>2
<1>4. Digit(v, d) = x % WordSize
  BY DEF Digit
<1> HIDE DEF x
<1>5. x % WordSize \in 0..(WordSize - 1)
  BY <1>1, <1>3
<1>6. x < WordSize => x % WordSize = x
  BY <1>1, <1>3
<1>7. x % WordSize \in Nat
  BY <1>1, <1>5
<1> QED BY <1>3, <1>4, <1>5, <1>6, <1>7 DEF x

(* FoldLeft's function, on every subset of the digits' places.             *)
FoldStep(d, g, s) == IF s = {} THEN 0 ELSE Digit(g[s \ {Max(s)}], d[Max(s)])

Fold(d) == CHOOSE g : g = [ s \in SUBSET DOMAIN d |-> FoldStep(d, g, s) ]

LEMMA ValueOfIsFold ==
  ASSUME NEW d
  PROVE  ValueOf(d) = Fold(d)[DOMAIN d]
BY DEF ValueOf, FoldLeft, MapThenFoldSet, Fold, FoldStep, Digit

LEMMA FoldExists ==
  ASSUME NEW d, NEW n \in Nat
  PROVE  \E g : g = [ s \in SUBSET (1..n) |-> FoldStep(d, g, s) ]
<1> DEFINE Built(k) == \E g : g = [ s \in SUBSET (1..k) |-> FoldStep(d, g, s) ]
           T == { k \in Nat : Built(k) }
<1>1. 0 \in T
  <2> DEFINE g == [ s \in SUBSET (1..0) |-> 0 ]
  <2>1. \A s \in SUBSET (1..0) : FoldStep(d, g, s) = 0
    <3>1. \A s \in SUBSET (1..0) : s = {}
      OBVIOUS
    <3> HIDE DEF g
    <3> QED BY <3>1 DEF FoldStep
  <2>2. g = [ s \in SUBSET (1..0) |-> FoldStep(d, g, s) ]
    BY <2>1
  <2>3. Built(0)
    <3> HIDE DEF g
    <3> QED BY <2>2
  <2> HIDE DEF Built
  <2> QED BY <2>3
<1>2. ASSUME NEW k \in T PROVE k + 1 \in T
  <2>1. PICK g : g = [ s \in SUBSET (1..k) |-> FoldStep(d, g, s) ]
    OBVIOUS
  <2>2. /\ k \in Nat /\ k + 1 \in Nat /\ k + 1 \notin 1..k
        /\ \A s \in SUBSET (1..(k + 1)) : k + 1 \notin s => s \in SUBSET (1..k)
        /\ \A s \in SUBSET (1..(k + 1)) : s \ {k + 1} \in SUBSET (1..k)
    OBVIOUS
  <2> DEFINE h == [ s \in SUBSET (1..(k + 1)) |->
                      IF k + 1 \in s THEN Digit(g[s \ {k + 1}], d[k + 1]) ELSE g[s] ]
  <2>3. ASSUME NEW s \in SUBSET (1..(k + 1)) PROVE h[s] = FoldStep(d, h, s)
    <3>1. CASE k + 1 \in s
      <4>1. Max(s) = k + 1
        <5>1. s \in SUBSET Nat /\ \A y \in s : y <= k + 1
          BY <2>2
        <5> QED BY <5>1, <3>1, MaxIs
      <4>2. s \ {k + 1} \in SUBSET (1..(k + 1)) /\ k + 1 \notin s \ {k + 1}
        OBVIOUS
      <4>3. h[s \ {k + 1}] = g[s \ {k + 1}]
        BY <4>2
      <4>4. h[s] = Digit(g[s \ {k + 1}], d[k + 1])
        BY <3>1
      <4> HIDE DEF h
      <4> QED BY <3>1, <4>1, <4>3, <4>4 DEF FoldStep
    <3>2. CASE k + 1 \notin s
      <4>1. s \in SUBSET (1..k) /\ h[s] = g[s]
        BY <3>2, <2>2
      <4>2. /\ s \ {Max(s)} \in SUBSET (1..(k + 1)) /\ k + 1 \notin s \ {Max(s)}
        BY <3>2
      <4>3. h[s \ {Max(s)}] = g[s \ {Max(s)}]
        BY <4>2
      <4> HIDE DEF h
      <4>4. g[s] = FoldStep(d, g, s)
        BY <4>1, <2>1
      <4> QED BY <4>1, <4>3, <4>4 DEF FoldStep
    <3> QED BY <3>1, <3>2
  <2>4. h = [ s \in SUBSET (1..(k + 1)) |-> FoldStep(d, h, s) ]
    BY <2>3
  <2>5. Built(k + 1)
    <3> HIDE DEF h
    <3> QED BY <2>4
  <2> HIDE DEF Built
  <2> QED BY <2>2, <2>5
<1>3. T = Nat
  <2> HIDE DEF T
  <2>1. T \in SUBSET Nat
    BY DEF T
  <2> QED BY <1>1, <1>2, <2>1, NatInduct
<1> QED BY <1>3

LEMMA FoldFolds ==
  ASSUME NEW X, NEW d \in Seq(X)
  PROVE  /\ Fold(d)[1..0] = 0
         /\ \A k \in 1..Len(d) : Fold(d)[1..k] = Digit(Fold(d)[1..(k - 1)], d[k])
         /\ ValueOf(d) = Fold(d)[1..Len(d)]
<1>1. DOMAIN d = 1..Len(d) /\ Len(d) \in Nat
  BY LenProperties
<1>2. Fold(d) = [ s \in SUBSET (1..Len(d)) |-> FoldStep(d, Fold(d), s) ]
  <2>1. \E g : g = [ s \in SUBSET (1..Len(d)) |-> FoldStep(d, g, s) ]
    BY <1>1, FoldExists
  <2> QED BY <1>1, <2>1 DEF Fold
<1>3. Fold(d)[1..0] = 0
  <2>1. 1..0 = {} /\ {} \in SUBSET (1..Len(d))
    OBVIOUS
  <2>2. Fold(d)[{}] = FoldStep(d, Fold(d), {})
    BY <1>2, <2>1
  <2> QED BY <2>1, <2>2 DEF FoldStep
<1>4. ASSUME NEW k \in 1..Len(d)
      PROVE  Fold(d)[1..k] = Digit(Fold(d)[1..(k - 1)], d[k])
  <2>1. k \in Nat /\ 1..k \in SUBSET (1..Len(d)) /\ 1..k \in SUBSET Nat /\ k \in 1..k
    BY <1>1
  <2>2. Max(1..k) = k
    BY <2>1, MaxIs
  <2>3. (1..k) \ {k} = 1..(k - 1) /\ 1..k # {}
    <3>1. \A x : x \in (1..k) \ {k} <=> x \in 1..(k - 1)
      BY <2>1
    <3> QED BY <3>1, <2>1
  <2>4. Fold(d)[1..k] = FoldStep(d, Fold(d), 1..k)
    BY <1>2, <2>1
  <2> QED BY <2>2, <2>3, <2>4 DEF FoldStep
<1> QED BY <1>1, <1>3, <1>4, ValueOfIsFold

(* The value of the first digits is a step of the value of all.            *)
LEMMA FoldOfPrefix ==
  ASSUME NEW X, NEW d \in Seq(X), NEW m \in 0..Len(d)
  PROVE  ValueOf(SubSeq(d, 1, m)) = Fold(d)[1..m]
<1> DEFINE p == SubSeq(d, 1, m)
           T == { j \in Nat : j <= m => Fold(p)[1..j] = Fold(d)[1..j] }
<1>1. Len(d) \in Nat /\ m \in Nat
  BY LenProperties
<1>2. p \in Seq(X) /\ Len(p) = m /\ \A i \in 1..m : p[i] = d[i]
  BY Prefix
<1> HIDE DEF p
<1>3. /\ Fold(d)[1..0] = 0 /\ Fold(p)[1..0] = 0
      /\ \A k \in 1..Len(d) : Fold(d)[1..k] = Digit(Fold(d)[1..(k - 1)], d[k])
      /\ \A k \in 1..m : Fold(p)[1..k] = Digit(Fold(p)[1..(k - 1)], p[k])
      /\ ValueOf(p) = Fold(p)[1..m]
  BY <1>2, FoldFolds
<1>4. 0 \in T
  BY <1>3
<1>5. ASSUME NEW j \in T PROVE j + 1 \in T
  <2> SUFFICES ASSUME j + 1 <= m PROVE Fold(p)[1..(j + 1)] = Fold(d)[1..(j + 1)]
    OBVIOUS
  <2>1. j \in Nat /\ j <= m /\ Fold(p)[1..j] = Fold(d)[1..j]
    BY <1>1
  <2>2. j + 1 \in 1..m /\ j + 1 \in 1..Len(d) /\ (j + 1) - 1 = j
    BY <1>1, <2>1
  <2> HIDE DEF T
  <2> QED BY <1>2, <1>3, <2>1, <2>2
<1>6. T = Nat
  <2> HIDE DEF T
  <2>1. T \in SUBSET Nat
    BY DEF T
  <2> QED BY <1>4, <1>5, <2>1, NatInduct
<1>7. Fold(p)[1..m] = Fold(d)[1..m]
  BY <1>1, <1>6
<1> QED BY <1>3, <1>7 DEF p

(* parse_uint() never wraps on these digits.                               *)
NeverWraps(d) ==
  \A k \in 1..Len(d) : ValueOf(SubSeq(d, 1, k - 1)) * Base + d[k] < WordSize

(* The value stays below WordSize; and losing the end of a number that     *)
(* does not wrap can only make it smaller.                                 *)
LEMMA ValueOfPrefix ==
  ASSUME NEW d \in Seq(Nat), NEW m \in 0..Len(d)
  PROVE  /\ ValueOf(SubSeq(d, 1, m)) \in 0..(WordSize - 1)
         /\ NeverWraps(d) => ValueOf(SubSeq(d, 1, m)) <= ValueOf(d)
<1> DEFINE F(k) == Fold(d)[1..k]
           n == Len(d)
           T == { j \in Nat : j <= n => F(j) \in 0..(WordSize - 1) }
           M == { j \in Nat : m + j <= n => F(m) <= F(m + j) }
<1>1. n \in Nat /\ m \in 0..n /\ WordSize \in Nat \ {0}
  BY LenProperties, SizesAssumption
<1>2. /\ F(0) = 0
      /\ \A k \in 1..n : F(k) = Digit(F(k - 1), d[k]) /\ d[k] \in Nat
      /\ ValueOf(d) = F(n)
  <2>1. \A k \in 1..n : d[k] \in Nat
    BY ElementOfSeq
  <2> QED BY <2>1, FoldFolds
<1>3. \A k \in 0..n : ValueOf(SubSeq(d, 1, k)) = F(k)
  BY FoldOfPrefix
<1> HIDE DEF F, n
<1>4. T = Nat
  <2>1. 0 \in T
    BY <1>1, <1>2
  <2>2. ASSUME NEW j \in T PROVE j + 1 \in T
    <3> SUFFICES ASSUME j + 1 <= n PROVE F(j + 1) \in 0..(WordSize - 1)
      OBVIOUS
    <3>1. j \in Nat /\ j <= n /\ F(j) \in 0..(WordSize - 1)
      BY <1>1
    <3>2. j + 1 \in 1..n /\ (j + 1) - 1 = j
      BY <1>1, <3>1
    <3>3. F(j + 1) = Digit(F(j), d[j + 1]) /\ d[j + 1] \in Nat
      BY <1>2, <3>2
    <3>4. F(j) \in Nat
      BY <1>1, <3>1
    <3> QED BY <3>3, <3>4, DigitType
  <2> HIDE DEF T
  <2>3. T \in SUBSET Nat
    BY DEF T
  <2> QED BY <2>1, <2>2, <2>3, NatInduct
<1>5. \A k \in 0..n : F(k) \in 0..(WordSize - 1) /\ F(k) \in Nat
  <2> SUFFICES ASSUME NEW k \in 0..n PROVE F(k) \in 0..(WordSize - 1) /\ F(k) \in Nat
    OBVIOUS
  <2>1. k \in Nat /\ k <= n
    BY <1>1
  <2>2. k \in T
    <3> HIDE DEF T
    <3> QED BY <1>4, <2>1
  <2>3. F(k) \in 0..(WordSize - 1)
    BY <2>1, <2>2
  <2> QED BY <2>3, <1>1
<1>6. ASSUME NeverWraps(d) PROVE F(m) <= F(n)
  <2>1. 0 \in M
    <3>1. F(m) \in Nat /\ m + 0 = m
      BY <1>1, <1>5
    <3> QED BY <3>1
  <2>2. ASSUME NEW j \in M PROVE j + 1 \in M
    <3> SUFFICES ASSUME m + (j + 1) <= n PROVE F(m) <= F(m + (j + 1))
      OBVIOUS
    <3> DEFINE k == m + j
    <3>1. j \in Nat /\ k \in 0..n /\ k + 1 \in 1..n /\ m + (j + 1) = k + 1 /\ (k + 1) - 1 = k
      BY <1>1
    <3>2. F(m) <= F(k)
      BY <3>1, <1>1
    <3> HIDE DEF k, M
    <3>3. F(k + 1) = Digit(F(k), d[k + 1]) /\ d[k + 1] \in Nat
      BY <1>2, <3>1
    <3>4. ValueOf(SubSeq(d, 1, (k + 1) - 1)) * Base + d[k + 1] < WordSize
      BY <1>6, <3>1 DEF NeverWraps, n
    <3>5. F(k) * Base + d[k + 1] < WordSize
      BY <3>1, <3>4, <1>3
    <3>6. F(k) \in Nat /\ F(k + 1) \in Nat /\ F(m) \in Nat
      BY <1>1, <1>5, <3>1
    <3>7. F(k + 1) >= F(k)
      BY <3>3, <3>5, <3>6, DigitType
    <3>8. F(m) <= F(k + 1)
      <4> DEFINE low == F(m)
                 here == F(k)
                 next == F(k + 1)
      <4>1. low \in Nat /\ here \in Nat /\ next \in Nat /\ low <= here /\ next >= here
        BY <3>2, <3>6, <3>7
      <4> HIDE DEF low, here, next
      <4>2. low <= next
        BY <4>1
      <4> QED BY <4>2 DEF low, next
    <3>9. m + (j + 1) = k + 1
      BY <3>1
    <3> QED BY <3>8, <3>9, Zenon
  <2>3. M = Nat
    <3> HIDE DEF M
    <3>1. M \in SUBSET Nat
      BY DEF M
    <3> QED BY <2>1, <2>2, <3>1, NatInduct
  <2>4. n - m \in M /\ m + (n - m) = n
    <3>1. n - m \in Nat /\ m + (n - m) = n
      BY <1>1
    <3> HIDE DEF M
    <3> QED BY <2>3, <3>1
  <2> DEFINE j == n - m
  <2>5. j \in { i \in Nat : m + i <= n => F(m) <= F(m + i) } /\ m + j = n
    BY <2>4
  <2> HIDE DEF j, M
  <2>6. m + j <= n => F(m) <= F(m + j)
    BY <2>5
  <2>7. F(m) <= F(m + j)
    BY <2>5, <2>6, <1>1
  <2> QED BY <2>5, <2>7
<1>7. ValueOf(SubSeq(d, 1, m)) = F(m) /\ F(m) \in 0..(WordSize - 1)
  BY <1>1, <1>3, <1>5
<1> HIDE DEF T, M
<1> QED BY <1>2, <1>6, <1>7

(***************************************************************************)
(* The manifest, read from a prefix of the document.                       *)
(***************************************************************************)

\* What arrives of a document when q of its tokens are kept.
Arrived(doc, q) == SubSeq(Body(doc), 1, q)

LEMMA ArrivedIs ==
  ASSUME NEW doc \in Documents, NEW q \in 0..Len(Body(doc))
  PROVE  /\ Arrived(doc, q) \in Seq(Tokens) /\ Len(Arrived(doc, q)) = q /\ q \in Nat
         /\ \A i \in 1..q : Arrived(doc, q)[i] = Body(doc)[i]
<1>1. Body(doc) \in Seq(Tokens)
  BY BodyLaidOut
<1>2. Len(Body(doc)) \in Nat
  BY <1>1, LenProperties
<1> QED BY <1>1, <1>2, Prefix DEF Arrived

(* find_value() returns the place behind the first word that is the key,   *)
(* and nothing past the end.                                               *)
LEMMA FoundBehindKey ==
  ASSUME NEW b \in Seq(Tokens), NEW f \in Keys
  PROVE  FindValue(b, f) # 0 =>
           /\ FindValue(b, f) \in 2..Len(b) /\ b[FindValue(b, f) - 1] = Key(f)
           /\ \A y \in 1..(FindValue(b, f) - 2) : b[y] # Key(f)
<1> DEFINE I == { i \in 1..Len(b) : b[i] = Key(f) }
           found == SelectInSeq(b, LAMBDA t : t = Key(f))
<1>1. found = IF I # {} THEN Min(I) ELSE 0
  BY DEF SelectInSeq
<1>2. FindValue(b, f) = IF found \in 1..Len(b) - 1 THEN found + 1 ELSE 0
  BY DEF FindValue
<1>3. Len(b) \in Nat
  BY LenProperties
<1>4. I # {} => Min(I) \in I /\ \A y \in I : Min(I) <= y
  <2>1. I \in SUBSET Nat
    BY <1>3
  <2> HIDE DEF I
  <2> QED BY <2>1, MinIsLeast
<1> HIDE DEF found
<1> SUFFICES ASSUME found \in 1..Len(b) - 1
             PROVE  /\ found + 1 \in 2..Len(b) /\ b[(found + 1) - 1] = Key(f)
                    /\ \A y \in 1..((found + 1) - 2) : b[y] # Key(f)
  BY <1>2
<1>5. found \in I
  <2>1. found # 0
    BY <1>3
  <2> HIDE DEF I
  <2> QED BY <2>1, <1>1, <1>4
<1>6. b[found] = Key(f) /\ (found + 1) - 1 = found /\ found + 1 \in 2..Len(b)
  BY <1>5, <1>3
<1>7. ASSUME NEW y \in 1..((found + 1) - 2), b[y] = Key(f) PROVE FALSE
  <2>1. y \in I /\ y < found
    BY <1>7, <1>3
  <2>2. found = Min(I) /\ found <= y
    <3> HIDE DEF I
    <3> QED BY <2>1, <1>1, <1>4
  <2> QED BY <2>1, <2>2, <1>3
<1> QED BY <1>6, <1>7

(* A key that is there, with something behind it, is found.                *)
LEMMA FindsKey ==
  ASSUME NEW b \in Seq(Tokens), NEW f \in Keys, NEW i \in 1..(Len(b) - 1), b[i] = Key(f)
  PROVE  FindValue(b, f) # 0
<1> DEFINE I == { j \in 1..Len(b) : b[j] = Key(f) }
           found == SelectInSeq(b, LAMBDA t : t = Key(f))
<1>1. found = IF I # {} THEN Min(I) ELSE 0
  BY DEF SelectInSeq
<1>2. FindValue(b, f) = IF found \in 1..Len(b) - 1 THEN found + 1 ELSE 0
  BY DEF FindValue
<1>3. Len(b) \in Nat
  BY LenProperties
<1>4. i \in I /\ I \in SUBSET Nat
  BY <1>3
<1>5. I \subseteq 1..Len(b)
  OBVIOUS
<1> HIDE DEF found, I
<1>6. Min(I) \in I /\ Min(I) <= i
  BY <1>4, MinIsLeast
<1>7. found = Min(I) /\ Min(I) \in 1..Len(b)
  BY <1>1, <1>4, <1>5, <1>6
<1>8. found \in 1..Len(b) - 1
  BY <1>3, <1>6, <1>7
<1> QED BY <1>2, <1>8, <1>3

\* At v, b goes on with the value of field f, as far as it came.
Stands(b, v, doc, f) ==
  /\ (v - 2) + Len(FieldTokens(doc, f)) <= Len(Body(doc))
  /\ \A x \in 1..Len(FieldTokens(doc, f)) :
       (v - 2) + x <= Len(b) => b[(v - 2) + x] = FieldTokens(doc, f)[x]

(* What is found is the value of the field, or the end of a value that     *)
(* spells its key.                                                         *)
LEMMA FoundField ==
  ASSUME NEW doc \in Documents, NEW q \in 0..Len(Body(doc)), NEW f \in Keys,
         NEW b, b = Arrived(doc, q), NEW v, v = FindValue(b, f), v # 0
  PROVE  /\ v \in 2..q
         /\ Stands(b, v, doc, f) \/ (b[v] = Comma /\ Misleads(doc))
<1> DEFINE B == Body(doc)
           F == FieldTokens(doc, f)
           p == v - 1
<1>1. /\ b \in Seq(Tokens) /\ Len(b) = q /\ q \in Nat
      /\ \A i \in 1..q : b[i] = B[i]
  BY ArrivedIs
<1>2. v \in 2..q /\ b[v - 1] = Key(f) /\ \A y \in 1..(v - 2) : b[y] # Key(f)
  BY <1>1, FoundBehindKey
<1>3. B \in Seq(Tokens) /\ Len(B) \in Nat
  BY BodyLaidOut, LenProperties
<1>4. \A y \in 1..Len(B) : B[y] = Key(f) => KeyStands(doc, B, f, y)
  BY BodyLaidOut
<1>5. F \in Seq(Tokens) /\ Len(F) \in Nat
  BY FieldLaidOut, LenProperties
<1> HIDE DEF B, F
<1>6. p \in 1..Len(B) /\ p \in 1..q /\ p - 1 = v - 2 /\ p + 1 = v /\ q <= Len(B)
  BY <1>1, <1>2, <1>3 DEF B
<1>7. KeyStands(doc, B, f, p)
  BY <1>1, <1>2, <1>4, <1>6
<1>8. CASE Holds(B, p - 1, F)
  <2>1. v - 2 \in Nat /\ (v - 2) + Len(F) <= Len(B) /\ \A x \in 1..Len(F) : B[(v - 2) + x] = F[x]
    BY <1>6, <1>8 DEF Holds
  <2>2. ASSUME NEW x \in 1..Len(F), (v - 2) + x <= q PROVE b[(v - 2) + x] = F[x]
    <3>1. (v - 2) + x \in 1..q
      BY <2>1, <2>2, <1>1, <1>5
    <3> QED BY <3>1, <2>1, <1>1
  <2>3. Stands(b, v, doc, f)
    BY <2>1, <2>2, <1>1 DEF Stands, F, B
  <2> QED BY <2>3, <1>2
<1>9. CASE ~Holds(B, p - 1, F)
  <2>1. /\ p + 1 <= Len(B) /\ B[p + 1] = Comma
        /\ Misleads(doc) \/ \E y \in 1..(p - 1) : B[y] = Key(f)
    BY <1>7, <1>9 DEF KeyStands, F
  <2>2. b[v] = Comma
    BY <2>1, <1>1, <1>2, <1>6
  <2>3. ~\E y \in 1..(p - 1) : B[y] = Key(f)
    <3> SUFFICES ASSUME NEW y \in 1..(p - 1), B[y] = Key(f) PROVE FALSE
      OBVIOUS
    <3>1. y \in 1..q /\ y \in 1..(v - 2)
      BY <1>1, <1>2, <1>6
    <3> QED BY <3>1, <1>1, <1>2
  <2> QED BY <2>1, <2>2, <2>3, <1>2
<1> QED BY <1>8, <1>9

(* A number is read as far as it came.                                     *)
LEMMA NumberRead ==
  ASSUME NEW doc \in Documents, NEW q \in 0..Len(Body(doc)), NEW f \in Numbers,
         NEW b, b = Arrived(doc, q), NEW v \in 2..q, Stands(b, v, doc, f)
  PROVE  NumbersOf(RunOf(b, v, "digit"))
           = SubSeq(doc[f], 1, Smallest(q - v + 1, Len(doc[f])))
<1> DEFINE F == FieldTokens(doc, f)
           n == Len(doc[f])
           r == q - v + 1
<1>1. f \in Keys /\ doc[f] \in Seq(Nat) /\ n \in Nat
  BY DocumentsAssumption, LenProperties DEF Keys, Numbers
<1>2. /\ b \in Seq(Tokens) /\ Len(b) = q /\ q \in Nat
  BY ArrivedIs
<1>3. v \in 2..q /\ \A x \in 1..Len(F) : (v - 2) + x <= q => b[(v - 2) + x] = F[x]
  BY <1>2 DEF Stands
<1>4. /\ Len(F) = n + 2 /\ F[n + 2] = Comma
      /\ \A i \in 1..n : F[1 + i].kind = "digit" /\ F[1 + i].n = doc[f][i]
  BY <1>1, FieldLaidOut
<1> HIDE DEF F, n
<1>5. r \in Nat /\ r = Len(b) - v + 1 /\ v \in 1..(Len(b) + 1)
  BY <1>2, <1>3
<1>6. ASSUME NEW i \in 1..Smallest(r, n)
      PROVE  b[v + i - 1].kind = "digit" /\ b[v + i - 1].n = doc[f][i]
  <2>1. i <= r /\ i <= n /\ i \in 1..n
    BY <1>1, <1>5 DEF Smallest
  <2>2. 1 + i \in 1..Len(F) /\ (v - 2) + (1 + i) <= q /\ (v - 2) + (1 + i) = v + i - 1
    <3>1. v \in 2..q /\ Len(F) = n + 2
      BY <1>3, <1>4
    <3> QED BY <2>1, <3>1, <1>1, <1>2 DEF r
  <2> QED BY <2>1, <2>2, <1>3, <1>4
<1>7. r > n => b[v + n].kind # "digit"
  <2> SUFFICES ASSUME r > n PROVE b[v + n].kind # "digit"
    OBVIOUS
  <2>1. n + 2 \in 1..Len(F) /\ (v - 2) + (n + 2) <= q /\ (v - 2) + (n + 2) = v + n
    <3>1. v \in 2..q /\ Len(F) = n + 2
      BY <1>3, <1>4
    <3>2. q - v + 1 > n /\ n \in Nat /\ q \in Nat
      BY <1>1, <1>2
    <3> HIDE DEF r
    <3> QED BY <3>1, <3>2
  <2>2. b[v + n] = Comma
    BY <2>1, <1>3, <1>4
    <2>3. Comma.kind # "digit"
    BY DEF Comma, Token
  <2> QED BY <2>2, <2>3
<1> DEFINE d == doc[f]
           X == Nat
<1>8. d \in Seq(X) /\ n = Len(d)
  BY <1>1 DEF n
<1> HIDE DEF r, d, X
<1>9. NumbersOf(RunOf(b, v, "digit")) = SubSeq(d, 1, Smallest(r, Len(d)))
  <2> DEFINE p == v
  <2>1. CameAs(b, p, "digit", d, r)
    BY <1>6, <1>7, <1>8 DEF d, CameAs
  <2>2. p \in 1..(Len(b) + 1) /\ r = Len(b) - p + 1
    BY <1>5
  <2> HIDE DEF p
  <2>3. NumbersOf(RunOf(b, p, "digit")) = SubSeq(d, 1, Smallest(r, Len(d)))
    BY <2>1, <2>2, <1>2, <1>8, RunReads
  <2> QED BY <2>3 DEF p
<1> QED BY <1>9 DEF r, d

(* A string is read as far as it came, and its closing quote is found only *)
(* when all of it came.                                                    *)
LEMMA StringRead ==
  ASSUME NEW doc \in Documents, NEW q \in 0..Len(Body(doc)), NEW f \in Keys, f \notin Numbers,
         NEW b, b = Arrived(doc, q), NEW v \in 2..q, Stands(b, v, doc, f)
  PROVE  /\ b[v] = Quote
         /\ NumbersOf(RunOf(b, v + 1, "char"))
              = SubSeq(doc[f], 1, Smallest(q - v, Len(doc[f])))
         /\ q - v > Len(doc[f]) => b[v + 1 + Len(doc[f])] = Quote
<1> DEFINE F == FieldTokens(doc, f)
           n == Len(doc[f])
           r == q - v
<1>1. f \in Keys /\ f \notin Numbers /\ doc[f] \in Seq(Nat) /\ n \in Nat
  BY DocumentsAssumption, LenProperties
<1>2. /\ b \in Seq(Tokens) /\ Len(b) = q /\ q \in Nat
  BY ArrivedIs
<1>3. v \in 2..q /\ \A x \in 1..Len(F) : (v - 2) + x <= q => b[(v - 2) + x] = F[x]
  BY <1>2 DEF Stands
<1>4. /\ Len(F) = n + 4 /\ F[2] = Quote /\ F[n + 3] = Quote
      /\ \A i \in 1..n : F[2 + i].kind = "char" /\ F[2 + i].n = doc[f][i]
  BY <1>1, FieldLaidOut
<1> HIDE DEF F, n
<1>5. r \in Nat /\ r = Len(b) - (v + 1) + 1 /\ v + 1 \in 1..(Len(b) + 1)
  BY <1>2, <1>3
<1>6. ASSUME NEW i \in 1..Smallest(r, n)
      PROVE  b[(v + 1) + i - 1].kind = "char" /\ b[(v + 1) + i - 1].n = doc[f][i]
  <2>1. i <= r /\ i <= n /\ i \in 1..n
    BY <1>1, <1>5 DEF Smallest
  <2>2. 2 + i \in 1..Len(F) /\ (v - 2) + (2 + i) <= q /\ (v - 2) + (2 + i) = (v + 1) + i - 1
    <3>1. v \in 2..q /\ Len(F) = n + 4
      BY <1>3, <1>4
    <3> QED BY <2>1, <3>1, <1>1, <1>2 DEF r
  <2> QED BY <2>1, <2>2, <1>3, <1>4
<1>7. r > n => b[(v + 1) + n] = Quote
  <2> SUFFICES ASSUME r > n PROVE b[(v + 1) + n] = Quote
    OBVIOUS
  <2>1. n + 3 \in 1..Len(F) /\ (v - 2) + (n + 3) <= q /\ (v - 2) + (n + 3) = (v + 1) + n
    BY <1>1, <1>2, <1>3, <1>4
  <2> QED BY <2>1, <1>3, <1>4
<1>8. b[v] = Quote
  <2>1. 2 \in 1..Len(F) /\ (v - 2) + 2 <= q /\ (v - 2) + 2 = v
    BY <1>1, <1>2, <1>3, <1>4
  <2> QED BY <2>1, <1>3, <1>4
<1>9. r > n => b[(v + 1) + n].kind # "char"
  <2>1. Quote.kind # "char"
    BY DEF Quote, Token
  <2> QED BY <2>1, <1>7
<1> DEFINE p == v + 1
<1> HIDE DEF r
<1>10. NumbersOf(RunOf(b, p, "char")) = SubSeq(doc[f], 1, Smallest(r, n))
  <2> DEFINE d == doc[f]
             X == Nat
  <2>1. d \in Seq(X) /\ n = Len(d)
    BY <1>1 DEF n
  <2> HIDE DEF p, d, X
  <2>2. CameAs(b, p, "char", d, r)
    BY <1>6, <1>9, <2>1 DEF p, d, CameAs
  <2>3. p \in 1..(Len(b) + 1) /\ r = Len(b) - p + 1
    BY <1>5 DEF p
  <2>4. NumbersOf(RunOf(b, p, "char")) = SubSeq(d, 1, Smallest(r, Len(d)))
    BY <2>1, <2>2, <2>3, <1>2, RunReads
  <2> QED BY <2>1, <2>4 DEF d
<1>11. /\ b[v] = Quote /\ NumbersOf(RunOf(b, v + 1, "char")) = SubSeq(doc[f], 1, Smallest(r, n))
       /\ r > n => b[v + 1 + n] = Quote
  BY <1>7, <1>8, <1>10
<1> QED BY <1>11 DEF r, n

(* Where a value spelled the key, there is neither a number nor a string.  *)
LEMMA NothingRead ==
  ASSUME NEW b \in Seq(Tokens), NEW v \in 1..Len(b), b[v] = Comma
  PROVE  NumbersOf(RunOf(b, v, "digit")) = <<>> /\ ~CopyString(b, v, UrlMax).ok
<1> DEFINE r == Len(b) - v + 1
<1>1. Len(b) \in Nat /\ v \in 1..(Len(b) + 1) /\ r \in Nat
  BY LenProperties
<1>2. Comma.kind # "digit" /\ Comma # Quote
  BY DEF Comma, Quote, Token
<1> HIDE DEF r
<1> DEFINE d == <<>>
           X == Nat
<1>3. d \in Seq(X) /\ Len(d) = 0 /\ Smallest(r, Len(d)) = 0 /\ v + 0 = v
  BY <1>1, EmptySeq DEF Smallest
<1>4. SubSeq(d, 1, 0) = <<>>
  BY <1>3, SubSeqEmpty
<1> HIDE DEF d, X
<1>5. CameAs(b, v, "digit", d, r)
  BY <1>1, <1>2, <1>3 DEF CameAs
<1>6. NumbersOf(RunOf(b, v, "digit")) = SubSeq(d, 1, Smallest(r, Len(d)))
  <2> DEFINE kind == "digit"
  <2>1. CameAs(b, v, kind, d, r) /\ r = Len(b) - v + 1
    BY <1>5 DEF r
  <2> HIDE DEF kind
  <2>2. NumbersOf(RunOf(b, v, kind)) = SubSeq(d, 1, Smallest(r, Len(d)))
    <3>1. v \in 1..(Len(b) + 1) /\ d \in Seq(X)
      BY <1>1, <1>3
    <3> HIDE DEF r
    <3> QED BY <2>1, <3>1, RunReads
  <2> QED BY <2>2 DEF kind
<1>7. ~CopyString(b, v, UrlMax).ok
  BY <1>2 DEF CopyString
<1> QED BY <1>3, <1>4, <1>6, <1>7

\* A URL as it is kept: what does not fit the struct is dropped.
KeptUrl(url) == SubSeq(url, 1, IF Len(url) < UrlMax THEN Len(url) ELSE UrlMax - 1)

(* copy_string() succeeds only on the whole string.                        *)
LEMMA StringWhole ==
  ASSUME NEW doc \in Documents, NEW q \in 0..Len(Body(doc)),
         NEW b, b = Arrived(doc, q), NEW v \in 2..q, Stands(b, v, doc, "url")
  PROVE  /\ CopyString(b, v, UrlMax).ok => CopyString(b, v, UrlMax).value = KeptUrl(doc.url)
         /\ q - v > Len(doc.url) => CopyString(b, v, UrlMax).ok
<1> DEFINE d == doc.url
           n == Len(d)
           r == q - v
           chars == NumbersOf(RunOf(b, v + 1, "char"))
           close == v + 1 + Len(chars)
<1>1. "url" \in Keys \ Numbers /\ d \in Seq(Nat) /\ n \in Nat
  BY DocumentsAssumption, LenProperties DEF Keys, Numbers
<1>2. /\ b \in Seq(Tokens) /\ Len(b) = q /\ q \in Nat
  BY ArrivedIs
<1>3. v \in 2..q
  OBVIOUS
<1>4. /\ b[v] = Quote
      /\ chars = SubSeq(d, 1, Smallest(r, n))
      /\ r > n => b[v + 1 + n] = Quote
  <2> DEFINE f == "url"
  <2>1. doc[f] = d
    OBVIOUS
  <2>2. f \in Keys /\ f \notin Numbers /\ Stands(b, v, doc, f)
    BY <1>1
  <2> HIDE DEF f, d, n, r, chars, close
  <2>3. /\ b[v] = Quote
        /\ NumbersOf(RunOf(b, v + 1, "char")) = SubSeq(doc[f], 1, Smallest(q - v, Len(doc[f])))
        /\ q - v > Len(doc[f]) => b[v + 1 + Len(doc[f])] = Quote
    BY <2>2, StringRead
  <2> QED BY <2>1, <2>3 DEF n, r, chars
<1>5. /\ CopyString(b, v, UrlMax).ok = (b[v] = Quote /\ close <= Len(b) /\ b[close] = Quote)
      /\ CopyString(b, v, UrlMax).value =
           SubSeq(chars, 1, IF Len(chars) < UrlMax THEN Len(chars) ELSE UrlMax - 1)
  BY DEF CopyString
<1> HIDE DEF chars, n
<1>6. r \in Nat /\ Smallest(r, n) \in 0..n
  BY <1>1, <1>2, <1>3 DEF Smallest
<1>7. Len(chars) = Smallest(r, n)
  <2> DEFINE m == Smallest(r, n)
  <2> HIDE DEF m, d
  <2>1. Len(SubSeq(d, 1, m)) = m
    BY <1>1, <1>6, Prefix DEF m, n
  <2> QED BY <2>1, <1>4 DEF m
<1>8. CASE r <= n
  <2>1. Smallest(r, n) = r
    BY <1>8, <1>1, <1>6 DEF Smallest
  <2>2. close = q + 1
    BY <2>1, <1>2, <1>3, <1>7
  <2>3. ~(close <= Len(b))
    BY <2>2, <1>2
  <2>4. ~CopyString(b, v, UrlMax).ok
    <3> HIDE DEF close
    <3> QED BY <2>3, <1>5
  <2>5. ~(r > n)
    BY <1>8, <1>1, <1>6
  <2> QED BY <2>4, <2>5 DEF n
<1>9. CASE r > n
  <2>1. Smallest(r, n) = n
    BY <1>9, <1>1, <1>6 DEF Smallest
  <2>2. chars = d
    BY <2>1, <1>1, <1>4, SubSeqFull DEF n
  <2>3. close = v + 1 + n /\ close <= Len(b) /\ b[close] = Quote
    BY <2>1, <1>1, <1>2, <1>3, <1>4, <1>7, <1>9
  <2>4. CopyString(b, v, UrlMax).ok /\ CopyString(b, v, UrlMax).value = KeptUrl(d)
    BY <2>2, <2>3, <1>4, <1>5 DEF KeptUrl
  <2> QED BY <2>4
<1>10. r <= n \/ r > n
  BY <1>1, <1>6
<1> QED BY <1>8, <1>9, <1>10

(* A manifest that parses holds as many of the version's digits as came,   *)
(* and the whole URL.                                                      *)
LEMMA ManifestReads ==
  ASSUME NEW doc \in Documents, NEW q \in 0..Len(Body(doc)),
         NEW b, b = Arrived(doc, q), Manifest(b).ok
  PROVE  /\ \E m \in 0..Len(doc.version) :
              Manifest(b).version = ValueOf(SubSeq(doc.version, 1, m))
         /\ Manifest(b).url = KeptUrl(doc.url)
<1> DEFINE v == FindValue(b, "version")
           u == FindValue(b, "url")
           D == NumbersOf(RunOf(b, v, "digit"))
           M == Manifest(b)
           d == doc.version
           r == q - v + 1
<1>1. /\ v # 0 /\ u # 0 /\ M.version = ParseUint(b, v).value
      /\ CopyString(b, u, UrlMax).ok /\ M.url = CopyString(b, u, UrlMax).value
  BY DEF Manifest
<1>2. /\ "version" \in Numbers /\ "version" \in Keys /\ "url" \in Keys
      /\ d \in Seq(Nat) /\ Len(d) \in Nat
  BY DocumentsAssumption, LenProperties DEF Keys, Numbers
<1>3. b \in Seq(Tokens) /\ Len(b) = q /\ q \in Nat
  BY ArrivedIs
<1>4. M.url = KeptUrl(doc.url)
  <2> HIDE DEF u, M
  <2>1. u \in 2..q /\ (Stands(b, u, doc, "url") \/ b[u] = Comma)
    BY <1>1, <1>2, FoundField DEF u
  <2>2. b[u] # Comma
    <3>1. u \in 1..Len(b)
      BY <2>1, <1>3
    <3> QED BY <3>1, <1>1, <1>3, NothingRead
  <2> QED BY <2>1, <2>2, <1>1, StringWhole
<1>5. v \in 2..q /\ (Stands(b, v, doc, "version") \/ b[v] = Comma)
  <2>1. v # 0
    BY <1>1
  <2> HIDE DEF v
  <2> QED BY <2>1, <1>2, FoundField DEF v
<1>6. M.version = ValueOf(D)
  BY <1>1 DEF ParseUint
<1>7. CASE Stands(b, v, doc, "version")
  <2>1. D = SubSeq(d, 1, Smallest(r, Len(d)))
    <3> HIDE DEF v
    <3> QED BY <1>7, <1>2, <1>5, NumberRead
  <2>2. Smallest(r, Len(d)) \in 0..Len(d)
    <3> HIDE DEF d, v
    <3> QED BY <1>2, <1>3, <1>5 DEF Smallest
  <2> HIDE DEF D, r, d, v, u, M
  <2>3. \E m \in 0..Len(d) : M.version = ValueOf(SubSeq(d, 1, m))
    BY <2>1, <2>2, <1>6
  <2> QED BY <2>3, <1>4 DEF M, d
<1>8. CASE b[v] = Comma
  <2>1. D = <<>>
    <3> HIDE DEF v
    <3>1. v \in 1..Len(b)
      BY <1>3, <1>5
    <3> QED BY <3>1, <1>3, <1>8, NothingRead
  <2>2. SubSeq(d, 1, 0) = <<>> /\ 0 \in 0..Len(d)
    BY <1>2, SubSeqEmpty
  <2> HIDE DEF D, r, d, v, u, M
  <2>3. \E m \in 0..Len(d) : M.version = ValueOf(SubSeq(d, 1, m))
    BY <2>1, <2>2, <1>6
  <2> QED BY <2>3, <1>4 DEF M, d
<1> QED BY <1>5, <1>7, <1>8

\* Neither the numbers nor the URL of the manifest are empty.
Filled(doc) == doc.version # <<>> /\ doc.device_type # <<>> /\ doc.url # <<>>

(* The field of a whole document is found, and all of it is there, unless  *)
(* a value misleads the parser.                                            *)
LEMMA FieldIsThere ==
  ASSUME NEW doc \in Documents, ~Misleads(doc), NEW f \in Keys, f \in ToSet(doc.order),
         NEW b, b = Arrived(doc, Len(Body(doc))), NEW v, v = FindValue(b, f)
  PROVE  /\ v # 0 /\ v \in 2..Len(Body(doc)) /\ Stands(b, v, doc, f)
         /\ Len(Body(doc)) - v > Len(doc[f]) - 1
         /\ f \notin Numbers => Len(Body(doc)) - v > Len(doc[f])
<1> DEFINE B == Body(doc)
           q == Len(B)
           F == FieldTokens(doc, f)
           n == Len(doc[f])
<1>1. B \in Seq(Tokens) /\ q \in Nat
  BY BodyLaidOut, LenProperties
<1>2. b \in Seq(Tokens) /\ Len(b) = q /\ \A i \in 1..q : b[i] = B[i]
  <2>1. q \in 0..Len(Body(doc))
    BY <1>1
  <2> QED BY <2>1, ArrivedIs
<1>3. /\ n \in Nat /\ F[1] = Key(f)
      /\ Len(F) = IF f \in Numbers THEN n + 2 ELSE n + 4
  BY FieldLaidOut
<1>4. PICK i \in DOMAIN doc.order : doc.order[i] = f
  BY DEF ToSet
<1>5. PICK o \in Nat : Holds(B, o, F)
  BY <1>4, BodyLaidOut
<1> HIDE DEF F, n, q
<1>6. o + Len(F) <= q /\ B[o + 1] = Key(f)
  BY <1>3, <1>5 DEF Holds, q
<1>7. o + 1 \in 1..(q - 1) /\ o + 1 \in 1..q
  BY <1>1, <1>3, <1>6
<1>8. v # 0
  <2>1. b[o + 1] = Key(f) /\ o + 1 \in 1..(Len(b) - 1)
    BY <1>2, <1>6, <1>7
  <2> QED BY <2>1, <1>2, FindsKey
<1>9. v \in 2..q /\ Stands(b, v, doc, f) /\ (v - 2) + Len(F) <= q
  <2>1. q \in 0..Len(Body(doc)) /\ b = Arrived(doc, q)
    BY <1>1 DEF q
  <2>2. v \in 2..q /\ Stands(b, v, doc, f)
    BY <2>1, <1>8, FoundField
  <2> QED BY <2>2 DEF Stands, F, q
<1>10. q - v > n - 1 /\ (f \notin Numbers => q - v > n)
  BY <1>1, <1>3, <1>9
<1> QED BY <1>8, <1>9, <1>10 DEF q, n

LEMMA WholeNumber ==
  ASSUME NEW doc \in Documents, ~Misleads(doc), NEW f \in Numbers, f \in ToSet(doc.order),
         NEW b, b = Arrived(doc, Len(Body(doc)))
  PROVE  NumbersOf(RunOf(b, FindValue(b, f), "digit")) = doc[f]
<1> DEFINE q == Len(Body(doc))
           v == FindValue(b, f)
           d == doc[f]
           r == q - v + 1
<1>1. f \in Keys /\ d \in Seq(Nat) /\ Len(d) \in Nat
  BY DocumentsAssumption, LenProperties DEF Keys, Numbers
<1>2. q \in Nat /\ q \in 0..Len(Body(doc)) /\ b = Arrived(doc, q)
  BY BodyLaidOut, LenProperties
<1>3. v \in 2..q /\ Stands(b, v, doc, f) /\ q - v > Len(d) - 1
  BY <1>1, FieldIsThere
<1> HIDE DEF q, v
<1>4. NumbersOf(RunOf(b, v, "digit")) = SubSeq(d, 1, Smallest(r, Len(d)))
  BY <1>2, <1>3, NumberRead
<1> HIDE DEF d
<1>5. Smallest(r, Len(d)) = Len(d)
  BY <1>1, <1>2, <1>3 DEF Smallest
<1>6. SubSeq(d, 1, Len(d)) = d
  BY <1>1, SubSeqFull
<1> QED BY <1>4, <1>5, <1>6 DEF v, d

(* A whole manifest, its fields not empty, is read for what it says.       *)
LEMMA ManifestWhole ==
  ASSUME NEW doc \in Documents, Filled(doc), ~Misleads(doc),
         {"version", "device_type", "url"} \subseteq ToSet(doc.order),
         NEW b, b = Arrived(doc, Len(Body(doc)))
  PROVE  /\ Manifest(b).ok /\ Manifest(b).version = ValueOf(doc.version)
         /\ Manifest(b).device_type = ValueOf(doc.device_type)
<1> DEFINE v == FindValue(b, "version")
           t == FindValue(b, "device_type")
           u == FindValue(b, "url")
           d == doc.url
<1>1. /\ "version" \in Keys /\ "device_type" \in Keys /\ "url" \in Keys
      /\ "version" \in Numbers /\ "device_type" \in Numbers /\ "url" \notin Numbers
      /\ d \in Seq(Nat) /\ Len(d) \in Nat
  BY DocumentsAssumption, LenProperties DEF Keys, Numbers
<1>2. /\ v # 0 /\ t # 0 /\ u # 0 /\ Len(Body(doc)) - u > Len(d)
      /\ u \in 2..Len(Body(doc)) /\ Stands(b, u, doc, "url")
  BY <1>1, FieldIsThere
<1>3. ParseUint(b, v).ok /\ ParseUint(b, v).value = ValueOf(doc.version)
  <2>1. NumbersOf(RunOf(b, v, "digit")) = doc.version
    BY <1>1, WholeNumber
  <2> QED BY <2>1 DEF ParseUint, Filled
<1>4. ParseUint(b, t).ok /\ ParseUint(b, t).value = ValueOf(doc.device_type)
  <2>1. NumbersOf(RunOf(b, t, "digit")) = doc.device_type
    BY <1>1, WholeNumber
  <2> QED BY <2>1 DEF ParseUint, Filled
<1>5. CopyString(b, u, UrlMax).ok /\ CopyString(b, u, UrlMax).value = KeptUrl(d)
  <2>1. Len(Body(doc)) \in 0..Len(Body(doc))
    BY BodyLaidOut, LenProperties
  <2> HIDE DEF u
  <2> QED BY <2>1, <1>2, StringWhole
<1>6. KeptUrl(d) # <<>>
  <2> DEFINE k == IF Len(d) < UrlMax THEN Len(d) ELSE UrlMax - 1
             X == Nat
  <2>1. Len(d) # 0
    BY <1>1, EmptySeq DEF Filled
  <2>2. d \in Seq(X)
    BY <1>1
  <2> HIDE DEF d, X
  <2>3. k \in 0..Len(d) /\ k # 0
    BY <2>1, <1>1, SizesAssumption
  <2> HIDE DEF k
  <2>4. Len(SubSeq(d, 1, k)) = k
    BY <2>2, <2>3, Prefix
  <2>5. SubSeq(d, 1, k) # <<>>
    BY <2>3, <2>4
  <2> QED BY <2>5 DEF KeptUrl, k
<1> HIDE DEF v, t, u, d
<1> QED BY <1>2, <1>3, <1>4, <1>5, <1>6 DEF Manifest, v, t, u

(* What checkForUpdate() reports stays in the width of its fields.         *)
LEMMA ManifestType ==
  ASSUME NEW doc \in Documents, NEW q \in 0..Len(Body(doc)),
         NEW b, b = Arrived(doc, q)
  PROVE  /\ Manifest(b).version \in 0..(WordSize - 1)
         /\ Len(Manifest(b).url) < UrlMax
<1>1. CASE Manifest(b).ok
  <2> DEFINE d == doc.version
             w == doc.url
             k == IF Len(w) < UrlMax THEN Len(w) ELSE UrlMax - 1
             X == Nat
  <2>1. PICK m \in 0..Len(d) : Manifest(b).version = ValueOf(SubSeq(d, 1, m))
    BY <1>1, ManifestReads
  <2>2. Manifest(b).url = SubSeq(w, 1, k)
    BY <1>1, ManifestReads DEF KeptUrl
  <2>3. d \in Seq(Nat) /\ w \in Seq(X) /\ Len(w) \in Nat
    BY DocumentsAssumption, LenProperties DEF Keys
  <2>4. ValueOf(SubSeq(d, 1, m)) \in 0..(WordSize - 1)
    BY <2>3, ValueOfPrefix
  <2> HIDE DEF w, X
  <2>5. k \in 0..Len(w) /\ k < UrlMax
    BY <2>3, SizesAssumption
  <2> HIDE DEF k
  <2>6. Len(SubSeq(w, 1, k)) = k
    BY <2>3, <2>5, Prefix
  <2> QED BY <2>1, <2>2, <2>4, <2>5, <2>6
<1>2. CASE ~Manifest(b).ok
  <2>1. Manifest(b).version = 0 /\ Manifest(b).url = <<>>
    BY <1>2 DEF Manifest
  <2> QED BY <2>1, SizesAssumption
<1> QED BY <1>1, <1>2

(***************************************************************************)
(* The check, step by step.                                                *)
(***************************************************************************)

LEMMA PrefixOfPrefix ==
  ASSUME NEW X, NEW s \in Seq(X), NEW n \in 0..Len(s), NEW m \in 0..n
  PROVE  SubSeq(SubSeq(s, 1, n), 1, m) = SubSeq(s, 1, m)
<1> DEFINE t == SubSeq(s, 1, n)
           u == SubSeq(t, 1, m)
           w == SubSeq(s, 1, m)
<1>1. Len(s) \in Nat /\ m \in 0..Len(s) /\ \A i \in 1..m : i \in 1..n
  BY LenProperties
<1>2. t \in Seq(X) /\ Len(t) = n /\ \A i \in 1..n : t[i] = s[i]
  BY Prefix
<1> HIDE DEF t
<1>3. u \in Seq(X) /\ Len(u) = m /\ \A i \in 1..m : u[i] = t[i]
  BY <1>2, Prefix
<1>4. w \in Seq(X) /\ Len(w) = m /\ \A i \in 1..m : w[i] = s[i]
  BY <1>1, Prefix
<1> HIDE DEF u, w
<1>5. \A i \in 1..Len(u) : u[i] = w[i]
  BY <1>1, <1>2, <1>3, <1>4
<1>6. u = w
  BY <1>3, <1>4, <1>5, SeqEqual
<1> QED BY <1>6 DEF t, u, w

(* One more chunk of the document: what is kept is still its beginning.    *)
LEMMA KeepsArriving ==
  ASSUME NEW doc \in Documents, NEW a \in 0..Len(Body(doc)), NEW n \in Nat,
         a + n <= Len(Body(doc))
  PROVE  Kept(Arrived(doc, Smallest(BufSize, a)), SubSeq(Body(doc), a + 1, a + n))
           = Arrived(doc, Smallest(BufSize, a + n))
<1> DEFINE B == Body(doc)
           s == SubSeq(B, 1, a)
           c == SubSeq(B, a + 1, a + n)
           b == SubSeq(B, 1, Smallest(BufSize, a))
           X == Tokens
<1>1. B \in Seq(X) /\ Len(B) \in Nat /\ a \in 0..Len(B) /\ a + n \in 0..Len(B)
  BY BodyLaidOut, LenProperties
<1>2. BufSize \in Nat
  BY SizesAssumption
<1> HIDE DEF B, X
<1>3. s \in Seq(X) /\ Len(s) = a
  BY <1>1, Prefix
<1>4. c \in Seq(X)
  <2>1. \A i \in (a + 1)..(a + n) : B[i] \in X
    BY <1>1, ElementOfSeq
  <2>2. a + 1 \in Int /\ a + n \in Int
    BY <1>1
  <2> QED BY <2>1, <2>2, SubSeqProperties
<1>5. s \o c = SubSeq(B, 1, a + n)
  <2>1. 1 \in 1..Len(B) + 1 /\ a \in 1 - 1..Len(B) /\ a + n \in a..Len(B)
    BY <1>1
  <2> QED BY <2>1, <1>1, ConcatAdjacentSubSeq
<1>6. Len(s \o c) = a + n
  BY <1>1, <1>5, Prefix
<1>7. Smallest(BufSize, a) \in 0..a /\ Smallest(BufSize, a + n) \in 0..(a + n)
  BY <1>1, <1>2 DEF Smallest
<1>8. b = SubSeq(s, 1, Smallest(BufSize, Len(s)))
  BY <1>1, <1>3, <1>7, PrefixOfPrefix
<1> HIDE DEF s, c, b
<1>9. Topped(b, c, BufSize) = SubSeq(s \o c, 1, Smallest(BufSize, Len(s \o c)))
  BY <1>2, <1>3, <1>4, <1>8, PrefixGrows
<1>10. SubSeq(s \o c, 1, Smallest(BufSize, a + n)) = SubSeq(B, 1, Smallest(BufSize, a + n))
  BY <1>1, <1>5, <1>7, PrefixOfPrefix
<1>11. Kept(b, c) = Topped(b, c, BufSize)
  BY DEF Kept, Topped
<1> QED BY <1>6, <1>9, <1>10, <1>11 DEF Arrived, B, b, c

CheckShape ==
  /\ phase \in {"idle", "fetching"}
  /\ config \in [transport : BOOLEAN, manifest_url : BOOLEAN, device_type : DeviceTypes]
  /\ current \in Versions
  /\ served \in Documents
  /\ sent \in 0..Len(Body(served))

\* What of the document is in the buffer, or was when the request ended.
Got == Arrived(served, Smallest(BufSize, sent))

\* The buffer holds the beginning of the document, as much as came and fits.
Fetching ==
  /\ phase = "fetching" => buf = Got
  /\ phase = "idle" => buf = <<>>

\* A result is one that needed no manifest, or the judgement of what came.
Reported ==
  \/ \E s \in {"NONE", "HTTP_FAIL", "NO_TRANSPORT"} :
       out = Result(s, NoManifest) /\ (s = "NO_TRANSPORT" => ~config.transport)
  \/ phase = "idle" /\ out = Judged(Manifest(Got))

CheckInv == CheckShape /\ Fetching /\ Reported

LEMMA CheckInit == Init => CheckInv
<1> SUFFICES ASSUME Init PROVE CheckInv
  OBVIOUS
<1>1. served \in Documents
  BY DocumentsAssumption DEF Init
<1>2. Len(Body(served)) \in Nat
  BY <1>1, BodyLaidOut, LenProperties
<1>3. config \in [transport : BOOLEAN, manifest_url : BOOLEAN, device_type : DeviceTypes]
  <2>1. config \in [transport : {FALSE}, manifest_url : {FALSE}, device_type : DeviceTypes]
    BY DEF Init
  <2> QED BY <2>1
<1>4. CheckShape
  BY <1>1, <1>2, <1>3 DEF Init, CheckShape
<1>5. Fetching
  BY DEF Init, Fetching
<1>6. Reported
  BY DEF Init, Reported
<1> QED BY <1>4, <1>5, <1>6 DEF CheckInv

LEMMA CheckShapeStep == CheckShape /\ [Next]_vars => CheckShape'
<1> SUFFICES ASSUME CheckShape, [Next]_vars PROVE CheckShape'
  OBVIOUS
<1> DEFINE Configs == [transport : BOOLEAN, manifest_url : BOOLEAN, device_type : DeviceTypes]
<1>1. CASE Configure
  <2>1. config' \in Configs
    <3>1. config \in Configs
      BY DEF CheckShape
    <3>2. CASE config' = [config EXCEPT !.transport = TRUE]
      BY <3>1, <3>2
    <3>3. CASE config' = [config EXCEPT !.manifest_url = TRUE]
      BY <3>1, <3>3
    <3>4. CASE \E t \in DeviceTypes : config' = [config EXCEPT !.device_type = t]
      BY <3>1, <3>4
    <3> QED BY <1>1, <3>2, <3>3, <3>4 DEF Configure
  <2> QED BY <2>1, <1>1 DEF Configure, CheckShape
<1>2. CASE CheckUnconfigured
  BY <1>2 DEF CheckUnconfigured, CheckShape
<1>3. ASSUME NEW doc \in Documents, NEW v \in Versions, Check(doc, v) PROVE CheckShape'
  <2>1. Len(Body(doc)) \in Nat
    BY BodyLaidOut, LenProperties
  <2> QED BY <2>1, <1>3 DEF Check, CheckShape
<1>4. ASSUME NEW n \in ChunkSizes, Chunk(n) PROVE CheckShape'
  <2>1. n \in Nat /\ Len(Body(served)) \in Nat
    BY SizesAssumption, BodyLaidOut, LenProperties DEF CheckShape
  <2>2. sent' \in 0..Len(Body(served)) /\ served' = served
    BY <2>1, <1>4 DEF Chunk, CheckShape
  <2> QED BY <2>2, <1>4 DEF Chunk, CheckShape
<1>5. CASE Answered
  BY <1>5 DEF Answered, CheckShape
<1>6. CASE Refused
  BY <1>6 DEF Refused, CheckShape
<1>7. CASE UNCHANGED vars
  BY <1>7 DEF vars, CheckShape
<1> QED BY <1>1, <1>2, <1>3, <1>4, <1>5, <1>6, <1>7 DEF Next

LEMMA FetchingStep == CheckInv /\ [Next]_vars => Fetching'
<1> SUFFICES ASSUME CheckInv, [Next]_vars PROVE Fetching'
  OBVIOUS
<1> USE DEF CheckInv
<1>1. CASE Configure
  BY <1>1 DEF Configure, Fetching
<1>2. CASE CheckUnconfigured
  BY <1>2 DEF CheckUnconfigured, Fetching
<1>3. ASSUME NEW doc \in Documents, NEW v \in Versions, Check(doc, v) PROVE Fetching'
  <2>1. Smallest(BufSize, 0) = 0
    BY SizesAssumption DEF Smallest
  <2>2. SubSeq(Body(doc), 1, 0) = <<>>
    BY BodyLaidOut, SubSeqEmpty
  <2> QED BY <2>1, <2>2, <1>3 DEF Check, Fetching, Got, Arrived
<1>4. ASSUME NEW n \in ChunkSizes, Chunk(n) PROVE Fetching'
  <2>1. n \in Nat /\ served \in Documents /\ sent \in 0..Len(Body(served))
    BY SizesAssumption DEF CheckShape
  <2>2. sent + n <= Len(Body(served)) /\ buf = Arrived(served, Smallest(BufSize, sent))
    BY <1>4 DEF Chunk, Fetching, Got
  <2>3. /\ buf' = Kept(buf, SubSeq(Body(served), sent + 1, sent + n))
        /\ sent' = sent + n /\ served' = served /\ phase' = "fetching"
    BY <1>4 DEF Chunk
  <2>4. buf' = Arrived(served, Smallest(BufSize, sent + n))
    BY <2>1, <2>2, <2>3, KeepsArriving
  <2> QED BY <2>3, <2>4 DEF Fetching, Got
<1>5. CASE Answered
  BY <1>5 DEF Answered, Fetching
<1>6. CASE Refused
  BY <1>6 DEF Refused, Fetching
<1>7. CASE UNCHANGED vars
  BY <1>7 DEF vars, Fetching, Got
<1> QED BY <1>1, <1>2, <1>3, <1>4, <1>5, <1>6, <1>7 DEF Next

LEMMA ReportedStep == CheckInv /\ [Next]_vars => Reported'
<1> SUFFICES ASSUME CheckInv, [Next]_vars PROVE Reported'
  OBVIOUS
<1> USE DEF CheckInv
<1>1. CASE Configure
  BY <1>1 DEF Configure, Reported
<1>2. CASE CheckUnconfigured
  BY <1>2 DEF CheckUnconfigured, Reported
<1>3. ASSUME NEW doc \in Documents, NEW v \in Versions, Check(doc, v) PROVE Reported'
  BY <1>3 DEF Check, Reported
<1>4. ASSUME NEW n \in ChunkSizes, Chunk(n) PROVE Reported'
  BY <1>4 DEF Chunk, Reported
<1>5. CASE Answered
  <2>1. out' = Judged(Manifest(Got)) /\ phase' = "idle"
    BY <1>5 DEF Answered, Fetching
  <2>2. /\ config' = config /\ current' = current /\ served' = served /\ sent' = sent
    BY <1>5 DEF Answered
  <2>3. Got' = Got
    BY <2>2 DEF Got
  <2>4. Judged(Manifest(Got))' = Judged(Manifest(Got))
    BY <2>2, <2>3 DEF Judged, Newer
  <2> QED BY <2>1, <2>4 DEF Reported
<1>6. CASE Refused
  BY <1>6 DEF Refused, Reported
<1>7. CASE UNCHANGED vars
  <2>1. /\ config' = config /\ current' = current /\ served' = served /\ sent' = sent
        /\ out' = out /\ phase' = phase
    BY <1>7 DEF vars
  <2>2. Got' = Got
    BY <2>1 DEF Got
  <2>3. Judged(Manifest(Got))' = Judged(Manifest(Got))
    BY <2>1, <2>2 DEF Judged, Newer
  <2> QED BY <2>1, <2>3 DEF Reported
<1> QED BY <1>1, <1>2, <1>3, <1>4, <1>5, <1>6, <1>7 DEF Next

LEMMA CheckInvariant == Spec => []CheckInv
<1>1. CheckInv /\ [Next]_vars => CheckInv'
  BY CheckShapeStep, FetchingStep, ReportedStep DEF CheckInv
<1> QED BY <1>1, CheckInit, PTL DEF Spec

\* How much of the document is in the buffer, or was when the request ended.
Came == Smallest(BufSize, sent)

LEMMA CameIs ==
  CheckInv => /\ Came \in 0..Len(Body(served)) /\ Came \in Nat /\ Came <= BufSize
              /\ Got = Arrived(served, Came)
<1> SUFFICES ASSUME CheckInv
             PROVE  /\ Came \in 0..Len(Body(served)) /\ Came \in Nat /\ Came <= BufSize
                    /\ Got = Arrived(served, Came)
  OBVIOUS
<1>1. served \in Documents /\ sent \in 0..Len(Body(served))
  BY DEF CheckInv, CheckShape
<1>2. Len(Body(served)) \in Nat
  BY <1>1, BodyLaidOut, LenProperties
<1>3. BufSize \in Nat
  BY SizesAssumption
<1>4. Came \in 0..Len(Body(served)) /\ Came \in Nat /\ Came <= BufSize
  BY <1>1, <1>2, <1>3 DEF Came, Smallest
<1> QED BY <1>4 DEF Got, Came

(* What every judgement has in common. *)
LEMMA JudgedIs ==
  ASSUME NEW m
  PROVE  /\ Judged(m).update_available <=>
              m.ok /\ m.device_type = config.device_type /\ m.version > current
         /\ Judged(m).status \in {"UPDATE_AVAILABLE", "UP_TO_DATE", "WRONG_DEVICE", "PARSE_FAIL"}
         /\ Judged(m).version = IF m.ok THEN m.version ELSE 0
         /\ Judged(m).url = IF m.ok THEN m.url ELSE <<>>
<1>1. CASE ~m.ok
  BY <1>1 DEF Judged, Result, NoManifest
<1>2. CASE m.ok /\ m.device_type # config.device_type
  BY <1>2 DEF Judged, Result
<1>3. CASE m.ok /\ m.device_type = config.device_type /\ ~Newer(m)
  BY <1>3 DEF Judged, Result, Newer
<1>4. CASE m.ok /\ m.device_type = config.device_type /\ Newer(m)
  BY <1>4 DEF Judged, Result, Newer
<1> QED BY <1>1, <1>2, <1>3, <1>4

LEMMA PlainIs ==
  \A s \in {"NONE", "HTTP_FAIL", "NO_TRANSPORT"} :
    /\ Result(s, NoManifest).status = s /\ ~Result(s, NoManifest).update_available
    /\ Result(s, NoManifest).version = 0 /\ Result(s, NoManifest).url = <<>>
BY DEF Result, NoManifest

(* An update is offered only on a manifest that parsed.                    *)
LEMMA Offered ==
  CheckInv /\ out.update_available =>
    /\ Manifest(Got).ok /\ Manifest(Got).version > current
    /\ out.url = Manifest(Got).url
<1> SUFFICES ASSUME CheckInv, out.update_available
             PROVE  /\ Manifest(Got).ok /\ Manifest(Got).version > current
                    /\ out.url = Manifest(Got).url
  OBVIOUS
<1>1. out = Judged(Manifest(Got))
  <2>1. ASSUME NEW s \in {"NONE", "HTTP_FAIL", "NO_TRANSPORT"}, out = Result(s, NoManifest)
        PROVE  FALSE
    BY <2>1, PlainIs
  <2> QED BY <2>1 DEF CheckInv, Reported
<1> DEFINE m == Manifest(Got)
<1> HIDE DEF m
<1>2. out = Judged(m)
  BY <1>1 DEF m
<1>3. m.ok /\ m.version > current /\ out.url = m.url
  BY <1>2, JudgedIs
<1> QED BY <1>3 DEF m

(* The update check keeps its state in the domains it declares, and what   *)
(* it reports in the width of the fields, whatever the server sends and    *)
(* however the transport delivers it.                                      *)
THEOREM TypeCorrect == Spec => []TypeOK
<1>1. CheckInv => TypeOK
  <2> SUFFICES ASSUME CheckInv PROVE TypeOK
    OBVIOUS
  <2> DEFINE m == Manifest(Got)
  <2>1. CheckShape
    BY DEF CheckInv
  <2>2. served \in Documents
    BY <2>1 DEF CheckShape
  <2>3. Len(buf) <= BufSize
    <3>1. CASE phase = "fetching"
      <4>1. Len(Got) = Came /\ Came <= BufSize
        BY <2>2, CameIs, ArrivedIs
      <4> QED BY <3>1, <4>1 DEF CheckInv, Fetching
    <3>2. CASE phase = "idle"
      BY <3>2, SizesAssumption DEF CheckInv, Fetching
    <3> QED BY <2>1, <3>1, <3>2 DEF CheckShape
  <2>4. m.version \in 0..(WordSize - 1) /\ Len(m.url) < UrlMax
    BY <2>2, CameIs, ManifestType
  <2> HIDE DEF m
  <2>5. /\ out.status \in {"NONE", "UPDATE_AVAILABLE", "UP_TO_DATE", "WRONG_DEVICE",
                           "HTTP_FAIL", "PARSE_FAIL", "NO_TRANSPORT"}
        /\ out.version \in 0..(WordSize - 1)
        /\ Len(out.url) < UrlMax
    <3>1. CASE \E s \in {"NONE", "HTTP_FAIL", "NO_TRANSPORT"} : out = Result(s, NoManifest)
      BY <3>1, PlainIs, SizesAssumption
    <3>2. CASE out = Judged(m)
      <4>1. 0 \in 0..(WordSize - 1) /\ Len(<<>>) < UrlMax
        BY SizesAssumption
      <4> QED BY <3>2, <2>4, <4>1, JudgedIs
    <3> QED BY <3>1, <3>2 DEF CheckInv, Reported, m
  <2> QED BY <2>1, <2>3, <2>5 DEF TypeOK, CheckShape
<1> QED BY <1>1, CheckInvariant, PTL

\* The numbers the server publishes fit the parser's 32-bit accumulator.
NumbersFit == \A doc \in Documents : NeverWraps(doc.version)

(* Wherever the transfer was cut, an update is offered only when the whole *)
(* manifest advertises a newer version: the digits that were lost could    *)
(* only have made it larger.  A version that overflows parse_uint() is the *)
(* exception the hypothesis names.                                         *)
THEOREM OffersAreNewer == NumbersFit => (Spec => []OfferIsNewer)
<1> SUFFICES ASSUME NumbersFit PROVE Spec => []OfferIsNewer
  OBVIOUS
<1>1. CheckInv => OfferIsNewer
  <2> SUFFICES ASSUME CheckInv, out.update_available
               PROVE  ValueOf(served.version) > current
    BY DEF OfferIsNewer
  <2> DEFINE d == served.version
  <2>1. served \in Documents /\ current \in Nat
    BY SizesAssumption DEF CheckInv, CheckShape
  <2>2. d \in Seq(Nat) /\ Len(d) \in Nat /\ Len(d) \in 0..Len(d)
    <3>1. "version" \in Keys
      BY DEF Keys
    <3>2. served["version"] \in Seq(Nat)
      BY <2>1, <3>1, DocumentsAssumption
    <3>3. d \in Seq(Nat)
      BY <3>2
    <3> HIDE DEF d
    <3> QED BY <3>3, LenProperties
  <2>3. PICK k \in 0..Len(d) : Manifest(Got).version = ValueOf(SubSeq(d, 1, k))
    BY <2>1, CameIs, Offered, ManifestReads
  <2>4. Manifest(Got).version > current
    BY Offered
  <2>5. NeverWraps(d)
    BY <2>1 DEF NumbersFit
  <2>6. SubSeq(d, 1, Len(d)) = d
    BY <2>2, SubSeqFull
  <2> HIDE DEF d
  <2>7. /\ ValueOf(SubSeq(d, 1, k)) \in 0..(WordSize - 1)
        /\ ValueOf(SubSeq(d, 1, k)) <= ValueOf(d)
    BY <2>2, <2>5, ValueOfPrefix
  <2>8. ValueOf(SubSeq(d, 1, Len(d))) \in 0..(WordSize - 1)
    BY <2>2, ValueOfPrefix
  <2>9. ValueOf(d) \in 0..(WordSize - 1)
    BY <2>6, <2>8
  <2>10. ValueOf(d) > current
    BY <2>1, <2>3, <2>4, <2>7, <2>9, SizesAssumption
  <2> QED BY <2>10 DEF d
<1> QED BY <1>1, CheckInvariant, PTL

(* Wherever the transfer was cut, the URL of an offer is the one that was  *)
(* published, and not a torn half of it; one the result has no room for is *)
(* shortened to what fits, and no other is.                                *)
THEOREM OfferedUrlsAreUntorn == Spec => []OfferUrlIsUntorn
<1>1. CheckInv => OfferUrlIsUntorn
  <2> SUFFICES ASSUME CheckInv, out.update_available
               PROVE  /\ Len(served.url) < UrlMax => out.url = served.url
                      /\ Len(served.url) >= UrlMax => out.url = SubSeq(served.url, 1, UrlMax - 1)
    BY DEF OfferUrlIsUntorn
  <2> DEFINE w == served.url
             X == Nat
  <2>1. served \in Documents
    BY DEF CheckInv, CheckShape
  <2>2. out.url = KeptUrl(w)
    BY <2>1, CameIs, Offered, ManifestReads
  <2>3. w \in Seq(X) /\ Len(w) \in Nat /\ UrlMax \in Nat
    BY <2>1, DocumentsAssumption, LenProperties, SizesAssumption DEF Keys
  <2> HIDE DEF w, X
  <2>4. SubSeq(w, 1, Len(w)) = w
    BY <2>3, SubSeqFull
  <2>5. /\ Len(w) < UrlMax => out.url = w
        /\ Len(w) >= UrlMax => out.url = SubSeq(w, 1, UrlMax - 1)
    BY <2>2, <2>3, <2>4 DEF KeptUrl
  <2> QED BY <2>5 DEF w
<1> QED BY <1>1, CheckInvariant, PTL

\* What the server publishes has room in the result.
UrlsFit == \A doc \in Documents : Len(doc.url) < UrlMax

\* The URL of an offer is the URL of the document, to the last character.
OfferUrlIsWhole == Judgement /\ out.update_available => out.url = served.url

(* As long as what is published is shorter than ILABS_FOTA_URL_MAX, the    *)
(* URL of an offer is all of the document's URL: no cut of the transfer    *)
(* yields an update from another place.                                    *)
THEOREM OfferedUrlsAreWhole == UrlsFit => (Spec => []OfferUrlIsWhole)
<1> SUFFICES ASSUME UrlsFit PROVE Spec => []OfferUrlIsWhole
  OBVIOUS
<1>1. CheckInv /\ OfferUrlIsUntorn => OfferUrlIsWhole
  BY DEF UrlsFit, CheckInv, CheckShape, OfferUrlIsUntorn, OfferUrlIsWhole
<1> QED BY <1>1, CheckInvariant, OfferedUrlsAreUntorn, PTL

(* A manifest that came whole and fits the buffer is judged by what it     *)
(* says, for every document whose fields are not empty and none of whose   *)
(* values spells a key that comes later.                                   *)
THEOREM WholeManifestsAreJudged ==
  (\A doc \in Documents : Filled(doc)) => (Spec => []WholeManifestIsJudged)
<1> SUFFICES ASSUME \A doc \in Documents : Filled(doc)
             PROVE  Spec => []WholeManifestIsJudged
  OBVIOUS
<1>1. CheckInv => WholeManifestIsJudged
  <2> DEFINE m == Manifest(Got)
             v == ValueOf(served.version)
             t == ValueOf(served.device_type)
  <2> SUFFICES ASSUME CheckInv, Judgement, out.status # "HTTP_FAIL",
                      config.transport, config.manifest_url,
                      sent = Len(Body(served)), sent <= BufSize,
                      Required \subseteq ToSet(served.order),
                      ~Misleads(served)
               PROVE  out.update_available <=> v > current /\ t = config.device_type
    BY DEF WholeManifestIsJudged
  <2>1. served \in Documents
    BY DEF CheckInv, CheckShape
  <2>2. Len(Body(served)) \in Nat
    BY <2>1, BodyLaidOut, LenProperties
  <2>3. Came = Len(Body(served))
    BY <2>2, SizesAssumption DEF Came, Smallest
  <2>4. Got = Arrived(served, Len(Body(served)))
    BY <2>3, CameIs
  <2>5. m.ok /\ m.version = v /\ m.device_type = t
    BY <2>1, <2>4, ManifestWhole DEF Required
  <2> HIDE DEF m, v, t
  <2>6. CASE out = Judged(m)
    BY <2>5, <2>6, JudgedIs
  <2>7. ASSUME NEW s \in {"NONE", "HTTP_FAIL", "NO_TRANSPORT"}, out = Result(s, NoManifest),
               s = "NO_TRANSPORT" => ~config.transport
        PROVE  FALSE
    <3>1. out.status = s
      BY <2>7, PlainIs
    <3> QED BY <2>7, <3>1 DEF Judgement
  <2> QED BY <2>6, <2>7 DEF CheckInv, Reported, m
<1> QED BY <1>1, CheckInvariant, PTL
=============================================================================
