-------------------------- MODULE LogUploadProofs --------------------------
(***************************************************************************)
(* The log upload for any chunk, cap and attempt limits and any mixture of *)
(* faults.  The invariant ties the run's relative offsets to the store's   *)
(* absolute ones: while a member is being read, compressed or sent, it     *)
(* starts right at the high-water and ends inside the log, because the     *)
(* frozen store cannot slide its offsets.                                  *)
(***************************************************************************)
EXTENDS LogUpload, TLAPS

Sending == {"read", "compress", "post", "reply"}

Aim ==
  /\ pc \notin {"idle", "begin"} => first + end <= written
  /\ pc \in Sending => /\ first + start = mark
                       /\ 1 <= try /\ try <= take /\ mark + take <= written
  /\ attempt < MaxAttempts

(* What is archived beyond the high-water is in doubt, or is the member    *)
(* whose confirmation is on its way.                                       *)
Beyond ==
  \A b \in archived :
    mark < b => b \in doubted \/ (pc = "reply" /\ b <= mark + try)

Archive ==
  /\ MarkedIsArchived
  /\ OnlyDoubtedRepeat
  /\ Beyond
  /\ pc = "reply" => InFlight \subseteq archived

IInv == TypeOK /\ FrozenWhileReading /\ MemberFits /\ Aim /\ Archive

-----------------------------------------------------------------------------
(* The arithmetic of shrinking. *)

LEMMA CapFacts == MemberCap \in Nat /\ MaxOut(MinRaw) <= MemberCap
BY UploadAssumption DEF MemberCap, MaxOut

(* A shrunk chunk is shorter than the one that did not fit, and not below  *)
(* MIN_RAW.                                                                *)
LEMMA ShrunkBounds ==
  ASSUME NEW n \in Nat, MinRaw < n, NEW s \in Nat, 0 < s
  PROVE  Shrunk(n, s) \in 1..(n - 1)
<1>1. MinRaw \in Nat /\ 1 <= MinRaw
  BY UploadAssumption
<1>2. Proportional(n, s) \in Int
  <2> DEFINE product == n * MemberCap
  <2>1. product \in Int
    BY CapFacts
  <2> HIDE DEF product
  <2>2. product * 97 \in Int /\ s * 100 \in Int /\ 0 < s * 100
    BY <2>1
  <2>3. (product * 97) \div (s * 100) \in Int
    BY <2>2
  <2> QED BY <2>3 DEF Proportional, product
<1> DEFINE p == Proportional(n, s)
<1>3. p \in Int
  BY <1>2
<1> HIDE DEF p
<1>4. Larger(MinRaw, Smaller(n - 1, p)) \in 1..(n - 1)
  BY <1>1, <1>3 DEF Smaller, Larger
<1> QED BY <1>4 DEF Shrunk, p

(* A member made of at most MIN_RAW bytes fits. *)
LEMMA FloorFits ==
  ASSUME NEW n \in Nat, n <= MinRaw
  PROVE  MaxOut(n) \in Nat /\ MaxOut(n) <= MemberCap
<1>1. n + 7 <= MinRaw + 7 /\ MinRaw \in Nat /\ Frame \in Nat
  BY UploadAssumption
<1>2. (n + 7) \div 8 \in Nat /\ (MinRaw + 7) \div 8 \in Nat
      /\ (n + 7) \div 8 <= (MinRaw + 7) \div 8
  BY <1>1
<1> QED BY <1>1, <1>2, CapFacts DEF MaxOut

-----------------------------------------------------------------------------
LEMMA InitInv == Init => IInv
<1> SUFFICES ASSUME Init PROVE IInv
  OBVIOUS
<1>1. TypeOK
  <2>1. 0 \in 0..MaxAttempts /\ 0 \in 0..ReplyLen /\ 0 \in 0..MaxLog
    BY UploadAssumption
  <2>2. (written \in 0..MaxLog /\ mark \in 0..written /\ first \in 0..mark)
    BY <2>1 DEF Init
  <2>3. (archived \subseteq 1..written /\ repeated \subseteq archived
         /\ doubted \subseteq archived)
    BY DEF Init
  <2> QED BY <2>1, <2>2, <2>3 DEF Init, TypeOK
<1>2. FrozenWhileReading /\ MemberFits
  BY DEF Init, FrozenWhileReading, MemberFits
<1>3. Aim
  BY UploadAssumption DEF Init, Aim, Sending
<1>4. Archive
  BY DEF Init, Archive, MarkedIsArchived, OnlyDoubtedRepeat, Beyond
<1> QED BY <1>1, <1>2, <1>3, <1>4 DEF IInv

(* While a member is sent, its bytes lie right behind the high-water. *)
LEMMA InFlightIs ==
  ASSUME IInv, pc \in Sending
  PROVE  /\ InFlight = (mark + 1)..(mark + try)
         /\ InFlight \subseteq 1..written
BY DEF IInv, TypeOK, Aim, InFlight

(* Steps that leave the log and the archive alone, and do not leave a      *)
(* member whose confirmation is on its way.                                *)
LEMMA ArchiveKept ==
  ASSUME IInv, UNCHANGED <<written, first, mark, server>>,
         doubted \subseteq doubted',
         pc = "reply" => \/ pc' = "reply" /\ UNCHANGED <<start, try>>
                         \/ InFlight \subseteq doubted',
         pc' = "reply" => pc = "reply" /\ UNCHANGED <<start, try>>
  PROVE  Archive'
<1>1. MarkedIsArchived' /\ OnlyDoubtedRepeat'
  BY DEF IInv, Archive, MarkedIsArchived, OnlyDoubtedRepeat, server
<1>2. Beyond'
  <2> SUFFICES ASSUME NEW b \in archived, mark < b
               PROVE  b \in doubted' \/ (pc' = "reply" /\ b <= mark + try')
    BY DEF Beyond, server
  <2>1. CASE b \in doubted
    BY <2>1
  <2>2. CASE pc = "reply" /\ b <= mark + try
    <3>1. b \in InFlight
      BY <2>2, InFlightIs DEF Sending, IInv, TypeOK
    <3> QED BY <2>2, <3>1
  <2> QED BY <2>1, <2>2 DEF IInv, Archive, Beyond
<1>3. pc' = "reply" => (InFlight \subseteq archived)'
  BY DEF IInv, Archive, InFlight, server
<1> QED BY <1>1, <1>2, <1>3 DEF Archive

(* Leaving the run by any of its exits. *)
LEMMA ReturnInv ==
  ASSUME IInv, NEW status \in {"none", "no_new_data", "ok", "compress_fail",
                               "http_fail", "server_reject", "mismatch"},
         Return(status), UNCHANGED <<mark, server>>,
         doubted \subseteq doubted', doubted' \subseteq archived,
         pc = "reply" => InFlight \subseteq doubted'
  PROVE  IInv'
<1>1. TypeOK'
  <2>1. 0 \in 0..MaxAttempts /\ 0 \in 0..ReplyLen
    BY UploadAssumption
  <2>2. /\ (written \in 0..MaxLog /\ mark \in 0..written /\ first \in 0..mark)'
        /\ (archived \subseteq 1..written /\ repeated \subseteq archived)'
        /\ (doubted \subseteq archived)'
    BY DEF Return, IInv, TypeOK, server
  <2>3. /\ frozen' \in BOOLEAN /\ pc' = "idle" /\ result' = status
        /\ end' = 0 /\ chunks' = 0 /\ start' = 0 /\ take' = 0 /\ try' = 0
        /\ size' = 0 /\ attempt' = 0 /\ seen' = 0 /\ kept' = 0
        /\ intact' = TRUE
    BY DEF Return, LocalsGone
  <2> QED BY <2>1, <2>2, <2>3 DEF TypeOK
<1>2. FrozenWhileReading' /\ MemberFits' /\ Aim'
  BY UploadAssumption DEF Return, LocalsGone, FrozenWhileReading, MemberFits, Aim, Sending
<1>3. Archive'
  BY ArchiveKept DEF Return
<1> QED BY <1>1, <1>2, <1>3 DEF IInv

-----------------------------------------------------------------------------
(* One lemma per action. *)

LEMMA LogInv == ASSUME IInv, Log PROVE IInv'
<1>1. TypeOK'
  BY UploadAssumption DEF Log, IInv, TypeOK, server, chunk, reply
<1>2. FrozenWhileReading' /\ MemberFits' /\ Aim'
  BY DEF Log, IInv, TypeOK, FrozenWhileReading, MemberFits, Aim, Sending, chunk
<1>3. Archive'
  BY DEF Log, IInv, Archive, MarkedIsArchived, OnlyDoubtedRepeat, Beyond, InFlight,
         server, chunk
<1> QED BY <1>1, <1>2, <1>3 DEF IInv

LEMMA PruneInv == ASSUME IInv, Prune PROVE IInv'
<1>1. pc \in {"idle", "begin"}
  BY DEF Prune, IInv, FrozenWhileReading
<1>2. first' \in (first + 1)..written /\ mark' = Larger(mark, first')
  BY DEF Prune
<1>3. first' \in Nat /\ mark' \in Nat /\ mark <= mark' /\ first' <= mark'
      /\ mark' <= written /\ first <= first' /\ (mark' = mark \/ mark' = first')
  BY <1>2 DEF Larger, IInv, TypeOK
<1>4. TypeOK'
  BY <1>3 DEF Prune, IInv, TypeOK, server, chunk, reply
<1>5. FrozenWhileReading' /\ MemberFits' /\ Aim'
  BY <1>1 DEF Prune, IInv, FrozenWhileReading, MemberFits, Aim, Sending, chunk
<1>6. MarkedIsArchived'
  BY <1>3 DEF Prune, IInv, TypeOK, Archive, MarkedIsArchived, server
<1>7. OnlyDoubtedRepeat' /\ Beyond'
  BY <1>1, <1>3 DEF Prune, IInv, TypeOK, Archive, OnlyDoubtedRepeat, Beyond, server
<1> QED BY <1>1, <1>4, <1>5, <1>6, <1>7 DEF IInv, Archive, Prune

LEMMA RunInv == ASSUME IInv, Run PROVE IInv'
<1>1. pc = "idle" /\ pc' \in {"idle", "begin"} /\ result' \in {"none", "no_new_data"}
      /\ UNCHANGED <<store, server, end, chunks, chunk, reply, doubted>>
  BY DEF Run
<1>2. TypeOK'
  BY <1>1 DEF IInv, TypeOK, store, server, chunk, reply
<1>3. FrozenWhileReading' /\ MemberFits' /\ Aim'
  BY <1>1 DEF IInv, FrozenWhileReading, MemberFits, Aim, Sending, store, chunk
<1>4. Archive'
  BY <1>1, ArchiveKept DEF store
<1> QED BY <1>2, <1>3, <1>4 DEF IInv

LEMMA FreezeInv == ASSUME IInv, Freeze PROVE IInv'
<1>1. CASE NothingNew
  BY <1>1, ReturnInv DEF Freeze, IInv, TypeOK
<1>2. CASE ~ NothingNew
  <2>1. /\ pc = "begin" /\ frozen' = TRUE /\ pc' = "next" /\ end' = Total
        /\ chunks' = 0
        /\ UNCHANGED <<written, first, mark, chunk, reply, result, server, doubted>>
    BY <1>2 DEF Freeze
  <2>2. Total \in Nat /\ first + Total = written
    BY DEF Total, IInv, TypeOK
  <2>3. TypeOK'
    BY <2>1, <2>2 DEF IInv, TypeOK, server, chunk, reply
  <2>4. FrozenWhileReading' /\ MemberFits' /\ Aim'
    BY <2>1, <2>2 DEF IInv, TypeOK, FrozenWhileReading, MemberFits, Aim, Sending, chunk
  <2>5. Archive'
    BY <2>1, ArchiveKept
  <2> QED BY <2>3, <2>4, <2>5 DEF IInv
<1> QED BY <1>1, <1>2

LEMMA NextChunkInv == ASSUME IInv, NextChunk PROVE IInv'
<1>1. /\ pc = "next" /\ pc' = "read" /\ Uploaded < end
      /\ start' = Uploaded /\ take' = Smaller(end - Uploaded, ChunkRawMax)
      /\ try' = take' /\ attempt' = 0 /\ chunks' = chunks + 1
      /\ UNCHANGED <<store, server, end, size, reply, result, doubted>>
  BY DEF NextChunk, More
<1>2. /\ Uploaded \in Nat /\ first + Uploaded = mark /\ first + end <= written
      /\ end \in Nat /\ ChunkRawMax \in Nat \ {0}
      /\ first \in Nat /\ mark \in Nat /\ written \in Nat
  BY <1>1, UploadAssumption DEF Uploaded, IInv, TypeOK, Aim
<1>3. take' \in Nat /\ 1 <= take' /\ mark + take' <= written
  BY <1>1, <1>2 DEF Smaller
<1>4. TypeOK'
  BY <1>1, <1>2, <1>3, UploadAssumption DEF IInv, TypeOK, store, server, reply
<1>5. FrozenWhileReading' /\ MemberFits'
  BY <1>1 DEF IInv, FrozenWhileReading, MemberFits, store
<1>6. Aim'
  BY <1>1, <1>2, <1>3, UploadAssumption DEF Aim, Sending, store
<1>7. Archive'
  BY <1>1, ArchiveKept DEF store
<1> QED BY <1>4, <1>5, <1>6, <1>7 DEF IInv

LEMMA ReadInv == ASSUME IInv, Read PROVE IInv'
<1>1. /\ pc = "read" /\ pc' = "compress"
      /\ try' \in IF "read" \in Faults THEN 1..try ELSE {try}
      /\ UNCHANGED <<store, server, end, chunks, start, take, size, attempt,
                     reply, result, doubted>>
  BY DEF Read
<1>2. try' \in 1..try /\ try' \in Nat
  BY <1>1 DEF IInv, TypeOK, Aim, Sending
<1>3. TypeOK'
  BY <1>1, <1>2 DEF IInv, TypeOK, store, server, reply
<1>4. FrozenWhileReading' /\ MemberFits'
  BY <1>1 DEF IInv, FrozenWhileReading, MemberFits, store
<1>5. Aim'
  BY <1>1, <1>2 DEF IInv, TypeOK, Aim, Sending, store
<1>6. Archive'
  BY <1>1, ArchiveKept DEF store
<1> QED BY <1>3, <1>4, <1>5, <1>6 DEF IInv

LEMMA CompressInv == ASSUME IInv, Compress PROVE IInv'
<1>1. /\ pc = "compress" /\ size' \in (Frame + 1)..MaxOut(try)
      /\ UNCHANGED <<store, server, end, chunks, start, take, attempt,
                     reply, result, doubted>>
  BY DEF Compress
<1>2. try \in Nat /\ 1 <= try /\ try <= take /\ take \in Nat
  BY <1>1 DEF IInv, TypeOK, Aim, Sending
<1>3. MaxOut(try) \in Nat /\ Frame \in Nat /\ MinRaw \in Nat
  BY <1>2, UploadAssumption DEF MaxOut
<1>4. size' \in Nat /\ size' <= MaxOut(try)
  BY <1>1, <1>3
<1>5. CASE size' <= MemberCap \/ try <= MinRaw
  <2>1. pc' = "post" /\ try' = try
    BY <1>5 DEF Compress
  <2>2. size' <= MemberCap
    BY <1>2, <1>3, <1>4, <1>5, FloorFits, CapFacts
  <2>3. TypeOK'
    BY <1>1, <1>4, <2>1 DEF IInv, TypeOK, store, server, reply
  <2>4. FrozenWhileReading' /\ MemberFits'
    BY <1>1, <2>1, <2>2 DEF IInv, FrozenWhileReading, MemberFits, MemberCap, store
  <2>5. Aim'
    BY <1>1, <2>1 DEF IInv, Aim, Sending, store
  <2>6. Archive'
    BY <1>1, <2>1, ArchiveKept DEF store
  <2> QED BY <2>3, <2>4, <2>5, <2>6 DEF IInv
<1>6. CASE ~(size' <= MemberCap \/ try <= MinRaw)
  <2>1. pc' = "read" /\ try' = Shrunk(try, size')
    BY <1>6 DEF Compress
  <2>2. try' \in 1..(try - 1)
    BY <1>2, <1>3, <1>1, <1>4, <1>6, <2>1, ShrunkBounds
  <2>3. TypeOK'
    BY <1>1, <1>2, <1>4, <2>1, <2>2 DEF IInv, TypeOK, store, server, reply
  <2>4. FrozenWhileReading' /\ MemberFits'
    BY <1>1, <2>1 DEF IInv, FrozenWhileReading, MemberFits, store
  <2>5. Aim'
    BY <1>1, <1>2, <2>1, <2>2 DEF IInv, Aim, Sending, store
  <2>6. Archive'
    BY <1>1, <2>1, ArchiveKept DEF store
  <2> QED BY <2>3, <2>4, <2>5, <2>6 DEF IInv
<1> QED BY <1>5, <1>6

LEMMA FinishInv == ASSUME IInv, Finish PROVE IInv'
BY ReturnInv DEF Finish, IInv, TypeOK

LEMMA NoMemberInv == ASSUME IInv, NoMember PROVE IInv'
BY ReturnInv DEF NoMember, IInv, TypeOK

LEMMA PostRefusedInv == ASSUME IInv, PostRefused PROVE IInv'
<1>1. pc = "post" /\ UNCHANGED <<mark, server, doubted>>
  BY DEF PostRefused
<1>2. doubted \subseteq archived
  BY DEF IInv, TypeOK
<1>3. CASE Return("server_reject")
  BY <1>1, <1>2, <1>3, ReturnInv
<1>4. CASE Return("mismatch")
  BY <1>1, <1>2, <1>4, ReturnInv
<1> QED BY <1>3, <1>4 DEF PostRefused

(* The archive takes a member that was sent: what it already held of it    *)
(* had been in doubt.                                                      *)
LEMMA AppendFacts ==
  ASSUME IInv, pc = "post", Append
  PROVE  /\ archived \subseteq archived' /\ archived' \subseteq 1..written
         /\ repeated' \subseteq archived' /\ repeated' \subseteq doubted
         /\ InFlight \subseteq archived'
<1>1. archived' = archived \cup InFlight
      /\ repeated' = repeated \cup (archived \cap InFlight)
  BY DEF Append
<1>2. InFlight = (mark + 1)..(mark + try) /\ InFlight \subseteq 1..written
  BY InFlightIs DEF Sending
<1>3. ASSUME NEW b \in archived \cap InFlight PROVE b \in doubted
  <2>1. mark < b
    BY <1>2, <1>3 DEF IInv, TypeOK
  <2> QED BY <1>3, <2>1 DEF IInv, Archive, Beyond
<1>4. archived \subseteq 1..written /\ repeated \subseteq archived
      /\ repeated \subseteq doubted
  BY DEF IInv, TypeOK, Archive, OnlyDoubtedRepeat
<1> QED BY <1>1, <1>2, <1>3, <1>4

LEMMA PostStoredInv == ASSUME IInv, PostStored PROVE IInv'
<1>1. /\ pc = "post" /\ Append /\ pc' = "reply"
      /\ UNCHANGED <<store, end, chunks, chunk, reply, result, doubted>>
  BY DEF PostStored
<1>2. TypeOK'
  BY <1>1, AppendFacts DEF IInv, TypeOK, store, chunk, reply
<1>3. FrozenWhileReading' /\ MemberFits' /\ Aim'
  BY <1>1 DEF IInv, FrozenWhileReading, MemberFits, MemberCap, Aim, Sending,
              store, chunk
<1>4. MarkedIsArchived' /\ OnlyDoubtedRepeat'
  BY <1>1, AppendFacts DEF IInv, Archive, MarkedIsArchived, OnlyDoubtedRepeat, store
<1>5. Beyond'
  <2> SUFFICES ASSUME NEW b \in archived', mark < b, b \notin doubted
               PROVE  b <= mark + try
    BY <1>1 DEF Beyond, store, chunk
  <2>1. b \in InFlight
    BY <1>1 DEF Append, IInv, Archive, Beyond
  <2> QED BY <1>1, <2>1, InFlightIs DEF Sending, IInv, TypeOK
<1>6. (InFlight \subseteq archived)'
  BY <1>1, AppendFacts DEF InFlight, store, chunk
<1> QED BY <1>2, <1>3, <1>4, <1>5, <1>6 DEF IInv, Archive

LEMMA PostFailsInv == ASSUME IInv, PostFails PROVE IInv'
<1>1. pc = "post" /\ TryAgain /\ UNCHANGED mark
  BY DEF PostFails
<1>2. \/ UNCHANGED <<server, doubted>>
      \/ Append /\ doubted' = doubted \cup InFlight
  BY DEF PostFails
<1>3. /\ archived \subseteq archived' /\ archived' \subseteq 1..written
      /\ repeated' \subseteq archived' /\ repeated' \subseteq doubted'
      /\ doubted' \subseteq archived'
  <2>1. CASE UNCHANGED <<server, doubted>>
    BY <2>1 DEF server, IInv, TypeOK, Archive, OnlyDoubtedRepeat
  <2>2. CASE Append /\ doubted' = doubted \cup InFlight
    BY <1>1, <2>2, AppendFacts DEF IInv, TypeOK
  <2> QED BY <1>2, <2>1, <2>2
<1>4. UNCHANGED <<written, first>> /\ pc' # "reply"
  BY <1>1 DEF TryAgain, Return
<1>5. MarkedIsArchived' /\ OnlyDoubtedRepeat'
  BY <1>1, <1>3, <1>4 DEF IInv, Archive, MarkedIsArchived, OnlyDoubtedRepeat
<1>6. Beyond'
  <2> SUFFICES ASSUME NEW b \in archived', mark < b PROVE b \in doubted'
    BY <1>1 DEF Beyond
  <2>1. CASE b \in archived
    BY <1>1, <1>2, <2>1 DEF IInv, Archive, Beyond
  <2>2. CASE b \notin archived
    BY <1>2, <2>2 DEF Append, server
  <2> QED BY <2>1, <2>2
<1>7. Archive'
  BY <1>4, <1>5, <1>6 DEF Archive
<1>8. CASE attempt + 1 < MaxAttempts
  <2>1. /\ attempt' = attempt + 1
        /\ UNCHANGED <<frozen, pc, result, written, first, end, chunks,
                       start, take, try, size, reply>>
    BY <1>1, <1>8 DEF TryAgain
  <2>2. attempt' \in 0..MaxAttempts
    BY <1>8, <2>1, UploadAssumption DEF IInv, TypeOK
  <2>3. TypeOK'
    BY <1>1, <1>3, <2>1, <2>2 DEF IInv, TypeOK, reply
  <2>4. FrozenWhileReading' /\ MemberFits' /\ Aim'
    BY <1>1, <1>8, <2>1 DEF IInv, FrozenWhileReading, MemberFits, MemberCap, Aim, Sending
  <2> QED BY <1>7, <2>3, <2>4 DEF IInv
<1>9. CASE ~(attempt + 1 < MaxAttempts)
  <2>1. Return("http_fail")
    BY <1>1, <1>9 DEF TryAgain
  <2>2. /\ frozen' = FALSE /\ pc' = "idle" /\ result' = "http_fail"
        /\ end' = 0 /\ chunks' = 0 /\ start' = 0 /\ take' = 0 /\ try' = 0
        /\ size' = 0 /\ attempt' = 0 /\ seen' = 0 /\ kept' = 0
        /\ intact' = TRUE
    BY <2>1 DEF Return, LocalsGone
  <2>3. 0 \in 0..MaxAttempts /\ 0 \in 0..ReplyLen /\ 0 < MaxAttempts
    BY UploadAssumption
  <2>4. TypeOK'
    BY <1>1, <1>3, <1>4, <2>2, <2>3 DEF IInv, TypeOK
  <2>5. FrozenWhileReading' /\ MemberFits' /\ Aim'
    BY <2>2, <2>3 DEF FrozenWhileReading, MemberFits, Aim, Sending
  <2> QED BY <1>7, <2>4, <2>5 DEF IInv
<1> QED BY <1>8, <1>9

LEMMA ReplyChunkInv == ASSUME IInv, ReplyChunk PROVE IInv'
<1>1. pc = "reply" /\ UNCHANGED <<store, server, pc, end, chunks, chunk, result, doubted>>
  BY DEF ReplyChunk
<1>2. PICK n \in 1..(ReplyLen - seen) :
        /\ seen' = seen + n
        /\ IF kept + n < ReplyBuf
             THEN kept' = kept + n /\ UNCHANGED intact
             ELSE intact' = (intact /\ seen >= KeyEnd) /\ UNCHANGED kept
  BY DEF ReplyChunk
<1>3. seen' \in 0..ReplyLen /\ kept' \in Nat
  BY <1>2, UploadAssumption DEF IInv, TypeOK
<1>4. intact' \in BOOLEAN
  BY <1>2 DEF IInv, TypeOK
<1>5. TypeOK'
  BY <1>1, <1>3, <1>4 DEF IInv, TypeOK, store, server, chunk
<1>6. FrozenWhileReading' /\ MemberFits' /\ Aim'
  BY <1>1 DEF IInv, FrozenWhileReading, MemberFits, MemberCap, Aim, Sending, store, chunk
<1>7. Archive'
  BY <1>1, ArchiveKept DEF store, chunk
<1> QED BY <1>5, <1>6, <1>7 DEF IInv

LEMMA ReplyEndsInv == ASSUME IInv, ReplyEnds PROVE IInv'
<1>1. pc = "reply" /\ UNCHANGED server
  BY DEF ReplyEnds
<1>2. InFlight = (mark + 1)..(mark + try) /\ InFlight \subseteq archived
      /\ first + start = mark /\ 1 <= try /\ try <= take /\ mark + take <= written
  BY <1>1, InFlightIs DEF IInv, Aim, Archive, Sending
<1>3. CASE Confirmed
  <2>1. /\ mark' = first + Consumed /\ pc' = "next"
        /\ seen' = 0 /\ kept' = 0 /\ intact' = TRUE
        /\ UNCHANGED <<frozen, result, written, first, end, chunks, chunk, doubted>>
    BY <1>3 DEF ReplyEnds
  <2>2. mark' = mark + try /\ mark' \in 0..written /\ first <= mark'
    BY <1>2, <2>1 DEF Consumed, IInv, TypeOK
  <2>3. 0 \in 0..ReplyLen
    BY UploadAssumption
  <2>4. TypeOK'
    BY <1>1, <2>1, <2>2, <2>3 DEF IInv, TypeOK, server, chunk
  <2>5. FrozenWhileReading' /\ MemberFits' /\ Aim'
    BY <1>1, <2>1 DEF IInv, FrozenWhileReading, MemberFits, Aim, Sending, chunk
  <2>6. MarkedIsArchived'
    <3> SUFFICES ASSUME NEW b \in (first + 1)..(mark + try) PROVE b \in archived
      BY <1>1, <2>1, <2>2 DEF MarkedIsArchived, server
    <3>1. CASE b <= mark
      BY <3>1 DEF IInv, TypeOK, Archive, MarkedIsArchived
    <3>2. CASE ~(b <= mark)
      BY <1>2, <3>2 DEF IInv, TypeOK
    <3> QED BY <3>1, <3>2
  <2>7. OnlyDoubtedRepeat' /\ Beyond'
    BY <1>1, <2>1, <2>2 DEF IInv, TypeOK, Archive, OnlyDoubtedRepeat, Beyond, server
  <2> QED BY <2>1, <2>4, <2>5, <2>6, <2>7 DEF IInv, Archive
<1>4. CASE ~Confirmed
  BY <1>1, <1>2, <1>4, ReturnInv DEF ReplyEnds, IInv, TypeOK
<1> QED BY <1>3, <1>4

LEMMA PowerLossInv == ASSUME IInv, PowerLoss PROVE IInv'
<1>1. /\ Return("none") /\ UNCHANGED <<mark, server>>
      /\ doubted' = IF pc = "reply" THEN doubted \cup InFlight ELSE doubted
  BY DEF PowerLoss
<1>2. doubted \subseteq archived /\ (pc = "reply" => InFlight \subseteq archived)
  BY DEF IInv, TypeOK, Archive
<1>3. doubted' \subseteq archived /\ doubted \subseteq doubted'
      /\ (pc = "reply" => InFlight \subseteq doubted')
  BY <1>1, <1>2
<1> QED BY <1>1, <1>3, ReturnInv

LEMMA StutterInv == ASSUME IInv, UNCHANGED vars PROVE IInv'
<1> USE DEF vars, store, server, chunk, reply
<1>1. TypeOK'
  BY DEF IInv, TypeOK
<1>2. FrozenWhileReading' /\ MemberFits' /\ Aim'
  BY DEF IInv, FrozenWhileReading, MemberFits, MemberCap, Aim, Sending
<1>3. Archive'
  BY ArchiveKept
<1> QED BY <1>1, <1>2, <1>3 DEF IInv

LEMMA NextInv == ASSUME IInv, [Next]_vars PROVE IInv'
<1>1. CASE Log \/ Prune \/ Run \/ PowerLoss
  BY <1>1, LogInv, PruneInv, RunInv, PowerLossInv
<1>2. CASE Freeze \/ NextChunk \/ Finish \/ NoMember \/ Read \/ Compress
  BY <1>2, FreezeInv, NextChunkInv, FinishInv, NoMemberInv, ReadInv, CompressInv
<1>3. CASE PostFails \/ PostRefused \/ PostStored \/ ReplyChunk \/ ReplyEnds
  BY <1>3, PostFailsInv, PostRefusedInv, PostStoredInv, ReplyChunkInv, ReplyEndsInv
<1>4. CASE UNCHANGED vars
  BY <1>4, StutterInv
<1> QED BY <1>1, <1>2, <1>3, <1>4 DEF Next, Step

LEMMA AlwaysInv == Spec => []IInv
<1>1. Init => IInv
  BY InitInv
<1>2. IInv /\ [Next]_vars => IInv'
  BY NextInv
<1> QED BY <1>1, <1>2, PTL DEF Spec

-----------------------------------------------------------------------------
(* Every variable keeps its type, and the store's counters their order.    *)
THEOREM TypeCorrect == Spec => []TypeOK
<1>1. IInv => TypeOK
  BY DEF IInv
<1> QED BY <1>1, AlwaysInv, PTL

(* At least once: the high-water never passes a byte the server's archive  *)
(* does not hold, whatever fails.                                          *)
THEOREM AtLeastOnce == Spec => []MarkedIsArchived
<1>1. IInv => MarkedIsArchived
  BY DEF IInv, Archive
<1> QED BY <1>1, AlwaysInv, PTL

(* A byte reaches the archive a second time only when the confirmation of  *)
(* an earlier delivery was lost.                                           *)
THEOREM RepeatsAreDoubted == Spec => []OnlyDoubtedRepeat
<1>1. IInv => OnlyDoubtedRepeat
  BY DEF IInv, Archive
<1> QED BY <1>1, AlwaysInv, PTL

(* A member that is sent fits one request of the transport, for every      *)
(* chunk size, cap and outcome of the compression.                         *)
THEOREM MembersFit == Spec => []MemberFits
<1>1. IInv => MemberFits
  BY DEF IInv
<1> QED BY <1>1, AlwaysInv, PTL

(* The store is frozen exactly while a run reads from it.                  *)
THEOREM Frozen == Spec => []FrozenWhileReading
<1>1. IInv => FrozenWhileReading
  BY DEF IInv
<1> QED BY <1>1, AlwaysInv, PTL

-----------------------------------------------------------------------------
(* The upload implements LogDelivery. *)

LEMMA DeliveryStutter ==
  ASSUME UNCHANGED <<written, first, mark, archived>>
  PROVE  [Delivery!Next]_Delivery!vars
BY DEF Delivery!vars

(* A member that reaches the archive extends it from the high-water on. *)
LEMMA AppendDelivers ==
  ASSUME IInv, pc = "post", Append, UNCHANGED <<written, first, mark>>
  PROVE  Delivery!Deliver
<1>1. archived' = archived \cup (mark + 1)..(mark + try)
  BY InFlightIs DEF Append, Sending
<1>2. mark + try \in (mark + 1)..written
  BY DEF IInv, TypeOK, Aim, Sending
<1> QED BY <1>1, <1>2 DEF Delivery!Deliver

LEMMA ReplyEndsConfirms ==
  ASSUME IInv, ReplyEnds, Confirmed
  PROVE  Delivery!Confirm
<1>1. /\ pc = "reply" /\ mark' = first + Consumed
      /\ UNCHANGED <<written, first, archived>>
  BY DEF ReplyEnds, server
<1>2. InFlight = (mark + 1)..(mark + try) /\ InFlight \subseteq archived
      /\ first + start = mark /\ 1 <= try /\ try <= take /\ mark + take <= written
  BY <1>1, InFlightIs DEF IInv, Aim, Archive, Sending
<1>3. mark' = mark + try /\ mark' \in (mark + 1)..written
  BY <1>1, <1>2 DEF Consumed, IInv, TypeOK
<1> QED BY <1>1, <1>2, <1>3 DEF Delivery!Confirm

LEMMA StepDelivers ==
  ASSUME IInv, [Next]_vars
  PROVE  [Delivery!Next]_Delivery!vars
<1>1. CASE Log
  BY <1>1 DEF Log, server, Delivery!Next, Delivery!Log
<1>2. CASE Prune
  BY <1>2 DEF Prune, Larger, server, Delivery!Next, Delivery!Prune
<1>3. CASE Run \/ NextChunk \/ Read \/ Compress \/ ReplyChunk \/ UNCHANGED vars
  BY <1>3, DeliveryStutter
     DEF Run, NextChunk, Read, Compress, ReplyChunk, vars, store, server
<1>4. CASE Freeze \/ Finish \/ NoMember \/ PostRefused \/ PowerLoss
  BY <1>4, DeliveryStutter
     DEF Freeze, Finish, NoMember, PostRefused, PowerLoss, Return, server
<1>5. CASE PostStored
  BY <1>5, AppendDelivers DEF PostStored, store, Delivery!Next
<1>6. CASE PostFails
  <2>1. pc = "post" /\ UNCHANGED <<written, first, mark>>
    BY <1>6 DEF PostFails, TryAgain, Return
  <2>2. CASE Append
    BY <2>1, <2>2, AppendDelivers DEF Delivery!Next
  <2>3. CASE UNCHANGED server
    BY <2>1, <2>3, DeliveryStutter DEF server
  <2> QED BY <1>6, <2>2, <2>3 DEF PostFails
<1>7. CASE ReplyEnds
  <2>1. CASE Confirmed
    BY <1>7, <2>1, ReplyEndsConfirms DEF Delivery!Next
  <2>2. CASE ~Confirmed
    BY <1>7, <2>2, DeliveryStutter DEF ReplyEnds, Return, server
  <2> QED BY <2>1, <2>2
<1> QED
  BY <1>1, <1>2, <1>3, <1>4, <1>5, <1>6, <1>7 DEF Next, Step

(* The detailed upload, with its shrinking, retries, pruning and power     *)
(* losses, implements at-least-once delivery behind a high-water.          *)
THEOREM Delivers == Spec => IsLogDelivery
<1>1. Init => Delivery!Init
  BY DEF Init, Delivery!Init
<1>2. IInv /\ [Next]_vars => [Delivery!Next]_Delivery!vars
  BY StepDelivers
<1> QED BY <1>1, <1>2, AlwaysInv, PTL DEF Spec, IsLogDelivery, Delivery!Spec
=============================================================================
