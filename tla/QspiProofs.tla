------------------------------ MODULE QspiProofs ------------------------------
(***************************************************************************)
(* The flash under one task: any depth of nesting, any number of wake      *)
(* attempts, any number of JEDEC reads that come too early.  With two      *)
(* tasks the theorems about holding the flash do not hold: one may return  *)
(* from resume() while the other is still waking the chip.                 *)
(*                                                                         *)
(* Then the calls that reach the flash, by any number of tasks, for every  *)
(* partition map, offset, length and width of a word.                      *)
(***************************************************************************)
EXTENDS QspiRegions, SequenceTheorems, TLAPS

Alone == \E t \in Tasks : Tasks = {t}

Waking == \E t \in Tasks : pc[t] = "wake"

(* The count is the number of calls that stand, and these are the          *)
(* innermost: a call that backed out did so at a count of zero, and one    *)
(* that finds the count raised never backs out.  A call still waking is    *)
(* counted, and is the only one.                                           *)
Standing == IF Waking THEN 0 ELSE depth

CountIsCalls ==
  \A t \in Tasks :
    /\ Standing <= Len(calls[t])
    /\ \A i \in 1..Len(calls[t]) : calls[t][i] = TRUE <=> i > Len(calls[t]) - Standing

WakingIsFirst ==
  Waking => /\ depth = 1 /\ ~ready /\ periph /\ chip = "awake"
            /\ \A t \in Tasks : misses >= attempt[t]

UpForAReason == ~Waking /\ depth = 0 /\ ready => begun

IInv ==
  /\ TypeOK /\ ReadyIsAwake
  /\ CountIsCalls /\ WakingIsFirst /\ UpForAReason
  /\ ~Waking /\ depth > 0 => ready

-----------------------------------------------------------------------------
(* The stack of calls. *)

(* The innermost d of a stack of calls stand. *)
Stands(s, d) == d <= Len(s) /\ \A i \in 1..Len(s) : s[i] = TRUE <=> i > Len(s) - d

LEMMA StandsAppend ==
  ASSUME NEW s \in Seq(BOOLEAN), NEW d \in Nat, Stands(s, d)
  PROVE  /\ Append(s, TRUE) \in Seq(BOOLEAN)
         /\ Stands(Append(s, TRUE), d + 1)
BY AppendProperties DEF Stands

LEMMA BackedOutAppend ==
  ASSUME NEW s \in Seq(BOOLEAN), Stands(s, 0)
  PROVE  /\ Append(s, FALSE) \in Seq(BOOLEAN)
         /\ Stands(Append(s, FALSE), 0)
BY AppendProperties DEF Stands

LEMMA StandsFront ==
  ASSUME NEW s \in Seq(BOOLEAN), s # <<>>, NEW d \in Nat, Stands(s, d)
  PROVE  /\ Front(s) \in Seq(BOOLEAN)
         /\ Stands(Front(s), IF d = 0 THEN 0 ELSE d - 1)
<1>1. Len(s) \in Nat \ {0} /\ \A i \in 1..(Len(s) - 1) : s[i] \in BOOLEAN
  OBVIOUS
<1>2. /\ Front(s) \in Seq(BOOLEAN) /\ Len(Front(s)) = Len(s) - 1
      /\ \A i \in 1..(Len(s) - 1) : Front(s)[i] = s[i]
  <2>1. 1 \in Int /\ Len(s) - 1 \in Int
    BY <1>1
  <2>2. /\ Front(s) \in Seq(BOOLEAN)
        /\ Len(Front(s)) = IF 1 <= Len(s) - 1 THEN Len(s) - 1 - 1 + 1 ELSE 0
        /\ \A i \in 1..(Len(s) - 1 - 1 + 1) : Front(s)[i] = s[1 + i - 1]
    BY <1>1, <2>1, SubSeqProperties DEF Front
  <2>3. Len(Front(s)) = Len(s) - 1
    <3>1. \A n \in Nat \ {0} : (IF 1 <= n - 1 THEN n - 1 - 1 + 1 ELSE 0) = n - 1
      OBVIOUS
    <3> QED BY <1>1, <2>2, <3>1, Zenon
  <2>4. ASSUME NEW i \in 1..(Len(s) - 1) PROVE Front(s)[i] = s[i]
    <3>1. i \in 1..(Len(s) - 1 - 1 + 1) /\ 1 + i - 1 = i
      BY <1>1
    <3> QED BY <2>2, <3>1
  <2> QED BY <2>2, <2>3, <2>4
<1>3. CASE d = 0
  BY <1>1, <1>2, <1>3 DEF Stands
<1>4. CASE d > 0
  BY <1>1, <1>2, <1>4 DEF Stands
<1> QED BY <1>3, <1>4

LEMMA StandsEmpty == <<>> \in Seq(BOOLEAN) /\ Stands(<<>>, 0)
BY DEF Stands

-----------------------------------------------------------------------------
(* The invariant of a task that is alone. *)

LEMMA OneTask ==
  ASSUME NEW a, Tasks = {a}
  PROVE  /\ Waking <=> pc[a] = "wake"
         /\ CountIsCalls <=> Stands(calls[a], Standing)
         /\ (\A t \in Tasks : misses >= attempt[t]) <=> misses >= attempt[a]
BY DEF Waking, CountIsCalls, Stands

LEMMA SafeInit == ASSUME NEW a, Tasks = {a} PROVE Init => IInv
<1> SUFFICES ASSUME Init PROVE IInv
  OBVIOUS
<1>1. TypeOK
  <2>1. calls \in [Tasks -> Seq(BOOLEAN)]
    BY StandsEmpty DEF Init
  <2>2. attempt \in [Tasks -> 0..(WakeAttempts - 1)] /\ misses \in 0..MaxMisses
    BY PowerAssumption DEF Init
  <2> QED BY <2>1, <2>2 DEF Init, TypeOK
<1>2. ~Waking
  BY DEF Init, Waking
<1>3. CountIsCalls
  <2>1. Standing = 0 /\ calls[a] = <<>>
    BY <1>2 DEF Init, Standing
  <2> QED BY <2>1, StandsEmpty, OneTask
<1> QED BY <1>1, <1>2, <1>3 DEF Init, IInv, ReadyIsAwake, WakingIsFirst, UpForAReason

LEMMA SafeStep == ASSUME NEW a, Tasks = {a} PROVE IInv /\ [Next]_vars => IInv'
<1> SUFFICES ASSUME IInv, [Next]_vars PROVE IInv'
  OBVIOUS
<1>0. /\ depth \in Nat /\ calls[a] \in Seq(BOOLEAN) /\ Stands(calls[a], Standing)
      /\ calls \in [Tasks -> Seq(BOOLEAN)] /\ pc \in [Tasks -> {"run", "wake"}]
      /\ Waking <=> pc[a] = "wake"
  BY OneTask DEF IInv, TypeOK
<1>1. ASSUME TypeOK', Stands(calls[a], Standing)', ReadyIsAwake',
             pc'[a] = "wake" => /\ depth' = 1 /\ ~ready' /\ periph' /\ chip' = "awake"
                                /\ misses' >= attempt'[a],
             pc'[a] # "wake" => (depth' > 0 => ready') /\ (depth' = 0 /\ ready' => begun')
      PROVE  IInv'
  <2>1. /\ Waking' <=> pc'[a] = "wake"
        /\ CountIsCalls' <=> Stands(calls[a], Standing)'
        /\ (\A t \in Tasks : misses' >= attempt'[t]) <=> misses' >= attempt'[a]
    BY DEF Waking, CountIsCalls, Stands
  <2> QED BY <1>1, <2>1, Zenon DEF IInv, WakingIsFirst, UpForAReason
<1>2. Standing = IF pc[a] = "wake" THEN 0 ELSE depth
  BY <1>0 DEF Standing
<1>3. Standing' = IF pc'[a] = "wake" THEN 0 ELSE depth'
  BY DEF Standing, Waking
<1>4. /\ pc[a] = "wake" => /\ depth = 1 /\ ~ready /\ periph /\ chip = "awake"
                           /\ misses >= attempt[a]
      /\ pc[a] # "wake" => (depth > 0 => ready) /\ (depth = 0 /\ ready => begun)
  BY <1>0 DEF IInv, WakingIsFirst, UpForAReason
<1>5. CASE Begin(a)
  <2>1. Stands(calls[a], Standing)' = Stands(calls[a], Standing)
    BY <1>2, <1>3, <1>5 DEF Begin
  <2>2. TypeOK'
    <3>1. misses' \in 0..MaxMisses
      BY <1>5, PowerAssumption DEF Begin, JedecOk, JedecMissed, IInv, TypeOK
    <3>2. ready' \in BOOLEAN /\ begun' \in BOOLEAN /\ periph' \in BOOLEAN
      BY <1>5, Zenon DEF Begin, PowerUp, IInv, TypeOK
    <3> QED BY <1>5, <3>1, <3>2 DEF Begin, PowerUp, IInv, TypeOK
  <2> QED BY <1>0, <1>1, <1>4, <1>5, <2>1, <2>2 DEF Begin, PowerUp, ReadyIsAwake
<1>6. CASE Resume(a)
  <2>1. CASE depth' > 1 \/ ready
    <3>1. /\ calls' = [calls EXCEPT ![a] = Append(calls[a], TRUE)]
          /\ calls'[a] = Append(calls[a], TRUE)
          /\ pc[a] # "wake" /\ depth' = depth + 1
          /\ UNCHANGED <<pc, chip, periph, attempt, ready, misses, begun>>
      BY <1>0, <1>6, <2>1 DEF Resume
    <3>2. calls'[a] \in Seq(BOOLEAN) /\ Stands(calls[a], Standing)'
      BY <1>0, <1>2, <1>3, <3>1, StandsAppend
    <3>3. TypeOK'
      BY <1>0, <3>1, <3>2 DEF IInv, TypeOK
    <3>4. depth' > 0 /\ (ready' \/ depth' > 1 => ready')
      BY <1>0, <1>4, <3>1
    <3> QED BY <1>0, <1>1, <2>1, <3>1, <3>2, <3>3, <3>4 DEF IInv, ReadyIsAwake
  <2>2. CASE ~(depth' > 1 \/ ready)
    <3>1. /\ calls' = calls /\ pc'[a] = "wake" /\ pc[a] # "wake"
          /\ depth = 0 /\ depth' = 1 /\ attempt'[a] = 0
      BY <1>0, <1>6, <2>2 DEF Resume, IInv, TypeOK
    <3>2. Stands(calls[a], Standing)'
      BY <1>0, <1>2, <1>3, <3>1
    <3>3. TypeOK'
      BY <1>6, <2>2, PowerAssumption DEF Resume, PowerUp, IInv, TypeOK
    <3> QED BY <1>1, <1>6, <2>2, <3>1, <3>2, <3>3
            DEF Resume, PowerUp, IInv, TypeOK, ReadyIsAwake
  <2> QED BY <2>1, <2>2
<1>7. CASE WakeSucceeds(a)
  <2>1. /\ calls' = [calls EXCEPT ![a] = Append(calls[a], TRUE)]
        /\ calls'[a] = Append(calls[a], TRUE)
        /\ pc[a] = "wake" /\ pc' = [pc EXCEPT ![a] = "run"] /\ pc'[a] = "run"
        /\ attempt' = [attempt EXCEPT ![a] = 0]
        /\ periph /\ periph' = periph /\ chip' = "awake" /\ misses' = 0
        /\ ready' = TRUE /\ begun' = FALSE /\ depth' = depth
    BY <1>0, <1>7 DEF WakeSucceeds, Returned, JedecOk
  <2>2. calls'[a] \in Seq(BOOLEAN) /\ Stands(calls[a], Standing)'
    <3>1. depth' = 1 /\ Stands(calls[a], 0)
      BY <1>0, <1>2, <1>4, <2>1
    <3>2. 0 \in Nat /\ 0 + 1 = 1 /\ Standing' = 1
      BY <1>3, <2>1, <3>1
    <3>3. /\ Append(calls[a], TRUE) \in Seq(BOOLEAN)
          /\ Stands(Append(calls[a], TRUE), 0 + 1)
      BY <1>0, <3>1, <3>2, StandsAppend
    <3> QED BY <2>1, <3>2, <3>3
  <2>3. TypeOK'
    <3>1. misses' \in 0..MaxMisses /\ attempt' \in [Tasks -> 0..(WakeAttempts - 1)]
      BY <2>1, PowerAssumption DEF IInv, TypeOK
    <3> QED BY <1>0, <2>1, <2>2, <3>1 DEF IInv, TypeOK
  <2> QED BY <1>1, <1>4, <2>1, <2>2, <2>3 DEF ReadyIsAwake
<1>8. CASE WakeFails(a)
  <2>1. /\ pc[a] = "wake" /\ depth = 1 /\ ~ready /\ periph
        /\ chip' = "awake" /\ misses < MaxMisses /\ misses' = misses + 1
        /\ UNCHANGED <<ready, periph, begun>>
        /\ misses >= attempt[a]
    BY <1>4, <1>8 DEF WakeFails, JedecMissed
  <2>2. misses' \in 0..MaxMisses /\ attempt[a] \in 0..(WakeAttempts - 1)
    BY <2>1, PowerAssumption DEF IInv, TypeOK
  <2>3. CASE attempt[a] + 1 < WakeAttempts
    <3>1. /\ attempt' = [attempt EXCEPT ![a] = attempt[a] + 1]
          /\ attempt'[a] = attempt[a] + 1
          /\ UNCHANGED <<depth, pc, calls>>
      BY <1>8, <2>3 DEF WakeFails, IInv, TypeOK
    <3>2. attempt' \in [Tasks -> 0..(WakeAttempts - 1)] /\ misses' >= attempt'[a]
      BY <2>1, <2>2, <2>3, <3>1, PowerAssumption DEF IInv, TypeOK
    <3>3. TypeOK'
      BY <2>1, <2>2, <3>1, <3>2 DEF IInv, TypeOK
    <3>4. Stands(calls[a], Standing)'
      BY <1>0, <1>2, <1>3, <3>1
    <3> QED BY <1>1, <2>1, <3>1, <3>2, <3>3, <3>4 DEF ReadyIsAwake
  <2>4. CASE ~(attempt[a] + 1 < WakeAttempts)
    <3>1. /\ calls' = [calls EXCEPT ![a] = Append(calls[a], FALSE)]
          /\ calls'[a] = Append(calls[a], FALSE)
          /\ pc' = [pc EXCEPT ![a] = "run"] /\ pc'[a] = "run"
          /\ attempt' = [attempt EXCEPT ![a] = 0]
          /\ depth' = 0
      <4>1. depth' = depth - 1 /\ Returned(a, FALSE)
        BY <1>8, <2>4 DEF WakeFails
      <4>2. depth' = 0
        BY <2>1, <4>1
      <4>3. /\ calls' = [calls EXCEPT ![a] = Append(calls[a], FALSE)]
            /\ pc' = [pc EXCEPT ![a] = "run"]
            /\ attempt' = [attempt EXCEPT ![a] = 0]
        BY <4>1 DEF Returned
      <4> QED BY <1>0, <4>2, <4>3
    <3>2. calls'[a] \in Seq(BOOLEAN) /\ Stands(calls[a], Standing)'
      <4>1. Stands(calls[a], 0)
        BY <1>0, <1>2, <2>1
      <4> QED BY <1>0, <1>3, <3>1, <4>1, BackedOutAppend
    <3>3. TypeOK'
      <4>1. attempt' \in [Tasks -> 0..(WakeAttempts - 1)]
        BY <3>1, PowerAssumption DEF IInv, TypeOK
      <4> QED BY <1>0, <2>1, <2>2, <3>1, <3>2, <4>1 DEF IInv, TypeOK
    <3> QED BY <1>1, <2>1, <3>1, <3>2, <3>3 DEF ReadyIsAwake
  <2> QED BY <2>3, <2>4
<1>9. CASE Suspend(a)
  <2>1. /\ pc[a] # "wake" /\ UNCHANGED <<misses, pc, attempt>>
        /\ depth' = IF depth = 0 THEN 0 ELSE depth - 1
        /\ calls' = [calls EXCEPT ![a] = IF @ = <<>> THEN @ ELSE Front(@)]
    BY <1>9 DEF Suspend, Uncounted
  <2>2. calls'[a] = IF calls[a] = <<>> THEN calls[a] ELSE Front(calls[a])
    BY <1>0, <2>1
  <2>3. calls'[a] \in Seq(BOOLEAN) /\ Stands(calls[a], Standing)'
    <3>1. CASE calls[a] = <<>>
      <4>1. depth = 0
        BY <1>0, <1>2, <2>1, <3>1 DEF Stands
      <4> QED BY <1>3, <2>1, <2>2, <3>1, <4>1, StandsEmpty
    <3>2. CASE calls[a] # <<>>
      BY <1>0, <1>2, <1>3, <2>1, <2>2, <3>2, StandsFront
    <3> QED BY <3>1, <3>2
  <2>4. calls' \in [Tasks -> Seq(BOOLEAN)] /\ depth' \in Nat
    BY <1>0, <2>1, <2>3
  <2>5. CASE depth = 1 /\ ready
    <3>1. chip' = "dpd" /\ periph' = FALSE /\ begun' = FALSE /\ ready' = FALSE
      BY <1>9, <2>5 DEF Suspend, PowersDown, PowerDown
    <3>2. TypeOK'
      BY <1>0, <2>1, <2>5, <2>4, <3>1 DEF IInv, TypeOK
    <3> QED BY <1>1, <2>1, <2>3, <2>5, <3>1, <3>2 DEF ReadyIsAwake
  <2>6. CASE ~(depth = 1 /\ ready)
    <3>1. UNCHANGED <<chip, periph, ready, begun>>
      BY <1>9, <2>6 DEF Suspend, PowersDown
    <3>2. TypeOK'
      BY <1>0, <2>1, <2>4, <3>1 DEF IInv, TypeOK
    <3>3. (depth' > 0 => ready') /\ (depth' = 0 /\ ready' => begun')
      BY <1>0, <1>4, <2>1, <2>6, <3>1
    <3> QED BY <1>1, <2>1, <2>3, <3>1, <3>2, <3>3 DEF IInv, ReadyIsAwake
  <2> QED BY <2>5, <2>6
<1>10. CASE Reset
  <2>1. calls'[a] = <<>> /\ pc'[a] = "run" /\ depth' = 0 /\ ready' = FALSE
    BY <1>10 DEF Reset
  <2>2. TypeOK'
    <3>1. calls' \in [Tasks -> Seq(BOOLEAN)]
      BY <1>10, StandsEmpty DEF Reset
    <3>2. attempt' \in [Tasks -> 0..(WakeAttempts - 1)] /\ misses' \in 0..MaxMisses
      BY <1>10, PowerAssumption DEF Reset
    <3> QED BY <1>10, <3>1, <3>2 DEF Reset, IInv, TypeOK
  <2> QED BY <1>1, <1>3, <2>1, <2>2, StandsEmpty DEF ReadyIsAwake
<1>11. CASE UNCHANGED vars
  <2>1. Stands(calls[a], Standing)' = Stands(calls[a], Standing) /\ TypeOK'
    BY <1>2, <1>3, <1>11 DEF vars, IInv, TypeOK
  <2> QED BY <1>0, <1>1, <1>4, <1>11, <2>1 DEF vars, IInv, ReadyIsAwake
<1> QED BY <1>5, <1>6, <1>7, <1>8, <1>9, <1>10, <1>11 DEF Next

-----------------------------------------------------------------------------
(* Whatever calls nest, and however many wakes fail: a flash that a call   *)
(* brought up stays up until that call's suspend(), a flash that is up is  *)
(* awake, and only begin() leaves it up with nobody holding it.            *)
THEOREM Safety ==
  Alone => (Spec => [](TypeOK /\ HeldMeansReady /\ ReadyIsAwake /\ OnlyBeginLeavesItUp))
<1> SUFFICES ASSUME NEW a, Tasks = {a}
             PROVE  Spec => [](TypeOK /\ HeldMeansReady /\ ReadyIsAwake /\ OnlyBeginLeavesItUp)
  BY DEF Alone
<1>1. Init => IInv
  BY SafeInit
<1>2. IInv /\ [Next]_vars => IInv'
  BY SafeStep
<1>3. IInv => TypeOK /\ HeldMeansReady /\ ReadyIsAwake /\ OnlyBeginLeavesItUp
  <2> SUFFICES ASSUME IInv
               PROVE  TypeOK /\ HeldMeansReady /\ ReadyIsAwake /\ OnlyBeginLeavesItUp
    OBVIOUS
  <2>1. /\ depth \in Nat /\ calls[a] \in Seq(BOOLEAN) /\ Stands(calls[a], Standing)
        /\ Waking <=> pc[a] = "wake"
        /\ pc[a] \in {"run", "wake"}
    BY OneTask DEF IInv, TypeOK
  <2>2. Held(a) <=> Standing > 0
    <3>1. Standing \in Nat /\ Len(calls[a]) \in Nat
      BY <2>1 DEF Standing
    <3>2. \A i \in DOMAIN calls[a] : calls[a][i] <=> calls[a][i] = TRUE
      BY <2>1
    <3> QED BY <2>1, <3>1, <3>2 DEF Held, Stands
  <2>3. HeldMeansReady
    BY <2>1, <2>2 DEF HeldMeansReady, IInv, Standing
  <2>4. OnlyBeginLeavesItUp
    BY <2>1, <2>2 DEF OnlyBeginLeavesItUp, IInv, UpForAReason, WakingIsFirst, Standing
  <2> QED BY <2>3, <2>4 DEF IInv
<1> QED BY <1>1, <1>2, <1>3, PTL DEF Spec

(* Only begin() leaves the flash up with nobody holding it: the last       *)
(* suspend() takes it down, also after holds that were given up.           *)
THEOREM NotLeftUp == Alone => (Spec => []OnlyBeginLeavesItUp)
<1> SUFFICES ASSUME Alone PROVE Spec => []OnlyBeginLeavesItUp
  OBVIOUS
<1>1. Spec => [](TypeOK /\ HeldMeansReady /\ ReadyIsAwake /\ OnlyBeginLeavesItUp)
  BY Safety
<1> QED BY <1>1, PTL

(* However slow the chip, resume() gives up only after each of its         *)
(* attempts has missed.                                                    *)
THEOREM Persistence == Alone => (Spec => BacksOutAfterAllAttempts)
<1> SUFFICES ASSUME NEW a, Tasks = {a} PROVE Spec => BacksOutAfterAllAttempts
  BY DEF Alone
<1> DEFINE BacksOut(t) ==
      pc[t] = "wake" /\ pc'[t] = "run" /\ calls'[t] # <<>> /\ ~Last(calls'[t])
<1>1. Init => IInv
  BY SafeInit
<1>2. IInv /\ [Next]_vars => IInv'
  BY SafeStep
<1>3. IInv /\ [Next]_vars => [\A t \in Tasks : BacksOut(t) => misses' >= WakeAttempts]_vars
  <2> SUFFICES ASSUME IInv, Next, BacksOut(a) PROVE misses' >= WakeAttempts
    OBVIOUS
  <2>0. /\ calls[a] \in Seq(BOOLEAN) /\ misses \in Nat /\ attempt[a] \in Nat
        /\ misses >= attempt[a] /\ pc \in [Tasks -> {"run", "wake"}]
        /\ calls \in [Tasks -> Seq(BOOLEAN)]
    BY OneTask, PowerAssumption DEF IInv, TypeOK, WakingIsFirst
  <2>1. CASE WakeFails(a)
    <3>1. ~(attempt[a] + 1 < WakeAttempts) /\ misses' = misses + 1
      BY <2>0, <2>1 DEF WakeFails, JedecMissed
    <3> QED BY <2>0, <3>1, PowerAssumption
  <2>2. CASE WakeSucceeds(a)
    <3>1. calls'[a] = Append(calls[a], TRUE)
      BY <2>0, <2>2 DEF WakeSucceeds, Returned
    <3>2. Last(calls'[a]) = TRUE
      BY <2>0, <3>1, AppendProperties DEF Last
    <3> QED BY <3>2
  <2>3. CASE Begin(a) \/ Resume(a) \/ Suspend(a)
    BY <2>3 DEF Begin, Resume, Suspend
  <2>4. CASE Reset
    BY <2>4 DEF Reset
  <2> QED BY <2>1, <2>2, <2>3, <2>4 DEF Next
<1> QED BY <1>1, <1>2, <1>3, PTL DEF Spec, BacksOutAfterAllAttempts

-----------------------------------------------------------------------------
(* The calls leave the power of the flash to resume() and suspend().       *)

LEMMA AnswersOnly ==
  ASSUME NEW call, NEW bytes, NEW ok, Answers(call, bytes, ok)
  PROVE  access'.call = call /\ access'.bytes = bytes /\ UNCHANGED vars
BY DEF Answers

(* Whatever a call of the flash reaches, it reaches while _ready is set.   *)
LEMMA EraseAnswers ==
  ASSUME NEW call, NEW addr, EraseOneSectorAbs(call, addr)
  PROVE  /\ UNCHANGED vars /\ access'.call = call
         /\ \/ access'.bytes = {}
            \/ /\ ready /\ addr % SectorSize = 0
               /\ access'.bytes = Bytes(addr, SectorSize)
BY AnswersOnly DEF EraseOneSectorAbs

LEMMA TransferAnswers ==
  ASSUME NEW call, NEW addr, NEW n, TransferAbs(call, addr, n)
  PROVE  /\ UNCHANGED vars /\ access'.call = call
         /\ \/ access'.bytes = {}
            \/ ready /\ n # 0 /\ access'.bytes = Bytes(addr, n)
BY AnswersOnly DEF TransferAbs

LEMMA CallAnswers ==
  ASSUME Call PROVE UNCHANGED vars /\ (access'.bytes # {} => ready)
<1>1. CASE RawErase
  BY <1>1, AnswersOnly, EraseAnswers DEF RawErase
<1>2. CASE RawTransfer("rawWrite") \/ RawTransfer("rawRead")
  BY <1>2, AnswersOnly, TransferAnswers DEF RawTransfer
<1>3. CASE EraseDownloadSlot
  BY <1>3, AnswersOnly DEF EraseDownloadSlot
<1>4. CASE EraseDownloadSector
  BY <1>4, AnswersOnly, EraseAnswers DEF EraseDownloadSector
<1>5. CASE \E call, base, usable : SlotTransfer(call, base, usable)
  BY <1>5, AnswersOnly, TransferAnswers DEF SlotTransfer
<1> QED BY <1>1, <1>2, <1>3, <1>4, <1>5 DEF Call

(* The power model is the same with the calls as without them: what holds  *)
(* of the one holds of the other.                                          *)
THEOREM CallsLeavePower == RegionsSpec => Spec
<1>1. RegionsInit => Init
  BY DEF RegionsInit
<1>2. [RegionsNext]_regionVars => [Next]_vars
  BY CallAnswers DEF RegionsNext, Power, regionVars
<1> QED BY <1>1, <1>2, PTL DEF RegionsSpec, Spec

(* Reads, writes and erases between them take no hold away and leave none. *)
THEOREM HeldDespiteCalls ==
  Alone => (RegionsSpec => [](HeldMeansReady /\ OnlyBeginLeavesItUp))
<1> SUFFICES ASSUME Alone PROVE RegionsSpec => [](HeldMeansReady /\ OnlyBeginLeavesItUp)
  OBVIOUS
<1>1. Spec => [](TypeOK /\ HeldMeansReady /\ ReadyIsAwake /\ OnlyBeginLeavesItUp)
  BY Safety
<1> QED BY <1>1, CallsLeavePower, PTL

-----------------------------------------------------------------------------
(* Sectors, and the two slots of the partition map.                        *)

LEMMA DivMod ==
  ASSUME NEW x \in Nat, NEW m \in Nat \ {0}
  PROVE  x % m \in 0..(m - 1) /\ x \div m \in Nat /\ x = m * (x \div m) + (x % m)
BY SMT

LEMMA Multiple == ASSUME NEW q \in Nat, NEW m \in Nat \ {0} PROVE (m * q) % m = 0
BY SMT

LEMMA MultipleLess ==
  ASSUME NEW m \in Nat \ {0}, NEW i \in Nat, NEW j \in Nat
  PROVE  /\ m * i < m * j => m * i + m <= m * j
         /\ m * i <= m * j => m * j - m * i = m * (j - i) /\ j - i \in Nat
         /\ i <= j => m * i <= m * j
<1>1. CASE i < j
  <2>1. PICK d \in Nat : j = i + 1 + d
    BY <1>1
  <2>2. m * j = m * i + m + m * d /\ m * d >= 0
    BY <2>1, SMT
  <2>3. m * (j - i) = m + m * d /\ j - i \in Nat
    BY <2>1, SMT
  <2> QED BY <2>2, <2>3, SMT
<1>2. CASE j <= i
  <2>1. PICK d \in Nat : i = j + d
    BY <1>2
  <2>2. m * i = m * j + m * d /\ m * d >= 0
    BY <2>1, SMT
  <2>3. m * i <= m * j => d = 0
    <3>1. d >= 1 => m * d >= m
      BY SMT
    <3> QED BY <2>2, <3>1, SMT
  <2>4. ~(m * i < m * j)
    BY <2>2, SMT
  <2> QED BY <2>1, <2>3, <2>4, SMT
<1> QED BY <1>1, <1>2, SMT

(* Differences of multiples of a sector are multiples of a sector. *)
LEMMA AlignedLess ==
  ASSUME NEW x \in Nat, NEW y \in Nat, NEW m \in Nat \ {0},
         x % m = 0, y % m = 0, x <= y
  PROVE  /\ (y - x) % m = 0 /\ y - x \in Nat
         /\ x < y => x + m <= y
<1>1. x = m * (x \div m) /\ y = m * (y \div m) /\ x \div m \in Nat /\ y \div m \in Nat
  BY DivMod
<1>2. y - x = m * ((y \div m) - (x \div m)) /\ (y \div m) - (x \div m) \in Nat
  BY <1>1, MultipleLess
<1>3. (y - x) % m = 0
  BY <1>2, Multiple
<1>4. x < y => x + m <= y
  BY <1>1, MultipleLess
<1> QED BY <1>3, <1>4

(* The slots are inside the flash, and made of whole sectors. *)
LEMMA Partition ==
  /\ DownloadSlotAddr \in Nat /\ DownloadSlotUsable \in Nat
  /\ BackupSlotAddr \in Nat /\ BackupSlotUsable \in Nat
  /\ DownloadSlotAddr + DownloadSlotUsable <= ChipSize
  /\ BackupSlotAddr + BackupSlotUsable <= ChipSize
  /\ DownloadSlotAddr % SectorSize = 0 /\ DownloadSlotUsable % SectorSize = 0
<1>1. /\ DownloadSlotAddr \in Nat /\ DownloadSlotUsable \in Nat
      /\ BackupSlotAddr \in Nat /\ BackupSlotUsable \in Nat
      /\ DownloadSlotAddr + DownloadSlotUsable <= ChipSize
      /\ BackupSlotAddr + BackupSlotUsable <= ChipSize
  BY RegionsAssumption
     DEF DownloadSlotAddr, DownloadSlotUsable, BackupSlotAddr, BackupSlotUsable
<1>2. DownloadSlotAddr % SectorSize = 0
  <2>1. SlotSize <= ChipSize
    BY RegionsAssumption
  <2> QED BY <2>1, RegionsAssumption, AlignedLess DEF DownloadSlotAddr
<1>3. DownloadSlotUsable % SectorSize = 0
  <2>1. (2 * SectorSize) % SectorSize = 0
    <3>1. (SectorSize * 2) % SectorSize = 0
      BY RegionsAssumption, Multiple
    <3> QED BY <3>1, RegionsAssumption
  <2>2. 2 * SectorSize \in Nat /\ 2 * SectorSize <= SlotSize
    BY RegionsAssumption
  <2> QED BY <2>1, <2>2, RegionsAssumption, AlignedLess DEF DownloadSlotUsable
<1> QED BY <1>1, <1>2, <1>3

(* Inside the flash no address is folded, and no sum that stays there wraps. *)
LEMMA BytesInRegion ==
  ASSUME NEW base \in Nat, NEW usable \in Nat, base + usable <= ChipSize,
         NEW o \in Nat, NEW n \in Nat \ {0}, o + n <= usable
  PROVE  /\ Plus(base, o) = base + o
         /\ Bytes(base + o, n) \subseteq Region(base, usable)
<1>1. base + o \in Nat /\ base + o < Word /\ Word \in Nat \ {0}
  BY RegionsAssumption
<1>2. Plus(base, o) = base + o
  BY <1>1, SMT DEF Plus
<1>3. ASSUME NEW a \in (base + o)..(base + o + n - 1)
      PROVE  a % ChipSize \in Region(base, usable)
  <2>1. a \in Nat /\ a < ChipSize /\ base <= a /\ a <= base + usable - 1
    BY RegionsAssumption
  <2>2. a % ChipSize = a
    BY <2>1, RegionsAssumption, SMT
  <2> QED BY <2>1, <2>2 DEF Region
<1> QED BY <1>2, <1>3 DEF Bytes

LEMMA SlotTransferStays ==
  ASSUME NEW call, NEW base \in Nat, NEW usable \in Nat, base + usable <= ChipSize,
         SlotTransfer(call, base, usable)
  PROVE  access'.call = call /\ access'.bytes \subseteq Region(base, usable)
<1>1. PICK o \in Words, n \in Lengths :
        IF ~WithinSlot(o, n, usable) THEN Answers(call, {}, FALSE)
        ELSE TransferAbs(call, Plus(base, o), n)
  BY DEF SlotTransfer
<1>2. o \in Nat /\ n \in Nat
  BY RegionsAssumption DEF Words
<1>3. CASE access'.bytes = {}
  BY <1>1, <1>3, AnswersOnly, TransferAnswers
<1>4. CASE access'.bytes # {}
  <2>1. o + n <= usable /\ TransferAbs(call, Plus(base, o), n)
    BY <1>1, <1>4, AnswersOnly DEF WithinSlot
  <2>2. n # 0 /\ access'.call = call /\ access'.bytes = Bytes(Plus(base, o), n)
    BY <1>4, <2>1, TransferAnswers
  <2> QED BY <1>2, <2>1, <2>2, BytesInRegion
<1> QED BY <1>3, <1>4

(* A sector of the download slot: an offset the erase accepts is that of a *)
(* sector of the slot, because the slot begins with a sector.              *)
LEMMA EraseSectorStays ==
  ASSUME EraseDownloadSector
  PROVE  /\ access'.call = "eraseDownload"
         /\ access'.bytes \subseteq Region(DownloadSlotAddr, DownloadSlotUsable)
<1>1. PICK o \in Words :
        IF o >= DownloadSlotUsable THEN Answers("eraseDownload", {}, FALSE)
        ELSE EraseOneSectorAbs("eraseDownload", Plus(DownloadSlotAddr, o))
  BY DEF EraseDownloadSector
<1>2. CASE access'.bytes = {}
  BY <1>1, <1>2, AnswersOnly, EraseAnswers
<1>3. CASE access'.bytes # {}
  <2>0. /\ ~(o >= DownloadSlotUsable)
        /\ EraseOneSectorAbs("eraseDownload", Plus(DownloadSlotAddr, o))
    BY <1>1, <1>3, AnswersOnly
  <2>1. /\ o \in Nat /\ o < DownloadSlotUsable /\ o + 1 <= DownloadSlotUsable
        /\ SectorSize \in Nat \ {0} /\ DownloadSlotUsable \in Nat
    BY <2>0, RegionsAssumption, Partition DEF Words
  <2>3. /\ access'.call = "eraseDownload" /\ Plus(DownloadSlotAddr, o) % SectorSize = 0
        /\ access'.bytes = Bytes(Plus(DownloadSlotAddr, o), SectorSize)
    BY <1>3, <2>0, EraseAnswers
  <2>4. Plus(DownloadSlotAddr, o) = DownloadSlotAddr + o
    <3>1. 1 \in Nat \ {0}
      OBVIOUS
    <3> QED BY <2>1, <3>1, Partition, BytesInRegion
  <2>5. o % SectorSize = 0
    <3>1. DownloadSlotAddr + o - DownloadSlotAddr = o
          /\ DownloadSlotAddr <= DownloadSlotAddr + o /\ DownloadSlotAddr + o \in Nat
      BY <2>1, Partition
    <3>2. (DownloadSlotAddr + o - DownloadSlotAddr) % SectorSize = 0
      BY <2>1, <2>3, <2>4, <3>1, Partition, AlignedLess
    <3> QED BY <3>1, <3>2
  <2>6. o + SectorSize <= DownloadSlotUsable
    <3>1. DownloadSlotUsable % SectorSize = 0 /\ o <= DownloadSlotUsable
      BY <2>1, Partition
    <3> QED BY <2>1, <2>5, <3>1, AlignedLess
  <2> QED BY <2>1, <2>3, <2>4, <2>6, Partition, RegionsAssumption, BytesInRegion
<1> QED BY <1>2, <1>3

LEMMA EraseSlotStays ==
  ASSUME EraseDownloadSlot
  PROVE  /\ access'.call = "eraseDownload"
         /\ access'.bytes \subseteq Region(DownloadSlotAddr, DownloadSlotUsable)
<1>1. CASE ~ready
  <2>1. Answers("eraseDownload", {}, FALSE)
    BY <1>1 DEF EraseDownloadSlot
  <2>2. access'.call = "eraseDownload" /\ access'.bytes = {}
    BY <2>1, AnswersOnly
  <2> QED BY <2>2
<1>2. CASE ready
  <2>1. PICK n \in 1..(DownloadSlotUsable \div SectorSize), ok \in BOOLEAN :
          Answers("eraseDownload", Bytes(DownloadSlotAddr, n * SectorSize), ok)
    BY <1>2 DEF EraseDownloadSlot
  <2>2. /\ DownloadSlotUsable \div SectorSize \in Nat
        /\ SectorSize * (DownloadSlotUsable \div SectorSize) <= DownloadSlotUsable
    BY Partition, RegionsAssumption, DivMod
  <2>3. n \in Nat /\ n >= 1 /\ n <= DownloadSlotUsable \div SectorSize
    BY <2>2
  <2>4. SectorSize * n <= DownloadSlotUsable
    <3>1. SectorSize \in Nat \ {0} /\ DownloadSlotUsable \in Nat
      BY RegionsAssumption, Partition
    <3>2. SectorSize * n <= SectorSize * (DownloadSlotUsable \div SectorSize)
      BY <2>2, <2>3, <3>1, MultipleLess
    <3> QED BY <2>2, <2>3, <3>1, <3>2, SMT
  <2>5. n * SectorSize \in Nat \ {0} /\ 0 + n * SectorSize <= DownloadSlotUsable
    BY <2>3, <2>4, RegionsAssumption, SMT
  <2>6. Bytes(DownloadSlotAddr + 0, n * SectorSize)
          \subseteq Region(DownloadSlotAddr, DownloadSlotUsable)
    BY <2>5, Partition, BytesInRegion
  <2> QED BY <2>1, <2>6, AnswersOnly, Partition
<1> QED BY <1>1, <1>2

LEMMA CallStays == Call => SlotCallsStayInSlot'
<1>1. CASE RawErase
  <2>1. access'.call = "rawErase"
    BY <1>1, AnswersOnly, EraseAnswers DEF RawErase
  <2> QED BY <2>1 DEF SlotCallsStayInSlot
<1>2. CASE RawTransfer("rawWrite") \/ RawTransfer("rawRead")
  <2>1. access'.call \in {"rawWrite", "rawRead"}
    BY <1>2, AnswersOnly, TransferAnswers DEF RawTransfer
  <2> QED BY <2>1 DEF SlotCallsStayInSlot
<1>3. CASE EraseDownloadSlot \/ EraseDownloadSector
  BY <1>3, EraseSlotStays, EraseSectorStays DEF SlotCallsStayInSlot
<1>4. CASE \/ SlotTransfer("writeDownload", DownloadSlotAddr, DownloadSlotUsable)
           \/ SlotTransfer("readDownload", DownloadSlotAddr, DownloadSlotUsable)
  BY <1>4, Partition, SlotTransferStays DEF SlotCallsStayInSlot
<1>5. CASE SlotTransfer("readBackup", BackupSlotAddr, BackupSlotUsable)
  <2>1. /\ access'.call = "readBackup"
        /\ access'.bytes \subseteq Region(BackupSlotAddr, BackupSlotUsable)
    BY <1>5, Partition, SlotTransferStays
  <2> QED BY <2>1, Zenon DEF SlotCallsStayInSlot
<1> QED BY <1>1, <1>2, <1>3, <1>4, <1>5 DEF Call

(* A call that takes an offset into a slot reaches that slot only, for     *)
(* every offset a word holds and every length, however wide a word is.     *)
THEOREM SlotCallsStay == RegionsSpec => []SlotCallsStayInSlot
<1>1. RegionsInit => SlotCallsStayInSlot
  BY DEF RegionsInit, NoAccess, SlotCallsStayInSlot
<1>2. SlotCallsStayInSlot /\ [RegionsNext]_regionVars => SlotCallsStayInSlot'
  <2> SUFFICES ASSUME SlotCallsStayInSlot, [RegionsNext]_regionVars
               PROVE  SlotCallsStayInSlot'
    OBVIOUS
  <2>1. CASE Call
    BY <2>1, CallStays
  <2>2. CASE Power
    BY <2>2 DEF Power, NoAccess, SlotCallsStayInSlot
  <2>3. CASE UNCHANGED regionVars
    BY <2>3 DEF regionVars, SlotCallsStayInSlot
  <2> QED BY <2>1, <2>2, <2>3 DEF RegionsNext
<1> QED BY <1>1, <1>2, PTL DEF RegionsSpec

(* A flash that is up is awake, for any number of tasks. *)
LEMMA ReadyStep == ReadyIsAwake /\ [Next]_vars => ReadyIsAwake'
<1> SUFFICES ASSUME ReadyIsAwake, [Next]_vars PROVE ReadyIsAwake'
  OBVIOUS
<1>1. CASE \E t \in Tasks : Begin(t)
  BY <1>1 DEF Begin, PowerUp, ReadyIsAwake
<1>2. CASE \E t \in Tasks : Resume(t)
  BY <1>2 DEF Resume, PowerUp, ReadyIsAwake
<1>3. CASE \E t \in Tasks : WakeSucceeds(t) \/ WakeFails(t)
  <2>1. \/ periph /\ periph' = periph /\ chip' = "awake"
        \/ chip' = "awake" /\ UNCHANGED <<ready, periph>>
    BY <1>3, Zenon DEF WakeSucceeds, WakeFails
  <2> QED BY <2>1 DEF ReadyIsAwake
<1>4. CASE \E t \in Tasks : Suspend(t)
  BY <1>4 DEF Suspend, PowerDown, ReadyIsAwake
<1>5. CASE Reset
  BY <1>5 DEF Reset, ReadyIsAwake
<1>6. CASE UNCHANGED vars
  BY <1>6 DEF vars, ReadyIsAwake
<1> QED BY <1>1, <1>2, <1>3, <1>4, <1>5, <1>6 DEF Next

(* No call reaches a flash that sleeps or has no peripheral in front of    *)
(* it, for any number of tasks: what a call reaches it reaches while the   *)
(* flash counts as up.                                                     *)
THEOREM CallsFindItAwake == RegionsSpec => []ReachesAwakeChip
<1> DEFINE RInv == ReadyIsAwake /\ (access.bytes # {} => ready)
<1>1. RegionsInit => RInv
  BY DEF RegionsInit, Init, ReadyIsAwake, NoAccess
<1>2. RInv /\ [RegionsNext]_regionVars => RInv'
  <2> SUFFICES ASSUME RInv, [RegionsNext]_regionVars PROVE RInv'
    OBVIOUS
  <2>1. CASE Call
    BY <2>1, CallAnswers DEF vars, ReadyIsAwake
  <2>2. CASE Power
    BY <2>2, ReadyStep DEF Power, NoAccess
  <2>3. CASE UNCHANGED regionVars
    BY <2>3 DEF regionVars, vars, ReadyIsAwake
  <2> QED BY <2>1, <2>2, <2>3 DEF RegionsNext
<1>3. RInv => ReachesAwakeChip
  BY DEF ReadyIsAwake, ReachesAwakeChip
<1> QED BY <1>1, <1>2, <1>3, PTL DEF RegionsSpec
=============================================================================
