------------------------- MODULE SettingsStoreProofs -------------------------
(***************************************************************************)
(* The settings store for any firmware versions and any number of          *)
(* generations.  Typing holds whatever the flash does; the safety          *)
(* properties and the refinement need reads that do not fail.              *)
(***************************************************************************)
EXTENDS SettingsStore, TLAPS

IInv == TypeOK /\ WriteAimed /\ ConsecutiveGenerations /\ AcknowledgedIsVisible

-----------------------------------------------------------------------------
(* Typing. `BelowBound` at "choose" is what keeps the sequence in range.   *)

TypeInv == TypeOK /\ (pc = "choose" => BelowBound)

LEMMA ValuesTyped == Zeroed \in Settings /\ Invalid \in Blocks
<1>1. Zeroed \in Settings
  BY DEF Zeroed, Settings
<1>2. Invalid \in Blocks
  BY <1>1, StoreAssumption DEF Invalid, Blocks
<1> QED BY <1>1, <1>2

LEMMA StagedTyped ==
  ASSUME NEW s \in Settings, NEW v \in Versions
  PROVE  Staged(s, v) \in Settings
BY DEF Staged, Settings

LEMMA ReadTyped ==
  ASSUME TypeOK, NEW seen \in SUBSET Sectors
  PROVE  ReadOrZero(seen) \in Settings
<1>1. ActiveSector(seen) \in Sectors
  BY DEF ActiveSector, Sectors
<1>2. blk[ActiveSector(seen)].body \in Settings
  BY <1>1 DEF TypeOK, Blocks
<1> QED BY <1>2, ValuesTyped DEF ReadOrZero

LEMMA TypeInit == Init => TypeInv
BY ValuesTyped, StoreAssumption DEF Init, TypeInv, TypeOK, Sectors

LEMMA TypeStep == TypeInv /\ [Next]_vars => TypeInv'
<1> SUFFICES ASSUME TypeInv, [Next]_vars PROVE TypeInv'
  OBVIOUS
<1> USE DEF TypeInv
<1>1. CASE CallWrite
  BY <1>1 DEF CallWrite, TypeOK, BelowBound
<1>2. CASE CallTrigger
  <2>1. PICK v \in Versions, readable \in Readable :
          req' = Staged(ReadOrZero(ValidIn(readable)), v)
    BY <1>2 DEF CallTrigger
  <2>2. ValidIn(readable) \in SUBSET Sectors
    BY DEF Readable, ValidIn
  <2>3. req' \in Settings
    BY <2>1, <2>2, ReadTyped, StagedTyped
  <2> QED BY <1>2, <2>3 DEF CallTrigger, TypeOK, BelowBound
<1>3. CASE Choose
  <2>1. PICK readable \in Readable :
          /\ target' = Target(ValidIn(readable))
          /\ seq' = CurrentSeq(ValidIn(readable)) + 1
    BY <1>3 DEF Choose
  <2>2. target' \in Sectors
    BY <2>1 DEF Target, Sectors
  <2>3. \A s \in Sectors : blk[s].sequence \in 0..MaxSeq /\ blk[s].sequence < MaxSeq
    BY <1>3 DEF Choose, TypeOK, Blocks, BelowBound
  <2>4. seq' \in 0..MaxSeq
    BY <2>1, <2>3, StoreAssumption DEF CurrentSeq, ActiveSector, Sectors
  <2> QED BY <1>3, <2>2, <2>4 DEF Choose, TypeOK
<1>4. CASE EraseTarget
  BY <1>4, ValuesTyped DEF EraseTarget, TypeOK, locals
<1>5. CASE EraseFails
  BY <1>5, ValuesTyped DEF EraseFails, Return, TypeOK
<1>6. CASE ProgramTarget
  <2>1. Fresh \in Blocks
    BY DEF Fresh, Blocks, TypeOK
  <2> QED BY <1>6, <2>1 DEF ProgramTarget, Return, TypeOK
<1>7. CASE ProgramFails
  BY <1>7 DEF ProgramFails, Return, TypeOK
<1>8. CASE PowerLoss
  <2>1. Fresh \in Blocks
    BY DEF Fresh, Blocks, TypeOK
  <2>2. Interrupted \subseteq Blocks
    BY <2>1, ValuesTyped DEF Interrupted, TypeOK
  <2> QED BY <1>8, <2>2, ValuesTyped, StoreAssumption
          DEF PowerLoss, TypeOK, Sectors
<1>9. CASE UNCHANGED vars
  BY <1>9 DEF vars, TypeOK, BelowBound
<1> QED BY <1>1, <1>2, <1>3, <1>4, <1>5, <1>6, <1>7, <1>8, <1>9 DEF Next

(* Type correctness: whatever reads fail, wherever power is lost. *)
THEOREM TypeCorrect == Spec => []TypeOK
<1>1. TypeInv => TypeOK
  BY DEF TypeInv
<1> QED BY TypeInit, TypeStep, <1>1, PTL DEF Spec

-----------------------------------------------------------------------------
(* Safety, when every read of a sector succeeds. *)

LEMMA ReadsSeeAll ==
  ASSUME ReadFaults = FALSE, NEW readable \in Readable
  PROVE  ValidIn(readable) = Good
BY DEF Readable, Good

(* The newest of two blocks that are not of the same generation. *)
NewestAt(s) ==
  /\ blk[s].valid
  /\ blk[Other(s)].valid => blk[Other(s)].sequence < blk[s].sequence

LEMMA ActiveIs ==
  TypeOK => \A s \in Sectors : NewestAt(s) => Good # {} /\ Active = s
<1> SUFFICES ASSUME TypeOK, NEW s \in Sectors, NewestAt(s)
             PROVE  Good # {} /\ Active = s
  OBVIOUS
<1>1. Other(s) \in Sectors /\ Sectors = {s, Other(s)}
  BY DEF Other, Sectors
<1>2. s \in Good
  BY DEF Good, ValidIn, NewestAt
<1>3. \A t \in Sectors : blk[t].sequence \in Nat
  BY StoreAssumption DEF TypeOK, Blocks
<1>4. s \in Newest(Good)
  BY <1>1, <1>2, <1>3 DEF Newest, Good, ValidIn, NewestAt
<1>5. Other(s) \notin Newest(Good)
  BY <1>1, <1>2, <1>3 DEF Newest, Good, ValidIn, NewestAt
<1>6. Active = s
  BY <1>4, <1>5 DEF Active, ActiveSector, Other, Sectors
<1> QED BY <1>2, <1>6

(* The same fact about the state a step leads to. *)
LEMMA ActiveIsNext ==
  (TypeOK => \A s \in Sectors : NewestAt(s) => Good # {} /\ Active = s)'
BY ActiveIs, PTL

LEMMA AimedWhenChosen ==
  ASSUME TypeOK, ConsecutiveGenerations, Choose, ReadFaults = FALSE
  PROVE  Aimed'
<1>1. target' = Target(Good) /\ seq' = CurrentSeq(Good) + 1 /\ blk' = blk
  BY ReadsSeeAll DEF Choose
<1>2. \A t \in Sectors : blk[t].sequence \in Nat
  BY StoreAssumption DEF TypeOK, Blocks
<1>3. CASE Good = {}
  BY <1>1, <1>3 DEF Aimed, Good, ValidIn
<1>4. CASE Good # {}
  <2>1. PICK s \in Sectors : /\ blk[s].valid
                             /\ blk[Other(s)].valid =>
                                  blk[s].sequence = blk[Other(s)].sequence + 1
    BY <1>2, <1>4 DEF Good, ValidIn, ConsecutiveGenerations, Other, Sectors
  <2>2. Active = s
    BY <1>2, <2>1, ActiveIs DEF NewestAt, Other, Sectors
  <2>3. target' = Other(s)
    BY <1>1, <1>2, <2>1 DEF Target, Good, ValidIn, Other, Sectors
  <2>4. seq' = blk[s].sequence + 1
    BY <1>1, <1>4, <2>2 DEF CurrentSeq, Active
  <2>5. Other(target') = s
    BY <2>3 DEF Other, Sectors
  <2> QED BY <1>1, <1>2, <2>1, <2>3, <2>4, <2>5 DEF Aimed, Other, Sectors
<1> QED BY <1>3, <1>4
(* What a flash operation on the target sector does to what readers see:  *)
(* nothing while the sector holds no valid block, the new value once the   *)
(* fresh block is in place.                                                *)
LEMMA TargetDamaged ==
  ASSUME TypeOK, TypeOK', Aimed, ConsecutiveGenerations,
         blk' = [ blk EXCEPT ![target] = Invalid ]
  PROVE  /\ Good # {} <=> Good' # {}
         /\ ReadOrZero(Good)' = ReadOrZero(Good)
         /\ ConsecutiveGenerations'
<1>1. ~ blk'[target].valid /\ blk'[Other(target)] = blk[Other(target)]
  BY DEF TypeOK, Invalid, Other, Sectors
<1>2. ConsecutiveGenerations'
  BY <1>1 DEF ConsecutiveGenerations, Good, ValidIn, TypeOK, Sectors
<1>3. CASE Good = {}
  <2>1. Good' = {}
    BY <1>1, <1>3 DEF Good, ValidIn, Other, Sectors, TypeOK
  <2> QED BY <1>2, <1>3, <2>1 DEF ReadOrZero
<1>4. CASE Good # {}
  <2>1. PICK o \in Sectors : o = Other(target) /\ Other(o) = target
    BY DEF TypeOK, Other, Sectors
  <2>2. \A t \in Sectors : blk[t].sequence \in Nat
    BY StoreAssumption DEF TypeOK, Blocks
  <2>3. NewestAt(o)
    BY <1>4, <2>1, <2>2 DEF Aimed, NewestAt, TypeOK
  <2>4. ~ blk'[Other(o)].valid /\ blk'[o] = blk[o]
    BY <1>1, <2>1
  <2>5. NewestAt(o)'
    BY <2>3, <2>4 DEF NewestAt
  <2>6. Good # {} /\ Active = o
    BY <2>3, ActiveIs
  <2>7. Good' # {} /\ Active' = o
    BY <2>5, ActiveIsNext
  <2>8. ReadOrZero(Good) = blk[o].body
    BY <2>6 DEF ReadOrZero, Active
  <2>9. ReadOrZero(Good)' = blk'[o].body
    BY <2>7 DEF ReadOrZero, Active
  <2> QED BY <1>2, <2>4, <2>6, <2>7, <2>8, <2>9
<1> QED BY <1>3, <1>4

LEMMA TargetProgrammed ==
  ASSUME TypeOK, TypeOK', Aimed, ConsecutiveGenerations,
         blk' = [ blk EXCEPT ![target] = Fresh ]
  PROVE  /\ Good' # {}
         /\ Active' = target
         /\ ReadOrZero(Good)' = req
         /\ ConsecutiveGenerations'
<1>1. PICK o \in Sectors : o = Other(target) /\ Other(o) = target
  BY DEF TypeOK, Other, Sectors
<1>2. PICK t \in Sectors : t = target /\ Other(t) = o
  BY <1>1 DEF TypeOK
<1>3. blk'[t] = Fresh /\ blk'[o] = blk[o]
  BY <1>1, <1>2 DEF TypeOK, Other, Sectors
<1>4. seq \in Nat /\ blk[o].sequence \in Nat /\ (blk[o].valid => seq = blk[o].sequence + 1)
  BY <1>1, StoreAssumption DEF TypeOK, Blocks, Aimed, Good, ValidIn
<1>5. NewestAt(t)'
  BY <1>2, <1>3, <1>4 DEF NewestAt, Fresh
<1>6. Good' # {} /\ Active' = t
  BY <1>5, ActiveIsNext
<1>7. ReadOrZero(Good)' = req
  BY <1>3, <1>6 DEF ReadOrZero, Active, Fresh
<1>8. ConsecutiveGenerations'
  BY <1>2, <1>3, <1>4 DEF ConsecutiveGenerations, Good, ValidIn, Fresh, Other, Sectors
<1> QED BY <1>2, <1>6, <1>7, <1>8

(* The effect of a power loss is that of one of the flash operations, or   *)
(* none.                                                                   *)
LEMMA PowerLossEffect ==
  ASSUME TypeOK, PowerLoss
  PROVE  \/ blk' = blk
         \/ pc = "erase" /\ blk' = [ blk EXCEPT ![target] = Invalid ]
         \/ pc = "program" /\ blk' = [ blk EXCEPT ![target] = Fresh ]
<1>1. [ blk EXCEPT ![target] = blk[target] ] = blk
  BY DEF TypeOK
<1> QED BY <1>1 DEF PowerLoss, Interrupted

LEMMA SafeInit == Init => IInv
<1> SUFFICES ASSUME Init PROVE IInv
  OBVIOUS
<1>1. TypeOK
  BY TypeInit DEF TypeInv
<1>2. Good = {}
  BY DEF Init, Good, ValidIn, Invalid, Sectors
<1> QED BY <1>1, <1>2 DEF Init, IInv, WriteAimed, ConsecutiveGenerations,
                          AcknowledgedIsVisible, Sectors

(* One step per action; a flash operation is one of the two lemmas above.  *)
LEMMA SafeStep ==
  ASSUME ReadFaults = FALSE, IInv, [Next]_vars
  PROVE  IInv' /\ (Good # {} => Good' # {})
<1>0. TypeOK'
  BY TypeStep DEF IInv, WriteAimed, TypeInv
<1> USE <1>0 DEF IInv
<1>1. CASE CallWrite
  BY <1>1 DEF CallWrite, WriteAimed, BelowBound, ConsecutiveGenerations,
              AcknowledgedIsVisible, Good, ValidIn
<1>2. CASE CallTrigger
  BY <1>2 DEF CallTrigger, WriteAimed, BelowBound, ConsecutiveGenerations,
              AcknowledgedIsVisible, Good, ValidIn
<1>3. CASE Choose
  <2>1. Aimed'
    BY <1>3, AimedWhenChosen
  <2> QED BY <1>3, <2>1 DEF Choose, WriteAimed, ConsecutiveGenerations,
              AcknowledgedIsVisible, Good, ValidIn
<1>4. CASE EraseTarget
  <2>1. /\ Good # {} <=> Good' # {}
        /\ ConsecutiveGenerations'
    BY <1>4, TargetDamaged DEF EraseTarget, WriteAimed
  <2>2. Aimed'
    BY <1>4, <2>1 DEF EraseTarget, locals, Aimed, WriteAimed, Invalid,
                      TypeOK, Other, Sectors
  <2> QED BY <1>4, <2>1, <2>2
          DEF EraseTarget, locals, WriteAimed, AcknowledgedIsVisible
<1>5. CASE EraseFails
  <2>1. blk' = blk \/ blk' = [ blk EXCEPT ![target] = Invalid ]
    BY <1>5 DEF EraseFails, TypeOK
  <2>2. blk' = blk => Good' = Good /\ ConsecutiveGenerations'
    BY DEF Good, ValidIn, ConsecutiveGenerations
  <2>3. (Good # {} => Good' # {}) /\ ConsecutiveGenerations'
    BY <1>5, <2>1, <2>2, TargetDamaged DEF EraseFails, WriteAimed
  <2> QED BY <1>5, <2>3 DEF EraseFails, Return, WriteAimed, AcknowledgedIsVisible
<1>6. CASE ProgramTarget
  <2>1. Good' # {} /\ ReadOrZero(Good)' = req /\ ConsecutiveGenerations'
    BY <1>6, TargetProgrammed DEF ProgramTarget, WriteAimed
  <2>2. AcknowledgedIsVisible'
    BY <1>6, <2>1 DEF ProgramTarget, Return, AcknowledgedIsVisible,
                      ReadOrZero, Active
  <2> QED BY <1>6, <2>1, <2>2 DEF ProgramTarget, Return, WriteAimed
<1>7. CASE ProgramFails
  BY <1>7 DEF ProgramFails, Return, WriteAimed, ConsecutiveGenerations,
              AcknowledgedIsVisible, Good, ValidIn
<1>8. CASE PowerLoss
  <2>1. blk' = blk => Good' = Good /\ ConsecutiveGenerations'
    BY DEF Good, ValidIn, ConsecutiveGenerations
  <2>2. (Good # {} => Good' # {}) /\ ConsecutiveGenerations'
    BY <1>8, <2>1, PowerLossEffect, TargetDamaged, TargetProgrammed
       DEF WriteAimed
  <2> QED BY <1>8, <2>2 DEF PowerLoss, WriteAimed, AcknowledgedIsVisible
<1>9. CASE UNCHANGED vars
  BY <1>9 DEF vars, WriteAimed, Aimed, BelowBound, ConsecutiveGenerations,
              AcknowledgedIsVisible, Good, ValidIn, Active, ActiveSector, Newest
<1> QED BY <1>1, <1>2, <1>3, <1>4, <1>5, <1>6, <1>7, <1>8, <1>9 DEF Next

LEMMA TargetInactive == IInv => TargetIsInactive
<1> SUFFICES ASSUME IInv, pc \in {"erase", "program"}, Good # {}
             PROVE  target # Active
  BY DEF TargetIsInactive
<1>1. PICK o \in Sectors : o = Other(target) /\ Other(o) = target /\ o # target
  BY DEF IInv, TypeOK, Other, Sectors
<1>2. NewestAt(o)
  BY <1>1, StoreAssumption
     DEF IInv, WriteAimed, Aimed, NewestAt, TypeOK, Blocks
<1> QED BY <1>1, <1>2, ActiveIs DEF IInv

(* Two valid blocks are consecutive generations, a write never aims at the *)
(* active block, and what a call acknowledged is what readers see.         *)
THEOREM Safety ==
  ReadFaults = FALSE =>
    (Spec => [](ConsecutiveGenerations /\ TargetIsInactive /\ AcknowledgedIsVisible))
<1> SUFFICES ASSUME ReadFaults = FALSE
             PROVE  Spec => [](ConsecutiveGenerations /\ TargetIsInactive
                                                     /\ AcknowledgedIsVisible)
  OBVIOUS
<1>1. IInv /\ [Next]_vars => IInv'
  BY SafeStep
<1>2. IInv => ConsecutiveGenerations /\ TargetIsInactive /\ AcknowledgedIsVisible
  BY TargetInactive DEF IInv
<1> QED BY SafeInit, <1>1, <1>2, PTL DEF Spec

(* However many writes fail in between, two valid blocks are one           *)
(* generation apart.                                                       *)
THEOREM Generations == ReadFaults = FALSE => (Spec => []ConsecutiveGenerations)
<1> SUFFICES ASSUME ReadFaults = FALSE PROVE Spec => []ConsecutiveGenerations
  OBVIOUS
<1>1. Spec => [](ConsecutiveGenerations /\ TargetIsInactive /\ AcknowledgedIsVisible)
  BY Safety
<1> QED BY <1>1, PTL

(* A store that holds settings holds settings after every step.            *)
THEOREM Survival == ReadFaults = FALSE => (Spec => SettingsSurvive)
<1> SUFFICES ASSUME ReadFaults = FALSE PROVE Spec => SettingsSurvive
  OBVIOUS
<1>1. IInv /\ [Next]_vars => IInv'
  BY SafeStep
<1>2. IInv /\ [Next]_vars => [Good # {} => Good' # {}]_vars
  BY SafeStep
<1> QED BY SafeInit, <1>1, <1>2, PTL DEF Spec, SettingsSurvive

-----------------------------------------------------------------------------
(* Refinement: the step that programs the fresh block, or the power loss   *)
(* that strikes once it is in place, is the register's Commit; a call is   *)
(* its Begin; every other way back to "idle" is Abandon, and the rest      *)
(* stutters.                                                               *)

LEMMA RegisterInit == Init => Register!Init
<1> SUFFICES ASSUME Init PROVE Register!Init
  OBVIOUS
<1>1. Good = {}
  BY DEF Init, Good, ValidIn, Invalid, Sectors
<1> QED BY <1>1 DEF Init, Register!Init, ReadOrZero

LEMMA RegisterStep ==
  ASSUME ReadFaults = FALSE, IInv, [Next]_vars
  PROVE  [Register!Next]_(Register!vars)
<1>0. TypeOK /\ TypeOK'
  BY TypeStep DEF IInv, WriteAimed, TypeInv
<1>1. blk' = blk => Good' = Good /\ ReadOrZero(Good)' = ReadOrZero(Good)
  BY DEF Good, ValidIn, ReadOrZero, ActiveSector, Newest
<1>2. ReadOrZero(Good) \in Settings
  BY <1>0, ReadTyped DEF Good, ValidIn
<1>3. CASE CallWrite
  <2>1. Register!BeginWrite
    BY <1>1, <1>3 DEF CallWrite, Register!BeginWrite
  <2> QED BY <2>1 DEF Register!Next
<1>4. CASE CallTrigger
  <2>1. PICK v \in Versions : req' = Staged(ReadOrZero(Good), v)
    BY <1>4, ReadsSeeAll DEF CallTrigger
  <2>2. Register!BeginTrigger
    BY <1>1, <1>2, <1>4, <2>1 DEF CallTrigger, Register!BeginTrigger
  <2> QED BY <2>2 DEF Register!Next
<1>5. CASE Choose
  BY <1>1, <1>5 DEF Choose, Register!vars
<1>6. CASE EraseTarget
  <2>1. /\ Good # {} <=> Good' # {}
        /\ ReadOrZero(Good)' = ReadOrZero(Good)
    BY <1>0, <1>6, TargetDamaged DEF EraseTarget, IInv, WriteAimed
  <2> QED BY <1>6, <2>1 DEF EraseTarget, locals, Register!vars
<1>7. ASSUME pc # "idle", pc' = "idle",
             Good # {} <=> Good' # {}, ReadOrZero(Good)' = ReadOrZero(Good)
      PROVE  Register!Next
  BY <1>7 DEF IInv, WriteAimed, Register!Abandon, Register!Next
<1>8. ASSUME pc = "program", pc' = "idle", blk' = [ blk EXCEPT ![target] = Fresh ]
      PROVE  Register!Next
  <2>1. Good' # {} /\ ReadOrZero(Good)' = req
    BY <1>0, <1>8, TargetProgrammed DEF IInv, WriteAimed
  <2>2. Register!Commit
    BY <1>8, <2>1 DEF IInv, WriteAimed, Register!Commit
  <2> QED BY <2>2 DEF Register!Next
<1>9. CASE EraseFails
  <2>1. blk' = blk \/ blk' = [ blk EXCEPT ![target] = Invalid ]
    BY <1>0, <1>9 DEF EraseFails, TypeOK
  <2>2. /\ Good # {} <=> Good' # {}
        /\ ReadOrZero(Good)' = ReadOrZero(Good)
    BY <1>0, <1>1, <1>9, <2>1, TargetDamaged DEF EraseFails, IInv, WriteAimed
  <2> QED BY <1>7, <1>9, <2>2 DEF EraseFails, Return
<1>10. CASE ProgramTarget
  BY <1>8, <1>10 DEF ProgramTarget, Return
<1>11. CASE ProgramFails
  BY <1>1, <1>7, <1>11 DEF ProgramFails, Return
<1>12. CASE PowerLoss
  <2>1. CASE pc = "idle"
    BY <1>0, <1>1, <1>12, <2>1, PowerLossEffect DEF PowerLoss, Register!vars
  <2>2. CASE pc # "idle" /\ blk' = blk
    BY <1>1, <1>7, <1>12, <2>2 DEF PowerLoss
  <2>3. CASE pc = "erase" /\ blk' = [ blk EXCEPT ![target] = Invalid ]
    <3>1. /\ Good # {} <=> Good' # {}
          /\ ReadOrZero(Good)' = ReadOrZero(Good)
      BY <1>0, <2>3, TargetDamaged DEF IInv, WriteAimed
    <3> QED BY <1>7, <1>12, <2>3, <3>1 DEF PowerLoss
  <2>4. CASE pc = "program" /\ blk' = [ blk EXCEPT ![target] = Fresh ]
    BY <1>8, <1>12, <2>4 DEF PowerLoss
  <2> QED BY <1>0, <1>12, <2>1, <2>2, <2>3, <2>4, PowerLossEffect
<1>13. CASE UNCHANGED vars
  BY <1>1, <1>13 DEF vars, Register!vars
<1> QED BY <1>3, <1>4, <1>5, <1>6, <1>9, <1>10, <1>11, <1>12, <1>13 DEF Next

(* The two sectors implement one atomic register: writeSettings() and      *)
(* triggerUpdate() take effect in one step or not at all.                  *)
THEOREM Atomicity == ReadFaults = FALSE => (Spec => IsAtomicRegister)
<1> SUFFICES ASSUME ReadFaults = FALSE PROVE Spec => IsAtomicRegister
  OBVIOUS
<1>1. IInv /\ [Next]_vars => IInv'
  BY SafeStep
<1>2. IInv /\ [Next]_vars => [Register!Next]_(Register!vars)
  BY RegisterStep
<1> QED BY SafeInit, RegisterInit, <1>1, <1>2, PTL
        DEF Spec, IsAtomicRegister, Register!Spec
=============================================================================
