----------------------------- MODULE QspiPower -----------------------------
(***************************************************************************)
(* The life of the QSPI flash in ilabs_fota_qspi.cpp: begin() at boot, and *)
(* the reference-counted resume() and suspend() that callers nest around   *)
(* their reads and writes.  The chip is on a rail of its own: what it was  *)
(* told last survives a reset of the processor.                            *)
(*                                                                         *)
(* A JEDEC read can come too early for the chip.  `misses` counts the      *)
(* early ones in a row, and no more than MaxMisses come.                   *)
(***************************************************************************)
EXTENDS Integers, Sequences, SequencesExt

CONSTANTS
  Tasks,           \* the tasks that use the flash
  WakeAttempts,    \* the wake attempts of one resume()
  MaxMisses,       \* JEDEC reads that can fail in a row
  MaxNest          \* bound: calls of resume() a task has outstanding

ASSUME PowerAssumption ==
  /\ WakeAttempts \in Nat \ {0} /\ MaxMisses \in Nat /\ MaxNest \in Nat \ {0}

VARIABLES
  ready,           \* _ready
  depth,           \* s_resume_depth
  chip,            \* "awake", or "dpd": in Deep Power-Down
  periph,          \* the QSPI peripheral is enabled
  misses,          \* failed JEDEC reads in a row
  pc,              \* per task: "run", or "wake" inside resume()
  attempt,         \* per task: attempts of that resume() that failed
  calls,           \* per task: its outstanding resume() calls, TRUE for one
                   \* that returned without backing out
  begun            \* history: begin() brought the flash up, not resume()

vars == <<ready, depth, chip, periph, misses, pc, attempt, calls, begun>>

Init ==
  /\ ready = FALSE /\ depth = 0 /\ begun = FALSE
  /\ chip \in {"awake", "dpd"} /\ periph = FALSE
  /\ misses = 0
  /\ pc = [t \in Tasks |-> "run"]
  /\ attempt = [t \in Tasks |-> 0]
  /\ calls = [t \in Tasks |-> <<>>]

(* qspi_wake_from_dpd_gpio() and _transport.begin(). *)
PowerUp == chip' = "awake" /\ periph' = TRUE

(* _flash.begin(): whether the JEDEC read finds the chip. *)
JedecOk == misses' = 0
JedecMissed == misses < MaxMisses /\ misses' = misses + 1

(* begin() also refuses a flash too small for the partition map, awake as  *)
(* it is by then; resume() does not ask for the size.                      *)
Begin(t) ==
  /\ pc[t] = "run" /\ ~ready
  /\ PowerUp
  /\ \/ JedecOk /\ ready' = TRUE /\ begun' = TRUE
     \/ JedecOk /\ UNCHANGED <<ready, begun>>
     \/ JedecMissed /\ UNCHANGED <<ready, begun>>
  /\ UNCHANGED <<depth, pc, attempt, calls>>

(* resume(): up to the first wake attempt, or the early returns. *)
Resume(t) ==
  /\ pc[t] = "run" /\ Len(calls[t]) < MaxNest
  /\ depth' = depth + 1
  /\ IF depth' > 1 \/ ready
       THEN /\ calls' = [calls EXCEPT ![t] = Append(@, TRUE)]
            /\ UNCHANGED <<chip, periph, pc, attempt>>
       ELSE /\ PowerUp
            /\ pc' = [pc EXCEPT ![t] = "wake"]
            /\ attempt' = [attempt EXCEPT ![t] = 0]
            /\ UNCHANGED calls
  /\ UNCHANGED <<ready, misses, begun>>

(* resume() returns; `counted` when it did not back out. *)
Returned(t, counted) ==
  /\ pc' = [pc EXCEPT ![t] = "run"]
  /\ attempt' = [attempt EXCEPT ![t] = 0]
  /\ calls' = [calls EXCEPT ![t] = Append(@, counted)]

WakeSucceeds(t) ==
  /\ pc[t] = "wake"
  /\ periph /\ chip' = "awake"
  /\ JedecOk
  /\ ready' = TRUE /\ begun' = FALSE
  /\ Returned(t, TRUE)
  /\ UNCHANGED <<depth, periph>>

(* A mutant of WakeFails: it gives up an attempt early. *)
WakeFailsEarly(t) ==
  /\ pc[t] = "wake"
  /\ chip' = "awake"
  /\ JedecMissed
  /\ IF attempt[t] + 2 < WakeAttempts
       THEN attempt' = [attempt EXCEPT ![t] = @ + 1] /\ UNCHANGED <<depth, pc, calls>>
       ELSE depth' = depth - 1 /\ Returned(t, FALSE)
  /\ UNCHANGED <<ready, periph, begun>>

(* After the last attempt the count is backed out; the peripheral is left  *)
(* as it is.                                                               *)
WakeFails(t) ==
  /\ pc[t] = "wake"
  /\ chip' = "awake"
  /\ JedecMissed
  /\ IF attempt[t] + 1 < WakeAttempts
       THEN attempt' = [attempt EXCEPT ![t] = @ + 1] /\ UNCHANGED <<depth, pc, calls>>
       ELSE depth' = depth - 1 /\ Returned(t, FALSE)
  /\ UNCHANGED <<ready, periph, begun>>

(* Mutants of PowersDown: a nested suspend() is not told from the last     *)
(* one; the last but one is taken for the last.                            *)
PowersDownNested == depth # 0 /\ ready
PowersDownNever == depth > 2 /\ ready

(* The suspend() that reaches the hardware. *)
PowersDown == depth = 1 /\ ready

(* A mutant of PowerDown: the flash goes to sleep but still counts as up.  *)
PowerDownReady ==
  chip' = "dpd" /\ periph' = FALSE /\ begun' = FALSE /\ UNCHANGED ready

PowerDown ==
  chip' = "dpd" /\ periph' = FALSE /\ begun' = FALSE /\ ready' = FALSE

Uncounted == IF depth = 0 THEN 0 ELSE depth - 1

(* suspend(), also one that no resume() matches. *)
Suspend(t) ==
  /\ pc[t] = "run"
  /\ depth' = Uncounted
  /\ calls' = [calls EXCEPT ![t] = IF @ = <<>> THEN @ ELSE Front(@)]
  /\ IF PowersDown THEN PowerDown ELSE UNCHANGED <<chip, periph, ready, begun>>
  /\ UNCHANGED <<misses, pc, attempt>>

(* The processor resets, its static data with it. *)
Reset ==
  /\ ready' = FALSE /\ depth' = 0 /\ begun' = FALSE
  /\ periph' = FALSE
  /\ misses' = 0
  /\ pc' = [t \in Tasks |-> "run"]
  /\ attempt' = [t \in Tasks |-> 0]
  /\ calls' = [t \in Tasks |-> <<>>]
  /\ UNCHANGED chip

Next ==
  \/ \E t \in Tasks :
       Begin(t) \/ Resume(t) \/ WakeSucceeds(t) \/ WakeFails(t) \/ Suspend(t)
  \/ Reset

Spec == Init /\ [][Next]_vars

-----------------------------------------------------------------------------
(* Properties. *)

Held(t) == \E i \in DOMAIN calls[t] : calls[t][i]

(* Every variable keeps its type; the count is never below zero. *)
TypeOK ==
  /\ ready \in BOOLEAN /\ begun \in BOOLEAN /\ periph \in BOOLEAN
  /\ depth \in Nat
  /\ chip \in {"awake", "dpd"}
  /\ misses \in 0..MaxMisses
  /\ pc \in [Tasks -> {"run", "wake"}]
  /\ attempt \in [Tasks -> 0..(WakeAttempts - 1)]
  /\ calls \in [Tasks -> Seq(BOOLEAN)]

(* From a resume() that brought the flash up, or found it up, to the       *)
(* suspend() that ends it, the flash stays up: no inner pair, and no       *)
(* suspend() that ends a resume() that backed out, takes it away.  One     *)
(* task at a time.                                                         *)
HeldMeansReady == \A t \in Tasks : Held(t) /\ pc[t] = "run" => ready

(* A flash that is up is awake, behind an enabled peripheral: a driver     *)
(* that believes in a chip that sleeps would read 0xFF for everything.     *)
ReadyIsAwake == ready => chip = "awake" /\ periph

(* The last suspend() puts the flash to sleep, whichever resume() calls    *)
(* failed before it; only begin() leaves it up with nobody holding it.     *)
OnlyBeginLeavesItUp == ready /\ (\A t \in Tasks : ~Held(t)) => begun

(* A resume() backs out only from a chip that missed every one of its      *)
(* attempts: a chip slower than one attempt, but not than all, is brought  *)
(* up, also from the Deep Power-Down of an earlier life.                   *)
BacksOutAfterAllAttempts ==
  [][\A t \in Tasks :
       pc[t] = "wake" /\ pc'[t] = "run" /\ calls'[t] # <<>> /\ ~Last(calls'[t]) => misses' >= WakeAttempts]_vars

-----------------------------------------------------------------------------
(* "already brought up by outer caller", of a resume() that returns at     *)
(* once because another is outstanding.  Two tasks, a log flush and an     *)
(* update, share the count.                                                *)
BroughtUpByOuter ==
  [][\A t \in Tasks : Resume(t) /\ depth > 0 => ready]_vars
=============================================================================
