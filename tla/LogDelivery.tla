---------------------------- MODULE LogDelivery ----------------------------
(***************************************************************************)
(* What the log upload promises: the server's archive receives the log     *)
(* from the high-water on, at least once, and the high-water only passes   *)
(* bytes the archive holds ("On 200 OK + matching server-reported byte     *)
(* count it calls src->mark()", ilabs_log_upload.h).  The log store may    *)
(* drop its oldest bytes, uploaded or not, to make room.                   *)
(***************************************************************************)
EXTENDS Naturals

VARIABLES
  written,     \* bytes ever logged: the log is 1..written
  first,       \* bytes the store has dropped
  mark,        \* the high-water
  archived     \* bytes the server's archive holds

vars == <<written, first, mark, archived>>

Init ==
  /\ written = 0 /\ first = 0 /\ mark = 0
  /\ archived = {}

Log ==
  /\ written' = written + 1
  /\ UNCHANGED <<first, mark, archived>>

(* Dropping bytes the archive never got moves the high-water over them. *)
Prune ==
  /\ first' \in (first + 1)..written
  /\ mark' = IF mark < first' THEN first' ELSE mark
  /\ UNCHANGED <<written, archived>>

(* The archive takes bytes right behind the high-water, new or repeated. *)
Deliver ==
  /\ \E to \in (mark + 1)..written : archived' = archived \cup (mark + 1)..to
  /\ UNCHANGED <<written, first, mark>>

Confirm ==
  /\ mark' \in (mark + 1)..written
  /\ (mark + 1)..mark' \subseteq archived
  /\ UNCHANGED <<written, first, archived>>

Next == Log \/ Prune \/ Deliver \/ Confirm

Spec == Init /\ [][Next]_vars
=============================================================================
