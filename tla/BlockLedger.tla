---------------------------- MODULE BlockLedger ----------------------------
(***************************************************************************)
(* What the record of blocks promises to those who read it, however the    *)
(* requests that write it interleave.                                      *)
(*                                                                         *)
(* A block is recorded once, and what was recorded (whose, for which task, *)
(* since when) never changes.  It ends once, not before it began.  It is   *)
(* reviewed at most once, before or after it ends, and the verdict is      *)
(* final.  Its length is paid out (added to the task's approved blocked    *)
(* time) at the moment it is both approved and over, and never again.      *)
(***************************************************************************)
EXTENDS Integers

CONSTANTS
  Blocks,    \* ids of blocks
  Owners,    \* the tasks a block may be about
  Authors,   \* the people who may record a block
  Nobody,    \* the author of a row not written yet
  Null       \* an empty column

VARIABLE block    \* the ledger: each block's row

Blank(row)    == row.of = Null
Running(row)  == row.of # Null /\ row.end = Null
Approved(row) == row.review = "approved"

(* The row a new block starts from. *)
Unwritten ==
  [of |-> Null, by |-> Nobody, start |-> Null, end |-> Null,
   review |-> "pending", paid |-> 0]

Init == block = [b \in Blocks |-> Unwritten]

Recorded(new) ==
  /\ new.of \in Owners /\ new.by \in Authors /\ new.start \in Nat
  /\ new = [Unwritten EXCEPT !.of = new.of, !.by = new.by, !.start = new.start]

Ended(old, new) ==
  /\ Running(old)
  /\ new.end \in Nat /\ new.end >= old.start
  /\ new = [old EXCEPT !.end = new.end, !.paid = IF Approved(old) THEN 1 ELSE 0]

Reviewed(old, new) ==
  /\ ~Blank(old) /\ old.review = "pending"
  /\ \/ new = [old EXCEPT !.review = "rejected"]
     \/ new = [old EXCEPT !.review = "approved", !.paid = IF Running(old) THEN 0 ELSE 1]

Step(old, new) ==
  \/ Blank(old) /\ Recorded(new)
  \/ Ended(old, new)
  \/ Reviewed(old, new)

(* One transaction may take a step of several blocks at once. *)
Next == \A b \in Blocks : block'[b] = block[b] \/ Step(block[b], block'[b])

Spec == Init /\ [][Next]_block

=============================================================================
