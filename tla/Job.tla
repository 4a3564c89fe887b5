-------------------------------- MODULE Job --------------------------------
(***************************************************************************)
(* What one session promises to whoever looks at it: it starts running,    *)
(* the amount of work shown only grows, and it ends at most once, as       *)
(* finished or as failed.  Session is shown to implement it.               *)
(***************************************************************************)
EXTENDS Naturals

VARIABLES
  status,   \* BackupStatus, without the texts of its variants
  done      \* bytes of the source accounted for

vars == <<status, done>>

Statuses == {"Running", "Finished", "Failed"}

Init == status = "Running" /\ done = 0

Grow == done' \in Nat /\ done' >= done

Advance  == status = "Running" /\ Grow /\ UNCHANGED status
Complete == status = "Running" /\ Grow /\ status' = "Finished"
Fail     == status = "Running" /\ status' = "Failed" /\ UNCHANGED done

Next == Advance \/ Complete \/ Fail

Spec == Init /\ [][Next]_vars

=============================================================================
