-------------------------------- MODULE Pipe --------------------------------
(***************************************************************************)
(* What the two pumps promise together: the units of a source come out in  *)
(* order, none twice and none left out; never more than a window of them   *)
(* is on the way; and the two counts reported at the end are true.         *)
(* Pipeline is shown to implement it.                                      *)
(***************************************************************************)
EXTENDS Naturals, Sequences

CONSTANTS
  SourceLen,  \* units the source holds, a natural number
  Window      \* units that may have been taken and not delivered, also one

VARIABLES
  taken,      \* units taken from the source
  delivered,  \* what has come out
  told,       \* what the writing side counts as delivered
  in_end,     \* how the reading side ended: "None", "Ok", "Err"
  out_end     \* how the writing side ended

pipe == <<taken, delivered, told, in_end, out_end>>

Init ==
  /\ taken = 0 /\ delivered = <<>> /\ told = 0
  /\ in_end = "None" /\ out_end = "None"

Take(n) ==
  /\ in_end = "None"
  /\ taken + n <= SourceLen
  /\ taken + n <= Len(delivered) + Window
  /\ taken' = taken + n
  /\ UNCHANGED <<delivered, told, in_end, out_end>>

\* The next n units, in the order of the source.
Following(n) == delivered \o [i \in 1..n |-> Len(delivered) + i]

Deliver(n) ==
  /\ out_end = "None"
  /\ Len(delivered) + n <= taken
  /\ delivered' = Following(n)
  /\ told' = told + n
  /\ UNCHANGED <<taken, in_end, out_end>>

\* The reader is done when nothing is left, or when nobody listens any more.
EndIn(r) ==
  /\ in_end = "None"
  /\ r = "Ok" => taken = SourceLen \/ out_end = "Err"
  /\ in_end' = r
  /\ UNCHANGED <<taken, delivered, told, out_end>>

\* The writer is done only when the reader is, and with all it has sent.
EndOut ==
  /\ out_end = "None"
  /\ in_end # "None" /\ Len(delivered) = taken
  /\ out_end' = "Ok"
  /\ UNCHANGED <<taken, delivered, told, in_end>>

\* The writer fails, with n units of its last piece delivered and not counted.
Fail(n) ==
  /\ out_end = "None"
  /\ Len(delivered) + n <= taken
  /\ delivered' = Following(n)
  /\ out_end' = "Err"
  /\ UNCHANGED <<taken, told, in_end>>

Next ==
  \/ \E n \in 1..Window : Take(n) \/ Deliver(n)
  \/ \E r \in {"Ok", "Err"} : EndIn(r)
  \/ EndOut \/ \E n \in 0..Window : Fail(n)

Spec == Init /\ [][Next]_pipe
=============================================================================
