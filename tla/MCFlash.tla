------------------------------ MODULE MCFlash ------------------------------
EXTENDS Flash

\* Images of MaxIn units in one member or in two, sound or damaged in either;
\* devices that are too small or just big enough.
MCJobs ==
  { p \in Params :
      /\ p.len = MaxIn
      /\ p.first \in (IF p.format = "raw" THEN {MaxIn} ELSE {MaxIn - 1, MaxIn})
      /\ p.damage \in {None, 0, MaxIn - 1}
      /\ p.capacity \in {MaxIn - 1, MaxIn}
      /\ p.damage = None => ~p.medium
      /\ p.fails = None \/ p.damage = None }
=============================================================================
