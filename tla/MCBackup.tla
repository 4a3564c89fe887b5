------------------------------ MODULE MCBackup ------------------------------
EXTENDS Backup

\* Devices of the size reported, one unit shorter or longer, or of unknown
\* size; sound, or unreadable at the first or at the last unit; destinations
\* that are too small, just too small for the trailer, or big enough.
MCJobs ==
  { p \in Params :
      /\ p.total \in {None, MaxIn - 1, MaxIn}
      /\ p.len \in {MaxIn - 1, MaxIn}
      /\ p.bad \in {None, 0, MaxIn - 1}
      /\ p.capacity \in {1, MaxIn, MaxOut}
      /\ p.opens \/ (p.codec = "none" /\ p.bad = None) }
=============================================================================
