----------------------------- MODULE MCPipeline -----------------------------
EXTENDS Pipeline

\* A sound source or one whose first, middle or last unit cannot be read; a
\* sink that takes nothing, part or all of it; a flush that fails.
MCJobs ==
  { p \in Params :
      /\ p.bad \in {None, 1, 3, SourceLen}
      /\ p.capacity \in {0, 3, SourceLen}
      /\ p.flushes \/ p.capacity = SourceLen }
=============================================================================
