----------------------------- MODULE MCArchive -----------------------------
EXTENDS Archive

File(n, i) == [kind |-> "file", size |-> n, system |-> FALSE, last |-> i]
Link(i)    == [File(0, i) EXCEPT !.kind = "link"]
Dir(i)     == [File(0, i) EXCEPT !.kind = "dir"]
System(i)  == [Dir(i) EXCEPT !.system = TRUE]

\* A directory with a file, next to a file; and next to a symbolic link, the
\* recycle bin with a file.
Nested == << Dir(4), Dir(3), File(1, 3), File(1, 4) >>
Mixed  == << Dir(5), System(3), File(1, 3), File(1, 4), Link(5) >>

\* Two files in a directory in a directory, one beside it.
Deep == << Dir(6), Dir(5), Dir(4), File(0, 4), File(1, 5), File(1, 6) >>

Select(in, out, glob) == [included |-> in, excluded |-> out, globbed |-> glob]

\* Everything but what is un-checked or a glob matches; one path checked, or the root or a
\* directory above it, and up to one un-checked or matched by a glob; a path
\* checked again below an un-checked one.
MCSelections ==
  { Select({}, out, g) : out \in {{}, {2}}, g \in {{}, {3}, {5}} }
  \cup { Select(in, out, g) : in \in {{0}, {2}, {4}, {1, 4}, {3, 6}},
                              out \in {{}, {2}, {3}}, g \in {{}, {3}, {5}} }

\* zstd differs from other codecs only where there is no room; a tree that
\* changes and a destination that fills up are different jobs.  Selections
\* are tried on a healthy job; on the others Mixed leaves one file out.
MCJobs ==
  { p \in [source : {"directory", "device", "other"}, tree : {Nested, Mixed},
           selection : {None, Select({}, {}, {4})}, calm : BOOLEAN, room : BOOLEAN, opens : BOOLEAN,
           codec : {"zstd", "other"}] :
      /\ p.source = "directory" \/ (p.codec = "other" /\ p.calm)
      /\ p.opens \/ (p.codec = "other" /\ p.calm)
      /\ p.codec = "other" \/ ~p.room
      /\ p.calm \/ p.room
      /\ p.tree = Nested <=> p.selection = None }
  \cup [source : {"directory"}, tree : {Deep}, selection : MCSelections,
        calm : {TRUE}, room : {TRUE}, opens : {TRUE}, codec : {"other"}]

\* A directory whose files may change while they are copied.
MCTornJobs == { p \in MCJobs : ~p.calm /\ p.source = "directory" /\ p.tree = Nested }
=============================================================================
