------------------------------ MODULE Devices ------------------------------
(***************************************************************************)
(* Which disks are offered: what each platform's enumerate_raw makes of    *)
(* the block devices the system has, and the safety filter behind it.      *)
(*                                                                         *)
(* A layout is a forest of block devices: disks, partitions and what is    *)
(* built on them.  A name is a stem and the digits it ends in, such as     *)
(* <<"sda", "1">> or <<"nvme0n", "1">>.                                    *)
(***************************************************************************)
EXTENDS Naturals, FiniteSets

CONSTANTS
  Layouts,  \* the layouts considered
  None

Nodes(l) == DOMAIN l.nodes

\* What lsblk, diskutil or Get-Disk say of a device: its parent, or None; the
\* kind and bus; and whether it is flagged removable, internal, or as the
\* disk of the boot loader or of the system.
Descriptions(l) ==
  [parent : Nodes(l) \cup {None}, kind : {"disk", "rom", "loop", "part", "crypt", "lvm"},
   tran : {"usb", "sd", "mmc", "thunderbolt", "sata", "nvme", "unknown"},
   rm : BOOLEAN, internal : BOOLEAN, boot : BOOLEAN]

ASSUME DevicesAssumption ==
  \A l \in Layouts :
    /\ l.platform \in {"linux", "macos", "windows"}
    /\ IsFiniteSet(Nodes(l)) /\ l.nodes \in [Nodes(l) -> Descriptions(l)]
    /\ l.root \in Nodes(l)       \* what is mounted on /
    /\ l.source \in BOOLEAN      \* is findmnt's SOURCE the node of a device?
    /\ None \notin Nodes(l)

-----------------------------------------------------------------------------
(* Linux. *)

\* trim_end_matches: a name without the digits it ends in.
NoDigits == ""
Stem(n) == <<n[1], NoDigits>>

\* Mutant: the parent is not asked for.
RootDeviceNameByName(l) == Stem(l.root)

\* root_device_name: the parent lsblk prints first, one step up; else the name
\* of the source without the digits it ends in.  With a subvolume the source
\* is no device node and its name matches nothing.
RootDeviceName(l) ==
  IF ~l.source THEN None
  ELSE IF l.nodes[l.root].parent # None THEN l.nodes[l.root].parent
  ELSE Stem(l.root)

LinuxBlock(l, d) ==
  [path      |-> d,
   removable |-> l.nodes[d].rm \/ l.nodes[d].tran \in {"usb", "sd", "mmc"},
   is_system |-> d = RootDeviceName(l)]

LinuxRaw(l) ==
  { LinuxBlock(l, d) : d \in {n \in Nodes(l) : l.nodes[n].parent = None
                                               /\ l.nodes[n].kind \in {"disk", "rom"}} }

-----------------------------------------------------------------------------
(* macOS and Windows list whole disks. *)

WholeDisks(l) == {n \in Nodes(l) : l.nodes[n].kind = "disk"}

Removable == {"usb", "sd", "mmc", "thunderbolt"}

MacBlock(l, d) ==
  [path      |-> d,
   removable |-> l.nodes[d].rm \/ l.nodes[d].tran \in Removable,
   is_system |-> d = <<"disk", "0">> \/ l.nodes[d].internal]

WindowsBlock(l, d) ==
  [path      |-> d,
   removable |-> l.nodes[d].tran \in Removable,
   is_system |-> l.nodes[d].boot]

EnumerateRaw(l) ==
  CASE l.platform = "linux"   -> LinuxRaw(l)
    [] l.platform = "macos"   -> { MacBlock(l, d) : d \in WholeDisks(l) }
    [] l.platform = "windows" -> { WindowsBlock(l, d) : d \in WholeDisks(l) }

\* safety::filter
Enumerate(l, show_all) == {b \in EnumerateRaw(l) : show_all \/ ~b.is_system}

-----------------------------------------------------------------------------
\* The k-th device up the chain of parents, or the last.
Chain(l, n) ==
  LET up[k \in 0..Cardinality(Nodes(l))] ==
        IF k = 0 THEN n
        ELSE IF l.nodes[up[k - 1]].parent = None THEN up[k - 1]
        ELSE l.nodes[up[k - 1]].parent
  IN  up

\* The disk a device is on: the end of the chain.
DiskOf(l, n) == Chain(l, n)[Cardinality(Nodes(l))]

SystemDisk(l) == DiskOf(l, l.root)

\* A disk is where a chain ends.
ASSUME ForestAssumption ==
  \A l \in Layouts : /\ SystemDisk(l) \in Nodes(l)
                     /\ l.nodes[SystemDisk(l)].parent = None

\* The plain cases.  On Linux / is a partition of a disk, or a disk itself
\* whose name does not end in a digit; a Mac started from disk0 or another
\* disk that it flags as internal; Windows flags the disk it started from.
OnPartition(l) ==
  CASE l.platform = "linux" ->
         l.source /\ \/ l.nodes[l.root].parent = SystemDisk(l)
                     \/ l.nodes[l.root].parent = None /\ l.root = Stem(l.root)
    [] l.platform = "macos" ->
         SystemDisk(l) = <<"disk", "0">> \/ l.nodes[SystemDisk(l)].internal
    [] l.platform = "windows" -> l.nodes[SystemDisk(l)].boot
=============================================================================
