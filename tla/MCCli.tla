------------------------------- MODULE MCCli -------------------------------
EXTENDS Cli, TLC

Disk(tran, internal, boot) ==
  [parent |-> None, kind |-> "disk", tran |-> tran, rm |-> FALSE,
   internal |-> internal, boot |-> boot]

On(kind, parent) == [Disk("unknown", FALSE, FALSE) EXCEPT !.parent = parent, !.kind = kind]

sda      == <<"sda", "">>
sda1     == <<"sda", "1">>
sdb      == <<"sdb", "">>
nvme0n1  == <<"nvme0n", "1">>
nvme0n1p2 == <<"nvme0n1p", "2">>
root     == <<"root", "">>
loop0    == <<"loop", "0">>
disk0    == <<"disk", "0">>
disk5    == <<"disk", "5">>

Linux(nodes, r, source) ==
  [platform |-> "linux", nodes |-> nodes, root |-> r, source |-> source]

\* / on a stick's partition, on a stick without partitions, on NVMe, and on a
\* Mac and a PC with a stick each.
PlainLayouts ==
  { Linux(sda :> Disk("usb", FALSE, FALSE) @@ sda1 :> On("part", sda)
            @@ sdb :> Disk("usb", FALSE, FALSE) @@ loop0 :> On("loop", None), sda1, TRUE),
    Linux(sda :> Disk("usb", FALSE, FALSE), sda, TRUE),
    Linux(nvme0n1 :> Disk("nvme", TRUE, TRUE) @@ nvme0n1p2 :> On("part", nvme0n1)
            @@ sdb :> Disk("sata", TRUE, FALSE), nvme0n1p2, TRUE),
    [platform |-> "macos", root |-> disk0, source |-> TRUE,
     nodes |-> disk0 :> Disk("nvme", TRUE, TRUE) @@ disk5 :> Disk("usb", FALSE, FALSE)],
    [platform |-> "windows", root |-> disk0, source |-> TRUE,
     nodes |-> disk0 :> Disk("nvme", TRUE, TRUE) @@ disk5 :> Disk("usb", FALSE, FALSE)] }

\* / on a logical volume in an encrypted partition, on a subvolume, and on the
\* external disk of a Mac.
OtherLayouts ==
  { Linux(nvme0n1 :> Disk("nvme", TRUE, TRUE) @@ nvme0n1p2 :> On("part", nvme0n1)
            @@ sda1 :> On("crypt", nvme0n1p2) @@ root :> On("lvm", sda1), root, TRUE),
    Linux(sda :> Disk("sata", TRUE, FALSE) @@ sda1 :> On("part", sda), sda1, FALSE),
    [platform |-> "macos", root |-> disk5, source |-> TRUE,
     nodes |-> disk0 :> Disk("nvme", TRUE, TRUE) @@ disk5 :> Disk("usb", FALSE, FALSE)] }

MCLayouts == PlainLayouts \cup OtherLayouts

ALayout == CHOOSE l \in PlainLayouts : TRUE

Image(codec, ending, units) ==
  [codec |-> codec, ending |-> ending, units |-> units, rest |-> 0, whole |-> TRUE]

\* A disk of three units; images as long, shorter and longer, with a magic,
\* with a name only, and without either; one of two members; an envelope.
MCWorlds ==
  { [device |-> <<"a", "a", "b">>, image |-> i] :
      i \in { Image("none", ".img", <<"b", "a", "b">>), Image("none", ".img", <<"a", "a">>),
              Image("zstd", "plain", <<"b", "b", "a">>), Image("brotli", ".br", <<"b", "a", "a">>),
              Image("brotli", ".img", <<"b">>), Image("gzip", ".gz", <<"b", "a", "a", "b">>),
              Image("none", ".gz", <<"a">>), Image("encrypted", ".gz", <<"b">>),
              [Image("gzip", "plain", <<"b", "a", "a", "b">>) EXCEPT !.rest = 1] } }

Plain(op) ==
  [op |-> op, args |-> TRUE, opens |-> TRUE, dry_run |-> FALSE, verify |-> "off", stuck |-> 0,
   codec |-> "none", ending |-> ".img", bad |-> 0, unread |-> 0, room |-> 9, sidecar |-> "fits",
   against |-> "file", excludes |-> {}, denied |-> {}, layout |-> ALayout, show_all |-> FALSE]

MCFlashes ==
  { [Plain("flash") EXCEPT !.verify = v, !.stuck = s] : v \in {"off", "full"}, s \in {0, 1} }
    \cup { [Plain("flash") EXCEPT !.dry_run = TRUE, !.verify = "full"],
           [Plain("flash") EXCEPT !.verify = "sampled"],
           [Plain("flash") EXCEPT !.verify = "full", !.bad = 3],
           [Plain("flash") EXCEPT !.verify = "full", !.unread = 2] }

MCBackups ==
  { [Plain("backup") EXCEPT !.codec = c[1], !.ending = c[2], !.bad = b[1], !.room = b[2],
                            !.sidecar = b[3]] :
      c \in {<<"none", ".img">>, <<"zstd", ".zst">>, <<"brotli", ".br">>, <<"lz4", ".img">>},
      b \in {<<0, 9, "fits">>, <<3, 9, "fits">>, <<0, 3, "cut">>, <<0, 2, "denied">>} }

MCVerifies ==
  { [Plain("verify") EXCEPT !.against = a] : a \in {"file", "manifest"} }
    \cup { [Plain("verify") EXCEPT !.bad = 3], [Plain("verify") EXCEPT !.unread = 1] }

\* A directory with a file and a directory in it, which has a file; and a file
\* beside it.
MCTree == [etc |-> "/", hosts |-> "etc", ssh |-> "etc", key |-> "ssh", readme |-> "/"]

MCArchives ==
  { [Plain("archive") EXCEPT !.codec = c[1], !.ending = c[2], !.excludes = e[1], !.denied = e[2],
                             !.room = e[3]] :
      c \in {<<"none", ".tar">>, <<"zstd", ".zst">>, <<"lz4", ".lz4">>, <<"gzip", ".tar">>},
      e \in {<<{}, {}, 9>>, <<{"ssh"}, {}, 9>>, <<{"etc"}, {"hosts"}, 9>>, <<{}, {"hosts"}, 9>>,
             <<{"/"}, {}, 9>>, <<{}, {}, 5>>, <<{}, {}, 4>>} }

MCLists == { [Plain("list") EXCEPT !.layout = l, !.show_all = a] : l \in MCLayouts, a \in BOOLEAN }

MCUsages == { [Plain(op) EXCEPT !.args = a, !.opens = ~a] : op \in {"flash", "backup", "verify", "archive"}, a \in BOOLEAN }
              \cup {Plain("verify-queue")}

MCRestores == { Plain("restore"), [Plain("restore") EXCEPT !.unread = 2],
                [Plain("restore") EXCEPT !.denied = {"readme"}] }

MCCommands == MCFlashes \cup MCBackups \cup MCVerifies \cup MCArchives \cup MCRestores \cup MCLists \cup MCUsages

\* Flashes with and without a verify.
MCVerified == { [Plain("flash") EXCEPT !.verify = v] : v \in {"full", "off"} }
=============================================================================
