----------------------------- MODULE MCBrowser -----------------------------
EXTENDS Browser

Node(dir, isDir, hidden, ending, content) ==
  [dir |-> dir, is_dir |-> isDir, hidden |-> hidden, ending |-> ending, content |-> content]

\* A directory with an image in it, beside a gzip image misnamed .bin and a
\* hidden envelope, which is listed before the image when files are not ranked.
MCTree ==
  [ d     |-> Node(Root, TRUE,  FALSE, "plain", "none"),
    notes |-> Node(Root, FALSE, TRUE,  "plain", "encrypted"),
    pi    |-> Node(Root, FALSE, FALSE, ".bin",  "gzip"),
    usb   |-> Node("d",  FALSE, FALSE, ".br",   "brotli") ]

MCOrder == <<"d", "notes", "pi", "usb">>

\* The suffixes of two codecs, one written in two ways, and of an image.
MCTyped == {".zst", ".zstd", ".gz", ".img"}

\* The ranges of CODECS, with fewer levels between their ends.
MCLevelRange ==
  [ zstd |-> <<1, 2, 3>>, lz4 |-> <<0, 0, 0>>, brotli |-> <<0, 1, 1>>, xz |-> <<1, 1, 1>>,
    gzip |-> <<1, 1, 1>>, bzip2 |-> <<1, 1, 1>>, none |-> <<0, 0, 0>> ]
=============================================================================
