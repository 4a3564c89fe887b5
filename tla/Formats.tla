------------------------------ MODULE Formats ------------------------------
(***************************************************************************)
(* Which codec a file is taken to need: by its first bytes (detect), by    *)
(* the ending of its name (detect_by_extension), and as the program's      *)
(* paths combine the two.  A name is known by its ending: one of the       *)
(* suffixes the program knows, or "plain".  A content is known by the      *)
(* codec that wrote it, or is a tekflash envelope.                         *)
(***************************************************************************)

Codecs == {"none", "zstd", "lz4", "brotli", "xz", "gzip", "bzip2"}

Endings == {".zst", ".zsd", ".zstd", ".xz", ".gz", ".bz2", ".lz4", ".br",
             ".iso", ".img", ".bin", ".raw", ".tar"}

Contents == Codecs \cup {"encrypted"}

\* Neither brotli nor an image without compression starts with a magic.
Magic == {"zstd", "lz4", "xz", "gzip", "bzip2"}

InputFormats == {"Raw", "Zstd", "Xz", "Gzip", "Bzip2", "Lz4", "Brotli", "Tar", "Encrypted"}

Detect(content) ==
  CASE content = "encrypted" -> "Encrypted"
    [] content = "zstd"      -> "Zstd"
    [] content = "xz"        -> "Xz"
    [] content = "gzip"      -> "Gzip"
    [] content = "bzip2"     -> "Bzip2"
    [] content = "lz4"       -> "Lz4"
    [] OTHER                 -> "Raw"

DetectByExtension(ending) ==
  CASE ending \in {".zst", ".zstd", ".zsd"}         -> "Zstd"
    [] ending = ".xz"                               -> "Xz"
    [] ending = ".gz"                               -> "Gzip"
    [] ending = ".bz2"                              -> "Bzip2"
    [] ending = ".lz4"                              -> "Lz4"
    [] ending = ".br"                               -> "Brotli"
    [] ending = ".tar"                              -> "Tar"
    [] ending \in {".iso", ".img", ".bin", ".raw"}  -> "Raw"
    [] OTHER                                        -> "None"

\* impl From<InputFormat> for Codec, and None for no format at all.
CodecFrom(format) ==
  CASE format = "Zstd"   -> "zstd"
    [] format = "Xz"     -> "xz"
    [] format = "Gzip"   -> "gzip"
    [] format = "Bzip2"  -> "bzip2"
    [] format = "Lz4"    -> "lz4"
    [] format = "Brotli" -> "brotli"
    [] OTHER             -> "none"

\* The magic decides, that of an envelope too, which has no codec; the name is
\* asked when there is none (detect_codec, and the copy of it in the command
\* line's flash).
DetectCodec(content, ending) ==
  IF Detect(content) = "Raw" THEN CodecFrom(DetectByExtension(ending))
                             ELSE CodecFrom(Detect(content))

\* restore goes by the name alone.
RestoreCodec(ending) == CodecFrom(DetectByExtension(ending))
=============================================================================
