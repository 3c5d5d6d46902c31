------------------------------ MODULE Pipeline ------------------------------
(***************************************************************************)
(* The rules of the processing pipeline (internal/domain/processing,       *)
(* internal/domain/image, and the pure functions of internal/service/      *)
(* processor): which options are valid, which conversions are supported,   *)
(* which of them need a tool of their own, which compressor a format has,  *)
(* and the dimensions an image is resized to.                              *)
(***************************************************************************)
EXTENDS Integers

\* SupportedFormats: also the formats whose decoders fs/metadata.go registers.
Formats == {"jpeg", "png", "webp"}

ValidateFormat(f) == f \in Formats

minQuality == 1
maxQuality == 100

\* NewOptions returns options, and no error.
ValidOptions(o) ==
    /\ ValidateFormat(o.format)
    /\ o.maxDimension >= 0
    /\ o.quality \in minQuality .. maxQuality

CanConvert(from, to) ==
    \/ from = to
    \/ from = "png" /\ to \in {"webp", "jpeg"}
    \/ from = "webp" /\ to = "jpeg"
    \/ from = "jpeg" /\ to = "webp"

\* webp is made by its compressor, from any format.
needToConvert(from, to) ==
    \/ from = "png" /\ to = "jpeg"
    \/ from = "webp" /\ to = "jpeg"

\* Extra is nil, so the choice of oxipng is never made.
Compressor(format) ==
    CASE format = "jpeg" -> "jpegoptim"
      [] format = "png"  -> "pngquant"
      [] format = "webp" -> "cwebp"

-----------------------------------------------------------------------------
\* k is n / d rounded.  The code computes in floating point, n as a product
\* with a quotient that is not exact, so a tie may go either way.
Rounds(k, n, d) == 2 * k * d - 2 * n \in -d .. d

Dimensions(w, h) == [width |-> w, height |-> h]

\* Broken variant: the longer side is the one that is computed.
resizeDimensionsSwapped(max, w, h) ==
    IF w <= max /\ h <= max THEN {Dimensions(w, h)}
    ELSE IF w > h
    THEN {Dimensions(k, max) : k \in {k \in 0 .. w * max : Rounds(k, w * max, h)}}
    ELSE {Dimensions(max, k) : k \in {k \in 0 .. h * max : Rounds(k, h * max, w)}}

\* The dimensions that resizeDimensions may return; the smaller of the two can
\* be zero.
resizeDimensions(max, w, h) ==
    IF w <= max /\ h <= max THEN {Dimensions(w, h)}
    ELSE IF w > h
    THEN {Dimensions(max, k) : k \in {k \in 0 .. h * max : Rounds(k, h * max, w)}}
    ELSE {Dimensions(k, max) : k \in {k \in 0 .. w * max : Rounds(k, w * max, h)}}

-----------------------------------------------------------------------------
(* The tools, as the command lines in src/ rely on them.                    *)

Tools == {"magick", "jpegoptim", "pngquant", "cwebp"}

\* The formats that a tool reads, and the one it writes: ImageMagick goes by
\* the extension of the file it is to write.
Reads(tool) ==
    CASE tool = "jpegoptim" -> {"jpeg"}
      [] tool = "pngquant"  -> {"png"}
      [] OTHER              -> Formats

Writes(tool, extension) ==
    CASE tool = "jpegoptim" -> "jpeg"
      [] tool = "pngquant"  -> "png"
      [] tool = "cwebp"     -> "webp"
      [] tool = "magick"    -> extension
=============================================================================
