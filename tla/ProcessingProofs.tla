-------------------------- MODULE ProcessingProofs --------------------------
(***************************************************************************)
(* Proofs about ProcessingCallers.tla, for any tasks, images, limits and   *)
(* failures: tasks that share a directory do not meet in it, each tool     *)
(* finds a whole image that it can read, and the results are what was      *)
(* asked for.  First come facts about the rules in Pipeline.tla: what the  *)
(* steps of the pipeline hand on to one another.                           *)
(***************************************************************************)
EXTENDS ProcessingCallers, TLAPS, FiniteSetTheorems

Positive == Nat \ {0}

\* Rounding the product of a limit with a proportion: w is the longer side.
LEMMA Rounded ==
    ASSUME NEW max \in Positive, NEW w \in Positive, NEW h \in Positive, h <= w, max < w,
           NEW k \in Nat, Rounds(k, h * max, w)
    PROVE  /\ k <= max
           /\ k <= h
           /\ max * h - k * w \in -w .. w
           /\ k = 0 => 2 * h * max <= w
<1> USE DEF Positive
<1> DEFINE kw == k * w
           hm == h * max
<1>1. kw \in Nat /\ hm \in Nat
  OBVIOUS
<1>2. 2 * kw - 2 * hm <= w /\ -w <= 2 * kw - 2 * hm
  BY DEF Rounds
<1>3. k <= max
  <2> SUFFICES ASSUME k >= max + 1 PROVE FALSE
    OBVIOUS
  <2>1. kw >= (max + 1) * w
    OBVIOUS
  <2>2. hm <= w * max
    OBVIOUS
  <2>3. (max + 1) * w = w * max + w
    OBVIOUS
  <2> QED
    BY <1>1, <1>2, <2>1, <2>2, <2>3
<1>4. k <= h
  <2> SUFFICES ASSUME k >= h + 1 PROVE FALSE
    OBVIOUS
  <2>1. kw >= (h + 1) * w
    OBVIOUS
  <2>2. hm <= h * w
    OBVIOUS
  <2>3. (h + 1) * w = h * w + w
    OBVIOUS
  <2> QED
    BY <1>1, <1>2, <2>1, <2>2, <2>3
<1>5. max * h - k * w \in -w .. w
  <2>1. max * h = hm
    OBVIOUS
  <2> HIDE DEF hm
  <2>2. hm - kw <= w /\ -w <= hm - kw
    BY <1>1, <1>2
  <2> QED
    BY <1>1, <2>1, <2>2
<1>6. k = 0 => 2 * h * max <= w
  <2> SUFFICES ASSUME k = 0 PROVE 2 * h * max <= w
    OBVIOUS
  <2>1. kw = 0
    OBVIOUS
  <2>2. 2 * h * max = 2 * hm
    OBVIOUS
  <2> QED
    BY <1>1, <1>2, <2>1, <2>2
<1> QED
  BY <1>3, <1>4, <1>5, <1>6

\* The longer side is the limit, or what it was; the other one is no more than
\* it was and keeps the proportion; and a side gets lost only of an image that is
\* more than twice as long as the limit allows for a pixel (resizer.go:16-32).
THEOREM ResizedFits ==
    ASSUME NEW max \in Positive, NEW w \in Positive, NEW h \in Positive,
           NEW d \in resizeDimensions(max, w, h)
    PROVE  /\ d.width \in Nat /\ d.height \in Nat
           /\ d.width <= w /\ d.height <= h
           /\ IF w <= max /\ h <= max THEN d.width = w /\ d.height = h
              ELSE IF w > h THEN d.width = max /\ d.height <= max
              ELSE d.height = max /\ d.width <= max
           /\ IF w > h THEN d.width * h - d.height * w \in -w .. w
              ELSE d.width * h - d.height * w \in -h .. h
           /\ d.width = 0 => 2 * w * max <= h
           /\ d.height = 0 => 2 * h * max <= w
<1> USE DEF Positive
<1>1. CASE w <= max /\ h <= max
  <2>1. d = Dimensions(w, h)
    BY <1>1 DEF resizeDimensions
  <2>2. d.width = w /\ d.height = h
    BY <2>1 DEF Dimensions
  <2>3. w * h - h * w = 0
    OBVIOUS
  <2> QED
    BY <1>1, <2>2, <2>3
<1>2. CASE ~(w <= max /\ h <= max) /\ w > h
  <2>1. PICK k \in 0 .. h * max : d = Dimensions(max, k) /\ Rounds(k, h * max, w)
    BY <1>2 DEF resizeDimensions
  <2>2. d.width = max /\ d.height = k /\ k \in Nat /\ max < w /\ h <= w
    BY <1>2, <2>1 DEF Dimensions
  <2>3. /\ k <= max /\ k <= h
        /\ max * h - k * w \in -w .. w
        /\ k = 0 => 2 * h * max <= w
    BY <2>1, <2>2, Rounded
  <2> QED
    BY <1>2, <2>2, <2>3
<1>3. CASE ~(w <= max /\ h <= max) /\ ~(w > h)
  <2>1. PICK k \in 0 .. w * max : d = Dimensions(k, max) /\ Rounds(k, w * max, h)
    BY <1>3 DEF resizeDimensions
  <2>2. d.width = k /\ d.height = max /\ k \in Nat /\ max < h /\ w <= h
    BY <1>3, <2>1 DEF Dimensions
  <2>3. /\ k <= max /\ k <= w
        /\ max * w - k * h \in -h .. h
        /\ k = 0 => 2 * w * max <= h
    BY <2>1, <2>2, Rounded
  <2>4. k * h - max * w \in -h .. h
    <3> DEFINE x == k * h
               y == max * w
    <3>1. x \in Int /\ y \in Int /\ y - x \in -h .. h
      BY <2>2, <2>3
    <3> HIDE DEF x, y
    <3>2. x - y \in -h .. h
      BY <3>1
    <3> QED
      BY <3>2 DEF x, y
  <2>5. max * w = d.height * w
    BY <2>2
  <2> QED
    BY <1>3, <2>2, <2>3, <2>4, <2>5
<1> QED
  BY <1>1, <1>2, <1>3

-----------------------------------------------------------------------------
\* What the chain hands to the compressor of a format is in a format that it
\* reads: a resized or converted image has the new format already, and an
\* original that is neither keeps its format only where the compressor takes it
\* (rules.go:15-30, converter.go:9-20, compressor.go:57-92).
THEOREM CompressorCanRead ==
    ASSUME NEW from \in Formats, NEW to, CanConvert(from, to)
    PROVE  /\ to \in Formats
           /\ Compressor(to) \in Tools /\ Compressor(to) # "magick"
           /\ to \in Reads(Compressor(to))
           /\ from \in Reads("magick")
           /\ ~needToConvert(from, to) => from \in Reads(Compressor(to))
           /\ Writes("magick", to) = to
           /\ Writes(Compressor(to), to) = to
  BY DEF Formats, CanConvert, Compressor, Tools, Reads, needToConvert, Writes

-----------------------------------------------------------------------------
\* The files of one call.
Own(t) == {Resized(t), Converted(t), Compressed(t), Scratch(t)}

\* A whole image as the call t wants it.
Good(file, t) ==
    /\ file \in DOMAIN dir
    /\ dir[file] \in Images
    /\ AsAsked(dir[file], options[t])

\* What a call has behind it when it has got somewhere: its conversion is
\* supported, and the last file of its chain is as wanted.
Chain(t) ==
    /\ call[t] \in ToolSteps \cup {"processed", "uploaded"} =>
         CanConvert(request.image.format, options[t].format)
    /\ call[t] = "resize" => resizes(t)
    /\ call[t] = "convert" => converts(t)
    /\ call[t] \in {"convert", "compress"} /\ resizes(t) => Good(Resized(t), t)
    /\ call[t] = "compress" /\ converts(t) => Good(Converted(t), t)
    /\ call[t] = "processed" /\ status = "processing" => Good(Compressed(t), t)
    /\ call[t] = "uploaded" => t \in DOMAIN results /\ AsAsked(results[t], options[t])
    /\ call[t] \in Errors /\ request.caller = "worker" =>
         \/ call[t] = "other"
         \/ ~CanConvert(request.image.format, options[t].format)

\* The original stays where it is for as long as tools run.
Fetched ==
    \/ status = "processing"
    \/ request.caller = "cli" /\ status = "pending"
    => Original \in DOMAIN dir /\ dir[Original] = request.image

IndInv ==
    /\ Request(request)
    /\ request.caller = "worker" => options = request.options
    /\ \A t \in DOMAIN options : options[t].maxDimension \in Int
    /\ call \in [DOMAIN options -> CallStates]
    /\ request.caller = "worker" => DOMAIN results \subseteq DOMAIN options
    /\ request.caller = "cli" /\ status # "pending" => DOMAIN options = {"cli"}
    /\ request.caller = "cli" /\ status = "pending" => DOMAIN options = {}
    /\ status # "processing" => \A t \in DOMAIN call :
         /\ call[t] \notin ToolSteps
         /\ request.caller = "worker" => call[t] = "waiting"
    /\ Fetched
    /\ \A t \in DOMAIN call : Chain(t)
    /\ OutcomeJustified

-----------------------------------------------------------------------------
\* A file that is added or replaced, and files that are removed.
LEMMA DirFacts ==
    ASSUME NEW d, NEW file, NEW content, NEW files
    PROVE  /\ DOMAIN With(d, file, content) = DOMAIN d \cup {file}
           /\ With(d, file, content)[file] = content
           /\ \A f \in DOMAIN d : f # file => With(d, file, content)[f] = d[f]
           /\ DOMAIN Without(d, files) = DOMAIN d \ files
           /\ \A f \in DOMAIN d : f \notin files => Without(d, files)[f] = d[f]
  BY DEF With, Without, Restrict

\* Files of different calls, and files of a call and the original, have
\* different names, and so do the four files of one call.
LEMMA NamesDiffer ==
    /\ \A t : Original \notin Own(t)
    /\ \A t, u : t # u => Own(t) \cap Own(u) = {}
    /\ \A t : /\ Resized(t) # Converted(t) /\ Resized(t) # Compressed(t)
              /\ Resized(t) # Scratch(t) /\ Converted(t) # Compressed(t)
              /\ Converted(t) # Scratch(t) /\ Compressed(t) # Scratch(t)
  BY DEF Own, Original, Resized, Converted, Compressed, Scratch, File, Tag

\* Only what the steps of a call itself leave in the directory.
OnlyOwn(t) ==
    \A f : f \notin Own(t) =>
        /\ f \in DOMAIN dir' <=> f \in DOMAIN dir
        /\ f \in DOMAIN dir => dir'[f] = dir[f]

-----------------------------------------------------------------------------
\* The dimensions of the original are those to end with when it is not resized.
LEMMA OriginalFits ==
    ASSUME Request(request), NEW t, options[t].maxDimension \in Int, ~resizes(t)
    PROVE  Fits(request.image, options[t])
<1> DEFINE w == request.image.width
           h == request.image.height
<1>1. w \in Nat /\ h \in Nat
  BY DEF Request, Images
<1>2. ~(options[t].maxDimension > 0)
  BY DEF resizes
<1>3. w * h - h * w = 0
  BY <1>1
<1>4. Larger(w, h) \in Nat
  BY <1>1 DEF Larger
<1> QED
  BY <1>2, <1>3, <1>4 DEF Fits

\* Those that resizing makes are, also when a side is lost and is one pixel then.
LEMMA ResizedImageFits ==
    ASSUME Request(request), NEW t, options[t].maxDimension \in Int, resizes(t),
           NEW d \in NewDimensions(t), NEW image,
           image.width = AtLeastOne(d.width), image.height = AtLeastOne(d.height)
    PROVE  /\ image.width \in Nat \ {0} /\ image.height \in Nat \ {0}
           /\ Fits(image, options[t])
<1> DEFINE w == request.image.width
           h == request.image.height
           max == options[t].maxDimension
           x == image.width
           y == image.height
           size == Larger(w, h)
<1>1. w \in Positive /\ h \in Positive /\ max \in Positive
  BY DEF Request, Images, resizes, Positive
<1>2. d \in resizeDimensions(max, w, h)
  BY DEF NewDimensions
<1> HIDE DEF w, h, max, x, y
<1>3. /\ d.width \in Nat /\ d.height \in Nat
      /\ d.width <= w /\ d.height <= h
      /\ IF w <= max /\ h <= max THEN d.width = w /\ d.height = h
         ELSE IF w > h THEN d.width = max /\ d.height <= max
         ELSE d.height = max /\ d.width <= max
      /\ IF w > h THEN d.width * h - d.height * w \in -w .. w
         ELSE d.width * h - d.height * w \in -h .. h
      /\ d.width = 0 => 2 * w * max <= h
      /\ d.height = 0 => 2 * h * max <= w
  BY <1>1, <1>2, ResizedFits
<1>4. x = AtLeastOne(d.width) /\ y = AtLeastOne(d.height)
  BY DEF x, y
<1>5. x \in Nat \ {0} /\ y \in Nat \ {0}
  BY <1>3, <1>4 DEF AtLeastOne
<1>6. Larger(x, y) = Smaller(max, size)
  <2>1. CASE w <= max /\ h <= max
    <3>1. x = w /\ y = h
      BY <1>1, <1>3, <1>4, <2>1 DEF AtLeastOne, Positive
    <3> QED
      BY <1>1, <2>1, <3>1 DEF Larger, Smaller, Positive
  <2>2. CASE ~(w <= max /\ h <= max) /\ w > h
    <3>1. x = max /\ y <= max
      BY <1>1, <1>3, <1>4, <2>2 DEF AtLeastOne, Positive
    <3> QED
      BY <1>1, <1>5, <2>2, <3>1 DEF Larger, Smaller, Positive
  <2>3. CASE ~(w <= max /\ h <= max) /\ ~(w > h)
    <3>1. y = max /\ x <= max
      BY <1>1, <1>3, <1>4, <2>3 DEF AtLeastOne, Positive
    <3> QED
      BY <1>1, <1>5, <2>3, <3>1 DEF Larger, Smaller, Positive
  <2> QED
    BY <2>1, <2>2, <2>3
<1>7. x * h - y * w \in -size .. size
  <2>1. CASE d.width # 0 /\ d.height # 0
    BY <1>1, <1>3, <1>4, <2>1 DEF AtLeastOne, Larger, Positive
  <2>2. CASE d.height = 0
    <3>1. w > h /\ d.width = max /\ 2 * h * max <= w
      BY <1>1, <1>3, <2>2 DEF Positive
    <3>2. x = max /\ y = 1 /\ size = w
      BY <1>1, <1>4, <2>2, <3>1 DEF AtLeastOne, Larger, Positive
    <3> DEFINE p == h * max
    <3>3. p \in Nat /\ 2 * p <= w /\ x * h = p /\ y * w = w
      <4>1. 2 * h * max = 2 * p
        BY <1>1 DEF Positive
      <4> QED
        BY <1>1, <3>1, <3>2, <4>1 DEF Positive
    <3> HIDE DEF p
    <3> QED
      BY <1>1, <3>2, <3>3 DEF Positive
  <2>3. CASE d.width = 0
    <3>1. ~(w > h) /\ d.height = max /\ 2 * w * max <= h
      BY <1>1, <1>3, <2>3 DEF Positive
    <3>2. x = 1 /\ y = max /\ size = h
      BY <1>1, <1>4, <2>3, <3>1 DEF AtLeastOne, Larger, Positive
    <3> DEFINE p == w * max
    <3>3. p \in Nat /\ 2 * p <= h /\ x * h = h /\ y * w = p
      <4>1. 2 * w * max = 2 * p
        BY <1>1 DEF Positive
      <4> QED
        BY <1>1, <3>1, <3>2, <4>1 DEF Positive
    <3> HIDE DEF p
    <3> QED
      BY <1>1, <3>2, <3>3 DEF Positive
  <2> QED
    BY <2>1, <2>2, <2>3
<1>8. max > 0
  BY <1>1 DEF Positive
<1> QED
  BY <1>5, <1>6, <1>7, <1>8 DEF Fits, w, h, max, x, y

-----------------------------------------------------------------------------
\* Whatever tool a call has got to finds its input there, whole, in a format it
\* reads, and of the dimensions to end with unless the tool is to resize it.
LEMMA InputGood ==
    ASSUME IndInv, NEW t \in DOMAIN call, call[t] \in ToolSteps
    PROVE  /\ CanRead(t, call[t])
           /\ dir[InputOf(t, call[t])] \in Images
           /\ call[t] # "resize" => Fits(dir[InputOf(t, call[t])], options[t])
<1> DEFINE from == request.image.format
           to == options[t].format
<1>1. /\ Request(request) /\ options[t].maxDimension \in Int
      /\ status = "processing" /\ Chain(t) /\ CanConvert(from, to)
      /\ Original \in DOMAIN dir /\ dir[Original] = request.image
  BY DEF IndInv, Fetched, Chain
<1>2. request.image \in Images /\ from \in Formats
  BY <1>1 DEF Request, Images
<1>3. /\ to \in Formats /\ to \in Reads(Compressor(to))
      /\ from \in Reads("magick")
      /\ ~needToConvert(from, to) => from \in Reads(Compressor(to))
      /\ \A f \in Formats : f \in Reads("magick")
  BY <1>1, <1>2, CompressorCanRead DEF Reads
<1>4. \A f : Good(f, t) =>
        /\ Whole(f) /\ dir[f] \in Images /\ dir[f].format = to
        /\ Fits(dir[f], options[t])
  BY <1>3 DEF Good, AsAsked, Whole, Partial, Images, Formats
<1>5. Whole(Original) /\ dir[Original] \in Images /\ dir[Original].format = from
  BY <1>1, <1>2 DEF Whole, Partial, Images, Formats
<1>6. ~resizes(t) => Fits(dir[Original], options[t])
  BY <1>1, OriginalFits
<1>7. CASE call[t] = "resize"
  <2>1. InputOf(t, call[t]) = Original /\ Tool(t, call[t]) = "magick"
    BY <1>7 DEF InputOf, Tool
  <2> QED
    BY <1>3, <1>5, <1>7, <2>1 DEF CanRead
<1>8. CASE call[t] = "convert"
  <2>1. Tool(t, call[t]) = "magick"
    BY <1>8 DEF Tool
  <2>2. CASE resizes(t)
    <3>1. InputOf(t, call[t]) = Resized(t) /\ Good(Resized(t), t)
      BY <1>1, <1>8, <2>2 DEF InputOf, Chain
    <3> QED
      BY <1>3, <1>4, <2>1, <3>1 DEF CanRead
  <2>3. CASE ~resizes(t)
    <3>1. InputOf(t, call[t]) = Original
      BY <1>8, <2>3 DEF InputOf
    <3> QED
      BY <1>3, <1>5, <1>6, <2>1, <2>3, <3>1 DEF CanRead
  <2> QED
    BY <2>2, <2>3
<1>9. CASE call[t] = "compress"
  <2>1. Tool(t, call[t]) = Compressor(to)
    BY <1>9 DEF Tool
  <2>2. CASE converts(t)
    <3>1. InputOf(t, call[t]) = Converted(t) /\ Good(Converted(t), t)
      BY <1>1, <1>9, <2>2 DEF InputOf, Chain
    <3> QED
      BY <1>3, <1>4, <2>1, <3>1 DEF CanRead
  <2>3. CASE ~converts(t) /\ resizes(t)
    <3>1. InputOf(t, call[t]) = Resized(t) /\ Good(Resized(t), t)
      BY <1>1, <1>9, <2>3 DEF InputOf, Chain
    <3> QED
      BY <1>3, <1>4, <2>1, <3>1 DEF CanRead
  <2>4. CASE ~converts(t) /\ ~resizes(t)
    <3>1. InputOf(t, call[t]) = Original
      BY <1>9, <2>4 DEF InputOf
    <3>2. from \in Reads(Compressor(to))
      BY <1>3, <2>4 DEF converts
    <3> QED
      BY <1>5, <1>6, <2>1, <2>4, <3>1, <3>2 DEF CanRead
  <2> QED
    BY <2>2, <2>3, <2>4
<1> QED
  BY <1>7, <1>8, <1>9 DEF ToolSteps

\* What a tool makes of it is a whole image of the right format and dimensions.
LEMMA MadeGood ==
    ASSUME IndInv, NEW t \in DOMAIN call, call[t] \in ToolSteps,
           NEW image \in Made(t, call[t])
    PROVE  image \in Images /\ AsAsked(image, options[t])
<1> DEFINE from == request.image.format
           to == options[t].format
           source == dir[InputOf(t, call[t])]
           format == Writes(Tool(t, call[t]), to)
<1>1. /\ Request(request) /\ options[t].maxDimension \in Int
      /\ from \in Formats /\ CanConvert(from, to) /\ Chain(t)
  BY DEF IndInv, Chain, Request, Images
<1>2. format = to /\ to \in Formats
  BY <1>1, CompressorCanRead DEF Tool
<1> HIDE DEF format
<1>3. CASE call[t] = "resize"
  <2>1. PICK d \in NewDimensions(t) :
          image = [format |-> format, width |-> AtLeastOne(d.width),
                   height |-> AtLeastOne(d.height)]
    BY <1>3 DEF Made, format
  <2>2. /\ image.format = to
        /\ image.width = AtLeastOne(d.width) /\ image.height = AtLeastOne(d.height)
    BY <1>2, <2>1
  <2>3. resizes(t)
    BY <1>1, <1>3 DEF Chain
  <2>4. /\ image.width \in Nat \ {0} /\ image.height \in Nat \ {0}
        /\ Fits(image, options[t])
    BY <1>1, <2>2, <2>3, ResizedImageFits
  <2>5. image \in Images
    BY <1>2, <2>1, <2>2, <2>4 DEF Images
  <2> QED
    BY <2>2, <2>4, <2>5 DEF AsAsked
<1>4. CASE call[t] # "resize"
  <2>1. image = [source EXCEPT !.format = format]
    BY <1>4 DEF Made, format
  <2>2. source \in Images /\ Fits(source, options[t])
    BY <1>4, InputGood
  <2> HIDE DEF source
  <2>3. /\ image \in Images /\ image.format = to
        /\ image.width = source.width /\ image.height = source.height
    BY <1>2, <2>1, <2>2 DEF Images
  <2>4. Fits(image, options[t])
    BY <2>2, <2>3 DEF Fits
  <2> QED
    BY <2>3, <2>4 DEF AsAsked
<1> QED
  BY <1>3, <1>4

-----------------------------------------------------------------------------
\* A step of one call leaves the other calls what they have.
LEMMA OthersKept ==
    ASSUME IndInv, NEW t \in DOMAIN call, NEW to \in CallStates, status = "processing",
           call' = [call EXCEPT ![t] = to], OnlyOwn(t),
           UNCHANGED <<request, options, status, reason>>,
           \/ UNCHANGED results
           \/ /\ request.caller = "worker"
              /\ \E image : results' = With(results, t, image),
           Chain(t)'
    PROVE  IndInv'
<1>1. call' \in [DOMAIN options' -> CallStates] /\ t \in DOMAIN options
  BY DEF IndInv
<1>2. Fetched'
  <2>1. Original' = Original
    BY DEF Original
  <2>2. Original \notin Own(t)
    BY NamesDiffer
  <2> QED
    BY <2>1, <2>2 DEF IndInv, Fetched, OnlyOwn
<1>3. ASSUME NEW u \in DOMAIN call', u # t
      PROVE  Chain(u)'
  <2>1. u \in DOMAIN call /\ call'[u] = call[u] /\ Chain(u)
    BY <1>1, <1>3 DEF IndInv
  <2>2. \A f \in Own(u) : /\ f \in DOMAIN dir => f \in DOMAIN dir' /\ dir'[f] = dir[f]
    BY <1>3, NamesDiffer DEF OnlyOwn
  <2>3. /\ resizes(u)' = resizes(u) /\ converts(u)' = converts(u)
        /\ Resized(u)' = Resized(u) /\ Converted(u)' = Converted(u)
        /\ Compressed(u)' = Compressed(u)
    BY DEF resizes, converts, Resized, Converted, Compressed
  <2>4. \A f \in Own(u) : Good(f, u) => Good(f, u)'
    BY <2>2 DEF Good, AsAsked, Fits
  <2>5. {Resized(u), Converted(u), Compressed(u)} \subseteq Own(u)
    BY DEF Own
  <2>6. u \in DOMAIN results => u \in DOMAIN results' /\ results'[u] = results[u]
    <3>1. ASSUME NEW image, results' = With(results, t, image)
          PROVE  u \in DOMAIN results => u \in DOMAIN results' /\ results'[u] = results[u]
      BY <1>3, <3>1 DEF With
    <3> QED
      BY <3>1
  <2>7. u \in DOMAIN results /\ AsAsked(results[u], options[u])
          => AsAsked(results[u], options[u])'
    BY <2>6 DEF AsAsked, Fits
  <2> QED
    BY <2>1, <2>3, <2>4, <2>5, <2>6, <2>7 DEF Chain
<1>4. \A u \in DOMAIN call' : Chain(u)'
  BY <1>3
<1>5. request.caller = "worker" => DOMAIN results' \subseteq DOMAIN options
  <2>1. ASSUME NEW image, results' = With(results, t, image)
        PROVE  DOMAIN results' = DOMAIN results \cup {t}
    BY <2>1 DEF With
  <2> QED
    BY <1>1, <2>1 DEF IndInv
<1>6. OutcomeJustified'
  BY DEF OutcomeJustified
<1> QED
  BY <1>1, <1>2, <1>4, <1>5, <1>6 DEF IndInv

\* A call that has failed with an error that is temporary, or is one of an
\* unsupported conversion, has nothing behind it.
LEMMA FailedChain ==
    ASSUME IndInv, NEW t \in DOMAIN call, NEW e \in Errors,
           call' = [call EXCEPT ![t] = e], UNCHANGED <<request, options>>,
           e = "other" \/ ~CanConvert(request.image.format, options[t].format)
    PROVE  Chain(t)'
<1>1. call'[t] = e
  OBVIOUS
<1>2. e \notin ToolSteps \cup {"waiting", "processed", "uploaded"}
  BY DEF Errors, J!ErrorKinds, ToolSteps
<1> QED
  BY <1>1, <1>2 DEF Chain, ToolSteps

\* Process begins, or ends at once.
LEMMA StartCallInv ==
    ASSUME IndInv, NEW t \in DOMAIN call, StartCall(t) \/ StartCallFails(t)
    PROVE  IndInv'
<1>1. /\ UNCHANGED <<request, options, status, reason, results>>
      /\ status = "processing" /\ call[t] = "waiting"
  BY DEF StartCall, StartCallFails
<1>2. CASE call' = [call EXCEPT ![t] = "other"] /\ dir' = dir
  <2>1. "other" \in Errors /\ "other" \in CallStates
    BY DEF Errors, J!ErrorKinds, CallStates
  <2> QED
    BY <1>1, <1>2, <2>1, FailedChain, OthersKept DEF OnlyOwn
<1>3. CASE /\ call' = [call EXCEPT ![t] = "conversion not supported"] /\ dir' = dir
           /\ ~CanConvert(request.image.format, options[t].format)
  <2>1. "conversion not supported" \in Errors /\ "conversion not supported" \in CallStates
    BY DEF Errors, J!ErrorKinds, CallStates
  <2> QED
    BY <1>1, <1>3, <2>1, FailedChain, OthersKept DEF OnlyOwn
<1>4. CASE /\ CanConvert(request.image.format, options[t].format)
           /\ Proceed(dir, t, Following(t, "waiting"))
  <2> DEFINE to == Following(t, "waiting")
  <2>1. /\ to \in ToolSteps
        /\ to = "resize" => resizes(t)
        /\ to = "convert" => converts(t) /\ ~resizes(t)
        /\ to = "compress" => ~converts(t) /\ ~resizes(t)
    BY DEF Following, ToolSteps
  <2> HIDE DEF to
  <2>2. /\ call' = [call EXCEPT ![t] = to]
        /\ dir' = With(dir, OutputOf(t, to), Partial)
    BY <1>4, <2>1 DEF Proceed, to
  <2>3. OutputOf(t, to) \in Own(t)
    BY <2>1 DEF OutputOf, Own, ToolSteps
  <2>4. OnlyOwn(t)
    BY <2>2, <2>3 DEF OnlyOwn, With
  <2>5. to \in CallStates /\ call'[t] = to
    BY <2>1, <2>2 DEF CallStates
  <2>6. /\ resizes(t)' = resizes(t) /\ converts(t)' = converts(t)
        /\ CanConvert(request'.image.format, options'[t].format)
    BY <1>1, <1>4 DEF resizes, converts
  <2>7. to \notin Errors \cup {"processed", "uploaded"}
    BY <2>1 DEF ToolSteps, Errors, J!ErrorKinds
  <2>8. Chain(t)'
    BY <2>1, <2>5, <2>6, <2>7 DEF Chain
  <2> QED
    BY <1>1, <2>2, <2>4, <2>5, <2>8, OthersKept
<1> QED
  BY <1>2, <1>3, <1>4 DEF StartCall, StartCallFails

\* A tool hands a good image on, in a file that is not the next tool's output.
LEMMA ToolEndsInv ==
    ASSUME IndInv, NEW t \in DOMAIN call, ToolEnds(t)
    PROVE  IndInv'
<1> DEFINE step == call[t]
           to == Following(t, step)
<1>1. /\ UNCHANGED <<request, options, status, reason, results>>
      /\ status = "processing" /\ step \in ToolSteps /\ Chain(t)
      /\ CanConvert(request.image.format, options[t].format)
  BY DEF ToolEnds, IndInv, Chain
<1>2. PICK image \in Made(t, step) :
        Proceed(LET written == With(dir, IF step = "compress" THEN Compressed(t)
                                         ELSE OutputOf(t, step), image)
                IN  IF step = "compress" THEN Without(written, Deferred(t, step)) ELSE written,
                t, to)
  BY DEF ToolEnds
<1>3. image \in Images /\ AsAsked(image, options[t])
  BY <1>1, <1>2, MadeGood
<1>4. /\ resizes(t)' = resizes(t) /\ converts(t)' = converts(t)
      /\ Resized(t)' = Resized(t) /\ Converted(t)' = Converted(t)
      /\ Compressed(t)' = Compressed(t)
      /\ CanConvert(request'.image.format, options'[t].format)
  BY <1>1 DEF resizes, converts, Resized, Converted, Compressed
<1>5. /\ AsAsked(image, options[t])'
      /\ \A x : AsAsked(x, options[t]) => AsAsked(x, options[t])'
  BY <1>1, <1>3 DEF AsAsked, Fits
<1>6. /\ Resized(t) # Converted(t) /\ Resized(t) # Compressed(t)
      /\ Resized(t) # Scratch(t) /\ Converted(t) # Compressed(t)
      /\ Converted(t) # Scratch(t) /\ Compressed(t) # Scratch(t)
  BY NamesDiffer
<1>7. {Resized(t), Converted(t), Compressed(t), Scratch(t)} \subseteq Own(t)
  BY DEF Own
<1>8. CASE step = "compress"
  <2>1. to = "processed"
    BY <1>8 DEF Following
  <2>2. /\ call' = [call EXCEPT ![t] = "processed"]
        /\ dir' = Without(With(dir, Compressed(t), image), Deferred(t, step))
    BY <1>2, <1>8, <2>1 DEF Proceed, ToolSteps
  <2>3. Deferred(t, step) \subseteq Own(t) \ {Compressed(t)}
    BY <1>6, <1>7 DEF Deferred
  <2>4. OnlyOwn(t)
    BY <1>7, <2>2, <2>3 DEF OnlyOwn, With, Without, Restrict
  <2>5. Compressed(t) \in DOMAIN dir' /\ dir'[Compressed(t)] = image
    BY <2>2, <2>3 DEF With, Without, Restrict
  <2>6. Good(Compressed(t), t)'
    BY <1>3, <1>4, <1>5, <2>5 DEF Good
  <2>7. "processed" \in CallStates /\ "processed" \notin Errors /\ call'[t] = "processed"
    BY <2>2 DEF CallStates, Errors, J!ErrorKinds
  <2>8. Chain(t)'
    BY <1>4, <2>6, <2>7 DEF Chain
  <2> QED
    BY <1>1, <2>2, <2>4, <2>7, <2>8, OthersKept
<1>9. CASE step \in {"resize", "convert"}
  <2>1. /\ to \in {"convert", "compress"}
        /\ to = "convert" => step = "resize" /\ converts(t)
        /\ to = "compress" => (step = "convert" <=> converts(t))
        /\ step = "resize" => resizes(t)
        /\ step = "convert" => converts(t)
    BY <1>1, <1>9 DEF Following, Chain
  <2> HIDE DEF to
  <2> DEFINE made == OutputOf(t, step)
             other == OutputOf(t, to)
  <2>2. /\ call' = [call EXCEPT ![t] = to]
        /\ dir' = With(With(dir, made, image), other, Partial)
    BY <1>2, <1>9, <2>1 DEF Proceed, ToolSteps
  <2>3. /\ made = IF step = "resize" THEN Resized(t) ELSE Converted(t)
        /\ other \in (IF to = "convert" THEN {Converted(t)} ELSE {Scratch(t), Compressed(t)})
    BY <1>9, <2>1 DEF OutputOf
  <2>4. made # other /\ {made, other} \subseteq Own(t)
    BY <1>6, <1>7, <1>9, <2>1, <2>3
  <2> HIDE DEF made, other
  <2>5. OnlyOwn(t)
    BY <2>2, <2>4 DEF OnlyOwn, With
  <2>6. made \in DOMAIN dir' /\ dir'[made] = image
    BY <2>2, <2>4 DEF With
  <2>7. \A f \in DOMAIN dir : f \notin {made, other} => f \in DOMAIN dir' /\ dir'[f] = dir[f]
    BY <2>2 DEF With
  <2>8. resizes(t) => Good(Resized(t), t)'
    <3>1. CASE step = "resize"
      BY <1>3, <1>4, <1>5, <2>3, <2>6, <3>1 DEF Good
    <3>2. CASE step = "convert" /\ resizes(t)
      <4>1. Good(Resized(t), t)
        BY <1>1, <3>2 DEF Chain
      <4>2. Resized(t) \notin {made, other}
        BY <1>6, <2>1, <2>3, <3>2
      <4> QED
        BY <1>4, <1>5, <2>7, <4>1, <4>2 DEF Good
    <3> QED
      BY <1>9, <3>1, <3>2
  <2>9. to = "compress" /\ converts(t) => Good(Converted(t), t)'
    BY <1>3, <1>4, <1>5, <1>9, <2>1, <2>3, <2>6 DEF Good
  <2>10. to \in CallStates /\ to \in ToolSteps /\ to \notin Errors \cup {"resize", "processed", "uploaded"}
         /\ call'[t] = to
    BY <2>1, <2>2 DEF CallStates, ToolSteps, Errors, J!ErrorKinds
  <2>11. Chain(t)'
    BY <1>4, <2>1, <2>8, <2>9, <2>10 DEF Chain
  <2> QED
    BY <1>1, <2>2, <2>5, <2>10, <2>11, OthersKept
<1> QED
  BY <1>1, <1>8, <1>9 DEF ToolSteps

\* A tool that fails leaves only files of its own call.
LEMMA ToolFailsInv ==
    ASSUME IndInv, NEW t \in DOMAIN call, ToolFails(t)
    PROVE  IndInv'
<1>1. /\ UNCHANGED <<request, options, status, reason, results>>
      /\ status = "processing" /\ call[t] \in ToolSteps
      /\ call' = [call EXCEPT ![t] = "other"]
  BY DEF ToolFails, IndInv
<1>2. PICK left \in {{}, {OutputOf(t, call[t])}} :
        dir' = Without(dir, Deferred(t, call[t]) \cup left)
  BY DEF ToolFails
<1>3. Deferred(t, call[t]) \cup left \subseteq Own(t)
  BY <1>1, <1>2 DEF Deferred, OutputOf, Own, ToolSteps
<1>4. OnlyOwn(t)
  BY <1>2, <1>3 DEF OnlyOwn, Without, Restrict
<1>5. "other" \in Errors /\ "other" \in CallStates
  BY DEF Errors, J!ErrorKinds, CallStates
<1> QED
  BY <1>1, <1>4, <1>5, FailedChain, OthersKept

\* What is uploaded is the good image that Process returned.
LEMMA UploadInv ==
    ASSUME IndInv, NEW t \in DOMAIN call, Upload(t) \/ UploadFails(t)
    PROVE  IndInv'
<1>1. /\ UNCHANGED <<request, options, dir, status, reason>>
      /\ request.caller = "worker" /\ call[t] = "processed"
      /\ status = "processing" /\ Chain(t)
  BY DEF Upload, UploadFails, IndInv
<1>2. OnlyOwn(t)
  BY <1>1 DEF OnlyOwn
<1>3. CASE Upload(t)
  <2>1. /\ results' = With(results, t, dir[Compressed(t)])
        /\ call' = [call EXCEPT ![t] = "uploaded"]
    BY <1>3 DEF Upload
  <2>2. t \in DOMAIN results' /\ results'[t] = dir[Compressed(t)]
    BY <2>1 DEF With
  <2>3. AsAsked(dir[Compressed(t)], options[t])
    BY <1>1 DEF Chain, Good
  <2>4. AsAsked(results[t], options[t])'
    BY <1>1, <2>2, <2>3 DEF AsAsked, Fits
  <2>5. "uploaded" \in CallStates /\ "uploaded" \notin Errors \cup ToolSteps /\ call'[t] = "uploaded"
    BY <2>1 DEF CallStates, Errors, J!ErrorKinds, ToolSteps
  <2>6. Chain(t)'
    BY <1>1, <2>2, <2>4, <2>5 DEF Chain, ToolSteps
  <2> QED
    BY <1>1, <1>2, <2>1, <2>5, <2>6, OthersKept
<1>4. CASE UploadFails(t)
  <2>1. call' = [call EXCEPT ![t] = "other"] /\ results' = results
    BY <1>4 DEF UploadFails
  <2>2. "other" \in Errors /\ "other" \in CallStates
    BY DEF Errors, J!ErrorKinds, CallStates
  <2> QED
    BY <1>1, <1>2, <2>1, <2>2, FailedChain, OthersKept
<1> QED
  BY <1>3, <1>4

-----------------------------------------------------------------------------
\* Calls that have not begun have nothing behind them.
LEMMA WaitingChain ==
    ASSUME NEW t, call[t] = "waiting"
    PROVE  Chain(t)
  BY DEF Chain, ToolSteps, Errors, J!ErrorKinds

\* The invariant holds before anything happens.
LEMMA InitInv == Init => IndInv
<1> SUFFICES ASSUME Init PROVE IndInv
  OBVIOUS
<1>1. Request(request)
  BY ProcessingAssumption DEF Init
<1>2. /\ call = [t \in DOMAIN options |-> "waiting"]
      /\ status = "pending" /\ results = <<>>
  BY DEF Init
<1>3. call \in [DOMAIN options -> CallStates] /\ \A t \in DOMAIN call : call[t] = "waiting"
  BY <1>2 DEF CallStates
<1>4. \A t \in DOMAIN call : Chain(t)
  BY <1>3, WaitingChain
<1>5. Fetched
  BY <1>2 DEF Init, Fetched, UsersFiles, With
<1>6. OutcomeJustified
  BY <1>2 DEF OutcomeJustified
<1>7. CASE request.caller = "worker"
  <2>1. options = request.options
    BY <1>7 DEF Init
  <2>2. \A t \in DOMAIN options : options[t].maxDimension \in Int
    BY <1>1, <1>7, <2>1 DEF Request
  <2>3. DOMAIN results = {}
    BY <1>2
  <2> QED
    BY <1>1, <1>2, <1>3, <1>4, <1>5, <1>6, <1>7, <2>1, <2>2, <2>3 DEF IndInv, ToolSteps
<1>8. CASE request.caller = "cli"
  <2>1. DOMAIN options = {}
    BY <1>8 DEF Init
  <2> QED
    BY <1>1, <1>2, <1>3, <1>4, <1>5, <1>6, <1>8, <2>1 DEF IndInv, ToolSteps
<1> QED
  BY <1>1, <1>7, <1>8 DEF Request

\* An attempt begins with the original alone, and ends as its calls have.
LEMMA AttemptInv ==
    ASSUME IndInv, StartAttempt \/ EndAttempt
    PROVE  IndInv'
<1>1. /\ UNCHANGED <<request, options>>
      /\ request.caller = "worker"
      /\ call' = [t \in DOMAIN options |-> "waiting"]
  BY DEF StartAttempt, EndAttempt, AllWaiting
<1>2. call' \in [DOMAIN options' -> CallStates] /\ \A t \in DOMAIN call' : call'[t] = "waiting"
  BY <1>1 DEF CallStates
<1>3. \A t \in DOMAIN call' : Chain(t)'
  BY <1>2 DEF Chain, ToolSteps, Errors, J!ErrorKinds
<1>4. "waiting" \notin ToolSteps
  BY DEF ToolSteps
<1>5. CASE StartAttempt
  <2>1. /\ status' = "processing" /\ results' = <<>>
        /\ dir' = Just(Original, request.image)
    BY <1>5 DEF StartAttempt
  <2>2. Fetched'
    BY <1>1, <2>1 DEF Fetched, Original, Just
  <2>3. OutcomeJustified'
    BY <2>1 DEF OutcomeJustified
  <2>4. DOMAIN results' = {}
    BY <2>1
  <2> QED
    BY <1>1, <1>2, <1>3, <1>4, <2>1, <2>2, <2>3, <2>4 DEF IndInv
<1>6. CASE EndAttempt
  <2>1. /\ status = "processing" /\ Waited /\ results' = results
        /\ \E o \in Outcome : status' = o[1] /\ reason' = o[2]
    BY <1>6 DEF EndAttempt
  <2>2. PICK o \in Outcome : status' = o[1]
    BY <2>1
  <2>3. DOMAIN call = DOMAIN options /\ \A t \in DOMAIN call : Chain(t)
    BY DEF IndInv
  <2>4. CASE CallErrors # {}
    <3>1. PICK e \in CallErrors :
            o = IF J!isRetryableError(e) THEN <<"pending", reason>> ELSE <<"failed", e>>
      BY <2>2, <2>4 DEF Outcome
    <3>2. ASSUME J!isRetryableError(e) PROVE OutcomeJustified'
      <4>1. o = <<"pending", reason>>
        BY <3>1, <3>2
      <4>2. status' = "pending"
        BY <2>2, <4>1
      <4> QED
        BY <4>2 DEF OutcomeJustified
    <3>3. ASSUME ~J!isRetryableError(e) PROVE OutcomeJustified'
      <4>1. PICK t \in DOMAIN call : call[t] = e
        BY DEF CallErrors
      <4>2. e \in Errors /\ e # "other"
        BY <3>3 DEF CallErrors, J!isRetryableError
      <4>3. ~CanConvert(request.image.format, options[t].format)
        BY <1>1, <2>3, <4>1, <4>2 DEF Chain
      <4>4. o = <<"failed", e>>
        BY <3>1, <3>3
      <4>5. status' = "failed"
        BY <2>2, <4>4
      <4> QED
        BY <1>1, <2>3, <4>1, <4>3, <4>5 DEF OutcomeJustified
    <3>4. status' # "processing"
      <4>1. o = <<"pending", reason>> \/ o = <<"failed", e>>
        BY <3>1
      <4> QED
        BY <2>2, <4>1
    <3> QED
      BY <1>1, <1>2, <1>3, <1>4, <2>1, <3>2, <3>3, <3>4 DEF IndInv, Fetched
  <2>5. CASE CallErrors = {} /\ DOMAIN call = {}
    <3>1. status' = "failed"
      <4>1. o = <<"failed", "no tasks completed">>
        BY <2>5 DEF Outcome
      <4> QED
        BY <2>2, <4>1
    <3>2. OutcomeJustified'
      BY <1>1, <2>3, <2>5, <3>1 DEF OutcomeJustified
    <3> QED
      BY <1>1, <1>2, <1>3, <1>4, <2>1, <3>1, <3>2 DEF IndInv, Fetched
  <2>6. CASE CallErrors = {} /\ DOMAIN call # {}
    <3>1. status' = "completed"
      <4>1. o = <<"completed", reason>>
        BY <2>6 DEF Outcome
      <4> QED
        BY <2>2, <4>1
    <3>2. \A t \in DOMAIN call : call[t] = "uploaded"
      BY <2>1, <2>6 DEF Waited, CallErrors
    <3>3. \A t \in DOMAIN options : t \in DOMAIN results /\ AsAsked(results[t], options[t])
      BY <2>3, <3>2 DEF Chain
    <3>4. DOMAIN results = DOMAIN options
      BY <1>1, <3>3 DEF IndInv
    <3>5. \A t \in DOMAIN options : AsAsked(results[t], options[t])'
      BY <1>1, <2>1, <3>3 DEF AsAsked, Fits
    <3>6. OutcomeJustified'
      BY <1>1, <2>1, <2>3, <2>6, <3>1, <3>4, <3>5 DEF OutcomeJustified
    <3> QED
      BY <1>1, <1>2, <1>3, <1>4, <2>1, <3>1, <3>6 DEF IndInv, Fetched
  <2> QED
    BY <2>4, <2>5, <2>6
<1> QED
  BY <1>5, <1>6

\* A run of the command line tool.
LEMMA RunInv ==
    ASSUME IndInv, ParseFlags \/ RenameResult \/ RenameFails \/ ProcessFails
    PROVE  IndInv'
<1>1. request' = request /\ request.caller = "cli" /\ Request(request)
  BY DEF ParseFlags, RenameResult, RenameFails, ProcessFails, IndInv
<1>2. CASE ParseFlags
  <2>1. /\ status = "pending" /\ dir' = dir
        /\ DOMAIN options' = {"cli"} /\ options'["cli"].maxDimension \in Int
    BY <1>1, <1>2 DEF ParseFlags, Request, Just
  <2>2. \/ status' = "processing" /\ call' = Just("cli", "waiting")
        \/ status' = "failed" /\ call' = Just("cli", "other")
    BY <1>2 DEF ParseFlags
  <2>3. /\ DOMAIN call' = {"cli"} /\ call'["cli"] \in {"waiting", "other"}
        /\ call' \in [DOMAIN options' -> CallStates]
    BY <2>1, <2>2 DEF CallStates, Errors, J!ErrorKinds, Just
  <2>4. \A t \in DOMAIN call' : Chain(t)' /\ call'[t] \notin ToolSteps
    BY <1>1, <2>3 DEF Chain, ToolSteps
  <2>5. Fetched'
    BY <1>1, <2>1 DEF IndInv, Fetched, Original
  <2>6. OutcomeJustified' /\ status' # "pending"
    BY <1>1, <2>2 DEF OutcomeJustified
  <2> QED
    BY <1>1, <2>1, <2>3, <2>4, <2>5, <2>6 DEF IndInv
<1>3. CASE RenameResult
  <2>1. /\ UNCHANGED <<options, call>> /\ status = "processing" /\ status' = "completed"
        /\ call["cli"] = "processed" /\ results' = Just("cli", dir[Compressed("cli")])
    BY <1>3 DEF RenameResult
  <2>2. DOMAIN options = {"cli"} /\ DOMAIN call = {"cli"}
    BY <1>1, <2>1 DEF IndInv
  <2>3. Chain("cli") /\ AsAsked(dir[Compressed("cli")], options["cli"])
    BY <2>1, <2>2 DEF IndInv, Chain, Good
  <2>4. DOMAIN results' = {"cli"} /\ results'["cli"] = dir[Compressed("cli")]
    BY <2>1 DEF Just
  <2>5. AsAsked(results["cli"], options["cli"])'
    BY <1>1, <2>1, <2>3, <2>4 DEF AsAsked, Fits
  <2>6. OutcomeJustified'
    BY <1>1, <2>1, <2>2, <2>4, <2>5 DEF OutcomeJustified
  <2>7. "processed" \notin ToolSteps \cup Errors
    BY DEF ToolSteps, Errors, J!ErrorKinds
  <2>8. Chain("cli")'
    BY <1>1, <2>1, <2>3, <2>7 DEF Chain
  <2> QED
    BY <1>1, <2>1, <2>2, <2>6, <2>7, <2>8 DEF IndInv, Fetched
<1>4. CASE RenameFails \/ ProcessFails
  <2>1. /\ UNCHANGED <<options, call, dir, results>>
        /\ status = "processing" /\ status' = "failed"
        /\ call["cli"] \in {"processed"} \cup Errors
    BY <1>4 DEF RenameFails, ProcessFails
  <2>2. DOMAIN options = {"cli"} /\ DOMAIN call = {"cli"} /\ Chain("cli")
    BY <1>1, <2>1 DEF IndInv
  <2>3. call["cli"] \notin ToolSteps \cup {"uploaded"}
    BY <2>1 DEF ToolSteps, Errors, J!ErrorKinds
  <2>4. Chain("cli")'
    BY <1>1, <2>1, <2>2, <2>3 DEF Chain, ToolSteps
  <2>5. OutcomeJustified'
    BY <1>1, <2>1 DEF OutcomeJustified
  <2> QED
    BY <1>1, <2>1, <2>2, <2>3, <2>4, <2>5 DEF IndInv, Fetched
<1> QED
  BY <1>2, <1>3, <1>4

\* Every step keeps the invariant.
LEMMA StepInv == IndInv /\ [Next]_vars => IndInv'
<1> SUFFICES ASSUME IndInv, [Next]_vars PROVE IndInv'
  OBVIOUS
<1>1. ASSUME NEW t \in DOMAIN call, CallStep(t) PROVE IndInv'
  BY <1>1, StartCallInv, ToolEndsInv, ToolFailsInv, UploadInv DEF CallStep
<1>2. CASE CallerStep
  BY <1>2, AttemptInv, RunInv DEF CallerStep
<1>3. CASE UNCHANGED vars
  <2>1. UNCHANGED <<request, options, call, dir, status, results>>
    BY <1>3 DEF vars
  <2>2. Fetched' /\ OutcomeJustified'
    BY <2>1 DEF IndInv, Fetched, Original, OutcomeJustified, AsAsked, Fits
  <2>3. \A t \in DOMAIN call' : Chain(t)'
    BY <2>1 DEF IndInv, Chain, Good, AsAsked, Fits, resizes, converts, Resized, Converted, Compressed
  <2> QED
    BY <2>1, <2>2, <2>3 DEF IndInv, Request
<1> QED
  BY <1>1, <1>2, <1>3 DEF Next

-----------------------------------------------------------------------------
\* The invariant holds in every state of every behaviour.
THEOREM Invariance == Spec => []IndInv
  BY InitInv, StepInv, PTL DEF Spec

\* Whatever is asked for, with any number of tasks, however their tools
\* interleave and whichever of them fail: a job that is completed has for every
\* task an image as it was asked for, and one that has failed asked for a
\* conversion that is not supported (service.go:51-113, worker.go:149-242).
THEOREM OutcomesJustified == Spec => []OutcomeJustified
  BY Invariance, PTL DEF IndInv

\* No tool finds a file that another one is still writing, has removed or has
\* written in a format it does not read (service.go:60-112).
THEOREM InputsWhole == Spec => []WholeInputs
<1>1. IndInv => WholeInputs
  <2> SUFFICES ASSUME IndInv, NEW t \in DOMAIN call
               PROVE  /\ call[t] \in ToolSteps => CanRead(t, call[t])
                      /\ call[t] = "processed" /\ status = "processing" => Whole(Compressed(t))
    BY DEF WholeInputs
  <2>1. call[t] = "processed" /\ status = "processing" => Good(Compressed(t), t)
    BY DEF IndInv, Chain
  <2>2. Good(Compressed(t), t) => Whole(Compressed(t))
    BY DEF Good, Whole, Partial, Images, Formats
  <2> QED
    BY <2>1, <2>2, InputGood
<1> QED
  BY <1>1, Invariance, PTL

-----------------------------------------------------------------------------
\* The user's files are there, and all that this call has to keep as they were.
Untouched(files) ==
    \A f \in files : f \in DOMAIN dir /\ dir[f] = UsersFiles[f]

\* The directory of a run of the command line tool: besides the user's files
\* there is what its chain of tools needs, or one file that a failure left, or
\* the result, which may have taken the name of one of them.
RunDirectory ==
    request.caller = "cli" =>
        /\ status \in {"pending", "processing", "completed", "failed"}
        /\ status # "completed" => Untouched(DOMAIN UsersFiles)
        /\ status = "pending" => DOMAIN dir = DOMAIN UsersFiles
        /\ status = "processing" =>
             IF call["cli"] \in Errors THEN \E f : DOMAIN dir \subseteq DOMAIN UsersFiles \cup {f}
             ELSE DOMAIN dir \subseteq DOMAIN UsersFiles \cup Working("cli")
        /\ status = "failed" => \E f : DOMAIN dir \subseteq DOMAIN UsersFiles \cup {f}
        /\ status = "completed" =>
             /\ Untouched(DOMAIN UsersFiles \ {OutputPath})
             /\ DOMAIN dir = DOMAIN UsersFiles \cup {OutputPath}
             /\ dir[OutputPath] = results["cli"]

\* Beside known files there is at most the one that is named.
LEMMA AtMostOne ==
    ASSUME NEW known, NEW f, NEW files \in SUBSET (known \cup {f})
    PROVE  Cardinality(files \ known) <= 1
<1>1. IsFiniteSet({f}) /\ Cardinality({f}) = 1
  BY FS_Singleton
<1>2. files \ known \in SUBSET {f}
  OBVIOUS
<1>3. Cardinality(files \ known) <= Cardinality({f})
  BY <1>1, <1>2, FS_Subset
<1> QED
  BY <1>1, <1>3

\* The names that Process makes are none of the user's.
LEMMA UsersNames ==
    ASSUME Request(request), request.caller = "cli"
    PROVE  /\ Original \in DOMAIN UsersFiles
           /\ UsersFiles[Original] = request.image
           /\ \A t : DOMAIN UsersFiles \cap Own(t) = {}
<1>1. /\ DOMAIN UsersFiles = DOMAIN request.files \cup {Original}
      /\ UsersFiles[Original] = request.image
  BY DEF UsersFiles, With
<1>2. \A f \in DOMAIN UsersFiles : f[1] \notin ToolPrefixes
  <2>1. Original[1] \notin ToolPrefixes
    BY DEF Original, File, ToolPrefixes
  <2>2. \A f \in DOMAIN request.files : f[1] \notin ToolPrefixes
    BY DEF Request
  <2> QED
    BY <1>1, <2>1, <2>2
<1>3. \A t : \A f \in Own(t) : f[1] \in ToolPrefixes
  BY DEF Own, Resized, Converted, Compressed, Scratch, File, ToolPrefixes
<1> QED
  BY <1>1, <1>2, <1>3

\* A call that goes on touches its own files.
LEMMA OwnFiles ==
    ASSUME NEW t \in DOMAIN call,
           StartCall(t) \/ StartCallFails(t) \/ ToolEnds(t) \/ ToolFails(t)
    PROVE  OnlyOwn(t)
<1>1. ASSUME NEW step \in ToolSteps
      PROVE  OutputOf(t, step) \in Own(t) /\ Deferred(t, step) \subseteq Own(t)
  BY <1>1 DEF ToolSteps, OutputOf, Deferred, Own
<1>2. Compressed(t) \in Own(t)
  BY DEF Own
<1>3. ASSUME NEW d, NEW step, Proceed(d, t, step)
      PROVE  dir' = d \/ \E f \in Own(t) : dir' = With(d, f, Partial)
  BY <1>1, <1>3 DEF Proceed
<1>4. CASE StartCall(t) \/ StartCallFails(t)
  <2>1. dir' = dir \/ \E f \in Own(t) : dir' = With(dir, f, Partial)
    BY <1>3, <1>4 DEF StartCall, StartCallFails
  <2> QED
    BY <2>1 DEF OnlyOwn, With
<1>5. CASE ToolEnds(t)
  <2>1. call[t] \in ToolSteps
    BY <1>5 DEF ToolEnds
  <2>2. ASSUME NEW f \in Own(t), NEW image, NEW gone \in SUBSET Own(t),
               NEW d, d = With(dir, f, image) \/ d = Without(With(dir, f, image), gone),
               Proceed(d, t, Following(t, call[t]))
        PROVE  OnlyOwn(t)
    <3>1. \A g : g \notin Own(t) =>
            /\ g \in DOMAIN d <=> g \in DOMAIN dir
            /\ g \in DOMAIN dir => d[g] = dir[g]
      BY <2>2 DEF With, Without, Restrict
    <3>2. dir' = d \/ \E h \in Own(t) : dir' = With(d, h, Partial)
      BY <1>3, <2>2
    <3> QED
      BY <3>1, <3>2 DEF OnlyOwn, With
  <2>3. CASE call[t] = "compress"
    <3>1. PICK image : Proceed(Without(With(dir, Compressed(t), image), Deferred(t, call[t])),
                               t, Following(t, call[t]))
      BY <1>5, <2>3 DEF ToolEnds
    <3> QED
      BY <1>1, <1>2, <2>1, <2>2, <3>1
  <2>4. CASE call[t] # "compress"
    <3>1. PICK image : Proceed(With(dir, OutputOf(t, call[t]), image), t, Following(t, call[t]))
      BY <1>5, <2>4 DEF ToolEnds
    <3> QED
      BY <1>1, <2>1, <2>2, <3>1
  <2> QED
    BY <2>3, <2>4
<1>6. CASE ToolFails(t)
  <2>1. PICK gone \in SUBSET Own(t) : dir' = Without(dir, gone)
    BY <1>1, <1>6 DEF ToolFails
  <2> QED
    BY <2>1 DEF OnlyOwn, Without, Restrict
<1> QED
  BY <1>4, <1>5, <1>6

\* So the user's files are kept.
LEMMA UsersKept ==
    ASSUME IndInv, RunDirectory, request.caller = "cli", NEW t \in DOMAIN call,
           status = "processing",
           StartCall(t) \/ StartCallFails(t) \/ ToolEnds(t) \/ ToolFails(t)
    PROVE  UsersFiles' = UsersFiles /\ Untouched(DOMAIN UsersFiles)'
<1>1. request' = request
  BY DEF StartCall, StartCallFails, ToolEnds, ToolFails
<1>2. UsersFiles' = UsersFiles
  BY <1>1 DEF UsersFiles, Original, With
<1>3. Untouched(DOMAIN UsersFiles) /\ DOMAIN UsersFiles \cap Own(t) = {} /\ OnlyOwn(t)
  BY UsersNames, OwnFiles DEF RunDirectory, IndInv
<1>4. PICK known : known = UsersFiles
  OBVIOUS
<1>5. \A f \in DOMAIN known : f \in DOMAIN dir' /\ dir'[f] = known[f]
  BY <1>3, <1>4 DEF Untouched, OnlyOwn
<1> QED
  BY <1>2, <1>4, <1>5 DEF Untouched

\* The call begins in a directory that has the user's files alone.
LEMMA StartCallDirectory ==
    ASSUME IndInv, RunDirectory, request.caller = "cli", NEW t \in DOMAIN call,
           StartCall(t) \/ StartCallFails(t)
    PROVE  RunDirectory'
<1>1. /\ UNCHANGED <<request, options, status>>
      /\ status = "processing" /\ call["cli"] = "waiting" /\ t = "cli"
      /\ DOMAIN call = {"cli"}
  BY DEF StartCall, StartCallFails, IndInv
<1>2. DOMAIN dir \subseteq DOMAIN UsersFiles
  BY <1>1 DEF RunDirectory, Working, ToolSteps, Errors, J!ErrorKinds
<1>3. UsersFiles' = UsersFiles /\ Untouched(DOMAIN UsersFiles)'
  BY <1>1, UsersKept
<1>4. CASE dir' = dir /\ call' \in {[call EXCEPT !["cli"] = e] : e \in Errors}
  <2>1. call'["cli"] \in Errors
    BY <1>1, <1>4
  <2>2. \E f : DOMAIN dir' \subseteq DOMAIN UsersFiles' \cup {f}
    BY <1>2, <1>3, <1>4
  <2> QED
    BY <1>1, <1>3, <2>1, <2>2 DEF RunDirectory
<1>5. CASE Proceed(dir, t, Following(t, "waiting"))
  <2> DEFINE to == Following("cli", "waiting")
  <2>1. to \in ToolSteps
    BY DEF Following, ToolSteps
  <2> HIDE DEF to
  <2>2. /\ call'["cli"] = to
        /\ dir' = With(dir, OutputOf("cli", to), Partial)
    BY <1>1, <1>5, <2>1 DEF Proceed, to
  <2>3. PICK k, output : k = to /\ output = OutputOf("cli", k)
    OBVIOUS
  <2>4. DOMAIN dir' \subseteq DOMAIN UsersFiles \cup {output}
    BY <1>2, <2>2, <2>3 DEF With
  <2>5. output \in Working("cli")'
    <3>1. OutputOf("cli", k)' = OutputOf("cli", k)
      BY <1>1 DEF OutputOf, Tool, Resized, Converted, Compressed, Scratch
    <3>2. OutputOf("cli", k)' \in Working("cli")'
      BY <2>1, <2>2, <2>3 DEF Working
    <3> QED
      BY <2>3, <3>1, <3>2
  <2>6. call'["cli"] \notin Errors
    BY <2>1, <2>2 DEF ToolSteps, Errors, J!ErrorKinds
  <2> QED
    BY <1>1, <1>3, <2>4, <2>5, <2>6 DEF RunDirectory
<1>6. "other" \in Errors /\ "conversion not supported" \in Errors
  BY DEF Errors, J!ErrorKinds
<1> QED
  BY <1>1, <1>4, <1>5, <1>6 DEF StartCall, StartCallFails

\* What the call has behind it when a tool ends is what is removed later, and
\* after the last tool only the result is left.
LEMMA ToolEndsDirectory ==
    ASSUME IndInv, RunDirectory, request.caller = "cli", NEW t \in DOMAIN call, ToolEnds(t)
    PROVE  RunDirectory'
<1> DEFINE step == call["cli"]
           to == Following("cli", step)
<1>1. /\ UNCHANGED <<request, options, status>>
      /\ status = "processing" /\ step \in ToolSteps /\ t = "cli"
      /\ DOMAIN call = {"cli"} /\ Chain("cli")
  BY DEF ToolEnds, IndInv
<1>2. DOMAIN dir \subseteq DOMAIN UsersFiles \cup {OutputOf("cli", step)} \cup Deferred("cli", step)
  BY <1>1 DEF RunDirectory, Working, ToolSteps, Errors, J!ErrorKinds
<1>3. /\ Compressed("cli")' = Compressed("cli")
      /\ Resized("cli")' = Resized("cli") /\ Converted("cli")' = Converted("cli")
      /\ resizes("cli")' = resizes("cli") /\ converts("cli")' = converts("cli")
      /\ \A s : Tool("cli", s)' = Tool("cli", s)
  BY <1>1 DEF Compressed, Resized, Converted, resizes, converts, Tool
<1>4. UsersFiles' = UsersFiles /\ Untouched(DOMAIN UsersFiles)'
  BY <1>1, UsersKept
<1>5. PICK image :
        Proceed(LET written == With(dir, IF step = "compress" THEN Compressed("cli")
                                         ELSE OutputOf("cli", step), image)
                IN  IF step = "compress" THEN Without(written, Deferred("cli", step)) ELSE written,
                "cli", to)
  BY <1>1 DEF ToolEnds
<1>6. CASE step = "compress"
  <2>1. to = "processed"
    BY <1>6 DEF Following
  <2>2. /\ call'["cli"] = "processed"
        /\ dir' = Without(With(dir, Compressed("cli"), image), Deferred("cli", step))
    BY <1>1, <1>5, <1>6, <2>1 DEF Proceed, ToolSteps
  <2>3. OutputOf("cli", step) \in {Compressed("cli")} \cup Deferred("cli", step)
    BY <1>6 DEF OutputOf, Deferred
  <2>4. DOMAIN dir' \subseteq DOMAIN UsersFiles \cup {Compressed("cli")}
    BY <1>2, <2>2, <2>3 DEF With, Without, Restrict
  <2>5. Working("cli")' = {Compressed("cli")'} /\ call'["cli"] \notin Errors
    BY <2>2 DEF Working, ToolSteps, Errors, J!ErrorKinds
  <2> QED
    BY <1>1, <1>3, <1>4, <2>4, <2>5 DEF RunDirectory
<1>7. CASE step \in {"resize", "convert"}
  <2>1. /\ to \in {"convert", "compress"}
        /\ to = "convert" => step = "resize" /\ converts("cli")
        /\ step = "resize" => resizes("cli")
        /\ step = "convert" => converts("cli")
    BY <1>1, <1>7 DEF Following, Chain
  <2> HIDE DEF to
  <2>2. /\ call'["cli"] = to
        /\ dir' = With(With(dir, OutputOf("cli", step), image), OutputOf("cli", to), Partial)
    BY <1>1, <1>5, <1>7, <2>1 DEF Proceed, ToolSteps
  <2>3. DOMAIN dir' \subseteq
          DOMAIN UsersFiles \cup {OutputOf("cli", step), OutputOf("cli", to)} \cup Deferred("cli", step)
    BY <1>2, <2>2 DEF With
  <2>4. {OutputOf("cli", step)} \cup Deferred("cli", step) \subseteq Deferred("cli", to)
    BY <1>7, <2>1 DEF OutputOf, Deferred, Following, to
  <2>5. /\ call'["cli"] \in ToolSteps /\ call'["cli"] \notin Errors
        /\ to \in ToolSteps
    BY <2>1, <2>2 DEF ToolSteps, Errors, J!ErrorKinds
  <2>6. PICK k : k = to
    OBVIOUS
  <2>7. OutputOf("cli", k)' = OutputOf("cli", k) /\ Deferred("cli", k)' = Deferred("cli", k)
    BY <1>1, <1>3 DEF OutputOf, Deferred, Scratch, Tool
  <2>8. Working("cli")' = {OutputOf("cli", k)'} \cup Deferred("cli", k)'
    BY <2>2, <2>5, <2>6 DEF Working
  <2> QED
    BY <1>1, <1>3, <1>4, <2>3, <2>4, <2>5, <2>6, <2>7, <2>8 DEF RunDirectory
<1> QED
  BY <1>1, <1>6, <1>7 DEF ToolSteps

\* A tool that fails leaves its output or nothing, and the rest is removed.
LEMMA ToolFailsDirectory ==
    ASSUME IndInv, RunDirectory, request.caller = "cli", NEW t \in DOMAIN call, ToolFails(t)
    PROVE  RunDirectory'
<1>1. /\ UNCHANGED <<request, options, status>>
      /\ status = "processing" /\ call["cli"] \in ToolSteps /\ t = "cli"
      /\ DOMAIN call = {"cli"} /\ call'["cli"] = "other"
  BY DEF ToolFails, IndInv
<1>2. PICK left : dir' = Without(dir, Deferred("cli", call["cli"]) \cup left)
  BY <1>1 DEF ToolFails
<1>3. DOMAIN dir \subseteq
        DOMAIN UsersFiles \cup {OutputOf("cli", call["cli"])} \cup Deferred("cli", call["cli"])
  BY <1>1 DEF RunDirectory, Working, ToolSteps, Errors, J!ErrorKinds
<1>4. PICK f : f = OutputOf("cli", call["cli"])
  OBVIOUS
<1>5. UsersFiles' = UsersFiles /\ Untouched(DOMAIN UsersFiles)'
  BY <1>1, UsersKept
<1>6. DOMAIN dir' \subseteq DOMAIN UsersFiles' \cup {f}
  BY <1>1, <1>2, <1>3, <1>4, <1>5 DEF Without, Restrict
<1>7. call'["cli"] \in Errors
  BY <1>1 DEF Errors, J!ErrorKinds
<1> QED
  BY <1>1, <1>6, <1>7, <1>5 DEF RunDirectory

\* The result takes one name, whoever had it, and no other file is touched.
LEMMA RenamedDirectory ==
    ASSUME IndInv, RunDirectory, RenameResult
    PROVE  RunDirectory'
<1>1. /\ UNCHANGED <<request, options>> /\ request.caller = "cli"
      /\ status = "processing" /\ status' = "completed" /\ call["cli"] = "processed"
      /\ DOMAIN call = {"cli"}
  BY DEF RenameResult, IndInv
<1>2. /\ DOMAIN dir \subseteq DOMAIN UsersFiles \cup {Compressed("cli")}
      /\ Untouched(DOMAIN UsersFiles)
  BY <1>1 DEF RunDirectory, Working, ToolSteps, Errors, J!ErrorKinds
<1>3. Compressed("cli") \notin DOMAIN UsersFiles
  BY <1>1, UsersNames DEF IndInv, Own
<1>4. PICK image : /\ dir' = With(Without(dir, {Compressed("cli")}), OutputPath, image)
                   /\ results' = Just("cli", image)
  BY DEF RenameResult
<1>5. UsersFiles' = UsersFiles /\ OutputPath' = OutputPath
  BY <1>1 DEF UsersFiles, OutputPath, Original, With
<1>6. PICK known, path : known = UsersFiles /\ path = OutputPath
  OBVIOUS
<1>7. /\ DOMAIN dir' = DOMAIN known \cup {path}
      /\ dir'[path] = image /\ results'["cli"] = image
      /\ \A f \in DOMAIN known \ {path} : dir'[f] = known[f]
  BY <1>2, <1>3, <1>4, <1>6 DEF Untouched, With, Without, Restrict, Just
<1>8. Untouched(DOMAIN UsersFiles \ {OutputPath})'
  BY <1>5, <1>6, <1>7 DEF Untouched
<1> QED
  BY <1>1, <1>5, <1>6, <1>7, <1>8 DEF RunDirectory

\* Every step keeps the directory as it should be.
LEMMA DirectoryStep ==
    ASSUME IndInv, RunDirectory, [Next]_vars
    PROVE  RunDirectory'
<1>1. CASE request.caller # "cli"
  <2>1. request' = request
    BY DEF Next, CallerStep, StartAttempt, EndAttempt, ParseFlags, RenameResult, RenameFails,
           ProcessFails, CallStep, StartCall, StartCallFails, ToolEnds, ToolFails, Upload,
           UploadFails, vars
  <2> QED
    BY <1>1, <2>1 DEF RunDirectory
<1>2. CASE request.caller = "cli"
  <2>1. ASSUME NEW t \in DOMAIN call, CallStep(t) PROVE RunDirectory'
    BY <1>2, <2>1, StartCallDirectory, ToolEndsDirectory, ToolFailsDirectory
    DEF CallStep, Upload, UploadFails
  <2>2. CASE ParseFlags
    <3>1. /\ request' = request /\ dir' = dir /\ status = "pending"
          /\ \/ status' = "processing" /\ call'["cli"] = "waiting"
             \/ status' = "failed"
      BY <2>2 DEF ParseFlags, Just
    <3>2. /\ UsersFiles' = UsersFiles /\ DOMAIN dir = DOMAIN UsersFiles
          /\ Untouched(DOMAIN UsersFiles)
      BY <1>2, <3>1 DEF UsersFiles, Original, With, RunDirectory
    <3>3. Untouched(DOMAIN UsersFiles)'
      BY <3>1, <3>2 DEF Untouched
    <3>4. "waiting" \notin Errors
      BY DEF Errors, J!ErrorKinds
    <3>5. \E f : DOMAIN dir' \subseteq DOMAIN UsersFiles' \cup {f}
      BY <3>1, <3>2
    <3> QED
      BY <3>1, <3>2, <3>4, <3>5, <3>3 DEF RunDirectory
  <2>3. CASE RenameResult
    BY <2>3, RenamedDirectory
  <2>4. CASE RenameFails \/ ProcessFails
    <3>1. /\ UNCHANGED <<request, options, call, dir>>
          /\ status = "processing" /\ status' = "failed"
          /\ call["cli"] \in {"processed"} \cup Errors
      BY <2>4 DEF RenameFails, ProcessFails
    <3>2. /\ \E f : DOMAIN dir \subseteq DOMAIN UsersFiles \cup {f}
          /\ Untouched(DOMAIN UsersFiles)
      BY <1>2, <3>1 DEF RunDirectory, Working, ToolSteps, Errors, J!ErrorKinds
    <3>3. UsersFiles' = UsersFiles
      BY <3>1 DEF UsersFiles, Original, With
    <3>4. Untouched(DOMAIN UsersFiles)'
      BY <3>1, <3>2, <3>3 DEF Untouched
    <3> QED
      BY <3>1, <3>2, <3>3, <3>4 DEF RunDirectory
  <2>5. CASE StartAttempt \/ EndAttempt
    BY <1>2, <2>5 DEF StartAttempt, EndAttempt
  <2>6. CASE UNCHANGED vars
    <3>1. UNCHANGED <<request, options, call, dir, status, results>>
      BY <2>6 DEF vars
    <3>2. UsersFiles' = UsersFiles /\ OutputPath' = OutputPath
      BY <3>1 DEF UsersFiles, With, Original, OutputPath
    <3>3. PICK k : k = call["cli"]
      OBVIOUS
    <3>4. /\ OutputOf("cli", k)' = OutputOf("cli", k) /\ Deferred("cli", k)' = Deferred("cli", k)
          /\ Compressed("cli")' = Compressed("cli")
      BY <3>1 DEF OutputOf, Deferred, Tool, Resized, Converted, Compressed, Scratch, resizes, converts
    <3>5. Working("cli")' = Working("cli")
      BY <3>1, <3>3, <3>4 DEF Working
    <3> QED
      BY <3>1, <3>2, <3>5 DEF RunDirectory, Untouched
  <2> QED
    BY <2>1, <2>2, <2>3, <2>4, <2>5, <2>6 DEF Next, CallerStep
<1> QED
  BY <1>1, <1>2

\* The command line tool never touches a file of the user, the input or another
\* one, but to give its name to a complete result, and it leaves at most one file
\* besides (main.go:77-122).
THEOREM UsersDirectory == Spec => []DirectoryKept
<1>1. Init => RunDirectory
  BY DEF Init, RunDirectory, Untouched
<1>2. IndInv /\ RunDirectory /\ [Next]_vars => RunDirectory'
  BY DirectoryStep
<1>3. RunDirectory => DirectoryKept
  <2> SUFFICES ASSUME RunDirectory, request.caller = "cli" PROVE DirectoryKept
    BY DEF DirectoryKept
  <2>1. ASSUME NEW f, DOMAIN dir \subseteq DOMAIN UsersFiles \cup {f}
        PROVE  Cardinality(DOMAIN dir \ DOMAIN UsersFiles) <= 1
    BY <2>1, AtMostOne
  <2> QED
    BY <2>1 DEF DirectoryKept, RunDirectory, Untouched
<1> QED
  BY <1>1, <1>2, <1>3, Invariance, PTL DEF Spec

-----------------------------------------------------------------------------
\* What a file of a directory may hold.
Contents(d) == \A f \in DOMAIN d : d[f] = Partial \/ d[f] \in Images

\* The types of what the inductive invariant leaves out.
OtherTypes ==
    /\ Contents(dir)
    /\ status \in J!JobStatus
    /\ reason \in J!Reasons \cup {J!NoReason, "bad options", "rename"}
    /\ \A t \in DOMAIN results : results[t] \in Images
    /\ faults \in 0 .. MaxFaults

\* Files are written by tools that run or are done, and moved or removed.
LEMMA ContentsKept ==
    ASSUME NEW d, NEW file, NEW content, NEW files, Contents(d)
    PROVE  /\ content = Partial \/ content \in Images => Contents(With(d, file, content))
           /\ Contents(Without(d, files))
  BY DEF Contents, With, Without, Restrict

\* A fault is counted only below the bound.
LEMMA FaultsBounded ==
    ASSUME OtherTypes, Fault \/ UNCHANGED faults
    PROVE  faults' \in 0 .. MaxFaults
<1>1. faults \in 0 .. MaxFaults /\ MaxFaults \in Nat
  BY ProcessingAssumption DEF OtherTypes
<1>2. CASE Fault
  BY <1>1, <1>2 DEF Fault
<1>3. CASE UNCHANGED faults
  BY <1>1, <1>3
<1> QED
  BY <1>2, <1>3

\* The steps of a call write images, or files that are not whole yet.
LEMMA CallTypes ==
    ASSUME IndInv, OtherTypes, NEW t \in DOMAIN call, CallStep(t)
    PROVE  OtherTypes'
<1>1. UNCHANGED <<status, reason>> /\ (Fault \/ UNCHANGED faults)
  BY DEF CallStep, StartCall, StartCallFails, ToolEnds, ToolFails, Upload, UploadFails
<1>2. faults' \in 0 .. MaxFaults
  BY <1>1, FaultsBounded
<1>3. ASSUME NEW d, NEW step, Contents(d), Proceed(d, t, step)
      PROVE  Contents(dir')
  <2>1. dir' = d \/ \E f : dir' = With(d, f, Partial)
    BY <1>3 DEF Proceed
  <2> QED
    BY <1>3, <2>1, ContentsKept
<1>4. CASE StartCall(t) \/ StartCallFails(t)
  <2>1. Contents(dir')
    BY <1>3, <1>4 DEF StartCall, StartCallFails, OtherTypes
  <2> QED
    BY <1>1, <1>2, <1>4, <2>1 DEF StartCall, StartCallFails, OtherTypes, Contents
<1>5. CASE ToolEnds(t)
  <2> DEFINE step == call[t]
             output == IF step = "compress" THEN Compressed(t) ELSE OutputOf(t, step)
             written(image) == With(dir, output, image)
             left(image) == IF step = "compress" THEN Without(written(image), Deferred(t, step))
                            ELSE written(image)
  <2>1. PICK image \in Made(t, step) : Proceed(left(image), t, Following(t, step))
    BY <1>5 DEF ToolEnds
  <2>2. image \in Images
    BY <1>5, MadeGood DEF ToolEnds
  <2>3. Contents(written(image))
    BY <2>2, ContentsKept DEF OtherTypes
  <2>4. Contents(left(image))
    BY <2>3, ContentsKept
  <2>5. Contents(dir')
    BY <1>3, <2>1, <2>4
  <2> QED
    BY <1>1, <1>2, <1>5, <2>5 DEF ToolEnds, OtherTypes, Contents
<1>6. CASE ToolFails(t)
  <2>1. PICK files : dir' = Without(dir, files)
    BY <1>6 DEF ToolFails
  <2>2. Contents(dir')
    BY <2>1, ContentsKept DEF OtherTypes
  <2> QED
    BY <1>1, <1>2, <1>6, <2>2 DEF ToolFails, OtherTypes, Contents
<1>7. CASE Upload(t) \/ UploadFails(t)
  <2>1. dir' = dir
    BY <1>7 DEF Upload, UploadFails
  <2>2. \A u \in DOMAIN results' : results'[u] \in Images
    <3>1. CASE UploadFails(t)
      BY <3>1 DEF UploadFails, OtherTypes
    <3>2. CASE Upload(t)
      BY <3>2 DEF Upload, OtherTypes, Whole, Contents, With
    <3> QED
      BY <1>7, <3>1, <3>2
  <2> QED
    BY <1>1, <1>2, <2>1, <2>2 DEF OtherTypes, Contents
<1> QED
  BY <1>4, <1>5, <1>6, <1>7 DEF CallStep

\* The callers set the status and say why.
LEMMA CallerTypes ==
    ASSUME IndInv, OtherTypes, CallerStep
    PROVE  OtherTypes'
<1>1. request.image \in Images
  BY DEF IndInv, Request
<1>2. faults' \in 0 .. MaxFaults
  <2>1. Fault \/ UNCHANGED faults
    BY DEF CallerStep, StartAttempt, EndAttempt, ParseFlags, RenameResult, RenameFails, ProcessFails
  <2> QED
    BY <2>1, FaultsBounded
<1>3. CASE StartAttempt
  <2>1. /\ dir' = Just(Original, request.image) /\ status' = "processing"
        /\ results' = <<>> /\ reason' = reason
    BY <1>3 DEF StartAttempt
  <2>2. Contents(dir')
    BY <1>1, <2>1 DEF Contents, Just
  <2>3. DOMAIN results' = {}
    BY <2>1
  <2> QED
    BY <1>2, <2>1, <2>2, <2>3 DEF OtherTypes, Contents, J!JobStatus
<1>4. CASE EndAttempt
  <2>1. /\ dir' = EmptyDir /\ results' = results
        /\ \E o \in Outcome : status' = o[1] /\ reason' = o[2]
    BY <1>4 DEF EndAttempt
  <2>2. DOMAIN dir' = {}
    BY <2>1 DEF EmptyDir
  <2>3. PICK o \in Outcome : status' = o[1] /\ reason' = o[2]
    BY <2>1
  <2>4. \E s \in J!JobStatus, why \in J!Reasons \cup {reason} : o = <<s, why>>
    BY DEF Outcome, CallErrors, Errors, J!JobStatus, J!Reasons
  <2>5. status' \in J!JobStatus /\ reason' \in J!Reasons \cup {reason}
    BY <2>3, <2>4
  <2> QED
    BY <1>2, <2>1, <2>2, <2>5 DEF OtherTypes, Contents
<1>5. CASE ParseFlags
  BY <1>2, <1>5 DEF ParseFlags, OtherTypes, Contents, J!JobStatus
<1>6. CASE RenameResult
  <2> DEFINE image == dir[Compressed("cli")]
  <2>1. /\ image \in Images
        /\ dir' = With(Without(dir, {Compressed("cli")}), OutputPath, image)
        /\ results' = Just("cli", image)
        /\ status' = "completed" /\ reason' = reason
    BY <1>6 DEF RenameResult, Whole, OtherTypes, Contents
  <2> HIDE DEF image
  <2>2. Contents(Without(dir, {Compressed("cli")}))
    BY ContentsKept DEF OtherTypes
  <2>3. Contents(dir')
    BY <2>1, <2>2, ContentsKept
  <2>4. \A u \in DOMAIN results' : results'[u] \in Images
    BY <2>1 DEF Just
  <2> QED
    BY <1>2, <2>1, <2>3, <2>4 DEF OtherTypes, Contents, J!JobStatus
<1>7. CASE RenameFails \/ ProcessFails
  BY <1>2, <1>7 DEF RenameFails, ProcessFails, OtherTypes, Contents, J!JobStatus, J!Reasons, Errors
<1> QED
  BY <1>3, <1>4, <1>5, <1>6, <1>7 DEF CallerStep

\* The variables of Processing.tla always have the types written there.
THEOREM TypeCorrect == Spec => []TypeOK
<1>1. Init => OtherTypes
  <2> SUFFICES ASSUME Init PROVE OtherTypes
    OBVIOUS
  <2>1. Request(request) /\ request.image \in Images
    BY ProcessingAssumption DEF Init, Request
  <2>2. dir = EmptyDir \/ (request.caller = "cli" /\ dir = UsersFiles)
    <3>1. request.caller \in {"worker", "cli"}
      BY <2>1 DEF Request
    <3>2. CASE request.caller = "worker"
      BY <3>2 DEF Init
    <3>3. CASE request.caller = "cli"
      BY <3>3 DEF Init
    <3> QED
      BY <3>1, <3>2, <3>3
  <2>3. Contents(dir)
    <3>1. CASE dir = EmptyDir
      BY <3>1 DEF Contents, EmptyDir
    <3>2. CASE request.caller = "cli" /\ dir = UsersFiles
      BY <2>1, <3>2 DEF Contents, UsersFiles, With, Request
    <3> QED
      BY <2>2, <3>1, <3>2
  <2>4. DOMAIN results = {}
    BY DEF Init
  <2> QED
    BY <2>3, <2>4, ProcessingAssumption DEF Init, OtherTypes, J!JobStatus
<1>2. IndInv /\ OtherTypes /\ [Next]_vars => OtherTypes'
  <2>1. ASSUME OtherTypes, UNCHANGED vars PROVE OtherTypes'
    BY <2>1 DEF vars, OtherTypes, Contents
  <2> QED
    BY <2>1, CallTypes, CallerTypes DEF Next
<1>3. IndInv /\ OtherTypes => TypeOK
  BY DEF IndInv, OtherTypes, Contents, TypeOK
<1> QED
  BY <1>1, <1>2, <1>3, Invariance, PTL DEF Spec
=============================================================================
