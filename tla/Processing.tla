----------------------------- MODULE Processing -----------------------------
(***************************************************************************)
(* Service.Process (internal/service/processor/service.go) and its two     *)
(* callers: the worker, which calls it for all tasks of a job at a time,   *)
(* on one original in one temporary directory, and the command line tool   *)
(* (cmd/cli/main.go), which calls it once, in the user's directory.        *)
(*                                                                         *)
(* A call is a chain of external tools that hand an image on in files.  A  *)
(* tool reads its input and writes its output for as long as it runs, and  *)
(* the chains of several tasks run side by side; what keeps them apart is  *)
(* how the files are named.                                                *)
(*                                                                         *)
(* Images are their format and dimensions.  Original pictures are whole:   *)
(* fetching them is part of Worker.tla.  The jobs are those of one client, *)
(* so the store is reduced to the status of the job.                       *)
(***************************************************************************)
EXTENDS Pipeline, FiniteSets, Functions

CONSTANTS
    Tasks,        \* ids of the tasks a job may have
    Requests,     \* what the client or the user asks for, see Request
    MaxFaults     \* bound: tools, uploads and renames that fail for a moment

J == INSTANCE Jobs WITH JobIDs <- {"job"}

VARIABLES
    request,      \* the request; it does not change
    options,      \* the options of each task; those of the one call for the CLI
    call,         \* how far the call for each task has got, or its error
    dir,          \* the directory: contents of its files, by their names
    status,       \* of the job; the CLI's run is put in the same terms
    reason,       \* of a failure
    results,      \* the images that were uploaded, or that the CLI left
    faults        \* faults so far

vars == <<request, options, call, dir, status, reason, results, faults>>

Images == [format : Formats, width : Nat \ {0}, height : Nat \ {0}]

\* A file that a tool is writing, or was writing when it failed.
Partial == [format |-> "none", width |-> 0, height |-> 0]

\* What the names that Process makes begin with, see File.
ToolPrefixes == {"resized", "converted", "compressed", "jpegoptim"}

\* The tools that refuse the image or the options do so each time they are asked.
\* The handler of POST /api/v1/job takes options of any kind; those of the CLI
\* are flags, and its user has other files beside the input.
Request(r) ==
    /\ r.caller \in {"worker", "cli"}
    /\ r.image \in Images
    /\ r.refused \subseteq Tools
    /\ IF r.caller = "worker"
       THEN /\ DOMAIN r.options \subseteq Tasks
            /\ \A t \in DOMAIN r.options : r.options[t].maxDimension \in Int
       ELSE /\ r.maxDimension \in Int
            /\ \A f \in DOMAIN r.files : f[1] \notin ToolPrefixes /\ r.files[f] \in Images

ASSUME ProcessingAssumption ==
    /\ MaxFaults \in Nat
    /\ \A r \in Requests : Request(r)

ToolSteps == {"resize", "convert", "compress"}

Errors == J!ErrorKinds

\* "processed" is a call that has returned the path of its result.
CallStates == {"waiting", "processed", "uploaded"} \cup ToolSteps \cup Errors

TypeOK ==
    /\ Request(request)
    /\ call \in [DOMAIN options -> CallStates]
    /\ \A f \in DOMAIN dir : dir[f] = Partial \/ dir[f] \in Images
    /\ status \in J!JobStatus
    /\ reason \in J!Reasons \cup {J!NoReason, "bad options", "rename"}
    /\ \A t \in DOMAIN results : results[t] \in Images
    /\ faults \in 0 .. MaxFaults

-----------------------------------------------------------------------------
(* Names of files: a prefix, the unique tag of the call and an extension;   *)
(* all have the base name of the original.                                  *)

\* Broken variant: the calls share a tag.
TagOfJob(t) == "tag"

\* Six random characters, taken to differ between the calls on an original.
Tag(t) == t

File(prefix, tag, ext) == <<prefix, tag, ext>>

\* A worker names the original by the format its metadata has, a user as he
\* likes: the extension may be wrong.
Original ==
    File("", "", IF request.caller = "worker" THEN request.image.format ELSE request.ext)

Resized(t) == File("resized", Tag(t), options[t].format)
Converted(t) == File("converted", Tag(t), options[t].format)
Compressed(t) == File("compressed", Tag(t), options[t].format)

\* jpegoptim's output, in a directory of its own (os.MkdirTemp).
Scratch(t) == File("jpegoptim", t, "jpeg")

Just(name, value) == [n \in {name} |-> value]

Without(d, files) == Restrict(d, DOMAIN d \ files)

With(d, file, content) ==
    [f \in DOMAIN d \cup {file} |-> IF f = file THEN content ELSE d[f]]

-----------------------------------------------------------------------------
(* The chain of tools of one call.                                          *)

resizes(t) == options[t].maxDimension > 0

converts(t) == needToConvert(request.image.format, options[t].format)

Following(t, step) ==
    IF step = "waiting" /\ resizes(t) THEN "resize"
    ELSE IF step \in {"waiting", "resize"} /\ converts(t) THEN "convert"
    ELSE IF step = "compress" THEN "processed"
    ELSE "compress"

Tool(t, step) == IF step = "compress" THEN Compressor(options[t].format) ELSE "magick"

InputOf(t, step) ==
    IF step = "compress" /\ converts(t) THEN Converted(t)
    ELSE IF step # "resize" /\ resizes(t) THEN Resized(t)
    ELSE Original

OutputOf(t, step) ==
    CASE step = "resize"  -> Resized(t)
      [] step = "convert" -> Converted(t)
      [] step = "compress" ->
           IF Tool(t, step) = "jpegoptim" THEN Scratch(t) ELSE Compressed(t)

\* Broken variant: the deferred removal of the converted image is missing.
DeferredWithoutConverted(t, step) ==
    (IF resizes(t) /\ step # "resize" THEN {Resized(t)} ELSE {})
      \cup (IF step = "compress" THEN {Scratch(t)} ELSE {})

\* What is removed when Process returns at a step.  Each removal is deferred once
\* the file is complete, so what a tool that fails leaves behind is not removed.
Deferred(t, step) ==
    (IF resizes(t) /\ step # "resize" THEN {Resized(t)} ELSE {})
      \cup (IF converts(t) /\ step = "compress" THEN {Converted(t)} ELSE {})
      \cup (IF step = "compress" THEN {Scratch(t)} ELSE {})

Fault == faults < MaxFaults /\ faults' = faults + 1

\* The call gets to the tool of the next step, which begins to write.
Proceed(d, t, step) ==
    /\ call' = [call EXCEPT ![t] = step]
    /\ dir' = IF step \in ToolSteps THEN With(d, OutputOf(t, step), Partial) ELSE d

\* Broken variant: an unsupported conversion is an error like others.
StartCallUnclassified(t) ==
    /\ status = "processing"
    /\ t \in DOMAIN call /\ call[t] = "waiting"
    /\ IF CanConvert(request.image.format, options[t].format)
       THEN Proceed(dir, t, Following(t, "waiting"))
       ELSE call' = [call EXCEPT ![t] = "other"] /\ UNCHANGED dir
    /\ UNCHANGED <<request, options, status, reason, results, faults>>

\* Process, up to its first tool.
StartCall(t) ==
    /\ status = "processing"
    /\ t \in DOMAIN call /\ call[t] = "waiting"
    /\ IF CanConvert(request.image.format, options[t].format)
       THEN Proceed(dir, t, Following(t, "waiting"))
       ELSE /\ call' = [call EXCEPT ![t] = "conversion not supported"]
            /\ UNCHANGED dir
    /\ UNCHANGED <<request, options, status, reason, results, faults>>

\* The original cannot be read or decoded.
StartCallFails(t) ==
    /\ status = "processing"
    /\ t \in DOMAIN call /\ call[t] = "waiting"
    /\ Fault
    /\ call' = [call EXCEPT ![t] = "other"]
    /\ UNCHANGED <<request, options, dir, status, reason, results>>

Whole(file) == file \in DOMAIN dir /\ dir[file] # Partial

CanRead(t, step) ==
    Whole(InputOf(t, step)) /\ dir[InputOf(t, step)].format \in Reads(Tool(t, step))

NewDimensions(t) ==
    resizeDimensions(options[t].maxDimension, request.image.width, request.image.height)

\* A side of no pixels: ImageMagick refuses, or makes it one pixel.
AtLeastOne(n) == IF n = 0 THEN 1 ELSE n

Made(t, step) ==
    LET format == Writes(Tool(t, step), options[t].format)
    IN  IF step = "resize"
        THEN {[format |-> format, width |-> AtLeastOne(d.width),
               height |-> AtLeastOne(d.height)] : d \in NewDimensions(t)}
        ELSE {[dir[InputOf(t, step)] EXCEPT !.format = format]}

ToolEnds(t) ==
    /\ t \in DOMAIN call /\ call[t] \in ToolSteps
    /\ LET step == call[t]
           output == IF step = "compress" THEN Compressed(t) ELSE OutputOf(t, step)
       IN  /\ Tool(t, step) \notin request.refused
           /\ CanRead(t, step)
           /\ \E image \in Made(t, step) :
                LET written == With(dir, output, image)
                IN  Proceed(IF step = "compress"
                            THEN Without(written, Deferred(t, step)) ELSE written,
                            t, Following(t, step))
    /\ UNCHANGED <<request, options, status, reason, results, faults>>

\* The tool refuses, or fails for a moment; what it wrote is left, or not.
ToolFails(t) ==
    /\ t \in DOMAIN call /\ call[t] \in ToolSteps
    /\ LET step == call[t]
           refuses ==
               \/ Tool(t, step) \in request.refused
               \/ ~CanRead(t, step)
               \/ step = "resize" /\ \E d \in NewDimensions(t) : 0 \in {d.width, d.height}
       IN  /\ IF refuses THEN UNCHANGED faults ELSE Fault
           /\ \E left \in {{}, {OutputOf(t, step)}} :
                dir' = Without(dir, Deferred(t, step) \cup left)
    /\ call' = [call EXCEPT ![t] = "other"]
    /\ UNCHANGED <<request, options, status, reason, results>>
=============================================================================
