------------------------- MODULE ProcessingCallers --------------------------
(***************************************************************************)
(* The callers of Service.Process: attempts of a worker at one job, each   *)
(* in a temporary directory of its own (internal/service/processor/        *)
(* worker.go), and one run of the command line tool (cmd/cli/main.go).     *)
(***************************************************************************)
EXTENDS Processing

EmptyDir == <<>>

\* The directory in which the user runs the tool.
UsersFiles == With(request.files, Original, request.image)

Init ==
    /\ request \in Requests
    /\ IF request.caller = "worker"
       THEN /\ options = request.options
            /\ dir = EmptyDir
       ELSE /\ options = <<>>
            /\ dir = UsersFiles
    /\ call = [t \in DOMAIN options |-> "waiting"]
    /\ status = "pending"
    /\ reason = J!NoReason
    /\ results = <<>>
    /\ faults = 0

-----------------------------------------------------------------------------
(* The worker.                                                              *)

AllWaiting == [t \in DOMAIN options |-> "waiting"]

\* A worker has acquired the job, made a directory and fetched the original.
StartAttempt ==
    /\ request.caller = "worker"
    /\ status = "pending"
    /\ status' = "processing"
    /\ dir' = Just(Original, request.image)
    /\ call' = AllWaiting
    /\ results' = <<>>
    /\ UNCHANGED <<request, options, reason, faults>>

\* The goroutine of a task uploads the file whose path Process returned, and
\* notes the variant in the task.
Upload(t) ==
    /\ request.caller = "worker"
    /\ t \in DOMAIN call /\ call[t] = "processed"
    /\ Whole(Compressed(t))
    /\ results' = With(results, t, dir[Compressed(t)])
    /\ call' = [call EXCEPT ![t] = "uploaded"]
    /\ UNCHANGED <<request, options, dir, status, reason, faults>>

UploadFails(t) ==
    /\ request.caller = "worker"
    /\ t \in DOMAIN call /\ call[t] = "processed"
    /\ IF Whole(Compressed(t)) THEN Fault ELSE UNCHANGED faults
    /\ call' = [call EXCEPT ![t] = "other"]
    /\ UNCHANGED <<request, options, dir, status, reason, results>>

CallErrors == {call[t] : t \in DOMAIN call} \cap Errors

\* The wait group of processTasks.
Waited == \A t \in DOMAIN call : call[t] \in {"uploaded"} \cup Errors

\* What Run makes of an attempt: of several errors the one that was sent first
\* decides, and the goroutines send in any order.
Outcome ==
    IF CallErrors # {}
    THEN {IF J!isRetryableError(e) THEN <<"pending", reason>> ELSE <<"failed", e>>
            : e \in CallErrors}
    ELSE IF DOMAIN call = {} THEN {<<"failed", "no tasks completed">>}
    ELSE {<<"completed", reason>>}

\* The rest of Run, with the writes of its goroutines.  The directory goes.
EndAttempt ==
    /\ request.caller = "worker"
    /\ status = "processing"
    /\ Waited
    /\ \E o \in Outcome : status' = o[1] /\ reason' = o[2]
    /\ dir' = EmptyDir
    /\ call' = AllWaiting
    /\ UNCHANGED <<request, options, results, faults>>

-----------------------------------------------------------------------------
(* The command line tool.                                                   *)

\* main, up to the call of Process.  The format is that of the flag or, without
\* one, the extension of the input, which is not always a format: photo.jpg.
ParseFlags ==
    /\ request.caller = "cli"
    /\ status = "pending"
    /\ options' = Just("cli", [format |-> IF request.flag = "" THEN request.ext ELSE request.flag,
                               maxDimension |-> request.maxDimension,
                               quality |-> request.quality])
    /\ IF ValidOptions(options'["cli"])
       THEN status' = "processing" /\ call' = Just("cli", "waiting") /\ UNCHANGED reason
       ELSE status' = "failed" /\ call' = Just("cli", "other") /\ reason' = "bad options"
    /\ UNCHANGED <<request, dir, results, faults>>

NotGiven == <<>>

\* The path of the result: the one the user gave, or one made of the input's.
\* Nobody looks whether it exists: with -output, and with the flag -format and
\* the format the input's name has already, it may be the input's own.
OutputPath ==
    IF request.output # NotGiven THEN request.output
    ELSE IF request.flag # "" THEN File("", "", request.flag)
    ELSE File("processed", "", request.ext)

\* The result is renamed, over whatever has the name.
RenameResult ==
    /\ request.caller = "cli"
    /\ status = "processing" /\ call["cli"] = "processed"
    /\ Whole(Compressed("cli"))
    /\ LET image == dir[Compressed("cli")]
       IN  /\ dir' = With(Without(dir, {Compressed("cli")}), OutputPath, image)
           /\ results' = Just("cli", image)
    /\ status' = "completed"
    /\ UNCHANGED <<request, options, call, reason, faults>>

\* The other path is on another device, or its directory does not exist.
RenameFails ==
    /\ request.caller = "cli"
    /\ status = "processing" /\ call["cli"] = "processed"
    /\ Fault
    /\ status' = "failed"
    /\ reason' = "rename"
    /\ UNCHANGED <<request, options, call, dir, results>>

ProcessFails ==
    /\ request.caller = "cli"
    /\ status = "processing" /\ call["cli"] \in Errors
    /\ status' = "failed"
    /\ reason' = call["cli"]
    /\ UNCHANGED <<request, options, call, dir, results, faults>>

-----------------------------------------------------------------------------
CallStep(t) ==
    \/ StartCall(t) \/ StartCallFails(t)
    \/ ToolEnds(t) \/ ToolFails(t)
    \/ Upload(t) \/ UploadFails(t)

CallerStep ==
    \/ StartAttempt \/ EndAttempt
    \/ ParseFlags \/ RenameResult \/ RenameFails \/ ProcessFails

Next == CallerStep \/ \E t \in DOMAIN call : CallStep(t)

Spec == Init /\ [][Next]_vars

\* A goroutine goes on, a tool ends or fails, and the pool comes back to a job
\* that is pending (WorkerPool.tla says when it does).
FairSpec ==
    /\ Spec
    /\ WF_vars(CallerStep)
    /\ \A t \in Tasks \cup {"cli"} : WF_vars(t \in DOMAIN call /\ CallStep(t))

-----------------------------------------------------------------------------
Larger(w, h) == IF w > h THEN w ELSE h

Smaller(w, h) == IF w < h THEN w ELSE h

\* As large as the limit lets it be and never larger than the original, with its
\* proportions to within a pixel.
Fits(image, o) ==
    LET original == request.image
        size == Larger(original.width, original.height)
        limit == IF o.maxDimension > 0 THEN Smaller(o.maxDimension, size) ELSE size
        skew == image.width * original.height - image.height * original.width
    IN  Larger(image.width, image.height) = limit /\ skew \in -size .. size

AsAsked(image, o) == image.format = o.format /\ Fits(image, o)

\* What a job or a run of the tool ends with is what was asked for, made by
\* whichever chain of tools the two formats and the limit select, one image for
\* each task; and it fails for good only over a conversion that is not supported
\* (README.md:329-336, service.go:51-113, resizer.go:16-32, compressor.go:57-92).
OutcomeJustified ==
    /\ status = "completed" =>
         /\ DOMAIN options # {} /\ DOMAIN results = DOMAIN options
         /\ \A t \in DOMAIN options : AsAsked(results[t], options[t])
    /\ request.caller = "worker" /\ status = "failed" =>
         \/ DOMAIN options = {}
         \/ \E t \in DOMAIN options : ~CanConvert(request.image.format, options[t].format)

\* No tool reads a file that another one is still writing or that is gone, nor
\* one in a format it cannot read, though the tasks of a job share a directory
\* (service.go:60-112, jpegoptim.go:29-61).
WholeInputs ==
    \A t \in DOMAIN call :
        /\ call[t] \in ToolSteps => CanRead(t, call[t])
        /\ call[t] = "processed" /\ status = "processing" => Whole(Compressed(t))

\* The files of calls that run: the chain so far, and what the tool writes.
Working(t) ==
    IF call[t] \in ToolSteps THEN {OutputOf(t, call[t])} \cup Deferred(t, call[t])
    ELSE IF call[t] = "processed" THEN {Compressed(t)} ELSE {}

\* The command line tool leaves the user's directory as it should: all files are
\* there and as they were, except one whose name the result was to take, and that
\* one only once the result is complete.  A run that succeeds leaves the result
\* and nothing else, and one that fails at most one file: the one its last tool
\* left, or the result that could not be moved (main.go:77-122, service.go:84, 97).
DirectoryKept ==
    request.caller = "cli" =>
        /\ \A f \in DOMAIN UsersFiles :
             /\ f \in DOMAIN dir
             /\ dir[f] # UsersFiles[f] => status = "completed" /\ f = OutputPath
        /\ status = "completed" =>
             /\ DOMAIN dir = DOMAIN UsersFiles \cup {OutputPath}
             /\ dir[OutputPath] = results["cli"]
        /\ status = "failed" => Cardinality(DOMAIN dir \ DOMAIN UsersFiles) <= 1
        /\ status = "processing" /\ call["cli"] \notin Errors =>
             DOMAIN dir \subseteq DOMAIN UsersFiles \cup Working("cli")

\* An error that only looks temporary: a tool that refuses the image whenever it
\* is asked, or a side of no pixels.
Hopeless(t) ==
    \/ \E step \in {"compress"} \cup {s \in {"resize"} : resizes(t)}
                     \cup {s \in {"convert"} : converts(t)} :
         Tool(t, step) \in request.refused
    \/ resizes(t) /\ \E d \in NewDimensions(t) : 0 \in {d.width, d.height}

\* A job with tasks of which none is hopeless ends, supported or not, and so
\* does every run of the tool: errors that are temporary pass, and the others
\* end the job (worker.go:95-120, 269-288).
JobEnds ==
    status = "processing" /\ (request.caller = "cli" \/
        \A t \in DOMAIN options :
            CanConvert(request.image.format, options[t].format) => ~Hopeless(t))
      ~> status \in J!Finished
=============================================================================
