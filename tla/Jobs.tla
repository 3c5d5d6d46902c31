-------------------------------- MODULE Jobs --------------------------------
(***************************************************************************)
(* The job domain of icecube (internal/domain/jobs): the life of a job as  *)
(* its record goes through it, and the classification of the errors that   *)
(* end a processing attempt.                                               *)
(*                                                                         *)
(* A job value is the part of the Go struct that ever changes: its status, *)
(* whether LockedAt is set, and its reason.  LockedAt is a time in the     *)
(* code; nothing but a lease sweep compares it with a clock, and a sweep   *)
(* may find any lock expired, so only its presence is kept.  A reason is   *)
(* abstracted to the kind of the error whose message it is.                *)
(***************************************************************************)

CONSTANTS JobIDs       \* ids of the jobs that are ever created (uuid.V7)

JobStatus == {"pending", "processing", "completed", "failed"}

\* A status no step of the program ever leaves.
Finished == {"completed", "failed"}

-----------------------------------------------------------------------------
\* The kinds of error an attempt can end with: the three sentinels that
\* isRetryableError knows, and everything else (network, I/O, tools).
ErrorKinds == {"not found", "invalid input", "conversion not supported", "other"}

isRetryableError(e) ==
    e \notin {"not found", "invalid input", "conversion not supported"}

\* What a failed job can say: an error's message, or the text that Run
\* passes itself for a job without tasks.
NoReason == "nil"
Reasons == ErrorKinds \cup {"no tasks completed"}

-----------------------------------------------------------------------------
\* A copy of a job, as the store hands it out and takes it back.
Job == [id : JobIDs, status : JobStatus, locked : BOOLEAN,
        reason : Reasons \cup {NoReason}]

MarkPending(job) == [job EXCEPT !.status = "pending", !.locked = FALSE]

MarkCompleted(job) == [job EXCEPT !.status = "completed", !.locked = FALSE]

\* The code keeps the old reason when the new one is the empty string; no
\* caller passes one.
MarkFailed(job, why) ==
    [job EXCEPT !.status = "failed", !.locked = FALSE, !.reason = why]
=============================================================================
