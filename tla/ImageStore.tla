------------------------------ MODULE ImageStore ------------------------------
(***************************************************************************)
(* The image store (internal/store/imagestore) and its callers: an image   *)
(* is a blob in one store and a row of metadata in another, and no         *)
(* transaction spans the two.  Uploads, deletions and downloads of several *)
(* callers interleave between the two stores, either store may answer with *)
(* an error after it did or did not do what was asked, and the process may *)
(* restart, with a store in memory empty again.  Jobs are clients as well: *)
(* an original is looked up when its job is created, and fetched by every  *)
(* attempt at it, at any later time.                                       *)
(*                                                                         *)
(* S3, the file system and PostgreSQL are not part of the repository: each *)
(* is a set of ids that one step adds to or removes from.                  *)
(***************************************************************************)
EXTENDS Naturals, FiniteSets

CONSTANTS
    ImageIDs,      \* ids that uuid.V7 may give
    Uploaders,     \* requests that upload, one after the other, and workers
    Deleters,      \* callers of DeleteImage
    Readers,       \* requests that download
    JobIDs,        \* jobs that may be created
    Configs,       \* kinds of stores that the configuration may name
    MaxFaults      \* bound: errors of the stores, and restarts

BlobKinds == {"memory", "disk", "s3"}
MetadataKinds == {"memory", "postgres"}

NoImage == "no image"

ASSUME ImageStoreAssumption ==
    /\ IsFiniteSet(ImageIDs) /\ NoImage \notin ImageIDs
    /\ IsFiniteSet(Uploaders)
    /\ Configs \subseteq [blob : BlobKinds, metadata : MetadataKinds]
    /\ MaxFaults \in Nat

J == INSTANCE Jobs

VARIABLES
    config,        \* the kinds of the two stores
    blobs,         \* images whose blob is stored
    metadata,      \* images whose metadata is stored
    upload,        \* what each uploader does
    deletion,      \* what each deleter does, or what its last call returned
    download,      \* what each reader does, or what its last request was answered
    job,           \* each job's original, and how far its job has got with it
    unused,        \* ids that were never given
    promised,      \* images that a request was answered 201 with
    gone,          \* images whose deletion was asked for, or that a restart lost
    left,          \* images whose blob the code does not take back, see StraysExplained
    faults

stores == <<config, blobs, metadata>>
record == <<unused, promised, gone, left>>
vars == <<stores, upload, deletion, download, job, record, faults>>

Uploads ==
    [at : {"next"}, id : {NoImage}, stored : SUBSET ImageIDs]
        \cup [at : {"metadata"}, id : ImageIDs, stored : SUBSET ImageIDs]

Results == {"done", "not found", "error"}
Answers ==
    {"image", "truncated", "no metadata", "no blob", "empty", "broken off", "internal error"}

\* "checked": the handler has found the metadata.  "blob", "data": a worker is
\* about to get the blob, or has it and is about to read it.  "abandoned": it
\* was processed when the process died.
JobStages ==
    {"none", "checked", "pending", "blob", "data", "fetched", "failed", "abandoned"}

TypeOK ==
    /\ config \in Configs
    /\ blobs \subseteq ImageIDs \ unused
    /\ metadata \subseteq ImageIDs \ unused
    /\ upload \in [Uploaders -> Uploads]
    /\ deletion \in [Deleters -> [at : {"metadata"} \cup Results, id : ImageIDs \cup {NoImage}]]
    /\ download \in [Readers -> [at : {"blob", "data"} \cup Answers, id : ImageIDs \cup {NoImage}]]
    /\ job \in [JobIDs -> [at : JobStages, id : ImageIDs \cup {NoImage}]]
    /\ unused \subseteq ImageIDs
    /\ promised \subseteq ImageIDs \ unused
    /\ gone \subseteq ImageIDs \ unused
    /\ left \subseteq ImageIDs \ unused
    /\ faults \in 0 .. MaxFaults

\* Which image an answer was about is kept where a step or a property asks for it.
Kept ==
    {"metadata", "not found", "blob", "data", "no blob", "empty", "broken off"}
        \cup {"checked", "pending", "failed"}
About(i, what) == [at |-> what, id |-> IF what \in Kept THEN i ELSE NoImage]

NoUpload == [at |-> "next", id |-> NoImage, stored |-> {}]

Init ==
    /\ config \in Configs
    /\ blobs = {}
    /\ metadata = {}
    /\ upload = [u \in Uploaders |-> NoUpload]
    /\ deletion = [d \in Deleters |-> About(NoImage, "done")]
    /\ download = [r \in Readers |-> About(NoImage, "image")]
    /\ job = [j \in JobIDs |-> About(NoImage, "none")]
    /\ unused = ImageIDs
    /\ promised = {}
    /\ gone = {}
    /\ left = {}
    /\ faults = 0

Fault ==
    /\ faults < MaxFaults
    /\ faults' = faults + 1

-----------------------------------------------------------------------------
(* handleUploadImages: Store.UploadImage for each file of the request.     *)

\* The blob of the next file is stored.
UploadBlob(u) ==
    /\ upload[u].at = "next"
    /\ \E i \in unused :
         /\ blobs' = blobs \cup {i}
         /\ unused' = unused \ {i}
         /\ upload' = [upload EXCEPT ![u] = [at |-> "metadata", id |-> i, stored |-> @.stored]]
    /\ UNCHANGED <<config, metadata, deletion, download, job, promised, gone, left, faults>>

\* Broken variant: the error of the blob store is not looked at.
UploadFailsUnnoticed(u) ==
    /\ upload[u].at = "next"
    /\ \E i \in unused :
         /\ unused' = unused \ {i}
         /\ upload' = [upload EXCEPT ![u] = [at |-> "metadata", id |-> i, stored |-> @.stored]]
    /\ UNCHANGED <<config, blobs, metadata, deletion, download, job, promised, gone, left, faults>>

\* The file is no image that can be stored, or cannot be read.  The store on disk
\* removes what it wrote; S3 has put the object before NewVariant looks at the
\* sides of the image, and leaves it there.  The request ends with this error,
\* and its client never learns the ids of the files stored before.
RefuseFile(u) ==
    /\ upload[u].at = "next"
    /\ \E i \in unused :
         /\ unused' = unused \ {i}
         /\ \/ UNCHANGED <<blobs, left>>
            \/ config.blob = "s3" /\ blobs' = blobs \cup {i} /\ left' = left \cup {i}
    /\ upload' = [upload EXCEPT ![u] = NoUpload]
    /\ UNCHANGED <<config, metadata, deletion, download, job, promised, gone, faults>>

\* The store fails, perhaps with the object, or a part of the file, left behind.
UploadFails(u) ==
    /\ upload[u].at = "next"
    /\ config.blob # "memory"
    /\ Fault
    /\ \E i \in unused :
         /\ unused' = unused \ {i}
         /\ \/ UNCHANGED <<blobs, left>>
            \/ blobs' = blobs \cup {i} /\ left' = left \cup {i}
    /\ upload' = [upload EXCEPT ![u] = NoUpload]
    /\ UNCHANGED <<config, metadata, deletion, download, job, promised, gone>>

AddMetadata(u) ==
    /\ upload[u].at = "metadata"
    /\ metadata' = metadata \cup {upload[u].id}
    /\ upload' = [upload EXCEPT ![u] =
         [at |-> "next", id |-> NoImage, stored |-> @.stored \cup {@.id}]]
    /\ UNCHANGED <<config, blobs, deletion, download, job, record, faults>>

\* Broken variant: the error is logged as a warning and nothing more.
AddMetadataFailsUnnoticed(u) ==
    /\ upload[u].at = "metadata"
    /\ config.metadata = "postgres"
    /\ Fault
    /\ metadata' \in {metadata, metadata \cup {upload[u].id}}
    /\ upload' = [upload EXCEPT ![u] =
         [at |-> "next", id |-> NoImage, stored |-> @.stored \cup {@.id}]]
    /\ UNCHANGED <<config, blobs, deletion, download, job, record>>

\* The blob stays; the request ends with the error.
AddMetadataFails(u) ==
    /\ upload[u].at = "metadata"
    /\ config.metadata = "postgres"
    /\ Fault
    /\ \/ metadata' = metadata \cup {upload[u].id} /\ UNCHANGED left
       \/ left' = left \cup {upload[u].id} /\ UNCHANGED metadata
    /\ upload' = [upload EXCEPT ![u] = NoUpload]
    /\ UNCHANGED <<config, blobs, deletion, download, job, unused, promised, gone>>

AnswerUpload(u) ==
    /\ upload[u].at = "next"
    /\ upload[u].stored # {}
    /\ promised' = promised \cup upload[u].stored
    /\ upload' = [upload EXCEPT ![u] = NoUpload]
    /\ UNCHANGED <<stores, deletion, download, job, unused, gone, left, faults>>

-----------------------------------------------------------------------------
(* Store.DeleteImage.                                                      *)

Return(d, i, result) == deletion' = [deletion EXCEPT ![d] = About(i, result)]

Idle(d) == deletion[d].at # "metadata"

\* Broken variant: S3's answer is taken as the other stores' is.
BlobDeletableIfStored(i) == i \in blobs

\* S3 deletes an object that it does not have without an error.
BlobDeletable(i) == config.blob = "s3" \/ i \in blobs

\* Broken variant: DeleteImage begins with the metadata.
DeleteMetadataFirst(d) ==
    /\ Idle(d)
    /\ \E i \in promised :
         /\ metadata' = metadata \ {i}
         /\ gone' = gone \cup {i}
         /\ Return(d, i, "metadata")
    /\ UNCHANGED <<config, blobs, upload, download, job, unused, promised, left, faults>>

DeleteBlob(d) ==
    /\ Idle(d)
    /\ \E i \in promised :
         /\ BlobDeletable(i)
         /\ blobs' = blobs \ {i}
         /\ gone' = gone \cup {i}
         /\ Return(d, i, "metadata")
    /\ UNCHANGED <<config, metadata, upload, download, job, unused, promised, left, faults>>

DeleteNothing(d) ==
    /\ Idle(d)
    /\ \E i \in promised : ~BlobDeletable(i) /\ Return(d, i, "not found")
    /\ UNCHANGED <<stores, upload, download, job, record, faults>>

DeleteBlobFails(d) ==
    /\ Idle(d)
    /\ config.blob # "memory"
    /\ Fault
    /\ \E i \in promised :
         /\ blobs' \in {blobs, blobs \ {i}}
         /\ gone' = gone \cup {i}
         /\ Return(d, i, "error")
    /\ UNCHANGED <<config, metadata, upload, download, job, unused, promised, left>>

DeleteMetadata(d) ==
    /\ deletion[d].at = "metadata"
    /\ metadata' = metadata \ {deletion[d].id}
    /\ Return(d, deletion[d].id, IF deletion[d].id \in metadata THEN "done" ELSE "not found")
    /\ UNCHANGED <<config, blobs, upload, download, job, record, faults>>

DeleteMetadataFails(d) ==
    /\ deletion[d].at = "metadata"
    /\ config.metadata = "postgres"
    /\ Fault
    /\ metadata' \in {metadata, metadata \ {deletion[d].id}}
    /\ Return(d, deletion[d].id, "error")
    /\ UNCHANGED <<config, blobs, upload, download, job, record>>

-----------------------------------------------------------------------------
(* handleDownloadImage.                                                    *)

Answer(r, i, answer) == download' = [download EXCEPT ![r] = About(i, answer)]

Reads(r) == download[r].at \in {"blob", "data"}

\* The test for a missing row compares the error with sql.ErrNoRows by ==, and
\* the error of pgx only wraps that one.
MissingMetadata == IF config.metadata = "memory" THEN "no metadata" ELSE "internal error"

Found(i) == IF i \in metadata THEN "blob" ELSE MissingMetadata

\* A file or an object that is open is read to its end.  The store in memory
\* hands out a pointer.
Opened(i) ==
    IF i \notin blobs THEN "no blob"
    ELSE IF config.blob = "memory" THEN "data" ELSE "image"

\* The bytes are taken from the pointer without the store's lock, while
\* DeleteImage, which has the lock, sets them to nil: the reader gets them all,
\* none, or a length without bytes, which net/http makes a broken connection.
Data(i) == IF i \in blobs THEN {"image"} ELSE {"empty", "broken off"}

GetMetadataByID(r) ==
    /\ ~Reads(r)
    /\ \E i \in ImageIDs : Answer(r, i, Found(i))
    /\ UNCHANGED <<stores, upload, deletion, job, record, faults>>

DownloadImage(r) ==
    /\ download[r].at = "blob"
    /\ Answer(r, download[r].id, Opened(download[r].id))
    /\ UNCHANGED <<stores, upload, deletion, job, record, faults>>

ReadData(r) ==
    /\ download[r].at = "data"
    /\ \E answer \in Data(download[r].id) : Answer(r, download[r].id, answer)
    /\ UNCHANGED <<stores, upload, deletion, job, record, faults>>

\* The store that is asked fails.  After the first 512 bytes the answer is 200
\* already, and ends where the store failed.
DownloadFails(r) ==
    /\ \/ ~Reads(r) /\ config.metadata # "memory" /\ Answer(r, NoImage, "internal error")
       \/ /\ download[r].at = "blob" /\ config.blob # "memory"
          /\ \E answer \in {"internal error", "truncated"} : Answer(r, NoImage, answer)
    /\ Fault
    /\ UNCHANGED <<stores, upload, deletion, job, record>>

-----------------------------------------------------------------------------
(* Originals of jobs: handleCreateJob, and Worker.downloadOriginal.        *)

Goes(j, stage) == job' = [job EXCEPT ![j] = About(@.id, stage)]

\* Broken variant: any id will do for an original.
CheckOriginalNotAtAll(j) ==
    /\ job[j].at = "none"
    /\ \E i \in ImageIDs : job' = [job EXCEPT ![j] = About(i, "checked")]
    /\ UNCHANGED <<stores, upload, deletion, download, record, faults>>

\* Otherwise the request is answered with the error, and there is no job.
CheckOriginal(j) ==
    /\ job[j].at = "none"
    /\ \E i \in metadata : job' = [job EXCEPT ![j] = About(i, "checked")]
    /\ UNCHANGED <<stores, upload, deletion, download, record, faults>>

CreateJob(j) ==
    /\ job[j].at = "checked"
    /\ Goes(j, "pending")
    /\ UNCHANGED <<stores, upload, deletion, download, record, faults>>

ErrorOf(answer) == IF answer \in {"no metadata", "no blob"} THEN "not found" ELSE "other"

\* What Run makes of what the store returned.  That an empty file is no image is
\* found by the tasks.
StageAfter(answer) ==
    IF answer \in {"blob", "data"} THEN answer
    ELSE IF answer \in {"image", "empty"} THEN "fetched"
    ELSE IF J!isRetryableError(ErrorOf(answer)) THEN "pending" ELSE "failed"

\* A length without bytes ends the process: no worker recovers (Restart).
FetchOriginal(j) ==
    /\ \/ job[j].at = "pending" /\ Goes(j, StageAfter(Found(job[j].id)))
       \/ job[j].at = "blob" /\ Goes(j, StageAfter(Opened(job[j].id)))
       \/ /\ job[j].at = "data"
          /\ \E answer \in Data(job[j].id) \ {"broken off"} : Goes(j, StageAfter(answer))
    /\ UNCHANGED <<stores, upload, deletion, download, record, faults>>

\* A worker that fails to read the metadata releases the job as it was.
FetchFails(j) ==
    /\ job[j].at = "blob"
    /\ config.blob # "memory"
    /\ Fault
    /\ Goes(j, "pending")
    /\ UNCHANGED <<stores, upload, deletion, download, record>>

-----------------------------------------------------------------------------
Durable == config.blob # "memory" /\ config.metadata # "memory"

\* Jobs are stored where metadata are.
JobAfterRestart(j) ==
    IF config.metadata = "memory" \/ job[j].at = "checked" THEN About(NoImage, "none")
    ELSE IF job[j].at \in {"blob", "data"} THEN About(NoImage, "abandoned")
    ELSE job[j]

InFlight == {upload[u].id : u \in Uploaders} \ {NoImage}

\* The process dies and starts again.
Restart ==
    /\ Fault
    /\ blobs' = IF config.blob = "memory" THEN {} ELSE blobs
    /\ metadata' = IF config.metadata = "memory" THEN {} ELSE metadata
    /\ gone' = IF Durable THEN gone ELSE ImageIDs \ unused
    /\ left' = left \cup InFlight \cup (IF config.metadata = "memory" THEN metadata ELSE {})
    /\ upload' = [u \in Uploaders |-> NoUpload]
    /\ deletion' = [d \in Deleters |-> About(NoImage, "error")]
    /\ download' = [r \in Readers |-> About(NoImage, "internal error")]
    /\ job' = [j \in JobIDs |-> JobAfterRestart(j)]
    /\ UNCHANGED <<config, unused, promised>>

Upload(u) ==
    \/ UploadBlob(u) \/ RefuseFile(u) \/ UploadFails(u)
    \/ AddMetadata(u) \/ AddMetadataFails(u) \/ AnswerUpload(u)

Delete(d) ==
    \/ DeleteBlob(d) \/ DeleteNothing(d) \/ DeleteBlobFails(d)
    \/ DeleteMetadata(d) \/ DeleteMetadataFails(d)

Download(r) ==
    \/ GetMetadataByID(r) \/ DownloadImage(r) \/ ReadData(r) \/ DownloadFails(r)

UseOriginal(j) == CheckOriginal(j) \/ CreateJob(j) \/ FetchOriginal(j) \/ FetchFails(j)

Next ==
    \/ \E u \in Uploaders : Upload(u)
    \/ \E d \in Deleters : Delete(d)
    \/ \E r \in Readers : Download(r)
    \/ \E j \in JobIDs : UseOriginal(j)
    \/ Restart

Spec == Init /\ [][Next]_vars

-----------------------------------------------------------------------------
\* An image that the store says it has can be read: its blob was stored before
\* its metadata, and is only missing when a deletion stopped halfway
\* (store.go:84-115).
MetadataHasBlob == metadata \ blobs \subseteq gone

\* An image that a client was promised, and that nobody asked to delete, stays
\* complete, whatever fails for the other requests (handlers.go:17-77).
PromisedReadable == promised \ gone \subseteq blobs \cap metadata

\* Blobs without metadata that no upload is about to give them.
Strays == blobs \ (metadata \cup InFlight)

\* A blob without metadata, which no request finds any more, is what an upload
\* left that got no further, by an error of a store, a refusal after the object was
\* put (S3) or the death of the process; or a restart took its metadata with the
\* memory they were in.  A deletion leaves none, wherever it stops or another one
\* meets it, since it takes the blob first; so with metadata in PostgreSQL a client
\* is never told the id of one (store.go:84-115; blob_s3.go:58-71; blob_disk.go:44-53).
StraysExplained ==
    /\ Strays \subseteq left
    /\ config.metadata = "postgres" => Strays \cap promised = {}

\* A download whose first read found the metadata finds no blob, is answered 200
\* with nothing, or loses its connection over a blob without bytes, only if the image
\* was deleted, before or in between.  A store that fails while it is read may end an
\* answer early as well: "truncated", which is not meant here
\* (handlers.go:86-117; store.go:84-115; blob_memory.go:65-75).
FoundIsServed ==
    \A r \in Readers :
        download[r].at \in {"no blob", "empty", "broken off"} => download[r].id \in gone

\* A job fails for good over its original only if somebody asked to delete that,
\* or a restart lost it: perhaps, with the blob already gone, before the job's
\* request looked for the metadata and found them (handlers.go:154-169; worker.go:95-102, 149-180).
FailedForLoss ==
    \A j \in JobIDs : job[j].at = "failed" => job[j].id \in gone

\* With S3, a deletion that is tried again after an error, or by another caller
\* at the same time, and is told "not found", left nothing behind
\* (store.go:104-115; blob_s3.go:94-108; metadata_postgres.go:129-142).
NotFoundIsGone ==
    \A d \in Deleters :
        config.blob = "s3" /\ deletion[d].at = "not found"
            => deletion[d].id \notin blobs \cup metadata
=============================================================================
