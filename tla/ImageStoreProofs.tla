-------------------------- MODULE ImageStoreProofs --------------------------
(***************************************************************************)
(* Proofs about ImageStore.tla, for any number of images, callers, jobs    *)
(* and faults.  Blob and metadata are in two stores and every caller makes *)
(* its two steps when it likes: what holds them together is that an image  *)
(* on its way in is known to its uploader alone, and that whoever has seen *)
(* the metadata of an image finds its blob, unless the image is gone.      *)
(***************************************************************************)
EXTENDS ImageStore, TLAPS

\* An image between its two stores: its blob is there, and nobody else has it.
UploadsAlone ==
    \A u \in Uploaders : upload[u].at = "metadata" =>
        /\ upload[u].id \in blobs \ (gone \cup promised)
        /\ \A v \in Uploaders :
             /\ upload[u].id \notin upload[v].stored
             /\ upload[v].at = "metadata" /\ upload[v].id = upload[u].id => v = u

Complete == (blobs \cap metadata) \cup gone

StoredComplete ==
    /\ promised \subseteq Complete
    /\ \A u \in Uploaders : upload[u].stored \subseteq Complete

\* The blob of an image that is being deleted, or that S3 has no metadata of, is
\* not there, and nobody puts it back.
DeletedInOrder ==
    \A d \in Deleters :
        /\ deletion[d].at = "metadata" => deletion[d].id \in gone \ blobs
        /\ config.blob = "s3" /\ deletion[d].at = "not found" =>
             deletion[d].id \in gone \ (blobs \cup metadata)

\* Who has seen the metadata finds the blob.
SeenThenFound ==
    /\ metadata \subseteq blobs \cup gone
    /\ \A r \in Readers : Reads(r) => download[r].id \in blobs \cup gone
    /\ \A r \in Readers :
         download[r].at \in {"no blob", "empty", "broken off"} => download[r].id \in gone
    /\ \A j \in JobIDs :
         job[j].at \in {"checked", "pending", "blob", "data"} => job[j].id \in Complete
    /\ \A j \in JobIDs : job[j].at = "failed" => job[j].id \in gone

IndInv == TypeOK /\ UploadsAlone /\ StoredComplete /\ DeletedInOrder /\ SeenThenFound

\* Faults stay within their bound.
LEMMA FaultCounted == TypeOK /\ Fault => faults' \in 0 .. MaxFaults
  BY ImageStoreAssumption DEF TypeOK, Fault

\* Before anything is uploaded all parts of the invariant hold.
LEMMA InitInv == Init => IndInv
<1> SUFFICES ASSUME Init PROVE IndInv
  OBVIOUS
<1>1. TypeOK
  BY ImageStoreAssumption
  DEF Init, TypeOK, Uploads, NoUpload, About, Kept, Results, Answers, JobStages
<1>2. UploadsAlone /\ StoredComplete
  BY DEF Init, NoUpload, UploadsAlone, StoredComplete
<1>3. DeletedInOrder /\ SeenThenFound
  BY DEF Init, About, DeletedInOrder, SeenThenFound, Reads
<1> QED
  BY <1>1, <1>2, <1>3 DEF IndInv

-----------------------------------------------------------------------------
\* Uploads: a new image comes from the ids that nobody ever had.
LEMMA UploadInv ==
    ASSUME IndInv, NEW u \in Uploaders, Upload(u)
    PROVE  IndInv'
<1> USE DEF IndInv
<1>1. CASE UploadBlob(u)
  <2>1. TypeOK'
    <3>1. PICK i \in unused :
            /\ blobs' = blobs \cup {i}
            /\ unused' = unused \ {i}
            /\ upload' = [upload EXCEPT ![u] =
                 [at |-> "metadata", id |-> i, stored |-> upload[u].stored]]
      BY <1>1 DEF UploadBlob
    <3>2. upload'[u] \in Uploads
      <4>1. upload[u].stored \in SUBSET ImageIDs /\ i \in ImageIDs
        BY DEF TypeOK, Uploads
      <4>2. upload'[u] = [at |-> "metadata", id |-> i, stored |-> upload[u].stored]
        BY <3>1 DEF TypeOK, Uploads
      <4> QED
        BY <4>1, <4>2 DEF Uploads
    <3>3. upload' \in [Uploaders -> Uploads]
      BY <3>1, <3>2 DEF TypeOK
    <3>4. UNCHANGED <<config, metadata, deletion, download, job, promised, gone, left, faults>>
      BY <1>1 DEF UploadBlob
    <3> QED
      BY <3>1, <3>3, <3>4 DEF TypeOK
  <2>2. UploadsAlone'
    BY <1>1 DEF UploadBlob, TypeOK, Uploads, UploadsAlone, StoredComplete, Complete
  <2>3. StoredComplete'
    BY <1>1 DEF UploadBlob, TypeOK, Uploads, StoredComplete, Complete
  <2>4. DeletedInOrder'
    <3>1. PICK i \in unused : blobs' = blobs \cup {i}
      BY <1>1 DEF UploadBlob
    <3>2. i \notin gone
      BY DEF TypeOK
    <3>3. UNCHANGED <<config, metadata, deletion, gone>>
      BY <1>1 DEF UploadBlob
    <3> QED
      BY <3>1, <3>2, <3>3 DEF DeletedInOrder
  <2>5. SeenThenFound'
    BY <1>1 DEF UploadBlob, SeenThenFound, Complete, Reads
  <2> QED
    BY <2>1, <2>2, <2>3, <2>4, <2>5
<1>2. CASE RefuseFile(u) \/ UploadFails(u)
  <2>1. PICK i \in unused :
          /\ unused' = unused \ {i}
          /\ blobs' \in {blobs, blobs \cup {i}}
          /\ left' \in {left, left \cup {i}}
          /\ faults' \in 0 .. MaxFaults
    BY <1>2, FaultCounted DEF RefuseFile, UploadFails, TypeOK
  <2>2. /\ upload' = [upload EXCEPT ![u] = NoUpload]
        /\ UNCHANGED <<config, metadata, deletion, download, job, promised, gone>>
    BY <1>2 DEF RefuseFile, UploadFails
  <2>3. TypeOK'
    BY <2>1, <2>2 DEF TypeOK, Uploads, NoUpload
  <2>4. UploadsAlone'
    BY <2>1, <2>2 DEF TypeOK, Uploads, NoUpload, UploadsAlone
  <2>5. StoredComplete'
    BY <2>1, <2>2 DEF TypeOK, NoUpload, StoredComplete, Complete
  <2>6. DeletedInOrder'
    BY <2>1, <2>2 DEF TypeOK, DeletedInOrder
  <2>7. SeenThenFound'
    BY <2>1, <2>2 DEF SeenThenFound, Complete, Reads
  <2> QED
    BY <2>3, <2>4, <2>5, <2>6, <2>7
<1>3. CASE AddMetadata(u)
  <2>1. upload[u].id \in blobs \ gone
    BY <1>3 DEF AddMetadata, UploadsAlone
  <2>2. TypeOK'
    BY <1>3, <2>1 DEF AddMetadata, TypeOK, Uploads, record
  <2>3. UploadsAlone'
    BY <1>3 DEF AddMetadata, TypeOK, Uploads, UploadsAlone, record
  <2>4. StoredComplete'
    BY <1>3, <2>1 DEF AddMetadata, TypeOK, Uploads, StoredComplete, Complete, record
  <2>5. DeletedInOrder'
    BY <1>3, <2>1 DEF AddMetadata, DeletedInOrder, record
  <2>6. SeenThenFound'
    BY <1>3, <2>1 DEF AddMetadata, SeenThenFound, Complete, Reads, record
  <2> QED
    BY <2>2, <2>3, <2>4, <2>5, <2>6
<1>4. CASE AddMetadataFails(u)
  <2>1. upload[u].id \in blobs \ gone /\ metadata' \in {metadata, metadata \cup {upload[u].id}}
    BY <1>4 DEF AddMetadataFails, UploadsAlone
  <2>2. TypeOK'
    <3>1. upload' \in [Uploaders -> Uploads]
      BY <1>4 DEF AddMetadataFails, TypeOK, Uploads, NoUpload
    <3> QED
      BY <1>4, <2>1, <3>1, FaultCounted DEF AddMetadataFails, TypeOK, record
  <2>3. UploadsAlone'
    BY <1>4 DEF AddMetadataFails, TypeOK, Uploads, NoUpload, UploadsAlone, record
  <2>4. StoredComplete'
    BY <1>4 DEF AddMetadataFails, TypeOK, NoUpload, StoredComplete, Complete, record
  <2>5. DeletedInOrder'
    BY <1>4, <2>1 DEF AddMetadataFails, DeletedInOrder, record
  <2>6. SeenThenFound'
    BY <1>4, <2>1 DEF AddMetadataFails, SeenThenFound, Complete, Reads, record
  <2> QED
    BY <2>2, <2>3, <2>4, <2>5, <2>6
<1>5. CASE AnswerUpload(u)
  <2>1. TypeOK'
    BY <1>5 DEF AnswerUpload, TypeOK, Uploads, NoUpload, stores, StoredComplete, Complete
  <2>2. UploadsAlone'
    BY <1>5 DEF AnswerUpload, TypeOK, Uploads, NoUpload, UploadsAlone, stores
  <2>3. StoredComplete'
    BY <1>5 DEF AnswerUpload, TypeOK, NoUpload, StoredComplete, Complete, stores
  <2>4. DeletedInOrder'
    BY <1>5 DEF AnswerUpload, DeletedInOrder, stores
  <2>5. SeenThenFound'
    BY <1>5 DEF AnswerUpload, SeenThenFound, Complete, Reads, stores
  <2> QED
    BY <2>1, <2>2, <2>3, <2>4, <2>5
<1> QED
  BY <1>1, <1>2, <1>3, <1>4, <1>5 DEF Upload

-----------------------------------------------------------------------------
\* Deletions: the image is gone before anything of it is.
LEMMA DeleteInv ==
    ASSUME IndInv, NEW d \in Deleters, Delete(d)
    PROVE  IndInv'
<1> USE DEF IndInv
<1>1. CASE DeleteBlob(d) \/ DeleteBlobFails(d)
  <2>1. PICK i \in promised, what \in {"metadata", "error"} :
          /\ blobs' \in {blobs, blobs \ {i}}
          /\ what = "metadata" => blobs' = blobs \ {i}
          /\ gone' = gone \cup {i}
          /\ deletion' = [deletion EXCEPT ![d] = About(i, what)]
    BY <1>1 DEF DeleteBlob, DeleteBlobFails, Return
  <2>2. /\ UNCHANGED <<config, metadata, upload, download, job, unused, promised, left>>
        /\ faults' \in 0 .. MaxFaults
    BY <1>1, FaultCounted DEF DeleteBlob, DeleteBlobFails, TypeOK
  <2>3. i \in ImageIDs \ unused
    BY <2>1 DEF TypeOK
  <2>4. TypeOK'
    BY <2>1, <2>2, <2>3 DEF TypeOK, About, Results
  <2>5. UploadsAlone'
    BY <2>1, <2>2 DEF UploadsAlone
  <2>6. StoredComplete'
    BY <2>1, <2>2 DEF StoredComplete, Complete
  <2>7. DeletedInOrder'
    BY <2>1, <2>2 DEF TypeOK, DeletedInOrder, About, Kept
  <2>8. SeenThenFound'
    BY <2>1, <2>2 DEF SeenThenFound, Complete, Reads
  <2> QED
    BY <2>4, <2>5, <2>6, <2>7, <2>8
<1>2. CASE DeleteNothing(d)
  <2>1. PICK i \in promised :
          /\ config.blob # "s3"
          /\ deletion' = [deletion EXCEPT ![d] = About(i, "not found")]
    BY <1>2 DEF DeleteNothing, Return, BlobDeletable
  <2>2. UNCHANGED <<stores, upload, download, job, record, faults>>
    BY <1>2 DEF DeleteNothing
  <2>3. i \in ImageIDs
    BY <2>1 DEF TypeOK
  <2>4. TypeOK'
    BY <2>1, <2>2, <2>3 DEF TypeOK, About, Results, stores, record
  <2>5. DeletedInOrder'
    BY <2>1, <2>2 DEF TypeOK, DeletedInOrder, About, stores, record
  <2> QED
    BY <2>2, <2>4, <2>5 DEF UploadsAlone, StoredComplete, SeenThenFound, Complete, Reads,
                           stores, record
<1>3. CASE DeleteMetadata(d) \/ DeleteMetadataFails(d)
  <2> DEFINE i == deletion[d].id
  <2>1. i \in gone \ blobs
    BY <1>3 DEF DeleteMetadata, DeleteMetadataFails, DeletedInOrder
  <2>2. PICK what \in Results :
          /\ metadata' \in {metadata, metadata \ {i}}
          /\ what = "not found" => i \notin metadata'
          /\ deletion' = [deletion EXCEPT ![d] = About(i, what)]
    BY <1>3 DEF DeleteMetadata, DeleteMetadataFails, Return, Results
  <2>3. /\ UNCHANGED <<config, blobs, upload, download, job, unused, promised, gone, left>>
        /\ faults' \in 0 .. MaxFaults
    BY <1>3, FaultCounted DEF DeleteMetadata, DeleteMetadataFails, TypeOK, record
  <2>4. i \in ImageIDs
    BY <2>1 DEF TypeOK
  <2> HIDE DEF i
  <2>5. TypeOK'
    BY <2>2, <2>3, <2>4 DEF TypeOK, About
  <2>6. UploadsAlone'
    BY <2>3 DEF UploadsAlone
  <2>7. StoredComplete'
    BY <2>1, <2>2, <2>3 DEF StoredComplete, Complete
  <2>8. DeletedInOrder'
    BY <2>1, <2>2, <2>3 DEF TypeOK, DeletedInOrder, About, Kept, Results
  <2>9. SeenThenFound'
    BY <2>1, <2>2, <2>3 DEF SeenThenFound, Complete, Reads
  <2> QED
    BY <2>5, <2>6, <2>7, <2>8, <2>9
<1> QED
  BY <1>1, <1>2, <1>3 DEF Delete

-----------------------------------------------------------------------------
\* Downloads change nothing but what the reader knows.
LEMMA DownloadInv ==
    ASSUME IndInv, NEW r \in Readers, Download(r)
    PROVE  IndInv'
<1> USE DEF IndInv
<1>1. UNCHANGED <<config, blobs, metadata, upload, deletion, job, unused, promised, gone, left>>
  BY DEF Download, GetMetadataByID, DownloadImage, ReadData, DownloadFails, stores, record
<1>2. faults' \in 0 .. MaxFaults
  BY FaultCounted DEF Download, GetMetadataByID, DownloadImage, ReadData, DownloadFails, TypeOK
<1>3. \E i \in ImageIDs \cup {NoImage}, what \in {"blob", "data"} \cup Answers :
        /\ download' = [download EXCEPT ![r] = About(i, what)]
        /\ what \in {"blob", "data"} => i \in blobs \cup gone
        /\ what \in {"no blob", "empty", "broken off"} => i \in gone
  <2>1. CASE GetMetadataByID(r)
    <3>1. PICK i \in ImageIDs : download' = [download EXCEPT ![r] = About(i, Found(i))]
      BY <2>1 DEF GetMetadataByID, Answer
    <3>2. Found(i) \in {"blob", "no metadata", "internal error"}
      BY DEF Found, MissingMetadata
    <3>3. Found(i) = "blob" => i \in blobs \cup gone
      BY DEF Found, MissingMetadata, SeenThenFound
    <3> QED
      BY <3>1, <3>2, <3>3 DEF Answers
  <2>2. CASE DownloadImage(r)
    <3> DEFINE i == download[r].id
    <3>1. i \in blobs \cup gone /\ i \in ImageIDs \cup {NoImage}
      BY <2>2 DEF DownloadImage, SeenThenFound, Reads, TypeOK
    <3>2. download' = [download EXCEPT ![r] = About(i, Opened(i))]
      BY <2>2 DEF DownloadImage, Answer
    <3>3. /\ Opened(i) \in {"no blob", "data", "image"}
          /\ Opened(i) = "no blob" => i \in gone
      BY <3>1 DEF Opened
    <3> QED
      BY <3>1, <3>2, <3>3 DEF Answers
  <2>3. CASE ReadData(r)
    BY <2>3 DEF ReadData, Answer, Data, Answers, SeenThenFound, Reads, TypeOK
  <2>4. CASE DownloadFails(r)
    <3>1. \E what \in {"internal error", "truncated"} :
            download' = [download EXCEPT ![r] = About(NoImage, what)]
      BY <2>4 DEF DownloadFails, Answer
    <3> QED
      BY <3>1 DEF Answers
  <2> QED
    BY <2>1, <2>2, <2>3, <2>4 DEF Download
<1>4. PICK i \in ImageIDs \cup {NoImage}, what \in {"blob", "data"} \cup Answers :
        /\ download' = [download EXCEPT ![r] = About(i, what)]
        /\ what \in {"blob", "data"} => i \in blobs \cup gone
        /\ what \in {"no blob", "empty", "broken off"} => i \in gone
  BY <1>3
<1>5. TypeOK'
  BY <1>1, <1>2, <1>4 DEF TypeOK, About
<1>6. SeenThenFound'
  BY <1>1, <1>4 DEF TypeOK, SeenThenFound, Complete, Reads, About, Kept
<1> QED
  BY <1>1, <1>5, <1>6 DEF UploadsAlone, StoredComplete, DeletedInOrder, Complete

-----------------------------------------------------------------------------
\* Originals of jobs: as for a download, but of an image that was there once.
LEMMA OriginalInv ==
    ASSUME IndInv, NEW j \in JobIDs, UseOriginal(j)
    PROVE  IndInv'
<1> USE DEF IndInv
<1>1. /\ UNCHANGED <<config, blobs, metadata, upload, deletion, download, unused>>
      /\ UNCHANGED <<promised, gone, left>>
  BY DEF UseOriginal, CheckOriginal, CreateJob, FetchOriginal, FetchFails, stores, record
<1>2. faults' \in 0 .. MaxFaults
  BY FaultCounted DEF UseOriginal, CheckOriginal, CreateJob, FetchOriginal, FetchFails, TypeOK
<1>3. \E i \in ImageIDs \cup {NoImage}, what \in JobStages :
        /\ job' = [job EXCEPT ![j] = About(i, what)]
        /\ what \in {"checked", "pending", "blob", "data"} => i \in Complete
        /\ what = "failed" => i \in gone
  <2>1. CASE CheckOriginal(j)
    BY <2>1 DEF CheckOriginal, JobStages, SeenThenFound, Complete, TypeOK
  <2>2. CASE CreateJob(j)
    BY <2>2 DEF CreateJob, Goes, JobStages, SeenThenFound, TypeOK
  <2>3. CASE FetchOriginal(j)
    <3>1. job[j].id \in Complete /\ job[j].id \in ImageIDs \cup {NoImage}
      BY <2>3 DEF FetchOriginal, SeenThenFound, TypeOK
    <3>2. \E answer \in {"image", "no metadata", "no blob", "empty", "internal error", "blob", "data"} :
            /\ job' = [job EXCEPT ![j] = About(job[j].id, StageAfter(answer))]
            /\ answer \in {"no metadata", "no blob"} => job[j].id \in gone
      BY <2>3, <3>1
      DEF FetchOriginal, Goes, Found, MissingMetadata, Opened, Data, Complete
    <3>3. PICK answer \in {"image", "no metadata", "no blob", "empty", "internal error", "blob", "data"} :
            /\ job' = [job EXCEPT ![j] = About(job[j].id, StageAfter(answer))]
            /\ answer \in {"no metadata", "no blob"} => job[j].id \in gone
      BY <3>2
    <3>4. StageAfter(answer) \in JobStages
      BY DEF StageAfter, JobStages
    <3>5. StageAfter(answer) = "failed" => answer \in {"no metadata", "no blob"}
      BY DEF StageAfter, ErrorOf, J!isRetryableError
    <3> QED
      BY <3>1, <3>3, <3>4, <3>5
  <2>4. CASE FetchFails(j)
    BY <2>4 DEF FetchFails, Goes, JobStages, SeenThenFound, TypeOK
  <2> QED
    BY <2>1, <2>2, <2>3, <2>4 DEF UseOriginal
<1>4. PICK i \in ImageIDs \cup {NoImage}, what \in JobStages :
        /\ job' = [job EXCEPT ![j] = About(i, what)]
        /\ what \in {"checked", "pending", "blob", "data"} => i \in Complete
        /\ what = "failed" => i \in gone
  BY <1>3
<1>5. TypeOK'
  BY <1>1, <1>2, <1>4 DEF TypeOK, About
<1>6. SeenThenFound'
  BY <1>1, <1>4 DEF TypeOK, SeenThenFound, Complete, Reads, About, Kept
<1> QED
  BY <1>1, <1>5, <1>6 DEF UploadsAlone, StoredComplete, DeletedInOrder, Complete

-----------------------------------------------------------------------------
\* A restart forgets the callers; a store in memory makes every image gone.
LEMMA RestartInv == ASSUME IndInv, Restart PROVE IndInv'
<1> USE DEF IndInv
<1>1. /\ blobs' \in {{}, blobs} /\ metadata' \in {{}, metadata}
      /\ config' = config /\ unused' = unused /\ promised' = promised
      /\ faults' \in 0 .. MaxFaults
  BY FaultCounted DEF Restart
<1>2. /\ gone' \subseteq ImageIDs \ unused /\ gone \subseteq gone'
      /\ left' \subseteq ImageIDs \ unused
  <2>1. \A u \in Uploaders : upload[u].id # NoImage => upload[u].id \in blobs
    BY DEF TypeOK, Uploads, UploadsAlone
  <2>2. InFlight \subseteq ImageIDs \ unused
    BY <2>1 DEF InFlight, TypeOK
  <2> QED
    BY <2>2 DEF Restart, TypeOK
<1>3. \/ blobs' = blobs /\ metadata' = metadata
      \/ gone' = ImageIDs \ unused
  BY DEF Restart, Durable
<1>4. /\ upload' = [u \in Uploaders |-> NoUpload]
      /\ deletion' = [d \in Deleters |-> About(NoImage, "error")]
      /\ download' = [r \in Readers |-> About(NoImage, "internal error")]
  BY DEF Restart
<1>5. \A j \in JobIDs :
        /\ job'[j] \in [at : JobStages, id : ImageIDs \cup {NoImage}]
        /\ job'[j].at \in {"checked", "pending", "blob", "data"} => job'[j].id \in Complete
        /\ job'[j].at = "failed" => job'[j].id \in gone
  <2> SUFFICES ASSUME NEW j \in JobIDs
               PROVE  LET next == JobAfterRestart(j)
                      IN  /\ next \in [at : JobStages, id : ImageIDs \cup {NoImage}]
                          /\ next.at \in {"checked", "pending", "blob", "data"} => next.id \in Complete
                          /\ next.at = "failed" => next.id \in gone
    BY DEF Restart
  <2> QED
    BY DEF JobAfterRestart, About, Kept, JobStages, SeenThenFound, TypeOK
<1>6. Complete \subseteq Complete'
  BY <1>1, <1>2, <1>3 DEF Complete, TypeOK
<1>7. TypeOK'
  <2>1. job' \in [JobIDs -> [at : JobStages, id : ImageIDs \cup {NoImage}]]
    BY <1>5 DEF Restart
  <2>2. upload' \in [Uploaders -> Uploads]
    BY <1>4 DEF NoUpload, Uploads
  <2>3. /\ deletion' \in [Deleters -> [at : {"metadata"} \cup Results, id : ImageIDs \cup {NoImage}]]
        /\ download' \in [Readers -> [at : {"blob", "data"} \cup Answers, id : ImageIDs \cup {NoImage}]]
    BY <1>4 DEF About, Kept, Results, Answers
  <2> QED
    BY <1>1, <1>2, <2>1, <2>2, <2>3 DEF TypeOK
<1>8. UploadsAlone' /\ DeletedInOrder'
  BY <1>4 DEF UploadsAlone, DeletedInOrder, NoUpload, About
<1>9. StoredComplete'
  BY <1>1, <1>4, <1>6 DEF StoredComplete, NoUpload
<1>10. SeenThenFound'
  <2>1. (metadata \subseteq blobs \cup gone)'
    BY <1>1, <1>2, <1>3 DEF SeenThenFound, TypeOK
  <2>2. \A r \in Readers : download'[r].at = "internal error"
    BY <1>4 DEF About
  <2> QED
    BY <1>2, <1>5, <1>6, <2>1, <2>2 DEF SeenThenFound, Reads
<1> QED
  BY <1>7, <1>8, <1>9, <1>10

\* Every step keeps the invariant.
LEMMA Inductive == IndInv /\ [Next]_vars => IndInv'
<1> SUFFICES ASSUME IndInv, [Next]_vars PROVE IndInv'
  OBVIOUS
<1>1. CASE Next
  BY <1>1, UploadInv, DeleteInv, DownloadInv, OriginalInv, RestartInv DEF Next
<1>2. CASE UNCHANGED vars
  BY <1>2 DEF vars, stores, record, IndInv, TypeOK, UploadsAlone, StoredComplete, Complete,
              DeletedInOrder, SeenThenFound, Reads
<1> QED
  BY <1>1, <1>2

\* The invariant holds in every state of every behaviour.
LEMMA Invariance == Spec => []IndInv
  BY InitInv, Inductive, PTL DEF Spec

-----------------------------------------------------------------------------
(* Blobs that nobody can find.                                             *)

\* What is left without metadata is on the list of what uploads and restarts left,
\* and with metadata that last nobody was told the id of a blob on it, or will be.
LeftAlone ==
    /\ Strays \subseteq left
    /\ config.metadata = "postgres" =>
         /\ left \cap promised = {}
         /\ \A u \in Uploaders : upload[u].stored \cap left = {} /\ upload[u].id \notin left

\* An image that is on its way, and nobody's: where it goes, and who else has it.
LEMMA UploadLeft ==
    ASSUME IndInv, LeftAlone, NEW u \in Uploaders, Upload(u)
    PROVE  LeftAlone'
<1>1. config' = config /\ NoImage \notin ImageIDs
  BY ImageStoreAssumption
  DEF Upload, UploadBlob, RefuseFile, UploadFails, AddMetadata, AddMetadataFails, AnswerUpload, stores
<1>2. /\ blobs \subseteq ImageIDs /\ left \subseteq ImageIDs
      /\ upload \in [Uploaders -> Uploads]
  BY DEF IndInv, TypeOK
<1>3. \A i \in unused :
        /\ i \notin promised /\ i \notin left /\ i \notin blobs /\ i # NoImage
        /\ \A v \in Uploaders : i \notin upload[v].stored /\ i # upload[v].id
  <2>1. \A i \in unused : i \notin blobs \cup gone \cup left \cup promised /\ i # NoImage
    BY <1>1 DEF IndInv, TypeOK
  <2>2. \A v \in Uploaders :
          /\ upload[v].stored \subseteq blobs \cup gone
          /\ upload[v].id \in blobs \cup {NoImage}
    BY <1>2 DEF IndInv, StoredComplete, Complete, UploadsAlone, Uploads
  <2> QED
    BY <2>1, <2>2
<1>4. CASE UploadBlob(u)
  <2>1. PICK i \in unused :
          /\ blobs' = blobs \cup {i}
          /\ upload' = [upload EXCEPT ![u] =
               [at |-> "metadata", id |-> i, stored |-> upload[u].stored]]
    BY <1>4 DEF UploadBlob
  <2>2. upload[u].id = NoImage /\ UNCHANGED <<metadata, promised, left>>
    BY <1>2, <1>4 DEF UploadBlob, Uploads
  <2>3. InFlight \subseteq InFlight' /\ i \in InFlight'
    BY <1>2, <1>3, <2>1, <2>2 DEF InFlight
  <2>4. Strays' \subseteq Strays
    BY <2>1, <2>2, <2>3 DEF Strays
  <2> QED
    BY <1>1, <1>2, <1>3, <2>1, <2>2, <2>4 DEF LeftAlone
<1>5. CASE RefuseFile(u) \/ UploadFails(u)
  <2>1. PICK i \in unused :
          \/ blobs' = blobs /\ left' = left
          \/ blobs' = blobs \cup {i} /\ left' = left \cup {i}
    BY <1>5 DEF RefuseFile, UploadFails
  <2>2. /\ upload[u].id = NoImage /\ UNCHANGED <<metadata, promised>>
        /\ upload' = [upload EXCEPT ![u] = NoUpload]
    BY <1>2, <1>5 DEF RefuseFile, UploadFails, Uploads
  <2>3. InFlight' = InFlight
    BY <1>2, <2>2 DEF InFlight, NoUpload
  <2>4. Strays' \subseteq left'
    BY <2>1, <2>2, <2>3 DEF Strays, LeftAlone
  <2>5. NoImage \notin left'
    BY <1>1, <1>2, <1>3, <2>1
  <2> QED
    BY <1>1, <1>2, <1>3, <2>1, <2>2, <2>4, <2>5 DEF LeftAlone, NoUpload
<1>6. CASE AddMetadata(u)
  <2>1. /\ metadata' = metadata \cup {upload[u].id}
        /\ UNCHANGED <<blobs, promised, left>>
        /\ upload' = [upload EXCEPT ![u] =
             [at |-> "next", id |-> NoImage, stored |-> upload[u].stored \cup {upload[u].id}]]
    BY <1>6 DEF AddMetadata, record
  <2>2. InFlight \subseteq InFlight' \cup {upload[u].id}
    BY <1>2, <2>1 DEF InFlight
  <2>3. Strays' \subseteq Strays
    BY <2>1, <2>2 DEF Strays
  <2> QED
    BY <1>1, <1>2, <2>1, <2>3 DEF LeftAlone
<1>7. CASE AddMetadataFails(u)
  <2>1. /\ \/ metadata' = metadata \cup {upload[u].id} /\ left' = left
           \/ metadata' = metadata /\ left' = left \cup {upload[u].id}
        /\ UNCHANGED <<blobs, promised>>
        /\ upload' = [upload EXCEPT ![u] = NoUpload]
    BY <1>7 DEF AddMetadataFails
  <2>2. InFlight \subseteq InFlight' \cup {upload[u].id}
    BY <1>2, <2>1 DEF InFlight
  <2>3. Strays' \subseteq left'
    BY <2>1, <2>2 DEF Strays, LeftAlone
  <2>4. /\ upload[u].id \in ImageIDs /\ upload[u].id \notin promised
        /\ \A v \in Uploaders :
             /\ upload[u].id \notin upload[v].stored
             /\ v # u => upload[v].id # upload[u].id
    BY <1>1, <1>2, <1>7 DEF AddMetadataFails, IndInv, UploadsAlone, Uploads
  <2> QED
    BY <1>1, <1>2, <2>1, <2>3, <2>4 DEF LeftAlone, NoUpload
<1>8. CASE AnswerUpload(u)
  <2>1. /\ upload[u].id = NoImage /\ UNCHANGED <<blobs, metadata, left>>
        /\ promised' = promised \cup upload[u].stored
        /\ upload' = [upload EXCEPT ![u] = NoUpload]
    BY <1>2, <1>8 DEF AnswerUpload, Uploads, stores
  <2>2. InFlight' = InFlight
    BY <1>2, <2>1 DEF InFlight, NoUpload
  <2> QED
    BY <1>1, <1>2, <2>1, <2>2 DEF Strays, LeftAlone, NoUpload
<1> QED
  BY <1>4, <1>5, <1>6, <1>7, <1>8 DEF Upload

\* Whoever deletes, downloads or uses an original leaves nothing: a deletion that
\* removes metadata has removed the blob.
LEMMA OtherLeft ==
    ASSUME IndInv, LeftAlone,
           \/ \E d \in Deleters : Delete(d)
           \/ \E r \in Readers : Download(r)
           \/ \E j \in JobIDs : UseOriginal(j)
    PROVE  LeftAlone'
<1>1. UNCHANGED <<config, upload, promised, left>>
  BY DEF Delete, DeleteBlob, DeleteNothing, DeleteBlobFails, DeleteMetadata, DeleteMetadataFails,
         Download, GetMetadataByID, DownloadImage, ReadData, DownloadFails,
         UseOriginal, CheckOriginal, CreateJob, FetchOriginal, FetchFails, stores, record
<1>2. blobs' \subseteq blobs /\ metadata \cap blobs \subseteq metadata'
  <2>1. CASE \E d \in Deleters : Delete(d)
    BY <2>1 DEF Delete, DeleteBlob, DeleteNothing, DeleteBlobFails, DeleteMetadata,
                DeleteMetadataFails, IndInv, DeletedInOrder, stores
  <2>2. CASE \/ \E r \in Readers : Download(r)
             \/ \E j \in JobIDs : UseOriginal(j)
    BY <2>2 DEF Download, GetMetadataByID, DownloadImage, ReadData, DownloadFails,
                UseOriginal, CheckOriginal, CreateJob, FetchOriginal, FetchFails, stores
  <2> QED
    BY <2>1, <2>2
<1>3. Strays' \subseteq Strays
  BY <1>1, <1>2 DEF Strays, InFlight
<1> QED
  BY <1>1, <1>3 DEF LeftAlone

\* A restart leaves what is being uploaded, and what it takes the metadata of.
LEMMA RestartLeft ==
    ASSUME IndInv, LeftAlone, Restart
    PROVE  LeftAlone'
<1>1. /\ config' = config /\ promised' = promised
      /\ blobs' \subseteq blobs
      /\ upload' = [u \in Uploaders |-> NoUpload]
  BY DEF Restart
<1>2. Strays' \subseteq left'
  <2>1. metadata' = (IF config.metadata = "memory" THEN {} ELSE metadata)
    BY DEF Restart
  <2>2. left' = left \cup InFlight \cup (IF config.metadata = "memory" THEN metadata ELSE {})
    BY DEF Restart
  <2> QED
    BY <1>1, <2>1, <2>2 DEF Strays, LeftAlone
<1>3. ASSUME config.metadata = "postgres" PROVE left' \cap promised = {} /\ NoImage \notin left'
  <2>1. left' = left \cup InFlight
    BY <1>3 DEF Restart
  <2>2. InFlight \cap promised = {}
    BY DEF InFlight, IndInv, TypeOK, Uploads, UploadsAlone
  <2>3. NoImage \notin left \cup InFlight
    BY ImageStoreAssumption DEF InFlight, IndInv, TypeOK
  <2> QED
    BY <1>3, <2>1, <2>2, <2>3 DEF LeftAlone
<1> QED
  BY <1>1, <1>2, <1>3 DEF LeftAlone, NoUpload

\* So the list accounts for all of them.
LEMMA LeftInductive == IndInv /\ LeftAlone /\ [Next]_vars => LeftAlone'
<1> SUFFICES ASSUME IndInv, LeftAlone, [Next]_vars PROVE LeftAlone'
  OBVIOUS
<1>1. CASE UNCHANGED vars
  BY <1>1 DEF vars, stores, record, LeftAlone, Strays, InFlight
<1> QED
  BY <1>1, UploadLeft, OtherLeft, RestartLeft DEF Next

-----------------------------------------------------------------------------
\* The variables of ImageStore.tla always have the types written there.
THEOREM TypeCorrect == Spec => []TypeOK
<1>1. IndInv => TypeOK
  BY DEF IndInv
<1> QED
  BY <1>1, Invariance, PTL

\* Metadata without a blob are those of an image that was deleted or lost
\* (store.go:84-115).
THEOREM StoresAgree == Spec => []MetadataHasBlob
<1>1. IndInv => MetadataHasBlob
  BY DEF IndInv, SeenThenFound, StoredComplete, Complete, MetadataHasBlob
<1> QED
  BY <1>1, Invariance, PTL

\* What a client was promised is complete, unless it was deleted or lost.
THEOREM PromisesKept == Spec => []PromisedReadable
<1>1. IndInv => PromisedReadable
  BY DEF IndInv, SeenThenFound, StoredComplete, Complete, PromisedReadable
<1> QED
  BY <1>1, Invariance, PTL

\* A reader that found the metadata finds the blob and its bytes later, unless
\* the image is gone (handlers.go:86-169).
THEOREM FoundStaysFound == Spec => []FoundIsServed
<1>1. IndInv => FoundIsServed
  BY DEF IndInv, SeenThenFound, FoundIsServed
<1> QED
  BY <1>1, Invariance, PTL

\* So does a job, in each of its attempts (worker.go:149-180).
THEOREM OriginalsStay == Spec => []FailedForLoss
<1>1. IndInv => FailedForLoss
  BY DEF IndInv, SeenThenFound, FailedForLoss
<1> QED
  BY <1>1, Invariance, PTL

\* "Not found" from S3 is final (store.go:104-115).
THEOREM NotFoundIsFinal == Spec => []NotFoundIsGone
<1>1. IndInv => NotFoundIsGone
  BY DEF IndInv, DeletedInOrder, NotFoundIsGone
<1> QED
  BY <1>1, Invariance, PTL

\* A blob without metadata was left by an upload that an error, a late refusal or a
\* restart cut short, or by a restart that lost its metadata; a deletion leaves none,
\* and with metadata in PostgreSQL no client knows its id (store.go:84-115;
\* blob_s3.go:58-71; blob_disk.go:44-53).
THEOREM StraysAreExplained == Spec => []StraysExplained
<1>1. Init => LeftAlone
  BY ImageStoreAssumption DEF Init, LeftAlone, Strays, NoUpload
<1>2. IndInv /\ LeftAlone /\ [Next]_vars => LeftAlone'
  BY LeftInductive
<1>3. LeftAlone => StraysExplained
  BY DEF LeftAlone, StraysExplained
<1> QED
  BY <1>1, <1>2, <1>3, Invariance, PTL DEF Spec
=============================================================================
