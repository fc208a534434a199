------------------------------- MODULE LocalFiles -------------------------------
(***************************************************************************)
(* What the backend keeps in files of its own, beside its database: the    *)
(* local models it downloads (ModelDownloads), the jobs that prepare them  *)
(* (ModelJobs) and the artifacts that a restore of a backup replaces with  *)
(* the database (StateRestore).  They share no state in these models; in a *)
(* step, each of the three may move.                                       *)
(***************************************************************************)
CONSTANTS
  Downloads, Deletes, Installs, Revisions, RevisionOf, Resumes, Hashed, Size,
  MaxVersion,                                             \* of the downloads
  Creates, Retries, Cancels, JobOf, SpecOf, Starts, Patient,  \* of the jobs
  Requests, Outside, Restores, Selected, Archived, Stored, None,  \* of the restores
  MaxFaults, MaxCrashes                                   \* of these three

VARIABLES
  remote, registered, cancelled, fileLock, getting, todo, reply, transfer, target,
  disk, manifest, source, lost,
  loaded, status, jobTask, job, ending, hit, cut, snapshot, saved, writes, stale, store,
  unsaved,
  barrier, operations, owner, place, handle, strays, database, log, artifacts, captured,
  before, restored, mixed, broken, crashed

Files == INSTANCE ModelDownloads WITH
  lock <- fileLock, at <- getting, result <- reply, seen <- source, spent <- lost
Jobs == INSTANCE ModelJobs WITH
  task <- jobTask, at <- job, outcome <- ending, queue <- writes, file <- store,
  spent <- unsaved
Restoring == INSTANCE StateRestore WITH
  Unnamed <- None,
  active <- barrier, at <- place, pool <- handle, main <- database, wal <- log,
  snapshot <- captured, result <- restored, failed <- broken

ASSUME FileParameters == Files!Parameters
ASSUME JobParameters == Jobs!Parameters
ASSUME RestoreParameters == Restoring!Parameters

fileVars ==
  <<remote, registered, cancelled, fileLock, getting, todo, reply, transfer, target, disk,
    manifest, source, lost>>
jobVars ==
  <<loaded, status, jobTask, job, ending, hit, cut, snapshot, saved, writes, stale, store,
    unsaved>>
restoreVars ==
  <<barrier, operations, owner, place, handle, strays, database, log, artifacts, captured,
    before, restored, mixed, broken, crashed>>
keptVars == <<fileVars, jobVars, restoreVars>>

KeptInit == Files!Init /\ Jobs!Init /\ Restoring!Init

KeptNext ==
  /\ Files!Next \/ UNCHANGED fileVars
  /\ Jobs!Next \/ UNCHANGED jobVars
  /\ Restoring!Next \/ UNCHANGED restoreVars

KeptSpec == KeptInit /\ [][KeptNext]_keptVars

\* What is on disk of a local model is whole: the partial file is a beginning of the
\* revision its note names, what a manifest describes is a whole file, what rests is what
\* its source says, and a cancelled download keeps no byte; a job reads unfinished only
\* while it is worked on, by one task, and the file says of it what memory says; and a
\* restore has the files to itself, leaves the backup when it ends well and, when it
\* fails, all but the log and what its snapshot leaves out
\* (download_huggingface_model, docker_model_runner.py, restore_local_backup).
FilesAreKept ==
  /\ Files!PartIsABeginning /\ Files!DescribedIsWhole /\ Files!RestIsVerified
  /\ Files!CancelledIsQuiet
  /\ Jobs!FileAgrees /\ Jobs!OneTaskPerJob /\ Jobs!OneJobPerKind
  /\ Jobs!UnfinishedIsWorkedOn
  /\ Restoring!WindowIsExclusive /\ Restoring!RestoredIsArchive
  /\ Restoring!FailureLosesLittle
=============================================================================
