----------------------------- MODULE BackupJobs -----------------------------
(***************************************************************************)
(* Backups made by the server: the job registry of                         *)
(* crates/smcv-server/src/backup_jobs.rs and the publication of an archive *)
(* by create_backup_file (crates/smcv-app/src/backup.rs).                  *)
(*                                                                         *)
(* A job is a status file and an artifact in one directory, and a record   *)
(* in memory.  The registry's mutex makes each of its functions atomic to  *)
(* the other threads, but not to a crash or to an I/O error: an error      *)
(* between the writes of one function leaves what they had done, and a     *)
(* crash there leaves the same files, so an error followed by a crash      *)
(* stands for it.  One archive slot serves the worker of a new backup, the *)
(* digest of a download and a verification upload.                         *)
(*                                                                         *)
(* A record keeps the time left to its expiry; tick is the clock.  What is *)
(* in an archive is that of modules PortableVault and ArchiveFormat.       *)
(***************************************************************************)
EXTENDS Integers, FiniteSets

CONSTANTS
    Job,            \* job identifiers; one is new while nothing refers to it
    None,
    MAX_JOBS,
    JOB_TTL,        \* ticks that a terminal job is kept
    MaxMishaps      \* bound: I/O errors, crashes and damaged files

ASSUME JobsAssumption ==
    /\ None \notin Job
    /\ {MAX_JOBS, JOB_TTL} \subseteq Nat \ {0} /\ MaxMishaps \in Nat

VARIABLES
    status,         \* <job>.json
    artifact,       \* <job>.smcvault: what it holds, None when there is none
    partial,        \* jobs whose .smcvault-*.partial file exists
    scratch,        \* files of a verification: ".verify-", ".restore-drill-"
    audited,        \* jobs with a committed backup:create event
    running,        \* the server has opened its registry
    jobs,           \* the registry in memory
    slot,           \* who holds the archive slot
    task,           \* the request and then the worker that makes a backup
    download,       \* a download_backup request
    deletion,       \* a delete_backup request
    mishaps

files == <<status, artifact, partial, scratch>>
threads == <<task, download, deletion>>
vars == <<files, audited, running, jobs, slot, threads, mishaps>>

-----------------------------------------------------------------------------
JobState == {"pending", "running", "completed", "failed"}
Terminal == {"completed", "failed"}

\* What an archive file holds.  unsafe: its length, owner or mode is wrong.
Content == {"whole", "altered", "unsafe"}

BackupJobRecord ==
    [state : JobState, ttl : 0..JOB_TTL, sha256 : Content \union {None},
     download_started : BOOLEAN]

ASSUME AbsenceAssumption == None \notin Content \union BackupJobRecord

Idle == [pc |-> "idle", job |-> None, sha256 |-> None]
At(t, pc, j) == t.pc = pc /\ t.job = j

\* Nothing refers to the identifier: it stands for a new random UUID.
Unused(j) ==
    /\ status[j] = None /\ artifact[j] = None /\ jobs[j] = None
    /\ j \notin partial
    /\ \A t \in {task, download, deletion} : t.job # j

Present(table) == {j \in Job : table[j] # None}

\* A mishap happens, within the bound; "ok" costs nothing.
Spend(outcome) ==
    IF outcome = "ok" THEN UNCHANGED mishaps
    ELSE mishaps < MaxMishaps /\ mishaps' = mishaps + 1

-----------------------------------------------------------------------------
(* The registry.                                                           *)

\* How persist ends: done; failed with the old file in place; or failed when
\* it synced the directory, with the new file in place.
Persisted == {"ok", "before_rename", "after_rename"}

persist(j, record, outcome) ==
    /\ status' = IF outcome = "before_rename" THEN status
                 ELSE [status EXCEPT ![j] = record]
    /\ Spend(outcome)

\* (mutated: the map is changed before the record is written)
UpdateMemoryFirst(j, record, outcome) ==
    /\ jobs[j] # None
    /\ persist(j, record, outcome)
    /\ jobs' = [jobs EXCEPT ![j] = record]

\* update: the memory follows the disk, and keeps the old record on an error.
update(j, record, outcome) ==
    /\ jobs[j] # None
    /\ persist(j, record, outcome)
    /\ jobs' = IF outcome = "ok" THEN [jobs EXCEPT ![j] = record] ELSE jobs

Fails(record) == [record EXCEPT !.state = "failed", !.ttl = JOB_TTL]

Expired == {j \in Present(jobs) : jobs[j].state \in Terminal /\ jobs[j].ttl = 0}

\* cleanup_expired, as list_backups and backup_status call it.
cleanup_expired ==
    /\ artifact' = [j \in Job |-> IF j \in Expired THEN None ELSE artifact[j]]
    /\ status' = [j \in Job |-> IF j \in Expired THEN None ELSE status[j]]
    /\ jobs' = [j \in Job |-> IF j \in Expired THEN None ELSE jobs[j]]

\* cleanup_expired stopped by an error: some jobs are off the disk, one may
\* have lost its artifact only, and the memory still has them all.
cleanup_fails(gone, stripped) ==
    /\ running /\ gone \subseteq stripped /\ Cardinality(stripped \ gone) <= 1
    /\ artifact' = [j \in Job |-> IF j \in stripped THEN None ELSE artifact[j]]
    /\ status' = [j \in Job |-> IF j \in gone THEN None ELSE status[j]]
    /\ Spend("error")
    /\ UNCHANGED <<partial, scratch, audited, running, jobs, slot, threads>>

list_backups ==
    /\ running
    /\ cleanup_expired
    /\ UNCHANGED <<partial, scratch, audited, running, slot, threads, mishaps>>

\* backup_status answers from memory after the same cleanup.
backup_status(j) ==
    /\ jobs[j] # None
    /\ list_backups

-----------------------------------------------------------------------------
(* Opening the registry.                                                   *)

\* Terminal and past its expiry: load_statuses removes its files.
Stale(j) == status[j].state \in Terminal /\ status[j].ttl = 0

\* (mutated: a job interrupted by the restart keeps its state)
LoadedAsStored(j) ==
    IF status[j].state = "completed" /\ artifact[j] \in {None, "unsafe"}
    THEN Fails(status[j]) ELSE status[j]

\* What load_statuses makes of a record: an interrupted job has failed, and so
\* has a completed one whose artifact does not have the recorded metadata.
Loaded(j) ==
    IF \/ status[j].state \in {"pending", "running"}
       \/ status[j].state = "completed" /\ artifact[j] \in {None, "unsafe"}
    THEN Fails(status[j]) ELSE status[j]

\* The status files after load_statuses has come to the records of `read`.
StatusAfter(read) ==
    [j \in Job |-> IF j \notin read THEN status[j]
                   ELSE IF Stale(j) THEN None ELSE Loaded(j)]

ArtifactsAfter(read) ==
    [j \in Job |-> IF j \in read /\ (Stale(j) \/ Loaded(j).state = "failed") THEN None
                   ELSE artifact[j]]

\* open: every record is read, temporary files of the registry go, and so does
\* an artifact without a completed record.
open ==
    /\ ~running
    /\ LET read == Present(status)
           after == StatusAfter(read)
       IN /\ Cardinality(Present(after)) <= MAX_JOBS
          /\ status' = after
          /\ jobs' = after
          /\ artifact' = [j \in Job |->
                            IF after[j] # None /\ after[j].state = "completed"
                            THEN artifact[j] ELSE None]
    /\ scratch' = {}
    /\ running' = TRUE
    /\ UNCHANGED <<partial, audited, slot, threads, mishaps>>

\* open stops at the record that exceeds MAX_JOBS, whose conversion it has
\* already written; the directory lists its files in any order.
open_refused ==
    /\ ~running
    /\ \E read \in SUBSET Present(status) :
          /\ Cardinality({j \in read : ~Stale(j)}) = MAX_JOBS + 1
          /\ status' = StatusAfter(read)
          /\ artifact' = ArtifactsAfter(read)
    /\ scratch' \in {scratch, {}}
    /\ UNCHANGED <<partial, audited, running, jobs, slot, threads, mishaps>>

\* open stopped by an I/O error or a crash: at a record whose artifact may be
\* gone before the record is written, or later, among the artifacts that have no
\* completed record.
open_fails ==
    /\ ~running
    /\ Spend("error")
    /\ \E read \in SUBSET Present(status) : \E stripped \in SUBSET (Job \ read) :
          LET next == ArtifactsAfter(read \union (stripped \intersect Present(status)))
          IN /\ Cardinality({j \in read : ~Stale(j)}) <= MAX_JOBS
             /\ \/ Cardinality(stripped) <= 1 /\ stripped \subseteq Present(status)
                \/ read = Present(status)
             /\ status' = StatusAfter(read)
             /\ artifact' = [j \in Job |-> IF j \in stripped \ Present(status) THEN None
                                            ELSE next[j]]
    /\ scratch' \in {scratch, {}}
    /\ UNCHANGED <<partial, audited, running, jobs, slot, threads>>

-----------------------------------------------------------------------------
(* Making a backup.                                                        *)

New == [state |-> "pending", ttl |-> JOB_TTL, sha256 |-> None, download_started |-> FALSE]

\* create_backup up to the record in the registry.  The slot is taken first and
\* given back when create fails.
create_backup(j, outcome) ==
    /\ running /\ slot = None /\ Unused(j)
    /\ Cardinality(Present(jobs) \ Expired) < MAX_JOBS
    /\ artifact' = [k \in Job |-> IF k \in Expired THEN None ELSE artifact[k]]
    /\ status' = [k \in Job |-> IF k \in Expired THEN None
                                ELSE IF k = j /\ outcome # "before_rename" THEN New
                                ELSE status[k]]
    /\ jobs' = [k \in Job |-> IF k \in Expired THEN None
                              ELSE IF k = j /\ outcome = "ok" THEN New ELSE jobs[k]]
    /\ slot' = IF outcome = "ok" THEN "backup" ELSE None
    /\ task' = IF outcome = "ok" THEN [Idle EXCEPT !.pc = "start", !.job = j] ELSE Idle
    /\ audited' = audited \ {j}
    /\ Spend(outcome)
    /\ UNCHANGED <<partial, scratch, running, download, deletion>>

Goto(pc) == task' = [task EXCEPT !.pc = pc] /\ UNCHANGED slot
Done == task' = Idle /\ slot' = None

\* The request marks the job running and starts the worker.  When the record
\* cannot be written the request ends and the job stays as it is.
start(j, outcome) ==
    /\ At(task, "start", j)
    /\ update(j, [jobs[j] EXCEPT !.state = "running"], outcome)
    /\ IF outcome = "ok" THEN Goto("write") ELSE Done
    /\ UNCHANGED <<artifact, partial, scratch, audited, running, download, deletion>>

\* write_and_verify_backup, into the partial file.
write_and_verify_backup(j) ==
    /\ At(task, "write", j)
    /\ partial' = partial \union {j}
    /\ Goto("audit")
    /\ UNCHANGED <<status, artifact, scratch, audited, running, jobs, download, deletion, mishaps>>

\* (mutated: the archive is published before its event is committed)
PublishUnaudited(j) ==
    /\ At(task, "audit", j)
    /\ artifact' = [artifact EXCEPT ![j] = "whole"]
    /\ Goto("unlink")
    /\ UNCHANGED <<status, partial, scratch, audited, running, jobs, download, deletion, mishaps>>

append_audit(j) ==
    /\ At(task, "audit", j)
    /\ audited' = audited \union {j}
    /\ Goto("link")
    /\ UNCHANGED <<files, running, jobs, download, deletion, mishaps>>

\* hard_link gives the archive its final name.
hard_link(j) ==
    /\ At(task, "link", j)
    /\ artifact' = [artifact EXCEPT ![j] = "whole"]
    /\ Goto("unlink")
    /\ UNCHANGED <<status, partial, scratch, audited, running, jobs, download, deletion, mishaps>>

\* The partial name goes, the directory is synced and the cleanup disarmed.
unlink(j) ==
    /\ At(task, "unlink", j)
    /\ partial' = partial \ {j}
    /\ Goto("digest")
    /\ UNCHANGED <<status, artifact, scratch, audited, running, jobs, download, deletion, mishaps>>

\* A step of create_backup_file fails: it returns after its cleanup has tried to
\* remove both names of the archive, and has removed those of `removed`.
create_backup_file_fails(j, removed) ==
    /\ task.job = j /\ task.pc \in {"write", "audit", "link", "unlink"}
    /\ Spend("error")
    /\ partial' = IF "partial" \in removed THEN partial \ {j} ELSE partial \union {j}
    /\ artifact' = IF "final" \in removed THEN [artifact EXCEPT ![j] = None] ELSE artifact
    /\ Goto("discard")
    /\ UNCHANGED <<status, scratch, audited, running, jobs, download, deletion>>

\* The worker's open_and_digest_artifact takes the content that is there.
open_and_digest_artifact(j, outcome) ==
    /\ At(task, "digest", j)
    /\ task' = [task EXCEPT !.sha256 = artifact[j],
                            !.pc = IF outcome = "ok" /\ artifact[j] \notin {None, "unsafe"}
                                   THEN "complete" ELSE "discard"]
    /\ Spend(outcome)
    /\ UNCHANGED <<files, audited, running, jobs, slot, download, deletion>>

\* The worker publishes the result; when that fails it discards the artifact.
complete(j, outcome) ==
    /\ At(task, "complete", j)
    /\ update(j, [jobs[j] EXCEPT !.state = "completed", !.ttl = JOB_TTL,
                                 !.sha256 = task.sha256], outcome)
    /\ IF outcome = "ok" THEN Done ELSE Goto("discard")
    /\ UNCHANGED <<artifact, partial, scratch, audited, running, download, deletion>>

\* remove_if_exists, whose error the worker ignores.
discard(j, outcome) ==
    /\ At(task, "discard", j)
    /\ artifact' = IF outcome = "ok" THEN [artifact EXCEPT ![j] = None] ELSE artifact
    /\ Goto("fail")
    /\ Spend(outcome)
    /\ UNCHANGED <<status, partial, scratch, audited, running, jobs, download, deletion>>

\* (mutated: the failure is not recorded)
FailSilently(j, outcome) ==
    /\ At(task, "fail", j) /\ outcome = "ok"
    /\ Done
    /\ UNCHANGED <<files, audited, running, jobs, download, deletion, mishaps>>

\* The worker records the failure, and ignores an error of that too.
fail(j, outcome) ==
    /\ At(task, "fail", j)
    /\ update(j, Fails(jobs[j]), outcome)
    /\ Done
    /\ UNCHANGED <<artifact, partial, scratch, audited, running, download, deletion>>

worker(j) ==
    \/ write_and_verify_backup(j)
    \/ append_audit(j)
    \/ hard_link(j)
    \/ unlink(j)
    \/ \E removed \in SUBSET {"partial", "final"} : create_backup_file_fails(j, removed)
    \/ \E outcome \in {"ok", "error"} :
          open_and_digest_artifact(j, outcome) \/ discard(j, outcome)
    \/ \E outcome \in Persisted : complete(j, outcome) \/ fail(j, outcome)

-----------------------------------------------------------------------------
(* Downloading, deleting and verifying.                                    *)

\* download_backup up to the digest of the file, with the slot.
download_backup(j) ==
    /\ running /\ download = Idle /\ slot = None
    /\ j \in Present(jobs) \ Expired
    /\ jobs[j].state = "completed" /\ jobs[j].ttl > 0
    /\ cleanup_expired
    /\ download' = [pc |-> "digest", job |-> j, sha256 |-> jobs[j].sha256]
    /\ slot' = "download"
    /\ UNCHANGED <<partial, scratch, audited, running, task, deletion, mishaps>>

\* The file is opened and digested; the slot is given back with the result.
digest_download(j, outcome) ==
    /\ At(download, "digest", j)
    /\ download' = [download EXCEPT !.pc =
          IF outcome = "ok" /\ artifact[j] = download.sha256 THEN "record" ELSE "spoil"]
    /\ slot' = None
    /\ Spend(outcome)
    /\ UNCHANGED <<files, audited, running, jobs, task, deletion>>

Answer == download' = Idle
Missing(j) == jobs[j] = None /\ UNCHANGED <<status, jobs, mishaps>>

\* The stream starts once the record says so; a job deleted meanwhile has none.
record_download(j, outcome) ==
    /\ At(download, "record", j)
    /\ \/ update(j, [jobs[j] EXCEPT !.download_started = TRUE], outcome)
       \/ outcome = "ok" /\ Missing(j)
    /\ Answer
    /\ UNCHANGED <<artifact, partial, scratch, audited, running, slot, task, deletion>>

\* A file that is not the recorded one fails the job, and then goes.
spoil_download(j, outcome) ==
    /\ At(download, "spoil", j)
    /\ \/ /\ update(j, Fails(jobs[j]), outcome)
          /\ IF outcome = "ok" THEN download' = [download EXCEPT !.pc = "remove"] ELSE Answer
       \/ outcome = "ok" /\ Missing(j) /\ Answer
    /\ UNCHANGED <<artifact, partial, scratch, audited, running, slot, task, deletion>>

remove_spoiled(j, outcome) ==
    /\ At(download, "remove", j)
    /\ artifact' = IF outcome = "ok" THEN [artifact EXCEPT ![j] = None] ELSE artifact
    /\ Answer
    /\ Spend(outcome)
    /\ UNCHANGED <<status, partial, scratch, audited, running, jobs, slot, task, deletion>>

\* delete_backup looks at the job; remove takes the lock again.
delete_backup(j) ==
    /\ running /\ deletion = Idle
    /\ jobs[j] # None /\ jobs[j].state \in Terminal
    /\ deletion' = [Idle EXCEPT !.pc = "remove", !.job = j]
    /\ UNCHANGED <<files, audited, running, jobs, slot, task, download, mishaps>>

\* (mutated: remove forgets the job before its files are gone)
RemoveForgets(j, outcome) ==
    /\ At(deletion, "remove", j)
    /\ artifact' = IF outcome = "artifact" THEN artifact ELSE [artifact EXCEPT ![j] = None]
    /\ status' = IF outcome = "ok" THEN [status EXCEPT ![j] = None] ELSE status
    /\ jobs' = [jobs EXCEPT ![j] = None]
    /\ deletion' = Idle
    /\ Spend(outcome)
    /\ UNCHANGED <<partial, scratch, audited, running, slot, task, download>>

\* remove: the artifact, the status file and the record; it may fail at either
\* file and leaves the rest.
remove(j, outcome) ==
    /\ At(deletion, "remove", j)
    /\ artifact' = IF outcome = "artifact" THEN artifact ELSE [artifact EXCEPT ![j] = None]
    /\ status' = IF outcome = "ok" THEN [status EXCEPT ![j] = None] ELSE status
    /\ jobs' = IF outcome = "ok" THEN [jobs EXCEPT ![j] = None] ELSE jobs
    /\ deletion' = Idle
    /\ Spend(outcome)
    /\ UNCHANGED <<partial, scratch, audited, running, slot, task, download>>

\* verify_uploaded_backup takes the slot before it reads the upload.
verify_uploaded_backup ==
    /\ running /\ slot = None
    /\ slot' = "verify"
    /\ UNCHANGED <<files, audited, running, jobs, threads, mishaps>>

receive_verification_upload ==
    /\ slot = "verify" /\ scratch = {}
    /\ scratch' = {".verify-", ".restore-drill-"}
    /\ UNCHANGED <<status, artifact, partial, audited, running, jobs, slot, threads, mishaps>>

\* The upload or the drill ends, well or not, and its files go.
verify_and_restore_test ==
    /\ slot = "verify"
    /\ scratch' = {}
    /\ slot' = None
    /\ UNCHANGED <<status, artifact, partial, audited, running, jobs, threads, mishaps>>

-----------------------------------------------------------------------------
(* The environment.                                                        *)

Older(table) ==
    [j \in Job |-> IF table[j] # None /\ table[j].ttl > 0
                   THEN [table[j] EXCEPT !.ttl = @ - 1] ELSE table[j]]

tick ==
    /\ status' = Older(status)
    /\ jobs' = Older(jobs)
    /\ UNCHANGED <<artifact, partial, scratch, audited, running, slot, threads, mishaps>>

\* The process dies; a stop of the server looks the same.
crash ==
    /\ running /\ running' = FALSE
    /\ jobs' = [j \in Job |-> None]
    /\ slot' = None
    /\ task' = Idle /\ download' = Idle /\ deletion' = Idle
    /\ Spend("crash")
    /\ UNCHANGED <<files, audited>>

\* An archive is damaged on the disk.
damage(j, content) ==
    /\ artifact[j] = "whole" /\ content # "whole"
    /\ artifact' = [artifact EXCEPT ![j] = content]
    /\ Spend("damage")
    /\ UNCHANGED <<status, partial, scratch, audited, running, jobs, slot, threads>>

Init ==
    /\ status = [j \in Job |-> None] /\ jobs = [j \in Job |-> None]
    /\ artifact = [j \in Job |-> None]
    /\ partial = {} /\ scratch = {} /\ audited = {}
    /\ running = FALSE
    /\ slot = None
    /\ task = Idle /\ download = Idle /\ deletion = Idle
    /\ mishaps = 0

DownloadStep(j) ==
    \/ \E outcome \in {"ok", "error"} : digest_download(j, outcome) \/ remove_spoiled(j, outcome)
    \/ \E outcome \in Persisted : record_download(j, outcome) \/ spoil_download(j, outcome)

DeletionStep(j) == \E outcome \in {"ok", "artifact", "status"} : remove(j, outcome)

Request(j) ==
    \/ \E outcome \in Persisted : create_backup(j, outcome)
    \/ backup_status(j)
    \/ download_backup(j)
    \/ delete_backup(j)

Verification ==
    verify_uploaded_backup \/ receive_verification_upload \/ verify_and_restore_test

Next ==
    \/ open \/ open_refused \/ open_fails
    \/ list_backups
    \/ \E stripped \in SUBSET Expired : \E gone \in SUBSET stripped : cleanup_fails(gone, stripped)
    \/ \E j \in Job : Request(j) \/ worker(j) \/ DownloadStep(j) \/ DeletionStep(j)
    \/ \E j \in Job, outcome \in Persisted : start(j, outcome)
    \/ Verification
    \/ tick \/ crash
    \/ \E j \in Job, content \in Content : damage(j, content)

\* A thread goes on, a supervisor starts the server again, and the clock runs.
Fairness ==
    /\ WF_vars(open \/ open_refused)
    /\ WF_vars(tick)
    /\ \A j \in Job :
          /\ WF_vars(worker(j) \/ \E outcome \in Persisted : start(j, outcome))
          /\ WF_vars(DownloadStep(j))
          /\ WF_vars(DeletionStep(j))

Spec == Init /\ [][Next]_vars /\ Fairness

-----------------------------------------------------------------------------
\* create_backup_file commits its backup:create event before hard_link: an
\* archive that exists under its final name has its event in the audit log,
\* whichever step failed, raced or crashed, and however the server restarted.
PublishedIsAudited == \A j \in Job : artifact[j] # None => j \in audited

\* No archive is lost sight of: while the server runs, every artifact in the
\* directory belongs to a record of the registry, through which it is deleted
\* or expires, although each function removes files and records in steps that
\* may fail halfway.
ArtifactsAccounted ==
    running => \A j \in Job : artifact[j] # None => jobs[j] # None

Rank(state) == CASE state = "pending" -> 0 [] state = "running" -> 1 [] OTHER -> 2

\* What the server answers about a job survives a crash: the record in memory
\* is never ahead of the one on the disk.
AnswersAreDurable ==
    \A j \in Job :
       jobs[j] # None /\ jobs[j].ttl > 0
         => /\ status[j] # None
            /\ Rank(status[j].state) >= Rank(jobs[j].state)

InFlight(j) == task.job = j

\* A job that is being made reaches a terminal state, and does not stay
\* "running" after its worker is gone, unless another I/O error or a crash comes
\* in between.
JobsEnd ==
    \A j \in Job, m \in 0..MaxMishaps :
       (InFlight(j) /\ mishaps = m) ~>
          (mishaps # m \/ (jobs[j] # None /\ jobs[j].state \in Terminal))

\* A server that stopped can open its registry again, even after errors have
\* left more records on the disk than MAX_JOBS: the excess expires.
RegistryReopens == ~running ~> running
=============================================================================
