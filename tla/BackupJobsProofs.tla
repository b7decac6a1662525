--------------------------- MODULE BackupJobsProofs ---------------------------
(***************************************************************************)
(* The safety properties of BackupJobs for any number of jobs, any limits  *)
(* and any number of errors and crashes.                                   *)
(*                                                                         *)
(* No function of the registry is atomic on the disk, so the properties    *)
(* rest on who may touch a job: the worker owns a job that is not          *)
(* terminal, downloads and deletions one that is terminal or gone, and a   *)
(* new job gets an identifier that nobody refers to.                       *)
(***************************************************************************)
EXTENDS BackupJobs, TLAPS

\* The time each prover may take for a step.
USE ZenonT(60), SMTT(60)

Records == [Job -> BackupJobRecord \union {None}]
Steps ==
    {"idle", "start", "write", "audit", "link", "unlink", "digest", "complete", "discard",
     "fail", "record", "spoil", "remove"}
Handlers == [pc : Steps, job : Job \union {None}, sha256 : Content \union {None}]

JobsTyped ==
    /\ status \in Records /\ jobs \in Records
    /\ artifact \in [Job -> Content \union {None}]
    /\ task \in Handlers /\ download \in Handlers /\ deletion \in Handlers

\* The worker runs on a job of the registry that has not ended.
WorkerOwns ==
    task.pc # "idle" =>
       /\ running /\ task.job \in Job
       /\ jobs[task.job] # None /\ jobs[task.job].state \notin Terminal

\* A download and a deletion are about a job that has ended, or is gone.
EndedOrGone(t) ==
    t.pc # "idle" =>
       /\ running /\ t.job \in Job
       /\ jobs[t.job] # None => jobs[t.job].state \in Terminal

\* The registry of a server that does not run is empty.
MemoryGone == ~running => \A j \in Job : jobs[j] = None

LinkIsAudited == task.pc = "link" => task.job \in audited

Ownership == JobsTyped /\ WorkerOwns /\ EndedOrGone(download) /\ EndedOrGone(deletion)

IInv ==
    /\ Ownership /\ LinkIsAudited
    /\ PublishedIsAudited /\ ArtifactsAccounted /\ AnswersAreDurable

-----------------------------------------------------------------------------
\* IInv holds before the registry is opened for the first time.
LEMMA InitIInv == Init => IInv
  <1> SUFFICES ASSUME Init PROVE IInv
    OBVIOUS
  <1>1. Idle \in Handlers /\ Idle.pc = "idle"
    BY DEF Idle, Handlers, Steps
  <1>2. JobsTyped
    BY <1>1 DEF Init, JobsTyped, Records
  <1>3. QED
    BY <1>1, <1>2 DEF Init, IInv, Ownership, WorkerOwns, EndedOrGone,
       LinkIsAudited, PublishedIsAudited, ArtifactsAccounted, AnswersAreDurable

\* What a record becomes when a job fails.
LEMMA FailsTyped ==
  ASSUME NEW r \in BackupJobRecord
  PROVE  Fails(r) \in BackupJobRecord /\ Fails(r).state = "failed"
  <1>1. JOB_TTL \in 0..JOB_TTL /\ "failed" \in JobState
    BY JobsAssumption, SMTT(60) DEF JobState
  <1>2. QED BY <1>1 DEF Fails, BackupJobRecord

\* update: the record is written before the memory follows, so the memory stays
\* behind the disk, and no other job changes.
LEMMA UpdateStep ==
  ASSUME JobsTyped, AnswersAreDurable,
         NEW j \in Job, NEW r \in BackupJobRecord, NEW outcome \in Persisted,
         update(j, r, outcome),
         Rank(r.state) >= Rank(jobs[j].state)
  PROVE  /\ status' \in Records /\ jobs' \in Records
         /\ AnswersAreDurable'
         /\ \A k \in Job \ {j} : jobs'[k] = jobs[k]
         /\ jobs'[j] \in {r, jobs[j]} /\ jobs'[j] # None
         /\ outcome = "ok" => jobs'[j] = r
         /\ outcome # "ok" => jobs' = jobs
  <1>1. jobs[j] # None /\ status \in Records /\ jobs \in Records
    BY DEF update, JobsTyped
  <1>2. r # None
    BY AbsenceAssumption
  <1>3. /\ status' \in Records
        /\ status'[j] \in {status[j], r}
        /\ outcome = "before_rename" => status' = status
        /\ outcome # "before_rename" => status'[j] = r
        /\ \A k \in Job \ {j} : status'[k] = status[k]
    BY <1>1 DEF update, persist, Records
  <1>4. /\ jobs' \in Records
        /\ \A k \in Job \ {j} : jobs'[k] = jobs[k]
        /\ jobs'[j] \in {r, jobs[j]} /\ jobs'[j] # None
        /\ outcome = "ok" => jobs'[j] = r
        /\ outcome # "ok" => jobs' = jobs
    BY <1>1, <1>2 DEF update, Records
  <1>5. ASSUME NEW k \in Job, jobs'[k] # None /\ jobs'[k].ttl > 0
        PROVE  status'[k] # None /\ Rank(status'[k].state) >= Rank(jobs'[k].state)
    <2>1. CASE k # j
      BY <2>1, <1>3, <1>4, <1>5 DEF AnswersAreDurable
    <2>2. CASE k = j /\ outcome = "before_rename"
      BY <2>2, <1>3, <1>4, <1>5 DEF AnswersAreDurable
    <2>3. CASE k = j /\ outcome # "before_rename"
      <3>1. Rank(r.state) >= Rank(r.state)
        BY SMTT(60) DEF Rank
      <3>2. QED BY <3>1, <2>3, <1>2, <1>3, <1>4
    <2>4. QED BY <2>1, <2>2, <2>3
  <1>6. QED BY <1>3, <1>4, <1>5 DEF AnswersAreDurable

\* A step of the worker that changes no record: it works on the files of its job,
\* and gives the archive its name only after the event is committed.
LEMMA QuietWorker ==
  ASSUME IInv,
         UNCHANGED <<status, running, jobs, download, deletion>>,
         task.pc # "idle", task' \in Handlers, task'.job = task.job,
         artifact' \in [Job -> Content \union {None}],
         audited \subseteq audited',
         \A k \in Job : artifact'[k] # None =>
            artifact[k] # None \/ (k = task.job /\ k \in audited'),
         task'.pc = "link" => task.job \in audited'
  PROVE  IInv'
  <1>1. Ownership'
    BY DEF IInv, Ownership, JobsTyped, WorkerOwns, EndedOrGone
  <1>2. AnswersAreDurable'
    BY DEF IInv, AnswersAreDurable
  <1>3. PublishedIsAudited' /\ ArtifactsAccounted'
    BY DEF IInv, Ownership, WorkerOwns, PublishedIsAudited, ArtifactsAccounted
  <1>4. LinkIsAudited'
    BY DEF LinkIsAudited
  <1>5. QED BY <1>1, <1>2, <1>3, <1>4 DEF IInv

\* create_backup_file, its failure, and the digest and removal of the artifact.
LEMMA WorkerFiles ==
  ASSUME IInv, NEW j \in Job,
         \/ write_and_verify_backup(j) \/ append_audit(j) \/ hard_link(j) \/ unlink(j)
         \/ \E removed \in SUBSET {"partial", "final"} : create_backup_file_fails(j, removed)
         \/ \E outcome \in {"ok", "error"} :
               open_and_digest_artifact(j, outcome) \/ discard(j, outcome)
  PROVE  IInv'
  <1> USE DEF At, Goto
  <1>0. task \in Handlers /\ artifact \in [Job -> Content \union {None}] /\ LinkIsAudited
    BY DEF IInv, Ownership, JobsTyped
  <1>1. ASSUME NEW pc \in Steps, task' = [task EXCEPT !.pc = pc]
        PROVE  task' \in Handlers /\ task'.job = task.job /\ task'.pc = pc
    BY <1>0, <1>1 DEF Handlers
  <1>2. CASE write_and_verify_backup(j)
    BY <1>0, <1>1, <1>2, QuietWorker DEF write_and_verify_backup, Steps
  <1>3. CASE append_audit(j)
    BY <1>0, <1>1, <1>3, QuietWorker DEF append_audit, Steps, files
  <1>4. CASE hard_link(j)
    BY <1>0, <1>1, <1>4, QuietWorker DEF hard_link, Steps, Content, LinkIsAudited
  <1>5. CASE unlink(j)
    BY <1>0, <1>1, <1>5, QuietWorker DEF unlink, Steps
  <1>6. ASSUME NEW removed \in SUBSET {"partial", "final"}, create_backup_file_fails(j, removed)
        PROVE  IInv'
    BY <1>0, <1>1, <1>6, QuietWorker DEF create_backup_file_fails, Steps
  <1>7. ASSUME NEW outcome \in {"ok", "error"}, open_and_digest_artifact(j, outcome)
        PROVE  IInv'
    <2>1. /\ task' \in Handlers /\ task'.job = task.job
          /\ task.pc = "digest" /\ task'.pc # "link"
      BY <1>0, <1>7 DEF open_and_digest_artifact, Handlers, Steps
    <2>2. QED BY <2>1, <1>0, <1>7, QuietWorker DEF open_and_digest_artifact, files
  <1>8. ASSUME NEW outcome \in {"ok", "error"}, discard(j, outcome)
        PROVE  IInv'
    BY <1>0, <1>1, <1>8, QuietWorker DEF discard, Steps
  <1>9. QED BY <1>2, <1>3, <1>4, <1>5, <1>6, <1>7, <1>8

\* A step that publishes nothing, and forgets no job whose artifact it leaves.
LEMMA PublishesNothing ==
  ASSUME IInv, Ownership', AnswersAreDurable', audited' = audited,
         \A k \in Job : artifact'[k] # None =>
            artifact[k] # None /\ (running' => jobs'[k] # None),
         task'.pc = "link" => task' = task
  PROVE  IInv'
  <1>1. PublishedIsAudited' /\ ArtifactsAccounted'
    BY DEF IInv, PublishedIsAudited, ArtifactsAccounted
  <1>2. LinkIsAudited'
    BY DEF IInv, LinkIsAudited
  <1>3. QED BY <1>1, <1>2 DEF IInv

\* While the server runs, leaving files and records alone leaves them accounted.
LEMMA AccountsKept ==
  ASSUME IInv, running' = running, UNCHANGED artifact,
         \A k \in Job : jobs[k] # None => jobs'[k] # None
  PROVE  \A k \in Job : artifact'[k] # None =>
            artifact[k] # None /\ (running' => jobs'[k] # None)
  BY DEF IInv, ArtifactsAccounted

\* The worker and its request record the state of the job: start, complete, fail.
LEMMA WorkerRecords ==
  ASSUME IInv, NEW j \in Job, NEW outcome \in Persisted,
         start(j, outcome) \/ complete(j, outcome) \/ fail(j, outcome)
  PROVE  IInv'
  <1>0. /\ JobsTyped /\ WorkerOwns /\ EndedOrGone(download) /\ EndedOrGone(deletion)
        /\ AnswersAreDurable
    BY DEF IInv, Ownership
  <1>1. /\ task.pc # "idle" /\ task.job = j
        /\ UNCHANGED <<artifact, audited, running, download, deletion>>
    BY DEF start, complete, fail, At
  <1>2. running /\ jobs[j] \in BackupJobRecord /\ jobs[j].state \in {"pending", "running"}
    BY <1>0, <1>1 DEF WorkerOwns, JobsTyped, Records, BackupJobRecord, JobState, Terminal
  <1>3. PICK r \in BackupJobRecord :
          /\ update(j, r, outcome)
          /\ r.state \in {"running", "completed", "failed"}
          /\ \/ r.state = "running" /\ task' \in Handlers /\ task'.pc \in {"write", "idle"}
                /\ task'.job \in {j, None} /\ (task'.pc = "write" => task'.job = j)
             \/ task' = Idle
             \/ /\ task' \in Handlers /\ task'.pc = "discard" /\ task'.job = j
                /\ outcome # "ok"
    <2>0. task \in Handlers
      BY <1>0 DEF JobsTyped
    <2>1. CASE start(j, outcome)
      <3>1. [jobs[j] EXCEPT !.state = "running"] \in BackupJobRecord
            /\ [jobs[j] EXCEPT !.state = "running"].state = "running"
        BY <1>2 DEF BackupJobRecord, JobState
      <3>2. \/ task' = [task EXCEPT !.pc = "write"] \/ task' = Idle
        BY <2>1 DEF start, Goto, Done
      <3>3. task' \in Handlers /\ task'.pc \in {"write", "idle"} /\ task'.job \in {j, None}
            /\ (task'.pc = "write" => task'.job = j)
        BY <3>2, <2>0, <1>1, SMTT(60) DEF Handlers, Steps, Idle
      <3>4. QED BY <3>1, <3>3, <2>1 DEF start
    <2>2. CASE complete(j, outcome)
      <3> DEFINE r == [jobs[j] EXCEPT !.state = "completed", !.ttl = JOB_TTL,
                                      !.sha256 = task.sha256]
      <3>1. r \in BackupJobRecord /\ r.state = "completed"
        <4>1. JOB_TTL \in 0..JOB_TTL /\ "completed" \in JobState
          BY JobsAssumption, SMTT(60) DEF JobState
        <4>2. task.sha256 \in Content \union {None}
          BY <2>0 DEF Handlers
        <4>3. QED BY <4>1, <4>2, <1>2 DEF BackupJobRecord
      <3>2. \/ task' = Idle
            \/ task' = [task EXCEPT !.pc = "discard"] /\ outcome # "ok"
        BY <2>2 DEF complete, Goto, Done
      <3>3. \/ task' = Idle
            \/ /\ task' \in Handlers /\ task'.pc = "discard" /\ task'.job = j
               /\ outcome # "ok"
        BY <3>2, <2>0, <1>1 DEF Handlers, Steps
      <3>4. update(j, r, outcome)
        BY <2>2 DEF complete
      <3> HIDE DEF r
      <3>5. QED BY <3>1, <3>3, <3>4
    <2>3. CASE fail(j, outcome)
      BY <2>3, <1>2, FailsTyped DEF fail, Done
    <2>4. QED BY <2>1, <2>2, <2>3
  <1>4. Rank(r.state) >= Rank(jobs[j].state)
    BY <1>2, <1>3, SMTT(60) DEF Rank
  <1>5. /\ status' \in Records /\ jobs' \in Records
        /\ AnswersAreDurable'
        /\ \A k \in Job \ {j} : jobs'[k] = jobs[k]
        /\ jobs'[j] \in {r, jobs[j]} /\ jobs'[j] # None
        /\ outcome # "ok" => jobs' = jobs
    BY <1>0, <1>3, <1>4, UpdateStep, SMTT(60)
  <1>6. Idle \in Handlers /\ Idle.pc = "idle"
    BY DEF Idle, Handlers, Steps
  <1>7. JobsTyped'
    BY <1>0, <1>1, <1>3, <1>5, <1>6 DEF JobsTyped
  <1>8. WorkerOwns'
    BY <1>1, <1>2, <1>3, <1>5, <1>6 DEF WorkerOwns, Terminal
  <1>9. EndedOrGone(download)' /\ EndedOrGone(deletion)'
    <2>1. \A t \in {download, deletion} : t.pc # "idle" => t.job \in Job \ {j}
      BY <1>0, <1>2, AbsenceAssumption DEF EndedOrGone, Terminal
    <2>2. QED BY <2>1, <1>0, <1>1, <1>5 DEF EndedOrGone
  <1>10. task'.pc # "link"
    BY <1>3, <1>6
  <1>11. QED
    BY <1>1, <1>5, <1>7, <1>8, <1>9, <1>10, AccountsKept, PublishesNothing DEF Ownership

\* A request that moves on without changing a record: the worker is not touched.
LEMMA QuietRequest ==
  ASSUME IInv, UNCHANGED <<status, running, jobs, task, audited>>,
         download' \in Handlers, deletion' \in Handlers,
         download'.pc # "idle" => EndedOrGone(download)',
         deletion'.pc # "idle" => EndedOrGone(deletion)',
         artifact' \in [Job -> Content \union {None}],
         \A k \in Job : artifact'[k] # None => artifact[k] # None
  PROVE  IInv'
  <1>1. Ownership'
    BY DEF IInv, Ownership, JobsTyped, WorkerOwns, EndedOrGone
  <1>2. AnswersAreDurable'
    BY DEF IInv, AnswersAreDurable
  <1>3. \A k \in Job : artifact'[k] # None =>
            artifact[k] # None /\ (running' => jobs'[k] # None)
    BY DEF IInv, ArtifactsAccounted
  <1>4. QED BY <1>1, <1>2, <1>3, PublishesNothing

\* The steps of a download: it records its start, or fails a job whose file is not
\* the recorded one, and finds nothing when the job was deleted meanwhile.
LEMMA DownloadSteps ==
  ASSUME IInv, NEW j \in Job, DownloadStep(j)
  PROVE  IInv'
  <1>0. /\ JobsTyped /\ WorkerOwns /\ EndedOrGone(download) /\ EndedOrGone(deletion)
        /\ AnswersAreDurable
    BY DEF IInv, Ownership
  <1>1. /\ download.pc # "idle" /\ download.job = j /\ running
        /\ UNCHANGED <<audited, running, task, deletion>>
    BY <1>0 DEF DownloadStep, digest_download, remove_spoiled, record_download, spoil_download,
       At, EndedOrGone, files
  <1>2. ASSUME NEW pc \in Steps, download' = [download EXCEPT !.pc = pc]
        PROVE  download' \in Handlers /\ download'.job = j
    BY <1>0, <1>1, <1>2 DEF JobsTyped, Handlers
  <1>3. Idle \in Handlers /\ Idle.pc = "idle"
    BY DEF Idle, Handlers, Steps
  <1>4. ASSUME NEW outcome \in {"ok", "error"}, digest_download(j, outcome)
        PROVE  IInv'
    <2>1. UNCHANGED <<status, jobs, artifact>>
      BY <1>4 DEF digest_download, files
    <2>2. download' \in Handlers /\ download'.job = j
      BY <1>2, <1>4 DEF digest_download, Steps
    <2>3. EndedOrGone(download)' /\ EndedOrGone(deletion)'
      BY <2>1, <2>2, <1>0, <1>1 DEF EndedOrGone
    <2>4. QED BY <2>1, <2>2, <2>3, <1>0, <1>1, QuietRequest DEF JobsTyped
  <1>5. ASSUME NEW outcome \in {"ok", "error"}, remove_spoiled(j, outcome)
        PROVE  IInv'
    <2>1. UNCHANGED <<status, jobs>> /\ download' = Idle
      BY <1>5 DEF remove_spoiled, Answer
    <2>2. EndedOrGone(deletion)'
      BY <2>1, <1>0, <1>1 DEF EndedOrGone
    <2>3. /\ artifact' \in [Job -> Content \union {None}]
          /\ \A k \in Job : artifact'[k] # None => artifact[k] # None
      BY <1>0, <1>5 DEF remove_spoiled, JobsTyped
    <2>4. QED BY <2>1, <2>2, <2>3, <1>0, <1>1, <1>3, QuietRequest DEF JobsTyped
  <1>6. ASSUME NEW outcome \in Persisted,
               record_download(j, outcome) \/ spoil_download(j, outcome)
        PROVE  IInv'
    <2>1. /\ UNCHANGED artifact /\ download' \in Handlers
          /\ download'.pc # "idle" => download'.job = j
      <3>1. UNCHANGED artifact
        BY <1>6 DEF record_download, spoil_download
      <3>2. download' = Idle \/ download' = [download EXCEPT !.pc = "remove"]
        BY <1>6 DEF record_download, spoil_download, Answer
      <3>3. QED BY <3>1, <3>2, <1>2, <1>3 DEF Steps
    <2>2. CASE Missing(j)
      <3>1. EndedOrGone(download)' /\ EndedOrGone(deletion)'
        BY <2>1, <2>2, <1>0, <1>1 DEF EndedOrGone, Missing
      <3>2. QED BY <3>1, <2>1, <2>2, <1>0, <1>1, QuietRequest DEF Missing, JobsTyped
    <2>3. CASE ~Missing(j)
      <3>1. jobs[j] # None
        BY <1>6, <2>3 DEF record_download, spoil_download, update
      <3>2. jobs[j] \in BackupJobRecord /\ jobs[j].state \in Terminal
        BY <3>1, <1>0, <1>1 DEF EndedOrGone, JobsTyped, Records
      <3>3. PICK r \in BackupJobRecord : update(j, r, outcome) /\ r.state \in Terminal
        <4>1. CASE record_download(j, outcome)
          <5>1. [jobs[j] EXCEPT !.download_started = TRUE] \in BackupJobRecord
                /\ [jobs[j] EXCEPT !.download_started = TRUE].state \in Terminal
            BY <3>2 DEF BackupJobRecord
          <5>2. QED BY <4>1, <5>1, <2>3 DEF record_download
        <4>2. CASE spoil_download(j, outcome)
          BY <4>2, <2>3, <3>2, FailsTyped DEF spoil_download, Terminal
        <4>3. QED BY <1>6, <4>1, <4>2
      <3>4. Rank(r.state) >= Rank(jobs[j].state)
        BY <3>2, <3>3, SMTT(60) DEF Rank, Terminal
      <3>5. /\ status' \in Records /\ jobs' \in Records /\ AnswersAreDurable'
            /\ \A k \in Job \ {j} : jobs'[k] = jobs[k]
            /\ jobs'[j] \in {r, jobs[j]} /\ jobs'[j] # None
        BY <1>0, <3>3, <3>4, UpdateStep
      <3>6. JobsTyped'
        BY <1>0, <1>1, <2>1, <3>5 DEF JobsTyped
      <3>7. WorkerOwns'
        BY <1>0, <1>1, <3>2, <3>5 DEF WorkerOwns
      <3>8. EndedOrGone(download)' /\ EndedOrGone(deletion)'
        BY <1>0, <1>1, <2>1, <3>2, <3>3, <3>5 DEF EndedOrGone
      <3>9. QED
        BY <1>1, <2>1, <3>1, <3>5, <3>6, <3>7, <3>8, AccountsKept, PublishesNothing
           DEF Ownership
    <2>4. QED BY <2>2, <2>3
  <1>7. QED BY <1>4, <1>5, <1>6 DEF DownloadStep

\* delete_backup and remove: the record goes last.
LEMMA DeletionSteps ==
  ASSUME IInv, NEW j \in Job, delete_backup(j) \/ DeletionStep(j)
  PROVE  IInv'
  <1>0. /\ JobsTyped /\ WorkerOwns /\ EndedOrGone(download) /\ EndedOrGone(deletion)
        /\ AnswersAreDurable /\ ArtifactsAccounted
    BY DEF IInv, Ownership
  <1>1. CASE delete_backup(j)
    <2>1. /\ UNCHANGED <<status, artifact, audited, running, jobs, task, download>>
          /\ running /\ jobs[j].state \in Terminal
          /\ deletion' = [Idle EXCEPT !.pc = "remove", !.job = j]
      BY <1>1 DEF delete_backup, files
    <2>2. deletion' \in Handlers /\ deletion'.job = j
      BY <2>1 DEF Idle, Handlers, Steps
    <2>3. EndedOrGone(download)' /\ EndedOrGone(deletion)'
      BY <1>0, <2>1, <2>2 DEF EndedOrGone
    <2>4. QED BY <1>0, <2>1, <2>2, <2>3, QuietRequest DEF JobsTyped
  <1>2. ASSUME NEW outcome \in {"ok", "artifact", "status"}, remove(j, outcome)
        PROVE  IInv'
    <2>1. /\ deletion.pc # "idle" /\ deletion.job = j /\ running
          /\ UNCHANGED <<audited, running, task, download>> /\ deletion' = Idle
      BY <1>0, <1>2 DEF remove, At, EndedOrGone
    <2>2. Idle \in Handlers /\ Idle.pc = "idle"
      BY DEF Idle, Handlers, Steps
    <2>3. /\ artifact' \in [Job -> Content \union {None}]
          /\ \A k \in Job : artifact'[k] # None => artifact[k] # None
      BY <1>0, <1>2 DEF remove, JobsTyped
    <2>4. CASE outcome # "ok"
      <3>1. UNCHANGED <<status, jobs>>
        BY <1>2, <2>4 DEF remove
      <3>2. EndedOrGone(download)'
        BY <1>0, <2>1, <3>1 DEF EndedOrGone
      <3>3. QED BY <1>0, <2>1, <2>2, <2>3, <3>1, <3>2, QuietRequest DEF JobsTyped
    <2>5. CASE outcome = "ok"
      <3>1. /\ status' \in Records /\ jobs' \in Records
            /\ status'[j] = None /\ jobs'[j] = None /\ artifact'[j] = None
            /\ \A k \in Job \ {j} : status'[k] = status[k] /\ jobs'[k] = jobs[k]
        BY <1>0, <1>2, <2>5 DEF remove, JobsTyped, Records
      <3>2. JobsTyped'
        BY <1>0, <2>1, <2>2, <2>3, <3>1 DEF JobsTyped
      <3>3. WorkerOwns'
        BY <1>0, <2>1, <3>1 DEF WorkerOwns, EndedOrGone
      <3>4. EndedOrGone(download)' /\ EndedOrGone(deletion)'
        BY <1>0, <2>1, <2>2, <3>1 DEF EndedOrGone
      <3>5. AnswersAreDurable'
        BY <1>0, <3>1 DEF AnswersAreDurable
      <3>6. \A k \in Job : artifact'[k] # None =>
               artifact[k] # None /\ (running' => jobs'[k] # None)
        BY <1>0, <2>1, <2>3, <3>1 DEF ArtifactsAccounted
      <3>7. QED BY <2>1, <3>2, <3>3, <3>4, <3>5, <3>6, PublishesNothing DEF Ownership
    <2>6. QED BY <2>4, <2>5
  <1>3. QED BY <1>1, <1>2 DEF DeletionStep

\* cleanup_expired takes the files and the record of jobs that have ended.
LEMMA CleanupStep ==
  ASSUME IInv, cleanup_expired,
         UNCHANGED <<audited, running, task, deletion>>,
         \/ download' = download
         \/ /\ running /\ download' \in Handlers /\ download'.job \in Job
            /\ jobs[download'.job].state \in Terminal
  PROVE  IInv'
  <1>0. /\ JobsTyped /\ WorkerOwns /\ EndedOrGone(download) /\ EndedOrGone(deletion)
        /\ AnswersAreDurable /\ ArtifactsAccounted
    BY DEF IInv, Ownership
  <1>1. /\ status' \in Records /\ jobs' \in Records
        /\ artifact' \in [Job -> Content \union {None}]
        /\ \A k \in Job : \/ status'[k] = None /\ jobs'[k] = None /\ artifact'[k] = None
                              /\ jobs[k] # None /\ jobs[k].state \in Terminal
                          \/ status'[k] = status[k] /\ jobs'[k] = jobs[k]
                              /\ artifact'[k] = artifact[k]
    BY <1>0 DEF cleanup_expired, Expired, Present, JobsTyped, Records
  <1>2. JobsTyped'
    BY <1>0, <1>1 DEF JobsTyped
  <1>3. WorkerOwns'
    BY <1>0, <1>1 DEF WorkerOwns
  <1>4. EndedOrGone(download)' /\ EndedOrGone(deletion)'
    BY <1>0, <1>1 DEF EndedOrGone
  <1>5. AnswersAreDurable'
    BY <1>0, <1>1 DEF AnswersAreDurable
  <1>6. \A k \in Job : artifact'[k] # None =>
           artifact[k] # None /\ (running' => jobs'[k] # None)
    BY <1>0, <1>1 DEF ArtifactsAccounted
  <1>7. QED BY <1>2, <1>3, <1>4, <1>5, <1>6, PublishesNothing DEF Ownership

\* The requests that begin with a cleanup.
LEMMA CleaningRequests ==
  ASSUME IInv,
         list_backups \/ \E j \in Job : backup_status(j) \/ download_backup(j)
  PROVE  IInv'
  <1>1. CASE list_backups
    BY <1>1, CleanupStep DEF list_backups, threads
  <1>2. ASSUME NEW j \in Job, backup_status(j) PROVE IInv'
    BY <1>2, CleanupStep DEF backup_status, list_backups, threads
  <1>3. ASSUME NEW j \in Job, download_backup(j) PROVE IInv'
    <2>1. /\ running /\ jobs[j] # None /\ jobs[j].state = "completed"
          /\ download' = [pc |-> "digest", job |-> j, sha256 |-> jobs[j].sha256]
      BY <1>3 DEF download_backup, Present
    <2>2. jobs[j].sha256 \in Content \union {None}
      BY <2>1 DEF IInv, Ownership, JobsTyped, Records, BackupJobRecord
    <2>3. download' \in Handlers /\ download'.job = j
      BY <2>1, <2>2 DEF Handlers, Steps
    <2>4. QED BY <1>3, <2>1, <2>3, CleanupStep DEF download_backup, Terminal
  <1>4. QED BY <1>1, <1>2, <1>3

\* A cleanup that stops halfway has taken files of jobs past their time only.
LEMMA CleanupFails ==
  ASSUME IInv, NEW stripped \in SUBSET Expired, NEW gone \in SUBSET stripped,
         cleanup_fails(gone, stripped)
  PROVE  IInv'
  <1>0. JobsTyped /\ Ownership /\ AnswersAreDurable /\ ArtifactsAccounted
    BY DEF IInv, Ownership
  <1>1. /\ status' \in Records /\ artifact' \in [Job -> Content \union {None}]
        /\ \A k \in Job : artifact'[k] # None => artifact[k] # None
        /\ \A k \in Job : status'[k] = status[k] \/ jobs[k].ttl = 0
        /\ UNCHANGED <<audited, running, jobs, task, download, deletion>>
    BY <1>0 DEF cleanup_fails, Expired, JobsTyped, Records, threads
  <1>2. Ownership'
    BY <1>0, <1>1 DEF Ownership, JobsTyped, WorkerOwns, EndedOrGone
  <1>3. AnswersAreDurable'
    BY <1>0, <1>1, SMTT(60) DEF AnswersAreDurable
  <1>4. \A k \in Job : artifact'[k] # None =>
           artifact[k] # None /\ (running' => jobs'[k] # None)
    BY <1>0, <1>1 DEF ArtifactsAccounted
  <1>5. QED BY <1>1, <1>2, <1>3, <1>4, PublishesNothing

\* create: a new job has an identifier that no file, record or request refers to.
LEMMA CreateBackup ==
  ASSUME IInv, NEW j \in Job, NEW outcome \in Persisted, create_backup(j, outcome)
  PROVE  IInv'
  <1>0. /\ JobsTyped /\ EndedOrGone(download) /\ EndedOrGone(deletion)
        /\ AnswersAreDurable /\ ArtifactsAccounted /\ PublishedIsAudited
    BY DEF IInv, Ownership
  <1>1. /\ running /\ UNCHANGED <<running, download, deletion>>
        /\ artifact[j] = None /\ jobs[j] = None
        /\ download.job # j /\ deletion.job # j
        /\ audited' = audited \ {j}
    BY DEF create_backup, Unused
  <1>2. New \in BackupJobRecord /\ New # None /\ New.state = "pending" /\ Idle \in Handlers
        /\ Idle.pc = "idle"
    <2>1. JOB_TTL \in 0..JOB_TTL
      BY JobsAssumption, SMTT(60)
    <2>2. New \in BackupJobRecord /\ New.state = "pending"
      BY <2>1 DEF New, BackupJobRecord, JobState
    <2>3. Idle \in Handlers /\ Idle.pc = "idle"
      BY DEF Idle, Handlers, Steps
    <2>4. QED BY <2>2, <2>3, AbsenceAssumption
  <1>3. /\ status' \in Records /\ jobs' \in Records
        /\ artifact' \in [Job -> Content \union {None}]
        /\ \A k \in Job \ {j} :
              \/ status'[k] = None /\ jobs'[k] = None /\ artifact'[k] = None
              \/ status'[k] = status[k] /\ jobs'[k] = jobs[k] /\ artifact'[k] = artifact[k]
        /\ artifact'[j] = None
        /\ jobs'[j] = IF outcome = "ok" THEN New ELSE None
        /\ outcome = "ok" => status'[j] = New
    BY <1>0, <1>1, <1>2 DEF create_backup, Expired, Present, JobsTyped, Records
  <1>4. /\ task' \in Handlers /\ task'.pc # "link"
        /\ task'.pc # "idle" => outcome = "ok" /\ task'.job = j
    <2>1. \/ task' = [Idle EXCEPT !.pc = "start", !.job = j] /\ outcome = "ok"
          \/ task' = Idle
      BY DEF create_backup
    <2>2. QED BY <2>1, <1>2 DEF Idle, Handlers, Steps
  <1>5. JobsTyped'
    BY <1>0, <1>1, <1>3, <1>4 DEF JobsTyped
  <1>6. WorkerOwns'
    BY <1>1, <1>2, <1>3, <1>4 DEF WorkerOwns, Terminal
  <1>7. EndedOrGone(download)' /\ EndedOrGone(deletion)'
    BY <1>0, <1>1, <1>3 DEF EndedOrGone
  <1>8. AnswersAreDurable'
    <2>1. Rank(New.state) >= Rank(New.state)
      BY SMTT(60) DEF Rank
    <2>2. QED BY <2>1, <1>0, <1>2, <1>3 DEF AnswersAreDurable
  <1>9. PublishedIsAudited' /\ ArtifactsAccounted'
    BY <1>0, <1>1, <1>3 DEF PublishedIsAudited, ArtifactsAccounted
  <1>10. QED
    BY <1>4, <1>5, <1>6, <1>7, <1>8, <1>9 DEF IInv, Ownership, LinkIsAudited

\* open, whether it completes, is refused or is interrupted: nothing else runs, and
\* an artifact stays only beside a record that is loaded.
LEMMA Opening ==
  ASSUME IInv, MemoryGone, open \/ open_refused \/ open_fails
  PROVE  IInv'
  <1>0. /\ JobsTyped /\ WorkerOwns /\ EndedOrGone(download) /\ EndedOrGone(deletion)
        /\ AnswersAreDurable
    BY DEF IInv, Ownership
  <1>1. ~running /\ UNCHANGED <<audited, task, download, deletion>>
    BY DEF open, open_refused, open_fails, threads
  <1>2. task.pc = "idle" /\ download.pc = "idle" /\ deletion.pc = "idle"
    BY <1>0, <1>1 DEF WorkerOwns, EndedOrGone
  <1>3. ASSUME NEW read \in SUBSET Present(status)
        PROVE  /\ StatusAfter(read) \in Records
               /\ \A k \in Job : status[k] # None /\ ~Stale(k) => StatusAfter(read)[k] # None
    <2>1. \A k \in Present(status) :
             status[k] \in BackupJobRecord /\ Loaded(k) \in BackupJobRecord
      BY <1>0, FailsTyped DEF Present, Loaded, JobsTyped, Records
    <2>2. QED BY <2>1, <1>0, AbsenceAssumption DEF StatusAfter, JobsTyped, Records
  <1>4. ASSUME NEW read \in SUBSET Job
        PROVE  /\ ArtifactsAfter(read) \in [Job -> Content \union {None}]
               /\ \A k \in Job : ArtifactsAfter(read)[k] # None => artifact[k] # None
    BY <1>0 DEF ArtifactsAfter, JobsTyped
  <1>5. CASE open
    <2> DEFINE after == StatusAfter(Present(status))
    <2>1. after \in Records
      BY <1>3
    <2>2. /\ status' = after /\ jobs' = after
          /\ artifact' = [j \in Job |-> IF after[j] # None /\ after[j].state = "completed"
                                        THEN artifact[j] ELSE None]
      BY <1>5 DEF open
    <2> HIDE DEF after
    <2>3. /\ artifact' \in [Job -> Content \union {None}]
          /\ \A k \in Job : artifact'[k] # None => artifact[k] # None /\ jobs'[k] # None
      BY <2>2, <1>0 DEF JobsTyped
    <2>4. Ownership'
      BY <2>1, <2>2, <2>3, <1>0, <1>1, <1>2
         DEF Ownership, JobsTyped, WorkerOwns, EndedOrGone
    <2>5. AnswersAreDurable'
      <3>1. \A k \in Job : after[k] # None => Rank(after[k].state) >= Rank(after[k].state)
        BY SMTT(60) DEF Rank
      <3>2. QED BY <2>2, <3>1 DEF AnswersAreDurable
    <2>6. QED BY <2>3, <2>4, <2>5, <1>1, <1>2, PublishesNothing
  <1>6. CASE open_refused \/ open_fails
    <2>1. UNCHANGED <<running, jobs>>
      BY <1>6 DEF open_refused, open_fails
    <2>2. /\ status' \in Records
          /\ artifact' \in [Job -> Content \union {None}]
          /\ \A k \in Job : artifact'[k] # None => artifact[k] # None
      <3>0. Present(status) \subseteq Job
        BY DEF Present
      <3>1. CASE open_refused
        BY <3>0, <3>1, <1>3, <1>4 DEF open_refused
      <3>2. CASE open_fails
        <4>1. PICK read \in SUBSET Present(status), stripped \in SUBSET Job :
                /\ status' = StatusAfter(read)
                /\ artifact' = [j \in Job |->
                     IF j \in stripped \ Present(status) THEN None
                     ELSE ArtifactsAfter(read \union (stripped \intersect Present(status)))[j]]
          BY <3>0, <3>2 DEF open_fails
        <4>2. QED BY <3>0, <4>1, <1>3, <1>4
      <3>3. QED BY <1>6, <3>1, <3>2
    <2>3. Ownership'
      BY <2>1, <2>2, <1>0, <1>1, <1>2 DEF Ownership, JobsTyped, WorkerOwns, EndedOrGone
    <2>4. AnswersAreDurable'
      BY <2>1, <1>1 DEF AnswersAreDurable, MemoryGone
    <2>5. QED BY <2>1, <2>2, <2>3, <2>4, <1>1, <1>2, PublishesNothing
  <1>7. QED BY <1>5, <1>6

\* Time passes for the record in memory and for the one on the disk.
LEMMA TickStep ==
  ASSUME IInv, tick
  PROVE  IInv'
  <1>0. /\ JobsTyped /\ WorkerOwns /\ EndedOrGone(download) /\ EndedOrGone(deletion)
        /\ AnswersAreDurable
    BY DEF IInv, Ownership
  <1>1. ASSUME NEW table \in Records
        PROVE  /\ Older(table) \in Records
               /\ \A k \in Job : table[k] = None <=> Older(table)[k] = None
               /\ \A k \in Job : table[k] # None =>
                     /\ Older(table)[k].state = table[k].state
                     /\ Older(table)[k].ttl > 0 => table[k].ttl > 0
    <2>1. ASSUME NEW k \in Job, table[k] # None
          PROVE  /\ Older(table)[k] \in BackupJobRecord
                 /\ Older(table)[k].state = table[k].state
                 /\ Older(table)[k].ttl > 0 => table[k].ttl > 0
      <3>1. table[k] \in BackupJobRecord
        BY <2>1 DEF Records
      <3>2. table[k].ttl \in 0..JOB_TTL /\ JOB_TTL \in Nat
        BY <3>1, JobsAssumption DEF BackupJobRecord
      <3>3. CASE table[k].ttl > 0
        <4>1. Older(table)[k] = [table[k] EXCEPT !.ttl = @ - 1]
          BY <2>1, <3>3 DEF Older
        <4>2. table[k].ttl - 1 \in 0..JOB_TTL
          BY <3>2, <3>3, SMTT(60)
        <4>3. QED BY <4>1, <4>2, <3>1, <3>3 DEF BackupJobRecord
      <3>4. CASE ~(table[k].ttl > 0)
        BY <2>1, <3>1, <3>4 DEF Older
      <3>5. QED BY <3>3, <3>4
    <2>2. \A k \in Job : table[k] = None => Older(table)[k] = None
      BY DEF Older
    <2>3. Older(table) = [k \in Job |-> Older(table)[k]]
      BY DEF Older
    <2>4. QED BY <2>1, <2>2, <2>3, AbsenceAssumption DEF Records
  <1>2. /\ status' = Older(status) /\ jobs' = Older(jobs)
        /\ UNCHANGED <<artifact, audited, running, task, download, deletion>>
    BY DEF tick, threads
  <1>3. status \in Records /\ jobs \in Records
    BY <1>0 DEF JobsTyped
  <1>4. JobsTyped'
    BY <1>0, <1>1, <1>2, <1>3 DEF JobsTyped
  <1>5. WorkerOwns' /\ EndedOrGone(download)' /\ EndedOrGone(deletion)'
    BY <1>0, <1>1, <1>2, <1>3 DEF WorkerOwns, EndedOrGone
  <1>6. AnswersAreDurable'
    BY <1>0, <1>1, <1>2, <1>3 DEF AnswersAreDurable
  <1>7. \A k \in Job : artifact'[k] # None =>
           artifact[k] # None /\ (running' => jobs'[k] # None)
    BY <1>1, <1>2, <1>3 DEF IInv, ArtifactsAccounted
  <1>8. QED BY <1>2, <1>4, <1>5, <1>6, <1>7, PublishesNothing DEF Ownership

\* A crash, damage on the disk, and a verification, which has files of its own.
LEMMA Environment ==
  ASSUME IInv,
         \/ crash \/ Verification
         \/ \E j \in Job, content \in Content : damage(j, content)
  PROVE  IInv'
  <1>0. Ownership /\ JobsTyped /\ AnswersAreDurable /\ ArtifactsAccounted
    BY DEF IInv, Ownership
  <1>1. CASE crash
    <2>1. Idle \in Handlers /\ Idle.pc = "idle"
      BY DEF Idle, Handlers, Steps
    <2>2. /\ task' = Idle /\ download' = Idle /\ deletion' = Idle /\ running' = FALSE
          /\ jobs' = [j \in Job |-> None] /\ UNCHANGED <<status, artifact, audited>>
      BY <1>1 DEF crash, files
    <2>3. Ownership'
      BY <2>1, <2>2, <1>0 DEF Ownership, JobsTyped, Records, WorkerOwns, EndedOrGone
    <2>4. AnswersAreDurable'
      BY <2>2 DEF AnswersAreDurable
    <2>5. QED BY <2>1, <2>2, <2>3, <2>4, PublishesNothing
  <1>2. CASE Verification
    <2>1. UNCHANGED <<status, artifact, audited, running, jobs, task, download, deletion>>
      BY <1>2 DEF Verification, verify_uploaded_backup, receive_verification_upload,
         verify_and_restore_test, files, threads
    <2>2. QED
      BY <2>1 DEF IInv, Ownership, JobsTyped, WorkerOwns, EndedOrGone, LinkIsAudited,
         PublishedIsAudited, ArtifactsAccounted, AnswersAreDurable
  <1>3. ASSUME NEW j \in Job, NEW content \in Content, damage(j, content)
        PROVE  IInv'
    <2>1. UNCHANGED <<status, audited, running, jobs, task, download, deletion>>
      BY <1>3 DEF damage, threads
    <2>2. /\ artifact' \in [Job -> Content \union {None}]
          /\ \A k \in Job : artifact'[k] # None => artifact[k] # None
      BY <1>0, <1>3, AbsenceAssumption DEF damage, JobsTyped, Content
    <2>3. EndedOrGone(download)' /\ EndedOrGone(deletion)'
      BY <2>1, <1>0 DEF Ownership, EndedOrGone
    <2>4. QED BY <2>1, <2>2, <2>3, <1>0, QuietRequest DEF JobsTyped
  <1>4. QED BY <1>1, <1>2, <1>3

\* Whoever changes the registry runs in the server.
LEMMA MemoryGoneStep ==
  ASSUME IInv, MemoryGone, Next
  PROVE  MemoryGone'
  <1>0. WorkerOwns /\ EndedOrGone(download) /\ EndedOrGone(deletion)
    BY DEF IInv, Ownership
  <1> SUFFICES ASSUME ~running' PROVE \A j \in Job : jobs'[j] = None
    BY DEF MemoryGone
  <1>1. CASE open \/ open_refused \/ open_fails
    BY <1>1 DEF open, open_refused, open_fails, MemoryGone
  <1>2. ~list_backups /\ \A s, g : ~cleanup_fails(g, s)
    BY SMTT(60) DEF list_backups, cleanup_fails
  <1>3. ASSUME NEW j \in Job, Request(j) PROVE FALSE
    BY <1>3, SMTT(60) DEF Request, create_backup, backup_status, list_backups, download_backup, delete_backup
  <1>4. ASSUME NEW j \in Job,
               worker(j) \/ \E outcome \in Persisted : start(j, outcome)
        PROVE  FALSE
    <2>1. task.pc # "idle" /\ running' = running
      BY <1>4 DEF worker, start, write_and_verify_backup, append_audit, hard_link, unlink,
         create_backup_file_fails, open_and_digest_artifact, discard, complete, fail, At
    <2>2. QED BY <2>1, <1>0 DEF WorkerOwns
  <1>5. ASSUME NEW j \in Job, DownloadStep(j) \/ DeletionStep(j) PROVE FALSE
    <2>1. (download.pc # "idle" \/ deletion.pc # "idle") /\ running' = running
      BY <1>5 DEF DownloadStep, DeletionStep, digest_download, remove_spoiled, record_download,
         spoil_download, remove, At
    <2>2. QED BY <2>1, <1>0 DEF EndedOrGone
  <1>6. CASE Verification \/ \E j \in Job, content \in Content : damage(j, content)
    BY <1>6 DEF Verification, verify_uploaded_backup, receive_verification_upload,
       verify_and_restore_test, damage, MemoryGone
  <1>7. CASE tick
    <2>1. ~running /\ jobs' = Older(jobs)
      BY <1>7 DEF tick
    <2>2. \A j \in Job : jobs[j] = None => Older(jobs)[j] = None
      BY DEF Older
    <2>3. QED BY <2>1, <2>2 DEF MemoryGone
  <1>8. CASE crash
    BY <1>8 DEF crash
  <1>9. QED BY <1>1, <1>2, <1>3, <1>4, <1>5, <1>6, <1>7, <1>8 DEF Next

\* Every step keeps IInv.
LEMMA NextIInv ==
  ASSUME IInv, MemoryGone, Next
  PROVE  IInv'
  <1>1. CASE open \/ open_refused \/ open_fails
    BY <1>1, Opening
  <1>2. CASE list_backups
    BY <1>2, CleaningRequests
  <1>3. ASSUME NEW s \in SUBSET Expired, NEW g \in SUBSET s, cleanup_fails(g, s) PROVE IInv'
    BY <1>3, CleanupFails
  <1>4. ASSUME NEW j \in Job, Request(j) PROVE IInv'
    BY <1>4, CreateBackup, CleaningRequests, DeletionSteps DEF Request
  <1>5. ASSUME NEW j \in Job, worker(j) PROVE IInv'
    BY <1>5, WorkerFiles, WorkerRecords DEF worker
  <1>6. ASSUME NEW j \in Job, DownloadStep(j) \/ DeletionStep(j) PROVE IInv'
    BY <1>6, DownloadSteps, DeletionSteps
  <1>7. ASSUME NEW j \in Job, NEW outcome \in Persisted, start(j, outcome) PROVE IInv'
    BY <1>7, WorkerRecords
  <1>8. CASE tick
    BY <1>8, TickStep
  <1>9. CASE \/ Verification \/ crash
             \/ \E j \in Job, content \in Content : damage(j, content)
    BY <1>9, Environment
  <1>10. QED BY <1>1, <1>2, <1>3, <1>4, <1>5, <1>6, <1>7, <1>8, <1>9 DEF Next

\* The inductive invariant holds throughout.
LEMMA JobsInvariant == Spec => [](IInv /\ MemoryGone)
  <1>1. Init => IInv /\ MemoryGone
    BY InitIInv DEF Init, MemoryGone
  <1>2. IInv /\ MemoryGone /\ [Next]_vars => (IInv /\ MemoryGone)'
    <2>1. ASSUME IInv, MemoryGone, UNCHANGED vars PROVE (IInv /\ MemoryGone)'
      BY <2>1 DEF vars, files, threads, IInv, MemoryGone, Ownership, JobsTyped, WorkerOwns,
         EndedOrGone, LinkIsAudited, PublishedIsAudited, ArtifactsAccounted, AnswersAreDurable
    <2>2. QED BY <2>1, NextIInv, MemoryGoneStep
  <1>3. QED BY <1>1, <1>2, PTL DEF Spec

\* create_backup_file: an archive under its final name has its backup:create event,
\* for any number of jobs, errors and crashes.
THEOREM PublishedIsAlwaysAudited == Spec => []PublishedIsAudited
  <1>1. IInv => PublishedIsAudited
    BY DEF IInv
  <1>2. QED BY <1>1, JobsInvariant, PTL

\* The registry of a running server accounts for every artifact in its directory.
THEOREM ArtifactsAreAccounted == Spec => []ArtifactsAccounted
  <1>1. IInv => ArtifactsAccounted
    BY DEF IInv
  <1>2. QED BY <1>1, JobsInvariant, PTL

\* The registry never answers more than its status files say after a crash.
THEOREM AnswersStayDurable == Spec => []AnswersAreDurable
  <1>1. IInv => AnswersAreDurable
    BY DEF IInv
  <1>2. QED BY <1>1, JobsInvariant, PTL
=============================================================================
