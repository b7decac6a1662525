# SMCV in TLA+

SMCV is a secret vault that runs as one process. Request threads share one
SQLite connection behind a mutex, an in-memory key ring, and two gates:
`audit_gate`, which orders the writers of the audit log, and
`authorization_gate`, a read-write lock that orders requests and revocations.
Around it are jobs that write backups, a command that restores them on a new
host, and a local web page that drives that command. This directory models the
parts where the order of steps matters, checks them with TLC, and proves the main
results with TLAPS.

## 1. Inventory

| Part | State | Operations | What is hard about it | What must hold |
|---|---|---|---|---|
| Secrets and versions (`vault_core.rs`, `records.rs`) | secret rows, versions, tombstones | create, update, archive, restore, delete, purge, reveal, list, due list | reads outside the transaction, optimistic concurrency, crashes | no lost update, contiguous versions, unique names |
| Audit log (`vault_core.rs`, `records.rs`) | events, head, `audit_gate` | append with each transaction, verify by pages | a head read before the transaction, a gate that must be released | one chain without fork that explains the state |
| Idempotent creation (`authorized_vault.rs`, `idempotency.rs`) | reservations for 24 hours | reserve, create, retry | two transactions for one request, lost answers, expiry | one secret per key, with the body of the request |
| KEK rotation (`rotation.rs` of app and storage) | key registry, installation state, job, rows, ring | start, resume by batches and stages, finish | interruption anywhere, writers and readers meanwhile | nothing needs a retired key, resumable, completes |
| Root provider rotation (same files) | provider files, wrappings, root key | rotate | file, database and memory change apart | the vault opens again |
| Initialization (`initialization.rs`) | installation state, provider file | first start, reopen | interruption between file and database | either nothing or a complete vault |
| Sessions (`authentication.rs`, `identity.rs`) | session rows, clock | login, authenticate and touch, logout, recovery | expiry, the limit, concurrent touches | a reported logout is final |
| Application credentials (`service_identity.rs`) | credential rows with revisions | issue, authenticate and mark, revoke | revocation racing use | a reported revocation is final |
| Authorization (`authorization.rs`, `authorized_vault.rs`) | policies, grants, bindings, gate | decide, create, grant, bind, archive | a decision that is stale when used | acts are granted when they happen |
| Namespaces (`vault_core.rs`, `authorization.rs`) | tree | create, rename, move, archive | moves change depth and inherited grants, queries are bounded | acyclic, no access gained unconfirmed |
| Passkeys (`passkeys.rs`) | pending ceremonies | begin, finish | limit, expiry, single use | a ceremony is used once |
| Backup and restore (`backup.rs`, `portable.rs`, `smcv-backup`) | snapshot, staged vault | export, verify, restore, activate | consistency of a snapshot, activation guard | a backup restores, and means the same |
| Backup jobs (`backup_jobs.rs`) | job files and archives | create, download, expire, remove | files and memory change apart | no archive without its record and its event |
| Recovery channel (`recovery_web.rs`) | one-use token, deadline | upload, confirm, cancel | expiry while a body is read, disconnects | restores what was confirmed, closes |
| HTTP server, command line, web client | rate limiter, rest is I/O | routing | limits under concurrency | bounded tables |

`PROJECT.json` lists the same parts with their modelling status, and every
hazard with the line where it bites.

## 2. Modules

| Module | Models |
|---|---|
| `SecretStore` | The promise of the vault core: each operation is one atomic step with one line in a log. |
| `VaultCore` | `vault_core.rs` over the transactions of `records.rs`: requests that step through read, gate, build, commit, answer; crashes. |
| `VaultReads` | Extends `VaultCore` with reads of several storage calls: lists, the due list, the verification of the chain. |
| `Idempotency` | Extends `VaultCore` with reservations and retried creation. |
| `KekRotation` | Both rotations, the ring, and writers, readers and purges of every encrypted table. |
| `AccessGate` | Sessions, credentials, policies and `authorization_gate`. |
| `Locks` | Every lock of a running vault and the order in which the requests take them. |
| `Passkeys` | The ceremony table of `passkeys.rs` and the four handlers of `smcv-server` that use it. |
| `PortableVault` | Namespaces, secrets, identities and policies as one database; snapshot, logical stream, transformation, import and verification of a backup; namespace moves. |
| `ArchiveFormat` | The frames of a `.smcvault` archive, its chunks, the record counter, what may become of a file. |
| `Installation` | Root key file and database on disk: `initialize_vault` and `restore_backup_file` step by step. |
| `RecoveryChannel` | `recovery_web.rs`, composed with `ArchiveFormat` and `Installation`. |
| `BackupJobs` | `backup_jobs.rs` and the publication of an archive by `create_backup_file`. |
| `VaultCoreProofs` | Theorems about `VaultCore` and `SecretStore`. |
| `VaultClientsProofs` | Theorems about `VaultReads` and `Idempotency`. |
| `RecoveryProofs` | Theorems about `ArchiveFormat`, `Installation` and `RecoveryChannel`. |
| `PortableProofs` | Theorems about `PortableVault`. |
| `AccessGateProofs`, `KekRotationProofs`, `BackupJobsProofs`, `PasskeysProofs` | Theorems about the module of that name. |
| `MC*` | Instances for TLC. |

Correspondence. Names are those of the source. A row is a record, an absent row
is `None`. A storage call is one step, because the connection mutex is held for
all of it and transactions are atomic. What a thread keeps in local variables
between two storage calls is in `call`, `pending`, `scan`, `retry`, `req` or
`proc`. Identifiers and payloads are model values. A commitment is the content it
covers, so hashes never collide, and a seal is what is sealed with the key and
the context it is bound to. Counters that the code checks with `checked_add` have
a bound at which the operation is refused. Lines marked `(mutated: ...)` define
variants of the operator after them with a plausible bug; no specification uses
them.

`VaultCore`: `store` holds `secrets`, `versions`, `tombstones` and
`audit_events`; `pc`, `call` and `pending` are the threads; `audit_gate` is the
thread whose `PendingAudit` is alive. `acked` and `readable` are history: writes
that were acknowledged, and values that were current during a reveal.

`KekRotation`: a wrapped data key is the identity it was sealed for and the KEK
version. `late` is history: the row was committed under a KEK that was no longer
active. Taking `audit_gate` is merged with the transaction that follows it.

`AccessGate`: time is a counter in units of the shortest lifetime; a request
takes the gate shared, checks its context again, decides, acts; logout,
revocation and policy edits take it exclusively. There is one resource.

`Locks`: a request is the sequence of the locks it takes and drops, put together
from the calls it is made of as the source nests them: the connection for a call of
the store, the ring or the root key for a use of a key, the audit gate from the
reading of the head to after the commit, the authorization gate around all of it.
Calls of the store that follow each other are one, and any call that answers may end
its request. `todo` is the rest of a request, `guards` what it holds. The other
modules leave locks out where they are held for one step; here nothing else is in.

`Passkeys`: a handler reads the clock once, and comes to the table later with
that time; `answers` are what devices have signed, and are sent any number of
times. `served` is history. Authentication of the session and the shared gate are
one step here, since `AccessGate` takes them one by one.

`PortableVault`: `db` is the tables. A request is one action, because the gate
orders moves and checks and `VaultCore` is about what happens inside. The walk
over the ancestors of a namespace has the bound of the two recursive queries.

`Installation` and `RecoveryChannel`: databases are numbered, since a process
keeps the file it opened while another may have unlinked it. A root key file is
created and then filled, in two steps. A handler of the channel is dropped where
it waits when the browser disconnects; the restore on its blocking thread goes
on. `amid`, `begun` and `confirmed` are history.

`BackupJobs`: a function of the registry is atomic to other threads and not to an
error or a crash: its outcome says how far its writes came. `ttl` is the time
left to a record; `audited` is the events in the log.

## 3. Runs

| Run | Checks | Instance |
|---|---|---|
| `vault_core` | `HeadNeverStale`, `AckedWriteDurable`, `AuditExplainsState`, `RevealAuditedAndCurrent`, `ImplementsStore` | 2 requests, 2 secrets, 1 name, 2 values, 3 events |
| `vault_reads` | `ListComplete`, `NoFalseTamperAlarm` | 1 writer, 1 reader, 2 secrets, 4 events in pages of 2 |
| `idempotency` | `SuccessIsStored`, `OneAnswerPerKey` | 2 requests, 2 secrets, 2 names, 1 key, 5 events |
| `kek_rotation` | `Reopenable`, `RingMatchesRegistry` | 1 thread, every operation, 1 crash, 2 rows per table |
| `rotation_threads` | `CheckpointBehindClean`, `RetiredUnneededUnlessLate`, `DekStaysWithRecord`, `ReadersFindKeys`, `RotationCompletes` | 2 threads, 2 rows per table in batches of 1, 1 crash |
| `access` | `NoUseAfterRevocation`, `GrantedWhenUsed`, `SessionsOnlyAdvance` | 2 threads, 1 session, 1 credential, 1 policy, revisions to 3, clock to 3 |
| `locks` | `NoDeadlock` | 3 threads, 15 kinds of request |
| `passkeys` | `CeremonyServesOnce`, `CounterNeverBack`, `BusyOnlyWhenFull`, `PendingKept` | 2 threads, 1 passkey, 3 ceremonies in a table of 2, 2 signatures |
| `backup_jobs` | `PublishedIsAudited`, `ArtifactsAccounted`, `AnswersAreDurable`, `JobsEnd`, `RegistryReopens` | 2 jobs, room for 1, 2 mishaps |
| `portable` | `NamespaceForest`, `BackupRestores`, `NoSilentBroadening`, `RestoredVaultEquivalent` | 4 namespaces with depth 2, 1 secret, service, credential and policy, 8 rows, 1 restore |
| `recovery` | `VerdictExact`, `RestoredIsConfirmed`, `ReadyMeansWhole`, `ReadyVaultOpens`, `ReadyVaultStays`, `ChannelCloses`, `InstallationSettles` | 2 requests, 2 archives in 2 chunk sizes, 1 process starting, 2 crashes |

One run shows a disagreement between the code and what is written about it.
`every_backup` violates `EveryBackupRestores`: a secret is created, deleted and
purged, and its create request is repeated with the same idempotency key; the
secret is then created again beside its tombstone, and a backup of this vault is
written and verifies, but `verify_restored_relationships` refuses to restore it.
`BACKUP_AND_RECOVERY.md` promises that a valid archive restores. `BackupRestores`
states which vaults do restore, exactly: all but those with such a secret, with
a grant on a purged secret, or with a namespace that was moved too deep.

Two liveness properties name their exception in the same way. `RotationCompletes`:
only a row that was committed late behind the checkpoint keeps a rotation from
completing, since no batch comes back to it and every finish counts it.
`ChannelCloses`: only a browser that has not finished a request it began keeps the
channel from closing. Section 4 has the promises that these exceptions break.

Why the bounds are enough. Two requests give every pair of racing operations.
Two secrets and one name are what a name conflict takes; two values tell a lost
update from a repeated one. Three events hold a create, a delete and a purge
and reach the end of the log, where operations are refused; the five
of `idempotency` hold a create, an update, a delete, a purge and a recreation.
A page of two makes a chain of four span pages. Two rows per table make
a batch of more than one row, or more than one batch. Two threads that resume get
into each other's batches, stages and ends, and either may be the writer that
leaves a row behind or the one that purges a row and reuses its id. Three threads
are two that share a lock and a writer between them, and close a circle over the
three locks that a request holds at most. A clock of 3 passes the
idle and the absolute limit of a session created at the start, whose id is then free
for another; three revisions are an issue, a use and a revocation. Three ceremonies
overfill a table of two; two signatures of one passkey are what it takes to write
them in the wrong order. Room for one job makes every record that an error left
behind one too many at the next start, and two mishaps are an error and the crash
after it. Four namespaces make a tree twice as deep as the bound of two allows.
Eight rows hold the vault in which a move can broaden access: a password, a
service with a bound policy and one grant, the granted namespace, the moved one
and a child of it. The vault with all four namespaces and a bound grant would be
the ninth row and is not reached.
In an archive, a header of two bytes and chunks of two and three bytes put a
chunk boundary inside a header, inside a payload and between records. Two crashes
interrupt a start and the start that takes it up.

Deadlock is checked in every run but `portable` and `every_backup`, whose vaults
may be full and restored as often as the bounds let them.
Symmetry is used only in runs without liveness properties.

Fairness. `KekRotation`: threads step, a process that died is started again, and an
operator keeps calling resume while a rotation is unfinished, from whatever thread
(strongly fair, since its calls can be interrupted by crashes); this is what the
resumable design asks of its operator. `BackupJobs`: threads step, the clock runs, and
a server that stopped is started again; nobody is assumed to look at the list of
backups. `RecoveryChannel`: processes step, the clock runs, whoever could not start
tries again, and a handler that has its body answers. Nothing is assumed of the
browser, which may leave a request unfinished forever. That every request ends is
not claimed: `std::sync` promises no order among those who wait for a lock, so a
request may starve while others keep arriving. What the code owes is that requests
never wait for each other, which is `NoDeadlock`; it counts a reader as blocked by a
writer that waits, as the locks of Linux do, and grants locks in any order.

## 4. Observations

What the models show besides the run above. The first seven were found as
counterexamples of the properties named, which the modules keep.

- A browser that begins a request to the recovery channel and does not finish its
  body keeps the channel, and its process, beyond the deadline (`ChannelExpires`,
  without a crash): at ten minutes `with_graceful_shutdown` stops accepting and then
  waits for the handlers under way, without a limit (`recovery_web.rs:171-179`).
  `BACKUP_AND_RECOVERY.md:276` says that the channel "closes after one activation
  attempt or ten minutes", and `recovery_web.rs:169` prints the same.
- A write sealed before a rotation began commits under the replaced KEK
  (`NewWritesUseActive`, with two threads): `encrypt_record` takes the active KEK
  before the gate. `CRYPTOGRAPHY_AND_KEY_MANAGEMENT.md:166` says "New writes use the
  new version." Behind the checkpoint such a row blocks the rotation until it is
  purged.
- Committed after the end of the rotation, that row needs the retired KEK
  (`RetiredUnneeded`, with two threads); `vault.rs:71` says "No live record may
  require this key."
- A KEK rotation covers neither `smcv_service_identities` nor `smcv_policies`,
  whose metadata is sealed too (`RetiredUnneededAnywhere`, with one thread), against
  the same line.
- A KEK that is wrapped before a root rotation and committed after it leaves two
  roots, and the vault opens with neither (`Reopenable`, with two threads);
  `rotation.rs:180-182` says which provider is authoritative before and after the
  commit.
- `secrets_due` reads the due versions and the current ones in two calls; an
  update in between makes it answer `Integrity` (`IntegrityMeansTampering`),
  which `vault_core.rs:205` describes as data that did not authenticate.
- A retry after a purge creates the secret again under its id at version 1
  (`VersionOneWrittenOnce`); `DATA_MODEL.md:136` says version numbers are not
  reused. A second purge of that secret fails on the key of its tombstone.
- The rotations and `secrets_due` are library calls that neither the server nor
  the command line makes today.
- A move checks the depth of the new parent, not the height of what is moved. A
  namespace deeper than the ancestor queries look loses inherited grants, and
  gains them at a later move whose delta does not show it.
- A restored vault that had no owner when it was backed up cannot be enrolled: the
  restore writes an authorization commitment and `enroll_owner` expects none.
- The cleanup of a restore is armed when the destination was empty, and removes
  what is there when the restore fails, also a vault that another process started
  in between. `ReadyVaultStays` and `ReadyVaultOpens` say that this is the only
  window.
- A crash while the root key file is filled leaves half a file, which startup
  refuses until somebody removes it. A crash of a restore between the key file and
  the database leaves a key file with which a later start makes an empty vault
  under the id of the archive's.
- In the recovery channel, a body that is not multipart, or a disconnect during
  an upload, leaves the place for an archive reserved; a disconnect during the
  activation leaves the channel open until its deadline; a killed channel leaves
  its workspace directory.
- A crash while a backup is written leaves its `.smcvault-*.partial` file.
- `recover_local_owner` accepts only an owner without an active password, which
  no sequence of operations leads to: enrolment sets one, nothing revokes it, and
  a restore keeps it.

## 5. Proofs

| Theorem | States | Module |
|---|---|---|
| `TypeCorrect` | `TypeOK` of the vault core | `VaultCoreProofs` |
| `VersionsAreContiguous` | `VersionsContiguous` | `VaultCoreProofs` |
| `HeadIsNeverStale` | `HeadNeverStale` | `VaultCoreProofs` |
| `AuditIsChained` | `AuditChained` | `VaultCoreProofs` |
| `NamesAreUnique` | `NamesUnique` | `VaultCoreProofs` |
| `AckedWritesAreDurable` | `AckedWriteDurable` | `VaultCoreProofs` |
| `RevealsAreAuditedAndCurrent` | `RevealAuditedAndCurrent` | `VaultCoreProofs` |
| `LogExplainsState` | `AuditExplainsState` | `VaultCoreProofs` |
| `VaultImplementsStore` | `ImplementsStore` | `VaultCoreProofs` |
| `ListsAreComplete` | `ListComplete` | `VaultClientsProofs` |
| `NoFalseAlarm` | `NoFalseTamperAlarm` | `VaultClientsProofs` |
| `SuccessesAreStored` | `SuccessIsStored` | `VaultClientsProofs` |
| `KeysHaveOneAnswer` | `OneAnswerPerKey` | `VaultClientsProofs` |
| `AccessTyped` | `TypeOK` of the access gate | `AccessGateProofs` |
| `RevocationIsImmediate` | `NoUseAfterRevocation` | `AccessGateProofs` |
| `GrantStandsWhenUsed` | `GrantedWhenUsed` | `AccessGateProofs` |
| `SessionsAdvance` | `SessionsOnlyAdvance` | `AccessGateProofs` |
| `RingFollowsRegistry` | `RingMatchesRegistry` | `KekRotationProofs` |
| `OnlyLateRowsNeedRetired` | `RetiredUnneededUnlessLate` | `KekRotationProofs` |
| `ReadersAlwaysFindKeys` | `ReadersFindKeys` | `KekRotationProofs` |
| `RewrapKeepsDeks` | `DekStaysWithRecord` | `KekRotationProofs` |
| `BehindCheckpointClean` | `CheckpointBehindClean` | `KekRotationProofs` |
| `CrashedVaultOpens` | `Reopenable`, if `RootAlone` | `KekRotationProofs` |
| `PublishedIsAlwaysAudited` | `PublishedIsAudited` | `BackupJobsProofs` |
| `ArtifactsAreAccounted` | `ArtifactsAccounted` | `BackupJobsProofs` |
| `AnswersStayDurable` | `AnswersAreDurable` | `BackupJobsProofs` |
| `CeremoniesServeOnce` | `CeremonyServesOnce` | `PasskeysProofs` |
| `CountersNeverGoBack` | `CounterNeverBack` | `PasskeysProofs` |
| `PendingAreKept` | `PendingKept` | `PasskeysProofs` |
| `BusyMeansFull` | `BusyOnlyWhenFull` | `PasskeysProofs` |
| `VerdictsAreExact` | `VerdictExact` | `RecoveryProofs` |
| `RestoresWhatWasConfirmed` | `RestoredIsConfirmed` | `RecoveryProofs` |
| `ReadyIsWhole` | `ReadyMeansWhole` | `RecoveryProofs` |
| `ReadyOpens` | `ReadyVaultOpens` | `RecoveryProofs` |
| `ReadyVaultIsKept` | `ReadyVaultStays` | `RecoveryProofs` |
| `VaultStaysWhole` | `PortableInv`, the inductive invariant | `PortableProofs` |
| `NamespacesStayForest` | `NamespaceForest` | `PortableProofs` |
| `BackupsRestore` | `BackupRestores` | `PortableProofs` |
| `RestoreIsEquivalent` | `RestoredVaultEquivalent` | `PortableProofs` |
| `MovesBroadenAsConfirmed` | `NoSilentBroadening` | `PortableProofs` |

They hold for any number of requests, threads, secrets, names, values, sessions,
credentials, policies, namespaces, keys, jobs, passkeys, ceremonies, processes and
archives, any chunk sizes and any bounds, the depth of the ancestor queries included,
from the named assumptions of the modules: bounds are natural numbers,
`None` is none of the other values and no record, sessions and credentials have
different ids, the processes of `Installation` are finitely many, so that a
random installation id can be one that nobody has, and so are the ids of namespaces,
which have one size, so that a walk to the root ends. `RotationAssumption` also says
that no client operation writes auxiliary keys, which only the initialisation does.
One theorem has a hypothesis: `CrashedVaultOpens` is about any number of threads if the
root provider is not rotated, and about one thread if it is (`RootAlone`); with more,
`Reopenable` is false (see the observations). `StreamAssumption` says of the
streams that are archived that they consist of whole records within the limits, which
`encode_logical_snapshot` makes and `write_archive` insists on.

The argument for the vault. Every step either leaves the store alone or is a
transaction with one of a few outcomes (created, updated, changed, purged,
revealed, failed); lemma `Outcomes` lists them, and each invariant is shown once
per outcome. The invariants are not inductive as they stand. The chain needs that
the holder of the gate built its event on the head, that nobody commits
without the gate, and that the pending event describes the call. The log
explains the state only if it is a chain. The refinement maps a transaction
that commits to the operation of `SecretStore` at that instant and every other
step to a stutter.

The argument for the reads and for idempotent creation. A list is complete because
each secret that stays in the listed state is among the rows still to be read or
the items already read (`ListPending` in `ListInv`). The verification of the chain
is never behind a break because what it has verified is a prefix of the log
(`VerifyBehind` in `VerifyInv`), which only grows; lemma `PageAfter` says which events
a page holds. For idempotency, the ids of reservations and of attempts under way
belong to one key each (`KeyInv`), a call inside `create_secret_idempotent` carries
the id and the body of its attempt (`CallsOwned`), and a stored secret that a
reservation names has the body that was reserved (`StoredMatches`): an id is fresh
when it is reserved, and only calls with that body create it.

The argument for the access gate. The inductive invariant joins the types, that
a thread past the gate holds it (`GateHeld`), that what was reported as ended is
revoked in its row (`EndedRevoked`), and the two properties. A revocation needs
the gate exclusively, so no thread is past its check when the row changes; a
later request re-reads the row under the gate.

The argument for the rotation. The durable state of every key follows from the
active version and from whether a rotation is under way (`RegistryValid`), and the
ring is behind it only while the thread that committed holds the gate
(`GateOwned`, `RingBehind`). What a reader needs is `KeysUsable`: nothing was
sealed with a key that the ring does not hold yet, because writers and the rewrap
take keys from the ring. A row is late exactly if its key was not the active one
when it was committed, and a key is retired only when the inventory finds no row
under it, so a row under a retired key was committed late.

A batch reads its rows in one step and applies them in a later one, with other
threads in between. `ScanInv` says what it may still rely on: of the rows under the
source that are not late, those it read are of the same record, it skipped none up to
the last one it read (`Known`), and none is behind the checkpoint (`Clean`). It is
inductive because these rows only become fewer: a row is either committed under the
active key, or late, or no longer under the source (`OnlyFewer`; lemmas `CommitFewer`,
`PurgeFewer` and `ApplyFewer`). `RewrapKeepsDeks` and `BehindCheckpointClean` follow.
For `CrashedVaultOpens`, `WrapInv` says that one provider whose file exists wraps every
key that is not retired, and that each call in a rotation carries that provider or,
before its transaction, one whose file is already there; `AuxInv` says that the
auxiliary keys are never late, so that their keys are not retired.

The argument for backup jobs. Each property fails at the step of some request
unless one knows who may touch a job. The inductive invariant `IInv` says it: the
worker's job is in the registry and has not ended (`WorkerOwns`); a download or a deletion
under way is about a job that has ended or is gone (`EndedOrGone`); a worker past
its audit event has that event in the log (`LinkIsAudited`); a new job gets an id
that no file, record or request mentions. `MemoryGone` adds that the registry
of a stopped server is empty, so that `open` starts from the files alone. Each lemma takes one
group of steps: the worker, downloads, deletions, cleanup, creation, opening, and
crashes.

The argument for passkeys. A ceremony is in one place (`InOnePlace`): pending, held
by the one thread that took it, or used up; a number that is not begun is nowhere
(`NotBegun`). Lemma `Serving` then moves `served` from 0 to 1 and leaves no holder.
For the counter, the passkeys a ceremony keeps are registered
(`KnownAreRegistered`), a login carries a counter no lower than that of the row it
read (`LoginRaises`), and it writes only if the row is still that one.
`PendingAreKept` needs besides that the time of a start is not ahead of the clock
(`TimesKnown`), or its sweep could drop what has not expired. `BusyMeansFull` counts
the table: it never exceeds its limit (`TableBounded`), since a start adds one
ceremony and only after it found room, so a start that is refused counted exactly the
limit, all of them in time because the sweep came first.

The argument for installations. `FilesInv` says for each process what it has in hand
and what follows for the files. The database that a restore fills is begun by it and
not ready (`HolderInv`); a bootstrap comes once, and a restore's has its guard until
the vault is ready (`DatabaseInv`), which gives `ReadyMeansWhole`. A restore under way
was so when the database at the path was created (`AmidInv`), because it began with
an empty path; this gives `ReadyVaultStays`. If no restore was under way then, nobody
removes the root key file, so the key that a start has in hand is the one in the file
(`StarterOpens`, `PathOpens`); if only its own was, the restore verified the file and
goes straight on to ready (`RestorerOpens`): `ReadyVaultOpens`. A new root key file has
an installation id that no database, process or file has (`FreshIdIsNew`, by counting
them). For the channel, what is staged was received (`ChannelInv`), and the one
restore under way is of the archive that was confirmed and, from its first write on,
did decode (`ConfirmedInv`).

The argument for the archive format. A fold is the last of the states of its loop
(`TurnsExist`, `LoopBytes`, `LoopChunks`, `LoopFrames`). If the reader has not failed at
the end, it read each frame in its place and the last one is final (`FramesRead`,
`AcceptedFrames`). Each kind of damage leaves a frame in another's place, one that does
not open, or no final frame at the end (`DamageShows`), and frames of another archive
are sealed for it, so what is accepted was written (`OnlyWritten`). Conversely the
record counter does not see where a chunk ends (`CounterAcrossChunks`): the reader ends
with the counter, the stream and the totals of the writer (`WrittenDecodes`). An upload
that decodes is therefore the stream of the archive of its id (`FormatExact`), which
`VerdictsAreExact` and `RestoresWhatWasConfirmed` need.

The argument for namespaces and backups. The recursive definitions are used through
what they compute, and the induction that this takes is first-order: a set of numbers
that is not empty has a least one (`LeastOf`), so what starts true in an interval and
goes on is true of all of it (`Upwards`), and a step function has its iterates
(`Iterates`). `AllAncestors` is the least set that holds the namespace and is closed
under parents (`AncestorsLeast`): it needs no more rounds than there are namespaces.
A walk is a chain of parents that ends at a root or has all the rows the query returns
(`WalkChain`), and is complete when it ends at a root (`WalkAncestors`). A parent that
passed the depth check has a complete walk (`ShallowWalk`), so the bounded search of
`move_namespace_core` finds every cycle (`MoveForest`). The levels of `read_namespaces`
hold every namespace, by counting: while a namespace is missing, the next level adds
one, because a forest has no set of namespaces whose parents are all in the set, and
there are as many levels as namespaces (`LevelsCover`).

The inductive invariant `PortableInv` says that the tables are whole (`VaultHeld`), and
that a living idempotency key names a namespace (`ReservedHeld`), which a replayed
creation needs. Each request shows it for the tables it changed (`HeldAfter`). For a
whole vault the stream decodes to the same rows (`DecodedTables`, `DecodedNamespaces`),
every row is accepted (`BackupImportable`), the restored tables are the old ones but for
authenticators, credentials, epoch and commitment (`RestoredTables`) and are whole again
(`RestoredHeld`), and the verification has only three reasons left to refuse
(`VerifiedWhen`). For a move, a resource that is not below the moved namespace has no
longer a walk than before (`WalkElsewhere`), and one below it has its old ancestors and
those of the new parent (`MovedAncestors`), which the delta compared.

Only model-checked: liveness (`RotationCompletes`, `JobsEnd`,
`RegistryReopens`, `ChannelCloses`, `InstallationSettles`), which needs fairness
and `ENABLED`, both out of the prover's reach; and `NoDeadlock`, for three threads. The
reason it holds is an order: every request takes the authorization gate before the
audit gate and that before the connection, the ring or the root key, each of which it
drops before it takes another; the ceremonies and the readiness permit come on top of
it without closing a circle.

## 6. Not modelled

- Cryptographic algorithms, key derivation, record encodings, file permissions,
  migrations, HTTP routing and JSON, argument parsing, the web pages: they have no
  state that interleaves, or are libraries.
- The rate limiters: tables with a bound that only refuse requests.
- Rename and archive of a namespace, metadata of identities and policies, listings:
  single transactions on fields that no property is about.
- `recover_local_owner`: see the observations.
- A lock poisoned by a panic, which ends the service.
- Faults of the disk below SQLite and the file system's own guarantees: a
  transaction is atomic, and what was synced stays.
