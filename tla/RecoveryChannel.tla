--------------------------- MODULE RecoveryChannel ---------------------------
(***************************************************************************)
(* Recovery on a new host: the single-use local channel of                 *)
(* crates/smcv-cli/src/recovery_web.rs, the archive it is given (module    *)
(* ArchiveFormat), and the installation that the restore makes (module     *)
(* Installation) while other processes may start up on the same paths.     *)
(*                                                                         *)
(* A request of the browser is a handler that waits in several places and  *)
(* may be dropped in each of them when the browser disconnects; what it    *)
(* has spawned on a blocking thread goes on.                               *)
(***************************************************************************)
EXTENDS ArchiveFormat, Installation

CONSTANTS
    Request,        \* the requests that are served at a time
    Channel,        \* the restorer of the channel
    Archive,        \* archives of the vault: their ids
    Stream,         \* the logical stream of each
    ChunkSizes,     \* the chunk sizes they may be written with
    MaxCommands,    \* bound: restores from the command line
    Key, WrongKey

ASSUME ChannelAssumption ==
    /\ Channel \in Restorer /\ Key # WrongKey
    /\ ChunkSizes \subseteq Nat \ {0}

\* encode_logical_snapshot makes a stream of whole records within the limits;
\* write_archive refuses any other.
ASSUME StreamAssumption ==
    /\ << >> # None
    /\ \A a \in Archive :
         /\ Stream[a] \in Seq(Nat) /\ Stream[a] # None
         /\ counter_finishes(counter_update(counter_new, Stream[a]))

VARIABLES
    channel,    \* RecoveryState
    req         \* the handlers

vars == <<root, path, disk, proc, crashes, channel, req>>

ArchivedVault == 0      \* the vault of the archives; a new vault has another id
NewChannel ==
    [state |-> "none", expired |-> FALSE, notified |-> FALSE, claimed |-> FALSE, sessions |-> 0,
     reserved |-> FALSE, consumed |-> FALSE, pending |-> None, copy |-> None,
     confirmed |-> None, workspace |-> {}, commands |-> 0]
NoRequest == [pc |-> "idle", upload |-> None]

Files == {write_archive(a, Key, Stream[a], n) : a \in Archive, n \in ChunkSizes}

\* What an upload may be: an archive, or what became of one.
Uploads == Files \union UNION {Damaged(f, g) : f \in Files, g \in Files}

\* An upload that is received: the archive it is by its header, what decode_archive
\* says of it, each time it is read, and whether it is one as it was written.
Received(file, key) ==
    LET decode == decode_archive(file, key)
    IN [archive |-> file.archive_id, ok |-> decode.ok,
        logical |-> IF decode.ok THEN decode.logical ELSE << >>,
        genuine |-> file \in Files /\ key = Key]

UploadsReceived == {Received(f, k) : f \in Uploads, k \in {Key, WrongKey}}

-----------------------------------------------------------------------------
(* run: the destination is new, and then the channel is served.            *)

run ==
    /\ channel.state = "none" /\ proc[Channel].pc = "idle"
    /\ destination_is_new
    /\ channel' = [channel EXCEPT !.state = "open"]
    /\ UNCHANGED <<root, path, disk, proc, crashes, req>>

\* Ten minutes are over.
expire ==
    /\ channel.state = "open" /\ ~channel.expired
    /\ channel' = [channel EXCEPT !.expired = TRUE]
    /\ UNCHANGED <<root, path, disk, proc, crashes, req>>

\* (mutated: only an activation ends it)
ShutDownWhenNotified ==
    /\ channel.state = "open"
    /\ channel.notified
    /\ channel' = [channel EXCEPT !.state = "closing"]
    /\ UNCHANGED <<root, path, disk, proc, crashes, req>>

\* The graceful shutdown: no request is taken any more.
shut_down ==
    /\ channel.state = "open"
    /\ channel.expired \/ channel.notified
    /\ channel' = [channel EXCEPT !.state = "closing"]
    /\ UNCHANGED <<root, path, disk, proc, crashes, req>>

\* What the process held is gone; `confirmed', the files and the bound are not in it.
Ended(state, copy, workspace) ==
    [NewChannel EXCEPT !.state = state, !.copy = copy, !.workspace = workspace,
                       !.confirmed = channel.confirmed, !.commands = channel.commands]

\* The requests being served have ended: the workspace is removed.  A restore that is
\* under way goes on, on its thread.
close ==
    /\ channel.state = "closing"
    /\ \A q \in Request : req[q].pc = "idle"
    /\ channel' = Ended("closed", channel.copy, {})
    /\ UNCHANGED <<root, path, disk, proc, crashes, req>>

-----------------------------------------------------------------------------
(* The handlers.                                                           *)

At(q, pc) == req[q].pc = pc
Wait(q, pc) == req' = [req EXCEPT ![q].pc = pc]
Answer(q) == req' = [req EXCEPT ![q] = NoRequest]

\* claim_channel, before it waits for the body.
claim_channel(q) ==
    /\ channel.state = "open" /\ At(q, "idle")
    /\ ~channel.expired /\ ~channel.claimed
    /\ Wait(q, "claiming")
    /\ UNCHANGED <<root, path, disk, proc, crashes, channel>>

claimed(q) ==
    /\ At(q, "claiming")
    /\ channel' = [channel EXCEPT !.claimed = TRUE,
                                  !.sessions = IF channel.claimed THEN @ ELSE @ + 1]
    /\ Answer(q)
    /\ UNCHANGED <<root, path, disk, proc, crashes>>

authorize == channel.state = "open" /\ ~channel.expired /\ ~channel.consumed /\ channel.sessions > 0

\* verify_archive: the one place for an archive is reserved before the upload.
verify_archive(q) ==
    /\ At(q, "idle") /\ authorize
    /\ ~channel.reserved
    /\ channel' = [channel EXCEPT !.reserved = TRUE]
    /\ Wait(q, "uploading")
    /\ UNCHANGED <<root, path, disk, proc, crashes>>

\* The body is not a multipart one: an early return without a release.
extract_fails(q) ==
    /\ At(q, "uploading")
    /\ Answer(q)
    /\ UNCHANGED <<root, path, disk, proc, crashes, channel>>

\* receive_upload writes the file and reads the key.
receive_upload(q, file, key) ==
    /\ At(q, "uploading")
    /\ req' = [req EXCEPT ![q] = [pc |-> "verifying", upload |-> Received(file, key)]]
    /\ channel' = [channel EXCEPT !.workspace = @ \union {q}]
    /\ UNCHANGED <<root, path, disk, proc, crashes>>

receive_fails(q) ==
    /\ At(q, "uploading")
    /\ channel' = [channel EXCEPT !.reserved = FALSE]
    /\ Answer(q)
    /\ UNCHANGED <<root, path, disk, proc, crashes>>

release(q) == channel' = [channel EXCEPT !.workspace = @ \ {q}, !.reserved = FALSE]

\* prepare_key_and_verify refuses it.
refuse_archive(q) ==
    /\ At(q, "verifying")
    /\ ~req[q].upload.ok
    /\ release(q)
    /\ Answer(q)
    /\ UNCHANGED <<root, path, disk, proc, crashes>>

stage_archive(q) ==
    /\ At(q, "verifying")
    /\ req[q].upload.ok
    /\ channel' = [channel EXCEPT !.pending = [upload |-> req[q].upload, copy |-> q]]
    /\ Answer(q)
    /\ UNCHANGED <<root, path, disk, proc, crashes>>

\* activate_restore, before it waits for the body.
activate_restore(q) ==
    /\ At(q, "idle") /\ authorize
    /\ Wait(q, "confirming")
    /\ UNCHANGED <<root, path, disk, proc, crashes, channel>>

\* (mutated: whatever is staged is restored)
AnyStaged(archive) == channel.pending # None /\ ~channel.consumed

\* The staged archive is the one that is confirmed, and the channel is not consumed.
confirmed_is_staged(archive) ==
    /\ channel.pending # None /\ channel.pending.upload.archive = archive
    /\ ~channel.consumed

\* The restore runs on a blocking thread.
consume(q, archive) ==
    /\ At(q, "confirming")
    /\ confirmed_is_staged(archive)
    /\ channel' = [channel EXCEPT !.consumed = TRUE, !.pending = None,
                                  !.copy = channel.pending.copy, !.confirmed = archive]
    /\ Wait(q, "restoring")
    /\ begin_restore(Channel, channel.pending.upload)

\* restore_backup_file finds that the destination is not new any more.
consume_refused(q, archive) ==
    /\ At(q, "confirming")
    /\ confirmed_is_staged(archive)
    /\ ~destination_is_new
    /\ channel' = [channel EXCEPT !.consumed = TRUE, !.pending = None,
                                  !.workspace = @ \ {channel.pending.copy}, !.notified = TRUE]
    /\ Answer(q)
    /\ UNCHANGED <<root, path, disk, proc, crashes>>

confirm_refused(q, archive) ==
    /\ At(q, "confirming")
    /\ ~confirmed_is_staged(archive)
    /\ Answer(q)
    /\ UNCHANGED <<root, path, disk, proc, crashes, channel>>

\* The restore has ended, well or not: its thread removes the archive.
remove_staged ==
    /\ channel.copy # None /\ proc[Channel].pc = "idle"
    /\ channel' = [channel EXCEPT !.workspace = @ \ {channel.copy}, !.copy = None]
    /\ UNCHANGED <<root, path, disk, proc, crashes, req>>

activation_answer(q) ==
    /\ At(q, "restoring") /\ channel.copy = None
    /\ channel' = [channel EXCEPT !.notified = TRUE]
    /\ Answer(q)
    /\ UNCHANGED <<root, path, disk, proc, crashes>>

\* The browser disconnects: the handler is dropped where it waits.
disconnect(q) ==
    /\ ~At(q, "idle")
    /\ Answer(q)
    /\ UNCHANGED <<root, path, disk, proc, crashes, channel>>

\* The process of the channel is killed; the files stay.
channel_crash ==
    /\ channel.state \in {"open", "closing"} \/ proc[Channel].pc # "idle"
    /\ crashes < MaxCrashes
    /\ crashes' = crashes + 1
    /\ channel' = Ended("killed", None, channel.workspace)
    /\ req' = [q \in Request |-> NoRequest]
    /\ Stop(Channel)
    /\ UNCHANGED files

-----------------------------------------------------------------------------
(* The restore of an archive: what it decodes is what it imports.          *)

restore(r) ==
    /\ proc[r].pc # "idle"
    /\ \/ proc[r].archive.ok /\ decoded(r)
       \/ Restore(r, ArchivedVault, proc[r].archive.logical)

\* smcv restore, from the command line, when there is no channel any more.
restore_command(file) ==
    /\ channel.state \in {"closed", "killed"} /\ channel.commands < MaxCommands
    /\ begin_restore(Channel, Received(file, Key))
    /\ channel' = [channel EXCEPT !.confirmed = file.archive_id, !.commands = @ + 1]
    /\ UNCHANGED req

Init ==
    /\ InitInstallation
    /\ channel = NewChannel
    /\ req = [q \in Request |-> NoRequest]

Claiming(q) == claim_channel(q) \/ claimed(q)

Verifying(q) ==
    \/ verify_archive(q) \/ extract_fails(q) \/ receive_fails(q)
    \/ \E f \in Uploads : receive_upload(q, f, Key)
    \/ \E f \in Files : receive_upload(q, f, WrongKey)
    \/ refuse_archive(q) \/ stage_archive(q)

Activating(q) ==
    \/ activate_restore(q)
    \/ \E a \in Archive : consume(q, a) \/ consume_refused(q, a) \/ confirm_refused(q, a)
    \/ activation_answer(q)

Others(p) == Startup(p) /\ UNCHANGED <<channel, req>>

Restores(r) == restore(r) /\ UNCHANGED <<channel, req>>

Next ==
    \/ run \/ expire \/ shut_down \/ close \/ remove_staged \/ channel_crash
    \/ \E q \in Request : Claiming(q) \/ Verifying(q) \/ Activating(q) \/ disconnect(q)
    \/ \E p \in Starter : Others(p)
    \/ \E r \in Restorer : Restores(r)
    \/ \E f \in Files : restore_command(f)
    \/ \E p \in Process \ {Channel} : crash(p) /\ UNCHANGED <<channel, req>>

\* What a handler does without the browser: it reads the archive back, or waits for
\* the restore.
Handles(q) == refuse_archive(q) \/ stage_archive(q) \/ activation_answer(q)

\* A process that runs goes on, the clock too, and whoever could not start tries
\* again.  Of the browser nothing is assumed: it may neither send the rest of a body
\* nor disconnect.
Fairness ==
    /\ WF_vars(expire) /\ WF_vars(shut_down) /\ WF_vars(close) /\ WF_vars(remove_staged)
    /\ \A q \in Request : WF_vars(Handles(q))
    /\ \A p \in Starter : WF_vars(Others(p))
    /\ \A r \in Restorer : WF_vars(Restores(r))

Spec == Init /\ [][Next]_vars /\ Fairness

-----------------------------------------------------------------------------
\* What a restore imports is, byte for byte, the logical stream written to the
\* archive whose id was confirmed in activate_restore (or given to the command),
\* whatever else was uploaded before.
RestoredIsConfirmed ==
    path # None /\ disk[path].rows # None => disk[path].rows = Stream[channel.confirmed]

\* A verification accepts an archive with its key and nothing else: no frame is
\* lost, repeated, moved, altered or taken from elsewhere, nothing is appended,
\* and no chunking makes the record counter refuse what was written.
VerdictExact ==
    \A q \in Request :
       At(q, "verifying") => (req[q].upload.ok <=> req[q].upload.genuine)

\* A handler that waits for the rest of a request's body: no timeout ends the wait.
AwaitsBrowser == \E q \in Request : req[q].pc \in {"claiming", "uploading", "confirming"}

\* Once it is told to or its ten minutes are over, the recovery channel closes, and
\* what a verification or a restore does never keeps it open: only a browser that
\* has not finished a request it began does, since with_graceful_shutdown waits for
\* the handlers.
ChannelCloses ==
    channel.state \in {"open", "closing"} ~>
       \/ channel.state \in {"closed", "killed"}
       \/ channel.state = "closing" /\ AwaitsBrowser

\* What the channel announces when it is opened (run), and the recovery guide says:
\* it closes after one activation attempt or ten minutes, whatever the browser does.
ChannelExpires == channel.state = "open" ~> channel.state \in {"closed", "killed"}

\* A vault that is ready is whole: one that a restore began has its rows and its
\* audit event and no guard, whoever else tried to activate it.
ReadyMeansWhole ==
    path # None /\ disk[path].state = "ready" =>
       /\ disk[path].begun \in Restorer
            => disk[path].rows # None /\ disk[path].audited /\ ~disk[path].guard
       /\ disk[path].begun \in Starter => disk[path].rows = None

\* A ready vault has the root key file that opens it, unless another process was
\* restoring to the same paths when its database was created.
ReadyVaultOpens ==
    path # None /\ disk[path].state = "ready" /\ disk[path].amid \subseteq {disk[path].begun} =>
       /\ root # None /\ root.whole
       /\ root.installation = disk[path].installation /\ root.vault = disk[path].vault

\* The cleanup of a failed restore removes a ready vault only if that restore was
\* under way when the database was created: it saw the destination empty.
ReadyVaultStays ==
    [][path # None /\ disk[path].state = "ready" /\ path' # path =>
          \E r \in disk[path].amid : proc[r].pc = "removing database"]_vars

\* What startup cannot repair: half a root key file, a database whose root key is
\* missing or another's, and a restore that was interrupted.
NeedsHelp ==
    \/ root # None /\ ~root.whole
    \/ path # None /\ disk[path].guard
    \/ path # None /\ disk[path].installation # 0
         /\ (IF root = None THEN TRUE ELSE root.installation # disk[path].installation)

\* Startup completes over crashes: what an interrupted initialize_vault left is
\* taken up, and a vault becomes ready, unless help is needed.
InstallationSettles == <>[](NeedsHelp \/ (path # None /\ disk[path].state = "ready"))
=============================================================================
