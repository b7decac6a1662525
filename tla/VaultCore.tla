----------------------------- MODULE VaultCore -----------------------------
(***************************************************************************)
(* Encrypted secret records, their immutable versions and the hash-chained *)
(* audit log: crates/smcv-app/src/vault_core.rs over the transactions of   *)
(* crates/smcv-storage/src/records.rs.                                     *)
(*                                                                         *)
(* Every request runs on its own thread.  The store is one                 *)
(* Mutex<Connection>, so one storage call is one step; between two calls   *)
(* of the same request any other request may run.  An audited operation    *)
(* reads what it needs, then locks audit_gate and builds its event on the  *)
(* head it reads there (build_audit), then commits its effect and the      *)
(* event in one transaction; the gate is released when the event is        *)
(* dropped, after the transaction.                                         *)
(*                                                                         *)
(* Ciphertexts are abstracted to the value they protect and keyed state    *)
(* commitments to the state they commit to: nobody tampers with the file.  *)
(* All secrets live in one namespace, so a name is a name_index.           *)
(***************************************************************************)
EXTENDS Integers, Sequences, FiniteSets

CONSTANTS
    Request,        \* threads that serve requests
    SecretId,
    Name,           \* blind indexes of secret names in the namespace
    Value,          \* plaintext values
    Due,            \* whether a version's schedule is due: a subset of BOOLEAN
    None,           \* no row, no request, nothing pending
    MaxSequence     \* the sequence at which checked_add overflows

\* None is no thread, no row of smcv_secrets and no secret of SecretStore.
ASSUME NoneAssumption ==
    LET State == {"active", "archived", "deleted"} IN
    /\ None \notin Request
    /\ None \notin [name : Name, lifecycle_state : State,
                    current_version : Nat \ {0}, revision : Nat \ {0}]
    /\ None \notin [name : Name, state : State, revision : Nat \ {0},
                    values : Seq([value : Value, due : Due])]

ASSUME BoundAssumption == MaxSequence \in Nat /\ Due \subseteq BOOLEAN

VARIABLES
    secrets,        \* smcv_secrets: secret_id -> row or None
    versions,       \* smcv_secret_versions: secret_id -> version -> payload
    tombstones,     \* smcv_secret_tombstones: ids purged once
    audit_events,   \* smcv_audit_events, ordered by sequence
    audit_gate,     \* the request holding a PendingAudit, or None
    pc,             \* the step each thread is at
    call,           \* arguments, and what the operation has read so far
    pending,        \* the PendingAudit of a thread at "commit"
    reply,          \* the last answer sent to a client
    acked,          \* history: writes acknowledged to a client
    readable        \* history: values a running reveal could have returned

store == <<secrets, versions, tombstones, audit_events>>
vars == <<store, audit_gate, pc, call, pending, reply, acked, readable>>

-----------------------------------------------------------------------------
LifecycleState == {"active", "archived", "deleted"}

\* SecretRecord, without the encrypted metadata and the commitments.
SecretRow ==
    [name : Name, lifecycle_state : LifecycleState,
     current_version : Nat \ {0}, revision : Nat \ {0}]

\* One immutable version: its plaintext, and whether its schedule is due.
Payload == [value : Value, due : Due]

\* (mutated: a restore is recorded as an archive)
TransitionMislabelled ==
    {[action |-> "secret:archive", from_state |-> "active",   to_state |-> "archived"],
     [action |-> "secret:archive", from_state |-> "archived", to_state |-> "active"],
     [action |-> "secret:delete",  from_state |-> "active",   to_state |-> "deleted"]}

\* The lifecycle changes the facade offers, with the audit action of each.
Transition ==
    {[action |-> "secret:archive", from_state |-> "active",   to_state |-> "archived"],
     [action |-> "secret:restore", from_state |-> "archived", to_state |-> "active"],
     [action |-> "secret:delete",  from_state |-> "active",   to_state |-> "deleted"]}

\* AuditHead: the sequence of the last event and its commitment.  The keyed
\* commitment covers the event with its random id and the commitment before
\* it; <<sequence, action, target>> tells the events of one log apart.
NoCommitment == <<>>

audit_head ==
    [sequence |-> Len(audit_events),
     commitment |-> IF audit_events = <<>>
                    THEN NoCommitment
                    ELSE audit_events[Len(audit_events)].commitment]

\* What a reader of the current value of s could get from these tables.
Readable(rows, payloads, s) ==
    IF rows[s] = None \/ rows[s].lifecycle_state # "active"
    THEN {}
    ELSE {payloads[s][rows[s].current_version].value}

-----------------------------------------------------------------------------
\* A thread picks up a request: the call record, and the step it goes to.
Begin(r, c, step) ==
    /\ call' = [call EXCEPT ![r] = c]
    /\ pc' = [pc EXCEPT ![r] = step]
    /\ reply' = [status |-> "none"]
    /\ readable' = [q \in Request |->
            IF q = r THEN Readable(secrets, versions, c.secret_id)
            ELSE IF pc[q] = "idle" THEN {} ELSE readable[q]]
    /\ UNCHANGED <<store, audit_gate, pending, acked>>

\* A thread answers its client and is free again.
Reply(r, a) ==
    /\ pc' = [pc EXCEPT ![r] = "idle"]
    /\ call' = [call EXCEPT ![r] = None]
    /\ reply' = a

Fail(r, status) == Reply(r, [request |-> r, status |-> status])

\* A call that fails on what it reads first, before anything is written.
Refuse(r, status) ==
    /\ Fail(r, status)
    /\ UNCHANGED <<store, audit_gate, pending, acked, readable>>

\* A create or update is committed and acknowledged.
Acknowledge(r, ver) ==
    /\ Reply(r, [request |-> r, status |-> "ok"])
    /\ acked' = acked \union {[secret_id |-> call[r].secret_id, version |-> ver,
                               payload |-> call[r].payload]}

\* create_secret_with_id_and_schedule up to build_audit: nothing is read.
create_secret(r, s, n, p) ==
    /\ pc[r] = "idle"
    /\ Begin(r, [action |-> "secret:create", secret_id |-> s, name |-> n, payload |-> p],
             "audit")

\* The precondition of an update, read first and checked again on commit.
at_version(s, ver, rev) ==
    /\ secrets[s] # None
    /\ secrets[s].current_version = ver
    /\ secrets[s].revision = rev
    /\ secrets[s].lifecycle_state = "active"

\* (mutated: the lifecycle state is not compared)
at_revision_in_any_state(s, rev, state) ==
    secrets[s] # None /\ secrets[s].revision = rev

\* The precondition of a lifecycle change or purge, likewise.
at_revision(s, rev, state) ==
    /\ secrets[s] # None
    /\ secrets[s].revision = rev
    /\ secrets[s].lifecycle_state = state

\* update_secret_with_schedule up to the first build_audit.
update_secret(r, s, ver, rev, p) ==
    /\ pc[r] = "idle"
    /\ \/ /\ secrets[s] = None
          /\ Refuse(r, "not_found")
       \/ /\ secrets[s] # None
          /\ ~at_version(s, ver, rev)
          /\ Refuse(r, "conflict")
       \/ /\ at_version(s, ver, rev)
          /\ Begin(r, [action |-> "secret:update", secret_id |-> s, version |-> ver,
                       revision |-> rev, payload |-> p, attempt |-> 1], "audit")

\* change_lifecycle up to build_audit: archive, restore and delete.
change_lifecycle(r, s, rev, t) ==
    /\ pc[r] = "idle"
    /\ \/ /\ secrets[s] = None
          /\ Refuse(r, "not_found")
       \/ /\ secrets[s] # None
          /\ ~at_revision(s, rev, t.from_state)
          /\ Refuse(r, "conflict")
       \/ /\ at_revision(s, rev, t.from_state)
          /\ Begin(r, [action |-> t.action, secret_id |-> s, revision |-> rev,
                       transition |-> t], "audit")

\* purge_secret_after_owner_approval up to build_audit.  retained is the
\* outcome of comparing deleted_at with the caller's retention cutoff.
purge_secret_after_owner_approval(r, s, rev, retained) ==
    /\ pc[r] = "idle"
    /\ \/ /\ secrets[s] = None
          /\ Refuse(r, "not_found")
       \/ /\ secrets[s] # None
          /\ ~at_revision(s, rev, "deleted")
          /\ Refuse(r, "conflict")
       \/ /\ at_revision(s, rev, "deleted")
          /\ Begin(r, [action |-> "secret:purge", secret_id |-> s, revision |-> rev,
                       retained |-> retained], "audit")

\* (mutated: any secret that is not deleted is in ordinary use)
in_use_unless_deleted(s) ==
    secrets[s] # None /\ secrets[s].lifecycle_state # "deleted"

\* Ordinary reads see active secrets only.
in_use(s) == secrets[s] # None /\ secrets[s].lifecycle_state = "active"

\* reveal_current_secret: the state read that picks the version to fetch.
reveal_current_secret(r, s) ==
    /\ pc[r] = "idle"
    /\ \/ /\ ~in_use(s)
          /\ Refuse(r, "not_found")
       \/ /\ in_use(s)
          /\ Begin(r, [action |-> "secret:value-read", secret_id |-> s,
                       version |-> secrets[s].current_version], "fetch")

\* reveal_secret_version: one exact version of a secret not deleted.
reveal_secret_version(r, s, ver) ==
    LET kept == /\ secrets[s] # None
                /\ secrets[s].lifecycle_state # "deleted"
                /\ ver <= secrets[s].current_version
    IN
    /\ pc[r] = "idle"
    /\ \/ /\ ~kept
          /\ Refuse(r, "not_found")
       \/ /\ kept
          /\ Begin(r, [action |-> "secret:version-read", secret_id |-> s,
                       version |-> ver], "fetch")

\* The second storage call of both reveals, and the decryption.
encrypted_secret_version(r) ==
    /\ pc[r] = "fetch"
    /\ LET c == call[r] IN
       \/ /\ c.version \notin DOMAIN versions[c.secret_id]
          /\ Fail(r, "not_found")
       \/ /\ c.version \in DOMAIN versions[c.secret_id]
          /\ call' = [call EXCEPT ![r] =
                [action |-> c.action, secret_id |-> c.secret_id, version |-> c.version,
                 plaintext |-> versions[c.secret_id][c.version].value]]
          /\ pc' = [pc EXCEPT ![r] = "audit"]
          /\ UNCHANGED reply
    /\ UNCHANGED <<store, audit_gate, pending, acked, readable>>

-----------------------------------------------------------------------------
\* head.sequence.checked_add(1) has a result.
sequence_left == audit_head.sequence < MaxSequence

\* (mutated: the event is built without the lock)
audit_gate_skipped == TRUE

\* audit_gate.lock() returns.
audit_gate_free == audit_gate = None

\* build_audit_outcome: take the gate, read the head, build on it.
build_audit(r) ==
    /\ pc[r] = "audit"
    /\ audit_gate_free
    /\ \/ /\ ~sequence_left
          /\ Fail(r, "conflict")
          /\ UNCHANGED <<audit_gate, pending>>
       \/ /\ sequence_left
          /\ audit_gate' = r
          /\ pending' = [pending EXCEPT ![r] =
                [sequence |-> audit_head.sequence + 1,
                 previous_commitment |-> audit_head.commitment,
                 action |-> call[r].action,
                 target_id |-> call[r].secret_id,
                 commitment |-> <<audit_head.sequence + 1, call[r].action,
                                  call[r].secret_id>>]]
          /\ pc' = [pc EXCEPT ![r] = "commit"]
          /\ UNCHANGED <<call, reply>>
    /\ UNCHANGED <<store, acked, readable>>

\* require_audit_head, the first statement of every audited transaction.
require_audit_head(a) ==
    /\ a.sequence = audit_head.sequence + 1
    /\ a.previous_commitment = audit_head.commitment

\* insert_audit, its last statement.
insert_audit(a) == audit_events' = Append(audit_events, a)

\* The PendingAudit is dropped after the transaction: the gate opens.
Release(r) ==
    /\ audit_gate' = None
    /\ pending' = [pending EXCEPT ![r] = None]

\* History: the values that became readable while a call was running.
Watch ==
    readable' = [q \in Request |->
        IF pc[q] = "idle" THEN {}
        ELSE readable[q] \union Readable(secrets', versions', call[q].secret_id)]

\* UNIQUE (namespace_id, name_index) over rows in every lifecycle state.
name_free(n) == \A s \in SecretId : secrets[s] # None => secrets[s].name # n

\* (mutated: the value of every version is replaced)
overwrite_versions(s, ver, p) ==
    versions' = [versions EXCEPT ![s] = [v \in DOMAIN versions[s] \union {ver} |-> p]]

\* insert_version: one more immutable version row.
insert_version(s, ver, p) ==
    versions' = [versions EXCEPT ![s] =
        [v \in DOMAIN versions[s] \union {ver} |-> IF v = ver THEN p ELSE versions[s][v]]]

\* records.rs create_secret: one row, version 1 and the event.  The insert
\* is ignored, and reported as a conflict, when the id or the name exists.
store_create_secret(r) ==
    LET c == call[r]
        applies == /\ require_audit_head(pending[r])
                   /\ secrets[c.secret_id] = None
                   /\ name_free(c.name)
    IN
    /\ pc[r] = "commit"
    /\ c.action = "secret:create"
    /\ \/ /\ applies
          /\ secrets' = [secrets EXCEPT ![c.secret_id] =
                [name |-> c.name, lifecycle_state |-> "active",
                 current_version |-> 1, revision |-> 1]]
          /\ insert_version(c.secret_id, 1, c.payload)
          /\ insert_audit(pending[r])
          /\ Acknowledge(r, 1)
       \/ /\ ~applies
          /\ Fail(r, "conflict")
          /\ UNCHANGED <<secrets, versions, audit_events, acked>>
    /\ UNCHANGED tombstones
    /\ Release(r)
    /\ Watch

\* records.rs append_secret_version, and the rest of the attempt loop of
\* update_secret_with_schedule: after a conflict the row is read again, and
\* only a conflict that left version and revision alone is tried again, once.
append_secret_version(r) ==
    LET c == call[r]
        row == secrets[c.secret_id]
        applies == /\ require_audit_head(pending[r])
                   /\ at_version(c.secret_id, c.version, c.revision)
        again == /\ c.attempt < 2
                 /\ row # None
                 /\ row.current_version = c.version
                 /\ row.revision = c.revision
    IN
    /\ pc[r] = "commit"
    /\ c.action = "secret:update"
    /\ \/ /\ applies
          /\ secrets' = [secrets EXCEPT ![c.secret_id] =
                [row EXCEPT !.current_version = c.version + 1, !.revision = @ + 1]]
          /\ insert_version(c.secret_id, c.version + 1, c.payload)
          /\ insert_audit(pending[r])
          /\ Acknowledge(r, c.version + 1)
       \/ /\ ~applies
          /\ IF again
             THEN /\ call' = [call EXCEPT ![r] = [c EXCEPT !.attempt = 2]]
                  /\ pc' = [pc EXCEPT ![r] = "audit"]
                  /\ reply' = [status |-> "none"]
             ELSE Fail(r, IF row = None THEN "not_found" ELSE "conflict")
          /\ UNCHANGED <<secrets, versions, audit_events, acked>>
    /\ UNCHANGED tombstones
    /\ Release(r)
    /\ Watch

\* records.rs change_secret_lifecycle: one guarded UPDATE and the event.
change_secret_lifecycle(r) ==
    LET c == call[r]
        row == secrets[c.secret_id]
        applies == /\ require_audit_head(pending[r])
                   /\ at_revision(c.secret_id, c.revision, c.transition.from_state)
    IN
    /\ pc[r] = "commit"
    /\ c.action \in {t.action : t \in Transition}
    /\ \/ /\ applies
          /\ secrets' = [secrets EXCEPT ![c.secret_id] =
                [row EXCEPT !.lifecycle_state = c.transition.to_state,
                            !.revision = c.revision + 1]]
          /\ insert_audit(pending[r])
          /\ Reply(r, [request |-> r, status |-> "ok"])
       \/ /\ ~applies
          /\ Fail(r, "conflict")
          /\ UNCHANGED <<secrets, audit_events>>
    /\ UNCHANGED <<versions, tombstones, acked>>
    /\ Release(r)
    /\ Watch

\* DELETE FROM smcv_secret_versions WHERE secret_id = s.
delete_versions(s) == versions' = [versions EXCEPT ![s] = <<>>]

\* records.rs purge_secret: the tombstone, whose key is the secret id, then
\* the versions and the row go, in one transaction with the event.
purge_secret(r) ==
    LET c == call[r]
        applies == /\ require_audit_head(pending[r])
                   /\ at_revision(c.secret_id, c.revision, "deleted")
                   /\ ~c.retained
    IN
    /\ pc[r] = "commit"
    /\ c.action = "secret:purge"
    /\ \/ /\ applies
          /\ c.secret_id \notin tombstones
          /\ tombstones' = tombstones \union {c.secret_id}
          /\ delete_versions(c.secret_id)
          /\ secrets' = [secrets EXCEPT ![c.secret_id] = None]
          /\ insert_audit(pending[r])
          /\ Reply(r, [request |-> r, status |-> "ok"])
       \/ /\ ~applies
          /\ Fail(r, "conflict")
          /\ UNCHANGED store
       \/ /\ applies
          /\ c.secret_id \in tombstones
          /\ Fail(r, "unavailable")
          /\ UNCHANGED store
    /\ UNCHANGED acked
    /\ Release(r)
    /\ Watch

\* records.rs append_audit: the event of a reveal; only then is the
\* plaintext handed to the caller.
append_audit(r) ==
    LET c == call[r] IN
    /\ pc[r] = "commit"
    /\ c.action \in {"secret:value-read", "secret:version-read"}
    /\ IF require_audit_head(pending[r])
       THEN /\ insert_audit(pending[r])
            /\ Reply(r, [request |-> r, status |-> "revealed", action |-> c.action,
                         secret_id |-> c.secret_id, plaintext |-> c.plaintext])
       ELSE /\ Fail(r, "conflict")
            /\ UNCHANGED audit_events
    /\ UNCHANGED <<secrets, versions, tombstones, acked>>
    /\ Release(r)
    /\ Watch

-----------------------------------------------------------------------------
\* The process stops: threads, gate and pending events are gone; what was
\* committed stays.  A client whose answer was lost does not know the outcome.
Crash ==
    /\ audit_gate' = None
    /\ pc' = [r \in Request |-> "idle"]
    /\ call' = [r \in Request |-> None]
    /\ pending' = [r \in Request |-> None]
    /\ reply' = [status |-> "none"]
    /\ readable' = [r \in Request |-> {}]
    /\ UNCHANGED <<store, acked>>

Init ==
    /\ secrets = [s \in SecretId |-> None]
    /\ versions = [s \in SecretId |-> <<>>]
    /\ tombstones = {}
    /\ audit_events = <<>>
    /\ audit_gate = None
    /\ pc = [r \in Request |-> "idle"]
    /\ call = [r \in Request |-> None]
    /\ pending = [r \in Request |-> None]
    /\ reply = [status |-> "none"]
    /\ acked = {}
    /\ readable = [r \in Request |-> {}]

\* Versions and revisions never exceed the number of events.
Counter == 1..MaxSequence

\* A client's request reaches a free thread.
Arrive(r) ==
    \E s \in SecretId :
        \/ \E n \in Name, p \in Payload : create_secret(r, s, n, p)
        \/ \E ver, rev \in Counter, p \in Payload : update_secret(r, s, ver, rev, p)
        \/ \E rev \in Counter, t \in Transition : change_lifecycle(r, s, rev, t)
        \/ \E rev \in Counter, retained \in BOOLEAN :
              purge_secret_after_owner_approval(r, s, rev, retained)
        \/ reveal_current_secret(r, s)
        \/ \E ver \in Counter : reveal_secret_version(r, s, ver)

\* A thread that serves a request takes its next step.
Step(r) ==
    \/ encrypted_secret_version(r)
    \/ build_audit(r)
    \/ store_create_secret(r)
    \/ append_secret_version(r)
    \/ change_secret_lifecycle(r)
    \/ purge_secret(r)
    \/ append_audit(r)

Next == Crash \/ \E r \in Request : Arrive(r) \/ Step(r)

Spec == Init /\ [][Next]_vars

-----------------------------------------------------------------------------
Mutation ==
    {"secret:create", "secret:update", "secret:archive", "secret:restore",
     "secret:delete", "secret:purge"}

Reading == {"secret:value-read", "secret:version-read"}

Commitment == Counter \X (Mutation \union Reading) \X SecretId

Event ==
    [sequence : Counter, action : Mutation \union Reading, target_id : SecretId,
     previous_commitment : {NoCommitment} \union Commitment, commitment : Commitment]

CreateCall ==
    [action : {"secret:create"}, secret_id : SecretId, name : Name, payload : Payload]

UpdateCall ==
    [action : {"secret:update"}, secret_id : SecretId, version : Counter,
     revision : Counter, payload : Payload, attempt : 1..2]

LifecycleCall ==
    {c \in [action : {"secret:archive", "secret:restore", "secret:delete"},
            secret_id : SecretId, revision : Counter, transition : Transition] :
        c.action = c.transition.action}

PurgeCall ==
    [action : {"secret:purge"}, secret_id : SecretId, revision : Counter,
     retained : BOOLEAN]

FetchCall == [action : Reading, secret_id : SecretId, version : Nat \ {0}]

RevealCall ==
    [action : Reading, secret_id : SecretId, version : Nat \ {0}, plaintext : Value]

AuditedCall == CreateCall \union UpdateCall \union LifecycleCall \union PurgeCall
               \union RevealCall

\* Types, what a thread knows at each step, and the bound that the checked
\* increment of the sequence keeps.
TypeOK ==
    /\ secrets \in [SecretId -> SecretRow \union {None}]
    /\ versions \in [SecretId -> Seq(Payload)]
    /\ tombstones \subseteq SecretId
    /\ audit_events \in Seq(Event)
    /\ Len(audit_events) <= MaxSequence
    /\ audit_gate \in Request \union {None}
    /\ pc \in [Request -> {"idle", "fetch", "audit", "commit"}]
    /\ DOMAIN call = Request /\ DOMAIN pending = Request
    /\ \A r \in Request :
          /\ pc[r] = "fetch" => call[r] \in FetchCall
          /\ pc[r] \in {"audit", "commit"} => call[r] \in AuditedCall
          /\ pc[r] = "commit" => pending[r] \in Event
    /\ acked \subseteq [secret_id : SecretId, version : Nat \ {0}, payload : Payload]
    /\ readable \in [Request -> SUBSET Value]

\* DATA_MODEL.md core invariant 1, made exact: the version rows of a live
\* secret are 1..current_version, so the current version exists and no number
\* was skipped; a purged or never created secret has no version row left.
VersionsContiguous ==
    \A s \in SecretId :
        DOMAIN versions[s] = IF secrets[s] = None THEN {} ELSE 1..secrets[s].current_version

\* No two rows share a name, even in different lifecycle states: racing
\* creates of one name leave one secret.
NamesUnique ==
    \A s, t \in SecretId :
        /\ secrets[s] # None /\ secrets[t] # None
        /\ secrets[s].name = secrets[t].name
        => s = t

\* The gate does its work: whoever is about to commit an event holds the gate
\* and built the event on the head that is still the head.  No operation
\* fails because another one audited at the same time, so the second attempt
\* of update_secret_with_schedule is never needed in one process.
HeadNeverStale ==
    \A r \in Request :
        pc[r] = "commit" => audit_gate = r /\ require_audit_head(pending[r])

\* Every event sits at its sequence and commits to the event before it: what
\* verify_audit_chain accepts.
AuditChained ==
    \A i \in 1..Len(audit_events) :
        /\ audit_events[i].sequence = i
        /\ audit_events[i].previous_commitment =
              IF i = 1 THEN NoCommitment ELSE audit_events[i - 1].commitment

\* Indexes of the events of a log about s, from c on, whose action is in A.
EventsOf(events, s, A, c) ==
    {i \in c..Len(events) : events[i].target_id = s /\ events[i].action \in A}

\* The lifecycle state an event leaves its secret in.
StateAfter ==
    [a \in {"secret:create", "secret:update", "secret:archive", "secret:restore",
            "secret:delete"} |->
        CASE a = "secret:archive" -> "archived"
          [] a = "secret:delete" -> "deleted"
          [] OTHER -> "active"]

\* The log accounts for the whole state, also across crashes: an existing
\* secret was created by an event after which nothing recreated or purged it;
\* its revision counts the mutations since, its version the values written
\* since, and the last of them left it in its lifecycle state.  A secret that
\* does not exist has a purge after each of its creations.
AuditExplainsState ==
    \A s \in SecretId :
        LET Of(A, c) == EventsOf(audit_events, s, A, c) IN
        IF secrets[s] = None
        THEN \A c \in Of({"secret:create"}, 1) : Of({"secret:purge"}, c) # {}
        ELSE \E c \in Of({"secret:create"}, 1) :
                /\ Of({"secret:create", "secret:purge"}, c) = {c}
                /\ secrets[s].revision = Cardinality(Of(Mutation, c))
                /\ secrets[s].current_version =
                      Cardinality(Of({"secret:create", "secret:update"}, c))
                /\ \E last \in Of(Mutation, c) :
                      /\ Of(Mutation, last) = {last}
                      /\ secrets[s].lifecycle_state = StateAfter[audit_events[last].action]

\* No lost update: an acknowledged create or update is still there under the
\* version that was acknowledged, whatever ran since and however often the
\* process crashed, until the secret is purged.
AckedWriteDurable ==
    \A w \in acked :
        w.secret_id \notin tombstones =>
            /\ w.version \in DOMAIN versions[w.secret_id]
            /\ versions[w.secret_id][w.version] = w.payload

\* DATA_MODEL.md core invariant 8: plaintext reaches a client only with its
\* event at the end of the log.  And a current value handed out was the value
\* of an active secret at some time during the call, although the version
\* number and the version were read apart.
RevealAuditedAndCurrent ==
    reply.status = "revealed" =>
        /\ audit_events # <<>>
        /\ audit_events[Len(audit_events)].action = reply.action
        /\ audit_events[Len(audit_events)].target_id = reply.secret_id
        /\ reply.action = "secret:value-read" => reply.plaintext \in readable[reply.request]

\* A row with its versions, and the log, as SecretStore sees them.
StoredRow(row, payloads) ==
    IF row = None THEN None
    ELSE [name |-> row.name, state |-> row.lifecycle_state,
          revision |-> row.revision, values |-> payloads]

StoredSecret == [s \in SecretId |-> StoredRow(secrets[s], versions[s])]

StoredLog == [i \in DOMAIN audit_events |->
                <<audit_events[i].action, audit_events[i].target_id>>]

Promise == INSTANCE SecretStore WITH
    secret <- StoredSecret, retired <- tombstones, log <- StoredLog

\* The vault core implements the atomic store: a transaction that commits is
\* the operation happening at one instant, every other step is invisible.
ImplementsStore == Promise!Spec
=============================================================================
