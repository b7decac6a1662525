---------------------------- MODULE KekRotation ----------------------------
(***************************************************************************)
(* Rotation of the vault key-encryption key (KEK) and of the root provider *)
(* that wraps it, with the writers and readers that run meanwhile:         *)
(* crates/smcv-app/src/rotation.rs and the key ring of initialization.rs,  *)
(* over the transactions of crates/smcv-storage/src/rotation.rs.           *)
(*                                                                         *)
(* A rotation commits a new active KEK and a durable job, installs the key *)
(* in the in-memory ring, rewraps the data keys (DEKs) of every table in   *)
(* batches behind a checkpoint, and retires the old KEK.  A writer seals   *)
(* its record under the KEK the ring holds active, and only later locks    *)
(* audit_gate and commits it.                                              *)
(*                                                                         *)
(* A step is one storage call or one access of the ring.  Taking           *)
(* audit_gate is merged into the transaction that follows it: in between   *)
(* the thread touches nothing another thread can see.  The gate stays      *)
(* taken where the code goes on after its commit.  The audit log is that   *)
(* of module VaultCore and left out.  A wrapped DEK is the identity it was *)
(* sealed for (the authenticated context) under a KEK version.             *)
(***************************************************************************)
EXTENDS Integers, Sequences, FiniteSets, FiniteSetsExt

CONSTANTS
    Thread,
    Object,             \* identities of records
    Provider,           \* root provider files that can exist
    FirstProvider,
    Operation,          \* the operations that clients call
    None,
    AuxiliaryRows,      \* keys of smcv_key_registry wrapped by a KEK
    MaxKeyVersion,      \* the key version at which checked_add overflows
    MaxRow,             \* bound: rows of one table
    MaxObjectVersion,   \* bound: versions of one secret
    MaxBatches,         \* bound: batches one call of resume may commit
    BatchSize,
    MaxCrashes          \* bound: crashes of the process

ASSUME RotationAssumption ==
    /\ FirstProvider \in Provider /\ None \notin Provider \union Thread
    /\ MaxRow \in Nat /\ AuxiliaryRows \in 1..MaxRow
    /\ {MaxKeyVersion, BatchSize, MaxBatches} \subseteq Nat \ {0}
    /\ MaxCrashes \in Nat
    /\ "auxiliary" \notin Operation    \* its keys are those of the initialisation

VARIABLES
    registry,           \* smcv_key_registry, kind 'kek': version -> state, wrapping root
    installation,       \* smcv_installation_state: activation_state, active_kek_version
    job,                \* the unfinished 'kek_rotation' row of smcv_maintenance_jobs
    rows,               \* table -> rowid -> encrypted row
    providers,          \* root provider files on disk
    ring,               \* key_ring in memory
    root,               \* root_key in memory; None while the process is down
    audit_gate,         \* the thread that keeps a PendingAudit across steps
    call,               \* what each thread is doing
    crashes

stored == <<registry, installation, job, rows, providers>>
memory == <<ring, root>>
vars == <<stored, memory, audit_gate, call, crashes>>

-----------------------------------------------------------------------------
Version == 1..MaxKeyVersion

\* RotationStage, in order; a stage scans the table of its name.
Stages == <<"auxiliary", "namespace_metadata", "secret_metadata", "secret_versions", "finalize">>
Scanned == {Stages[i] : i \in 1..4}
Table == Scanned \union {"service_identities", "policies"}

\* A record in its version: the context that its wrapped DEK is bound to.
Identity == Object \X (1..MaxObjectVersion)

\* An encrypted row: the record, the identity its DEK was sealed for, the KEK.
\* late is history: the row was committed under a KEK no longer active.
Row == [id : Identity \union {<<None, i>> : i \in 1..MaxRow},
        dek : Identity \union {<<None, i>> : i \in 1..MaxRow}, kek : Version,
        late : BOOLEAN]

\* The maintenance job: the two versions, the stage and the last rowid it rewrapped.
Job == [source : Version, target : Version, stage : 1..5, last : 0..MaxRow]

ASSUME AbsenceAssumption == None \notin Job

Idle == [pc |-> "idle"]
Goto(t, c) == call' = [call EXCEPT ![t] = c]
Return(t) == Goto(t, Idle)

Rows(t) == {rows[t][i] : i \in DOMAIN rows[t]}
Nonretired == {v \in Version : registry[v].state \in {"active", "retiring"}}
Running == root # None
Unlocked(t) == audit_gate \in {None, t}

\* Calls a client makes while the process runs and the thread is free.
Called(t, op) == Running /\ call[t].pc = "idle" /\ op \in Operation

-----------------------------------------------------------------------------
\* KeyRing in memory.
with_kek(v) == v \in ring.keys

\* (mutated: the new key is not made the active one)
keep_active_kek(v) ==
    ring' = [ring EXCEPT !.keys = @ \union {v}]

\* (mutated: the new key takes the place of the old one)
replace_active_kek(v) ==
    ring' = [active |-> v, keys |-> {v}]

\* A version that the ring holds, or that is not above its active one, is an
\* error and leaves the ring alone.
install_active_kek(v) ==
    ring' = IF v \in ring.keys \/ v <= ring.active
            THEN ring
            ELSE [active |-> v, keys |-> ring.keys \union {v}]

retire_kek(v) ==
    ring' = IF v = ring.active THEN ring ELSE [ring EXCEPT !.keys = @ \ {v}]

-----------------------------------------------------------------------------
\* Records that are written: create_namespace_with_id, create_secret_with_id,
\* update_secret, create_service_identity and create_policy.
KnownTo(c) ==
    CASE c.pc = "seal" -> {c.plan[i].id[1] : i \in DOMAIN c.plan}
      [] c.pc \in {"rewrap", "apply"} -> {c.items[i].id[1] : i \in DOMAIN c.items}
      [] OTHER -> {}

\* ObjectId::random(): an identity that is nowhere in use.
Random ==
    Object \ (UNION {KnownTo(call[t]) : t \in Thread}
              \union {r.id[1] : r \in UNION {Rows(t) : t \in Table}})

Written(t, plan) == Goto(t, [pc |-> "seal", plan |-> plan, sealed |-> <<>>])

create_record(t, table) ==
    /\ Called(t, table)
    /\ \E o \in Random : Written(t, <<[table |-> table, id |-> <<o, 1>>]>>)
    /\ UNCHANGED <<stored, memory, audit_gate, crashes>>

create_secret(t) ==
    /\ Called(t, "create_secret")
    /\ \E o \in Random :
          Written(t, <<[table |-> "secret_metadata", id |-> <<o, 1>>],
                       [table |-> "secret_versions", id |-> <<o, 1>>]>>)
    /\ UNCHANGED <<stored, memory, audit_gate, crashes>>

Latest(o) == Max({r.id[2] : r \in {q \in Rows("secret_versions") : q.id[1] = o}})

update_secret(t) ==
    /\ Called(t, "update_secret")
    /\ \E r \in Rows("secret_metadata") :
          /\ Latest(r.id[1]) < MaxObjectVersion
          /\ Written(t, <<[table |-> "secret_versions",
                           id |-> <<r.id[1], Latest(r.id[1]) + 1>>]>>)
    /\ UNCHANGED <<stored, memory, audit_gate, crashes>>

\* encrypt_record for the next part: with_active_kek.
encrypt_record(t) ==
    /\ call[t].pc = "seal" /\ Len(call[t].sealed) < Len(call[t].plan)
    /\ Goto(t, [call[t] EXCEPT !.sealed = Append(@, ring.active)])
    /\ UNCHANGED <<stored, memory, audit_gate, crashes>>

NextRow(t) == IF DOMAIN rows[t] = {} THEN 1 ELSE Max(DOMAIN rows[t]) + 1

Insert(t, r) ==
    [i \in DOMAIN rows[t] \union {NextRow(t)} |-> IF i = NextRow(t) THEN r ELSE rows[t][i]]

\* build_audit and the transaction that inserts every part.  An update whose
\* secret was purged or got that version meanwhile is a conflict, and a table
\* that is full refuses the row.
commit_records(t) ==
    LET c == call[t]
        Part(table) == {i \in DOMAIN c.plan : c.plan[i].table = table}
        Stale(p) ==
            /\ p.id[2] > 1
            /\ \/ p.id \in {r.id : r \in Rows(p.table)}
               \/ <<p.id[1], 1>> \notin {r.id : r \in Rows("secret_metadata")}
    IN  /\ c.pc = "seal" /\ Len(c.sealed) = Len(c.plan)
        /\ Unlocked(t)
        /\ rows' = IF \E i \in DOMAIN c.plan :
                          Stale(c.plan[i]) \/ NextRow(c.plan[i].table) > MaxRow
                   THEN rows
                   ELSE [table \in Table |->
                            IF Part(table) = {}
                            THEN rows[table]
                            ELSE LET i == CHOOSE i \in Part(table) : TRUE
                                     p == c.plan[i]
                                 IN  Insert(table,
                                         [id |-> p.id, dek |-> p.id, kek |-> c.sealed[i],
                                          late |-> c.sealed[i] # installation.active_kek_version])]
        /\ Return(t)
        /\ UNCHANGED <<registry, installation, job, providers, memory, audit_gate, crashes>>

\* purge_secret: the secret's row and all its versions are deleted.
purge_secret(t) ==
    /\ Called(t, "purge_secret") /\ Unlocked(t)
    /\ \E r \in Rows("secret_metadata") :
          rows' = [table \in Table |->
                     IF table \in {"secret_metadata", "secret_versions"}
                     THEN [i \in {j \in DOMAIN rows[table] :
                                     rows[table][j].id[1] # r.id[1]} |-> rows[table][i]]
                     ELSE rows[table]]
    /\ UNCHANGED <<registry, installation, job, providers, memory, audit_gate, call, crashes>>

\* A record is loaded, and then opened with the KEK its row names.
load_record(t) ==
    /\ Called(t, "read")
    /\ \E table \in Scanned \ {"auxiliary"} : \E r \in Rows(table) :
          Goto(t, [pc |-> "decrypt", row |-> r])
    /\ UNCHANGED <<stored, memory, audit_gate, crashes>>

\* decrypt_record: with_kek, or VaultError::Integrity if the ring has no such key.
decrypt_record(t) ==
    /\ call[t].pc = "decrypt"
    /\ Return(t)
    /\ UNCHANGED <<stored, memory, audit_gate, crashes>>

-----------------------------------------------------------------------------
\* start_kek_rotation: no job may be active ...
start_kek_rotation(t) ==
    /\ Called(t, "start") /\ job = None
    /\ Goto(t, [pc |-> "source"])
    /\ UNCHANGED <<stored, memory, audit_gate, crashes>>

\* ... the ring's active version is the source ...
source_version(t) ==
    /\ call[t].pc = "source"
    /\ IF ring.active < MaxKeyVersion
       THEN Goto(t, [pc |-> "wrap", source |-> ring.active])
       ELSE Return(t)
    /\ UNCHANGED <<stored, memory, audit_gate, crashes>>

\* ... the new key is sealed with the root key that memory holds ...
wrap_target(t) ==
    /\ call[t].pc = "wrap"
    /\ Goto(t, [pc |-> "begin", source |-> call[t].source, root |-> root])
    /\ UNCHANGED <<stored, memory, audit_gate, crashes>>

\* What begin_kek_rotation commits.
begin_transaction(v, r) ==
    /\ registry' = [registry EXCEPT ![v].state = "retiring",
                                    ![v + 1] = [state |-> "active", root |-> r]]
    /\ installation' = [activation_state |-> "maintenance", active_kek_version |-> v + 1]
    /\ job' = [source |-> v, target |-> v + 1, stage |-> 1, last |-> 0]

\* ... and begin_kek_rotation commits key, state and job, or conflicts.
begin_kek_rotation(t) ==
    LET v == call[t].source IN
    /\ call[t].pc = "begin" /\ Unlocked(t)
    /\ IF installation = [activation_state |-> "ready", active_kek_version |-> v] /\ job = None
       THEN /\ begin_transaction(v, call[t].root)
            /\ audit_gate' = t
            /\ Goto(t, [pc |-> "install", target |-> v + 1])
       ELSE /\ Return(t)
            /\ UNCHANGED <<registry, installation, job, audit_gate>>
    /\ UNCHANGED <<rows, providers, memory, crashes>>

\* The new KEK enters the ring after its commit; then the gate is released.
install_target(t) ==
    /\ call[t].pc = "install"
    /\ install_active_kek(call[t].target)
    /\ audit_gate' = None
    /\ Return(t)
    /\ UNCHANGED <<stored, root, crashes>>

-----------------------------------------------------------------------------
\* resume_kek_rotation: a loop over a copy of the job that is advanced with
\* every commit.
resume_kek_rotation(t) ==
    /\ Called(t, "resume") /\ job # None
    /\ \E n \in 1..MaxBatches :
          Goto(t, [pc |-> "loop", job |-> job, left |-> n, probing |-> FALSE])
    /\ UNCHANGED <<stored, memory, audit_gate, crashes>>

Finalizing(c) == Stages[c.job.stage] = "finalize"

\* The batch allowance is used up.
batches_committed(t) ==
    /\ call[t].pc = "loop" /\ ~Finalizing(call[t])
    /\ call[t].left = 0 /\ ~call[t].probing
    /\ Return(t)
    /\ UNCHANGED <<stored, memory, audit_gate, crashes>>

\* next_rewrap_batch compares the copy with the durable job ...
check_job(t) ==
    /\ call[t].pc = "loop" /\ ~Finalizing(call[t])
    /\ call[t].left > 0 \/ call[t].probing
    /\ IF job = call[t].job THEN Goto(t, [call[t] EXCEPT !.pc = "query"]) ELSE Return(t)
    /\ UNCHANGED <<stored, memory, audit_gate, crashes>>

\* (mutated: the scan skips the row after the checkpoint)
stage_query_skipping(j) ==
    {i \in DOMAIN rows[Stages[j.stage]] :
        i > j.last + 1 /\ rows[Stages[j.stage]][i].kek = j.source}

\* stage_query: rows of the stage's table under the source, after the checkpoint.
stage_query(j) ==
    {i \in DOMAIN rows[Stages[j.stage]] :
        i > j.last /\ rows[Stages[j.stage]][i].kek = j.source}

\* ORDER BY rowid LIMIT n.
Lowest(S, n) == {i \in S : Cardinality({j \in S : j < i}) < n}

\* ... and reads the batch in a second storage call.
next_rewrap_batch(t) ==
    LET c == call[t]
        found == stage_query(c.job)
        table == rows[Stages[c.job.stage]]
    IN  /\ c.pc = "query"
        /\ CASE c.probing /\ found = {} -> Goto(t, [c EXCEPT !.pc = "advance"])
             [] c.probing /\ found # {} -> Return(t)
             [] ~c.probing /\ found = {} -> Goto(t, [c EXCEPT !.pc = "loop", !.probing = TRUE])
             [] OTHER -> Goto(t, [pc |-> "rewrap", job |-> c.job, left |-> c.left,
                                  items |-> [i \in Lowest(found, BatchSize) |-> table[i]]])
        /\ UNCHANGED <<stored, memory, audit_gate, crashes>>

\* rewrap_item: opened with the source KEK, sealed again with the target KEK.
rewrap_items(t) ==
    LET c == call[t] IN
    /\ c.pc = "rewrap"
    /\ IF /\ with_kek(c.job.source) /\ with_kek(c.job.target)
          /\ \A i \in DOMAIN c.items : c.items[i].dek = c.items[i].id
       THEN Goto(t, [c EXCEPT !.pc = "apply"])
       ELSE Return(t)
    /\ UNCHANGED <<stored, memory, audit_gate, crashes>>

\* (mutated: WHERE rowid = ? alone)
rewraps_row_id(table, row_id, source) == row_id \in DOMAIN rows[table]

\* update_rewrap: WHERE rowid = ? AND the row is under the source KEK.
update_rewrap(table, row_id, source) ==
    row_id \in DOMAIN rows[table] /\ rows[table][row_id].kek = source

\* apply_rewrap_batch: require_job, then every row that still is under the
\* source, else nothing.
apply_rewrap_batch(t) ==
    LET c == call[t]
        table == Stages[c.job.stage]
        ids == DOMAIN c.items
        next == [c.job EXCEPT !.last = Max(ids)]
    IN  /\ c.pc = "apply"
        /\ IF /\ job = c.job
              /\ \A i \in ids : update_rewrap(table, i, c.job.source)
           THEN /\ rows' = [rows EXCEPT ![table] = [i \in DOMAIN rows[table] |->
                        IF i \in ids
                        THEN [id |-> rows[table][i].id, dek |-> c.items[i].dek,
                              kek |-> c.job.target, late |-> rows[table][i].late]
                        ELSE rows[table][i]]]
                /\ job' = next
                /\ Goto(t, [pc |-> "loop", job |-> next, left |-> c.left - 1,
                            probing |-> FALSE])
           ELSE Return(t) /\ UNCHANGED <<rows, job>>
        /\ UNCHANGED <<registry, installation, providers, memory, audit_gate, crashes>>

\* (mutated: the stage is advanced in memory only)
advance_copy(t) ==
    LET c == call[t]
        next == [c.job EXCEPT !.stage = @ + 1, !.last = 0]
    IN  /\ c.pc = "advance"
        /\ Goto(t, [pc |-> "loop", job |-> next, left |-> c.left, probing |-> FALSE])
        /\ UNCHANGED <<stored, memory, audit_gate, crashes>>

\* advance_rotation_stage, after its own empty next_rewrap_batch.
advance_rotation_stage(t) ==
    LET c == call[t]
        next == [c.job EXCEPT !.stage = @ + 1, !.last = 0]
    IN  /\ c.pc = "advance"
        /\ IF job = c.job
           THEN /\ job' = next
                /\ Goto(t, [pc |-> "loop", job |-> next, left |-> c.left, probing |-> FALSE])
           ELSE Return(t) /\ UNCHANGED job
        /\ UNCHANGED <<registry, installation, rows, providers, memory, audit_gate, crashes>>

\* source_inventory: rows of the scanned tables under a KEK.
source_inventory(v) == {t \in Scanned : \E r \in Rows(t) : r.kek = v}

\* (mutated: neither the stage nor the inventory is checked)
finish_unchecked(t) ==
    LET c == call[t] IN
    /\ c.pc = "loop"
    /\ Unlocked(t)
    /\ IF job = c.job
       THEN /\ registry' = [registry EXCEPT ![c.job.source].state = "retired"]
            /\ job' = None
            /\ installation' = [installation EXCEPT !.activation_state = "ready"]
            /\ audit_gate' = t
            /\ Goto(t, [pc |-> "retire", source |-> c.job.source])
       ELSE Return(t) /\ UNCHANGED <<registry, job, installation, audit_gate>>
    /\ UNCHANGED <<rows, providers, memory, crashes>>

\* finish_kek_rotation: the old KEK is retired if nothing scanned is under it.
finish_kek_rotation(t) ==
    LET c == call[t] IN
    /\ c.pc = "loop" /\ Finalizing(c)
    /\ Unlocked(t)
    /\ IF job = c.job /\ source_inventory(c.job.source) = {}
       THEN /\ registry' = [registry EXCEPT ![c.job.source].state = "retired"]
            /\ job' = None
            /\ installation' = [installation EXCEPT !.activation_state = "ready"]
            /\ audit_gate' = t
            /\ Goto(t, [pc |-> "retire", source |-> c.job.source])
       ELSE Return(t) /\ UNCHANGED <<registry, job, installation, audit_gate>>
    /\ UNCHANGED <<rows, providers, memory, crashes>>

retire_source(t) ==
    /\ call[t].pc = "retire"
    /\ retire_kek(call[t].source)
    /\ audit_gate' = None
    /\ Return(t)
    /\ UNCHANGED <<stored, root, crashes>>

-----------------------------------------------------------------------------
\* (mutated: the new root key is never written to its file)
forget_root_key_file(p) == UNCHANGED providers

create_root_key_file(p) == providers' = providers \union {p}

\* rotate_root_provider: with no KEK rotation active, a new provider file ...
rotate_root_provider(t) ==
    /\ Called(t, "root") /\ job = None
    /\ \E p \in Provider \ providers :
          /\ create_root_key_file(p)
          /\ Goto(t, [pc |-> "registry", replacement |-> p])
    /\ UNCHANGED <<registry, installation, job, rows, memory, audit_gate, crashes>>

\* ... the KEKs that are not retired, with their wrappings ...
registered_keys(t) ==
    /\ call[t].pc = "registry"
    /\ Goto(t, [pc |-> "reprotect", replacement |-> call[t].replacement,
                keys |-> [v \in Nonretired |-> registry[v].root]])
    /\ UNCHANGED <<stored, memory, audit_gate, crashes>>

\* ... each taken from the ring and sealed by the new root ...
rewrap_root_keys(t) ==
    /\ call[t].pc = "reprotect"
    /\ IF \A v \in DOMAIN call[t].keys : with_kek(v)
       THEN Goto(t, [call[t] EXCEPT !.pc = "replace"])
       ELSE Return(t)
    /\ UNCHANGED <<stored, memory, audit_gate, crashes>>

\* ... replace_root_wrappings, if the installation is ready and the whole
\* inventory is as it was read ...
replace_root_wrappings(t) ==
    LET keys == call[t].keys IN
    /\ call[t].pc = "replace" /\ Unlocked(t)
    /\ IF /\ installation.activation_state = "ready" /\ job = None
          /\ Cardinality(Nonretired) = Cardinality(DOMAIN keys)
          /\ \A v \in DOMAIN keys : v \in Nonretired /\ registry[v].root = keys[v]
       THEN /\ registry' = [v \in Version |->
                  IF v \in DOMAIN keys
                  THEN [registry[v] EXCEPT !.root = call[t].replacement]
                  ELSE registry[v]]
            /\ audit_gate' = t
            /\ Goto(t, [pc |-> "verify", replacement |-> call[t].replacement])
       ELSE Return(t) /\ UNCHANGED <<registry, audit_gate>>
    /\ UNCHANGED <<installation, job, rows, providers, memory, crashes>>

\* ... verify_root_wrappings and replace_root_key.
replace_root_key(t) ==
    /\ call[t].pc = "verify"
    /\ root' = IF \A v \in Nonretired : registry[v].root = call[t].replacement
               THEN call[t].replacement
               ELSE root
    /\ audit_gate' = None
    /\ Return(t)
    /\ UNCHANGED <<stored, ring, crashes>>

-----------------------------------------------------------------------------
\* The process dies at any step.
Crash ==
    /\ Running /\ crashes < MaxCrashes
    /\ crashes' = crashes + 1
    /\ root' = None
    /\ ring' = [active |-> 0, keys |-> {}]
    /\ audit_gate' = None
    /\ call' = [t \in Thread |-> Idle]
    /\ UNCHANGED stored

\* validate_kek_registry_state.
validate_kek_registry_state ==
    CASE installation.activation_state = "ready" ->
            /\ Nonretired = {installation.active_kek_version}
            /\ registry[installation.active_kek_version].state = "active"
            /\ job = None
      [] OTHER ->
            /\ job # None
            /\ Nonretired = {job.source, job.target}
            /\ registry[job.source].state = "retiring"
            /\ registry[job.target].state = "active"
            /\ installation.active_kek_version = job.target

\* Whether initialize_vault opens the existing vault with provider p: the
\* registry is valid, every KEK unwraps, and every auxiliary key does.
OpenedBy(p) ==
    /\ validate_kek_registry_state
    /\ \A v \in Nonretired : registry[v].root = p
    /\ installation.active_kek_version \in Nonretired
    /\ \A r \in Rows("auxiliary") : r.kek \in Nonretired

initialize_vault ==
    /\ ~Running
    /\ \E p \in providers :
          /\ OpenedBy(p)
          /\ root' = p
    /\ ring' = [active |-> installation.active_kek_version, keys |-> Nonretired]
    /\ UNCHANGED <<stored, audit_gate, call, crashes>>

-----------------------------------------------------------------------------
\* A vault that was just initialised.
Init ==
    /\ registry = [v \in Version |->
          IF v = 1 THEN [state |-> "active", root |-> FirstProvider]
          ELSE [state |-> "absent", root |-> None]]
    /\ installation = [activation_state |-> "ready", active_kek_version |-> 1]
    /\ job = None
    /\ rows = [t \in Table |->
          [i \in 1..(IF t = "auxiliary" THEN AuxiliaryRows ELSE 0) |->
              [id |-> <<None, i>>, dek |-> <<None, i>>, kek |-> 1, late |-> FALSE]]]
    /\ providers = {FirstProvider}
    /\ ring = [active |-> 1, keys |-> {1}]
    /\ root = FirstProvider
    /\ audit_gate = None
    /\ call = [t \in Thread |-> Idle]
    /\ crashes = 0

\* What a thread that is busy does next.
Step(t) ==
    \/ encrypt_record(t) \/ commit_records(t) \/ decrypt_record(t)
    \/ source_version(t) \/ wrap_target(t) \/ begin_kek_rotation(t) \/ install_target(t)
    \/ batches_committed(t) \/ check_job(t) \/ next_rewrap_batch(t) \/ rewrap_items(t)
    \/ apply_rewrap_batch(t) \/ advance_rotation_stage(t)
    \/ finish_kek_rotation(t) \/ retire_source(t)
    \/ registered_keys(t) \/ rewrap_root_keys(t) \/ replace_root_wrappings(t)
    \/ replace_root_key(t)

Next ==
    \/ \E t \in Thread :
        \/ \E table \in Table : create_record(t, table)
        \/ create_secret(t) \/ update_secret(t) \/ purge_secret(t) \/ load_record(t)
        \/ start_kek_rotation(t) \/ resume_kek_rotation(t) \/ rotate_root_provider(t)
        \/ Step(t)
    \/ Crash
    \/ initialize_vault

\* Threads run, a process that died is started again, and somebody keeps calling
\* resume while a rotation is unfinished.
Fairness ==
    /\ \A t \in Thread : WF_vars(Step(t))
    /\ SF_vars(\E t \in Thread : resume_kek_rotation(t))
    /\ WF_vars(initialize_vault)

Spec == Init /\ [][Next]_vars

FairSpec == Spec /\ Fairness

-----------------------------------------------------------------------------
TypeOK ==
    /\ registry \in [Version -> [state : {"absent", "active", "retiring", "retired"},
                                 root : Provider \union {None}]]
    /\ installation \in [activation_state : {"ready", "maintenance"},
                         active_kek_version : Version]
    /\ job \in Job \union {None}
    /\ \A t \in Table : DOMAIN rows[t] \subseteq 1..MaxRow /\ Rows(t) \subseteq Row
    /\ providers \subseteq Provider
    /\ ring \in [active : Version \union {0}, keys : SUBSET Version]
    /\ root \in Provider \union {None}
    /\ audit_gate \in Thread \union {None}
    /\ \A t \in Thread : call[t].pc \in
          {"idle", "seal", "decrypt", "source", "wrap", "begin", "install", "loop", "query",
           "rewrap", "apply", "advance", "retire", "registry", "reprotect", "replace", "verify"}

\* A crash at any step of a rotation of either kind leaves a vault that
\* initialize_vault opens with one of the provider files on disk.  With a second
\* thread that is not so when the two rotations overlap (README, Observations).
Reopenable == \E p \in providers : OpenedBy(p)

\* Whenever nobody is inside a gated operation, the ring of a running process
\* is the one a restart would load: the active KEK of the installation, and
\* during a rotation both KEKs, so that the rewrap and the readers of either
\* version find their keys.
RingMatchesRegistry ==
    Running /\ audit_gate = None
        => ring = [active |-> installation.active_kek_version, keys |-> Nonretired]

\* KeyState::Retired: no live record of a table that the rotation scans needs
\* a retired KEK.  True while one thread runs, not with a second one that writes
\* (README, Observations).
RetiredUnneeded ==
    \A t \in Scanned : \A r \in Rows(t) : registry[r.kek].state # "retired"

\* The same for every table that holds encrypted records: not true of the
\* tables the rotation does not scan (README, Observations).
RetiredUnneededAnywhere ==
    \A t \in Table : \A r \in Rows(t) : registry[r.kek].state # "retired"

\* finish_kek_rotation, with other writers running: only a row that was
\* committed late, under a KEK a rotation had already replaced, may be left
\* needing a retired KEK.
RetiredUnneededUnlessLate ==
    \A t \in Scanned : \A r \in Rows(t) : registry[r.kek].state = "retired" => r.late

\* Behind the checkpoint only a row that was committed late is left under the
\* source: not in the tables of earlier stages, not up to last_row_id of this.
CheckpointBehindClean ==
    job # None =>
        \A s \in 1..job.stage : s <= 4 =>
            \A i \in DOMAIN rows[Stages[s]] :
                (s < job.stage \/ i <= job.last) /\ rows[Stages[s]][i].kek = job.source
                    => rows[Stages[s]][i].late

\* update_rewrap finds its row by rowid: it never gives a row the DEK of
\* another record, unless that row was committed late under the source, in the
\* place of a purged one.
DekStaysWithRecord ==
    \A t \in Table : \A r \in Rows(t) : ~r.late => r.dek = r.id

\* A reader that loaded a row finds the KEK the row names in the ring, however
\* the rotation proceeds before it decrypts, until that KEK is retired.
ReadersFindKeys ==
    \A t \in Thread : call[t].pc = "decrypt" =>
        with_kek(call[t].row.kek) \/ registry[call[t].row.kek].state = "retired"

\* A late row behind the checkpoint: no later batch scans it, and source_inventory
\* counts it.
LeftBehind ==
    /\ job # None
    /\ \E s \in 1..4 : \E i \in DOMAIN rows[Stages[s]] :
          /\ s < job.stage \/ (s = job.stage /\ i <= job.last)
          /\ rows[Stages[s]][i].kek = job.source /\ rows[Stages[s]][i].late

\* A rotation that is resumed again and again completes, across crashes, restarts,
\* resumes that race and records that are written and purged meanwhile.  Only a
\* row committed late behind the checkpoint stops it: finish_kek_rotation then
\* answers a conflict to every resume, until that row is purged.
RotationCompletes == job # None ~> (job = None \/ LeftBehind)

\* The procedure of CRYPTOGRAPHY_AND_KEY_MANAGEMENT.md: once the new KEK version is
\* recorded, new writes use it.
NewWritesUseActive ==
    [][\A t \in Table : \A i \in DOMAIN rows'[t] \ DOMAIN rows[t] :
          rows'[t][i].kek = installation.active_kek_version]_vars

=============================================================================
