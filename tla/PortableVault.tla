---------------------------- MODULE PortableVault ----------------------------
(***************************************************************************)
(* What a backup carries and what a restore makes of it: namespaces,       *)
(* secrets, identities and policies as the tables of one database          *)
(* (crates/smcv-storage), the snapshot of portable.rs, the logical stream, *)
(* the transformation, the import and the verification of                  *)
(* crates/smcv-app/src/backup.rs; and the namespace moves of vault_core.rs *)
(* and authorization.rs, whose trees a restore has to accept.              *)
(*                                                                         *)
(* A request is one action: the authorization gate keeps a move from       *)
(* interleaving with a check, and module VaultCore is about the rest.      *)
(* Names, revisions and times only refuse requests here, and a refused     *)
(* request changes nothing, so they are left out.  A commitment is the     *)
(* tuple of what it covers, and an encryption keeps what it encrypts.      *)
(***************************************************************************)
EXTENDS Integers, FiniteSets, Sequences, Functions

CONSTANTS
    Namespace, Secret, Service, Credential, Policy,
    None,
    MAX_NAMESPACE_DEPTH,
    MaxVersion,     \* bound: versions of a secret
    MaxRows,        \* bound: rows of the vault, over all its tables
    MaxEpoch        \* bound: restores

ASSUME PortableAssumption ==
    /\ None \notin Namespace \union Secret \union Service \union Credential \union Policy
    /\ {MAX_NAMESPACE_DEPTH, MaxVersion, MaxRows, MaxEpoch} \subseteq Nat
    /\ IsFiniteSet(Namespace)      \* ids of one size

VARIABLES
    db,         \* the tables of the ready vault
    reserved    \* idempotency keys that live: a secret id and its namespace

vars == <<db, reserved>>

Owner == "owner"
Zero == << >>       \* zeroblob(32), the authorization commitment of a new vault

\* A table with a row put in: a function from the keys of its rows.
Put(table, key, row) ==
    [k \in DOMAIN table \union {key} |-> IF k = key THEN row ELSE table[k]]

Delete(table, key) == [k \in DOMAIN table \ {key} |-> table[k]]

Empty == [k \in {} |-> None]

-----------------------------------------------------------------------------
(* The namespace tree: a row is the parent, None for a root.               *)

Last(seq) == seq[Len(seq)]

\* The rows of both recursive queries: a namespace and its ancestors, at most
\* 33 rows where MAX_NAMESPACE_DEPTH is 32.
Walk(namespaces, n) ==
    LET walk[k \in 0..MAX_NAMESPACE_DEPTH] ==
          IF k = 0 THEN <<n>>
          ELSE LET below == walk[k - 1]
                   up == namespaces[Last(below)]
               IN IF up = None THEN below ELSE Append(below, up)
    IN walk[MAX_NAMESPACE_DEPTH]

namespace_ancestors_inclusive(namespaces, n) == Range(Walk(namespaces, n))

namespace_depth(namespaces, n) == Len(Walk(namespaces, n))

\* Every ancestor, however far: what the queries stand for.
AllAncestors(namespaces, n) ==
    LET up[k \in 0..Cardinality(Namespace)] ==
          IF k = 0 THEN {n}
          ELSE LET below == up[k - 1]
               IN below \union {namespaces[m] : m \in below \ {None}}
    IN up[Cardinality(Namespace)] \ {None}

-----------------------------------------------------------------------------
(* Authorization.  There is one grantable action, the bindings and grants  *)
(* tell apart who may and on what.                                         *)

Grant ==
    [policy : Policy, kind : {"namespace"}, target : Namespace, descendants : BOOLEAN]
      \union [policy : Policy, kind : {"secret"}, target : Secret, descendants : {FALSE}]

graph_commitment(tables) == <<tables.policies, tables.grants, tables.bindings>>

Active(tables, p) == p \in DOMAIN tables.policies /\ tables.policies[p] = "active"

\* resource_namespace_ancestors; a resource that is gone has none.
resource_namespace_ancestors(tables, kind, id) ==
    CASE kind = "namespace" /\ id \in DOMAIN tables.namespaces ->
           namespace_ancestors_inclusive(tables.namespaces, id)
      [] kind = "secret" /\ id \in DOMAIN tables.secrets ->
           namespace_ancestors_inclusive(tables.namespaces, tables.secrets[id].namespace)
      [] OTHER -> {}

\* service_is_allowed, which a resource that is gone denies.
service_is_allowed(tables, v, kind, id) ==
    LET ancestors == resource_namespace_ancestors(tables, kind, id)
    IN /\ ancestors # {}
       /\ \E g \in tables.grants :
             /\ Active(tables, g.policy) /\ <<v, g.policy>> \in tables.bindings
             /\ \/ g.kind = kind /\ g.target = id
                \/ g.kind = "namespace" /\ g.target \in ancestors /\ g.descendants

Resource == ({"namespace"} \X Namespace) \union ({"secret"} \X Secret)

\* Who may do what on which resource.
EffectiveAccess(tables) ==
    {a \in Service \X Resource : service_is_allowed(tables, a[1], a[2][1], a[2][2])}

\* preview_namespace_move_core: the services that the move of n under p gives
\* access to n and what is below it.
preview_namespace_move_core(tables, n, p) ==
    LET old == namespace_ancestors_inclusive(tables.namespaces, n)
        new == {n} \union (IF p = None THEN {}
                           ELSE namespace_ancestors_inclusive(tables.namespaces, p))
    IN {v \in Service :
          \E g \in tables.grants :
             /\ Active(tables, g.policy) /\ <<v, g.policy>> \in tables.bindings
             /\ g.kind = "namespace" /\ g.descendants
             /\ g.target \in new \ old}

-----------------------------------------------------------------------------
(* The requests of the owner.                                              *)

Enrolled == Owner \in DOMAIN db.principals

authenticator_commitment(kind, state) == <<kind, state>>

Authenticator(kind) ==
    [kind |-> kind, principal |-> Owner, state |-> "active",
     state_commitment |-> authenticator_commitment(kind, "active")]

\* enroll_owner: the first authorization commitment replaces zeroblob(32).
enroll_owner ==
    /\ ~Enrolled
    /\ db.authorization = Zero
    /\ db' = [db EXCEPT !.principals = Put(@, Owner, "owner"),
                        !.authenticators = Put(@, "password", Authenticator("password")),
                        !.authorization = graph_commitment(db)]
    /\ UNCHANGED reserved

\* A passkey is registered; see module Passkeys.
add_owner_authenticator ==
    /\ Enrolled /\ "passkey" \notin DOMAIN db.authenticators
    /\ db' = [db EXCEPT !.authenticators = Put(@, "passkey", Authenticator("passkey"))]
    /\ UNCHANGED reserved

create_namespace(n, p) ==
    /\ Enrolled /\ n \notin DOMAIN db.namespaces
    /\ p # None => /\ p \in DOMAIN db.namespaces
                   /\ namespace_depth(db.namespaces, p) < MAX_NAMESPACE_DEPTH
    /\ db' = [db EXCEPT !.namespaces = Put(@, n, p)]
    /\ UNCHANGED reserved

\* (mutated: the delta that was confirmed is not compared)
AnyDelta(n, p, confirmed) == TRUE

\* move_namespace moves only what the owner has confirmed the effect of.
delta_confirmed(n, p, confirmed) == preview_namespace_move_core(db, n, p) = confirmed

\* (mutated: the depth of the new parent is not checked)
MoveAnyDepth(n, p) ==
    p # None => /\ p # n /\ p \in DOMAIN db.namespaces
                /\ n \notin namespace_ancestors_inclusive(db.namespaces, p)

\* The checks of move_namespace_core.
may_move(n, p) ==
    p # None => /\ p # n /\ p \in DOMAIN db.namespaces
                /\ namespace_depth(db.namespaces, p) < MAX_NAMESPACE_DEPTH
                /\ n \notin namespace_ancestors_inclusive(db.namespaces, p)

move_namespace(n, p, confirmed) ==
    /\ Enrolled /\ n \in DOMAIN db.namespaces
    /\ p \in DOMAIN db.namespaces \union {None}
    /\ delta_confirmed(n, p, confirmed)
    /\ may_move(n, p)
    /\ db' = [db EXCEPT !.namespaces[n] = p]
    /\ UNCHANGED reserved

FirstVersion(n) == [namespace |-> n, state |-> "active", current |-> 1, versions |-> {1}]

\* create_secret_idempotent with a new key.
create_secret(s, n) ==
    /\ Enrolled /\ n \in DOMAIN db.namespaces
    /\ s \notin DOMAIN db.secrets \union db.tombstones
    /\ db' = [db EXCEPT !.secrets = Put(@, s, FirstVersion(n))]
    /\ reserved' = Put(reserved, s, n)

\* The same request again: it creates the secret when the id has no row, which
\* is so when the secret was purged meanwhile.
replay_create_secret(s) ==
    /\ s \in DOMAIN reserved /\ s \notin DOMAIN db.secrets
    /\ db' = [db EXCEPT !.secrets = Put(@, s, FirstVersion(reserved[s]))]
    /\ UNCHANGED reserved

expire_key(s) ==
    /\ s \in DOMAIN reserved
    /\ reserved' = Delete(reserved, s)
    /\ UNCHANGED db

update_secret(s) ==
    /\ s \in DOMAIN db.secrets /\ db.secrets[s].state = "active"
    /\ db.secrets[s].current < MaxVersion
    /\ db' = [db EXCEPT !.secrets[s].current = @ + 1,
                        !.secrets[s].versions = @ \union {db.secrets[s].current + 1}]
    /\ UNCHANGED reserved

delete_secret(s) ==
    /\ s \in DOMAIN db.secrets /\ db.secrets[s].state = "active"
    /\ db' = [db EXCEPT !.secrets[s].state = "deleted"]
    /\ UNCHANGED reserved

\* purge_secret: the tombstone is a primary key, and the grants stay.
purge_secret(s) ==
    /\ s \in DOMAIN db.secrets /\ db.secrets[s].state = "deleted"
    /\ s \notin db.tombstones
    /\ db' = [db EXCEPT !.secrets = Delete(@, s), !.tombstones = @ \union {s}]
    /\ UNCHANGED reserved

create_service_identity(v) ==
    /\ Enrolled /\ v \notin DOMAIN db.principals
    /\ db' = [db EXCEPT !.principals = Put(@, v, "service"),
                        !.service_identities = @ \union {v}]
    /\ UNCHANGED reserved

application_credential_commitment(v, revoked) == <<v, revoked>>

create_application_credential(c, v) ==
    /\ v \in db.service_identities /\ c \notin DOMAIN db.credentials
    /\ db' = [db EXCEPT !.credentials =
                Put(@, c, [principal |-> v, revoked |-> FALSE,
                           state_commitment |-> application_credential_commitment(v, FALSE)])]
    /\ UNCHANGED reserved

revoke_application_credential(c) ==
    /\ c \in DOMAIN db.credentials /\ ~db.credentials[c].revoked
    /\ db' = [db EXCEPT !.credentials[c].revoked = TRUE,
                        !.credentials[c].state_commitment =
                           application_credential_commitment(db.credentials[c].principal, TRUE)]
    /\ UNCHANGED reserved

\* A change of the authorization graph advances its commitment with it.
Regraph(tables) == [tables EXCEPT !.authorization = graph_commitment(tables)]

create_policy(p) ==
    /\ Enrolled /\ p \notin DOMAIN db.policies
    /\ db' = Regraph([db EXCEPT !.policies = Put(@, p, "active")])
    /\ UNCHANGED reserved

archive_policy(p) ==
    /\ Active(db, p)
    /\ db' = Regraph([db EXCEPT !.policies[p] = "archived"])
    /\ UNCHANGED reserved

\* The resource is there when it is granted.
verify_grant_target(tables, g) ==
    /\ g.kind = "namespace" => g.target \in DOMAIN tables.namespaces
    /\ g.kind = "secret" => g.target \in DOMAIN tables.secrets

add_policy_grant(g) ==
    /\ Active(db, g.policy) /\ g \notin db.grants
    /\ verify_grant_target(db, g)
    /\ db' = Regraph([db EXCEPT !.grants = @ \union {g}])
    /\ UNCHANGED reserved

bind_policy_to_service(v, p) ==
    /\ Active(db, p) /\ v \in db.service_identities /\ <<v, p>> \notin db.bindings
    /\ db' = Regraph([db EXCEPT !.bindings = @ \union {<<v, p>>}])
    /\ UNCHANGED reserved

-----------------------------------------------------------------------------
(* The snapshot and its logical stream.  The rows of one kind come in any  *)
(* order where it makes no difference: a table is a set of rows, the       *)
(* namespaces a sequence of such sets, and the stream a sequence of runs   *)
(* of records of one kind.                                                 *)

Rows(table) == {[id |-> k, row |-> table[k]] : k \in DOMAIN table}

\* (mutated: in any order)
ReadNamespacesUnordered(tables) == <<Rows(tables.namespaces)>>

\* read_namespaces: from the roots down, level by level.
read_namespaces(tables) ==
    LET level[k \in 1..Cardinality(Namespace)] ==
          LET above == IF k = 1 THEN {None} ELSE {r.id : r \in level[k - 1]}
          IN {r \in Rows(tables.namespaces) : r.row \in above}
    IN level

read_secrets(tables) ==
    {[id |-> s, namespace |-> tables.secrets[s].namespace, state |-> tables.secrets[s].state,
      current |-> tables.secrets[s].current] : s \in DOMAIN tables.secrets}

read_secret_versions(tables) ==
    UNION {{[id |-> s, version |-> k] : k \in tables.secrets[s].versions}
             : s \in DOMAIN tables.secrets}

read_tombstones(tables) == tables.tombstones
read_principals(tables) == Rows(tables.principals)
read_authenticators(tables) == Rows(tables.authenticators)
read_service_identities(tables) == tables.service_identities
read_application_credentials(tables) == Rows(tables.credentials)
read_authorization_state(tables) == {tables.authorization}
read_policies(tables) == Rows(tables.policies)
read_grants(tables) == tables.grants
read_bindings(tables) == tables.bindings

\* portable_snapshot, in one transaction: all the tables but the sessions and
\* idempotency keys.
portable_snapshot(tables) ==
    [namespaces |-> read_namespaces(tables),
     secrets |-> read_secrets(tables),
     secret_versions |-> read_secret_versions(tables),
     tombstones |-> read_tombstones(tables),
     principals |-> read_principals(tables),
     authenticators |-> read_authenticators(tables),
     service_identities |-> read_service_identities(tables),
     credentials |-> read_application_credentials(tables),
     authorization_state |-> read_authorization_state(tables),
     policies |-> read_policies(tables),
     grants |-> read_grants(tables),
     bindings |-> read_bindings(tables)]

\* The kinds of records in the order of encode_logical_snapshot, after the keys
\* and the namespaces.
Kinds == <<"secrets", "secret_versions", "tombstones", "principals", "authenticators",
           "service_identities", "credentials", "authorization_state", "policies",
           "grants", "bindings">>

append_record(kind, rows) == [kind |-> kind, rows |-> rows]

encode_logical_snapshot(snapshot) ==
    <<append_record("keys", {"vault_keys"})>>
    \o [k \in 1..Len(snapshot.namespaces) |-> append_record("namespaces", snapshot.namespaces[k])]
    \o [k \in 1..Len(Kinds) |-> append_record(Kinds[k], snapshot[Kinds[k]])]

\* The rows of one kind, run by run.
OfKind(stream, kind) ==
    [k \in 1..Len(stream) |-> IF stream[k].kind = kind THEN stream[k].rows ELSE {}]

RowsOfKind(stream, kind) == UNION Range(OfKind(stream, kind))

\* The keys come first and once, the authorization state once, and every kind is
\* known.  (The count of records is the archive's: see ArchiveFormat.)
well_formed(stream) ==
    /\ Len(stream) > 0 /\ \A k \in 1..Len(stream) : stream[k].kind = "keys" <=> k = 1
    /\ Cardinality(stream[1].rows) = 1
    /\ Cardinality(RowsOfKind(stream, "authorization_state")) = 1
    /\ \A k \in 1..Len(stream) : stream[k].kind \in Range(Kinds) \union {"keys", "namespaces"}

decode_logical_stream(stream) ==
    LET rows(kind) == RowsOfKind(stream, kind)
    IN [namespaces |-> OfKind(stream, "namespaces"),
        secrets |-> rows("secrets"), secret_versions |-> rows("secret_versions"),
        tombstones |-> rows("tombstones"), principals |-> rows("principals"),
        authenticators |-> rows("authenticators"),
        service_identities |-> rows("service_identities"),
        credentials |-> rows("credentials"),
        authorization_state |-> rows("authorization_state"),
        policies |-> rows("policies"), grants |-> rows("grants"), bindings |-> rows("bindings")]

-----------------------------------------------------------------------------
(* The transformation: what the destination does not take over as it is.   *)

CredentialRestoreMode == {"preserve", "revoke"}

\* A passkey is bound to its origin: an active one is revoked.
transform_authenticator(r) ==
    IF r.row.kind = "passkey" /\ r.row.state = "active"
    THEN [r EXCEPT !.row.state = "revoked",
                   !.row.state_commitment = authenticator_commitment("passkey", "revoked")]
    ELSE r

\* (mutated: the mode is ignored)
TransformNoCredential(r, mode) == r

transform_credential(r, mode) ==
    IF mode = "revoke" /\ ~r.row.revoked
    THEN [r EXCEPT !.row.revoked = TRUE,
                   !.row.state_commitment =
                      application_credential_commitment(r.row.principal, TRUE)]
    ELSE r

AsTable(rows) ==
    [k \in {r.id : r \in rows} |-> (CHOOSE r \in rows : r.id = k).row]

\* portable_authorization_commitment is over the rows that will be imported.
portable_authorization_commitment(decoded) ==
    <<AsTable(decoded.policies), decoded.grants, decoded.bindings>>

\* The current version of every secret has its row, for the schedule.
transformable(decoded) ==
    \A s \in decoded.secrets :
       [id |-> s.id, version |-> s.current] \in decoded.secret_versions

transform_logical_snapshot(decoded, mode) ==
    [decoded EXCEPT
       !.authenticators = {transform_authenticator(r) : r \in @},
       !.credentials = {transform_credential(r, mode) : r \in @},
       !.authorization_state = {portable_authorization_commitment(decoded)}]

-----------------------------------------------------------------------------
(* The import and the verification.                                        *)

Ids(rows) == {r.id : r \in rows}
OneRowEach(rows) == \A r, q \in rows : r.id = q.id => r = q

\* A row is accepted when its key is new and what it refers to is there already;
\* a secret refers to its tombstone in no way, nor a grant to its target.
insert_principals(s) == OneRowEach(s.principals)
insert_authenticators(s) ==
    OneRowEach(s.authenticators) /\ \A r \in s.authenticators : r.row.principal \in Ids(s.principals)
insert_service_identities(s) == s.service_identities \subseteq Ids(s.principals)
insert_application_credentials(s) ==
    OneRowEach(s.credentials) /\ \A r \in s.credentials : r.row.principal \in Ids(s.principals)

\* The parent of a namespace comes before it.
insert_namespaces(levels) ==
    /\ OneRowEach(UNION Range(levels))
    /\ \A k \in 1..Len(levels) : \A r \in levels[k] :
          r.row # None => \E i \in 1..k - 1 : r.row \in Ids(levels[i])

insert_secrets(s) ==
    OneRowEach(s.secrets) /\ \A r \in s.secrets : r.namespace \in Ids(UNION Range(s.namespaces))
insert_secret_versions(s) == Ids(s.secret_versions) \subseteq Ids(s.secrets)
insert_policies(s) == OneRowEach(s.policies)
insert_grants(s) == \A g \in s.grants : g.policy \in Ids(s.policies)
insert_bindings(s) ==
    \A b \in s.bindings : b[1] \in Ids(s.principals) /\ b[2] \in Ids(s.policies)

\* The inserts of import_portable_snapshot, one transaction.
importable(s) ==
    /\ insert_principals(s) /\ insert_authenticators(s) /\ insert_service_identities(s)
    /\ insert_application_credentials(s)
    /\ insert_namespaces(s.namespaces) /\ insert_secrets(s) /\ insert_secret_versions(s)
    /\ insert_policies(s) /\ insert_grants(s) /\ insert_bindings(s)

import_portable_snapshot(s, epoch) ==
    [epoch |-> epoch,
     principals |-> AsTable(s.principals),
     authenticators |-> AsTable(s.authenticators),
     service_identities |-> s.service_identities,
     credentials |-> AsTable(s.credentials),
     namespaces |-> AsTable(UNION Range(s.namespaces)),
     secrets |-> [id \in Ids(s.secrets) |->
                    LET r == CHOOSE x \in s.secrets : x.id = id
                    IN [namespace |-> r.namespace, state |-> r.state, current |-> r.current,
                        versions |-> {v.version : v \in {x \in s.secret_versions : x.id = id}}]],
     tombstones |-> s.tombstones,
     policies |-> AsTable(s.policies),
     grants |-> s.grants,
     bindings |-> s.bindings,
     authorization |-> CHOOSE c \in s.authorization_state : TRUE]

KindOf(t, id) == IF id \in DOMAIN t.principals THEN t.principals[id] ELSE None

\* verify_restored_relationships, on the imported tables.
verify_restored_relationships(t) ==
    /\ \A n \in DOMAIN t.namespaces :
          LET walk == Walk(t.namespaces, n)
          IN /\ Cardinality(Range(walk)) = Len(walk)
             /\ t.namespaces[Last(walk)] = None
    /\ \A s \in DOMAIN t.secrets : t.secrets[s].versions = 1..t.secrets[s].current
    /\ t.tombstones \intersect DOMAIN t.secrets = {}
    /\ \A a \in DOMAIN t.authenticators : KindOf(t, t.authenticators[a].principal) = "owner"
    /\ \A v \in t.service_identities : KindOf(t, v) = "service"
    /\ \A c \in DOMAIN t.credentials : KindOf(t, t.credentials[c].principal) = "service"
    /\ \A g \in t.grants : verify_grant_target(t, g)
    /\ \A b \in t.bindings : KindOf(t, b[1]) = "service"

\* verify_restored_snapshot: the relationships and every commitment.
verify_restored_snapshot(t) ==
    /\ verify_restored_relationships(t)
    /\ \A a \in DOMAIN t.authenticators :
          t.authenticators[a].state_commitment
            = authenticator_commitment(t.authenticators[a].kind, t.authenticators[a].state)
    /\ \A c \in DOMAIN t.credentials :
          t.credentials[c].state_commitment
            = application_credential_commitment(t.credentials[c].principal,
                                                t.credentials[c].revoked)
    /\ t.authorization = graph_commitment(t)

\* The steps of restore_backup_file on a backup of these tables.
accepted(t, mode) ==
    LET stream == encode_logical_snapshot(portable_snapshot(t))
        decoded == decode_logical_stream(stream)
        s == transform_logical_snapshot(decoded, mode)
    IN /\ well_formed(stream)
       /\ transformable(decoded)
       /\ importable(s)
       /\ verify_restored_snapshot(import_portable_snapshot(s, t.epoch + 1))

restored(t, mode) ==
    LET stream == encode_logical_snapshot(portable_snapshot(t))
        s == transform_logical_snapshot(decode_logical_stream(stream), mode)
    IN import_portable_snapshot(s, t.epoch + 1)

\* The restored vault takes over from the one that was backed up.
restore_backup_file(mode) ==
    /\ db.epoch < MaxEpoch
    /\ accepted(db, mode)
    /\ db' = restored(db, mode)
    /\ reserved' = Empty

-----------------------------------------------------------------------------
Init ==
    /\ db = [epoch |-> 0, principals |-> Empty, authenticators |-> Empty,
             service_identities |-> {}, credentials |-> Empty, namespaces |-> Empty,
             secrets |-> Empty, tombstones |-> {}, policies |-> Empty, grants |-> {},
             bindings |-> {}, authorization |-> Zero]
    /\ reserved = Empty

Identities ==
    \/ enroll_owner \/ add_owner_authenticator
    \/ \E v \in Service : create_service_identity(v)
    \/ \E c \in Credential, v \in Service : create_application_credential(c, v)
    \/ \E c \in Credential : revoke_application_credential(c)

Namespaces ==
    \/ \E n \in Namespace, p \in Namespace \union {None} : create_namespace(n, p)
    \/ \E n \in Namespace, p \in Namespace \union {None}, confirmed \in SUBSET Service :
          move_namespace(n, p, confirmed)

Secrets ==
    \/ \E s \in Secret, n \in Namespace : create_secret(s, n)
    \/ \E s \in Secret : \/ replay_create_secret(s) \/ expire_key(s) \/ update_secret(s)
                         \/ delete_secret(s) \/ purge_secret(s)

Policies ==
    \/ \E p \in Policy : create_policy(p) \/ archive_policy(p)
    \/ \E g \in Grant : add_policy_grant(g)
    \/ \E v \in Service, p \in Policy : bind_policy_to_service(v, p)

Size(t) ==
    Cardinality(DOMAIN t.namespaces) + Cardinality(read_secret_versions(t))
    + Cardinality(t.tombstones) + Cardinality(DOMAIN t.authenticators)
    + Cardinality(t.service_identities) + Cardinality(DOMAIN t.credentials)
    + Cardinality(DOMAIN t.policies) + Cardinality(t.grants) + Cardinality(t.bindings)

Next ==
    /\ \/ Identities \/ Namespaces \/ Secrets \/ Policies
       \/ \E mode \in CredentialRestoreMode : restore_backup_file(mode)
    /\ Size(db') <= MaxRows

Spec == Init /\ [][Next]_vars

-----------------------------------------------------------------------------
\* The namespace tree has no cycle: every chain of parents ends at a root,
\* although move_namespace_core looks for a cycle among a bounded number of
\* ancestors only.
NamespaceForest ==
    \A n \in DOMAIN db.namespaces :
       \E root \in AllAncestors(db.namespaces, n) : db.namespaces[root] = None

\* A namespace whose ancestors are more than the queries return.
Deep(n) == namespace_ancestors_inclusive(db.namespaces, n) # AllAncestors(db.namespaces, n)

\* A move gives a service access to nothing that the owner has not confirmed:
\* whoever may newly use a resource is in the delta that move_namespace compared,
\* unless something below the moved namespace was too deep for its grants.
NoSilentBroadening ==
    [][\A n \in Namespace, p \in Namespace \union {None}, confirmed \in SUBSET Service :
          /\ n \in DOMAIN db.namespaces /\ db'.namespaces[n] # db.namespaces[n]
          /\ move_namespace(n, p, confirmed)
          /\ (\A m \in DOMAIN db.namespaces : n \in AllAncestors(db.namespaces, m) => ~Deep(m))
          => \A access \in EffectiveAccess(db') \ EffectiveAccess(db) :
                access[1] \in confirmed]_vars

\* The three histories whose backups restore_backup_file refuses.
TooDeep == \E n \in DOMAIN db.namespaces : Deep(n)
GrantOutlivesSecret == \E g \in db.grants : g.kind = "secret" /\ g.target \notin DOMAIN db.secrets
SecretRecreated == db.tombstones \intersect DOMAIN db.secrets # {}

\* A backup of the vault can be restored, in either mode, whatever was done to
\* the vault, and after an earlier restore too; the only exceptions are a
\* namespace moved too deep, a purged secret that a policy still grants, and a
\* purged secret created again by a replayed request.
BackupRestores ==
    \A mode \in CredentialRestoreMode :
       accepted(db, mode) <=> ~(TooDeep \/ GrantOutlivesSecret \/ SecretRecreated)

\* A restore changes nobody's access and no secret: services may use what they
\* could, the versions are there, what was purged stays purged; but no passkey
\* works, the password of an enrolled owner does, and with "revoke" no
\* application credential is left.
RestoredVaultEquivalent ==
    [][\A mode \in CredentialRestoreMode :
          db'.epoch > db.epoch /\ db' = restored(db, mode) =>
             /\ EffectiveAccess(db') = EffectiveAccess(db)
             /\ db'.secrets = db.secrets /\ db'.tombstones = db.tombstones
             /\ \A a \in DOMAIN db'.authenticators :
                   (db'.authenticators[a].state = "active")
                     <=> (db'.authenticators[a].kind = "password")
             /\ DOMAIN db'.authenticators = DOMAIN db.authenticators
             /\ \A c \in DOMAIN db'.credentials :
                   db'.credentials[c].revoked <=> (mode = "revoke" \/ db.credentials[c].revoked)]_vars

\* A backup of the vault can be restored.
EveryBackupRestores == accepted(db, "preserve")
=============================================================================
