---------------------------- MODULE Idempotency ----------------------------
(***************************************************************************)
(* Retry-safe creation: create_secret_idempotent of                        *)
(* crates/smcv-app/src/authorized_vault.rs over reserve_idempotency of     *)
(* crates/smcv-storage/src/idempotency.rs, composed with VaultCore.        *)
(*                                                                         *)
(* The reservation of an id for a key, the lookup of the secret, its       *)
(* creation and the lookup after a conflict are separate storage calls;    *)
(* crashes and other requests come in between.  Authorization is the       *)
(* subject of AccessGate.  A fingerprint is the body of the request.       *)
(***************************************************************************)
EXTENDS VaultCore

CONSTANT Key        \* verifiers of the Idempotency-Key header of one principal

VARIABLES
    reservations,   \* smcv_idempotency_records: key -> record or None
    retry,          \* what a thread inside create_secret_idempotent knows
    response,       \* the last answer of create_secret_idempotent, or None
    answers         \* history: ids answered for a key while it is reserved

idemVars == <<reservations, retry, response, answers>>

Body == [name : Name, payload : Payload]

\* A row of smcv_idempotency_records.
Reservation == [response_id : SecretId, fingerprint : Body]

\* A thread inside create_secret_idempotent.
Attempt ==
    [key : Key, id : SecretId, reused : BOOLEAN, body : Body,
     stage : {"reserved", "creating", "conflict"}]

\* None is neither.
ASSUME AttemptAssumption == None \notin Reservation /\ None \notin Attempt

-----------------------------------------------------------------------------
\* A random ObjectId: nothing in the vault has this id.
Fresh(s) ==
    /\ \A k \in Key : reservations[k] # None => reservations[k].response_id # s
    /\ \A r \in Request : retry[r] # None => retry[r].id # s
    /\ EventsOf(audit_events, s, Mutation, 1) = {}

\* (mutated: a reservation of another body is reused)
matches_any(k, body) == TRUE

\* fingerprint = request_fingerprint and kind = response_kind.
matches(k, body) == reservations[k].fingerprint = body

Work(k, id, reused, body, stage) ==
    [key |-> k, id |-> id, reused |-> reused, body |-> body, stage |-> stage]

\* (mutated: the reservation is inserted again with the new id)
reserve_anew(r, k, body) ==
    /\ pc[r] = "idle" /\ retry[r] = None
    /\ \E s \in SecretId :
          /\ Fresh(s)
          /\ reservations' = [reservations EXCEPT ![k] =
                [response_id |-> s, fingerprint |-> body]]
          /\ retry' = [retry EXCEPT ![r] = Work(k, s, FALSE, body, "reserved")]
    /\ response' = None
    /\ UNCHANGED <<vars, answers>>

\* reserve_idempotency: reuse the id reserved for the key, refuse another
\* body under it, or reserve a new id.  One transaction of its own.
reserve_idempotency(r, k, body) ==
    /\ pc[r] = "idle" /\ retry[r] = None
    /\ \/ /\ reservations[k] # None
          /\ ~matches(k, body)
          /\ response' = [request |-> r, status |-> "conflict"]
          /\ UNCHANGED <<reservations, retry>>
       \/ /\ reservations[k] # None
          /\ matches(k, body)
          /\ retry' = [retry EXCEPT ![r] =
                Work(k, reservations[k].response_id, TRUE, body, "reserved")]
          /\ response' = None
          /\ UNCHANGED reservations
       \/ /\ reservations[k] = None
          /\ \E s \in SecretId :
                /\ Fresh(s)
                /\ reservations' = [reservations EXCEPT ![k] =
                      [response_id |-> s, fingerprint |-> body]]
                /\ retry' = [retry EXCEPT ![r] = Work(k, s, FALSE, body, "reserved")]
          /\ response' = None
    /\ UNCHANGED <<vars, answers>>

\* The answer of a create: the reserved id at version 1, revision 1.
Answer(r) ==
    /\ response' = [request |-> r, status |-> "ok", id |-> retry[r].id, body |-> retry[r].body]
    /\ answers' = [answers EXCEPT ![retry[r].key] = @ \union {retry[r].id}]
    /\ retry' = [retry EXCEPT ![r] = None]

\* A reused id whose secret exists is the answer; otherwise the secret is
\* created under the reserved id, which VaultCore does.
create_reserved(r) ==
    /\ retry[r] # None /\ retry[r].stage = "reserved"
    /\ \/ /\ retry[r].reused /\ secrets[retry[r].id] # None
          /\ Answer(r)
          /\ UNCHANGED vars
       \/ /\ ~(retry[r].reused /\ secrets[retry[r].id] # None)
          /\ create_secret(r, retry[r].id, retry[r].body.name, retry[r].body.payload)
          /\ retry' = [retry EXCEPT ![r] = [@ EXCEPT !.stage = "creating"]]
          /\ response' = None
          /\ UNCHANGED answers
    /\ UNCHANGED reservations

\* A step of the creation, and what its result makes of the request.
creating(r) ==
    /\ retry[r] # None /\ retry[r].stage = "creating"
    /\ Step(r)
    /\ \/ /\ pc'[r] # "idle"
          /\ response' = None
          /\ UNCHANGED <<retry, answers>>
       \/ /\ pc'[r] = "idle" /\ reply'.status = "ok"
          /\ Answer(r)
       \/ /\ pc'[r] = "idle" /\ reply'.status # "ok"
          /\ ~(reply'.status = "conflict" /\ retry[r].reused)
          /\ response' = [request |-> r, status |-> reply'.status]
          /\ retry' = [retry EXCEPT ![r] = None]
          /\ UNCHANGED answers
       \/ /\ pc'[r] = "idle" /\ reply'.status = "conflict" /\ retry[r].reused
          /\ retry' = [retry EXCEPT ![r] = [@ EXCEPT !.stage = "conflict"]]
          /\ response' = None
          /\ UNCHANGED answers
    /\ UNCHANGED reservations

\* A retry that lost to another one finds the secret the other one created.
after_conflict(r) ==
    /\ retry[r] # None /\ retry[r].stage = "conflict"
    /\ \/ /\ secrets[retry[r].id] # None
          /\ Answer(r)
       \/ /\ secrets[retry[r].id] = None
          /\ response' = [request |-> r, status |-> "conflict"]
          /\ retry' = [retry EXCEPT ![r] = None]
          /\ UNCHANGED answers
    /\ UNCHANGED <<vars, reservations>>

\* Other requests: updates, lifecycle changes and purges of existing secrets.
OtherArrive(r) ==
    /\ retry[r] = None
    /\ \E s \in SecretId :
        \/ \E ver, rev \in Counter, p \in Payload : update_secret(r, s, ver, rev, p)
        \/ \E rev \in Counter, t \in Transition : change_lifecycle(r, s, rev, t)
        \/ \E rev \in Counter, retained \in BOOLEAN :
              purge_secret_after_owner_approval(r, s, rev, retained)
    /\ response' = None
    /\ UNCHANGED <<reservations, retry, answers>>

OtherStep(r) ==
    /\ retry[r] = None
    /\ Step(r)
    /\ response' = None
    /\ UNCHANGED <<reservations, retry, answers>>

\* 24 hours pass: the next reserve_idempotency deletes the record.  No request
\* runs that long.
Expire(k) ==
    /\ reservations[k] # None
    /\ \A r \in Request : retry[r] # None => retry[r].key # k
    /\ reservations' = [reservations EXCEPT ![k] = None]
    /\ answers' = [answers EXCEPT ![k] = {}]
    /\ response' = None
    /\ UNCHANGED <<vars, retry>>

\* The process stops; reservations are durable.
Restart ==
    /\ Crash
    /\ retry' = [r \in Request |-> None]
    /\ response' = None
    /\ UNCHANGED <<reservations, answers>>

IdemInit ==
    /\ Init
    /\ reservations = [k \in Key |-> None]
    /\ retry = [r \in Request |-> None]
    /\ response = None
    /\ answers = [k \in Key |-> {}]

IdemNext ==
    \/ Restart
    \/ \E k \in Key : Expire(k)
    \/ \E r \in Request :
          \/ \E k \in Key, body \in Body : reserve_idempotency(r, k, body)
          \/ create_reserved(r)
          \/ creating(r)
          \/ after_conflict(r)
          \/ OtherArrive(r)
          \/ OtherStep(r)

IdemSpec == IdemInit /\ [][IdemNext]_<<vars, idemVars>>

-----------------------------------------------------------------------------
\* A create that answers success, first attempt or retry, names a secret that
\* is stored with the name and the first value this very request carried, also
\* when the answer of an earlier attempt was lost, racing attempts conflicted
\* or the process crashed between reserving the id and creating the secret.
SuccessIsStored ==
    response # None /\ response.status = "ok" =>
        /\ secrets[response.id] # None
        /\ secrets[response.id].name = response.body.name
        /\ versions[response.id][1] = response.body.payload

\* All successes under one key, while its reservation lasts, are one secret.
OneAnswerPerKey ==
    \A k \in Key :
        answers[k] # {} => reservations[k] # None /\ answers[k] = {reservations[k].response_id}

\* DATA_MODEL.md core invariant 2: "Version numbers increase without reuse;
\* deletion does not reset them."  So version 1 of a secret is written once.  It is
\* not: a retry creates a purged secret again (README, Observations).
VersionOneWrittenOnce ==
    \A s \in SecretId : Cardinality(EventsOf(audit_events, s, {"secret:create"}, 1)) <= 1
=============================================================================
