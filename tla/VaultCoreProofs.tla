-------------------------- MODULE VaultCoreProofs --------------------------
(***************************************************************************)
(* Proofs about VaultCore, for every set of threads, secrets, names and    *)
(* values and every bound on the audit sequence.                           *)
(***************************************************************************)
EXTENDS VaultCore, FiniteSetTheorems, TLAPS

\* The time each prover may take for a step.
USE ZenonT(60), SMTT(60)

\* Types and the version rows hold up each other: an update writes the next
\* element of a sequence only because the rows are 1..current_version.
TypeInv == TypeOK /\ VersionsContiguous

LEMMA InitTypeInv == Init => TypeInv
  BY NoneAssumption, BoundAssumption, SMTT(60)
  DEF Init, TypeInv, TypeOK, VersionsContiguous, SecretRow, LifecycleState

\* The payload of a version row, and of the current one.
LEMMA VersionRowTyped ==
  ASSUME NEW payloads \in [SecretId -> Seq(Payload)], NEW s \in SecretId,
         NEW v \in DOMAIN payloads[s]
  PROVE  payloads[s][v] \in Payload
<1>1. payloads[s] \in Seq(Payload)
  OBVIOUS
<1> QED
  BY <1>1, SMTT(60)

\* What a reveal could return is a value.
LEMMA ReadableTyped ==
  ASSUME NEW rows \in [SecretId -> SecretRow \union {None}],
         NEW payloads \in [SecretId -> Seq(Payload)],
         NEW s \in SecretId,
         rows[s] # None => DOMAIN payloads[s] = 1..rows[s].current_version
  PROVE  Readable(rows, payloads, s) \subseteq Value
<1>1. CASE rows[s] = None \/ rows[s].lifecycle_state # "active"
  BY <1>1 DEF Readable
<1>2. CASE ~(rows[s] = None \/ rows[s].lifecycle_state # "active")
  <2>1. rows[s].current_version \in Nat \ {0}
    BY <1>2 DEF SecretRow
  <2>2. rows[s].current_version \in DOMAIN payloads[s]
    BY <1>2, <2>1, SMTT(60)
  <2>3. payloads[s][rows[s].current_version].value \in Value
    BY <2>2, VersionRowTyped DEF Payload
  <2> QED
    BY <1>2, <2>3 DEF Readable
<1> QED
  BY <1>1, <1>2

\* Every call record that Begin stores for a request at "audit" is well formed.
LEMMA BeginKeepsTypes ==
  ASSUME TypeInv, NEW r \in Request, NEW c, NEW step \in {"fetch", "audit"},
         Begin(r, c, step),
         step = "fetch" => c \in FetchCall,
         step = "audit" => c \in AuditedCall
  PROVE  TypeInv'
<1>1. c.secret_id \in SecretId
  BY DEF FetchCall, AuditedCall, CreateCall, UpdateCall, LifecycleCall, PurgeCall, RevealCall
<1>2. Readable(secrets, versions, c.secret_id) \subseteq Value
  BY <1>1, ReadableTyped DEF TypeInv, TypeOK, VersionsContiguous
<1>3. readable' \in [Request -> SUBSET Value]
  BY <1>2 DEF TypeInv, TypeOK, Begin
<1>4. \A q \in Request :
          /\ pc'[q] = "fetch" => call'[q] \in FetchCall
          /\ pc'[q] \in {"audit", "commit"} => call'[q] \in AuditedCall
          /\ pc'[q] = "commit" => pending'[q] \in Event
  BY DEF TypeInv, TypeOK, Begin
<1> QED
  BY <1>3, <1>4 DEF TypeInv, TypeOK, VersionsContiguous, Begin, store

\* The action of an audited call tells which call it is.
LEMMA CallTyped ==
  ASSUME TypeInv, NEW r \in Request, pc[r] \in {"audit", "commit"}
  PROVE  /\ call[r] \in AuditedCall
         /\ call[r].secret_id \in SecretId
         /\ call[r].action \in Mutation \union Reading
         /\ call[r].action = "secret:create" => call[r] \in CreateCall
         /\ call[r].action = "secret:update" => call[r] \in UpdateCall
         /\ call[r].action \in {t.action : t \in Transition} => call[r] \in LifecycleCall
         /\ call[r].action = "secret:purge" => call[r] \in PurgeCall
         /\ call[r].action \in Reading => call[r] \in RevealCall
<1>1. call[r] \in AuditedCall
  BY DEF TypeInv, TypeOK
<1> QED
  BY <1>1, SMTT(60) DEF AuditedCall, CreateCall, UpdateCall, LifecycleCall, PurgeCall, RevealCall,
     Reading, Mutation, Transition

\* Watch keeps the type of the history it records.
LEMMA WatchTyped ==
  ASSUME TypeInv, Watch,
         secrets' \in [SecretId -> SecretRow \union {None}],
         versions' \in [SecretId -> Seq(Payload)],
         VersionsContiguous'
  PROVE  readable' \in [Request -> SUBSET Value]
<1> SUFFICES ASSUME NEW q \in Request, pc[q] # "idle"
             PROVE  readable[q] \union Readable(secrets', versions', call[q].secret_id)
                    \subseteq Value
  BY DEF Watch
<1>1. call[q].secret_id \in SecretId
  BY CallTyped DEF TypeInv, TypeOK, FetchCall
<1>2. Readable(secrets', versions', call[q].secret_id) \subseteq Value
  BY <1>1, ReadableTyped DEF VersionsContiguous
<1> QED
  BY <1>2 DEF TypeInv, TypeOK

\* Appending the event a thread built keeps the log well typed and bounded.
LEMMA InsertTyped ==
  ASSUME TypeInv, NEW r \in Request, pc[r] = "commit",
         require_audit_head(pending[r]), insert_audit(pending[r])
  PROVE  audit_events' \in Seq(Event) /\ Len(audit_events') <= MaxSequence
<1>1. pending[r] \in Event
  BY DEF TypeInv, TypeOK
<1>2. pending[r].sequence \in Counter
  BY <1>1 DEF Event
<1>3. audit_events \in Seq(Event)
  BY DEF TypeInv, TypeOK
<1>4. Len(audit_events) + 1 <= MaxSequence
  BY <1>2, <1>3, BoundAssumption, SMTT(60) DEF require_audit_head, audit_head, Counter
<1> QED
  BY <1>1, <1>3, <1>4, SMTT(60) DEF insert_audit

\* A thread that committed or gave up is idle, and its event is gone.
LEMMA DoneTyped ==
  ASSUME TypeInv, NEW r \in Request, NEW a, Reply(r, a), Release(r)
  PROVE  /\ pc' \in [Request -> {"idle", "fetch", "audit", "commit"}]
         /\ DOMAIN call' = Request /\ DOMAIN pending' = Request
         /\ audit_gate' \in Request \union {None}
         /\ \A q \in Request :
              /\ pc'[q] = "fetch" => call'[q] \in FetchCall
              /\ pc'[q] \in {"audit", "commit"} => call'[q] \in AuditedCall
              /\ pc'[q] = "commit" => pending'[q] \in Event
  BY DEF TypeInv, TypeOK, Reply, Release

\* Refusing a request changes nothing that is stored.
LEMMA RefuseTyped ==
  ASSUME TypeInv, NEW r \in Request, NEW status, Refuse(r, status)
  PROVE  TypeInv'
  BY DEF TypeInv, TypeOK, VersionsContiguous, Refuse, Fail, Reply, store

\* A request that arrives keeps the types: its call is built from its inputs.
LEMMA ArriveTyped ==
  ASSUME TypeInv, NEW r \in Request, Arrive(r)
  PROVE  TypeInv'
<1> PICK s \in SecretId :
        \/ \E n \in Name, p \in Payload : create_secret(r, s, n, p)
        \/ \E ver, rev \in Counter, p \in Payload : update_secret(r, s, ver, rev, p)
        \/ \E rev \in Counter, t \in Transition : change_lifecycle(r, s, rev, t)
        \/ \E rev \in Counter, retained \in BOOLEAN :
              purge_secret_after_owner_approval(r, s, rev, retained)
        \/ reveal_current_secret(r, s)
        \/ \E ver \in Counter : reveal_secret_version(r, s, ver)
  BY DEF Arrive
<1>1. ASSUME NEW n \in Name, NEW p \in Payload, create_secret(r, s, n, p)
      PROVE  TypeInv'
  BY <1>1, BeginKeepsTypes DEF create_secret, AuditedCall, CreateCall
<1>2. ASSUME NEW ver \in Counter, NEW rev \in Counter, NEW p \in Payload,
             update_secret(r, s, ver, rev, p)
      PROVE  TypeInv'
  BY <1>2, BeginKeepsTypes, RefuseTyped, SMTT(60) DEF update_secret, AuditedCall, UpdateCall
<1>3. ASSUME NEW rev \in Counter, NEW t \in Transition, change_lifecycle(r, s, rev, t)
      PROVE  TypeInv'
  <2>1. [action |-> t.action, secret_id |-> s, revision |-> rev, transition |-> t]
            \in LifecycleCall
    BY SMTT(60) DEF LifecycleCall, Transition
  <2> QED
    BY <1>3, <2>1, BeginKeepsTypes, RefuseTyped DEF change_lifecycle, AuditedCall
<1>4. ASSUME NEW rev \in Counter, NEW retained \in BOOLEAN,
             purge_secret_after_owner_approval(r, s, rev, retained)
      PROVE  TypeInv'
  <2>1. [action |-> "secret:purge", secret_id |-> s, revision |-> rev, retained |-> retained]
            \in PurgeCall
    BY DEF PurgeCall
  <2> QED
    BY <1>4, <2>1, BeginKeepsTypes, RefuseTyped
    DEF purge_secret_after_owner_approval, AuditedCall
<1>5. CASE reveal_current_secret(r, s)
  <2>1. secrets[s] # None => secrets[s].current_version \in Nat \ {0}
    BY DEF TypeInv, TypeOK, SecretRow
  <2> QED
    BY <1>5, <2>1, BeginKeepsTypes, RefuseTyped
    DEF reveal_current_secret, in_use, FetchCall, Reading
<1>6. ASSUME NEW ver \in Counter, reveal_secret_version(r, s, ver)
      PROVE  TypeInv'
  <2>1. ver \in Nat \ {0}
    BY BoundAssumption, SMTT(60) DEF Counter
  <2> QED
    BY <1>6, <2>1, BeginKeepsTypes, RefuseTyped
    DEF reveal_secret_version, FetchCall, Reading
<1> QED
  BY <1>1, <1>2, <1>3, <1>4, <1>5, <1>6

-----------------------------------------------------------------------------
(***************************************************************************)
(* What a transaction does, flattened.  Every step of a thread at "commit" *)
(* is one of seven outcomes; the invariants below are proved outcome by    *)
(* outcome.                                                                *)
(***************************************************************************)
Wrote(r, row, payloads) ==
    /\ require_audit_head(pending[r])
    /\ secrets' = [secrets EXCEPT ![call[r].secret_id] = row]
    /\ versions' = [versions EXCEPT ![call[r].secret_id] = payloads]
    /\ insert_audit(pending[r])

Created(r) ==
    /\ call[r] \in CreateCall
    /\ secrets[call[r].secret_id] = None
    /\ name_free(call[r].name)
    /\ Wrote(r, [name |-> call[r].name, lifecycle_state |-> "active",
                 current_version |-> 1, revision |-> 1], <<call[r].payload>>)
    /\ UNCHANGED tombstones
    /\ Acknowledge(r, 1)

Updated(r) ==
    LET row == secrets[call[r].secret_id] IN
    /\ call[r] \in UpdateCall
    /\ row \in SecretRow
    /\ row.current_version = call[r].version
    /\ row.revision = call[r].revision
    /\ row.lifecycle_state = "active"
    /\ Wrote(r, [name |-> row.name, lifecycle_state |-> "active",
                 current_version |-> call[r].version + 1,
                 revision |-> call[r].revision + 1],
             Append(versions[call[r].secret_id], call[r].payload))
    /\ UNCHANGED tombstones
    /\ Acknowledge(r, call[r].version + 1)

Changed(r) ==
    LET row == secrets[call[r].secret_id] IN
    /\ call[r] \in LifecycleCall
    /\ row \in SecretRow
    /\ row.revision = call[r].revision
    /\ row.lifecycle_state = call[r].transition.from_state
    /\ Wrote(r, [name |-> row.name, lifecycle_state |-> call[r].transition.to_state,
                 current_version |-> row.current_version,
                 revision |-> call[r].revision + 1],
             versions[call[r].secret_id])
    /\ UNCHANGED <<tombstones, acked>>
    /\ Reply(r, [request |-> r, status |-> "ok"])

Purged(r) ==
    /\ call[r] \in PurgeCall
    /\ secrets[call[r].secret_id] \in SecretRow
    /\ secrets[call[r].secret_id].revision = call[r].revision
    /\ secrets[call[r].secret_id].lifecycle_state = "deleted"
    /\ call[r].secret_id \notin tombstones
    /\ Wrote(r, None, <<>>)
    /\ tombstones' = tombstones \union {call[r].secret_id}
    /\ UNCHANGED acked
    /\ Reply(r, [request |-> r, status |-> "ok"])

Revealed(r) ==
    /\ call[r] \in RevealCall
    /\ require_audit_head(pending[r])
    /\ insert_audit(pending[r])
    /\ UNCHANGED <<secrets, versions, tombstones, acked>>
    /\ Reply(r, [request |-> r, status |-> "revealed", action |-> call[r].action,
                 secret_id |-> call[r].secret_id, plaintext |-> call[r].plaintext])

Failed(r) ==
    /\ UNCHANGED <<store, acked>>
    /\ \E status \in {"conflict", "not_found", "unavailable"} : Fail(r, status)

Retried(r) ==
    /\ UNCHANGED <<store, acked>>
    /\ reply' = [status |-> "none"]
    /\ call[r] \in UpdateCall
    /\ call' = [call EXCEPT ![r] = [call[r] EXCEPT !.attempt = 2]]
    /\ pc' = [pc EXCEPT ![r] = "audit"]

Transaction(r) ==
    \/ store_create_secret(r)
    \/ append_secret_version(r)
    \/ change_secret_lifecycle(r)
    \/ purge_secret(r)
    \/ append_audit(r)

\* Two columns of a row are set, the others stay.
LEMMA RowsEqual ==
  \A x, y \in SecretRow :
    /\ x.name = y.name /\ x.lifecycle_state = y.lifecycle_state
    /\ x.current_version = y.current_version /\ x.revision = y.revision
    => x = y
  BY SMTT(60) DEF SecretRow

LEMMA RowWithVersion ==
  ASSUME NEW x \in SecretRow, NEW ver \in Nat \ {0}, NEW rev \in Nat \ {0}
  PROVE  [x EXCEPT !.current_version = ver, !.revision = rev]
            = [name |-> x.name, lifecycle_state |-> x.lifecycle_state,
               current_version |-> ver, revision |-> rev]
<1> DEFINE y == [x EXCEPT !.current_version = ver, !.revision = rev]
<1>1. /\ y \in SecretRow
      /\ y.name = x.name /\ y.lifecycle_state = x.lifecycle_state
      /\ y.current_version = ver /\ y.revision = rev
  BY DEF SecretRow
<1>2. [name |-> x.name, lifecycle_state |-> x.lifecycle_state,
       current_version |-> ver, revision |-> rev] \in SecretRow
  BY DEF SecretRow
<1> QED
  BY <1>1, <1>2, RowsEqual

LEMMA RowWithState ==
  ASSUME NEW x \in SecretRow, NEW state \in LifecycleState, NEW rev \in Nat \ {0}
  PROVE  [x EXCEPT !.lifecycle_state = state, !.revision = rev]
            = [name |-> x.name, lifecycle_state |-> state,
               current_version |-> x.current_version, revision |-> rev]
<1> DEFINE y == [x EXCEPT !.lifecycle_state = state, !.revision = rev]
<1>1. /\ y \in SecretRow
      /\ y.name = x.name /\ y.lifecycle_state = state
      /\ y.current_version = x.current_version /\ y.revision = rev
  BY DEF SecretRow
<1>2. [name |-> x.name, lifecycle_state |-> state,
       current_version |-> x.current_version, revision |-> rev] \in SecretRow
  BY DEF SecretRow
<1> QED
  BY <1>1, <1>2, RowsEqual

\* Inserting the version row after the last one appends it.
LEMMA NextRowAppends ==
  ASSUME NEW S, NEW q \in Seq(S), NEW e \in S, NEW n \in Nat, n = Len(q)
  PROVE  [v \in DOMAIN q \union {n + 1} |-> IF v = n + 1 THEN e ELSE q[v]] = Append(q, e)
<1> DEFINE f == [v \in DOMAIN q \union {n + 1} |-> IF v = n + 1 THEN e ELSE q[v]]
           a == Append(q, e)
<1>1. DOMAIN q \union {n + 1} = 1..(n + 1)
  BY SMTT(60)
<1>2. f = [v \in 1..(n + 1) |-> f[v]]
  BY <1>1
<1>3. a \in Seq(S) /\ Len(a) = n + 1
  BY SMTT(60)
<1>4. \A v \in 1..(n + 1) : f[v] = a[v]
  BY <1>1, SMTT(60)
<1>5. \A t \in Seq(S) : t = [v \in 1..Len(t) |-> t[v]]
  BY SMTT(60)
<1> HIDE DEF f, a
<1>6. a = [v \in 1..(n + 1) |-> a[v]]
  BY <1>3, <1>5
<1>7. f = a
  BY <1>2, <1>4, <1>6
<1> QED
  BY <1>7 DEF f, a

\* Every transaction ends in one of the seven outcomes, releases the gate and
\* records what became readable.
LEMMA Outcomes ==
  ASSUME TypeInv, NEW r \in Request, Transaction(r)
  PROVE  /\ pc[r] = "commit"
         /\ Release(r)
         /\ Watch
         /\ \/ Created(r) \/ Updated(r) \/ Changed(r) \/ Purged(r) \/ Revealed(r)
            \/ Failed(r) \/ Retried(r)
<1> DEFINE c == call[r]
           row == secrets[c.secret_id]
<1>1. pc[r] = "commit" /\ Release(r) /\ Watch
  BY DEF Transaction, store_create_secret, append_secret_version, change_secret_lifecycle,
     purge_secret, append_audit
<1>2. c.secret_id \in SecretId
  BY <1>1, CallTyped
<1>3. row # None => row \in SecretRow
  BY <1>2 DEF TypeInv, TypeOK
<1>4. versions \in [SecretId -> Seq(Payload)]
  BY DEF TypeInv, TypeOK
<1>5. CASE store_create_secret(r)
  <2>1. c \in CreateCall
    BY <1>1, <1>5, CallTyped DEF store_create_secret
  <2>2. secrets[c.secret_id] = None =>
          [v \in DOMAIN versions[c.secret_id] \union {1} |->
              IF v = 1 THEN c.payload ELSE versions[c.secret_id][v]] = <<c.payload>>
    BY <1>2, SMTT(60) DEF TypeInv, VersionsContiguous
  <2> QED
    BY <1>5, <2>1, <2>2 DEF store_create_secret, insert_version, Created, Wrote, Failed, store
<1>6. CASE append_secret_version(r)
  <2>1. c \in UpdateCall
    BY <1>1, <1>6, CallTyped DEF append_secret_version
  <2>2. CASE require_audit_head(pending[r]) /\ at_version(c.secret_id, c.version, c.revision)
    <3>1. /\ row \in SecretRow
          /\ row.current_version = c.version
          /\ row.revision = c.revision
          /\ row.lifecycle_state = "active"
      BY <1>3, <2>2 DEF at_version
    <3>2. [row EXCEPT !.current_version = c.version + 1, !.revision = @ + 1]
            = [name |-> row.name, lifecycle_state |-> "active",
               current_version |-> c.version + 1, revision |-> c.revision + 1]
      <4>1. c.version + 1 \in Nat \ {0} /\ c.revision + 1 \in Nat \ {0}
        BY <2>1, BoundAssumption, SMTT(60) DEF UpdateCall, Counter
      <4> HIDE DEF row, c
      <4> QED
        BY <3>1, <4>1, RowWithVersion
    <3>3. DOMAIN versions[c.secret_id] = 1..c.version
      BY <1>2, <2>2, <3>1 DEF at_version, TypeInv, VersionsContiguous
    <3>4. [v \in DOMAIN versions[c.secret_id] \union {c.version + 1} |->
                IF v = c.version + 1 THEN c.payload ELSE versions[c.secret_id][v]]
            = Append(versions[c.secret_id], c.payload)
      <4> DEFINE q == versions[c.secret_id]
      <4>1. q \in Seq(Payload) /\ c.version \in Nat
        BY <1>2, <1>4, <2>1, BoundAssumption, SMTT(60) DEF UpdateCall, Counter
      <4>2. Len(q) = c.version /\ DOMAIN q = 1..c.version
        BY <3>3, <4>1, SMTT(60)
      <4>3. c.payload \in Payload
        BY <2>1 DEF UpdateCall
      <4> QED
        BY <4>1, <4>2, <4>3, NextRowAppends
    <3> QED
      BY <1>6, <2>1, <2>2, <3>1, <3>2, <3>4 DEF append_secret_version, insert_version, Updated, Wrote
  <2>3. CASE ~(require_audit_head(pending[r]) /\ at_version(c.secret_id, c.version, c.revision))
    BY <1>6, <2>1, <2>3 DEF append_secret_version, Failed, Retried, store
  <2> QED
    BY <2>2, <2>3
<1>7. CASE change_secret_lifecycle(r)
  <2>1. c \in LifecycleCall
    BY <1>1, <1>7, CallTyped DEF change_secret_lifecycle
  <2>2. CASE /\ require_audit_head(pending[r])
             /\ at_revision(c.secret_id, c.revision, c.transition.from_state)
    <3>1. /\ row \in SecretRow
          /\ row.revision = c.revision
          /\ row.lifecycle_state = c.transition.from_state
      BY <1>3, <2>2 DEF at_revision
    <3>2. [row EXCEPT !.lifecycle_state = c.transition.to_state, !.revision = c.revision + 1]
            = [name |-> row.name, lifecycle_state |-> c.transition.to_state,
               current_version |-> row.current_version, revision |-> c.revision + 1]
      <4>1. c.transition.to_state \in LifecycleState /\ c.revision + 1 \in Nat \ {0}
        BY <2>1, BoundAssumption, SMTT(60) DEF LifecycleCall, Counter, Transition, LifecycleState
      <4> HIDE DEF row, c
      <4> QED
        BY <3>1, <4>1, RowWithState
    <3>3. versions = [versions EXCEPT ![c.secret_id] = versions[c.secret_id]]
      BY <1>2, <1>4
    <3> QED
      BY <1>7, <2>1, <2>2, <3>1, <3>2, <3>3 DEF change_secret_lifecycle, Changed, Wrote
  <2>3. CASE ~(/\ require_audit_head(pending[r])
               /\ at_revision(c.secret_id, c.revision, c.transition.from_state))
    BY <1>7, <2>3 DEF change_secret_lifecycle, Failed, store
  <2> QED
    BY <2>2, <2>3
<1>8. CASE purge_secret(r)
  <2>1. c \in PurgeCall
    BY <1>1, <1>8, CallTyped DEF purge_secret
  <2> QED
    BY <1>3, <1>8, <2>1 DEF purge_secret, at_revision, delete_versions, Purged, Wrote, Failed, store
<1>9. CASE append_audit(r)
  <2>1. c \in RevealCall
    BY <1>1, <1>9, CallTyped DEF append_audit, Reading
  <2> QED
    BY <1>9, <2>1 DEF append_audit, Revealed, Failed, store
<1> QED
  BY <1>1, <1>5, <1>6, <1>7, <1>8, <1>9 DEF Transaction

-----------------------------------------------------------------------------
\* A transaction that writes a well-formed row with as many version rows as
\* its current version says keeps the types.
LEMMA WroteTyped ==
  ASSUME TypeInv, NEW r \in Request, pc[r] = "commit", Release(r), Watch,
         NEW row \in SecretRow \union {None}, NEW payloads \in Seq(Payload),
         DOMAIN payloads = (IF row = None THEN {} ELSE 1..row.current_version),
         Wrote(r, row, payloads),
         tombstones' \subseteq SecretId,
         acked' \subseteq [secret_id : SecretId, version : Nat \ {0}, payload : Payload],
         NEW a, Reply(r, a)
  PROVE  TypeInv'
<1>1. call[r].secret_id \in SecretId
  BY CallTyped
<1>2. secrets' \in [SecretId -> SecretRow \union {None}]
  BY <1>1 DEF Wrote, TypeInv, TypeOK
<1>3. versions' \in [SecretId -> Seq(Payload)]
  BY <1>1 DEF Wrote, TypeInv, TypeOK
<1>4. VersionsContiguous'
  BY <1>1 DEF Wrote, TypeInv, TypeOK, VersionsContiguous
<1>5. audit_events' \in Seq(Event) /\ Len(audit_events') <= MaxSequence
  BY InsertTyped DEF Wrote
<1>6. readable' \in [Request -> SUBSET Value]
  BY <1>2, <1>3, <1>4, WatchTyped
<1> QED
  BY <1>2, <1>3, <1>4, <1>5, <1>6, DoneTyped DEF TypeInv, TypeOK

\* The fields that make a row.
LEMMA RowTyped ==
  ASSUME NEW n \in Name, NEW l \in LifecycleState, NEW v \in Nat \ {0}, NEW rev \in Nat \ {0}
  PROVE  [name |-> n, lifecycle_state |-> l, current_version |-> v, revision |-> rev] \in SecretRow
  BY DEF SecretRow

\* The fields of a row, and the numbers that follow them.
LEMMA RowFields ==
  ASSUME NEW row \in SecretRow
  PROVE  /\ row.name \in Name /\ row.lifecycle_state \in LifecycleState
         /\ row.current_version \in Nat \ {0} /\ row.revision \in Nat \ {0}
         /\ row.current_version + 1 \in Nat \ {0} /\ row.revision + 1 \in Nat \ {0}
  BY SMTT(60) DEF SecretRow

LEMMA TransactionTyped ==
  ASSUME TypeInv, NEW r \in Request, Transaction(r)
  PROVE  TypeInv'
<1> DEFINE s == call[r].secret_id
<1>1. pc[r] = "commit" /\ Release(r) /\ Watch /\ s \in SecretId
  BY Outcomes, CallTyped
<1>2. CASE Created(r)
  <2> DEFINE row == [name |-> call[r].name, lifecycle_state |-> "active",
                     current_version |-> 1, revision |-> 1]
  <2>1. row \in SecretRow /\ row.current_version = 1
    BY <1>2, SMTT(60) DEF Created, CreateCall, SecretRow, LifecycleState
  <2>2. row # None
    BY <2>1, NoneAssumption DEF SecretRow, LifecycleState
  <2>3. <<call[r].payload>> \in Seq(Payload) /\ DOMAIN <<call[r].payload>> = 1..1
    BY <1>2, SMTT(60) DEF Created, CreateCall
  <2>4. acked' \subseteq [secret_id : SecretId, version : Nat \ {0}, payload : Payload]
    BY <1>2, SMTT(60) DEF Created, Acknowledge, CreateCall, TypeInv, TypeOK
  <2>5. Wrote(r, row, <<call[r].payload>>) /\ tombstones' \subseteq SecretId
    BY <1>2 DEF Created, TypeInv, TypeOK
  <2>6. Reply(r, [request |-> r, status |-> "ok"])
    BY <1>2 DEF Created, Acknowledge
  <2> HIDE DEF row
  <2> QED
    BY <1>1, <2>1, <2>2, <2>3, <2>4, <2>5, <2>6, WroteTyped
<1>3. CASE Updated(r)
  <2> DEFINE row == [name |-> secrets[s].name, lifecycle_state |-> "active",
                     current_version |-> call[r].version + 1,
                     revision |-> call[r].revision + 1]
             rows == Append(versions[s], call[r].payload)
  <2>1. call[r].version \in Nat /\ call[r].revision \in Nat /\ call[r].payload \in Payload
    BY <1>3, BoundAssumption, SMTT(60) DEF Updated, UpdateCall, Counter
  <2>2. row \in SecretRow /\ row.current_version = call[r].version + 1
    <3>1. call[r].version + 1 \in Nat \ {0} /\ call[r].revision + 1 \in Nat \ {0}
      BY <2>1, SMTT(60)
    <3>2. secrets[s] \in SecretRow
      BY <1>3 DEF Updated
    <3>3. "active" \in LifecycleState /\ secrets[s].name \in Name
      BY <3>2, RowFields DEF LifecycleState
    <3> QED
      BY <3>1, <3>3, RowTyped
  <2>3. row # None
    BY <2>2, NoneAssumption DEF SecretRow, LifecycleState
  <2>4. versions[s] \in Seq(Payload)
    BY <1>1 DEF TypeInv, TypeOK
  <2>5. DOMAIN versions[s] = 1..call[r].version
    BY <1>1, <1>3, NoneAssumption
    DEF Updated, TypeInv, VersionsContiguous, SecretRow, LifecycleState
  <2>6. rows \in Seq(Payload) /\ DOMAIN rows = 1..(call[r].version + 1)
    BY <2>1, <2>4, <2>5, SMTT(60)
  <2>7. acked' \subseteq [secret_id : SecretId, version : Nat \ {0}, payload : Payload]
    <3>1. acked' = acked \union {[secret_id |-> s, version |-> call[r].version + 1,
                                   payload |-> call[r].payload]}
      BY <1>3 DEF Updated, Acknowledge
    <3>2. call[r].version + 1 \in Nat \ {0}
      BY <2>1, SMTT(60)
    <3>3. [secret_id |-> s, version |-> call[r].version + 1, payload |-> call[r].payload]
            \in [secret_id : SecretId, version : Nat \ {0}, payload : Payload]
      BY <1>1, <2>1, <3>2
    <3>4. acked \subseteq [secret_id : SecretId, version : Nat \ {0}, payload : Payload]
      BY DEF TypeInv, TypeOK
    <3> QED
      BY <3>1, <3>3, <3>4
  <2>8. Wrote(r, row, rows) /\ tombstones' \subseteq SecretId
    BY <1>3 DEF Updated, TypeInv, TypeOK
  <2>9. Reply(r, [request |-> r, status |-> "ok"])
    BY <1>3 DEF Updated, Acknowledge
  <2> HIDE DEF row, rows
  <2> QED
    BY <1>1, <2>2, <2>3, <2>6, <2>7, <2>8, <2>9, WroteTyped
<1>4. CASE Changed(r)
  <2> DEFINE row == [name |-> secrets[s].name,
                     lifecycle_state |-> call[r].transition.to_state,
                     current_version |-> secrets[s].current_version,
                     revision |-> call[r].revision + 1]
  <2>1. call[r].revision \in Nat /\ call[r].transition.to_state \in LifecycleState
    <3>1. call[r].revision \in Counter /\ call[r].transition \in Transition
      BY <1>4 DEF Changed, LifecycleCall
    <3>2. \A t \in Transition : t.to_state \in LifecycleState
      BY SMTT(60) DEF Transition, LifecycleState
    <3>3. Counter \subseteq Nat
      BY BoundAssumption, SMTT(60) DEF Counter
    <3> QED
      BY <3>1, <3>2, <3>3
  <2>2. row \in SecretRow /\ row.current_version = secrets[s].current_version
    <3>1. secrets[s] \in SecretRow
      BY <1>4 DEF Changed
    <3>2. secrets[s].name \in Name /\ secrets[s].current_version \in Nat \ {0}
      BY <3>1, RowFields
    <3>3. call[r].revision + 1 \in Nat \ {0}
      BY <2>1, SMTT(60)
    <3> QED
      BY <2>1, <3>2, <3>3, RowTyped
  <2>3. row # None /\ secrets[s] # None
    BY <1>4, <2>2, NoneAssumption DEF Changed, SecretRow, LifecycleState
  <2>4. versions[s] \in Seq(Payload) /\ DOMAIN versions[s] = 1..row.current_version
    BY <1>1, <2>2, <2>3 DEF TypeInv, TypeOK, VersionsContiguous
  <2>5. Wrote(r, row, versions[s]) /\ Reply(r, [request |-> r, status |-> "ok"])
    BY <1>4 DEF Changed
  <2>6. /\ tombstones' \subseteq SecretId
        /\ acked' \subseteq [secret_id : SecretId, version : Nat \ {0}, payload : Payload]
    BY <1>4 DEF Changed, TypeInv, TypeOK
  <2> HIDE DEF row
  <2> QED
    BY <1>1, <2>2, <2>3, <2>4, <2>5, <2>6, WroteTyped
<1>5. CASE Purged(r)
  <2>1. Wrote(r, None, <<>>) /\ Reply(r, [request |-> r, status |-> "ok"])
    BY <1>5 DEF Purged
  <2>2. /\ tombstones' \subseteq SecretId
        /\ acked' \subseteq [secret_id : SecretId, version : Nat \ {0}, payload : Payload]
    BY <1>1, <1>5 DEF Purged, TypeInv, TypeOK
  <2>3. <<>> \in Seq(Payload) /\ DOMAIN <<>> = {}
    BY SMTT(60)
  <2> QED
    BY <1>1, <2>1, <2>2, <2>3, WroteTyped
<1>6. CASE Revealed(r)
  <2>1. PICK a : Reply(r, a)
    BY <1>6 DEF Revealed
  <2>2. audit_events' \in Seq(Event) /\ Len(audit_events') <= MaxSequence
    BY <1>1, <1>6, InsertTyped DEF Revealed
  <2>3. VersionsContiguous'
    BY <1>6 DEF Revealed, TypeInv, VersionsContiguous
  <2>4. readable' \in [Request -> SUBSET Value]
    BY <1>1, <1>6, <2>3, WatchTyped DEF Revealed, TypeInv, TypeOK
  <2> QED
    BY <1>1, <1>6, <2>1, <2>2, <2>3, <2>4, DoneTyped DEF Revealed, TypeInv, TypeOK
<1>7. CASE Failed(r)
  <2>1. PICK a : Reply(r, a)
    BY <1>7 DEF Failed, Fail
  <2>2. VersionsContiguous'
    BY <1>7 DEF Failed, store, TypeInv, VersionsContiguous
  <2>3. readable' \in [Request -> SUBSET Value]
    BY <1>1, <1>7, <2>2, WatchTyped DEF Failed, store, TypeInv, TypeOK
  <2> QED
    BY <1>1, <1>7, <2>1, <2>2, <2>3, DoneTyped DEF Failed, store, TypeInv, TypeOK
<1>8. CASE Retried(r)
  <2>1. [call[r] EXCEPT !.attempt = 2] \in UpdateCall
    BY <1>8, SMTT(60) DEF Retried, UpdateCall
  <2>2. VersionsContiguous'
    BY <1>8 DEF Retried, store, TypeInv, VersionsContiguous
  <2>3. readable' \in [Request -> SUBSET Value]
    BY <1>1, <1>8, <2>2, WatchTyped DEF Retried, store, TypeInv, TypeOK
  <2>4. \A q \in Request :
          /\ pc'[q] = "fetch" => call'[q] \in FetchCall
          /\ pc'[q] \in {"audit", "commit"} => call'[q] \in AuditedCall
          /\ pc'[q] = "commit" => pending'[q] \in Event
    BY <1>1, <1>8, <2>1 DEF Retried, Release, AuditedCall, TypeInv, TypeOK
  <2> QED
    BY <1>1, <1>8, <2>2, <2>3, <2>4 DEF Retried, Release, store, TypeInv, TypeOK
<1> QED
  BY <1>2, <1>3, <1>4, <1>5, <1>6, <1>7, <1>8, Outcomes

\* Fetching the version row yields the plaintext of a reveal.
LEMMA FetchTyped ==
  ASSUME TypeInv, NEW r \in Request, encrypted_secret_version(r)
  PROVE  TypeInv'
<1>1. call[r] \in FetchCall
  BY DEF encrypted_secret_version, TypeInv, TypeOK
<1>2. CASE call[r].version \notin DOMAIN versions[call[r].secret_id]
  BY <1>2
  DEF encrypted_secret_version, TypeInv, TypeOK, VersionsContiguous, Fail, Reply, store
<1>3. CASE call[r].version \in DOMAIN versions[call[r].secret_id]
  <2>1. versions[call[r].secret_id][call[r].version].value \in Value
    BY <1>1, <1>3, VersionRowTyped DEF FetchCall, TypeInv, TypeOK, Payload
  <2>2. call'[r] \in AuditedCall
    <3>1. call[r] \in FetchCall /\ DOMAIN call = Request
      BY <1>1 DEF TypeInv, TypeOK
    <3>2. call'[r] = [action |-> call[r].action, secret_id |-> call[r].secret_id,
                      version |-> call[r].version,
                      plaintext |-> versions[call[r].secret_id][call[r].version].value]
      BY <1>3, <3>1 DEF encrypted_secret_version
    <3>3. /\ call[r].action \in Reading /\ call[r].secret_id \in SecretId
          /\ call[r].version \in Nat \ {0}
      BY <3>1 DEF FetchCall
    <3>4. call'[r] \in RevealCall
      BY <2>1, <3>2, <3>3, SMTT(60) DEF RevealCall
    <3> QED
      BY <3>4 DEF AuditedCall
  <2> QED
    BY <1>3, <2>2 DEF encrypted_secret_version, TypeInv, TypeOK, VersionsContiguous, store
<1> QED
  BY <1>2, <1>3

\* The event built on the head has the next sequence, within the bound.
LEMMA BuildTyped ==
  ASSUME TypeInv, NEW r \in Request, build_audit(r)
  PROVE  TypeInv'
<1>1. CASE ~sequence_left
  BY <1>1, SMTT(60) DEF build_audit, Fail, Reply, TypeInv, TypeOK, VersionsContiguous, store
<1>2. CASE sequence_left
  <2>0. audit_events \in Seq(Event)
    BY DEF TypeInv, TypeOK
  <2>1. Len(audit_events) + 1 \in Counter
    <3>1. Len(audit_events) \in Nat /\ Len(audit_events) < MaxSequence
      BY <1>2, <2>0, SMTT(60) DEF sequence_left, audit_head
    <3> QED
      BY <3>1, BoundAssumption, SMTT(60) DEF Counter
  <2>2. audit_head.commitment \in {NoCommitment} \union Commitment
    <3>1. audit_events # <<>> => audit_events[Len(audit_events)] \in Event
      BY <2>0, SMTT(60)
    <3> QED
      BY <3>1 DEF audit_head, Event
  <2>3. call[r].secret_id \in SecretId /\ call[r].action \in Mutation \union Reading
    BY CallTyped DEF build_audit
  <2>4. pending'[r] \in Event
    <3> DEFINE n == Len(audit_events) + 1
               e == [sequence |-> n, previous_commitment |-> audit_head.commitment,
                     action |-> call[r].action, target_id |-> call[r].secret_id,
                     commitment |-> <<n, call[r].action, call[r].secret_id>>]
    <3>1. audit_head.sequence + 1 = n
      BY DEF audit_head
    <3>2. DOMAIN pending = Request
      BY DEF TypeInv, TypeOK
    <3>3. pending'[r] = e
      BY <1>2, <3>1, <3>2 DEF build_audit
    <3>4. <<n, call[r].action, call[r].secret_id>> \in Commitment
      BY <2>1, <2>3 DEF Commitment
    <3> HIDE DEF n
    <3>5. n \in Counter
      BY <2>1 DEF n
    <3> QED
      BY <2>2, <2>3, <3>3, <3>4, <3>5, SMTT(60) DEF Event
  <2> QED
    BY <1>2, <2>4 DEF build_audit, TypeInv, TypeOK, VersionsContiguous, store
<1> QED
  BY <1>1, <1>2

LEMMA NextTyped == TypeInv /\ [Next]_vars => TypeInv'
<1> SUFFICES ASSUME TypeInv, [Next]_vars
             PROVE  TypeInv'
  OBVIOUS
<1>1. CASE Crash
  BY <1>1 DEF Crash, store, TypeInv, TypeOK, VersionsContiguous
<1>2. ASSUME NEW r \in Request, Arrive(r)
      PROVE  TypeInv'
  BY <1>2, ArriveTyped
<1>3. ASSUME NEW r \in Request, Step(r)
      PROVE  TypeInv'
  BY <1>3, FetchTyped, BuildTyped, TransactionTyped DEF Step, Transaction
<1>4. CASE UNCHANGED vars
  BY <1>4 DEF vars, store, TypeInv, TypeOK, VersionsContiguous
<1> QED
  BY <1>1, <1>2, <1>3, <1>4 DEF Next

\* Type correctness, with the bound on the sequence, in every run.
THEOREM TypeCorrect == Spec => []TypeOK
<1>1. Spec => []TypeInv
  BY InitTypeInv, NextTyped, PTL DEF Spec
<1> QED
  BY <1>1, PTL DEF TypeInv

\* DATA_MODEL.md core invariants 1 and 2: whatever interleaving of creates,
\* updates, purges and crashes, the version rows of a live secret are exactly
\* 1..current_version.
THEOREM VersionsAreContiguous == Spec => []VersionsContiguous
<1>1. Spec => []TypeInv
  BY InitTypeInv, NextTyped, PTL DEF Spec
<1> QED
  BY <1>1, PTL DEF TypeInv

-----------------------------------------------------------------------------
(***************************************************************************)
(* The audit gate and the chain.                                           *)
(***************************************************************************)

\* The event a thread is about to commit describes its call.
PendingDescribesCall ==
    \A r \in Request :
        pc[r] = "commit" => /\ pending[r].action = call[r].action
                            /\ pending[r].target_id = call[r].secret_id

AuditInv == HeadNeverStale /\ PendingDescribesCall /\ AuditChained

LEMMA InitAuditInv == Init => AuditInv
<1>1. Init => audit_events = <<>> /\ \A r \in Request : pc[r] = "idle"
  BY DEF Init
<1>2. 1..Len(<<>>) = {}
  BY SMTT(60)
<1> QED
  BY <1>1, <1>2 DEF AuditInv, HeadNeverStale, PendingDescribesCall, AuditChained

\* A step that writes no event and moves no thread to or past "commit".
LEMMA QuietAudit ==
  ASSUME TypeInv, AuditInv, UNCHANGED <<audit_events, audit_gate, pending>>,
         \A q \in Request : pc'[q] = "commit" => pc[q] = "commit" /\ call'[q] = call[q]
  PROVE  AuditInv'
  BY DEF AuditInv, HeadNeverStale, PendingDescribesCall, AuditChained,
     require_audit_head, audit_head

\* Appending an event built on the head continues the chain.
LEMMA ChainGrows ==
  ASSUME TypeInv, AuditChained, NEW e \in Event, require_audit_head(e), insert_audit(e)
  PROVE  AuditChained'
<1>1. audit_events \in Seq(Event)
  BY DEF TypeInv, TypeOK
<1>2. audit_events' = Append(audit_events, e) /\ Len(audit_events') = Len(audit_events) + 1
  BY <1>1, SMTT(60) DEF insert_audit
<1> SUFFICES ASSUME NEW i \in 1..Len(audit_events')
             PROVE  /\ audit_events'[i].sequence = i
                    /\ audit_events'[i].previous_commitment =
                          IF i = 1 THEN NoCommitment ELSE audit_events'[i - 1].commitment
  BY DEF AuditChained
<1>3. CASE i \in 1..Len(audit_events)
  <2>1. audit_events'[i] = audit_events[i]
    BY <1>1, <1>2, <1>3, SMTT(60)
  <2>2. i # 1 => audit_events'[i - 1] = audit_events[i - 1]
    BY <1>1, <1>2, <1>3, SMTT(60)
  <2> QED
    BY <1>3, <2>1, <2>2 DEF AuditChained
<1>4. CASE i = Len(audit_events) + 1
  <2>1. audit_events'[i] = e
    BY <1>1, <1>2, <1>4, SMTT(60)
  <2>2. i # 1 => audit_events'[i - 1] = audit_events[Len(audit_events)]
    BY <1>1, <1>2, <1>4, SMTT(60)
  <2>3. i # 1 <=> audit_events # <<>>
    BY <1>1, <1>4, SMTT(60)
  <2> QED
    BY <1>4, <2>1, <2>2, <2>3 DEF require_audit_head, audit_head
<1> QED
  BY <1>1, <1>2, <1>3, <1>4, SMTT(60)

\* A transaction leaves no other thread at "commit": only one holds the gate.
LEMMA OneCommitter ==
  ASSUME AuditInv, NEW r \in Request, NEW q \in Request, pc[r] = "commit", pc[q] = "commit"
  PROVE  q = r
  BY DEF AuditInv, HeadNeverStale

\* A request that arrives goes to its first step or is refused, and nothing
\* else moves.
LEMMA ArriveShape ==
  ASSUME TypeInv, NEW r \in Request, Arrive(r)
  PROVE  /\ UNCHANGED <<audit_events, audit_gate, pending>>
         /\ \A q \in Request : pc'[q] = "commit" => pc[q] = "commit" /\ call'[q] = call[q]
<1> DEFINE Quiet == /\ UNCHANGED <<audit_events, audit_gate, pending>>
                    /\ \A q \in Request : pc'[q] = "commit" =>
                                            pc[q] = "commit" /\ call'[q] = call[q]
<1>0. DOMAIN pc = Request /\ DOMAIN call = Request
  BY DEF TypeInv, TypeOK
<1>1. ASSUME NEW c, NEW step \in {"audit", "fetch"}, Begin(r, c, step)
      PROVE  Quiet
  BY <1>0, <1>1 DEF Begin, store
<1>2. ASSUME NEW status, Refuse(r, status)
      PROVE  Quiet
  BY <1>0, <1>2 DEF Refuse, Fail, Reply, store
<1> SUFFICES Quiet
  OBVIOUS
<1> HIDE DEF Quiet
<1> PICK s \in SecretId :
        \/ \E n \in Name, p \in Payload : create_secret(r, s, n, p)
        \/ \E ver, rev \in Counter, p \in Payload : update_secret(r, s, ver, rev, p)
        \/ \E rev \in Counter, t \in Transition : change_lifecycle(r, s, rev, t)
        \/ \E rev \in Counter, retained \in BOOLEAN :
              purge_secret_after_owner_approval(r, s, rev, retained)
        \/ reveal_current_secret(r, s)
        \/ \E ver \in Counter : reveal_secret_version(r, s, ver)
  BY DEF Arrive
<1>3. CASE \E n \in Name, p \in Payload : create_secret(r, s, n, p)
  BY <1>1, <1>3 DEF create_secret
<1>4. CASE \E ver, rev \in Counter, p \in Payload : update_secret(r, s, ver, rev, p)
  BY <1>1, <1>2, <1>4 DEF update_secret
<1>5. CASE \E rev \in Counter, t \in Transition : change_lifecycle(r, s, rev, t)
  BY <1>1, <1>2, <1>5 DEF change_lifecycle
<1>6. CASE \E rev \in Counter, retained \in BOOLEAN :
              purge_secret_after_owner_approval(r, s, rev, retained)
  BY <1>1, <1>2, <1>6 DEF purge_secret_after_owner_approval
<1>7. CASE reveal_current_secret(r, s)
  BY <1>1, <1>2, <1>7 DEF reveal_current_secret
<1>8. CASE \E ver \in Counter : reveal_secret_version(r, s, ver)
  BY <1>1, <1>2, <1>8 DEF reveal_secret_version
<1> QED
  BY <1>3, <1>4, <1>5, <1>6, <1>7, <1>8

LEMMA NextAudit == TypeInv /\ AuditInv /\ [Next]_vars => AuditInv'
<1> SUFFICES ASSUME TypeInv, AuditInv, [Next]_vars
             PROVE  AuditInv'
  OBVIOUS
<1>1. CASE Crash
  BY <1>1 DEF Crash, store, AuditInv, HeadNeverStale, PendingDescribesCall, AuditChained
<1>2. ASSUME NEW r \in Request, Arrive(r)
      PROVE  AuditInv'
  <2>1. /\ UNCHANGED <<audit_events, audit_gate, pending>>
        /\ \A q \in Request : pc'[q] = "commit" => pc[q] = "commit" /\ call'[q] = call[q]
    BY <1>2, ArriveShape
  <2> QED
    BY <2>1, QuietAudit
<1>3. ASSUME NEW r \in Request, encrypted_secret_version(r)
      PROVE  AuditInv'
  <2>1. /\ UNCHANGED <<audit_events, audit_gate, pending>>
        /\ \A q \in Request : pc'[q] = "commit" => pc[q] = "commit" /\ call'[q] = call[q]
    BY <1>3 DEF encrypted_secret_version, Fail, Reply, store, TypeInv, TypeOK
  <2> QED
    BY <2>1, QuietAudit
<1>4. ASSUME NEW r \in Request, build_audit(r)
      PROVE  AuditInv'
  <2>1. CASE ~sequence_left
    <3>1. /\ UNCHANGED <<audit_events, audit_gate, pending>>
          /\ \A q \in Request : pc'[q] = "commit" => pc[q] = "commit" /\ call'[q] = call[q]
      BY <1>4, <2>1 DEF build_audit, Fail, Reply, store, TypeInv, TypeOK
    <3> QED
      BY <3>1, QuietAudit
  <2>2. CASE sequence_left
    <3>1. \A q \in Request : pc'[q] = "commit" => q = r
      BY <1>4, <2>2, NoneAssumption
      DEF build_audit, audit_gate_free, AuditInv, HeadNeverStale, TypeInv, TypeOK
    <3>2. /\ audit_gate' = r /\ UNCHANGED <<audit_events, call>>
          /\ pending'[r].sequence = audit_head.sequence + 1
          /\ pending'[r].previous_commitment = audit_head.commitment
          /\ pending'[r].action = call[r].action
          /\ pending'[r].target_id = call[r].secret_id
      <4>1. DOMAIN pending = Request
        BY DEF TypeInv, TypeOK
      <4>2. audit_gate' = r /\ UNCHANGED <<audit_events, call>>
        BY <1>4, <2>2 DEF build_audit, store
      <4>3. pending'[r] = [sequence |-> audit_head.sequence + 1,
                           previous_commitment |-> audit_head.commitment,
                           action |-> call[r].action, target_id |-> call[r].secret_id,
                           commitment |-> <<audit_head.sequence + 1, call[r].action,
                                            call[r].secret_id>>]
        BY <1>4, <2>2, <4>1 DEF build_audit
      <4> QED
        BY <4>2, <4>3, SMTT(60)
    <3> QED
      BY <3>1, <3>2 DEF AuditInv, HeadNeverStale, PendingDescribesCall, AuditChained,
         require_audit_head, audit_head
  <2> QED
    BY <2>1, <2>2
<1>5. ASSUME NEW r \in Request, Transaction(r)
      PROVE  AuditInv'
  <2>1. pc[r] = "commit" /\ pending[r] \in Event
    BY <1>5, Outcomes DEF TypeInv, TypeOK
  <2>2. \A q \in Request : pc'[q] # "commit"
    <3>1. \E to \in {"idle", "audit"} : pc' = [pc EXCEPT ![r] = to]
      BY <1>5, Outcomes DEF Created, Updated, Changed, Purged, Revealed, Failed, Retried,
         Acknowledge, Fail, Reply
    <3> QED
      BY <2>1, <3>1, OneCommitter DEF TypeInv, TypeOK
  <2>3. \/ require_audit_head(pending[r]) /\ insert_audit(pending[r])
        \/ UNCHANGED audit_events
    BY <1>5, Outcomes DEF Created, Updated, Changed, Purged, Revealed, Failed, Retried,
       Wrote, store
  <2>4. AuditChained'
    BY <2>1, <2>3, ChainGrows DEF AuditInv, AuditChained
  <2> QED
    BY <2>2, <2>4 DEF AuditInv, HeadNeverStale, PendingDescribesCall
<1>6. CASE UNCHANGED vars
  BY <1>6 DEF vars, store, AuditInv, HeadNeverStale, PendingDescribesCall, AuditChained,
     require_audit_head, audit_head
<1> QED
  BY <1>1, <1>2, <1>3, <1>4, <1>5, <1>6 DEF Next, Step, Transaction

LEMMA TypeAndAudit == Spec => [](TypeInv /\ AuditInv)
  BY InitTypeInv, NextTyped, InitAuditInv, NextAudit, PTL DEF Spec

\* The gate serialises build and commit: no event is ever built on a head that
\* has moved when the transaction runs, however many threads audit.
THEOREM HeadIsNeverStale == Spec => []HeadNeverStale
  BY TypeAndAudit, PTL DEF AuditInv

\* The stored log is always a chain that verify_audit_chain accepts.
THEOREM AuditIsChained == Spec => []AuditChained
  BY TypeAndAudit, PTL DEF AuditInv

-----------------------------------------------------------------------------
(* What only transactions do.                                              *)

\* Steps that are not transactions leave the tables and acknowledgements alone.
LEMMA OnlyTransactionsWrite ==
  ASSUME TypeInv, [Next]_vars
  PROVE  UNCHANGED <<store, acked>> \/ \E r \in Request : Transaction(r)
<1>1. CASE Crash
  BY <1>1 DEF Crash
<1>2. ASSUME NEW r \in Request, Arrive(r)
      PROVE  UNCHANGED <<store, acked>>
  <2> DEFINE Quiet == UNCHANGED <<store, acked>>
  <2>1. ASSUME NEW c, NEW step, Begin(r, c, step)
        PROVE  Quiet
    BY <2>1 DEF Begin
  <2>2. ASSUME NEW status, Refuse(r, status)
        PROVE  Quiet
    BY <2>2 DEF Refuse
  <2> SUFFICES Quiet
    OBVIOUS
  <2> HIDE DEF Quiet
  <2> QED
    BY <1>2, <2>1, <2>2 DEF Arrive, create_secret, update_secret, change_lifecycle,
       purge_secret_after_owner_approval, reveal_current_secret, reveal_secret_version
<1>3. ASSUME NEW r \in Request, Step(r)
      PROVE  UNCHANGED <<store, acked>> \/ Transaction(r)
  BY <1>3 DEF Step, Transaction, encrypted_secret_version, build_audit
<1>4. CASE UNCHANGED vars
  BY <1>4 DEF vars
<1> QED
  BY <1>1, <1>2, <1>3, <1>4 DEF Next

LEMMA RowIsNotNone == \A x \in SecretRow : x # None
  BY NoneAssumption DEF SecretRow, LifecycleState

\* The secret a thread at "commit" works on.
LEMMA CommitTarget ==
  ASSUME TypeInv, NEW r \in Request, Transaction(r)
  PROVE  call[r].secret_id \in SecretId
  BY Outcomes, CallTyped

\* An update that commits finds as many version rows as the caller named.
LEMMA UpdatedLength ==
  ASSUME TypeInv, NEW r \in Request, Transaction(r), Updated(r)
  PROVE  Len(versions[call[r].secret_id]) = call[r].version
<1>1. call[r].secret_id \in SecretId
  BY CommitTarget
<1>2. versions[call[r].secret_id] \in Seq(Payload) /\ call[r].version \in Nat
  BY <1>1, BoundAssumption, SMTT(60) DEF TypeInv, TypeOK, Updated, UpdateCall, Counter
<1>3. DOMAIN versions[call[r].secret_id] = 1..call[r].version
  BY <1>1, RowIsNotNone DEF Updated, TypeInv, VersionsContiguous
<1> QED
  BY <1>2, <1>3, SMTT(60)

\* Appending keeps the elements there are and puts the new one behind them.
LEMMA AppendFacts ==
  ASSUME NEW S, NEW q \in Seq(S), NEW x \in S
  PROVE  /\ DOMAIN Append(q, x) = 1..(Len(q) + 1)
         /\ \A v \in DOMAIN q : v \in DOMAIN Append(q, x) /\ Append(q, x)[v] = q[v]
         /\ Append(q, x)[Len(q) + 1] = x
<1>1. DOMAIN q = 1..Len(q) /\ Len(q) \in Nat
  BY SMTT(60)
<1>2. DOMAIN Append(q, x) = 1..(Len(q) + 1)
  BY SMTT(60)
<1>3. \A v \in 1..Len(q) : v \in 1..(Len(q) + 1) /\ Append(q, x)[v] = q[v]
  BY SMTT(60)
<1>4. Append(q, x)[Len(q) + 1] = x
  BY SMTT(60)
<1> QED
  BY <1>1, <1>2, <1>3, <1>4

-----------------------------------------------------------------------------
(* What clients may rely on, from the types and the audit gate: unique     *)
(* names, durable acknowledged writes, audited and current reveals, a log   *)
(* that explains the state, and the atomic store of SecretStore.            *)

LEMMA NextNames == TypeInv /\ NamesUnique /\ [Next]_vars => NamesUnique'
<1> SUFFICES ASSUME TypeInv, NamesUnique, [Next]_vars
             PROVE  NamesUnique'
  OBVIOUS
<1>1. CASE UNCHANGED <<store, acked>>
  BY <1>1 DEF store, NamesUnique
<1>2. ASSUME NEW r \in Request, Transaction(r)
      PROVE  NamesUnique'
  <2> DEFINE u == call[r].secret_id
  <2>1. u \in SecretId /\ secrets \in [SecretId -> SecretRow \union {None}]
    BY <1>2, CommitTarget DEF TypeInv, TypeOK
  <2>2. CASE Created(r)
    BY <2>1, <2>2 DEF Created, Wrote, name_free, NamesUnique
  <2>3. CASE Updated(r)
    BY <2>1, <2>3, RowIsNotNone DEF Updated, Wrote, NamesUnique
  <2>4. CASE Changed(r)
    BY <2>1, <2>4, RowIsNotNone DEF Changed, Wrote, NamesUnique
  <2>5. CASE Purged(r)
    BY <2>1, <2>5 DEF Purged, Wrote, NamesUnique
  <2>6. CASE Revealed(r) \/ Failed(r) \/ Retried(r)
    BY <2>6 DEF Revealed, Failed, Retried, store, NamesUnique
  <2> QED
    BY <1>2, <2>2, <2>3, <2>4, <2>5, <2>6, Outcomes
<1> QED
  BY <1>1, <1>2, OnlyTransactionsWrite

\* Racing creates of one name leave one secret: the name stays reserved in
\* every lifecycle state until the purge.
THEOREM NamesAreUnique == Spec => []NamesUnique
<1>1. Init => NamesUnique
  BY DEF Init, NamesUnique
<1> QED
  BY <1>1, InitTypeInv, NextTyped, NextNames, PTL DEF Spec

-----------------------------------------------------------------------------
LEMMA NextDurable == TypeInv /\ AckedWriteDurable /\ [Next]_vars => AckedWriteDurable'
<1> SUFFICES ASSUME TypeInv, AckedWriteDurable, [Next]_vars
             PROVE  AckedWriteDurable'
  OBVIOUS
<1>1. CASE UNCHANGED <<store, acked>>
  BY <1>1 DEF store, AckedWriteDurable
<1>2. ASSUME NEW r \in Request, Transaction(r)
      PROVE  AckedWriteDurable'
  <2> DEFINE u == call[r].secret_id
  <2>1. /\ u \in SecretId
        /\ versions \in [SecretId -> Seq(Payload)]
        /\ versions[u] \in Seq(Payload)
    BY <1>2, CommitTarget DEF TypeInv, TypeOK
  <2>2. CASE Created(r)
    <3>1. versions[u] = <<>>
      BY <2>1, <2>2, SMTT(60) DEF Created, TypeInv, VersionsContiguous
    <3>2. \A w \in acked : w.secret_id = u => w.secret_id \in tombstones
      BY <3>1, SMTT(60) DEF AckedWriteDurable
    <3> QED
      BY <2>1, <2>2, <3>2, SMTT(60) DEF Created, Wrote, Acknowledge, AckedWriteDurable
  <2>3. CASE Updated(r)
    <3>1. call[r].version \in Nat /\ call[r].payload \in Payload
      BY <2>3, BoundAssumption, SMTT(60) DEF Updated, UpdateCall, Counter
    <3>2. Len(versions[u]) = call[r].version
      BY <1>2, <2>3, UpdatedLength
    <3>3. versions'[u] = Append(versions[u], call[r].payload)
      BY <2>1, <2>3 DEF Updated, Wrote
    <3>4. /\ \A v \in DOMAIN versions[u] : v \in DOMAIN versions'[u] /\ versions'[u][v] = versions[u][v]
          /\ call[r].version + 1 \in DOMAIN versions'[u]
          /\ versions'[u][call[r].version + 1] = call[r].payload
      <4>1. call[r].version + 1 \in 1..(Len(versions[u]) + 1)
        BY <3>1, <3>2, SMTT(60)
      <4>2. /\ DOMAIN versions'[u] = 1..(Len(versions[u]) + 1)
            /\ \A v \in DOMAIN versions[u] : v \in DOMAIN versions'[u] /\ versions'[u][v] = versions[u][v]
            /\ versions'[u][Len(versions[u]) + 1] = call[r].payload
        BY <2>1, <3>1, <3>3, AppendFacts, SMTT(60)
      <4> QED
        BY <3>2, <4>1, <4>2
    <3>5. \A s \in SecretId : s # u => versions'[s] = versions[s]
      BY <2>1, <2>3 DEF Updated, Wrote
    <3>6. /\ tombstones' = tombstones
          /\ acked' = acked \union {[secret_id |-> u, version |-> call[r].version + 1,
                                    payload |-> call[r].payload]}
      BY <2>3 DEF Updated, Acknowledge
    <3>7. \A w \in acked : w.secret_id \in SecretId
      BY DEF TypeInv, TypeOK
    <3> QED
      BY <3>4, <3>5, <3>6, <3>7, SMTT(60) DEF AckedWriteDurable
  <2>4. CASE Changed(r)
    BY <2>1, <2>4 DEF Changed, Wrote, AckedWriteDurable
  <2>5. CASE Purged(r)
    BY <2>1, <2>5, SMTT(60) DEF Purged, Wrote, AckedWriteDurable
  <2>6. CASE Revealed(r) \/ Failed(r) \/ Retried(r)
    BY <2>6 DEF Revealed, Failed, Retried, store, AckedWriteDurable
  <2> QED
    BY <1>2, <2>2, <2>3, <2>4, <2>5, <2>6, Outcomes
<1> QED
  BY <1>1, <1>2, OnlyTransactionsWrite

\* No lost update, for any number of racing clients and any crashes: what was
\* acknowledged stays readable under its version until the purge.
THEOREM AckedWritesAreDurable == Spec => []AckedWriteDurable
<1>1. Init => AckedWriteDurable
  BY DEF Init, AckedWriteDurable
<1> QED
  BY <1>1, InitTypeInv, NextTyped, NextDurable, PTL DEF Spec

-----------------------------------------------------------------------------
(***************************************************************************)
(* Reveals.  The version number and the version row are read apart, so the *)
(* row fetched may belong to a secret recreated under the same id: still a *)
(* value that was current during the call.                                 *)
(***************************************************************************)
FetchedWasCurrent ==
    \A q \in Request :
        /\ pc[q] = "fetch"
        /\ call[q].action = "secret:value-read"
        /\ call[q].version \in DOMAIN versions[call[q].secret_id]
        => versions[call[q].secret_id][call[q].version].value \in readable[q]

PlaintextWasCurrent ==
    \A q \in Request :
        pc[q] \in {"audit", "commit"} /\ call[q].action = "secret:value-read" =>
            call[q].plaintext \in readable[q]

RevealInv == FetchedWasCurrent /\ PlaintextWasCurrent /\ RevealAuditedAndCurrent

\* What a running reveal may return stays known, and what a transaction makes
\* current is known to the reveals running beside it.
LEMMA WatchAdds ==
  ASSUME TypeInv, Watch, NEW q \in Request, pc[q] # "idle"
  PROVE  /\ readable[q] \subseteq readable'[q]
         /\ Readable(secrets', versions', call[q].secret_id) \subseteq readable'[q]
  BY DEF Watch

\* A failure tells nothing.
LEMMA FailReveals ==
  ASSUME TypeInv, RevealInv, NEW r \in Request, NEW status, status # "revealed",
         Fail(r, status), UNCHANGED <<store, readable>>
  PROVE  RevealInv'
<1>1. /\ pc'[r] = "idle" /\ reply'.status = status
      /\ UNCHANGED <<versions, readable>>
      /\ \A q \in Request \ {r} : pc'[q] = pc[q] /\ call'[q] = call[q]
  BY DEF Fail, Reply, store, TypeInv, TypeOK
<1>2. FetchedWasCurrent'
  BY <1>1 DEF RevealInv, FetchedWasCurrent
<1>3. PlaintextWasCurrent'
  BY <1>1 DEF RevealInv, PlaintextWasCurrent
<1> QED
  BY <1>1, <1>2, <1>3 DEF RevealInv, RevealAuditedAndCurrent

LEMMA ArriveReveal ==
  ASSUME TypeInv, RevealInv, NEW r \in Request, Arrive(r)
  PROVE  RevealInv'
<1>1. ASSUME NEW status, Refuse(r, status), status # "revealed"
      PROVE  RevealInv'
  BY <1>1, FailReveals DEF Refuse
<1>2. ASSUME NEW c, NEW step \in {"fetch", "audit"}, Begin(r, c, step),
             step = "audit" => c.action # "secret:value-read",
             step = "fetch" /\ c.action = "secret:value-read" =>
                 versions[c.secret_id][c.version].value
                    \in Readable(secrets, versions, c.secret_id)
      PROVE  RevealInv'
  <2>1. reply'.status # "revealed"
    BY <1>2 DEF Begin
  <2>2. /\ pc'[r] = step /\ call'[r] = c
        /\ readable'[r] = Readable(secrets, versions, c.secret_id)
        /\ UNCHANGED versions
        /\ \A q \in Request \ {r} : /\ pc'[q] = pc[q] /\ call'[q] = call[q]
                                    /\ pc[q] # "idle" => readable'[q] = readable[q]
    BY <1>2 DEF Begin, store, TypeInv, TypeOK
  <2>3. FetchedWasCurrent'
    BY <1>2, <2>2 DEF RevealInv, FetchedWasCurrent
  <2>4. PlaintextWasCurrent'
    BY <1>2, <2>2 DEF RevealInv, PlaintextWasCurrent
  <2> QED
    BY <2>1, <2>3, <2>4 DEF RevealInv, RevealAuditedAndCurrent
<1> PICK s \in SecretId :
        \/ \E n \in Name, p \in Payload : create_secret(r, s, n, p)
        \/ \E ver, rev \in Counter, p \in Payload : update_secret(r, s, ver, rev, p)
        \/ \E rev \in Counter, t \in Transition : change_lifecycle(r, s, rev, t)
        \/ \E rev \in Counter, retained \in BOOLEAN :
              purge_secret_after_owner_approval(r, s, rev, retained)
        \/ reveal_current_secret(r, s)
        \/ \E ver \in Counter : reveal_secret_version(r, s, ver)
  BY DEF Arrive
<1>3. CASE \E n \in Name, p \in Payload : create_secret(r, s, n, p)
  BY <1>2, <1>3 DEF create_secret
<1>4. CASE \E ver, rev \in Counter, p \in Payload : update_secret(r, s, ver, rev, p)
  BY <1>1, <1>2, <1>4 DEF update_secret
<1>5. CASE \E rev \in Counter, t \in Transition : change_lifecycle(r, s, rev, t)
  <2>1. \A t \in Transition : t.action # "secret:value-read"
    BY SMTT(60) DEF Transition
  <2> QED
    BY <1>1, <1>2, <1>5, <2>1 DEF change_lifecycle
<1>6. CASE \E rev \in Counter, retained \in BOOLEAN :
              purge_secret_after_owner_approval(r, s, rev, retained)
  BY <1>1, <1>2, <1>6 DEF purge_secret_after_owner_approval
<1>7. CASE reveal_current_secret(r, s)
  <2>1. CASE ~in_use(s)
    BY <1>1, <1>7, <2>1 DEF reveal_current_secret
  <2>2. CASE in_use(s)
    <3>1. versions[s][secrets[s].current_version].value \in Readable(secrets, versions, s)
      BY <2>2 DEF in_use, Readable
    <3> QED
      BY <1>2, <1>7, <2>2, <3>1 DEF reveal_current_secret
  <2> QED
    BY <2>1, <2>2
<1>8. CASE \E ver \in Counter : reveal_secret_version(r, s, ver)
  BY <1>1, <1>2, <1>8 DEF reveal_secret_version
<1> QED
  BY <1>3, <1>4, <1>5, <1>6, <1>7, <1>8

\* A version row that a transaction leaves behind is one that was there, or
\* the current value of a secret that is now active.
LEMMA RowsAfter ==
  ASSUME TypeInv, NEW r \in Request, Transaction(r), NEW s \in SecretId,
         NEW v \in DOMAIN versions'[s]
  PROVE  \/ v \in DOMAIN versions[s] /\ versions'[s][v] = versions[s][v]
         \/ versions'[s][v].value \in Readable(secrets', versions', s)
<1> DEFINE u == call[r].secret_id
<1>1. /\ u \in SecretId
      /\ versions \in [SecretId -> Seq(Payload)] /\ versions[u] \in Seq(Payload)
      /\ secrets \in [SecretId -> SecretRow \union {None}]
  BY CommitTarget DEF TypeInv, TypeOK
<1>2. CASE Created(r)
  <2>1. /\ versions' = [versions EXCEPT ![u] = <<call[r].payload>>]
        /\ secrets'[u].current_version = 1 /\ secrets'[u].lifecycle_state = "active"
    BY <1>1, <1>2 DEF Created, Wrote
  <2>2. secrets'[u] # None
    BY <1>1, <1>2, RowIsNotNone, SMTT(60) DEF Created, Wrote, CreateCall, SecretRow, LifecycleState
  <2>3. s = u => v = 1
    BY <1>1, <2>1, SMTT(60)
  <2> QED
    BY <1>1, <2>1, <2>2, <2>3 DEF Readable
<1>3. CASE Updated(r)
  <2>1. call[r].version \in Nat /\ call[r].revision \in Nat /\ call[r].payload \in Payload
    BY <1>3, BoundAssumption, SMTT(60) DEF Updated, UpdateCall, Counter
  <2>2. Len(versions[u]) = call[r].version
    BY <1>3, UpdatedLength
  <2>3. /\ versions' = [versions EXCEPT ![u] = Append(versions[u], call[r].payload)]
        /\ secrets'[u] = [name |-> secrets[u].name, lifecycle_state |-> "active",
                          current_version |-> call[r].version + 1,
                          revision |-> call[r].revision + 1]
        /\ secrets[u] \in SecretRow
    BY <1>1, <1>3 DEF Updated, Wrote
  <2>4. secrets'[u] # None
    <3>1. call[r].version + 1 \in Nat \ {0} /\ call[r].revision + 1 \in Nat \ {0}
      BY <2>1, SMTT(60)
    <3>2. "active" \in LifecycleState /\ secrets[u].name \in Name
      BY <2>3, RowFields DEF LifecycleState
    <3> QED
      BY <2>3, <3>1, <3>2, RowTyped, RowIsNotNone
  <2>5. s = u => \/ v \in DOMAIN versions[u] /\ versions'[u][v] = versions[u][v]
                 \/ v = call[r].version + 1
    <3>1. versions'[u] = Append(versions[u], call[r].payload)
      BY <1>1, <2>3
    <3>2. s = u => v \in 1..(Len(versions[u]) + 1)
      BY <1>1, <2>1, <3>1, AppendFacts, SMTT(60)
    <3>3. DOMAIN versions[u] = 1..call[r].version
      BY <1>1, <2>2, SMTT(60)
    <3> QED
      BY <1>1, <2>1, <2>2, <3>1, <3>2, <3>3, AppendFacts, SMTT(60)
  <2>6. CASE s # u
    <3>1. versions'[s] = versions[s]
      BY <1>1, <2>3, <2>6
    <3> QED
      BY <3>1
  <2>7. CASE s = u /\ v = call[r].version + 1
    <3>1. /\ secrets'[s] # None /\ secrets'[s].lifecycle_state = "active"
          /\ secrets'[s].current_version = v
      BY <2>3, <2>4, <2>7, SMTT(60)
    <3> QED
      BY <3>1 DEF Readable
  <2> QED
    BY <2>5, <2>6, <2>7
<1>4. CASE Changed(r)
  BY <1>1, <1>4 DEF Changed, Wrote
<1>5. CASE Purged(r)
  BY <1>1, <1>5, SMTT(60) DEF Purged, Wrote
<1>6. CASE Revealed(r) \/ Failed(r) \/ Retried(r)
  BY <1>6 DEF Revealed, Failed, Retried, store
<1> QED
  BY <1>2, <1>3, <1>4, <1>5, <1>6, Outcomes

LEMMA TransactionReveal ==
  ASSUME TypeInv, AuditInv, RevealInv, NEW r \in Request, Transaction(r)
  PROVE  RevealInv'
<1>1. pc[r] = "commit" /\ Watch
  BY Outcomes
<1>2. PICK to \in {"idle", "audit"} : pc' = [pc EXCEPT ![r] = to]
  BY Outcomes DEF Created, Updated, Changed, Purged, Revealed, Failed, Retried,
     Acknowledge, Fail, Reply
<1>3. \A q \in Request \ {r} : pc'[q] = pc[q] /\ call'[q] = call[q]
  BY <1>2, Outcomes DEF Created, Updated, Changed, Purged, Revealed, Failed, Retried,
     Acknowledge, Fail, Reply, TypeInv, TypeOK
<1>4. FetchedWasCurrent'
  <2> SUFFICES ASSUME NEW q \in Request, pc'[q] = "fetch",
                      call'[q].action = "secret:value-read",
                      call'[q].version \in DOMAIN versions'[call'[q].secret_id]
               PROVE  versions'[call'[q].secret_id][call'[q].version].value \in readable'[q]
    BY DEF FetchedWasCurrent
  <2>1. q # r
    BY <1>2 DEF TypeInv, TypeOK
  <2>2. pc[q] = "fetch" /\ call'[q] = call[q] /\ call[q].secret_id \in SecretId
    BY <1>3, <2>1 DEF TypeInv, TypeOK, FetchCall
  <2> DEFINE s == call[q].secret_id
             v == call[q].version
  <2>3. \/ v \in DOMAIN versions[s] /\ versions'[s][v] = versions[s][v]
        \/ versions'[s][v].value \in Readable(secrets', versions', s)
    BY <2>2, RowsAfter
  <2>4. readable[q] \subseteq readable'[q] /\ Readable(secrets', versions', s) \subseteq readable'[q]
    BY <1>1, <2>2, WatchAdds
  <2> QED
    BY <2>2, <2>3, <2>4 DEF RevealInv, FetchedWasCurrent
<1>5. PlaintextWasCurrent'
  <2> SUFFICES ASSUME NEW q \in Request, pc'[q] \in {"audit", "commit"},
                      call'[q].action = "secret:value-read"
               PROVE  call'[q].plaintext \in readable'[q]
    BY DEF PlaintextWasCurrent
  <2>1. CASE q = r
    <3>1. Retried(r)
      BY <1>2, <2>1, Outcomes DEF Created, Updated, Changed, Purged, Revealed, Failed,
         Acknowledge, Fail, Reply, TypeInv, TypeOK
    <3>2. call'[r].action = "secret:update"
      BY <3>1 DEF Retried, UpdateCall, TypeInv, TypeOK
    <3> QED
      BY <2>1, <3>2
  <2>2. CASE q # r
    <3>1. pc[q] \in {"audit", "commit"} /\ call'[q] = call[q]
      BY <1>3, <2>2
    <3> QED
      BY <1>1, <3>1, WatchAdds DEF RevealInv, PlaintextWasCurrent
  <2> QED
    BY <2>1, <2>2
<1>6. RevealAuditedAndCurrent'
  <2> SUFFICES ASSUME reply'.status = "revealed"
               PROVE  /\ audit_events' # <<>>
                      /\ audit_events'[Len(audit_events')].action = reply'.action
                      /\ audit_events'[Len(audit_events')].target_id = reply'.secret_id
                      /\ reply'.action = "secret:value-read" =>
                            reply'.plaintext \in readable'[reply'.request]
    BY DEF RevealAuditedAndCurrent
  <2>1. Revealed(r)
    <3>1. Created(r) \/ Updated(r) \/ Changed(r) \/ Purged(r) => reply'.status = "ok"
      <4>1. Created(r) => reply'.status = "ok"
        BY SMTT(60) DEF Created, Acknowledge, Reply
      <4>2. Updated(r) => reply'.status = "ok"
        BY SMTT(60) DEF Updated, Acknowledge, Reply
      <4>3. Changed(r) => reply'.status = "ok"
        BY SMTT(60) DEF Changed, Reply
      <4>4. Purged(r) => reply'.status = "ok"
        BY SMTT(60) DEF Purged, Reply
      <4> QED
        BY <4>1, <4>2, <4>3, <4>4
    <3>2. Failed(r) => reply'.status # "revealed"
      BY SMTT(60) DEF Failed, Fail, Reply
    <3>3. Retried(r) => reply'.status # "revealed"
      BY SMTT(60) DEF Retried
    <3> QED
      BY <3>1, <3>2, <3>3, Outcomes
  <2>2. /\ reply' = [request |-> r, status |-> "revealed", action |-> call[r].action,
                     secret_id |-> call[r].secret_id, plaintext |-> call[r].plaintext]
        /\ audit_events' = Append(audit_events, pending[r])
    BY <2>1 DEF Revealed, Reply, insert_audit
  <2>3. audit_events \in Seq(Event) /\ pending[r] \in Event
    BY <1>1 DEF TypeInv, TypeOK
  <2>4. audit_events' # <<>> /\ audit_events'[Len(audit_events')] = pending[r]
    BY <2>2, <2>3, SMTT(60)
  <2>5. pending[r].action = call[r].action /\ pending[r].target_id = call[r].secret_id
    BY <1>1 DEF AuditInv, PendingDescribesCall
  <2>6. call[r].action = "secret:value-read" => call[r].plaintext \in readable'[r]
    BY <1>1, WatchAdds DEF RevealInv, PlaintextWasCurrent
  <2> QED
    BY <2>2, <2>4, <2>5, <2>6
<1> QED
  BY <1>4, <1>5, <1>6 DEF RevealInv

LEMMA NextReveal == TypeInv /\ AuditInv /\ RevealInv /\ [Next]_vars => RevealInv'
<1> SUFFICES ASSUME TypeInv, AuditInv, RevealInv, [Next]_vars
             PROVE  RevealInv'
  OBVIOUS
<1>1. CASE Crash
  BY <1>1 DEF Crash, RevealInv, FetchedWasCurrent, PlaintextWasCurrent, RevealAuditedAndCurrent
<1>2. ASSUME NEW r \in Request, Arrive(r)
      PROVE  RevealInv'
  BY <1>2, ArriveReveal
<1>3. ASSUME NEW r \in Request, encrypted_secret_version(r)
      PROVE  RevealInv'
  <2>1. CASE call[r].version \notin DOMAIN versions[call[r].secret_id]
    BY <1>3, <2>1, FailReveals DEF encrypted_secret_version
  <2>2. CASE call[r].version \in DOMAIN versions[call[r].secret_id]
    <3>1. /\ pc[r] = "fetch" /\ pc'[r] = "audit"
          /\ call'[r].action = call[r].action
          /\ call'[r].plaintext = versions[call[r].secret_id][call[r].version].value
          /\ \A q \in Request \ {r} : pc'[q] = pc[q] /\ call'[q] = call[q]
          /\ UNCHANGED <<versions, audit_events, readable, reply>>
      <4>1. DOMAIN pc = Request /\ DOMAIN call = Request
        BY DEF TypeInv, TypeOK
      <4>2. pc[r] = "fetch" /\ UNCHANGED <<versions, audit_events, readable, reply>>
        BY <1>3, <2>2 DEF encrypted_secret_version, store
      <4>3. /\ pc' = [pc EXCEPT ![r] = "audit"]
            /\ call' = [call EXCEPT ![r] =
                  [action |-> call[r].action, secret_id |-> call[r].secret_id,
                   version |-> call[r].version,
                   plaintext |-> versions[call[r].secret_id][call[r].version].value]]
        BY <1>3, <2>2 DEF encrypted_secret_version
      <4>4. /\ call'[r].action = call[r].action
            /\ call'[r].plaintext = versions[call[r].secret_id][call[r].version].value
        BY <4>1, <4>3
      <4> QED
        BY <4>1, <4>2, <4>3, <4>4
    <3>2. FetchedWasCurrent'
      BY <3>1 DEF RevealInv, FetchedWasCurrent
    <3>3. PlaintextWasCurrent'
      BY <2>2, <3>1, SMTT(60) DEF RevealInv, FetchedWasCurrent, PlaintextWasCurrent
    <3> QED
      BY <3>1, <3>2, <3>3 DEF RevealInv, RevealAuditedAndCurrent
  <2> QED
    BY <2>1, <2>2
<1>4. ASSUME NEW r \in Request, build_audit(r)
      PROVE  RevealInv'
  <2>1. CASE ~sequence_left
    BY <1>4, <2>1, FailReveals DEF build_audit
  <2>2. CASE sequence_left
    <3>1. /\ pc[r] = "audit" /\ pc'[r] = "commit"
          /\ UNCHANGED <<versions, audit_events, readable, reply, call>>
          /\ \A q \in Request \ {r} : pc'[q] = pc[q]
      BY <1>4, <2>2 DEF build_audit, store, TypeInv, TypeOK
    <3>2. FetchedWasCurrent'
      BY <3>1 DEF RevealInv, FetchedWasCurrent
    <3>3. PlaintextWasCurrent'
      BY <3>1 DEF RevealInv, PlaintextWasCurrent
    <3> QED
      BY <3>1, <3>2, <3>3 DEF RevealInv, RevealAuditedAndCurrent
  <2> QED
    BY <2>1, <2>2
<1>5. ASSUME NEW r \in Request, Transaction(r)
      PROVE  RevealInv'
  BY <1>5, TransactionReveal
<1>6. CASE UNCHANGED vars
  BY <1>6 DEF vars, store, RevealInv, FetchedWasCurrent, PlaintextWasCurrent,
     RevealAuditedAndCurrent
<1> QED
  BY <1>1, <1>2, <1>3, <1>4, <1>5, <1>6 DEF Next, Step, Transaction

\* DATA_MODEL.md core invariant 8: a plaintext is answered only behind its own
\* event, and a current value was current at some time during the call.
THEOREM RevealsAreAuditedAndCurrent == Spec => []RevealAuditedAndCurrent
<1>1. Init => RevealInv
  BY SMTT(60) DEF Init, RevealInv, FetchedWasCurrent, PlaintextWasCurrent, RevealAuditedAndCurrent
<1>2. Spec => [](TypeInv /\ AuditInv /\ RevealInv)
  BY <1>1, InitTypeInv, NextTyped, InitAuditInv, NextAudit, NextReveal, PTL DEF Spec
<1> QED
  BY <1>2, PTL DEF RevealInv

-----------------------------------------------------------------------------
(***************************************************************************)
(* The log explains the state.  Lemmas about one log and the log with one  *)
(* more event, then about the row of one secret beside its log.            *)
(***************************************************************************)

\* The events about s from c on, after one more event e.
LEMMA EventsGrow ==
  ASSUME NEW log \in Seq(Event), NEW e \in Event, NEW s, NEW A, NEW c \in 1..(Len(log) + 1)
  PROVE  EventsOf(Append(log, e), s, A, c) =
            IF e.target_id = s /\ e.action \in A
            THEN EventsOf(log, s, A, c) \union {Len(log) + 1}
            ELSE EventsOf(log, s, A, c)
<1> DEFINE n == Len(log)
           more == Append(log, e)
<1>1. /\ Len(more) = n + 1
      /\ more[n + 1] = e
      /\ \A i \in 1..n : more[i] = log[i]
      /\ n \in Nat
  BY SMTT(60)
<1> HIDE DEF more
<1>2. EventsOf(more, s, A, c) =
            IF e.target_id = s /\ e.action \in A
            THEN EventsOf(log, s, A, c) \union {n + 1}
            ELSE EventsOf(log, s, A, c)
  BY <1>1, SMTT(60) DEF EventsOf
<1> QED
  BY <1>2 DEF more

LEMMA EventsAreFinite ==
  ASSUME NEW log \in Seq(Event), NEW s, NEW A, NEW c \in Nat
  PROVE  IsFiniteSet(EventsOf(log, s, A, c)) /\ EventsOf(log, s, A, c) \subseteq c..Len(log)
<1>1. EventsOf(log, s, A, c) \subseteq c..Len(log)
  BY DEF EventsOf
<1>2. IsFiniteSet(c..Len(log))
  BY FS_Interval, SMTT(60)
<1> QED
  BY <1>1, <1>2, FS_Subset

\* One more matching event is counted.
LEMMA EventsCount ==
  ASSUME NEW log \in Seq(Event), NEW e \in Event, NEW s, NEW A, NEW c \in 1..(Len(log) + 1),
         e.target_id = s, e.action \in A
  PROVE  Cardinality(EventsOf(Append(log, e), s, A, c)) = Cardinality(EventsOf(log, s, A, c)) + 1
<1>1. EventsOf(Append(log, e), s, A, c) = EventsOf(log, s, A, c) \union {Len(log) + 1}
  BY EventsGrow, SMTT(60)
<1>2. IsFiniteSet(EventsOf(log, s, A, c)) /\ EventsOf(log, s, A, c) \subseteq c..Len(log)
  BY EventsAreFinite, SMTT(60)
<1>3. Len(log) + 1 \notin EventsOf(log, s, A, c)
  BY <1>2, SMTT(60)
<1> QED
  BY <1>1, <1>2, <1>3, FS_AddElement

\* The last event is the only one from its index on.
LEMMA LastEvent ==
  ASSUME NEW log \in Seq(Event), NEW e \in Event, NEW s, NEW A,
         e.target_id = s, e.action \in A
  PROVE  EventsOf(Append(log, e), s, A, Len(log) + 1) = {Len(log) + 1}
<1>1. EventsOf(log, s, A, Len(log) + 1) = {}
  BY SMTT(60) DEF EventsOf
<1>2. Len(log) + 1 \in 1..(Len(log) + 1)
  BY SMTT(60)
<1> QED
  BY <1>1, <1>2, EventsGrow, SMTT(60)

\* AuditExplainsState for one row and one log.
Explained(row, log, s) ==
    IF row = None
    THEN \A c \in EventsOf(log, s, {"secret:create"}, 1) :
            EventsOf(log, s, {"secret:purge"}, c) # {}
    ELSE \E c \in EventsOf(log, s, {"secret:create"}, 1) :
            /\ EventsOf(log, s, {"secret:create", "secret:purge"}, c) = {c}
            /\ row.revision = Cardinality(EventsOf(log, s, Mutation, c))
            /\ row.current_version =
                  Cardinality(EventsOf(log, s, {"secret:create", "secret:update"}, c))
            /\ \E last \in EventsOf(log, s, Mutation, c) :
                  /\ EventsOf(log, s, Mutation, last) = {last}
                  /\ row.lifecycle_state = StateAfter[log[last].action]

\* An event that does not mutate s leaves its row explained.
LEMMA UntouchedExplained ==
  ASSUME NEW log \in Seq(Event), NEW e \in Event, NEW s, NEW row,
         e.target_id # s \/ e.action \notin Mutation,
         Explained(row, log, s)
  PROVE  Explained(row, Append(log, e), s)
<1> DEFINE more == Append(log, e)
<1>1. \A A \in SUBSET Mutation : \A c \in 1..Len(log) :
        EventsOf(more, s, A, c) = EventsOf(log, s, A, c)
  BY EventsGrow, SMTT(60)
<1>2. /\ Len(log) \in Nat /\ 1 \in 1..(Len(log) + 1)
      /\ \A i \in 1..Len(log) : more[i] = log[i]
      /\ \A A : EventsOf(log, s, A, 1) \subseteq 1..Len(log)
      /\ \A A : \A c \in 1..Len(log) : EventsOf(log, s, A, c) \subseteq 1..Len(log)
  BY SMTT(60) DEF EventsOf
<1>3. /\ {"secret:create"} \in SUBSET Mutation /\ {"secret:purge"} \in SUBSET Mutation
      /\ {"secret:create", "secret:purge"} \in SUBSET Mutation
      /\ {"secret:create", "secret:update"} \in SUBSET Mutation
      /\ Mutation \in SUBSET Mutation
  BY DEF Mutation
<1>4. EventsOf(more, s, {"secret:create"}, 1) = EventsOf(log, s, {"secret:create"}, 1)
  BY <1>2, <1>3, EventsGrow, SMTT(60)
<1> HIDE DEF more
<1>5. Explained(row, more, s)
  BY <1>1, <1>2, <1>3, <1>4 DEF Explained
<1> QED
  BY <1>5 DEF more

\* A create: the new event is the only one that counts.
LEMMA CreatedExplained ==
  ASSUME NEW log \in Seq(Event), NEW e \in Event, NEW s, NEW row,
         e.target_id = s, e.action = "secret:create",
         row # None, row.revision = 1, row.current_version = 1,
         row.lifecycle_state = "active"
  PROVE  Explained(row, Append(log, e), s)
<1> DEFINE n == Len(log) + 1
           more == Append(log, e)
<1>1. n \in 1..(Len(log) + 1) /\ 1 \in 1..(Len(log) + 1) /\ more[n] = e
  BY SMTT(60)
<1>2. e.action \in Mutation
  BY DEF Mutation
<1>3. /\ EventsOf(more, s, {"secret:create", "secret:purge"}, n) = {n}
      /\ EventsOf(more, s, Mutation, n) = {n}
      /\ EventsOf(more, s, {"secret:create", "secret:update"}, n) = {n}
  BY <1>2, LastEvent
<1>4. n \in EventsOf(more, s, {"secret:create"}, 1)
  BY <1>1, EventsGrow, SMTT(60)
<1>5. Cardinality({n}) = 1
  BY FS_Singleton
<1>6. StateAfter["secret:create"] = "active"
  BY DEF StateAfter
<1> HIDE DEF n, more
<1>7. Explained(row, more, s)
  BY <1>1, <1>3, <1>4, <1>5, <1>6 DEF Explained
<1> QED
  BY <1>7 DEF more

\* An update or a lifecycle change of a live secret: one more mutation, which
\* is the last one, and one more version for an update only.
LEMMA ChangedExplained ==
  ASSUME NEW log \in Seq(Event), NEW e \in Event, NEW s, NEW row, NEW new,
         e.target_id = s,
         e.action \in {"secret:update", "secret:archive", "secret:restore", "secret:delete"},
         row # None, new # None,
         new.revision = row.revision + 1,
         e.action = "secret:update" => new.current_version = row.current_version + 1,
         e.action # "secret:update" => new.current_version = row.current_version,
         new.lifecycle_state = StateAfter[e.action],
         Explained(row, log, s)
  PROVE  Explained(new, Append(log, e), s)
<1> DEFINE n == Len(log) + 1
           more == Append(log, e)
<1>1. n \in 1..(Len(log) + 1) /\ 1 \in 1..(Len(log) + 1) /\ more[n] = e
  BY SMTT(60)
<1>2. e.action \in Mutation
  BY DEF Mutation
<1>3. PICK c \in EventsOf(log, s, {"secret:create"}, 1) :
          /\ EventsOf(log, s, {"secret:create", "secret:purge"}, c) = {c}
          /\ row.revision = Cardinality(EventsOf(log, s, Mutation, c))
          /\ row.current_version =
                Cardinality(EventsOf(log, s, {"secret:create", "secret:update"}, c))
  BY DEF Explained
<1>4. c \in 1..(Len(log) + 1)
  BY SMTT(60) DEF EventsOf
<1>5. c \in EventsOf(more, s, {"secret:create"}, 1)
  BY <1>1, EventsGrow, SMTT(60)
<1>6. EventsOf(more, s, {"secret:create", "secret:purge"}, c) = {c}
  BY <1>3, <1>4, EventsGrow, SMTT(60)
<1>7. Cardinality(EventsOf(more, s, Mutation, c)) = new.revision
  BY <1>2, <1>3, <1>4, EventsCount, SMTT(60)
<1>8. Cardinality(EventsOf(more, s, {"secret:create", "secret:update"}, c))
        = new.current_version
  <2>1. CASE e.action = "secret:update"
    <3>1. e.action \in {"secret:create", "secret:update"}
      BY <2>1
    <3>2. Cardinality(EventsOf(more, s, {"secret:create", "secret:update"}, c))
            = Cardinality(EventsOf(log, s, {"secret:create", "secret:update"}, c)) + 1
      BY <1>4, <3>1, EventsCount
    <3> QED
      BY <1>3, <2>1, <3>2
  <2>2. CASE e.action # "secret:update"
    <3>1. EventsOf(more, s, {"secret:create", "secret:update"}, c)
            = EventsOf(log, s, {"secret:create", "secret:update"}, c)
      BY <1>4, <2>2, EventsGrow, SMTT(60)
    <3> QED
      BY <1>3, <2>2, <3>1
  <2> QED
    BY <2>1, <2>2
<1>9. n \in EventsOf(more, s, Mutation, c) /\ EventsOf(more, s, Mutation, n) = {n}
  <2>1. EventsOf(more, s, Mutation, c) = EventsOf(log, s, Mutation, c) \union {n}
    BY <1>2, <1>4, EventsGrow, SMTT(60)
  <2>2. EventsOf(more, s, Mutation, n) = {n}
    BY <1>2, LastEvent
  <2> QED
    BY <2>1, <2>2
<1> HIDE DEF n, more
<1>10. Explained(new, more, s)
  BY <1>1, <1>5, <1>6, <1>7, <1>8, <1>9 DEF Explained
<1> QED
  BY <1>10 DEF more

\* A purge comes after every creation there was.
LEMMA PurgedExplained ==
  ASSUME NEW log \in Seq(Event), NEW e \in Event, NEW s,
         e.target_id = s, e.action = "secret:purge"
  PROVE  Explained(None, Append(log, e), s)
<1> DEFINE more == Append(log, e)
<1>1. 1 \in 1..(Len(log) + 1)
  BY SMTT(60)
<1>2. EventsOf(more, s, {"secret:create"}, 1) = EventsOf(log, s, {"secret:create"}, 1)
  BY <1>1, EventsGrow, SMTT(60)
<1>3. ASSUME NEW c \in EventsOf(log, s, {"secret:create"}, 1)
      PROVE  EventsOf(more, s, {"secret:purge"}, c) # {}
  <2>1. c \in 1..(Len(log) + 1)
    BY SMTT(60) DEF EventsOf
  <2>2. Len(log) + 1 \in EventsOf(more, s, {"secret:purge"}, c)
    BY <2>1, EventsGrow, SMTT(60)
  <2> QED
    BY <2>2
<1> HIDE DEF more
<1>4. Explained(None, more, s)
  BY <1>2, <1>3 DEF Explained
<1> QED
  BY <1>4 DEF more

LEMMA NextExplained == TypeInv /\ AuditInv /\ AuditExplainsState /\ [Next]_vars
                       => AuditExplainsState'
<1> SUFFICES ASSUME TypeInv, AuditInv, AuditExplainsState, [Next]_vars, NEW s \in SecretId
             PROVE  Explained(secrets'[s], audit_events', s)
  BY DEF AuditExplainsState, Explained
<1>0. Explained(secrets[s], audit_events, s)
  BY DEF AuditExplainsState, Explained
<1>1. CASE UNCHANGED <<store, acked>>
  BY <1>0, <1>1 DEF store
<1>2. ASSUME NEW r \in Request, Transaction(r)
      PROVE  Explained(secrets'[s], audit_events', s)
  <2> DEFINE u == call[r].secret_id
             e == pending[r]
  <2>1. /\ pc[r] = "commit"
        /\ u \in SecretId
        /\ secrets \in [SecretId -> SecretRow \union {None}]
        /\ audit_events \in Seq(Event)
    BY <1>2, Outcomes, CommitTarget DEF TypeInv, TypeOK
  <2>2. e \in Event /\ e.action = call[r].action /\ e.target_id = u
    BY <2>1 DEF TypeInv, TypeOK, AuditInv, PendingDescribesCall
  <2>0. insert_audit(e) => audit_events' = Append(audit_events, e)
    BY DEF insert_audit
  <2>3. CASE insert_audit(e) /\ s # u
    <3>1. secrets'[s] = secrets[s]
      BY <1>2, <2>1, <2>3, Outcomes DEF Created, Updated, Changed, Purged, Revealed, Failed,
         Retried, Wrote, store
    <3> QED
      BY <1>0, <2>0, <2>1, <2>2, <2>3, <3>1, UntouchedExplained
  <2>4. CASE Created(r) /\ s = u
    <3>1. /\ insert_audit(e) /\ e.action = "secret:create"
          /\ secrets'[u] = [name |-> call[r].name, lifecycle_state |-> "active",
                            current_version |-> 1, revision |-> 1]
      BY <2>1, <2>2, <2>4 DEF Created, Wrote, CreateCall
    <3>2. secrets'[u] \in SecretRow
      <4>1. call[r].name \in Name /\ "active" \in LifecycleState /\ 1 \in Nat \ {0}
        BY <2>4, SMTT(60) DEF Created, CreateCall, LifecycleState
      <4> QED
        BY <3>1, <4>1, RowTyped
    <3> QED
      BY <2>0, <2>1, <2>2, <2>4, <3>1, <3>2, RowIsNotNone, CreatedExplained
  <2>5. CASE Updated(r) /\ s = u
    <3>1. /\ insert_audit(e) /\ e.action = "secret:update"
          /\ secrets'[u] = [name |-> secrets[u].name, lifecycle_state |-> "active",
                            current_version |-> secrets[u].current_version + 1,
                            revision |-> secrets[u].revision + 1]
          /\ secrets[u] \in SecretRow
      BY <2>1, <2>2, <2>5 DEF Updated, Wrote, UpdateCall
    <3>2. secrets'[u] \in SecretRow
      <4>1. "active" \in LifecycleState
        BY DEF LifecycleState
      <4>2. /\ secrets[u].name \in Name
            /\ secrets[u].current_version + 1 \in Nat \ {0}
            /\ secrets[u].revision + 1 \in Nat \ {0}
        BY <3>1, RowFields
      <4> QED
        BY <3>1, <4>1, <4>2, RowTyped
    <3>3. StateAfter["secret:update"] = "active"
      BY DEF StateAfter
    <3> QED
      BY <1>0, <2>0, <2>1, <2>2, <2>5, <3>1, <3>2, <3>3, RowIsNotNone, ChangedExplained
  <2>6. CASE Changed(r) /\ s = u
    <3>1. /\ insert_audit(e)
          /\ secrets'[u] = [name |-> secrets[u].name,
                            lifecycle_state |-> call[r].transition.to_state,
                            current_version |-> secrets[u].current_version,
                            revision |-> secrets[u].revision + 1]
          /\ secrets[u] \in SecretRow
      BY <2>1, <2>6 DEF Changed, Wrote
    <3>2. /\ call[r].transition.to_state = StateAfter[e.action]
          /\ call[r].transition.to_state \in LifecycleState
          /\ e.action \in {"secret:archive", "secret:restore", "secret:delete"}
      BY <2>2, <2>6, SMTT(60) DEF Changed, LifecycleCall, Transition, StateAfter, LifecycleState
    <3>3. secrets'[u] \in SecretRow
      BY <3>1, <3>2, RowFields, RowTyped, SMTT(60)
    <3> QED
      <4> DEFINE row == secrets[u]
                 new == secrets'[u]
      <4>1. new.revision = row.revision + 1 /\ new.current_version = row.current_version
        BY <3>1, SMTT(60)
      <4>2. new.lifecycle_state = StateAfter[e.action]
        BY <3>1, <3>2, SMTT(60)
      <4>3. row # None /\ new # None
        BY <3>1, <3>3, RowIsNotNone
      <4>4. e.action \in {"secret:update", "secret:archive", "secret:restore", "secret:delete"}
            /\ e.action # "secret:update"
        BY <3>2
      <4>5. Explained(row, audit_events, u)
        BY <1>0, <2>6
      <4>6. audit_events' = Append(audit_events, e)
        BY <2>0, <3>1
      <4> HIDE DEF row, new
      <4>7. Explained(new, Append(audit_events, e), u)
        BY <2>1, <2>2, <4>1, <4>2, <4>3, <4>4, <4>5, ChangedExplained
      <4> QED
        BY <2>6, <4>6, <4>7 DEF new
  <2>7. CASE Purged(r) /\ s = u
    <3>1. insert_audit(e) /\ e.action = "secret:purge" /\ secrets'[u] = None
      BY <2>1, <2>2, <2>7 DEF Purged, Wrote, PurgeCall
    <3> QED
      BY <2>0, <2>1, <2>2, <2>7, <3>1, PurgedExplained
  <2>8. CASE Revealed(r)
    <3>1. insert_audit(e) /\ e.action \notin Mutation /\ secrets'[s] = secrets[s]
      BY <2>2, <2>8 DEF Revealed, RevealCall, Reading, Mutation
    <3> QED
      BY <1>0, <2>0, <2>1, <2>2, <3>1, UntouchedExplained
  <2>9. CASE Failed(r) \/ Retried(r)
    BY <1>0, <2>9 DEF Failed, Retried, store
  <2> QED
    <3>1. Created(r) \/ Updated(r) \/ Changed(r) \/ Purged(r) => insert_audit(e)
      BY DEF Created, Updated, Changed, Purged, Wrote
    <3> QED
      BY <1>2, <2>3, <2>4, <2>5, <2>6, <2>7, <2>8, <2>9, <3>1, Outcomes
<1> QED
  BY <1>1, <1>2, OnlyTransactionsWrite

\* The audit log accounts for every row, also across crashes: existence,
\* revision, version and lifecycle state are what the events say.
THEOREM LogExplainsState == Spec => []AuditExplainsState
<1>1. Init => AuditExplainsState
  <2>1. ASSUME NEW s
        PROVE  EventsOf(<<>>, s, {"secret:create"}, 1) = {}
    <3>1. 1..Len(<<>>) = {}
      BY SMTT(60)
    <3> QED
      BY <3>1 DEF EventsOf
  <2>2. Init => audit_events = <<>> /\ \A s \in SecretId : secrets[s] = None
    BY SMTT(60) DEF Init
  <2> QED
    BY <2>1, <2>2 DEF AuditExplainsState
<1>2. Spec => [](TypeInv /\ AuditInv /\ AuditExplainsState)
  BY <1>1, InitTypeInv, NextTyped, InitAuditInv, NextAudit, NextExplained, PTL DEF Spec
<1> QED
  BY <1>2, PTL

-----------------------------------------------------------------------------
(* The vault core implements SecretStore: every transaction that commits   *)
(* is one operation of the atomic store, every other step is a stutter.    *)

\* The type of a secret of the store.
StoredRecord ==
    [name : Name, state : LifecycleState, revision : Nat \ {0}, values : Seq(Payload)]

LEMMA RecordIsNotNone == \A x \in StoredRecord : x # None
  BY NoneAssumption DEF StoredRecord, LifecycleState, Payload

\* A live row is stored as a record, an absent one as None.
LEMMA StoredTyped ==
  ASSUME TypeInv, NEW s \in SecretId
  PROVE  /\ secrets[s] = None => StoredSecret[s] = None
         /\ secrets[s] # None =>
              /\ StoredSecret[s] # None
              /\ StoredSecret[s].name = secrets[s].name
              /\ StoredSecret[s].state = secrets[s].lifecycle_state
              /\ StoredSecret[s].revision = secrets[s].revision
              /\ StoredSecret[s].values = versions[s]
<1>1. secrets[s] = None => StoredSecret[s] = None
  BY DEF StoredSecret, StoredRow
<1>2. ASSUME secrets[s] # None
      PROVE  /\ StoredSecret[s] # None
             /\ StoredSecret[s].name = secrets[s].name
             /\ StoredSecret[s].state = secrets[s].lifecycle_state
             /\ StoredSecret[s].revision = secrets[s].revision
             /\ StoredSecret[s].values = versions[s]
  <2>1. StoredSecret[s] = [name |-> secrets[s].name,
                           state |-> secrets[s].lifecycle_state,
                           revision |-> secrets[s].revision,
                           values |-> versions[s]]
    BY <1>2 DEF StoredSecret, StoredRow
  <2>2. secrets[s] \in SecretRow /\ versions[s] \in Seq(Payload)
    BY <1>2 DEF TypeInv, TypeOK
  <2>3. StoredSecret[s] \in StoredRecord
    BY <2>1, <2>2, SMTT(60) DEF StoredRecord, SecretRow
  <2> QED
    BY <2>1, <2>3, RecordIsNotNone, SMTT(60)
<1> QED
  BY <1>1, <1>2

\* The log of the store grows by the action and target of the event.
LEMMA StoredLogGrows ==
  ASSUME audit_events \in Seq(Event), NEW e \in Event, insert_audit(e)
  PROVE  /\ StoredLog' = Append(StoredLog, <<e.action, e.target_id>>)
         /\ StoredLog' # StoredLog
<1> DEFINE n == Len(audit_events)
           P == (Mutation \union Reading) \X SecretId
           pair == <<e.action, e.target_id>>
<1>1. /\ DOMAIN audit_events = 1..n /\ DOMAIN audit_events' = 1..(n + 1) /\ n \in Nat
      /\ audit_events'[n + 1] = e
      /\ \A i \in 1..n : audit_events'[i] = audit_events[i]
      /\ \A i \in 1..n : audit_events[i] \in Event
  BY SMTT(60) DEF insert_audit
<1>2. StoredLog \in Seq(P) /\ Len(StoredLog) = n /\ pair \in P
  BY <1>1, SMTT(60) DEF StoredLog, Event
<1>3. StoredLog' = [i \in DOMAIN StoredLog \union {n + 1} |->
                      IF i = n + 1 THEN pair ELSE StoredLog[i]]
  BY <1>1, SMTT(60) DEF StoredLog
<1>4. StoredLog' = Append(StoredLog, pair)
  BY <1>1, <1>2, <1>3, NextRowAppends, SMTT(60)
<1>5. DOMAIN StoredLog = 1..n /\ DOMAIN StoredLog' = 1..(n + 1)
  BY <1>1 DEF StoredLog
<1>6. n + 1 \in DOMAIN StoredLog' /\ n + 1 \notin DOMAIN StoredLog
  BY <1>1, <1>5, SMTT(60)
<1>7. StoredLog' # StoredLog
  BY <1>6
<1> QED
  BY <1>4, <1>7

\* A transaction that writes one row changes one secret of the store.
LEMMA StoredWrite ==
  ASSUME TypeInv, NEW r \in Request, Transaction(r), NEW row, NEW payloads,
         Wrote(r, row, payloads)
  PROVE  StoredSecret' = [StoredSecret EXCEPT ![call[r].secret_id] = StoredRow(row, payloads)]
<1>1. call[r].secret_id \in SecretId
  BY CommitTarget
<1>2. /\ secrets' = [secrets EXCEPT ![call[r].secret_id] = row]
      /\ versions' = [versions EXCEPT ![call[r].secret_id] = payloads]
      /\ DOMAIN secrets = SecretId /\ DOMAIN versions = SecretId
  BY DEF Wrote, TypeInv, TypeOK
<1> QED
  BY <1>1, <1>2 DEF StoredSecret

-----------------------------------------------------------------------------
LEMMA CreatedRefines ==
  ASSUME TypeInv, NEW r \in Request, Transaction(r), Created(r),
         StoredLog' = Append(StoredLog, <<call[r].action, call[r].secret_id>>)
  PROVE  Promise!Happens
<1> DEFINE u == call[r].secret_id
           row == [name |-> call[r].name, lifecycle_state |-> "active",
                   current_version |-> 1, revision |-> 1]
<1>1. /\ u \in SecretId /\ call[r].name \in Name /\ call[r].payload \in Payload
      /\ call[r].action = "secret:create" /\ secrets[u] = None
  BY CommitTarget DEF Created, CreateCall
<1>2. row \in SecretRow /\ row # None
  BY <1>1, RowIsNotNone, SMTT(60) DEF SecretRow, LifecycleState
<1>3. StoredRow(row, <<call[r].payload>>) =
        [name |-> call[r].name, state |-> "active", revision |-> 1,
         values |-> <<call[r].payload>>]
  BY <1>2 DEF StoredRow
<1>4. StoredSecret' = [StoredSecret EXCEPT ![u] =
        [name |-> call[r].name, state |-> "active", revision |-> 1,
         values |-> <<call[r].payload>>]]
  BY <1>3, StoredWrite, SMTT(60) DEF Created
<1>5. ~Promise!Live(u)
  BY <1>1, StoredTyped DEF Promise!Live
<1>6. ASSUME NEW t \in SecretId, Promise!Live(t)
      PROVE  StoredSecret[t].name # call[r].name
  <2>1. secrets[t] # None
    BY <1>6, StoredTyped DEF Promise!Live
  <2>2. StoredSecret[t].name = secrets[t].name
    BY <2>1, StoredTyped
  <2> QED
    BY <2>1, <2>2 DEF Created, name_free
<1>7. Promise!Create(u, call[r].name, call[r].payload)
  BY <1>1, <1>4, <1>5, <1>6 DEF Promise!Create, Promise!Record, Created
<1> QED
  BY <1>1, <1>7 DEF Promise!Happens

LEMMA UpdatedRefines ==
  ASSUME TypeInv, NEW r \in Request, Transaction(r), Updated(r),
         StoredLog' = Append(StoredLog, <<call[r].action, call[r].secret_id>>)
  PROVE  Promise!Happens
<1> DEFINE u == call[r].secret_id
           ver == call[r].version
           rev == call[r].revision
           old == StoredSecret[u]
           row == [name |-> secrets[u].name, lifecycle_state |-> "active",
                   current_version |-> ver + 1, revision |-> rev + 1]
           vs == Append(versions[u], call[r].payload)
<1>1. /\ u \in SecretId /\ ver \in Counter /\ rev \in Counter /\ call[r].payload \in Payload
      /\ call[r].action = "secret:update"
      /\ secrets[u] \in SecretRow /\ secrets[u].lifecycle_state = "active"
      /\ secrets[u].revision = rev
  BY CommitTarget DEF Updated, UpdateCall
<1>2. ver \in Nat /\ rev + 1 \in Nat \ {0} /\ versions[u] \in Seq(Payload) /\ vs \in Seq(Payload)
  BY <1>1, BoundAssumption, SMTT(60) DEF Counter, TypeInv, TypeOK
<1>3. row \in SecretRow /\ row # None
  <2> DEFINE name == secrets[u].name
             n == ver + 1
             m == rev + 1
  <2>1. name \in Name /\ n \in Nat \ {0} /\ m \in Nat \ {0}
    BY <1>1, <1>2, SMTT(60) DEF SecretRow
  <2>2. row = [name |-> name, lifecycle_state |-> "active", current_version |-> n, revision |-> m]
    OBVIOUS
  <2> HIDE DEF name, n, m, row
  <2>3. row \in SecretRow
    BY <2>1, <2>2 DEF SecretRow, LifecycleState
  <2> QED
    BY <2>3, RowIsNotNone
<1>4. /\ old # None /\ old.state = "active" /\ old.revision = rev
      /\ old.name = secrets[u].name /\ old.values = versions[u]
  BY <1>1, StoredTyped, RowIsNotNone
<1>5. StoredRow(row, vs) = [name |-> secrets[u].name, state |-> "active",
                             revision |-> rev + 1, values |-> vs]
  BY <1>3 DEF StoredRow
<1>6. StoredSecret' = [StoredSecret EXCEPT ![u] = StoredRow(row, vs)]
  BY StoredWrite, SMTT(60) DEF Updated
<1>7. Len(old.values) = ver
  BY <1>4, UpdatedLength
<1>8. StoredSecret' = [StoredSecret EXCEPT ![u] =
        [name |-> old.name, state |-> "active", revision |-> rev + 1,
         values |-> Append(old.values, call[r].payload)]]
  BY <1>4, <1>5, <1>6
<1>9. Promise!Update(u, ver, rev, call[r].payload)
  BY <1>1, <1>4, <1>7, <1>8 DEF Promise!Update, Promise!Record, Promise!Live, Updated
<1> QED
  BY <1>1, <1>9 DEF Promise!Happens

LEMMA ChangedRefines ==
  ASSUME TypeInv, NEW r \in Request, Transaction(r), Changed(r),
         StoredLog' = Append(StoredLog, <<call[r].action, call[r].secret_id>>)
  PROVE  Promise!Happens
<1> DEFINE u == call[r].secret_id
           rev == call[r].revision
           t == call[r].transition
           old == StoredSecret[u]
           row == [name |-> secrets[u].name, lifecycle_state |-> t.to_state,
                   current_version |-> secrets[u].current_version, revision |-> rev + 1]
<1>1. /\ u \in SecretId /\ rev \in Counter /\ t \in Transition
      /\ call[r].action = t.action
      /\ secrets[u] \in SecretRow /\ secrets[u].lifecycle_state = t.from_state
      /\ secrets[u].revision = rev
  BY CommitTarget DEF Changed, LifecycleCall
<1>2. rev + 1 \in Nat \ {0} /\ t.to_state \in LifecycleState
  BY <1>1, BoundAssumption, SMTT(60) DEF Counter, Transition, LifecycleState
<1>3. row \in SecretRow /\ row # None
  <2> DEFINE name == secrets[u].name
             to == t.to_state
             n == secrets[u].current_version
             m == rev + 1
  <2>1. name \in Name /\ n \in Nat \ {0} /\ m \in Nat \ {0} /\ to \in LifecycleState
    BY <1>1, <1>2 DEF SecretRow
  <2>2. row = [name |-> name, lifecycle_state |-> to, current_version |-> n, revision |-> m]
    OBVIOUS
  <2> HIDE DEF name, to, n, m, row
  <2>3. row \in SecretRow
    BY <2>1, <2>2 DEF SecretRow
  <2> QED
    BY <2>3, RowIsNotNone
<1>4. /\ old # None /\ old.state = t.from_state /\ old.revision = rev
      /\ old.name = secrets[u].name /\ old.values = versions[u]
  BY <1>1, StoredTyped, RowIsNotNone
<1>5. StoredRow(row, versions[u]) = [name |-> secrets[u].name, state |-> t.to_state,
                                      revision |-> rev + 1, values |-> versions[u]]
  BY <1>3 DEF StoredRow
<1>6. StoredSecret' = [StoredSecret EXCEPT ![u] = StoredRow(row, versions[u])]
  BY StoredWrite, SMTT(60) DEF Changed
<1>7. Promise!Move(u, rev, t.action, t.from_state, t.to_state)
  BY <1>1, <1>4, <1>5, <1>6 DEF Promise!Move, Promise!Record, Promise!Live, Changed
<1>8. \/ Promise!Move(u, rev, "secret:archive", "active", "archived")
      \/ Promise!Move(u, rev, "secret:restore", "archived", "active")
      \/ Promise!Move(u, rev, "secret:delete", "active", "deleted")
  BY <1>1, <1>7, SMTT(60) DEF Transition
<1> QED
  BY <1>1, <1>8 DEF Promise!Happens

LEMMA PurgedRefines ==
  ASSUME TypeInv, NEW r \in Request, Transaction(r), Purged(r),
         StoredLog' = Append(StoredLog, <<call[r].action, call[r].secret_id>>)
  PROVE  Promise!Happens
<1> DEFINE u == call[r].secret_id
<1>1. /\ u \in SecretId /\ call[r].revision \in Counter /\ call[r].action = "secret:purge"
      /\ secrets[u] \in SecretRow
  BY CommitTarget DEF Purged, PurgeCall
<1>2. /\ StoredSecret[u] # None
      /\ StoredSecret[u].state = "deleted" /\ StoredSecret[u].revision = call[r].revision
  <2>1. secrets[u] # None
    BY <1>1, RowIsNotNone
  <2>2. /\ StoredSecret[u] # None
        /\ StoredSecret[u].state = secrets[u].lifecycle_state
        /\ StoredSecret[u].revision = secrets[u].revision
    BY <1>1, <2>1, StoredTyped
  <2> QED
    BY <2>2 DEF Purged
<1>3. StoredSecret' = [StoredSecret EXCEPT ![u] = None]
  BY StoredWrite DEF Purged, StoredRow
<1>4. Promise!Purge(u, call[r].revision)
  BY <1>1, <1>2, <1>3 DEF Promise!Purge, Promise!Record, Promise!Live, Purged
<1> QED
  BY <1>1, <1>4 DEF Promise!Happens

LEMMA NextRefines ==
  TypeInv /\ AuditInv /\ [Next]_vars
    => [Promise!Next]_<<StoredSecret, tombstones, StoredLog>>
<1> SUFFICES ASSUME TypeInv, AuditInv, [Next]_vars
             PROVE  Promise!Next \/ UNCHANGED <<StoredSecret, tombstones, StoredLog>>
  OBVIOUS
<1>1. CASE UNCHANGED <<store, acked>>
  BY <1>1 DEF store, StoredSecret, StoredLog
<1>2. ASSUME NEW r \in Request, Transaction(r)
      PROVE  Promise!Next \/ UNCHANGED <<StoredSecret, tombstones, StoredLog>>
  <2>1. /\ audit_events \in Seq(Event)
        /\ pending[r] \in Event /\ pending[r].action = call[r].action
        /\ pending[r].target_id = call[r].secret_id
    BY <1>2, Outcomes DEF TypeInv, TypeOK, AuditInv, PendingDescribesCall
  <2>2. insert_audit(pending[r])
          => /\ StoredLog' = Append(StoredLog, <<call[r].action, call[r].secret_id>>)
             /\ StoredLog' # StoredLog
    BY <2>1, StoredLogGrows
  <2>3. CASE Created(r)
    BY <1>2, <2>2, <2>3, CreatedRefines DEF Created, Wrote, Promise!Next
  <2>4. CASE Updated(r)
    BY <1>2, <2>2, <2>4, UpdatedRefines DEF Updated, Wrote, Promise!Next
  <2>5. CASE Changed(r)
    BY <1>2, <2>2, <2>5, ChangedRefines DEF Changed, Wrote, Promise!Next
  <2>6. CASE Purged(r)
    BY <1>2, <2>2, <2>6, PurgedRefines DEF Purged, Wrote, Promise!Next
  <2>7. CASE Revealed(r)
    <3>1. call[r].secret_id \in SecretId /\ call[r].action \in {"secret:value-read", "secret:version-read"}
      BY <2>7 DEF Revealed, RevealCall, Reading
    <3>2. UNCHANGED <<StoredSecret, tombstones>>
      BY <2>7 DEF Revealed, StoredSecret
    <3>3. Promise!Reveal(call[r].secret_id)
      BY <2>2, <2>7, <3>1, <3>2 DEF Revealed, Promise!Reveal, Promise!Record
    <3> QED
      BY <2>2, <2>7, <3>1, <3>3 DEF Revealed, Promise!Next, Promise!Happens
  <2>8. CASE Failed(r) \/ Retried(r)
    BY <2>8 DEF Failed, Retried, store, StoredSecret, StoredLog
  <2> QED
    BY <1>2, <2>3, <2>4, <2>5, <2>6, <2>7, <2>8, Outcomes
<1> QED
  BY <1>1, <1>2, OnlyTransactionsWrite

\* The vault core, with its threads, gate, transactions, retries and crashes,
\* implements the atomic store of SecretStore.
THEOREM VaultImplementsStore == Spec => ImplementsStore
<1>1. Init => Promise!Init
  BY SMTT(60) DEF Init, Promise!Init, StoredSecret, StoredRow, StoredLog
<1> QED
  BY <1>1, TypeAndAudit, NextRefines, PTL DEF Spec, ImplementsStore, Promise!Spec
=============================================================================
