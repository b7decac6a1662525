---------------------------- MODULE AccessGate ----------------------------
(***************************************************************************)
(* Who may act, and until when: browser sessions and logins                *)
(* (crates/smcv-app/src/authentication.rs), application credentials        *)
(* (service_identity.rs), the policy graph (authorization.rs), and the     *)
(* authorization_gate that every protected request passes                  *)
(* (authorized_vault.rs), over crates/smcv-storage/src/identity.rs and     *)
(* authorization.rs.                                                       *)
(*                                                                         *)
(* A request takes the time once, authenticates without any lock, then     *)
(* takes the gate, checks again that its session or credential is alive,   *)
(* asks for a decision, acts, and releases the gate.  Protected operations *)
(* share the gate; logout, revocation and every change of the policy graph *)
(* hold it alone.  A step is one storage call or one lock operation.       *)
(*                                                                         *)
(* There is one owner with one password, one service principal, and one    *)
(* resource, so a policy is granted and bound or not.  Tokens, CSRF        *)
(* values and keyed commitments are the rows they authenticate, and the    *)
(* audit log is that of module VaultCore.                                  *)
(***************************************************************************)
EXTENDS Integers, FiniteSets

CONSTANTS
    Thread,
    SessionId,
    CredentialId,
    PolicyId,
    None,
    Operation,          \* what the owner asks for
    Expiry,             \* expiry times given to credentials
    SESSION_IDLE_MS,
    SESSION_ABSOLUTE_MS,
    RECENT_AUTH_MS,
    MAX_ACTIVE_SESSIONS_PER_PRINCIPAL,
    MaxRevision,        \* the revision at which checked_add overflows
    MaxClock            \* bound: the clock stops here

ASSUME AccessAssumption ==
    /\ None \notin Thread /\ SessionId \intersect CredentialId = {}
    /\ {SESSION_IDLE_MS, SESSION_ABSOLUTE_MS, MaxRevision} \subseteq Nat \ {0}
    /\ {RECENT_AUTH_MS, MAX_ACTIVE_SESSIONS_PER_PRINCIPAL, MaxClock} \subseteq Nat
    /\ SESSION_IDLE_MS <= SESSION_ABSOLUTE_MS
    /\ Expiry \subseteq Nat
    /\ Operation \subseteq {"read", "reveal", "logout", "issue", "revoke", "create_policy",
                            "archive_policy", "grant", "bind"}

VARIABLES
    clock,
    sessions,           \* smcv_sessions: session_id -> row or None
    credentials,        \* smcv_application_credentials: credential_id -> row or None
    policies,           \* smcv_policies, smcv_grants, smcv_policy_bindings
    authenticator,      \* last_used_at of the owner's password, in its commitment
    readers,            \* authorization_gate: threads that share it
    writer,             \* authorization_gate: the thread that holds it alone
    call,               \* what each thread is doing
    ended               \* history: sessions and credentials reported as revoked

stored == <<sessions, credentials, policies, authenticator>>
gate == <<readers, writer>>
vars == <<clock, stored, gate, call, ended>>

-----------------------------------------------------------------------------
Time == 0..MaxClock

Session ==
    [created : Time, last_used : Time, idle_expires : Nat, absolute_expires : Nat,
     recent_auth : Time, revoked : BOOLEAN]

Credential ==
    [created : Time, expires : Expiry, last_used : Time,
     revision : 1..MaxRevision, revoked : BOOLEAN]

ASSUME NoneAssumption == None \notin Session \union Credential

\* Operations that hold the gate alone, and those that share it.
Exclusive == {"logout", "revoke", "create_policy", "archive_policy", "grant", "bind"}
Shared == {"read", "reveal", "issue", "get"}

\* action_requires_recent, over the operations above.
action_requires_recent == {"reveal", "issue", "revoke", "create_policy",
                           "archive_policy", "grant", "bind"}

Idle == [pc |-> "idle"]

\* A request that presented a session or a credential: AuthenticatedOwner or
\* AuthenticatedService, and the last_used or revision a later step compares.
Context(step, who, now, request, recent_until, seen) ==
    [pc |-> step, who |-> who, now |-> now, request |-> request,
     recent_until |-> recent_until, seen |-> seen]

Goto(t, c) == call' = [call EXCEPT ![t] = c]
At(t, step) == Goto(t, [call[t] EXCEPT !.pc = step])

\* The request is over and its guard of the gate is dropped.
Return(t) ==
    /\ Goto(t, Idle)
    /\ readers' = readers \ {t}
    /\ writer' = IF writer = t THEN None ELSE writer

\* An error ends the request the same way.
Refuse(t) == Return(t)

Least(a, b) == IF a < b THEN a ELSE b

-----------------------------------------------------------------------------
\* login_with_password reads the authenticator ...
login_with_password(t) ==
    /\ call[t].pc = "idle"
    /\ authenticator <= clock
    /\ Goto(t, [pc |-> "create", now |-> clock, seen |-> authenticator])
    /\ UNCHANGED <<clock, stored, gate, ended>>

\* Sessions that create_session deletes first.
Swept(now) ==
    {s \in SessionId : sessions[s] # None
                       /\ (sessions[s].revoked \/ sessions[s].absolute_expires < now)}

under_limit(live) == Cardinality(live) < MAX_ACTIVE_SESSIONS_PER_PRINCIPAL

\* SessionId::random(): an identity that nothing refers to.
Random ==
    {s \in SessionId : sessions[s] = None} \
        (ended \union {call[t].who : t \in {u \in Thread : call[u].pc \notin {"idle", "create"}}})

\* ... and create_session sweeps, counts, inserts and moves the authenticator
\* on, or leaves everything as it was.
create_session(t) ==
    LET now == call[t].now
        kept == {s \in SessionId : sessions[s] # None} \ Swept(now)
    IN  /\ call[t].pc = "create"
        /\ IF under_limit(kept) /\ authenticator = call[t].seen /\ Random # {}
           THEN /\ \E s \in Random :
                     sessions' = [x \in SessionId |->
                        IF x = s
                        THEN [created |-> now, last_used |-> now,
                              idle_expires |-> now + SESSION_IDLE_MS,
                              absolute_expires |-> now + SESSION_ABSOLUTE_MS,
                              recent_auth |-> now, revoked |-> FALSE]
                        ELSE IF x \in kept THEN sessions[x] ELSE None]
                /\ authenticator' = now
           ELSE UNCHANGED <<sessions, authenticator>>
        /\ Return(t)
        /\ UNCHANGED <<clock, credentials, policies, ended>>

-----------------------------------------------------------------------------
\* Whether a session row is alive at a request's time.
session_alive(row, now) ==
    /\ row # None
    /\ ~row.revoked
    /\ row.created <= now /\ row.last_used <= now
    /\ now <= row.idle_expires /\ now <= row.absolute_expires

credential_alive(row, now) ==
    /\ row # None
    /\ ~row.revoked
    /\ row.created <= now /\ row.last_used <= now /\ now <= row.expires

\* The requests of the owner, with what each names.
OwnerRequest ==
    [op : Operation \intersect {"read", "reveal", "logout"}]
    \union [op : Operation \intersect {"issue"}, expires : Expiry]
    \union [op : Operation \intersect {"revoke"}, credential : CredentialId,
            revision : 1..MaxRevision]
    \union [op : Operation \intersect {"create_policy", "archive_policy", "grant", "bind"},
            policy : PolicyId]

\* authenticate_browser_session loads and checks the session ...
authenticate_browser_session(t, s, r) ==
    /\ call[t].pc = "idle"
    /\ session_alive(sessions[s], clock)
    /\ Goto(t, Context("touch", s, clock, r, sessions[s].recent_auth + RECENT_AUTH_MS,
                       sessions[s].last_used))
    /\ UNCHANGED <<clock, stored, gate, ended>>

\* (mutated: the row is written back whatever happened to it meanwhile)
touch_blindly(s, seen, now) == sessions[s] # None

\* The condition of touch_session's UPDATE.
touchable(s, seen, now) ==
    /\ sessions[s] # None
    /\ sessions[s].last_used = seen
    /\ ~sessions[s].revoked
    /\ now <= sessions[s].idle_expires /\ now <= sessions[s].absolute_expires

\* ... and touch_session moves it on, if it is as it was.
touch_session(t) ==
    LET c == call[t]
        idle == Least(c.now + SESSION_IDLE_MS, sessions[c.who].absolute_expires)
    IN  /\ c.pc = "touch"
        /\ IF touchable(c.who, c.seen, c.now)
           THEN /\ sessions' = [sessions EXCEPT ![c.who] =
                      [@ EXCEPT !.last_used = c.now, !.idle_expires = idle]]
                /\ At(t, "gate")
                /\ UNCHANGED gate
           ELSE Refuse(t) /\ UNCHANGED sessions
        /\ UNCHANGED <<clock, credentials, policies, authenticator, ended>>

\* authenticate_application_credential loads and checks the credential ...
authenticate_application_credential(t, k) ==
    /\ call[t].pc = "idle"
    /\ credential_alive(credentials[k], clock)
    /\ credentials[k].revision < MaxRevision
    /\ Goto(t, Context("use", k, clock, [op |-> "get"], 0, credentials[k].revision))
    /\ UNCHANGED <<clock, stored, gate, ended>>

\* ... and mark_application_credential_used advances its revision.
mark_application_credential_used(t) ==
    LET c == call[t] IN
    /\ c.pc = "use"
    /\ IF /\ credentials[c.who] # None
          /\ credentials[c.who].revision = c.seen /\ ~credentials[c.who].revoked
          /\ c.now <= credentials[c.who].expires
       THEN /\ credentials' = [credentials EXCEPT ![c.who] =
                  [@ EXCEPT !.last_used = c.now, !.revision = c.seen + 1]]
            /\ At(t, "gate")
            /\ UNCHANGED gate
       ELSE Refuse(t) /\ UNCHANGED credentials
    /\ UNCHANGED <<clock, sessions, policies, authenticator, ended>>

-----------------------------------------------------------------------------
\* (mutated: a revocation shares the gate)
ExclusiveButRevocation == Exclusive \ {"logout", "revoke"}

\* (mutated: archiving a policy shares the gate)
ExclusiveButArchive == Exclusive \ {"archive_policy"}

\* The operations that call authorization_gate.write().
Writes == Exclusive

\* authorization_gate.read() or .write().
lock_gate(t) ==
    /\ call[t].pc = "gate"
    /\ writer = None
    /\ IF call[t].request.op \in Writes
       THEN readers = {} /\ writer' = t /\ UNCHANGED readers
       ELSE readers' = readers \union {t} /\ UNCHANGED writer
    /\ At(t, "verify")
    /\ UNCHANGED <<clock, stored, ended>>

\* verify_owner_context_active and verify_service_context_active; a logout
\* reads its session and asks only that it is not yet revoked.
context_active(t) ==
    LET c == call[t] IN
    IF c.who \in CredentialId
    THEN credential_alive(credentials[c.who], c.now)
    ELSE IF c.request.op = "logout"
    THEN sessions[c.who] # None /\ ~sessions[c.who].revoked
    ELSE session_alive(sessions[c.who], c.now)

verify_context(t) ==
    LET c == call[t] IN
    /\ c.pc = "verify"
    /\ IF context_active(t)
       THEN /\ IF c.request.op = "logout"
               THEN Goto(t, Context("act", c.who, c.now, c.request, c.recent_until,
                                    sessions[c.who].last_used))
               ELSE At(t, "authorize")
            /\ UNCHANGED gate
       ELSE Refuse(t)
    /\ UNCHANGED <<clock, stored, ended>>

\* service_is_allowed: some active policy bound to the service grants it.
service_is_allowed ==
    \E p \in PolicyId : policies[p].state = "active" /\ policies[p].granted /\ policies[p].bound

\* authorize: recent authentication for a risky action of the owner, a grant
\* for the service.
authorize(t) ==
    LET c == call[t] IN
    /\ c.pc = "authorize"
    /\ IF IF c.who \in CredentialId
          THEN service_is_allowed
          ELSE c.request.op \in action_requires_recent => c.now <= c.recent_until
       THEN At(t, "act") /\ UNCHANGED gate
       ELSE Refuse(t)
    /\ UNCHANGED <<clock, stored, ended>>

-----------------------------------------------------------------------------
\* A protected operation that changes nothing here: a read, a reveal, or what
\* a service does under a grant.
use_access(t) ==
    /\ call[t].pc = "act" /\ call[t].request.op \in {"read", "reveal", "get"}
    /\ Return(t)
    /\ UNCHANGED <<clock, stored, ended>>

\* issue_application_credential, unless it would be born expired.
issue_application_credential(t) ==
    LET c == call[t]
        random == {k \in CredentialId : credentials[k] = None}
    IN  /\ c.pc = "act" /\ c.request.op = "issue"
        /\ IF c.request.expires > c.now /\ random # {}
           THEN \E k \in random :
                  credentials' = [credentials EXCEPT ![k] =
                      [created |-> c.now, expires |-> c.request.expires, last_used |-> c.now,
                       revision |-> 1, revoked |-> FALSE]]
           ELSE UNCHANGED credentials
        /\ Return(t)
        /\ UNCHANGED <<clock, sessions, policies, authenticator, ended>>

\* revoke_application_credential at the revision the owner was shown.
revoke_application_credential(t) ==
    LET c == call[t]
        k == c.request.credential
    IN  /\ c.pc = "act" /\ c.request.op = "revoke"
        /\ IF /\ credentials[k] # None
              /\ ~credentials[k].revoked
              /\ credentials[k].revision = c.request.revision
              /\ c.request.revision < MaxRevision
           THEN /\ credentials' = [credentials EXCEPT ![k] =
                      [@ EXCEPT !.revoked = TRUE, !.revision = c.request.revision + 1]]
                /\ ended' = ended \union {k}
           ELSE UNCHANGED <<credentials, ended>>
        /\ Return(t)
        /\ UNCHANGED <<clock, sessions, policies, authenticator>>

\* logout_browser_session: revoke_session, if nobody touched the session.
logout_browser_session(t) ==
    LET c == call[t] IN
    /\ c.pc = "act" /\ c.request.op = "logout"
    /\ IF /\ sessions[c.who] # None
          /\ ~sessions[c.who].revoked
          /\ sessions[c.who].last_used = c.seen
       THEN /\ sessions' = [sessions EXCEPT ![c.who] = [@ EXCEPT !.revoked = TRUE]]
            /\ ended' = ended \union {c.who}
       ELSE UNCHANGED <<sessions, ended>>
    /\ Return(t)
    /\ UNCHANGED <<clock, credentials, policies, authenticator>>

\* An edit of the policy graph, refused unless the policy is in state from.
\* The graph revision it compares cannot move: its writers hold the gate.
edit_policy(t, from, row) ==
    LET p == call[t].request.policy IN
    /\ policies' = IF policies[p].state = from THEN [policies EXCEPT ![p] = row] ELSE policies
    /\ Return(t)
    /\ UNCHANGED <<clock, sessions, credentials, authenticator, ended>>

create_policy(t) ==
    /\ call[t].pc = "act" /\ call[t].request.op = "create_policy"
    /\ edit_policy(t, "absent", [state |-> "active", granted |-> FALSE, bound |-> FALSE])

add_policy_grant(t) ==
    /\ call[t].pc = "act" /\ call[t].request.op = "grant"
    /\ edit_policy(t, "active", [state |-> "active", granted |-> TRUE,
                                 bound |-> policies[call[t].request.policy].bound])

bind_policy_to_service(t) ==
    /\ call[t].pc = "act" /\ call[t].request.op = "bind"
    /\ edit_policy(t, "active", [state |-> "active", bound |-> TRUE,
                                 granted |-> policies[call[t].request.policy].granted])

\* Grants and bindings stay in their tables, under a policy that is archived.
archive_policy(t) ==
    /\ call[t].pc = "act" /\ call[t].request.op = "archive_policy"
    /\ edit_policy(t, "active", [policies[call[t].request.policy] EXCEPT !.state = "archived"])

change_policy(t) ==
    create_policy(t) \/ add_policy_grant(t) \/ bind_policy_to_service(t) \/ archive_policy(t)

Tick ==
    /\ clock < MaxClock
    /\ clock' = clock + 1
    /\ UNCHANGED <<stored, gate, call, ended>>

-----------------------------------------------------------------------------
\* The owner is enrolled and has not logged in yet.
Init ==
    /\ clock = 0
    /\ sessions = [s \in SessionId |-> None]
    /\ credentials = [k \in CredentialId |-> None]
    /\ policies = [p \in PolicyId |-> [state |-> "absent", granted |-> FALSE, bound |-> FALSE]]
    /\ authenticator = 0
    /\ readers = {}
    /\ writer = None
    /\ call = [t \in Thread |-> Idle]
    /\ ended = {}

\* What a thread that is busy does next.
Step(t) ==
    \/ create_session(t) \/ touch_session(t) \/ mark_application_credential_used(t)
    \/ verify_context(t) \/ authorize(t)
    \/ use_access(t) \/ issue_application_credential(t) \/ revoke_application_credential(t)
    \/ logout_browser_session(t) \/ change_policy(t)

Arrive(t) ==
    \/ login_with_password(t)
    \/ \E s \in SessionId, r \in OwnerRequest : authenticate_browser_session(t, s, r)
    \/ \E k \in CredentialId : authenticate_application_credential(t, k)

Next ==
    \/ \E t \in Thread : Arrive(t) \/ lock_gate(t) \/ Step(t)
    \/ Tick

Spec == Init /\ [][Next]_vars

-----------------------------------------------------------------------------
RequestContext ==
    [pc : {"touch"}, who : SessionId, now : Time, request : OwnerRequest,
     recent_until : Nat, seen : Time]
    \union [pc : {"use"}, who : CredentialId, now : Time, request : {[op |-> "get"]},
            recent_until : {0}, seen : 1..(MaxRevision - 1)]
    \union [pc : {"gate", "verify", "authorize", "act"}, who : SessionId, now : Time,
            request : OwnerRequest, recent_until : Nat, seen : Time]
    \union [pc : {"gate", "verify", "authorize", "act"}, who : CredentialId, now : Time,
            request : {[op |-> "get"]}, recent_until : {0}, seen : 1..(MaxRevision - 1)]

Inside == {t \in Thread : call[t].pc \in {"authorize", "act"}}

TypeOK ==
    /\ clock \in Time
    /\ sessions \in [SessionId -> Session \union {None}]
    /\ credentials \in [CredentialId -> Credential \union {None}]
    /\ policies \in [PolicyId -> [state : {"absent", "active", "archived"},
                                  granted : BOOLEAN, bound : BOOLEAN]]
    /\ authenticator \in Time
    /\ readers \subseteq Thread /\ writer \in Thread \union {None}
    /\ call \in [Thread -> {Idle} \union [pc : {"create"}, now : Time, seen : Time]
                           \union RequestContext]
    /\ ended \subseteq SessionId \union CredentialId

\* Once a logout or a revocation was reported, nothing acts by that session or
\* credential, not even a request that had authenticated before.
NoUseAfterRevocation == \A t \in Inside : call[t].who \notin ended

\* A service acts only while an active policy that is bound to it grants the
\* action: an archived policy is of no use to a request already on its way.
GrantedWhenUsed ==
    \A t \in Inside : call[t].pc = "act" /\ call[t].who \in CredentialId => service_is_allowed

\* A session only moves forward: touching never takes back a later use, never
\* revives a revoked session and never moves the end of the session or the
\* time of the password check.
SessionsOnlyAdvance ==
    [][\A s \in SessionId : sessions[s] # None /\ sessions'[s] # None =>
          /\ sessions[s].last_used <= sessions'[s].last_used
          /\ sessions[s].idle_expires <= sessions'[s].idle_expires
          /\ sessions'[s].idle_expires <= sessions'[s].absolute_expires
          /\ sessions[s].revoked => sessions'[s].revoked
          /\ sessions'[s].absolute_expires = sessions[s].absolute_expires
          /\ sessions'[s].recent_auth = sessions[s].recent_auth]_vars

=============================================================================
