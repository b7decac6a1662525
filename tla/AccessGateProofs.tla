------------------------- MODULE AccessGateProofs -------------------------
(***************************************************************************)
(* Proofs about AccessGate, for any number of threads, sessions,           *)
(* credentials and policies, and any limits.                               *)
(***************************************************************************)
EXTENDS AccessGate, TLAPS

\* The time each prover may take for a step.
USE ZenonT(60), SMTT(60)

Holding == {"verify", "authorize", "act"}

-----------------------------------------------------------------------------
\* Types

LEMMA InitTypeOK == Init => TypeOK
  BY AccessAssumption, SMTT(60) DEF Init, TypeOK, Time

\* What a thread does is a well-formed record.
CallRecord == {Idle} \union [pc : {"create"}, now : Time, seen : Time] \union RequestContext

LEMMA GotoTyped ==
  ASSUME TypeOK, NEW t \in Thread, NEW c \in CallRecord, Goto(t, c)
  PROVE  /\ call' \in [Thread -> CallRecord]
         /\ call'[t] = c
         /\ \A u \in Thread \ {t} : call'[u] = call[u]
  BY DEF TypeOK, Goto, CallRecord

LEMMA ReturnTyped ==
  ASSUME TypeOK, NEW t \in Thread, Return(t)
  PROVE  /\ call' \in [Thread -> CallRecord]
         /\ readers' \subseteq Thread /\ writer' \in Thread \union {None}
         /\ call'[t] = Idle
         /\ \A u \in Thread \ {t} : call'[u] = call[u]
<1>1. Idle \in CallRecord /\ Goto(t, Idle)
  BY DEF Return, CallRecord
<1> QED
  BY <1>1, GotoTyped DEF TypeOK, Return

\* A request that has presented its session or credential.
LEMMA ContextFields ==
  ASSUME TypeOK, NEW t \in Thread, call[t].pc \notin {"idle", "create"}
  PROVE  /\ call[t] \in RequestContext
         /\ call[t].who \in SessionId \union CredentialId
         /\ call[t].now \in Time /\ call[t].seen \in Nat /\ call[t].recent_until \in Nat
         /\ call[t].who \in CredentialId => call[t].request = [op |-> "get"]
         /\ call[t].who \in SessionId => call[t].request \in OwnerRequest
<1>1. call[t] \in {Idle} \union [pc : {"create"}, now : Time, seen : Time] \union RequestContext
  BY DEF TypeOK
<1>2. call[t] \in RequestContext
  BY <1>1, SMTT(60) DEF Idle
<1>3. Time \subseteq Nat /\ 1..(MaxRevision - 1) \subseteq Nat
  BY AccessAssumption, SMTT(60) DEF Time
<1>4. SessionId \intersect CredentialId = {}
  BY AccessAssumption
<1> DEFINE c == call[t]
<1> HIDE DEF c
<1>5. \/ c \in [pc : {"touch", "gate", "verify", "authorize", "act"}, who : SessionId,
                now : Time, request : OwnerRequest, recent_until : Nat, seen : Time]
      \/ c \in [pc : {"use", "gate", "verify", "authorize", "act"}, who : CredentialId,
                now : Time, request : {[op |-> "get"]}, recent_until : {0},
                seen : 1..(MaxRevision - 1)]
  BY <1>2 DEF RequestContext, c
<1>6. /\ c.who \in SessionId \union CredentialId
      /\ c.now \in Time /\ c.seen \in Nat /\ c.recent_until \in Nat
      /\ c.who \in CredentialId => c.request = [op |-> "get"]
      /\ c.who \in SessionId => c.request \in OwnerRequest
  <2>1. CASE c \in [pc : {"touch", "gate", "verify", "authorize", "act"}, who : SessionId,
                    now : Time, request : OwnerRequest, recent_until : Nat, seen : Time]
    BY <2>1, <1>3, <1>4
  <2>2. CASE c \in [pc : {"use", "gate", "verify", "authorize", "act"}, who : CredentialId,
                    now : Time, request : {[op |-> "get"]}, recent_until : {0},
                    seen : 1..(MaxRevision - 1)]
    BY <2>2, <1>3, <1>4, SMTT(60)
  <2> QED
    BY <1>5, <2>1, <2>2
<1> QED
  BY <1>2, <1>6 DEF c

\* Moving on inside the request keeps the rest of the context.
LEMMA AtTyped ==
  ASSUME TypeOK, NEW t \in Thread, NEW step \in {"gate"} \union Holding,
         call[t].pc \notin {"idle", "create"}, At(t, step)
  PROVE  /\ call' \in [Thread -> CallRecord]
         /\ call'[t].pc = step /\ call'[t].who = call[t].who
         /\ call'[t].request = call[t].request
         /\ call'[t].now = call[t].now
         /\ \A u \in Thread \ {t} : call'[u] = call[u]
<1> DEFINE c == [call[t] EXCEPT !.pc = step]
<1>1. call[t] \in RequestContext
  BY ContextFields
<1>2. /\ c \in RequestContext
      /\ c.pc = step /\ c.who = call[t].who /\ c.request = call[t].request
      /\ c.now = call[t].now
  BY <1>1 DEF RequestContext, Holding
<1>3. c \in CallRecord
  BY <1>2 DEF CallRecord
<1>4. Goto(t, c)
  BY DEF At
<1> HIDE DEF c
<1> QED
  BY <1>2, <1>3, <1>4, GotoTyped

\* Before the gate a request is a session's or a credential's by its step.
LEMMA KindOfContext ==
  ASSUME TypeOK, NEW t \in Thread
  PROVE  /\ call[t].pc = "touch" => call[t].who \in SessionId
         /\ call[t].pc = "use" => call[t].who \in CredentialId /\ call[t].seen \in 1..(MaxRevision - 1)
         /\ call[t].pc = "create" => call[t].now \in Time /\ call[t].seen \in Time
<1>1. call[t] \in {Idle} \union [pc : {"create"}, now : Time, seen : Time] \union RequestContext
  BY DEF TypeOK
<1>2. ASSUME call[t].pc = "touch" PROVE call[t].who \in SessionId
  BY <1>1, <1>2, SMTT(60) DEF Idle, RequestContext
<1>3. ASSUME call[t].pc = "use"
      PROVE  call[t].who \in CredentialId /\ call[t].seen \in 1..(MaxRevision - 1)
  BY <1>1, <1>3, SMTT(60) DEF Idle, RequestContext
<1>4. ASSUME call[t].pc = "create" PROVE call[t].now \in Time /\ call[t].seen \in Time
  <2>1. call[t] \notin RequestContext
    BY <1>4 DEF RequestContext
  <2> QED
    BY <1>1, <1>4, <2>1, SMTT(60) DEF Idle
<1> QED
  BY <1>2, <1>3, <1>4

\* What the owner asks for names what its operation needs.
LEMMA RequestFields ==
  ASSUME NEW r \in OwnerRequest
  PROVE  /\ r.op \in {"read", "reveal", "logout", "issue", "revoke", "create_policy",
                      "archive_policy", "grant", "bind"}
         /\ r.op = "issue" => r.expires \in Expiry
         /\ r.op = "revoke" => r.credential \in CredentialId /\ r.revision \in 1..MaxRevision
         /\ r.op \in {"create_policy", "archive_policy", "grant", "bind"} => r.policy \in PolicyId
<1>1. CASE r \in [op : Operation \intersect {"read", "reveal", "logout"}]
  BY <1>1
<1>2. CASE r \in [op : Operation \intersect {"issue"}, expires : Expiry]
  BY <1>2
<1>3. CASE r \in [op : Operation \intersect {"revoke"}, credential : CredentialId,
                  revision : 1..MaxRevision]
  BY <1>3
<1>4. CASE r \in [op : Operation \intersect {"create_policy", "archive_policy", "grant", "bind"},
                  policy : PolicyId]
  BY <1>4
<1> QED
  BY <1>1, <1>2, <1>3, <1>4 DEF OwnerRequest

LEMMA TouchTyped ==
  ASSUME TypeOK, NEW t \in Thread, touch_session(t)
  PROVE  TypeOK'
<1> DEFINE c == call[t]
           idle == Least(c.now + SESSION_IDLE_MS, sessions[c.who].absolute_expires)
<1>1. c.who \in SessionId /\ c.now \in Time /\ call[t].pc = "touch"
  BY KindOfContext, ContextFields DEF touch_session
<1>2. CASE touchable(c.who, c.seen, c.now)
  <2>1. sessions[c.who] \in Session
    BY <1>1, <1>2 DEF TypeOK, touchable
  <2>2. idle \in Nat
    BY <1>1, <2>1, AccessAssumption, SMTT(60) DEF Least, Session, Time
  <2>3. [sessions[c.who] EXCEPT !.last_used = c.now, !.idle_expires = idle] \in Session
    BY <1>1, <2>1, <2>2 DEF Session
  <2>4. sessions' \in [SessionId -> Session \union {None}]
    BY <1>1, <1>2, <2>3 DEF touch_session, TypeOK
  <2>5. call' \in [Thread -> CallRecord]
    BY <1>1, <1>2, AtTyped DEF touch_session
  <2> QED
    BY <1>2, <2>4, <2>5 DEF TypeOK, touch_session, gate, CallRecord
<1>3. CASE ~touchable(c.who, c.seen, c.now)
  BY <1>3, ReturnTyped DEF TypeOK, touch_session, Refuse, CallRecord
<1> QED
  BY <1>2, <1>3

LEMMA MarkUsedTyped ==
  ASSUME TypeOK, NEW t \in Thread, mark_application_credential_used(t)
  PROVE  TypeOK'
<1> DEFINE c == call[t]
           marked == /\ credentials[c.who] # None
                     /\ credentials[c.who].revision = c.seen /\ ~credentials[c.who].revoked
                     /\ c.now <= credentials[c.who].expires
<1>1. /\ c.who \in CredentialId /\ c.now \in Time /\ call[t].pc = "use"
      /\ c.seen \in 1..(MaxRevision - 1)
  BY KindOfContext, ContextFields DEF mark_application_credential_used
<1>2. CASE marked
  <2>1. credentials[c.who] \in Credential
    BY <1>1, <1>2 DEF TypeOK
  <2>2. c.seen + 1 \in 1..MaxRevision
    BY <1>1, AccessAssumption, SMTT(60)
  <2>3. [credentials[c.who] EXCEPT !.last_used = c.now, !.revision = c.seen + 1] \in Credential
    BY <1>1, <2>1, <2>2 DEF Credential
  <2>4. credentials' \in [CredentialId -> Credential \union {None}]
    BY <1>1, <1>2, <2>3 DEF mark_application_credential_used, TypeOK
  <2>5. call' \in [Thread -> CallRecord]
    BY <1>1, <1>2, AtTyped DEF mark_application_credential_used
  <2> QED
    BY <1>2, <2>4, <2>5 DEF TypeOK, mark_application_credential_used, gate, CallRecord
<1>3. CASE ~marked
  BY <1>3, ReturnTyped DEF TypeOK, mark_application_credential_used, Refuse, CallRecord
<1> QED
  BY <1>2, <1>3

LEMMA ArriveTyped ==
  ASSUME TypeOK, NEW t \in Thread, Arrive(t)
  PROVE  TypeOK'
<1>1. CASE login_with_password(t)
  <2>1. [pc |-> "create", now |-> clock, seen |-> authenticator] \in CallRecord
    BY DEF CallRecord, TypeOK
  <2>2. call' \in [Thread -> CallRecord]
    BY <1>1, <2>1, GotoTyped DEF login_with_password
  <2> QED
    BY <1>1, <2>2 DEF TypeOK, login_with_password, stored, gate, CallRecord
<1>2. ASSUME NEW s \in SessionId, NEW r \in OwnerRequest, authenticate_browser_session(t, s, r)
      PROVE  TypeOK'
  <2> DEFINE c == Context("touch", s, clock, r, sessions[s].recent_auth + RECENT_AUTH_MS,
                          sessions[s].last_used)
  <2>1. sessions[s] \in Session
    BY <1>2 DEF authenticate_browser_session, session_alive, TypeOK
  <2>2. /\ sessions[s].recent_auth + RECENT_AUTH_MS \in Nat
        /\ sessions[s].last_used \in Time
    BY <2>1, AccessAssumption, SMTT(60) DEF Session, Time
  <2>3. c \in RequestContext
    BY <2>2 DEF Context, RequestContext, TypeOK
  <2>4. c \in CallRecord /\ Goto(t, c)
    BY <1>2, <2>3 DEF CallRecord, authenticate_browser_session
  <2> HIDE DEF c
  <2>5. call' \in [Thread -> CallRecord]
    BY <2>4, GotoTyped
  <2> QED
    BY <1>2, <2>5 DEF TypeOK, authenticate_browser_session, stored, gate, CallRecord
<1>3. ASSUME NEW k \in CredentialId, authenticate_application_credential(t, k)
      PROVE  TypeOK'
  <2> DEFINE c == Context("use", k, clock, [op |-> "get"], 0, credentials[k].revision)
  <2>1. credentials[k] \in Credential
    BY <1>3 DEF authenticate_application_credential, credential_alive, TypeOK
  <2>2. credentials[k].revision \in 1..(MaxRevision - 1)
    BY <1>3, <2>1, AccessAssumption, SMTT(60) DEF authenticate_application_credential, Credential
  <2>3. c \in RequestContext
    BY <2>2 DEF Context, RequestContext, TypeOK
  <2>4. c \in CallRecord /\ Goto(t, c)
    BY <1>3, <2>3 DEF CallRecord, authenticate_application_credential
  <2> HIDE DEF c
  <2>5. call' \in [Thread -> CallRecord]
    BY <2>4, GotoTyped
  <2> QED
    BY <1>3, <2>5 DEF TypeOK, authenticate_application_credential, stored, gate, CallRecord
<1> QED
  BY <1>1, <1>2, <1>3 DEF Arrive

LEMMA CreateTyped ==
  ASSUME TypeOK, NEW t \in Thread, create_session(t)
  PROVE  TypeOK'
<1> DEFINE now == call[t].now
           row == [created |-> now, last_used |-> now,
                   idle_expires |-> now + SESSION_IDLE_MS,
                   absolute_expires |-> now + SESSION_ABSOLUTE_MS,
                   recent_auth |-> now, revoked |-> FALSE]
<1>1. now \in Time
  BY KindOfContext DEF create_session
<1>2. now + SESSION_IDLE_MS \in Nat /\ now + SESSION_ABSOLUTE_MS \in Nat
  BY <1>1, AccessAssumption, SMTT(60) DEF Time
<1>3. row \in Session
  BY <1>1, <1>2 DEF Session
<1>4. sessions' \in [SessionId -> Session \union {None}] /\ authenticator' \in Time
  BY <1>1, <1>3 DEF create_session, TypeOK
<1> QED
  BY <1>4, ReturnTyped DEF TypeOK, create_session, CallRecord

LEMMA GateStepsTyped ==
  ASSUME TypeOK, NEW t \in Thread, lock_gate(t) \/ verify_context(t) \/ authorize(t)
  PROVE  TypeOK'
<1>1. CASE lock_gate(t)
  <2>1. call' \in [Thread -> CallRecord]
    BY <1>1, AtTyped DEF lock_gate, Holding
  <2> QED
    BY <1>1, <2>1 DEF TypeOK, lock_gate, stored, CallRecord
<1>2. CASE authorize(t)
  <2>1. /\ call' \in [Thread -> CallRecord]
        /\ readers' \subseteq Thread /\ writer' \in Thread \union {None}
    <3>1. CASE At(t, "act") /\ UNCHANGED gate
      BY <1>2, <3>1, AtTyped DEF authorize, gate, Holding, TypeOK
    <3>2. CASE Refuse(t)
      BY <3>2, ReturnTyped DEF Refuse
    <3> QED
      BY <1>2, <3>1, <3>2 DEF authorize
  <2> QED
    BY <1>2, <2>1 DEF TypeOK, authorize, stored, CallRecord
<1>3. CASE verify_context(t)
  <2>1. /\ call' \in [Thread -> CallRecord]
        /\ readers' \subseteq Thread /\ writer' \in Thread \union {None}
    <3>1. CASE At(t, "authorize") /\ UNCHANGED gate
      BY <1>3, <3>1, AtTyped DEF verify_context, gate, Holding, TypeOK
    <3>2. CASE Refuse(t)
      BY <3>2, ReturnTyped DEF Refuse
    <3>3. ASSUME context_active(t), call[t].request.op = "logout", UNCHANGED gate,
                 Goto(t, Context("act", call[t].who, call[t].now, call[t].request,
                                 call[t].recent_until, sessions[call[t].who].last_used))
          PROVE  /\ call' \in [Thread -> CallRecord]
                 /\ readers' \subseteq Thread /\ writer' \in Thread \union {None}
      <4> DEFINE c == Context("act", call[t].who, call[t].now, call[t].request,
                              call[t].recent_until, sessions[call[t].who].last_used)
      <4>1. /\ call[t].who \in SessionId /\ call[t].request \in OwnerRequest
            /\ call[t].now \in Time /\ call[t].recent_until \in Nat
        <5>1. call[t].pc = "verify"
          BY <1>3 DEF verify_context
        <5>2. /\ call[t].who \in SessionId \union CredentialId
              /\ call[t].now \in Time /\ call[t].recent_until \in Nat
              /\ call[t].who \in CredentialId => call[t].request = [op |-> "get"]
              /\ call[t].who \in SessionId => call[t].request \in OwnerRequest
          BY <5>1, ContextFields
        <5>3. call[t].who \notin CredentialId
          BY <3>3, <5>2, SMTT(60)
        <5> QED
          BY <5>2, <5>3
      <4>2. sessions[call[t].who] \in Session
        BY <4>1, <3>3, AccessAssumption DEF context_active, TypeOK
      <4>3. sessions[call[t].who].last_used \in Time
        BY <4>2 DEF Session
      <4>4. c \in RequestContext
        BY <4>1, <4>3 DEF Context, RequestContext
      <4>5. c \in CallRecord
        BY <4>4 DEF CallRecord
      <4> QED
        BY <3>3, <4>5, GotoTyped DEF TypeOK, gate
    <3> QED
      BY <1>3, <3>1, <3>2, <3>3 DEF verify_context
  <2> QED
    BY <1>3, <2>1 DEF TypeOK, verify_context, stored, CallRecord
<1> QED
  BY <1>1, <1>2, <1>3

\* Only a session's request asks for these operations.
LEMMA OwnerActs ==
  ASSUME TypeOK, NEW t \in Thread, call[t].pc = "act", call[t].request.op # "get"
  PROVE  call[t].who \in SessionId /\ call[t].request \in OwnerRequest /\ call[t].now \in Time
<1>1. call[t].pc \notin {"idle", "create"}
  OBVIOUS
<1> QED
  BY <1>1, ContextFields, SMTT(60)

\* What every edit of a policy does.
LEMMA PolicyEdit ==
  ASSUME NEW t \in Thread, change_policy(t)
  PROVE  /\ call[t].pc = "act"
         /\ call[t].request.op \in {"create_policy", "grant", "bind", "archive_policy"}
         /\ Return(t)
         /\ UNCHANGED <<clock, sessions, credentials, authenticator, ended>>
  BY DEF change_policy, create_policy, add_policy_grant, bind_policy_to_service,
     archive_policy, edit_policy

LEMMA ActsTyped ==
  ASSUME TypeOK, NEW t \in Thread,
         \/ use_access(t) \/ issue_application_credential(t)
         \/ revoke_application_credential(t) \/ logout_browser_session(t) \/ change_policy(t)
  PROVE  TypeOK'
<1>1. CASE use_access(t)
  BY <1>1, ReturnTyped DEF TypeOK, use_access, stored, CallRecord
<1>2. CASE issue_application_credential(t)
  <2>1. call[t].now \in Time /\ call[t].request.expires \in Expiry
    BY <1>2, OwnerActs, RequestFields DEF issue_application_credential
  <2>2. 1 \in 1..MaxRevision
    BY AccessAssumption, SMTT(60)
  <2>3. [created |-> call[t].now, expires |-> call[t].request.expires,
         last_used |-> call[t].now, revision |-> 1, revoked |-> FALSE] \in Credential
    BY <2>1, <2>2 DEF Credential
  <2>4. credentials' \in [CredentialId -> Credential \union {None}]
    BY <1>2, <2>3 DEF issue_application_credential, TypeOK
  <2> QED
    BY <1>2, <2>4, ReturnTyped DEF TypeOK, issue_application_credential, CallRecord
<1>3. CASE revoke_application_credential(t)
  <2> DEFINE r == call[t].request
             k == r.credential
  <2>1. k \in CredentialId /\ r.revision \in 1..MaxRevision
    BY <1>3, OwnerActs, RequestFields DEF revoke_application_credential
  <2>2. ASSUME credentials[k] # None, r.revision < MaxRevision
        PROVE  [credentials[k] EXCEPT !.revoked = TRUE, !.revision = r.revision + 1] \in Credential
    <3>1. credentials[k] \in Credential
      BY <2>1, <2>2 DEF TypeOK
    <3>2. r.revision + 1 \in 1..MaxRevision
      BY <2>1, <2>2, AccessAssumption, SMTT(60)
    <3> QED
      BY <3>1, <3>2 DEF Credential
  <2>3. credentials' \in [CredentialId -> Credential \union {None}]
    BY <1>3, <2>1, <2>2 DEF revoke_application_credential, TypeOK
  <2>4. ended' \subseteq SessionId \union CredentialId
    BY <1>3, <2>1, SMTT(60) DEF revoke_application_credential, TypeOK
  <2> QED
    BY <1>3, <2>3, <2>4, ReturnTyped DEF TypeOK, revoke_application_credential, CallRecord
<1>4. CASE logout_browser_session(t)
  <2>1. call[t].who \in SessionId
    BY <1>4, OwnerActs DEF logout_browser_session
  <2>2. ASSUME sessions[call[t].who] # None
        PROVE  [sessions[call[t].who] EXCEPT !.revoked = TRUE] \in Session
    BY <2>1, <2>2 DEF TypeOK, Session
  <2>3. sessions' \in [SessionId -> Session \union {None}]
    BY <1>4, <2>1, <2>2 DEF logout_browser_session, TypeOK
  <2>4. ended' \subseteq SessionId \union CredentialId
    BY <1>4, <2>1, SMTT(60) DEF logout_browser_session, TypeOK
  <2> QED
    BY <1>4, <2>3, <2>4, ReturnTyped DEF TypeOK, logout_browser_session, CallRecord
<1>5. CASE change_policy(t)
  <2> DEFINE p == call[t].request.policy
  <2>1. p \in PolicyId
    BY <1>5, OwnerActs, RequestFields, PolicyEdit
  <2>2. policies' \in [PolicyId -> [state : {"absent", "active", "archived"},
                                    granted : BOOLEAN, bound : BOOLEAN]]
    <3> DEFINE Policy == [state : {"absent", "active", "archived"},
                          granted : BOOLEAN, bound : BOOLEAN]
    <3>1. policies \in [PolicyId -> Policy] /\ policies[p] \in Policy
      BY <2>1 DEF TypeOK
    <3>2. /\ [state |-> "active", granted |-> FALSE, bound |-> FALSE] \in Policy
          /\ [state |-> "active", granted |-> TRUE, bound |-> policies[p].bound] \in Policy
          /\ [state |-> "active", granted |-> policies[p].granted, bound |-> TRUE] \in Policy
          /\ [policies[p] EXCEPT !.state = "archived"] \in Policy
      BY <3>1
    <3>3. \E row \in Policy : policies' \in {policies, [policies EXCEPT ![p] = row]}
      BY <1>5, <3>2
      DEF change_policy, create_policy, add_policy_grant, bind_policy_to_service,
          archive_policy, edit_policy
    <3> HIDE DEF Policy
    <3>4. policies' \in [PolicyId -> Policy]
      BY <2>1, <3>1, <3>3
    <3> QED
      BY <3>4 DEF Policy
  <2> QED
    BY <1>5, <2>2, ReturnTyped, PolicyEdit DEF TypeOK, CallRecord
<1> QED
  BY <1>1, <1>2, <1>3, <1>4, <1>5

LEMMA StepTyped == TypeOK /\ [Next]_vars => TypeOK'
<1> SUFFICES ASSUME TypeOK, [Next]_vars PROVE TypeOK'
  OBVIOUS
<1>1. ASSUME NEW t \in Thread, Arrive(t) PROVE TypeOK'
  BY <1>1, ArriveTyped
<1>2. ASSUME NEW t \in Thread, lock_gate(t) PROVE TypeOK'
  BY <1>2, GateStepsTyped
<1>3. ASSUME NEW t \in Thread, Step(t) PROVE TypeOK'
  BY <1>3, CreateTyped, TouchTyped, MarkUsedTyped, GateStepsTyped, ActsTyped DEF Step
<1>4. CASE Tick
  BY <1>4, AccessAssumption, SMTT(60) DEF Tick, TypeOK, Time, stored, gate
<1>5. CASE UNCHANGED vars
  BY <1>5 DEF vars, TypeOK, stored, gate
<1> QED
  BY <1>1, <1>2, <1>3, <1>4, <1>5 DEF Next

\* Every row and every request record keeps its type: in particular a
\* credential's revision is never moved past the largest one
\* (authenticate_application_credential and revoke_application_credential
\* check before they add).
THEOREM AccessTyped == Spec => []TypeOK
<1> QED
  BY InitTypeOK, StepTyped, PTL DEF Spec

-----------------------------------------------------------------------------
\* The gate

\* Whoever is past the gate holds it, alone if the operation needs that.
GateHeld ==
    /\ writer # None => readers = {}
    /\ \A t \in Thread : call[t].pc \in Holding =>
          IF call[t].request.op \in Writes THEN writer = t ELSE t \in readers

LEMMA InitGateHeld == Init => GateHeld
  BY SMTT(60) DEF Init, GateHeld, Holding, Idle

\* A thread that holds the gate alone is alone behind it.
LEMMA Alone ==
  ASSUME GateHeld, NEW t \in Thread, call[t].pc \in Holding, call[t].request.op \in Writes,
         NEW u \in Thread \ {t}
  PROVE  call[u].pc \notin Holding
  BY AccessAssumption DEF GateHeld

LEMMA ReturnHeld ==
  ASSUME TypeOK, GateHeld, NEW t \in Thread, Return(t)
  PROVE  GateHeld'
<1>1. call'[t] = Idle /\ \A u \in Thread \ {t} : call'[u] = call[u]
  BY ReturnTyped
<1> QED
  BY <1>1, AccessAssumption, SMTT(60) DEF GateHeld, Return, Holding, Idle, Writes

\* A request that arrives is before the gate, and a session's carries the
\* last_used it was checked against.
LEMMA ArriveShape ==
  ASSUME TypeOK, NEW t \in Thread, Arrive(t)
  PROVE  /\ call'[t].pc \in {"create", "touch", "use"}
         /\ call'[t].pc = "touch" => call'[t].seen <= call'[t].now
         /\ \A u \in Thread \ {t} : call'[u] = call[u]
         /\ UNCHANGED gate
<1>0. DOMAIN call = Thread
  BY DEF TypeOK
<1>1. CASE login_with_password(t)
  <2> DEFINE c == [pc |-> "create", now |-> clock, seen |-> authenticator]
  <2>1. call' = [call EXCEPT ![t] = c] /\ UNCHANGED gate
    BY <1>1 DEF login_with_password, Goto
  <2>2. c.pc = "create"
    OBVIOUS
  <2> HIDE DEF c
  <2> QED
    BY <1>0, <2>1, <2>2
<1>2. ASSUME NEW s \in SessionId, NEW r \in OwnerRequest, authenticate_browser_session(t, s, r)
      PROVE  /\ call'[t].pc = "touch" /\ call'[t].seen <= call'[t].now
             /\ \A u \in Thread \ {t} : call'[u] = call[u]
             /\ UNCHANGED gate
  <2> DEFINE c == Context("touch", s, clock, r, sessions[s].recent_auth + RECENT_AUTH_MS,
                          sessions[s].last_used)
  <2>1. call' = [call EXCEPT ![t] = c] /\ UNCHANGED gate
    BY <1>2 DEF authenticate_browser_session, Goto
  <2>2. c.pc = "touch" /\ c.now = clock /\ c.seen = sessions[s].last_used
    BY DEF Context
  <2>3. sessions[s].last_used <= clock
    BY <1>2 DEF authenticate_browser_session, session_alive
  <2> HIDE DEF c
  <2> QED
    BY <1>0, <2>1, <2>2, <2>3
<1>3. ASSUME NEW k \in CredentialId, authenticate_application_credential(t, k)
      PROVE  /\ call'[t].pc = "use"
             /\ \A u \in Thread \ {t} : call'[u] = call[u]
             /\ UNCHANGED gate
  <2> DEFINE c == Context("use", k, clock, [op |-> "get"], 0, credentials[k].revision)
  <2>1. call' = [call EXCEPT ![t] = c] /\ UNCHANGED gate
    BY <1>3 DEF authenticate_application_credential, Goto
  <2>2. c.pc = "use"
    BY DEF Context
  <2> HIDE DEF c
  <2> QED
    BY <1>0, <2>1, <2>2
<1> QED
  BY <1>1, <1>2, <1>3 DEF Arrive

\* Every step of a thread ends its request, or takes it on inside the gate, or
\* is taken before the gate.
LEMMA StepShape ==
  ASSUME TypeOK, NEW t \in Thread, Arrive(t) \/ Step(t)
  PROVE  \/ Return(t)
         \/ /\ call'[t].pc \notin Holding /\ \A u \in Thread \ {t} : call'[u] = call[u]
            /\ UNCHANGED gate
         \/ /\ call[t].pc \in Holding /\ call'[t].pc \in Holding
            /\ call'[t].request = call[t].request /\ call'[t].who = call[t].who
            /\ \A u \in Thread \ {t} : call'[u] = call[u]
            /\ UNCHANGED gate
<1>1. CASE Arrive(t)
  BY <1>1, ArriveShape DEF Holding
<1>2. CASE touch_session(t)
  BY <1>2, AtTyped DEF touch_session, Refuse, Holding
<1>3. CASE mark_application_credential_used(t)
  BY <1>3, AtTyped DEF mark_application_credential_used, Refuse, Holding
<1>4. CASE authorize(t)
  BY <1>4, AtTyped DEF authorize, Refuse, Holding
<1>5. CASE verify_context(t)
  <2>1. CASE At(t, "authorize") /\ UNCHANGED gate
    BY <1>5, <2>1, AtTyped DEF verify_context, Holding
  <2>2. CASE /\ Goto(t, Context("act", call[t].who, call[t].now, call[t].request,
                                call[t].recent_until, sessions[call[t].who].last_used))
             /\ UNCHANGED gate
    BY <1>5, <2>2 DEF verify_context, Goto, Context, Holding, TypeOK
  <2> QED
    BY <1>5, <2>1, <2>2 DEF verify_context, Refuse
<1>6. CASE \/ create_session(t) \/ use_access(t) \/ issue_application_credential(t)
           \/ revoke_application_credential(t) \/ logout_browser_session(t) \/ change_policy(t)
  BY <1>6, PolicyEdit DEF create_session, use_access, issue_application_credential,
     revoke_application_credential, logout_browser_session
<1> QED
  BY <1>1, <1>2, <1>3, <1>4, <1>5, <1>6 DEF Step

LEMMA StepGateHeld == TypeOK /\ GateHeld /\ [Next]_vars => GateHeld'
<1> SUFFICES ASSUME TypeOK, GateHeld, [Next]_vars PROVE GateHeld'
  OBVIOUS
<1>1. ASSUME NEW t \in Thread, Arrive(t) \/ Step(t) PROVE GateHeld'
  BY <1>1, StepShape, ReturnHeld, SMTT(60) DEF GateHeld, gate, Writes
<1>2. ASSUME NEW t \in Thread, lock_gate(t) PROVE GateHeld'
  <2>1. /\ call'[t].pc = "verify" /\ call'[t].request = call[t].request
        /\ \A u \in Thread \ {t} : call'[u] = call[u]
    BY <1>2, AtTyped DEF lock_gate, Holding
  <2> QED
    BY <1>2, <2>1, AccessAssumption, SMTT(60) DEF GateHeld, lock_gate, Writes
<1>3. CASE Tick \/ UNCHANGED vars
  BY <1>3 DEF Tick, vars, gate, stored, GateHeld, Writes
<1> QED
  BY <1>1, <1>2, <1>3 DEF Next

-----------------------------------------------------------------------------
\* Revocation

\* What was reported as ended is revoked in the database, or swept from it.
EndedRevoked ==
    \A x \in ended :
        /\ x \in SessionId => sessions[x] = None \/ sessions[x].revoked
        /\ x \in CredentialId => credentials[x] # None /\ credentials[x].revoked

LEMMA StepEndedRevoked == TypeOK /\ EndedRevoked /\ [Next]_vars => EndedRevoked'
<1> SUFFICES ASSUME TypeOK, EndedRevoked, [Next]_vars PROVE EndedRevoked'
  OBVIOUS
<1>1. ASSUME UNCHANGED <<sessions, credentials, ended>> PROVE EndedRevoked'
  BY <1>1 DEF EndedRevoked
<1>2. ASSUME NEW t \in Thread, create_session(t) PROVE EndedRevoked'
  <2>1. \A x \in SessionId \intersect ended :
           sessions'[x] = None \/ sessions'[x] = sessions[x]
    BY <1>2 DEF create_session, Random
  <2>2. UNCHANGED <<credentials, ended>>
    BY <1>2 DEF create_session
  <2> QED
    BY <2>1, <2>2 DEF EndedRevoked
<1>3. ASSUME NEW t \in Thread, touch_session(t) PROVE EndedRevoked'
  <2>1. \A x \in SessionId \intersect ended : sessions'[x] = sessions[x]
    <3>1. CASE touchable(call[t].who, call[t].seen, call[t].now)
      <4>1. call[t].who \in SessionId
        BY <1>3, KindOfContext DEF touch_session
      <4>2. call[t].who \notin ended
        BY <3>1, <4>1 DEF touchable, EndedRevoked
      <4> QED
        BY <1>3, <3>1, <4>2 DEF touch_session, TypeOK
    <3>2. CASE ~touchable(call[t].who, call[t].seen, call[t].now)
      BY <1>3, <3>2 DEF touch_session
    <3> QED
      BY <3>1, <3>2
  <2>2. UNCHANGED <<credentials, ended>>
    BY <1>3 DEF touch_session
  <2> QED
    BY <2>1, <2>2 DEF EndedRevoked
<1>4. ASSUME NEW t \in Thread, mark_application_credential_used(t) PROVE EndedRevoked'
  <2>1. call[t].who \in CredentialId
    BY <1>4, KindOfContext DEF mark_application_credential_used
  <2>2. \A x \in CredentialId \intersect ended : credentials'[x] = credentials[x]
    BY <1>4, <2>1 DEF mark_application_credential_used, TypeOK, EndedRevoked
  <2>3. UNCHANGED <<sessions, ended>>
    BY <1>4 DEF mark_application_credential_used
  <2> QED
    BY <2>2, <2>3 DEF EndedRevoked
<1>5. ASSUME NEW t \in Thread, issue_application_credential(t) PROVE EndedRevoked'
  <2>1. \A x \in CredentialId \intersect ended : credentials'[x] = credentials[x]
    BY <1>5 DEF issue_application_credential, TypeOK, EndedRevoked
  <2>2. UNCHANGED <<sessions, ended>>
    BY <1>5 DEF issue_application_credential
  <2> QED
    BY <2>1, <2>2 DEF EndedRevoked
<1>6. ASSUME NEW t \in Thread, revoke_application_credential(t) PROVE EndedRevoked'
  <2> DEFINE k == call[t].request.credential
             row == [credentials[k] EXCEPT !.revoked = TRUE,
                                           !.revision = call[t].request.revision + 1]
  <2>1. k \in CredentialId
    BY <1>6, OwnerActs, RequestFields DEF revoke_application_credential
  <2>2. CASE UNCHANGED <<credentials, ended>>
    BY <1>6, <1>1, <2>2 DEF revoke_application_credential
  <2>3. CASE ~UNCHANGED <<credentials, ended>>
    <3>1. /\ credentials[k] # None /\ credentials' = [credentials EXCEPT ![k] = row]
          /\ ended' = ended \union {k} /\ call[t].request.revision < MaxRevision
      BY <1>6, <2>3 DEF revoke_application_credential
    <3>2. credentials[k] \in Credential /\ call[t].request.revision \in 1..MaxRevision
      BY <1>6, <2>1, <3>1, OwnerActs, RequestFields, SMTT(60) DEF revoke_application_credential, TypeOK
    <3>3. call[t].request.revision + 1 \in 1..MaxRevision
      BY <3>1, <3>2, AccessAssumption, SMTT(60)
    <3>4. row \in Credential /\ row.revoked
      BY <3>2, <3>3 DEF Credential
    <3>5. \A x \in CredentialId : credentials'[x] = IF x = k THEN row ELSE credentials[x]
      BY <2>1, <3>1 DEF TypeOK
    <3>6. credentials'[k] # None /\ credentials'[k].revoked
      BY <2>1, <3>4, <3>5, NoneAssumption
    <3>7. UNCHANGED sessions
      BY <1>6 DEF revoke_application_credential
    <3> QED
      BY <2>1, <3>1, <3>5, <3>6, <3>7, AccessAssumption DEF EndedRevoked
  <2> QED
    BY <2>2, <2>3
<1>7. ASSUME NEW t \in Thread, logout_browser_session(t) PROVE EndedRevoked'
  <2> DEFINE s == call[t].who
             row == [sessions[s] EXCEPT !.revoked = TRUE]
  <2>1. s \in SessionId
    BY <1>7, OwnerActs DEF logout_browser_session
  <2>2. CASE UNCHANGED <<sessions, ended>>
    BY <1>7, <1>1, <2>2 DEF logout_browser_session
  <2>3. CASE ~UNCHANGED <<sessions, ended>>
    <3>1. /\ sessions[s] # None /\ sessions' = [sessions EXCEPT ![s] = row]
          /\ ended' = ended \union {s}
      BY <1>7, <2>3 DEF logout_browser_session
    <3>2. row.revoked
      BY <2>1, <3>1 DEF TypeOK, Session
    <3>3. \A x \in SessionId : sessions'[x] = IF x = s THEN row ELSE sessions[x]
      BY <2>1, <3>1 DEF TypeOK
    <3>4. UNCHANGED credentials
      BY <1>7 DEF logout_browser_session
    <3> QED
      BY <2>1, <3>1, <3>2, <3>3, <3>4, AccessAssumption DEF EndedRevoked
  <2> QED
    BY <2>2, <2>3
<1>8. ASSUME NEW t \in Thread,
             \/ Arrive(t) \/ lock_gate(t) \/ verify_context(t) \/ authorize(t)
             \/ use_access(t) \/ change_policy(t)
      PROVE  EndedRevoked'
  BY <1>1, <1>8, PolicyEdit DEF Arrive, login_with_password, authenticate_browser_session,
     authenticate_application_credential, lock_gate, verify_context, authorize,
     use_access, stored
<1>9. CASE Tick \/ UNCHANGED vars
  BY <1>1, <1>9 DEF Tick, vars, stored
<1> QED
  BY <1>2, <1>3, <1>4, <1>5, <1>6, <1>7, <1>8, <1>9 DEF Next, Step

\* Only a thread that holds the gate alone ends anything or edits a policy.
LEMMA ChangesAlone ==
  ASSUME TypeOK, NEW t \in Thread, Arrive(t) \/ lock_gate(t) \/ Step(t)
  PROVE  \/ UNCHANGED <<ended, policies>>
         \/ call[t].pc \in Holding /\ call[t].request.op \in Writes /\ Return(t)
<1>1. CASE revoke_application_credential(t) \/ logout_browser_session(t) \/ change_policy(t)
  BY <1>1, PolicyEdit DEF revoke_application_credential, logout_browser_session, Holding, Writes, Exclusive
<1>2. CASE Arrive(t) \/ lock_gate(t)
  BY <1>2 DEF Arrive, login_with_password, authenticate_browser_session,
     authenticate_application_credential, lock_gate, stored
<1>3. CASE \/ create_session(t) \/ touch_session(t) \/ mark_application_credential_used(t)
           \/ verify_context(t) \/ authorize(t)
           \/ use_access(t) \/ issue_application_credential(t)
  BY <1>3 DEF create_session, touch_session, mark_application_credential_used, verify_context,
     authorize, use_access, issue_application_credential, stored
<1> QED
  BY <1>1, <1>2, <1>3 DEF Step

\* A live session or credential was not reported as ended.
LEMMA ActiveNotEnded ==
  ASSUME TypeOK, EndedRevoked, NEW t \in Thread, call[t].pc = "verify", context_active(t)
  PROVE  call[t].who \notin ended
<1>1. call[t].who \in SessionId \union CredentialId
  BY ContextFields
<1> QED
  BY <1>1, AccessAssumption DEF context_active, credential_alive, session_alive, EndedRevoked

\* How a thread comes to be inside: from inside, or by passing verify_context.
LEMMA EntersInside ==
  ASSUME TypeOK, NEW t \in Thread, Arrive(t) \/ lock_gate(t) \/ Step(t), t \in Inside'
  PROVE  /\ call'[t].who = call[t].who /\ UNCHANGED <<ended, policies>>
         /\ \/ call[t].pc = "verify" /\ context_active(t)
            \/ /\ call[t].pc = "authorize"
               /\ call[t].who \in CredentialId => service_is_allowed
<1>1. CASE verify_context(t)
  <2>1. context_active(t) /\ call[t].pc = "verify"
    BY <1>1, ReturnTyped, SMTT(60) DEF verify_context, Refuse, Inside, Idle
  <2>2. call'[t].who = call[t].who
    <3>1. ~Return(t)
      BY ReturnTyped, SMTT(60) DEF Inside, Idle
    <3>2. call'[t].pc \in Holding
      BY DEF Inside, Holding
    <3> QED
      BY <1>1, <3>1, <3>2, StepShape DEF Step
  <2> QED
    BY <1>1, <2>1, <2>2 DEF verify_context, stored
<1>2. CASE authorize(t)
  <2>1. /\ call[t].pc = "authorize"
        /\ call[t].who \in CredentialId => service_is_allowed
    <3>1. ~Refuse(t)
      BY ReturnTyped, SMTT(60) DEF Refuse, Inside, Idle
    <3> QED
      BY <1>2, <3>1 DEF authorize
  <2>2. call'[t].who = call[t].who
    <3>1. ~Return(t)
      BY ReturnTyped, SMTT(60) DEF Inside, Idle
    <3>2. call'[t].pc \in Holding
      BY DEF Inside, Holding
    <3> QED
      BY <1>2, <3>1, <3>2, StepShape DEF Step
  <2> QED
    BY <1>2, <2>1, <2>2 DEF authorize, stored
<1>3. CASE Arrive(t)
  BY <1>3, ArriveShape DEF Inside
<1>4. CASE lock_gate(t)
  <2>1. call[t].pc = "gate" /\ At(t, "verify")
    BY <1>4 DEF lock_gate
  <2>2. call'[t].pc = "verify"
    BY <2>1, AtTyped DEF Holding
  <2> QED
    BY <2>2 DEF Inside
<1>5. CASE \/ touch_session(t) \/ mark_application_credential_used(t)
  <2>1. call'[t].pc \in {"gate", "idle"}
    <3>1. CASE At(t, "gate")
      BY <1>5, <3>1, AtTyped, SMTT(60) DEF touch_session, mark_application_credential_used
    <3>2. CASE Refuse(t)
      BY <3>2, ReturnTyped, SMTT(60) DEF Refuse, Idle
    <3> QED
      BY <1>5, <3>1, <3>2 DEF touch_session, mark_application_credential_used
  <2> QED
    BY <2>1 DEF Inside
<1>6. CASE \/ create_session(t) \/ use_access(t) \/ issue_application_credential(t)
           \/ revoke_application_credential(t) \/ logout_browser_session(t) \/ change_policy(t)
  <2>1. Return(t)
    BY <1>6, PolicyEdit DEF create_session, use_access, issue_application_credential,
       revoke_application_credential, logout_browser_session
  <2> QED
    BY <2>1, ReturnTyped, SMTT(60) DEF Inside, Idle
<1> QED
  BY <1>1, <1>2, <1>3, <1>4, <1>5, <1>6 DEF Step

\* The other threads are where they were.
LEMMA OthersStay ==
  ASSUME TypeOK, NEW t \in Thread, Arrive(t) \/ lock_gate(t) \/ Step(t)
  PROVE  \A u \in Thread \ {t} : call'[u] = call[u]
<1>1. CASE lock_gate(t)
  BY <1>1, AtTyped DEF lock_gate, Holding
<1>2. CASE Arrive(t) \/ Step(t)
  BY <1>2, StepShape, ReturnTyped
<1> QED
  BY <1>1, <1>2

AccessInv ==
    /\ TypeOK
    /\ GateHeld
    /\ EndedRevoked
    /\ NoUseAfterRevocation
    /\ GrantedWhenUsed

LEMMA InitAccessInv == Init => AccessInv
  BY InitTypeOK, InitGateHeld, SMTT(60)
  DEF Init, AccessInv, EndedRevoked, NoUseAfterRevocation, GrantedWhenUsed, Inside, Idle

LEMMA StepAccessInv == AccessInv /\ [Next]_vars => AccessInv'
<1> SUFFICES ASSUME AccessInv, [Next]_vars PROVE AccessInv'
  OBVIOUS
<1> USE DEF AccessInv
<1>1. TypeOK' /\ GateHeld' /\ EndedRevoked'
  BY StepTyped, StepGateHeld, StepEndedRevoked
<1>2. ASSUME NEW t \in Thread, Arrive(t) \/ lock_gate(t) \/ Step(t)
      PROVE  NoUseAfterRevocation' /\ GrantedWhenUsed'
  <2>1. ASSUME NEW u \in Inside', u # t
        PROVE  u \in Inside /\ call'[u] = call[u] /\ UNCHANGED <<ended, policies>>
    <3>1. u \in Inside /\ call'[u] = call[u]
      BY <1>2, <2>1, OthersStay DEF Inside
    <3>2. call[u].pc \in Holding /\ u \in Thread
      BY <3>1 DEF Inside, Holding
    <3> QED
      BY <1>2, <2>1, <3>1, <3>2, ChangesAlone, Alone
  <2>2. ASSUME NEW u \in Inside' PROVE call'[u].who \notin ended'
    <3>1. CASE u = t
      BY <1>2, <2>2, <3>1, EntersInside, ActiveNotEnded DEF NoUseAfterRevocation, Inside
    <3>2. CASE u # t
      BY <2>1, <2>2, <3>2 DEF NoUseAfterRevocation
    <3> QED
      BY <3>1, <3>2
  <2>3. ASSUME NEW u \in Inside', call'[u].pc = "act", call'[u].who \in CredentialId
        PROVE  service_is_allowed'
    <3>1. CASE u # t
      BY <2>1, <2>3, <3>1 DEF GrantedWhenUsed, service_is_allowed
    <3>2. CASE u = t /\ call[t].pc = "authorize"
      BY <1>2, <2>3, <3>2, EntersInside DEF service_is_allowed
    <3>3. CASE u = t /\ call[t].pc = "verify"
      <4>1. verify_context(t)
        BY <1>2, <3>3, PolicyEdit DEF Arrive, login_with_password, authenticate_browser_session,
           authenticate_application_credential, lock_gate, Step, create_session, touch_session,
           mark_application_credential_used, authorize, use_access,
           issue_application_credential, revoke_application_credential,
           logout_browser_session
      <4>2. call[t].who \in CredentialId
        BY <1>2, <2>3, <3>3, EntersInside
      <4>3. call[t].request = [op |-> "get"]
        BY <3>3, <4>2, ContextFields
      <4>4. At(t, "authorize") \/ Return(t)
        BY <4>1, <4>3, SMTT(60) DEF verify_context, Refuse
      <4> QED
        BY <2>3, <3>3, <4>4, AtTyped, ReturnTyped, SMTT(60) DEF Holding, Idle
    <3> QED
      BY <1>2, <2>3, <3>1, <3>2, <3>3, EntersInside
  <2> QED
    BY <2>2, <2>3 DEF NoUseAfterRevocation, GrantedWhenUsed
<1>3. CASE Tick \/ UNCHANGED vars
  BY <1>1, <1>3 DEF Tick, vars, stored, gate, NoUseAfterRevocation, GrantedWhenUsed, Inside,
     service_is_allowed
<1> QED
  BY <1>1, <1>2, <1>3 DEF Next

\* The inductive invariant holds: the gate is held as the code takes it, and
\* what was reported as ended stays revoked in the database.
THEOREM AccessInvariant == Spec => []AccessInv
<1> QED
  BY InitAccessInv, StepAccessInv, PTL DEF Spec

\* Nothing acts by a session that was logged out or a credential that was
\* revoked: verify_context re-reads the row inside the gate, and the row can
\* change only while nobody else is inside.
THEOREM RevocationIsImmediate == Spec => []NoUseAfterRevocation
<1> QED
  BY AccessInvariant, PTL DEF AccessInv

\* A service acts only while its grant stands: policies are edited only by a
\* thread that holds authorization_gate alone.
THEOREM GrantStandsWhenUsed == Spec => []GrantedWhenUsed
<1> QED
  BY AccessInvariant, PTL DEF AccessInv

-----------------------------------------------------------------------------
\* Sessions over time

\* A session idles out no later than SESSION_IDLE_MS after its last use, and a
\* request that is about to touch one does not go back in time.
SessionTimes ==
    /\ \A s \in SessionId : sessions[s] # None =>
          /\ sessions[s].idle_expires <= sessions[s].absolute_expires
          /\ sessions[s].idle_expires <= sessions[s].last_used + SESSION_IDLE_MS
    /\ \A t \in Thread : call[t].pc = "touch" => call[t].seen <= call[t].now

Advanced ==
    \A s \in SessionId : sessions[s] # None /\ sessions'[s] # None =>
        /\ sessions[s].last_used <= sessions'[s].last_used
        /\ sessions[s].idle_expires <= sessions'[s].idle_expires
        /\ sessions'[s].idle_expires <= sessions'[s].absolute_expires
        /\ sessions[s].revoked => sessions'[s].revoked
        /\ sessions'[s].absolute_expires = sessions[s].absolute_expires
        /\ sessions'[s].recent_auth = sessions[s].recent_auth

\* Requests about to touch a session stay as they are, or have just read it.
LEMMA TouchCalls ==
  ASSUME TypeOK, SessionTimes, NEW t \in Thread, Arrive(t) \/ lock_gate(t) \/ Step(t),
         NEW u \in Thread, call'[u].pc = "touch"
  PROVE  call'[u].seen <= call'[u].now
<1>1. CASE u # t
  BY <1>1, OthersStay DEF SessionTimes
<1>2. CASE u = t
  <2>1. CASE Arrive(t)
    BY <1>2, <2>1, ArriveShape
  <2>2. CASE lock_gate(t)
    <3>1. call[t].pc = "gate" /\ At(t, "verify")
      BY <2>2 DEF lock_gate
    <3>2. call'[t].pc = "verify"
      BY <3>1, AtTyped DEF Holding
    <3> QED
      BY <1>2, <3>2
  <2>3. CASE touch_session(t) \/ mark_application_credential_used(t)
    <3>1. CASE At(t, "gate")
      BY <1>2, <2>3, <3>1, AtTyped, SMTT(60) DEF touch_session, mark_application_credential_used
    <3>2. CASE Refuse(t)
      BY <1>2, <3>2, ReturnTyped, SMTT(60) DEF Refuse, Idle
    <3> QED
      BY <2>3, <3>1, <3>2 DEF touch_session, mark_application_credential_used
  <2>4. CASE Step(t) /\ ~(touch_session(t) \/ mark_application_credential_used(t))
    <3>1. Return(t) \/ call'[t].pc \in Holding
      <4>1. CASE authorize(t)
        BY <4>1, AtTyped DEF authorize, Refuse, Holding
      <4>2. CASE verify_context(t)
        <5>1. CASE At(t, "authorize")
          BY <4>2, <5>1, AtTyped DEF verify_context, Holding
        <5>2. CASE Goto(t, Context("act", call[t].who, call[t].now, call[t].request,
                                   call[t].recent_until, sessions[call[t].who].last_used))
          BY <5>2 DEF Goto, Context, Holding, TypeOK
        <5> QED
          BY <4>2, <5>1, <5>2 DEF verify_context, Refuse
      <4> QED
        BY <2>4, <4>1, <4>2, PolicyEdit DEF Step, create_session, use_access, issue_application_credential,
           revoke_application_credential, logout_browser_session
    <3> QED
      BY <1>2, <3>1, ReturnTyped, SMTT(60) DEF Holding, Idle
  <2> QED
    BY <2>1, <2>2, <2>3, <2>4
<1> QED
  BY <1>1, <1>2

\* What a step does to the rows.
LEMMA StepSessions ==
  ASSUME TypeOK, SessionTimes, NEW t \in Thread, Arrive(t) \/ lock_gate(t) \/ Step(t)
  PROVE  /\ Advanced
         /\ \A s \in SessionId : sessions'[s] # None =>
               /\ sessions'[s].idle_expires <= sessions'[s].absolute_expires
               /\ sessions'[s].idle_expires <= sessions'[s].last_used + SESSION_IDLE_MS
<1>0. \A s \in SessionId : sessions[s] # None => sessions[s] \in Session
  BY DEF TypeOK
<1>times. \A s \in SessionId : sessions[s] # None =>
         /\ sessions[s].last_used <= sessions[s].last_used
         /\ sessions[s].idle_expires <= sessions[s].idle_expires
  <2>1. MaxClock \in Nat /\ SESSION_IDLE_MS \in Nat /\ SESSION_ABSOLUTE_MS \in Nat
    BY AccessAssumption
  <2>2. Time \subseteq Nat
    BY <2>1, SMTT(60) DEF Time
  <2>3. \A x \in Session : x.last_used \in Nat /\ x.idle_expires \in Nat
    BY <2>2 DEF Session
  <2>4. \A n \in Nat : n <= n
    BY SMTT(60)
  <2> QED
    BY <1>0, <2>3, <2>4
<1>1. ASSUME UNCHANGED sessions
      PROVE  /\ Advanced
             /\ \A s \in SessionId : sessions'[s] # None =>
                   /\ sessions'[s].idle_expires <= sessions'[s].absolute_expires
                   /\ sessions'[s].idle_expires <= sessions'[s].last_used + SESSION_IDLE_MS
  <2>1. \A s \in SessionId : sessions[s] # None =>
           /\ sessions[s].idle_expires <= sessions[s].absolute_expires
           /\ sessions[s].idle_expires <= sessions[s].last_used + SESSION_IDLE_MS
    BY DEF SessionTimes
  <2> QED
    BY <1>1, <1>times, <2>1 DEF Advanced
<1>2. CASE create_session(t)
  <2> DEFINE now == call[t].now
             row == [created |-> now, last_used |-> now,
                     idle_expires |-> now + SESSION_IDLE_MS,
                     absolute_expires |-> now + SESSION_ABSOLUTE_MS,
                     recent_auth |-> now, revoked |-> FALSE]
  <2>1. now \in Nat
    BY <1>2, KindOfContext, AccessAssumption, SMTT(60) DEF create_session, Time
  <2>2. /\ row.idle_expires <= row.absolute_expires
        /\ row.idle_expires <= row.last_used + SESSION_IDLE_MS
    <3>1. /\ SESSION_IDLE_MS \in Nat /\ SESSION_ABSOLUTE_MS \in Nat
          /\ SESSION_IDLE_MS <= SESSION_ABSOLUTE_MS
      BY AccessAssumption
    <3>2. now + SESSION_IDLE_MS <= now + SESSION_ABSOLUTE_MS
      BY <2>1, <3>1, SMTT(60)
    <3>3. now + SESSION_IDLE_MS <= now + SESSION_IDLE_MS
      BY <2>1, <3>1, SMTT(60)
    <3> HIDE DEF now
    <3> QED
      BY <3>2, <3>3
  <2>3. \A s \in SessionId :
           \/ sessions'[s] = sessions[s]
           \/ sessions'[s] = None
           \/ sessions[s] = None /\ sessions'[s] = row
    BY <1>2 DEF create_session, Random
  <2> HIDE DEF row
  <2> QED
    BY <1>0, <2>2, <2>3, AccessAssumption, SMTT(60) DEF Advanced, SessionTimes, Session, Time
<1>3. CASE touch_session(t)
  <2> DEFINE c == call[t]
             idle == Least(c.now + SESSION_IDLE_MS, sessions[c.who].absolute_expires)
             old == sessions[c.who]
             row == [old EXCEPT !.last_used = c.now, !.idle_expires = idle]
  <2>1. CASE ~touchable(c.who, c.seen, c.now)
    BY <1>1, <1>3, <2>1 DEF touch_session
  <2>2. CASE touchable(c.who, c.seen, c.now)
    <3>1. /\ c.who \in SessionId /\ c.now \in Nat /\ c.seen <= c.now
      BY <1>3, KindOfContext, ContextFields, AccessAssumption, SMTT(60)
      DEF touch_session, SessionTimes, Time
    <3>2. old \in Session /\ old.last_used = c.seen /\ ~old.revoked
      BY <2>2, <3>1, <1>0 DEF touchable
    <3>3. /\ old.last_used \in Nat /\ old.idle_expires \in Nat /\ old.absolute_expires \in Nat
          /\ old.idle_expires <= old.absolute_expires
          /\ old.idle_expires <= old.last_used + SESSION_IDLE_MS
      <4>1. MaxClock \in Nat /\ SESSION_IDLE_MS \in Nat /\ SESSION_ABSOLUTE_MS \in Nat
        BY AccessAssumption
      <4>2. Time \subseteq Nat
        BY <4>1, SMTT(60) DEF Time
      <4>3. /\ old.last_used \in Nat /\ old.idle_expires \in Nat
            /\ old.absolute_expires \in Nat
        BY <3>2, <4>2 DEF Session
      <4>4. old # None
        BY <2>2 DEF touchable
      <4> QED
        BY <3>1, <4>3, <4>4 DEF SessionTimes
    <3>4. old.idle_expires <= idle /\ idle <= old.absolute_expires /\ idle <= c.now + SESSION_IDLE_MS
      <4>1. SESSION_IDLE_MS \in Nat
        BY AccessAssumption
      <4>2. old.last_used <= c.now
        BY <3>1, <3>2
      <4>3. old.idle_expires <= c.now + SESSION_IDLE_MS
        BY <3>1, <3>3, <4>1, <4>2, SMTT(60)
      <4>4. \A a, b \in Nat : Least(a, b) \in {a, b} /\ Least(a, b) <= a /\ Least(a, b) <= b
        BY SMTT(60) DEF Least
      <4>5. c.now + SESSION_IDLE_MS \in Nat /\ old.absolute_expires \in Nat
        BY <3>1, <3>3, <4>1, SMTT(60)
      <4> QED
        BY <3>3, <4>3, <4>4, <4>5
    <3> HIDE DEF idle
    <3>5. /\ row.last_used = c.now /\ row.idle_expires = idle
          /\ row.absolute_expires = old.absolute_expires
          /\ row.recent_auth = old.recent_auth /\ row.revoked = old.revoked
      BY <3>2 DEF Session
    <3>6. \A s \in SessionId : sessions'[s] = IF s = c.who THEN row ELSE sessions[s]
      BY <1>3, <2>2, <3>1 DEF touch_session, TypeOK, idle
    <3> HIDE DEF row
    <3> QED
      BY <1>times, <3>1, <3>2, <3>3, <3>4, <3>5, <3>6 DEF Advanced, SessionTimes
  <2> QED
    BY <2>1, <2>2
<1>4. CASE logout_browser_session(t)
  <2> DEFINE old == sessions[call[t].who]
             row == [old EXCEPT !.revoked = TRUE]
  <2>1. CASE UNCHANGED sessions
    BY <1>1, <2>1
  <2>2. CASE old # None /\ sessions' = [sessions EXCEPT ![call[t].who] = row]
    <3>1. call[t].who \in SessionId
      BY <1>4, OwnerActs DEF logout_browser_session
    <3>2. old \in Session
      BY <1>0, <2>2, <3>1
    <3>3. /\ row.last_used = old.last_used /\ row.idle_expires = old.idle_expires
          /\ row.absolute_expires = old.absolute_expires
          /\ row.recent_auth = old.recent_auth /\ row.revoked
      BY <3>2 DEF Session
    <3>4. \A s \in SessionId : sessions'[s] = IF s = call[t].who THEN row ELSE sessions[s]
      BY <2>2, <3>1 DEF TypeOK
    <3> HIDE DEF row
    <3> QED
      <4>1. \A s \in SessionId : sessions[s] # None =>
               /\ sessions[s].idle_expires <= sessions[s].absolute_expires
               /\ sessions[s].idle_expires <= sessions[s].last_used + SESSION_IDLE_MS
        BY DEF SessionTimes
      <4>2. \A s \in SessionId : sessions'[s] # None =>
               /\ sessions[s] # None
               /\ sessions'[s].last_used = sessions[s].last_used
               /\ sessions'[s].idle_expires = sessions[s].idle_expires
               /\ sessions'[s].absolute_expires = sessions[s].absolute_expires
               /\ sessions'[s].recent_auth = sessions[s].recent_auth
               /\ sessions[s].revoked => sessions'[s].revoked
        BY <2>2, <3>3, <3>4, SMTT(60)
      <4> QED
        BY <1>times, <4>1, <4>2 DEF Advanced
  <2> QED
    BY <1>4, <2>1, <2>2 DEF logout_browser_session
<1>5. CASE ~(create_session(t) \/ touch_session(t) \/ logout_browser_session(t))
  <2>1. UNCHANGED sessions
    BY <1>5, PolicyEdit DEF Arrive, login_with_password, authenticate_browser_session,
       authenticate_application_credential, lock_gate, Step, mark_application_credential_used,
       verify_context, authorize, use_access, issue_application_credential,
       revoke_application_credential, stored
  <2> QED
    BY <1>1, <2>1
<1> QED
  BY <1>2, <1>3, <1>4, <1>5

LEMMA InitSessionTimes == Init => SessionTimes
  BY SMTT(60) DEF Init, SessionTimes, Idle

LEMMA NextSessionTimes ==
  TypeOK /\ SessionTimes /\ [Next]_vars => SessionTimes' /\ (Advanced \/ UNCHANGED vars)
<1> SUFFICES ASSUME TypeOK, SessionTimes, [Next]_vars
             PROVE  SessionTimes' /\ (Advanced \/ UNCHANGED vars)
  OBVIOUS
<1>1. ASSUME NEW t \in Thread, Arrive(t) \/ lock_gate(t) \/ Step(t)
      PROVE  SessionTimes' /\ Advanced
  BY <1>1, TouchCalls, StepSessions DEF SessionTimes
<1>2. CASE Tick
  <2>1. \A s \in SessionId : sessions[s] # None =>
           /\ sessions[s].last_used <= sessions[s].last_used
           /\ sessions[s].idle_expires <= sessions[s].idle_expires
    BY AccessAssumption, SMTT(60) DEF TypeOK, Session, Time
  <2> QED
    BY <1>2, <2>1 DEF Tick, stored, SessionTimes, Advanced
<1>3. CASE UNCHANGED vars
  BY <1>3 DEF vars, stored, SessionTimes
<1> QED
  BY <1>1, <1>2, <1>3 DEF Next

\* A session only moves forward: touch_session's comparison with last_used
\* keeps a slow request from taking back what a later one wrote.
THEOREM SessionsAdvance == Spec => SessionsOnlyAdvance
<1>1. TypeOK /\ SessionTimes /\ [Next]_vars => [Advanced]_vars
  BY NextSessionTimes
<1>2. Spec => []SessionTimes
  BY AccessTyped, InitSessionTimes, NextSessionTimes, PTL DEF Spec
<1>3. Spec => [][Advanced]_vars
  BY <1>1, <1>2, AccessTyped, PTL DEF Spec
<1> QED
  BY <1>3 DEF SessionsOnlyAdvance, Advanced
=============================================================================
