------------------------------ MODULE Passkeys ------------------------------
(***************************************************************************)
(* Passkey ceremonies: PasskeyService of crates/smcv-app/src/passkeys.rs,  *)
(* and the four handlers of crates/smcv-server/src/lib.rs that call it.    *)
(*                                                                         *)
(* A handler reads the clock once and uses that time to its end, however   *)
(* late it comes to a lock.  A step is one lock, one storage call or one   *)
(* table operation; an answer of a passkey may be late or come twice.      *)
(*                                                                         *)
(* The owner has the password they enrolled with.  Sessions outlive the    *)
(* bound on the clock: module AccessGate has their expiry and their limit, *)
(* and the protocol of the gate.  The verification of WebAuthn answers is  *)
(* a library's, modelled from how it is used here.                         *)
(***************************************************************************)
EXTENDS Integers, FiniteSets

CONSTANTS
    Thread,
    SessionId,
    Passkey,                        \* authenticator devices, one credential each
    None,
    CEREMONY_LIFETIME_MS,
    MAX_PENDING_CEREMONIES,
    RECENT_AUTH_MS,
    MaxCeremonies,                  \* bound: ceremonies ever begun
    MaxCounter,                     \* bound: signatures of a passkey
    MaxClock                        \* bound: the clock stops here

ASSUME PasskeyAssumption ==
    /\ None \notin Thread \union SessionId \union Passkey
    /\ {CEREMONY_LIFETIME_MS, MAX_PENDING_CEREMONIES} \subseteq Nat \ {0}
    /\ {RECENT_AUTH_MS, MaxCeremonies, MaxCounter, MaxClock} \subseteq Nat

VARIABLES
    clock,
    sessions,       \* smcv_sessions: None, or until when it is recent and whether it is live
    passkeys,       \* smcv_owner_authenticators: None, or the row of the passkey
    ceremonies,     \* CeremonyState, by number: CeremonyId::random() is the next one
    begun,          \* ceremonies begun so far
    device,         \* signature counters of the devices
    answers,        \* what devices have signed
    readers,        \* authorization_gate: threads that share it
    call,           \* what each thread is doing
    served          \* history: how often a ceremony gave a session or a passkey

browser == <<device, answers>>
vars == <<clock, sessions, passkeys, ceremonies, begun, browser, readers, call, served>>

-----------------------------------------------------------------------------
CeremonyId == 1..MaxCeremonies

\* The row of a passkey: its signature counter and its times.
OwnerAuthenticatorRecord ==
    [counter : Nat, created : Nat, last_used : Nat \union {None}]

ASSUME AbsenceAssumption == None \notin OwnerAuthenticatorRecord

Idle == [pc |-> "idle"]
SessionSteps == {"registering", "taking", "adding"}

Goto(t, c) == call' = [call EXCEPT ![t] = c]
Step(t, pc) == Goto(t, [call[t] EXCEPT !.pc = pc])

\* The handler answers and its guard of the gate is dropped.
Return(t) == Goto(t, Idle) /\ readers' = readers \ {t}

tick ==
    /\ clock < MaxClock
    /\ clock' = clock + 1
    /\ UNCHANGED <<sessions, passkeys, ceremonies, begun, browser, readers, call, served>>

\* SessionId::random(): an id that no row, request or ceremony has.
FreeSessions ==
    {s \in SessionId :
       /\ IF sessions[s] = None THEN TRUE ELSE ~sessions[s].live
       /\ \A t \in Thread : call[t].pc \in SessionSteps => call[t].session # s
       /\ \A c \in CeremonyId : ceremonies[c] # None => ceremonies[c].session # s}

create_session(s, now) ==
    sessions' = [sessions EXCEPT ![s] = [recent_until |-> now + RECENT_AUTH_MS, live |-> TRUE]]

\* login_with_password: see AccessGate.  It gives the session that enrols.
login_with_password ==
    /\ \E s \in FreeSessions : create_session(s, clock)
    /\ UNCHANGED <<clock, passkeys, ceremonies, begun, browser, readers, call, served>>

\* logout_browser_session holds the gate alone.
logout_browser_session(s) ==
    /\ sessions[s] # None /\ sessions[s].live
    /\ readers = {}
    /\ sessions' = [sessions EXCEPT ![s].live = FALSE]
    /\ UNCHANGED <<clock, passkeys, ceremonies, begun, browser, readers, call, served>>

-----------------------------------------------------------------------------
(* The table of ceremonies.                                                *)

\* (mutated: one kind of ceremony is not swept)
CleanupLogins(now) ==
    [c \in CeremonyId |->
       IF ceremonies[c] # None /\ (ceremonies[c].kind = "registration"
             \/ (ceremonies[c].created <= now /\ ceremonies[c].expires >= now))
       THEN ceremonies[c] ELSE None]

\* (mutated: off by one at the expiry)
CleanupEarly(now) ==
    [c \in CeremonyId |->
       IF ceremonies[c] # None /\ ceremonies[c].created <= now /\ ceremonies[c].expires > now
       THEN ceremonies[c] ELSE None]

\* cleanup keeps what is not from the future and has not expired.
cleanup(now) ==
    [c \in CeremonyId |->
       IF ceremonies[c] # None /\ ceremonies[c].created <= now /\ ceremonies[c].expires >= now
       THEN ceremonies[c] ELSE None]

ceremony_count(table) == Cardinality({c \in CeremonyId : table[c] # None})

\* The sweep stays when the table is full.  (begun < MaxCeremonies is the bound.)
insert_ceremony(t, ceremony) ==
    LET table == cleanup(call[t].now)
    IN /\ begun < MaxCeremonies
       /\ IF ceremony_count(table) >= MAX_PENDING_CEREMONIES
          THEN ceremonies' = table /\ UNCHANGED begun
          ELSE /\ begun' = begun + 1
               /\ ceremonies' = [table EXCEPT ![begun'] = ceremony]
       /\ Return(t)
       /\ UNCHANGED <<clock, sessions, passkeys, browser, served>>

Ceremony(kind, now, session, known) ==
    [kind |-> kind, created |-> now, expires |-> now + CEREMONY_LIFETIME_MS,
     session |-> session, known |-> known]

\* (mutated: a ceremony stays in the table until it expires)
Peek(c) == ceremonies

\* take_registration and take_authentication.
Take(c) == [ceremonies EXCEPT ![c] = None]

in_time(c, now) == ceremonies[c].created <= now /\ now <= ceremonies[c].expires

-----------------------------------------------------------------------------
(* Registration.                                                           *)

\* The handlers authenticate the session and share the gate, and the service asks again
\* that it is live and recent (module AccessGate takes these steps one by one).
verify_owner_context_active(s) ==
    sessions[s] # None /\ sessions[s].live /\ clock <= sessions[s].recent_until

enter(t, request) ==
    /\ call[t].pc = "idle"
    /\ verify_owner_context_active(request.session)
    /\ readers' = readers \union {t}
    /\ Goto(t, request)
    /\ UNCHANGED <<clock, sessions, passkeys, ceremonies, begun, browser, served>>

start_passkey_registration(t, s) ==
    enter(t, [pc |-> "registering", now |-> clock, session |-> s])

finish_passkey_registration(t, s, c, p) ==
    /\ c <= begun /\ passkeys[p] = None
    /\ enter(t, [pc |-> "taking", now |-> clock, session |-> s, ceremony |-> c, passkey |-> p])

start_registration(t) ==
    /\ call[t].pc = "registering"
    /\ insert_ceremony(t, Ceremony("registration", call[t].now, call[t].session, None))

\* The ceremony is used up, whatever comes of it.
take_registration(t) ==
    LET c == call[t].ceremony
    IN /\ call[t].pc = "taking"
       /\ IF ceremonies[c] # None /\ ceremonies[c].kind = "registration"
          THEN /\ ceremonies' = Take(c)
               /\ IF in_time(c, call[t].now) /\ ceremonies[c].session = call[t].session
                  THEN Step(t, "adding") /\ UNCHANGED readers
                  ELSE Return(t)
          ELSE Return(t) /\ UNCHANGED ceremonies
       /\ UNCHANGED <<clock, sessions, passkeys, begun, browser, served>>

\* add_owner_authenticator: the lookup of a credential is unique.
finish_registration(t) ==
    LET p == call[t].passkey
    IN /\ call[t].pc = "adding"
       /\ IF passkeys[p] = None
          THEN /\ passkeys' = [passkeys EXCEPT ![p] =
                                 [counter |-> 0, created |-> call[t].now, last_used |-> None]]
               /\ served' = [served EXCEPT ![call[t].ceremony] = @ + 1]
          ELSE UNCHANGED <<passkeys, served>>
       /\ Return(t)
       /\ UNCHANGED <<clock, sessions, ceremonies, begun, browser>>

-----------------------------------------------------------------------------
(* Authentication.                                                         *)

start_passkey_authentication(t) ==
    /\ call[t].pc = "idle"
    /\ Goto(t, [pc |-> "listing", now |-> clock])
    /\ UNCHANGED <<clock, sessions, passkeys, ceremonies, begun, browser, readers, served>>

Registered == {p \in Passkey : passkeys[p] # None}

\* owner_authenticators: the ceremony keeps the passkeys as they are now.
owner_authenticators(t) ==
    /\ call[t].pc = "listing"
    /\ IF Registered = {}
       THEN Return(t)
       ELSE /\ Goto(t, [pc |-> "challenging", now |-> call[t].now,
                        known |-> [p \in Registered |-> passkeys[p].counter]])
            /\ UNCHANGED readers
    /\ UNCHANGED <<clock, sessions, passkeys, ceremonies, begun, browser, served>>

start_authentication(t) ==
    /\ call[t].pc = "challenging"
    /\ insert_ceremony(t, Ceremony("authentication", call[t].now, None, call[t].known))

\* A device signs the challenge of a ceremony.
sign(p, c) ==
    /\ ceremonies[c] # None /\ ceremonies[c].kind = "authentication"
    /\ device[p] < MaxCounter
    /\ device' = [device EXCEPT ![p] = @ + 1]
    /\ answers' = answers \union {[ceremony |-> c, passkey |-> p, counter |-> device[p] + 1]}
    /\ UNCHANGED <<clock, sessions, passkeys, ceremonies, begun, readers, call, served>>

finish_passkey_authentication(t, answer) ==
    /\ call[t].pc = "idle"
    /\ Goto(t, [pc |-> "answered", now |-> clock, answer |-> answer])
    /\ UNCHANGED <<clock, sessions, passkeys, ceremonies, begun, browser, readers, served>>

\* finish_passkey_authentication of the library compares with the counter that the
\* ceremony keeps.
assertion_valid(c, answer) ==
    /\ answer.passkey \in DOMAIN ceremonies[c].known
    /\ answer.counter > ceremonies[c].known[answer.passkey]

take_authentication(t) ==
    LET c == call[t].answer.ceremony
    IN /\ call[t].pc = "answered"
       /\ IF ceremonies[c] # None
          THEN /\ ceremonies' = Take(c)
               /\ IF in_time(c, call[t].now) /\ assertion_valid(c, call[t].answer)
                  THEN Step(t, "asserted") /\ UNCHANGED readers
                  ELSE Return(t)
          ELSE Return(t) /\ UNCHANGED ceremonies
       /\ UNCHANGED <<clock, sessions, passkeys, begun, browser, served>>

\* The row of the passkey is read; update_credential only raises its counter.
finish_authentication(t) ==
    LET row == passkeys[call[t].answer.passkey]
        counter == call[t].answer.counter
    IN /\ call[t].pc = "asserted"
       /\ IF row.last_used # None /\ call[t].now < row.last_used
          THEN Return(t)
          ELSE /\ Goto(t, [pc |-> "login", now |-> call[t].now, answer |-> call[t].answer,
                           seen |-> row,
                           counter |-> IF counter > row.counter THEN counter ELSE row.counter])
               /\ UNCHANGED readers
       /\ UNCHANGED <<clock, sessions, passkeys, ceremonies, begun, browser, served>>

\* (mutated: the row may have changed since it was read)
CommitmentIgnored(row, seen) == TRUE

\* expected_authenticator_state_commitment: the row is the one that was read.
commitment_expected(row, seen) == row = seen

\* create_browser_session.
create_browser_session(t) ==
    LET p == call[t].answer.passkey
    IN /\ call[t].pc = "login"
       /\ IF commitment_expected(passkeys[p], call[t].seen) /\ FreeSessions # {}
          THEN /\ \E s \in FreeSessions : create_session(s, call[t].now)
               /\ passkeys' = [passkeys EXCEPT ![p].counter = call[t].counter,
                                               ![p].last_used = call[t].now]
               /\ served' = [served EXCEPT ![call[t].answer.ceremony] = @ + 1]
          ELSE UNCHANGED <<sessions, passkeys, served>>
       /\ Return(t)
       /\ UNCHANGED <<clock, ceremonies, begun, browser>>

-----------------------------------------------------------------------------
\* A storage call fails, or the audit head has moved on.
fail(t) ==
    /\ call[t].pc \in {"adding", "listing", "asserted", "login"}
    /\ Return(t)
    /\ UNCHANGED <<clock, sessions, passkeys, ceremonies, begun, browser, served>>

\* Ceremonies are in memory.
restart ==
    /\ ceremonies' = [c \in CeremonyId |-> None]
    /\ readers' = {}
    /\ call' = [t \in Thread |-> Idle]
    /\ UNCHANGED <<clock, sessions, passkeys, begun, browser, served>>

Init ==
    /\ clock = 0
    /\ sessions = [s \in SessionId |-> None]
    /\ passkeys = [p \in Passkey |-> None]
    /\ ceremonies = [c \in CeremonyId |-> None]
    /\ begun = 0
    /\ device = [p \in Passkey |-> 0]
    /\ answers = {}
    /\ readers = {}
    /\ call = [t \in Thread |-> Idle]
    /\ served = [c \in CeremonyId |-> 0]

Registration(t) ==
    \/ \E s \in SessionId :
         \/ start_passkey_registration(t, s)
         \/ \E c \in CeremonyId, p \in Passkey : finish_passkey_registration(t, s, c, p)
    \/ start_registration(t) \/ take_registration(t) \/ finish_registration(t)

Authentication(t) ==
    \/ start_passkey_authentication(t)
    \/ \E a \in answers : finish_passkey_authentication(t, a)
    \/ owner_authenticators(t) \/ start_authentication(t) \/ take_authentication(t)
    \/ finish_authentication(t) \/ create_browser_session(t)

Next ==
    \/ tick \/ login_with_password \/ restart
    \/ \E s \in SessionId : logout_browser_session(s)
    \/ \E p \in Passkey, c \in CeremonyId : sign(p, c)
    \/ \E t \in Thread : Registration(t) \/ Authentication(t) \/ fail(t)

Spec == Init /\ [][Next]_vars

-----------------------------------------------------------------------------
\* The counter that is stored for a passkey never goes back, in whatever order
\* concurrent logins with older and newer signatures reach create_session.
CounterNeverBack ==
    [][\A p \in Passkey :
          passkeys[p] # None => passkeys'[p] # None /\ passkeys'[p].counter >= passkeys[p].counter]_vars

\* A ceremony gives one session or one passkey, however often and from how many
\* threads its answer comes.
CeremonyServesOnce == \A c \in CeremonyId : served[c] <= 1

\* A start is told that the table is full only when as many ceremonies as it holds
\* are pending, none of them expired by the time the handler read: abandoned logins
\* never keep the owner out for longer than they live.
BusyOnlyWhenFull ==
    [][\A t \in Thread :
          /\ call[t].pc \in {"registering", "challenging"} /\ call'[t].pc = "idle"
          /\ begun' = begun /\ \E c \in CeremonyId : ceremonies'[c] # None
          => Cardinality({c \in CeremonyId : ceremonies[c] # None /\ in_time(c, call[t].now)})
                = MAX_PENDING_CEREMONIES]_vars

\* A pending ceremony is lost only to the request that finishes it, to time, to a
\* restart, or to a start whose reading of the clock is older than the ceremony.
PendingKept ==
    [][\A c \in CeremonyId :
          ceremonies[c] # None /\ ceremonies'[c] = None /\ ceremonies[c].expires >= clock =>
             \/ \E t \in Thread :
                  \/ call[t].pc = "taking" /\ call[t].ceremony = c
                  \/ call[t].pc = "answered" /\ call[t].answer.ceremony = c
                  \/ call[t].pc \in {"registering", "challenging"}
                       /\ call[t].now < ceremonies[c].created
             \/ ceremonies' = [d \in CeremonyId |-> None]]_vars
=============================================================================
