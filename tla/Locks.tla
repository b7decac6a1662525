------------------------------- MODULE Locks -------------------------------
(***************************************************************************)
(* The locks of a running vault and the requests that nest them.  The       *)
(* vault has an authorization gate and an audit gate, its key ring and its  *)
(* root key are behind locks of their own, every call of the store holds    *)
(* the one database connection, the passkey ceremonies are behind a mutex   *)
(* and the readiness probe behind a semaphore of one permit.  A request is  *)
(* the sequence of the locks it takes and drops; what it does while it      *)
(* holds them is the subject of the other modules.                          *)
(*                                                                         *)
(* Calls of the store that follow each other directly stand as one, and the *)
(* body of a loop stands once: neither holds a lock from one call to the    *)
(* next.  A call that answers may always end its request early, with a      *)
(* result or with an error; the guards held then drop in reverse order, as  *)
(* Rust drops the locals of a function that returns.                        *)
(***************************************************************************)
EXTENDS Naturals, SequencesExt

CONSTANTS Thread,       \* the blocking threads that serve requests
          Request       \* the requests that arrive, names of Program

VARIABLES todo,         \* todo[t]: the steps left of the request of t
          guards        \* guards[t]: the guards t holds, in the order taken

vars == <<todo, guards>>

\* A guard or a request for one; a Mutex and the permit are only ever written.
Read(l) == [lock |-> l, mode |-> "read"]
Write(l) == [lock |-> l, mode |-> "write"]
Drop(l) == [lock |-> l, mode |-> "drop"]

-----------------------------------------------------------------------------
(* The calls requests are made of.                                          *)

\* A call of the store: SqliteStore::lock for the length of the call.
store_call == <<Write("connection"), Drop("connection")>>

\* A page of records: the identifiers are read under the connection, which is
\* released before each row is read by a call of its own.
secrets_after == store_call \o store_call

with_kek == <<Read("key_ring"), Drop("key_ring")>>
with_root_key == <<Read("root_key"), Drop("root_key")>>

\* install_active_kek and retire_kek.
install_active_kek == <<Write("key_ring"), Drop("key_ring")>>
replace_root_key == <<Write("root_key"), Drop("root_key")>>

\* build_audit_outcome: the audit gate, then the head of the chain.  The guard
\* stays in the PendingAudit it returns.
build_audit == <<Write("audit_gate")>> \o store_call

\* An operation that commits with its audit event: the guard of the pending
\* audit outlives the transaction.
audited(transaction) == build_audit \o transaction \o <<Drop("audit_gate")>>

take_ceremony == <<Write("ceremonies"), Drop("ceremonies")>>

\* (mutated: the decision takes the gate that its caller holds)
AuthorizeUnderGate ==
    <<Read("authorization_gate")>> \o store_call \o audited(store_call)
        \o <<Drop("authorization_gate")>>

\* authorize: the bindings and grants of a service, then the audited decision.
authorize == store_call \o audited(store_call)

\* An operation under the authorization gate: the caller is verified and
\* authorized once the gate is held, and the gate outlives the operation.
gated(guard, operation) ==
    <<guard>> \o store_call \o authorize \o operation
        \o <<Drop("authorization_gate")>>

Shared(operation) == gated(Read("authorization_gate"), operation)
Exclusive(operation) == gated(Write("authorization_gate"), operation)

-----------------------------------------------------------------------------
(* The requests.                                                            *)

\* The readiness probe keeps its permit while it asks the store.  (A client that
\* goes away drops it sooner, which only frees it.)
is_ready == <<Write("readiness_slot")>> \o store_call
                \o <<Drop("readiness_slot")>>

list_secrets == Shared(store_call \o secrets_after \o with_kek)
reveal_current_secret == Shared(store_call \o with_kek \o audited(store_call))

\* Two attempts; the one that met a conflict reads the secret again with its
\* audit guard still held, and drops it before the next.
update_secret ==
    LET attempt == audited(store_call \o store_call)
    IN  Shared(store_call \o with_kek \o attempt \o attempt)

\* create_policy and, without the key, archive_policy, add_policy_grant, bind,
\* move_namespace and revoke_application_credential.
create_policy == Exclusive(store_call \o with_kek \o audited(store_call))

\* logout verifies its session under the gate and asks for no authorization.
logout == <<Write("authorization_gate")>> \o store_call
              \o audited(store_call) \o <<Drop("authorization_gate")>>

\* A login, or a credential that is refused: an audited operation outside the
\* authorization gate.
create_browser_session == store_call \o audited(store_call)

start_registration == Shared(store_call \o take_ceremony)
finish_registration == Shared(take_ceremony \o audited(store_call))
start_authentication == store_call \o take_ceremony
finish_authentication == take_ceremony \o create_browser_session

\* The new key is installed in the ring before the audit guard drops.
start_kek_rotation ==
    store_call \o with_kek \o with_root_key
        \o audited(store_call \o install_active_kek)

\* A batch of wrappings, then the audited end of the rotation.
resume_kek_rotation ==
    store_call \o with_kek \o store_call
        \o audited(store_call \o install_active_kek)

rotate_root_provider ==
    store_call \o with_kek \o audited(store_call \o replace_root_key)

create_backup_file == store_call \o with_kek \o audited(store_call)

Program ==
    [is_ready |-> is_ready, list_secrets |-> list_secrets,
     reveal_current_secret |-> reveal_current_secret,
     update_secret |-> update_secret,
     create_policy |-> create_policy, logout |-> logout,
     create_browser_session |-> create_browser_session,
     start_registration |-> start_registration,
     finish_registration |-> finish_registration,
     start_authentication |-> start_authentication,
     finish_authentication |-> finish_authentication,
     start_kek_rotation |-> start_kek_rotation,
     resume_kek_rotation |-> resume_kek_rotation,
     rotate_root_provider |-> rotate_root_provider,
     create_backup_file |-> create_backup_file]

ASSUME RequestAssumption == Request \subseteq DOMAIN Program

-----------------------------------------------------------------------------
(* The threads.                                                             *)

Idle(t) == todo[t] = <<>>

\* The step t is at asks for a lock.
Waits(t) == ~Idle(t) /\ Head(todo[t]).mode # "drop"

Conflicts(g, h) == g.lock = h.lock /\ "write" \in {g.mode, h.mode}

\* The lock t waits for is held by u, which may be t itself, in a mode that
\* excludes it.
HeldBy(t, u) == \E g \in ToSet(guards[u]) : Conflicts(g, Head(todo[t]))

\* A writer that waits may keep new readers out: std::sync::RwLock leaves the
\* order to the platform, and on Linux writers go first.
Behind(t, u) ==
    /\ u # t
    /\ Waits(u)
    /\ Head(todo[t]).mode = "read"
    /\ Head(todo[u]) = Write(Head(todo[t]).lock)

Init ==
    /\ todo = [t \in Thread |-> <<>>]
    /\ guards = [t \in Thread |-> <<>>]

arrive(t) ==
    /\ Idle(t)
    /\ \E r \in Request : todo' = [todo EXCEPT ![t] = Program[r]]
    /\ UNCHANGED guards

lock(t) ==
    /\ Waits(t)
    /\ \A u \in Thread : ~HeldBy(t, u)
    /\ guards' = [guards EXCEPT ![t] = Append(@, Head(todo[t]))]
    /\ todo' = [todo EXCEPT ![t] = Tail(@)]

\* The guards still held, dropped last first.
Unwind(held) == [i \in 1 .. Len(held) |-> Drop(Reverse(held)[i].lock)]

\* A guard drops, and the request goes on or returns.
unlock(t) ==
    /\ ~Idle(t) /\ ~Waits(t)
    /\ LET Left(g) == g.lock # Head(todo[t]).lock
           held == SelectSeq(guards[t], Left)
       IN  /\ guards' = [guards EXCEPT ![t] = held]
           /\ \E rest \in {Tail(todo[t]), Unwind(held)} :
                  todo' = [todo EXCEPT ![t] = rest]

Next == \E t \in Thread : arrive(t) \/ lock(t) \/ unlock(t)

Spec == Init /\ [][Next]_vars

-----------------------------------------------------------------------------
(* Properties.                                                              *)

\* No threads wait for each other: of any threads that all wait, one waits for
\* a lock that none of them holds or is ahead for.  A thread that waits for a
\* lock of its own is such a set, and so are a request that would read a gate
\* again and the writer that came between.
NoDeadlock ==
    \A S \in SUBSET Thread :
        (S # {} /\ \A t \in S : Waits(t)) =>
            \E t \in S : \A u \in S : ~HeldBy(t, u) /\ ~Behind(t, u)

=============================================================================
