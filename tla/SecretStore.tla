---------------------------- MODULE SecretStore ----------------------------
(***************************************************************************)
(* What the vault core promises its callers, without threads, gates or     *)
(* transactions: a secret is a name, a lifecycle state, a revision and the *)
(* sequence of the values it ever had.  Every operation happens at one     *)
(* instant, on the state its caller named, and leaves one line in a log.   *)
(***************************************************************************)
EXTENDS Integers, Sequences

CONSTANTS SecretId, Name, Payload, None,
    Counter     \* the versions and revisions a caller may name

VARIABLES
    secret,     \* secret id -> record or None
    retired,    \* ids that were purged
    log         \* <<action, secret id>> in the order things happened

Live(s) == secret[s] # None

Record(action, s) == log' = Append(log, <<action, s>>)

Create(s, n, p) ==
    /\ ~Live(s)
    /\ \A t \in SecretId : Live(t) => secret[t].name # n
    /\ secret' = [secret EXCEPT ![s] =
            [name |-> n, state |-> "active", revision |-> 1, values |-> <<p>>]]
    /\ Record("secret:create", s)
    /\ UNCHANGED retired

\* The new value follows the value and the revision the caller has seen.
Update(s, ver, rev, p) ==
    /\ Live(s)
    /\ secret[s].state = "active"
    /\ secret[s].revision = rev
    /\ Len(secret[s].values) = ver
    /\ secret' = [secret EXCEPT ![s] =
            [name |-> secret[s].name, state |-> "active", revision |-> rev + 1,
             values |-> Append(secret[s].values, p)]]
    /\ Record("secret:update", s)
    /\ UNCHANGED retired

Move(s, rev, action, from, to) ==
    /\ Live(s)
    /\ secret[s].state = from
    /\ secret[s].revision = rev
    /\ secret' = [secret EXCEPT ![s] =
            [name |-> secret[s].name, state |-> to, revision |-> rev + 1,
             values |-> secret[s].values]]
    /\ Record(action, s)
    /\ UNCHANGED retired

Purge(s, rev) ==
    /\ Live(s)
    /\ secret[s].state = "deleted"
    /\ secret[s].revision = rev
    /\ s \notin retired
    /\ secret' = [secret EXCEPT ![s] = None]
    /\ retired' = retired \union {s}
    /\ Record("secret:purge", s)

\* A value was handed out.
Reveal(s) ==
    /\ \E action \in {"secret:value-read", "secret:version-read"} : Record(action, s)
    /\ UNCHANGED <<secret, retired>>

Init ==
    /\ secret = [s \in SecretId |-> None]
    /\ retired = {}
    /\ log = <<>>

Happens ==
    \E s \in SecretId :
        \/ \E n \in Name, p \in Payload : Create(s, n, p)
        \/ \E ver, rev \in Counter, p \in Payload : Update(s, ver, rev, p)
        \/ \E rev \in Counter :
              \/ Move(s, rev, "secret:archive", "active", "archived")
              \/ Move(s, rev, "secret:restore", "archived", "active")
              \/ Move(s, rev, "secret:delete", "active", "deleted")
              \/ Purge(s, rev)
        \/ Reveal(s)

\* Nothing happens that the log does not show.
Next == log' # log /\ Happens

Spec == Init /\ [][Next]_<<secret, retired, log>>
=============================================================================
