----------------------------- MODULE VaultReads -----------------------------
(***************************************************************************)
(* The reads of vault_core.rs that take more than one storage call, beside *)
(* the writers of VaultCore: a page of secrets (ids first, then each row), *)
(* the due-work query (a join first, then each row) and the verification   *)
(* of the audit chain (page by page, then the head).  They hold no lock    *)
(* between two calls and take no audit gate.                               *)
(***************************************************************************)
EXTENDS VaultCore

CONSTANTS
    Reader,         \* threads that serve these reads
    PageLength      \* audit events per page: 1000 in the code

ASSUME PageAssumption == PageLength \in Nat \ {0}

VARIABLES
    scan,       \* what a running read still has to do, or None
    outcome,    \* what the last read of each thread returned
    steady      \* history: secrets that kept the listed state since the call

readVars == <<scan, outcome, steady>>

InState(s, state) == secrets[s] # None /\ secrets[s].lifecycle_state = state

Start(d, work) ==
    /\ scan[d] = None
    /\ scan' = [scan EXCEPT ![d] = work]
    /\ outcome' = [outcome EXCEPT ![d] = None]

Return(d, result) ==
    /\ scan' = [scan EXCEPT ![d] = None]
    /\ outcome' = [outcome EXCEPT ![d] = result]

\* One more row is read; after the last one the page is returned.
Collect(d, rest, item) ==
    LET items == scan[d].items \union {item} IN
    IF rest = {}
    THEN Return(d, [status |-> scan[d].op, state |-> scan[d].state, items |-> items])
    ELSE /\ scan' = [scan EXCEPT ![d] = [@ EXCEPT !.todo = rest, !.items = items]]
         /\ UNCHANGED outcome

-----------------------------------------------------------------------------
\* list_secrets_in_lifecycle, secrets_in_lifecycle_after: the ids of a page.
list_secrets_in_lifecycle(d, state) ==
    LET ids == {s \in SecretId : InState(s, state)} IN
    /\ IF ids = {}
       THEN /\ scan[d] = None
            /\ Return(d, [status |-> "list", state |-> state, items |-> {}])
       ELSE Start(d, [op |-> "list", state |-> state, todo |-> ids, items |-> {}])
    /\ steady' = [steady EXCEPT ![d] = ids]
    /\ UNCHANGED vars

\* (mutated: a row that left the listed state ends the page)
list_row_or_stop(d) ==
    /\ scan[d] # None
    /\ scan[d].op = "list"
    /\ \E s \in scan[d].todo :
          IF ~InState(s, scan[d].state)
          THEN Return(d, [status |-> "list", state |-> scan[d].state,
                          items |-> scan[d].items])
          ELSE Collect(d, scan[d].todo \ {s},
                       [secret_id |-> s, lifecycle_state |-> secrets[s].lifecycle_state])
    /\ UNCHANGED <<vars, steady>>

\* The rows of the page, one Store::secret call each: a row that is gone
\* fails the whole page.
list_row(d) ==
    /\ scan[d] # None
    /\ scan[d].op = "list"
    /\ \E s \in scan[d].todo :
          IF secrets[s] = None
          THEN Return(d, [status |-> "not_found"])
          ELSE Collect(d, scan[d].todo \ {s},
                       [secret_id |-> s, lifecycle_state |-> secrets[s].lifecycle_state])
    /\ UNCHANGED <<vars, steady>>

\* scheduled_secrets_due: active secrets whose current version is due.
secrets_due(d) ==
    LET due == {s \in SecretId : /\ InState(s, "active")
                                 /\ versions[s][secrets[s].current_version].due}
    IN
    /\ IF due = {}
       THEN /\ scan[d] = None
            /\ Return(d, [status |-> "due", state |-> "active", items |-> {}])
       ELSE Start(d, [op |-> "due", state |-> "active", items |-> {},
                      todo |-> {[secret_id |-> s, version |-> secrets[s].current_version] :
                                s \in due}])
    /\ UNCHANGED <<vars, steady>>

\* secrets_due reads each row again and compares the version it was given.
due_row(d) ==
    /\ scan[d] # None
    /\ scan[d].op = "due"
    /\ \E w \in scan[d].todo :
          IF secrets[w.secret_id] = None
          THEN Return(d, [status |-> "not_found"])
          ELSE IF secrets[w.secret_id].current_version # w.version
          THEN Return(d, [status |-> "integrity", op |-> "due"])
          ELSE Collect(d, scan[d].todo \ {w}, w)
    /\ UNCHANGED <<vars, steady>>

-----------------------------------------------------------------------------
verify_audit_chain(d) ==
    /\ Start(d, [op |-> "verify", sequence |-> 0, previous |-> NoCommitment, last |-> FALSE])
    /\ UNCHANGED <<vars, steady>>

\* (mutated: LIMIT without WHERE sequence > n once a first page was read)
page_again(n) == SelectSeq(audit_events, LAMBDA e : e.sequence <= n + PageLength)

\* audit_records_after: WHERE sequence > n ORDER BY sequence LIMIT PageLength.
page_after(n) ==
    LET total == Len(audit_events)
        skipped == CHOOSE k \in 0..total :
                     \A i \in 1..total : audit_events[i].sequence > n <=> i > k
    IN SubSeq(audit_events, skipped + 1,
              IF skipped + PageLength < total THEN skipped + PageLength ELSE total)

\* One page: each event follows the one before it.  A short page is the last.
verify_page(d) ==
    LET w == scan[d]
        page == page_after(w.sequence)
        linked == \A i \in 1..Len(page) :
                    /\ page[i].sequence = w.sequence + i
                    /\ page[i].previous_commitment =
                         IF i = 1 THEN w.previous ELSE page[i - 1].commitment
    IN
    /\ w # None
    /\ w.op = "verify"
    /\ ~w.last
    /\ IF ~linked
       THEN Return(d, [status |-> "integrity", op |-> "verify"])
       ELSE /\ scan' = [scan EXCEPT ![d] =
                 [w EXCEPT !.sequence = @ + Len(page),
                           !.previous = IF page = <<>> THEN @
                                        ELSE page[Len(page)].commitment,
                           !.last = Len(page) < PageLength]]
            /\ UNCHANGED outcome
    /\ UNCHANGED <<vars, steady>>

\* The head must still be the last event verified.
verify_head(d) ==
    LET w == scan[d] IN
    /\ w # None
    /\ w.op = "verify"
    /\ w.last
    /\ \/ /\ audit_head.sequence = w.sequence /\ audit_head.commitment = w.previous
          /\ Return(d, [status |-> "verified", events_verified |-> w.sequence])
       \/ /\ ~(audit_head.sequence = w.sequence /\ audit_head.commitment = w.previous)
          /\ Return(d, [status |-> "conflict"])
    /\ UNCHANGED <<vars, steady>>

-----------------------------------------------------------------------------
ReadInit ==
    /\ Init
    /\ scan = [d \in Reader |-> None]
    /\ outcome = [d \in Reader |-> None]
    /\ steady = [d \in Reader |-> {}]

Reads(d) ==
    \/ \E state \in LifecycleState : list_secrets_in_lifecycle(d, state)
    \/ list_row(d)
    \/ secrets_due(d)
    \/ due_row(d)
    \/ verify_audit_chain(d)
    \/ verify_page(d)
    \/ verify_head(d)

\* A step of a writer: a listed secret stays steady while it keeps its state.
Writes ==
    /\ \E r \in Request : Arrive(r) \/ Step(r)
    /\ steady' = [d \in Reader |->
          IF scan[d] = None \/ scan[d].op # "list" THEN steady[d]
          ELSE {s \in steady[d] : secrets'[s] # None
                                  /\ secrets'[s].lifecycle_state = scan[d].state}]
    /\ UNCHANGED <<scan, outcome>>

ReadNext == Writes \/ \E d \in Reader : Reads(d)

ReadSpec == ReadInit /\ [][ReadNext]_<<vars, readVars>>

-----------------------------------------------------------------------------
\* A page that was returned holds every secret that was in the listed state
\* during the whole call, whatever happened to the others meanwhile.
ListComplete ==
    \A d \in Reader :
        outcome[d] # None /\ outcome[d].status = "list" =>
            steady[d] \subseteq {i.secret_id : i \in outcome[d].items}

\* verify_audit_chain does not take events appended between two of its pages
\* for tampering: on a log nobody tampered with it never answers Integrity.
NoFalseTamperAlarm ==
    \A d \in Reader :
        outcome[d] # None /\ outcome[d].status = "integrity" => outcome[d].op # "verify"

\* VaultError::Integrity says "Protected data or its bound context did not
\* authenticate": it is not returned while all stored data is intact.  secrets_due
\* does return it, when an update lands between its two reads (README, Observations).
IntegrityMeansTampering ==
    \A d \in Reader : outcome[d] # None => outcome[d].status # "integrity"
=============================================================================
