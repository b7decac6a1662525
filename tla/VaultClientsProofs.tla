------------------------ MODULE VaultClientsProofs -------------------------
(***************************************************************************)
(* Proofs about what runs on top of the vault core without its locks: the  *)
(* reads of several storage calls (module VaultReads) and the retry-safe   *)
(* creation (module Idempotency).                                          *)
(***************************************************************************)
EXTENDS VaultReads, Idempotency, VaultCoreProofs

\* The time each prover may take for a step.
USE ZenonT(60), SMTT(60)

-----------------------------------------------------------------------------
(* What the core's steps leave to those who read beside it.                *)

\* The log only grows, by one event at a time.
LEMMA LogGrows ==
    ASSUME TypeInv, [Next]_vars
    PROVE  \/ audit_events' = audit_events
           \/ \E e \in Event : audit_events' = Append(audit_events, e)
  <1>1. CASE Crash \/ UNCHANGED vars
    BY <1>1 DEF Crash, vars, store
  <1>2. ASSUME NEW r \in Request, Arrive(r)
        PROVE  UNCHANGED audit_events
    BY <1>2, ArriveShape
  <1>3. ASSUME NEW r \in Request, encrypted_secret_version(r) \/ build_audit(r)
        PROVE  UNCHANGED audit_events
    BY <1>3 DEF encrypted_secret_version, build_audit, store
  <1>4. ASSUME NEW r \in Request, Transaction(r)
        PROVE  \/ audit_events' = audit_events
               \/ \E e \in Event : audit_events' = Append(audit_events, e)
    <2>1. pending[r] \in Event
      BY <1>4, Outcomes DEF TypeInv, TypeOK
    <2>2. insert_audit(pending[r]) \/ UNCHANGED audit_events
      BY <1>4, Outcomes DEF Created, Updated, Changed, Purged, Revealed, Failed,
         Retried, Wrote, store
    <2> QED
      BY <2>1, <2>2 DEF insert_audit
  <1> QED
    BY <1>1, <1>2, <1>3, <1>4 DEF Next, Step, Transaction

-----------------------------------------------------------------------------
(* A page of secrets.                                                      *)

\* The ids a running list has still to read, and those it has read.
Listed(items) == {i.secret_id : i \in items}

\* While the page is collected, what kept its state is read or will be.
ListPending ==
    \A d \in Reader :
        scan[d] # None /\ scan[d].op = "list" =>
            steady[d] \subseteq scan[d].todo \union Listed(scan[d].items)

\* What a running read keeps: the rest of a page, or the end of a chain.
PageWork(op, state, todo, items) == [op |-> op, state |-> state, todo |-> todo, items |-> items]
ChainWork(sequence, previous, last) ==
    [op |-> "verify", sequence |-> sequence, previous |-> previous, last |-> last]

ScanShape(w) ==
    \/ w = None
    \/ w.op \in {"list", "due"} /\ w = PageWork(w.op, w.state, w.todo, w.items)
    \/ w.op = "verify" /\ w = ChainWork(w.sequence, w.previous, w.last)

ReadersKnown ==
    /\ scan = [d \in Reader |-> scan[d]] /\ \A d \in Reader : ScanShape(scan[d])
    /\ outcome = [d \in Reader |-> outcome[d]]
    /\ steady = [d \in Reader |-> steady[d]]

ListInv == ReadersKnown /\ ListPending /\ ListComplete

\* The updates of Collect and of verify_page.
Collected(w, rest, more) == [w EXCEPT !.todo = rest, !.items = more]
Verified(w, s, p, l) == [w EXCEPT !.sequence = s, !.previous = p, !.last = l]

LEMMA PageWorkWith ==
    ASSUME NEW w, w = PageWork(w.op, w.state, w.todo, w.items), NEW rest, NEW more
    PROVE  Collected(w, rest, more) = PageWork(w.op, w.state, rest, more)
  <1> DEFINE next == [w EXCEPT !.todo = rest, !.items = more]
             fields == {"op", "state", "todo", "items"}
  <1>1. next.op = w.op /\ next.state = w.state /\ next.todo = rest /\ next.items = more
    BY DEF PageWork
  <1>2. next = [i \in fields |-> next[i]]
    BY DEF PageWork
  <1> HIDE DEF next
  <1>3. next = PageWork(w.op, w.state, rest, more)
    BY <1>1, <1>2 DEF PageWork
  <1> QED
    BY <1>3 DEF next, Collected

LEMMA ChainWorkWith ==
    ASSUME NEW w, w = ChainWork(w.sequence, w.previous, w.last), NEW s, NEW p, NEW l
    PROVE  Verified(w, s, p, l) = ChainWork(s, p, l)
  <1> DEFINE next == [w EXCEPT !.sequence = s, !.previous = p, !.last = l]
             fields == {"op", "sequence", "previous", "last"}
  <1>1. next.op = "verify" /\ next.sequence = s /\ next.previous = p /\ next.last = l
    BY SMTT(60) DEF ChainWork
  <1>2. next = [i \in fields |-> next[i]]
    BY DEF ChainWork
  <1> HIDE DEF next
  <1>3. next = ChainWork(s, p, l)
    BY <1>1, <1>2 DEF ChainWork
  <1> QED
    BY <1>3 DEF next, Verified

LEMMA InitListInv == ReadInit => ListInv
  BY DEF ScanShape, ReadInit, ListInv, ReadersKnown, ListPending, ListComplete

\* The steps of one reader leave the others alone.
LEMMA OneReader ==
    ASSUME ListInv, NEW d \in Reader, NEW work, NEW result, NEW kept,
           scan' = [scan EXCEPT ![d] = work], outcome' = [outcome EXCEPT ![d] = result],
           steady' = [steady EXCEPT ![d] = kept],
           ScanShape(work),
           work # None /\ work.op = "list" => kept \subseteq work.todo \union Listed(work.items),
           result # None /\ result.status = "list" => kept \subseteq Listed(result.items)
    PROVE  ListInv'
  BY DEF ListInv, ReadersKnown, ListPending, ListComplete, Listed

LEMMA SameSteady ==
    ASSUME ListInv, NEW d \in Reader, UNCHANGED steady
    PROVE  steady' = [steady EXCEPT ![d] = steady[d]]
  BY DEF ListInv, ReadersKnown

\* A row of the page is read: its id goes from the rest to the items.
LEMMA Collecting ==
    ASSUME ListInv, NEW d \in Reader, UNCHANGED steady, NEW s, NEW item,
           scan[d] # None, scan[d].op = "list", s \in scan[d].todo, item.secret_id = s,
           Collect(d, scan[d].todo \ {s}, item)
    PROVE  ListInv'
  <1> DEFINE w == scan[d]
             rest == w.todo \ {s}
             items == w.items \union {item}
             page == [status |-> "list", state |-> w.state, items |-> items]
             work == PageWork("list", w.state, rest, items)
  <1>1. steady[d] \subseteq rest \union Listed(items)
    BY SMTT(60) DEF ListInv, ListPending, Listed
  <1>2. page.items = items /\ work.todo = rest /\ work.items = items /\ ScanShape(work)
    BY DEF PageWork, ScanShape
  <1>3. Collected(w, rest, items) = work
    <2>1. w = PageWork(w.op, w.state, w.todo, w.items) /\ w.op = "list"
      BY DEF ListInv, ReadersKnown, ScanShape
    <2> HIDE DEF w, rest, items
    <2> QED
      BY <2>1, PageWorkWith, SMTT(60)
  <1>4. \/ rest = {} /\ scan' = [scan EXCEPT ![d] = None] /\ outcome' = [outcome EXCEPT ![d] = page]
        \/ scan' = [scan EXCEPT ![d] = work] /\ UNCHANGED outcome
    <2>1. scan' = [scan EXCEPT ![d] = [@ EXCEPT !.todo = rest, !.items = items]] =>
            scan' = [scan EXCEPT ![d] = work]
      BY <1>3 DEF Collected
    <2> QED
      BY <2>1 DEF Collect, Return
  <1> HIDE DEF page, work, items
  <1>5. CASE rest = {} /\ scan' = [scan EXCEPT ![d] = None] /\ outcome' = [outcome EXCEPT ![d] = page]
    <2>1. steady[d] \subseteq Listed(page.items)
      BY <1>1, <1>2, <1>5
    <2>2. ScanShape(None)
      BY DEF ScanShape
    <2> QED
      BY <1>5, <2>1, <2>2, OneReader, SameSteady
  <1>6. CASE scan' = [scan EXCEPT ![d] = work] /\ UNCHANGED outcome
    <2>1. steady[d] \subseteq work.todo \union Listed(work.items)
      BY <1>1, <1>2
    <2>2. outcome' = [outcome EXCEPT ![d] = outcome[d]]
      BY <1>6 DEF ListInv, ReadersKnown
    <2>3. outcome[d] # None /\ outcome[d].status = "list" => steady[d] \subseteq Listed(outcome[d].items)
      BY DEF ListInv, ListComplete, Listed
    <2>4. steady' = [steady EXCEPT ![d] = steady[d]]
      BY SameSteady
    <2> QED
      BY <1>2, <1>6, <2>1, <2>2, <2>3, <2>4, OneReader
  <1> QED
    BY <1>4, <1>5, <1>6

\* The page follows what was verified; what is verified behind the page.
Linked(w, page) ==
    \A i \in 1..Len(page) :
        /\ page[i].sequence = w.sequence + i
        /\ page[i].previous_commitment = IF i = 1 THEN w.previous ELSE page[i - 1].commitment
Behind(w, page) ==
    ChainWork(w.sequence + Len(page),
              IF page = <<>> THEN w.previous ELSE page[Len(page)].commitment,
              Len(page) < PageLength)

\* verify_page answers Integrity, or goes on behind the events of the page.
LEMMA PageVerified ==
    ASSUME ListInv, NEW d \in Reader, verify_page(d), NEW page, page = page_after(scan[d].sequence)
    PROVE  /\ scan[d] # None /\ scan[d].op = "verify" /\ UNCHANGED <<vars, steady>>
           /\ \/ ~Linked(scan[d], page) /\ Return(d, [status |-> "integrity", op |-> "verify"])
              \/ /\ Linked(scan[d], page)
                 /\ scan' = [scan EXCEPT ![d] = Behind(scan[d], page)] /\ UNCHANGED outcome
  <1> DEFINE w == scan[d]
             s == w.sequence + Len(page)
             p == IF page = <<>> THEN w.previous ELSE page[Len(page)].commitment
             l == Len(page) < PageLength
  <1>1. w = ChainWork(w.sequence, w.previous, w.last) /\ w # None /\ w.op = "verify"
    BY DEF verify_page, ListInv, ReadersKnown, ScanShape
  <1>2. Verified(w, s, p, l) = ChainWork(s, p, l)
    <2> HIDE DEF w, s, p, l
    <2> QED
      BY <1>1, ChainWorkWith, SMTT(60)
  <1> QED
    BY <1>1, <1>2 DEF verify_page, Linked, Behind, Verified

\* What a read that is not a list may do to its entries.
Otherwise(d) ==
    \E work, result :
        /\ scan' = [scan EXCEPT ![d] = work] /\ ScanShape(work)
        /\ work # None => work.op # "list"
        /\ outcome' = [outcome EXCEPT ![d] = result]
        /\ result = outcome[d] \/ result = None \/ result.status # "list"

\* A read that is not a list returns no page, and stays what it is.
LEMMA OtherReads ==
    ASSUME ListInv, NEW d \in Reader,
           secrets_due(d) \/ due_row(d) \/ verify_audit_chain(d) \/ verify_page(d) \/ verify_head(d)
    PROVE  Otherwise(d)
  <1>1. ASSUME NEW result, result.status # "list", Return(d, result)
        PROVE  Otherwise(d)
    BY <1>1 DEF Return, Otherwise, ScanShape
  <1>2. ASSUME NEW work, work.op # "list", ScanShape(work), Start(d, work)
        PROVE  Otherwise(d)
    BY <1>2 DEF Start, Otherwise
  <1>3. ASSUME NEW work, work.op # "list", ScanShape(work), scan' = [scan EXCEPT ![d] = work],
               UNCHANGED outcome
        PROVE  Otherwise(d)
    <2>1. outcome' = [outcome EXCEPT ![d] = outcome[d]]
      BY <1>3 DEF ListInv, ReadersKnown
    <2> QED
      BY <1>3, <2>1 DEF Otherwise
  <1>4. CASE secrets_due(d)
    <2>1. \/ Return(d, [status |-> "due", state |-> "active", items |-> {}])
          \/ \E todo : Start(d, [op |-> "due", state |-> "active", items |-> {}, todo |-> todo])
      BY <1>4 DEF secrets_due
    <2>2. CASE Return(d, [status |-> "due", state |-> "active", items |-> {}])
      BY <1>1, <2>2
    <2>3. ASSUME NEW todo, Start(d, [op |-> "due", state |-> "active", items |-> {}, todo |-> todo])
          PROVE  Otherwise(d)
      <3> DEFINE work == [op |-> "due", state |-> "active", items |-> {}, todo |-> todo]
      <3>1. work.op # "list" /\ ScanShape(work)
        BY DEF ScanShape, PageWork
      <3> HIDE DEF work
      <3> QED
        BY <1>2, <2>3, <3>1 DEF work
    <2> QED
      BY <2>1, <2>2, <2>3
  <1>5. CASE due_row(d)
    <2>1. scan[d].op = "due"
      BY <1>5 DEF due_row
    <2>2. ASSUME NEW rest, NEW item, Collect(d, rest, item)
          PROVE  Otherwise(d)
      <3> DEFINE w == scan[d]
                 items == w.items \union {item}
                 page == [status |-> w.op, state |-> w.state, items |-> items]
                 work == PageWork("due", w.state, rest, items)
      <3>1. Collected(w, rest, items) = work
        <4>1. w = PageWork(w.op, w.state, w.todo, w.items) /\ w.op = "due"
          BY <1>5, <2>1 DEF due_row, ListInv, ReadersKnown, ScanShape
        <4> HIDE DEF w, items
        <4> QED
          BY <4>1, PageWorkWith
      <3>2. \/ Return(d, page)
            \/ scan' = [scan EXCEPT ![d] = work] /\ UNCHANGED outcome
        BY <2>2, <3>1 DEF Collect, Collected
      <3>3. page.status # "list" /\ work.op # "list" /\ ScanShape(work)
        BY <2>1 DEF PageWork, ScanShape
      <3> HIDE DEF page, work
      <3> QED
        BY <1>1, <1>3, <3>2, <3>3
    <2>3. \/ Return(d, [status |-> "not_found"])
          \/ Return(d, [status |-> "integrity", op |-> "due"])
          \/ \E rest, item : Collect(d, rest, item)
      BY <1>5 DEF due_row
    <2>4. CASE Return(d, [status |-> "not_found"])
      BY <1>1, <2>4
    <2>5. CASE Return(d, [status |-> "integrity", op |-> "due"])
      BY <1>1, <2>5
    <2> QED
      BY <2>2, <2>3, <2>4, <2>5
  <1>6. CASE verify_audit_chain(d)
    <2> DEFINE work == ChainWork(0, NoCommitment, FALSE)
    <2>1. work.op # "list" /\ ScanShape(work)
      BY DEF ChainWork, ScanShape
    <2>2. Start(d, work)
      BY <1>6 DEF verify_audit_chain, ChainWork
    <2> HIDE DEF work
    <2> QED
      BY <1>2, <2>1, <2>2
  <1>7. CASE verify_page(d)
    <2>1. CASE Return(d, [status |-> "integrity", op |-> "verify"])
      BY <1>1, <2>1
    <2> DEFINE work == Behind(scan[d], page_after(scan[d].sequence))
    <2>2. work.op # "list" /\ ScanShape(work)
      BY DEF Behind, ChainWork, ScanShape
    <2> HIDE DEF work
    <2>3. CASE scan' = [scan EXCEPT ![d] = work] /\ UNCHANGED outcome
      BY <1>3, <2>2, <2>3
    <2> QED
      BY <1>7, <2>1, <2>3, PageVerified DEF work
  <1>8. CASE verify_head(d)
    <2>1. \/ \E n : Return(d, [status |-> "verified", events_verified |-> n])
          \/ Return(d, [status |-> "conflict"])
      BY <1>8 DEF verify_head
    <2>2. ASSUME NEW n, Return(d, [status |-> "verified", events_verified |-> n])
          PROVE  Otherwise(d)
      BY <1>1, <2>2
    <2>3. CASE Return(d, [status |-> "conflict"])
      BY <1>1, <2>3
    <2> QED
      BY <2>1, <2>2, <2>3
  <1> QED
    BY <1>4, <1>5, <1>6, <1>7, <1>8

\* Every step keeps the lists complete.
LEMMA ListKept ==
    ASSUME ListInv, [ReadNext]_<<vars, readVars>>
    PROVE  ListInv'
  <1>1. CASE UNCHANGED <<vars, readVars>>
    BY <1>1 DEF readVars, ListInv, ReadersKnown, ListPending, ListComplete
  <1>2. CASE Writes
    <2>1. /\ UNCHANGED <<scan, outcome>>
          /\ steady' = [d \in Reader |-> steady'[d]] /\ \A d \in Reader : steady'[d] \subseteq steady[d]
      BY <1>2 DEF Writes
    <2> QED
      BY <2>1 DEF ListInv, ReadersKnown, ListPending, ListComplete
  <1>3. ASSUME NEW d \in Reader, Reads(d)
        PROVE  ListInv'
    <2>1. ASSUME NEW state \in LifecycleState, list_secrets_in_lifecycle(d, state)
          PROVE  ListInv'
      <3> DEFINE ids == {s \in SecretId : InState(s, state)}
                 page == [status |-> "list", state |-> state, items |-> {}]
                 work == [op |-> "list", state |-> state, todo |-> ids, items |-> {}]
      <3>1. steady' = [steady EXCEPT ![d] = ids] /\ page.items = {} /\ work.todo = ids
        BY <2>1 DEF list_secrets_in_lifecycle
      <3>2. \/ ids = {} /\ scan' = [scan EXCEPT ![d] = None] /\ outcome' = [outcome EXCEPT ![d] = page]
            \/ scan' = [scan EXCEPT ![d] = work] /\ outcome' = [outcome EXCEPT ![d] = None]
        BY <2>1 DEF list_secrets_in_lifecycle, Start, Return
      <3>3. ScanShape(None) /\ ScanShape(work)
        BY DEF ScanShape, PageWork
      <3> HIDE DEF ids, page, work
      <3>4. CASE ids = {} /\ scan' = [scan EXCEPT ![d] = None] /\ outcome' = [outcome EXCEPT ![d] = page]
        <4>1. ids \subseteq Listed(page.items)
          BY <3>4
        <4> QED
          BY <3>1, <3>3, <3>4, <4>1, OneReader
      <3>5. CASE scan' = [scan EXCEPT ![d] = work] /\ outcome' = [outcome EXCEPT ![d] = None]
        <4>1. ids \subseteq work.todo \union Listed(work.items)
          BY <3>1
        <4> QED
          BY <3>1, <3>3, <3>5, <4>1, OneReader
      <3> QED
        BY <3>2, <3>4, <3>5
    <2>2. CASE list_row(d)
      <3>1. UNCHANGED steady /\ scan[d] # None /\ scan[d].op = "list"
        BY <2>2 DEF list_row
      <3>2. PICK s \in scan[d].todo :
              IF secrets[s] = None
              THEN Return(d, [status |-> "not_found"])
              ELSE Collect(d, scan[d].todo \ {s},
                           [secret_id |-> s, lifecycle_state |-> secrets[s].lifecycle_state])
        BY <2>2 DEF list_row
      <3>3. CASE secrets[s] = None
        <4> DEFINE result == [status |-> "not_found"]
        <4>1. result.status # "list" /\ ScanShape(None)
          BY DEF ScanShape
        <4>2. scan' = [scan EXCEPT ![d] = None] /\ outcome' = [outcome EXCEPT ![d] = result]
          BY <3>2, <3>3 DEF Return
        <4> HIDE DEF result
        <4> QED
          BY <3>1, <4>1, <4>2, OneReader, SameSteady
      <3>4. CASE secrets[s] # None
        <4> DEFINE item == [secret_id |-> s, lifecycle_state |-> secrets[s].lifecycle_state]
        <4>1. item.secret_id = s /\ Collect(d, scan[d].todo \ {s}, item)
          BY <3>2, <3>4
        <4> HIDE DEF item
        <4> QED
          BY <3>1, <3>2, <4>1, Collecting
      <3> QED
        BY <3>3, <3>4
    <2>3. CASE secrets_due(d) \/ due_row(d) \/ verify_audit_chain(d) \/ verify_page(d) \/ verify_head(d)
      <3>1. UNCHANGED steady
        BY <2>3 DEF secrets_due, due_row, verify_audit_chain, verify_page, verify_head
      <3>2. outcome[d] # None /\ outcome[d].status = "list" => steady[d] \subseteq Listed(outcome[d].items)
        BY DEF ListInv, ListComplete, Listed
      <3>3. Otherwise(d)
        BY <2>3, OtherReads
      <3>4. steady' = [steady EXCEPT ![d] = steady[d]]
        BY <3>1, SameSteady
      <3>5. PICK work, result :
              /\ scan' = [scan EXCEPT ![d] = work] /\ ScanShape(work)
              /\ work # None => work.op # "list"
              /\ outcome' = [outcome EXCEPT ![d] = result]
              /\ result = outcome[d] \/ result = None \/ result.status # "list"
        BY <3>3 DEF Otherwise
      <3>6. result # None /\ result.status = "list" => steady[d] \subseteq Listed(result.items)
        BY <3>2, <3>5
      <3> QED
        BY <3>4, <3>5, <3>6, OneReader
    <2> QED
      BY <1>3, <2>1, <2>2, <2>3 DEF Reads
  <1> QED
    BY <1>1, <1>2, <1>3 DEF ReadNext

\* list_secrets_in_lifecycle over the writers of VaultCore, whatever they do
\* between the ids and the rows of a page: no secret that keeps its state is
\* missing from the page.
THEOREM ListsAreComplete == ReadSpec => []ListComplete
<1>1. ReadSpec => []ListInv
  BY InitListInv, ListKept, PTL DEF ReadSpec
<1> QED
  BY <1>1, PTL DEF ListInv

-----------------------------------------------------------------------------
(* The verification of the audit chain.                                    *)

\* The commitment of the event with this sequence.
CommitmentAt(log, n) == IF n = 0 THEN NoCommitment ELSE log[n].commitment

\* What a running verification has verified is the start of the log.
VerifiedPrefix(w, log) ==
    w.sequence \in 0..Len(log) /\ w.previous = CommitmentAt(log, w.sequence)

VerifyBehind ==
    \A d \in Reader :
        scan[d] # None /\ scan[d].op = "verify" => VerifiedPrefix(scan[d], audit_events)

VerifyInv == ListInv /\ TypeInv /\ AuditInv /\ VerifyBehind /\ NoFalseTamperAlarm

\* A page holds the events behind n, up to PageLength of them.
LEMMA PageAfter ==
    ASSUME TypeInv, AuditChained, NEW n \in 0..Len(audit_events), NEW page, page = page_after(n)
    PROVE  /\ Len(page) \in Nat /\ n + Len(page) \in 0..Len(audit_events)
           /\ (page = <<>> <=> Len(page) = 0)
           /\ \A i \in 1..Len(page) : page[i] = audit_events[n + i]
  <1> DEFINE total == Len(audit_events)
             Splits(k) == \A i \in 1..total : audit_events[i].sequence > n <=> i > k
             skipped == CHOOSE k \in 0..total : Splits(k)
  <1>1. audit_events \in Seq(Event) /\ total \in Nat
    BY SMTT(60) DEF TypeInv, TypeOK
  <1>2. \A i \in 1..total : audit_events[i].sequence = i
    BY DEF AuditChained
  <1>3. Splits(n)
    BY <1>2
  <1>4. ASSUME NEW k \in 0..total, Splits(k)
        PROVE  k = n
    <2>1. CASE k < n
      <3>1. k + 1 \in 1..total /\ k + 1 > k /\ ~(k + 1 > n)
        BY <1>1, <2>1, SMTT(60)
      <3> QED
        BY <1>2, <1>4, <3>1
    <2>2. CASE k > n
      <3>1. n + 1 \in 1..total /\ n + 1 > n /\ ~(n + 1 > k)
        BY <1>1, <2>2, SMTT(60)
      <3> QED
        BY <1>2, <1>4, <3>1
    <2> QED
      BY <1>1, <2>1, <2>2, SMTT(60)
  <1>5. skipped = n
    <2> HIDE DEF Splits
    <2> QED
      BY <1>3, <1>4
  <1> DEFINE end == IF n + PageLength < total THEN n + PageLength ELSE total
  <1>6. page = SubSeq(audit_events, n + 1, end)
    <2>1. page = SubSeq(audit_events, skipped + 1,
                        IF skipped + PageLength < total THEN skipped + PageLength ELSE total)
      BY DEF page_after
    <2> HIDE DEF skipped
    <2> QED
      BY <1>5, <2>1
  <1>7. end \in n..total
    BY <1>1, PageAssumption, SMTT(60)
  <1> HIDE DEF end, skipped
  <1> QED
    BY <1>1, <1>6, <1>7, SMTT(60)

\* The steps of one reader leave the others alone, and the log.
LEMMA OneVerifier ==
    ASSUME ListInv, VerifyBehind, NoFalseTamperAlarm, UNCHANGED audit_events,
           NEW d \in Reader, NEW work, NEW result,
           scan' = [scan EXCEPT ![d] = work], outcome' = [outcome EXCEPT ![d] = result],
           work # None /\ work.op = "verify" => VerifiedPrefix(work, audit_events),
           result # None /\ result.status = "integrity" => result.op # "verify"
    PROVE  VerifyBehind' /\ NoFalseTamperAlarm'
  BY DEF ListInv, ReadersKnown, VerifyBehind, NoFalseTamperAlarm, VerifiedPrefix, CommitmentAt

\* What a read that is not a verification may do to its entries.
PageRead(d) ==
    \E work, result :
        /\ scan' = [scan EXCEPT ![d] = work]
        /\ work # None => work.op # "verify"
        /\ outcome' = [outcome EXCEPT ![d] = result]
        /\ \/ result = outcome[d] \/ result = None
           \/ result.status # "integrity" \/ result.op # "verify"

\* A read of rows says nothing of the chain.
LEMMA PageReads ==
    ASSUME ListInv, NEW d \in Reader,
           \/ \E state \in LifecycleState : list_secrets_in_lifecycle(d, state)
           \/ list_row(d) \/ secrets_due(d) \/ due_row(d)
    PROVE  PageRead(d) /\ UNCHANGED vars
  <1>1. ASSUME NEW result, result.status # "integrity" \/ result.op # "verify", Return(d, result)
        PROVE  PageRead(d)
    BY <1>1 DEF Return, PageRead
  <1>2. ASSUME NEW op \in {"list", "due"}, NEW state, NEW todo,
               \/ Start(d, [op |-> op, state |-> state, items |-> {}, todo |-> todo])
               \/ Start(d, [op |-> op, state |-> state, todo |-> todo, items |-> {}])
        PROVE  PageRead(d)
    <2> DEFINE work == PageWork(op, state, todo, {})
    <2>1. work.op # "verify"
      BY DEF PageWork
    <2>2. Start(d, work)
      BY <1>2 DEF PageWork
    <2> HIDE DEF work
    <2> QED
      BY <2>1, <2>2 DEF Start, PageRead
  <1>3. ASSUME scan[d] # None, scan[d].op \in {"list", "due"}, NEW rest, NEW item, Collect(d, rest, item)
        PROVE  PageRead(d)
    <2> DEFINE w == scan[d]
               items == w.items \union {item}
               page == [status |-> w.op, state |-> w.state, items |-> items]
               work == PageWork(w.op, w.state, rest, items)
    <2>1. Collected(w, rest, items) = work
      <3>1. w = PageWork(w.op, w.state, w.todo, w.items)
        BY <1>3 DEF ListInv, ReadersKnown, ScanShape
      <3> HIDE DEF w, items
      <3> QED
        BY <3>1, PageWorkWith
    <2>2. \/ Return(d, page)
          \/ scan' = [scan EXCEPT ![d] = work] /\ UNCHANGED outcome
      BY <1>3, <2>1 DEF Collect, Collected
    <2>3. page.status # "integrity" /\ work.op # "verify"
      BY <1>3 DEF PageWork
    <2>4. UNCHANGED outcome => outcome' = [outcome EXCEPT ![d] = outcome[d]]
      BY DEF ListInv, ReadersKnown
    <2> HIDE DEF page, work
    <2>5. CASE Return(d, page)
      BY <1>1, <2>3, <2>5
    <2>6. CASE scan' = [scan EXCEPT ![d] = work] /\ UNCHANGED outcome
      BY <2>3, <2>4, <2>6 DEF PageRead
    <2> QED
      BY <2>2, <2>5, <2>6
  <1>4. ASSUME NEW state \in LifecycleState, list_secrets_in_lifecycle(d, state)
        PROVE  PageRead(d) /\ UNCHANGED vars
    <2>1. CASE Return(d, [status |-> "list", state |-> state, items |-> {}])
      BY <1>1, <1>4, <2>1 DEF list_secrets_in_lifecycle
    <2>2. CASE \E todo : Start(d, [op |-> "list", state |-> state, todo |-> todo, items |-> {}])
      BY <1>2, <1>4, <2>2 DEF list_secrets_in_lifecycle
    <2> QED
      BY <1>4, <2>1, <2>2 DEF list_secrets_in_lifecycle
  <1>5. CASE list_row(d)
    <2>1. CASE Return(d, [status |-> "not_found"])
      BY <1>1, <1>5, <2>1 DEF list_row
    <2>2. CASE \E rest, item : Collect(d, rest, item)
      BY <1>3, <1>5, <2>2 DEF list_row
    <2> QED
      BY <1>5, <2>1, <2>2 DEF list_row
  <1>6. CASE secrets_due(d)
    <2>1. CASE Return(d, [status |-> "due", state |-> "active", items |-> {}])
      BY <1>1, <1>6, <2>1 DEF secrets_due
    <2>2. CASE \E todo : Start(d, [op |-> "due", state |-> "active", items |-> {}, todo |-> todo])
      BY <1>2, <1>6, <2>2 DEF secrets_due
    <2> QED
      BY <1>6, <2>1, <2>2 DEF secrets_due
  <1>7. CASE due_row(d)
    <2>1. CASE Return(d, [status |-> "not_found"])
      BY <1>1, <1>7, <2>1 DEF due_row
    <2>2. CASE Return(d, [status |-> "integrity", op |-> "due"])
      BY <1>1, <1>7, <2>2 DEF due_row
    <2>3. CASE \E rest, item : Collect(d, rest, item)
      BY <1>3, <1>7, <2>3 DEF due_row
    <2> QED
      BY <1>7, <2>1, <2>2, <2>3 DEF due_row
  <1> QED
    BY <1>4, <1>5, <1>6, <1>7

\* A verification only sees events that follow what it has verified.
LEMMA VerifyReads ==
    ASSUME VerifyInv, NEW d \in Reader, verify_audit_chain(d) \/ verify_page(d) \/ verify_head(d)
    PROVE  UNCHANGED vars /\ VerifyBehind' /\ NoFalseTamperAlarm'
  <1>0. ListInv /\ TypeInv /\ AuditChained /\ VerifyBehind /\ NoFalseTamperAlarm
    BY DEF VerifyInv, AuditInv
  <1>1. CASE verify_audit_chain(d)
    <2> DEFINE work == ChainWork(0, NoCommitment, FALSE)
    <2>1. VerifiedPrefix(work, audit_events)
      <3>1. Len(audit_events) \in Nat
        BY <1>0, SMTT(60) DEF TypeInv, TypeOK
      <3> QED
        BY <3>1, SMTT(60) DEF ChainWork, VerifiedPrefix, CommitmentAt
    <2>2. Start(d, work) /\ UNCHANGED vars
      BY <1>1 DEF verify_audit_chain, ChainWork
    <2> HIDE DEF work
    <2> QED
      BY <1>0, <2>1, <2>2, OneVerifier DEF Start, vars, store
  <1>2. CASE verify_page(d)
    <2> DEFINE w == scan[d]
               n == w.sequence
               page == page_after(n)
               work == Behind(w, page)
    <2>1. /\ w # None /\ w.op = "verify" /\ UNCHANGED vars
          /\ Linked(w, page) => scan' = [scan EXCEPT ![d] = work] /\ UNCHANGED outcome
      BY <1>0, <1>2, PageVerified
    <2>2. n \in 0..Len(audit_events) /\ w.previous = CommitmentAt(audit_events, n)
      BY <1>0, <2>1 DEF VerifyBehind, VerifiedPrefix
    <2>3. /\ Len(page) \in Nat /\ n + Len(page) \in 0..Len(audit_events)
          /\ (page = <<>> <=> Len(page) = 0)
          /\ \A i \in 1..Len(page) : page[i] = audit_events[n + i]
      BY <1>0, <2>2, PageAfter
    <2>4. Len(audit_events) \in Nat
      BY <1>0, SMTT(60) DEF TypeInv, TypeOK
    <2> HIDE DEF page, w, n
    <2>5. Linked(w, page)
      <3> SUFFICES ASSUME NEW i \in 1..Len(page)
                   PROVE  /\ page[i].sequence = n + i
                          /\ page[i].previous_commitment =
                                IF i = 1 THEN w.previous ELSE page[i - 1].commitment
        BY DEF Linked, n
      <3>1. n + i \in 1..Len(audit_events) /\ n + i - 1 \in 0..Len(audit_events)
        BY <2>2, <2>3, <2>4, SMTT(60)
      <3>2. /\ page[i].sequence = n + i
            /\ page[i].previous_commitment = CommitmentAt(audit_events, n + i - 1)
        <4> DEFINE j == n + i
        <4>1. page[i] = audit_events[j]
          BY <2>3
        <4>2. j \in 1..Len(audit_events) /\ (j = 1 <=> j - 1 = 0) /\ j - 1 = n + i - 1
          BY <2>2, <2>3, <2>4, <3>1, SMTT(60)
        <4> HIDE DEF j
        <4>3. /\ audit_events[j].sequence = j
              /\ audit_events[j].previous_commitment =
                    IF j = 1 THEN NoCommitment ELSE audit_events[j - 1].commitment
          BY <1>0, <4>2 DEF AuditChained
        <4>4. page[i].sequence = j /\ page[i].previous_commitment = CommitmentAt(audit_events, j - 1)
          BY <4>1, <4>2, <4>3 DEF CommitmentAt
        <4> QED
          BY <4>2, <4>4 DEF j
      <3>3. CASE i = 1
        BY <2>2, <3>2, <3>3, SMTT(60)
      <3>4. CASE i # 1
        <4>1. i - 1 \in 1..Len(page) /\ n + i - 1 = n + (i - 1) /\ n + i - 1 # 0
          BY <2>2, <2>3, <3>4, SMTT(60)
        <4> QED
          BY <2>3, <3>2, <3>4, <4>1 DEF CommitmentAt
      <3> QED
        BY <3>3, <3>4
    <2>6. VerifiedPrefix(work, audit_events)
      <3>1. /\ work.sequence = n + Len(page)
            /\ work.previous = IF page = <<>> THEN w.previous ELSE page[Len(page)].commitment
        BY DEF Behind, ChainWork, n
      <3>2. work.previous = CommitmentAt(audit_events, n + Len(page))
        BY <2>2, <2>3, <3>1, SMTT(60) DEF CommitmentAt
      <3> QED
        BY <2>3, <3>1, <3>2 DEF VerifiedPrefix
    <2>7. outcome' = [outcome EXCEPT ![d] = outcome[d]]
      BY <1>0, <2>1, <2>5 DEF ListInv, ReadersKnown
    <2>8. outcome[d] # None /\ outcome[d].status = "integrity" => outcome[d].op # "verify"
      BY <1>0 DEF NoFalseTamperAlarm
    <2> HIDE DEF work
    <2> QED
      BY <1>0, <2>1, <2>5, <2>6, <2>7, <2>8, OneVerifier DEF vars, store
  <1>3. CASE verify_head(d)
    <2>1. ASSUME NEW result, result.status # "integrity", Return(d, result), UNCHANGED vars
          PROVE  VerifyBehind' /\ NoFalseTamperAlarm'
      BY <1>0, <2>1, OneVerifier DEF Return, vars, store
    <2>2. CASE \E n : Return(d, [status |-> "verified", events_verified |-> n])
      BY <1>3, <2>1, <2>2 DEF verify_head
    <2>3. CASE Return(d, [status |-> "conflict"])
      BY <1>3, <2>1, <2>3 DEF verify_head
    <2> QED
      BY <1>3, <2>2, <2>3 DEF verify_head
  <1> QED
    BY <1>1, <1>2, <1>3

\* The steps of VaultReads are steps of VaultCore, or change nothing of it.
LEMMA ReadsAreSteps == ASSUME ListInv, [ReadNext]_<<vars, readVars>> PROVE [Next]_vars
  <1>1. ASSUME NEW d \in Reader, Reads(d)
        PROVE  UNCHANGED vars
    BY <1>1 DEF Reads, list_secrets_in_lifecycle, list_row, secrets_due, due_row,
       verify_audit_chain, verify_page, verify_head
  <1> QED
    BY <1>1 DEF ReadNext, Writes, Next

LEMMA VerifyKept ==
    ASSUME VerifyInv, [ReadNext]_<<vars, readVars>>
    PROVE  VerifyInv'
  <1>0. ListInv /\ TypeInv /\ AuditInv /\ VerifyBehind /\ NoFalseTamperAlarm
    BY DEF VerifyInv
  <1>1. ListInv' /\ [Next]_vars
    BY <1>0, ListKept, ReadsAreSteps
  <1>2. TypeInv' /\ AuditInv'
    BY <1>0, <1>1, NextTyped, NextAudit
  <1>3. CASE UNCHANGED <<scan, outcome>>
    <2>1. audit_events \in Seq(Event)
      BY <1>0 DEF TypeInv, TypeOK
    <2>2. \/ audit_events' = audit_events
          \/ \E e \in Event : audit_events' = Append(audit_events, e)
      BY <1>0, <1>1, LogGrows
    <2>3. ASSUME NEW w, VerifiedPrefix(w, audit_events)
          PROVE  VerifiedPrefix(w, audit_events')
      BY <2>1, <2>2, <2>3, SMTT(60) DEF VerifiedPrefix, CommitmentAt
    <2>4. VerifyBehind'
      BY <1>0, <1>3, <2>3 DEF VerifyBehind
    <2>5. NoFalseTamperAlarm'
      BY <1>0, <1>3 DEF NoFalseTamperAlarm
    <2> QED
      BY <1>1, <1>2, <2>4, <2>5 DEF VerifyInv
  <1>4. ASSUME NEW d \in Reader, Reads(d)
        PROVE  VerifyInv'
    <2>1. CASE verify_audit_chain(d) \/ verify_page(d) \/ verify_head(d)
      BY <1>1, <1>2, <2>1, VerifyReads DEF VerifyInv
    <2>2. CASE \/ \E state \in LifecycleState : list_secrets_in_lifecycle(d, state)
               \/ list_row(d) \/ secrets_due(d) \/ due_row(d)
      <3>1. PageRead(d) /\ UNCHANGED audit_events
        BY <1>0, <2>2, PageReads DEF vars, store
      <3>2. outcome[d] # None /\ outcome[d].status = "integrity" => outcome[d].op # "verify"
        BY <1>0 DEF NoFalseTamperAlarm
      <3>3. VerifyBehind' /\ NoFalseTamperAlarm'
        BY <1>0, <3>1, <3>2, OneVerifier DEF PageRead
      <3> QED
        BY <1>1, <1>2, <3>3 DEF VerifyInv
    <2> QED
      BY <1>4, <2>1, <2>2 DEF Reads
  <1> QED
    BY <1>3, <1>4 DEF ReadNext, Writes, readVars

\* verify_audit_chain beside any number of writers that append to the log
\* between its pages: it never reports an untouched log as tampered with.
THEOREM NoFalseAlarm == ReadSpec => []NoFalseTamperAlarm
<1>1. ReadInit => VerifyInv
  <2>1. ReadInit => TypeInv /\ AuditInv /\ ListInv
    BY InitTypeInv, InitAuditInv, InitListInv DEF ReadInit
  <2>2. ReadInit => VerifyBehind /\ NoFalseTamperAlarm
    BY DEF ReadInit, VerifyBehind, NoFalseTamperAlarm
  <2> QED
    BY <2>1, <2>2 DEF VerifyInv
<1>2. ReadSpec => []VerifyInv
  BY <1>1, VerifyKept, PTL DEF ReadSpec
<1> QED
  BY <1>2, PTL DEF VerifyInv

-----------------------------------------------------------------------------
(* What a step of the core does to the secrets, for a client that retries. *)

\* A secret that is still there was there before, under the same name and
\* with the same first value.
Keeps(s) ==
    secrets'[s] # None =>
        /\ secrets[s] # None
        /\ secrets'[s].name = secrets[s].name
        /\ versions'[s][1] = versions[s][1]

\* The create a thread runs has stored its secret.
Stored(r) ==
    LET s == call[r].secret_id IN
    /\ call[r].action = "secret:create"
    /\ secrets[s] = None
    /\ secrets'[s] # None
    /\ secrets'[s].name = call[r].name
    /\ versions'[s][1] = call[r].payload
    /\ \A t \in SecretId \ {s} : Keeps(t)

\* A transaction stores the secret of a create, or changes no name and no
\* first value.
LEMMA TransactionKeeps ==
    ASSUME TypeInv, NEW r \in Request, Transaction(r)
    PROVE  \/ Stored(r)
           \/ /\ \A s \in SecretId : Keeps(s)
              /\ call[r].action = "secret:create" => pc'[r] = "idle" /\ reply'.status # "ok"
  <1> DEFINE s == call[r].secret_id
             row == secrets[s]
  <1>1. s \in SecretId
    BY CommitTarget
  <1>2. /\ secrets \in [SecretId -> SecretRow \union {None}]
        /\ versions \in [SecretId -> Seq(Payload)]
        /\ DOMAIN pc = Request
    BY DEF TypeInv, TypeOK
  <1>3. ASSUME UNCHANGED <<secrets, versions>>
        PROVE  \A t \in SecretId : Keeps(t)
    BY <1>3 DEF Keeps
  <1>4. ASSUME NEW new, NEW payloads, Wrote(r, new, payloads)
        PROVE  /\ secrets'[s] = new /\ versions'[s] = payloads
               /\ \A t \in SecretId \ {s} : Keeps(t)
    <2>1. /\ secrets' = [secrets EXCEPT ![s] = new]
          /\ versions' = [versions EXCEPT ![s] = payloads]
      BY <1>4 DEF Wrote
    <2> HIDE DEF s
    <2> QED
      BY <1>1, <1>2, <2>1 DEF Keeps
  <1>5. CASE Created(r)
    <2> DEFINE new == [name |-> call[r].name, lifecycle_state |-> "active",
                       current_version |-> 1, revision |-> 1]
    <2>1. call[r] \in CreateCall /\ row = None /\ Wrote(r, new, <<call[r].payload>>)
      BY <1>5 DEF Created
    <2>2. new \in SecretRow /\ call[r].action = "secret:create"
      BY <2>1, SMTT(60) DEF CreateCall, SecretRow, LifecycleState
    <2>3. new # None /\ new.name = call[r].name /\ <<call[r].payload>>[1] = call[r].payload
      BY <2>2, RowIsNotNone
    <2> HIDE DEF new
    <2> QED
      BY <1>4, <2>1, <2>2, <2>3 DEF Stored
  <1>6. CASE Updated(r)
    <2> DEFINE new == [name |-> row.name, lifecycle_state |-> "active",
                       current_version |-> call[r].version + 1,
                       revision |-> call[r].revision + 1]
               payloads == Append(versions[s], call[r].payload)
    <2>1. call[r] \in UpdateCall /\ row \in SecretRow /\ Wrote(r, new, payloads)
      BY <1>6 DEF Updated
    <2>2. call[r].action # "secret:create" /\ call[r].version \in Nat \ {0} /\ call[r].payload \in Payload
      BY <2>1, BoundAssumption, SMTT(60) DEF UpdateCall, Counter
    <2>3. Len(versions[s]) = call[r].version
      BY <1>6, UpdatedLength
    <2>4. payloads[1] = versions[s][1] /\ new.name = row.name
      BY <1>1, <1>2, <2>2, <2>3, SMTT(60)
    <2>5. row # None
      BY <2>1, RowIsNotNone
    <2> HIDE DEF new, payloads
    <2>6. Keeps(s)
      BY <1>4, <2>1, <2>4, <2>5, SMTT(60) DEF Keeps
    <2> QED
      BY <1>4, <2>1, <2>2, <2>6
  <1>7. CASE Changed(r)
    <2> DEFINE new == [name |-> row.name, lifecycle_state |-> call[r].transition.to_state,
                       current_version |-> row.current_version,
                       revision |-> call[r].revision + 1]
    <2>1. call[r] \in LifecycleCall /\ row \in SecretRow /\ Wrote(r, new, versions[s])
      BY <1>7 DEF Changed
    <2>2. call[r].action # "secret:create"
      BY <2>1 DEF LifecycleCall
    <2>3. row # None /\ new.name = row.name
      BY <2>1, RowIsNotNone
    <2> HIDE DEF new
    <2>4. Keeps(s)
      BY <1>4, <2>1, <2>3 DEF Keeps
    <2> QED
      BY <1>4, <2>1, <2>2, <2>4
  <1>8. CASE Purged(r)
    <2>1. call[r] \in PurgeCall /\ Wrote(r, None, <<>>)
      BY <1>8 DEF Purged
    <2>2. call[r].action # "secret:create"
      BY <2>1 DEF PurgeCall
    <2>3. Keeps(s)
      BY <1>4, <2>1 DEF Keeps
    <2> QED
      BY <1>4, <2>1, <2>2, <2>3
  <1>9. CASE Revealed(r)
    <2>1. call[r].action # "secret:create"
      BY <1>9 DEF Revealed, RevealCall, Reading
    <2> QED
      BY <1>3, <1>9, <2>1 DEF Revealed
  <1>10. CASE Failed(r)
    <2>1. pc'[r] = "idle" /\ reply'.status # "ok"
      BY <1>2, <1>10, SMTT(60) DEF Failed, Fail, Reply
    <2> QED
      BY <1>3, <1>10, <2>1 DEF Failed, store
  <1>11. CASE Retried(r)
    <2>1. call[r].action # "secret:create"
      BY <1>11 DEF Retried, UpdateCall
    <2> QED
      BY <1>3, <1>11, <2>1 DEF Retried, store
  <1> QED
    BY <1>5, <1>6, <1>7, <1>8, <1>9, <1>10, <1>11, Outcomes

\* A step of one thread leaves the calls of the others alone, and keeps the
\* arguments of a create until it is answered.
LEMMA StepThreads ==
    ASSUME TypeInv, NEW r \in Request, Step(r)
    PROVE  /\ pc[r] # "idle"
           /\ \A q \in Request \ {r} : pc'[q] = pc[q] /\ call'[q] = call[q]
           /\ pc'[r] # "idle" =>
                 /\ call'[r].action = call[r].action
                 /\ call[r].action = "secret:create" => call'[r] = call[r]
  <1> DEFINE Goal == /\ pc[r] # "idle"
                     /\ \A q \in Request \ {r} : pc'[q] = pc[q] /\ call'[q] = call[q]
                     /\ pc'[r] # "idle" =>
                           /\ call'[r].action = call[r].action
                           /\ call[r].action = "secret:create" => call'[r] = call[r]
  <1>0. DOMAIN pc = Request /\ DOMAIN call = Request
    BY DEF TypeInv, TypeOK
  <1>1. ASSUME pc[r] # "idle", NEW a, Reply(r, a)
        PROVE  Goal
    BY <1>0, <1>1 DEF Reply
  <1>2. ASSUME pc[r] # "idle", NEW c, call' = [call EXCEPT ![r] = c], c.action = call[r].action,
               c.action # "secret:create", NEW step, pc' = [pc EXCEPT ![r] = step]
        PROVE  Goal
    BY <1>0, <1>2
  <1> SUFFICES Goal
    OBVIOUS
  <1> HIDE DEF Goal
  <1>3. CASE encrypted_secret_version(r)
    <2> DEFINE c == [action |-> call[r].action, secret_id |-> call[r].secret_id,
                     version |-> call[r].version,
                     plaintext |-> versions[call[r].secret_id][call[r].version].value]
    <2>1. /\ pc[r] = "fetch"
          /\ \/ Fail(r, "not_found")
             \/ call' = [call EXCEPT ![r] = c] /\ pc' = [pc EXCEPT ![r] = "audit"]
      BY <1>3 DEF encrypted_secret_version
    <2>2. c.action = call[r].action /\ c.action # "secret:create"
      BY <2>1 DEF TypeInv, TypeOK, FetchCall, Reading
    <2> HIDE DEF c
    <2>3. CASE Fail(r, "not_found")
      BY <1>1, <2>1, <2>3 DEF Fail
    <2>4. CASE call' = [call EXCEPT ![r] = c] /\ pc' = [pc EXCEPT ![r] = "audit"]
      BY <1>2, <2>1, <2>2, <2>4
    <2> QED
      BY <2>1, <2>3, <2>4
  <1>4. CASE build_audit(r)
    <2>1. CASE Fail(r, "conflict")
      BY <1>1, <1>4, <2>1 DEF build_audit, Fail
    <2>2. CASE pc' = [pc EXCEPT ![r] = "commit"] /\ UNCHANGED call
      BY <1>0, <1>4, <2>2 DEF build_audit, Goal
    <2> QED
      BY <1>4, <2>1, <2>2 DEF build_audit
  <1>5. CASE Transaction(r)
    <2>1. pc[r] # "idle" /\ (Retried(r) \/ \E a : Reply(r, a))
      BY <1>5, Outcomes DEF Created, Updated, Changed, Purged, Revealed, Failed,
         Acknowledge, Fail
    <2>2. CASE Retried(r)
      <3> DEFINE c == [call[r] EXCEPT !.attempt = 2]
      <3>1. c.action = call[r].action /\ c.action # "secret:create"
        BY <2>2 DEF Retried, UpdateCall
      <3>2. call' = [call EXCEPT ![r] = c] /\ pc' = [pc EXCEPT ![r] = "audit"]
        BY <2>2 DEF Retried
      <3> HIDE DEF c
      <3> QED
        BY <1>2, <2>1, <3>1, <3>2
    <2>3. CASE \E a : Reply(r, a)
      BY <1>1, <2>1, <2>3
    <2> QED
      BY <2>1, <2>2, <2>3
  <1> QED
    BY <1>3, <1>4, <1>5 DEF Step, Transaction

\* The event that created a secret is in the log.
CreatedIsLogged ==
    \A s \in SecretId : secrets[s] # None => EventsOf(audit_events, s, Mutation, 1) # {}

LEMMA NextLogged ==
    ASSUME TypeInv, AuditInv, CreatedIsLogged, [Next]_vars
    PROVE  CreatedIsLogged'
  <1>1. audit_events \in Seq(Event)
    BY DEF TypeInv, TypeOK
  <1>2. \/ audit_events' = audit_events
        \/ \E e \in Event : audit_events' = Append(audit_events, e)
    BY LogGrows
  <1>3. ASSUME NEW s \in SecretId, NEW i \in EventsOf(audit_events, s, Mutation, 1)
        PROVE  i \in EventsOf(audit_events', s, Mutation, 1)
    BY <1>1, <1>2, <1>3, SMTT(60) DEF EventsOf
  <1>4. CASE UNCHANGED <<store, acked>>
    BY <1>4 DEF store, CreatedIsLogged
  <1>5. ASSUME NEW r \in Request, Transaction(r)
        PROVE  CreatedIsLogged'
    <2>1. ASSUME NEW s \in SecretId, Keeps(s), secrets'[s] # None
          PROVE  EventsOf(audit_events', s, Mutation, 1) # {}
      BY <1>3, <2>1 DEF CreatedIsLogged, Keeps
    <2>2. CASE \A s \in SecretId : Keeps(s)
      BY <2>1, <2>2 DEF CreatedIsLogged
    <2>3. CASE Stored(r)
      <3> DEFINE e == pending[r]
                 n == Len(audit_events) + 1
      <3>1. e \in Event /\ e.target_id = call[r].secret_id /\ e.action = "secret:create"
        BY <1>5, <2>3, Outcomes DEF Stored, AuditInv, PendingDescribesCall, TypeInv, TypeOK
      <3>2. Created(r)
        <4>1. secrets' # secrets
          BY <2>3 DEF Stored
        <4>2. call[r] \notin UpdateCall /\ call[r] \notin LifecycleCall /\ call[r] \notin PurgeCall
          BY <2>3 DEF Stored, UpdateCall, LifecycleCall, PurgeCall
        <4> QED
          BY <1>5, <4>1, <4>2, Outcomes DEF Updated, Changed, Purged, Revealed, Failed, Retried, store
      <3>3. audit_events' = Append(audit_events, e)
        BY <3>2 DEF Created, Wrote, insert_audit
      <3>4. Len(audit_events') = n /\ n \in 1..Len(audit_events') /\ audit_events'[n] = e
        BY <1>1, <3>1, <3>3, SMTT(60)
      <3>5. n \in EventsOf(audit_events', call[r].secret_id, Mutation, 1)
        BY <3>1, <3>4 DEF EventsOf, Mutation
      <3> QED
        BY <2>1, <2>3, <3>5 DEF CreatedIsLogged, Stored
    <2> QED
      BY <1>5, <2>2, <2>3, TransactionKeeps
  <1> QED
    BY <1>4, <1>5, OnlyTransactionsWrite

-----------------------------------------------------------------------------
(* The keys of retry-safe creation.                                        *)

IdemTyped ==
    /\ reservations \in [Key -> Reservation \union {None}]
    /\ retry \in [Request -> Attempt \union {None}]
    /\ answers \in [Key -> SUBSET SecretId]

\* The row under the key still is the one the attempt w was given.
Holds(rows, w) ==
    /\ rows[w.key] # None
    /\ rows[w.key].response_id = w.id
    /\ rows[w.key].fingerprint = w.body

\* A running attempt works under the reservation of its key.
RetryReserved == \A r \in Request : retry[r] # None => Holds(reservations, retry[r])

\* No id is reserved for two keys.
IdsApart ==
    \A j, k \in Key :
        /\ reservations[j] # None /\ reservations[k] # None
        /\ reservations[j].response_id = reservations[k].response_id
        => j = k

KeyInv == IdemTyped /\ RetryReserved /\ IdsApart /\ OneAnswerPerKey

LEMMA InitKeyInv == IdemInit => KeyInv
  BY DEF IdemInit, KeyInv, IdemTyped, RetryReserved, IdsApart, OneAnswerPerKey

\* A thread goes on under the reservation of its key, or is done.
LEMMA KeyMove ==
    ASSUME KeyInv, NEW r \in Request, NEW w \in Attempt \union {None},
           w # None => Holds(reservations, w),
           retry' = [retry EXCEPT ![r] = w], UNCHANGED <<reservations, answers>>
    PROVE  KeyInv'
  <1>1. IdemTyped'
    BY DEF KeyInv, IdemTyped
  <1>2. \A q \in Request : retry'[q] = IF q = r THEN w ELSE retry[q]
    BY DEF KeyInv, IdemTyped
  <1>3. RetryReserved'
    BY <1>2 DEF KeyInv, RetryReserved, Holds
  <1>4. IdsApart' /\ OneAnswerPerKey'
    BY DEF KeyInv, IdsApart, OneAnswerPerKey
  <1> QED
    BY <1>1, <1>3, <1>4 DEF KeyInv

\* What a thread that works under a key has and knows.
LEMMA AttemptTyped ==
    ASSUME KeyInv, NEW r \in Request, retry[r] # None
    PROVE  /\ retry[r] \in Attempt /\ Holds(reservations, retry[r])
           /\ reservations[retry[r].key] \in Reservation
  <1>1. retry[r] \in Attempt /\ Holds(reservations, retry[r])
    BY DEF KeyInv, IdemTyped, RetryReserved
  <1>2. retry[r].key \in Key
    BY <1>1 DEF Attempt
  <1> QED
    BY <1>1, <1>2 DEF KeyInv, IdemTyped, Holds

LEMMA KeyStage ==
    ASSUME KeyInv, NEW r \in Request, retry[r] # None,
           NEW stage \in {"reserved", "creating", "conflict"},
           retry' = [retry EXCEPT ![r] = [@ EXCEPT !.stage = stage]],
           UNCHANGED <<reservations, answers>>
    PROVE  KeyInv'
  <1> DEFINE w == [retry[r] EXCEPT !.stage = stage]
  <1>1. retry[r] \in Attempt /\ Holds(reservations, retry[r])
    BY AttemptTyped
  <1>2. w \in Attempt /\ w.key = retry[r].key /\ w.id = retry[r].id /\ w.body = retry[r].body
    BY <1>1 DEF Attempt
  <1>3. retry' = [retry EXCEPT ![r] = w]
    OBVIOUS
  <1> HIDE DEF w
  <1>4. Holds(reservations, w)
    BY <1>1, <1>2 DEF Holds
  <1> QED
    BY <1>2, <1>3, <1>4, KeyMove

LEMMA KeyAnswer ==
    ASSUME KeyInv, NEW r \in Request, retry[r] # None, Answer(r), UNCHANGED reservations
    PROVE  KeyInv'
  <1> DEFINE k == retry[r].key
             id == retry[r].id
  <1>1. retry[r] \in Attempt /\ Holds(reservations, retry[r])
    BY AttemptTyped
  <1>2. k \in Key /\ id \in SecretId /\ reservations[k] # None /\ reservations[k].response_id = id
    BY <1>1 DEF Attempt, Holds
  <1>3. answers' = [answers EXCEPT ![k] = @ \union {id}] /\ retry' = [retry EXCEPT ![r] = None]
    BY DEF Answer
  <1> HIDE DEF k, id
  <1>4. IdemTyped'
    BY <1>2, <1>3 DEF KeyInv, IdemTyped
  <1>5. RetryReserved'
    BY <1>3 DEF KeyInv, IdemTyped, RetryReserved, Holds
  <1>6. IdsApart'
    BY DEF KeyInv, IdsApart
  <1>7. ASSUME NEW j \in Key, answers'[j] # {}
        PROVE  reservations[j] # None /\ answers'[j] = {reservations[j].response_id}
    <2>1. \/ answers[j] = {}
          \/ reservations[j] # None /\ answers[j] = {reservations[j].response_id}
      BY DEF KeyInv, OneAnswerPerKey
    <2>2. answers'[j] = IF j = k THEN answers[j] \union {id} ELSE answers[j]
      BY <1>2, <1>3 DEF KeyInv, IdemTyped
    <2> QED
      BY <1>2, <1>7, <2>1, <2>2
  <1>8. OneAnswerPerKey'
    BY <1>7 DEF OneAnswerPerKey
  <1> QED
    BY <1>4, <1>5, <1>6, <1>8 DEF KeyInv

\* A new id is reserved for a key that has none.
LEMMA KeyNew ==
    ASSUME KeyInv, NEW r \in Request, NEW k \in Key, NEW s \in SecretId, Fresh(s),
           NEW a \in Reservation, a.response_id = s,
           NEW w \in Attempt, w.key = k, w.id = s, w.body = a.fingerprint,
           reservations[k] = None, UNCHANGED answers,
           reservations' = [reservations EXCEPT ![k] = a], retry' = [retry EXCEPT ![r] = w]
    PROVE  KeyInv'
  <1>1. a # None
    BY AttemptAssumption
  <1>4. IdemTyped'
    BY DEF KeyInv, IdemTyped
  <1>5. /\ \A j \in Key : reservations'[j] = IF j = k THEN a ELSE reservations[j]
        /\ \A q \in Request : retry'[q] = IF q = r THEN w ELSE retry[q]
    BY DEF KeyInv, IdemTyped
  <1>6. RetryReserved'
    <2>1. ASSUME NEW q \in Request, q # r, retry[q] # None
          PROVE  Holds(reservations', retry[q])
      <3>1. retry[q].key \in Key /\ Holds(reservations, retry[q])
        BY <2>1, AttemptTyped DEF Attempt
      <3> QED
        BY <1>5, <3>1 DEF Holds
    <2>2. Holds(reservations', w)
      BY <1>1, <1>5 DEF Holds
    <2> QED
      BY <1>5, <2>1, <2>2 DEF RetryReserved
  <1>7. IdsApart'
    <2>1. \A j \in Key : reservations[j] # None => reservations[j].response_id # s
      BY DEF Fresh
    <2> SUFFICES ASSUME NEW i \in Key, NEW j \in Key, reservations'[i] # None, reservations'[j] # None,
                        reservations'[i].response_id = reservations'[j].response_id
                 PROVE  i = j
      BY DEF IdsApart
    <2> QED
      BY <1>5, <2>1, SMTT(60) DEF KeyInv, IdsApart
  <1>8. OneAnswerPerKey'
    <2>1. ASSUME NEW j \in Key, answers[j] # {}
          PROVE  reservations'[j] # None /\ answers[j] = {reservations'[j].response_id}
      <3>1. reservations[j] # None /\ answers[j] = {reservations[j].response_id}
        BY <2>1 DEF KeyInv, OneAnswerPerKey
      <3> QED
        BY <1>5, <3>1
    <2> QED
      BY <2>1 DEF OneAnswerPerKey
  <1> QED
    BY <1>4, <1>6, <1>7, <1>8 DEF KeyInv

LEMMA KeyExpire ==
    ASSUME KeyInv, NEW k \in Key, Expire(k)
    PROVE  KeyInv'
  <1>1. /\ reservations' = [reservations EXCEPT ![k] = None]
        /\ answers' = [answers EXCEPT ![k] = {}] /\ UNCHANGED retry
        /\ \A r \in Request : retry[r] # None => retry[r].key # k
    BY DEF Expire, idemVars
  <1>2. IdemTyped'
    BY <1>1 DEF KeyInv, IdemTyped
  <1>3. /\ \A j \in Key : reservations'[j] = IF j = k THEN None ELSE reservations[j]
        /\ \A j \in Key : answers'[j] = IF j = k THEN {} ELSE answers[j]
    BY <1>1 DEF KeyInv, IdemTyped
  <1>4. RetryReserved'
    <2>1. ASSUME NEW r \in Request, retry[r] # None
          PROVE  Holds(reservations', retry[r])
      <3>1. retry[r].key \in Key /\ retry[r].key # k /\ Holds(reservations, retry[r])
        BY <1>1, <2>1, AttemptTyped DEF Attempt
      <3> QED
        BY <1>3, <3>1 DEF Holds
    <2> QED
      BY <1>1, <2>1 DEF RetryReserved
  <1>5. IdsApart' /\ OneAnswerPerKey'
    BY <1>3 DEF KeyInv, IdsApart, OneAnswerPerKey
  <1> QED
    BY <1>2, <1>4, <1>5 DEF KeyInv

LEMMA KeyRestart ==
    ASSUME KeyInv, retry' = [r \in Request |-> None], UNCHANGED <<reservations, answers>>
    PROVE  KeyInv'
  BY DEF KeyInv, IdemTyped, RetryReserved, IdsApart, OneAnswerPerKey

\* What create_secret is called with for an attempt.
CreateOf(w) ==
    [action |-> "secret:create", secret_id |-> w.id, name |-> w.body.name,
     payload |-> w.body.payload]

\* Only an attempt in "creating" runs a create, and it runs its own.
CallOwned(w, step, c) ==
    /\ w # None /\ w.stage = "creating" => step # "idle" /\ c = CreateOf(w)
    /\ w # None /\ w.stage # "creating" => step = "idle"
    /\ w = None /\ step # "idle" => c.action # "secret:create"

CallsOwned == \A r \in Request : CallOwned(retry[r], pc[r], call[r])

\* A secret under a reserved id is the one the reserving request describes.
Describes(a) ==
    secrets[a.response_id] # None =>
        /\ secrets[a.response_id].name = a.fingerprint.name
        /\ versions[a.response_id][1] = a.fingerprint.payload

StoredMatches == \A k \in Key : reservations[k] # None => Describes(reservations[k])

IdemInv ==
    /\ TypeInv /\ AuditInv /\ CreatedIsLogged
    /\ KeyInv /\ CallsOwned /\ StoredMatches /\ SuccessIsStored

LEMMA InitIdemInv == IdemInit => IdemInv
  <1> SUFFICES ASSUME IdemInit PROVE IdemInv
    OBVIOUS
  <1>1. TypeInv /\ AuditInv /\ KeyInv
    BY InitTypeInv, InitAuditInv, InitKeyInv DEF IdemInit
  <1>2. CreatedIsLogged
    BY DEF IdemInit, Init, CreatedIsLogged
  <1>3. CallsOwned
    BY DEF IdemInit, Init, CallsOwned, CallOwned
  <1>4. StoredMatches
    BY DEF IdemInit, StoredMatches
  <1>5. SuccessIsStored
    BY DEF IdemInit, SuccessIsStored
  <1> QED
    BY <1>1, <1>2, <1>3, <1>4, <1>5 DEF IdemInv

\* The calls after a step of thread r alone.
LEMMA OneThread ==
    ASSUME CallsOwned, KeyInv, NEW r \in Request,
           \A q \in Request \ {r} : pc'[q] = pc[q] /\ call'[q] = call[q] /\ retry'[q] = retry[q],
           CallOwned(retry'[r], pc'[r], call'[r])
    PROVE  CallsOwned'
  <1> SUFFICES ASSUME NEW q \in Request
               PROVE  CallOwned(retry'[q], pc'[q], call'[q])
    BY DEF CallsOwned
  <1>1. CallOwned(retry[q], pc[q], call[q])
    BY DEF CallsOwned
  <1> QED
    BY <1>1

\* Without a change to the secrets, only the reservations matter.
LEMMA SameSecrets ==
    ASSUME StoredMatches, UNCHANGED <<secrets, versions>>,
           \A k \in Key : reservations'[k] # None =>
               reservations'[k] = reservations[k] \/ secrets[reservations'[k].response_id] = None
    PROVE  StoredMatches'
  BY DEF StoredMatches, Describes

\* With the reservations unchanged, a step of the core keeps what they say of
\* the secrets.
LEMMA StepMatches ==
    ASSUME IdemInv, NEW r \in Request, Step(r), UNCHANGED reservations,
           retry[r] = None \/ retry[r].stage = "creating"
    PROVE  /\ StoredMatches'
           /\ retry[r] # None /\ pc'[r] = "idle" /\ reply'.status = "ok" =>
                 /\ secrets'[retry[r].id] # None
                 /\ secrets'[retry[r].id].name = retry[r].body.name
                 /\ versions'[retry[r].id][1] = retry[r].body.payload
  <1>0. TypeInv /\ KeyInv /\ CallsOwned /\ StoredMatches
    BY DEF IdemInv
  <1>1. pc[r] # "idle" /\ CallOwned(retry[r], pc[r], call[r])
    BY <1>0, StepThreads DEF CallsOwned
  <1>2. ASSUME retry[r] # None
        PROVE  /\ call[r].action = "secret:create" /\ call[r].secret_id = retry[r].id
               /\ call[r].name = retry[r].body.name /\ call[r].payload = retry[r].body.payload
    BY <1>1, <1>2, SMTT(60) DEF CallOwned, CreateOf
  <1>3. ASSUME NEW k \in Key, reservations[k] # None, Keeps(reservations[k].response_id)
        PROVE  Describes(reservations[k])'
    BY <1>0, <1>3 DEF StoredMatches, Describes, Keeps
  <1>4. ASSUME NEW k \in Key, reservations[k] # None
        PROVE  reservations[k].response_id \in SecretId
    BY <1>0, <1>4 DEF KeyInv, IdemTyped, Reservation
  <1>5. CASE Stored(r)
    <2>1. retry[r] # None
      BY <1>1, <1>5 DEF Stored, CallOwned
    <2>2. retry[r].key \in Key /\ Holds(reservations, retry[r])
      BY <1>0, <2>1, AttemptTyped DEF Attempt
    <2>3. /\ secrets'[retry[r].id] # None
          /\ secrets'[retry[r].id].name = retry[r].body.name
          /\ versions'[retry[r].id][1] = retry[r].body.payload
          /\ \A s \in SecretId \ {retry[r].id} : Keeps(s)
      BY <1>2, <1>5, <2>1 DEF Stored
    <2>4. ASSUME NEW k \in Key, reservations[k] # None
          PROVE  Describes(reservations[k])'
      <3>1. CASE reservations[k].response_id = retry[r].id
        <4>1. k = retry[r].key
          BY <1>0, <2>2, <2>4, <3>1 DEF KeyInv, IdsApart, Holds
        <4>2. reservations[k].fingerprint = retry[r].body
          BY <2>2, <4>1 DEF Holds
        <4> QED
          BY <2>3, <3>1, <4>2 DEF Describes
      <3>2. CASE reservations[k].response_id # retry[r].id
        BY <1>3, <1>4, <2>3, <2>4, <3>2
      <3> QED
        BY <3>1, <3>2
    <2>5. StoredMatches'
      BY <2>4 DEF StoredMatches
    <2> QED
      BY <2>1, <2>3, <2>5
  <1>6. CASE /\ \A s \in SecretId : Keeps(s)
             /\ call[r].action = "secret:create" /\ pc'[r] = "idle" => reply'.status # "ok"
    <2>1. StoredMatches'
      BY <1>3, <1>4, <1>6 DEF StoredMatches
    <2> QED
      BY <1>2, <1>6, <2>1
  <1>7. ASSUME encrypted_secret_version(r) \/ build_audit(r)
        PROVE  /\ \A s \in SecretId : Keeps(s)
               /\ call[r].action = "secret:create" /\ pc'[r] = "idle" => reply'.status # "ok"
    <2>1. UNCHANGED <<secrets, versions>>
      BY <1>7 DEF encrypted_secret_version, build_audit, store
    <2>2. pc'[r] # "idle" \/ reply'.status # "ok"
      <3>1. DOMAIN pc = Request
        BY <1>0 DEF TypeInv, TypeOK
      <3>2. ASSUME NEW status, status # "ok", Fail(r, status)
            PROVE  reply'.status # "ok"
        BY <3>2 DEF Fail, Reply
      <3> QED
        BY <1>7, <3>1, <3>2 DEF encrypted_secret_version, build_audit
    <2> QED
      BY <2>1, <2>2 DEF Keeps
  <1> QED
    BY <1>0, <1>5, <1>6, <1>7, TransactionKeeps DEF Step, Transaction

\* The steps of Idempotency are steps of VaultCore, or change nothing of it.
LEMMA IdemIsSteps ==
    ASSUME KeyInv, [IdemNext]_<<vars, idemVars>>
    PROVE  [Next]_vars
  <1>1. CASE Restart \/ UNCHANGED <<vars, idemVars>>
    BY <1>1 DEF Restart, Next
  <1>2. ASSUME NEW k \in Key, Expire(k)
        PROVE  UNCHANGED vars
    BY <1>2 DEF Expire
  <1>3. ASSUME NEW r \in Request, NEW k \in Key, NEW body \in Body, reserve_idempotency(r, k, body)
        PROVE  UNCHANGED vars
    BY <1>3 DEF reserve_idempotency
  <1>4. ASSUME NEW r \in Request, create_reserved(r)
        PROVE  UNCHANGED vars \/ Arrive(r)
    <2>1. retry[r] \in Attempt
      BY <1>4, AttemptTyped DEF create_reserved
    <2>2. retry[r].id \in SecretId /\ retry[r].body.name \in Name /\ retry[r].body.payload \in Payload
      BY <2>1 DEF Attempt, Body
    <2>3. \/ UNCHANGED vars
          \/ create_secret(r, retry[r].id, retry[r].body.name, retry[r].body.payload)
      BY <1>4 DEF create_reserved
    <2> QED
      BY <2>2, <2>3 DEF Arrive
  <1>5. ASSUME NEW r \in Request, after_conflict(r)
        PROVE  UNCHANGED vars
    BY <1>5 DEF after_conflict
  <1>6. ASSUME NEW r \in Request, OtherArrive(r)
        PROVE  Arrive(r)
    BY <1>6 DEF OtherArrive, Arrive
  <1>7. ASSUME NEW r \in Request, creating(r) \/ OtherStep(r)
        PROVE  Step(r)
    BY <1>7 DEF creating, OtherStep
  <1> QED
    BY <1>1, <1>2, <1>3, <1>4, <1>5, <1>6, <1>7 DEF IdemNext, Next

\* reserve_idempotency gives a thread the one reservation of its key.
LEMMA ReserveKeeps ==
    ASSUME IdemInv, NEW r \in Request, NEW k \in Key, NEW body \in Body,
           reserve_idempotency(r, k, body)
    PROVE  KeyInv' /\ CallsOwned' /\ StoredMatches' /\ SuccessIsStored'
  <1>0. KeyInv /\ CallsOwned /\ StoredMatches /\ CreatedIsLogged
    BY DEF IdemInv
  <1>1. /\ pc[r] = "idle" /\ UNCHANGED <<pc, call, secrets, versions, answers>>
        /\ DOMAIN retry = Request
    BY <1>0 DEF reserve_idempotency, vars, store, KeyInv, IdemTyped
  <1>2. ASSUME NEW w, w # None => w.stage # "creating", retry' = [retry EXCEPT ![r] = w]
        PROVE  CallsOwned'
    <2>1. CallOwned(retry'[r], pc'[r], call'[r])
      BY <1>1, <1>2 DEF CallOwned
    <2>2. \A q \in Request \ {r} : pc'[q] = pc[q] /\ call'[q] = call[q] /\ retry'[q] = retry[q]
      BY <1>1, <1>2
    <2> QED
      BY <1>0, <2>1, <2>2, OneThread
  <1>3. CASE UNCHANGED <<reservations, retry>> /\ response' = [request |-> r, status |-> "conflict"]
    <2>1. KeyInv'
      BY <1>0, <1>1, <1>3 DEF KeyInv, IdemTyped, RetryReserved, IdsApart, OneAnswerPerKey
    <2>2. CallsOwned'
      BY <1>0, <1>1, <1>3 DEF CallsOwned
    <2>3. StoredMatches'
      BY <1>0, <1>1, <1>3, SameSecrets
    <2>4. SuccessIsStored'
      BY <1>3 DEF SuccessIsStored
    <2> QED
      BY <2>1, <2>2, <2>3, <2>4
  <1>4. CASE /\ reservations[k] # None /\ matches(k, body)
             /\ retry' = [retry EXCEPT ![r] =
                   Work(k, reservations[k].response_id, TRUE, body, "reserved")]
             /\ response' = None /\ UNCHANGED reservations
    <2> DEFINE w == Work(k, reservations[k].response_id, TRUE, body, "reserved")
    <2>1. reservations[k] \in Reservation /\ reservations[k].fingerprint = body
      BY <1>0, <1>4 DEF KeyInv, IdemTyped, matches
    <2>2. /\ w \in Attempt /\ w.key = k /\ w.id = reservations[k].response_id /\ w.body = body
          /\ w.stage # "creating"
      BY <2>1 DEF Work, Attempt, Reservation
    <2>3. retry' = [retry EXCEPT ![r] = w]
      BY <1>4
    <2> HIDE DEF w
    <2>4. Holds(reservations, w)
      BY <1>4, <2>1, <2>2 DEF Holds
    <2>5. KeyInv'
      BY <1>0, <1>1, <1>4, <2>2, <2>3, <2>4, KeyMove
    <2>6. CallsOwned'
      BY <1>2, <2>2, <2>3
    <2>7. StoredMatches'
      BY <1>0, <1>1, <1>4, SameSecrets
    <2>8. SuccessIsStored'
      BY <1>4 DEF SuccessIsStored
    <2> QED
      BY <2>5, <2>6, <2>7, <2>8
  <1>5. ASSUME NEW s \in SecretId, Fresh(s), reservations[k] = None, response' = None,
               reservations' = [reservations EXCEPT ![k] =
                   [response_id |-> s, fingerprint |-> body]],
               retry' = [retry EXCEPT ![r] = Work(k, s, FALSE, body, "reserved")]
        PROVE  KeyInv' /\ CallsOwned' /\ StoredMatches' /\ SuccessIsStored'
    <2> DEFINE a == [response_id |-> s, fingerprint |-> body]
               w == Work(k, s, FALSE, body, "reserved")
    <2>1. a \in Reservation /\ a.response_id = s /\ a.fingerprint = body
      BY DEF Reservation
    <2>2. /\ w \in Attempt /\ w.key = k /\ w.id = s /\ w.body = body /\ w.stage # "creating"
      BY DEF Work, Attempt
    <2>3. reservations' = [reservations EXCEPT ![k] = a] /\ retry' = [retry EXCEPT ![r] = w]
      BY <1>5
    <2> HIDE DEF a, w
    <2>4. KeyInv'
      <3>1. w.body = a.fingerprint /\ UNCHANGED answers
        BY <1>1, <2>1, <2>2
      <3>2. Fresh(s) /\ reservations[k] = None
        BY <1>5
      <3> QED
        BY <1>0, <2>1, <2>2, <2>3, <3>1, <3>2, KeyNew
    <2>5. CallsOwned'
      BY <1>2, <2>2, <2>3
    <2>6. secrets[s] = None
      BY <1>0, <1>5 DEF Fresh, CreatedIsLogged
    <2>7. \A j \in Key : reservations'[j] = reservations[j] \/ reservations'[j].response_id = s
      BY <1>0, <2>1, <2>3 DEF KeyInv, IdemTyped
    <2>8. StoredMatches'
      BY <1>0, <1>1, <2>6, <2>7, SameSecrets
    <2>9. SuccessIsStored'
      BY <1>5 DEF SuccessIsStored
    <2> QED
      BY <2>4, <2>5, <2>8, <2>9
  <1> QED
    BY <1>3, <1>4, <1>5 DEF reserve_idempotency

\* An attempt is answered with its id, whose secret is the one it describes.
LEMMA AnswerIsStored ==
    ASSUME NEW r \in Request, Answer(r),
           secrets'[retry[r].id] # None,
           secrets'[retry[r].id].name = retry[r].body.name,
           versions'[retry[r].id][1] = retry[r].body.payload
    PROVE  SuccessIsStored'
  <1> DEFINE a == [request |-> r, status |-> "ok", id |-> retry[r].id, body |-> retry[r].body]
  <1>1. response' = a /\ a.id = retry[r].id /\ a.body = retry[r].body
    BY DEF Answer
  <1> HIDE DEF a
  <1> QED
    BY <1>1 DEF SuccessIsStored

\* The secret under the id of an attempt, if there is one.
LEMMA ExistingMatches ==
    ASSUME IdemInv, NEW r \in Request, retry[r] # None, secrets[retry[r].id] # None
    PROVE  /\ secrets[retry[r].id].name = retry[r].body.name
           /\ versions[retry[r].id][1] = retry[r].body.payload
  <1>1. retry[r].key \in Key /\ Holds(reservations, retry[r])
    BY AttemptTyped DEF IdemInv, Attempt
  <1> QED
    BY <1>1 DEF IdemInv, StoredMatches, Describes, Holds

\* An attempt that finds the secret of its id answers with it.
LEMMA FoundKeeps ==
    ASSUME IdemInv, NEW r \in Request, retry[r] # None, retry[r].stage # "creating",
           secrets[retry[r].id] # None, Answer(r), UNCHANGED <<vars, reservations>>
    PROVE  KeyInv' /\ CallsOwned' /\ StoredMatches' /\ SuccessIsStored'
  <1>0. KeyInv /\ CallsOwned /\ StoredMatches
    BY DEF IdemInv
  <1>1. UNCHANGED <<pc, call, secrets, versions>> /\ retry' = [retry EXCEPT ![r] = None]
    BY DEF vars, store, Answer
  <1>2. pc[r] = "idle" /\ DOMAIN retry = Request
    BY <1>0 DEF CallsOwned, CallOwned, KeyInv, IdemTyped
  <1>3. KeyInv'
    BY <1>0, KeyAnswer
  <1>4. CallsOwned'
    <2>1. CallOwned(retry'[r], pc'[r], call'[r])
      BY <1>1, <1>2 DEF CallOwned
    <2>2. \A q \in Request \ {r} : pc'[q] = pc[q] /\ call'[q] = call[q] /\ retry'[q] = retry[q]
      BY <1>1, <1>2
    <2> QED
      BY <1>0, <2>1, <2>2, OneThread
  <1>5. StoredMatches'
    BY <1>0, <1>1, SameSecrets
  <1>6. SuccessIsStored'
    BY <1>1, ExistingMatches, AnswerIsStored
  <1> QED
    BY <1>3, <1>4, <1>5, <1>6

\* An attempt starts its create.
LEMMA CreateKeeps ==
    ASSUME IdemInv, NEW r \in Request, create_reserved(r)
    PROVE  KeyInv' /\ CallsOwned' /\ StoredMatches' /\ SuccessIsStored'
  <1>0. KeyInv /\ CallsOwned /\ StoredMatches /\ TypeInv
    BY DEF IdemInv
  <1>1. retry[r] # None /\ retry[r].stage = "reserved" /\ UNCHANGED reservations
    BY DEF create_reserved
  <1>2. CASE secrets[retry[r].id] # None /\ Answer(r) /\ UNCHANGED vars
    BY <1>1, <1>2, FoundKeeps
  <1>3. CASE /\ create_secret(r, retry[r].id, retry[r].body.name, retry[r].body.payload)
             /\ retry' = [retry EXCEPT ![r] = [@ EXCEPT !.stage = "creating"]]
             /\ response' = None /\ UNCHANGED answers
    <2> DEFINE w == [retry[r] EXCEPT !.stage = "creating"]
    <2>1. KeyInv'
      BY <1>0, <1>1, <1>3, KeyStage
    <2>2. retry[r] \in Attempt
      BY <1>0, <1>1, AttemptTyped
    <2>3. w \in Attempt /\ w.stage = "creating" /\ w.id = retry[r].id /\ w.body = retry[r].body
      BY <2>2 DEF Attempt
    <2>4. retry' = [retry EXCEPT ![r] = w]
      BY <1>3
    <2>5. /\ call' = [call EXCEPT ![r] = CreateOf(retry[r])] /\ pc' = [pc EXCEPT ![r] = "audit"]
          /\ UNCHANGED <<secrets, versions>>
      BY <1>3 DEF create_secret, Begin, CreateOf, store
    <2>6. DOMAIN pc = Request /\ DOMAIN call = Request /\ DOMAIN retry = Request
      BY <1>0 DEF TypeInv, TypeOK, KeyInv, IdemTyped
    <2> HIDE DEF w
    <2>7. CreateOf(w) = CreateOf(retry[r])
      BY <2>3 DEF CreateOf
    <2>8. retry'[r] = w /\ pc'[r] = "audit" /\ call'[r] = CreateOf(w)
      BY <2>4, <2>5, <2>6, <2>7
    <2>9. CallOwned(retry'[r], pc'[r], call'[r])
      <3>1. w # None
        BY <2>3, AttemptAssumption
      <3> QED
        BY <2>3, <2>8, <3>1 DEF CallOwned
    <2>10. \A q \in Request \ {r} : pc'[q] = pc[q] /\ call'[q] = call[q] /\ retry'[q] = retry[q]
      BY <2>4, <2>5, <2>6
    <2>11. CallsOwned'
      BY <1>0, <2>9, <2>10, OneThread
    <2>12. StoredMatches'
      BY <1>0, <1>1, <2>5, SameSecrets
    <2>13. SuccessIsStored'
      BY <1>3 DEF SuccessIsStored
    <2> QED
      BY <2>1, <2>11, <2>12, <2>13
  <1> QED
    BY <1>2, <1>3 DEF create_reserved

\* A retry that lost to another one looks its id up again.
LEMMA AfterConflictKeeps ==
    ASSUME IdemInv, NEW r \in Request, after_conflict(r)
    PROVE  KeyInv' /\ CallsOwned' /\ StoredMatches' /\ SuccessIsStored'
  <1>0. KeyInv /\ CallsOwned /\ StoredMatches
    BY DEF IdemInv
  <1>1. /\ retry[r] # None /\ retry[r].stage = "conflict"
        /\ UNCHANGED <<vars, reservations>>
    BY DEF after_conflict
  <1>2. CASE secrets[retry[r].id] # None /\ Answer(r)
    BY <1>1, <1>2, FoundKeeps
  <1>3. CASE /\ response' = [request |-> r, status |-> "conflict"]
             /\ retry' = [retry EXCEPT ![r] = None] /\ UNCHANGED answers
    <2>1. UNCHANGED <<pc, call, secrets, versions>>
      BY <1>1 DEF vars, store
    <2>2. pc[r] = "idle" /\ DOMAIN retry = Request
      BY <1>0, <1>1 DEF CallsOwned, CallOwned, KeyInv, IdemTyped
    <2>3. KeyInv'
      BY <1>0, <1>1, <1>3, KeyMove
    <2>4. CallOwned(retry'[r], pc'[r], call'[r])
      BY <1>3, <2>1, <2>2 DEF CallOwned
    <2>5. \A q \in Request \ {r} : pc'[q] = pc[q] /\ call'[q] = call[q] /\ retry'[q] = retry[q]
      BY <1>3, <2>1, <2>2
    <2>6. CallsOwned'
      BY <1>0, <2>4, <2>5, OneThread
    <2>7. StoredMatches'
      BY <1>0, <1>1, <2>1, SameSecrets
    <2>8. SuccessIsStored'
      BY <1>3 DEF SuccessIsStored
    <2> QED
      BY <2>3, <2>6, <2>7, <2>8
  <1> QED
    BY <1>2, <1>3 DEF after_conflict

\* A step of the create of an attempt, and what its result makes of it.
LEMMA CreatingKeeps ==
    ASSUME IdemInv, NEW r \in Request, creating(r)
    PROVE  KeyInv' /\ CallsOwned' /\ StoredMatches' /\ SuccessIsStored'
  <1>0. KeyInv /\ CallsOwned /\ TypeInv
    BY DEF IdemInv
  <1>1. retry[r] # None /\ retry[r].stage = "creating" /\ Step(r) /\ UNCHANGED reservations
    BY DEF creating
  <1>2. /\ StoredMatches'
        /\ pc'[r] = "idle" /\ reply'.status = "ok" =>
              /\ secrets'[retry[r].id] # None
              /\ secrets'[retry[r].id].name = retry[r].body.name
              /\ versions'[retry[r].id][1] = retry[r].body.payload
    BY <1>1, StepMatches
  <1>3. /\ \A q \in Request \ {r} : pc'[q] = pc[q] /\ call'[q] = call[q]
        /\ pc'[r] # "idle" /\ call[r].action = "secret:create" => call'[r] = call[r]
    BY <1>0, <1>1, StepThreads
  <1>4. CallOwned(retry[r], pc[r], call[r]) /\ DOMAIN retry = Request /\ retry[r] \in Attempt
    BY <1>0, <1>1, AttemptTyped DEF CallsOwned, KeyInv, IdemTyped
  <1>5. ASSUME NEW w, retry' = [retry EXCEPT ![r] = w], CallOwned(w, pc'[r], call'[r])
        PROVE  CallsOwned'
    <2>1. retry'[r] = w /\ \A q \in Request \ {r} : retry'[q] = retry[q]
      BY <1>4, <1>5
    <2> QED
      BY <1>0, <1>3, <1>5, <2>1, OneThread
  <1>6. CASE pc'[r] # "idle" /\ response' = None /\ UNCHANGED <<retry, answers>>
    <2>1. KeyInv'
      BY <1>0, <1>1, <1>6 DEF KeyInv, IdemTyped, RetryReserved, IdsApart, OneAnswerPerKey
    <2>2. call[r].action = "secret:create" /\ call[r] = CreateOf(retry[r])
      BY <1>1, <1>4, SMTT(60) DEF CallOwned, CreateOf
    <2>3. CallOwned(retry[r], pc'[r], call'[r])
      BY <1>1, <1>3, <1>6, <2>2 DEF CallOwned
    <2>4. retry' = [retry EXCEPT ![r] = retry[r]]
      BY <1>0, <1>6 DEF KeyInv, IdemTyped
    <2>5. CallsOwned'
      BY <1>5, <2>3, <2>4
    <2>6. SuccessIsStored'
      BY <1>6 DEF SuccessIsStored
    <2> QED
      BY <1>2, <2>1, <2>5, <2>6
  <1>7. CASE pc'[r] = "idle" /\ reply'.status = "ok" /\ Answer(r)
    <2>1. KeyInv'
      BY <1>0, <1>1, <1>7, KeyAnswer
    <2>2. CallsOwned'
      BY <1>5, <1>7 DEF Answer, CallOwned
    <2>3. SuccessIsStored'
      BY <1>2, <1>7, AnswerIsStored
    <2> QED
      BY <1>2, <2>1, <2>2, <2>3
  <1>8. CASE /\ pc'[r] = "idle" /\ reply'.status # "ok"
             /\ response' = [request |-> r, status |-> reply'.status]
             /\ retry' = [retry EXCEPT ![r] = None] /\ UNCHANGED answers
    <2>1. KeyInv'
      BY <1>0, <1>1, <1>8, KeyMove
    <2>2. CallsOwned'
      BY <1>5, <1>8 DEF CallOwned
    <2>3. SuccessIsStored'
      <3> DEFINE a == [request |-> r, status |-> reply'.status]
      <3>1. response' = a /\ a.status # "ok"
        BY <1>8
      <3> HIDE DEF a
      <3> QED
        BY <3>1 DEF SuccessIsStored
    <2> QED
      BY <1>2, <2>1, <2>2, <2>3
  <1>9. CASE /\ pc'[r] = "idle"
             /\ retry' = [retry EXCEPT ![r] = [@ EXCEPT !.stage = "conflict"]]
             /\ response' = None /\ UNCHANGED answers
    <2> DEFINE w == [retry[r] EXCEPT !.stage = "conflict"]
    <2>1. KeyInv'
      BY <1>0, <1>1, <1>9, KeyStage
    <2>2. w \in Attempt /\ w.stage = "conflict"
      BY <1>4 DEF Attempt
    <2>3. retry' = [retry EXCEPT ![r] = w]
      BY <1>9
    <2> HIDE DEF w
    <2>4. w # None
      BY <2>2, AttemptAssumption
    <2>5. CallOwned(w, pc'[r], call'[r])
      BY <1>9, <2>2, <2>4 DEF CallOwned
    <2>6. CallsOwned'
      BY <1>5, <2>3, <2>5
    <2>7. SuccessIsStored'
      BY <1>9 DEF SuccessIsStored
    <2> QED
      BY <1>2, <2>1, <2>6, <2>7
  <1> QED
    BY <1>6, <1>7, <1>8, <1>9 DEF creating

\* The other requests create nothing.
LEMMA OthersKeep ==
    ASSUME IdemInv, NEW r \in Request, OtherArrive(r) \/ OtherStep(r)
    PROVE  KeyInv' /\ CallsOwned' /\ StoredMatches' /\ SuccessIsStored'
  <1>0. KeyInv /\ CallsOwned /\ StoredMatches /\ TypeInv
    BY DEF IdemInv
  <1>1. retry[r] = None /\ response' = None /\ UNCHANGED <<reservations, retry, answers>>
    BY DEF OtherArrive, OtherStep
  <1>2. KeyInv'
    BY <1>0, <1>1 DEF KeyInv, IdemTyped, RetryReserved, IdsApart, OneAnswerPerKey
  <1>3. SuccessIsStored'
    BY <1>1 DEF SuccessIsStored
  <1>4. DOMAIN pc = Request /\ DOMAIN call = Request
    BY <1>0 DEF TypeInv, TypeOK
  <1>5. ASSUME \A q \in Request \ {r} : pc'[q] = pc[q] /\ call'[q] = call[q],
               pc'[r] # "idle" => call'[r].action # "secret:create"
        PROVE  CallsOwned'
    <2>1. CallOwned(retry'[r], pc'[r], call'[r])
      BY <1>1, <1>5 DEF CallOwned
    <2> QED
      BY <1>0, <1>1, <1>5, <2>1, OneThread
  <1>6. CASE OtherStep(r)
    <2>1. Step(r)
      BY <1>6 DEF OtherStep
    <2>2. StoredMatches'
      BY <1>1, <2>1, StepMatches
    <2>3. call[r].action # "secret:create"
      BY <1>0, <1>1, <2>1, StepThreads DEF CallsOwned, CallOwned
    <2>4. CallsOwned'
      BY <1>0, <1>5, <2>1, <2>3, StepThreads
    <2> QED
      BY <1>2, <1>3, <2>2, <2>4
  <1>7. CASE OtherArrive(r)
    <2>1. ASSUME NEW c, c.action # "secret:create", NEW step, Begin(r, c, step)
          PROVE  UNCHANGED <<secrets, versions>> /\ CallsOwned'
      BY <1>4, <1>5, <2>1 DEF Begin, store
    <2>2. ASSUME NEW status, Refuse(r, status)
          PROVE  UNCHANGED <<secrets, versions>> /\ CallsOwned'
      BY <1>4, <1>5, <2>2 DEF Refuse, Fail, Reply, store
    <2>3. ASSUME NEW s, NEW ver, NEW rev, NEW p, update_secret(r, s, ver, rev, p)
          PROVE  UNCHANGED <<secrets, versions>> /\ CallsOwned'
      BY <2>1, <2>2, <2>3 DEF update_secret
    <2>4. ASSUME NEW s, NEW rev, NEW t \in Transition, change_lifecycle(r, s, rev, t)
          PROVE  UNCHANGED <<secrets, versions>> /\ CallsOwned'
      <3>1. t.action # "secret:create"
        BY SMTT(60) DEF Transition
      <3> QED
        BY <2>1, <2>2, <2>4, <3>1 DEF change_lifecycle
    <2>5. ASSUME NEW s, NEW rev, NEW retained, purge_secret_after_owner_approval(r, s, rev, retained)
          PROVE  UNCHANGED <<secrets, versions>> /\ CallsOwned'
      BY <2>1, <2>2, <2>5 DEF purge_secret_after_owner_approval
    <2>6. UNCHANGED <<secrets, versions>> /\ CallsOwned'
      BY <1>7, <2>3, <2>4, <2>5 DEF OtherArrive
    <2>7. StoredMatches'
      BY <1>0, <1>1, <2>6, SameSecrets
    <2> QED
      BY <1>2, <1>3, <2>6, <2>7
  <1> QED
    BY <1>6, <1>7

LEMMA IdemKept ==
    ASSUME IdemInv, [IdemNext]_<<vars, idemVars>>
    PROVE  IdemInv'
  <1> DEFINE Goal == KeyInv' /\ CallsOwned' /\ StoredMatches' /\ SuccessIsStored'
  <1>0. TypeInv /\ AuditInv /\ CreatedIsLogged /\ KeyInv /\ CallsOwned /\ StoredMatches /\ SuccessIsStored
    BY DEF IdemInv
  <1>1. [Next]_vars
    BY <1>0, IdemIsSteps
  <1>2. TypeInv' /\ AuditInv' /\ CreatedIsLogged'
    BY <1>0, <1>1, NextTyped, NextAudit, NextLogged
  <1>3. ASSUME UNCHANGED <<vars, idemVars>>
        PROVE  Goal
    <2>1. UNCHANGED <<secrets, versions, pc, call, reservations, retry, response, answers>>
      BY <1>3 DEF vars, store, idemVars
    <2>2. KeyInv'
      BY <1>0, <2>1 DEF KeyInv, IdemTyped, RetryReserved, IdsApart, OneAnswerPerKey
    <2>3. CallsOwned' /\ SuccessIsStored'
      BY <1>0, <2>1 DEF CallsOwned, SuccessIsStored
    <2>4. StoredMatches'
      BY <1>0, <2>1, SameSecrets
    <2> QED
      BY <2>2, <2>3, <2>4
  <1>4. ASSUME Restart
        PROVE  Goal
    <2>1. /\ retry' = [r \in Request |-> None] /\ pc' = [r \in Request |-> "idle"]
          /\ response' = None /\ UNCHANGED <<reservations, answers, secrets, versions>>
      BY <1>4 DEF Restart, Crash, store
    <2>2. KeyInv'
      BY <1>0, <2>1, KeyRestart
    <2>3. CallsOwned'
      BY <2>1 DEF CallsOwned, CallOwned
    <2>4. StoredMatches'
      BY <1>0, <2>1, SameSecrets
    <2> QED
      BY <2>1, <2>2, <2>3, <2>4 DEF SuccessIsStored
  <1>5. ASSUME NEW k \in Key, Expire(k)
        PROVE  Goal
    <2>1. /\ reservations' = [reservations EXCEPT ![k] = None]
          /\ response' = None /\ UNCHANGED <<retry, pc, call, secrets, versions>>
      BY <1>5 DEF Expire, vars, store
    <2>2. KeyInv'
      BY <1>0, <1>5, KeyExpire
    <2>3. CallsOwned'
      BY <1>0, <2>1 DEF CallsOwned
    <2>4. \A j \in Key : reservations'[j] # None => reservations'[j] = reservations[j]
      BY <1>0, <2>1 DEF KeyInv, IdemTyped
    <2>5. StoredMatches'
      BY <1>0, <2>1, <2>4, SameSecrets
    <2> QED
      BY <2>1, <2>2, <2>3, <2>5 DEF SuccessIsStored
  <1>6. Goal
    <2> HIDE DEF Goal
    <2>1. ASSUME NEW r \in Request,
                 \/ \E k \in Key, body \in Body : reserve_idempotency(r, k, body)
                 \/ create_reserved(r) \/ creating(r) \/ after_conflict(r)
                 \/ OtherArrive(r) \/ OtherStep(r)
          PROVE  Goal
      BY <2>1, ReserveKeeps, CreateKeeps, CreatingKeeps, AfterConflictKeeps, OthersKeep DEF Goal
    <2> QED
      BY <1>3, <1>4, <1>5, <2>1 DEF IdemNext
  <1> QED
    BY <1>2, <1>6 DEF IdemInv

LEMMA IdemInvariant == IdemSpec => []IdemInv
  BY InitIdemInv, IdemKept, PTL DEF IdemSpec

\* create_secret_idempotent: a success names a stored secret with the name and
\* first value of this very request, whatever attempts raced or crashed and
\* whatever updates, lifecycle changes and purges ran beside them.
THEOREM SuccessesAreStored == IdemSpec => []SuccessIsStored
  BY IdemInvariant, PTL DEF IdemInv

\* All successes under one Idempotency-Key name the id reserved for it.
THEOREM KeysHaveOneAnswer == IdemSpec => []OneAnswerPerKey
  BY IdemInvariant, PTL DEF IdemInv, KeyInv
=============================================================================
