-------------------------- MODULE KekRotationProofs --------------------------
(***************************************************************************)
(* That the key ring follows the registry, that readers find their keys,   *)
(* that only late rows need a retired key, that a batch mixes up no data   *)
(* keys and skips no row, and that a crash leaves a vault that opens, for  *)
(* any number of threads, records, rotations, batches and crashes.         *)
(*                                                                         *)
(* The durable state is determined by the active version and by whether a  *)
(* rotation is under way.  The ring is behind it only while the thread     *)
(* that committed still holds audit_gate.  The rows under the source that  *)
(* are not late only become fewer during a scan.  One provider wraps all   *)
(* keys that are not retired.                                              *)
(***************************************************************************)
EXTENDS KekRotation, FiniteSetTheorems, WellFoundedInduction, TLAPS

\* The time each prover may take for a step.
USE ZenonT(60), SMTT(60)

Active == installation.active_kek_version
Rotating == installation.activation_state = "maintenance"

Pcs ==
    {"idle", "seal", "decrypt", "source", "wrap", "begin", "install", "loop", "query",
     "rewrap", "apply", "advance", "retire", "registry", "reprotect", "replace", "verify"}
Gated == {"install", "retire", "verify"}
Scanning == {"loop", "query", "advance", "rewrap", "apply"}

\* The fields of a call that the steps of its thread rely on.
CallTyped(c) ==
    /\ c.pc \in Pcs
    /\ c.pc = "seal" =>
          /\ c = [pc |-> "seal", plan |-> c.plan, sealed |-> c.sealed]
          /\ Len(c.plan) \in Nat /\ DOMAIN c.plan = 1..Len(c.plan)
          /\ c.sealed \in Seq(Version)
    /\ c.pc \in {"wrap", "begin"} => c.source \in Version /\ c.source + 1 \in Version
    /\ c.pc = "begin" => c.root \in Provider \union {None}
    /\ c.pc = "decrypt" => c.row.kek \in Version
    /\ c.pc \in Scanning => c.job \in Job
    /\ c.pc \in {"loop", "query", "advance"} =>
          c = [pc |-> c.pc, job |-> c.job, left |-> c.left, probing |-> c.probing]
    /\ c.pc \in {"rewrap", "apply"} =>
          /\ c = [pc |-> c.pc, job |-> c.job, left |-> c.left, items |-> c.items]
          /\ DOMAIN c.items \subseteq 1..MaxRow /\ DOMAIN c.items # {}
    /\ c.pc \in Scanning \ {"loop"} => c.job.stage <= 4
    /\ c.pc \in {"registry", "reprotect", "replace", "verify"} => c.replacement \in Provider
    /\ c.pc = "reprotect" =>
          c = [pc |-> c.pc, replacement |-> c.replacement, keys |-> c.keys]

RotationTyped ==
    /\ registry \in [Version -> [state : {"absent", "active", "retiring", "retired"},
                                 root : Provider \union {None}]]
    /\ installation \in [activation_state : {"ready", "maintenance"},
                         active_kek_version : Version]
    /\ job \in Job \union {None}
    /\ rows = [t \in Table |-> rows[t]]
    /\ \A t \in Table :
          /\ rows[t] = [i \in DOMAIN rows[t] |-> rows[t][i]]
          /\ DOMAIN rows[t] \subseteq 1..MaxRow
          /\ \A i \in DOMAIN rows[t] : rows[t][i].kek \in Version /\ rows[t][i].late \in BOOLEAN
    /\ ring \in [active : Version \union {0}, keys : SUBSET Version]
    /\ root \in Provider \union {None}
    /\ audit_gate \in Thread \union {None}
    /\ call = [t \in Thread |-> call[t]]
    /\ \A t \in Thread : CallTyped(call[t])

\* The states of all keys follow from the active version and the state of activation.
StateOf(v) ==
    IF v > Active THEN "absent"
    ELSE IF v = Active THEN "active"
    ELSE IF v = Active - 1 /\ Rotating THEN "retiring"
    ELSE "retired"

RegistryValid ==
    /\ \A v \in Version : registry[v].state = StateOf(v)
    /\ Rotating => /\ job # None /\ Active - 1 \in Version
                   /\ job.source = Active - 1 /\ job.target = Active
    /\ ~Rotating => job = None

\* A copy of a job is of a rotation that was begun.
CopiesBegun ==
    \A t \in Thread : call[t].pc \in Scanning =>
       call[t].job.target = call[t].job.source + 1 /\ call[t].job.target <= Active

\* A process that is down does nothing; the gate is held just by the thread that
\* goes on after its commit.
GateOwned ==
    /\ ~Running => audit_gate = None /\ \A t \in Thread : call[t].pc = "idle"
    /\ \A t \in Thread : call[t].pc \in Gated <=> audit_gate = t

\* The ring while the gate is held.
RingBehind ==
    \A t \in Thread :
       /\ call[t].pc = "install" =>
             /\ Rotating /\ call[t].target = Active
             /\ ring = [active |-> Active - 1, keys |-> {Active - 1}]
       /\ call[t].pc = "retire" =>
             /\ ~Rotating /\ call[t].source = Active - 1 /\ Active - 1 \in Version
             /\ ring = [active |-> Active, keys |-> {Active - 1, Active}]
       /\ call[t].pc = "verify" =>
             ring = [active |-> Active, keys |-> Nonretired]

\* A key that the ring may not hold yet has sealed nothing.
UsableIn(v, active, calls) ==
    v < active \/ (v = active /\ \A t \in Thread : calls[t].pc # "install")
Usable(v) == UsableIn(v, Active, call)

KeysUsable ==
    /\ \A t \in Table : \A i \in DOMAIN rows[t] : Usable(rows[t][i].kek)
    /\ \A t \in Thread :
          /\ call[t].pc = "seal" => \A i \in DOMAIN call[t].sealed : Usable(call[t].sealed[i])
          /\ call[t].pc = "decrypt" => Usable(call[t].row.kek)
          /\ call[t].pc = "apply" => Usable(call[t].job.target)

KInv ==
    /\ RotationTyped /\ RegistryValid /\ CopiesBegun /\ GateOwned /\ RingBehind /\ KeysUsable
    /\ RingMatchesRegistry /\ RetiredUnneededUnlessLate

-----------------------------------------------------------------------------
(* Sets of rowids.                                                         *)

\* A set of numbers that is not empty has a least one.
LEMMA LeastOf ==
    ASSUME NEW S, S \subseteq Nat, S # {}
    PROVE  \E x \in S : \A y \in S : x <= y
  <1>1. PICK x \in S : \A y \in S : ~(<<y, x>> \in OpToRel(<, Nat))
    BY WFMin, NatLessThanWellFounded
  <1>2. \A y \in S : ~(y < x)
    BY <1>1 DEF OpToRel
  <1> QED
    BY <1>2, SMTT(60)

\* A set of rowids that is not empty has a greatest one, which Max finds.
LEMMA MaxOf ==
    ASSUME NEW n \in Nat, NEW S, S \subseteq 1..n, S # {}
    PROVE  Max(S) \in S /\ \A y \in S : Max(S) >= y
  <1> DEFINE T == {k \in Nat : n - k \in S}
  <1>1. T \subseteq Nat /\ T # {}
    <2>1. PICK x \in S : TRUE
      OBVIOUS
    <2>2. n - x \in Nat /\ n - (n - x) = x
      BY <2>1, SMTT(60)
    <2>3. n - x \in T
      BY <2>2
    <2> QED
      BY <2>3
  <1>2. PICK z \in T : \A y \in T : z <= y
    BY <1>1, LeastOf
  <1>3. \A y \in S : n - z >= y
    <2> TAKE y \in S
    <2>1. y \in 1..n
      OBVIOUS
    <2>2. n - y \in Nat /\ n - (n - y) = y
      BY <2>1, SMTT(60)
    <2>3. n - y \in T
      BY <2>2
    <2>4. z \in Nat /\ y \in Nat
      BY <1>1, <2>1, SMTT(60)
    <2> HIDE DEF T
    <2>5. z <= n - y
      BY <1>2, <2>3
    <2> QED
      BY <2>4, <2>5, SMTT(60)
  <1>4. n - z \in S
    BY <1>2
  <1> QED
    BY <1>3, <1>4 DEF Max

\* The stages but the last scan a table each.
LEMMA StageTables ==
    /\ \A i \in 1..4 : Stages[i] \in Scanned /\ Stages[i] # "finalize"
    /\ \A i, j \in 1..4 : Stages[i] = Stages[j] => i = j
    /\ Scanned \subseteq Table
    /\ Stages[5] = "finalize"
  BY SMTT(60) DEF Stages, Scanned, Table

-----------------------------------------------------------------------------
\* The keys that are not retired.
LEMMA NonretiredKeys ==
    ASSUME RotationTyped, RegistryValid
    PROVE  Nonretired = IF Rotating THEN {Active - 1, Active} ELSE {Active}
  <1>1. Active \in 1..MaxKeyVersion /\ MaxKeyVersion \in Nat
    BY RotationAssumption DEF RotationTyped, Active, Version
  <1>2. \A v \in Version : v \in Nonretired <=> StateOf(v) \in {"active", "retiring"}
    BY DEF Nonretired, RegistryValid
  <1> QED
    BY <1>1, <1>2, SMTT(60) DEF StateOf, RegistryValid, Nonretired, Version

\* The rows of a state, with keys that are in use and late marks where they must be.
RowKept(t, r) ==
    /\ r.kek \in Version /\ r.late \in BOOLEAN /\ Usable(r.kek)
    /\ t \in Scanned /\ registry[r.kek].state = "retired" => r.late

TableKept(t, table) ==
    /\ table = [i \in DOMAIN table |-> table[i]]
    /\ DOMAIN table \subseteq 1..MaxRow
    /\ \A i \in DOMAIN table : RowKept(t, table[i])

RowsKept(rs) ==
    /\ rs = [t \in Table |-> rs[t]]
    /\ \A t \in Table : TableKept(t, rs[t])

\* The rows are so in every state of the invariant.
LEMMA RowsAreKept == KInv => RowsKept(rows)
  BY StageTables, SMTT(60) DEF KInv, RotationTyped, KeysUsable, RetiredUnneededUnlessLate, Rows, RowsKept,
                         TableKept, RowKept

\* The call that a thread goes on with, outside the gate.
Plain(next) ==
    /\ CallTyped(next) /\ next.pc \notin Gated
    /\ next.pc \in Scanning =>
          next.job.target = next.job.source + 1 /\ next.job.target <= Active
    /\ next.pc = "seal" => \A i \in DOMAIN next.sealed : Usable(next.sealed[i])
    /\ next.pc = "decrypt" => Usable(next.row.kek)
    /\ next.pc = "apply" => Usable(next.job.target)

\* The same rotation, further on.
SameRotation(next) ==
    next = job \/ (/\ job # None /\ next \in Job
                   /\ next.source = job.source /\ next.target = job.target)

\* A step outside the gate that changes no key.
LEMMA PlainStep ==
    ASSUME KInv, NEW t \in Thread, NEW next, Running,
           call[t].pc \notin Gated, Plain(next), call' = [call EXCEPT ![t] = next],
           SameRotation(job'), RowsKept(rows'),
           UNCHANGED <<registry, installation, memory, audit_gate>>
    PROVE  KInv'
  <1>1. \A u \in Thread : call'[u] = IF u = t THEN next ELSE call[u]
    BY DEF KInv, RotationTyped
  <1>2. UNCHANGED <<registry, installation, ring, root, audit_gate, Active, Rotating, Running>>
    BY DEF memory, Active, Rotating, Running
  <1>3. RotationTyped'
    <2>1. call' = [u \in Thread |-> call'[u]] /\ \A u \in Thread : CallTyped(call'[u])
      BY <1>1 DEF KInv, RotationTyped, Plain
    <2>2. job' \in Job \union {None}
      BY DEF KInv, RotationTyped, SameRotation
    <2>3. /\ rows' = [u \in Table |-> rows'[u]]
          /\ \A u \in Table :
                /\ rows'[u] = [i \in DOMAIN rows'[u] |-> rows'[u][i]]
                /\ DOMAIN rows'[u] \subseteq 1..MaxRow
                /\ \A i \in DOMAIN rows'[u] :
                      rows'[u][i].kek \in Version /\ rows'[u][i].late \in BOOLEAN
      BY DEF RowsKept, TableKept, RowKept
    <2>4. \A u \in Thread : CallTyped(call[u])'
      BY <2>1 DEF CallTyped
    <2> QED
      BY <1>2, <2>1, <2>2, <2>3, <2>4 DEF KInv, RotationTyped
  <1>4. RegistryValid'
    <2>1. \A v \in Version : StateOf(v)' = StateOf(v)
      BY <1>2 DEF StateOf
    <2>2. job = None <=> job' = None
      BY AbsenceAssumption DEF SameRotation
    <2> QED
      BY <1>2, <2>1, <2>2 DEF KInv, RegistryValid, SameRotation
  <1>5. CopiesBegun'
    BY <1>1, <1>2 DEF KInv, CopiesBegun, Plain
  <1>6. GateOwned'
    BY <1>1, <1>2 DEF KInv, GateOwned, Plain
  <1>7. Nonretired' = Nonretired
    BY <1>2 DEF Nonretired
  <1>8. RingBehind'
    BY <1>1, <1>2, <1>7 DEF KInv, RingBehind, Plain, Gated
  <1>9. \A v \in Version : Usable(v) => UsableIn(v, Active', call')
    BY <1>1, <1>2 DEF Usable, UsableIn, Plain, Gated
  <1>10. KeysUsable'
    <2>1. \A u \in Table : \A i \in DOMAIN rows'[u] : UsableIn(rows'[u][i].kek, Active', call')
      BY <1>9 DEF RowsKept, TableKept, RowKept
    <2>2. ASSUME NEW u \in Thread, call'[u].pc = "seal", NEW i \in DOMAIN call'[u].sealed
          PROVE  UsableIn(call'[u].sealed[i], Active', call')
      <3>1. CallTyped(call'[u])
        BY <1>1 DEF KInv, RotationTyped, Plain
      <3>2. call'[u].sealed \in Seq(Version)
        BY <3>1, <2>2 DEF CallTyped
      <3>3. call'[u].sealed[i] \in Version
        BY <3>2, <2>2, SMTT(60)
      <3>4. Usable(call'[u].sealed[i])
        BY <1>1, <2>2 DEF KInv, KeysUsable, Plain
      <3> QED
        BY <3>3, <3>4, <1>9
    <2>3. ASSUME NEW u \in Thread, call'[u].pc = "decrypt" PROVE UsableIn(call'[u].row.kek, Active', call')
      <3>1. CallTyped(call'[u])
        BY <1>1 DEF KInv, RotationTyped, Plain
      <3>2. call'[u].row.kek \in Version
        BY <3>1, <2>3 DEF CallTyped
      <3>3. Usable(call'[u].row.kek)
        BY <1>1, <2>3 DEF KInv, KeysUsable, Plain
      <3> QED
        BY <3>2, <3>3, <1>9
    <2>4. ASSUME NEW u \in Thread, call'[u].pc = "apply" PROVE UsableIn(call'[u].job.target, Active', call')
      <3>1. CallTyped(call'[u])
        BY <1>1 DEF KInv, RotationTyped, Plain
      <3>2. call'[u].job.target \in Version
        BY <3>1, <2>4 DEF CallTyped, Scanning, Job
      <3>3. Usable(call'[u].job.target)
        BY <1>1, <2>4 DEF KInv, KeysUsable, Plain
      <3> QED
        BY <3>2, <3>3, <1>9
    <2> QED
      BY <2>1, <2>2, <2>3, <2>4 DEF KeysUsable, Usable
  <1>11. RingMatchesRegistry'
    BY <1>2, <1>7 DEF KInv, RingMatchesRegistry, Active
  <1>12. RetiredUnneededUnlessLate'
    BY <1>2, StageTables, SMTT(60) DEF RowsKept, TableKept, RowKept, RetiredUnneededUnlessLate, Rows
  <1> QED
    BY <1>3, <1>4, <1>5, <1>6, <1>8, <1>10, <1>11, <1>12 DEF KInv

\* A step that changes only what its thread is doing.
LEMMA CallStep ==
    ASSUME KInv, NEW t \in Thread, NEW next, Running,
           call[t].pc \notin Gated, Plain(next), call' = [call EXCEPT ![t] = next],
           UNCHANGED <<registry, installation, job, rows, memory, audit_gate>>
    PROVE  KInv'
  <1>1. RowsKept(rows') /\ SameRotation(job')
    BY RowsAreKept DEF SameRotation
  <1> QED
    BY <1>1, PlainStep

\* A thread that is between two operations, and one that is in the middle of one.
LEMMA IdlePlain == Plain(Idle) /\ Idle.pc = "idle"
  BY DEF Plain, CallTyped, Idle, Pcs, Gated, Scanning

\* A thread is busy only while the process runs.
LEMMA BusyRuns ==
    ASSUME KInv, NEW t \in Thread, call[t].pc # "idle"
    PROVE  Running
  BY DEF KInv, GateOwned

\* A handler that gives up, or is done.
LEMMA Returning ==
    ASSUME KInv, NEW t \in Thread, Running, call[t].pc \notin Gated, Return(t),
           UNCHANGED <<registry, installation, job, rows, memory, audit_gate>>
    PROVE  KInv'
  BY IdlePlain, CallStep DEF Return, Goto

\* The active key of the ring may be used.
LEMMA RingUsable ==
    ASSUME KInv, Running
    PROVE  ring.active \in Version /\ Usable(ring.active)
  <1> USE DEF KInv
  <1>1. Active \in Version /\ Active \in Nat
    BY SMTT(60) DEF RotationTyped, Active, Version
  <1>2. CASE audit_gate = None
    <2>1. ring.active = Active
      BY <1>2, SMTT(60) DEF RingMatchesRegistry, Active
    <2>2. \A t \in Thread : call[t].pc # "install"
      BY <1>2, RotationAssumption DEF GateOwned, Gated
    <2> QED
      BY <1>1, <2>1, <2>2 DEF Usable, UsableIn
  <1>3. CASE audit_gate # None
    <2>1. PICK t \in Thread : audit_gate = t
      BY <1>3 DEF RotationTyped
    <2>2. call[t].pc \in Gated /\ \A u \in Thread : call[u].pc \in Gated => u = t
      BY <2>1 DEF GateOwned
    <2>3. CASE call[t].pc = "install"
      <3>1. ring.active = Active - 1 /\ Active - 1 \in Version
        BY <2>3, SMTT(60) DEF RingBehind, RegistryValid
      <3> QED
        BY <1>1, <3>1, SMTT(60) DEF Usable, UsableIn
    <2>4. CASE call[t].pc \in {"retire", "verify"}
      <3>1. ring.active = Active
        BY <2>4, SMTT(60) DEF RingBehind
      <3>2. \A u \in Thread : call[u].pc # "install"
        BY <2>2, <2>4 DEF Gated
      <3> QED
        BY <1>1, <3>1, <3>2 DEF Usable, UsableIn
    <2> QED
      BY <2>2, <2>3, <2>4 DEF Gated
  <1> QED
    BY <1>2, <1>3

-----------------------------------------------------------------------------
(* The steps of writers and readers.                                       *)

\* A write is planned.
LEMMA Writing ==
    ASSUME KInv, NEW t \in Thread, NEW plan, call[t].pc = "idle", Running,
           Len(plan) \in Nat, DOMAIN plan = 1..Len(plan), Written(t, plan),
           UNCHANGED <<stored, memory, audit_gate>>
    PROVE  KInv'
  <1> DEFINE next == [pc |-> "seal", plan |-> plan, sealed |-> <<>>]
  <1>1. CallTyped(next)
    BY SMTT(60) DEF CallTyped, Pcs, Scanning
  <1>2. next.pc = "seal" /\ DOMAIN next.sealed = {}
    BY SMTT(60)
  <1> HIDE DEF next
  <1>3. Plain(next)
    BY <1>1, <1>2 DEF Plain, Gated, Scanning
  <1>4. call' = [call EXCEPT ![t] = next] /\ call[t].pc \notin Gated
    BY DEF Written, Goto, next, Gated
  <1> QED
    BY <1>3, <1>4, CallStep DEF stored

\* The operations that write.
LEMMA Requests ==
    ASSUME KInv, NEW t \in Thread,
           \/ \E table \in Table : create_record(t, table)
           \/ create_secret(t) \/ update_secret(t)
    PROVE  KInv'
  <1>1. ASSUME NEW table \in Table, create_record(t, table) PROVE KInv'
    <2>1. PICK o \in Random : Written(t, <<[table |-> table, id |-> <<o, 1>>]>>)
      BY <1>1 DEF create_record
    <2> QED
      BY <1>1, <2>1, Writing, SMTT(60) DEF create_record, Called
  <1>2. CASE create_secret(t)
    <2>1. PICK o \in Random :
             Written(t, <<[table |-> "secret_metadata", id |-> <<o, 1>>],
                          [table |-> "secret_versions", id |-> <<o, 1>>]>>)
      BY <1>2 DEF create_secret
    <2> QED
      BY <1>2, <2>1, Writing, SMTT(60) DEF create_secret, Called
  <1>3. CASE update_secret(t)
    <2>1. PICK part : Written(t, <<part>>)
      BY <1>3 DEF update_secret
    <2> QED
      BY <1>3, <2>1, Writing, SMTT(60) DEF update_secret, Called
  <1> QED
    BY <1>1, <1>2, <1>3

\* A part is sealed with the active key of the ring.
LEMMA Sealing ==
    ASSUME KInv, NEW t \in Thread, encrypt_record(t)
    PROVE  KInv'
  <1> DEFINE c == call[t]
             sealed == Append(c.sealed, ring.active)
             next == [c EXCEPT !.sealed = sealed]
  <1>1. c.pc = "seal" /\ CallTyped(c) /\ Running
    BY BusyRuns DEF encrypt_record, KInv, RotationTyped
  <1>2. /\ c = [pc |-> "seal", plan |-> c.plan, sealed |-> c.sealed]
        /\ Len(c.plan) \in Nat /\ DOMAIN c.plan = 1..Len(c.plan)
        /\ c.sealed \in Seq(Version)
    BY <1>1 DEF CallTyped
  <1>3. ring.active \in Version /\ Usable(ring.active)
    BY <1>1, RingUsable
  <1>4. sealed \in Seq(Version) /\ \A i \in DOMAIN sealed : Usable(sealed[i])
    <2>1. \A i \in DOMAIN c.sealed : Usable(c.sealed[i])
      BY <1>1 DEF KInv, KeysUsable
    <2> QED
      BY <1>2, <1>3, <2>1, SMTT(60)
  <1> HIDE DEF sealed
  <1>5. next = [pc |-> "seal", plan |-> c.plan, sealed |-> sealed]
    BY <1>2, SMTT(60)
  <1> HIDE DEF next, c
  <1>6. next.pc = "seal" /\ next.plan = c.plan /\ next.sealed = sealed
    BY <1>5
  <1>7. CallTyped(next)
    BY <1>2, <1>4, <1>5, <1>6 DEF CallTyped, Pcs, Scanning
  <1>8. Plain(next)
    BY <1>4, <1>6, <1>7 DEF Plain, Gated, Scanning
  <1>9. call' = [call EXCEPT ![t] = next] /\ call[t].pc \notin Gated
    BY <1>1 DEF encrypt_record, Goto, next, sealed, c, Gated
  <1> QED
    BY <1>1, <1>8, <1>9, CallStep DEF encrypt_record, stored

\* A record is loaded, and opened.
LEMMA Loading ==
    ASSUME KInv, NEW t \in Thread, load_record(t) \/ decrypt_record(t)
    PROVE  KInv'
  <1>1. CASE load_record(t)
    <2>0. PICK table \in Table : \E r \in Rows(table) : Goto(t, [pc |-> "decrypt", row |-> r])
      BY <1>1, StageTables DEF load_record
    <2>1. PICK i \in DOMAIN rows[table] : Goto(t, [pc |-> "decrypt", row |-> rows[table][i]])
      BY <2>0 DEF Rows
    <2> DEFINE next == [pc |-> "decrypt", row |-> rows[table][i]]
    <2>2. rows[table][i].kek \in Version /\ Usable(rows[table][i].kek)
      BY DEF KInv, RotationTyped, KeysUsable
    <2>3. next.pc = "decrypt" /\ next.row.kek \in Version /\ Usable(next.row.kek)
      BY <2>2
    <2> HIDE DEF next
    <2>4. Plain(next)
      BY <2>3 DEF Plain, CallTyped, Gated, Scanning, Pcs
    <2>5. call' = [call EXCEPT ![t] = next] /\ call[t].pc \notin Gated /\ Running
      BY <1>1, <2>1 DEF load_record, Called, Goto, next, Gated
    <2> QED
      BY <1>1, <2>4, <2>5, CallStep DEF load_record, stored
  <1>2. CASE decrypt_record(t)
    BY <1>2, BusyRuns, Returning DEF decrypt_record, stored, Gated
  <1> QED
    BY <1>1, <1>2

-----------------------------------------------------------------------------
(* The steps of a rotation outside the gate.                               *)

\* A rotation is prepared: its source is the active key of the ring.
LEMMA Preparing ==
    ASSUME KInv, NEW t \in Thread,
           start_kek_rotation(t) \/ source_version(t) \/ wrap_target(t)
    PROVE  KInv'
  <1>1. CASE start_kek_rotation(t)
    <2> DEFINE next == [pc |-> "source"]
    <2>1. Plain(next)
      BY DEF Plain, CallTyped, Gated, Scanning, Pcs
    <2> HIDE DEF next
    <2>2. call' = [call EXCEPT ![t] = next] /\ call[t].pc \notin Gated /\ Running
      BY <1>1 DEF start_kek_rotation, Called, Goto, next, Gated
    <2> QED
      BY <1>1, <2>1, <2>2, CallStep DEF start_kek_rotation, stored
  <1>2. CASE source_version(t)
    <2>1. Running /\ call[t].pc \notin Gated
      BY <1>2, BusyRuns DEF source_version, Gated
    <2>2. CASE Return(t)
      BY <1>2, <2>1, <2>2, Returning DEF source_version, stored
    <2>3. CASE ring.active < MaxKeyVersion /\ Goto(t, [pc |-> "wrap", source |-> ring.active])
      <3> DEFINE next == [pc |-> "wrap", source |-> ring.active]
      <3>1. ring.active \in Version
        BY <2>1, RingUsable
      <3>2. ring.active + 1 \in Version
        BY <2>3, <3>1, RotationAssumption, SMTT(60) DEF Version
      <3>3. Plain(next)
        BY <3>1, <3>2 DEF Plain, CallTyped, Gated, Scanning, Pcs
      <3> HIDE DEF next
      <3>4. call' = [call EXCEPT ![t] = next]
        BY <2>3 DEF Goto, next
      <3> QED
        BY <1>2, <2>1, <3>3, <3>4, CallStep DEF source_version, stored
    <2> QED
      BY <1>2, <2>2, <2>3 DEF source_version
  <1>3. CASE wrap_target(t)
    <2> DEFINE next == [pc |-> "begin", source |-> call[t].source, root |-> root]
    <2>1. Running /\ call[t].pc = "wrap" /\ call[t].pc \notin Gated
      BY <1>3, BusyRuns DEF wrap_target, Gated
    <2>2. /\ call[t].source \in Version /\ call[t].source + 1 \in Version
          /\ root \in Provider \union {None}
      BY <2>1 DEF KInv, RotationTyped, CallTyped
    <2>3. Plain(next)
      BY <2>2 DEF Plain, CallTyped, Gated, Scanning, Pcs
    <2> HIDE DEF next
    <2>4. call' = [call EXCEPT ![t] = next]
      BY <1>3 DEF wrap_target, Goto, next
    <2> QED
      BY <1>3, <2>1, <2>3, <2>4, CallStep DEF wrap_target, stored
  <1> QED
    BY <1>1, <1>2, <1>3

\* A loop over a copy of the job.
LEMMA LoopPlain ==
    ASSUME NEW pc \in {"loop", "query", "advance"}, NEW j \in Job, NEW left, NEW probing,
           pc # "loop" => j.stage <= 4, j.target = j.source + 1, j.target <= Active
    PROVE  Plain([pc |-> pc, job |-> j, left |-> left, probing |-> probing])
  <1> DEFINE next == [pc |-> pc, job |-> j, left |-> left, probing |-> probing]
  <1>1. /\ next.pc = pc /\ next.job = j
        /\ next = [pc |-> next.pc, job |-> next.job, left |-> next.left, probing |-> next.probing]
    OBVIOUS
  <1> HIDE DEF next
  <1>2. CallTyped(next)
    BY <1>1 DEF CallTyped, Scanning, Pcs
  <1>3. Plain(next)
    BY <1>1, <1>2 DEF Plain, Gated, Scanning
  <1> QED
    BY <1>3 DEF next

\* What a thread that scans knows of its copy.
LEMMA CopyTyped ==
    ASSUME KInv, NEW t \in Thread, call[t].pc \in Scanning
    PROVE  /\ call[t].job \in Job /\ call[t].pc \notin Gated /\ Running
           /\ call[t].job.target = call[t].job.source + 1 /\ call[t].job.target <= Active
           /\ call[t].pc # "loop" => call[t].job.stage <= 4
           /\ call[t].pc \in {"loop", "query", "advance"} =>
                 call[t] = [pc |-> call[t].pc, job |-> call[t].job, left |-> call[t].left,
                            probing |-> call[t].probing]
           /\ call[t].pc \in {"rewrap", "apply"} =>
                 /\ call[t] = [pc |-> call[t].pc, job |-> call[t].job, left |-> call[t].left,
                               items |-> call[t].items]
                 /\ DOMAIN call[t].items \subseteq 1..MaxRow /\ DOMAIN call[t].items # {}
  <1>1. CallTyped(call[t])
    BY DEF KInv, RotationTyped
  <1>2. call[t].pc # "idle" /\ call[t].pc \notin Gated
    BY DEF Scanning, Gated
  <1> QED
    BY <1>1, <1>2, BusyRuns DEF CallTyped, KInv, CopiesBegun, Scanning

\* resume_kek_rotation and the head of its loop.
LEMMA Looping ==
    ASSUME KInv, NEW t \in Thread,
           resume_kek_rotation(t) \/ batches_committed(t) \/ check_job(t)
    PROVE  KInv'
  <1>1. CASE resume_kek_rotation(t)
    <2>1. PICK n : call' = [call EXCEPT ![t] =
                              [pc |-> "loop", job |-> job, left |-> n, probing |-> FALSE]]
      BY <1>1 DEF resume_kek_rotation, Goto
    <2>2. job \in Job /\ job.target = job.source + 1 /\ job.target <= Active
      BY <1>1, SMTT(60) DEF resume_kek_rotation, KInv, RotationTyped, RegistryValid, Active, Version
    <2> DEFINE next == [pc |-> "loop", job |-> job, left |-> n, probing |-> FALSE]
    <2>3. Plain(next)
      BY <2>2, LoopPlain
    <2> HIDE DEF next
    <2>4. call' = [call EXCEPT ![t] = next] /\ call[t].pc \notin Gated /\ Running
      BY <1>1, <2>1 DEF resume_kek_rotation, Called, Gated, next
    <2> QED
      BY <1>1, <2>3, <2>4, CallStep DEF resume_kek_rotation, stored
  <1>2. CASE batches_committed(t)
    BY <1>2, BusyRuns, Returning DEF batches_committed, stored, Gated
  <1>3. CASE check_job(t)
    <2> DEFINE c == call[t]
               next == [c EXCEPT !.pc = "query"]
    <2>1. c.pc = "loop" /\ c.pc \in Scanning /\ ~Finalizing(c)
      BY <1>3 DEF check_job, Scanning
    <2>2. /\ c.job \in Job /\ c.pc \notin Gated /\ Running
          /\ c.job.target = c.job.source + 1 /\ c.job.target <= Active
          /\ c = [pc |-> c.pc, job |-> c.job, left |-> c.left, probing |-> c.probing]
      BY <2>1, CopyTyped
    <2>3. CASE Return(t)
      BY <1>3, <2>2, <2>3, Returning DEF check_job, stored
    <2>4. CASE Goto(t, next)
      <3>1. c.job.stage \in 1..5 /\ c.job.stage # 5
        BY <2>1, <2>2, StageTables DEF Job, Finalizing
      <3>2. next = [pc |-> "query", job |-> c.job, left |-> c.left, probing |-> c.probing]
        BY <2>2, SMTT(60)
      <3>3. c.job.stage <= 4
        BY <3>1, SMTT(60)
      <3>4. Plain(next)
        BY <2>2, <3>2, <3>3, LoopPlain, SMTT(60)
      <3> HIDE DEF next
      <3> QED
        BY <1>3, <2>2, <2>4, <3>4, CallStep DEF check_job, stored, Goto
    <2> QED
      BY <1>3, <2>3, <2>4 DEF check_job
  <1> QED
    BY <1>1, <1>2, <1>3

\* A batch of a scan that found rows is not empty.
LEMMA LowestOf ==
    ASSUME NEW S, S \subseteq Nat, S # {}
    PROVE  Lowest(S, BatchSize) # {} /\ Lowest(S, BatchSize) \subseteq S
  <1>1. PICK x \in S : \A y \in S : x <= y
    BY LeastOf
  <1>2. {j \in S : j < x} = {}
    <2>1. \A j \in S : j \in Nat /\ x \in Nat /\ x <= j
      BY <1>1
    <2>2. \A j \in S : ~(j < x)
      BY <2>1, SMTT(60)
    <2> QED
      BY <2>2
  <1>3. Cardinality({j \in S : j < x}) < BatchSize
    BY <1>2, FS_EmptySet, RotationAssumption, SMTT(60)
  <1> QED
    BY <1>3 DEF Lowest

\* The record of a loop with two fields replaced.
LEMMA LoopFields ==
    ASSUME NEW p, NEW j, NEW left, NEW probing, NEW q, NEW probes
    PROVE  [[pc |-> p, job |-> j, left |-> left, probing |-> probing]
              EXCEPT !.pc = q, !.probing = probes]
             = [pc |-> q, job |-> j, left |-> left, probing |-> probes]
  <1> DEFINE r == [pc |-> p, job |-> j, left |-> left, probing |-> probing]
             r1 == [r EXCEPT !.pc = q]
             r2 == [r1 EXCEPT !.probing = probes]
  <1>1. r1 = [pc |-> q, job |-> j, left |-> left, probing |-> probing]
    BY SMTT(60)
  <1>2. r2 = [pc |-> q, job |-> j, left |-> left, probing |-> probes]
    <2> HIDE DEF r1
    <2> QED
      BY <1>1, SMTT(60)
  <1>3. [r EXCEPT !.pc = q, !.probing = probes] = r2
    <2> HIDE DEF r
    <2> QED
      OBVIOUS
  <1> QED
    BY <1>2, <1>3

\* next_rewrap_batch takes a batch of rows, or finds that there is none.
LEMMA Batching ==
    ASSUME KInv, NEW t \in Thread, next_rewrap_batch(t)
    PROVE  KInv'
  <1> DEFINE c == call[t]
             found == stage_query(c.job)
             table == rows[Stages[c.job.stage]]
  <1>1. c.pc = "query" /\ c.pc \in Scanning
    BY DEF next_rewrap_batch, Scanning
  <1>2. /\ c.job \in Job /\ c.pc \notin Gated /\ Running
        /\ c.job.target = c.job.source + 1 /\ c.job.target <= Active /\ c.job.stage <= 4
        /\ c = [pc |-> c.pc, job |-> c.job, left |-> c.left, probing |-> c.probing]
    BY <1>1, CopyTyped
  <1>3. c.job.stage \in 1..4 /\ Stages[c.job.stage] \in Table
    BY <1>2, StageTables, SMTT(60) DEF Job
  <1>4. found \subseteq 1..MaxRow
    BY <1>3 DEF KInv, RotationTyped, stage_query
  <1>5. UNCHANGED <<registry, installation, job, rows, memory, audit_gate>>
    BY DEF next_rewrap_batch, stored
  <1>6. CASE Return(t)
    BY <1>2, <1>5, <1>6, Returning
  <1>7. CASE Goto(t, [c EXCEPT !.pc = "advance"])
    <2> DEFINE next == [c EXCEPT !.pc = "advance"]
    <2>1. next = [pc |-> "advance", job |-> c.job, left |-> c.left, probing |-> c.probing]
      BY <1>2, SMTT(60)
    <2>2. Plain(next)
      BY <1>2, <2>1, LoopPlain, SMTT(60)
    <2> HIDE DEF next
    <2> QED
      BY <1>2, <1>5, <1>7, <2>2, CallStep DEF Goto, next
  <1>8. CASE Goto(t, [c EXCEPT !.pc = "loop", !.probing = TRUE])
    <2> DEFINE next == [c EXCEPT !.pc = "loop", !.probing = TRUE]
    <2>1. next = [pc |-> "loop", job |-> c.job, left |-> c.left, probing |-> TRUE]
      <3> DEFINE j == c.job
                 left == c.left
                 probing == c.probing
      <3>1. c = [pc |-> "query", job |-> j, left |-> left, probing |-> probing]
        BY <1>1, <1>2
      <3> HIDE DEF c, j, left, probing
      <3>2. next = [[pc |-> "query", job |-> j, left |-> left, probing |-> probing]
                      EXCEPT !.pc = "loop", !.probing = TRUE]
        BY <3>1
      <3> HIDE DEF next
      <3>3. next = [pc |-> "loop", job |-> j, left |-> left, probing |-> TRUE]
        BY <3>2, LoopFields, Zenon
      <3> QED
        BY <3>3 DEF j, left
    <2>2. Plain(next)
      BY <1>2, <2>1, LoopPlain, SMTT(60)
    <2> HIDE DEF next
    <2> QED
      BY <1>2, <1>5, <1>8, <2>2, CallStep DEF Goto, next
  <1>9. CASE /\ found # {}
             /\ Goto(t, [pc |-> "rewrap", job |-> c.job, left |-> c.left,
                         items |-> [i \in Lowest(found, BatchSize) |-> table[i]]])
    <2> DEFINE items == [i \in Lowest(found, BatchSize) |-> table[i]]
               next == [pc |-> "rewrap", job |-> c.job, left |-> c.left, items |-> items]
    <2>1. DOMAIN items # {} /\ DOMAIN items \subseteq 1..MaxRow
      BY <1>4, <1>9, LowestOf, SMTT(60)
    <2> HIDE DEF items, found, table
    <2>2. /\ next.pc = "rewrap" /\ next.job = c.job /\ next.items = items
          /\ next = [pc |-> next.pc, job |-> next.job, left |-> next.left, items |-> next.items]
      OBVIOUS
    <2> HIDE DEF next
    <2>3. CallTyped(next)
      BY <1>2, <2>1, <2>2 DEF CallTyped, Pcs, Scanning
    <2>4. Plain(next)
      BY <1>2, <2>2, <2>3 DEF Plain, Gated
    <2>5. call' = [call EXCEPT ![t] = next]
      BY <1>9 DEF Goto, next, items, found, table
    <2> QED
      BY <1>2, <1>5, <2>4, <2>5, CallStep
  <1>10. \/ Return(t) \/ Goto(t, [c EXCEPT !.pc = "advance"])
         \/ Goto(t, [c EXCEPT !.pc = "loop", !.probing = TRUE])
         \/ found # {} /\ Goto(t, [pc |-> "rewrap", job |-> c.job, left |-> c.left,
                                   items |-> [i \in Lowest(found, BatchSize) |-> table[i]]])
    <2> HIDE DEF found, table
    <2> DEFINE other == Goto(t, [pc |-> "rewrap", job |-> c.job, left |-> c.left,
                                 items |-> [i \in Lowest(found, BatchSize) |-> table[i]]])
    <2>1. (CASE c.probing /\ found = {} -> Goto(t, [c EXCEPT !.pc = "advance"])
            [] c.probing /\ found # {} -> Return(t)
            [] ~c.probing /\ found = {} -> Goto(t, [c EXCEPT !.pc = "loop", !.probing = TRUE])
            [] OTHER -> other)
      BY DEF next_rewrap_batch, found, table
    <2> HIDE DEF other, c
    <2>2. found = {} \/ found # {}
      OBVIOUS
    <2> QED
      BY <2>1, <2>2 DEF other
  <1> QED
    BY <1>6, <1>7, <1>8, <1>9, <1>10

\* rewrap_item needs both keys in the ring: the target is one that may be used.
LEMMA Rewrapping ==
    ASSUME KInv, NEW t \in Thread, rewrap_items(t)
    PROVE  KInv'
  <1> DEFINE c == call[t]
             next == [c EXCEPT !.pc = "apply"]
  <1>1. c.pc = "rewrap" /\ c.pc \in Scanning
    BY DEF rewrap_items, Scanning
  <1>2. /\ c.job \in Job /\ c.pc \notin Gated /\ Running
        /\ c.job.target = c.job.source + 1 /\ c.job.target <= Active /\ c.job.stage <= 4
        /\ c = [pc |-> c.pc, job |-> c.job, left |-> c.left, items |-> c.items]
        /\ DOMAIN c.items \subseteq 1..MaxRow /\ DOMAIN c.items # {}
    BY <1>1, CopyTyped
  <1>3. UNCHANGED <<registry, installation, job, rows, memory, audit_gate>>
    BY DEF rewrap_items, stored
  <1>4. CASE Return(t)
    BY <1>2, <1>3, <1>4, Returning
  <1>5. CASE with_kek(c.job.target) /\ Goto(t, next)
    <2>1. next = [pc |-> "apply", job |-> c.job, left |-> c.left, items |-> c.items]
      BY <1>2, SMTT(60)
    <2>2. Usable(c.job.target)
      <3>1. c.job.target \in Version /\ Active \in Version /\ c.job.target \in ring.keys
        BY <1>2, <1>5 DEF Job, KInv, RotationTyped, Active, with_kek
      <3>2. ASSUME NEW u \in Thread, call[u].pc = "install" PROVE c.job.target # Active
        BY <3>1, <3>2, SMTT(60) DEF KInv, RingBehind, Version
      <3> QED
        BY <1>2, <3>1, <3>2, SMTT(60) DEF Usable, UsableIn, Version
    <2> HIDE DEF next
    <2>3. /\ next.pc = "apply" /\ next.job = c.job /\ next.items = c.items
          /\ next = [pc |-> next.pc, job |-> next.job, left |-> next.left, items |-> next.items]
      BY <2>1
    <2>4. CallTyped(next)
      BY <1>2, <2>3 DEF CallTyped, Pcs, Scanning
    <2>5. Plain(next)
      BY <1>2, <2>2, <2>3, <2>4 DEF Plain, Gated
    <2> QED
      BY <1>2, <1>3, <1>5, <2>5, CallStep DEF Goto
  <1> QED
    BY <1>4, <1>5 DEF rewrap_items

\* rotate_root_provider up to its transaction.
LEMMA Reprotecting ==
    ASSUME KInv, NEW t \in Thread,
           rotate_root_provider(t) \/ registered_keys(t) \/ rewrap_root_keys(t)
    PROVE  KInv'
  <1>1. CASE rotate_root_provider(t)
    <2>1. PICK p \in Provider : Goto(t, [pc |-> "registry", replacement |-> p])
      BY <1>1 DEF rotate_root_provider
    <2> DEFINE next == [pc |-> "registry", replacement |-> p]
    <2>2. Plain(next)
      BY DEF Plain, CallTyped, Gated, Scanning, Pcs
    <2> HIDE DEF next
    <2>3. call' = [call EXCEPT ![t] = next] /\ call[t].pc \notin Gated /\ Running
      BY <1>1, <2>1 DEF rotate_root_provider, Called, Goto, next, Gated
    <2> QED
      BY <1>1, <2>2, <2>3, CallStep DEF rotate_root_provider
  <1>2. CASE registered_keys(t)
    <2> DEFINE keys == [v \in Nonretired |-> registry[v].root]
               next == [pc |-> "reprotect", replacement |-> call[t].replacement, keys |-> keys]
    <2>1. call[t].pc = "registry" /\ call[t].pc \notin Gated /\ Running
      BY <1>2, BusyRuns DEF registered_keys, Gated
    <2>2. call[t].replacement \in Provider
      BY <2>1 DEF KInv, RotationTyped, CallTyped
    <2> HIDE DEF keys
    <2>3. Plain(next)
      BY <2>2 DEF Plain, CallTyped, Gated, Scanning, Pcs
    <2> HIDE DEF next
    <2>4. call' = [call EXCEPT ![t] = next]
      BY <1>2 DEF registered_keys, Goto, next, keys
    <2> QED
      BY <1>2, <2>1, <2>3, <2>4, CallStep DEF registered_keys, stored
  <1>3. CASE rewrap_root_keys(t)
    <2> DEFINE c == call[t]
               next == [c EXCEPT !.pc = "replace"]
    <2>1. c.pc = "reprotect" /\ c.pc \notin Gated /\ Running
      BY <1>3, BusyRuns DEF rewrap_root_keys, Gated
    <2>2. /\ c.replacement \in Provider
          /\ c = [pc |-> c.pc, replacement |-> c.replacement, keys |-> c.keys]
      BY <2>1 DEF KInv, RotationTyped, CallTyped
    <2>3. next = [pc |-> "replace", replacement |-> c.replacement, keys |-> c.keys]
      BY <2>2, SMTT(60)
    <2> HIDE DEF next
    <2>4. next.pc = "replace" /\ next.replacement \in Provider
      BY <2>2, <2>3
    <2>5. Plain(next)
      BY <2>4 DEF Plain, CallTyped, Gated, Scanning, Pcs
    <2>6. Return(t) \/ call' = [call EXCEPT ![t] = next]
      BY <1>3 DEF rewrap_root_keys, Goto, next
    <2> QED
      BY <1>3, <2>1, <2>5, <2>6, CallStep, Returning DEF rewrap_root_keys, stored
  <1> QED
    BY <1>1, <1>2, <1>3

-----------------------------------------------------------------------------
(* The steps that change rows or the checkpoint.                           *)

\* The next rowid is a number.
LEMMA NextRowNat ==
    ASSUME KInv, NEW table \in Table
    PROVE  NextRow(table) \in Nat \ {0}
  <1>1. DOMAIN rows[table] \subseteq 1..MaxRow /\ MaxRow \in Nat
    BY RotationAssumption DEF KInv, RotationTyped
  <1>2. CASE DOMAIN rows[table] = {}
    BY <1>2, SMTT(60) DEF NextRow
  <1>3. CASE DOMAIN rows[table] # {}
    <2>1. Max(DOMAIN rows[table]) \in 1..MaxRow
      BY <1>1, <1>3, MaxOf
    <2> QED
      BY <1>3, <2>1, SMTT(60) DEF NextRow
  <1> QED
    BY <1>2, <1>3

\* A row that is added.
LEMMA InsertKept ==
    ASSUME KInv, NEW table \in Table, NEW r, RowKept(table, r), ~(NextRow(table) > MaxRow)
    PROVE  TableKept(table, Insert(table, r))
  <1> DEFINE new == Insert(table, r)
  <1>1. NextRow(table) \in 1..MaxRow
    BY NextRowNat, RotationAssumption, SMTT(60)
  <1>2. TableKept(table, rows[table])
    BY RowsAreKept DEF RowsKept
  <1>3. new = [i \in DOMAIN new |-> new[i]] /\ DOMAIN new = DOMAIN rows[table] \union {NextRow(table)}
    BY DEF Insert
  <1>4. \A i \in DOMAIN new : new[i] = r \/ (i \in DOMAIN rows[table] /\ new[i] = rows[table][i])
    BY DEF Insert
  <1> HIDE DEF new
  <1>5. \A i \in DOMAIN new : RowKept(table, new[i])
    BY <1>2, <1>4 DEF TableKept
  <1>6. DOMAIN new \subseteq 1..MaxRow
    BY <1>1, <1>2, <1>3 DEF TableKept
  <1>7. TableKept(table, new)
    BY <1>3, <1>5, <1>6 DEF TableKept
  <1> QED
    BY <1>7 DEF new

\* The row of a part that is committed: late unless its key is the active one.
LEMMA SealedRow ==
    ASSUME KInv, NEW table \in Table, NEW id, NEW kek \in Version, Usable(kek)
    PROVE  RowKept(table, [id |-> id, dek |-> id, kek |-> kek,
                           late |-> kek # installation.active_kek_version])
  <1> DEFINE late == kek # installation.active_kek_version
             r == [id |-> id, dek |-> id, kek |-> kek, late |-> late]
  <1>1. late \in BOOLEAN
    OBVIOUS
  <1>2. registry[kek].state = "retired" => late
    BY DEF KInv, RegistryValid, StateOf, Active, RotationTyped, Version
  <1> HIDE DEF late
  <1>3. r.kek = kek /\ r.late = late
    OBVIOUS
  <1> HIDE DEF r
  <1>4. RowKept(table, r)
    BY <1>1, <1>2, <1>3 DEF RowKept
  <1> QED
    BY <1>4 DEF r, late

\* A commit adds rows, under the keys they were sealed with.
LEMMA Committing ==
    ASSUME KInv, NEW t \in Thread, commit_records(t)
    PROVE  KInv'
  <1> DEFINE c == call[t]
             Part(table) == {i \in DOMAIN c.plan : c.plan[i].table = table}
             Chosen(table) == CHOOSE i \in Part(table) : TRUE
             Made(table) == [id |-> c.plan[Chosen(table)].id, dek |-> c.plan[Chosen(table)].id,
                             kek |-> c.sealed[Chosen(table)],
                             late |-> c.sealed[Chosen(table)] # installation.active_kek_version]
             new == [table \in Table |->
                       IF Part(table) = {} THEN rows[table] ELSE Insert(table, Made(table))]
  <1>1. c.pc = "seal" /\ Running /\ c.pc \notin Gated /\ CallTyped(c) /\ Len(c.sealed) = Len(c.plan)
    BY BusyRuns DEF commit_records, Gated, KInv, RotationTyped
  <1>2. DOMAIN c.plan = 1..Len(c.plan) /\ c.sealed \in Seq(Version)
    BY <1>1 DEF CallTyped
  <1>3. \A i \in DOMAIN c.plan : c.sealed[i] \in Version /\ Usable(c.sealed[i])
    BY <1>1, <1>2, SMTT(60) DEF KInv, KeysUsable
  <1>4. UNCHANGED <<registry, installation, job, memory, audit_gate>> /\ Return(t)
    BY DEF commit_records
  <1>5. CASE rows' = rows
    BY <1>1, <1>4, <1>5, Returning
  <1>6. CASE rows' = new /\ \A i \in DOMAIN c.plan : ~(NextRow(c.plan[i].table) > MaxRow)
    <2>1. ASSUME NEW table \in Table PROVE TableKept(table, new[table])
      <3>1. CASE Part(table) = {}
        BY <3>1, RowsAreKept DEF RowsKept
      <3>2. CASE Part(table) # {}
        <4>1. Chosen(table) \in DOMAIN c.plan /\ c.plan[Chosen(table)].table = table
          BY <3>2
        <4>2. ~(NextRow(table) > MaxRow)
          BY <1>6, <4>1
        <4>3. c.sealed[Chosen(table)] \in Version /\ Usable(c.sealed[Chosen(table)])
          BY <1>3, <4>1
        <4> HIDE DEF Chosen, c
        <4>4. RowKept(table, Made(table))
          BY <4>3, SealedRow
        <4> HIDE DEF Made
        <4>5. TableKept(table, Insert(table, Made(table)))
          BY <4>2, <4>4, InsertKept
        <4> HIDE DEF Part
        <4>6. new[table] = Insert(table, Made(table))
          BY <3>2
        <4> QED
          BY <4>5, <4>6
      <3> QED
        BY <3>1, <3>2
    <2>2. new = [table \in Table |-> new[table]]
      BY SMTT(60)
    <2> HIDE DEF new
    <2>3. RowsKept(rows')
      BY <1>6, <2>1, <2>2 DEF RowsKept
    <2>4. SameRotation(job')
      BY <1>4 DEF SameRotation
    <2> QED
      BY <1>1, <1>4, <2>3, <2>4, PlainStep, IdlePlain DEF Return, Goto
  <1>7. \/ rows' = rows
        \/ rows' = new /\ \A i \in DOMAIN c.plan : ~(NextRow(c.plan[i].table) > MaxRow)
    BY DEF commit_records
  <1> QED
    BY <1>5, <1>6, <1>7

\* A purge only removes rows.
LEMMA Purging ==
    ASSUME KInv, NEW t \in Thread, purge_secret(t)
    PROVE  KInv'
  <1>1. PICK r \in Rows("secret_metadata") : rows' = [table \in Table |->
                     IF table \in {"secret_metadata", "secret_versions"}
                     THEN [i \in {j \in DOMAIN rows[table] :
                                     rows[table][j].id[1] # r.id[1]} |-> rows[table][i]]
                     ELSE rows[table]]
    BY DEF purge_secret
  <1>2. ASSUME NEW table \in Table PROVE TableKept(table, rows'[table])
    <2>1. TableKept(table, rows[table])
      BY RowsAreKept DEF RowsKept
    <2>2. CASE rows'[table] = rows[table]
      BY <2>1, <2>2
    <2>3. CASE rows'[table] = [i \in {j \in DOMAIN rows[table] :
                                        rows[table][j].id[1] # r.id[1]} |-> rows[table][i]]
      BY <2>1, <2>3 DEF TableKept
    <2> QED
      BY <1>1, <2>2, <2>3
  <1>3. RowsKept(rows')
    BY <1>1, <1>2 DEF RowsKept
  <1>4. /\ UNCHANGED <<registry, installation, job, memory, audit_gate, call>>
        /\ call[t].pc = "idle" /\ Running
    BY DEF purge_secret, Called
  <1>5. call' = [call EXCEPT ![t] = call[t]] /\ Plain(call[t]) /\ call[t].pc \notin Gated
    BY <1>4 DEF KInv, RotationTyped, Plain, Gated, Scanning
  <1> QED
    BY <1>3, <1>4, <1>5, PlainStep DEF SameRotation

\* The copy that equals the durable job is of the rotation under way.
LEMMA CurrentCopy ==
    ASSUME KInv, NEW t \in Thread, call[t].pc \in Scanning, job = call[t].job
    PROVE  Rotating /\ job # None /\ job \in Job /\ job.source = Active - 1 /\ job.target = Active
  <1>1. job \in Job /\ job # None
    BY CopyTyped, AbsenceAssumption
  <1> QED
    BY <1>1 DEF KInv, RegistryValid

\* Rows that are rewrapped are under the active key.
LEMMA Applying ==
    ASSUME KInv, NEW t \in Thread, apply_rewrap_batch(t)
    PROVE  KInv'
  <1> DEFINE c == call[t]
             table == Stages[c.job.stage]
             ids == DOMAIN c.items
             next == [c.job EXCEPT !.last = Max(ids)]
             Rewrapped(i) == [id |-> rows[table][i].id, dek |-> c.items[i].dek,
                              kek |-> c.job.target, late |-> rows[table][i].late]
             new == [i \in DOMAIN rows[table] |->
                       IF i \in ids THEN Rewrapped(i) ELSE rows[table][i]]
  <1>1. c.pc = "apply" /\ c.pc \in Scanning
    BY DEF apply_rewrap_batch, Scanning
  <1>2. /\ c.job \in Job /\ c.pc \notin Gated /\ Running
        /\ c.job.target = c.job.source + 1 /\ c.job.target <= Active /\ c.job.stage <= 4
        /\ ids \subseteq 1..MaxRow /\ ids # {}
    BY <1>1, CopyTyped
  <1>3. c.job.stage \in 1..4 /\ table \in Table
    BY <1>2, StageTables, SMTT(60) DEF Job
  <1>4. UNCHANGED <<registry, installation, memory, audit_gate>>
    BY DEF apply_rewrap_batch
  <1>5. CASE Return(t) /\ UNCHANGED <<rows, job>>
    BY <1>2, <1>4, <1>5, Returning
  <1>6. CASE /\ job = c.job /\ rows' = [rows EXCEPT ![table] = new] /\ job' = next
             /\ Goto(t, [pc |-> "loop", job |-> next, left |-> c.left - 1, probing |-> FALSE])
    <2>1. job # None /\ job.target = Active
      BY <1>1, <1>6, CurrentCopy
    <2>2. Max(ids) \in 0..MaxRow
      BY <1>2, MaxOf, RotationAssumption, SMTT(60)
    <2>3. next \in Job /\ next.source = job.source /\ next.target = job.target
      <3> HIDE DEF ids
      <3> QED
        BY <1>2, <1>6, <2>2 DEF Job
    <2>4. TableKept(table, rows[table])
      BY <1>3, RowsAreKept DEF RowsKept
    <2>5. ASSUME NEW i \in DOMAIN rows[table] PROVE RowKept(table, Rewrapped(i))
      <3>1. rows[table][i].late \in BOOLEAN
        BY <2>4, <2>5 DEF TableKept, RowKept
      <3>2. Active \in Version /\ c.job.target = Active /\ Usable(c.job.target)
        BY <1>1, <1>6, <2>1 DEF KInv, RotationTyped, Active, KeysUsable
      <3>3. registry[Active].state = "active"
        BY <3>2, SMTT(60) DEF KInv, RegistryValid, StateOf, Version
      <3> DEFINE late == rows[table][i].late
                 r == Rewrapped(i)
      <3>4. r.kek = c.job.target /\ r.late = late
        OBVIOUS
      <3> HIDE DEF r
      <3>5. RowKept(table, r)
        BY <3>1, <3>2, <3>3, <3>4 DEF RowKept
      <3> QED
        BY <3>5 DEF r
    <2> HIDE DEF Rewrapped
    <2>6. TableKept(table, new)
      BY <2>4, <2>5 DEF TableKept
    <2> HIDE DEF new
    <2>7. RowsKept(rows')
      <3> HIDE DEF table
      <3>1. rows = [u \in Table |-> rows[u]]
        BY DEF KInv, RotationTyped
      <3>2. \A u \in Table : rows'[u] = IF u = table THEN new ELSE rows[u]
        BY <1>3, <1>6, <3>1
      <3>3. rows' = [u \in Table |-> rows'[u]]
        BY <1>6, <3>1
      <3> QED
        BY <2>6, <3>2, <3>3, RowsAreKept DEF RowsKept
    <2>8. SameRotation(job')
      BY <1>6, <2>1, <2>3 DEF SameRotation
    <2> HIDE DEF next
    <2> DEFINE loop == [pc |-> "loop", job |-> next, left |-> c.left - 1, probing |-> FALSE]
    <2>9. next.target = next.source + 1 /\ next.target <= Active
      BY <1>2, <1>6, <2>3
    <2>10. Plain(loop)
      BY <2>3, <2>9, LoopPlain
    <2> HIDE DEF loop
    <2> QED
      BY <1>2, <1>4, <1>6, <2>7, <2>8, <2>10, PlainStep DEF Goto, loop
  <1> QED
    BY <1>5, <1>6 DEF apply_rewrap_batch

\* A stage is advanced.
LEMMA Advancing ==
    ASSUME KInv, NEW t \in Thread, advance_rotation_stage(t)
    PROVE  KInv'
  <1> DEFINE c == call[t]
             next == [c.job EXCEPT !.stage = @ + 1, !.last = 0]
  <1>1. c.pc = "advance" /\ c.pc \in Scanning
    BY DEF advance_rotation_stage, Scanning
  <1>2. /\ c.job \in Job /\ c.pc \notin Gated /\ Running
        /\ c.job.target = c.job.source + 1 /\ c.job.target <= Active /\ c.job.stage <= 4
    BY <1>1, CopyTyped
  <1>4. UNCHANGED <<registry, installation, rows, memory, audit_gate>>
    BY DEF advance_rotation_stage
  <1>5. CASE Return(t) /\ UNCHANGED job
    BY <1>2, <1>4, <1>5, Returning
  <1>6. CASE /\ job = c.job /\ job' = next
             /\ Goto(t, [pc |-> "loop", job |-> next, left |-> c.left, probing |-> FALSE])
    <2>1. job # None
      BY <1>1, <1>6, CurrentCopy
    <2>2. c.job.stage + 1 \in 1..5 /\ 0 \in 0..MaxRow
      BY <1>2, RotationAssumption, SMTT(60) DEF Job
    <2>3. next \in Job /\ next.source = job.source /\ next.target = job.target
      BY <1>2, <1>6, <2>2 DEF Job
    <2>4. SameRotation(job') /\ RowsKept(rows')
      BY <1>4, <1>6, <2>1, <2>3, RowsAreKept DEF SameRotation
    <2>5. next.target = next.source + 1 /\ next.target <= Active
      BY <1>2, <1>6, <2>3
    <2> HIDE DEF next
    <2> DEFINE loop == [pc |-> "loop", job |-> next, left |-> c.left, probing |-> FALSE]
    <2>6. Plain(loop)
      BY <2>3, <2>5, LoopPlain
    <2> HIDE DEF loop
    <2> QED
      BY <1>2, <1>4, <1>6, <2>4, <2>6, PlainStep DEF Goto, loop
  <1> QED
    BY <1>5, <1>6 DEF advance_rotation_stage

-----------------------------------------------------------------------------
(* The steps under the gate.                                               *)

\* A thread outside the gated steps takes the gate when nobody holds it.
LEMMA GateFree ==
    ASSUME KInv, NEW t \in Thread, Unlocked(t), call[t].pc \notin Gated, call[t].pc # "idle"
    PROVE  /\ audit_gate = None /\ Running
           /\ \A u \in Thread : call[u].pc \notin Gated
           /\ ring = [active |-> Active, keys |-> Nonretired]
  <1>1. audit_gate = None
    BY DEF KInv, GateOwned, Unlocked
  <1>2. Running
    BY BusyRuns
  <1>3. \A u \in Thread : call[u].pc \notin Gated
    BY <1>1, RotationAssumption DEF KInv, GateOwned
  <1> QED
    BY <1>1, <1>2, <1>3 DEF KInv, RingMatchesRegistry, Active

\* The calls when one thread moves on and the others are outside the gate.
LEMMA GateTaken ==
    ASSUME KInv, NEW t \in Thread, NEW next, call' = [call EXCEPT ![t] = next],
           \A u \in Thread : call[u].pc \notin Gated, next.pc \in Gated, CallTyped(next)
    PROVE  /\ \A u \in Thread : call'[u] = IF u = t THEN next ELSE call[u]
           /\ call' = [u \in Thread |-> call'[u]]
           /\ \A u \in Thread : CallTyped(call'[u])
           /\ \A u \in Thread : call'[u].pc \in Gated <=> u = t
           /\ \A u \in Thread : call'[u].pc \in Gated \/ call'[u] = call[u]
  <1>1. \A u \in Thread : call'[u] = IF u = t THEN next ELSE call[u]
    BY DEF KInv, RotationTyped
  <1>2. call' = [u \in Thread |-> call'[u]]
    BY DEF KInv, RotationTyped
  <1>3. \A u \in Thread : CallTyped(call'[u])
    BY <1>1 DEF KInv, RotationTyped
  <1> QED
    BY <1>1, <1>2, <1>3

\* Keys stay usable for rows and calls that stay.
LEMMA KeysStayUsable ==
    ASSUME KInv, UNCHANGED rows,
           \A w \in Version : Usable(w) => UsableIn(w, Active', call'),
           \A u \in Thread :
              call'[u] = call[u] \/ call'[u].pc \notin {"seal", "decrypt", "apply"}
    PROVE  KeysUsable'
  <1>1. \A u \in Table : \A i \in DOMAIN rows'[u] : UsableIn(rows'[u][i].kek, Active', call')
    BY DEF KInv, RotationTyped, KeysUsable
  <1>2. ASSUME NEW u \in Thread, call'[u].pc = "seal", NEW i \in DOMAIN call'[u].sealed
        PROVE  UsableIn(call'[u].sealed[i], Active', call')
    <2>1. call'[u] = call[u] /\ CallTyped(call[u])
      BY <1>2 DEF KInv, RotationTyped
    <2>2. call[u].sealed \in Seq(Version) /\ i \in DOMAIN call[u].sealed
      BY <1>2, <2>1 DEF CallTyped
    <2> QED
      BY <1>2, <2>1, <2>2, SMTT(60) DEF KInv, KeysUsable
  <1>3. ASSUME NEW u \in Thread, call'[u].pc = "decrypt"
        PROVE  UsableIn(call'[u].row.kek, Active', call')
    <2>1. call'[u] = call[u] /\ CallTyped(call[u])
      BY <1>3 DEF KInv, RotationTyped
    <2> QED
      BY <1>3, <2>1 DEF KInv, KeysUsable, CallTyped
  <1>4. ASSUME NEW u \in Thread, call'[u].pc = "apply"
        PROVE  UsableIn(call'[u].job.target, Active', call')
    <2>1. call'[u] = call[u] /\ call[u].pc \in Scanning
      BY <1>4 DEF Scanning
    <2>2. call[u].job.target \in Version
      BY <2>1, CopyTyped DEF Job
    <2> QED
      BY <1>4, <2>1, <2>2 DEF KInv, KeysUsable
  <1> QED
    BY <1>1, <1>2, <1>3, <1>4 DEF KeysUsable, Usable

\* begin_kek_rotation commits the next version as the active one.
LEMMA Beginning ==
    ASSUME KInv, NEW t \in Thread, begin_kek_rotation(t)
    PROVE  KInv'
  <1> DEFINE v == call[t].source
             next == [pc |-> "install", target |-> v + 1]
  <1>0. call[t].pc = "begin" /\ call[t].pc \notin Gated /\ CallTyped(call[t]) /\ Unlocked(t)
    BY DEF begin_kek_rotation, Gated, KInv, RotationTyped
  <1>1. v \in Version /\ v + 1 \in Version /\ call[t].root \in Provider \union {None}
    BY <1>0 DEF CallTyped
  <1>2. /\ audit_gate = None /\ Running
        /\ \A u \in Thread : call[u].pc \notin Gated
        /\ ring = [active |-> Active, keys |-> Nonretired]
    BY <1>0, GateFree
  <1>3. CASE Return(t) /\ UNCHANGED <<registry, installation, job, audit_gate>>
    BY <1>0, <1>2, <1>3, Returning DEF begin_kek_rotation
  <1>4. CASE /\ installation = [activation_state |-> "ready", active_kek_version |-> v]
             /\ begin_transaction(v, call[t].root) /\ audit_gate' = t /\ Goto(t, next)
    <2>0. UNCHANGED <<rows, memory>>
      BY DEF begin_kek_rotation
    <2>1. Active = v /\ ~Rotating /\ Active' = v + 1 /\ Rotating'
      BY <1>4 DEF Active, Rotating, begin_transaction
    <2>2. next.pc = "install" /\ next.target = v + 1 /\ CallTyped(next)
      BY DEF CallTyped, Pcs, Scanning
    <2> HIDE DEF next
    <2>3. /\ \A u \in Thread : call'[u] = IF u = t THEN next ELSE call[u]
          /\ call' = [u \in Thread |-> call'[u]]
          /\ \A u \in Thread : CallTyped(call'[u])
          /\ \A u \in Thread : call'[u].pc \in Gated <=> u = t
          /\ \A u \in Thread : call'[u].pc \in Gated \/ call'[u] = call[u]
      BY <1>2, <1>4, <2>2, GateTaken DEF Goto, Gated
    <2>4. job' = [source |-> v, target |-> v + 1, stage |-> 1, last |-> 0]
      BY <1>4 DEF begin_transaction
    <2>5. job' \in Job /\ job'.source = v /\ job'.target = v + 1
      BY <1>1, <2>4, RotationAssumption, SMTT(60) DEF Job
    <2>6. /\ registry' \in [Version -> [state : {"absent", "active", "retiring", "retired"},
                                        root : Provider \union {None}]]
          /\ \A w \in Version : registry'[w].state =
                IF w = v + 1 THEN "active" ELSE IF w = v THEN "retiring" ELSE registry[w].state
      <3> DEFINE R == [state : {"absent", "active", "retiring", "retired"},
                       root : Provider \union {None}]
                 old == [registry[v] EXCEPT !.state = "retiring"]
                 new == [state |-> "active", root |-> call[t].root]
      <3>1. registry \in [Version -> R]
        BY DEF KInv, RotationTyped
      <3>2. old \in R /\ old.state = "retiring"
        BY <1>1, <3>1
      <3>3. new \in R /\ new.state = "active"
        BY <1>1
      <3>4. registry' = [registry EXCEPT ![v].state = "retiring", ![v + 1] = new]
        BY <1>4 DEF begin_transaction
      <3>5. registry' = [w \in Version |->
                           IF w = v + 1 THEN new ELSE IF w = v THEN old ELSE registry[w]]
        BY <1>1, <3>1, <3>4 DEF Version
      <3> HIDE DEF old, new
      <3> QED
        BY <1>1, <3>1, <3>2, <3>3, <3>5
    <2>7. installation' \in [activation_state : {"ready", "maintenance"},
                             active_kek_version : Version]
      BY <1>1, <1>4 DEF begin_transaction
    <2>8. RotationTyped'
      <3>1. \A u \in Thread : CallTyped(call[u])'
        BY <2>3 DEF CallTyped
      <3>2. UNCHANGED <<rows, ring, root>> /\ audit_gate' = t
        BY <1>4, <2>0 DEF memory
      <3> QED
        BY <2>3, <2>5, <2>6, <2>7, <3>1, <3>2, SMTT(60) DEF KInv, RotationTyped
    <2>9. RegistryValid'
      <3>1. \A w \in Version : registry'[w].state = StateOf(w)'
        <4>1. \A w \in Version : registry[w].state = StateOf(w)
          BY DEF KInv, RegistryValid
        <4> QED
          BY <1>1, <2>1, <2>6, <4>1, SMTT(60) DEF StateOf, Version
      <3>2. job' # None /\ Active' - 1 \in Version /\ job'.source = Active' - 1 /\ job'.target = Active'
        BY <1>1, <2>1, <2>5, AbsenceAssumption, SMTT(60) DEF Version
      <3> QED
        BY <2>1, <3>1, <3>2 DEF RegistryValid
    <2>10. CopiesBegun'
      <3>1. \A u \in Thread : call'[u].pc \in Scanning => call'[u] = call[u]
        BY <2>3 DEF Gated, Scanning
      <3>2. \A u \in Thread : call[u].pc \in Scanning =>
               /\ call[u].job \in Job
               /\ call[u].job.target = call[u].job.source + 1 /\ call[u].job.target <= v
        BY <2>1, CopyTyped
      <3>3. \A u \in Thread : call[u].pc \in Scanning => call[u].job.target <= v + 1
        BY <1>1, <3>2, SMTT(60) DEF Job, Version
      <3> QED
        BY <2>1, <3>1, <3>2, <3>3 DEF CopiesBegun
    <2>11. GateOwned'
      BY <1>2, <1>4, <2>0, <2>3 DEF GateOwned, Running, memory
    <2>12. RingBehind'
      <3>1. ring = [active |-> v, keys |-> {v}]
        BY <1>2, <2>1, NonretiredKeys DEF KInv
      <3>2. ring' = ring /\ Active' - 1 = v
        BY <1>1, <2>0, <2>1, SMTT(60) DEF memory, Version
      <3> QED
        BY <2>1, <2>2, <2>3, <3>1, <3>2 DEF RingBehind, Gated
    <2>13. KeysUsable'
      <3>1. \A w \in Version : Usable(w) => UsableIn(w, Active', call')
        BY <1>1, <2>1, SMTT(60) DEF Usable, UsableIn, Version
      <3>2. \A u \in Thread :
               call'[u] = call[u] \/ call'[u].pc \notin {"seal", "decrypt", "apply"}
        BY <2>3 DEF Gated
      <3> QED
        BY <2>0, <3>1, <3>2, KeysStayUsable
    <2>14. RingMatchesRegistry'
      BY <1>4, RotationAssumption DEF RingMatchesRegistry
    <2>15. RetiredUnneededUnlessLate'
      <3>1. \A w \in Version : registry'[w].state = "retired" => registry[w].state = "retired"
        BY <2>6
      <3> QED
        BY <2>0, <3>1, StageTables, SMTT(60) DEF KInv, RotationTyped, RetiredUnneededUnlessLate, Rows
    <2> QED
      BY <2>8, <2>9, <2>10, <2>11, <2>12, <2>13, <2>14, <2>15 DEF KInv
  <1> QED
    BY <1>3, <1>4 DEF begin_kek_rotation

\* finish_kek_rotation retires a key that no scanned row is under.
LEMMA Finishing ==
    ASSUME KInv, NEW t \in Thread, finish_kek_rotation(t)
    PROVE  KInv'
  <1> DEFINE c == call[t]
             v == c.job.source
             next == [pc |-> "retire", source |-> v]
  <1>0. c.pc = "loop" /\ c.pc \in Scanning /\ c.pc \notin Gated /\ c.pc # "idle" /\ Unlocked(t)
    BY DEF finish_kek_rotation, Gated, Scanning
  <1>2. /\ audit_gate = None /\ Running
        /\ \A u \in Thread : call[u].pc \notin Gated
        /\ ring = [active |-> Active, keys |-> Nonretired]
    BY <1>0, GateFree
  <1>3. CASE Return(t) /\ UNCHANGED <<registry, installation, job, audit_gate>>
    BY <1>0, <1>2, <1>3, Returning DEF finish_kek_rotation
  <1>4. CASE /\ job = c.job /\ source_inventory(v) = {}
             /\ registry' = [registry EXCEPT ![v].state = "retired"] /\ job' = None
             /\ installation' = [installation EXCEPT !.activation_state = "ready"]
             /\ audit_gate' = t /\ Goto(t, next)
    <2>0. UNCHANGED <<rows, memory>>
      BY DEF finish_kek_rotation
    <2>1. Rotating /\ v = Active - 1 /\ Active \in Version /\ v \in Version
      BY <1>0, <1>4, CurrentCopy DEF KInv, RotationTyped, RegistryValid, Active
    <2>2. /\ installation' \in [activation_state : {"ready", "maintenance"},
                                active_kek_version : Version]
          /\ Active' = Active /\ ~Rotating'
      BY <1>4 DEF Active, Rotating, KInv, RotationTyped
    <2>3. next.pc = "retire" /\ next.source = v /\ CallTyped(next)
      BY DEF CallTyped, Pcs, Scanning
    <2> HIDE DEF next
    <2>4. /\ \A u \in Thread : call'[u] = IF u = t THEN next ELSE call[u]
          /\ call' = [u \in Thread |-> call'[u]]
          /\ \A u \in Thread : CallTyped(call'[u])
          /\ \A u \in Thread : call'[u].pc \in Gated <=> u = t
          /\ \A u \in Thread : call'[u].pc \in Gated \/ call'[u] = call[u]
      BY <1>2, <1>4, <2>3, GateTaken DEF Goto, Gated
    <2>5. /\ registry' \in [Version -> [state : {"absent", "active", "retiring", "retired"},
                                        root : Provider \union {None}]]
          /\ \A w \in Version : registry'[w].state = IF w = v THEN "retired" ELSE registry[w].state
      BY <1>4, <2>1, SMTT(60) DEF KInv, RotationTyped
    <2>6. RotationTyped'
      <3>1. \A u \in Thread : CallTyped(call[u])'
        BY <2>4 DEF CallTyped
      <3>2. UNCHANGED <<rows, ring, root>> /\ audit_gate' = t /\ job' = None
        BY <1>4, <2>0 DEF memory
      <3> QED
        BY <2>2, <2>4, <2>5, <3>1, <3>2, SMTT(60) DEF KInv, RotationTyped
    <2>7. RegistryValid'
      <3>1. \A w \in Version : registry[w].state = StateOf(w)
        BY DEF KInv, RegistryValid
      <3>2. \A w \in Version :
               registry'[w].state = IF w = v THEN "retired" ELSE StateOf(w)
        BY <2>5, <3>1
      <3>3. Active' = Active /\ ~Rotating'
        BY <2>2
      <3>4. \A w \in Version : StateOf(w)' = IF w = v THEN "retired" ELSE StateOf(w)
        <4> HIDE DEF v
        <4> QED
          BY <2>1, <3>3, SMTT(60) DEF StateOf, Version
      <3>5. \A w \in Version : registry'[w].state = StateOf(w)'
        BY <3>2, <3>4
      <3> QED
        BY <1>4, <2>2, <3>5 DEF RegistryValid
    <2>8. CopiesBegun'
      <3>1. \A u \in Thread : call'[u].pc \in Scanning => call'[u] = call[u]
        BY <2>4 DEF Gated, Scanning
      <3> QED
        BY <2>2, <3>1 DEF KInv, CopiesBegun
    <2>9. GateOwned'
      BY <1>2, <1>4, <2>0, <2>4 DEF GateOwned, Running, memory
    <2>10. RingBehind'
      <3>1. ring = [active |-> Active, keys |-> {Active - 1, Active}]
        BY <1>2, <2>1, NonretiredKeys DEF KInv
      <3>2. ring' = ring
        BY <2>0 DEF memory
      <3> QED
        BY <2>1, <2>2, <2>3, <2>4, <3>1, <3>2 DEF RingBehind, Gated
    <2>11. KeysUsable'
      <3>1. \A w \in Version : Usable(w) => UsableIn(w, Active', call')
        <4>1. \A u \in Thread : call'[u].pc # "install"
          BY <1>2, <2>3, <2>4 DEF Gated
        <4> QED
          BY <2>2, <4>1 DEF Usable, UsableIn
      <3>2. \A u \in Thread :
               call'[u] = call[u] \/ call'[u].pc \notin {"seal", "decrypt", "apply"}
        BY <2>4 DEF Gated
      <3> QED
        BY <2>0, <3>1, <3>2, KeysStayUsable
    <2>12. RingMatchesRegistry'
      BY <1>4, RotationAssumption DEF RingMatchesRegistry
    <2>13. RetiredUnneededUnlessLate'
      <3>1. \A u \in Scanned : \A i \in DOMAIN rows[u] : rows[u][i].kek # v
        BY <1>4 DEF source_inventory, Rows
      <3>2. \A u \in Scanned : \A i \in DOMAIN rows[u] : rows[u][i].kek \in Version
        BY StageTables DEF KInv, RotationTyped
      <3>3. \A u \in Scanned : \A i \in DOMAIN rows[u] :
               registry'[rows[u][i].kek].state = "retired" => rows[u][i].late
        BY <2>5, <3>1, <3>2, SMTT(60) DEF KInv, RetiredUnneededUnlessLate, Rows
      <3> QED
        BY <2>0, <3>3 DEF RetiredUnneededUnlessLate, Rows
    <2> QED
      BY <2>6, <2>7, <2>8, <2>9, <2>10, <2>11, <2>12, <2>13 DEF KInv
  <1> QED
    BY <1>3, <1>4 DEF finish_kek_rotation

\* The gate is released with a ring that follows the registry.
LEMMA Releasing ==
    ASSUME KInv, NEW t \in Thread, call[t].pc \in Gated, Return(t), audit_gate' = None,
           UNCHANGED <<registry, installation, job, rows>>,
           ring' = [active |-> Active, keys |-> Nonretired], root' \in Provider
    PROVE  KInv'
  <1>1. Active' = Active /\ (Rotating' <=> Rotating) /\ Nonretired' = Nonretired /\ Active \in Version
    BY DEF Active, Rotating, Nonretired, KInv, RotationTyped
  <1>2. \A u \in Thread : call'[u] = IF u = t THEN Idle ELSE call[u]
    BY DEF KInv, RotationTyped, Return, Goto
  <1>3. \A u \in Thread : call'[u].pc \notin Gated
    <2>1. \A u \in Thread : u # t => call[u].pc \notin Gated
      BY DEF KInv, GateOwned
    <2> QED
      BY <1>2, <2>1, IdlePlain DEF Plain
  <1>4. RotationTyped'
    <2>1. \A u \in Thread : CallTyped(call'[u])
      BY <1>2, IdlePlain DEF Plain, KInv, RotationTyped
    <2>2. \A u \in Thread : CallTyped(call[u])'
      BY <2>1 DEF CallTyped
    <2>3. call' = [u \in Thread |-> call'[u]]
      BY DEF KInv, RotationTyped, Return, Goto
    <2>4. ring' \in [active : Version \union {0}, keys : SUBSET Version]
      BY <1>1 DEF Nonretired
    <2> QED
      BY <2>2, <2>3, <2>4, SMTT(60) DEF KInv, RotationTyped
  <1>5. RegistryValid'
    <2>1. \A w \in Version : StateOf(w)' = StateOf(w)
      BY <1>1 DEF StateOf
    <2> QED
      BY <1>1, <2>1 DEF KInv, RegistryValid
  <1>6. CopiesBegun'
    <2>1. \A u \in Thread : call'[u].pc \in Scanning => call'[u] = call[u]
      BY <1>2, IdlePlain DEF Scanning
    <2> QED
      BY <1>1, <2>1 DEF KInv, CopiesBegun
  <1>7. GateOwned'
    BY <1>3, RotationAssumption DEF GateOwned, Running
  <1>8. RingBehind'
    BY <1>3 DEF RingBehind, Gated
  <1>9. KeysUsable'
    <2>1. \A w \in Version : Usable(w) => UsableIn(w, Active', call')
      BY <1>1, <1>3 DEF Usable, UsableIn, Gated
    <2>2. \A u \in Thread :
             call'[u] = call[u] \/ call'[u].pc \notin {"seal", "decrypt", "apply"}
      BY <1>2, IdlePlain
    <2> QED
      BY <2>1, <2>2, KeysStayUsable
  <1>10. RingMatchesRegistry'
    BY <1>1 DEF RingMatchesRegistry, Active
  <1>11. RetiredUnneededUnlessLate'
    BY DEF KInv, RetiredUnneededUnlessLate, Rows
  <1> QED
    BY <1>4, <1>5, <1>6, <1>7, <1>8, <1>9, <1>10, <1>11 DEF KInv

\* The three ends of a gated operation.
LEMMA Releases ==
    ASSUME KInv, NEW t \in Thread,
           install_target(t) \/ retire_source(t) \/ replace_root_key(t)
    PROVE  KInv'
  <1>1. call[t].pc \in Gated /\ call[t].pc # "idle"
    BY DEF install_target, retire_source, replace_root_key, Gated
  <1>2. root \in Provider /\ Active \in Version
    BY <1>1, BusyRuns DEF KInv, RotationTyped, Running, Active
  <1>3. Nonretired = IF Rotating THEN {Active - 1, Active} ELSE {Active}
    BY NonretiredKeys DEF KInv
  <1>4. CASE install_target(t)
    <2>1. /\ Rotating /\ call[t].target = Active
          /\ ring = [active |-> Active - 1, keys |-> {Active - 1}]
      BY <1>4 DEF install_target, KInv, RingBehind
    <2>2. ~(Active \in ring.keys \/ Active <= ring.active)
      <3>1. ring.keys = {Active - 1} /\ ring.active = Active - 1
        BY <2>1
      <3>2. Active \in Int
        BY <1>2, SMTT(60) DEF Version
      <3>3. Active # Active - 1 /\ ~(Active <= Active - 1)
        BY <3>2, SMTT(60)
      <3> QED
        BY <3>1, <3>3
    <2>3. ring' = [active |-> Active, keys |-> {Active - 1} \union {Active}]
      BY <1>4, <2>1, <2>2 DEF install_target, install_active_kek
    <2>4. ring' = [active |-> Active, keys |-> Nonretired]
      BY <1>3, <2>1, <2>3
    <2> QED
      BY <1>1, <1>2, <1>4, <2>4, Releasing DEF install_target, stored
  <1>5. CASE retire_source(t)
    <2>1. /\ ~Rotating /\ call[t].source = Active - 1
          /\ ring = [active |-> Active, keys |-> {Active - 1, Active}]
      BY <1>5 DEF retire_source, KInv, RingBehind
    <2>2. Active - 1 # Active
      BY <1>2, SMTT(60) DEF Version
    <2>3. ring' = [ring EXCEPT !.keys = @ \ {Active - 1}]
      BY <1>5, <2>1, <2>2 DEF retire_source, retire_kek
    <2>4. ring' = [active |-> Active, keys |-> {Active}]
      BY <2>1, <2>2, <2>3
    <2>5. ring' = [active |-> Active, keys |-> Nonretired]
      BY <1>3, <2>1, <2>4
    <2> QED
      BY <1>1, <1>2, <1>5, <2>5, Releasing DEF retire_source, stored
  <1>6. CASE replace_root_key(t)
    <2>1. ring = [active |-> Active, keys |-> Nonretired]
      BY <1>6 DEF replace_root_key, KInv, RingBehind
    <2>2. root' \in Provider
      BY <1>2, <1>6 DEF replace_root_key, KInv, RotationTyped, CallTyped
    <2> QED
      BY <1>1, <1>6, <2>1, <2>2, Releasing DEF replace_root_key, stored
  <1> QED
    BY <1>4, <1>5, <1>6

\* replace_root_wrappings seals the same keys anew.
LEMMA Replacing ==
    ASSUME KInv, NEW t \in Thread, replace_root_wrappings(t)
    PROVE  KInv'
  <1> DEFINE c == call[t]
             next == [pc |-> "verify", replacement |-> c.replacement]
  <1>0. c.pc = "replace" /\ c.pc \notin Gated /\ c.pc # "idle" /\ Unlocked(t)
    BY DEF replace_root_wrappings, Gated
  <1>1. c.replacement \in Provider
    BY <1>0 DEF KInv, RotationTyped, CallTyped
  <1>2. /\ audit_gate = None /\ Running
        /\ \A u \in Thread : call[u].pc \notin Gated
        /\ ring = [active |-> Active, keys |-> Nonretired]
    BY <1>0, GateFree
  <1>3. CASE Return(t) /\ UNCHANGED <<registry, audit_gate>>
    BY <1>0, <1>2, <1>3, Returning DEF replace_root_wrappings
  <1>4. CASE /\ registry' = [v \in Version |->
                  IF v \in DOMAIN c.keys
                  THEN [registry[v] EXCEPT !.root = c.replacement] ELSE registry[v]]
             /\ audit_gate' = t /\ Goto(t, next)
    <2>0. UNCHANGED <<installation, job, rows, memory>>
      BY DEF replace_root_wrappings
    <2>1. Active' = Active /\ (Rotating' <=> Rotating)
      BY <2>0 DEF Active, Rotating
    <2>2. next.pc = "verify" /\ CallTyped(next)
      BY <1>1 DEF CallTyped, Pcs, Scanning
    <2> HIDE DEF next
    <2>3. /\ \A u \in Thread : call'[u] = IF u = t THEN next ELSE call[u]
          /\ call' = [u \in Thread |-> call'[u]]
          /\ \A u \in Thread : CallTyped(call'[u])
          /\ \A u \in Thread : call'[u].pc \in Gated <=> u = t
          /\ \A u \in Thread : call'[u].pc \in Gated \/ call'[u] = call[u]
      BY <1>2, <1>4, <2>2, GateTaken DEF Goto, Gated
    <2>4. /\ registry' \in [Version -> [state : {"absent", "active", "retiring", "retired"},
                                        root : Provider \union {None}]]
          /\ \A w \in Version : registry'[w].state = registry[w].state
      <3> HIDE DEF c
      <3> QED
        BY <1>1, <1>4, SMTT(60) DEF KInv, RotationTyped
    <2>5. Nonretired' = Nonretired
      BY <2>4 DEF Nonretired
    <2>6. RotationTyped'
      <3>1. \A u \in Thread : CallTyped(call[u])'
        BY <2>3 DEF CallTyped
      <3>2. UNCHANGED <<rows, ring, root, job, installation>> /\ audit_gate' = t
        BY <1>4, <2>0 DEF memory
      <3> QED
        BY <2>3, <2>4, <3>1, <3>2, SMTT(60) DEF KInv, RotationTyped
    <2>7. RegistryValid'
      <3>1. \A w \in Version : StateOf(w)' = StateOf(w)
        BY <2>1 DEF StateOf
      <3> QED
        BY <2>0, <2>1, <2>4, <3>1 DEF KInv, RegistryValid
    <2>8. CopiesBegun'
      <3>1. \A u \in Thread : call'[u].pc \in Scanning => call'[u] = call[u]
        BY <2>3 DEF Gated, Scanning
      <3> QED
        BY <2>1, <3>1 DEF KInv, CopiesBegun
    <2>9. GateOwned'
      BY <1>2, <1>4, <2>0, <2>3 DEF GateOwned, Running, memory
    <2>10. RingBehind'
      BY <1>2, <2>0, <2>1, <2>2, <2>3, <2>5 DEF RingBehind, Gated, memory
    <2>11. KeysUsable'
      <3>1. \A w \in Version : Usable(w) => UsableIn(w, Active', call')
        BY <2>1, <2>2, <2>3 DEF Usable, UsableIn
      <3>2. \A u \in Thread :
               call'[u] = call[u] \/ call'[u].pc \notin {"seal", "decrypt", "apply"}
        BY <2>3 DEF Gated
      <3> QED
        BY <2>0, <3>1, <3>2, KeysStayUsable
    <2>12. RingMatchesRegistry'
      BY <1>4, RotationAssumption DEF RingMatchesRegistry
    <2>13. RetiredUnneededUnlessLate'
      BY <2>0, <2>4, StageTables, SMTT(60) DEF KInv, RotationTyped, RetiredUnneededUnlessLate, Rows
    <2> QED
      BY <2>6, <2>7, <2>8, <2>9, <2>10, <2>11, <2>12, <2>13 DEF KInv
  <1> QED
    BY <1>3, <1>4 DEF replace_root_wrappings

-----------------------------------------------------------------------------
(* The process dies and is started again.                                  *)

\* Nobody is busy, before or after, and the durable state stays.
LEMMA Restarts ==
    ASSUME KInv, UNCHANGED stored,
           \A u \in Thread : call'[u].pc = "idle" /\ CallTyped(call'[u]),
           call' = [u \in Thread |-> call'[u]], audit_gate' = None,
           ring' \in [active : Version \union {0}, keys : SUBSET Version],
           root' \in Provider \union {None},
           root' # None => ring' = [active |-> Active, keys |-> Nonretired]
    PROVE  KInv'
  <1>0. UNCHANGED <<registry, installation, job, rows>>
    BY DEF stored
  <1>1. Active' = Active /\ (Rotating' <=> Rotating) /\ Nonretired' = Nonretired
    BY <1>0 DEF Active, Rotating, Nonretired
  <1>2. \A u \in Thread : call'[u].pc = "idle"
    OBVIOUS
  <1>3. RotationTyped'
    <2>1. \A u \in Thread : CallTyped(call[u])'
      BY DEF CallTyped
    <2> QED
      BY <1>0, <2>1, SMTT(60) DEF KInv, RotationTyped
  <1>4. RegistryValid'
    <2>1. \A w \in Version : StateOf(w)' = StateOf(w)
      BY <1>1 DEF StateOf
    <2> QED
      BY <1>0, <1>1, <2>1 DEF KInv, RegistryValid
  <1>5. CopiesBegun' /\ GateOwned' /\ RingBehind'
    BY <1>2, RotationAssumption DEF CopiesBegun, GateOwned, RingBehind, Scanning, Gated
  <1>6. KeysUsable'
    <2>1. \A w \in Version : Usable(w) => UsableIn(w, Active', call')
      BY <1>1, <1>2 DEF Usable, UsableIn
    <2> QED
      BY <1>0, <1>2, <2>1, KeysStayUsable
  <1>7. RingMatchesRegistry'
    BY <1>1 DEF RingMatchesRegistry, Running, Active
  <1>8. RetiredUnneededUnlessLate'
    BY <1>0, SMTT(60) DEF KInv, RetiredUnneededUnlessLate, Rows
  <1> QED
    BY <1>3, <1>4, <1>5, <1>6, <1>7, <1>8 DEF KInv

\* A crash empties memory, and initialize_vault loads the keys that are not retired.
LEMMA CrashAndStart ==
    ASSUME KInv, providers \subseteq Provider, Crash \/ initialize_vault
    PROVE  KInv'
  <1>1. CASE Crash
    <2>1. /\ UNCHANGED stored /\ root' = None /\ audit_gate' = None
          /\ ring' = [active |-> 0, keys |-> {}] /\ call' = [t \in Thread |-> Idle]
      BY <1>1 DEF Crash
    <2>2. ring' \in [active : Version \union {0}, keys : SUBSET Version]
      BY <2>1
    <2>3. /\ \A u \in Thread : call'[u].pc = "idle" /\ CallTyped(call'[u])
          /\ call' = [u \in Thread |-> call'[u]]
      BY <2>1, IdlePlain DEF Plain
    <2> QED
      BY <2>1, <2>2, <2>3, Restarts
  <1>2. CASE initialize_vault
    <2>1. /\ UNCHANGED <<stored, audit_gate, call>> /\ root' \in Provider /\ ~Running
          /\ ring' = [active |-> Active, keys |-> Nonretired]
      BY <1>2 DEF initialize_vault, Active
    <2>2. audit_gate = None /\ \A u \in Thread : call[u].pc = "idle"
      BY <2>1 DEF KInv, GateOwned
    <2>3. ring' \in [active : Version \union {0}, keys : SUBSET Version]
      BY <2>1 DEF Nonretired, Active, KInv, RotationTyped
    <2>4. /\ \A u \in Thread : call'[u].pc = "idle" /\ CallTyped(call'[u])
          /\ call' = [u \in Thread |-> call'[u]]
      BY <2>1, <2>2 DEF KInv, RotationTyped
    <2> QED
      BY <2>1, <2>2, <2>3, <2>4, Restarts
  <1> QED
    BY <1>1, <1>2

-----------------------------------------------------------------------------
\* A vault that was just initialised.
LEMMA InitKInv == Init => KInv
  <1> SUFFICES ASSUME Init PROVE KInv
    OBVIOUS
  <1>1. \A t \in Thread : call[t] = Idle /\ call[t].pc = "idle" /\ CallTyped(call[t])
    BY IdlePlain DEF Init, Plain
  <1>2. Active = 1 /\ ~Rotating /\ 1 \in Version
    BY RotationAssumption, SMTT(60) DEF Init, Active, Rotating, Version
  <1>3. ASSUME NEW t \in Table
        PROVE  /\ rows[t] = [i \in DOMAIN rows[t] |-> rows[t][i]]
               /\ DOMAIN rows[t] \subseteq 1..MaxRow
               /\ \A i \in DOMAIN rows[t] : rows[t][i].kek = 1 /\ rows[t][i].late = FALSE
    <2> DEFINE n == IF t = "auxiliary" THEN AuxiliaryRows ELSE 0
    <2>1. n \in Nat /\ n <= MaxRow
      BY RotationAssumption, SMTT(60)
    <2> HIDE DEF n
    <2>2. rows[t] = [i \in 1..n |->
                       [id |-> <<None, i>>, dek |-> <<None, i>>, kek |-> 1, late |-> FALSE]]
      BY DEF Init, n
    <2> QED
      BY <2>1, <2>2, RotationAssumption, SMTT(60)
  <1>4. registry \in [Version -> [state : {"absent", "active", "retiring", "retired"},
                                  root : Provider \union {None}]]
    BY RotationAssumption DEF Init
  <1>5. RotationTyped
    <2>1. installation \in [activation_state : {"ready", "maintenance"}, active_kek_version : Version]
      BY <1>2 DEF Init
    <2>2. ring \in [active : Version \union {0}, keys : SUBSET Version]
      BY <1>2 DEF Init
    <2>3. rows = [t \in Table |-> rows[t]]
      BY DEF Init
    <2>4. job \in Job \union {None} /\ root \in Provider \union {None} /\ audit_gate \in Thread \union {None}
      BY RotationAssumption DEF Init
    <2>5. call = [t \in Thread |-> call[t]]
      BY DEF Init
    <2>6. \A t \in Table : \A i \in DOMAIN rows[t] :
             rows[t][i].kek \in Version /\ rows[t][i].late \in BOOLEAN
      BY <1>2, <1>3
    <2> QED
      BY <1>1, <1>3, <1>4, <2>1, <2>2, <2>3, <2>4, <2>5, <2>6 DEF RotationTyped
  <1>6. RegistryValid
    <2>1. \A v \in Version : registry[v].state = IF v = 1 THEN "active" ELSE "absent"
      BY DEF Init
    <2>2. \A v \in Version : StateOf(v) = IF v = 1 THEN "active" ELSE "absent"
      BY <1>2, SMTT(60) DEF StateOf, Version
    <2>3. job = None
      BY DEF Init
    <2> QED
      BY <1>2, <2>1, <2>2, <2>3 DEF RegistryValid
  <1>7. CopiesBegun /\ RingBehind
    BY <1>1 DEF CopiesBegun, RingBehind, Scanning
  <1>8. GateOwned
    BY <1>1, RotationAssumption DEF Init, GateOwned, Gated, Running
  <1>9. KeysUsable
    BY <1>1, <1>2, <1>3 DEF KeysUsable, Usable, UsableIn
  <1>10. RingMatchesRegistry
    <2>1. Nonretired = {1}
      BY <1>2, <1>5, <1>6, NonretiredKeys
    <2> QED
      BY <2>1 DEF Init, RingMatchesRegistry
  <1>11. RetiredUnneededUnlessLate
    <2>1. registry[1].state = "active"
      BY <1>2 DEF Init
    <2>2. ASSUME NEW t \in Scanned, NEW r \in Rows(t) PROVE registry[r.kek].state # "retired"
      <3>1. t \in Table
        BY StageTables
      <3>2. r.kek = 1
        BY <1>3, <3>1 DEF Rows
      <3> QED
        BY <2>1, <3>2
    <2> QED
      BY <2>2 DEF RetiredUnneededUnlessLate
  <1> QED
    BY <1>5, <1>6, <1>7, <1>8, <1>9, <1>10, <1>11 DEF KInv

\* Provider files are created under the names there are.
LEMMA ProvidersStep == providers \subseteq Provider /\ [Next]_vars => (providers \subseteq Provider)'
  <1> SUFFICES ASSUME providers \subseteq Provider, [Next]_vars PROVE providers' \subseteq Provider
    OBVIOUS
  <1>1. ASSUME NEW t \in Thread, rotate_root_provider(t) PROVE providers' \subseteq Provider
    BY <1>1 DEF rotate_root_provider, create_root_key_file
  <1>2. ASSUME NEW t \in Thread, Step(t) PROVE UNCHANGED providers
    BY <1>2 DEF Step, stored, encrypt_record, commit_records, decrypt_record, source_version,
           wrap_target, begin_kek_rotation, install_target, batches_committed, check_job,
           next_rewrap_batch, rewrap_items, apply_rewrap_batch, advance_rotation_stage,
           finish_kek_rotation, retire_source, registered_keys, rewrap_root_keys,
           replace_root_wrappings, replace_root_key
  <1>3. ASSUME NEW t \in Thread,
               \/ \E table \in Table : create_record(t, table)
               \/ create_secret(t) \/ update_secret(t) \/ purge_secret(t) \/ load_record(t)
               \/ start_kek_rotation(t) \/ resume_kek_rotation(t)
        PROVE  UNCHANGED providers
    BY <1>3 DEF stored, create_record, create_secret, update_secret, purge_secret, load_record,
           start_kek_rotation, resume_kek_rotation
  <1>4. CASE Crash \/ initialize_vault \/ UNCHANGED vars
    BY <1>4 DEF Crash, initialize_vault, vars, stored
  <1> QED
    BY <1>1, <1>2, <1>3, <1>4 DEF Next

\* The invariant is inductive: one case per action.
LEMMA NextKInv == KInv /\ providers \subseteq Provider /\ [Next]_vars => KInv'
  <1> SUFFICES ASSUME KInv, providers \subseteq Provider, [Next]_vars PROVE KInv'
    OBVIOUS
  <1>1. ASSUME NEW t \in Thread, Step(t) PROVE KInv'
    BY <1>1, Sealing, Committing, Loading, Preparing, Beginning, Releases, Looping, Batching,
       Rewrapping, Applying, Advancing, Finishing, Reprotecting, Replacing DEF Step
  <1>2. ASSUME NEW t \in Thread,
               \/ \E table \in Table : create_record(t, table)
               \/ create_secret(t) \/ update_secret(t) \/ purge_secret(t) \/ load_record(t)
               \/ start_kek_rotation(t) \/ resume_kek_rotation(t) \/ rotate_root_provider(t)
        PROVE  KInv'
    BY <1>2, Requests, Purging, Loading, Preparing, Looping, Reprotecting
  <1>3. CASE Crash \/ initialize_vault
    BY <1>3, CrashAndStart
  <1>4. CASE UNCHANGED vars
    <2>1. UNCHANGED <<registry, installation, job, rows, ring, root, audit_gate, call>>
      BY <1>4 DEF vars, stored, memory
    <2>2. Active' = Active /\ (Rotating' <=> Rotating) /\ Nonretired' = Nonretired
      BY <2>1 DEF Active, Rotating, Nonretired
    <2>3. RotationTyped'
      <3>1. \A u \in Thread : CallTyped(call[u])'
        BY <2>1 DEF KInv, RotationTyped, CallTyped
      <3> QED
        BY <2>1, <3>1, SMTT(60) DEF KInv, RotationTyped
    <2>4. RegistryValid'
      <3>1. \A w \in Version : StateOf(w)' = StateOf(w)
        BY <2>2 DEF StateOf
      <3> QED
        BY <2>1, <2>2, <3>1 DEF KInv, RegistryValid
    <2>5. CopiesBegun' /\ GateOwned' /\ RingBehind'
      BY <2>1, <2>2 DEF KInv, CopiesBegun, GateOwned, Running, RingBehind
    <2>6. KeysUsable'
      <3>1. \A w \in Version : Usable(w) => UsableIn(w, Active', call')
        BY <2>1, <2>2 DEF Usable, UsableIn
      <3> QED
        BY <2>1, <3>1, KeysStayUsable
    <2>7. RingMatchesRegistry' /\ RetiredUnneededUnlessLate'
      BY <2>1, <2>2 DEF KInv, RingMatchesRegistry, Running, RetiredUnneededUnlessLate, Rows
    <2> QED
      BY <2>3, <2>4, <2>5, <2>6, <2>7 DEF KInv
  <1> QED
    BY <1>1, <1>2, <1>3, <1>4 DEF Next

\* The invariant holds in every reachable state.
LEMMA RotationInvariant == Spec => []KInv
  <1>1. Init => providers \subseteq Provider
    BY RotationAssumption DEF Init
  <1> QED
    BY <1>1, InitKInv, NextKInv, ProvidersStep, PTL DEF Spec

-----------------------------------------------------------------------------
\* While no gated operation is under way, the ring of a running process is what
\* initialize_vault would load: begin_kek_rotation and finish_kek_rotation keep
\* audit_gate until the ring has followed their commit.
THEOREM RingFollowsRegistry == Spec => []RingMatchesRegistry
  <1>1. KInv => RingMatchesRegistry
    BY DEF KInv
  <1> QED
    BY <1>1, RotationInvariant, PTL

\* finish_kek_rotation leaves no scanned row that needs a retired key but those that
\* were committed late.
THEOREM OnlyLateRowsNeedRetired == Spec => []RetiredUnneededUnlessLate
  <1>1. KInv => RetiredUnneededUnlessLate
    BY DEF KInv
  <1> QED
    BY <1>1, RotationInvariant, PTL

\* decrypt_record finds the key of a row that was loaded, in the ring, unless that
\* key was retired meanwhile.
THEOREM ReadersAlwaysFindKeys == Spec => []ReadersFindKeys
  <1>1. KInv => ReadersFindKeys
    <2> SUFFICES ASSUME KInv, NEW t \in Thread, call[t].pc = "decrypt"
                 PROVE  call[t].row.kek \in ring.keys \/ registry[call[t].row.kek].state = "retired"
      BY DEF ReadersFindKeys, with_kek
    <2> DEFINE k == call[t].row.kek
    <2>1. k \in Version /\ Usable(k) /\ Running /\ Active \in Version
      BY BusyRuns DEF KInv, RotationTyped, CallTyped, KeysUsable, Active
    <2> HIDE DEF k
    <2>2. k \in Nonretired \/ registry[k].state = "retired"
      BY <2>1, SMTT(60) DEF KInv, RegistryValid, StateOf, Usable, UsableIn, Nonretired, Version
    <2>3. Nonretired = IF Rotating THEN {Active - 1, Active} ELSE {Active}
      BY NonretiredKeys DEF KInv
    <2>4. CASE audit_gate = None
      BY <2>1, <2>2, <2>4, SMTT(60) DEF KInv, RingMatchesRegistry, k
    <2>5. CASE audit_gate # None
      <3>1. PICK u \in Thread : audit_gate = u
        BY <2>5 DEF KInv, RotationTyped
      <3>2. call[u].pc \in Gated
        BY <3>1 DEF KInv, GateOwned
      <3>3. CASE call[u].pc = "install"
        <4>1. k # Active /\ Rotating /\ ring.keys = {Active - 1}
          BY <2>1, <3>3, SMTT(60) DEF KInv, RingBehind, Usable, UsableIn, Version
        <4> QED
          BY <2>2, <2>3, <4>1 DEF k
      <3>4. CASE call[u].pc = "retire"
        <4>1. ~Rotating /\ ring.keys = {Active - 1, Active}
          BY <3>4, SMTT(60) DEF KInv, RingBehind
        <4> QED
          BY <2>2, <2>3, <4>1 DEF k
      <3>5. CASE call[u].pc = "verify"
        <4>1. ring.keys = Nonretired
          BY <3>5, SMTT(60) DEF KInv, RingBehind
        <4> QED
          BY <2>2, <4>1 DEF k
      <3> QED
        BY <3>2, <3>3, <3>4, <3>5 DEF Gated
    <2> QED
      BY <2>4, <2>5
  <1> QED
    BY <1>1, RotationInvariant, PTL

-----------------------------------------------------------------------------
(* What a scan knows of its table.  A row that is added under a key that is *)
(* no longer active is late, and a row that is rewrapped leaves the source: *)
(* the rows under the source that are not late only become fewer while a    *)
(* batch is under way, whatever the other threads do.                       *)

\* The rows of a table under a key, but for those that were committed late.
OnTime(rs, table, v) == {i \in DOMAIN rs[table] : rs[table][i].kek = v /\ rs[table][i].late = FALSE}

\* A row under a replaced key that is not late was there before, of the same record.
WasThere(table, i, r) ==
    r.late = FALSE /\ r.kek < Active =>
        /\ i \in DOMAIN rows[table] /\ rows[table][i].kek = r.kek
        /\ rows[table][i].late = FALSE /\ rows[table][i].id = r.id

OnlyFewer(rs) == \A table \in Table : \A i \in DOMAIN rs[table] : WasThere(table, i, rs[table][i])

\* The batch holds the records of its rows and skips none; when nothing was
\* found, nothing is after the checkpoint.
Known(c, rs) ==
    /\ c.pc \in {"rewrap", "apply"} =>
          \A i \in OnTime(rs, Stages[c.job.stage], c.job.source) :
             /\ i \in DOMAIN c.items => rs[Stages[c.job.stage]][i].id = c.items[i].id
             /\ \A k \in DOMAIN c.items : c.job.last < i /\ i <= k => i \in DOMAIN c.items
    /\ c.pc = "apply" => \A i \in DOMAIN c.items : c.items[i].dek = c.items[i].id
    /\ c.pc = "advance" =>
          \A i \in OnTime(rs, Stages[c.job.stage], c.job.source) : i <= c.job.last

\* A row that is not late has the DEK it was sealed with.
DekKept(rs) ==
    \A table \in Table : \A i \in DOMAIN rs[table] :
       rs[table][i].late = FALSE => rs[table][i].dek = rs[table][i].id

\* The scan of a job has left nothing under the source behind its checkpoint.
Clean(j, rs) ==
    j # None =>
       \A s \in 1..4 : \A i \in OnTime(rs, Stages[s], j.source) :
          ~(s < j.stage) /\ ~(s = j.stage /\ i <= j.last)

ScanInv == (\A t \in Thread : Known(call[t], rows)) /\ DekKept(rows) /\ Clean(job, rows)

\* The batch of a call, and its copy of the job.
Held == {"rewrap", "apply", "advance"}

\* The rows of a table that a scan finds.
LEMMA OnTimeRow ==
    ASSUME NEW rs, NEW table, NEW v, NEW i
    PROVE  i \in OnTime(rs, table, v)
             <=> i \in DOMAIN rs[table] /\ rs[table][i].kek = v /\ rs[table][i].late = FALSE
  BY DEF OnTime

\* They have numbers.
LEMMA OnTimeNumber ==
    ASSUME KInv, NEW table \in Table, NEW v, NEW i \in OnTime(rows, table, v)
    PROVE  i \in 1..MaxRow /\ i \in Nat
  <1>1. i \in DOMAIN rows[table]
    BY OnTimeRow
  <1>2. DOMAIN rows[table] \subseteq 1..MaxRow
    BY DEF KInv, RotationTyped
  <1> QED
    BY <1>1, <1>2, SMTT(60)

\* Under a replaced key the rows on time become fewer, and stay what they are.
LEMMA FewerOnTime ==
    ASSUME NEW rs, OnlyFewer(rs), NEW table \in Table, NEW v, v < Active,
           NEW i \in OnTime(rs, table, v)
    PROVE  i \in OnTime(rows, table, v) /\ rs[table][i].id = rows[table][i].id
  <1>1. i \in DOMAIN rs[table] /\ rs[table][i].kek = v /\ rs[table][i].late = FALSE
    BY DEF OnTime
  <1>2. WasThere(table, i, rs[table][i])
    BY <1>1 DEF OnlyFewer
  <1>3. /\ i \in DOMAIN rows[table] /\ rows[table][i].kek = v
        /\ rows[table][i].late = FALSE /\ rows[table][i].id = rs[table][i].id
    BY <1>1, <1>2 DEF WasThere
  <1> QED
    BY <1>3 DEF OnTime

\* No key is before itself.
LEMMA ActiveNumber ==
    ASSUME KInv
    PROVE  Active \in Version /\ ~(Active < Active) /\ \A v : v < Active => v # Active
  <1>1. Active \in Version
    BY DEF KInv, RotationTyped, Active
  <1> QED
    BY <1>1, SMTT(60) DEF Version

\* A thread that scans is behind the active key.
LEMMA HeldCopy ==
    ASSUME KInv, NEW t \in Thread, call[t].pc \in Held
    PROVE  /\ call[t].job \in Job /\ call[t].job.stage \in 1..4
           /\ Stages[call[t].job.stage] \in Table
           /\ call[t].job.source \in Version /\ call[t].job.source < Active
           /\ call[t].job.last \in Nat
  <1>1. call[t].pc \in Scanning /\ call[t].pc # "loop"
    BY DEF Held, Scanning
  <1>2. /\ call[t].job \in Job /\ call[t].job.stage <= 4
        /\ call[t].job.target = call[t].job.source + 1 /\ call[t].job.target <= Active
    BY <1>1, CopyTyped
  <1>3. Active \in Version
    BY DEF KInv, RotationTyped, Active
  <1>4. call[t].job.stage \in 1..4
    BY <1>2, SMTT(60) DEF Job
  <1> QED
    BY <1>2, <1>3, <1>4, StageTables, RotationAssumption, SMTT(60) DEF Job, Version

\* A thread that is idle knows nothing.
LEMMA IdleKnows == \A rs : Known(Idle, rs)
  <1>1. Idle.pc = "idle"
    BY DEF Idle
  <1> QED
    BY <1>1 DEF Known

\* What a scan knows stays true when rows become fewer.
LEMMA KnownStays ==
    ASSUME KInv, NEW t \in Thread, Known(call[t], rows), NEW rs, OnlyFewer(rs)
    PROVE  Known(call[t], rs)
  <1>1. CASE call[t].pc \notin Held
    BY <1>1 DEF Known, Held
  <1>2. CASE call[t].pc \in Held
    <2>1. Stages[call[t].job.stage] \in Table /\ call[t].job.source < Active
      BY <1>2, HeldCopy
    <2>2. \A i \in OnTime(rs, Stages[call[t].job.stage], call[t].job.source) :
             /\ i \in OnTime(rows, Stages[call[t].job.stage], call[t].job.source)
             /\ rs[Stages[call[t].job.stage]][i].id = rows[Stages[call[t].job.stage]][i].id
      BY <2>1, FewerOnTime
    <2> QED
      BY <2>2 DEF Known
  <1> QED
    BY <1>1, <1>2

\* So does what the checkpoint says.
LEMMA CleanStays ==
    ASSUME KInv, Clean(job, rows), NEW rs, OnlyFewer(rs)
    PROVE  Clean(job, rs)
  <1> SUFFICES ASSUME job # None, NEW s \in 1..4, NEW i \in OnTime(rs, Stages[s], job.source)
               PROVE  i \in OnTime(rows, Stages[s], job.source)
    BY DEF Clean
  <1>1. job.source < Active /\ Stages[s] \in Table
    <2>1. job.source = Active - 1 /\ Active \in Version
      BY DEF KInv, RegistryValid, RotationTyped, Active
    <2> QED
      BY <2>1, StageTables, SMTT(60) DEF Version
  <1> QED
    BY <1>1, FewerOnTime

\* Rows that stay are as they were.
LEMMA SameRows == OnlyFewer(rows)
  BY DEF OnlyFewer, WasThere

\* A thread goes on, and the others stay where they are.
LEMMA Going ==
    ASSUME KInv, NEW t \in Thread, NEW next, Goto(t, next)
    PROVE  call'[t] = next /\ \A u \in Thread : u # t => call'[u] = call[u]
  BY DEF KInv, RotationTyped, Goto

\* A step of a thread keeps the invariant if the thread goes on with what it knows.
LEMMA ScanStep ==
    ASSUME KInv, ScanInv, NEW t \in Thread, \A u \in Thread : u # t => call'[u] = call[u],
           Known(call'[t], rows'), OnlyFewer(rows'), DekKept(rows'), Clean(job', rows')
    PROVE  ScanInv'
  <1>1. ASSUME NEW u \in Thread PROVE Known(call'[u], rows')
    <2>1. CASE u = t
      BY <2>1
    <2>2. CASE u # t
      <3>1. Known(call[u], rows')
        BY KnownStays DEF ScanInv
      <3> QED
        BY <2>2, <3>1
    <2> QED
      BY <2>1, <2>2
  <1> QED
    BY <1>1 DEF ScanInv, DekKept, Clean, OnTime, Known

\* A step that leaves the rows and the job, of a thread that holds no batch after it.
LEMMA QuietScan ==
    ASSUME KInv, ScanInv, NEW t \in Thread, \A u \in Thread : u # t => call'[u] = call[u],
           call'[t].pc \notin Held, UNCHANGED <<rows, job>>
    PROVE  ScanInv'
  <1>1. Known(call'[t], rows')
    BY DEF Known, Held
  <1>2. OnlyFewer(rows') /\ DekKept(rows') /\ Clean(job', rows')
    BY SameRows DEF ScanInv
  <1> QED
    BY <1>1, <1>2, ScanStep

\* The row of a part that is committed is late unless its key is the active one.
LEMMA NewRow ==
    ASSUME KInv, NEW table, NEW i, NEW id, NEW kek \in Version
    PROVE  LET r == [id |-> id, dek |-> id, kek |-> kek,
                     late |-> kek # installation.active_kek_version]
           IN  WasThere(table, i, r) /\ (r.late = FALSE => r.dek = r.id)
  <1> DEFINE late == kek # installation.active_kek_version
             r == [id |-> id, dek |-> id, kek |-> kek, late |-> late]
  <1>1. late = FALSE => ~(kek < Active)
    BY SMTT(60) DEF KInv, RotationTyped, Active, Version
  <1> HIDE DEF late
  <1>2. r.kek = kek /\ r.late = late /\ r.dek = r.id
    OBVIOUS
  <1> HIDE DEF r
  <1>3. WasThere(table, i, r) /\ (r.late = FALSE => r.dek = r.id)
    BY <1>1, <1>2 DEF WasThere
  <1> QED
    BY <1>3 DEF r, late

\* A row that stays where it is.
LEMMA OldRow ==
    ASSUME DekKept(rows), NEW table \in Table, NEW i \in DOMAIN rows[table]
    PROVE  /\ WasThere(table, i, rows[table][i])
           /\ rows[table][i].late = FALSE => rows[table][i].dek = rows[table][i].id
  BY DEF WasThere, DekKept

\* A commit adds no row on time but under the active key.
LEMMA CommitFewer ==
    ASSUME KInv, ScanInv, NEW t \in Thread, commit_records(t)
    PROVE  OnlyFewer(rows') /\ DekKept(rows')
  <1> DEFINE c == call[t]
             Part(table) == {i \in DOMAIN c.plan : c.plan[i].table = table}
             Chosen(table) == CHOOSE i \in Part(table) : TRUE
             Made(table) == [id |-> c.plan[Chosen(table)].id, dek |-> c.plan[Chosen(table)].id,
                             kek |-> c.sealed[Chosen(table)],
                             late |-> c.sealed[Chosen(table)] # installation.active_kek_version]
             new == [table \in Table |->
                       IF Part(table) = {} THEN rows[table] ELSE Insert(table, Made(table))]
  <1>1. c.pc = "seal" /\ CallTyped(c) /\ Len(c.sealed) = Len(c.plan)
    BY DEF commit_records, KInv, RotationTyped
  <1>2. DOMAIN c.plan = 1..Len(c.plan) /\ c.sealed \in Seq(Version)
    BY <1>1 DEF CallTyped
  <1>3. \A i \in DOMAIN c.plan : c.sealed[i] \in Version
    BY <1>1, <1>2, SMTT(60)
  <1>4. DekKept(rows)
    BY DEF ScanInv
  <1>5. CASE rows' = rows
    BY <1>4, <1>5, SameRows
  <1>6. CASE rows' = new
    <2>1. ASSUME NEW table \in Table, NEW i \in DOMAIN new[table]
          PROVE  /\ WasThere(table, i, new[table][i])
                 /\ new[table][i].late = FALSE => new[table][i].dek = new[table][i].id
      <3>1. CASE Part(table) = {}
        <4>1. new[table] = rows[table]
          BY <3>1
        <4> HIDE DEF new
        <4> QED
          BY <1>4, <2>1, <4>1, OldRow
      <3>2. CASE Part(table) # {}
        <4>1. Chosen(table) \in DOMAIN c.plan
          BY <3>2
        <4>2. c.sealed[Chosen(table)] \in Version
          BY <1>3, <4>1
        <4> HIDE DEF Chosen, c
        <4>3. /\ WasThere(table, i, Made(table))
              /\ Made(table).late = FALSE => Made(table).dek = Made(table).id
          BY <4>2, NewRow
        <4> HIDE DEF Made, Part
        <4>4. new[table] = Insert(table, Made(table))
          BY <3>2
        <4> HIDE DEF new
        <4>5. \/ new[table][i] = Made(table)
              \/ i \in DOMAIN rows[table] /\ new[table][i] = rows[table][i]
          BY <2>1, <4>4 DEF Insert
        <4> QED
          BY <1>4, <4>3, <4>5, OldRow
      <3> QED
        BY <3>1, <3>2
    <2> HIDE DEF new
    <2> QED
      BY <1>6, <2>1 DEF OnlyFewer, DekKept
  <1>7. rows' = rows \/ rows' = new
    BY DEF commit_records
  <1> QED
    BY <1>5, <1>6, <1>7

\* A purge only removes rows.
LEMMA PurgeFewer ==
    ASSUME KInv, ScanInv, NEW t \in Thread, purge_secret(t)
    PROVE  OnlyFewer(rows') /\ DekKept(rows')
  <1>1. PICK r \in Rows("secret_metadata") : rows' = [table \in Table |->
                     IF table \in {"secret_metadata", "secret_versions"}
                     THEN [i \in {j \in DOMAIN rows[table] :
                                     rows[table][j].id[1] # r.id[1]} |-> rows[table][i]]
                     ELSE rows[table]]
    BY DEF purge_secret
  <1>2. \A table \in Table : \A i \in DOMAIN rows'[table] :
           i \in DOMAIN rows[table] /\ rows'[table][i] = rows[table][i]
    BY <1>1
  <1>3. DekKept(rows)
    BY DEF ScanInv
  <1> QED
    BY <1>2, <1>3, OldRow DEF OnlyFewer, DekKept

\* The table of a batch that is applied: the rows of the batch are under the
\* active key, with the DEK of their own record unless they are late.
LEMMA ApplyFewer ==
    ASSUME KInv, ScanInv, NEW t \in Thread, call[t].pc = "apply", job = call[t].job,
           \A i \in DOMAIN call[t].items :
              update_rewrap(Stages[call[t].job.stage], i, call[t].job.source),
           rows' = [rows EXCEPT ![Stages[call[t].job.stage]] =
                      [i \in DOMAIN rows[Stages[call[t].job.stage]] |->
                        IF i \in DOMAIN call[t].items
                        THEN [id |-> rows[Stages[call[t].job.stage]][i].id,
                              dek |-> call[t].items[i].dek,
                              kek |-> call[t].job.target,
                              late |-> rows[Stages[call[t].job.stage]][i].late]
                        ELSE rows[Stages[call[t].job.stage]][i]]]
    PROVE  /\ OnlyFewer(rows') /\ DekKept(rows')
           /\ \A i \in DOMAIN call[t].items :
                 i \notin OnTime(rows', Stages[call[t].job.stage], call[t].job.source)
  <1> DEFINE c == call[t]
             table == Stages[c.job.stage]
             ids == DOMAIN c.items
             Rewrapped(i) == [id |-> rows[table][i].id, dek |-> c.items[i].dek,
                              kek |-> c.job.target, late |-> rows[table][i].late]
             new == [i \in DOMAIN rows[table] |->
                       IF i \in ids THEN Rewrapped(i) ELSE rows[table][i]]
  <1>1. c.pc = "apply" /\ c.pc \in Held /\ c.pc \in Scanning /\ job = c.job
    BY DEF Held, Scanning
  <1>2. table \in Table /\ c.job.source \in Version /\ c.job.source < Active
    BY <1>1, HeldCopy
  <1>3. c.job.target = Active
    BY <1>1, CurrentCopy
  <1>4. DekKept(rows) /\ Known(c, rows)
    BY DEF ScanInv
  <1>5. \A i \in ids : update_rewrap(table, i, c.job.source)
    OBVIOUS
  <1>6. rows' = [rows EXCEPT ![table] = new]
    OBVIOUS
  <1>7. \A i \in ids : c.items[i].dek = c.items[i].id
    BY <1>1, <1>4 DEF Known
  <1>8. \A i \in OnTime(rows, table, c.job.source) : i \in ids => rows[table][i].id = c.items[i].id
    BY <1>1, <1>4 DEF Known
  <1>9. ASSUME NEW i \in ids
        PROVE  /\ WasThere(table, i, Rewrapped(i)) /\ Rewrapped(i).kek = c.job.target
               /\ Rewrapped(i).late = FALSE => Rewrapped(i).dek = Rewrapped(i).id
    <2> DEFINE r == Rewrapped(i)
               late == rows[table][i].late
    <2>1. /\ r.kek = c.job.target /\ r.late = late
          /\ r.id = rows[table][i].id /\ r.dek = c.items[i].dek
      OBVIOUS
    <2>2. ~(Active < Active)
      BY ActiveNumber
    <2>3. late = FALSE => i \in OnTime(rows, table, c.job.source)
      BY <1>5, <1>9, OnTimeRow DEF update_rewrap
    <2>4. late = FALSE => c.items[i].dek = rows[table][i].id
      BY <1>7, <1>8, <1>9, <2>3
    <2> HIDE DEF r
    <2>5. WasThere(table, i, r) /\ r.kek = c.job.target /\ (r.late = FALSE => r.dek = r.id)
      BY <1>3, <2>1, <2>2, <2>4 DEF WasThere
    <2> QED
      BY <2>5 DEF r
  <1> HIDE DEF Rewrapped, c, table, ids
  <1>10. ASSUME NEW i \in DOMAIN new
         PROVE  /\ WasThere(table, i, new[i]) /\ (i \in ids => new[i].kek = c.job.target)
                /\ new[i].late = FALSE => new[i].dek = new[i].id
    <2>1. CASE i \in ids
      <3>1. new[i] = Rewrapped(i)
        BY <1>10, <2>1
      <3> HIDE DEF new
      <3> QED
        BY <1>9, <2>1, <3>1
    <2>2. CASE i \notin ids
      <3>1. new[i] = rows[table][i] /\ i \in DOMAIN rows[table]
        BY <1>10, <2>2
      <3> HIDE DEF new
      <3> QED
        BY <1>2, <1>4, <2>2, <3>1, OldRow
    <2> QED
      BY <2>1, <2>2
  <1> HIDE DEF new
  <1>11. \A u \in Table : rows'[u] = IF u = table THEN new ELSE rows[u]
    <2>1. rows = [u \in Table |-> rows[u]]
      BY DEF KInv, RotationTyped
    <2> QED
      BY <1>2, <1>6, <2>1
  <1>12. OnlyFewer(rows') /\ DekKept(rows')
    <2>1. ASSUME NEW u \in Table, NEW i \in DOMAIN rows'[u]
          PROVE  /\ WasThere(u, i, rows'[u][i])
                 /\ rows'[u][i].late = FALSE => rows'[u][i].dek = rows'[u][i].id
      <3>1. CASE u = table
        <4>1. rows'[u] = new
          BY <1>11, <3>1
        <4> QED
          BY <1>10, <2>1, <3>1, <4>1
      <3>2. CASE u # table
        <4>1. rows'[u] = rows[u]
          BY <1>11, <3>2
        <4> QED
          BY <1>4, <2>1, <4>1, OldRow
      <3> QED
        BY <3>1, <3>2
    <2> QED
      BY <2>1 DEF OnlyFewer, DekKept
  <1>13. \A i \in ids : i \notin OnTime(rows', table, c.job.source)
    <2>1. c.job.target # c.job.source
      BY <1>2, <1>3, ActiveNumber
    <2>2. rows'[table] = new
      BY <1>2, <1>11
    <2> QED
      BY <1>10, <2>1, <2>2 DEF OnTime
  <1> QED
    BY <1>12, <1>13 DEF c, table, ids

\* apply_rewrap_batch moves the checkpoint to the last row of its batch: no row on
\* time is skipped.
LEMMA ApplyScan ==
    ASSUME KInv, ScanInv, NEW t \in Thread, apply_rewrap_batch(t)
    PROVE  ScanInv'
  <1> DEFINE c == call[t]
             table == Stages[c.job.stage]
             ids == DOMAIN c.items
             next == [c.job EXCEPT !.last = Max(ids)]
             loop == [pc |-> "loop", job |-> next, left |-> c.left - 1, probing |-> FALSE]
  <1>1. c.pc = "apply" /\ c.pc \in Held /\ c.pc \in Scanning
    BY DEF apply_rewrap_batch, Held, Scanning
  <1>2. /\ c.job \in Job /\ c.job.stage \in 1..4 /\ table \in Table
        /\ c.job.source \in Version /\ c.job.source < Active /\ c.job.last \in Nat
    BY <1>1, HeldCopy
  <1>3. ids \subseteq 1..MaxRow /\ ids # {} /\ MaxRow \in Nat
    BY <1>1, CopyTyped, RotationAssumption
  <1>4. CASE Return(t) /\ UNCHANGED <<rows, job>>
    <2>1. call'[t] = Idle /\ \A u \in Thread : u # t => call'[u] = call[u]
      BY <1>4, Going DEF Return
    <2>2. call'[t].pc \notin Held
      BY <2>1, SMTT(60) DEF Idle, Held
    <2> QED
      BY <1>4, <2>1, <2>2, QuietScan
  <1>5. CASE /\ job = c.job /\ \A i \in ids : update_rewrap(table, i, c.job.source)
             /\ rows' = [rows EXCEPT ![table] = [i \in DOMAIN rows[table] |->
                        IF i \in ids
                        THEN [id |-> rows[table][i].id, dek |-> c.items[i].dek,
                              kek |-> c.job.target, late |-> rows[table][i].late]
                        ELSE rows[table][i]]]
             /\ job' = next /\ Goto(t, loop)
    <2>1. /\ OnlyFewer(rows') /\ DekKept(rows')
          /\ \A i \in ids : i \notin OnTime(rows', table, c.job.source)
      BY <1>1, <1>5, ApplyFewer
    <2>2. Max(ids) \in ids /\ \A k \in ids : Max(ids) >= k
      BY <1>3, MaxOf
    <2> DEFINE last == Max(ids)
    <2> HIDE DEF last
    <2>3. next.stage = c.job.stage /\ next.source = c.job.source /\ next.last = last
      BY <1>2 DEF Job, last
    <2>4. Clean(job', rows')
      <3> SUFFICES ASSUME NEW s \in 1..4, NEW i \in OnTime(rows', Stages[s], c.job.source)
                   PROVE  ~(s < c.job.stage) /\ ~(s = c.job.stage /\ i <= last)
        BY <1>5, <2>3 DEF Clean
      <3>1. Stages[s] \in Table
        BY StageTables
      <3>2. i \in OnTime(rows, Stages[s], c.job.source)
        BY <1>2, <2>1, <3>1, FewerOnTime
      <3>3. ~(s < c.job.stage) /\ ~(s = c.job.stage /\ i <= c.job.last)
        BY <1>1, <1>5, <3>2, CurrentCopy DEF ScanInv, Clean
      <3>4. ASSUME s = c.job.stage, i <= last PROVE FALSE
        <4>1. i \in Nat
          BY <3>1, <3>2, OnTimeNumber
        <4>2. c.job.last < i
          BY <1>2, <3>3, <3>4, <4>1, SMTT(60)
        <4>3. i \in ids
          BY <1>1, <2>2, <3>2, <3>4, <4>2 DEF ScanInv, Known, last
        <4> QED
          BY <2>1, <3>4, <4>3
      <3> QED
        BY <3>3, <3>4
    <2>5. call'[t] = loop /\ \A u \in Thread : u # t => call'[u] = call[u]
      <3> HIDE DEF loop
      <3> QED
        BY <1>5, Going
    <2>6. loop.pc = "loop"
      OBVIOUS
    <2>7. Known(call'[t], rows')
      BY <2>5, <2>6 DEF Known
    <2> QED
      BY <2>1, <2>4, <2>5, <2>7, ScanStep
  <1> QED
    BY <1>4, <1>5 DEF apply_rewrap_batch

\* A stage is advanced when nothing on time is left in its table.
LEMMA AdvanceScan ==
    ASSUME KInv, ScanInv, NEW t \in Thread, advance_rotation_stage(t)
    PROVE  ScanInv'
  <1> DEFINE c == call[t]
             next == [c.job EXCEPT !.stage = @ + 1, !.last = 0]
             loop == [pc |-> "loop", job |-> next, left |-> c.left, probing |-> FALSE]
  <1>1. c.pc = "advance" /\ c.pc \in Held /\ c.pc \in Scanning /\ rows' = rows
    BY DEF advance_rotation_stage, Held, Scanning
  <1>2. c.job \in Job /\ c.job.stage \in 1..4
    BY <1>1, HeldCopy
  <1>3. CASE Return(t) /\ UNCHANGED job
    <2>1. call'[t] = Idle /\ \A u \in Thread : u # t => call'[u] = call[u]
      BY <1>3, Going DEF Return
    <2>2. call'[t].pc \notin Held
      BY <2>1, SMTT(60) DEF Idle, Held
    <2> QED
      BY <1>1, <1>3, <2>1, <2>2, QuietScan
  <1>4. CASE job = c.job /\ job' = next /\ Goto(t, loop)
    <2> DEFINE after == c.job.stage + 1
    <2>1. next.stage = after /\ next.source = c.job.source /\ next.last = 0
      <3> HIDE DEF after
      <3>1. next = [c.job EXCEPT !.stage = after, !.last = 0]
        BY DEF after
      <3> QED
        BY <1>2, <3>1 DEF Job
    <2>2. Clean(job', rows')
      <3> SUFFICES ASSUME NEW s \in 1..4, NEW i \in OnTime(rows, Stages[s], c.job.source)
                   PROVE  ~(s < after) /\ ~(s = after /\ i <= 0)
        BY <1>1, <1>4, <2>1 DEF Clean
      <3>1. Stages[s] \in Table
        BY StageTables
      <3>2. i \in 1..MaxRow
        BY <3>1, OnTimeNumber
      <3>3. ~(s < c.job.stage) /\ ~(s = c.job.stage /\ i <= c.job.last)
        BY <1>1, <1>4, CurrentCopy DEF ScanInv, Clean
      <3>4. s = c.job.stage => i <= c.job.last
        BY <1>1 DEF ScanInv, Known
      <3> QED
        BY <1>2, <3>2, <3>3, <3>4, SMTT(60)
    <2>3. call'[t] = loop /\ \A u \in Thread : u # t => call'[u] = call[u]
      <3> HIDE DEF loop
      <3> QED
        BY <1>4, Going
    <2>4. loop.pc = "loop"
      OBVIOUS
    <2>5. Known(call'[t], rows')
      BY <2>3, <2>4 DEF Known
    <2>6. OnlyFewer(rows') /\ DekKept(rows')
      BY <1>1, SameRows DEF ScanInv
    <2> QED
      BY <2>2, <2>3, <2>5, <2>6, ScanStep
  <1> QED
    BY <1>1, <1>3, <1>4 DEF advance_rotation_stage

\* A batch is the first rows of what was found: a row before one of the batch is in it.
LEMMA LowestClosed ==
    ASSUME NEW n \in Nat, NEW S, S \subseteq 1..n, NEW k \in Lowest(S, BatchSize),
           NEW i \in S, i <= k
    PROVE  i \in Lowest(S, BatchSize)
  <1> DEFINE I == {j \in S : j < i}
             K == {j \in S : j < k}
  <1>1. IsFiniteSet(S)
    <2>1. 1 \in Int /\ n \in Int
      BY SMTT(60)
    <2>2. IsFiniteSet(1..n)
      BY <2>1, FS_Interval
    <2> QED
      BY <2>2, FS_Subset
  <1>2. k \in S /\ Cardinality(K) < BatchSize
    BY DEF Lowest
  <1>3. \A j \in S : j \in Nat /\ i \in Nat /\ k \in Nat
    BY <1>2, SMTT(60)
  <1>4. I \subseteq K /\ K \subseteq S
    <2>1. \A j \in S : j < i => j < k
      BY <1>3, SMTT(60)
    <2> QED
      BY <2>1
  <1> HIDE DEF I, K
  <1>5. IsFiniteSet(K) /\ Cardinality(I) <= Cardinality(K)
    BY <1>1, <1>4, FS_Subset
  <1>6. IsFiniteSet(I)
    BY <1>4, <1>5, FS_Subset
  <1>7. Cardinality(I) \in Nat /\ Cardinality(K) \in Nat /\ BatchSize \in Nat
    BY <1>5, <1>6, FS_CardinalityType, RotationAssumption
  <1>8. Cardinality(I) < BatchSize
    BY <1>2, <1>5, <1>7, SMTT(60)
  <1> QED
    BY <1>8 DEF Lowest, I

\* next_rewrap_batch reads the first rows after the checkpoint, or finds none.
LEMMA BatchScan ==
    ASSUME KInv, ScanInv, NEW t \in Thread, next_rewrap_batch(t)
    PROVE  ScanInv'
  <1> DEFINE c == call[t]
             found == stage_query(c.job)
             table == rows[Stages[c.job.stage]]
             left == OnTime(rows, Stages[c.job.stage], c.job.source)
             items == [i \in Lowest(found, BatchSize) |-> table[i]]
             advance == [c EXCEPT !.pc = "advance"]
             loop == [c EXCEPT !.pc = "loop", !.probing = TRUE]
             rewrap == [pc |-> "rewrap", job |-> c.job, left |-> c.left, items |-> items]
  <1>1. c.pc = "query" /\ c.pc \in Scanning /\ UNCHANGED <<rows, job>>
    BY DEF next_rewrap_batch, Scanning, stored
  <1>2. /\ c.job \in Job /\ c.job.stage <= 4
        /\ c = [pc |-> c.pc, job |-> c.job, left |-> c.left, probing |-> c.probing]
    BY <1>1, CopyTyped
  <1>3. c.job.stage \in 1..4 /\ Stages[c.job.stage] \in Table /\ MaxRow \in Nat
    BY <1>2, StageTables, RotationAssumption, SMTT(60) DEF Job
  <1>4. found \subseteq 1..MaxRow
    BY <1>3 DEF KInv, RotationTyped, stage_query
  <1>5. ASSUME NEW i \in left PROVE i \in 1..MaxRow /\ (c.job.last < i => i \in found)
    <2>1. i \in 1..MaxRow /\ i \in Nat
      BY <1>3, OnTimeNumber
    <2>2. i \in DOMAIN table /\ table[i].kek = c.job.source
      BY <1>5 DEF OnTime
    <2>3. c.job.last \in Nat
      BY <1>2, RotationAssumption, SMTT(60) DEF Job
    <2>4. c.job.last < i => i > c.job.last
      BY <2>1, <2>3
    <2> QED
      BY <2>1, <2>2, <2>4 DEF stage_query
  <1>6. OnlyFewer(rows') /\ DekKept(rows') /\ Clean(job', rows')
    BY <1>1, SameRows DEF ScanInv
  <1>7. ASSUME NEW next, Goto(t, next), Known(next, rows) PROVE ScanInv'
    <2>1. call'[t] = next /\ \A u \in Thread : u # t => call'[u] = call[u]
      BY <1>7, Going
    <2> QED
      BY <1>1, <1>6, <1>7, <2>1, ScanStep
  <1> HIDE DEF left, found, table
  <1>8. CASE Return(t)
    <2>1. Known(Idle, rows)
      BY IdleKnows
    <2> QED
      BY <1>7, <1>8, <2>1 DEF Return
  <1>9. CASE found = {} /\ Goto(t, advance)
    <2>1. advance.pc = "advance" /\ advance.job = c.job
      BY <1>2
    <2>2. \A i \in left : i <= c.job.last
      BY <1>2, <1>5, <1>9, SMTT(60) DEF Job
    <2> HIDE DEF advance
    <2>3. Known(advance, rows)
      BY <2>1, <2>2 DEF Known, left
    <2> QED
      BY <1>7, <1>9, <2>3
  <1>10. CASE Goto(t, loop)
    <2>1. loop.pc = "loop"
      <3> DEFINE j == c.job
                 rest == c.left
                 probing == c.probing
      <3>1. c = [pc |-> "query", job |-> j, left |-> rest, probing |-> probing]
        BY <1>1, <1>2
      <3> HIDE DEF c, j, rest, probing
      <3>2. loop = [[pc |-> "query", job |-> j, left |-> rest, probing |-> probing]
                      EXCEPT !.pc = "loop", !.probing = TRUE]
        BY <3>1
      <3> HIDE DEF loop
      <3>3. loop = [pc |-> "loop", job |-> j, left |-> rest, probing |-> TRUE]
        BY <3>2, LoopFields
      <3> QED
        BY <3>3
    <2> HIDE DEF loop
    <2>2. Known(loop, rows)
      BY <2>1 DEF Known
    <2> QED
      BY <1>7, <1>10, <2>2
  <1>11. CASE Goto(t, rewrap)
    <2>1. DOMAIN items = Lowest(found, BatchSize) /\ \A i \in DOMAIN items : items[i] = table[i]
      OBVIOUS
    <2> HIDE DEF items
    <2>2. rewrap.pc = "rewrap" /\ rewrap.job = c.job /\ rewrap.items = items
      OBVIOUS
    <2> HIDE DEF rewrap
    <2>3. \A i \in left : i \in DOMAIN items => rows[Stages[c.job.stage]][i].id = items[i].id
      BY <2>1 DEF table
    <2>4. \A i \in left : \A k \in DOMAIN items :
             c.job.last < i /\ i <= k => i \in DOMAIN items
      BY <1>3, <1>4, <1>5, <2>1, LowestClosed
    <2>5. Known(rewrap, rows)
      BY <2>2, <2>3, <2>4 DEF Known, left
    <2> QED
      BY <1>7, <1>11, <2>5
  <1>12. \/ Return(t) \/ (found = {} /\ Goto(t, advance)) \/ Goto(t, loop) \/ Goto(t, rewrap)
    <2> DEFINE advances == Goto(t, advance)
               loops == Goto(t, loop)
               rewraps == Goto(t, rewrap)
    <2>1. (CASE c.probing /\ found = {} -> advances
            [] c.probing /\ found # {} -> Return(t)
            [] ~c.probing /\ found = {} -> loops
            [] OTHER -> rewraps)
      BY DEF next_rewrap_batch, found, table
    <2> HIDE DEF advances, loops, rewraps, c
    <2>2. found = {} \/ found # {}
      OBVIOUS
    <2> QED
      BY <2>1, <2>2 DEF advances, loops, rewraps
  <1> QED
    BY <1>8, <1>9, <1>10, <1>11, <1>12

\* rewrap_item opens the DEK of an item only for the item's own record.
LEMMA RewrapScan ==
    ASSUME KInv, ScanInv, NEW t \in Thread, rewrap_items(t)
    PROVE  ScanInv'
  <1> DEFINE c == call[t]
             apply == [c EXCEPT !.pc = "apply"]
  <1>1. c.pc = "rewrap" /\ c.pc \in Scanning /\ UNCHANGED <<rows, job>> /\ Known(c, rows)
    BY DEF rewrap_items, Scanning, stored, ScanInv
  <1>2. c = [pc |-> c.pc, job |-> c.job, left |-> c.left, items |-> c.items]
    BY <1>1, CopyTyped
  <1>3. OnlyFewer(rows') /\ DekKept(rows') /\ Clean(job', rows')
    BY <1>1, SameRows DEF ScanInv
  <1>4. CASE Return(t)
    <2>1. call'[t] = Idle /\ \A u \in Thread : u # t => call'[u] = call[u]
      BY <1>4, Going DEF Return
    <2>2. call'[t].pc \notin Held
      BY <2>1, SMTT(60) DEF Idle, Held
    <2> QED
      BY <1>1, <2>1, <2>2, QuietScan
  <1>5. CASE Goto(t, apply) /\ \A i \in DOMAIN c.items : c.items[i].dek = c.items[i].id
    <2>1. apply.pc = "apply" /\ apply.job = c.job /\ apply.items = c.items
      BY <1>2
    <2> HIDE DEF apply
    <2>2. Known(apply, rows)
      BY <1>1, <1>5, <2>1 DEF Known
    <2>3. call'[t] = apply /\ \A u \in Thread : u # t => call'[u] = call[u]
      BY <1>5, Going
    <2> QED
      BY <1>1, <1>3, <2>2, <2>3, ScanStep
  <1> QED
    BY <1>4, <1>5 DEF rewrap_items

\* A new job has passed nothing.
LEMMA BeginScan ==
    ASSUME KInv, ScanInv, NEW t \in Thread, begin_kek_rotation(t)
    PROVE  ScanInv'
  <1> DEFINE v == call[t].source
             new == [source |-> v, target |-> v + 1, stage |-> 1, last |-> 0]
             install == [pc |-> "install", target |-> v + 1]
  <1>1. rows' = rows
    BY DEF begin_kek_rotation
  <1>2. CASE Return(t) /\ UNCHANGED job
    <2>1. call'[t] = Idle /\ \A u \in Thread : u # t => call'[u] = call[u]
      BY <1>2, Going DEF Return
    <2>2. call'[t].pc \notin Held
      BY <2>1, SMTT(60) DEF Idle, Held
    <2> QED
      BY <1>1, <1>2, <2>1, <2>2, QuietScan
  <1>3. CASE job' = new /\ Goto(t, install)
    <2>1. new.stage = 1 /\ new.last = 0
      OBVIOUS
    <2> DEFINE source == new.source
    <2> HIDE DEF new, source
    <2>2. ASSUME NEW s \in 1..4, NEW i \in OnTime(rows, Stages[s], source)
          PROVE  ~(s < 1) /\ ~(s = 1 /\ i <= 0)
      <3>1. Stages[s] \in Table
        BY StageTables
      <3>2. i \in 1..MaxRow
        BY <3>1, OnTimeNumber
      <3> QED
        BY <3>2, SMTT(60)
    <2>3. Clean(job', rows')
      BY <1>1, <1>3, <2>1, <2>2 DEF Clean, source
    <2>4. call'[t] = install /\ \A u \in Thread : u # t => call'[u] = call[u]
      <3> HIDE DEF install
      <3> QED
        BY <1>3, Going
    <2>5. install.pc = "install"
      OBVIOUS
    <2>6. Known(call'[t], rows')
      BY <2>4, <2>5 DEF Known
    <2>7. OnlyFewer(rows') /\ DekKept(rows')
      BY <1>1, SameRows DEF ScanInv
    <2> QED
      BY <2>3, <2>4, <2>6, <2>7, ScanStep
  <1> QED
    BY <1>2, <1>3 DEF begin_kek_rotation, begin_transaction

\* Without a job there is nothing to be clean behind.
LEMMA FinishScan ==
    ASSUME KInv, ScanInv, NEW t \in Thread, finish_kek_rotation(t)
    PROVE  ScanInv'
  <1>1. rows' = rows /\ (job' = job \/ job' = None)
    BY DEF finish_kek_rotation
  <1>2. Clean(job', rows')
    BY <1>1 DEF Clean, ScanInv
  <1>3. PICK next : Goto(t, next) /\ next.pc \notin Held
    <2> DEFINE retire == [pc |-> "retire", source |-> call[t].job.source]
    <2>1. Goto(t, Idle) \/ Goto(t, retire)
      BY DEF finish_kek_rotation, Return
    <2>2. Idle.pc \notin Held /\ retire.pc \notin Held
      BY DEF Held, Idle
    <2> QED
      BY <2>1, <2>2
  <1>4. call'[t].pc \notin Held /\ \A u \in Thread : u # t => call'[u] = call[u]
    BY <1>3, Going
  <1>5. Known(call'[t], rows')
    BY <1>4 DEF Known, Held
  <1>6. OnlyFewer(rows') /\ DekKept(rows')
    BY <1>1, SameRows DEF ScanInv
  <1> QED
    BY <1>2, <1>4, <1>5, <1>6, ScanStep

\* Where a thread holds neither a batch nor a wrapping.
Free == {"idle", "decrypt", "source", "wrap", "loop", "query"}

\* A thread goes on to one of the points of a set, with the rows and the job left alone.
Lets(t, S) ==
    /\ UNCHANGED <<rows, job>>
    /\ \E next : Goto(t, next) /\ next.pc \in S

\* Such a step keeps the invariant.
LEMMA Letting ==
    ASSUME KInv, ScanInv, NEW t \in Thread, NEW S, S \intersect Held = {}, Lets(t, S)
    PROVE  ScanInv'
  <1>1. PICK next : Goto(t, next) /\ next.pc \notin Held
    BY DEF Lets
  <1>2. call'[t].pc \notin Held /\ \A u \in Thread : u # t => call'[u] = call[u]
    BY <1>1, Going
  <1> QED
    BY <1>2, QuietScan DEF Lets

\* A writer plans its parts and seals them.
LEMMA WritersLet ==
    ASSUME KInv, NEW t \in Thread,
           \/ \E table \in Table : create_record(t, table)
           \/ create_secret(t) \/ update_secret(t) \/ encrypt_record(t)
    PROVE  Lets(t, {"seal"})
  <1> DEFINE c == call[t]
  <1>1. ASSUME NEW plan, Written(t, plan) PROVE \E next : Goto(t, next) /\ next.pc \in {"seal"}
    <2> DEFINE next == [pc |-> "seal", plan |-> plan, sealed |-> <<>>]
    <2>1. next.pc \in {"seal"}
      OBVIOUS
    <2> QED
      BY <1>1, <2>1 DEF Written
  <1>2. CASE \/ \E table \in Table : create_record(t, table)
             \/ create_secret(t) \/ update_secret(t)
    <2>1. UNCHANGED <<rows, job>> /\ \E plan : Written(t, plan)
      BY <1>2 DEF create_record, create_secret, update_secret, stored
    <2> QED
      BY <1>1, <2>1 DEF Lets
  <1>7. CASE encrypt_record(t)
    <2> DEFINE longer == Append(c.sealed, ring.active)
               next == [c EXCEPT !.sealed = longer]
    <2>1. c.pc = "seal" /\ c = [pc |-> "seal", plan |-> c.plan, sealed |-> c.sealed]
      BY <1>7 DEF encrypt_record, KInv, RotationTyped, CallTyped
    <2>2. Goto(t, next) /\ UNCHANGED <<rows, job>>
      BY <1>7 DEF encrypt_record, stored
    <2> HIDE DEF longer
    <2>3. next.pc = "seal"
      BY <2>1
    <2>4. next.pc \in {"seal"}
      BY <2>3
    <2> QED
      BY <2>2, <2>4 DEF Lets
  <1> QED
    BY <1>2, <1>7

\* The other steps of clients and of a rotation outside its transactions.
LEMMA ClientsLet ==
    ASSUME KInv, NEW t \in Thread,
           \/ load_record(t) \/ decrypt_record(t)
           \/ start_kek_rotation(t) \/ source_version(t) \/ install_target(t)
           \/ resume_kek_rotation(t) \/ batches_committed(t) \/ check_job(t) \/ retire_source(t)
    PROVE  Lets(t, Free)
  <1> DEFINE c == call[t]
  <1>0. Goto(t, Idle) => \E next : Goto(t, next) /\ next.pc \in Free
    <2>1. Idle.pc \in Free
      BY DEF Idle, Free
    <2> QED
      BY <2>1
  <1>3. CASE load_record(t)
    <2>1. PICK r : Goto(t, [pc |-> "decrypt", row |-> r])
      BY <1>3 DEF load_record
    <2> DEFINE next == [pc |-> "decrypt", row |-> r]
    <2>2. next.pc \in Free
      BY DEF Free
    <2> QED
      BY <1>3, <2>1, <2>2 DEF load_record, stored, Lets
  <1>4. CASE start_kek_rotation(t)
    <2> DEFINE next == [pc |-> "source"]
    <2>1. next.pc \in Free
      BY DEF Free
    <2> QED
      BY <1>4, <2>1 DEF start_kek_rotation, stored, Lets
  <1>5. CASE resume_kek_rotation(t)
    <2>1. PICK n : Goto(t, [pc |-> "loop", job |-> job, left |-> n, probing |-> FALSE])
      BY <1>5 DEF resume_kek_rotation
    <2> DEFINE next == [pc |-> "loop", job |-> job, left |-> n, probing |-> FALSE]
    <2>2. next.pc \in Free
      BY DEF Free
    <2> QED
      BY <1>5, <2>1, <2>2 DEF resume_kek_rotation, stored, Lets
  <1>8. CASE decrypt_record(t) \/ batches_committed(t)
    BY <1>0, <1>8 DEF decrypt_record, batches_committed, Return, stored, Lets
  <1>9. CASE install_target(t) \/ retire_source(t)
    BY <1>0, <1>9 DEF install_target, retire_source, Return, stored, Lets
  <1>10. CASE source_version(t)
    <2> DEFINE next == [pc |-> "wrap", source |-> ring.active]
    <2>1. next.pc \in Free
      BY DEF Free
    <2> QED
      BY <1>0, <1>10, <2>1 DEF source_version, Return, stored, Lets
  <1>12. CASE check_job(t)
    <2> DEFINE next == [c EXCEPT !.pc = "query"]
    <2>1. c.pc = "loop" /\ c.pc \in Scanning
      BY <1>12 DEF check_job, Scanning
    <2>2. c = [pc |-> c.pc, job |-> c.job, left |-> c.left, probing |-> c.probing]
      BY <2>1, CopyTyped
    <2>3. next.pc \in Free
      BY <2>2 DEF Free
    <2> QED
      BY <1>0, <1>12, <2>3 DEF check_job, Return, stored, Lets
  <1> QED
    BY <1>3, <1>4, <1>5, <1>8, <1>9, <1>10, <1>12

\* The steps of a rotation of the root provider, and wrap_target.
Rotators == {"registry", "reprotect", "replace", "verify"}
Wrappers == Rotators \union {"idle", "begin"}

\* After one of these a thread is at such a step.
LEMMA WrappersLet ==
    ASSUME KInv, NEW t \in Thread,
           \/ rotate_root_provider(t) \/ wrap_target(t)
           \/ registered_keys(t) \/ rewrap_root_keys(t) \/ replace_root_wrappings(t)
           \/ replace_root_key(t)
    PROVE  Lets(t, Wrappers)
  <1> DEFINE c == call[t]
  <1>0. Goto(t, Idle) => \E next : Goto(t, next) /\ next.pc \in Wrappers
    <2>1. Idle.pc \in Wrappers
      BY DEF Idle, Wrappers, Rotators
    <2> QED
      BY <2>1
  <1>6. CASE rotate_root_provider(t)
    <2>1. PICK p : Goto(t, [pc |-> "registry", replacement |-> p])
      BY <1>6 DEF rotate_root_provider
    <2> DEFINE next == [pc |-> "registry", replacement |-> p]
    <2>2. next.pc \in Wrappers
      BY DEF Wrappers, Rotators
    <2> QED
      BY <1>6, <2>1, <2>2 DEF rotate_root_provider, Lets
  <1>11. CASE wrap_target(t)
    <2> DEFINE next == [pc |-> "begin", source |-> call[t].source, root |-> root]
    <2>1. next.pc \in Wrappers
      BY DEF Wrappers, Rotators
    <2> QED
      BY <1>11, <2>1 DEF wrap_target, stored, Lets
  <1>13. CASE registered_keys(t)
    <2> DEFINE keys == [v \in Nonretired |-> registry[v].root]
               next == [pc |-> "reprotect", replacement |-> call[t].replacement, keys |-> keys]
    <2>1. Goto(t, next) /\ UNCHANGED <<rows, job>>
      BY <1>13 DEF registered_keys, stored
    <2> HIDE DEF keys
    <2>2. next.pc \in Wrappers
      BY DEF Wrappers, Rotators
    <2> QED
      BY <2>1, <2>2 DEF Lets
  <1>14. CASE rewrap_root_keys(t)
    <2> DEFINE next == [c EXCEPT !.pc = "replace"]
    <2>1. c = [pc |-> c.pc, replacement |-> c.replacement, keys |-> c.keys]
      BY <1>14 DEF rewrap_root_keys, KInv, RotationTyped, CallTyped
    <2>2. next.pc \in Wrappers
      BY <2>1 DEF Wrappers, Rotators
    <2> QED
      BY <1>0, <1>14, <2>2 DEF rewrap_root_keys, Return, stored, Lets
  <1>15. CASE replace_root_wrappings(t)
    <2> DEFINE next == [pc |-> "verify", replacement |-> call[t].replacement]
    <2>1. next.pc \in Wrappers
      BY DEF Wrappers, Rotators
    <2> QED
      BY <1>0, <1>15, <2>1 DEF replace_root_wrappings, Return, Lets
  <1>16. CASE replace_root_key(t)
    BY <1>0, <1>16 DEF replace_root_key, Return, stored, Lets
  <1> QED
    BY <1>6, <1>11, <1>13, <1>14, <1>15, <1>16

\* What the threads know of the rows is inductive.
LEMMA InitScan == Init => ScanInv
  <1> SUFFICES ASSUME Init PROVE ScanInv
    OBVIOUS
  <1>1. \A t \in Thread : Known(call[t], rows)
    <2>1. \A t \in Thread : call[t] = Idle
      BY DEF Init
    <2> QED
      BY <2>1, IdleKnows
  <1>2. ASSUME NEW table \in Table, NEW i \in DOMAIN rows[table]
        PROVE  rows[table][i].dek = rows[table][i].id
    <2> DEFINE n == IF table = "auxiliary" THEN AuxiliaryRows ELSE 0
    <2> HIDE DEF n
    <2>1. rows[table] = [k \in 1..n |->
                          [id |-> <<None, k>>, dek |-> <<None, k>>, kek |-> 1, late |-> FALSE]]
      BY DEF Init, n
    <2> QED
      BY <1>2, <2>1, SMTT(60)
  <1>3. job = None
    BY DEF Init
  <1> QED
    BY <1>1, <1>2, <1>3 DEF ScanInv, DekKept, Clean

\* Every step of a client, of a rotation, of a crash and of a restart keeps it.
LEMMA NextScan == KInv /\ ScanInv /\ [Next]_vars => ScanInv'
  <1> SUFFICES ASSUME KInv, ScanInv, [Next]_vars PROVE ScanInv'
    OBVIOUS
  <1>1. ASSUME NEW t \in Thread, commit_records(t) PROVE ScanInv'
    <2>1. OnlyFewer(rows') /\ DekKept(rows')
      BY <1>1, CommitFewer
    <2>2. Goto(t, Idle) /\ job' = job
      BY <1>1 DEF commit_records, Return
    <2>3. call'[t] = Idle /\ \A u \in Thread : u # t => call'[u] = call[u]
      BY <2>2, Going
    <2>4. Known(call'[t], rows')
      BY <2>3, IdleKnows
    <2>5. Clean(job', rows')
      BY <2>1, <2>2, CleanStays DEF ScanInv
    <2> QED
      BY <2>1, <2>3, <2>4, <2>5, ScanStep
  <1>2. ASSUME NEW t \in Thread, purge_secret(t) PROVE ScanInv'
    <2>1. OnlyFewer(rows') /\ DekKept(rows')
      BY <1>2, PurgeFewer
    <2>2. UNCHANGED <<call, job>>
      BY <1>2 DEF purge_secret
    <2>3. Known(call'[t], rows')
      BY <2>1, <2>2, KnownStays DEF ScanInv
    <2>4. Clean(job', rows')
      BY <2>1, <2>2, CleanStays DEF ScanInv
    <2>5. \A u \in Thread : u # t => call'[u] = call[u]
      BY <2>2
    <2> QED
      BY <2>1, <2>3, <2>4, <2>5, ScanStep
  <1>0. Free \intersect Held = {} /\ Wrappers \intersect Held = {} /\ {"seal"} \intersect Held = {}
    BY DEF Free, Wrappers, Rotators, Held
  <1>3. ASSUME NEW t \in Thread, Step(t) PROVE ScanInv'
    BY <1>0, <1>1, <1>3, WritersLet, ClientsLet, WrappersLet, Letting, BeginScan, BatchScan, RewrapScan, ApplyScan, AdvanceScan,
       FinishScan DEF Step
  <1>4. ASSUME NEW t \in Thread,
               \/ \E table \in Table : create_record(t, table)
               \/ create_secret(t) \/ update_secret(t) \/ purge_secret(t) \/ load_record(t)
               \/ start_kek_rotation(t) \/ resume_kek_rotation(t) \/ rotate_root_provider(t)
        PROVE  ScanInv'
    BY <1>0, <1>2, <1>4, WritersLet, ClientsLet, WrappersLet, Letting
  <1>5. CASE Crash
    <2>1. UNCHANGED <<rows, job>> /\ \A u \in Thread : call'[u] = Idle
      BY <1>5 DEF Crash, stored
    <2>2. \A u \in Thread : Known(call'[u], rows')
      BY <2>1, IdleKnows
    <2>3. DekKept(rows') /\ Clean(job', rows')
      BY <2>1 DEF ScanInv
    <2> QED
      BY <2>2, <2>3 DEF ScanInv, DekKept, Clean, OnTime, Known
  <1>6. CASE initialize_vault \/ UNCHANGED vars
    <2>1. UNCHANGED <<rows, job, call>>
      BY <1>6 DEF initialize_vault, vars, stored
    <2> QED
      BY <2>1 DEF ScanInv, DekKept, Clean, OnTime, Known
  <1> QED
    BY <1>3, <1>4, <1>5, <1>6 DEF Next

\* So it holds in every behaviour.
LEMMA ScanInvariant == Spec => []ScanInv
  BY InitScan, NextScan, RotationInvariant, PTL DEF Spec

\* apply_rewrap_batch never gives a row the DEK of another record, unless the row was
\* committed late in the place of a purged one: while a batch is between its read and
\* its transaction, only such a row can come under the source.
THEOREM RewrapKeepsDeks == Spec => []DekStaysWithRecord
  <1>1. KInv /\ ScanInv => DekStaysWithRecord
    BY SMTT(60) DEF KInv, RotationTyped, ScanInv, DekKept, DekStaysWithRecord, Rows
  <1> QED
    BY <1>1, RotationInvariant, ScanInvariant, PTL

\* Behind the durable checkpoint, in the tables of the earlier stages and up to
\* last_row_id of this one, only rows that were committed late are under the source:
\* a crash at any point loses no row of the rotation.
THEOREM BehindCheckpointClean == Spec => []CheckpointBehindClean
  <1>1. KInv /\ ScanInv => CheckpointBehindClean
    <2> SUFFICES ASSUME KInv, ScanInv, job # None, NEW s \in 1..job.stage, s <= 4,
                        NEW i \in DOMAIN rows[Stages[s]],
                        s < job.stage \/ i <= job.last, rows[Stages[s]][i].kek = job.source
                 PROVE  rows[Stages[s]][i].late
      BY DEF CheckpointBehindClean
    <2>1. job \in Job
      BY DEF KInv, RotationTyped
    <2>2. s \in 1..4 /\ s <= job.stage /\ job.stage \in Nat
      BY <2>1, SMTT(60) DEF Job
    <2>3. Stages[s] \in Table
      BY <2>2, StageTables
    <2>4. rows[Stages[s]][i].late \in BOOLEAN
      BY <2>3 DEF KInv, RotationTyped
    <2>5. ASSUME rows[Stages[s]][i].late = FALSE PROVE FALSE
      <3>1. i \in OnTime(rows, Stages[s], job.source)
        BY <2>5, OnTimeRow
      <3>2. ~(s < job.stage) /\ ~(s = job.stage /\ i <= job.last)
        BY <2>2, <3>1 DEF ScanInv, Clean
      <3> QED
        BY <2>2, <3>2, SMTT(60)
    <2> QED
      BY <2>4, <2>5
  <1> QED
    BY <1>1, RotationInvariant, ScanInvariant, PTL

-----------------------------------------------------------------------------
(* The provider that opens the vault.  All KEKs that are not retired are     *)
(* wrapped by one provider whose file exists.  A rotation of the KEK seals   *)
(* the new key with the root key that memory held some steps before its      *)
(* transaction, so this rests on no root rotation running beside another     *)
(* operation.                                                                *)

\* The root provider is rotated only where there is no second thread.
RootAlone == "root" \in Operation => \A t, u \in Thread : t = u

\* The provider that wraps the active KEK.
Wrapping == registry[Active].root

\* The provider that a call carries.
Carries(c, p, files) ==
    /\ c.pc \in Rotators => "root" \in Operation /\ c.replacement \in files
    /\ c.pc = "begin" => c.root = p
    /\ c.pc = "verify" => c.replacement = p

\* One provider, whose file exists, wraps all keys that are not retired, and is the
\* one in memory but for the last step of its own rotation.
WrapInv ==
    /\ \A v \in Nonretired : registry[v].root = Wrapping
    /\ Wrapping \in providers
    /\ \A t \in Thread : Carries(call[t], Wrapping, providers)
    /\ Running => root = Wrapping \/ \E t \in Thread : call[t].pc = "verify"

\* No auxiliary key is added after Init.
AuxInv ==
    /\ \A i \in DOMAIN rows["auxiliary"] : rows["auxiliary"][i].late = FALSE
    /\ \A t \in Thread : call[t].pc = "seal" =>
          \A i \in DOMAIN call[t].plan : call[t].plan[i].table # "auxiliary"

\* The first stage of a rotation is the auxiliary keys.
LEMMA AuxiliaryTable == "auxiliary" \in Scanned /\ "auxiliary" \in Table
  <1>1. Stages[1] = "auxiliary" /\ 1 \in 1..4
    BY SMTT(60) DEF Stages
  <1> QED
    BY <1>1 DEF Scanned, Table

\* A vault that satisfies the three invariants opens.
LEMMA Opens ==
    ASSUME KInv, WrapInv, AuxInv
    PROVE  Reopenable
  <1>1. Active \in Version
    BY DEF KInv, RotationTyped, Active
  <1>2. Nonretired = IF Rotating THEN {Active - 1, Active} ELSE {Active}
    BY NonretiredKeys DEF KInv
  <1>3. validate_kek_registry_state
    <2>1. CASE Rotating
      <3>1. /\ job # None /\ Active - 1 \in Version
            /\ job.source = Active - 1 /\ job.target = Active
        BY <2>1 DEF KInv, RegistryValid
      <3>2. registry[Active - 1].state = "retiring" /\ registry[Active].state = "active"
        BY <1>1, <2>1, <3>1, SMTT(60) DEF KInv, RegistryValid, StateOf, Version
      <3>3. installation.activation_state # "ready"
        BY <2>1 DEF Rotating
      <3> QED
        BY <1>2, <2>1, <3>1, <3>2, <3>3 DEF validate_kek_registry_state, Active
    <2>2. CASE ~Rotating
      <3>1. job = None /\ registry[Active].state = "active"
        BY <1>1, <2>2, SMTT(60) DEF KInv, RegistryValid, StateOf, Version
      <3>2. installation.activation_state = "ready"
        BY <2>2 DEF Rotating, KInv, RotationTyped
      <3> QED
        BY <1>2, <2>2, <3>1, <3>2 DEF validate_kek_registry_state, Active
    <2> QED
      BY <2>1, <2>2
  <1>4. Active \in Nonretired
    BY <1>2
  <1>5. \A r \in Rows("auxiliary") : r.kek \in Nonretired
    <2> SUFFICES ASSUME NEW i \in DOMAIN rows["auxiliary"]
                 PROVE  rows["auxiliary"][i].kek \in Nonretired
      BY DEF Rows
    <2>1. "auxiliary" \in Scanned /\ "auxiliary" \in Table
      BY AuxiliaryTable
    <2> DEFINE r == rows["auxiliary"][i]
    <2>2. r.kek \in Version /\ Usable(r.kek) /\ r.late = FALSE
      BY <2>1 DEF KInv, RotationTyped, KeysUsable, AuxInv
    <2>3. registry[r.kek].state # "retired"
      BY <2>1, <2>2 DEF KInv, RetiredUnneededUnlessLate, Rows
    <2> HIDE DEF r
    <2>4. r.kek \in Nonretired
      BY <1>1, <2>2, <2>3, SMTT(60) DEF KInv, RegistryValid, StateOf, Usable, UsableIn, Nonretired, Version
    <2> QED
      BY <2>4 DEF r
  <1>6. OpenedBy(Wrapping)
    BY <1>3, <1>4, <1>5 DEF OpenedBy, WrapInv, Active
  <1> QED
    BY <1>6 DEF Reopenable, WrapInv

\* While a thread rotates the root provider there is no other.
LEMMA RotatorAlone ==
    ASSUME RootAlone, WrapInv, NEW t \in Thread, call[t].pc \in Rotators, NEW u \in Thread
    PROVE  u = t
  BY DEF RootAlone, WrapInv, Carries

\* A step that leaves the wrapping of the keys and the root key alone.
LEMMA WrapStep ==
    ASSUME WrapInv, NEW t \in Thread, \A u \in Thread : u # t => call'[u] = call[u],
           Wrapping' = Wrapping, \A v \in Nonretired' : registry'[v].root = Wrapping,
           root' = root, providers \subseteq providers',
           call[t].pc # "verify", Carries(call'[t], Wrapping, providers')
    PROVE  WrapInv'
  <1>2. ASSUME NEW u \in Thread PROVE Carries(call'[u], Wrapping, providers')
    <2>1. CASE u = t
      BY <2>1
    <2>2. CASE u # t
      <3>1. Carries(call[u], Wrapping, providers) /\ call'[u] = call[u]
        BY <2>2 DEF WrapInv
      <3> QED
        BY <3>1 DEF Carries
    <2> QED
      BY <2>1, <2>2
  <1>3. Running' => root' = Wrapping \/ \E u \in Thread : call'[u].pc = "verify"
    BY DEF WrapInv, Running
  <1>4. \A u \in Thread : Carries(call[u], Wrapping, providers)'
    BY <1>2 DEF Carries
  <1> QED
    BY <1>3, <1>4 DEF WrapInv

\* A step that leaves all keys alone.
LEMMA KeysStay ==
    ASSUME WrapInv, UNCHANGED <<registry, installation>>
    PROVE  Wrapping' = Wrapping /\ \A v \in Nonretired' : registry'[v].root = Wrapping
  BY DEF WrapInv, Wrapping, Active, Nonretired

\* A call that carries no provider.
LEMMA CarriesNone ==
    ASSUME NEW c, c.pc \notin Rotators, c.pc # "begin", NEW p, NEW files
    PROVE  Carries(c, p, files)
  BY DEF Carries, Rotators

\* A scan and a commit go on to no step of either rotation's transactions.
LEMMA ScanWraps ==
    ASSUME KInv, NEW t \in Thread,
           \/ next_rewrap_batch(t) \/ rewrap_items(t) \/ apply_rewrap_batch(t)
           \/ advance_rotation_stage(t) \/ commit_records(t)
    PROVE  \E next : Goto(t, next) /\ next.pc \in Free \union Held
  <1> DEFINE c == call[t]
             Fits(next) == next.pc \in Free \union Held
  <1>0. Fits(Idle)
    BY DEF Idle, Free
  <1>1. CASE next_rewrap_batch(t)
    <2> DEFINE advance == [c EXCEPT !.pc = "advance"]
               loop == [c EXCEPT !.pc = "loop", !.probing = TRUE]
               items == [i \in Lowest(stage_query(c.job), BatchSize) |-> rows[Stages[c.job.stage]][i]]
               rewrap == [pc |-> "rewrap", job |-> c.job, left |-> c.left, items |-> items]
               none == stage_query(c.job) = {}
    <2>1. c.pc = "query" /\ c.pc \in Scanning
      BY <1>1 DEF next_rewrap_batch, Scanning
    <2>2. c = [pc |-> "query", job |-> c.job, left |-> c.left, probing |-> c.probing]
      BY <2>1, CopyTyped
    <2>3. Fits(advance)
      <3>1. advance.pc = "advance"
        BY <2>2
      <3> HIDE DEF advance
      <3> QED
        BY <3>1 DEF Held
    <2>4. Fits(loop)
      <3> DEFINE j == c.job
                 left == c.left
                 probing == c.probing
      <3>1. c = [pc |-> "query", job |-> j, left |-> left, probing |-> probing]
        BY <2>2
      <3> HIDE DEF c, j, left, probing
      <3>2. loop = [[pc |-> "query", job |-> j, left |-> left, probing |-> probing]
                      EXCEPT !.pc = "loop", !.probing = TRUE]
        BY <3>1
      <3> HIDE DEF loop
      <3>3. loop = [pc |-> "loop", job |-> j, left |-> left, probing |-> TRUE]
        BY <3>2, LoopFields
      <3>4. loop.pc = "loop"
        BY <3>3
      <3> QED
        BY <3>4 DEF Free
    <2> HIDE DEF items
    <2>5. Fits(rewrap)
      BY DEF Held
    <2>6. (CASE c.probing /\ none -> Goto(t, advance)
            [] c.probing /\ ~none -> Return(t)
            [] ~c.probing /\ none -> Goto(t, loop)
            [] OTHER -> Goto(t, rewrap))
      BY <1>1 DEF next_rewrap_batch, items
    <2> HIDE DEF none, advance, loop, rewrap, Fits
    <2>7. Return(t) \/ Goto(t, advance) \/ Goto(t, loop) \/ Goto(t, rewrap)
      BY <2>6
    <2>8. \E next : Goto(t, next) /\ Fits(next)
      BY <1>0, <2>3, <2>4, <2>5, <2>7 DEF Return
    <2> QED
      BY <2>8 DEF Fits
  <1>2. CASE rewrap_items(t)
    <2> DEFINE apply == [c EXCEPT !.pc = "apply"]
    <2>1. c.pc = "rewrap" /\ c.pc \in Scanning
      BY <1>2 DEF rewrap_items, Scanning
    <2>2. c = [pc |-> c.pc, job |-> c.job, left |-> c.left, items |-> c.items]
      BY <2>1, CopyTyped
    <2>3. apply.pc = "apply"
      BY <2>2
    <2>4. Goto(t, Idle) \/ Goto(t, apply)
      BY <1>2 DEF rewrap_items, Return
    <2> HIDE DEF apply
    <2>5. Fits(apply)
      BY <2>3 DEF Held
    <2> QED
      BY <1>0, <2>4, <2>5
  <1>3. CASE apply_rewrap_batch(t)
    <2> DEFINE next == [c.job EXCEPT !.last = Max(DOMAIN c.items)]
               left == c.left - 1
               loop == [pc |-> "loop", job |-> next, left |-> left, probing |-> FALSE]
    <2>1. Goto(t, Idle) \/ Goto(t, loop)
      BY <1>3 DEF apply_rewrap_batch, Return
    <2> HIDE DEF next, left
    <2>2. Fits(loop)
      BY DEF Free
    <2> QED
      BY <1>0, <2>1, <2>2
  <1>4. CASE advance_rotation_stage(t)
    <2> DEFINE next == [c.job EXCEPT !.stage = @ + 1, !.last = 0]
               loop == [pc |-> "loop", job |-> next, left |-> c.left, probing |-> FALSE]
    <2>1. Goto(t, Idle) \/ Goto(t, loop)
      BY <1>4 DEF advance_rotation_stage, Return
    <2> HIDE DEF next
    <2>2. Fits(loop)
      BY DEF Free
    <2> QED
      BY <1>0, <2>1, <2>2
  <1>5. CASE commit_records(t)
    <2>1. Goto(t, Idle)
      BY <1>5 DEF commit_records, Return
    <2> QED
      BY <1>0, <2>1
  <1> QED
    BY <1>1, <1>2, <1>3, <1>4, <1>5

\* A thread that goes on so leaves the wrappings alone.
LEMMA WrapsOn ==
    ASSUME KInv, WrapInv, NEW t \in Thread, NEW S, S \subseteq Free \union Held \union {"seal"},
           \E next : Goto(t, next) /\ next.pc \in S,
           UNCHANGED <<registry, installation, root, providers>>, call[t].pc # "verify"
    PROVE  WrapInv'
  <1>1. PICK next : Goto(t, next) /\ next.pc \in S
    OBVIOUS
  <1>2. call'[t] = next /\ \A u \in Thread : u # t => call'[u] = call[u]
    BY <1>1, Going
  <1>3. next.pc \notin Rotators /\ next.pc # "begin"
    BY <1>1 DEF Free, Held, Rotators
  <1>4. Carries(call'[t], Wrapping, providers')
    BY <1>2, <1>3, CarriesNone
  <1> QED
    BY <1>2, <1>4, KeysStay, WrapStep

\* The steps of clients, writers and scans leave the wrappings alone.
LEMMA ClientsWrap ==
    ASSUME KInv, WrapInv, NEW t \in Thread,
           \/ \E table \in Table : create_record(t, table)
           \/ create_secret(t) \/ update_secret(t) \/ encrypt_record(t)
           \/ load_record(t) \/ decrypt_record(t)
           \/ start_kek_rotation(t) \/ source_version(t) \/ install_target(t)
           \/ resume_kek_rotation(t) \/ batches_committed(t) \/ check_job(t) \/ retire_source(t)
           \/ next_rewrap_batch(t) \/ rewrap_items(t) \/ apply_rewrap_batch(t)
           \/ advance_rotation_stage(t) \/ commit_records(t)
    PROVE  WrapInv'
  <1> DEFINE Keeps == UNCHANGED <<registry, installation, root, providers>> /\ call[t].pc # "verify"
  <1>1. CASE \/ \E table \in Table : create_record(t, table)
             \/ create_secret(t) \/ update_secret(t) \/ encrypt_record(t)
    <2>1. Lets(t, {"seal"})
      BY <1>1, WritersLet
    <2>2. Keeps
      BY <1>1 DEF create_record, create_secret, update_secret, encrypt_record, Called, stored,
                  memory
    <2> QED
      BY <2>1, <2>2, WrapsOn DEF Lets
  <1>2. CASE \/ load_record(t) \/ decrypt_record(t)
             \/ start_kek_rotation(t) \/ source_version(t) \/ install_target(t)
             \/ resume_kek_rotation(t) \/ batches_committed(t) \/ check_job(t) \/ retire_source(t)
    <2>1. Lets(t, Free)
      BY <1>2, ClientsLet
    <2>2. Keeps
      BY <1>2 DEF load_record, decrypt_record, start_kek_rotation, source_version, install_target,
            resume_kek_rotation, batches_committed, check_job, retire_source, Called, stored, memory
    <2> QED
      BY <2>1, <2>2, WrapsOn DEF Lets
  <1>3. CASE \/ next_rewrap_batch(t) \/ rewrap_items(t) \/ apply_rewrap_batch(t)
             \/ advance_rotation_stage(t) \/ commit_records(t)
    <2>1. \E next : Goto(t, next) /\ next.pc \in Free \union Held
      BY <1>3, ScanWraps
    <2>2. Keeps
      BY <1>3 DEF next_rewrap_batch, rewrap_items, apply_rewrap_batch,
            advance_rotation_stage, commit_records, stored, memory
    <2> QED
      BY <2>1, <2>2, WrapsOn
  <1> QED
    BY <1>1, <1>2, <1>3

\* A rotation of the root provider before its transaction, and wrap_target: memory
\* holds the root key that wraps the keys, for nobody else is changing it.
LEMMA PreparingWrap ==
    ASSUME KInv, RootAlone, WrapInv, NEW t \in Thread,
           \/ rotate_root_provider(t) \/ wrap_target(t)
           \/ registered_keys(t) \/ rewrap_root_keys(t)
    PROVE  WrapInv'
  <1> DEFINE c == call[t]
  <1>1. CASE rotate_root_provider(t)
    <2>1. PICK p \in Provider : /\ providers' = providers \union {p}
                                /\ Goto(t, [pc |-> "registry", replacement |-> p])
      BY <1>1 DEF rotate_root_provider, create_root_key_file
    <2>2. "root" \in Operation /\ call[t].pc = "idle" /\ UNCHANGED <<registry, installation, root>>
      BY <1>1 DEF rotate_root_provider, Called, memory
    <2> DEFINE next == [pc |-> "registry", replacement |-> p]
    <2>3. next.pc = "registry" /\ next.replacement = p
      OBVIOUS
    <2> HIDE DEF next
    <2>4. Carries(next, Wrapping, providers')
      BY <2>1, <2>2, <2>3 DEF Carries
    <2>5. call'[t] = next /\ \A u \in Thread : u # t => call'[u] = call[u]
      BY <2>1, Going DEF next
    <2> QED
      BY <2>1, <2>2, <2>4, <2>5, KeysStay, WrapStep
  <1>2. CASE wrap_target(t)
    <2>1. c.pc = "wrap" /\ UNCHANGED <<registry, installation, root, providers>>
      BY <1>2 DEF wrap_target, stored, memory
    <2>2. ASSUME NEW u \in Thread, call[u].pc = "verify" PROVE FALSE
      <3>1. t = u
        BY <2>2, RotatorAlone DEF Rotators
      <3> QED
        BY <2>1, <2>2, <3>1
    <2>3. Running
      BY <2>1, BusyRuns
    <2>4. root = Wrapping
      BY <2>2, <2>3 DEF WrapInv
    <2> DEFINE next == [pc |-> "begin", source |-> c.source, root |-> root]
    <2>5. next.pc = "begin" /\ next.root = root
      OBVIOUS
    <2> HIDE DEF next
    <2>6. Carries(next, Wrapping, providers')
      BY <2>4, <2>5 DEF Carries, Rotators
    <2>7. call'[t] = next /\ \A u \in Thread : u # t => call'[u] = call[u]
      BY <1>2, Going DEF next, wrap_target
    <2> QED
      BY <2>1, <2>6, <2>7, KeysStay, WrapStep
  <1>3. CASE registered_keys(t)
    <2>1. c.pc = "registry" /\ UNCHANGED <<registry, installation, root, providers>>
      BY <1>3 DEF registered_keys, stored, memory
    <2>2. "root" \in Operation /\ c.replacement \in providers
      BY <2>1 DEF WrapInv, Carries, Rotators
    <2> DEFINE keys == [v \in Nonretired |-> registry[v].root]
               next == [pc |-> "reprotect", replacement |-> c.replacement, keys |-> keys]
    <2>3. Goto(t, next)
      BY <1>3 DEF registered_keys
    <2> HIDE DEF keys
    <2>4. next.pc = "reprotect" /\ next.replacement = c.replacement
      OBVIOUS
    <2> HIDE DEF next
    <2>5. Carries(next, Wrapping, providers')
      BY <2>1, <2>2, <2>4 DEF Carries
    <2>6. call'[t] = next /\ \A u \in Thread : u # t => call'[u] = call[u]
      BY <2>3, Going
    <2> QED
      BY <2>1, <2>5, <2>6, KeysStay, WrapStep
  <1>4. CASE rewrap_root_keys(t)
    <2>1. c.pc = "reprotect" /\ UNCHANGED <<registry, installation, root, providers>>
      BY <1>4 DEF rewrap_root_keys, stored, memory
    <2>2. "root" \in Operation /\ c.replacement \in providers
      BY <2>1 DEF WrapInv, Carries, Rotators
    <2>3. c = [pc |-> c.pc, replacement |-> c.replacement, keys |-> c.keys]
      BY <2>1 DEF KInv, RotationTyped, CallTyped
    <2> DEFINE next == [c EXCEPT !.pc = "replace"]
    <2>4. next.pc = "replace" /\ next.replacement = c.replacement
      BY <2>3
    <2> HIDE DEF next
    <2>5. Carries(next, Wrapping, providers') /\ Carries(Idle, Wrapping, providers')
      BY <2>1, <2>2, <2>4 DEF Carries, Idle, Rotators
    <2>6. Goto(t, next) \/ Goto(t, Idle)
      BY <1>4 DEF rewrap_root_keys, Return, next
    <2>7. (call'[t] = next \/ call'[t] = Idle) /\ \A u \in Thread : u # t => call'[u] = call[u]
      BY <2>6, Going
    <2>8. Carries(call'[t], Wrapping, providers')
      BY <2>5, <2>7
    <2> QED
      BY <2>1, <2>7, <2>8, KeysStay, WrapStep
  <1> QED
    BY <1>1, <1>2, <1>3, <1>4

\* begin_kek_rotation adds a key under the provider of the others.
LEMMA BeginningWrap ==
    ASSUME KInv, WrapInv, NEW t \in Thread, begin_kek_rotation(t)
    PROVE  WrapInv'
  <1> DEFINE v == call[t].source
             install == [pc |-> "install", target |-> v + 1]
             new == [state |-> "active", root |-> call[t].root]
  <1>1. call[t].pc = "begin" /\ UNCHANGED <<root, providers>>
    BY DEF begin_kek_rotation, memory
  <1>2. v \in Version /\ v + 1 \in Version
    BY <1>1 DEF KInv, RotationTyped, CallTyped
  <1>3. CASE Return(t) /\ UNCHANGED <<registry, installation>>
    <2>1. Carries(Idle, Wrapping, providers')
      BY CarriesNone DEF Idle, Rotators
    <2>2. call'[t] = Idle /\ \A u \in Thread : u # t => call'[u] = call[u]
      BY <1>3, Going DEF Return
    <2> QED
      BY <1>1, <1>3, <2>1, <2>2, KeysStay, WrapStep
  <1>4. CASE /\ installation = [activation_state |-> "ready", active_kek_version |-> v]
             /\ begin_transaction(v, call[t].root) /\ Goto(t, install)
    <2>1. Active = v /\ Active' = v + 1
      BY <1>4 DEF Active, begin_transaction
    <2>2. call[t].root = Wrapping
      BY <1>1 DEF WrapInv, Carries
    <2>3. \A w \in Version :
             /\ registry'[w].root = IF w = v + 1 THEN Wrapping ELSE registry[w].root
             /\ w # v + 1 /\ w # v => registry'[w] = registry[w]
      <3> DEFINE old == [registry[v] EXCEPT !.state = "retiring"]
                 R == [state : {"absent", "active", "retiring", "retired"},
                       root : Provider \union {None}]
      <3>1. registry \in [Version -> R]
        BY DEF KInv, RotationTyped
      <3>2. old.root = registry[v].root /\ new.root = Wrapping
        BY <1>2, <2>2, <3>1
      <3>3. registry' = [registry EXCEPT ![v].state = "retiring", ![v + 1] = new]
        BY <1>4 DEF begin_transaction
      <3>4. registry' = [w \in Version |->
                           IF w = v + 1 THEN new ELSE IF w = v THEN old ELSE registry[w]]
        BY <1>2, <3>1, <3>3 DEF Version
      <3> HIDE DEF old, new
      <3> QED
        BY <1>2, <3>2, <3>4
    <2>4. Wrapping' = Wrapping
      BY <1>2, <2>1, <2>3 DEF Wrapping
    <2>5. registry[v].state = "active"
      BY <1>2, <2>1, SMTT(60) DEF KInv, RegistryValid, StateOf, Version
    <2>6. ASSUME NEW w \in Nonretired' PROVE registry'[w].root = Wrapping
      <3>1. w \in Version /\ registry'[w].state \in {"active", "retiring"}
        BY <2>6 DEF Nonretired
      <3>2. w = v + 1 \/ w \in Nonretired
        BY <1>2, <2>3, <2>5, <3>1 DEF Nonretired
      <3> QED
        BY <2>3, <3>1, <3>2 DEF WrapInv
    <2>7. install.pc = "install"
      OBVIOUS
    <2> HIDE DEF install
    <2>8. Carries(install, Wrapping, providers')
      BY <2>7, CarriesNone DEF Rotators
    <2>9. call'[t] = install /\ \A u \in Thread : u # t => call'[u] = call[u]
      BY <1>4, Going
    <2> QED
      BY <1>1, <2>4, <2>6, <2>8, <2>9, WrapStep
  <1> QED
    BY <1>3, <1>4 DEF begin_kek_rotation

\* finish_kek_rotation retires a key and wraps none.
LEMMA FinishingWrap ==
    ASSUME KInv, WrapInv, NEW t \in Thread, finish_kek_rotation(t)
    PROVE  WrapInv'
  <1> DEFINE v == call[t].job.source
             retire == [pc |-> "retire", source |-> v]
  <1>1. call[t].pc = "loop" /\ UNCHANGED <<root, providers>>
    BY DEF finish_kek_rotation, memory
  <1>2. CASE Return(t) /\ UNCHANGED <<registry, installation>>
    <2>1. Carries(Idle, Wrapping, providers')
      BY CarriesNone DEF Idle, Rotators
    <2>2. call'[t] = Idle /\ \A u \in Thread : u # t => call'[u] = call[u]
      BY <1>2, Going DEF Return
    <2> QED
      BY <1>1, <1>2, <2>1, <2>2, KeysStay, WrapStep
  <1>3. CASE /\ registry' = [registry EXCEPT ![v].state = "retired"]
             /\ installation' = [installation EXCEPT !.activation_state = "ready"]
             /\ Goto(t, retire)
    <2>1. Active' = Active /\ Active \in Version
      BY <1>3 DEF Active, KInv, RotationTyped
    <2>2. \A w \in Version :
             /\ registry'[w].root = registry[w].root
             /\ registry'[w].state \in {"retired", registry[w].state}
      <3> HIDE DEF v
      <3> QED
        BY <1>3, SMTT(60) DEF KInv, RotationTyped
    <2>3. Wrapping' = Wrapping
      BY <2>1, <2>2 DEF Wrapping
    <2>4. \A w \in Nonretired' : w \in Version /\ w \in Nonretired
      BY <2>2 DEF Nonretired
    <2>5. \A w \in Nonretired' : registry'[w].root = Wrapping
      BY <2>2, <2>4 DEF WrapInv
    <2>6. retire.pc = "retire"
      OBVIOUS
    <2> HIDE DEF retire
    <2>7. Carries(retire, Wrapping, providers')
      BY <2>6, CarriesNone DEF Rotators
    <2>8. call'[t] = retire /\ \A u \in Thread : u # t => call'[u] = call[u]
      BY <1>3, Going
    <2> QED
      BY <1>1, <2>3, <2>5, <2>7, <2>8, WrapStep
  <1> QED
    BY <1>2, <1>3 DEF finish_kek_rotation

\* replace_root_wrappings wraps all keys that are not retired, or none.
LEMMA ReplacingWrap ==
    ASSUME KInv, RootAlone, WrapInv, NEW t \in Thread, replace_root_wrappings(t)
    PROVE  WrapInv'
  <1> DEFINE c == call[t]
             next == [pc |-> "verify", replacement |-> c.replacement]
  <1>1. c.pc = "replace" /\ UNCHANGED <<root, providers, installation>>
    BY DEF replace_root_wrappings, memory
  <1>2. "root" \in Operation /\ c.replacement \in providers
    BY <1>1 DEF WrapInv, Carries, Rotators
  <1>3. CASE Return(t) /\ UNCHANGED registry
    <2>1. Carries(Idle, Wrapping, providers')
      BY CarriesNone DEF Idle, Rotators
    <2>2. call'[t] = Idle /\ \A u \in Thread : u # t => call'[u] = call[u]
      BY <1>3, Going DEF Return
    <2> QED
      BY <1>1, <1>3, <2>1, <2>2, KeysStay, WrapStep
  <1>4. CASE /\ Cardinality(Nonretired) = Cardinality(DOMAIN c.keys)
             /\ \A v \in DOMAIN c.keys : v \in Nonretired
             /\ registry' = [v \in Version |->
                   IF v \in DOMAIN c.keys
                   THEN [registry[v] EXCEPT !.root = c.replacement] ELSE registry[v]]
             /\ Goto(t, next)
    <2>1. DOMAIN c.keys = Nonretired
      <3>1. 1 \in Int /\ MaxKeyVersion \in Int
        BY RotationAssumption, SMTT(60)
      <3>2. IsFiniteSet(Version)
        BY <3>1, FS_Interval DEF Version
      <3>3. Nonretired \subseteq Version /\ DOMAIN c.keys \subseteq Nonretired
        BY <1>4 DEF Nonretired
      <3>4. IsFiniteSet(Nonretired)
        BY <3>2, <3>3, FS_Subset
      <3> QED
        BY <1>4, <3>3, <3>4, FS_Subset
    <2>2. \A w \in Version :
             /\ registry'[w].state = registry[w].state
             /\ w \in Nonretired => registry'[w].root = c.replacement
      <3> HIDE DEF c
      <3> QED
        BY <1>4, <2>1, SMTT(60) DEF KInv, RotationTyped
    <2>3. Nonretired' = Nonretired /\ Active' = Active
      BY <1>1, <2>2 DEF Nonretired, Active
    <2>4. Active \in Nonretired /\ Nonretired \subseteq Version
      BY NonretiredKeys DEF KInv, Nonretired
    <2>5. Wrapping' = c.replacement /\ \A w \in Nonretired' : registry'[w].root = Wrapping'
      BY <2>2, <2>3, <2>4 DEF Wrapping
    <2>6. next.pc = "verify" /\ next.replacement = c.replacement
      OBVIOUS
    <2> HIDE DEF next
    <2>7. \A u \in Thread : call'[u] = next
      <3>1. call'[t] = next
        BY <1>4, Going
      <3> QED
        BY <1>1, <3>1, RotatorAlone DEF Rotators
    <2>8. \A u \in Thread : Carries(call'[u], Wrapping', providers')
      BY <1>1, <1>2, <2>5, <2>6, <2>7 DEF Carries
    <2>9. \A u \in Thread : Carries(call[u], Wrapping, providers)'
      BY <2>8 DEF Carries
    <2>10. Wrapping' \in providers' /\ call'[t].pc = "verify"
      BY <1>1, <1>2, <2>5, <2>6, <2>7
    <2> QED
      BY <2>5, <2>9, <2>10 DEF WrapInv
  <1> QED
    BY <1>3, <1>4 DEF replace_root_wrappings

\* replace_root_key: memory follows.
LEMMA FollowingWrap ==
    ASSUME KInv, RootAlone, WrapInv, NEW t \in Thread, replace_root_key(t)
    PROVE  WrapInv'
  <1>1. call[t].pc = "verify" /\ UNCHANGED <<registry, installation, providers>>
    BY DEF replace_root_key, stored
  <1>2. call[t].replacement = Wrapping
    BY <1>1 DEF WrapInv, Carries
  <1>3. root' = Wrapping
    BY <1>2 DEF replace_root_key, WrapInv
  <1>4. Wrapping' = Wrapping /\ \A v \in Nonretired' : registry'[v].root = Wrapping
    BY <1>1, KeysStay
  <1>5. \A u \in Thread : call'[u] = Idle
    <2>1. call'[t] = Idle
      BY Going DEF replace_root_key, Return
    <2> QED
      BY <1>1, <2>1, RotatorAlone DEF Rotators
  <1>6. \A u \in Thread : Carries(call[u], Wrapping, providers)'
    BY <1>5, SMTT(60) DEF Carries, Idle, Rotators
  <1> QED
    BY <1>1, <1>3, <1>4, <1>6 DEF WrapInv

\* The wrappings across all steps.
LEMMA NextWrap == KInv /\ RootAlone /\ WrapInv /\ [Next]_vars => WrapInv'
  <1> SUFFICES ASSUME KInv, RootAlone, WrapInv, [Next]_vars PROVE WrapInv'
    OBVIOUS
  <1>1. ASSUME NEW t \in Thread, purge_secret(t) PROVE WrapInv'
    <2>1. UNCHANGED <<registry, installation, root, providers, call>> /\ call[t].pc = "idle"
      BY <1>1 DEF purge_secret, Called, memory
    <2>2. Carries(call'[t], Wrapping, providers') /\ \A u \in Thread : u # t => call'[u] = call[u]
      BY <2>1 DEF WrapInv
    <2> QED
      BY <2>1, <2>2, KeysStay, WrapStep
  <1>2. ASSUME NEW t \in Thread, Step(t) PROVE WrapInv'
    BY <1>2, ClientsWrap, PreparingWrap, BeginningWrap, FinishingWrap, ReplacingWrap,
       FollowingWrap DEF Step
  <1>3. ASSUME NEW t \in Thread,
               \/ \E table \in Table : create_record(t, table)
               \/ create_secret(t) \/ update_secret(t) \/ purge_secret(t) \/ load_record(t)
               \/ start_kek_rotation(t) \/ resume_kek_rotation(t) \/ rotate_root_provider(t)
        PROVE  WrapInv'
    BY <1>1, <1>3, ClientsWrap, PreparingWrap
  <1>4. CASE Crash
    <2>1. /\ UNCHANGED <<registry, installation, providers>> /\ root' = None
          /\ \A u \in Thread : call'[u] = Idle
      BY <1>4 DEF Crash, stored
    <2>2. Wrapping' = Wrapping /\ \A v \in Nonretired' : registry'[v].root = Wrapping
      BY <2>1, KeysStay
    <2>3. \A u \in Thread : Carries(call[u], Wrapping, providers)'
      <3>1. Idle.pc = "idle"
        BY DEF Idle
      <3>2. \A u \in Thread : call'[u].pc = "idle"
        BY <2>1, <3>1
      <3> QED
        BY <3>2 DEF Carries, Rotators
    <2> QED
      BY <2>1, <2>2, <2>3 DEF WrapInv, Running
  <1>5. CASE initialize_vault
    <2>1. UNCHANGED <<registry, installation, providers, call>>
      BY <1>5 DEF initialize_vault, stored
    <2>2. root' = Wrapping
      BY <1>5 DEF initialize_vault, OpenedBy, Wrapping, Active
    <2>3. Wrapping' = Wrapping /\ \A v \in Nonretired' : registry'[v].root = Wrapping
      BY <2>1, KeysStay
    <2>4. \A u \in Thread : Carries(call[u], Wrapping, providers)'
      BY <2>1, <2>3 DEF Carries, WrapInv
    <2> QED
      BY <2>1, <2>2, <2>3, <2>4 DEF WrapInv
  <1>6. CASE UNCHANGED vars
    <2>1. UNCHANGED <<registry, installation, providers, call, root>>
      BY <1>6 DEF vars, stored, memory
    <2>2. Wrapping' = Wrapping /\ \A v \in Nonretired' : registry'[v].root = Wrapping
      BY <2>1, KeysStay
    <2>3. \A u \in Thread : Carries(call[u], Wrapping, providers)'
      BY <2>1, <2>2 DEF Carries, WrapInv
    <2> QED
      BY <2>1, <2>2, <2>3 DEF WrapInv, Running
  <1> QED
    BY <1>2, <1>3, <1>4, <1>5, <1>6 DEF Next

\* A step that leaves the marks of the auxiliary rows, and plans no auxiliary row.
LEMMA AuxStep ==
    ASSUME AuxInv, NEW t \in Thread, \A u \in Thread : u # t => call'[u] = call[u],
           \A i \in DOMAIN rows'["auxiliary"] : rows'["auxiliary"][i].late = FALSE,
           call'[t].pc = "seal" =>
              \A i \in DOMAIN call'[t].plan : call'[t].plan[i].table # "auxiliary"
    PROVE  AuxInv'
  BY DEF AuxInv

\* A thread that goes on, but not as a writer.
LEMMA AuxOn ==
    ASSUME KInv, AuxInv, NEW t \in Thread, NEW S, "seal" \notin S,
           \E next : Goto(t, next) /\ next.pc \in S,
           \A i \in DOMAIN rows'["auxiliary"] : rows'["auxiliary"][i].late = FALSE
    PROVE  AuxInv'
  <1>1. PICK next : Goto(t, next) /\ next.pc # "seal"
    OBVIOUS
  <1>2. call'[t] = next /\ \A u \in Thread : u # t => call'[u] = call[u]
    BY <1>1, Going
  <1> QED
    BY <1>1, <1>2, AuxStep

\* A writer plans rows of other tables only.
LEMMA WritersAux ==
    ASSUME KInv, AuxInv, NEW t \in Thread,
           \/ \E table \in Table : create_record(t, table)
           \/ create_secret(t) \/ update_secret(t) \/ encrypt_record(t)
    PROVE  AuxInv'
  <1>0. \A i \in DOMAIN rows["auxiliary"] : rows["auxiliary"][i].late = FALSE
    BY DEF AuxInv
  <1>1. ASSUME NEW plan, Written(t, plan), rows' = rows,
               \A i \in DOMAIN plan : plan[i].table # "auxiliary"
        PROVE  AuxInv'
    <2> DEFINE next == [pc |-> "seal", plan |-> plan, sealed |-> <<>>]
    <2>1. next.plan = plan
      OBVIOUS
    <2> HIDE DEF next
    <2>2. call'[t] = next /\ \A u \in Thread : u # t => call'[u] = call[u]
      BY <1>1, Going DEF Written, next
    <2> QED
      BY <1>0, <1>1, <2>1, <2>2, AuxStep
  <1>2. ASSUME NEW table, table # "auxiliary", NEW id
        PROVE  \A i \in DOMAIN <<[table |-> table, id |-> id]>> :
                  <<[table |-> table, id |-> id]>>[i].table # "auxiliary"
    BY <1>2, SMTT(60)
  <1>3. CASE \E table \in Table : create_record(t, table)
    <2>1. PICK table \in Table : create_record(t, table)
      BY <1>3
    <2>2. table # "auxiliary" /\ rows' = rows
      BY <2>1, RotationAssumption DEF create_record, Called, stored
    <2>3. PICK o : Written(t, <<[table |-> table, id |-> <<o, 1>>]>>)
      BY <2>1 DEF create_record
    <2> QED
      BY <1>1, <1>2, <2>2, <2>3
  <1>4. CASE create_secret(t)
    <2>1. PICK o : Written(t, <<[table |-> "secret_metadata", id |-> <<o, 1>>],
                                [table |-> "secret_versions", id |-> <<o, 1>>]>>)
      BY <1>4 DEF create_secret
    <2> DEFINE id == <<o, 1>>
               plan == <<[table |-> "secret_metadata", id |-> id],
                         [table |-> "secret_versions", id |-> id]>>
    <2>2. Written(t, plan) /\ rows' = rows
      BY <1>4, <2>1 DEF create_secret, stored
    <2> HIDE DEF id
    <2>3. \A i \in DOMAIN plan : plan[i].table # "auxiliary"
      BY SMTT(60)
    <2> HIDE DEF plan
    <2> QED
      BY <1>1, <2>2, <2>3
  <1>5. CASE update_secret(t)
    <2>1. PICK id : Written(t, <<[table |-> "secret_versions", id |-> id]>>)
      BY <1>5 DEF update_secret
    <2>2. rows' = rows /\ "secret_versions" # "auxiliary"
      BY <1>5 DEF update_secret, stored
    <2> QED
      BY <1>1, <1>2, <2>1, <2>2
  <1>6. CASE encrypt_record(t)
    <2> DEFINE c == call[t]
               longer == Append(c.sealed, ring.active)
               next == [c EXCEPT !.sealed = longer]
    <2>1. c.pc = "seal" /\ c = [pc |-> "seal", plan |-> c.plan, sealed |-> c.sealed]
      BY <1>6 DEF encrypt_record, KInv, RotationTyped, CallTyped
    <2>2. Goto(t, next) /\ rows' = rows
      BY <1>6 DEF encrypt_record, stored
    <2> HIDE DEF longer
    <2>3. next.plan = c.plan
      BY <2>1
    <2> HIDE DEF next
    <2>4. call'[t] = next /\ \A u \in Thread : u # t => call'[u] = call[u]
      BY <2>2, Going
    <2>5. \A i \in DOMAIN c.plan : c.plan[i].table # "auxiliary"
      BY <2>1 DEF AuxInv
    <2> QED
      BY <1>0, <2>2, <2>3, <2>4, <2>5, AuxStep
  <1> QED
    BY <1>3, <1>4, <1>5, <1>6

\* The steps that change rows leave the auxiliary ones as timely as they were.
LEMMA RowsAux ==
    ASSUME KInv, AuxInv, NEW t \in Thread,
           \/ commit_records(t) \/ purge_secret(t) \/ next_rewrap_batch(t) \/ rewrap_items(t)
           \/ apply_rewrap_batch(t) \/ advance_rotation_stage(t)
    PROVE  \A i \in DOMAIN rows'["auxiliary"] : rows'["auxiliary"][i].late = FALSE
  <1>0. "auxiliary" \in Table /\ \A i \in DOMAIN rows["auxiliary"] : rows["auxiliary"][i].late = FALSE
    BY AuxiliaryTable DEF AuxInv
  <1>1. CASE commit_records(t)
    <2>1. {i \in DOMAIN call[t].plan : call[t].plan[i].table = "auxiliary"} = {}
      BY <1>1 DEF commit_records, AuxInv
    <2>2. rows'["auxiliary"] = rows["auxiliary"]
      BY <1>0, <1>1, <2>1 DEF commit_records
    <2> QED
      BY <1>0, <2>2
  <1>2. CASE purge_secret(t)
    <2>1. rows'["auxiliary"] = rows["auxiliary"]
      BY <1>0, <1>2 DEF purge_secret
    <2> QED
      BY <1>0, <2>1
  <1>3. CASE next_rewrap_batch(t) \/ rewrap_items(t) \/ advance_rotation_stage(t)
    <2>1. rows' = rows
      BY <1>3 DEF next_rewrap_batch, rewrap_items, advance_rotation_stage, stored
    <2> QED
      BY <1>0, <2>1
  <1>4. CASE apply_rewrap_batch(t)
    <2> DEFINE c == call[t]
               table == Stages[c.job.stage]
               Rewrapped(i) == [id |-> rows[table][i].id, dek |-> c.items[i].dek,
                                kek |-> c.job.target, late |-> rows[table][i].late]
               new == [i \in DOMAIN rows[table] |->
                         IF i \in DOMAIN c.items THEN Rewrapped(i) ELSE rows[table][i]]
    <2>1. rows' = rows \/ rows' = [rows EXCEPT ![table] = new]
      BY <1>4 DEF apply_rewrap_batch
    <2>2. \A i : Rewrapped(i).late = rows[table][i].late
      OBVIOUS
    <2> HIDE DEF c, table, Rewrapped
    <2>3. DOMAIN new = DOMAIN rows[table] /\ \A i \in DOMAIN new : new[i].late = rows[table][i].late
      BY <2>2
    <2> HIDE DEF new
    <2>4. rows = [u \in Table |-> rows[u]]
      BY DEF KInv, RotationTyped
    <2>5. CASE rows' = rows
      BY <1>0, <2>5
    <2>6. CASE rows' = [rows EXCEPT ![table] = new]
      <3>1. rows'["auxiliary"] = IF table = "auxiliary" THEN new ELSE rows["auxiliary"]
        BY <1>0, <2>4, <2>6
      <3> QED
        BY <1>0, <2>3, <3>1
    <2> QED
      BY <2>1, <2>5, <2>6
  <1> QED
    BY <1>1, <1>2, <1>3, <1>4

\* The auxiliary rows across all steps.
LEMMA NextAux == KInv /\ AuxInv /\ [Next]_vars => AuxInv'
  <1> SUFFICES ASSUME KInv, AuxInv, [Next]_vars PROVE AuxInv'
    OBVIOUS
  <1>0. \A i \in DOMAIN rows["auxiliary"] : rows["auxiliary"][i].late = FALSE
    BY DEF AuxInv
  <1>1. ASSUME NEW t \in Thread, NEW S, "seal" \notin S, Lets(t, S) PROVE AuxInv'
    <2>1. rows' = rows /\ \E next : Goto(t, next) /\ next.pc \in S
      BY <1>1 DEF Lets
    <2> QED
      BY <1>0, <1>1, <2>1, AuxOn
  <1>2. "seal" \notin Free /\ "seal" \notin Wrappers /\ "seal" \notin Free \union Held
    BY DEF Free, Wrappers, Rotators, Held
  <1>3. ASSUME NEW t \in Thread,
               \/ next_rewrap_batch(t) \/ rewrap_items(t) \/ apply_rewrap_batch(t)
               \/ advance_rotation_stage(t) \/ commit_records(t)
        PROVE  AuxInv'
    <2>1. \A i \in DOMAIN rows'["auxiliary"] : rows'["auxiliary"][i].late = FALSE
      BY <1>3, RowsAux
    <2>2. \E next : Goto(t, next) /\ next.pc \in Free \union Held
      BY <1>3, ScanWraps
    <2> QED
      BY <1>2, <2>1, <2>2, AuxOn
  <1>4. ASSUME NEW t \in Thread, purge_secret(t) PROVE AuxInv'
    <2>1. \A i \in DOMAIN rows'["auxiliary"] : rows'["auxiliary"][i].late = FALSE
      BY <1>4, RowsAux
    <2>2. UNCHANGED call
      BY <1>4 DEF purge_secret
    <2> QED
      BY <2>1, <2>2 DEF AuxInv
  <1>5. ASSUME NEW t \in Thread, begin_kek_rotation(t) \/ finish_kek_rotation(t) PROVE AuxInv'
    <2> DEFINE install == [pc |-> "install", target |-> call[t].source + 1]
               retire == [pc |-> "retire", source |-> call[t].job.source]
               S == {"idle", "install", "retire"}
    <2>1. rows' = rows /\ (Goto(t, Idle) \/ Goto(t, install) \/ Goto(t, retire))
      BY <1>5 DEF begin_kek_rotation, finish_kek_rotation, Return
    <2>2. Idle.pc \in S /\ install.pc \in S /\ retire.pc \in S /\ "seal" \notin S
      BY DEF Idle
    <2> HIDE DEF install, retire, S
    <2>3. \E next : Goto(t, next) /\ next.pc \in S
      BY <2>1, <2>2
    <2> QED
      BY <1>0, <2>1, <2>2, <2>3, AuxOn
  <1>6. ASSUME NEW t \in Thread, Step(t) PROVE AuxInv'
    BY <1>1, <1>2, <1>3, <1>5, <1>6, WritersAux, ClientsLet, WrappersLet DEF Step
  <1>7. ASSUME NEW t \in Thread,
               \/ \E table \in Table : create_record(t, table)
               \/ create_secret(t) \/ update_secret(t) \/ purge_secret(t) \/ load_record(t)
               \/ start_kek_rotation(t) \/ resume_kek_rotation(t) \/ rotate_root_provider(t)
        PROVE  AuxInv'
    BY <1>1, <1>2, <1>4, <1>7, WritersAux, ClientsLet, WrappersLet
  <1>8. CASE Crash
    <2>1. rows' = rows /\ \A u \in Thread : call'[u] = Idle
      BY <1>8 DEF Crash, stored
    <2>2. Idle.pc # "seal"
      BY DEF Idle
    <2> QED
      BY <1>0, <2>1, <2>2 DEF AuxInv
  <1>9. CASE initialize_vault \/ UNCHANGED vars
    <2>1. UNCHANGED <<rows, call>>
      BY <1>9 DEF initialize_vault, vars, stored
    <2> QED
      BY <2>1 DEF AuxInv
  <1> QED
    BY <1>6, <1>7, <1>8, <1>9 DEF Next

\* Initialisation wraps one KEK, with the one provider, and adds the auxiliary keys.
LEMMA InitWrapAux == Init => WrapInv /\ AuxInv
  <1> SUFFICES ASSUME Init PROVE WrapInv /\ AuxInv
    OBVIOUS
  <1>1. \A t \in Thread : call[t] = Idle /\ call[t].pc = "idle"
    BY DEF Init, Idle
  <1>2. Active = 1 /\ 1 \in Version
    <2>1. Active = 1
      BY DEF Init, Active
    <2>2. 1 \in Version
      BY RotationAssumption, SMTT(60) DEF Version
    <2> QED
      BY <2>1, <2>2
  <1>3. /\ registry[1].root = FirstProvider
        /\ \A v \in Version : v # 1 => registry[v].state = "absent"
    BY <1>2 DEF Init
  <1>4. Wrapping = FirstProvider /\ \A v \in Nonretired : registry[v].root = FirstProvider
    BY <1>2, <1>3 DEF Wrapping, Nonretired
  <1>5. WrapInv
    BY <1>1, <1>4 DEF Init, WrapInv, Carries, Rotators
  <1>6. AuxInv
    <2>1. "auxiliary" \in Table
      BY AuxiliaryTable
    <2>2. rows["auxiliary"] = [i \in 1..AuxiliaryRows |->
             [id |-> <<None, i>>, dek |-> <<None, i>>, kek |-> 1, late |-> FALSE]]
      BY <2>1 DEF Init
    <2>3. \A i \in DOMAIN rows["auxiliary"] : rows["auxiliary"][i].late = FALSE
      BY <2>2, SMTT(60)
    <2> QED
      BY <1>1, <2>3 DEF AuxInv
  <1> QED
    BY <1>5, <1>6

\* A crash at any step leaves a vault that initialize_vault opens with a provider
\* file on disk: whatever the rotation was doing, the registry is a valid one, all
\* its keys are wrapped by one provider, and the auxiliary keys are under them.
\* A rotation of the root provider must not run beside another operation.
THEOREM CrashedVaultOpens == RootAlone /\ Spec => []Reopenable
  <1>1. KInv /\ WrapInv /\ AuxInv => Reopenable
    BY Opens
  <1>2. RootAlone /\ Spec => []WrapInv
    <2> SUFFICES ASSUME RootAlone PROVE Spec => []WrapInv
      OBVIOUS
    <2>1. KInv /\ WrapInv /\ [Next]_vars => WrapInv'
      BY NextWrap
    <2> QED
      BY <2>1, InitWrapAux, RotationInvariant, PTL DEF Spec
  <1>3. Spec => []AuxInv
    BY InitWrapAux, NextAux, RotationInvariant, PTL DEF Spec
  <1> QED
    BY <1>1, <1>2, <1>3, RotationInvariant, PTL
=============================================================================
