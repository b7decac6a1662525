---------------------------- MODULE Installation ----------------------------
(***************************************************************************)
(* The life of an installation on disk: the root key file and the          *)
(* database, processes that start up (initialize_vault of                  *)
(* crates/smcv-app/src/initialization.rs) and processes that restore       *)
(* (restore_backup_file of backup.rs), step by step, with an error or a    *)
(* crash between any two steps.                                            *)
(*                                                                         *)
(* A process works on the database it opened, which another process may    *)
(* have unlinked from the path: the databases are numbered.  A root key    *)
(* file carries the vault and the installation it is for; an installation  *)
(* id is random, and so is a number that was never used before.            *)
(***************************************************************************)
EXTENDS Integers, FiniteSets

CONSTANTS
    Starter,        \* processes that start up: the server, or a command
    Restorer,       \* processes that restore
    None,
    MaxFiles,       \* bound: database files at a time, unlinked ones included
    MaxCrashes      \* bound: crashes

ASSUME InstallationAssumption ==
    /\ Starter \intersect Restorer = {} /\ None \notin Starter \union Restorer
    /\ IsFiniteSet(Starter) /\ IsFiniteSet(Restorer)
    /\ MaxFiles \in Nat /\ MaxCrashes \in Nat

VARIABLES
    root,       \* the root key file: None, or its installation, vault and wholeness
    path,       \* the database at its path: None or a number
    disk,       \* the databases by number
    proc,       \* what each process is doing
    crashes

files == <<root, path, disk>>
installation_vars == <<root, path, disk, proc, crashes>>

\* What a root key file, and a process that has read one, are for.
KeyFor == [installation : Nat \ {0}, vault : Nat]
RootKeyFile == [installation : Nat \ {0}, vault : Nat, whole : BOOLEAN]

ASSUME AbsenceAssumption == None \notin Nat \union KeyFor \union RootKeyFile

Process == Starter \union Restorer
Idle == [pc |-> "idle", handle |-> 0, id |-> None, archive |-> None]

\* A database after its migrations.  `begun' is who wrote the bootstrap and
\* `amid' the restores that were under way when the file came to be.
EmptyDatabase(amid) ==
    [installation |-> 0, vault |-> None, state |-> "none", guard |-> FALSE, rows |-> None,
     audited |-> FALSE, begun |-> None, amid |-> amid]

Restoring == {r \in Restorer : proc[r].pc # "idle"}

Installations ==
    {disk[d].installation : d \in DOMAIN disk}
      \union {proc[p].id.installation : p \in {q \in Process : proc[q].id # None}}
      \union (IF root = None THEN {} ELSE {root.installation})

FreshId ==
    CHOOSE n \in 1..MaxFiles + Cardinality(Process) + 2 : n \notin Installations

Goto(p, pc) == proc' = [proc EXCEPT ![p].pc = pc]
Stop(p) == proc' = [proc EXCEPT ![p] = Idle]

-----------------------------------------------------------------------------
(* Files.                                                                  *)

\* Neither at the path nor open.
FreeFiles == DOMAIN disk \ ({path} \union {proc[p].handle : p \in Process})

\* SqliteStore::open creates the database that is not there.
open_store(p, pc) ==
    /\ IF path # None
       THEN proc' = [proc EXCEPT ![p].handle = path, ![p].pc = pc] /\ UNCHANGED <<path, disk>>
       ELSE /\ FreeFiles # {}
            /\ LET d == CHOOSE f \in FreeFiles : \A g \in FreeFiles : f <= g
               IN /\ path' = d
                  /\ disk' = [disk EXCEPT ![d] = EmptyDatabase(Restoring)]
                  /\ proc' = [proc EXCEPT ![p].handle = d, ![p].pc = pc]
    /\ UNCHANGED <<root, crashes>>

\* create_root_key_file creates the file, with create_new, and then fills it.
create_root_key_file(p, vault, pc) ==
    /\ root = None
    /\ root' = [installation |-> FreshId, vault |-> vault, whole |-> FALSE]
    /\ proc' = [proc EXCEPT ![p].id = [installation |-> FreshId, vault |-> vault], ![p].pc = pc]
    /\ UNCHANGED <<path, disk, crashes>>

\* The rest of it, through the open file: it may have been unlinked.
write_root_key(p, pc) ==
    /\ root' = IF root # None /\ root.installation = proc[p].id.installation
               THEN [root EXCEPT !.whole = TRUE] ELSE root
    /\ Goto(p, pc)
    /\ UNCHANGED <<path, disk, crashes>>

-----------------------------------------------------------------------------
(* initialize_vault.                                                       *)

start(p) ==
    /\ proc[p].pc = "idle"
    /\ open_store(p, "opened")

\* The root key file is loaded, or created when neither it nor an installation
\* is there.
root_usable(p) ==
    LET db == disk[proc[p].handle]
    IN /\ root # None /\ root.whole
       /\ db.installation # 0 =>
             db.installation = root.installation /\ db.vault = root.vault

load_root_key_file(p) ==
    /\ proc[p].pc = "opened"
    /\ root_usable(p)
    /\ proc' = [proc EXCEPT ![p].id = [installation |-> root.installation, vault |-> root.vault],
                            ![p].pc = "rooted"]
    /\ UNCHANGED <<root, path, disk, crashes>>

\* (mutated: the process goes on before the key is written)
CreateRootUnwritten(p) ==
    /\ proc[p].pc = "opened"
    /\ root = None /\ disk[proc[p].handle].installation = 0
    /\ create_root_key_file(p, FreshId, "rooted")

create_root(p) ==
    /\ proc[p].pc = "opened"
    /\ root = None /\ disk[proc[p].handle].installation = 0
    /\ create_root_key_file(p, FreshId, "writing root")

write_root(p) ==
    /\ proc[p].pc = "writing root"
    /\ write_root_key(p, "rooted")

\* MissingRootKey, a key file that does not load, or another installation's.
start_refused(p) ==
    /\ proc[p].pc = "opened"
    /\ ~root_usable(p)
    /\ ~(root = None /\ disk[proc[p].handle].installation = 0)
    /\ Stop(p)
    /\ UNCHANGED <<root, path, disk, crashes>>

Bootstrap(p, guard) ==
    [disk EXCEPT ![proc[p].handle].installation = proc[p].id.installation,
                 ![proc[p].handle].vault = proc[p].id.vault,
                 ![proc[p].handle].state = "initializing",
                 ![proc[p].handle].guard = guard,
                 ![proc[p].handle].begun = p]

\* (mutated: what an interrupted start left is not taken up)
BeginOnlyOnce(p) ==
    /\ proc[p].pc = "rooted"
    /\ IF disk[proc[p].handle].installation = 0
       THEN disk' = Bootstrap(p, FALSE) /\ Goto(p, "begun")
       ELSE Stop(p) /\ UNCHANGED disk
    /\ UNCHANGED <<root, path, crashes>>

\* begin_initialization, unless another process has begun meanwhile.
begin_initialization(p) ==
    /\ proc[p].pc = "rooted"
    /\ disk' = IF disk[proc[p].handle].installation = 0 THEN Bootstrap(p, FALSE) ELSE disk
    /\ Goto(p, "begun")
    /\ UNCHANGED <<root, path, crashes>>

\* Every key unwraps when the root key is the one they were wrapped with.
unwraps(p) ==
    /\ disk[proc[p].handle].installation = proc[p].id.installation
    /\ disk[proc[p].handle].vault = proc[p].id.vault

\* (mutated: the guard of a restore is not looked at)
ActivateUnguarded(d, restore) == disk[d].state = "initializing"

\* activate_initialization_kind: a restore and its guard go together.
activate_initialization_kind(d, restore) ==
    disk[d].guard = restore /\ disk[d].state = "initializing"

activate_initialization(p) ==
    /\ proc[p].pc = "begun"
    /\ unwraps(p)
    /\ activate_initialization_kind(proc[p].handle, FALSE)
    /\ disk' = [disk EXCEPT ![proc[p].handle].state = "ready"]
    /\ Stop(p)
    /\ UNCHANGED <<root, path, crashes>>

\* The vault is ready and opens, or it does not open.
start_ends(p) ==
    /\ proc[p].pc = "begun"
    /\ ~(unwraps(p) /\ activate_initialization_kind(proc[p].handle, FALSE))
    /\ Stop(p)
    /\ UNCHANGED <<root, path, disk, crashes>>

-----------------------------------------------------------------------------
(* restore_backup_file.                                                    *)

\* (mutated: the destination is not looked at before the cleanup is armed)
RestoreAnywhere == TRUE

destination_is_new == path = None /\ root = None

\* The cleanup is armed from here on.
begin_restore(r, archive) ==
    /\ proc[r].pc = "idle"
    /\ destination_is_new
    /\ proc' = [proc EXCEPT ![r] = [Idle EXCEPT !.pc = "decoding", !.archive = archive]]
    /\ UNCHANGED <<root, path, disk, crashes>>

\* The archive is decoded: see module RecoveryChannel for what it holds.
decoded(r) ==
    /\ proc[r].pc = "decoding"
    /\ Goto(r, "decoded")
    /\ UNCHANGED <<root, path, disk, crashes>>

\* initialize_restore_staging looks at the destination again.
stage_root(r, vault) ==
    /\ proc[r].pc = "decoded"
    /\ destination_is_new
    /\ create_root_key_file(r, vault, "staging root")

stage_root_written(r) ==
    /\ proc[r].pc = "staging root"
    /\ write_root_key(r, "staged root")

stage_store(r) ==
    /\ proc[r].pc = "staged root"
    /\ open_store(r, "staged")

\* begin_restore_initialization: the guard comes with the bootstrap.
begin_restore_initialization(r) ==
    /\ proc[r].pc = "staged"
    /\ disk[proc[r].handle].installation = 0
    /\ disk' = Bootstrap(r, TRUE)
    /\ Goto(r, "guarded")
    /\ UNCHANGED <<root, path, crashes>>

import_portable_snapshot(r, rows) ==
    /\ proc[r].pc = "guarded"
    /\ disk' = [disk EXCEPT ![proc[r].handle].rows = rows]
    /\ Goto(r, "imported")
    /\ UNCHANGED <<root, path, crashes>>

audit_restore(r) ==
    /\ proc[r].pc = "imported"
    /\ disk' = [disk EXCEPT ![proc[r].handle].audited = TRUE]
    /\ Goto(r, "audited")
    /\ UNCHANGED <<root, path, crashes>>

\* verify_restore_staging_reopen opens the path, not the database at hand.
reopens(r) ==
    /\ path # None
    /\ disk[path].state = "initializing"
    /\ disk[path].installation = proc[r].id.installation /\ disk[path].vault = proc[r].id.vault
    /\ root # None /\ root.whole
    /\ root.installation = proc[r].id.installation /\ root.vault = proc[r].id.vault

verify_restore_staging_reopen(r) ==
    /\ proc[r].pc = "audited"
    /\ reopens(r)
    /\ Goto(r, "verified")
    /\ UNCHANGED <<root, path, disk, crashes>>

\* It creates the database that is not there any more, and fails.
reopen_creates(r) ==
    /\ proc[r].pc = "audited"
    /\ path = None
    /\ open_store(r, "removing database")

activate_restored_initialization(r) ==
    /\ proc[r].pc = "verified"
    /\ activate_initialization_kind(proc[r].handle, TRUE)
    /\ disk' = [disk EXCEPT ![proc[r].handle].state = "ready", ![proc[r].handle].guard = FALSE]
    /\ Stop(r)
    /\ UNCHANGED <<root, path, crashes>>

\* Any step may fail, and one that finds what it does not expect does.
restore_fails(r) ==
    /\ proc[r].pc \notin {"idle", "removing database", "removing root"}
    /\ Goto(r, "removing database")
    /\ UNCHANGED <<root, path, disk, crashes>>

\* RestoreDestinationCleanup removes what is at the paths, if it can.
remove_database(r) ==
    /\ proc[r].pc = "removing database"
    /\ path' \in {path, None}
    /\ Goto(r, "removing root")
    /\ UNCHANGED <<root, disk, crashes>>

remove_root(r) ==
    /\ proc[r].pc = "removing root"
    /\ root' \in {root, None}
    /\ Stop(r)
    /\ UNCHANGED <<path, disk, crashes>>

-----------------------------------------------------------------------------
crash(p) ==
    /\ proc[p].pc # "idle"
    /\ crashes < MaxCrashes
    /\ crashes' = crashes + 1
    /\ Stop(p)
    /\ UNCHANGED files

InitInstallation ==
    /\ root = None /\ path = None /\ disk = [d \in 1..MaxFiles |-> EmptyDatabase({})]
    /\ proc = [p \in Process |-> Idle]
    /\ crashes = 0

Startup(p) ==
    \/ start(p) \/ load_root_key_file(p) \/ create_root(p) \/ write_root(p) \/ start_refused(p)
    \/ begin_initialization(p) \/ activate_initialization(p) \/ start_ends(p)

Restore(r, vault, rows) ==
    \/ stage_root(r, vault) \/ stage_root_written(r) \/ stage_store(r)
    \/ begin_restore_initialization(r) \/ import_portable_snapshot(r, rows) \/ audit_restore(r)
    \/ verify_restore_staging_reopen(r) \/ reopen_creates(r) \/ activate_restored_initialization(r)
    \/ restore_fails(r) \/ remove_database(r) \/ remove_root(r)
=============================================================================
