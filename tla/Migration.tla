----------------------------- MODULE Migration -----------------------------
(***************************************************************************)
(* The height-gated migration engine (src/many-migration/src/lib.rs) as    *)
(* the ledger's commit drives it (src/many-ledger/src/storage/abci.rs).   *)
(*                                                                         *)
(* A migration is a name of Registry, Regular (initialize_fn, update_fn)  *)
(* or Hotfix (a byte rewrite).  load_migrations turns the configuration   *)
(* into the enabled migrations and their block heights.  The ledger's     *)
(* commit is two steps with a durable write between them: it increments   *)
(* /height and commits the store, then runs the migrations at the new     *)
(* height and commits again.  The process may crash at any point; what    *)
(* the store had not committed is lost and the migration set is reloaded  *)
(* at the stored height.  The effect of a migration on the store is       *)
(* abstracted to the record of which functions ran at which height.       *)
(***************************************************************************)
EXTENDS Naturals, Sequences, FiniteSets

CONSTANTS
    Registry,   \* the names of the registered migrations (MIGRATIONS)
    Kind,       \* Regular or Hotfix, per registered migration
    Config,     \* the configuration: a sequence of [type, block_height]
    MaxHeight   \* bound on the stored block height

ASSUME RegistryAssumption == Kind \in [Registry -> {"Regular", "Hotfix"}]
ASSUME ConfigAssumption ==
    Config \in Seq([type : Registry, block_height : Nat])
ASSUME HeightAssumption == MaxHeight \in Nat

(* load_migrations: each configuration entry selects a registered         *)
(* migration, enables it and sets its metadata; entries are collected     *)
(* into a BTreeMap, so a later entry for the same name replaces an        *)
(* earlier one.  The result maps each enabled name to its block height.   *)
LoadMigrations(config) ==
    LET names == {config[i].type : i \in DOMAIN config}
        last(n) == CHOOSE i \in DOMAIN config :
                      /\ config[i].type = n
                      /\ \A j \in DOMAIN config : config[j].type = n => j <= i
    IN [n \in names |-> config[last(n)].block_height]

Migrations == LoadMigrations(Config)

Enabled(m) == m \in DOMAIN Migrations

(* InnerMigration::initialize, update and hotfix: the function runs only   *)
(* for a migration of the matching type; any other is skipped (Ok or      *)
(* None).                                                                 *)
InnerInitialize(m) == Kind[m] = "Regular"

InnerUpdate(m) == Kind[m] = "Regular"

InnerHotfix(m) == Kind[m] = "Hotfix"

(* Mutant: initialize runs at every height from the block height on.      *)
InitializeFromHeight(m, h) ==
    /\ Enabled(m)
    /\ Migrations[m] <= h
    /\ Kind[m] = "Regular"

(* Migration::initialize: initialize_fn runs when the migration is        *)
(* enabled and its block height is h.                                     *)
Initialize(m, h) ==
    /\ Enabled(m)
    /\ Migrations[m] = h
    /\ InnerInitialize(m)

(* Migration::update: update_fn runs when the migration is enabled and     *)
(* block_height >= h.                                                     *)
Update(m, h) ==
    /\ Enabled(m)
    /\ Migrations[m] >= h
    /\ InnerUpdate(m)

(* Migration::hotfix: hotfix_fn rewrites the bytes when the migration is   *)
(* enabled and its block height is h; otherwise the result is None.       *)
Hotfix(m, h) ==
    /\ Enabled(m)
    /\ Migrations[m] = h
    /\ InnerHotfix(m)

(* is_active: enabled and the block height is reached at height h.        *)
IsActive(m, h) == Enabled(m) /\ Migrations[m] <= h

VARIABLES
    height,      \* the committed /height of the store
    pc,          \* "idle", or "stored" between the two commits of commit()
    setHeight,   \* the current height of the migration set
    initCount,   \* how many times initialize_fn ran, committed, per migration
    updates      \* the heights at which update_fn ran, committed, per migration

vars == <<height, pc, setHeight, initCount, updates>>

TypeOK ==
    /\ height \in 0..MaxHeight
    /\ pc \in {"idle", "stored"}
    /\ setHeight \in 0..MaxHeight
    /\ initCount \in [Registry -> Nat]
    /\ updates \in [Registry -> SUBSET (1..MaxHeight)]

(* A fresh store (height 0) with the migrations loaded at that height.    *)
Init ==
    /\ height = 0
    /\ pc = "idle"
    /\ setHeight = 0
    /\ initCount = [m \in Registry |-> 0]
    /\ updates = [m \in Registry |-> {}]

(* LedgerStorage::commit, first part: inc_height stages /height + 1 and   *)
(* commit_storage makes it durable.                                       *)
CommitStorage ==
    /\ pc = "idle"
    /\ height < MaxHeight
    /\ height' = height + 1
    /\ pc' = "stored"
    /\ UNCHANGED <<setHeight, initCount, updates>>

(* Mutant: the migrations run at the height read before inc_height.      *)
CommitMigrationsStaleHeight ==
    /\ pc = "stored"
    /\ initCount' = [m \in Registry |->
                       IF Initialize(m, height - 1) THEN initCount[m] + 1
                                                    ELSE initCount[m]]
    /\ updates' = [m \in Registry |->
                     IF Update(m, height - 1) THEN updates[m] \cup {height - 1}
                                              ELSE updates[m]]
    /\ setHeight' = height - 1
    /\ pc' = "idle"
    /\ UNCHANGED height

(* LedgerStorage::commit, second part: update_at_height at the new height *)
(* (initialize, then update, of every migration) and commit_storage.      *)
CommitMigrations ==
    /\ pc = "stored"
    /\ initCount' = [m \in Registry |->
                       IF Initialize(m, height) THEN initCount[m] + 1
                                                ELSE initCount[m]]
    /\ updates' = [m \in Registry |->
                     IF Update(m, height) THEN updates[m] \cup {height}
                                          ELSE updates[m]]
    /\ setHeight' = height
    /\ pc' = "idle"
    /\ UNCHANGED height

(* Mutant: the restarted node loads the migrations at height 0.           *)
RestartAtGenesis ==
    /\ pc' = "idle"
    /\ setHeight' = 0
    /\ UNCHANGED <<height, initCount, updates>>

(* A crash and restart: what was not committed is lost, and the           *)
(* migration set is loaded again at the stored height.                    *)
Restart ==
    /\ pc' = "idle"
    /\ setHeight' = height
    /\ UNCHANGED <<height, initCount, updates>>

Next == CommitStorage \/ CommitMigrations \/ Restart

Spec == Init /\ [][Next]_vars

-----------------------------------------------------------------------------
(* Properties.                                                             *)

(* A migration's initialize_fn runs at most once over the life of the     *)
(* store, crashes and restarts included.                                  *)
InitializeAtMostOnce == \A m \in Registry : initCount[m] <= 1

(* is_active never goes back: once a migration is active for the engine  *)
(* it stays active, across commits and restarts.                          *)
IsActiveMonotone ==
    [][\A m \in Registry : IsActive(m, setHeight) => IsActive(m, setHeight')]_vars

(* update_fn runs only at heights at or after the migration's block       *)
(* height (the doc comment of Migration::update: "when the storage block  *)
(* height >= the migration block height").                               *)
UpdateOnlyFromActivation ==
    \A m \in Registry : \A h \in updates[m] : h >= Migrations[m]

(* Once commit() has returned, every enabled Regular migration whose      *)
(* block height the store has reached has been initialized: a failure    *)
(* inside commit leaves no partial state on reopen.                       *)
ActiveMigrationsInitialized ==
    pc = "idle" =>
        \A m \in Registry :
            Enabled(m) /\ Kind[m] = "Regular" /\ Migrations[m] <= height
                => initCount[m] = 1
=============================================================================
