# Formal models of many-rs

TLA+ models of the parts of many-rs (`src/src/`) where the order of events matters. These are:

* the ABCI bridge between Tendermint and a MANY backend, with its query path;
* the request-validator cache that the bridge shares between its two connections;
* the height-gated migration engine, as the ledger's `commit` drives it;
* the key-value store's storage, with its staged and durable trees;
* event ids;
* the ledger's token supply (mint and burn) and its idstore.

Each model is checked with TLC on small instances. Every safety invariant that a passing run checks is also proved with TLAPS for every instance of the constants. The ledger's supply theorems carry the hypotheses stated in the Proofs section.

## The system

```
 Tendermint ──check_tx──▶ AbciApp (many-abci) ──validate_envelope──▶ RequestValidator cache
            ──begin/deliver/end/commit──▶ AbciApp ──HTTP send_envelope──▶ ManyServer::execute
                                                  ──message_executed──▶ cache (write lock)
 Tendermint ──query──▶ AbciApp ──HTTP send_envelope──▶ ManyServer::execute        (no cache, no consensus)
 ManyServer ──abci.commit──▶ LedgerStorage::commit ──▶ inc_height; commit_storage; update_at_height; commit_storage; latest_tid reset
 ManyServer ──ledger.mint/burn──▶ LedgerModuleImpl ──▶ LedgerStorage::mint_token/burn_token ──▶ apply batch; maybe_commit
 ManyServer ──kvstore.put/disable/transfer──▶ KvStoreStorage ──▶ apply; log_event; (immediate mode) commit
```

* **ABCI bridge** (`many-abci/src/abci_app.rs`)
  * `check_tx` runs on the mempool connection, one request at a time. It deserialises the envelope, takes the cache's read lock and rejects an envelope the cache has seen (code 10). It then releases the lock (abci_app.rs:155), reads the last block time and checks the timestamp against it (codes 7 and 9), and only then answers. `deliver_tx` may run between the two halves.
  * `deliver_tx` runs on the consensus connection. It forwards the envelope to the backend and normalises the answer. It rewrites attribute-specific error codes once the `legacy_error_code` migration is active. It then records the envelope with `message_executed` under the cache's write lock and encodes the answer.
  * `begin_block` stores the header's time and moves the bridge's migrations to the header's height.
* **Request validator** (`many-server/src/validator.rs`): the `validate_envelope`, `validate_request` and `message_executed` hooks.
* **Backend** (`many-server/src/server.rs`): `execute` rejects a message outside the time window (`_validate_time`), and otherwise runs it in its module.
* **Migrations** (`many-migration/src/lib.rs`)
  * `load_migrations` turns the JSON configuration into enabled migrations.
  * `Migration::initialize`, `update` and `hotfix` are guarded by the block height.
* **Ledger commit** (`many-ledger/src/storage/abci.rs`): increments the height and commits durably. It then runs the migrations at the new height, commits again, and resets the event id to `height << HEIGHT_EVENTID_SHIFT`.
* **Key-value store storage** (`many-kvstore/src/storage.rs`): writes go to a merk tree. In blockchain mode they are made durable only by `commit`, which also stores `/latest_event_id`. In immediate mode every `put`, `disable` and `transfer` commits at once.
* **Event ids** (`many-modules/src/_4_events.rs`): an `EventId` is a byte vector. `From<u64>` gives eight bytes, `Add<u32>` goes through `BigUint` and back to the minimal encoding, and the order is the derived, lexicographic one.
* **Ledger storage** (`many-ledger/src/storage/{ledger,ledger_mintburn,idstore}.rs`, `module/ledger_mintburn.rs`): balances, the token supply, mint and burn behind the token migration and the identity check, and the idstore (seed counter, recall phrases).

## Modules

| Module | Models | State | Actions |
|---|---|---|---|
| `AbciBridge` | `abci_app.rs`, `_validate_time` and `execute` of `server.rs` | `blockTime`, `migHeight`, `height`, `phase`, `txInBlock`, `cache`, `poisoned`, `executed` (backend executions per envelope), `queried` (commands run through query), `mempool`, `checking` (the envelope whose check is past the cache section), `responses` | `BeginBlock`, `CheckValidate`, `CheckTime`, `DeliverMalformed`, `DeliverTransportError`, `DeliverAnswered`, `Query`, `EndBlock`, `Commit` |
| `MCAbciBridge` | instance: 4 envelopes (one malformed, one not a message), times 0..1, two blocks of one transaction | | |
| `AbciBridgeProofs` | TLAPS proofs about `AbciBridge`: types, resubmission refused by the cache | | |
| `AbciBridgeSafety` | TLAPS proofs of the bridge's other safety properties | | |
| `Migration` | `lib.rs` guards and `load_migrations`; `LedgerStorage::commit` | `height`, `pc` (between the two commits), `setHeight` (height of the loaded migration set), `initCount`, `updates` | `CommitStorage`, `CommitMigrations`, `Restart` |
| `MigrationProofs` | TLAPS proofs about `Migration` | | |
| `MCMigration` | instance: three regular migrations and a hotfix, one name configured twice | | |
| `AppendOnlyStore` | abstract: what a reader of a reopened store sees | `log`, `view` | `Grow` |
| `KvStore` | `storage.rs` of the kvstore | `work` (staged tree), `disk` (committed tree), `latestEventId`, `nextSubresource`, `nLogged` | `Put`, `Disable`, `Transfer`, `NewSubresourceId`, `Commit`, `Restart` |
| `KvStoreProofs` | TLAPS proofs about `KvStore`, including its refinement of `AppendOnlyStore` | | |
| `MCKvStore` | instance: two keys, one value, two owners | | |
| `EventId` | `_4_events.rs` arithmetic and order; the ledger's id reset | `height`, `latestTid`, `inBlock`, `prevId`, `lastId` | `LogEvent`, `Commit` |
| `LedgerStore` | ledger balances, supply, mint/burn, idstore | `work`, `disk` (records of balances, supply, height, seed, phrases), `nOps` | `Mint`, `Burn`, `IncIdstoreSeed`, `StoreCredential`, `Commit`, `Restart` |
| `LedgerStoreProofs` | TLAPS proofs about `LedgerStore`: types, the supply, the maximum, the idstore seeds | | |
| `SumFunctionFacts` | TLAPS lemmas about `SumFunction` of the community modules: the fold exists and can be unfolded at any element; sums are congruent, linear, and monotone under pointwise updates | | |
| `MCLedgerStore` | instance: two addresses (or one and anonymous), one symbol and an unknown one, maximum 3 | | |

How the code maps to the model:

* **Envelopes.** An envelope is a model value. `Malformed`, `NotMessage` and `Invalid` are the envelopes that `CoseSign1::from_slice`, `RequestMessage::try_from` and `validate_request` reject. `TimestampOf` gives each envelope's timestamp.
* **`check_tx`** is two actions, split where `do_check_tx` releases the cache lock.
  * `CheckValidate(e)` runs the first half: decoding, the poisoned lock, `validate_envelope` and `validate_request` (`ValidateCode`, codes 4, 5, 6, 10, in the code's order). A failing check answers and changes nothing. A passing one sets `checking`.
  * `CheckTime` runs the second half (`TimeCode`, codes 7 and 9) against the block time read then, and on Success adds the envelope to the mempool.
  * Tendermint has one mempool connection, so at most one check is in flight. Code 8 (`as_system_time` failing) cannot occur for a u64 second count and is left out.
* **Responses** keep the height, envelope, code, the backend's answer and the rewritten one. The normalised fields (anonymous sender, EPOCH timestamp) are constants in the code and are not represented.
* **`deliver_tx`** is three actions, one per outcome of its `match`:
  * the envelope does not deserialise (code 2);
  * `send_envelope` fails (code 1), possibly after the backend executed the envelope;
  * the backend answered. This action covers normalisation, the legacy rewrite, `message_executed` and encoding (code 0 or 3). A failing `message_executed` panics with the write lock held, which poisons the lock (`poisoned`).
* **The consensus engine's part** (`Include`): one more transaction in the block, removed from the mempool.
* **The poisoned lock.** After the panic, the consensus connection's thread is gone, so no further block step is taken. A `check_tx` that starts afterwards answers code 6. One already past the cache section completes.
* **The backend's answer** is one of four classes: "ok", an attribute-specific error, Unknown, or another error.
* **The migration set the bridge holds** is reduced to the height of its last `update_at_height`. `is_active` of `legacy_error_code` is `LegacyHeight <= migHeight`.
* **The migration set type.** `MigrationSet` (`update_at_height`, `is_active`, `load`) and the ledger's `inc_height`, `commit_storage` and `load` are not in `src/`. They are modelled from the spec and marked `spec_modelled` in `PROJECT.json`.
* **Crashes.** A crash may happen at any point of `commit`. `Restart` keeps what was committed and reloads the migration set at the stored height.
* **`query`** runs on its own connection at any time, also after the lock is poisoned. `Commands` are the envelopes whose method changes state. A command the backend runs successfully through query is added to `queried`.
* **Staged and durable trees.** `KvStore` and `LedgerStore` keep two copies of the store. `work` is the merk tree that `apply` writes into and reads come from. `disk` is what the last `commit` made durable. `Restart` (a crash and `load`) replaces `work` by `disk` and re-reads the in-memory counters from their reserved keys.
* **kvstore events.** An event is the serial number of its `log_event` call, so no two events are equal. `log_event` (`event.rs`) is not under `src/`, so it is modelled from the spec.
* **Event ids** are byte sequences. `MinimalBE`, `FixedBE` and `ValueBE` are recursive functions (not RECURSIVE operators) for `to_bytes_be`, `to_be_bytes` and `from_bytes_be`.
* **Balances** are a function from addresses to symbols to amounts. A mint or burn distribution is a partial function from addresses to `0..MaxAmount`. `ReadBalance` returns 0 for the anonymous address, as `get_multiple_balances` returns no entry for it. `Mint` and `Burn` check, in the code's order: the token migration (`TOKEN_MIGRATION`), the identity (token identity, else server identity, else the symbol's owner), the symbol, and then the storage operation. The batch and `maybe_commit` are part of the same action.
* **The idstore.** `IncIdstoreSeed` hands out the working seed and stages seed + 1. `StoreCredential` models `store` with its existence check on the raw CBOR key (`RawKeys`, the keys stored without the `/idstore/00` prefix). In the instance no such key exists, as in the code.

## Runs

| Run | cfg | Result | Shows |
|---|---|---|---|
| `abci_bridge` | `MCAbciBridge.cfg` | pass, 212,168 states | cache coverage, legacy rewrite, resubmission refused |
| `abci_at_most_once` | `MCAbciBridgeReplay.cfg` | violation | an envelope can be executed twice |
| `migration` | `MCMigration.cfg` | pass, 166 states | initialize at most once, `is_active` monotone across restarts |
| `migration_update_guard` | `MCMigrationUpdate.cfg` | violation | `update` runs before activation |
| `migration_crash` | `MCMigrationCrash.cfg` | violation | a crash between the two commits skips `initialize` |
| `abci_query` | `MCAbciBridgeQuery.cfg` | violation | query executes a command outside consensus |
| `kvstore` | `MCKvStore.cfg` | pass, 121,332 states | the durable counter covers durable events; no subresource id reissued; refines `AppendOnlyStore` |
| `kvstore_immediate` | `MCKvStoreImmediate.cfg` | violation | in immediate mode a crash makes a durable event be overwritten |
| `eventid_genesis` | `MCEventIdGenesis.cfg` | violation | the genesis reset: block 2 reuses block 1's event ids |
| `eventid_order` | `MCEventIdOrder.cfg` | violation | `[1,1] < [17]` in EventId's order |
| `ledger_store` | `MCLedgerStore.cfg` | pass, 23,487 states | with anonymous among the addresses, the supply covers the balances and stays within the maximum; seeds unique |
| `ledger_idstore_rebind` | `MCLedgerIdstore.cfg` | violation | a recall phrase is rebound |

Properties of `AbciBridge`:

* `ResubmitRejected` (an action property): a `check_tx` that starts after `deliver_tx` answered Success for an envelope never gets past the cache. It does not say that a delivered envelope never reaches the mempool: that fails, since a check already past the cache section when `deliver_tx` runs goes on to admit it. TLC finds that interleaving (`CheckValidate`, `DeliverAnswered`, `CheckTime`) on this instance. It has no run of its own because its harm, a second execution, is already shown by `abci_at_most_once`: `deliver_tx` never consults the cache.
* `CacheCoversExecution`: every envelope the backend executed is cached, unless its answer was lost (code 1) or the cache was poisoned.
* `LegacyRewriteMonotone`: once an attribute error has been rewritten in some block, it is rewritten in every later block.
* `QueryReadOnly` (violation run only): no command is executed through query.

Properties of `KvStore`:

* `StoredCounterCoversEvents`: the durable `/latest_event_id` is at least the id of every durable event.
* `SubresourceNeverReissued`: a subresource id whose handing-out is durable stays below the in-memory counter, across crashes.
* `Refinement`: `KvStore` implements `AppendOnlyStore`. The refinement mapping takes the durable events in id order as the log and `get` on the durable tree as the view. Across commits and crashes, the log only grows, and the view changes only together with a new event.

Properties of `EventId` (violation runs only): `IdsIncreaseNumerically` says each id is larger than the previous one. `OrdMatchesValue` says the derived order agrees with the integer order.

Properties of `LedgerStore`:

* `SupplyCoversBalances`: in both the working and the durable store, the total supply of each symbol equals the circulating one, and the circulating supply is at least the sum of the balances. The run has the anonymous address among the addresses (`Addrs <- MCAddrsAnon`). Equality with the sum does not hold there. `get_multiple_balances` returns no balance for anonymous (ledger.rs:70), so a second mint to it overwrites the balance while the supply adds the amount. TLC finds this after two mints. The property claims only what the code keeps.
* `SupplyWithinMaximum`: the circulating supply never exceeds the token's maximum.
* `IdstoreSeedsUnique`: the number of seeds handed out equals the number of seed increments, in the working and in the durable store, so no seed is handed out twice.
* `RecallPhraseBindingStable` (violation run only): a durable recall phrase keeps its credential.

Properties of `Migration`:

* `InitializeAtMostOnce`: spec, item 7 of the migration rules.
* `IsActiveMonotone`.

Each property of a passing run has a mutant in `PROJECT.json`: a plausible bug in a mapped definition that TLC catches. Examples are skipping the cache check, taking a burn off the total supply only, and reloading migrations at genesis.

**Bounds.**

* **Bridge.** Two blocks with one transaction each and four envelopes. This is enough for an envelope to be delivered and resubmitted in the next block, for a check to straddle a delivery, for an answer to be lost after execution, and for `message_executed` to panic. `Timeout = 1` over times 0..1 makes the time window accept a timestamp equal to the block time and reject a difference of exactly the timeout. `LegacyHeight = 1` with header-less `begin_block` allowed gives blocks both before and after the activation. A third block or a second transaction per block took more than 5 minutes with the split `check_tx`.
* **Migration.** Heights up to 12 with block heights 1, 2 and 3. This covers commits before, at and after every activation, a duplicated configuration entry, and a restart at every point.
* **kvstore.** Two keys, three events, two commits and two subresource ids. This is enough for a write, a commit, a second write and a crash in either order.
* **Event ids.** `HEIGHT_EVENTID_SHIFT` is 4 in the instance, for small numbers. The order violation needs an id above 255, so the order run goes up to height 18.
* **Ledger.** Amounts up to 2 with a maximum of 3, so that a second mint can exceed the maximum. Four operations, enough for two mints to anonymous, and two commits.
* **Integers.** TLC's integers are 32-bit. The u64 overflow of `height << HEIGHT_EVENTID_SHIFT` is therefore out of reach and is not checked.

**Fairness.** No run assumes fairness, and every property checked is a safety property. The code has no progress of its own to check: each handler runs when the consensus engine calls it.

## Findings

1. **An envelope can be executed twice** (`abci_at_most_once`).
   * Cause: `deliver_tx` never consults the cache (abci_app.rs:313). When the HTTP answer is lost after the backend executed the envelope, it is never recorded (abci_app.rs:381).
   * Result: the same envelope passes `check_tx` in a later block and runs again.
   * Spec says the cache is an at-most-once admission layer.
2. **`Migration::update`'s guard is inverted** (lib.rs:164).
   * The code tests `metadata.block_height >= h`, so `update_fn` runs at every height up to the activation height and never after it.
   * The doc comment on the line above says the opposite.
3. **A crash inside `LedgerStorage::commit` can skip a migration forever** (abci.rs:23–32).
   * The new height is committed before the migrations run. If the process stops before the second commit, the store reopens at the activation height without `initialize` having run, and it never runs later.
   * Spec says a failed `commit()` leaves no partial state observable on reopen.

4. **query executes commands** (`abci_query`, abci_app.rs:227). Any envelope that deserializes is sent to the backend. A command then runs outside consensus, on one node. The spec says query does no state mutation.
5. **Immediate-mode kvstore reuses event ids after a crash** (`kvstore_immediate`, storage.rs:297). `put` commits without writing `/latest_event_id`, so `load` resumes from a stale id and overwrites a durable event.
6. **Event ids repeat at the genesis boundary** (`eventid_genesis`, abci.rs:37). `latest_tid` is reset from the height before the increment. At the first commit that is `0 << SHIFT`, the same id `[0]` the store was initialized with, so the second block's events reuse the first block's ids. After commit k (k ≥ 2) the next block starts at `(k-1) << SHIFT`, above the ids before it.
7. **EventId's order is not numeric** (`eventid_order`, `_4_events.rs:81`). The minimal re-encoding by `Add<u32>` combined with the lexicographic `Ord` puts `[1,1]` below `[17]`.
8. **The idstore never detects an existing recall phrase** (`ledger_idstore_rebind`, idstore.rs:107). The check uses the key without the `/idstore/00` prefix.

## Proofs

TLAPS checks every theorem below for all values of the constants that satisfy each module's `ASSUME`. TLC also evaluates those assumptions on every run. Each invariant was first checked with TLC on its run's instance, together with the strengthening its proof uses. Each safety proof has the same three parts: `Init => IInv`, `IInv /\ [Next]_vars => IInv'`, and `IInv => Inv`. The step proof has one case per action.

### The bridge (`AbciBridgeProofs`, `AbciBridgeSafety`)

The assumptions are `EnvelopeAssumption`, `TimeAssumption`, `BoundAssumption` and `NoneAssumption` (`Option::None` is not one of the backend's answers).

* **`TypeCorrect`: `Spec => []TypeOK`.** `TypeOK` is inductive.
  * Zenon proves the Boolean `poisoned`. SMT proves the arithmetic conjuncts (`TypeData`).
  * The lemmas `TypeSplit` and `TypeSplitPrime` join the two parts.
* **`ResubmitRejectedHolds`: `Spec => ResubmitRejected`.** The action property rests on the invariant `ResubmitInv`: every envelope answered with Success is in the cache. `DeliverAnswered` records Success only when `message_executed` succeeded, which also caches the envelope. On the panic it records nothing. Then the only step that moves `checking` from None to an envelope is `CheckValidate`, and it passes only an uncached envelope (lemma `ValidatedUncached`), so the envelope was not delivered.
* **`ExecutionsCovered`: `Spec => []CacheCoversExecution`.** The inductive invariant is `TypeOK /\ CacheCoversExecution`. `DeliverTransportError` may execute an envelope without caching it, but it records the TransportRequestError that excuses it.
* **`LegacyRewriteMonotoneHolds`: `Spec => []LegacyRewriteMonotone`.** The strengthening `LegacyInv` relates three things: the height of the loaded migration set, the block height, and the recorded responses. It says:
  * `migHeight <= height`;
  * every response is from a height at most `height`;
  * an attribute error rewritten to Unknown means the legacy migration is active at `migHeight`;
  * in the current block, an attribute error is rewritten exactly when the migration is active.

  Because `is_active` is monotone in the height (lemma `ActiveGrows`), no later block can answer without the rewrite.

### Migrations (`MigrationProofs`)

The assumptions are `RegistryAssumption`, `ConfigAssumption` and `HeightAssumption`.

* **`TypeCorrect`.** The proof uses `TypeInv`, which adds that a stored-but-unmigrated state has a height in `1..MaxHeight`.
* **`InitializeOnce`: `Spec => []InitializeAtMostOnce`.** The strengthening `OnceInv` says that a migration initialized once has its activation height at or below `height`. In the window between the two commits, that height is also different from the stored height. So neither `CommitMigrations` nor a `Restart` that replays the window can run `initialize` a second time.
* **`ActiveStaysActive`: `Spec => IsActiveMonotone`.** The invariant `MonoInv` says `setHeight <= height`, and every step keeps `setHeight` the same or larger. A migration's height in the configuration is that of its last entry. Lemma `LastEntryExists` proves that entry exists with a least-element argument (`WFMin` over `<` on `Nat`). Lemma `MigrationHeightNat` proves the height is a natural number.

### The kvstore (`KvStoreProofs`)

The assumption is `KvAssumption`. Its conjunct `Absent \notin EventIds` says that the "no event" marker is not an event id.

* **`TypeCorrect`.** The proof uses `TypeInv`, which adds that the in-memory and both stored event counters are at most the number of `log_event` calls. The tree writes of put, disable and transfer are proved once (lemmas `MutateFacts`, `MutateType`), and the lemma `NextCases` reduces `Next` to them.
* **`SubresourcesUnique`: `Spec => []SubresourceNeverReissued`.** The strengthening `SubInv` has three parts:
  * the staged `/config/subresource_id` equals `next_subresource`;
  * the durable one is at most `next_subresource`;
  * in both trees, every id handed out is below the stored counter.

  A restart reloads `next_subresource` from the durable tree, so it stays above every durable id.
* **`StoredCounterCovers` (blockchain mode only).** This theorem assumes `Blockchain = TRUE`. The `kvstore_immediate` run shows that `put` can commit an event without its counter outside blockchain mode. The strengthening `CounterInv` bounds the staged events by `latest_event_id`. In blockchain mode, only `commit` writes the disk, and it stages the counter at the same time.
* **`KvRefinement`: `ASSUME Blockchain = TRUE PROVE Spec => Refinement`.** The kvstore implements `AppendOnlyStore`.
  * The invariant `RefInv` says three things:
    1. In both trees, the events are exactly ids `1..latest` (`EventsUpTo`).
    2. The staged and the durable events agree up to the durable counter.
    3. When no event is pending, the staged data and ACL equal the durable ones.
  * With `RefInv`, `DurableLog` is `LogOf(disk)` (lemma `ReadLogIs`, via `FS_Interval`).
  * Every step except `Commit` leaves `disk` unchanged: a stutter.
  * A `Commit` with no pending event is a stutter by (3).
  * A `Commit` with pending events is a `Grow`: the old log is a strict prefix of the new one (lemma `LogGrows`).

### The ledger (`LedgerStoreProofs`)

The assumption is `LedgerAssumption`. Its first conjunct, `IsFiniteSet(Addrs)`, is what makes a sum of balances a sum: the ledger has finitely many accounts.

The supply proofs rest on `SumFunctionFacts`. `SumFunction` is a fold, a recursive function over the subsets of a finite set, and TLAPS reads a recursive function as a `CHOOSE` of a function that satisfies its equation. The module first shows that such a function exists. It builds it layer by layer, over the subsets of at most `k` elements (`LayerExists`). It then shows that any two such functions agree (`IterAgree`), so the sum can be unfolded at any element, not only the one the fold `CHOOSE`s (`SumRemove`). The induction theorems of the library take an operator parameter, which the installed provers cannot instantiate. Every induction is therefore a least-counterexample argument: `LeastNat`, from `WFMin` and `NatLessThanWellFounded`, picks the smallest size of a set on which a named predicate fails, and the proof shows that a smaller one fails too. The lemma the ledger uses most is `SumShift`. If a function is raised pointwise by at most an extension, its sum is raised by at most the extension's sum, and by exactly that when the raise is exact.

* **`SeedsUnique`: `Spec => []IdstoreSeedsUnique`.** The strengthening `SeedInv` applies to both trees (`SeedsOf`). In each, the seeds handed out form a finite set of naturals below the stored seed, with as many elements as calls. `IncIdstoreSeed` adds the current seed, which is new because it is not below itself (`FS_AddElement`). Mint, burn and store keep the seed fields (`KeepsSeeds`). `maybe_commit` copies the staged tree or leaves the disk alone.
* **`TypeCorrect`: `Spec => []TypeOK`.** `TypeOK` is not inductive alone. `burn_token` subtracts the amount from the supply, and the result stays a natural only because the supply covers the sum of the balances the amount is drawn from. The strengthening is `SupplyInv == TypeOK /\ Covered(work) /\ Covered(disk)`, where `Covered(s)` says that the total supply equals the circulating one and that the circulating one is at least the sum of the balances. Mint raises that sum by at most the amount (`MintedSum`); the anonymous address's balance is overwritten, not added to. Burn lowers it by exactly the amount (`BurntSum`), since every amount is at most the balance read. Both facts come from `SumShift` applied to the distribution extended by zeros (`Ext`). Seed, store and commit leave the balances and supplies alone (`QuietStep`).
* **`SupplyCovers`: `Spec => []SupplyCoversBalances`.** This theorem has no hypothesis on the addresses; anonymous may be one of them. It follows from `SupplyInv`, the invariant behind `TypeCorrect`, since `Covered` is the property on each tree. Equality with the sum is not claimed, because a mint to anonymous overwrites its balance.
* **`SupplyCapped`: `ASSUME InitialWithinMaximum PROVE Spec => []SupplyWithinMaximum`.** The invariant is `CapInv == SupplyInv /\ Capped(work) /\ Capped(disk)`. Capped applies to the durable tree too, because a restart reloads it. Mint is guarded by the supply plus the whole amount, and burn only lowers the supply. `with_balances` does not check the initial balances against the maximum, so that is the hypothesis. `MCLedgerStore` satisfies it, with a supply of 1 and a maximum of 3.

### What stays with TLC

* **The violation runs' properties** are false by design, and TLC's counterexamples are the result. They include the `EventId` properties (`IdsIncreaseNumerically`, `OrdMatchesValue`). `EventId`'s byte encodings are recursive functions. Proving what they compute for every input would need induction over data, which the installed provers cannot do.
* **The refinement and the counter property outside blockchain mode** do not hold (the `kvstore_immediate` finding).

## Not modelled

* **Accounts.** `module/account.rs` works on account storage (`storage/account.rs`) that is not under `src/`. Modelling it would mean modelling from the spec alone.
* **The data module's counters, multisig, and the root hash.** The error text returned as the commit hash is listed as a hazard.
* **The tuple validator's partial failure** (validator.rs:81). A failing `message_executed` panics with the lock held, so afterwards no check that starts reads either cache. The model keeps the poisoned lock, which is what can be observed.
* **The cache's retention window** (spec).
* **Liveness of the bridge.** An admitted envelope is eventually delivered only if the consensus engine includes it, and that is Tendermint's choice, not this code's.
* **The CLI, the HTTP transport and the CBOR types.** These are I/O or pure encoding. The loss of an HTTP answer is modelled inside the bridge. The CLI's polling loop, which returns success after 60 polls, is listed as a hazard.
* **u64 overflow**, which is beyond TLC's integers.
* **The validator combinators** (validator.rs: `ValidateOnlyRequestValidator`, `Box`, the pair), **and `ManyServer`'s module registry** (`add_module`, `find_module`, `validate_id`, `status`). The bridge holds a single cache, and its effect is modelled. The registry is built once at startup, and a conflict panics before the server serves anything.
