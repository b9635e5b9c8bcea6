----------------------------- MODULE LedgerStore -----------------------------
(***************************************************************************)
(* The ledger's token supply and identity store as LedgerStorage keeps     *)
(* them (src/many-ledger/src/storage/ledger_mintburn.rs, ledger.rs,        *)
(* idstore.rs, abci.rs) and the mint/burn endpoints that drive them        *)
(* (src/many-ledger/src/module/ledger_mintburn.rs).                        *)
(*                                                                         *)
(* As in KvStore, the merk tree is two stores: work, which apply() stages  *)
(* into and get() reads, and disk, what the last commit made durable.      *)
(* maybe_commit (not under src/) commits at once outside blockchain mode.  *)
(* A store holds the balances of every address and symbol, the supply of  *)
(* every symbol, /height, /config/idstore_seed and the idstore entries by  *)
(* recall phrase and by address.  The seeds handed out and how many calls  *)
(* handed them out are history fields of the store.                        *)
(***************************************************************************)
EXTENDS Naturals, FiniteSets, Functions

CONSTANTS
    Addrs,           \* the addresses that hold or receive tokens
    Anonymous,       \* Address::anonymous()
    Symbols,         \* the symbols the ledger knows (get_symbols)
    SymbolInputs,    \* the symbols clients name, unknown ones included
    Senders,         \* the senders of mint and burn
    ServerIdentity,  \* the identity under IDENTITY_ROOT
    TokenIdentity,   \* the identity under TOKEN_IDENTITY_ROOT, or Absent
    Owner,           \* the owner of every symbol, or Absent
    Maximum,         \* the maximum supply of every symbol, or Absent (None)
    InitialBalance,  \* the initial_balances passed to with_balances
    InitialSeed,     \* the maybe_seed passed to with_idstore (0 when None)
    Phrases,         \* recall phrases
    RawKeys,         \* the phrases whose bare CBOR is a key of the tree
    Creds,           \* the credentials (cred_id, public_key) stored
    Absent,          \* a missing value
    Blockchain,      \* LedgerStorage.blockchain
    TokenHeight,     \* the block height of the token migration
    MaxAmount,       \* bound on an amount of a distribution
    MaxOps,          \* bound on the number of mint, burn and store calls
    MaxHeight,       \* bound on the number of commits
    MaxSeed          \* bound on the idstore seed

ASSUME LedgerAssumption ==
    /\ IsFiniteSet(Addrs)
    /\ Symbols \subseteq SymbolInputs
    /\ InitialBalance \in [Addrs -> [Symbols -> Nat]]
    /\ Owner \in [Symbols -> Senders \cup {Absent}]
    /\ Maximum \in [Symbols -> Nat \cup {Absent}]
    /\ RawKeys \subseteq Phrases
    /\ Blockchain \in BOOLEAN
    /\ {InitialSeed, TokenHeight, MaxAmount, MaxOps, MaxHeight, MaxSeed}
         \subseteq Nat

(* A LedgerTokensAddressMap: amounts for some of the addresses.            *)
Distributions == UNION {[D -> 0..MaxAmount] : D \in SUBSET Addrs}

(* The sum of the amounts of a distribution.                               *)
Amount(dist) == SumFunction(dist)

Store == [bal : [Addrs -> [Symbols -> Nat]],
          circ : [Symbols -> Nat],
          total : [Symbols -> Nat],
          height : 0..MaxHeight,
          seed : Nat,
          handed : SUBSET Nat,
          issued : Nat,
          phrase : [Phrases -> Creds \cup {Absent}],
          byAddr : [Addrs -> Creds \cup {Absent}]]

VARIABLES
    work,   \* the in-memory merk tree, staged writes included
    disk,   \* the committed merk tree
    nOps    \* how many mint, burn and store calls there were

vars == <<work, disk, nOps>>

TypeOK ==
    /\ work \in Store
    /\ disk \in Store
    /\ nOps \in 0..MaxOps

(* get_multiple_balances of one symbol: the stored balance, none (read as *)
(* zero) when there is none, and none for the anonymous address, which    *)
(* get_all_balances never reads ("Anonymous cannot hold funds").          *)
ReadBalance(s, a, sym) == IF a = Anonymous THEN 0 ELSE s.bal[a][sym]

(* get_token_supply: the supply in the symbol's token info.                *)
TokenSupply(s, sym) ==
    [circulating |-> s.circ[sym], total |-> s.total[sym],
     maximum |-> Maximum[sym]]

(* maybe_commit: outside blockchain mode the tree is committed at once.    *)
MaybeCommit(w) ==
    /\ work' = w
    /\ disk' = IF Blockchain THEN disk ELSE w

(* Mutant: the maximum is checked against each amount, not their sum.     *)
MintTokenEachAmount(sym, dist) ==
    LET supply == TokenSupply(work, sym)
        minted == Amount(dist)
    IN /\ \A a \in DOMAIN dist : dist[a] # 0
       /\ \A a \in DOMAIN dist :
            supply.maximum # Absent => supply.circulating + dist[a] <= supply.maximum
       /\ MaybeCommit([work EXCEPT
            !.bal = [a \in Addrs |->
                       IF a \in DOMAIN dist
                       THEN [work.bal[a] EXCEPT ![sym] = ReadBalance(work, a, sym) + dist[a]]
                       ELSE work.bal[a]],
            !.circ[sym] = @ + minted,
            !.total[sym] = @ + minted])

(* mint_token: every amount is non-zero, the circulating supply plus the  *)
(* amounts so far stays within the maximum, every new balance is the one  *)
(* read plus the amount; the balances and the token info go in one batch. *)
MintToken(sym, dist) ==
    LET supply == TokenSupply(work, sym)
        minted == Amount(dist)
    IN /\ \A a \in DOMAIN dist : dist[a] # 0
       /\ supply.maximum # Absent => supply.circulating + minted <= supply.maximum
       /\ MaybeCommit([work EXCEPT
            !.bal = [a \in Addrs |->
                       IF a \in DOMAIN dist
                       THEN [work.bal[a] EXCEPT ![sym] = ReadBalance(work, a, sym) + dist[a]]
                       ELSE work.bal[a]],
            !.circ[sym] = @ + minted,
            !.total[sym] = @ + minted])

(* Mutant: the burnt amount is taken off the total supply only.          *)
BurnTokenTotalOnly(sym, dist) ==
    LET burnt == Amount(dist)
    IN /\ \A a \in DOMAIN dist :
            /\ dist[a] # 0
            /\ dist[a] <= ReadBalance(work, a, sym)
       /\ MaybeCommit([work EXCEPT
            !.bal = [a \in Addrs |->
                       IF a \in DOMAIN dist
                       THEN [work.bal[a] EXCEPT ![sym] = ReadBalance(work, a, sym) - dist[a]]
                       ELSE work.bal[a]],
            !.total[sym] = @ - burnt])

(* Mutant: the balance is not checked against the amount.               *)
BurnTokenUnchecked(sym, dist) ==
    LET burnt == Amount(dist)
    IN /\ \A a \in DOMAIN dist : dist[a] # 0
       /\ MaybeCommit([work EXCEPT
            !.bal = [a \in Addrs |->
                       IF a \in DOMAIN dist
                       THEN [work.bal[a] EXCEPT ![sym] = ReadBalance(work, a, sym) - dist[a]]
                       ELSE work.bal[a]],
            !.circ[sym] = @ - burnt,
            !.total[sym] = @ - burnt])

(* burn_token: every amount is non-zero and at most the balance read;     *)
(* the balances and the token info go in one batch.                       *)
BurnToken(sym, dist) ==
    LET burnt == Amount(dist)
    IN /\ \A a \in DOMAIN dist :
            /\ dist[a] # 0
            /\ dist[a] <= ReadBalance(work, a, sym)
       /\ MaybeCommit([work EXCEPT
            !.bal = [a \in Addrs |->
                       IF a \in DOMAIN dist
                       THEN [work.bal[a] EXCEPT ![sym] = ReadBalance(work, a, sym) - dist[a]]
                       ELSE work.bal[a]],
            !.circ[sym] = @ - burnt,
            !.total[sym] = @ - burnt])

(* check_symbol_exists.                                                    *)
CheckSymbolExists(sym) == sym \in Symbols

(* verify_mint_burn_identity: the token identity if one is stored, else   *)
(* the server identity; otherwise the owner of the symbol.                *)
VerifyMintBurnIdentity(sender, sym) ==
    \/ sender = IF TokenIdentity # Absent THEN TokenIdentity ELSE ServerIdentity
    \/ sym \in DOMAIN Owner /\ Owner[sym] # Absent /\ sender = Owner[sym]

(* is_active(TOKEN_MIGRATION), the migrations being at the stored height. *)
TokenMigrationActive == TokenHeight <= work.height

(* mint: the token migration gate, the identity and symbol checks, then   *)
(* mint_token (log_event is modelled by EventId).                          *)
Mint(sender, sym, dist) ==
    /\ nOps < MaxOps
    /\ TokenMigrationActive
    /\ VerifyMintBurnIdentity(sender, sym)
    /\ CheckSymbolExists(sym)
    /\ MintToken(sym, dist)
    /\ nOps' = nOps + 1

(* burn: as mint, and a request that allows a partial burn                *)
(* (error_on_under_burn = Some(false)) is refused.                        *)
Burn(sender, sym, dist, underBurn) ==
    /\ nOps < MaxOps
    /\ TokenMigrationActive
    /\ VerifyMintBurnIdentity(sender, sym)
    /\ CheckSymbolExists(sym)
    /\ underBurn # "false"
    /\ BurnToken(sym, dist)
    /\ nOps' = nOps + 1

(* Mutant: the seed is read from the committed tree.                       *)
IncIdstoreSeedCommitted ==
    /\ work.seed < MaxSeed
    /\ MaybeCommit([work EXCEPT !.seed = disk.seed + 1,
                                !.handed = @ \cup {disk.seed},
                                !.issued = @ + 1])
    /\ UNCHANGED nOps

(* inc_idstore_seed: hand out the stored seed, stage seed + 1.             *)
IncIdstoreSeed ==
    /\ work.seed < MaxSeed
    /\ MaybeCommit([work EXCEPT !.seed = @ + 1,
                                !.handed = @ \cup {work.seed},
                                !.issued = @ + 1])
    /\ UNCHANGED nOps

(* store: refuse the entry if the key recall_phrase_cbor exists (the bare *)
(* CBOR of the phrase), else write the credential under /idstore/00 and   *)
(* the phrase, and under /idstore/01 and the address.                     *)
StoreCredential(p, a, c) ==
    /\ nOps < MaxOps
    /\ p \notin RawKeys
    /\ MaybeCommit([work EXCEPT !.phrase[p] = c, !.byAddr[a] = c])
    /\ nOps' = nOps + 1

(* commit: inc_height stages /height + 1 and the tree is committed (the   *)
(* migrations are modelled by Migration, the event id reset by EventId).  *)
Commit ==
    /\ work.height < MaxHeight
    /\ LET w == [work EXCEPT !.height = @ + 1]
       IN work' = w /\ disk' = w
    /\ UNCHANGED nOps

(* A crash and load: the tree is reopened from disk.                       *)
Restart ==
    /\ work' = disk
    /\ UNCHANGED <<disk, nOps>>

(* with_balances: the initial balances; the supply of every symbol is     *)
(* what the token migration sets up from them.                            *)
WithBalances ==
    [bal |-> InitialBalance,
     circ |-> [sym \in Symbols |-> SumFunction([a \in Addrs |-> InitialBalance[a][sym]])],
     total |-> [sym \in Symbols |-> SumFunction([a \in Addrs |-> InitialBalance[a][sym]])],
     height |-> 0, seed |-> 0, handed |-> {}, issued |-> 0,
     phrase |-> [p \in Phrases |-> Absent], byAddr |-> [a \in Addrs |-> Absent]]

(* with_idstore: the seed, when one is given, is put under its key.       *)
WithIdstore(s) == [s EXCEPT !.seed = InitialSeed]

Init ==
    /\ work = WithIdstore(WithBalances)
    /\ disk = work
    /\ nOps = 0

Next ==
    \/ \E sender \in Senders, sym \in SymbolInputs, dist \in Distributions :
         Mint(sender, sym, dist)
    \/ \E sender \in Senders, sym \in SymbolInputs, dist \in Distributions,
          underBurn \in {"none", "true", "false"} :
         Burn(sender, sym, dist, underBurn)
    \/ IncIdstoreSeed
    \/ \E p \in Phrases, a \in Addrs, c \in Creds : StoreCredential(p, a, c)
    \/ Commit
    \/ Restart

Spec == Init /\ [][Next]_vars

-----------------------------------------------------------------------------
(* Properties.                                                             *)

(* The supply covers the balances, in the working tree and in the        *)
(* committed one, across mints, burns, commits and crashes: the total     *)
(* supply is the circulating one, and no balance is held that the         *)
(* circulating supply does not count (mint_token and burn_token write      *)
(* both in one batch).  Equality does not hold when the anonymous address  *)
(* is an address: mint_token overwrites its balance, read as zero.         *)
SupplyCoversBalances ==
    \A s \in {work, disk}, sym \in Symbols :
        /\ s.total[sym] = s.circ[sym]
        /\ SumFunction([a \in Addrs |-> s.bal[a][sym]]) <= s.circ[sym]

(* No sequence of mints takes the circulating supply of a symbol past its *)
(* maximum.                                                                *)
SupplyWithinMaximum ==
    \A sym \in Symbols :
        Maximum[sym] # Absent => work.circ[sym] <= Maximum[sym]

(* inc_idstore_seed never hands out the same seed twice among the calls   *)
(* the tree keeps, staged or committed.                                    *)
IdstoreSeedsUnique ==
    \A s \in {work, disk} : Cardinality(s.handed) = s.issued

(* A recall phrase, once durably bound to a credential, stays bound to it *)
(* (store refuses an existing entry).                                     *)
RecallPhraseBindingStable ==
    [][\A p \in Phrases :
         disk.phrase[p] # Absent => disk'.phrase[p] = disk.phrase[p]]_vars
=============================================================================
